------------------------------ MODULE RemoteCall ------------------------------
(***************************************************************************)
(* What one TCP call promises its two ends: the callee acts on the very    *)
(* request that was sent, at most once, and the caller either gets the     *)
(* very answer the callee gave or learns that it got none -- which tells   *)
(* it nothing of whether the request has been, or will yet be, acted on.   *)
(*                                                                         *)
(* The calls of ReservationService, Failover and Heartbeat are made of     *)
(* these steps; module Framing shows that the protocol provides them.      *)
(***************************************************************************)
CONSTANTS Message, Unavailable, None

VARIABLES
    request,   \* what the caller asks
    handled,   \* what the callee acted on, or None
    answer,    \* what the callee answers, or None
    result     \* what the caller is left with: an answer, Unavailable, None

callVars == <<request, handled, answer, result>>

Init ==
    /\ request \in Message
    /\ handled = None
    /\ answer = None
    /\ result = None

Handle ==
    /\ handled = None
    /\ handled' = request
    /\ UNCHANGED <<request, answer, result>>

Answer ==
    /\ handled # None
    /\ answer = None
    /\ answer' \in Message
    /\ UNCHANGED <<request, handled, result>>

Return ==
    /\ result = None
    /\ answer # None
    /\ result' = answer
    /\ UNCHANGED <<request, handled, answer>>

GiveUp ==
    /\ result = None
    /\ result' = Unavailable
    /\ UNCHANGED <<request, handled, answer>>

Next == Handle \/ Answer \/ Return \/ GiveUp

Steps == Init /\ [][Next]_callVars

(* The caller is not left waiting. *)
Spec == Steps /\ WF_callVars(Return \/ GiveUp)
===============================================================================
