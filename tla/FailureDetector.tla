--------------------------- MODULE FailureDetector ---------------------------
(***************************************************************************)
(* What the failure detector of one primary promises to the promotion of   *)
(* its backup: it fires once, after a first ping, and only if the pings    *)
(* have ended, the backup cannot hear them or they are too slow; and once  *)
(* the pings have ended it does fire.  Module Heartbeat, which has clocks, *)
(* keeps the promise, and module Failover, which has none, relies on it.   *)
(***************************************************************************)
VARIABLES
    pinging,    \* the primary's sender is alive and has not been told to stop
    listening,  \* the backup's accept loop has not ended
    slow,       \* pings may be too slow to be told from no pings; never changes
    watchdog    \* "no ping yet", "watching" or "fired"

detectorVars == <<pinging, listening, slow, watchdog>>

Init ==
    /\ pinging = TRUE
    /\ listening = TRUE
    /\ slow \in BOOLEAN
    /\ watchdog = "no ping yet"

FirstPing ==
    /\ watchdog = "no ping yet"
    /\ watchdog' = "watching"
    /\ UNCHANGED <<pinging, listening, slow>>

MayFire == ~pinging \/ ~listening \/ slow

Fire ==
    /\ watchdog = "watching"
    /\ MayFire
    /\ watchdog' = "fired"
    /\ UNCHANGED <<pinging, listening, slow>>

PingsEnd == pinging /\ pinging' = FALSE /\ UNCHANGED <<listening, slow, watchdog>>
StopListening ==
    listening /\ listening' = FALSE /\ UNCHANGED <<pinging, slow, watchdog>>

Next == FirstPing \/ Fire \/ PingsEnd \/ StopListening

(* The watchdog is a thread of its own: that the backup still listens is   *)
(* not needed for it to fire.                                              *)
Spec == Init /\ [][Next]_detectorVars /\ WF_detectorVars(~pinging /\ Fire)
===============================================================================
