------------------------------- MODULE Framing -------------------------------
(***************************************************************************)
(* One TCP connection and the newline framing of common/protocol.py on it: *)
(* the caller (sendToService, PrimaryReplicator, HeartbeatSender) sends a  *)
(* request and receives a response; a service's _handleClient receives,    *)
(* handles and responds.  Both ends run sendMessage and receiveMessage.    *)
(*                                                                         *)
(* TCP keeps the order of bytes and not the bounds of writes: a message    *)
(* arrives in any pieces.  A byte is a letter or the newline NL; that      *)
(* json.dumps escapes newlines and whatever is not ASCII (so that each     *)
(* piece can be decoded on its own) is the assumption on Message.          *)
(*                                                                         *)
(* Faults: "timeout", the caller's socket timeout expires though the       *)
(* callee lives; "crash", a process ends and its connection is closed.     *)
(***************************************************************************)
EXTENDS Naturals, SequencesExt

CONSTANTS
    Letter,       \* the bytes that occur in a message
    NL,
    Message,      \* sequences of letters, the JSON texts of requests, responses
    BUFFER_SIZE,
    Capacity,     \* how many bytes the sockets hold on the way to one end
    Faults,
    Unavailable,
    None

ASSUME FramingAssumption ==
    /\ BUFFER_SIZE \in Nat \ {0}
    /\ Capacity \in Nat \ {0}
    /\ NL \notin Letter
    /\ \A m \in Message : m \in Seq(Letter) /\ m # <<>>
    /\ None \notin Message
    /\ Unavailable \notin Message \cup {None}
    /\ Faults \subseteq {"timeout", "crash"}

VARIABLES
    state,     \* [Side -> what the end is doing]
    outgoing,  \* [Side -> the bytes that sendall has yet to write]
    wire,      \* [Side -> the bytes written by that end, not yet received]
    buffer,    \* [Side -> the bytes that receiveMessage has collected]
    got,       \* [Side -> the message it received, or None]
    request,   \* the caller's message
    answer     \* the callee's, or None

vars == <<state, outgoing, wire, buffer, got, request, answer>>

Side == {"caller", "callee"}
Peer(e) == IF e = "caller" THEN "callee" ELSE "caller"
State == {"send", "receive", "handle", "done", "failed"}

(* Where an end goes on to when it has sent, or received, its message. *)
AfterSend == [caller |-> "receive", callee |-> "done"]
AfterReceive == [caller |-> "done", callee |-> "handle"]

Closed(e) == state[e] \in {"done", "failed"}
Goto(e, where) == state' = [state EXCEPT ![e] = where]

Encoded(m) == Append(m, NL)

-------------------------------------------------------------------------------
(* The connection is open, and the caller about to send. *)
Init ==
    /\ request \in Message
    /\ state = [caller |-> "send", callee |-> "receive"]
    /\ outgoing = [caller |-> Encoded(request), callee |-> <<>>]
    /\ wire = [e \in Side |-> <<>>]
    /\ buffer = [e \in Side |-> <<>>]
    /\ got = [e \in Side |-> None]
    /\ answer = None

(* sendMessage: some of the bytes, as many as there is room for. *)
Write(e) ==
    /\ state[e] = "send"
    /\ ~Closed(Peer(e))
    /\ \E n \in 1 .. Len(outgoing[e]) :
          /\ Len(wire[e]) + n <= Capacity
          /\ wire' = [wire EXCEPT ![e] = @ \o SubSeq(outgoing[e], 1, n)]
          /\ outgoing' = [outgoing EXCEPT ![e] = SubSeq(@, n + 1, Len(@))]
    /\ Goto(e, IF outgoing'[e] = <<>> THEN AfterSend[e] ELSE "send")
    /\ UNCHANGED <<buffer, got, request, answer>>

\* mutant: what one recv returned is taken for a message
AnyBytes(bytes) == bytes # <<>>

Complete(bytes) == Contains(bytes, NL)

FirstLine(bytes) ==
    LET ends == {i \in DOMAIN bytes : bytes[i] = NL} IN
    IF ends = {} THEN bytes ELSE SubSeq(bytes, 1, Min(ends) - 1)

(* receiveMessage: one recv, and the message it may have completed.  What  *)
(* follows the newline is dropped.                                         *)
Receive(e) ==
    /\ state[e] = "receive"
    /\ \E n \in 1 .. BUFFER_SIZE :
          /\ n <= Len(wire[Peer(e)])
          /\ buffer' = [buffer EXCEPT ![e] = @ \o SubSeq(wire[Peer(e)], 1, n)]
          /\ wire' = [wire EXCEPT ![Peer(e)] = SubSeq(@, n + 1, Len(@))]
    /\ IF Complete(buffer'[e])
       THEN /\ got' = [got EXCEPT ![e] = FirstLine(buffer'[e])]
            /\ Goto(e, AfterReceive[e])
       ELSE UNCHANGED <<got, state>>
    /\ UNCHANGED <<outgoing, request, answer>>

(* The handler runs, whether or not the caller still waits. *)
HandleRequest ==
    /\ state["callee"] = "handle"
    /\ answer' \in Message
    /\ outgoing' = [outgoing EXCEPT !["callee"] = Encoded(answer')]
    /\ Goto("callee", "send")
    /\ UNCHANGED <<wire, buffer, got, request>>

\* mutant: an empty recv is not looked at, the loop goes on
EndUnnoticed(e) == FALSE

(* recv returns nothing: the peer has closed and all it wrote was read. *)
EndOfStream(e) ==
    state[e] = "receive" /\ Closed(Peer(e)) /\ wire[Peer(e)] = <<>>

(* A peer that closed without reading everything resets the connection,    *)
(* and to a closed peer nothing can be sent.                               *)
Reset(e) ==
    /\ Closed(Peer(e))
    /\ \/ state[e] = "send"
       \/ state[e] = "receive" /\ wire[e] # <<>>

(* The exception ends the caller's attempt, or the callee's thread, whose  *)
(* attempt to answer with an error reaches nobody.                         *)
ConnectionFails(e) ==
    /\ EndOfStream(e) \/ Reset(e)
    /\ Goto(e, "failed")
    /\ UNCHANGED <<outgoing, wire, buffer, got, request, answer>>

(* Only the caller sets a timeout on its socket. *)
Timeout ==
    /\ "timeout" \in Faults
    /\ state["caller"] \in {"send", "receive"}
    /\ Goto("caller", "failed")
    /\ UNCHANGED <<outgoing, wire, buffer, got, request, answer>>

Crash(e) ==
    /\ "crash" \in Faults
    /\ ~Closed(e)
    /\ Goto(e, "failed")
    /\ UNCHANGED <<outgoing, wire, buffer, got, request, answer>>

EndRuns(e) ==
    \/ Write(e)
    \/ Receive(e)
    \/ e = "callee" /\ HandleRequest
    \/ ConnectionFails(e)

Next ==
    \/ \E e \in Side : EndRuns(e) \/ Crash(e)
    \/ Timeout

Spec == Init /\ [][Next]_vars

(* The system moves bytes and runs both threads. *)
FairSpec == Spec /\ \A e \in Side : WF_vars(EndRuns(e))

-------------------------------------------------------------------------------
(* What either end takes for a message is some message (its peer's, says   *)
(* KeepsCallPromise), and what is under way fits the sockets.              *)
TypeOK ==
    /\ state \in [Side -> State]
    /\ \A e \in Side : Len(wire[e]) <= Capacity
    /\ got \in [Side -> Message \cup {None}]
    /\ request \in Message
    /\ answer \in Message \cup {None}

(* A callee that hung up before its response was read and complete leaves  *)
(* its caller with nothing, and a caller that gave up in the middle of its *)
(* request has it dropped: in whatever pieces the bytes arrive, the call   *)
(* keeps RemoteCall's promise (protocol.py:17-39).                         *)
Call == INSTANCE RemoteCall WITH
    handled <- got["callee"],
    result <- IF state["caller"] = "failed" THEN Unavailable ELSE got["caller"]

KeepsCallPromise == Call!Spec

(* Both ends finish: the callee's recv has no timeout and ends because the *)
(* caller does, who holds its end open no longer than its own timeout      *)
(* (reservation_service.py:153-187, gateway.py:30-48).                     *)
BothEndsFinish == <>(\A e \in Side : Closed(e))
===============================================================================
