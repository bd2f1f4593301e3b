--------------------------- MODULE ReservationLedger ---------------------------
(***************************************************************************)
(* What one ReservationService process promises to the threads that call   *)
(* it: a register per slot, in which every "book" and every "cancel" takes *)
(* effect in a single step, at the moment it is confirmed, and in which a  *)
(* refused request changes nothing.  Nothing is said of locks, of the      *)
(* Lamport clock's value or of replication; of the timestamps only that a  *)
(* reservation's is above every other one the same table holds.            *)
(***************************************************************************)
EXTENDS Naturals

CONSTANTS
    Caller,     \* the connections on which requests arrive
    Table,      \* the tables of the restaurant
    Slot,       \* pairs <<table, time>>
    Request,    \* what may be asked: records with action, table, time, customer
    Stamp,      \* the Lamport timestamps
    None        \* no reservation, no request

VARIABLES
    ledger,     \* ledger[s]: the reservation slot s holds, or None
    request,    \* request[c]: what caller c asked, or None
    answer      \* answer[c]: None, "ok" or "error"

ledgerVars == <<ledger, request, answer>>

SlotOf(c) == <<request[c].table, request[c].time>>

Init ==
    /\ ledger = [s \in Slot |-> None]
    /\ request = [c \in Caller |-> None]
    /\ answer = [c \in Caller |-> None]

Pending(c) == request[c] # None /\ answer[c] = None

Submit(c) ==
    /\ request[c] = None
    /\ \E r \in Request : request' = [request EXCEPT ![c] = r]
    /\ UNCHANGED <<ledger, answer>>

(* ts is above every timestamp stored for a slot of table t. *)
Fresh(ts, t) ==
    \A s \in Slot : s[1] = t /\ ledger[s] # None => ledger[s].lamport_ts < ts

ConfirmBooking(c) ==
    /\ Pending(c)
    /\ request[c].action = "book"
    /\ SlotOf(c) \in Slot
    /\ ledger[SlotOf(c)] = None
    /\ \E ts \in Stamp :
          /\ Fresh(ts, request[c].table)
          /\ ledger' = [ledger EXCEPT ![SlotOf(c)] =
                           [customer |-> request[c].customer, lamport_ts |-> ts]]
    /\ answer' = [answer EXCEPT ![c] = "ok"]
    /\ UNCHANGED request

ConfirmCancellation(c) ==
    /\ Pending(c)
    /\ request[c].action = "cancel"
    /\ SlotOf(c) \in Slot
    /\ ledger[SlotOf(c)] # None
    /\ ledger' = [ledger EXCEPT ![SlotOf(c)] = None]
    /\ answer' = [answer EXCEPT ![c] = "ok"]
    /\ UNCHANGED request

Refuse(c) ==
    /\ Pending(c)
    /\ answer' = [answer EXCEPT ![c] = "error"]
    /\ UNCHANGED <<ledger, request>>

Next ==
    \E c \in Caller :
        \/ Submit(c)
        \/ ConfirmBooking(c)
        \/ ConfirmCancellation(c)
        \/ Refuse(c)

Spec == Init /\ [][Next]_ledgerVars
================================================================================
