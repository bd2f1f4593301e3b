------------------------ MODULE MCReservationService ------------------------
(***************************************************************************)
(* One restaurant (a primary and its backup) with two tables and one time: *)
(* the smallest instance in which different tables are booked concurrently *)
(* and one table is fought over.  The bound is the number of client        *)
(* connections; each may cause one more to the backup.                     *)
(***************************************************************************)
EXTENDS ReservationService, TLC

CONSTANTS p1, b1, t1, t2, tx, d1, ann, bob, c1, c2, c3, c4

MCNode == {p1, b1}
MCBackupMap == p1 :> b1

MCSymmetry ==
    Permutations(Connection) \cup Permutations(Customer) \cup Permutations(Table)

(* Every write stamps once and is applied at most once: no clock passes    *)
(* two ticks per connection.                                               *)
MCStamp == 0 .. 2 * 3

BoundedLedger == INSTANCE ReservationLedger WITH
    Caller <- Connection,
    Request <- ClientMessage,
    Stamp <- MCStamp,
    ledger <- reservations[p1],
    request <- [c \in Connection |-> RequestOf(p1, c)],
    answer <- [c \in Connection |-> AnswerOf(p1, c)]

(* A process that nobody replicates to implements the ledger. *)
PrimaryIsLedger == BoundedLedger!Spec
=============================================================================
