-------------------------- MODULE ReservationService --------------------------
(***************************************************************************)
(* The restaurant services: a primary and a backup process per restaurant, *)
(* each with its reservations, its per-table locks and its Lamport clock,  *)
(* and the synchronous replication from the one to the other.              *)
(*                                                                         *)
(* A process is named by its TCP port.  Every connection is served by a    *)
(* thread of its own (_handleClient): a client's connection c, with its    *)
(* book or cancel, by the thread <<c, "serve">>, and the connection that   *)
(* this thread may make to the backup by the backup's <<c, "apply">>.      *)
(* Threads interleave where the code can be preempted with a visible       *)
(* effect: the lock, the stamp, the call to the backup, the commit.        *)
(*                                                                         *)
(* Faults the environment may inject (constant Faults):                    *)
(*   "timeout"  a socket timeout expires at the caller while the callee    *)
(*              lives and goes on (replication/primary.py:14), or the      *)
(*              connection cannot be made in time;                         *)
(*   "crash"    a process dies with all its threads, where the services    *)
(*              are processes of their own (README.md:88; run_all.py       *)
(*              starts them as threads of one, which stop() ends singly).  *)
(* Module Failover adds "gateway timeout" and "suspect".                   *)
(* stop() of a service needs no fault: it is an operation of the code.     *)
(***************************************************************************)
EXTENDS Naturals

CONSTANTS
    Node,         \* the ports a restaurant service listens on
    BACKUP_MAP,   \* primary port -> backup port, a partial function on Node
    Table,        \* the tables of restaurants.json
    TableArg,     \* the table ids a request may name, unknown ones included
    Time,         \* the "<date>_<timeslot>" part of a reservation's key
    Customer,
    Connection,   \* the client connections ever made: the bound on requests
    Faults,
    None

Backup == {BACKUP_MAP[n] : n \in DOMAIN BACKUP_MAP}
Slot == Table \X Time
Thread == Connection \X {"serve", "apply"}
Reservation == [customer : Customer, lamport_ts : Nat]
Action == {"book", "cancel", "apply_book", "apply_cancel"}
Message ==
    [node : Node, action : Action, table : TableArg, time : Time,
     customer : Customer \cup {None}]

(* config.py:38-41: every backup port is its primary's port plus an offset, *)
(* so backup ports are distinct and are no primary's.                       *)
ASSUME ConfigAssumption ==
    /\ DOMAIN BACKUP_MAP \subseteq Node
    /\ \A n \in DOMAIN BACKUP_MAP : BACKUP_MAP[n] \in Node \ DOMAIN BACKUP_MAP
    /\ \A m, n \in DOMAIN BACKUP_MAP : BACKUP_MAP[m] = BACKUP_MAP[n] => m = n

ASSUME DataAssumption ==
    /\ Table \subseteq TableArg
    /\ Faults \subseteq {"timeout", "crash", "gateway timeout", "suspect"}

ASSUME NoneAssumption ==
    None \notin Node \cup Thread \cup Customer \cup Reservation \cup Message

VARIABLES
    reservations,         \* [Node -> [Slot -> Reservation or None]]
    logical_clock,        \* [Node -> Nat]
    table_locks,          \* [Node -> [Table -> Thread or None]]
    running,              \* [Node -> BOOLEAN], the accept loop is alive
    back_up,              \* [Node -> BOOLEAN]
    replicator,           \* [Node -> Node or None], the port it replicates to
    _is_promoted_primary, \* [Node -> BOOLEAN]
    pc,                   \* [Thread -> where the thread is]
    msg,                  \* [Thread -> the message it serves, or None]
    snapshot              \* [Thread -> the reservation it writes or cancels]

roleVars == <<running, back_up, replicator, _is_promoted_primary>>
dataVars == <<reservations, logical_clock, table_locks>>
threadVars == <<pc, msg, snapshot>>
serviceVars == <<dataVars, roleVars, threadVars>>

InCriticalSection == {"locked", "replicate", "waiting", "commit"}
Stamped == {"replicate", "waiting", "commit"}
Answered == {"ok", "error"}
PC == {"idle", "acquire", "dead"} \cup InCriticalSection \cup Answered

-------------------------------------------------------------------------------
(* Where a thread works.                                                   *)

At(th) == msg[th].node
Key(th) == <<msg[th].table, msg[th].time>>
Held(th) == reservations[At(th)][Key(th)]
Does(th, action) == msg[th].action = action

Goto(th, where) == pc' = [pc EXCEPT ![th] = where]

(* "finally: lock.release()" together with the response that follows it. *)
ReleaseAndAnswer(th, status) ==
    /\ Goto(th, status)
    /\ table_locks' = [table_locks EXCEPT ![At(th)][msg[th].table] = None]

Max2(a, b) == IF a > b THEN a ELSE b

-------------------------------------------------------------------------------
Init ==
    /\ reservations = [n \in Node |-> [s \in Slot |-> None]]
    /\ logical_clock = [n \in Node |-> 0]
    /\ table_locks = [n \in Node |-> [t \in Table |-> None]]
    /\ running = [n \in Node |-> TRUE]
    /\ back_up = [n \in Node |-> n \in Backup]
    /\ replicator =
         [n \in Node |-> IF n \in DOMAIN BACKUP_MAP THEN BACKUP_MAP[n] ELSE None]
    /\ _is_promoted_primary = [n \in Node |-> FALSE]
    /\ pc = [th \in Thread |-> "idle"]
    /\ msg = [th \in Thread |-> None]
    /\ snapshot = [th \in Thread |-> None]

(* The accept loop hands a connection and its message to a new thread. *)
HandleClient(th, m) ==
    /\ th[2] = "serve"
    /\ pc[th] = "idle"
    /\ running[m.node]
    /\ Goto(th, "acquire")
    /\ msg' = [msg EXCEPT ![th] = m]
    /\ UNCHANGED <<snapshot, dataVars, roleVars>>

(* A request for a table the restaurant does not have takes no lock. *)
UnknownTable(th) ==
    /\ pc[th] = "acquire"
    /\ msg[th].table \notin Table
    /\ Goto(th, "error")
    /\ UNCHANGED <<msg, snapshot, dataVars, roleVars>>

\* mutant: the lock is taken without looking whether it is free
LockTakenForFree(th) == TRUE

LockFree(th) == table_locks[At(th)][msg[th].table] = None

AcquireLock(th) ==
    /\ pc[th] = "acquire"
    /\ msg[th].table \in Table
    /\ LockFree(th)
    /\ table_locks' = [table_locks EXCEPT ![At(th)][msg[th].table] = th]
    /\ Goto(th, "locked")
    /\ UNCHANGED <<msg, snapshot, reservations, logical_clock, roleVars>>

(* LOCK_TIMEOUT passed and the lock was never seen free. *)
LockTimeout(th) ==
    /\ pc[th] = "acquire"
    /\ msg[th].table \in Table
    /\ ~LockFree(th)
    /\ Goto(th, "error")
    /\ UNCHANGED <<msg, snapshot, dataVars, roleVars>>

(* Already booked, or nothing to cancel. *)
RejectRequest(th) ==
    /\ pc[th] = "locked"
    /\ \/ Does(th, "book") /\ Held(th) # None
       \/ Does(th, "cancel") /\ Held(th) = None
    /\ ReleaseAndAnswer(th, "error")
    /\ UNCHANGED <<msg, snapshot, reservations, logical_clock, roleVars>>

\* mutant: the timestamp is read from the clock without incrementing it
NextLamportNoIncrement(th) == UNCHANGED logical_clock

NextLamport(th) ==
    logical_clock' = [logical_clock EXCEPT ![At(th)] = @ + 1]

(* The slot is free: build the reservation, with the next timestamp. *)
StampBooking(th) ==
    /\ pc[th] = "locked"
    /\ Does(th, "book")
    /\ Held(th) = None
    /\ NextLamport(th)
    /\ snapshot' = [snapshot EXCEPT ![th] =
          [customer |-> msg[th].customer, lamport_ts |-> logical_clock'[At(th)]]]
    /\ Goto(th, "replicate")
    /\ UNCHANGED <<msg, reservations, table_locks, roleVars>>

(* The slot is taken: copy its reservation and stamp the copy. *)
StampCancellation(th) ==
    /\ pc[th] = "locked"
    /\ Does(th, "cancel")
    /\ Held(th) # None
    /\ NextLamport(th)
    /\ snapshot' = [snapshot EXCEPT ![th] =
          [customer |-> Held(th).customer, lamport_ts |-> logical_clock'[At(th)]]]
    /\ Goto(th, "replicate")
    /\ UNCHANGED <<msg, reservations, table_locks, roleVars>>

-------------------------------------------------------------------------------
(* Replication, before the write is made and confirmed.                    *)

\* mutant: only a promoted process replicates
ReplicatesOncePromoted(n) == replicator[n] # None /\ _is_promoted_primary[n]

Replicates(n) == replicator[n] # None /\ ~back_up[n]

SkipReplication(th) ==
    /\ pc[th] = "replicate"
    /\ ~Replicates(At(th))
    /\ Goto(th, "commit")
    /\ UNCHANGED <<msg, snapshot, dataVars, roleVars>>

\* mutant: a failed replication is only logged, the write goes on
FailWriteIgnored(th) ==
    /\ Goto(th, "commit")
    /\ UNCHANGED <<msg, snapshot, dataVars, roleVars>>

\* mutant: the write is made first, and left there when its replication fails
FailWriteKept(th) ==
    /\ reservations' = [reservations EXCEPT ![At(th)][Key(th)] =
          IF Does(th, "book") THEN snapshot[th] ELSE None]
    /\ ReleaseAndAnswer(th, "error")
    /\ UNCHANGED <<msg, snapshot, logical_clock, roleVars>>

(* "Backup replication failed": the write is dropped, the client refused. *)
FailWrite(th) ==
    /\ ReleaseAndAnswer(th, "error")
    /\ UNCHANGED <<msg, snapshot, reservations, logical_clock, roleVars>>

(* The connection to the backup is refused, or is not made in time. *)
BackupUnreachable(th) ==
    /\ pc[th] = "replicate"
    /\ Replicates(At(th))
    /\ ~running[replicator[At(th)]] \/ "timeout" \in Faults
    /\ FailWrite(th)

ReplicatedMessage(th) ==
    [msg[th] EXCEPT !.node = replicator[At(th)],
                    !.action = IF @ = "book" THEN "apply_book" ELSE "apply_cancel"]

Applier(th) == <<th[1], "apply">>

(* The message is sent, and the backup gives it to a thread. *)
SendReplication(th) ==
    /\ pc[th] = "replicate"
    /\ Replicates(At(th))
    /\ running[replicator[At(th)]]
    /\ pc' = [pc EXCEPT ![th] = "waiting", ![Applier(th)] = "acquire"]
    /\ msg' = [msg EXCEPT ![Applier(th)] = ReplicatedMessage(th)]
    /\ snapshot' = [snapshot EXCEPT ![Applier(th)] = snapshot[th]]
    /\ UNCHANGED <<dataVars, roleVars>>

ReplicationAcked(th) ==
    /\ pc[th] = "waiting"
    /\ pc[Applier(th)] = "ok"
    /\ Goto(th, "commit")
    /\ UNCHANGED <<msg, snapshot, dataVars, roleVars>>

\* mutant: neither a timeout nor the end of the connection is noticed
LossUnnoticed(th) == FALSE

(* The backup dies before it applied the write or before its response is   *)
(* out, or the replicator's timeout passes, after which the backup may yet *)
(* apply the write.                                                        *)
Loss(th) ==
    \/ pc[Applier(th)] = "dead"
    \/ "crash" \in Faults /\ ~running[At(Applier(th))]
    \/ "timeout" \in Faults

ReplicationFailed(th) ==
    /\ pc[th] = "waiting"
    /\ pc[Applier(th)] = "error" \/ Loss(th)
    /\ FailWrite(th)

-------------------------------------------------------------------------------
(* The write itself.                                                       *)

\* mutant: the request is stored, not the stamped reservation
StoreRequest(th, value) ==
    reservations' = [reservations EXCEPT ![At(th)][Key(th)] =
        IF value = None THEN None ELSE msg[th]]

Store(th, value) ==
    reservations' = [reservations EXCEPT ![At(th)][Key(th)] = value]

CommitBooking(th) ==
    /\ pc[th] = "commit"
    /\ Does(th, "book")
    /\ Store(th, snapshot[th])
    /\ ReleaseAndAnswer(th, "ok")
    /\ UNCHANGED <<msg, snapshot, logical_clock, roleVars>>

CommitCancellation(th) ==
    /\ pc[th] = "commit"
    /\ Does(th, "cancel")
    /\ Store(th, None)
    /\ ReleaseAndAnswer(th, "ok")
    /\ UNCHANGED <<msg, snapshot, logical_clock, roleVars>>

\* mutant: the Lamport rule takes the peer's timestamp instead of the maximum
AdvanceLamportFromPeerUnconditionally(a) ==
    logical_clock' = [logical_clock EXCEPT ![At(a)] = snapshot[a].lamport_ts + 1]

AdvanceLamportFromPeer(a) ==
    logical_clock' =
        [logical_clock EXCEPT ![At(a)] = Max2(@, snapshot[a].lamport_ts) + 1]

\* mutant: the write is acknowledged and not made
ApplyNothing(a) ==
    (Does(a, "apply_book") \/ Does(a, "apply_cancel")) /\ UNCHANGED reservations

(* The backup overwrites or removes, without looking at what it holds. *)
ApplyWrite(a) ==
    \/ Does(a, "apply_book") /\ Store(a, snapshot[a])
    \/ Does(a, "apply_cancel") /\ Store(a, None)

ApplyReplication(a) ==
    /\ pc[a] = "locked"
    /\ ApplyWrite(a)
    /\ AdvanceLamportFromPeer(a)
    /\ ReleaseAndAnswer(a, "ok")
    /\ UNCHANGED <<msg, snapshot, roleVars>>

-------------------------------------------------------------------------------
(* Life cycle of a process.                                                *)

(* stop(), or an exception that ends the accept loop: no further           *)
(* connection is accepted, running threads go on.                          *)
Stop(n) ==
    /\ running[n]
    /\ running' = [running EXCEPT ![n] = FALSE]
    /\ UNCHANGED <<back_up, replicator, _is_promoted_primary, dataVars, threadVars>>

Crash(n) ==
    /\ "crash" \in Faults
    /\ running[n]
    /\ running' = [running EXCEPT ![n] = FALSE]
    /\ pc' = [th \in Thread |->
                IF pc[th] \in {"acquire"} \cup InCriticalSection /\ At(th) = n
                THEN "dead" ELSE pc[th]]
    /\ UNCHANGED <<back_up, replicator, _is_promoted_primary, dataVars,
                   msg, snapshot>>

PromoteToPrimary(n) ==
    /\ n \in Backup
    /\ ~_is_promoted_primary[n]
    /\ _is_promoted_primary' = [_is_promoted_primary EXCEPT ![n] = TRUE]
    /\ back_up' = [back_up EXCEPT ![n] = FALSE]
    /\ replicator' =
         IF n \in DOMAIN BACKUP_MAP
         THEN [replicator EXCEPT ![n] = BACKUP_MAP[n]] ELSE replicator
    /\ UNCHANGED <<running, dataVars, threadVars>>

-------------------------------------------------------------------------------
ThreadStep(th) ==
    \/ UnknownTable(th)
    \/ AcquireLock(th)
    \/ LockTimeout(th)
    \/ RejectRequest(th)
    \/ StampBooking(th)
    \/ StampCancellation(th)
    \/ SkipReplication(th)
    \/ BackupUnreachable(th)
    \/ SendReplication(th)
    \/ ReplicationAcked(th)
    \/ ReplicationFailed(th)
    \/ CommitBooking(th)
    \/ CommitCancellation(th)
    \/ ApplyReplication(th)

NodeStep(n) == Stop(n) \/ Crash(n) \/ PromoteToPrimary(n)

(* Any caller may connect to any process, the backups included: the        *)
(* gateway does so on failover, and nothing in the service forbids it.     *)
ClientMessage ==
    [node : Node, action : {"book"}, table : TableArg, time : Time,
     customer : Customer]
    \cup [node : Node, action : {"cancel"}, table : TableArg, time : Time,
          customer : {None}]

Next ==
    \/ \E th \in Thread, m \in ClientMessage : HandleClient(th, m)
    \/ \E th \in Thread : ThreadStep(th)
    \/ \E n \in Node : NodeStep(n)

Spec == Init /\ [][Next]_serviceVars

(* The operating system runs every thread.  Nothing obliges a client to    *)
(* connect, a process to stop or the watchdog to fire.                     *)
Fairness == \A th \in Thread : WF_serviceVars(ThreadStep(th))
FairSpec == Spec /\ Fairness

-------------------------------------------------------------------------------
(* Properties.                                                             *)

TypeOK ==
    /\ reservations \in [Node -> [Slot -> Reservation \cup {None}]]
    /\ logical_clock \in [Node -> Nat]
    /\ table_locks \in [Node -> [Table -> Thread \cup {None}]]
    /\ running \in [Node -> BOOLEAN]
    /\ back_up \in [Node -> BOOLEAN]
    /\ replicator \in [Node -> Node \cup {None}]
    /\ _is_promoted_primary \in [Node -> BOOLEAN]
    /\ pc \in [Thread -> PC]
    /\ msg \in [Thread -> Message \cup {None}]
    /\ snapshot \in [Thread -> Reservation \cup {None}]

(* What a thread decided on when it looked the slot up is still so while   *)
(* it waits for the backup and until it writes: a slot being booked stays  *)
(* free on that process, a reservation being cancelled stays the one that  *)
(* was copied (reservation_service.py:317-341, 363-380).                   *)
DecisionStillValid ==
    \A th \in Thread :
        pc[th] \in Stamped =>
            \/ Does(th, "book") /\ Held(th) = None
            \/ Does(th, "cancel") /\ Held(th) # None
               /\ Held(th).customer = snapshot[th].customer

(* The clock of a process is never behind a timestamp it stores, so that   *)
(* what it writes after a promotion is above all that was replicated to it *)
(* (reservation_service.py:70-77).                                         *)
ClockCoversStored ==
    \A n \in Node, s \in Slot :
        reservations[n][s] # None =>
            reservations[n][s].lamport_ts <= logical_clock[n]

(* The timestamp of a write about to be made is above that of every        *)
(* reservation stored for the same table: timestamps follow the order of   *)
(* the writes of a table (reservation_service.py:60-68), on a backup that  *)
(* serves clients as on a primary.                                         *)
StampIsFreshest ==
    \A th \in Thread, s \in Slot :
        /\ pc[th] \in Stamped
        /\ s[1] = msg[th].table
        /\ reservations[At(th)][s] # None
        => reservations[At(th)][s].lamport_ts < snapshot[th].lamport_ts

(* A process that is no backup never gives one timestamp to two of the     *)
(* reservations it holds, though its tables are booked concurrently.       *)
PrimaryStampsDistinct ==
    \A n \in Node \ Backup, r, s \in Slot :
        /\ r # s
        /\ reservations[n][r] # None
        /\ reservations[n][s] # None
        => reservations[n][r].lamport_ts # reservations[n][s].lamport_ts

(* A write is confirmed by a replicating process only if its backup has    *)
(* applied that very write (reservation_service.py:266-273).               *)
ConfirmedMeansAcknowledged ==
    \A th \in Thread :
        /\ pc[th] = "ok"
        /\ msg[th].node \in DOMAIN BACKUP_MAP
        => LET a == Applier(th) IN
              /\ pc[a] = "ok"
              /\ msg[a] = ReplicatedMessage(th)
              /\ snapshot[a] = snapshot[th]

ClientsKeepTo(n) ==
    \A c \in Connection :
        msg[<<c, "serve">>] # None => msg[<<c, "serve">>].node # BACKUP_MAP[n]

(* A write of slot s that n has given up and refused, and that its backup  *)
(* has applied all the same.                                               *)
Orphaned(n, s) ==
    \E c \in Connection :
        LET th == <<c, "serve">> IN
        /\ pc[th] = "error"
        /\ At(th) = n
        /\ Key(th) = s
        /\ pc[Applier(th)] = "ok"

(* Where clients keep to the primary, a table that no thread of it has     *)
(* locked is the same on primary and backup, timestamps included, wherever *)
(* either of them stopped or crashed on the way: the one thing that parts  *)
(* them is a replication the primary gave up and the backup then applied   *)
(* (primary.py:19-31, README.md:73).                                       *)
ReplicaAgreement ==
    \A n \in DOMAIN BACKUP_MAP, s \in Slot :
        /\ ClientsKeepTo(n)
        /\ table_locks[n][s[1]] = None
        /\ running[BACKUP_MAP[n]]
        /\ ~Orphaned(n, s)
        => reservations[n][s] = reservations[BACKUP_MAP[n]][s]

(* README.md:94: Lamport clocks keep "a total order of write events within *)
(* each service": here, on every process, backups that serve clients too.  *)
StampsDistinct ==
    \A n \in Node, r, s \in Slot :
        /\ r # s
        /\ reservations[n][r] # None
        /\ reservations[n][s] # None
        => reservations[n][r].lamport_ts # reservations[n][s].lamport_ts

(* Every request is answered, or its process has crashed, though the lock  *)
(* of a primary's table is held across the call to the backup: whatever    *)
(* becomes of that call -- refused, answered with an error, its answer     *)
(* lost with the backup -- the thread goes on and gives the lock back.     *)
(* There are finitely many requests, so in the end none is under way.      *)
EveryRequestAnswered ==
    <>[](\A th \in Thread : pc[th] \in {"idle", "dead"} \cup Answered)

-------------------------------------------------------------------------------
(* A process no other one replicates to keeps the ledger's promise to its  *)
(* callers, whatever happens to its backup and to the replication.         *)

RequestOf(n, c) ==
    LET m == msg[<<c, "serve">>] IN IF m # None /\ m.node = n THEN m ELSE None

AnswerOf(n, c) ==
    IF RequestOf(n, c) # None /\ pc[<<c, "serve">>] \in Answered
    THEN pc[<<c, "serve">>] ELSE None

Ledger(n) == INSTANCE ReservationLedger WITH
    Caller <- Connection,
    Request <- ClientMessage,
    Stamp <- Nat,
    ledger <- reservations[n],
    request <- [c \in Connection |-> RequestOf(n, c)],
    answer <- [c \in Connection |-> AnswerOf(n, c)]
================================================================================
