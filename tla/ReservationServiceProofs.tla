----------------------- MODULE ReservationServiceProofs -----------------------
(***************************************************************************)
(* Theorems about the restaurant services, for every set of processes,     *)
(* tables, times, customers and connections, and under every fault.        *)
(***************************************************************************)
EXTENDS ReservationService, TLAPS

(* TypeOK in two parts: the data, and the flags of the processes. *)
TypeData ==
    /\ reservations \in [Node -> [Slot -> Reservation \cup {None}]]
    /\ logical_clock \in [Node -> Nat]
    /\ table_locks \in [Node -> [Table -> Thread \cup {None}]]
    /\ replicator \in [Node -> Node \cup {None}]
    /\ pc \in [Thread -> PC]
    /\ msg \in [Thread -> Message \cup {None}]
    /\ snapshot \in [Thread -> Reservation \cup {None}]

TypeFlags ==
    /\ running \in [Node -> BOOLEAN]
    /\ back_up \in [Node -> BOOLEAN]
    /\ _is_promoted_primary \in [Node -> BOOLEAN]

LEMMA TypeParts == TypeOK <=> TypeData /\ TypeFlags
BY Zenon DEF TypeOK, TypeData, TypeFlags

(* What a thread serves, and what it has in hand, by where it is. *)
AppliedMessage ==
    [node : Backup, action : {"apply_book", "apply_cancel"}, table : TableArg,
     time : Time, customer : Customer \cup {None}]

WellFormed(th) ==
    /\ th[2] = "serve" /\ pc[th] # "idle" => msg[th] \in ClientMessage
    /\ th[2] = "apply" /\ pc[th] # "idle" =>
          /\ msg[th] \in AppliedMessage
          /\ snapshot[th] \in Reservation
          /\ pc[th] \notin Stamped
    /\ pc[th] \in InCriticalSection => msg[th].table \in Table
    /\ pc[th] \in Stamped => snapshot[th] \in Reservation

ThreadInv == \A th \in Thread : WellFormed(th)

(* Only the configured primaries replicate, each to its own backup. *)
RoleInv ==
    \A n \in Node :
        IF n \in DOMAIN BACKUP_MAP
        THEN ~back_up[n] /\ replicator[n] = BACKUP_MAP[n]
        ELSE replicator[n] = None

Typed == TypeData /\ TypeFlags /\ ThreadInv /\ RoleInv

-------------------------------------------------------------------------------
LEMMA BackupIsNode == Backup \subseteq Node
BY ConfigAssumption DEF Backup

LEMMA ThreadShape ==
  ASSUME NEW th \in Thread
  PROVE  /\ th[2] \in {"serve", "apply"}
         /\ th = <<th[1], th[2]>>
         /\ Applier(th) \in Thread
         /\ Applier(th)[2] = "apply"
BY DEF Thread, Applier

LEMMA MessageShape ==
  /\ ClientMessage \subseteq Message
  /\ AppliedMessage \subseteq Message
  /\ \A m \in Message :
        /\ m.node \in Node /\ m.table \in TableArg /\ m.time \in Time
        /\ m # None
  /\ \A m \in ClientMessage :
        /\ m.action \in {"book", "cancel"}
        /\ m.action = "book" => m.customer \in Customer
  /\ \A m \in AppliedMessage :
        m.node \in Backup /\ m.action \in {"apply_book", "apply_cancel"}
BY BackupIsNode, NoneAssumption DEF ClientMessage, AppliedMessage, Message, Action

(* Where a thread that serves something works. *)
LEMMA ThreadPlace ==
  ASSUME Typed, NEW th \in Thread, pc[th] # "idle"
  PROVE  /\ At(th) \in Node
         /\ msg[th] \in Message
         /\ msg[th].time \in Time
         /\ th[2] = "serve" => msg[th] \in ClientMessage
         /\ th[2] = "apply" => msg[th] \in AppliedMessage /\ At(th) \in Backup
         /\ pc[th] \in InCriticalSection => msg[th].table \in Table /\ Key(th) \in Slot
BY ThreadShape, MessageShape
   DEF Typed, ThreadInv, WellFormed, At, Key, Slot

LEMMA ReplicatedShape ==
  ASSUME Typed, NEW th \in Thread, pc[th] = "replicate", Replicates(At(th))
  PROVE  /\ th[2] = "serve"
         /\ At(th) \in DOMAIN BACKUP_MAP
         /\ replicator[At(th)] = BACKUP_MAP[At(th)]
         /\ ReplicatedMessage(th) \in AppliedMessage
         /\ ReplicatedMessage(th).table = msg[th].table
         /\ ReplicatedMessage(th).time = msg[th].time
<1>1. At(th) \in Node /\ msg[th] \in Message /\ th[2] = "serve"
  BY ThreadPlace, ThreadShape DEF Typed, ThreadInv, WellFormed, Stamped
<1>2. At(th) \in DOMAIN BACKUP_MAP /\ replicator[At(th)] = BACKUP_MAP[At(th)]
  BY <1>1 DEF Typed, RoleInv, Replicates
<1>3. replicator[At(th)] \in Backup
  BY <1>2 DEF Backup
<1> QED
  BY <1>1, <1>2, <1>3, ThreadPlace DEF ReplicatedMessage, AppliedMessage, Message, Action

-------------------------------------------------------------------------------
(* The invariant Typed.                                                    *)

LEMMA InitTyped == Init => Typed
<1> SUFFICES ASSUME Init PROVE Typed
  OBVIOUS
<1>1. TypeData
  BY ConfigAssumption DEF Init, TypeData, PC
<1>2. ThreadInv
  BY DEF Init, ThreadInv, WellFormed, InCriticalSection, Stamped
<1>3. RoleInv
  BY ConfigAssumption DEF Init, RoleInv, Backup
<1>4. TypeFlags
  BY DEF Init, TypeFlags
<1> QED
  BY <1>1, <1>2, <1>3, <1>4 DEF Typed

LEMMA RoleStep == TypeFlags /\ RoleInv /\ [Next]_serviceVars => RoleInv'
<1> SUFFICES ASSUME TypeFlags, RoleInv, [Next]_serviceVars PROVE RoleInv'
  OBVIOUS
<1>1. CASE UNCHANGED <<back_up, replicator>>
  BY <1>1 DEF RoleInv
<1>2. ASSUME NEW n \in Node, PromoteToPrimary(n) PROVE RoleInv'
  <2>1. n \notin DOMAIN BACKUP_MAP
    BY <1>2, ConfigAssumption DEF PromoteToPrimary, Backup
  <2>2. replicator' = replicator
    BY <1>2, <2>1 DEF PromoteToPrimary
  <2>3. \A m \in DOMAIN BACKUP_MAP : back_up'[m] = back_up[m]
    BY <1>2, <2>1, ConfigAssumption DEF PromoteToPrimary, TypeFlags
  <2> QED
    BY <2>2, <2>3, ConfigAssumption DEF RoleInv
<1> QED
  BY <1>1, <1>2, Zenon
     DEF Next, ThreadStep, NodeStep, serviceVars, roleVars, HandleClient, UnknownTable,
         AcquireLock, LockTimeout, RejectRequest, StampBooking, StampCancellation,
         SkipReplication, BackupUnreachable, FailWrite, SendReplication,
         ReplicationAcked, ReplicationFailed, CommitBooking, CommitCancellation,
         ApplyReplication, Stop, Crash

LEMMA FlagsStep == TypeFlags /\ [Next]_serviceVars => TypeFlags'
<1> SUFFICES ASSUME TypeFlags, [Next]_serviceVars PROVE TypeFlags'
  OBVIOUS
<1>1. CASE UNCHANGED roleVars
  BY <1>1 DEF TypeFlags, roleVars
<1>2. ASSUME NEW n \in Node, Stop(n) \/ Crash(n) PROVE TypeFlags'
  BY <1>2 DEF TypeFlags, Stop, Crash
<1>3. ASSUME NEW n \in Node, PromoteToPrimary(n) PROVE TypeFlags'
  BY <1>3 DEF TypeFlags, PromoteToPrimary
<1> QED
  BY <1>1, <1>2, <1>3, Zenon
     DEF Next, ThreadStep, NodeStep, serviceVars, HandleClient, UnknownTable,
         AcquireLock, LockTimeout, RejectRequest, StampBooking, StampCancellation,
         SkipReplication, BackupUnreachable, FailWrite, SendReplication,
         ReplicationAcked, ReplicationFailed, CommitBooking, CommitCancellation,
         ApplyReplication

LEMMA AnswerKeepsTypes ==
  ASSUME TypeData, NEW th \in Thread, NEW status \in Answered,
         ReleaseAndAnswer(th, status)
  PROVE  /\ table_locks' \in [Node -> [Table -> Thread \cup {None}]]
         /\ pc' \in [Thread -> PC]
BY DEF TypeData, ReleaseAndAnswer, Goto, PC

LEMMA StampKeepsTypes ==
  ASSUME Typed, NEW th \in Thread, pc[th] = "locked", NextLamport(th)
  PROVE  /\ logical_clock' \in [Node -> Nat]
         /\ logical_clock'[At(th)] = logical_clock[At(th)] + 1
         /\ logical_clock[At(th)] \in Nat
BY ThreadPlace DEF Typed, TypeData, NextLamport

LEMMA TypeDataStep == Typed /\ [Next]_serviceVars => TypeData'
<1> SUFFICES ASSUME Typed, [Next]_serviceVars PROVE TypeData'
  OBVIOUS
<1> USE DEF Typed
<1>1. ASSUME NEW th \in Thread, NEW m \in ClientMessage, HandleClient(th, m)
      PROVE  TypeData'
  BY <1>1, MessageShape DEF HandleClient, TypeData, Goto, PC, dataVars, roleVars
<1>2. ASSUME NEW th \in Thread, UnknownTable(th) \/ LockTimeout(th) PROVE TypeData'
  BY <1>2 DEF UnknownTable, LockTimeout, TypeData, Goto, PC, Answered, dataVars, roleVars
<1>3. ASSUME NEW th \in Thread, AcquireLock(th) PROVE TypeData'
  BY <1>3 DEF AcquireLock, TypeData, Goto, PC, InCriticalSection, roleVars
<1>4. ASSUME NEW th \in Thread, RejectRequest(th) PROVE TypeData'
  BY <1>4, AnswerKeepsTypes DEF RejectRequest, TypeData, Answered, roleVars
<1>5. ASSUME NEW th \in Thread, StampBooking(th) PROVE TypeData'
  <2>1. msg[th] \in ClientMessage /\ msg[th].customer \in Customer
    BY <1>5, ThreadPlace, ThreadShape, MessageShape DEF StampBooking, Does
  <2> QED
    BY <1>5, <2>1, StampKeepsTypes
       DEF StampBooking, TypeData, Reservation, Goto, PC, InCriticalSection, roleVars
<1>6. ASSUME NEW th \in Thread, StampCancellation(th) PROVE TypeData'
  <2>1. Held(th) \in Reservation
    BY <1>6, ThreadPlace DEF StampCancellation, Held, TypeData, InCriticalSection
  <2> QED
    BY <1>6, <2>1, StampKeepsTypes
       DEF StampCancellation, TypeData, Reservation, Goto, PC, InCriticalSection, roleVars
<1>7. ASSUME NEW th \in Thread, SkipReplication(th) \/ ReplicationAcked(th)
      PROVE  TypeData'
  BY <1>7 DEF SkipReplication, ReplicationAcked, TypeData, Goto, PC,
              InCriticalSection, dataVars, roleVars
<1>8. ASSUME NEW th \in Thread, FailWrite(th) PROVE TypeData'
  BY <1>8, AnswerKeepsTypes DEF FailWrite, TypeData, Answered, roleVars
<1>9. ASSUME NEW th \in Thread, SendReplication(th) PROVE TypeData'
  <2>1. ReplicatedMessage(th) \in Message /\ snapshot[th] \in Reservation
    BY <1>9, ReplicatedShape, MessageShape
       DEF SendReplication, ThreadInv, WellFormed, Stamped
  <2> QED
    BY <1>9, <2>1 DEF SendReplication, TypeData, PC, InCriticalSection, dataVars, roleVars
<1>10. ASSUME NEW th \in Thread, CommitBooking(th) PROVE TypeData'
  <2>1. snapshot[th] \in Reservation
    BY <1>10 DEF CommitBooking, ThreadInv, WellFormed, Stamped
  <2> QED
    BY <1>10, <2>1, AnswerKeepsTypes DEF CommitBooking, Store, TypeData, Answered, roleVars
<1>11. ASSUME NEW th \in Thread, CommitCancellation(th) PROVE TypeData'
  BY <1>11, AnswerKeepsTypes DEF CommitCancellation, Store, TypeData, Answered, roleVars
<1>12. ASSUME NEW th \in Thread, ApplyReplication(th) PROVE TypeData'
  <2>1. snapshot[th] \in Reservation
    BY <1>12, ThreadPlace, ThreadShape, MessageShape
       DEF ApplyReplication, ApplyWrite, ThreadInv, WellFormed, Does
  <2>2. At(th) \in Node /\ snapshot[th].lamport_ts \in Nat
    BY <1>12, <2>1, ThreadPlace DEF ApplyReplication, Reservation
  <2>3. reservations' \in [Node -> [Slot -> Reservation \cup {None}]]
    <3>1. CASE Store(th, snapshot[th])
      BY <3>1, <2>1 DEF Store, TypeData
    <3>2. CASE Store(th, None)
      BY <3>2 DEF Store, TypeData
    <3> QED
      BY <1>12, <3>1, <3>2, Zenon DEF ApplyReplication, ApplyWrite
  <2>4. logical_clock' \in [Node -> Nat]
    BY <1>12, <2>2 DEF ApplyReplication, AdvanceLamportFromPeer, Max2, TypeData
  <2> QED
    BY <1>12, <2>3, <2>4, AnswerKeepsTypes DEF ApplyReplication, TypeData, Answered, roleVars
<1>13. ASSUME NEW n \in Node, NodeStep(n) PROVE TypeData'
  <2>1. CASE Stop(n)
    BY <2>1 DEF Stop, TypeData, dataVars, threadVars
  <2>2. CASE Crash(n)
    BY <2>2 DEF Crash, TypeData, dataVars, PC
  <2>3. CASE PromoteToPrimary(n)
    BY <2>3, ConfigAssumption DEF PromoteToPrimary, TypeData, dataVars, threadVars
  <2> QED
    BY <1>13, <2>1, <2>2, <2>3 DEF NodeStep
<1>14. CASE UNCHANGED serviceVars
  BY <1>14 DEF serviceVars, dataVars, roleVars, threadVars, TypeData
<1> QED
  BY <1>1, <1>2, <1>3, <1>4, <1>5, <1>6, <1>7, <1>8, <1>9, <1>10, <1>11, <1>12, <1>13,
     <1>14, Zenon DEF Next, ThreadStep, BackupUnreachable, ReplicationFailed

(* A thread that only moves on stays well-formed if it may be where it is. *)
LEMMA MoveKeepsThreads ==
  ASSUME Typed, NEW th \in Thread, NEW where, Goto(th, where), pc[th] # "idle",
         UNCHANGED <<msg, snapshot>>,
         where \in InCriticalSection => msg[th].table \in Table,
         where \in Stamped => th[2] = "serve" /\ snapshot[th] \in Reservation
  PROVE  ThreadInv'
<1> SUFFICES ASSUME NEW q \in Thread PROVE WellFormed(q)'
  BY DEF ThreadInv
<1>1. CASE q = th
  BY <1>1, ThreadShape DEF Typed, TypeData, ThreadInv, WellFormed, Goto
<1>2. CASE q # th
  BY <1>2 DEF Typed, TypeData, ThreadInv, WellFormed, Goto
<1> QED
  BY <1>1, <1>2

LEMMA ThreadStepKeepsThreads ==
  ASSUME Typed, NEW th \in Thread, ThreadStep(th)
  PROVE  ThreadInv'
<1> USE DEF Typed
<1>1. CASE UnknownTable(th) \/ LockTimeout(th)
  BY <1>1, MoveKeepsThreads DEF UnknownTable, LockTimeout, InCriticalSection, Stamped
<1>2. CASE AcquireLock(th)
  BY <1>2, MoveKeepsThreads DEF AcquireLock, Stamped
<1>3. CASE RejectRequest(th)
  BY <1>3, MoveKeepsThreads
     DEF RejectRequest, ReleaseAndAnswer, InCriticalSection, Stamped
<1>4. ASSUME pc[th] = "locked", Does(th, "book") \/ Does(th, "cancel"),
             NEW r \in Reservation, snapshot' = [snapshot EXCEPT ![th] = r],
             Goto(th, "replicate"), UNCHANGED msg
      PROVE  ThreadInv'
  <2>1. th[2] = "serve"
    BY <1>4, ThreadPlace, ThreadShape, MessageShape DEF Does
  <2> SUFFICES ASSUME NEW q \in Thread PROVE WellFormed(q)'
    BY DEF ThreadInv
  <2>2. CASE q = th
    BY <1>4, <2>1, <2>2 DEF TypeData, ThreadInv, WellFormed, Goto, InCriticalSection
  <2>3. CASE q # th
    BY <1>4, <2>3 DEF TypeData, ThreadInv, WellFormed, Goto
  <2> QED
    BY <2>2, <2>3
<1>5. CASE StampBooking(th)
  <2>1. msg[th].customer \in Customer
    BY <1>5, ThreadPlace, ThreadShape, MessageShape DEF StampBooking, Does
  <2>2. [customer |-> msg[th].customer, lamport_ts |-> logical_clock'[At(th)]]
          \in Reservation
    BY <1>5, <2>1, StampKeepsTypes DEF StampBooking, Reservation
  <2> QED
    BY <1>4, <1>5, <2>2 DEF StampBooking
<1>6. CASE StampCancellation(th)
  <2>1. Held(th) \in Reservation
    BY <1>6, ThreadPlace DEF StampCancellation, Held, TypeData, InCriticalSection
  <2>2. [customer |-> Held(th).customer, lamport_ts |-> logical_clock'[At(th)]]
          \in Reservation
    BY <1>6, <2>1, StampKeepsTypes DEF StampCancellation, Reservation
  <2> QED
    BY <1>4, <1>6, <2>2 DEF StampCancellation
<1>7. CASE SkipReplication(th) \/ ReplicationAcked(th)
  BY <1>7, MoveKeepsThreads, ThreadShape
     DEF SkipReplication, ReplicationAcked, ThreadInv, WellFormed, InCriticalSection, Stamped
<1>8. CASE BackupUnreachable(th) \/ ReplicationFailed(th)
  BY <1>8, MoveKeepsThreads
     DEF BackupUnreachable, ReplicationFailed, FailWrite, ReleaseAndAnswer,
         InCriticalSection, Stamped
<1>9. CASE SendReplication(th)
  <2>1. /\ th[2] = "serve" /\ ReplicatedMessage(th) \in AppliedMessage
        /\ snapshot[th] \in Reservation
    BY <1>9, ReplicatedShape DEF SendReplication, ThreadInv, WellFormed, Stamped
  <2> SUFFICES ASSUME NEW q \in Thread PROVE WellFormed(q)'
    BY DEF ThreadInv
  <2>2. CASE q = th
    BY <1>9, <2>1, <2>2, ThreadShape
       DEF SendReplication, TypeData, ThreadInv, WellFormed, InCriticalSection, Stamped
  <2>3. CASE q = Applier(th)
    BY <1>9, <2>1, <2>3, ThreadShape
       DEF SendReplication, TypeData, WellFormed, InCriticalSection, Stamped
  <2>4. CASE q # th /\ q # Applier(th)
    BY <1>9, <2>4 DEF SendReplication, TypeData, ThreadInv, WellFormed
  <2> QED
    BY <2>2, <2>3, <2>4
<1>10. CASE CommitBooking(th) \/ CommitCancellation(th) \/ ApplyReplication(th)
  BY <1>10, MoveKeepsThreads
     DEF CommitBooking, CommitCancellation, ApplyReplication, ReleaseAndAnswer,
         InCriticalSection, Stamped
<1> QED
  BY <1>1, <1>2, <1>3, <1>5, <1>6, <1>7, <1>8, <1>9, <1>10, Zenon DEF ThreadStep

LEMMA ThreadInvStep == Typed /\ [Next]_serviceVars => ThreadInv'
<1> SUFFICES ASSUME Typed, [Next]_serviceVars PROVE ThreadInv'
  OBVIOUS
<1> USE DEF Typed
<1>1. ASSUME NEW th \in Thread, NEW m \in ClientMessage, HandleClient(th, m)
      PROVE  ThreadInv'
  BY <1>1 DEF HandleClient, Goto, TypeData, ThreadInv, WellFormed, InCriticalSection,
              Stamped
<1>2. ASSUME NEW n \in Node, Crash(n) PROVE ThreadInv'
  <2> SUFFICES ASSUME NEW q \in Thread PROVE WellFormed(q)'
    BY DEF ThreadInv
  <2>1. pc'[q] = pc[q] \/ (pc[q] # "idle" /\ pc'[q] = "dead")
    BY <1>2 DEF Crash, InCriticalSection
  <2> QED
    BY <1>2, <2>1 DEF Crash, ThreadInv, WellFormed, InCriticalSection, Stamped
<1>3. CASE UNCHANGED threadVars
  BY <1>3 DEF threadVars, ThreadInv, WellFormed
<1> QED
  BY <1>1, <1>2, <1>3, ThreadStepKeepsThreads
     DEF Next, NodeStep, Stop, PromoteToPrimary, serviceVars

LEMMA TypedStep == Typed /\ [Next]_serviceVars => Typed'
BY TypeDataStep, FlagsStep, RoleStep, ThreadInvStep DEF Typed

(* The type invariant of the restaurant services                           *)
(* (reservation_service.py).                                               *)
THEOREM TypeCorrect == Spec => []TypeOK
<1>1. Typed => TypeOK
  BY TypeParts DEF Typed
<1> QED
  BY <1>1, InitTyped, TypedStep, PTL DEF Spec

-------------------------------------------------------------------------------
(* The table locks.                                                        *)

LockInv ==
    \A th \in Thread :
        pc[th] \in InCriticalSection => table_locks[At(th)][msg[th].table] = th

(* What a thread has in hand changes by its own steps only, or before it   *)
(* has looked for its lock.                                                *)
LEMMA OthersKeepTheirs ==
  ASSUME Typed, NEW th \in Thread, ThreadStep(th),
         NEW q \in Thread, q # th, pc'[q] \in InCriticalSection \cup Answered
  PROVE  pc'[q] = pc[q] /\ msg'[q] = msg[q] /\ snapshot'[q] = snapshot[q]
<1> USE DEF Typed, TypeData
<1>1. CASE SendReplication(th)
  BY <1>1 DEF SendReplication, InCriticalSection, Answered
<1>2. CASE StampBooking(th) \/ StampCancellation(th)
  BY <1>2 DEF StampBooking, StampCancellation, Goto
<1>3. ASSUME NEW where, Goto(th, where), UNCHANGED <<msg, snapshot>>
      PROVE  pc'[q] = pc[q] /\ msg'[q] = msg[q] /\ snapshot'[q] = snapshot[q]
  BY <1>3 DEF Goto
<1> QED
  BY <1>1, <1>2, <1>3, Zenon
     DEF ThreadStep, UnknownTable, AcquireLock, LockTimeout, RejectRequest,
         SkipReplication, BackupUnreachable, FailWrite, ReplicationAcked,
         ReplicationFailed, CommitBooking, CommitCancellation, ApplyReplication,
         ReleaseAndAnswer

(* A step of a thread takes a free lock, gives its own back, or leaves all *)
(* locks alone.                                                            *)
LEMMA LocksMove ==
  ASSUME Typed, NEW th \in Thread, ThreadStep(th)
  PROVE  \/ AcquireLock(th)
         \/ /\ pc[th] \in InCriticalSection
            /\ \E status \in Answered : ReleaseAndAnswer(th, status)
         \/ /\ UNCHANGED table_locks
            /\ pc'[th] \in InCriticalSection => pc[th] \in InCriticalSection
<1>1. CASE AcquireLock(th)
  BY <1>1
<1>2. CASE \/ RejectRequest(th) \/ BackupUnreachable(th) \/ ReplicationFailed(th)
           \/ CommitBooking(th) \/ CommitCancellation(th) \/ ApplyReplication(th)
  BY <1>2 DEF RejectRequest, BackupUnreachable, ReplicationFailed, FailWrite,
              CommitBooking, CommitCancellation, ApplyReplication, InCriticalSection,
              Answered
<1>3. CASE UnknownTable(th) \/ LockTimeout(th)
  BY <1>3 DEF UnknownTable, LockTimeout, Goto, dataVars, InCriticalSection, Typed, TypeData
<1>4. CASE \/ StampBooking(th) \/ StampCancellation(th) \/ SkipReplication(th)
           \/ SendReplication(th) \/ ReplicationAcked(th)
  BY <1>4 DEF StampBooking, StampCancellation, SkipReplication, SendReplication,
              ReplicationAcked, dataVars, InCriticalSection
<1> QED
  BY <1>1, <1>2, <1>3, <1>4, Zenon DEF ThreadStep

LEMMA LockStep == Typed /\ LockInv /\ [Next]_serviceVars => LockInv'
<1> SUFFICES ASSUME Typed, LockInv, [Next]_serviceVars,
                    NEW q \in Thread, pc'[q] \in InCriticalSection
             PROVE  table_locks'[At(q)'][msg'[q].table] = q
  BY DEF LockInv, At
<1>1. ASSUME NEW th \in Thread, ThreadStep(th)
      PROVE  table_locks'[At(q)'][msg'[q].table] = q
  <2>1. CASE q = th /\ AcquireLock(th)
    <3>1. pc[th] # "idle" /\ msg[th].table \in Table /\ At(th) \in Node
      BY <2>1, ThreadPlace DEF AcquireLock
    <3> QED
      BY <2>1, <3>1 DEF AcquireLock, At, Typed, TypeData
  <2>2. CASE q = th /\ ~AcquireLock(th)
    <3>1. pc[th] \in InCriticalSection /\ UNCHANGED table_locks
      <4>1. ASSUME NEW status \in Answered, ReleaseAndAnswer(th, status) PROVE FALSE
        BY <4>1, <2>2
           DEF ReleaseAndAnswer, Goto, Answered, InCriticalSection, Typed, TypeData
      <4> QED
        BY <1>1, <2>2, <4>1, LocksMove
    <3>2. msg'[th] = msg[th]
      <4>1. th[2] = "serve" => Applier(th) # th
        BY ThreadShape
      <4>2. SendReplication(th) => th[2] = "serve"
        BY ReplicatedShape DEF SendReplication
      <4>3. ~SendReplication(th) => msg' = msg
        BY <1>1, Zenon
           DEF ThreadStep, UnknownTable, AcquireLock, LockTimeout, RejectRequest,
               StampBooking, StampCancellation, SkipReplication, BackupUnreachable,
               FailWrite, ReplicationAcked, ReplicationFailed, CommitBooking,
               CommitCancellation, ApplyReplication
      <4> QED
        BY <4>1, <4>2, <4>3 DEF SendReplication, Typed, TypeData
    <3> QED
      BY <2>2, <3>1, <3>2 DEF LockInv, At
  <2>3. CASE q # th
    <3>1. pc[q] \in InCriticalSection /\ msg'[q] = msg[q]
      BY <1>1, <2>3, OthersKeepTheirs
    <3>2. /\ table_locks[At(q)][msg[q].table] = q
          /\ At(q) \in Node /\ msg[q].table \in Table /\ q # None
      BY <3>1, ThreadPlace, NoneAssumption DEF LockInv, InCriticalSection
    <3>3. CASE AcquireLock(th)
      BY <3>1, <3>2, <3>3 DEF AcquireLock, LockFree, At, Typed, TypeData
    <3>4. ASSUME pc[th] \in InCriticalSection,
                 NEW status \in Answered, ReleaseAndAnswer(th, status)
          PROVE  table_locks'[At(q)'][msg'[q].table] = q
      <4>1. table_locks[At(th)][msg[th].table] = th
        BY <3>4 DEF LockInv
      <4> QED
        BY <2>3, <3>1, <3>2, <3>4, <4>1 DEF ReleaseAndAnswer, At, Typed, TypeData
    <3>5. CASE UNCHANGED table_locks
      BY <3>1, <3>2, <3>5 DEF At
    <3> QED
      BY <1>1, <3>3, <3>4, <3>5, LocksMove
  <2> QED
    BY <2>1, <2>2, <2>3
<1>2. ASSUME NEW th \in Thread, NEW m \in ClientMessage, HandleClient(th, m)
      PROVE  table_locks'[At(q)'][msg'[q].table] = q
  <2>1. q # th /\ pc[q] \in InCriticalSection
    BY <1>2 DEF HandleClient, Goto, Typed, TypeData, InCriticalSection
  <2> QED
    BY <1>2, <2>1 DEF HandleClient, LockInv, At, dataVars, Typed, TypeData
<1>3. ASSUME NEW n \in Node, NodeStep(n)
      PROVE  table_locks'[At(q)'][msg'[q].table] = q
  <2>1. pc[q] \in InCriticalSection
    BY <1>3 DEF NodeStep, Stop, Crash, PromoteToPrimary, threadVars, InCriticalSection
  <2> QED
    BY <1>3, <2>1
       DEF NodeStep, Stop, Crash, PromoteToPrimary, threadVars, dataVars, LockInv, At
<1>4. CASE UNCHANGED serviceVars
  BY <1>4 DEF serviceVars, threadVars, dataVars, LockInv, At
<1> QED
  BY <1>1, <1>2, <1>3, <1>4 DEF Next

-------------------------------------------------------------------------------
(* What one step can do to the data, and to the threads that hold a lock   *)
(* or have answered.                                                       *)

EnvironmentStep ==
    \/ \E th \in Thread, m \in ClientMessage : HandleClient(th, m)
    \/ \E n \in Node : NodeStep(n)
    \/ UNCHANGED serviceVars

LEMMA Steps == [Next]_serviceVars =>
                 EnvironmentStep \/ \E th \in Thread : ThreadStep(th)
BY Zenon DEF Next, EnvironmentStep

LEMMA EnvironmentKeeps ==
  ASSUME Typed, EnvironmentStep
  PROVE  /\ UNCHANGED <<reservations, logical_clock>>
         /\ \A q \in Thread :
              pc'[q] \in InCriticalSection \cup Answered =>
                pc'[q] = pc[q] /\ msg'[q] = msg[q] /\ snapshot'[q] = snapshot[q]
<1>1. CASE \E th \in Thread, m \in ClientMessage : HandleClient(th, m)
  BY <1>1 DEF HandleClient, Goto, dataVars, Typed, TypeData, InCriticalSection, Answered
<1>2. ASSUME NEW n \in Node, Crash(n)
      PROVE  \A q \in Thread :
               pc'[q] \in InCriticalSection \cup Answered => pc'[q] = pc[q]
  BY <1>2 DEF Crash, InCriticalSection, Answered
<1>3. CASE \E n \in Node : NodeStep(n)
  BY <1>2, <1>3 DEF NodeStep, Stop, Crash, PromoteToPrimary, threadVars, dataVars
<1>4. CASE UNCHANGED serviceVars
  BY <1>4 DEF serviceVars, threadVars, dataVars
<1> QED
  BY <1>1, <1>3, <1>4 DEF EnvironmentStep

LEMMA StoresMove ==
  ASSUME Typed, NEW th \in Thread, ThreadStep(th)
  PROVE  \/ UNCHANGED reservations
         \/ /\ pc[th] \in InCriticalSection
            /\ Store(th, snapshot[th]) \/ Store(th, None)
BY Zenon DEF ThreadStep, UnknownTable, AcquireLock, LockTimeout, RejectRequest,
   StampBooking, StampCancellation, SkipReplication, BackupUnreachable, FailWrite,
   SendReplication, ReplicationAcked, ReplicationFailed, CommitBooking,
   CommitCancellation, ApplyReplication, ApplyWrite, dataVars, InCriticalSection

(* While a thread holds a table's lock no other thread writes that table. *)
LEMMA HolderAlone ==
  ASSUME Typed, LockInv, NEW th \in Thread, ThreadStep(th),
         NEW q \in Thread, q # th, pc[q] \in InCriticalSection,
         NEW s \in Slot, s[1] = msg[q].table
  PROVE  reservations'[At(q)][s] = reservations[At(q)][s]
<1>1. CASE UNCHANGED reservations
  BY <1>1
<1>2. ASSUME pc[th] \in InCriticalSection, NEW v, Store(th, v)
      PROVE  reservations'[At(q)][s] = reservations[At(q)][s]
  <2>1. At(th) # At(q) \/ msg[th].table # msg[q].table
    BY <1>2 DEF LockInv
  <2>2. At(q) \in Node
    BY ThreadPlace DEF InCriticalSection
  <2> QED
    BY <1>2, <2>1, <2>2 DEF Store, Key, Typed, TypeData
<1> QED
  BY <1>1, <1>2, StoresMove

LEMMA OwnStampedStep ==
  ASSUME Typed, NEW th \in Thread, ThreadStep(th), pc'[th] \in Stamped
  PROVE  \/ StampBooking(th) \/ StampCancellation(th)
         \/ /\ pc[th] \in Stamped
            /\ msg'[th] = msg[th] /\ snapshot'[th] = snapshot[th]
            /\ UNCHANGED <<reservations, logical_clock>>
<1> USE DEF Typed, TypeData, Stamped
<1>1. CASE SkipReplication(th) \/ ReplicationAcked(th)
  BY <1>1 DEF SkipReplication, ReplicationAcked, dataVars
<1>2. CASE SendReplication(th)
  <2>1. Applier(th) # th
    BY <1>2, ReplicatedShape, ThreadShape DEF SendReplication
  <2> QED
    BY <1>2, <2>1, ThreadShape DEF SendReplication, dataVars
<1>3. ~Goto(th, "locked") /\ ~Goto(th, "ok") /\ ~Goto(th, "error")
  BY DEF Goto
<1>4. CASE \/ UnknownTable(th) \/ AcquireLock(th) \/ LockTimeout(th)
           \/ RejectRequest(th) \/ BackupUnreachable(th) \/ ReplicationFailed(th)
           \/ CommitBooking(th) \/ CommitCancellation(th) \/ ApplyReplication(th)
  BY <1>3, <1>4, Zenon
     DEF UnknownTable, AcquireLock, LockTimeout, RejectRequest, BackupUnreachable,
         ReplicationFailed, FailWrite, CommitBooking, CommitCancellation,
         ApplyReplication, ReleaseAndAnswer
<1> QED
  BY <1>1, <1>2, <1>4, Zenon DEF ThreadStep

-------------------------------------------------------------------------------
LEMMA DecisionStep ==
  Typed /\ LockInv /\ DecisionStillValid /\ [Next]_serviceVars => DecisionStillValid'
<1> SUFFICES ASSUME Typed, LockInv, DecisionStillValid, [Next]_serviceVars,
                    NEW q \in Thread, pc'[q] \in Stamped
             PROVE  \/ Does(q, "book")' /\ Held(q)' = None
                    \/ Does(q, "cancel")' /\ Held(q)' # None
                       /\ Held(q)'.customer = snapshot'[q].customer
  BY DEF DecisionStillValid
<1>1. ASSUME pc[q] \in Stamped, msg'[q] = msg[q], snapshot'[q] = snapshot[q],
             Held(q)' = Held(q)
      PROVE  \/ Does(q, "book")' /\ Held(q)' = None
             \/ Does(q, "cancel")' /\ Held(q)' # None
                /\ Held(q)'.customer = snapshot'[q].customer
  BY <1>1 DEF DecisionStillValid, Does
<1>2. CASE EnvironmentStep
  BY <1>1, <1>2, EnvironmentKeeps DEF Held, At, Key, Stamped, InCriticalSection
<1>3. ASSUME NEW th \in Thread, ThreadStep(th), q # th
      PROVE  pc[q] \in Stamped /\ msg'[q] = msg[q] /\ snapshot'[q] = snapshot[q]
             /\ Held(q)' = Held(q)
  <2>1. /\ pc[q] \in Stamped /\ pc[q] \in InCriticalSection
        /\ msg'[q] = msg[q] /\ snapshot'[q] = snapshot[q]
    BY <1>3, OthersKeepTheirs DEF Stamped, InCriticalSection
  <2>2. Key(q) \in Slot /\ Key(q)[1] = msg[q].table
    BY <2>1, ThreadPlace DEF InCriticalSection, Key
  <2>3. reservations'[At(q)][Key(q)] = reservations[At(q)][Key(q)]
    BY <1>3, <2>1, <2>2, HolderAlone
  <2> QED
    BY <2>1, <2>3 DEF Held, At, Key
<1>4. CASE ThreadStep(q)
  <2>1. CASE StampBooking(q)
    BY <2>1 DEF StampBooking, Does, Held, At, Key
  <2>2. CASE StampCancellation(q)
    BY <2>2 DEF StampCancellation, Does, Held, At, Key, Typed, TypeData
  <2>3. CASE /\ pc[q] \in Stamped
             /\ msg'[q] = msg[q] /\ snapshot'[q] = snapshot[q]
             /\ UNCHANGED <<reservations, logical_clock>>
    BY <1>1, <2>3 DEF Held, At, Key
  <2> QED
    BY <1>4, <2>1, <2>2, <2>3, OwnStampedStep
<1> QED
  BY <1>1, <1>2, <1>3, <1>4, Steps

(* From the look at the slot to the write, across the wait for the backup, *)
(* nothing invalidates what a thread has decided                           *)
(* (reservation_service.py:298-382).                                       *)
THEOREM DecisionsStayValid == Spec => []DecisionStillValid
<1>1. Init => LockInv /\ DecisionStillValid
  BY DEF Init, LockInv, DecisionStillValid, InCriticalSection, Stamped
<1> QED
  BY <1>1, InitTyped, TypedStep, LockStep, DecisionStep, PTL DEF Spec

-------------------------------------------------------------------------------
(* The Lamport clocks.                                                     *)

(* The clock of a process covers the stamps its threads have in hand. *)
StampsCovered ==
    \A th \in Thread :
        pc[th] \in Stamped => snapshot[th].lamport_ts <= logical_clock[At(th)]

ClockInv == ClockCoversStored /\ StampsCovered

LEMMA ClocksGrow ==
  ASSUME Typed, [Next]_serviceVars, NEW n \in Node
  PROVE  /\ logical_clock[n] \in Nat /\ logical_clock'[n] \in Nat
         /\ logical_clock[n] <= logical_clock'[n]
<1>1. logical_clock[n] \in Nat /\ logical_clock'[n] \in Nat
  BY TypedStep DEF Typed, TypeData
<1>2. CASE UNCHANGED logical_clock
  BY <1>1, <1>2
<1>3. ASSUME NEW th \in Thread, NextLamport(th)
      PROVE  logical_clock[n] <= logical_clock'[n]
  BY <1>1, <1>3 DEF NextLamport, Typed, TypeData
<1>4. ASSUME NEW th \in Thread, ApplyReplication(th)
      PROVE  logical_clock[n] <= logical_clock'[n]
  <2>1. snapshot[th].lamport_ts \in Nat
    BY <1>4, ThreadPlace, ThreadShape, MessageShape
       DEF ApplyReplication, ApplyWrite, Typed, ThreadInv, WellFormed, Does, Reservation
  <2> QED
    BY <1>1, <1>4, <2>1
       DEF ApplyReplication, AdvanceLamportFromPeer, Max2, Typed, TypeData
<1>5. (\E th \in Thread : NextLamport(th) \/ ApplyReplication(th)) \/ UNCHANGED logical_clock
  BY Zenon DEF Next, ThreadStep, NodeStep, serviceVars, HandleClient, UnknownTable,
         AcquireLock, LockTimeout, RejectRequest, StampBooking, StampCancellation,
         SkipReplication, BackupUnreachable, FailWrite, SendReplication,
         ReplicationAcked, ReplicationFailed, CommitBooking, CommitCancellation,
         Stop, Crash, PromoteToPrimary, dataVars
<1> QED
  BY <1>1, <1>2, <1>3, <1>4, <1>5

LEMMA StoredStep == Typed /\ ClockInv /\ [Next]_serviceVars => ClockCoversStored'
<1> SUFFICES ASSUME Typed, ClockInv, [Next]_serviceVars,
                    NEW n \in Node, NEW s \in Slot, reservations'[n][s] # None
             PROVE  reservations'[n][s].lamport_ts <= logical_clock'[n]
  BY DEF ClockCoversStored
<1>1. /\ logical_clock[n] \in Nat /\ logical_clock'[n] \in Nat
      /\ logical_clock[n] <= logical_clock'[n]
  BY ClocksGrow
<1>2. ASSUME reservations'[n][s] = reservations[n][s]
      PROVE  reservations'[n][s].lamport_ts <= logical_clock'[n]
  <2>1. reservations[n][s] \in Reservation
    BY <1>2 DEF Typed, TypeData
  <2> QED
    BY <1>1, <1>2, <2>1 DEF ClockInv, ClockCoversStored, Reservation
<1>3. CASE UNCHANGED reservations
  BY <1>2, <1>3
<1>4. ASSUME NEW th \in Thread, Store(th, None)
      PROVE  reservations'[n][s].lamport_ts <= logical_clock'[n]
  BY <1>2, <1>4 DEF Store, Typed, TypeData
<1>5. ASSUME NEW th \in Thread, Store(th, snapshot[th]),
             snapshot[th].lamport_ts <= logical_clock'[At(th)]
      PROVE  reservations'[n][s].lamport_ts <= logical_clock'[n]
  BY <1>2, <1>5 DEF Store, Typed, TypeData
<1>6. ASSUME NEW th \in Thread, CommitBooking(th)
      PROVE  snapshot[th].lamport_ts <= logical_clock'[At(th)]
  BY <1>6 DEF CommitBooking, ClockInv, StampsCovered, Stamped
<1>7. ASSUME NEW th \in Thread, ApplyReplication(th)
      PROVE  snapshot[th].lamport_ts <= logical_clock'[At(th)]
  <2>1. snapshot[th].lamport_ts \in Nat /\ At(th) \in Node
    BY <1>7, ThreadPlace, ThreadShape, MessageShape
       DEF ApplyReplication, ApplyWrite, Typed, ThreadInv, WellFormed, Does, Reservation
  <2> QED
    BY <1>7, <2>1 DEF ApplyReplication, AdvanceLamportFromPeer, Max2, Typed, TypeData
<1>8. \/ UNCHANGED reservations
      \/ \E th \in Thread :
            \/ Store(th, None)
            \/ Store(th, snapshot[th]) /\ (CommitBooking(th) \/ ApplyReplication(th))
  <2>1. CASE EnvironmentStep
    BY <2>1, EnvironmentKeeps
  <2>2. CASE \E th \in Thread : ThreadStep(th)
    BY <2>2, Zenon DEF ThreadStep, UnknownTable, AcquireLock, LockTimeout, RejectRequest,
       StampBooking, StampCancellation, SkipReplication, BackupUnreachable, FailWrite,
       SendReplication, ReplicationAcked, ReplicationFailed, CommitBooking,
       CommitCancellation, ApplyReplication, ApplyWrite, dataVars
  <2> QED
    BY <2>1, <2>2, Steps
<1> QED
  BY <1>3, <1>4, <1>5, <1>6, <1>7, <1>8

LEMMA CoveredStep == Typed /\ ClockInv /\ [Next]_serviceVars => StampsCovered'
<1> SUFFICES ASSUME Typed, ClockInv, [Next]_serviceVars,
                    NEW q \in Thread, pc'[q] \in Stamped
             PROVE  snapshot'[q].lamport_ts <= logical_clock'[At(q)']
  BY DEF StampsCovered, At
<1>1. ASSUME pc[q] \in Stamped, msg'[q] = msg[q], snapshot'[q] = snapshot[q]
      PROVE  snapshot'[q].lamport_ts <= logical_clock'[At(q)']
  <2>1. At(q) \in Node /\ At(q)' = At(q) /\ snapshot[q].lamport_ts \in Nat
    BY <1>1, ThreadPlace DEF At, Stamped, Typed, ThreadInv, WellFormed, Reservation
  <2>2. /\ logical_clock[At(q)] \in Nat /\ logical_clock'[At(q)] \in Nat
        /\ logical_clock[At(q)] <= logical_clock'[At(q)]
    BY <2>1, ClocksGrow
  <2> QED
    BY <1>1, <2>1, <2>2 DEF ClockInv, StampsCovered
<1>2. CASE EnvironmentStep
  BY <1>1, <1>2, EnvironmentKeeps DEF Stamped, InCriticalSection
<1>3. ASSUME NEW th \in Thread, ThreadStep(th), q # th
      PROVE  pc[q] \in Stamped /\ msg'[q] = msg[q] /\ snapshot'[q] = snapshot[q]
  BY <1>3, OthersKeepTheirs DEF Stamped, InCriticalSection
<1>4. CASE StampBooking(q) \/ StampCancellation(q)
  <2>1. /\ snapshot'[q].lamport_ts = logical_clock'[At(q)] /\ msg' = msg
        /\ pc[q] = "locked"
    BY <1>4 DEF StampBooking, StampCancellation, Typed, TypeData
  <2>2. At(q) \in Node
    BY <2>1, ThreadPlace
  <2> QED
    BY <2>1, <2>2, ClocksGrow DEF At
<1>5. CASE ThreadStep(q)
  BY <1>1, <1>4, <1>5, OwnStampedStep
<1> QED
  BY <1>1, <1>2, <1>3, <1>5, Steps

(* Under every fault and on every process the clock covers what is stored, *)
(* so a promoted backup stamps above all it was ever sent                  *)
(* (reservation_service.py:70-85).                                         *)
THEOREM ClocksCover == Spec => []ClockCoversStored
<1>1. Init => ClockInv
  BY DEF Init, ClockInv, ClockCoversStored, StampsCovered, Stamped
<1>2. Typed /\ ClockInv /\ [Next]_serviceVars => ClockInv'
  BY StoredStep, CoveredStep DEF ClockInv
<1>3. ClockInv => ClockCoversStored
  BY DEF ClockInv
<1> QED
  BY <1>1, <1>2, <1>3, InitTyped, TypedStep, PTL DEF Spec

-------------------------------------------------------------------------------
(* Timestamps against the reservations stored.                             *)

(* A stamp just drawn is above all that its process stores. *)
LEMMA StampAbove ==
  ASSUME Typed, ClockInv, NEW q \in Thread, StampBooking(q) \/ StampCancellation(q),
         NEW s \in Slot, reservations[At(q)][s] # None
  PROVE  /\ UNCHANGED <<reservations, msg>>
         /\ snapshot'[q].lamport_ts = logical_clock[At(q)] + 1
         /\ reservations[At(q)][s].lamport_ts < snapshot'[q].lamport_ts
<1>1. pc[q] = "locked" /\ NextLamport(q) /\ UNCHANGED <<reservations, msg>>
  BY DEF StampBooking, StampCancellation
<1>2. snapshot'[q].lamport_ts = logical_clock[At(q)] + 1
  BY <1>1, StampKeepsTypes DEF StampBooking, StampCancellation, Typed, TypeData
<1>3. /\ At(q) \in Node /\ logical_clock[At(q)] \in Nat
      /\ reservations[At(q)][s] \in Reservation
  BY <1>1, ThreadPlace DEF Typed, TypeData
<1> QED
  BY <1>1, <1>2, <1>3 DEF ClockInv, ClockCoversStored, Reservation

LEMMA FreshestStep ==
  Typed /\ LockInv /\ ClockInv /\ StampIsFreshest /\ [Next]_serviceVars
  => StampIsFreshest'
<1> SUFFICES ASSUME Typed, LockInv, ClockInv, StampIsFreshest, [Next]_serviceVars,
                    NEW q \in Thread, NEW s \in Slot, pc'[q] \in Stamped,
                    s[1] = msg'[q].table, reservations'[At(q)'][s] # None
             PROVE  reservations'[At(q)'][s].lamport_ts < snapshot'[q].lamport_ts
  BY DEF StampIsFreshest, At
<1>1. ASSUME pc[q] \in Stamped, msg'[q] = msg[q], snapshot'[q] = snapshot[q],
             reservations'[At(q)][s] = reservations[At(q)][s]
      PROVE  reservations'[At(q)'][s].lamport_ts < snapshot'[q].lamport_ts
  BY <1>1 DEF StampIsFreshest, At
<1>2. CASE EnvironmentStep
  BY <1>1, <1>2, EnvironmentKeeps DEF Stamped, InCriticalSection
<1>3. ASSUME NEW th \in Thread, ThreadStep(th), q # th
      PROVE  /\ pc[q] \in Stamped /\ msg'[q] = msg[q] /\ snapshot'[q] = snapshot[q]
             /\ reservations'[At(q)][s] = reservations[At(q)][s]
  <2>1. /\ pc[q] \in Stamped /\ pc[q] \in InCriticalSection
        /\ msg'[q] = msg[q] /\ snapshot'[q] = snapshot[q]
    BY <1>3, OthersKeepTheirs DEF Stamped, InCriticalSection
  <2> QED
    BY <1>3, <2>1, HolderAlone
<1>4. CASE StampBooking(q) \/ StampCancellation(q)
  <2>1. reservations'[At(q)'] = reservations[At(q)]
    BY <1>4 DEF StampBooking, StampCancellation, At
  <2> QED
    BY <1>4, <2>1, StampAbove
<1>5. CASE ThreadStep(q)
  BY <1>1, <1>4, <1>5, OwnStampedStep
<1> QED
  BY <1>1, <1>2, <1>3, <1>5, Steps

(* Whatever is replicated, retried or applied late, the timestamp of a     *)
(* write about to be made is above those its process stores for the table  *)
(* (reservation_service.py:60-68,321-340).                                 *)
THEOREM StampsAreFreshest == Spec => []StampIsFreshest
<1>1. Init => LockInv /\ ClockInv /\ StampIsFreshest
  BY DEF Init, LockInv, ClockInv, ClockCoversStored, StampsCovered, StampIsFreshest,
         InCriticalSection, Stamped
<1>2. Typed /\ ClockInv /\ [Next]_serviceVars => ClockInv'
  BY StoredStep, CoveredStep DEF ClockInv
<1> QED
  BY <1>1, <1>2, InitTyped, TypedStep, LockStep, FreshestStep, PTL DEF Spec

-------------------------------------------------------------------------------
(* Acknowledgement before confirmation.                                    *)

(* Of a replicating process's thread: the backup's thread that applies its *)
(* write has been given that very write, and has applied it by the time    *)
(* the wait is over.                                                       *)
Handed(th) ==
    LET a == Applier(th) IN
    /\ pc[a] # "idle"
    /\ msg[a] = ReplicatedMessage(th)
    /\ snapshot[a] = snapshot[th]

AckInv ==
    \A th \in Thread :
        msg[th] # None /\ At(th) \in DOMAIN BACKUP_MAP =>
            /\ pc[th] = "waiting" => Handed(th)
            /\ pc[th] \in {"commit", "ok"} => Handed(th) /\ pc[Applier(th)] = "ok"

LEMMA ApplierMoves ==
  ASSUME Typed, NEW th \in Thread, ThreadStep(th), th[2] = "apply"
  PROVE  /\ \E where \in PC \ {"idle"} : Goto(th, where)
         /\ pc[th] \notin Answered
         /\ UNCHANGED <<msg, snapshot>>
<1>1. pc[th] # "idle" => pc[th] \notin Stamped /\ ~Does(th, "book") /\ ~Does(th, "cancel")
  BY ThreadPlace, MessageShape DEF Typed, ThreadInv, WellFormed, Does
<1>2. CASE UnknownTable(th) \/ LockTimeout(th)
  BY <1>2 DEF UnknownTable, LockTimeout, PC, Answered
<1>3. CASE AcquireLock(th)
  BY <1>3 DEF AcquireLock, PC, InCriticalSection, Answered
<1>4. CASE RejectRequest(th) \/ ApplyReplication(th)
  BY <1>4 DEF RejectRequest, ApplyReplication, ReleaseAndAnswer, PC, Answered
<1>5. CASE \/ StampBooking(th) \/ StampCancellation(th) \/ SkipReplication(th)
           \/ BackupUnreachable(th) \/ SendReplication(th) \/ ReplicationAcked(th)
           \/ ReplicationFailed(th) \/ CommitBooking(th) \/ CommitCancellation(th)
  BY <1>1, <1>5
     DEF StampBooking, StampCancellation, SkipReplication, BackupUnreachable,
         SendReplication, ReplicationAcked, ReplicationFailed, CommitBooking,
         CommitCancellation, Stamped
<1> QED
  BY <1>2, <1>3, <1>4, <1>5, Zenon DEF ThreadStep

(* Once it has been given a write, an applying thread keeps it. *)
LEMMA ApplierKeeps ==
  ASSUME Typed, [Next]_serviceVars, NEW a \in Thread, a[2] = "apply", pc[a] # "idle",
         \A th \in Thread : SendReplication(th) => Applier(th) # a
  PROVE  /\ msg'[a] = msg[a] /\ snapshot'[a] = snapshot[a]
         /\ pc'[a] # "idle"
         /\ pc[a] = "ok" => pc'[a] = "ok"
<1> USE DEF Typed, TypeData
<1>1. ASSUME NEW th \in Thread, NEW m \in ClientMessage, HandleClient(th, m)
      PROVE  pc'[a] = pc[a] /\ msg'[a] = msg[a] /\ snapshot'[a] = snapshot[a]
  BY <1>1 DEF HandleClient, Goto
<1>2. ASSUME NEW n \in Node, NodeStep(n)
      PROVE  /\ msg'[a] = msg[a] /\ snapshot'[a] = snapshot[a]
             /\ pc'[a] = pc[a] \/ (pc[a] # "ok" /\ pc'[a] = "dead")
  BY <1>2 DEF NodeStep, Stop, Crash, PromoteToPrimary, threadVars, InCriticalSection
<1>3. CASE ThreadStep(a)
  BY <1>3, ApplierMoves DEF Goto, Answered
<1>4. ASSUME NEW th \in Thread, ThreadStep(th), th # a
      PROVE  pc'[a] = pc[a] /\ msg'[a] = msg[a] /\ snapshot'[a] = snapshot[a]
  <2>1. CASE SendReplication(th)
    BY <1>4, <2>1 DEF SendReplication
  <2>2. CASE StampBooking(th) \/ StampCancellation(th)
    BY <1>4, <2>2 DEF StampBooking, StampCancellation, Goto
  <2>3. ASSUME NEW where, Goto(th, where), UNCHANGED <<msg, snapshot>>
        PROVE  pc'[a] = pc[a] /\ msg'[a] = msg[a] /\ snapshot'[a] = snapshot[a]
    BY <1>4, <2>3 DEF Goto
  <2> QED
    BY <1>4, <2>1, <2>2, <2>3, Zenon
       DEF ThreadStep, UnknownTable, AcquireLock, LockTimeout, RejectRequest,
           SkipReplication, BackupUnreachable, FailWrite, ReplicationAcked,
           ReplicationFailed, CommitBooking, CommitCancellation, ApplyReplication,
           ReleaseAndAnswer
<1>5. CASE UNCHANGED serviceVars
  BY <1>5 DEF serviceVars, threadVars
<1> QED
  BY <1>1, <1>2, <1>3, <1>4, <1>5 DEF Next

LEMMA AckStep == Typed /\ AckInv /\ [Next]_serviceVars => AckInv'
<1> SUFFICES ASSUME Typed, AckInv, [Next]_serviceVars,
                    NEW q \in Thread, msg'[q] # None, At(q)' \in DOMAIN BACKUP_MAP,
                    pc'[q] \in {"waiting", "commit", "ok"}
             PROVE  /\ Handed(q)'
                    /\ pc'[q] \in {"commit", "ok"} => pc'[Applier(q)] = "ok"
  BY DEF AckInv, Applier
<1>1. Typed'
  BY TypedStep
<1>2. q[2] = "serve" /\ At(q)' \in Node
  <2>1. At(q)' \in Node \ Backup
    BY ConfigAssumption DEF Backup
  <2>2. q[2] = "apply" => msg'[q] \in AppliedMessage
    BY <1>1 DEF Typed, ThreadInv, WellFormed
  <2> QED
    BY <2>1, <2>2, MessageShape, ThreadShape DEF At
<1>3. Applier(q) \in Thread /\ Applier(q)[2] = "apply" /\ Applier(q) # q
  BY <1>2, ThreadShape
<1>4. /\ replicator'[At(q)'] = BACKUP_MAP[At(q)']
      /\ replicator[At(q)'] = BACKUP_MAP[At(q)']
      /\ Replicates(At(q)')
  BY <1>1, <1>2, NoneAssumption, ConfigAssumption DEF Typed, RoleInv, Replicates
<1>5. CASE SendReplication(q)
  <2>1. msg'[q] = msg[q] /\ snapshot'[q] = snapshot[q] /\ pc'[q] = "waiting"
    BY <1>3, <1>5 DEF SendReplication, Typed, TypeData
  <2>2. /\ pc'[Applier(q)] = "acquire"
        /\ msg'[Applier(q)] = ReplicatedMessage(q)
        /\ snapshot'[Applier(q)] = snapshot[q]
    BY <1>3, <1>5 DEF SendReplication, Typed, TypeData
  <2>3. ReplicatedMessage(q)' = ReplicatedMessage(q)
    BY <1>4, <2>1 DEF ReplicatedMessage, At
  <2>4. Applier(q)' = Applier(q)
    BY DEF Applier
  <2>5. Handed(q)'
    BY <2>1, <2>2, <2>3, <2>4 DEF Handed
  <2> QED
    BY <2>1, <2>5
<1>6. ASSUME msg'[q] = msg[q], snapshot'[q] = snapshot[q], ~SendReplication(q),
             Handed(q), pc'[q] \in {"commit", "ok"} => pc[Applier(q)] = "ok"
      PROVE  /\ Handed(q)'
             /\ pc'[q] \in {"commit", "ok"} => pc'[Applier(q)] = "ok"
  <2>1. \A th \in Thread : SendReplication(th) => Applier(th) # Applier(q)
    <3> SUFFICES ASSUME NEW th \in Thread, SendReplication(th) PROVE Applier(th) # Applier(q)
      OBVIOUS
    <3>1. th[2] = "serve" /\ th # q
      BY <1>6, ReplicatedShape DEF SendReplication
    <3>2. th = <<th[1], "serve">> /\ q = <<q[1], "serve">>
      BY <1>2, <3>1, ThreadShape
    <3>3. th[1] # q[1]
      BY <3>1, <3>2
    <3> QED
      BY <3>3 DEF Applier
  <2>2. /\ msg'[Applier(q)] = msg[Applier(q)]
        /\ snapshot'[Applier(q)] = snapshot[Applier(q)]
        /\ pc'[Applier(q)] # "idle"
        /\ pc[Applier(q)] = "ok" => pc'[Applier(q)] = "ok"
    BY <1>3, <1>6, <2>1, ApplierKeeps DEF Handed
  <2>3. ReplicatedMessage(q)' = ReplicatedMessage(q)
    BY <1>4, <1>6 DEF ReplicatedMessage, At
  <2>4. Applier(q)' = Applier(q)
    BY DEF Applier
  <2>5. Handed(q)'
    BY <1>6, <2>2, <2>3, <2>4 DEF Handed
  <2> QED
    BY <1>6, <2>2, <2>5
<1>7. ASSUME msg'[q] = msg[q], snapshot'[q] = snapshot[q], pc'[q] = pc[q],
             ~SendReplication(q)
      PROVE  /\ Handed(q)'
             /\ pc'[q] \in {"commit", "ok"} => pc'[Applier(q)] = "ok"
  BY <1>6, <1>7 DEF AckInv, At
<1>8. CASE EnvironmentStep
  <2>1. CASE pc'[q] = "waiting" /\ SendReplication(q)
    BY <1>5, <2>1
  <2> QED
    BY <1>5, <1>7, <1>8, EnvironmentKeeps DEF InCriticalSection, Answered
<1>9. ASSUME NEW th \in Thread, ThreadStep(th), q # th
      PROVE  /\ Handed(q)'
             /\ pc'[q] \in {"commit", "ok"} => pc'[Applier(q)] = "ok"
  BY <1>5, <1>7, <1>9, OthersKeepTheirs DEF InCriticalSection, Answered
<1>10. CASE ReplicationAcked(q) \/ CommitBooking(q) \/ CommitCancellation(q)
  <2>1. msg'[q] = msg[q] /\ snapshot'[q] = snapshot[q] /\ ~SendReplication(q)
    BY <1>10 DEF ReplicationAcked, CommitBooking, CommitCancellation, SendReplication
  <2>2. Handed(q) /\ pc[Applier(q)] = "ok"
    BY <1>10, <2>1 DEF AckInv, At, ReplicationAcked, CommitBooking, CommitCancellation
  <2> QED
    BY <1>6, <2>1, <2>2
<1>11. CASE ThreadStep(q)
  <2>1. ~Goto(q, "locked") /\ ~Goto(q, "error") /\ ~Goto(q, "replicate")
    BY DEF Goto, Typed, TypeData
  <2>2. ~SkipReplication(q)
    BY <1>4 DEF SkipReplication, At, dataVars
  <2>3. ~ApplyReplication(q)
    BY <1>2, ThreadPlace, MessageShape DEF ApplyReplication, ApplyWrite, Does
  <2> QED
    BY <1>5, <1>10, <1>11, <2>1, <2>2, <2>3, Zenon
       DEF ThreadStep, UnknownTable, AcquireLock, LockTimeout, RejectRequest, StampBooking,
           StampCancellation, BackupUnreachable, ReplicationFailed, FailWrite,
           ReleaseAndAnswer
<1> QED
  BY <1>8, <1>9, <1>11, Steps

(* A replicating process never confirms a write that its backup has not    *)
(* applied, that very write, whatever times out or dies on the way         *)
(* (reservation_service.py:266-296, primary.py:19-31).                     *)
THEOREM ConfirmedAreAcknowledged == Spec => []ConfirmedMeansAcknowledged
<1>1. Init => AckInv
  BY DEF Init, AckInv
<1>2. Typed /\ AckInv => ConfirmedMeansAcknowledged
  BY ThreadPlace, MessageShape
     DEF AckInv, ConfirmedMeansAcknowledged, Handed, At
<1> QED
  BY <1>1, <1>2, InitTyped, TypedStep, AckStep, PTL DEF Spec
===============================================================================
