--------------------------- MODULE AgreementProofs ---------------------------
(***************************************************************************)
(* Theorems about a primary and its backup, for every set of processes,    *)
(* tables, times, customers and connections, and under every fault: when   *)
(* the two hold the same, and that a process which nobody replicates to    *)
(* implements the ledger of ReservationLedger.                             *)
(***************************************************************************)
EXTENDS ReservationServiceProofs

(* What a thread's write leaves in its slot. *)
Written(th) == IF Does(th, "book") THEN snapshot[th] ELSE None

(* An applying thread that has been given a write got it from its own      *)
(* connection's thread, on a primary, which waits for it, is past it, or   *)
(* has died holding its lock.                                              *)
Originated(th) ==
    /\ msg[th] # None
    /\ At(th) \in DOMAIN BACKUP_MAP
    /\ msg[th].table \in Table
    /\ Handed(th)
    /\ pc[th] \in {"waiting", "commit", "ok", "error", "dead"}
    /\ pc[th] = "dead" => table_locks[At(th)][msg[th].table] = th

OriginInv ==
    \A th \in Thread : th[2] = "serve" /\ pc[Applier(th)] # "idle" => Originated(th)

(* A thread that has not started has no message. *)
IdleInv == \A th \in Thread : pc[th] = "idle" => msg[th] = None

(* The backup has applied the write, its primary has yet to make it. *)
Ahead(th) == pc[th] \in {"waiting", "commit"} /\ pc[Applier(th)] = "ok"

(* A thread of n that writes slot s, and holds the lock for it. *)
Writes(th, n, s) ==
    /\ th[2] = "serve"
    /\ msg[th] # None
    /\ At(th) = n
    /\ Key(th) = s
    /\ table_locks[n][s[1]] = th

Agree(n, s) ==
    /\ \/ reservations[n][s] = reservations[BACKUP_MAP[n]][s]
       \/ \E th \in Thread : Writes(th, n, s) /\ (pc[th] = "dead" \/ Ahead(th))
    /\ \A th \in Thread :
          Writes(th, n, s) /\ Ahead(th) => reservations[BACKUP_MAP[n]][s] = Written(th)

(* Primary and backup agree, except on a slot whose write the backup has   *)
(* applied and a thread of the primary, alive or not, has yet to make.     *)
AgreeInv ==
    \A n \in DOMAIN BACKUP_MAP, s \in Slot :
        ClientsKeepTo(n) /\ running[BACKUP_MAP[n]] /\ ~Orphaned(n, s) => Agree(n, s)

AgreementInv == Typed /\ LockInv /\ AckInv /\ IdleInv /\ OriginInv /\ AgreeInv

LEMMA AgreementImplies == AgreementInv => ReplicaAgreement
<1> SUFFICES ASSUME AgreementInv, NEW n \in DOMAIN BACKUP_MAP, NEW s \in Slot,
                    ClientsKeepTo(n), table_locks[n][s[1]] = None,
                    running[BACKUP_MAP[n]], ~Orphaned(n, s)
             PROVE  reservations[n][s] = reservations[BACKUP_MAP[n]][s]
  BY DEF ReplicaAgreement
<1>1. Agree(n, s)
  BY DEF AgreementInv, AgreeInv
<1>2. \A th \in Thread : ~Writes(th, n, s)
  BY NoneAssumption DEF Writes
<1> QED BY <1>1, <1>2 DEF Agree

-------------------------------------------------------------------------------
(* The steps of a thread, and what they leave to the others.               *)

(* A thread's step leaves every other thread alone, except that it may     *)
(* start its connection's applying thread.                                 *)
LEMMA OthersUntouched ==
  ASSUME Typed, NEW th \in Thread, ThreadStep(th), NEW q \in Thread, q # th,
         SendReplication(th) => q # Applier(th)
  PROVE  pc'[q] = pc[q] /\ msg'[q] = msg[q] /\ snapshot'[q] = snapshot[q]
<1> USE DEF Typed, TypeData
<1>1. CASE SendReplication(th)
  BY <1>1 DEF SendReplication
<1>2. CASE StampBooking(th) \/ StampCancellation(th)
  BY <1>2 DEF StampBooking, StampCancellation, Goto
<1>3. ASSUME NEW where, Goto(th, where), UNCHANGED <<msg, snapshot>>
      PROVE  pc'[q] = pc[q] /\ msg'[q] = msg[q] /\ snapshot'[q] = snapshot[q]
  BY <1>3 DEF Goto
<1> QED
  BY <1>1, <1>2, <1>3, Zenon
     DEF ThreadStep, UnknownTable, AcquireLock, LockTimeout, RejectRequest,
         SkipReplication, BackupUnreachable, FailWrite, ReplicationAcked,
         ReplicationFailed, CommitBooking, CommitCancellation, ApplyReplication,
         ReleaseAndAnswer

(* The threads of a connection, and of two. *)
LEMMA Pairs ==
  ASSUME NEW th \in Thread, NEW q \in Thread, th[2] = "serve", q[2] = "serve"
  PROVE  /\ Applier(th) \in Thread /\ Applier(th)[2] = "apply" /\ Applier(th) # q
         /\ Applier(th) = Applier(q) => th = q
         /\ Applier(th)' = Applier(th)
BY DEF Thread, Applier

LEMMA ApplierOf ==
  ASSUME NEW a \in Thread, a[2] = "apply"
  PROVE  /\ <<a[1], "serve">> \in Thread
         /\ <<a[1], "serve">>[2] = "serve"
         /\ Applier(<<a[1], "serve">>) = a
BY DEF Thread, Applier

(* The steps of a client's thread, from its lock to its answer. *)
LEMMA ServeSteps ==
  ASSUME Typed, NEW th \in Thread, ThreadStep(th), th[2] = "serve"
  PROVE  \/ /\ pc[th] \in {"acquire", "locked", "replicate"}
            /\ pc'[th] \in {"locked", "replicate", "commit", "error"}
            /\ pc'[th] = "commit" => ~Replicates(At(th))
            /\ UNCHANGED <<reservations, running>>
            /\ UNCHANGED msg
         \/ SendReplication(th)
         \/ ReplicationAcked(th)
         \/ ReplicationFailed(th)
         \/ CommitBooking(th)
         \/ CommitCancellation(th)
<1> USE DEF Typed, TypeData
<1>1. ~ApplyReplication(th)
  BY ThreadPlace, MessageShape DEF ApplyReplication, ApplyWrite, Does
<1>2. CASE \/ UnknownTable(th) \/ AcquireLock(th) \/ LockTimeout(th) \/ RejectRequest(th)
           \/ StampBooking(th) \/ StampCancellation(th) \/ SkipReplication(th)
           \/ BackupUnreachable(th)
  <2>1. /\ pc[th] \in {"acquire", "locked", "replicate"}
        /\ UNCHANGED <<reservations, running, msg>>
    BY <1>2 DEF UnknownTable, AcquireLock, LockTimeout, RejectRequest, StampBooking,
                StampCancellation, SkipReplication, BackupUnreachable, FailWrite,
                dataVars, roleVars
  <2>2. /\ pc'[th] \in {"locked", "replicate", "commit", "error"}
        /\ pc'[th] = "commit" => ~Replicates(At(th))
    BY <1>2 DEF UnknownTable, AcquireLock, LockTimeout, RejectRequest, StampBooking,
                StampCancellation, SkipReplication, BackupUnreachable, FailWrite,
                ReleaseAndAnswer, Goto
  <2> QED BY <2>1, <2>2
<1> QED BY <1>1, <1>2, Zenon DEF ThreadStep

LEMMA ServeMoves ==
  ASSUME Typed, NEW th \in Thread, ThreadStep(th), th[2] = "serve"
  PROVE  pc[th] \notin Answered \cup {"idle"} /\ msg'[th] = msg[th]
BY Pairs, ServeSteps
   DEF SendReplication, ReplicationAcked, ReplicationFailed, FailWrite, CommitBooking,
       CommitCancellation, Answered, Typed, TypeData

(* What an applying thread does. *)
LEMMA ApplySteps ==
  ASSUME Typed, NEW a \in Thread, ThreadStep(a), a[2] = "apply"
  PROVE  /\ UNCHANGED <<msg, snapshot, running>>
         /\ \/ ApplyReplication(a)
            \/ /\ UNCHANGED reservations
               /\ \/ AcquireLock(a)
                  \/ Goto(a, "error") /\ UNCHANGED table_locks
<1> USE DEF Typed, TypeData
<1>1. pc[a] # "idle" => pc[a] \notin Stamped /\ ~Does(a, "book") /\ ~Does(a, "cancel")
  BY ThreadPlace, MessageShape DEF ThreadInv, WellFormed, Does
<1>2. \/ UnknownTable(a) \/ AcquireLock(a) \/ LockTimeout(a) \/ ApplyReplication(a)
  BY <1>1, Zenon
     DEF ThreadStep, RejectRequest, StampBooking, StampCancellation, SkipReplication,
         BackupUnreachable, SendReplication, ReplicationAcked, ReplicationFailed,
         CommitBooking, CommitCancellation, Stamped
<1> QED BY <1>2 DEF UnknownTable, AcquireLock, LockTimeout, ApplyReplication,
                    dataVars, roleVars

-------------------------------------------------------------------------------
(* Where the writes that the backups apply come from.                      *)

(* A primary's replicator never changes. *)
LEMMA MessageStays ==
  ASSUME Typed, [Next]_serviceVars, NEW th \in Thread, th[2] = "serve",
         msg[th] # None, At(th) \in DOMAIN BACKUP_MAP, msg'[th] = msg[th]
  PROVE  ReplicatedMessage(th)' = ReplicatedMessage(th)
<1>1. Typed' /\ At(th) \in Node
  BY TypedStep, ConfigAssumption
<1>2. replicator'[At(th)] = replicator[At(th)]
  BY <1>1 DEF Typed, RoleInv
<1> QED BY <1>2 DEF ReplicatedMessage, At

(* A dead thread's lock is never given away. *)
LEMMA DeadHold ==
  ASSUME Typed, LockInv, [Next]_serviceVars, NEW th \in Thread, NEW n \in Node,
         NEW t \in Table, table_locks[n][t] = th,
         pc[th] \notin InCriticalSection
  PROVE  table_locks'[n][t] = th
<1> USE DEF Typed, TypeData
<1>1. CASE EnvironmentStep
  BY <1>1 DEF EnvironmentStep, HandleClient, NodeStep, Stop, Crash, PromoteToPrimary,
              serviceVars, dataVars
<1>2. ASSUME NEW q \in Thread, ThreadStep(q) PROVE table_locks'[n][t] = th
  <2>1. CASE AcquireLock(q)
    <3>1. th # None
      BY NoneAssumption
    <3> QED BY <2>1, <3>1 DEF AcquireLock, LockFree
  <2>2. ASSUME pc[q] \in InCriticalSection, NEW status \in Answered,
               ReleaseAndAnswer(q, status)
        PROVE  table_locks'[n][t] = th
    <3>1. table_locks[At(q)][msg[q].table] = q /\ q # th
      BY <2>2 DEF LockInv
    <3> QED BY <2>2, <3>1 DEF ReleaseAndAnswer
  <2> QED BY <1>2, <2>1, <2>2, LocksMove
<1> QED BY <1>1, <1>2, Steps

LEMMA OriginStep ==
  Typed /\ LockInv /\ AckInv /\ OriginInv /\ [Next]_serviceVars => OriginInv'
<1> SUFFICES ASSUME Typed, LockInv, AckInv, OriginInv, [Next]_serviceVars,
                    NEW th \in Thread, th[2] = "serve", pc'[Applier(th)] # "idle"
             PROVE  Originated(th)'
  BY Pairs DEF OriginInv
<1> DEFINE a == Applier(th)
<1> USE DEF Typed, TypeData
<1>1. a \in Thread /\ a[2] = "apply" /\ a # th /\ a' = a
  BY Pairs
<1> HIDE DEF a
<1>2. ASSUME pc[a] # "idle", msg'[th] = msg[th], snapshot'[th] = snapshot[th],
             msg'[a] = msg[a], snapshot'[a] = snapshot[a],
             \/ pc'[th] = pc[th]
             \/ pc'[th] \in {"commit", "ok", "error"}
             \/ pc'[th] = "dead" /\ pc[th] \in InCriticalSection /\ UNCHANGED table_locks
      PROVE  Originated(th)'
  <2>1. Originated(th)
    BY <1>2 DEF OriginInv, a
  <2>2. /\ msg'[th] # None /\ At(th)' \in DOMAIN BACKUP_MAP /\ msg'[th].table \in Table
        /\ At(th)' = At(th) /\ At(th) \in Node
    BY <1>2, <2>1, ConfigAssumption DEF Originated, At
  <2>3. Handed(th)'
    <3>1. ReplicatedMessage(th)' = ReplicatedMessage(th)
      BY <1>2, <2>1, MessageStays DEF Originated
    <3>2. Handed(th)' = (pc'[a] # "idle" /\ msg'[a] = ReplicatedMessage(th)'
                                        /\ snapshot'[a] = snapshot'[th])
      BY <1>1 DEF Handed, a
    <3>3. msg[a] = ReplicatedMessage(th) /\ snapshot[a] = snapshot[th]
      BY <2>1 DEF Originated, Handed, a
    <3>4. pc'[a] # "idle"
      BY DEF a
    <3> QED BY <1>2, <3>1, <3>2, <3>3, <3>4
  <2>4. pc'[th] \in {"waiting", "commit", "ok", "error", "dead"}
    BY <1>2, <2>1 DEF Originated
  <2>5. pc'[th] = "dead" => table_locks'[At(th)][msg[th].table] = th
    <3>1. CASE pc[th] = "dead"
      <4>1. /\ table_locks[At(th)][msg[th].table] = th
            /\ msg[th].table \in Table /\ pc[th] \notin InCriticalSection
        BY <2>1, <3>1 DEF Originated, InCriticalSection
      <4> QED BY <2>2, <4>1, DeadHold
    <3>2. CASE pc[th] \in InCriticalSection /\ UNCHANGED table_locks
      BY <3>2 DEF LockInv
    <3> QED BY <1>2, <3>1, <3>2
  <2> QED BY <1>2, <2>2, <2>3, <2>4, <2>5 DEF Originated, At
<1>3. pc[a] # "idle" => pc[th] \in {"waiting", "commit", "ok", "error", "dead"}
  BY DEF OriginInv, Originated, a
<1>4. ASSUME NEW q \in Thread, NEW m \in ClientMessage, HandleClient(q, m)
      PROVE  Originated(th)'
  <2>1. q # a /\ pc[q] = "idle" /\ pc'[a] # "idle"
    BY <1>1, <1>4 DEF HandleClient, a
  <2>2. pc[a] # "idle"
    BY <1>1, <1>4, <2>1 DEF HandleClient, Goto
  <2>3. q # th
    BY <1>3, <2>1, <2>2
  <2> QED BY <1>1, <1>2, <1>4, <2>1, <2>2, <2>3 DEF HandleClient, Goto
<1>5. ASSUME NEW n \in Node, NodeStep(n) PROVE Originated(th)'
  <2>1. CASE Crash(n)
    <3>1. pc[a] # "idle"
      BY <1>1, <2>1 DEF Crash, InCriticalSection, a
    <3>2. \/ pc'[th] = pc[th]
          \/ pc'[th] = "dead" /\ pc[th] \in InCriticalSection
      BY <1>3, <2>1, <3>1 DEF Crash
    <3> QED BY <1>2, <2>1, <3>1, <3>2 DEF Crash, dataVars
  <2>2. CASE UNCHANGED threadVars
    BY <1>2, <2>2 DEF threadVars, a
  <2> QED BY <1>5, <2>1, <2>2 DEF NodeStep, Stop, PromoteToPrimary
<1>6. CASE SendReplication(th)
  <2>1. /\ msg'[th] = msg[th] /\ snapshot'[th] = snapshot[th] /\ pc'[th] = "waiting"
        /\ msg'[a] = ReplicatedMessage(th) /\ snapshot'[a] = snapshot[th]
        /\ pc'[a] = "acquire"
    BY <1>1, <1>6 DEF SendReplication, a
  <2>2. /\ msg[th] # None /\ At(th) \in DOMAIN BACKUP_MAP /\ msg[th].table \in Table
    BY <1>6, ReplicatedShape, ThreadPlace, MessageShape DEF SendReplication, InCriticalSection
  <2>3. ReplicatedMessage(th)' = ReplicatedMessage(th)
    BY <2>1, <2>2, MessageStays
  <2>4. Handed(th)'
    BY <1>1, <2>1, <2>3 DEF Handed, a
  <2> QED BY <2>1, <2>2, <2>4 DEF Originated, At
<1>7. CASE ThreadStep(th) /\ ~SendReplication(th)
  <2>1. pc'[a] = pc[a] /\ msg'[a] = msg[a] /\ snapshot'[a] = snapshot[a]
    BY <1>1, <1>7, OthersUntouched
  <2>2. pc[a] # "idle"
    BY <2>1 DEF a
  <2>3. \/ ReplicationAcked(th) \/ ReplicationFailed(th)
        \/ CommitBooking(th) \/ CommitCancellation(th)
    BY <1>3, <1>7, <2>2, ServeSteps
  <2>4. /\ msg'[th] = msg[th] /\ snapshot'[th] = snapshot[th]
        /\ pc'[th] \in {"commit", "ok", "error"}
    BY <2>3 DEF ReplicationAcked, ReplicationFailed, FailWrite, CommitBooking,
                CommitCancellation, ReleaseAndAnswer, Goto
  <2> QED BY <1>2, <2>1, <2>2, <2>4
<1>8. CASE ThreadStep(a)
  <2>1. UNCHANGED <<msg, snapshot>> /\ ~SendReplication(a)
    BY <1>1, <1>8, ApplySteps, ReplicatedShape DEF SendReplication
  <2>2. pc'[th] = pc[th]
    BY <1>1, <1>8, <2>1, OthersUntouched
  <2>3. pc[a] # "idle"
    BY <1>1, <1>8, <2>1, Zenon
       DEF ThreadStep, UnknownTable, AcquireLock, LockTimeout, RejectRequest,
           StampBooking, StampCancellation, SkipReplication, BackupUnreachable,
           SendReplication, ReplicationAcked, ReplicationFailed, CommitBooking,
           CommitCancellation, ApplyReplication
  <2> QED BY <1>2, <2>1, <2>2, <2>3
<1>9. ASSUME NEW q \in Thread, ThreadStep(q), q # th, q # a PROVE Originated(th)'
  <2>1. SendReplication(q) => Applier(q) # th /\ Applier(q) # a
    BY <1>9, ReplicatedShape, Pairs DEF SendReplication, a
  <2>2. /\ pc'[th] = pc[th] /\ msg'[th] = msg[th] /\ snapshot'[th] = snapshot[th]
        /\ pc'[a] = pc[a] /\ msg'[a] = msg[a] /\ snapshot'[a] = snapshot[a]
    BY <1>1, <1>9, <2>1, OthersUntouched
  <2> QED BY <1>2, <2>2 DEF a
<1>10. CASE UNCHANGED serviceVars
  BY <1>2, <1>10 DEF serviceVars, threadVars, a
<1> QED BY <1>4, <1>5, <1>6, <1>7, <1>8, <1>9, <1>10 DEF Next

-------------------------------------------------------------------------------
(* What never turns back.                                                  *)

LEMMA StartedStays ==
  ASSUME Typed, [Next]_serviceVars, NEW q \in Thread, pc'[q] = "idle"
  PROVE  pc[q] = "idle" /\ msg'[q] = msg[q]
<1> USE DEF Typed, TypeData
<1>1. ASSUME NEW th \in Thread, NEW m \in ClientMessage, HandleClient(th, m)
      PROVE  pc[q] = "idle" /\ msg'[q] = msg[q]
  BY <1>1 DEF HandleClient, Goto
<1>2. CASE UNCHANGED threadVars
  BY <1>2 DEF threadVars
<1>3. ASSUME NEW n \in Node, Crash(n) PROVE pc[q] = "idle" /\ msg'[q] = msg[q]
  BY <1>3 DEF Crash, InCriticalSection
<1>4. ASSUME NEW th \in Thread, ThreadStep(th) PROVE pc[q] = "idle" /\ msg'[q] = msg[q]
  <2>1. CASE SendReplication(th)
    BY <2>1 DEF SendReplication
  <2>2. ASSUME NEW where \in PC \ {"idle"}, Goto(th, where), UNCHANGED msg
        PROVE  pc[q] = "idle" /\ msg'[q] = msg[q]
    BY <2>2 DEF Goto
  <2>3. {"locked", "replicate", "commit", "ok", "error"} \subseteq PC \ {"idle"}
    BY DEF PC, InCriticalSection, Answered
  <2> QED
    BY <1>4, <2>1, <2>2, <2>3
       DEF ThreadStep, UnknownTable, AcquireLock, LockTimeout, RejectRequest,
           StampBooking, StampCancellation, SkipReplication, BackupUnreachable,
           FailWrite, ReplicationAcked, ReplicationFailed, CommitBooking,
           CommitCancellation, ApplyReplication, ReleaseAndAnswer
<1> QED BY <1>1, <1>2, <1>3, <1>4
        DEF Next, NodeStep, Stop, PromoteToPrimary, serviceVars

LEMMA IdleStep == Typed /\ IdleInv /\ [Next]_serviceVars => IdleInv'
BY StartedStays DEF IdleInv

(* A client's message stays with its thread, once it is there. *)
LEMMA RequestStays ==
  ASSUME Typed, IdleInv, [Next]_serviceVars, NEW q \in Thread, q[2] = "serve",
         msg[q] # None
  PROVE  msg'[q] = msg[q]
<1> USE DEF Typed, TypeData
<1>1. ASSUME NEW th \in Thread, NEW m \in ClientMessage, HandleClient(th, m)
      PROVE  msg'[q] = msg[q]
  BY <1>1 DEF HandleClient, IdleInv
<1>2. CASE EnvironmentStep
  BY <1>1, <1>2 DEF EnvironmentStep, NodeStep, Stop, Crash, PromoteToPrimary, threadVars,
                    serviceVars
<1>3. ASSUME NEW th \in Thread, ThreadStep(th) PROVE msg'[q] = msg[q]
  <2>1. CASE SendReplication(th)
    BY <2>1, ReplicatedShape, Pairs DEF SendReplication
  <2>2. CASE ~SendReplication(th)
    BY <1>3, <2>2, Zenon
       DEF ThreadStep, UnknownTable, AcquireLock, LockTimeout, RejectRequest,
           StampBooking, StampCancellation, SkipReplication, BackupUnreachable,
           FailWrite, ReplicationAcked, ReplicationFailed, CommitBooking,
           CommitCancellation, ApplyReplication
  <2> QED BY <2>1, <2>2
<1> QED BY <1>2, <1>3, Steps

LEMMA StoppedStays ==
  ASSUME Typed, [Next]_serviceVars, NEW n \in Node, running'[n]
  PROVE  running[n]
<1>1. CASE UNCHANGED running
  BY <1>1
<1>2. ASSUME NEW m \in Node, Stop(m) \/ Crash(m) PROVE running[n]
  BY <1>2 DEF Stop, Crash, Typed, TypeFlags
<1> QED
  BY <1>1, <1>2, Zenon
     DEF Next, ThreadStep, NodeStep, serviceVars, roleVars, HandleClient, UnknownTable,
         AcquireLock, LockTimeout, RejectRequest, StampBooking, StampCancellation,
         SkipReplication, BackupUnreachable, FailWrite, SendReplication,
         ReplicationAcked, ReplicationFailed, CommitBooking, CommitCancellation,
         ApplyReplication, PromoteToPrimary

(* An answer stays. *)
LEMMA AnswerStays ==
  ASSUME Typed, IdleInv, [Next]_serviceVars, NEW q \in Thread, q[2] = "serve",
         pc[q] \in Answered
  PROVE  pc'[q] = pc[q]
<1> USE DEF Typed, TypeData
<1>1. CASE EnvironmentStep
  BY <1>1 DEF EnvironmentStep, HandleClient, Goto, NodeStep, Stop, Crash, PromoteToPrimary,
              threadVars, serviceVars, Answered, InCriticalSection
<1>2. ASSUME NEW th \in Thread, ThreadStep(th), th # q PROVE pc'[q] = pc[q]
  BY <1>2, OthersUntouched, ReplicatedShape, Pairs DEF SendReplication
<1>3. ~ThreadStep(q)
  BY ServeSteps DEF Answered, SendReplication, ReplicationAcked, ReplicationFailed,
                    CommitBooking, CommitCancellation
<1> QED BY <1>1, <1>2, <1>3, Steps

(* What has been given up and applied all the same stays so. *)
LEMMA OrphanStays ==
  ASSUME Typed, IdleInv, OriginInv, [Next]_serviceVars,
         NEW n \in Node, NEW s \in Slot, Orphaned(n, s)
  PROVE  Orphaned(n, s)'
<1>1. PICK c \in Connection :
         /\ pc[<<c, "serve">>] = "error"
         /\ At(<<c, "serve">>) = n
         /\ Key(<<c, "serve">>) = s
         /\ pc[Applier(<<c, "serve">>)] = "ok"
  BY DEF Orphaned
<1> DEFINE th == <<c, "serve">>
<1>2. th \in Thread /\ th[2] = "serve"
  BY DEF Thread
<1> HIDE DEF th
<1>3. pc'[th] = "error" /\ msg'[th] = msg[th]
  BY <1>1, <1>2, AnswerStays, RequestStays, ThreadPlace, MessageShape DEF Answered, th
<1>4. pc'[Applier(th)] = "ok"
  <2>1. \A q \in Thread : SendReplication(q) => Applier(q) # Applier(th)
    BY <1>1, <1>2, Pairs, ReplicatedShape DEF SendReplication, th
  <2> QED BY <1>1, <1>2, <2>1, Pairs, ApplierKeeps DEF th
<1>5. Applier(th)' = Applier(th)
  BY DEF Applier, th
<1> QED BY <1>1, <1>3, <1>4, <1>5 DEF Orphaned, At, Key, th

LEMMA ClientsStay ==
  ASSUME Typed, IdleInv, [Next]_serviceVars, NEW n \in DOMAIN BACKUP_MAP, ClientsKeepTo(n)'
  PROVE  ClientsKeepTo(n)
BY RequestStays DEF ClientsKeepTo, Thread

(* A thread's step neither takes nor gives another thread's lock. *)
LEMMA OthersLocks ==
  ASSUME Typed, LockInv, NEW q \in Thread, ThreadStep(q), NEW th \in Thread, th # q,
         NEW n \in Node, NEW t \in Table
  PROVE  table_locks'[n][t] = th <=> table_locks[n][t] = th
<1> USE DEF Typed, TypeData
<1>0. th # None
  BY NoneAssumption
<1>1. CASE AcquireLock(q)
  BY <1>0, <1>1 DEF AcquireLock, LockFree
<1>2. ASSUME pc[q] \in InCriticalSection, NEW status \in Answered,
             ReleaseAndAnswer(q, status)
      PROVE  table_locks'[n][t] = th <=> table_locks[n][t] = th
  <2>1. table_locks[At(q)][msg[q].table] = q
    BY <1>2 DEF LockInv
  <2> QED BY <1>0, <1>2, <2>1 DEF ReleaseAndAnswer
<1> QED BY <1>1, <1>2, LocksMove

-------------------------------------------------------------------------------
(* Agreement is kept.                                                      *)

LEMMA AgreeFrame ==
  ASSUME NEW n \in DOMAIN BACKUP_MAP, NEW s \in Slot, Agree(n, s),
         reservations'[n][s] = reservations[n][s],
         reservations'[BACKUP_MAP[n]][s] = reservations[BACKUP_MAP[n]][s],
         \A th \in Thread :
            Writes(th, n, s) /\ (pc[th] = "dead" \/ Ahead(th))
            => Writes(th, n, s)' /\ (pc'[th] = "dead" \/ Ahead(th)'),
         \A th \in Thread :
            Writes(th, n, s)' /\ Ahead(th)'
            => Writes(th, n, s) /\ Ahead(th) /\ Written(th)' = Written(th)
  PROVE  Agree(n, s)'
BY DEF Agree

(* What a step that leaves a thread and its lock alone leaves of it. *)
LEMMA SameThread ==
  ASSUME NEW th \in Thread, NEW n, NEW s,
         pc'[th] = pc[th], msg'[th] = msg[th], snapshot'[th] = snapshot[th],
         pc'[Applier(th)] = pc[Applier(th)],
         table_locks'[n][s[1]] = th <=> table_locks[n][s[1]] = th
  PROVE  /\ Writes(th, n, s)' <=> Writes(th, n, s)
         /\ Ahead(th)' <=> Ahead(th)
         /\ Written(th)' = Written(th)
<1>1. Applier(th)' = Applier(th)
  BY DEF Applier
<1> QED BY <1>1 DEF Writes, Ahead, Written, Does, At, Key

LEMMA AgreeEnvironment ==
  ASSUME Typed, EnvironmentStep, NEW n \in DOMAIN BACKUP_MAP, NEW s \in Slot, Agree(n, s)
  PROVE  Agree(n, s)'
<1> USE DEF Typed, TypeData
<1>1. UNCHANGED <<reservations, table_locks>>
  BY DEF EnvironmentStep, HandleClient, NodeStep, Stop, Crash, PromoteToPrimary,
         serviceVars, dataVars
<1>2. ASSUME NEW th \in Thread, NEW m \in ClientMessage, HandleClient(th, m),
             NEW q \in Thread, q[2] = "serve"
      PROVE  /\ Writes(q, n, s) /\ (pc[q] = "dead" \/ Ahead(q))
                => Writes(q, n, s)' /\ (pc'[q] = "dead" \/ Ahead(q)')
             /\ Writes(q, n, s)' /\ Ahead(q)'
                => Writes(q, n, s) /\ Ahead(q) /\ Written(q)' = Written(q)
  <2>1. CASE q = th
    BY <1>2, <2>1 DEF HandleClient, Goto, Ahead
  <2>2. CASE q # th
    BY <1>1, <1>2, <2>2, Pairs, SameThread DEF HandleClient, Goto
  <2> QED BY <2>1, <2>2
<1>3. ASSUME NEW m \in Node, Crash(m), NEW q \in Thread, q[2] = "serve"
      PROVE  /\ Writes(q, n, s) /\ (pc[q] = "dead" \/ Ahead(q))
                => Writes(q, n, s)' /\ (pc'[q] = "dead" \/ Ahead(q)')
             /\ Writes(q, n, s)' /\ Ahead(q)'
                => Writes(q, n, s) /\ Ahead(q) /\ Written(q)' = Written(q)
  <2>1. UNCHANGED <<msg, snapshot>>
    BY <1>3 DEF Crash
  <2>2. Writes(q, n, s)' <=> Writes(q, n, s)
    BY <1>1, <2>1 DEF Writes, At, Key
  <2>3. Written(q)' = Written(q)
    BY <2>1 DEF Written, Does
  <2>4. Applier(q)' = Applier(q) /\ Applier(q) \in Thread
    BY <1>3, Pairs
  <2>5. /\ pc'[q] \in {pc[q], "dead"}
        /\ pc'[Applier(q)] \in {pc[Applier(q)], "dead"}
        /\ pc[Applier(q)] = "ok" => pc'[Applier(q)] = "ok"
    BY <1>3, <2>4 DEF Crash, InCriticalSection
  <2> QED BY <2>2, <2>3, <2>4, <2>5 DEF Ahead
<1>4. CASE UNCHANGED threadVars
  BY <1>1, <1>4, SameThread, AgreeFrame DEF threadVars
<1>5. \A q \in Thread : Writes(q, n, s) \/ Writes(q, n, s)' => q[2] = "serve"
  BY DEF Writes
<1> QED BY <1>1, <1>2, <1>3, <1>4, <1>5, AgreeFrame
        DEF EnvironmentStep, NodeStep, Stop, PromoteToPrimary, serviceVars

(* A client's thread that neither sends nor writes. *)
LEMMA AgreeServe ==
  ASSUME Typed, LockInv, NEW q \in Thread, q[2] = "serve", ThreadStep(q),
         NEW n \in DOMAIN BACKUP_MAP, NEW s \in Slot, Agree(n, s),
         reservations'[n][s] = reservations[n][s],
         reservations'[BACKUP_MAP[n]][s] = reservations[BACKUP_MAP[n]][s],
         Writes(q, n, s) /\ (pc[q] = "dead" \/ Ahead(q))
            => Writes(q, n, s)' /\ (pc'[q] = "dead" \/ Ahead(q)'),
         Writes(q, n, s)' /\ Ahead(q)'
            => Writes(q, n, s) /\ Ahead(q) /\ Written(q)' = Written(q)
  PROVE  Agree(n, s)'
<1>1. n \in Node /\ s[1] \in Table
  BY ConfigAssumption DEF Slot
<1>2. ASSUME NEW th \in Thread, th[2] = "serve", th # q
      PROVE  /\ Writes(th, n, s)' <=> Writes(th, n, s)
             /\ Ahead(th)' <=> Ahead(th)
             /\ Written(th)' = Written(th)
             /\ pc'[th] = pc[th]
  <2>1. th # Applier(q) /\ Applier(th) # Applier(q) /\ Applier(th) # q
        /\ Applier(th) \in Thread
    BY <1>2, Pairs
  <2>2. /\ pc'[th] = pc[th] /\ msg'[th] = msg[th] /\ snapshot'[th] = snapshot[th]
        /\ pc'[Applier(th)] = pc[Applier(th)]
    BY <1>2, <2>1, OthersUntouched
  <2> QED BY <1>1, <1>2, <2>2, OthersLocks, SameThread
<1>3. \A th \in Thread : Writes(th, n, s) \/ Writes(th, n, s)' => th[2] = "serve"
  BY DEF Writes
<1> QED BY <1>2, <1>3, AgreeFrame

LEMMA AgreeServeStep ==
  ASSUME AgreementInv, NEW q \in Thread, q[2] = "serve", ThreadStep(q),
         NEW n \in DOMAIN BACKUP_MAP, NEW s \in Slot, Agree(n, s),
         ClientsKeepTo(n), ~Orphaned(n, s)'
  PROVE  Agree(n, s)'
<1> USE DEF AgreementInv
<1>1. n \in Node /\ BACKUP_MAP[n] \in Node /\ n # BACKUP_MAP[n]
  BY ConfigAssumption
<1>2. Applier(q) \in Thread /\ Applier(q) # q /\ Applier(q)' = Applier(q)
  BY Pairs
<1>3. CASE /\ pc[q] \in {"acquire", "locked", "replicate"}
           /\ pc'[q] \in {"locked", "replicate", "commit", "error"}
           /\ pc'[q] = "commit" => ~Replicates(At(q))
           /\ UNCHANGED <<reservations, running>>
           /\ UNCHANGED msg
  <2>1. pc[q] # "dead" /\ ~Ahead(q)
    BY <1>3 DEF Ahead
  <2>2. Replicates(n)
    BY <1>1, NoneAssumption DEF Replicates, Typed, RoleInv
  <2>3. ~(Writes(q, n, s)' /\ Ahead(q)')
    BY <1>3, <2>2 DEF Writes, Ahead, At
  <2> QED BY <1>3, <2>1, <2>3, AgreeServe
<1>4. CASE SendReplication(q)
  <2>1. pc[q] = "replicate" /\ pc'[Applier(q)] = "acquire" /\ UNCHANGED reservations
    BY <1>2, <1>4 DEF SendReplication, dataVars, Typed, TypeData
  <2>2. pc[q] # "dead" /\ ~Ahead(q) /\ ~Ahead(q)'
    BY <1>2, <2>1 DEF Ahead
  <2> QED BY <2>1, <2>2, AgreeServe
<1>5. CASE ReplicationAcked(q)
  <2>1. /\ pc[q] = "waiting" /\ pc[Applier(q)] = "ok" /\ pc'[q] = "commit"
        /\ pc'[Applier(q)] = "ok"
        /\ UNCHANGED <<reservations, msg, snapshot, table_locks>>
    BY <1>2, <1>5 DEF ReplicationAcked, Goto, dataVars, Typed, TypeData
  <2>2. Ahead(q) /\ Ahead(q)' /\ Written(q)' = Written(q)
    BY <1>2, <2>1 DEF Ahead, Written, Does
  <2>3. Writes(q, n, s)' <=> Writes(q, n, s)
    BY <2>1 DEF Writes, At, Key
  <2> QED BY <2>1, <2>2, <2>3, AgreeServe
<1>6. CASE ReplicationFailed(q)
  <2>1. /\ pc[q] = "waiting" /\ pc'[q] = "error" /\ pc'[Applier(q)] = pc[Applier(q)]
        /\ UNCHANGED <<reservations, msg>>
    BY <1>2, <1>6 DEF ReplicationFailed, FailWrite, ReleaseAndAnswer, Goto, Typed, TypeData
  <2>2. ASSUME Writes(q, n, s) /\ (pc[q] = "dead" \/ Ahead(q)) PROVE FALSE
    <3>1. pc[Applier(q)] = "ok" /\ At(q) = n /\ Key(q) = s
      BY <2>1, <2>2 DEF Ahead, Writes
    <3>2. q[1] \in Connection /\ q = <<q[1], "serve">>
      BY DEF Thread
    <3>3. /\ pc'[<<q[1], "serve">>] = "error"
          /\ At(<<q[1], "serve">>)' = n
          /\ Key(<<q[1], "serve">>)' = s
          /\ pc'[Applier(<<q[1], "serve">>)'] = "ok"
      BY <1>2, <2>1, <3>1, <3>2 DEF At, Key
    <3>4. Orphaned(n, s)'
      BY <3>2, <3>3 DEF Orphaned
    <3> QED BY <3>4
  <2>3. ~Ahead(q)'
    BY <2>1 DEF Ahead
  <2> QED BY <2>1, <2>2, <2>3, AgreeServe
<1>7. ASSUME CommitBooking(q) \/ CommitCancellation(q) PROVE Agree(n, s)'
  <2>1. /\ pc[q] = "commit" /\ pc'[q] = "ok" /\ ReleaseAndAnswer(q, "ok")
        /\ UNCHANGED <<msg, snapshot>> /\ pc'[Applier(q)] = pc[Applier(q)]
        /\ Store(q, Written(q))
    BY <1>2, <1>7 DEF CommitBooking, CommitCancellation, ReleaseAndAnswer, Goto, Written,
                      Does, Typed, TypeData
  <2>2. /\ At(q) \in Node /\ Key(q) \in Slot /\ msg[q].table \in Table /\ msg[q] # None
        /\ table_locks[At(q)][msg[q].table] = q
    BY <2>1, ThreadPlace, MessageShape DEF LockInv, InCriticalSection
  <2>3. At(q) # BACKUP_MAP[n]
    BY <2>2 DEF ClientsKeepTo, At, Thread
  <2>4. reservations'[BACKUP_MAP[n]][s] = reservations[BACKUP_MAP[n]][s]
    BY <1>1, <2>1, <2>3 DEF Store, Typed, TypeData
  <2>5. CASE At(q) = n /\ Key(q) = s
    <3>1. Writes(q, n, s) /\ Ahead(q)
      BY <2>1, <2>2, <2>5 DEF Writes, Ahead, AckInv, Key
    <3>2. reservations[BACKUP_MAP[n]][s] = Written(q)
      BY <3>1 DEF Agree
    <3>3. reservations'[n][s] = Written(q)
      BY <1>1, <2>1, <2>5 DEF Store, Typed, TypeData
    <3>4. table_locks'[n][s[1]] = None
      BY <2>1, <2>2, <2>5 DEF ReleaseAndAnswer, Key, Typed, TypeData
    <3>5. \A th \in Thread : ~Writes(th, n, s)'
      BY <3>4, NoneAssumption DEF Writes
    <3> QED BY <2>4, <3>2, <3>3, <3>5 DEF Agree
  <2>6. CASE ~(At(q) = n /\ Key(q) = s)
    <3>1. reservations'[n][s] = reservations[n][s]
      BY <1>1, <2>1, <2>6 DEF Store, Typed, TypeData
    <3>2. ~Writes(q, n, s) /\ ~Ahead(q)'
      BY <2>1, <2>6 DEF Writes, Ahead
    <3> QED BY <2>4, <3>1, <3>2, AgreeServe
  <2> QED BY <2>5, <2>6
<1> QED BY <1>3, <1>4, <1>5, <1>6, <1>7, ServeSteps

LEMMA AgreeApplyStep ==
  ASSUME AgreementInv, NEW a \in Thread, a[2] = "apply", ThreadStep(a),
         NEW n \in DOMAIN BACKUP_MAP, NEW s \in Slot, Agree(n, s), ~Orphaned(n, s)'
  PROVE  Agree(n, s)'
<1> USE DEF AgreementInv
<1> DEFINE o == <<a[1], "serve">>
<1>1. /\ n \in Node /\ BACKUP_MAP[n] \in Node \ DOMAIN BACKUP_MAP /\ n # BACKUP_MAP[n]
      /\ s[1] \in Table
  BY ConfigAssumption DEF Slot
<1>2. o \in Thread /\ o[2] = "serve" /\ Applier(o) = a /\ Applier(o)' = a
  BY ApplierOf DEF Applier
<1>2a. o[1] = a[1] /\ a[1] \in Connection
  BY DEF Thread
<1> HIDE DEF o
<1>3. ~SendReplication(a) /\ UNCHANGED <<msg, snapshot>>
  BY ApplySteps, ReplicatedShape DEF SendReplication
<1>4. ASSUME NEW th \in Thread, th[2] = "serve"
      PROVE  /\ pc'[th] = pc[th]
             /\ Writes(th, n, s)' <=> Writes(th, n, s)
             /\ Written(th)' = Written(th)
             /\ th # o => (Ahead(th)' <=> Ahead(th))
  <2>1. th # a /\ Applier(th) \in Thread /\ Applier(th)' = Applier(th)
        /\ (th # o => Applier(th) # a)
    BY <1>2, <1>4, Pairs
  <2>2. pc'[th] = pc[th] /\ (th # o => pc'[Applier(th)] = pc[Applier(th)])
    BY <1>3, <2>1, OthersUntouched
  <2>3. table_locks'[n][s[1]] = th <=> table_locks[n][s[1]] = th
    BY <1>1, <2>1, OthersLocks
  <2> QED BY <1>3, <2>1, <2>2, <2>3 DEF Writes, Written, Ahead, Does, At, Key
<1>5. \A th \in Thread : Writes(th, n, s) \/ Writes(th, n, s)' => th[2] = "serve"
  BY DEF Writes
<1>6. CASE UNCHANGED reservations /\ (AcquireLock(a) \/ Goto(a, "error"))
  <2>1. pc'[a] # "ok"
    BY <1>6 DEF AcquireLock, Goto, Typed, TypeData
  <2>2. pc[a] # "ok"
    BY ApplierMoves DEF Answered
  <2>3. ~Ahead(o) /\ ~Ahead(o)'
    BY <1>2, <2>1, <2>2 DEF Ahead
  <2> QED BY <1>4, <1>5, <1>6, <2>3, AgreeFrame
<1>7. CASE ApplyReplication(a)
  <2>1. /\ pc[a] = "locked" /\ pc'[a] = "ok"
        /\ \/ Does(a, "apply_book") /\ Store(a, snapshot[a])
           \/ Does(a, "apply_cancel") /\ Store(a, None)
    BY <1>7 DEF ApplyReplication, ApplyWrite, ReleaseAndAnswer, Goto, Typed, TypeData
  <2>2. Originated(o)
    BY <1>2, <2>1 DEF OriginInv
  <2>3. /\ At(o) \in DOMAIN BACKUP_MAP /\ msg[o] \in ClientMessage
        /\ At(a) = BACKUP_MAP[At(o)] /\ Key(a) = Key(o)
        /\ Does(a, "apply_book") => Does(o, "book")
        /\ Does(a, "apply_cancel") => ~Does(o, "book")
        /\ snapshot[a] = snapshot[o]
    <3>1. /\ msg[a] = ReplicatedMessage(o) /\ snapshot[a] = snapshot[o]
          /\ At(o) \in DOMAIN BACKUP_MAP /\ pc[o] # "idle"
      BY <1>2, <2>2 DEF Originated, Handed
    <3>2. At(o) \in Node /\ msg[o] \in ClientMessage /\ msg[o] \in Message
      BY <1>2, <3>1, ThreadPlace
    <3>3. replicator[At(o)] = BACKUP_MAP[At(o)]
      BY <3>1, <3>2 DEF Typed, RoleInv
    <3>4. /\ msg[a].node = replicator[At(o)] /\ msg[a].table = msg[o].table
          /\ msg[a].time = msg[o].time
          /\ msg[a].action = IF msg[o].action = "book" THEN "apply_book" ELSE "apply_cancel"
      BY <3>1, <3>2 DEF ReplicatedMessage, Message
    <3> QED BY <3>1, <3>2, <3>3, <3>4 DEF At, Key, Does
  <2>4. Store(a, Written(o))
    BY <2>1, <2>3 DEF Written
  <2>5. At(a) \in Node /\ Key(a) \in Slot
    BY <2>1, ThreadPlace DEF InCriticalSection
  <2>6. reservations'[n][s] = reservations[n][s]
    <3>1. At(a) # n
      BY <2>3, ConfigAssumption
    <3> QED BY <1>1, <2>4, <2>5, <3>1 DEF Store, Typed, TypeData
  <2>7. CASE At(a) = BACKUP_MAP[n] /\ Key(a) = s
    <3>1. At(o) = n /\ Key(o) = s
      BY <2>3, <2>7, ConfigAssumption
    <3>2. pc[o] \in {"waiting", "error", "dead"}
      BY <1>2, <2>1, <2>2 DEF Originated, AckInv
    <3>3. pc[o] # "error"
      <4>1. ASSUME pc[o] = "error" PROVE Orphaned(n, s)'
        <5>1. pc'[o] = "error" /\ At(o)' = n /\ Key(o)' = s /\ pc'[Applier(o)'] = "ok"
          BY <1>2, <1>3, <1>4, <2>1, <3>1, <4>1 DEF At, Key
        <5> QED BY <1>2, <1>2a, <5>1 DEF Orphaned, o
      <4> QED BY <4>1
    <3>4. Writes(o, n, s)
      <4>1. table_locks[At(o)][msg[o].table] = o
        BY <1>2, <2>2, <3>2, <3>3 DEF LockInv, Originated, InCriticalSection
      <4> QED BY <1>2, <2>2, <3>1, <4>1 DEF Writes, Originated, Key
    <3>5. /\ Writes(o, n, s)' /\ (pc'[o] = "dead" \/ Ahead(o)')
          /\ Written(o)' = Written(o)
      BY <1>2, <1>4, <2>1, <3>2, <3>3, <3>4 DEF Ahead
    <3>6. reservations'[BACKUP_MAP[n]][s] = Written(o)
      BY <1>1, <2>4, <2>7 DEF Store, Typed, TypeData
    <3>7. \A th \in Thread : Writes(th, n, s)' => th = o
      BY <3>5 DEF Writes
    <3> QED BY <1>2, <3>5, <3>6, <3>7 DEF Agree
  <2>8. CASE ~(At(a) = BACKUP_MAP[n] /\ Key(a) = s)
    <3>1. reservations'[BACKUP_MAP[n]][s] = reservations[BACKUP_MAP[n]][s]
      BY <1>1, <2>4, <2>5, <2>8 DEF Store, Typed, TypeData
    <3>2. ~Writes(o, n, s)
      BY <2>3, <2>8 DEF Writes
    <3> QED BY <1>2, <1>4, <1>5, <2>6, <3>1, <3>2, AgreeFrame
  <2> QED BY <2>7, <2>8
<1> QED BY <1>6, <1>7, ApplySteps

LEMMA AgreeStep == AgreementInv /\ [Next]_serviceVars => AgreeInv'
<1> SUFFICES ASSUME AgreementInv, [Next]_serviceVars,
                    NEW n \in DOMAIN BACKUP_MAP, NEW s \in Slot,
                    ClientsKeepTo(n)', running'[BACKUP_MAP[n]], ~Orphaned(n, s)'
             PROVE  Agree(n, s)'
  BY DEF AgreeInv
<1>1. ClientsKeepTo(n) /\ running[BACKUP_MAP[n]] /\ ~Orphaned(n, s)
  BY ConfigAssumption, ClientsStay, StoppedStays, OrphanStays DEF AgreementInv
<1>2. Agree(n, s)
  BY <1>1 DEF AgreementInv, AgreeInv
<1>3. CASE EnvironmentStep
  BY <1>2, <1>3, AgreeEnvironment DEF AgreementInv
<1>4. ASSUME NEW q \in Thread, ThreadStep(q) PROVE Agree(n, s)'
  BY <1>1, <1>2, <1>4, ThreadShape, AgreeServeStep, AgreeApplyStep
<1> QED BY <1>3, <1>4, Steps

LEMMA AgreementInit == Init => AgreementInv
<1> SUFFICES ASSUME Init PROVE AgreementInv
  OBVIOUS
<1>1. Typed
  BY InitTyped
<1>2. LockInv /\ AckInv /\ IdleInv
  BY DEF Init, LockInv, AckInv, IdleInv, InCriticalSection
<1>3. OriginInv
  BY Pairs DEF Init, OriginInv
<1>4. AgreeInv
  <2> SUFFICES ASSUME NEW n \in DOMAIN BACKUP_MAP, NEW s \in Slot PROVE Agree(n, s)
    BY DEF AgreeInv
  <2>1. reservations[n][s] = reservations[BACKUP_MAP[n]][s]
    BY ConfigAssumption DEF Init
  <2>2. \A th \in Thread : ~Ahead(th)
    BY DEF Init, Ahead
  <2> QED BY <2>1, <2>2 DEF Agree
<1> QED BY <1>1, <1>2, <1>3, <1>4 DEF AgreementInv

LEMMA AgreementAlways == Spec => []AgreementInv
<1>1. AgreementInv /\ [Next]_serviceVars => AgreementInv'
  BY TypedStep, LockStep, AckStep, IdleStep, OriginStep, AgreeStep DEF AgreementInv
<1> QED BY <1>1, AgreementInit, PTL DEF Spec

(* Where clients keep to the primary, it and its backup hold the same for  *)
(* every table no thread has locked, whatever has stopped, crashed, timed  *)
(* out or been retried, unless a write was given up and then applied       *)
(* (reservation_service.py:237-296, primary.py:19-31).                     *)
THEOREM ReplicasAgree == Spec => []ReplicaAgreement
BY AgreementAlways, AgreementImplies, PTL

-------------------------------------------------------------------------------
(* A process that nobody replicates to implements the ledger.              *)

(* A booking in hand is for the customer who asked. *)
InHandForAsker ==
    \A th \in Thread :
        pc[th] \in Stamped /\ Does(th, "book") => snapshot[th].customer = msg[th].customer

LEMMA InHandStep == Typed /\ InHandForAsker /\ [Next]_serviceVars => InHandForAsker'
<1> SUFFICES ASSUME Typed, InHandForAsker, [Next]_serviceVars,
                    NEW q \in Thread, pc'[q] \in Stamped, Does(q, "book")'
             PROVE  snapshot'[q].customer = msg'[q].customer
  BY DEF InHandForAsker
<1>1. ASSUME pc[q] \in Stamped, msg'[q] = msg[q], snapshot'[q] = snapshot[q]
      PROVE  snapshot'[q].customer = msg'[q].customer
  BY <1>1 DEF InHandForAsker, Does
<1>2. CASE EnvironmentStep
  BY <1>1, <1>2, EnvironmentKeeps DEF Stamped, InCriticalSection
<1>3. ASSUME NEW th \in Thread, ThreadStep(th), q # th
      PROVE  pc[q] \in Stamped /\ msg'[q] = msg[q] /\ snapshot'[q] = snapshot[q]
  BY <1>3, OthersKeepTheirs DEF Stamped, InCriticalSection
<1>4. CASE StampBooking(q)
  BY <1>4 DEF StampBooking, Typed, TypeData
<1>5. ~StampCancellation(q)
  BY DEF StampCancellation, Does
<1>6. CASE ThreadStep(q)
  BY <1>1, <1>4, <1>5, <1>6, OwnStampedStep
<1> QED BY <1>1, <1>2, <1>3, <1>6, Steps

Requests(n) == [c \in Connection |-> RequestOf(n, c)]
Answers(n) == [c \in Connection |-> AnswerOf(n, c)]

LEMMA LedgerInit ==
  ASSUME NEW n \in Node, Init
  PROVE  Ledger(n)!Init
<1>1. \A c \in Connection : msg[<<c, "serve">>] = None
  BY DEF Init, Thread
<1>2. \A c \in Connection : RequestOf(n, c) = None /\ AnswerOf(n, c) = None
  BY <1>1 DEF RequestOf, AnswerOf
<1>3. reservations[n] = [s \in Slot |-> None]
  BY DEF Init
<1> QED BY <1>2, <1>3 DEF Ledger!Init

(* A step in which n's reservations, and the calls it is in, stay. *)
LEMMA LedgerStutters ==
  ASSUME NEW n \in Node, reservations'[n] = reservations[n],
         \A c \in Connection :
            RequestOf(n, c)' = RequestOf(n, c) /\ AnswerOf(n, c)' = AnswerOf(n, c)
  PROVE  UNCHANGED Ledger(n)!ledgerVars
BY DEF Ledger!ledgerVars

LEMMA SameCall ==
  ASSUME NEW n, NEW c \in Connection, msg'[<<c, "serve">>] = msg[<<c, "serve">>],
         \/ pc'[<<c, "serve">>] = pc[<<c, "serve">>]
         \/ pc'[<<c, "serve">>] \notin Answered /\ pc[<<c, "serve">>] \notin Answered
         \/ RequestOf(n, c) = None
  PROVE  RequestOf(n, c)' = RequestOf(n, c) /\ AnswerOf(n, c)' = AnswerOf(n, c)
BY DEF RequestOf, AnswerOf

(* A thread that answers "error" refuses, and has changed nothing. *)
LEMMA LedgerRefuses ==
  ASSUME Typed, NEW n \in Node, NEW q \in Thread, q[2] = "serve", ThreadStep(q),
         At(q) = n, UNCHANGED reservations, msg'[q] = msg[q],
         pc[q] \notin Answered \cup {"idle"}, pc'[q] = "error",
         \A c \in Connection \ {q[1]} :
            RequestOf(n, c)' = RequestOf(n, c) /\ AnswerOf(n, c)' = AnswerOf(n, c)
  PROVE  Ledger(n)!Next
<1> DEFINE c == q[1]
<1>1. c \in Connection /\ q = <<c, "serve">>
  BY DEF Thread
<1>2. msg[q] # None /\ msg[q].node = n
  BY ThreadPlace, MessageShape DEF At
<1> HIDE DEF c
<1>3. /\ RequestOf(n, c) = msg[q] /\ RequestOf(n, c)' = msg[q]
      /\ AnswerOf(n, c) = None /\ AnswerOf(n, c)' = "error"
  BY <1>1, <1>2 DEF RequestOf, AnswerOf, Answered
<1>4. Ledger(n)!Refuse(c)
  <2>1. Requests(n)' = Requests(n)
    BY <1>3 DEF Requests, c
  <2>2. Answers(n)' = [Answers(n) EXCEPT ![c] = "error"]
    BY <1>1, <1>3 DEF Answers, c
  <2> QED BY <1>1, <1>2, <1>3, <2>1, <2>2 DEF Ledger!Refuse, Ledger!Pending, Requests, Answers
<1> QED BY <1>1, <1>4 DEF Ledger!Next

(* A thread that writes confirms, with a timestamp above its table's. *)
LEMMA LedgerConfirms ==
  ASSUME Typed, DecisionStillValid, StampIsFreshest,
         InHandForAsker, NEW n \in Node, NEW q \in Thread, q[2] = "serve", At(q) = n,
         CommitBooking(q) \/ CommitCancellation(q),
         \A c \in Connection \ {q[1]} :
            RequestOf(n, c)' = RequestOf(n, c) /\ AnswerOf(n, c)' = AnswerOf(n, c)
  PROVE  Ledger(n)!Next
<1> DEFINE c == q[1]
<1>1. c \in Connection /\ q = <<c, "serve">>
  BY DEF Thread
<1> HIDE DEF c
<1>2. /\ pc[q] = "commit" /\ pc'[q] = "ok" /\ UNCHANGED msg
  BY DEF CommitBooking, CommitCancellation, ReleaseAndAnswer, Goto, Typed, TypeData
<1>3. /\ msg[q] \in ClientMessage /\ msg[q] # None /\ msg[q].node = n
      /\ Key(q) \in Slot
  BY <1>2, ThreadPlace, MessageShape DEF At, InCriticalSection
<1>4. /\ RequestOf(n, c) = msg[q] /\ RequestOf(n, c)' = msg[q]
      /\ AnswerOf(n, c) = None /\ AnswerOf(n, c)' = "ok"
  BY <1>1, <1>2, <1>3 DEF RequestOf, AnswerOf, Answered
<1>5. Requests(n)' = Requests(n) /\ Answers(n)' = [Answers(n) EXCEPT ![c] = "ok"]
  BY <1>1, <1>4 DEF Requests, Answers, c
<1>6. Requests(n)[c] = msg[q] /\ Answers(n)[c] = None
  BY <1>1, <1>4 DEF Requests, Answers
<1>7. Ledger(n)!SlotOf(c) = Key(q) /\ Ledger(n)!Pending(c)
  BY <1>3, <1>6 DEF Ledger!SlotOf, Ledger!Pending, Requests, Answers, Key
<1>8. CASE CommitBooking(q)
  <2>1. Does(q, "book") /\ Store(q, snapshot[q]) /\ snapshot[q] \in Reservation
    BY <1>2, <1>8 DEF CommitBooking, Typed, ThreadInv, WellFormed, Stamped
  <2>2. Held(q) = None
    BY <1>2, <2>1 DEF DecisionStillValid, Stamped, Does
  <2>3. snapshot[q].customer = msg[q].customer
    BY <1>2, <2>1 DEF InHandForAsker, Stamped
  <2>4. snapshot[q] = [customer |-> msg[q].customer, lamport_ts |-> snapshot[q].lamport_ts]
        /\ snapshot[q].lamport_ts \in Nat
    BY <2>1, <2>3 DEF Reservation
  <2>5. Ledger(n)!Fresh(snapshot[q].lamport_ts, msg[q].table)
    BY <1>2 DEF Ledger!Fresh, StampIsFreshest, Stamped
  <2>6. reservations'[n] = [reservations[n] EXCEPT ![Key(q)] = snapshot[q]]
    BY <2>1 DEF Store, Typed, TypeData
  <2>7. Ledger(n)!ConfirmBooking(c)
    BY <1>3, <1>5, <1>6, <1>7, <2>1, <2>2, <2>4, <2>5, <2>6
       DEF Ledger!ConfirmBooking, Requests, Answers, Does, Held
  <2> QED BY <1>1, <2>7 DEF Ledger!Next
<1>9. CASE CommitCancellation(q)
  <2>1. Does(q, "cancel") /\ Store(q, None)
    BY <1>9 DEF CommitCancellation
  <2>2. Held(q) # None
    BY <1>2, <2>1 DEF DecisionStillValid, Stamped, Does
  <2>3. reservations'[n] = [reservations[n] EXCEPT ![Key(q)] = None]
    BY <2>1 DEF Store, Typed, TypeData
  <2>4. Ledger(n)!ConfirmCancellation(c)
    BY <1>3, <1>5, <1>6, <1>7, <2>1, <2>2, <2>3
       DEF Ledger!ConfirmCancellation, Requests, Answers, Does, Held
  <2> QED BY <1>1, <2>4 DEF Ledger!Next
<1> QED BY <1>8, <1>9

LedgerInv ==
    /\ Typed
    /\ IdleInv
    /\ DecisionStillValid
    /\ StampIsFreshest
    /\ InHandForAsker

(* Threads other than q leave their calls as they are. *)
LEMMA OtherCalls ==
  ASSUME Typed, NEW n \in Node, NEW q \in Thread, ThreadStep(q),
         NEW c \in Connection, q # <<c, "serve">>
  PROVE  RequestOf(n, c)' = RequestOf(n, c) /\ AnswerOf(n, c)' = AnswerOf(n, c)
<1>1. <<c, "serve">> \in Thread /\ <<c, "serve">> # Applier(q)
  BY DEF Thread, Applier
<1> QED BY <1>1, OthersUntouched, SameCall

LEMMA LedgerThreadStep ==
  ASSUME LedgerInv, NEW n \in Node \ Backup, NEW q \in Thread, ThreadStep(q)
  PROVE  [Ledger(n)!Next]_(Ledger(n)!ledgerVars)
<1> USE DEF LedgerInv
<1>1. CASE q[2] = "apply"
  <2>1. \A c \in Connection : q # <<c, "serve">>
    BY <1>1
  <2>2. reservations'[n] = reservations[n]
    <3>1. (At(q) \in Backup /\ pc[q] # "idle") \/ UNCHANGED reservations
      BY <1>1, ApplySteps, ThreadPlace DEF ApplyReplication
    <3> QED BY <1>1, <3>1, ApplySteps
            DEF ApplyReplication, ApplyWrite, Store, Typed, TypeData
  <2> QED BY <2>1, <2>2, OtherCalls, LedgerStutters
<1>2. CASE q[2] = "serve"
  <2> DEFINE c == q[1]
  <2>1. c \in Connection /\ q = <<c, "serve">> /\ Applier(q) # q
    BY <1>2, Pairs DEF Thread
  <2> HIDE DEF c
  <2>2. \A d \in Connection \ {q[1]} :
           RequestOf(n, d)' = RequestOf(n, d) /\ AnswerOf(n, d)' = AnswerOf(n, d)
    BY <2>1, OtherCalls
  <2>3. pc[q] \notin Answered \cup {"idle"} /\ msg'[q] = msg[q]
    BY <1>2, ServeMoves
  <2>4. CASE CommitBooking(q) \/ CommitCancellation(q)
    <3>1. CASE At(q) = n
      BY <1>2, <2>2, <2>4, <3>1, LedgerConfirms
    <3>2. CASE At(q) # n
      <4>1. reservations'[n] = reservations[n]
        BY <2>4, <3>2 DEF CommitBooking, CommitCancellation, Store, Typed, TypeData
      <4>2. RequestOf(n, c) = None
        BY <2>1, <3>2 DEF RequestOf, At
      <4> QED BY <2>1, <2>2, <2>3, <4>1, <4>2, SameCall, LedgerStutters
    <3> QED BY <3>1, <3>2
  <2>5. CASE ~(CommitBooking(q) \/ CommitCancellation(q))
    <3>1. UNCHANGED reservations /\ pc'[q] \in {"locked", "replicate", "waiting", "commit", "error"}
      BY <1>2, <2>1, <2>5, ServeSteps
         DEF SendReplication, ReplicationAcked, ReplicationFailed, FailWrite,
             ReleaseAndAnswer, Goto, dataVars, Typed, TypeData
    <3>2. CASE pc'[q] = "error" /\ At(q) = n
      BY <1>2, <2>2, <2>3, <3>1, <3>2, LedgerRefuses
    <3>3. CASE ~(pc'[q] = "error" /\ At(q) = n)
      <4>1. pc'[q] \notin Answered \/ RequestOf(n, c) = None
        BY <2>1, <3>1, <3>3 DEF Answered, RequestOf, At
      <4> QED BY <2>1, <2>2, <2>3, <3>1, <4>1, SameCall, LedgerStutters
    <3> QED BY <3>2, <3>3
  <2> QED BY <2>4, <2>5
<1> QED BY <1>1, <1>2, ThreadShape

LEMMA LedgerStep ==
  ASSUME LedgerInv, NEW n \in Node \ Backup, [Next]_serviceVars
  PROVE  [Ledger(n)!Next]_(Ledger(n)!ledgerVars)
<1> USE DEF LedgerInv
<1>1. ASSUME NEW th \in Thread, NEW m \in ClientMessage, HandleClient(th, m)
      PROVE  [Ledger(n)!Next]_(Ledger(n)!ledgerVars)
  <2> DEFINE c == th[1]
  <2>1. c \in Connection /\ th = <<c, "serve">>
    BY <1>1 DEF Thread, HandleClient
  <2> HIDE DEF c
  <2>2. /\ msg[th] = None /\ msg'[th] = m /\ pc'[th] = "acquire" /\ pc[th] = "idle"
        /\ UNCHANGED reservations /\ m # None
        /\ \A d \in Connection \ {c} : /\ msg'[<<d, "serve">>] = msg[<<d, "serve">>]
                                     /\ pc'[<<d, "serve">>] = pc[<<d, "serve">>]
    BY <1>1, <2>1, MessageShape
       DEF HandleClient, Goto, IdleInv, dataVars, Typed, TypeData, Thread
  <2>3. \A d \in Connection \ {c} :
           RequestOf(n, d)' = RequestOf(n, d) /\ AnswerOf(n, d)' = AnswerOf(n, d)
    BY <2>2, SameCall
  <2>4. RequestOf(n, c) = None /\ AnswerOf(n, c) = None /\ AnswerOf(n, c)' = None
    BY <2>1, <2>2 DEF RequestOf, AnswerOf, Answered
  <2>5. CASE m.node = n
    <3>1. RequestOf(n, c)' = m
      BY <2>1, <2>2, <2>5 DEF RequestOf
    <3>2. Requests(n)' = [Requests(n) EXCEPT ![c] = m] /\ Answers(n)' = Answers(n)
      BY <2>1, <2>3, <2>4, <3>1 DEF Requests, Answers
    <3>3. Ledger(n)!Submit(c)
      BY <2>1, <2>2, <2>4, <3>2 DEF Ledger!Submit, Requests, Answers
    <3> QED BY <2>1, <3>3 DEF Ledger!Next
  <2>6. CASE m.node # n
    <3>1. RequestOf(n, c)' = None
      BY <2>1, <2>2, <2>6 DEF RequestOf
    <3> QED BY <2>2, <2>3, <2>4, <3>1, LedgerStutters
  <2> QED BY <2>5, <2>6
<1>2. ASSUME NEW m \in Node, Crash(m) PROVE [Ledger(n)!Next]_(Ledger(n)!ledgerVars)
  <2>1. \A c \in Connection :
           /\ msg'[<<c, "serve">>] = msg[<<c, "serve">>]
           /\ \/ pc'[<<c, "serve">>] = pc[<<c, "serve">>]
              \/ pc'[<<c, "serve">>] \notin Answered /\ pc[<<c, "serve">>] \notin Answered
    BY <1>2 DEF Crash, InCriticalSection, Answered, Thread
  <2> QED BY <1>2, <2>1, SameCall, LedgerStutters DEF Crash, dataVars
<1>3. CASE UNCHANGED <<reservations, pc, msg>>
  BY <1>3, SameCall, LedgerStutters
<1>4. ASSUME NEW q \in Thread, ThreadStep(q) PROVE [Ledger(n)!Next]_(Ledger(n)!ledgerVars)
  BY <1>4, LedgerThreadStep
<1> QED BY <1>1, <1>2, <1>3, <1>4
        DEF Next, NodeStep, Stop, PromoteToPrimary, serviceVars, threadVars, dataVars

LEMMA LedgerAlways == Spec => []LedgerInv
<1>1. Init => IdleInv /\ InHandForAsker
  BY DEF Init, IdleInv, InHandForAsker, Stamped
<1> QED BY <1>1, InitTyped, TypedStep, IdleStep, InHandStep, DecisionsStayValid,
           StampsAreFreshest, PTL DEF Spec, LedgerInv

(* A process that no other one replicates to is a ledger to its callers:   *)
(* whatever is replicated, lost, given up or promoted, each booking and    *)
(* each cancellation it confirms takes effect in one step, and a refused   *)
(* one has none (reservation_service.py:298-382).                          *)
THEOREM ServiceIsLedger ==
  ASSUME NEW n \in Node \ Backup
  PROVE  Spec => Ledger(n)!Spec
<1>1. Init => Ledger(n)!Init
  BY LedgerInit
<1>2. LedgerInv /\ [Next]_serviceVars => [Ledger(n)!Next]_(Ledger(n)!ledgerVars)
  BY LedgerStep
<1> QED BY <1>1, <1>2, LedgerAlways, PTL DEF Spec, Ledger!Spec
===============================================================================
