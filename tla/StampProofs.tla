------------------------------ MODULE StampProofs ------------------------------
(***************************************************************************)
(* That a process that is no backup never gives one timestamp to two of    *)
(* its reservations, for all constants of ReservationService.  A stamp is  *)
(* drawn long before it is stored, so the invariant is about the stamps in *)
(* hand as well as about those stored.                                     *)
(***************************************************************************)
EXTENDS ReservationServiceProofs

StampOf(q) == snapshot[q].lamport_ts

HandsDistinct ==
    \A q, r \in Thread :
        q # r /\ pc[q] \in Stamped /\ pc[r] \in Stamped /\ At(q) = At(r)
        => StampOf(q) # StampOf(r)

HandsUnlikeStored ==
    \A q \in Thread, s \in Slot :
        pc[q] \in Stamped /\ At(q) \notin Backup /\ reservations[At(q)][s] # None
        => reservations[At(q)][s].lamport_ts # StampOf(q)

StampInv == HandsDistinct /\ HandsUnlikeStored /\ PrimaryStampsDistinct

-------------------------------------------------------------------------------
Kept(q) == pc[q] \in Stamped /\ msg'[q] = msg[q] /\ snapshot'[q] = snapshot[q]
Draws(q) == StampBooking(q) \/ StampCancellation(q)

(* A stamp is in hand because it was, or because it is drawn in this step; *)
(* then nobody else draws one.                                             *)
LEMMA InHand ==
  ASSUME Typed, [Next]_serviceVars, NEW q \in Thread, pc'[q] \in Stamped
  PROVE  /\ Kept(q) \/ Draws(q)
         /\ Draws(q) => \A r \in Thread \ {q} : pc'[r] \in Stamped => Kept(r)
<1>1. CASE EnvironmentStep
  <2>1. pc'[q] = pc[q] /\ Kept(q)
    BY <1>1, EnvironmentKeeps DEF Stamped, InCriticalSection, Kept
  <2>2. ~Draws(q)
    BY <2>1 DEF Draws, StampBooking, StampCancellation, Stamped
  <2> QED
    BY <2>1, <2>2
<1>2. ASSUME NEW th \in Thread, ThreadStep(th), NEW r \in Thread, r # th, pc'[r] \in Stamped
      PROVE  Kept(r) /\ pc'[r] = pc[r]
  BY <1>2, OthersKeepTheirs DEF Stamped, InCriticalSection, Kept
<1>3. ASSUME NEW th \in Thread, ThreadStep(th)
      PROVE  /\ Kept(q) \/ Draws(q)
             /\ Draws(q) => \A r \in Thread \ {q} : pc'[r] \in Stamped => Kept(r)
  <2>1. CASE q = th
    BY <1>2, <1>3, <2>1, OwnStampedStep DEF Kept, Draws
  <2>2. CASE q # th
    <3>1. pc[q] \in Stamped
      BY <1>2, <1>3, <2>2 DEF Kept
    <3> QED
      BY <1>2, <1>3, <2>2, <3>1 DEF Draws, StampBooking, StampCancellation, Stamped
  <2> QED
    BY <2>1, <2>2
<1> QED
  BY <1>1, <1>3, Steps

(* What a process that is no backup stores, it has stored, or a thread of  *)
(* its own commits.                                                        *)
LEMMA StoredBy ==
  ASSUME Typed, [Next]_serviceVars, NEW n \in Node \ Backup, NEW s \in Slot,
         reservations'[n][s] # None
  PROVE  \/ reservations'[n][s] = reservations[n][s]
         \/ \E th \in Thread :
               /\ pc[th] = "commit" /\ pc'[th] = "ok"
               /\ At(th) = n /\ Key(th) = s
               /\ reservations' = [reservations EXCEPT ![n][s] = snapshot[th]]
               /\ reservations'[n][s] = snapshot[th]
<1>1. CASE UNCHANGED reservations
  BY <1>1
<1>2. ASSUME NEW th \in Thread, Store(th, None)
      PROVE  reservations'[n][s] = reservations[n][s]
  BY <1>2 DEF Store, Typed, TypeData
<1>3. ASSUME NEW th \in Thread, ApplyReplication(th)
      PROVE  reservations'[n][s] = reservations[n][s]
  <2>1. At(th) \in Backup
    BY <1>3, ThreadPlace, ThreadShape, MessageShape
       DEF ApplyReplication, ApplyWrite, Does
  <2> QED
    BY <1>3, <2>1 DEF ApplyReplication, ApplyWrite, Store, Typed, TypeData
<1>4. ASSUME NEW th \in Thread, CommitBooking(th),
             reservations'[n][s] # reservations[n][s]
      PROVE  /\ pc[th] = "commit" /\ pc'[th] = "ok"
             /\ At(th) = n /\ Key(th) = s
             /\ reservations' = [reservations EXCEPT ![n][s] = snapshot[th]]
             /\ reservations'[n][s] = snapshot[th]
  <2>1. /\ pc[th] = "commit" /\ pc'[th] = "ok"
        /\ Store(th, snapshot[th])
    BY <1>4 DEF CommitBooking, ReleaseAndAnswer, Goto, Typed, TypeData
  <2>2. At(th) = n /\ Key(th) = s
    BY <1>4, <2>1 DEF Store, Typed, TypeData
  <2> QED
    BY <2>1, <2>2 DEF Store, Typed, TypeData
<1>5. \/ UNCHANGED reservations
      \/ \E th \in Thread :
            Store(th, None) \/ CommitBooking(th) \/ ApplyReplication(th)
  <2>1. CASE EnvironmentStep
    BY <2>1, EnvironmentKeeps
  <2>2. CASE \E th \in Thread : ThreadStep(th)
    BY <2>2, Zenon DEF ThreadStep, UnknownTable, AcquireLock, LockTimeout, RejectRequest,
       StampBooking, StampCancellation, SkipReplication, BackupUnreachable, FailWrite,
       SendReplication, ReplicationAcked, ReplicationFailed, CommitCancellation, dataVars
  <2> QED
    BY <2>1, <2>2, Steps
<1> QED
  BY <1>1, <1>2, <1>3, <1>4, <1>5

-------------------------------------------------------------------------------
LEMMA HandsDistinctStep ==
  Typed /\ ClockInv /\ StampInv /\ [Next]_serviceVars => HandsDistinct'
<1> SUFFICES ASSUME Typed, ClockInv, StampInv, [Next]_serviceVars,
                    NEW q \in Thread, NEW r \in Thread, q # r,
                    pc'[q] \in Stamped, pc'[r] \in Stamped, At(q)' = At(r)'
             PROVE  snapshot'[q].lamport_ts # snapshot'[r].lamport_ts
  BY DEF HandsDistinct, StampOf
<1>1. CASE Kept(q) /\ Kept(r)
  BY <1>1 DEF Kept, StampInv, HandsDistinct, StampOf, At
<1>2. ASSUME NEW a \in Thread, NEW b \in Thread, Draws(a), Kept(b), At(a)' = At(b)'
      PROVE  snapshot'[a].lamport_ts # snapshot'[b].lamport_ts
  <2>1. /\ snapshot'[a].lamport_ts = logical_clock[At(a)] + 1
        /\ UNCHANGED msg /\ pc[a] = "locked"
    BY <1>2, StampKeepsTypes
       DEF Draws, StampBooking, StampCancellation, NextLamport, At, Typed, TypeData
  <2>2. At(a) = At(b) /\ snapshot'[b] = snapshot[b] /\ pc[b] \in Stamped
    BY <1>2, <2>1 DEF Kept, At
  <2>3. snapshot[b].lamport_ts <= logical_clock[At(b)]
    BY <2>2 DEF ClockInv, StampsCovered
  <2>4. snapshot[b].lamport_ts \in Nat /\ logical_clock[At(b)] \in Nat
    BY <2>2, ThreadPlace DEF Stamped, Typed, ThreadInv, WellFormed, Reservation, TypeData
  <2> QED
    BY <2>1, <2>2, <2>3, <2>4
<1>3. (Kept(q) /\ Kept(r)) \/ (Draws(q) /\ Kept(r)) \/ (Draws(r) /\ Kept(q))
  BY InHand
<1> QED
  BY <1>1, <1>2, <1>3

LEMMA HandsUnlikeStoredStep ==
  Typed /\ ClockInv /\ StampInv /\ [Next]_serviceVars => HandsUnlikeStored'
<1> SUFFICES ASSUME Typed, ClockInv, StampInv, [Next]_serviceVars,
                    NEW q \in Thread, NEW s \in Slot, pc'[q] \in Stamped,
                    At(q)' \notin Backup, reservations'[At(q)'][s] # None
             PROVE  reservations'[At(q)'][s].lamport_ts # snapshot'[q].lamport_ts
  BY DEF HandsUnlikeStored, StampOf
<1>1. CASE Draws(q)
  <2>1. At(q)' = At(q) /\ UNCHANGED reservations /\ pc[q] = "locked"
    BY <1>1 DEF Draws, StampBooking, StampCancellation, At
  <2>2. At(q) \in Node /\ reservations[At(q)][s] \in Reservation
    BY <2>1, ThreadPlace DEF Typed, TypeData
  <2>3. /\ snapshot'[q].lamport_ts = logical_clock[At(q)] + 1
        /\ reservations[At(q)][s].lamport_ts < snapshot'[q].lamport_ts
    BY <1>1, <2>1, StampAbove DEF Draws
  <2>4. reservations[At(q)][s].lamport_ts \in Nat /\ logical_clock[At(q)] \in Nat
    BY <2>2 DEF Reservation, Typed, TypeData
  <2> QED
    BY <2>1, <2>3, <2>4
<1>2. CASE Kept(q)
  <2>1. At(q)' = At(q) /\ pc[q] \in Stamped /\ snapshot'[q] = snapshot[q]
    BY <1>2 DEF Kept, At
  <2>2. At(q) \in Node \ Backup
    BY <2>1, ThreadPlace DEF Stamped
  <2>3. CASE reservations'[At(q)][s] = reservations[At(q)][s]
    BY <2>1, <2>3 DEF StampInv, HandsUnlikeStored, StampOf
  <2>4. ASSUME NEW th \in Thread, pc[th] = "commit", pc'[th] = "ok", At(th) = At(q),
               reservations'[At(q)][s] = snapshot[th]
        PROVE  reservations'[At(q)'][s].lamport_ts # snapshot'[q].lamport_ts
    <3>1. th # q /\ pc[th] \in Stamped
      BY <2>4 DEF Stamped
    <3> QED
      BY <2>1, <2>4, <3>1 DEF StampInv, HandsDistinct, StampOf
  <2> QED
    BY <2>1, <2>2, <2>3, <2>4, StoredBy
<1> QED
  BY <1>1, <1>2, InHand

LEMMA StoredDistinctStep ==
  Typed /\ StampInv /\ [Next]_serviceVars => PrimaryStampsDistinct'
<1> SUFFICES ASSUME Typed, StampInv, [Next]_serviceVars, NEW n \in Node \ Backup,
                    NEW r \in Slot, NEW s \in Slot, r # s,
                    reservations'[n][r] # None, reservations'[n][s] # None
             PROVE  reservations'[n][r].lamport_ts # reservations'[n][s].lamport_ts
  BY DEF PrimaryStampsDistinct
<1>1. CASE /\ reservations'[n][r] = reservations[n][r]
           /\ reservations'[n][s] = reservations[n][s]
  BY <1>1 DEF StampInv, PrimaryStampsDistinct
<1>2. ASSUME NEW a \in Slot, NEW b \in Slot, a # b, reservations'[n][b] # None,
             NEW th \in Thread, pc[th] = "commit", At(th) = n,
             reservations' = [reservations EXCEPT ![n][a] = snapshot[th]],
             reservations'[n][a] = snapshot[th]
      PROVE  reservations'[n][a].lamport_ts # reservations'[n][b].lamport_ts
  <2>1. reservations'[n][b] = reservations[n][b]
    BY <1>2 DEF Typed, TypeData
  <2>2. pc[th] \in Stamped
    BY <1>2 DEF Stamped
  <2> QED
    BY <1>2, <2>1, <2>2 DEF StampInv, HandsUnlikeStored, StampOf
<1> QED
  BY <1>1, <1>2, StoredBy

(* A process that is no backup never gives one timestamp to two of the     *)
(* reservations it holds, under every fault and though its tables are      *)
(* booked concurrently (reservation_service.py:60-68).                     *)
THEOREM PrimaryStampsAreDistinct == Spec => []PrimaryStampsDistinct
<1>1. Init => ClockInv /\ StampInv
  BY DEF Init, ClockInv, ClockCoversStored, StampsCovered, StampInv, HandsDistinct,
         HandsUnlikeStored, PrimaryStampsDistinct, Stamped
<1>2. Typed /\ ClockInv /\ [Next]_serviceVars => ClockInv'
  BY StoredStep, CoveredStep DEF ClockInv
<1>3. Typed /\ ClockInv /\ StampInv /\ [Next]_serviceVars => StampInv'
  BY HandsDistinctStep, HandsUnlikeStoredStep, StoredDistinctStep DEF StampInv
<1>4. StampInv => PrimaryStampsDistinct
  BY DEF StampInv
<1> QED
  BY <1>1, <1>2, <1>3, <1>4, InitTyped, TypedStep, PTL DEF Spec
================================================================================
