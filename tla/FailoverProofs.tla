---------------------------- MODULE FailoverProofs ----------------------------
(***************************************************************************)
(* Theorems about Failover, for all nodes, restaurants, tables and HTTP    *)
(* requests: under the gateway and the promotion the services are still    *)
(* those of ReservationService, so that its theorems hold of them; the     *)
(* types; that the map follows the promotion; that only a restaurant whose *)
(* backup is gone is unavailable; and, where no timeout expires on a       *)
(* service that lives, that confirmed bookings are neither doubled nor     *)
(* lost, and are shown by every listing.                                   *)
(***************************************************************************)
EXTENDS Failover, AgreementProofs, FiniteSetTheorems

(* A request under way has been asked, and is on its way to a service. *)
GatewayInv ==
    /\ service_map \in [Restaurant -> Node]
    /\ stage \in [Http -> Stage]
    /\ attempt \in [Http -> Attempt]
    /\ asked \in [Http -> Asked \cup {None}]
    /\ addr \in [Http -> Node \cup {None}]
    /\ \A h \in Http : stage[h] # "new" => asked[h] \in Asked /\ addr[h] \in Node

LEMMA MapFacts ==
    /\ Restaurant \subseteq Node
    /\ \A r \in Restaurant : BACKUP_MAP[r] \in Node \ Restaurant
    /\ \A q, r \in Restaurant : BACKUP_MAP[q] = BACKUP_MAP[r] => q = r
BY ConfigAssumption DEF Restaurant

LEMMA GatewayInit == FailoverInit => GatewayInv
<1> SUFFICES ASSUME FailoverInit PROVE GatewayInv
  OBVIOUS
<1>1. service_map = [r \in Restaurant |-> r] /\ service_map \in [Restaurant -> Node]
  BY MapFacts DEF FailoverInit
<1>2. /\ stage = [h \in Http |-> "new"]
      /\ asked = [h \in Http |-> None]
      /\ addr = [h \in Http |-> None]
      /\ attempt = [h \in Http |-> "first"]
  BY DEF FailoverInit
<1> QED BY <1>1, <1>2 DEF GatewayInv, Stage, Attempt

LEMMA GatewayInvStep == GatewayInv /\ [FailoverNext]_vars => GatewayInv'
<1> SUFFICES ASSUME GatewayInv, [FailoverNext]_vars PROVE GatewayInv'
  OBVIOUS
<1> USE MapFacts DEF GatewayInv
<1>1. CASE UNCHANGED vars
  BY <1>1 DEF vars, gatewayVars, promotionVars
<1>2. ASSUME NEW h \in Http, NEW q \in Asked, Route(h, q) PROVE GatewayInv'
  <2>1. q.restaurant \in Restaurant
    BY DEF Asked
  <2>2. UNCHANGED <<attempt, service_map>>
    BY <1>2 DEF Route, promotionVars
  <2> QED BY <1>2, <2>1, <2>2 DEF Route, Stage
<1>3. ASSUME NEW h \in Http, Send(h) \/ AnswerRead(h) \/ GiveUp(h) PROVE GatewayInv'
  <2>1. UNCHANGED <<attempt, service_map, asked, addr>>
    BY <1>3 DEF Send, AnswerRead, GiveUp, promotionVars
  <2>2. /\ stage[h] # "new"
        /\ \E s \in Stage \ {"new"} : stage' = [stage EXCEPT ![h] = s]
    BY <1>3 DEF Send, AnswerRead, GiveUp, AttemptFails, Stage
  <2> QED BY <2>1, <2>2
<1>4. ASSUME NEW h \in Http, RetryOnBackup(h) PROVE GatewayInv'
  <2>1. UNCHANGED <<service_map, asked>>
    BY <1>4 DEF RetryOnBackup, promotionVars
  <2>2. stage[h] # "new" /\ BACKUP_MAP[addr[h]] \in Node
    BY <1>4 DEF RetryOnBackup, AttemptFails, Restaurant
  <2>3. /\ stage' = [stage EXCEPT ![h] = "send"]
        /\ attempt' = [attempt EXCEPT ![h] = "retry"]
        /\ addr' = [addr EXCEPT ![h] = BACKUP_MAP[addr[h]]]
    BY <1>4 DEF RetryOnBackup
  <2> QED BY <2>1, <2>2, <2>3 DEF Stage, Attempt
<1>5. ASSUME NEW h \in Http, Respond(h) PROVE GatewayInv'
  <2>1. UNCHANGED <<attempt, service_map, asked, addr>>
    BY <1>5 DEF Respond, promotionVars
  <2>2. /\ stage[h] # "new"
        /\ pc[Handler(h)] \in Stage \ {"new"}
        /\ stage' = [stage EXCEPT ![h] = pc[Handler(h)]]
    BY <1>5 DEF Respond, Answered, Stage
  <2> QED BY <2>1, <2>2
<1>6. ASSUME NEW r \in Restaurant, UpdateServiceMap(r) PROVE GatewayInv'
  <2>1. UNCHANGED gatewayVars
    BY <1>6 DEF UpdateServiceMap
  <2>2. service_map' \in [Restaurant -> Node]
    BY <1>6 DEF UpdateServiceMap, Redirected
  <2> QED BY <2>1, <2>2 DEF gatewayVars
<1>7. ASSUME UNCHANGED <<service_map, gatewayVars>> PROVE GatewayInv'
  BY <1>7 DEF gatewayVars
<1>8. ASSUME NEW r \in Restaurant, FirstPing(r) \/ Promote(r) \/ SenderFails(r)
      PROVE  UNCHANGED <<service_map, gatewayVars>>
  BY <1>8 DEF FirstPing, Promote, SenderFails
<1>9. ASSUME NEW th \in Thread, ThreadRuns(th) PROVE UNCHANGED <<service_map, gatewayVars>>
  BY <1>9 DEF ThreadRuns, promotionVars
<1>10. ASSUME NEW n \in Node, StopService(n) \/ AcceptLoopFails(n)
       PROVE  UNCHANGED <<service_map, gatewayVars>>
  BY <1>10 DEF StopService, AcceptLoopFails, promotionVars
<1> QED BY <1>1, <1>2, <1>3, <1>4, <1>5, <1>6, <1>7, <1>8, <1>9, <1>10
        DEF FailoverNext, GatewayStep

(* The gateway sends what a client may send: every step of the composition *)
(* is a step of the services or leaves them alone.                         *)
LEMMA ServicesStep == GatewayInv /\ [FailoverNext]_vars => [Next]_serviceVars
<1> SUFFICES ASSUME GatewayInv, [FailoverNext]_vars PROVE [Next]_serviceVars
  OBVIOUS
<1>1. CASE UNCHANGED vars
  BY <1>1 DEF vars
<1>2. ASSUME NEW h \in Http, NEW q \in Asked, Route(h, q) PROVE UNCHANGED serviceVars
  BY <1>2 DEF Route
<1>3. ASSUME NEW h \in Http, Send(h) PROVE Next
  <2>1. /\ HandleClient(Handler(h), ServiceMessage(h))
        /\ asked[h] \in Asked /\ addr[h] \in Node /\ attempt[h] \in Attempt
        /\ asked[h].action # "list"
    BY <1>3 DEF Send, GatewayInv
  <2>2. Handler(h) \in Thread
    BY <2>1, GatewayAssumption DEF Handler, Thread
  <2>3. /\ asked[h].action \in {"book", "cancel"}
        /\ asked[h].table \in TableArg /\ asked[h].time \in Time
    BY <2>1 DEF Asked
  <2>4. ServiceMessage(h) \in ClientMessage
    <3>1. CASE asked[h].action = "book"
      BY <2>1, <2>3, <3>1, GatewayAssumption DEF ServiceMessage, ClientMessage
    <3>2. CASE asked[h].action = "cancel"
      BY <2>1, <2>3, <3>2 DEF ServiceMessage, ClientMessage
    <3> QED BY <2>3, <3>1, <3>2
  <2> QED BY <2>1, <2>2, <2>4 DEF Next
<1>4. ASSUME NEW h \in Http, AnswerRead(h) \/ RetryOnBackup(h) \/ GiveUp(h) \/ Respond(h)
      PROVE  UNCHANGED serviceVars
  BY <1>4 DEF AnswerRead, RetryOnBackup, GiveUp, Respond
<1>5. ASSUME NEW r \in Restaurant, FirstPing(r) \/ UpdateServiceMap(r) \/ SenderFails(r)
      PROVE  UNCHANGED serviceVars
  BY <1>5 DEF FirstPing, UpdateServiceMap, SenderFails
<1>6. ASSUME NEW r \in Restaurant, Promote(r) PROVE Next
  BY <1>6, MapFacts DEF Promote, Next, NodeStep
<1>7. ASSUME NEW th \in Thread, ThreadRuns(th) PROVE Next
  BY <1>7 DEF ThreadRuns, Next
<1>8. ASSUME NEW n \in Node, StopService(n) \/ AcceptLoopFails(n) PROVE Next
  BY <1>8 DEF StopService, AcceptLoopFails, Next, NodeStep
<1> QED BY <1>1, <1>2, <1>3, <1>4, <1>5, <1>6, <1>7, <1>8 DEF FailoverNext, GatewayStep

LEMMA GatewayAlways == FailoverSpec => []GatewayInv
BY GatewayInit, GatewayInvStep, PTL DEF FailoverSpec

(* Under the gateway and the promotion the services behave as              *)
(* ReservationService says, which leaves clients and promotions free       *)
(* (gateway.py:30-66, backup.py:41-43).                                    *)
THEOREM ServicesUnderGateway == FailoverSpec => Spec
<1>1. FailoverInit => Init
  BY DEF FailoverInit
<1> QED BY <1>1, GatewayAlways, ServicesStep, PTL DEF FailoverSpec, Spec

(* So whatever the gateway retries and the watchdog promotes, decisions    *)
(* stay valid, clocks cover, stamps are fresh, confirmations are           *)
(* acknowledged (reservation_service.py:298-382).                          *)
THEOREM PromisesUnderGateway ==
    FailoverSpec => []( /\ DecisionStillValid
                        /\ ClockCoversStored
                        /\ StampIsFreshest
                        /\ ConfirmedMeansAcknowledged )
BY ServicesUnderGateway, DecisionsStayValid, ClocksCover, StampsAreFreshest,
   ConfirmedAreAcknowledged, PTL

-------------------------------------------------------------------------------
(* The map and the promotion: what has fired has promoted, and an entry is *)
(* its restaurant's primary or that one's backup.                          *)

PromotionInv ==
    /\ watchdog \in [Restaurant -> Watchdog]
    /\ pinging \in [Restaurant -> BOOLEAN]
    /\ \A r \in Restaurant : service_map[r] \in {r, BACKUP_MAP[r]}
    /\ \A r \in Restaurant : watchdog[r] \in {"fired", "promoted"} => ~back_up[BACKUP_MAP[r]]

(* A process that is no backup does not become one.                        *)
LEMMA NeverBackAgain ==
    ASSUME TypeOK, [Next]_serviceVars, NEW n \in Node, ~back_up[n]
    PROVE  ~back_up'[n]
<1>1. CASE UNCHANGED back_up
  BY <1>1
<1>2. ASSUME NEW m \in Node, PromoteToPrimary(m) PROVE ~back_up'[n]
  BY <1>2 DEF PromoteToPrimary, TypeOK
<1>3. CASE UNCHANGED serviceVars
  BY <1>1, <1>3 DEF serviceVars, roleVars
<1>4. ASSUME NEW th \in Thread, NEW m \in ClientMessage, HandleClient(th, m)
      PROVE  UNCHANGED back_up
  BY <1>4 DEF HandleClient, roleVars
<1>5. ASSUME NEW th \in Thread, ThreadStep(th) PROVE UNCHANGED back_up
  BY <1>5
     DEF ThreadStep, UnknownTable, AcquireLock, LockTimeout, RejectRequest,
         StampBooking, StampCancellation, SkipReplication, BackupUnreachable,
         SendReplication, ReplicationAcked, ReplicationFailed, FailWrite,
         CommitBooking, CommitCancellation, ApplyReplication, roleVars
<1>6. ASSUME NEW m \in Node, Stop(m) \/ Crash(m) PROVE UNCHANGED back_up
  BY <1>6 DEF Stop, Crash
<1> QED BY <1>1, <1>2, <1>3, <1>4, <1>5, <1>6 DEF Next, NodeStep

LEMMA PromotionStep ==
    TypeOK /\ GatewayInv /\ PromotionInv /\ [FailoverNext]_vars => PromotionInv'
<1> SUFFICES ASSUME TypeOK, GatewayInv, PromotionInv, [FailoverNext]_vars
             PROVE  PromotionInv'
  OBVIOUS
<1> USE MapFacts DEF PromotionInv
<1>0. \A n \in Node : ~back_up[n] => ~back_up'[n]
  BY ServicesStep, NeverBackAgain
<1>1. CASE UNCHANGED promotionVars
  BY <1>0, <1>1 DEF promotionVars
<1>2. ASSUME NEW r \in Restaurant, FirstPing(r) PROVE PromotionInv'
  <2>1. /\ watchdog' = [watchdog EXCEPT ![r] = "watching"]
        /\ UNCHANGED <<service_map, pinging>>
    BY <1>2 DEF FirstPing
  <2> QED BY <1>0, <2>1 DEF Watchdog
<1>3. ASSUME NEW r \in Restaurant, Promote(r) PROVE PromotionInv'
  <2>1. /\ watchdog' = [watchdog EXCEPT ![r] = "fired"]
        /\ UNCHANGED <<service_map, pinging>>
    BY <1>3 DEF Promote
  <2>2. ~back_up'[BACKUP_MAP[r]]
    BY <1>3 DEF Promote, PromoteToPrimary, TypeOK
  <2> QED BY <1>0, <2>1, <2>2 DEF Watchdog
<1>4. ASSUME NEW r \in Restaurant, UpdateServiceMap(r) PROVE PromotionInv'
  <2>1. /\ watchdog' = [watchdog EXCEPT ![r] = "promoted"]
        /\ watchdog[r] = "fired"
        /\ UNCHANGED pinging
    BY <1>4 DEF UpdateServiceMap, Promoted
  <2>2. \A q \in Restaurant : service_map'[q] \in {q, BACKUP_MAP[q]}
    BY <1>4 DEF UpdateServiceMap, Redirected
  <2> QED BY <1>0, <2>1, <2>2 DEF Watchdog
<1>5. ASSUME NEW r \in Restaurant, SenderFails(r) PROVE PromotionInv'
  <2>1. /\ pinging' = [pinging EXCEPT ![r] = FALSE]
        /\ UNCHANGED <<service_map, watchdog>>
    BY <1>5 DEF SenderFails
  <2> QED BY <1>0, <2>1
<1>6. ASSUME NEW n \in Node, StopService(n) PROVE PromotionInv'
  <2>1. UNCHANGED <<service_map, watchdog>>
    BY <1>6 DEF StopService
  <2>2. pinging' \in [Restaurant -> BOOLEAN]
    BY <1>6, Zenon DEF StopService
  <2> QED BY <1>0, <2>1, <2>2
<1>7. ASSUME NEW n \in Node, AcceptLoopFails(n) PROVE UNCHANGED promotionVars
  BY <1>7 DEF AcceptLoopFails
<1>8. ASSUME NEW th \in Thread, ThreadRuns(th) PROVE UNCHANGED promotionVars
  BY <1>8 DEF ThreadRuns
<1>9. ASSUME NEW h \in Http, GatewayStep(h) PROVE UNCHANGED promotionVars
  BY <1>9 DEF GatewayStep, Send, AnswerRead, RetryOnBackup, GiveUp, Respond
<1>10. ASSUME NEW h \in Http, NEW q \in Asked, Route(h, q) PROVE UNCHANGED promotionVars
  BY <1>10 DEF Route
<1>11. CASE UNCHANGED vars
  BY <1>1, <1>11 DEF vars
<1> QED BY <1>1, <1>2, <1>3, <1>4, <1>5, <1>6, <1>7, <1>8, <1>9, <1>10, <1>11
        DEF FailoverNext

LEMMA PromotionAlways == FailoverSpec => [](TypeOK /\ GatewayInv /\ PromotionInv)
<1>1. FailoverInit => PromotionInv
  <2> SUFFICES ASSUME FailoverInit PROVE PromotionInv
    OBVIOUS
  <2>1. /\ service_map = [r \in Restaurant |-> r]
        /\ pinging = [r \in Restaurant |-> TRUE]
        /\ watchdog = [r \in Restaurant |-> "no ping yet"]
    BY DEF FailoverInit
  <2> QED BY <2>1 DEF PromotionInv, Watchdog
<1> QED BY <1>1, PromotionStep, GatewayAlways, ServicesUnderGateway, TypeCorrect, PTL
        DEF FailoverSpec

(* An entry of the map changes once, from a primary to its backup, which   *)
(* has by then stopped being one, and no other restaurant's entry is       *)
(* touched (backup.py:41-60).                                              *)
THEOREM MapIsLedByPromotion == FailoverSpec => MapFollowsPromotion
<1> DEFINE Led == \A r \in Restaurant :
                     service_map'[r] # service_map[r] =>
                         /\ service_map[r] = r
                         /\ service_map'[r] = BACKUP_MAP[r]
                         /\ ~back_up[BACKUP_MAP[r]]
<1>1. TypeOK /\ GatewayInv /\ PromotionInv /\ [FailoverNext]_vars => [Led]_vars
  <2> SUFFICES ASSUME GatewayInv, PromotionInv, FailoverNext PROVE Led
    OBVIOUS
  <2>1. ASSUME NEW r \in Restaurant, UpdateServiceMap(r) PROVE Led
    <3>1. /\ \A q \in Restaurant :
                service_map'[q] = IF service_map[q] = r THEN BACKUP_MAP[r] ELSE service_map[q]
          /\ watchdog[r] = "fired"
      BY <2>1 DEF UpdateServiceMap, Redirected, Promoted
    <3>2. \A q \in Restaurant : service_map[q] = r => q = r
      BY MapFacts DEF PromotionInv
    <3>3. ~back_up[BACKUP_MAP[r]]
      BY <3>1 DEF PromotionInv
    <3> QED BY <3>1, <3>2, <3>3
  <2>2. CASE UNCHANGED service_map
    BY <2>2
  <2>3. ASSUME NEW r \in Restaurant, FirstPing(r) \/ Promote(r) \/ SenderFails(r)
        PROVE  UNCHANGED service_map
    BY <2>3 DEF FirstPing, Promote, SenderFails
  <2>4. ASSUME NEW n \in Node, StopService(n) \/ AcceptLoopFails(n)
        PROVE  UNCHANGED service_map
    BY <2>4 DEF StopService, AcceptLoopFails, promotionVars
  <2>5. ASSUME NEW th \in Thread, ThreadRuns(th) PROVE UNCHANGED service_map
    BY <2>5 DEF ThreadRuns, promotionVars
  <2>6. ASSUME NEW h \in Http, GatewayStep(h) \/ \E q \in Asked : Route(h, q)
        PROVE  UNCHANGED service_map
    BY <2>6 DEF GatewayStep, Send, AnswerRead, RetryOnBackup, GiveUp, Respond, Route,
                promotionVars
  <2> QED BY <2>1, <2>2, <2>3, <2>4, <2>5, <2>6 DEF FailoverNext
<1> QED BY <1>1, PromotionAlways, PTL DEF FailoverSpec, MapFollowsPromotion

LEMMA ConfirmedStep ==
    /\ confirmed \in [Restaurant -> [Slot -> SUBSET Http]]
    /\ [FailoverNext]_vars
    => confirmed' \in [Restaurant -> [Slot -> SUBSET Http]]
<1> SUFFICES ASSUME confirmed \in [Restaurant -> [Slot -> SUBSET Http]],
                    [FailoverNext]_vars
             PROVE  confirmed' \in [Restaurant -> [Slot -> SUBSET Http]]
  OBVIOUS
<1>1. ASSUME NEW h \in Http, NEW q \in Asked, Route(h, q)
      PROVE  confirmed' \in [Restaurant -> [Slot -> SUBSET Http]]
  <2> DEFINE r == q.restaurant
             s == SlotOf(q)
  <2>1. confirmed' = confirmed \/ confirmed' = [confirmed EXCEPT ![r][s] = {}]
    BY <1>1 DEF Route
  <2> QED BY <2>1
<1>2. ASSUME NEW h \in Http, Respond(h)
      PROVE  confirmed' \in [Restaurant -> [Slot -> SUBSET Http]]
  <2> DEFINE r == asked[h].restaurant
             s == SlotOf(asked[h])
  <2>1. \/ confirmed' = confirmed
        \/ confirmed' = [confirmed EXCEPT ![r][s] = @ \cup {h}]
    BY <1>2 DEF Respond
  <2> HIDE DEF r, s
  <2>2. ASSUME confirmed' = [confirmed EXCEPT ![r][s] = @ \cup {h}]
        PROVE  confirmed' \in [Restaurant -> [Slot -> SUBSET Http]]
    <3>1. confirmed' = [confirmed EXCEPT ![r] = [confirmed[r] EXCEPT ![s] = @ \cup {h}]]
      BY <2>2
    <3>2. ASSUME r \in Restaurant
          PROVE  [confirmed[r] EXCEPT ![s] = @ \cup {h}] \in [Slot -> SUBSET Http]
      BY <3>2
    <3> QED BY <3>1, <3>2
  <2> QED BY <2>1, <2>2
<1>3. CASE UNCHANGED confirmed
  BY <1>3
<1>4. ASSUME NEW h \in Http, Send(h) \/ AnswerRead(h) \/ RetryOnBackup(h) \/ GiveUp(h)
      PROVE  UNCHANGED confirmed
  BY <1>4 DEF Send, AnswerRead, RetryOnBackup, GiveUp
<1>5. ASSUME NEW r \in Restaurant,
             FirstPing(r) \/ Promote(r) \/ UpdateServiceMap(r) \/ SenderFails(r)
      PROVE  UNCHANGED confirmed
  BY <1>5 DEF FirstPing, Promote, UpdateServiceMap, SenderFails, gatewayVars
<1>6. ASSUME NEW n \in Node, StopService(n) \/ AcceptLoopFails(n) PROVE UNCHANGED confirmed
  BY <1>6 DEF StopService, AcceptLoopFails, gatewayVars
<1>7. ASSUME NEW th \in Thread, ThreadRuns(th) PROVE UNCHANGED confirmed
  BY <1>7 DEF ThreadRuns, gatewayVars
<1>8. CASE UNCHANGED vars
  BY <1>8 DEF vars, gatewayVars
<1> QED BY <1>1, <1>2, <1>3, <1>4, <1>5, <1>6, <1>7, <1>8 DEF FailoverNext, GatewayStep

(* The gateway tries ports, and the map leads to ports, that a service was *)
(* configured with (gateway.py:51-71, backup.py:45-60).                    *)
THEOREM FailoverTypeCorrect == FailoverSpec => []FailoverTypeOK
<1> DEFINE Bookings == confirmed \in [Restaurant -> [Slot -> SUBSET Http]]
<1>1. FailoverInit => Bookings
  <2> SUFFICES ASSUME FailoverInit PROVE Bookings
    OBVIOUS
  <2>1. confirmed = [r \in Restaurant |-> [s \in Slot |-> {}]]
    BY DEF FailoverInit
  <2> QED BY <2>1
<1>2. Bookings /\ [FailoverNext]_vars => Bookings'
  BY ConfirmedStep
<1>3. TypeOK /\ GatewayInv /\ PromotionInv /\ Bookings => FailoverTypeOK
  BY DEF FailoverTypeOK, GatewayInv, PromotionInv
<1> HIDE DEF Bookings
<1> QED BY <1>1, <1>2, <1>3, PromotionAlways, PTL DEF FailoverSpec

-------------------------------------------------------------------------------
(* The gateway's requests, one at a time.                                  *)

Busy(h) == stage[h] \in {"send", "wait"}

Single == \A g, h \in Http : Busy(g) /\ Busy(h) => g = h

(* A step of the environment that leaves the requests, the threads and the *)
(* map alone: a process may stop or be promoted.                           *)
Background == UNCHANGED <<gatewayVars, service_map, dataVars, threadVars>>

LEMMA FailoverSteps ==
  ASSUME [FailoverNext]_vars
  PROVE  \/ \E h \in Http, q \in Asked : Route(h, q)
         \/ \E h \in Http : GatewayStep(h)
         \/ \E r \in Restaurant : UpdateServiceMap(r)
         \/ \E th \in Thread : ThreadRuns(th)
         \/ Background
<1>1. ASSUME NEW r \in Restaurant, FirstPing(r) \/ Promote(r) \/ SenderFails(r)
      PROVE  Background
  BY <1>1 DEF FirstPing, Promote, SenderFails, PromoteToPrimary, Background, serviceVars
<1>2. ASSUME NEW n \in Node, StopService(n) \/ AcceptLoopFails(n) PROVE Background
  BY <1>2 DEF StopService, AcceptLoopFails, Stop, Background, promotionVars
<1>3. CASE UNCHANGED vars
  BY <1>3 DEF vars, serviceVars, promotionVars, Background
<1> QED BY <1>1, <1>2, <1>3 DEF FailoverNext

(* What is stopped stays stopped, what is redirected stays redirected. *)
LEMMA NothingReturns ==
  ASSUME Typed, GatewayInv, PromotionInv, [FailoverNext]_vars
  PROVE  /\ \A n \in Node : running'[n] => running[n]
         /\ \A r \in Restaurant :
               /\ service_map[r] = BACKUP_MAP[r] => service_map'[r] = BACKUP_MAP[r]
               /\ service_map'[r] = r => service_map[r] = r
<1>1. \A n \in Node : running'[n] => running[n]
  BY ServicesStep, StoppedStays
<1>2. ASSUME NEW q \in Restaurant, UpdateServiceMap(q), NEW r \in Restaurant
      PROVE  /\ service_map[r] = BACKUP_MAP[r] => service_map'[r] = BACKUP_MAP[r]
             /\ service_map'[r] = r => service_map[r] = r
  <2>1. service_map'[r] = IF service_map[r] = q THEN BACKUP_MAP[q] ELSE service_map[r]
    BY <1>2 DEF UpdateServiceMap, Redirected
  <2> QED BY <2>1, MapFacts DEF PromotionInv
<1>3. ASSUME NEW h \in Http, GatewayStep(h) \/ \E q \in Asked : Route(h, q)
      PROVE  UNCHANGED service_map
  BY <1>3 DEF GatewayStep, Send, AnswerRead, RetryOnBackup, GiveUp, Respond, Route,
              promotionVars
<1>4. ASSUME NEW th \in Thread, ThreadRuns(th) PROVE UNCHANGED service_map
  BY <1>4 DEF ThreadRuns, promotionVars
<1> QED BY <1>1, <1>2, <1>3, <1>4, FailoverSteps DEF Background

(* What a step leaves of a request: it is another one's step, or its own. *)
LEMMA RequestKept ==
  ASSUME GatewayInv, [FailoverNext]_vars, NEW h \in Http
  PROVE  \/ \E q \in Asked : Route(h, q)
         \/ GatewayStep(h)
         \/ /\ stage'[h] = stage[h] /\ asked'[h] = asked[h] /\ addr'[h] = addr[h]
            /\ attempt'[h] = attempt[h]
<1> USE DEF GatewayInv
<1>1. ASSUME NEW g \in Http, g # h, GatewayStep(g) \/ \E q \in Asked : Route(g, q)
      PROVE  /\ stage'[h] = stage[h] /\ asked'[h] = asked[h] /\ addr'[h] = addr[h]
             /\ attempt'[h] = attempt[h]
  BY <1>1 DEF GatewayStep, Send, AnswerRead, RetryOnBackup, GiveUp, Respond, Route
<1>2. ASSUME UNCHANGED gatewayVars
      PROVE  /\ stage'[h] = stage[h] /\ asked'[h] = asked[h] /\ addr'[h] = addr[h]
             /\ attempt'[h] = attempt[h]
  BY <1>2 DEF gatewayVars
<1> QED BY <1>1, <1>2, FailoverSteps DEF Background, ThreadRuns, UpdateServiceMap

(* A request's own step, but the routing, finds it under way. *)
LEMMA OwnStep ==
  ASSUME GatewayInv, NEW h \in Http, GatewayStep(h)
  PROVE  /\ Busy(h)
         /\ stage'[h] \in Stage \ {"new"}
         /\ asked' = asked
         /\ stage'[h] = "wait" => Send(h)
         /\ UNCHANGED <<service_map, running>>
<1>1. UNCHANGED <<service_map, running>>
  BY DEF GatewayStep, Send, AnswerRead, RetryOnBackup, GiveUp, Respond, HandleClient,
         promotionVars, serviceVars, roleVars
<1>2. /\ Busy(h) /\ asked' = asked /\ stage'[h] \in Stage \ {"new"}
      /\ stage'[h] = "wait" => Send(h)
  BY DEF GatewayInv, GatewayStep, Send, AnswerRead, RetryOnBackup, GiveUp, Respond, Busy,
         AttemptFails, Stage, Answered
<1> QED BY <1>1, <1>2

LEMMA SingleStep == GatewayInv /\ Single /\ [FailoverNext]_vars => Single'
<1> SUFFICES ASSUME GatewayInv, Single, [FailoverNext]_vars,
                    NEW g \in Http, NEW h \in Http, Busy(g)', Busy(h)'
             PROVE  g = h
  BY DEF Single
<1>1. ASSUME NEW k \in Http, Busy(k)' PROVE Busy(k) \/ \E q \in Asked : Route(k, q)
  BY <1>1, RequestKept, OwnStep DEF Busy
<1>2. ASSUME NEW k \in Http, NEW q \in Asked, Route(k, q)
      PROVE  \A l \in Http : Busy(l)' => l = k
  BY <1>2 DEF Route, Busy, GatewayInv
<1> QED BY <1>1, <1>2 DEF Single

-------------------------------------------------------------------------------
(* Where a request is sent.                                                *)

OnItsWay(h, r) ==
    /\ addr[h] \in {r, BACKUP_MAP[r]}
    /\ attempt[h] = "retry" => addr[h] = BACKUP_MAP[r]
    /\ addr[h] = BACKUP_MAP[r] => service_map[r] = BACKUP_MAP[r] \/ ~running[r]
    /\ stage[h] = "unavailable" => ~running[BACKUP_MAP[r]]

Routed ==
    \A h \in Http :
        /\ stage[h] = "new" => attempt[h] = "first"
        /\ \A r \in Restaurant :
              stage[h] # "new" /\ asked[h].restaurant = r => OnItsWay(h, r)

LEMMA RoutedStep ==
  ASSUME "gateway timeout" \notin Faults,
         Typed, GatewayInv, PromotionInv, Routed, [FailoverNext]_vars
  PROVE  Routed'
<1>1. ASSUME NEW h \in Http, stage'[h] = "new" PROVE attempt'[h] = "first"
  <2>1. ~ \E q \in Asked : Route(h, q)
    BY <1>1 DEF Route, GatewayInv
  <2>2. stage[h] = "new" /\ attempt'[h] = attempt[h]
    BY <1>1, <2>1, RequestKept, OwnStep
  <2> QED BY <2>2 DEF Routed
<1>2. ASSUME NEW h \in Http, NEW r \in Restaurant, stage'[h] # "new",
             asked'[h].restaurant = r
      PROVE  OnItsWay(h, r)'
  <2>1. /\ r \in Node /\ BACKUP_MAP[r] \in Node \ Restaurant /\ BACKUP_MAP[r] # r
        /\ service_map[r] = BACKUP_MAP[r] => service_map'[r] = BACKUP_MAP[r]
        /\ running'[r] => running[r]
        /\ running'[BACKUP_MAP[r]] => running[BACKUP_MAP[r]]
    BY NothingReturns, MapFacts
  <2>2. ASSUME stage[h] # "new", asked'[h] = asked[h] PROVE OnItsWay(h, r)
    BY <1>2, <2>2 DEF Routed
  <2>3. ASSUME NEW q \in Asked, Route(h, q) PROVE OnItsWay(h, r)'
    <3>1. /\ stage'[h] = "send" /\ attempt'[h] = "first" /\ q.restaurant = r
          /\ addr'[h] = service_map[r]
      BY <1>2, <2>3 DEF Route, GatewayInv, Routed
    <3>2. service_map[r] \in {r, BACKUP_MAP[r]}
      BY DEF PromotionInv
    <3> QED BY <2>1, <3>1, <3>2 DEF OnItsWay
  <2>4. CASE Send(h) \/ AnswerRead(h) \/ Respond(h)
    <3>1. /\ stage[h] # "new" /\ stage'[h] # "unavailable"
          /\ asked'[h] = asked[h] /\ addr'[h] = addr[h] /\ attempt'[h] = attempt[h]
      BY <2>4 DEF Send, AnswerRead, Respond, Answered, GatewayInv
    <3> QED BY <2>1, <2>2, <3>1 DEF OnItsWay
  <2>5. CASE RetryOnBackup(h)
    <3>1. /\ stage[h] # "new" /\ ~running[addr[h]] /\ addr[h] \in Restaurant
          /\ stage'[h] = "send" /\ asked'[h] = asked[h] /\ addr'[h] = BACKUP_MAP[addr[h]]
      BY <2>5 DEF RetryOnBackup, AttemptFails, Restaurant, GatewayInv
    <3>2. addr[h] = r
      BY <2>1, <2>2, <3>1 DEF OnItsWay
    <3> QED BY <2>1, <3>1, <3>2 DEF OnItsWay
  <2>6. CASE GiveUp(h)
    <3>1. /\ stage[h] # "new" /\ ~running[addr[h]] /\ LastAttempt(h)
          /\ asked'[h] = asked[h] /\ addr'[h] = addr[h] /\ attempt'[h] = attempt[h]
      BY <2>6 DEF GiveUp, AttemptFails, GatewayInv
    <3>2. addr[h] = BACKUP_MAP[r]
      BY <2>2, <3>1 DEF OnItsWay, LastAttempt, Restaurant
    <3> QED BY <2>1, <2>2, <3>1, <3>2 DEF OnItsWay
  <2>7. CASE /\ stage'[h] = stage[h] /\ asked'[h] = asked[h] /\ addr'[h] = addr[h]
             /\ attempt'[h] = attempt[h]
    BY <1>2, <2>1, <2>2, <2>7 DEF OnItsWay
  <2> QED BY <2>3, <2>4, <2>5, <2>6, <2>7, RequestKept DEF GatewayStep
<1> QED BY <1>1, <1>2 DEF Routed

LEMMA RoutedInit == FailoverInit => Routed
BY DEF FailoverInit, Routed

LEMMA RoutedAlways ==
  ASSUME "gateway timeout" \notin Faults
  PROVE  FailoverSpec => [](Typed /\ GatewayInv /\ PromotionInv /\ Routed)
<1>1. Typed /\ GatewayInv /\ PromotionInv /\ Routed /\ [FailoverNext]_vars => Routed'
  BY RoutedStep
<1>2. FailoverSpec => []Typed
  BY ServicesUnderGateway, AgreementAlways, PTL DEF AgreementInv
<1> QED BY <1>1, <1>2, RoutedInit, PromotionAlways, PTL DEF FailoverSpec

(* Unless the gateway's own timeouts expire on services that live, it      *)
(* answers "Service unavailable" only when the backup is gone too, be it   *)
(* promoted or not (README.md:79, gateway.py:51-66).                       *)
THEOREM UnavailableMeansBothGone ==
  ASSUME "gateway timeout" \notin Faults
  PROVE  FailoverSpec => []BackupStandsIn
<1>1. GatewayInv /\ Routed => BackupStandsIn
  BY DEF GatewayInv, Asked, Routed, OnItsWay, BackupStandsIn
<1> QED BY <1>1, RoutedAlways, PTL

-------------------------------------------------------------------------------
(* Where no timeout expires, the threads at work are those of the request  *)
(* under way.                                                              *)

Patient == "timeout" \notin Faults /\ "gateway timeout" \notin Faults

(* A connection's thread has started only when its attempt was sent, and   *)
(* has answered before the gateway turns to anything else.                 *)
HandledAs(h, att) ==
    LET th == <<<<h, att>>, "serve">> IN
    pc[th] # "idle" =>
        /\ att = attempt[h]
        /\ stage[h] \in {"wait", "ok", "error"}
        /\ msg[th] = ServiceMessage(h)
        /\ stage[h] # "wait" => pc[th] \in Answered

Handled == \A h \in Http, att \in Attempt : HandledAs(h, att)

(* An applying thread at work is waited for. *)
AwaitedBy(th) ==
    /\ pc[Applier(th)] \in {"acquire", "locked"} => pc[th] = "waiting"
    /\ pc[Applier(th)] = "ok" => pc[th] \in {"waiting", "commit", "ok"}

Awaited == \A th \in Thread : th[2] = "serve" => AwaitedBy(th)

LEMMA AttemptThread ==
  ASSUME NEW h \in Http, NEW att \in Attempt
  PROVE  /\ <<<<h, att>>, "serve">> \in Thread
         /\ <<<<h, att>>, "serve">>[2] = "serve"
         /\ <<h, att>> \in Connection
BY GatewayAssumption DEF Thread

LEMMA HandlerThread ==
  ASSUME GatewayInv, NEW h \in Http
  PROVE  Handler(h) \in Thread /\ Handler(h)[2] = "serve" /\ attempt[h] \in Attempt
BY AttemptThread DEF GatewayInv, Handler

LEMMA ServeThread ==
  ASSUME NEW q \in Thread, q[2] = "serve"
  PROVE  \E h \in Http, att \in Attempt : q = <<<<h, att>>, "serve">>
BY GatewayAssumption DEF Thread

(* A connection's thread starts when its attempt is sent, and keeps its    *)
(* message and its answer.                                                 *)
LEMMA ThreadKept ==
  ASSUME Typed, GatewayInv, [FailoverNext]_vars, NEW h \in Http, NEW att \in Attempt,
         ~Send(h)
  PROVE  LET th == <<<<h, att>>, "serve">> IN
         pc'[th] # "idle" => /\ pc[th] # "idle"
                             /\ msg'[th] = msg[th]
                             /\ pc[th] \in Answered => pc'[th] = pc[th]
<1> DEFINE th == <<<<h, att>>, "serve">>
           Kept == pc'[th] # "idle" => /\ pc[th] # "idle"
                                       /\ msg'[th] = msg[th]
                                       /\ pc[th] \in Answered => pc'[th] = pc[th]
<1>1. th \in Thread /\ th[2] = "serve"
  BY AttemptThread
<1>2. ASSUME NEW g \in Http, Send(g) PROVE Kept
  <2>1. g # h
    BY <1>2
  <2>2. Handler(g) # th
    BY <2>1 DEF Handler
  <2> QED BY <1>1, <1>2, <2>2 DEF Send, HandleClient, Goto, Typed, TypeData
<1>3. CASE UNCHANGED threadVars
  BY <1>3 DEF threadVars
<1>4. ASSUME NEW q \in Thread, ThreadRuns(q) PROVE Kept
  <2>1. CASE q = th
    BY <1>1, <1>4, <2>1, ServeMoves DEF ThreadRuns
  <2>2. CASE q # th
    <3>1. SendReplication(q) => th # Applier(q)
      BY <1>1, ThreadShape
    <3> QED BY <1>1, <1>4, <2>2, <3>1, OthersUntouched DEF ThreadRuns
  <2> QED BY <2>1, <2>2
<1>5. ASSUME NEW g \in Http,
             \/ \E q \in Asked : Route(g, q)
             \/ AnswerRead(g) \/ RetryOnBackup(g) \/ GiveUp(g) \/ Respond(g)
      PROVE  Kept
  BY <1>3, <1>5 DEF Route, AnswerRead, RetryOnBackup, GiveUp, Respond, serviceVars
<1>6. ASSUME NEW r \in Restaurant, UpdateServiceMap(r) PROVE Kept
  BY <1>3, <1>6 DEF UpdateServiceMap, serviceVars
<1>7. ASSUME Background PROVE Kept
  BY <1>3, <1>7 DEF Background
<1> HIDE DEF Kept, th
<1>8. ASSUME NEW g \in Http, GatewayStep(g) PROVE Kept
  BY <1>2, <1>5, <1>8 DEF GatewayStep
<1>9. Kept
  BY <1>4, <1>5, <1>6, <1>7, <1>8, FailoverSteps
<1> QED BY <1>9 DEF Kept, th

LEMMA HandledStep ==
  ASSUME Patient, Typed, GatewayInv, Handled, [FailoverNext]_vars
  PROVE  Handled'
<1> SUFFICES ASSUME NEW h \in Http, NEW att \in Attempt PROVE HandledAs(h, att)'
  BY DEF Handled
<1> DEFINE th == <<<<h, att>>, "serve">>
<1>0. HandledAs(h, att) /\ th \in Thread /\ th[2] = "serve"
  BY AttemptThread DEF Handled
<1>1. ASSUME /\ stage'[h] = stage[h] /\ asked'[h] = asked[h] /\ addr'[h] = addr[h]
             /\ attempt'[h] = attempt[h],
             pc'[th] # "idle" => pc[th] # "idle" /\ msg'[th] = msg[th]
                                 /\ (pc[th] \in Answered => pc'[th] = pc[th])
      PROVE  HandledAs(h, att)'
  BY <1>0, <1>1 DEF HandledAs, ServiceMessage
<1>2. ASSUME NEW q \in Asked, Route(h, q) PROVE HandledAs(h, att)'
  <2>1. stage[h] = "new" /\ UNCHANGED pc
    BY <1>2 DEF Route, serviceVars, threadVars
  <2> QED BY <1>0, <2>1 DEF HandledAs
<1>3. CASE Send(h)
  <2>1. /\ pc[th] = "idle" /\ stage'[h] = "wait" /\ asked' = asked /\ addr' = addr
        /\ attempt' = attempt
    BY <1>0, <1>3 DEF Send, HandledAs, GatewayInv
  <2>2. th # Handler(h) => pc'[th] = "idle"
    BY <1>0, <1>3, <2>1 DEF Send, HandleClient, Goto
  <2>3. th = Handler(h) => att = attempt[h] /\ msg'[th] = ServiceMessage(h)
    BY <1>0, <1>3 DEF Send, HandleClient, Handler, Typed, TypeData
  <2> QED BY <2>1, <2>2, <2>3 DEF HandledAs, ServiceMessage
<1>4. CASE AnswerRead(h) \/ RetryOnBackup(h) \/ GiveUp(h)
  <2>1. stage[h] = "send" /\ UNCHANGED pc
    BY <1>4 DEF AnswerRead, RetryOnBackup, GiveUp, AttemptFails, Patient, serviceVars,
                threadVars
  <2> QED BY <1>0, <2>1 DEF HandledAs
<1>5. CASE Respond(h)
  <2>1. /\ stage[h] = "wait" /\ pc[Handler(h)] \in {"ok", "error"}
        /\ stage'[h] = pc[Handler(h)] /\ asked' = asked /\ addr' = addr
        /\ attempt' = attempt /\ UNCHANGED <<pc, msg>>
    BY <1>5 DEF Respond, Answered, GatewayInv, serviceVars, threadVars
  <2>2. att = attempt[h] => th = Handler(h)
    BY DEF Handler
  <2> QED BY <1>0, <2>1, <2>2 DEF HandledAs, ServiceMessage, Answered
<1>6. CASE /\ stage'[h] = stage[h] /\ asked'[h] = asked[h] /\ addr'[h] = addr[h]
           /\ attempt'[h] = attempt[h]
  <2>1. ASSUME pc'[th] # "idle"
        PROVE  pc[th] # "idle" /\ msg'[th] = msg[th]
               /\ (pc[th] \in Answered => pc'[th] = pc[th])
    <3>1. ~Send(h)
      BY <1>6 DEF Send, GatewayInv
    <3> QED BY <1>0, <2>1, <3>1, ThreadKept
  <2> QED BY <1>1, <1>6, <2>1
<1> QED BY <1>2, <1>3, <1>4, <1>5, <1>6, RequestKept DEF GatewayStep

LEMMA AwaitedStep ==
  ASSUME Patient, Typed, Awaited, [Next]_serviceVars
  PROVE  Awaited'
<1> SUFFICES ASSUME NEW th \in Thread, th[2] = "serve" PROVE AwaitedBy(th)'
  BY DEF Awaited
<1> DEFINE a == Applier(th)
<1> USE DEF Typed, TypeData
<1>1. a \in Thread /\ a[2] = "apply" /\ a # th /\ a' = a
  BY Pairs
<1>2. /\ pc[a] \in {"acquire", "locked"} => pc[th] = "waiting"
      /\ pc[a] = "ok" => pc[th] \in {"waiting", "commit", "ok"}
  BY DEF Awaited, AwaitedBy
<1> SUFFICES /\ pc'[a] \in {"acquire", "locked"} => pc'[th] = "waiting"
             /\ pc'[a] = "ok" => pc'[th] \in {"waiting", "commit", "ok"}
  BY <1>1 DEF AwaitedBy
<1> HIDE DEF a
<1>3. ASSUME NEW q \in Thread, NEW m \in ClientMessage, HandleClient(q, m)
      PROVE  pc'[a] = pc[a] /\ (pc'[th] = pc[th] \/ pc[th] = "idle")
  BY <1>1, <1>3 DEF HandleClient, Goto
<1>4. ASSUME NEW n \in Node, NodeStep(n) PROVE UNCHANGED pc
  BY <1>4, GatewayAssumption DEF NodeStep, Stop, Crash, PromoteToPrimary, threadVars
<1>5. CASE ThreadStep(th)
  <2>1. CASE SendReplication(th)
    BY <1>1, <2>1 DEF SendReplication, a
  <2>2. CASE ~SendReplication(th)
    <3>1. pc'[a] = pc[a]
      BY <1>1, <1>5, <2>2, OthersUntouched
    <3>2. CASE ReplicationAcked(th)
      BY <1>2, <3>1, <3>2 DEF ReplicationAcked, Goto, a
    <3>3. CASE ReplicationFailed(th)
      BY <1>2, <3>1, <3>3, GatewayAssumption DEF ReplicationFailed, Loss, Patient, a
    <3>4. CASE CommitBooking(th) \/ CommitCancellation(th)
      BY <1>2, <3>1, <3>4 DEF CommitBooking, CommitCancellation, ReleaseAndAnswer, Goto
    <3>5. CASE pc[th] \in {"acquire", "locked", "replicate"}
      BY <1>2, <3>1, <3>5
    <3> QED BY <1>5, <2>2, <3>2, <3>3, <3>4, <3>5, ServeSteps
  <2> QED BY <2>1, <2>2
<1>6. CASE ThreadStep(a)
  <2>1. pc[a] \in {"acquire", "locked"} \/ pc'[a] = "error"
    BY <1>1, <1>6, ApplySteps DEF ApplyReplication, AcquireLock, Goto
  <2>2. ~SendReplication(a) /\ pc'[th] = pc[th]
    BY <1>1, <1>6, ReplicatedShape, OthersUntouched DEF SendReplication
  <2> QED BY <1>2, <2>1, <2>2
<1>7. ASSUME NEW q \in Thread, ThreadStep(q), q # th, q # a
      PROVE  pc'[th] = pc[th] /\ pc'[a] = pc[a]
  <2>1. SendReplication(q) => Applier(q) # th /\ Applier(q) # a
    BY <1>7, ReplicatedShape, Pairs DEF SendReplication, a
  <2> QED BY <1>1, <1>7, <2>1, OthersUntouched
<1>8. CASE UNCHANGED serviceVars
  BY <1>2, <1>8 DEF serviceVars, threadVars
<1> QED BY <1>2, <1>3, <1>4, <1>5, <1>6, <1>7, <1>8 DEF Next

(* One request at a time, and no thread at work but that request's.        *)
Orderly ==
    /\ Typed /\ AckInv /\ OriginInv /\ InHandForAsker /\ DecisionStillValid
    /\ GatewayInv /\ PromotionInv /\ Single /\ Routed /\ Handled /\ Awaited
    /\ confirmed \in [Restaurant -> [Slot -> SUBSET Http]]

LEMMA AtWork ==
  ASSUME NEW q \in Thread, ThreadStep(q)
  PROVE  pc[q] \in {"acquire"} \cup InCriticalSection
<1>1. ASSUME \/ UnknownTable(q) \/ AcquireLock(q) \/ LockTimeout(q) \/ RejectRequest(q)
             \/ StampBooking(q) \/ StampCancellation(q) \/ SkipReplication(q)
      PROVE  pc[q] \in {"acquire"} \cup InCriticalSection
  BY <1>1 DEF UnknownTable, AcquireLock, LockTimeout, RejectRequest, StampBooking,
              StampCancellation, SkipReplication, InCriticalSection
<1>2. ASSUME \/ BackupUnreachable(q) \/ SendReplication(q) \/ ReplicationAcked(q)
             \/ ReplicationFailed(q) \/ CommitBooking(q) \/ CommitCancellation(q)
             \/ ApplyReplication(q)
      PROVE  pc[q] \in {"acquire"} \cup InCriticalSection
  BY <1>2 DEF BackupUnreachable, SendReplication, ReplicationAcked, ReplicationFailed,
              CommitBooking, CommitCancellation, ApplyReplication, InCriticalSection
<1> QED BY <1>1, <1>2, Zenon DEF ThreadStep

(* Whoever works, works for a request that waits. *)
LEMMA WorksFor ==
  ASSUME Orderly, NEW q \in Thread, ThreadStep(q)
  PROVE  \E h \in Http : /\ stage[h] = "wait" /\ pc[Handler(h)] # "idle"
                         /\ q = Handler(h) \/ q = Applier(Handler(h))
<1> USE DEF Orderly
<1>1. ASSUME NEW th \in Thread, th[2] = "serve", pc[th] \notin Answered \cup {"idle"}
      PROVE  \E h \in Http : stage[h] = "wait" /\ th = Handler(h)
  <2>1. PICK h \in Http, att \in Attempt : th = <<<<h, att>>, "serve">>
    BY <1>1, ServeThread
  <2>2. HandledAs(h, att)
    BY DEF Handled
  <2> QED BY <1>1, <2>1, <2>2 DEF HandledAs, Handler
<1>2. CASE q[2] = "serve"
  BY <1>1, <1>2, ServeMoves
<1>3. CASE q[2] = "apply"
  <2> DEFINE th == <<q[1], "serve">>
  <2>1. th \in Thread /\ th[2] = "serve" /\ Applier(th) = q
    BY <1>3, ApplierOf
  <2> HIDE DEF th
  <2>2. pc[q] \in {"acquire", "locked"}
    BY <1>3, AtWork DEF Typed, ThreadInv, WellFormed, InCriticalSection, Stamped
  <2>3. pc[th] = "waiting"
    BY <2>1, <2>2 DEF Awaited, AwaitedBy
  <2> QED BY <1>1, <2>1, <2>3 DEF Answered
<1> QED BY <1>2, <1>3, ThreadShape

(* What a request's thread has in hand. *)
LEMMA InHand ==
  ASSUME Orderly, NEW h \in Http, stage[h] = "wait", NEW th \in Thread,
         th = Handler(h), pc[th] # "idle",
         NEW r \in Restaurant, asked[h].restaurant = r
  PROVE  /\ th[2] = "serve" /\ msg[th] # None
         /\ At(th) = addr[h] /\ addr[h] \in {r, BACKUP_MAP[r]}
         /\ Key(th) = SlotOf(asked[h])
         /\ asked[h].action \in {"book", "cancel"} /\ Does(th, asked[h].action)
         /\ Does(th, "book") => msg[th].customer = h
<1> USE DEF Orderly
<1>1. th = <<<<h, attempt[h]>>, "serve">> /\ attempt[h] \in Attempt
  BY HandlerThread DEF Handler
<1>2. msg[th] = ServiceMessage(h)
  BY <1>1 DEF Handled, HandledAs
<1>3. msg[th] \in ClientMessage /\ msg[th] # None
  BY <1>1, ThreadPlace, MessageShape
<1>4. OnItsWay(h, r)
  BY DEF Routed
<1> QED BY <1>1, <1>2, <1>3, <1>4, MessageShape
        DEF ServiceMessage, At, Key, SlotOf, Does, OnItsWay

(* The one write that a step can make: into the slot of the request under  *)
(* way, a booking only where that slot was found free.                     *)
WrittenFor(h, n, s, v) ==
    /\ SlotOf(asked[h]) = s
    /\ reservations' = [reservations EXCEPT ![n][s] = v]
    /\ asked[h].action # "cancel" =>
           v # None /\ v.customer = h /\ reservations[addr[h]][s] = None

LEMMA CommitWrites ==
  ASSUME Orderly, NEW h \in Http, stage[h] = "wait", NEW th \in Thread, th = Handler(h),
         CommitBooking(th) \/ CommitCancellation(th)
  PROVE  \E s \in Slot, v \in Reservation \cup {None} : WrittenFor(h, addr[h], s, v)
<1> USE DEF Orderly
<1>1. pc[th] = "commit" /\ asked[h].restaurant \in Restaurant
  BY DEF CommitBooking, CommitCancellation, GatewayInv, Asked
<1>2. /\ At(th) = addr[h] /\ Key(th) = SlotOf(asked[h])
      /\ Does(th, asked[h].action) /\ asked[h].action \in {"book", "cancel"}
      /\ Does(th, "book") => msg[th].customer = h
  BY <1>1, InHand
<1>3. pc[th] \in Stamped /\ pc[th] \in InCriticalSection
  BY <1>1 DEF Stamped, InCriticalSection
<1>4. Key(th) \in Slot /\ snapshot[th] \in Reservation /\ snapshot[th] # None
  BY <1>1, <1>3, ThreadPlace, NoneAssumption DEF Typed, ThreadInv, WellFormed
<1>5. CASE CommitBooking(th)
  <2>1. Does(th, "book") /\ ~Does(th, "cancel")
    BY <1>5 DEF CommitBooking, Does
  <2>2. snapshot[th].customer = h /\ Held(th) = None
    BY <1>2, <1>3, <2>1 DEF InHandForAsker, DecisionStillValid
  <2>3. WrittenFor(h, addr[h], Key(th), snapshot[th])
    BY <1>2, <1>4, <1>5, <2>2 DEF CommitBooking, Store, Held, WrittenFor
  <2> QED BY <1>4, <2>3
<1>6. CASE CommitCancellation(th)
  <2>1. asked[h].action = "cancel"
    BY <1>2, <1>6 DEF CommitCancellation, Does
  <2>2. WrittenFor(h, addr[h], Key(th), None)
    <3>1. reservations' = [reservations EXCEPT ![At(th)][Key(th)] = None]
      BY <1>6 DEF CommitCancellation, Store
    <3> QED BY <1>2, <2>1, <3>1, Zenon DEF WrittenFor
  <2> QED BY <1>4, <2>2
<1> QED BY <1>5, <1>6

LEMMA ApplyWrites ==
  ASSUME Orderly, NEW h \in Http, stage[h] = "wait", NEW th \in Thread, th = Handler(h),
         pc[th] # "idle", NEW r \in Restaurant, asked[h].restaurant = r,
         ApplyReplication(Applier(th))
  PROVE  /\ addr[h] = r
         /\ \E s \in Slot, v \in Reservation \cup {None} :
               WrittenFor(h, BACKUP_MAP[r], s, v)
<1> USE DEF Orderly
<1> DEFINE a == Applier(th)
<1>1. /\ th[2] = "serve" /\ At(th) = addr[h] /\ addr[h] \in {r, BACKUP_MAP[r]}
      /\ Key(th) = SlotOf(asked[h]) /\ msg[th] # None
      /\ Does(th, asked[h].action) /\ asked[h].action \in {"book", "cancel"}
      /\ Does(th, "book") => msg[th].customer = h
  BY InHand
<1>2. a \in Thread /\ a[2] = "apply" /\ pc[a] = "locked"
  BY <1>1, Pairs DEF ApplyReplication
<1>3. pc[th] = "waiting"
  BY <1>1, <1>2 DEF Awaited, AwaitedBy
<1>4. /\ At(th) \in DOMAIN BACKUP_MAP
      /\ msg[a] = ReplicatedMessage(th) /\ snapshot[a] = snapshot[th]
  BY <1>1, <1>2 DEF OriginInv, Originated, Handed
<1>5. addr[h] = r
  BY <1>1, <1>4, MapFacts DEF Restaurant
<1>6. At(a) = BACKUP_MAP[r] /\ Key(a) = Key(th)
  <2>1. replicator[r] = BACKUP_MAP[r]
    BY MapFacts DEF Typed, RoleInv, Restaurant
  <2>2. msg[th] \in ClientMessage
    BY <1>1, <1>3, ThreadPlace
  <2> QED BY <1>1, <1>4, <1>5, <2>1, <2>2 DEF ReplicatedMessage, At, Key, ClientMessage
<1>7. pc[th] \in Stamped /\ pc[th] \in InCriticalSection
  BY <1>3 DEF Stamped, InCriticalSection
<1>8. Key(th) \in Slot /\ snapshot[th] \in Reservation /\ snapshot[th] # None
  BY <1>3, <1>7, ThreadPlace, NoneAssumption DEF Typed, ThreadInv, WellFormed
<1>9. PICK v \in {snapshot[th], None} :
          /\ reservations' = [reservations EXCEPT ![BACKUP_MAP[r]][Key(th)] = v]
          /\ v = None => Does(a, "apply_cancel")
  BY <1>4, <1>6, <1>8 DEF ApplyReplication, ApplyWrite, Store
<1>10. CASE asked[h].action = "cancel"
  <2>1. WrittenFor(h, BACKUP_MAP[r], Key(th), v)
    BY <1>1, <1>9, <1>10, Zenon DEF WrittenFor
  <2> QED BY <1>5, <1>8, <2>1
<1>11. CASE asked[h].action = "book"
  <2>1. Does(th, "book") /\ ~Does(th, "cancel")
    BY <1>1, <1>11 DEF Does
  <2>2. snapshot[th].customer = h /\ Held(th) = None
    BY <1>1, <1>7, <2>1 DEF InHandForAsker, DecisionStillValid
  <2>3. ~Does(a, "apply_cancel")
    <3>1. msg[th] \in ClientMessage
      BY <1>1, <1>3, ThreadPlace
    <3> QED BY <1>4, <2>1, <3>1 DEF ReplicatedMessage, Does, ClientMessage
  <2>4. WrittenFor(h, BACKUP_MAP[r], Key(th), v)
    BY <1>1, <1>8, <1>9, <2>2, <2>3 DEF WrittenFor, Held
  <2> QED BY <1>5, <1>8, <2>4
<1> QED BY <1>1, <1>10, <1>11

(* A thread's step is the commit of the request under way, th its thread,  *)
(* or the application of its write at the backup, and n the process where  *)
(* that is done, or it writes and confirms nothing.                        *)
WorkOf(h, r, n, th) ==
    /\ stage[h] = "wait" /\ asked[h].restaurant = r
    /\ th = Handler(h) /\ Applier(th) # th
    /\ \A x \in Thread : pc'[x] = "ok" /\ pc[x] # "ok" =>
          (x = th /\ n = addr[h]) \/ (x = Applier(th) /\ n = BACKUP_MAP[r])
    /\ \/ UNCHANGED reservations /\ \A x \in Thread : pc'[x] = "ok" => pc[x] = "ok"
       \/ /\ n = addr[h] \/ (addr[h] = r /\ n = BACKUP_MAP[r])
          /\ \E s \in Slot, v \in Reservation \cup {None} : WrittenFor(h, n, s, v)

LEMMA WorkSteps ==
  ASSUME Orderly, NEW q \in Thread, ThreadStep(q)
  PROVE  \E h \in Http, r \in Restaurant, n \in Node, th \in Thread : WorkOf(h, r, n, th)
<1>1. PICK h \in Http : /\ stage[h] = "wait" /\ pc[Handler(h)] # "idle"
                        /\ q = Handler(h) \/ q = Applier(Handler(h))
  BY WorksFor
<1> DEFINE th == Handler(h)
           r == asked[h].restaurant
<1>2. th \in Thread /\ th[2] = "serve" /\ r \in Restaurant /\ addr[h] \in Node
  BY <1>1, HandlerThread DEF Orderly, GatewayInv, Asked
<1>3. Applier(th) # th /\ Applier(th) \in Thread /\ Applier(th)[2] = "apply"
      /\ BACKUP_MAP[r] \in Node
  BY <1>2, Pairs, MapFacts
<1> HIDE DEF th, r
<1>4. /\ stage[h] = "wait" /\ asked[h].restaurant = r /\ th = Handler(h) /\ pc[th] # "idle"
      /\ q = th \/ q = Applier(th)
  BY <1>1 DEF th, r
<1>5. ASSUME NEW where \in {"ok", "error"}, ReleaseAndAnswer(q, where)
      PROVE  \A x \in Thread : pc'[x] = "ok" /\ pc[x] # "ok" => x = q
  BY <1>5 DEF ReleaseAndAnswer, Goto, Orderly, Typed, TypeData
<1>6. CASE q = th /\ (CommitBooking(q) \/ CommitCancellation(q))
  <2>1. \E s \in Slot, v \in Reservation \cup {None} : WrittenFor(h, addr[h], s, v)
    BY <1>2, <1>4, <1>6, CommitWrites
  <2>2. \A x \in Thread : pc'[x] = "ok" /\ pc[x] # "ok" => x = th
    BY <1>5, <1>6 DEF CommitBooking, CommitCancellation
  <2>3. WorkOf(h, r, addr[h], th)
    BY <1>3, <1>4, <2>1, <2>2 DEF WorkOf
  <2> QED BY <1>2, <2>3
<1>7. CASE q = Applier(th) /\ ApplyReplication(q)
  <2>1. addr[h] = r /\ \E s \in Slot, v \in Reservation \cup {None} :
                          WrittenFor(h, BACKUP_MAP[r], s, v)
    BY <1>2, <1>4, <1>7, ApplyWrites
  <2>2. \A x \in Thread : pc'[x] = "ok" /\ pc[x] # "ok" => x = Applier(th)
    BY <1>5, <1>7 DEF ApplyReplication
  <2>3. WorkOf(h, r, BACKUP_MAP[r], th)
    BY <1>3, <1>4, <2>1, <2>2 DEF WorkOf
  <2> QED BY <1>2, <1>3, <2>3
<1>8. CASE /\ UNCHANGED reservations
           /\ pc'[q] # "ok"
           /\ \A x \in Thread \ {q} : pc'[x] = "ok" => pc[x] = "ok"
  <2>1. WorkOf(h, r, addr[h], th)
    BY <1>3, <1>4, <1>8 DEF WorkOf
  <2> QED BY <1>2, <2>1
<1>9. \A x \in Thread \ {q} : pc'[x] = "ok" => pc[x] = "ok"
  <2>1. ASSUME NEW x \in Thread, x # q, ~(SendReplication(q) /\ x = Applier(q))
        PROVE  pc'[x] = pc[x]
    BY <2>1, OthersUntouched DEF Orderly
  <2>2. ASSUME SendReplication(q) PROVE pc'[Applier(q)] # "ok"
    BY <2>2, ThreadShape DEF SendReplication, Orderly, Typed, TypeData
  <2> QED BY <2>1, <2>2
<1>10. CASE q = th /\ ~(CommitBooking(q) \/ CommitCancellation(q))
  <2>1. ASSUME SendReplication(q) \/ ReplicationAcked(q)
        PROVE  UNCHANGED reservations /\ pc'[q] # "ok"
    BY <1>3, <1>10, <2>1 DEF SendReplication, ReplicationAcked, Goto, dataVars, Orderly,
                             Typed, TypeData
  <2>2. ASSUME ReplicationFailed(q)
        PROVE  UNCHANGED reservations /\ pc'[q] # "ok"
    BY <2>2 DEF ReplicationFailed, FailWrite, ReleaseAndAnswer, Goto, Orderly, Typed, TypeData
  <2>3. UNCHANGED reservations /\ pc'[q] # "ok"
    BY <1>2, <1>10, <2>1, <2>2, ServeSteps DEF Orderly
  <2> QED BY <1>8, <1>9, <2>3
<1>11. CASE q = Applier(th) /\ ~ApplyReplication(q)
  <2>1. UNCHANGED reservations /\ pc'[q] # "ok"
    BY <1>3, <1>11, ApplySteps DEF AcquireLock, Goto, Orderly, Typed, TypeData
  <2> QED BY <1>8, <1>9, <2>1
<1> QED BY <1>4, <1>6, <1>7, <1>10, <1>11

-------------------------------------------------------------------------------
(* What is owed to the bookings answered with 200.                         *)

(* A booking that its threads have made is where they made it. *)
Copied ==
    \A h \in Http, r \in Restaurant, s \in Slot, n \in Node :
        /\ stage[h] = "wait" /\ asked[h].action = "book"
        /\ asked[h].restaurant = r /\ SlotOf(asked[h]) = s /\ addr[h] = n
        => /\ pc[Applier(Handler(h))] = "ok" => HeldBy(h, BACKUP_MAP[r], s)
           /\ pc[Handler(h)] = "ok" => HeldBy(h, n, s)

(* While a cancellation is under way nothing is owed to its slot's bookings. *)
CancelOwesNothing ==
    \A h \in Http, r \in Restaurant, s \in Slot :
        /\ Busy(h) /\ asked[h].action = "cancel"
        /\ asked[h].restaurant = r /\ SlotOf(asked[h]) = s
        => confirmed[r][s] = {}

(* The primary r is, or may yet be, asked. *)
Used(r) ==
    \/ running[r] /\ service_map[r] = r
    \/ \E h \in Http : addr[h] = r /\ (stage[h] = "wait" \/ (stage[h] = "send" /\ running[r]))

(* The backup always has it, and the primary as long as it may be asked. *)
Owed ==
    \A r \in Restaurant, s \in Slot : \A h \in confirmed[r][s] :
        HeldBy(h, BACKUP_MAP[r], s) /\ (Used(r) => HeldBy(h, r, s))

LEMMA CopiedStep ==
  ASSUME Patient, Orderly, Copied, [FailoverNext]_vars
  PROVE  Copied'
<1> USE DEF Orderly
<1> SUFFICES ASSUME NEW h \in Http, NEW r \in Restaurant, NEW s \in Slot, NEW n \in Node,
                    stage'[h] = "wait", asked'[h].action = "book",
                    asked'[h].restaurant = r, SlotOf(asked'[h]) = s, addr'[h] = n
             PROVE  /\ pc'[Applier(Handler(h))'] = "ok" => HeldBy(h, BACKUP_MAP[r], s)'
                    /\ pc'[Handler(h)'] = "ok" => HeldBy(h, n, s)'
  BY DEF Copied, SlotOf, Applier
<1> DEFINE th == Handler(h)
<1>1. /\ th \in Thread /\ th[2] = "serve" /\ Applier(th) \in Thread /\ Applier(th) # th
      /\ th = <<<<h, attempt[h]>>, "serve">>
  BY HandlerThread, Pairs DEF Handler
<1>2. ASSUME attempt'[h] = attempt[h]
      PROVE  Handler(h)' = th /\ Applier(Handler(h))' = Applier(th)
  BY <1>2 DEF Handler, Applier
<1> HIDE DEF th
<1>3. CASE Send(h)
  <2>1. /\ pc[th] = "idle" /\ attempt' = attempt
        /\ pc' = [pc EXCEPT ![th] = "acquire"]
    BY <1>3 DEF Send, HandleClient, Goto, th
  <2>2. pc[Applier(th)] # "ok"
    BY <1>1, <2>1 DEF Awaited, AwaitedBy
  <2>3. pc'[th] # "ok" /\ pc'[Applier(th)] # "ok"
    BY <1>1, <2>1, <2>2 DEF Typed, TypeData
  <2> QED BY <1>2, <2>1, <2>3
<1>4. CASE ~Send(h)
  <2>1. /\ stage[h] = "wait" /\ asked'[h] = asked[h] /\ addr'[h] = addr[h]
        /\ attempt'[h] = attempt[h]
    <3>1. ~ \E q \in Asked : Route(h, q)
      BY DEF Route, GatewayInv
    <3>2. ~GatewayStep(h)
      BY <1>4, OwnStep
    <3> QED BY <3>1, <3>2, RequestKept
  <2>2. /\ pc[Applier(th)] = "ok" => HeldBy(h, BACKUP_MAP[r], s)
        /\ pc[th] = "ok" => HeldBy(h, n, s)
    BY <2>1 DEF Copied, th
  <2>3. SUFFICES /\ pc'[Applier(th)] = "ok" => HeldBy(h, BACKUP_MAP[r], s)'
                 /\ pc'[th] = "ok" => HeldBy(h, n, s)'
    BY <1>2, <2>1
  <2>4. CASE UNCHANGED <<pc, reservations>>
    BY <2>2, <2>4 DEF HeldBy
  <2>5. ASSUME NEW q \in Thread, ThreadRuns(q)
        PROVE  /\ pc'[Applier(th)] = "ok" => HeldBy(h, BACKUP_MAP[r], s)'
               /\ pc'[th] = "ok" => HeldBy(h, n, s)'
    <3>1. PICK g \in Http, p \in Restaurant, m \in Node, t \in Thread : WorkOf(g, p, m, t)
      BY <2>5, WorkSteps DEF ThreadRuns
    <3>2. g = h /\ p = r /\ t = th
      BY <2>1, <3>1 DEF WorkOf, Single, Busy, th
    <3>3. CASE UNCHANGED reservations /\ \A x \in Thread : pc'[x] = "ok" => pc[x] = "ok"
      BY <1>1, <2>2, <3>3 DEF HeldBy
    <3>4. ASSUME NEW v \in Reservation \cup {None}, NEW z \in Slot, WrittenFor(g, m, z, v)
          PROVE  /\ pc'[Applier(th)] = "ok" => HeldBy(h, BACKUP_MAP[r], s)'
                 /\ pc'[th] = "ok" => HeldBy(h, n, s)'
      <4>1. /\ z = s /\ v # None /\ v.customer = h
            /\ reservations' = [reservations EXCEPT ![m][s] = v]
        BY <2>1, <3>2, <3>4 DEF WrittenFor
      <4>2. HeldBy(h, m, s)' /\ \A k \in Node : HeldBy(h, k, s) => HeldBy(h, k, s)'
        BY <4>1 DEF HeldBy, Typed, TypeData
      <4>3. BACKUP_MAP[r] \in Node
        BY MapFacts
      <4>4. /\ pc'[th] = "ok" /\ pc[th] # "ok" => m = n
            /\ pc'[Applier(th)] = "ok" /\ pc[Applier(th)] # "ok" => m = BACKUP_MAP[r]
        BY <1>1, <2>1, <3>1, <3>2 DEF WorkOf
      <4>5. n \in Node
        OBVIOUS
      <4> QED BY <2>2, <4>2, <4>3, <4>4, <4>5
    <3> QED BY <3>1, <3>3, <3>4 DEF WorkOf
  <2>6. ASSUME NEW g \in Http, GatewayStep(g) PROVE FALSE
    BY <1>4, <2>1, <2>6, OwnStep DEF Single, Busy
  <2>7. ASSUME NEW g \in Http, NEW q \in Asked, Route(g, q) PROVE FALSE
    BY <2>1, <2>7 DEF Route
  <2> QED BY <2>4, <2>5, <2>6, <2>7, FailoverSteps
          DEF UpdateServiceMap, Background, serviceVars, dataVars, threadVars
<1> QED BY <1>3, <1>4

(* What is owed to is answered for, and only a routing takes it back.      *)
LEMMA ConfirmedMoves ==
  ASSUME [FailoverNext]_vars
  PROVE  \/ confirmed' = confirmed
         \/ \E h \in Http, q \in Asked : Route(h, q)
         \/ \E h \in Http : Respond(h)
<1>1. ASSUME NEW h \in Http, GatewayStep(h), ~Respond(h) PROVE UNCHANGED confirmed
  BY <1>1 DEF GatewayStep, Send, AnswerRead, RetryOnBackup, GiveUp
<1> QED BY <1>1, FailoverSteps DEF Background, ThreadRuns, UpdateServiceMap, gatewayVars

LEMMA RouteTakesBack ==
  ASSUME Orderly, NEW g \in Http, NEW q \in Asked, Route(g, q),
         NEW r \in Restaurant, NEW s \in Slot
  PROVE  /\ confirmed'[r][s] \subseteq confirmed[r][s]
         /\ q.action = "cancel" /\ q.restaurant = r /\ SlotOf(q) = s => confirmed'[r][s] = {}
<1> DEFINE p == q.restaurant
           z == SlotOf(q)
<1>0. p \in Restaurant
  BY DEF Asked
<1>1. \/ confirmed' = confirmed /\ (q.action = "cancel" => z \notin Slot)
      \/ confirmed' = [confirmed EXCEPT ![p] = [confirmed[p] EXCEPT ![z] = {}]]
  BY DEF Route
<1> HIDE DEF p, z
<1>2. /\ confirmed'[r][s] \subseteq confirmed[r][s]
      /\ q.action = "cancel" /\ p = r /\ z = s => confirmed'[r][s] = {}
  BY <1>0, <1>1 DEF Orderly
<1> QED BY <1>2 DEF p, z

LEMMA CancelStep ==
  ASSUME Orderly, CancelOwesNothing, [FailoverNext]_vars
  PROVE  CancelOwesNothing'
<1> USE DEF Orderly
<1> SUFFICES ASSUME NEW h \in Http, NEW r \in Restaurant, NEW s \in Slot,
                    Busy(h)', asked'[h].action = "cancel",
                    asked'[h].restaurant = r, SlotOf(asked'[h]) = s
             PROVE  confirmed'[r][s] = {}
  BY DEF CancelOwesNothing, SlotOf
<1>1. CASE \E q \in Asked : Route(h, q)
  <2>1. PICK q \in Asked : Route(h, q)
    BY <1>1
  <2>2. asked'[h] = q
    BY <2>1 DEF Route, GatewayInv
  <2> QED BY <2>1, <2>2, RouteTakesBack
<1>2. CASE ~ \E q \in Asked : Route(h, q)
  <2>1. Busy(h) /\ asked'[h] = asked[h]
    BY <1>2, RequestKept, OwnStep DEF Busy
  <2>2. confirmed[r][s] = {}
    BY <2>1 DEF CancelOwesNothing
  <2>3. ASSUME NEW g \in Http, Respond(g) PROVE FALSE
    <3>1. g = h
      BY <2>1, <2>3 DEF Single, Busy, Respond
    <3> QED BY <2>3, <3>1 DEF Respond, Answered, Busy, GatewayInv
  <2>4. ASSUME NEW g \in Http, NEW q \in Asked, Route(g, q) PROVE FALSE
    BY <2>1, <2>4 DEF Busy, Route
  <2> QED BY <2>2, <2>3, <2>4, ConfirmedMoves
<1> QED BY <1>1, <1>2

(* A primary that is not asked is never asked again. *)
LEMMA UsedStep ==
  ASSUME Orderly, [FailoverNext]_vars, NEW r \in Restaurant, Used(r)'
  PROVE  Used(r)
<1> USE DEF Orderly
<1>1. /\ r \in Node
      /\ running'[r] => running[r]
      /\ service_map'[r] = r => service_map[r] = r
  BY NothingReturns, MapFacts
<1>2. CASE running'[r] /\ service_map'[r] = r
  BY <1>1, <1>2 DEF Used
<1>3. ASSUME NEW h \in Http, addr'[h] = r,
             stage'[h] = "wait" \/ (stage'[h] = "send" /\ running'[r])
      PROVE  Used(r)
  <2>1. CASE \E q \in Asked : Route(h, q)
    <3>1. PICK q \in Asked : Route(h, q)
      BY <2>1
    <3>2. q.restaurant \in Restaurant /\ service_map[q.restaurant] = r
      BY <1>3, <3>1 DEF Route, GatewayInv, Asked
    <3>3. service_map[r] = r
      BY <3>2, MapFacts DEF PromotionInv
    <3>4. stage'[h] = "send"
      BY <3>1 DEF Route, GatewayInv
    <3> QED BY <1>1, <1>3, <3>3, <3>4 DEF Used
  <2>2. CASE Send(h)
    <3>1. stage[h] = "send" /\ addr[h] = r /\ running[r]
      BY <1>3, <2>2 DEF Send, HandleClient, ServiceMessage
    <3> QED BY <3>1 DEF Used
  <2>3. CASE RetryOnBackup(h)
    <3>1. addr'[h] = BACKUP_MAP[addr[h]] /\ addr[h] \in Restaurant
      BY <2>3 DEF RetryOnBackup, GatewayInv, Restaurant
    <3> QED BY <1>3, <3>1, MapFacts
  <2>4. CASE AnswerRead(h) \/ GiveUp(h) \/ Respond(h)
    <3>1. stage'[h] \notin {"wait", "send"}
      BY <2>4 DEF AnswerRead, GiveUp, Respond, Answered, GatewayInv
    <3> QED BY <1>3, <3>1
  <2>5. CASE stage'[h] = stage[h] /\ addr'[h] = addr[h]
    BY <1>1, <1>3, <2>5 DEF Used
  <2> QED BY <2>1, <2>2, <2>3, <2>4, <2>5, RequestKept DEF GatewayStep
<1> QED BY <1>2, <1>3 DEF Used

(* A slot that something is owed to is not written: a booking under way    *)
(* would have found it taken, on whichever process it was sent to.         *)
LEMMA OwedUntouched ==
  ASSUME Orderly, CancelOwesNothing, Owed, NEW q \in Thread, ThreadStep(q),
         NEW r \in Restaurant, NEW s \in Slot, confirmed[r][s] # {},
         NEW n \in {r, BACKUP_MAP[r]}
  PROVE  reservations'[n][s] = reservations[n][s]
<1> USE DEF Orderly
<1>1. PICK g \in Http, p \in Restaurant, m \in Node, t \in Thread : WorkOf(g, p, m, t)
  BY WorkSteps
<1>2. CASE UNCHANGED reservations
  BY <1>2
<1>3. ASSUME NEW z \in Slot, NEW v \in Reservation \cup {None}, WrittenFor(g, m, z, v),
             m = addr[g] \/ (addr[g] = p /\ m = BACKUP_MAP[p])
      PROVE  reservations'[n][s] = reservations[n][s]
  <2>1. reservations' = [reservations EXCEPT ![m][z] = v]
    BY <1>3 DEF WrittenFor
  <2>2. addr[g] \in {p, BACKUP_MAP[p]} /\ stage[g] = "wait" /\ asked[g].restaurant = p
    BY <1>1 DEF Routed, OnItsWay, WorkOf
  <2>3. n \in Node
    BY MapFacts
  <2>4. CASE m # n \/ z # s
    BY <2>1, <2>3, <2>4 DEF Typed, TypeData
  <2>5. CASE m = n /\ z = s
    <3>1. p = r
      BY <1>3, <2>2, <2>5, MapFacts
    <3>2. asked[g].action # "cancel"
      BY <1>3, <2>2, <2>5, <3>1 DEF CancelOwesNothing, Busy, WrittenFor
    <3>3. reservations[addr[g]][s] = None
      BY <1>3, <2>5, <3>2 DEF WrittenFor
    <3>4. addr[g] = r => Used(r)
      BY <2>2 DEF Used
    <3> QED BY <2>2, <3>1, <3>3, <3>4 DEF Owed, HeldBy
  <2> QED BY <2>4, <2>5
<1> QED BY <1>1, <1>2, <1>3 DEF WorkOf

LEMMA OwedStep ==
  ASSUME Orderly, Copied, CancelOwesNothing, Owed, [FailoverNext]_vars
  PROVE  Owed'
<1> USE DEF Orderly
<1> SUFFICES ASSUME NEW r \in Restaurant, NEW s \in Slot, NEW h \in confirmed'[r][s]
             PROVE  HeldBy(h, BACKUP_MAP[r], s)' /\ (Used(r)' => HeldBy(h, r, s)')
  BY DEF Owed
<1>1. ASSUME h \in confirmed[r][s],
             \A n \in {r, BACKUP_MAP[r]} : reservations'[n][s] = reservations[n][s]
      PROVE  HeldBy(h, BACKUP_MAP[r], s)' /\ (Used(r)' => HeldBy(h, r, s)')
  BY <1>1, UsedStep DEF Owed, HeldBy
<1>2. ASSUME NEW g \in Http, Respond(g), h \notin confirmed[r][s]
      PROVE  HeldBy(h, BACKUP_MAP[r], s)' /\ (Used(r)' => HeldBy(h, r, s)')
  <2> DEFINE p == asked[g].restaurant
             z == SlotOf(asked[g])
             th == Handler(g)
  <2>1. /\ stage[g] = "wait" /\ pc[th] \in Answered /\ stage' = [stage EXCEPT ![g] = pc[th]]
        /\ UNCHANGED <<reservations, service_map, running, addr>>
        /\ \/ confirmed' = confirmed
           \/ /\ confirmed' = [confirmed EXCEPT ![p] = [confirmed[p] EXCEPT ![z] = @ \cup {g}]]
              /\ pc[th] = "ok" /\ asked[g].action = "book"
    BY <1>2 DEF Respond, serviceVars, dataVars, roleVars, promotionVars
  <2>2. p \in Restaurant /\ th \in Thread
    BY <2>1, HandlerThread DEF GatewayInv, Asked
  <2> HIDE DEF p, z
  <2>3. /\ h = g /\ p = r /\ z = s /\ pc[th] = "ok" /\ asked[g].action = "book"
    BY <1>2, <2>1, <2>2
  <2>4. asked[g].restaurant = r /\ SlotOf(asked[g]) = s
    BY <2>3 DEF p, z
  <2>5. /\ addr[g] \in {r, BACKUP_MAP[r]} /\ addr[g] \in Node
        /\ HeldBy(g, addr[g], s)
        /\ pc[Applier(th)] = "ok" => HeldBy(g, BACKUP_MAP[r], s)
    <3>1. addr[g] \in {r, BACKUP_MAP[r]} /\ addr[g] \in Node
      BY <2>1, <2>4 DEF Routed, OnItsWay, GatewayInv
    <3> QED BY <2>1, <2>3, <2>4, <3>1 DEF Copied
  <2>6. CASE addr[g] = r
    <3>1. msg[th] # None /\ At(th) = r
      BY <2>1, <2>2, <2>3, <2>4, <2>6, InHand
    <3>2. pc[Applier(th)] = "ok"
      BY <2>2, <2>3, <3>1 DEF AckInv, Restaurant
    <3> QED BY <2>1, <2>3, <2>5, <2>6, <3>2 DEF HeldBy
  <2>7. CASE addr[g] = BACKUP_MAP[r]
    <3>1. service_map[r] = BACKUP_MAP[r] \/ ~running[r]
      BY <2>1, <2>4, <2>7 DEF Routed, OnItsWay
    <3>2. \A k \in Http : stage'[k] \notin {"wait", "send"}
      BY <2>1, <2>3 DEF GatewayInv, Single, Busy
    <3>3. ~Used(r)'
      BY <2>1, <3>1, <3>2, MapFacts DEF Used
    <3> QED BY <2>1, <2>3, <2>5, <2>7, <3>3 DEF HeldBy
  <2> QED BY <2>5, <2>6, <2>7
<1>3. ASSUME NEW g \in Http, NEW q \in Asked, Route(g, q)
      PROVE  h \in confirmed[r][s] /\ UNCHANGED reservations
  BY <1>3, RouteTakesBack DEF Route, serviceVars, dataVars
<1>4. ASSUME NEW q \in Thread, ThreadRuns(q)
      PROVE  /\ h \in confirmed[r][s]
             /\ \A n \in {r, BACKUP_MAP[r]} : reservations'[n][s] = reservations[n][s]
  <2>1. h \in confirmed[r][s]
    BY <1>4 DEF ThreadRuns, gatewayVars
  <2> QED BY <1>4, <2>1, OwedUntouched DEF ThreadRuns
<1>5. ASSUME NEW g \in Http, GatewayStep(g) PROVE UNCHANGED reservations
  BY <1>5 DEF GatewayStep, Send, HandleClient, AnswerRead, RetryOnBackup, GiveUp, Respond,
              serviceVars, dataVars
<1>6. (\E q \in Thread : ThreadRuns(q)) \/ UNCHANGED reservations
  BY <1>3, <1>5, FailoverSteps DEF UpdateServiceMap, Background, serviceVars, dataVars
<1>7. CASE h \in confirmed[r][s]
  BY <1>1, <1>4, <1>6, <1>7
<1>8. CASE h \notin confirmed[r][s]
  BY <1>2, <1>3, <1>8, ConfirmedMoves
<1> QED BY <1>7, <1>8

Owing == Orderly /\ Copied /\ CancelOwesNothing /\ Owed

LEMMA OwingInit == FailoverInit =>
                     Single /\ Handled /\ Awaited /\ Copied /\ CancelOwesNothing /\ Owed
<1> SUFFICES ASSUME FailoverInit
             PROVE  Single /\ Handled /\ Awaited /\ Copied /\ CancelOwesNothing /\ Owed
  OBVIOUS
<1>1. /\ \A h \in Http : stage[h] = "new"
      /\ \A r \in Restaurant, s \in Slot : confirmed[r][s] = {}
      /\ \A th \in Thread : pc[th] = "idle"
  BY DEF FailoverInit, Init
<1>2. Single /\ Copied /\ CancelOwesNothing /\ Owed
  BY <1>1 DEF Single, Busy, Copied, CancelOwesNothing, Owed
<1>3. Handled
  BY <1>1, AttemptThread DEF Handled, HandledAs
<1>4. Awaited
  BY <1>1, ThreadShape DEF Awaited, AwaitedBy
<1> QED BY <1>2, <1>3, <1>4

LEMMA OwingAlways ==
  ASSUME Patient
  PROVE  FailoverSpec => []Owing
<1> DEFINE Services == Typed /\ AckInv /\ OriginInv /\ InHandForAsker /\ DecisionStillValid
           Bookings == confirmed \in [Restaurant -> [Slot -> SUBSET Http]]
           Gateway == /\ Bookings /\ Single /\ Handled /\ Awaited
                      /\ Copied /\ CancelOwesNothing /\ Owed
<1>1. FailoverSpec => []Services
  BY ServicesUnderGateway, AgreementAlways, LedgerAlways, PTL DEF AgreementInv, LedgerInv
<1>2. FailoverSpec => [](GatewayInv /\ PromotionInv /\ Routed)
  BY RoutedAlways, PTL DEF Patient
<1>3. FailoverInit => Gateway
  <2>1. ASSUME FailoverInit PROVE Bookings
    <3>1. confirmed = [r \in Restaurant |-> [s \in Slot |-> {}]]
      BY <2>1 DEF FailoverInit
    <3> QED BY <3>1
  <2> QED BY <2>1, OwingInit
<1>4. /\ Services /\ GatewayInv /\ PromotionInv /\ Routed /\ Gateway
      /\ [FailoverNext]_vars
      => Gateway'
  BY ConfirmedStep, SingleStep, HandledStep, AwaitedStep, ServicesStep, CopiedStep,
     CancelStep, OwedStep DEF Orderly
<1>5. Services /\ GatewayInv /\ PromotionInv /\ Routed /\ Gateway => Owing
  BY DEF Owing, Orderly
<1> HIDE DEF Services, Gateway
<1> QED BY <1>1, <1>2, <1>3, <1>4, <1>5, PTL DEF FailoverSpec

(* Where no timeout expires on a service that lives, two bookings of one   *)
(* slot are never both answered with 200 with no cancellation of it asked  *)
(* for in between, though the primary may stop, an accept loop or a sender *)
(* fail alone, and the backup stand in or be promoted, early or not, at    *)
(* any moment (README.md:65-67).  No process dies here.                    *)
THEOREM NobodyDoubleBooked ==
  ASSUME Patient
  PROVE  FailoverSpec => []NoDoubleBooking
<1>1. Owing => NoDoubleBooking
  <2> SUFFICES ASSUME Owing, NEW r \in Restaurant, NEW s \in Slot
               PROVE  Cardinality(confirmed[r][s]) <= 1
    BY DEF NoDoubleBooking
  <2>1. \A g, h \in confirmed[r][s] : g = h
    BY DEF Owing, Owed, HeldBy
  <2>2. CASE confirmed[r][s] = {}
    BY <2>2, FS_EmptySet
  <2>3. ASSUME NEW h \in confirmed[r][s] PROVE Cardinality(confirmed[r][s]) <= 1
    <3>1. confirmed[r][s] = {h}
      BY <2>1, <2>3
    <3>2. Cardinality({h}) = 1
      BY FS_Singleton, Zenon
    <3> QED BY <3>1, <3>2
  <2>4. CASE \E h : h \in confirmed[r][s]
    BY <2>3, <2>4
  <2> QED BY <2>2, <2>4
<1> QED BY <1>1, OwingAlways, PTL

(* Under the same condition a booking answered with 200 is held by the     *)
(* process that serves the restaurant next (backup.py:41-60,               *)
(* gateway.py:51-66).                                                      *)
THEOREM ConfirmedAreServed ==
  ASSUME Patient
  PROVE  FailoverSpec => []ConfirmedServed
<1>1. Owing => ConfirmedServed
  <2> SUFFICES ASSUME Owing, NEW r \in Restaurant, NEW s \in Slot,
                      NEW h \in confirmed[r][s]
               PROVE  HeldBy(h, Serving(r), s)
    BY DEF ConfirmedServed
  <2>1. HeldBy(h, BACKUP_MAP[r], s) /\ (Used(r) => HeldBy(h, r, s))
    BY DEF Owing, Owed
  <2>2. service_map[r] \in {r, BACKUP_MAP[r]}
    BY DEF Owing, Orderly, PromotionInv
  <2>3. Serving(r) = BACKUP_MAP[r] \/ (Serving(r) = r /\ Used(r))
    BY <2>2, MapFacts DEF Serving, Used, Restaurant
  <2> QED BY <2>1, <2>3
<1> QED BY <1>1, OwingAlways, PTL

(* And a listing that a service answered with status ok shows every such   *)
(* booking, wherever it was read (gateway.py:51-66,149-159).               *)
THEOREM ReadsAreCurrent ==
  ASSUME Patient
  PROVE  FailoverSpec => ReadsSeeConfirmed
<1> DEFINE Seen == \A h \in Http :
                     stage[h] = "send" /\ stage'[h] = "ok" =>
                         \A s \in Slot : \A g \in confirmed[asked[h].restaurant][s] :
                             HeldBy(g, addr[h], s)
<1>1. Owing /\ [FailoverNext]_vars => [Seen]_vars
  <2> SUFFICES ASSUME Owing, FailoverNext, NEW h \in Http,
                      stage[h] = "send", stage'[h] = "ok", NEW s \in Slot,
                      NEW g \in confirmed[asked[h].restaurant][s]
               PROVE  HeldBy(g, addr[h], s)
    OBVIOUS
  <2> USE DEF Owing, Orderly
  <2> DEFINE r == asked[h].restaurant
  <2>1. r \in Restaurant
    BY DEF GatewayInv, Asked
  <2>2. AnswerRead(h)
    <3>1. ~ \E q \in Asked : Route(h, q)
      BY DEF Route
    <3>2. GatewayStep(h)
      BY <3>1, RequestKept
    <3> QED BY <3>2 DEF GatewayStep, Send, RetryOnBackup, GiveUp, Respond, GatewayInv
  <2>3. addr[h] \in {r, BACKUP_MAP[r]}
    BY <2>1 DEF Routed, OnItsWay
  <2>4. addr[h] = r => Used(r)
    BY <2>2 DEF Used, AnswerRead
  <2> QED BY <2>1, <2>3, <2>4 DEF Owed
<1> QED BY <1>1, OwingAlways, PTL DEF FailoverSpec, ReadsSeeConfirmed

===============================================================================
