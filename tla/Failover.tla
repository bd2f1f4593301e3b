------------------------------- MODULE Failover -------------------------------
(***************************************************************************)
(* The gateway and the promotion of backups, over the restaurant services. *)
(*                                                                         *)
(* The gateway is a single-threaded HTTP server: it looks the restaurant's *)
(* address up in RESTAURANT_SERVICE_MAP, tries that address, and if the    *)
(* attempt ends in "Service unavailable" tries the backup of that port.    *)
(* The attempt it gives up may be going on in a thread of the service.     *)
(* The watchdog of a backup promotes its service and then redirects the    *)
(* map, in two steps that the gateway may fall between.                    *)
(*                                                                         *)
(* Restaurants are named by the port of the primary they are configured    *)
(* with.  Every HTTP request books under a name of its own, so that a      *)
(* reservation can be traced to the request that made it.                  *)
(*                                                                         *)
(* The map is one dictionary shared by the gateway and the backups, so all *)
(* of this is one process (run_all.py), in which a single service ends by  *)
(* stop() or by an exception in its accept loop and its threads go on:     *)
(* "crash" is not among the Faults here.  Two more are:                    *)
(*   "gateway timeout"  PRIMARY_TIMEOUT or BACKUP_TIMEOUT expires in the   *)
(*                      gateway though the service lives;                  *)
(*   "suspect"          pings may be too slow for the watchdog's timeout.  *)
(***************************************************************************)
EXTENDS ReservationService, FiniteSets

CONSTANT Http     \* the HTTP requests that are ever made

Attempt == {"first", "retry"}
Restaurant == DOMAIN BACKUP_MAP

ASSUME GatewayAssumption ==
    /\ Connection = Http \X Attempt
    /\ Customer = Http
    /\ "crash" \notin Faults

Asked ==
    [restaurant : Restaurant, action : {"book", "cancel"}, table : TableArg,
     time : Time]
    \cup [restaurant : Restaurant, action : {"list"}]

ASSUME NoneIsNoRequest == None \notin Asked

VARIABLES
    service_map,  \* RESTAURANT_SERVICE_MAP: [Restaurant -> Node]
    pinging,      \* [Restaurant -> BOOLEAN], the primary's sender is alive
    watchdog,     \* [Restaurant -> state of the watchdog at its backup]
    stage,        \* [Http -> where the gateway is with the request]
    asked,        \* [Http -> the request, or None]
    addr,         \* [Http -> the address looked up, then tried, or None]
    attempt,      \* [Http -> which attempt it is]
    confirmed     \* [Restaurant -> [Slot -> bookings answered with 200 since
                  \*  a cancellation of that slot was last asked for]]

gatewayVars == <<stage, asked, addr, attempt, confirmed>>
promotionVars == <<service_map, pinging, watchdog>>
vars == <<serviceVars, promotionVars, gatewayVars>>

Watchdog == {"no ping yet", "watching", "fired", "promoted"}
Stage == {"new", "send", "wait", "ok", "error", "unavailable"}

SlotOf(q) == <<q.table, q.time>>
Handler(h) == <<<<h, attempt[h]>>, "serve">>

-------------------------------------------------------------------------------
FailoverInit ==
    /\ Init
    /\ service_map = [r \in Restaurant |-> r]
    /\ pinging = [r \in Restaurant |-> TRUE]
    /\ watchdog = [r \in Restaurant |-> "no ping yet"]
    /\ stage = [h \in Http |-> "new"]
    /\ asked = [h \in Http |-> None]
    /\ addr = [h \in Http |-> None]
    /\ attempt = [h \in Http |-> "first"]
    /\ confirmed = [r \in Restaurant |-> [s \in Slot |-> {}]]

(* A cancellation that has been asked for may take effect whatever its     *)
(* answer: from then on nothing is owed to the earlier bookings.           *)
Route(h, q) ==
    /\ stage[h] = "new"
    /\ \A g \in Http : stage[g] \notin {"send", "wait"}
    /\ stage' = [stage EXCEPT ![h] = "send"]
    /\ asked' = [asked EXCEPT ![h] = q]
    /\ addr' = [addr EXCEPT ![h] = service_map[q.restaurant]]
    /\ confirmed' =
         IF q.action = "cancel" /\ SlotOf(q) \in Slot
         THEN [confirmed EXCEPT ![q.restaurant][SlotOf(q)] = {}]
         ELSE confirmed
    /\ UNCHANGED <<attempt, serviceVars, promotionVars>>

ServiceMessage(h) ==
    [node |-> addr[h], action |-> asked[h].action, table |-> asked[h].table,
     time |-> asked[h].time,
     customer |-> IF asked[h].action = "book" THEN h ELSE None]

(* sendToService: the connection is accepted and the message sent. *)
Send(h) ==
    /\ stage[h] = "send"
    /\ asked[h].action # "list"
    /\ HandleClient(Handler(h), ServiceMessage(h))
    /\ stage' = [stage EXCEPT ![h] = "wait"]
    /\ UNCHANGED <<asked, addr, attempt, confirmed, promotionVars>>

(* Reads take no lock.  One that iterates over the dictionary while a      *)
(* thread writes may be answered with an error (module Listing).           *)
AnswerRead(h) ==
    /\ stage[h] = "send"
    /\ asked[h].action = "list"
    /\ running[addr[h]]
    /\ \/ stage' = [stage EXCEPT ![h] = "ok"]
       \/ /\ \E th \in Thread : pc[th] \in InCriticalSection /\ At(th) = addr[h]
          /\ stage' = [stage EXCEPT ![h] = "error"]
    /\ UNCHANGED <<asked, addr, attempt, confirmed, serviceVars, promotionVars>>

(* The connection is refused or reset, or a timeout expires. *)
AttemptFails(h) ==
    \/ stage[h] = "send" /\ ~running[addr[h]]
    \/ stage[h] \in {"send", "wait"} /\ "gateway timeout" \in Faults

(* sendToServiceWithFailover: one more attempt, on the backup's port.      *)
(* Nobody has asked whether that backup has been promoted.                 *)
RetryOnBackup(h) ==
    /\ AttemptFails(h)
    /\ attempt[h] = "first"
    /\ addr[h] \in DOMAIN BACKUP_MAP
    /\ attempt' = [attempt EXCEPT ![h] = "retry"]
    /\ addr' = [addr EXCEPT ![h] = BACKUP_MAP[@]]
    /\ stage' = [stage EXCEPT ![h] = "send"]
    /\ UNCHANGED <<asked, confirmed, serviceVars, promotionVars>>

\* mutant: the first failure is the answer
NoRetryLeft(h) == TRUE

LastAttempt(h) == attempt[h] = "retry" \/ addr[h] \notin DOMAIN BACKUP_MAP

(* "Service unavailable" becomes the HTTP response. *)
GiveUp(h) ==
    /\ AttemptFails(h)
    /\ LastAttempt(h)
    /\ stage' = [stage EXCEPT ![h] = "unavailable"]
    /\ UNCHANGED <<asked, addr, attempt, confirmed, serviceVars, promotionVars>>

(* The service's answer becomes the HTTP response. *)
Respond(h) ==
    /\ stage[h] = "wait"
    /\ pc[Handler(h)] \in Answered
    /\ stage' = [stage EXCEPT ![h] = pc[Handler(h)]]
    /\ confirmed' =
         IF pc[Handler(h)] = "ok" /\ asked[h].action = "book"
         THEN [confirmed EXCEPT ![asked[h].restaurant][SlotOf(asked[h])] = @ \cup {h}]
         ELSE confirmed
    /\ UNCHANGED <<asked, addr, attempt, serviceVars, promotionVars>>

-------------------------------------------------------------------------------
(* The watchdog is armed by the first ping (heartbeat.py:59), which may    *)
(* still be on its way when either end has stopped.                        *)
FirstPing(r) ==
    /\ watchdog[r] = "no ping yet"
    /\ watchdog' = [watchdog EXCEPT ![r] = "watching"]
    /\ UNCHANGED <<serviceVars, service_map, pinging, gatewayVars>>

(* What module Heartbeat is shown to promise. *)
Detector(r) == INSTANCE FailureDetector WITH
    pinging <- pinging[r],
    listening <- running[BACKUP_MAP[r]],
    slow <- "suspect" \in Faults,
    watchdog <- watchdog[r]

Promote(r) ==
    /\ watchdog[r] = "watching"
    /\ Detector(r)!MayFire
    /\ PromoteToPrimary(BACKUP_MAP[r])
    /\ watchdog' = [watchdog EXCEPT ![r] = "fired"]
    /\ UNCHANGED <<service_map, pinging, gatewayVars>>

\* mutant: the entry looked for is the backup's own, which the map never has
RedirectedFromBackup(port, r) == IF port = BACKUP_MAP[r] THEN BACKUP_MAP[r] ELSE port

\* mutant: the map is given the port that the promoted backup replicates to
RedirectedToReplica(port, r) == IF port = r THEN replicator[BACKUP_MAP[r]] ELSE port

Redirected(port, r) == IF port = r THEN BACKUP_MAP[r] ELSE port

\* mutant: the map is updated first, the service promoted afterwards
PromotedOrNot(r) == watchdog[r] \in {"watching", "fired"}

Promoted(r) == watchdog[r] = "fired"

UpdateServiceMap(r) ==
    /\ Promoted(r)
    /\ service_map' = [q \in Restaurant |-> Redirected(service_map[q], r)]
    /\ watchdog' = [watchdog EXCEPT ![r] = "promoted"]
    /\ UNCHANGED <<serviceVars, pinging, gatewayVars>>

-------------------------------------------------------------------------------
(* stop() ends the accept loop and the pings. *)
StopService(n) ==
    /\ Stop(n)
    /\ pinging' = [r \in Restaurant |-> pinging[r] /\ r # n]
    /\ UNCHANGED <<service_map, watchdog, gatewayVars>>

(* An exception of accept() or of a thread's start ends the accept loop    *)
(* alone, and the sender is started before the port is bound: a primary    *)
(* that serves nobody goes on pinging.                                     *)
AcceptLoopFails(n) ==
    /\ Stop(n)
    /\ UNCHANGED <<promotionVars, gatewayVars>>

(* The sender's thread ends for want of a socket; its primary serves on. *)
SenderFails(r) ==
    /\ pinging[r]
    /\ pinging' = [pinging EXCEPT ![r] = FALSE]
    /\ UNCHANGED <<serviceVars, service_map, watchdog, gatewayVars>>

ThreadRuns(th) == ThreadStep(th) /\ UNCHANGED <<promotionVars, gatewayVars>>

-------------------------------------------------------------------------------
GatewayStep(h) ==
    Send(h) \/ AnswerRead(h) \/ RetryOnBackup(h) \/ GiveUp(h) \/ Respond(h)

FailoverNext ==
    \/ \E h \in Http, q \in Asked : Route(h, q)
    \/ \E h \in Http : GatewayStep(h)
    \/ \E r \in Restaurant : FirstPing(r) \/ Promote(r) \/ UpdateServiceMap(r)
    \/ \E th \in Thread : ThreadRuns(th)
    \/ \E n \in Node : StopService(n) \/ AcceptLoopFails(n)
    \/ \E r \in Restaurant : SenderFails(r)

FailoverSpec == FailoverInit /\ [][FailoverNext]_vars

(* Threads run, and the gateway's socket calls return: each has a timeout, *)
(* and a service's thread answers.  An armed watchdog that gets no pings   *)
(* fires and, having fired, goes on to update the map: it is a thread of   *)
(* its own, which outlives its service's accept loop.                      *)
FailoverFairness ==
    /\ \A th \in Thread : WF_vars(ThreadRuns(th))
    /\ \A h \in Http : WF_vars(GatewayStep(h))
    /\ \A r \in Restaurant :
          WF_vars(~pinging[r] /\ Promote(r)) /\ WF_vars(UpdateServiceMap(r))

FairFailoverSpec == FailoverSpec /\ FailoverFairness

-------------------------------------------------------------------------------
FailoverTypeOK ==
    /\ TypeOK
    /\ service_map \in [Restaurant -> Node]
    /\ pinging \in [Restaurant -> BOOLEAN]
    /\ watchdog \in [Restaurant -> Watchdog]
    /\ stage \in [Http -> Stage]
    /\ asked \in [Http -> Asked \cup {None}]
    /\ addr \in [Http -> Node \cup {None}]
    /\ attempt \in [Http -> Attempt]
    /\ confirmed \in [Restaurant -> [Slot -> SUBSET Http]]

(* Two bookings of one slot are never both answered with 200 unless a      *)
(* cancellation of that slot was asked for in between, across the switch   *)
(* from a primary to its backup (README.md:65-67).                         *)
NoDoubleBooking ==
    \A r \in Restaurant, s \in Slot : Cardinality(confirmed[r][s]) <= 1

GatewayIdle == \A h \in Http : stage[h] \notin {"send", "wait"}

(* The process that answers a request sent now, if it answers at all. *)
Serving(r) ==
    LET n == service_map[r] IN
    IF ~running[n] /\ n \in DOMAIN BACKUP_MAP THEN BACKUP_MAP[n] ELSE n

HeldBy(h, n, s) == reservations[n][s] # None /\ reservations[n][s].customer = h

(* A booking answered with 200 is held, under its own name, by the process *)
(* that serves the restaurant whenever the gateway is between requests: it *)
(* survives the primary's end and the promotion, premature ones included   *)
(* (backup.py:41-60, gateway.py:51-66).                                    *)
ConfirmedServed ==
    GatewayIdle =>
        \A r \in Restaurant, s \in Slot : \A h \in confirmed[r][s] :
            HeldBy(h, Serving(r), s)

(* A listing that a service answered with status ok (the gateway gives 200 *)
(* to the others, too) shows every booking that was confirmed, whichever   *)
(* process the address looked up, the retry or a promotion in between has  *)
(* led it to (gateway.py:51-66,149-159).                                   *)
ReadsSeeConfirmed ==
    [][\A h \in Http :
          stage[h] = "send" /\ stage'[h] = "ok" =>
              \A s \in Slot : \A g \in confirmed[asked[h].restaurant][s] :
                  HeldBy(g, addr[h], s)]_vars

(* A primary that cannot be reached is stood in for by its backup, though  *)
(* nobody has promoted it, has heard of the primary's end, or ever will:   *)
(* the gateway answers "Service unavailable" only if the backup is gone    *)
(* too (README.md:79, gateway.py:51-66).                                   *)
BackupStandsIn ==
    \A h \in Http :
        stage[h] = "unavailable" => ~running[BACKUP_MAP[asked[h].restaurant]]

(* The map leads a restaurant's requests away from its primary only once   *)
(* its backup has stopped being a backup, and never back (backup.py:41-60).*)
MapFollowsPromotion ==
    [][\A r \in Restaurant :
          service_map'[r] # service_map[r] =>
              /\ service_map[r] = r
              /\ service_map'[r] = BACKUP_MAP[r]
              /\ ~back_up[BACKUP_MAP[r]]]_vars

(* Once a primary that was heard of pings no more, requests are led to its *)
(* backup (README.md:77).                                                  *)
FailoverHappens ==
    \A r \in Restaurant :
        watchdog[r] # "no ping yet" /\ ~pinging[r] ~> service_map[r] = BACKUP_MAP[r]
===============================================================================
