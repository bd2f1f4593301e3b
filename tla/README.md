# Verification of the restaurant reservation system

TLA+ models of the distributed reservation system in this repository, TLC
configurations that check them on small instances, and proofs checked by TLAPS.
Paths below are relative to the repository's root; ports name processes, as in
`common/config.py`.

## 1. The system

| Component | State | Operations | Talks to |
|---|---|---|---|
| Restaurant service, one primary and one backup per restaurant (`services/reservation_service.py`) | `reservations` in memory, one lock per table, Lamport clock, role (`back_up`, `replicator`, `_is_promoted_primary`), accept loop | `book`, `cancel`, `apply_replication`, `heartbeat`, three reads, `stop`, `promote_to_primary`; one thread per connection | its backup (TCP, synchronous, while the table's lock is held) |
| Replicator (`replication/primary.py`) | none | `replicate`: connect, send, wait at most 3 s | the backup's service |
| Failure detector (`replication/heartbeat.py`) | sender: its timers; monitor: `last_seen`, `_fired` | ping every 2 s, record, look every 0.5 s, fire after 6 s | the backup's service port; `BackupService.promote` as callback |
| Backup promotion (`replication/backup.py`) | none of its own | `promote`: the service first, then `RESTAURANT_SERVICE_MAP` | the service it wraps; the gateway, through the shared map |
| Gateway (`gateway/gateway.py`) | the shared map; one thread | route, try the primary (3 s), on "unavailable" retry on the backup (10 s), translate the answer | services (TCP), clients (HTTP) |
| Client (`client/client.py`) | the flow a person is in | make, modify, cancel; browse, search, list | gateway (HTTP, 10 s) |
| Wire protocol (`common/protocol.py`) | receive buffer | `sendMessage`, `receiveMessage`: JSON lines over TCP | all of the above |
| Launcher (`run_all.py`) | none | start backups, primaries, gateway as threads of one process | |

What is hard here, and where a test hardly reaches:

- *Interleaving.* Threads of one table meet at a lock that is held across a
  network call; tables are independent but share a clock.
- *Partial failure and time.* A replication may be refused, answered with an
  error, or time out and still be applied later. Four timeouts overlap: the
  lock's 5 s, the replicator's 3 s, the gateway's 3 s and 10 s, the client's 10 s.
- *Ordering.* Each replication has a connection and a thread of its own, and
  the backup overwrites without looking at timestamps.
- *Failover.* The gateway's retry and the watchdog's promotion are independent
  of each other: a backup serves clients whether or not it has been promoted.
- *Things that end alone.* A service is an accept loop, a heartbeat sender, a
  watchdog and the threads of its connections; an exception ends one of them and
  the others go on: a primary that serves nobody and pings, one that serves and
  does not ping, a backup that hears nothing and watches.
- *Bytes.* A message arrives in pieces, or not to its end, at a receiver whose
  socket may have no timeout.
- *Reads without locks.* A listing iterates over a dictionary that other threads
  insert into and delete from.
- *Stale state in the clients.* Reads and writes are separate requests with a
  person between them, and a modification is a cancellation and a booking.

The full list, each at its line and with the properties that watch it, is
`hazards` in `PROJECT.json`.

What makes each component correct: a service is a linearizable register per
slot, its clock covers what it stores, and it confirms only what its backup has
acknowledged; primary and backup agree wherever no write is under way; the
detector is accurate and complete under stated timing; the map follows the
promotion; the gateway confirms a slot once and shows what it confirmed; a call
hands over whole messages or none, and its ends finish; a client's flow seats nobody
at a table too small and neither loses nor doubles a guest's reservation, but for
what a write that was given up may do.

## 2. The modules

**`ReservationLedger`** is the abstract specification of one service: `book` and
`cancel` take effect in one step, when they are confirmed, with a timestamp
above all others of the table; a refusal changes nothing.

**`ReservationService`** is the core: all services with their threads. A client
connection `c` is served by the thread `<<c, "serve">>` of the process it was
made to; the connection that this thread makes for its replication is served by
the backup's `<<c, "apply">>`. The control state `pc` follows the handlers:

| `pc` | where `_bookTable`, `_cancelReservation`, `_applyReplication` are |
|---|---|
| `acquire` | before `lock.acquire` (298-309, 347-358, 207-220) |
| `locked` | lock held, slot not yet looked up (315, 363, 224) |
| `replicate` | stamped, replication not yet sent (336, 373) |
| `waiting` | in `PrimaryReplicator.replicate`, waiting for the response |
| `commit` | replication acknowledged or not needed, write not yet made (340, 377) |
| `ok`, `error`, `dead` | answered, or ended with its process |

`snapshot` is the reservation a thread has built or copied. Looking a slot up and
stamping is one action: both happen under the table's lock, and the clock under
its own. `RejectRequest`, `FailWrite` and the commits release the lock in the
same step as they answer, as `finally` does; answers are observed by the caller
only through `pc`. An apply is one action, as it is all under the table's lock;
its clock update and its write are seen together.

Abstractions: a table and a time are model values, a reservation keeps its
customer and its timestamp, an invalid replication payload cannot arise between
two services of this code and is left out. The Lamport clock is unbounded; the
runs bound it by the number of connections, as every stamp needs one.

**`Listing`** is `_listReservations` over CPython's dictionary (3.7 to 3.12),
turn of the loop by turn, while locked threads insert and remove. The dictionary
is a sequence of keys with holes; an insertion may close them. The iterator's
rules, a position, the size it began with and the two ways it raises, are
external, as is the moment at which the dictionary is rebuilt: any insertion may.

**`RemoteCall`** is the abstract specification of one TCP call: the callee acts
on the very request sent, at most once, and the caller gets the very answer or
learns that it got none, which says nothing of whether the request has been or
will be acted on. `SendReplication`, `ReplicationAcked` and `ReplicationFailed` of
the services, and `Send`, `Respond` and `AttemptFails` of the gateway, take a
call to be that. **`Framing`** is the call as it is made: two ends, each with
what `sendall` has yet to write, the bytes on the way (of a bounded number, in any
pieces) and the receive buffer of `receiveMessage`. A message is a sequence of
`Letter`s, of which the newline is none. `Receive` is one round of its
loop. A closed peer is noticed as an empty `recv` or as a reset.

**`FailureDetector`** is the abstract specification of the detector for one
primary: after a first ping it fires once, only if the pings have ended, the backup
cannot hear them or they are too slow, and if they have ended it does fire.

**`Heartbeat`** is the detector in discrete time, a tick being the watchdog's half
second. A ping is on its way to the backup or its answer is on its way back;
`latency` bounds each leg, scheduling delays of the threads it passes included. It
is chosen from `Latencies` in the initial state and stays. `Tick` does not pass over
what is due. The primary is `up` or `silent`: stopped, crashed, or its sender has
ended because there was no descriptor for a socket (heartbeat.py:29 is outside the
`try`), in which case it serves on. The backup is `starting`, `listening` or `deaf`;
its watchdog runs in all three. `Promise` maps all of that to `FailureDetector`.

**`Failover`** extends `ReservationService` by the gateway and the promotion. An
HTTP request's two attempts are two connections, `<<h, "first">>` and
`<<h, "retry">>`. `Route` is the lookup of the address (`getServiceAddress`),
`Send`, `AnswerRead`, `Respond`, `RetryOnBackup` and `GiveUp` are `sendToService` and
`sendToServiceWithFailover`; only one request is between them at a time, because
`HTTPServer` is single-threaded. A listing is answered at once, since it takes no
lock, and may be answered with an error while a thread of that process writes.
`Promote` and `UpdateServiceMap` are the two halves of `BackupService.promote`;
when a watchdog may fire is `Detector(r)!MayFire`, an instance of
`FailureDetector` with no clocks, which `Heartbeat` is shown to implement. `pinging` is
the primary's sender, apart from `running`, its accept loop: `StopService` ends both,
`AcceptLoopFails` the one and `SenderFails` the other. The map is one dictionary
shared by gateway and backups, which presupposes one process (`run_all.py`); a
service in it ends with its accept loop and its threads go on. `confirmed` is a
history variable: who has been told, since a cancellation was last asked for, to
have the slot.

**`ClientFlows`** are the flows of `client.py`. Each client runs one flow; an
*editor* picks any listed reservation, as clients have no identity. As long as nobody
gives up waiting, the service is taken at the ledger's promise: a write is made and
confirmed at once, or refused and not made. A write that the client, the gateway or the
replicator gives up is *late*: whatever was answered, an error included, a service may
make it at any later moment over whatever is there by then, and more than once, since
the gateway's retry (gateway.py:58-66) and the primary's replication are two tries at
it. So a booking that is made can be answered "already booked", and a cancellation that
is made "No reservation found". One table of reservations stands for both processes of
the restaurant. A flow that ends in one of its requests may leave
that write late as well.

`MC*` modules give the constants their values. Operators marked `mutant` are
deliberately wrong variants of the operator that follows them, none is used by
a specification; substituted for it they make a property fail, which shows that
the property depends on that piece of code.

## 3. What the runs check

| Run | Instance | Shows |
|---|---|---|
| `service_safety` | 1 primary, 1 backup, 2 tables and an unknown one, 2 customers, 3 connections; timeouts, crashes | the decision of a write holds until it is made; clocks cover stored stamps; stamps grow per table and are distinct on a primary; a confirmation is preceded by that write's application at the backup; primary and backup agree on every table not being written, unless a replication was given up that may be applied |
| `service_ledger` | 1 table, 3 connections; timeouts, crashes, fair threads | the primary implements `ReservationLedger`; every request is answered |
| `failover` | 1 restaurant, 1 slot, 3 HTTP requests (book, cancel, list); stops, lone failures of accept loops and senders, rightful and wrong promotions, fair | no slot confirmed twice, every confirmed booking is held by the process that serves and shown by every listing that is answered with status "ok", the backup stands in whether promoted or not, the map follows the promotion, failover happens |
| `heartbeat` | the code's constants in half seconds, legs up to 0, 1/2, ..., 5 s | a live primary is suspected only when the legs are too slow; a silent one is, and by when, for legs up to the ping's own timeout; the clocks implement `FailureDetector` |
| `framing` | messages of 1, 2 and 3 bytes, `recv` of 2, sockets of 3; timeouts, crashes, fair ends | the protocol implements `RemoteCall`; both ends finish |
| `listing` | 3 keys, 7 insertions and removals | an answered listing has every reservation that was there throughout, once, or misses it only because the dictionary was rebuilt |
| `clients_modify` | 2 tables of different size, 2 times, 2 guests and an editor; refusals, late writes, interruptions | capacities respected whatever comes late; nobody holds more than one and one for each write given up that can have put or left it there; a confirmed reservation is held or accounted for until a write is given up |

The runs of a module with a type invariant check that besides.

Stops, crashes and promotions are enabled in every state, so they fall between
any two steps of a handler.

Five runs show where the code departs from what the repository says (`findings`):

| Run | Said | Happens |
|---|---|---|
| `service_readme_order` | Lamport clocks give a total order of writes within a service (README.md:94) | a backup that served a client holds two reservations with one timestamp |
| `failover_split_brain` | no double bookings, during failures too (README.md:9, tests/test_automatic.py:19) | after a gateway timeout the unpromoted backup confirms a slot, and then the primary confirms it again |
| `failover_late_apply` | confirmed reservations are preserved (README.md:9) | a replication the primary had given up replaces a booking the backup has confirmed |
| `clients_restored` | "Original reservation restored." (client.py:471, 503) | somebody else has the slot; the answer is not looked at |
| `clients_cancel` | "Cancel X's reservation ..." (client.py:536) | Y's, booked meanwhile for the same table and time, is cancelled |

**Bounds.** Three connections are the smallest number with which one table has
a booking, a cancellation and a booking, or a writer, a late replication and a
competitor; each may add one thread on the backup. Two tables are needed for
concurrent stamps (one clock, two locks). Processes of different
restaurants share nothing but the map, whose entries are independent, so one
pair suffices for the runs; `MapFollowsPromotion` is proved for any number.
Clocks are bounded by the connections. Three HTTP requests are a booking, its
competitor and a cancellation or a listing between or after them, each with its
retry. In `Heartbeat` ages stop above the largest value they are compared with; the
proofs show that nothing depends on the particular constants. In `framing` a
message is shorter than, as long as and longer than one `recv`, and an encoded one
may exceed the sockets. Seven writes let `listing` have two holes before it begins,
and a removal and an insertion on each side of its position afterwards. Symmetry is
used where no liveness is checked: `service_safety`, `failover_late_apply`, `listing`,
`clients_modify`. `service_safety` has one time, with which a table has no second
slot for a booking to be fresher than: that half of `StampIsFreshest` is shown
by the theorem, the run shows that of the cancellations.

**No deadlock check** where connections, requests or calls are used once and run
out. `Heartbeat` never stops and is checked for deadlock.

**Fairness.** `ReservationService`: weak fairness of every thread's steps, as the
operating system schedules threads and each blocking call has a timeout; none
for clients, stops, crashes and promotions. A lock waited for is granted or times
out, so strong fairness is not needed; `EveryRequestAnswered` is accordingly about
what no timeout of a thread's own ends: a response lost, a lock kept by a thread that
goes on, a dead backup waited for. `Failover` adds weak fairness of the
gateway's thread, of a watchdog that was armed and whose primary pings no more, and
of the update of the map that follows: the watchdog is a thread of its own and
does not end with its service's accept loop. A wrong suspicion is not fair, and
nothing fails of necessity. `Heartbeat`: weak fairness of the disjunction of what is
due and of time's passing, since nothing due can be passed over. `Framing`: weak
fairness of each end, none for timeouts and crashes: both ends finish without them.

## 4. What is proved

`ReservationServiceProofs` proves, for all sets of nodes, tables, times,
customers and connections, for every backup map and all faults:

- `TypeCorrect`: `TypeOK`. It is not inductive alone: replication goes to
  `replicator[At(th)]`, so that one has to know that a thread in the
  critical section has a message (`ThreadInv`, by the shape of its control
  state), that its message names a known table, and that replicators are
  `BACKUP_MAP`'s values (`RoleInv`). `Typed` is the conjunction.
- `DecisionsStayValid`: `DecisionStillValid`. The strengthening is `LockInv`: a
  thread in its critical section is the holder of its table's lock. Then a write
  of another thread (`StoresMove`) is to another table or another process.
- `ClocksCover` and `StampsAreFreshest`: `ClockCoversStored`, `StampIsFreshest`.
  The invariant also says of a thread past its stamp that its clock covers it,
  as the write comes later than the stamp; freshness then needs the lock again.
- `ConfirmedAreAcknowledged`: `ConfirmedMeansAcknowledged`. The invariant
  `AckInv` follows a write from `SendReplication`: the backup's thread was handed
  this very write, keeps it whatever else happens (`ApplierKeeps`), and has
  answered `ok` by the time the writer goes on.

`AgreementProofs` proves, on top of these and for the same constants:

- `ReplicasAgree`: `ReplicaAgreement`. Agreement is broken and restored within every
  write, so the invariant `AgreeInv` speaks of every slot at every moment: primary and
  backup agree on it, or a thread of the primary, alive or dead, has the table's lock
  and the backup holds what that thread is about to write (`Ahead`, `Written`). The
  exception `Orphaned` is one on purpose: a replication that the primary gave up and
  the backup then applied. That an apply belongs to such a thread, and that a dead one
  keeps its lock, is `OriginInv`.
- `ServiceIsLedger`: a process that nobody replicates to implements
  `ReservationLedger`, for any such process and with the refinement mapping that
  `service_ledger` checks for one. Commits are the ledger's confirmations, everything
  else is a refusal, a request or a stutter; that a confirmed booking finds its slot
  free and its stamp above the table's is `DecisionStillValid` and `StampIsFreshest`.

`StampProofs` proves `PrimaryStampsAreDistinct`, `PrimaryStampsDistinct`, on top of
these. The property speaks of what is stored, and a stamp is stored long after it
was taken; `StampInv` therefore says the same of the threads of such a process that
are past their stamp: no two carry the same (`HandsDistinct`) and none carries a
stored one (`HandsUnlikeStored`). A new stamp differs from all of them because the
clock covers them; that nobody replicates to the process is needed where a write is
applied, which would store a stamp of another clock.

`HeartbeatProofs` proves for all timing constants:

- `TypeCorrect`.
- `NeverSuspectsTheLiving`: `Accuracy`. A live primary whose backup listens is
  suspected only if `2 * latency + HEARTBEAT_INTERVAL > HEARTBEAT_TIMEOUT`; with the
  code's constants, legs above 2 s. The invariant `FreshInv` bounds the age of the
  last recorded ping by the phase the sender is in.
- `SuspectsInTime`: `DetectionBound`, from `DetectInv`, which compares the age of a
  ping under way with the time since the primary fell silent.
- `ImplementsDetector`: the safety half of the refinement of `FailureDetector`: every
  initial state and every step of `Heartbeat` is one of the detector or a stutter. A
  `Look` that fires is a `Fire` because of `Accuracy`.

`FailoverProofs` proves for all restaurants, requests and faults:

- `ServicesUnderGateway`: `FailoverSpec => Spec`. The gateway uses the services in no
  way in which any caller could not; so `PromisesUnderGateway` has the services'
  invariants, from their theorems, whatever is retried and promoted.
- `FailoverTypeCorrect`: `FailoverTypeOK`, with `GatewayInv`, by which a request that is
  under way has a message and an address.
- `MapIsLedByPromotion`: `MapFollowsPromotion`. `PromotionInv` says of each restaurant
  that its watchdog has fired only if its backup is no backup any more, and that the
  map shows its primary or its backup; a backup never becomes one again
  (`NeverBackAgain`), and distinct backup ports (`ConfigAssumption`) keep the
  restaurants' promotions apart.

- `UnavailableMeansBothGone`: `BackupStandsIn`, where the gateway's own timeouts do
  not expire on live services. `Routed` says when a request is on its way to which of
  the two processes, and that it fails there only because that one has gone.
- `NobodyDoubleBooked`, `ConfirmedAreServed`, `ReadsAreCurrent`: `NoDoubleBooking`,
  `ConfirmedServed` and `ReadsSeeConfirmed`, under the hypothesis `Patient` (neither
  the replicator's nor the gateway's timeout expires on a service that lives). The
  hypothesis is needed: `failover_late_apply` and `failover_split_brain` show what
  happens without it. Stops, lone failures and promotions, early or wrong ones
  included, are all allowed; no process dies in this module (see 5). `ReadsSeeConfirmed`
  is about listings with status "ok": the gateway also answers 200 to an error
  (gateway.py:159). The invariant has two layers. `Orderly`: as the
  gateway has one thread, one request is under way (`Single`), its thread and the
  applier are the only ones at work (`Handled`, `Awaited`), and a step writes at most
  that request's slot. `Owed`: a confirmed booking is held by the backup always, and by
  the primary as long as it may still be asked (`Used`: it runs and the map names it,
  or a request is under way to it). `Copied` gives it at the moment of confirming,
  `CancelOwesNothing` says that a cancellation under way harms nothing that is owed.

`ClientFlowsProofs` proves for all clients, tables, parties and faults:

- `TypeCorrect`, with `FlowInv`: a flow that deletes has picked, one that books has a
  wish.
- `NobodyCramped`: `CapacityRespected`. `SizeInv` also says that every offered table,
  every picked reservation and every late write fits its party: that is what a booking,
  a restore and a thread given up write later, when the service no longer compares.
- `OneReservationEach`: `NobodyHoldsTwo`, where at most one client modifies or cancels.
  `OneInv` sorts a guest's slots: those where a late booking under the name belongs
  (`Pending`), of which there are no more than late writes, and the others that are held
  (`Sure`), of which there is at most one, and none while an editor has removed it and
  not booked again. With a second editor it fails, as two may move the same reservation.
- `ConfirmedGuestsHold`: `ConfirmedIsHeld`, under the same hypothesis. The property is
  inductive together with `OneInv`: a late write never ceases to be one, so while there
  is none only the editor removes a reservation, and what it removes is, by `OneInv`,
  the one it picked.

`FramingProofs` proves for all messages, buffer sizes, capacities and faults:

- `TypeCorrect`: `TypeOK` of `Framing`.
- `MessagesArriveWhole`: `ReceivedIsSent`, what an end has received is its peer's message,
  whole. `Stream` follows the bytes: what an end has
  collected, what is on the wire to it and what its peer has yet to write are
  together the one encoded message of that peer. As no letter is a newline
  (`FramingAssumption`), the first line of what was collected is then that message.
- `ConnectionIsCall`: `RemoteCall!Steps`, the safety half of the refinement: every step
  is one of `Handle`, `Answer`, `Return`, `GiveUp` or a stutter.

`ListingProofs` proves, for all keys and any number of writes, `StandingAreListed`:
`ListedIfThere`. A steady key at the iterator's position or behind it has not been
collected (`NotYet`), one before it has, unless the dictionary was rebuilt (`Passed`);
closing holes moves keys to the front only (`ClosingKeeps`). The smallest entry ahead
exists by `Smallest`, which gets it from the well-foundedness of the natural numbers.

Assumptions used: `ConfigAssumption` (backup ports are distinct and no primary's,
from the offset in config.py:34-41), `DataAssumption`, `NoneAssumption`,
`TimingAssumption`, `GatewayAssumption`, `NoneIsNoRequest`, `FlowAssumption`,
`FramingAssumption` (messages are not empty and hold no newline, as `json.dumps`
writes them), `ListingAssumption`. TLC
evaluates each in the runs.

**Only model-checked:** what says that something happens in the end, which is out of the
prover's reach: `EveryRequestAnswered`, `FailoverHappens`, `BothEndsFinish`,
and the fairness conjuncts of `KeepsPromise` and
`KeepsCallPromise`. `PrimaryIsLedger`, the run's name for the refinement at its one
primary, is the instance of `ServiceIsLedger`. Every invariant and every action property
of the passing runs is a theorem.

## 5. What is not modelled

- Availability and `get_info` thread by thread: they change nothing and iterate over
  the configuration, not over the reservations. The flows use availability as a
  snapshot, which the single-threaded gateway makes it.
- HTTP, JSON, the browsing and searching menus and "my reservations", which
  display what they read.
- `createRequest` and `createResponse`, which build dictionaries; `HeartbeatMonitor.stop`,
  which only tests call.
- A restart with empty memory: nothing in the code restarts a service.
- In `Failover`, processes of their own: the gateway would not see the map change.
- In `ClientFlows`, the two processes apart: after a late write they may differ, and a
  later read depends on which of them answers. What that leads to is seen in `Failover`
  (`failover_split_brain`, `failover_late_apply`).
- Real values of the timeouts outside `Heartbeat`: a timeout is a choice the
  environment has whenever the run's `Faults` allow it.
- The configuration and the tests, which have no behaviour of the system; they are
  read for constants and for what they promise.

## 6. Plan

Done, in this order: ledger, service, failover, heartbeat, client flows, with the
proofs of the service's local invariants and of the detector; then the detector's
abstract specification and its composition with failover, lone failures of accept
loops and senders, listings through the gateway, the wire protocol and its abstract
specification, the listing over the dictionary; then the proofs of the distinct stamps,
of failover, of the client flows, of the agreement of the replicas, of both
refinements' steps, and of the listing; then late writes in the client flows, with
their proofs.

Next:

1. What timeouts can and cannot do: theorems under weaker hypotheses than `Patient`.
   With the replicator's timeout only, a slot should still not be confirmed twice by
   one process; which of the properties survive is for TLC to say first.
2. `ConfirmedIsHeld` with several editors of different reservations, and what remains
   of it after a late write: who can account for a guest who has nothing.
3. Extending the model: two restaurants in one flow (fetching, "my reservations" with
   one of them down).
