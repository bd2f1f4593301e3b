------------------------------ MODULE ClientFlows ------------------------------
(***************************************************************************)
(* What the interactive clients do with one restaurant: make, modify and   *)
(* cancel a reservation, each a sequence of HTTP requests with a person's  *)
(* time between them.                                                      *)
(*                                                                         *)
(* As long as nobody gives up waiting, the service behind the gateway is   *)
(* taken at the promise of the module ReservationLedger: a write happens   *)
(* at once and is confirmed, or is refused and changes nothing.  When the  *)
(* client (10 seconds), the gateway (3, then 10) or the primary's          *)
(* replicator (3) gives up, a thread of a service may still be at the      *)
(* write, and what is answered, if anything is, comes from another try: a  *)
(* booking that is made is refused as "already booked", a cancellation     *)
(* that is made finds "No reservation".  Such a write is late: it falls on *)
(* the reservations at any later moment, whatever is there by then, and    *)
(* perhaps again.  One table of reservations stands for both processes of  *)
(* the restaurant; what else may part them then is seen in Failover.       *)
(* The gateway serves one request at a time, so a read is a snapshot.      *)
(*                                                                         *)
(* Every client runs one flow.  Faults:                                    *)
(*   "refused"  any request may be answered with an error, unperformed;    *)
(*   "late"     any write may be late, and answered with an error or not;  *)
(*   "quit"     a client may end between two requests or, by the           *)
(*              TimeoutError that the HTTP helpers do not catch, in one.   *)
(***************************************************************************)
EXTENDS Naturals, FiniteSets

CONSTANTS
    Client,
    Editor,       \* the clients that modify or cancel; the others book
    capacity,     \* [Table -> Nat], restaurants.json
    Time,
    Party,        \* the party sizes that are asked for
    Faults,
    None

Table == DOMAIN capacity
Slot == Table \X Time
Booking == [customer : Client, party : Party]
Reservation == [slot : Slot, booking : Booking]
Write == [slot : Slot, booking : Booking \cup {None}]   \* None: a cancellation

ASSUME FlowAssumption ==
    /\ Editor \subseteq Client
    /\ capacity \in [Table -> Nat]
    /\ Party \subseteq Nat
    /\ Faults \subseteq {"refused", "late", "quit"}
    /\ None \notin Booking \cup Reservation \cup Slot

VARIABLES
    reservations,  \* [Slot -> Booking or None], at the service
    step,          \* [Client -> the request it makes next, or how it ended]
    picked,        \* [Client -> the reservation picked from a listing, or None]
    wish,          \* [Client -> [time, party] wanted, or None]
    available,     \* [Client -> the tables it was offered]
    late           \* the writes given up that a service may be making yet

vars == <<reservations, step, picked, wish, available, late>>

Request == {"availability", "list", "book", "delete", "find new", "book new", "restore"}
Told == {"confirmed", "failed", "none available", "modified", "restored",
         "cancelled", "cannot cancel"}
Wish == [time : Time, party : Party]

FirstRequest(c) == IF c \in Editor THEN "list" ELSE "availability"

Init ==
    /\ reservations = [s \in Slot |-> None]
    /\ step = [c \in Client |-> FirstRequest(c)]
    /\ picked = [c \in Client |-> None]
    /\ wish = [c \in Client |-> None]
    /\ available = [c \in Client |-> {}]
    /\ late = {}

-------------------------------------------------------------------------------
(* The service, seen through the gateway.                                  *)

\* mutant: availability does not compare the capacity with the party
AvailableTablesAnySize(w) == {t \in Table : reservations[<<t, w.time>>] = None}

AvailableTables(w) ==
    {t \in Table : capacity[t] >= w.party /\ reservations[<<t, w.time>>] = None}

CanFail == Faults \cap {"refused", "late"} # {}

Make(w) == reservations' = [reservations EXCEPT ![w.slot] = w.booking]

MayBeLate(w) == UNCHANGED late \/ ("late" \in Faults /\ late' = late \cup {w})

\* mutant: a booking is made whether or not the slot is free
BookOver(w) == Make(w) /\ MayBeLate(w)

(* Confirmed; what the gateway has given up at one process may come, too.  *)
Book(w) == reservations[w.slot] = None /\ Make(w) /\ MayBeLate(w)

Delete(w) == reservations[w.slot] # None /\ Make(w) /\ MayBeLate(w)

(* Answered with an error: not made or, if it is late, not made yet.       *)
BookRefused(w) ==
    (reservations[w.slot] # None \/ CanFail) /\ UNCHANGED reservations /\ MayBeLate(w)

DeleteRefused(w) ==
    (reservations[w.slot] = None \/ CanFail) /\ UNCHANGED reservations /\ MayBeLate(w)

(* A thread of a service makes a write that was given up.  The backup      *)
(* overwrites or removes without a look (reservation_service.py:225-235).  *)
LateWrite(w) == Make(w) /\ UNCHANGED <<step, picked, wish, available, late>>

Goto(c, where) == step' = [step EXCEPT ![c] = where]

(* The reservation a client books, and the one a modification moves to.    *)
OwnBooking(c, t) ==
    [slot |-> <<t, wish[c].time>>, booking |-> [customer |-> c, party |-> wish[c].party]]

MovedBooking(c, t) ==
    [slot |-> <<t, wish[c].time>>,
     booking |-> [picked[c].booking EXCEPT !.party = wish[c].party]]

(* The DELETE names the slot, not the reservation that was picked.         *)
Cancellation(c) == [slot |-> picked[c].slot, booking |-> None]

(* matchTable without a preference: a smallest table of the offer. *)
MatchTable(offer) ==
    {t \in offer : \A u \in offer : capacity[t] <= capacity[u]}

(* The availability or the listing a flow begins with is an error. *)
ReadRefused(c) ==
    /\ CanFail
    /\ step[c] \in {"availability", "list"}
    /\ Goto(c, "failed")
    /\ UNCHANGED <<reservations, picked, wish, available, late>>

-------------------------------------------------------------------------------
(* makeReservation                                                         *)

AskAvailability(c) ==
    /\ step[c] = "availability"
    /\ \E w \in Wish :
          /\ wish' = [wish EXCEPT ![c] = w]
          /\ available' = [available EXCEPT ![c] = AvailableTables(w)]
    /\ Goto(c, IF available'[c] = {} THEN "none available" ELSE "book")
    /\ UNCHANGED <<reservations, picked, late>>

(* The best match or, if it is not where the guest likes to sit, any other *)
(* table of the offer.                                                     *)
PostBooking(c) ==
    /\ step[c] = "book"
    /\ \E t \in available[c] :
          \/ Book(OwnBooking(c, t)) /\ Goto(c, "confirmed")
          \/ BookRefused(OwnBooking(c, t)) /\ Goto(c, "failed")
    /\ UNCHANGED <<picked, wish, available>>

-------------------------------------------------------------------------------
(* modifyReservation and cancelReservation                                 *)

Listed ==
    {r \in Reservation : reservations[r.slot] = r.booking}

(* Any listed reservation may be picked: clients have no identity. *)
PickToCancel(c) ==
    /\ step[c] = "list"
    /\ \E r \in Listed : picked' = [picked EXCEPT ![c] = r]
    /\ Goto(c, "delete")
    /\ UNCHANGED <<reservations, wish, available, late>>

PickToModify(c) ==
    /\ step[c] = "list"
    /\ \E r \in Listed : picked' = [picked EXCEPT ![c] = r]
    /\ \E w \in Wish : wish' = [wish EXCEPT ![c] = w]
    /\ Goto(c, "delete")
    /\ UNCHANGED <<reservations, available, late>>

Cancels(c) == wish[c] = None

\* mutant: a modification goes on although its cancellation was refused
GoesOnAnyway(c) == IF Cancels(c) THEN "cannot cancel" ELSE "find new"

AfterRefusal(c) == "cannot cancel"

DeletePicked(c) ==
    /\ step[c] = "delete"
    /\ \/ /\ Delete(Cancellation(c))
          /\ Goto(c, IF Cancels(c) THEN "cancelled" ELSE "find new")
       \/ DeleteRefused(Cancellation(c)) /\ Goto(c, AfterRefusal(c))
    /\ UNCHANGED <<picked, wish, available>>

\* mutant: an error leaves a table without a name
NamelessTable == {None}

(* An error counts as an empty offer. *)
OfferOnError == {}

FindNew(c) ==
    /\ step[c] = "find new"
    /\ \/ available' = [available EXCEPT ![c] = AvailableTables(wish[c])]
       \/ CanFail /\ available' = [available EXCEPT ![c] = OfferOnError]
    /\ Goto(c, IF available'[c] = {} THEN "restore" ELSE "book new")
    /\ UNCHANGED <<reservations, picked, wish, late>>

PostNew(c) ==
    /\ step[c] = "book new"
    /\ \E t \in MatchTable(available[c]) :
          \/ Book(MovedBooking(c, t)) /\ Goto(c, "modified")
          \/ BookRefused(MovedBooking(c, t)) /\ Goto(c, "restore")
    /\ UNCHANGED <<picked, wish, available>>

(* The answer is not looked at: "Original reservation restored." *)
Restore(c) ==
    /\ step[c] = "restore"
    /\ Book(picked[c]) \/ BookRefused(picked[c])
    /\ Goto(c, "restored")
    /\ UNCHANGED <<picked, wish, available>>

(* The writes a client may be waiting for when it ends. *)
UnderWay(c) ==
    CASE step[c] = "book" -> {OwnBooking(c, t) : t \in available[c]}
      [] step[c] = "delete" -> {Cancellation(c)}
      [] step[c] = "book new" -> {MovedBooking(c, t) : t \in MatchTable(available[c])}
      [] step[c] = "restore" -> {picked[c]}
      [] OTHER -> {}

Quit(c) ==
    /\ "quit" \in Faults
    /\ step[c] \in Request
    /\ Goto(c, "quit")
    /\ \/ UNCHANGED late
       \/ \E w \in UnderWay(c) : MayBeLate(w)
    /\ UNCHANGED <<reservations, picked, wish, available>>

Flow(c) ==
    \/ ReadRefused(c)
    \/ AskAvailability(c)
    \/ PostBooking(c)
    \/ PickToCancel(c)
    \/ PickToModify(c)
    \/ DeletePicked(c)
    \/ FindNew(c)
    \/ PostNew(c)
    \/ Restore(c)
    \/ Quit(c)

Next == (\E c \in Client : Flow(c)) \/ (\E w \in late : LateWrite(w))

Spec == Init /\ [][Next]_vars

-------------------------------------------------------------------------------
TypeOK ==
    /\ reservations \in [Slot -> Booking \cup {None}]
    /\ step \in [Client -> Request \cup Told \cup {"quit"}]
    /\ picked \in [Client -> Reservation \cup {None}]
    /\ wish \in [Client -> Wish \cup {None}]
    /\ available \in [Client -> SUBSET Table]
    /\ late \in SUBSET Write

(* No party sits at a table too small for it: the service books what it is *)
(* told without a check (reservation_service.py:298-345), so this rests on *)
(* every flow's sizes, those of a restore and of late writes included.     *)
CapacityRespected ==
    \A s \in Slot : reservations[s] # None => reservations[s].party <= capacity[s[1]]

HeldBy(c) == {s \in Slot : reservations[s] # None /\ reservations[s].customer = c}

(* The bookings of this guest's, and the cancellations of anybody's, that  *)
(* were given up: nobody can tell whether they are made or, at two         *)
(* processes, where.                                                       *)
GivenUp(c) == {w \in late : w.booking = None \/ w.booking.customer = c}

(* Where one client at a time modifies or cancels, a guest who booked once *)
(* holds one reservation and, at worst, one more for each of these writes: *)
(* a modification books again where its new booking fails                  *)
(* (client.py:446-503), and one that is late and refused does not fail     *)
(* (gateway.py:58-66).  Nothing else leaves a guest with two.              *)
NobodyHoldsTwo ==
    \A c \in Client : Cardinality(HeldBy(c)) <= 1 + Cardinality(GivenUp(c))

MayHaveTaken(c, d) ==
    /\ picked[d] # None
    /\ picked[d].booking.customer = c
    /\ step[d] \in {"find new", "book new", "restore", "restored", "cancelled", "quit"}

(* As long as no write was given up, a confirmed guest has the reservation *)
(* unless a client that picked it cancelled it, has not finished moving    *)
(* it, gave up half-way or claims to have restored it; a client told       *)
(* "modified" did move it, one told "cannot cancel" left it.               *)
ConfirmedIsHeld ==
    late = {} =>
        \A c \in Client :
            step[c] = "confirmed" /\ HeldBy(c) = {} => \E d \in Client : MayHaveTaken(c, d)

(* client.py:471,503: "Original reservation restored." *)
RestoredIsThere ==
    [][\A c \in Client :
          step[c] = "restore" /\ step'[c] = "restored"
          => reservations'[picked[c].slot] = picked[c].booking]_vars

(* client.py:536: "Cancel {customer_name}'s reservation at ..." -- and not *)
(* the one that somebody else has by now for the same table and time.      *)
CancelsThePicked ==
    [][\A c \in Client :
          step[c] = "delete" /\ step'[c] = "cancelled"
          => reservations[picked[c].slot].customer = picked[c].booking.customer]_vars
================================================================================
