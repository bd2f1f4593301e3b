--------------------------- MODULE ClientFlowsProofs ---------------------------
(***************************************************************************)
(* Theorems about ClientFlows, for all tables, times, parties, clients and *)
(* faults: types, that no flow seats a party at too small a table, and,    *)
(* where one client edits, that nobody is left with two reservations and   *)
(* that a confirmed one disappears only in a flow that took it, but for    *)
(* what a write that was given up may do.                                  *)
(***************************************************************************)
EXTENDS ClientFlows, FiniteSetTheorems, TLAPS

Editing == {"delete", "find new", "book new", "restore"}

(* A flow has picked a reservation, or has a wish, where it needs one. *)
FlowInv ==
    /\ \A c \in Client : step[c] \in Editing => picked[c] \in Reservation
    /\ \A c \in Client :
          step[c] \in {"book", "find new", "book new", "restore"} => wish[c] \in Wish

Typed == TypeOK /\ FlowInv

LEMMA StepMoves ==
    ASSUME Typed, NEW c \in Client, NEW where \in Request \cup Told \cup {"quit"},
           Goto(c, where)
    PROVE  /\ step' \in [Client -> Request \cup Told \cup {"quit"}]
           /\ step'[c] = where
           /\ \A d \in Client \ {c} : step'[d] = step[d]
BY DEF Goto, Typed, TypeOK

LEMMA OwnBookingType ==
    ASSUME NEW c \in Client, NEW t \in Table, wish[c] \in Wish
    PROVE  OwnBooking(c, t) \in Reservation
BY DEF OwnBooking, Reservation, Booking, Slot, Wish

LEMMA MovedBookingType ==
    ASSUME NEW c \in Client, NEW t \in Table, wish[c] \in Wish, picked[c] \in Reservation
    PROVE  /\ MovedBooking(c, t) \in Reservation
           /\ MovedBooking(c, t).booking.customer = picked[c].booking.customer
           /\ MovedBooking(c, t).booking.party = wish[c].party
BY DEF MovedBooking, Reservation, Booking, Slot, Wish

LEMMA CancellationType ==
    ASSUME NEW c \in Client, picked[c] \in Reservation
    PROVE  Cancellation(c) \in Write
BY DEF Cancellation, Reservation, Write

LEMMA ReservationIsWrite == Reservation \subseteq Write
BY DEF Reservation, Write

(* What a client waits for when it ends is a write of the right type.      *)
LEMMA UnderWayType ==
    ASSUME Typed, NEW c \in Client
    PROVE  UnderWay(c) \subseteq Write
<1> SUFFICES ASSUME NEW w \in UnderWay(c) PROVE w \in Write
  OBVIOUS
<1> USE DEF Typed, TypeOK, FlowInv, Editing
<1>1. CASE step[c] = "book"
  <2>1. PICK t \in available[c] : w = OwnBooking(c, t)
    BY <1>1 DEF UnderWay
  <2>2. t \in Table /\ wish[c] \in Wish
    BY <1>1
  <2> QED BY <2>1, <2>2, OwnBookingType, ReservationIsWrite
<1>2. CASE step[c] = "delete"
  BY <1>2, CancellationType DEF UnderWay
<1>3. CASE step[c] = "book new"
  <2>1. PICK t \in MatchTable(available[c]) : w = MovedBooking(c, t)
    BY <1>3 DEF UnderWay
  <2>2. t \in Table /\ wish[c] \in Wish /\ picked[c] \in Reservation
    BY <1>3 DEF MatchTable
  <2> QED BY <2>1, <2>2, MovedBookingType, ReservationIsWrite
<1>4. CASE step[c] = "restore"
  BY <1>4, ReservationIsWrite DEF UnderWay
<1>5. CASE step[c] \notin {"book", "delete", "book new", "restore"}
  BY <1>5 DEF UnderWay
<1> QED BY <1>1, <1>2, <1>3, <1>4, <1>5

Answers(w) == Book(w) \/ BookRefused(w) \/ Delete(w) \/ DeleteRefused(w)

(* A write that is asked for is made or not, and is late or not.           *)
LEMMA Answered ==
    ASSUME NEW w, Answers(w)
    PROVE  /\ Make(w) \/ UNCHANGED reservations
           /\ MayBeLate(w)
BY DEF Answers, Book, BookRefused, Delete, DeleteRefused

LEMMA LateGrows ==
    ASSUME NEW w, MayBeLate(w)
    PROVE  late \subseteq late' /\ late' \subseteq late \cup {w}
BY DEF MayBeLate

LEMMA MakeTypes ==
    ASSUME Typed, NEW w \in Write, Make(w)
    PROVE  reservations' \in [Slot -> Booking \cup {None}]
BY DEF Make, Write, Typed, TypeOK

LEMMA WriteTypes ==
    ASSUME Typed, NEW w \in Write, Answers(w)
    PROVE  /\ reservations' \in [Slot -> Booking \cup {None}]
           /\ late' \in SUBSET Write
<1>1. reservations' \in [Slot -> Booking \cup {None}]
  <2>1. CASE Make(w)
    BY <2>1, MakeTypes
  <2>2. CASE UNCHANGED reservations
    BY <2>2 DEF Typed, TypeOK
  <2> QED BY <2>1, <2>2, Answered
<1>2. late' \in SUBSET Write
  BY Answered, LateGrows DEF Typed, TypeOK
<1> QED BY <1>1, <1>2

(* Every step of a flow keeps the types, its next request included. *)
LEMMA TypedStep == Typed /\ [Next]_vars => Typed'
<1> USE FlowAssumption
<1> SUFFICES ASSUME Typed, [Next]_vars PROVE Typed'
  OBVIOUS
<1>1. CASE UNCHANGED vars
  BY <1>1 DEF vars, Typed, TypeOK, FlowInv
<1>2. ASSUME NEW c \in Client, ReadRefused(c) PROVE Typed'
  BY <1>2 DEF ReadRefused, Goto, Typed, TypeOK, FlowInv, Editing, Request, Told
<1>3. ASSUME NEW c \in Client, AskAvailability(c) PROVE Typed'
  <2>1. /\ wish' \in [Client -> Wish \cup {None}]
        /\ wish'[c] \in Wish
        /\ \A d \in Client \ {c} : wish'[d] = wish[d]
    <3>1. PICK w \in Wish : wish' = [wish EXCEPT ![c] = w]
      BY <1>3 DEF AskAvailability
    <3>2. wish \in [Client -> Wish \cup {None}]
      BY DEF Typed, TypeOK
    <3> QED BY <3>1, <3>2
  <2>2. available' \in [Client -> SUBSET Table]
    <3>1. \A w \in Wish : AvailableTables(w) \in SUBSET Table
      BY DEF AvailableTables
    <3>2. available \in [Client -> SUBSET Table]
      BY DEF Typed, TypeOK
    <3> QED BY <1>3, <3>1, <3>2 DEF AskAvailability
  <2>3. step' \in [Client -> Request \cup Told \cup {"quit"}]
    BY <1>3 DEF AskAvailability, Goto, Typed, TypeOK, Request, Told
  <2>4. /\ step'[c] \in {"none available", "book"}
        /\ \A d \in Client \ {c} : step'[d] = step[d]
    BY <1>3 DEF AskAvailability, Goto, Typed, TypeOK
  <2>5. FlowInv'
    BY <1>3, <2>1, <2>4 DEF AskAvailability, Typed, FlowInv, Editing
  <2>6. UNCHANGED <<reservations, picked, late>>
    BY <1>3 DEF AskAvailability
  <2> QED BY <2>1, <2>2, <2>3, <2>5, <2>6 DEF Typed, TypeOK
<1>4. ASSUME NEW c \in Client, PostBooking(c) PROVE Typed'
  <2>1. PICK t \in available[c] :
          \/ Book(OwnBooking(c, t)) /\ Goto(c, "confirmed")
          \/ BookRefused(OwnBooking(c, t)) /\ Goto(c, "failed")
    BY <1>4 DEF PostBooking
  <2>2. OwnBooking(c, t) \in Write
    <3>1. wish[c] \in Wish /\ t \in Table
      BY <1>4 DEF PostBooking, Typed, FlowInv, TypeOK
    <3> QED BY <3>1, OwnBookingType, ReservationIsWrite
  <2>3. reservations' \in [Slot -> Booking \cup {None}] /\ late' \in SUBSET Write
    BY <2>1, <2>2, WriteTypes DEF Answers
  <2>4. /\ step' \in [Client -> Request \cup Told \cup {"quit"}]
        /\ step'[c] \in {"confirmed", "failed"}
        /\ \A d \in Client \ {c} : step'[d] = step[d]
    BY <2>1 DEF Goto, Typed, TypeOK, Told
  <2> QED BY <1>4, <2>3, <2>4 DEF PostBooking, Typed, TypeOK, FlowInv, Editing
<1>5. ASSUME NEW c \in Client, PickToCancel(c) \/ PickToModify(c) PROVE Typed'
  <2>1. /\ picked' \in [Client -> Reservation \cup {None}]
        /\ picked'[c] \in Reservation
        /\ \A d \in Client \ {c} : picked'[d] = picked[d]
    BY <1>5 DEF PickToCancel, PickToModify, Listed, Typed, TypeOK
  <2>2. /\ step' \in [Client -> Request \cup Told \cup {"quit"}]
        /\ step'[c] = "delete"
        /\ \A d \in Client \ {c} : step'[d] = step[d]
    <3>1. Goto(c, "delete")
      BY <1>5 DEF PickToCancel, PickToModify
    <3> QED BY <3>1, StepMoves DEF Request
  <2>3. /\ wish' \in [Client -> Wish \cup {None}]
        /\ \A d \in Client \ {c} : wish'[d] = wish[d]
    BY <1>5 DEF PickToCancel, PickToModify, Typed, TypeOK
  <2>4. UNCHANGED <<reservations, available, late>>
    BY <1>5 DEF PickToCancel, PickToModify
  <2>5. FlowInv'
    BY <2>1, <2>2, <2>3 DEF Typed, FlowInv
  <2> QED BY <2>1, <2>2, <2>3, <2>4, <2>5 DEF Typed, TypeOK
<1>6. ASSUME NEW c \in Client, DeletePicked(c) PROVE Typed'
  <2>1. reservations' \in [Slot -> Booking \cup {None}] /\ late' \in SUBSET Write
    <3>1. Cancellation(c) \in Write
      BY <1>6, CancellationType DEF DeletePicked, Typed, FlowInv, Editing
    <3>2. Answers(Cancellation(c))
      BY <1>6 DEF DeletePicked, Answers
    <3> QED BY <3>1, <3>2, WriteTypes
  <2>2. /\ step' \in [Client -> Request \cup Told \cup {"quit"}]
        /\ step'[c] \in {"cancelled", "cannot cancel"} \/ (step'[c] = "find new" /\ ~Cancels(c))
        /\ \A d \in Client \ {c} : step'[d] = step[d]
    <3>1. PICK where \in {"cancelled", "cannot cancel", "find new"} :
            Goto(c, where) /\ (where = "find new" => ~Cancels(c))
      BY <1>6 DEF DeletePicked, AfterRefusal
    <3>2. where \in Request \cup Told \cup {"quit"}
      BY DEF Request, Told
    <3> QED BY <3>1, <3>2, StepMoves
  <2>3. picked[c] \in Reservation
    BY <1>6 DEF DeletePicked, Typed, FlowInv, Editing
  <2>4. ~Cancels(c) => wish[c] \in Wish
    BY DEF Cancels, Typed, TypeOK
  <2> QED BY <1>6, <2>1, <2>2, <2>3, <2>4 DEF DeletePicked, Typed, TypeOK, FlowInv, Editing
<1>7. ASSUME NEW c \in Client, FindNew(c) PROVE Typed'
  <2>1. available' \in [Client -> SUBSET Table]
    <3>1. AvailableTables(wish[c]) \in SUBSET Table /\ OfferOnError \in SUBSET Table
      BY DEF AvailableTables, OfferOnError
    <3>2. available \in [Client -> SUBSET Table]
      BY DEF Typed, TypeOK
    <3> QED BY <1>7, <3>1, <3>2 DEF FindNew
  <2>2. /\ step' \in [Client -> Request \cup Told \cup {"quit"}]
        /\ step'[c] \in {"restore", "book new"}
        /\ \A d \in Client \ {c} : step'[d] = step[d]
    BY <1>7 DEF FindNew, Goto, Typed, TypeOK, Request
  <2>3. picked[c] \in Reservation /\ wish[c] \in Wish
    BY <1>7 DEF FindNew, Typed, FlowInv, Editing
  <2> QED BY <1>7, <2>1, <2>2, <2>3 DEF FindNew, Typed, TypeOK, FlowInv, Editing
<1>8. ASSUME NEW c \in Client, PostNew(c) PROVE Typed'
  <2>1. PICK t \in MatchTable(available[c]) :
          \/ Book(MovedBooking(c, t)) /\ Goto(c, "modified")
          \/ BookRefused(MovedBooking(c, t)) /\ Goto(c, "restore")
    BY <1>8 DEF PostNew
  <2>2. wish[c] \in Wish /\ picked[c] \in Reservation /\ t \in Table
    BY <1>8 DEF PostNew, Typed, TypeOK, FlowInv, Editing, MatchTable
  <2>3. MovedBooking(c, t) \in Write
    BY <2>2, MovedBookingType, ReservationIsWrite
  <2>4. reservations' \in [Slot -> Booking \cup {None}] /\ late' \in SUBSET Write
    BY <2>1, <2>3, WriteTypes DEF Answers
  <2>5. /\ step' \in [Client -> Request \cup Told \cup {"quit"}]
        /\ step'[c] \in {"modified", "restore"}
        /\ \A d \in Client \ {c} : step'[d] = step[d]
    BY <2>1 DEF Goto, Typed, TypeOK, Request, Told
  <2> QED BY <1>8, <2>2, <2>4, <2>5 DEF PostNew, Typed, TypeOK, FlowInv, Editing
<1>9. ASSUME NEW c \in Client, Restore(c) PROVE Typed'
  <2>1. picked[c] \in Write
    BY <1>9, ReservationIsWrite DEF Restore, Typed, FlowInv, Editing
  <2>2. reservations' \in [Slot -> Booking \cup {None}] /\ late' \in SUBSET Write
    BY <1>9, <2>1, WriteTypes DEF Restore, Answers
  <2> QED BY <1>9, <2>2 DEF Restore, Goto, Typed, TypeOK, FlowInv, Editing, Request, Told
<1>10. ASSUME NEW c \in Client, Quit(c) PROVE Typed'
  <2>1. late' \in SUBSET Write
    <3>1. CASE UNCHANGED late
      BY <3>1 DEF Typed, TypeOK
    <3>2. ASSUME NEW w \in UnderWay(c), MayBeLate(w) PROVE late' \in SUBSET Write
      BY <3>2, UnderWayType, LateGrows DEF Typed, TypeOK
    <3> QED BY <1>10, <3>1, <3>2 DEF Quit
  <2> QED BY <1>10, <2>1 DEF Quit, Goto, Typed, TypeOK, FlowInv, Editing
<1>11. ASSUME NEW w \in late, LateWrite(w) PROVE Typed'
  <2>1. reservations' \in [Slot -> Booking \cup {None}]
    BY <1>11, MakeTypes DEF LateWrite, Typed, TypeOK
  <2> QED BY <1>11, <2>1 DEF LateWrite, Typed, TypeOK, FlowInv
<1> QED BY <1>1, <1>2, <1>3, <1>4, <1>5, <1>6, <1>7, <1>8, <1>9, <1>10, <1>11 DEF Next, Flow

LEMMA TypedInit == Init => Typed
BY FlowAssumption
   DEF Init, FirstRequest, Typed, TypeOK, FlowInv, Editing, Request, Told

(* The flows' variables keep their types: no flow asks for a table without *)
(* a name, or for a reservation it has not picked (client.py:268-546).     *)
THEOREM TypeCorrect == Spec => []TypeOK
<1>1. Typed => TypeOK
  BY DEF Typed
<1> QED BY TypedInit, TypedStep, <1>1, PTL DEF Spec

LEMMA TypedAlways == Spec => []Typed
BY TypedInit, TypedStep, PTL DEF Spec

-------------------------------------------------------------------------------
(* Sizes: a listed reservation fits its table, so one that is restored     *)
(* does; an offer fits the party it was asked for.                         *)

Fits(r) == r.booking.party <= capacity[r.slot[1]]

LateFit == \A w \in late : w.booking # None => Fits(w)

SizeInv ==
    /\ CapacityRespected
    /\ LateFit
    /\ \A c \in Client : picked[c] # None => Fits(picked[c])
    /\ \A c \in Client : step[c] \in {"book", "book new"} =>
          \A t \in available[c] : wish[c].party <= capacity[t]

LEMMA MakeFits ==
    ASSUME Typed, CapacityRespected, NEW w \in Write, w.booking # None => Fits(w), Make(w)
    PROVE  CapacityRespected'
BY DEF Make, CapacityRespected, Fits, Write, Typed, TypeOK

(* A write that fits its table, whatever its answer, keeps what is stored  *)
(* and what is late within the tables.                                     *)
LEMMA WriteFits ==
    ASSUME Typed, SizeInv, NEW w \in Write, w.booking # None => Fits(w), Answers(w)
    PROVE  CapacityRespected' /\ LateFit'
<1>1. CapacityRespected'
  <2>1. CASE Make(w)
    BY <2>1, MakeFits DEF SizeInv
  <2>2. CASE UNCHANGED reservations
    BY <2>2 DEF SizeInv, CapacityRespected
  <2> QED BY <2>1, <2>2, Answered
<1>2. LateFit'
  BY Answered, LateGrows DEF SizeInv, LateFit, Fits
<1> QED BY <1>1, <1>2

(* The reservations that the flows ask for fit their tables. *)
LEMMA OwnBookingFits ==
    ASSUME NEW c \in Client, NEW t \in Table, wish[c].party <= capacity[t]
    PROVE  Fits(OwnBooking(c, t))
BY DEF Fits, OwnBooking

LEMMA MovedBookingFits ==
    ASSUME NEW c \in Client, NEW t \in Table, wish[c] \in Wish, picked[c] \in Reservation,
           wish[c].party <= capacity[t]
    PROVE  Fits(MovedBooking(c, t))
<1>1. MovedBooking(c, t).slot[1] = t
  BY DEF MovedBooking
<1> QED BY <1>1, MovedBookingType DEF Fits

LEMMA UnderWayFits ==
    ASSUME Typed, SizeInv, NEW c \in Client
    PROVE  \A w \in UnderWay(c) : w.booking # None => Fits(w)
<1> SUFFICES ASSUME NEW w \in UnderWay(c), w.booking # None PROVE Fits(w)
  OBVIOUS
<1> USE DEF Typed, TypeOK, FlowInv, Editing
<1>1. CASE step[c] = "book"
  <2>1. PICK t \in available[c] : w = OwnBooking(c, t)
    BY <1>1 DEF UnderWay
  <2>2. t \in Table /\ wish[c].party <= capacity[t]
    BY <1>1 DEF SizeInv
  <2> QED BY <2>1, <2>2, OwnBookingFits
<1>2. CASE step[c] = "delete"
  <2>1. w = Cancellation(c)
    BY <1>2 DEF UnderWay
  <2> QED BY <2>1 DEF Cancellation
<1>3. CASE step[c] = "book new"
  <2>1. PICK t \in MatchTable(available[c]) : w = MovedBooking(c, t)
    BY <1>3 DEF UnderWay
  <2>2. t \in available[c]
    BY DEF MatchTable
  <2>3. /\ t \in Table /\ wish[c] \in Wish /\ picked[c] \in Reservation
        /\ wish[c].party <= capacity[t]
    BY <1>3, <2>2 DEF SizeInv
  <2> QED BY <2>1, <2>3, MovedBookingFits
<1>4. CASE step[c] = "restore"
  <2>1. w = picked[c] /\ picked[c] \in Reservation
    BY <1>4 DEF UnderWay
  <2> QED BY <2>1, FlowAssumption DEF SizeInv
<1>5. CASE step[c] \notin {"book", "delete", "book new", "restore"}
  BY <1>5 DEF UnderWay
<1> QED BY <1>1, <1>2, <1>3, <1>4, <1>5

LEMMA SizeStep == Typed /\ SizeInv /\ [Next]_vars => SizeInv'
<1> USE FlowAssumption
<1> SUFFICES ASSUME Typed, SizeInv, [Next]_vars PROVE SizeInv'
  OBVIOUS
<1> USE DEF Typed, TypeOK
<1>1. CASE UNCHANGED vars
  BY <1>1 DEF vars, SizeInv, CapacityRespected, LateFit, Fits
<1>2. ASSUME NEW c \in Client, ReadRefused(c) PROVE SizeInv'
  BY <1>2 DEF ReadRefused, Goto, SizeInv, CapacityRespected, LateFit, Fits
<1>3. ASSUME NEW c \in Client, AskAvailability(c) PROVE SizeInv'
  <2>1. \A t \in available'[c] : wish'[c].party <= capacity[t]
    <3>1. PICK w \in Wish : /\ wish' = [wish EXCEPT ![c] = w]
                            /\ available' = [available EXCEPT ![c] = AvailableTables(w)]
      BY <1>3 DEF AskAvailability
    <3>2. wish'[c] = w /\ available'[c] = AvailableTables(w)
      BY <3>1
    <3>3. \A t \in AvailableTables(w) : t \in Table /\ capacity[t] >= w.party
      BY DEF AvailableTables
    <3>4. w.party \in Nat /\ \A t \in Table : capacity[t] \in Nat
      BY DEF Wish, Table
    <3> QED BY <3>2, <3>3, <3>4
  <2>2. \A d \in Client \ {c} :
          step'[d] = step[d] /\ wish'[d] = wish[d] /\ available'[d] = available[d]
    BY <1>3 DEF AskAvailability, Goto
  <2> QED BY <1>3, <2>1, <2>2 DEF AskAvailability, SizeInv, CapacityRespected, LateFit, Fits
<1>4. ASSUME NEW c \in Client, PostBooking(c) PROVE SizeInv'
  <2>1. PICK t \in available[c] :
          Book(OwnBooking(c, t)) \/ BookRefused(OwnBooking(c, t))
    BY <1>4 DEF PostBooking
  <2>2. step[c] = "book" /\ wish[c] \in Wish /\ t \in Table
    BY <1>4 DEF PostBooking, FlowInv
  <2>3. OwnBooking(c, t) \in Write /\ Fits(OwnBooking(c, t))
    BY <2>2, OwnBookingType, OwnBookingFits, ReservationIsWrite DEF SizeInv
  <2>4. CapacityRespected' /\ LateFit'
    BY <2>1, <2>3, WriteFits DEF Answers
  <2>5. step'[c] \in {"confirmed", "failed"} /\ \A d \in Client \ {c} : step'[d] = step[d]
    BY <1>4 DEF PostBooking, Goto
  <2> QED BY <1>4, <2>4, <2>5 DEF PostBooking, SizeInv, Fits
<1>5. ASSUME NEW c \in Client, PickToCancel(c) \/ PickToModify(c) PROVE SizeInv'
  <2>1. picked'[c] \in Listed /\ \A d \in Client \ {c} : picked'[d] = picked[d]
    BY <1>5 DEF PickToCancel, PickToModify
  <2>2. \A r \in Listed : Fits(r)
    <3> SUFFICES ASSUME NEW r \in Listed PROVE Fits(r)
      OBVIOUS
    <3>1. r.slot \in Slot /\ r.booking \in Booking /\ reservations[r.slot] = r.booking
      BY DEF Listed, Reservation
    <3>2. r.booking # None
      BY <3>1, FlowAssumption
    <3> QED BY <3>1, <3>2 DEF Fits, SizeInv, CapacityRespected
  <2>3. step'[c] = "delete" /\ \A d \in Client \ {c} : step'[d] = step[d]
    BY <1>5 DEF PickToCancel, PickToModify, Goto
  <2>4. \A d \in Client \ {c} : wish'[d] = wish[d]
    BY <1>5 DEF PickToCancel, PickToModify
  <2>5. UNCHANGED <<reservations, available, late>>
    BY <1>5 DEF PickToCancel, PickToModify
  <2>6. \A d \in Client : picked'[d] # None => Fits(picked'[d])
    BY <2>1, <2>2 DEF SizeInv
  <2> QED BY <2>3, <2>4, <2>5, <2>6 DEF SizeInv, CapacityRespected, LateFit, Fits
<1>6. ASSUME NEW c \in Client, DeletePicked(c) PROVE SizeInv'
  <2>1. CapacityRespected' /\ LateFit'
    <3>1. Cancellation(c) \in Write
      BY <1>6, CancellationType DEF DeletePicked, FlowInv, Editing
    <3>2. Cancellation(c).booking = None
      BY DEF Cancellation
    <3>3. Answers(Cancellation(c))
      BY <1>6 DEF DeletePicked, Answers
    <3> QED BY <3>1, <3>2, <3>3, WriteFits
  <2>2. /\ step'[c] \in {"cancelled", "cannot cancel", "find new"}
        /\ \A d \in Client \ {c} : step'[d] = step[d]
    BY <1>6 DEF DeletePicked, AfterRefusal, Goto
  <2> QED BY <1>6, <2>1, <2>2 DEF DeletePicked, SizeInv, Fits
<1>7. ASSUME NEW c \in Client, FindNew(c) PROVE SizeInv'
  <2>1. available'[c] = AvailableTables(wish[c]) \/ available'[c] = {}
    BY <1>7 DEF FindNew, OfferOnError
  <2>2. wish[c].party \in Nat /\ \A t \in Table : capacity[t] \in Nat
    BY <1>7 DEF FindNew, FlowInv, Wish, Table
  <2>3. \A t \in available'[c] : wish[c].party <= capacity[t]
    BY <2>1, <2>2 DEF AvailableTables
  <2>4. \A d \in Client \ {c} : step'[d] = step[d] /\ available'[d] = available[d]
    BY <1>7 DEF FindNew, Goto
  <2> QED BY <1>7, <2>3, <2>4 DEF FindNew, SizeInv, CapacityRespected, LateFit, Fits
<1>8. ASSUME NEW c \in Client, PostNew(c) PROVE SizeInv'
  <2>1. PICK t \in available[c] :
          Book(MovedBooking(c, t)) \/ BookRefused(MovedBooking(c, t))
    BY <1>8 DEF PostNew, MatchTable
  <2>2. /\ step[c] = "book new" /\ wish[c] \in Wish /\ picked[c] \in Reservation
        /\ t \in Table
    BY <1>8 DEF PostNew, FlowInv, Editing
  <2>3. MovedBooking(c, t) \in Write /\ Fits(MovedBooking(c, t))
    BY <2>2, MovedBookingType, MovedBookingFits, ReservationIsWrite DEF SizeInv
  <2>4. CapacityRespected' /\ LateFit'
    BY <2>1, <2>3, WriteFits DEF Answers
  <2>5. step'[c] \in {"modified", "restore"} /\ \A d \in Client \ {c} : step'[d] = step[d]
    BY <1>8 DEF PostNew, Goto
  <2> QED BY <1>8, <2>4, <2>5 DEF PostNew, SizeInv, Fits
<1>9. ASSUME NEW c \in Client, Restore(c) PROVE SizeInv'
  <2>1. picked[c] \in Reservation
    BY <1>9 DEF Restore, FlowInv, Editing
  <2>2. picked[c] \in Write /\ Fits(picked[c])
    BY <2>1, ReservationIsWrite DEF SizeInv
  <2>3. CapacityRespected' /\ LateFit'
    BY <1>9, <2>2, WriteFits DEF Restore, Answers
  <2> QED BY <1>9, <2>3 DEF Restore, Goto, SizeInv, Fits
<1>10. ASSUME NEW c \in Client, Quit(c) PROVE SizeInv'
  <2>1. LateFit'
    <3>1. CASE UNCHANGED late
      BY <3>1 DEF SizeInv, LateFit, Fits
    <3>2. ASSUME NEW w \in UnderWay(c), MayBeLate(w) PROVE LateFit'
      <4>1. w.booking # None => Fits(w)
        BY UnderWayFits
      <4>2. late' \subseteq late \cup {w}
        BY <3>2, LateGrows
      <4> QED BY <4>1, <4>2 DEF SizeInv, LateFit, Fits
    <3> QED BY <1>10, <3>1, <3>2 DEF Quit
  <2> QED BY <1>10, <2>1 DEF Quit, Goto, SizeInv, CapacityRespected, Fits
<1>11. ASSUME NEW w \in late, LateWrite(w) PROVE SizeInv'
  <2>1. CapacityRespected'
    BY <1>11, MakeFits DEF LateWrite, SizeInv, LateFit
  <2> QED BY <1>11, <2>1 DEF LateWrite, SizeInv, LateFit, Fits
<1> QED BY <1>1, <1>2, <1>3, <1>4, <1>5, <1>6, <1>7, <1>8, <1>9, <1>10, <1>11 DEF Next, Flow

(* No party sits at a table too small for it, though the service books     *)
(* what it is told: whatever clients do at once, are refused or leave half *)
(* done (reservation_service.py:298-345, client.py:158-169, 446-503).      *)
THEOREM NobodyCramped == Spec => []CapacityRespected
<1>1. Init => SizeInv
  BY DEF Init, FirstRequest, SizeInv, CapacityRespected, LateFit
<1>2. SizeInv => CapacityRespected
  BY DEF SizeInv
<1> QED BY TypedAlways, <1>1, SizeStep, <1>2, PTL DEF Spec

-------------------------------------------------------------------------------
(* One reservation each: a guest books once, and a reservation is booked   *)
(* anew only by the editor that has removed it.  Where a booking that was  *)
(* given up may still appear is counted apart: a guest holds one slot for  *)
(* sure, besides those where one of its late bookings belongs.             *)

Holds(c, s) == reservations[s] # None /\ reservations[s].customer = c

Pending(c, s) == \E w \in late : w.booking # None /\ w.booking.customer = c /\ w.slot = s

Has(c, s) == Holds(c, s) \/ Pending(c, s)
Sure(c, s) == Holds(c, s) /\ ~Pending(c, s)

HasBooked(c) == step[c] \notin {"availability", "book"}
PickedFrom(d, c) == picked[d] # None /\ picked[d].booking.customer = c
Away == {"find new", "book new", "restore"}

OneInv ==
    /\ \A c \in Client : \A s, t \in Slot : Sure(c, s) /\ Sure(c, t) => s = t
    /\ \A c \in Client : ~HasBooked(c) => c \notin Editor /\ \A s \in Slot : ~Has(c, s)
    /\ \A c, d \in Client : PickedFrom(d, c) => HasBooked(c)
    /\ \A d \in Client : step[d] \in {"list"} \cup Editing => d \in Editor
    /\ \A d \in Client : step[d] = "list" =>
          \A c \in Client : \A s, t \in Slot : Has(c, s) /\ Has(c, t) => s = t
    /\ \A c, d \in Client : step[d] = "delete" /\ PickedFrom(d, c) =>
          \A s \in Slot : Has(c, s) => s = picked[d].slot
    /\ \A c, d \in Client : step[d] \in Away /\ PickedFrom(d, c) =>
          \A s \in Slot : ~Sure(c, s)
    /\ late = {} => \A d \in Client : step[d] = "delete" =>
          reservations[picked[d].slot] = picked[d].booking

(* One more late write is one more slot, at most, where one appears.       *)
LEMMA PendingGrows ==
    ASSUME NEW w \in Write, late \subseteq late', late' \subseteq late \cup {w}
    PROVE  /\ \A c \in Client, s \in Slot : Pending(c, s) => Pending(c, s)'
           /\ \A c \in Client, s \in Slot :
                Pending(c, s)' => \/ Pending(c, s)
                                  \/ w.booking # None /\ w.booking.customer = c /\ w.slot = s
BY DEF Pending

(* A booking or its refusal, late or not, leaves what others have, and     *)
(* every slot that was taken, as they were; it is about one slot; and it   *)
(* makes nothing sure where it is refused.                                 *)
LEMMA BookedOnce ==
    ASSUME Typed, NEW w \in Reservation, Book(w) \/ BookRefused(w)
    PROVE  /\ late \subseteq late' /\ late' \subseteq late \cup {w}
           /\ \A c \in Client \ {w.booking.customer}, t \in Slot :
                (Has(c, t)' <=> Has(c, t)) /\ (Sure(c, t)' <=> Sure(c, t))
           /\ \A t \in Slot : Has(w.booking.customer, t)' =>
                Has(w.booking.customer, t) \/ t = w.slot
           /\ \A t \in Slot : Sure(w.booking.customer, t)' =>
                Sure(w.booking.customer, t) \/ t = w.slot
           /\ BookRefused(w) => \A t \in Slot :
                Sure(w.booking.customer, t)' => Sure(w.booking.customer, t)
           /\ \A t \in Slot : reservations[t] # None => reservations'[t] = reservations[t]
<1> USE FlowAssumption
<1> DEFINE g == w.booking.customer
<1>1. late \subseteq late' /\ late' \subseteq late \cup {w}
  BY LateGrows DEF Book, BookRefused
<1>2. w \in Write /\ w.booking # None /\ g \in Client /\ w.slot \in Slot
  BY ReservationIsWrite DEF Reservation, Booking
<1>3. /\ \A c \in Client, s \in Slot : Pending(c, s) => Pending(c, s)'
      /\ \A c \in Client, s \in Slot :
           Pending(c, s)' => Pending(c, s) \/ (g = c /\ w.slot = s)
  BY <1>1, <1>2, PendingGrows
<1>4. /\ \A t \in Slot : reservations[t] # None => reservations'[t] = reservations[t]
      /\ \A c \in Client \ {g}, t \in Slot : Holds(c, t)' <=> Holds(c, t)
      /\ \A t \in Slot : Holds(g, t)' => Holds(g, t) \/ t = w.slot
  <2>1. CASE UNCHANGED reservations
    BY <2>1 DEF Holds
  <2>2. CASE reservations[w.slot] = None /\ Make(w)
    <3>1. /\ reservations'[w.slot] = w.booking
          /\ \A t \in Slot \ {w.slot} : reservations'[t] = reservations[t]
      BY <1>2, <2>2 DEF Make, Typed, TypeOK
    <3> QED BY <1>2, <2>2, <3>1 DEF Holds
  <2> QED BY <2>1, <2>2 DEF Book, BookRefused
<1>5. BookRefused(w) => \A t \in Slot : Holds(g, t)' => Holds(g, t)
  BY DEF BookRefused, Holds
<1> HIDE DEF g
<1> QED
  <2>1. \A c \in Client \ {g}, t \in Slot :
          (Has(c, t)' <=> Has(c, t)) /\ (Sure(c, t)' <=> Sure(c, t))
    BY <1>3, <1>4 DEF Has, Sure
  <2>2. \A t \in Slot : /\ Has(g, t)' => Has(g, t) \/ t = w.slot
                        /\ Sure(g, t)' => Sure(g, t) \/ t = w.slot
    BY <1>2, <1>3, <1>4 DEF Has, Sure
  <2>3. BookRefused(w) => \A t \in Slot : Sure(g, t)' => Sure(g, t)
    BY <1>2, <1>3, <1>5 DEF Sure
  <2> QED BY <1>1, <1>4, <2>1, <2>2, <2>3 DEF g

(* A late write takes what was held, or puts what was pending.             *)
LEMMA LateTakes ==
    ASSUME Typed, NEW w \in late, LateWrite(w)
    PROVE  \A c \in Client, s \in Slot :
             (Has(c, s)' => Has(c, s)) /\ (Sure(c, s)' => Sure(c, s))
<1> SUFFICES ASSUME NEW c \in Client, NEW s \in Slot
             PROVE  (Has(c, s)' => Has(c, s)) /\ (Sure(c, s)' => Sure(c, s))
  OBVIOUS
<1>1. w \in Write
  BY DEF Typed, TypeOK
<1>2. /\ reservations'[w.slot] = w.booking
      /\ \A t \in Slot \ {w.slot} : reservations'[t] = reservations[t]
  BY <1>1 DEF LateWrite, Make, Write, Typed, TypeOK
<1>3. Pending(c, s)' <=> Pending(c, s)
  BY DEF LateWrite, Pending
<1>4. Holds(c, s)' => Holds(c, s) \/ Pending(c, s)
  BY <1>2 DEF Holds, Pending
<1> QED BY <1>3, <1>4 DEF Has, Sure

LEMMA OneStep ==
    (\A d, e \in Editor : d = e) =>
        (Typed /\ OneInv /\ [Next]_vars => OneInv')
<1> USE FlowAssumption
<1> SUFFICES ASSUME \A d, e \in Editor : d = e, Typed, OneInv, [Next]_vars
             PROVE  OneInv'
  OBVIOUS
<1> USE DEF Typed, TypeOK
<1>1. CASE UNCHANGED vars
  BY <1>1 DEF vars, OneInv, Holds, Pending, Has, Sure, HasBooked, PickedFrom
<1>2. ASSUME NEW c \in Client, ReadRefused(c) \/ Quit(c) PROVE OneInv'
  <2>1. UNCHANGED <<reservations, picked>>
    BY <1>2 DEF ReadRefused, Quit
  <2>2. /\ step'[c] \in {"failed", "quit"}
        /\ \A d \in Client \ {c} : step'[d] = step[d]
    BY <1>2 DEF ReadRefused, Quit, Goto
  <2>3. /\ \A d \in Client : HasBooked(d) => HasBooked(d)'
        /\ HasBooked(c)'
    BY <2>2 DEF HasBooked
  <2>4. /\ \A d, e \in Client : PickedFrom(d, e)' <=> PickedFrom(d, e)
        /\ \A d \in Client, s \in Slot : Holds(d, s)' <=> Holds(d, s)
    BY <2>1 DEF PickedFrom, Holds
  <2>5. \A d \in Client : step'[d] \in {"list"} \cup Editing =>
          d # c /\ step'[d] = step[d]
    BY <2>2 DEF Editing
  <2>6. CASE UNCHANGED late
    <3>1. \A d \in Client, s \in Slot :
            (Has(d, s)' <=> Has(d, s)) /\ (Sure(d, s)' <=> Sure(d, s))
      BY <2>4, <2>6 DEF Pending, Has, Sure
    <3> QED BY <2>1, <2>3, <2>4, <2>5, <2>6, <3>1 DEF OneInv, Editing, Away
  <2>7. ASSUME NEW w \in UnderWay(c), MayBeLate(w) PROVE OneInv'
    <3>1. /\ late \subseteq late' /\ late' \subseteq late \cup {w}
          /\ w \in Write
      BY <2>7, LateGrows, UnderWayType
    <3>2. /\ \A d \in Client, s \in Slot : Pending(d, s) => Pending(d, s)'
          /\ \A d \in Client, s \in Slot :
               Pending(d, s)' => \/ Pending(d, s)
                                 \/ w.booking # None /\ w.booking.customer = d /\ w.slot = s
      BY <3>1, PendingGrows
    <3>3. \A d \in Client, s \in Slot : Sure(d, s)' => Sure(d, s)
      BY <2>4, <3>2 DEF Sure
    <3>4. CASE step[c] = "book" \/ w.booking = None
      <4>1. \A d \in Client \ {c}, s \in Slot : Has(d, s)' => Has(d, s)
        <5>1. w.booking # None => w.booking.customer = c
          <6> SUFFICES ASSUME step[c] = "book" PROVE w.booking.customer = c
            BY <3>4
          <6>1. PICK t \in available[c] : w = OwnBooking(c, t)
            BY <2>7 DEF UnderWay
          <6> QED BY <6>1 DEF OwnBooking
        <5> QED BY <2>4, <3>2, <5>1 DEF Has
      <4>2. \A s \in Slot : Has(c, s)' => Has(c, s) \/ (step[c] = "book" /\ s = w.slot)
        BY <2>4, <3>2, <3>4 DEF Has
      <4>3. step[c] = "book" => \A s \in Slot : ~Has(c, s)
        BY DEF OneInv, HasBooked
      <4>4. \A d \in Client : PickedFrom(d, c) /\ step[c] = "book" => FALSE
        BY DEF OneInv, HasBooked
      <4>5. \A d \in Client : step'[d] = "list" =>
              \A e \in Client : \A s, t \in Slot : Has(e, s)' /\ Has(e, t)' => s = t
        BY <2>5, <4>1, <4>2, <4>3 DEF OneInv
      <4>6. \A e, d \in Client : step'[d] = "delete" /\ PickedFrom(d, e)' =>
              \A s \in Slot : Has(e, s)' => s = picked'[d].slot
        <5> SUFFICES ASSUME NEW e \in Client, NEW d \in Client, step'[d] = "delete",
                            PickedFrom(d, e)', NEW s \in Slot, Has(e, s)'
                     PROVE  s = picked[d].slot
          BY <2>1
        <5>1. step[d] = "delete" /\ PickedFrom(d, e)
          BY <2>4, <2>5 DEF Editing
        <5>2. Has(e, s)
          BY <4>1, <4>2, <4>4, <5>1
        <5> QED BY <5>1, <5>2 DEF OneInv
      <4>7. \A d \in Client : ~HasBooked(d)' => d \notin Editor /\ \A s \in Slot : ~Has(d, s)'
        BY <2>3, <4>1 DEF OneInv
      <4> QED
        BY <2>1, <2>3, <2>4, <2>5, <3>1, <3>3, <4>5, <4>6, <4>7 DEF OneInv, Editing, Away
    <3>5. CASE step[c] # "book" /\ w.booking # None
      <4>1. step[c] \in {"book new", "restore"}
        <5>1. CASE step[c] = "delete"
          <6>1. w = Cancellation(c)
            BY <2>7, <5>1 DEF UnderWay
          <6> QED BY <3>5, <6>1 DEF Cancellation
        <5>2. CASE step[c] \notin {"book", "delete", "book new", "restore"}
          BY <2>7, <5>2 DEF UnderWay
        <5> QED BY <3>5, <5>1, <5>2
      <4>2. \A d \in Client : step'[d] \notin {"list"} \cup Editing
        BY <2>5, <4>1 DEF OneInv, Editing
      <4>3. PickedFrom(c, w.booking.customer) /\ w.booking.customer \in Client
        <5>1. picked[c] \in Reservation /\ picked[c].booking.customer \in Client
          BY <4>1 DEF FlowInv, Editing, Reservation, Booking
        <5>2. CASE step[c] = "book new"
          <6>1. PICK t \in MatchTable(available[c]) : w = MovedBooking(c, t)
            BY <2>7, <5>2 DEF UnderWay
          <6>2. t \in Table /\ wish[c] \in Wish
            BY <5>2 DEF MatchTable, FlowInv
          <6> QED BY <5>1, <6>1, <6>2, MovedBookingType DEF PickedFrom
        <5>3. CASE step[c] = "restore"
          BY <2>7, <5>1, <5>3 DEF UnderWay, PickedFrom
        <5> QED BY <4>1, <5>2, <5>3
      <4>4. \A d \in Client : ~HasBooked(d)' => d \notin Editor /\ \A s \in Slot : ~Has(d, s)'
        BY <2>3, <2>4, <3>2, <4>3 DEF OneInv, Has
      <4>5. late' = {} => late = {}
        BY <3>1
      <4> QED BY <2>3, <2>4, <3>3, <4>2, <4>4, <4>5 DEF OneInv, Editing, Away
    <3> QED BY <3>4, <3>5
  <2> QED BY <1>2, <2>6, <2>7 DEF ReadRefused, Quit
<1>3. ASSUME NEW c \in Client, AskAvailability(c) PROVE OneInv'
  <2>1. UNCHANGED <<reservations, picked, late>>
    BY <1>3 DEF AskAvailability
  <2>2. /\ step[c] = "availability" /\ step'[c] \in {"none available", "book"}
        /\ \A d \in Client \ {c} : step'[d] = step[d]
    BY <1>3 DEF AskAvailability, Goto
  <2>3. \A d \in Client : HasBooked(d) => HasBooked(d)'
    BY <2>2 DEF HasBooked
  <2>4. /\ \A d, e \in Client : PickedFrom(d, e)' <=> PickedFrom(d, e)
        /\ \A d \in Client, s \in Slot :
             (Has(d, s)' <=> Has(d, s)) /\ (Sure(d, s)' <=> Sure(d, s))
    BY <2>1 DEF PickedFrom, Holds, Pending, Has, Sure
  <2>5. \A d \in Client : step'[d] \in {"list"} \cup Editing => step'[d] = step[d]
    BY <2>2 DEF Editing
  <2>6. \A d \in Client : ~HasBooked(d)' => d \notin Editor /\ \A s \in Slot : ~Has(d, s)'
    BY <2>3, <2>4 DEF OneInv
  <2>7. \A d, e \in Client : PickedFrom(d, e)' => HasBooked(e)'
    BY <2>3, <2>4 DEF OneInv
  <2>8. \A d \in Client : step'[d] \in {"list"} \cup Editing => d \in Editor
    BY <2>5 DEF OneInv
  <2>9. \A d \in Client : step'[d] = "list" =>
          \A e \in Client : \A s, t \in Slot : Has(e, s)' /\ Has(e, t)' => s = t
    BY <2>4, <2>5 DEF OneInv
  <2>10. \A e, d \in Client : step'[d] = "delete" /\ PickedFrom(d, e)' =>
           \A s \in Slot : Has(e, s)' => s = picked'[d].slot
    <3> SUFFICES ASSUME NEW e \in Client, NEW d \in Client, step'[d] = "delete",
                        PickedFrom(d, e)', NEW s \in Slot, Has(e, s)'
                 PROVE  s = picked[d].slot
      BY <2>1
    <3>1. step[d] = "delete" /\ PickedFrom(d, e) /\ Has(e, s)
      BY <2>4, <2>5 DEF Editing
    <3> QED BY <3>1 DEF OneInv
  <2>11. \A e, d \in Client : step'[d] \in Away /\ PickedFrom(d, e)' =>
           \A s \in Slot : ~Sure(e, s)'
    BY <2>4, <2>5 DEF OneInv, Editing, Away
  <2>12. late' = {} => \A d \in Client : step'[d] = "delete" =>
           reservations'[picked'[d].slot] = picked'[d].booking
    BY <2>1, <2>5 DEF OneInv, Editing
  <2>13. \A d \in Client : \A s, t \in Slot : Sure(d, s)' /\ Sure(d, t)' => s = t
    BY <2>4 DEF OneInv
  <2> QED BY <2>6, <2>7, <2>8, <2>9, <2>10, <2>11, <2>12, <2>13 DEF OneInv
<1>4. ASSUME NEW c \in Client, PostBooking(c) PROVE OneInv'
  <2>1. PICK t \in available[c] :
          Book(OwnBooking(c, t)) \/ BookRefused(OwnBooking(c, t))
    BY <1>4 DEF PostBooking
  <2> DEFINE w == OwnBooking(c, t)
  <2>2. wish[c] \in Wish /\ t \in Table /\ step[c] = "book"
    BY <1>4 DEF PostBooking, FlowInv
  <2>3. w \in Reservation /\ w.booking.customer = c
    BY <2>2, OwnBookingType DEF OwnBooking
  <2> HIDE DEF w
  <2>4. /\ ~HasBooked(c) /\ \A s \in Slot : ~Has(c, s)
        /\ \A d \in Client : ~PickedFrom(d, c)
    BY <2>2 DEF HasBooked, OneInv
  <2>5. /\ late \subseteq late'
        /\ \A d \in Client \ {c}, s \in Slot :
             (Has(d, s)' <=> Has(d, s)) /\ (Sure(d, s)' <=> Sure(d, s))
        /\ \A s \in Slot : Has(c, s)' => s = w.slot
        /\ \A s \in Slot : reservations[s] # None => reservations'[s] = reservations[s]
    BY <2>1, <2>3, <2>4, BookedOnce DEF w
  <2>6. UNCHANGED picked
    BY <1>4 DEF PostBooking
  <2>7. /\ step'[c] \in {"confirmed", "failed"}
        /\ \A d \in Client \ {c} : step'[d] = step[d]
    BY <1>4 DEF PostBooking, Goto
  <2>8. \A d \in Client : (HasBooked(d) => HasBooked(d)') /\ (HasBooked(d)' /\ d # c => HasBooked(d))
    BY <2>7 DEF HasBooked
  <2>9. \A d, e \in Client : PickedFrom(d, e)' <=> PickedFrom(d, e)
    BY <2>6 DEF PickedFrom
  <2>10. \A d \in Client : step'[d] \in {"list"} \cup Editing => step'[d] = step[d]
    BY <2>7 DEF Editing
  <2>11. HasBooked(c)'
    BY <2>7 DEF HasBooked
  <2>12. \A d \in Client : \A s, u \in Slot : Sure(d, s)' /\ Sure(d, u)' => s = u
    BY <2>5 DEF OneInv, Has, Sure
  <2>13. \A d \in Client : ~HasBooked(d)' => d \notin Editor /\ \A s \in Slot : ~Has(d, s)'
    BY <2>5, <2>8, <2>11 DEF OneInv
  <2>14. \A d \in Client : step'[d] = "list" =>
           \A e \in Client : \A s, u \in Slot : Has(e, s)' /\ Has(e, u)' => s = u
    BY <2>5, <2>10 DEF OneInv
  <2>15. \A e, d \in Client : step'[d] = "delete" /\ PickedFrom(d, e)' =>
           \A s \in Slot : Has(e, s)' => s = picked'[d].slot
    <3> SUFFICES ASSUME NEW e \in Client, NEW d \in Client, step'[d] = "delete",
                        PickedFrom(d, e)', NEW s \in Slot, Has(e, s)'
                 PROVE  s = picked[d].slot
      BY <2>6
    <3>1. step[d] = "delete" /\ PickedFrom(d, e) /\ e # c
      BY <2>4, <2>9, <2>10 DEF Editing
    <3>2. Has(e, s)
      BY <2>5, <3>1
    <3> QED BY <3>1, <3>2 DEF OneInv
  <2>16. \A e, d \in Client : step'[d] \in Away /\ PickedFrom(d, e)' =>
           \A s \in Slot : ~Sure(e, s)'
    <3> SUFFICES ASSUME NEW e \in Client, NEW d \in Client, step'[d] \in Away,
                        PickedFrom(d, e)', NEW s \in Slot
                 PROVE  ~Sure(e, s)'
      OBVIOUS
    <3>1. step[d] \in Away /\ PickedFrom(d, e) /\ e # c
      BY <2>4, <2>9, <2>10 DEF Editing, Away
    <3>2. ~Sure(e, s)
      BY <3>1 DEF OneInv
    <3> QED BY <2>5, <3>1, <3>2
  <2>17. late' = {} => \A d \in Client : step'[d] = "delete" =>
           reservations'[picked[d].slot] = picked[d].booking
    <3> SUFFICES ASSUME late' = {}, NEW d \in Client, step'[d] = "delete"
                 PROVE  reservations'[picked[d].slot] = picked[d].booking
      OBVIOUS
    <3>1. step[d] = "delete" /\ late = {}
      BY <2>5, <2>10 DEF Editing
    <3>2. reservations[picked[d].slot] = picked[d].booking
      BY <3>1 DEF OneInv
    <3>3. picked[d].slot \in Slot /\ picked[d].booking # None
      BY <3>1 DEF FlowInv, Editing, Reservation
    <3> QED BY <2>5, <3>2, <3>3
  <2>18. \A d \in Client : step'[d] \in {"list"} \cup Editing => d \in Editor
    BY <2>10 DEF OneInv
  <2>19. \A e, d \in Client : PickedFrom(d, e)' => HasBooked(e)'
    BY <2>8, <2>9 DEF OneInv
  <2> QED BY <2>6, <2>12, <2>13, <2>14, <2>15, <2>16, <2>17, <2>18, <2>19 DEF OneInv
<1>5. ASSUME NEW c \in Client, PickToCancel(c) \/ PickToModify(c) PROVE OneInv'
  <2>1. picked'[c] \in Listed /\ \A d \in Client \ {c} : picked'[d] = picked[d]
    BY <1>5 DEF PickToCancel, PickToModify
  <2>2. /\ step[c] = "list" /\ step'[c] = "delete"
        /\ \A d \in Client \ {c} : step'[d] = step[d]
    BY <1>5 DEF PickToCancel, PickToModify, Goto
  <2>3. UNCHANGED <<reservations, late>>
    BY <1>5 DEF PickToCancel, PickToModify
  <2> DEFINE g == picked'[c].booking.customer
  <2>4. /\ picked'[c].slot \in Slot /\ picked'[c].booking \in Booking /\ g \in Client
        /\ reservations[picked'[c].slot] = picked'[c].booking
    BY <2>1 DEF Listed, Reservation, Booking
  <2>5. Has(g, picked'[c].slot)
    BY <2>4 DEF Holds, Has
  <2>6. /\ \A d \in Client \ {c}, e \in Client : PickedFrom(d, e)' <=> PickedFrom(d, e)
        /\ \A e \in Client : PickedFrom(c, e)' => e = g
    BY <2>1 DEF PickedFrom
  <2> HIDE DEF g
  <2>7. HasBooked(g)
    BY <2>4, <2>5 DEF OneInv
  <2>8. \A d \in Client : HasBooked(d)' <=> HasBooked(d)
    BY <2>2 DEF HasBooked
  <2>9. c \in Editor /\ \A d \in Client \ {c} : step[d] \notin {"list"} \cup Editing
    BY <2>2 DEF OneInv
  <2>10. \A d \in Client \ {c} : step'[d] \notin {"list"} \cup Editing
    BY <2>2, <2>9
  <2>11. \A d \in Client, s \in Slot :
           (Has(d, s)' <=> Has(d, s)) /\ (Sure(d, s)' <=> Sure(d, s))
    BY <2>3 DEF Holds, Pending, Has, Sure
  <2>12. \A d, e \in Client : PickedFrom(d, e)' => HasBooked(e)'
    BY <2>4, <2>6, <2>7, <2>8 DEF OneInv
  <2>13. \A s \in Slot : Has(g, s) => s = picked'[c].slot
    BY <2>2, <2>4, <2>5 DEF OneInv
  <2>14. \A e, d \in Client : step'[d] = "delete" /\ PickedFrom(d, e)' =>
           \A s \in Slot : Has(e, s)' => s = picked'[d].slot
    BY <2>6, <2>10, <2>11, <2>13 DEF Editing
  <2>15. \A d \in Client : step'[d] # "list" /\ step'[d] \notin Away
    BY <2>2, <2>10 DEF Editing, Away
  <2>16. \A d \in Client : step'[d] \in {"list"} \cup Editing => d \in Editor
    BY <2>9, <2>10
  <2>17. \A d \in Client : step'[d] = "delete" =>
           reservations'[picked'[d].slot] = picked'[d].booking
    BY <2>3, <2>4, <2>10 DEF Editing
  <2>18. \A d \in Client : ~HasBooked(d)' => d \notin Editor /\ \A s \in Slot : ~Has(d, s)'
    BY <2>8, <2>11 DEF OneInv
  <2>19. \A d \in Client : \A s, t \in Slot : Sure(d, s)' /\ Sure(d, t)' => s = t
    BY <2>11 DEF OneInv
  <2> QED BY <2>12, <2>14, <2>15, <2>16, <2>17, <2>18, <2>19 DEF OneInv
<1>6. ASSUME NEW c \in Client, DeletePicked(c) PROVE OneInv'
  <2> DEFINE w == Cancellation(c)
             s == picked[c].slot
  <2>1. step[c] = "delete" /\ picked[c] \in Reservation /\ c \in Editor
    BY <1>6 DEF DeletePicked, FlowInv, Editing, OneInv
  <2>2. \A d \in Client : step[d] \in {"list"} \cup Editing => d = c
    BY <2>1 DEF OneInv
  <2>3. s \in Slot /\ w.slot = s /\ w.booking = None /\ w \in Write
    BY <2>1, CancellationType DEF Reservation, Cancellation
  <2>4. Answers(w)
    BY <1>6 DEF DeletePicked, Answers
  <2>5. step'[c] = "find new" => Make(w)
    BY <1>6, <2>1 DEF DeletePicked, AfterRefusal, Goto, Delete
  <2>6. /\ UNCHANGED picked
        /\ step'[c] \in {"cancelled", "cannot cancel", "find new"}
        /\ \A d \in Client \ {c} : step'[d] = step[d]
    BY <1>6 DEF DeletePicked, AfterRefusal, Goto
  <2> HIDE DEF w, s
  <2>7. /\ late \subseteq late' /\ late' \subseteq late \cup {w}
        /\ Make(w) \/ UNCHANGED reservations
    BY <2>4, Answered, LateGrows
  <2>8. \A d \in Client, t \in Slot : Holds(d, t)' => Holds(d, t)
    BY <2>3, <2>7 DEF Make, Holds
  <2>9. \A d \in Client, t \in Slot : Pending(d, t)' <=> Pending(d, t)
    BY <2>3, <2>7, PendingGrows
  <2>10. \A d \in Client, t \in Slot :
           (Has(d, t)' => Has(d, t)) /\ (Sure(d, t)' => Sure(d, t))
    BY <2>8, <2>9 DEF Has, Sure
  <2>11. \A d \in Client : HasBooked(d)' <=> HasBooked(d)
    BY <2>1, <2>6 DEF HasBooked
  <2>12. \A d, e \in Client : PickedFrom(d, e)' <=> PickedFrom(d, e)
    BY <2>6 DEF PickedFrom
  <2>13. \A d \in Client : /\ step'[d] \notin {"list", "delete"}
                           /\ step'[d] \in Editing => d = c /\ step'[c] = "find new"
    BY <2>2, <2>6 DEF Editing
  <2>14. \A e \in Client : step'[c] = "find new" /\ PickedFrom(c, e) =>
           \A t \in Slot : ~Sure(e, t)'
    <3> SUFFICES ASSUME NEW e \in Client, step'[c] = "find new", PickedFrom(c, e),
                        NEW t \in Slot, Sure(e, t)'
                 PROVE  FALSE
      OBVIOUS
    <3>1. Has(e, t) /\ Holds(e, t)'
      BY <2>10 DEF Has, Sure
    <3>2. t = s
      BY <2>1, <3>1 DEF OneInv, s
    <3>3. reservations'[s] = None
      BY <2>3, <2>5 DEF Make
    <3> QED BY <3>1, <3>2, <3>3 DEF Holds
  <2>15. \A e, d \in Client : step'[d] \in Away /\ PickedFrom(d, e)' =>
           \A t \in Slot : ~Sure(e, t)'
    BY <2>12, <2>13, <2>14 DEF Away, Editing
  <2>16. \A d \in Client : step'[d] \in {"list"} \cup Editing => d \in Editor
    BY <2>1, <2>13
  <2>17. \A d \in Client : ~HasBooked(d)' => d \notin Editor /\ \A t \in Slot : ~Has(d, t)'
    BY <2>10, <2>11 DEF OneInv
  <2>18. \A d \in Client : \A t, u \in Slot : Sure(d, t)' /\ Sure(d, u)' => t = u
    BY <2>10 DEF OneInv
  <2>19. \A e, d \in Client : PickedFrom(d, e)' => HasBooked(e)'
    BY <2>11, <2>12 DEF OneInv
  <2> QED BY <2>13, <2>15, <2>16, <2>17, <2>18, <2>19 DEF OneInv
<1>7. ASSUME NEW c \in Client, FindNew(c) PROVE OneInv'
  <2>1. /\ step[c] = "find new" /\ step'[c] \in {"restore", "book new"}
        /\ \A d \in Client \ {c} : step'[d] = step[d]
    BY <1>7 DEF FindNew, Goto
  <2>2. UNCHANGED <<reservations, picked, late>>
    BY <1>7 DEF FindNew
  <2>3. \A d \in Client : HasBooked(d)' <=> HasBooked(d)
    BY <2>1 DEF HasBooked
  <2>4. /\ \A d, e \in Client : PickedFrom(d, e)' <=> PickedFrom(d, e)
        /\ \A d \in Client, s \in Slot :
             (Has(d, s)' <=> Has(d, s)) /\ (Sure(d, s)' <=> Sure(d, s))
    BY <2>2 DEF PickedFrom, Holds, Pending, Has, Sure
  <2>5. \A d \in Client : /\ step'[d] \in Away <=> step[d] \in Away
                          /\ step'[d] = "delete" <=> step[d] = "delete"
                          /\ step'[d] = "list" <=> step[d] = "list"
    BY <2>1 DEF Away
  <2>6. \A d \in Client : step'[d] \in Editing => step[d] \in Editing
    BY <2>1 DEF Editing
  <2> QED BY <2>2, <2>3, <2>4, <2>5, <2>6 DEF OneInv
<1>8. ASSUME NEW c \in Client, PostNew(c) \/ Restore(c) PROVE OneInv'
  <2>1. /\ step[c] \in {"book new", "restore"} /\ picked[c] \in Reservation
        /\ c \in Editor
    BY <1>8 DEF PostNew, Restore, FlowInv, Editing, OneInv
  <2>2. PICK w \in Reservation :
          /\ Book(w) \/ BookRefused(w)
          /\ w.booking.customer = picked[c].booking.customer
          /\ step'[c] = "restore" => BookRefused(w)
    <3>1. CASE PostNew(c)
      <4>1. PICK t \in available[c] :
              \/ Book(MovedBooking(c, t)) /\ Goto(c, "modified")
              \/ BookRefused(MovedBooking(c, t))
        BY <3>1 DEF PostNew, MatchTable
      <4>2. t \in Table /\ wish[c] \in Wish
        BY <3>1 DEF PostNew, FlowInv
      <4>3. Goto(c, "modified") => step'[c] # "restore"
        BY DEF Goto
      <4> QED BY <2>1, <4>1, <4>2, <4>3, MovedBookingType
    <3>2. CASE Restore(c)
      <4>1. step'[c] # "restore"
        BY <3>2 DEF Restore, Goto
      <4> QED BY <2>1, <3>2, <4>1 DEF Restore
    <3> QED BY <1>8, <3>1, <3>2
  <2> DEFINE g == w.booking.customer
  <2>3. g \in Client
    BY DEF Reservation, Booking
  <2>4. PickedFrom(c, g)
    BY <2>1, <2>2 DEF PickedFrom
  <2>5. HasBooked(g) /\ \A s \in Slot : ~Sure(g, s)
    BY <2>1, <2>3, <2>4 DEF OneInv, Away
  <2>6. /\ \A d \in Client \ {g}, s \in Slot :
             (Has(d, s)' <=> Has(d, s)) /\ (Sure(d, s)' <=> Sure(d, s))
        /\ \A s \in Slot : Sure(g, s)' => s = w.slot
        /\ step'[c] = "restore" => \A s \in Slot : ~Sure(g, s)'
    BY <2>2, <2>5, BookedOnce
  <2>7. \A e \in Client : PickedFrom(c, e) => e = g
    BY <2>2 DEF PickedFrom
  <2> HIDE DEF g
  <2>8. UNCHANGED picked
    BY <1>8 DEF PostNew, Restore
  <2>9. /\ step'[c] \in {"modified", "restore", "restored"}
        /\ \A d \in Client \ {c} : step'[d] = step[d]
    BY <1>8 DEF PostNew, Restore, Goto
  <2>10. \A d \in Client : step[d] \in {"list"} \cup Editing => d = c
    BY <2>1 DEF OneInv
  <2>11. \A d \in Client : HasBooked(d)' <=> HasBooked(d)
    BY <2>1, <2>9 DEF HasBooked
  <2>12. \A d, e \in Client : PickedFrom(d, e)' <=> PickedFrom(d, e)
    BY <2>8 DEF PickedFrom
  <2>13. \A d \in Client : /\ step'[d] \notin {"list", "delete"}
                           /\ step'[d] \in Editing => d = c /\ step'[c] = "restore"
    BY <2>9, <2>10 DEF Editing
  <2>14. \A d \in Client : \A s, t \in Slot : Sure(d, s)' /\ Sure(d, t)' => s = t
    BY <2>6 DEF OneInv
  <2>15. \A d \in Client : ~HasBooked(d)' => d \notin Editor /\ \A s \in Slot : ~Has(d, s)'
    BY <2>5, <2>6, <2>11 DEF OneInv
  <2>16. \A e, d \in Client : step'[d] \in Away /\ PickedFrom(d, e)' =>
           \A s \in Slot : ~Sure(e, s)'
    BY <2>6, <2>7, <2>12, <2>13 DEF Away, Editing
  <2>17. \A d \in Client : step'[d] \in {"list"} \cup Editing => d \in Editor
    BY <2>1, <2>13
  <2>18. \A e, d \in Client : PickedFrom(d, e)' => HasBooked(e)'
    BY <2>11, <2>12 DEF OneInv
  <2> QED BY <2>13, <2>14, <2>15, <2>16, <2>17, <2>18 DEF OneInv
<1>9. ASSUME NEW w \in late, LateWrite(w) PROVE OneInv'
  <2>1. UNCHANGED <<step, picked, late>>
    BY <1>9 DEF LateWrite
  <2>2. /\ \A d \in Client : HasBooked(d)' <=> HasBooked(d)
        /\ \A d, e \in Client : PickedFrom(d, e)' <=> PickedFrom(d, e)
    BY <2>1 DEF HasBooked, PickedFrom
  <2>3. \A d \in Client, s \in Slot :
          (Has(d, s)' => Has(d, s)) /\ (Sure(d, s)' => Sure(d, s))
    BY <1>9, LateTakes
  <2> QED BY <1>9, <2>1, <2>2, <2>3 DEF OneInv
<1> QED BY <1>1, <1>2, <1>3, <1>4, <1>5, <1>6, <1>7, <1>8, <1>9 DEF Next, Flow

LEMMA OneAlways ==
    (\A d, e \in Editor : d = e) => (Spec => []OneInv)
<1> SUFFICES ASSUME \A d, e \in Editor : d = e PROVE Spec => []OneInv
  OBVIOUS
<1>1. Init => OneInv
  BY FlowAssumption
     DEF Init, FirstRequest, OneInv, Holds, Pending, Has, Sure, HasBooked, PickedFrom,
         Editing, Away
<1>2. Typed /\ OneInv /\ [Next]_vars => OneInv'
  BY OneStep
<1> QED BY TypedAlways, <1>1, <1>2, PTL DEF Spec

(* Writes are given up one by one.                                         *)
LEMMA LateFinite == Spec => []IsFiniteSet(late)
<1>1. Init => IsFiniteSet(late)
  BY FS_EmptySet DEF Init
<1>2. IsFiniteSet(late) /\ [Next]_vars => IsFiniteSet(late)'
  <2> SUFFICES ASSUME IsFiniteSet(late), [Next]_vars PROVE IsFiniteSet(late')
    OBVIOUS
  <2>1. UNCHANGED late \/ \E w : MayBeLate(w)
    <3>1. CASE UNCHANGED vars
      BY <3>1 DEF vars
    <3>2. ASSUME NEW c \in Client, Flow(c) PROVE UNCHANGED late \/ \E w : MayBeLate(w)
      BY <3>2 DEF Flow, ReadRefused, AskAvailability, PostBooking, PickToCancel,
                  PickToModify, DeletePicked, FindNew, PostNew, Restore, Quit,
                  Book, BookRefused, Delete, DeleteRefused
    <3>3. ASSUME NEW w \in late, LateWrite(w) PROVE UNCHANGED late
      BY <3>3 DEF LateWrite
    <3> QED BY <3>1, <3>2, <3>3 DEF Next
  <2>2. ASSUME NEW w, MayBeLate(w) PROVE IsFiniteSet(late')
    <3>1. IsFiniteSet(late \cup {w})
      BY FS_AddElement
    <3>2. late' \in SUBSET (late \cup {w})
      BY <2>2, LateGrows
    <3> QED BY <3>1, <3>2, FS_Subset
  <2> QED BY <2>1, <2>2
<1> QED BY <1>1, <1>2, PTL DEF Spec

(* Where one client at a time modifies or cancels, a guest holds one       *)
(* reservation and, at worst, one more for each booking of this guest's    *)
(* and each cancellation that was given up: a modification that is refused *)
(* half-way books again, under a name that is not its own, only what it    *)
(* removed (client.py:446-503, gateway.py:58-66).                          *)
THEOREM OneReservationEach ==
    (\A d, e \in Editor : d = e) => (Spec => []NobodyHoldsTwo)
<1> SUFFICES ASSUME \A d, e \in Editor : d = e PROVE Spec => []NobodyHoldsTwo
  OBVIOUS
<1>1. Typed /\ OneInv /\ IsFiniteSet(late) => NobodyHoldsTwo
  <2> SUFFICES ASSUME Typed, OneInv, IsFiniteSet(late), NEW c \in Client
               PROVE  Cardinality(HeldBy(c)) <= 1 + Cardinality(GivenUp(c))
    BY DEF NobodyHoldsTwo
  <2> DEFINE bookings == {w \in late : w.booking # None /\ w.booking.customer = c}
             slots == {w.slot : w \in bookings}
             sure == {s \in Slot : Sure(c, s)}
  <2>1. /\ IsFiniteSet(GivenUp(c)) /\ IsFiniteSet(bookings)
        /\ Cardinality(bookings) <= Cardinality(GivenUp(c))
    <3>1. GivenUp(c) \in SUBSET late /\ bookings \in SUBSET GivenUp(c)
      BY DEF GivenUp
    <3> QED BY <3>1, FS_Subset
  <2>2. IsFiniteSet(slots) /\ Cardinality(slots) <= Cardinality(bookings)
    <3>1. [w \in bookings |-> w.slot] \in Surjection(bookings, slots)
      BY DEF Surjection
    <3> HIDE DEF bookings, slots
    <3> QED BY <2>1, <3>1, FS_Surjection
  <2>3. IsFiniteSet(sure) /\ Cardinality(sure) <= 1
    <3>1. \A s, t \in sure : s = t
      BY DEF OneInv
    <3>2. CASE sure = {}
      BY <3>2, FS_EmptySet
    <3>3. ASSUME NEW s \in sure PROVE IsFiniteSet(sure) /\ Cardinality(sure) <= 1
      <4>1. sure = {s}
        BY <3>1, <3>3
      <4>2. IsFiniteSet({s}) /\ Cardinality({s}) = 1
        BY FS_Singleton, Zenon
      <4> QED BY <4>1, <4>2
    <3> QED BY <3>2, <3>3
  <2>4. HeldBy(c) \in SUBSET (sure \cup slots)
    BY DEF HeldBy, Sure, Holds, Pending
  <2> HIDE DEF bookings, slots, sure
  <2>5. /\ IsFiniteSet(sure \cup slots)
        /\ Cardinality(sure \cup slots) <= Cardinality(sure) + Cardinality(slots)
    <3>1. IsFiniteSet(sure \cap slots)
      BY <2>3, FS_Subset
    <3>2. Cardinality(sure \cap slots) \in Nat
      BY <3>1, FS_CardinalityType
    <3>3. Cardinality(sure) \in Nat /\ Cardinality(slots) \in Nat
      BY <2>2, <2>3, FS_CardinalityType
    <3> QED BY <2>2, <2>3, <3>2, <3>3, FS_Union
  <2>6. Cardinality(HeldBy(c)) <= Cardinality(sure \cup slots) /\ IsFiniteSet(HeldBy(c))
    BY <2>4, <2>5, FS_Subset
  <2>7. /\ Cardinality(sure) \in Nat /\ Cardinality(slots) \in Nat
        /\ Cardinality(bookings) \in Nat /\ Cardinality(GivenUp(c)) \in Nat
        /\ Cardinality(HeldBy(c)) \in Nat /\ Cardinality(sure \cup slots) \in Nat
    BY <2>1, <2>2, <2>3, <2>5, <2>6, FS_CardinalityType
  <2> QED BY <2>1, <2>2, <2>3, <2>5, <2>6, <2>7
<1> QED BY TypedAlways, OneAlways, LateFinite, <1>1, PTL

-------------------------------------------------------------------------------
(* What a confirmed guest has, and who may have taken it.                  *)

Taking == {"find new", "book new", "restore", "restored", "cancelled", "quit"}

(* Where no reservation is removed, whoever had taken one answers for it   *)
(* still, unless it is the one that moves and it has put it elsewhere.     *)
LEMMA NothingRemoved ==
    ASSUME ConfirmedIsHeld, late = {}, NEW c \in Client, NEW e \in Client,
           \A s \in Slot : reservations[s] # None => reservations'[s] = reservations[s],
           step[c] = "confirmed", HeldBy(c)' = {},
           \A d \in Client \ {e} : step'[d] = step[d],
           \A d \in Client : picked[d] # None /\ step[d] \in Taking => picked'[d] = picked[d],
           step[e] \in Taking /\ PickedFrom(e, c) => step'[e] \in Taking
    PROVE  \E d \in Client : MayHaveTaken(c, d)'
<1>1. HeldBy(c) = {}
  BY DEF HeldBy
<1>2. PICK d \in Client : MayHaveTaken(c, d)
  BY <1>1 DEF ConfirmedIsHeld
<1>3. picked'[d] = picked[d] /\ step'[d] \in Taking
  BY <1>2 DEF MayHaveTaken, Taking, PickedFrom
<1>4. MayHaveTaken(c, d)'
  BY <1>2, <1>3 DEF MayHaveTaken, Taking
<1> QED BY <1>4

LEMMA HeldStep ==
    ASSUME Typed, OneInv, ConfirmedIsHeld, [Next]_vars
    PROVE  ConfirmedIsHeld'
<1> USE FlowAssumption DEF Typed, TypeOK
<1> SUFFICES ASSUME late' = {}, NEW c \in Client, step'[c] = "confirmed", HeldBy(c)' = {}
             PROVE  \E d \in Client : MayHaveTaken(c, d)'
  BY DEF ConfirmedIsHeld
<1>1. CASE UNCHANGED vars
  BY <1>1, NothingRemoved DEF vars
<1>2. ASSUME NEW e \in Client,
             ReadRefused(e) \/ AskAvailability(e) \/ FindNew(e) \/ Quit(e)
      PROVE  \E d \in Client : MayHaveTaken(c, d)'
  <2>1. /\ UNCHANGED <<reservations, picked>>
        /\ \A d \in Client \ {e} : step'[d] = step[d]
    BY <1>2 DEF ReadRefused, AskAvailability, FindNew, Quit, Goto
  <2>2. step'[e] # "confirmed" /\ (step[e] \in Taking => step'[e] \in Taking)
    BY <1>2 DEF ReadRefused, AskAvailability, FindNew, Quit, Goto, Taking
  <2>3. late = {}
    BY <1>2, LateGrows DEF ReadRefused, AskAvailability, FindNew, Quit
  <2> QED BY <2>1, <2>2, <2>3, NothingRemoved
<1>3. ASSUME NEW e \in Client, PickToCancel(e) \/ PickToModify(e)
      PROVE  \E d \in Client : MayHaveTaken(c, d)'
  <2>1. /\ UNCHANGED <<reservations, late>>
        /\ step[e] = "list" /\ step'[e] = "delete"
        /\ \A d \in Client \ {e} : step'[d] = step[d] /\ picked'[d] = picked[d]
    BY <1>3 DEF PickToCancel, PickToModify, Goto
  <2> QED BY <2>1, NothingRemoved DEF Taking
<1>4. ASSUME NEW e \in Client, PostBooking(e)
      PROVE  \E d \in Client : MayHaveTaken(c, d)'
  <2>1. /\ UNCHANGED picked /\ step[e] = "book" /\ step'[e] \in {"confirmed", "failed"}
        /\ \A d \in Client \ {e} : step'[d] = step[d]
    BY <1>4 DEF PostBooking, Goto
  <2>2. PICK t \in available[e] :
          \/ Book(OwnBooking(e, t)) /\ Goto(e, "confirmed")
          \/ BookRefused(OwnBooking(e, t)) /\ Goto(e, "failed")
    BY <1>4 DEF PostBooking
  <2>3. /\ OwnBooking(e, t) \in Reservation
        /\ OwnBooking(e, t).booking.customer = e
    BY <2>1, OwnBookingType DEF FlowInv, OwnBooking
  <2>4. late = {} /\ \A u \in Slot : reservations[u] # None => reservations'[u] = reservations[u]
    BY <2>2, <2>3, BookedOnce
  <2>5. step'[e] = "confirmed" => OwnBooking(e, t).slot \in HeldBy(e)'
    <3> SUFFICES ASSUME step'[e] = "confirmed" PROVE OwnBooking(e, t).slot \in HeldBy(e)'
      OBVIOUS
    <3>1. Make(OwnBooking(e, t))
      BY <2>2 DEF Goto, Book
    <3>2. OwnBooking(e, t).slot \in Slot /\ OwnBooking(e, t).booking # None
      BY <2>3 DEF Reservation
    <3> QED BY <2>3, <3>1, <3>2 DEF Make, HeldBy
  <2>6. c # e
    BY <2>1, <2>5
  <2> QED BY <2>1, <2>4, <2>6, NothingRemoved DEF Taking
<1>5. ASSUME NEW e \in Client, DeletePicked(e)
      PROVE  \E d \in Client : MayHaveTaken(c, d)'
  <2> DEFINE w == Cancellation(e)
             s == picked[e].slot
  <2>1. /\ UNCHANGED picked /\ step[e] = "delete"
        /\ step'[e] \in {"cancelled", "find new", "cannot cancel"}
        /\ \A d \in Client \ {e} : step'[d] = step[d]
    BY <1>5 DEF DeletePicked, Goto, AfterRefusal
  <2>2. Delete(w) \/ DeleteRefused(w)
    BY <1>5 DEF DeletePicked
  <2>3. w.slot = s /\ w.booking = None
    BY DEF Cancellation
  <2>4. late = {}
    BY <2>2, LateGrows DEF Delete, DeleteRefused
  <2>5. /\ picked[e] # None /\ s \in Slot
        /\ reservations[s] = picked[e].booking
    BY <2>1, <2>4 DEF FlowInv, Editing, Reservation, OneInv
  <2> HIDE DEF w, s
  <2>6. step[c] = "confirmed"
    BY <2>1
  <2>7. ASSUME HeldBy(c) = {} PROVE \E d \in Client : MayHaveTaken(c, d)'
    <3>1. PICK d \in Client : MayHaveTaken(c, d)
      BY <2>4, <2>6, <2>7 DEF ConfirmedIsHeld
    <3>2. MayHaveTaken(c, d)'
      BY <2>1, <3>1 DEF MayHaveTaken
    <3> QED BY <3>2
  <2>8. ASSUME HeldBy(c) # {} PROVE \E d \in Client : MayHaveTaken(c, d)'
    <3>1. ~UNCHANGED reservations
      BY <2>8 DEF HeldBy
    <3>2. Make(w) /\ ~DeleteRefused(w)
      BY <2>2, <3>1 DEF Delete, DeleteRefused
    <3>3. step'[e] \in {"cancelled", "find new"}
      BY <1>5, <3>2 DEF DeletePicked, Goto, w
    <3>4. s \in HeldBy(c)
      BY <2>3, <2>5, <2>8, <3>2 DEF Make, HeldBy
    <3>5. picked[e].booking.customer = c
      BY <2>5, <3>4 DEF HeldBy
    <3>6. MayHaveTaken(c, e)'
      BY <2>1, <2>5, <3>3, <3>5 DEF MayHaveTaken
    <3> QED BY <3>6
  <2> QED BY <2>7, <2>8
<1>6. ASSUME NEW e \in Client, PostNew(e)
      PROVE  \E d \in Client : MayHaveTaken(c, d)'
  <2>1. /\ UNCHANGED picked /\ step[e] = "book new" /\ step'[e] \in {"modified", "restore"}
        /\ \A d \in Client \ {e} : step'[d] = step[d]
    BY <1>6 DEF PostNew, Goto
  <2>2. PICK t \in MatchTable(available[e]) :
          \/ Book(MovedBooking(e, t)) /\ Goto(e, "modified")
          \/ BookRefused(MovedBooking(e, t)) /\ Goto(e, "restore")
    BY <1>6 DEF PostNew
  <2>3. wish[e] \in Wish /\ t \in Table /\ picked[e] \in Reservation
    BY <2>1 DEF FlowInv, Editing, MatchTable
  <2>4. /\ MovedBooking(e, t) \in Reservation
        /\ MovedBooking(e, t).booking.customer = picked[e].booking.customer
    BY <2>3, MovedBookingType
  <2>5. late = {} /\ \A u \in Slot : reservations[u] # None => reservations'[u] = reservations[u]
    BY <2>2, <2>4, BookedOnce
  <2>6. step'[e] = "modified" /\ PickedFrom(e, c) => MovedBooking(e, t).slot \in HeldBy(c)'
    <3> SUFFICES ASSUME step'[e] = "modified", PickedFrom(e, c)
                 PROVE  MovedBooking(e, t).slot \in HeldBy(c)'
      OBVIOUS
    <3>1. Make(MovedBooking(e, t))
      BY <2>2 DEF Goto, Book
    <3>2. MovedBooking(e, t).slot \in Slot /\ MovedBooking(e, t).booking # None
      BY <2>4 DEF Reservation
    <3> QED BY <2>4, <3>1, <3>2 DEF Make, HeldBy, PickedFrom
  <2> QED BY <2>1, <2>5, <2>6, NothingRemoved DEF Taking
<1>7. ASSUME NEW e \in Client, Restore(e)
      PROVE  \E d \in Client : MayHaveTaken(c, d)'
  <2>1. /\ UNCHANGED picked /\ step'[e] = "restored" /\ picked[e] \in Reservation
        /\ \A d \in Client \ {e} : step'[d] = step[d]
    BY <1>7 DEF Restore, Goto, FlowInv, Editing
  <2>2. late = {} /\ \A u \in Slot : reservations[u] # None => reservations'[u] = reservations[u]
    BY <1>7, <2>1, BookedOnce DEF Restore
  <2> QED BY <2>1, <2>2, NothingRemoved DEF Taking
<1>8. ASSUME NEW w \in late, LateWrite(w)
      PROVE  \E d \in Client : MayHaveTaken(c, d)'
  BY <1>8 DEF LateWrite
<1> QED BY <1>1, <1>2, <1>3, <1>4, <1>5, <1>6, <1>7, <1>8 DEF Next, Flow

(* Where one client at a time modifies or cancels and no write has been    *)
(* given up, a guest that was told of its booking has it, unless a client  *)
(* that picked it cancelled it, is still moving it, gave up half-way or    *)
(* claims to have restored it: one told "modified" did move it             *)
(* (client.py:446-503).                                                    *)
THEOREM ConfirmedGuestsHold ==
    (\A d, e \in Editor : d = e) => (Spec => []ConfirmedIsHeld)
<1> SUFFICES ASSUME \A d, e \in Editor : d = e PROVE Spec => []ConfirmedIsHeld
  OBVIOUS
<1>1. Init => ConfirmedIsHeld
  BY DEF Init, FirstRequest, ConfirmedIsHeld
<1>2. Typed /\ OneInv /\ ConfirmedIsHeld /\ [Next]_vars => ConfirmedIsHeld'
  BY HeldStep
<1> QED BY OneAlways, TypedAlways, <1>1, <1>2, PTL DEF Spec
===============================================================================
