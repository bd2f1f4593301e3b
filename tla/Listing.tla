-------------------------------- MODULE Listing --------------------------------
(***************************************************************************)
(* A listing, which iterates over the reservations without a lock, while   *)
(* threads that hold table locks insert and remove: below the gateway      *)
(* these are the writes it gave up waiting for and, on a backup, the       *)
(* replicated ones.                                                        *)
(*                                                                         *)
(* The dictionary is CPython's (3.7 to 3.12): keys stand in the order of   *)
(* their insertion, a removal leaves a hole, and an insertion that finds   *)
(* the table full closes the holes first.  An iterator holds a position    *)
(* and raises RuntimeError if the number of keys is not the one it began   *)
(* with, or if it meets more keys than that.  A write is one step, and so  *)
(* is a turn of the loop: the interpreter's lock.                          *)
(***************************************************************************)
EXTENDS Naturals, SequencesExt

CONSTANTS
    Key,        \* the keys of reservations
    MaxWrites,  \* the bound on writes
    None

ASSUME ListingAssumption == None \notin Key /\ MaxWrites \in Nat

VARIABLES
    entries,    \* the dictionary: the keys, None for a hole
    writes,     \* how many writes there have been
    listing,    \* what the handler is doing
    position,   \* the iterator's
    size,       \* the number of keys the iterator began with
    results,    \* the keys of the reservations collected
    steady,     \* the keys that have been there ever since it began
    rebuilt     \* whether holes have been closed since

dictVars == <<entries, writes>>
readVars == <<listing, position, size, results>>
vars == <<dictVars, readVars, steady, rebuilt>>

Keys(d) == {d[i] : i \in DOMAIN d} \ {None}
Filled(d) == {i \in DOMAIN d : d[i] # None}
Used(d) == Cardinality(Filled(d))

Init ==
    /\ entries = <<>> /\ writes = 0
    /\ listing = "new" /\ position = 1 /\ size = 0 /\ results = <<>>
    /\ steady = {} /\ rebuilt = FALSE

-------------------------------------------------------------------------------
(* The dictionary.                                                         *)

Write == writes < MaxWrites /\ writes' = writes + 1

(* A dictionary's keys in their order, where holes are closed. *)
HolesClosed(d, closed) ==
    \E from \in [1 .. Used(d) -> Filled(d)] :
        /\ Filled(d) = {from[i] : i \in 1 .. Used(d)}
        /\ \A i, j \in 1 .. Used(d) : i < j => from[i] < from[j]
        /\ closed = [i \in 1 .. Used(d) |-> d[from[i]]]

(* A booking is stored, by a client's or a replicated write. *)
Insert(k) ==
    /\ Write
    /\ k \notin Keys(entries)
    /\ \/ entries' = Append(entries, k) /\ UNCHANGED rebuilt
       \/ \E closed \in [1 .. Used(entries) -> Keys(entries)] :
             /\ HolesClosed(entries, closed)
             /\ entries' = Append(closed, k)
             /\ rebuilt' = TRUE
    /\ UNCHANGED <<readVars, steady>>

(* A cancellation. *)
Pop(k) ==
    /\ Write
    /\ k \in Keys(entries)
    /\ entries' = [i \in DOMAIN entries |-> IF entries[i] = k THEN None ELSE entries[i]]
    /\ steady' = steady \ {k}
    /\ UNCHANGED <<readVars, rebuilt>>

-------------------------------------------------------------------------------
(* _listReservations                                                       *)

Begin ==
    /\ listing = "new"
    /\ listing' = "iterating"
    /\ size' = Used(entries)
    /\ steady' = Keys(entries)
    /\ rebuilt' = FALSE
    /\ UNCHANGED <<dictVars, position, results>>

Ahead == {i \in DOMAIN entries : i >= position /\ entries[i] # None}

Changed ==
    \/ Used(entries) # size
    \/ Ahead # {} /\ Len(results) = size

Collect ==
    /\ listing = "iterating"
    /\ ~Changed
    /\ Ahead # {}
    /\ results' = Append(results, entries[Min(Ahead)])
    /\ position' = Min(Ahead) + 1
    /\ UNCHANGED <<dictVars, listing, size, steady, rebuilt>>

Finish ==
    /\ listing = "iterating"
    /\ ~Changed
    /\ Ahead = {}
    /\ listing' = "ok"
    /\ UNCHANGED <<dictVars, position, size, results, steady, rebuilt>>

\* mutant: what has been collected so far is answered
AnswerCollected == listing' = "ok"

(* The exception passes through the handler; _handleClient answers it. *)
AnswerException == listing' = "error"

IterationFails ==
    /\ listing = "iterating"
    /\ Changed
    /\ AnswerException
    /\ UNCHANGED <<dictVars, position, size, results, steady, rebuilt>>

Next ==
    \/ \E k \in Key : Insert(k) \/ Pop(k)
    \/ Begin \/ Collect \/ Finish \/ IterationFails

Spec == Init /\ [][Next]_vars

-------------------------------------------------------------------------------
Listings(k) == Cardinality({i \in DOMAIN results : results[i] = k})

(* A reservation that is there from the first to the last of a listing     *)
(* that is answered is listed, and once, whatever is booked and cancelled  *)
(* meanwhile (reservation_service.py:384-391).  Only if the dictionary is  *)
(* rebuilt meanwhile may it be missing; it is not listed twice even then.  *)
ListedIfThere ==
    listing = "ok" =>
        \A k \in steady : Listings(k) = 1 \/ (rebuilt /\ Listings(k) = 0)
===============================================================================
