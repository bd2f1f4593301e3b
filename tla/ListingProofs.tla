----------------------------- MODULE ListingProofs -----------------------------
(***************************************************************************)
(* Theorem about Listing, for all keys and any number of writes: what is   *)
(* there all along is listed once.                                         *)
(*                                                                         *)
(* The iterator holds nothing but a position.  The invariant says what it  *)
(* knows by it: a steady key that stands at the position or behind it has  *)
(* not been collected, and one that stands before it has been, unless the  *)
(* dictionary was rebuilt.  Closing holes moves keys towards the front     *)
(* only, so it can make the iterator miss keys and never repeat them.      *)
(***************************************************************************)
EXTENDS Listing, SequenceTheorems, FiniteSetTheorems, WellFoundedInduction, TLAPS

Types ==
    /\ entries \in Seq(Key \cup {None})
    /\ listing \in {"new", "iterating", "ok", "error"}
    /\ position \in Nat \ {0}
    /\ results \in Seq(Key)
    /\ steady \subseteq Key

OneEntryEach ==
    \A i, j \in DOMAIN entries : entries[i] # None /\ entries[i] = entries[j] => i = j

Untouched == listing = "new" => position = 1 /\ results = <<>> /\ steady = {}

StillThere == steady \subseteq Keys(entries)

Collected(k) == \E j \in DOMAIN results : results[j] = k

NotYet ==
    \A k \in steady, i \in DOMAIN entries : entries[i] = k /\ i >= position => ~Collected(k)

Once ==
    \A i, j \in DOMAIN results : results[i] \in steady /\ results[i] = results[j] => i = j

Passed ==
    ~rebuilt =>
        \A k \in steady, i \in DOMAIN entries :
            entries[i] = k /\ (i < position \/ listing = "ok") => Collected(k)

ListInv ==
    Types /\ OneEntryEach /\ Untouched /\ StillThere /\ NotYet /\ Once /\ Passed

-------------------------------------------------------------------------------
(* A set of natural numbers has a smallest: induction, in the form of a    *)
(* theorem that takes no operator.                                         *)
LEMMA Smallest ==
  ASSUME NEW T \in SUBSET Nat, T # {}
  PROVE  \E m \in T : \A n \in T : m <= n
<1>1. \E m \in T : \A n \in T : ~ (<<n, m>> \in OpToRel(<, Nat))
  BY NatLessThanWellFounded, WFMin
<1>2. PICK m \in T : \A n \in T : ~ (<<n, m>> \in OpToRel(<, Nat))
  BY <1>1
<1>3. \A n \in T : ~ (n < m)
  BY <1>2 DEF OpToRel
<1> QED  BY <1>3

LEMMA MinIsSmallest ==
  ASSUME NEW T \in SUBSET Nat, T # {}
  PROVE  Min(T) \in T /\ \A n \in T : Min(T) <= n
BY Smallest DEF Min

(* What numbers the keys in their order can only move them to the front. *)
LEMMA IncreasingIsAhead ==
  ASSUME NEW U \in Nat, NEW from \in [1 .. U -> Nat \ {0}],
         \A i, j \in 1 .. U : i < j => from[i] < from[j]
  PROVE  \A i \in 1 .. U : i <= from[i]
<1> DEFINE T == {i \in 1 .. U : from[i] < i}
<1>1. SUFFICES ASSUME T # {} PROVE FALSE
  OBVIOUS
<1>2. PICK m \in T : \A n \in T : m <= n
  <2>1. T \in SUBSET Nat
    OBVIOUS
  <2> HIDE DEF T
  <2> QED  BY <1>1, <2>1, Smallest
<1>3. m \in 1 .. U /\ from[m] \in Nat /\ 0 < from[m] /\ from[m] < m
  OBVIOUS
<1>4. m - 1 \in 1 .. U
  BY <1>3
<1>5. from[m - 1] < from[m] /\ from[m - 1] \in Nat
  BY <1>3, <1>4
<1>6. m - 1 \in T
  BY <1>3, <1>4, <1>5
<1> QED  BY <1>2, <1>3, <1>6

LEMMA UsedIsNatural ==
  ASSUME NEW d \in Seq(Key \cup {None})
  PROVE  Used(d) \in Nat
<1>1. Len(d) \in Nat /\ DOMAIN d = 1 .. Len(d)
  BY LenProperties
<1>2. IsFiniteSet(DOMAIN d)
  BY <1>1, FS_Interval
<1>3. Filled(d) \in SUBSET DOMAIN d
  BY DEF Filled
<1>4. IsFiniteSet(Filled(d))
  BY <1>2, <1>3, FS_Subset
<1> QED  BY <1>4, FS_CardinalityType DEF Used

LEMMA IsSequence ==
  ASSUME NEW S, NEW n \in Nat, NEW f \in [1 .. n -> S]
  PROVE  f \in Seq(S)
BY SeqDef

(* Where holes are closed, every key is still there, and once if it was    *)
(* once before, and no further back than before.                           *)
LEMMA ClosingKeeps ==
  ASSUME NEW d \in Seq(Key \cup {None}), NEW closed, HolesClosed(d, closed)
  PROVE  /\ closed \in Seq(Key)
         /\ \A p \in DOMAIN closed :
               \E i \in DOMAIN d : p <= i /\ d[i] = closed[p]
         /\ (\A i, j \in DOMAIN d : d[i] # None /\ d[i] = d[j] => i = j)
            => \A p, q \in DOMAIN closed : closed[p] = closed[q] => p = q
         /\ \A i \in DOMAIN d : d[i] # None => \E p \in DOMAIN closed : closed[p] = d[i]
<1> DEFINE U == Used(d)
<1>1. PICK from \in [1 .. U -> Filled(d)] :
         /\ Filled(d) = {from[i] : i \in 1 .. U}
         /\ \A i, j \in 1 .. U : i < j => from[i] < from[j]
         /\ closed = [i \in 1 .. U |-> d[from[i]]]
  BY DEF HolesClosed
<1>2. U \in Nat
  BY UsedIsNatural
<1> HIDE DEF U
<1>3. /\ DOMAIN d = 1 .. Len(d) /\ Len(d) \in Nat
      /\ \A i \in DOMAIN d : d[i] \in Key \cup {None}
  BY LenProperties, ElementOfSeq
<1>4. \A i \in 1 .. U : from[i] \in DOMAIN d /\ d[from[i]] # None
  BY <1>1 DEF Filled
<1>5. DOMAIN closed = 1 .. U /\ \A i \in 1 .. U : closed[i] = d[from[i]]
  BY <1>1
<1>6. closed \in Seq(Key)
  <2>1. \A i \in 1 .. U : d[from[i]] \in Key
    BY <1>3, <1>4
  <2>2. closed \in [1 .. U -> Key]
    BY <1>1, <2>1
  <2> QED  BY <1>2, <2>2, IsSequence
<1>7. \A i \in 1 .. U : i <= from[i]
  <2>1. from \in [1 .. U -> Nat \ {0}]
    BY <1>3, <1>4
  <2> QED  BY <1>1, <1>2, <2>1, IncreasingIsAhead
<1>8. ASSUME \A i, j \in DOMAIN d : d[i] # None /\ d[i] = d[j] => i = j,
             NEW p \in 1 .. U, NEW q \in 1 .. U, closed[p] = closed[q]
      PROVE  p = q
  <2>1. from[p] = from[q]
    BY <1>4, <1>5, <1>8
  <2>2. from[p] \in Nat /\ from[q] \in Nat /\ p \in Nat /\ q \in Nat
    BY <1>2, <1>3, <1>4
  <2>3. ~ (p < q) /\ ~ (q < p)
    <3>1. (p < q => from[p] < from[q]) /\ (q < p => from[q] < from[p])
      BY <1>1
    <3> QED  BY <2>1, <2>2, <3>1
  <2> QED  BY <2>2, <2>3
<1>9. ASSUME NEW i \in DOMAIN d, d[i] # None
      PROVE  \E p \in DOMAIN closed : closed[p] = d[i]
  <2>1. i \in {from[p] : p \in 1 .. U}
    BY <1>1, <1>9 DEF Filled
  <2> QED  BY <1>5, <2>1
<1> QED  BY <1>4, <1>5, <1>6, <1>7, <1>8, <1>9

-------------------------------------------------------------------------------
LEMMA ListInit == Init => ListInv
<1> SUFFICES ASSUME Init PROVE ListInv
  OBVIOUS
<1>1. <<>> \in Seq(Key) /\ <<>> \in Seq(Key \cup {None}) /\ DOMAIN <<>> = {}
  BY EmptySeq
<1>2. entries = <<>> /\ results = <<>> /\ steady = {} /\ listing = "new" /\ position = 1
  BY DEF Init
<1> QED
  BY <1>1, <1>2 DEF ListInv, Types, OneEntryEach, Untouched, StillThere, NotYet, Once, Passed

(* What a write must do to the dictionary for the invariant to hold on: no *)
(* key appears twice, none that is still steady disappears, and none that  *)
(* stands at the iterator's position or behind it stood before it.         *)
LEMMA DictionaryStep ==
  ASSUME ListInv,
         entries' \in Seq(Key \cup {None}), OneEntryEach',
         steady' \subseteq steady, steady' \subseteq Keys(entries)',
         \A i \in DOMAIN entries' : entries'[i] \in steady' =>
            \E j \in DOMAIN entries :
               entries[j] = entries'[i] /\ (rebuilt' \/ i = j) /\ i <= j,
         rebuilt => rebuilt',
         UNCHANGED readVars
  PROVE  ListInv'
<1> USE DEF readVars
<1>1. Types' /\ Untouched' /\ StillThere' /\ Once'
  BY DEF ListInv, Types, Untouched, StillThere, Once
<1>2. ASSUME NEW k \in steady', NEW i \in DOMAIN entries', entries'[i] = k, i >= position'
      PROVE  ~Collected(k)'
  <2>1. PICK j \in DOMAIN entries : entries[j] = k /\ i <= j
    BY <1>2
  <2>2. i \in Nat /\ j \in Nat /\ position \in Nat /\ i >= position
    BY <1>2, LenProperties DEF ListInv, Types
  <2>3. ~Collected(k)
    BY <1>2, <2>1, <2>2 DEF ListInv, NotYet
  <2> QED  BY <2>3 DEF Collected
<1>3. ASSUME ~rebuilt', NEW k \in steady', NEW i \in DOMAIN entries', entries'[i] = k,
             i < position' \/ listing' = "ok"
      PROVE  Collected(k)'
  <2>1. i \in DOMAIN entries /\ entries[i] = k /\ ~rebuilt
    BY <1>3
  <2>2. Collected(k)
    BY <1>3, <2>1 DEF ListInv, Passed
  <2> QED  BY <2>2 DEF Collected
<1>4. NotYet' /\ Passed'
  BY <1>2, <1>3 DEF NotYet, Passed
<1> QED  BY <1>1, <1>4 DEF ListInv

LEMMA InsertStep == ASSUME ListInv, NEW k \in Key, Insert(k) PROVE ListInv'
<1>1. /\ k \notin Keys(entries) /\ k # None
      /\ UNCHANGED <<readVars, steady>>
      /\ steady \subseteq Keys(entries)
      /\ entries \in Seq(Key \cup {None})
      /\ OneEntryEach
  BY ListingAssumption DEF Insert, ListInv, Types, StillThere
<1>2. k \notin steady /\ \A i \in DOMAIN entries : entries[i] # k
  BY <1>1 DEF Keys
<1>3. /\ DOMAIN entries = 1 .. Len(entries) /\ Len(entries) \in Nat
  BY <1>1, LenProperties
<1>4. CASE entries' = Append(entries, k) /\ UNCHANGED rebuilt
  <2>1. /\ entries' \in Seq(Key \cup {None})
        /\ Len(entries') = Len(entries) + 1
        /\ \A i \in 1 .. Len(entries) : entries'[i] = entries[i]
        /\ entries'[Len(entries) + 1] = k
    BY <1>1, <1>4, AppendProperties
  <2>2. DOMAIN entries' = 1 .. Len(entries) + 1
    BY <2>1, LenProperties
  <2>3. \A i \in DOMAIN entries' :
           (i \in DOMAIN entries /\ entries'[i] = entries[i]) \/ (i = Len(entries) + 1 /\ entries'[i] = k)
    BY <1>3, <2>1, <2>2
  <2>4. OneEntryEach'
    BY <1>1, <1>2, <2>3 DEF OneEntryEach
  <2>5. Keys(entries) \subseteq Keys(entries)'
    <3>1. \A i \in DOMAIN entries : i \in DOMAIN entries' /\ entries'[i] = entries[i]
      BY <1>3, <2>1, <2>2
    <3> QED  BY <3>1 DEF Keys
  <2>6. \A i \in DOMAIN entries' : entries'[i] \in steady' =>
           i \in DOMAIN entries /\ entries'[i] = entries[i]
    BY <1>1, <1>2, <2>3
  <2>7. \A i \in DOMAIN entries : i <= i
    BY <1>3
  <2> QED  BY <1>1, <1>4, <2>1, <2>4, <2>5, <2>6, <2>7, DictionaryStep
<1>5. ASSUME NEW closed, HolesClosed(entries, closed), entries' = Append(closed, k), rebuilt' = TRUE
      PROVE  ListInv'
  <2>1. /\ closed \in Seq(Key)
        /\ \A p \in DOMAIN closed : \E i \in DOMAIN entries : p <= i /\ entries[i] = closed[p]
        /\ \A p, q \in DOMAIN closed : closed[p] = closed[q] => p = q
        /\ \A i \in DOMAIN entries : entries[i] # None => \E p \in DOMAIN closed : closed[p] = entries[i]
    BY <1>1, <1>5, ClosingKeeps DEF OneEntryEach
  <2>2. DOMAIN closed = 1 .. Len(closed) /\ Len(closed) \in Nat
    BY <2>1, LenProperties
  <2>3. /\ entries' \in Seq(Key)
        /\ Len(entries') = Len(closed) + 1
        /\ \A i \in 1 .. Len(closed) : entries'[i] = closed[i]
        /\ entries'[Len(closed) + 1] = k
    BY <1>5, <2>1, AppendProperties
  <2>4. DOMAIN entries' = 1 .. Len(closed) + 1
    BY <2>3, LenProperties
  <2>5. \A i \in DOMAIN entries' :
           (i \in DOMAIN closed /\ entries'[i] = closed[i]) \/ (i = Len(closed) + 1 /\ entries'[i] = k)
    BY <2>2, <2>3, <2>4
  <2>6. \A i \in DOMAIN closed : closed[i] # k
    BY <1>2, <2>1
  <2>7. OneEntryEach'
    BY <2>1, <2>5, <2>6 DEF OneEntryEach
  <2>8. steady' \subseteq Keys(entries)'
    <3>1. \A i \in DOMAIN closed : i \in DOMAIN entries' /\ entries'[i] = closed[i]
      BY <2>2, <2>3, <2>4
    <3>2. ASSUME NEW h \in steady' PROVE h \in Keys(entries)'
      <4>1. PICK i \in DOMAIN entries : entries[i] = h /\ h # None
        BY <1>1, <3>2 DEF Keys
      <4>2. PICK p \in DOMAIN closed : closed[p] = h
        BY <2>1, <4>1
      <4> QED  BY <3>1, <4>1, <4>2 DEF Keys
    <3> QED  BY <3>2
  <2>9. \A i \in DOMAIN entries' : entries'[i] \in steady' =>
           \E j \in DOMAIN entries : entries[j] = entries'[i] /\ i <= j
    BY <1>1, <1>2, <2>1, <2>5
  <2>10. entries' \in Seq(Key \cup {None})
    BY <2>3, SeqMonotonic
  <2> QED  BY <1>1, <1>5, <2>7, <2>8, <2>9, <2>10, DictionaryStep
<1> QED  BY <1>4, <1>5 DEF Insert

LEMMA PopStep == ASSUME ListInv, NEW k \in Key, Pop(k) PROVE ListInv'
<1>1. /\ entries' = [i \in DOMAIN entries |-> IF entries[i] = k THEN None ELSE entries[i]]
      /\ steady' = steady \ {k}
      /\ UNCHANGED <<readVars, rebuilt>>
  BY DEF Pop
<1>2. /\ entries \in Seq(Key \cup {None}) /\ steady \subseteq Keys(entries) /\ OneEntryEach
      /\ steady \subseteq Key
  BY DEF ListInv, Types, StillThere
<1>3. /\ DOMAIN entries = 1 .. Len(entries) /\ Len(entries) \in Nat
      /\ \A i \in DOMAIN entries : entries[i] \in Key \cup {None}
  BY <1>2, LenProperties, ElementOfSeq
<1>4. entries' \in Seq(Key \cup {None})
  <2>1. entries' \in [1 .. Len(entries) -> Key \cup {None}]
    BY <1>1, <1>3
  <2> QED  BY <1>3, <2>1, IsSequence
<1>5. OneEntryEach'
  BY <1>1, <1>2 DEF OneEntryEach
<1>6. steady' \subseteq Keys(entries)'
  BY <1>1, <1>2 DEF Keys
<1>7. \A i \in DOMAIN entries' : entries'[i] \in steady' =>
         i \in DOMAIN entries /\ entries[i] = entries'[i] /\ i <= i
  BY <1>1, <1>2, <1>3, ListingAssumption
<1> QED  BY <1>1, <1>4, <1>5, <1>6, <1>7, DictionaryStep

LEMMA BeginStep == ASSUME ListInv, Begin PROVE ListInv'
<1>1. /\ listing = "new" /\ listing' = "iterating"
      /\ steady' = Keys(entries) /\ rebuilt' = FALSE
      /\ UNCHANGED <<entries, position, results>>
  BY DEF Begin, dictVars
<1>2. position = 1 /\ results = <<>> /\ DOMAIN results = {}
  BY <1>1, EmptySeq DEF ListInv, Untouched
<1>3. /\ entries \in Seq(Key \cup {None}) /\ DOMAIN entries = 1 .. Len(entries) /\ Len(entries) \in Nat
      /\ \A i \in DOMAIN entries : entries[i] \in Key \cup {None}
  BY LenProperties, ElementOfSeq DEF ListInv, Types
<1>4. Types' /\ OneEntryEach' /\ Untouched' /\ StillThere'
  BY <1>1, <1>3 DEF ListInv, Types, OneEntryEach, Untouched, StillThere, Keys
<1>5. NotYet' /\ Once' /\ Passed'
  BY <1>1, <1>2, <1>3 DEF NotYet, Once, Passed, Collected
<1> QED  BY <1>4, <1>5 DEF ListInv

LEMMA CollectStep == ASSUME ListInv, Collect PROVE ListInv'
<1> DEFINE m == Min(Ahead)
           h == entries[m]
<1>1. /\ listing = "iterating"
      /\ results' = Append(results, h)
      /\ position' = m + 1
      /\ UNCHANGED <<entries, listing, steady, rebuilt>>
  BY DEF Collect, dictVars
<1>2. /\ entries \in Seq(Key \cup {None}) /\ DOMAIN entries = 1 .. Len(entries) /\ Len(entries) \in Nat
      /\ \A i \in DOMAIN entries : entries[i] \in Key \cup {None}
      /\ position \in Nat \ {0} /\ results \in Seq(Key) /\ steady \subseteq Key
  BY LenProperties, ElementOfSeq DEF ListInv, Types
<1>3. /\ m \in DOMAIN entries /\ m >= position /\ h # None /\ m \in Nat
      /\ \A i \in DOMAIN entries : i >= position /\ entries[i] # None => m <= i
  <2>1. Ahead \in SUBSET Nat /\ Ahead # {}
    BY <1>2 DEF Ahead, Collect
  <2>2. m \in Ahead /\ \A i \in Ahead : m <= i
    BY <2>1, MinIsSmallest
  <2> HIDE DEF m
  <2> QED  BY <1>2, <2>1, <2>2 DEF Ahead
<1> HIDE DEF m
<1>4. h \in Key
  BY <1>2, <1>3
<1> HIDE DEF h
<1>5. /\ results' \in Seq(Key)
      /\ DOMAIN results = 1 .. Len(results) /\ Len(results) \in Nat
      /\ DOMAIN results' = 1 .. Len(results) + 1
      /\ \A i \in DOMAIN results : results'[i] = results[i]
      /\ results'[Len(results) + 1] = h
  BY <1>1, <1>2, <1>4, AppendProperties, LenProperties
<1>6. \A i \in DOMAIN results' :
         (i \in DOMAIN results /\ results'[i] = results[i]) \/ (i = Len(results) + 1 /\ results'[i] = h)
  BY <1>5
<1>7. ASSUME NEW k PROVE Collected(k)' <=> Collected(k) \/ k = h
  BY <1>5, <1>6 DEF Collected
<1>8. h = entries[m]
  BY DEF h
<1>9. h \in steady => ~Collected(h)
  BY <1>3, <1>8 DEF ListInv, NotYet
<1>10. Types' /\ OneEntryEach' /\ Untouched' /\ StillThere'
  <2>1. m + 1 \in Nat \ {0}
    BY <1>3
  <2> QED  BY <1>1, <1>5, <2>1 DEF ListInv, Types, OneEntryEach, Untouched, StillThere, Keys
<1>11. Once'
  BY <1>1, <1>6, <1>9 DEF ListInv, Once, Collected
<1>12. ASSUME NEW k \in steady, NEW i \in DOMAIN entries, entries[i] = k, i >= m + 1
       PROVE  ~Collected(k)'
  <2>1. k # None /\ i \in Nat /\ i # m /\ i >= position
    BY <1>2, <1>3, <1>12, ListingAssumption
  <2>2. k # h
    BY <1>3, <1>8, <1>12, <2>1 DEF ListInv, OneEntryEach
  <2>3. ~Collected(k)
    BY <1>12, <2>1 DEF ListInv, NotYet
  <2> QED  BY <1>7, <2>2, <2>3
<1>13. ASSUME ~rebuilt, NEW k \in steady, NEW i \in DOMAIN entries, entries[i] = k, i < m + 1
       PROVE  Collected(k)'
  <2>1. k # None /\ i \in Nat
    BY <1>2, <1>13, ListingAssumption
  <2>2. CASE i < position
    BY <1>7, <1>13, <2>2 DEF ListInv, Passed
  <2>3. CASE i >= position
    <3>1. i = m
      BY <1>3, <1>13, <2>1, <2>3
    <3> QED  BY <1>7, <1>8, <1>13, <3>1
  <2> QED  BY <1>2, <2>1, <2>2, <2>3
<1>14. NotYet' /\ Passed'
  BY <1>1, <1>12, <1>13 DEF NotYet, Passed
<1> QED  BY <1>10, <1>11, <1>14 DEF ListInv

(* The listing has ended, and nothing was ahead of the iterator if it is   *)
(* answered.                                                               *)
LEMMA EndStep == ASSUME ListInv, Finish \/ IterationFails PROVE ListInv'
<1>1. /\ listing = "iterating" /\ listing' \in {"ok", "error"}
      /\ listing' = "ok" => Ahead = {}
      /\ UNCHANGED <<entries, position, results, steady, rebuilt>>
  BY DEF Finish, IterationFails, AnswerException, dictVars
<1>2. Types' /\ OneEntryEach' /\ Untouched' /\ StillThere' /\ NotYet' /\ Once'
  BY <1>1 DEF ListInv, Types, OneEntryEach, Untouched, StillThere, NotYet, Once, Keys, Collected
<1>3. ASSUME ~rebuilt, NEW k \in steady, NEW i \in DOMAIN entries, entries[i] = k,
             i < position \/ listing' = "ok"
      PROVE  Collected(k)
  <2>1. k # None /\ i \in Nat /\ position \in Nat
    BY <1>3, LenProperties, ListingAssumption DEF ListInv, Types
  <2>2. i < position
    BY <1>1, <1>3, <2>1 DEF Ahead
  <2> QED  BY <1>3, <2>2 DEF ListInv, Passed
<1>4. Passed'
  BY <1>1, <1>3 DEF Passed, Collected
<1> QED  BY <1>2, <1>4 DEF ListInv

LEMMA ListNext == ListInv /\ [Next]_vars => ListInv'
<1> SUFFICES ASSUME ListInv, [Next]_vars PROVE ListInv'
  OBVIOUS
<1>1. CASE UNCHANGED vars
  BY <1>1 DEF vars, dictVars, readVars, ListInv, Types, OneEntryEach, Untouched, StillThere,
     NotYet, Once, Passed, Keys, Collected
<1>2. CASE Next
  BY <1>2, InsertStep, PopStep, BeginStep, CollectStep, EndStep DEF Next
<1> QED  BY <1>1, <1>2

(* A reservation that is there from the first to the last of a listing     *)
(* that is answered is in it, once, unless the dictionary was rebuilt      *)
(* meanwhile; never twice (reservation_service.py:384-391).                *)
THEOREM StandingAreListed == Spec => []ListedIfThere
<1>1. ListInv => ListedIfThere
  <2> SUFFICES ASSUME ListInv, listing = "ok", NEW k \in steady
               PROVE  Listings(k) = 1 \/ (rebuilt /\ Listings(k) = 0)
    BY DEF ListedIfThere
  <2> DEFINE places == {i \in DOMAIN results : results[i] = k}
  <2>1. CASE Collected(k)
    <3>1. PICK j \in DOMAIN results : results[j] = k
      BY <2>1 DEF Collected
    <3>2. places = {j}
      BY <3>1 DEF ListInv, Once
    <3>3. Cardinality({j}) = 1
      BY FS_Singleton, Zenon
    <3> QED  BY <3>2, <3>3 DEF Listings
  <2>2. CASE ~Collected(k)
    <3>1. rebuilt
      BY <2>2 DEF ListInv, StillThere, Keys, Passed
    <3>2. places = {}
      BY <2>2 DEF Collected
    <3> QED  BY <3>1, <3>2, FS_EmptySet DEF Listings
  <2> QED  BY <2>1, <2>2
<1>2. Spec => []ListInv
  BY ListInit, ListNext, PTL DEF Spec
<1> QED  BY <1>1, <1>2, PTL
===============================================================================
