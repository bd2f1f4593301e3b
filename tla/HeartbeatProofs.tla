--------------------------- MODULE HeartbeatProofs ---------------------------
(***************************************************************************)
(* The failure detector for every choice of its timing constants: its      *)
(* accuracy, its bound on detection, and that it implements, as far as     *)
(* safety goes, the abstract FailureDetector.                              *)
(***************************************************************************)
EXTENDS Heartbeat, TLAPS

(* TypeOK but for the flag, which the arithmetic can do without. *)
Data ==
    /\ latency \in Latencies
    /\ primary \in {"up", "silent"}
    /\ backup \in {"starting", "listening", "deaf"}
    /\ sender \in {"ping", "wait", "over"}
    /\ sender_timer \in Nat
    /\ ping \in {"none", "sent", "reply"}
    /\ ping_age \in 0 .. latency
    /\ last_seen \in Nat \cup {None}
    /\ watch_timer \in 0 .. POLL
    /\ silent_for \in Nat

Flag == _fired \in BOOLEAN

LEMMA TypeParts == TypeOK <=> Data /\ Flag
BY Zenon DEF TypeOK, Data, Flag

LEMMA DataStep == Data /\ [Next]_vars => Data'
<1> SUFFICES ASSUME Data, [Next]_vars PROVE Data'
  OBVIOUS
<1> USE TimingAssumption DEF Data
<1>1. CASE Ping
  BY <1>1 DEF Ping, PingDue, ends, watch
<1>2. CASE PingRefused
  BY <1>2 DEF PingRefused, PingDue, ends, watch
<1>3. CASE SenderFails
  BY <1>3 DEF SenderFails, PingDue, watch
<1>4. CASE PingReset
  BY <1>4 DEF PingReset, EndPing, ends, watch
<1>5. CASE Pong
  BY <1>5 DEF Pong, EndPing, ends, watch
<1>6. CASE PingTimeout
  BY <1>6 DEF PingTimeout, EndPing, ends, watch
<1>7. CASE RecordPing
  BY <1>7 DEF RecordPing, Seen, ends
<1>8. CASE Look
  BY <1>8 DEF Look, ends
<1>9. CASE Tick
  BY <1>9 DEF Tick, NothingDue, Older, ends
<1>10. CASE StopPrimary
  BY <1>10 DEF StopPrimary, watch
<1>11. CASE CrashPrimary
  BY <1>11 DEF CrashPrimary, watch
<1>12. CASE StartListening
  BY <1>12 DEF StartListening, watch
<1>13. CASE StopListening
  BY <1>13 DEF StopListening, watch
<1>14. CASE UNCHANGED vars
  BY <1>14 DEF vars
<1> QED
  BY <1>1, <1>2, <1>3, <1>4, <1>5, <1>6, <1>7, <1>8, <1>9, <1>10, <1>11, <1>12, <1>13, <1>14,
     Zenon DEF Next, Run

LEMMA FlagStep == Flag /\ [Next]_vars => Flag'
BY Zenon DEF Flag, Next, Run, vars, ends, watch, Ping, PingRefused, SenderFails, PingReset,
   Pong, PingTimeout, RecordPing, Look, Tick, StopPrimary, CrashPrimary,
   StartListening, StopListening

(* The type invariant of the failure detector (heartbeat.py). *)
THEOREM TypeCorrect == Spec => []TypeOK
<1>1. Init => Data
  BY TimingAssumption DEF Init, Data
<1>2. Init => Flag
  BY Zenon DEF Init, Flag
<1> QED
  BY <1>1, <1>2, DataStep, FlagStep, TypeParts, PTL DEF Spec

-------------------------------------------------------------------------------
(* How old the last recorded ping can be while the primary pings and the   *)
(* backup may hear it: by the leg the current ping is on, or by how long   *)
(* the sender has waited.  A ping the sender gave up has used all of its   *)
(* latency and arrives before any more time passes.                        *)
AgeBounds ==
    /\ sender # "over"
    /\ sender = "ping" => ping # "none"
    /\ sender = "ping" /\ ping = "sent" => sender_timer = ping_age
    /\ sender = "wait" => sender_timer <= HEARTBEAT_INTERVAL
    /\ sender = "wait" => ping # "reply"
    /\ sender = "wait" /\ ping = "sent" => ping_age = latency
    /\ backup = "starting" => last_seen = None
    /\ last_seen # None =>
          /\ ping = "reply" => last_seen <= ping_age
          /\ ping = "sent" => last_seen <= latency + HEARTBEAT_INTERVAL + ping_age
          /\ ping = "none" => last_seen <= latency + sender_timer

InTouch == primary = "up" /\ backup # "deaf" /\ ~TooSlow

FreshInv == InTouch => ~_fired /\ AgeBounds

LEMMA FreshStep ==
  ASSUME Data, FreshInv, [Next]_vars, InTouch'
  PROVE  ~_fired' /\ AgeBounds'
<1> USE TimingAssumption
<1>1. primary = "up" /\ backup # "deaf" /\ ~TooSlow /\ latency' = latency
  BY Zenon DEF InTouch, TooSlow, Next, Run, vars, ends, watch, Ping, PingDue,
     PingRefused, SenderFails, PingReset, Pong, PingTimeout, RecordPing, Look, Tick,
     StopPrimary, CrashPrimary, StartListening, StopListening
<1>2. ~_fired /\ AgeBounds
  BY <1>1 DEF InTouch, FreshInv
<1>3. CASE Ping
  BY <1>1, <1>2, <1>3 DEF Ping, PingDue, ends, watch, Data, AgeBounds
<1>4. CASE Pong
  BY <1>1, <1>2, <1>4 DEF Pong, EndPing, ends, watch, Data, AgeBounds
<1>5. CASE PingTimeout
  BY <1>1, <1>2, <1>5 DEF PingTimeout, EndPing, ends, watch, Data, AgeBounds
<1>6. CASE RecordPing
  BY <1>1, <1>2, <1>6 DEF RecordPing, Seen, ends, Data, AgeBounds
<1>7. CASE Look
  <2>1. ~Overdue
    BY <1>1, <1>2 DEF Overdue, TooSlow, Data, AgeBounds
  <2> QED
    BY <1>1, <1>2, <1>7, <2>1 DEF Look, ends, Data, AgeBounds
<1>8. CASE Tick
  BY <1>1, <1>2, <1>8 DEF Tick, NothingDue, Older, ends, Data, AgeBounds
<1>9. CASE PingRefused
  BY <1>1, <1>2, <1>9 DEF PingRefused, PingDue, ends, watch, Data, AgeBounds
<1>10. CASE SenderFails \/ PingReset \/ StopPrimary \/ CrashPrimary \/ StopListening
  BY <1>1, <1>10 DEF SenderFails, PingReset, StopPrimary, CrashPrimary, StopListening,
     InTouch
<1>11. CASE StartListening
  BY <1>1, <1>2, <1>11 DEF StartListening, watch, Data, AgeBounds
<1>12. CASE UNCHANGED vars
  BY <1>1, <1>2, <1>12 DEF vars, AgeBounds
<1> QED
  BY <1>3, <1>4, <1>5, <1>6, <1>7, <1>8, <1>9, <1>10, <1>11, <1>12, Zenon DEF Next, Run

LEMMA FreshAlways == Spec => [](Data /\ FreshInv)
<1>1. Init => Data /\ FreshInv
  BY TimingAssumption DEF Init, Data, FreshInv, InTouch, AgeBounds
<1>2. Data /\ FreshInv /\ [Next]_vars => FreshInv'
  BY FreshStep DEF FreshInv
<1> QED
  BY <1>1, <1>2, DataStep, PTL DEF Spec

(* While a primary pings and its backup may hear it, the watchdog never    *)
(* fires, provided that two legs of a ping and a wait fit into             *)
(* HEARTBEAT_TIMEOUT (heartbeat.py:24-51,73-84).                           *)
THEOREM NeverSuspectsTheLiving == Spec => []Accuracy
<1>1. FreshInv /\ Data => Accuracy
  BY DEF FreshInv, InTouch, Accuracy, Data
<1> QED
  BY <1>1, FreshAlways, PTL

-------------------------------------------------------------------------------
(* A ping that arrives after the primary's end was sent before it, and a   *)
(* watchdog that has not fired has looked when the last ping was no older  *)
(* than the timeout.                                                       *)
DetectInv ==
    /\ primary = "up" => silent_for = 0
    /\ primary = "silent" /\ ping = "sent" => silent_for <= ping_age
    /\ ~_fired /\ last_seen # None =>
          /\ last_seen <= HEARTBEAT_TIMEOUT + watch_timer
          /\ silent_for <= latency + last_seen

LEMMA DetectStep == Data /\ DetectInv /\ [Next]_vars => DetectInv'
<1> SUFFICES ASSUME Data, DetectInv, [Next]_vars PROVE DetectInv'
  OBVIOUS
<1> USE TimingAssumption DEF Data, DetectInv
<1>1. CASE Ping
  BY <1>1 DEF Ping, PingDue, ends, watch
<1>2. CASE PingRefused
  BY <1>2 DEF PingRefused, PingDue, ends, watch
<1>3. CASE SenderFails
  BY <1>3 DEF SenderFails, PingDue, watch
<1>4. CASE PingReset
  BY <1>4 DEF PingReset, EndPing, ends, watch
<1>5. CASE Pong
  BY <1>5 DEF Pong, EndPing, ends, watch
<1>6. CASE PingTimeout
  BY <1>6 DEF PingTimeout, EndPing, ends, watch
<1>7. CASE RecordPing
  BY <1>7 DEF RecordPing, Seen, ends
<1>8. CASE Look
  <2>1. ~_fired' => ~_fired /\ ~Overdue
    BY <1>8, Zenon DEF Look
  <2> QED
    BY <1>8, <2>1 DEF Look, Overdue, ends
<1>9. CASE Tick
  BY <1>9 DEF Tick, NothingDue, Older, AgeCap, SilentCap, ends
<1>10. CASE StopPrimary
  BY <1>10 DEF StopPrimary, watch
<1>11. CASE CrashPrimary
  BY <1>11 DEF CrashPrimary, watch
<1>12. CASE StartListening
  BY <1>12 DEF StartListening, watch
<1>13. CASE StopListening
  BY <1>13 DEF StopListening, watch
<1>14. CASE UNCHANGED vars
  BY <1>14 DEF vars
<1> QED
  BY <1>1, <1>2, <1>3, <1>4, <1>5, <1>6, <1>7, <1>8, <1>9, <1>10, <1>11, <1>12, <1>13, <1>14,
     Zenon DEF Next, Run

(* A primary that was heard of is suspected at the latest latency, the     *)
(* timeout and one poll after it fell silent, for all timing constants of  *)
(* TimingAssumption (heartbeat.py:73-84).                                  *)
THEOREM SuspectsInTime == Spec => []DetectionBound
<1>1. Init => Data /\ DetectInv
  BY TimingAssumption DEF Init, Data, DetectInv
<1>2. Data /\ DetectInv => DetectionBound
  BY TimingAssumption DEF Data, DetectInv, DetectionBound
<1> QED
  BY <1>1, <1>2, DataStep, DetectStep, PTL DEF Spec

-------------------------------------------------------------------------------
(* The implementation of the abstract detector, step by step.              *)
FiredInv == _fired => last_seen # None

LEMMA FiredStep == Data /\ FiredInv /\ [Next]_vars => FiredInv'
<1> SUFFICES ASSUME Data, FiredInv, [Next]_vars PROVE FiredInv'
  OBVIOUS
<1>1. CASE RecordPing
  BY <1>1, TimingAssumption DEF RecordPing, Seen, FiredInv
<1>2. CASE Look
  BY <1>2, Zenon DEF Look, Overdue, FiredInv
<1>3. CASE Tick
  BY <1>3, TimingAssumption DEF Tick, Older, Data, FiredInv
<1>4. CASE UNCHANGED watch
  BY <1>4 DEF watch, FiredInv
<1> QED
  BY <1>1, <1>2, <1>3, <1>4, Zenon DEF Next, Run, vars, watch, Ping, PingRefused,
     SenderFails, PingReset, Pong, PingTimeout, StopPrimary, CrashPrimary,
     StartListening, StopListening

SameEnds == Pinging' = Pinging /\ CanHear' = CanHear

LEMMA RefinedStep ==
  ASSUME Data, Flag, FreshInv, FreshInv', FiredInv, [Next]_vars
  PROVE  [Promise!Next]_(Promise!detectorVars)
<1> USE DEF Promise!Next, Promise!detectorVars
<1>1. TooSlow' = TooSlow
  BY Zenon DEF TooSlow, Next, Run, vars, ends, watch, Ping, PingDue,
     PingRefused, SenderFails, PingReset, Pong, PingTimeout, RecordPing, Look, Tick,
     StopPrimary, CrashPrimary, StartListening, StopListening
<1>2. ASSUME UNCHANGED ends PROVE SameEnds
  BY <1>2 DEF ends, SameEnds, Pinging, CanHear
<1>3. ASSUME UNCHANGED watch PROVE Watchdog' = Watchdog
  BY <1>3, Zenon DEF watch, Watchdog
<1>4. CASE RecordPing
  <2>1. SameEnds /\ _fired' = _fired /\ last_seen' = IF _fired THEN last_seen ELSE 0
    BY <1>2, <1>4, Zenon DEF RecordPing, Seen
  <2>2. Watchdog' = Watchdog \/ (Watchdog = "no ping yet" /\ Watchdog' = "watching")
    <3>1. 0 # None
      BY TimingAssumption
    <3> QED
      BY <2>1, <3>1, Zenon DEF Watchdog
  <2> QED
    BY <1>1, <2>1, <2>2 DEF SameEnds, Promise!FirstPing
<1>5. CASE Look
  <2>1. SameEnds /\ last_seen' = last_seen /\ _fired' = (_fired \/ Overdue)
    BY <1>2, <1>5, Zenon DEF Look
  <2>2. CASE ~_fired /\ Overdue
    <3>1. Watchdog = "watching" /\ Watchdog' = "fired" /\ _fired'
      BY <2>1, <2>2, Zenon DEF Overdue, Watchdog
    <3>2. ~Pinging \/ ~CanHear \/ TooSlow
      BY <1>1, <2>1, <3>1, Zenon DEF SameEnds, Pinging, CanHear, FreshInv, InTouch
    <3> QED
      BY <1>1, <2>1, <3>1, <3>2 DEF SameEnds, Promise!Fire, Promise!MayFire
  <2>3. CASE _fired \/ ~Overdue
    <3>1. Watchdog' = Watchdog
      BY <2>1, <2>3, Zenon DEF Watchdog
    <3> QED
      BY <1>1, <2>1, <3>1 DEF SameEnds
  <2> QED
    BY <2>2, <2>3
<1>6. CASE Tick
  <2>1. last_seen' = None <=> last_seen = None
    BY <1>6, TimingAssumption DEF Tick, Older, Data
  <2>2. Watchdog' = Watchdog /\ SameEnds
    BY <1>2, <1>6, <2>1, Zenon DEF Tick, Watchdog
  <2> QED
    BY <1>1, <2>2 DEF SameEnds
<1>7. CASE SenderFails \/ StopPrimary \/ CrashPrimary
  <2>1. UNCHANGED watch /\ backup' = backup /\ primary = "up" /\ primary' = "silent"
    BY <1>7, Zenon DEF SenderFails, StopPrimary, CrashPrimary, PingDue
  <2> QED
    BY <1>1, <1>3, <2>1 DEF Pinging, CanHear, Promise!PingsEnd
<1>8. CASE StopListening
  BY <1>1, <1>3, <1>8 DEF StopListening, Pinging, CanHear, Promise!StopListening
<1>9. CASE StartListening
  BY <1>1, <1>3, <1>9 DEF StartListening, Pinging, CanHear
<1>10. CASE UNCHANGED ends /\ UNCHANGED watch
  BY <1>1, <1>2, <1>3, <1>10 DEF SameEnds
<1> QED
  BY <1>4, <1>5, <1>6, <1>7, <1>8, <1>9, <1>10, Zenon
     DEF Next, Run, vars, ends, watch, Ping, PingRefused, PingReset, Pong, PingTimeout

(* Every step of the detector with its clocks is a step of the abstract    *)
(* detector, or stutters (heartbeat.py:24-84): the safety part of the      *)
(* promise that the promotion of backups relies on.                        *)
THEOREM ImplementsDetector ==
  Spec => Promise!Init /\ [][Promise!Next]_(Promise!detectorVars)
<1>1. Init => Promise!Init /\ Flag /\ FiredInv
  <2> SUFFICES ASSUME Init PROVE Promise!Init /\ Flag /\ FiredInv
    OBVIOUS
  <2>1. Flag /\ FiredInv /\ Watchdog = "no ping yet"
    BY Zenon DEF Init, Flag, FiredInv, Watchdog
  <2>2. Pinging /\ CanHear
    BY DEF Init, Pinging, CanHear
  <2>3. Pinging \in BOOLEAN /\ CanHear \in BOOLEAN /\ TooSlow \in BOOLEAN
    BY DEF Pinging, CanHear, TooSlow
  <2> QED
    BY <2>1, <2>2, <2>3, Zenon DEF Promise!Init
<1>2. Data /\ Flag /\ FiredInv /\ FreshInv /\ FreshInv' /\ [Next]_vars
      => [Promise!Next]_(Promise!detectorVars)
  BY RefinedStep
<1> QED
  BY <1>1, <1>2, FreshAlways, FlagStep, FiredStep, PTL DEF Spec
==============================================================================
