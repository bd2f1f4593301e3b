------------------------------- MODULE Heartbeat -------------------------------
(***************************************************************************)
(* The failure detector between one primary and its backup: the primary's  *)
(* HeartbeatSender, the pings on their way, the heartbeat branch of the    *)
(* backup's _handleClient and the HeartbeatMonitor's watchdog.             *)
(*                                                                         *)
(* Time passes in ticks, all constants are in ticks (half a second each in *)
(* the runs: the watchdog's poll).  latency bounds how long one leg of a   *)
(* ping takes, to be recorded or to be answered, with all the scheduling   *)
(* delays of the threads it passes; a behaviour has one bound throughout.  *)
(* Ages stop counting at a cap above which nothing distinguishes them.     *)
(***************************************************************************)
EXTENDS Integers

CONSTANTS
    HEARTBEAT_INTERVAL, HEARTBEAT_TIMEOUT,   \* config.py
    SOCKET_TIMEOUT,                          \* of the ping's socket
    POLL,                                    \* between two looks of the watchdog
    Latencies,                               \* the bounds to be considered
    None

ASSUME TimingAssumption ==
    /\ HEARTBEAT_INTERVAL \in Nat \ {0}
    /\ HEARTBEAT_TIMEOUT \in Nat
    /\ SOCKET_TIMEOUT \in Nat
    /\ POLL \in Nat \ {0}
    /\ Latencies \subseteq 0 .. SOCKET_TIMEOUT
    /\ None \notin Int

VARIABLES
    latency,      \* the bound on a leg of a ping
    primary,      \* "up", or "silent": its sender is to ping no more
    backup,       \* its accept loop: "starting", "listening" or "deaf"
    sender,       \* the sender's thread: "ping", "wait" or "over"
    sender_timer, \* ticks since it began that
    ping,         \* "none", "sent" (to the backup), "reply" (from it)
    ping_age,     \* ticks since the ping began that leg
    last_seen,    \* ticks since the last recorded ping, or None
    _fired,       \* the watchdog has called on_failure
    watch_timer,  \* ticks since the watchdog last looked
    silent_for    \* ticks since the primary is silent

vars == <<latency, primary, backup, sender, sender_timer, ping, ping_age,
          last_seen, _fired, watch_timer, silent_for>>
ends == <<latency, primary, backup>>
watch == <<last_seen, _fired, watch_timer>>

AgeCap == HEARTBEAT_TIMEOUT + POLL + 1
SilentCap == latency + HEARTBEAT_TIMEOUT + POLL + 1

Older(age, cap) == IF age < cap THEN age + 1 ELSE age

(* The sender pings as it starts.  The backup's watchdog is started before *)
(* its accept loop, and a sleep is all that puts the backup's start before *)
(* the primary's (run_all.py:42-58).                                       *)
Init ==
    /\ latency \in Latencies
    /\ primary = "up"
    /\ backup = "starting"
    /\ sender = "wait"
    /\ sender_timer = HEARTBEAT_INTERVAL
    /\ ping = "none"
    /\ ping_age = 0
    /\ last_seen = None
    /\ _fired = FALSE
    /\ watch_timer = POLL
    /\ silent_for = 0

-------------------------------------------------------------------------------
(* HeartbeatSender.run                                                     *)

PingDue == primary = "up" /\ sender = "wait" /\ sender_timer = HEARTBEAT_INTERVAL

Ping ==
    /\ PingDue
    /\ backup = "listening"
    /\ ping = "none"
    /\ sender' = "ping" /\ sender_timer' = 0
    /\ ping' = "sent" /\ ping_age' = 0
    /\ UNCHANGED <<ends, watch, silent_for>>

(* Connection refused: an OSError, then the next wait. *)
PingRefused ==
    /\ PingDue
    /\ backup # "listening"
    /\ sender_timer' = 0
    /\ UNCHANGED <<ends, sender, ping, ping_age, watch, silent_for>>

(* The socket is made before the try: without a descriptor for it the      *)
(* sender's thread ends, and nobody looks after it.                        *)
SenderFails ==
    /\ PingDue
    /\ primary' = "silent"
    /\ sender' = "over"
    /\ UNCHANGED <<latency, backup, sender_timer, ping, ping_age, watch, silent_for>>

(* Whether answered or given up, the sender waits, unless told to stop. *)
EndPing ==
    /\ sender' = IF primary = "up" THEN "wait" ELSE "over"
    /\ sender_timer' = 0

Pong ==
    /\ sender = "ping"
    /\ ping = "reply"
    /\ ping' = "none" /\ ping_age' = 0
    /\ EndPing
    /\ UNCHANGED <<ends, watch, silent_for>>

(* settimeout(5.0): a ping still on its way arrives all the same. *)
PingTimeout ==
    /\ sender = "ping"
    /\ sender_timer = SOCKET_TIMEOUT
    /\ IF ping = "sent"
       THEN UNCHANGED <<ping, ping_age>>
       ELSE ping' = "none" /\ ping_age' = 0
    /\ EndPing
    /\ UNCHANGED <<ends, watch, silent_for>>

(* The backup's accept loop has ended before it accepted the connection. *)
PingReset ==
    /\ ping = "sent"
    /\ backup = "deaf"
    /\ ping' = "none" /\ ping_age' = 0
    /\ IF sender = "ping" THEN EndPing ELSE UNCHANGED <<sender, sender_timer>>
    /\ UNCHANGED <<ends, watch, silent_for>>

-------------------------------------------------------------------------------
(* The backup: _handleClient calls record_ping, unless promote_to_primary  *)
(* has taken the observer away.                                            *)

\* mutant: only the first ping is recorded
SeenFirst == IF last_seen = None THEN 0 ELSE last_seen

Seen == IF _fired THEN last_seen ELSE 0

RecordPing ==
    /\ ping = "sent"
    /\ ping' = IF sender = "ping" THEN "reply" ELSE "none"
    /\ ping_age' = 0
    /\ last_seen' = Seen
    /\ UNCHANGED <<ends, sender, sender_timer, _fired, watch_timer, silent_for>>

\* mutant: one more interval than the timeout is waited for
OverdueLate ==
    last_seen # None /\ last_seen > HEARTBEAT_TIMEOUT + HEARTBEAT_INTERVAL

\* mutant: the watchdog ends with the accept loop
OverdueWhileListening ==
    last_seen # None /\ last_seen > HEARTBEAT_TIMEOUT /\ backup = "listening"

Overdue == last_seen # None /\ last_seen > HEARTBEAT_TIMEOUT

(* One round of _watchdog_loop.  on_failure is BackupService.promote. *)
Look ==
    /\ watch_timer = POLL
    /\ watch_timer' = 0
    /\ _fired' = (_fired \/ Overdue)
    /\ UNCHANGED <<ends, sender, sender_timer, ping, ping_age, last_seen, silent_for>>

-------------------------------------------------------------------------------
(* stop() of the primary: a ping under way is finished, a wait is not. *)
StopPrimary ==
    /\ primary = "up"
    /\ primary' = "silent"
    /\ sender' = IF sender = "wait" THEN "over" ELSE sender
    /\ UNCHANGED <<latency, backup, sender_timer, ping, ping_age, watch, silent_for>>

(* The primary dies, its sender with it; what it has sent may arrive. *)
CrashPrimary ==
    /\ primary = "up"
    /\ primary' = "silent"
    /\ sender' = "over"
    /\ IF ping = "sent"
       THEN UNCHANGED <<ping, ping_age>>
       ELSE ping' = "none" /\ ping_age' = 0
    /\ UNCHANGED <<latency, backup, sender_timer, watch, silent_for>>

StartListening ==
    /\ backup = "starting"
    /\ backup' = "listening"
    /\ UNCHANGED <<latency, primary, sender, sender_timer, ping, ping_age, watch,
                   silent_for>>

(* The backup's accept loop ends, or its port cannot be bound; its         *)
(* watchdog is another thread.                                             *)
StopListening ==
    /\ backup # "deaf"
    /\ backup' = "deaf"
    /\ UNCHANGED <<latency, primary, sender, sender_timer, ping, ping_age, watch,
                   silent_for>>

-------------------------------------------------------------------------------
\* mutant: the watchdog oversleeps
NothingDueButLook ==
    /\ sender = "wait" => sender_timer < HEARTBEAT_INTERVAL
    /\ sender = "ping" => sender_timer < SOCKET_TIMEOUT
    /\ ping # "none" => ping_age < latency

(* Time does not pass over what is due. *)
NothingDue ==
    /\ sender = "wait" => sender_timer < HEARTBEAT_INTERVAL
    /\ sender = "ping" => sender_timer < SOCKET_TIMEOUT
    /\ ping # "none" => ping_age < latency
    /\ watch_timer < POLL

Tick ==
    /\ NothingDue
    /\ sender_timer' = IF sender = "over" THEN sender_timer ELSE sender_timer + 1
    /\ ping_age' = IF ping = "none" THEN ping_age ELSE ping_age + 1
    /\ last_seen' = IF last_seen = None THEN None ELSE Older(last_seen, AgeCap)
    /\ watch_timer' = watch_timer + 1
    /\ silent_for' =
         IF primary = "silent" THEN Older(silent_for, SilentCap) ELSE silent_for
    /\ UNCHANGED <<ends, sender, ping, _fired>>

Run ==
    \/ Ping \/ PingRefused \/ PingReset \/ Pong \/ PingTimeout
    \/ RecordPing \/ Look \/ Tick
Next ==
    \/ Run
    \/ SenderFails \/ StopPrimary \/ CrashPrimary
    \/ StartListening \/ StopListening

Spec == Init /\ [][Next]_vars

(* Time passes and what is due happens; nothing obliges anyone to stop. *)
FairSpec == Spec /\ WF_vars(Run)

-------------------------------------------------------------------------------
TypeOK ==
    /\ latency \in Latencies
    /\ primary \in {"up", "silent"}
    /\ backup \in {"starting", "listening", "deaf"}
    /\ sender \in {"ping", "wait", "over"}
    /\ sender_timer \in Nat
    /\ ping \in {"none", "sent", "reply"}
    /\ ping_age \in 0 .. latency
    /\ last_seen \in Nat \cup {None}
    /\ _fired \in BOOLEAN
    /\ watch_timer \in 0 .. POLL
    /\ silent_for \in Nat

(* Two legs of a ping and a wait may not fit into the timeout. *)
TooSlow == 2 * latency + HEARTBEAT_INTERVAL > HEARTBEAT_TIMEOUT

(* The watchdog never takes a live primary for a dead one, unless the legs *)
(* of a ping are too slow for its timeout (heartbeat.py:73-84).            *)
Accuracy == _fired => primary = "silent" \/ backup = "deaf" \/ TooSlow

(* A primary that was heard of is suspected at the latest when a last ping *)
(* has arrived, the timeout has passed and the watchdog has looked,        *)
(* for every latency up to a ping's timeout (heartbeat.py:73-84).          *)
DetectionBound ==
    last_seen # None /\ silent_for > latency + HEARTBEAT_TIMEOUT + POLL => _fired

Pinging == primary = "up"
CanHear == backup # "deaf"
Watchdog ==
    IF _fired THEN "fired" ELSE IF last_seen = None THEN "no ping yet" ELSE "watching"

Promise == INSTANCE FailureDetector WITH
    pinging <- Pinging, listening <- CanHear, slow <- TooSlow, watchdog <- Watchdog

(* So the detector with its clocks keeps the promise of FailureDetector,   *)
(* that it fires in the end included, though pings that are still on their *)
(* way put it off and the sender's timeouts run on (heartbeat.py:24-84).   *)
KeepsPromise == Promise!Spec
================================================================================
