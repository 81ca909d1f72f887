--------------------------- MODULE ThermalEngine ---------------------------
(***************************************************************************)
(* The engine of thermald: a detached thread that waits in poll() for its   *)
(* wakeup pipe, sweeps the zones and takes messages, against the main       *)
(* thread that serves D-Bus and signals.  The pipe is non-blocking and a    *)
(* message is longer than PIPE_BUF, so the message that meets a full pipe   *)
(* is written in part ("torn") and the stream is read shifted until it is   *)
(* drained.  The kernel's zones keep a policy the engine takes over and     *)
(* gives back.  Every zone of the daemon has one polling trip, which is on  *)
(* or off by itself; the engine's masks have a bit for the trip's sensor.   *)
(***************************************************************************)
EXTENDS Integers, Sequences, FiniteSets

CONSTANTS
    SensorList,     \* the index of the sensor each zone's polling trip finds (the trip
                    \* takes its sensor id as a position in the engine's vector)
    KernelZones,    \* directory order of /sys/class/thermal/thermal_zone*
    Policy0,        \* the policy of each kernel zone before thermald runs
    Defaults,       \* the Preference a matched thermal-conf.xml may have, "none" without a match
    Intervals,      \* possible values of poll_interval_sec
    PipeCapacity,   \* whole messages the pipe holds
    MaxRequests     \* bound on requests, crashes and changes of temperature

ASSUME EngineAssumption ==
    /\ SensorList \in Seq(Nat) /\ Intervals \subseteq Nat /\ PipeCapacity \in Nat \ {0}
    /\ KernelZones \in Seq(STRING) /\ Policy0 \in Seq(STRING)
    /\ Len(Policy0) = Len(KernelZones) /\ \A i \in DOMAIN Policy0 : Policy0[i] # "absent"

VARIABLES
    pipe,           \* the wakeup pipe: messages and how they will be read
    lost,           \* a message was torn or dropped by a full pipe
    file,           \* thd_preference.conf
    pref, status,   \* the engine's preference and its enable flag
    interval,       \* poll_interval_sec
    period,         \* poll_timeout_sec, computed when the thread starts
    timeout, saved, \* poll_timeout_msec and saved_poll_interval
    pollMask, fastMask,   \* poll_sensor_mask and fast_poll_sensor_mask
    pollOn,         \* zones whose polling trip is on (poll_on)
    stale,          \* zones whose trip was deleted while it was on, and not on since
    hot,            \* zones at or above their polling trip (the machine)
    due,            \* poll_timeout_sec went by since the last sweep
    terminate, thread, ready,   \* the engine thread
    work,           \* the checks of sensors it has still to make
    policy, prefs,  \* the kernel zones' policies ("absent": no such zone), and zone_preferences
    skewed,         \* a policy was not read, or a kernel zone came or went
    late,           \* control was taken over after it was given up
    main,           \* the main thread: starting, serving, stopping or gone
    crashed, requests

engine == <<pref, status, interval, period, timeout, saved, pollMask, fastMask>>
loop == <<terminate, thread, ready, due, work>>
trip == <<pollOn, stale>>
control == <<policy, prefs, skewed, late>>
vars == <<pipe, lost, file, engine, trip, hot, loop, control, main, crashed, requests>>

TripZones == DOMAIN SensorList
Preferences == {"PERFORMANCE", "ENERGY_CONSERVE", "DISABLED"}
message_name_t ==
    <<"WAKEUP", "TERMINATE", "PREF_CHANGED", "THERMAL_ZONE_NOTIFY", "RELOAD_ZONES",
      "POLL_ENABLE", "POLL_DISABLE", "FAST_POLL_ENABLE", "FAST_POLL_DISABLE">>
Plain(kind) == [kind |-> kind, sensor |-> 0]

(* 1 << sensor_id of a 32-bit int: the processor shifts by sensor_id % 32.  *)
Bit(sensor) == sensor % 32

(* The zones whose polling trip has its bit of the masks to itself.         *)
Sole(i) == \A j \in TripZones \ {i} : Bit(SensorList[j]) # Bit(SensorList[i])

-----------------------------------------------------------------------------
(* send_message: whole, torn or dropped, by the room left in the pipe.      *)
OutOfStep(q) == q # <<>> /\ (q[Len(q)].torn \/ q[Len(q)].shifted)

Send(q, m) ==
    IF Len(q) > PipeCapacity THEN q
    ELSE Append(q, [msg |-> m, torn |-> Len(q) = PipeCapacity, shifted |-> OutOfStep(q)])

Sends(m) == pipe' = Send(pipe, m) /\ lost' = (lost \/ Len(pipe) >= PipeCapacity)
SendsBoth(m, n) ==
    /\ pipe' = Send(Send(pipe, m), n)
    /\ lost' = (lost \/ Len(pipe) + 1 >= PipeCapacity)

(* A shifted message is read eight bytes late: the low byte of its payload *)
(* is the message id, and the payload is zero.                              *)
Misread(m) ==
    LET id == m.sensor % 256
    IN Plain(IF id < Len(message_name_t) THEN message_name_t[id + 1] ELSE "WAKEUP")

(* Every zone checks its sensor: zone_temperature_notification.             *)
ReadEach == [i \in 1..Len(SensorList) |-> [zone |-> i, cold |-> FALSE]]

(* update_zone_preference: first as if cold, then with the temperature.     *)
SwitchEach ==
    [i \in 1..(2 * Len(SensorList)) |-> [zone |-> (i + 1) \div 2, cold |-> i % 2 = 1]]

(* New trips take the place of those there were, each of them off; nobody   *)
(* tells the engine about the ones that were on.                            *)
RebuildTrips == pollOn' = {} /\ stale' = stale \cup pollOn

-----------------------------------------------------------------------------
(* The policies of the kernel zones.                                        *)
Present == {i \in DOMAIN policy : policy[i] # "absent"}
PlaceOf(S, i) == Cardinality({j \in S : j <= i})

TakeoverAfresh(keep) ==   \* mutant: saves the policies anew each time
    /\ prefs' = [k \in 1..Cardinality(keep) |-> policy[CHOOSE i \in keep : PlaceOf(keep, i) = k]]
    /\ policy' = [i \in DOMAIN policy |-> IF i \in keep THEN "user_space" ELSE policy[i]]
    /\ skewed' = (skewed \/ keep # DOMAIN policy)

(* takeover_thermal_control appends the policies it can read, in directory  *)
(* order, and replaces them.                                                *)
Takeover(keep) ==
    /\ prefs' = prefs \o [k \in 1..Cardinality(keep) |-> policy[CHOOSE i \in keep : PlaceOf(keep, i) = k]]
    /\ policy' = [i \in DOMAIN policy |-> IF i \in keep THEN "user_space" ELSE policy[i]]
    /\ skewed' = (skewed \/ keep # DOMAIN policy)

(* giveup_thermal_control: the saved policies in turn, to the zones there   *)
(* are; past the end of the vector it reads nothing the kernel would take.  *)
GivenBack ==
    [i \in DOMAIN policy |->
        IF i \in Present /\ PlaceOf(Present, i) <= Len(prefs) THEN prefs[PlaceOf(Present, i)]
        ELSE policy[i]]

ReadPreference == IF file = "none" THEN "ENERGY_CONSERVE" ELSE file

Request == requests < MaxRequests /\ requests' = requests + 1
ReadsOrFails(keep) == IF keep = Present THEN UNCHANGED requests ELSE Request

-----------------------------------------------------------------------------
(* thd_engine_start of a new engine object, up to pthread_create.           *)
EngineStarts(i, async, default) ==
    /\ interval' = i
    /\ timeout' = IF i # 0 THEN i * 1000 ELSE IF async THEN -1 ELSE 4000
    /\ period' = IF timeout' = -1 THEN 0 ELSE timeout' \div 1000
    /\ file' = IF default = "none" THEN file ELSE default
    /\ pref' = "ENERGY_CONSERVE" /\ status' = TRUE
    /\ saved' = 0 /\ pollMask' = {} /\ fastMask' = {} /\ pollOn' = {} /\ stale' = {}
    /\ pipe' = <<>> /\ lost' = FALSE
    /\ terminate' = FALSE /\ thread' = "poll" /\ ready' = FALSE
    /\ due' = TRUE /\ work' = <<>>
    /\ prefs' = <<>>
    /\ main' = "starting"

Init ==
    /\ interval \in Intervals
    /\ timeout \in IF interval # 0 THEN {interval * 1000} ELSE {-1, 4000}
    /\ period = IF timeout = -1 THEN 0 ELSE timeout \div 1000
    /\ file \in Defaults /\ pref = "ENERGY_CONSERVE" /\ status = TRUE
    /\ saved = 0 /\ pollMask = {} /\ fastMask = {} /\ pollOn = {} /\ stale = {} /\ hot = {}
    /\ pipe = <<>> /\ lost = FALSE
    /\ terminate = FALSE /\ thread = "poll" /\ ready = FALSE
    /\ due = TRUE /\ work = <<>>
    /\ policy = Policy0 /\ prefs = <<>> /\ skewed = FALSE /\ late = FALSE
    /\ main = "starting" /\ crashed = FALSE /\ requests = 0

(* The rest of thd_engine_start, beside the running thread.                 *)
StartEnds(keep) ==
    /\ main = "starting"
    /\ pref' = ReadPreference
    /\ Takeover(keep) /\ ReadsOrFails(keep)
    /\ main' = "serve"
    /\ UNCHANGED <<pipe, lost, file, status, interval, period, timeout, saved, pollMask, fastMask,
                   trip, hot, loop, late, crashed>>

-----------------------------------------------------------------------------
(* The engine thread.  poll() returns on a message, on a uevent u, or on    *)
(* the timeout; a disabled engine whose sweep is due goes straight back to  *)
(* poll() and so takes neither message nor uevent.                          *)
Running == main \notin {"gone", "undefined"}
SweepDue(u) == due \/ (pipe = <<>> /\ ~u)

Poll(u) ==
    /\ Running /\ thread = "poll" /\ ~terminate
    /\ u => interval = 0
    /\ (pipe = <<>> /\ ~u) => timeout # -1
    /\ SweepDue(u) => status
    /\ ready' = (pipe # <<>>)
    /\ IF SweepDue(u)
       THEN work' = ReadEach /\ due' = (period = 0)
       ELSE UNCHANGED <<work, due>>
    /\ thread' = IF u THEN "uevent" ELSE "wakeup"
    /\ UNCHANGED <<pipe, lost, file, engine, trip, hot, terminate, control, main, crashed, requests>>

(* The polling trip of the next zone: a change of side is two messages,     *)
(* between which and those of the next zone the main thread may send.       *)
CheckSensor ==
    LET z == Head(work).zone
        isHot == z \in hot /\ ~Head(work).cold
        About(kind) == [kind |-> kind, sensor |-> SensorList[z]]
    IN /\ Running /\ work # <<>>
       /\ work' = Tail(work)
       /\ \/ /\ isHot /\ z \notin pollOn /\ pollOn' = pollOn \cup {z} /\ stale' = stale \ {z}
             /\ SendsBoth(About("POLL_ENABLE"), About("FAST_POLL_ENABLE"))
          \/ /\ ~isHot /\ z \in pollOn /\ pollOn' = pollOn \ {z} /\ UNCHANGED stale
             /\ SendsBoth(About("POLL_DISABLE"), About("FAST_POLL_DISABLE"))
          \/ (isHot <=> z \in pollOn) /\ UNCHANGED <<pipe, lost, trip>>
       /\ UNCHANGED <<file, engine, hot, terminate, thread, ready, due, control, main, crashed,
                      requests>>

(* check_for_event and its debounce: a sweep, or the event is ignored.      *)
Uevent(relevant) ==
    /\ Running /\ thread = "uevent" /\ work = <<>>
    /\ work' = IF relevant THEN ReadEach ELSE <<>>
    /\ thread' = "wakeup"
    /\ UNCHANGED <<pipe, lost, file, engine, trip, hot, terminate, ready, due, control, main,
                   crashed, requests>>

poll_enable(s) ==
    /\ pollMask' = pollMask \cup {Bit(s)} /\ timeout' = 4000
    /\ UNCHANGED <<saved, fastMask>>

poll_disable(s) ==
    /\ pollMask' = pollMask \ {Bit(s)}
    /\ timeout' = IF pollMask' = {} THEN -1 ELSE timeout
    /\ UNCHANGED <<saved, fastMask>>

fast_poll_enable(s) ==
    /\ fastMask' = fastMask \cup {Bit(s)}
    /\ saved' = IF saved = 0 THEN timeout ELSE saved
    /\ timeout' = 1000
    /\ UNCHANGED pollMask

fast_poll_disableAny(s) ==   \* mutant: ignores the bits still in the mask
    /\ fastMask' = fastMask \ {Bit(s)}
    /\ timeout' = IF saved # 0 THEN saved ELSE timeout
    /\ UNCHANGED <<saved, pollMask>>

fast_poll_disable(s) ==
    /\ fastMask' = fastMask \ {Bit(s)}
    /\ timeout' = IF fastMask' = {} /\ saved # 0 THEN saved ELSE timeout
    /\ UNCHANGED <<saved, pollMask>>

PollingUnchanged == UNCHANGED <<timeout, saved, pollMask, fastMask>>

(* Up to the loop over the zones, which leads to TakeOver.                  *)
process_pref_change ==
    /\ status' = (ReadPreference # "DISABLED")
    /\ PollingUnchanged
    /\ IF status'
       THEN pref' = ReadPreference /\ work' = SwitchEach /\ thread' = "takeover"
       ELSE UNCHANGED <<pref, work>> /\ thread' = "poll"

TerminatesNever(m) == terminate   \* mutant: TERMINATE is not handled
Terminates(m) == terminate \/ m.kind = "TERMINATE"

(* proc_message: POLL_* only matters without a configured interval.         *)
ProcMessage(m) ==
    /\ UNCHANGED <<interval, period>>
    /\ IF m.kind = "RELOAD_ZONES" THEN RebuildTrips ELSE UNCHANGED trip
    /\ IF m.kind = "PREF_CHANGED" THEN process_pref_change
       ELSE /\ UNCHANGED <<pref, status>>
            /\ IF m.kind = "THERMAL_ZONE_NOTIFY" /\ status
               THEN work' = ReadEach /\ thread' = "wakeup"
               ELSE UNCHANGED work /\ thread' = "poll"
            /\ CASE m.kind = "POLL_ENABLE" /\ interval = 0 -> poll_enable(m.sensor)
                 [] m.kind = "POLL_DISABLE" /\ interval = 0 -> poll_disable(m.sensor)
                 [] m.kind = "FAST_POLL_ENABLE" -> fast_poll_enable(m.sensor)
                 [] m.kind = "FAST_POLL_DISABLE" -> fast_poll_disable(m.sensor)
                 [] OTHER -> PollingUnchanged

(* The read: it consumes the message before proc_message sends new ones.    *)
Wakeup ==
    /\ Running /\ thread = "wakeup" /\ work = <<>>
    /\ IF ~ready
       THEN thread' = "poll" /\ UNCHANGED <<pipe, engine, trip, work, terminate>>
       ELSE LET m == IF Head(pipe).shifted THEN Misread(Head(pipe).msg) ELSE Head(pipe).msg
            IN pipe' = Tail(pipe) /\ terminate' = Terminates(m) /\ ProcMessage(m)
    /\ ready' = FALSE
    /\ UNCHANGED <<lost, file, hot, due, control, main, crashed, requests>>

(* The end of process_pref_change.                                          *)
TakeOver(keep) ==
    /\ Running /\ thread = "takeover" /\ work = <<>>
    /\ Takeover(keep) /\ ReadsOrFails(keep) /\ thread' = "poll"
    /\ late' = (late \/ main \in {"leaving", "destroying"})
    /\ UNCHANGED <<pipe, lost, file, engine, trip, hot, terminate, ready, due, work, main, crashed>>

(* update_engine_state, at the end of the loop's body: the adaptive engine  *)
(* switches to another target and rebuilds the trips.                       *)
Rebuild ==
    /\ Running /\ thread = "poll" /\ status /\ Request
    /\ RebuildTrips
    /\ UNCHANGED <<pipe, lost, file, engine, hot, loop, control, main, crashed>>

EndThread ==
    /\ Running /\ thread = "poll" /\ terminate
    /\ thread' = "end"
    /\ UNCHANGED <<pipe, lost, file, engine, trip, hot, terminate, ready, due, work, control, main,
                   crashed, requests>>

-----------------------------------------------------------------------------
(* The main thread.  SetCurrentPreference: the file, then PREF_CHANGED.     *)
SetPreferenceQuietly(p) ==   \* mutant: the engine is not told
    /\ main = "serve" /\ Request
    /\ file' = p
    /\ UNCHANGED <<pipe, lost, engine, trip, hot, loop, control, main, crashed>>

SetPreference(p) ==
    /\ main = "serve" /\ Request
    /\ file' = p
    /\ Sends(Plain("PREF_CHANGED"))
    /\ UNCHANGED <<engine, trip, hot, loop, control, main, crashed>>

(* SetUserMaxTemperature and its like end in PREF_CHANGED, AddSensor in WAKEUP. *)
UserRequest(kind) ==
    /\ main = "serve" /\ Request
    /\ Sends(Plain(kind))
    /\ UNCHANGED <<file, engine, trip, hot, loop, control, main, crashed>>

(* thd_engine_terminate, up to its sleep: a signal, Terminate or Reinit.    *)
Stop(next) ==
    /\ main = "serve" /\ Request
    /\ Sends(Plain("TERMINATE"))
    /\ main' = next
    /\ UNCHANGED <<file, engine, trip, hot, loop, control, crashed>>

(* The second of sleep is over, whatever the thread did in it:              *)
(* process_terminate, and another sleep.                                    *)
GiveUp ==
    /\ \/ main = "exiting" /\ main' = "leaving"
       \/ main = "reinit" /\ main' = "destroying"
    /\ policy' = GivenBack
    /\ UNCHANGED <<pipe, lost, file, engine, trip, hot, loop, prefs, skewed, late, crashed, requests>>

(* The memory of the process is gone, or nothing can be said of it.         *)
Forgets ==
    /\ pipe' = <<>> /\ lost' = FALSE /\ pref' = "ENERGY_CONSERVE" /\ status' = TRUE
    /\ interval' = 0 /\ period' = 0 /\ timeout' = -1
    /\ saved' = 0 /\ pollMask' = {} /\ fastMask' = {} /\ pollOn' = {} /\ stale' = {}
    /\ terminate' = FALSE /\ thread' = "end" /\ ready' = FALSE /\ due' = TRUE /\ work' = <<>>
    /\ prefs' = <<>>

Exit ==
    /\ main = "leaving" /\ main' = "gone" /\ Forgets
    /\ UNCHANGED <<file, hot, policy, skewed, late, crashed, requests>>

(* The engine is destroyed and created anew.                                *)
Reinit(i, async, default) ==
    /\ main = "destroying" /\ thread = "end"
    /\ EngineStarts(i, async, default)
    /\ UNCHANGED <<hot, policy, skewed, late, crashed, requests>>

(* The engine is destroyed under a thread that still runs on it.            *)
Destroy ==
    /\ main = "destroying" /\ thread # "end"
    /\ main' = "undefined" /\ Forgets
    /\ UNCHANGED <<file, hot, policy, skewed, late, crashed, requests>>

(* The process is killed; the kernel keeps the policies it was left with.   *)
Crash ==
    /\ Running /\ Request
    /\ main' = "gone" /\ crashed' = TRUE /\ Forgets
    /\ UNCHANGED <<file, hot, policy, skewed, late>>

Restart(i, async, default) ==
    /\ main = "gone" /\ Request
    /\ EngineStarts(i, async, default)
    /\ UNCHANGED <<hot, policy, skewed, late, crashed>>

-----------------------------------------------------------------------------
(* The machine: temperatures, kernel zones that come and go, and the time   *)
(* of the poll interval.  They matter while the daemon runs.                *)
Heat(i) ==
    /\ Running /\ Request
    /\ hot' = IF i \in hot THEN hot \ {i} ELSE hot \cup {i}
    /\ UNCHANGED <<pipe, lost, file, engine, trip, loop, control, main, crashed>>

KernelZone(i) ==
    /\ Running /\ Request
    /\ policy' = [policy EXCEPT ![i] = IF @ = "absent" THEN Policy0[i] ELSE "absent"]
    /\ skewed' = TRUE
    /\ UNCHANGED <<pipe, lost, file, engine, trip, hot, loop, prefs, late, main, crashed>>

(* The thread only looks at the time when poll() returns.                   *)
Elapse ==
    /\ Running /\ thread = "poll" /\ ~due /\ due' = TRUE
    /\ UNCHANGED <<pipe, lost, file, engine, trip, hot, terminate, thread, ready, work, control,
                   main, crashed, requests>>

Thread ==
    \/ \E u \in BOOLEAN : Poll(u)
    \/ CheckSensor
    \/ \E r \in BOOLEAN : Uevent(r)
    \/ Wakeup
    \/ \E keep \in SUBSET Present : TakeOver(keep)
    \/ Rebuild \/ EndThread

Next ==
    \/ Thread
    \/ \E keep \in SUBSET Present : StartEnds(keep)
    \/ \E p \in Preferences : SetPreference(p)
    \/ \E k \in {"PREF_CHANGED", "WAKEUP"} : UserRequest(k)
    \/ \E n \in {"exiting", "reinit"} : Stop(n)
    \/ GiveUp \/ Exit \/ Destroy
    \/ \E i \in Intervals, a \in BOOLEAN, d \in Defaults : Reinit(i, a, d) \/ Restart(i, a, d)
    \/ Crash
    \/ \E i \in TripZones : Heat(i)
    \/ \E i \in DOMAIN policy : KernelZone(i)
    \/ Elapse

(* The thread goes on when it can (poll() returns on a message or at its    *)
(* timeout, uevents and failing reads are not needed), and so does time.    *)
ThreadGoesOn ==
    \/ Poll(FALSE) \/ CheckSensor \/ (\E r \in BOOLEAN : Uevent(r))
    \/ Wakeup \/ TakeOver(Present) \/ EndThread
Fairness == WF_vars(ThreadGoesOn) /\ WF_vars(Elapse)

Spec == Init /\ [][Next]_vars /\ Fairness

-----------------------------------------------------------------------------
(* Once all messages are taken and none was lost, the bit of a polling trip  *)
(* that shares it with no other zone is set exactly when the trip is on, or  *)
(* was on when the zone's trips were rebuilt, and the engine polls at the    *)
(* fast rate while a bit is set and at the configured rate otherwise: the    *)
(* masks, the saved interval and the trips stay in step through preference   *)
(* changes that switch every trip off and on again.                          *)
PollRateMatchesTrips ==
    (main = "serve" /\ thread = "poll" /\ pipe = <<>> /\ ~lost) =>
        /\ \A i \in TripZones : Sole(i) =>
             (Bit(SensorList[i]) \in fastMask <=> i \in pollOn \cup stale)
        /\ fastMask # {} => timeout = 1000
        /\ (fastMask = {} /\ interval # 0) => timeout = interval * 1000

(* A regular stop gives every kernel zone the policy it had before thermald  *)
(* took over, however often control was taken over in between and however    *)
(* often thermald was stopped and restarted.  Four things spoil it: a crash  *)
(* leaves user_space behind for the next takeover to save; a policy that is  *)
(* not read, or a kernel zone that comes or goes, shifts the saved list; and *)
(* a thread slower than the fixed sleep takes over after control was given   *)
(* up.                                                                       *)
PolicyRestored ==
    (main = "gone" /\ ~crashed /\ ~skewed /\ ~late) => policy = Policy0

(* A disabled engine whose sweep is due is back in poll() at once, for ever. *)
Stuck == thread = "poll" /\ ~terminate /\ ~status /\ due
Stopping == main \in {"exiting", "reinit", "leaving", "destroying"}

(* The engine thread ends after thd_engine_terminate if it is given the      *)
(* time: TERMINATE is reached behind every message still in the pipe and     *)
(* those the thread sends itself, unless one was lost or the engine is       *)
(* disabled and never reads again.                                           *)
ThreadEnds ==
    (Stopping /\ ~lost) ~> (thread = "end" \/ ~Stopping \/ lost \/ Stuck)

(* An engine that stays enabled comes to follow the preference in the file:  *)
(* the PREF_CHANGED of the last change is taken after the file was written.  *)
PreferenceApplied ==
    <>[](main = "serve" /\ ~lost /\ status /\ file # "DISABLED")
        => <>[](pref = ReadPreference)

=============================================================================
