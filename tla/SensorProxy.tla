----------------------------- MODULE SensorProxy -----------------------------
(***************************************************************************)
(* The D-Bus daemon of iio-sensor-proxy (iio-sensor-proxy.c): clients      *)
(* claim and release sensors, the daemon starts and stops the drivers,     *)
(* holds Claim replies until the first reading, forwards changes, and      *)
(* follows udev as sensors come and go.                                    *)
(*                                                                         *)
(* The daemon runs on one main loop, so each D-Bus call, udev event, name  *)
(* event and driver callback is one action.  A driver may call back from   *)
(* inside set_polling; that reading is part of the action that polls.      *)
(***************************************************************************)
EXTENDS FiniteSets

CONSTANTS
  Types,     \* DriverType: accelerometer, light, compass, proximity
  Clients,   \* D-Bus names of clients
  Values,    \* what a reading can say (orientation, level, near)
  Kinds,     \* the kinds of driver that may serve a sensor, see StartPolling
  NoSensor,  \* a client's view of an absent sensor (Has* is false)
  Unknown    \* the view of a client that has no claim, or no reply to it yet

ASSUME ConstAssumption ==
  /\ Types # {} /\ Values # {} /\ NoSensor \notin Values
  /\ Unknown \notin Values \cup {NoSensor}
  /\ Kinds \subseteq {"mxc", "poll", "event"} /\ Kinds # {}

VARIABLES
  up,      \* "starting", "running", "stopped"
  lazy,    \* --lazy
  sensor   \* per type, what SensorData keeps for it (see Blank)

vars == <<up, lazy, sensor>>

AnyKind == CHOOSE k \in Kinds : TRUE

\* A type without a driver.  polling is the driver's own state; fresh (a
\* reading came since polling began) and view (what each client that claimed
\* the sensor last learned of it) are history.
Blank ==
  [present |-> FALSE, kind |-> AnyKind, polling |-> FALSE,
   clients |-> {}, delayed |-> {}, event_delayed |-> FALSE,
   previous |-> CHOOSE v \in Values : TRUE, fresh |-> FALSE,
   view |-> [c \in Clients |-> Unknown]]

-----------------------------------------------------------------------------
(* What a reading does *)

\* Mutant: a changed value is sent to clients that still wait for their reply
\* and to nobody else.
ChangedOnlyForWaiting(r, v) ==
  [r EXCEPT
     !.previous = v, !.fresh = TRUE,
     !.delayed = {}, !.event_delayed = FALSE,
     !.view = [c \in Clients |->
                 IF c \in r.clients /\ (c \in r.delayed \/ r.event_delayed)
                 THEN v ELSE r.view[c]]]

\* Mutant: the reading answers no delayed Claim.
ChangedWithoutReplies(r, v) ==
  [r EXCEPT !.previous = v, !.fresh = TRUE, !.event_delayed = FALSE,
            !.view = [c \in Clients |-> IF c \in r.clients THEN v ELSE r.view[c]]]

\* accel_changed_func and its siblings: keep the value, signal it to the
\* sensor's clients if it changed, then maybe_notify_sensor_startup_finished:
\* answer every delayed Claim and send the delayed Has* event.
Changed(r, v) ==
  [r EXCEPT
     !.previous = v, !.fresh = TRUE,
     !.delayed = {}, !.event_delayed = FALSE,
     !.view = [c \in Clients |->
                 IF /\ c \in r.clients
                    /\ c \in r.delayed \/ v # r.previous \/ r.event_delayed
                 THEN v ELSE r.view[c]]]

Polling(r) == [r EXCEPT !.polling = TRUE, !.fresh = r.polling /\ r.fresh]

\* driver_set_polling(TRUE), the possible outcomes.  "mxc" (MXC6655) hands out
\* a reading on every call.  "poll" (IIO, hwmon, fake, SSC) does so when it was
\* not polling yet, if the sensor can be read, and on a timer afterwards.
\* "event" (input proximity) does so when it was not watching yet; afterwards
\* a reading comes only when the switch moves.  A device that cannot be opened
\* is left out.
StartPolling(r) ==
  CASE r.kind = "mxc"                   -> {Changed(Polling(r), v) : v \in Values}
    [] r.kind # "mxc" /\ r.polling       -> {r}
    [] r.kind = "poll" /\ ~r.polling     ->
         {Polling(r)} \cup {Changed(Polling(r), v) : v \in Values}
    [] r.kind = "event" /\ ~r.polling    -> {Changed(Polling(r), v) : v \in Values}

\* driver_set_polling(FALSE)
StopPolling(r) == [r EXCEPT !.polling = FALSE, !.fresh = FALSE]

-----------------------------------------------------------------------------
(* D-Bus calls *)

\* g_dbus_method_invocation_return_value for a Claim; the client then reads
\* the properties.
Reply(r, c) ==
  [r EXCEPT !.view[c] = IF r.present THEN r.previous ELSE NoSensor]

Delay(r, c) == [r EXCEPT !.delayed = @ \cup {c}]

\* Mutant: a Claim during the start-up that a hotplug began returns at once.
ClaimedIgnoringEvent(r, c) ==
  LET in == [r EXCEPT !.clients = @ \cup {c}, !.view[c] = Unknown]
  IN IF c \in r.clients THEN {Reply(r, c)}
     ELSE IF ~in.present THEN {Reply(in, c)}
     ELSE IF in.clients = {c} /\ ~in.polling THEN StartPolling(Delay(in, c))
     ELSE {Reply(in, c)}

\* handle_generic_method_call for Claim*, of a client that polkit lets through
\* (the others get an error and nothing changes).  A client that is in the
\* table already is answered at once, even while its first Claim waits.
Claimed(r, c) ==
  LET in == [r EXCEPT !.clients = @ \cup {c}, !.view[c] = Unknown]
  IN IF c \in r.clients THEN {Reply(r, c)}
     ELSE IF ~in.present THEN {Reply(in, c)}
     ELSE IF in.clients = {c} THEN StartPolling(Delay(in, c))
     ELSE IF in.delayed # {} \/ in.event_delayed THEN {Delay(in, c)}
     ELSE {Reply(in, c)}

Claim(t, c) ==
  /\ up = "running"
  /\ \E r \in Claimed(sensor[t], c) : sensor' = [sensor EXCEPT ![t] = r]
  /\ UNCHANGED <<up, lazy>>

\* Mutant: polling stops with the first client that leaves.
ReleasedFirst(r, c) ==
  LET out == [r EXCEPT !.clients = @ \ {c}, !.view[c] = Unknown]
  IN IF c \in r.clients /\ lazy /\ r.present THEN StopPolling(out) ELSE out

\* client_release
Released(r, c) ==
  LET out == [r EXCEPT !.clients = @ \ {c}, !.view[c] = Unknown]
  IN IF c \in r.clients /\ lazy /\ r.present /\ out.clients = {}
     THEN StopPolling(out) ELSE out

Release(t, c) ==
  /\ up = "running" /\ c \in sensor[t].clients
  /\ sensor' = [sensor EXCEPT ![t] = Released(@, c)]
  /\ UNCHANGED <<up, lazy>>

\* client_vanished_cb: the client leaves every sensor it claimed.
Vanish(c) ==
  /\ up = "running" /\ \E t \in Types : c \in sensor[t].clients
  /\ sensor' = [t \in Types |-> Released(sensor[t], c)]
  /\ UNCHANGED <<up, lazy>>

-----------------------------------------------------------------------------
(* udev, name and signal events *)

\* driver_open of a device of kind k.
Opened(r, k) ==
  [r EXCEPT !.present = TRUE, !.kind = k, !.polling = FALSE, !.fresh = FALSE]

\* A type after name_acquired_handler: nothing found (or driver_open failed),
\* or a device, polled at once unless --lazy.
AtStartup(r) ==
  {r} \cup UNION { IF lazy THEN {Opened(r, k)} ELSE StartPolling(Opened(r, k)) :
                     k \in Kinds }

NameAcquired ==
  /\ up = "starting"
  /\ sensor' \in [Types -> UNION {AtStartup(sensor[t]) : t \in Types}]
  /\ up' = IF \E t \in Types : sensor'[t].present THEN "running" ELSE "stopped"
  /\ UNCHANGED lazy

\* Mutant: a removal leaves the delayed event and calls in place.
RemovedKeepsDelayed(r) ==
  [StopPolling(r) EXCEPT !.present = FALSE, !.kind = AnyKind, !.clients = {}]

\* sensor_changes "remove": the device is closed, the table of clients is
\* replaced by an empty one, delayed calls get an error, and the Has* event
\* goes to every client in the table: by now, to none.
Removed(r) ==
  [StopPolling(r) EXCEPT !.present = FALSE, !.kind = AnyKind, !.clients = {},
                         !.delayed = {}, !.event_delayed = FALSE]

HotRemove(gone) ==
  /\ up = "running" /\ gone # {} /\ \A t \in gone : sensor[t].present
  /\ sensor' = [t \in Types |-> IF t \in gone THEN Removed(sensor[t])
                                              ELSE sensor[t]]
  /\ up' = IF \E t \in Types : sensor'[t].present THEN "running" ELSE "stopped"
  /\ UNCHANGED lazy

\* sensor_changes "add": with clients waiting, the Has* event is delayed until
\* the first reading.
Added(r, k) ==
  LET open == Opened(r, k)
  IN IF r.clients # {} THEN StartPolling([open EXCEPT !.event_delayed = TRUE])
     ELSE IF lazy THEN {open} ELSE StartPolling(open)

HotAdd(t, k) ==
  /\ up = "running" /\ ~sensor[t].present
  /\ \E r \in Added(sensor[t], k) : sensor' = [sensor EXCEPT ![t] = r]
  /\ UNCHANGED <<up, lazy>>

\* termination_signal_handler, then free_sensor_data.
Terminate ==
  /\ up = "running"
  /\ up' = "stopped"
  /\ sensor' = [t \in Types |-> Removed(sensor[t])]
  /\ UNCHANGED lazy

\* A driver's callback from the main loop: its timer, or its event.
Reading(t) ==
  /\ up = "running" /\ sensor[t].present /\ sensor[t].polling
  /\ \E v \in Values : sensor' = [sensor EXCEPT ![t] = Changed(@, v)]
  /\ UNCHANGED <<up, lazy>>

TimedReading(t) == sensor[t].kind = "poll" /\ Reading(t)

Init ==
  /\ up = "starting"
  /\ lazy \in BOOLEAN
  /\ sensor = [t \in Types |-> Blank]

Next ==
  \/ NameAcquired \/ Terminate
  \/ \E t \in Types, c \in Clients : Claim(t, c) \/ Release(t, c)
  \/ \E c \in Clients : Vanish(c)
  \/ \E gone \in SUBSET Types : HotRemove(gone)
  \/ \E t \in Types, k \in Kinds : HotAdd(t, k)
  \/ \E t \in Types : Reading(t)

Spec == Init /\ [][Next]_vars

\* A polling driver's timer keeps firing, and a sensor that can be read is
\* read in the end; nothing makes a switch move or a client call.
Fairness == \A t \in Types : WF_vars(TimedReading(t))
FairSpec == Spec /\ Fairness

-----------------------------------------------------------------------------
(* Properties *)

\* Nothing waits for a sensor that is not there: the assertion of the hotplug
\* handler that no Has* event is delayed when a sensor appears, and no Claim
\* call is left without an answer by a removal.
NothingDelayedWhenAbsent ==
  \A t \in Types : ~sensor[t].present =>
    /\ ~sensor[t].event_delayed
    /\ sensor[t].delayed = {}
    /\ ~sensor[t].polling

\* A sensor is polled as long as it is there, with --lazy only while a client
\* has claimed it, through every order of claims, releases, disappearing
\* clients and hotplug events.
PolledWhenWanted ==
  up = "running" =>
    \A t \in Types :
      sensor[t].polling <=> /\ sensor[t].present
                            /\ lazy => sensor[t].clients # {}

\* The clients a Claim of whose has returned.
Informed(r) == {c \in r.clients : r.view[c] # Unknown}

\* "Return the dbus invocation only after we receive the first reading": the
\* client of a present sensor whose first Claim has returned, or whose sensor
\* has been announced, has a reading since polling began.  A client that
\* claims again while it waits gets no such promise.
ClaimedHaveReading ==
  \A t \in Types :
    LET r == sensor[t]
    IN r.present /\ ~r.event_delayed /\ Informed(r) \ r.delayed # {} => r.fresh

\* What a client whose Claim has returned last learned is the truth: whether
\* the sensor is there, and its last value.
ViewsCurrent ==
  \A t \in Types :
    LET r == sensor[t]
    IN \A c \in Informed(r) :
         ~r.event_delayed =>
           r.view[c] = IF r.present THEN r.previous ELSE NoSensor

\* A Claim that waits for a reading is answered, unless the client gives up.
ClaimAnswered ==
  \A t \in Types, c \in Clients :
    (c \in sensor[t].delayed /\ c \in sensor[t].clients)
      ~> (c \notin sensor[t].delayed \/ c \notin sensor[t].clients)
=============================================================================
