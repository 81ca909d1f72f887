------------------------------ MODULE IioDrivers ------------------------------
(***************************************************************************)
(* The drivers of iio-sensor-proxy other than the MXC6655: one device and   *)
(* its driver through discover, open, set_polling and close.  Some drivers  *)
(* read on a timer, some on events; the buffered ones also switch scan      *)
(* elements, a trigger and a ring buffer on and off in sysfs, which outlive *)
(* the daemon if it is killed half way.                                     *)
(***************************************************************************)
EXTENDS IioScan

CONSTANTS
    Devices,        \* the devices a behaviour is about, see dev
    Samples,        \* true accelerations, in the machine's frame
    Levels,         \* raw readings of a proximity sensor
    NearLevel,      \* its PROXIMITY_NEAR_LEVEL
    Frequencies,    \* the sampling frequency a device starts with
    Arbitrary,      \* what an uninitialised variable may hold
    RingLength,     \* scans the ring buffer holds (128)
    ReadLength,     \* scans one read may take (127)
    MaxCrashes      \* bound on deaths of the daemon

BufferKinds == {"iio-buffer-accel", "iio-buffer-compass", "iio-buffer-als"}
SscKinds == {"ssc-accel", "ssc-compass", "ssc-light", "ssc-proximity"}
AccelKinds == {"iio-buffer-accel", "iio-poll-accel", "input-accel", "ssc-accel"}

\* The udev rules give a buffered type only to a device with scan elements.
ASSUME DevicesAssumption == \A d \in Devices : d.kind \in BufferKinds => DOMAIN d.channels # {}

VARIABLES
    dev,        \* [kind, faults, channels, available, trigger, property, label, attr, mount, matrices]
    phase,      \* "absent", a step of an open or of a close, "found", "rejected", "open", "closed"
    goal,       \* what that step is for: "discover", "open" or "close"
    why,        \* how the last discover or open ended: "ok", "silent" or "error"
    hw,         \* sysfs: [scan, trigger, ring, freq]
    fifo,       \* scans in the ring buffer: the bytes, and the sample they stand for
    buffer,     \* buffer_data: the channels of a scan and where each ends
    src,        \* sources of readings: see NoSources
    prox,       \* [last, near]: last_level, and the last reading of a proximity sensor
    polled,     \* set_polling(TRUE) was called last
    fresh,      \* a reading was sent since
    out, meant, \* the last reading sent, and the sample it stands for
    crashes

vars == <<dev, phase, goal, why, hw, fifo, buffer, src, prox, polled, fresh, out, meant, crashes>>

\* timeout_id, watcher_id, measurement_id, an opened SSC sensor, the connected
\* uevent handler, sends_kevent, and the sensor object of libssc.
NoSources == [timeout |-> FALSE, watch |-> FALSE, measuring |-> FALSE, streaming |-> FALSE,
              handler |-> FALSE, kevent |-> FALSE, sensor |-> FALSE]

NoBuffer == [channels |-> <<>>, end |-> <<>>]

Fault(f) == f \in dev.faults

Init ==
    /\ dev \in Devices
    /\ phase = "absent" /\ goal = "discover" /\ why = "ok"
    /\ hw \in [scan : {{}}, trigger : {FALSE}, ring : {FALSE}, freq : Frequencies]
    /\ fifo = <<>> /\ buffer = NoBuffer /\ src = NoSources /\ prox = [last |-> 0, near |-> FALSE]
    /\ polled = FALSE /\ fresh = FALSE /\ out = <<>> /\ meant = <<>> /\ crashes = 0

-----------------------------------------------------------------------------
(* Where an accelerometer sits.                                             *)

parse_accel_location(s) ==
    CASE s \in {"", "display", "lid"} -> "display"
      [] s = "base" -> "base"
      [] OTHER -> "unknown"

parse_accel_label(s) ==
    CASE s = "accel-display" -> "display"
      [] s = "accel-base" -> "base"
      [] OTHER -> "unknown"

\* The first source that can be parsed, or the display.
FirstOr(s, ok(_), default) ==
    LET good == {i \in DOMAIN s : ok(s[i])}
    IN  IF good = {} THEN default ELSE s[Min(good)]

setup_accel_location ==
    FirstOr(<<parse_accel_location(dev.property), parse_accel_label(dev.label),
              parse_accel_location(dev.attr)>>, LAMBDA l : l # "unknown", "display")

IdMatrix == <<<<1, 0, 0>>, <<0, 1, 0>>, <<0, 0, 1>>>>

\* An axis that is all zeroes spoils a matrix; <<>> stands for text that is none.
parse_mount_matrix(m) == m # <<>> /\ \A i \in DOMAIN m : m[i] # <<0, 0, 0>>

setup_mount_matrix == FirstOr(dev.matrices, parse_mount_matrix, IdMatrix)

apply_mount_matrix(m, v) ==
    [i \in 1..3 |-> m[i][1] * v[1] + m[i][2] * v[2] + m[i][3] * v[3]]

\* What a chip mounted by the device's matrix (a rotation) measures of v.
ChipFrame(v) == [j \in 1..3 |-> dev.mount[1][j] * v[1] + dev.mount[2][j] * v[2] + dev.mount[3][j] * v[3]]

-----------------------------------------------------------------------------
(* Readings.  Each Read below is what one callback does.                    *)

Deliver(v, truth) == out' = v /\ meant' = truth /\ fresh' = TRUE
NoReading == UNCHANGED <<out, meant>> /\ fresh' = (fresh /\ polled)

AccelReading ==
    \E v \in Samples : Deliver(apply_mount_matrix(setup_mount_matrix, ChipFrame(v)), v)
ScalarReading == Deliver(<<>>, <<>>)

\* A raw value that cannot be read counts as zero.
poll_orientation ==
    /\ IF Fault("read") THEN Deliver(<<0, 0, 0>>, <<0, 0, 0>>) ELSE AccelReading
    /\ UNCHANGED <<fifo, prox>>

light_changed ==
    /\ IF Fault("read") THEN NoReading ELSE ScalarReading
    /\ UNCHANGED <<fifo, prox>>

hwmon_light_changed ==
    /\ IF Fault("read") THEN NoReading ELSE ScalarReading
    /\ UNCHANGED <<fifo, prox>>

fake_light_changed == ScalarReading /\ UNCHANGED <<fifo, prox>>
compass_changed == ScalarReading /\ UNCHANGED <<fifo, prox>>

accelerometer_changed ==
    /\ IF Fault("read") THEN NoReading ELSE AccelReading
    /\ UNCHANGED <<fifo, prox>>

\* The margin depends on the last raw level, not on the last answer.
poll_proximity ==
    /\ \E level \in IF Fault("read") THEN {0} ELSE Levels :
          LET mark == IF prox.last > NearLevel
                      THEN PROXIMITY_WATER_MARK_LOW ELSE PROXIMITY_WATER_MARK_HIGH
          IN  prox' = [last |-> level, near |-> 10 * level > NearLevel * mark]
    /\ ScalarReading
    /\ UNCHANGED fifo

\* The channels a buffered driver asks for.
Names == CASE dev.kind = "iio-buffer-accel" -> <<"in_accel_x", "in_accel_y", "in_accel_z">>
           [] dev.kind = "iio-buffer-compass" -> <<"in_rot_from_north_magnetic_tilt_comp">>
           [] OTHER -> <<"in_intensity_both">>

AllElements == {dev.channels[i].name : i \in DOMAIN dev.channels}

\* The kernel's scan for a sample; a channel that is not named counts time.
ScanOf(v) ==
    LET raw == IF dev.kind = "iio-buffer-accel" THEN ChipFrame(v) ELSE v
    IN  Encoded(dev.channels,
                [n \in AllElements |->
                    LET at == {i \in DOMAIN Names : Names[i] = n}
                        c == CHOOSE i \in DOMAIN dev.channels : dev.channels[i].name = n
                    IN  IF at = {} THEN 7 ELSE raw[Min(at)] - dev.channels[c].offset])

\* The kernel rounds a scan up to its widest channel, the driver does not.
TrailingPadding ==
    LET array == build_channel_array(dev.channels)
        end == size_from_channelarray(array)
    IN  array # <<>> /\ end[Len(end)] % Max({array[k].bytes : k \in DOMAIN array}) # 0

\* process_scan of the accelerometer: the mount matrix is applied to the axes.
process_scan_accel(data, base) ==
    {apply_mount_matrix(setup_mount_matrix, <<x, y, z>>) :
        x \in process_scan_1(data, base, buffer.channels, buffer.end, Names[1], Arbitrary),
        y \in process_scan_1(data, base, buffer.channels, buffer.end, Names[2], Arbitrary),
        z \in process_scan_1(data, base, buffer.channels, buffer.end, Names[3], Arbitrary)}

process_scan_compass(data, base) ==
    {<<x>> : x \in process_scan_1(data, base, buffer.channels, buffer.end, Names[1], Arbitrary)}

process_scan_light(data, base) ==
    {<<x>> : x \in process_scan_1(data, base, buffer.channels, buffer.end, Names[1], {0})}

\* prepare_output: read the whole scans that fit, report the last one, found by
\* the driver's own size of a scan.
PrepareOutput(process(_, _)) ==
    /\ UNCHANGED prox
    /\ IF Fault("node") \/ fifo = <<>> THEN NoReading /\ UNCHANGED fifo
       ELSE LET size == buffer.end[Len(buffer.end)]
                n == Min({Len(fifo), (ReadLength * size) \div Len(fifo[1].bytes)})
                data == FlattenSeq([i \in 1..n |-> fifo[i].bytes])
                last == Len(data) \div size - 1
            IN  /\ fifo' = SubSeq(fifo, n + 1, Len(fifo))
                /\ IF last < 0 THEN NoReading
                   ELSE \E v \in process(data, last * size) :
                            Deliver(v, SubSeq(fifo[n].sample, 1, Len(Names)))

read_orientation == PrepareOutput(process_scan_accel)
read_heading == PrepareOutput(process_scan_compass)
read_light == PrepareOutput(process_scan_light)

-----------------------------------------------------------------------------
(* Sysfs.  The kernel refuses scan elements and triggers while the buffer   *)
(* is in use, and starts it empty.                                          *)

KernelTakesScan == ~hw.ring /\ ~Fault("scan")
KernelTakesTrigger == ~hw.ring /\ ~Fault("trigger")
RingOn(h) == IF Fault("ring") THEN h ELSE [h EXCEPT !.ring = TRUE]
enable_ring_buffer == hw' = RingOn(hw) /\ fifo' = IF hw.ring THEN fifo ELSE <<>>
disable_ring_buffer == hw' = [hw EXCEPT !.ring = FALSE] /\ UNCHANGED fifo

Daemon == UNCHANGED <<dev, crashes>>
Kept == Daemon /\ UNCHANGED buffer
Quietly == UNCHANGED <<src, prox, polled, fresh, out, meant>>

Freeing == {"free_ring", "free_trigger", "free_sensors"}

\* Mutant: scan elements first, ring buffer last.
FreeAfterSensorsFirst(p) ==
    CASE p = "start" -> "free_sensors" [] p = "free_sensors" -> "free_trigger"
      [] p = "free_trigger" -> "free_ring" [] OTHER -> "end"

\* buffer_drv_data_free: the buffer before the trigger before the scan elements.
FreeAfter(p) ==
    CASE p = "start" -> "free_ring" [] p = "free_ring" -> "free_trigger"
      [] p = "free_trigger" -> "free_sensors" [] OTHER -> "end"

\* Where a discover, an open or a close arrives when all is undone.
Ended == CASE goal = "close" -> "closed"
           [] goal = "discover" /\ why = "ok" /\
              (dev.kind \notin AccelKinds \/ setup_accel_location = "display") -> "found"
           [] OTHER -> "rejected"

FreeOn ==
    LET done == FreeAfter(phase) = "end"
    IN  /\ phase' = IF done THEN Ended ELSE FreeAfter(phase)
        /\ buffer' = IF done THEN NoBuffer ELSE buffer

FreeRing ==
    /\ phase = "free_ring" /\ FreeOn /\ disable_ring_buffer
    /\ Daemon /\ Quietly /\ UNCHANGED <<goal, why>>

disable_trigger ==
    /\ phase = "free_trigger" /\ FreeOn
    /\ hw' = IF dev.trigger /\ KernelTakesTrigger THEN [hw EXCEPT !.trigger = FALSE] ELSE hw
    /\ Daemon /\ Quietly /\ UNCHANGED <<goal, why, fifo>>

disable_sensors ==
    /\ phase = "free_sensors" /\ FreeOn
    /\ hw' = IF KernelTakesScan THEN [hw EXCEPT !.scan = {}] ELSE hw
    /\ Daemon /\ Quietly /\ UNCHANGED <<goal, why, fifo>>

-----------------------------------------------------------------------------
(* buffer_drv_data_new, one step per call; the first that fails undoes all. *)

Proceed(ok, to) ==
    /\ phase' = IF ok THEN to ELSE FreeAfter("start")
    /\ why' = IF ok THEN why ELSE "error"

Fixup ==
    /\ phase = "fixup" /\ Proceed(~Fault("dir"), "sensors")
    /\ hw' = IF Fault("dir") THEN hw
             ELSE [hw EXCEPT !.freq = iio_fixup_sampling_frequency(@, dev.available)]
    /\ Kept /\ Quietly /\ UNCHANGED <<goal, fifo>>

\* Mutant: elements that are on are written again.
EnabledElementsRewritten == IF KernelTakesScan THEN AllElements ELSE {}

\* Elements that are on are left alone, the others written.
EnabledElements == hw.scan \cup (IF KernelTakesScan THEN AllElements ELSE {})

enable_sensors ==
    /\ phase = "sensors" /\ Proceed(EnabledElements # {}, "trigger")
    /\ hw' = [hw EXCEPT !.scan = @ \cup EnabledElements]
    /\ Kept /\ Quietly /\ UNCHANGED <<goal, fifo>>

\* The name is read back, so a trigger that is set already passes.
enable_trigger ==
    /\ phase = "trigger"
    /\ hw' = IF dev.trigger /\ KernelTakesTrigger THEN [hw EXCEPT !.trigger = TRUE] ELSE hw
    /\ Proceed(dev.trigger => hw'.trigger, "ring")
    /\ Kept /\ Quietly /\ UNCHANGED <<goal, fifo>>

StartRing ==
    /\ phase = "ring" /\ enable_ring_buffer /\ Proceed(hw'.ring, "channels")
    /\ Kept /\ Quietly /\ UNCHANGED goal

\* The buffer stays off until the sensor is claimed.
build_channels ==
    /\ phase = "channels"
    /\ Proceed(~BuildFails(dev.channels), IF goal = "open" THEN "open" ELSE "probe")
    /\ IF BuildFails(dev.channels) THEN UNCHANGED <<hw, fifo, buffer>>
       ELSE /\ disable_ring_buffer
            /\ LET array == build_channel_array(dev.channels)
               IN  buffer' = [channels |-> array, end |-> size_from_channelarray(array)]
    /\ Daemon /\ Quietly /\ UNCHANGED goal

\* discover: is there data within half a second?
ProbeBuffer ==
    /\ phase = "probe" /\ phase' = "wait" /\ enable_ring_buffer
    /\ Kept /\ Quietly /\ UNCHANGED <<goal, why>>

is_buffer_usable ==
    /\ phase = "wait" /\ phase' = FreeAfter("start")
    /\ why' = IF fifo # <<>> /\ ~Fault("node") THEN "ok" ELSE "silent"
    /\ disable_ring_buffer
    /\ Kept /\ Quietly /\ UNCHANGED goal

-----------------------------------------------------------------------------
(* Discover.                                                                *)

\* drv_check_udev_sensor_type
TypeMatches(kind) == dev.kind = kind /\ ~Fault("type")

FoundAt == IF dev.kind \in AccelKinds /\ setup_accel_location # "display" THEN "rejected" ELSE "found"

BufferDiscover(kind) == TypeMatches(kind) /\ phase' = "fixup"
iio_buffer_accel_discover == BufferDiscover("iio-buffer-accel")
iio_buffer_compass_discover == BufferDiscover("iio-buffer-compass")
iio_buffer_light_discover == BufferDiscover("iio-buffer-als")

iio_poll_accel_discover == TypeMatches("iio-poll-accel")
iio_poll_light_discover == TypeMatches("iio-poll-als")
iio_poll_proximity_discover == TypeMatches("iio-poll-proximity")
hwmon_light_discover == TypeMatches("hwmon-als")
\* Only with FAKE_LIGHT_SENSOR or FAKE_COMPASS in the environment.
fake_light_discover == TypeMatches("fake-light")
fake_compass_discover == TypeMatches("fake-compass")
\* An event node that is no part of a joypad.
input_accel_discover == TypeMatches("input-accel") /\ ~Fault("joypad")
\* A switch that reports SW_FRONT_PROXIMITY.
input_proximity_discover == TypeMatches("input-proximity") /\ ~Fault("switch")
\* The sensor is opened and closed once.
ssc_accelerometer_discover == TypeMatches("ssc-accel") /\ ~Fault("new")
ssc_compass_discover == TypeMatches("ssc-compass") /\ ~Fault("new")
ssc_light_discover == TypeMatches("ssc-light") /\ ~Fault("new")
ssc_proximity_discover == TypeMatches("ssc-proximity") /\ ~Fault("new")

SimplyFound ==
    \/ iio_poll_accel_discover \/ iio_poll_light_discover \/ iio_poll_proximity_discover
    \/ hwmon_light_discover \/ fake_light_discover \/ fake_compass_discover
    \/ input_accel_discover \/ input_proximity_discover
    \/ ssc_accelerometer_discover \/ ssc_compass_discover \/ ssc_light_discover \/ ssc_proximity_discover

driver_discover ==
    /\ phase = "absent" /\ goal' = "discover" /\ why' = "ok"
    /\ IF dev.kind \in BufferKinds /\ ~Fault("type")
       THEN iio_buffer_accel_discover \/ iio_buffer_compass_discover \/ iio_buffer_light_discover
       ELSE phase' = IF SimplyFound THEN FoundAt ELSE "rejected"
    /\ Kept /\ Quietly /\ UNCHANGED <<hw, fifo>>

-----------------------------------------------------------------------------
(* Open.                                                                    *)

\* Opens with the sources now connected; the poll drivers first raise a sampling
\* frequency that is too low.
Opens(ok, sources, freq) ==
    /\ phase' = IF ok THEN "open" ELSE "rejected"
    /\ why' = IF ok THEN "ok" ELSE "error"
    /\ src' = sources /\ hw' = [hw EXCEPT !.freq = freq]

FixedFreq == IF Fault("dir") THEN hw.freq ELSE iio_fixup_sampling_frequency(hw.freq, dev.available)

iio_poll_accel_open == dev.kind = "iio-poll-accel" /\ Opens(TRUE, NoSources, FixedFreq)
\* Without an illuminance channel there is no device.
iio_poll_light_open == dev.kind = "iio-poll-als" /\ Opens(~Fault("attr"), NoSources, FixedFreq)
\* Nor without a near level or a proximity channel.
iio_poll_proximity_open == dev.kind = "iio-poll-proximity" /\ Opens(~Fault("attr"), NoSources, FixedFreq)
hwmon_light_open == dev.kind = "hwmon-als" /\ Opens(TRUE, NoSources, hw.freq)
fake_light_open == dev.kind = "fake-light" /\ Opens(TRUE, NoSources, hw.freq)
fake_compass_open == dev.kind = "fake-compass" /\ Opens(TRUE, NoSources, hw.freq)
input_accel_open == dev.kind = "input-accel" /\ Opens(TRUE, [NoSources EXCEPT !.handler = TRUE], hw.freq)
input_proximity_open == dev.kind = "input-proximity" /\ Opens(TRUE, NoSources, hw.freq)

\* A sensor that cannot be created leaves a device without one.
SscOpen(kind) ==
    dev.kind = kind /\ Opens(TRUE, [NoSources EXCEPT !.sensor = ~Fault("lost")], hw.freq)
ssc_accelerometer_open == SscOpen("ssc-accel")
ssc_compass_open == SscOpen("ssc-compass")
ssc_light_open == SscOpen("ssc-light")
ssc_proximity_open == SscOpen("ssc-proximity")

BufferOpen(kind) == dev.kind = kind /\ phase' = "fixup" /\ UNCHANGED <<why, src, hw>>
iio_buffer_accel_open == BufferOpen("iio-buffer-accel")
iio_buffer_compass_open == BufferOpen("iio-buffer-compass")
iio_buffer_light_open == BufferOpen("iio-buffer-als")

driver_open ==
    /\ phase = "found" /\ goal' = "open"
    /\ \/ iio_poll_accel_open \/ iio_poll_light_open \/ iio_poll_proximity_open
       \/ hwmon_light_open \/ fake_light_open \/ fake_compass_open
       \/ input_accel_open \/ input_proximity_open
       \/ ssc_accelerometer_open \/ ssc_compass_open \/ ssc_light_open \/ ssc_proximity_open
       \/ iio_buffer_accel_open \/ iio_buffer_compass_open \/ iio_buffer_light_open
    /\ Kept /\ UNCHANGED <<fifo, prox, polled, fresh, out, meant>>

-----------------------------------------------------------------------------
(* set_polling.                                                             *)

Nothing == NoReading /\ UNCHANGED <<src, hw, fifo, prox>>

\* A timer that runs already, or not at all, is left alone; a new one is
\* preceded by a reading.
TimerPolling(kind, state, Read) ==
    /\ dev.kind = kind
    /\ IF src.timeout = state THEN Nothing
       ELSE /\ src' = [src EXCEPT !.timeout = state] /\ UNCHANGED hw
            /\ IF state THEN Read ELSE NoReading /\ UNCHANGED <<fifo, prox>>

iio_poll_accel_set_polling(state) == TimerPolling("iio-poll-accel", state, poll_orientation)
iio_poll_light_set_polling(state) == TimerPolling("iio-poll-als", state, light_changed)
iio_poll_proximity_set_polling(state) == TimerPolling("iio-poll-proximity", state, poll_proximity)
hwmon_light_set_polling(state) == TimerPolling("hwmon-als", state, hwmon_light_changed)
fake_light_set_polling(state) == TimerPolling("fake-light", state, fake_light_changed)
fake_compass_set_polling(state) == TimerPolling("fake-compass", state, compass_changed)

\* Once a kevent has come there is no timer and no first reading.
input_accel_set_polling(state) ==
    /\ dev.kind = "input-accel"
    /\ IF src.timeout = state \/ (state /\ src.kevent) THEN Nothing
       ELSE /\ src' = [src EXCEPT !.timeout = state] /\ UNCHANGED hw
            /\ IF state THEN accelerometer_changed ELSE NoReading /\ UNCHANGED <<fifo, prox>>

\* The ring buffer runs with the timer.  It starts empty: the reading that is
\* tried at once finds nothing.
BufferPolling(kind, state) ==
    /\ dev.kind = kind
    /\ IF src.timeout = state THEN Nothing
       ELSE /\ src' = [src EXCEPT !.timeout = state]
            /\ IF state THEN enable_ring_buffer ELSE disable_ring_buffer
            /\ NoReading /\ UNCHANGED prox

iio_buffer_accel_set_polling(state) == BufferPolling("iio-buffer-accel", state)
iio_buffer_compass_set_polling(state) == BufferPolling("iio-buffer-compass", state)

\* Mutant: the timer alone, as in the drivers without a buffer.
iio_buffer_light_set_pollingTimerOnly(state) == TimerPolling("iio-buffer-als", state, read_light)

iio_buffer_light_set_polling(state) == BufferPolling("iio-buffer-als", state)

\* watch_input_proximity: the state of the switch is the first reading.
watch_input_proximity ==
    IF Fault("open") THEN Nothing
    ELSE src' = [src EXCEPT !.watch = TRUE] /\ ScalarReading /\ UNCHANGED <<hw, fifo, prox>>

input_proximity_set_polling(state) ==
    /\ dev.kind = "input-proximity"
    /\ IF src.watch = state THEN Nothing
       ELSE IF state THEN watch_input_proximity
       ELSE src' = [src EXCEPT !.watch = FALSE] /\ NoReading /\ UNCHANGED <<hw, fifo, prox>>

\* The signal stays connected when the sensor cannot be opened.
SscPolling(kind, state) ==
    /\ dev.kind = kind
    /\ IF src.measuring = state THEN Nothing
       ELSE /\ src' = [src EXCEPT !.measuring = state /\ src.sensor,
                                  !.streaming = state /\ src.sensor /\ ~Fault("open")]
            /\ NoReading /\ UNCHANGED <<hw, fifo, prox>>

ssc_accelerometer_set_polling(state) == SscPolling("ssc-accel", state)
ssc_compass_set_polling(state) == SscPolling("ssc-compass", state)
ssc_light_set_polling(state) == SscPolling("ssc-light", state)
ssc_proximity_set_polling(state) == SscPolling("ssc-proximity", state)

DriverSetPolling(state) ==
    \/ iio_poll_accel_set_polling(state) \/ iio_poll_light_set_polling(state)
    \/ iio_poll_proximity_set_polling(state) \/ hwmon_light_set_polling(state)
    \/ fake_light_set_polling(state) \/ fake_compass_set_polling(state)
    \/ input_accel_set_polling(state) \/ input_proximity_set_polling(state)
    \/ iio_buffer_accel_set_polling(state) \/ iio_buffer_compass_set_polling(state)
    \/ iio_buffer_light_set_polling(state)
    \/ ssc_accelerometer_set_polling(state) \/ ssc_compass_set_polling(state)
    \/ ssc_light_set_polling(state) \/ ssc_proximity_set_polling(state)

driver_set_polling ==
    /\ phase = "open"
    /\ \E state \in BOOLEAN : DriverSetPolling(state) /\ polled' = state
    /\ Kept /\ UNCHANGED <<phase, goal, why>>

-----------------------------------------------------------------------------
(* Callbacks.  They run while their source exists, whatever became of the   *)
(* device.                                                                  *)

TimerRead ==
    CASE dev.kind = "iio-poll-accel" -> poll_orientation
      [] dev.kind = "iio-poll-als" -> light_changed
      [] dev.kind = "iio-poll-proximity" -> poll_proximity
      [] dev.kind = "hwmon-als" -> hwmon_light_changed
      [] dev.kind = "fake-light" -> fake_light_changed
      [] dev.kind = "fake-compass" -> compass_changed
      [] dev.kind = "input-accel" -> accelerometer_changed
      [] dev.kind = "iio-buffer-accel" -> read_orientation
      [] dev.kind = "iio-buffer-compass" -> read_heading
      [] dev.kind = "iio-buffer-als" -> read_light

Tick ==
    /\ src.timeout /\ TimerRead
    /\ Kept /\ UNCHANGED <<phase, goal, why, hw, src, polled>>

\* The first kevent ends polling for good.
uevent_received ==
    /\ src.handler
    /\ src' = [src EXCEPT !.kevent = TRUE, !.timeout = @ /\ src.kevent]
    /\ accelerometer_changed
    /\ Kept /\ UNCHANGED <<phase, goal, why, hw, polled>>

proximity_changed ==
    /\ src.watch /\ ScalarReading
    /\ Kept /\ UNCHANGED <<phase, goal, why, hw, fifo, src, prox, polled>>

measurement_cb ==
    /\ src.measuring /\ src.streaming
    /\ IF dev.kind = "ssc-accel" THEN AccelReading ELSE ScalarReading
    /\ Kept /\ UNCHANGED <<phase, goal, why, hw, fifo, src, prox, polled>>

-----------------------------------------------------------------------------
(* Close, death and the kernel.                                             *)

\* What set_polling(FALSE) leaves of the sources.
Stopped == [src EXCEPT !.timeout = FALSE, !.watch = FALSE, !.measuring = FALSE, !.streaming = FALSE]

\* driver_close: set_polling(FALSE), then the driver's close, which drops the
\* uevent client or the SSC sensor, or frees the buffer's data.
driver_close ==
    /\ phase = "open" /\ goal' = "close" /\ why' = "ok"
    /\ src' = [Stopped EXCEPT !.handler = FALSE, !.kevent = FALSE, !.sensor = FALSE]
    /\ IF dev.kind \in BufferKinds
       THEN /\ phase' = FreeAfter("start")
            /\ IF src.timeout THEN disable_ring_buffer ELSE UNCHANGED <<hw, fifo>>
       ELSE phase' = "closed" /\ UNCHANGED <<hw, fifo>>
    /\ polled' = FALSE /\ Kept /\ UNCHANGED <<prox, fresh, out, meant>>

\* The daemon starts again.
Restart ==
    /\ phase \in {"closed", "rejected"} /\ phase' = "absent"
    /\ Kept /\ Quietly /\ UNCHANGED <<goal, why, hw, fifo>>

\* It dies: its sources go, sysfs stays as it is.
Crash ==
    /\ phase \notin {"absent", "closed", "rejected"} /\ crashes < MaxCrashes
    /\ phase' = "absent" /\ crashes' = crashes + 1
    /\ buffer' = NoBuffer /\ src' = NoSources
    /\ prox' = [last |-> 0, near |-> FALSE] /\ polled' = FALSE
    /\ UNCHANGED <<dev, goal, why, hw, fifo, fresh, out, meant>>

\* The device puts a scan into the buffer.
ScanArrives ==
    /\ hw.ring /\ hw.freq > 0 /\ hw.scan # {} /\ (dev.trigger => hw.trigger) /\ ~Fault("data")
    /\ Len(fifo) < RingLength
    /\ \E v \in Samples : fifo' = Append(fifo, [sample |-> v, bytes |-> ScanOf(v)])
    /\ Kept /\ Quietly /\ UNCHANGED <<phase, goal, why, hw>>

Next ==
    \/ driver_discover \/ driver_open \/ driver_set_polling \/ driver_close
    \/ Fixup \/ enable_sensors \/ enable_trigger \/ StartRing \/ build_channels
    \/ ProbeBuffer \/ is_buffer_usable \/ FreeRing \/ disable_trigger \/ disable_sensors
    \/ Tick \/ uevent_received \/ proximity_changed \/ measurement_cb
    \/ Restart \/ Crash \/ ScanArrives

\* The main loop runs its timers, a device that is on measures.
Fairness == WF_vars(Tick) /\ WF_vars(ScanArrives) /\ WF_vars(measurement_cb)

Spec == Init /\ [][Next]_vars /\ Fairness

-----------------------------------------------------------------------------
(* A device that is not in use is at rest: whether a discover, a failed open *)
(* or a close ended (buffer_drv_data_free, driver_close), no timer, watch or *)
(* signal can call into it and its buffer, trigger and scan elements are off *)
(* - also when the daemon had died and left them on before.                 *)
QuietWhenUnused ==
    phase \in {"found", "rejected", "closed"} =>
        /\ src = NoSources
        /\ ~hw.ring /\ ~hw.trigger /\ hw.scan = {}

(* What a daemon that died left in sysfs (a running buffer refuses most      *)
(* writes) never makes the next discover or open of a sound device fail     *)
(* (buffer_drv_data_new).                                                   *)
LeftoversHarmless == dev.faults = {} /\ ~BuildFails(dev.channels) => why # "error"

(* The last reading sent is the last sample taken from the device: field,    *)
(* sign, byte order, place in the scan and mount matrix are undone            *)
(* (process_scan and process_scan_1), also when a read takes several scans,   *)
(* provided that the device has every channel its driver asks for and that    *)
(* the kernel puts no padding behind the last channel, which                  *)
(* size_from_channelarray does not count.                                    *)
SampleFaithful ==
    (dev.kind \in BufferKinds => /\ \A i \in DOMAIN Names : Names[i] \in AllElements
                                /\ ~TrailingPadding) => out = meant

(* A sound device that is polled sends a reading in the end, unless polling *)
(* stops: the daemon's Claim waits for it.  An input accelerometer that has *)
(* sent a kevent is left out: it sends nothing until it moves.              *)
PolledIsRead ==
    (phase = "open" /\ polled /\ dev.faults = {} /\ ~src.kevent)
        ~> (fresh \/ ~polled \/ phase # "open" \/ src.kevent)
=============================================================================
