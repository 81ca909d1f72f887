------------------------- MODULE ProxyDrivers_proof -------------------------
(***************************************************************************)
(* What the drivers below iio-sensor-proxy leave behind, for any devices,  *)
(* sensors and adapters and any number of deaths of the daemon.            *)
(* For the upstream drivers the invariant says which of the ring buffer,   *)
(* the trigger and the scan elements may be on at each step of             *)
(* buffer_drv_data_new and buffer_drv_data_free, after a death too.        *)
(***************************************************************************)
EXTENDS ProxyDrivers, WellFoundedInduction, TLAPS

-----------------------------------------------------------------------------
(* The records *)

SysfsOf(h) == h = [scan |-> h.scan, trigger |-> h.trigger, ring |-> h.ring, freq |-> h.freq]
Sources ==
    [timeout : BOOLEAN, watch : BOOLEAN, measuring : BOOLEAN, streaming : BOOLEAN,
     handler : BOOLEAN, kevent : BOOLEAN, sensor : BOOLEAN]

\* The sources after an open, a set_polling and an event.
LEMMA SourceTypes ==
    /\ NoSources \in Sources /\ [NoSources EXCEPT !.handler = TRUE] \in Sources
    /\ [NoSources EXCEPT !.sensor = ~Fault("lost")] \in Sources
    /\ src \in Sources =>
         /\ \A x \in BOOLEAN : [src EXCEPT !.timeout = x] \in Sources
         /\ \A x \in BOOLEAN : [src EXCEPT !.watch = x] \in Sources
         /\ \A x \in BOOLEAN : [src EXCEPT !.measuring = x /\ src.sensor,
                                           !.streaming = x /\ src.sensor /\ ~Fault("open")]
                                 \in Sources
         /\ [src EXCEPT !.kevent = TRUE, !.timeout = @ /\ src.kevent] \in Sources
<1>1. NoSources \in Sources
  BY DEF NoSources, Sources
<1>2. [NoSources EXCEPT !.handler = TRUE] \in Sources
  BY DEF NoSources, Sources
<1>3. [NoSources EXCEPT !.sensor = ~Fault("lost")] \in Sources
  BY DEF NoSources, Sources
<1>4. ASSUME src \in Sources, NEW x \in BOOLEAN
      PROVE  [src EXCEPT !.timeout = x] \in Sources /\ [src EXCEPT !.watch = x] \in Sources
  BY <1>4 DEF Sources
<1>5. ASSUME src \in Sources, NEW x \in BOOLEAN
      PROVE  [src EXCEPT !.measuring = x /\ src.sensor,
                         !.streaming = x /\ src.sensor /\ ~Fault("open")] \in Sources
  BY <1>5 DEF Sources
<1>6. ASSUME src \in Sources
      PROVE  [src EXCEPT !.kevent = TRUE, !.timeout = @ /\ src.kevent] \in Sources
  BY <1>6 DEF Sources
<1> QED
  BY <1>1, <1>2, <1>3, <1>4, <1>5, <1>6

\* driver_close leaves no source.
LEMMA ClosedSources ==
    ASSUME src \in Sources
    PROVE  [Stopped EXCEPT !.handler = FALSE, !.kevent = FALSE, !.sensor = FALSE] = NoSources
<1> DEFINE c == [Stopped EXCEPT !.handler = FALSE, !.kevent = FALSE, !.sensor = FALSE]
<1>1. Stopped \in Sources
  BY DEF Stopped, Sources
<1>2. /\ Stopped.timeout = FALSE /\ Stopped.watch = FALSE
      /\ Stopped.measuring = FALSE /\ Stopped.streaming = FALSE
  BY DEF Stopped, Sources
<1>3. c \in Sources
  BY <1>1 DEF Sources
<1>4. /\ c.timeout = FALSE /\ c.watch = FALSE /\ c.measuring = FALSE /\ c.streaming = FALSE
      /\ c.handler = FALSE /\ c.kevent = FALSE /\ c.sensor = FALSE
  BY <1>1, <1>2 DEF Sources
<1> HIDE DEF c
<1>5. c = NoSources
  BY <1>3, <1>4 DEF NoSources, Sources
<1> QED
  BY <1>5 DEF c

-----------------------------------------------------------------------------
(* The invariant *)

Unused == {"found", "rejected", "closed"}
Buffered == dev.kind \in BufferKinds /\ ~Fault("type")
Running == phase = "open" /\ Buffered

\* What can be on, by the step a device is at.
SysfsInv ==
    /\ SysfsOf(hw)
    /\ phase \in {"free_trigger", "free_sensors"} \cup Unused => ~hw.ring
    /\ phase \in {"free_sensors"} \cup Unused => ~hw.trigger
    /\ phase \in Unused => hw.scan = {}
    /\ Fault("scan") => hw.scan = {}
    /\ Fault("trigger") \/ ~dev.trigger => ~hw.trigger

\* A buffer that runs has its scan elements and its trigger, so that the
\* writes a running buffer refuses are not needed.
RingInv ==
    /\ hw.ring => hw.scan # {} /\ (dev.trigger => hw.trigger)
    /\ phase \in {"trigger", "ring", "channels", "probe", "wait"} \/ Running => hw.scan # {}
    /\ phase \in {"ring", "channels", "probe", "wait"} \/ Running => (dev.trigger => hw.trigger)

\* The other drivers never touch them.
PlainInv ==
    ~Buffered => /\ ~hw.ring /\ ~hw.trigger /\ hw.scan = {}
                 /\ phase \in {"absent", "rejected"} \/
                    (phase \in {"found", "open", "closed"} /\ dev.kind \notin BufferKinds)

SourcesInv == src \in Sources /\ (phase # "open" => src = NoSources)

DriverInv ==
    /\ dev \in Devices
    /\ SysfsInv /\ RingInv /\ PlainInv /\ SourcesInv /\ LeftoversHarmless

-----------------------------------------------------------------------------
(* The order of buffer_drv_data_free *)

\* The ring goes first, then the trigger, then the scan elements.
LEMMA FreeOrder ==
    /\ FreeAfter("start") = "free_ring" /\ FreeAfter("free_ring") = "free_trigger"
    /\ FreeAfter("free_trigger") = "free_sensors" /\ FreeAfter("free_sensors") = "end"
BY DEF FreeAfter

\* An open or close that ended leaves the device unused.
LEMMA EndedUnused == Ended \in Unused
BY DEF Ended, Unused

-----------------------------------------------------------------------------
(* The steps *)

\* The step leaves sysfs alone and stays where it is, but for the sources of
\* an open device.
LEMMA CallbackInv ==
    ASSUME DriverInv, Tick \/ uevent_received \/ proximity_changed \/ measurement_cb \/ ScanArrives
                      \/ UNCHANGED vars
    PROVE  DriverInv'
<1>1. UNCHANGED <<dev, phase, why, hw>>
  BY DEF Tick, uevent_received, proximity_changed, measurement_cb, ScanArrives, Kept, Daemon, vars
<1>2. \/ UNCHANGED src
      \/ src.handler /\ src' = [src EXCEPT !.kevent = TRUE, !.timeout = @ /\ src.kevent]
  BY DEF Tick, uevent_received, proximity_changed, measurement_cb, ScanArrives, Quietly, vars
<1>3. ~NoSources.handler
  BY DEF NoSources
<1>4. SourcesInv'
  BY <1>1, <1>2, <1>3, SourceTypes DEF DriverInv, SourcesInv
<1> QED
  BY <1>1, <1>4 DEF DriverInv, SysfsInv, RingInv, PlainInv, LeftoversHarmless, Fault, Buffered, Running

\* buffer_drv_data_free.
LEMMA FreeInv ==
    ASSUME DriverInv, FreeRing \/ disable_trigger \/ disable_sensors
    PROVE  DriverInv'
<1>1. UNCHANGED <<dev, why, src>>
  BY DEF FreeRing, disable_trigger, disable_sensors, Daemon, Quietly
<1>2. phase \in {"free_ring", "free_trigger", "free_sensors"}
  BY DEF FreeRing, disable_trigger, disable_sensors
<1>3. Buffered /\ SourcesInv /\ src = NoSources
  BY <1>2 DEF DriverInv, PlainInv, SourcesInv
<1>4. \/ /\ phase = "free_ring" /\ phase' = "free_trigger" /\ hw' = [hw EXCEPT !.ring = FALSE]
      \/ /\ phase = "free_trigger" /\ phase' = "free_sensors"
         /\ hw' = IF dev.trigger /\ KernelTakesTrigger THEN [hw EXCEPT !.trigger = FALSE] ELSE hw
      \/ /\ phase = "free_sensors" /\ phase' \in Unused
         /\ hw' = IF KernelTakesScan THEN [hw EXCEPT !.scan = {}] ELSE hw
  BY FreeOrder, EndedUnused
     DEF FreeRing, disable_trigger, disable_sensors, FreeOn, disable_ring_buffer
<1>5. SourcesInv' /\ PlainInv' /\ LeftoversHarmless' /\ (dev \in Devices)'
  BY <1>1, <1>3, <1>4 DEF DriverInv, SourcesInv, PlainInv, LeftoversHarmless, Unused, Buffered, Fault
<1>6. SysfsInv'
  BY <1>1, <1>4 DEF DriverInv, SysfsInv, SysfsOf, Unused, Fault, KernelTakesTrigger, KernelTakesScan
<1>7. RingInv'
  <2>1. ~hw'.ring
    BY <1>4 DEF DriverInv, SysfsInv, SysfsOf
  <2> QED
    BY <1>4, <2>1 DEF RingInv, Unused, Running
<1> QED
  BY <1>5, <1>6, <1>7 DEF DriverInv

\* buffer_drv_data_new and is_buffer_usable.
LEMMA BuildInv ==
    ASSUME DriverInv,
           \/ Fixup \/ enable_sensors \/ enable_trigger \/ StartRing \/ build_channels
           \/ ProbeBuffer \/ is_buffer_usable
    PROVE  DriverInv'
<1>1. UNCHANGED <<dev, src>>
  BY DEF Fixup, enable_sensors, enable_trigger, StartRing, build_channels, ProbeBuffer,
         is_buffer_usable, Kept, Daemon, Quietly
<1>2. phase \in {"fixup", "sensors", "trigger", "ring", "channels", "probe", "wait"}
  BY DEF Fixup, enable_sensors, enable_trigger, StartRing, build_channels, ProbeBuffer,
         is_buffer_usable
<1>3. Buffered /\ SourcesInv /\ src = NoSources /\ dev \in Devices /\ SysfsOf(hw)
  BY <1>2 DEF DriverInv, PlainInv, SourcesInv, SysfsInv
<1> DEFINE sound == dev.faults = {} /\ ~BuildFails(dev.channels)
<1>4. AllElements # {}
  BY <1>3, DevicesAssumption DEF AllElements, Buffered
<1>5. sound => \A f : ~Fault(f)
  BY DEF Fault
<1>6. \/ phase' = "free_ring" /\ (why' = "error" => ~sound \/ why = "error")
      \/ /\ phase' \in {"sensors", "trigger", "ring", "channels", "open", "probe", "wait"}
         /\ why' = why
  <2>1. CASE Fixup
    BY <1>5, <2>1, FreeOrder DEF Fixup, Proceed
  <2>2. CASE enable_sensors
    <3>1. sound => EnabledElements # {}
      BY <1>4, <1>5 DEF EnabledElements, KernelTakesScan, DriverInv, RingInv
    <3> QED
      BY <2>2, <3>1, FreeOrder DEF enable_sensors, Proceed
  <2>3. CASE enable_trigger
    <3>1. sound => (dev.trigger => hw'.trigger)
      BY <1>3, <1>5, <2>3 DEF enable_trigger, KernelTakesTrigger, DriverInv, RingInv, SysfsOf
    <3> QED
      BY <2>3, <3>1, FreeOrder DEF enable_trigger, Proceed
  <2>4. CASE StartRing
    <3>1. sound => hw'.ring
      BY <1>3, <1>5, <2>4 DEF StartRing, enable_ring_buffer, RingOn, SysfsOf
    <3> QED
      BY <2>4, <3>1, FreeOrder DEF StartRing, Proceed
  <2>5. CASE build_channels
    BY <2>5, FreeOrder DEF build_channels, Proceed
  <2>6. CASE ProbeBuffer
    BY <2>6 DEF ProbeBuffer
  <2>7. CASE is_buffer_usable
    BY <2>7, FreeOrder DEF is_buffer_usable
  <2> QED
    BY <2>1, <2>2, <2>3, <2>4, <2>5, <2>6, <2>7
<1>7. LeftoversHarmless'
  BY <1>1, <1>6 DEF DriverInv, LeftoversHarmless
<1>8. SourcesInv'
  BY <1>1, <1>3, <1>6 DEF SourcesInv
<1>9. PlainInv'
  BY <1>1, <1>3 DEF PlainInv, Buffered, Fault
<1>10. SysfsOf(hw') /\ RingInv'
  <2>0. Buffered' /\ (Running' <=> phase' = "open")
    BY <1>1, <1>3 DEF Buffered, Running, Fault
  <2>1. CASE Fixup
    BY <1>1, <1>3, <2>0, <2>1, FreeOrder DEF Fixup, Proceed, DriverInv, RingInv, SysfsOf
  <2>2. CASE enable_sensors
    BY <1>1, <1>3, <2>0, <2>2, FreeOrder DEF enable_sensors, Proceed, DriverInv, RingInv, SysfsOf
  <2>3. CASE enable_trigger
    BY <1>1, <1>3, <2>0, <2>3, FreeOrder DEF enable_trigger, Proceed, DriverInv, RingInv, SysfsOf
  <2>4. CASE StartRing
    BY <1>1, <1>3, <2>0, <2>4, FreeOrder
       DEF StartRing, enable_ring_buffer, RingOn, Proceed, DriverInv, RingInv, SysfsOf
  <2>5. CASE build_channels
    BY <1>1, <1>3, <2>0, <2>5, FreeOrder
       DEF build_channels, disable_ring_buffer, Proceed, DriverInv, RingInv, SysfsOf
  <2>6. CASE ProbeBuffer
    BY <1>1, <1>3, <2>0, <2>6
       DEF ProbeBuffer, enable_ring_buffer, RingOn, DriverInv, RingInv, SysfsOf
  <2>7. CASE is_buffer_usable
    BY <1>1, <1>3, <2>0, <2>7, FreeOrder
       DEF is_buffer_usable, disable_ring_buffer, DriverInv, RingInv, SysfsOf
  <2> QED
    BY <2>1, <2>2, <2>3, <2>4, <2>5, <2>6, <2>7
<1>11. SysfsInv'
  <2>1. Fault("scan") => hw'.scan = {}
    BY <1>3 DEF Fixup, enable_sensors, EnabledElements, KernelTakesScan, enable_trigger, StartRing,
           enable_ring_buffer, RingOn, build_channels, disable_ring_buffer, ProbeBuffer,
           is_buffer_usable, DriverInv, SysfsInv, SysfsOf
  <2>2. Fault("trigger") \/ ~dev.trigger => ~hw'.trigger
    BY <1>3 DEF Fixup, enable_sensors, KernelTakesTrigger, enable_trigger, StartRing,
           enable_ring_buffer, RingOn, build_channels, disable_ring_buffer, ProbeBuffer,
           is_buffer_usable, DriverInv, SysfsInv, SysfsOf
  <2> QED
    BY <1>1, <1>6, <1>10, <2>1, <2>2 DEF SysfsInv, Unused, Fault
<1> QED
  BY <1>1, <1>3, <1>7, <1>8, <1>9, <1>10, <1>11 DEF DriverInv

\* Discover: a buffered driver starts to build, the others say yes or no.
LEMMA DiscoverInv ==
    ASSUME DriverInv, driver_discover
    PROVE  DriverInv'
<1>1. UNCHANGED <<dev, src, hw>> /\ phase = "absent" /\ why' = "ok"
  BY DEF driver_discover, Kept, Daemon, Quietly
<1>2. CASE Buffered
  <2>1. phase' = "fixup"
    BY <1>2 DEF driver_discover, Buffered, iio_buffer_accel_discover, iio_buffer_compass_discover,
                iio_buffer_light_discover, BufferDiscover
  <2> QED
    BY <1>1, <1>2, <2>1 DEF DriverInv, SysfsInv, RingInv, PlainInv, SourcesInv, LeftoversHarmless,
                            Buffered, Running, Unused, Fault
<1>3. CASE ~Buffered
  <2>1. phase' = "rejected" \/ (phase' = "found" /\ SimplyFound)
    BY <1>3 DEF driver_discover, Buffered, FoundAt
  <2>2. SimplyFound => dev.kind \notin BufferKinds
    BY DEF SimplyFound, TypeMatches, BufferKinds, iio_poll_accel_discover, iio_poll_light_discover,
           iio_poll_proximity_discover, hwmon_light_discover, fake_light_discover,
           fake_compass_discover, input_accel_discover, input_proximity_discover,
           ssc_accelerometer_discover, ssc_compass_discover, ssc_light_discover,
           ssc_proximity_discover
  <2> QED
    BY <1>1, <1>3, <2>1, <2>2 DEF DriverInv, SysfsInv, RingInv, PlainInv, SourcesInv,
                                  LeftoversHarmless, Buffered, Running, Unused, Fault
<1> QED
  BY <1>2, <1>3

\* Open: a buffered driver starts to build, the others are open or give up.
LEMMA OpenInv ==
    ASSUME DriverInv, driver_open
    PROVE  DriverInv'
<1>1. UNCHANGED dev /\ phase = "found" /\ src = NoSources /\ SysfsOf(hw)
  BY DEF driver_open, Kept, Daemon, DriverInv, SourcesInv, SysfsInv
<1>2. CASE dev.kind \in BufferKinds
  <2>1. phase' = "fixup" /\ UNCHANGED <<why, src, hw>> /\ Buffered
    BY <1>1, <1>2 DEF driver_open, BufferKinds, BufferOpen, iio_buffer_accel_open,
           iio_buffer_compass_open, iio_buffer_light_open, iio_poll_accel_open,
           iio_poll_light_open, iio_poll_proximity_open, hwmon_light_open, fake_light_open,
           fake_compass_open, input_accel_open, input_proximity_open, SscOpen,
           ssc_accelerometer_open, ssc_compass_open, ssc_light_open, ssc_proximity_open,
           DriverInv, PlainInv
  <2> QED
    BY <1>1, <2>1 DEF DriverInv, SysfsInv, RingInv, PlainInv, SourcesInv, LeftoversHarmless,
                      Buffered, Running, Unused, Fault
<1>3. CASE dev.kind \notin BufferKinds
  <2>1. \E ok, sources, freq :
           /\ Opens(ok, sources, freq) /\ ok \in {TRUE, ~Fault("attr")}
           /\ sources \in {NoSources, [NoSources EXCEPT !.handler = TRUE],
                           [NoSources EXCEPT !.sensor = ~Fault("lost")]}
           /\ ok = TRUE \/ sources = NoSources
    BY <1>3 DEF driver_open, BufferKinds, BufferOpen, iio_buffer_accel_open,
           iio_buffer_compass_open, iio_buffer_light_open, iio_poll_accel_open,
           iio_poll_light_open, iio_poll_proximity_open, hwmon_light_open, fake_light_open,
           fake_compass_open, input_accel_open, input_proximity_open, SscOpen,
           ssc_accelerometer_open, ssc_compass_open, ssc_light_open, ssc_proximity_open
  <2>2. /\ phase' = "open" \/ (phase' = "rejected" /\ src' = NoSources)
        /\ why' = "error" => Fault("attr")
        /\ src' \in Sources
    BY <2>1, SourceTypes DEF Opens
  <2>3. SysfsOf(hw') /\ hw'.scan = hw.scan /\ hw'.trigger = hw.trigger /\ hw'.ring = hw.ring
    BY <1>1, <2>1 DEF Opens, SysfsOf
  <2>4. ~Buffered /\ ~Buffered'
    BY <1>1, <1>3 DEF Buffered
  <2>5. SysfsInv' /\ RingInv' /\ PlainInv'
    BY <1>1, <1>3, <2>2, <2>3, <2>4 DEF DriverInv, SysfsInv, RingInv, PlainInv, Running, Unused, Fault
  <2>6. SourcesInv' /\ LeftoversHarmless'
    BY <1>1, <2>2 DEF DriverInv, SourcesInv, LeftoversHarmless, Fault
  <2> QED
    BY <1>1, <2>5, <2>6 DEF DriverInv
<1> QED
  BY <1>2, <1>3

\* set_polling switches sources, and the ring buffer of a buffered driver.
LEMMA PollingInv ==
    ASSUME DriverInv, driver_set_polling
    PROVE  DriverInv'
<1>1. UNCHANGED <<dev, phase, why>> /\ phase = "open"
  BY DEF driver_set_polling, Kept, Daemon
<1>2. PICK state \in BOOLEAN : DriverSetPolling(state)
  BY DEF driver_set_polling
<1>3. src' = src \/ (\E x \in BOOLEAN :
        src' \in {[src EXCEPT !.timeout = x], [src EXCEPT !.watch = x],
                  [src EXCEPT !.measuring = x /\ src.sensor,
                              !.streaming = x /\ src.sensor /\ ~Fault("open")]})
  BY <1>2 DEF DriverSetPolling, iio_poll_accel_set_polling, iio_poll_light_set_polling,
     iio_poll_proximity_set_polling, hwmon_light_set_polling, fake_light_set_polling,
     fake_compass_set_polling, input_accel_set_polling, input_proximity_set_polling,
     iio_buffer_accel_set_polling, iio_buffer_compass_set_polling, iio_buffer_light_set_polling,
     ssc_accelerometer_set_polling, ssc_compass_set_polling, ssc_light_set_polling,
     ssc_proximity_set_polling, TimerPolling, BufferPolling, SscPolling, watch_input_proximity,
     Nothing
<1>4. hw' = hw \/ (dev.kind \in BufferKinds /\ hw' \in {RingOn(hw), [hw EXCEPT !.ring = FALSE]})
  BY <1>2 DEF DriverSetPolling, iio_poll_accel_set_polling, iio_poll_light_set_polling,
     iio_poll_proximity_set_polling, hwmon_light_set_polling, fake_light_set_polling,
     fake_compass_set_polling, input_accel_set_polling, input_proximity_set_polling,
     iio_buffer_accel_set_polling, iio_buffer_compass_set_polling, iio_buffer_light_set_polling,
     ssc_accelerometer_set_polling, ssc_compass_set_polling, ssc_light_set_polling,
     ssc_proximity_set_polling, TimerPolling, BufferPolling, SscPolling, watch_input_proximity,
     Nothing, enable_ring_buffer, disable_ring_buffer, BufferKinds
<1>5. SourcesInv' /\ LeftoversHarmless'
  BY <1>1, <1>3, SourceTypes DEF DriverInv, SourcesInv, LeftoversHarmless
<1>6. SysfsOf(hw') /\ hw'.scan = hw.scan /\ hw'.trigger = hw.trigger
  BY <1>4 DEF DriverInv, SysfsInv, SysfsOf, RingOn
<1>7. dev.kind \in BufferKinds => Buffered
  BY <1>1 DEF DriverInv, PlainInv
<1>8. Buffered' = Buffered /\ Running' = Running
  BY <1>1 DEF Buffered, Running, Fault
<1>9. SysfsInv' /\ RingInv' /\ PlainInv'
  BY <1>1, <1>4, <1>6, <1>7, <1>8
     DEF DriverInv, SysfsInv, RingInv, PlainInv, Running, Buffered, Unused, Fault
<1> QED
  BY <1>1, <1>5, <1>9 DEF DriverInv

\* Close, the death of the daemon and its next start.
LEMMA EndInv ==
    ASSUME DriverInv, driver_close \/ Restart \/ Crash
    PROVE  DriverInv'
<1>1. UNCHANGED dev /\ SysfsOf(hw)
  BY DEF driver_close, Restart, Crash, Kept, Daemon, DriverInv, SysfsInv
<1>2. CASE driver_close
  <2>1. phase = "open" /\ why' = "ok" /\ src' = NoSources
    BY <1>2, ClosedSources DEF driver_close, DriverInv, SourcesInv
  <2>2. IF dev.kind \in BufferKinds
        THEN phase' = "free_ring" /\ (hw' = hw \/ hw' = [hw EXCEPT !.ring = FALSE])
        ELSE phase' = "closed" /\ hw' = hw
    BY <1>2, FreeOrder DEF driver_close, disable_ring_buffer
  <2>3. SourcesInv' /\ LeftoversHarmless'
    BY <2>1, SourceTypes DEF SourcesInv, LeftoversHarmless
  <2>4. SysfsOf(hw') /\ hw'.scan = hw.scan /\ hw'.trigger = hw.trigger /\ (hw'.ring => hw.ring)
    BY <1>1, <2>2 DEF SysfsOf
  <2>5. SysfsInv' /\ RingInv' /\ PlainInv'
    BY <1>1, <2>1, <2>2, <2>4
       DEF DriverInv, SysfsInv, RingInv, PlainInv, Running, Buffered, Unused, Fault
  <2> QED
    BY <1>1, <2>3, <2>5 DEF DriverInv
<1>3. CASE Restart \/ Crash
  <2>1. UNCHANGED <<hw, why>> /\ phase' = "absent" /\ src' = NoSources
    BY <1>3 DEF Restart, Crash, Quietly, DriverInv, SourcesInv
  <2> QED
    BY <1>1, <2>1, SourceTypes DEF DriverInv, SysfsInv, RingInv, PlainInv, SourcesInv,
       LeftoversHarmless, Running, Buffered, Unused, Fault
<1> QED
  BY <1>2, <1>3

\* The invariant holds of a device nobody has touched.
LEMMA DriverInit == Init => DriverInv
<1> SUFFICES ASSUME Init PROVE DriverInv
  OBVIOUS
<1>1. /\ dev \in Devices /\ phase = "absent" /\ why = "ok" /\ src = NoSources
      /\ SysfsOf(hw) /\ hw.scan = {} /\ ~hw.trigger /\ ~hw.ring
  BY DEF Init, SysfsOf
<1> QED
  BY <1>1, SourceTypes DEF DriverInv, SysfsInv, RingInv, PlainInv, SourcesInv, LeftoversHarmless,
     Running, Unused

\* Every step of the drivers, the device and a dying daemon keeps it.
LEMMA DriverStep == DriverInv /\ [Next]_vars => DriverInv'
BY CallbackInv, FreeInv, BuildInv, DiscoverInv, OpenInv, PollingInv, EndInv DEF Next

-----------------------------------------------------------------------------
(* Theorems about the drivers *)

\* At every step of discover, open, set_polling and close, in any order, the
\* buffer, the trigger and the scan elements are on only where they may be.
THEOREM DriverInvariant == Spec => []DriverInv
<1> QED
  BY DriverInit, DriverStep, PTL DEF Spec

\* buffer_drv_data_free and driver_close leave the device at rest.
THEOREM QuietCorrect == Spec => []QuietWhenUnused
<1>1. DriverInv => QuietWhenUnused
  BY DEF DriverInv, SysfsInv, SourcesInv, QuietWhenUnused, Unused
<1> QED
  BY <1>1, DriverInvariant, PTL

\* buffer_drv_data_new never fails on what a daemon that died left on.
THEOREM LeftoversCorrect == Spec => []LeftoversHarmless
<1>1. DriverInv => LeftoversHarmless
  BY DEF DriverInv
<1> QED
  BY <1>1, DriverInvariant, PTL

-----------------------------------------------------------------------------
(* The descriptors of the MXC6655 driver *)

\* The first of a set of numbers is one of them.
LEMMA MinIn ==
    ASSUME NEW S, S \subseteq Nat, S # {}
    PROVE  D!Min(S) \in S
<1> DEFINE R == OpToRel(<, Nat)
<1>1. IsWellFoundedOn(R, Nat)
  BY NatLessThanWellFounded
<1>2. \A x, y \in Nat : x < y => <<x, y>> \in R
  BY DEF OpToRel
<1> HIDE DEF R
<1>3. PICK x \in S : \A y \in S : ~(<<y, x>> \in R)
  BY <1>1, WFMin
<1>4. ASSUME NEW y \in S PROVE x <= y
  <2>1. x \in Nat /\ y \in Nat
    OBVIOUS
  <2>2. ~(<<y, x>> \in R)
    BY <1>3
  <2>3. ~(y < x)
    BY <1>2, <2>1, <2>2
  <2> QED
    BY <2>1, <2>3
<1> QED
  BY <1>4 DEF D!Min

\* find_accels finds adapters, the first one first.
LEMMA FoundAreAdapters ==
    ASSUME NEW files, NEW held
    PROVE  LET p == D!find_accels(files, held)
           IN /\ p[1] \in D!Buses \cup {"-1"} /\ p[2] \in D!Buses \cup {"-1"}
              /\ p[1] = "-1" => p[2] = "-1"
<1> DEFINE answering == {i \in DOMAIN Adapters :
                           Adapters[i].path /\ D!atoi(Adapters[i]) \in Chips \ (held \cup asleep)}
           first == D!Min(answering)
           others == answering \ {first}
           p == D!find_accels(files, held)
<1>1. answering \subseteq DOMAIN Adapters /\ DOMAIN Adapters \subseteq Nat
  BY AdaptersAssumption
<1>2. \A i \in DOMAIN Adapters : D!atoi(Adapters[i]) \in D!Buses /\ D!atoi(Adapters[i]) # "-1"
  BY AdaptersAssumption DEF D!Buses, D!atoi
<1>3. p = IF answering = {} \/ D!Room(files) < 1 THEN D!NoFds
          ELSE IF others = {} \/ D!Room(files) < 2 THEN <<D!atoi(Adapters[first]), "-1">>
          ELSE <<D!atoi(Adapters[first]), D!atoi(Adapters[D!Min(others)])>>
  BY DEF D!find_accels
<1>4. answering # {} => first \in DOMAIN Adapters
  <2> HIDE DEF answering
  <2> QED
    BY <1>1, MinIn
<1>5. others # {} => D!Min(others) \in DOMAIN Adapters
  <2>1. others \subseteq DOMAIN Adapters /\ others \subseteq Nat
    BY <1>1
  <2> HIDE DEF others
  <2> QED
    BY <2>1, MinIn
<1> HIDE DEF answering, first, others, p
<1>6. CASE answering = {} \/ D!Room(files) < 1
  BY <1>3, <1>6 DEF D!NoFds, p
<1>7. CASE ~(answering = {} \/ D!Room(files) < 1) /\ (others = {} \/ D!Room(files) < 2)
  BY <1>2, <1>3, <1>4, <1>7 DEF p
<1>8. CASE ~(answering = {} \/ D!Room(files) < 1) /\ ~(others = {} \/ D!Room(files) < 2)
  BY <1>2, <1>3, <1>4, <1>5, <1>8 DEF p
<1> QED
  BY <1>6, <1>7, <1>8

\* A closed driver knows of no descriptor.
DeviceInv ==
    /\ opened \in [D!Files -> Int] /\ lost \in [D!Buses -> Int]
    /\ mxc = "closed" => fds = D!NoFds /\ uinput_fd = "-1" /\ lid_fd = "-1"
    /\ DescriptorsAccounted

\* "-1" is no file, and descriptors are counted in whole numbers.
LEMMA Counting ==
    /\ "-1" \notin D!Files /\ D!Buses \subseteq D!Files
    /\ \A f, p : D!Occurs(f, p) \in Int
    /\ \A f \in D!Files : D!Occurs(f, D!NoFds) = 0 /\ D!Occurs(f, <<"-1", "-1">>) = 0
<1>1. "-1" \notin D!Files /\ D!Buses \subseteq D!Files
  BY AdaptersAssumption DEF D!Files, D!Buses, D!atoi
<1>2. \A f, p : D!Occurs(f, p) \in Int
  BY DEF D!Occurs
<1>3. \A f \in D!Files : D!Occurs(f, D!NoFds) = 0 /\ D!Occurs(f, <<"-1", "-1">>) = 0
  BY <1>1 DEF D!Occurs, D!NoFds
<1> QED
  BY <1>1, <1>2, <1>3

\* A driver that was never opened holds nothing.
LEMMA DeviceInit == D!Init => DeviceInv
BY Counting DEF D!Init, DeviceInv, DescriptorsAccounted, D!DescriptorsAccounted

\* mxc6655_open keeps what it found and counts it.
LEMMA OpenedInv ==
    ASSUME DeviceInv, D!Open
    PROVE  DeviceInv'
<1>1. /\ mxc = "closed" /\ UNCHANGED lost
      /\ fds = D!NoFds /\ uinput_fd = "-1" /\ lid_fd = "-1"
  BY DEF D!Open, DeviceInv
<1>2. CASE fds' = D!NoFds
  BY <1>1, <1>2 DEF D!Open, DeviceInv, DescriptorsAccounted, D!DescriptorsAccounted
<1>3. CASE fds' # D!NoFds
  <2>1. mxc' = "open" /\ opened' = D!Plus(D!Plus(opened, fds'), <<uinput_fd', lid_fd'>>)
    BY <1>3 DEF D!Open
  <2>2. \A f \in D!Files : opened[f] = IF f \in D!Buses THEN lost[f] ELSE 0
    BY <1>1, Counting DEF DeviceInv, DescriptorsAccounted, D!DescriptorsAccounted
  <2>3. opened' \in [D!Files -> Int]
    BY <2>1, Counting DEF D!Plus, DeviceInv
  <2>4. \A f \in D!Files : opened'[f] = opened[f] + D!Occurs(f, fds')
                                        + D!Occurs(f, <<uinput_fd', lid_fd'>>)
    BY <2>1 DEF D!Plus
  <2> QED
    BY <1>1, <2>1, <2>2, <2>3, <2>4, Counting
       DEF DeviceInv, DescriptorsAccounted, D!DescriptorsAccounted
<1> QED
  BY <1>2, <1>3

\* recover_i2c loses a descriptor only when it finds a single chip.
LEMMA RecoveredInv ==
    ASSUME DeviceInv, D!RecoverI2c
    PROVE  DeviceInv'
<1> DEFINE closed == D!Minus(opened, fds)
           found == D!find_accels(closed, bound')
           ul == <<uinput_fd, lid_fd>>
<1>1. /\ mxc = "open" /\ UNCHANGED <<mxc, uinput_fd, lid_fd>>
      /\ opened' = D!Plus(closed, found)
      /\ fds' = IF D!FoundBoth(found) THEN found ELSE D!NoFds
      /\ lost' = IF D!FoundOne(found) THEN [lost EXCEPT ![found[1]] = @ + 1] ELSE lost
  BY DEF D!RecoverI2c
<1>2. /\ found[1] \in D!Buses \cup {"-1"} /\ found[2] \in D!Buses \cup {"-1"}
      /\ found[1] = "-1" => found[2] = "-1"
  BY FoundAreAdapters
<1>3. /\ opened \in [D!Files -> Int] /\ lost \in [D!Buses -> Int]
      /\ \A f \in D!Files : opened[f] = D!Occurs(f, fds) + D!Occurs(f, ul)
                                        + (IF f \in D!Buses THEN lost[f] ELSE 0)
  BY DEF DeviceInv, DescriptorsAccounted, D!DescriptorsAccounted
<1>4. /\ closed \in [D!Files -> Int]
      /\ \A f \in D!Files : closed[f] = D!Occurs(f, ul) + (IF f \in D!Buses THEN lost[f] ELSE 0)
  BY <1>3, Counting DEF D!Minus
<1> HIDE DEF closed, found
<1>5. /\ opened' \in [D!Files -> Int] /\ lost' \in [D!Buses -> Int]
      /\ \A f \in D!Files : opened'[f] = closed[f] + D!Occurs(f, found)
  <2>1. opened' \in [D!Files -> Int]
        /\ \A f \in D!Files : opened'[f] = closed[f] + D!Occurs(f, found)
    BY <1>1, <1>4, Counting DEF D!Plus
  <2>2. lost' \in [D!Buses -> Int]
    <3>1. CASE D!FoundOne(found)
      <4>1. found[1] \in D!Buses
        BY <1>2, <3>1 DEF D!FoundOne
      <4>2. lost' = [lost EXCEPT ![found[1]] = lost[found[1]] + 1]
        BY <1>1, <3>1
      <4>3. lost[found[1]] + 1 \in Int
        BY <1>3, <4>1
      <4> QED
        BY <1>3, <4>2, <4>3
    <3>2. CASE ~D!FoundOne(found)
      BY <1>1, <1>3, <3>2
    <3> QED
      BY <3>1, <3>2
  <2> QED
    BY <2>1, <2>2
<1>6. ASSUME NEW f \in D!Files
      PROVE  D!Occurs(f, found) + (IF f \in D!Buses THEN lost[f] ELSE 0)
               = D!Occurs(f, fds') + (IF f \in D!Buses THEN lost'[f] ELSE 0)
  <2>1. f # "-1"
    BY Counting
  <2>2. CASE D!FoundBoth(found)
    BY <1>1, <2>2 DEF D!FoundBoth, D!FoundOne
  <2>3. CASE D!FoundOne(found)
    <3>1. found[1] \in D!Buses /\ found[2] = "-1" /\ fds' = D!NoFds
          /\ lost' = [lost EXCEPT ![found[1]] = @ + 1]
      BY <1>1, <1>2, <2>3 DEF D!FoundBoth, D!FoundOne
    <3>2. D!Occurs(f, found) = IF f = found[1] THEN 1 ELSE 0
      BY <2>1, <3>1 DEF D!Occurs
    <3>3. D!Occurs(f, fds') = 0
      BY <3>1, Counting
    <3> QED
      BY <1>3, <3>1, <3>2, <3>3
  <2>4. CASE found[1] = "-1" /\ found[2] = "-1"
    <3>1. D!Occurs(f, found) = 0 /\ fds' = D!NoFds /\ lost' = lost
      BY <1>1, <2>1, <2>4 DEF D!Occurs, D!FoundBoth, D!FoundOne
    <3> QED
      BY <3>1, Counting
  <2> QED
    BY <1>2, <2>2, <2>3, <2>4 DEF D!FoundBoth, D!FoundOne
<1>7. \A f \in D!Files : opened'[f] = D!Occurs(f, fds') + D!Occurs(f, ul)
                                      + (IF f \in D!Buses THEN lost'[f] ELSE 0)
  <2> SUFFICES ASSUME NEW f \in D!Files
               PROVE  opened'[f] = D!Occurs(f, fds') + D!Occurs(f, ul)
                                   + (IF f \in D!Buses THEN lost'[f] ELSE 0)
    OBVIOUS
  <2> DEFINE before == IF f \in D!Buses THEN lost[f] ELSE 0
             after == IF f \in D!Buses THEN lost'[f] ELSE 0
  <2>1. before \in Int /\ after \in Int
    BY <1>3, <1>5
  <2>2. opened'[f] = D!Occurs(f, ul) + before + D!Occurs(f, found)
    BY <1>4, <1>5
  <2>3. D!Occurs(f, found) + before = D!Occurs(f, fds') + after
    BY <1>6
  <2>4. D!Occurs(f, ul) \in Int /\ D!Occurs(f, found) \in Int /\ D!Occurs(f, fds') \in Int
    BY Counting
  <2> HIDE DEF before, after
  <2>5. opened'[f] = D!Occurs(f, fds') + D!Occurs(f, ul) + after
    BY <2>1, <2>2, <2>3, <2>4
  <2> QED
    BY <2>5 DEF after
<1> QED
  BY <1>1, <1>5, <1>7 DEF DeviceInv, DescriptorsAccounted, D!DescriptorsAccounted

\* mxc6655_close closes what the driver knows, once.
LEMMA ClosedInv ==
    ASSUME DeviceInv, D!Close
    PROVE  DeviceInv'
<1>1. /\ opened' = D!Minus(D!Minus(opened, fds), <<uinput_fd, lid_fd>>) /\ UNCHANGED lost
      /\ fds' = D!NoFds /\ uinput_fd' = "-1" /\ lid_fd' = "-1"
  BY DEF D!Close
<1>2. opened' \in [D!Files -> Int]
  BY <1>1, Counting DEF D!Minus, DeviceInv
<1>3. \A f \in D!Files : opened'[f] = opened[f] - D!Occurs(f, fds) - D!Occurs(f, <<uinput_fd, lid_fd>>)
  BY <1>1 DEF D!Minus
<1>4. \A f \in D!Files : opened'[f] = IF f \in D!Buses THEN lost[f] ELSE 0
  BY <1>2, <1>3, Counting DEF DeviceInv, DescriptorsAccounted, D!DescriptorsAccounted
<1> QED
  BY <1>1, <1>2, <1>4, Counting DEF DeviceInv, DescriptorsAccounted, D!DescriptorsAccounted

\* Every step of the driver and of the chips keeps the account.
LEMMA DeviceStep == DeviceInv /\ [D!Next]_deviceVars => DeviceInv'
<1> SUFFICES ASSUME DeviceInv, [D!Next]_deviceVars PROVE DeviceInv'
  OBVIOUS
<1>1. CASE D!Rebind \/ D!ChipChanges \/ UNCHANGED deviceVars
  BY <1>1 DEF D!Rebind, D!ChipChanges, deviceVars, DeviceInv, DescriptorsAccounted,
              D!DescriptorsAccounted
<1> QED
  BY <1>1, OpenedInv, RecoveredInv, ClosedInv DEF D!Next

-----------------------------------------------------------------------------
(* Theorems about the drivers side by side *)

\* recover_i2c, find_accels, mxc6655_open and mxc6655_close lose a descriptor
\* only when a recovery finds a single chip, and close none twice.
THEOREM DescriptorsCorrect == ProxySpec => []DescriptorsAccounted
<1>1. ProxyInit => DeviceInv
  BY DeviceInit DEF ProxyInit, DeviceRests
<1>2. ProxyNext => [D!Next]_deviceVars
  BY DEF ProxyNext, deviceVars
<1>3. UNCHANGED proxyVars => UNCHANGED deviceVars
  BY DEF proxyVars
<1>4. DeviceInv /\ [ProxyNext]_proxyVars => DeviceInv'
  BY <1>2, <1>3, DeviceStep
<1>5. DeviceInv => DescriptorsAccounted
  BY DEF DeviceInv
<1> QED
  BY <1>1, <1>4, <1>5, PTL DEF ProxySpec

\* The upstream drivers keep their properties beside the MXC6655 driver.
THEOREM ProxyCorrect == ProxySpec => [](QuietWhenUnused /\ LeftoversHarmless)
<1>1. ProxyInit => DriverInv
  BY DriverInit DEF ProxyInit, DriverRests
<1>2. ProxyNext => [Next]_vars
  BY DEF ProxyNext
<1>3. UNCHANGED proxyVars => UNCHANGED vars
  BY DEF proxyVars
<1>4. DriverInv /\ [ProxyNext]_proxyVars => DriverInv'
  BY <1>2, <1>3, DriverStep
<1>5. DriverInv => QuietWhenUnused /\ LeftoversHarmless
  BY DEF DriverInv, SysfsInv, SourcesInv, QuietWhenUnused, Unused
<1> QED
  BY <1>1, <1>4, <1>5, PTL DEF ProxySpec

=============================================================================
