# TLA+ models of the MiniBook support stack

The repository holds what a CHUWI MiniBook needs to run Linux well: two forked
daemons (iio-sensor-proxy and thermald), four kernel modules, a VBT patcher and
tools. These modules model the parts that keep state and react to events from
several sides. TLC checks them on small instances, and TLAPS proves the results
that should hold for every size.

Source paths below are relative to `src/`. `PROJECT.json` maps every definition
that models code to its lines.

## The system

| Component | State | Operations | Hard behaviour |
|---|---|---|---|
| MXC6655 driver (`iio-sensor-proxy/src/drv-mxc6655-accel.c`) | mode, two hinge counters, current and pending orientation, poll timer, lid copy, I2C descriptors | open, close, set_polling, lid event, poll | order of lid, client and timer events; debounce counts that survive a stop; failing reads and calls |
| iio-sensor-proxy daemon (`iio-sensor-proxy.c`, `drivers.h`) | per sensor: device, clients, delayed replies, delayed event, last value | Claim, Release, client vanishes, udev add and remove, reading, start, stop | claims and hotplug around the first reading; replies that depend on it |
| other iio-sensor-proxy drivers (`drv-*.c`, `iio-buffer-utils.c`) | timer, watch or signal; scan elements, trigger and ring buffer in sysfs | discover, open, set_polling, close | each step can fail; what a killed daemon leaves on in the kernel |
| EC register access (`modules/minibook_ec/minibook_ec_i2ec.c`) | the mutex; index and address bytes inside the chip | read, write | one access is twelve port accesses |
| EC keyboard backlight (`minibook_ec_kbd_backlight.c`) | four EC registers, `last_observed` | set, store auto_off_timer, poll | three threads and the firmware, no common lock |
| EC driver life cycle, thermal zones, fan, sysfs (`minibook_ec_core.c` and the rest) | registrations, managed resources, two-byte readings | probe, remove, read, store | callbacks that run during removal, torn readings |
| thermald cooling devices (`thermal_daemon/src/thd_cdev.cpp`) | state, exponent, `zone_trip_limits`, last action | set_state, set_min_state | trips of several zones share one device |
| thermald trips and zones (`thd_trip_point.cpp`, `thd_zone*.cpp`) | `trip_on`, `poll_on`, sensors, trips and devices of a zone | check, reset, build, user requests | hysteresis, resets below the polling trip, objects found by name or by index |
| thermald engine (`thd_engine.cpp`, `main.cpp`) | thread, pipe, poll interval, sensor masks, preference, saved policies | sweep, uevent, messages, stop, reinit | two threads and a non-blocking pipe; crash and restart |
| thermald adaptive engine (`thd_engine_adaptive.cpp`, `thd_gddv.cpp`) | tables, condition states, current target, trips, power limits | evaluate, install a target | conditions with time, tables that are missing, targets that follow one another |
| thermald configuration (`thd_trt_art_reader.cpp`, `thd_parse.cpp`, `thd_engine_default.cpp`) | `thermal-conf.xml.auto`, the parsed platforms, the engine's vectors | generate, parse, match, build | names that pass through four representations |
| thermald D-Bus (`thd_dbus_interface.cpp`) | none of its own | requests to the engine | runs on the main thread |
| thermald RAPL, PID, power meter, sysfs, uevents | power limits, loop terms | read, write | arithmetic and input/output |
| dptf_enabler, i2c_designware_spklen, goodix_ts | device flags, controller registers | one-shot init, notifier, resume | partial failure, a controller in use |
| vbt_patch, tools | none that lasts | command line | pure functions over a file; scripts |

How they meet: the daemon drives a sensor driver through `set_polling` and gets
readings by a callback; the MXC6655 driver and minibook_ec both switch the
keyboard through ACPI. The fan, thermal and backlight parts of minibook_ec all
use the register access. A start of thermald builds sensors, devices and zones;
the adaptive engine rebuilds the zones' trips; the engine's thread sweeps the
zones, a zone checks its trips, and a trip drives cooling devices, which other
trips drive too. Some of the sensors are thermal zones of minibook_ec, and
others exist only once dptf_enabler has had them scanned.

## Modules

### Mxc6655, the accelerometer driver

All callbacks run on one GLib main loop, so each of them is one action: `Open`,
`Close`, `SetPolling`, `LidEvent`, `LidHup` and `PollSensors` (`poll_sensors`
with `update_orientation_debounce`, `update_tablet_mode`, `set_tablet_mode`,
`force_landscape` and `recover_i2c`). The variables have the names of the fields
of `DrvData`. The float arithmetic is abstracted: the user puts the machine into
a *scene*, that is a band of the hinge angle (tablet, neutral, laptop, shut, or
weak when the gravity gate drops the sample), the side the display faces, and
whether the orientation filter accepts the sample. `mode_age` and `orient_age`
are history. `MoveLid`, `MoveMachine`, `BusDrop` and `BusBack` are the user and
the hardware: `chips` counts the accelerometers that answer. A recovery that
finds one of the two loses its descriptor (`lost`), and below two of the
`FdRoom` descriptors no search can succeed. The ACPI call and the write of the
switch may each fail; the keyboard or the switch is then `Unsure` until the next
change of mode.

### SensorProxy, the daemon

One action per D-Bus call, vanished client, udev event, reading, start and
stop. A record per sensor type holds what `SensorData` keeps; `fresh` (a reading
came since polling began) and `view` (what each client last learned) are
history. A driver may call back from inside `set_polling`, and that reading is
part of the same action. Drivers come in three kinds, by what their
`set_polling(TRUE)` does: the MXC6655 sends a reading on every call; the polling
drivers send one when they start and then on a timer; the input proximity
driver sends one when it starts and then only when the switch moves.

### I2ecBus and AtomicRegs, EC register access

`I2ecBus` has one step per `outb` or `inb`, the mutex, and the chip's index,
sub-index and address bytes. `AtomicRegs` is what the callers rely on: a call
takes effect at one instant. `AccessIsAtomic` states that the first implements
the second; the mapping takes a call as done once its last port access was made.

### KbdBacklight

One step per register access (atomic by `I2ecBus`) of the LED worker, the writer
of `auto_off_timer` and the poll work, with the firmware's auto-off, key press
and Fn key as the driver's comments describe them. The other bits of the GPIO
port are left out. `known` is what a listener of the LED class takes for the
brightness.

### CoolingDevice

One device whose states grow from its minimum, and several zones with one trip
and a polling trip each. A step is the reading and check of one zone
(`thermal_zone_temp_change`, `thd_trip_point_check`, `thd_cdev_set_state`, the
exponential controller, `zone_reset`); the engine takes the zones in order.
`Debounced` is the passing of `debounce_interval`. A trip is under step control,
has a target state, or is of type MAX.

### MxcDevice and MxcFilter, what Mxc6655 abstracts

`MxcDevice` has the driver's resources: the descriptors of `open`,
`recover_i2c` and `close` with every failure, the unbinding of the kernel driver,
the GMTR values and the panel orientation read at open. `opened` counts what the
process really holds; descriptors are named by their adapter and come in pairs, as
in `i2c_fds[2]`. `MxcFilter` is `update_orientation` in integers: median,
ring of samples, variance, gravity offset, then `classify_orientation`, the
synthetic readings and `orientation_calc`. Poses are chosen so that every
average and root is exact.

### IioScan and IioDrivers, the other drivers

`IioScan` holds the pure functions of `iio-buffer-utils.c`: frequencies, layout
of a scan, decoding of a channel; `Encoded` is the kernel's side, which decoding
must undo; `TrailingPadding` says where the kernel's scan is longer than the
driver takes it for. `IioDrivers` takes one device through discover, open, set_polling and
close of its driver. For the buffered drivers each write to sysfs is a step
(`enable_sensors`, `enable_trigger`, `StartRing`, ...), so `Crash` can come between
any two and `Restart` finds what was left on. `hw` is the device and the kernel,
`src` the timers, watches and signals, `buffer` what the driver keeps, `out` the
last reading. `ProxyDrivers` puts the three driver parts into one specification.

### EcDriver, Spklen, DptfEnabler and KernelModules

`EcDriver`: probe and remove of minibook_ec one registration at a time, each of
which may fail, and the managed releases that follow `remove()` in reverse order.
A callback is `Called`, works and `Returns`; an unregistration waits for it. The
two bytes of a temperature and of the tachometer are read in two steps, after the
converter's control register (`ReadCtl`). A zone that could not be registered
leaves an error pointer (`errptr`), on which `remove()` faults (phase `oops`).
`Spklen`: load with its scan of the bus, the fixup of a controller one register
access at a time, the kernel's three notifications after a sleep, of which
`pm_handler` takes two (`missed` remembers the third), unload, against transfers of
the controller's own driver. The scan that meets a full table breaks off with the
reference `pci_get_device` gave it, which nothing puts back; `refs` counts it. `DptfEnabler`: `find_gnvs`, the flags, `_OSC` and the
bus scan, which may fail before it comes to a device (`unscanned`), over several
loads. `KernelModules` composes them with `KbdBacklight`.

### ThermalEngine

The engine's thread (`Poll`, `CheckSensor`, `Uevent`, `Wakeup`, `TakeOver`,
`Rebuild`, `EndThread`: `thd_engine_thread` with `proc_message`, the fast-poll
switch and the takeover of the kernel's policies) and the main thread (`StartEnds`,
`SetPreference`, `UserRequest`, `Stop`, `GiveUp`, `Exit`, `Reinit`, `Destroy`). The
thread is started in the middle of `thd_engine_start`, so the rest of it
(`StartEnds`) runs beside the thread. A loop over the zones is taken one zone at a
time: `work` lists the checks still to make, and the main thread may send in
between. The two messages of one polling trip (POLL and FAST_POLL) are one step.

Each zone has a polling trip of its own (`pollOn`), and the masks have the bit of
the sensor it finds: `SensorList` says which, and two zones may have the same
sensor or, 32 apart, the same bit. `Rebuild` is a switch of target, which replaces
the trips by new ones that are off and tells nobody; `stale` (history) are the
zones whose trip was on.

The pipe is non-blocking and a message is longer than `PIPE_BUF`: the one that
meets a full pipe is torn, `lost` remembers it, and what is read behind it is
shifted: the low byte of a sensor number is then taken for any of the nine
message ids (`Misread`).

`thd_engine_terminate` and Reinit wait a fixed time and go on. Nothing in the code
keeps the detached thread from being slower, so `GiveUp`, `Exit` and `Destroy` may
come at any moment after `Stop`: control can be taken over again behind the give-up
(`late`), and an engine destroyed under its thread leaves the model in `main =
"undefined"`. A policy may fail to be read and a kernel zone may come or go
(`KernelZone`), which shifts the list of saved policies (`skewed`). `Crash` and
`Restart` keep only what the kernel and the preference file keep; a start with a
matching configuration first writes that configuration's preference to the file.

### Adaptive

`Start`, `Update` and changes of the conditions' sources. `evaluate_condition`
keeps its state from one interval to the next (`FOR` times); a new target deletes
all trips, installs its PSVT or ITMT table, falls back to the default table,
consolidates, and adds the EC zones. The loops over a table's entries
(`InstallTable`) and over the actions (`ExecuteAll`) are recursive functions of the
number of turns taken. An update comes one of `Steps` seconds after the one before,
so a `FOR` time is compared with sums of these and an exact one can be skipped.
`calm` counts updates without a change.

### ThermalConf, ThermalObjects and ThermalSetup

`ThermalConf` is the path of a relation from the firmware's TRT, ART or PSVT
through `generate_conf` and the parser. `ThermalObjects` holds the operators that
build sensors, devices and zones of every kind and look them up as
`search_sensor`, `search_cdev` and `search_zone` do. `ThermalSetup` takes the loops
of a start one turn at a time: a configured sensor or device, a kernel zone, a
configured zone and each of its trips (`ReadConfigSensor`, `ReadConfigCdev`,
`ReadKernelZone`, `BeginZone`, `NewZoneTrip`, `AddTrip`, `BindCdevs`, ...), so a
crash can come between any two. `at` is the position of the loop and `making` the
zone under construction. A D-Bus request that adds or changes an object, a stop
and a crash are one action each. `ktrip` is what the kernel has in
`trip_point_0_temp`; `kept` (history) are the kernel zones none of whose objects
was deleted or died in a crash. `read_zone_temp` gives the sensor indices under
which a zone's trips are compared: of a zone with correlated sensors, only the
first. `Thermald` composes Adaptive and ThermalSetup with
ThermalEngine.

### The compositions

The parts that `ProxyDrivers`, `KernelModules` and `Thermald` join share no
variable, so any interleaving of them is a product of independent behaviours and
no property below relates two of them. One part steps in each behaviour while the
others rest; this checks the same as the full product and keeps it small.
SensorProxy and Mxc6655, and CoolingDevice, stay apart: they meet the others only
through what the modules take as input (a reading, a temperature).

## Runs

| Run | Checks and shows |
|---|---|
| `mxc6655` | mode, orientation and timer stay consistent; no flapping; posture, orientation and lid are followed in the end, through lost buses and recoveries while descriptors last |
| `sensor_proxy` | `PolledWhenWanted`, `ClaimedHaveReading`, `ViewsCurrent`, `NothingDelayedWhenAbsent`, and every Claim is answered, with drivers that keep sending readings |
| `sensor_proxy_event` | *violated*: a Claim of an already watched proximity switch waits for the switch to move |
| `proxy_drivers` | nothing keeps running behind a failed open, a close or a crash (`QuietWhenUnused`); leftovers do no harm (`LeftoversHarmless`); decoding gives back the sample (`SampleFaithful`); a polled device is read (`PolledIsRead`); descriptors add up (`DescriptorsAccounted`); a machine held still gets its orientation (`StillIsUnderstood`) |
| `i2ec_bus` | register calls are atomic and return |
| `kernel_modules` | no callback outlives its memory; no controller is left half programmed, but after a hibernation (`FixupComplete`); every gated device is looked for, unless the scan failed (`DevicesDiscovered`); a brightness set takes effect and the poll work catches up |
| `kbd_backlight_gate` | *violated*: the gate is written while the timer is active |
| `kbd_backlight_listeners` | *violated*: a race of set and poll leaves listeners wrong |
| `thermald` | the masks and the poll rate follow the polling trips (`PollRateMatchesTrips`); policies and firmware trips are given back; the thread ends after a stop if it is given the time (`ThreadEnds`); a preference is applied; zones hold exactly the trips of their target (`InstalledAgrees`) and reach it (`TargetReached`); every trip is compared with a reading, but two kinds of the cpu zone (`TripsReachable`); a firmware relation arrives in a zone (`RelationsBound`) |
| `cooling_device` | a shared device is released when all is cool and meets the demand of a hot zone |
| `cooling_device_max` | *violated*: calling off a MAX trip sets the maximum state |
| `cooling_device_shared` | *violated*: one trip's deactivation lowers a device another trip holds |

Each violated property is what a comment of the repository says; `findings` in
`PROJECT.json` quotes it.

**Bounds.** `mxc6655`: `GMTR_DEBOUNCE` is 1, so a change takes two samples; five
scenes use every band (a weak sample acts on the counters as a shut one does), two
facings in tablet mode and both outcomes of the filter; `FdRoom` is 3, so one
recovery may lose a descriptor before the last two are needed. The proofs cover every other debounce length. `sensor_proxy`: two
types (a client can vanish from two sensors, one udev device can carry two),
two clients (first and later claims differ), two values. `i2ec_bus`: two threads
and two addresses that differ in both bytes; the theorem covers the rest.
`kernel_modules`: brightness 0 to 2, so that off, on and changed differ; two
probes, so that one can find what the other left; the
ADC's glitch value, which the driver drops, between two others, of which a torn
reading can be made; a stopped and a turning fan; two sleeps and two
transfers, so that a transfer can start inside either fixup; five devices and a
table of two, so that one does not fit; loads until a device has lost two
references (`MaxLeaks`); two loads of
dptf_enabler with every choice of parameters. `proxy_drivers`: at least one
device of every driver, sound and with faults, with and without a timestamp and
padding behind the last channel; a ring of three samples and reads of three
(`RingLength`, `ReadLength`), so that one read takes several and only the last
counts; an adapter's client whose name comes out as bus 0; one crash, after which every start meets
leftovers; descriptors up to six, more than one recovery leaks; the filter's
lengths scaled down (ring 2, stable after 1, long-stable after 4) with three
moves, which reach every branch. `thermald`: a pipe of four messages (`PipeCapacity`), which three requests and the
thread's own pairs fill; three zones, two of them with the same bit of the masks,
on sensors that a shifted message takes for THERMAL_ZONE_NOTIFY and RELOAD_ZONES;
two kernel zones with different policies; three requests, failing reads, crashes,
rebuilds and changes of temperature in all (`MaxRequests`); a configuration with a
preference and none (`Defaults`); updates every 4 or 5 s (`Steps`) against `FOR`
times of 4 and 5 s, ages up to 6 s and four calm updates (`AgeCap`, `CalmCap`), more
than two conditions of one set need one after the other; eight sets of tables
(complete, without conditions, with unsupported ones, these without actions, these
without actions and default, complete but for the default, with an exact and with a
greatest `FOR` time); five machines (relations, PSVT only, a configuration of two
platforms, package temperatures only, core temperatures and a configured cpu zone);
two starts and three requests, so that an object can be added, changed and deleted
before the next start.
`cooling_device`: states 0 to 4 with targets 1 and 3 leave room for a step
between and above; temperatures 0 to 3 are below polling, cool, within the
hysteresis and hot.

**Fairness.** `mxc6655`: GLib dispatches a due timer and a readable descriptor;
nothing is assumed of the user, the bus or the clients. `sensor_proxy`: the
timer of a polling driver leads to a reading in the end. `proxy_drivers`: timers
are dispatched (`Tick`), a device whose buffer is on delivers scans
(`ScanArrives`), and a started SSC sensor measures (`measurement_cb`).
`i2ec_bus`: threads
inside the accessor run, and the kernel mutex hands over to its waiters (strong
fairness of the acquisition). `kernel_modules`: queued work of the LED class and of the poll runs
(`LedStep`, `PollStep`). `thermald`: the thread goes on when it can
(`ThreadGoesOn`: `poll()` returns on a message or at its timeout, and the steps
after it are taken) and time passes (`Elapse`); nothing is assumed of uevents,
requests, rebuilds or the ends of the sleeps. Adaptive and ThermalSetup state safety only: their
"in the end" is counted in intervals.
`cooling_device`: the engine polls (`thd_poll_interval` is 4 s by default) and
time passes.

**Deadlock** is not checked for `sensor_proxy`, `kernel_modules` and `thermald`: a
stopped daemon and an unloaded module really stop, and the counts of probes,
loads, starts and requests end.

**What the demand property leaves out.** A step-controlled trip that shares its
device with a trip with a target is held at that target as long as the target's
entry is the last of `zone_trip_limits`: the code answers every trip with the
last entry. `DemandMet` therefore promises the maximum state to a step-controlled
trip only while the trips with targets are cool.

**Size.** Distinct states and minutes on two workers: `mxc6655` 1,072,590 (2.5),
`sensor_proxy` 334,434 (3), `proxy_drivers` 158,563 (2), `kernel_modules` 869,058
(1.5), `thermald` 820,819 (3.5).

## Proofs

`Mxc6655_proof` proves for every `GMTR_DEBOUNCE > 0`, every set of scenes and
every set of panel orientations: the type invariant, `LaptopIsLandscape`,
`TimerMatchesGate`, `LidNotStuck`, `ReportedIsCurrent` and
the action properties `NoModeFlapping` and `NoOrientationFlicker`. The inductive
invariant `IInv` joins the invariants with `CountersWithinAge`: a debounce
counter never exceeds the number of polls since the value it guards last changed.
Without it the action properties are not inductive, because a counter could have
been left high by an earlier mode. The proof that a poll preserves the invariant
rests on lemmas about the counters (`BumpFacts`, `NextCountFacts`), the
orientation arithmetic (`ComposeType`, `LandscapeType`, `DegreesType`) and the
debouncer (`DebounceFacts`).

`I2ecBus_proof` proves for any set of threads and any 16-bit addresses that
`I2ecBus` implements `AtomicRegs` (`AccessAtomic`). Its invariant says that only
the holder of the mutex is between the first and the last access, and what the
chip holds after each of the twelve (`ChipAt`). `BytesOfAddress` shows that the
two address bytes give the address back.

`EcDriver_proof` proves for any number of probes and any register values that
no callback outlives the driver's memory (`MemoryCorrect`, stated by
`MemoryOutlivesCallbacks`). The property is far from inductive: that memory may be
freed now depends on everything registered before having been taken away. The
invariant (`EcInv`, theorem `EcInvariance`) gives each interface the phases of
probe, remove and managed release in which it may be registered, says that a
callback runs only while its interface is registered, and that the memory is there
in every phase but the first. The phases include the fault of a `remove()` that
meets an error pointer, from which nothing is released any more.

`SensorProxy_proof` proves the daemon's four invariants (`NothingDelayedWhenAbsent`,
`PolledWhenWanted`, `ClaimedHaveReading`, `ViewsCurrent`) for any sensor types,
clients, values and driver kinds. The handlers work on one sensor's record, so the
invariant `ProxyInv` is a predicate of one record (`Sound`, `Polled`) and each
handler has a lemma that it takes a sound record to a sound one. The properties
are not inductive: a second Claim is answered at once, which is right only because
a claimed sensor without a reading always has somebody waiting for it or an event
delayed. That is the third conjunct of `Sound`.

`KernelModules_proof` proves `SetTakesEffect`, `FixupComplete` and
`DevicesDiscovered`, the last for any DSDT, any sets of gates and any number of
loads (`DiscoveredCorrect`), and carries them and the results of `EcDriver_proof`
over to `KernelSpec` (`MachineCorrect`). For the backlight, `KbdInv` says from which write on the duty
and the gate hold the value, as long as nobody else touched them (`alone`). For
Spklen, `FixInv` says which controllers of the table are done at each step,
`Distinct` that fixing one leaves the others alone, `ScanInv` that the number of
entries is the number of usable devices passed (a cardinality argument), and
`HeldInv` which mappings and references are accounted for. Working out `HeldInv`
showed the reference that a full table leaves behind, so `FixupComplete` is stated
with that exception, and with that of a hibernation, after which nothing is promised
until the fixup runs again. For dptf_enabler, `DptfInv` adds that at the start of a load,
too, every gate that is set has been looked for: that is what makes it safe to
leave out the scan when no flag changes.

`Thermald_proof` proves `PollRateMatchesTrips` and `PolicyRestored`, for any
sensors, zones, intervals and capacity of the pipe. The first property is about
moments when the pipe is empty, so the invariant `EngineInv` has to say what the
messages under way will do. In a pipe that lost nothing every message is read as
it was sent (`Intact`), POLL and FAST_POLL messages about a sensor come in pairs
(`Paired`), the last word with the bit of a polling trip that has it to itself
agrees with the trip, or with what it was when it was deleted (`LastWord`), and the
masks and the timeout agree except while a pair is half taken (`FixedRate` with a
configured interval, `FreeRate` without). Bits, not sensors, are what the messages
are compared by, so zones that share a bit disturb none of the others.

`PolicyInv` says when `zone_preferences` begins with the original policies
(`Saved`): from the first takeover of an engine on, however many were appended; and
that the kernel has them from the give-up to the next takeover. The thread may be
the first to take over, before `thd_engine_start` comes to it, so the phase
`starting` has either. It holds while no crash, no failed read, no hotplug and no
late takeover came (`Sound`). `TakeoverSaves` and `GivenBackRestores` are the two
steps of the argument; `Places` and `AllPresent` say that counting finds the zone
itself when every zone is there. `DaemonCorrect` states both of `DaemonSpec`, which
the run checks.

`ThermalSetup_proof` proves `TripsReachable` and `FirmwareTripsRestored` for every
machine, every configuration, and every sequence of starts, crashes and requests
(`SetupTripsReachable`, `SetupTripsRestored`). Sensors, devices and zones are
vectors whose elements refer to each other by position, and almost every step
builds, extends or sorts one of them.

- `SetupInv`, for `TripsReachable`: every reference of a zone or a trip is within
  its vector, a trip's sensor is one the zone is bound to (`ObjectsOk`), also in
  the zone under construction (`MakingOk`); there are no zones before their phase
  (`PhaseOk`). The property speaks of active zones only, but a request can activate
  any zone, and `making` becomes a zone later, so both have to be sound before
  they can be seen.
- `RestoreInv`, for `FirmwareTripsRestored`, adds what the loops have read so far.
  `SensorsRead`: the sensors of the kernel come in its order and, once read, every
  readable kernel zone has one. `TripsOwned`: a kernel zone that was read has an
  object with the firmware's temperature in `initial`, or the kernel still has that
  temperature. A trip is written only through a sensor that a zone is bound to, and
  the object must have read the temperature before; that the sensor found by name
  belongs to a zone already read is what the order of the sensors is needed for.
- `CpuInv`, for the correlated zones: only the zone `cpu` is one, and as long as no
  configured zone has its name its trips but the polling ones are for its first
  sensor (`Tame`), also while the loops still build it.
- The lemmas on the operators: a filter and a sort by rank keep exactly the chosen
  elements, in order (`OnlyProp`, `RankedProp`, `ByTempProp`, by cardinality of the
  lower elements); the searches return a position with the property they look for
  (`SensorFound`, `CdevFound`, `ZoneFound`); what the operators of ThermalObjects do
  to one zone (`Builds`), to the sensors (`Keeps`) and to the vectors (`Grows`), each
  relation reflexive and transitive. Every step of a start and every request but
  `DeleteZone` is then a `Growing` step, and one lemma says what `Growing` preserves.

The proof of `TripsOwned` failed at first for a kernel zone that shares its name
with an unreadable zone before it; the property now excepts these (`Shadowed`, see
below). `DaemonSetupCorrect` in `Thermald_proof` states both properties of
`DaemonSpec`.

The last part of `Thermald_proof` proves `InstalledAgrees` of `DaemonSpec`
(`AdaptiveCorrect`), for any tables, zones and devices and whatever targets came
before.

- The property compares the zones with those of a switch from empty zones, but a
  switch begins with the zones of the target before, and actions without a table
  (an override, or an ITMT table that is missing) build on them. The key lemma is
  `SwitchForgets`: two runs over the actions of a target agree on
  `int3400_installed`, and on the zones as soon as one table was installed
  (`Agree`, kept by each action: `ExecuteAgrees`); a run that installs none ends
  with the default table, which begins with empty zones.
- `Held`: the EC zones keep their trip through the later tables of the target,
  since `add_trip` keeps every trip that is not the polling one (`AddedTrip`, from
  the sorting lemma `ByTempProp`) and an override changes one trip of its own zone.
- The invariant `AdaptiveInv` adds that the zones hold lists of trips, that nothing
  is installed before the start, and that an engine with a fallback has no target.
- The loops: `Climb` is the induction up to a bound, from the least counterexample;
  with it `TableRuns` and `TargetRuns` show that the function of a loop exists, and
  `TableShape`, `AllHeld` and `AllAgree` carry a fact through all of its turns.

The proof also showed where the property was too strong: with neither a table of
the target nor a default one the EC zones are not guarded (see below), which the
run now checks with a sixth set of tables.

`ProxyDrivers_proof` proves `QuietWhenUnused` and `LeftoversHarmless` of IioDrivers,
alone and inside `ProxySpec`, for any set of devices with any faults. The
invariant `DriverInv` gives the steps of open, close and crash the things that may
be on (`SysfsInv`) and says that a running buffer has its scan elements and trigger
(`RingInv`): that is why the writes the kernel refuses with EBUSY are never needed.
It also proves `DescriptorsAccounted` for any adapters, chips and descriptor limit
(`DescriptorsCorrect`), with the strengthening that a closed driver knows no
descriptor (`DeviceInv`). `MinIn` gets the least adapter from the well-foundedness
of the naturals.

The assumptions are the named ones of the modules, which TLC evaluates in the
runs. Beyond types they say: the debounce length, the size of the controller table
and the pipe's capacity are positive; a buffered device has a channel
(`DevicesAssumption`: the udev rules give a buffered driver only to devices with
scan elements, `data/80-iio-sensor-proxy.rules`); no adapter is called `-1`
(`AdaptersAssumption`); every kernel zone has a policy before the start; sysfs
numbers zones and devices without repetition, temperatures are whole numbers and a
writable trip is not below zero (`MachinesAssumption`, `RequestsAssumption`); the
firmware's tables are lists of entries with whole temperatures and powers, and each
zone has a list of trips before (`TablesAssumption`, `BootAssumption`). Nothing
is assumed of the bounds (`MaxRequests`, `MaxSleeps`, `MaxLeaks`, ...), so the theorems
hold for every value of them.

Only model-checked:

- liveness, which the prover cannot handle: `PostureWins`, `OrientationFollows`,
  `LidResumes`, `ClaimAnswered`, `PolledIsRead`, `CallsReturn`, `PollConverges`,
  `ThreadEnds`, `PreferenceApplied`, `ReleasedWhenCool`, `DemandMet`;
- `SampleFaithful`, which is about the shifts and masks of a scan of any width and
  the layout of its channels (exponentiation and a recursive layout);
- `StillIsUnderstood`, which needs sums over the ring of samples and exact roots;
- `TargetReached`, which counts intervals: it is bounded liveness and depends on the
  values of `AgeCap` and `CalmCap` beside the tables' `FOR` times;
- `RelationsBound`: `generate_conf` groups the relations of a target with a fold of
  the library, and the property follows a relation through every table and the
  parser.

## Behaviour seen but not called wrong

The models show these; no property is stated against them, or a property names
them as its exception.

- The fallback target is executed only after the check that returns when no
  target was ever matched (`thd_engine_adaptive.cpp:617`), so it is not installed.
- Without a default table `install_passive_default` returns before it adds the EC
  zones (`thd_engine_adaptive.cpp:475`): they are unguarded until a target with a
  table holds. `InstalledAgrees` excepts it.
- While thermald is disabled its loop continues before it reads the pipe
  (`thd_engine.cpp:98`): no message is taken, TERMINATE included.
- A message that meets a full pipe is torn or lost, `TERMINATE` too, and a torn one
  shifts the stream; the engine's properties except such a pipe.
- Termination and Reinit wait one second and then another (`thd_engine.cpp:462`,
  `thd_dbus_interface.cpp:220`), whatever the thread does. A thread in the middle of
  a preference change takes control over again behind the give-up and leaves
  `user_space`; one that has not ended runs on in the engine that Reinit destroyed.
- After a crash the kernel zones keep the `user_space` policy and the next start
  saves it as the original one.
- Saved policies are matched with zones by counting (`thd_engine.cpp:645,694`): a
  read that failed or a zone that came or went shifts them, and with more zones than
  saved policies the code indexes past the end of the vector. The model takes that
  read to give nothing the kernel accepts; the properties exclude the case.
- `poll_on` belongs to a trip object. A target switch deletes trips that are on
  without clearing their bit, so the engine polls fast until the new trip of that
  sensor was on and off again; two zones with one sensor, or with indices 32 apart,
  clear each other's bit. `PollRateMatchesTrips` names both.
- A polling trip takes its sensor id as a position in the engine's vector
  (`thd_trip_point.cpp:189`), although ids have gaps where kernel zones do.
- A start with a matching `thermal-conf.xml` writes that file's preference, or
  ENERGY_CONSERVE, over the one the user had set (`thd_engine.cpp:324`).
- Evaluation of a set of conditions stops at the first that fails, so a later
  condition keeps an old `state_entry_time` and its `FOR` time may be over at once
  when it is reached again (`thd_gddv.cpp:1773`); an exact `FOR` time between two
  updates is never met (`thd_gddv.cpp:1473`). `TargetReached` says that neither
  delays a target whose times are least times.
- The cpu zone hands the highest of its sensors to its trips under the index of the
  first (`thd_zone.cpp:197`): the polling trips of the others, and trips that a
  configuration adds for them, are never compared. `TripsReachable` excepts them.
- `AddSensor` of a known name moves that sensor to the new path; with an empty path
  it unlocks a mutex it does not hold (`thd_engine.cpp:1014`). The model leaves the
  latter, undefined behaviour, out.
- A thermal zone of minibook_ec that could not be registered leaves an error pointer
  in `soc_tz` or `charger_tz` (`minibook_ec_thermal.c:91,108`), and `remove()`
  passes it to `thermal_zone_device_unregister`, which faults.
- After a hibernation the kernel sends `PM_POST_HIBERNATION`, which `pm_handler`
  ignores (`i2c_designware_spklen.c:173`): the controllers keep their power-on
  lengths until the next suspend. `FixupComplete` excepts it.
- A bus scan of dptf_enabler that fails is not noticed (`dptf_enabler.c:179`), and a
  later load that changes no flag does not repeat it. `DevicesDiscovered` excepts it.
- The kernel pads a scan whose last channel is not its widest;
  `size_from_channelarray` (`iio-buffer-utils.c:466`) does not count that, so a read
  of several scans decodes the last one from the wrong place. `SampleFaithful`
  excepts such devices.
- `find_accels` takes the bus number from the fifth character of a udev name on
  (`drv-mxc6655-accel.c:358`): I2C clients come out as bus 0, which is then probed
  again.
- The LTSM call and the write of the switch event may fail unnoticed
  (`drv-mxc6655-accel.c:559,1226`); `PostureWins` only asks that keyboard and switch
  do not show the other mode.
- A tachometer or temperature read while the EC updates it can be torn.
- `recover_i2c` loses one descriptor each time it finds a single chip, until none is
  left and no recovery can succeed. `DescriptorsAccounted` counts them and
  `PostureWins` asks for two that are left.
- Without a Z bias the two candidates of the gravity offset cannot be told apart
  and the filter gives no orientation; `StillIsUnderstood` is about biased chips. It
  asks for an offset, not for the right one.
- A passive temperature stored for a zone that has trips but no passive one makes
  `update_highest_trip_temp` (`thd_zone.cpp:315`) search below the first trip at the
  next start; the model stores them only for zones with a passive trip.
- When the controller table of i2c_designware_spklen is full, the scan's `break`
  (`modules/i2c_designware_spklen/i2c_designware_spklen.c:205`) keeps the reference
  of the device that did not fit; every load adds one. `FixupComplete` excepts it.
- A kernel zone that cannot be read binds to the first sensor of its name (or, for
  `pch_*`, of its class), which may be the sensor of a later zone. Its passive trip
  is then written to that zone's `trip_point_0_temp`
  (`thd_zone_therm_sys_fs.cpp:59,126`) before the later zone's own object reads and
  keeps it, so a stop gives back the wrong temperature. `FirmwareTripsRestored`
  excepts such zones (`Shadowed`).
- GMTR thresholds are taken over one by one, so a short answer of the firmware
  leaves the rest at their defaults.

## Not modelled

- thermald's RAPL devices, PID loop and power meter: arithmetic on powers and
  floats over sysfs files, without concurrency of their own. With them go
  descending devices and per-trip minimum and maximum states of CoolingDevice.
- thermald's sysfs, uevent, CPU tables and vendored LZMA code: wrappers and data.
- `thd_cpu_default_binding.cpp`: compiled only with `AUTO_DETECT_RELATIONSHIP`,
  which no build file defines.
- The decoding of the binary GDDV tables (offsets and checks over one buffer) and
  the sources of the adaptive conditions (UPower, lid, sensors), which are inputs
  here; the counters of critical and hot trips, which end in a shutdown.
- D-Bus getters, polkit and formatting; PID parameters, trip dependencies and
  polling tables of the configuration.
- The arithmetic of the hinge angle and the smoothed outputs of the filter.
- `goodix_ts`: a patch of a driver that is not in the repository. `vbt_patch`: one
  pass of byte edits and a checksum over a file. Shell scripts and packaging.

## Plan

1. *Proofs*: the type invariant of CoolingDevice and the order of
   `zone_trip_limits`; `RelationsBound`, with the folds of ThermalConf written as
   the loops of Adaptive are.
2. *Zones in motion*: trips with several devices, sequential and parallel control
   and descending devices in CoolingDevice, fed by the zones ThermalSetup builds.
3. *RAPL*: the range and step of power limits, with the limits Adaptive sets.
