---------------------------- MODULE ThermalSetup ----------------------------
(***************************************************************************)
(* The life of thermald's objects: a start reads or generates the           *)
(* configuration and builds sensors, cooling devices and zones one after    *)
(* the other, D-Bus requests change them, a stop gives the kernel's trips   *)
(* back and a crash does not.  Sensors and cooling devices are never        *)
(* removed.                                                                 *)
(***************************************************************************)
EXTENDS ThermalObjects

CONSTANTS
    Machines,       \* the machines: kernel, firmware and configuration files
    SensorRequests, \* [name, path, sysfs, dep] of AddSensor and AddVirtualSensor
    ZoneRequests,   \* [name, temp, sensor, cdev] of AddZonePassive requests
    PsvRequests,    \* [zone, temp] of SetUserPassiveTemperature requests
    CdevRequests,   \* [type, path, min, max] of AddCoolingDevice requests
    MaxUserRequests, MaxStarts

(* What sysfs gives: thermal_zoneN has one N, trips are read in order, and  *)
(* temperatures are whole numbers, that of a writable trip not negative.    *)
(* The platforms of a configuration file are numbered.                      *)
ASSUME MachinesAssumption ==
    \A m \in Machines :
        /\ DOMAIN m.kzones = 1..Len(m.kzones) /\ Len(m.kzones) \in Nat
        /\ DOMAIN m.kcdevs = 1..Len(m.kcdevs) /\ Len(m.kcdevs) \in Nat
        /\ DOMAIN m.doc \subseteq Nat \ {0} /\ DOMAIN m.confAuto \subseteq Nat \ {0}
        /\ \A i, j \in DOMAIN m.kzones : m.kzones[i].n = m.kzones[j].n => i = j
        /\ \A i \in DOMAIN m.kzones :
             LET ts == m.kzones[i].trips
             IN /\ DOMAIN ts = 1..Len(ts) /\ Len(ts) \in Nat
                /\ \A j \in DOMAIN ts : ts[j].temp \in Int /\ (ts[j].writable => ts[j].temp >= 0)
        /\ m.coretemp.inputs \in Nat /\ m.coretemp.crit \in Int /\ m.coretemp.max \in Int
ASSUME RequestsAssumption ==
    /\ \A q \in ZoneRequests : q.temp \in Int
    /\ \A q \in PsvRequests : q.temp \in Int

VARIABLES
    machine,        \* one of Machines
    setupPhase,     \* "boot", "writing", "sensors", "cdevs", "zones", "config",
                    \* "run", "down"
    at,             \* how far the loop of the phase has come
    making,         \* the configured zone the loop is at, and its trip
    auto,           \* thermal-conf.xml.auto: "none", "partial" or "whole"
    config,         \* the platform of the configuration that matched, or NoInfo
    sensors, cdevs, zones,  \* the engine's vectors
    next,           \* current_sensor_index, current_cdev_index, current_zone_index
    ktrip,          \* kernel zone -> its writable trip_point_0_temp
    psv,            \* zone -> the passive temperature a user stored for it
    kept,           \* kernel zones none of whose objects died in a crash or a deletion
    setupRequests, starts

cursor == <<at, making>>
files == <<machine, auto, config>>
outside == <<psv, kept, setupRequests, starts>>
setupVars == <<files, setupPhase, cursor, sensors, cdevs, zones, next, ktrip, outside>>

Writable(m) == {i \in DOMAIN m.kzones : 1 \in DOMAIN m.kzones[i].trips /\ m.kzones[i].trips[1].writable}
FirmwareTrips(m) ==
    [n \in {m.kzones[i].n : i \in Writable(m)} |->
        m.kzones[CHOOSE i \in Writable(m) : m.kzones[i].n = n].trips[1].temp]

(* place: the zone in zones, or 0 for one only the configuration knows;     *)
(* trip: 0 between zones; on: whether to activate; zone: the new one.       *)
Idle == [place |-> 0, trip |-> 0, on |-> FALSE, zone |-> Zone("", 0, FALSE)]
NoIndex == [sensor |-> 0, cdev |-> 0, zone |-> 0]

SetupInit ==
    /\ machine \in Machines
    /\ setupPhase = "boot" /\ auto = "none" /\ config = NoInfo /\ at = 0 /\ making = Idle
    /\ sensors = <<>> /\ cdevs = <<>> /\ zones = <<>> /\ next = NoIndex
    /\ ktrip = FirmwareTrips(machine) /\ psv = <<>>
    /\ kept = DOMAIN ktrip /\ setupRequests = 0 /\ starts = 1

-----------------------------------------------------------------------------
(* Starting.                                                                *)
Generated == generate_conf(machine.fw, machine.dmi)

(* generate_conf creates the file and writes it in many steps.              *)
Generate ==
    /\ setupPhase = "boot" /\ machine.confAuto = NoDoc /\ auto = "none" /\ Generated # NoDoc
    /\ setupPhase' = "writing" /\ auto' = "partial"
    /\ UNCHANGED <<machine, config, cursor, sensors, cdevs, zones, next, ktrip, outside>>
EndGenerate ==
    /\ setupPhase = "writing" /\ setupPhase' = "boot" /\ auto' = "whole"
    /\ UNCHANGED <<machine, config, cursor, sensors, cdevs, zones, next, ktrip, outside>>

(* parser_init: a configuration in the configuration directory or a         *)
(* generated one comes before thermal-conf.xml; a file that does not parse  *)
(* gives none.                                                              *)
Document ==
    CASE machine.confAuto # NoDoc -> machine.confAuto
      [] machine.confAuto = NoDoc /\ auto = "whole" -> Generated
      [] machine.confAuto = NoDoc /\ auto = "partial" -> NoDoc
      [] OTHER -> machine.doc
UsesGenerated == machine.confAuto # NoDoc \/ auto # "none"
Configure ==
    LET list == parse_new_platform(Document)
        i == platform_matched(list, machine.dmi)
    IN /\ setupPhase = "boot" /\ (machine.confAuto # NoDoc \/ auto # "none" \/ Generated = NoDoc)
       /\ setupPhase' = "sensors"
       /\ config' = IF i = 0 THEN NoInfo ELSE list[i]
       /\ UNCHANGED <<machine, auto, cursor, sensors, cdevs, zones, next, ktrip, outside>>

(* read_thermal_sensors: the sensors of the kernel, then the configured ones. *)
ReadSensors ==
    /\ setupPhase = "sensors" /\ at = 0 /\ at' = 1
    /\ sensors' = DefaultSensors(machine).s
    /\ next' = [next EXCEPT !.sensor = DefaultSensors(machine).n]
    /\ UNCHANGED <<files, setupPhase, making, cdevs, zones, ktrip, outside>>
ReadConfigSensor ==
    LET r == ConfigSensor(machine, [s |-> sensors, n |-> next.sensor], config.sensors[at])
    IN /\ setupPhase = "sensors" /\ at # 0 /\ at \in DOMAIN config.sensors /\ at' = at + 1
       /\ sensors' = r.s /\ next' = [next EXCEPT !.sensor = r.n]
       /\ UNCHANGED <<files, setupPhase, making, cdevs, zones, ktrip, outside>>
EndSensors ==
    /\ setupPhase = "sensors" /\ at # 0 /\ at \notin DOMAIN config.sensors
    /\ setupPhase' = "cdevs" /\ at' = 0
    /\ UNCHANGED <<files, making, sensors, cdevs, zones, next, ktrip, outside>>

(* read_cooling_devices, likewise.                                          *)
ReadCdevs ==
    /\ setupPhase = "cdevs" /\ at = 0 /\ at' = 1
    /\ cdevs' = DefaultCdevs(machine, config).c
    /\ next' = [next EXCEPT !.cdev = DefaultCdevs(machine, config).n]
    /\ UNCHANGED <<files, setupPhase, making, sensors, zones, ktrip, outside>>
ReadConfigCdev ==
    LET r == add_replace_cdev(machine, [c |-> cdevs, n |-> next.cdev], config.cdevs[at])
    IN /\ setupPhase = "cdevs" /\ at # 0 /\ at \in DOMAIN config.cdevs /\ at' = at + 1
       /\ cdevs' = r.c /\ next' = [next EXCEPT !.cdev = r.n]
       /\ UNCHANGED <<files, setupPhase, making, sensors, zones, ktrip, outside>>
EndCdevs ==
    /\ setupPhase = "cdevs" /\ at # 0 /\ at \notin DOMAIN config.cdevs
    /\ setupPhase' = "zones" /\ at' = 1
    /\ UNCHANGED <<files, making, sensors, cdevs, zones, next, ktrip, outside>>

-----------------------------------------------------------------------------
(* read_thermal_zones: the kernel's zones, one for the CPU unless the       *)
(* firmware has it, then the zones of the configuration.                    *)
Registry == [s |-> sensors, zs |-> zones]
Updated(s, z, binds) == zone_update(machine, cdevs, psv, s, [z |-> z, k |-> ktrip], binds)

ReadKernelZone ==
    LET kz == machine.kzones[at]
        p == search_sensor(sensors, kz.type)
        s == WithWritable(sensors, kz, p)
        x == Updated(s, SysfsZone(s, ktrip, kz, p), kz.binds)
    IN /\ setupPhase = "zones" /\ at \in DOMAIN machine.kzones /\ at' = at + 1
       /\ IF p = 0 THEN UNCHANGED <<sensors, zones, ktrip>>
          ELSE sensors' = s /\ zones' = Append(zones, x.z) /\ ktrip' = x.k
       /\ UNCHANGED <<files, setupPhase, making, cdevs, next, outside>>

KernelZonesRead ==
    /\ setupPhase = "zones" /\ at \notin DOMAIN machine.kzones
    /\ setupPhase' = "config" /\ at' = 1
    /\ UNCHANGED <<files, making, cdevs, outside>>
ActingZone == LET i == ProcessorZone(machine, zones)
              IN IF i # 0 /\ HighPassive(zones[i]) # 0 THEN i ELSE 0
FirstIndex == NextIndex(machine.kzones, zones)

(* A new zone z is registered and activated.                                *)
Registered(r, x) == SetActive([r EXCEPT !.zs = Append(@, x.z)], Len(r.zs) + 1, TRUE)
Registers(z) ==
    LET x == Updated(sensors, z, <<>>)
    IN /\ sensors' = Registered(Registry, x).s /\ zones' = Registered(Registry, x).zs
       /\ ktrip' = x.k /\ next' = [next EXCEPT !.zone = z.index + 1]

ReadProcessorZone ==
    LET z == add_int340x_processor_dev(cdevs, zones, zones[ActingZone])
        r == SetActive([Registry EXCEPT !.zs[ActingZone] = z], ActingZone, TRUE)
    IN /\ KernelZonesRead /\ ActingZone # 0
       /\ sensors' = r.s /\ zones' = r.zs
       /\ next' = [next EXCEPT !.zone = FirstIndex] /\ UNCHANGED ktrip
NeedsCpuZone ==
    search_zone(zones, "cpu") = 0 /\ machine.coretemp.inputs # 0 /\ CpuSensors(sensors) # <<>>
ReadCpuZone ==
    /\ KernelZonesRead /\ ActingZone = 0 /\ NeedsCpuZone
    /\ Registers(CpuZone(machine, cdevs, sensors, FirstIndex))
ReadNoCpuZone ==
    /\ KernelZonesRead /\ ActingZone = 0 /\ ~NeedsCpuZone
    /\ next' = [next EXCEPT !.zone = FirstIndex] /\ UNCHANGED <<sensors, zones, ktrip>>

-----------------------------------------------------------------------------
(* A zone of the configuration, and its trips in order.                     *)
Wanted == config.zones[at]
WantedTrip == Wanted.trips[making.trip]
BeginZone ==
    /\ setupPhase = "config" /\ making = Idle /\ at \in DOMAIN config.zones
    /\ making' = [place |-> search_zone(zones, Wanted.type), trip |-> 1, on |-> FALSE,
                  zone |-> Zone(Wanted.type, next.zone, FALSE)]
    /\ UNCHANGED <<files, setupPhase, at, sensors, cdevs, zones, next, ktrip, outside>>

TripStep ==
    /\ setupPhase = "config" /\ making.trip # 0 /\ making.trip \in DOMAIN Wanted.trips
    /\ UNCHANGED <<files, setupPhase, at, sensors, cdevs, next, outside>>
TripSensor == search_sensor(sensors, WantedTrip.sensor)

(* cthd_zone_generic: a zone only the configuration knows.  It fails when   *)
(* the sensor of its last trip is unknown.                                  *)
NewZoneTrip ==
    LET z == bind_sensor(making.zone, TripSensor)
        trip == ConfigTrip(cdevs, sensors, WantedTrip, TripSensor)
    IN /\ TripStep /\ making.place = 0
       /\ making' = [making EXCEPT !.trip = @ + 1, !.on = TripSensor # 0,
                        !.zone = IF TripSensor = 0 THEN @
                                 ELSE IF WantedTrip.temp = 0 THEN z
                                 ELSE [z EXCEPT !.trips = Append(@, trip)]]
       /\ UNCHANGED <<zones, ktrip>>

(* A trip of a zone that exists.  With an unknown sensor only the           *)
(* temperature of a trip is taken.                                          *)
Place == making.place
Becomes(x) == zones' = [zones EXCEPT ![Place] = x.z] /\ ktrip' = x.k
UnknownSensorTrip ==
    /\ TripStep /\ Place # 0 /\ TripSensor = 0
    /\ making' = [making EXCEPT !.trip = @ + 1]
    /\ IF WantedTrip.temp = 0 THEN UNCHANGED <<zones, ktrip>>
       ELSE Becomes(update_trip_temp(machine, sensors, [z |-> zones[Place], k |-> ktrip], WantedTrip))
AddTrip ==
    LET trip == ConfigTrip(cdevs, sensors, WantedTrip, TripSensor)
    IN /\ TripStep /\ Place # 0 /\ TripSensor # 0 /\ WantedTrip.temp # 0
       /\ Becomes(add_trip(machine, sensors,
                           [z |-> bind_sensor(zones[Place], TripSensor), k |-> ktrip], trip))
       /\ making' = [making EXCEPT !.trip = @ + 1, !.on = @ \/ trip.cdevs # {}]
(* A trip without a temperature binds its devices to the first of its type. *)
BindCdevs ==
    LET es == Asked(cdevs, WantedTrip)
        z == bind_sensor(zones[Place], TripSensor)
        binds == /\ \E j \in DOMAIN z.trips : z.trips[j].type = WantedTrip.type
                 /\ \E j \in DOMAIN es : es[j].cdev # 0
    IN /\ TripStep /\ Place # 0 /\ TripSensor # 0 /\ WantedTrip.temp = 0
       /\ Becomes([z |-> bind_cooling_device(cdevs, z, WantedTrip.type, es), k |-> ktrip])
       /\ making' = [making EXCEPT !.trip = @ + 1, !.on = @ \/ binds]

ZoneDone ==
    /\ setupPhase = "config" /\ making.trip # 0 /\ making.trip \notin DOMAIN Wanted.trips
    /\ making' = Idle /\ at' = at + 1
    /\ UNCHANGED <<files, setupPhase, cdevs, outside>>
EndsAs(r) ==
    LET done == disable_cpu_zone(r, Wanted, UsesGenerated)
    IN sensors' = done.s /\ zones' = done.zs
EndNewZone ==
    LET x == Updated(sensors, making.zone, <<>>)
    IN /\ ZoneDone /\ Place = 0 /\ making.on /\ making.zone.trips # <<>>
       /\ EndsAs(Registered(Registry, x))
       /\ ktrip' = x.k /\ next' = [next EXCEPT !.zone = making.zone.index + 1]
EndOldZone ==
    /\ ZoneDone /\ (Place # 0 \/ ~making.on \/ making.zone.trips = <<>>)
    /\ EndsAs(IF Place # 0 /\ making.on THEN SetActive(Registry, Place, TRUE) ELSE Registry)
    /\ UNCHANGED <<ktrip, next>>

(* Without a zone the start fails.                                          *)
EndConfig ==
    /\ setupPhase = "config" /\ making = Idle /\ at \notin DOMAIN config.zones
    /\ setupPhase' = IF zones = <<>> THEN "down" ELSE "run"
    /\ at' = 0
    /\ UNCHANGED <<files, making, sensors, cdevs, zones, next, ktrip, outside>>

-----------------------------------------------------------------------------
(* D-Bus requests.                                                          *)
DBusRequest ==
    /\ setupPhase = "run" /\ setupRequests < MaxUserRequests /\ setupRequests' = setupRequests + 1
    /\ UNCHANGED <<files, setupPhase, cursor, starts>>

(* q.sysfs: the path is one below /sys/.  The name has to be the very one.  *)
Exactly(n) == First(sensors, LAMBDA x : x.name = n)
user_add_sensor(q) ==
    LET p == Exactly(q.name)
    IN \/ /\ q.sysfs /\ p # 0
          /\ sensors' = [sensors EXCEPT ![p].moved = TRUE] /\ UNCHANGED next
       \/ /\ q.sysfs /\ p = 0 /\ q.path \in machine.paths
          /\ sensors' = Append(sensors, Sensor(q.name, next.sensor, "raw"))
          /\ next' = [next EXCEPT !.sensor = @ + 1]
       \/ /\ ~q.sysfs \/ (p = 0 /\ q.path \notin machine.paths)
          /\ UNCHANGED <<sensors, next>>
AddSensor(q) == DBusRequest /\ user_add_sensor(q) /\ UNCHANGED <<cdevs, zones, ktrip, psv, kept>>

(* A virtual sensor that is there gets one more sensor to depend on.        *)
user_add_virtual_sensor(n, dep) ==
    LET p == Exactly(n)
        more == sensors[p].kind = "virtual" /\ search_sensor(sensors, dep) # 0
    IN \/ p # 0 /\ more /\ sensors' = [sensors EXCEPT ![p].links = @ + 1] /\ UNCHANGED next
       \/ p # 0 /\ ~more /\ UNCHANGED <<sensors, next>>
       \/ /\ p = 0
          /\ sensors' = Append(sensors, [Sensor(n, next.sensor, "virtual") EXCEPT !.links = 1])
          /\ next' = [next EXCEPT !.sensor = @ + 1]
AddVirtualSensor(n, dep) ==
    DBusRequest /\ user_add_virtual_sensor(n, dep) /\ UNCHANGED <<cdevs, zones, ktrip, psv, kept>>

user_add_cdev(q) ==
    LET r == add_replace_cdev(machine, [c |-> cdevs, n |-> next.cdev], q)
        p == search_cdev(cdevs, q.type)
    IN IF p # 0 THEN cdevs' = [cdevs EXCEPT ![p] = Limited(@, q.min, q.max)] /\ UNCHANGED next
       ELSE cdevs' = r.c /\ next' = [next EXCEPT !.cdev = r.n]
AddCoolingDevice(q) == DBusRequest /\ user_add_cdev(q) /\ UNCHANGED <<sensors, zones, ktrip, psv, kept>>

(* cthd_zone_dynamic: one passive trip with one device.                     *)
DynamicZone(q, i, s, p) ==
    [Zone(q.name, i, FALSE) EXCEPT !.bound = <<s>>,
        !.trips = <<trip_cdev_add(cdevs, Trip("PASSIVE", q.temp, sensors[s].index),
                                  <<Driven(p, 100, NoTarget)>>)>>]
user_add_zone(q) ==
    LET s == search_sensor(sensors, q.sensor)
        p == search_cdev(cdevs, q.cdev)
    IN IF s = 0 \/ p = 0 THEN UNCHANGED <<sensors, zones, next, ktrip>>
       ELSE Registers(DynamicZone(q, next.zone, s, p))
AddZone(q) == DBusRequest /\ user_add_zone(q) /\ UNCHANGED <<cdevs, psv, kept>>

user_set_zone_status(i, on) ==
    LET r == SetActive(Registry, i, on) IN sensors' = r.s /\ zones' = r.zs
SetZoneStatus(n, on) ==
    /\ DBusRequest /\ get_zone(zones, n) # 0 /\ user_set_zone_status(get_zone(zones, n), on)
    /\ UNCHANGED <<cdevs, next, ktrip, psv, kept>>

(* The destructors of kernel zones write the trips they first read.         *)
RestoredNone(k, zs) == k   \* mutant: the destructor does not write
Restored(k, zs) ==
    LET own(n) == {i \in DOMAIN zs : zs[i].kernel /\ zs[i].index = n /\ zs[i].initial >= 0}
    IN [n \in DOMAIN k |-> IF own(n) = {} THEN k[n] ELSE zs[CHOOSE i \in own(n) : TRUE].initial]

DeleteZone(n) ==
    LET i == get_zone(zones, n)
    IN /\ DBusRequest /\ i # 0
       /\ zones' = RemoveAt(zones, i)
       /\ ktrip' = Restored(ktrip, <<zones[i]>>)
       /\ kept' = IF zones[i].kernel THEN kept \ {zones[i].index} ELSE kept
       /\ UNCHANGED <<sensors, cdevs, next, psv>>

(* user_set_psv_temp only stores the value, for the next start.             *)
SetPsv(q) ==
    /\ DBusRequest /\ get_zone(zones, q.zone) # 0
    /\ psv' = [x \in DOMAIN psv \cup {q.zone} |-> IF x = q.zone THEN q.temp ELSE psv[x]]
    /\ UNCHANGED <<sensors, cdevs, zones, next, ktrip, kept>>

-----------------------------------------------------------------------------
Gone ==
    /\ setupPhase' = "down" /\ config' = NoInfo /\ at' = 0 /\ making' = Idle
    /\ sensors' = <<>> /\ cdevs' = <<>> /\ zones' = <<>> /\ next' = NoIndex
    /\ UNCHANGED <<machine, auto, psv, setupRequests, starts>>
StopDaemon == setupPhase = "run" /\ ktrip' = Restored(ktrip, zones) /\ UNCHANGED kept /\ Gone
CrashDaemon ==
    /\ setupPhase # "down" /\ UNCHANGED ktrip /\ Gone
    /\ kept' = kept \ {zones[i].index : i \in {i \in DOMAIN zones : zones[i].kernel}}
Start ==
    /\ setupPhase = "down" /\ starts < MaxStarts
    /\ setupPhase' = "boot" /\ starts' = starts + 1
    /\ UNCHANGED <<files, cursor, sensors, cdevs, zones, next, ktrip, psv, kept, setupRequests>>

ZoneNames == {zones[i].type : i \in DOMAIN zones}
StartStep ==
    \/ Generate \/ EndGenerate \/ Configure
    \/ ReadSensors \/ ReadConfigSensor \/ EndSensors
    \/ ReadCdevs \/ ReadConfigCdev \/ EndCdevs
    \/ ReadKernelZone \/ ReadProcessorZone \/ ReadCpuZone \/ ReadNoCpuZone
    \/ BeginZone \/ NewZoneTrip \/ UnknownSensorTrip \/ AddTrip \/ BindCdevs
    \/ EndNewZone \/ EndOldZone \/ EndConfig
RequestStep ==
    \/ \E q \in SensorRequests : AddSensor(q) \/ AddVirtualSensor(q.name, q.dep)
    \/ \E q \in CdevRequests : AddCoolingDevice(q)
    \/ \E q \in ZoneRequests : AddZone(q)
    \/ \E q \in PsvRequests : SetPsv(q)
    \/ \E n \in ZoneNames : DeleteZone(n) \/ \E on \in BOOLEAN : SetZoneStatus(n, on)
SetupNext == StartStep \/ RequestStep \/ StopDaemon \/ CrashDaemon \/ Start

SetupSpec == SetupInit /\ [][SetupNext]_setupVars

-----------------------------------------------------------------------------
(* read_zone_temp: the sensor indices under which the trips of a zone get a *)
(* reading.  Each sensor has its own, but the highest of correlated sensors *)
(* comes under the index of the first.                                      *)
read_zone_temp(z) ==
    {sensors[z.bound[b]].index : b \in {b \in DOMAIN z.bound : z.corelated => b = 1}}

(* Every trip of a zone, wherever it came from, is compared with a reading  *)
(* the zone takes, and the devices it drives are registered: a trip drops   *)
(* the readings of sensors it does not name.  The zone of correlated        *)
(* sensors, the daemon's cpu zone, has two kinds of trips that are never    *)
(* compared: the polling trips of its further sensors, and trips that a     *)
(* configuration adds to it for one of them.                                *)
TripsReachable ==
    setupPhase = "run" =>
        \A i \in DOMAIN zones : \A j \in DOMAIN zones[i].trips :
            LET z == zones[i]
                t == z.trips[j]
            IN /\ \/ t.sensor = AnySensor
                  \/ t.sensor \in read_zone_temp(z)
                  \/ /\ z.corelated /\ \E b \in DOMAIN z.bound : sensors[z.bound[b]].index = t.sensor
                     /\ \/ t.type = "POLLING"
                        \/ \E k \in DOMAIN config.zones : config.zones[k].type = "cpu"
               /\ \A e \in t.cdevs : e.cdev \in DOMAIN cdevs

(* A kernel zone that is the first readable one of its name, but not the    *)
(* first: the zones before it are bound to its sensor too and write its     *)
(* threshold before its own object reads the firmware's.                    *)
Shadowed(m) ==
    LET alike(j) == {i \in 1..(j - 1) : SameName(m.kzones[i].type, m.kzones[j].type)}
    IN {m.kzones[j].n : j \in {j \in DOMAIN m.kzones :
            alike(j) # {} /\ \A i \in alike(j) : ~m.kzones[i].readable}}

(* A daemon that stopped leaves the writable trip of a kernel zone as the   *)
(* firmware set it, unless an object of the zone was deleted or died in a   *)
(* crash before, or the zone is a shadowed one.                             *)
FirmwareTripsRestored ==
    setupPhase = "down" =>
        \A n \in kept \ Shadowed(machine) : ktrip[n] = FirmwareTrips(machine)[n]

(* A relation of the TRT survives generate_conf, the parser and the zones:  *)
(* the zone of its target is active and has a passive trip that drives its  *)
(* source.                                                                  *)
RelationsBound ==
    setupPhase = "run" /\ setupRequests = 0 /\ auto = "whole" /\ "passive1" \in machine.fw.uuids =>
        \A k \in DOMAIN machine.fw.trt :
            LET r == machine.fw.trt[k]
                i == search_zone(zones, subtitute_source(r.target))
                p == search_cdev(cdevs, subtitute_target(machine.fw, r.source))
            IN i # 0 /\ p # 0 /\ (\E j \in DOMAIN zones[i].trips : zones[i].trips[j].type = "PASSIVE")
               => /\ zones[i].active
                  /\ \E j \in DOMAIN zones[i].trips :
                         /\ zones[i].trips[j].type = "PASSIVE"
                         /\ \E e \in zones[i].trips[j].cdevs : cdevs[e.cdev].type = cdevs[p].type

=============================================================================
