--------------------------- MODULE ThermalObjects ---------------------------
(***************************************************************************)
(* How thermald builds its sensors, cooling devices and zones from the      *)
(* kernel, the firmware and the configuration.  Objects are named by their  *)
(* place in the engine's vectors (the code's pointers).  m is the machine,  *)
(* s the sensors, cs the cooling devices, zs the zones, k the kernel's      *)
(* writable trips and user the stored passive temperatures.                 *)
(***************************************************************************)
EXTENDS ThermalConf

Inf == 1000             \* stands for INT32_MAX
MinPassive == 90        \* processor_thermal_min_passive
AnySensor == -1         \* DEFAULT_SENSOR_ID

-----------------------------------------------------------------------------
(* Lookups.                                                                 *)
Pch == {"pch_wildcat_point", "pch_cannonlake"}
SameName(a, b) == a = b \/ (a \in Pch /\ b \in Pch)
search_sensor(s, n) == First(s, LAMBDA x : SameName(x.name, n))
search_zone(zs, n) == First(zs, LAMBDA x : SameName(x.type, n))
search_cdev(cs, n) == First(cs, LAMBDA x : x.type = n \/ x.alias = n)
get_zone(zs, n) == First(zs, LAMBDA x : x.type = n)
thd_get_cdev_at_index(cs, i) == First(cs, LAMBDA x : x.index = i)

Largest(s) == CHOOSE n \in {s[i].n : i \in DOMAIN s} : \A i \in DOMAIN s : s[i].n <= n
NextIndex(all, loaded) == IF loaded = <<>> THEN 0 ELSE Largest(all) + 1

-----------------------------------------------------------------------------
(* Sensors: [name, index, kind, async, links, polling, moved]; the path of  *)
(* a moved sensor is one a user gave.                                       *)
Sensor(n, i, kind) ==
    [name |-> n, index |-> i, kind |-> kind, async |-> FALSE, links |-> 0, polling |-> FALSE,
     moved |-> FALSE]

thd_read_default_thermal_sensors(m) ==
    Each(LAMBDA kz : Sensor(kz.type, kz.n, "sysfs"),
         Only(m.kzones, {i \in DOMAIN m.kzones : m.kzones[i].readable}))

SetAsync(s, p) == [s EXCEPT ![p].async = TRUE]

(* The sensors of the kernel and of hwmon; r is [s, n], the sensors and the *)
(* next index.                                                              *)
FastSensors == {"pkg-temp-0", "x86_pkg_temp", "soc_dts0"}
DefaultSensors(m) ==
    LET kernel == thd_read_default_thermal_sensors(m)
        base == NextIndex(m.kzones, kernel)
        known == [p \in DOMAIN kernel |->
                     [kernel[p] EXCEPT !.async = \E n \in FastSensors : search_sensor(kernel, n) = p]]
    IN [s |-> known \o [i \in 1..m.coretemp.inputs |-> Sensor("hwmon", base + i - 1, "raw")],
        n |-> base + m.coretemp.inputs]

(* One ThermalSensor of the configuration.                                  *)
ConfigSensor(m, r, c) ==
    LET p == search_sensor(r.s, c.name)
        power == \E i \in DOMAIN c.links : c.links[i].power
        meter == IF power /\ search_sensor(r.s, "rapl_pkg_power") = 0 /\ "power" \in m.devices
                 THEN <<Sensor("rapl_pkg_power", r.n, "power")>> ELSE <<>>
        count == IF c.links # <<>> THEN Len(c.links) ELSE IF c.link # "" THEN 1 ELSE 0
    IN CASE p # 0 /\ c.async # "unset" -> [r EXCEPT !.s[p].async = (c.async = "yes")]
         [] p = 0 /\ c.virtual ->
              [s |-> (r.s \o meter) \o <<[Sensor(c.name, r.n, "virtual") EXCEPT !.links = count]>>,
               n |-> r.n + Len(meter) + 1]
         [] p = 0 /\ ~c.virtual /\ c.path \in m.paths ->
              [s |-> Append(r.s, Sensor(c.name, r.n, "raw")), n |-> r.n + 1]
         [] OTHER -> r

-----------------------------------------------------------------------------
(* Cooling devices: [type, alias, index, path, min, max]; r is [c, n].      *)
Cdev(t, i, path) == [type |-> t, alias |-> "", index |-> i, path |-> path, min |-> 0, max |-> 10]

thd_read_default_cooling_devices(m) ==
    Each(LAMBDA k : Cdev(k.type, k.n, "thermal"),
         Only(m.kcdevs, {i \in DOMAIN m.kcdevs : m.kcdevs[i].ok}))

AddOwn(m, r, t) ==    \* a device the daemon drives itself, if update succeeds
    IF t \notin m.devices THEN r ELSE [c |-> Append(r.c, Cdev(t, r.n, "own")), n |-> r.n + 1]

Limited(c, min, max) ==
    [c EXCEPT !.min = IF min = Unset THEN @ ELSE min, !.max = IF max = Unset THEN @ ELSE max]

add_replace_cdev(m, r, d) ==
    LET p == search_cdev(r.c, d.type)
        present == p # 0 /\ (d.path = "" \/ d.path = r.c[p].path)
    IN CASE present -> [r EXCEPT !.c[p] = Limited(@, d.min, d.max)]
         [] ~present /\ d.path \in m.paths ->
              [c |-> Append(r.c, Limited(Cdev(d.type, r.n, d.path), d.min, d.max)), n |-> r.n + 1]
         [] OTHER -> r

(* The alias B0D4 names the RAPL device, the MMIO one when there is one.    *)
AliasB0D4(cs) ==
    LET mmio == search_cdev(cs, "rapl_controller_mmio")
        msr == search_cdev(cs, "rapl_controller")
        p == IF mmio # 0 THEN mmio ELSE msr
    IN IF p = 0 THEN cs ELSE [cs EXCEPT ![p].alias = "B0D4"]

(* The devices of the kernel and the daemon's own.                          *)
DefaultCdevs(m, conf) ==
    LET kernel == thd_read_default_cooling_devices(m)
        rapl == AddOwn(m, [c |-> kernel, n |-> NextIndex(m.kcdevs, kernel)], "rapl_controller")
        mmio == IF conf = NoInfo THEN rapl ELSE AddOwn(m, rapl, "rapl_controller_mmio")
        pstate == AddOwn(m, [mmio EXCEPT !.c = AliasB0D4(@)], "intel_pstate")
        dram == AddOwn(m, AddOwn(m, pstate, "cpufreq"), "rapl_controller_dram")
    IN IF search_cdev(dram.c, "LCD") # 0 THEN dram ELSE AddOwn(m, dram, "LCD")

-----------------------------------------------------------------------------
(* Zones: [type, index, kernel, active, bound, trips, initial, corelated]   *)
(* with trips [type, temp, sensor, cdevs] and their devices [cdev,          *)
(* influence, target]; corelated is sensor_rel = SENSORS_CORELATED.         *)
Zone(t, i, kernel) == [type |-> t, index |-> i, kernel |-> kernel, active |-> FALSE,
                       bound |-> <<>>, trips |-> <<>>, initial |-> -1, corelated |-> FALSE]
Trip(t, temp, sensor) == [type |-> t, temp |-> temp, sensor |-> sensor, cdevs |-> {}]
Driven(p, influence, target) == [cdev |-> p, influence |-> influence, target |-> target]

(* trip_cdev_add for each of the devices es in turn (0: no such device): a  *)
(* device of a type already there only changes its influence.               *)
trip_cdev_add(cs, trip, es) ==
    LET new == {i \in DOMAIN es : es[i].cdev # 0}
        alike(e) == {i \in new : cs[es[i].cdev].type = cs[e.cdev].type}
        first == {i \in new : /\ \A e \in trip.cdevs : i \notin alike(e)
                              /\ \A j \in alike(es[i]) : i <= j}
        latest(e) == IF alike(e) = {} THEN e.influence
                     ELSE es[CHOOSE i \in alike(e) : \A j \in alike(e) : j <= i].influence
    IN [trip EXCEPT !.cdevs = {[e EXCEPT !.influence = latest(e)] : e \in @ \cup {es[i] : i \in first}}]

bind_sensorOne(z, p) == IF z.bound # <<>> THEN z ELSE [z EXCEPT !.bound = <<p>>]   \* mutant
bind_sensor(z, p) ==
    IF \E b \in DOMAIN z.bound : z.bound[b] = p THEN z ELSE [z EXCEPT !.bound = Append(@, p)]

(* set_threshold, for each sensor of a zone, writes trip 0 of the kernel    *)
(* zone when there is no polling and the path still leads to one.           *)
set_threshold(m, s, k, bound, temp) ==
    LET written == {s[bound[b]].index : b \in {b \in DOMAIN bound :
                        m.poll0 /\ s[bound[b]].kind = "sysfs" /\ s[bound[b]].async
                        /\ ~s[bound[b]].moved}}
    IN [n \in DOMAIN k |-> IF n \in written THEN temp ELSE k[n]]

(* sort_and_update_poll_trip takes out one polling trip, sorts the others,  *)
(* and adds a polling trip for every sensor.  x is [z, k].                  *)
PollTrips(s, bound, temp) == [b \in DOMAIN bound |-> Trip("POLLING", temp, s[bound[b]].index)]

WithPolls(m, s, x, trips, temp) ==
    [z |-> [x.z EXCEPT !.trips = trips \o PollTrips(s, x.z.bound, temp)],
     k |-> set_threshold(m, s, x.k, x.z.bound, temp)]
sort_and_update_poll_trip(m, s, x) ==
    LET poll == First(x.z.trips, LAMBDA t : t.type = "POLLING")
        sorted == ByTemp(x.z.trips, DOMAIN x.z.trips \ {poll})
    IN IF sorted = <<>> THEN [x EXCEPT !.z.trips = <<>>]
       ELSE WithPolls(m, s, x, sorted, PollTemp(sorted[1].temp))

(* update_highest_trip_temp with the passive temperature a user stored; it  *)
(* sorts too.  In a zone with trips but no passive one the code's loop runs *)
(* off the front of the list: such zones are not asked for here.            *)
WithUserPsv(m, s, user, x) ==
    LET passives == {i \in DOMAIN x.z.trips : x.z.trips[i].type = "PASSIVE"}
        last == CHOOSE i \in passives : \A j \in passives : j <= i
    IN IF x.z.type \notin DOMAIN user \/ passives = {} THEN x
       ELSE sort_and_update_poll_trip(m, s, [x EXCEPT !.z.trips[last].temp = user[x.z.type]])

(* zone_update once the sensors are bound and the trips read; binds are the *)
(* devices read_cdev_trip_points adds.                                      *)
read_cdev_trip_points(cs, z, binds) ==
    LET of(j) == Each(LAMBDA b : Driven(IF b.trip + 1 = j THEN thd_get_cdev_at_index(cs, b.cdev) ELSE 0,
                                        0, NoTarget), binds)
    IN [z EXCEPT !.trips = [j \in DOMAIN @ |-> trip_cdev_add(cs, @[j], of(j))]]
zone_update(m, cs, user, s, x, binds) ==
    LET set == WithUserPsv(m, s, user, x)
    IN sort_and_update_poll_trip(m, s, [set EXCEPT !.z = read_cdev_trip_points(cs, @, binds)])

(* cthd_sysfs_zone: trips the daemon cannot write become trip points.       *)
SysfsZone(s, k, kz, p) ==
    LET fixed == Only(kz.trips, {i \in DOMAIN kz.trips : ~kz.trips[i].writable /\ kz.trips[i].temp > 0})
    IN [Zone(kz.type, kz.n, TRUE) EXCEPT !.bound = <<p>>,
           !.trips = IF fixed = <<>> THEN <<Trip("PASSIVE", Inf, s[p].index)>>
                     ELSE Each(LAMBDA t : Trip(t.type, t.temp, s[p].index), fixed),
           !.initial = IF kz.n \in DOMAIN k THEN k[kz.n] ELSE -1]
WithWritable(s, kz, p) ==
    IF \E i \in DOMAIN kz.trips : kz.trips[i].writable THEN SetAsync(s, p) ELSE s

(* set_zone_active and set_zone_inactive: the poll thread of the zone's     *)
(* first virtual sensor starts or ends.  r is [s, zs].                      *)
SetActive(r, i, on) ==
    LET v == First(r.zs[i].bound, LAMBDA p : r.s[p].kind = "virtual")
    IN [s |-> IF v = 0 THEN r.s ELSE [r.s EXCEPT ![r.zs[i].bound[v]].polling = on],
        zs |-> [r.zs EXCEPT ![i].active = on]]

(* bind_cooling_device with trip_temp 0, for each of the devices es: the    *)
(* first trip of the type.                                                  *)
bind_cooling_device(cs, z, type, es) ==
    LET t == First(z.trips, LAMBDA x : x.type = type /\ x.temp > 0)
    IN IF t = 0 THEN z ELSE [z EXCEPT !.trips[t] = trip_cdev_add(cs, @, es)]

Named(cs, names) == Each(LAMBDA n : Driven(search_cdev(cs, n), 100, NoTarget), names)

(* add_int340x_processor_dev: a processor zone of the firmware acts as the  *)
(* CPU zone when its passive trip is high; it is kept below _CRT.           *)
ProcessorZone(m, zs) ==
    LET names == <<"B0D4", "B0DB", "TCPU">>
        n == First(names, LAMBDA x : search_zone(zs, x) # 0 /\ (x = "B0D4" => m.int3400))
    IN IF n = 0 THEN 0 ELSE search_zone(zs, names[n])
HighPassive(z) == First(z.trips, LAMBDA t : t.type = "PASSIVE" /\ t.temp > MinPassive)
Critical(zs) ==
    LET a == search_zone(zs, "acpitz")
        c == IF a = 0 THEN 0 ELSE First(zs[a].trips, LAMBDA t : t.type = "CRITICAL")
    IN IF c = 0 THEN 0 ELSE zs[a].trips[c].temp

add_int340x_processor_dev(cs, zs, z) ==
    LET t == HighPassive(z)
        crit == Critical(zs)
        low == IF crit # 0 /\ z.trips[t].temp + 5 >= crit
               THEN [z EXCEPT !.trips[t].temp = crit - 15] ELSE z
    IN bind_cooling_device(cs, low, "PASSIVE",
                           Named(cs, <<"rapl_controller", "intel_pstate", "intel_powerclamp", "Processor">>))

(* cthd_zone_cpu: a passive trip half-way from max to critical.             *)
CpuTrips(m, cs) ==
    LET crit == IF m.coretemp.crit = 0 THEN 100 ELSE m.coretemp.crit
        max == IF m.coretemp.max = 0 \/ crit - m.coretemp.max < 10 THEN crit - 10 ELSE m.coretemp.max
        passive == trip_cdev_add(cs, Trip("PASSIVE", max + (crit - max) \div 2, AnySensor),
                       Named(cs, <<"rapl_controller", "intel_pstate", "intel_powerclamp", "cpufreq", "Processor">>))
        fan == trip_cdev_add(cs, Trip("ACTIVE", max, AnySensor), Named(cs, <<"Fan">>))
    IN IF fan.cdevs = {} THEN <<passive>> ELSE <<passive, fan>>

CpuSensors(s) ==
    LET fast == [i \in 1..3 |-> search_sensor(s, <<"pkg-temp-0", "x86_pkg_temp", "soc_dts0">>[i])]
        found == Only(fast, {i \in 1..3 : fast[i] # 0})
        hwmon == search_sensor(s, "hwmon")
    IN IF found # <<>> THEN found ELSE IF hwmon = 0 THEN <<>> ELSE <<hwmon>>

CpuZone(m, cs, s, n) ==
    [Zone("cpu", n, FALSE) EXCEPT !.corelated = TRUE, !.bound = CpuSensors(s), !.trips = CpuTrips(m, cs)]

(* A trip of the configuration with its devices; p is its sensor.           *)
Asked(cs, t) == Each(LAMBDA c : Driven(search_cdev(cs, c.type), c.influence, c.target), t.cdevs)
ConfigTrip(cs, s, t, p) == trip_cdev_add(cs, Trip(t.type, t.temp, s[p].index), Asked(cs, t))

(* add_trip replaces the first trip of its type, update_trip_temp only its  *)
(* temperature; both sort again.                                            *)
add_trip(m, s, x, trip) ==
    LET j == First(x.z.trips, LAMBDA t : t.type = trip.type)
    IN sort_and_update_poll_trip(m, s,
           [x EXCEPT !.z.trips = IF j = 0 THEN Append(@, trip) ELSE [@ EXCEPT ![j] = trip]])
update_trip_temp(m, s, x, t) ==
    LET j == First(x.z.trips, LAMBDA y : y.type = t.type)
    IN sort_and_update_poll_trip(m, s, IF j = 0 THEN x ELSE [x EXCEPT !.z.trips[j].temp = t.temp])

(* disable_cpu_zone: a generated configuration, or one that uses the B0D4   *)
(* sensor in an active zone, takes over from the default CPU zone.          *)
disable_cpu_zone(r, c, generated) ==
    LET cpu == search_zone(r.zs, "cpu")
        z == search_zone(r.zs, c.type)
        takes == z # 0 /\ r.zs[z].active
                 /\ \E i \in DOMAIN c.trips : LET p == search_sensor(r.s, c.trips[i].sensor)
                                              IN p # 0 /\ r.s[p].name = "B0D4"
    IN IF cpu # 0 /\ (generated \/ takes) THEN SetActive(r, cpu, FALSE) ELSE r
=============================================================================
