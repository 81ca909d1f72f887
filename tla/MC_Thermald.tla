---------------------------- MODULE MC_Thermald -----------------------------
EXTENDS Thermald, TLC

(* The engine: three zones, two of them on sensors that share a bit of the  *)
(* masks, with indices that a misread message takes for THERMAL_ZONE_NOTIFY *)
(* and RELOAD_ZONES, and two kernel zones with different policies.          *)
MCSensorList == <<3, 4, 36>>
MCKernelZones == <<"thermal_zone0", "thermal_zone1">>
MCPolicy0 == <<"step_wise", "power_allocator">>
MCIntervals == {0, 4}

-----------------------------------------------------------------------------
(* Firmware tables in the shape the MiniBook's firmware has them: targets    *)
(* for hot, battery and closed-lid use, one target whose table is missing,   *)
(* one with an override, actions of participants that take none, tables      *)
(* without conditions, tables with a condition the daemon does not support,  *)
(* and tables with an exact and a greatest FOR time.                         *)
Cond(k, c, a, t) == [kind |-> k, cmp |-> c, arg |-> a, time |-> 0, tcmp |-> "EQUAL", target |-> t]
For(c, n) == [c EXCEPT !.time = n, !.tcmp = "GREATER_OR_EQUAL"]
Act(t, c, a, z) == [target |-> t, code |-> c, arg |-> a, num |-> TRUE, zone |-> z]
Table(t, c, a, z) == [Act(t, c, a, z) EXCEPT !.num = FALSE]
Psv(z, c, t, l, p) == [zone |-> z, cdev |-> c, temp |-> t, limit |-> l, power |-> p]

MCZones == {"SEN3", "TCPU", "SOC", "CHARGER"}
MCCdevs == {"B0D4", "rapl_controller_mmio"}
AdaptiveTrip(type, temp, cdev) == [type |-> type, temp |-> temp, cdev |-> cdev, target |-> -1]
MCBoot == [z \in MCZones |->
    IF z = "TCPU" THEN <<AdaptiveTrip("PASSIVE", 95, "B0D4"), AdaptiveTrip("POLLING", 86, "none")>> ELSE <<>>]
MCEnvValues == [Temperature |-> {40, 70}, Power_source |-> {0, 1}, Lid_state |-> {0, 1}, Battery |-> {50}]
MCEnv0 == [Temperature |-> 40, Power_source |-> 0, Lid_state |-> 1, Battery |-> 50]

PsvTables ==
    [d |-> <<Psv("B0D4", "TCPU", 90, "MAX", 0), Psv("SEN3", "TCPU", 70, "MAX", 0),
             Psv("SEN3", "TCPU", 49, "", 10)>>,
     hot |-> <<Psv("TCPU", "TCPU", 75, "MAX", 0), Psv("TCPU", "TCPU", 80, "", 8),
               Psv("SEN9", "TCPU", 60, "MIN", 0)>>]

Full ==
    [apct |-> << <<For(Cond("Temperature", "GREATER_OR_EQUAL", 60, 1), 5)>>,
                 <<For(Cond("Lid_state", "NOT_EQUAL", 0, 2), 4), For(Cond("Power_source", "EQUAL", 1, 2), 5)>>,
                 <<Cond("Lid_state", "LESSER_OR_EQUAL", 0, 3), Cond("OS_type", "EQUAL", 3, 3)>>,
                 <<Cond("Power_source", "GREATER_THAN", 0, 4)>> >>,
     apat |-> <<Table(1, "ITMT", "missing", "IETM"), Table(1, "PSVT", "hot", "TCPU"), Act(1, "PL1MAX", 8, "TCPU"),
                Table(2, "ITMT", "it", "IETM"), Act(2, "PL1PowerLimit", 6, "TCPU"),
                Act(3, "PL1MAX", 12, "TCPU"), Table(3, "PSVT", "missing", "TCPU"), Table(3, "ITMT", "it", "TCPU"),
                Table(4, "PSVT", "hot", "TCPU"), Act(4, "PSV", 65, "IETM"), Act(4, "PL1MAX", 9, "SEN9")>>,
     psvts |-> [x \in {"IETM.D0", "hot"} |-> IF x = "hot" THEN PsvTables.hot ELSE PsvTables.d],
     itmts |-> [x \in {"it"} |-> <<[zone |-> "TCPU", temp |-> 85]>>],
     pbct |-> << <<Cond("Battery", "LESSER_OR_EQUAL", 0, 7), Cond("Power_source", "EQUAL", 1, 7)>> >>,
     pbat |-> <<Act(7, "PL1PowerLimit", 5, "TCPU")>>]

MCGddvs ==
    {Full,
     [Full EXCEPT !.apct = <<>>],
     [Full EXCEPT !.apct = << <<Cond("Motion", "EQUAL", 1, 1)>> >>],
     [Full EXCEPT !.apct = << <<Cond("Motion", "EQUAL", 1, 1)>> >>, !.apat = <<>>],
     [Full EXCEPT !.apct = << <<Cond("Motion", "EQUAL", 1, 1)>> >>, !.apat = <<>>,
                  !.psvts = [x \in {"hot"} |-> PsvTables.hot]],
     [Full EXCEPT !.psvts = [x \in {"hot"} |-> PsvTables.hot]],
     [Full EXCEPT !.apct[1][1].tcmp = "EQUAL"],
     [Full EXCEPT !.apct[4] = <<[Cond("Power_source", "EQUAL", 0, 4) EXCEPT !.time = 4, !.tcmp = "LESSER_OR_EQUAL"]>>,
                  !.apct[1] = <<Cond("Motion", "EQUAL", 1, 1)>>, !.apat = <<>>]}

-----------------------------------------------------------------------------
(* Five machines: one with TRT and ART tables, one with a PSVT table only,  *)
(* one with a thermal-conf.xml of two platforms, one with two package       *)
(* sensors, and one with nothing but core temperatures and a configured cpu *)
(* zone.                                                                    *)
KZone(n, t, ts, binds) ==
    [n |-> n, type |-> t, readable |-> TRUE, trips |-> ts, binds |-> binds]
KTrip(t, temp, w) == [type |-> t, temp |-> temp, writable |-> w]
KCdev(n, t) == [n |-> n, type |-> t, ok |-> TRUE]
NoTables == [trt |-> <<>>, art |-> <<>>, psvt |-> <<>>, uuids |-> {}, uids |-> <<>>]
Trt(s, t) == [source |-> s, target |-> t, influence |-> 50, period |-> 100]

BareMachine ==
    [kzones |-> <<KZone(0, "x86_pkg_temp", <<KTrip("PASSIVE", 0, TRUE)>>, <<>>), KZone(1, "soc_dts0", <<>>, <<>>)>>,
     kcdevs |-> <<>>, coretemp |-> [inputs |-> 2, crit |-> 100, max |-> 80],
     devices |-> {"rapl_controller", "cpufreq"}, dmi |-> [uuid |-> "", name |-> "", sku |-> ""],
     fw |-> NoTables, doc |-> NoDoc, confAuto |-> NoDoc, paths |-> {"p1"}, int3400 |-> FALSE,
     poll0 |-> FALSE]

Relations ==
    [BareMachine EXCEPT
        !.kzones = << KZone(0, "acpitz", <<KTrip("CRITICAL", 105, FALSE)>>, <<>>),
                      KZone(1, "TCPU", <<KTrip("PASSIVE", 110, TRUE), KTrip("PASSIVE", 100, FALSE)>>,
                            <<[trip |-> 0, cdev |-> 1]>>),
                      KZone(3, "SEN1", <<KTrip("PASSIVE", 60, FALSE), KTrip("ACTIVE", 50, FALSE)>>, <<>>),
                      KZone(4, "x86_pkg_temp", <<KTrip("PASSIVE", 0, TRUE)>>, <<>>) >>,
        !.kcdevs = <<KCdev(0, "Processor"), KCdev(1, "Fan"), KCdev(2, "intel_powerclamp")>>,
        !.devices = {"rapl_controller", "rapl_controller_mmio", "intel_pstate", "rapl_controller_dram", "LCD"},
        !.dmi = [uuid |-> "u1", name |-> "MiniBook X", sku |-> "s1"],
        !.fw = [trt |-> <<Trt("TCPU", "TCPU"), Trt("TCPU", "SEN1"), Trt("DPLY", "SEN1"), Trt("2", "SEN1")>>,
                art |-> <<[source |-> "TFN1", target |-> "SEN1", weight |-> 100]>>, psvt |-> <<>>,
                uuids |-> {"passive1", "active"}, uids |-> ("1" :> "INT3401" @@ "2" :> "INT3402")],
        !.poll0 = TRUE]

Psvt(s, l, v) == [source |-> s, target |-> "SEN1", temp |-> 70, limit |-> l, value |-> v, period |-> 50]
Passive2 ==
    [Relations EXCEPT
        !.fw = [trt |-> <<>>, art |-> <<>>, uuids |-> {"passive2"}, uids |-> <<>>,
                psvt |-> <<Psvt("TCPU", "MAX", 0), Psvt("TCPU", "value", 9), Psvt("DPLY", "other", 0)>>],
        !.dmi.name = "", !.int3400 = TRUE]

Trips == << [Type |-> "PASSIVE", Temperature |-> 75, SensorType |-> "SEN1",
             CoolingDevices |-> <<[Type |-> "Fan", Influence |-> 100]>>],
            [Type |-> "PASSIVE", Temperature |-> 80, SensorType |-> "virt",
             CoolingDevices |-> <<[Type |-> "mycdev", TargetState |-> 3]>>] >>
Configured ==
    [Relations EXCEPT
        !.fw = NoTables, !.paths = {"p1", "p2"}, !.devices = @ \cup {"power"},
        !.doc = << [ProductName |-> "Other", ProductSku |-> "s9",
                    ThermalSensors |-> <<[Type |-> "early", Path |-> "p1"]>>],
                   [ProductName |-> "MiniBook X", ProductSku |-> "s1",
                    ThermalSensors |-> << [Type |-> "SEN1", AsyncCapable |-> "yes"],
                        [Type |-> "virt", Virtual |-> TRUE, LinkSensors |-> <<[SensorType |-> "SEN1"], [SensorType |-> "TCPU"]>>],
                        [Type |-> "gone", Path |-> "p9"] >>,
                    CoolingDevices |-> << [Type |-> "mycdev", Path |-> "p2", MaxState |-> 5],
                                          [Type |-> "Fan", MaxState |-> 7] >>,
                    ThermalZones |-> << [Type |-> "SEN1", TripPoints |-> Append(Trips, [Type |-> "ACTIVE", Temperature |-> 45, SensorType |-> "SEN1"])],
                        [Type |-> "skin", TripPoints |-> Append(Trips, [Type |-> "ACTIVE", Temperature |-> 40, SensorType |-> "early"])],
                        [Type |-> "acpitz", TripPoints |-> <<[Type |-> "CRITICAL", Temperature |-> 99, SensorType |-> "none"]>>] >>] >>]

(* A configuration that adds a trip for another sensor to the cpu zone.     *)
CpuConfigured ==
    [BareMachine EXCEPT !.kzones = <<>>, !.dmi.name = "MiniBook X",
        !.doc = << [ProductName |-> "MiniBook X", ThermalSensors |-> <<[Type |-> "early", Path |-> "p1"]>>,
                    ThermalZones |-> << [Type |-> "cpu", TripPoints |->
                        <<[Type |-> "PASSIVE", Temperature |-> 75, SensorType |-> "early",
                           CoolingDevices |-> <<[Type |-> "cpufreq"]>>]>>] >>] >>]

MCMachines == {BareMachine, Relations, Passive2, Configured, CpuConfigured}
MCSensorRequests == {[name |-> "mine", path |-> "p1", sysfs |-> TRUE, dep |-> "SEN1"],
                     [name |-> "SEN1", path |-> "p1", sysfs |-> TRUE, dep |-> "TCPU"],
                     [name |-> "other", path |-> "p1", sysfs |-> FALSE, dep |-> "none"]}
MCZoneRequests == {[name |-> "user", temp |-> 65, sensor |-> s, cdev |-> "rapl_controller"] : s \in {"mine", "SEN1", "hwmon"}}
MCPsv == {[zone |-> "SEN1", temp |-> 55], [zone |-> "cpu", temp |-> 70]}
MCCdevRequests == {[type |-> "pump", path |-> "p1", min |-> 0, max |-> 4],
            [type |-> "Fan", path |-> "", min |-> Unset, max |-> 3]}
=============================================================================
