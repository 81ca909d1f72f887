----------------------------- MODULE ThermalConf -----------------------------
(***************************************************************************)
(* The configuration of thermald: thermal-conf.xml, or a file of the same   *)
(* form that the daemon generates from the firmware's relation tables (TRT, *)
(* ART, PSVT).  A document is a sequence of platforms.  An XML element is a *)
(* record that has only the fields the file gives; Star stands for the text *)
(* "*", which is not a number.  Temperatures are in degrees.                *)
(***************************************************************************)
EXTENDS Integers, Sequences, SequencesExt

NoTarget == -1
Star == -1
Unset == -1
Field(x, f, default) == IF f \in DOMAIN x THEN x[f] ELSE default
Each(op(_), s) == [i \in DOMAIN s |-> op(s[i])]
FirstIn(hits) ==      \* the least position in hits, or 0
    IF hits = {} THEN 0 ELSE CHOOSE i \in hits : \A j \in hits : i <= j
First(s, P(_)) == FirstIn({i \in DOMAIN s : P(s[i])})

(* The elements of s at the places S, in the order R on them (a set of      *)
(* pairs), and in their own order.                                          *)
Ranked(s, S, R) ==
    [p \in 1..Cardinality(S) |->
        s[CHOOSE i \in S : Cardinality({j \in S : <<j, i>> \in R}) = p - 1]]
Only(s, S) == Ranked(s, S, {r \in S \X S : r[1] < r[2]})

(* The trips of ts at the places S, sorted as sort_and_update_poll_trip does *)
(* it, and the temperature of the polling trip below the lowest.            *)
ByTemp(ts, S) ==
    Ranked(ts, S, {r \in S \X S : \/ ts[r[1]].temp < ts[r[2]].temp
                                  \/ ts[r[1]].temp = ts[r[2]].temp /\ r[1] < r[2]})
PollTemp(lowest) == lowest - (IF lowest \div 10 < 5 THEN 5 ELSE lowest \div 10)

(* A text that is not a number counts as 0.                                 *)
atoi(v) == IF v = Star \/ v \notin Int THEN 0 ELSE v

-----------------------------------------------------------------------------
(* Parsing one platform.                                                    *)
parse_new_trip_cdev(x) ==
    [type |-> Field(x, "Type", ""), influence |-> Field(x, "Influence", 0),
     period |-> Field(x, "SamplingPeriod", 0), target |-> Field(x, "TargetState", NoTarget)]

(* A trip without a type is an active one.                                  *)
parse_new_trip_point(x) ==
    [temp |-> atoi(Field(x, "Temperature", 0)), type |-> Field(x, "Type", "ACTIVE"),
     sensor |-> Field(x, "SensorType", ""),
     cdevs |-> Each(parse_new_trip_cdev, Field(x, "CoolingDevices", <<>>))]

parse_trip_points(xs) == Each(parse_new_trip_point, xs)

(* One thermal_zone_t, and one thermal_info_t, is filled again and again: a *)
(* field not given keeps the value of the last element that gave it.        *)
LastGiven(xs, i, f) ==
    LET given == {j \in 1..i : f \in DOMAIN xs[j]}
    IN IF given = {} THEN "" ELSE xs[CHOOSE j \in given : \A k \in given : k <= j][f]

parse_new_zone(xs, i) ==
    [type |-> LastGiven(xs, i, "Type"),
     trips |-> parse_trip_points(Field(xs[i], "TripPoints", <<>>))]
parse_thermal_zones(xs) == [i \in DOMAIN xs |-> parse_new_zone(xs, i)]

parse_new_virtual_sensor_target(x) ==
    [name |-> Field(x, "SensorType", ""), power |-> Field(x, "PowerSensor", FALSE)]

parse_new_sensor(x) ==
    [name |-> Field(x, "Type", ""), path |-> Field(x, "Path", ""),
     async |-> Field(x, "AsyncCapable", "unset"), virtual |-> Field(x, "Virtual", FALSE),
     link |-> Field(x, "SensorLink", ""),
     links |-> Each(parse_new_virtual_sensor_target, Field(x, "LinkSensors", <<>>))]

parse_new_cooling_dev(x) ==
    [type |-> Field(x, "Type", ""), path |-> Field(x, "Path", ""),
     min |-> Field(x, "MinState", Unset), max |-> Field(x, "MaxState", Unset),
     step |-> Field(x, "IncDecStep", Unset)]

(* parse_new_platform: zones and cooling devices are cleared for each       *)
(* platform, sensors are kept.                                              *)
SensorsOf(x) == Each(parse_new_sensor, Field(x, "ThermalSensors", <<>>))
parse_new_platform_info(doc, i) ==
    [uuid |-> LastGiven(doc, i, "UUID"), name |-> LastGiven(doc, i, "ProductName"),
     sku |-> LastGiven(doc, i, "ProductSku"),
     zones |-> parse_thermal_zones(Field(doc[i], "ThermalZones", <<>>)),
     sensors |-> FlattenSeq([j \in 1..i |-> SensorsOf(doc[j])]),
     cdevs |-> Each(parse_new_cooling_dev, Field(doc[i], "CoolingDevices", <<>>))]
parse_new_platform(doc) == [i \in DOMAIN doc |-> parse_new_platform_info(doc, i)]

NoInfo == [uuid |-> "", name |-> "", sku |-> "", zones |-> <<>>, sensors |-> <<>>, cdevs |-> <<>>]

(* platform_matched, from the machine's DMI entries ("" cannot be read).    *)
match_product_sku(p, dmi) == dmi.sku = "" \/ p.sku \in {"", "*", dmi.sku}

platform_matched(list, dmi) ==
    LET uuid(p) == dmi.uuid # "" /\ p.uuid # "" /\ p.uuid \in {"*", dmi.uuid}
        name(p) == dmi.name # "" /\ (p.name = "*" \/ (p.name = dmi.name /\ match_product_sku(p, dmi)))
        any(p)  == p.uuid # "" /\ p.name = "*"
    IN IF First(list, uuid) # 0 THEN First(list, uuid)
       ELSE IF First(list, name) # 0 THEN First(list, name) ELSE First(list, any)

-----------------------------------------------------------------------------
(* The relation tables: fw has trt, art and psvt, the UUIDs the firmware    *)
(* supports and, for the UID or path of an INT340x platform device, the id  *)
(* of the device (associate_device).                                        *)
DeviceNames == [INT3406 |-> "DISP", INT3402 |-> "TMEM", INT3401 |-> "TCPU"]
associate_device(fw, n) == IF n \in DOMAIN fw.uids THEN Field(DeviceNames, fw.uids[n], n) ELSE n

SourceNames == [TPCH |-> "pch_wildcat_point"]
TargetNames == [B0D4 |-> "rapl_controller", TCPU |-> "rapl_controller", B0DB |-> "rapl_controller",
                DPLY |-> "LCD", DISP |-> "LCD", TMEM |-> "rapl_controller_dram"]
subtitute_source(n) == Field(SourceNames, n, n)
subtitute_target(fw, n) == LET d == associate_device(fw, n) IN Field(TargetNames, d, d)

(* parse_target_devices: the relations grouped by target, in order.         *)
parse_target_devicesLast(trt, art, psvt) ==   \* mutant: a target has one relation
    LET all == trt \o art \o psvt
        targets == SetToSeq({all[i].target : i \in DOMAIN all})
        of(t, s) == LET x == SelectSeq(s, LAMBDA r : r.target = t)
                    IN IF x = <<>> THEN x ELSE <<x[Len(x)]>>
    IN [i \in DOMAIN targets |-> [target |-> targets[i], trt |-> of(targets[i], trt),
                                  art |-> of(targets[i], art), psvt |-> of(targets[i], psvt)]]
parse_target_devices(trt, art, psvt) ==
    LET targets == FoldLeft(LAMBDA seen, r : IF Contains(seen, r.target) THEN seen
                                             ELSE Append(seen, r.target),
                            <<>>, trt \o art \o psvt)
        of(t, s) == SelectSeq(s, LAMBDA r : r.target = t)
    IN [i \in DOMAIN targets |-> [target |-> targets[i], trt |-> of(targets[i], trt),
                                  art |-> of(targets[i], art), psvt |-> of(targets[i], psvt)]]

add_passive_trip_point(fw, rel) ==
    IF rel.trt = <<>> THEN <<>>
    ELSE << [SensorType |-> subtitute_source(rel.target), Temperature |-> Star, Type |-> "PASSIVE",
             CoolingDevices |-> Each(LAMBDA r : [Type |-> subtitute_target(fw, r.source),
                                                 Influence |-> r.influence,
                                                 SamplingPeriod |-> r.period \div 10], rel.trt)] >>

add_active_trip_point(fw, rel) ==
    IF rel.art = <<>> THEN <<>>
    ELSE << [SensorType |-> subtitute_source(rel.target), Temperature |-> Star, Type |-> "ACTIVE",
             CoolingDevices |-> Each(LAMBDA r : [Type |-> subtitute_target(fw, r.source),
                                                 Influence |-> r.weight], rel.art)] >>

(* A PSVT entry limits its source to a value or to "MAX" or "MIN"; a limit  *)
(* with any other text gives a trip without a temperature.                  *)
PsvtTrip(fw, r) ==
    LET temp == CASE r.limit = "MAX" -> [Temperature |-> r.temp + 1]
                  [] r.limit \in {"MIN", "value"} -> [Temperature |-> r.temp]
                  [] OTHER -> [Type |-> "PASSIVE"]
        cdev == [Type |-> subtitute_target(fw, r.source), SamplingPeriod |-> r.period \div 10]
        limited == r.limit = "value" /\ r.value > 0
    IN [SensorType |-> r.target, Type |-> "PASSIVE",
        CoolingDevices |-> <<IF limited THEN cdev @@ [TargetState |-> r.value] ELSE cdev>>] @@ temp
add_psvt_trip_point(fw, rel) == Each(LAMBDA r : PsvtTrip(fw, r), rel.psvt)

(* Each target becomes a zone with the trips of its relations.              *)
ZonesOf(fw, rels, trips(_, _)) ==
    Each(LAMBDA rel : [Type |-> subtitute_source(rel.target), TripPoints |-> trips(fw, rel)],
         SelectSeq(rels, LAMBDA rel : rel.target # ""))
create_thermal_zone(fw) ==
    ZonesOf(fw, parse_target_devices(fw.trt, fw.art, <<>>),
            LAMBDA f, rel : add_passive_trip_point(f, rel) \o add_active_trip_point(f, rel))

create_platform_conf(dmi, zones) ==
    <<[ProductName |-> IF dmi.name = "" THEN "*" ELSE dmi.name, ThermalZones |-> zones]>>

NoDoc == <<>>
process_psvt(fw, dmi) ==
    IF "passive2" \notin fw.uuids \/ fw.psvt = <<>> THEN NoDoc
    ELSE create_platform_conf(dmi, ZonesOf(fw, parse_target_devices(fw.trt, fw.art, fw.psvt),
                                           add_psvt_trip_point))

(* generate_conf: the document, or NoDoc when the tables give none.         *)
generate_conf(fw, dmi) ==
    IF (fw.trt = <<>> /\ fw.art = <<>>) \/ "passive1" \notin fw.uuids THEN process_psvt(fw, dmi)
    ELSE create_platform_conf(dmi, create_thermal_zone(fw))
=============================================================================
