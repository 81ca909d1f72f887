------------------------------ MODULE Adaptive ------------------------------
(***************************************************************************)
(* The adaptive engine of thermald.  The firmware's tables (GDDV) hold sets *)
(* of conditions (APCT) that select a target, the actions of each target    *)
(* (APAT), tables of passive trips (PSVT, ITMT) and a second pair of        *)
(* tables for power limits (PBCT, PBAT).  At every poll interval the engine *)
(* evaluates the conditions and, when the target changes, rebuilds the      *)
(* trips of all zones.  Temperatures are in degrees, times in seconds.      *)
(***************************************************************************)
EXTENDS ThermalConf

CONSTANTS
    Gddvs,          \* the tables firmware may hold, one is chosen at boot
    EnvValues,      \* what each condition's source may read
    Env0,           \* and reads at boot
    Zones, Cdevs,   \* zones (each with its sensor) and cooling devices found
    Boot,           \* the trips of each zone before a policy is installed
    MinState,       \* min_state of the RAPL device
    MaxTarget,      \* stands for TRIP_PT_INVALID_TARGET_STATE
    Steps,          \* the seconds that may pass from one update to the next
    AgeCap,         \* ages above every FOR time are not told apart
    CalmCap         \* updates counted after the last change of a source

VARIABLES
    gddv,           \* the tables
    env,            \* what the conditions' sources read now
    age,            \* time since state_entry_time of each condition, or -1
    lastMatch,      \* current_target_matched of the tables
    matched,        \* current_matched_target of the engine
    fallback, policyActive,
    trips,          \* zone -> its trip points, the polling trip last
    active,         \* the zones with zone_active set
    limits,         \* code -> the argument last given to the RAPL device
    installed,      \* a policy was installed since boot
    calm,           \* updates since a source of the conditions last changed
    phase           \* "boot", "run" or "failed"

vars == <<gddv, env, age, lastMatch, matched, fallback, policyActive, trips,
          active, limits, installed, calm, phase>>

EcZones == [SOC |-> 80, CHARGER |-> 60]
Sen3Cap == 50

-----------------------------------------------------------------------------
(* Conditions.  A condition is [kind, cmp, arg, time, tcmp, target].        *)
compare_condition(c, v) ==
    CASE c.cmp = "EQUAL"            -> v = c.arg
      [] c.cmp = "LESSER_OR_EQUAL"  -> v <= c.arg
      [] c.cmp \in {"GREATER_OR_EQUAL", "GREATER_OR_EQUAL_2"} -> v >= c.arg
      [] c.cmp = "NOT_EQUAL"        -> v # c.arg
      [] c.cmp = "GREATER_THAN"     -> v > c.arg
      [] OTHER -> FALSE

compare_time(c, a) ==
    CASE c.tcmp = "EQUAL"            -> a = c.time
      [] c.tcmp = "LESSER_OR_EQUAL"  -> a <= c.time
      [] c.tcmp = "GREATER_OR_EQUAL" -> a >= c.time
      [] c.tcmp = "NOT_EQUAL"        -> a # c.time
      [] OTHER -> FALSE

Sourced == {"Oem", "Temperature", "Lid_state", "Power_source", "Platform_type",
            "Power_slider"}
Supported(c) == c.kind \in Sourced \cup {"Default", "Workload", "OS_type"}
verify_conditions(g) == \A i \in DOMAIN g.apct : \A j \in DOMAIN g.apct[i] : Supported(g.apct[i][j])

(* The value part of a condition, without its FOR time.                     *)
ValueHolds(c, e) ==
    CASE c.kind = "Default"                -> TRUE
      [] c.kind \in {"OS_type", "Workload"} -> compare_condition(c, 3)
      [] c.kind \in Sourced \cap DOMAIN e  -> compare_condition(c, e[c.kind])
      [] c.kind = "Battery" -> (c.cmp = "LESSER_OR_EQUAL" /\ c.arg = 0)
                               \/ compare_condition(c, e["Battery"])
      [] c.kind = "Motion"                 -> c.arg = 0
      [] OTHER -> FALSE

evaluate_conditionTimed(c, a, e, last) ==   \* mutant: checks the time of the current target
    IF ~ValueHolds(c, e) THEN [ok |-> FALSE, age |-> -1]
    ELSE IF c.time = 0 THEN [ok |-> TRUE, age |-> a]
    ELSE IF a = -1 THEN [ok |-> FALSE, age |-> 0]
    ELSE LET ok == compare_time(c, a) IN [ok |-> ok, age |-> IF ok THEN -1 ELSE a]
(* evaluate_condition: the result and the new state_entry_time.             *)
evaluate_condition(c, a, e, last) ==
    IF ~ValueHolds(c, e) THEN [ok |-> FALSE, age |-> -1]
    ELSE IF c.kind = "Default" \/ c.target = last \/ c.time = 0 THEN [ok |-> TRUE, age |-> a]
    ELSE IF a = -1 THEN [ok |-> FALSE, age |-> 0]
    ELSE LET ok == compare_time(c, a) IN [ok |-> ok, age |-> IF ok THEN -1 ELSE a]

(* evaluate_condition_set stops at the first condition that fails.          *)
evaluate_condition_set(cs, ages, e, last) ==
    FoldLeft(LAMBDA r, j :
                 IF ~r.ok THEN r
                 ELSE LET x == evaluate_condition(cs[j], ages[j], e, last)
                      IN [ok |-> x.ok, ages |-> [r.ages EXCEPT ![j] = x.age]],
             [ok |-> TRUE, ages |-> ages], [j \in 1..Len(cs) |-> j])

(* evaluate_conditions: the first set that matches gives the target.        *)
evaluate_conditions(sets, ages, e, last) ==
    FoldLeft(LAMBDA r, i :
                 IF r.target # -1 THEN r
                 ELSE LET x == evaluate_condition_set(sets[i], ages[i], e, last)
                      IN [target |-> IF x.ok THEN sets[i][1].target ELSE -1,
                          ages |-> [r.ages EXCEPT ![i] = x.ages]],
             [target |-> -1, ages |-> ages], [i \in 1..Len(sets) |-> i])

NoAges(sets) == [i \in DOMAIN sets |-> [j \in DOMAIN sets[i] |-> -1]]
Older(ages, d) ==
    [i \in DOMAIN ages |-> [j \in DOMAIN ages[i] |->
        CASE ages[i][j] = -1 -> -1
          [] ages[i][j] # -1 /\ ages[i][j] + d >= AgeCap -> AgeCap
          [] OTHER -> ages[i][j] + d]]

-----------------------------------------------------------------------------
(* Trip points [type, temp, cdev, target]; target -1 is "not valid".        *)
Passive(temp, cdev, target) == [type |-> "PASSIVE", temp |-> temp, cdev |-> cdev, target |-> target]
Polling(temp) == [type |-> "POLLING", temp |-> temp, cdev |-> "none", target |-> -1]

(* sort_and_update_poll_trip: the polling trip lies below the lowest trip.  *)
WithPoll(ts) ==
    LET sorted == ByTemp(ts, {i \in DOMAIN ts : ts[i].type # "POLLING"})
    IN IF sorted = <<>> THEN <<>> ELSE Append(sorted, Polling(PollTemp(sorted[1].temp)))

add_trip(ts, t) == WithPoll(Append(ts, t))

Deleted == [ts |-> [z \in Zones |-> <<>>], on |-> {}]

(* Names the tables and the kernel use for the same participant.            *)
FindZone(z) ==
    CASE z \in Zones -> z
      [] z \notin Zones /\ z = "B0D4" /\ "TCPU" \in Zones -> "TCPU"
      [] z \notin Zones /\ z = "TCPU" /\ "B0D4" \in Zones -> "B0D4"
      [] OTHER -> "none"
FindCdev(c) ==
    CASE c \in Cdevs -> c
      [] c \notin Cdevs /\ c = "TCPU" /\ "B0D4" \in Cdevs -> "B0D4"
      [] OTHER -> "none"

Adds(p, z, t) == [ts |-> [p.ts EXCEPT ![z] = add_trip(@, t)], on |-> p.on \cup {z}]

(* install_passive of one PSV entry: SEN3 is capped, MIN is no target.      *)
install_passive(p, psv) ==
    LET z == FindZone(psv.zone)
        c == FindCdev(psv.cdev)
        temp == IF z = "SEN3" /\ psv.temp > Sen3Cap THEN Sen3Cap ELSE psv.temp
        target == CASE psv.limit = "MAX" -> MaxTarget
                    [] psv.limit \in {"MIN", ""} -> -1
                    [] OTHER -> psv.power
    IN IF z = "none" \/ c = "none" THEN p ELSE Adds(p, z, Passive(temp, c, target))

install_itmt(p, entry) ==
    LET z == FindZone(entry.zone)
    IN IF z = "none" \/ "rapl_controller_mmio" \notin Cdevs THEN p
       ELSE Adds(p, z, Passive(entry.temp, "rapl_controller_mmio", -1))

(* psvt_consolidate of one zone.                                            *)
Untargeted(t) == [t EXCEPT !.target = -1, !.temp = @ + 1]
Consolidated(ts, j) ==
    LET t == ts[j] IN
    IF t.target # MaxTarget THEN t
    ELSE IF j < Len(ts) /\ ts[j + 1].cdev = t.cdev /\ ts[j + 1].target # -1
    THEN [t EXCEPT !.target = (MinState + ts[j + 1].target) \div 2,
                   !.temp = (t.temp + ts[j + 1].temp) \div 2]
    ELSE Untargeted(t)

Consolidate(ts) ==
    IF Len(ts) = 2 /\ ts[1].target # -1
    THEN add_trip(ts, Passive(ts[1].temp + 1, ts[1].cdev, -1))
    ELSE [j \in 1..Len(ts) |-> Consolidated(ts, j)]

psvt_consolidate(p) == [p EXCEPT !.ts = [z \in Zones |-> Consolidate(p.ts[z])]]

(* install_minibook_ec_zones: two trips for each EC zone that exists.       *)
EcCdev == IF "rapl_controller_mmio" \in Cdevs THEN "rapl_controller_mmio" ELSE "rapl_controller"
install_ec_zone(p, z) ==
    IF z \notin Zones \/ EcCdev \notin Cdevs THEN p
    ELSE Adds(Adds(p, z, Passive(EcZones[z], EcCdev, -1)), z, Passive(EcZones[z] + 1, EcCdev, -1))
install_minibook_ec_zones(p) == install_ec_zone(install_ec_zone(p, "SOC"), "CHARGER")

find_def_psvt(g) ==
    CASE "generic_os" \in DOMAIN g.psvts -> "generic_os"
      [] "IETM.D0" \in DOMAIN g.psvts -> "IETM.D0"
      [] OTHER -> "none"

(* The loop over the entries of a PSVT or an ITMT table.                    *)
InstallEntry(code, p, entry) ==
    IF code = "ITMT" THEN install_itmt(p, entry) ELSE install_passive(p, entry)
InstallTable(code, p, entries) ==
    LET after[i \in 0..Len(entries)] ==
            IF i = 0 THEN p ELSE InstallEntry(code, after[i - 1], entries[i])
    IN after[Len(entries)]

install_passive_defaultBare(g) ==   \* mutant: the EC zones are forgotten
    IF find_def_psvt(g) = "none" THEN Deleted
    ELSE psvt_consolidate(InstallTable("PSVT", Deleted, g.psvts[find_def_psvt(g)]))
install_passive_default(g) ==
    IF find_def_psvt(g) = "none" THEN Deleted
    ELSE install_minibook_ec_zones(
             psvt_consolidate(InstallTable("PSVT", Deleted, g.psvts[find_def_psvt(g)])))

-----------------------------------------------------------------------------
(* Targets: actions [target, code, arg, num, zone] of the participant zone, *)
(* num when stoi takes the argument.  st is what they build on: the zones   *)
(* p, int3400_installed, the limits of the RAPL device, and whether the     *)
(* daemon exits for want of an active zone.                                 *)
set_trip(p, z, temp) ==
    IF z \notin Zones \/ ~\E j \in DOMAIN p.ts[z] : p.ts[z][j].type = "PASSIVE" THEN p
    ELSE LET first == CHOOSE j \in DOMAIN p.ts[z] :
                          /\ p.ts[z][j].type = "PASSIVE"
                          /\ \A k \in 1..(j - 1) : p.ts[z][k].type # "PASSIVE"
         IN [p EXCEPT !.ts[z][first].temp = temp]

set_int3400_target(g, st, a) ==
    LET base == IF st.int3400 THEN st.p ELSE Deleted
        table == CASE a.code = "ITMT" /\ a.arg \in DOMAIN g.itmts ->
                          InstallTable("ITMT", base, g.itmts[a.arg])
                   [] a.code = "PSVT" -> InstallTable("PSVT", base, g.psvts[a.arg])
                   [] OTHER -> st.p
        built == install_minibook_ec_zones(psvt_consolidate(table))
    IN IF a.code = "PSVT" /\ a.arg \notin DOMAIN g.psvts THEN st
       ELSE [st EXCEPT !.p = IF a.code = "PSV" THEN set_trip(built, a.zone, a.arg) ELSE built,
                       !.exits = @ \/ built.on = {},
                       !.int3400 = @ \/ a.code = "PSVT" \/ (a.code = "ITMT" /\ a.arg \in DOMAIN g.itmts)]

(* execute_target: a PSVT is for the zones whoever its participant is,      *)
(* other tables only when it is the INT3400 device and no cooling device;   *)
(* what is left is for the device, if there is one and stoi does not throw. *)
Int3400Path == "IETM"
ForZones(a) == a.code = "PSVT" \/ (FindCdev(a.zone) = "none" /\ a.zone = Int3400Path)
execute_target(g, st, a) ==
    IF ForZones(a) THEN set_int3400_target(g, st, a)
    ELSE IF FindCdev(a.zone) # "none" /\ a.num /\ a.code \in DOMAIN st.limits
    THEN [st EXCEPT !.limits = [@ EXCEPT ![a.code] = a.arg]]
    ELSE st

(* The loop over the actions: those of other targets are passed over.       *)
ExecuteAll(g, st, t) ==
    LET after[i \in 0..Len(g.apat)] ==
            IF i = 0 THEN st
            ELSE IF g.apat[i].target # t THEN after[i - 1]
            ELSE execute_target(g, after[i - 1], g.apat[i])
    IN after[Len(g.apat)]

From(p) == [p |-> p, int3400 |-> FALSE, limits |-> limits, exits |-> FALSE]
Current == From([ts |-> trips, on |-> active])

(* What update_engine_state does when the target becomes t.                 *)
SwitchTo(g, st, t) ==
    LET done == IF t > 0 THEN ExecuteAll(g, st, t) ELSE st
    IN IF done.int3400 THEN done ELSE [done EXCEPT !.p = install_passive_default(g)]

-----------------------------------------------------------------------------
Init ==
    /\ gddv \in Gddvs /\ env = Env0
    /\ age = [apct |-> NoAges(gddv.apct), pbct |-> NoAges(gddv.pbct)]
    /\ lastMatch = -1 /\ matched = -1 /\ fallback = -1 /\ policyActive = FALSE
    /\ trips = Boot /\ active = {z \in Zones : Boot[z] # <<>>}
    /\ limits = [c \in {"PL1MAX", "PL1PowerLimit"} |-> -1]
    /\ installed = FALSE /\ calm = 0 /\ phase = "boot"

(* find_agressive_target: the action with the highest PL1.                  *)
find_agressive_target(g) ==
    LET powers == {i \in DOMAIN g.apat : g.apat[i].code \in {"PL1MAX", "PL1PowerLimit"} /\ g.apat[i].arg > 0}
    IN IF powers = {} THEN -1
       ELSE CHOOSE i \in powers : \A k \in powers : \/ g.apat[k].arg < g.apat[i].arg
                                                    \/ g.apat[k].arg = g.apat[i].arg /\ i <= k

Install(p) == trips' = p.ts /\ active' = p.on

(* thd_engine_start.  With unsupported conditions it evaluates twice, and   *)
(* installs the default when the first time finds neither target nor power. *)
Start ==
    LET first == evaluate_conditions(gddv.apct, age.apct, env, lastMatch)
        seen == ~verify_conditions(gddv)
        f == IF seen /\ first.target = -1 THEN find_agressive_target(gddv) ELSE -1
        lm == IF seen /\ first.target # -1 THEN first.target ELSE lastMatch
        second == evaluate_conditions(gddv.apct, IF seen THEN first.ages ELSE age.apct, env, lm)
        early == seen /\ first.target = -1 /\ f = -1
        none == early \/ gddv.apct = <<>> \/ second.target = -1
    IN /\ phase = "boot"
       /\ IF early /\ find_def_psvt(gddv) = "none"
          THEN phase' = "failed" /\ UNCHANGED <<age, lastMatch, fallback, trips, active, installed>>
          ELSE /\ phase' = "run"
               /\ age' = [age EXCEPT !.apct = second.ages]
               /\ lastMatch' = IF second.target # -1 THEN second.target ELSE lm
               /\ fallback' = f
               /\ installed' = none
               /\ IF none THEN Install(install_passive_default(gddv)) ELSE UNCHANGED <<trips, active>>
       /\ UNCHANGED <<gddv, env, matched, policyActive, limits, calm>>

(* update_power_policies: the PBAT actions of the PBCT set that holds.      *)
PowerLimits(lims, t) ==
    FoldLeft(LAMBDA ls, a : [ls EXCEPT ![a.code] = a.arg], lims,
             SelectSeq(gddv.pbat, LAMBDA a : t # -1 /\ a.target = t))

HasFallback == fallback >= 0

(* One interval of the engine: update_engine_state, update_power_policies;   *)
(* then the d seconds to the next one pass.                                 *)
Update(d) ==
    LET r == IF HasFallback THEN [target |-> -1, ages |-> age.apct]
             ELSE evaluate_conditions(gddv.apct, age.apct, env, lastMatch)
        lm == IF r.target # -1 THEN r.target ELSE lastMatch
        falls == r.target = -1 /\ HasFallback /\ ~policyActive
        next == CASE r.target = matched -> Current
                  [] r.target # matched /\ falls -> ExecuteAll(gddv, Current, gddv.apat[fallback].target)
                  [] OTHER -> SwitchTo(gddv, Current, r.target)
        pb == evaluate_conditions(gddv.pbct, age.pbct, env, lm)
    IN /\ phase = "run"
       /\ lastMatch' = lm
       /\ matched' = r.target
       /\ Install(next.p)
       /\ installed' = (installed \/ r.target # matched)
       /\ policyActive' = (policyActive \/ (r.target # matched /\ (falls \/ r.target > 0)))
       /\ age' = [apct |-> Older(r.ages, d), pbct |-> Older(pb.ages, d)]
       /\ calm' = IF calm = CalmCap THEN calm ELSE calm + 1
       /\ limits' = PowerLimits(next.limits, pb.target)
       /\ phase' = IF next.exits THEN "failed" ELSE phase
       /\ UNCHANGED <<gddv, env, fallback>>

SetEnv(k, v) ==
    /\ env' = [env EXCEPT ![k] = v] /\ env' # env
    /\ calm' = 0
    /\ UNCHANGED <<gddv, age, lastMatch, matched, fallback, policyActive, trips,
                   active, limits, installed, phase>>

Next ==
    \/ Start
    \/ \E d \in Steps : Update(d)
    \/ \E k \in DOMAIN EnvValues : \E v \in EnvValues[k] : SetEnv(k, v)

Spec == Init /\ [][Next]_vars
-----------------------------------------------------------------------------
(* A switch to t from empty zones, and the EC zones that can be guarded: no *)
(* action sets their trip.                                                  *)
Fresh(t) == SwitchTo(gddv, From(Deleted), t)
Guardable ==
    {z \in Zones \cap DOMAIN EcZones :
        EcCdev \in Cdevs /\ \A i \in DOMAIN gddv.apat : gddv.apat[i].code = "PSV" => gddv.apat[i].zone # z}

(* Once a policy was installed the zones hold exactly the trips that the     *)
(* tables of the current target, or the default table, give when installed   *)
(* on empty zones: nothing of an earlier target is left and nothing is lost, *)
(* whatever order the targets, missing tables and overrides came in.  The    *)
(* EC's SoC and charger zones are then guarded through the RAPL device,      *)
(* unless neither the target nor the firmware's default has a table.         *)
InstalledAgrees ==
    (phase = "run" /\ installed) =>
        /\ trips = Fresh(matched).p.ts /\ active = Fresh(matched).p.on
        /\ Fresh(matched).int3400 \/ find_def_psvt(gddv) # "none" =>
               \A z \in Guardable :
                   /\ z \in active
                   /\ \E j \in DOMAIN trips[z] : trips[z][j] = Passive(EcZones[z], EcCdev, -1)

(* The first set whose values hold: what the tables ask for, time aside.     *)
Wanted ==
    LET hold == {i \in DOMAIN gddv.apct :
                    \A j \in DOMAIN gddv.apct[i] : ValueHolds(gddv.apct[i][j], env)}
    IN IF hold = {} THEN -1
       ELSE gddv.apct[CHOOSE i \in hold : \A k \in hold : i <= k][1].target

(* When the conditions' sources stop changing, and every FOR time of the     *)
(* tables is a least time, the engine is at the target the tables ask for    *)
(* within the longest FOR times of a set and stays there: FOR times only     *)
(* delay the switch, those of two conditions of one set cannot keep each     *)
(* other from running out, the state_entry_time left over where evaluation   *)
(* stopped at an earlier condition never delays it, and targets are not      *)
(* switched back and forth.  An exact or a greatest time may be missed       *)
(* between two updates for as long as the values hold.                       *)
TargetReached ==
    (/\ calm = CalmCap /\ fallback = -1
     /\ \A i \in DOMAIN gddv.apct : \A j \in DOMAIN gddv.apct[i] :
          gddv.apct[i][j].time = 0 \/ gddv.apct[i][j].tcmp = "GREATER_OR_EQUAL")
        => matched = Wanted

=============================================================================
