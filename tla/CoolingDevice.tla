---------------------------- MODULE CoolingDevice ----------------------------
(***************************************************************************)
(* One cooling device of thermald shared by the trip points of several     *)
(* zones (thd_cdev.cpp, thd_trip_point.cpp, thd_zone.cpp).  Each zone here *)
(* has one sensor and one trip point, named by the trip, and below it the  *)
(* polling trip the zone adds.  On every timeout, uevent or notification   *)
(* the engine goes through all zones in order, under its mutex: the        *)
(* reading and the check of one zone are one action.                       *)
(*                                                                         *)
(* States grow from MinState to MaxState (sysfs cooling devices).  PID     *)
(* control, per-trip minimum and maximum states and trips with several     *)
(* devices are left out.                                                   *)
(***************************************************************************)
EXTENDS Integers, Sequences, TLC

CONSTANTS
  Zones,      \* sequence of the trips, in the order of the engine's zones
  Kind,       \* per trip: "step", "target" (target_state_valid) or "max"
  Target,     \* per trip: its target_state (MinState unless kind "target")
  MinState, MaxState, default_max_exponent,
  PollTemp,   \* temperature of the polling trips
  TripTemp,   \* temperature of the trips
  Hyst,
  MaxTemp     \* bound of the temperatures

Trips == {Zones[i] : i \in 1 .. Len(Zones)}

ASSUME ConstAssumption ==
  /\ MinState \in Int /\ MaxState \in Int /\ MinState < MaxState
  /\ default_max_exponent \in Nat \ {0}
  /\ Kind \in [Trips -> {"step", "target", "max"}]
  /\ Target \in [Trips -> MinState .. MaxState]
  /\ {PollTemp, TripTemp, Hyst, MaxTemp} \subseteq Nat

States == MinState .. MaxState
Temps == 0 .. MaxTemp

VARIABLES
  cdev,      \* the cthd_cdev: its zone_trip_limits and controller state
  recent,    \* debounce_interval has not passed since last_action_time
  trip_on, poll_on,
  temp,      \* zone_temp: what the last reading of each zone returned
  turn       \* index of the zone the engine checks next

vars == <<cdev, recent, trip_on, poll_on, temp, turn>>

Init ==
  /\ cdev = [limits |-> <<>>, curr |-> MinState, pow |-> 0, base |-> 0,
             trend |-> FALSE, last |-> 0]
  /\ recent = FALSE
  /\ trip_on = [t \in Trips |-> FALSE]
  /\ poll_on = [t \in Trips |-> FALSE]
  /\ temp = [t \in Trips |-> 0]
  /\ turn = 1

in_min_state(d) == d.curr <= MinState
in_max_state(d) == d.curr >= MaxState

Clamp(s) == IF s > MaxState THEN MaxState ELSE IF s < MinState THEN MinState ELSE s
Newest(limits) == limits[Len(limits)]
Front(limits) == SubSeq(limits, 1, Len(limits) - 1)
Listed(limits, t) == \E i \in 1 .. Len(limits) : limits[i] = t

-----------------------------------------------------------------------------
(* thd_cdev_exponential_controller *)

\* state = 1: one step up, then by powers of two from where the run began.
StepUp(d) ==
  LET from == IF d.curr < MinState THEN MinState ELSE d.curr
      base == IF d.trend /\ d.pow = 0 THEN from ELSE d.base
      pow  == IF ~d.trend THEN 0
              ELSE IF d.pow < default_max_exponent THEN d.pow + 1 ELSE d.pow
  IN [d EXCEPT !.base = base, !.pow = pow, !.trend = TRUE,
               !.curr = Clamp(IF d.trend THEN base + 2^pow ELSE from + 1)]

\* Mutant: a device at its last step is left there.
StepDownToOne(d) ==
  [d EXCEPT !.pow = 0, !.trend = FALSE,
            !.curr = IF d.curr = MinState + 1 THEN d.curr ELSE Clamp(d.curr - 1)]

\* state = 0
StepDown(d) == [d EXCEPT !.pow = 0, !.trend = FALSE, !.curr = Clamp(d.curr - 1)]

\* The end of thd_cdev_set_state: act for "target" (to value), "max" or "step".
Act(d, state, how, value) ==
  LET begun == IF d.curr = MinState
               THEN [d EXCEPT !.last = state, !.pow = 0, !.trend = FALSE]
               ELSE [d EXCEPT !.last = state]
  IN CASE how = "target" -> [begun EXCEPT !.curr = value]
       [] how = "max"    -> [begun EXCEPT !.curr = MaxState]
       [] how = "step"   -> IF state = 1 THEN StepUp(begun) ELSE StepDown(begun)

-----------------------------------------------------------------------------
(* thd_cdev_set_state *)

\* Mutant: a trip with a target goes to the end of the list.
AddLimitUnsorted(limits, t) ==
  IF Listed(limits, t) THEN limits ELSE Append(limits, t)

\* zone_trip_limits after a call for activation: sorted when a target is new.
AddLimit(limits, t) ==
  CASE Listed(limits, t)                         -> limits
    [] ~Listed(limits, t) /\ Kind[t] # "target" -> Append(limits, t)
    [] ~Listed(limits, t) /\ Kind[t] = "target" ->
         SortSeq(Append(limits, t), LAMBDA a, b : Target[a] < Target[b])

\* What the device does for the trip that is now at the end of the list.
How(t, last) == IF Kind[last] = "target" THEN "target"
                ELSE IF Kind[t] = "max" THEN "max" ELSE "step"

\* state = 1.  The second component tells whether the device acted.
Activate(d, t) ==
  LET in == [d EXCEPT !.limits = AddLimit(d.limits, t)]
      last == Newest(in.limits)
  IN IF \/ d.limits # <<>> /\ Kind[last] = "target" /\ d.curr >= Target[last]
        \/ d.last = 1 /\ recent
     THEN <<in, FALSE>>
     ELSE <<Act(in, 1, How(t, last), Target[last]), TRUE>>

\* state = 0; force is set by thd_cdev_set_min_state, which also asks for the
\* minimum state as a target.
Deactivate(d, t, force) ==
  LET erased == d.limits # <<>> /\ Newest(d.limits) = t
      left == IF erased THEN Front(d.limits) ELSE d.limits
      out == [d EXCEPT !.limits = left]
      how == IF left # <<>>
             THEN IF Kind[Newest(left)] = "target" THEN "target"
                  ELSE IF Kind[t] = "max" /\ ~force THEN "max" ELSE "step"
             ELSE IF force \/ (erased /\ Kind[t] = "target") THEN "target"
             ELSE IF Kind[t] = "max" THEN "max" ELSE "step"
  IN IF \/ in_min_state(d) /\ d.limits = <<>>
        \/ left # <<>> /\ ~erased
     THEN <<d, FALSE>>
     ELSE <<Act(out, 0, how, IF left # <<>> THEN Target[Newest(left)]
                             ELSE MinState), TRUE>>

-----------------------------------------------------------------------------
(* thd_trip_point_check, then the polling trip of the same zone *)

Turns(t, v) ==
  IF v >= TripTemp THEN "on"
  ELSE IF trip_on[t] /\ v + Hyst >= TripTemp THEN "none"
  ELSE "off"

\* What the trip's own check makes of the device.
Checked(t, v) ==
  CASE Turns(t, v) = "on" /\ ~in_max_state(cdev)  -> Activate(cdev, t)
    [] Turns(t, v) = "off" /\ ~in_min_state(cdev) -> Deactivate(cdev, t, FALSE)
    [] OTHER                                      -> <<cdev, FALSE>>

\* The reading dropped below the polling trip: zone_reset(0).
Resets(t, v) == poll_on[t] /\ v < PollTemp

CheckZone(t, v) ==
  LET one == Checked(t, v)
      two == IF Resets(t, v) /\ ~in_min_state(one[1])
             THEN Deactivate([one[1] EXCEPT !.trend = FALSE], t, TRUE)
             ELSE <<one[1], FALSE>>
  IN /\ t = Zones[turn] /\ turn' = (turn % Len(Zones)) + 1
     /\ cdev' = two[1]
     /\ recent' = (recent \/ one[2] \/ two[2])
     /\ trip_on' = [trip_on EXCEPT ![t] =
                      IF Turns(t, v) = "none" THEN @ ELSE Turns(t, v) = "on"]
     /\ poll_on' = [poll_on EXCEPT ![t] = v >= PollTemp]
     /\ temp' = [temp EXCEPT ![t] = v]

-----------------------------------------------------------------------------

\* debounce_interval passes.
Debounced ==
  /\ recent /\ recent' = FALSE
  /\ UNCHANGED <<cdev, trip_on, poll_on, temp, turn>>

Check == \E t \in Trips, v \in Temps : CheckZone(t, v)

Next == Check \/ Debounced

Spec == Init /\ [][Next]_vars

\* The engine polls its zones (thd_poll_interval is 4 s unless set to zero), and
\* time passes.
Fairness == WF_vars(Check) /\ WF_vars(Debounced)
FairSpec == Spec /\ Fairness

-----------------------------------------------------------------------------
(* Properties *)

Cool(t) == temp[t] + Hyst < TripTemp
Hot(t) == temp[t] >= TripTemp

\* "When state = 0, it causes reduction in the cooling device state": once all
\* zones stay cool the device gets back to its minimum state, whatever
\* entries earlier activations left in zone_trip_limits.
ReleasedWhenCool == <>[](\A t \in Trips : Cool(t)) => <>[](cdev.curr = MinState)

\* A zone that stays hot gets what its trip asks for, again and again, however
\* the other zones' calls for deactivation fall and whatever they left in
\* zone_trip_limits: its target state, or, under step control while no trip with
\* a target is active, the maximum.
DemandMet ==
  \A t \in Trips :
    <>[](/\ Hot(t)
         /\ Kind[t] # "target" =>
              \A u \in Trips : Kind[u] = "target" => Cool(u))
    => []<>(cdev.curr >= IF Kind[t] = "target" THEN Target[t] ELSE MaxState)

\* "if one trip activated a cdev ..., even if the other trip calls for
\* deactivation ..., the trip shouldn't be deactivated": a cool zone leaves a
\* device alone that a hot zone's trip holds active.
HeldWhileOtherActive ==
  [][\A t \in Trips :
       (/\ Zones[turn] = t /\ turn' # turn /\ temp'[t] < TripTemp
        /\ \E u \in Trips \ {t} : trip_on[u] /\ Listed(cdev.limits, u))
       => cdev'.curr >= cdev.curr]_vars
=============================================================================
