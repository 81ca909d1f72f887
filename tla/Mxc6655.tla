------------------------------- MODULE Mxc6655 -------------------------------
(***************************************************************************)
(* The dual-accelerometer driver of the iio-sensor-proxy fork              *)
(* (drv-mxc6655-accel.c): the tablet-mode and orientation debouncers, the  *)
(* gate that starts and stops the poll timer (client interest and lid      *)
(* switch), the recovery of the I2C descriptors, and the outputs the rest  *)
(* of the machine sees: readings, the uinput switch and the ACPI LTSM call *)
(* that enables and disables the keyboard.                                 *)
(*                                                                         *)
(* All callbacks run on one GLib main loop, so each is one action.  What a *)
(* poll measures is the constant part of a "scene" the user puts the       *)
(* machine in: the band of the hinge angle, the side the display faces and *)
(* whether the orientation filter (update_orientation) accepts samples.    *)
(***************************************************************************)
EXTENDS Integers

CONSTANTS
  GMTR_DEBOUNCE,   \* samples a debouncer lets pass before it acts (5)
  Scenes,          \* the scenes the user may put the machine in
  PanelOrients,    \* DRM "panel orientation" values found at open (-1 unknown)
  FdRoom           \* descriptors RLIMIT_NOFILE leaves for the accelerometers

Bands == {"tablet", "neutral", "laptop", "shut", "weak"}
Facings == -1 .. 3
AllScenes == [hinge : Bands, facing : Facings, settled : BOOLEAN]

ASSUME ConstAssumption ==
  /\ GMTR_DEBOUNCE \in Nat \ {0}
  /\ Scenes # {} /\ Scenes \subseteq AllScenes
  /\ PanelOrients # {} /\ PanelOrients \subseteq -1 .. 3
  /\ FdRoom \in Nat

VARIABLES
  dev,              \* "open" between driver_open and driver_close
  want_polling,     \* the proxy asked for readings
  lid_closed,       \* the driver's copy of SW_LID
  lid_watch,        \* lid_watch_id # 0
  timer,            \* timeout_id # 0
  i2c,              \* i2c_fds: "none" (-1), "stale" or "live"
  mode,             \* -1 unknown, 0 laptop, 1 tablet
  t_count, l_count, \* debounce counters of the hinge (saturating)
  cur_orient, pending_orient, orient_debounce,
  panel_deg,        \* static panel rotation found at open
  reported,         \* orientation of the last reading handed to the proxy
  lost,             \* descriptors the daemon holds and no longer knows of
  sw,               \* SW_TABLET_MODE of the uinput device, -1 without device
  kbd,              \* argument of the last LTSM call
  mode_age,         \* polls since mode last changed (history, saturating)
  orient_age,       \* polls since cur_orient last changed (history)
  lid, lid_event,   \* the lid itself; unread events in the lid descriptor
  chips,            \* how many of the two accelerometers answer
  scene

drvVars == <<dev, want_polling, lid_closed, lid_watch, timer>>
hingeVars == <<mode, t_count, l_count, sw, kbd, mode_age>>
orientVars == <<cur_orient, pending_orient, orient_debounce, panel_deg,
                reported, orient_age>>
envVars == <<lid, lid_event, chips, scene>>
vars == <<drvVars, i2c, lost, hingeVars, orientVars, envVars>>

\* The switch or the keyboard after a call that failed: as it was, whatever
\* the mode is now.
Unsure == -2

-----------------------------------------------------------------------------
(* Orientation arithmetic *)

MXC_ORIENT_RIGHT == 3

panel_orient_degrees(drm) ==
  CASE drm = 2 -> 90
    [] drm = 1 -> 180
    [] drm = 3 -> 270
    [] OTHER   -> 0

compose_orientation(orient, deg) ==
  ((((orient * 90 - deg) % 360) + 360) % 360) \div 90

Landscape == compose_orientation(MXC_ORIENT_RIGHT, panel_deg)

\* The counters are only ever compared with GMTR_DEBOUNCE, so they may stop
\* one above it.
Bump(n) == IF n > GMTR_DEBOUNCE THEN n ELSE n + 1

-----------------------------------------------------------------------------
Init ==
  /\ dev = "closed"
  /\ want_polling = FALSE /\ lid_closed = FALSE /\ lid_watch = FALSE
  /\ timer = FALSE /\ i2c = "none"
  /\ mode = -1 /\ t_count = 0 /\ l_count = 0 /\ mode_age = 0
  /\ cur_orient = -1 /\ pending_orient = -1 /\ orient_debounce = 0
  /\ orient_age = 0
  /\ panel_deg = 0 /\ reported = -1 /\ sw = -1
  /\ kbd = Unsure             \* left by an earlier run of the daemon
  /\ lid \in BOOLEAN /\ lid_event = FALSE
  /\ chips = 2 /\ lost = 0 /\ scene \in Scenes

\* The state of a new DrvData; a freed one is kept in the same form.
FreshState ==
  /\ mode' = -1 /\ t_count' = 0 /\ l_count' = 0 /\ mode_age' = 0
  /\ cur_orient' = -1 /\ pending_orient' = -1 /\ orient_debounce' = 0
  /\ orient_age' = 0 /\ reported' = -1

\* find_accels: the accelerometers that answer, as far as there are
\* descriptors left to open them.
FindAccels == IF chips <= FdRoom - lost THEN chips ELSE FdRoom - lost

\* mxc6655_open: needs both accelerometers (otherwise it closes what it found
\* and returns NULL).  The uinput device and the lid switch may be missing,
\* and EVIOCGSW may fail, which reads as an open lid.
Open ==
  /\ dev = "closed" /\ FindAccels = 2
  /\ dev' = "open" /\ want_polling' = FALSE /\ timer' = FALSE
  /\ i2c' = "live"
  /\ FreshState
  /\ \E drm \in PanelOrients : panel_deg' = panel_orient_degrees(drm)
  /\ sw' \in {-1, 0}
  /\ \E found, read_ok \in BOOLEAN :
       /\ lid_watch' = found
       /\ lid_closed' = (found /\ read_ok /\ lid)
  /\ UNCHANGED <<lost, kbd, lid, lid_event, chips, scene>>

\* update_polling_timer, for the values want_polling and lid_closed take.
UpdatePollingTimer == timer' = (want_polling' /\ ~lid_closed')

\* mxc6655_set_polling, the part after the reading.
SetWantPolling(state) ==
  /\ want_polling' = state
  /\ UNCHANGED lid_closed
  /\ IF want_polling = state THEN UNCHANGED timer ELSE UpdatePollingTimer

\* Mutant: the timer is stopped when the lid closes and never started again.
SetLidClosedStopsOnly(closed) ==
  /\ lid_closed' = closed
  /\ UNCHANGED want_polling
  /\ timer' = (timer /\ ~closed)

\* Mutant: every event is taken for a closing lid.
SetLidClosedAlways(closed) ==
  /\ lid_closed' = TRUE
  /\ UNCHANGED want_polling
  /\ UpdatePollingTimer

set_lid_closed(closed) ==
  /\ lid_closed' = closed
  /\ UNCHANGED want_polling
  /\ IF lid_closed = closed THEN UNCHANGED timer ELSE UpdatePollingTimer

\* driver_close: driver_set_polling(FALSE) stops the timer, mxc6655_close
\* removes the lid watch and closes every descriptor it knows of.
Close ==
  /\ dev = "open"
  /\ dev' = "closed"
  /\ SetWantPolling(FALSE)
  /\ lid_watch' = FALSE /\ lid_event' = FALSE
  /\ i2c' = "none" /\ sw' = -1
  /\ FreshState
  /\ UNCHANGED <<lost, panel_deg, kbd, lid, chips, scene>>

\* send_current_reading: landscape as long as no orientation is known.
CurrentReading == IF cur_orient < 0 THEN Landscape ELSE cur_orient

\* mxc6655_set_polling: always hands out a reading when polling is asked for.
SetPolling(state) ==
  /\ dev = "open"
  /\ reported' = IF state THEN CurrentReading ELSE reported
  /\ SetWantPolling(state)
  /\ UNCHANGED <<dev, lid_watch, i2c, lost, hingeVars, cur_orient, pending_orient,
                 orient_debounce, panel_deg, orient_age, envVars>>

\* lid_event_cb with G_IO_IN: drains the descriptor; the last event carries
\* the present position of the lid.
LidEvent ==
  /\ lid_watch /\ lid_event
  /\ lid_event' = FALSE
  /\ set_lid_closed(lid)
  /\ UNCHANGED <<dev, lid_watch, i2c, lost, hingeVars, orientVars, lid, chips, scene>>

\* lid_event_cb with G_IO_HUP or G_IO_ERR: the watch goes, lid_closed stays.
LidHup ==
  /\ lid_watch
  /\ lid_watch' = FALSE /\ lid_event' = FALSE
  /\ UNCHANGED <<dev, want_polling, lid_closed, timer, i2c, lost, hingeVars,
                 orientVars, lid, chips, scene>>

-----------------------------------------------------------------------------
(* One poll *)

\* "++count > GMTR_DEBOUNCE", the test all three debouncers make.
DebounceExpired(n) == n + 1 > GMTR_DEBOUNCE

\* Mutant: a search that fails once is not repeated.
RecoverI2cOnce ==
  /\ i2c # "live"
  /\ i2c' = IF i2c = "stale" /\ FindAccels = 2 THEN "live" ELSE "none"
  /\ lost' = IF FindAccels = 1 THEN lost + 1 ELSE lost
  /\ UNCHANGED <<hingeVars, orientVars>>

\* recover_i2c: both descriptors are closed, the kernel driver is unbound and
\* the bus is searched again.  When one accelerometer is found, -1 is written
\* over its open descriptor.
RecoverI2c ==
  /\ i2c # "live"
  /\ i2c' = IF FindAccels = 2 THEN "live" ELSE "none"
  /\ lost' = IF FindAccels = 1 THEN lost + 1 ELSE lost
  /\ UNCHANGED <<hingeVars, orientVars>>

\* Mutant: the mode before the first hinge decision counts as tablet mode.
NewOrientUnknownFree ==
  compose_orientation(IF mode = 0 THEN MXC_ORIENT_RIGHT ELSE scene.facing,
                      panel_deg)

\* Mutant: the display is reported right-up in tablet mode too.
NewOrientFixed == compose_orientation(MXC_ORIENT_RIGHT, panel_deg)

\* The orientation a sample stands for: the accelerometer's in tablet mode,
\* right-up otherwise, less the static rotation of the panel.
NewOrient ==
  compose_orientation(IF mode # 1 THEN MXC_ORIENT_RIGHT ELSE scene.facing,
                      panel_deg)

\* Mutant: a new orientation is taken at the first sample.
OrientationAtOnce ==
  LET now == [cur |-> cur_orient, pending |-> pending_orient,
              debounce |-> orient_debounce, reported |-> reported]
  IN IF ~scene.settled \/ scene.facing < 0 \/ NewOrient = cur_orient THEN now
     ELSE [cur |-> NewOrient, pending |-> NewOrient, debounce |-> 0,
           reported |-> NewOrient]

\* update_orientation_debounce: what one sample makes of the debouncer.
OrientationDebounced ==
  LET now == [cur |-> cur_orient, pending |-> pending_orient,
              debounce |-> orient_debounce, reported |-> reported]
  IN IF ~scene.settled \/ scene.facing < 0 THEN now
     ELSE IF NewOrient # pending_orient
     THEN [now EXCEPT !.pending = NewOrient,
                      !.debounce = IF NewOrient # cur_orient THEN 1 ELSE 0]
     ELSE IF NewOrient = cur_orient THEN now
     ELSE IF DebounceExpired(orient_debounce)
     THEN [now EXCEPT !.cur = NewOrient, !.debounce = 0,
                      !.reported = NewOrient]
     ELSE [now EXCEPT !.debounce = @ + 1]

\* set_tablet_mode without force_landscape: the mode, the ACPI call and the
\* write of the switch.  That either of them failed goes unnoticed, and none
\* is repeated.
SetTabletMode(m) ==
  /\ mode' = m
  /\ kbd' \in {m, Unsure}
  /\ sw' \in IF sw = -1 THEN {-1} ELSE {m, Unsure}
  /\ mode_age' = 0

KeepMode ==
  /\ UNCHANGED <<mode, kbd, sw>>
  /\ mode_age' = Bump(mode_age)

\* Whether update_tablet_mode reaches the call of set_tablet_mode(m).
TurnsTablet == mode # 1 /\ scene.hinge = "tablet" /\ DebounceExpired(t_count)
TurnsLaptop == mode # 0 /\ scene.hinge = "laptop" /\ DebounceExpired(l_count)

\* Mutant: a sample of another band does not restart the count.
NextCountNoReset(band, n) == IF scene.hinge = band THEN Bump(n) ELSE n

\* The counter of a band after one sample: counted in its own band, restarted
\* by the others; "weak" is the gravity gate of poll_sensors and "shut" an
\* angle at or below min_angle, and neither touches a counter.
NextCount(band, n) ==
  CASE scene.hinge = band              -> Bump(n)
    [] scene.hinge \in {"shut", "weak"} -> n
    [] OTHER                           -> 0

\* update_tablet_mode.  n_count is written and never read, so it is left out.
UpdateTabletMode ==
  /\ t_count' = NextCount("tablet", t_count)
  /\ l_count' = NextCount("laptop", l_count)
  /\ \/ TurnsTablet /\ SetTabletMode(1)
     \/ TurnsLaptop /\ SetTabletMode(0)
     \/ ~TurnsTablet /\ ~TurnsLaptop /\ KeepMode

\* Mutant: force_landscape changes the state and emits nothing.
UpdateOrientationSilent ==
  LET o == OrientationDebounced
  IN /\ cur_orient'      = IF TurnsLaptop THEN Landscape ELSE o.cur
     /\ pending_orient'  = IF TurnsLaptop THEN Landscape ELSE o.pending
     /\ orient_debounce' = IF TurnsLaptop THEN 0 ELSE o.debounce
     /\ reported'        = o.reported
     /\ orient_age' = IF cur_orient' # cur_orient THEN 0 ELSE Bump(orient_age)
     /\ UNCHANGED panel_deg

\* The orientation after a poll: the debouncer's result, unless the hinge
\* turned to laptop mode, when force_landscape overrides it.
UpdateOrientation ==
  LET o == OrientationDebounced
  IN /\ cur_orient'      = IF TurnsLaptop THEN Landscape ELSE o.cur
     /\ pending_orient'  = IF TurnsLaptop THEN Landscape ELSE o.pending
     /\ orient_debounce' = IF TurnsLaptop THEN 0 ELSE o.debounce
     /\ reported'        = IF TurnsLaptop THEN Landscape ELSE o.reported
     /\ orient_age' = IF cur_orient' # cur_orient THEN 0 ELSE Bump(orient_age)
     /\ UNCHANGED panel_deg

Sample ==
  /\ i2c = "live"
  /\ UpdateTabletMode
  /\ UpdateOrientation
  /\ UNCHANGED <<i2c, lost>>

\* poll_sensors: the timer callback.
PollSensors ==
  /\ timer
  /\ RecoverI2c \/ Sample
  /\ UNCHANGED <<drvVars, envVars>>

-----------------------------------------------------------------------------
(* The user and the hardware *)

MoveLid ==
  /\ lid' = ~lid
  /\ lid_event' = lid_watch
  /\ UNCHANGED <<drvVars, i2c, lost, hingeVars, orientVars, chips, scene>>

MoveMachine ==
  /\ scene' \in Scenes \ {scene}
  /\ UNCHANGED <<drvVars, i2c, lost, hingeVars, orientVars, lid, lid_event, chips>>

\* Accelerometers stop answering (the kernel driver was bound again, the
\* adapter was reset): descriptors held go stale.
BusDrop ==
  /\ chips' \in 0 .. chips - 1
  /\ i2c' = IF i2c = "live" THEN "stale" ELSE i2c
  /\ UNCHANGED <<drvVars, lost, hingeVars, orientVars, lid, lid_event, scene>>

BusBack ==
  /\ chips' \in chips + 1 .. 2
  /\ UNCHANGED <<drvVars, i2c, lost, hingeVars, orientVars, lid, lid_event, scene>>

Environment == MoveLid \/ MoveMachine \/ BusDrop \/ BusBack

Next ==
  \/ Open \/ Close
  \/ \E state \in BOOLEAN : SetPolling(state)
  \/ LidEvent \/ LidHup
  \/ PollSensors
  \/ Environment

Spec == Init /\ [][Next]_vars

\* GLib dispatches a due timer and a readable descriptor.
Fairness == WF_vars(PollSensors) /\ WF_vars(LidEvent)
FairSpec == Spec /\ Fairness

-----------------------------------------------------------------------------
(* Properties *)

Count == 0 .. GMTR_DEBOUNCE + 1
Orient == -1 .. 3

\* Type invariant, the Boolean part of the state first.
FlagsOK ==
  /\ want_polling \in BOOLEAN /\ lid_closed \in BOOLEAN
  /\ lid_watch \in BOOLEAN /\ timer \in BOOLEAN
  /\ lid \in BOOLEAN /\ lid_event \in BOOLEAN

TypeOK ==
  /\ FlagsOK
  /\ dev \in {"open", "closed"}
  /\ i2c \in {"none", "stale", "live"}
  /\ chips \in 0 .. 2 /\ lost \in 0 .. FdRoom
  /\ mode \in {-1, 0, 1} /\ t_count \in Count /\ l_count \in Count
  /\ cur_orient \in Orient /\ pending_orient \in Orient
  /\ orient_debounce \in 0 .. GMTR_DEBOUNCE
  /\ panel_deg \in {0, 90, 180, 270} /\ reported \in Orient
  /\ sw \in {-1, 0, 1, Unsure} /\ kbd \in {0, 1, Unsure}
  /\ mode_age \in Count /\ orient_age \in Count
  /\ scene \in Scenes

\* Outside tablet mode nothing but landscape has been reported, is current or
\* is pending, however the display was turned in an earlier tablet mode
\* (update_orientation_debounce, force_landscape, send_current_reading).
LaptopIsLandscape ==
  mode # 1 => {cur_orient, pending_orient, reported} \subseteq {-1, Landscape}

\* Once a reading was handed out it is the debounced orientation: the proxy
\* never keeps an orientation the driver has moved on from.
ReportedIsCurrent == cur_orient # -1 => reported = cur_orient

\* The poll timer runs exactly while a client wants readings and the lid is
\* open, and no source of a closed device survives: poll_sensors and
\* lid_event_cb would run on freed memory.
TimerMatchesGate ==
  /\ timer <=> (dev = "open" /\ want_polling /\ ~lid_closed)
  /\ dev = "closed" => ~lid_watch

\* With every lid event read, the driver does not hold the lid for closed
\* while it is open (a lid_closed left TRUE would stop polling for good).
LidNotStuck == lid_watch /\ ~lid_event /\ lid_closed => lid

\* The machine never flaps: after a change of mode at least GMTR_DEBOUNCE
\* polls pass before the next one, whatever the angle does in between and
\* however often polling stops and starts (t_count and l_count survive that).
NoModeFlapping ==
  [][(mode # -1 /\ mode' \notin {-1, mode}) => mode_age >= GMTR_DEBOUNCE]_vars

\* "A debounce counter prevents rapid flickering": apart from the forced
\* landscape of a change to laptop mode, the current orientation changes only
\* after GMTR_DEBOUNCE polls without a change.
NoOrientationFlicker ==
  [][(/\ cur_orient # -1 /\ cur_orient' \notin {-1, cur_orient}
      /\ mode' = mode) => orient_age >= GMTR_DEBOUNCE]_vars

\* The inductive invariant of the proofs: the debounce counters never run
\* ahead of the number of polls since the value they guard last changed.
CountersWithinAge ==
  /\ mode = 0 => t_count <= mode_age
  /\ mode = 1 => l_count <= mode_age
  /\ orient_debounce <= orient_age

IInv ==
  /\ TypeOK
  /\ LaptopIsLandscape
  /\ ReportedIsCurrent
  /\ TimerMatchesGate
  /\ LidNotStuck
  /\ CountersWithinAge

\* Polling goes on with both accelerometers answering and descriptors left to
\* open them: every search that found one of the two has used one up, and
\* without two no search succeeds any more.
Steady(hinge) == timer /\ chips = 2 /\ FdRoom - lost >= 2 /\ scene.hinge = hinge

\* Folding decides: a hinge that stays in a band while polling goes on brings
\* the mode and (laptop) the landscape reading, and with them the switch and
\* the keyboard as far as the calls that tell them succeed; from any
\* history, a restart of the driver, a lost bus and searches that found one
\* accelerometer included.
PostureWins ==
  /\ <>[]Steady("tablet") =>
       <>[](mode = 1 /\ sw # 0 /\ kbd # 0)
  /\ <>[]Steady("laptop") =>
       <>[](mode = 0 /\ sw # 1 /\ kbd # 1 /\ reported = Landscape)

\* In tablet mode a display that keeps facing one way is eventually reported
\* that way.
OrientationFollows ==
  \A o \in 0 .. 3 :
    <>[](Steady("tablet") /\ scene.settled /\ scene.facing = o)
      => <>[](reported = compose_orientation(o, panel_deg))

\* "Polling ... resumes when it opens": with a live lid watch, an open lid and
\* a client, the timer comes back.
LidResumes ==
  <>[](lid_watch /\ ~lid /\ want_polling) => <>[]timer
=============================================================================
