---------------------------- MODULE Mxc6655_proof ----------------------------
(***************************************************************************)
(* Safety of the accelerometer driver for every debounce length, every set *)
(* of scenes and every static panel rotation.                              *)
(***************************************************************************)
EXTENDS Mxc6655, TLAPS

\* Composing an orientation with a panel rotation gives an orientation.
LEMMA ComposeType ==
  ASSUME NEW o \in 0 .. 3, NEW deg \in {0, 90, 180, 270}
  PROVE  compose_orientation(o, deg) \in 0 .. 3
  <1>1. CASE deg = 0   BY <1>1 DEF compose_orientation
  <1>2. CASE deg = 90  BY <1>2 DEF compose_orientation
  <1>3. CASE deg = 180 BY <1>3 DEF compose_orientation
  <1>4. CASE deg = 270 BY <1>4 DEF compose_orientation
  <1> QED BY <1>1, <1>2, <1>3, <1>4

\* The orientation reported in laptop mode is an orientation.
LEMMA LandscapeType == panel_deg \in {0, 90, 180, 270} => Landscape \in 0 .. 3
  BY ComposeType DEF Landscape, MXC_ORIENT_RIGHT

\* The degrees of a DRM panel orientation are a quarter turn.
LEMMA DegreesType ==
  ASSUME NEW drm PROVE panel_orient_degrees(drm) \in {0, 90, 180, 270}
  BY DEF panel_orient_degrees

\* A saturating counter stays in its range, never decreases and counts every
\* sample below the limit.
LEMMA BumpFacts ==
  ASSUME NEW n \in Count
  PROVE  /\ Bump(n) \in Count /\ Bump(n) >= n
         /\ n <= GMTR_DEBOUNCE => Bump(n) = n + 1
         /\ n > GMTR_DEBOUNCE => Bump(n) = n
  BY ConstAssumption DEF Count, Bump

\* A band's counter after a sample is at most one above its value before.
LEMMA NextCountFacts ==
  ASSUME NEW n \in Count, NEW band \in Bands, scene \in Scenes
  PROVE  /\ NextCount(band, n) \in Count
         /\ NextCount(band, n) <= Bump(n)
         /\ (scene.hinge \in {"tablet", "laptop"} /\ scene.hinge # band)
              => NextCount(band, n) = 0
  BY BumpFacts, ConstAssumption DEF NextCount, Count, Bands, AllScenes

\* One sample keeps the debouncer's state well typed and its count behind
\* the number of polls since the last change.
LEMMA DebounceFacts ==
  ASSUME IInv
  PROVE  LET o == OrientationDebounced
         IN /\ o.cur \in Orient /\ o.pending \in Orient /\ o.reported \in Orient
            /\ o.debounce \in 0 .. GMTR_DEBOUNCE
            /\ o.cur # -1 => o.reported = o.cur
            /\ mode # 1 => {o.cur, o.pending, o.reported}
                             \subseteq {-1, Landscape}
            /\ o.cur # cur_orient => /\ o.debounce = 0
                                     /\ orient_age >= GMTR_DEBOUNCE
            /\ o.debounce <= orient_debounce + 1
  <1>1. scene.facing \in Facings
    BY ConstAssumption DEF IInv, TypeOK, AllScenes
  <1>2. ~(scene.facing < 0) => NewOrient \in 0 .. 3
    <2>1. ~(scene.facing < 0) => scene.facing \in 0 .. 3 BY <1>1 DEF Facings
    <2> QED BY <2>1, ComposeType DEF IInv, TypeOK, MXC_ORIENT_RIGHT, NewOrient
  <1>3. mode # 1 => NewOrient = Landscape BY DEF Landscape, NewOrient
  <1> QED
    BY <1>2, <1>3, ConstAssumption
    DEF OrientationDebounced, DebounceExpired, IInv, TypeOK, Orient,
        LaptopIsLandscape, ReportedIsCurrent, CountersWithinAge, Count

-----------------------------------------------------------------------------
\* The invariant holds initially.
LEMMA InitIInv == Init => IInv
  <1> SUFFICES ASSUME Init PROVE IInv
    OBVIOUS
  <1>0. FlagsOK BY Zenon DEF Init, FlagsOK
  <1>1. TypeOK BY <1>0, ConstAssumption DEF Init, TypeOK, Count, Orient
  <1>2. TimerMatchesGate /\ LidNotStuck
    BY DEF Init, TimerMatchesGate, LidNotStuck
  <1>3. LaptopIsLandscape /\ ReportedIsCurrent /\ CountersWithinAge
    BY DEF Init, LaptopIsLandscape, ReportedIsCurrent, CountersWithinAge
  <1> QED BY <1>1, <1>2, <1>3 DEF IInv

\* The part of IInv that the user and the hardware cannot disturb: it is a
\* state function of everything but the lid, the bus and the scene.
LEMMA EnvironmentStep == IInv /\ Environment => IInv'
  <1> SUFFICES ASSUME IInv, Environment PROVE IInv'
    OBVIOUS
  <1> USE DEF IInv, Environment, MoveLid, MoveMachine, BusDrop, BusBack,
        drvVars, hingeVars, orientVars
  <1>0. FlagsOK'
    <2>1. /\ UNCHANGED <<want_polling, lid_closed, lid_watch, timer>>
          /\ lid' = lid \/ lid' = ~lid
          /\ lid_event' = lid_event \/ lid_event' = lid_watch
      OBVIOUS
    <2>2. FlagsOK BY DEF TypeOK
    <2> QED BY <2>1, <2>2, Zenon DEF FlagsOK
  <1>1. TypeOK' BY <1>0 DEF TypeOK
  <1>2. TimerMatchesGate'
    BY DEF TimerMatchesGate
  <1>3. LidNotStuck'
    BY DEF LidNotStuck, TypeOK, FlagsOK
  <1>4. LaptopIsLandscape' /\ ReportedIsCurrent' /\ CountersWithinAge'
    BY DEF LaptopIsLandscape, ReportedIsCurrent, CountersWithinAge, Landscape
  <1> QED BY <1>1, <1>2, <1>3, <1>4

\* Opening and closing the device, polling requests and lid events.
LEMMA DriverStep ==
  ASSUME IInv,
         Open \/ Close \/ (\E st \in BOOLEAN : SetPolling(st))
           \/ LidEvent \/ LidHup
  PROVE  IInv'
  <1> USE DEF IInv
  <1>1. CASE Open
    <2>1. panel_deg' \in {0, 90, 180, 270} BY <1>1, DegreesType DEF Open
    <2>0. FlagsOK'
      <3>1. UNCHANGED <<lid, lid_event>> BY <1>1 DEF Open
      <3>2. want_polling' = FALSE /\ timer' = FALSE BY <1>1 DEF Open
      <3>3. \E found, read_ok \in BOOLEAN :
              lid_watch' = found /\ lid_closed' = (found /\ read_ok /\ lid)
        BY <1>1, Zenon DEF Open
      <3>4. FlagsOK BY DEF TypeOK
      <3> QED BY <3>1, <3>2, <3>3, <3>4, Zenon DEF FlagsOK
    <2>2. TypeOK'
      BY <1>1, <2>0, <2>1, ConstAssumption DEF Open, FreshState, TypeOK, Count, Orient
    <2>3. TimerMatchesGate'
      BY <1>1 DEF Open, FreshState, TimerMatchesGate
    <2>4. LidNotStuck' BY <1>1 DEF Open, LidNotStuck
    <2>5. LaptopIsLandscape' /\ ReportedIsCurrent' /\ CountersWithinAge'
      BY <1>1 DEF Open, FreshState, LaptopIsLandscape, ReportedIsCurrent,
        CountersWithinAge
    <2> QED BY <2>2, <2>3, <2>4, <2>5
  <1>2. CASE Close
    <2>0. FlagsOK'
      <3>1. UNCHANGED <<lid>> BY <1>2 DEF Close
      <3>2. /\ want_polling' = FALSE /\ lid_closed' = lid_closed
            /\ lid_watch' = FALSE /\ lid_event' = FALSE
        BY <1>2 DEF Close, SetWantPolling
      <3>3. timer' = timer \/ timer' = (want_polling' /\ ~lid_closed')
        BY <1>2, Zenon DEF Close, SetWantPolling, UpdatePollingTimer
      <3>4. FlagsOK BY DEF TypeOK
      <3> QED BY <3>1, <3>2, <3>3, <3>4, Zenon DEF FlagsOK
    <2>1. TypeOK'
      BY <1>2, <2>0, ConstAssumption DEF Close, FreshState, TypeOK, Count, Orient
    <2>2. TimerMatchesGate' /\ LidNotStuck'
      BY <1>2 DEF Close, SetWantPolling, UpdatePollingTimer, FreshState,
        TimerMatchesGate, LidNotStuck
    <2>3. LaptopIsLandscape' /\ ReportedIsCurrent' /\ CountersWithinAge'
      BY <1>2 DEF Close, FreshState, LaptopIsLandscape, ReportedIsCurrent,
        CountersWithinAge
    <2> QED BY <2>1, <2>2, <2>3
  <1>3. ASSUME NEW st \in BOOLEAN, SetPolling(st) PROVE IInv'
    <2>1. Landscape \in 0 .. 3 BY LandscapeType DEF TypeOK
    <2>2. Landscape' = Landscape BY <1>3 DEF SetPolling, Landscape
    <2>0. FlagsOK'
      <3>1. UNCHANGED <<lid_watch, lid, lid_event>>
        BY <1>3 DEF SetPolling, hingeVars, envVars
      <3>2. want_polling' = st /\ lid_closed' = lid_closed
        BY <1>3 DEF SetPolling, SetWantPolling
      <3>3. timer' = timer \/ timer' = (want_polling' /\ ~lid_closed')
        BY <1>3, Zenon DEF SetPolling, SetWantPolling, UpdatePollingTimer
      <3>4. FlagsOK BY DEF TypeOK
      <3> QED BY <3>1, <3>2, <3>3, <3>4, Zenon DEF FlagsOK
    <2>3. TypeOK'
      BY <1>3, <2>0, <2>1 DEF SetPolling, CurrentReading, TypeOK, hingeVars, envVars, Orient
    <2>4. (TimerMatchesGate /\ LidNotStuck)'
      BY <1>3 DEF SetPolling, SetWantPolling, UpdatePollingTimer, TypeOK,
        FlagsOK, hingeVars, envVars, TimerMatchesGate, LidNotStuck
    <2>5. (LaptopIsLandscape /\ ReportedIsCurrent /\ CountersWithinAge)'
      BY <1>3, <2>1, <2>2 DEF SetPolling, CurrentReading, TypeOK, hingeVars, Orient,
        LaptopIsLandscape, ReportedIsCurrent, CountersWithinAge
    <2> QED BY <2>3, <2>4, <2>5
  <1>4. CASE LidEvent
    <2>0. FlagsOK'
      <3>1. UNCHANGED <<lid_watch, lid>>
        BY <1>4 DEF LidEvent, hingeVars
      <3>2. want_polling' = want_polling /\ lid_closed' = lid /\ lid_event' = FALSE
        BY <1>4 DEF LidEvent, set_lid_closed
      <3>3. timer' = timer \/ timer' = (want_polling' /\ ~lid_closed')
        BY <1>4, Zenon DEF LidEvent, set_lid_closed, UpdatePollingTimer
      <3>4. FlagsOK BY DEF TypeOK
      <3> QED BY <3>1, <3>2, <3>3, <3>4, Zenon DEF FlagsOK
    <2>1. TypeOK' BY <1>4, <2>0 DEF LidEvent, TypeOK, hingeVars, orientVars
    <2>2. TimerMatchesGate'
      BY <1>4 DEF LidEvent, set_lid_closed, UpdatePollingTimer, TypeOK,
        FlagsOK, TimerMatchesGate
    <2>3. LidNotStuck'
      BY <1>4 DEF LidEvent, set_lid_closed, LidNotStuck,
        hingeVars
    <2>4. LaptopIsLandscape' /\ ReportedIsCurrent' /\ CountersWithinAge'
      BY <1>4 DEF LidEvent, hingeVars, orientVars, Landscape,
        LaptopIsLandscape, ReportedIsCurrent, CountersWithinAge
    <2> QED BY <2>1, <2>2, <2>3, <2>4
  <1>5. CASE LidHup
    <2>0. FlagsOK'
      <3>1. UNCHANGED <<want_polling, lid_closed, timer, lid>>
        BY <1>5 DEF LidHup, hingeVars
      <3>2. lid_watch' = FALSE /\ lid_event' = FALSE BY <1>5 DEF LidHup
      <3>3. FlagsOK BY DEF TypeOK
      <3> QED BY <3>1, <3>2, <3>3, Zenon DEF FlagsOK
    <2>1. TypeOK' BY <1>5, <2>0 DEF LidHup, TypeOK, hingeVars, orientVars
    <2>2. TimerMatchesGate' /\ LidNotStuck'
      BY <1>5 DEF LidHup, TimerMatchesGate, LidNotStuck,
        hingeVars
    <2>3. LaptopIsLandscape' /\ ReportedIsCurrent' /\ CountersWithinAge'
      BY <1>5 DEF LidHup, hingeVars, orientVars, Landscape,
        LaptopIsLandscape, ReportedIsCurrent, CountersWithinAge
    <2> QED BY <2>1, <2>2, <2>3
  <1> QED BY <1>1, <1>2, <1>3, <1>4, <1>5

\* A poll: the hinge and the orientation debouncers, or a recovery.
LEMMA PollStep == IInv /\ PollSensors => IInv'
  <1> SUFFICES ASSUME IInv, PollSensors PROVE IInv'
    OBVIOUS
  <1> USE DEF IInv
  <1>0. UNCHANGED <<drvVars, envVars>> BY DEF PollSensors
  <1>1. CASE RecoverI2c
    <2>1. lost' \in 0 .. FdRoom /\ i2c' \in {"none", "live"}
      BY <1>1, ConstAssumption DEF RecoverI2c, FindAccels, TypeOK
    <2>2. UNCHANGED <<drvVars, envVars, hingeVars, orientVars>>
      BY <1>0, <1>1 DEF RecoverI2c
    <2>3. TypeOK'
      BY <2>1, <2>2 DEF drvVars, envVars, hingeVars, orientVars, TypeOK, FlagsOK
    <2> QED
      BY <2>2, <2>3 DEF drvVars, envVars, hingeVars, orientVars, Landscape, LaptopIsLandscape,
        ReportedIsCurrent, TimerMatchesGate, LidNotStuck, CountersWithinAge
  <1>2. CASE Sample
    <2> DEFINE o == OrientationDebounced
    <2>1. Landscape \in 0 .. 3 /\ Landscape' = Landscape
      BY <1>2, LandscapeType DEF TypeOK, Sample, UpdateOrientation, Landscape
    <2>2. /\ t_count' \in Count /\ l_count' \in Count
          /\ t_count' <= Bump(t_count) /\ l_count' <= Bump(l_count)
          /\ TurnsTablet => l_count' = 0
          /\ TurnsLaptop => t_count' = 0
      BY <1>2, NextCountFacts
      DEF Sample, UpdateTabletMode, TypeOK, Bands, TurnsTablet, TurnsLaptop
    <2>3. \/ TurnsTablet /\ ~TurnsLaptop /\ SetTabletMode(1)
          \/ TurnsLaptop /\ ~TurnsTablet /\ SetTabletMode(0)
          \/ ~TurnsTablet /\ ~TurnsLaptop /\ KeepMode
      BY <1>2 DEF Sample, UpdateTabletMode, TurnsTablet, TurnsLaptop
    <2>4. /\ cur_orient' = IF TurnsLaptop THEN Landscape ELSE o.cur
          /\ pending_orient' = IF TurnsLaptop THEN Landscape ELSE o.pending
          /\ orient_debounce' = IF TurnsLaptop THEN 0 ELSE o.debounce
          /\ reported' = IF TurnsLaptop THEN Landscape ELSE o.reported
          /\ orient_age' = IF cur_orient' # cur_orient
                           THEN 0 ELSE Bump(orient_age)
          /\ panel_deg' = panel_deg
      BY <1>2 DEF Sample, UpdateOrientation
    <2>5. /\ o.cur \in Orient /\ o.pending \in Orient /\ o.reported \in Orient
          /\ o.debounce \in 0 .. GMTR_DEBOUNCE
          /\ o.cur # -1 => o.reported = o.cur
          /\ mode # 1 => {o.cur, o.pending, o.reported} \subseteq {-1, Landscape}
          /\ o.cur # cur_orient => o.debounce = 0
          /\ o.debounce <= orient_debounce + 1
      BY DebounceFacts
    <2> HIDE DEF o
    <2>6. mode_age' \in Count /\ orient_age' \in Count
      BY <2>3, <2>4, BumpFacts, ConstAssumption
      DEF SetTabletMode, KeepMode, TypeOK, Count
    <2>7. TypeOK'
      <3>1. mode' \in {-1, 0, 1} /\ sw' \in {-1, 0, 1, Unsure}
            /\ kbd' \in {0, 1, Unsure}
        BY <2>3 DEF SetTabletMode, KeepMode, TypeOK, FlagsOK
      <3>2. /\ cur_orient' \in Orient /\ pending_orient' \in Orient
            /\ reported' \in Orient /\ orient_debounce' \in 0 .. GMTR_DEBOUNCE
            /\ panel_deg' \in {0, 90, 180, 270}
        BY <2>1, <2>4, <2>5, ConstAssumption DEF TypeOK, Orient
      <3> QED BY <1>0, <1>2, <2>2, <2>6, <3>1, <3>2
          DEF TypeOK, FlagsOK, drvVars, envVars, Sample
    <2>8. LaptopIsLandscape' /\ ReportedIsCurrent'
      BY <2>1, <2>3, <2>4, <2>5
      DEF SetTabletMode, KeepMode, TypeOK, TurnsTablet, TurnsLaptop,
          LaptopIsLandscape, ReportedIsCurrent
    <2>9. TimerMatchesGate' /\ LidNotStuck'
      BY <1>0 DEF TimerMatchesGate, LidNotStuck, drvVars, envVars
    <2>10. CountersWithinAge'
      <3>1. (mode' = 0 => t_count' <= mode_age')
              /\ (mode' = 1 => l_count' <= mode_age')
        BY <2>2, <2>3, BumpFacts, ConstAssumption
        DEF CountersWithinAge, SetTabletMode, KeepMode, TypeOK, Count, Bump
      <3>2. orient_debounce' <= orient_age'
        BY <2>4, <2>5, BumpFacts, ConstAssumption
        DEF CountersWithinAge, TypeOK, Count, Bump, TurnsLaptop
      <3> QED BY <3>1, <3>2 DEF CountersWithinAge
    <2> QED BY <2>7, <2>8, <2>9, <2>10
  <1> QED BY <1>1, <1>2 DEF PollSensors

\* Every step of the driver keeps the invariant.
LEMMA NextIInv == IInv /\ [Next]_vars => IInv'
  <1> SUFFICES ASSUME IInv, [Next]_vars PROVE IInv'
    OBVIOUS
  <1>1. CASE UNCHANGED vars
    BY <1>1 DEF vars, drvVars, hingeVars, orientVars, envVars, IInv, TypeOK, FlagsOK,
      Landscape, LaptopIsLandscape, ReportedIsCurrent, TimerMatchesGate,
      LidNotStuck, CountersWithinAge
  <1>2. CASE Next
    BY <1>2, EnvironmentStep, DriverStep, PollStep DEF Next
  <1> QED BY <1>1, <1>2

-----------------------------------------------------------------------------
\* Every state the driver reaches satisfies the invariant.
THEOREM Invariance == Spec => []IInv
  BY InitIInv, NextIInv, PTL DEF Spec

\* Type correctness.
THEOREM TypeCorrect == Spec => []TypeOK
  <1>1. IInv => TypeOK BY DEF IInv
  <1> QED BY <1>1, Invariance, PTL

\* Outside tablet mode only landscape is ever current, pending or reported.
THEOREM LaptopLandscapeCorrect == Spec => []LaptopIsLandscape
  <1>1. IInv => LaptopIsLandscape BY DEF IInv
  <1> QED BY <1>1, Invariance, PTL

\* The poll timer runs exactly while it should, and no source of the driver
\* outlives the device.
THEOREM TimerCorrect == Spec => []TimerMatchesGate
  <1>1. IInv => TimerMatchesGate BY DEF IInv
  <1> QED BY <1>1, Invariance, PTL

\* The driver never holds an open lid for closed once it has read all events.
THEOREM LidCorrect == Spec => []LidNotStuck
  <1>1. IInv => LidNotStuck BY DEF IInv
  <1> QED BY <1>1, Invariance, PTL

\* The last reading handed out is the debounced orientation.
THEOREM ReportedCorrect == Spec => []ReportedIsCurrent
  <1>1. IInv => ReportedIsCurrent BY DEF IInv
  <1> QED BY <1>1, Invariance, PTL

\* Two changes of mode are GMTR_DEBOUNCE polls apart.
THEOREM ModeFlapping == Spec => NoModeFlapping
  <1>1. IInv /\ [Next]_vars =>
          [(mode # -1 /\ mode' \notin {-1, mode})
             => mode_age >= GMTR_DEBOUNCE]_vars
    <2> SUFFICES ASSUME IInv, Next, mode # -1, mode' \notin {-1, mode}
                 PROVE  mode_age >= GMTR_DEBOUNCE
      OBVIOUS
    <2>1. PollSensors /\ Sample
      BY DEF Next, Open, FreshState, Close, SetPolling, hingeVars, LidEvent,
        LidHup, Environment, MoveLid, MoveMachine, BusDrop, BusBack,
        PollSensors, RecoverI2c
    <2>2. \/ TurnsTablet /\ mode' = 1
          \/ TurnsLaptop /\ mode' = 0
      BY <2>1 DEF Sample, UpdateTabletMode, SetTabletMode, KeepMode
    <2> QED
      BY <2>2, ConstAssumption
      DEF TurnsTablet, TurnsLaptop, DebounceExpired, IInv, TypeOK,
          CountersWithinAge, Count
  <1> QED BY <1>1, Invariance, PTL DEF Spec, NoModeFlapping

\* Two changes of orientation within a mode are GMTR_DEBOUNCE polls apart.
THEOREM OrientationFlicker == Spec => NoOrientationFlicker
  <1>1. IInv /\ [Next]_vars =>
          [(/\ cur_orient # -1 /\ cur_orient' \notin {-1, cur_orient}
            /\ mode' = mode) => orient_age >= GMTR_DEBOUNCE]_vars
    <2> SUFFICES ASSUME IInv, Next, cur_orient # -1, mode' = mode,
                        cur_orient' \notin {-1, cur_orient}
                 PROVE  orient_age >= GMTR_DEBOUNCE
      OBVIOUS
    <2>1. PollSensors /\ Sample
      BY DEF Next, Open, FreshState, Close, SetPolling, orientVars, LidEvent,
        LidHup, Environment, MoveLid, MoveMachine, BusDrop, BusBack,
        PollSensors, RecoverI2c
    <2>2. ~TurnsLaptop
      BY <2>1 DEF Sample, UpdateTabletMode, SetTabletMode, TurnsLaptop,
        TurnsTablet
    <2>3. OrientationDebounced.cur # cur_orient
      BY <2>1, <2>2 DEF Sample, UpdateOrientation
    <2> QED BY <2>3, DebounceFacts
  <1> QED BY <1>1, Invariance, PTL DEF Spec, NoOrientationFlicker
=============================================================================
