---------------------------- MODULE KbdBacklight -----------------------------
(***************************************************************************)
(* The keyboard backlight of minibook_ec (minibook_ec_kbd_backlight.c).    *)
(* Three kernel threads meet on four EC registers without a common lock:   *)
(* the LED worker (kbd_bl_brightness_set), the writer of auto_off_timer    *)
(* and the optional poll work that reports what the EC did on its own; the *)
(* EC firmware changes the same registers.  A step is one register access, *)
(* atomic by I2ecBus, or one access to last_observed.                      *)
(***************************************************************************)
EXTENDS Integers

CONSTANT KBD_BL_MAX_BRIGHTNESS

ASSUME BrightnessAssumption == KBD_BL_MAX_BRIGHTNESS \in Nat \ {0}

Brightness == 0 .. KBD_BL_MAX_BRIGHTNESS

VARIABLES
  dcr, setpoint,   \* 0x1803 and 0x03E2
  suspended,       \* 0x0411 holds the magic: auto_off_timer is 0
  gated,           \* bit 6 of 0x1611: the output is off
  last_observed,
  led, value,      \* LED worker: its next step, the brightness it sets
  poll, current,   \* poll work: its next step, current_bri
  known,           \* brightness a listener of the LED class takes for true
  alone            \* history: nothing but the LED worker wrote since Set

ledVars == <<led, value>>
pollVars == <<poll, current>>
ecVars == <<dcr, setpoint, suspended, gated>>
vars == <<ecVars, last_observed, ledVars, pollVars, known, alone>>

\* kbd_bl_brightness_get, as one look.
Visible == IF gated THEN 0 ELSE dcr

Init ==
  /\ dcr \in Brightness /\ setpoint = dcr
  /\ suspended \in BOOLEAN /\ gated \in BOOLEAN
  /\ last_observed = Visible /\ known = Visible
  /\ led = "idle" /\ value = 0
  /\ poll = "read gate" /\ current = 0
  /\ alone = FALSE

-----------------------------------------------------------------------------
(* LED worker: kbd_bl_brightness_set *)

\* The LED core's work item runs one set at a time.
Set(v) ==
  /\ led = "idle"
  /\ led' = "write duty" /\ value' = v /\ known' = v /\ alone' = TRUE
  /\ UNCHANGED <<ecVars, last_observed, pollVars>>

\* kbd_bl_set_duty
WriteDuty ==
  /\ led = "write duty" /\ dcr' = value /\ led' = "write setpoint"
  /\ UNCHANGED <<setpoint, suspended, gated, last_observed, value, pollVars,
                 known, alone>>

WriteSetpoint ==
  /\ led = "write setpoint" /\ setpoint' = value /\ led' = "read suspend"
  /\ UNCHANGED <<dcr, suspended, gated, last_observed, value, pollVars, known,
                 alone>>

\* kbd_bl_timer_suspended
ReadSuspend ==
  /\ led = "read suspend"
  /\ led' = IF suspended THEN "write gate" ELSE "note"
  /\ UNCHANGED <<ecVars, last_observed, value, pollVars, known, alone>>

\* Mutant: the output is switched off and never on.
GateForOffOnly(v) == gated \/ v = 0

\* The bit kbd_bl_set_output(value != 0) writes; the other bits of the port
\* are left out, so its read is no step of its own.
GateFor(v) == v = 0

WriteGate ==
  /\ led = "write gate" /\ gated' = GateFor(value) /\ led' = "note"
  /\ UNCHANGED <<dcr, setpoint, suspended, last_observed, value, pollVars,
                 known, alone>>

\* The last statement of kbd_bl_brightness_set.
Note ==
  /\ led = "note" /\ last_observed' = value /\ led' = "idle"
  /\ UNCHANGED <<ecVars, value, pollVars, known, alone>>

LedStep == WriteDuty \/ WriteSetpoint \/ ReadSuspend \/ WriteGate \/ Note

-----------------------------------------------------------------------------
(* auto_off_timer_store *)

StoreAutoOff(enable) ==
  /\ suspended' = ~enable /\ alone' = FALSE
  /\ UNCHANGED <<dcr, setpoint, gated, last_observed, ledVars, pollVars, known>>

-----------------------------------------------------------------------------
(* kbd_bl_poll_work, which runs when poll_hw_changed was given *)

\* The first read of kbd_bl_brightness_get: a gated output counts as 0.
PollGate ==
  /\ poll = "read gate"
  /\ poll' = IF gated THEN "compare" ELSE "read duty"
  /\ current' = 0
  /\ UNCHANGED <<ecVars, last_observed, ledVars, known, alone>>

PollDuty ==
  /\ poll = "read duty" /\ current' = dcr /\ poll' = "compare"
  /\ UNCHANGED <<ecVars, last_observed, ledVars, known, alone>>

\* Mutant: only a light that came on is a change.
ChangedUpward == current > last_observed

Changed == current # last_observed

PollCompare ==
  /\ poll = "compare"
  /\ poll' = IF Changed THEN "remember" ELSE "read gate"
  /\ UNCHANGED <<ecVars, last_observed, ledVars, current, known, alone>>

PollRemember ==
  /\ poll = "remember" /\ last_observed' = current /\ poll' = "notify"
  /\ UNCHANGED <<ecVars, ledVars, current, known, alone>>

\* led_classdev_notify_brightness_hw_changed, then the work queues itself.
PollNotify ==
  /\ poll = "notify" /\ known' = current /\ poll' = "read gate"
  /\ UNCHANGED <<ecVars, last_observed, ledVars, current, alone>>

PollStep == PollGate \/ PollDuty \/ PollCompare \/ PollRemember \/ PollNotify

-----------------------------------------------------------------------------
(* EC firmware, as the driver's comments describe it *)

\* The 30-tick timer runs out.
AutoOff ==
  /\ ~suspended /\ ~gated
  /\ gated' = TRUE /\ alone' = FALSE
  /\ UNCHANGED <<dcr, setpoint, suspended, last_observed, ledVars, pollVars, known>>

\* The activity-reset path drives the gate from the setpoint.
KeyPressed ==
  /\ gated # (setpoint = 0)
  /\ gated' = (setpoint = 0) /\ alone' = FALSE
  /\ UNCHANGED <<dcr, setpoint, suspended, last_observed, ledVars, pollVars, known>>

\* The Fn key steps the brightness.
FnKey(v) ==
  /\ dcr' = v /\ setpoint' = v /\ gated' = (v = 0) /\ alone' = FALSE
  /\ UNCHANGED <<suspended, last_observed, ledVars, pollVars, known>>

Firmware == AutoOff \/ KeyPressed \/ \E v \in Brightness : FnKey(v)

Next ==
  \/ \E v \in Brightness : Set(v)
  \/ LedStep
  \/ \E enable \in BOOLEAN : StoreAutoOff(enable)
  \/ PollStep
  \/ Firmware

Spec == Init /\ [][Next]_vars

\* The kernel runs queued work.
Fairness == WF_vars(LedStep) /\ WF_vars(PollStep)
FairSpec == Spec /\ Fairness

-----------------------------------------------------------------------------
(* Properties *)

\* With the timer suspended, what was set is what the keyboard shows, whatever
\* state the gate was in: the driver opens and closes it because the firmware
\* would do so only at the next key press.
SetTakesEffect == led = "idle" /\ alone /\ suspended => Visible = value

\* A brightness that stays is in the end the one the poll work remembers, so
\* no change of the EC's goes unseen for good, however the poll's and the LED
\* worker's accesses to last_observed fell.
PollConverges ==
  \A v \in Brightness :
    <>[](led = "idle" /\ Visible = v) => <>[](last_observed = v)

\* "If auto_off_timer is active ... we do not touch the gate from the driver,
\* because we'd be racing the EC".
GateLeftToFirmware == [][WriteGate => suspended]_vars

\* "surfaces deltas ... so UPower / GNOME / KDE can pick them up": a listener
\* ends up with the brightness the keyboard shows.
ListenersCatchUp ==
  \A v \in Brightness :
    <>[](led = "idle" /\ Visible = v) => <>[](known = v)
=============================================================================
