------------------------- MODULE KernelModules_proof -------------------------
(***************************************************************************)
(* The safety properties of the kernel modules, for any brightness range,  *)
(* PCI devices, table size, tables, DSDT and gates, and any number of      *)
(* loads, sleeps and transfers: the keyboard shows what was set, the I2C   *)
(* fixup is complete and gives back what it took, and the DPTF enabler     *)
(* ends with the devices of all set gates looked for.  Together with the   *)
(* theorem on minibook_ec they hold of the composition.                    *)
(***************************************************************************)
EXTENDS KernelModules, EcDriver_proof, FiniteSetTheorems

-----------------------------------------------------------------------------
(* Keyboard backlight *)

\* As long as nobody interfered, the duty is the value from its write on, and
\* with the timer suspended the gate follows from the write of the gate on.
\* That ReadSuspend may go past the gate is right because suspended cannot
\* change then without interference.
KbdInv ==
  /\ led \in {"idle", "write duty", "write setpoint", "read suspend", "write gate", "note"}
  /\ alone /\ led # "write duty" => dcr = value
  /\ alone /\ suspended /\ led \in {"note", "idle"} => (gated <=> value = 0)

\* The invariant of the keyboard backlight holds at the start.
LEMMA KbdInitInv == Init => KbdInv
BY DEF Init, KbdInv

\* Every step of the LED worker, the poll work, the timer's attribute and the
\* firmware keeps it.
LEMMA KbdNextInv == KbdInv /\ [Next]_vars => KbdInv'
<1> SUFFICES ASSUME KbdInv, [Next]_vars PROVE KbdInv'
  OBVIOUS
<1> USE DEF KbdInv, ecVars, ledVars, pollVars
<1>1. ASSUME NEW v \in Brightness, Set(v) PROVE KbdInv'
  BY <1>1 DEF Set
<1>2. CASE WriteDuty
  BY <1>2 DEF WriteDuty
<1>3. CASE WriteSetpoint
  BY <1>3 DEF WriteSetpoint
<1>4. CASE ReadSuspend
  BY <1>4 DEF ReadSuspend
<1>5. CASE WriteGate
  BY <1>5 DEF WriteGate, GateFor
<1>6. CASE Note
  BY <1>6 DEF Note
<1>7. ASSUME NEW b \in BOOLEAN, StoreAutoOff(b) PROVE KbdInv'
  BY <1>7 DEF StoreAutoOff
<1>8. CASE PollStep
  <2>1. UNCHANGED <<dcr, suspended, gated, led, value, alone>>
    BY <1>8 DEF PollStep, PollGate, PollDuty, PollCompare, PollRemember, PollNotify
  <2> QED
    BY <2>1
<1>9. CASE Firmware
  BY <1>9 DEF Firmware, AutoOff, KeyPressed, FnKey
<1>10. CASE UNCHANGED vars
  BY <1>10 DEF vars
<1> QED
  BY <1>1, <1>2, <1>3, <1>4, <1>5, <1>6, <1>7, <1>8, <1>9, <1>10 DEF Next, LedStep

\* The invariant gives the property.
LEMMA KbdInvEffect == KbdInv => SetTakesEffect
BY DEF KbdInv, SetTakesEffect, Visible

-----------------------------------------------------------------------------
(* I2C fixup *)

Controllers == [dev : D, fs : Int, hs : Int]
Registers == [enable : {0, 1}, busy : BOOLEAN, fs : Int, hs : Int, gate : Int]
Fixes == {"check", "wait", "write", "write_off", "enable"}

SpklenType ==
  /\ spc \in {"unloaded", "scan", "idle", "slept"} \cup Fixes
  /\ at \in Nat /\ ctl \in Seq(Controllers)
  /\ regs \in [D -> Registers] /\ refs \in [D -> Int] /\ mapped \subseteq D

\* The lengths of controller i are as chosen, or its driver interfered.
Done(i) ==
  \/ ctl[i].dev \in disturbed
  \/ regs[ctl[i].dev].fs = ctl[i].fs /\ (ctl[i].hs = 0 \/ regs[ctl[i].dev].hs = ctl[i].hs)

\* The progress of apply_all: the controllers before the current one are done,
\* and up to the write the current one is off or has been interfered with.
FixInv ==
  /\ spc \in Fixes => at \in DOMAIN ctl /\ \A i \in 1..(at - 1) : Done(i)
  /\ spc \in {"wait", "write", "write_off"} =>
       ctl[at].dev \in disturbed \/ regs[ctl[at].dev].enable = 0
  /\ spc = "enable" => Done(at)
  /\ spc = "idle" /\ ~missed => \A i \in DOMAIN ctl : Done(i)
  /\ spc \in {"idle", "slept"} => 1 \in DOMAIN ctl

\* The controllers are different devices, so fixing one leaves the others.
Distinct == \A i, j \in DOMAIN ctl : i # j => ctl[i].dev # ctl[j].dev

\* The devices of the table, and the usable ones before device n.
Devs == {ctl[i].dev : i \in DOMAIN ctl}
UsableBefore(n) == {e \in 1..(n - 1) : Usable(e)}

\* The scan has taken every usable device it passed.
ScanInv ==
  spc = "scan" => /\ at \in 1..(Len(Devices) + 1)
                  /\ \A i \in DOMAIN ctl : ctl[i].dev < at
                  /\ Len(ctl) = Cardinality(UsableBefore(at))

\* The references and mappings the module accounts for.
HeldInv ==
  /\ mapped = IF spc = "unloaded" THEN {} ELSE Devs
  /\ \A d \in D : refs[d] # (IF spc # "unloaded" /\ d \in Devs THEN 1 ELSE 0) => DidNotFit(d)

SpklenInv == SpklenType /\ FixInv /\ Distinct /\ ScanInv /\ HeldInv

\* The invariant of the fixup holds at the start.
LEMMA SpklenInitInv == SpklenInit => SpklenInv
<1> SUFFICES ASSUME SpklenInit PROVE SpklenInv
  OBVIOUS
<1>1. PowerOn \in Registers
  BY DEF PowerOn, Registers
<1>2. SpklenType
  BY <1>1 DEF SpklenInit, SpklenType
<1> QED
  BY <1>2 DEF SpklenInit, SpklenInv, FixInv, Distinct, ScanInv, HeldInv, Fixes

\* The scan: the number of controllers is that of the usable devices passed.
LEMMA UsableBeforeNext ==
  ASSUME NEW n \in Nat \ {0}
  PROVE  /\ IsFiniteSet(UsableBefore(n)) /\ Cardinality(UsableBefore(n)) \in Nat
         /\ Cardinality(UsableBefore(n + 1)) =
              Cardinality(UsableBefore(n)) + (IF Usable(n) THEN 1 ELSE 0)
<1>1. IsFiniteSet(1..(n - 1))
  BY FS_Interval
<1>2. IsFiniteSet(UsableBefore(n))
  BY <1>1, FS_Subset DEF UsableBefore
<1>3. Cardinality(UsableBefore(n)) \in Nat
  BY <1>2, FS_CardinalityType
<1>4. UsableBefore(n + 1) = IF Usable(n) THEN UsableBefore(n) \cup {n} ELSE UsableBefore(n)
  BY DEF UsableBefore
<1>5. n \notin UsableBefore(n)
  BY DEF UsableBefore
<1> QED
  BY <1>2, <1>3, <1>4, <1>5, FS_AddElement

\* What the types say of a controller.
LEMMA ControllerType ==
  /\ D \subseteq Nat
  /\ SpklenType => /\ DOMAIN ctl = 1..Len(ctl) /\ Len(ctl) \in Nat
                   /\ \A i \in DOMAIN ctl : /\ ctl[i] \in Controllers /\ ctl[i].dev \in D
                                              /\ ctl[i].fs \in Int /\ ctl[i].hs \in Int
<1>1. D \subseteq Nat
  BY SpklenAssumption DEF D
<1>2. ASSUME SpklenType
      PROVE  /\ DOMAIN ctl = 1..Len(ctl) /\ Len(ctl) \in Nat
             /\ \A i \in DOMAIN ctl : ctl[i] \in Controllers
  BY <1>2 DEF SpklenType
<1>3. \A c \in Controllers : c.dev \in D /\ c.fs \in Int /\ c.hs \in Int
  BY DEF Controllers
<1> QED
  BY <1>1, <1>2, <1>3

\* The load, and the scan of one device.
LEMMA ScanSteps == SpklenInv /\ (LoadSpklen \/ ScanDevice) => SpklenInv'
<1>1. ASSUME SpklenInv, LoadSpklen PROVE SpklenInv'
  <2>1. UsableBefore(1) = {} /\ Cardinality({}) = 0
    BY FS_EmptySet DEF UsableBefore
  <2>2. SpklenType' /\ Devs' = {} /\ Len(ctl') = 0 /\ DOMAIN ctl' = {}
    BY <1>1 DEF SpklenInv, SpklenType, LoadSpklen, Devs
  <2>3. ScanInv'
    BY <1>1, <2>1, <2>2, SpklenAssumption DEF ScanInv, LoadSpklen, UsableBefore, Usable, is_adl_n_i2c
  <2>4. HeldInv'
    BY <1>1, <2>2 DEF SpklenInv, HeldInv, LoadSpklen, DidNotFit, Usable, is_adl_n_i2c
  <2> QED
    BY <1>1, <2>2, <2>3, <2>4 DEF SpklenInv, LoadSpklen, FixInv, Distinct, Fixes
<1>2. ASSUME SpklenInv, ScanDevice PROVE SpklenInv'
  <2> DEFINE new == [dev |-> at, fs |-> pick_fs_spklen(at), hs |-> pick_hs_spklen(at)]
  <2>1. at \in D /\ at \in Nat \ {0} /\ at + 1 \in 1..(Len(Devices) + 1)
    BY <1>2, SpklenAssumption DEF SpklenInv, ScanInv, ScanDevice, D
  <2>2. new \in Controllers
    <3>1. FsParam \in Int /\ HsParam \in Int
      BY SpklenAssumption
    <3>2. pick_fs_spklen(at) \in Int
      BY <3>1 DEF pick_fs_spklen
    <3>3. pick_hs_spklen(at) \in Int
      BY <3>1 DEF pick_hs_spklen
    <3> QED
      BY <2>1, <3>2, <3>3 DEF Controllers
  <2>3. ctl \in Seq(Controllers) /\ Len(ctl) \in Nat
    BY <1>2 DEF SpklenInv, SpklenType
  <2>4. spc' = "scan" /\ spc = "scan" /\ at' = at + 1 /\ UNCHANGED <<regs, disturbed>>
    BY <1>2 DEF ScanDevice
  <2>5. /\ Cardinality(UsableBefore(at)) \in Nat
        /\ Cardinality(UsableBefore(at + 1)) =
             Cardinality(UsableBefore(at)) + (IF Usable(at) THEN 1 ELSE 0)
    BY <2>1, UsableBeforeNext
  <2>6. Cardinality(UsableBefore(at))' = Cardinality(UsableBefore(at + 1))
    BY <2>4 DEF UsableBefore, Usable, is_adl_n_i2c
  <2> HIDE DEF new
  <2>7. CASE Usable(at)
    <3>1. /\ ctl' = Append(ctl, new) /\ mapped' = mapped \cup {at}
          /\ refs' = [refs EXCEPT ![at] = @ + 1]
      BY <1>2, <2>7 DEF ScanDevice, new
    <3>2. /\ ctl' \in Seq(Controllers) /\ Len(ctl') = Len(ctl) + 1
          /\ DOMAIN ctl' = 1..(Len(ctl) + 1) /\ DOMAIN ctl = 1..Len(ctl)
          /\ ctl'[Len(ctl) + 1] = new
          /\ \A i \in DOMAIN ctl : ctl'[i] = ctl[i]
      BY <2>2, <2>3, <3>1
    <3>3. new.dev = at /\ \A i \in DOMAIN ctl : ctl[i].dev < at /\ ctl[i].dev \in Nat
      BY <1>2, <2>4, ControllerType DEF SpklenInv, ScanInv, new
    <3>4. Devs' = Devs \cup {at} /\ at \notin Devs
      BY <2>1, <2>3, <3>2, <3>3 DEF Devs
    <3>5. SpklenType'
      BY <1>2, <2>1, <2>4, <3>1, <3>2 DEF SpklenInv, SpklenType
    <3>6. Distinct'
      BY <1>2, <2>1, <2>3, <3>2, <3>3 DEF SpklenInv, Distinct
    <3>7. ScanInv'
      <4>1. Len(ctl') = Cardinality(UsableBefore(at))'
        BY <1>2, <2>3, <2>4, <2>5, <2>6, <2>7, <3>2 DEF SpklenInv, ScanInv
      <4>2. \A i \in DOMAIN ctl' : ctl'[i].dev < at'
        BY <2>1, <2>3, <2>4, <3>2, <3>3
      <4> QED
        BY <2>1, <2>4, <4>1, <4>2 DEF ScanInv
    <3>8. HeldInv'
      <4>1. mapped' = Devs'
        BY <1>2, <2>4, <3>1, <3>4 DEF SpklenInv, HeldInv
      <4>2. ASSUME NEW d \in D, refs'[d] # (IF d \in Devs' THEN 1 ELSE 0) PROVE DidNotFit(d)
        <5>1. refs[d] # IF d \in Devs THEN 1 ELSE 0
          BY <1>2, <2>1, <3>1, <3>4, <4>2 DEF SpklenInv, SpklenType
        <5> QED
          BY <1>2, <2>4, <5>1 DEF SpklenInv, HeldInv
      <4> QED
        BY <2>4, <4>1, <4>2 DEF HeldInv, DidNotFit, Usable, is_adl_n_i2c
    <3> QED
      BY <2>4, <3>5, <3>6, <3>7, <3>8 DEF SpklenInv, FixInv, Fixes
  <2>8. CASE ~Usable(at)
    <3>1. UNCHANGED <<ctl, mapped, refs>>
      BY <1>2, <2>8 DEF ScanDevice
    <3>2. ScanInv'
      <4>1. Len(ctl') = Cardinality(UsableBefore(at))'
        BY <1>2, <2>3, <2>4, <2>5, <2>6, <2>8, <3>1 DEF SpklenInv, ScanInv
      <4>2. \A i \in DOMAIN ctl : ctl[i].dev < at /\ ctl[i].dev \in Nat
        BY <1>2, <2>4, ControllerType DEF SpklenInv, ScanInv
      <4> QED
        BY <2>1, <2>4, <3>1, <4>1, <4>2 DEF ScanInv
    <3>3. SpklenType' /\ FixInv' /\ Distinct'
      BY <1>2, <2>1, <2>4, <3>1 DEF SpklenInv, SpklenType, FixInv, Distinct, Fixes
    <3>4. HeldInv'
      BY <1>2, <2>4, <3>1 DEF SpklenInv, HeldInv, Devs, DidNotFit, Usable, is_adl_n_i2c
    <3> QED
      BY <3>2, <3>3, <3>4 DEF SpklenInv
  <2> QED
    BY <2>7, <2>8
<1> QED
  BY <1>1, <1>2

\* The end of the scan: at most the device that did not fit keeps a reference.
LEMMA EndScanInv == SpklenInv /\ EndScan => SpklenInv'
<1> SUFFICES ASSUME SpklenInv, EndScan PROVE SpklenInv'
  OBVIOUS
<1>1. ctl \in Seq(Controllers) /\ Len(ctl) \in Nat /\ DOMAIN ctl = 1..Len(ctl) /\ spc = "scan"
  BY DEF SpklenInv, SpklenType, EndScan
<1>2. UNCHANGED <<ctl, regs, mapped, disturbed>> /\ at' = 1
  BY DEF EndScan
<1>3. spc' = IF ctl = <<>> THEN "unloaded" ELSE "check"
  BY DEF EndScan
<1>4. at \in D => DidNotFit(at)
  BY <1>1, SpklenAssumption DEF EndScan, Full, DidNotFit, SpklenInv, ScanInv, UsableBefore, D
<1>5. /\ refs' \in [D -> Int]
      /\ \A d \in D : refs'[d] # refs[d] => DidNotFit(d)
  <2>1. CASE at > Len(Devices)
    BY <2>1 DEF EndScan, SpklenInv, SpklenType
  <2>2. CASE ~(at > Len(Devices))
    <3>1. at \in D
      BY <1>1, <2>2, SpklenAssumption DEF D, SpklenInv, ScanInv
    <3>2. refs' = [refs EXCEPT ![at] = @ + 1]
      BY <2>2 DEF EndScan
    <3> QED
      BY <1>4, <3>1, <3>2 DEF SpklenInv, SpklenType
  <2> QED
    BY <2>1, <2>2
<1>6. Devs' = Devs /\ (ctl = <<>> => Devs = {})
  BY <1>2 DEF Devs
<1>7. HeldInv'
  <2>1. mapped' = IF spc' = "unloaded" THEN {} ELSE Devs'
    BY <1>1, <1>2, <1>3, <1>6 DEF SpklenInv, HeldInv
  <2>2. ASSUME NEW d \in D, refs'[d] # (IF spc' # "unloaded" /\ d \in Devs' THEN 1 ELSE 0)
        PROVE  DidNotFit(d)
    BY <1>1, <1>3, <1>5, <1>6, <2>2 DEF SpklenInv, HeldInv
  <2> QED
    BY <2>1, <2>2 DEF HeldInv, DidNotFit, Usable, is_adl_n_i2c
<1>8. FixInv'
  <2>1. ctl # <<>> => 1 \in DOMAIN ctl
    BY <1>1
  <2> QED
    BY <1>2, <1>3, <2>1 DEF FixInv, Fixes
<1> QED
  BY <1>1, <1>2, <1>3, <1>5, <1>7, <1>8 DEF SpklenInv, SpklenType, Distinct, ScanInv, Fixes

\* A step of apply_all, on the registers of the current controller only.
LEMMA Elsewhere ==
  ASSUME SpklenInv, spc \in Fixes, NEW r \in Registers,
         regs' = [regs EXCEPT ![C.dev] = r], UNCHANGED <<ctl, mapped, refs>>,
         \A d \in D : d # C.dev => (d \in disturbed' <=> d \in disturbed)
  PROVE  /\ at \in DOMAIN ctl /\ C.dev \in D /\ regs'[C.dev] = r
         /\ regs' \in [D -> Registers]
         /\ \A i \in 1..(at - 1) : Done(i)'
         /\ Distinct' /\ Devs' = Devs
<1>1. at \in DOMAIN ctl /\ C.dev \in D
  BY ControllerType DEF SpklenInv, FixInv, C
<1>2. regs' \in [D -> Registers] /\ regs'[C.dev] = r
  BY <1>1 DEF SpklenInv, SpklenType
<1>3. ASSUME NEW i \in 1..(at - 1) PROVE Done(i)'
  <2>1. i \in DOMAIN ctl /\ i # at /\ ctl[i].dev \in D
    BY <1>1, ControllerType DEF SpklenInv, SpklenType
  <2>2. ctl[i].dev # C.dev
    BY <1>1, <2>1 DEF SpklenInv, Distinct, C
  <2>3. regs'[ctl[i].dev] = regs[ctl[i].dev]
    BY <1>1, <2>1, <2>2 DEF SpklenInv, SpklenType
  <2>4. Done(i)
    BY DEF SpklenInv, FixInv
  <2> QED
    BY <2>1, <2>2, <2>3, <2>4 DEF Done
<1>4. Distinct' /\ Devs' = Devs
  BY DEF SpklenInv, Distinct, Devs
<1> QED
  BY <1>1, <1>2, <1>3, <1>4

\* A step that ends the fixup of a controller, with its lengths as chosen or
\* its driver's interference on record.
LEMMA Finished ==
  ASSUME SpklenInv, spc \in Fixes, NEW r \in Registers,
         regs' = [regs EXCEPT ![C.dev] = r], UNCHANGED <<ctl, mapped, refs>>,
         \A d \in D : d # C.dev => (d \in disturbed' <=> d \in disturbed),
         NextController,
         C.dev \in disturbed' \/ (r.fs = C.fs /\ (C.hs = 0 \/ r.hs = C.hs))
  PROVE  SpklenInv'
<1>1. /\ at \in DOMAIN ctl /\ C.dev \in D /\ regs'[C.dev] = r
      /\ regs' \in [D -> Registers]
      /\ \A i \in 1..(at - 1) : Done(i)'
      /\ Distinct' /\ Devs' = Devs
  BY Elsewhere
<1>2. at \in Nat /\ Len(ctl) \in Nat /\ DOMAIN ctl = 1..Len(ctl) /\ at \in 1..Len(ctl)
  BY <1>1, ControllerType DEF SpklenInv, SpklenType
<1>3. \A i \in 1..at : Done(i)'
  BY <1>1, <1>2 DEF Done, C
<1>4. CASE at < Len(ctl)
  <2>1. spc' = "check" /\ at' = at + 1
    BY <1>4 DEF NextController
  <2>2. FixInv'
    BY <1>2, <1>3, <1>4, <2>1 DEF FixInv, Fixes
  <2>3. SpklenType'
    BY <1>1, <1>2, <2>1 DEF SpklenInv, SpklenType, Fixes
  <2>4. ScanInv'
    BY <2>1 DEF ScanInv
  <2>5. HeldInv'
    BY <1>1, <1>2, <2>1 DEF SpklenInv, HeldInv, Fixes, DidNotFit, Usable, is_adl_n_i2c
  <2> QED
    BY <1>1, <2>2, <2>3, <2>4, <2>5 DEF SpklenInv
<1>5. CASE ~(at < Len(ctl))
  <2>1. spc' = "idle" /\ at' = 0 /\ at = Len(ctl)
    BY <1>2, <1>5 DEF NextController
  <2>2. FixInv'
    BY <1>2, <1>3, <2>1 DEF FixInv, Fixes
  <2> QED
    BY <1>1, <2>1, <2>2
    DEF SpklenInv, SpklenType, ScanInv, HeldInv, Fixes, DidNotFit, Usable, is_adl_n_i2c
<1> QED
  BY <1>4, <1>5

\* A step in the middle of the fixup of a controller.
LEMMA Continued ==
  ASSUME SpklenInv, spc \in Fixes, NEW r \in Registers, NEW to \in Fixes \ {"check"},
         Fixing(r, to),
         \A d \in D : d # C.dev => (d \in disturbed' <=> d \in disturbed),
         to # "enable" => C.dev \in disturbed' \/ r.enable = 0,
         to = "enable" =>
           C.dev \in disturbed' \/ (r.fs = C.fs /\ (C.hs = 0 \/ r.hs = C.hs))
  PROVE  SpklenInv'
<1>1. /\ regs' = [regs EXCEPT ![C.dev] = r] /\ spc' = to
      /\ UNCHANGED <<at, ctl, mapped, refs>>
  BY DEF Fixing
<1>2. /\ at \in DOMAIN ctl /\ C.dev \in D /\ regs'[C.dev] = r
      /\ regs' \in [D -> Registers]
      /\ \A i \in 1..(at - 1) : Done(i)'
      /\ Distinct' /\ Devs' = Devs
  BY <1>1, Elsewhere
<1>3. to = "enable" => Done(at)'
  BY <1>1, <1>2 DEF Done, C
<1>4. to # "enable" => ctl'[at'].dev \in disturbed' \/ regs'[ctl'[at'].dev].enable = 0
  BY <1>1, <1>2 DEF C
<1>5. FixInv'
  BY <1>1, <1>2, <1>3, <1>4 DEF FixInv, Fixes
<1> QED
  BY <1>1, <1>2, <1>5
  DEF SpklenInv, SpklenType, ScanInv, HeldInv, Fixes, DidNotFit, Usable, is_adl_n_i2c

\* apply_fixup and apply_clkgate, step by step.
LEMMA FixSteps ==
  ASSUME SpklenInv, CheckController \/ WaitDisabled \/ WriteSpklen \/ EnableController
  PROVE  SpklenInv'
<1>1. spc \in Fixes
  BY DEF CheckController, WaitDisabled, WriteSpklen, EnableController, Fixes
<1>2. C.dev \in D /\ C.fs \in Int /\ C.hs \in Int
  BY <1>1, ControllerType DEF SpklenInv, FixInv, C
<1>3. R \in Registers
  BY <1>2 DEF SpklenInv, SpklenType, R
<1>4. Gated \in Registers /\ Gated.fs = R.fs /\ Gated.hs = R.hs
  BY <1>3 DEF Gated, Registers
<1>5. /\ Written \in Registers
      /\ R.enable = 0 => Written.fs = C.fs /\ (C.hs = 0 \/ Written.hs = C.hs)
  <2>1. R.enable = 1 => Written = R
    BY DEF Written
  <2>2. CASE R.enable # 1 /\ C.hs = 0
    <3>1. Written \in Registers /\ Written.fs = C.fs
      BY <1>2, <1>3, <2>2 DEF Written, Registers
    <3> QED
      BY <2>2, <3>1
  <2>3. CASE R.enable # 1 /\ C.hs # 0
    <3>1. Written \in Registers /\ Written.fs = C.fs /\ Written.hs = C.hs
      BY <1>2, <1>3, <2>3 DEF Written, Registers
    <3> QED
      BY <3>1
  <2> QED
    BY <1>3, <2>1, <2>2, <2>3
<1>6. CASE CheckController
  <2>1. \A d \in D : d # C.dev => (d \in disturbed' <=> d \in disturbed)
    BY <1>6 DEF CheckController
  <2>2. CASE Programmed
    <3>1. regs' = [regs EXCEPT ![C.dev] = Gated] /\ NextController /\ UNCHANGED <<ctl, mapped, refs>>
      BY <1>6, <2>2 DEF CheckController
    <3>2. Gated.fs = C.fs /\ (C.hs = 0 \/ Gated.hs = C.hs)
      BY <1>4, <2>2 DEF Programmed
    <3> QED
      BY <1>1, <1>4, <2>1, <3>1, <3>2, Finished
  <2>3. CASE ~Programmed
    <3> DEFINE r == [R EXCEPT !.enable = 0]
               to == IF R.enable = 1 THEN "wait" ELSE "write_off"
    <3>1. r \in Registers /\ r.enable = 0
      BY <1>3 DEF Registers
    <3>2. Fixing(r, to) /\ to \in Fixes \ {"check"} /\ to # "enable"
      BY <1>6, <2>3 DEF CheckController, Fixes
    <3> HIDE DEF r, to
    <3> QED
      BY <1>1, <2>1, <3>1, <3>2, Continued
  <2> QED
    BY <2>2, <2>3
<1>7. CASE WaitDisabled
  <2>1. CASE ~R.busy
    <3>1. Fixing(R, "write") /\ disturbed' = disturbed
      BY <1>7, <2>1 DEF WaitDisabled
    <3>2. C.dev \in disturbed \/ R.enable = 0
      BY <1>7 DEF WaitDisabled, SpklenInv, FixInv, C, R
    <3>3. "write" \in Fixes \ {"check"}
      BY DEF Fixes
    <3> QED
      BY <1>1, <1>3, <3>1, <3>2, <3>3, Continued
  <2>2. CASE R.busy
    <3>1. /\ disturbed' = disturbed \cup {C.dev} /\ regs' = [regs EXCEPT ![C.dev] = Gated]
          /\ NextController /\ UNCHANGED <<ctl, mapped, refs>>
      BY <1>7, <2>2 DEF WaitDisabled
    <3> QED
      BY <1>1, <1>4, <3>1, Finished
  <2> QED
    BY <2>1, <2>2
<1>8. CASE WriteSpklen
  <2>1. disturbed' = disturbed /\ spc \in {"write", "write_off"}
    BY <1>8 DEF WriteSpklen
  <2>2. C.dev \in disturbed \/ (Written.fs = C.fs /\ (C.hs = 0 \/ Written.hs = C.hs))
    BY <1>5, <2>1 DEF SpklenInv, FixInv, C, R
  <2>3. CASE spc = "write"
    <3>1. Fixing(Written, "enable") /\ "enable" \in Fixes \ {"check"}
      BY <1>8, <2>3 DEF WriteSpklen, Fixes
    <3> QED
      BY <1>1, <1>5, <2>1, <2>2, <3>1, Continued
  <2>4. CASE spc = "write_off"
    <3> DEFINE r == [Written EXCEPT !.gate = Gated.gate]
    <3>1. /\ regs' = [regs EXCEPT ![C.dev] = r] /\ NextController /\ UNCHANGED <<ctl, mapped, refs>>
      BY <1>8, <2>4 DEF WriteSpklen
    <3>2. r \in Registers /\ r.fs = Written.fs /\ r.hs = Written.hs
      BY <1>4, <1>5 DEF Registers
    <3> HIDE DEF r
    <3> QED
      BY <1>1, <2>1, <2>2, <3>1, <3>2, Finished
  <2> QED
    BY <2>1, <2>3, <2>4
<1>9. CASE EnableController
  <2> DEFINE r == [Gated EXCEPT !.enable = 1]
  <2>1. /\ regs' = [regs EXCEPT ![C.dev] = r] /\ NextController
        /\ UNCHANGED <<ctl, mapped, refs, disturbed>>
    BY <1>9 DEF EnableController
  <2>2. r \in Registers /\ r.fs = R.fs /\ r.hs = R.hs
    BY <1>4 DEF Registers
  <2>3. C.dev \in disturbed \/ (R.fs = C.fs /\ (C.hs = 0 \/ R.hs = C.hs))
    BY <1>9 DEF EnableController, SpklenInv, FixInv, Done, C, R
  <2> HIDE DEF r
  <2> QED
    BY <1>1, <2>1, <2>2, <2>3, Finished
<1> QED
  BY <1>6, <1>7, <1>8, <1>9

\* Sleep, resume, unload and the transfers of the controllers' driver.
LEMMA OtherSteps ==
  ASSUME SpklenInv,
         \/ Sleep \/ UnloadSpklen \/ UNCHANGED svars
         \/ \E e \in Events : pm_handler(e)
         \/ \E d \in D : StartTransfer(d) \/ EndTransfer(d)
  PROVE  SpklenInv'
<1>1. CASE Sleep
  <2>1. PowerOn \in Registers
    BY DEF PowerOn, Registers
  <2>2. SpklenType'
    BY <1>1, <2>1 DEF Sleep, SpklenInv, SpklenType
  <2>3. spc = "idle" /\ spc' = "slept" /\ UNCHANGED <<at, ctl, mapped, refs>>
    BY <1>1 DEF Sleep
  <2> QED
    BY <2>2, <2>3 DEF SpklenInv, FixInv, Distinct, ScanInv, HeldInv, Devs, Fixes, DidNotFit, Usable,
                  is_adl_n_i2c
<1>2. CASE UnloadSpklen
  <2>1. ASSUME NEW d \in D
        PROVE  Cardinality({i \in DOMAIN ctl : ctl[i].dev = d}) = IF d \in Devs THEN 1 ELSE 0
    <3>1. CASE d \in Devs
      <4>1. PICK j \in DOMAIN ctl : ctl[j].dev = d
        BY <3>1 DEF Devs
      <4>2. {i \in DOMAIN ctl : ctl[i].dev = d} = {j}
        BY <4>1 DEF SpklenInv, Distinct
      <4> QED
        BY <3>1, <4>2, FS_Singleton
    <3>2. CASE d \notin Devs
      <4>1. {i \in DOMAIN ctl : ctl[i].dev = d} = {}
        BY <3>2 DEF Devs
      <4> QED
        BY <3>2, <4>1, FS_EmptySet
    <3> QED
      BY <3>1, <3>2
  <2>2. /\ spc = "idle" /\ spc' = "unloaded" /\ mapped' = mapped \ Devs
        /\ UNCHANGED <<at, ctl, regs, disturbed>>
        /\ refs' = [d \in D |-> refs[d] - Cardinality({i \in DOMAIN ctl : ctl[i].dev = d})]
    BY <1>2 DEF UnloadSpklen, Devs
  <2>3. ASSUME NEW d \in D
        PROVE  refs'[d] \in Int /\ (refs'[d] # 0 => DidNotFit(d))
    <3>1. refs'[d] = refs[d] - (IF d \in Devs THEN 1 ELSE 0) /\ refs[d] \in Int
      BY <2>1, <2>2 DEF SpklenInv, SpklenType
    <3> QED
      BY <2>2, <3>1 DEF SpklenInv, HeldInv
  <2>4. refs' \in [D -> Int]
    BY <2>2, <2>3
  <2>5. mapped' = {}
    BY <2>2 DEF SpklenInv, HeldInv
  <2>6. HeldInv'
    BY <2>2, <2>3, <2>5 DEF HeldInv, DidNotFit, Usable, is_adl_n_i2c
  <2> QED
    BY <2>2, <2>4, <2>5, <2>6 DEF SpklenInv, SpklenType, FixInv, Distinct, ScanInv, Fixes
<1>3. CASE UNCHANGED svars
  BY <1>3 DEF svars, SpklenInv, SpklenType, FixInv, Done, Distinct, ScanInv, HeldInv, Devs, UsableBefore,
              DidNotFit, Usable, is_adl_n_i2c
<1>4. ASSUME NEW e \in Events, pm_handler(e)
      PROVE  SpklenInv'
  <2>1. /\ spc = "slept" /\ UNCHANGED <<ctl, regs, mapped, refs, disturbed>>
        /\ (spc' = "check" /\ at' = 1) \/ (spc' = "idle" /\ at' = 0 /\ missed')
    BY <1>4 DEF pm_handler
  <2>2. 1 \in DOMAIN ctl
    BY <2>1 DEF SpklenInv, FixInv
  <2>3. FixInv'
    BY <2>1, <2>2 DEF FixInv, Fixes
  <2>4. HeldInv'
    BY <2>1 DEF SpklenInv, HeldInv, Devs, DidNotFit, Usable, is_adl_n_i2c
  <2> QED
    BY <2>1, <2>3, <2>4 DEF SpklenInv, SpklenType, Distinct, ScanInv, Fixes
<1>5. ASSUME NEW d \in D, StartTransfer(d) \/ EndTransfer(d) PROVE SpklenInv'
  <2>1. /\ UNCHANGED <<spc, at, ctl, mapped, refs, missed>> /\ disturbed \subseteq disturbed'
        /\ regs' \in [D -> Registers]
        /\ \A e \in D : regs'[e].fs = regs[e].fs /\ regs'[e].hs = regs[e].hs
        /\ \A e \in D : \/ regs[e].enable = 0 => regs'[e].enable = 0
                        \/ e = d /\ (BeingFixed(d) => d \in disturbed')
    <3>1. CASE StartTransfer(d)
      <4>1. regs[d] \in Registers /\ regs \in [D -> Registers]
        BY DEF SpklenInv, SpklenType
      <4> DEFINE q == [regs[d] EXCEPT !.enable = 1, !.busy = TRUE]
      <4>2. q \in Registers /\ q.fs = regs[d].fs /\ q.hs = regs[d].hs
        BY <4>1 DEF Registers
      <4>3. regs' = [regs EXCEPT ![d] = q]
        BY <3>1, <4>1 DEF StartTransfer
      <4> HIDE DEF q
      <4> QED
        BY <3>1, <4>1, <4>2, <4>3 DEF StartTransfer
    <3>2. CASE EndTransfer(d)
      <4>1. regs[d] \in Registers /\ regs \in [D -> Registers]
        BY DEF SpklenInv, SpklenType
      <4>2. PICK e \in {0, regs[d].enable} : regs' = [regs EXCEPT ![d].busy = FALSE, ![d].enable = e]
        BY <3>2 DEF EndTransfer
      <4> DEFINE q == [regs[d] EXCEPT !.busy = FALSE, !.enable = e]
      <4>3. /\ q \in Registers /\ q.fs = regs[d].fs /\ q.hs = regs[d].hs
            /\ regs[d].enable = 0 => q.enable = 0
        BY <4>1, <4>2 DEF Registers
      <4>4. regs' = [regs EXCEPT ![d] = q]
        BY <4>1, <4>2
      <4> HIDE DEF q
      <4> QED
        BY <3>2, <4>1, <4>3, <4>4 DEF EndTransfer
    <3> QED
      BY <1>5, <3>1, <3>2
  <2>2. \A i \in DOMAIN ctl : Done(i) => Done(i)'
    BY <2>1, ControllerType DEF Done, SpklenInv
  <2>3. FixInv'
    <3>1. spc \in {"wait", "write", "write_off"} =>
            ctl[at].dev \in disturbed' \/ regs'[ctl[at].dev].enable = 0
      BY <2>1, ControllerType DEF BeingFixed, SpklenInv, FixInv, Fixes, C
    <3>2. spc \in Fixes => \A i \in 1..(at - 1) : i \in DOMAIN ctl
      BY ControllerType DEF SpklenInv, SpklenType, FixInv
    <3> QED
      BY <2>1, <2>2, <3>1, <3>2 DEF SpklenInv, FixInv, Fixes
  <2> QED
    BY <2>1, <2>3 DEF SpklenInv, SpklenType, Distinct, ScanInv, HeldInv, Devs, UsableBefore,
                      DidNotFit, Usable, is_adl_n_i2c
<1> QED
  BY <1>1, <1>2, <1>3, <1>4, <1>5

\* Every step of the fixup keeps its invariant.
LEMMA SpklenNextInv == SpklenInv /\ [SpklenNext]_svars => SpklenInv'
BY ScanSteps, EndScanInv, FixSteps, OtherSteps DEF SpklenNext

\* The invariant gives the property.
LEMMA SpklenInvComplete == SpklenInv => FixupComplete
BY DEF SpklenInv, FixInv, HeldInv, Done, FixupComplete

-----------------------------------------------------------------------------
(* dptf_enabler *)

\* While the flags are being set nothing is promised; before that, what
\* earlier loads set has been found or was left by a scan that failed, so
\* that a load that skips the scan leaves nothing new behind.
DptfInv ==
    /\ flag \in [Gates -> BOOLEAN]
    /\ dphase \in {"out", "mapped"} => \A g \in Gates : flag[g] => g \in found \cup unscanned

\* A load that finds every flag it asks for already set changes no flag.
LEMMA NothingToSet ==
    ASSUME flag \in [Gates -> BOOLEAN], SET_FLAGS, ~\E g \in Asked : ~flag[g]
    PROVE  flag' = flag
BY DEF SET_FLAGS

\* Loads and their steps keep the invariant.
LEMMA DptfStep == DptfInv /\ [DptfNext]_dvars => DptfInv'
<1> SUFFICES ASSUME DptfInv, [DptfNext]_dvars
             PROVE  DptfInv'
  OBVIOUS
<1>1. ASSUME NEW f \in BOOLEAN, NEW s \in BOOLEAN, Load([fans |-> f, sensors |-> s])
      PROVE  DptfInv'
  BY <1>1 DEF DptfInv, Load
<1>2. CASE SET_FLAGS
  <2>1. flag' \in [Gates -> BOOLEAN]
    BY <1>2 DEF SET_FLAGS, DptfInv
  <2>2. CASE \E g \in Asked : ~flag[g]
    BY <1>2, <2>1, <2>2 DEF SET_FLAGS, DptfInv
  <2>3. CASE ~\E g \in Asked : ~flag[g]
    BY <1>2, <2>1, <2>3, NothingToSet DEF SET_FLAGS, DptfInv
  <2> QED
    BY <2>2, <2>3
<1>3. CASE RunOsc
  BY <1>3 DEF DptfInv, RunOsc
<1>4. CASE acpi_bus_scan
  BY <1>4 DEF DptfInv, acpi_bus_scan
<1>5. CASE UNCHANGED dvars
  BY <1>5 DEF DptfInv, dvars
<1> QED
  BY <1>1, <1>2, <1>3, <1>4, <1>5 DEF DptfNext

\* Once a load is over, every device whose gate is set has been looked for.
THEOREM DiscoveredCorrect == DptfSpec => []DevicesDiscovered
<1>1. DptfInit => DptfInv
  BY DEF DptfInit, DptfInv
<1>2. DptfInv => DevicesDiscovered
  BY DEF DptfInv, DevicesDiscovered
<1> QED
  BY <1>1, DptfStep, <1>2, PTL DEF DptfSpec

-----------------------------------------------------------------------------
(* The machine *)

KernelInv == EcInv /\ KbdInv /\ SpklenInv /\ DptfInv

\* The parts start in their initial states, whichever of them will be active.
LEMMA KernelInitInv == KernelInit => KernelInv
<1>1. KernelInit => EcInit /\ Init /\ SpklenInit /\ DptfInit
  BY DEF KernelInit, EcRests, KbdRests, DptfRests
<1>2. DptfInit => DptfInv
  BY DEF DptfInit, DptfInv
<1> QED
  BY <1>1, <1>2, EcInitInv, KbdInitInv, SpklenInitInv DEF KernelInv

\* A step of the machine is a step, or none, of each part.
LEMMA KernelNextInv == KernelInv /\ [KernelNext]_kernelVars => KernelInv'
<1>1. EcInv /\ [EcNext]_ecvars => EcInv'
  BY ProbeInv, RemoveInv, CallbackInv DEF EcNext
<1>2. [KernelNext]_kernelVars =>
        /\ [EcNext]_ecvars /\ [Next]_vars /\ [SpklenNext]_svars /\ [DptfNext]_dvars
  BY DEF KernelNext, kernelVars
<1> QED
  BY <1>1, <1>2, KbdNextInv, SpklenNextInv, DptfStep DEF KernelInv

\* The invariants of the four modules hold in every behaviour of the machine.
THEOREM KernelInvariant == KernelSpec => []KernelInv
BY KernelInitInv, KernelNextInv, PTL DEF KernelSpec

\* kbd_bl_brightness_set takes effect, for any brightness range.
THEOREM SetCorrect == KernelSpec => []SetTakesEffect
<1>1. KernelInv => SetTakesEffect
  BY KbdInvEffect DEF KernelInv
<1> QED
  BY <1>1, KernelInvariant, PTL

\* i2c_designware_spklen programs every controller it found and gives back
\* what it took, for any devices and any size of its table.
THEOREM FixupCorrect == KernelSpec => []FixupComplete
<1>1. KernelInv => FixupComplete
  BY SpklenInvComplete DEF KernelInv
<1> QED
  BY <1>1, KernelInvariant, PTL

\* On the whole machine too, the memory of minibook_ec outlives its callbacks
\* and dptf_enabler's devices are looked for.
THEOREM MachineCorrect == KernelSpec => [](MemoryOutlivesCallbacks /\ DevicesDiscovered)
<1>1. EcInv => MemoryOutlivesCallbacks
  BY DEF EcInv, Lifetimes, MemoryOutlivesCallbacks, Interfaces, SocPhases, ChargerPhases, WorkPhases,
         LedPhases, FanPhases, SysfsPhases
<1>2. KernelInv => MemoryOutlivesCallbacks /\ DevicesDiscovered
  BY <1>1 DEF KernelInv, DptfInv, DevicesDiscovered
<1> QED
  BY <1>2, KernelInvariant, PTL
=============================================================================
