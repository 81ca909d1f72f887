------------------------------- MODULE Spklen -------------------------------
(***************************************************************************)
(* The i2c_designware_spklen module: it programs the spike suppression of   *)
(* the I2C controllers it finds when it is loaded and after every resume,   *)
(* one register access at a time, while the controllers' own driver starts  *)
(* and ends transfers without knowing of it.                                *)
(***************************************************************************)
EXTENDS Integers, Sequences, FiniteSets

CONSTANTS
    Devices,        \* sequence of PCI devices: [id, bar, maps, priv, speed]
    Known,          \* adl_n_i2c_ids
    MAX_CONTROLLERS,
    FsParam, HsParam,   \* fs_spklen and hs_spklen, 0 for automatic
    MaxSleeps, MaxTransfers, MaxLeaks   \* bounds

ASSUME SpklenAssumption ==
    /\ Len(Devices) \in Nat /\ DOMAIN Devices = 1..Len(Devices)
    /\ MAX_CONTROLLERS \in Nat \ {0} /\ FsParam \in 0..255 /\ HsParam \in 0..255

VARIABLES
    spc,        \* where the module is: unloaded, in a step of init or apply_all, idle
    at,         \* the device being scanned or the controller being fixed
    ctl,        \* controllers: [dev, fs, hs]
    regs,       \* device -> [enable, busy, fs, hs, gate]
    mapped, refs,   \* devices mapped, and references held on each
    disturbed,  \* devices enabled by their driver during a fixup, or timed out
    missed,     \* a hibernation has passed since the last fixup
    sleeps, transfers

svars == <<spc, at, ctl, regs, mapped, refs, disturbed, missed, sleeps, transfers>>

D == DOMAIN Devices
PowerOn == [enable |-> 0, busy |-> FALSE, fs |-> 1, hs |-> 1, gate |-> 0]

SpklenInit ==
    /\ spc = "unloaded" /\ at = 0 /\ ctl = <<>>
    /\ regs = [d \in D |-> PowerOn] /\ mapped = {} /\ refs = [d \in D |-> 0]
    /\ disturbed = {} /\ missed = FALSE /\ sleeps = 0 /\ transfers = 0

pick_fs_spklen(d) == IF FsParam # 0 THEN FsParam ELSE IF Devices[d].speed = "standard" THEN 1 ELSE 6
pick_hs_spklen(d) == IF HsParam # 0 THEN HsParam ELSE IF Devices[d].speed = "high" THEN 2 ELSE 0
is_adl_n_i2c(d) == Devices[d].id \in Known
Usable(d) == is_adl_n_i2c(d) /\ Devices[d].bar /\ Devices[d].maps

-----------------------------------------------------------------------------
(* No bound of the code's: MaxLeaks only ends the loads that lose references. *)
LoadSpklen ==
    /\ spc = "unloaded" /\ \A d \in D : refs[d] < MaxLeaks
    /\ spc' = "scan" /\ at' = 1 /\ ctl' = <<>> /\ missed' = FALSE
    /\ UNCHANGED <<regs, mapped, refs, disturbed, sleeps, transfers>>

Full == is_adl_n_i2c(at) /\ Len(ctl) >= MAX_CONTROLLERS
(* One turn of the scan: pci_get_device moves its own reference on, the     *)
(* controller's reference stays.                                            *)
ScanDevice ==
    /\ spc = "scan" /\ at <= Len(Devices) /\ ~Full
    /\ at' = at + 1
    /\ IF Usable(at)
       THEN /\ ctl' = Append(ctl, [dev |-> at, fs |-> pick_fs_spklen(at), hs |-> pick_hs_spklen(at)])
            /\ mapped' = mapped \cup {at}
            /\ refs' = [refs EXCEPT ![at] = @ + 1]
       ELSE UNCHANGED <<ctl, mapped, refs>>
    /\ UNCHANGED <<spc, regs, disturbed, missed, sleeps, transfers>>

(* The scan ends with the devices, or breaks off with the reference of the  *)
(* device that did not fit.                                                 *)
EndScan ==
    /\ spc = "scan"
    /\ at \in D => Full
    /\ refs' = IF at > Len(Devices) THEN refs ELSE [refs EXCEPT ![at] = @ + 1]
    /\ spc' = IF ctl = <<>> THEN "unloaded" ELSE "check"
    /\ at' = 1
    /\ UNCHANGED <<ctl, regs, mapped, disturbed, missed, sleeps, transfers>>

-----------------------------------------------------------------------------
(* apply_all: apply_fixup and apply_clkgate for each controller.            *)
C == ctl[at]
R == regs[C.dev]
Programmed == R.fs = C.fs /\ (C.hs = 0 \/ R.hs = C.hs)
Gated == IF Devices[C.dev].priv THEN [R EXCEPT !.gate = 1] ELSE R

NextController ==
    IF at < Len(ctl) THEN spc' = "check" /\ at' = at + 1 ELSE spc' = "idle" /\ at' = 0
Fixing(r, to) ==
    /\ regs' = [regs EXCEPT ![C.dev] = r] /\ spc' = to
    /\ UNCHANGED <<at, ctl, mapped, refs, missed, sleeps, transfers>>

CheckController ==
    /\ spc = "check"
    /\ disturbed' = disturbed \ {C.dev}
    /\ IF Programmed THEN /\ regs' = [regs EXCEPT ![C.dev] = Gated] /\ NextController
                      /\ UNCHANGED <<ctl, mapped, refs, missed, sleeps, transfers>>
       ELSE Fixing([R EXCEPT !.enable = 0], IF R.enable = 1 THEN "wait" ELSE "write_off")

(* wait_controller_disabled polls the status a bounded number of times.     *)
WaitDisabled ==
    /\ spc = "wait"
    /\ IF ~R.busy THEN Fixing(R, "write") /\ UNCHANGED disturbed
       ELSE /\ disturbed' = disturbed \cup {C.dev}
            /\ regs' = [regs EXCEPT ![C.dev] = Gated] /\ NextController
            /\ UNCHANGED <<ctl, mapped, refs, missed, sleeps, transfers>>

(* The hardware takes the lengths only while the controller is disabled.    *)
Written == IF R.enable = 1 THEN R ELSE [R EXCEPT !.fs = C.fs, !.hs = IF C.hs = 0 THEN @ ELSE C.hs]
WriteSpklen ==
    /\ spc \in {"write", "write_off"} /\ UNCHANGED disturbed
    /\ IF spc = "write" THEN Fixing(Written, "enable")
       ELSE /\ regs' = [regs EXCEPT ![C.dev] = [Written EXCEPT !.gate = Gated.gate]] /\ NextController
            /\ UNCHANGED <<ctl, mapped, refs, missed, sleeps, transfers>>
EnableController ==
    /\ spc = "enable"
    /\ regs' = [regs EXCEPT ![C.dev] = [Gated EXCEPT !.enable = 1]] /\ NextController
    /\ UNCHANGED <<ctl, mapped, refs, disturbed, missed, sleeps, transfers>>

-----------------------------------------------------------------------------
(* A sleep ends with the PM event of its kind, PM_POST_SUSPEND or, once the *)
(* saved image runs again, PM_POST_HIBERNATION; PM_POST_RESTORE is sent     *)
(* when an image could not be restored.  The registers are as at power-on   *)
(* after it, or as they were if it was given up.                            *)
Events == {"PM_POST_SUSPEND", "PM_POST_HIBERNATION", "PM_POST_RESTORE"}
Sleep ==
    /\ spc = "idle" /\ sleeps < MaxSleeps /\ sleeps' = sleeps + 1
    /\ regs' \in {regs, [d \in D |-> PowerOn]} /\ spc' = "slept"
    /\ UNCHANGED <<at, ctl, mapped, refs, disturbed, missed, transfers>>
pm_handlerRestoreOnly(event) ==     \* mutant: not after a suspend
    /\ spc = "slept"
    /\ IF event = "PM_POST_RESTORE" THEN spc' = "check" /\ at' = 1 ELSE spc' = "idle" /\ at' = 0
    /\ missed' = (event = "PM_POST_HIBERNATION")
    /\ UNCHANGED <<ctl, regs, mapped, refs, disturbed, sleeps, transfers>>
(* pm_handler runs apply_all after two of the three events; the one after a *)
(* hibernation is not among them.                                           *)
pm_handler(event) ==
    /\ spc = "slept"
    /\ IF event \in {"PM_POST_SUSPEND", "PM_POST_RESTORE"}
       THEN spc' = "check" /\ at' = 1 /\ missed' = FALSE
       ELSE spc' = "idle" /\ at' = 0 /\ missed' = TRUE
    /\ UNCHANGED <<ctl, regs, mapped, refs, disturbed, sleeps, transfers>>

UnloadSpklen ==
    /\ spc = "idle" /\ spc' = "unloaded"
    /\ mapped' = mapped \ {ctl[i].dev : i \in DOMAIN ctl}
    /\ refs' = [d \in D |-> refs[d] - Cardinality({i \in DOMAIN ctl : ctl[i].dev = d})]
    /\ UNCHANGED <<at, ctl, regs, disturbed, missed, sleeps, transfers>>

(* The controllers' driver: it enables a controller for a transfer and      *)
(* disables it after; the controller is busy until the transfer ends.       *)
BeingFixed(d) == spc \in {"wait", "write", "write_off", "enable"} /\ C.dev = d
StartTransfer(d) ==
    /\ regs[d].enable = 0 /\ transfers < MaxTransfers /\ transfers' = transfers + 1
    /\ regs' = [regs EXCEPT ![d].enable = 1, ![d].busy = TRUE]
    /\ disturbed' = IF BeingFixed(d) THEN disturbed \cup {d} ELSE disturbed
    /\ UNCHANGED <<spc, at, ctl, mapped, refs, missed, sleeps>>
EndTransfer(d) ==
    /\ regs[d].busy
    /\ \E e \in {0, regs[d].enable} : regs' = [regs EXCEPT ![d].busy = FALSE, ![d].enable = e]
    /\ UNCHANGED <<spc, at, ctl, mapped, refs, disturbed, missed, sleeps, transfers>>

SpklenNext ==
    \/ LoadSpklen \/ ScanDevice \/ EndScan \/ CheckController \/ WaitDisabled \/ WriteSpklen
    \/ EnableController \/ Sleep \/ UnloadSpklen
    \/ \E e \in Events : pm_handler(e)
    \/ \E d \in D : StartTransfer(d) \/ EndTransfer(d)

(* The table was full before the scan came to device d.                     *)
DidNotFit(d) == is_adl_n_i2c(d) /\ Cardinality({e \in 1..(d - 1) : Usable(e)}) >= MAX_CONTROLLERS

(* Between its runs the module leaves every controller it found with the    *)
(* lengths it chose, through suspends and image restores that failed, but   *)
(* for a controller whose driver enabled it in the middle of the fixup or   *)
(* that did not stop in time, and not from a hibernation, whose event       *)
(* pm_handler ignores, to the next run.  After its exit it holds no         *)
(* mapping, and a reference to no device but one that did not fit.          *)
FixupComplete ==
    /\ spc = "idle" /\ ~missed => \A i \in DOMAIN ctl :
          \/ ctl[i].dev \in disturbed
          \/ regs[ctl[i].dev].fs = ctl[i].fs /\ (ctl[i].hs = 0 \/ regs[ctl[i].dev].hs = ctl[i].hs)
    /\ spc = "unloaded" => mapped = {} /\ \A d \in D : refs[d] # 0 => DidNotFit(d)
=============================================================================
