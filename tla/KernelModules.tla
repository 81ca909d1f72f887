--------------------------- MODULE KernelModules ---------------------------
(***************************************************************************)
(* The repository's kernel modules on one machine: the life cycle of        *)
(* minibook_ec, its keyboard backlight once it is bound, the I2C fixup and  *)
(* the DPTF enabler.  They share no state, so what one does is independent  *)
(* of the others: a behaviour takes the steps of one while the others rest. *)
(***************************************************************************)
EXTENDS EcDriver, KbdBacklight, Spklen, DptfEnabler

VARIABLE active     \* "minibook_ec", "kbd_backlight", "i2c_designware_spklen"
                    \* or "dptf_enabler"

kernelVars == <<active, ecvars, vars, svars, dvars>>

EcRests ==
    /\ EcInit /\ adc_ctl = 1 /\ adc = 100 /\ tach = 0 /\ chip = TRUE /\ region = "none"
KbdRests == Init /\ dcr = 0 /\ ~suspended /\ ~gated
DptfRests == DptfInit /\ dsdt = <<>> /\ \A g \in Gates : ~flag[g]

KernelInit ==
    \/ active = "minibook_ec" /\ EcInit /\ KbdRests /\ SpklenInit /\ DptfRests
    \/ active = "kbd_backlight" /\ EcRests /\ Init /\ SpklenInit /\ DptfRests
    \/ active = "i2c_designware_spklen" /\ EcRests /\ KbdRests /\ SpklenInit /\ DptfRests
    \/ active = "dptf_enabler" /\ EcRests /\ KbdRests /\ SpklenInit /\ DptfInit

KernelNext ==
    /\ UNCHANGED active
    /\ \/ active = "minibook_ec" /\ EcNext /\ UNCHANGED <<vars, svars, dvars>>
       \/ active = "kbd_backlight" /\ Next /\ UNCHANGED <<ecvars, svars, dvars>>
       \/ active = "i2c_designware_spklen" /\ SpklenNext /\ UNCHANGED <<ecvars, vars, dvars>>
       \/ active = "dptf_enabler" /\ DptfNext /\ UNCHANGED <<ecvars, vars, svars>>

(* The fairness of KbdBacklight, for the behaviours that run it.            *)
KernelFairness ==
    /\ WF_vars(active = "kbd_backlight" /\ LedStep)
    /\ WF_vars(active = "kbd_backlight" /\ PollStep)

KernelSpec == KernelInit /\ [][KernelNext]_kernelVars /\ KernelFairness
=============================================================================
