---------------------------- MODULE DptfEnabler ----------------------------
(***************************************************************************)
(* The dptf_enabler module: it finds the GNVS region in the DSDT, sets the  *)
(* bytes that gate the DPTF devices and has the ACPI bus scanned for them.  *)
(* It may be loaded again with other parameters; the bytes stay set.        *)
(***************************************************************************)
EXTENDS Integers, Sequences, SequencesExt

CONSTANTS
    Tables,     \* DSDTs: sequences of [gnvs, addr, len]; an item that is no GNVS
                \* OperationRegion has gnvs FALSE
    Base, Fans, Sensors,    \* the bytes of flags, fan_flags and sensor_flags
    MaxLoads

VARIABLES
    dsdt, dphase,   \* "out", "mapped", "osc", "scan"
    params,         \* [fans, sensors] of this load
    flag,           \* byte -> set
    found,          \* the devices a scan has found
    unscanned,      \* the gates a failed scan did not come to
    osc,            \* the firmware knows of a DPTF-aware system
    loads

dvars == <<dsdt, dphase, params, flag, found, unscanned, osc, loads>>

Gates == Base \cup Fans \cup Sensors

(* find_gnvs: the first region named GNVS decides; 12 bytes before the end  *)
(* (the last item) are not searched.                                        *)
find_gnvs(t) ==
    LET i == SelectInSeq(t, LAMBDA x : x.gnvs)
    IN IF i = 0 \/ i = Len(t) THEN "ENOENT"
       ELSE IF t[i].addr \in {"dword", "qword"} /\ t[i].len \in {"byte", "word", "dword"}
            THEN "ok" ELSE "EINVAL"

DptfInit ==
    /\ dsdt \in Tables /\ dphase = "out" /\ params = [fans |-> FALSE, sensors |-> FALSE]
    /\ flag \in [Gates -> BOOLEAN] /\ found = {g \in Gates : flag[g]}
    /\ unscanned = {} /\ osc = FALSE /\ loads = 0

Load(p) ==
    /\ dphase = "out" /\ loads < MaxLoads /\ loads' = loads + 1
    /\ params' = p
    /\ dphase' \in IF find_gnvs(dsdt) = "ok" THEN {"mapped", "out"} ELSE {"out"}  \* memremap
    /\ UNCHANGED <<dsdt, flag, found, unscanned, osc>>

Asked == Base \cup (IF params.fans THEN Fans ELSE {}) \cup (IF params.sensors THEN Sensors ELSE {})
SET_FLAGSBase ==    \* mutant: only the base flags are counted
    /\ dphase = "mapped"
    /\ flag' = [g \in Gates |-> flag[g] \/ g \in Asked]
    /\ dphase' = IF \E g \in Base : ~flag[g] THEN "osc" ELSE "out"
    /\ UNCHANGED <<dsdt, params, found, unscanned, osc, loads>>
SET_FLAGS ==
    /\ dphase = "mapped"
    /\ flag' = [g \in Gates |-> flag[g] \/ g \in Asked]
    /\ dphase' = IF \E g \in Asked : ~flag[g] THEN "osc" ELSE "out"
    /\ UNCHANGED <<dsdt, params, found, unscanned, osc, loads>>

(* acpi_run_osc may fail, or IETM be missing: the scan follows anyway.      *)
RunOsc ==
    /\ dphase = "osc" /\ dphase' = "scan" /\ osc' \in {osc, TRUE}
    /\ UNCHANGED <<dsdt, params, flag, found, unscanned, loads>>
(* acpi_bus_scan's result is not looked at: a scan that fails has attached   *)
(* the devices it came to, and unscanned keeps the gates it left.           *)
acpi_bus_scan ==
    /\ dphase = "scan" /\ dphase' = "out"
    /\ \E some \in SUBSET {g \in Gates : flag[g]} :
          found' = found \cup some /\ unscanned' = {g \in Gates : flag[g]} \ found'
    /\ UNCHANGED <<dsdt, params, flag, osc, loads>>

DptfNext ==
    \/ \E f, s \in BOOLEAN : Load([fans |-> f, sensors |-> s])
    \/ SET_FLAGS \/ RunOsc \/ acpi_bus_scan

DptfSpec == DptfInit /\ [][DptfNext]_dvars

-----------------------------------------------------------------------------

(* Once a load is over, every device whose gate is set has been discovered, *)
(* however often and with whatever parameters the module was loaded, unless *)
(* a scan failed before it came to the device.                              *)
DevicesDiscovered ==
    dphase = "out" => \A g \in Gates : flag[g] => g \in found \cup unscanned
=============================================================================
