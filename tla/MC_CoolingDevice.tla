-------------------------- MODULE MC_CoolingDevice ---------------------------
(* A device with states 0 .. 4 and up to three zones: two trips with target  *)
(* states and one under step control; a trip of type MAX on its own; two     *)
(* step-controlled trips.  Temperatures: 0 below the polling trip, 1 cool,   *)
(* 2 within the hysteresis, 3 hot.                                           *)
EXTENDS CoolingDevice
CONSTANTS low, high, step

MixedZones == <<low, high, step>>
MixedKind == (low :> "target") @@ (high :> "target") @@ (step :> "step")
MixedTarget == (low :> 1) @@ (high :> 3) @@ (step :> 0)

MaxZones == <<high>>
MaxKind == high :> "max"
MaxTarget == high :> 0

StepZones == <<low, step>>
StepKind == [t \in {low, step} |-> "step"]
StepTarget == [t \in {low, step} |-> 0]
=============================================================================
