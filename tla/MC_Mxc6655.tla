----------------------------- MODULE MC_Mxc6655 ------------------------------
(* A small instance of the accelerometer driver: five scenes with the hinge  *)
(* in every band ("weak" acts on the counters as "shut" does), two facings   *)
(* and both outcomes of the orientation filter; the rotated panel of the     *)
(* MiniBook.                                                                 *)
EXTENDS Mxc6655

Scene(h, f, s) == [hinge |-> h, facing |-> f, settled |-> s]

MCScenes ==
  { Scene("tablet", 0, TRUE), Scene("tablet", 1, TRUE),
    Scene("laptop", 1, TRUE), Scene("neutral", -1, TRUE),
    Scene("shut", 0, FALSE) }

MCPanelOrients == {3}
=============================================================================
