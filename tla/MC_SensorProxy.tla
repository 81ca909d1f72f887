--------------------------- MODULE MC_SensorProxy ----------------------------
(* Two sensor types, two clients, two readings. *)
EXTENDS SensorProxy
CONSTANTS accel, prox, c1, c2

MCTypes == {accel, prox}
MCClients == {c1, c2}
PolledKinds == {"mxc", "poll"}
EventKinds == {"event"}
=============================================================================
