---------------------------- MODULE ProxyDrivers ----------------------------
(***************************************************************************)
(* The drivers below iio-sensor-proxy side by side: one of the upstream    *)
(* drivers (IioDrivers), the resources of the MXC6655 driver (MxcDevice)   *)
(* and its orientation filter (MxcFilter).  They share no state, so a      *)
(* behaviour takes the steps of one part while the others rest.            *)
(***************************************************************************)
EXTENDS IioDrivers

CONSTANTS
    Adapters, Chips, FdLimit, GmtrResponses, Panels,
    ORIENT_BUF_SIZE, ORIENT_STABLE_MIN, ORIENT_OFFSET_BUF, LongStable, MaxStable,
    MaxMoves, Poses, Biases

\* The number "-1" stands for no descriptor.
ASSUME AdaptersAssumption ==
    /\ Adapters \in Seq([digits : STRING, path : BOOLEAN])
    /\ \A i \in DOMAIN Adapters : Adapters[i].digits # "-1"

VARIABLES
    part,           \* "driver", "device" or "filter"
    mxc, fds, uinput_fd, lid_fd, opened, lost, settings, bound, asleep,
    orient, ost, pose, bias, moves, steady

D == INSTANCE MxcDevice WITH dev <- mxc
F == INSTANCE MxcFilter WITH s <- orient

deviceVars == <<mxc, fds, uinput_fd, lid_fd, opened, lost, settings, bound, asleep>>
filterVars == <<orient, ost, pose, bias, moves, steady>>
proxyVars == <<part, vars, deviceVars, filterVars>>

DriverRests == Init /\ dev = (CHOOSE d \in Devices : TRUE) /\ hw.freq = (CHOOSE f \in Frequencies : TRUE)
DeviceRests == D!Init /\ bound = {}
FilterRests == F!Init /\ pose = (CHOOSE p \in Poses : TRUE) /\ bias = (CHOOSE b \in Biases : TRUE)

ProxyInit ==
    \/ part = "driver" /\ Init /\ DeviceRests /\ FilterRests
    \/ part = "device" /\ DriverRests /\ D!Init /\ FilterRests
    \/ part = "filter" /\ DriverRests /\ DeviceRests /\ F!Init

ProxyNext ==
    /\ UNCHANGED part
    /\ \/ part = "driver" /\ Next /\ UNCHANGED <<deviceVars, filterVars>>
       \/ part = "device" /\ D!Next /\ UNCHANGED <<vars, filterVars>>
       \/ part = "filter" /\ F!Next /\ UNCHANGED <<vars, deviceVars>>

(* The fairness of IioDrivers, for the behaviours that run a driver.        *)
ProxyFairness ==
    /\ WF_vars(part = "driver" /\ Tick)
    /\ WF_vars(part = "driver" /\ ScanArrives)
    /\ WF_vars(part = "driver" /\ measurement_cb)

ProxySpec == ProxyInit /\ [][ProxyNext]_proxyVars /\ ProxyFairness

-----------------------------------------------------------------------------
(* The process holds the descriptors the MXC6655 driver knows of and one     *)
(* for every recovery that found a single chip (MxcDevice).                  *)
DescriptorsAccounted == D!DescriptorsAccounted

(* A machine held still gets the orientation orientation_calc finds in the   *)
(* unfiltered reading (MxcFilter).                                           *)
StillIsUnderstood == F!StillIsUnderstood
=============================================================================
