------------------------------ MODULE Thermald ------------------------------
(***************************************************************************)
(* The three parts of thermald as one daemon.  They meet only through what  *)
(* each one is given as constants: ThermalSetup builds the sensors, devices *)
(* and zones at a start, Adaptive installs the trips of the firmware's      *)
(* tables in them, and ThermalEngine runs the thread, the pipe and the      *)
(* preferences.  A behaviour takes the steps of one part while the others   *)
(* rest.                                                                    *)
(***************************************************************************)
EXTENDS ThermalEngine, ThermalSetup

CONSTANTS
    Gddvs, EnvValues, Env0, Zones, Cdevs, Boot, MinState, MaxTarget, Steps,
    AgeCap, CalmCap

(* The tables are lists of entries with whole temperatures and powers.      *)
IsTable(s) == Len(s) \in Nat /\ s = [i \in 1..Len(s) |-> s[i]]
ASSUME TablesAssumption ==
    /\ \A g \in Gddvs :
         /\ IsTable(g.apat)
         /\ \A i \in DOMAIN g.apat : g.apat[i].code = "PSV" => g.apat[i].arg \in Int
         /\ \A n \in DOMAIN g.psvts :
              IsTable(g.psvts[n]) /\ \A i \in DOMAIN g.psvts[n] :
                  g.psvts[n][i].temp \in Int /\ g.psvts[n][i].power \in Int
         /\ \A n \in DOMAIN g.itmts :
              IsTable(g.itmts[n]) /\ \A i \in DOMAIN g.itmts[n] : g.itmts[n][i].temp \in Int
    /\ MinState \in Int /\ MaxTarget \in Int

(* Every zone has a list of trips when the adaptive engine starts.          *)
ASSUME BootAssumption ==
    /\ Boot = [z \in Zones |-> Boot[z]] /\ \A z \in Zones : IsTable(Boot[z])
    /\ \A z \in Zones : \A i \in DOMAIN Boot[z] :
         /\ DOMAIN Boot[z][i] = {"type", "temp", "cdev", "target"}
         /\ Boot[z][i].temp \in Int /\ Boot[z][i].target \in Int

VARIABLES
    part,           \* "engine", "adaptive" or "setup"
    gddv, env, age, lastMatch, matched, fallback, policyActive, trips, active,
    limits, installed, calm, adaptivePhase

adaptiveVars == <<gddv, env, age, lastMatch, matched, fallback, policyActive, trips,
                  active, limits, installed, calm, adaptivePhase>>
daemonVars == <<part, vars, adaptiveVars, setupVars>>

A == INSTANCE Adaptive WITH phase <- adaptivePhase

EngineRests == Init /\ interval = 0 /\ timeout = -1 /\ file = "none"
AdaptiveRests == A!Init /\ gddv = CHOOSE g \in Gddvs : TRUE
SetupRests == SetupInit /\ machine = CHOOSE m \in Machines : TRUE

DaemonInit ==
    \/ part = "engine" /\ Init /\ AdaptiveRests /\ SetupRests
    \/ part = "adaptive" /\ EngineRests /\ A!Init /\ SetupRests
    \/ part = "setup" /\ EngineRests /\ AdaptiveRests /\ SetupInit

DaemonNext ==
    /\ UNCHANGED part
    /\ \/ part = "engine" /\ Next /\ UNCHANGED <<adaptiveVars, setupVars>>
       \/ part = "adaptive" /\ A!Next /\ UNCHANGED <<vars, setupVars>>
       \/ part = "setup" /\ SetupNext /\ UNCHANGED <<vars, adaptiveVars>>

(* The fairness of ThermalEngine, for the behaviours that run it.           *)
DaemonFairness ==
    /\ WF_vars(part = "engine" /\ ThreadGoesOn)
    /\ WF_vars(part = "engine" /\ Elapse)

DaemonSpec == DaemonInit /\ [][DaemonNext]_daemonVars /\ DaemonFairness

-----------------------------------------------------------------------------
(* The properties of ThermalEngine and ThermalSetup, and those of Adaptive.  *)

(* Once a policy was installed the zones hold exactly what the tables of the *)
(* current target give on empty zones (Adaptive).                            *)
InstalledAgrees == A!InstalledAgrees

(* Conditions that hold for at least as long as they ask are followed by the *)
(* switch to their target, in tables with least times only (Adaptive).       *)
TargetReached == A!TargetReached
=============================================================================
