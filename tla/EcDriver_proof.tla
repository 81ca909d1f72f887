--------------------------- MODULE EcDriver_proof ---------------------------
(***************************************************************************)
(* That the driver's memory outlives every callback, for any chip, region  *)
(* and readings and any number of probes.  MemoryOutlivesCallbacks alone   *)
(* is not inductive: at the release of the memory it has to be known which *)
(* interfaces the earlier steps of the removal left, so the invariant says *)
(* which ones each phase still allows.                                     *)
(***************************************************************************)
EXTENDS EcDriver, TLAPS

\* The phases of probe and removal in which an interface may be registered:
\* from the step after its registration to the release that takes it away,
\* and for good when the removal faults.
SocPhases == {"probe_fan", "probe_led", "bound", "oops"}
ChargerPhases == SocPhases \cup {"remove_charger"}
WorkPhases == {"bound", "remove_charger", "oops", "remove_i2ec", "devm_work"}
LedPhases == WorkPhases \cup {"devm_led"}
FanPhases == LedPhases \cup {"probe_led", "devm_fan"}
SysfsPhases == FanPhases \cup {"probe_i2ec", "probe_thermal", "probe_fan", "devm_sysfs"}

Lifetimes ==
    /\ present \subseteq Interfaces
    /\ "soc" \in present => ecphase \in SocPhases
    /\ "charger" \in present => ecphase \in ChargerPhases
    /\ "work" \in present => ecphase \in WorkPhases
    /\ "led" \in present => ecphase \in LedPhases
    /\ "fan" \in present => ecphase \in FanPhases
    /\ "sysfs" \in present => ecphase \in SysfsPhases

\* A callback holds its interface, an interface belongs to its phases, and
\* the memory is there in every phase but "absent".
EcInv ==
    /\ running \subseteq present
    /\ Lifetimes
    /\ memory = (ecphase # "absent")

\* The invariant holds when the machine starts.
LEMMA EcInitInv == EcInit => EcInv
BY DEF EcInit, EcInv, Lifetimes

\* The steps of minibook_ec_probe and of its failure.
LEMMA ProbeInv ==
    ASSUME EcInv,
           \/ Begin \/ ProbeFails \/ ReadRegs \/ minibook_ec_register_sysfs
           \/ minibook_ec_i2ec_init \/ minibook_ec_register_thermal
           \/ minibook_ec_register_fan \/ minibook_ec_register_kbd_backlight
    PROVE  EcInv'
<1> USE DEF EcInv, Lifetimes, Interfaces, Unread, SocPhases, ChargerPhases, WorkPhases, LedPhases,
            FanPhases, SysfsPhases
<1>1. CASE Begin
  BY <1>1 DEF Begin
<1>2. CASE ProbeFails
  BY <1>2 DEF ProbeFails
<1>3. CASE ReadRegs
  BY <1>3 DEF ReadRegs
<1>4. CASE minibook_ec_register_sysfs
  BY <1>4 DEF minibook_ec_register_sysfs
<1>5. CASE minibook_ec_i2ec_init
  BY <1>5 DEF minibook_ec_i2ec_init
<1>6. CASE minibook_ec_register_thermal
  BY <1>6 DEF minibook_ec_register_thermal, Zones
<1>7. CASE minibook_ec_register_fan
  BY <1>7 DEF minibook_ec_register_fan
<1>8. CASE minibook_ec_register_kbd_backlight
  BY <1>8 DEF minibook_ec_register_kbd_backlight
<1> QED
  BY <1>1, <1>2, <1>3, <1>4, <1>5, <1>6, <1>7, <1>8

\* The steps of minibook_ec_remove and of the managed releases after it: each
\* waits for the callbacks of what it takes away.
LEMMA RemoveInv ==
    ASSUME EcInv,
           \/ minibook_ec_unregister_thermal \/ minibook_ec_i2ec_cleanup
           \/ ReleaseWork \/ ReleaseLed \/ ReleaseFan \/ ReleaseSysfs
           \/ ReleaseMemory
    PROVE  EcInv'
<1> USE DEF EcInv, Lifetimes, Interfaces, Unread, SocPhases, ChargerPhases, WorkPhases, LedPhases,
            FanPhases, SysfsPhases
<1>1. CASE minibook_ec_unregister_thermal
  BY <1>1 DEF minibook_ec_unregister_thermal, UnregisterZone, Unregister
<1>2. CASE minibook_ec_i2ec_cleanup
  BY <1>2 DEF minibook_ec_i2ec_cleanup
<1>3. CASE ReleaseWork
  BY <1>3 DEF ReleaseWork, Unregister
<1>4. CASE ReleaseLed
  BY <1>4 DEF ReleaseLed, Unregister
<1>5. CASE ReleaseFan
  BY <1>5 DEF ReleaseFan, Unregister
<1>6. CASE ReleaseSysfs
  BY <1>6 DEF ReleaseSysfs, Unregister
<1>7. CASE ReleaseMemory
  BY <1>7 DEF ReleaseMemory
<1> QED
  BY <1>1, <1>2, <1>3, <1>4, <1>5, <1>6, <1>7

\* The steps of callbacks, of the EC and of other drivers, and stuttering.
LEMMA CallbackInv ==
    ASSUME EcInv,
           \/ ReadCtl \/ \E i \in Interfaces : Called(i) \/ Returns(i) \/ ReadLow(i) \/ ReadHigh(i)
           \/ \E b \in BOOLEAN : \/ touchpad_enabled_store(b) \/ keyboard_enabled_store(b)
                                 \/ bios_unlock_store(b)
           \/ EcUpdates \/ OtherDriver \/ UNCHANGED ecvars
    PROVE  EcInv'
<1>1. /\ UNCHANGED <<ecphase, present, memory>>
      /\ running' \subseteq running \/ \E i \in present : running' = running \cup {i}
  <2>1. ASSUME NEW i \in Interfaces, Called(i) PROVE <1>1!:
    BY <2>1 DEF Called, Quiet
  <2>2. ASSUME NEW i \in Interfaces, Returns(i) PROVE <1>1!:
    BY <2>2 DEF Returns, Quiet
  <2>3. ASSUME NEW i \in Interfaces, ReadLow(i) PROVE <1>1!:
    BY <2>3 DEF ReadLow, Quiet
  <2>4. ASSUME NEW i \in Interfaces, ReadHigh(i) PROVE <1>1!:
    BY <2>4 DEF ReadHigh, Quiet
  <2>5. ASSUME NEW b \in BOOLEAN,
               \/ touchpad_enabled_store(b) \/ keyboard_enabled_store(b)
               \/ bios_unlock_store(b)
        PROVE  <1>1!:
    BY <2>5 DEF touchpad_enabled_store, keyboard_enabled_store, bios_unlock_store, Stores
  <2>6. CASE EcUpdates \/ OtherDriver \/ UNCHANGED ecvars
    BY <2>6 DEF EcUpdates, OtherDriver, Quiet, Unread, ecvars
  <2>7. CASE ReadCtl
    BY <2>7 DEF ReadCtl, Quiet
  <2> QED
    BY <2>1, <2>2, <2>3, <2>4, <2>5, <2>6, <2>7
<1> QED
  BY <1>1 DEF EcInv, Lifetimes

\* The invariant holds in every behaviour of the driver.
THEOREM EcInvariance == EcSpec => []EcInv
<1>1. EcInv /\ [EcNext]_ecvars => EcInv'
  BY ProbeInv, RemoveInv, CallbackInv DEF EcNext
<1> QED
  BY EcInitInv, <1>1, PTL DEF EcSpec

\* No callback of sysfs, a thermal zone, the fan monitor, the LED or its poll
\* work ever runs, or can be entered, without struct minibook_ec.
THEOREM MemoryCorrect == EcSpec => []MemoryOutlivesCallbacks
<1>1. EcInv => MemoryOutlivesCallbacks
  BY DEF EcInv, Lifetimes, MemoryOutlivesCallbacks, Interfaces, SocPhases, ChargerPhases, WorkPhases,
         LedPhases, FanPhases, SysfsPhases
<1> QED
  BY EcInvariance, <1>1, PTL
=============================================================================
