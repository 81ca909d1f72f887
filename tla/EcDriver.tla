------------------------------ MODULE EcDriver ------------------------------
(***************************************************************************)
(* The life of the minibook_ec platform device: probe registers a sysfs     *)
(* group, thermal zones, a fan monitor and a keyboard LED, each of which    *)
(* may be missing; remove and the device-managed (devm) releases after it   *)
(* take them away while their callbacks run.  A callback holds its          *)
(* interface: the kernel waits for it before an unregistration returns.     *)
(***************************************************************************)
EXTENDS Integers, FiniteSets

CONSTANTS
    ChipFound,      \* BOOLEAN subset: may the chip's ID be read
    RegionBusy,     \* BOOLEAN subset: may another driver hold the I/O region
    AdcValues,      \* raw values of the charger's converter
    TachValues,     \* raw values of the fan's tachometer
    MaxProbes,      \* bound on binds of the driver
    MaxReadings     \* bound on the EC's updates and the user's writes

Interfaces == {"sysfs", "soc", "charger", "fan", "led", "work"}

VARIABLES
    ecphase,    \* "absent", a step of probe, "bound", or a step of removal
    region,     \* holder of the PNPCFG I/O region: "none", "driver", "other"
    available,  \* pnpcfg_available
    chip,       \* the chip answers with its ID
    present,    \* interfaces that are registered
    memory,     \* struct minibook_ec is allocated
    running,    \* interfaces with a callback in progress
    errptr,     \* zones whose pointer is the ERR_PTR of a failed registration
    low,        \* interface -> low byte read by its callback, ToRead or Converting
    adc_ctl,    \* the converter's control register: 0 while it is off
    adc, tach,  \* the converter's and the tachometer's registers
    switches,   \* the EC's touchpad, keyboard and BIOS unlock registers
    reported,   \* the last charger temperature and fan speed given out, or NoValue
    probes, readings

ecvars == <<ecphase, region, available, chip, present, memory, running, errptr, low, adc_ctl,
            adc, tach, switches, reported, probes, readings>>

Zones == {"soc", "charger"}
NoValue == -1000
ToRead == -1            \* nothing read yet
Converting == -2        \* the control register was read and is not 0
NoReading == 65535      \* adc_read_raw's answer for none
ADC_GLITCH == 511
ADC_ZERO_C_OFFSET == 644
ADC_RAW_PER_DEGREE == 7
TACH_RPM_CONSTANT == 1875000

ByteL(v) == v % 256
ByteM(v) == v \div 256

EcInit ==
    /\ ecphase = "absent" /\ available = FALSE /\ chip \in ChipFound
    /\ region \in {IF b THEN "other" ELSE "none" : b \in RegionBusy}
    /\ present = {} /\ memory = FALSE /\ running = {}
    /\ errptr = {} /\ low = [i \in {"charger", "fan"} |-> ToRead]
    /\ adc_ctl \in {0, 1} /\ adc \in AdcValues /\ tach \in TachValues
    /\ switches = [touchpad |-> TRUE, keyboard |-> TRUE, unlocked |-> FALSE]
    /\ reported = [charger |-> NoValue, fan |-> NoValue]
    /\ probes = 0 /\ readings = 0

Unread == UNCHANGED <<adc_ctl, adc, tach, switches, reported, readings, low, running>>

-----------------------------------------------------------------------------
(* Probe.                                                                   *)
Begin ==
    /\ ecphase = "absent" /\ probes < MaxProbes
    /\ ecphase' = "probe_regs" /\ memory' = TRUE /\ errptr' = {} /\ probes' = probes + 1
    /\ UNCHANGED <<region, available, chip, present>> /\ Unread

(* A failure before or in minibook_ec_register_sysfs ends the probe; devm   *)
(* frees what was allocated.                                                *)
ProbeFails ==
    /\ ecphase \in {"probe_regs", "probe_sysfs"}
    /\ ecphase' = "absent" /\ memory' = FALSE
    /\ UNCHANGED <<region, available, chip, present, errptr, probes>> /\ Unread
ReadRegs ==
    /\ ecphase = "probe_regs" /\ ecphase' = "probe_sysfs"
    /\ UNCHANGED <<region, available, chip, present, memory, errptr, probes>> /\ Unread
minibook_ec_register_sysfs ==
    /\ ecphase = "probe_sysfs" /\ ecphase' = "probe_i2ec"
    /\ present' = present \cup {"sysfs"}
    /\ UNCHANGED <<region, available, chip, memory, errptr, probes>> /\ Unread

minibook_ec_i2ec_init ==
    /\ ecphase = "probe_i2ec" /\ ecphase' = "probe_thermal"
    /\ available' = (region = "none" /\ chip)
    /\ region' = IF available' THEN "driver" ELSE region
    /\ UNCHANGED <<chip, present, memory, errptr, probes>> /\ Unread

(* adc_read_raw: no reading while the converter is off, nor for its glitch. *)
adc_read_raw(control, l, h) ==
    LET raw == h * 256 + l
    IN IF control = 0 \/ raw \in {ADC_GLITCH, 0} THEN NoReading ELSE raw

(* register_soc_zone and register_charger_zone: a zone without a reading is *)
(* not registered and its pointer stays NULL; a registration that fails     *)
(* leaves an ERR_PTR in the pointer.  The probe goes on either way.         *)
minibook_ec_register_thermal ==
    /\ ecphase = "probe_thermal" /\ ecphase' = "probe_fan"
    /\ LET raw == adc_read_raw(adc_ctl, ByteL(adc), ByteM(adc))
       IN \E tried \in {z \in SUBSET Zones : "charger" \in z => available /\ raw # NoReading} :
             /\ errptr' \in SUBSET tried
             /\ present' = present \cup (tried \ errptr')
    /\ UNCHANGED <<region, available, chip, memory, probes>> /\ Unread
minibook_ec_register_fan ==
    /\ ecphase = "probe_fan" /\ ecphase' = "probe_led"
    /\ \E s \in {{}, {"fan"}} : present' = present \cup IF available THEN s ELSE {}
    /\ UNCHANGED <<region, available, chip, memory, errptr, probes>> /\ Unread

(* The poll work is queued only when the LED is registered; without its     *)
(* managed cancellation it would not be.                                    *)
minibook_ec_register_kbd_backlight ==
    /\ ecphase = "probe_led" /\ ecphase' = "bound"
    /\ \E s \in {{}, {"led"}, {"led", "work"}} :
          present' = present \cup IF available THEN s ELSE {}
    /\ UNCHANGED <<region, available, chip, memory, errptr, probes>> /\ Unread

-----------------------------------------------------------------------------
(* Remove.                                                                  *)
Unregister(from, to, i) ==
    /\ ecphase = from /\ ecphase' = to /\ i \cap running = {}
    /\ present' = present \ i
    /\ UNCHANGED <<region, available, chip, memory, errptr, probes>> /\ Unread

(* Any pointer but NULL is unregistered, the ERR_PTR of a failed            *)
(* registration too: the kernel faults on it and the removal, with the      *)
(* managed releases after it, never goes on.                                *)
UnregisterZone(from, to, zone) ==
    \/ zone \notin errptr /\ Unregister(from, to, {zone})
    \/ /\ ecphase = from /\ zone \in errptr /\ ecphase' = "oops"
       /\ UNCHANGED <<region, available, chip, present, memory, errptr, probes>> /\ Unread
minibook_ec_unregister_thermal ==
    \/ UnregisterZone("bound", "remove_charger", "soc")
    \/ UnregisterZone("remove_charger", "remove_i2ec", "charger")
minibook_ec_i2ec_cleanup ==
    /\ ecphase = "remove_i2ec" /\ ecphase' = "devm_work"
    /\ region' = IF available THEN "none" ELSE region
    /\ available' = FALSE
    /\ UNCHANGED <<chip, present, memory, errptr, probes>> /\ Unread

(* devm releases in reverse order of registration.                          *)
ReleaseWorkLeft ==      \* mutant: the work is not cancelled
    /\ ecphase = "devm_work" /\ ecphase' = "devm_led"
    /\ UNCHANGED <<region, available, chip, present, memory, errptr, probes>> /\ Unread
ReleaseWork == Unregister("devm_work", "devm_led", {"work"})
ReleaseLed == Unregister("devm_led", "devm_fan", {"led"})
ReleaseFan == Unregister("devm_fan", "devm_sysfs", {"fan"})
ReleaseSysfs == Unregister("devm_sysfs", "devm_memory", {"sysfs"})
ReleaseMemory ==
    /\ ecphase = "devm_memory" /\ ecphase' = "absent" /\ memory' = FALSE
    /\ UNCHANGED <<region, available, chip, present, errptr, probes>> /\ Unread

-----------------------------------------------------------------------------
(* Callbacks: show and store of sysfs, get_temp, hwmon reads, LED and work. *)
Quiet == UNCHANGED <<ecphase, region, available, chip, present, memory, errptr, switches, probes>>

Called(i) ==
    /\ i \in present \ running /\ running' = running \cup {i}
    /\ Quiet /\ UNCHANGED <<low, adc_ctl, adc, tach, reported, readings>>
Returns(i) ==
    /\ i \in running \ DOMAIN low /\ running' = running \ {i}
    /\ Quiet /\ UNCHANGED <<low, adc_ctl, adc, tach, reported, readings>>

(* A store writes one register; a show, a write that cannot be parsed and an *)
(* access that fails only return.                                           *)
Stores(switch, value) ==
    /\ "sysfs" \in running /\ running' = running \ {"sysfs"}
    /\ readings < MaxReadings /\ readings' = readings + 1
    /\ switches' = [switches EXCEPT ![switch] = value]
    /\ UNCHANGED <<ecphase, region, available, chip, present, memory, errptr, probes, low, adc_ctl,
                   adc, tach, reported>>
touchpad_enabled_store(enable) == Stores("touchpad", enable)
\* The ACPI method LTSM, which the accelerometer driver calls too.
keyboard_enabled_store(enable) == Stores("keyboard", enable)
\* There is no way back: 0 is refused.
bios_unlock_store(unlock) == unlock /\ Stores("unlocked", TRUE)

(* charger_temp_get and read_fan_rpm read two registers, low byte first;    *)
(* the charger's only when the converter is on.                             *)
ReadCtl ==
    /\ "charger" \in running /\ low["charger"] = ToRead
    /\ IF adc_ctl = 0
       THEN /\ running' = running \ {"charger"} /\ reported' = [reported EXCEPT !["charger"] = NoValue]
            /\ UNCHANGED low
       ELSE low' = [low EXCEPT !["charger"] = Converting] /\ UNCHANGED <<running, reported>>
    /\ Quiet /\ UNCHANGED <<adc_ctl, adc, tach, readings>>
ReadLow(i) ==
    /\ i \in running \cap DOMAIN low /\ low[i] = IF i = "charger" THEN Converting ELSE ToRead
    /\ low' = [low EXCEPT ![i] = ByteL(IF i = "charger" THEN adc ELSE tach)]
    /\ Quiet /\ UNCHANGED <<running, adc_ctl, adc, tach, reported, readings>>

charger_temp_get(raw) ==
    IF raw = NoReading THEN NoValue
    ELSE (ADC_ZERO_C_OFFSET - (IF raw > ADC_ZERO_C_OFFSET THEN ADC_ZERO_C_OFFSET ELSE raw))
            \div ADC_RAW_PER_DEGREE
read_fan_rpm(v) == IF v \in {0, 65535} THEN 0 ELSE TACH_RPM_CONSTANT \div v

ReadHigh(i) ==
    LET h == ByteM(IF i = "charger" THEN adc ELSE tach)
        value == IF i = "charger" THEN charger_temp_get(adc_read_raw(1, low[i], h))
                 ELSE read_fan_rpm(h * 256 + low[i])
    IN /\ i \in running \cap DOMAIN low /\ low[i] \notin {ToRead, Converting}
       /\ low' = [low EXCEPT ![i] = ToRead] /\ running' = running \ {i}
       /\ reported' = [reported EXCEPT ![i] = value]
       /\ Quiet /\ UNCHANGED <<adc_ctl, adc, tach, readings>>

(* The EC updates its registers; another driver takes or leaves the region. *)
EcUpdates ==
    /\ readings < MaxReadings /\ readings' = readings + 1
    /\ \/ \E v \in AdcValues \ {adc} : adc' = v /\ UNCHANGED <<adc_ctl, tach>>
       \/ \E v \in TachValues \ {tach} : tach' = v /\ UNCHANGED <<adc_ctl, adc>>
       \/ adc_ctl' = 1 - adc_ctl /\ UNCHANGED <<adc, tach>>
    /\ Quiet /\ UNCHANGED <<running, low, reported>>
OtherDriver ==
    /\ \/ region = "other" /\ region' = "none"
       \/ region = "none" /\ TRUE \in RegionBusy /\ region' = "other"
    /\ UNCHANGED <<ecphase, available, chip, present, memory, errptr, probes>> /\ Unread

EcNext ==
    \/ Begin \/ ProbeFails \/ ReadRegs \/ minibook_ec_register_sysfs \/ minibook_ec_i2ec_init
    \/ minibook_ec_register_thermal \/ minibook_ec_register_fan \/ minibook_ec_register_kbd_backlight
    \/ minibook_ec_unregister_thermal \/ minibook_ec_i2ec_cleanup \/ ReleaseWork \/ ReleaseLed
    \/ ReleaseFan \/ ReleaseSysfs \/ ReleaseMemory
    \/ ReadCtl \/ \E i \in Interfaces : Called(i) \/ Returns(i) \/ ReadLow(i) \/ ReadHigh(i)
    \/ \E b \in BOOLEAN :
          touchpad_enabled_store(b) \/ keyboard_enabled_store(b) \/ bios_unlock_store(b)
    \/ EcUpdates \/ OtherDriver

EcSpec == EcInit /\ [][EcNext]_ecvars

-----------------------------------------------------------------------------
(* The driver's memory outlives every callback, through a failed probe, the *)
(* managed releases after remove(), and a remove() that faults on the       *)
(* pointer of a zone that could not be registered.                          *)
MemoryOutlivesCallbacks == running # {} \/ present # {} => memory
=============================================================================
