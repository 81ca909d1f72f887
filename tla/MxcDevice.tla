------------------------------ MODULE MxcDevice ------------------------------
(***************************************************************************)
(* The resources of the dual-accelerometer driver (drv-mxc6655-accel.c):   *)
(* the descriptors it opens on the I2C adapters, the uinput device and the *)
(* lid switch, the unbinding of the kernel driver that holds the chips,    *)
(* and the settings it reads from the firmware and the display at open.    *)
(* Mxc6655 models what the driver does with them.                          *)
(***************************************************************************)
EXTENDS Integers, Sequences, FiniteSetsExt

CONSTANTS
    Adapters,       \* the i2c devices in udev's order: [digits, path].  digits begin the
                    \* name behind "i2c-", path is an .I2C node.  Adapters have a number,
                    \* their clients ("i2c-MDA6655:00") often none
    Chips,          \* numbers of the buses with an accelerometer
    FdLimit,        \* descriptors the process may hold (RLIMIT_NOFILE)
    GmtrResponses,  \* what the ACPI method GMTR answers: numbers, none on an error
    Panels          \* per DRM card: -2 no card, -1 no property, or the orientation

VARIABLES
    dev,            \* "closed" or "open"
    fds,            \* i2c_fds: bus numbers, "-1" for none
    uinput_fd, lid_fd,
    opened,         \* open descriptors of the process, per file
    lost,           \* history: recoveries that found this bus alone
    settings,       \* panel rotation, thresholds and matrices of DrvData
    bound,          \* chips held by the kernel driver mxc4005
    asleep          \* chips that do not answer

deviceVars == <<dev, fds, uinput_fd, lid_fd, opened, lost, settings, bound, asleep>>

\* atoi (name + 4): a name without a number stands for bus 0.
atoi(device) == IF device.digits = "" THEN "0" ELSE device.digits

Buses == {atoi(Adapters[i]) : i \in DOMAIN Adapters}
Files == Buses \cup {"uinput", "lid"}
NoFds == <<"-1", "-1">>

-----------------------------------------------------------------------------
(* Settings *)

\* card_panel_orientation of the first card whose DSI connector has one.
read_panel_orientation(cards) ==
    LET known == {i \in DOMAIN cards : cards[i] >= 0}
    IN IF known = {} THEN -1 ELSE cards[Min(known)]

detect_panel_rotation(cards) ==
    CASE read_panel_orientation(cards) = 2 -> 90
      [] read_panel_orientation(cards) = 1 -> 180
      [] read_panel_orientation(cards) = 3 -> 270
      [] OTHER -> 0

Int8(n) == ((n + 128) % 256) - 128

Defaults ==
    [tablet_thresh |-> 185, laptop_thresh |-> 175, min_angle |-> 30,
     cal1 |-> <<1, 0, 0, 0, 1, 0, 0, 0, 1>>, cal2 |-> <<1, 0, 0, 0, -1, 0, 0, 0, -1>>]

\* apply_gmtr_values: a threshold that is absent or zero keeps its default.
apply_gmtr_values(values) ==
    LET Positive(i, default) ==
            IF Len(values) >= i /\ values[i] > 0 THEN values[i] ELSE default
    IN [tablet_thresh |-> Positive(19, Defaults.tablet_thresh),
        laptop_thresh |-> Positive(20, Defaults.laptop_thresh),
        min_angle |-> Positive(21, Defaults.min_angle),
        cal1 |-> [i \in 1 .. 9 |-> Int8(values[i])],
        cal2 |-> [i \in 1 .. 9 |-> Int8(values[i + 9])]]

\* load_gmtr: parse_acpi_package takes at most 32 values, fewer than 18 are
\* no calibration.
load_gmtr(response) ==
    LET values == SubSeq(response, 1, Min({32, Len(response)}))
    IN IF Len(values) < 18 THEN Defaults ELSE apply_gmtr_values(values)

-----------------------------------------------------------------------------
(* Descriptors *)

Room(files) == FdLimit - MapThenSumSet(LAMBDA f : files[f], Files)

\* Descriptors come in pairs, as in the arrays of two.
Occurs(f, pair) == (IF pair[1] = f THEN 1 ELSE 0) + (IF pair[2] = f THEN 1 ELSE 0)
Plus(files, pair) == [f \in Files |-> files[f] + Occurs(f, pair)]
Minus(files, pair) == [f \in Files |-> files[f] - Occurs(f, pair)]

\* find_accels: the first two devices whose bus has a chip that answers
\* probe_bus, be it twice the same; a descriptor without an answer is closed.
find_accels(files, held) ==
    LET answering == {i \in DOMAIN Adapters :
                        Adapters[i].path /\ atoi(Adapters[i]) \in Chips \ (held \cup asleep)}
        first == Min(answering)
        others == answering \ {first}
    IN IF answering = {} \/ Room(files) < 1 THEN NoFds
       ELSE IF others = {} \/ Room(files) < 2 THEN <<atoi(Adapters[first]), "-1">>
       ELSE <<atoi(Adapters[first]), atoi(Adapters[Min(others)])>>

FoundBoth(found) == found[2] # "-1"
FoundOne(found) == found[1] # "-1" /\ found[2] = "-1"

\* try_unbind: each of the writes may fail.
try_unbind == bound' \in SUBSET bound

\* The first search and, with fewer than two chips, the search after the
\* kernel driver was unbound; what the first one found is closed.
Search ==
    LET first == find_accels(opened, bound)
    IN IF FoundBoth(first) THEN fds' = first /\ UNCHANGED bound
       ELSE /\ try_unbind
            /\ fds' = LET second == find_accels(opened, bound')
                      IN IF FoundBoth(second) THEN second ELSE NoFds

\* setup_uinput and open_lid_switch: a device that cannot be set up is left.
Optional(file, files) ==
    IF Room(files) > 0 THEN {file, "-1"} ELSE {"-1"}

\* mxc6655_open: without two chips everything found is closed and the driver
\* gives up.
Open ==
    /\ dev = "closed"
    /\ Search
    /\ IF fds' = NoFds
       THEN UNCHANGED <<dev, uinput_fd, lid_fd, opened, settings>>
       ELSE LET i2c == Plus(opened, fds')
            IN /\ dev' = "open"
               /\ uinput_fd' \in Optional("uinput", i2c)
               /\ lid_fd' \in Optional("lid", Plus(i2c, <<uinput_fd', "-1">>))
               /\ opened' = Plus(i2c, <<uinput_fd', lid_fd'>>)
               /\ \E r \in GmtrResponses, p \in Panels :
                     settings' = [gmtr |-> load_gmtr(r), panel_deg |-> detect_panel_rotation(p)]
    /\ UNCHANGED <<lost, asleep>>

\* Mutant: the descriptors of a failed poll are not closed before the search.
RecoverI2cUnclosed ==
    /\ dev = "open"
    /\ \E i \in 1 .. 2 : fds[i] \in {"-1"} \cup bound \cup asleep
    /\ try_unbind
    /\ LET found == find_accels(opened, bound')
       IN /\ opened' = Plus(opened, found)
          /\ fds' = IF FoundBoth(found) THEN found ELSE NoFds
          /\ lost' = IF FoundOne(found) THEN [lost EXCEPT ![found[1]] = @ + 1] ELSE lost
    /\ UNCHANGED <<dev, uinput_fd, lid_fd, settings, asleep>>

\* poll_sensors when a read fails: recover_i2c closes both descriptors and
\* searches again; one that is found alone is overwritten and stays open.
RecoverI2c ==
    /\ dev = "open"
    /\ \E i \in 1 .. 2 : fds[i] \in {"-1"} \cup bound \cup asleep
    /\ try_unbind
    /\ LET closed == Minus(opened, fds)
           found == find_accels(closed, bound')
       IN /\ opened' = Plus(closed, found)
          /\ fds' = IF FoundBoth(found) THEN found ELSE NoFds
          /\ lost' = IF FoundOne(found) THEN [lost EXCEPT ![found[1]] = @ + 1] ELSE lost
    /\ UNCHANGED <<dev, uinput_fd, lid_fd, settings, asleep>>

\* mxc6655_close.
Close ==
    /\ dev = "open"
    /\ dev' = "closed"
    /\ opened' = Minus(Minus(opened, fds), <<uinput_fd, lid_fd>>)
    /\ fds' = NoFds /\ uinput_fd' = "-1" /\ lid_fd' = "-1"
    /\ UNCHANGED <<lost, settings, bound, asleep>>

\* The kernel binds its driver again (a resume), a chip stops or starts
\* answering.
Rebind ==
    /\ \E c \in Chips \ bound : bound' = bound \cup {c}
    /\ UNCHANGED <<dev, fds, uinput_fd, lid_fd, opened, lost, settings, asleep>>

ChipChanges ==
    /\ \E c \in Chips : asleep' = IF c \in asleep THEN asleep \ {c} ELSE asleep \cup {c}
    /\ UNCHANGED <<dev, fds, uinput_fd, lid_fd, opened, lost, settings, bound>>

Init ==
    /\ dev = "closed" /\ fds = NoFds /\ uinput_fd = "-1" /\ lid_fd = "-1"
    /\ opened = [f \in Files |-> 0] /\ lost = [b \in Buses |-> 0]
    /\ settings = [gmtr |-> Defaults, panel_deg |-> 0]
    /\ bound \in SUBSET Chips /\ asleep = {}

Next == Open \/ RecoverI2c \/ Close \/ Rebind \/ ChipChanges

-----------------------------------------------------------------------------
(* Whatever fails at open, in a recovery or at close, the process holds     *)
(* exactly the descriptors the driver knows of and the ones recover_i2c     *)
(* overwrote: one for each recovery that found a single chip, none else.    *)
DescriptorsAccounted ==
    \A f \in Files :
        opened[f] = Occurs(f, fds) + Occurs(f, <<uinput_fd, lid_fd>>)
                    + (IF f \in Buses THEN lost[f] ELSE 0)
=============================================================================
