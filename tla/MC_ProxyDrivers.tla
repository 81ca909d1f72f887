--------------------------- MODULE MC_ProxyDrivers ---------------------------
EXTENDS ProxyDrivers

Channel(name, index, bytes, bits, shift, signed, be, offset) ==
    [name |-> name, index |-> index, bytes |-> bytes, bits |-> bits, shift |-> shift,
     signed |-> signed, be |-> be, offset |-> offset, scale |-> 1, indexed |-> TRUE, typed |-> TRUE]
Time(index) == Channel("in_timestamp", index, 8, 16, 0, TRUE, FALSE, 0)

Axes(bytes, bits, shift, be, offset) ==
    << Time(3), Channel("in_accel_z", 2, bytes, bits, shift, TRUE, be, offset),
       Channel("in_accel_x", 0, bytes, bits, shift, TRUE, be, offset),
       Channel("in_accel_y", 1, bytes, bits, shift, TRUE, be, offset) >>
NoZ(channels) == SelectSeq(channels, LAMBDA c : c.name # "in_accel_z")

Device(kind, faults, channels) ==
    [kind |-> kind, faults |-> faults, channels |-> channels, available |-> {0, 5, 25, 100},
     trigger |-> TRUE, property |-> "absent", label |-> "absent", attr |-> "absent",
     mount |-> IdMatrix, matrices |-> <<<<>>, <<>>, <<>>, <<>>>>]

Turned == <<<<0, -1, 0>>, <<1, 0, 0>>, <<0, 0, 1>>>>
Zeroes == <<<<1, 0, 0>>, <<0, 0, 0>>, <<0, 0, 1>>>>
Accel == Device("iio-buffer-accel", {}, Axes(2, 12, 4, FALSE, 0))
Compass == << Channel("in_rot_from_north_magnetic_tilt_comp", 1, 1, 8, 0, TRUE, FALSE, 0),
             Channel("in_angl", 0, 1, 6, 1, FALSE, FALSE, 0), Time(2) >>
\* A scan without time, and one the kernel pads behind its last channel.
Untimed == SelectSeq(Axes(2, 12, 4, FALSE, 0), LAMBDA c : c.name # "in_timestamp")
Trailing == << Channel("in_intensity_ir", 0, 4, 16, 0, FALSE, FALSE, 0),
               Channel("in_intensity_both", 1, 2, 10, 2, TRUE, TRUE, 3) >>
Light == << Channel("in_intensity_both", 0, 2, 10, 2, TRUE, TRUE, 3), Time(1) >>

BufferFaults == {"dir", "scan", "trigger", "ring", "data", "node", "type"}
SimpleKinds == {"iio-poll-accel", "iio-poll-als", "iio-poll-proximity", "hwmon-als", "fake-light",
                "fake-compass", "input-accel", "input-proximity"} \cup SscKinds

MCDevices ==
    { Accel, [Accel EXCEPT !.channels = Axes(2, 10, 0, TRUE, -5), !.available = {0, 5}],
      [Accel EXCEPT !.channels = NoZ(@), !.available = {}],
      [Accel EXCEPT !.mount = Turned, !.matrices = <<<<>>, Zeroes, Turned, IdMatrix>>],
      [Accel EXCEPT !.channels = Untimed], Device("iio-buffer-als", {}, Trailing),
      [Accel EXCEPT !.label = "accel-base", !.attr = "lid"],
      [Accel EXCEPT !.property = "elsewhere", !.attr = "lid", !.trigger = FALSE],
      Device("iio-buffer-compass", {}, Compass), Device("iio-buffer-als", {}, Light),
      Device("iio-buffer-als", {}, [i \in DOMAIN Light |-> [Light[i] EXCEPT !.scale = 0]]) }
    \cup {Device("iio-buffer-als", {f}, Light) : f \in BufferFaults}
    \cup {Device(k, {}, <<>>) : k \in SimpleKinds}
    \cup {Device(k, {"read"}, <<>>) : k \in {"iio-poll-accel", "iio-poll-als", "hwmon-als", "input-accel"}}
    \cup {Device("iio-poll-proximity", {f}, <<>>) : f \in {"attr", "read"}}
    \cup {Device("iio-poll-als", {f}, <<>>) : f \in {"attr", "dir"}}
    \cup {Device("input-accel", {"joypad"}, <<>>), Device("input-proximity", {"switch"}, <<>>),
          Device("input-proximity", {"open"}, <<>>)}
    \cup {Device("ssc-accel", {f}, <<>>) : f \in {"new", "lost", "open"}}

MCSamples == {<<100, -70, 3>>, <<-128, 0, 127>>}

Adapter(digits, path) == [digits |-> digits, path |-> path]
\* Behind the last adapter comes a client of it, whose name has no number.
MCAdapters == <<Adapter("0", TRUE), Adapter("1", FALSE), Adapter("2", TRUE), Adapter("3", TRUE),
                Adapter("", TRUE)>>
MCChips == {"0", "3"}

\* GMTR answers of n values: matrices of -1 and thresholds of v degrees.
Gmtr(n, v) == [i \in 1 .. n |-> IF i > 18 THEN v ELSE IF i % 4 = 1 THEN 255 ELSE 0]
MCGmtrResponses == {<<>>, Gmtr(17, 9), Gmtr(20, 190), Gmtr(33, 0)}
MCPanels == {<<-2, -1>>, <<-2, 2>>, <<3, 1>>}

\* Upright on two edges, and two poses no gravity alone gives: pressed down
\* while upright, and a jerk long enough to look still.
MCPoses == {<<8, 0, 6>>, <<0, -8, -6>>, <<0, 12, 8>>, <<0, 0, -18>>}
MCBiases == {-2, 2}
=============================================================================
