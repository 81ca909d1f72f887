------------------------------ MODULE MxcFilter ------------------------------
(***************************************************************************)
(* The orientation filter of drv-mxc6655-accel.c (update_orientation): a   *)
(* median over Z, a ring of samples whose variance tells a still machine,  *)
(* and the gravity offset of the Z axis, without which no orientation is   *)
(* accepted; then what the proxy makes of an accepted sample through       *)
(* classify_orientation, the synthetic readings and orientation_calc.      *)
(*                                                                         *)
(* Accelerations are integers, ten to a g.  Poses are chosen even and with *)
(* integral roots, so that every average, candidate and half below is      *)
(* exact.  The smoothed values, out_z and out_mean are read by nobody and  *)
(* left out.                                                               *)
(***************************************************************************)
EXTENDS Integers, Sequences, FiniteSetsExt, SequencesExt

CONSTANTS
    ORIENT_BUF_SIZE,    \* samples in the ring (20)
    ORIENT_STABLE_MIN,  \* still polls before the offset is tracked (10)
    ORIENT_OFFSET_BUF,  \* offsets averaged into trimmed_mean (5)
    LongStable,         \* polls that make a long rest (1000)
    MaxStable,          \* bound on stable_count
    MaxMoves,           \* bound on changes of the pose
    Poses,              \* gravity as the display turns: <<x, y, z>>
    Biases              \* zero offsets of the chip's Z axis

VARIABLES
    s,                  \* OrientState
    ost,                \* what update_orientation returned last
    pose, bias,
    moves,              \* changes of the pose so far
    steady              \* history: polls since the pose changed, saturating

filterVars == <<s, ost, pose, bias, moves, steady>>

G == 10
Axis == 1 .. 3
Sq(n) == n * n
Abs(n) == IF n < 0 THEN -n ELSE n
Zero == <<0, 0, 0>>

Sqrt(n) == CHOOSE r \in 0 .. 3 * G : Sq(r) <= n /\ n < Sq(r + 1)
\* The square of Z that x and y leave of gravity, never negative.
z_sq(v) == Max({0, Sq(G) - Sq(v[1]) - Sq(v[2])})

\* read_accel: two bytes to an axis, the high one first, as a gint16.
Bytes(n) == <<(n % 65536) \div 256, n % 256>>
read_accel(bytes) ==
    [i \in Axis |-> (((bytes[i][1] * 256 + bytes[i][2]) + 32768) % 65536) - 32768]

-----------------------------------------------------------------------------
(* Z offset *)

\* The two offsets a point allows: gravity may point up or down.
High(v) == v[3] + Sqrt(z_sq(v))
Low(v) == v[3] - Sqrt(z_sq(v))

\* The four pairs of candidates across two points, in the code's order, each
\* with the direction of Z it stands for.
Pairs(ref, cur) ==
    << <<Low(ref), Low(cur), 1>>, <<High(ref), Low(cur), 1>>,
       <<High(ref), High(cur), -1>>, <<Low(ref), High(cur), -1>> >>

Gap(pair) == Abs(pair[1] - pair[2])
Span(pairs) == Abs(pairs[1][1] - pairs[2][1]) + Abs(pairs[1][2] - pairs[3][2])

\* The closest pair, or the third when none is close.
Closest(pairs) ==
    LET close == {i \in 1 .. 4 : /\ \A j \in 1 .. 4 : Gap(pairs[i]) <= Gap(pairs[j])
                                 /\ 100 * Gap(pairs[i]) < 8 * Span(pairs)}
    IN pairs[IF close = {} THEN 3 ELSE Min(close)]

\* The length of gravity at v, given the offset, is within 15 percent of a g.
Plausible(v, offset) ==
    Sq(v[3] - offset) + Sq(v[1]) + Sq(v[2]) \in 86 .. 114

\* The checks of an offset.  z_dir is set even when trimmed_mean then rejects
\* the offset.  t is trimmed_mean times n.
Checked(ref, cur, t, n, dir, offset) ==
    [z_dir |-> dir, offset |-> offset,
     valid |-> Plausible(ref, offset) /\ Plausible(cur, offset),
     near |-> t = 0 \/ Abs(n * offset - t) <= n * G]

resolve_gravity_offset(ref, cur, t) ==
    LET pair == Closest(Pairs(ref, cur))
    IN Checked(ref, cur, t, ORIENT_OFFSET_BUF - 2, pair[3], (pair[1] + pair[2]) \div 2)

record_offset(o) ==
    IF Len(o.offset_buf) < ORIENT_OFFSET_BUF
    THEN [o EXCEPT !.offset_buf = Append(@, o.gravity_offset)] ELSE o

reset_accumulator(o) ==
    [o EXCEPT !.acc = Zero, !.acc_sq = Zero, !.stable_count = 0]

Resolved(o, r) ==
    CASE ~r.valid -> o
      [] r.valid /\ ~r.near -> [o EXCEPT !.z_dir = r.z_dir]
      [] OTHER -> record_offset([o EXCEPT !.z_dir = r.z_dir, !.gravity_offset = r.offset])

try_resolve_offset(o, ref, cur) ==
    reset_accumulator(Resolved(o, resolve_gravity_offset(ref, cur, o.trimmed)))

signed_z(v, dir) == IF dir = -1 THEN -Sqrt(z_sq(v)) ELSE Sqrt(z_sq(v))

accumulate_sample(o, avg) ==
    [o EXCEPT !.stable_count = @ + 1,
              !.acc = [i \in Axis |-> @[i] + avg[i]],
              !.acc_sq = [i \in Axis |-> @[i] + Sq(avg[i])]]

update_peak_trough(o, avg) ==
    LET first == o.stable_count = 1
        peak == IF first THEN avg ELSE o.peak
        trough == IF first THEN avg ELSE o.trough
    IN [o EXCEPT !.peak = IF avg[3] > peak[3] THEN avg ELSE peak,
                 !.trough = IF avg[3] < trough[3] THEN avg ELSE trough]

detect_outlier(o, avg) ==
    \/ avg[3] = o.trough[3] /\ 2 * (o.peak[3] - avg[3]) > G
    \/ avg[3] = o.peak[3] /\ 2 * (avg[3] - o.trough[3]) > G

\* handle_long_stable: the variance is taken as of LongStable samples, which
\* is not the number that was accumulated.
handle_long_stable(o, avg) ==
    LET n == LongStable
        v == Max({o.acc_sq[i] * n - Sq(o.acc[i]) : i \in Axis})
    IN IF 1000 * v < 4 * Sq(G) * n * (n - 1)
       THEN record_offset([o EXCEPT !.gravity_offset = avg[3] - signed_z(avg, o.z_dir)])
       ELSE o

\* outlier_detected is cleared by the reset that follows it at once.
Drifted(o, avg) ==
    IF o.stable_count < 2 THEN o
    ELSE IF detect_outlier(o, avg) THEN try_resolve_offset(o, o.peak, avg)
    ELSE IF o.stable_count >= LongStable THEN handle_long_stable(o, avg)
    ELSE o

handle_stable_drift(o, avg) ==
    Drifted(update_peak_trough(accumulate_sample(o, avg), avg), avg)

update_offset_trimmed_mean(o) ==
    IF Len(o.offset_buf) < ORIENT_OFFSET_BUF THEN o
    ELSE LET values == ToSet(o.offset_buf)
         IN [o EXCEPT !.offset_buf = <<>>,
                      !.trimmed = FoldLeft(LAMBDA x, y : x + y, 0, o.offset_buf)
                                  - Min(values) - Max(values)]

\* The end of update_gravity_tracking: the new reference and the sign of Z.
Referenced(o, avg) ==
    [o EXCEPT !.ref = avg,
              !.z_dir = IF avg[3] > o.gravity_offset THEN 1
                        ELSE IF avg[3] < o.gravity_offset THEN -1 ELSE @]

\* bootstrap_reference, the restart after a jump, and the tracking proper; ok
\* is FALSE where update_gravity_tracking returns -1.  offset_init is never
\* set, so mean_offset stays 0.
Tracked(o, avg, drift) ==
    CASE o.ref = Zero ->
            [ok |-> TRUE, o |-> [o EXCEPT !.ref = avg,
                                          !.gravity_offset = avg[3] - signed_z(avg, o.z_dir)]]
      [] o.ref # Zero /\ 5 * drift > 12 * G -> [ok |-> FALSE, o |-> [o EXCEPT !.ref = Zero]]
      [] OTHER ->
            [ok |-> TRUE, o |-> Referenced(update_offset_trimmed_mean(
                                    IF 5 * drift <= G THEN handle_stable_drift(o, avg)
                                    ELSE try_resolve_offset(o, o.ref, avg)), avg)]

update_gravity_tracking(o, avg) == Tracked(o, avg, Abs(avg[3] - o.ref[3]))

-----------------------------------------------------------------------------
(* One sample *)

median3(a, b, c) == SortSeq(<<a, b, c>>, <)[2]

\* median_filter_z: the first three values pass as they are.
median_filter_z(o, z) ==
    IF Len(o.z_median) < 3 THEN [z |-> z, buf |-> Append(o.z_median, z)]
    ELSE [z |-> median3(o.z_median[2], o.z_median[3], z), buf |-> Append(Tail(o.z_median), z)]

\* Mutant: the ring counts as full only while its index has just wrapped.
store_in_bufferWrapped(o, in) ==
    IF Len(o.buf) = ORIENT_BUF_SIZE THEN <<in>> ELSE Append(o.buf, in)

\* store_in_buffer; the order of the ring does not matter to its sums.
store_in_buffer(o, in) ==
    IF Len(o.buf) = ORIENT_BUF_SIZE THEN Append(Tail(o.buf), in) ELSE Append(o.buf, in)

SumOf(buf, F(_)) == FoldLeft(LAMBDA x, v : x + F(v), 0, buf)

\* max_buffer_variance against ORIENT_VARIANCE_THRESH (0.01 of a squared g).
Moving(buf) ==
    LET n == ORIENT_BUF_SIZE
    IN \E i \in Axis :
          n * SumOf(buf, LAMBDA v : Sq(v[i])) - Sq(SumOf(buf, LAMBDA v : v[i]))
              > n * (n - 1) * (Sq(G) \div 100)

average_buffer(buf) ==
    [i \in Axis |-> SumOf(buf, LAMBDA v : v[i]) \div ORIENT_BUF_SIZE]

Rounded(n, d) == (2 * n + d) \div (2 * d)

\* More than a g in x and y is scaled down to 0.9999, rounded to the unit here.
Scaled(v) ==
    LET norm == Sqrt(Sq(v[1]) + Sq(v[2]))
        Part(n) == Rounded(9999 * n * G, 10000 * norm)
    IN <<Part(v[1]), Part(v[2]), v[3]>>

\* The sample in the ring, the stability count, the tracking of a still
\* machine, and the result of update_orientation.
Stored(o, x, y, med) ==
    [o EXCEPT !.z_median = med.buf, !.buf = store_in_buffer(o, <<x, y, med.z>>)]

Counted(o) ==
    IF Moving(o.buf) THEN reset_accumulator(o)
    ELSE IF o.stable_count <= ORIENT_STABLE_MIN THEN [o EXCEPT !.stable_count = @ + 1]
    ELSE o

Still(o, avg) ==
    IF Sq(avg[1]) + Sq(avg[2]) > Sq(G)
    THEN update_gravity_tracking(reset_accumulator(o), Scaled(avg))
    ELSE update_gravity_tracking(o, avg)

Returned(r) == [o |-> r.o, ost |-> IF r.ok /\ r.o.gravity_offset # 0 THEN 1 ELSE 0]

Filtered(o) ==
    Returned(IF Len(o.buf) < ORIENT_BUF_SIZE THEN [ok |-> FALSE, o |-> o]
             ELSE LET counted == Counted(o)
                  IN IF counted.stable_count <= ORIENT_STABLE_MIN THEN [ok |-> TRUE, o |-> counted]
                     ELSE Still(counted, average_buffer(counted.buf)))

update_orientation(o, accel) ==
    Filtered(Stored(o, accel[1], accel[2], median_filter_z(o, accel[3])))

\* poll_sensors as far as update_orientation_debounce: the sample of the
\* first chip with its X negated.
a1_orient == LET raw == read_accel(<<Bytes(pose[1]), Bytes(pose[2]), Bytes(pose[3] + bias)>>)
             IN <<-raw[1], raw[2], raw[3]>>

Poll ==
    LET r == update_orientation(s, a1_orient)
    IN /\ r.o.stable_count <= MaxStable
       /\ s' = r.o /\ ost' = r.ost
       /\ steady' = Min({steady + 1, ORIENT_BUF_SIZE + ORIENT_STABLE_MIN + 4})
       /\ UNCHANGED <<pose, bias, moves>>

MoveMachine ==
    /\ moves < MaxMoves /\ moves' = moves + 1
    /\ pose' \in Poses \ {pose}
    /\ steady' = 0
    /\ UNCHANGED <<s, ost, bias>>

\* A zeroed OrientState: g_new0 in mxc6655_open.
Fresh ==
    [z_median |-> <<>>, buf |-> <<>>, stable_count |-> 0, acc |-> Zero, acc_sq |-> Zero,
     peak |-> Zero, trough |-> Zero, ref |-> Zero, z_dir |-> 0, gravity_offset |-> 0,
     offset_buf |-> <<>>, trimmed |-> 0]

\* The device is closed and opened again.
Reopen ==
    /\ s' = Fresh /\ ost' = 0 /\ steady' = 0
    /\ UNCHANGED <<pose, bias, moves>>

Init ==
    /\ s = Fresh
    /\ ost = 0 /\ steady = 0 /\ moves = 0
    /\ pose \in Poses /\ bias \in Biases

Next == Poll \/ MoveMachine \/ Reopen

-----------------------------------------------------------------------------
(* What the proxy makes of an accepted sample *)

\* classify_orientation: 0 normal, 1 left, 2 inverted, 3 right.
classify_orientation(v) ==
    CASE 10 * Abs(v[1]) < 4 * G /\ 10 * Abs(v[2]) < 4 * G -> -1
      [] OTHER -> IF Abs(v[2]) >= Abs(v[1]) THEN IF v[2] < 0 THEN 0 ELSE 2
                  ELSE IF v[1] > 0 THEN 3 ELSE 1

build_synthetic_readings(orient) ==
    CASE orient = 2 -> <<0, 256, 0>>
      [] orient = 1 -> <<256, 0, 0>>
      [] orient = 3 -> <<-256, 0, 0>>
      [] OTHER -> <<0, -256, 0>>

\* An angle of more than 35 degrees, once rounded, between an axis and the
\* plane of the other two (the square of the tangent of 35.5 degrees).
Steep(a, b, c) == 10000 * Sq(a) > 5088 * (Sq(b) + Sq(c))

\* orientation_calc.  A rotation above 35 degrees is never below
\* SAME_AXIS_LIMIT, so prev matters only near the border of two thresholds.
orientation_calc(prev, v) ==
    LET portrait == Steep(v[1], v[2], v[3])
        landscape == Steep(v[2], v[1], v[3])
    IN CASE portrait /\ ~landscape -> IF v[1] > 0 THEN "left-up" ELSE "right-up"
         [] landscape /\ ~portrait -> IF v[2] > 0 THEN "bottom-up" ELSE "normal"
         [] OTHER -> prev

(* A machine with an imperfect Z axis that is held still in a pose steep     *)
(* enough gets an orientation, whatever the filter went through before, and  *)
(* it is the one orientation_calc finds in the unfiltered reading: "Feed     *)
(* values that make orientation_calc() return the desired result".           *)
StillIsUnderstood ==
    (bias # 0 /\ steady = ORIENT_BUF_SIZE + ORIENT_STABLE_MIN + 4) =>
        /\ ost = 1
        /\ \A prev \in {"undefined", "normal", "bottom-up", "left-up", "right-up"} :
              LET plain == orientation_calc("undefined", pose)
                  orient == classify_orientation(a1_orient)
              IN (plain # "undefined" /\ orient >= 0) =>
                     orientation_calc(prev, build_synthetic_readings(orient)) = plain
=============================================================================
