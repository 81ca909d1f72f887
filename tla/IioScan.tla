------------------------------- MODULE IioScan -------------------------------
(***************************************************************************)
(* What iio-buffer-utils.c computes: the sampling frequency to ask for, the *)
(* channels of a scan and their places in it, and the value of a channel.   *)
(* A scan is a sequence of bytes.  Encoded is the kernel's side, which the  *)
(* decoding has to undo: a field of bits in a word, padding around it, words *)
(* aligned to their size and the scan to its widest word.                   *)
(***************************************************************************)
EXTENDS Integers, Sequences, FiniteSetsExt, SequencesExt

IIO_MIN_SAMPLING_FREQUENCY == 10
PROXIMITY_WATER_MARK_LOW == 9       \* tenths of the near level
PROXIMITY_WATER_MARK_HIGH == 11

\* A supported frequency, rounded up where possible; 0 disables sampling.
iio_round_sampling_frequency(available, desired) ==
    LET higher == {f \in available \ {0} : f >= desired}
        lower == {f \in available \ {0} : f < desired}
    IN  CASE higher # {} -> Min(higher)
          [] higher = {} /\ lower # {} -> Max(lower)
          [] OTHER -> desired

\* The frequency a device samples at from now on.
iio_fixup_sampling_frequency(freq, available) ==
    IF freq >= IIO_MIN_SAMPLING_FREQUENCY THEN freq
    ELSE iio_round_sampling_frequency(available, IIO_MIN_SAMPLING_FREQUENCY)

-----------------------------------------------------------------------------
(* Channels: [name, index, bytes, bits, shift, signed, be, offset, scale,   *)
(* indexed (its index can be read), typed (its type can be parsed)].        *)

\* A channel without an index or with a scale of zero spoils the whole device.
BuildFails(channels) == \E i \in DOMAIN channels : ~channels[i].indexed \/ channels[i].scale = 0

\* Channels whose type cannot be parsed are left out.
build_channel_array(channels) ==
    SortSeq(SelectSeq(channels, LAMBDA c : c.typed), LAMBDA a, b : a.index < b.index)

NextLocation(bytes, c) ==
    IF bytes % c.bytes = 0 THEN bytes ELSE bytes - (bytes % c.bytes) + c.bytes

\* Where each channel of a scan ends; it starts its size before.  The last end
\* is the size of the scan.
size_from_channelarray(array) ==
    LET end[k \in DOMAIN array] ==
            LET bytes == IF k = 1 THEN 0 ELSE end[k - 1]
            IN  NextLocation(bytes, array[k]) + array[k].bytes
    IN  end

Wrap(n, width) == ((n + 2^(width - 1)) % 2^width) - 2^(width - 1)

\* Mutant: the bits above the field are kept.
PROCESS_CHANNEL_BITSUnmasked(c, word) ==
    LET input == word \div 2^c.shift
    IN  IF c.signed THEN Wrap(Wrap(input, 8 * c.bytes) + c.offset, 8 * c.bytes) ELSE input + c.offset

\* Shift, mask and extend the sign; a signed sum wraps at the word's width.
PROCESS_CHANNEL_BITS(c, word) ==
    LET input == (word \div 2^c.shift) % 2^c.bits
    IN  IF c.signed THEN Wrap(Wrap(input, c.bits) + c.offset, 8 * c.bytes) ELSE input + c.offset

\* The word of c at place p (from 0) of the data, in the channel's byte order.
WordAt(data, p, c) ==
    LET word[k \in 0..c.bytes] ==
            IF k = 0 THEN 0
            ELSE word[k - 1] + data[p + k] * 256^(IF c.be THEN c.bytes - k ELSE k - 1)
    IN  word[c.bytes]

\* The values of a channel of the scan at base: what an absent channel leaves in
\* the caller's variable is arbitrary.
process_scan_1(data, base, array, end, name, arbitrary) ==
    LET found == {k \in DOMAIN array : array[k].name = name}
        k == Min(found)
    IN  IF found = {} THEN arbitrary
        ELSE {PROCESS_CHANNEL_BITS(array[k],
                  WordAt(data, base + end[k] - array[k].bytes, array[k]))}

-----------------------------------------------------------------------------
(* The kernel's side.                                                       *)

Aligned(n, width) == ((n + width - 1) \div width) * width

\* Bytes of a channel's word holding v, lowest first, with its padding bits set.
\* Only the low 16 bits of a word carry data here.
FieldBytes(c, v) ==
    LET used == c.bits + c.shift
        word == (v % 2^c.bits) * 2^c.shift + (2^c.shift - 1)
                + (IF c.bytes <= 2 THEN 2^(8 * c.bytes) - 2^used ELSE 0)
    IN  [k \in 1..c.bytes |-> IF k <= 2 THEN (word \div 256^(k - 1)) % 256 ELSE 0]

\* s with zeroes up to a multiple of width.
PaddedTo(s, width) == s \o [i \in 1..(Aligned(Len(s), width) - Len(s)) |-> 0]

\* A scan with the values v of the channels (a function of their names).
Encoded(channels, v) ==
    LET array == SortSeq(channels, LAMBDA a, b : a.index < b.index)
        upto[k \in 0..Len(array)] ==
            IF k = 0 THEN <<>>
            ELSE LET c == array[k]
                     before == upto[k - 1]
                     field == FieldBytes(c, v[c.name])
                 IN  PaddedTo(before, c.bytes) \o (IF c.be THEN Reverse(field) ELSE field)
    IN  PaddedTo(upto[Len(array)], Max({array[k].bytes : k \in DOMAIN array}))
=============================================================================
