--------------------------- MODULE Thermald_proof ---------------------------
(***************************************************************************)
(* The safety properties of thermald's engine, for any sensors, kernel     *)
(* zones, poll intervals, capacity of the pipe and number of requests, and *)
(* for the daemon that runs it.  They speak of the states in which the     *)
(* pipe is empty, so the invariant says what the messages in a pipe that   *)
(* lost none will do: the last FAST_POLL message with the bit of a polling *)
(* trip agrees with that trip, POLL and FAST_POLL messages come in pairs,  *)
(* and the masks and the timeout agree whenever no pair is half taken.     *)
(* The last part is the adaptive engine's: whatever targets came before,   *)
(* the zones hold the trips of the current one, for any tables.            *)
(***************************************************************************)
EXTENDS Thermald, ThermalSetup_proof

\* The messages that are sent: about a sensor, or plain.
PollKinds == {"POLL_ENABLE", "POLL_DISABLE", "FAST_POLL_ENABLE", "FAST_POLL_DISABLE"}
Messages == [kind : PollKinds \cup {"PREF_CHANGED", "WAKEUP", "TERMINATE"}, sensor : Nat]
Entries == [msg : Messages, torn : BOOLEAN, shifted : BOOLEAN]
Checks == [zone : TripZones, cold : BOOLEAN]

EngineType ==
    /\ pipe \in Seq(Entries) /\ work \in Seq(Checks)
    /\ pollOn \subseteq TripZones /\ stale \subseteq TripZones /\ pollOn \cap stale = {}
    /\ interval \in Nat /\ timeout \in Int /\ saved \in Int
    /\ ready => pipe # <<>>

\* zone_preferences begins with the policies of before thermald from the first
\* takeover on; giving them back is right however many takeovers came after,
\* and until the first of a new engine they are in force.
Governors == {"user_space"} \cup {Policy0[i] : i \in DOMAIN Policy0}
Saved == Len(prefs) >= Len(Policy0) /\ \A i \in 1..Len(Policy0) : prefs[i] = Policy0[i]
Sound == ~crashed /\ ~late /\ ~skewed
PolicyInv ==
    Sound => /\ policy \in Seq(Governors) /\ Len(policy) = Len(Policy0)
             /\ prefs \in Seq(Governors)
             /\ main \in {"leaving", "destroying", "gone", "undefined"} => policy = Policy0
             /\ main \in {"serve", "exiting", "reinit"} => Saved
             /\ main = "starting" => Saved \/ (prefs = <<>> /\ policy = Policy0)
             /\ main \in {"starting", "serve", "exiting", "reinit", "leaving", "destroying", "gone",
                         "undefined"}

-----------------------------------------------------------------------------
(* What a pipe that lost no message holds *)

Kind(q, i) == q[i].msg.kind

\* Zones whose polling trip has a bit of its own, and the messages with that bit.
Soles == {i \in TripZones : Sole(i)}
Fast(q, i, s) ==
    /\ Kind(q, i) \in {"FAST_POLL_ENABLE", "FAST_POLL_DISABLE"}
    /\ Bit(q[i].msg.sensor) = Bit(SensorList[s])

Intact(q) ==
    /\ Len(q) <= PipeCapacity
    /\ \A i \in DOMAIN q : ~q[i].torn /\ ~q[i].shifted

\* The last word with the bit of a polling trip is the state of the trip.
LastWord(q, mask, on) ==
    \A s \in Soles :
        /\ (\A i \in DOMAIN q : ~Fast(q, i, s)) => (Bit(SensorList[s]) \in mask <=> s \in on)
        /\ \A i \in DOMAIN q :
             Fast(q, i, s) /\ (\A j \in DOMAIN q : j > i => ~Fast(q, j, s)) =>
               (Kind(q, i) = "FAST_POLL_ENABLE" <=> s \in on)

\* A POLL message is followed by its FAST_POLL message, which never comes
\* without it, except at the head when the first of the pair has been taken.
Paired(q) ==
    /\ \A i \in DOMAIN q : Kind(q, i) = "POLL_ENABLE" =>
         i + 1 \in DOMAIN q /\ Kind(q, i + 1) = "FAST_POLL_ENABLE"
           /\ q[i + 1].msg.sensor = q[i].msg.sensor
    /\ \A i \in DOMAIN q : Kind(q, i) = "POLL_DISABLE" =>
         i + 1 \in DOMAIN q /\ Kind(q, i + 1) = "FAST_POLL_DISABLE"
           /\ q[i + 1].msg.sensor = q[i].msg.sensor
    /\ \A i \in DOMAIN q :
         i > 1 /\ Kind(q, i) \in {"FAST_POLL_ENABLE", "FAST_POLL_DISABLE"} =>
           Kind(q, i - 1) \in {"POLL_ENABLE", "POLL_DISABLE"}

\* With a configured interval the POLL messages are ignored.
FixedRate(n, t, was, mask) ==
    n # 0 => /\ was \in {0, n * 1000}
             /\ mask # {} => was # 0
             /\ t = IF mask # {} THEN 1000 ELSE n * 1000

\* Without one the masks agree, but for the pair that is half taken.
FreeRate(q, n, t, slow, mask) ==
    n = 0 =>
        /\ q # <<>> /\ Kind(q, 1) = "FAST_POLL_ENABLE" =>
             slow = mask \cup {Bit(q[1].msg.sensor)}
        /\ q # <<>> /\ Kind(q, 1) = "FAST_POLL_DISABLE" =>
             slow = mask \ {Bit(q[1].msg.sensor)} /\ (slow # {} => t = 1000)
        /\ ~(q # <<>> /\ Kind(q, 1) \in {"FAST_POLL_ENABLE", "FAST_POLL_DISABLE"}) =>
             slow = mask /\ (mask # {} => t = 1000)

RateInv ==
    ~lost => /\ Intact(pipe) /\ Paired(pipe) /\ LastWord(pipe, fastMask, pollOn \cup stale)
             /\ FixedRate(interval, timeout, saved, fastMask)
             /\ FreeRate(pipe, interval, timeout, pollMask, fastMask)

EngineInv == EngineType /\ PolicyInv /\ RateInv

-----------------------------------------------------------------------------
(* Sending *)

\* send_message keeps the pipe a sequence of messages.
LEMMA SendType ==
    ASSUME NEW q \in Seq(Entries), NEW m \in Messages
    PROVE  Send(q, m) \in Seq(Entries) /\ Send(q, m) # <<>>
<1>1. CASE Len(q) > PipeCapacity
  BY <1>1, EngineAssumption DEF Send
<1>2. CASE ~(Len(q) > PipeCapacity)
  <2> DEFINE e == [msg |-> m, torn |-> Len(q) = PipeCapacity, shifted |-> OutOfStep(q)]
  <2>1. OutOfStep(q) \in BOOLEAN
    BY DEF OutOfStep
  <2>2. e \in Entries
    BY <2>1 DEF Entries
  <2>3. Send(q, m) = Append(q, e)
    BY <1>2 DEF Send
  <2> HIDE DEF e
  <2> QED
    BY <2>2, <2>3
<1> QED
  BY <1>1, <1>2

Whole(m) == [msg |-> m, torn |-> FALSE, shifted |-> FALSE]

\* A message that meets room in an intact pipe arrives whole.
LEMMA SendWhole ==
    ASSUME NEW q \in Seq(Entries), NEW m \in Messages, Intact(q), Len(q) < PipeCapacity
    PROVE  Send(q, m) = Append(q, Whole(m)) /\ Intact(Send(q, m))
<1>1. OutOfStep(q) = FALSE
  BY DEF OutOfStep, Intact
<1>2. ~(Len(q) > PipeCapacity) /\ (Len(q) = PipeCapacity) = FALSE
  BY EngineAssumption
<1>3. Send(q, m) = Append(q, Whole(m))
  BY <1>1, <1>2 DEF Send, Whole
<1>4. ~Whole(m).torn /\ ~Whole(m).shifted
  BY DEF Whole
<1>5. Intact(Append(q, Whole(m)))
  BY <1>4, EngineAssumption DEF Intact
<1> QED
  BY <1>3, <1>5

\* A message that is about no sensor disturbs nothing.
LEMMA SendPlain ==
    ASSUME NEW q \in Seq(Entries), NEW m \in Messages, m.kind \notin PollKinds,
           NEW n, NEW t, NEW slow, NEW mask, NEW on,
           Paired(q), LastWord(q, mask, on), FreeRate(q, n, t, slow, mask)
    PROVE  LET r == Append(q, Whole(m))
           IN Paired(r) /\ LastWord(r, mask, on) /\ FreeRate(r, n, t, slow, mask)
<1> DEFINE r == Append(q, Whole(m))
<1>1. /\ Len(q) \in Nat /\ DOMAIN q = 1..Len(q) /\ DOMAIN r = 1..(Len(q) + 1) /\ r # <<>>
      /\ \A i \in DOMAIN q : r[i] = q[i]
      /\ r[Len(q) + 1] = Whole(m)
  OBVIOUS
<1> HIDE DEF r
<1>2. /\ Kind(r, Len(q) + 1) = m.kind
      /\ \A i \in DOMAIN q : Kind(r, i) = Kind(q, i) /\ r[i].msg.sensor = q[i].msg.sensor
  BY <1>1 DEF Kind, Whole
<1>3. \A s \in Soles : /\ \A i \in DOMAIN q : Fast(r, i, s) <=> Fast(q, i, s)
                       /\ ~Fast(r, Len(q) + 1, s)
  BY <1>2 DEF Fast, PollKinds
<1>4. LastWord(r, mask, on)
  BY <1>1, <1>2, <1>3 DEF LastWord
<1>5. Paired(r)
  <2>1. \A i \in DOMAIN r : i \in DOMAIN q \/ (i = Len(q) + 1 /\ Kind(r, i) = m.kind)
    BY <1>1, <1>2
  <2>2. \A i \in DOMAIN q : i > 1 => i - 1 \in DOMAIN q
    BY <1>1
  <2> QED
    BY <1>1, <1>2, <2>1, <2>2 DEF Paired, PollKinds
<1>6. FreeRate(r, n, t, slow, mask)
  <2>1. CASE q = <<>>
    <3>1. Kind(r, 1) = m.kind
      BY <1>2, <2>1
    <3> QED
      BY <2>1, <3>1 DEF FreeRate, PollKinds
  <2>2. CASE q # <<>>
    <3>1. Kind(r, 1) = Kind(q, 1) /\ r[1].msg.sensor = q[1].msg.sensor
      BY <1>1, <1>2, <2>2
    <3> QED
      BY <1>1, <2>2, <3>1 DEF FreeRate
  <2> QED
    BY <2>1, <2>2
<1> QED
  BY <1>1, <1>2, <1>4, <1>5, <1>6 DEF r

\* The two messages of a polling trip that changes side.
LEMMA SendPair ==
    ASSUME NEW q \in Seq(Entries), NEW s \in TripZones, NEW first, NEW second,
           \/ first = "POLL_ENABLE" /\ second = "FAST_POLL_ENABLE"
           \/ first = "POLL_DISABLE" /\ second = "FAST_POLL_DISABLE",
           NEW n, NEW t, NEW slow, NEW mask, NEW on,
           Paired(q), LastWord(q, mask, on), FreeRate(q, n, t, slow, mask)
    PROVE  LET r == Append(Append(q, Whole([kind |-> first, sensor |-> SensorList[s]])),
                           Whole([kind |-> second, sensor |-> SensorList[s]]))
           IN /\ Paired(r) /\ FreeRate(r, n, t, slow, mask)
              /\ LastWord(r, mask, IF first = "POLL_ENABLE" THEN on \cup {s} ELSE on \ {s})
<1> DEFINE m1 == [kind |-> first, sensor |-> SensorList[s]]
           m2 == [kind |-> second, sensor |-> SensorList[s]]
           p == Append(q, Whole(m1))
           r == Append(p, Whole(m2))
           a == Len(q) + 1
           b == Len(q) + 2
           now == IF first = "POLL_ENABLE" THEN on \cup {s} ELSE on \ {s}
<1>1. /\ Len(q) \in Nat /\ DOMAIN q = 1..Len(q) /\ DOMAIN r = 1..(Len(q) + 2) /\ r # <<>>
      /\ \A i \in DOMAIN q : r[i] = q[i]
      /\ r[a] = Whole(m1) /\ r[b] = Whole(m2)
  OBVIOUS
<1>2. /\ Kind(r, a) = first /\ r[a].msg.sensor = SensorList[s]
      /\ Kind(r, b) = second /\ r[b].msg.sensor = SensorList[s]
      /\ \A i \in DOMAIN q : Kind(r, i) = Kind(q, i) /\ r[i].msg.sensor = q[i].msg.sensor
  BY <1>1 DEF Kind, Whole
<1> HIDE DEF r, p, m1, m2
<1>3. /\ \A u \in Soles : \A i \in DOMAIN q : Fast(r, i, u) <=> Fast(q, i, u)
      /\ \A u \in Soles : ~Fast(r, a, u) /\ (Fast(r, b, u) <=> u = s)
  <2>1. \A u \in Soles : u # s => Bit(SensorList[s]) # Bit(SensorList[u])
    BY DEF Soles, Sole
  <2> QED
    BY <1>2, <2>1 DEF Fast
<1>4. \A i \in DOMAIN r : i \in DOMAIN q \/ i = a \/ i = b
  BY <1>1
<1>5. a \in DOMAIN r /\ b \in DOMAIN r /\ b = a + 1 /\ a = b - 1 /\ DOMAIN q \subseteq DOMAIN r
      /\ \A i \in DOMAIN q : b > i
  BY <1>1
<1>6. LastWord(r, mask, now)
  <2> SUFFICES ASSUME NEW u \in Soles
               PROVE  /\ (\A i \in DOMAIN r : ~Fast(r, i, u)) => (Bit(SensorList[u]) \in mask <=> u \in now)
                      /\ \A i \in DOMAIN r :
                           Fast(r, i, u) /\ (\A j \in DOMAIN r : j > i => ~Fast(r, j, u)) =>
                             (Kind(r, i) = "FAST_POLL_ENABLE" <=> u \in now)
    BY DEF LastWord
  <2>1. CASE u = s
    BY <1>2, <1>3, <1>4, <1>5, <2>1
  <2>2. CASE u # s
    <3>1. u \in now <=> u \in on
      BY <2>2
    <3>2. (\A i \in DOMAIN r : ~Fast(r, i, u)) => (Bit(SensorList[u]) \in mask <=> u \in on)
      BY <1>3, <1>5 DEF LastWord
    <3>3. ASSUME NEW i \in DOMAIN r, Fast(r, i, u), \A j \in DOMAIN r : j > i => ~Fast(r, j, u)
          PROVE  Kind(r, i) = "FAST_POLL_ENABLE" <=> u \in on
      <4>1. i \in DOMAIN q /\ Fast(q, i, u) /\ \A j \in DOMAIN q : j > i => ~Fast(q, j, u)
        BY <1>3, <1>4, <1>5, <2>2, <3>3
      <4> QED
        BY <1>2, <4>1 DEF LastWord
    <3> QED
      BY <3>1, <3>2, <3>3
  <2> QED
    BY <2>1, <2>2
<1>7. Paired(r)
  <2>1. \A i \in DOMAIN q : i > 1 => i - 1 \in DOMAIN q
    BY <1>1
  <2>2. \A i \in DOMAIN q : i + 1 \in DOMAIN q => i + 1 \in DOMAIN r
    BY <1>5
  <2>3. ASSUME NEW i \in DOMAIN r, Kind(r, i) = "POLL_ENABLE"
        PROVE  i + 1 \in DOMAIN r /\ Kind(r, i + 1) = "FAST_POLL_ENABLE"
                 /\ r[i + 1].msg.sensor = r[i].msg.sensor
    <3>1. CASE i \in DOMAIN q
      <4>1. Kind(q, i) = "POLL_ENABLE"
        BY <1>2, <2>3, <3>1
      <4>2. i + 1 \in DOMAIN q /\ Kind(q, i + 1) = "FAST_POLL_ENABLE"
              /\ q[i + 1].msg.sensor = q[i].msg.sensor
        BY <3>1, <4>1 DEF Paired
      <4> QED
        BY <1>2, <2>2, <3>1, <4>2
    <3>2. CASE i = a
      BY <1>2, <1>5, <2>3, <3>2
    <3> QED
      BY <1>2, <1>4, <2>3, <3>1, <3>2
  <2>4. ASSUME NEW i \in DOMAIN r, Kind(r, i) = "POLL_DISABLE"
        PROVE  i + 1 \in DOMAIN r /\ Kind(r, i + 1) = "FAST_POLL_DISABLE"
                 /\ r[i + 1].msg.sensor = r[i].msg.sensor
    <3>1. CASE i \in DOMAIN q
      <4>1. Kind(q, i) = "POLL_DISABLE"
        BY <1>2, <2>4, <3>1
      <4>2. i + 1 \in DOMAIN q /\ Kind(q, i + 1) = "FAST_POLL_DISABLE"
              /\ q[i + 1].msg.sensor = q[i].msg.sensor
        BY <3>1, <4>1 DEF Paired
      <4> QED
        BY <1>2, <2>2, <3>1, <4>2
    <3>2. CASE i = a
      BY <1>2, <1>5, <2>4, <3>2
    <3> QED
      BY <1>2, <1>4, <2>4, <3>1, <3>2
  <2>5. \A i \in DOMAIN r :
          i > 1 /\ Kind(r, i) \in {"FAST_POLL_ENABLE", "FAST_POLL_DISABLE"} =>
            Kind(r, i - 1) \in {"POLL_ENABLE", "POLL_DISABLE"}
    BY <1>2, <1>4, <1>5, <2>1 DEF Paired
  <2> QED
    BY <2>3, <2>4, <2>5 DEF Paired
<1>8. FreeRate(r, n, t, slow, mask)
  <2>1. CASE q = <<>>
    <3>1. Kind(r, 1) = first
      BY <1>2, <2>1
    <3> QED
      BY <2>1, <3>1 DEF FreeRate
  <2>2. CASE q # <<>>
    <3>1. Kind(r, 1) = Kind(q, 1) /\ r[1].msg.sensor = q[1].msg.sensor
      BY <1>1, <1>2, <2>2
    <3> QED
      BY <1>1, <2>2, <3>1 DEF FreeRate
  <2> QED
    BY <2>1, <2>2
<1> QED
  BY <1>2, <1>4, <1>5, <1>6, <1>7, <1>8 DEF r, p, m1, m2

-----------------------------------------------------------------------------
(* Taking a message *)

\* The pipe after a read: its entries, one place further on.
LEMMA TakeOne ==
    ASSUME NEW q \in Seq(Entries), q # <<>>
    PROVE  LET r == Tail(q)
           IN /\ r \in Seq(Entries) /\ Len(q) \in Nat \ {0} /\ Len(r) = Len(q) - 1
              /\ DOMAIN q = 1..Len(q) /\ DOMAIN r = 1..Len(r)
              /\ \A i \in DOMAIN r : i + 1 \in DOMAIN q /\ r[i] = q[i + 1]
              /\ \A i \in DOMAIN q : i = 1 \/ (i - 1 \in DOMAIN r /\ r[i - 1] = q[i])
              /\ Head(q) = q[1] /\ 1 \in DOMAIN q
OBVIOUS

\* A read keeps an intact pipe intact, and leaves at most one half of a pair,
\* at the head.
LEMMA TakeIntact ==
    ASSUME NEW q \in Seq(Entries), q # <<>>, Intact(q), Paired(q)
    PROVE  /\ Intact(Tail(q)) /\ Paired(Tail(q))
           /\ Tail(q) # <<>> /\ Kind(Tail(q), 1) \in {"FAST_POLL_ENABLE", "FAST_POLL_DISABLE"} =>
                Kind(q, 1) \in {"POLL_ENABLE", "POLL_DISABLE"}
<1> DEFINE r == Tail(q)
<1>1. /\ r \in Seq(Entries) /\ Len(q) \in Nat \ {0} /\ Len(r) = Len(q) - 1
      /\ DOMAIN q = 1..Len(q) /\ DOMAIN r = 1..Len(r)
      /\ \A i \in DOMAIN r : i + 1 \in DOMAIN q /\ r[i] = q[i + 1]
  BY TakeOne
<1> HIDE DEF r
<1>2. \A i \in DOMAIN r : Kind(r, i) = Kind(q, i + 1)
  BY <1>1 DEF Kind
<1>3. Intact(r)
  BY <1>1, EngineAssumption DEF Intact
<1>4. ASSUME NEW i \in DOMAIN r
      PROVE  /\ Kind(r, i) = "POLL_ENABLE" =>
                  i + 1 \in DOMAIN r /\ Kind(r, i + 1) = "FAST_POLL_ENABLE"
                    /\ r[i + 1].msg.sensor = r[i].msg.sensor
             /\ Kind(r, i) = "POLL_DISABLE" =>
                  i + 1 \in DOMAIN r /\ Kind(r, i + 1) = "FAST_POLL_DISABLE"
                    /\ r[i + 1].msg.sensor = r[i].msg.sensor
  <2>1. (i + 1) + 1 \in DOMAIN q => i + 1 \in DOMAIN r
    BY <1>1
  <2> QED
    BY <1>1, <1>2, <2>1 DEF Paired
<1>5. ASSUME NEW i \in DOMAIN r, i > 1,
             Kind(r, i) \in {"FAST_POLL_ENABLE", "FAST_POLL_DISABLE"}
      PROVE  Kind(r, i - 1) \in {"POLL_ENABLE", "POLL_DISABLE"}
  <2>1. i - 1 \in DOMAIN r /\ (i - 1) + 1 = i /\ (i + 1) - 1 = i /\ i + 1 > 1 /\ i + 1 \in DOMAIN q
    BY <1>1, <1>5
  <2>2. Kind(q, i) \in {"POLL_ENABLE", "POLL_DISABLE"}
    BY <1>2, <1>5, <2>1 DEF Paired
  <2> QED
    BY <1>2, <2>1, <2>2
<1>6. ASSUME r # <<>>, Kind(r, 1) \in {"FAST_POLL_ENABLE", "FAST_POLL_DISABLE"}
      PROVE  Kind(q, 1) \in {"POLL_ENABLE", "POLL_DISABLE"}
  <2>1. 1 \in DOMAIN r /\ 1 + 1 = 2 /\ 2 > 1 /\ 2 - 1 = 1 /\ 2 \in DOMAIN q
    BY <1>1, <1>6
  <2> QED
    BY <1>2, <1>6, <2>1 DEF Paired
<1> QED
  BY <1>3, <1>4, <1>5, <1>6 DEF Paired, r

\* The mask the taken message leaves, with the messages that remain, has the
\* last word again.
LEMMA TakeLastWord ==
    ASSUME NEW q \in Seq(Entries), q # <<>>, NEW mask, NEW on, NEW left, LastWord(q, mask, on),
           \A s \in Soles :
               IF Fast(q, 1, s) THEN Bit(SensorList[s]) \in left <=> Kind(q, 1) = "FAST_POLL_ENABLE"
               ELSE Bit(SensorList[s]) \in left <=> Bit(SensorList[s]) \in mask
    PROVE  LastWord(Tail(q), left, on)
<1> DEFINE r == Tail(q)
<1>1. /\ Len(q) \in Nat \ {0} /\ DOMAIN q = 1..Len(q) /\ DOMAIN r = 1..(Len(q) - 1)
      /\ \A i \in DOMAIN r : i + 1 \in DOMAIN q /\ r[i] = q[i + 1]
      /\ \A i \in DOMAIN q : i = 1 \/ (i - 1 \in DOMAIN r /\ r[i - 1] = q[i])
      /\ 1 \in DOMAIN q
  BY TakeOne
<1> HIDE DEF r
<1> SUFFICES ASSUME NEW s \in Soles
             PROVE  /\ (\A i \in DOMAIN r : ~Fast(r, i, s)) => (Bit(SensorList[s]) \in left <=> s \in on)
                    /\ \A i \in DOMAIN r :
                         Fast(r, i, s) /\ (\A j \in DOMAIN r : j > i => ~Fast(r, j, s)) =>
                           (Kind(r, i) = "FAST_POLL_ENABLE" <=> s \in on)
  BY DEF LastWord, r
<1>2. /\ \A i \in DOMAIN r : Fast(r, i, s) <=> Fast(q, i + 1, s)
      /\ \A i \in DOMAIN r : Kind(r, i) = Kind(q, i + 1)
      /\ \A i \in DOMAIN q : i = 1 \/ (i - 1 \in DOMAIN r /\ (Fast(q, i, s) <=> Fast(r, i - 1, s)))
  BY <1>1 DEF Fast, Kind
<1>3. ASSUME \A i \in DOMAIN r : ~Fast(r, i, s) PROVE Bit(SensorList[s]) \in left <=> s \in on
  <2>1. \A i \in DOMAIN q : i > 1 => ~Fast(q, i, s)
    BY <1>1, <1>2, <1>3
  <2>2. CASE Fast(q, 1, s)
    BY <1>1, <2>1, <2>2 DEF LastWord
  <2>3. CASE ~Fast(q, 1, s)
    <3>1. \A i \in DOMAIN q : ~Fast(q, i, s)
      BY <1>1, <2>1, <2>3
    <3> QED
      BY <2>3, <3>1 DEF LastWord
  <2> QED
    BY <2>2, <2>3
<1>4. ASSUME NEW i \in DOMAIN r, Fast(r, i, s), \A j \in DOMAIN r : j > i => ~Fast(r, j, s)
      PROVE  Kind(r, i) = "FAST_POLL_ENABLE" <=> s \in on
  <2>1. i + 1 \in DOMAIN q /\ Fast(q, i + 1, s)
    BY <1>1, <1>2, <1>4
  <2>2. ASSUME NEW j \in DOMAIN q, j > i + 1 PROVE ~Fast(q, j, s)
    <3>1. j # 1 /\ j - 1 > i
      BY <1>1, <2>2
    <3> QED
      BY <1>2, <1>4, <3>1
  <2> QED
    BY <1>2, <2>1, <2>2 DEF LastWord
<1> QED
  BY <1>3, <1>4

-----------------------------------------------------------------------------
(* The policies of the kernel zones *)

\* The zones of a machine without gaps, in directory order.
LEMMA Places ==
    ASSUME NEW n \in Nat
    PROVE  /\ Cardinality(1..n) = n
           /\ \A i \in 1..n : PlaceOf(1..n, i) = i
<1>1. Cardinality(1..n) = n
  BY FS_Interval
<1>2. ASSUME NEW i \in 1..n PROVE PlaceOf(1..n, i) = i
  <2>1. {j \in 1..n : j <= i} = 1..i
    OBVIOUS
  <2>2. Cardinality(1..i) = i
    BY FS_Interval
  <2> QED
    BY <2>1, <2>2 DEF PlaceOf
<1> QED
  BY <1>1, <1>2

\* No governor stands for a zone that is not there.
LEMMA AllPresent ==
    ASSUME policy \in Seq(Governors)
    PROVE  Present = DOMAIN policy /\ DOMAIN policy = 1..Len(policy) /\ Len(policy) \in Nat
<1>1. "absent" \notin Governors
  BY EngineAssumption DEF Governors
<1>2. DOMAIN policy = 1..Len(policy) /\ Len(policy) \in Nat
      /\ \A i \in DOMAIN policy : policy[i] \in Governors
  OBVIOUS
<1> QED
  BY <1>1, <1>2 DEF Present

\* The policies of before thermald are governors.
LEMMA PolicySeq ==
    /\ Policy0 \in Seq(Governors) /\ Len(Policy0) \in Nat /\ DOMAIN Policy0 = 1..Len(Policy0)
    /\ Policy0 = [i \in 1..Len(Policy0) |-> Policy0[i]]
<1>1. /\ Len(Policy0) \in Nat /\ DOMAIN Policy0 = 1..Len(Policy0)
      /\ Policy0 = [i \in 1..Len(Policy0) |-> Policy0[i]]
  BY EngineAssumption
<1>2. \A i \in 1..Len(Policy0) : Policy0[i] \in Governors
  BY <1>1 DEF Governors
<1>3. [i \in 1..Len(Policy0) |-> Policy0[i]] \in Seq(Governors)
  BY <1>1, <1>2
<1> QED
  BY <1>1, <1>3

\* giveup_thermal_control restores the policies of before thermald.
LEMMA GivenBackRestores ==
    ASSUME policy \in Seq(Governors), Len(policy) = Len(Policy0), prefs \in Seq(Governors), Saved
    PROVE  GivenBack = Policy0
<1> DEFINE n == Len(Policy0)
<1>1. Present = 1..n /\ DOMAIN policy = 1..n /\ n \in Nat
  BY AllPresent
<1>2. \A i \in 1..n : PlaceOf(Present, i) = i
  BY <1>1, Places
<1>3. Len(prefs) >= n /\ \A i \in 1..n : prefs[i] = Policy0[i]
  BY DEF Saved
<1>4. Policy0 = [i \in 1..n |-> Policy0[i]]
  BY PolicySeq
<1>5. ASSUME NEW i \in 1..n
      PROVE  (IF i \in Present /\ PlaceOf(Present, i) <= Len(prefs) THEN prefs[PlaceOf(Present, i)]
              ELSE policy[i]) = Policy0[i]
  <2>1. PlaceOf(Present, i) = i /\ i \in Present /\ prefs[i] = Policy0[i]
    BY <1>1, <1>2, <1>3
  <2>2. i <= Len(prefs)
    BY <1>1, <1>3
  <2> QED
    BY <2>1, <2>2
<1> HIDE DEF n
<1>6. GivenBack = [i \in 1..n |-> Policy0[i]]
  BY <1>1, <1>5 DEF GivenBack
<1> QED
  BY <1>4, <1>6

\* takeover_thermal_control of all zones appends their policies as they are.
LEMMA TakeoverSaves ==
    ASSUME policy \in Seq(Governors), Len(policy) = Len(Policy0), prefs \in Seq(Governors),
           Saved \/ (prefs = <<>> /\ policy = Policy0),
           NEW keep \in SUBSET Present, Takeover(keep), ~skewed'
    PROVE  /\ Saved' /\ prefs' \in Seq(Governors)
           /\ policy' \in Seq(Governors) /\ Len(policy') = Len(Policy0)
<1> DEFINE n == Len(Policy0)
<1>1. DOMAIN policy = 1..n /\ n \in Nat
  BY AllPresent
<1>2. keep = 1..n
  BY <1>1 DEF Takeover
<1>3. policy = [k \in 1..n |-> policy[k]] /\ \A k \in 1..n : policy[k] \in Governors
  BY <1>1
<1>4. ASSUME NEW k \in 1..n PROVE (CHOOSE i \in keep : PlaceOf(keep, i) = k) = k
  BY <1>1, <1>2, Places
<1>5. Cardinality(keep) = n
  BY <1>1, <1>2, Places
<1> HIDE DEF n
<1>6. [k \in 1..Cardinality(keep) |-> policy[CHOOSE i \in keep : PlaceOf(keep, i) = k]] = policy
  BY <1>3, <1>4, <1>5
<1>7. prefs' = prefs \o policy /\ policy' = [k \in 1..n |-> "user_space"]
  <2>1. policy' = [i \in DOMAIN policy |-> IF i \in keep THEN "user_space" ELSE policy[i]]
    BY DEF Takeover
  <2> QED
    BY <1>1, <1>2, <1>6, <2>1 DEF Takeover
<1>8. policy' \in Seq(Governors) /\ Len(policy') = n
  <2>1. "user_space" \in Governors
    BY DEF Governors
  <2> QED
    BY <1>1, <1>7, <2>1
<1>9. prefs' \in Seq(Governors)
  BY <1>7
<1>10. CASE Saved
  <2>1. Len(prefs) >= n /\ \A i \in 1..n : prefs[i] = Policy0[i]
    BY <1>10 DEF Saved, n
  <2>2. Len(prefs') >= n /\ \A i \in 1..n : prefs'[i] = prefs[i]
    BY <1>1, <1>7, <2>1
  <2> QED
    BY <1>8, <1>9, <2>1, <2>2 DEF Saved, n
<1>11. CASE prefs = <<>> /\ policy = Policy0
  <2>1. prefs' = Policy0
    BY <1>7, <1>11
  <2> QED
    BY <1>1, <1>8, <1>9, <2>1 DEF Saved, n
<1> QED
  BY <1>10, <1>11 DEF n

-----------------------------------------------------------------------------
(* The steps *)

\* What a new engine and a process that is gone have in common: no message,
\* no trip that is on, and the timeout of the configured interval.
LEMMA BlankInv ==
    ASSUME interval' \in Nat, timeout' \in Int, interval' # 0 => timeout' = interval' * 1000,
           saved' = 0, pollMask' = {}, fastMask' = {}, pollOn' = {}, stale' = {},
           pipe' = <<>>, ready' = FALSE, work' = <<>>
    PROVE  EngineType' /\ RateInv'
<1>1. <<>> \in Seq(Entries) /\ <<>> \in Seq(Checks)
  OBVIOUS
<1>2. EngineType'
  BY <1>1 DEF EngineType
<1>3. Intact(<<>>) /\ Paired(<<>>) /\ LastWord(<<>>, {}, {})
  BY EngineAssumption DEF Intact, Paired, LastWord
<1>4. FixedRate(interval', timeout', 0, {}) /\ FreeRate(<<>>, interval', timeout', {}, {})
  BY DEF FixedRate, FreeRate
<1>5. LastWord(pipe', fastMask', pollOn' \cup stale')
  <2>1. pollOn' \cup stale' = {}
    OBVIOUS
  <2> QED
    BY <1>3, <2>1
<1> QED
  BY <1>2, <1>3, <1>4, <1>5 DEF RateInv

\* A new engine, once the old one has given the policies back.
LEMMA StartsInv ==
    ASSUME PolicyInv, main \in {"destroying", "gone"},
           NEW i \in Intervals, NEW a \in BOOLEAN, NEW d, EngineStarts(i, a, d),
           UNCHANGED <<policy, skewed, late, crashed>>
    PROVE  EngineInv'
<1>1. i \in Nat /\ i * 1000 \in Int
  BY EngineAssumption
<1>2. EngineType' /\ RateInv'
  <2>1. timeout' = IF i # 0 THEN i * 1000 ELSE IF a THEN -1 ELSE 4000
    BY DEF EngineStarts
  <2>2. timeout' \in Int /\ (i # 0 => timeout' = i * 1000)
    BY <1>1, <2>1
  <2> QED
    BY <1>1, <2>2, BlankInv DEF EngineStarts
<1>3. PolicyInv'
  BY PolicySeq DEF PolicyInv, EngineStarts, Sound
<1> QED
  BY <1>2, <1>3 DEF EngineInv

\* The memory of the process is gone.
LEMMA ForgetsInv ==
    ASSUME Forgets PROVE EngineType' /\ RateInv' /\ prefs' \in Seq(Governors)
<1>1. interval' = 0 /\ timeout' = -1 /\ prefs' = <<>>
  BY DEF Forgets
<1>2. interval' \in Nat /\ timeout' \in Int /\ prefs' \in Seq(Governors)
  BY <1>1
<1>3. EngineType' /\ RateInv'
  BY <1>1, <1>2, BlankInv DEF Forgets
<1> QED
  BY <1>2, <1>3

\* The checks of a sweep are checks of the zones.
LEMMA ReadChecks == ReadEach \in Seq(Checks)
<1>1. Len(SensorList) \in Nat /\ TripZones = 1..Len(SensorList)
  BY EngineAssumption DEF TripZones
<1>2. \A i \in 1..Len(SensorList) : [zone |-> i, cold |-> FALSE] \in Checks
  BY <1>1 DEF Checks
<1> QED
  BY <1>1, <1>2 DEF ReadEach

\* So are those of a preference change.
LEMMA SwitchChecks == SwitchEach \in Seq(Checks)
<1>1. Len(SensorList) \in Nat /\ TripZones = 1..Len(SensorList)
  BY EngineAssumption DEF TripZones
<1> DEFINE check(i) == [zone |-> (i + 1) \div 2, cold |-> i % 2 = 1]
           n == 2 * Len(SensorList)
<1>2. ASSUME NEW i \in 1..n PROVE check(i) \in Checks
  <2>1. (i + 1) \div 2 \in 1..Len(SensorList)
    BY <1>1
  <2> QED
    BY <1>1, <2>1 DEF Checks
<1>3. n \in Nat
  BY <1>1
<1>4. SwitchEach = [i \in 1..n |-> check(i)]
  BY DEF SwitchEach
<1> HIDE DEF check, n
<1>5. [i \in 1..n |-> check(i)] \in Seq(Checks)
  BY <1>2, <1>3
<1> QED
  BY <1>4, <1>5

\* A step that sends and takes nothing, and leaves the trips alone or puts new
\* ones in their place, leaves the rate alone.
LEMMA RestInv ==
    ASSUME EngineType, RateInv,
           UNCHANGED <<pipe, lost, fastMask, pollMask, interval, timeout, saved>>,
           UNCHANGED <<pollOn, stale>> \/ RebuildTrips,
           UNCHANGED ready \/ ready' = (pipe # <<>>),
           work' \in {work, ReadEach, <<>>}
    PROVE  EngineType' /\ RateInv'
<1>1. work' \in Seq(Checks)
  <2>1. <<>> \in Seq(Checks)
    OBVIOUS
  <2> QED
    BY <2>1, ReadChecks DEF EngineType
<1>2. /\ pollOn' \subseteq TripZones /\ stale' \subseteq TripZones /\ pollOn' \cap stale' = {}
      /\ pollOn' \cup stale' = pollOn \cup stale
  BY DEF RebuildTrips, EngineType
<1>3. ready' => pipe' # <<>>
  <2>1. CASE UNCHANGED ready
    BY <2>1 DEF EngineType
  <2>2. CASE ready' = (pipe # <<>>)
    BY <2>2
  <2> QED
    BY <2>1, <2>2
<1>4. EngineType'
  BY <1>1, <1>2, <1>3 DEF EngineType
<1>5. RateInv'
  BY <1>2 DEF RateInv
<1> QED
  BY <1>4, <1>5

\* Steps of the thread and the machine that send and take nothing.
LEMMA QuietInv ==
    ASSUME EngineInv,
           \/ \E u \in BOOLEAN : Poll(u)
           \/ \E r \in BOOLEAN : Uevent(r)
           \/ Rebuild \/ EndThread \/ Elapse \/ UNCHANGED vars
           \/ \E i \in TripZones : Heat(i)
    PROVE  EngineInv'
<1>1. /\ UNCHANGED <<pipe, lost, fastMask, pollMask, interval, timeout, saved>>
      /\ UNCHANGED <<policy, prefs, skewed, late, main, crashed>>
  BY DEF Poll, Uevent, Rebuild, EndThread, Elapse, Heat, engine, control, vars
<1>2. UNCHANGED <<pollOn, stale>> \/ RebuildTrips
  BY DEF Poll, Uevent, Rebuild, EndThread, Elapse, Heat, trip, vars
<1>3. UNCHANGED ready \/ ready' = (pipe # <<>>)
  BY DEF Poll, Uevent, Rebuild, EndThread, Elapse, Heat, loop, vars
<1>4. work' \in {work, ReadEach, <<>>}
  BY DEF Poll, Uevent, Rebuild, EndThread, Elapse, Heat, loop, vars
<1>5. EngineType' /\ RateInv'
  BY <1>1, <1>2, <1>3, <1>4, RestInv DEF EngineInv
<1>6. PolicyInv'
  BY <1>1 DEF EngineInv, PolicyInv, Sound, Saved
<1> QED
  BY <1>5, <1>6 DEF EngineInv

\* Steps that take control over, give it up or meet a kernel zone that comes
\* or goes.
LEMMA ControlInv ==
    ASSUME EngineInv,
           \/ \E keep \in SUBSET Present : TakeOver(keep)
           \/ \E keep \in SUBSET Present : StartEnds(keep)
           \/ GiveUp
           \/ \E i \in DOMAIN policy : KernelZone(i)
    PROVE  EngineInv'
<1>1. /\ UNCHANGED <<pipe, lost, fastMask, pollMask, interval, timeout, saved>>
      /\ UNCHANGED <<pollOn, stale, ready, work, crashed>>
  BY DEF TakeOver, StartEnds, GiveUp, KernelZone, engine, loop, trip
<1>2. EngineType' /\ RateInv'
  BY <1>1, RestInv DEF EngineInv
<1>3. PolicyInv'
  <2> SUFFICES ASSUME Sound' PROVE PolicyInv'
    BY DEF PolicyInv
  <2>1. Sound /\ ~skewed' /\ ~late'
    <3>1. ~crashed' /\ ~skewed' /\ ~late'
      BY DEF Sound
    <3>2. skewed => skewed'
      BY Zenon DEF TakeOver, StartEnds, GiveUp, KernelZone, Takeover
    <3>3. late => late'
      BY Zenon DEF TakeOver, StartEnds, GiveUp, KernelZone
    <3> QED
      BY <1>1, <3>1, <3>2, <3>3 DEF Sound
  <2>2. /\ policy \in Seq(Governors) /\ Len(policy) = Len(Policy0) /\ prefs \in Seq(Governors)
        /\ main \in {"leaving", "destroying", "gone", "undefined"} => policy = Policy0
        /\ main \in {"serve", "exiting", "reinit"} => Saved
        /\ main = "starting" => Saved \/ (prefs = <<>> /\ policy = Policy0)
        /\ main \in {"starting", "serve", "exiting", "reinit", "leaving", "destroying", "gone",
                    "undefined"}
    BY <2>1 DEF EngineInv, PolicyInv
  <2>3. ASSUME NEW keep \in SUBSET Present, TakeOver(keep) PROVE PolicyInv'
    <3>1. main \notin {"leaving", "destroying", "gone", "undefined"} /\ main' = main
      BY <2>1, <2>3, Zenon DEF TakeOver, Running
    <3>2. CASE main \in {"serve", "exiting", "reinit", "starting"}
      <4>1. Saved' /\ prefs' \in Seq(Governors) /\ policy' \in Seq(Governors)
            /\ Len(policy') = Len(Policy0)
        BY <2>1, <2>2, <2>3, <3>2, TakeoverSaves DEF TakeOver
      <4> QED
        BY <2>2, <3>1, <4>1 DEF PolicyInv
    <3> QED
      BY <2>2, <3>1, <3>2
  <2>4. ASSUME NEW keep \in SUBSET Present, StartEnds(keep) PROVE PolicyInv'
    <3>1. main = "starting" /\ main' = "serve" /\ Takeover(keep)
      BY <2>4 DEF StartEnds
    <3>2. Saved' /\ prefs' \in Seq(Governors) /\ policy' \in Seq(Governors)
          /\ Len(policy') = Len(Policy0)
      BY <2>1, <2>2, <3>1, TakeoverSaves
    <3> QED
      BY <3>1, <3>2 DEF PolicyInv
  <2>5. CASE GiveUp
    <3>1. /\ main \in {"exiting", "reinit"} /\ main' \in {"leaving", "destroying"}
          /\ policy' = GivenBack /\ prefs' = prefs
      BY <2>5 DEF GiveUp
    <3>2. policy' = Policy0
      BY <2>2, <3>1, GivenBackRestores
    <3> QED
      BY <2>2, <3>1, <3>2, PolicySeq DEF PolicyInv
  <2>6. ~(\E i \in DOMAIN policy : KernelZone(i))
    BY <2>1 DEF KernelZone
  <2> QED
    BY <2>3, <2>4, <2>5, <2>6
<1> QED
  BY <1>2, <1>3 DEF EngineInv

\* Steps that end the process or its engine.
LEMMA ForgottenInv ==
    ASSUME EngineInv, Exit \/ Destroy \/ Crash
    PROVE  EngineInv'
<1>1. Forgets /\ UNCHANGED <<policy, skewed, late>>
  BY DEF Exit, Destroy, Crash
<1>2. EngineType' /\ RateInv' /\ prefs' \in Seq(Governors)
  BY <1>1, ForgetsInv
<1>3. PolicyInv'
  <2>1. CASE Crash
    BY <2>1 DEF Crash, PolicyInv, Sound
  <2>2. CASE Exit \/ Destroy
    <3>1. main \in {"leaving", "destroying"} /\ main' \in {"gone", "undefined"} /\ UNCHANGED crashed
      BY <2>2 DEF Exit, Destroy
    <3> QED
      BY <1>1, <1>2, <3>1 DEF EngineInv, PolicyInv, Sound
  <2> QED
    BY <2>1, <2>2
<1> QED
  BY <1>2, <1>3 DEF EngineInv

\* A message of the main thread.
LEMMA MainSendsInv ==
    ASSUME EngineInv, NEW m \in Messages, m.kind \notin PollKinds, Sends(m),
           main = "serve", main' \in {"serve", "exiting", "reinit"},
           UNCHANGED <<work, pollOn, stale, fastMask, pollMask, interval, timeout, saved, ready,
                       policy, prefs, skewed, late, crashed>>
    PROVE  EngineInv'
<1>1. pipe' = Send(pipe, m) /\ lost' = (lost \/ Len(pipe) >= PipeCapacity) /\ pipe \in Seq(Entries)
  BY DEF Sends, EngineInv, EngineType
<1>2. EngineType'
  BY <1>1, SendType DEF EngineInv, EngineType
<1>3. PolicyInv'
  BY DEF EngineInv, PolicyInv, Sound, Saved
<1>4. CASE lost'
  BY <1>2, <1>3, <1>4 DEF EngineInv, RateInv
<1>5. CASE ~lost'
  <2>0. ~lost /\ ~(Len(pipe) >= PipeCapacity)
    BY <1>1, <1>5
  <2> DEFINE on == pollOn \cup stale
  <2>1. /\ ~lost /\ Len(pipe) < PipeCapacity /\ Intact(pipe) /\ Paired(pipe)
        /\ LastWord(pipe, fastMask, on) /\ FreeRate(pipe, interval, timeout, pollMask, fastMask)
        /\ FixedRate(interval, timeout, saved, fastMask)
    BY <1>1, <2>0, EngineAssumption DEF EngineInv, RateInv
  <2> DEFINE r == Append(pipe, Whole(m))
  <2>2. pipe' = r /\ Intact(r)
    BY <1>1, <2>1, SendWhole
  <2>3. Paired(r) /\ LastWord(r, fastMask, on) /\ FreeRate(r, interval, timeout, pollMask, fastMask)
    BY <1>1, <2>1, SendPlain
  <2> HIDE DEF r
  <2>4. RateInv'
    BY <2>1, <2>2, <2>3 DEF RateInv
  <2> QED
    BY <1>2, <1>3, <2>4 DEF EngineInv
<1> QED
  BY <1>4, <1>5

\* The two messages of a trip that changes side.
LEMMA TripInv ==
    ASSUME EngineInv, NEW s \in TripZones, NEW first, NEW second,
           \/ first = "POLL_ENABLE" /\ second = "FAST_POLL_ENABLE"
           \/ first = "POLL_DISABLE" /\ second = "FAST_POLL_DISABLE",
           SendsBoth([kind |-> first, sensor |-> SensorList[s]],
                     [kind |-> second, sensor |-> SensorList[s]]),
           pollOn' \subseteq TripZones, stale' \subseteq TripZones, pollOn' \cap stale' = {},
           pollOn' \cup stale' =
             IF first = "POLL_ENABLE" THEN (pollOn \cup stale) \cup {s} ELSE (pollOn \cup stale) \ {s},
           work' \in Seq(Checks),
           UNCHANGED <<fastMask, pollMask, interval, timeout, saved, ready, policy, prefs, skewed,
                       late, main, crashed>>
    PROVE  EngineInv'
<1> DEFINE m == [kind |-> first, sensor |-> SensorList[s]]
           n == [kind |-> second, sensor |-> SensorList[s]]
<1>1. m \in Messages /\ n \in Messages
  <2>1. SensorList[s] \in Nat
    BY EngineAssumption DEF TripZones
  <2> QED
    BY <2>1 DEF Messages, PollKinds
<1>2. pipe \in Seq(Entries) /\ Len(pipe) \in Nat
  BY DEF EngineInv, EngineType
<1>3. pipe' = Send(Send(pipe, m), n) /\ lost' = (lost \/ Len(pipe) + 1 >= PipeCapacity)
  BY DEF SendsBoth
<1>4. pipe' \in Seq(Entries) /\ pipe' # <<>>
  BY <1>1, <1>2, <1>3, SendType
<1>5. EngineType'
  BY <1>4 DEF EngineInv, EngineType
<1>6. PolicyInv'
  BY DEF EngineInv, PolicyInv, Sound, Saved
<1>7. CASE lost'
  BY <1>5, <1>6, <1>7 DEF EngineInv, RateInv
<1>8. CASE ~lost'
  <2>1. ~lost /\ ~(Len(pipe) + 1 >= PipeCapacity)
    BY <1>3, <1>8
  <2> DEFINE on == pollOn \cup stale
  <2>2. /\ Intact(pipe) /\ Paired(pipe)
        /\ LastWord(pipe, fastMask, on) /\ FreeRate(pipe, interval, timeout, pollMask, fastMask)
        /\ FixedRate(interval, timeout, saved, fastMask)
    BY <2>1 DEF EngineInv, RateInv
  <2> DEFINE p == Append(pipe, Whole(m))
             r == Append(p, Whole(n))
  <2>3. Len(pipe) < PipeCapacity /\ Len(pipe) + 1 < PipeCapacity
    BY <1>2, <2>1, EngineAssumption
  <2>4. Send(pipe, m) = p /\ Intact(p)
    BY <1>1, <1>2, <2>2, <2>3, SendWhole
  <2>5. p \in Seq(Entries) /\ Len(p) = Len(pipe) + 1
    <3>1. p \in Seq(Entries)
      BY <1>1, <1>2, <2>4, SendType
    <3> QED
      BY <1>2, <3>1
  <2>6. pipe' = r /\ Intact(r)
    BY <1>1, <1>3, <2>3, <2>4, <2>5, SendWhole
  <2>7. /\ Paired(r) /\ FreeRate(r, interval, timeout, pollMask, fastMask)
        /\ LastWord(r, fastMask, pollOn' \cup stale')
    <3> DEFINE now == IF first = "POLL_ENABLE" THEN on \cup {s} ELSE on \ {s}
    <3>1. pollOn' \cup stale' = now
      OBVIOUS
    <3> HIDE DEF on
    <3>2. /\ Paired(r) /\ FreeRate(r, interval, timeout, pollMask, fastMask)
          /\ LastWord(r, fastMask, now)
      BY <1>2, <2>2, SendPair
    <3> QED
      BY <3>1, <3>2
  <2> HIDE DEF r, p, m, n
  <2>8. RateInv'
    BY <2>2, <2>6, <2>7 DEF RateInv
  <2> QED
    BY <1>5, <1>6, <2>8 DEF EngineInv
<1> QED
  BY <1>7, <1>8

\* A check of a zone's sensor against the polling trip.
LEMMA CheckInv == EngineInv /\ CheckSensor => EngineInv'
<1> SUFFICES ASSUME EngineInv, CheckSensor PROVE EngineInv'
  OBVIOUS
<1> DEFINE z == Head(work).zone
           About(kind) == [kind |-> kind, sensor |-> SensorList[z]]
<1>1. work \in Seq(Checks) /\ work # <<>>
  BY DEF EngineInv, EngineType, CheckSensor
<1>2. Head(work) \in Checks /\ Tail(work) \in Seq(Checks)
  BY <1>1
<1>3. z \in TripZones
  BY <1>2 DEF Checks
<1>4. /\ work' \in Seq(Checks)
      /\ UNCHANGED <<fastMask, pollMask, interval, timeout, saved, ready, policy, prefs, skewed,
                     late, main, crashed>>
  BY <1>2 DEF CheckSensor, engine, control
<1>5. \/ /\ pollOn' = pollOn \cup {z} /\ stale' = stale \ {z}
         /\ SendsBoth(About("POLL_ENABLE"), About("FAST_POLL_ENABLE"))
      \/ /\ z \in pollOn /\ pollOn' = pollOn \ {z} /\ stale' = stale
         /\ SendsBoth(About("POLL_DISABLE"), About("FAST_POLL_DISABLE"))
      \/ UNCHANGED <<pipe, lost, pollOn, stale>>
  BY DEF CheckSensor, trip
<1>6. pollOn \subseteq TripZones /\ stale \subseteq TripZones /\ pollOn \cap stale = {}
  BY DEF EngineInv, EngineType
<1> HIDE DEF z
<1>7. CASE /\ pollOn' = pollOn \cup {z} /\ stale' = stale \ {z}
           /\ SendsBoth(About("POLL_ENABLE"), About("FAST_POLL_ENABLE"))
  <2>1. /\ pollOn' \subseteq TripZones /\ stale' \subseteq TripZones /\ pollOn' \cap stale' = {}
        /\ pollOn' \cup stale' = (pollOn \cup stale) \cup {z}
    BY <1>3, <1>6, <1>7
  <2> QED
    BY <1>3, <1>4, <1>7, <2>1, TripInv
<1>8. CASE /\ z \in pollOn /\ pollOn' = pollOn \ {z} /\ stale' = stale
           /\ SendsBoth(About("POLL_DISABLE"), About("FAST_POLL_DISABLE"))
  <2>1. /\ pollOn' \subseteq TripZones /\ stale' \subseteq TripZones /\ pollOn' \cap stale' = {}
        /\ pollOn' \cup stale' = (pollOn \cup stale) \ {z}
    BY <1>3, <1>6, <1>8
  <2>2. pollOn' \cup stale' = IF "POLL_DISABLE" = "POLL_ENABLE" THEN (pollOn \cup stale) \cup {z}
                              ELSE (pollOn \cup stale) \ {z}
    BY <2>1
  <2> QED
    BY <1>3, <1>4, <1>8, <2>1, <2>2, TripInv
<1>9. CASE UNCHANGED <<pipe, lost, pollOn, stale>>
  BY <1>4, <1>9 DEF EngineInv, EngineType, PolicyInv, Sound, Saved, RateInv
<1> QED
  BY <1>5, <1>7, <1>8, <1>9

-----------------------------------------------------------------------------
(* proc_message *)

\* Its cases, one at a time.
LEMMA Cases ==
    ASSUME NEW m, ProcMessage(m)
    PROVE  /\ interval' = interval /\ work' \in {work, SwitchEach, ReadEach}
           /\ UNCHANGED <<pollOn, stale>> \/ RebuildTrips
           /\ m.kind = "POLL_ENABLE" /\ interval = 0 => poll_enable(m.sensor)
           /\ m.kind = "POLL_DISABLE" /\ interval = 0 => poll_disable(m.sensor)
           /\ m.kind = "FAST_POLL_ENABLE" => fast_poll_enable(m.sensor)
           /\ m.kind = "FAST_POLL_DISABLE" => fast_poll_disable(m.sensor)
           /\ m.kind \in {"POLL_ENABLE", "POLL_DISABLE"} /\ interval # 0 => PollingUnchanged
           /\ m.kind \notin PollKinds => PollingUnchanged
<1>1. interval' = interval /\ (UNCHANGED <<pollOn, stale>> \/ RebuildTrips)
  BY DEF ProcMessage, trip
<1>2. CASE m.kind = "PREF_CHANGED"
  <2>1. process_pref_change
    BY <1>2 DEF ProcMessage
  <2>2. PollingUnchanged /\ work' \in {work, SwitchEach}
    BY <2>1 DEF process_pref_change
  <2> QED
    BY <1>1, <1>2, <2>2
<1>3. CASE m.kind # "PREF_CHANGED"
  <2>1. work' \in {work, ReadEach}
    BY <1>3 DEF ProcMessage
  <2>2. CASE m.kind = "POLL_ENABLE"
    BY <1>1, <2>1, <2>2 DEF ProcMessage, PollKinds
  <2>3. CASE m.kind = "POLL_DISABLE"
    BY <1>1, <2>1, <2>3 DEF ProcMessage, PollKinds
  <2>4. CASE m.kind = "FAST_POLL_ENABLE"
    BY <1>1, <2>1, <2>4 DEF ProcMessage, PollKinds
  <2>5. CASE m.kind = "FAST_POLL_DISABLE"
    BY <1>1, <2>1, <2>5 DEF ProcMessage, PollKinds
  <2>6. CASE m.kind \notin PollKinds
    BY <1>1, <1>3, <2>1, <2>6 DEF ProcMessage, PollKinds
  <2> QED
    BY <2>2, <2>3, <2>4, <2>5, <2>6 DEF PollKinds
<1> QED
  BY <1>2, <1>3

\* The types are kept, whatever was read.
LEMMA ProcessedType ==
    ASSUME EngineType, NEW m, ProcMessage(m)
    PROVE  /\ work' \in Seq(Checks) /\ interval' = interval
           /\ timeout' \in Int /\ saved' \in Int
           /\ pollOn' \subseteq TripZones /\ stale' \subseteq TripZones /\ pollOn' \cap stale' = {}
           /\ pollOn' \cup stale' = pollOn \cup stale
<1>1. work' \in Seq(Checks) /\ interval' = interval
  BY Cases, SwitchChecks, ReadChecks DEF EngineType
<1>2. \/ PollingUnchanged
      \/ poll_enable(m.sensor) \/ poll_disable(m.sensor)
      \/ fast_poll_enable(m.sensor) \/ fast_poll_disable(m.sensor)
  BY Cases DEF PollKinds
<1>3. timeout' \in Int /\ saved' \in Int
  BY <1>2 DEF PollingUnchanged, poll_enable, poll_disable, fast_poll_enable, fast_poll_disable,
              EngineType
<1>4. UNCHANGED <<pollOn, stale>> \/ RebuildTrips
  BY Cases
<1>5. /\ pollOn' \subseteq TripZones /\ stale' \subseteq TripZones /\ pollOn' \cap stale' = {}
      /\ pollOn' \cup stale' = pollOn \cup stale
  BY <1>4 DEF RebuildTrips, EngineType
<1> QED
  BY <1>1, <1>3, <1>5

\* With a configured interval the timeout is the fast one exactly while a
\* bit asks for it.
LEMMA ProcessedFixed ==
    ASSUME EngineType, NEW m, ProcMessage(m),
           FixedRate(interval, timeout, saved, fastMask)
    PROVE  FixedRate(interval, timeout', saved', fastMask')
<1>1. interval \in Nat /\ timeout \in Int /\ saved \in Int
  BY DEF EngineType
<1> SUFFICES ASSUME interval # 0 PROVE FixedRate(interval, timeout', saved', fastMask')
  BY DEF FixedRate
<1>2. /\ saved \in {0, interval * 1000} /\ fastMask # {} => saved # 0
      /\ timeout = IF fastMask # {} THEN 1000 ELSE interval * 1000
      /\ interval * 1000 # 0
  BY <1>1 DEF FixedRate
<1>3. PollingUnchanged \/ fast_poll_enable(m.sensor) \/ fast_poll_disable(m.sensor)
  BY Cases DEF PollKinds
<1>4. CASE PollingUnchanged
  BY <1>2, <1>4 DEF PollingUnchanged, FixedRate
<1>5. CASE fast_poll_enable(m.sensor)
  BY <1>2, <1>5 DEF fast_poll_enable, FixedRate
<1>6. CASE fast_poll_disable(m.sensor)
  <2>1. fastMask' # {} => fastMask # {}
    BY <1>6 DEF fast_poll_disable
  <2> QED
    BY <1>2, <1>6, <2>1 DEF fast_poll_disable, FixedRate
<1> QED
  BY <1>3, <1>4, <1>5, <1>6

\* Without one the masks agree again after each pair of messages.
LEMMA ProcessedFree ==
    ASSUME EngineType, pipe # <<>>, Intact(pipe), Paired(pipe), ProcMessage(pipe[1].msg),
           FreeRate(pipe, interval, timeout, pollMask, fastMask)
    PROVE  FreeRate(Tail(pipe), interval, timeout', pollMask', fastMask')
<1> DEFINE r == Tail(pipe)
           m == pipe[1].msg
<1>1. pipe \in Seq(Entries) /\ m \in Messages /\ m.kind = Kind(pipe, 1)
  <2>1. pipe \in Seq(Entries) /\ pipe[1] \in Entries
    BY DEF EngineType
  <2> QED
    BY <2>1 DEF Entries, Kind
<1>2. /\ r \in Seq(Entries) /\ Len(pipe) \in Nat \ {0} /\ Len(r) = Len(pipe) - 1
      /\ DOMAIN pipe = 1..Len(pipe) /\ DOMAIN r = 1..Len(r)
      /\ \A i \in DOMAIN r : i + 1 \in DOMAIN pipe /\ r[i] = pipe[i + 1]
  BY <1>1, TakeOne
<1>3. r # <<>> /\ Kind(r, 1) \in {"FAST_POLL_ENABLE", "FAST_POLL_DISABLE"} =>
        m.kind \in {"POLL_ENABLE", "POLL_DISABLE"}
  BY <1>1, TakeIntact
<1>4. /\ m.kind = "POLL_ENABLE" =>
           r # <<>> /\ Kind(r, 1) = "FAST_POLL_ENABLE" /\ r[1].msg.sensor = m.sensor
      /\ m.kind = "POLL_DISABLE" =>
           r # <<>> /\ Kind(r, 1) = "FAST_POLL_DISABLE" /\ r[1].msg.sensor = m.sensor
  <2>1. 1 \in DOMAIN pipe
        /\ (1 + 1 \in DOMAIN pipe => 1 \in DOMAIN r /\ r # <<>> /\ r[1] = pipe[1 + 1])
    <3> HIDE DEF r, m
    <3>1. 1 \in DOMAIN pipe /\ (1 + 1 \in DOMAIN pipe => 1 \in DOMAIN r)
      BY <1>2
    <3>2. 1 \in DOMAIN r => r # <<>>
      BY <1>2
    <3> QED
      BY <1>2, <3>1, <3>2
  <2>2. Kind(pipe, 1) = "POLL_ENABLE" =>
          1 + 1 \in DOMAIN pipe /\ Kind(pipe, 1 + 1) = "FAST_POLL_ENABLE"
            /\ pipe[1 + 1].msg.sensor = pipe[1].msg.sensor
    BY <2>1 DEF Paired
  <2>3. Kind(pipe, 1) = "POLL_DISABLE" =>
          1 + 1 \in DOMAIN pipe /\ Kind(pipe, 1 + 1) = "FAST_POLL_DISABLE"
            /\ pipe[1 + 1].msg.sensor = pipe[1].msg.sensor
    BY <2>1 DEF Paired
  <2>4. 1 + 1 \in DOMAIN pipe => Kind(r, 1) = Kind(pipe, 1 + 1)
    BY <2>1 DEF Kind
  <2> HIDE DEF r
  <2> QED
    BY <1>1, <2>1, <2>2, <2>3, <2>4
<1> SUFFICES ASSUME interval = 0
             PROVE  FreeRate(r, interval, timeout', pollMask', fastMask')
  BY DEF FreeRate, r
<1>5. ProcMessage(m)
  OBVIOUS
<1> HIDE DEF m, r
<1>6. CASE m.kind = "POLL_ENABLE"
  <2>1. poll_enable(m.sensor) /\ pollMask = fastMask
    BY <1>1, <1>5, <1>6, Cases DEF FreeRate
  <2> QED
    BY <1>4, <1>6, <2>1 DEF poll_enable, FreeRate
<1>7. CASE m.kind = "POLL_DISABLE"
  <2>1. poll_disable(m.sensor) /\ pollMask = fastMask /\ (fastMask # {} => timeout = 1000)
    BY <1>1, <1>5, <1>7, Cases DEF FreeRate
  <2>2. pollMask' = fastMask \ {Bit(m.sensor)} /\ fastMask' = fastMask
        /\ (pollMask' # {} => timeout' = 1000)
    BY <2>1 DEF poll_disable
  <2> QED
    BY <1>4, <1>7, <2>2 DEF FreeRate
<1>8. CASE m.kind = "FAST_POLL_ENABLE"
  <2>1. fast_poll_enable(m.sensor) /\ pollMask = fastMask \cup {Bit(m.sensor)}
    BY <1>1, <1>5, <1>8, Cases DEF FreeRate, m
  <2> QED
    BY <1>3, <1>8, <2>1 DEF fast_poll_enable, FreeRate
<1>9. CASE m.kind = "FAST_POLL_DISABLE"
  <2>1. fast_poll_disable(m.sensor) /\ pollMask = fastMask \ {Bit(m.sensor)}
        /\ (pollMask # {} => timeout = 1000)
    BY <1>1, <1>5, <1>9, Cases DEF FreeRate, m
  <2>2. pollMask' = fastMask' /\ (fastMask' # {} => timeout' = 1000)
    BY <2>1 DEF fast_poll_disable
  <2> QED
    BY <1>3, <1>9, <2>2 DEF FreeRate
<1>10. CASE m.kind \notin PollKinds
  <2>1. PollingUnchanged
    BY <1>1, <1>5, <1>10, Cases
  <2>2. pollMask = fastMask /\ (fastMask # {} => timeout = 1000)
    BY <1>1, <1>10 DEF FreeRate, PollKinds
  <2> QED
    BY <1>3, <1>10, <2>1, <2>2 DEF PollingUnchanged, FreeRate, PollKinds
<1> QED
  BY <1>1, <1>5, <1>6, <1>7, <1>8, <1>9, <1>10, Cases DEF PollKinds

\* The mask follows the messages with its bits.
LEMMA ProcessedLastWord ==
    ASSUME EngineType, pipe # <<>>, ProcMessage(pipe[1].msg), NEW on, LastWord(pipe, fastMask, on)
    PROVE  LastWord(Tail(pipe), fastMask', on)
<1> DEFINE m == pipe[1].msg
<1>1. pipe \in Seq(Entries) /\ m \in Messages /\ m.kind = Kind(pipe, 1)
  <2>1. pipe \in Seq(Entries) /\ pipe[1] \in Entries
    BY DEF EngineType
  <2> QED
    BY <2>1 DEF Entries, Kind
<1>2. ProcMessage(m)
  OBVIOUS
<1>3. \A s \in Soles :
        Fast(pipe, 1, s) <=>
          m.kind \in {"FAST_POLL_ENABLE", "FAST_POLL_DISABLE"}
            /\ Bit(m.sensor) = Bit(SensorList[s])
  BY <1>1 DEF Fast
<1> HIDE DEF m
<1>4. \/ m.kind = "FAST_POLL_ENABLE" /\ fastMask' = fastMask \cup {Bit(m.sensor)}
      \/ m.kind = "FAST_POLL_DISABLE" /\ fastMask' = fastMask \ {Bit(m.sensor)}
      \/ m.kind \notin {"FAST_POLL_ENABLE", "FAST_POLL_DISABLE"} /\ fastMask' = fastMask
  BY <1>1, <1>2, Cases DEF PollKinds, PollingUnchanged, poll_enable, poll_disable,
                           fast_poll_enable, fast_poll_disable
<1>5. \A s \in Soles :
        IF Fast(pipe, 1, s) THEN Bit(SensorList[s]) \in fastMask' <=> Kind(pipe, 1) = "FAST_POLL_ENABLE"
        ELSE Bit(SensorList[s]) \in fastMask' <=> Bit(SensorList[s]) \in fastMask
  BY <1>1, <1>3, <1>4
<1> QED
  BY <1>1, <1>5, TakeLastWord

\* The read of a message, misread or not.
LEMMA WakeupInv == EngineInv /\ Wakeup => EngineInv'
<1> SUFFICES ASSUME EngineInv, Wakeup PROVE EngineInv'
  OBVIOUS
<1>1. ready' = FALSE /\ UNCHANGED <<lost, policy, prefs, skewed, late, main, crashed>>
  BY DEF Wakeup, control
<1>2. PolicyInv'
  BY <1>1 DEF EngineInv, PolicyInv, Sound, Saved
<1>3. CASE ~ready
  <2>1. UNCHANGED <<pipe, work, pollOn, stale, interval, timeout, saved, pollMask, fastMask>>
    BY <1>3 DEF Wakeup, engine, trip
  <2>2. EngineType' /\ RateInv'
    BY <1>1, <2>1 DEF EngineInv, EngineType, RateInv
  <2> QED
    BY <1>2, <2>2 DEF EngineInv
<1>4. CASE ready
  <2> DEFINE m == IF Head(pipe).shifted THEN Misread(Head(pipe).msg) ELSE Head(pipe).msg
             on == pollOn \cup stale
  <2>1. pipe' = Tail(pipe) /\ ProcMessage(m)
    BY <1>4 DEF Wakeup
  <2>2. EngineType /\ pipe \in Seq(Entries) /\ pipe # <<>>
    BY <1>4 DEF EngineInv, EngineType
  <2>3. Tail(pipe) \in Seq(Entries) /\ Head(pipe) = pipe[1] /\ 1 \in DOMAIN pipe
    BY <2>2, TakeOne
  <2>4. /\ work' \in Seq(Checks) /\ interval' = interval
        /\ timeout' \in Int /\ saved' \in Int
        /\ pollOn' \subseteq TripZones /\ stale' \subseteq TripZones /\ pollOn' \cap stale' = {}
        /\ pollOn' \cup stale' = on
    BY <2>1, <2>2, ProcessedType
  <2>5. EngineType'
    BY <1>1, <2>1, <2>2, <2>3, <2>4 DEF EngineType
  <2>6. CASE lost
    BY <1>1, <1>2, <2>5, <2>6 DEF EngineInv, RateInv
  <2>7. CASE ~lost
    <3>1. /\ Intact(pipe) /\ Paired(pipe) /\ LastWord(pipe, fastMask, on)
          /\ FixedRate(interval, timeout, saved, fastMask)
          /\ FreeRate(pipe, interval, timeout, pollMask, fastMask)
      BY <2>7 DEF EngineInv, RateInv
    <3>2. m = pipe[1].msg
      BY <2>3, <3>1 DEF Intact
    <3>3. ProcMessage(pipe[1].msg)
      BY <2>1, <3>2
    <3>4. Intact(pipe') /\ Paired(pipe')
      BY <2>1, <2>2, <3>1, TakeIntact
    <3>5. LastWord(pipe', fastMask', on)
      <4> HIDE DEF on
      <4> QED
        BY <2>1, <2>2, <3>1, <3>3, ProcessedLastWord
    <3>6. FixedRate(interval, timeout', saved', fastMask')
      BY <2>2, <3>1, <3>3, ProcessedFixed
    <3>7. FreeRate(pipe', interval, timeout', pollMask', fastMask')
      BY <2>1, <2>2, <3>1, <3>3, ProcessedFree
    <3> HIDE DEF m, on
    <3>8. RateInv'
      BY <1>1, <2>4, <3>4, <3>5, <3>6, <3>7 DEF RateInv
    <3> QED
      BY <1>2, <2>5, <3>8 DEF EngineInv
  <2> QED
    BY <2>6, <2>7
<1> QED
  BY <1>3, <1>4

-----------------------------------------------------------------------------
(* The invariant *)

\* The invariant holds of a new engine.
LEMMA InitInv == Init => EngineInv
<1> SUFFICES ASSUME Init PROVE EngineInv
  OBVIOUS
<1>1. /\ saved = 0 /\ pollMask = {} /\ fastMask = {} /\ pollOn = {} /\ stale = {} /\ pipe = <<>>
      /\ work = <<>> /\ ready = FALSE /\ prefs = <<>> /\ policy = Policy0 /\ main = "starting"
  BY DEF Init
<1>2. interval \in Nat /\ interval * 1000 \in Int
  BY EngineAssumption DEF Init
<1>3. timeout \in Int /\ (interval # 0 => timeout = interval * 1000)
  BY <1>2 DEF Init
<1>4. EngineType
  <2>1. <<>> \in Seq(Entries) /\ <<>> \in Seq(Checks)
    OBVIOUS
  <2> QED
    BY <1>1, <1>2, <1>3, <2>1 DEF EngineType
<1>5. PolicyInv
  BY <1>1, PolicySeq DEF PolicyInv
<1>6. RateInv
  <2>1. Intact(<<>>) /\ Paired(<<>>) /\ LastWord(<<>>, {}, {})
    BY EngineAssumption DEF Intact, Paired, LastWord
  <2>2. FixedRate(interval, timeout, 0, {}) /\ FreeRate(<<>>, interval, timeout, {}, {})
    BY <1>2, <1>3 DEF FixedRate, FreeRate
  <2>3. pollOn \cup stale = {}
    BY <1>1
  <2> QED
    BY <1>1, <2>1, <2>2, <2>3 DEF RateInv
<1> QED
  BY <1>4, <1>5, <1>6 DEF EngineInv

\* Every step of the two threads, the clock and the machine keeps it.
LEMMA StepInv == EngineInv /\ [Next]_vars => EngineInv'
<1> SUFFICES ASSUME EngineInv, [Next]_vars PROVE EngineInv'
  OBVIOUS
<1>1. ASSUME NEW k, k \in {"PREF_CHANGED", "WAKEUP", "TERMINATE"}
      PROVE  Plain(k) \in Messages /\ Plain(k).kind \notin PollKinds
  BY <1>1 DEF Plain, Messages, PollKinds
<1>2. CASE \/ \E u \in BOOLEAN : Poll(u)
           \/ \E r \in BOOLEAN : Uevent(r)
           \/ Rebuild \/ EndThread \/ Elapse \/ UNCHANGED vars
           \/ \E i \in TripZones : Heat(i)
  BY <1>2, QuietInv
<1>3. CASE \/ \E keep \in SUBSET Present : TakeOver(keep)
           \/ \E keep \in SUBSET Present : StartEnds(keep)
           \/ GiveUp
           \/ \E i \in DOMAIN policy : KernelZone(i)
  BY <1>3, ControlInv
<1>4. CASE Exit \/ Destroy \/ Crash
  BY <1>4, ForgottenInv
<1>5. CASE CheckSensor
  BY <1>5, CheckInv
<1>6. CASE Wakeup
  BY <1>6, WakeupInv
<1>7. ASSUME NEW p \in Preferences, SetPreference(p) PROVE EngineInv'
  BY <1>1, <1>7, MainSendsInv DEF SetPreference, engine, trip, loop, control
<1>8. ASSUME NEW k \in {"PREF_CHANGED", "WAKEUP"}, UserRequest(k) PROVE EngineInv'
  BY <1>1, <1>8, MainSendsInv DEF UserRequest, engine, trip, loop, control
<1>9. ASSUME NEW n \in {"exiting", "reinit"}, Stop(n) PROVE EngineInv'
  BY <1>1, <1>9, MainSendsInv DEF Stop, engine, trip, loop, control
<1>10. ASSUME NEW i \in Intervals, NEW a \in BOOLEAN, NEW d \in Defaults,
              Reinit(i, a, d) \/ Restart(i, a, d)
       PROVE  EngineInv'
  <2>1. /\ main \in {"destroying", "gone"} /\ EngineStarts(i, a, d)
        /\ UNCHANGED <<policy, skewed, late, crashed>>
    BY <1>10 DEF Reinit, Restart
  <2> QED
    BY <2>1, StartsInv DEF EngineInv
<1> QED
  BY <1>2, <1>3, <1>4, <1>5, <1>6, <1>7, <1>8, <1>9, <1>10 DEF Next, Thread

\* The engine keeps its types, the saved policies and the polling rate that
\* its messages will lead to, through any interleaving of the thread with the
\* main thread, rebuilt trips, kernel zones that come and go, destruction,
\* crashes and restarts.
THEOREM EngineInvariant == Spec => []EngineInv
<1> QED
  BY InitInv, StepInv, PTL DEF Spec

-----------------------------------------------------------------------------
(* What the invariant gives *)

\* With an empty pipe the last word with each bit has been taken.
LEMMA RateHolds == EngineInv => PollRateMatchesTrips
<1> SUFFICES ASSUME EngineInv, pipe = <<>>, ~lost
             PROVE  /\ \A i \in TripZones : Sole(i) =>
                         (Bit(SensorList[i]) \in fastMask <=> i \in pollOn \cup stale)
                    /\ fastMask # {} => timeout = 1000
                    /\ (fastMask = {} /\ interval # 0) => timeout = interval * 1000
  BY DEF PollRateMatchesTrips
<1>1. /\ LastWord(<<>>, fastMask, pollOn \cup stale)
      /\ FixedRate(interval, timeout, saved, fastMask)
      /\ FreeRate(<<>>, interval, timeout, pollMask, fastMask)
  BY DEF EngineInv, RateInv
<1>2. \A i \in TripZones : Sole(i) =>
        (Bit(SensorList[i]) \in fastMask <=> i \in pollOn \cup stale)
  BY <1>1 DEF LastWord, Soles
<1> QED
  BY <1>1, <1>2 DEF FixedRate, FreeRate

\* The policies are back once the main thread is gone.
LEMMA PolicyHolds == EngineInv => PolicyRestored
BY DEF EngineInv, PolicyInv, Sound, PolicyRestored

-----------------------------------------------------------------------------
(* The theorems *)

\* poll_enable, fast_poll_enable and their like leave the bit of every polling
\* trip that has one to itself as the trip is, or was when it was deleted, and
\* the fast rate exactly while a bit is set, once the messages are taken and
\* none was lost.
THEOREM RateCorrect == Spec => []PollRateMatchesTrips
BY RateHolds, EngineInvariant, PTL

\* giveup_thermal_control restores the policies of before thermald, unless it
\* crashed, a list of policies was shifted, or the thread took over too late.
THEOREM PolicyCorrect == Spec => []PolicyRestored
BY PolicyHolds, EngineInvariant, PTL

\* The engine's promises hold of thermald with its setup and its adaptive part
\* beside it: DaemonSpec runs them over other variables.
THEOREM DaemonCorrect == DaemonSpec => [](PollRateMatchesTrips /\ PolicyRestored)
<1>1. DaemonInit => EngineInv
  BY InitInv DEF DaemonInit, EngineRests
<1>2. [DaemonNext]_daemonVars => [Next]_vars
  BY DEF DaemonNext, daemonVars
<1>3. EngineInv /\ [DaemonNext]_daemonVars => EngineInv'
  BY <1>2, StepInv
<1>4. EngineInv => PollRateMatchesTrips /\ PolicyRestored
  BY RateHolds, PolicyHolds
<1> QED
  BY <1>1, <1>3, <1>4, PTL DEF DaemonSpec

\* What the start and the requests promise of the vectors and of the kernel's
\* trips holds of thermald with its thread and its adaptive part beside it.
THEOREM DaemonSetupCorrect ==
    DaemonSpec => [](TripsReachable /\ FirmwareTripsRestored)
<1>1. DaemonInit => RestoreInv /\ CpuInv
  BY RestoreInvInit, CpuInvInit DEF DaemonInit, SetupRests
<1>2. [DaemonNext]_daemonVars => [SetupNext]_setupVars
  BY DEF DaemonNext, daemonVars
<1>3. RestoreInv => SetupInv
  BY DEF RestoreInv
<1>4. RestoreInv /\ CpuInv /\ [DaemonNext]_daemonVars => (RestoreInv /\ CpuInv)'
  BY <1>2, <1>3, RestoreInvStep, CpuInvStep
<1>5. RestoreInv /\ CpuInv => TripsReachable /\ FirmwareTripsRestored
  BY <1>3, InvReachable, InvRestored
<1> QED
  BY <1>1, <1>4, <1>5, PTL DEF DaemonSpec

-----------------------------------------------------------------------------
(* The adaptive engine *)

\* The adaptive engine sorts as ThermalConf does.
LEMMA AdaptiveSorts == ASSUME NEW ts, NEW S PROVE A!ByTemp(ts, S) = ByTemp(ts, S)
<1>1. ASSUME NEW s, NEW P, NEW R PROVE A!Ranked(s, P, R) = Ranked(s, P, R)
  BY Zenon DEF A!Ranked, Ranked, A!Cardinality, Cardinality
<1> QED
  BY <1>1, Zenon DEF A!ByTemp, ByTemp

\* A property of the numbers up to n that holds of 0 and passes from each to
\* the next holds of all: S is the set of the numbers with the property.
LEMMA Climb ==
    ASSUME NEW n \in Nat, NEW S, 0 \in S,
           \A i \in 1..n : i - 1 \in S => i \in S
    PROVE  \A i \in 0..n : i \in S
<1> DEFINE R == OpToRel(<, Nat)
           T == {i \in 0..n : i \notin S}
<1>1. IsWellFoundedOn(R, Nat)
  BY NatLessThanWellFounded
<1>2. \A x, y \in Nat : x < y => <<x, y>> \in R
  BY DEF OpToRel
<1> HIDE DEF R
<1>3. ASSUME T # {} PROVE FALSE
  <2>1. T \subseteq Nat
    OBVIOUS
  <2>2. PICK x \in T : \A y \in T : ~(<<y, x>> \in R)
    BY <1>1, <1>3, <2>1, WFMin
  <2>3. x \in 1..n /\ x \notin S
    BY <2>2
  <2>4. x - 1 \in T /\ x - 1 \in Nat /\ x \in Nat /\ x - 1 < x
    BY <2>3
  <2>5. ~(<<x - 1, x>> \in R)
    BY <2>2, <2>4
  <2> QED
    BY <1>2, <2>4, <2>5
<1> QED
  BY <1>3

\* f[i] is what the first i entries of a table made of the zones p.
TableRun(code, p, entries, n, f) ==
    f = [i \in 0..n |-> IF i = 0 THEN p ELSE A!InstallEntry(code, f[i - 1], entries[i])]

\* The loop over a table is well defined: such a function exists.
LEMMA TableRuns ==
    ASSUME NEW code, NEW p, NEW entries, Len(entries) \in Nat
    PROVE  \E f : /\ TableRun(code, p, entries, Len(entries), f)
                  /\ A!InstallTable(code, p, entries) = f[Len(entries)]
<1> DEFINE Step(q, i) == A!InstallEntry(code, q, entries[i])
           Good(f, n) == f = [i \in 0..n |-> IF i = 0 THEN p ELSE Step(f[i - 1], i)]
           n == Len(entries)
           S == {i \in 0..n : \E f : Good(f, i)}
<1>1. A!InstallTable(code, p, entries) = (CHOOSE f : Good(f, n))[n]
  BY DEF A!InstallTable
<1>2. Good([i \in 0..0 |-> p], 0)
  OBVIOUS
<1>3. ASSUME NEW i \in 1..n, NEW f, Good(f, i - 1) PROVE \E h : Good(h, i)
  <2> HIDE DEF Step
  <2> DEFINE h == [k \in 0..i |-> IF k = i THEN Step(f[i - 1], i) ELSE f[k]]
  <2>1. ASSUME NEW k \in 0..i PROVE h[k] = IF k = 0 THEN p ELSE Step(h[k - 1], k)
    <3>1. CASE k = i
      BY <3>1
    <3>2. CASE k # i
      <4>1. k \in 0..(i - 1)
        BY <3>2
      <4>2. f[k] = IF k = 0 THEN p ELSE Step(f[k - 1], k)
        BY <4>1, <1>3
      <4>3. h[k] = f[k] /\ (k # 0 => h[k - 1] = f[k - 1])
        BY <4>1
      <4> QED
        BY <4>2, <4>3
    <3> QED
      BY <3>1, <3>2
  <2>2. Good(h, i)
    BY <2>1
  <2> QED
    BY <2>2
<1> HIDE DEF Good
<1>4. 0 \in S
  BY <1>2
<1>5. \A i \in 1..n : i - 1 \in S => i \in S
  BY <1>3
<1>a. n \in Nat /\ n \in 0..n
  OBVIOUS
<1> HIDE DEF S, n
<1>b. \A i \in 0..n : i \in S
  BY <1>a, <1>4, <1>5, Climb
<1>6. n \in S
  BY <1>a, <1>b
<1>7. \E f : Good(f, n)
  BY <1>6 DEF S, n
<1>8. Good(CHOOSE f : Good(f, n), n)
  BY <1>7
<1>9. TableRun(code, p, entries, n, CHOOSE f : Good(f, n))
  BY <1>8 DEF Good, TableRun
<1> QED
  BY <1>1, <1>9 DEF n
-----------------------------------------------------------------------------
(* The trips of the adaptive engine.                                        *)

TripShape(t) == DOMAIN t = {"type", "temp", "cdev", "target"} /\ t.temp \in Int /\ t.target \in Int
TripList(ts) == IsList(ts) /\ \A j \in DOMAIN ts : TripShape(ts[j])
Shaped(p) ==
    /\ p = [ts |-> p.ts, on |-> p.on] /\ p.ts = [z \in Zones |-> p.ts[z]]
    /\ \A z \in Zones : TripList(p.ts[z])
Guards(p, z) ==
    z \in p.on /\ \E j \in DOMAIN p.ts[z] : p.ts[z][j] = A!Passive(A!EcZones[z], A!EcCdev, -1)

\* Passive trips have the shape of trips.
LEMMA PassiveShape ==
    ASSUME NEW temp \in Int, NEW c, NEW target \in Int
    PROVE  TripShape(A!Passive(temp, c, target)) /\ A!Passive(temp, c, target).type = "PASSIVE"
BY DEF TripShape, A!Passive

\* add_trip keeps the trips of a zone and adds the new one.
LEMMA AddedTrip ==
    ASSUME NEW ts, TripList(ts), NEW t, TripShape(t), t.type = "PASSIVE"
    PROVE  LET o == A!add_trip(ts, t)
           IN  /\ TripList(o) /\ \E j \in DOMAIN o : o[j] = t
               /\ \A i \in DOMAIN ts : ts[i].type # "POLLING" => \E j \in DOMAIN o : o[j] = ts[i]
<1> DEFINE u == Append(ts, t)
           S == {i \in DOMAIN u : u[i].type # "POLLING"}
           s == ByTemp(u, S)
           q == A!Polling(A!PollTemp(s[1].temp))
           o == A!add_trip(ts, t)
<1>1. /\ IsList(u) /\ DOMAIN u = 1..(Len(ts) + 1) /\ Len(ts) \in Nat /\ u[Len(ts) + 1] = t
      /\ \A i \in DOMAIN ts : i \in DOMAIN u /\ u[i] = ts[i]
  BY ListAppend, ListDom DEF TripList
<1>2. \A i \in DOMAIN u : TripShape(u[i])
  BY <1>1, ListDom DEF TripList
<1>3. IsFiniteSet(S) /\ S \subseteq Nat
  <2>1. IsFiniteSet(DOMAIN u)
    BY <1>1, ListFinite
  <2> QED
    BY <1>1, <2>1, FS_Subset
<1>4. \A i \in S : u[i].temp \in Int
  BY <1>2 DEF TripShape
<1>5. o = IF s = <<>> THEN <<>> ELSE Append(s, q)
  BY AdaptiveSorts, Zenon DEF A!add_trip, A!WithPoll
<1> HIDE DEF u, o, S, q
<1>6. /\ IsList(s)
      /\ \A p \in DOMAIN s : \E i \in S : s[p] = u[i]
      /\ \A i \in S : \E p \in DOMAIN s : s[p] = u[i]
  <2>1. HasTemps(u, S)
    BY <1>4 DEF HasTemps
  <2>2. Sorts(s, u, S)
    BY <1>3, <2>1, ByTempProp
  <2> QED
    BY <2>2 DEF Sorts
<1>7. Len(ts) + 1 \in S
  BY <1>1 DEF S
<1>8. \A i \in DOMAIN ts : ts[i].type # "POLLING" => i \in S
  BY <1>1 DEF S
<1>9. \A p \in DOMAIN s : TripShape(s[p])
  BY <1>2, <1>6 DEF S
<1> HIDE DEF s
<1>10. s # <<>> /\ 1 \in DOMAIN s
  BY <1>6, <1>7, ListDom
<1>11. TripShape(q)
  <2>1. s[1].temp \in Int
    BY <1>9, <1>10 DEF TripShape
  <2>2. A!PollTemp(s[1].temp) \in Int
    BY <2>1 DEF A!PollTemp
  <2> QED
    BY <2>2 DEF A!Polling, TripShape, q
<1>12. /\ IsList(o) /\ DOMAIN o = 1..(Len(s) + 1) /\ Len(s) \in Nat /\ o[Len(s) + 1] = q
       /\ \A i \in DOMAIN s : i \in DOMAIN o /\ o[i] = s[i]
  BY <1>5, <1>6, <1>10, ListAppend, ListDom
<1>13. \A j \in DOMAIN o : TripShape(o[j])
  BY <1>6, <1>9, <1>11, <1>12, ListDom
<1>14. \A i \in S : \E j \in DOMAIN o : o[j] = u[i]
  BY <1>6, <1>12
<1>15. \E j \in DOMAIN o : o[j] = t
  BY <1>1, <1>7, <1>14
<1>16. \A i \in DOMAIN ts : ts[i].type # "POLLING" => \E j \in DOMAIN o : o[j] = ts[i]
  BY <1>1, <1>8, <1>14
<1> QED
  BY <1>12, <1>13, <1>15, <1>16 DEF TripList, o

\* q is p with the trip t in zone z, and guards what p guards.
Added(p, q, z, t) ==
    /\ Shaped(q) /\ z \in q.on /\ \E j \in DOMAIN q.ts[z] : q.ts[z][j] = t
    /\ \A y \in Zones : Guards(p, y) => Guards(q, y)

\* A trip added to one zone leaves the others and the zone's own trips.
LEMMA AddsShape ==
    ASSUME NEW p, Shaped(p), NEW z \in Zones, NEW t, TripShape(t), t.type = "PASSIVE"
    PROVE  Added(p, A!Adds(p, z, t), z, t)
<1> DEFINE q == A!Adds(p, z, t)
           o == A!add_trip(p.ts[z], t)
<1>1. q = [ts |-> [p.ts EXCEPT ![z] = o], on |-> p.on \cup {z}]
  BY DEF A!Adds
<1>2. TripList(p.ts[z]) /\ p.ts = [y \in Zones |-> p.ts[y]]
  BY DEF Shaped
<1>3. /\ TripList(o) /\ \E j \in DOMAIN o : o[j] = t
      /\ \A i \in DOMAIN p.ts[z] :
           p.ts[z][i].type # "POLLING" => \E j \in DOMAIN o : o[j] = p.ts[z][i]
  BY <1>2, AddedTrip
<1> HIDE DEF q, o
<1>4. /\ q = [ts |-> q.ts, on |-> q.on] /\ q.on = p.on \cup {z}
      /\ q.ts = [p.ts EXCEPT ![z] = o]
  BY <1>1
<1>5. q.ts = [y \in Zones |-> q.ts[y]] /\ q.ts[z] = o /\ \A y \in Zones : y # z => q.ts[y] = p.ts[y]
  BY <1>2, <1>4
<1>6. Shaped(q)
  BY <1>3, <1>4, <1>5 DEF Shaped
<1>7. ASSUME NEW y \in Zones, Guards(p, y) PROVE Guards(q, y)
  <2> DEFINE e == A!Passive(A!EcZones[y], A!EcCdev, -1)
  <2>1. e.type = "PASSIVE"
    BY DEF A!Passive
  <2>2. y \in p.on /\ \E j \in DOMAIN p.ts[y] : p.ts[y][j] = e
    BY <1>7 DEF Guards
  <2> HIDE DEF e
  <2>3. \E j \in DOMAIN q.ts[y] : q.ts[y][j] = e
    BY <1>3, <1>5, <2>1, <2>2
  <2> QED
    BY <1>4, <2>2, <2>3 DEF Guards, e
<1> QED
  BY <1>3, <1>4, <1>5, <1>6, <1>7 DEF q, Added

EntryOk(code, e) == e.temp \in Int /\ (code # "ITMT" => e.power \in Int)

\* A zone that is found is one of the zones.
LEMMA TableZone == ASSUME NEW z PROVE A!FindZone(z) # "none" => A!FindZone(z) \in Zones
BY DEF A!FindZone

\* An entry of a table adds a passive trip or nothing.
LEMMA EntryShape ==
    ASSUME NEW code, NEW p, Shaped(p), NEW e, EntryOk(code, e)
    PROVE  Shaped(A!InstallEntry(code, p, e))
<1> DEFINE z == A!FindZone(e.zone)
           c == A!FindCdev(e.cdev)
           temp == IF z = "SEN3" /\ e.temp > A!Sen3Cap THEN A!Sen3Cap ELSE e.temp
           target == CASE e.limit = "MAX" -> MaxTarget
                       [] e.limit \in {"MIN", ""} -> -1
                       [] OTHER -> e.power
<1>1. z # "none" => z \in Zones
  BY TableZone
<1>2. CASE code = "ITMT"
  <2>1. \/ A!InstallEntry(code, p, e) = p
        \/ /\ z # "none"
           /\ A!InstallEntry(code, p, e) =
                A!Adds(p, z, A!Passive(e.temp, "rapl_controller_mmio", -1))
    BY <1>2 DEF A!InstallEntry, A!install_itmt
  <2>2. TripShape(A!Passive(e.temp, "rapl_controller_mmio", -1))
        /\ A!Passive(e.temp, "rapl_controller_mmio", -1).type = "PASSIVE"
    BY PassiveShape DEF EntryOk
  <2> HIDE DEF z
  <2> QED
    BY <1>1, <2>1, <2>2, AddsShape DEF Added
<1>3. CASE code # "ITMT"
  <2>1. \/ A!InstallEntry(code, p, e) = p
        \/ /\ z # "none"
           /\ A!InstallEntry(code, p, e) = A!Adds(p, z, A!Passive(temp, c, target))
    BY <1>3 DEF A!InstallEntry, A!install_passive
  <2>2. temp \in Int /\ target \in Int
    <3>1. e.temp \in Int /\ e.power \in Int /\ MaxTarget \in Int
      BY <1>3, TablesAssumption DEF EntryOk
    <3>2. target \in {MaxTarget, -1, e.power}
      OBVIOUS
    <3> HIDE DEF z
    <3>3. temp \in {A!Sen3Cap, e.temp} /\ A!Sen3Cap \in Int
      BY DEF A!Sen3Cap
    <3> HIDE DEF temp, target
    <3> QED
      BY <3>1, <3>2, <3>3
  <2> HIDE DEF z, c, temp, target
  <2>3. TripShape(A!Passive(temp, c, target)) /\ A!Passive(temp, c, target).type = "PASSIVE"
    BY <2>2, PassiveShape
  <2> QED
    BY <1>1, <2>1, <2>3, AddsShape DEF Added
<1> QED
  BY <1>2, <1>3

\* The loop over a table makes trips.
LEMMA TableShape ==
    ASSUME NEW code, NEW p, Shaped(p), NEW entries, IsTable(entries),
           \A i \in DOMAIN entries : EntryOk(code, entries[i])
    PROVE  Shaped(A!InstallTable(code, p, entries))
<1> DEFINE n == Len(entries)
<1>1. n \in Nat /\ DOMAIN entries = 1..n
  BY DEF IsTable
<1>2. PICK f : TableRun(code, p, entries, n, f) /\ A!InstallTable(code, p, entries) = f[n]
  BY <1>1, TableRuns
<1>3. \A i \in 0..n : f[i] = IF i = 0 THEN p ELSE A!InstallEntry(code, f[i - 1], entries[i])
  BY <1>2 DEF TableRun
<1> HIDE DEF n
<1> DEFINE S == {i \in 0..n : Shaped(f[i])}
<1>4. 0 \in S
  BY <1>1, <1>3
<1>5. ASSUME NEW i \in 1..n, i - 1 \in S PROVE i \in S
  <2>1. Shaped(f[i - 1]) /\ i \in 0..n /\ i # 0 /\ EntryOk(code, entries[i])
    BY <1>1, <1>5
  <2>2. Shaped(A!InstallEntry(code, f[i - 1], entries[i]))
    BY <2>1, EntryShape
  <2> QED
    BY <1>3, <2>1, <2>2
<1> HIDE DEF S
<1>6. \A i \in 0..n : i \in S
  BY <1>1, <1>4, <1>5, Climb
<1>7. n \in S
  BY <1>1, <1>6
<1> QED
  BY <1>2, <1>7 DEF S, n

\* A consolidated zone is a list of trips.
LEMMA ConsolidateShape ==
    ASSUME NEW ts, TripList(ts) PROVE TripList(A!Consolidate(ts))
<1> DEFINE o == [j \in 1..Len(ts) |-> A!Consolidated(ts, j)]
           t == A!Passive(ts[1].temp + 1, ts[1].cdev, -1)
<1>1. Len(ts) \in Nat /\ DOMAIN ts = 1..Len(ts)
  BY ListDom DEF TripList
<1>2. CASE Len(ts) = 2 /\ ts[1].target # -1
  <2>1. ts[1].temp \in Int
    BY <1>1, <1>2 DEF TripList, TripShape
  <2>2. TripShape(t) /\ t.type = "PASSIVE"
    BY <2>1, PassiveShape
  <2>3. A!Consolidate(ts) = A!add_trip(ts, t)
    BY <1>2 DEF A!Consolidate
  <2> HIDE DEF t
  <2> QED
    BY <2>2, <2>3, AddedTrip
<1>3. CASE ~(Len(ts) = 2 /\ ts[1].target # -1)
  <2>1. A!Consolidate(ts) = o
    BY <1>3 DEF A!Consolidate
  <2>2. ASSUME NEW j \in 1..Len(ts) PROVE TripShape(A!Consolidated(ts, j))
    <3>1. /\ DOMAIN ts[j] = {"type", "temp", "cdev", "target"}
          /\ ts[j].temp \in Int /\ ts[j].target \in Int
      BY <1>1 DEF TripList, TripShape
    <3>2. j < Len(ts) => ts[j + 1].temp \in Int /\ ts[j + 1].target \in Int
      BY <1>1 DEF TripList, TripShape
    <3>3. TripShape(A!Untargeted(ts[j]))
      BY <3>1 DEF A!Untargeted, TripShape
    <3>4. j < Len(ts) => (MinState + ts[j + 1].target) \div 2 \in Int
                         /\ (ts[j].temp + ts[j + 1].temp) \div 2 \in Int
      BY <3>1, <3>2, TablesAssumption
    <3>5. ASSUME NEW v \in Int, NEW w \in Int
          PROVE  TripShape([ts[j] EXCEPT !.target = v, !.temp = w])
      BY <3>1 DEF TripShape
    <3> QED
      BY <3>1, <3>3, <3>4, <3>5 DEF A!Consolidated, TripShape
  <2>3. IsList(o) /\ DOMAIN o = 1..Len(ts)
    BY <1>1, ListMade
  <2> QED
    BY <2>1, <2>2, <2>3 DEF TripList
<1> QED
  BY <1>2, <1>3

\* psvt_consolidate leaves lists of trips.
LEMMA ConsolidatedShape ==
    ASSUME NEW p, Shaped(p) PROVE Shaped(A!psvt_consolidate(p))
<1>1. /\ p = [ts |-> p.ts, on |-> p.on]
      /\ A!psvt_consolidate(p) = [p EXCEPT !.ts = [z \in Zones |-> A!Consolidate(p.ts[z])]]
  BY DEF Shaped, A!psvt_consolidate
<1> DEFINE q == A!psvt_consolidate(p)
<1>2. q = [ts |-> q.ts, on |-> q.on] /\ q.ts = [z \in Zones |-> A!Consolidate(p.ts[z])]
  BY <1>1
<1> HIDE DEF q
<1>3. \A z \in Zones : TripList(A!Consolidate(p.ts[z]))
  BY ConsolidateShape DEF Shaped
<1> QED
  BY <1>2, <1>3 DEF Shaped, q

\* The EC zones get their trips, whatever the tables put there.
LEMMA EcZoneShape ==
    ASSUME NEW p, Shaped(p), NEW z \in {"SOC", "CHARGER"}
    PROVE  LET q == A!install_ec_zone(p, z)
           IN  /\ Shaped(q) /\ \A y \in Zones : Guards(p, y) => Guards(q, y)
               /\ z \in Zones /\ A!EcCdev \in Cdevs => Guards(q, z)
<1> DEFINE q == A!install_ec_zone(p, z)
           e == A!Passive(A!EcZones[z], A!EcCdev, -1)
           f == A!Passive(A!EcZones[z] + 1, A!EcCdev, -1)
           r == A!Adds(p, z, e)
<1>1. CASE z \notin Zones \/ A!EcCdev \notin Cdevs
  BY <1>1 DEF A!install_ec_zone
<1>2. CASE z \in Zones /\ A!EcCdev \in Cdevs
  <2>1. q = A!Adds(r, z, f)
    BY <1>2 DEF A!install_ec_zone
  <2>2. A!EcZones[z] \in Int
    BY DEF A!EcZones
  <2>3. TripShape(e) /\ e.type = "PASSIVE" /\ TripShape(f) /\ f.type = "PASSIVE"
    BY <2>2, PassiveShape
  <2> HIDE DEF q, e, f
  <2>4. /\ Shaped(r) /\ \A y \in Zones : Guards(p, y) => Guards(r, y)
        /\ z \in r.on /\ \E j \in DOMAIN r.ts[z] : r.ts[z][j] = e
    <3>1. Added(p, r, z, e)
      BY <1>2, <2>3, AddsShape
    <3> HIDE DEF r
    <3> QED
      BY <3>1 DEF Added
  <2>5. Guards(r, z)
    BY <2>4 DEF Guards, e
  <2> HIDE DEF r
  <2>6. Shaped(q) /\ \A y \in Zones : Guards(r, y) => Guards(q, y)
    BY <1>2, <2>1, <2>3, <2>4, AddsShape DEF Added
  <2> QED
    BY <1>2, <2>4, <2>5, <2>6 DEF q
<1> QED
  BY <1>1, <1>2

\* What every table ends with: psvt_consolidate and the EC zones' trips.
Built(p) == A!install_minibook_ec_zones(A!psvt_consolidate(p))
EcGuarded(p) == A!EcCdev \in Cdevs => \A z \in Zones \cap {"SOC", "CHARGER"} : Guards(p, z)

\* Every table ends with guarded EC zones.
LEMMA BuiltShape ==
    ASSUME NEW p, Shaped(p) PROVE Shaped(Built(p)) /\ EcGuarded(Built(p))
<1> DEFINE a == A!psvt_consolidate(p)
           b == A!install_ec_zone(a, "SOC")
           c == A!install_ec_zone(b, "CHARGER")
<1>1. Built(p) = c
  BY DEF Built, A!install_minibook_ec_zones
<1>2. Shaped(a)
  BY ConsolidatedShape
<1> HIDE DEF a
<1>3. Shaped(b) /\ ("SOC" \in Zones /\ A!EcCdev \in Cdevs => Guards(b, "SOC"))
  BY <1>2, EcZoneShape
<1> HIDE DEF b
<1>4. /\ Shaped(c) /\ \A y \in Zones : Guards(b, y) => Guards(c, y)
      /\ "CHARGER" \in Zones /\ A!EcCdev \in Cdevs => Guards(c, "CHARGER")
  BY <1>3, EcZoneShape
<1> HIDE DEF c
<1> QED
  BY <1>1, <1>3, <1>4 DEF EcGuarded

\* An override changes the temperature of one trip of one zone.
LEMMA SetTripShape ==
    ASSUME NEW p, Shaped(p), NEW z, NEW temp \in Int
    PROVE  /\ Shaped(A!set_trip(p, z, temp))
           /\ \A y \in Zones : y # z /\ Guards(p, y) => Guards(A!set_trip(p, z, temp), y)
<1> DEFINE first == CHOOSE j \in DOMAIN p.ts[z] :
                        /\ p.ts[z][j].type = "PASSIVE"
                        /\ \A k \in 1..(j - 1) : p.ts[z][k].type # "PASSIVE"
           o == [p.ts[z] EXCEPT ![first].temp = temp]
           q == [p EXCEPT !.ts[z][first].temp = temp]
<1>1. A!set_trip(p, z, temp) = p \/ (z \in Zones /\ A!set_trip(p, z, temp) = q)
  BY DEF A!set_trip
<1>2. CASE z \in Zones
  <2>1. /\ p = [ts |-> p.ts, on |-> p.on] /\ p.ts = [y \in Zones |-> p.ts[y]]
        /\ TripList(p.ts[z])
    BY <1>2 DEF Shaped
  <2> HIDE DEF first
  <2>2. q.on = p.on /\ q = [ts |-> q.ts, on |-> q.on] /\ q.ts = [p.ts EXCEPT ![z] = o]
    BY <2>1
  <2>3. TripList(o)
    <3>1. /\ Len(p.ts[z]) \in Nat /\ DOMAIN p.ts[z] = 1..Len(p.ts[z])
          /\ p.ts[z] = [j \in 1..Len(p.ts[z]) |-> p.ts[z][j]]
      BY <2>1, ListDom DEF TripList
    <3>2. o = [j \in 1..Len(p.ts[z]) |-> o[j]] /\ DOMAIN o = DOMAIN p.ts[z]
      BY <3>1
    <3>3. IsList(o)
      BY <3>1, <3>2, ListMade
    <3>4. ASSUME NEW j \in DOMAIN o PROVE TripShape(o[j])
      <4>1. TripShape(p.ts[z][j])
        BY <2>1, <3>2, <3>4 DEF TripList
      <4>2. o[j] = p.ts[z][j] \/ o[j] = [p.ts[z][j] EXCEPT !.temp = temp]
        BY <3>1, <3>2, <3>4
      <4>3. TripShape([p.ts[z][j] EXCEPT !.temp = temp])
        BY <4>1 DEF TripShape
      <4> QED
        BY <4>1, <4>2, <4>3
    <3> QED
      BY <3>3, <3>4 DEF TripList
  <2> HIDE DEF o, q
  <2>4. /\ q.ts = [y \in Zones |-> q.ts[y]] /\ q.ts[z] = o
        /\ \A y \in Zones : y # z => q.ts[y] = p.ts[y]
    BY <1>2, <2>1, <2>2
  <2>5. Shaped(q)
    BY <2>2, <2>3, <2>4 DEF Shaped
  <2>6. \A y \in Zones : y # z /\ Guards(p, y) => Guards(q, y)
    BY <2>2, <2>4 DEF Guards
  <2> QED
    BY <1>1, <2>5, <2>6
<1>3. CASE z \notin Zones
  BY <1>1, <1>3
<1> QED
  BY <1>2, <1>3

\* Empty zones are zones.
LEMMA DeletedShape == Shaped(A!Deleted)
<1>1. TripList(<<>>)
  BY ListEmpty DEF TripList
<1>2. /\ A!Deleted = [ts |-> A!Deleted.ts, on |-> A!Deleted.on]
      /\ A!Deleted.ts = [z \in Zones |-> <<>>]
  BY DEF A!Deleted
<1> QED
  BY <1>1, <1>2 DEF Shaped

-----------------------------------------------------------------------------
(* Targets.  A run of a target's actions forgets the zones it began with as *)
(* soon as it installs a table.                                             *)

RunOk(st) ==
    /\ st = [p |-> st.p, int3400 |-> st.int3400, limits |-> st.limits, exits |-> st.exits]
    /\ Shaped(st.p) /\ st.int3400 \in BOOLEAN
Overridden(g) == {g.apat[i].zone : i \in {i \in DOMAIN g.apat : g.apat[i].code = "PSV"}}
Held(g, p) ==
    A!EcCdev \in Cdevs =>
        \A z \in (Zones \cap {"SOC", "CHARGER"}) \ Overridden(g) : Guards(p, z)
HeldRun(g, st) == RunOk(st) /\ (st.int3400 => Held(g, st.p))
Agree(s, t) == s.int3400 = t.int3400 /\ (s.int3400 => s.p = t.p)

\* The table an action installs, and what set_int3400_target makes of it.
ActionTable(g, st, a) ==
    IF a.code = "ITMT" /\ a.arg \in DOMAIN g.itmts
    THEN A!InstallTable("ITMT", IF st.int3400 THEN st.p ELSE A!Deleted, g.itmts[a.arg])
    ELSE IF a.code = "PSVT"
    THEN A!InstallTable("PSVT", IF st.int3400 THEN st.p ELSE A!Deleted, g.psvts[a.arg])
    ELSE st.p
ActionZones(g, st, a) ==
    IF a.code = "PSV" THEN A!set_trip(Built(ActionTable(g, st, a)), a.zone, a.arg)
    ELSE Built(ActionTable(g, st, a))
Installs(g, a) ==
    (a.code = "PSVT" /\ a.arg \in DOMAIN g.psvts) \/ (a.code = "ITMT" /\ a.arg \in DOMAIN g.itmts)
Skips(g, a) == ~A!ForZones(a) \/ (a.code = "PSVT" /\ a.arg \notin DOMAIN g.psvts)

\* execute_target changes the zones by ActionZones or not at all.
LEMMA ExecuteDoes ==
    ASSUME NEW g, NEW st, RunOk(st), NEW a
    PROVE  LET u == A!execute_target(g, st, a)
           IN  /\ u = [p |-> u.p, int3400 |-> u.int3400, limits |-> u.limits, exits |-> u.exits]
               /\ Skips(g, a) => u.p = st.p /\ u.int3400 = st.int3400
               /\ ~Skips(g, a) => /\ u.p = ActionZones(g, st, a)
                                  /\ u.int3400 = (st.int3400 \/ Installs(g, a))
<1> DEFINE u == A!execute_target(g, st, a)
           base == IF st.int3400 THEN st.p ELSE A!Deleted
           table == CASE a.code = "ITMT" /\ a.arg \in DOMAIN g.itmts ->
                             A!InstallTable("ITMT", base, g.itmts[a.arg])
                      [] a.code = "PSVT" -> A!InstallTable("PSVT", base, g.psvts[a.arg])
                      [] OTHER -> st.p
           built == A!install_minibook_ec_zones(A!psvt_consolidate(table))
           zs == IF a.code = "PSV" THEN A!set_trip(built, a.zone, a.arg) ELSE built
           flag == st.int3400 \/ a.code = "PSVT" \/ (a.code = "ITMT" /\ a.arg \in DOMAIN g.itmts)
<1>1. /\ st = [p |-> st.p, int3400 |-> st.int3400, limits |-> st.limits, exits |-> st.exits]
      /\ st.int3400 \in BOOLEAN
  BY DEF RunOk
<1>2. CASE ~A!ForZones(a)
  <2>1. u = st \/ u = [st EXCEPT !.limits = [@ EXCEPT ![a.code] = a.arg]]
    BY <1>2, Zenon DEF A!execute_target
  <2> QED
    BY <1>1, <1>2, <2>1 DEF Skips
<1>3. CASE A!ForZones(a) /\ a.code = "PSVT" /\ a.arg \notin DOMAIN g.psvts
  <2>1. u = st
    BY <1>3 DEF A!execute_target, A!set_int3400_target
  <2> QED
    BY <1>1, <1>3, <2>1 DEF Skips
<1>4. CASE A!ForZones(a) /\ ~(a.code = "PSVT" /\ a.arg \notin DOMAIN g.psvts)
  <2>1. u = [st EXCEPT !.p = zs, !.exits = @ \/ built.on = {}, !.int3400 = flag]
    BY <1>1, <1>4, Zenon DEF A!execute_target, A!set_int3400_target
  <2>2. table = ActionTable(g, st, a)
    BY DEF ActionTable
  <2> HIDE DEF table
  <2>3. zs = ActionZones(g, st, a)
    BY <2>2 DEF ActionZones, Built
  <2> HIDE DEF zs, built
  <2>4. flag = (st.int3400 \/ Installs(g, a))
    BY <1>1, <1>4 DEF Installs
  <2> HIDE DEF flag
  <2>5. /\ u = [p |-> u.p, int3400 |-> u.int3400, limits |-> u.limits, exits |-> u.exits]
        /\ u.p = zs /\ u.int3400 = flag
    BY <1>1, <2>1
  <2> QED
    BY <1>4, <2>3, <2>4, <2>5 DEF Skips
<1> QED
  BY <1>2, <1>3, <1>4

\* The zones an action builds are sound, and guarded unless it overrides them.
LEMMA ActionShape ==
    ASSUME NEW g \in Gddvs, NEW st, RunOk(st), NEW i \in DOMAIN g.apat,
           ~Skips(g, g.apat[i])
    PROVE  Shaped(ActionZones(g, st, g.apat[i])) /\ Held(g, ActionZones(g, st, g.apat[i]))
<1> DEFINE a == g.apat[i]
           base == IF st.int3400 THEN st.p ELSE A!Deleted
           table == ActionTable(g, st, a)
           built == Built(table)
<1>1. Shaped(base) /\ Shaped(st.p)
  BY DeletedShape DEF RunOk
<1>2. ASSUME a.code = "ITMT", a.arg \in DOMAIN g.itmts
      PROVE  Shaped(A!InstallTable("ITMT", base, g.itmts[a.arg]))
  <2> DEFINE es == g.itmts[a.arg]
  <2>1. IsTable(es) /\ \A k \in DOMAIN es : EntryOk("ITMT", es[k])
    BY <1>2, TablesAssumption DEF EntryOk
  <2> HIDE DEF es, base
  <2> QED
    BY <1>1, <2>1, TableShape DEF es
<1>3. ASSUME a.code = "PSVT", a.arg \in DOMAIN g.psvts
      PROVE  Shaped(A!InstallTable("PSVT", base, g.psvts[a.arg]))
  <2> DEFINE es == g.psvts[a.arg]
  <2>1. IsTable(es) /\ \A k \in DOMAIN es : EntryOk("PSVT", es[k])
    BY <1>3, TablesAssumption DEF EntryOk
  <2> HIDE DEF es, base
  <2> QED
    BY <1>1, <2>1, TableShape DEF es
<1>4. a.code = "PSVT" => a.arg \in DOMAIN g.psvts
  BY DEF Skips
<1>5. Shaped(table)
  BY <1>1, <1>2, <1>3, <1>4 DEF ActionTable
<1> HIDE DEF table
<1>6. Shaped(built) /\ EcGuarded(built)
  BY <1>5, BuiltShape
<1>7. Held(g, built)
  BY <1>6 DEF EcGuarded, Held
<1> HIDE DEF built
<1>8. CASE a.code = "PSV"
  <2>1. a.arg \in Int
    BY <1>8, TablesAssumption
  <2>2. a.zone \in Overridden(g)
    BY <1>8 DEF Overridden
  <2>3. ActionZones(g, st, a) = A!set_trip(built, a.zone, a.arg)
    BY <1>8 DEF ActionZones, built, table
  <2> DEFINE q == A!set_trip(built, a.zone, a.arg)
  <2>4. Shaped(q) /\ \A y \in Zones : y # a.zone /\ Guards(built, y) => Guards(q, y)
    BY <1>6, <2>1, SetTripShape
  <2> HIDE DEF q
  <2>5. Held(g, q)
    BY <1>7, <2>2, <2>4 DEF Held
  <2> QED
    BY <2>3, <2>4, <2>5 DEF q
<1>9. CASE a.code # "PSV"
  <2>1. ActionZones(g, st, a) = built
    BY <1>9 DEF ActionZones, built, table
  <2> QED
    BY <1>6, <1>7, <2>1
<1> QED
  BY <1>8, <1>9

\* One action leaves a sound run, guarded once a table is installed.
LEMMA ExecuteHeld ==
    ASSUME NEW g \in Gddvs, NEW st, HeldRun(g, st), NEW i \in DOMAIN g.apat
    PROVE  HeldRun(g, A!execute_target(g, st, g.apat[i]))
<1> DEFINE a == g.apat[i]
           u == A!execute_target(g, st, a)
<1>1. RunOk(st) /\ st.int3400 \in BOOLEAN /\ Shaped(st.p) /\ (st.int3400 => Held(g, st.p))
  BY DEF HeldRun, RunOk
<1>2. /\ u = [p |-> u.p, int3400 |-> u.int3400, limits |-> u.limits, exits |-> u.exits]
      /\ Skips(g, a) => u.p = st.p /\ u.int3400 = st.int3400
      /\ ~Skips(g, a) => /\ u.p = ActionZones(g, st, a)
                         /\ u.int3400 = (st.int3400 \/ Installs(g, a))
  BY <1>1, ExecuteDoes
<1>3. ~Skips(g, a) => Shaped(ActionZones(g, st, a)) /\ Held(g, ActionZones(g, st, a))
  BY <1>1, ActionShape
<1>4. (st.int3400 \/ Installs(g, a)) \in BOOLEAN
  OBVIOUS
<1> HIDE DEF u
<1> QED
  BY <1>1, <1>2, <1>3, <1>4 DEF HeldRun, RunOk, u

\* One action takes runs that agree to runs that agree: the zones of before
\* count only while no table is installed.
LEMMA ExecuteAgrees ==
    ASSUME NEW g, NEW s, RunOk(s), NEW t, RunOk(t), Agree(s, t), NEW a
    PROVE  Agree(A!execute_target(g, s, a), A!execute_target(g, t, a))
<1> DEFINE u == A!execute_target(g, s, a)
           v == A!execute_target(g, t, a)
<1>1. s.int3400 \in BOOLEAN /\ t.int3400 = s.int3400 /\ (s.int3400 => s.p = t.p)
  BY DEF Agree, RunOk
<1>2. /\ Skips(g, a) => u.p = s.p /\ u.int3400 = s.int3400
      /\ ~Skips(g, a) => u.p = ActionZones(g, s, a) /\ u.int3400 = (s.int3400 \/ Installs(g, a))
  BY ExecuteDoes
<1>3. /\ Skips(g, a) => v.p = t.p /\ v.int3400 = t.int3400
      /\ ~Skips(g, a) => v.p = ActionZones(g, t, a) /\ v.int3400 = (t.int3400 \/ Installs(g, a))
  BY ExecuteDoes
<1> HIDE DEF u, v
<1>4. s.int3400 \/ Installs(g, a) => ActionTable(g, s, a) = ActionTable(g, t, a)
  BY <1>1 DEF ActionTable, Installs
<1>5. s.int3400 \/ Installs(g, a) => ActionZones(g, s, a) = ActionZones(g, t, a)
  BY <1>4 DEF ActionZones
<1> QED
  BY <1>1, <1>2, <1>3, <1>5 DEF Agree, u, v

\* f[i] is the run after the first i actions, those of target t carried out.
TargetRun(g, st, t, n, f) ==
    f = [i \in 0..n |-> IF i = 0 THEN st
                        ELSE IF g.apat[i].target # t THEN f[i - 1]
                        ELSE A!execute_target(g, f[i - 1], g.apat[i])]

\* The loop over the actions is well defined: such a function exists.
LEMMA TargetRuns ==
    ASSUME NEW g, NEW st, NEW t, Len(g.apat) \in Nat
    PROVE  \E f : /\ TargetRun(g, st, t, Len(g.apat), f)
                  /\ A!ExecuteAll(g, st, t) = f[Len(g.apat)]
<1> DEFINE Step(q, i) == IF g.apat[i].target # t THEN q
                         ELSE A!execute_target(g, q, g.apat[i])
           Good(f, n) == f = [i \in 0..n |-> IF i = 0 THEN st ELSE Step(f[i - 1], i)]
           n == Len(g.apat)
           S == {i \in 0..n : \E f : Good(f, i)}
<1>1. A!ExecuteAll(g, st, t) = (CHOOSE f : Good(f, n))[n]
  BY DEF A!ExecuteAll
<1>2. Good([i \in 0..0 |-> st], 0)
  OBVIOUS
<1>3. ASSUME NEW i \in 1..n, NEW f, Good(f, i - 1) PROVE \E h : Good(h, i)
  <2> HIDE DEF Step
  <2> DEFINE h == [k \in 0..i |-> IF k = i THEN Step(f[i - 1], i) ELSE f[k]]
  <2>1. ASSUME NEW k \in 0..i PROVE h[k] = IF k = 0 THEN st ELSE Step(h[k - 1], k)
    <3>1. CASE k = i
      BY <3>1
    <3>2. CASE k # i
      <4>1. k \in 0..(i - 1)
        BY <3>2
      <4>2. f[k] = IF k = 0 THEN st ELSE Step(f[k - 1], k)
        BY <4>1, <1>3
      <4>3. h[k] = f[k] /\ (k # 0 => h[k - 1] = f[k - 1])
        BY <4>1
      <4> QED
        BY <4>2, <4>3
    <3> QED
      BY <3>1, <3>2
  <2>2. Good(h, i)
    BY <2>1
  <2> QED
    BY <2>2
<1> HIDE DEF Good
<1>4. 0 \in S
  BY <1>2
<1>5. \A i \in 1..n : i - 1 \in S => i \in S
  BY <1>3
<1>6. n \in Nat /\ n \in 0..n
  OBVIOUS
<1> HIDE DEF S, n
<1>7. \A i \in 0..n : i \in S
  BY <1>4, <1>5, <1>6, Climb
<1>8. n \in S
  BY <1>6, <1>7
<1>9. \E f : Good(f, n)
  BY <1>8 DEF S
<1>10. Good(CHOOSE f : Good(f, n), n)
  BY <1>9
<1>11. TargetRun(g, st, t, n, CHOOSE f : Good(f, n))
  BY <1>10 DEF Good, TargetRun
<1> QED
  BY <1>1, <1>11 DEF n

\* All the actions of a target leave a sound run.
LEMMA AllHeld ==
    ASSUME NEW g \in Gddvs, NEW st, HeldRun(g, st), NEW t
    PROVE  HeldRun(g, A!ExecuteAll(g, st, t))
<1> DEFINE n == Len(g.apat)
<1>1. n \in Nat /\ DOMAIN g.apat = 1..n
  BY TablesAssumption DEF IsTable
<1>2. PICK f : TargetRun(g, st, t, n, f) /\ A!ExecuteAll(g, st, t) = f[n]
  BY <1>1, TargetRuns
<1>3. \A i \in 0..n : f[i] = IF i = 0 THEN st
                             ELSE IF g.apat[i].target # t THEN f[i - 1]
                             ELSE A!execute_target(g, f[i - 1], g.apat[i])
  BY <1>2 DEF TargetRun
<1> HIDE DEF n
<1> DEFINE S == {i \in 0..n : HeldRun(g, f[i])}
<1>4. 0 \in S
  BY <1>1, <1>3
<1>5. ASSUME NEW i \in 1..n, i - 1 \in S PROVE i \in S
  <2>1. HeldRun(g, f[i - 1]) /\ i \in 0..n /\ i # 0 /\ i \in DOMAIN g.apat
    BY <1>1, <1>5
  <2>2. HeldRun(g, A!execute_target(g, f[i - 1], g.apat[i]))
    BY <2>1, ExecuteHeld
  <2> QED
    BY <1>3, <2>1, <2>2
<1> HIDE DEF S
<1>6. \A i \in 0..n : i \in S
  BY <1>1, <1>4, <1>5, Climb
<1>7. n \in S
  BY <1>1, <1>6
<1> QED
  BY <1>2, <1>7 DEF S, n

\* All the actions of a target take runs that agree to runs that agree.
LEMMA AllAgree ==
    ASSUME NEW g \in Gddvs, NEW a, HeldRun(g, a), NEW b, HeldRun(g, b), Agree(a, b), NEW t
    PROVE  Agree(A!ExecuteAll(g, a, t), A!ExecuteAll(g, b, t))
<1> DEFINE n == Len(g.apat)
<1>1. n \in Nat /\ DOMAIN g.apat = 1..n
  BY TablesAssumption DEF IsTable
<1>2. PICK f : TargetRun(g, a, t, n, f) /\ A!ExecuteAll(g, a, t) = f[n]
  BY <1>1, TargetRuns
<1>3. PICK h : TargetRun(g, b, t, n, h) /\ A!ExecuteAll(g, b, t) = h[n]
  BY <1>1, TargetRuns
<1>4. \A i \in 0..n : f[i] = IF i = 0 THEN a
                             ELSE IF g.apat[i].target # t THEN f[i - 1]
                             ELSE A!execute_target(g, f[i - 1], g.apat[i])
  BY <1>2 DEF TargetRun
<1>5. \A i \in 0..n : h[i] = IF i = 0 THEN b
                             ELSE IF g.apat[i].target # t THEN h[i - 1]
                             ELSE A!execute_target(g, h[i - 1], g.apat[i])
  BY <1>3 DEF TargetRun
<1> HIDE DEF n
<1> DEFINE S == {i \in 0..n : HeldRun(g, f[i]) /\ HeldRun(g, h[i]) /\ Agree(f[i], h[i])}
<1>6. 0 \in S
  BY <1>1, <1>4, <1>5
<1>7. ASSUME NEW i \in 1..n, i - 1 \in S PROVE i \in S
  <2>1. /\ HeldRun(g, f[i - 1]) /\ HeldRun(g, h[i - 1]) /\ Agree(f[i - 1], h[i - 1])
        /\ i \in 0..n /\ i # 0 /\ i \in DOMAIN g.apat
    BY <1>1, <1>7
  <2>2. RunOk(f[i - 1]) /\ RunOk(h[i - 1])
    BY <2>1 DEF HeldRun
  <2> DEFINE u == A!execute_target(g, f[i - 1], g.apat[i])
             v == A!execute_target(g, h[i - 1], g.apat[i])
  <2>3. HeldRun(g, u) /\ HeldRun(g, v)
    BY <2>1, ExecuteHeld
  <2>4. Agree(u, v)
    BY <2>1, <2>2, ExecuteAgrees
  <2>5. (f[i] = f[i - 1] /\ h[i] = h[i - 1]) \/ (f[i] = u /\ h[i] = v)
    BY <1>4, <1>5, <2>1
  <2> HIDE DEF u, v
  <2> QED
    BY <2>1, <2>3, <2>4, <2>5
<1> HIDE DEF S
<1>8. \A i \in 0..n : i \in S
  BY <1>1, <1>6, <1>7, Climb
<1>9. n \in S
  BY <1>1, <1>8
<1> QED
  BY <1>2, <1>3, <1>9 DEF S, n

\* The default table, when there is one, guards the EC zones.
LEMMA DefaultShape ==
    ASSUME NEW g \in Gddvs
    PROVE  /\ Shaped(A!install_passive_default(g))
           /\ A!find_def_psvt(g) # "none" => Held(g, A!install_passive_default(g))
<1> DEFINE d == A!find_def_psvt(g)
           es == g.psvts[d]
           table == A!InstallTable("PSVT", A!Deleted, es)
<1>1. CASE d = "none"
  BY <1>1, DeletedShape DEF A!install_passive_default
<1>2. CASE d # "none"
  <2>1. d \in DOMAIN g.psvts
    BY <1>2 DEF A!find_def_psvt
  <2>2. A!install_passive_default(g) = Built(table)
    BY <1>2 DEF A!install_passive_default, Built
  <2> HIDE DEF d
  <2>3. IsTable(es) /\ \A k \in DOMAIN es : EntryOk("PSVT", es[k])
    BY <2>1, TablesAssumption DEF EntryOk
  <2> HIDE DEF es
  <2>4. Shaped(table)
    BY <2>3, DeletedShape, TableShape
  <2> HIDE DEF table
  <2>5. Shaped(Built(table)) /\ EcGuarded(Built(table))
    BY <2>4, BuiltShape
  <2>6. Held(g, Built(table))
    BY <2>5 DEF EcGuarded, Held
  <2> QED
    BY <2>2, <2>5, <2>6
<1> QED
  BY <1>1, <1>2

\* Where a switch may begin, and what it leaves guarded.
Starts(st) == RunOk(st) /\ st.int3400 = FALSE
Guarded(g, u) == u.int3400 \/ A!find_def_psvt(g) # "none" => Held(g, u.p)

\* A switch of the target makes sound zones, and guards the EC zones if there
\* is a table to install.
LEMMA SwitchSound ==
    ASSUME NEW g \in Gddvs, NEW st, Starts(st), NEW t
    PROVE  Shaped(A!SwitchTo(g, st, t).p) /\ Guarded(g, A!SwitchTo(g, st, t))
<1> DEFINE d == IF t > 0 THEN A!ExecuteAll(g, st, t) ELSE st
           u == A!SwitchTo(g, st, t)
<1>1. u = IF d.int3400 THEN d ELSE [d EXCEPT !.p = A!install_passive_default(g)]
  BY DEF A!SwitchTo
<1>2. HeldRun(g, st)
  BY DEF Starts, HeldRun
<1>3. HeldRun(g, d)
  BY <1>2, AllHeld
<1> HIDE DEF d, u
<1>4. /\ d = [p |-> d.p, int3400 |-> d.int3400, limits |-> d.limits, exits |-> d.exits]
      /\ d.int3400 \in BOOLEAN /\ Shaped(d.p) /\ (d.int3400 => Held(g, d.p))
  BY <1>3 DEF HeldRun, RunOk
<1>5. CASE d.int3400
  BY <1>1, <1>4, <1>5 DEF Guarded, u
<1>6. CASE ~d.int3400
  <2>1. u.p = A!install_passive_default(g) /\ u.int3400 = FALSE
    BY <1>1, <1>4, <1>6
  <2> QED
    BY <2>1, DefaultShape DEF Guarded, u
<1> QED
  BY <1>5, <1>6

\* A switch of the target makes the same zones whatever the zones of before.
LEMMA SwitchForgets ==
    ASSUME NEW g \in Gddvs, NEW a, Starts(a), NEW b, Starts(b), NEW t
    PROVE  /\ A!SwitchTo(g, a, t).p = A!SwitchTo(g, b, t).p
           /\ A!SwitchTo(g, a, t).int3400 = A!SwitchTo(g, b, t).int3400
<1> DEFINE c == IF t > 0 THEN A!ExecuteAll(g, a, t) ELSE a
           d == IF t > 0 THEN A!ExecuteAll(g, b, t) ELSE b
           def == A!install_passive_default(g)
<1>1. /\ A!SwitchTo(g, a, t) = IF c.int3400 THEN c ELSE [c EXCEPT !.p = def]
      /\ A!SwitchTo(g, b, t) = IF d.int3400 THEN d ELSE [d EXCEPT !.p = def]
  BY DEF A!SwitchTo
<1>2. HeldRun(g, a) /\ HeldRun(g, b) /\ Agree(a, b)
  BY DEF Starts, HeldRun, Agree
<1>3. HeldRun(g, c) /\ HeldRun(g, d)
  BY <1>2, AllHeld
<1>4. Agree(c, d)
  BY <1>2, AllAgree
<1> HIDE DEF c, d, def
<1>5. /\ c = [p |-> c.p, int3400 |-> c.int3400, limits |-> c.limits, exits |-> c.exits]
      /\ d = [p |-> d.p, int3400 |-> d.int3400, limits |-> d.limits, exits |-> d.exits]
      /\ c.int3400 \in BOOLEAN
  BY <1>3 DEF HeldRun, RunOk
<1>6. c.int3400 = d.int3400 /\ (c.int3400 => c.p = d.p)
  BY <1>4 DEF Agree
<1> QED
  BY <1>1, <1>5, <1>6

-----------------------------------------------------------------------------
(* The adaptive engine's invariant: besides the property itself, that the   *)
(* zones hold lists of trips, that nothing is installed before the start,   *)
(* and that an engine with a fallback never has a target.                   *)
AdaptiveInv ==
    /\ gddv \in Gddvs /\ Shaped([ts |-> trips, on |-> active]) /\ installed \in BOOLEAN
    /\ adaptivePhase = "boot" => matched = -1 /\ ~installed
    /\ A!HasFallback => matched = -1
    /\ A!InstalledAgrees

\* The zones p are those of a switch from st to t, and guarded; st may be the
\* empty zones.
Fits(g, st, t, p) ==
    /\ p.ts = A!SwitchTo(g, st, t).p.ts /\ p.on = A!SwitchTo(g, st, t).p.on
    /\ Guarded(g, A!SwitchTo(g, st, t))
Empty(l) == [p |-> A!Deleted, int3400 |-> FALSE, limits |-> l, exits |-> FALSE]

\* Empty zones can be switched from, whatever the limits.
LEMMA EmptyStarts == ASSUME NEW l PROVE Starts(Empty(l))
<1>1. Empty(l).p = A!Deleted /\ Empty(l).int3400 = FALSE
      /\ Empty(l) = [p |-> Empty(l).p, int3400 |-> Empty(l).int3400,
                     limits |-> Empty(l).limits, exits |-> Empty(l).exits]
  BY DEF Empty
<1> QED
  BY <1>1, DeletedShape DEF Starts, RunOk

\* The zones in use can be switched from.
LEMMA CurrentStarts ==
    ASSUME Shaped([ts |-> trips, on |-> active]) PROVE Starts(A!Current)
<1>1. /\ A!Current.p = [ts |-> trips, on |-> active] /\ A!Current.int3400 = FALSE
      /\ A!Current = [p |-> A!Current.p, int3400 |-> A!Current.int3400,
                      limits |-> A!Current.limits, exits |-> A!Current.exits]
  BY DEF A!Current, A!From
<1> QED
  BY <1>1 DEF Starts, RunOk

\* The property in terms of Fits: the EC zones that can be guarded are.
LEMMA AgreesFits ==
    gddv \in Gddvs =>
        (A!InstalledAgrees <=>
             (adaptivePhase = "run" /\ installed =>
                Fits(gddv, Empty(limits), matched, [ts |-> trips, on |-> active])))
<1> SUFFICES ASSUME gddv \in Gddvs
             PROVE  A!InstalledAgrees <=>
                      (adaptivePhase = "run" /\ installed =>
                         Fits(gddv, Empty(limits), matched, [ts |-> trips, on |-> active]))
  OBVIOUS
<1> DEFINE u == A!SwitchTo(gddv, Empty(limits), matched)
<1>1. A!Fresh(matched) = u
  BY Zenon DEF A!Fresh, A!From, Empty
<1>2. A!Guardable = IF A!EcCdev \in Cdevs THEN (Zones \cap {"SOC", "CHARGER"}) \ Overridden(gddv)
                    ELSE {}
  <2>1. DOMAIN A!EcZones = {"SOC", "CHARGER"}
    BY DEF A!EcZones
  <2> QED
    BY <2>1 DEF A!Guardable, Overridden
<1>3. ASSUME trips = u.p.ts, active = u.p.on
      PROVE  Held(gddv, u.p) <=>
               \A z \in A!Guardable :
                   /\ z \in active
                   /\ \E j \in DOMAIN trips[z] :
                        trips[z][j] = A!Passive(A!EcZones[z], A!EcCdev, -1)
  <2> HIDE DEF u
  <2> QED
    BY <1>2, <1>3 DEF Held, Guards
<1>4. A!InstalledAgrees <=>
        (adaptivePhase = "run" /\ installed =>
           /\ trips = u.p.ts /\ active = u.p.on
           /\ u.int3400 \/ A!find_def_psvt(gddv) # "none" =>
                \A z \in A!Guardable :
                   /\ z \in active
                   /\ \E j \in DOMAIN trips[z] :
                        trips[z][j] = A!Passive(A!EcZones[z], A!EcCdev, -1))
  <2> HIDE DEF u
  <2> QED
    BY <1>1 DEF A!InstalledAgrees
<1>5. Fits(gddv, Empty(limits), matched, [ts |-> trips, on |-> active]) <=>
        /\ trips = u.p.ts /\ active = u.p.on
        /\ u.int3400 \/ A!find_def_psvt(gddv) # "none" => Held(gddv, u.p)
  <2>1. [ts |-> trips, on |-> active].ts = trips /\ [ts |-> trips, on |-> active].on = active
    OBVIOUS
  <2> QED
    BY <2>1, Zenon DEF Fits, Guarded
<1> HIDE DEF u
<1> QED
  BY <1>3, <1>4, <1>5

\* The zones fit a switch from empty zones whatever zones they were built on
\* and whatever the limits.
LEMMA FitsAny ==
    ASSUME NEW g \in Gddvs, NEW st, Starts(st), NEW l, NEW t
    PROVE  Fits(g, Empty(l), t, A!SwitchTo(g, st, t).p)
<1> DEFINE u == A!SwitchTo(g, st, t)
           v == A!SwitchTo(g, Empty(l), t)
<1>1. Starts(Empty(l))
  BY EmptyStarts
<1>2. u.p = v.p
  BY <1>1, SwitchForgets
<1>3. Guarded(g, v)
  BY <1>1, SwitchSound
<1> QED
  BY <1>2, <1>3 DEF Fits

\* A change of the limits alone changes nothing.
LEMMA FitsLimits ==
    ASSUME NEW g \in Gddvs, NEW l, NEW m, NEW t, NEW p, Fits(g, Empty(l), t, p)
    PROVE  Fits(g, Empty(m), t, p)
<1> DEFINE u == A!SwitchTo(g, Empty(l), t)
           v == A!SwitchTo(g, Empty(m), t)
<1>1. Starts(Empty(l)) /\ Starts(Empty(m))
  BY EmptyStarts
<1>2. u.p = v.p
  BY <1>1, SwitchForgets
<1>3. Guarded(g, v)
  BY <1>1, SwitchSound
<1> QED
  BY <1>2, <1>3 DEF Fits

\* The adaptive engine starts with the trips of before and nothing installed.
LEMMA AdaptiveInvInit == A!Init => AdaptiveInv
<1> SUFFICES ASSUME A!Init PROVE AdaptiveInv
  OBVIOUS
<1>1. /\ gddv \in Gddvs /\ matched = -1 /\ installed = FALSE /\ adaptivePhase = "boot"
      /\ trips = Boot
  BY DEF A!Init
<1> DEFINE p == [ts |-> trips, on |-> active]
<1>2. p = [ts |-> p.ts, on |-> p.on] /\ p.ts = Boot
  BY <1>1
<1>3. Boot = [z \in Zones |-> Boot[z]] /\ \A z \in Zones : TripList(Boot[z])
  <2>1. \A z \in Zones : IsList(Boot[z])
    BY BootAssumption, ListMade DEF IsTable
  <2> QED
    BY <2>1, BootAssumption DEF TripList, TripShape
<1>4. Shaped(p)
  <2> HIDE DEF p
  <2> QED
    BY <1>2, <1>3 DEF Shaped
<1>5. A!InstalledAgrees
  BY <1>1 DEF A!InstalledAgrees
<1> QED
  BY <1>1, <1>4, <1>5 DEF AdaptiveInv

\* The start installs the default table or nothing.
LEMMA StartAdaptive == AdaptiveInv /\ A!Start => AdaptiveInv'
<1> SUFFICES ASSUME AdaptiveInv, A!Start PROVE AdaptiveInv'
  OBVIOUS
<1> DEFINE p == [ts |-> trips, on |-> active]
           d == A!install_passive_default(gddv)
<1>1. /\ gddv \in Gddvs /\ Shaped(p) /\ matched = -1 /\ installed = FALSE
      /\ adaptivePhase = "boot"
  BY DEF AdaptiveInv, A!Start
<1>2. gddv' = gddv /\ matched' = matched /\ adaptivePhase' # "boot"
  BY DEF A!Start
<1>3. \/ trips' = d.ts /\ active' = d.on /\ installed' = TRUE
      \/ trips' = trips /\ active' = active /\ installed' = FALSE
  BY <1>1 DEF A!Start, A!Install
<1>4. Shaped(d) /\ d = [ts |-> d.ts, on |-> d.on]
  BY <1>1, DefaultShape DEF Shaped
<1>5. Shaped(p')
  BY <1>1, <1>3, <1>4
<1>6. A!SwitchTo(gddv, Empty(limits'), -1).p = d
  <2>1. A!SwitchTo(gddv, Empty(limits'), -1) = [Empty(limits') EXCEPT !.p = d]
    BY DEF A!SwitchTo, Empty
  <2> HIDE DEF d
  <2> QED
    BY <2>1 DEF Empty
<1>7. installed' => Fits(gddv', Empty(limits'), matched', p')
  <2>1. Starts(Empty(limits'))
    BY EmptyStarts
  <2>2. Fits(gddv, Empty(limits'), -1, d)
    BY <1>1, <1>6, <2>1, FitsAny
  <2>3. installed' => p' = d
    BY <1>3, <1>4
  <2> QED
    BY <1>1, <1>2, <2>2, <2>3
<1>8. A!InstalledAgrees'
  <2>1. (gddv \in Gddvs =>
           (A!InstalledAgrees <=> (adaptivePhase = "run" /\ installed =>
              Fits(gddv, Empty(limits), matched, [ts |-> trips, on |-> active]))))'
    BY AgreesFits, PTL
  <2> QED
    BY <1>1, <1>2, <1>7, <2>1
<1> QED
  BY <1>1, <1>2, <1>3, <1>5, <1>8 DEF AdaptiveInv

\* An interval switches from the zones in use to the target that now holds,
\* or leaves them.
LEMMA UpdateAdaptive == AdaptiveInv /\ (\E d \in Steps : A!Update(d)) => AdaptiveInv'
<1> SUFFICES ASSUME AdaptiveInv, NEW d \in Steps, A!Update(d) PROVE AdaptiveInv'
  OBVIOUS
<1> DEFINE p == [ts |-> trips, on |-> active]
           q == A!SwitchTo(gddv, A!Current, matched').p
<1>1. /\ gddv \in Gddvs /\ Shaped(p) /\ installed \in BOOLEAN /\ adaptivePhase = "run"
      /\ A!HasFallback => matched = -1
  BY DEF AdaptiveInv, A!Update
<1>2. /\ gddv' = gddv /\ fallback' = fallback /\ adaptivePhase' \in {"run", "failed"}
      /\ installed' = (installed \/ matched' # matched)
      /\ A!HasFallback => matched' = -1
  BY <1>1 DEF A!Update
<1>3. \/ matched' = matched /\ trips' = trips /\ active' = active
      \/ matched' # matched /\ trips' = q.ts /\ active' = q.on
  BY <1>1, <1>2 DEF A!Update, A!Install, A!Current, A!From
<1>4. Starts(A!Current)
  BY <1>1, CurrentStarts
<1>5. Shaped(q) /\ q = [ts |-> q.ts, on |-> q.on]
  BY <1>1, <1>4, SwitchSound DEF Shaped
<1>6. Fits(gddv, Empty(limits'), matched', q)
  BY <1>1, <1>4, FitsAny
<1>7. installed => Fits(gddv, Empty(limits), matched, p)
  BY <1>1, AgreesFits DEF AdaptiveInv
<1> HIDE DEF q
<1>8. Shaped(p')
  BY <1>1, <1>3, <1>5
<1>9. installed' => Fits(gddv', Empty(limits'), matched', p')
  <2>1. CASE matched' = matched
    <3>1. p' = p
      BY <1>3, <2>1
    <3>2. installed' => Fits(gddv, Empty(limits'), matched, p)
      BY <1>1, <1>2, <1>7, <2>1, FitsLimits
    <3> QED
      BY <1>2, <2>1, <3>1, <3>2
  <2>2. CASE matched' # matched
    <3>1. p' = q
      BY <1>3, <1>5, <2>2
    <3> QED
      BY <1>2, <1>6, <3>1
  <2> QED
    BY <2>1, <2>2
<1>10. A!InstalledAgrees'
  <2>1. (gddv \in Gddvs =>
           (A!InstalledAgrees <=> (adaptivePhase = "run" /\ installed =>
              Fits(gddv, Empty(limits), matched, [ts |-> trips, on |-> active]))))'
    BY AgreesFits, PTL
  <2> QED
    BY <1>1, <1>2, <1>9, <2>1
<1>11. A!HasFallback' = A!HasFallback
  BY <1>2 DEF A!HasFallback
<1> QED
  BY <1>1, <1>2, <1>8, <1>10, <1>11 DEF AdaptiveInv

\* A change of a condition's source, and a step of another part, leave it all.
LEMMA QuietAdaptive ==
    AdaptiveInv /\ UNCHANGED <<gddv, matched, fallback, trips, active, limits, installed,
                              adaptivePhase>> => AdaptiveInv'
<1> SUFFICES ASSUME AdaptiveInv,
                    UNCHANGED <<gddv, matched, fallback, trips, active, limits, installed,
                                adaptivePhase>>
             PROVE  AdaptiveInv'
  OBVIOUS
<1>1. A!HasFallback' = A!HasFallback
  BY DEF A!HasFallback
<1>2. A!InstalledAgrees'
  <2>1. (gddv \in Gddvs =>
           (A!InstalledAgrees <=> (adaptivePhase = "run" /\ installed =>
              Fits(gddv, Empty(limits), matched, [ts |-> trips, on |-> active]))))'
    BY AgreesFits, PTL
  <2>2. adaptivePhase = "run" /\ installed =>
           Fits(gddv, Empty(limits), matched, [ts |-> trips, on |-> active])
    BY AgreesFits DEF AdaptiveInv
  <2> QED
    BY <2>1, <2>2 DEF AdaptiveInv
<1> QED
  BY <1>1, <1>2 DEF AdaptiveInv

\* No step of the adaptive engine breaks the invariant.
LEMMA AdaptiveInvStep == AdaptiveInv /\ [A!Next]_adaptiveVars => AdaptiveInv'
<1> SUFFICES ASSUME AdaptiveInv, [A!Next]_adaptiveVars PROVE AdaptiveInv'
  OBVIOUS
<1>1. CASE A!Start
  BY <1>1, StartAdaptive
<1>2. CASE \E d \in Steps : A!Update(d)
  BY <1>2, UpdateAdaptive
<1>3. CASE \E k \in DOMAIN EnvValues : \E v \in EnvValues[k] : A!SetEnv(k, v)
  BY <1>3, QuietAdaptive DEF A!SetEnv
<1>4. CASE UNCHANGED adaptiveVars
  BY <1>4, QuietAdaptive DEF adaptiveVars
<1> QED
  BY <1>1, <1>2, <1>3, <1>4 DEF A!Next

\* update_engine_state: whatever targets came before, the zones hold exactly
\* the trips of the current target or of the default table, and the EC zones
\* are guarded if there is either.
THEOREM AdaptiveCorrect == DaemonSpec => []InstalledAgrees
<1>1. DaemonInit => AdaptiveInv
  BY AdaptiveInvInit DEF DaemonInit, AdaptiveRests
<1>2. [DaemonNext]_daemonVars => [A!Next]_adaptiveVars
  BY DEF DaemonNext, daemonVars
<1>3. AdaptiveInv /\ [DaemonNext]_daemonVars => AdaptiveInv'
  BY <1>2, AdaptiveInvStep
<1>4. AdaptiveInv => InstalledAgrees
  BY DEF AdaptiveInv, InstalledAgrees
<1> QED
  BY <1>1, <1>3, <1>4, PTL DEF DaemonSpec
=============================================================================
