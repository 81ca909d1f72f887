-------------------------- MODULE SensorProxy_proof --------------------------
(***************************************************************************)
(* The safety properties of the sensor daemon, for any sensor types,       *)
(* clients, values and kinds of driver.  None of them is inductive on its  *)
(* own: a Claim that returns at once is right only because the clients     *)
(* before it have a reading or are known to be waiting for one, so the     *)
(* invariant says when a claimed sensor may be without a reading.          *)
(***************************************************************************)
EXTENDS SensorProxy, TLAPS

Records ==
  [present : BOOLEAN, kind : Kinds, polling : BOOLEAN,
   clients : SUBSET Clients, delayed : SUBSET Clients, event_delayed : BOOLEAN,
   previous : Values, fresh : BOOLEAN,
   view : [Clients -> Values \cup {NoSensor, Unknown}]]

\* What holds of one sensor's record, its polling aside.  The third and the
\* last conjunct are the strengthening: a claimed sensor without a reading has
\* somebody waiting for it, and a client that was told nothing waits.
Sound(r) ==
  /\ ~r.present => ~r.event_delayed /\ r.delayed = {}
  /\ r.present /\ ~r.event_delayed /\ Informed(r) \ r.delayed # {} => r.fresh
  /\ r.present /\ r.clients # {} /\ r.delayed = {} /\ ~r.event_delayed => r.fresh
  /\ \A c \in Informed(r) :
       ~r.event_delayed => r.view[c] = IF r.present THEN r.previous ELSE NoSensor
  /\ \A c \in r.clients : r.view[c] = Unknown => c \in r.delayed

Polled(r) == r.polling <=> r.present /\ (lazy => r.clients # {})

ProxyInv ==
  /\ up \in {"starting", "running", "stopped"} /\ lazy \in BOOLEAN
  /\ up = "starting" => sensor = [t \in Types |-> Blank]
  /\ sensor \in [Types -> Records]
  /\ \A t \in Types : Sound(sensor[t]) /\ Polled(sensor[t])

-----------------------------------------------------------------------------
(* What the handlers do to one sensor's record *)

\* The record of a type without a driver.
LEMMA BlankSound == Blank \in Records /\ Sound(Blank) /\ Polled(Blank)
<1>1. AnyKind \in Kinds /\ (CHOOSE v \in Values : TRUE) \in Values
  BY ConstAssumption DEF AnyKind
<1>2. Blank \in Records
  BY <1>1 DEF Blank, Records
<1>3. Informed(Blank) = {}
  BY DEF Informed, Blank
<1> QED
  BY <1>2, <1>3 DEF Sound, Polled, Blank

\* A reading answers everybody who waits and leaves the others right.
LEMMA ChangedSound ==
  ASSUME NEW r \in Records, r.present, Sound(r), NEW v \in Values
  PROVE  LET q == Changed(r, v)
         IN /\ q \in Records /\ Sound(q)
            /\ q.present /\ q.polling = r.polling /\ q.clients = r.clients
<1> DEFINE q == Changed(r, v)
           w == [c \in Clients |->
                   IF /\ c \in r.clients
                      /\ c \in r.delayed \/ v # r.previous \/ r.event_delayed
                   THEN v ELSE r.view[c]]
<1>1. w \in [Clients -> Values \cup {NoSensor, Unknown}]
  BY DEF Records
<1>2. q \in Records
  BY <1>1 DEF Records, Changed
<1>3. /\ q.present = r.present /\ q.polling = r.polling /\ q.clients = r.clients
      /\ q.previous = v /\ q.fresh = TRUE /\ q.event_delayed = FALSE
      /\ q.delayed = {} /\ q.view = w
  BY DEF Records, Changed
<1>4. ASSUME NEW c \in Informed(q) PROVE q.view[c] = v
  <2>1. c \in r.clients /\ c \in Clients /\ w[c] # Unknown
    BY <1>3, <1>4 DEF Informed, Records
  <2>2. CASE c \in r.delayed \/ v # r.previous \/ r.event_delayed
    BY <2>1, <2>2, <1>3
  <2>3. CASE ~(c \in r.delayed \/ v # r.previous \/ r.event_delayed)
    BY <2>1, <2>3, <1>3 DEF Informed, Sound
  <2> QED
    BY <2>2, <2>3
<1>5. ASSUME NEW c \in r.clients PROVE q.view[c] # Unknown
  <2>1. c \in Clients /\ v # Unknown
    BY ConstAssumption DEF Records
  <2>2. r.view[c] = Unknown => c \in r.delayed
    BY DEF Sound
  <2> QED
    BY <1>3, <2>1, <2>2
<1> QED
  BY <1>2, <1>3, <1>4, <1>5 DEF Sound

\* driver_set_polling(TRUE) on a present sensor, whatever the driver does.
LEMMA StartPollingSound ==
  ASSUME NEW r \in Records, r.present, Sound(r),
         r.polling \/ r.event_delayed \/ r.clients = {}
           \/ (r.delayed # {} /\ Informed(r) = {}),
         NEW q \in StartPolling(r)
  PROVE  q \in Records /\ Sound(q) /\ q.present /\ q.polling /\ q.clients = r.clients
<1> DEFINE p == Polling(r)
<1>1. /\ p \in Records /\ p.present /\ p.polling /\ p.clients = r.clients
      /\ p.delayed = r.delayed /\ p.event_delayed = r.event_delayed
      /\ p.previous = r.previous /\ p.view = r.view
      /\ p.fresh = (r.polling /\ r.fresh)
  BY DEF Polling, Records
<1>2. Informed(p) = Informed(r) /\ (r.clients = {} => Informed(r) = {})
  BY <1>1 DEF Informed
<1>3. Sound(p)
  BY <1>1, <1>2 DEF Sound
<1>4. ASSUME NEW v \in Values, q = Changed(p, v)
      PROVE  q \in Records /\ Sound(q) /\ q.present /\ q.polling /\ q.clients = r.clients
  BY <1>1, <1>3, <1>4, ChangedSound
<1>5. r.kind \in {"mxc", "poll", "event"}
  BY ConstAssumption DEF Records
<1>6. \/ r.polling /\ q = r
      \/ q = p
      \/ \E v \in Values : q = Changed(p, v)
  <2>1. CASE r.kind = "mxc"
    BY <2>1 DEF StartPolling
  <2>2. CASE r.kind # "mxc" /\ r.polling
    BY <2>2 DEF StartPolling
  <2>3. CASE r.kind = "poll" /\ ~r.polling
    BY <2>3 DEF StartPolling
  <2>4. CASE r.kind = "event" /\ ~r.polling
    BY <2>4 DEF StartPolling
  <2> QED
    BY <1>5, <2>1, <2>2, <2>3, <2>4 DEF Records
<1> QED
  BY <1>1, <1>3, <1>4, <1>6

\* A Claim of a client that is in the table already.
LEMMA ClaimedAgainSound ==
  ASSUME NEW r \in Records, Sound(r), Polled(r), NEW c \in r.clients
  PROVE  LET q == Reply(r, c) IN q \in Records /\ Sound(q) /\ Polled(q)
<1> DEFINE look == IF r.present THEN r.previous ELSE NoSensor
           q == Reply(r, c)
<1>1. c \in Clients /\ look \in Values \cup {NoSensor} /\ look # Unknown
  BY ConstAssumption DEF Records
<1>2. /\ q \in Records /\ q.present = r.present /\ q.polling = r.polling
      /\ q.clients = r.clients /\ q.delayed = r.delayed
      /\ q.event_delayed = r.event_delayed /\ q.previous = r.previous
      /\ q.fresh = r.fresh /\ q.view = [r.view EXCEPT ![c] = look]
  BY <1>1 DEF Records, Reply
<1> HIDE DEF q
<1>3. /\ q.view[c] = look
      /\ \A e \in r.clients : e # c => q.view[e] = r.view[e]
  BY <1>1, <1>2 DEF Records
<1>4. \A e \in Informed(q) : e = c \/ (e \in Informed(r) /\ q.view[e] = r.view[e])
  BY <1>2, <1>3 DEF Informed
<1>5. c \notin r.delayed => c \in Informed(r)
  BY DEF Sound, Informed
<1>6. Informed(q) \ q.delayed # {} => Informed(r) \ r.delayed # {}
  BY <1>2, <1>4, <1>5
<1>7. Sound(q)
  BY <1>1, <1>2, <1>3, <1>4, <1>6 DEF Sound
<1> QED
  BY <1>2, <1>7 DEF Polled, q

\* A Claim of a client that has none.
LEMMA ClaimedSound ==
  ASSUME NEW r \in Records, Sound(r), Polled(r),
         NEW c \in Clients, c \notin r.clients, NEW q \in Claimed(r, c)
  PROVE  q \in Records /\ Sound(q) /\ Polled(q)
<1> DEFINE in == [r EXCEPT !.clients = @ \cup {c}, !.view[c] = Unknown]
           d == Delay(in, c)
<1>1. /\ in \in Records /\ in.present = r.present /\ in.polling = r.polling
      /\ in.clients = r.clients \cup {c} /\ in.delayed = r.delayed
      /\ in.event_delayed = r.event_delayed /\ in.previous = r.previous
      /\ in.fresh = r.fresh /\ in.view = [r.view EXCEPT ![c] = Unknown]
  BY DEF Records
<1>2. Informed(in) = Informed(r)
  BY <1>1 DEF Informed, Records
<1>3. /\ d \in Records /\ d.present = in.present /\ d.polling = in.polling
      /\ d.clients = in.clients /\ d.delayed = in.delayed \cup {c}
      /\ d.event_delayed = in.event_delayed /\ d.previous = in.previous
      /\ d.fresh = in.fresh /\ d.view = in.view
  BY <1>1 DEF Records, Delay
<1>4. Informed(d) = Informed(r)
  BY <1>2, <1>3 DEF Informed
<1>5. r.present => Sound(d)
  <2>1. \A e \in Informed(r) : d.view[e] = r.view[e]
    BY <1>1, <1>3 DEF Informed, Records
  <2>2. \A e \in d.clients : d.view[e] = Unknown => e \in d.delayed
    <3>1. \A e \in d.clients : e = c \/ (e \in r.clients /\ d.view[e] = r.view[e])
      BY <1>1, <1>3 DEF Records
    <3> QED
      BY <1>1, <1>3, <3>1 DEF Sound
  <2> QED
    BY <1>1, <1>3, <1>4, <2>1, <2>2 DEF Sound
<1> HIDE DEF in, d
<1>6. ASSUME ~in.present \/ (in.delayed = {} /\ ~in.event_delayed /\ in.clients # {c}),
             q = Reply(in, c)
      PROVE  q \in Records /\ Sound(q) /\ Polled(q)
  <2> DEFINE look == IF in.present THEN in.previous ELSE NoSensor
  <2>1. /\ q \in Records /\ q.present = in.present /\ q.polling = in.polling
        /\ q.clients = in.clients /\ q.delayed = in.delayed
        /\ q.event_delayed = in.event_delayed /\ q.previous = in.previous
        /\ q.fresh = in.fresh /\ q.view = [in.view EXCEPT ![c] = look]
    BY <1>1, <1>6 DEF Records, Reply
  <2>2. \A e \in Informed(q) : e = c \/ (e \in Informed(r) /\ q.view[e] = r.view[e])
    BY <2>1, <1>1 DEF Informed, Records
  <2>3. q.view[c] = look
    BY <2>1, <1>1 DEF Records
  <2>4. Polled(q)
    BY <2>1, <1>1, <1>6 DEF Polled
  <2>5. q.present => r.clients # {} /\ q.fresh
    BY <2>1, <1>1, <1>6 DEF Sound
  <2>6. look # Unknown
    BY <1>1, ConstAssumption DEF Records
  <2>7. \A e \in q.clients : q.view[e] = Unknown => e \in q.delayed
    <3>1. \A e \in q.clients : e = c \/ (e \in r.clients /\ q.view[e] = r.view[e])
      BY <1>1, <2>1 DEF Records
    <3> QED
      BY <1>1, <2>1, <2>3, <2>6, <3>1 DEF Sound
  <2> QED
    BY <2>1, <2>2, <2>3, <2>4, <2>5, <2>7, <1>1 DEF Sound
<1>7. ASSUME in.present, in.clients = {c}, q \in StartPolling(d)
      PROVE  q \in Records /\ Sound(q) /\ Polled(q)
  <2>1. r.clients = {} /\ Informed(d) = {}
    BY <1>1, <1>4, <1>7 DEF Informed
  <2>2. q \in Records /\ Sound(q) /\ q.present /\ q.polling /\ q.clients = d.clients
    BY <1>1, <1>3, <1>5, <1>7, <2>1, StartPollingSound
  <2> QED
    BY <2>2, <1>3, <1>7 DEF Polled
<1>8. ASSUME in.present, in.clients # {c}, q = d
      PROVE  q \in Records /\ Sound(q) /\ Polled(q)
  BY <1>1, <1>3, <1>5, <1>8 DEF Polled
<1> QED
  BY <1>6, <1>7, <1>8 DEF Claimed, in, d

\* client_release, also of a client that has no claim.
LEMMA ReleasedSound ==
  ASSUME NEW r \in Records, Sound(r), Polled(r), NEW c \in Clients
  PROVE  LET q == Released(r, c) IN q \in Records /\ Sound(q) /\ Polled(q)
<1> DEFINE out == [r EXCEPT !.clients = @ \ {c}, !.view[c] = Unknown]
           s == StopPolling(out)
<1>1. /\ out \in Records /\ out.present = r.present /\ out.polling = r.polling
      /\ out.clients = r.clients \ {c} /\ out.delayed = r.delayed
      /\ out.event_delayed = r.event_delayed /\ out.previous = r.previous
      /\ out.fresh = r.fresh /\ out.view = [r.view EXCEPT ![c] = Unknown]
  BY DEF Records
<1>2. /\ s \in Records /\ s.present = out.present /\ s.polling = FALSE
      /\ s.clients = out.clients /\ s.delayed = out.delayed
      /\ s.event_delayed = out.event_delayed /\ s.previous = out.previous
      /\ s.fresh = FALSE /\ s.view = out.view
  BY <1>1 DEF Records, StopPolling
<1>3. \A e \in Informed(out) : e \in Informed(r) /\ out.view[e] = r.view[e]
  BY <1>1 DEF Informed, Records
<1>4. Sound(out)
  BY <1>1, <1>3 DEF Sound
<1>5. out.clients = {} => Sound(s)
  <2>1. out.clients = {} => Informed(s) = {}
    BY <1>2 DEF Informed
  <2> QED
    BY <1>2, <1>4, <2>1 DEF Sound
<1> HIDE DEF out, s
<1>6. CASE c \in r.clients /\ lazy /\ r.present /\ out.clients = {}
  <2>1. Released(r, c) = s
    BY <1>6 DEF Released, out, s
  <2> QED
    BY <1>2, <1>5, <1>6, <2>1 DEF Polled
<1>7. CASE ~(c \in r.clients /\ lazy /\ r.present /\ out.clients = {})
  <2>1. Released(r, c) = out
    BY <1>7 DEF Released, out
  <2>2. Polled(out)
    BY <1>1, <1>7 DEF Polled
  <2> QED
    BY <1>1, <1>4, <2>1, <2>2
<1> QED
  BY <1>6, <1>7

\* The removal of a sensor.
LEMMA RemovedSound ==
  ASSUME NEW r \in Records
  PROVE  LET q == Removed(r) IN q \in Records /\ Sound(q) /\ Polled(q)
<1> DEFINE q == Removed(r)
<1>1. AnyKind \in Kinds
  BY ConstAssumption DEF AnyKind
<1>2. /\ q \in Records /\ q.present = FALSE /\ q.polling = FALSE /\ q.clients = {}
      /\ q.delayed = {} /\ q.event_delayed = FALSE
  BY <1>1 DEF Removed, StopPolling, Records
<1> QED
  BY <1>2 DEF Sound, Polled, Informed

\* A sensor that was not there, when its device has been opened.
LEMMA OpenedFields ==
  ASSUME NEW r \in Records, NEW k \in Kinds
  PROVE  LET q == Opened(r, k)
         IN /\ q \in Records /\ q.present = TRUE /\ q.polling = FALSE
            /\ q.clients = r.clients /\ q.delayed = r.delayed
            /\ q.event_delayed = r.event_delayed /\ q.view = r.view
BY DEF Opened, Records

\* A sensor that appears at startup or while nobody waits for it.
LEMMA OpenedSound ==
  ASSUME NEW r \in Records, Sound(r), ~r.present, r.clients = {}, NEW k \in Kinds,
         NEW q \in IF lazy THEN {Opened(r, k)} ELSE StartPolling(Opened(r, k))
  PROVE  q \in Records /\ Sound(q) /\ Polled(q)
<1> DEFINE o == Opened(r, k)
<1>0. r.delayed = {} /\ ~r.event_delayed
  BY DEF Sound
<1>1. /\ o \in Records /\ o.present = TRUE /\ o.polling = FALSE /\ o.clients = {}
      /\ o.delayed = {} /\ ~o.event_delayed
  BY <1>0, OpenedFields
<1>2. Informed(o) = {}
  BY <1>1 DEF Informed
<1>3. Sound(o)
  BY <1>1, <1>2 DEF Sound
<1> HIDE DEF o
<1>4. CASE lazy
  BY <1>1, <1>3, <1>4 DEF Polled, o
<1>5. CASE ~lazy
  <2>1. q \in StartPolling(o)
    BY <1>5 DEF o
  <2> QED
    BY <1>1, <1>3, <1>5, <2>1, StartPollingSound DEF Polled
<1> QED
  BY <1>4, <1>5

\* A sensor that is plugged in.
LEMMA AddedSound ==
  ASSUME NEW r \in Records, Sound(r), ~r.present, NEW k \in Kinds, NEW q \in Added(r, k)
  PROVE  q \in Records /\ Sound(q) /\ Polled(q)
<1>1. CASE r.clients = {}
  <2>1. q \in IF lazy THEN {Opened(r, k)} ELSE StartPolling(Opened(r, k))
    BY <1>1 DEF Added
  <2> QED
    BY <1>1, <2>1, OpenedSound
<1>2. CASE r.clients # {}
  <2> DEFINE o == Opened(r, k)
             e == [o EXCEPT !.event_delayed = TRUE]
  <2>1. /\ o \in Records /\ o.present = TRUE /\ o.clients = r.clients
        /\ o.view = r.view /\ o.delayed = r.delayed
    BY OpenedFields
  <2> HIDE DEF o
  <2>2. /\ e \in Records /\ e.present = TRUE /\ e.clients = r.clients
        /\ e.event_delayed = TRUE /\ e.view = r.view /\ e.delayed = r.delayed
    BY <2>1 DEF Records
  <2>3. Sound(e)
    BY <2>2 DEF Sound
  <2>4. q \in StartPolling(e)
    BY <1>2 DEF Added, o
  <2> QED
    BY <1>2, <2>2, <2>3, <2>4, StartPollingSound DEF Polled
<1> QED
  BY <1>1, <1>2

-----------------------------------------------------------------------------
(* The invariant *)

\* The daemon starts with no sensors.
LEMMA ProxyInitInv == Init => ProxyInv
BY BlankSound DEF Init, ProxyInv

\* A step that replaces the record of one sensor.
LEMMA OneRecord ==
  ASSUME ProxyInv, up = "running", UNCHANGED <<up, lazy>>,
         NEW t \in Types, NEW q \in Records, Sound(q), Polled(q),
         sensor' = [sensor EXCEPT ![t] = q]
  PROVE  ProxyInv'
<1>1. sensor' \in [Types -> Records]
  BY DEF ProxyInv
<1>2. ASSUME NEW u \in Types PROVE Sound(sensor[u])' /\ Polled(sensor[u])'
  <2>1. CASE u = t
    <3>1. sensor'[u] = q
      BY <2>1 DEF ProxyInv
    <3> QED
      BY <3>1 DEF Sound, Polled, Informed
  <2>2. CASE u # t
    <3>1. sensor'[u] = sensor[u] /\ Sound(sensor[u]) /\ Polled(sensor[u])
      BY <2>2 DEF ProxyInv
    <3> QED
      BY <3>1 DEF Sound, Polled, Informed
  <2> QED
    BY <2>1, <2>2
<1> QED
  BY <1>1, <1>2 DEF ProxyInv

\* A step that replaces the records of all sensors.
LEMMA AllRecords ==
  ASSUME NEW f \in [Types -> Records], sensor' = f, UNCHANGED lazy,
         ProxyInv, up' \in {"running", "stopped"},
         \A t \in Types : Sound(f[t]) /\ Polled(f[t])
  PROVE  ProxyInv'
<1>1. ASSUME NEW t \in Types PROVE Sound(sensor[t])' /\ Polled(sensor[t])'
  <2>1. sensor'[t] = f[t] /\ Sound(f[t]) /\ Polled(f[t])
    OBVIOUS
  <2> QED
    BY <2>1 DEF Sound, Polled, Informed
<1> QED
  BY <1>1 DEF ProxyInv

\* Every step keeps the invariant.
LEMMA ProxyNextInv == ProxyInv /\ [Next]_vars => ProxyInv'
<1> SUFFICES ASSUME ProxyInv, [Next]_vars PROVE ProxyInv'
  OBVIOUS
<1>1. ASSUME NEW t \in Types, NEW c \in Clients, Claim(t, c) PROVE ProxyInv'
  <2>1. PICK q \in Claimed(sensor[t], c) : sensor' = [sensor EXCEPT ![t] = q]
    BY <1>1 DEF Claim
  <2>2. ASSUME c \in sensor[t].clients PROVE q \in Records /\ Sound(q) /\ Polled(q)
    <3>1. q = Reply(sensor[t], c)
      BY <2>2 DEF Claimed
    <3> QED
      BY <2>2, <3>1, ClaimedAgainSound DEF ProxyInv
  <2>3. ASSUME c \notin sensor[t].clients PROVE q \in Records /\ Sound(q) /\ Polled(q)
    BY <2>3, ClaimedSound DEF ProxyInv
  <2>4. q \in Records /\ Sound(q) /\ Polled(q)
    BY <2>2, <2>3
  <2> QED
    BY <1>1, <2>1, <2>4, OneRecord DEF Claim
<1>2. ASSUME NEW t \in Types, NEW c \in Clients, Release(t, c) PROVE ProxyInv'
  <2> DEFINE q == Released(sensor[t], c)
  <2>1. q \in Records /\ Sound(q) /\ Polled(q)
    BY ReleasedSound DEF ProxyInv
  <2>2. sensor' = [sensor EXCEPT ![t] = q]
    BY <1>2 DEF Release
  <2> HIDE DEF q
  <2> QED
    BY <1>2, <2>1, <2>2, OneRecord DEF Release
<1>3. ASSUME NEW c \in Clients, Vanish(c) PROVE ProxyInv'
  <2> DEFINE f == [t \in Types |-> Released(sensor[t], c)]
  <2>1. \A t \in Types : f[t] \in Records /\ Sound(f[t]) /\ Polled(f[t])
    BY ReleasedSound DEF ProxyInv
  <2>2. f \in [Types -> Records]
    BY <2>1
  <2>3. sensor' = f /\ UNCHANGED lazy /\ up' = "running"
    BY <1>3 DEF Vanish
  <2> HIDE DEF f
  <2> QED
    BY <2>1, <2>2, <2>3, AllRecords
<1>4. ASSUME NEW gone \in SUBSET Types, HotRemove(gone) PROVE ProxyInv'
  <2> DEFINE f == [t \in Types |-> IF t \in gone THEN Removed(sensor[t]) ELSE sensor[t]]
  <2>1. \A t \in Types : f[t] \in Records /\ Sound(f[t]) /\ Polled(f[t])
    BY RemovedSound DEF ProxyInv
  <2>2. f \in [Types -> Records]
    BY <2>1
  <2>3. sensor' = f /\ UNCHANGED lazy /\ up' \in {"running", "stopped"}
    BY <1>4 DEF HotRemove
  <2> HIDE DEF f
  <2> QED
    BY <2>1, <2>2, <2>3, AllRecords
<1>5. ASSUME NEW t \in Types, NEW k \in Kinds, HotAdd(t, k) PROVE ProxyInv'
  <2>1. PICK q \in Added(sensor[t], k) : sensor' = [sensor EXCEPT ![t] = q]
    BY <1>5 DEF HotAdd
  <2>2. q \in Records /\ Sound(q) /\ Polled(q)
    BY <1>5, AddedSound DEF HotAdd, ProxyInv
  <2> QED
    BY <1>5, <2>1, <2>2, OneRecord DEF HotAdd
<1>6. ASSUME NEW t \in Types, Reading(t) PROVE ProxyInv'
  <2>1. PICK v \in Values : sensor' = [sensor EXCEPT ![t] = Changed(sensor[t], v)]
    BY <1>6 DEF Reading
  <2> DEFINE q == Changed(sensor[t], v)
  <2>2. /\ q \in Records /\ Sound(q) /\ q.present
        /\ q.polling = sensor[t].polling /\ q.clients = sensor[t].clients
    BY <1>6, ChangedSound DEF Reading, ProxyInv
  <2> HIDE DEF q
  <2>3. Polled(q)
    BY <1>6, <2>2 DEF Reading, ProxyInv, Polled
  <2>4. sensor' = [sensor EXCEPT ![t] = q]
    BY <2>1 DEF q
  <2> QED
    BY <1>6, <2>2, <2>3, <2>4, OneRecord DEF Reading
<1>7. CASE NameAcquired
  <2>1. ASSUME NEW t \in Types, NEW q \in AtStartup(sensor[t])
        PROVE  q \in Records /\ Sound(q) /\ Polled(q)
    <3>1. sensor[t] = Blank
      BY <1>7 DEF NameAcquired, ProxyInv
    <3>2. ~Blank.present /\ Blank.clients = {}
      BY DEF Blank
    <3>3. CASE q = Blank
      BY <3>3, BlankSound
    <3>4. ASSUME NEW k \in Kinds,
                 q \in IF lazy THEN {Opened(Blank, k)} ELSE StartPolling(Opened(Blank, k))
          PROVE  q \in Records /\ Sound(q) /\ Polled(q)
      BY <3>2, <3>4, BlankSound, OpenedSound
    <3> QED
      BY <2>1, <3>1, <3>3, <3>4 DEF AtStartup
  <2>2. \A t \in Types : sensor'[t] \in UNION {AtStartup(sensor[u]) : u \in Types}
    BY <1>7 DEF NameAcquired
  <2>3. \A t \in Types : sensor'[t] \in Records /\ Sound(sensor'[t]) /\ Polled(sensor'[t])
    BY <2>1, <2>2
  <2>4. sensor' \in [Types -> Records]
    BY <1>7, <2>3 DEF NameAcquired
  <2>5. UNCHANGED lazy /\ up' \in {"running", "stopped"}
    BY <1>7 DEF NameAcquired
  <2> QED
    BY <2>3, <2>4, <2>5, AllRecords
<1>8. CASE Terminate
  <2> DEFINE f == [t \in Types |-> Removed(sensor[t])]
  <2>1. \A t \in Types : f[t] \in Records /\ Sound(f[t]) /\ Polled(f[t])
    BY RemovedSound DEF ProxyInv
  <2>2. f \in [Types -> Records]
    BY <2>1
  <2>3. sensor' = f /\ UNCHANGED lazy /\ up' = "stopped"
    BY <1>8 DEF Terminate
  <2> HIDE DEF f
  <2> QED
    BY <2>1, <2>2, <2>3, AllRecords
<1>9. CASE UNCHANGED vars
  BY <1>9 DEF vars, ProxyInv, Sound, Polled, Informed
<1> QED
  BY <1>1, <1>2, <1>3, <1>4, <1>5, <1>6, <1>7, <1>8, <1>9 DEF Next

\* The invariant holds in every state of the daemon.
THEOREM ProxyInvariant == Spec => []ProxyInv
BY ProxyInitInv, ProxyNextInv, PTL DEF Spec

\* The assertion of sensor_changes and free_sensor_data: no Has* event, no
\* Claim reply and no timer is pending for a sensor that is gone.
THEOREM AbsentIsIdle == Spec => []NothingDelayedWhenAbsent
<1>1. ProxyInv => NothingDelayedWhenAbsent
  BY DEF ProxyInv, Sound, Polled, NothingDelayedWhenAbsent
<1> QED
  BY <1>1, ProxyInvariant, PTL

\* The calls to driver_set_polling keep step with claims, releases and
\* hotplug events, with and without --lazy.
THEOREM PollingIsWanted == Spec => []PolledWhenWanted
<1>1. ProxyInv => PolledWhenWanted
  BY DEF ProxyInv, Polled, PolledWhenWanted
<1> QED
  BY <1>1, ProxyInvariant, PTL

\* handle_generic_method_call returns a Claim only with a reading.
THEOREM ReadingBeforeReply == Spec => []ClaimedHaveReading
<1>1. ProxyInv => ClaimedHaveReading
  BY DEF ProxyInv, Sound, ClaimedHaveReading
<1> QED
  BY <1>1, ProxyInvariant, PTL

\* The *_changed_func callbacks leave no client with an old value.
THEOREM ClientsUpToDate == Spec => []ViewsCurrent
<1>1. ProxyInv => ViewsCurrent
  BY DEF ProxyInv, Sound, ViewsCurrent
<1> QED
  BY <1>1, ProxyInvariant, PTL
=============================================================================
