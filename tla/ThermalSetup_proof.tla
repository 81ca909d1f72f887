-------------------------- MODULE ThermalSetup_proof --------------------------
(***************************************************************************)
(* Proofs about ThermalSetup, for every machine, every configuration and    *)
(* every sequence of requests: the trips of all zones are reachable, and a  *)
(* daemon that stops leaves the kernel's trips as the firmware set them.    *)
(*                                                                         *)
(* The argument goes from the operators to the steps.  Lists and the        *)
(* selection and sorting of their elements come first, then what a well     *)
(* formed trip and zone are and that every operator that makes or changes   *)
(* one keeps it so (Builds), then what a step that removes nothing does to  *)
(* the engine's vectors (Growing), and last the two inductive invariants.   *)
(***************************************************************************)
EXTENDS ThermalSetup, FiniteSetTheorems, SequenceTheorems, WellFoundedInduction, TLAPS

-----------------------------------------------------------------------------
(* Lists.                                                                   *)

IsList(s) == s \in Seq({s[i] : i \in DOMAIN s})

\* A list is a function on 1..n.
LEMMA ListDom ==
    ASSUME NEW s, IsList(s)
    PROVE  Len(s) \in Nat /\ DOMAIN s = 1..Len(s) /\ s = [i \in 1..Len(s) |-> s[i]]
BY DEF IsList

\* A function on 1..n is a list of length n.
LEMMA ListMade ==
    ASSUME NEW n \in Nat, NEW s, s = [i \in 1..n |-> s[i]]
    PROVE  IsList(s) /\ Len(s) = n
<1> DEFINE T == {s[i] : i \in DOMAIN s}
<1>1. DOMAIN s = 1..n
  OBVIOUS
<1>2. s \in [1..n -> T]
  BY <1>1
<1>3. s \in Seq(T)
  BY <1>2
<1> QED
  BY <1>1, <1>3 DEF IsList

\* A sequence over any set is a list.
LEMMA ListOf ==
    ASSUME NEW T, NEW s \in Seq(T)
    PROVE  IsList(s)
<1>1. Len(s) \in Nat /\ s \in [1..Len(s) -> T]
  OBVIOUS
<1>2. s = [i \in 1..Len(s) |-> s[i]]
  BY <1>1
<1> QED
  BY <1>1, <1>2, ListMade

\* An empty vector is a list without positions.
LEMMA ListEmpty == IsList(<<>>) /\ DOMAIN <<>> = {} /\ Len(<<>>) = 0
BY DEF IsList

\* A vector of one element.
LEMMA ListOne ==
    ASSUME NEW e
    PROVE  IsList(<<e>>) /\ DOMAIN <<e>> = {1} /\ Len(<<e>>) = 1 /\ <<e>>[1] = e
<1>1. <<e>> \in Seq({e})
  OBVIOUS
<1> QED
  BY <1>1 DEF IsList

\* push_back keeps every element in its place and puts the new one at the end.
LEMMA ListAppend ==
    ASSUME NEW s, NEW e, IsList(s)
    PROVE  /\ IsList(Append(s, e)) /\ Len(Append(s, e)) = Len(s) + 1
           /\ DOMAIN Append(s, e) = 1..(Len(s) + 1)
           /\ \A i \in 1..Len(s) : Append(s, e)[i] = s[i]
           /\ Append(s, e)[Len(s) + 1] = e
<1> DEFINE T == {s[i] : i \in DOMAIN s} \cup {e}
<1>1. s \in Seq(T) /\ e \in T
  BY DEF IsList
<1>2. /\ Append(s, e) \in Seq(T) /\ Len(Append(s, e)) = Len(s) + 1
      /\ DOMAIN Append(s, e) = 1..(Len(s) + 1)
      /\ \A i \in 1..Len(s) : Append(s, e)[i] = s[i]
      /\ Append(s, e)[Len(s) + 1] = e
  BY <1>1
<1> QED
  BY <1>2, ListOf

\* The second vector's elements follow the first's.
LEMMA ListCat ==
    ASSUME NEW s, NEW t, IsList(s), IsList(t)
    PROVE  /\ IsList(s \o t) /\ Len(s \o t) = Len(s) + Len(t)
           /\ \A i \in 1..(Len(s) + Len(t)) :
                (s \o t)[i] = IF i <= Len(s) THEN s[i] ELSE t[i - Len(s)]
<1> DEFINE T == {s[i] : i \in DOMAIN s} \cup {t[i] : i \in DOMAIN t}
<1>1. s \in Seq(T) /\ t \in Seq(T)
  BY DEF IsList
<1>2. /\ s \o t \in Seq(T) /\ Len(s \o t) = Len(s) + Len(t)
      /\ \A i \in 1..(Len(s) + Len(t)) :
                (s \o t)[i] = IF i <= Len(s) THEN s[i] ELSE t[i - Len(s)]
  BY <1>1
<1> QED
  BY <1>2, ListOf

\* A function on a list's positions is a list of its length.
LEMMA ListSame ==
    ASSUME NEW s, NEW t, IsList(s), DOMAIN t = DOMAIN s, t = [i \in DOMAIN t |-> t[i]]
    PROVE  IsList(t) /\ Len(t) = Len(s)
BY ListDom, ListMade

\* Erasing position i leaves exactly the elements of the other positions.
LEMMA ListRemove ==
    ASSUME NEW s, IsList(s), NEW i \in DOMAIN s
    PROVE  /\ IsList(RemoveAt(s, i))
           /\ \A j \in DOMAIN RemoveAt(s, i) : \E k \in DOMAIN s : k # i /\ RemoveAt(s, i)[j] = s[k]
           /\ \A k \in DOMAIN s : k # i => \E j \in DOMAIN RemoveAt(s, i) : RemoveAt(s, i)[j] = s[k]
<1> DEFINE T == {s[k] : k \in DOMAIN s}
           l == SubSeq(s, 1, i - 1)
           r == SubSeq(s, i + 1, Len(s))
<1>1. s \in Seq(T) /\ Len(s) \in Nat /\ DOMAIN s = 1..Len(s) /\ i \in 1..Len(s)
  BY DEF IsList
<1>a. \A k \in 1..Len(s) : s[k] \in T
  BY <1>1
<1> HIDE DEF T
<1>2. l \in Seq(T) /\ Len(l) = i - 1 /\ \A k \in 1..(i - 1) : l[k] = s[k]
  <2>1. i - 1 \in Int /\ \A k \in 1..(i - 1) : s[k] \in T
    BY <1>1, <1>a
  <2>2. /\ l \in Seq(T) /\ Len(l) = IF 1 <= i - 1 THEN (i - 1) - 1 + 1 ELSE 0
        /\ \A k \in 1..((i - 1) - 1 + 1) : l[k] = s[1 + k - 1]
    BY <2>1, SubSeqProperties
  <2> HIDE DEF l
  <2> QED
    BY <2>2, <1>1
<1>3. r \in Seq(T) /\ Len(r) = Len(s) - i /\ \A k \in 1..(Len(s) - i) : r[k] = s[k + i]
  <2>1. i + 1 \in Int /\ Len(s) \in Int /\ \A k \in (i + 1)..Len(s) : s[k] \in T
    BY <1>1, <1>a
  <2>2. /\ r \in Seq(T) /\ Len(r) = IF i + 1 <= Len(s) THEN Len(s) - (i + 1) + 1 ELSE 0
        /\ \A k \in 1..(Len(s) - (i + 1) + 1) : r[k] = s[(i + 1) + k - 1]
    BY <2>1, SubSeqProperties
  <2> HIDE DEF r
  <2>3. Len(s) - (i + 1) + 1 = Len(s) - i /\ (i + 1 <= Len(s) \/ Len(s) - i = 0)
    BY <1>1
  <2>4. \A k \in 1..(Len(s) - i) : (i + 1) + k - 1 = k + i
    BY <1>1
  <2>5. \A k \in 1..(Len(s) - i) : r[k] = s[k + i]
    BY <2>2, <2>3, <2>4
  <2> QED
    BY <2>2, <2>3, <2>5
<1>4. RemoveAt(s, i) = l \o r
  BY DEF RemoveAt
<1> HIDE DEF l, r
<1>5. /\ l \o r \in Seq(T) /\ Len(l \o r) = Len(s) - 1
      /\ \A k \in 1..(Len(s) - 1) : (l \o r)[k] = IF k <= i - 1 THEN l[k] ELSE r[k - (i - 1)]
  <2>1. Len(l) + Len(r) = Len(s) - 1
    BY <1>1, <1>2, <1>3
  <2>2. /\ l \o r \in Seq(T) /\ Len(l \o r) = Len(l) + Len(r)
        /\ \A k \in 1..(Len(l) + Len(r)) : (l \o r)[k] = IF k <= Len(l) THEN l[k] ELSE r[k - Len(l)]
    BY <1>2, <1>3, ConcatProperties
  <2> QED
    BY <2>1, <2>2, <1>2
<1>6. DOMAIN (l \o r) = 1..(Len(s) - 1)
  BY <1>5
<1>7. ASSUME NEW k \in 1..(Len(s) - 1) PROVE (l \o r)[k] = IF k < i THEN s[k] ELSE s[k + 1]
  <2>1. CASE k < i
    BY <2>1, <1>1, <1>2, <1>5
  <2>2. CASE ~(k < i)
    <3>1. k - (i - 1) \in 1..(Len(s) - i) /\ (k - (i - 1)) + i = k + 1 /\ ~(k <= i - 1)
      BY <2>2, <1>1
    <3> QED
      BY <2>2, <3>1, <1>3, <1>5
  <2> QED
    BY <2>1, <2>2
<1>8. ASSUME NEW j \in 1..(Len(s) - 1) PROVE \E k \in DOMAIN s : k # i /\ (l \o r)[j] = s[k]
  <2>1. CASE j < i
    <3>1. j \in 1..Len(s) /\ j # i
      BY <2>1, <1>1
    <3>2. (l \o r)[j] = s[j]
      BY <2>1, <1>7
    <3> QED
      BY <3>1, <3>2, <1>1
  <2>2. CASE ~(j < i)
    <3>1. j + 1 \in 1..Len(s) /\ j + 1 # i
      BY <2>2, <1>1
    <3>2. (l \o r)[j] = s[j + 1]
      BY <2>2, <1>7
    <3> QED
      BY <3>1, <3>2, <1>1
  <2> QED
    BY <2>1, <2>2
<1>9. ASSUME NEW k \in DOMAIN s, k # i PROVE \E j \in 1..(Len(s) - 1) : (l \o r)[j] = s[k]
  <2>1. CASE k < i
    BY <2>1, <1>1, <1>7, k \in 1..(Len(s) - 1)
  <2>2. CASE ~(k < i)
    <3>1. k - 1 \in 1..(Len(s) - 1) /\ ~(k - 1 < i) /\ (k - 1) + 1 = k
      BY <2>2, <1>1, <1>9
    <3> QED
      BY <3>1, <1>7
  <2> QED
    BY <2>1, <2>2
<1> QED
  BY <1>4, <1>5, <1>6, <1>8, <1>9, ListOf

-----------------------------------------------------------------------------
(* Choosing the first element, and ranking.                                 *)

\* The first of a set of positions.
LEMMA FirstProp ==
    ASSUME NEW S, S \subseteq Nat
    PROVE  /\ S = {} => FirstIn(S) = 0
           /\ S # {} => FirstIn(S) \in S /\ \A j \in S : FirstIn(S) <= j
<1>1. CASE S = {}
  BY <1>1 DEF FirstIn
<1>2. CASE S # {}
  <2> DEFINE R == OpToRel(<, Nat)
  <2>1. IsWellFoundedOn(R, Nat)
    BY NatLessThanWellFounded
  <2>2. \A x, y \in Nat : x < y => <<x, y>> \in R
    BY DEF OpToRel
  <2> HIDE DEF R
  <2>3. PICK x \in S : \A y \in S : ~(<<y, x>> \in R)
    BY <1>2, <2>1, WFMin
  <2>4. ASSUME NEW y \in S PROVE x <= y
    <3>1. x \in Nat /\ y \in Nat
      OBVIOUS
    <3>2. ~(<<y, x>> \in R)
      BY <2>3
    <3> QED
      BY <3>1, <3>2, <2>2
  <2> QED
    BY <1>2, <2>4 DEF FirstIn
<1> QED
  BY <1>1, <1>2

\* A strict total order ranks the elements of a finite set from 0 upwards.
Rank(S, R, i) == Cardinality({j \in S : <<j, i>> \in R})
Orders(S, R) ==
    /\ \A i \in S : <<i, i>> \notin R
    /\ \A i, j \in S : i # j => <<i, j>> \in R \/ <<j, i>> \in R
    /\ \A i, j, k \in S : <<i, j>> \in R /\ <<j, k>> \in R => <<i, k>> \in R

\* A rank is below the number of elements.
LEMMA RankRange ==
    ASSUME NEW S, IsFiniteSet(S), NEW R, Orders(S, R), NEW i \in S
    PROVE  Rank(S, R, i) \in 0..(Cardinality(S) - 1)
<1> DEFINE L == {j \in S : <<j, i>> \in R}
<1>1. L \subseteq S \ {i}
  BY DEF Orders
<1>2. IsFiniteSet(S \ {i}) /\ Cardinality(S \ {i}) = Cardinality(S) - 1
  BY FS_RemoveElement
<1>3. IsFiniteSet(L) /\ Cardinality(L) <= Cardinality(S) - 1
  <2>1. L \in SUBSET (S \ {i})
    BY <1>1
  <2> HIDE DEF L
  <2>2. IsFiniteSet(L) /\ Cardinality(L) <= Cardinality(S \ {i})
    BY <2>1, <1>2, FS_Subset
  <2> QED
    BY <2>2, <1>2
<1>4. Cardinality(L) \in Nat /\ Cardinality(S) \in Nat
  BY <1>3, FS_CardinalityType
<1> QED
  BY <1>3, <1>4 DEF Rank

\* Of two elements the later one has the greater rank.
LEMMA RankGrows ==
    ASSUME NEW S, IsFiniteSet(S), NEW R, Orders(S, R), NEW i \in S, NEW j \in S, <<i, j>> \in R
    PROVE  Rank(S, R, i) < Rank(S, R, j)
<1> DEFINE L == {k \in S : <<k, i>> \in R}
           M == {k \in S : <<k, j>> \in R}
<1>1. L \subseteq M /\ i \in M /\ i \notin L
  BY DEF Orders
<1>2. IsFiniteSet(M)
  BY FS_Subset, M \subseteq S
<1>3. IsFiniteSet(L) /\ Cardinality(L) <= Cardinality(M) /\ (Cardinality(M) = Cardinality(L) => M = L)
  BY <1>1, <1>2, FS_Subset
<1>4. Cardinality(L) \in Nat /\ Cardinality(M) \in Nat
  BY <1>2, <1>3, FS_CardinalityType
<1>5. Cardinality(M) # Cardinality(L)
  BY <1>1, <1>3
<1>6. Cardinality(L) < Cardinality(M)
  <2> HIDE DEF L, M
  <2> QED
    BY <1>3, <1>4, <1>5
<1> QED
  BY <1>6 DEF Rank

\* Every rank below the number of elements is some element's.
LEMMA RankOnto ==
    ASSUME NEW S, IsFiniteSet(S), NEW R, Orders(S, R), NEW p \in 1..Cardinality(S)
    PROVE  \E i \in S : Rank(S, R, i) = p - 1
<1> DEFINE N == Cardinality(S)
           T == 0..(N - 1)
           f == [i \in S |-> Rank(S, R, i)]
<1>1. N \in Nat
  BY FS_CardinalityType
<1> HIDE DEF N
<1>2. f \in [S -> T]
  BY RankRange DEF N
<1>3. ASSUME NEW i \in S, NEW j \in S, f[i] = f[j] PROVE i = j
  <2>1. f[i] = Rank(S, R, i) /\ f[j] = Rank(S, R, j) /\ f[i] \in Int /\ f[j] \in Int
    BY <1>1, <1>2
  <2>2. ~(<<i, j>> \in R) /\ ~(<<j, i>> \in R)
    BY <2>1, <1>3, RankGrows
  <2> QED
    BY <2>2 DEF Orders
<1>4. f \in Injection(S, T)
  BY <1>2, <1>3 DEF Injection, IsInjective
<1>5. IsFiniteSet(T) /\ Cardinality(T) = N
  BY <1>1, FS_Interval
<1>6. f \in Surjection(S, T)
  BY <1>4, <1>5, FS_Injection DEF N
<1>7. p - 1 \in T
  BY <1>1 DEF N
<1>8. \E i \in S : f[i] = p - 1
  BY <1>6, <1>7 DEF Surjection
<1> QED
  BY <1>8

\* What Ranked picks: its p-th element is that of rank p - 1.
IsRanking(o, s, S, R) ==
    /\ IsList(o) /\ Len(o) = Cardinality(S)
    /\ \A p \in DOMAIN o : \E i \in S : Rank(S, R, i) = p - 1 /\ o[p] = s[i]
    /\ \A i \in S : Rank(S, R, i) + 1 \in DOMAIN o /\ o[Rank(S, R, i) + 1] = s[i]

\* Ranked lists the selected elements in the given order, without repeats.
LEMMA RankedProp ==
    ASSUME NEW s, NEW S, IsFiniteSet(S), NEW R, Orders(S, R)
    PROVE  IsRanking(Ranked(s, S, R), s, S, R)
<1> DEFINE N == Cardinality(S)
           c(p) == CHOOSE i \in S : Rank(S, R, i) = p - 1
<1>1. N \in Nat
  BY FS_CardinalityType
<1>2. Ranked(s, S, R) = [p \in 1..N |-> s[c(p)]]
  BY DEF Ranked, Rank
<1>3. \A p \in 1..N : c(p) \in S /\ Rank(S, R, c(p)) = p - 1
  BY RankOnto
<1>4. ASSUME NEW i \in S PROVE Rank(S, R, i) + 1 \in 1..N /\ c(Rank(S, R, i) + 1) = i
  <2> DEFINE q == Rank(S, R, i) + 1
  <2>1. Rank(S, R, i) \in Int /\ q \in 1..N /\ q - 1 = Rank(S, R, i)
    BY RankRange, <1>1
  <2>2. c(q) \in S /\ Rank(S, R, c(q)) = Rank(S, R, i)
    BY <1>3, <2>1
  <2>3. ~(<<c(q), i>> \in R) /\ ~(<<i, c(q)>> \in R)
    BY <2>1, <2>2, RankGrows
  <2> QED
    BY <2>1, <2>2, <2>3 DEF Orders
<1> HIDE DEF c, N
<1>5. IsList(Ranked(s, S, R)) /\ Len(Ranked(s, S, R)) = N
  BY <1>1, <1>2, ListMade
<1>6. DOMAIN Ranked(s, S, R) = 1..N
  BY <1>2
<1>7. ASSUME NEW p \in 1..N
      PROVE  \E i \in S : Rank(S, R, i) = p - 1 /\ Ranked(s, S, R)[p] = s[i]
  BY <1>2, <1>3
<1>8. ASSUME NEW i \in S PROVE Ranked(s, S, R)[Rank(S, R, i) + 1] = s[i]
  BY <1>2, <1>4
<1> QED
  BY <1>4, <1>5, <1>6, <1>7, <1>8 DEF N, IsRanking

-----------------------------------------------------------------------------
(* Selecting, sorting and finding.                                          *)

\* A selection keeps the order of what it selects.
Selects(o, s, S) ==
    /\ IsList(o)
    /\ \A p \in DOMAIN o : \E i \in S :
         /\ o[p] = s[i]
         /\ \A j \in S : j < i => \E q \in DOMAIN o : q < p /\ o[q] = s[j]
    /\ \A i \in S : \E q \in DOMAIN o : o[q] = s[i]

\* Only keeps the selected elements in the order of the vector.
LEMMA OnlyProp ==
    ASSUME NEW s, NEW S, IsFiniteSet(S), S \subseteq Nat
    PROVE  Selects(Only(s, S), s, S)
<1> DEFINE R == {r \in S \X S : r[1] < r[2]}
           o == Ranked(s, S, R)
<1>1. \A i, j : <<i, j>> \in R <=> i \in S /\ j \in S /\ i < j
  OBVIOUS
<1>2. Orders(S, R)
  <2>1. \A i \in S : ~(i < i)
    OBVIOUS
  <2>2. \A i, j \in S : i # j => i < j \/ j < i
    OBVIOUS
  <2>3. \A i, j, k \in S : i < j /\ j < k => i < k
    OBVIOUS
  <2> HIDE DEF R
  <2> QED
    BY <1>1, <2>1, <2>2, <2>3 DEF Orders
<1>3. Only(s, S) = o
  BY DEF Only
<1> HIDE DEF R
<1>4. /\ IsList(o) /\ Len(o) = Cardinality(S)
      /\ \A p \in DOMAIN o : \E i \in S : Rank(S, R, i) = p - 1 /\ o[p] = s[i]
      /\ \A i \in S : /\ Rank(S, R, i) + 1 \in DOMAIN o
                      /\ o[Rank(S, R, i) + 1] = s[i]
  <2>1. IsRanking(o, s, S, R)
    BY <1>2, RankedProp
  <2> QED
    BY <2>1 DEF IsRanking
<1> HIDE DEF o
<1>5. ASSUME NEW p \in DOMAIN o
      PROVE  \E i \in S : /\ o[p] = s[i]
                          /\ \A j \in S : j < i => \E q \in DOMAIN o : q < p /\ o[q] = s[j]
  <2>1. PICK i \in S : Rank(S, R, i) = p - 1 /\ o[p] = s[i]
    BY <1>4
  <2>2. p \in Nat
    BY <1>4, ListDom
  <2>3. ASSUME NEW j \in S, j < i PROVE \E q \in DOMAIN o : q < p /\ o[q] = s[j]
    <3>1. Rank(S, R, j) < Rank(S, R, i)
      BY <1>1, <1>2, <2>3, RankGrows
    <3>2. Cardinality(S) \in Nat /\ Rank(S, R, j) \in 0..(Cardinality(S) - 1)
      BY <1>2, RankRange, FS_CardinalityType
    <3>3. Rank(S, R, j) + 1 < p
      BY <2>1, <2>2, <3>1, <3>2
    <3> QED
      BY <1>4, <3>3
  <2> QED
    BY <2>1, <2>3
<1>6. \A i \in S : \E q \in DOMAIN o : o[q] = s[i]
  BY <1>4
<1> QED
  BY <1>3, <1>4, <1>5, <1>6 DEF Selects

\* A sorted list is an ascending rearrangement of the trips it is made of.
HasTemps(ts, S) == \A i \in S : ts[i].temp \in Int
Sorts(o, ts, S) ==
    /\ IsList(o) /\ Len(o) = Cardinality(S)
    /\ \A p \in DOMAIN o : \E i \in S : o[p] = ts[i]
    /\ \A i \in S : \E p \in DOMAIN o : o[p] = ts[i]
    /\ \A p, q \in DOMAIN o : p < q => o[p].temp <= o[q].temp

\* Sorting by temperature rearranges the trips it is given.
LEMMA ByTempProp ==
    ASSUME NEW ts, NEW S, IsFiniteSet(S), S \subseteq Nat, HasTemps(ts, S)
    PROVE  Sorts(ByTemp(ts, S), ts, S)
<1> DEFINE R == {r \in S \X S : \/ ts[r[1]].temp < ts[r[2]].temp
                                \/ ts[r[1]].temp = ts[r[2]].temp /\ r[1] < r[2]}
           o == Ranked(ts, S, R)
<1>1. \A i, j : <<i, j>> \in R <=>
                   /\ i \in S /\ j \in S
                   /\ ts[i].temp < ts[j].temp \/ (ts[i].temp = ts[j].temp /\ i < j)
  OBVIOUS
<1> HIDE DEF R
<1>2. Orders(S, R)
  <2>1. \A i \in S : i \in Int /\ ts[i].temp \in Int
    BY DEF HasTemps
  <2>2. \A i \in S : <<i, i>> \notin R
    BY <1>1, <2>1
  <2>3. \A i, j \in S : i # j => <<i, j>> \in R \/ <<j, i>> \in R
    BY <1>1, <2>1
  <2>4. \A i, j, k \in S : <<i, j>> \in R /\ <<j, k>> \in R => <<i, k>> \in R
    BY <1>1, <2>1
  <2> QED
    BY <2>2, <2>3, <2>4 DEF Orders
<1>3. ByTemp(ts, S) = o
  BY DEF ByTemp, R
<1>4. /\ IsList(o) /\ Len(o) = Cardinality(S)
      /\ \A p \in DOMAIN o : \E i \in S : Rank(S, R, i) = p - 1 /\ o[p] = ts[i]
      /\ \A i \in S : /\ Rank(S, R, i) + 1 \in DOMAIN o
                      /\ o[Rank(S, R, i) + 1] = ts[i]
  <2>1. IsRanking(o, ts, S, R)
    BY <1>2, RankedProp
  <2> QED
    BY <2>1 DEF IsRanking
<1> HIDE DEF o
<1>5. ASSUME NEW p \in DOMAIN o, NEW q \in DOMAIN o, p < q PROVE o[p].temp <= o[q].temp
  <2>1. PICK i \in S : Rank(S, R, i) = p - 1 /\ o[p] = ts[i]
    BY <1>4
  <2>2. PICK j \in S : Rank(S, R, j) = q - 1 /\ o[q] = ts[j]
    BY <1>4
  <2>3. p \in Nat /\ q \in Nat
    BY <1>4, ListDom
  <2>4. ~(Rank(S, R, j) < Rank(S, R, i))
    BY <1>5, <2>1, <2>2, <2>3
  <2>5. ~(<<j, i>> \in R)
    BY <2>4, <1>2, RankGrows
  <2>6. ts[i].temp \in Int /\ ts[j].temp \in Int
    BY DEF HasTemps
  <2> QED
    BY <2>1, <2>2, <2>5, <2>6, <1>1
<1>6. /\ \A p \in DOMAIN o : \E i \in S : o[p] = ts[i]
      /\ \A i \in S : \E p \in DOMAIN o : o[p] = ts[i]
  BY <1>4
<1> QED
  BY <1>3, <1>4, <1>5, <1>6 DEF Sorts

\* The lookups give a place in the list, or 0.
LEMMA SensorFound ==
    ASSUME NEW s, IsList(s), NEW n
    PROVE  /\ search_sensor(s, n) # 0 => /\ search_sensor(s, n) \in DOMAIN s
                                         /\ SameName(s[search_sensor(s, n)].name, n)
           /\ \A p \in DOMAIN s : SameName(s[p].name, n) =>
                search_sensor(s, n) # 0 /\ search_sensor(s, n) <= p
<1> DEFINE S == {i \in DOMAIN s : SameName(s[i].name, n)}
<1>1. search_sensor(s, n) = FirstIn(S)
  BY DEF search_sensor, First
<1>2. S \subseteq Nat /\ \A i \in S : i # 0
  BY ListDom
<1>3. /\ S = {} => FirstIn(S) = 0
      /\ S # {} => FirstIn(S) \in S /\ \A j \in S : FirstIn(S) <= j
  BY <1>2, FirstProp
<1> QED
  BY <1>1, <1>2, <1>3

\* search_cdev and thd_get_cdev_at_index find a device of the vector or none.
LEMMA CdevFound ==
    ASSUME NEW s, IsList(s), NEW n
    PROVE  /\ search_cdev(s, n) # 0 => search_cdev(s, n) \in DOMAIN s
           /\ thd_get_cdev_at_index(s, n) # 0 => thd_get_cdev_at_index(s, n) \in DOMAIN s
<1> DEFINE S == {i \in DOMAIN s : s[i].type = n \/ s[i].alias = n}
           T == {i \in DOMAIN s : s[i].index = n}
<1>1. search_cdev(s, n) = FirstIn(S) /\ thd_get_cdev_at_index(s, n) = FirstIn(T)
  BY DEF search_cdev, thd_get_cdev_at_index, First
<1>2. S \subseteq Nat /\ T \subseteq Nat
  BY ListDom
<1>3. (FirstIn(S) = 0 \/ FirstIn(S) \in S) /\ (FirstIn(T) = 0 \/ FirstIn(T) \in T)
  BY <1>2, FirstProp
<1> QED
  BY <1>1, <1>3

\* search_zone and get_zone find a zone of the vector or none.
LEMMA ZoneFound ==
    ASSUME NEW s, IsList(s), NEW n
    PROVE  /\ search_zone(s, n) # 0 => search_zone(s, n) \in DOMAIN s
           /\ get_zone(s, n) # 0 => get_zone(s, n) \in DOMAIN s
<1> DEFINE S == {i \in DOMAIN s : SameName(s[i].type, n)}
           T == {i \in DOMAIN s : s[i].type = n}
<1>1. search_zone(s, n) = FirstIn(S) /\ get_zone(s, n) = FirstIn(T)
  BY DEF search_zone, get_zone, First
<1>2. S \subseteq Nat /\ T \subseteq Nat
  BY ListDom
<1>3. (FirstIn(S) = 0 \/ FirstIn(S) \in S) /\ (FirstIn(T) = 0 \/ FirstIn(T) \in T)
  BY <1>2, FirstProp
<1> QED
  BY <1>1, <1>3

-----------------------------------------------------------------------------
(* Well-formed sensors, trips and zones.                                    *)

SensorFields == {"name", "index", "kind", "async", "links", "polling", "moved"}
ZoneFields == {"type", "index", "kernel", "active", "bound", "trips", "initial", "corelated"}
TripFields == {"type", "temp", "sensor", "cdevs"}
DrivenFields == {"cdev", "influence", "target"}

SensorsOk(s) == IsList(s) /\ \A p \in DOMAIN s : DOMAIN s[p] = SensorFields

DrivenOk(cs, e) == DOMAIN e = DrivenFields /\ e.cdev \in DOMAIN cs
TripOk(s, cs, bound, t) ==
    /\ DOMAIN t = TripFields /\ t.temp \in Int
    /\ t.sensor = AnySensor \/ \E b \in DOMAIN bound : s[bound[b]].index = t.sensor
    /\ \A e \in t.cdevs : DrivenOk(cs, e)
TripsOk(s, cs, bound, ts) == IsList(ts) /\ \A j \in DOMAIN ts : TripOk(s, cs, bound, ts[j])
ZoneOk(s, cs, z) ==
    /\ DOMAIN z = ZoneFields
    /\ IsList(z.bound) /\ \A b \in DOMAIN z.bound : z.bound[b] \in DOMAIN s
    /\ TripsOk(s, cs, z.bound, z.trips)

\* The devices handed to trip_cdev_add: each is there, or 0.
Offered(cs, es) ==
    \A i \in DOMAIN es : DOMAIN es[i] = DrivenFields /\ (es[i].cdev = 0 \/ es[i].cdev \in DOMAIN cs)

\* thd_trip_point_add_cdev keeps a trip well formed when it is offered devices there are.
LEMMA TripAddOk ==
    ASSUME NEW s, NEW cs, NEW bound, NEW t, TripOk(s, cs, bound, t), NEW es, Offered(cs, es)
    PROVE  TripOk(s, cs, bound, trip_cdev_add(cs, t, es))
<1> DEFINE new == {i \in DOMAIN es : es[i].cdev # 0}
           alike(e) == {i \in new : cs[es[i].cdev].type = cs[e.cdev].type}
           first == {i \in new : /\ \A e \in t.cdevs : i \notin alike(e)
                                 /\ \A j \in alike(es[i]) : i <= j}
           latest(e) == IF alike(e) = {} THEN e.influence
                        ELSE es[CHOOSE i \in alike(e) : \A j \in alike(e) : j <= i].influence
           all == t.cdevs \cup {es[i] : i \in first}
           made == {[e EXCEPT !.influence = latest(e)] : e \in all}
<1>1. trip_cdev_add(cs, t, es) = [t EXCEPT !.cdevs = made]
  BY DEF trip_cdev_add
<1>2. \A e \in all : DrivenOk(cs, e)
  BY DEF TripOk, Offered, DrivenOk
<1> HIDE DEF all, latest
<1>3. \A e \in made : DrivenOk(cs, e)
  BY <1>2 DEF DrivenOk, DrivenFields
<1> HIDE DEF made
<1> QED
  BY <1>1, <1>3 DEF TripOk, TripFields

\* The devices named in a zone's trip or in a request are looked up, so each is there or 0.
LEMMA OfferedMade ==
    ASSUME NEW cs, IsList(cs)
    PROVE  /\ \A names : Offered(cs, Named(cs, names))
           /\ \A t : Offered(cs, Asked(cs, t))
           /\ \A p \in DOMAIN cs : Offered(cs, <<Driven(p, 100, NoTarget)>>)
<1>1. ASSUME NEW names PROVE Offered(cs, Named(cs, names))
  BY CdevFound DEF Offered, Named, Each, Driven, DrivenFields
<1>2. ASSUME NEW t PROVE Offered(cs, Asked(cs, t))
  BY CdevFound DEF Offered, Asked, Each, Driven, DrivenFields
<1>3. ASSUME NEW p \in DOMAIN cs PROVE Offered(cs, <<Driven(p, 100, NoTarget)>>)
  BY DEF Offered, Driven, DrivenFields
<1> QED
  BY <1>1, <1>2, <1>3

\* A new trip is well formed if its sensor is one the zone has bound or any.
LEMMA NewTripOk ==
    ASSUME NEW s, NEW cs, NEW bound, NEW type, NEW temp \in Int, NEW index,
           index = AnySensor \/ \E b \in DOMAIN bound : s[bound[b]].index = index
    PROVE  TripOk(s, cs, bound, Trip(type, temp, index))
BY DEF TripOk, Trip, TripFields

\* A zone is well formed when it is made, with no sensor and no trip.
LEMMA NewZoneOk ==
    ASSUME NEW s, NEW cs, NEW type, NEW index, NEW kernel
    PROVE  ZoneOk(s, cs, Zone(type, index, kernel))
BY ListEmpty DEF ZoneOk, Zone, ZoneFields, TripsOk

\* bind_sensor adds the sensor to those bound and changes nothing else of the zone.
LEMMA BindOk ==
    ASSUME NEW s, NEW cs, NEW z, ZoneOk(s, cs, z), NEW p \in DOMAIN s
    PROVE  /\ ZoneOk(s, cs, bind_sensor(z, p))
           /\ \E b \in DOMAIN bind_sensor(z, p).bound : bind_sensor(z, p).bound[b] = p
           /\ \A b \in DOMAIN bind_sensor(z, p).bound :
                bind_sensor(z, p).bound[b] = p
                \/ \E c \in DOMAIN z.bound : bind_sensor(z, p).bound[b] = z.bound[c]
           /\ \A f \in ZoneFields \ {"bound"} : bind_sensor(z, p)[f] = z[f]
<1>1. CASE \E b \in DOMAIN z.bound : z.bound[b] = p
  BY <1>1 DEF bind_sensor
<1>2. CASE ~ \E b \in DOMAIN z.bound : z.bound[b] = p
  <2> DEFINE y == [z EXCEPT !.bound = Append(@, p)]
             n == Len(z.bound)
             a == Append(z.bound, p)
  <2>1. bind_sensor(z, p) = y
    BY <1>2 DEF bind_sensor
  <2>2. DOMAIN z = ZoneFields /\ IsList(z.bound)
    BY DEF ZoneOk
  <2>3. n \in Nat /\ DOMAIN z.bound = 1..n
    BY <2>2, ListDom
  <2>4. /\ IsList(a) /\ DOMAIN a = 1..(n + 1)
        /\ (\A i \in 1..n : a[i] = z.bound[i]) /\ a[n + 1] = p
    BY <2>2, ListAppend
  <2> HIDE DEF a, n
  <2>5. DOMAIN y = ZoneFields /\ y.bound = a /\ \A f \in ZoneFields \ {"bound"} : y[f] = z[f]
    BY <2>2 DEF ZoneFields, a
  <2>6. y.trips = z.trips
    BY <2>5 DEF ZoneFields
  <2> HIDE DEF y
  <2>7. \A b \in DOMAIN z.bound : b \in DOMAIN a /\ a[b] = z.bound[b]
    BY <2>3, <2>4
  <2>8. \A b \in DOMAIN a : a[b] = p \/ \E c \in DOMAIN z.bound : a[b] = z.bound[c]
    BY <2>3, <2>4
  <2>9. \A b \in DOMAIN a : a[b] \in DOMAIN s
    BY <2>8 DEF ZoneOk
  <2>10. ASSUME NEW t, TripOk(s, cs, z.bound, t) PROVE TripOk(s, cs, a, t)
    BY <2>7, <2>10 DEF TripOk
  <2>11. TripsOk(s, cs, a, z.trips)
    BY <2>10 DEF ZoneOk, TripsOk
  <2>12. ZoneOk(s, cs, y)
    BY <2>4, <2>5, <2>6, <2>9, <2>11 DEF ZoneOk
  <2>13. n + 1 \in DOMAIN a
    BY <2>3, <2>4
  <2> QED
    BY <2>1, <2>4, <2>5, <2>8, <2>12, <2>13
<1> QED
  BY <1>1, <1>2

-----------------------------------------------------------------------------
(* Building a zone.                                                         *)

\* A vector has finitely many positions.
LEMMA ListFinite ==
    ASSUME NEW s, IsList(s)
    PROVE  IsFiniteSet(DOMAIN s)
BY ListDom, FS_Interval

\* What building a zone does to it and to the kernel's trips: x and y are [z, k].
IsPair(x) == x = [z |-> x.z, k |-> x.k]
SameZone(y, z) ==
    \A f \in ZoneFields \ {"trips", "active"} : y[f] = z[f]
Polled(s, bound, n) == \E b \in DOMAIN bound : s[bound[b]].kind = "sysfs" /\ s[bound[b]].index = n
WritesPolled(s, bound, k, l) ==
    DOMAIN l = DOMAIN k /\ \A n \in DOMAIN k : l[n] = k[n] \/ Polled(s, bound, n)
Builds(s, cs, x, y) ==
    /\ IsPair(y) /\ ZoneOk(s, cs, y.z) /\ SameZone(y.z, x.z)
    /\ WritesPolled(s, x.z.bound, x.k, y.k)

\* Two ways of building a zone after one another build it.
LEMMA BuildsTrans ==
    ASSUME NEW s, NEW cs, NEW x, NEW y, NEW w, Builds(s, cs, x, y), Builds(s, cs, y, w)
    PROVE  Builds(s, cs, x, w)
<1>1. y.z.bound = x.z.bound
  BY DEF Builds, SameZone, ZoneFields
<1>2. SameZone(w.z, x.z)
  BY DEF Builds, SameZone
<1>3. WritesPolled(s, x.z.bound, x.k, w.k)
  BY <1>1 DEF Builds, WritesPolled
<1> QED
  BY <1>2, <1>3 DEF Builds

\* A zone with other trips.
LEMMA TripsSet ==
    ASSUME NEW s, NEW cs, NEW x, IsPair(x), ZoneOk(s, cs, x.z), NEW ts, TripsOk(s, cs, x.z.bound, ts)
    PROVE  /\ Builds(s, cs, x, [x EXCEPT !.z.trips = ts])
           /\ [x EXCEPT !.z.trips = ts].z.trips = ts
<1> DEFINE z == [x.z EXCEPT !.trips = ts]
           y == [x EXCEPT !.z.trips = ts]
<1>1. y.z = z /\ y.k = x.k /\ IsPair(y)
  BY DEF IsPair
<1>2. DOMAIN z = ZoneFields /\ z.trips = ts /\ \A f \in ZoneFields \ {"trips"} : z[f] = x.z[f]
  BY DEF ZoneOk, ZoneFields
<1> HIDE DEF y, z
<1>3. z.bound = x.z.bound
  BY <1>2 DEF ZoneFields
<1>4. ZoneOk(s, cs, z) /\ SameZone(z, x.z)
  BY <1>2, <1>3 DEF ZoneOk, SameZone
<1>5. Builds(s, cs, x, y)
  BY <1>1, <1>4 DEF Builds, WritesPolled
<1> QED
  BY <1>1, <1>2, <1>5 DEF y

\* A single trip replaced.
LEMMA TripsExcept ==
    ASSUME NEW s, NEW cs, NEW bound, NEW ts, TripsOk(s, cs, bound, ts), NEW j, NEW t,
           TripOk(s, cs, bound, t)
    PROVE  TripsOk(s, cs, bound, [ts EXCEPT ![j] = t])
<1> DEFINE us == [ts EXCEPT ![j] = t]
<1>1. DOMAIN us = DOMAIN ts /\ us = [i \in DOMAIN us |-> us[i]]
  BY ListDom DEF TripsOk
<1>2. \A i \in DOMAIN us : us[i] = t \/ us[i] = ts[i]
  BY ListDom DEF TripsOk
<1> HIDE DEF us
<1>3. IsList(us)
  BY <1>1, ListSame DEF TripsOk
<1>4. TripsOk(s, cs, bound, us)
  BY <1>1, <1>2, <1>3 DEF TripsOk
<1> QED
  BY <1>4 DEF us

\* A trip whose temperature is set stays well formed.
LEMMA TempSet ==
    ASSUME NEW s, NEW cs, NEW bound, NEW t, TripOk(s, cs, bound, t), NEW temp \in Int
    PROVE  TripOk(s, cs, bound, [t EXCEPT !.temp = temp])
<1> DEFINE u == [t EXCEPT !.temp = temp]
<1>1. DOMAIN u = TripFields /\ u.temp = temp /\ u.sensor = t.sensor /\ u.cdevs = t.cdevs
  BY DEF TripOk, TripFields
<1> HIDE DEF u
<1>2. TripOk(s, cs, bound, u)
  BY <1>1 DEF TripOk
<1> QED
  BY <1>2 DEF u

\* sort_and_update_poll_trip, with the write of the kernel's trip it may do, builds the zone:
\* its trips are those it had, with polling trips added for sensors it has bound.
LEMMA SortOk ==
    ASSUME NEW m, NEW s, NEW cs, NEW x, IsPair(x), ZoneOk(s, cs, x.z)
    PROVE  Builds(s, cs, x, sort_and_update_poll_trip(m, s, x))
<1> DEFINE ts == x.z.trips
           poll == First(ts, LAMBDA t : t.type = "POLLING")
           S == DOMAIN ts \ {poll}
           sorted == ByTemp(ts, S)
           bound == x.z.bound
           temp == PollTemp(sorted[1].temp)
           polls == PollTrips(s, bound, temp)
           y == WithPolls(m, s, x, sorted, temp)
<1>1. sort_and_update_poll_trip(m, s, x) =
        IF sorted = <<>> THEN [x EXCEPT !.z.trips = <<>>] ELSE y
  BY DEF sort_and_update_poll_trip
<1>2. IsList(ts) /\ \A i \in DOMAIN ts : TripOk(s, cs, bound, ts[i])
  BY DEF ZoneOk, TripsOk
<1> HIDE DEF poll
<1>3. S \subseteq DOMAIN ts /\ S \subseteq Nat
  <2>1. Len(ts) \in Nat /\ DOMAIN ts = 1..Len(ts)
    BY <1>2, ListDom
  <2>2. \A i \in DOMAIN ts : i \in Nat
    BY <2>1
  <2> QED
    BY <2>2
<1> HIDE DEF S
<1>4. IsFiniteSet(S)
  BY <1>2, <1>3, ListFinite, FS_Subset
<1>5. \A i \in S : TripOk(s, cs, bound, ts[i]) /\ ts[i].temp \in Int
  BY <1>2, <1>3 DEF TripOk
<1>6. IsList(sorted) /\ \A p \in DOMAIN sorted : \E i \in S : sorted[p] = ts[i]
  <2>1. HasTemps(ts, S)
    BY <1>5 DEF HasTemps
  <2>2. Sorts(sorted, ts, S)
    BY <1>3, <1>4, <2>1, ByTempProp
  <2> QED
    BY <2>2 DEF Sorts
<1> HIDE DEF sorted
<1>7. TripsOk(s, cs, bound, sorted)
  BY <1>5, <1>6 DEF TripsOk
<1>8. CASE sorted = <<>>
  <2>1. TripsOk(s, cs, bound, <<>>)
    BY ListEmpty DEF TripsOk
  <2>2. Builds(s, cs, x, [x EXCEPT !.z.trips = <<>>])
    BY <2>1, TripsSet
  <2> QED
    BY <1>1, <1>8, <2>2
<1>9. CASE sorted # <<>>
  <2>1. Len(sorted) \in Nat /\ DOMAIN sorted = 1..Len(sorted) /\ 1 \in DOMAIN sorted
    BY <1>6, <1>9, ListDom DEF IsList
  <2>2. temp \in Int
    <3>1. sorted[1].temp \in Int
      BY <2>1, <1>7 DEF TripsOk, TripOk
    <3> QED
      BY <3>1 DEF PollTemp
  <2> HIDE DEF temp
  <2>3. IsList(bound)
    BY DEF ZoneOk
  <2>4. IsList(polls) /\ \A b \in DOMAIN polls : TripOk(s, cs, bound, polls[b])
    <3>1. DOMAIN polls = DOMAIN bound /\ polls = [b \in DOMAIN polls |-> polls[b]]
      BY DEF PollTrips
    <3>2. IsList(polls)
      BY <3>1, <2>3, ListSame
    <3>3. ASSUME NEW b \in DOMAIN polls PROVE TripOk(s, cs, bound, polls[b])
      <4>1. polls[b] = Trip("POLLING", temp, s[bound[b]].index) /\ b \in DOMAIN bound
        BY <3>1 DEF PollTrips
      <4> QED
        BY <4>1, <2>2, NewTripOk
    <3> QED
      BY <3>2, <3>3
  <2> HIDE DEF polls
  <2>5. TripsOk(s, cs, bound, sorted \o polls)
    <3>1. /\ IsList(sorted \o polls) /\ Len(sorted \o polls) = Len(sorted) + Len(polls)
          /\ \A i \in 1..(Len(sorted) + Len(polls)) :
               (sorted \o polls)[i] = IF i <= Len(sorted) THEN sorted[i] ELSE polls[i - Len(sorted)]
      BY <1>6, <2>4, ListCat
    <3>2. DOMAIN (sorted \o polls) = 1..(Len(sorted) + Len(polls))
      BY <3>1, ListDom
    <3>3. Len(polls) \in Nat /\ DOMAIN polls = 1..Len(polls)
      BY <2>4, ListDom
    <3>4. ASSUME NEW i \in 1..(Len(sorted) + Len(polls)) PROVE TripOk(s, cs, bound, (sorted \o polls)[i])
      <4>1. CASE i <= Len(sorted)
        BY <4>1, <3>1, <2>1, <1>7 DEF TripsOk
      <4>2. CASE ~(i <= Len(sorted))
        <5>1. i - Len(sorted) \in DOMAIN polls
          BY <4>2, <3>3, <2>1
        <5> QED
          BY <5>1, <4>2, <3>1, <2>4
      <4> QED
        BY <4>1, <4>2
    <3> QED
      BY <3>1, <3>2, <3>4 DEF TripsOk
  <2> DEFINE w == [x EXCEPT !.z.trips = sorted \o polls]
  <2>6. Builds(s, cs, x, w)
    BY <2>5, TripsSet
  <2>7. y.z = w.z /\ y.k = set_threshold(m, s, x.k, bound, temp) /\ IsPair(y)
    BY DEF WithPolls, IsPair, polls
  <2>8. WritesPolled(s, bound, x.k, set_threshold(m, s, x.k, bound, temp))
    BY DEF WritesPolled, set_threshold, Polled
  <2> HIDE DEF w, y
  <2>9. Builds(s, cs, x, y)
    BY <2>6, <2>7, <2>8 DEF Builds
  <2> QED
    BY <1>1, <1>9, <2>9
<1> QED
  BY <1>8, <1>9

-----------------------------------------------------------------------------
(* Passive temperatures and cooling devices.                                *)

\* A set of positions has a last one.
LEMMA GreatestOf ==
    ASSUME NEW n \in Nat, NEW P, P \subseteq 1..n, P # {}
    PROVE  \E i \in P : \A j \in P : j <= i
<1> DEFINE Q == {n - i : i \in P}
<1>1. Q \subseteq Nat
  <2>1. \A i \in 1..n : n - i \in Nat
    OBVIOUS
  <2> QED
    BY <2>1
<1>a. Q # {}
  OBVIOUS
<1>2. FirstIn(Q) \in Q /\ \A q \in Q : FirstIn(Q) <= q
  BY <1>1, <1>a, FirstProp
<1>3. PICK i \in P : FirstIn(Q) = n - i
  BY <1>2
<1>4. ASSUME NEW j \in P PROVE j <= i
  <2>1. n - i <= n - j
    BY <1>2, <1>3
  <2> QED
    BY <2>1, i \in Nat, j \in Nat
<1> QED
  BY <1>4

\* A zone that is left alone is built.
LEMMA BuildsSelf ==
    ASSUME NEW s, NEW cs, NEW x, IsPair(x), ZoneOk(s, cs, x.z)
    PROVE  Builds(s, cs, x, x)
BY DEF Builds, SameZone, WritesPolled

\* [x EXCEPT !.z.trips[j].temp = t] as a single replacement of the trips.
LEMMA TempSetZone ==
    ASSUME NEW s, NEW cs, NEW x, IsPair(x), ZoneOk(s, cs, x.z), NEW j \in DOMAIN x.z.trips,
           NEW temp \in Int
    PROVE  Builds(s, cs, x, [x EXCEPT !.z.trips[j].temp = temp])
<1> DEFINE t == [x.z.trips[j] EXCEPT !.temp = temp]
           ts == [x.z.trips EXCEPT ![j] = t]
<1>1. TripsOk(s, cs, x.z.bound, x.z.trips)
  BY DEF ZoneOk
<1>2. TripOk(s, cs, x.z.bound, t)
  BY <1>1, TempSet DEF TripsOk
<1>3. TripsOk(s, cs, x.z.bound, ts)
  BY <1>1, <1>2, TripsExcept
<1>4. Builds(s, cs, x, [x EXCEPT !.z.trips = ts])
  BY <1>3, TripsSet
<1> QED
  BY <1>4

\* Applying the passive temperature a user set builds the zone.
LEMMA PsvOk ==
    ASSUME NEW m, NEW s, NEW cs, NEW user, \A n \in DOMAIN user : user[n] \in Int,
           NEW x, IsPair(x), ZoneOk(s, cs, x.z)
    PROVE  Builds(s, cs, x, WithUserPsv(m, s, user, x))
<1> DEFINE passives == {i \in DOMAIN x.z.trips : x.z.trips[i].type = "PASSIVE"}
           last == CHOOSE i \in passives : \A j \in passives : j <= i
           y == [x EXCEPT !.z.trips[last].temp = user[x.z.type]]
<1>1. CASE x.z.type \notin DOMAIN user \/ passives = {}
  BY <1>1, BuildsSelf DEF WithUserPsv
<1>2. CASE ~(x.z.type \notin DOMAIN user \/ passives = {})
  <2>1. WithUserPsv(m, s, user, x) = sort_and_update_poll_trip(m, s, y)
    BY <1>2 DEF WithUserPsv
  <2>2. user[x.z.type] \in Int
    BY <1>2
  <2>3. last \in DOMAIN x.z.trips
    <3>1. IsList(x.z.trips)
      BY DEF ZoneOk, TripsOk
    <3>2. Len(x.z.trips) \in Nat /\ DOMAIN x.z.trips = 1..Len(x.z.trips)
      BY <3>1, ListDom
    <3>3. passives \subseteq 1..Len(x.z.trips) /\ passives # {}
      BY <1>2, <3>2
    <3>4. \E i \in passives : \A j \in passives : j <= i
      <4> HIDE DEF passives
      <4>1. \A n \in Nat : \A P : P \subseteq 1..n /\ P # {} => \E i \in P : \A j \in P : j <= i
        BY GreatestOf
      <4> QED
        BY <4>1, <3>2, <3>3
    <3>5. last \in passives
      BY <3>4
    <3> QED
      BY <3>5
  <2> HIDE DEF last
  <2>4. Builds(s, cs, x, y)
    BY <2>2, <2>3, TempSetZone
  <2>5. IsPair(y) /\ ZoneOk(s, cs, y.z)
    BY <2>4 DEF Builds
  <2> HIDE DEF y
  <2>6. Builds(s, cs, y, sort_and_update_poll_trip(m, s, y))
    BY <2>5, SortOk
  <2> QED
    BY <2>1, <2>4, <2>6, BuildsTrans
<1> QED
  BY <1>1, <1>2

\* Binding the kernel's devices to the zone's trips (read_cdev_trip_points) builds it.
LEMMA CdevTripsOk ==
    ASSUME NEW s, NEW cs, IsList(cs), NEW x, IsPair(x), ZoneOk(s, cs, x.z), NEW binds
    PROVE  Builds(s, cs, x, [x EXCEPT !.z = read_cdev_trip_points(cs, @, binds)])
<1> DEFINE of(j) == Each(LAMBDA b : Driven(IF b.trip + 1 = j THEN thd_get_cdev_at_index(cs, b.cdev) ELSE 0,
                                           0, NoTarget), binds)
           old == x.z.trips
           ts == [j \in DOMAIN old |-> trip_cdev_add(cs, old[j], of(j))]
<1>1. \A j : Offered(cs, of(j))
  BY CdevFound DEF Offered, Each, Driven, DrivenFields
<1> HIDE DEF of
<1>2. IsList(old) /\ \A j \in DOMAIN old : TripOk(s, cs, x.z.bound, old[j])
  BY DEF ZoneOk, TripsOk
<1>3. \A j \in DOMAIN ts : TripOk(s, cs, x.z.bound, ts[j])
  BY <1>1, <1>2, TripAddOk
<1>4. IsList(ts)
  BY <1>2, ListSame
<1>5. [x EXCEPT !.z = read_cdev_trip_points(cs, @, binds)] = [x EXCEPT !.z.trips = ts]
  BY DEF read_cdev_trip_points, of
<1> HIDE DEF ts
<1>6. TripsOk(s, cs, x.z.bound, ts)
  BY <1>3, <1>4 DEF TripsOk
<1>7. Builds(s, cs, x, [x EXCEPT !.z.trips = ts])
  BY <1>6, TripsSet
<1> QED
  BY <1>5, <1>7

\* zone_update as a whole builds the zone.
LEMMA UpdateOk ==
    ASSUME NEW m, NEW s, NEW cs, IsList(cs), NEW user, \A n \in DOMAIN user : user[n] \in Int,
           NEW x, IsPair(x), ZoneOk(s, cs, x.z), NEW binds
    PROVE  Builds(s, cs, x, zone_update(m, cs, user, s, x, binds))
<1> DEFINE set == WithUserPsv(m, s, user, x)
           y == [set EXCEPT !.z = read_cdev_trip_points(cs, @, binds)]
<1>1. Builds(s, cs, x, set)
  BY PsvOk
<1>2. IsPair(set) /\ ZoneOk(s, cs, set.z)
  BY <1>1 DEF Builds
<1> HIDE DEF set
<1>3. Builds(s, cs, set, y)
  BY <1>2, CdevTripsOk
<1>4. IsPair(y) /\ ZoneOk(s, cs, y.z)
  BY <1>3 DEF Builds
<1>5. zone_update(m, cs, user, s, x, binds) = sort_and_update_poll_trip(m, s, y)
  BY DEF zone_update, set
<1> HIDE DEF y
<1>6. Builds(s, cs, y, sort_and_update_poll_trip(m, s, y))
  BY <1>4, SortOk
<1> QED
  BY <1>1, <1>3, <1>5, <1>6, BuildsTrans

\* The devices bound to the first trip of a type.
LEMMA BindCdevOk ==
    ASSUME NEW s, NEW cs, NEW z, ZoneOk(s, cs, z), NEW type, NEW es, Offered(cs, es)
    PROVE  /\ ZoneOk(s, cs, bind_cooling_device(cs, z, type, es))
           /\ SameZone(bind_cooling_device(cs, z, type, es), z)
<1> DEFINE S == {i \in DOMAIN z.trips : z.trips[i].type = type /\ z.trips[i].temp > 0}
           t == FirstIn(S)
           u == trip_cdev_add(cs, z.trips[t], es)
           ts == [z.trips EXCEPT ![t] = u]
           x == [z |-> z, k |-> <<>>]
<1>1. bind_cooling_device(cs, z, type, es) = IF t = 0 THEN z ELSE [z EXCEPT !.trips = ts]
  BY DEF bind_cooling_device, First
<1>2. TripsOk(s, cs, z.bound, z.trips)
  BY DEF ZoneOk
<1>3. CASE t = 0
  BY <1>1, <1>3 DEF SameZone
<1>4. CASE t # 0
  <2>1. S \subseteq Nat
    BY <1>2, ListDom DEF TripsOk
  <2>2. t \in S
    BY <1>4, <2>1, FirstProp
  <2>3. TripOk(s, cs, z.bound, u)
    BY <1>2, <2>2, TripAddOk DEF TripsOk
  <2> HIDE DEF u, t
  <2>4. TripsOk(s, cs, z.bound, ts)
    BY <1>2, <2>3, TripsExcept
  <2> HIDE DEF ts
  <2>5. IsPair(x) /\ x.z = z
    BY DEF IsPair
  <2>6. Builds(s, cs, x, [x EXCEPT !.z.trips = ts])
    BY <2>4, <2>5, TripsSet
  <2>7. [x EXCEPT !.z.trips = ts].z = [z EXCEPT !.trips = ts]
    OBVIOUS
  <2> QED
    BY <1>1, <1>4, <2>5, <2>6, <2>7 DEF Builds
<1> QED
  BY <1>3, <1>4

-----------------------------------------------------------------------------
(* Sensors and zones that grow.                                             *)

\* The sensors t are those of s, perhaps with more that are not the kernel's.
Keeps(s, t) ==
    /\ SensorsOk(t) /\ DOMAIN s \subseteq DOMAIN t
    /\ \A p \in DOMAIN s : t[p].name = s[p].name /\ t[p].index = s[p].index /\ t[p].kind = s[p].kind
    /\ \A p \in DOMAIN t : t[p].kind = "sysfs" => p \in DOMAIN s

\* Sensors left alone are kept.
LEMMA KeepsSelf ==
    ASSUME NEW s, SensorsOk(s)
    PROVE  Keeps(s, s)
BY DEF Keeps

\* Keeping sensors twice keeps them.
LEMMA KeepsTrans ==
    ASSUME NEW s, NEW t, NEW u, Keeps(s, t), Keeps(t, u)
    PROVE  Keeps(s, u)
<1>1. ASSUME NEW p \in DOMAIN s
      PROVE  u[p].name = s[p].name /\ u[p].index = s[p].index /\ u[p].kind = s[p].kind
  <2>1. p \in DOMAIN t /\ t[p].name = s[p].name /\ t[p].index = s[p].index /\ t[p].kind = s[p].kind
    BY DEF Keeps
  <2> QED
    BY <2>1 DEF Keeps
<1>2. ASSUME NEW p \in DOMAIN u, u[p].kind = "sysfs" PROVE p \in DOMAIN s
  <2>1. p \in DOMAIN t
    BY <1>2 DEF Keeps
  <2>2. t[p].kind = "sysfs"
    BY <2>1, <1>2 DEF Keeps
  <2> QED
    BY <2>1, <2>2 DEF Keeps
<1> QED
  BY <1>1, <1>2 DEF Keeps

\* Marking a sensor as asynchronous, polled or moved, or linking it, keeps the sensors.
LEMMA KeepsExcept ==
    ASSUME NEW s, SensorsOk(s), NEW p, NEW v
    PROVE  /\ Keeps(s, [s EXCEPT ![p].async = v]) /\ Keeps(s, [s EXCEPT ![p].polling = v])
           /\ Keeps(s, [s EXCEPT ![p].moved = v]) /\ Keeps(s, [s EXCEPT ![p].links = v])
<1>1. ASSUME NEW t, t = [i \in DOMAIN t |-> t[i]], DOMAIN t = DOMAIN s, 
             NEW f \in {"async", "polling", "moved", "links"},
             \A i \in DOMAIN s : t[i] = s[i] \/ t[i] = [s[i] EXCEPT ![f] = v]
      PROVE  Keeps(s, t)
  <2>1. IsList(t)
    BY <1>1, ListSame DEF SensorsOk
  <2>2. ASSUME NEW i \in DOMAIN s
        PROVE  /\ DOMAIN t[i] = SensorFields
               /\ t[i].name = s[i].name /\ t[i].index = s[i].index /\ t[i].kind = s[i].kind
    BY <1>1 DEF SensorsOk, SensorFields
  <2> QED
    BY <1>1, <2>1, <2>2 DEF Keeps, SensorsOk
<1> DEFINE a == [s EXCEPT ![p].async = v]
           b == [s EXCEPT ![p].polling = v]
           c == [s EXCEPT ![p].moved = v]
           d == [s EXCEPT ![p].links = v]
<1>0. s = [i \in DOMAIN s |-> s[i]]
  BY ListDom DEF SensorsOk
<1>2. /\ a = [i \in DOMAIN a |-> a[i]] /\ DOMAIN a = DOMAIN s
      /\ \A i \in DOMAIN s : a[i] = s[i] \/ a[i] = [s[i] EXCEPT !["async"] = v]
  BY <1>0
<1>3. /\ b = [i \in DOMAIN b |-> b[i]] /\ DOMAIN b = DOMAIN s
      /\ \A i \in DOMAIN s : b[i] = s[i] \/ b[i] = [s[i] EXCEPT !["polling"] = v]
  BY <1>0
<1>4. /\ c = [i \in DOMAIN c |-> c[i]] /\ DOMAIN c = DOMAIN s
      /\ \A i \in DOMAIN s : c[i] = s[i] \/ c[i] = [s[i] EXCEPT !["moved"] = v]
  BY <1>0
<1>5. /\ d = [i \in DOMAIN d |-> d[i]] /\ DOMAIN d = DOMAIN s
      /\ \A i \in DOMAIN s : d[i] = s[i] \/ d[i] = [s[i] EXCEPT !["links"] = v]
  BY <1>0
<1> HIDE DEF a, b, c, d
<1>6. Keeps(s, a)
  BY <1>1, <1>2
<1>7. Keeps(s, b)
  BY <1>1, <1>3
<1>8. Keeps(s, c)
  BY <1>1, <1>4
<1>9. Keeps(s, d)
  BY <1>1, <1>5
<1> QED
  BY <1>6, <1>7, <1>8, <1>9 DEF a, b, c, d

\* A sensor of the daemon's own at the end keeps those before it.
LEMMA KeepsAppend ==
    ASSUME NEW s, SensorsOk(s), NEW e, DOMAIN e = SensorFields, e.kind # "sysfs"
    PROVE  Keeps(s, Append(s, e))
<1> DEFINE n == Len(s)
           t == Append(s, e)
<1>1. IsList(s) /\ n \in Nat /\ DOMAIN s = 1..n
  BY ListDom DEF SensorsOk
<1>2. IsList(t) /\ DOMAIN t = 1..(n + 1) /\ (\A i \in 1..n : t[i] = s[i]) /\ t[n + 1] = e
  BY <1>1, ListAppend
<1> HIDE DEF n, t
<1>3. \A p \in 1..(n + 1) : p \in 1..n \/ p = n + 1
  BY <1>1
<1>4. \A p \in DOMAIN t : DOMAIN t[p] = SensorFields /\ (t[p].kind = "sysfs" => p \in DOMAIN s)
  BY <1>1, <1>2, <1>3 DEF SensorsOk
<1>5. DOMAIN s \subseteq DOMAIN t
  BY <1>1, <1>2
<1>6. Keeps(s, t)
  BY <1>1, <1>2, <1>4, <1>5 DEF Keeps, SensorsOk
<1> QED
  BY <1>6 DEF t

\* A zone stays well formed when sensors and devices are added.
LEMMA KeepsZone ==
    ASSUME NEW s, NEW t, Keeps(s, t), NEW cs, NEW ds, DOMAIN cs \subseteq DOMAIN ds,
           NEW z, ZoneOk(s, cs, z)
    PROVE  ZoneOk(t, ds, z)
<1>1. \A b \in DOMAIN z.bound : z.bound[b] \in DOMAIN s /\ t[z.bound[b]].index = s[z.bound[b]].index
                                /\ z.bound[b] \in DOMAIN t
  BY DEF ZoneOk, Keeps
<1>2. ASSUME NEW u, TripOk(s, cs, z.bound, u) PROVE TripOk(t, ds, z.bound, u)
  BY <1>1, <1>2 DEF TripOk, DrivenOk
<1> QED
  BY <1>1, <1>2 DEF ZoneOk, TripsOk

-----------------------------------------------------------------------------
\* What a zone keeps: what the destructor of a kernel zone needs, and how its sensors relate.
AsRead(y, z) ==
    /\ y.kernel = z.kernel /\ y.index = z.index /\ y.initial = z.initial
    /\ y.corelated = z.corelated
KernelSame(a, b) ==
    /\ \A j \in DOMAIN b : b[j].kernel => \E i \in DOMAIN a : AsRead(a[i], b[j])
    /\ \A i \in DOMAIN a : a[i].kernel => \E j \in DOMAIN b : AsRead(a[i], b[j])
ZonesOk(s, cs, zs) == IsList(zs) /\ \A i \in DOMAIN zs : ZoneOk(s, cs, zs[i])

\* Sensors and zones before and after: r and q are [s, zs].
IsRegistry(r) == r = [s |-> r.s, zs |-> r.zs]
Grows(cs, r, q) ==
    /\ IsRegistry(q) /\ Keeps(r.s, q.s) /\ ZonesOk(q.s, cs, q.zs)
    /\ DOMAIN r.zs \subseteq DOMAIN q.zs /\ KernelSame(r.zs, q.zs)

\* A registry left alone grows.
LEMMA GrowsSelf ==
    ASSUME NEW cs, NEW r, IsRegistry(r), SensorsOk(r.s), ZonesOk(r.s, cs, r.zs)
    PROVE  Grows(cs, r, r)
BY KeepsSelf DEF Grows, KernelSame, AsRead

\* Growing twice is growing.
LEMMA GrowsTrans ==
    ASSUME NEW cs, NEW r, NEW q, NEW p, Grows(cs, r, q), Grows(cs, q, p)
    PROVE  Grows(cs, r, p)
<1>1. Keeps(r.s, p.s)
  BY KeepsTrans DEF Grows
<1>2. KernelSame(r.zs, q.zs) /\ KernelSame(q.zs, p.zs)
  BY DEF Grows
<1>3. ASSUME NEW j \in DOMAIN p.zs, p.zs[j].kernel PROVE \E i \in DOMAIN r.zs : AsRead(r.zs[i], p.zs[j])
  <2>1. PICK k \in DOMAIN q.zs : AsRead(q.zs[k], p.zs[j])
    BY <1>2, <1>3 DEF KernelSame
  <2>2. q.zs[k].kernel
    BY <2>1, <1>3 DEF AsRead
  <2>3. PICK i \in DOMAIN r.zs : AsRead(r.zs[i], q.zs[k])
    BY <1>2, <2>2 DEF KernelSame
  <2> QED
    BY <2>1, <2>3 DEF AsRead
<1>4. ASSUME NEW i \in DOMAIN r.zs, r.zs[i].kernel PROVE \E j \in DOMAIN p.zs : AsRead(r.zs[i], p.zs[j])
  <2>1. PICK k \in DOMAIN q.zs : AsRead(r.zs[i], q.zs[k])
    BY <1>2, <1>4 DEF KernelSame
  <2>2. q.zs[k].kernel
    BY <2>1, <1>4 DEF AsRead
  <2>3. PICK j \in DOMAIN p.zs : AsRead(q.zs[k], p.zs[j])
    BY <1>2, <2>2 DEF KernelSame
  <2> QED
    BY <2>1, <2>3 DEF AsRead
<1>5. KernelSame(r.zs, p.zs)
  BY <1>3, <1>4 DEF KernelSame
<1> QED
  BY <1>1, <1>5 DEF Grows

\* A zone changed in place.
LEMMA ReplaceGrows ==
    ASSUME NEW cs, NEW r, IsRegistry(r), SensorsOk(r.s), ZonesOk(r.s, cs, r.zs),
           NEW i, NEW z, i \in DOMAIN r.zs => ZoneOk(r.s, cs, z) /\ AsRead(r.zs[i], z)
    PROVE  Grows(cs, r, [r EXCEPT !.zs[i] = z])
<1> DEFINE a == r.zs
           b == [a EXCEPT ![i] = z]
           q == [r EXCEPT !.zs[i] = z]
<1>1. q.s = r.s /\ q.zs = b /\ IsRegistry(q)
  BY DEF IsRegistry
<1>2. DOMAIN b = DOMAIN a /\ b = [j \in DOMAIN b |-> b[j]]
  BY ListDom DEF ZonesOk
<1>3. \A j \in DOMAIN a : b[j] = a[j] \/ (j = i /\ b[j] = z)
  BY ListDom DEF ZonesOk
<1> HIDE DEF b, q
<1>4. IsList(b)
  BY <1>2, ListSame DEF ZonesOk
<1>5. \A j \in DOMAIN a : ZoneOk(r.s, cs, b[j]) /\ AsRead(a[j], b[j])
  BY <1>3 DEF ZonesOk, AsRead
<1>6. KernelSame(a, b)
  BY <1>2, <1>5 DEF KernelSame, AsRead
<1>7. Grows(cs, r, q)
  BY <1>1, <1>2, <1>4, <1>5, <1>6, KeepsSelf DEF Grows, ZonesOk
<1> QED
  BY <1>7 DEF q

\* A zone of the daemon added.
LEMMA AppendGrows ==
    ASSUME NEW cs, NEW r, IsRegistry(r), SensorsOk(r.s), ZonesOk(r.s, cs, r.zs),
           NEW z, ZoneOk(r.s, cs, z), z.kernel = FALSE
    PROVE  /\ Grows(cs, r, [r EXCEPT !.zs = Append(@, z)])
           /\ Len(r.zs) + 1 \in DOMAIN [r EXCEPT !.zs = Append(@, z)].zs
<1> DEFINE a == r.zs
           n == Len(a)
           b == Append(a, z)
           q == [r EXCEPT !.zs = Append(@, z)]
<1>1. q.s = r.s /\ q.zs = b /\ IsRegistry(q)
  BY DEF IsRegistry
<1>2. IsList(a) /\ n \in Nat /\ DOMAIN a = 1..n
  BY ListDom DEF ZonesOk
<1>3. IsList(b) /\ DOMAIN b = 1..(n + 1) /\ (\A j \in 1..n : b[j] = a[j]) /\ b[n + 1] = z
  BY <1>2, ListAppend
<1> HIDE DEF b, q, n
<1>4. \A j \in 1..(n + 1) : j \in 1..n \/ j = n + 1
  BY <1>2
<1>5. 1..n \subseteq 1..(n + 1) /\ n + 1 \in 1..(n + 1)
  BY <1>2
<1>6. \A j \in DOMAIN b : ZoneOk(r.s, cs, b[j])
  BY <1>2, <1>3, <1>4 DEF ZonesOk
<1>7. KernelSame(a, b)
  BY <1>2, <1>3, <1>4, <1>5 DEF KernelSame, AsRead
<1>8. Grows(cs, r, q)
  BY <1>1, <1>2, <1>3, <1>5, <1>6, <1>7, KeepsSelf DEF Grows, ZonesOk
<1> QED
  BY <1>1, <1>3, <1>5, <1>8 DEF q, n

\* Switching a zone, with the polling of its sensors, removes nothing.
LEMMA SetActiveGrows ==
    ASSUME NEW cs, NEW r, IsRegistry(r), SensorsOk(r.s), ZonesOk(r.s, cs, r.zs),
           NEW i, NEW on
    PROVE  Grows(cs, r, SetActive(r, i, on))
<1> DEFINE v == First(r.zs[i].bound, LAMBDA p : r.s[p].kind = "virtual")
           t == IF v = 0 THEN r.s ELSE [r.s EXCEPT ![r.zs[i].bound[v]].polling = on]
           z == [r.zs[i] EXCEPT !.active = on]
           q == [r EXCEPT !.zs[i] = z]
           a == SetActive(r, i, on)
<1> HIDE DEF v
<1>1. a = [s |-> t, zs |-> q.zs]
  BY DEF SetActive, v, IsRegistry
<1>2. Keeps(r.s, t)
  BY KeepsSelf, KeepsExcept
<1>3. ASSUME i \in DOMAIN r.zs PROVE ZoneOk(r.s, cs, z) /\ AsRead(r.zs[i], z)
  <2>1. ZoneOk(r.s, cs, r.zs[i])
    BY <1>3 DEF ZonesOk
  <2>2. /\ DOMAIN z = ZoneFields /\ z.bound = r.zs[i].bound /\ z.trips = r.zs[i].trips
        /\ AsRead(r.zs[i], z)
    BY <2>1 DEF ZoneOk, ZoneFields, AsRead
  <2> HIDE DEF z
  <2> QED
    BY <2>1, <2>2 DEF ZoneOk
<1> HIDE DEF z
<1>4. Grows(cs, r, q)
  BY <1>3, ReplaceGrows
<1>5. q.s = r.s
  BY DEF IsRegistry
<1> HIDE DEF q, t
<1>6. ZonesOk(t, cs, q.zs)
  <2>1. ASSUME NEW y, ZoneOk(q.s, cs, y) PROVE ZoneOk(t, cs, y)
    BY <2>1, <1>2, <1>5, KeepsZone
  <2> QED
    BY <2>1, <1>4 DEF Grows, ZonesOk
<1>7. a.s = t /\ a.zs = q.zs /\ IsRegistry(a)
  BY <1>1 DEF IsRegistry
<1> HIDE DEF a
<1>8. Grows(cs, r, a)
  BY <1>2, <1>4, <1>6, <1>7 DEF Grows
<1> QED
  BY <1>8 DEF a

\* A zone of the daemon registered, and the CPU zone disabled.
LEMMA RegisteredGrows ==
    ASSUME NEW cs, NEW r, IsRegistry(r), SensorsOk(r.s), ZonesOk(r.s, cs, r.zs),
           NEW x, ZoneOk(r.s, cs, x.z), x.z.kernel = FALSE
    PROVE  Grows(cs, r, Registered(r, x))
<1> DEFINE q == [r EXCEPT !.zs = Append(@, x.z)]
<1>1. Grows(cs, r, q)
  BY AppendGrows
<1>2. Registered(r, x) = SetActive(q, Len(r.zs) + 1, TRUE)
  BY DEF Registered
<1> HIDE DEF q
<1>3. Grows(cs, q, SetActive(q, Len(r.zs) + 1, TRUE))
  BY <1>1, SetActiveGrows DEF Grows, Keeps
<1> QED
  BY <1>1, <1>2, <1>3, GrowsTrans

\* Switching off the CPU zone for one of the configuration removes nothing.
LEMMA DisableGrows ==
    ASSUME NEW cs, NEW r, IsRegistry(r), SensorsOk(r.s), ZonesOk(r.s, cs, r.zs),
           NEW c, NEW generated
    PROVE  Grows(cs, r, disable_cpu_zone(r, c, generated))
<1>1. \/ disable_cpu_zone(r, c, generated) = r
      \/ disable_cpu_zone(r, c, generated) = SetActive(r, search_zone(r.zs, "cpu"), FALSE)
  BY DEF disable_cpu_zone
<1> QED
  BY <1>1, GrowsSelf, SetActiveGrows

-----------------------------------------------------------------------------
(* Reading the sensors.                                                     *)

\* The vectors read from sysfs are finite and numbered from 1.
LEMMA MachineFacts ==
    ASSUME NEW m \in Machines
    PROVE  /\ Len(m.kzones) \in Nat /\ DOMAIN m.kzones = 1..Len(m.kzones)
           /\ \A S : S \subseteq DOMAIN m.kzones => IsFiniteSet(S) /\ S \subseteq Nat
           /\ \A S : S \subseteq DOMAIN m.kcdevs => IsFiniteSet(S) /\ S \subseteq Nat
<1>1. /\ Len(m.kzones) \in Nat /\ DOMAIN m.kzones = 1..Len(m.kzones)
      /\ Len(m.kcdevs) \in Nat /\ DOMAIN m.kcdevs = 1..Len(m.kcdevs)
  BY MachinesAssumption
<1>2. \A n \in Nat : \A S \in SUBSET (1..n) : IsFiniteSet(S) /\ S \subseteq Nat
  <2>1. ASSUME NEW n \in Nat, NEW S \in SUBSET (1..n) PROVE IsFiniteSet(S) /\ S \subseteq Nat
    <3>1. IsFiniteSet(1..n)
      BY FS_Interval
    <3>2. IsFiniteSet(S)
      BY <3>1, FS_Subset
    <3> QED
      BY <3>2
  <2> QED
    BY <2>1
<1> QED
  BY <1>1, <1>2

\* The places of the readable kernel zones, and what the sensors made from them show of their order.
Readable(m) == {i \in DOMAIN m.kzones : m.kzones[i].readable}
FromKernel(m, s) ==
    \A p \in DOMAIN s : s[p].kind = "sysfs" =>
        \E j \in Readable(m) :
            /\ s[p].index = m.kzones[j].n /\ s[p].name = m.kzones[j].type
            /\ \A i \in Readable(m) : i < j =>
                 \E q \in DOMAIN s : q < p /\ s[q].name = m.kzones[i].type
AllRead(m, s) == \A i \in Readable(m) : \E q \in DOMAIN s : s[q].name = m.kzones[i].type

\* Reading the kernel's zones makes the sensors of all readable ones, in its order.
LEMMA KernelSensors ==
    ASSUME NEW m \in Machines
    PROVE  LET s == thd_read_default_thermal_sensors(m)
           IN SensorsOk(s) /\ FromKernel(m, s) /\ AllRead(m, s)
<1> DEFINE S == Readable(m)
           R == {r \in S \X S : r[1] < r[2]}
           o == Only(m.kzones, S)
           s == [i \in DOMAIN o |-> Sensor(o[i].type, o[i].n, "sysfs")]
<1>1. thd_read_default_thermal_sensors(m) = s
  BY DEF thd_read_default_thermal_sensors, Each, Readable
<1>2. IsFiniteSet(S) /\ S \subseteq Nat
  BY MachineFacts DEF Readable
<1> HIDE DEF S
<1>3. /\ IsList(o)
      /\ \A p \in DOMAIN o : \E i \in S :
           /\ o[p] = m.kzones[i]
           /\ \A j \in S : j < i => \E q \in DOMAIN o : q < p /\ o[q] = m.kzones[j]
      /\ \A i \in S : \E q \in DOMAIN o : o[q] = m.kzones[i]
  <2>1. Selects(o, m.kzones, S)
    BY <1>2, OnlyProp
  <2> QED
    BY <2>1 DEF Selects
<1> HIDE DEF o
<1>4. DOMAIN s = DOMAIN o /\ IsList(s)
  BY <1>3, ListSame
<1>5. \A p \in DOMAIN s : /\ DOMAIN s[p] = SensorFields /\ s[p].name = o[p].type
                          /\ s[p].index = o[p].n
  BY DEF Sensor, SensorFields
<1> HIDE DEF s
<1>6. SensorsOk(s)
  BY <1>4, <1>5 DEF SensorsOk
<1>7. AllRead(m, s)
  BY <1>3, <1>4, <1>5 DEF AllRead, S
<1>8. FromKernel(m, s)
  <2>1. ASSUME NEW p \in DOMAIN s
        PROVE  \E j \in S :
                 /\ s[p].index = m.kzones[j].n /\ s[p].name = m.kzones[j].type
                 /\ \A i \in S : i < j => \E q \in DOMAIN s : q < p /\ s[q].name = m.kzones[i].type
    <3>1. PICK j \in S : /\ o[p] = m.kzones[j]
                         /\ \A i \in S : i < j => \E q \in DOMAIN o : q < p /\ o[q] = m.kzones[i]
      BY <1>3, <1>4
    <3>2. \A i \in S : i < j => \E q \in DOMAIN s : q < p /\ s[q].name = m.kzones[i].type
      BY <3>1, <1>4, <1>5
    <3> QED
      BY <3>1, <3>2, <1>5
  <2> QED
    BY <2>1 DEF FromKernel, S
<1> QED
  BY <1>1, <1>6, <1>7, <1>8

\* Sensors the daemon adds or marks change nothing of this.
LEMMA KeepsRead ==
    ASSUME NEW m, NEW s, NEW t, Keeps(s, t), IsList(s)
    PROVE  (FromKernel(m, s) => FromKernel(m, t)) /\ (AllRead(m, s) => AllRead(m, t))
<1>1. ASSUME AllRead(m, s) PROVE AllRead(m, t)
  BY <1>1 DEF AllRead, Keeps
<1>2. ASSUME FromKernel(m, s), NEW p \in DOMAIN t, t[p].kind = "sysfs"
      PROVE  \E j \in Readable(m) :
                /\ t[p].index = m.kzones[j].n /\ t[p].name = m.kzones[j].type
                /\ \A i \in Readable(m) : i < j =>
                     \E q \in DOMAIN t : q < p /\ t[q].name = m.kzones[i].type
  <2>1. p \in DOMAIN s /\ t[p].name = s[p].name /\ t[p].index = s[p].index /\ s[p].kind = "sysfs"
    BY <1>2 DEF Keeps
  <2>2. PICK j \in Readable(m) :
            /\ s[p].index = m.kzones[j].n /\ s[p].name = m.kzones[j].type
            /\ \A i \in Readable(m) : i < j =>
                 \E q \in DOMAIN s : q < p /\ s[q].name = m.kzones[i].type
    BY <1>2, <2>1 DEF FromKernel
  <2>3. \A q \in DOMAIN s : q \in DOMAIN t /\ t[q].name = s[q].name
    BY DEF Keeps
  <2> QED
    BY <2>1, <2>2, <2>3
<1> QED
  BY <1>1, <1>2 DEF FromKernel

\* Sensors of the daemon's own put after the others keep those.
LEMMA CatKeeps ==
    ASSUME NEW s, SensorsOk(s), NEW t, IsList(t),
           \A i \in DOMAIN t : DOMAIN t[i] = SensorFields /\ t[i].kind # "sysfs"
    PROVE  Keeps(s, s \o t)
<1> DEFINE n == Len(s)
           l == Len(t)
           u == s \o t
<1>1. IsList(s) /\ n \in Nat /\ DOMAIN s = 1..n /\ l \in Nat /\ DOMAIN t = 1..l
  BY ListDom DEF SensorsOk
<1>2. IsList(u) /\ Len(u) = n + l /\ \A i \in 1..(n + l) : u[i] = IF i <= n THEN s[i] ELSE t[i - n]
  BY <1>1, ListCat
<1>3. DOMAIN u = 1..(n + l)
  BY <1>2, ListDom
<1> HIDE DEF n, l, u
<1>4. \A i \in 1..n : i \in 1..(n + l) /\ u[i] = s[i]
  <2>1. \A i \in 1..n : i \in 1..(n + l) /\ i <= n
    BY <1>1
  <2> QED
    BY <2>1, <1>2
<1>5. ASSUME NEW i \in 1..(n + l) PROVE DOMAIN u[i] = SensorFields /\ (u[i].kind = "sysfs" => i \in 1..n)
  <2>1. CASE i <= n
    BY <2>1, <1>1, <1>2 DEF SensorsOk
  <2>2. CASE ~(i <= n)
    <3>1. i - n \in 1..l
      BY <2>2, <1>1
    <3> QED
      BY <2>2, <3>1, <1>1, <1>2
  <2> QED
    BY <2>1, <2>2
<1>6. Keeps(s, u)
  BY <1>1, <1>2, <1>3, <1>4, <1>5 DEF Keeps, SensorsOk
<1> QED
  BY <1>6 DEF u

Marks(s, t) ==
    /\ DOMAIN t = DOMAIN s /\ t = [p \in DOMAIN s |-> t[p]]
    /\ \A p \in DOMAIN s : \E v : t[p] = [s[p] EXCEPT !.async = v]

\* Marking sensors as asynchronous keeps them.
LEMMA AsyncKeeps ==
    ASSUME NEW s, SensorsOk(s), NEW t, Marks(s, t)
    PROVE  Keeps(s, t)
<1> USE DEF Marks
<1>1. IsList(t)
  BY ListSame DEF SensorsOk
<1>2. ASSUME NEW p \in DOMAIN s
      PROVE  /\ DOMAIN t[p] = SensorFields
             /\ t[p].name = s[p].name /\ t[p].index = s[p].index /\ t[p].kind = s[p].kind
  BY DEF SensorsOk, SensorFields
<1> QED
  BY <1>1, <1>2 DEF Keeps, SensorsOk

\* read_thermal_sensors, before the configuration, leaves the kernel's sensors in its order.
LEMMA DefaultSensorsRead ==
    ASSUME NEW m \in Machines
    PROVE  LET s == DefaultSensors(m).s IN SensorsOk(s) /\ FromKernel(m, s) /\ AllRead(m, s)
<1> DEFINE kernel == thd_read_default_thermal_sensors(m)
           base == NextIndex(m.kzones, kernel)
           known == [p \in DOMAIN kernel |->
                     [kernel[p] EXCEPT !.async = \E n \in FastSensors : search_sensor(kernel, n) = p]]
           hwmon == [i \in 1..m.coretemp.inputs |-> Sensor("hwmon", base + i - 1, "raw")]
<1>1. SensorsOk(kernel) /\ FromKernel(m, kernel) /\ AllRead(m, kernel)
  BY KernelSensors
<1>2. DefaultSensors(m).s = known \o hwmon
  BY DEF DefaultSensors
<1> HIDE DEF kernel, base
<1>3. Keeps(kernel, known)
  <2>1. DOMAIN known = DOMAIN kernel /\ known = [p \in DOMAIN kernel |-> known[p]]
    OBVIOUS
  <2>2. \A p \in DOMAIN kernel : \E v : known[p] = [kernel[p] EXCEPT !.async = v]
    OBVIOUS
  <2> HIDE DEF known
  <2>3. Marks(kernel, known)
    BY <2>1, <2>2 DEF Marks
  <2> QED
    BY <1>1, <2>3, AsyncKeeps
<1> HIDE DEF known
<1>4. IsList(hwmon) /\ \A i \in DOMAIN hwmon : DOMAIN hwmon[i] = SensorFields /\ hwmon[i].kind # "sysfs"
  <2>1. m.coretemp.inputs \in Nat
    BY MachinesAssumption
  <2>2. IsList(hwmon)
    BY <2>1, ListMade
  <2> QED
    BY <2>2 DEF Sensor, SensorFields
<1> HIDE DEF hwmon
<1>5. Keeps(known, known \o hwmon)
  BY <1>3, <1>4, CatKeeps DEF Keeps
<1>6. Keeps(kernel, known \o hwmon)
  BY <1>3, <1>5, KeepsTrans
<1>7. IsList(kernel)
  BY <1>1 DEF SensorsOk
<1> QED
  BY <1>1, <1>2, <1>6, <1>7, KeepsRead DEF Keeps

\* A sensor of the configuration marks one that exists or is put after the others.
LEMMA ConfigSensorKeeps ==
    ASSUME NEW m, NEW r, r = [s |-> r.s, n |-> r.n], SensorsOk(r.s), NEW c
    PROVE  Keeps(r.s, ConfigSensor(m, r, c).s)
<1> DEFINE p == search_sensor(r.s, c.name)
           count == IF c.links # <<>> THEN Len(c.links) ELSE IF c.link # "" THEN 1 ELSE 0
           power == \E i \in DOMAIN c.links : c.links[i].power
           meter == IF power /\ search_sensor(r.s, "rapl_pkg_power") = 0 /\ "power" \in m.devices
                    THEN <<Sensor("rapl_pkg_power", r.n, "power")>> ELSE <<>>
           virtual == [Sensor(c.name, r.n, "virtual") EXCEPT !.links = count]
<1> HIDE DEF p, count, power
<1>1. \/ ConfigSensor(m, r, c) = [r EXCEPT !.s[p].async = (c.async = "yes")]
      \/ ConfigSensor(m, r, c) = [s |-> (r.s \o meter) \o <<virtual>>, n |-> r.n + Len(meter) + 1]
      \/ ConfigSensor(m, r, c) = [s |-> Append(r.s, Sensor(c.name, r.n, "raw")), n |-> r.n + 1]
      \/ ConfigSensor(m, r, c) = r
  <2>1. CASE p # 0 /\ c.async # "unset"
    BY <2>1 DEF ConfigSensor, p, count, power
  <2>2. CASE p = 0 /\ c.virtual
    BY <2>2 DEF ConfigSensor, p, count, power
  <2>3. CASE p = 0 /\ ~c.virtual /\ c.path \in m.paths
    BY <2>3 DEF ConfigSensor, p, count, power
  <2>4. CASE /\ ~(p # 0 /\ c.async # "unset") /\ ~(p = 0 /\ c.virtual)
             /\ ~(p = 0 /\ ~c.virtual /\ c.path \in m.paths)
    BY <2>4 DEF ConfigSensor, p, count, power
  <2> QED
    BY <2>1, <2>2, <2>3, <2>4
<1>2. Keeps(r.s, [r EXCEPT !.s[p].async = (c.async = "yes")].s)
  <2>1. Keeps(r.s, [r.s EXCEPT ![p].async = (c.async = "yes")])
    BY KeepsExcept
  <2> QED
    BY <2>1
<1>3. Keeps(r.s, (r.s \o meter) \o <<virtual>>)
  <2>1. IsList(meter) /\ \A i \in DOMAIN meter : DOMAIN meter[i] = SensorFields /\ meter[i].kind # "sysfs"
    BY ListOne, ListEmpty DEF Sensor, SensorFields
  <2> HIDE DEF meter
  <2>2. Keeps(r.s, r.s \o meter)
    BY <2>1, CatKeeps
  <2>3. /\ IsList(<<virtual>>)
        /\ \A i \in DOMAIN <<virtual>> : DOMAIN <<virtual>>[i] = SensorFields /\ <<virtual>>[i].kind # "sysfs"
    BY ListOne DEF Sensor, SensorFields
  <2> HIDE DEF virtual
  <2>4. Keeps(r.s \o meter, (r.s \o meter) \o <<virtual>>)
    BY <2>2, <2>3, CatKeeps DEF Keeps
  <2> QED
    BY <2>2, <2>4, KeepsTrans
<1>4. Keeps(r.s, Append(r.s, Sensor(c.name, r.n, "raw")))
  BY KeepsAppend DEF Sensor, SensorFields
<1> DEFINE a == [r EXCEPT !.s[p].async = (c.async = "yes")].s
           b == (r.s \o meter) \o <<virtual>>
           d == Append(r.s, Sensor(c.name, r.n, "raw"))
<1>5. ConfigSensor(m, r, c).s \in {a, b, d, r.s}
  <2> HIDE DEF meter, virtual
  <2>1. CASE ConfigSensor(m, r, c) = [r EXCEPT !.s[p].async = (c.async = "yes")]
    BY <2>1
  <2>2. CASE ConfigSensor(m, r, c) = [s |-> (r.s \o meter) \o <<virtual>>, n |-> r.n + Len(meter) + 1]
    BY <2>2
  <2>3. CASE ConfigSensor(m, r, c) = [s |-> Append(r.s, Sensor(c.name, r.n, "raw")), n |-> r.n + 1]
    BY <2>3
  <2>4. CASE ConfigSensor(m, r, c) = r
    BY <2>4
  <2> QED
    BY <1>1, <2>1, <2>2, <2>3, <2>4
<1>6. Keeps(r.s, a) /\ Keeps(r.s, b) /\ Keeps(r.s, d) /\ Keeps(r.s, r.s)
  BY <1>2, <1>3, <1>4, KeepsSelf
<1> HIDE DEF a, b, d
<1> QED
  BY <1>5, <1>6

-----------------------------------------------------------------------------
(* Reading the cooling devices and making zones.                            *)

\* The devices d are those of c and perhaps more.
More(c, d) == IsList(d) /\ DOMAIN c \subseteq DOMAIN d

\* A device put at the end keeps the others.
LEMMA MoreAppend ==
    ASSUME NEW c, IsList(c), NEW e
    PROVE  More(c, Append(c, e))
<1>1. Len(c) \in Nat /\ DOMAIN c = 1..Len(c)
  BY ListDom
<1>2. IsList(Append(c, e)) /\ DOMAIN Append(c, e) = 1..(Len(c) + 1)
  BY ListAppend
<1>3. 1..Len(c) \subseteq 1..(Len(c) + 1)
  BY <1>1
<1> QED
  BY <1>1, <1>2, <1>3 DEF More

\* A device replaced in place keeps the others.
LEMMA MoreExcept ==
    ASSUME NEW c, IsList(c), NEW p, NEW e
    PROVE  More(c, [c EXCEPT ![p] = e])
<1>1. c = [i \in DOMAIN c |-> c[i]]
  BY ListDom
<1>2. IsList([c EXCEPT ![p] = e])
  BY <1>1, ListSame
<1> QED
  BY <1>2 DEF More

\* The daemon's own devices are put at the end.
LEMMA AddOwnMore ==
    ASSUME NEW m, NEW r, IsList(r.c), NEW t
    PROVE  IsList(AddOwn(m, r, t).c)
BY MoreAppend DEF AddOwn, More

\* read_cooling_devices, before the configuration, makes a vector.
LEMMA DefaultCdevsList ==
    ASSUME NEW m \in Machines, NEW conf
    PROVE  IsList(DefaultCdevs(m, conf).c)
<1> DEFINE kernel == thd_read_default_cooling_devices(m)
           rapl == AddOwn(m, [c |-> kernel, n |-> NextIndex(m.kcdevs, kernel)], "rapl_controller")
           mmio == IF conf = NoInfo THEN rapl ELSE AddOwn(m, rapl, "rapl_controller_mmio")
           named == [mmio EXCEPT !.c = AliasB0D4(@)]
           pstate == AddOwn(m, named, "intel_pstate")
           dram == AddOwn(m, AddOwn(m, pstate, "cpufreq"), "rapl_controller_dram")
<1>1. IsList(kernel)
  <2> DEFINE S == {i \in DOMAIN m.kcdevs : m.kcdevs[i].ok}
             o == Only(m.kcdevs, S)
  <2>1. IsFiniteSet(S) /\ S \subseteq Nat
    BY MachineFacts
  <2> HIDE DEF S
  <2>2. Selects(o, m.kcdevs, S)
    BY <2>1, OnlyProp
  <2>3. IsList(o)
    BY <2>2 DEF Selects
  <2>4. kernel = [i \in DOMAIN o |-> Cdev(o[i].type, o[i].n, "thermal")]
    BY DEF thd_read_default_cooling_devices, Each, S
  <2> HIDE DEF o
  <2> QED
    BY <2>3, <2>4, ListSame
<1> HIDE DEF kernel
<1>2. IsList(rapl.c)
  BY <1>1, AddOwnMore
<1>3. rapl = [c |-> rapl.c, n |-> rapl.n]
  BY DEF AddOwn
<1> HIDE DEF rapl
<1>4. IsList(mmio.c)
  BY <1>2, AddOwnMore
<1>5. mmio = [c |-> mmio.c, n |-> mmio.n]
  BY <1>3 DEF AddOwn
<1> HIDE DEF mmio
<1>6. IsList(named.c)
  <2>1. named.c = AliasB0D4(mmio.c)
    BY <1>5
  <2>2. mmio.c = [i \in DOMAIN mmio.c |-> mmio.c[i]]
    BY <1>4, ListDom
  <2>3. \E p : AliasB0D4(mmio.c) = mmio.c \/ AliasB0D4(mmio.c) = [mmio.c EXCEPT ![p].alias = "B0D4"]
    BY DEF AliasB0D4
  <2>4. PICK p : AliasB0D4(mmio.c) = mmio.c \/ AliasB0D4(mmio.c) = [mmio.c EXCEPT ![p].alias = "B0D4"]
    BY <2>3
  <2>5. IsList([mmio.c EXCEPT ![p].alias = "B0D4"])
    BY <1>4, <2>2, ListSame
  <2> QED
    BY <1>4, <2>1, <2>4, <2>5
<1> HIDE DEF named
<1>7. IsList(pstate.c)
  BY <1>6, AddOwnMore
<1> HIDE DEF pstate
<1>8. IsList(AddOwn(m, pstate, "cpufreq").c)
  BY <1>7, AddOwnMore
<1>9. IsList(dram.c)
  BY <1>8, AddOwnMore
<1>10. DefaultCdevs(m, conf) = IF search_cdev(dram.c, "LCD") # 0 THEN dram ELSE AddOwn(m, dram, "LCD")
  BY DEF DefaultCdevs, kernel, rapl, mmio, named, pstate
<1> HIDE DEF dram
<1> QED
  BY <1>9, <1>10, AddOwnMore

\* add_replace_cdev replaces a device in place or puts it at the end.
LEMMA ReplaceCdevMore ==
    ASSUME NEW m, NEW r, r = [c |-> r.c, n |-> r.n], IsList(r.c), NEW d
    PROVE  More(r.c, add_replace_cdev(m, r, d).c)
<1> DEFINE p == search_cdev(r.c, d.type)
           present == p # 0 /\ (d.path = "" \/ d.path = r.c[p].path)
           a == [r.c EXCEPT ![p] = Limited(@, d.min, d.max)]
           b == Append(r.c, Limited(Cdev(d.type, r.n, d.path), d.min, d.max))
<1> HIDE DEF p
<1>1. CASE present
  <2>1. add_replace_cdev(m, r, d) = [r EXCEPT !.c[p] = Limited(@, d.min, d.max)]
    BY <1>1 DEF add_replace_cdev, p
  <2>2. [r EXCEPT !.c[p] = Limited(@, d.min, d.max)].c = a
    OBVIOUS
  <2> QED
    BY <2>1, <2>2, MoreExcept
<1>2. CASE ~present /\ d.path \in m.paths
  <2>1. add_replace_cdev(m, r, d).c = b
    BY <1>2 DEF add_replace_cdev, p
  <2> QED
    BY <2>1, MoreAppend
<1>3. CASE ~present /\ d.path \notin m.paths
  <2>1. add_replace_cdev(m, r, d) = r
    BY <1>3 DEF add_replace_cdev, p
  <2> QED
    BY <2>1 DEF More
<1> QED
  BY <1>1, <1>2, <1>3

-----------------------------------------------------------------------------
\* The zones the daemon makes.
LEMMA SysfsZoneOk ==
    ASSUME NEW m \in Machines, NEW i \in DOMAIN m.kzones, NEW s, NEW cs, NEW k, NEW p \in DOMAIN s
    PROVE  LET kz == m.kzones[i]
               z == SysfsZone(s, k, kz, p)
           IN /\ ZoneOk(s, cs, z) /\ z.kernel = TRUE /\ z.index = kz.n /\ z.bound = <<p>>
              /\ z.initial = (IF kz.n \in DOMAIN k THEN k[kz.n] ELSE -1) /\ ~z.corelated
<1> DEFINE kz == m.kzones[i]
           S == {j \in DOMAIN kz.trips : ~kz.trips[j].writable /\ kz.trips[j].temp > 0}
           fixed == Only(kz.trips, S)
           read == [j \in DOMAIN fixed |-> Trip(fixed[j].type, fixed[j].temp, s[p].index)]
           ts == IF fixed = <<>> THEN <<Trip("PASSIVE", Inf, s[p].index)>> ELSE read
           z == SysfsZone(s, k, kz, p)
<1>1. /\ Len(kz.trips) \in Nat /\ DOMAIN kz.trips = 1..Len(kz.trips)
      /\ \A j \in DOMAIN kz.trips : kz.trips[j].temp \in Int
  BY MachinesAssumption
<1> HIDE DEF kz
<1>2. IsFiniteSet(S) /\ S \subseteq Nat
  <2>1. IsFiniteSet(1..Len(kz.trips))
    BY <1>1, FS_Interval
  <2>2. S \subseteq 1..Len(kz.trips)
    BY <1>1
  <2> HIDE DEF S
  <2>3. IsFiniteSet(S)
    BY <2>1, <2>2, FS_Subset
  <2> QED
    BY <1>1, <2>2, <2>3
<1>3. z = [Zone(kz.type, kz.n, TRUE) EXCEPT !.bound = <<p>>, !.trips = ts,
              !.initial = IF kz.n \in DOMAIN k THEN k[kz.n] ELSE -1]
  BY DEF SysfsZone, Each
<1>a. \A j \in S : kz.trips[j].temp \in Int
  BY <1>1
<1> HIDE DEF S
<1>4. Selects(fixed, kz.trips, S)
  BY <1>2, OnlyProp
<1>5. IsList(fixed) /\ \A j \in DOMAIN fixed : fixed[j].temp \in Int
  BY <1>4, <1>a DEF Selects
<1> HIDE DEF fixed
<1>6. IsList(<<p>>) /\ DOMAIN <<p>> = {1} /\ <<p>>[1] = p
  BY ListOne
<1>7. TripsOk(s, cs, <<p>>, ts)
  <2>1. \A type, temp : temp \in Int => TripOk(s, cs, <<p>>, Trip(type, temp, s[p].index))
    BY <1>6, NewTripOk
  <2>2. CASE fixed = <<>>
    <3>1. TripOk(s, cs, <<p>>, Trip("PASSIVE", Inf, s[p].index))
      BY <2>1, Inf \in Int DEF Inf
    <3> QED
      BY <2>2, <3>1, ListOne DEF TripsOk
  <2>3. CASE fixed # <<>>
    <3>1. IsList(read)
      BY <1>5, ListSame
    <3>2. \A j \in DOMAIN read : TripOk(s, cs, <<p>>, read[j])
      BY <1>5, <2>1
    <3> QED
      BY <2>3, <3>1, <3>2 DEF TripsOk
  <2> QED
    BY <2>2, <2>3
<1> HIDE DEF ts
<1>8. /\ DOMAIN z = ZoneFields /\ z.bound = <<p>> /\ z.trips = ts /\ z.kernel = TRUE /\ z.index = kz.n
      /\ z.initial = (IF kz.n \in DOMAIN k THEN k[kz.n] ELSE -1) /\ ~z.corelated
  BY <1>3 DEF Zone, ZoneFields
<1> HIDE DEF z
<1>9. ZoneOk(s, cs, z)
  BY <1>6, <1>7, <1>8 DEF ZoneOk
<1> QED
  BY <1>8, <1>9 DEF z, kz

\* The zone made over the processor's keeps what its destructor needs and is well formed.
LEMMA ProcessorZoneOk ==
    ASSUME NEW s, NEW cs, IsList(cs), NEW zs, ZonesOk(s, cs, zs), NEW z, ZoneOk(s, cs, z),
           HighPassive(z) # 0
    PROVE  /\ ZoneOk(s, cs, add_int340x_processor_dev(cs, zs, z))
           /\ AsRead(z, add_int340x_processor_dev(cs, zs, z))
<1> DEFINE t == HighPassive(z)
           crit == Critical(zs)
           y == [z EXCEPT !.trips[t].temp = crit - 15]
           low == IF crit # 0 /\ z.trips[t].temp + 5 >= crit THEN y ELSE z
           es == Named(cs, <<"rapl_controller", "intel_pstate", "intel_powerclamp", "Processor">>)
<1>1. add_int340x_processor_dev(cs, zs, z) = bind_cooling_device(cs, low, "PASSIVE", es)
  BY DEF add_int340x_processor_dev
<1>2. crit \in Int
  <2> DEFINE a == search_zone(zs, "acpitz")
             C == {i \in DOMAIN zs[a].trips : zs[a].trips[i].type = "CRITICAL"}
             c == IF a = 0 THEN 0 ELSE FirstIn(C)
  <2>1. crit = IF c = 0 THEN 0 ELSE zs[a].trips[c].temp
    BY DEF Critical, First
  <2>2. a # 0 => a \in DOMAIN zs
    BY ZoneFound DEF ZonesOk
  <2> HIDE DEF a
  <2>3. ASSUME c # 0 PROVE zs[a].trips[c].temp \in Int
    <3>1. a \in DOMAIN zs /\ c = FirstIn(C)
      BY <2>2, <2>3
    <3>2. TripsOk(s, cs, zs[a].bound, zs[a].trips)
      BY <3>1 DEF ZonesOk, ZoneOk
    <3>3. C \subseteq Nat
      BY <3>2, ListDom DEF TripsOk
    <3>4. FirstIn(C) \in C
      BY <3>3, <3>1, <2>3, FirstProp
    <3> HIDE DEF c
    <3> QED
      BY <3>1, <3>2, <3>4 DEF TripsOk, TripOk
  <2> HIDE DEF c
  <2> QED
    BY <2>1, <2>3
<1>3. t \in DOMAIN z.trips
  <2> DEFINE H == {i \in DOMAIN z.trips : z.trips[i].type = "PASSIVE" /\ z.trips[i].temp > MinPassive}
  <2>1. t = FirstIn(H)
    BY DEF HighPassive, First
  <2>2. H \subseteq Nat
    BY ListDom DEF ZoneOk, TripsOk
  <2>3. FirstIn(H) \in H
    BY <2>1, <2>2, FirstProp
  <2> QED
    BY <2>1, <2>3
<1>4. ZoneOk(s, cs, low) /\ AsRead(z, low)
  <2> DEFINE x == [z |-> z, k |-> <<>>]
             w == [x EXCEPT !.z.trips[t].temp = crit - 15]
  <2>1. IsPair(x) /\ x.z = z
    BY DEF IsPair
  <2>2. crit - 15 \in Int
    BY <1>2
  <2> HIDE DEF t, crit
  <2>3. w.z = y
    OBVIOUS
  <2>4. Builds(s, cs, x, w)
    <3> HIDE DEF x
    <3> QED
      BY <2>1, <2>2, <1>3, TempSetZone
  <2> HIDE DEF w, y
  <2>5. ZoneOk(s, cs, y) /\ AsRead(z, y)
    BY <2>1, <2>3, <2>4 DEF Builds, SameZone, ZoneFields, AsRead
  <2> QED
    BY <2>5 DEF AsRead
<1> HIDE DEF low
<1>5. Offered(cs, es)
  BY OfferedMade
<1> HIDE DEF es
<1>6. /\ ZoneOk(s, cs, bind_cooling_device(cs, low, "PASSIVE", es))
      /\ SameZone(bind_cooling_device(cs, low, "PASSIVE", es), low)
  BY <1>4, <1>5, BindCdevOk
<1> QED
  BY <1>1, <1>4, <1>6 DEF AsRead, SameZone, ZoneFields

\* The sensors of the CPU zone are sensors of the vector.
LEMMA CpuSensorsOk ==
    ASSUME NEW s, IsList(s)
    PROVE  IsList(CpuSensors(s)) /\ \A b \in DOMAIN CpuSensors(s) : CpuSensors(s)[b] \in DOMAIN s
<1> DEFINE fast == [i \in 1..3 |-> search_sensor(s, <<"pkg-temp-0", "x86_pkg_temp", "soc_dts0">>[i])]
           S == {i \in 1..3 : fast[i] # 0}
           found == Only(fast, S)
           hwmon == search_sensor(s, "hwmon")
<1>1. CpuSensors(s) = IF found # <<>> THEN found ELSE IF hwmon = 0 THEN <<>> ELSE <<hwmon>>
  BY DEF CpuSensors
<1>2. \A i \in 1..3 : fast[i] # 0 => fast[i] \in DOMAIN s
  BY SensorFound
<1> HIDE DEF fast
<1>3. IsFiniteSet(S) /\ S \subseteq Nat
  <2>0. \A a, b \in Int : IsFiniteSet(a..b)
    BY FS_Interval
  <2>a. 1 \in Int /\ 3 \in Int
    OBVIOUS
  <2>1. IsFiniteSet(1..3)
    BY <2>0, <2>a, Zenon
  <2>2. IsFiniteSet(S)
    BY <2>1, FS_Subset
  <2> QED
    BY <2>2
<1>4. Selects(found, fast, S)
  BY <1>3, OnlyProp
<1>5. IsList(found) /\ \A b \in DOMAIN found : found[b] \in DOMAIN s
  BY <1>2, <1>4 DEF Selects
<1>6. hwmon # 0 => hwmon \in DOMAIN s
  BY SensorFound
<1> HIDE DEF found, hwmon
<1> QED
  BY <1>1, <1>5, <1>6, ListEmpty, ListOne

\* The CPU zone is well formed and not the kernel's.
LEMMA CpuZoneOk ==
    ASSUME NEW m \in Machines, NEW s, IsList(s), NEW cs, IsList(cs), NEW n
    PROVE  /\ ZoneOk(s, cs, CpuZone(m, cs, s, n)) /\ CpuZone(m, cs, s, n).kernel = FALSE
<1> DEFINE crit == IF m.coretemp.crit = 0 THEN 100 ELSE m.coretemp.crit
           max == IF m.coretemp.max = 0 \/ crit - m.coretemp.max < 10 THEN crit - 10 ELSE m.coretemp.max
           mid == max + (crit - max) \div 2
           names == <<"rapl_controller", "intel_pstate", "intel_powerclamp", "cpufreq", "Processor">>
           passive == trip_cdev_add(cs, Trip("PASSIVE", mid, AnySensor), Named(cs, names))
           fan == trip_cdev_add(cs, Trip("ACTIVE", max, AnySensor), Named(cs, <<"Fan">>))
           ts == CpuTrips(m, cs)
           bound == CpuSensors(s)
           z == CpuZone(m, cs, s, n)
<1>1. m.coretemp.crit \in Int /\ m.coretemp.max \in Int
  BY MachinesAssumption
<1>2. crit \in Int /\ max \in Int /\ mid \in Int
  BY <1>1
<1>3. ts = IF fan.cdevs = {} THEN <<passive>> ELSE <<passive, fan>>
  BY DEF CpuTrips
<1> HIDE DEF crit, max, mid
<1>4. TripOk(s, cs, bound, passive) /\ TripOk(s, cs, bound, fan)
  <2>1. /\ TripOk(s, cs, bound, Trip("PASSIVE", mid, AnySensor))
        /\ TripOk(s, cs, bound, Trip("ACTIVE", max, AnySensor))
    BY <1>2, NewTripOk
  <2> QED
    BY <2>1, OfferedMade, TripAddOk
<1> HIDE DEF passive, fan
<1>5. TripsOk(s, cs, bound, ts)
  <2>1. TripsOk(s, cs, bound, <<passive>>)
    BY <1>4, ListOne DEF TripsOk
  <2>2. TripsOk(s, cs, bound, <<passive, fan>>)
    <3>1. <<passive, fan>> \in Seq({passive, fan})
      OBVIOUS
    <3>2. IsList(<<passive, fan>>)
      BY <3>1, ListOf
    <3>3. \A j \in DOMAIN <<passive, fan>> : <<passive, fan>>[j] = passive \/ <<passive, fan>>[j] = fan
      OBVIOUS
    <3> QED
      BY <1>4, <3>2, <3>3 DEF TripsOk
  <2> QED
    BY <1>3, <2>1, <2>2
<1>6. IsList(bound) /\ \A b \in DOMAIN bound : bound[b] \in DOMAIN s
  BY CpuSensorsOk
<1> HIDE DEF ts, bound
<1>7. DOMAIN z = ZoneFields /\ z.bound = bound /\ z.trips = ts /\ z.kernel = FALSE
  BY DEF CpuZone, Zone, ZoneFields, ts, bound
<1> HIDE DEF z
<1>8. ZoneOk(s, cs, z)
  BY <1>5, <1>6, <1>7 DEF ZoneOk
<1> QED
  BY <1>7, <1>8 DEF z

-----------------------------------------------------------------------------
(* Trips of the configuration, and the configuration.                       *)

\* A trip of the configuration whose sensor the zone has bound.
LEMMA ConfigTripOk ==
    ASSUME NEW s, NEW cs, IsList(cs), NEW bound, NEW b \in DOMAIN bound, NEW t, t.temp \in Int
    PROVE  TripOk(s, cs, bound, ConfigTrip(cs, s, t, bound[b]))
<1>1. TripOk(s, cs, bound, Trip(t.type, t.temp, s[bound[b]].index))
  BY NewTripOk
<1> QED
  BY <1>1, OfferedMade, TripAddOk DEF ConfigTrip

\* A well-formed trip put at the end.
LEMMA TripsAppend ==
    ASSUME NEW s, NEW cs, NEW bound, NEW ts, TripsOk(s, cs, bound, ts), NEW t, TripOk(s, cs, bound, t)
    PROVE  TripsOk(s, cs, bound, Append(ts, t))
<1> DEFINE n == Len(ts)
           us == Append(ts, t)
<1>1. IsList(ts) /\ n \in Nat /\ DOMAIN ts = 1..n
  BY ListDom DEF TripsOk
<1>2. IsList(us) /\ DOMAIN us = 1..(n + 1) /\ (\A i \in 1..n : us[i] = ts[i]) /\ us[n + 1] = t
  BY <1>1, ListAppend
<1> HIDE DEF n, us
<1>3. \A i \in 1..(n + 1) : i \in 1..n \/ i = n + 1
  BY <1>1
<1>4. TripsOk(s, cs, bound, us)
  BY <1>1, <1>2, <1>3 DEF TripsOk
<1> QED
  BY <1>4 DEF us

\* add_trip builds the zone, whether it changes a trip or adds one.
LEMMA AddTripOk ==
    ASSUME NEW m, NEW s, NEW cs, NEW x, IsPair(x), ZoneOk(s, cs, x.z), NEW trip,
           TripOk(s, cs, x.z.bound, trip)
    PROVE  Builds(s, cs, x, add_trip(m, s, x, trip))
<1> DEFINE j == First(x.z.trips, LAMBDA t : t.type = trip.type)
           ts == IF j = 0 THEN Append(x.z.trips, trip) ELSE [x.z.trips EXCEPT ![j] = trip]
           y == [x EXCEPT !.z.trips = ts]
<1>1. add_trip(m, s, x, trip) = sort_and_update_poll_trip(m, s, y)
  BY DEF add_trip
<1>2. TripsOk(s, cs, x.z.bound, x.z.trips)
  BY DEF ZoneOk
<1> HIDE DEF j
<1>3. TripsOk(s, cs, x.z.bound, ts)
  BY <1>2, TripsAppend, TripsExcept
<1> HIDE DEF ts
<1>4. Builds(s, cs, x, y)
  BY <1>3, TripsSet
<1> HIDE DEF y
<1>5. Builds(s, cs, y, sort_and_update_poll_trip(m, s, y))
  BY <1>4, SortOk DEF Builds
<1> QED
  BY <1>1, <1>4, <1>5, BuildsTrans

\* update_trip_temp builds the zone.
LEMMA UpdateTempOk ==
    ASSUME NEW m, NEW s, NEW cs, NEW x, IsPair(x), ZoneOk(s, cs, x.z), NEW t, t.temp \in Int
    PROVE  Builds(s, cs, x, update_trip_temp(m, s, x, t))
<1> DEFINE j == First(x.z.trips, LAMBDA y : y.type = t.type)
           y == IF j = 0 THEN x ELSE [x EXCEPT !.z.trips[j].temp = t.temp]
<1>1. update_trip_temp(m, s, x, t) = sort_and_update_poll_trip(m, s, y)
  BY DEF update_trip_temp
<1>2. IsList(x.z.trips)
  BY DEF ZoneOk, TripsOk
<1>3. j # 0 => j \in DOMAIN x.z.trips
  <2> DEFINE S == {i \in DOMAIN x.z.trips : x.z.trips[i].type = t.type}
  <2>1. j = FirstIn(S)
    BY DEF First
  <2>2. S \subseteq Nat
    BY <1>2, ListDom
  <2>3. FirstIn(S) = 0 \/ FirstIn(S) \in S
    BY <2>2, FirstProp
  <2> QED
    BY <2>1, <2>3
<1> HIDE DEF j
<1>4. Builds(s, cs, x, y)
  <2>1. CASE j = 0
    BY <2>1, BuildsSelf
  <2>2. CASE j # 0
    <3>1. Builds(s, cs, x, [x EXCEPT !.z.trips[j].temp = t.temp])
      BY <2>2, <1>3, TempSetZone
    <3> QED
      BY <2>2, <3>1
  <2> QED
    BY <2>1, <2>2
<1> HIDE DEF y
<1>5. Builds(s, cs, y, sort_and_update_poll_trip(m, s, y))
  BY <1>4, SortOk DEF Builds
<1> QED
  BY <1>1, <1>4, <1>5, BuildsTrans

\* The zone AddZoneRequest makes is well formed and not the kernel's.
LEMMA DynamicZoneOk ==
    ASSUME SensorsOk(sensors), IsList(cdevs), NEW q, q.temp \in Int, NEW i,
           NEW s \in DOMAIN sensors, NEW p \in DOMAIN cdevs
    PROVE  ZoneOk(sensors, cdevs, DynamicZone(q, i, s, p)) /\ DynamicZone(q, i, s, p).kernel = FALSE
<1> DEFINE t == trip_cdev_add(cdevs, Trip("PASSIVE", q.temp, sensors[s].index), <<Driven(p, 100, NoTarget)>>)
           z == DynamicZone(q, i, s, p)
<1>1. IsList(<<s>>) /\ DOMAIN <<s>> = {1} /\ <<s>>[1] = s
  BY ListOne
<1>2. TripOk(sensors, cdevs, <<s>>, Trip("PASSIVE", q.temp, sensors[s].index))
  BY <1>1, NewTripOk
<1>3. TripOk(sensors, cdevs, <<s>>, t)
  BY <1>2, OfferedMade, TripAddOk
<1>4. z = [Zone(q.name, i, FALSE) EXCEPT !.bound = <<s>>, !.trips = <<t>>]
  BY DEF DynamicZone
<1> HIDE DEF t
<1>5. DOMAIN z = ZoneFields /\ z.bound = <<s>> /\ z.trips = <<t>> /\ z.kernel = FALSE
  BY <1>4 DEF Zone, ZoneFields
<1> HIDE DEF z
<1>6. TripsOk(sensors, cdevs, <<s>>, <<t>>)
  BY <1>3, ListOne DEF TripsOk
<1>7. ZoneOk(sensors, cdevs, z)
  BY <1>1, <1>5, <1>6 DEF ZoneOk
<1> QED
  BY <1>5, <1>7 DEF z

-----------------------------------------------------------------------------
\* A configuration, wherever it comes from, has whole temperatures.
ConfigOk(c) ==
    \A i \in DOMAIN c.zones : \A j \in DOMAIN c.zones[i].trips : c.zones[i].trips[j].temp \in Int

\* Every platform the parser reads has whole temperatures: atoi gives one for any text.
LEMMA ParsedOk ==
    ASSUME NEW doc, NEW i \in DOMAIN doc
    PROVE  ConfigOk(parse_new_platform(doc)[i])
<1> DEFINE xs == Field(doc[i], "ThermalZones", <<>>)
           c == parse_new_platform(doc)[i]
           y(n) == Field(xs[n], "TripPoints", <<>>)
<1>1. c.zones = parse_thermal_zones(xs)
  BY DEF parse_new_platform, parse_new_platform_info
<1>2. \A v : atoi(v) \in Int
  BY DEF atoi
<1> HIDE DEF xs, c
<1>4. ASSUME NEW x PROVE parse_new_trip_point(x).temp \in Int
  <2>1. parse_new_trip_point(x).temp = atoi(Field(x, "Temperature", 0))
    BY DEF parse_new_trip_point
  <2> QED
    BY <2>1, <1>2
<1>3. ASSUME NEW n \in DOMAIN xs, NEW j \in DOMAIN c.zones[n].trips PROVE c.zones[n].trips[j].temp \in Int
  <2>1. c.zones[n].trips = [k \in DOMAIN y(n) |-> parse_new_trip_point(y(n)[k])]
    BY <1>1 DEF parse_thermal_zones, parse_new_zone, parse_trip_points, Each
  <2> HIDE DEF y
  <2>2. c.zones[n].trips[j] = parse_new_trip_point(y(n)[j])
    BY <2>1, <1>3
  <2> QED
    BY <2>2, <1>4
<1>5. DOMAIN c.zones = DOMAIN xs
  BY <1>1 DEF parse_thermal_zones
<1> QED
  BY <1>3, <1>5 DEF ConfigOk, c

\* platform_matched gives a platform of the document or none.
LEMMA MatchedOk ==
    ASSUME NEW list, DOMAIN list \subseteq Nat \ {0}, NEW dmi
    PROVE  platform_matched(list, dmi) # 0 => platform_matched(list, dmi) \in DOMAIN list
<1>1. \A S : S \subseteq DOMAIN list => FirstIn(S) = 0 \/ FirstIn(S) \in DOMAIN list
  BY FirstProp
<1> DEFINE uuid == {i \in DOMAIN list :
               dmi.uuid # "" /\ list[i].uuid # "" /\ list[i].uuid \in {"*", dmi.uuid}}
           name == {i \in DOMAIN list :
               /\ dmi.name # ""
               /\ list[i].name = "*" \/ (list[i].name = dmi.name /\ match_product_sku(list[i], dmi))}
           any == {i \in DOMAIN list : list[i].uuid # "" /\ list[i].name = "*"}
<1>2. platform_matched(list, dmi) = IF FirstIn(uuid) # 0 THEN FirstIn(uuid)
        ELSE IF FirstIn(name) # 0 THEN FirstIn(name) ELSE FirstIn(any)
  BY DEF platform_matched, First
<1>3. uuid \subseteq DOMAIN list /\ name \subseteq DOMAIN list /\ any \subseteq DOMAIN list
  OBVIOUS
<1> HIDE DEF uuid, name, any
<1> QED
  BY <1>1, <1>2, <1>3

\* The configuration a start uses, the user's or the generated one, has whole temperatures.
LEMMA ConfigureOk ==
    ASSUME machine \in Machines, Configure
    PROVE  ConfigOk(config')
<1> DEFINE list == parse_new_platform(Document)
           i == platform_matched(list, machine.dmi)
<1>1. DOMAIN Document \subseteq Nat \ {0}
  <2>1. DOMAIN Generated \subseteq Nat \ {0}
    <3>1. \A x : DOMAIN <<x>> = {1}
      OBVIOUS
    <3>2. NoDoc = <<>> /\ DOMAIN <<>> = {}
      BY DEF NoDoc
    <3>3. Generated = NoDoc \/ \E x : Generated = <<x>>
      BY DEF Generated, generate_conf, process_psvt, create_platform_conf
    <3> QED
      BY <3>1, <3>2, <3>3
  <2>2. DOMAIN machine.doc \subseteq Nat \ {0} /\ DOMAIN machine.confAuto \subseteq Nat \ {0}
    BY MachinesAssumption
  <2>3. Document \in {machine.confAuto, Generated, NoDoc, machine.doc}
    <3>1. CASE machine.confAuto # NoDoc
      BY <3>1 DEF Document
    <3>2. CASE machine.confAuto = NoDoc /\ auto = "whole"
      BY <3>2 DEF Document
    <3>3. CASE machine.confAuto = NoDoc /\ auto = "partial"
      BY <3>3 DEF Document
    <3>4. CASE machine.confAuto = NoDoc /\ auto # "whole" /\ auto # "partial"
      BY <3>4 DEF Document
    <3> QED
      BY <3>1, <3>2, <3>3, <3>4
  <2>4. DOMAIN NoDoc = {}
    BY DEF NoDoc
  <2> QED
    BY <2>1, <2>2, <2>3, <2>4
<1>2. config' = IF i = 0 THEN NoInfo ELSE list[i]
  BY DEF Configure
<1>3. DOMAIN list = DOMAIN Document
  BY DEF parse_new_platform
<1>4. i # 0 => i \in DOMAIN list
  <2> HIDE DEF list
  <2> QED
    BY <1>1, <1>3, MatchedOk
<1>5. i # 0 => ConfigOk(list[i])
  BY <1>3, <1>4, ParsedOk
<1>6. ConfigOk(NoInfo)
  BY DEF ConfigOk, NoInfo
<1> HIDE DEF i, list
<1> QED
  BY <1>2, <1>5, <1>6

-----------------------------------------------------------------------------
(* The vectors of the engine.                                               *)

(* The vectors hold objects that refer to each other within bounds. *)
ObjectsOk == SensorsOk(sensors) /\ IsList(cdevs) /\ ZonesOk(sensors, cdevs, zones)
(* The zone in the making. *)
MakingOk ==
    /\ making = [place |-> making.place, trip |-> making.trip, on |-> making.on, zone |-> making.zone]
    /\ ZoneOk(sensors, cdevs, making.zone) /\ making.zone.kernel = FALSE
    /\ making.place = 0 \/ making.place \in DOMAIN zones
    /\ making.trip # 0 => at \in DOMAIN config.zones
    /\ setupPhase # "config" => making = Idle
InputsOk ==
    /\ machine \in Machines /\ at \in Nat /\ ConfigOk(config)
    /\ \A n \in DOMAIN psv : psv[n] \in Int
PhaseOk == setupPhase \notin {"zones", "config", "run"} => zones = <<>>
SetupInv == ObjectsOk /\ MakingOk /\ InputsOk /\ PhaseOk

(* What a step that removes nothing does to the objects. *)
Sysfs(s, n) == \E p \in DOMAIN s : s[p].kind = "sysfs" /\ s[p].index = n
WritesKnown(s, k, l) == DOMAIN l = DOMAIN k /\ \A n \in DOMAIN k : l[n] = k[n] \/ Sysfs(s, n)
Growing ==
    /\ Keeps(sensors, sensors') /\ More(cdevs, cdevs') /\ ZonesOk(sensors', cdevs', zones')
    /\ DOMAIN zones \subseteq DOMAIN zones' /\ KernelSame(zones, zones')
    /\ WritesKnown(sensors, ktrip, ktrip')

\* A step that leaves the vectors alone removes nothing.
LEMMA GrowingSame ==
    ASSUME ObjectsOk, UNCHANGED <<sensors, cdevs, zones, ktrip>>
    PROVE  Growing
<1>1. Keeps(sensors, sensors)
  BY KeepsSelf DEF ObjectsOk
<1>2. KernelSame(zones, zones)
  BY DEF KernelSame, AsRead
<1>3. More(cdevs, cdevs) /\ WritesKnown(sensors, ktrip, ktrip)
  BY DEF ObjectsOk, More, WritesKnown
<1>4. ZonesOk(sensors, cdevs, zones)
  BY DEF ObjectsOk
<1> QED
  BY <1>1, <1>2, <1>3, <1>4 DEF Growing

\* A step that only keeps or adds sensors removes nothing.
LEMMA GrowingSensors ==
    ASSUME ObjectsOk, Keeps(sensors, sensors'), UNCHANGED <<cdevs, zones, ktrip>>
    PROVE  Growing
<1>1. ZonesOk(sensors', cdevs, zones)
  BY KeepsZone DEF ObjectsOk, ZonesOk
<1>2. KernelSame(zones, zones)
  BY DEF KernelSame, AsRead
<1>3. More(cdevs, cdevs) /\ WritesKnown(sensors, ktrip, ktrip)
  BY DEF ObjectsOk, More, WritesKnown
<1> QED
  BY <1>1, <1>2, <1>3 DEF Growing

\* A step that only replaces or adds devices removes nothing.
LEMMA GrowingCdevs ==
    ASSUME ObjectsOk, More(cdevs, cdevs'), UNCHANGED <<sensors, zones, ktrip>>
    PROVE  Growing
<1>1. Keeps(sensors, sensors)
  BY KeepsSelf DEF ObjectsOk
<1>2. ZonesOk(sensors, cdevs', zones)
  BY <1>1, KeepsZone DEF ObjectsOk, ZonesOk, More
<1>3. KernelSame(zones, zones)
  BY DEF KernelSame, AsRead
<1>4. WritesKnown(sensors, ktrip, ktrip)
  BY DEF WritesKnown
<1> QED
  BY <1>1, <1>2, <1>3, <1>4 DEF Growing

\* The registry grows, and the kernel's trips are written through sensors.
LEMMA GrowingZones ==
    ASSUME ObjectsOk, NEW q, Grows(cdevs, Registry, q), sensors' = q.s, zones' = q.zs,
           WritesKnown(sensors, ktrip, ktrip'), UNCHANGED cdevs
    PROVE  Growing
<1>1. Registry.s = sensors /\ Registry.zs = zones
  BY DEF Registry
<1>2. More(cdevs, cdevs)
  BY DEF ObjectsOk, More
<1> QED
  BY <1>1, <1>2 DEF Growing, Grows

\* The vectors as a registry.
LEMMA RegistryOk ==
    ASSUME ObjectsOk
    PROVE  /\ IsRegistry(Registry) /\ SensorsOk(Registry.s) /\ ZonesOk(Registry.s, cdevs, Registry.zs)
           /\ Registry.s = sensors /\ Registry.zs = zones
<1>1. IsRegistry(Registry) /\ Registry.s = sensors /\ Registry.zs = zones
  BY DEF Registry, IsRegistry
<1> QED
  BY <1>1 DEF ObjectsOk

\* Building a zone writes the kernel's trip only through a kernel sensor the zone has bound.
LEMMA BuildsKnown ==
    ASSUME NEW s, NEW cs, NEW x, ZoneOk(s, cs, x.z), NEW y, Builds(s, cs, x, y)
    PROVE  WritesKnown(s, x.k, y.k) /\ ZoneOk(s, cs, y.z) /\ AsRead(x.z, y.z) /\ y.z.kernel = x.z.kernel
<1>1. WritesPolled(s, x.z.bound, x.k, y.k)
  BY DEF Builds
<1>2. \A b \in DOMAIN x.z.bound : x.z.bound[b] \in DOMAIN s
  BY DEF ZoneOk
<1>3. WritesKnown(s, x.k, y.k)
  BY <1>1, <1>2 DEF WritesPolled, Polled, WritesKnown, Sysfs
<1>4. AsRead(x.z, y.z)
  BY DEF Builds, SameZone, ZoneFields, AsRead
<1> QED
  BY <1>3, <1>4 DEF Builds, AsRead

\* The same of zone_update as the start calls it.
LEMMA UpdatedOk ==
    ASSUME InputsOk, NEW s, IsList(cdevs), NEW z, ZoneOk(s, cdevs, z), NEW binds
    PROVE  LET x == Updated(s, z, binds)
           IN /\ WritesKnown(s, ktrip, x.k) /\ ZoneOk(s, cdevs, x.z) /\ AsRead(z, x.z)
              /\ WritesPolled(s, z.bound, ktrip, x.k)
<1> DEFINE w == [z |-> z, k |-> ktrip]
           x == Updated(s, z, binds)
<1>1. IsPair(w) /\ w.z = z /\ w.k = ktrip
  BY DEF IsPair
<1>2. x = zone_update(machine, cdevs, psv, s, w, binds)
  BY DEF Updated
<1> HIDE DEF w, x
<1>3. Builds(s, cdevs, w, x)
  BY <1>1, <1>2, UpdateOk DEF InputsOk
<1>4. WritesKnown(s, w.k, x.k) /\ ZoneOk(s, cdevs, x.z) /\ AsRead(w.z, x.z)
  BY <1>1, <1>3, BuildsKnown
<1> QED
  BY <1>1, <1>3, <1>4 DEF x, Builds

\* Registering a zone of the daemon's own removes nothing.
LEMMA RegistersGrowing ==
    ASSUME ObjectsOk, InputsOk, NEW z, ZoneOk(sensors, cdevs, z), z.kernel = FALSE,
           Registers(z), UNCHANGED cdevs
    PROVE  Growing
<1> DEFINE x == Updated(sensors, z, <<>>)
           q == Registered(Registry, x)
<1>1. WritesKnown(sensors, ktrip, x.k) /\ ZoneOk(sensors, cdevs, x.z) /\ AsRead(z, x.z)
  BY UpdatedOk DEF ObjectsOk
<1>2. sensors' = q.s /\ zones' = q.zs /\ ktrip' = x.k
  BY DEF Registers
<1> HIDE DEF x
<1>3. x.z.kernel = FALSE
  BY <1>1 DEF AsRead
<1>4. Grows(cdevs, Registry, q)
  BY <1>1, <1>3, RegistryOk, RegisteredGrows
<1> HIDE DEF q
<1> QED
  BY <1>1, <1>2, <1>4, GrowingZones

\* A zone changed in place, through x = [z, k].
LEMMA BecomesGrowing ==
    ASSUME ObjectsOk, Place \in DOMAIN zones, NEW x, Becomes(x), ZoneOk(sensors, cdevs, x.z),
           AsRead(zones[Place], x.z), WritesKnown(sensors, ktrip, x.k), UNCHANGED <<sensors, cdevs>>
    PROVE  Growing
<1> DEFINE q == [Registry EXCEPT !.zs[Place] = x.z]
<1>1. Grows(cdevs, Registry, q)
  BY RegistryOk, ReplaceGrows
<1>2. q.s = sensors /\ q.zs = [zones EXCEPT ![Place] = x.z]
  BY DEF Registry
<1>3. sensors' = q.s /\ zones' = q.zs /\ ktrip' = x.k
  BY <1>2 DEF Becomes
<1> HIDE DEF q
<1> QED
  BY <1>1, <1>3, GrowingZones

-----------------------------------------------------------------------------
(* The steps, one by one.                                                   *)

\* Objects that refer to each other within bounds still do after such a step.
LEMMA GrowingObjects ==
    ASSUME Growing
    PROVE  ObjectsOk'
BY DEF Growing, Keeps, More, ObjectsOk

\* Between zones of the configuration nothing is in the making.
LEMMA MakingRests ==
    ASSUME making' = Idle
    PROVE  MakingOk'
<1>1. ZoneOk(sensors', cdevs', Zone("", 0, FALSE))
  BY NewZoneOk
<1>2. /\ Idle = [place |-> Idle.place, trip |-> Idle.trip, on |-> Idle.on, zone |-> Idle.zone]
      /\ Idle.place = 0 /\ Idle.trip = 0 /\ Idle.zone = Zone("", 0, FALSE)
  BY DEF Idle
<1>3. Zone("", 0, FALSE).kernel = FALSE
  BY DEF Zone
<1> QED
  BY <1>1, <1>2, <1>3 DEF MakingOk

-----------------------------------------------------------------------------
\* The start, before the configured zones.
LEMMA ReadConfigSensorGrows ==
    ASSUME SetupInv, ReadConfigSensor
    PROVE  Growing
<1> DEFINE r == [s |-> sensors, n |-> next.sensor]
<1>1. r = [s |-> r.s, n |-> r.n] /\ r.s = sensors
  OBVIOUS
<1>2. sensors' = ConfigSensor(machine, r, config.sensors[at]).s /\ UNCHANGED <<cdevs, zones, ktrip>>
  BY DEF ReadConfigSensor
<1> HIDE DEF r
<1>3. Keeps(sensors, sensors')
  BY <1>1, <1>2, ConfigSensorKeeps DEF SetupInv, ObjectsOk
<1> QED
  BY <1>2, <1>3, GrowingSensors DEF SetupInv

\* Reading a device of the configuration.
LEMMA ReadConfigCdevGrows ==
    ASSUME SetupInv, ReadConfigCdev
    PROVE  Growing
<1> DEFINE r == [c |-> cdevs, n |-> next.cdev]
<1>1. r = [c |-> r.c, n |-> r.n] /\ r.c = cdevs
  OBVIOUS
<1>2. cdevs' = add_replace_cdev(machine, r, config.cdevs[at]).c /\ UNCHANGED <<sensors, zones, ktrip>>
  BY DEF ReadConfigCdev
<1> HIDE DEF r
<1>3. More(cdevs, cdevs')
  BY <1>1, <1>2, ReplaceCdevMore DEF SetupInv, ObjectsOk
<1> QED
  BY <1>2, <1>3, GrowingCdevs DEF SetupInv

\* The zone the processor zone is made over has a passive trip.
LEMMA ActingZoneFound ==
    ASSUME IsList(zones), ActingZone # 0
    PROVE  ActingZone \in DOMAIN zones /\ HighPassive(zones[ActingZone]) # 0
<1> DEFINE i == ProcessorZone(machine, zones)
<1>1. ActingZone = i /\ i # 0 /\ HighPassive(zones[i]) # 0
  BY DEF ActingZone
<1>2. \E n : i = search_zone(zones, n)
  BY <1>1 DEF ProcessorZone
<1> HIDE DEF i
<1> QED
  BY <1>1, <1>2, ZoneFound

\* Making the processor zone.
LEMMA ReadProcessorZoneGrows ==
    ASSUME SetupInv, ReadProcessorZone
    PROVE  Growing
<1> DEFINE i == ActingZone
           z == add_int340x_processor_dev(cdevs, zones, zones[i])
           q == [Registry EXCEPT !.zs[i] = z]
           r == SetActive(q, i, TRUE)
<1>1. i \in DOMAIN zones /\ HighPassive(zones[i]) # 0
  BY ActingZoneFound DEF ReadProcessorZone, SetupInv, ObjectsOk, ZonesOk
<1>2. sensors' = r.s /\ zones' = r.zs /\ UNCHANGED <<cdevs, ktrip>>
  BY DEF ReadProcessorZone, KernelZonesRead
<1> HIDE DEF i
<1>3. ZoneOk(sensors, cdevs, z) /\ AsRead(zones[i], z)
  BY <1>1, ProcessorZoneOk DEF SetupInv, ObjectsOk, ZonesOk
<1> HIDE DEF z
<1>4. Grows(cdevs, Registry, q)
  BY <1>1, <1>3, RegistryOk, ReplaceGrows DEF SetupInv
<1> HIDE DEF q
<1>5. Grows(cdevs, q, r)
  BY <1>4, SetActiveGrows DEF Grows, Keeps
<1>6. Grows(cdevs, Registry, r)
  BY <1>4, <1>5, GrowsTrans
<1> HIDE DEF r
<1>7. WritesKnown(sensors, ktrip, ktrip')
  BY <1>2 DEF WritesKnown
<1> QED
  BY <1>2, <1>6, <1>7, GrowingZones DEF SetupInv

\* Making the CPU zone.
LEMMA ReadCpuZoneGrows ==
    ASSUME SetupInv, ReadCpuZone
    PROVE  Growing
<1> DEFINE z == CpuZone(machine, cdevs, sensors, FirstIndex)
<1>1. ZoneOk(sensors, cdevs, z) /\ z.kernel = FALSE
  BY CpuZoneOk DEF SetupInv, InputsOk, ObjectsOk, SensorsOk
<1>2. Registers(z) /\ UNCHANGED cdevs
  BY DEF ReadCpuZone, KernelZonesRead
<1> HIDE DEF z
<1> QED
  BY <1>1, <1>2, RegistersGrowing DEF SetupInv

-----------------------------------------------------------------------------
\* The trips of a configured zone.
LEMMA WantedOk ==
    ASSUME SetupInv, TripStep
    PROVE  /\ WantedTrip.temp \in Int
           /\ TripSensor # 0 => TripSensor \in DOMAIN sensors
           /\ Place # 0 => Place \in DOMAIN zones /\ ZoneOk(sensors, cdevs, zones[Place])
<1>1. at \in DOMAIN config.zones /\ making.trip \in DOMAIN config.zones[at].trips
  BY DEF TripStep, SetupInv, MakingOk, Wanted
<1>2. WantedTrip.temp \in Int
  BY <1>1 DEF SetupInv, InputsOk, ConfigOk, WantedTrip, Wanted
<1>3. TripSensor # 0 => TripSensor \in DOMAIN sensors
  BY SensorFound DEF TripSensor, SetupInv, ObjectsOk, SensorsOk
<1> QED
  BY <1>2, <1>3 DEF Place, SetupInv, MakingOk, ObjectsOk, ZonesOk

\* A trip of the configuration whose sensor there is not.
LEMMA UnknownSensorTripGrows ==
    ASSUME SetupInv, UnknownSensorTrip
    PROVE  Growing
<1>1. TripStep /\ Place # 0 /\ UNCHANGED <<sensors, cdevs>>
  BY DEF UnknownSensorTrip, TripStep
<1>2. WantedTrip.temp \in Int /\ Place \in DOMAIN zones /\ ZoneOk(sensors, cdevs, zones[Place])
  BY <1>1, WantedOk
<1>3. CASE WantedTrip.temp = 0
  <2>1. UNCHANGED <<zones, ktrip>>
    BY <1>3 DEF UnknownSensorTrip
  <2> QED
    BY <1>1, <2>1, GrowingSame DEF SetupInv
<1>4. CASE WantedTrip.temp # 0
  <2> DEFINE x == [z |-> zones[Place], k |-> ktrip]
             y == update_trip_temp(machine, sensors, x, WantedTrip)
  <2>1. Becomes(y)
    BY <1>4 DEF UnknownSensorTrip
  <2>2. IsPair(x) /\ x.z = zones[Place] /\ x.k = ktrip
    BY DEF IsPair
  <2> HIDE DEF x
  <2>3. Builds(sensors, cdevs, x, y)
    BY <1>2, <2>2, UpdateTempOk
  <2> HIDE DEF y
  <2>4. WritesKnown(sensors, ktrip, y.k) /\ ZoneOk(sensors, cdevs, y.z) /\ AsRead(zones[Place], y.z)
    BY <1>2, <2>2, <2>3, BuildsKnown
  <2> QED
    BY <1>1, <1>2, <2>1, <2>4, BecomesGrowing DEF SetupInv
<1> QED
  BY <1>3, <1>4

\* A trip of the configuration added to a zone that exists.
LEMMA AddTripGrows ==
    ASSUME SetupInv, AddTrip
    PROVE  Growing
<1> DEFINE trip == ConfigTrip(cdevs, sensors, WantedTrip, TripSensor)
           z == bind_sensor(zones[Place], TripSensor)
           x == [z |-> z, k |-> ktrip]
           y == add_trip(machine, sensors, x, trip)
<1>1. TripStep /\ Place # 0 /\ TripSensor # 0 /\ Becomes(y) /\ UNCHANGED <<sensors, cdevs>>
  BY DEF AddTrip, TripStep
<1>2. /\ WantedTrip.temp \in Int /\ TripSensor \in DOMAIN sensors
      /\ Place \in DOMAIN zones /\ ZoneOk(sensors, cdevs, zones[Place])
  BY <1>1, WantedOk
<1>3. /\ ZoneOk(sensors, cdevs, z) /\ \E b \in DOMAIN z.bound : z.bound[b] = TripSensor
      /\ AsRead(zones[Place], z)
  BY <1>2, BindOk DEF ZoneFields, AsRead
<1> HIDE DEF z
<1>4. TripOk(sensors, cdevs, z.bound, trip)
  BY <1>2, <1>3, ConfigTripOk DEF SetupInv, ObjectsOk
<1>5. IsPair(x) /\ x.z = z /\ x.k = ktrip
  BY DEF IsPair
<1> HIDE DEF x, trip
<1>6. Builds(sensors, cdevs, x, y)
  BY <1>3, <1>4, <1>5, AddTripOk
<1> HIDE DEF y
<1>7. WritesKnown(sensors, ktrip, y.k) /\ ZoneOk(sensors, cdevs, y.z) /\ AsRead(z, y.z)
  BY <1>3, <1>5, <1>6, BuildsKnown
<1>8. AsRead(zones[Place], y.z)
  BY <1>3, <1>7 DEF AsRead
<1> QED
  BY <1>1, <1>2, <1>7, <1>8, BecomesGrowing DEF SetupInv

\* A trip of the configuration that only adds devices to one that exists.
LEMMA BindCdevsGrows ==
    ASSUME SetupInv, BindCdevs
    PROVE  Growing
<1> DEFINE es == Asked(cdevs, WantedTrip)
           z == bind_sensor(zones[Place], TripSensor)
           y == bind_cooling_device(cdevs, z, WantedTrip.type, es)
           x == [z |-> y, k |-> ktrip]
<1>1. TripStep /\ Place # 0 /\ TripSensor # 0 /\ Becomes(x) /\ UNCHANGED <<sensors, cdevs>>
  BY DEF BindCdevs, TripStep
<1>2. TripSensor \in DOMAIN sensors /\ Place \in DOMAIN zones /\ ZoneOk(sensors, cdevs, zones[Place])
  BY <1>1, WantedOk
<1>3. ZoneOk(sensors, cdevs, z) /\ AsRead(zones[Place], z)
  BY <1>2, BindOk DEF ZoneFields, AsRead
<1>4. Offered(cdevs, es)
  BY OfferedMade DEF SetupInv, ObjectsOk
<1> HIDE DEF z, es
<1>5. ZoneOk(sensors, cdevs, y) /\ SameZone(y, z)
  BY <1>3, <1>4, BindCdevOk
<1>6. x.z = y /\ x.k = ktrip
  OBVIOUS
<1> HIDE DEF x, y
<1>7. AsRead(zones[Place], x.z)
  BY <1>3, <1>5, <1>6 DEF AsRead, SameZone, ZoneFields
<1>8. WritesKnown(sensors, ktrip, x.k)
  BY <1>6 DEF WritesKnown
<1> QED
  BY <1>1, <1>2, <1>5, <1>6, <1>7, <1>8, BecomesGrowing DEF SetupInv

\* The end of a configured zone.
LEMMA EndsGrowing ==
    ASSUME ObjectsOk, NEW r, Grows(cdevs, Registry, r), EndsAs(r), WritesKnown(sensors, ktrip, ktrip'),
           UNCHANGED cdevs
    PROVE  Growing
<1> DEFINE q == disable_cpu_zone(r, Wanted, UsesGenerated)
<1>1. sensors' = q.s /\ zones' = q.zs
  BY DEF EndsAs
<1>2. Grows(cdevs, r, q)
  BY DisableGrows DEF Grows, Keeps
<1> HIDE DEF q
<1>3. Grows(cdevs, Registry, q)
  BY <1>2, GrowsTrans
<1> QED
  BY <1>1, <1>3, GrowingZones

\* The end of a zone that the configuration adds.
LEMMA EndNewZoneGrows ==
    ASSUME SetupInv, EndNewZone
    PROVE  Growing
<1> DEFINE x == Updated(sensors, making.zone, <<>>)
<1>1. EndsAs(Registered(Registry, x)) /\ ktrip' = x.k /\ UNCHANGED cdevs
  BY DEF EndNewZone, ZoneDone
<1>2. WritesKnown(sensors, ktrip, x.k) /\ ZoneOk(sensors, cdevs, x.z) /\ AsRead(making.zone, x.z)
  BY UpdatedOk DEF SetupInv, ObjectsOk, MakingOk
<1> HIDE DEF x
<1>3. x.z.kernel = FALSE
  BY <1>2 DEF SetupInv, MakingOk, AsRead
<1>4. Grows(cdevs, Registry, Registered(Registry, x))
  BY <1>2, <1>3, RegistryOk, RegisteredGrows DEF SetupInv
<1> QED
  BY <1>1, <1>2, <1>4, EndsGrowing DEF SetupInv

\* The end of a zone that existed.
LEMMA EndOldZoneGrows ==
    ASSUME SetupInv, EndOldZone
    PROVE  Growing
<1> DEFINE r == IF Place # 0 /\ making.on THEN SetActive(Registry, Place, TRUE) ELSE Registry
<1>1. EndsAs(r) /\ UNCHANGED <<cdevs, ktrip>>
  BY DEF EndOldZone, ZoneDone
<1>2. Grows(cdevs, Registry, r)
  BY RegistryOk, GrowsSelf, SetActiveGrows DEF SetupInv
<1> HIDE DEF r
<1>3. WritesKnown(sensors, ktrip, ktrip')
  BY <1>1 DEF WritesKnown
<1> QED
  BY <1>1, <1>2, <1>3, EndsGrowing DEF SetupInv

-----------------------------------------------------------------------------
\* The requests.
LEMMA AddSensorGrows ==
    ASSUME SetupInv, NEW q, AddSensor(q) \/ AddVirtualSensor(q.name, q.dep)
    PROVE  Growing
<1>1. UNCHANGED <<cdevs, zones, ktrip>>
  BY DEF AddSensor, AddVirtualSensor
<1> DEFINE a == Sensor(q.name, next.sensor, "raw")
           b == [Sensor(q.name, next.sensor, "virtual") EXCEPT !.links = 1]
           p == Exactly(q.name)
<1>2. \/ sensors' = sensors \/ sensors' = Append(sensors, a) \/ sensors' = Append(sensors, b)
      \/ sensors' = [sensors EXCEPT ![p].moved = TRUE]
      \/ sensors' = [sensors EXCEPT ![p].links = sensors[p].links + 1]
  BY DEF AddSensor, AddVirtualSensor, user_add_sensor, user_add_virtual_sensor
<1>3. /\ DOMAIN a = SensorFields /\ a.kind # "sysfs"
      /\ DOMAIN b = SensorFields /\ b.kind # "sysfs"
  BY DEF Sensor, SensorFields
<1>a. SensorsOk(sensors)
  BY DEF SetupInv, ObjectsOk
<1> HIDE DEF a, b, p
<1>b. Keeps(sensors, [sensors EXCEPT ![p].moved = TRUE])
  BY <1>a, KeepsExcept
<1>c. Keeps(sensors, [sensors EXCEPT ![p].links = sensors[p].links + 1])
  BY <1>a, KeepsExcept
<1>d. Keeps(sensors, Append(sensors, a)) /\ Keeps(sensors, Append(sensors, b))
  BY <1>a, <1>3, KeepsAppend
<1>4. Keeps(sensors, sensors')
  BY <1>2, <1>a, <1>b, <1>c, <1>d, KeepsSelf
<1> QED
  BY <1>1, <1>4, GrowingSensors DEF SetupInv

\* AddCoolingDevice replaces a device in place or adds one.
LEMMA AddCoolingDeviceGrows ==
    ASSUME SetupInv, NEW q, AddCoolingDevice(q)
    PROVE  Growing
<1> DEFINE r == [c |-> cdevs, n |-> next.cdev]
           p == search_cdev(cdevs, q.type)
<1>1. r = [c |-> r.c, n |-> r.n] /\ r.c = cdevs
  OBVIOUS
<1>2. /\ UNCHANGED <<sensors, zones, ktrip>>
      /\ \/ cdevs' = [cdevs EXCEPT ![p] = Limited(@, q.min, q.max)]
         \/ cdevs' = add_replace_cdev(machine, r, q).c
  BY DEF AddCoolingDevice, user_add_cdev
<1> HIDE DEF r, p
<1>3. More(cdevs, cdevs')
  <2>1. IsList(cdevs)
    BY DEF SetupInv, ObjectsOk
  <2>2. More(cdevs, add_replace_cdev(machine, r, q).c)
    BY <1>1, <2>1, ReplaceCdevMore
  <2>3. More(cdevs, [cdevs EXCEPT ![p] = Limited(@, q.min, q.max)])
    BY <2>1, MoreExcept
  <2> QED
    BY <1>2, <2>2, <2>3
<1> QED
  BY <1>2, <1>3, GrowingCdevs DEF SetupInv

\* AddZone updates the zone or adds one.
LEMMA AddZoneGrows ==
    ASSUME SetupInv, NEW q \in ZoneRequests, AddZone(q)
    PROVE  Growing
<1> DEFINE s == search_sensor(sensors, q.sensor)
           p == search_cdev(cdevs, q.cdev)
           z == DynamicZone(q, next.zone, s, p)
<1>1. UNCHANGED cdevs /\ q.temp \in Int
  BY RequestsAssumption DEF AddZone
<1>2. CASE s = 0 \/ p = 0
  <2>1. UNCHANGED <<sensors, zones, ktrip>>
    BY <1>2 DEF AddZone, user_add_zone
  <2> QED
    BY <1>1, <2>1, GrowingSame DEF SetupInv
<1>3. CASE ~(s = 0 \/ p = 0)
  <2>1. Registers(z)
    BY <1>3 DEF AddZone, user_add_zone
  <2>2. s \in DOMAIN sensors /\ p \in DOMAIN cdevs
    BY <1>3, SensorFound, CdevFound DEF SetupInv, ObjectsOk, SensorsOk
  <2> HIDE DEF s, p
  <2>3. ZoneOk(sensors, cdevs, z) /\ z.kernel = FALSE
    BY <1>1, <2>2, DynamicZoneOk DEF SetupInv, ObjectsOk
  <2> HIDE DEF z
  <2> QED
    BY <1>1, <2>1, <2>3, RegistersGrowing DEF SetupInv
<1> QED
  BY <1>2, <1>3

\* SetZoneStatus switches a zone.
LEMMA SetZoneStatusGrows ==
    ASSUME SetupInv, NEW n, NEW on, SetZoneStatus(n, on)
    PROVE  Growing
<1> DEFINE r == SetActive(Registry, get_zone(zones, n), on)
<1>1. sensors' = r.s /\ zones' = r.zs /\ UNCHANGED <<cdevs, ktrip>>
  BY DEF SetZoneStatus, user_set_zone_status
<1>2. Grows(cdevs, Registry, r)
  BY RegistryOk, SetActiveGrows DEF SetupInv
<1>3. WritesKnown(sensors, ktrip, ktrip')
  BY <1>1 DEF WritesKnown
<1> HIDE DEF r
<1> QED
  BY <1>1, <1>2, <1>3, GrowingZones DEF SetupInv

-----------------------------------------------------------------------------
(* The first inductive invariant.                                           *)

\* The steps that remove nothing.
LEMMA StartGrows ==
    ASSUME SetupInv,
           \/ Generate \/ EndGenerate \/ Configure \/ ReadConfigSensor \/ EndSensors
           \/ ReadConfigCdev \/ EndCdevs \/ ReadProcessorZone \/ ReadCpuZone \/ ReadNoCpuZone
           \/ BeginZone \/ NewZoneTrip \/ UnknownSensorTrip \/ AddTrip \/ BindCdevs
           \/ EndNewZone \/ EndOldZone \/ EndConfig \/ Start
    PROVE  Growing
<1>1. ASSUME UNCHANGED <<sensors, cdevs, zones, ktrip>> PROVE Growing
  BY <1>1, GrowingSame DEF SetupInv
<1>2. CASE Generate \/ EndGenerate \/ Configure
  BY <1>1, <1>2 DEF Generate, EndGenerate, Configure
<1>3. CASE EndSensors \/ EndCdevs \/ EndConfig \/ Start
  BY <1>1, <1>3 DEF EndSensors, EndCdevs, EndConfig, Start
<1>4. CASE ReadNoCpuZone
  BY <1>1, <1>4 DEF ReadNoCpuZone, KernelZonesRead
<1>5. CASE BeginZone \/ NewZoneTrip
  BY <1>1, <1>5 DEF BeginZone, NewZoneTrip, TripStep
<1> QED
  BY <1>2, <1>3, <1>4, <1>5, ReadConfigSensorGrows, ReadConfigCdevGrows, ReadProcessorZoneGrows,
     ReadCpuZoneGrows, UnknownSensorTripGrows, AddTripGrows, BindCdevsGrows, EndNewZoneGrows, EndOldZoneGrows

\* The requests but the one that deletes a zone.
AddsOnly ==
    \/ \E q \in SensorRequests : AddSensor(q) \/ AddVirtualSensor(q.name, q.dep)
    \/ \E q \in CdevRequests : AddCoolingDevice(q)
    \/ \E q \in ZoneRequests : AddZone(q)
    \/ \E q \in PsvRequests : SetPsv(q)
    \/ \E n \in ZoneNames : \E on \in BOOLEAN : SetZoneStatus(n, on)

\* No request but the deletion of a zone removes an object.
LEMMA RequestGrows ==
    ASSUME SetupInv, AddsOnly
    PROVE  Growing
<1>1. ASSUME NEW q, SetPsv(q) PROVE Growing
  BY <1>1, GrowingSame DEF SetPsv, SetupInv
<1> QED
  BY <1>1, AddSensorGrows, AddCoolingDeviceGrows, AddZoneGrows, SetZoneStatusGrows DEF AddsOnly

-----------------------------------------------------------------------------
\* The trips of a new zone.
LEMMA NewZoneTripMaking ==
    ASSUME SetupInv, NewZoneTrip
    PROVE  MakingOk'
<1> DEFINE p == TripSensor
           z == bind_sensor(making.zone, p)
           trip == ConfigTrip(cdevs, sensors, WantedTrip, p)
           y == [z EXCEPT !.trips = Append(@, trip)]
           w == IF p = 0 THEN making.zone ELSE IF WantedTrip.temp = 0 THEN z ELSE y
<1>1. TripStep /\ UNCHANGED <<zones, sensors, cdevs, config, at, setupPhase>>
  BY DEF NewZoneTrip, TripStep, files
<1>2. making' = [making EXCEPT !.trip = @ + 1, !.on = p # 0, !.zone = w]
  BY DEF NewZoneTrip
<1>3. ZoneOk(sensors, cdevs, making.zone) /\ making.zone.kernel = FALSE /\ at \in DOMAIN config.zones
      /\ setupPhase = "config"
  BY <1>1 DEF SetupInv, MakingOk, TripStep
<1>4. WantedTrip.temp \in Int /\ (p # 0 => p \in DOMAIN sensors)
  BY <1>1, WantedOk
<1> HIDE DEF p
<1>5. ASSUME p # 0
      PROVE  /\ ZoneOk(sensors, cdevs, z) /\ z.kernel = FALSE
             /\ ZoneOk(sensors, cdevs, y) /\ y.kernel = FALSE
  <2>1. /\ ZoneOk(sensors, cdevs, z) /\ z.kernel = FALSE
        /\ \E b \in DOMAIN z.bound : z.bound[b] = p
    BY <1>3, <1>4, <1>5, BindOk DEF ZoneFields
  <2> HIDE DEF z
  <2>2. TripOk(sensors, cdevs, z.bound, trip)
    BY <1>4, <2>1, ConfigTripOk DEF SetupInv, ObjectsOk
  <2> HIDE DEF trip
  <2>3. TripsOk(sensors, cdevs, z.bound, Append(z.trips, trip))
    BY <2>1, <2>2, TripsAppend DEF ZoneOk
  <2>4. /\ DOMAIN y = ZoneFields /\ y.bound = z.bound /\ y.trips = Append(z.trips, trip)
        /\ y.kernel = z.kernel
    BY <2>1 DEF ZoneOk, ZoneFields
  <2> HIDE DEF y
  <2> QED
    BY <2>1, <2>3, <2>4 DEF ZoneOk
<1> HIDE DEF z, y
<1>6. ZoneOk(sensors, cdevs, w) /\ w.kernel = FALSE
  BY <1>3, <1>5
<1> HIDE DEF w
<1>7. /\ making' = [place |-> making.place, trip |-> making.trip + 1, on |-> p # 0, zone |-> w]
  BY <1>2 DEF SetupInv, MakingOk
<1>8. making.place = 0 \/ making.place \in DOMAIN zones
  BY DEF SetupInv, MakingOk
<1> QED
  BY <1>1, <1>3, <1>6, <1>7, <1>8 DEF MakingOk

\* The trips of a zone that exists.
LEMMA OldZoneTripMaking ==
    ASSUME SetupInv, Growing, TripStep, NEW on, making' = [making EXCEPT !.trip = @ + 1, !.on = on]
    PROVE  MakingOk'
<1>1. UNCHANGED <<config, at, setupPhase>> /\ setupPhase = "config"
  BY DEF TripStep, files
<1>2. making' = [place |-> making.place, trip |-> making.trip + 1, on |-> on, zone |-> making.zone]
  BY DEF SetupInv, MakingOk
<1>3. ZoneOk(sensors, cdevs, making.zone) /\ making.zone.kernel = FALSE /\ at \in DOMAIN config.zones
  BY DEF SetupInv, MakingOk, TripStep
<1>4. ZoneOk(sensors', cdevs', making.zone)
  BY <1>3, KeepsZone DEF Growing, More
<1>5. making.place = 0 \/ making.place \in DOMAIN zones'
  BY DEF SetupInv, MakingOk, Growing
<1> QED
  BY <1>1, <1>2, <1>3, <1>4, <1>5 DEF MakingOk

\* A zone of the configuration is begun with one that exists or with none.
LEMMA BeginZoneMaking ==
    ASSUME SetupInv, BeginZone
    PROVE  MakingOk'
<1> DEFINE z == Zone(Wanted.type, next.zone, FALSE)
           p == search_zone(zones, Wanted.type)
<1>1. making' = [place |-> p, trip |-> 1, on |-> FALSE, zone |-> z]
  BY DEF BeginZone
<1>2. /\ UNCHANGED <<config, at, setupPhase, sensors, cdevs, zones>> /\ setupPhase = "config"
      /\ at \in DOMAIN config.zones
  BY DEF BeginZone, files
<1>3. ZoneOk(sensors, cdevs, z) /\ z.kernel = FALSE
  BY NewZoneOk DEF Zone
<1>4. p = 0 \/ p \in DOMAIN zones
  BY ZoneFound DEF SetupInv, ObjectsOk, ZonesOk
<1> HIDE DEF p, z
<1> QED
  BY <1>1, <1>2, <1>3, <1>4 DEF MakingOk

-----------------------------------------------------------------------------
\* The invariant holds when the daemon has not started.
LEMMA SetupInvInit == SetupInit => SetupInv
<1> SUFFICES ASSUME SetupInit PROVE SetupInv
  OBVIOUS
<1>1. ObjectsOk
  BY ListEmpty DEF SetupInit, ObjectsOk, SensorsOk, ZonesOk
<1>2. MakingOk
  <2>1. ZoneOk(sensors, cdevs, Zone("", 0, FALSE))
    BY NewZoneOk
  <2>2. /\ Idle = [place |-> Idle.place, trip |-> Idle.trip, on |-> Idle.on, zone |-> Idle.zone]
        /\ Idle.place = 0 /\ Idle.trip = 0 /\ Idle.zone = Zone("", 0, FALSE)
    BY DEF Idle
  <2>3. Zone("", 0, FALSE).kernel = FALSE
    BY DEF Zone
  <2> QED
    BY <2>1, <2>2, <2>3 DEF MakingOk, SetupInit
<1>3. InputsOk /\ PhaseOk
  <2>1. ConfigOk(NoInfo)
    BY DEF ConfigOk, NoInfo
  <2>2. DOMAIN <<>> = {}
    BY ListEmpty
  <2> QED
    BY <2>1, <2>2 DEF SetupInit, InputsOk, PhaseOk
<1> QED
  BY <1>1, <1>2, <1>3 DEF SetupInv

\* Every step of the start that removes nothing keeps the invariant.
LEMMA StartStepInv ==
    ASSUME SetupInv,
           \/ Generate \/ EndGenerate \/ Configure \/ ReadConfigSensor \/ EndSensors
           \/ ReadConfigCdev \/ EndCdevs \/ ReadProcessorZone \/ ReadCpuZone \/ ReadNoCpuZone
           \/ BeginZone \/ NewZoneTrip \/ UnknownSensorTrip \/ AddTrip \/ BindCdevs
           \/ EndNewZone \/ EndOldZone \/ EndConfig \/ Start
    PROVE  SetupInv'
<1>1. Growing
  BY StartGrows
<1>2. ObjectsOk'
  BY <1>1, GrowingObjects
<1>3. MakingOk'
  <2>0. setupPhase # "config" => making = Idle
    BY DEF SetupInv, MakingOk
  <2>1. CASE BeginZone
    BY <2>1, BeginZoneMaking
  <2>2. CASE NewZoneTrip
    BY <2>2, NewZoneTripMaking
  <2>3. CASE UnknownSensorTrip
    <3>1. TripStep /\ making' = [making EXCEPT !.trip = @ + 1, !.on = making.on]
      BY <2>3 DEF UnknownSensorTrip, SetupInv, MakingOk
    <3> QED
      BY <1>1, <3>1, OldZoneTripMaking
  <2>4. CASE AddTrip
    <3>1. TripStep /\ \E on : making' = [making EXCEPT !.trip = @ + 1, !.on = on]
      BY <2>4 DEF AddTrip
    <3> QED
      BY <1>1, <3>1, OldZoneTripMaking
  <2>5. CASE BindCdevs
    <3>1. TripStep /\ \E on : making' = [making EXCEPT !.trip = @ + 1, !.on = on]
      BY <2>5 DEF BindCdevs
    <3> QED
      BY <1>1, <3>1, OldZoneTripMaking
  <2>6. CASE EndNewZone \/ EndOldZone
    BY <2>6, MakingRests DEF EndNewZone, EndOldZone, ZoneDone
  <2>7. CASE Generate \/ EndGenerate \/ Configure \/ Start
    BY <2>0, <2>7, MakingRests DEF Generate, EndGenerate, Configure, Start, cursor
  <2>8. CASE ReadConfigSensor \/ EndSensors \/ ReadConfigCdev \/ EndCdevs
    BY <2>0, <2>8, MakingRests DEF ReadConfigSensor, EndSensors, ReadConfigCdev, EndCdevs
  <2>9. CASE ReadProcessorZone \/ ReadCpuZone \/ ReadNoCpuZone
    BY <2>0, <2>9, MakingRests DEF ReadProcessorZone, ReadCpuZone, ReadNoCpuZone, KernelZonesRead
  <2>10. CASE EndConfig
    BY <2>10, MakingRests DEF EndConfig
  <2> QED
    BY <2>1, <2>2, <2>3, <2>4, <2>5, <2>6, <2>7, <2>8, <2>9, <2>10
<1>4. InputsOk'
  <2>0. machine \in Machines /\ at \in Nat /\ ConfigOk(config) /\ \A n \in DOMAIN psv : psv[n] \in Int
    BY DEF SetupInv, InputsOk
  <2>1. CASE Configure
    <3>1. ConfigOk(config')
      BY <2>0, <2>1, ConfigureOk
    <3> QED
      BY <2>0, <2>1, <3>1 DEF Configure, InputsOk, cursor, outside
  <2>2. ASSUME UNCHANGED <<machine, config, psv>>, at' \in Nat PROVE InputsOk'
    BY <2>0, <2>2 DEF InputsOk
  <2>3. CASE Generate \/ EndGenerate \/ Start
    BY <2>0, <2>2, <2>3 DEF Generate, EndGenerate, Start, cursor, outside, files
  <2>4. CASE ReadConfigSensor \/ ReadConfigCdev
    <3>1. at + 1 \in Nat
      BY <2>0
    <3> QED
      BY <2>2, <2>4, <3>1 DEF ReadConfigSensor, ReadConfigCdev, outside, files
  <2>5. CASE EndSensors \/ EndCdevs \/ EndConfig
    BY <2>2, <2>5 DEF EndSensors, EndCdevs, EndConfig, outside, files
  <2>6. CASE ReadProcessorZone \/ ReadCpuZone \/ ReadNoCpuZone
    <3>1. KernelZonesRead
      BY <2>6 DEF ReadProcessorZone, ReadCpuZone, ReadNoCpuZone
    <3> QED
      BY <2>2, <3>1 DEF KernelZonesRead, outside, files
  <2>7. CASE BeginZone \/ NewZoneTrip \/ UnknownSensorTrip \/ AddTrip \/ BindCdevs
    BY <2>0, <2>2, <2>7 DEF BeginZone, NewZoneTrip, UnknownSensorTrip, AddTrip, BindCdevs, TripStep,
                            outside, files
  <2>8. CASE EndNewZone \/ EndOldZone
    <3>1. at + 1 \in Nat
      BY <2>0
    <3> QED
      BY <2>2, <2>8, <3>1 DEF EndNewZone, EndOldZone, ZoneDone, outside, files
  <2> QED
    BY <2>1, <2>3, <2>4, <2>5, <2>6, <2>7, <2>8
<1>5. PhaseOk'
  <2>0. setupPhase \notin {"zones", "config", "run"} => zones = <<>>
    BY DEF SetupInv, PhaseOk
  <2>1. CASE Generate \/ EndGenerate \/ Configure \/ Start
    BY <2>0, <2>1 DEF Generate, EndGenerate, Configure, Start, PhaseOk
  <2>2. CASE ReadConfigSensor \/ EndSensors \/ ReadConfigCdev \/ EndCdevs
    BY <2>0, <2>2 DEF ReadConfigSensor, EndSensors, ReadConfigCdev, EndCdevs, PhaseOk
  <2>3. CASE ReadProcessorZone \/ ReadCpuZone \/ ReadNoCpuZone
    BY <2>3 DEF ReadProcessorZone, ReadCpuZone, ReadNoCpuZone, KernelZonesRead, PhaseOk
  <2>4. CASE BeginZone \/ NewZoneTrip \/ UnknownSensorTrip \/ AddTrip \/ BindCdevs
    BY <2>4 DEF BeginZone, NewZoneTrip, UnknownSensorTrip, AddTrip, BindCdevs, TripStep, PhaseOk
  <2>5. CASE EndNewZone \/ EndOldZone
    BY <2>5 DEF EndNewZone, EndOldZone, ZoneDone, PhaseOk
  <2>6. CASE EndConfig
    BY <2>6 DEF EndConfig, PhaseOk
  <2> QED
    BY <2>1, <2>2, <2>3, <2>4, <2>5, <2>6
<1> QED
  BY <1>2, <1>3, <1>4, <1>5 DEF SetupInv

-----------------------------------------------------------------------------
(* The other steps, and the first theorem.                                  *)

\* Every request but the deletion of a zone keeps the invariant.
LEMMA RequestStepInv ==
    ASSUME SetupInv, AddsOnly
    PROVE  SetupInv'
<1>1. Growing
  BY RequestGrows
<1>2. ObjectsOk'
  BY <1>1, GrowingObjects
<1>3. DBusRequest
  BY DEF AddsOnly, AddSensor, AddVirtualSensor, AddCoolingDevice, AddZone, SetPsv, SetZoneStatus
<1>4. setupPhase = "run" /\ UNCHANGED <<machine, config, setupPhase, at, making>>
  BY <1>3 DEF DBusRequest, files, cursor
<1>5. MakingOk'
  BY <1>4, MakingRests DEF SetupInv, MakingOk
<1>6. \A n \in DOMAIN psv' : psv'[n] \in Int
  <2>0. \A n \in DOMAIN psv : psv[n] \in Int
    BY DEF SetupInv, InputsOk
  <2>1. ASSUME NEW q \in PsvRequests, SetPsv(q) PROVE \A n \in DOMAIN psv' : psv'[n] \in Int
    BY <2>0, <2>1, RequestsAssumption DEF SetPsv
  <2>2. (\E q \in PsvRequests : SetPsv(q)) \/ UNCHANGED psv
    BY DEF AddsOnly, AddSensor, AddVirtualSensor, AddCoolingDevice, AddZone, SetZoneStatus
  <2> QED
    BY <2>0, <2>1, <2>2
<1>7. InputsOk'
  BY <1>4, <1>6 DEF SetupInv, InputsOk
<1>8. PhaseOk'
  BY <1>4 DEF PhaseOk
<1> QED
  BY <1>2, <1>5, <1>7, <1>8 DEF SetupInv

\* Deleting a zone keeps the invariant: no object refers to a zone.
LEMMA DeleteZoneInv ==
    ASSUME SetupInv, NEW n, DeleteZone(n)
    PROVE  SetupInv'
<1> DEFINE i == get_zone(zones, n)
<1>1. i \in DOMAIN zones
  BY ZoneFound DEF DeleteZone, SetupInv, ObjectsOk, ZonesOk
<1>2. /\ setupPhase = "run" /\ UNCHANGED <<machine, config, setupPhase, at, making, psv, sensors, cdevs>>
      /\ zones' = RemoveAt(zones, i)
  BY DEF DeleteZone, DBusRequest, files, cursor
<1> HIDE DEF i
<1>3. IsList(zones') /\ \A j \in DOMAIN zones' : \E k \in DOMAIN zones : zones'[j] = zones[k]
  BY <1>1, <1>2, ListRemove DEF SetupInv, ObjectsOk, ZonesOk
<1>4. ObjectsOk'
  BY <1>2, <1>3 DEF SetupInv, ObjectsOk, ZonesOk
<1>5. MakingOk'
  BY <1>2, MakingRests DEF SetupInv, MakingOk
<1>6. InputsOk' /\ PhaseOk'
  BY <1>2 DEF SetupInv, InputsOk, PhaseOk
<1> QED
  BY <1>4, <1>5, <1>6 DEF SetupInv

\* A daemon that is gone has no objects.
LEMMA GoneInv ==
    ASSUME SetupInv, Gone
    PROVE  SetupInv'
<1>1. ObjectsOk'
  BY ListEmpty DEF Gone, ObjectsOk, SensorsOk, ZonesOk
<1>2. MakingOk'
  BY MakingRests DEF Gone
<1>3. ConfigOk(NoInfo)
  BY DEF ConfigOk, NoInfo
<1>4. InputsOk' /\ PhaseOk'
  BY <1>3 DEF Gone, SetupInv, InputsOk, PhaseOk
<1> QED
  BY <1>1, <1>2, <1>4 DEF SetupInv

\* A start that reads sensors or devices anew has no zones that refer to the old ones.
LEMMA ReadSensorsInv ==
    ASSUME SetupInv, ReadSensors \/ ReadCdevs
    PROVE  SetupInv'
<1>1. /\ machine \in Machines /\ zones = <<>> /\ making = Idle /\ at' \in Nat
      /\ UNCHANGED <<machine, config, psv, setupPhase, making, zones>>
  BY DEF ReadSensors, ReadCdevs, SetupInv, PhaseOk, InputsOk, MakingOk, files, outside
<1>2. ObjectsOk'
  <2>1. ZonesOk(sensors', cdevs', zones')
    BY <1>1, ListEmpty DEF ZonesOk
  <2>2. CASE ReadSensors
    <3>1. SensorsOk(sensors') /\ IsList(cdevs')
      BY <1>1, <2>2, DefaultSensorsRead DEF ReadSensors, SetupInv, ObjectsOk
    <3> QED
      BY <2>1, <3>1 DEF ObjectsOk
  <2>3. CASE ReadCdevs
    <3>1. SensorsOk(sensors') /\ IsList(cdevs')
      BY <1>1, <2>3, DefaultCdevsList DEF ReadCdevs, SetupInv, ObjectsOk
    <3> QED
      BY <2>1, <3>1 DEF ObjectsOk
  <2> QED
    BY <2>2, <2>3
<1>3. MakingOk'
  BY <1>1, MakingRests
<1>4. InputsOk' /\ PhaseOk'
  BY <1>1 DEF SetupInv, InputsOk, PhaseOk
<1> QED
  BY <1>2, <1>3, <1>4 DEF SetupInv

\* What reading a kernel zone adds.
LEMMA KernelZoneRead ==
    ASSUME SetupInv, ReadKernelZone
    PROVE  LET kz == machine.kzones[at]
               p == search_sensor(sensors, kz.type)
           IN IF p = 0 THEN UNCHANGED <<sensors, zones, ktrip>>
              ELSE /\ p \in DOMAIN sensors /\ Keeps(sensors, sensors')
                   /\ \E z : /\ zones' = Append(zones, z) /\ ZoneOk(sensors', cdevs, z)
                             /\ z.kernel = TRUE /\ z.index = kz.n
                             /\ z.initial = (IF kz.n \in DOMAIN ktrip THEN ktrip[kz.n] ELSE -1)
                             /\ ~z.corelated
                   /\ DOMAIN ktrip' = DOMAIN ktrip
                   /\ \A n \in DOMAIN ktrip :
                        \/ ktrip'[n] = ktrip[n]
                        \/ sensors[p].kind = "sysfs" /\ sensors[p].index = n
<1> DEFINE kz == machine.kzones[at]
           p == search_sensor(sensors, kz.type)
           s == WithWritable(sensors, kz, p)
           y == SysfsZone(s, ktrip, kz, p)
           x == Updated(s, y, kz.binds)
<1>1. at \in DOMAIN machine.kzones /\ machine \in Machines /\ IsList(sensors) /\ IsList(cdevs)
  BY DEF ReadKernelZone, SetupInv, InputsOk, ObjectsOk, SensorsOk
<1>2. p # 0 => p \in DOMAIN sensors
  BY <1>1, SensorFound
<1>3. IF p = 0 THEN UNCHANGED <<sensors, zones, ktrip>>
      ELSE sensors' = s /\ zones' = Append(zones, x.z) /\ ktrip' = x.k
  BY DEF ReadKernelZone
<1>4. CASE p = 0
  BY <1>3, <1>4
<1>5. CASE p # 0
  <2>1. Keeps(sensors, s)
    <3>1. s = sensors \/ s = [sensors EXCEPT ![p].async = TRUE]
      BY DEF WithWritable, SetAsync
    <3>2. Keeps(sensors, sensors) /\ Keeps(sensors, [sensors EXCEPT ![p].async = TRUE])
      BY KeepsSelf, KeepsExcept DEF SetupInv, ObjectsOk
    <3> HIDE DEF s
    <3> QED
      BY <3>1, <3>2
  <2>a. p \in DOMAIN s
    BY <1>2, <1>5, <2>1 DEF Keeps
  <2> HIDE DEF s, p
  <2>2. /\ ZoneOk(s, cdevs, y) /\ y.kernel = TRUE /\ y.index = kz.n /\ y.bound = <<p>>
        /\ y.initial = (IF kz.n \in DOMAIN ktrip THEN ktrip[kz.n] ELSE -1) /\ ~y.corelated
    BY <1>1, <2>a, SysfsZoneOk
  <2> HIDE DEF y
  <2>3. ZoneOk(s, cdevs, x.z) /\ AsRead(y, x.z) /\ WritesPolled(s, y.bound, ktrip, x.k)
    BY <1>1, <2>2, UpdatedOk DEF SetupInv
  <2> HIDE DEF x
  <2>4. x.z.kernel = TRUE /\ x.z.index = kz.n /\ x.z.initial = y.initial /\ ~x.z.corelated
    BY <2>2, <2>3 DEF AsRead
  <2>5. DOMAIN <<p>> = {1} /\ <<p>>[1] = p
    BY ListOne
  <2>6. s[p].kind = sensors[p].kind /\ s[p].index = sensors[p].index
    BY <1>2, <1>5, <2>1 DEF Keeps
  <2>7. /\ DOMAIN x.k = DOMAIN ktrip
        /\ \A n \in DOMAIN ktrip : x.k[n] = ktrip[n] \/ (sensors[p].kind = "sysfs" /\ sensors[p].index = n)
    BY <2>2, <2>3, <2>5, <2>6 DEF WritesPolled, Polled
  <2>8. sensors' = s /\ zones' = Append(zones, x.z) /\ ktrip' = x.k
    BY <1>3, <1>5
  <2>9. \E z : /\ zones' = Append(zones, z) /\ ZoneOk(sensors', cdevs, z)
               /\ z.kernel = TRUE /\ z.index = kz.n
               /\ z.initial = (IF kz.n \in DOMAIN ktrip THEN ktrip[kz.n] ELSE -1)
               /\ ~z.corelated
    BY <2>2, <2>3, <2>4, <2>8
  <2> QED
    BY <1>2, <1>5, <2>1, <2>7, <2>8, <2>9 DEF p
<1> QED
  BY <1>4, <1>5

\* Reading a kernel zone keeps the invariant.
LEMMA ReadKernelZoneInv ==
    ASSUME SetupInv, ReadKernelZone
    PROVE  SetupInv'
<1>1. /\ setupPhase = "zones" /\ making = Idle /\ at' \in Nat
      /\ UNCHANGED <<machine, config, psv, setupPhase, making, cdevs>>
  <2>1. at + 1 \in Nat
    BY DEF SetupInv, InputsOk
  <2> QED
    BY <2>1 DEF ReadKernelZone, SetupInv, MakingOk, files, outside
<1>2. ObjectsOk'
  <2> DEFINE p == search_sensor(sensors, machine.kzones[at].type)
  <2>1. CASE p = 0
    <3>1. UNCHANGED <<sensors, zones>>
      BY <2>1, KernelZoneRead
    <3> QED
      BY <1>1, <3>1 DEF SetupInv, ObjectsOk
  <2>2. CASE p # 0
    <3>1. Keeps(sensors, sensors') /\ \E z : zones' = Append(zones, z) /\ ZoneOk(sensors', cdevs, z)
      BY <2>2, KernelZoneRead
    <3>2. PICK z : zones' = Append(zones, z) /\ ZoneOk(sensors', cdevs, z)
      BY <3>1
    <3> DEFINE n == Len(zones)
    <3>3. IsList(zones) /\ n \in Nat /\ DOMAIN zones = 1..n
      BY ListDom DEF SetupInv, ObjectsOk, ZonesOk
    <3>4. /\ IsList(zones') /\ DOMAIN zones' = 1..(n + 1)
          /\ (\A i \in 1..n : zones'[i] = zones[i]) /\ zones'[n + 1] = z
      BY <3>2, <3>3, ListAppend
    <3> HIDE DEF n
    <3>5. \A i \in 1..(n + 1) : i \in 1..n \/ i = n + 1
      BY <3>3
    <3>6. \A i \in DOMAIN zones : ZoneOk(sensors', cdevs, zones[i])
      BY <3>1, KeepsZone DEF SetupInv, ObjectsOk, ZonesOk
    <3>7. ZonesOk(sensors', cdevs, zones')
      BY <3>2, <3>3, <3>4, <3>5, <3>6 DEF ZonesOk
    <3> QED
      BY <1>1, <3>1, <3>7 DEF SetupInv, ObjectsOk, Keeps
  <2> QED
    BY <2>1, <2>2
<1>3. MakingOk'
  BY <1>1, MakingRests
<1>4. InputsOk' /\ PhaseOk'
  BY <1>1 DEF SetupInv, InputsOk, PhaseOk
<1> QED
  BY <1>2, <1>3, <1>4 DEF SetupInv

\* So does a step of something else.
LEMMA StutterInv ==
    ASSUME SetupInv, UNCHANGED setupVars
    PROVE  SetupInv'
<1>1. UNCHANGED <<machine, config, psv, setupPhase, at, making, sensors, cdevs, zones>>
  BY DEF setupVars, files, cursor, outside
<1>2. ObjectsOk' /\ MakingOk' /\ InputsOk' /\ PhaseOk'
  BY <1>1 DEF SetupInv, ObjectsOk, MakingOk, InputsOk, PhaseOk
<1> QED
  BY <1>2 DEF SetupInv

\* Every step of the set-up keeps the invariant.
LEMMA SetupInvStep == SetupInv /\ [SetupNext]_setupVars => SetupInv'
<1> SUFFICES ASSUME SetupInv, [SetupNext]_setupVars PROVE SetupInv'
  OBVIOUS
<1>1. CASE StartStep \/ Start
  BY <1>1, StartStepInv, ReadSensorsInv, ReadKernelZoneInv DEF StartStep
<1>2. CASE RequestStep
  <2>1. AddsOnly \/ \E n \in ZoneNames : DeleteZone(n)
    BY <1>2 DEF RequestStep, AddsOnly
  <2> QED
    BY <2>1, RequestStepInv, DeleteZoneInv
<1>3. CASE StopDaemon \/ CrashDaemon
  BY <1>3, GoneInv DEF StopDaemon, CrashDaemon
<1>4. CASE UNCHANGED setupVars
  BY <1>4, StutterInv
<1> QED
  BY <1>1, <1>2, <1>3, <1>4 DEF SetupNext

-----------------------------------------------------------------------------
(* The zone of correlated sensors.  Its readings all come under the index   *)
(* of its first sensor, so its trips have to be for any sensor; polling     *)
(* trips are not, and a configuration may add others.                       *)

Quiet(ts) == \A j \in DOMAIN ts : ts[j].sensor = AnySensor \/ ts[j].type = "POLLING"

\* Sorting the trips and adding polling trips keeps the trips quiet.
LEMMA SortQuiet ==
    ASSUME NEW m, NEW s, NEW cs, NEW x, IsPair(x), ZoneOk(s, cs, x.z), Quiet(x.z.trips)
    PROVE  Quiet(sort_and_update_poll_trip(m, s, x).z.trips)
<1> DEFINE ts == x.z.trips
           poll == First(ts, LAMBDA t : t.type = "POLLING")
           S == DOMAIN ts \ {poll}
           sorted == ByTemp(ts, S)
           temp == PollTemp(sorted[1].temp)
           polls == PollTrips(s, x.z.bound, temp)
           all == sorted \o polls
<1>1. sort_and_update_poll_trip(m, s, x).z.trips = IF sorted = <<>> THEN <<>> ELSE all
  BY DEF sort_and_update_poll_trip, WithPolls, IsPair, ZoneOk, ZoneFields
<1>2. IsList(ts) /\ IsList(x.z.bound) /\ \A i \in DOMAIN ts : ts[i].temp \in Int
  BY DEF ZoneOk, TripsOk, TripOk
<1> HIDE DEF poll
<1>3. S \subseteq DOMAIN ts /\ S \subseteq Nat
  BY <1>2, ListDom
<1> HIDE DEF S
<1>4. IsFiniteSet(S) /\ HasTemps(ts, S)
  BY <1>2, <1>3, ListFinite, FS_Subset DEF HasTemps
<1>5. Sorts(sorted, ts, S)
  BY <1>3, <1>4, ByTempProp
<1>6. IsList(sorted) /\ Quiet(sorted)
  BY <1>3, <1>5 DEF Sorts, Quiet
<1> HIDE DEF sorted, temp
<1>7. IsList(polls) /\ Quiet(polls)
  <2>1. DOMAIN polls = DOMAIN x.z.bound /\ polls = [b \in DOMAIN polls |-> polls[b]]
    BY DEF PollTrips
  <2>2. \A b \in DOMAIN polls : polls[b].type = "POLLING"
    BY DEF PollTrips, Trip
  <2> QED
    BY <1>2, <2>1, <2>2, ListSame DEF Quiet
<1> HIDE DEF polls
<1>8. Quiet(all)
  <2>1. /\ IsList(all) /\ Len(all) = Len(sorted) + Len(polls)
        /\ \A i \in 1..(Len(sorted) + Len(polls)) :
             all[i] = IF i <= Len(sorted) THEN sorted[i] ELSE polls[i - Len(sorted)]
    BY <1>6, <1>7, ListCat
  <2>2. /\ Len(sorted) \in Nat /\ DOMAIN sorted = 1..Len(sorted)
        /\ Len(polls) \in Nat /\ DOMAIN polls = 1..Len(polls) /\ DOMAIN all = 1..Len(all)
    BY <1>6, <1>7, <2>1, ListDom
  <2> HIDE DEF all
  <2>3. ASSUME NEW i \in DOMAIN all PROVE all[i].sensor = AnySensor \/ all[i].type = "POLLING"
    <3>1. CASE i <= Len(sorted)
      <4>1. i \in DOMAIN sorted /\ all[i] = sorted[i]
        BY <2>1, <2>2, <3>1
      <4> QED
        BY <1>6, <4>1 DEF Quiet
    <3>2. CASE ~(i <= Len(sorted))
      <4>1. i - Len(sorted) \in DOMAIN polls /\ all[i] = polls[i - Len(sorted)]
        BY <2>1, <2>2, <3>2
      <4> QED
        BY <1>7, <4>1 DEF Quiet
    <3> QED
      BY <3>1, <3>2
  <2> QED
    BY <2>3 DEF Quiet
<1>9. Quiet(<<>>)
  BY ListEmpty DEF Quiet
<1> HIDE DEF all
<1> QED
  BY <1>1, <1>8, <1>9

\* So does the passive temperature a user stored.
LEMMA PsvQuiet ==
    ASSUME NEW m, NEW s, NEW cs, NEW user, \A n \in DOMAIN user : user[n] \in Int,
           NEW x, IsPair(x), ZoneOk(s, cs, x.z), Quiet(x.z.trips)
    PROVE  Quiet(WithUserPsv(m, s, user, x).z.trips)
<1> DEFINE passives == {i \in DOMAIN x.z.trips : x.z.trips[i].type = "PASSIVE"}
           last == CHOOSE i \in passives : \A j \in passives : j <= i
           temp == user[x.z.type]
           y == [x EXCEPT !.z.trips[last].temp = temp]
<1>1. CASE x.z.type \notin DOMAIN user \/ passives = {}
  BY <1>1 DEF WithUserPsv
<1>2. CASE ~(x.z.type \notin DOMAIN user \/ passives = {})
  <2>1. WithUserPsv(m, s, user, x) = sort_and_update_poll_trip(m, s, y)
    BY <1>2 DEF WithUserPsv
  <2>2. temp \in Int
    BY <1>2
  <2>3. TripsOk(s, cs, x.z.bound, x.z.trips)
    BY DEF ZoneOk
  <2>4. last \in DOMAIN x.z.trips
    <3>1. Len(x.z.trips) \in Nat /\ DOMAIN x.z.trips = 1..Len(x.z.trips)
      BY <2>3, ListDom DEF TripsOk
    <3>2. passives \subseteq 1..Len(x.z.trips) /\ passives # {}
      BY <1>2, <3>1
    <3>3. \E i \in passives : \A j \in passives : j <= i
      <4> HIDE DEF passives
      <4>1. \A n \in Nat : \A P : P \subseteq 1..n /\ P # {} => \E i \in P : \A j \in P : j <= i
        BY GreatestOf
      <4> QED
        BY <4>1, <3>1, <3>2
    <3> QED
      BY <3>3
  <2> HIDE DEF last, temp
  <2>5. IsPair(y) /\ ZoneOk(s, cs, y.z)
    BY <2>2, <2>4, TempSetZone DEF Builds
  <2>6. y.z.trips = [x.z.trips EXCEPT ![last].temp = temp]
    BY DEF IsPair, ZoneOk, ZoneFields
  <2>7. \A i \in DOMAIN x.z.trips : DOMAIN x.z.trips[i] = TripFields
    BY <2>3 DEF TripsOk, TripOk
  <2>8. ASSUME NEW i \in DOMAIN y.z.trips
        PROVE  y.z.trips[i].sensor = AnySensor \/ y.z.trips[i].type = "POLLING"
    <3>1. i \in DOMAIN x.z.trips
      BY <2>6
    <3>2. y.z.trips[i].sensor = x.z.trips[i].sensor /\ y.z.trips[i].type = x.z.trips[i].type
      BY <2>6, <2>7, <3>1 DEF TripFields
    <3> QED
      BY <3>1, <3>2 DEF Quiet
  <2>9. Quiet(y.z.trips)
    BY <2>8 DEF Quiet
  <2> HIDE DEF y
  <2> QED
    BY <2>1, <2>5, <2>9, SortQuiet
<1> QED
  BY <1>1, <1>2

\* A device leaves the trip its sensor and its type.
LEMMA AddQuiet ==
    ASSUME NEW s, NEW cs, NEW bound, NEW t, TripOk(s, cs, bound, t), NEW es
    PROVE  trip_cdev_add(cs, t, es).sensor = t.sensor /\ trip_cdev_add(cs, t, es).type = t.type
BY DEF trip_cdev_add, TripOk, TripFields

\* zone_update keeps the trips quiet, and whose they are.
LEMMA UpdateQuiet ==
    ASSUME NEW m, NEW s, NEW cs, IsList(cs), NEW user, \A n \in DOMAIN user : user[n] \in Int,
           NEW x, IsPair(x), ZoneOk(s, cs, x.z), NEW binds
    PROVE  LET y == zone_update(m, cs, user, s, x, binds)
           IN /\ y.z.corelated = x.z.corelated /\ y.z.type = x.z.type
              /\ Quiet(x.z.trips) => Quiet(y.z.trips)
<1> DEFINE set == WithUserPsv(m, s, user, x)
           z == read_cdev_trip_points(cs, set.z, binds)
           w == [set EXCEPT !.z = read_cdev_trip_points(cs, @, binds)]
           y == zone_update(m, cs, user, s, x, binds)
<1>1. y = sort_and_update_poll_trip(m, s, w)
  BY DEF zone_update
<1>2. Builds(s, cs, x, set)
  BY PsvOk
<1>3. IsPair(set) /\ ZoneOk(s, cs, set.z)
  BY <1>2 DEF Builds
<1>4. Quiet(x.z.trips) => Quiet(set.z.trips)
  BY PsvQuiet
<1> HIDE DEF set
<1>5. Builds(s, cs, set, w)
  BY <1>3, CdevTripsOk
<1>6. IsPair(w) /\ ZoneOk(s, cs, w.z) /\ w.z = z
  BY <1>3, <1>5 DEF Builds, IsPair
<1>7. Quiet(set.z.trips) => Quiet(w.z.trips)
  <2>1. /\ DOMAIN z.trips = DOMAIN set.z.trips
        /\ \A j \in DOMAIN z.trips : \E es : z.trips[j] = trip_cdev_add(cs, set.z.trips[j], es)
    BY <1>3 DEF read_cdev_trip_points, ZoneOk, ZoneFields
  <2>2. \A j \in DOMAIN set.z.trips : TripOk(s, cs, set.z.bound, set.z.trips[j])
    BY <1>3 DEF ZoneOk, TripsOk
  <2> HIDE DEF z
  <2>3. \A j \in DOMAIN z.trips :
            z.trips[j].sensor = set.z.trips[j].sensor /\ z.trips[j].type = set.z.trips[j].type
    BY <2>1, <2>2, AddQuiet
  <2> QED
    BY <1>6, <2>1, <2>3 DEF Quiet
<1> HIDE DEF w
<1>8. Quiet(w.z.trips) => Quiet(y.z.trips)
  BY <1>1, <1>6, SortQuiet
<1>9. Builds(s, cs, x, y)
  BY UpdateOk
<1> HIDE DEF y
<1>10. y.z.corelated = x.z.corelated /\ y.z.type = x.z.type
  BY <1>9 DEF Builds, SameZone, ZoneFields
<1> QED
  BY <1>4, <1>7, <1>8, <1>10 DEF y

\* The CPU zone is made with trips for any sensor.
LEMMA CpuZoneQuiet ==
    ASSUME NEW m \in Machines, NEW s, IsList(s), NEW cs, IsList(cs), NEW n
    PROVE  CpuZone(m, cs, s, n).type = "cpu" /\ Quiet(CpuZone(m, cs, s, n).trips)
<1> DEFINE passive(temp) == trip_cdev_add(cs, Trip("PASSIVE", temp, AnySensor),
               Named(cs, <<"rapl_controller", "intel_pstate", "intel_powerclamp", "cpufreq", "Processor">>))
           fan(temp) == trip_cdev_add(cs, Trip("ACTIVE", temp, AnySensor), Named(cs, <<"Fan">>))
           ts == CpuTrips(m, cs)
<1>1. \E a, b : ts = <<passive(a)>> \/ ts = <<passive(a), fan(b)>>
  BY DEF CpuTrips
<1>2. \A t, es : t.sensor = AnySensor /\ DOMAIN t = TripFields
                 => trip_cdev_add(cs, t, es).sensor = AnySensor
  BY DEF trip_cdev_add, TripFields
<1>3. \A type, temp : Trip(type, temp, AnySensor).sensor = AnySensor
                      /\ DOMAIN Trip(type, temp, AnySensor) = TripFields
  BY DEF Trip, TripFields
<1>4. \A a : passive(a).sensor = AnySensor /\ fan(a).sensor = AnySensor
  BY <1>2, <1>3
<1> HIDE DEF passive, fan
<1>5. Quiet(ts)
  BY <1>1, <1>4 DEF Quiet
<1> HIDE DEF ts
<1> QED
  BY <1>5 DEF CpuZone, Zone, ts

-----------------------------------------------------------------------------
(* A configuration that has no zone "cpu" leaves the correlated zone alone. *)
Tame(z) == z.corelated => z.type = "cpu" /\ Quiet(z.trips)
AllTame(zs) == \A i \in DOMAIN zs : Tame(zs[i])
Tames(a, b) ==
    /\ AllTame(a) => AllTame(b)
    /\ \A i \in DOMAIN a : i \in DOMAIN b /\ b[i].corelated = a[i].corelated
NoCpu == \A k \in DOMAIN config.zones : config.zones[k].type # "cpu"
CpuInv ==
    /\ ~making.zone.corelated
    /\ NoCpu => AllTame(zones) /\ (making.place # 0 => ~zones[making.place].corelated)

\* Switching a zone leaves the zones tame.
LEMMA SetActiveTames ==
    ASSUME NEW cs, NEW r, IsRegistry(r), ZonesOk(r.s, cs, r.zs), NEW i, NEW on
    PROVE  Tames(r.zs, SetActive(r, i, on).zs)
<1> DEFINE a == r.zs
           b == [a EXCEPT ![i].active = on]
<1>1. SetActive(r, i, on).zs = b
  BY DEF SetActive
<1>2. a = [j \in DOMAIN a |-> a[j]] /\ \A j \in DOMAIN a : DOMAIN a[j] = ZoneFields
  BY ListDom DEF ZonesOk, ZoneOk
<1>3. DOMAIN b = DOMAIN a
  BY <1>2
<1>4. ASSUME NEW j \in DOMAIN a
      PROVE  b[j].corelated = a[j].corelated /\ b[j].type = a[j].type /\ b[j].trips = a[j].trips
  BY <1>2 DEF ZoneFields
<1> HIDE DEF a, b
<1>5. Tames(a, b)
  BY <1>3, <1>4 DEF Tames, AllTame, Tame
<1> QED
  BY <1>1, <1>5 DEF a

\* A tame zone at the end leaves them tame.
LEMMA AppendTames ==
    ASSUME NEW zs, IsList(zs), NEW z, Tame(z)
    PROVE  Tames(zs, Append(zs, z))
<1> DEFINE n == Len(zs)
           b == Append(zs, z)
<1>1. n \in Nat /\ DOMAIN zs = 1..n
  BY ListDom
<1>2. DOMAIN b = 1..(n + 1) /\ (\A j \in 1..n : b[j] = zs[j]) /\ b[n + 1] = z
  BY ListAppend
<1> HIDE DEF n, b
<1>3. (\A j \in 1..(n + 1) : j \in 1..n \/ j = n + 1) /\ 1..n \subseteq 1..(n + 1)
  BY <1>1
<1>4. Tames(zs, b)
  BY <1>1, <1>2, <1>3 DEF Tames, AllTame
<1> QED
  BY <1>4 DEF b

\* Registering a tame zone leaves them tame.
LEMMA RegisteredTames ==
    ASSUME NEW cs, NEW r, IsRegistry(r), SensorsOk(r.s), ZonesOk(r.s, cs, r.zs),
           NEW x, ZoneOk(r.s, cs, x.z), x.z.kernel = FALSE, Tame(x.z)
    PROVE  Tames(r.zs, Registered(r, x).zs)
<1> DEFINE q == [r EXCEPT !.zs = Append(@, x.z)]
<1>1. Grows(cs, r, q)
  BY AppendGrows
<1>2. q.zs = Append(r.zs, x.z)
  BY DEF IsRegistry
<1>3. Registered(r, x) = SetActive(q, Len(r.zs) + 1, TRUE)
  BY DEF Registered
<1> HIDE DEF q
<1>4. Tames(r.zs, q.zs)
  BY <1>2, AppendTames DEF ZonesOk
<1>5. Tames(q.zs, Registered(r, x).zs)
  BY <1>1, <1>3, SetActiveTames DEF Grows
<1> QED
  BY <1>4, <1>5 DEF Tames

\* So does switching off the CPU zone for one of the configuration.
LEMMA DisableTames ==
    ASSUME NEW cs, NEW r, IsRegistry(r), ZonesOk(r.s, cs, r.zs), NEW c, NEW generated
    PROVE  Tames(r.zs, disable_cpu_zone(r, c, generated).zs)
<1>1. \/ disable_cpu_zone(r, c, generated) = r
      \/ disable_cpu_zone(r, c, generated) = SetActive(r, search_zone(r.zs, "cpu"), FALSE)
  BY DEF disable_cpu_zone
<1>2. Tames(r.zs, r.zs)
  BY DEF Tames
<1> QED
  BY <1>1, <1>2, SetActiveTames

\* A step that leaves the zones tame, and is not at the trips of a configured zone.
LEMMA TamesCpu ==
    ASSUME SetupInv, CpuInv, Tames(zones, zones'), UNCHANGED config, making' = making \/ making' = Idle
    PROVE  CpuInv'
<1>1. Idle.place = 0 /\ ~Idle.zone.corelated
  BY DEF Idle, Zone
<1>2. making.place = 0 \/ making.place \in DOMAIN zones
  BY DEF SetupInv, MakingOk
<1>3. ~making'.zone.corelated
  BY <1>1 DEF CpuInv
<1>4. ASSUME NoCpu' PROVE AllTame(zones') /\ (making'.place # 0 => ~zones'[making'.place].corelated)
  <2>1. NoCpu
    BY <1>4 DEF NoCpu
  <2>2. AllTame(zones) /\ (making.place # 0 => ~zones[making.place].corelated)
    BY <2>1 DEF CpuInv
  <2> QED
    BY <1>1, <1>2, <2>2 DEF Tames
<1> QED
  BY <1>3, <1>4 DEF CpuInv

\* A step at a trip of a configured zone that exists: that zone is not the correlated one.
LEMMA BecomesCpu ==
    ASSUME SetupInv, CpuInv, Place \in DOMAIN zones, NEW z, zones' = [zones EXCEPT ![Place] = z],
           z.corelated = zones[Place].corelated, UNCHANGED config,
           making'.place = making.place, making'.zone = making.zone
    PROVE  CpuInv'
<1>1. zones = [i \in DOMAIN zones |-> zones[i]]
  BY ListDom DEF SetupInv, ObjectsOk, ZonesOk
<1>2. DOMAIN zones' = DOMAIN zones /\ zones'[Place] = z /\ \A i \in DOMAIN zones : i # Place => zones'[i] = zones[i]
  BY <1>1
<1>3. ASSUME NoCpu', Place # 0 PROVE AllTame(zones') /\ ~zones'[Place].corelated
  <2>1. AllTame(zones) /\ ~zones[Place].corelated
    BY <1>3 DEF NoCpu, CpuInv, Place
  <2> QED
    BY <1>2, <2>1 DEF AllTame, Tame
<1>4. Place # 0
  BY ListDom DEF SetupInv, ObjectsOk, ZonesOk
<1> QED
  BY <1>3, <1>4 DEF CpuInv, Place

-----------------------------------------------------------------------------
\* zone_update leaves a zone tame.
LEMMA UpdatedTame ==
    ASSUME InputsOk, NEW s, IsList(cdevs), NEW z, ZoneOk(s, cdevs, z), NEW binds, Tame(z)
    PROVE  Tame(Updated(s, z, binds).z)
<1> DEFINE w == [z |-> z, k |-> ktrip]
           x == Updated(s, z, binds)
<1>1. IsPair(w) /\ w.z = z
  BY DEF IsPair
<1>2. x = zone_update(machine, cdevs, psv, s, w, binds)
  BY DEF Updated
<1> HIDE DEF w, x
<1>3. /\ x.z.corelated = w.z.corelated /\ x.z.type = w.z.type
      /\ Quiet(w.z.trips) => Quiet(x.z.trips)
  BY <1>1, <1>2, UpdateQuiet DEF InputsOk
<1>4. Tame(x.z)
  BY <1>1, <1>3 DEF Tame
<1> QED
  BY <1>4 DEF x

\* The same with its registration.
LEMMA RegistersTames ==
    ASSUME SetupInv, NEW z, ZoneOk(sensors, cdevs, z), z.kernel = FALSE, Tame(z)
    PROVE  LET q == Registered(Registry, Updated(sensors, z, <<>>))
           IN Tames(zones, q.zs) /\ Grows(cdevs, Registry, q)
<1> DEFINE x == Updated(sensors, z, <<>>)
<1>1. IsList(cdevs) /\ InputsOk /\ ObjectsOk
  BY DEF SetupInv, ObjectsOk
<1>2. ZoneOk(sensors, cdevs, x.z) /\ AsRead(z, x.z)
  BY <1>1, UpdatedOk
<1>3. Tame(x.z)
  BY <1>1, UpdatedTame
<1> HIDE DEF x
<1>4. x.z.kernel = FALSE
  BY <1>2 DEF AsRead
<1> QED
  BY <1>1, <1>2, <1>3, <1>4, RegistryOk, RegisteredGrows, RegisteredTames DEF x

\* A zone that is looked up has the name.
LEMMA ZoneNamed ==
    ASSUME NEW zs, IsList(zs), NEW n, search_zone(zs, n) # 0
    PROVE  search_zone(zs, n) \in DOMAIN zs /\ SameName(zs[search_zone(zs, n)].type, n)
<1> DEFINE S == {i \in DOMAIN zs : SameName(zs[i].type, n)}
<1>1. search_zone(zs, n) = FirstIn(S)
  BY DEF search_zone, First
<1>2. S \subseteq Nat
  BY ListDom
<1>3. FirstIn(S) = 0 \/ FirstIn(S) \in S
  BY <1>2, FirstProp
<1> QED
  BY <1>1, <1>3

\* The processor zone of the firmware is not the correlated zone.
LEMMA ReadProcessorZoneCpu ==
    ASSUME SetupInv, CpuInv, ReadProcessorZone
    PROVE  CpuInv'
<1> DEFINE i == ActingZone
           z == add_int340x_processor_dev(cdevs, zones, zones[i])
           q == [Registry EXCEPT !.zs[i] = z]
           r == SetActive(q, i, TRUE)
<1>1. i \in DOMAIN zones /\ HighPassive(zones[i]) # 0 /\ IsList(zones)
  BY ActingZoneFound DEF ReadProcessorZone, SetupInv, ObjectsOk, ZonesOk
<1>2. zones' = r.zs /\ UNCHANGED <<config, making>>
  BY DEF ReadProcessorZone, KernelZonesRead, files
<1>3. zones[i].type # "cpu"
  <2> DEFINE names == <<"B0D4", "B0DB", "TCPU">>
             H == {j \in DOMAIN names : search_zone(zones, names[j]) # 0
                                        /\ (names[j] = "B0D4" => machine.int3400)}
  <2>1. i = ProcessorZone(machine, zones) /\ i # 0
    BY DEF ActingZone, ReadProcessorZone
  <2>2. i = IF FirstIn(H) = 0 THEN 0 ELSE search_zone(zones, names[FirstIn(H)])
    BY <2>1 DEF ProcessorZone, First
  <2>3. FirstIn(H) # 0
    BY <2>1, <2>2
  <2>4. FirstIn(H) \in H
    <3>1. H \subseteq Nat
      BY DOMAIN names = 1..3
    <3> HIDE DEF H
    <3> QED
      BY <2>3, <3>1, FirstProp
  <2>5. PICK n \in {"B0D4", "B0DB", "TCPU"} : i = search_zone(zones, n)
    BY <2>2, <2>3, <2>4
  <2>6. SameName(zones[i].type, n)
    BY <1>1, <2>1, <2>5, ZoneNamed
  <2> QED
    BY <2>5, <2>6 DEF SameName, Pch
<1> HIDE DEF i
<1>4. ZoneOk(sensors, cdevs, z) /\ AsRead(zones[i], z)
  BY <1>1, ProcessorZoneOk DEF SetupInv, ObjectsOk, ZonesOk
<1> HIDE DEF z
<1>5. Grows(cdevs, Registry, q)
  BY <1>1, <1>4, RegistryOk, ReplaceGrows DEF SetupInv
<1>6. q.zs = [zones EXCEPT ![i] = z]
  BY DEF Registry
<1> HIDE DEF q
<1>7. Tames(zones, q.zs)
  <2>1. zones = [j \in DOMAIN zones |-> zones[j]]
    BY <1>1, ListDom
  <2>2. /\ DOMAIN q.zs = DOMAIN zones /\ q.zs[i] = z
        /\ \A j \in DOMAIN zones : j # i => q.zs[j] = zones[j]
    BY <1>1, <1>6, <2>1
  <2>3. z.corelated = zones[i].corelated
    BY <1>4 DEF AsRead
  <2>4. AllTame(zones) => ~zones[i].corelated
    BY <1>1, <1>3 DEF AllTame, Tame
  <2>5. AllTame(zones) => AllTame(q.zs)
    BY <2>2, <2>3, <2>4 DEF AllTame, Tame
  <2> QED
    BY <2>2, <2>3, <2>5 DEF Tames
<1>8. Tames(q.zs, r.zs)
  BY <1>5, SetActiveTames DEF Grows
<1>9. Tames(zones, zones')
  BY <1>2, <1>7, <1>8 DEF Tames
<1> QED
  BY <1>2, <1>9, TamesCpu

\* The CPU zone is tame when it is made.
LEMMA ReadCpuZoneCpu ==
    ASSUME SetupInv, CpuInv, ReadCpuZone
    PROVE  CpuInv'
<1> DEFINE z == CpuZone(machine, cdevs, sensors, FirstIndex)
           q == Registered(Registry, Updated(sensors, z, <<>>))
<1>1. machine \in Machines /\ IsList(sensors) /\ IsList(cdevs)
  BY DEF SetupInv, InputsOk, ObjectsOk, SensorsOk
<1>2. ZoneOk(sensors, cdevs, z) /\ z.kernel = FALSE
  BY <1>1, CpuZoneOk
<1>3. Tame(z)
  BY <1>1, CpuZoneQuiet DEF Tame
<1>4. zones' = q.zs /\ UNCHANGED <<config, making>>
  BY DEF ReadCpuZone, Registers, KernelZonesRead, files
<1> HIDE DEF z
<1>5. Tames(zones, zones')
  BY <1>2, <1>3, <1>4, RegistersTames
<1> QED
  BY <1>4, <1>5, TamesCpu

\* The zones of the kernel are not correlated.
LEMMA ReadKernelZoneCpu ==
    ASSUME SetupInv, CpuInv, ReadKernelZone
    PROVE  CpuInv'
<1>1. UNCHANGED <<config, making>>
  BY DEF ReadKernelZone, files
<1>2. UNCHANGED zones \/ \E z : zones' = Append(zones, z) /\ ~z.corelated
  BY KernelZoneRead
<1>3. IsList(zones)
  BY DEF SetupInv, ObjectsOk, ZonesOk
<1>4. Tames(zones, zones')
  <2>1. CASE UNCHANGED zones
    BY <2>1 DEF Tames
  <2>2. ASSUME NEW z, zones' = Append(zones, z), ~z.corelated PROVE Tames(zones, zones')
    BY <1>3, <2>2, AppendTames DEF Tame
  <2> QED
    BY <1>2, <2>1, <2>2
<1> QED
  BY <1>1, <1>4, TamesCpu

\* A configured zone is begun: the one it names is not the correlated zone.
LEMMA BeginZoneCpu ==
    ASSUME SetupInv, CpuInv, BeginZone
    PROVE  CpuInv'
<1> DEFINE z == Zone(Wanted.type, next.zone, FALSE)
           p == search_zone(zones, Wanted.type)
<1>1. /\ making' = [place |-> p, trip |-> 1, on |-> FALSE, zone |-> z]
      /\ UNCHANGED <<config, zones>> /\ at \in DOMAIN config.zones
  BY DEF BeginZone, files
<1>2. ~z.corelated
  BY DEF Zone
<1>3. ASSUME NoCpu', p # 0 PROVE ~zones[p].corelated
  <2>1. p \in DOMAIN zones /\ SameName(zones[p].type, Wanted.type)
    BY <1>3, ZoneNamed DEF SetupInv, ObjectsOk, ZonesOk
  <2>2. Wanted.type # "cpu" /\ AllTame(zones)
    BY <1>1, <1>3 DEF NoCpu, Wanted, CpuInv
  <2>3. zones[p].type # "cpu"
    BY <2>1, <2>2 DEF SameName, Pch
  <2> QED
    BY <2>1, <2>2, <2>3 DEF AllTame, Tame
<1> HIDE DEF z, p
<1>4. making'.place = p /\ making'.zone = z
  BY <1>1
<1>5. NoCpu' => AllTame(zones')
  BY <1>1 DEF NoCpu, CpuInv
<1> QED
  BY <1>1, <1>2, <1>3, <1>4, <1>5 DEF CpuInv

\* The trips of a new zone.
LEMMA NewZoneTripCpu ==
    ASSUME SetupInv, CpuInv, NewZoneTrip
    PROVE  CpuInv'
<1> DEFINE p == TripSensor
           z == bind_sensor(making.zone, p)
           trip == ConfigTrip(cdevs, sensors, WantedTrip, p)
           y == [z EXCEPT !.trips = Append(@, trip)]
           w == IF p = 0 THEN making.zone ELSE IF WantedTrip.temp = 0 THEN z ELSE y
<1>1. TripStep /\ UNCHANGED <<zones, config>> /\ making.place = 0
  BY DEF NewZoneTrip, TripStep, files
<1>2. making' = [making EXCEPT !.trip = @ + 1, !.on = p # 0, !.zone = w]
  BY DEF NewZoneTrip
<1>3. ZoneOk(sensors, cdevs, making.zone) /\ (p # 0 => p \in DOMAIN sensors)
  BY <1>1, WantedOk DEF SetupInv, MakingOk
<1> HIDE DEF p
<1>4. ASSUME p # 0 PROVE z.corelated = making.zone.corelated /\ y.corelated = making.zone.corelated
  <2>1. ZoneOk(sensors, cdevs, z) /\ z.corelated = making.zone.corelated
    BY <1>3, <1>4, BindOk DEF ZoneFields
  <2> HIDE DEF z
  <2> QED
    BY <2>1 DEF ZoneOk, ZoneFields
<1> HIDE DEF z, y
<1>5. ~w.corelated
  BY <1>4 DEF CpuInv
<1> HIDE DEF w
<1>6. making'.place = 0 /\ making'.zone = w
  BY <1>1, <1>2 DEF SetupInv, MakingOk
<1> QED
  BY <1>1, <1>5, <1>6 DEF CpuInv, NoCpu

\* The trips of a zone that exists.
LEMMA OldZoneTripCpu ==
    ASSUME SetupInv, CpuInv, UnknownSensorTrip \/ AddTrip \/ BindCdevs
    PROVE  CpuInv'
<1>1. TripStep /\ Place # 0 /\ UNCHANGED config
  BY DEF UnknownSensorTrip, AddTrip, BindCdevs, TripStep, files
<1>2. making'.place = making.place /\ making'.zone = making.zone
  BY DEF UnknownSensorTrip, AddTrip, BindCdevs, SetupInv, MakingOk
<1>3. /\ WantedTrip.temp \in Int /\ (TripSensor # 0 => TripSensor \in DOMAIN sensors)
      /\ Place \in DOMAIN zones /\ ZoneOk(sensors, cdevs, zones[Place])
  BY <1>1, WantedOk
<1>4. CASE UNCHANGED zones
  BY <1>1, <1>2, <1>4 DEF CpuInv, NoCpu
<1>5. ASSUME NEW z, zones' = [zones EXCEPT ![Place] = z], z.corelated = zones[Place].corelated
      PROVE  CpuInv'
  BY <1>1, <1>2, <1>3, <1>5, BecomesCpu
<1>6. CASE UnknownSensorTrip
  <2> DEFINE x == [z |-> zones[Place], k |-> ktrip]
             y == update_trip_temp(machine, sensors, x, WantedTrip)
  <2>1. UNCHANGED zones \/ zones' = [zones EXCEPT ![Place] = y.z]
    BY <1>6 DEF UnknownSensorTrip, Becomes
  <2>2. IsPair(x) /\ x.z = zones[Place]
    BY DEF IsPair
  <2> HIDE DEF x
  <2>3. Builds(sensors, cdevs, x, y)
    BY <1>3, <2>2, UpdateTempOk
  <2> HIDE DEF y
  <2>4. y.z.corelated = zones[Place].corelated
    BY <2>2, <2>3 DEF Builds, SameZone, ZoneFields
  <2> QED
    BY <1>4, <1>5, <2>1, <2>4
<1>7. ASSUME TripSensor # 0
      PROVE  LET z == bind_sensor(zones[Place], TripSensor)
             IN /\ ZoneOk(sensors, cdevs, z) /\ z.corelated = zones[Place].corelated
                /\ \E b \in DOMAIN z.bound : z.bound[b] = TripSensor
  BY <1>3, <1>7, BindOk DEF ZoneFields
<1>8. CASE AddTrip
  <2> DEFINE trip == ConfigTrip(cdevs, sensors, WantedTrip, TripSensor)
             z == bind_sensor(zones[Place], TripSensor)
             x == [z |-> z, k |-> ktrip]
             y == add_trip(machine, sensors, x, trip)
  <2>1. zones' = [zones EXCEPT ![Place] = y.z] /\ TripSensor # 0
    BY <1>8 DEF AddTrip, Becomes
  <2>2. /\ ZoneOk(sensors, cdevs, z) /\ z.corelated = zones[Place].corelated
        /\ \E b \in DOMAIN z.bound : z.bound[b] = TripSensor
    BY <1>7, <2>1
  <2> HIDE DEF z
  <2>3. TripOk(sensors, cdevs, z.bound, trip)
    BY <1>3, <2>2, ConfigTripOk DEF SetupInv, ObjectsOk
  <2>4. IsPair(x) /\ x.z = z
    BY DEF IsPair
  <2> HIDE DEF x, trip
  <2>5. Builds(sensors, cdevs, x, y)
    BY <2>2, <2>3, <2>4, AddTripOk
  <2> HIDE DEF y
  <2>6. y.z.corelated = zones[Place].corelated
    BY <2>2, <2>4, <2>5 DEF Builds, SameZone, ZoneFields
  <2> QED
    BY <1>5, <2>1, <2>6
<1>9. CASE BindCdevs
  <2> DEFINE es == Asked(cdevs, WantedTrip)
             z == bind_sensor(zones[Place], TripSensor)
             y == bind_cooling_device(cdevs, z, WantedTrip.type, es)
  <2>1. zones' = [zones EXCEPT ![Place] = y] /\ TripSensor # 0
    BY <1>9 DEF BindCdevs, Becomes
  <2>2. ZoneOk(sensors, cdevs, z) /\ z.corelated = zones[Place].corelated
    BY <1>7, <2>1
  <2>3. Offered(cdevs, es)
    BY OfferedMade DEF SetupInv, ObjectsOk
  <2> HIDE DEF z, es
  <2>4. SameZone(y, z)
    BY <2>2, <2>3, BindCdevOk
  <2> HIDE DEF y
  <2>5. y.corelated = zones[Place].corelated
    BY <2>2, <2>4 DEF SameZone, ZoneFields
  <2> QED
    BY <1>5, <2>1, <2>5
<1> QED
  BY <1>6, <1>8, <1>9

\* The end of a configured zone.
LEMMA EndZoneCpu ==
    ASSUME SetupInv, CpuInv, EndNewZone \/ EndOldZone
    PROVE  CpuInv'
<1>1. UNCHANGED config /\ making' = Idle
  BY DEF EndNewZone, EndOldZone, ZoneDone, files
<1>2. ASSUME NEW r, EndsAs(r), Tames(zones, r.zs), Grows(cdevs, Registry, r) PROVE CpuInv'
  <2> DEFINE done == disable_cpu_zone(r, Wanted, UsesGenerated)
  <2>1. zones' = done.zs
    BY <1>2 DEF EndsAs
  <2>2. Tames(r.zs, done.zs)
    BY <1>2, DisableTames DEF Grows
  <2>3. Tames(zones, zones')
    BY <1>2, <2>1, <2>2 DEF Tames
  <2> QED
    BY <1>1, <2>3, TamesCpu
<1>3. CASE EndNewZone
  <2> DEFINE q == Registered(Registry, Updated(sensors, making.zone, <<>>))
  <2>1. EndsAs(q)
    BY <1>3 DEF EndNewZone
  <2>2. ZoneOk(sensors, cdevs, making.zone) /\ making.zone.kernel = FALSE /\ Tame(making.zone)
    BY DEF SetupInv, MakingOk, CpuInv, Tame
  <2>3. Tames(zones, q.zs) /\ Grows(cdevs, Registry, q)
    BY <2>2, RegistersTames
  <2> HIDE DEF q
  <2> QED
    BY <1>2, <2>1, <2>3
<1>4. CASE EndOldZone
  <2> DEFINE r == IF Place # 0 /\ making.on THEN SetActive(Registry, Place, TRUE) ELSE Registry
  <2>1. EndsAs(r)
    BY <1>4 DEF EndOldZone
  <2>2. Grows(cdevs, Registry, r)
    BY RegistryOk, GrowsSelf, SetActiveGrows DEF SetupInv
  <2>3. Tames(zones, SetActive(Registry, Place, TRUE).zs)
    BY RegistryOk, SetActiveTames DEF SetupInv
  <2>4. Tames(zones, Registry.zs)
    BY RegistryOk DEF SetupInv, Tames
  <2>5. Tames(zones, r.zs)
    BY <2>3, <2>4
  <2> HIDE DEF r
  <2> QED
    BY <1>2, <2>1, <2>2, <2>5
<1> QED
  BY <1>3, <1>4

\* The requests.
LEMMA RequestCpu ==
    ASSUME SetupInv, CpuInv, RequestStep
    PROVE  CpuInv'
<1>1. ASSUME UNCHANGED zones, UNCHANGED <<config, making>> PROVE CpuInv'
  BY <1>1, TamesCpu DEF Tames
<1>2. ASSUME NEW q, AddSensor(q) \/ AddVirtualSensor(q.name, q.dep) \/ AddCoolingDevice(q) \/ SetPsv(q)
      PROVE  CpuInv'
  BY <1>1, <1>2 DEF AddSensor, AddVirtualSensor, AddCoolingDevice, SetPsv, DBusRequest, files, cursor
<1>3. ASSUME NEW q \in ZoneRequests, AddZone(q) PROVE CpuInv'
  <2> DEFINE s == search_sensor(sensors, q.sensor)
             p == search_cdev(cdevs, q.cdev)
             z == DynamicZone(q, next.zone, s, p)
  <2>1. UNCHANGED <<config, making>> /\ q.temp \in Int
    BY <1>3, RequestsAssumption DEF AddZone, DBusRequest, files, cursor
  <2>2. CASE s = 0 \/ p = 0
    <3>1. UNCHANGED zones
      BY <1>3, <2>2 DEF AddZone, user_add_zone
    <3> QED
      BY <1>1, <2>1, <3>1
  <2>3. CASE ~(s = 0 \/ p = 0)
    <3>1. Registers(z)
      BY <1>3, <2>3 DEF AddZone, user_add_zone
    <3>2. s \in DOMAIN sensors /\ p \in DOMAIN cdevs
      BY <2>3, SensorFound, CdevFound DEF SetupInv, ObjectsOk, SensorsOk
    <3> HIDE DEF s, p
    <3>3. ZoneOk(sensors, cdevs, z) /\ z.kernel = FALSE
      BY <2>1, <3>2, DynamicZoneOk DEF SetupInv, ObjectsOk
    <3>4. Tame(z)
      BY DEF DynamicZone, Zone, Tame
    <3> HIDE DEF z
    <3>5. Tames(zones, zones')
      BY <3>1, <3>3, <3>4, RegistersTames DEF Registers
    <3> QED
      BY <2>1, <3>5, TamesCpu
  <2> QED
    BY <2>2, <2>3
<1>4. ASSUME NEW n, NEW on, SetZoneStatus(n, on) PROVE CpuInv'
  <2>1. UNCHANGED <<config, making>> /\ zones' = SetActive(Registry, get_zone(zones, n), on).zs
    BY <1>4 DEF SetZoneStatus, user_set_zone_status, DBusRequest, files, cursor
  <2>2. Tames(zones, zones')
    BY <2>1, RegistryOk, SetActiveTames DEF SetupInv
  <2> QED
    BY <2>1, <2>2, TamesCpu
<1>5. ASSUME NEW n, DeleteZone(n) PROVE CpuInv'
  <2> DEFINE i == get_zone(zones, n)
  <2>1. i \in DOMAIN zones
    BY <1>5, ZoneFound DEF DeleteZone, SetupInv, ObjectsOk, ZonesOk
  <2>2. setupPhase = "run" /\ UNCHANGED <<config, making>> /\ zones' = RemoveAt(zones, i)
    BY <1>5 DEF DeleteZone, DBusRequest, files, cursor
  <2> HIDE DEF i
  <2>3. \A j \in DOMAIN zones' : \E k \in DOMAIN zones : zones'[j] = zones[k]
    BY <2>1, <2>2, ListRemove DEF SetupInv, ObjectsOk, ZonesOk
  <2>a. making = Idle
    BY <2>2 DEF SetupInv, MakingOk
  <2>b. Idle.place = 0
    BY DEF Idle
  <2>4. making.place = 0
    BY <2>a, <2>b
  <2>5. AllTame(zones) => AllTame(zones')
    BY <2>3 DEF AllTame
  <2>6. NoCpu' => NoCpu
    BY <2>2 DEF NoCpu
  <2>7. making' = making
    BY <2>2
  <2>8. ~making'.zone.corelated /\ making'.place = 0
    BY <2>4, <2>7 DEF CpuInv
  <2>9. NoCpu' => AllTame(zones')
    BY <2>5, <2>6 DEF CpuInv
  <2> QED
    BY <2>8, <2>9 DEF CpuInv
<1> QED
  BY <1>2, <1>3, <1>4, <1>5 DEF RequestStep

\* Every step of the set-up keeps the invariant.
LEMMA CpuInvStep == SetupInv /\ CpuInv /\ [SetupNext]_setupVars => CpuInv'
<1> SUFFICES ASSUME SetupInv, CpuInv, [SetupNext]_setupVars PROVE CpuInv'
  OBVIOUS
<1>1. ASSUME UNCHANGED <<zones, config, making>> PROVE CpuInv'
  BY <1>1, TamesCpu DEF Tames
<1>2. ASSUME zones' = <<>>, making' = Idle PROVE CpuInv'
  <2>1. Idle.place = 0 /\ ~Idle.zone.corelated
    BY DEF Idle, Zone
  <2> QED
    BY <1>2, <2>1, ListEmpty DEF CpuInv, AllTame
<1>3. CASE StartStep
  <2>1. CASE Generate \/ EndGenerate
    BY <1>1, <2>1 DEF Generate, EndGenerate, cursor
  <2>2. CASE Configure
    <3>1. zones' = <<>> /\ making' = Idle
      BY <2>2 DEF Configure, cursor, SetupInv, PhaseOk, MakingOk
    <3> QED
      BY <1>2, <3>1
  <2>3. CASE ReadSensors \/ ReadConfigSensor \/ EndSensors
    BY <1>1, <2>3 DEF ReadSensors, ReadConfigSensor, EndSensors, files
  <2>4. CASE ReadCdevs \/ ReadConfigCdev \/ EndCdevs
    BY <1>1, <2>4 DEF ReadCdevs, ReadConfigCdev, EndCdevs, files
  <2>5. CASE ReadNoCpuZone
    BY <1>1, <2>5 DEF ReadNoCpuZone, KernelZonesRead, files
  <2>6. CASE EndConfig
    BY <1>1, <2>6 DEF EndConfig, files
  <2> QED
    BY <1>3, <2>1, <2>2, <2>3, <2>4, <2>5, <2>6, ReadKernelZoneCpu, ReadProcessorZoneCpu,
       ReadCpuZoneCpu, BeginZoneCpu, NewZoneTripCpu, OldZoneTripCpu, EndZoneCpu DEF StartStep
<1>4. CASE RequestStep
  BY <1>4, RequestCpu
<1>5. CASE StopDaemon \/ CrashDaemon
  BY <1>2, <1>5 DEF StopDaemon, CrashDaemon, Gone
<1>6. CASE Start
  BY <1>1, <1>6 DEF Start, files, cursor
<1>7. CASE UNCHANGED setupVars
  BY <1>1, <1>7 DEF setupVars, files, cursor
<1> QED
  BY <1>3, <1>4, <1>5, <1>6, <1>7 DEF SetupNext

\* It holds before the first start.
LEMMA CpuInvInit == SetupInit => CpuInv
<1> SUFFICES ASSUME SetupInit PROVE CpuInv
  OBVIOUS
<1>1. Idle.place = 0 /\ ~Idle.zone.corelated
  BY DEF Idle, Zone
<1> QED
  BY <1>1, ListEmpty DEF SetupInit, CpuInv, AllTame

\* In well-formed zones every trip is compared, those of the correlated zone excepted.
LEMMA InvReachable == SetupInv /\ CpuInv => TripsReachable
<1> SUFFICES ASSUME SetupInv, CpuInv, NEW i \in DOMAIN zones, NEW j \in DOMAIN zones[i].trips
             PROVE  LET z == zones[i]
                        t == z.trips[j]
                    IN /\ \/ t.sensor = AnySensor
                          \/ t.sensor \in read_zone_temp(z)
                          \/ /\ z.corelated /\ \E b \in DOMAIN z.bound : sensors[z.bound[b]].index = t.sensor
                             /\ \/ t.type = "POLLING"
                                \/ \E k \in DOMAIN config.zones : config.zones[k].type = "cpu"
                       /\ \A e \in t.cdevs : e.cdev \in DOMAIN cdevs
  BY DEF TripsReachable
<1> DEFINE z == zones[i]
           t == z.trips[j]
<1>1. TripOk(sensors, cdevs, z.bound, t)
  BY DEF SetupInv, ObjectsOk, ZonesOk, ZoneOk, TripsOk
<1>2. \A e \in t.cdevs : e.cdev \in DOMAIN cdevs
  BY <1>1 DEF TripOk, DrivenOk
<1>3. t.sensor = AnySensor \/ \E b \in DOMAIN z.bound : sensors[z.bound[b]].index = t.sensor
  BY <1>1 DEF TripOk
<1>4. ~z.corelated => t.sensor = AnySensor \/ t.sensor \in read_zone_temp(z)
  BY <1>3 DEF read_zone_temp
<1>5. z.corelated /\ NoCpu => t.sensor = AnySensor \/ t.type = "POLLING"
  BY DEF CpuInv, AllTame, Tame, Quiet
<1> HIDE DEF z, t
<1>6. \/ t.sensor = AnySensor
      \/ t.sensor \in read_zone_temp(z)
      \/ /\ z.corelated /\ \E b \in DOMAIN z.bound : sensors[z.bound[b]].index = t.sensor
         /\ \/ t.type = "POLLING"
            \/ \E k \in DOMAIN config.zones : config.zones[k].type = "cpu"
  BY <1>3, <1>4, <1>5 DEF NoCpu
<1> QED
  BY <1>2, <1>6 DEF z, t

\* For every machine, configuration and sequence of requests and restarts: each trip of a zone
\* is compared with a reading that read_zone_temp takes under the sensor index it waits for, or
\* it is one of the two kinds that the correlated zone of the CPU never compares; and its devices
\* are devices of the engine (thd_zone.cpp's and thd_trip_point.cpp's lookups by index).
THEOREM SetupTripsReachable == SetupSpec => []TripsReachable
<1>1. SetupSpec => [](SetupInv /\ CpuInv)
  BY SetupInvInit, SetupInvStep, CpuInvInit, CpuInvStep, PTL DEF SetupSpec
<1> QED
  BY <1>1, InvReachable, PTL

-----------------------------------------------------------------------------
(* The second inductive invariant.                                          *)

(* The sensors of the kernel come in its order; once they are read every    *)
(* readable kernel zone has one.                                            *)
SensorsSeen ==
    \/ setupPhase \in {"cdevs", "zones", "config", "run"}
    \/ setupPhase = "sensors" /\ at # 0
SensorsRead ==
    /\ FromKernel(machine, sensors)
    /\ SensorsSeen => AllRead(machine, sensors)
    /\ setupPhase \in {"boot", "writing", "down"} => at = 0
    /\ setupPhase = "zones" => at # 0

(* The kernel zones read so far have an object unless a user deleted it;    *)
(* the object has the firmware's trip, and while there is none the kernel   *)
(* has it.                                                                  *)
Has(zs, n) == \E i \in DOMAIN zs : zs[i].kernel /\ zs[i].index = n
ZonesSeen ==
    {i \in DOMAIN machine.kzones :
        setupPhase \in {"config", "run"} \/ (setupPhase = "zones" /\ i < at)}
Holds(zs, n, v) == \A i \in DOMAIN zs : zs[i].kernel /\ zs[i].index = n => zs[i].initial = v
Owned(k, zs, n, v) == Holds(zs, n, v) /\ (k[n] = v \/ Has(zs, n))
TripsOwned ==
    /\ DOMAIN ktrip = DOMAIN FirmwareTrips(machine) /\ kept \subseteq DOMAIN ktrip
    /\ \A i \in Readable(machine) \cap ZonesSeen :
         machine.kzones[i].n \in kept => Has(zones, machine.kzones[i].n)
    /\ \A i \in DOMAIN zones : zones[i].kernel =>
         \E j \in ZonesSeen : zones[i].index = machine.kzones[j].n
    /\ \A n \in kept \ Shadowed(machine) : Owned(ktrip, zones, n, FirmwareTrips(machine)[n])

RestoreInv == SetupInv /\ SensorsRead /\ TripsOwned

\* The firmware's trip is a temperature.
LEMMA FirmwareTemp ==
    ASSUME NEW m \in Machines, NEW n \in DOMAIN FirmwareTrips(m)
    PROVE  FirmwareTrips(m)[n] \in Int /\ FirmwareTrips(m)[n] >= 0
<1> DEFINE i == CHOOSE i \in Writable(m) : m.kzones[i].n = n
<1>1. \E j \in Writable(m) : m.kzones[j].n = n
  BY DEF FirmwareTrips
<1>2. i \in Writable(m) /\ FirmwareTrips(m)[n] = m.kzones[i].trips[1].temp
  BY <1>1 DEF FirmwareTrips
<1> HIDE DEF i
<1>3. i \in DOMAIN m.kzones /\ 1 \in DOMAIN m.kzones[i].trips /\ m.kzones[i].trips[1].writable
  BY <1>2 DEF Writable
<1> DEFINE ts == m.kzones[i].trips
<1>4. /\ Len(ts) \in Nat /\ DOMAIN ts = 1..Len(ts)
      /\ \A j \in DOMAIN ts : ts[j].temp \in Int /\ (ts[j].writable => ts[j].temp >= 0)
  BY <1>3, MachinesAssumption
<1> QED
  BY <1>2, <1>3, <1>4

-----------------------------------------------------------------------------
\* The kernel's objects are the same after a step that removes nothing.
LEMMA HasSame ==
    ASSUME NEW a, NEW b, KernelSame(a, b), NEW n
    PROVE  /\ Has(a, n) => Has(b, n)
           /\ \A v : Holds(a, n, v) => Holds(b, n, v)
<1>1. ASSUME Has(a, n) PROVE Has(b, n)
  <2>1. PICK i \in DOMAIN a : a[i].kernel /\ a[i].index = n
    BY <1>1 DEF Has
  <2>2. PICK j \in DOMAIN b : AsRead(a[i], b[j])
    BY <2>1 DEF KernelSame
  <2> QED
    BY <2>1, <2>2 DEF AsRead, Has
<1>2. ASSUME NEW v, Holds(a, n, v), NEW j \in DOMAIN b, b[j].kernel, b[j].index = n
      PROVE  b[j].initial = v
  <2>1. PICK i \in DOMAIN a : AsRead(a[i], b[j])
    BY <1>2 DEF KernelSame
  <2> QED
    BY <1>2, <2>1 DEF AsRead, Holds
<1> QED
  BY <1>1, <1>2 DEF Holds

\* A step that removes nothing, and writes the kernel's trips only when every kernel zone has
\* been read, leaves each trip with its object.
LEMMA OwnedGrowing ==
    ASSUME RestoreInv, Growing, UNCHANGED <<machine, kept>>,
           ZonesSeen' = ZonesSeen \/ (ZonesSeen' = {} /\ zones' = <<>>),
           UNCHANGED ktrip \/ ZonesSeen = DOMAIN machine.kzones
    PROVE  TripsOwned'
<1>0. KernelSame(zones, zones') /\ WritesKnown(sensors, ktrip, ktrip') /\ TripsOwned
  BY DEF Growing, RestoreInv
<1>a. ZonesSeen' \subseteq ZonesSeen
  OBVIOUS
<1>1. DOMAIN ktrip' = DOMAIN FirmwareTrips(machine) /\ kept \subseteq DOMAIN ktrip'
  BY <1>0 DEF TripsOwned, WritesKnown
<1>2. ASSUME NEW i \in Readable(machine) \cap ZonesSeen', machine.kzones[i].n \in kept
      PROVE  Has(zones', machine.kzones[i].n)
  <2>1. Has(zones, machine.kzones[i].n)
    BY <1>0, <1>a, <1>2 DEF TripsOwned
  <2> QED
    BY <1>0, <2>1, HasSame
<1>3. ASSUME NEW i \in DOMAIN zones', zones'[i].kernel
      PROVE  \E j \in ZonesSeen' : zones'[i].index = machine.kzones[j].n
  <2>1. PICK l \in DOMAIN zones : AsRead(zones[l], zones'[i])
    BY <1>0, <1>3 DEF KernelSame
  <2>2. PICK j \in ZonesSeen : zones[l].index = machine.kzones[j].n
    BY <1>0, <1>3, <2>1 DEF TripsOwned, AsRead
  <2>3. CASE ZonesSeen' = ZonesSeen
    BY <2>1, <2>2, <2>3 DEF AsRead
  <2>4. CASE zones' = <<>>
    BY <1>3, <2>4, ListEmpty
  <2> QED
    BY <2>3, <2>4
<1>4. ASSUME NEW n \in kept \ Shadowed(machine)
      PROVE  Owned(ktrip', zones', n, FirmwareTrips(machine)[n])
  <2>1. Owned(ktrip, zones, n, FirmwareTrips(machine)[n]) /\ n \in DOMAIN ktrip
    BY <1>0 DEF TripsOwned
  <2>2. Holds(zones', n, FirmwareTrips(machine)[n])
    BY <1>0, <2>1, HasSame DEF Owned
  <2>3. Has(zones, n) => Has(zones', n)
    BY <1>0, HasSame
  <2>4. CASE ktrip'[n] = ktrip[n]
    BY <2>1, <2>2, <2>3, <2>4 DEF Owned
  <2>5. CASE ktrip'[n] # ktrip[n]
    <3>1. ZonesSeen = DOMAIN machine.kzones /\ Sysfs(sensors, n)
      BY <1>0, <2>1, <2>5 DEF WritesKnown
    <3>2. PICK p \in DOMAIN sensors : sensors[p].kind = "sysfs" /\ sensors[p].index = n
      BY <3>1 DEF Sysfs
    <3>3. PICK j \in Readable(machine) : n = machine.kzones[j].n
      BY <3>2 DEF RestoreInv, SensorsRead, FromKernel
    <3>4. j \in Readable(machine) \cap ZonesSeen
      BY <3>1, <3>3 DEF Readable
    <3>5. Has(zones, n)
      BY <1>0, <3>3, <3>4 DEF TripsOwned
    <3> QED
      BY <2>2, <2>3, <3>5 DEF Owned
  <2> QED
    BY <2>4, <2>5
<1> QED
  BY <1>1, <1>2, <1>3, <1>4 DEF TripsOwned

\* A step that removes nothing keeps the kernel's sensors in its order.
LEMMA ReadGrowing ==
    ASSUME RestoreInv, Growing, UNCHANGED machine, SensorsSeen' => SensorsSeen,
           setupPhase' \in {"boot", "writing", "down"} => at' = 0, setupPhase' = "zones" => at' # 0
    PROVE  SensorsRead'
<1>1. Keeps(sensors, sensors') /\ IsList(sensors)
  BY DEF Growing, RestoreInv, SetupInv, ObjectsOk, SensorsOk
<1>2. FromKernel(machine, sensors')
  BY <1>1, KeepsRead DEF RestoreInv, SensorsRead
<1>3. SensorsSeen' => AllRead(machine, sensors')
  BY <1>1, KeepsRead DEF RestoreInv, SensorsRead
<1> QED
  BY <1>2, <1>3 DEF SensorsRead

-----------------------------------------------------------------------------
(* The start and the requests keep it.                                      *)

\* Every step of the start that removes nothing keeps the invariant.
LEMMA StartRestore ==
    ASSUME RestoreInv,
           \/ Generate \/ EndGenerate \/ Configure \/ ReadConfigSensor \/ EndSensors
           \/ ReadConfigCdev \/ EndCdevs \/ ReadProcessorZone \/ ReadCpuZone \/ ReadNoCpuZone
           \/ BeginZone \/ NewZoneTrip \/ UnknownSensorTrip \/ AddTrip \/ BindCdevs
           \/ EndNewZone \/ EndOldZone \/ EndConfig \/ Start
    PROVE  RestoreInv'
<1>0. /\ setupPhase \in {"boot", "writing", "down"} => at = 0
      /\ setupPhase = "zones" => at # 0
      /\ at \in Nat /\ machine \in Machines
  BY DEF RestoreInv, SensorsRead, SetupInv, InputsOk
<1>1. SetupInv' /\ Growing
  BY StartStepInv, StartGrows DEF RestoreInv
<1>2. ASSUME UNCHANGED <<machine, kept>>, SensorsRead',
             ZonesSeen' = ZonesSeen \/ (ZonesSeen' = {} /\ zones' = <<>>),
             UNCHANGED ktrip \/ ZonesSeen = DOMAIN machine.kzones
      PROVE  RestoreInv'
  BY <1>1, <1>2, OwnedGrowing DEF RestoreInv
<1>3. ASSUME UNCHANGED machine, SensorsSeen' => SensorsSeen,
             setupPhase' \in {"boot", "writing", "down"} => at' = 0, setupPhase' = "zones" => at' # 0
      PROVE  SensorsRead'
  BY <1>1, <1>3, ReadGrowing
<1>4. CASE Generate \/ EndGenerate \/ Configure \/ Start
  <2>1. /\ UNCHANGED <<machine, kept, ktrip, at>> /\ setupPhase \in {"boot", "writing", "down"}
        /\ setupPhase' \in {"boot", "writing", "sensors"}
    BY <1>4 DEF Generate, EndGenerate, Configure, Start, cursor, outside, files
  <2>2. at = 0 /\ at' = 0
    BY <1>0, <2>1
  <2>3. SensorsRead'
    BY <1>3, <2>1, <2>2 DEF SensorsSeen
  <2>4. ZonesSeen' = {} /\ ZonesSeen = {}
    BY <2>1 DEF ZonesSeen
  <2> QED
    BY <1>2, <2>1, <2>3, <2>4
<1>5. CASE ReadConfigSensor \/ EndSensors \/ ReadConfigCdev
  <2>1. /\ UNCHANGED <<machine, kept, ktrip>> /\ setupPhase \in {"sensors", "cdevs"} /\ SensorsSeen
        /\ setupPhase' \in {"sensors", "cdevs"}
    BY <1>5 DEF ReadConfigSensor, EndSensors, ReadConfigCdev, outside, files, SensorsSeen
  <2>3. SensorsRead'
    BY <1>3, <2>1
  <2>4. ZonesSeen' = {} /\ ZonesSeen = {}
    BY <2>1 DEF ZonesSeen
  <2> QED
    BY <1>2, <2>1, <2>3, <2>4
<1>6. CASE EndCdevs
  <2>1. /\ UNCHANGED <<machine, kept, ktrip>> /\ setupPhase = "cdevs" /\ SensorsSeen
        /\ setupPhase' = "zones" /\ at' = 1
    BY <1>6 DEF EndCdevs, outside, files, SensorsSeen
  <2>3. SensorsRead'
    BY <1>3, <2>1
  <2>4. ZonesSeen' = {} /\ ZonesSeen = {}
    <3>1. \A i \in DOMAIN machine.kzones : ~(i < 1)
      BY <1>0, MachineFacts
    <3> QED
      BY <2>1, <3>1 DEF ZonesSeen
  <2> QED
    BY <1>2, <2>1, <2>3, <2>4
<1>7. CASE ReadProcessorZone \/ ReadCpuZone \/ ReadNoCpuZone
  <2>0. KernelZonesRead
    BY <1>7 DEF ReadProcessorZone, ReadCpuZone, ReadNoCpuZone
  <2>1. /\ UNCHANGED <<machine, kept>> /\ setupPhase = "zones" /\ SensorsSeen
        /\ setupPhase' = "config" /\ at \notin DOMAIN machine.kzones
    BY <2>0 DEF KernelZonesRead, outside, files, SensorsSeen
  <2>3. SensorsRead'
    BY <1>3, <2>1
  <2>4. ZonesSeen' = DOMAIN machine.kzones /\ ZonesSeen = DOMAIN machine.kzones
    <3>1. \A i \in DOMAIN machine.kzones : i < at
      <4>1. Len(machine.kzones) \in Nat /\ DOMAIN machine.kzones = 1..Len(machine.kzones)
        BY <1>0, MachineFacts
      <4>2. at > Len(machine.kzones)
        BY <1>0, <2>1, <4>1
      <4> QED
        BY <1>0, <4>1, <4>2
    <3> QED
      BY <2>1, <3>1 DEF ZonesSeen
  <2> QED
    BY <1>2, <2>1, <2>3, <2>4
<1>8. CASE BeginZone \/ NewZoneTrip \/ UnknownSensorTrip \/ AddTrip \/ BindCdevs
  <2>1. UNCHANGED <<machine, kept, setupPhase, at>> /\ setupPhase = "config"
    BY <1>8 DEF BeginZone, NewZoneTrip, UnknownSensorTrip, AddTrip, BindCdevs, TripStep, outside, files
  <2>3. SensorsRead'
    BY <1>3, <2>1 DEF SensorsSeen
  <2>4. ZonesSeen' = DOMAIN machine.kzones /\ ZonesSeen = DOMAIN machine.kzones
    BY <2>1 DEF ZonesSeen
  <2> QED
    BY <1>2, <2>1, <2>3, <2>4
<1>9. CASE EndNewZone \/ EndOldZone
  <2>1. UNCHANGED <<machine, kept, setupPhase>> /\ setupPhase = "config"
    BY <1>9 DEF EndNewZone, EndOldZone, ZoneDone, outside, files
  <2>3. SensorsRead'
    BY <1>3, <2>1 DEF SensorsSeen
  <2>4. ZonesSeen' = DOMAIN machine.kzones /\ ZonesSeen = DOMAIN machine.kzones
    BY <2>1 DEF ZonesSeen
  <2> QED
    BY <1>2, <2>1, <2>3, <2>4
<1>10. CASE EndConfig
  <2>1. /\ UNCHANGED <<machine, kept, ktrip, zones>> /\ setupPhase = "config" /\ at' = 0
        /\ setupPhase' = IF zones = <<>> THEN "down" ELSE "run"
    BY <1>10 DEF EndConfig, outside, files
  <2>3. SensorsRead'
    BY <1>3, <2>1 DEF SensorsSeen
  <2>4. ZonesSeen = DOMAIN machine.kzones
    BY <2>1 DEF ZonesSeen
  <2>5. CASE zones = <<>>
    <3>1. ZonesSeen' = {} /\ zones' = <<>>
      BY <2>1, <2>5 DEF ZonesSeen
    <3> QED
      BY <1>2, <2>1, <2>3, <3>1
  <2>6. CASE zones # <<>>
    <3>1. ZonesSeen' = DOMAIN machine.kzones
      BY <2>1, <2>6 DEF ZonesSeen
    <3> QED
      BY <1>2, <2>1, <2>3, <2>4, <3>1
  <2> QED
    BY <2>5, <2>6
<1> QED
  BY <1>4, <1>5, <1>6, <1>7, <1>8, <1>9, <1>10

\* Every request but the deletion of a zone keeps the invariant.
LEMMA RequestRestore ==
    ASSUME RestoreInv, AddsOnly
    PROVE  RestoreInv'
<1>1. SetupInv' /\ Growing
  BY RequestStepInv, RequestGrows DEF RestoreInv
<1>2. DBusRequest /\ UNCHANGED kept
  BY DEF AddsOnly, AddSensor, AddVirtualSensor, AddCoolingDevice, AddZone, SetPsv, SetZoneStatus
<1>3. setupPhase = "run" /\ UNCHANGED <<machine, setupPhase, at, kept>>
  BY <1>2 DEF DBusRequest, files, cursor
<1>4. SensorsRead'
  BY <1>1, <1>3, ReadGrowing DEF SensorsSeen
<1>5. ZonesSeen' = DOMAIN machine.kzones /\ ZonesSeen = DOMAIN machine.kzones
  BY <1>3 DEF ZonesSeen
<1>6. TripsOwned'
  BY <1>1, <1>3, <1>5, OwnedGrowing
<1> QED
  BY <1>1, <1>4, <1>6 DEF RestoreInv

\* Reading sensors and devices anew keeps the invariant.
LEMMA ReadSensorsRestore ==
    ASSUME RestoreInv, ReadSensors \/ ReadCdevs
    PROVE  RestoreInv'
<1>1. SetupInv'
  BY ReadSensorsInv DEF RestoreInv
<1>2. /\ machine \in Machines /\ UNCHANGED <<machine, kept, ktrip, zones, setupPhase>>
      /\ setupPhase \in {"sensors", "cdevs"} /\ zones = <<>>
  BY DEF ReadSensors, ReadCdevs, files, outside, RestoreInv, SetupInv, InputsOk, PhaseOk
<1>3. SensorsRead'
  <2>1. CASE ReadSensors
    <3>1. sensors' = DefaultSensors(machine).s
      BY <2>1 DEF ReadSensors
    <3>2. FromKernel(machine, sensors') /\ AllRead(machine, sensors')
      BY <1>2, <3>1, DefaultSensorsRead
    <3> QED
      BY <1>2, <3>2 DEF SensorsRead
  <2>2. CASE ReadCdevs
    BY <1>2, <2>2 DEF ReadCdevs, RestoreInv, SensorsRead, SensorsSeen
  <2> QED
    BY <2>1, <2>2
<1>4. ZonesSeen' = {} /\ ZonesSeen = {}
  BY <1>2 DEF ZonesSeen
<1>5. TripsOwned'
  BY <1>2, <1>4 DEF RestoreInv, TripsOwned
<1> QED
  BY <1>1, <1>3, <1>5 DEF RestoreInv

-----------------------------------------------------------------------------
(* The other steps, and the second theorem.                                 *)

\* Deleting a zone gives its trip back: the destructor writes what the zone read first.
LEMMA DeleteZoneRestore ==
    ASSUME RestoreInv, NEW n0, DeleteZone(n0)
    PROVE  RestoreInv'
<1> DEFINE d == get_zone(zones, n0)
           own(n) == {i \in DOMAIN <<zones[d]>> :
                        /\ <<zones[d]>>[i].kernel /\ <<zones[d]>>[i].index = n
                        /\ <<zones[d]>>[i].initial >= 0}
           fw == FirmwareTrips(machine)
<1>1. SetupInv'
  BY DeleteZoneInv DEF RestoreInv
<1>2. d \in DOMAIN zones /\ IsList(zones) /\ TripsOwned
  BY ZoneFound DEF DeleteZone, RestoreInv, SetupInv, ObjectsOk, ZonesOk
<1>3. /\ setupPhase = "run" /\ UNCHANGED <<machine, setupPhase, at, sensors>>
      /\ zones' = RemoveAt(zones, d) /\ ktrip' = Restored(ktrip, <<zones[d]>>)
      /\ kept' = IF zones[d].kernel THEN kept \ {zones[d].index} ELSE kept
  BY DEF DeleteZone, DBusRequest, files, cursor
<1> HIDE DEF d
<1>4. kept' \subseteq kept /\ \A n \in kept' : ~(zones[d].kernel /\ zones[d].index = n)
  BY <1>3
<1>5. DOMAIN ktrip' = DOMAIN ktrip /\ \A n \in DOMAIN ktrip \cap kept' : ktrip'[n] = ktrip[n]
  <2>1. ktrip' = [n \in DOMAIN ktrip |->
                    IF own(n) = {} THEN ktrip[n] ELSE <<zones[d]>>[CHOOSE i \in own(n) : TRUE].initial]
    BY <1>3 DEF Restored
  <2>2. \A i \in DOMAIN <<zones[d]>> : <<zones[d]>>[i] = zones[d]
    OBVIOUS
  <2>3. \A n \in kept' : own(n) = {}
    BY <1>4, <2>2
  <2> HIDE DEF own
  <2> QED
    BY <2>1, <2>3
<1>6. /\ \A j \in DOMAIN zones' : \E i \in DOMAIN zones : i # d /\ zones'[j] = zones[i]
      /\ \A i \in DOMAIN zones : i # d => \E j \in DOMAIN zones' : zones'[j] = zones[i]
  BY <1>2, <1>3, ListRemove
<1>7. \A n \in kept' : Has(zones, n) => Has(zones', n)
  BY <1>4, <1>6 DEF Has
<1>8. \A n, v : Holds(zones, n, v) => Holds(zones', n, v)
  BY <1>6 DEF Holds
<1>9. ZonesSeen' = DOMAIN machine.kzones /\ ZonesSeen = DOMAIN machine.kzones
  BY <1>3 DEF ZonesSeen
<1>10. TripsOwned'
  <2>1. DOMAIN ktrip' = DOMAIN fw /\ kept' \subseteq DOMAIN ktrip'
    BY <1>2, <1>4, <1>5 DEF TripsOwned
  <2>2. ASSUME NEW i \in Readable(machine) \cap ZonesSeen, machine.kzones[i].n \in kept'
        PROVE  Has(zones', machine.kzones[i].n)
    BY <1>2, <1>4, <1>7, <2>2 DEF TripsOwned
  <2>3. ASSUME NEW i \in DOMAIN zones', zones'[i].kernel
        PROVE  \E j \in ZonesSeen : zones'[i].index = machine.kzones[j].n
    BY <1>2, <1>6, <2>3 DEF TripsOwned
  <2>4. ASSUME NEW n \in kept' \ Shadowed(machine) PROVE Owned(ktrip', zones', n, fw[n])
    <3>1. Owned(ktrip, zones, n, fw[n]) /\ n \in DOMAIN ktrip
      BY <1>2, <1>4 DEF TripsOwned
    <3>2. ktrip'[n] = ktrip[n]
      BY <1>5, <3>1
    <3> QED
      BY <1>7, <1>8, <3>1, <3>2 DEF Owned
  <2> QED
    BY <1>3, <1>9, <2>1, <2>2, <2>3, <2>4 DEF TripsOwned
<1>11. SensorsRead'
  BY <1>3 DEF RestoreInv, SensorsRead, SensorsSeen
<1> QED
  BY <1>1, <1>10, <1>11 DEF RestoreInv

\* A stop gives the trips back, a crash forgets what was kept.
LEMMA GoneRestore ==
    ASSUME RestoreInv, StopDaemon \/ CrashDaemon
    PROVE  RestoreInv'
<1> DEFINE fw == FirmwareTrips(machine)
           own(n) == {i \in DOMAIN zones : zones[i].kernel /\ zones[i].index = n /\ zones[i].initial >= 0}
<1>1. Gone /\ SetupInv'
  BY GoneInv DEF StopDaemon, CrashDaemon, RestoreInv
<1>2. setupPhase' = "down" /\ at' = 0 /\ UNCHANGED machine /\ zones' = <<>> /\ sensors' = <<>>
  BY <1>1 DEF Gone
<1>3. SensorsRead'
  BY <1>2, ListEmpty DEF SensorsRead, SensorsSeen, FromKernel
<1>4. ZonesSeen' = {}
  BY <1>2 DEF ZonesSeen
<1>5. /\ DOMAIN ktrip = DOMAIN fw /\ kept \subseteq DOMAIN ktrip /\ machine \in Machines
      /\ \A n \in kept \ Shadowed(machine) : Owned(ktrip, zones, n, fw[n])
  BY DEF RestoreInv, TripsOwned, SetupInv, InputsOk
<1>6. DOMAIN ktrip' = DOMAIN ktrip /\ kept' \subseteq kept
  BY DEF StopDaemon, CrashDaemon, Restored
<1>7. ASSUME NEW n \in kept' \ Shadowed(machine) PROVE ktrip'[n] = fw[n]
  <2>1. CASE CrashDaemon
    <3>1. n \in kept \ Shadowed(machine) /\ ~Has(zones, n) /\ UNCHANGED ktrip
      BY <1>7, <2>1 DEF CrashDaemon, Has
    <3> QED
      BY <1>5, <3>1 DEF Owned
  <2>2. CASE StopDaemon
    <3>2. /\ n \in kept \ Shadowed(machine) /\ n \in DOMAIN ktrip
          /\ ktrip'[n] = IF own(n) = {} THEN ktrip[n] ELSE zones[CHOOSE i \in own(n) : TRUE].initial
      BY <1>5, <1>6, <2>2 DEF StopDaemon, Restored
    <3>3. Holds(zones, n, fw[n]) /\ (ktrip[n] = fw[n] \/ Has(zones, n))
      BY <1>5, <3>2 DEF Owned
    <3>4. fw[n] \in Int /\ fw[n] >= 0
      BY <1>5, <3>2, FirmwareTemp
    <3>5. CASE own(n) = {}
      <4>1. ~Has(zones, n)
        BY <3>3, <3>4, <3>5 DEF Has, Holds
      <4> QED
        BY <3>2, <3>3, <3>5, <4>1
    <3>6. CASE own(n) # {}
      <4>1. (CHOOSE i \in own(n) : TRUE) \in own(n)
        BY <3>6
      <4> QED
        BY <3>2, <3>3, <3>6, <4>1 DEF Holds
    <3> QED
      BY <3>5, <3>6
  <2> QED
    BY <2>1, <2>2
<1>8. TripsOwned'
  <2>1. DOMAIN zones' = {}
    BY <1>2, ListEmpty
  <2>2. \A n \in kept' \ Shadowed(machine) : Owned(ktrip', zones', n, fw[n])
    BY <1>7, <2>1 DEF Owned, Holds
  <2> QED
    BY <1>2, <1>4, <1>5, <1>6, <2>1, <2>2 DEF TripsOwned
<1> QED
  BY <1>1, <1>3, <1>8 DEF RestoreInv

\* The names of zones are alike for the search in classes.
LEMMA SameNameClass ==
    \A a, b, c : SameName(a, b) /\ SameName(c, b) => SameName(a, c)
BY DEF SameName

\* A sensor found for a kernel zone that belongs to a later one is a shadowed zone's.
LEMMA FoundLater ==
    ASSUME RestoreInv, NEW i \in DOMAIN machine.kzones, NEW j \in Readable(machine), i < j,
           NEW p \in DOMAIN sensors, p = search_sensor(sensors, machine.kzones[i].type), p # 0,
           sensors[p].name = machine.kzones[j].type,
           \A l \in Readable(machine) : l < j =>
               \E q \in DOMAIN sensors : q < p /\ sensors[q].name = machine.kzones[l].type
    PROVE  machine.kzones[j].n \in Shadowed(machine)
<1> DEFINE type(l) == machine.kzones[l].type
           alike == {l \in 1..(j - 1) : SameName(type(l), type(j))}
<1>1. IsList(sensors) /\ machine \in Machines /\ j \in DOMAIN machine.kzones
  BY DEF RestoreInv, SetupInv, ObjectsOk, SensorsOk, InputsOk, Readable
<1>2. Len(machine.kzones) \in Nat /\ DOMAIN machine.kzones = 1..Len(machine.kzones)
  BY <1>1, MachineFacts
<1>3. SameName(type(j), type(i))
  BY <1>1, SensorFound
<1>4. i \in alike
  <2>1. i \in 1..(j - 1)
    BY <1>1, <1>2
  <2>2. SameName(type(i), type(j))
    BY <1>3 DEF SameName
  <2> QED
    BY <2>1, <2>2
<1>5. ASSUME NEW l \in alike, machine.kzones[l].readable PROVE FALSE
  <2>1. l \in DOMAIN machine.kzones /\ l < j
    BY <1>1, <1>2
  <2>2. PICK q \in DOMAIN sensors : q < p /\ sensors[q].name = type(l)
    BY <1>5, <2>1 DEF Readable
  <2>3. SameName(type(l), type(j))
    BY <1>5
  <2>4. SameName(type(l), type(i))
    BY <1>3, <2>3, SameNameClass DEF SameName
  <2>5. p <= q
    BY <1>1, <2>2, <2>4, SensorFound
  <2>6. p \in Nat /\ q \in Nat
    BY <1>1, ListDom
  <2> QED
    BY <2>2, <2>5, <2>6
<1>6. alike # {} /\ \A l \in alike : ~machine.kzones[l].readable
  BY <1>4, <1>5
<1> QED
  BY <1>1, <1>6 DEF Shadowed

\* Reading a kernel zone keeps the invariant: the object reads the trip before anything can
\* have written it, unless the zone is shadowed.
LEMMA ReadKernelZoneRestore ==
    ASSUME RestoreInv, ReadKernelZone
    PROVE  RestoreInv'
<1> DEFINE fw == FirmwareTrips(machine)
           kz == machine.kzones[at]
           p == search_sensor(sensors, kz.type)
<1>1. SetupInv'
  BY ReadKernelZoneInv DEF RestoreInv
<1>2. /\ setupPhase = "zones" /\ at \in DOMAIN machine.kzones /\ at' = at + 1 /\ at \in Nat
      /\ UNCHANGED <<machine, kept, setupPhase>> /\ machine \in Machines /\ at' # 0
  <2>1. at \in Nat => at + 1 # 0
    OBVIOUS
  <2> QED
    BY <2>1 DEF ReadKernelZone, outside, files, RestoreInv, SetupInv, InputsOk
<1>a. Len(machine.kzones) \in Nat /\ DOMAIN machine.kzones = 1..Len(machine.kzones)
  BY <1>2, MachineFacts
<1>3. ZonesSeen' = ZonesSeen \cup {at} /\ at \notin ZonesSeen
  <2>1. \A i \in DOMAIN machine.kzones : i < at + 1 <=> i < at \/ i = at
    BY <1>2, <1>a
  <2>2. ~(at < at)
    BY <1>2
  <2> QED
    BY <1>2, <2>1, <2>2 DEF ZonesSeen
<1>4. TripsOwned /\ IsList(sensors) /\ IsList(zones)
  BY DEF RestoreInv, SetupInv, ObjectsOk, SensorsOk, ZonesOk
<1>5. FromKernel(machine, sensors) /\ AllRead(machine, sensors)
  BY <1>2 DEF RestoreInv, SensorsRead, SensorsSeen
<1>6. CASE p = 0
  <2>1. UNCHANGED <<sensors, zones, ktrip>>
    BY <1>6, KernelZoneRead DEF RestoreInv
  <2>2. at \notin Readable(machine)
    <3>1. SUFFICES ASSUME at \in Readable(machine) PROVE FALSE
      OBVIOUS
    <3>2. PICK q \in DOMAIN sensors : sensors[q].name = kz.type
      BY <1>5, <3>1 DEF AllRead
    <3> QED
      BY <1>4, <1>6, <3>2, SensorFound DEF SameName
  <2>3. SensorsRead'
    BY <1>2, <1>5, <2>1 DEF SensorsRead
  <2>4. TripsOwned'
    BY <1>2, <1>3, <1>4, <2>1, <2>2 DEF TripsOwned
  <2> QED
    BY <1>1, <2>3, <2>4 DEF RestoreInv
<1>7. CASE p # 0
  <2>1. /\ p \in DOMAIN sensors /\ Keeps(sensors, sensors') /\ DOMAIN ktrip' = DOMAIN ktrip
        /\ \A n \in DOMAIN ktrip :
             ktrip'[n] = ktrip[n] \/ (sensors[p].kind = "sysfs" /\ sensors[p].index = n)
        /\ \E z : /\ zones' = Append(zones, z) /\ z.kernel = TRUE /\ z.index = kz.n
                  /\ z.initial = (IF kz.n \in DOMAIN ktrip THEN ktrip[kz.n] ELSE -1)
    BY <1>7, KernelZoneRead DEF RestoreInv
  <2>2. PICK z : /\ zones' = Append(zones, z) /\ z.kernel = TRUE /\ z.index = kz.n
                 /\ z.initial = (IF kz.n \in DOMAIN ktrip THEN ktrip[kz.n] ELSE -1)
    BY <2>1
  <2>3. /\ \A i \in DOMAIN zones : i \in DOMAIN zones' /\ zones'[i] = zones[i]
        /\ \A j \in DOMAIN zones' : j \in DOMAIN zones \/ zones'[j] = z
        /\ \E j \in DOMAIN zones' : zones'[j] = z
    <3> DEFINE n == Len(zones)
    <3>1. n \in Nat /\ DOMAIN zones = 1..n
      BY <1>4, ListDom
    <3>2. DOMAIN zones' = 1..(n + 1) /\ (\A i \in 1..n : zones'[i] = zones[i]) /\ zones'[n + 1] = z
      BY <1>4, <2>2, ListAppend
    <3> HIDE DEF n
    <3>3. (\A j \in 1..(n + 1) : j \in 1..n \/ j = n + 1) /\ 1..n \subseteq 1..(n + 1) /\ n + 1 \in 1..(n + 1)
      BY <3>1
    <3> QED
      BY <3>1, <3>2, <3>3
  <2>4. SensorsRead'
    <3>1. FromKernel(machine, sensors') /\ AllRead(machine, sensors')
      BY <1>4, <1>5, <2>1, KeepsRead
    <3> QED
      BY <1>2, <3>1 DEF SensorsRead
  <2>5. Has(zones', kz.n) /\ \A n : Has(zones, n) => Has(zones', n)
    BY <2>2, <2>3 DEF Has
  <2>6. ~Has(zones, kz.n)
    <3>1. SUFFICES ASSUME NEW i \in DOMAIN zones, zones[i].kernel, zones[i].index = kz.n PROVE FALSE
      BY DEF Has
    <3>2. PICK j \in ZonesSeen : kz.n = machine.kzones[j].n
      BY <1>4, <3>1 DEF TripsOwned
    <3>3. j \in DOMAIN machine.kzones /\ j # at
      BY <1>3, <3>2 DEF ZonesSeen
    <3> QED
      BY <1>2, <3>2, <3>3, MachinesAssumption
  <2>7. DOMAIN ktrip' = DOMAIN fw /\ kept \subseteq DOMAIN ktrip'
    BY <1>4, <2>1 DEF TripsOwned
  <2>8. ASSUME NEW i \in Readable(machine) \cap ZonesSeen', machine.kzones[i].n \in kept
        PROVE  Has(zones', machine.kzones[i].n)
    BY <1>3, <1>4, <2>5, <2>8 DEF TripsOwned
  <2>9. ASSUME NEW i \in DOMAIN zones', zones'[i].kernel
        PROVE  \E j \in ZonesSeen' : zones'[i].index = machine.kzones[j].n
    <3>1. CASE i \in DOMAIN zones
      BY <1>3, <1>4, <2>3, <2>9, <3>1 DEF TripsOwned
    <3>2. CASE zones'[i] = z
      BY <1>3, <2>2, <3>2
    <3> QED
      BY <2>3, <3>1, <3>2
  <2>10. ASSUME NEW n \in kept \ Shadowed(machine) PROVE Owned(ktrip', zones', n, fw[n])
    <3>1. Owned(ktrip, zones, n, fw[n]) /\ n \in DOMAIN ktrip
      BY <1>4 DEF TripsOwned
    <3>2. Holds(zones', n, fw[n])
      <4>1. CASE n = kz.n
        <5>1. ktrip[n] = fw[n]
          BY <2>6, <3>1, <4>1 DEF Owned
        <5>2. z.initial = fw[n]
          BY <2>2, <3>1, <4>1, <5>1
        <5> QED
          BY <2>3, <3>1, <5>2 DEF Owned, Holds
      <4>2. CASE n # kz.n
        BY <2>2, <2>3, <3>1, <4>2 DEF Owned, Holds
      <4> QED
        BY <4>1, <4>2
    <3>3. ktrip'[n] = fw[n] \/ Has(zones', n)
      <4>1. CASE ktrip'[n] = ktrip[n]
        BY <2>5, <3>1, <4>1 DEF Owned
      <4>2. CASE ktrip'[n] # ktrip[n]
        <5>1. sensors[p].kind = "sysfs" /\ sensors[p].index = n
          BY <2>1, <3>1, <4>2
        <5>2. PICK j \in Readable(machine) :
                /\ n = machine.kzones[j].n /\ sensors[p].name = machine.kzones[j].type
                /\ \A l \in Readable(machine) : l < j =>
                     \E q \in DOMAIN sensors : q < p /\ sensors[q].name = machine.kzones[l].type
          BY <1>5, <2>1, <5>1 DEF FromKernel
        <5>3. j \in Nat /\ at \in Nat /\ j \in DOMAIN machine.kzones
          BY <1>2, <1>a DEF Readable
        <5>4. CASE at < j
          <6>1. n \in Shadowed(machine)
            BY <1>2, <1>7, <2>1, <5>2, <5>4, FoundLater
          <6> QED
            BY <6>1
        <5>5. CASE j = at
          BY <2>5, <5>2, <5>5
        <5>6. CASE j < at
          <6>1. j \in Readable(machine) \cap ZonesSeen
            BY <1>2, <5>3, <5>6 DEF ZonesSeen
          <6> QED
            BY <1>4, <2>5, <5>2, <6>1 DEF TripsOwned
        <5> QED
          BY <5>3, <5>4, <5>5, <5>6
      <4> QED
        BY <4>1, <4>2
    <3> QED
      BY <3>2, <3>3 DEF Owned
  <2>11. TripsOwned'
    BY <1>2, <2>7, <2>8, <2>9, <2>10 DEF TripsOwned
  <2> QED
    BY <1>1, <2>4, <2>11 DEF RestoreInv
<1> QED
  BY <1>6, <1>7

\* So does a step of something else.
LEMMA StutterRestore ==
    ASSUME RestoreInv, UNCHANGED setupVars
    PROVE  RestoreInv'
<1>1. UNCHANGED <<machine, kept, ktrip, setupPhase, at, sensors, zones>>
  BY DEF setupVars, files, cursor, outside
<1>2. SetupInv'
  BY StutterInv DEF RestoreInv
<1>3. SensorsRead'
  BY <1>1 DEF RestoreInv, SensorsRead, SensorsSeen
<1>4. ZonesSeen' = ZonesSeen
  BY <1>1 DEF ZonesSeen
<1>5. TripsOwned'
  BY <1>1, <1>4 DEF RestoreInv, TripsOwned
<1> QED
  BY <1>2, <1>3, <1>5 DEF RestoreInv

\* The invariant holds when the daemon has not started: the kernel has the firmware's trips.
LEMMA RestoreInvInit == SetupInit => RestoreInv
<1> SUFFICES ASSUME SetupInit PROVE RestoreInv
  OBVIOUS
<1>1. SetupInv
  BY SetupInvInit
<1>2. SensorsRead
  BY ListEmpty DEF SetupInit, SensorsRead, SensorsSeen, FromKernel
<1>3. ZonesSeen = {}
  BY DEF SetupInit, ZonesSeen
<1>4. TripsOwned
  BY <1>3, ListEmpty DEF SetupInit, TripsOwned, Owned, Holds
<1> QED
  BY <1>1, <1>2, <1>4 DEF RestoreInv

\* Every step of the set-up keeps the invariant.
LEMMA RestoreInvStep == RestoreInv /\ [SetupNext]_setupVars => RestoreInv'
<1> SUFFICES ASSUME RestoreInv, [SetupNext]_setupVars PROVE RestoreInv'
  OBVIOUS
<1>1. CASE StartStep \/ Start
  BY <1>1, StartRestore, ReadSensorsRestore, ReadKernelZoneRestore DEF StartStep
<1>2. CASE RequestStep
  <2>1. AddsOnly \/ \E n \in ZoneNames : DeleteZone(n)
    BY <1>2 DEF RequestStep, AddsOnly
  <2> QED
    BY <2>1, RequestRestore, DeleteZoneRestore
<1>3. CASE StopDaemon \/ CrashDaemon
  BY <1>3, GoneRestore
<1>4. CASE UNCHANGED setupVars
  BY <1>4, StutterRestore
<1> QED
  BY <1>1, <1>2, <1>3, <1>4 DEF SetupNext

\* With the daemon down there are no objects, so the kernel has every trip that is kept.
LEMMA InvRestored == RestoreInv => FirmwareTripsRestored
<1> SUFFICES ASSUME RestoreInv, setupPhase = "down", NEW n \in kept \ Shadowed(machine)
             PROVE  ktrip[n] = FirmwareTrips(machine)[n]
  BY DEF FirmwareTripsRestored
<1>1. zones = <<>>
  BY DEF RestoreInv, SetupInv, PhaseOk
<1>2. ~Has(zones, n)
  BY <1>1, ListEmpty DEF Has
<1> QED
  BY <1>2 DEF RestoreInv, TripsOwned, Owned

\* For every machine, configuration and sequence of requests and restarts: once a daemon has
\* stopped, every trip of a kernel zone is as the firmware set it (~cthd_sysfs_zone writes it
\* back), unless a crash lost it, or only zones that cannot be read precede it under its name:
\* those take its sensor, and write its trip before its own object has read it.
THEOREM SetupTripsRestored == SetupSpec => []FirmwareTripsRestored
<1>1. SetupSpec => []RestoreInv
  BY RestoreInvInit, RestoreInvStep, PTL DEF SetupSpec
<1> QED
  BY <1>1, InvRestored, PTL
=============================================================================
