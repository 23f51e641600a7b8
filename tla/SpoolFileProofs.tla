-------------------------- MODULE SpoolFileProofs --------------------------
(***************************************************************************)
(* The safety properties of SpoolFile for any set of bodies, any limits of *)
(* a frame and of the file, and any number of appends, crashes and failed  *)
(* writes.  What Decode computes is defined by recursion over the file;    *)
(* induction is here the least element of a set of naturals.               *)
(***************************************************************************)
EXTENDS SpoolFile, Integers, SequenceTheorems, WellFoundedInduction, TLAPS

-----------------------------------------------------------------------------
(* Induction                                                               *)

LEMMA LeastNatural ==
  ASSUME NEW T, T \subseteq Nat, T # {}
  PROVE  \E m \in T : \A k \in T : m <= k
<1> DEFINE R == OpToRel(<, Nat)
<1>1. IsWellFoundedOn(R, Nat)
  BY NatLessThanWellFounded
<1>2. \A x, y \in Nat : <<x, y>> \in R <=> x < y
  BY DEF OpToRel
<1> HIDE DEF R
<1>3. PICK m \in T : \A k \in T : ~ (<<k, m>> \in R)
  BY <1>1, WFMin
<1>4. ASSUME NEW k \in T PROVE m <= k
  <2>1. ~(k < m)
    BY <1>2, <1>3
  <2>2. QED
    BY <2>1
<1>5. QED
  BY <1>4

(* From the end of a file to its beginning.                                *)
LEMMA Downward ==
  ASSUME NEW n \in Nat, NEW T,
         \A i \in 1 .. n : (\A j \in i + 1 .. n : j \in T) => i \in T
  PROVE  \A i \in 1 .. n : i \in T
<1> SUFFICES ASSUME NEW x \in 1 .. n, x \notin T PROVE FALSE
  OBVIOUS
<1> DEFINE Missing == {d \in Nat : d < n /\ n - d \notin T}
<1>1. n - x \in Missing
  <2>1. n - x \in Nat /\ n - x < n /\ n - (n - x) = x
    OBVIOUS
  <2>2. QED
    BY <2>1
<1>2. PICK m \in Missing : \A k \in Missing : m <= k
  BY <1>1, LeastNatural
<1>3. n - m \in 1 .. n /\ n - m \notin T
  BY <1>2
<1>4. ASSUME NEW j \in (n - m) + 1 .. n PROVE j \in T
  <2>1. n - j \in Nat /\ n - j < n /\ n - j < m /\ n - (n - j) = j
    BY <1>2
  <2>2. n - j \notin Missing
    BY <1>2, <2>1
  <2>3. QED
    BY <2>1, <2>2
<1>5. QED
  BY <1>3, <1>4

-----------------------------------------------------------------------------
(* Decode is defined for every file                                        *)

Outcomes == [ok : BOOLEAN, recs : Seq(Seq(Nat))]

(* What a reader finds at i, if it finds g behind.                         *)
ReadAt(g, f, i) ==
  IF i > Len(f) THEN [ok |-> TRUE, recs |-> <<>>]
  ELSE IF f[i] = 0 THEN g[i + 1]
  ELSE IF f[i] > MaxFrame THEN Failed
  ELSE IF i + f[i] > Len(f) THEN [ok |-> TRUE, recs |-> <<>>]
  ELSE Before(SubSeq(f, i + 1, i + f[i]), g[i + f[i] + 1])

IsReading(g, f) == g = [i \in 1 .. Len(f) + 1 |-> ReadAt(g, f, i)]

LEMMA DecodeIs == ASSUME NEW f PROVE Decode(f) = (CHOOSE g : IsReading(g, f))[1]
BY DEF Decode, IsReading, ReadAt

LEMMA ReadAtAgrees ==
  ASSUME NEW f \in Seq(Nat), NEW i \in 1 .. Len(f) + 1, NEW g, NEW h,
         \A j \in i + 1 .. Len(f) + 1 : g[j] = h[j]
  PROVE  ReadAt(g, f, i) = ReadAt(h, f, i)
<1>1. Len(f) \in Nat
  BY LenProperties
<1>2. CASE i > Len(f)
  BY <1>2 DEF ReadAt
<1>3. CASE i <= Len(f)
  <2>1. f[i] \in Nat /\ i + 1 \in i + 1 .. Len(f) + 1
    BY <1>1, <1>3, ElementOfSeq
  <2>2. CASE f[i] = 0
    BY <1>3, <2>1, <2>2 DEF ReadAt
  <2>3. CASE f[i] # 0 /\ f[i] <= MaxFrame /\ i + f[i] <= Len(f)
    <3>1. i + f[i] + 1 \in i + 1 .. Len(f) + 1
      BY <1>1, <2>1, <2>3
    <3>2. g[i + f[i] + 1] = h[i + f[i] + 1]
      BY <3>1
    <3>3. QED
      BY <3>2 DEF ReadAt
  <2>4. CASE f[i] # 0 /\ ~(f[i] <= MaxFrame /\ i + f[i] <= Len(f))
    <3>1. f[i] > MaxFrame \/ (~(f[i] > MaxFrame) /\ i + f[i] > Len(f))
      BY <1>1, <2>1, <2>4, SpoolAssumption
    <3>2. QED
      BY <1>1, <1>3, <2>4, <3>1 DEF ReadAt
  <2>5. QED
    BY <2>2, <2>3, <2>4
<1>4. QED
  BY <1>1, <1>2, <1>3

LEMMA ReadAtFits ==
  ASSUME NEW f \in Seq(Nat), NEW i \in 1 .. Len(f) + 1, NEW g,
         \A j \in i + 1 .. Len(f) + 1 : g[j] \in Outcomes
  PROVE  ReadAt(g, f, i) \in Outcomes
<1>1. Len(f) \in Nat
  BY LenProperties
<1>2. [ok |-> TRUE, recs |-> <<>>] \in Outcomes /\ Failed \in Outcomes
  <2>1. <<>> \in Seq(Seq(Nat))
    BY EmptySeq
  <2>2. QED
    BY <2>1 DEF Outcomes, Failed
<1>3. CASE i > Len(f)
  BY <1>2, <1>3 DEF ReadAt
<1>4. CASE i <= Len(f)
  <2>1. f[i] \in Nat /\ i + 1 \in i + 1 .. Len(f) + 1
    BY <1>1, <1>4, ElementOfSeq
  <2>2. CASE f[i] = 0
    BY <1>4, <2>1, <2>2 DEF ReadAt
  <2>3. CASE f[i] # 0 /\ f[i] <= MaxFrame /\ i + f[i] <= Len(f)
    <3> DEFINE b == SubSeq(f, i + 1, i + f[i])
               rest == g[i + f[i] + 1]
    <3>1. i + f[i] + 1 \in i + 1 .. Len(f) + 1
      BY <1>1, <2>1, <2>3
    <3>2. rest \in Outcomes
      BY <3>1
    <3>3. b \in Seq(Nat)
      <4>1. \A k \in i + 1 .. i + f[i] : f[k] \in Nat
        BY <1>1, <2>1, <2>3, ElementOfSeq
      <4>2. QED
        BY <2>1, <4>1, SubSeqProperties
    <3> HIDE DEF b, rest
    <3>4. <<b>> \in Seq(Seq(Nat)) /\ rest.recs \in Seq(Seq(Nat)) /\ rest.ok \in BOOLEAN
      BY <3>2, <3>3 DEF Outcomes
    <3>5. <<b>> \o rest.recs \in Seq(Seq(Nat))
      BY <3>4, ConcatProperties
    <3>6. Before(b, rest) \in Outcomes
      BY <1>2, <3>2, <3>5 DEF Before, Outcomes
    <3>7. ReadAt(g, f, i) = Before(b, rest)
      BY <1>4, <2>1, <2>3, SpoolAssumption DEF ReadAt, b, rest
    <3>8. QED
      BY <3>6, <3>7
  <2>4. CASE f[i] # 0 /\ ~(f[i] <= MaxFrame /\ i + f[i] <= Len(f))
    <3>1. f[i] > MaxFrame \/ (~(f[i] > MaxFrame) /\ i + f[i] > Len(f))
      BY <1>1, <2>1, <2>4, SpoolAssumption
    <3>2. ReadAt(g, f, i) = Failed \/ ReadAt(g, f, i) = [ok |-> TRUE, recs |-> <<>>]
      BY <1>1, <1>4, <2>4, <3>1 DEF ReadAt
    <3>3. QED
      BY <1>2, <3>2
  <2>5. QED
    BY <2>2, <2>3, <2>4
<1>5. QED
  BY <1>1, <1>3, <1>4

LEMMA ReadingExists ==
  ASSUME NEW f \in Seq(Nat)
  PROVE  \E g \in [1 .. Len(f) + 1 -> Outcomes] : IsReading(g, f)
<1> DEFINE N == Len(f) + 1
           Right(g, k) == \A i \in k .. N : g[i] = ReadAt(g, f, i)
           T == {k \in 1 .. N : \E g \in [1 .. N -> Outcomes] : Right(g, k)}
<1>1. N \in Nat /\ N >= 1
  BY LenProperties
<1>2. ASSUME NEW k \in 1 .. N, \A j \in k + 1 .. N : j \in T PROVE k \in T
  <2>1. PICK g \in [1 .. N -> Outcomes] : Right(g, k + 1)
    <3>1. CASE k = N
      <4>1. Failed \in Outcomes
        <5>1. <<>> \in Seq(Seq(Nat))
          BY EmptySeq
        <5>2. QED
          BY <5>1 DEF Failed, Outcomes
      <4>2. [i \in 1 .. N |-> Failed] \in [1 .. N -> Outcomes] /\ k + 1 .. N = {}
        BY <1>1, <3>1, <4>1
      <4>3. QED
        BY <4>2
    <3>2. CASE k < N
      <4>1. k + 1 \in k + 1 .. N
        BY <1>1, <3>2
      <4>2. QED
        BY <1>2, <4>1
    <3>3. QED
      BY <1>1, <3>1, <3>2
  <2> DEFINE h == [g EXCEPT ![k] = ReadAt(g, f, k)]
  <2>2. \A j \in k + 1 .. N : j \in 1 .. N /\ j # k
    BY <1>1
  <2>3. ReadAt(g, f, k) \in Outcomes
    <3>1. \A j \in k + 1 .. Len(f) + 1 : g[j] \in Outcomes
      BY <2>1, <2>2
    <3>2. QED
      BY <1>2, <3>1, ReadAtFits
  <2>4. h \in [1 .. N -> Outcomes] /\ h[k] = ReadAt(g, f, k) /\ \A j \in k + 1 .. N : h[j] = g[j]
    BY <2>1, <2>2, <2>3
  <2> HIDE DEF h
  <2>5. ASSUME NEW i \in k .. N PROVE h[i] = ReadAt(h, f, i)
    <3>1. i \in 1 .. Len(f) + 1 /\ i + 1 .. Len(f) + 1 \subseteq k + 1 .. N
      BY <1>1
    <3>2. \A j \in i + 1 .. Len(f) + 1 : g[j] = h[j]
      BY <2>4, <3>1
    <3>3. ReadAt(g, f, i) = ReadAt(h, f, i)
      BY <3>1, <3>2, ReadAtAgrees
    <3>4. CASE i = k
      BY <2>4, <3>3, <3>4
    <3>5. CASE i # k
      <4>1. i \in k + 1 .. N
        BY <1>1, <3>5
      <4>2. QED
        BY <2>1, <2>4, <3>3, <4>1
    <3>6. QED
      BY <3>4, <3>5
  <2>6. QED
    BY <2>4, <2>5
<1>3. 1 \in T
  <2>1. \A i \in 1 .. N : i \in T
    <3> HIDE DEF T
    <3>1. QED
      BY <1>1, <1>2, Downward
  <2>2. QED
    BY <1>1, <2>1
<1>4. PICK g \in [1 .. N -> Outcomes] : Right(g, 1)
  BY <1>3
<1>5. g = [i \in 1 .. N |-> ReadAt(g, f, i)]
  BY <1>4
<1>6. QED
  BY <1>5 DEF IsReading

(* There is one reading of a file.                                         *)
LEMMA ReadingIsUnique ==
  ASSUME NEW f \in Seq(Nat), NEW g, IsReading(g, f), NEW h, IsReading(h, f)
  PROVE  g = h
<1> DEFINE N == Len(f) + 1
           T == {i \in 1 .. N : g[i] = h[i]}
<1>1. N \in Nat
  BY LenProperties
<1>2. /\ g = [i \in 1 .. N |-> ReadAt(g, f, i)]
      /\ h = [i \in 1 .. N |-> ReadAt(h, f, i)]
  BY DEF IsReading
<1>3. ASSUME NEW k \in 1 .. N, \A j \in k + 1 .. N : j \in T PROVE k \in T
  <2>1. ReadAt(g, f, k) = ReadAt(h, f, k)
    BY <1>3, ReadAtAgrees
  <2>2. g[k] = ReadAt(g, f, k) /\ h[k] = ReadAt(h, f, k)
    BY <1>2
  <2>3. QED
    BY <2>1, <2>2
<1>4. \A i \in 1 .. N : i \in T
  <2> HIDE DEF T
  <2>1. QED
    BY <1>1, <1>3, Downward
<1>5. DOMAIN g = 1 .. N /\ DOMAIN h = 1 .. N /\ \A i \in 1 .. N : g[i] = h[i]
  BY <1>2, <1>4
<1>6. QED
  BY <1>2, <1>5

LEMMA Decoding ==
  ASSUME NEW f \in Seq(Nat)
  PROVE  \E g \in [1 .. Len(f) + 1 -> Outcomes] : Decode(f) = g[1] /\ IsReading(g, f)
<1>1. PICK g \in [1 .. Len(f) + 1 -> Outcomes] : IsReading(g, f)
  BY ReadingExists
<1> DEFINE c == CHOOSE h : IsReading(h, f)
<1>2. IsReading(c, f)
  BY <1>1
<1>3. Decode(f) = c[1]
  BY DecodeIs
<1> HIDE DEF c
<1>4. c = g
  BY <1>1, <1>2, ReadingIsUnique
<1>5. QED
  BY <1>1, <1>3, <1>4

-----------------------------------------------------------------------------
(* What Decode makes of records that lie one behind another                *)

(* The records rs lie in f; the header of the k-th is at s[k], and the     *)
(* last position of s is the first behind them.                            *)
LaidOut(f, rs, s) ==
  /\ rs \in Seq(Bodies)
  /\ s \in [1 .. Len(rs) + 1 -> Nat] /\ s[1] = 1
  /\ \A k \in 1 .. Len(rs) :
       /\ s[k] >= 1 /\ s[k] + Len(rs[k]) <= Len(f)
       /\ f[s[k]] = Len(rs[k])
       /\ \A i \in 1 .. Len(rs[k]) : f[s[k] + i] = rs[k][i]
       /\ s[k + 1] = s[k] + Len(rs[k]) + 1

(* Nothing lies at e, or a record whose body is not complete.              *)
TornAt(f, e) ==
  /\ e >= 1 /\ e <= Len(f) + 1
  /\ e <= Len(f) => f[e] # 0 /\ e + f[e] > Len(f)

TooLarge(f, rs, s) ==
  \/ \E k \in 1 .. Len(rs) : Len(rs[k]) > MaxFrame
  \/ s[Len(rs) + 1] <= Len(f) /\ f[s[Len(rs) + 1]] > MaxFrame

Complete(rs) == [ok |-> TRUE, recs |-> rs]

LEMMA BodiesAre == ASSUME NEW b \in Bodies PROVE b \in Seq(Nat) /\ b # <<>> /\ Len(b) \in Nat \ {0}
BY SpoolAssumption, EmptySeq

(* The k-th record and where it lies.                                      *)
RecordAt(f, rs, s, k) ==
  \E x \in Nat, b \in Bodies :
    /\ x = s[k] /\ b = rs[k] /\ Len(b) \in Nat /\ x >= 1 /\ x + Len(b) <= Len(f) /\ f[x] = Len(b)
    /\ \A i \in 1 .. Len(b) : f[x + i] = b[i]
    /\ s[k + 1] = x + Len(b) + 1

LEMMA RecordOf ==
  ASSUME NEW f, NEW rs, NEW s, LaidOut(f, rs, s), NEW k \in 1 .. Len(rs)
  PROVE  RecordAt(f, rs, s, k)
<1>1. rs \in Seq(Bodies) /\ s \in [1 .. Len(rs) + 1 -> Nat]
  BY DEF LaidOut
<1>2. Len(rs) \in Nat
  BY <1>1, LenProperties
<1>3. k \in 1 .. Len(rs) + 1
  BY <1>2
<1>4. s[k] \in Nat
  BY <1>1, <1>3
<1>5. rs[k] \in Bodies
  BY <1>1, ElementOfSeq
<1>6. Len(rs[k]) \in Nat
  BY <1>5, BodiesAre
<1>7. QED
  BY <1>4, <1>5, <1>6 DEF LaidOut, RecordAt

LEMMA UnitsBehind ==
  ASSUME NEW S, NEW q \in Seq(S), NEW i \in Nat, NEW m \in Nat, i + m <= Len(q)
  PROVE  /\ SubSeq(q, i + 1, i + m) \in Seq(S) /\ Len(SubSeq(q, i + 1, i + m)) = m
         /\ \A j \in 1 .. m : SubSeq(q, i + 1, i + m)[j] = q[i + j]
<1> DEFINE x == i + 1
           y == i + m
           u == SubSeq(q, x, y)
<1>1. x \in Int /\ y \in Int /\ Len(q) \in Nat
  BY LenProperties
<1>2. \A j \in x .. y : q[j] \in S
  <2>1. \A j \in x .. y : j \in 1 .. Len(q)
    BY <1>1
  <2>2. QED
    BY <2>1, ElementOfSeq
<1> HIDE DEF x, y
<1>3. /\ u \in Seq(S) /\ Len(u) = IF x <= y THEN y - x + 1 ELSE 0
      /\ \A j \in 1 .. y - x + 1 : u[j] = q[x + j - 1]
  BY <1>1, <1>2, SubSeqProperties
<1> HIDE DEF u
<1>4. y - x + 1 = m /\ (x > y => m = 0) /\ \A j \in 1 .. m : x + j - 1 = i + j
  BY DEF x, y
<1>5. Len(u) = m
  BY <1>1, <1>3, <1>4
<1>6. \A j \in 1 .. m : u[j] = q[i + j]
  BY <1>3, <1>4
<1>7. QED
  BY <1>3, <1>5, <1>6 DEF u, x, y

(* One record, and what a reader finds behind it.                          *)
LEMMA RecordIsRead ==
  ASSUME NEW f \in Seq(Nat), NEW g \in [1 .. Len(f) + 1 -> Outcomes], IsReading(g, f),
         NEW b \in Bodies, NEW i \in Nat, i >= 1, i + Len(b) <= Len(f), f[i] = Len(b),
         \A j \in 1 .. Len(b) : f[i + j] = b[j]
  PROVE  /\ i + Len(b) + 1 \in 1 .. Len(f) + 1
         /\ g[i] = IF Len(b) > MaxFrame THEN Failed ELSE Before(b, g[i + Len(b) + 1])
<1>1. Len(f) \in Nat /\ MaxFrame \in Nat /\ Len(b) \in Nat \ {0} /\ b \in Seq(Nat)
  BY BodiesAre, LenProperties, SpoolAssumption
<1>2. i \in 1 .. Len(f) + 1 /\ i + Len(b) + 1 \in 1 .. Len(f) + 1
  BY <1>1
<1>3. SubSeq(f, i + 1, i + Len(b)) = b
  <2> DEFINE u == SubSeq(f, i + 1, i + Len(b))
  <2>1. \A m \in Nat : i + m <= Len(f) =>
          /\ SubSeq(f, i + 1, i + m) \in Seq(Nat) /\ Len(SubSeq(f, i + 1, i + m)) = m
          /\ \A j \in 1 .. m : SubSeq(f, i + 1, i + m)[j] = f[i + j]
    BY UnitsBehind
  <2>2. u \in Seq(Nat) /\ Len(u) = Len(b) /\ \A j \in 1 .. Len(b) : u[j] = f[i + j]
    BY <1>1, <2>1
  <2>3. \A j \in 1 .. Len(u) : u[j] = b[j]
    BY <2>2
  <2> HIDE DEF u
  <2>4. QED
    BY <1>1, <2>2, <2>3, SeqEqual DEF u
<1>4. g[i] = ReadAt(g, f, i)
  BY <1>2 DEF IsReading
<1>5. ~(i > Len(f)) /\ f[i] # 0 /\ ~(i + f[i] > Len(f)) /\ f[i] = Len(b)
  BY <1>1
<1>6. ReadAt(g, f, i) =
        IF Len(b) > MaxFrame THEN Failed ELSE Before(SubSeq(f, i + 1, i + Len(b)), g[i + Len(b) + 1])
  BY <1>5 DEF ReadAt
<1>7. QED
  BY <1>2, <1>3, <1>4, <1>6

LEMMA DecodeOfRecords ==
  ASSUME NEW f \in Seq(Nat), NEW rs, NEW s, LaidOut(f, rs, s), TornAt(f, s[Len(rs) + 1])
  PROVE  Decode(f) = IF TooLarge(f, rs, s) THEN Failed ELSE Complete(rs)
<1> DEFINE n == Len(rs)
           e == s[n + 1]
           torn == e <= Len(f) /\ f[e] > MaxFrame
           Large(k) == torn \/ \E j \in k .. n : Len(rs[j]) > MaxFrame
           From(k) == IF Large(k) THEN Failed ELSE Complete(SubSeq(rs, k, n))
<1>1. n \in Nat /\ Len(f) \in Nat /\ MaxFrame \in Nat
  BY LenProperties, SpoolAssumption DEF LaidOut
<1>2. PICK g \in [1 .. Len(f) + 1 -> Outcomes] : Decode(f) = g[1] /\ IsReading(g, f)
  BY Decoding
<1>3. \A i \in 1 .. Len(f) + 1 : g[i] = ReadAt(g, f, i)
  BY <1>2 DEF IsReading
<1>4. \A k \in 1 .. n : rs[k] \in Bodies /\ Len(rs[k]) \in Nat \ {0}
  BY BodiesAre DEF LaidOut
<1>5. g[e] = IF torn THEN Failed ELSE Complete(<<>>)
  <2>1. e \in 1 .. Len(f) + 1 /\ (e <= Len(f) => f[e] \in Nat /\ f[e] # 0 /\ e + f[e] > Len(f))
    <3>1. e \in Nat /\ e >= 1 /\ e <= Len(f) + 1 /\ (e <= Len(f) => f[e] # 0 /\ e + f[e] > Len(f))
      <4>1. s \in [1 .. n + 1 -> Nat] /\ n + 1 \in 1 .. n + 1 /\ TornAt(f, e)
        BY <1>1 DEF LaidOut
      <4> HIDE DEF n
      <4>2. e \in Nat
        BY <4>1
      <4> HIDE DEF e
      <4>3. QED
        BY <4>1, <4>2 DEF TornAt
    <3> HIDE DEF e
    <3>2. e <= Len(f) => f[e] \in Nat
      BY <1>1, <3>1, ElementOfSeq
    <3>3. QED
      BY <1>1, <3>1, <3>2
  <2>2. g[e] = ReadAt(g, f, e)
    BY <1>3, <2>1
  <2>3. QED
    BY <1>1, <2>1, <2>2 DEF ReadAt, Complete
<1> DEFINE T == {k \in 1 .. n + 1 : g[s[k]] = From(k)}
<1>6. ASSUME NEW k \in 1 .. n + 1, \A j \in k + 1 .. n + 1 : j \in T PROVE k \in T
  <2>1. CASE k = n + 1
    <3>1. n + 1 .. n = {} /\ SubSeq(rs, n + 1, n) = <<>>
      BY <1>1, SubSeqEmpty
    <3>2. From(n + 1) = IF torn THEN Failed ELSE Complete(<<>>)
      BY <3>1
    <3>3. QED
      BY <1>5, <2>1, <3>2
  <2>2. CASE k # n + 1
    <3> DEFINE b == rs[k]
               i == s[k]
    <3>1. k \in 1 .. n /\ k + 1 \in k + 1 .. n + 1
      BY <1>1, <2>2
    <3>2. /\ i \in Nat /\ i >= 1 /\ i + Len(b) <= Len(f) /\ f[i] = Len(b) /\ b \in Bodies /\ Len(b) \in Nat \ {0}
          /\ \A j \in 1 .. Len(b) : f[i + j] = b[j]
          /\ s[k + 1] = i + Len(b) + 1
      BY <1>4, <3>1 DEF LaidOut
    <3>3. g[i + Len(b) + 1] = From(k + 1)
      BY <1>6, <3>1, <3>2
    <3> HIDE DEF b, i
    <3>4. f \in Seq(Nat) /\ g \in [1 .. Len(f) + 1 -> Outcomes] /\ IsReading(g, f)
      BY <1>2
    <3>5. g[i] = IF Len(b) > MaxFrame THEN Failed ELSE Before(b, g[i + Len(b) + 1])
      BY <3>2, <3>4, RecordIsRead
    <3>6. g[i] = IF Len(b) > MaxFrame THEN Failed ELSE Before(b, From(k + 1))
      <4> HIDE DEF From
      <4>1. QED
        BY <3>3, <3>5
    <3>7. Large(k) <=> Len(b) > MaxFrame \/ Large(k + 1)
      <4>1. \A j : j \in k .. n <=> j = k \/ j \in k + 1 .. n
        BY <1>1, <3>1
      <4>2. QED
        BY <4>1 DEF b
    <3>8. SubSeq(rs, k, n) = <<b>> \o SubSeq(rs, k + 1, n)
      <4>1. rs \in Seq(Bodies) /\ n \in k .. Len(rs)
        BY <1>1, <3>1 DEF LaidOut
      <4>2. QED
        BY <3>1, <4>1, SubSeqRecursiveFirst DEF b
    <3>9. g[i] = From(k)
      <4>1. Before(b, Failed) = Failed
        BY DEF Before, Failed
      <4>2. Before(b, Complete(SubSeq(rs, k + 1, n))) = Complete(SubSeq(rs, k, n))
        BY <3>8 DEF Before, Complete
      <4> HIDE DEF Large
      <4>3. QED
        BY <3>6, <3>7, <4>1, <4>2
    <3>10. QED
      BY <3>1, <3>9 DEF i
  <2>3. QED
    BY <2>1, <2>2
<1>7. 1 \in T
  <2>1. n + 1 \in Nat /\ 1 \in 1 .. n + 1
    BY <1>1
  <2> HIDE DEF T
  <2>2. \A k \in 1 .. n + 1 : k \in T
    BY <1>6, <2>1, Downward
  <2>3. QED
    BY <2>1, <2>2
<1>8. g[1] = From(1)
  BY <1>7 DEF LaidOut
<1>9. SubSeq(rs, 1, n) = rs
  BY SubSeqFull DEF LaidOut
<1>10. QED
  BY <1>2, <1>8, <1>9 DEF TooLarge

(* Whatever lies behind the records, a reader that reads anything reads    *)
(* them first.                                                             *)
LEMMA DecodeBeginsWith ==
  ASSUME NEW f \in Seq(Nat), NEW rs, NEW s, LaidOut(f, rs, s), Decode(f).ok
  PROVE  BeginsWith(Decode(f).recs, rs)
<1> DEFINE n == Len(rs)
<1>1. n \in Nat /\ Len(f) \in Nat
  BY LenProperties DEF LaidOut
<1>2. PICK g \in [1 .. Len(f) + 1 -> Outcomes] : Decode(f) = g[1] /\ IsReading(g, f)
  BY Decoding
<1> DEFINE ReadsFrom(k) ==
             LET r == g[s[k]] IN
             r.ok => Len(r.recs) >= n - k + 1 /\ \A j \in k .. n : r.recs[j - k + 1] = rs[j]
           T == {k \in 1 .. n : ReadsFrom(k)}
<1>3. ASSUME NEW k \in 1 .. n, \A j \in k + 1 .. n : j \in T PROVE k \in T
  <2>1. RecordAt(f, rs, s, k)
    BY RecordOf
  <2>2. PICK i \in Nat, b \in Bodies :
           /\ i = s[k] /\ b = rs[k] /\ Len(b) \in Nat /\ i >= 1 /\ i + Len(b) <= Len(f) /\ f[i] = Len(b)
           /\ \A j \in 1 .. Len(b) : f[i + j] = b[j]
           /\ s[k + 1] = i + Len(b) + 1
    BY <2>1 DEF RecordAt
  <2> DEFINE r == g[i]
             rest == g[i + Len(b) + 1]
  <2>3. i + Len(b) + 1 \in 1 .. Len(f) + 1 /\ r = IF Len(b) > MaxFrame THEN Failed ELSE Before(b, rest)
    BY <1>2, <2>2, RecordIsRead
  <2>4. rest \in Outcomes
    BY <1>2, <2>3
  <2>5. k < n => ReadsFrom(k + 1)
    <3>1. k < n => k + 1 \in k + 1 .. n
      BY <1>1
    <3> HIDE DEF n, ReadsFrom
    <3>2. QED
      BY <1>3, <3>1
  <2> HIDE DEF r, rest
  <2>6. r.ok => rest.ok /\ r.recs = <<b>> \o rest.recs
    BY <2>3, <2>4 DEF Failed, Before, Outcomes
  <2>7. /\ rest.recs \in Seq(Seq(Nat)) /\ Len(rest.recs) \in Nat /\ Len(<<b>> \o rest.recs) = Len(rest.recs) + 1
        /\ (<<b>> \o rest.recs)[1] = b
        /\ \A j \in 1 .. Len(rest.recs) : (<<b>> \o rest.recs)[j + 1] = rest.recs[j]
    <3>1. rest.recs \in Seq(Seq(Nat)) /\ <<b>> \in Seq(Seq(Nat)) /\ Len(<<b>>) = 1 /\ <<b>>[1] = b
      BY <2>4, BodiesAre DEF Outcomes
    <3> DEFINE q == rest.recs
               p == <<b>>
    <3> HIDE DEF q, p
    <3>2. q \in Seq(Seq(Nat)) /\ p \in Seq(Seq(Nat)) /\ Len(p) = 1 /\ p[1] = b
      BY <3>1 DEF p, q
    <3>3. Len(q) \in Nat
      BY <3>2, LenProperties
    <3>4. /\ Len(p \o q) = Len(p) + Len(q)
          /\ \A j \in 1 .. Len(p) + Len(q) : (p \o q)[j] = IF j <= Len(p) THEN p[j] ELSE q[j - Len(p)]
      <4>1. p \in Seq(Seq(Nat)) /\ q \in Seq(Seq(Nat))
        BY <3>2
      <4>2. QED
        BY ONLY <4>1, ConcatProperties
    <3>5. ASSUME NEW j \in 1 .. Len(q) PROVE (p \o q)[j + 1] = q[j]
      <4>1. j + 1 \in 1 .. 1 + Len(q) /\ ~(j + 1 <= 1) /\ (j + 1) - 1 = j
        BY <3>3
      <4>2. QED
        BY <3>2, <3>4, <4>1
    <3>6. (p \o q)[1] = b /\ Len(p \o q) = Len(q) + 1
      BY <3>2, <3>3, <3>4
    <3>7. QED
      BY <3>2, <3>3, <3>5, <3>6 DEF p, q
  <2>8. ReadsFrom(k)
    <3> SUFFICES ASSUME r.ok
                 PROVE  Len(r.recs) >= n - k + 1 /\ \A j \in k .. n : r.recs[j - k + 1] = rs[j]
      BY <2>2 DEF r
    <3>1. rest.ok /\ Len(r.recs) = Len(rest.recs) + 1 /\ r.recs[1] = b
          /\ \A j \in 1 .. Len(rest.recs) : r.recs[j + 1] = rest.recs[j]
      BY <2>6, <2>7
    <3>2. k < n => /\ Len(rest.recs) >= n - (k + 1) + 1
                   /\ \A j \in k + 1 .. n : rest.recs[j - (k + 1) + 1] = rs[j]
      BY <2>2, <2>5, <3>1 DEF rest
    <3> HIDE DEF n
    <3>3. Len(r.recs) >= n - k + 1
      BY <1>1, <2>7, <3>1, <3>2
    <3>4. ASSUME NEW j \in k .. n PROVE r.recs[j - k + 1] = rs[j]
      <4>1. CASE j = k
        <5>1. j - k + 1 = 1
          BY <1>1, <4>1
        <5>2. QED
          BY <2>2, <3>1, <4>1, <5>1
      <4>2. CASE j # k
        <5>1. k < n /\ j \in k + 1 .. n /\ j - (k + 1) + 1 = j - k
          BY <1>1, <4>2
        <5>2. j - k \in 1 .. Len(rest.recs)
          BY <1>1, <2>7, <3>2, <5>1
        <5>3. rest.recs[j - k] = rs[j]
          BY <3>2, <5>1
        <5>4. QED
          BY <3>1, <5>2, <5>3
      <4>3. QED
        BY <4>1, <4>2
    <3>5. QED
      BY <3>3, <3>4
  <2>9. QED
    BY <2>8
<1>4. \A k \in 1 .. n : k \in T
  <2> HIDE DEF T
  <2>1. QED
    BY <1>1, <1>3, Downward
<1>5. Len(g[1].recs) \in Nat
  <2>1. 1 \in 1 .. Len(f) + 1
    BY <1>1
  <2>2. g[1].recs \in Seq(Seq(Nat))
    BY <1>2, <2>1 DEF Outcomes
  <2>3. QED
    BY <2>2, LenProperties
<1>6. CASE n = 0
  BY <1>2, <1>5, <1>6 DEF BeginsWith
<1>7. CASE n # 0
  <2>1. 1 \in 1 .. n /\ s[1] = 1
    BY <1>1, <1>7 DEF LaidOut
  <2>2. ReadsFrom(1)
    BY <1>4, <2>1
  <2>3. Len(g[1].recs) >= n - 1 + 1 /\ \A j \in 1 .. n : g[1].recs[j - 1 + 1] = rs[j]
    BY <1>2, <2>1, <2>2
  <2> HIDE DEF n
  <2>4. Len(g[1].recs) >= n /\ \A j \in 1 .. n : g[1].recs[j] = rs[j]
    <3>1. n - 1 + 1 = n /\ \A j \in 1 .. n : j - 1 + 1 = j
      BY <1>1
    <3>2. QED
      BY <2>3, <3>1
  <2>5. QED
    BY <1>1, <1>2, <1>5, <2>4 DEF BeginsWith, n
<1>8. QED
  BY <1>6, <1>7

-----------------------------------------------------------------------------
(* The inductive invariant                                                 *)

SpoolShape == SpoolTypeOK /\ (op = "append" => body \in Bodies /\ curBytes < Len(file))

(* They lie in the file; behind them there is the header that append has   *)
(* written, an incomplete record, or nothing.                              *)
FileHolds(s) ==
  /\ LaidOut(file, Kept, s) /\ TornAt(file, s[Len(Kept) + 1])
  /\ op = "append" => ~ragged /\ s[Len(Kept) + 1] = Len(file) /\ file[Len(file)] = Len(body)
  /\ op # "append" /\ ~ragged => s[Len(Kept) + 1] = Len(file) + 1
  /\ oversize <=> TooLarge(file, Kept, s)

FileHoldsKept == ~misframed => \E s : FileHolds(s)

(* Behind an incomplete record anything may lie, but the kept ones do not  *)
(* move.                                                                   *)
KeptLieFirst == \E s : LaidOut(file, Kept, s)

(* drain is not past what was handed over.                                 *)
DrainFollows ==
  op = "drain" /\ ~misframed =>
    recs = Kept /\ at >= 1 /\ ~oversize /\ forgotten + at <= handedOver + 1

(* Nothing was truncated that was not sent.                                *)
SentIsForgotten == ~misframed => forgotten <= handedOver

SpoolInv == SpoolShape /\ FileHoldsKept /\ KeptLieFirst /\ DrainFollows /\ SentIsForgotten

LEMMA KeptAre ==
  ASSUME SpoolShape
  PROVE  /\ Kept \in Seq(Bodies) /\ Len(Kept) = Len(accepted) - forgotten
         /\ Len(accepted) \in Nat /\ forgotten \in Nat /\ forgotten <= Len(accepted)
         /\ \A k \in 1 .. Len(Kept) : Kept[k] = accepted[forgotten + k]
<1>1. accepted \in Seq(Bodies) /\ forgotten \in 0 .. Len(accepted)
  BY DEF SpoolShape, SpoolTypeOK
<1>2. Len(accepted) \in Nat
  BY <1>1, LenProperties
<1> DEFINE m == Len(accepted) - forgotten
<1>3. m \in Nat /\ forgotten \in Nat /\ forgotten + m <= Len(accepted) /\ forgotten + m = Len(accepted)
  BY <1>1, <1>2
<1> HIDE DEF m
<1>4. LET u == SubSeq(accepted, forgotten + 1, forgotten + m)
      IN  u \in Seq(Bodies) /\ Len(u) = m /\ \A j \in 1 .. m : u[j] = accepted[forgotten + j]
  BY <1>1, <1>3, UnitsBehind
<1>5. Kept = SubSeq(accepted, forgotten + 1, forgotten + m)
  BY <1>3 DEF Kept
<1>6. Kept \in Seq(Bodies) /\ Len(Kept) = m /\ \A j \in 1 .. m : Kept[j] = accepted[forgotten + j]
  BY <1>4, <1>5
<1>7. QED
  BY <1>1, <1>2, <1>6 DEF m

-----------------------------------------------------------------------------
(* Types                                                                   *)

LEMMA DecodeFits == ASSUME NEW f \in Seq(Nat) PROVE Decode(f).recs \in Seq(Seq(Nat))
<1>1. PICK g \in [1 .. Len(f) + 1 -> Outcomes] : Decode(f) = g[1] /\ IsReading(g, f)
  BY Decoding
<1>2. 1 \in 1 .. Len(f) + 1
  BY LenProperties
<1>3. g[1] \in Outcomes
  BY <1>1, <1>2
<1>4. QED
  BY <1>1, <1>3 DEF Outcomes

LEMMA ShapeStep == ASSUME SpoolShape, SpoolNext PROVE SpoolShape'
<1> USE DEF fileVars, opVars, boundVars, histVars
<1>1. /\ file \in Seq(Nat) /\ Len(file) \in Nat /\ curBytes \in 0 .. Len(file)
      /\ op \in {"none", "append", "drain"} /\ body \in Bodies \cup {<<>>}
      /\ op = "append" => body \in Bodies /\ curBytes < Len(file)
      /\ recs \in Seq(Seq(Nat)) /\ Len(recs) \in Nat /\ at \in 0 .. Len(recs) + 1
      /\ appends \in 0 .. MaxRecords /\ tears \in 0 .. MaxTears
      /\ accepted \in Seq(Bodies) /\ Len(accepted) \in Nat
      /\ handedOver \in 0 .. Len(accepted) /\ forgotten \in 0 .. Len(accepted)
      /\ ragged \in BOOLEAN /\ oversize \in BOOLEAN /\ misframed \in BOOLEAN
      /\ MaxRecords \in Nat /\ MaxTears \in Nat
  BY LenProperties, SpoolAssumption DEF SpoolShape, SpoolTypeOK
<1>2. <<>> \in Seq(Nat) /\ <<>> \in Seq(Seq(Nat)) /\ Len(<<>>) = 0
  BY EmptySeq
<1>3. ASSUME NEW b \in Bodies, AppendHeader(b) PROVE SpoolShape'
  <2>1. Len(b) \in Nat
    BY BodiesAre
  <2>2. file' \in Seq(Nat) /\ Len(file') = Len(file) + 1
    BY <1>1, <1>3, <2>1, AppendProperties DEF AppendHeader
  <2>3. curBytes' = curBytes /\ curBytes' < Len(file') /\ curBytes' \in 0 .. Len(file')
    BY <1>1, <1>3, <2>2 DEF AppendHeader
  <2>4. {ragged', oversize', misframed'} \subseteq BOOLEAN
    BY <1>1, <1>3 DEF AppendHeader
  <2>5. appends' \in 0 .. MaxRecords
    BY <1>1, <1>3 DEF AppendHeader
  <2>6. QED
    BY <1>1, <1>3, <2>2, <2>3, <2>4, <2>5 DEF AppendHeader, SpoolShape, SpoolTypeOK
<1>4. CASE AppendBody
  <2>1. body \in Bodies /\ body \in Seq(Nat) /\ Len(body) \in Nat \ {0}
    BY <1>1, <1>4, BodiesAre DEF AppendBody
  <2>2. file' \in Seq(Nat) /\ Len(file') = Len(file) + Len(body)
    BY <1>1, <1>4, <2>1, ConcatProperties DEF AppendBody
  <2>3. curBytes' \in 0 .. Len(file')
    BY <1>1, <1>4, <2>1, <2>2 DEF AppendBody
  <2>4. accepted' \in Seq(Bodies) /\ Len(accepted') >= Len(accepted) /\ Len(accepted') \in Nat
    <3>1. Append(accepted, body) \in Seq(Bodies) /\ Len(Append(accepted, body)) = Len(accepted) + 1
      BY <1>1, <2>1, AppendProperties
    <3>2. accepted' = accepted \/ accepted' = Append(accepted, body)
      BY <1>4 DEF AppendBody
    <3>3. CASE accepted' = accepted
      BY <1>1, <3>3
    <3>4. CASE accepted' = Append(accepted, body)
      <4>1. accepted' \in Seq(Bodies) /\ Len(accepted') = Len(accepted) + 1
        BY <3>1, <3>4
      <4>2. QED
        BY <1>1, <4>1
    <3>5. QED
      BY <3>2, <3>3, <3>4
  <2>5. handedOver' \in 0 .. Len(accepted') /\ forgotten' \in 0 .. Len(accepted')
    BY <1>1, <1>4, <2>4 DEF AppendBody
  <2>6. QED
    BY <1>1, <1>4, <2>2, <2>3, <2>4, <2>5 DEF AppendBody, SpoolShape, SpoolTypeOK
<1>5. CASE AppendBodyFails
  <2>1. body \in Seq(Nat) /\ Len(body) \in Nat \ {0}
    BY <1>1, <1>5, BodiesAre DEF AppendBodyFails
  <2>2. PICK k \in 0 .. Len(body) - 1 : file' = file \o SubSeq(body, 1, k)
    BY <1>5 DEF AppendBodyFails
  <2>3. SubSeq(body, 1, k) \in Seq(Nat) /\ Len(SubSeq(body, 1, k)) \in Nat
    <3>1. k \in Nat /\ k <= Len(body)
      BY <2>1
    <3>2. SubSeq(body, 0 + 1, 0 + k) \in Seq(Nat)
      BY <2>1, <3>1, UnitsBehind
    <3>3. 0 + 1 = 1 /\ 0 + k = k
      BY <3>1
    <3>4. SubSeq(body, 1, k) \in Seq(Nat)
      BY <3>2, <3>3
    <3>5. QED
      BY <3>4, LenProperties
  <2>4. file' \in Seq(Nat) /\ Len(file') = Len(file) + Len(SubSeq(body, 1, k))
    BY <1>1, <2>2, <2>3, ConcatProperties
  <2>5. curBytes' \in 0 .. Len(file') /\ tears' \in 0 .. MaxTears
    BY <1>1, <1>5, <2>3, <2>4 DEF AppendBodyFails
  <2>6. QED
    BY <1>1, <1>5, <2>4, <2>5 DEF AppendBodyFails, SpoolShape, SpoolTypeOK
<1>6. CASE DrainReads
  <2>1. Decode(file).recs \in Seq(Seq(Nat)) /\ Len(Decode(file).recs) \in Nat
    BY <1>1, DecodeFits, LenProperties
  <2>2. at' \in 0 .. Len(recs') + 1 /\ recs' \in Seq(Seq(Nat))
    BY <1>6, <2>1 DEF DrainReads
  <2>3. QED
    BY <1>1, <1>6, <2>2 DEF DrainReads, SpoolShape, SpoolTypeOK
<1>7. CASE DrainSends
  <2>1. at' \in 0 .. Len(recs) + 1 /\ handedOver' \in 0 .. Len(accepted)
    BY <1>1, <1>7 DEF DrainSends, HandsOverNext
  <2>2. QED
    BY <1>1, <1>7, <2>1 DEF DrainSends, SpoolShape, SpoolTypeOK
<1>8. CASE DrainSendFails
  BY <1>1, <1>2, <1>8 DEF DrainSendFails, DrainEnds, SpoolShape, SpoolTypeOK
<1>9. CASE DrainTruncates
  <2>1. forgotten' \in 0 .. Len(accepted) /\ file' = <<>> /\ curBytes' = 0
    BY <1>1, <1>2, <1>9 DEF DrainTruncates, Truncate
  <2>2. curBytes' \in 0 .. Len(file') /\ at' \in 0 .. Len(recs') + 1
    BY <1>2, <1>9, <2>1 DEF DrainTruncates, DrainEnds
  <2>3. QED
    BY <1>1, <1>2, <1>9, <2>1, <2>2 DEF DrainTruncates, DrainEnds, Truncate, SpoolShape, SpoolTypeOK
<1>10. CASE Reopen
  <2>1. ragged' \in BOOLEAN /\ curBytes' \in 0 .. Len(file) /\ tears' \in 0 .. MaxTears /\ at' \in 0 .. Len(<<>>) + 1
    BY <1>1, <1>2, <1>10 DEF Reopen
  <2>2. QED
    BY <1>1, <1>2, <1>10, <2>1 DEF Reopen, SpoolShape, SpoolTypeOK
<1>11. ASSUME NEW b \in Bodies, AppendHeaderFails(b) PROVE SpoolShape'
  <2>1. PICK n \in 1 .. MaxFrame : file' = Append(file, n)
    BY <1>11 DEF AppendHeaderFails
  <2>2. n \in Nat
    BY SpoolAssumption
  <2>3. file' \in Seq(Nat) /\ Len(file') = Len(file) + 1
    BY <1>1, <2>1, <2>2, AppendProperties
  <2>4. curBytes' \in 0 .. Len(file') /\ appends' \in 0 .. MaxRecords /\ tears' \in 0 .. MaxTears /\ op' = "none"
    BY <1>1, <1>11, <2>3 DEF AppendHeaderFails
  <2>5. QED
    BY <1>1, <1>11, <2>3, <2>4 DEF AppendHeaderFails, SpoolShape, SpoolTypeOK
<1>12. QED
  BY <1>3, <1>4, <1>5, <1>6, <1>7, <1>8, <1>9, <1>10, <1>11 DEF SpoolNext

-----------------------------------------------------------------------------
(* The file holds what is kept                                             *)

LEMMA BehindRecords ==
  ASSUME NEW f, NEW rs, NEW s, LaidOut(f, rs, s)
  PROVE  Len(rs) \in Nat /\ rs \in Seq(Bodies) /\ s[Len(rs) + 1] \in Nat
<1>1. rs \in Seq(Bodies) /\ s \in [1 .. Len(rs) + 1 -> Nat]
  BY DEF LaidOut
<1>2. Len(rs) \in Nat
  BY <1>1, LenProperties
<1>3. Len(rs) + 1 \in 1 .. Len(rs) + 1
  BY <1>2
<1>4. QED
  BY <1>1, <1>2, <1>3

(* What is written behind the records does not move them.                  *)
LEMMA LaidOutGrows ==
  ASSUME NEW f \in Seq(Nat), NEW g \in Seq(Nat), Len(f) <= Len(g), \A i \in 1 .. Len(f) : g[i] = f[i],
         NEW rs, NEW s, LaidOut(f, rs, s)
  PROVE  LaidOut(g, rs, s)
<1>1. Len(f) \in Nat /\ Len(g) \in Nat
  BY LenProperties
<1>2. ASSUME NEW k \in 1 .. Len(rs)
      PROVE  /\ s[k] >= 1 /\ s[k] + Len(rs[k]) <= Len(g)
             /\ g[s[k]] = Len(rs[k])
             /\ \A i \in 1 .. Len(rs[k]) : g[s[k] + i] = rs[k][i]
             /\ s[k + 1] = s[k] + Len(rs[k]) + 1
  <2>1. RecordAt(f, rs, s, k)
    BY RecordOf
  <2>2. PICK x \in Nat, b \in Bodies :
           /\ x = s[k] /\ b = rs[k] /\ Len(b) \in Nat /\ x >= 1 /\ x + Len(b) <= Len(f) /\ f[x] = Len(b)
           /\ \A i \in 1 .. Len(b) : f[x + i] = b[i]
           /\ s[k + 1] = x + Len(b) + 1
    BY <2>1 DEF RecordAt
  <2>3. Len(b) \in Nat /\ x >= 1 /\ x + Len(b) <= Len(f)
    BY <2>2
  <2>4. x \in 1 .. Len(f)
    BY <1>1, <2>3
  <2>5. x + Len(b) <= Len(g)
    BY <1>1, <2>3
  <2>6. ASSUME NEW i \in 1 .. Len(b) PROVE x + i \in 1 .. Len(f)
    BY <1>1, <2>3
  <2>7. g[x] = Len(b) /\ \A i \in 1 .. Len(b) : g[x + i] = b[i]
    BY <2>2, <2>4, <2>6
  <2>8. QED
    BY <2>2, <2>5, <2>7
<1>3. QED
  BY <1>2 DEF LaidOut

(* One more record.                                                        *)
LEMMA LaidOutAppend ==
  ASSUME NEW f \in Seq(Nat), NEW rs, NEW s, LaidOut(f, rs, s), NEW b \in Bodies, NEW e \in Nat,
         s[Len(rs) + 1] = e,
         e >= 1, e + Len(b) = Len(f), f[e] = Len(b), \A i \in 1 .. Len(b) : f[e + i] = b[i]
  PROVE  \E t : LaidOut(f, Append(rs, b), t) /\ t[Len(Append(rs, b)) + 1] = Len(f) + 1
<1> DEFINE n == Len(rs)
           q == Append(rs, b)
           t == [k \in 1 .. n + 2 |-> IF k = n + 2 THEN Len(f) + 1 ELSE s[k]]
<1>1. Len(f) \in Nat /\ Len(b) \in Nat
  BY LenProperties, BodiesAre
<1>2. n \in Nat /\ rs \in Seq(Bodies) /\ s[n + 1] = e
  BY BehindRecords
<1>3. s \in [1 .. n + 1 -> Nat] /\ s[1] = 1
  BY DEF LaidOut
<1>4. q \in Seq(Bodies) /\ Len(q) = n + 1 /\ q[n + 1] = b /\ \A k \in 1 .. n : q[k] = rs[k]
  BY <1>2, AppendProperties
<1>5. t \in [1 .. n + 2 -> Nat] /\ t[n + 2] = Len(f) + 1 /\ \A k \in 1 .. n + 1 : t[k] = s[k]
  <2>1. \A k \in 1 .. n + 2 : k = n + 2 \/ k \in 1 .. n + 1
    BY <1>2
  <2>2. n + 2 \in 1 .. n + 2 /\ \A k \in 1 .. n + 1 : k \in 1 .. n + 2 /\ k # n + 2
    BY <1>2
  <2>3. Len(f) + 1 \in Nat
    BY <1>1
  <2> HIDE DEF n
  <2>4. \A k \in 1 .. n + 2 : (IF k = n + 2 THEN Len(f) + 1 ELSE s[k]) \in Nat
    BY <1>3, <2>1, <2>3
  <2>5. QED
    BY <2>2, <2>4
<1>6. \A k \in 1 .. n : RecordAt(f, rs, s, k)
  BY RecordOf
<1> HIDE DEF n, q, t
<1>7. ASSUME NEW k \in 1 .. n + 1
      PROVE  /\ t[k] >= 1 /\ t[k] + Len(q[k]) <= Len(f) /\ f[t[k]] = Len(q[k])
             /\ \A i \in 1 .. Len(q[k]) : f[t[k] + i] = q[k][i]
             /\ t[k + 1] = t[k] + Len(q[k]) + 1
  <2>1. CASE k = n + 1
    <3>1. k + 1 = n + 2
      BY <1>2, <2>1
    <3>2. t[k] = e /\ q[k] = b /\ t[k + 1] = Len(f) + 1
      BY <1>2, <1>4, <1>5, <2>1, <3>1
    <3>3. e + Len(b) <= Len(f) /\ Len(f) + 1 = e + Len(b) + 1
      <4> DEFINE x == Len(f)
                 y == Len(b)
      <4>1. x \in Nat /\ y \in Nat /\ e + y = x
        BY <1>1
      <4> HIDE DEF x, y
      <4>2. e + y <= x /\ x + 1 = e + y + 1
        BY <4>1
      <4>3. QED
        BY <4>2 DEF x, y
    <3>4. QED
      BY <3>2, <3>3
  <2>2. CASE k # n + 1
    <3>1. k \in 1 .. n /\ k + 1 \in 1 .. n + 1
      BY <1>2, <2>2
    <3>2. t[k] = s[k] /\ t[k + 1] = s[k + 1] /\ q[k] = rs[k]
      BY <1>4, <1>5, <3>1
    <3>3. RecordAt(f, rs, s, k)
      BY <1>6, <3>1
    <3>4. QED
      BY <3>2, <3>3 DEF RecordAt
  <2>3. QED
    BY <2>1, <2>2
<1>8. 1 \in 1 .. n + 1 /\ (n + 1) + 1 = n + 2
  BY <1>2
<1>9. t[1] = 1 /\ t \in [1 .. Len(q) + 1 -> Nat] /\ t[Len(q) + 1] = Len(f) + 1
  BY <1>3, <1>4, <1>5, <1>8
<1>10. LaidOut(f, q, t)
  BY <1>4, <1>7, <1>9 DEF LaidOut
<1>11. QED
  BY <1>9, <1>10 DEF q

LEMMA AppendHeaderKeeps ==
  ASSUME SpoolShape, FileHoldsKept, NEW b \in Bodies, AppendHeader(b)
  PROVE  FileHoldsKept'
<1> SUFFICES ASSUME ~misframed' PROVE \E s : FileHolds(s)'
  BY DEF FileHoldsKept
<1>1. ~misframed /\ ~ragged /\ op = "none" /\ op' = "append" /\ ~ragged' /\ body' = b
      /\ file' = Append(file, Len(b)) /\ oversize' = (oversize \/ Len(b) > MaxFrame)
      /\ UNCHANGED <<accepted, forgotten>>
  BY DEF AppendHeader
<1>2. Kept' = Kept /\ Kept \in Seq(Bodies) /\ Len(Kept) \in Nat
  BY <1>1, KeptAre, LenProperties DEF Kept
<1>3. PICK s : FileHolds(s)
  BY <1>1 DEF FileHoldsKept
<1> DEFINE e == s[Len(Kept) + 1]
<1>4. file \in Seq(Nat) /\ Len(file) \in Nat /\ Len(b) \in Nat \ {0} /\ MaxFrame \in Nat
  BY BodiesAre, LenProperties, SpoolAssumption DEF SpoolShape, SpoolTypeOK
<1>5. /\ file' \in Seq(Nat) /\ Len(file') = Len(file) + 1 /\ \A i \in 1 .. Len(file) : file'[i] = file[i]
      /\ file'[Len(file) + 1] = Len(b)
  BY <1>1, <1>4, AppendProperties
<1>6. e = Len(file) + 1 /\ LaidOut(file, Kept, s) /\ (oversize <=> TooLarge(file, Kept, s))
  BY <1>1, <1>3 DEF FileHolds
<1>7. LaidOut(file', Kept, s)
  <2>1. Len(file) <= Len(file')
    BY <1>4, <1>5
  <2>2. QED
    BY <1>4, <1>5, <1>6, <2>1, LaidOutGrows
<1>8. TornAt(file', e)
  BY <1>4, <1>5, <1>6 DEF TornAt
<1>9. TooLarge(file', Kept, s) <=> oversize'
  <2>1. ~(e <= Len(file)) /\ e <= Len(file') /\ file'[e] = Len(b)
    BY <1>4, <1>5, <1>6
  <2>2. QED
    BY <1>1, <1>6, <2>1 DEF TooLarge
<1>10. e = Len(file') /\ file'[Len(file')] = Len(b)
  BY <1>4, <1>5, <1>6
<1> HIDE DEF e
<1>11. FileHolds(s)'
  BY <1>1, <1>2, <1>7, <1>8, <1>9, <1>10 DEF FileHolds, e
<1>12. QED
  BY <1>11

LEMMA AppendHeaderFailsKeeps ==
  ASSUME SpoolShape, FileHoldsKept, NEW b \in Bodies, AppendHeaderFails(b)
  PROVE  FileHoldsKept'
<1> SUFFICES ASSUME ~misframed' PROVE \E s : FileHolds(s)'
  BY DEF FileHoldsKept
<1>1. PICK n \in 1 .. MaxFrame : file' = Append(file, n)
  BY DEF AppendHeaderFails
<1>2. ~misframed /\ ~ragged /\ op = "none" /\ op' = "none" /\ ragged'
      /\ UNCHANGED <<accepted, forgotten, oversize>>
  BY DEF AppendHeaderFails, opVars
<1>3. Kept' = Kept
  BY <1>2 DEF Kept
<1>4. PICK s : FileHolds(s)
  BY <1>2 DEF FileHoldsKept
<1> DEFINE e == s[Len(Kept) + 1]
<1>5. file \in Seq(Nat) /\ Len(file) \in Nat /\ MaxFrame \in Nat /\ n \in Nat /\ n >= 1 /\ n <= MaxFrame
  BY LenProperties, SpoolAssumption DEF SpoolShape, SpoolTypeOK
<1>6. /\ file' \in Seq(Nat) /\ Len(file') = Len(file) + 1 /\ \A i \in 1 .. Len(file) : file'[i] = file[i]
      /\ file'[Len(file) + 1] = n
  BY <1>1, <1>5, AppendProperties
<1>7. e = Len(file) + 1 /\ LaidOut(file, Kept, s) /\ (oversize <=> TooLarge(file, Kept, s))
  BY <1>2, <1>4 DEF FileHolds
<1>8. LaidOut(file', Kept, s)
  <2>1. Len(file) <= Len(file')
    BY <1>5, <1>6
  <2>2. QED
    BY <1>5, <1>6, <1>7, <2>1, LaidOutGrows
<1>9. TornAt(file', e)
  BY <1>5, <1>6, <1>7 DEF TornAt
<1>10. TooLarge(file', Kept, s) <=> oversize
  <2>1. ~(e <= Len(file)) /\ ~(file'[e] > MaxFrame)
    BY <1>5, <1>6, <1>7
  <2>2. QED
    BY <1>7, <2>1 DEF TooLarge
<1> HIDE DEF e
<1>11. FileHolds(s)'
  BY <1>2, <1>3, <1>8, <1>9, <1>10 DEF FileHolds, e
<1>12. QED
  BY <1>11

LEMMA AppendBodyKeeps == ASSUME SpoolShape, FileHoldsKept, AppendBody PROVE FileHoldsKept'
<1> SUFFICES ASSUME ~misframed' PROVE \E s : FileHolds(s)'
  BY DEF FileHoldsKept
<1>1. /\ ~misframed /\ op = "append" /\ op' = "none" /\ file' = file \o body
      /\ accepted' = Append(accepted, body) /\ UNCHANGED <<forgotten, ragged, oversize>>
  BY DEF AppendBody
<1>2. PICK s : FileHolds(s)
  BY <1>1 DEF FileHoldsKept
<1> DEFINE n == Len(Kept)
           e == s[n + 1]
<1>3. /\ file \in Seq(Nat) /\ Len(file) \in Nat /\ body \in Bodies /\ body \in Seq(Nat)
      /\ Len(body) \in Nat \ {0} /\ MaxFrame \in Nat /\ accepted \in Seq(Bodies)
      /\ Kept \in Seq(Bodies) /\ n = Len(accepted) - forgotten /\ n \in Nat
      /\ Len(accepted) \in Nat /\ forgotten \in Nat
  BY <1>1, BodiesAre, KeptAre, LenProperties, SpoolAssumption DEF SpoolShape, SpoolTypeOK
<1>4. /\ file' \in Seq(Nat) /\ Len(file') = Len(file) + Len(body)
      /\ \A i \in 1 .. Len(file) + Len(body) : file'[i] = IF i <= Len(file) THEN file[i] ELSE body[i - Len(file)]
  BY <1>1, <1>3, ConcatProperties
<1>5. /\ \A i \in 1 .. Len(file) : file'[i] = file[i]
      /\ \A i \in 1 .. Len(body) : file'[Len(file) + i] = body[i]
  <2>1. \A i \in 1 .. Len(file) : i \in 1 .. Len(file) + Len(body) /\ i <= Len(file)
    BY <1>3
  <2>2. \A i \in 1 .. Len(body) : /\ Len(file) + i \in 1 .. Len(file) + Len(body) /\ ~(Len(file) + i <= Len(file))
                                  /\ (Len(file) + i) - Len(file) = i
    BY <1>3
  <2>3. QED
    BY <1>4, <2>1, <2>2
<1>6. e = Len(file) /\ file[Len(file)] = Len(body) /\ ~ragged /\ LaidOut(file, Kept, s) /\ e >= 1
      /\ (oversize <=> TooLarge(file, Kept, s))
  BY <1>1, <1>2 DEF FileHolds, TornAt
<1>7. LaidOut(file', Kept, s)
  <2>1. Len(file) <= Len(file')
    BY <1>3, <1>4
  <2>2. QED
    BY <1>3, <1>4, <1>5, <1>6, <2>1, LaidOutGrows
<1>8. Kept' = Append(Kept, body)
  <2>1. /\ Len(accepted') = Len(accepted) + 1 /\ accepted' \in Seq(Bodies)
        /\ \A i \in 1 .. Len(accepted) : accepted'[i] = accepted[i]
        /\ accepted'[Len(accepted) + 1] = body
    BY <1>1, <1>3, AppendProperties
  <2> DEFINE m == n + 1
             u == SubSeq(accepted', forgotten + 1, forgotten + m)
  <2>2. m \in Nat /\ forgotten + m = Len(accepted') /\ forgotten + m <= Len(accepted')
    BY <1>3, <2>1
  <2> HIDE DEF m
  <2>3. u \in Seq(Bodies) /\ Len(u) = m /\ \A j \in 1 .. m : u[j] = accepted'[forgotten + j]
    BY <1>3, <2>1, <2>2, UnitsBehind
  <2>4. Kept' = u
    BY <1>1, <2>2 DEF Kept
  <2> HIDE DEF u
  <2>5. /\ Append(Kept, body) \in Seq(Bodies) /\ Len(Append(Kept, body)) = n + 1
        /\ \A i \in 1 .. n : Append(Kept, body)[i] = Kept[i]
        /\ Append(Kept, body)[n + 1] = body
    BY <1>3, AppendProperties
  <2>6. \A i \in 1 .. n : Kept[i] = accepted[forgotten + i]
    BY KeptAre
  <2> HIDE DEF n
  <2>7. ASSUME NEW j \in 1 .. m PROVE u[j] = Append(Kept, body)[j]
    <3>1. CASE j = n + 1
      <4>1. forgotten + j = Len(accepted) + 1
        BY <1>3, <3>1
      <4>2. QED
        BY <2>1, <2>3, <2>5, <3>1, <4>1
    <3>2. CASE j # n + 1
      <4>1. j \in 1 .. n /\ forgotten + j \in 1 .. Len(accepted)
        BY <1>3, <3>2 DEF m
      <4>2. QED
        BY <2>1, <2>3, <2>5, <2>6, <4>1
    <3>3. QED
      BY <3>1, <3>2
  <2>8. u = Append(Kept, body)
    BY <2>3, <2>5, <2>7, SeqEqual DEF m
  <2>9. QED
    BY <2>4, <2>8
<1>9. PICK t : LaidOut(file', Kept', t) /\ t[Len(Kept') + 1] = Len(file') + 1
  <2>1. e + Len(body) = Len(file') /\ file'[e] = Len(body) /\ \A i \in 1 .. Len(body) : file'[e + i] = body[i]
    <3>1. Len(file) \in 1 .. Len(file)
      BY <1>3, <1>6
    <3>2. QED
      BY <1>4, <1>5, <1>6, <3>1
  <2>2. QED
    <3>0. e \in Nat /\ e = s[Len(Kept) + 1]
      BY <1>3, <1>6
    <3> HIDE DEF e
    <3>1. \E t : LaidOut(file', Append(Kept, body), t) /\ t[Len(Append(Kept, body)) + 1] = Len(file') + 1
      BY <1>3, <1>4, <1>6, <1>7, <2>1, <3>0, LaidOutAppend DEF e
    <3>2. QED
      BY <1>8, <3>1
<1>10. TornAt(file', Len(file') + 1)
  BY <1>3, <1>4 DEF TornAt
<1>11. TooLarge(file', Kept', t) <=> oversize
  <2>1. Len(Kept') = n + 1 /\ Kept'[n + 1] = body /\ \A k \in 1 .. n : Kept'[k] = Kept[k]
    BY <1>3, <1>8, AppendProperties
  <2>2. ~(t[Len(Kept') + 1] <= Len(file'))
    BY <1>3, <1>4, <1>9
  <2>3. TooLarge(file', Kept', t) <=> \E k \in 1 .. n + 1 : Len(Kept'[k]) > MaxFrame
    BY <2>1, <2>2 DEF TooLarge
  <2>4. TooLarge(file, Kept, s) <=> (\E k \in 1 .. n : Len(Kept[k]) > MaxFrame) \/ Len(body) > MaxFrame
    BY <1>3, <1>6 DEF TooLarge
  <2> HIDE DEF n
  <2>5. \A k : k \in 1 .. n + 1 <=> k \in 1 .. n \/ k = n + 1
    BY <1>3
  <2>6. (\E k \in 1 .. n + 1 : Len(Kept'[k]) > MaxFrame)
          <=> (\E k \in 1 .. n : Len(Kept[k]) > MaxFrame) \/ Len(body) > MaxFrame
    BY <2>1, <2>5
  <2>7. QED
    BY <1>6, <2>3, <2>4, <2>6
<1>12. FileHolds(t)'
  <2> HIDE DEF n, e
  <2>1. op' # "append" /\ ~ragged'
    BY <1>1, <1>6
  <2>2. TornAt(file', t[Len(Kept') + 1]) /\ (oversize' <=> TooLarge(file', Kept', t))
    BY <1>1, <1>9, <1>10, <1>11
  <2>3. QED
    BY <1>9, <2>1, <2>2 DEF FileHolds
<1>13. QED
  BY <1>12

LEMMA AppendBodyFailsKeeps == ASSUME SpoolShape, FileHoldsKept, AppendBodyFails PROVE FileHoldsKept'
<1> SUFFICES ASSUME ~misframed' PROVE \E s : FileHolds(s)'
  BY DEF FileHoldsKept
<1>1. PICK k \in 0 .. Len(body) - 1 : file' = file \o SubSeq(body, 1, k)
  BY DEF AppendBodyFails
<1>2. /\ ~misframed /\ op = "append" /\ op' = "none" /\ ragged' /\ UNCHANGED <<accepted, forgotten, oversize>>
  BY DEF AppendBodyFails
<1>3. Kept' = Kept
  BY <1>2 DEF Kept
<1>4. PICK s : FileHolds(s)
  BY <1>2 DEF FileHoldsKept
<1> DEFINE e == s[Len(Kept) + 1]
           w == SubSeq(body, 1, k)
<1>5. /\ file \in Seq(Nat) /\ Len(file) \in Nat /\ body \in Bodies /\ body \in Seq(Nat)
      /\ Len(body) \in Nat \ {0} /\ MaxFrame \in Nat /\ k \in Nat /\ k < Len(body)
  BY <1>2, BodiesAre, LenProperties, SpoolAssumption DEF SpoolShape, SpoolTypeOK
<1>6. w \in Seq(Nat) /\ Len(w) = k
  <2>1. 0 \in Nat /\ 0 + 1 = 1 /\ 0 + k = k /\ 0 + k <= Len(body)
    BY <1>5
  <2>2. SubSeq(body, 0 + 1, 0 + k) \in Seq(Nat) /\ Len(SubSeq(body, 0 + 1, 0 + k)) = k
    BY <1>5, <2>1, UnitsBehind
  <2>3. QED
    BY <2>1, <2>2
<1> HIDE DEF w
<1>7. /\ file' \in Seq(Nat) /\ Len(file') = Len(file) + k
      /\ \A i \in 1 .. Len(file) + Len(w) : file'[i] = IF i <= Len(file) THEN file[i] ELSE w[i - Len(file)]
  BY <1>1, <1>5, <1>6, ConcatProperties DEF w
<1>8. \A i \in 1 .. Len(file) : file'[i] = file[i]
  <2>1. \A i \in 1 .. Len(file) : i \in 1 .. Len(file) + Len(w) /\ i <= Len(file)
    BY <1>5, <1>6
  <2>2. QED
    BY <1>7, <2>1
<1>9. e = Len(file) /\ file[Len(file)] = Len(body) /\ LaidOut(file, Kept, s) /\ e >= 1
      /\ (oversize <=> TooLarge(file, Kept, s))
  BY <1>2, <1>4 DEF FileHolds, TornAt
<1>10. LaidOut(file', Kept, s)
  <2>1. Len(file) <= Len(file')
    BY <1>5, <1>7
  <2>2. QED
    BY <1>5, <1>7, <1>8, <1>9, <2>1, LaidOutGrows
<1>11. file'[e] = Len(body) /\ e <= Len(file')
  <2>1. Len(file) \in 1 .. Len(file) /\ Len(file) <= Len(file')
    BY <1>5, <1>7, <1>9
  <2>2. e = Len(file) /\ file[Len(file)] = Len(body)
    BY <1>9
  <2> HIDE DEF e
  <2>3. file'[Len(file)] = file[Len(file)]
    BY <1>8, <2>1
  <2>4. QED
    BY <2>1, <2>2, <2>3
<1>12. TornAt(file', e)
  <2>1. e = Len(file) /\ e >= 1
    BY <1>9
  <2> HIDE DEF e
  <2>2. e <= Len(file') + 1 /\ e + Len(body) > Len(file') /\ Len(body) # 0
    BY <1>5, <1>7, <2>1
  <2>3. QED
    BY <1>11, <2>1, <2>2 DEF TornAt
<1>13. TooLarge(file', Kept, s) <=> oversize
  BY <1>5, <1>9, <1>11 DEF TooLarge
<1> HIDE DEF e
<1>14. FileHolds(s)'
  BY <1>2, <1>3, <1>10, <1>12, <1>13 DEF FileHolds, e
<1>15. QED
  BY <1>14

LEMMA NoneKept == ASSUME SpoolShape PROVE SubSeq(accepted, Len(accepted) + 1, Len(accepted)) = <<>>
<1>1. Len(accepted) \in Nat /\ Len(accepted) + 1 > Len(accepted)
  BY KeptAre
<1>2. QED
  BY <1>1, SubSeqEmpty

LEMMA EmptyIsLaidOut ==
  \E s : LaidOut(<<>>, <<>>, s) /\ s[1] = 1 /\ TornAt(<<>>, 1) /\ ~TooLarge(<<>>, <<>>, s)
<1> DEFINE s == [k \in 1 .. 1 |-> 1]
<1>1. <<>> \in Seq(Bodies) /\ Len(<<>>) = 0 /\ 1 \in Nat /\ 0 + 1 = 1 /\ 1 .. 0 = {} /\ MaxFrame \in Nat
  BY EmptySeq, SpoolAssumption
<1>2. s \in [1 .. 0 + 1 -> Nat] /\ s[0 + 1] = 1 /\ s[1] = 1
  BY <1>1
<1> HIDE DEF s
<1>3. LaidOut(<<>>, <<>>, s) /\ TornAt(<<>>, 1) /\ ~TooLarge(<<>>, <<>>, s)
  BY <1>1, <1>2 DEF LaidOut, TornAt, TooLarge
<1>4. QED
  BY <1>2, <1>3

LEMMA TruncateKeeps ==
  ASSUME SpoolShape, DrainFollows, FileHoldsKept, DrainTruncates
  PROVE  FileHoldsKept'
<1> SUFFICES ASSUME ~misframed' PROVE \E s : FileHolds(s)'
  BY DEF FileHoldsKept
<1>1. /\ ~misframed /\ op = "drain" /\ op' = "none" /\ file' = <<>> /\ ~ragged' /\ ~oversize
      /\ forgotten' = Len(accepted) /\ UNCHANGED <<accepted, oversize>>
  BY DEF DrainTruncates, DrainEnds, Truncate, DrainFollows
<1>2. Kept' = <<>>
  BY <1>1, NoneKept DEF Kept
<1>3. PICK s : LaidOut(<<>>, <<>>, s) /\ s[1] = 1 /\ TornAt(<<>>, 1) /\ ~TooLarge(<<>>, <<>>, s)
  BY EmptyIsLaidOut
<1>4. FileHolds(s)'
  BY <1>1, <1>2, <1>3, EmptySeq DEF FileHolds
<1>5. QED
  BY <1>4

LEMMA FileHoldsKeptStep ==
  ASSUME SpoolShape, DrainFollows, FileHoldsKept, SpoolNext
  PROVE  FileHoldsKept'
<1>1. CASE DrainReads \/ DrainSends \/ DrainSendFails
  <2>1. /\ op # "append" /\ op' # "append"
        /\ UNCHANGED <<file, accepted, forgotten, ragged, oversize, misframed>>
    BY <1>1 DEF DrainReads, DrainSends, DrainSendFails, DrainEnds, fileVars, histVars
  <2>2. Kept' = Kept
    BY <2>1 DEF Kept
  <2>3. ASSUME NEW s, FileHolds(s) PROVE FileHolds(s)'
    BY <2>1, <2>2, <2>3 DEF FileHolds
  <2>4. QED
    BY <2>1, <2>3 DEF FileHoldsKept
<1>2. CASE Reopen
  <2>1. /\ file' = file /\ op' = "none" /\ ragged' = (ragged \/ op = "append")
        /\ UNCHANGED <<accepted, forgotten, oversize, misframed>>
    BY <1>2 DEF Reopen
  <2>2. Kept' = Kept
    BY <2>1 DEF Kept
  <2>3. ASSUME NEW s, FileHolds(s) PROVE FileHolds(s)'
    BY <2>1, <2>2, <2>3 DEF FileHolds
  <2>4. QED
    BY <2>1, <2>3 DEF FileHoldsKept
<1>3. QED
  BY <1>1, <1>2, AppendHeaderKeeps, AppendHeaderFailsKeeps, AppendBodyKeeps, AppendBodyFailsKeeps, TruncateKeeps
     DEF SpoolNext

(* Nothing that is written to the file moves the records kept in it.       *)
LEMMA AppendsGrow ==
  ASSUME SpoolShape, misframed,
         AppendBody \/ AppendBodyFails \/ \E b \in Bodies : AppendHeader(b) \/ AppendHeaderFails(b)
  PROVE  UNCHANGED <<accepted, forgotten>> /\ \E w \in Seq(Nat) : file' = file \o w
<1>1. file \in Seq(Nat) /\ MaxFrame \in Nat
  BY SpoolAssumption DEF SpoolShape, SpoolTypeOK
<1>2. ASSUME NEW n \in Nat, file' = Append(file, n) PROVE \E w \in Seq(Nat) : file' = file \o w
  <2>1. <<n>> \in Seq(Nat) /\ Append(file, n) = file \o <<n>>
    BY <1>1, AppendIsConcat
  <2>2. QED
    BY <1>2, <2>1
<1>3. CASE AppendBody
  <2>1. body \in Seq(Nat) /\ file' = file \o body
    BY <1>3, BodiesAre DEF AppendBody, SpoolShape
  <2>2. QED
    BY <1>3, <2>1 DEF AppendBody
<1>4. CASE AppendBodyFails
  <2>1. body \in Seq(Nat) /\ Len(body) \in Nat
    BY <1>4, BodiesAre DEF AppendBodyFails, SpoolShape
  <2>2. PICK k \in 0 .. Len(body) - 1 : file' = file \o SubSeq(body, 1, k)
    BY <1>4 DEF AppendBodyFails
  <2>3. k \in Nat /\ 0 + k <= Len(body) /\ 0 \in Nat /\ 0 + 1 = 1 /\ 0 + k = k
    BY <2>1
  <2>4. SubSeq(body, 0 + 1, 0 + k) \in Seq(Nat)
    BY <2>1, <2>3, UnitsBehind
  <2>5. SubSeq(body, 1, k) \in Seq(Nat)
    BY <2>3, <2>4
  <2>6. QED
    BY <1>4, <2>2, <2>5 DEF AppendBodyFails
<1>5. ASSUME NEW b \in Bodies, AppendHeader(b)
      PROVE  UNCHANGED <<accepted, forgotten>> /\ \E w \in Seq(Nat) : file' = file \o w
  BY <1>2, <1>5, BodiesAre DEF AppendHeader
<1>6. ASSUME NEW b \in Bodies, AppendHeaderFails(b)
      PROVE  UNCHANGED <<accepted, forgotten>> /\ \E w \in Seq(Nat) : file' = file \o w
  <2>1. PICK n \in 1 .. MaxFrame : file' = Append(file, n)
    BY <1>6 DEF AppendHeaderFails
  <2>2. n \in Nat
    BY <1>1
  <2>3. QED
    BY <1>2, <1>6, <2>1, <2>2 DEF AppendHeaderFails
<1>7. QED
  BY <1>3, <1>4, <1>5, <1>6

LEMMA KeptLieFirstStep ==
  ASSUME SpoolInv, FileHoldsKept', SpoolNext
  PROVE  KeptLieFirst'
<1>1. CASE ~misframed'
  BY <1>1 DEF FileHoldsKept, FileHolds, KeptLieFirst
<1>2. CASE misframed' /\ file' = <<>> /\ Kept' = <<>>
  BY <1>2, EmptyIsLaidOut DEF KeptLieFirst
<1>3. ASSUME Kept' = Kept, NEW w \in Seq(Nat), file' = file \o w PROVE KeptLieFirst'
  <2>1. PICK s : LaidOut(file, Kept, s)
    BY DEF SpoolInv, KeptLieFirst
  <2>2. file \in Seq(Nat) /\ Len(file) \in Nat /\ Len(w) \in Nat
    BY LenProperties DEF SpoolInv, SpoolShape, SpoolTypeOK
  <2>3. file \o w \in Seq(Nat) /\ Len(file) <= Len(file \o w) /\ \A i \in 1 .. Len(file) : (file \o w)[i] = file[i]
    BY <2>2, ConcatProperties
  <2>4. LaidOut(file', Kept, s)
    BY <1>3, <2>1, <2>2, <2>3, LaidOutGrows
  <2>5. QED
    BY <1>3, <2>4 DEF KeptLieFirst
<1>4. CASE DrainReads \/ DrainSends \/ DrainSendFails \/ Reopen
  <2>1. UNCHANGED <<file, accepted, forgotten>>
    BY <1>4 DEF DrainReads, DrainSends, DrainSendFails, DrainEnds, Reopen, fileVars, histVars
  <2>2. QED
    BY <2>1 DEF SpoolInv, KeptLieFirst, Kept
<1>5. CASE DrainTruncates
  <2>1. file' = <<>> /\ forgotten' = Len(accepted) /\ accepted' = accepted
    BY <1>5 DEF DrainTruncates, Truncate
  <2>2. Kept' = <<>>
    BY <2>1, NoneKept DEF SpoolInv, Kept
  <2>3. QED
    BY <1>1, <1>2, <2>1, <2>2 DEF SpoolInv, SpoolShape, SpoolTypeOK
<1>6. CASE AppendBody \/ AppendBodyFails \/ \E b \in Bodies : AppendHeader(b) \/ AppendHeaderFails(b)
  <2>1. CASE misframed
    <3>1. UNCHANGED <<accepted, forgotten>> /\ \E w \in Seq(Nat) : file' = file \o w
      BY <1>6, <2>1, AppendsGrow DEF SpoolInv
    <3>2. Kept' = Kept
      BY <3>1 DEF Kept
    <3>3. QED
      BY <1>3, <3>1, <3>2
  <2>2. CASE ~misframed /\ misframed'
    <3>1. PICK b \in Bodies : AppendHeader(b) \/ AppendHeaderFails(b)
      BY <1>6, <2>2 DEF AppendBody, AppendBodyFails
    <3>2. UNCHANGED <<accepted, forgotten>>
      BY <3>1 DEF AppendHeader, AppendHeaderFails
    <3>3. PICK n \in Nat : file' = Append(file, n)
      BY <3>1, BodiesAre, SpoolAssumption DEF AppendHeader, AppendHeaderFails
    <3>4. file \in Seq(Nat) /\ <<n>> \in Seq(Nat)
      BY DEF SpoolInv, SpoolShape, SpoolTypeOK
    <3>5. Append(file, n) = file \o <<n>>
      BY <3>4, AppendIsConcat
    <3>6. Kept' = Kept
      BY <3>2 DEF Kept
    <3>7. QED
      BY <1>3, <3>3, <3>4, <3>5, <3>6
  <2>3. QED
    BY <1>1, <2>1, <2>2
<1>7. QED
  BY <1>4, <1>5, <1>6 DEF SpoolNext

-----------------------------------------------------------------------------
(* What drain reads and truncates                                          *)

(* The file is what was accepted and not truncated, as Decode sees it.     *)
LEMMA HoldsDecodes ==
  ASSUME SpoolShape, FileHoldsKept
  PROVE  ~misframed => Decode(file) = IF oversize THEN Failed ELSE Complete(Kept)
<1> SUFFICES ASSUME ~misframed PROVE Decode(file) = IF oversize THEN Failed ELSE Complete(Kept)
  OBVIOUS
<1>1. PICK s : FileHolds(s)
  BY DEF FileHoldsKept
<1>2. LaidOut(file, Kept, s) /\ TornAt(file, s[Len(Kept) + 1]) /\ (oversize <=> TooLarge(file, Kept, s))
  BY <1>1 DEF FileHolds
<1>3. file \in Seq(Nat)
  BY DEF SpoolShape, SpoolTypeOK
<1>4. Decode(file) = IF TooLarge(file, Kept, s) THEN Failed ELSE Complete(Kept)
  BY <1>2, <1>3, DecodeOfRecords
<1>5. QED
  BY <1>2, <1>4

(* A record that drain sends either was sent before or is the next one.    *)
LEMMA SendsNext ==
  ASSUME SpoolShape, DrainFollows, DrainSends, ~misframed
  PROVE  /\ HandsOverNext \/ forgotten + at <= handedOver
         /\ HandsOverNext => handedOver < Len(accepted)
<1>1. /\ recs = Kept /\ at >= 1 /\ forgotten + at <= handedOver + 1 /\ at <= Len(recs)
  BY DEF DrainSends, DrainFollows
<1>2. /\ Len(Kept) = Len(accepted) - forgotten /\ Len(accepted) \in Nat /\ forgotten \in Nat /\ handedOver \in Nat
      /\ at \in Nat
  BY KeptAre DEF SpoolShape, SpoolTypeOK
<1>3. \A k \in 1 .. Len(Kept) : Kept[k] = accepted[forgotten + k]
  BY KeptAre
<1>4. CASE forgotten + at = handedOver + 1
  <2>1. handedOver < Len(accepted) /\ at \in 1 .. Len(Kept)
    BY <1>1, <1>2, <1>4
  <2>2. recs[at] = accepted[handedOver + 1]
    BY <1>1, <1>3, <1>4, <2>1
  <2>3. QED
    BY <1>4, <2>1, <2>2 DEF HandsOverNext
<1>5. CASE forgotten + at # handedOver + 1
  BY <1>1, <1>2, <1>5 DEF HandsOverNext
<1>6. QED
  BY <1>4, <1>5

LEMMA DrainStep ==
  ASSUME SpoolInv, SpoolNext
  PROVE  DrainFollows' /\ SentIsForgotten'
<1> USE DEF SpoolInv
<1>1. /\ Len(Kept) = Len(accepted) - forgotten /\ Len(accepted) \in Nat /\ forgotten \in Nat /\ handedOver \in Nat
      /\ handedOver <= Len(accepted) /\ forgotten <= Len(accepted) /\ at \in Int
  <2>1. recs \in Seq(Seq(Nat)) /\ at \in 0 .. Len(recs) + 1 /\ handedOver \in 0 .. Len(accepted)
    BY DEF SpoolShape, SpoolTypeOK
  <2>2. QED
    BY <2>1, KeptAre
<1>2. CASE DrainReads
  <2>1. /\ op' = "drain" /\ recs' = Decode(file).recs /\ at' = 1 /\ Decode(file).ok
        /\ UNCHANGED <<accepted, handedOver, forgotten, oversize, misframed>>
    BY <1>2 DEF DrainReads, histVars
  <2>2. Kept' = Kept
    BY <2>1 DEF Kept
  <2>3. ~misframed => ~oversize /\ recs' = Kept
    BY <2>1, HoldsDecodes DEF Failed, Complete
  <2>4. ~misframed => forgotten + 1 <= handedOver + 1
    BY <1>1 DEF SentIsForgotten
  <2>5. QED
    BY <2>1, <2>2, <2>3, <2>4 DEF DrainFollows, SentIsForgotten
<1>3. CASE DrainSends
  <2>1. /\ op = "drain" /\ op' = "drain" /\ recs' = recs /\ at' = at + 1
        /\ handedOver' = IF HandsOverNext THEN handedOver + 1 ELSE handedOver
        /\ UNCHANGED <<accepted, forgotten, oversize, misframed>>
    BY <1>3 DEF DrainSends
  <2>2. Kept' = Kept
    BY <2>1 DEF Kept
  <2> SUFFICES ASSUME ~misframed PROVE DrainFollows' /\ SentIsForgotten'
    BY <2>1 DEF DrainFollows, SentIsForgotten
  <2>3. recs = Kept /\ at >= 1 /\ ~oversize /\ forgotten + at <= handedOver + 1 /\ forgotten <= handedOver
    BY <2>1 DEF DrainFollows, SentIsForgotten
  <2>4. forgotten + at' <= handedOver' + 1 /\ forgotten <= handedOver' /\ at' >= 1
    <3>1. CASE HandsOverNext
      BY <1>1, <2>1, <2>3, <3>1
    <3>2. CASE ~HandsOverNext
      <4>1. forgotten + at <= handedOver
        BY <1>3, <3>2, SendsNext
      <4>2. QED
        BY <1>1, <2>1, <2>3, <3>2, <4>1
    <3>3. QED
      BY <3>1, <3>2
  <2>5. QED
    BY <2>1, <2>2, <2>3, <2>4 DEF DrainFollows, SentIsForgotten
<1>4. CASE DrainTruncates
  <2>1. /\ op = "drain" /\ op' = "none" /\ at > Len(recs)
        /\ forgotten' = Len(accepted)
        /\ UNCHANGED <<handedOver, misframed>>
    BY <1>4 DEF DrainTruncates, DrainEnds, Truncate
  <2>2. ~misframed => Len(accepted) <= handedOver
    <3> SUFFICES ASSUME ~misframed PROVE Len(accepted) <= handedOver
      OBVIOUS
    <3>1. recs = Kept /\ forgotten + at <= handedOver + 1
      BY <2>1 DEF DrainFollows
    <3>2. at > Len(Kept)
      BY <2>1, <3>1
    <3>3. QED
      BY <1>1, <3>1, <3>2
  <2>3. QED
    BY <2>1, <2>2 DEF DrainFollows, SentIsForgotten
<1>5. CASE \/ DrainSendFails \/ Reopen \/ AppendBody \/ AppendBodyFails
           \/ \E b \in Bodies : AppendHeader(b) \/ AppendHeaderFails(b)
  <2>1. op' # "drain" /\ UNCHANGED <<handedOver, forgotten>> /\ (misframed => misframed')
    <3>1. CASE DrainSendFails
      BY <3>1 DEF DrainSendFails, DrainEnds, histVars
    <3>2. CASE Reopen \/ AppendBody \/ AppendBodyFails
      BY <3>2 DEF Reopen, AppendBody, AppendBodyFails
    <3>3. CASE \E b \in Bodies : AppendHeader(b) \/ AppendHeaderFails(b)
      BY <3>3 DEF AppendHeader, AppendHeaderFails, opVars
    <3>4. QED
      BY <1>5, <3>1, <3>2, <3>3
  <2>2. QED
    BY <2>1 DEF DrainFollows, SentIsForgotten
<1>6. QED
  BY <1>2, <1>3, <1>4, <1>5 DEF SpoolNext

-----------------------------------------------------------------------------
(* The invariant holds                                                     *)

LEMMA SpoolInitHolds == SpoolInit => SpoolInv
<1> SUFFICES ASSUME SpoolInit PROVE SpoolInv
  OBVIOUS
<1>1. <<>> \in Seq(Nat) /\ <<>> \in Seq(Seq(Nat)) /\ <<>> \in Seq(Bodies) /\ Len(<<>>) = 0
      /\ MaxFrame \in Nat /\ MaxRecords \in Nat /\ MaxTears \in Nat
  BY EmptySeq, SpoolAssumption
<1>2. SpoolShape
  <2>1. /\ file = <<>> /\ curBytes = 0 /\ op = "none" /\ body = <<>> /\ recs = <<>> /\ at = 0
        /\ appends = 0 /\ tears = 0 /\ accepted = <<>> /\ handedOver = 0 /\ forgotten = 0
        /\ ragged = FALSE /\ oversize = FALSE /\ misframed = FALSE
    BY DEF SpoolInit
  <2>2. /\ curBytes \in 0 .. Len(file) /\ at \in 0 .. Len(recs) + 1
        /\ handedOver \in 0 .. Len(accepted) /\ forgotten \in 0 .. Len(accepted)
    BY <1>1, <2>1
  <2>3. appends \in 0 .. MaxRecords /\ tears \in 0 .. MaxTears
    BY <1>1, <2>1
  <2>4. {ragged, oversize, misframed} \subseteq BOOLEAN
    BY <2>1
  <2>5. QED
    BY <1>1, <2>1, <2>2, <2>3, <2>4 DEF SpoolShape, SpoolTypeOK
<1>3. file = <<>> /\ op = "none" /\ ~ragged /\ ~oversize /\ accepted = <<>> /\ forgotten = 0 /\ handedOver = 0
  BY DEF SpoolInit
<1>4. Kept = <<>>
  <2>1. 0 + 1 > 0 /\ 0 + 1 \in Int /\ 0 \in Int
    OBVIOUS
  <2>2. QED
    BY <1>1, <1>3, <2>1, SubSeqEmpty DEF Kept
<1>5. PICK s : LaidOut(<<>>, <<>>, s) /\ s[1] = 1 /\ TornAt(<<>>, 1) /\ ~TooLarge(<<>>, <<>>, s)
  BY EmptyIsLaidOut
<1>6. FileHolds(s) /\ KeptLieFirst
  BY <1>1, <1>3, <1>4, <1>5 DEF FileHolds, KeptLieFirst
<1>7. QED
  BY <1>2, <1>3, <1>6 DEF SpoolInv, FileHoldsKept, DrainFollows, SentIsForgotten

LEMMA SpoolStutters == ASSUME SpoolInv, UNCHANGED spoolVars PROVE SpoolInv'
<1>1. UNCHANGED <<file, curBytes, op, body, recs, at, appends, tears, accepted, handedOver, forgotten, ragged,
                  oversize, misframed>>
  BY DEF spoolVars, fileVars, opVars, boundVars, histVars
<1>2. Kept' = Kept
  BY <1>1 DEF Kept
<1>3. FileHoldsKept'
  <2>1. ASSUME NEW s, FileHolds(s) PROVE FileHolds(s)'
    BY <1>1, <1>2, <2>1 DEF FileHolds
  <2>2. QED
    BY <1>1, <2>1 DEF SpoolInv, FileHoldsKept
<1>4. KeptLieFirst'
  BY <1>1, <1>2 DEF SpoolInv, KeptLieFirst
<1>5. QED
  BY <1>1, <1>2, <1>3, <1>4 DEF SpoolInv, SpoolShape, SpoolTypeOK, DrainFollows, SentIsForgotten

(* append and drain keep the records that were acknowledged and not        *)
(* truncated whole, in their order and at the head of the file, through    *)
(* failed writes, failed sends and the death of the process; until an      *)
(* append falls behind an incomplete record nothing else that decodes lies *)
(* there, and drain truncates what it has sent.                            *)
THEOREM SpoolInvariant == SpoolSpec => []SpoolInv
<1>1. SpoolInit => SpoolInv
  BY SpoolInitHolds
<1>2. SpoolInv /\ [SpoolNext]_spoolVars => SpoolInv'
  <2>1. ASSUME SpoolInv, SpoolNext PROVE SpoolInv'
    <3>1. SpoolShape /\ FileHoldsKept /\ DrainFollows
      BY <2>1 DEF SpoolInv
    <3>2. SpoolShape'
      BY <2>1, <3>1, ShapeStep
    <3>3. FileHoldsKept'
      BY <2>1, <3>1, FileHoldsKeptStep
    <3>4. DrainFollows' /\ SentIsForgotten'
      BY <2>1, DrainStep
    <3>5. KeptLieFirst'
      BY <2>1, <3>3, KeptLieFirstStep
    <3>6. QED
      BY <3>2, <3>3, <3>4, <3>5 DEF SpoolInv
  <2>2. QED
    BY <2>1, SpoolStutters
<1>3. QED
  BY <1>1, <1>2, PTL DEF SpoolSpec

(* The state of the file, of append and of drain has its types; the size   *)
(* that spool.go keeps is never above the size of the file, and what was   *)
(* sent or truncated is never more than what was acknowledged.             *)
THEOREM SpoolTypes == SpoolSpec => []SpoolTypeOK
<1>1. SpoolInv => SpoolTypeOK
  BY DEF SpoolInv, SpoolShape
<1>2. QED
  BY <1>1, SpoolInvariant, PTL

(* Whatever was torn or crashed, a drain that reads anything reads the     *)
(* acknowledged records that were not truncated first and in their order;  *)
(* it reads those and no others until an append falls behind an incomplete *)
(* record, unless a header above maxFrameSize leaves it none at all.       *)
THEOREM DrainReadsWhatWasAccepted == SpoolSpec => []FileIsAccepted
<1>1. SpoolInv => FileIsAccepted
  <2>1. ASSUME SpoolInv PROVE FileIsAccepted
    <3>1. ~misframed => Decode(file) = IF oversize THEN Failed ELSE [ok |-> TRUE, recs |-> Kept]
      BY <2>1, HoldsDecodes DEF SpoolInv, Complete
    <3>2. Decode(file).ok => BeginsWith(Decode(file).recs, Kept)
      <4>1. PICK s : LaidOut(file, Kept, s)
        BY <2>1 DEF SpoolInv, KeptLieFirst
      <4>2. file \in Seq(Nat)
        BY <2>1 DEF SpoolInv, SpoolShape, SpoolTypeOK
      <4>3. QED
        BY <4>1, <4>2, DecodeBeginsWith
    <3>3. QED
      BY <3>1, <3>2 DEF FileIsAccepted
  <2>2. QED
    BY <2>1
<1>2. QED
  BY <1>1, SpoolInvariant, PTL

-----------------------------------------------------------------------------
(* Refinement: the file implements the outbox of the client                *)

LEMMA OutboxStep ==
  ASSUME SpoolInv, SpoolNext
  PROVE  [Promise!OutboxNext]_(Promise!outboxVars)
<1> USE DEF Promise!OutboxNext, Promise!outboxVars
<1>1. /\ Len(accepted) \in Nat /\ forgotten \in Nat /\ handedOver \in Nat
      /\ forgotten <= Len(accepted) /\ handedOver <= Len(accepted) /\ SpoolShape
  BY KeptAre DEF SpoolInv, SpoolShape, SpoolTypeOK
<1>2. ASSUME NEW b \in Bodies, AppendHeader(b) \/ AppendHeaderFails(b)
      PROVE  [Promise!OutboxNext]_(Promise!outboxVars)
  <2>1. UNCHANGED <<accepted, handedOver, forgotten>> /\ misframed' = (misframed \/ ragged)
    BY <1>2 DEF AppendHeader, AppendHeaderFails
  <2>2. CASE misframed' = misframed
    BY <2>1, <2>2
  <2>3. CASE misframed' # misframed
    <3>1. misframed' = TRUE
      BY <1>1, <2>1, <2>3 DEF SpoolShape, SpoolTypeOK
    <3>2. QED
      BY <2>1, <3>1 DEF Promise!Discard
  <2>4. QED
    BY <2>2, <2>3
<1>3. CASE AppendBody
  <2>1. /\ op = "append" /\ accepted' = IF misframed THEN accepted ELSE Append(accepted, body)
        /\ UNCHANGED <<handedOver, forgotten, misframed>>
    BY <1>3 DEF AppendBody
  <2>2. body \in Bodies
    BY <1>1, <2>1 DEF SpoolShape
  <2>3. CASE misframed
    BY <2>1, <2>3
  <2>4. CASE ~misframed
    BY <2>1, <2>2, <2>4 DEF Promise!Put
  <2>5. QED
    BY <2>3, <2>4
<1>4. CASE DrainSends
  <2>1. /\ handedOver' = IF HandsOverNext THEN handedOver + 1 ELSE handedOver
        /\ UNCHANGED <<accepted, forgotten, misframed>>
    BY <1>4 DEF DrainSends
  <2>2. CASE HandsOverNext
    <3>1. ~misframed /\ handedOver < Len(accepted)
      BY <2>2 DEF HandsOverNext
    <3>2. QED
      BY <2>1, <2>2, <3>1 DEF Promise!HandOver
  <2>3. CASE ~HandsOverNext
    BY <2>1, <2>3
  <2>4. QED
    BY <2>2, <2>3
<1>5. CASE DrainTruncates
  <2>1. forgotten' = Len(accepted) /\ UNCHANGED <<accepted, handedOver, misframed>>
    BY <1>5 DEF DrainTruncates, Truncate
  <2>2. CASE misframed
    BY <2>1, <2>2
  <2>3. CASE ~misframed
    <3>1. Len(accepted) <= handedOver
      BY <1>5, <2>1, <2>3, DrainStep DEF SpoolNext, SentIsForgotten
    <3>2. Len(accepted) \in forgotten .. handedOver
      BY <1>1, <3>1
    <3>3. QED
      BY <2>1, <2>3, <3>2 DEF Promise!Forget
  <2>4. QED
    BY <2>2, <2>3
<1>6. CASE DrainReads \/ DrainSendFails \/ AppendBodyFails \/ Reopen
  <2>1. UNCHANGED <<accepted, handedOver, forgotten, misframed>>
    BY <1>6 DEF DrainReads, DrainSendFails, AppendBodyFails, Reopen, histVars
  <2>2. QED
    BY <2>1
<1>7. QED
  BY <1>2, <1>3, <1>4, <1>5, <1>6 DEF SpoolNext

(* The spool file implements the outbox its comments promise: what was     *)
(* acknowledged is sent in its order and truncated only when it was sent,  *)
(* through torn writes and crashes, until an append falls behind an        *)
(* incomplete record.                                                      *)
THEOREM SpoolImplementsOutbox == SpoolSpec => SpoolIsOutbox
<1>1. SpoolInit => Promise!OutboxInit
  BY DEF SpoolInit, Promise!OutboxInit
<1>2. SpoolInv /\ [SpoolNext]_spoolVars => [Promise!OutboxNext]_(Promise!outboxVars)
  <2>1. UNCHANGED spoolVars => UNCHANGED Promise!outboxVars
    BY DEF spoolVars, histVars, Promise!outboxVars
  <2>2. QED
    BY <2>1, OutboxStep
<1>3. QED
  BY <1>1, <1>2, SpoolInvariant, PTL DEF SpoolSpec, SpoolIsOutbox, Promise!OutboxSpec
============================================================================
