------------------------- MODULE OutputQueueProofs -------------------------
(***************************************************************************)
(* Proofs about the output queues, FairQueue and FIFOQueue, for any        *)
(* packets, sizes, flows and quantum.                                      *)
(***************************************************************************)
EXTENDS FairQueue, FIFOQueue, DataLemmas

(* Sums of sizes.                                                          *)

LEMMA SizesSum == ASSUME NEW S, S \subseteq Packets PROVE SizesOf(S) = SumOver(Size, S)
<1> DEFINE At(h, s) == IF s = {} THEN 0
                       ELSE Size[CHOOSE y \in s : TRUE] + h[s \ {CHOOSE y \in s : TRUE}]
           Rec(h) == h = [s \in SUBSET S |-> At(h, s)]
<1>0. IsFiniteSet(S) /\ \A x \in S : Size[x] \in Int
  BY PacketsAssumption, SizeAssumption, FS_Subset
<1>1. \A h, s : s \in SUBSET S => Step(Size, s, h) = At(h, s)
  BY PickIn DEF Step, Pick
<1>2. ASSUME NEW h PROVE Rec(h) <=> Sums(Size, S, h)
  <2> HIDE DEF At
  <2>1. [s \in SUBSET S |-> At(h, s)] = [s \in SUBSET S |-> Step(Size, s, h)]
    BY <1>1
  <2> QED BY <2>1, Zenon DEF Sums
<1>3. \E h : Sums(Size, S, h)
  BY <1>0, SumsExist
<1>4. SizesOf(S) = (CHOOSE h : Rec(h))[S]
  BY DEF SizesOf, MapThenSumSet, MapThenFoldSet
<1> HIDE DEF Rec
<1>5. Sums(Size, S, CHOOSE h : Rec(h))
  <2>1. \E h : Rec(h)
    BY <1>2, <1>3
  <2>2. Rec(CHOOSE h : Rec(h))
    BY <2>1
  <2> QED BY <1>2, <2>2
<1>6. Sums(Size, S, CHOOSE h : Sums(Size, S, h))
  BY <1>3
<1>7. SizesOf(S) = (CHOOSE h : Sums(Size, S, h))[S]
  BY <1>0, <1>4, <1>5, <1>6, SumsAgree
<1> QED BY <1>7 DEF SumOver

LEMMA SizesNone == SizesOf({}) = 0
BY SizesSum, SumEmpty

LEMMA SizesType == ASSUME NEW S, S \subseteq Packets PROVE SizesOf(S) \in Nat
<1>1. IsFiniteSet(S) /\ \A x \in S : Size[x] \in Nat
  BY PacketsAssumption, SizeAssumption, FS_Subset
<1>2. \A x \in S : Size[x] \in Int
  BY <1>1
<1>3. SumOver(Size, S) \in Nat
  BY <1>1, SumNat
<1> QED BY <1>3, SizesSum

LEMMA SizesWith ==
    ASSUME NEW S, S \subseteq Packets, NEW p \in Packets, p \notin S
    PROVE  SizesOf(S \cup {p}) = SizesOf(S) + Size[p]
<1>1. /\ IsFiniteSet(S) /\ S \cup {p} \subseteq Packets
      /\ \A x \in S : Size[x] \in Int
      /\ Size[p] \in Int
  BY PacketsAssumption, SizeAssumption, FS_Subset
<1>2. SumOver(Size, S \cup {p}) = SumOver(Size, S) + Size[p]
  BY <1>1, SumAdd
<1> QED BY <1>1, <1>2, SizesSum

LEMMA SizesLess ==
    ASSUME NEW S, S \subseteq Packets, NEW R, R \subseteq S
    PROVE  /\ SizesOf(S \ R) = SizesOf(S) - SizesOf(R)
           /\ SizesOf(R) <= SizesOf(S)
<1>1. /\ IsFiniteSet(S) /\ R \subseteq Packets /\ S \ R \subseteq Packets
      /\ \A x \in S : Size[x] \in Int
  BY PacketsAssumption, SizeAssumption, FS_Subset
<1>2. SumOver(Size, S \ R) = SumOver(Size, S) - SumOver(Size, R)
  BY <1>1, SumDifference
<1>3. SizesOf(S \ R) \in Nat /\ SizesOf(S) \in Nat /\ SizesOf(R) \in Nat
  BY <1>1, SizesType
<1>4. SizesOf(S \ R) = SizesOf(S) - SizesOf(R)
  BY <1>1, <1>2, SizesSum
<1> QED BY <1>3, <1>4

LEMMA SizesOne ==
    ASSUME NEW p \in Packets
    PROVE  SizesOf({p}) = Size[p] /\ Size[p] \in Nat /\ Size[p] > 0
<1>1. SizesOf({} \cup {p}) = SizesOf({}) + Size[p]
  BY SizesWith
<1>2. {} \cup {p} = {p} /\ Size[p] \in Nat \ {0}
  BY SizeAssumption
<1> QED BY <1>1, <1>2, SizesNone

LEMMA SizesSome ==
    ASSUME NEW S, S \subseteq Packets, NEW p \in S
    PROVE  Size[p] <= SizesOf(S) /\ SizesOf(S) > 0
<1>1. SizesOf({p}) <= SizesOf(S) /\ p \in Packets /\ SizesOf(S) \in Nat
  BY SizesLess, SizesType
<1> QED BY <1>1, SizesOne

(* Extremes.                                                               *)

LEMMA MinIs ==
    ASSUME NEW S, S \subseteq Nat, S # {}
    PROVE  Min(S) \in S /\ \A x \in S : Min(S) <= x
<1>1. \E x \in S : \A y \in S : x <= y
  BY LeastOf
<1> QED BY <1>1 DEF Min

LEMMA LargestIs ==
    ASSUME Packets # {}
    PROVE  /\ LargestSize \in Nat /\ LargestSize > 0
           /\ \A p \in Packets : Size[p] <= LargestSize
<1> DEFINE Sizes == {Size[p] : p \in Packets}
           Bounds == {n \in Nat : \A x \in Sizes : x <= n}
<1>1. Sizes # {} /\ Sizes \subseteq Nat \ {0} /\ \A p \in Packets : Size[p] \in Sizes
  BY SizeAssumption
<1>2. SizesOf(Packets) \in Bounds
  BY SizesType, SizesSome
<1>3. PICK n \in Bounds : \A m \in Bounds : n <= m
  BY <1>2, LeastOf
<1>4. n \in Sizes
  <2>1. SUFFICES ASSUME n \notin Sizes PROVE FALSE
    OBVIOUS
  <2>2. \A x \in Sizes : x \in Nat \ {0} /\ x <= n /\ x # n
    BY <1>1, <1>3, <2>1
  <2>3. n \in Nat /\ n - 1 \in Nat
    <3>1. PICK x \in Sizes : TRUE
      BY <1>1
    <3> QED BY <1>3, <2>2, <3>1
  <2>4. \A x \in Sizes : x <= n - 1
    <3> HIDE DEF Sizes
    <3> QED BY <2>2, <2>3
  <2>5. n - 1 \in Bounds
    BY <2>3, <2>4
  <2> QED BY <1>3, <2>3, <2>5
<1>5. \E x \in Sizes : \A y \in Sizes : x >= y
  BY <1>1, <1>3, <1>4
<1>6. LargestSize \in Sizes /\ \A y \in Sizes : LargestSize >= y
  <2> HIDE DEF Sizes
  <2>1. Max(Sizes) \in Sizes /\ \A y \in Sizes : Max(Sizes) >= y
    BY <1>5 DEF Max
  <2> QED BY <2>1 DEF LargestSize, Sizes
<1> QED BY <1>1, <1>6

LEMMA SaturatedIs ==
    ASSUME NEW n \in Int, Packets # {}
    PROVE  /\ ShareBound \in Nat /\ ShareBound = Quantum + 2 * LargestSize
           /\ Saturated(n) \in Int
           /\ Saturated(n) = IF n > ShareBound THEN ShareBound
                             ELSE IF n < -ShareBound THEN -ShareBound ELSE n
<1>1. ShareBound \in Nat /\ ShareBound = Quantum + 2 * LargestSize
  BY LargestIs, QueueSizeAssumption, QuantumAssumption DEF ShareBound
<1>2. ASSUME NEW a \in Int, NEW b \in Int
      PROVE  Min({a, b}) = IF a <= b THEN a ELSE b
  <2>1. \E x \in {a, b} : \A y \in {a, b} : x <= y
    BY <1>2
  <2>2. Min({a, b}) \in {a, b} /\ \A y \in {a, b} : Min({a, b}) <= y
    BY <2>1 DEF Min
  <2> QED BY <2>2
<1>3. ASSUME NEW a \in Int, NEW b \in Int
      PROVE  Max({a, b}) = IF a >= b THEN a ELSE b
  <2>1. \E x \in {a, b} : \A y \in {a, b} : x >= y
    BY <1>3
  <2>2. Max({a, b}) \in {a, b} /\ \A y \in {a, b} : Max({a, b}) >= y
    BY <2>1 DEF Max
  <2> QED BY <2>2
<1> DEFINE low == Min({n, ShareBound})
<1>4. low = (IF n <= ShareBound THEN n ELSE ShareBound) /\ low \in Int /\ -ShareBound \in Int
  BY <1>1, <1>2
<1>5. Saturated(n) = Max({-ShareBound, low})
  BY DEF Saturated
<1> HIDE DEF low
<1>6. Saturated(n) = IF -ShareBound >= low THEN -ShareBound ELSE low
  BY <1>3, <1>4, <1>5
<1> QED BY <1>1, <1>4, <1>6

-----------------------------------------------------------------------------
(* Rounds: sequences of flows without a repetition.                        *)

LEMMA PlaceIs ==
    ASSUME NEW rd, IsInjective(rd)
    PROVE  /\ \A i \in DOMAIN rd : Place(rd, rd[i]) = i
           /\ \A f \in ToSet(rd) : Place(rd, f) \in DOMAIN rd /\ rd[Place(rd, f)] = f
BY DEF Place, ToSet, IsInjective

LEMMA Cut ==
    ASSUME NEW X, NEW s \in Seq(X), NEW m \in 1..Len(s) + 1, NEW n \in m - 1..Len(s)
    PROVE  /\ SubSeq(s, m, n) \in Seq(X) /\ Len(SubSeq(s, m, n)) = n - m + 1
           /\ \A j \in 1..n - m + 1 : SubSeq(s, m, n)[j] = s[m + j - 1]
<1>1. m \in Int /\ n \in Int /\ n - m + 1 \in Nat
  OBVIOUS
<1>2. \A j \in m..n : s[j] \in X
  OBVIOUS
<1>3. SubSeq(s, m, n) \in Seq(X)
  BY <1>1, <1>2, SubSeqProperties
<1>4. Len(SubSeq(s, m, n)) = IF m <= n THEN n - m + 1 ELSE 0
  BY <1>1, <1>2, SubSeqProperties
<1>5. \A j \in 1..n - m + 1 : SubSeq(s, m, n)[j] = s[m + j - 1]
  BY <1>1, <1>2, SubSeqProperties
<1> QED BY <1>1, <1>3, <1>4, <1>5

LEMMA RemoveAtIs ==
    ASSUME NEW X, NEW s \in Seq(X), NEW i \in 1..Len(s), IsInjective(s)
    PROVE  /\ RemoveAt(s, i) \in Seq(X) /\ Len(RemoveAt(s, i)) = Len(s) - 1
           /\ \A j \in 1..Len(s) - 1 : RemoveAt(s, i)[j] = IF j < i THEN s[j] ELSE s[j + 1]
           /\ IsInjective(RemoveAt(s, i))
           /\ ToSet(RemoveAt(s, i)) = ToSet(s) \ {s[i]}
<1> DEFINE n == Len(s)
           a == SubSeq(s, 1, i - 1)
           b == SubSeq(s, i + 1, n)
           t == RemoveAt(s, i)
<1>1. n \in Nat /\ i \in Nat /\ DOMAIN s = 1..n /\ \A j \in 1..n : s[j] \in X
  BY LenProperties, ElementOfSeq
<1>2. a \in Seq(X) /\ Len(a) = i - 1 /\ \A j \in 1..i - 1 : a[j] = s[j]
  <2>1. 1 \in 1..n + 1 /\ i - 1 \in 1 - 1..n
    BY <1>1
  <2>2. a \in Seq(X) /\ Len(a) = i - 1 - 1 + 1
    BY <2>1, Cut
  <2>3. \A j \in 1..i - 1 - 1 + 1 : a[j] = s[1 + j - 1]
    BY <2>1, Cut
  <2>4. i - 1 - 1 + 1 = i - 1 /\ \A j \in 1..i - 1 : 1 + j - 1 = j
    BY <1>1
  <2> HIDE DEF a
  <2> QED BY <2>2, <2>3, <2>4
<1>3. b \in Seq(X) /\ Len(b) = n - i /\ \A j \in 1..n - i : b[j] = s[i + j]
  <2>1. i + 1 \in 1..n + 1 /\ n \in i + 1 - 1..n
    BY <1>1
  <2>2. b \in Seq(X) /\ Len(b) = n - (i + 1) + 1
    BY <2>1, Cut
  <2>3. \A j \in 1..n - (i + 1) + 1 : b[j] = s[i + 1 + j - 1]
    BY <2>1, Cut
  <2>4. n - (i + 1) + 1 = n - i /\ \A j \in 1..n - i : i + 1 + j - 1 = i + j
    BY <1>1
  <2> HIDE DEF b
  <2> QED BY <2>2, <2>3, <2>4
<1>4. t = a \o b
  BY DEF RemoveAt
<1> HIDE DEF a, b, t, n
<1>5. t \in Seq(X) /\ Len(t) = n - 1
  <2>1. a \o b \in Seq(X)
    BY <1>2, <1>3
  <2>2. Len(a \o b) = Len(a) + Len(b)
    <3>1. a \in Seq(X) /\ b \in Seq(X)
      BY <1>2, <1>3
    <3> QED BY <3>1, ConcatProperties
  <2> QED BY <1>1, <1>2, <1>3, <1>4, <2>1, <2>2
<1>6. ASSUME NEW j \in 1..n - 1 PROVE t[j] = IF j < i THEN s[j] ELSE s[j + 1]
  <2>1. t[j] = IF j <= Len(a) THEN a[j] ELSE b[j - Len(a)]
    BY <1>1, <1>2, <1>3, <1>4
  <2>2. CASE j < i
    <3>1. j <= Len(a) /\ j \in 1..i - 1
      BY <1>1, <1>2, <2>2
    <3> QED BY <1>2, <2>1, <2>2, <3>1
  <2>3. CASE ~(j < i)
    <3>1. ~(j <= Len(a)) /\ j - Len(a) \in 1..n - i /\ i + (j - Len(a)) = j + 1
      BY <1>1, <1>2, <2>3
    <3> QED BY <1>3, <2>1, <2>3, <3>1
  <2> QED BY <2>2, <2>3
<1>7. DOMAIN t = 1..n - 1
  BY <1>5
<1>8. IsInjective(t)
  <2> SUFFICES ASSUME NEW j \in 1..n - 1, NEW k \in 1..n - 1, t[j] = t[k] PROVE j = k
    BY <1>7 DEF IsInjective
  <2> DEFINE at(l) == IF l < i THEN l ELSE l + 1
  <2>1. \A l \in 1..n - 1 : t[l] = s[at(l)] /\ at(l) \in 1..n
    BY <1>1, <1>6
  <2>2. at(j) = at(k)
    <3> HIDE DEF at
    <3> QED BY <1>1, <2>1 DEF IsInjective
  <2> QED BY <1>1, <2>2
<1>9. ToSet(t) = ToSet(s) \ {s[i]}
  <2>1. ASSUME NEW x \in ToSet(t) PROVE x \in ToSet(s) \ {s[i]}
    <3>1. PICK j \in 1..n - 1 : x = t[j]
      BY <1>7, <2>1 DEF ToSet
    <3>2. PICK k \in 1..n : x = s[k] /\ k # i
      BY <1>1, <1>6, <3>1
    <3> QED BY <1>1, <3>2 DEF ToSet, IsInjective
  <2>2. ASSUME NEW x \in ToSet(s), x # s[i] PROVE x \in ToSet(t)
    <3>1. PICK k \in 1..n : x = s[k] /\ k # i
      BY <1>1, <2>2 DEF ToSet
    <3>2. CASE k < i
      <4>1. k \in 1..n - 1 /\ t[k] = x
        BY <1>1, <1>6, <3>1, <3>2
      <4> QED BY <1>7, <4>1 DEF ToSet
    <3>3. CASE k > i
      <4>1. k - 1 \in 1..n - 1 /\ ~(k - 1 < i) /\ k - 1 + 1 = k
        BY <1>1, <3>3
      <4>2. t[k - 1] = x
        BY <1>6, <3>1, <4>1
      <4> QED BY <1>7, <4>1, <4>2 DEF ToSet
    <3> QED BY <1>1, <3>1, <3>2, <3>3
  <2> QED BY <2>1, <2>2
<1> QED BY <1>5, <1>6, <1>8, <1>9 DEF t, n

LEMMA InsertAtIs ==
    ASSUME NEW X, NEW s \in Seq(X), NEW i \in 1..Len(s) + 1, NEW e \in X,
           IsInjective(s), e \notin ToSet(s)
    PROVE  /\ InsertAt(s, i, e) \in Seq(X) /\ Len(InsertAt(s, i, e)) = Len(s) + 1
           /\ InsertAt(s, i, e)[i] = e
           /\ \A j \in 1..Len(s) : InsertAt(s, i, e)[IF j < i THEN j ELSE j + 1] = s[j]
           /\ IsInjective(InsertAt(s, i, e))
           /\ ToSet(InsertAt(s, i, e)) = ToSet(s) \cup {e}
<1> DEFINE n == Len(s)
           a == SubSeq(s, 1, i - 1)
           b == SubSeq(s, i, n)
           t == InsertAt(s, i, e)
<1>1. n \in Nat /\ i \in Nat /\ DOMAIN s = 1..n /\ \A j \in 1..n : s[j] \in X
  BY LenProperties, ElementOfSeq
<1>2. a \in Seq(X) /\ Len(a) = i - 1 /\ \A j \in 1..i - 1 : a[j] = s[j]
  <2>1. 1 \in 1..n + 1 /\ i - 1 \in 1 - 1..n
    BY <1>1
  <2>2. a \in Seq(X) /\ Len(a) = i - 1 - 1 + 1
    BY <2>1, Cut
  <2>3. \A j \in 1..i - 1 - 1 + 1 : a[j] = s[1 + j - 1]
    BY <2>1, Cut
  <2>4. i - 1 - 1 + 1 = i - 1 /\ \A j \in 1..i - 1 : 1 + j - 1 = j
    BY <1>1
  <2> HIDE DEF a
  <2> QED BY <2>2, <2>3, <2>4
<1>3. b \in Seq(X) /\ Len(b) = n - i + 1 /\ \A j \in 1..n - i + 1 : b[j] = s[i + j - 1]
  <2>1. i \in 1..n + 1 /\ n \in i - 1..n
    BY <1>1
  <2> QED BY <2>1, Cut
<1>4. t = a \o <<e>> \o b
  BY DEF InsertAt
<1> HIDE DEF a, b, t, n
<1> DEFINE c == a \o <<e>>
<1>5. c \in Seq(X) /\ Len(c) = i /\ c[i] = e /\ \A j \in 1..i - 1 : c[j] = s[j]
  <2>1. <<e>> \in Seq(X) /\ Len(<<e>>) = 1 /\ <<e>>[1] = e
    OBVIOUS
  <2>2. c \in Seq(X) /\ Len(c) = i
    BY <1>1, <1>2, <2>1
  <2>3. \A j \in 1..i : c[j] = IF j <= i - 1 THEN a[j] ELSE <<e>>[j - (i - 1)]
    BY <1>1, <1>2, <2>1
  <2> QED BY <1>1, <1>2, <2>1, <2>2, <2>3
<1> HIDE DEF c
<1>6. t = c \o b
  BY <1>4 DEF c
<1>7. t \in Seq(X) /\ Len(t) = n + 1
  <2>1. c \o b \in Seq(X)
    BY <1>3, <1>5
  <2>2. Len(c \o b) = Len(c) + Len(b)
    <3>1. c \in Seq(X) /\ b \in Seq(X)
      BY <1>3, <1>5
    <3> QED BY <3>1, ConcatProperties
  <2> QED BY <1>1, <1>3, <1>5, <1>6, <2>1, <2>2
<1>8. ASSUME NEW j \in 1..n + 1
      PROVE  t[j] = IF j <= i THEN c[j] ELSE b[j - i]
  BY <1>1, <1>3, <1>5, <1>6, <1>8
<1>9. t[i] = e
  BY <1>1, <1>5, <1>8
<1>10. ASSUME NEW j \in 1..n PROVE t[IF j < i THEN j ELSE j + 1] = s[j]
  <2>1. CASE j < i
    <3>1. j \in 1..i - 1 /\ j \in 1..n + 1 /\ j <= i
      BY <1>1, <2>1
    <3> QED BY <1>5, <1>8, <2>1, <3>1
  <2>2. CASE ~(j < i)
    <3>1. /\ j + 1 \in 1..n + 1 /\ ~(j + 1 <= i) /\ j + 1 - i \in 1..n - i + 1
          /\ i + (j + 1 - i) - 1 = j
      BY <1>1, <2>2
    <3> QED BY <1>3, <1>8, <2>2, <3>1
  <2> QED BY <2>1, <2>2
<1>11. ASSUME NEW k \in 1..n + 1, k # i
       PROVE  \E j \in 1..n : k = (IF j < i THEN j ELSE j + 1) /\ t[k] = s[j]
  <2> DEFINE j == IF k < i THEN k ELSE k - 1
  <2>1. j \in 1..n /\ k = (IF j < i THEN j ELSE j + 1)
    BY <1>1, <1>11
  <2> QED BY <1>10, <2>1
<1>12. DOMAIN t = 1..n + 1
  BY <1>7
<1>13. IsInjective(t)
  <2> SUFFICES ASSUME NEW k \in 1..n + 1, NEW l \in 1..n + 1, t[k] = t[l] PROVE k = l
    BY <1>12 DEF IsInjective
  <2>1. \A j \in 1..n : s[j] # e
    BY <1>1 DEF ToSet
  <2>2. CASE k = i \/ l = i
    BY <1>9, <1>11, <2>1, <2>2
  <2>3. CASE k # i /\ l # i
    <3>1. PICK j \in 1..n : k = (IF j < i THEN j ELSE j + 1) /\ t[k] = s[j]
      BY <1>11, <2>3
    <3>2. PICK h \in 1..n : l = (IF h < i THEN h ELSE h + 1) /\ t[l] = s[h]
      BY <1>11, <2>3
    <3>3. j = h
      BY <1>1, <3>1, <3>2 DEF IsInjective
    <3> QED BY <3>1, <3>2, <3>3
  <2> QED BY <2>2, <2>3
<1>14. ToSet(t) = ToSet(s) \cup {e}
  <2>1. ASSUME NEW x \in ToSet(t) PROVE x \in ToSet(s) \cup {e}
    <3>1. PICK k \in 1..n + 1 : x = t[k]
      BY <1>12, <2>1 DEF ToSet
    <3> QED BY <1>1, <1>9, <1>11, <3>1 DEF ToSet
  <2>2. ASSUME NEW x \in ToSet(s) PROVE x \in ToSet(t)
    <3>1. PICK j \in 1..n : x = s[j]
      BY <1>1, <2>2 DEF ToSet
    <3>2. (IF j < i THEN j ELSE j + 1) \in 1..n + 1
      BY <1>1
    <3> QED BY <1>10, <1>12, <3>1, <3>2 DEF ToSet
  <2>3. e \in ToSet(t)
    <3>1. i \in 1..n + 1
      BY DEF n
    <3> QED BY <1>9, <1>12, <3>1 DEF ToSet
  <2> QED BY <2>1, <2>2, <2>3
<1> QED BY <1>7, <1>9, <1>10, <1>13, <1>14 DEF t, n

(* In the visits that follow one to at, g comes before f.                  *)
Before(rd, at, g, f) ==
    IF Place(rd, g) > Place(rd, at)
    THEN Place(rd, f) <= Place(rd, at) \/ Place(rd, g) < Place(rd, f)
    ELSE Place(rd, f) <= Place(rd, at) /\ Place(rd, g) < Place(rd, f)

Round(rd) == rd \in Seq(Flows) /\ IsInjective(rd)

(* Where the b-th visit is of those that follow the one at place c of m.   *)
VisitAt(c, m, b) == IF c + b <= m THEN c + b ELSE c + b - m

LEMMA OrderIs ==
    ASSUME NEW rd, Round(rd), NEW q, NEW at \in ToSet(rd)
    PROVE  /\ Round(Order(rd, q, at)) /\ Round(Remaining(rd, q, at))
           /\ Len(Order(rd, q, at)) = Len(Remaining(rd, q, at))
           /\ ToSet(Order(rd, q, at)) = ToSet(Remaining(rd, q, at))
           /\ ToSet(Remaining(rd, q, at)) =
                IF q[at].length = 0 THEN ToSet(rd) \ {at} ELSE ToSet(rd)
           /\ \A b, d \in DOMAIN Order(rd, q, at) :
                 Before(rd, at, Order(rd, q, at)[b], Order(rd, q, at)[d]) <=> b < d
           /\ \E c \in Nat : /\ c <= Len(Remaining(rd, q, at))
                            /\ \A b \in DOMAIN Order(rd, q, at) :
                                  Place(Remaining(rd, q, at), Order(rd, q, at)[b]) =
                                     VisitAt(c, Len(Remaining(rd, q, at)), b)
<1> DEFINE order == Order(rd, q, at)
           left == Remaining(rd, q, at)
           n == Len(rd)
           a == Place(rd, at)
           leaves == q[at].length = 0
           m == IF leaves THEN n - 1 ELSE n
           k(b) == IF a + b <= n THEN a + b ELSE a + b - n
           c == IF leaves THEN a - 1 ELSE a
<1>1. /\ n \in Nat /\ DOMAIN rd = 1..n /\ \A i \in 1..n : rd[i] \in Flows
      /\ a \in 1..n /\ rd[a] = at
      /\ \A i, j \in 1..n : rd[i] = rd[j] => i = j
  BY PlaceIs, LenProperties, ElementOfSeq DEF Round, IsInjective
<1>2. m \in 0..n /\ c \in 0..m /\ leaves \in BOOLEAN
  BY <1>1
<1>3. order = [j \in 1..m |-> rd[k(j)]]
  BY DEF Order
<1>4. left = IF leaves THEN RemoveAt(rd, a) ELSE rd
  BY DEF Remaining
<1>5. /\ left \in Seq(Flows) /\ IsInjective(left) /\ Len(left) = m
      /\ ToSet(left) = IF leaves THEN ToSet(rd) \ {at} ELSE ToSet(rd)
      /\ leaves => \A j \in 1..m : left[j] = IF j < a THEN rd[j] ELSE rd[j + 1]
  <2>1. CASE leaves
    <3>1. left = RemoveAt(rd, a)
      BY <1>4, <2>1
    <3> HIDE DEF left, a
    <3>0. rd \in Seq(Flows) /\ a \in 1..Len(rd) /\ IsInjective(rd)
      BY <1>1 DEF Round
    <3> HIDE DEF n
    <3>2. /\ RemoveAt(rd, a) \in Seq(Flows) /\ Len(RemoveAt(rd, a)) = Len(rd) - 1
          /\ \A j \in 1..Len(rd) - 1 : RemoveAt(rd, a)[j] = IF j < a THEN rd[j] ELSE rd[j + 1]
          /\ IsInjective(RemoveAt(rd, a))
          /\ ToSet(RemoveAt(rd, a)) = ToSet(rd) \ {rd[a]}
      BY <3>0, RemoveAtIs
    <3> QED BY <1>1, <2>1, <3>1, <3>2 DEF n
  <2>2. CASE ~leaves
    BY <1>4, <2>2 DEF Round
  <2> QED BY <2>1, <2>2
<1> HIDE DEF order, left, n, a, leaves, m, c
<1>6. ASSUME NEW b \in 1..m
      PROVE  k(b) \in 1..n /\ (leaves => k(b) # a)
  BY <1>1, <1>2, <1>6 DEF m
<1>7. ASSUME NEW b \in 1..m
      PROVE  /\ order[b] = rd[k(b)] /\ order[b] \in Flows
             /\ left[VisitAt(c, m, b)] = order[b] /\ VisitAt(c, m, b) \in 1..m
  <2>1. order[b] = rd[k(b)] /\ order[b] \in Flows
    BY <1>1, <1>3, <1>6
  <2>2. CASE ~leaves
    <3>1. VisitAt(c, m, b) = k(b) /\ m = n
      BY <1>1, <2>2 DEF c, m, VisitAt
    <3> QED BY <1>4, <1>6, <2>1, <2>2, <3>1
  <2>3. CASE leaves
    <3>1. m = n - 1 /\ c = a - 1
      BY <2>3 DEF m, c
    <3>2. VisitAt(c, m, b) = (IF k(b) < a THEN k(b) ELSE k(b) - 1) /\ VisitAt(c, m, b) \in 1..m
      BY <1>1, <3>1 DEF VisitAt
    <3>3. k(b) \in 1..n /\ k(b) # a
      BY <1>6, <2>3
    <3>4. left[VisitAt(c, m, b)] = rd[k(b)]
      <4> HIDE DEF k
      <4>1. CASE k(b) < a
        BY <1>5, <2>3, <3>2, <4>1
      <4>2. CASE ~(k(b) < a)
        <5>1. VisitAt(c, m, b) = k(b) - 1 /\ ~(k(b) - 1 < a) /\ k(b) - 1 + 1 = k(b)
          BY <1>1, <3>2, <3>3, <4>2
        <5> QED BY <1>5, <2>3, <3>2, <5>1
      <4> QED BY <4>1, <4>2
    <3> QED BY <2>1, <3>2, <3>4
  <2> QED BY <2>2, <2>3
<1>8. /\ DOMAIN order = 1..m /\ Len(order) = m /\ order \in Seq(Flows)
      /\ IsInjective(order)
  <2>1. order \in [1..m -> Flows] /\ m \in Nat
    BY <1>1, <1>2, <1>3, <1>6
  <2>2. order \in Seq(Flows) /\ Len(order) = m
    BY <2>1, IsASeq
  <2>3. ASSUME NEW b \in 1..m, NEW d \in 1..m, order[b] = order[d] PROVE b = d
    <3>1. k(b) = k(d)
      <4> HIDE DEF k
      <4> QED BY <1>1, <1>6, <1>7, <2>3
    <3> QED BY <1>1, <1>2, <3>1
  <2> QED BY <2>1, <2>2, <2>3 DEF IsInjective
<1>9. ToSet(order) = ToSet(left)
  <2>1. DOMAIN left = 1..m
    BY <1>5
  <2>2. ASSUME NEW i \in 1..m PROVE \E b \in 1..m : VisitAt(c, m, b) = i
    <3> DEFINE b == IF i > c THEN i - c ELSE i - c + m
    <3>1. b \in 1..m /\ VisitAt(c, m, b) = i
      BY <1>2 DEF VisitAt
    <3> QED BY <3>1
  <2>3. ASSUME NEW x \in ToSet(order) PROVE x \in ToSet(left)
    BY <1>7, <1>8, <2>1, <2>3 DEF ToSet
  <2>4. ASSUME NEW x \in ToSet(left) PROVE x \in ToSet(order)
    BY <1>7, <1>8, <2>1, <2>2, <2>4 DEF ToSet
  <2> QED BY <2>3, <2>4
<1>10. ASSUME NEW b \in 1..m, NEW d \in 1..m
       PROVE  Before(rd, at, order[b], order[d]) <=> b < d
  <2>1. Place(rd, order[b]) = k(b) /\ Place(rd, order[d]) = k(d)
    <3> HIDE DEF k
    <3>1. order[b] = rd[k(b)] /\ order[d] = rd[k(d)] /\ k(b) \in DOMAIN rd /\ k(d) \in DOMAIN rd
      BY <1>1, <1>6, <1>7
    <3> QED BY <3>1, PlaceIs DEF Round
  <2>2. Before(rd, at, order[b], order[d]) <=>
          IF k(b) > a THEN k(d) <= a \/ k(b) < k(d) ELSE k(d) <= a /\ k(b) < k(d)
    BY <2>1 DEF Before, a
  <2> QED BY <1>1, <1>2, <2>2
<1>11. ASSUME NEW b \in 1..m PROVE Place(left, order[b]) = VisitAt(c, m, b)
  <2>1. left[VisitAt(c, m, b)] = order[b] /\ VisitAt(c, m, b) \in DOMAIN left
    BY <1>5, <1>7
  <2>2. Place(left, left[VisitAt(c, m, b)]) = VisitAt(c, m, b)
    BY <1>5, <2>1, PlaceIs
  <2> QED BY <2>1, <2>2
<1>12. \E e \in Nat : e <= m /\ \A b \in 1..m : Place(left, order[b]) = VisitAt(e, m, b)
  BY <1>2, <1>11
<1>13. /\ Round(order) /\ Round(left)
       /\ Len(order) = Len(left)
       /\ ToSet(order) = ToSet(left)
       /\ ToSet(left) = IF leaves THEN ToSet(rd) \ {at} ELSE ToSet(rd)
       /\ \A b, d \in DOMAIN order : Before(rd, at, order[b], order[d]) <=> b < d
       /\ \E e \in Nat : e <= Len(left) /\ \A b \in DOMAIN order :
                           Place(left, order[b]) = VisitAt(e, Len(left), b)
  BY <1>5, <1>8, <1>9, <1>10, <1>12 DEF Round
<1> QED BY <1>13 DEF order, left, leaves

(* How a visit changes the order of those that follow.                     *)
LEMMA BeforeAfter ==
    ASSUME NEW left, Round(left), NEW order, Round(order), Len(order) = Len(left),
           NEW c \in Nat, c <= Len(left),
           \A b \in DOMAIN order : Place(left, order[b]) = VisitAt(c, Len(left), b),
           NEW j \in DOMAIN order, NEW b \in DOMAIN order, NEW d \in DOMAIN order
    PROVE  Before(left, order[j], order[b], order[d]) <=>
             IF b > j THEN d <= j \/ b < d ELSE d <= j /\ b < d
<1> DEFINE m == Len(left)
<1>1. m \in Nat /\ DOMAIN order = 1..m
  BY DEF Round
<1> HIDE DEF m
<1>2. \A x \in 1..m : Place(left, order[x]) = VisitAt(c, m, x)
  BY <1>1 DEF m
<1>3. Before(left, order[j], order[b], order[d]) <=>
        IF VisitAt(c, m, b) > VisitAt(c, m, j)
        THEN VisitAt(c, m, d) <= VisitAt(c, m, j) \/ VisitAt(c, m, b) < VisitAt(c, m, d)
        ELSE VisitAt(c, m, d) <= VisitAt(c, m, j) /\ VisitAt(c, m, b) < VisitAt(c, m, d)
  BY <1>1, <1>2 DEF Before
<1>4. c <= m /\ b \in 1..m /\ d \in 1..m /\ j \in 1..m
  BY <1>1 DEF m
<1>5. CASE b > j
  <2>1. (IF VisitAt(c, m, b) > VisitAt(c, m, j)
         THEN VisitAt(c, m, d) <= VisitAt(c, m, j) \/ VisitAt(c, m, b) < VisitAt(c, m, d)
         ELSE VisitAt(c, m, d) <= VisitAt(c, m, j) /\ VisitAt(c, m, b) < VisitAt(c, m, d))
        <=> d <= j \/ b < d
    BY <1>1, <1>4, <1>5, SMTT(30) DEF VisitAt
  <2> QED BY <1>3, <1>5, <2>1
<1>6. CASE ~(b > j)
  <2>1. (IF VisitAt(c, m, b) > VisitAt(c, m, j)
         THEN VisitAt(c, m, d) <= VisitAt(c, m, j) \/ VisitAt(c, m, b) < VisitAt(c, m, d)
         ELSE VisitAt(c, m, d) <= VisitAt(c, m, j) /\ VisitAt(c, m, b) < VisitAt(c, m, d))
        <=> d <= j /\ b < d
    BY <1>1, <1>4, <1>6, SMTT(30) DEF VisitAt
  <2> QED BY <1>3, <1>6, <2>1
<1> QED BY <1>5, <1>6

-----------------------------------------------------------------------------
(* One dequeue.                                                            *)

VirtualQueue == [list : Seq(Packets), length : Nat, deficit : Nat]

Table(rd, q) == Round(rd) /\ q \in [ToSet(rd) -> VirtualQueue]

(* A flow whose deficit counter does not pay for its first packet.         *)
Waiting(v) == v.list # <<>> /\ v.deficit < Size[Head(v.list)]

LEMMA HeadIs ==
    ASSUME NEW v \in VirtualQueue, v.list # <<>>
    PROVE  /\ Head(v.list) \in Packets /\ Packets # {} /\ v.list[1] = Head(v.list)
           /\ Head(v.list) \in ToSet(v.list)
           /\ Size[Head(v.list)] \in Nat /\ Size[Head(v.list)] > 0
           /\ LargestSize \in Nat /\ Size[Head(v.list)] <= LargestSize
<1>1. v.list \in Seq(Packets)
  BY DEF VirtualQueue
<1>2. Head(v.list) = v.list[1] /\ 1 \in DOMAIN v.list /\ v.list[1] \in Packets
  BY <1>1
<1>3. Head(v.list) \in ToSet(v.list)
  BY <1>2 DEF ToSet
<1>4. Size[Head(v.list)] \in Nat \ {0}
  BY <1>2, SizeAssumption
<1>5. Packets # {}
  BY <1>2
<1>6. LargestSize \in Nat /\ Size[Head(v.list)] <= LargestSize
  BY <1>2, <1>5, LargestIs
<1> QED BY <1>2, <1>3, <1>4, <1>5, <1>6

(* The visits before the last one that a flow needs do not pay for it.     *)
LEMMA VisitsAre ==
    ASSUME NEW v \in VirtualQueue, v.list # <<>> \/ v.length # 0
    PROVE  /\ VisitsNeeded(v) \in Nat /\ VisitsNeeded(v) > 0
           /\ v.list # <<>> =>
                 /\ Size[Head(v.list)] <= v.deficit + Quantum * VisitsNeeded(v)
                 /\ Waiting(v) =>
                      \A k \in Nat : k < VisitsNeeded(v) =>
                         v.deficit + Quantum * k < Size[Head(v.list)]
<1>1. CASE v.list = <<>>
  BY <1>1 DEF VisitsNeeded, Broken
<1>2. CASE v.list # <<>>
  <2> DEFINE z == Size[Head(v.list)]
             K == {k \in 1..z : z <= v.deficit + Quantum * k}
  <2>1. z \in Nat /\ z > 0 /\ v.deficit \in Nat
    BY <1>2, HeadIs DEF VirtualQueue
  <2>2. Quantum \in Nat /\ Quantum > 0
    BY QueueSizeAssumption, QuantumAssumption
  <2>3. VisitsNeeded(v) = Min(K)
    BY <1>2 DEF VisitsNeeded, Broken
  <2>4. z \in K
    <3>1. z <= Quantum * z /\ Quantum * z \in Nat
      <4> HIDE DEF z
      <4> QED BY <2>1, <2>2
    <3> HIDE DEF z
    <3> QED BY <2>1, <3>1
  <2>5. K \subseteq Nat /\ K # {} /\ \A k \in K : k > 0
    BY <2>1, <2>4
  <2> HIDE DEF K
  <2>6. Min(K) \in K /\ \A k \in K : Min(K) <= k
    BY <2>5, MinIs
  <2> HIDE DEF z
  <2>7. ASSUME NEW k \in Nat, k < Min(K), v.deficit < z
        PROVE  v.deficit + Quantum * k < z
    <3>1. Quantum * k \in Nat /\ Min(K) \in 1..z
      BY <2>2, <2>6, <2>1 DEF K
    <3>2. CASE k = 0
      BY <2>7, <3>2, <2>1, <2>2
    <3>3. CASE k # 0
      <4>1. k \in 1..z /\ k \notin K
        BY <2>1, <2>6, <2>7, <3>1, <3>3
      <4> QED BY <2>1, <3>1, <4>1 DEF K
    <3> QED BY <3>2, <3>3
  <2>8. z <= v.deficit + Quantum * Min(K)
    BY <2>6 DEF K
  <2>9. Min(K) \in Nat /\ Min(K) > 0
    BY <2>5, <2>6
  <2> QED BY <2>3, <2>7, <2>8, <2>9 DEF Waiting, z
<1> QED BY <1>1, <1>2

LEMMA DeficitIs ==
    ASSUME NEW v \in VirtualQueue, NEW d \in Nat
    PROVE  /\ [v EXCEPT !.deficit = d] \in VirtualQueue
           /\ [v EXCEPT !.deficit = d].list = v.list
           /\ [v EXCEPT !.deficit = d].length = v.length
           /\ [v EXCEPT !.deficit = d].deficit = d
BY DEF VirtualQueue

(* The rounds of the recursion that led to the j-th flow in its round r.   *)
Visits(b, j, r) == IF b <= j THEN r ELSE r - 1

LEMMA CreditIs ==
    ASSUME NEW order, Round(order), order # <<>>,
           NEW T, ToSet(order) \subseteq T, NEW q \in [T -> VirtualQueue],
           \A f \in ToSet(order) : q[f].length # 0
    PROVE  /\ LastPlace(q, order) \in DOMAIN order
           /\ LastRound(q, order) \in Nat /\ LastRound(q, order) > 0
           /\ VisitsNeeded(q[order[LastPlace(q, order)]]) = LastRound(q, order)
           /\ \A b \in DOMAIN order :
                 /\ VisitsNeeded(q[order[b]]) \in Nat
                 /\ LastRound(q, order) <= VisitsNeeded(q[order[b]])
                 /\ b < LastPlace(q, order) => LastRound(q, order) < VisitsNeeded(q[order[b]])
           /\ Credit(q, order) \in [ToSet(order) -> VirtualQueue]
           /\ \A b \in DOMAIN order :
                 LET v == q[order[b]]
                     w == Credit(q, order)[order[b]]
                     k == Visits(b, LastPlace(q, order), LastRound(q, order))
                 IN  /\ w.list = v.list /\ w.length = v.length
                     /\ k \in Nat /\ Quantum * k \in Nat
                     /\ w.deficit = v.deficit + Quantum * k
<1> DEFINE need(b) == VisitsNeeded(q[order[b]])
           R == {need(b) : b \in DOMAIN order}
           r == LastRound(q, order)
           P == {b \in DOMAIN order : need(b) = r}
           j == LastPlace(q, order)
<1>1. /\ DOMAIN order = 1..Len(order) /\ Len(order) \in Nat /\ 1 \in DOMAIN order
      /\ \A b \in DOMAIN order : order[b] \in ToSet(order)
  BY DEF Round, ToSet
<1>2. \A b \in DOMAIN order : q[order[b]] \in VirtualQueue
  BY <1>1
<1>3. \A b \in DOMAIN order : need(b) \in Nat /\ need(b) > 0
  BY <1>1, <1>2, VisitsAre
<1>4. r = Min(R) /\ j = Min(P)
  BY DEF LastRound, LastPlace
<1> HIDE DEF need, r, j
<1>5. R \subseteq Nat /\ R # {}
  BY <1>1, <1>3
<1>6. r \in R /\ \A x \in R : r <= x
  <2> HIDE DEF R
  <2> QED BY <1>4, <1>5, MinIs
<1>7. r \in Nat /\ r > 0 /\ \A b \in DOMAIN order : r <= need(b)
  BY <1>3, <1>6
<1>8. P \subseteq Nat /\ P # {}
  BY <1>1, <1>6
<1>9. j \in P /\ \A b \in P : j <= b
  <2> HIDE DEF P
  <2> QED BY <1>4, <1>8, MinIs
<1>10. /\ j \in DOMAIN order /\ need(j) = r
       /\ \A b \in DOMAIN order : b < j => r < need(b)
  BY <1>1, <1>3, <1>7, <1>9
<1>11. \A b \in DOMAIN order : Place(order, order[b]) = b
  BY PlaceIs DEF Round
<1>12. ASSUME NEW b \in DOMAIN order
       PROVE  Visits(b, j, r) \in Nat /\ Quantum * Visits(b, j, r) \in Nat
  <2>1. Visits(b, j, r) \in Nat
    BY <1>1, <1>7, <1>10 DEF Visits
  <2> QED BY <2>1, QueueSizeAssumption, QuantumAssumption
<1> DEFINE visits(f) == IF Place(order, f) <= j THEN r ELSE r - 1
           more == [f \in ToSet(order) |-> [q[f] EXCEPT !.deficit = @ + Quantum * visits(f)]]
<1>13. Credit(q, order) = more
  BY DEF Credit, r, j
<1>14. ASSUME NEW b \in DOMAIN order
       PROVE  more[order[b]] = [q[order[b]] EXCEPT !.deficit = @ + Quantum * Visits(b, j, r)]
  BY <1>1, <1>11 DEF Visits
<1> HIDE DEF more
<1>15. ASSUME NEW b \in DOMAIN order
       PROVE  /\ more[order[b]] \in VirtualQueue
              /\ more[order[b]].list = q[order[b]].list
              /\ more[order[b]].length = q[order[b]].length
              /\ more[order[b]].deficit = q[order[b]].deficit + Quantum * Visits(b, j, r)
  <2> DEFINE v == q[order[b]]
             k == Quantum * Visits(b, j, r)
  <2>1. v \in VirtualQueue /\ k \in Nat /\ more[order[b]] = [v EXCEPT !.deficit = @ + k]
    BY <1>2, <1>12, <1>14
  <2> HIDE DEF v, k
  <2>2. v.deficit + k \in Nat
    BY <2>1 DEF VirtualQueue
  <2>3. more[order[b]] = [v EXCEPT !.deficit = v.deficit + k]
    BY <2>1
  <2> QED BY <2>1, <2>2, <2>3, DeficitIs DEF v, k
<1>16. more \in [ToSet(order) -> VirtualQueue]
  <2>1. ASSUME NEW f \in ToSet(order) PROVE more[f] \in VirtualQueue
    BY <1>15, <2>1 DEF ToSet
  <2> QED BY <2>1 DEF more
<1> QED BY <1>7, <1>10, <1>12, <1>13, <1>15, <1>16, <1>3 DEF need, r, j

Charged(q, w, f, T) ==
    \A g \in T : /\ w[g].list = q[g].list /\ w[g].length = q[g].length
                 /\ g # f => w[g] = q[g]

LEMMA ChargeIs ==
    ASSUME NEW T, NEW q \in [T -> VirtualQueue], NEW f \in T, Ready(q[f])
    PROVE  /\ Charge(q, f) \in [T -> VirtualQueue]
           /\ Charged(q, Charge(q, f), f, T)
           /\ Charge(q, f)[f].deficit = q[f].deficit - Size[Head(q[f].list)]
<1> DEFINE d == q[f].deficit - Size[Head(q[f].list)]
           v == [q[f] EXCEPT !.deficit = d]
<1>1. d \in Nat
  <2>1. q[f] \in VirtualQueue /\ q[f].list # <<>>
    BY DEF Ready
  <2>2. Size[Head(q[f].list)] \in Nat /\ q[f].deficit \in Nat
    BY <2>1, HeadIs DEF VirtualQueue
  <2> QED BY <2>2 DEF Ready
<1>2. /\ v \in VirtualQueue /\ v.list = q[f].list /\ v.length = q[f].length
      /\ v.deficit = d
  <2> HIDE DEF d
  <2> QED BY <1>1, DeficitIs
<1>3. Charge(q, f) = [q EXCEPT ![f] = v]
  BY DEF Charge
<1> HIDE DEF v
<1>4. [q EXCEPT ![f] = v] \in [T -> VirtualQueue]
  BY <1>2
<1>5. [q EXCEPT ![f] = v][f] = v /\ \A g \in T : g # f => [q EXCEPT ![f] = v][g] = q[g]
  OBVIOUS
<1> QED BY <1>2, <1>3, <1>4, <1>5 DEF Charged

(* The iterator is at a flow of the table; only that one may be empty.     *)
Visitable(rd, q, at) ==
    /\ Table(rd, q) /\ at \in ToSet(rd)
    /\ \A f \in ToSet(rd) : q[f].length = 0 => f = at /\ q[f].list = <<>>

LEMMA TurnIs ==
    ASSUME NEW rd, NEW q, NEW at, Visitable(rd, q, at), ~Ready(q[at]),
           Order(rd, q, at) # <<>>, ~DequeueBreaks(q, at, Order(rd, q, at))
    PROVE  LET order == Order(rd, q, at)
               left == Remaining(rd, q, at)
               more == Credit(q, order)
               f == order[LastPlace(q, order)]
           IN  /\ Round(order) /\ Round(left) /\ ToSet(order) = ToSet(left)
               /\ ToSet(order) \subseteq ToSet(rd)
               /\ \A g \in ToSet(rd) : g \in ToSet(left) \/ (g = at /\ q[at].length = 0)
               /\ \A g \in ToSet(order) : q[g].length # 0
               /\ more \in [ToSet(order) -> VirtualQueue]
               /\ \A g \in ToSet(order) : more[g].list = q[g].list /\ more[g].length = q[g].length
               /\ f \in ToSet(order) /\ q[f] \in VirtualQueue /\ q[f].list # <<>> /\ Ready(more[f])
<1> DEFINE order == Order(rd, q, at)
           left == Remaining(rd, q, at)
           j == LastPlace(q, order)
           r == LastRound(q, order)
           f == order[j]
           more == Credit(q, order)
<1>1. Round(rd) /\ q \in [ToSet(rd) -> VirtualQueue] /\ at \in ToSet(rd)
  BY DEF Visitable, Table
<1>2. /\ Round(order) /\ Round(left) /\ ToSet(order) = ToSet(left)
      /\ ToSet(left) = IF q[at].length = 0 THEN ToSet(rd) \ {at} ELSE ToSet(rd)
  BY <1>1, OrderIs
<1>3. order # <<>> /\ ~Broken(q[at]) /\ ~Broken(q[f])
  BY DEF DequeueBreaks
<1> HIDE DEF order, left
<1>4. /\ ToSet(order) \subseteq ToSet(rd)
      /\ \A g \in ToSet(order) : q[g].length # 0
      /\ \A g \in ToSet(rd) : g \in ToSet(left) \/ (g = at /\ q[at].length = 0)
  BY <1>2 DEF Visitable
<1>5. /\ j \in DOMAIN order
      /\ VisitsNeeded(q[order[j]]) = r
      /\ more \in [ToSet(order) -> VirtualQueue]
      /\ \A b \in DOMAIN order :
             LET v == q[order[b]]
                 w == more[order[b]]
                 k == Visits(b, j, r)
             IN  /\ w.list = v.list /\ w.length = v.length
                 /\ w.deficit = v.deficit + Quantum * k
  <2>1. order # <<>> /\ Round(order) /\ ToSet(order) \subseteq ToSet(rd)
    BY <1>2, <1>3, <1>4
  <2>2. j \in DOMAIN order
    BY <1>1, <1>4, <2>1, CreditIs
  <2>3. VisitsNeeded(q[order[j]]) = r
    BY <1>1, <1>4, <2>1, CreditIs
  <2>4. more \in [ToSet(order) -> VirtualQueue]
    BY <1>1, <1>4, <2>1, CreditIs
  <2>5. \A b \in DOMAIN order :
             LET v == q[order[b]]
                 w == more[order[b]]
                 k == Visits(b, j, r)
             IN  /\ w.list = v.list /\ w.length = v.length
                 /\ w.deficit = v.deficit + Quantum * k
    BY <1>1, <1>4, <2>1, CreditIs
  <2> QED BY <2>2, <2>3, <2>4, <2>5
<1> HIDE DEF j, r, more
<1>6. \A g \in ToSet(order) : more[g].list = q[g].list /\ more[g].length = q[g].length
  BY <1>5 DEF ToSet
<1>7. f \in ToSet(order) /\ q[f] \in VirtualQueue
  BY <1>1, <1>4, <1>5 DEF ToSet
<1>8. q[f].list # <<>>
  BY <1>3, <1>4, <1>7 DEF Broken
<1>9. Ready(more[f])
  <2>1. Size[Head(q[f].list)] <= q[f].deficit + Quantum * VisitsNeeded(q[f])
    BY <1>7, <1>8, VisitsAre
  <2>2. more[f].deficit = q[f].deficit + Quantum * Visits(j, j, r) /\ Visits(j, j, r) = r
    <3>1. j \in Int
      BY <1>2, <1>5 DEF Round
    <3> QED BY <1>5, <3>1 DEF Visits
  <2>3. more[f].list = q[f].list /\ VisitsNeeded(q[f]) = r
    BY <1>5, <1>6, <1>7
  <2> QED BY <1>8, <2>1, <2>2, <2>3 DEF Ready
<1> HIDE DEF f
<1>10. /\ Round(order) /\ Round(left) /\ ToSet(order) = ToSet(left)
       /\ ToSet(order) \subseteq ToSet(rd)
       /\ \A g \in ToSet(rd) : g \in ToSet(left) \/ (g = at /\ q[at].length = 0)
       /\ \A g \in ToSet(order) : q[g].length # 0
       /\ more \in [ToSet(order) -> VirtualQueue]
       /\ \A g \in ToSet(order) : more[g].list = q[g].list /\ more[g].length = q[g].length
       /\ f \in ToSet(order) /\ q[f] \in VirtualQueue /\ q[f].list # <<>> /\ Ready(more[f])
  BY <1>2, <1>4, <1>5, <1>6, <1>7, <1>8, <1>9
<1> QED BY <1>10, Zenon DEF order, left, more, f, j

(* The tables after a dequeue: the lists are what they were, and only the  *)
(* flow that was left may be gone.                                         *)
Dequeued(rd, q, at, after) ==
    /\ Table(after.round, after.queues)
    /\ \A f \in ToSet(after.round) :
          /\ f \in ToSet(rd) /\ q[f].length # 0
          /\ after.queues[f].list = q[f].list
          /\ after.queues[f].length = q[f].length
    /\ \A f \in ToSet(rd) : f \in ToSet(after.round) \/ (f = at /\ q[at].length = 0)
    /\ IF after.actual = NoFlow THEN after.round = <<>>
       ELSE after.actual \in ToSet(after.round) /\ q[after.actual].list # <<>>

LEMMA DequeueTypes ==
    ASSUME NEW rd, NEW q, NEW at, Visitable(rd, q, at),
           ~DequeueBreaks(q, at, Order(rd, q, at))
    PROVE  Dequeued(rd, q, at, Dequeue(rd, q, at, Order(rd, q, at)))
<1> DEFINE order == Order(rd, q, at)
           after == Dequeue(rd, q, at, order)
<1>1. /\ Round(rd) /\ q \in [ToSet(rd) -> VirtualQueue] /\ at \in ToSet(rd)
      /\ \A f \in ToSet(rd) : q[f].length = 0 => f = at /\ q[f].list = <<>>
  BY DEF Visitable, Table
<1>2. \A x : Round(x) => NoFlow \notin ToSet(x)
  <2>1. \A x : Round(x) => ToSet(x) \subseteq Flows
    BY DEF Round, ToSet
  <2> QED BY <2>1, FlowAssumption
<1>3. CASE Ready(q[at])
  <2>1. after = Serving(rd, q, at)
    <3> HIDE DEF order
    <3> QED BY <1>3, Zenon DEF Dequeue
  <2>2. after.round = rd /\ after.queues = Charge(q, at) /\ after.actual = at
    BY <2>1 DEF Serving
  <2>3. q[at].list # <<>>
    BY <1>3 DEF Ready
  <2> HIDE DEF after
  <2>4. /\ after.queues \in [ToSet(rd) -> VirtualQueue]
        /\ \A f \in ToSet(rd) : /\ after.queues[f].list = q[f].list
                               /\ after.queues[f].length = q[f].length
    <3>1. Charge(q, at) \in [ToSet(rd) -> VirtualQueue]
      BY <1>1, <1>3, ChargeIs
    <3>2. Charged(q, Charge(q, at), at, ToSet(rd))
      BY <1>1, <1>3, ChargeIs, Zenon
    <3> QED BY <2>2, <3>1, <3>2 DEF Charged
  <2> QED BY <1>1, <1>2, <2>2, <2>3, <2>4 DEF Dequeued, Table, after
<1>4. CASE ~Ready(q[at]) /\ order = <<>>
  <2>1. after = Idle
    BY <1>4 DEF Dequeue
  <2>2. after.round = <<>> /\ after.queues = NoQueues /\ after.actual = NoFlow
    BY <2>1 DEF Idle
  <2>3. ToSet(<<>>) = {} /\ Round(<<>>)
    BY DEF ToSet, Round, IsInjective
  <2>4. NoQueues \in [{} -> VirtualQueue]
    BY DEF NoQueues
  <2>5. \A f \in ToSet(rd) : f = at /\ q[at].length = 0
    <3>1. ToSet(order) = IF q[at].length = 0 THEN ToSet(rd) \ {at} ELSE ToSet(rd)
      BY <1>1, OrderIs
    <3> HIDE DEF order
    <3> QED BY <1>1, <1>4, <2>3, <3>1
  <2> HIDE DEF after
  <2> QED BY <2>2, <2>3, <2>4, <2>5 DEF Dequeued, Table, after
<1>5. CASE ~Ready(q[at]) /\ order # <<>>
  <2> DEFINE left == Remaining(rd, q, at)
             more == Credit(q, order)
             f == order[LastPlace(q, order)]
  <2>1. /\ Round(left) /\ ToSet(order) = ToSet(left)
        /\ ToSet(order) \subseteq ToSet(rd)
        /\ \A g \in ToSet(rd) : g \in ToSet(left) \/ (g = at /\ q[at].length = 0)
        /\ \A g \in ToSet(order) : q[g].length # 0
        /\ more \in [ToSet(order) -> VirtualQueue]
        /\ \A g \in ToSet(order) : more[g].list = q[g].list /\ more[g].length = q[g].length
        /\ f \in ToSet(order) /\ q[f].list # <<>> /\ Ready(more[f])
    BY <1>5, TurnIs
  <2>2. after = Serving(left, more, f)
    BY <1>5 DEF Dequeue
  <2>3. after.round = left /\ after.queues = Charge(more, f) /\ after.actual = f
    BY <2>2 DEF Serving
  <2> HIDE DEF after, left, more, f, order
  <2>4. /\ after.queues \in [ToSet(left) -> VirtualQueue]
        /\ \A g \in ToSet(left) : /\ after.queues[g].list = q[g].list
                                 /\ after.queues[g].length = q[g].length
    <3>1. more \in [ToSet(left) -> VirtualQueue] /\ f \in ToSet(left)
      BY <2>1
    <3>2. Ready(more[f])
      BY <2>1
    <3>3. Charge(more, f) \in [ToSet(left) -> VirtualQueue]
      BY <3>1, <3>2, ChargeIs
    <3>4. Charged(more, Charge(more, f), f, ToSet(left))
      BY <3>1, <3>2, ChargeIs, Zenon
    <3> QED BY <2>1, <2>3, <3>3, <3>4 DEF Charged
  <2>5. f # NoFlow
    BY <1>2, <2>1
  <2>6. Dequeued(rd, q, at, after)
    BY <2>1, <2>3, <2>4, <2>5 DEF Dequeued, Table
  <2> QED BY <2>6 DEF after, order
<1>6. Dequeued(rd, q, at, after)
  BY <1>3, <1>4, <1>5
<1> QED BY <1>6 DEF after, order

-----------------------------------------------------------------------------
(* Fairness of one dequeue.                                                *)

(* How far f may be ahead of g, what their counters hold included: by a    *)
(* quantum more while g is the next of the two to be visited.              *)
Within(rd, q, at, L) ==
    \A f, g \in ToSet(rd) : f # g =>
        L[f][g] + q[f].deficit - q[g].deficit <
            LargestSize + IF Before(rd, at, g, f) THEN Quantum ELSE 0

Leads == [Flows -> [Flows -> Int]]

LEMMA CreditFair ==
    ASSUME NEW rd, NEW q, NEW at, Visitable(rd, q, at), ~Ready(q[at]),
           Order(rd, q, at) # <<>>, ~DequeueBreaks(q, at, Order(rd, q, at)),
           \A f \in ToSet(rd) \ {at} : Waiting(q[f]),
           NEW L \in Leads, Within(rd, q, at, L)
    PROVE  LET order == Order(rd, q, at)
               left == Remaining(rd, q, at)
               more == Credit(q, order)
               f == order[LastPlace(q, order)]
           IN  /\ \A g \in ToSet(left) \ {f} : Waiting(more[g])
               /\ more[f].deficit < Quantum + Size[Head(more[f].list)]
               /\ Within(left, more, f, L)
<1> DEFINE order == Order(rd, q, at)
           left == Remaining(rd, q, at)
           j == LastPlace(q, order)
           r == LastRound(q, order)
           f == order[j]
           more == Credit(q, order)
           k(b) == Quantum * Visits(b, j, r)
<1>1. Round(rd) /\ q \in [ToSet(rd) -> VirtualQueue] /\ at \in ToSet(rd)
  BY DEF Visitable, Table
<1>2. /\ Round(order) /\ Round(left) /\ ToSet(order) = ToSet(left)
      /\ ToSet(left) \subseteq ToSet(rd) /\ ToSet(left) \subseteq Flows
      /\ \A g \in ToSet(order) : q[g].length # 0
      /\ q[f].list # <<>> /\ f \in ToSet(order)
  <2>1. ToSet(rd) \subseteq Flows
    BY <1>1 DEF Round, ToSet
  <2> QED BY <2>1, TurnIs
<1>3. Len(order) = Len(left)
  BY <1>1, OrderIs
<1>4. \A b, d \in DOMAIN order : Before(rd, at, order[b], order[d]) <=> b < d
  BY <1>1, OrderIs
<1>5. PICK c \in Nat : /\ c <= Len(left)
                      /\ \A b \in DOMAIN order :
                            Place(left, order[b]) = VisitAt(c, Len(left), b)
  BY <1>1, OrderIs
<1>6. order # <<>> /\ ~Broken(q[at])
  BY DEF DequeueBreaks
<1> HIDE DEF order, left
<1>7. \A g \in ToSet(order) : q[g] \in VirtualQueue
  BY <1>1, <1>2
<1>8. \A g \in ToSet(order) : Waiting(q[g])
  <2>1. ASSUME at \in ToSet(order) PROVE Waiting(q[at])
    <3>1. q[at].list # <<>> /\ q[at] \in VirtualQueue
      BY <1>2, <1>6, <1>7, <2>1 DEF Broken
    <3>2. Size[Head(q[at].list)] \in Nat /\ q[at].deficit \in Nat
      BY <3>1, HeadIs DEF VirtualQueue
    <3> QED BY <3>1, <3>2 DEF Waiting, Ready
  <2> QED BY <1>2, <2>1
<1>9. /\ j \in DOMAIN order /\ r \in Nat /\ r > 0
      /\ VisitsNeeded(q[order[j]]) = r
  <2> HIDE DEF j, r
  <2>1. j \in DOMAIN order
    BY <1>1, <1>2, <1>6, CreditIs DEF j
  <2>2. r \in Nat /\ r > 0
    BY <1>1, <1>2, <1>6, CreditIs DEF r
  <2>3. VisitsNeeded(q[order[j]]) = r
    BY <1>1, <1>2, <1>6, CreditIs DEF r, j
  <2> QED BY <2>1, <2>2, <2>3
<1>10. \A b \in DOMAIN order :
          /\ VisitsNeeded(q[order[b]]) \in Nat
          /\ r <= VisitsNeeded(q[order[b]])
          /\ b < j => r < VisitsNeeded(q[order[b]])
  BY <1>1, <1>2, <1>6, CreditIs
<1>11. \A b \in DOMAIN order :
          LET v == q[order[b]]
              w == more[order[b]]
              n == Visits(b, j, r)
          IN  /\ w.list = v.list /\ w.length = v.length
              /\ n \in Nat /\ Quantum * n \in Nat
              /\ w.deficit = v.deficit + Quantum * n
  BY <1>1, <1>2, <1>6, CreditIs
<1> HIDE DEF j, r, more
<1>12. DOMAIN order = 1..Len(order) /\ Len(order) \in Nat /\ j \in 1..Len(order)
  BY <1>2, <1>9 DEF Round
<1>13. ASSUME NEW b \in DOMAIN order, b # j
       PROVE  Waiting(more[order[b]])
  <2>1. Visits(b, j, r) \in Nat /\ Visits(b, j, r) < VisitsNeeded(q[order[b]])
    <3>1. VisitsNeeded(q[order[b]]) \in Nat /\ b \in Int /\ j \in Int
      BY <1>10, <1>12
    <3> QED BY <1>9, <1>10, <1>13, <3>1 DEF Visits
  <2>2. order[b] \in ToSet(order) /\ q[order[b]] \in VirtualQueue /\ Waiting(q[order[b]])
    BY <1>7, <1>8 DEF ToSet
  <2>3. q[order[b]].deficit + Quantum * Visits(b, j, r) < Size[Head(q[order[b]].list)]
    BY <2>1, <2>2, VisitsAre DEF Waiting
  <2> QED BY <1>11, <2>2, <2>3 DEF Waiting
<1>14. \A g \in ToSet(left) \ {f} : Waiting(more[g])
  <2>1. ASSUME NEW g \in ToSet(left), g # f PROVE Waiting(more[g])
    <3>1. PICK b \in DOMAIN order : g = order[b]
      BY <1>2, <2>1 DEF ToSet
    <3> QED BY <1>13, <2>1, <3>1
  <2> QED BY <2>1
<1>15. more[f].deficit < Quantum + Size[Head(more[f].list)]
  <2>1. r - 1 \in Nat /\ r - 1 < VisitsNeeded(q[f]) /\ Waiting(q[f]) /\ q[f] \in VirtualQueue
    BY <1>2, <1>7, <1>8, <1>9
  <2>2. q[f].deficit + Quantum * (r - 1) < Size[Head(q[f].list)]
    BY <2>1, VisitsAre DEF Waiting
  <2>3. Visits(j, j, r) = r
    BY <1>12 DEF Visits
  <2>4. more[f].deficit = q[f].deficit + Quantum * r /\ more[f].list = q[f].list
    BY <1>9, <1>11, <2>3
  <2>5. Quantum \in Nat /\ q[f].deficit \in Nat /\ Size[Head(q[f].list)] \in Nat
    BY <2>1, QueueSizeAssumption, QuantumAssumption, HeadIs DEF VirtualQueue, Waiting
  <2>6. Quantum * (r - 1) = Quantum * r - Quantum
    BY <1>9, <2>5
  <2>7. Quantum * r \in Nat
    BY <1>9, <2>5
  <2> QED BY <2>2, <2>4, <2>5, <2>6, <2>7
<1>16. ASSUME NEW b \in DOMAIN order, NEW d \in DOMAIN order, b # d
       PROVE  L[order[b]][order[d]] + more[order[b]].deficit - more[order[d]].deficit <
                LargestSize + IF Before(left, f, order[d], order[b]) THEN Quantum ELSE 0
  <2> DEFINE x == L[order[b]][order[d]]
             m == q[order[b]].deficit
             n == q[order[d]].deficit
             u == Quantum * r
  <2>1. order[b] \in ToSet(rd) /\ order[d] \in ToSet(rd) /\ order[b] # order[d]
        /\ order[b] \in Flows /\ order[d] \in Flows
    <3>1. order[b] \in ToSet(order) /\ order[d] \in ToSet(order)
      BY DEF ToSet
    <3>2. order[b] # order[d]
      BY <1>2, <1>16 DEF Round, IsInjective
    <3> QED BY <1>2, <3>1, <3>2
  <2>2. x + m - n < LargestSize + IF Before(rd, at, order[d], order[b]) THEN Quantum ELSE 0
    BY <2>1 DEF Within
  <2>3. Before(rd, at, order[d], order[b]) <=> d < b
    BY <1>4
  <2>4. Before(left, f, order[d], order[b]) <=>
          IF d > j THEN b <= j \/ d < b ELSE b <= j /\ d < b
    BY <1>2, <1>3, <1>5, <1>9, BeforeAfter
  <2>5. /\ more[order[b]].deficit = m + Quantum * Visits(b, j, r)
        /\ more[order[d]].deficit = n + Quantum * Visits(d, j, r)
    BY <1>11
  <2>6. /\ x \in Int /\ m \in Nat /\ n \in Nat /\ u \in Nat /\ Quantum \in Nat
        /\ LargestSize \in Nat
    <3>1. m \in Nat /\ n \in Nat
      BY <1>1, <2>1 DEF VirtualQueue
    <3>2. x \in Int
      BY <2>1 DEF Leads
    <3>3. LargestSize \in Nat
      BY <1>2, <1>7, HeadIs
    <3>4. Quantum \in Nat /\ u \in Nat
      BY <1>9, QueueSizeAssumption, QuantumAssumption
    <3> QED BY <3>1, <3>2, <3>3, <3>4
  <2>7. /\ Quantum * Visits(b, j, r) = IF b <= j THEN u ELSE u - Quantum
        /\ Quantum * Visits(d, j, r) = IF d <= j THEN u ELSE u - Quantum
    <3>1. Quantum * (r - 1) = Quantum * r - Quantum
      BY <1>9, <2>6
    <3> QED BY <3>1 DEF Visits
  <2>8. b \in Int /\ d \in Int /\ j \in Int
    BY <1>12
  <2> HIDE DEF x, m, n, u
  <2>9. x + more[order[b]].deficit - more[order[d]].deficit <
          LargestSize + IF Before(left, f, order[d], order[b]) THEN Quantum ELSE 0
    <3>1. CASE b <= j /\ d <= j
      BY <2>2, <2>3, <2>4, <2>5, <2>6, <2>7, <2>8, <3>1
    <3>2. CASE b <= j /\ ~(d <= j)
      BY <2>2, <2>3, <2>4, <2>5, <2>6, <2>7, <2>8, <3>2
    <3>3. CASE ~(b <= j) /\ d <= j
      BY <2>2, <2>3, <2>4, <2>5, <2>6, <2>7, <2>8, <3>3
    <3>4. CASE ~(b <= j) /\ ~(d <= j)
      BY <2>2, <2>3, <2>4, <2>5, <2>6, <2>7, <2>8, <3>4, <1>16
    <3> QED BY <3>1, <3>2, <3>3, <3>4
  <2> QED BY <2>9 DEF x
<1>17. Within(left, more, f, L)
  <2>1. SUFFICES ASSUME NEW g \in ToSet(left), NEW h \in ToSet(left), g # h
                 PROVE  L[g][h] + more[g].deficit - more[h].deficit <
                          LargestSize + IF Before(left, f, h, g) THEN Quantum ELSE 0
    BY DEF Within
  <2>2. PICK b \in DOMAIN order : g = order[b]
    BY <1>2 DEF ToSet
  <2>3. PICK d \in DOMAIN order : h = order[d]
    BY <1>2 DEF ToSet
  <2> QED BY <1>16, <2>1, <2>2, <2>3
<1> QED BY <1>14, <1>15, <1>17, Zenon DEF order, left, more, f, j

SelfLeads(L) == \A f \in Flows : L[f][f] = 0

LEMMA LeadIs ==
    ASSUME NEW after, NEW T, NEW Q \in [T -> VirtualQueue], after.queues = Q,
           after.actual \in T, Q[after.actual].list # <<>>,
           lead \in Leads, NEW f \in Flows, NEW g \in Flows
    PROVE  LET z == Size[Head(Q[after.actual].list)]
               c(x) == IF x = after.actual THEN z ELSE 0
           IN  /\ z \in Nat /\ z > 0
               /\ LeadAfter(after)[f][g] =
                    IF f \in T /\ g \in T THEN Saturated(lead[f][g] + c(f) - c(g)) ELSE 0
               /\ LeadAfter(after)[f][g] \in Int
<1> DEFINE z == Size[Head(Q[after.actual].list)]
           c(x) == IF x = after.actual THEN z ELSE 0
           charged(x) == IF x = after.actual THEN Size[Head(after.queues[x].list)] ELSE 0
           ahead(x, y) == IF {x, y} \subseteq DOMAIN after.queues
                          THEN Saturated(lead[x][y] + charged(x) - charged(y)) ELSE 0
<1>1. z \in Nat /\ z > 0 /\ Packets # {}
  <2>1. Q[after.actual] \in VirtualQueue
    OBVIOUS
  <2> QED BY <2>1, HeadIs
<1>2. \A x : charged(x) = c(x)
  OBVIOUS
<1>3. LeadAfter(after) = [x \in Flows |-> [y \in Flows |-> ahead(x, y)]]
  BY DEF LeadAfter
<1> HIDE DEF ahead
<1>4. LeadAfter(after)[f][g] = ahead(f, g)
  BY <1>3
<1>5. ahead(f, g) = IF f \in T /\ g \in T THEN Saturated(lead[f][g] + c(f) - c(g)) ELSE 0
  <2>1. DOMAIN after.queues = T
    OBVIOUS
  <2>2. charged(f) = c(f) /\ charged(g) = c(g)
    BY <1>2
  <2> HIDE DEF charged, c
  <2> QED BY <2>1, <2>2 DEF ahead
<1>6. lead[f][g] + c(f) - c(g) \in Int
  BY <1>1 DEF Leads
<1> HIDE DEF c, z
<1>7. ahead(f, g) \in Int
  BY <1>1, <1>5, <1>6, SaturatedIs
<1> QED BY <1>1, <1>4, <1>5, <1>7 DEF c, z

LEMMA LeadTypes ==
    ASSUME NEW after, NEW T, NEW Q \in [T -> VirtualQueue], after.queues = Q,
           T # {} => after.actual \in T /\ Q[after.actual].list # <<>>,
           lead \in Leads, SelfLeads(lead)
    PROVE  LeadAfter(after) \in Leads /\ SelfLeads(LeadAfter(after))
<1>1. \A f, g \in Flows : LeadAfter(after)[f][g] \in Int
  <2>1. SUFFICES ASSUME NEW f \in Flows, NEW g \in Flows
                 PROVE  LeadAfter(after)[f][g] \in Int
    OBVIOUS
  <2>2. CASE T = {}
    <3>1. {f, g} \subseteq DOMAIN after.queues <=> FALSE
      BY <2>2
    <3> QED BY <3>1 DEF LeadAfter
  <2>3. CASE T # {}
    BY <2>3, LeadIs
  <2> QED BY <2>2, <2>3
<1>2. \A f \in Flows : LeadAfter(after)[f][f] = 0
  <2>1. SUFFICES ASSUME NEW f \in Flows PROVE LeadAfter(after)[f][f] = 0
    OBVIOUS
  <2>2. CASE f \notin T
    <3>1. {f, f} \subseteq DOMAIN after.queues <=> FALSE
      BY <2>2
    <3> QED BY <3>1 DEF LeadAfter
  <2>3. CASE f \in T
    <3> DEFINE z == Size[Head(Q[after.actual].list)]
               c == IF f = after.actual THEN z ELSE 0
    <3>1. z \in Nat /\ LeadAfter(after)[f][f] = Saturated(lead[f][f] + c - c)
      BY <2>3, LeadIs
    <3>2. lead[f][f] = 0
      BY DEF SelfLeads
    <3> HIDE DEF z
    <3>3. lead[f][f] + c - c = 0
      BY <3>1, <3>2
    <3>4. Packets # {}
      <4>1. Q[after.actual] \in VirtualQueue /\ Q[after.actual].list # <<>>
        BY <2>3
      <4> QED BY <4>1, HeadIs
    <3>5. Saturated(0) = 0
      BY <3>4, SaturatedIs
    <3> QED BY <3>1, <3>3, <3>5
  <2> QED BY <2>2, <2>3
<1>3. LeadAfter(after) \in Leads
  <2>1. \E h : LeadAfter(after) = [f \in Flows |-> [g \in Flows |-> h[f][g]]]
    <3>1. LeadAfter(after) = [f \in Flows |-> [g \in Flows |-> LeadAfter(after)[f][g]]]
      BY DEF LeadAfter
    <3> QED BY <3>1
  <2>2. PICK h : LeadAfter(after) = [f \in Flows |-> [g \in Flows |-> h[f][g]]]
    BY <2>1
  <2>3. \A f, g \in Flows : h[f][g] \in Int
    BY <1>1, <2>2
  <2> QED BY <2>2, <2>3 DEF Leads
<1> QED BY <1>2, <1>3 DEF SelfLeads

(* The charge for a packet is the same in the lead and in the counter.     *)
LEMMA ChargeFair ==
    ASSUME NEW rd, NEW w, Table(rd, w), NEW f \in ToSet(rd), Ready(w[f]),
           \A g \in ToSet(rd) \ {f} : Waiting(w[g]),
           w[f].deficit < Quantum + Size[Head(w[f].list)],
           lead \in Leads, Within(rd, w, f, lead)
    PROVE  /\ \A g \in ToSet(rd) \ {f} : Waiting(Charge(w, f)[g])
           /\ Charge(w, f)[f].deficit < Quantum
           /\ Within(rd, Charge(w, f), f, LeadAfter(Serving(rd, w, f)))
<1> DEFINE Q == Charge(w, f)
           z == Size[Head(w[f].list)]
           after == Serving(rd, w, f)
<1>1. Round(rd) /\ w \in [ToSet(rd) -> VirtualQueue] /\ ToSet(rd) \subseteq Flows
  BY DEF Table, Round, ToSet
<1>2. Q \in [ToSet(rd) -> VirtualQueue]
  BY <1>1, ChargeIs
<1>3. Charged(w, Q, f, ToSet(rd))
  BY <1>1, ChargeIs, Zenon
<1>4. Q[f].deficit = w[f].deficit - z
  BY <1>1, ChargeIs
<1>5. after.queues = Q /\ after.actual = f
  BY DEF Serving
<1> HIDE DEF Q, after
<1>6. w[f].list # <<>> /\ w[f] \in VirtualQueue
  BY <1>1 DEF Ready
<1>7. z \in Nat /\ z > 0 /\ Packets # {} /\ LargestSize \in Nat /\ LargestSize > 0 /\ z <= LargestSize
  <2>1. Packets # {}
    BY <1>6, HeadIs
  <2> QED BY <1>6, <2>1, HeadIs, LargestIs
<1>8. Quantum \in Nat /\ w[f].deficit \in Nat
  BY <1>6, QueueSizeAssumption, QuantumAssumption DEF VirtualQueue
<1> HIDE DEF z
<1>9. \A g \in ToSet(rd) \ {f} : Waiting(Q[g])
  BY <1>3 DEF Charged
<1>10. Q[f].deficit < Quantum
  <2>1. w[f].deficit < Quantum + z
    BY DEF z
  <2> QED BY <1>4, <1>7, <1>8, <2>1
<1>11. \A g \in ToSet(rd) : /\ Q[g].deficit \in Nat /\ Q[g].deficit < Quantum + LargestSize
                          /\ w[g].deficit \in Nat
  <2>1. SUFFICES ASSUME NEW g \in ToSet(rd)
                 PROVE  /\ Q[g].deficit \in Nat /\ Q[g].deficit < Quantum + LargestSize
                        /\ w[g].deficit \in Nat
    OBVIOUS
  <2>2. Q[g] \in VirtualQueue /\ w[g] \in VirtualQueue
    BY <1>1, <1>2
  <2>3. Q[g].deficit \in Nat /\ w[g].deficit \in Nat
    BY <2>2 DEF VirtualQueue
  <2>4. CASE g = f
    BY <1>7, <1>8, <1>10, <2>3, <2>4
  <2>5. CASE g # f
    <3>1. Q[g].list # <<>> /\ Q[g].deficit < Size[Head(Q[g].list)]
      BY <1>9, <2>5 DEF Waiting
    <3>2. Size[Head(Q[g].list)] \in Nat /\ Size[Head(Q[g].list)] <= LargestSize
      BY <2>2, <3>1, HeadIs
    <3> QED BY <1>7, <1>8, <2>3, <3>1, <3>2
  <2> QED BY <2>4, <2>5
<1>12. Within(rd, Q, f, LeadAfter(after))
  <2>1. SUFFICES ASSUME NEW g \in ToSet(rd), NEW h \in ToSet(rd), g # h
                 PROVE  LeadAfter(after)[g][h] + Q[g].deficit - Q[h].deficit <
                          LargestSize + IF Before(rd, f, h, g) THEN Quantum ELSE 0
    BY DEF Within
  <2> DEFINE x == lead[g][h]
             b == IF Before(rd, f, h, g) THEN Quantum ELSE 0
             c(y) == IF y = f THEN z ELSE 0
             n == x + c(g) - c(h)
  <2>2. x \in Int /\ b \in Nat /\ c(g) \in Nat /\ c(h) \in Nat /\ n \in Int
    BY <1>1, <1>7, <1>8 DEF Leads
  <2>3. x + w[g].deficit - w[h].deficit < LargestSize + b
    BY <2>1 DEF Within
  <2>4. Q[g].deficit = w[g].deficit - c(g) /\ Q[h].deficit = w[h].deficit - c(h)
    <3>1. \A y \in ToSet(rd) : Q[y].deficit = w[y].deficit - c(y)
      <4>1. ASSUME NEW y \in ToSet(rd) PROVE Q[y].deficit = w[y].deficit - c(y)
        <5>1. CASE y = f
          BY <1>4, <5>1
        <5>2. CASE y # f
          BY <1>3, <1>11, <5>2 DEF Charged
        <5> QED BY <5>1, <5>2
      <4> QED BY <4>1
    <3> QED BY <3>1
  <2>5. LeadAfter(after)[g][h] = Saturated(n)
    <3>1. g \in Flows /\ h \in Flows
      BY <1>1
    <3>2. Q[f].list = w[f].list
      BY <1>3 DEF Charged
    <3> DEFINE d(y) == IF y = after.actual THEN Size[Head(Q[after.actual].list)] ELSE 0
    <3>3. after.actual \in ToSet(rd) /\ Q[after.actual].list # <<>>
      BY <1>5, <1>6, <3>2
    <3>4. LeadAfter(after)[g][h] =
            IF g \in ToSet(rd) /\ h \in ToSet(rd) THEN Saturated(lead[g][h] + d(g) - d(h)) ELSE 0
      BY <1>2, <1>5, <3>1, <3>3, LeadIs
    <3>5. d(g) = c(g) /\ d(h) = c(h)
      BY <1>5, <3>2 DEF z
    <3> HIDE DEF d, c
    <3> QED BY <3>4, <3>5
  <2>6. /\ ShareBound \in Nat /\ ShareBound = Quantum + 2 * LargestSize
        /\ Saturated(n) \in Int
        /\ Saturated(n) = IF n > ShareBound THEN ShareBound
                          ELSE IF n < -ShareBound THEN -ShareBound ELSE n
    <3> HIDE DEF n
    <3> QED BY <1>7, <2>2, SaturatedIs
  <2>7. /\ Q[g].deficit \in Nat /\ Q[g].deficit < Quantum + LargestSize
        /\ Q[h].deficit \in Nat /\ w[g].deficit \in Nat /\ w[h].deficit \in Nat
    BY <1>11
  <2>8. n + Q[g].deficit - Q[h].deficit < LargestSize + b
    <3> HIDE DEF c, x, b
    <3> QED BY <1>7, <2>2, <2>3, <2>4, <2>7
  <2> HIDE DEF n, b
  <2>9. Saturated(n) + Q[g].deficit - Q[h].deficit < LargestSize + b
    BY <1>7, <1>8, <2>2, <2>6, <2>7, <2>8
  <2> QED BY <2>5, <2>9 DEF b
<1> QED BY <1>9, <1>10, <1>12 DEF Q, after

(* After a dequeue only the flow that is served may have credit left that  *)
(* would pay for a packet, and that is less than a quantum.                *)
FairlyServed(after) ==
    /\ \A f \in ToSet(after.round) \ {after.actual} : Waiting(after.queues[f])
    /\ after.actual # NoFlow => after.queues[after.actual].deficit < Quantum
    /\ Within(after.round, after.queues, after.actual, LeadAfter(after))

LEMMA DequeueFair ==
    ASSUME NEW rd, NEW q, NEW at, Visitable(rd, q, at),
           ~DequeueBreaks(q, at, Order(rd, q, at)),
           \A f \in ToSet(rd) \ {at} : Waiting(q[f]), q[at].deficit <= Quantum,
           lead \in Leads, Within(rd, q, at, lead)
    PROVE  FairlyServed(Dequeue(rd, q, at, Order(rd, q, at)))
<1> DEFINE order == Order(rd, q, at)
           after == Dequeue(rd, q, at, order)
<1>1. Table(rd, q) /\ q \in [ToSet(rd) -> VirtualQueue] /\ at \in ToSet(rd)
  BY DEF Visitable, Table
<1>2. CASE Ready(q[at])
  <2>1. after = Serving(rd, q, at)
    <3> HIDE DEF order
    <3> QED BY <1>2, Zenon DEF Dequeue
  <2>2. after.round = rd /\ after.queues = Charge(q, at) /\ after.actual = at
    BY <2>1 DEF Serving
  <2>3. q[at].deficit < Quantum + Size[Head(q[at].list)]
    <3>1. q[at] \in VirtualQueue /\ q[at].list # <<>>
      BY <1>1, <1>2 DEF Ready
    <3>2. Size[Head(q[at].list)] \in Nat /\ Size[Head(q[at].list)] > 0 /\ q[at].deficit \in Nat
      BY <3>1, HeadIs DEF VirtualQueue
    <3> QED BY <3>2, QueueSizeAssumption, QuantumAssumption
  <2>4. /\ \A g \in ToSet(rd) \ {at} : Waiting(Charge(q, at)[g])
        /\ Charge(q, at)[at].deficit < Quantum
        /\ Within(rd, Charge(q, at), at, LeadAfter(Serving(rd, q, at)))
    BY <1>1, <1>2, <2>3, ChargeFair
  <2> HIDE DEF after
  <2>5. FairlyServed(after)
    BY <2>1, <2>2, <2>4 DEF FairlyServed
  <2> QED BY <2>5 DEF after, order
<1>3. CASE ~Ready(q[at]) /\ order = <<>>
  <2>1. after = Idle
    BY <1>3 DEF Dequeue
  <2>2. after.round = <<>> /\ after.actual = NoFlow /\ ToSet(<<>>) = {}
    BY <2>1 DEF Idle, ToSet
  <2> HIDE DEF after
  <2>3. FairlyServed(after)
    BY <2>2 DEF FairlyServed, Within
  <2> QED BY <2>3 DEF after, order
<1>4. CASE ~Ready(q[at]) /\ order # <<>>
  <2> DEFINE left == Remaining(rd, q, at)
             more == Credit(q, order)
             f == order[LastPlace(q, order)]
  <2>1. /\ Round(left) /\ ToSet(order) = ToSet(left)
        /\ more \in [ToSet(order) -> VirtualQueue]
        /\ f \in ToSet(order) /\ Ready(more[f])
    BY <1>4, TurnIs
  <2>2. /\ \A g \in ToSet(left) \ {f} : Waiting(more[g])
        /\ more[f].deficit < Quantum + Size[Head(more[f].list)]
        /\ Within(left, more, f, lead)
    BY <1>4, CreditFair
  <2>3. after = Serving(left, more, f)
    BY <1>4 DEF Dequeue
  <2>4. after.round = left /\ after.queues = Charge(more, f) /\ after.actual = f
    BY <2>3 DEF Serving
  <2> HIDE DEF after, left, more, f, order
  <2>5. Table(left, more) /\ f \in ToSet(left)
    BY <2>1 DEF Table
  <2>6. /\ \A g \in ToSet(left) \ {f} : Waiting(Charge(more, f)[g])
        /\ Charge(more, f)[f].deficit < Quantum
        /\ Within(left, Charge(more, f), f, LeadAfter(Serving(left, more, f)))
    BY <2>1, <2>2, <2>5, ChargeFair
  <2>7. FairlyServed(after)
    BY <2>3, <2>4, <2>6 DEF FairlyServed
  <2> QED BY <2>7 DEF after, order
<1> QED BY <1>2, <1>3, <1>4

(* No read of an empty list when only the flow left may be empty.          *)
LEMMA DequeueWorks ==
    ASSUME NEW rd, NEW q, NEW at, Visitable(rd, q, at),
           \A f \in ToSet(rd) : q[f].list = <<>> => f = at /\ q[f].length = 0
    PROVE  ~DequeueBreaks(q, at, Order(rd, q, at))
<1> DEFINE order == Order(rd, q, at)
<1>1. Round(rd) /\ q \in [ToSet(rd) -> VirtualQueue] /\ at \in ToSet(rd)
  BY DEF Visitable, Table
<1>2. ~Broken(q[at])
  BY <1>1 DEF Broken
<1>3. ASSUME order # <<>> PROVE ~Broken(q[order[LastPlace(q, order)]])
  <2>1. /\ Round(order)
        /\ ToSet(order) = IF q[at].length = 0 THEN ToSet(rd) \ {at} ELSE ToSet(rd)
    BY <1>1, OrderIs
  <2> HIDE DEF order
  <2>2. ToSet(order) \subseteq ToSet(rd) /\ \A g \in ToSet(order) : q[g].length # 0
    BY <2>1 DEF Visitable
  <2>3. LastPlace(q, order) \in DOMAIN order
    BY <1>1, <1>3, <2>1, <2>2, CreditIs
  <2>4. order[LastPlace(q, order)] \in ToSet(order)
    BY <2>3 DEF ToSet
  <2> QED BY <2>2, <2>4 DEF Broken
<1> QED BY <1>2, <1>3 DEF DequeueBreaks

-----------------------------------------------------------------------------
(* The table.                                                              *)

(* A new flow comes somewhere between the others: their order remains, and *)
(* it is visited before the flow that is visited now.                      *)
LEMMA RoundsAre ==
    ASSUME Table(round, queues), NEW f \in Flows, NEW rd \in Rounds(f)
    PROVE  /\ Round(rd) /\ ToSet(rd) = ToSet(round) \cup {f}
           /\ \A at, g, h \in ToSet(round) : Before(rd, at, g, h) <=> Before(round, at, g, h)
           /\ f \notin ToSet(round) => \A at \in ToSet(round) : Before(rd, at, f, at)
<1>1. Round(round) /\ DOMAIN queues = ToSet(round)
  BY DEF Table
<1>2. CASE f \in ToSet(round)
  <2>1. rd = round
    BY <1>1, <1>2 DEF Rounds
  <2> QED BY <1>1, <1>2, <2>1
<1>3. CASE f \notin ToSet(round)
  <2>1. PICK i \in 1..Len(round) + 1 : rd = InsertAt(round, i, f)
    BY <1>1, <1>3 DEF Rounds
  <2> DEFINE up(j) == IF j < i THEN j ELSE j + 1
  <2>2. round \in Seq(Flows) /\ IsInjective(round) /\ Len(round) \in Nat /\ DOMAIN round = 1..Len(round)
    BY <1>1 DEF Round
  <2>3. rd \in Seq(Flows) /\ Len(rd) = Len(round) + 1 /\ IsInjective(rd) /\ rd[i] = f
    BY <1>3, <2>1, <2>2, InsertAtIs
  <2>4. ToSet(rd) = ToSet(round) \cup {f}
    BY <1>3, <2>1, <2>2, InsertAtIs
  <2>5. \A j \in 1..Len(round) : rd[up(j)] = round[j]
    BY <1>3, <2>1, <2>2, InsertAtIs
  <2>6. ASSUME NEW g \in ToSet(round)
        PROVE  /\ Place(round, g) \in 1..Len(round)
               /\ Place(rd, g) = up(Place(round, g))
    <3>1. Place(round, g) \in 1..Len(round) /\ round[Place(round, g)] = g
      BY <2>2, PlaceIs
    <3>2. up(Place(round, g)) \in DOMAIN rd
      BY <2>2, <2>3, <3>1
    <3>3. rd[up(Place(round, g))] = g
      <4> HIDE DEF up
      <4> QED BY <2>5, <3>1
    <3> HIDE DEF up
    <3>4. Place(rd, rd[up(Place(round, g))]) = up(Place(round, g))
      BY <2>3, <3>2, PlaceIs
    <3> QED BY <3>1, <3>3, <3>4
  <2>7. Place(rd, f) = i
    <3>1. i \in DOMAIN rd
      BY <2>2, <2>3
    <3> QED BY <2>3, <3>1, PlaceIs
  <2>8. ASSUME NEW at \in ToSet(round), NEW g \in ToSet(round), NEW h \in ToSet(round)
        PROVE  Before(rd, at, g, h) <=> Before(round, at, g, h)
    <3> DEFINE a == Place(round, at)
               b == Place(round, g)
               c == Place(round, h)
    <3>1. a \in Int /\ b \in Int /\ c \in Int /\ i \in Int
      BY <2>2, <2>6
    <3>2. Place(rd, at) = up(a) /\ Place(rd, g) = up(b) /\ Place(rd, h) = up(c)
      BY <2>6
    <3> HIDE DEF a, b, c
    <3>3. (up(b) > up(a) <=> b > a) /\ (up(c) <= up(a) <=> c <= a) /\ (up(b) < up(c) <=> b < c)
      BY <3>1
    <3> HIDE DEF up
    <3> QED BY <3>2, <3>3, Zenon DEF Before, a, b, c
  <2>9. ASSUME NEW at \in ToSet(round) PROVE Before(rd, at, f, at)
    <3>1. Place(rd, at) = up(Place(round, at)) /\ Place(round, at) \in Int /\ i \in Int
      BY <2>2, <2>6
    <3>2. Place(rd, at) \in Int /\ Place(rd, at) # i
      BY <3>1
    <3> HIDE DEF up
    <3> QED BY <2>7, <3>1, <3>2 DEF Before
  <2> QED BY <1>3, <2>3, <2>4, <2>8, <2>9 DEF Round
<1> QED BY <1>2, <1>3

(* What a flow has in a table q, absent ones having nothing.               *)
ListIn(q, f) == IF f \in DOMAIN q THEN q[f].list ELSE <<>>

Filled(f, v) ==
    /\ v.length # 0 /\ SizeOf(v.list) <= v.length
    /\ IsInjective(v.list) /\ \A p \in ToSet(v.list) : Flow[p] = f

LEMMA QueuedIs ==
    ASSUME NEW T, NEW q \in [T -> VirtualQueue]
    PROVE  /\ \A x : x \in QueuedIn(q) <=> \E f \in T : x \in ToSet(q[f].list)
           /\ QueuedIn(q) \subseteq Packets
           /\ \A f \in T : ToSet(q[f].list) \subseteq Packets /\ q[f].list \in Seq(Packets)
<1>1. \A x : x \in QueuedIn(q) <=> \E f \in T : x \in ToSet(q[f].list)
  BY DEF QueuedIn
<1>2. ASSUME NEW f \in T PROVE ToSet(q[f].list) \subseteq Packets /\ q[f].list \in Seq(Packets)
  <2>1. q[f].list \in Seq(Packets)
    BY DEF VirtualQueue
  <2> QED BY <2>1 DEF ToSet
<1> QED BY <1>1, <1>2

(* Tables with the same lists; flows with empty ones do not matter.        *)
LEMMA SameQueued ==
    ASSUME NEW S, NEW q \in [S -> VirtualQueue], NEW T, NEW w \in [T -> VirtualQueue],
           T \subseteq S, \A f \in T : w[f].list = q[f].list,
           \A f \in S \ T : q[f].list = <<>>
    PROVE  QueuedIn(w) = QueuedIn(q) /\ \A f : ListIn(w, f) = ListIn(q, f)
<1>1. \A f \in S \ T : ToSet(q[f].list) = {}
  BY DEF ToSet
<1>2. \A x : x \in QueuedIn(w) <=> \E f \in T : x \in ToSet(w[f].list)
  BY QueuedIs
<1>3. \A x : x \in QueuedIn(q) <=> \E f \in S : x \in ToSet(q[f].list)
  BY QueuedIs
<1>4. ASSUME NEW f PROVE ListIn(w, f) = ListIn(q, f)
  <2>1. DOMAIN w = T /\ DOMAIN q = S
    OBVIOUS
  <2> QED BY <2>1 DEF ListIn
<1>5. ASSUME NEW x PROVE x \in QueuedIn(w) <=> x \in QueuedIn(q)
  <2>1. ASSUME NEW f \in T, x \in ToSet(w[f].list) PROVE x \in ToSet(q[f].list) /\ f \in S
    BY <2>1
  <2>2. ASSUME NEW f \in S, x \in ToSet(q[f].list) PROVE f \in T /\ x \in ToSet(w[f].list)
    BY <1>1, <2>2
  <2> QED BY <1>2, <1>3, <2>1, <2>2
<1> QED BY <1>4, <1>5

LEMMA PushIs ==
    ASSUME NEW v \in VirtualQueue, NEW p \in Packets
    PROVE  /\ Push(v, p) \in VirtualQueue /\ Push(v, p).list = Append(v.list, p)
           /\ Push(v, p).length = v.length + Size[p] /\ Push(v, p).deficit = v.deficit
<1>1. v.length + Size[p] \in Nat /\ Append(v.list, p) \in Seq(Packets)
  BY SizeAssumption DEF VirtualQueue
<1> DEFINE l == Append(v.list, p)
           n == v.length + Size[p]
<1>2. Push(v, p) = [v EXCEPT !.list = l, !.length = n]
  BY DEF Push
<1> HIDE DEF l, n
<1>3. l \in Seq(Packets) /\ n \in Nat
  BY <1>1 DEF l, n
<1>4. /\ [v EXCEPT !.list = l, !.length = n] \in VirtualQueue
      /\ [v EXCEPT !.list = l, !.length = n].list = l
      /\ [v EXCEPT !.list = l, !.length = n].length = n
      /\ [v EXCEPT !.list = l, !.length = n].deficit = v.deficit
  BY <1>3 DEF VirtualQueue
<1> QED BY <1>2, <1>4 DEF l, n

(* A packet more in a list that fits.                                      *)
LEMMA PushFilled ==
    ASSUME NEW v \in VirtualQueue, NEW p \in Packets, p \notin ToSet(v.list),
           IsInjective(v.list), \A x \in ToSet(v.list) : Flow[x] = Flow[p],
           SizeOf(v.list) <= v.length
    PROVE  /\ Filled(Flow[p], Push(v, p))
           /\ ToSet(Push(v, p).list) = ToSet(v.list) \cup {p}
           /\ SizeOf(Push(v, p).list) = SizeOf(v.list) + Size[p]
<1>1. /\ Push(v, p).list = Append(v.list, p) /\ Push(v, p).length = v.length + Size[p]
  BY PushIs
<1>2. v.list \in Seq(Packets) /\ v.length \in Nat
  BY DEF VirtualQueue
<1>3. ToSet(v.list) \subseteq Packets
  BY <1>2 DEF ToSet
<1>4. /\ ToSet(Append(v.list, p)) = ToSet(v.list) \cup {p}
      /\ IsInjective(Append(v.list, p))
  BY <1>2, ToSetAppend
<1>5. SizesOf(ToSet(v.list) \cup {p}) = SizesOf(ToSet(v.list)) + Size[p]
  BY <1>3, SizesWith
<1>6. SizesOf(ToSet(v.list)) \in Nat /\ Size[p] \in Nat /\ Size[p] > 0
  BY <1>3, SizesType, SizesOne
<1>7. SizeOf(v.list) = SizesOf(ToSet(v.list)) /\ SizeOf(Append(v.list, p)) = SizesOf(ToSet(v.list)) + Size[p]
  BY <1>4, <1>5 DEF SizeOf
<1>8. v.length + Size[p] # 0 /\ SizeOf(Append(v.list, p)) <= v.length + Size[p]
  BY <1>2, <1>6, <1>7
<1> QED BY <1>1, <1>4, <1>7, <1>8 DEF Filled

LEMMA PushedIs ==
    ASSUME Table(round, queues), \A f \in ToSet(round) : Filled(f, queues[f]),
           NEW p \in Packets, p \notin QueuedIn(queues),
           NEW rd, Round(rd), ToSet(rd) = ToSet(round) \cup {Flow[p]}
    PROVE  /\ Table(rd, Pushed(p)) /\ \A f \in ToSet(rd) : Filled(f, Pushed(p)[f])
           /\ QueuedIn(Pushed(p)) = QueuedIn(queues) \cup {p}
           /\ \A f \in ToSet(round) : f # Flow[p] => Pushed(p)[f] = queues[f]
           /\ Pushed(p)[Flow[p]] = Push(QueueOf(Flow[p]), p)
           /\ QueueOf(Flow[p]) \in VirtualQueue
           /\ \A f : f # Flow[p] => ListIn(Pushed(p), f) = ListIn(queues, f)
           /\ ListIn(Pushed(p), Flow[p]) = Append(ListIn(queues, Flow[p]), p)
<1> DEFINE F == Flow[p]
           v == QueueOf(F)
           w == Pushed(p)
<1>1. queues \in [ToSet(round) -> VirtualQueue] /\ F \in Flows
  BY FlowAssumption DEF Table
<1>2. w = [f \in ToSet(rd) |-> IF f = F THEN Push(v, p) ELSE queues[f]]
  <2>1. DOMAIN queues \cup {F} = ToSet(rd)
    BY <1>1
  <2> QED BY <2>1 DEF Pushed
<1>3. /\ v \in VirtualQueue /\ v.list = ListIn(queues, F) /\ p \notin ToSet(v.list)
      /\ IsInjective(v.list) /\ (\A x \in ToSet(v.list) : Flow[x] = F)
      /\ SizeOf(v.list) <= v.length
  <2>1. CASE F \in ToSet(round)
    <3>1. v = queues[F] /\ v.list = ListIn(queues, F)
      BY <1>1, <2>1 DEF QueueOf, ListIn
    <3>2. p \notin ToSet(v.list)
      BY <1>1, <2>1, <3>1, QueuedIs
    <3> QED BY <1>1, <2>1, <3>1, <3>2 DEF Filled
  <2>2. CASE F \notin ToSet(round)
    <3>1. v = NewQueue /\ ListIn(queues, F) = <<>>
      BY <1>1, <2>2 DEF QueueOf, ListIn
    <3>2. v \in VirtualQueue /\ v.list = <<>> /\ v.length = 0
      BY <3>1 DEF NewQueue, VirtualQueue
    <3>3. ToSet(<<>>) = {} /\ IsInjective(<<>>)
      BY DEF ToSet, IsInjective
    <3>4. SizeOf(<<>>) = 0
      BY <3>3, SizesNone DEF SizeOf
    <3> QED BY <3>1, <3>2, <3>3, <3>4
  <2> QED BY <2>1, <2>2
<1> HIDE DEF v, w
<1>4. Push(v, p) \in VirtualQueue /\ Push(v, p).list = Append(v.list, p)
  BY <1>3, PushIs
<1>5. Filled(F, Push(v, p)) /\ ToSet(Push(v, p).list) = ToSet(v.list) \cup {p}
  BY <1>3, PushFilled
<1>6. w \in [ToSet(rd) -> VirtualQueue]
  BY <1>1, <1>2, <1>4
<1>7. F \in ToSet(rd) /\ w[F] = Push(v, p) /\ \A f \in ToSet(round) : f # F => w[f] = queues[f]
  BY <1>2
<1>8. \A f \in ToSet(rd) : Filled(f, w[f])
  BY <1>5, <1>7
<1>9. ASSUME NEW f, f # F PROVE ListIn(w, f) = ListIn(queues, f)
  <2>1. DOMAIN w = ToSet(rd) /\ DOMAIN queues = ToSet(round)
    BY <1>1, <1>6
  <2> QED BY <1>7, <1>9, <2>1 DEF ListIn
<1>10. ListIn(w, F) = Append(ListIn(queues, F), p)
  <2>1. F \in DOMAIN w
    BY <1>6, <1>7
  <2> QED BY <1>3, <1>4, <1>7, <2>1 DEF ListIn
<1>11. QueuedIn(w) = QueuedIn(queues) \cup {p}
  <2>1. \A x : x \in QueuedIn(w) <=> \E f \in ToSet(rd) : x \in ToSet(w[f].list)
    BY <1>6, QueuedIs
  <2>2. \A x : x \in QueuedIn(queues) <=> \E f \in ToSet(round) : x \in ToSet(queues[f].list)
    BY <1>1, QueuedIs
  <2>3. F \in ToSet(round) => v = queues[F]
    BY <1>1 DEF v, QueueOf
  <2>4. F \notin ToSet(round) => ToSet(v.list) = {}
    <3>1. F \notin ToSet(round) => v.list = <<>>
      BY <1>1 DEF v, QueueOf, NewQueue
    <3> QED BY <3>1 DEF ToSet
  <2>5. ASSUME NEW x \in QueuedIn(w) PROVE x \in QueuedIn(queues) \cup {p}
    <3>1. PICK f \in ToSet(rd) : x \in ToSet(w[f].list)
      BY <2>1
    <3>2. CASE f = F
      BY <1>5, <1>7, <2>2, <2>3, <2>4, <3>1, <3>2
    <3>3. CASE f # F
      BY <1>7, <2>2, <3>1, <3>3
    <3> QED BY <3>2, <3>3
  <2>6. ASSUME NEW x \in QueuedIn(queues) PROVE x \in QueuedIn(w)
    <3>1. PICK f \in ToSet(round) : x \in ToSet(queues[f].list)
      BY <2>2
    <3>2. CASE f = F
      BY <1>5, <1>7, <2>1, <2>3, <3>1, <3>2
    <3>3. CASE f # F
      BY <1>7, <2>1, <3>1, <3>3
    <3> QED BY <3>2, <3>3
  <2>7. p \in QueuedIn(w)
    BY <1>5, <1>7, <2>1
  <2> QED BY <2>5, <2>6, <2>7
<1>12. Table(rd, w)
  BY <1>6 DEF Table
<1> QED BY <1>3, <1>7, <1>8, <1>9, <1>10, <1>11, <1>12 DEF v, w

(* The tables of a state or of a result of dequeue.                        *)
Tables(after) ==
    /\ Table(after.round, after.queues)
    /\ \A f \in ToSet(after.round) : Filled(f, after.queues[f])
    /\ after.actual \in ToSet(after.round) \cup {NoFlow}

Leading == lead \in Leads /\ SelfLeads(lead)

LEMMA DequeuedTables ==
    ASSUME NEW rd, NEW q, NEW at, Visitable(rd, q, at), NEW after, Dequeued(rd, q, at, after),
           \A f \in ToSet(rd) : q[f].length # 0 => Filled(f, q[f]), Leading
    PROVE  /\ Tables(after) /\ QueuedIn(after.queues) = QueuedIn(q)
           /\ \A f : ListIn(after.queues, f) = ListIn(q, f)
           /\ LeadAfter(after) \in Leads /\ SelfLeads(LeadAfter(after))
<1> DEFINE T == ToSet(after.round)
           Q == after.queues
<1>1. /\ q \in [ToSet(rd) -> VirtualQueue] /\ Table(after.round, Q)
      /\ Q \in [T -> VirtualQueue]
  BY DEF Visitable, Dequeued, Table
<1>2. T \subseteq ToSet(rd) /\ \A f \in T : Q[f].list = q[f].list
  BY DEF Dequeued
<1>3. \A f \in ToSet(rd) \ T : q[f].list = <<>>
  BY DEF Dequeued, Visitable
<1>4. \A f \in T : Filled(f, Q[f])
  BY DEF Dequeued, Filled
<1>5. after.actual \in T \cup {NoFlow}
  BY DEF Dequeued
<1>6. T # {} => after.actual \in T /\ Q[after.actual].list # <<>>
  <2>1. after.actual = NoFlow => T = {}
    BY DEF Dequeued, ToSet
  <2> QED BY <1>2, <2>1 DEF Dequeued
<1> HIDE DEF T, Q
<1>7. QueuedIn(Q) = QueuedIn(q)
  BY <1>1, <1>2, <1>3, SameQueued
<1>8. \A f : ListIn(Q, f) = ListIn(q, f)
  BY <1>1, <1>2, <1>3, SameQueued
<1>9. LeadAfter(after) \in Leads /\ SelfLeads(LeadAfter(after))
  BY <1>1, <1>6, LeadTypes DEF Q, Leading
<1> QED BY <1>1, <1>4, <1>5, <1>7, <1>8, <1>9 DEF Tables, T, Q

LEMMA StartedIs ==
    ASSUME NEW p \in Packets, NEW rd, Table(rd, Pushed(p)), NEW f0 \in ToSet(rd), rd[1] = f0
    PROVE  /\ Started(rd, p) \in [ToSet(rd) -> VirtualQueue]
           /\ \A f \in ToSet(rd) : /\ Started(rd, p)[f].list = Pushed(p)[f].list
                                 /\ Started(rd, p)[f].length = Pushed(p)[f].length
           /\ Started(rd, p)[f0].deficit = Pushed(p)[f0].deficit + Quantum
<1> DEFINE w == Pushed(p)
           d == w[f0].deficit + Quantum
           v == [w[f0] EXCEPT !.deficit = d]
<1>1. w \in [ToSet(rd) -> VirtualQueue]
  BY DEF Table
<1>2. Started(rd, p) = [w EXCEPT ![f0] = v]
  BY DEF Started
<1> HIDE DEF w
<1>3. d \in Nat /\ w[f0] \in VirtualQueue
  BY <1>1, QueueSizeAssumption, QuantumAssumption DEF VirtualQueue
<1> HIDE DEF d
<1>4. v \in VirtualQueue /\ v.list = w[f0].list /\ v.length = w[f0].length /\ v.deficit = d
  BY <1>3, DeficitIs
<1> HIDE DEF v
<1>5. [w EXCEPT ![f0] = v] \in [ToSet(rd) -> VirtualQueue]
  BY <1>1, <1>4
<1>6. /\ [w EXCEPT ![f0] = v][f0] = v
      /\ \A f \in ToSet(rd) : f # f0 => [w EXCEPT ![f0] = v][f] = w[f]
  BY <1>1
<1>7. \A f \in ToSet(rd) : /\ Started(rd, p)[f].list = w[f].list
                        /\ Started(rd, p)[f].length = w[f].length
  BY <1>2, <1>4, <1>6
<1> QED BY <1>2, <1>4, <1>5, <1>6, <1>7 DEF w, d

(* The service can start with the first flow of the round.                 *)
LEMMA StartVisits ==
    ASSUME NEW p \in Packets, NEW rd, Table(rd, Pushed(p)), ToSet(rd) # {},
           \A f \in ToSet(rd) : Filled(f, Pushed(p)[f])
    PROVE  /\ Visitable(rd, Started(rd, p), rd[1])
           /\ \A f \in ToSet(rd) : Filled(f, Started(rd, p)[f])
           /\ QueuedIn(Started(rd, p)) = QueuedIn(Pushed(p))
           /\ \A f : ListIn(Started(rd, p), f) = ListIn(Pushed(p), f)
<1>1. rd[1] \in ToSet(rd)
  <2>1. rd \in Seq(Flows)
    BY DEF Table, Round
  <2>2. 1 \in DOMAIN rd
    BY <2>1 DEF ToSet
  <2> QED BY <2>2 DEF ToSet
<1>2. /\ Started(rd, p) \in [ToSet(rd) -> VirtualQueue]
      /\ \A f \in ToSet(rd) : /\ Started(rd, p)[f].list = Pushed(p)[f].list
                            /\ Started(rd, p)[f].length = Pushed(p)[f].length
  BY <1>1, StartedIs
<1>3. Pushed(p) \in [ToSet(rd) -> VirtualQueue] /\ Table(rd, Started(rd, p))
  BY <1>2 DEF Table
<1>4. \A f \in ToSet(rd) : Filled(f, Started(rd, p)[f])
  BY <1>2 DEF Filled
<1>5. Visitable(rd, Started(rd, p), rd[1])
  BY <1>1, <1>3, <1>4 DEF Visitable, Filled
<1>6. ToSet(rd) \subseteq ToSet(rd) /\ ToSet(rd) \ ToSet(rd) = {}
  OBVIOUS
<1>7. QueuedIn(Started(rd, p)) = QueuedIn(Pushed(p))
  BY <1>2, <1>3, <1>6, SameQueued
<1>8. \A f : ListIn(Started(rd, p), f) = ListIn(Pushed(p), f)
  BY <1>2, <1>3, <1>6, SameQueued
<1> QED BY <1>4, <1>5, <1>7, <1>8

LEMMA ArrivalIs ==
    ASSUME Table(round, queues), \A f \in ToSet(round) : Filled(f, queues[f]),
           actual \in ToSet(round) \cup {NoFlow}, Leading,
           NEW p \in Packets, p \notin QueuedIn(queues),
           NEW rd \in Rounds(Flow[p]), ~StartBreaks(p, rd)
    PROVE  LET after == Arrival(p, rd)
           IN  /\ Tables(after) /\ ToSet(after.round) = ToSet(round) \cup {Flow[p]}
               /\ QueuedIn(after.queues) = QueuedIn(queues) \cup {p}
               /\ \A f : ListIn(after.queues, f) = ListIn(Pushed(p), f)
               /\ Starts(p) => /\ after.actual \in ToSet(after.round)
                               /\ LeadAfter(after) \in Leads /\ SelfLeads(LeadAfter(after))
<1> DEFINE after == Arrival(p, rd)
<1>1. Flow[p] \in Flows
  BY FlowAssumption
<1>2. Round(rd) /\ ToSet(rd) = ToSet(round) \cup {Flow[p]}
  BY <1>1, RoundsAre
<1>3. Table(rd, Pushed(p)) /\ QueuedIn(Pushed(p)) = QueuedIn(queues) \cup {p}
  BY <1>2, PushedIs
<1>4. \A f \in ToSet(rd) : Filled(f, Pushed(p)[f])
  BY <1>2, PushedIs
<1>5. CASE Starts(p)
  <2> DEFINE q == Started(rd, p)
             at == rd[1]
  <2>1. after = Dequeue(rd, q, at, Order(rd, q, at))
    BY <1>5 DEF Arrival, Ahead
  <2>2. ~DequeueBreaks(q, at, Order(rd, q, at))
    BY <1>5 DEF StartBreaks, Ahead
  <2>3. ToSet(rd) # {}
    BY <1>2
  <2>4. /\ Visitable(rd, q, at)
        /\ \A f \in ToSet(rd) : Filled(f, q[f])
        /\ QueuedIn(q) = QueuedIn(Pushed(p))
        /\ \A f : ListIn(q, f) = ListIn(Pushed(p), f)
    BY <1>3, <1>4, <2>3, StartVisits
  <2> HIDE DEF q, at, after
  <2>5. Dequeued(rd, q, at, after)
    BY <2>1, <2>2, <2>4, DequeueTypes
  <2>6. \A f \in ToSet(rd) : q[f].length # 0 => Filled(f, q[f])
    BY <2>4
  <2>7. /\ Tables(after) /\ QueuedIn(after.queues) = QueuedIn(q)
        /\ LeadAfter(after) \in Leads /\ SelfLeads(LeadAfter(after))
    BY <2>4, <2>5, <2>6, DequeuedTables
  <2>8. \A f : ListIn(after.queues, f) = ListIn(q, f)
    BY <2>4, <2>5, <2>6, DequeuedTables
  <2>9. ToSet(after.round) = ToSet(rd)
    <3>1. at \in ToSet(rd) /\ q[at].length # 0
      BY <2>4 DEF Visitable, Filled
    <3> QED BY <3>1, <2>5 DEF Dequeued
  <2>10. after.actual \in ToSet(after.round)
    <3>1. ToSet(<<>>) = {}
      BY DEF ToSet
    <3> QED BY <2>3, <2>5, <2>9, <3>1 DEF Dequeued
  <2>11. /\ Tables(after) /\ ToSet(after.round) = ToSet(round) \cup {Flow[p]}
         /\ QueuedIn(after.queues) = QueuedIn(queues) \cup {p}
         /\ \A f : ListIn(after.queues, f) = ListIn(Pushed(p), f)
         /\ after.actual \in ToSet(after.round)
         /\ LeadAfter(after) \in Leads /\ SelfLeads(LeadAfter(after))
    BY <1>2, <1>3, <2>4, <2>7, <2>8, <2>9, <2>10
  <2> QED BY <2>11 DEF after
<1>6. CASE ~Starts(p)
  <2>1. /\ after.round = rd /\ after.queues = Pushed(p) /\ after.actual = actual
    BY <1>6 DEF Arrival
  <2> HIDE DEF after
  <2>2. /\ Tables(after) /\ ToSet(after.round) = ToSet(round) \cup {Flow[p]}
        /\ QueuedIn(after.queues) = QueuedIn(queues) \cup {p}
        /\ \A f : ListIn(after.queues, f) = ListIn(Pushed(p), f)
    BY <1>2, <1>3, <1>4, <2>1 DEF Tables
  <2> QED BY <1>6, <2>2 DEF after
<1> QED BY <1>5, <1>6

-----------------------------------------------------------------------------
(* The inductive invariant: what always holds and, until an overflow, the  *)
(* scheduling and the credits.                                             *)

Shapes ==
    /\ Table(round, queues) /\ \A f \in ToSet(round) : Filled(f, queues[f])
    /\ actual \in ToSet(round) \cup {NoFlow}
    /\ Leading
    /\ length = SizesOf(QueuedIn(queues)) /\ length <= QueueSize
    /\ departures \in Nat
    /\ crashed \in BOOLEAN /\ overflowed \in BOOLEAN

Scheduled ==
    /\ ~crashed
    /\ \A f \in ToSet(round) : /\ queues[f].list # <<>>
                             /\ queues[f].length = SizeOf(queues[f].list)
    /\ departures = IF length = 0 THEN 0 ELSE 1
    /\ IF length = 0 THEN round = <<>> ELSE actual \in ToSet(round)

Credits ==
    /\ \A f \in ToSet(round) \ {actual} : Waiting(queues[f])
    /\ actual # NoFlow => queues[actual].deficit < Quantum
    /\ Within(round, queues, actual, lead)
    /\ \A f, g \in Flows : ~({f, g} \subseteq ToSet(round)) => lead[f][g] = 0

IInv == Shapes /\ (~overflowed => Scheduled /\ Credits)

LEMMA InitInv == ASSUME Init PROVE IInv
<1>1. ToSet(<<>>) = {} /\ Round(<<>>)
  BY DEF ToSet, Round, IsInjective
<1>2. Table(<<>>, NoQueues)
  BY <1>1 DEF Table, NoQueues
<1>3. QueuedIn(NoQueues) = {}
  BY DEF QueuedIn, NoQueues
<1>4. Leading
  BY DEF Init, Leading, Leads, SelfLeads
<1>5. 0 <= QueueSize
  BY QueueSizeAssumption, QuantumAssumption
<1>6. Shapes
  BY <1>1, <1>2, <1>3, <1>4, <1>5, SizesNone DEF Init, Shapes
<1>7. Scheduled
  BY <1>1 DEF Init, Scheduled
<1>8. Credits
  BY <1>1 DEF Init, Credits, Within
<1> QED BY <1>6, <1>7, <1>8 DEF IInv

(* What is behind the head of a list.                                      *)
LEMMA TailIs ==
    ASSUME NEW s \in Seq(Packets), s # <<>>, IsInjective(s)
    PROVE  /\ Tail(s) \in Seq(Packets) /\ IsInjective(Tail(s))
           /\ Head(s) \in ToSet(s) /\ ToSet(Tail(s)) = ToSet(s) \ {Head(s)}
           /\ SizeOf(Tail(s)) = SizeOf(s) - Size[Head(s)]
           /\ SizeOf(s) \in Nat /\ Size[Head(s)] \in Nat /\ Size[Head(s)] <= SizeOf(s)
           /\ SizeOf(Tail(s)) \in Nat /\ (SizeOf(Tail(s)) = 0 => Tail(s) = <<>>)
<1> DEFINE n == Len(s)
           t == Tail(s)
<1>1. n \in Nat /\ n > 0 /\ DOMAIN s = 1..n /\ Head(s) = s[1] /\ \A i \in 1..n : s[i] \in Packets
  BY LenProperties, ElementOfSeq
<1>2. t \in Seq(Packets) /\ Len(t) = n - 1 /\ DOMAIN t = 1..n - 1
  BY <1>1
<1>3. \A i \in 1..n - 1 : t[i] = s[i + 1]
  BY <1>1
<1> HIDE DEF n, t
<1>4. IsInjective(t)
  <2>1. SUFFICES ASSUME NEW i \in 1..n - 1, NEW j \in 1..n - 1, t[i] = t[j] PROVE i = j
    BY <1>2 DEF IsInjective
  <2>2. i + 1 \in DOMAIN s /\ j + 1 \in DOMAIN s /\ s[i + 1] = s[j + 1]
    BY <1>1, <1>3, <2>1
  <2>3. i + 1 = j + 1
    BY <2>2 DEF IsInjective
  <2> QED BY <1>1, <2>3
<1>5. Head(s) \in ToSet(s)
  BY <1>1 DEF ToSet
<1>6. ToSet(t) = ToSet(s) \ {Head(s)}
  <2>1. ASSUME NEW x \in ToSet(t) PROVE x \in ToSet(s) \ {Head(s)}
    <3>1. PICK i \in 1..n - 1 : x = s[i + 1]
      BY <1>2, <1>3 DEF ToSet
    <3>2. i + 1 \in DOMAIN s /\ i + 1 # 1 /\ 1 \in DOMAIN s
      BY <1>1
    <3>3. s[i + 1] # s[1]
      BY <3>2 DEF IsInjective
    <3> QED BY <1>1, <3>1, <3>2, <3>3 DEF ToSet
  <2>2. ASSUME NEW x \in ToSet(s), x # Head(s) PROVE x \in ToSet(t)
    <3>1. PICK i \in 1..n : x = s[i]
      BY <1>1 DEF ToSet
    <3>2. i - 1 \in 1..n - 1 /\ i - 1 + 1 = i
      BY <1>1, <2>2, <3>1
    <3>3. t[i - 1] = x
      BY <1>3, <3>1, <3>2
    <3> QED BY <1>2, <3>2, <3>3 DEF ToSet
  <2> QED BY <2>1, <2>2
<1>7. ToSet(s) \subseteq Packets /\ Head(s) \in Packets
  BY <1>1 DEF ToSet
<1>8. /\ SizesOf(ToSet(s) \ {Head(s)}) = SizesOf(ToSet(s)) - SizesOf({Head(s)})
      /\ SizesOf({Head(s)}) <= SizesOf(ToSet(s))
  <2>1. {Head(s)} \subseteq ToSet(s)
    BY <1>5
  <2> QED BY <1>7, <2>1, SizesLess
<1>9. SizesOf({Head(s)}) = Size[Head(s)] /\ Size[Head(s)] \in Nat
  BY <1>7, SizesOne
<1>10. SizesOf(ToSet(s)) \in Nat /\ SizesOf(ToSet(t)) \in Nat
  BY <1>6, <1>7, SizesType
<1>11. ASSUME SizesOf(ToSet(t)) = 0 PROVE t = <<>>
  <2>1. ToSet(t) = {}
    <3>1. SUFFICES ASSUME NEW x \in ToSet(t) PROVE FALSE
      OBVIOUS
    <3>2. ToSet(t) \subseteq Packets
      BY <1>6, <1>7
    <3> QED BY <1>11, <3>1, <3>2, SizesSome
  <2>2. n - 1 = 0
    <3>1. SUFFICES ASSUME n - 1 # 0 PROVE FALSE
      OBVIOUS
    <3>2. 1 \in DOMAIN t
      BY <1>1, <1>2, <3>1
    <3> QED BY <2>1, <3>2 DEF ToSet
  <2> QED BY <1>2, <2>2
<1> QED BY <1>2, <1>4, <1>5, <1>6, <1>8, <1>9, <1>10, <1>11 DEF SizeOf, t

LEMMA TransmitIs ==
    ASSUME Table(round, queues), \A f \in ToSet(round) : Filled(f, queues[f]),
           NEW at \in ToSet(round), queues[at].list # <<>>
    PROVE  LET q == [queues EXCEPT ![at] = Transmitted(queues[at])]
               h == Head(queues[at].list)
           IN  /\ q \in [ToSet(round) -> VirtualQueue] /\ Visitable(round, q, at)
               /\ \A f \in ToSet(round) : q[f].length # 0 => Filled(f, q[f])
               /\ \A f \in ToSet(round) : f # at => q[f] = queues[f]
               /\ q[at].list = Tail(queues[at].list)
               /\ q[at].length = queues[at].length - Size[h]
               /\ q[at].deficit = queues[at].deficit
               /\ h \in QueuedIn(queues) /\ QueuedIn(q) = QueuedIn(queues) \ {h}
               /\ \A f : f # at => ListIn(q, f) = ListIn(queues, f)
               /\ ListIn(queues, at) = queues[at].list
               /\ ListIn(q, at) = Tail(queues[at].list)
<1> DEFINE v == queues[at]
           h == Head(v.list)
           l == Tail(v.list)
           n == v.length - Size[h]
           w == [v EXCEPT !.list = l, !.length = n]
           q == [queues EXCEPT ![at] = w]
<1>1. /\ queues \in [ToSet(round) -> VirtualQueue] /\ Round(round)
      /\ v \in VirtualQueue /\ v.list \in Seq(Packets) /\ v.length \in Nat /\ v.deficit \in Nat
      /\ Filled(at, v) /\ v.list # <<>> /\ IsInjective(v.list) /\ SizeOf(v.list) <= v.length
  <2>1. queues \in [ToSet(round) -> VirtualQueue] /\ Round(round)
    BY DEF Table
  <2>2. v \in VirtualQueue
    BY <2>1
  <2>3. v.list \in Seq(Packets) /\ v.length \in Nat /\ v.deficit \in Nat
    BY <2>2 DEF VirtualQueue
  <2> QED BY <2>1, <2>2, <2>3 DEF Filled
<1>2. w = Transmitted(v)
  BY DEF Transmitted
<1> HIDE DEF v
<1>3. /\ l \in Seq(Packets) /\ IsInjective(l) /\ h \in ToSet(v.list)
      /\ ToSet(l) = ToSet(v.list) \ {h}
      /\ SizeOf(l) = SizeOf(v.list) - Size[h]
      /\ SizeOf(v.list) \in Nat /\ Size[h] \in Nat /\ Size[h] <= SizeOf(v.list)
      /\ SizeOf(l) \in Nat /\ (SizeOf(l) = 0 => l = <<>>)
  BY <1>1, TailIs
<1> HIDE DEF l, h
<1>4. n \in Nat /\ SizeOf(l) <= n
  BY <1>1, <1>3
<1> HIDE DEF n
<1>5. /\ w \in VirtualQueue /\ w.list = l /\ w.length = n /\ w.deficit = v.deficit
  BY <1>1, <1>3, <1>4 DEF VirtualQueue
<1> HIDE DEF w
<1>6. q \in [ToSet(round) -> VirtualQueue]
  BY <1>1, <1>5
<1>7. q[at] = w /\ \A f \in ToSet(round) : f # at => q[f] = queues[f]
  BY <1>1
<1>8. n # 0 => Filled(at, w)
  BY <1>1, <1>3, <1>4, <1>5 DEF Filled
<1>9. n = 0 => l = <<>>
  BY <1>3, <1>4
<1>10. \A f \in ToSet(round) : q[f].length # 0 => Filled(f, q[f])
  BY <1>5, <1>7, <1>8
<1>11. Visitable(round, q, at)
  BY <1>1, <1>5, <1>6, <1>7, <1>9 DEF Visitable, Table, Filled
<1>12. ASSUME NEW f, f # at PROVE ListIn(q, f) = ListIn(queues, f)
  <2>1. DOMAIN q = ToSet(round) /\ DOMAIN queues = ToSet(round)
    BY <1>1, <1>6
  <2> QED BY <1>7, <1>12, <2>1 DEF ListIn
<1>13. ListIn(queues, at) = v.list /\ ListIn(q, at) = l
  <2>1. at \in DOMAIN q /\ at \in DOMAIN queues
    BY <1>1, <1>6
  <2> QED BY <1>5, <1>7, <2>1 DEF ListIn, v
<1> HIDE DEF q
<1>14. h \in QueuedIn(queues) /\ QueuedIn(q) = QueuedIn(queues) \ {h}
  <2>1. \A x : x \in QueuedIn(q) <=> \E f \in ToSet(round) : x \in ToSet(q[f].list)
    BY <1>6, QueuedIs
  <2>2. \A x : x \in QueuedIn(queues) <=> \E f \in ToSet(round) : x \in ToSet(queues[f].list)
    BY <1>1, QueuedIs
  <2>3. h \in QueuedIn(queues)
    BY <1>3, <2>2 DEF v
  <2>4. ASSUME NEW x \in QueuedIn(q) PROVE x \in QueuedIn(queues) /\ x # h
    <3>1. PICK f \in ToSet(round) : x \in ToSet(q[f].list)
      BY <2>1
    <3>2. CASE f = at
      BY <1>3, <1>5, <1>7, <2>2, <3>1, <3>2 DEF v
    <3>3. CASE f # at
      <4>1. x \in ToSet(queues[f].list)
        BY <1>7, <3>1, <3>3
      <4>2. Flow[x] = f /\ Flow[h] = at
        BY <1>1, <1>3, <4>1 DEF Filled
      <4> QED BY <2>2, <3>3, <4>1, <4>2
    <3> QED BY <3>2, <3>3
  <2>5. ASSUME NEW x \in QueuedIn(queues), x # h PROVE x \in QueuedIn(q)
    <3>1. PICK f \in ToSet(round) : x \in ToSet(queues[f].list)
      BY <2>2
    <3>2. CASE f = at
      BY <1>3, <1>5, <1>7, <2>1, <2>5, <3>1, <3>2 DEF v
    <3>3. CASE f # at
      BY <1>7, <2>1, <3>1, <3>3
    <3> QED BY <3>2, <3>3
  <2> QED BY <2>3, <2>4, <2>5
<1>15. q = [queues EXCEPT ![at] = Transmitted(queues[at])]
  BY <1>2 DEF q, v
<1>16. /\ q \in [ToSet(round) -> VirtualQueue] /\ Visitable(round, q, at)
       /\ \A f \in ToSet(round) : q[f].length # 0 => Filled(f, q[f])
       /\ \A f \in ToSet(round) : f # at => q[f] = queues[f]
       /\ q[at].list = l /\ q[at].length = n /\ q[at].deficit = v.deficit
       /\ h \in QueuedIn(queues) /\ QueuedIn(q) = QueuedIn(queues) \ {h}
       /\ \A f : f # at => ListIn(q, f) = ListIn(queues, f)
       /\ ListIn(queues, at) = v.list /\ ListIn(q, at) = l
  BY <1>5, <1>6, <1>7, <1>10, <1>11, <1>12, <1>13, <1>14
<1> QED BY <1>15, <1>16 DEF l, n, v, h

-----------------------------------------------------------------------------
(* A packet that arrives.                                                  *)

LEMMA StartsWhenEmpty ==
    ASSUME Shapes, NEW p \in Packets
    PROVE  /\ length \in Nat /\ Size[p] \in Nat /\ Size[p] > 0
           /\ Starts(p) <=> length = 0
<1>1. queues \in [ToSet(round) -> VirtualQueue]
  BY DEF Shapes, Table
<1>2. length \in Nat
  BY <1>1, QueuedIs, SizesType DEF Shapes
<1>3. Size[p] \in Nat /\ Size[p] > 0
  BY SizesOne
<1> QED BY <1>2, <1>3 DEF Starts

(* Until an overflow the lengths of the flows are exact.                   *)
Exact(v) == v.list # <<>> /\ v.length = SizeOf(v.list)

LEMMA PushedExact ==
    ASSUME Shapes, Scheduled, NEW p \in Packets, p \notin QueuedIn(queues),
           NEW rd, Round(rd), ToSet(rd) = ToSet(round) \cup {Flow[p]}
    PROVE  \A f \in ToSet(rd) : Exact(Pushed(p)[f])
<1> DEFINE F == Flow[p]
           v == QueueOf(F)
<1>1. /\ queues \in [ToSet(round) -> VirtualQueue]
      /\ \A f \in ToSet(round) : Filled(f, queues[f]) /\ Exact(queues[f])
  BY DEF Shapes, Table, Scheduled, Exact
<1>2. /\ \A f \in ToSet(round) : f # F => Pushed(p)[f] = queues[f]
      /\ Pushed(p)[F] = Push(v, p) /\ v \in VirtualQueue
  BY PushedIs DEF Shapes
<1>3. /\ v.length = SizeOf(v.list) /\ p \notin ToSet(v.list) /\ IsInjective(v.list)
      /\ \A x \in ToSet(v.list) : Flow[x] = F
  <2>1. CASE F \in ToSet(round)
    <3>1. v = queues[F]
      BY <1>1, <2>1 DEF QueueOf
    <3>2. p \notin ToSet(v.list)
      BY <1>1, <2>1, <3>1, QueuedIs
    <3> QED BY <1>1, <2>1, <3>1, <3>2 DEF Filled, Exact
  <2>2. CASE F \notin ToSet(round)
    <3>1. v = NewQueue
      BY <1>1, <2>2 DEF QueueOf
    <3>2. v.list = <<>> /\ v.length = 0
      BY <3>1 DEF NewQueue
    <3>3. ToSet(<<>>) = {} /\ IsInjective(<<>>)
      BY DEF ToSet, IsInjective
    <3>4. SizeOf(<<>>) = 0
      BY <3>3, SizesNone DEF SizeOf
    <3> QED BY <3>2, <3>3, <3>4
  <2> QED BY <2>1, <2>2
<1> HIDE DEF v
<1>4. /\ Push(v, p).list = Append(v.list, p) /\ Push(v, p).length = v.length + Size[p]
      /\ v.list \in Seq(Packets) /\ v.length \in Nat
  BY <1>2, PushIs DEF VirtualQueue
<1>5. SizeOf(v.list) <= v.length
  BY <1>3, <1>4
<1>6. SizeOf(Push(v, p).list) = SizeOf(v.list) + Size[p]
  BY <1>2, <1>3, <1>5, PushFilled
<1>7. Append(v.list, p) # <<>>
  BY <1>4
<1>8. Exact(Push(v, p))
  BY <1>3, <1>4, <1>6, <1>7 DEF Exact
<1> QED BY <1>1, <1>2, <1>8

LEMMA NoStartBreaks ==
    ASSUME Shapes, Scheduled, NEW p \in Packets, p \notin QueuedIn(queues),
           NEW rd \in Rounds(Flow[p])
    PROVE  ~StartBreaks(p, rd)
<1>1. Flow[p] \in Flows /\ Table(round, queues)
  BY FlowAssumption DEF Shapes
<1>2. Round(rd) /\ ToSet(rd) = ToSet(round) \cup {Flow[p]}
  BY <1>1, RoundsAre
<1>3. Table(rd, Pushed(p)) /\ \A f \in ToSet(rd) : Filled(f, Pushed(p)[f])
  BY <1>2, PushedIs DEF Shapes
<1>4. \A f \in ToSet(rd) : Exact(Pushed(p)[f])
  BY <1>2, PushedExact
<1> DEFINE q == Started(rd, p)
           at == rd[1]
<1>5. Visitable(rd, q, at)
  BY <1>2, <1>3, StartVisits
<1>6. \A f \in ToSet(rd) : q[f].list = Pushed(p)[f].list
  BY <1>3, <1>5, StartedIs DEF Visitable
<1> HIDE DEF q, at
<1>7. ~DequeueBreaks(q, at, Order(rd, q, at))
  BY <1>4, <1>5, <1>6, DequeueWorks DEF Exact
<1> QED BY <1>7 DEF StartBreaks, Ahead, q, at

(* The first packet: there is one flow, and the packet is served.          *)
LEMMA StartFair ==
    ASSUME Shapes, Scheduled, Credits, NEW p \in Packets, p \notin QueuedIn(queues),
           NEW rd \in Rounds(Flow[p]), ~StartBreaks(p, rd), length = 0
    PROVE  LET after == Arrival(p, rd)
           IN  /\ FairlyServed(after) /\ after.actual \in ToSet(after.round)
               /\ \A f \in ToSet(after.round) : Exact(after.queues[f])
<1> DEFINE F == Flow[p]
           q == Started(rd, p)
           after == Arrival(p, rd)
<1>1. F \in Flows /\ Table(round, queues) /\ ToSet(round) = {} /\ lead \in Leads
  BY FlowAssumption DEF Shapes, Scheduled, ToSet, Leading
<1>2. Round(rd) /\ ToSet(rd) = ToSet(round) \cup {F} /\ ToSet(rd) = {F}
  BY <1>1, RoundsAre
<1>3. Table(rd, Pushed(p)) /\ \A f \in ToSet(rd) : Filled(f, Pushed(p)[f])
  BY <1>2, PushedIs DEF Shapes
<1>4. \A f \in ToSet(rd) : Exact(Pushed(p)[f])
  BY <1>2, PushedExact
<1>5. Visitable(rd, q, rd[1])
  BY <1>2, <1>3, StartVisits
<1>6. rd[1] = F /\ F \in ToSet(rd)
  BY <1>2, <1>5 DEF Visitable
<1>7. /\ \A f \in ToSet(rd) : /\ q[f].list = Pushed(p)[f].list
                             /\ q[f].length = Pushed(p)[f].length
      /\ q[F].deficit = Pushed(p)[F].deficit + Quantum
  BY <1>3, <1>6, StartedIs
<1>8. Pushed(p)[F].deficit = 0
  <2>1. Pushed(p)[F] = Push(QueueOf(F), p) /\ QueueOf(F) \in VirtualQueue
    BY <1>2, PushedIs DEF Shapes
  <2>2. QueueOf(F) = NewQueue
    BY <1>1 DEF Table, QueueOf
  <2>3. QueueOf(F).deficit = 0
    BY <2>2 DEF NewQueue
  <2> QED BY <2>1, <2>3, PushIs
<1>9. q[F].deficit <= Quantum
  BY <1>7, <1>8, QueueSizeAssumption, QuantumAssumption
<1>10. Starts(p)
  BY StartsWhenEmpty
<1>11. after = Dequeue(rd, q, F, Order(rd, q, F)) /\ ~DequeueBreaks(q, F, Order(rd, q, F))
  BY <1>6, <1>10 DEF Arrival, StartBreaks, Ahead
<1> HIDE DEF q, after, F
<1>12. Within(rd, q, F, lead)
  BY <1>2 DEF Within
<1>13. FairlyServed(after)
  BY <1>1, <1>2, <1>5, <1>6, <1>9, <1>11, <1>12, DequeueFair
<1>14. Dequeued(rd, q, F, after)
  BY <1>5, <1>6, <1>11, DequeueTypes
<1>15. after.actual \in ToSet(after.round)
  <2>1. q[F].length # 0 /\ ToSet(<<>>) = {}
    BY <1>3, <1>6, <1>7 DEF Filled, ToSet
  <2> QED BY <1>6, <1>14, <2>1 DEF Dequeued
<1>16. \A f \in ToSet(after.round) : Exact(after.queues[f])
  BY <1>4, <1>7, <1>14 DEF Dequeued, Exact
<1> QED BY <1>13, <1>15, <1>16 DEF after

(* Another packet: who waits goes on waiting, and a new flow has no credit.*)
LEMMA PushFair ==
    ASSUME Shapes, Scheduled, Credits, NEW p \in Packets, p \notin QueuedIn(queues),
           NEW rd \in Rounds(Flow[p]), length # 0
    PROVE  /\ \A f \in ToSet(rd) \ {actual} : Waiting(Pushed(p)[f])
           /\ actual \in ToSet(rd) /\ Pushed(p)[actual].deficit < Quantum
           /\ Within(rd, Pushed(p), actual, lead)
<1> DEFINE F == Flow[p]
           w == Pushed(p)
           S == ToSet(round)
<1>1. /\ F \in Flows /\ Table(round, queues) /\ queues \in [S -> VirtualQueue]
      /\ lead \in Leads /\ actual \in S /\ S \subseteq Flows /\ actual # NoFlow
      /\ queues[actual].deficit < Quantum
  <2>1. S \subseteq Flows
    BY DEF Shapes, Table, Round, ToSet
  <2> QED BY <2>1, FlowAssumption DEF Shapes, Scheduled, Credits, Leading, Table
<1>2. Round(rd) /\ ToSet(rd) = S \cup {F}
  BY <1>1, RoundsAre
<1>3. \A at, g, h \in S : Before(rd, at, g, h) <=> Before(round, at, g, h)
  BY <1>1, RoundsAre
<1>4. F \notin S => Before(rd, actual, F, actual)
  BY <1>1, RoundsAre
<1>5. /\ \A f \in S : f # F => w[f] = queues[f]
      /\ w[F] = Push(QueueOf(F), p) /\ QueueOf(F) \in VirtualQueue
  BY <1>2, PushedIs DEF Shapes
<1>6. w[F].list = Append(QueueOf(F).list, p) /\ w[F].deficit = QueueOf(F).deficit
  BY <1>5, PushIs
<1>7. F \in S => QueueOf(F) = queues[F]
  BY <1>1 DEF QueueOf
<1>8. F \notin S => QueueOf(F) = NewQueue
  BY <1>1 DEF QueueOf
<1>9. F \notin S => w[F].deficit = 0 /\ w[F].list = <<p>>
  <2>1. NewQueue.list = <<>> /\ NewQueue.deficit = 0
    BY DEF NewQueue
  <2>2. Append(<<>>, p) = <<p>>
    OBVIOUS
  <2>3. SUFFICES ASSUME F \notin S PROVE w[F].deficit = 0 /\ w[F].list = <<p>>
    OBVIOUS
  <2>4. QueueOf(F).list = <<>> /\ QueueOf(F).deficit = 0
    BY <1>8, <2>1, <2>3
  <2> HIDE DEF w, F
  <2> QED BY <1>6, <2>2, <2>4
<1>10. \A f \in S : w[f].deficit = queues[f].deficit /\ w[f].deficit \in Nat
  <2>1. \A f \in S : w[f].deficit = queues[f].deficit
    BY <1>5, <1>6, <1>7
  <2>2. \A f \in S : queues[f].deficit \in Nat
    BY <1>1 DEF VirtualQueue
  <2> QED BY <2>1, <2>2
<1>11. \A f \in S : queues[f].list # <<>> => Head(w[f].list) = Head(queues[f].list) /\ w[f].list # <<>>
  <2>1. SUFFICES ASSUME NEW f \in S, queues[f].list # <<>>
                 PROVE  Head(w[f].list) = Head(queues[f].list) /\ w[f].list # <<>>
    OBVIOUS
  <2>2. CASE f # F
    BY <1>5, <2>1, <2>2
  <2>3. CASE f = F
    <3>1. w[f].list = Append(queues[f].list, p) /\ queues[f].list \in Seq(Packets)
      BY <1>1, <1>6, <1>7, <2>1, <2>3 DEF VirtualQueue
    <3> QED BY <2>1, <3>1
  <2> QED BY <2>2, <2>3
<1>12. \A f \in S \ {actual} : queues[f].list # <<>> /\ Waiting(queues[f])
  BY DEF Credits, Scheduled
<1> HIDE DEF w, S
<1>13. \A f \in S \ {actual} : Waiting(w[f])
  BY <1>10, <1>11, <1>12 DEF Waiting
<1>14. F \notin S => Waiting(w[F])
  <2>1. <<p>> # <<>> /\ Head(<<p>>) = p
    OBVIOUS
  <2>2. 0 < Size[p]
    BY StartsWhenEmpty
  <2> QED BY <1>9, <2>1, <2>2 DEF Waiting
<1>15. \A f \in ToSet(rd) \ {actual} : Waiting(w[f])
  BY <1>2, <1>13, <1>14
<1>16. actual \in ToSet(rd) /\ w[actual].deficit < Quantum
  BY <1>1, <1>2, <1>10
<1>17. Packets # {} /\ LargestSize \in Nat /\ LargestSize > 0 /\ Quantum \in Nat
  BY LargestIs, QueueSizeAssumption, QuantumAssumption
<1>18. \A f \in S \ {actual} : w[f].deficit < LargestSize
  <2>1. SUFFICES ASSUME NEW f \in S, f # actual PROVE w[f].deficit < LargestSize
    OBVIOUS
  <2>2. queues[f] \in VirtualQueue /\ queues[f].list # <<>>
        /\ queues[f].deficit < Size[Head(queues[f].list)]
    BY <1>1, <1>12, <2>1 DEF Waiting
  <2>3. Size[Head(queues[f].list)] \in Nat /\ Size[Head(queues[f].list)] <= LargestSize
    BY <2>2, HeadIs
  <2> QED BY <1>10, <1>17, <2>2, <2>3
<1>19. Within(rd, w, actual, lead)
  <2>1. SUFFICES ASSUME NEW f \in ToSet(rd), NEW g \in ToSet(rd), f # g
                 PROVE  lead[f][g] + w[f].deficit - w[g].deficit <
                          LargestSize + IF Before(rd, actual, g, f) THEN Quantum ELSE 0
    BY DEF Within
  <2>2. CASE f \in S /\ g \in S
    <3>1. lead[f][g] + queues[f].deficit - queues[g].deficit <
            LargestSize + IF Before(round, actual, g, f) THEN Quantum ELSE 0
      BY <2>1, <2>2 DEF Credits, Within, S
    <3>2. Before(rd, actual, g, f) <=> Before(round, actual, g, f)
      BY <1>1, <1>3, <2>2
    <3>3. w[f].deficit = queues[f].deficit /\ w[g].deficit = queues[g].deficit
      BY <1>10, <2>2
    <3> QED BY <3>1, <3>2, <3>3
  <2>3. ASSUME ~(f \in S /\ g \in S) PROVE lead[f][g] = 0
    <3>1. f \in Flows /\ g \in Flows
      BY <1>1, <1>2
    <3> QED BY <2>3, <3>1 DEF Credits, S
  <2>4. CASE f \notin S
    <3>1. f = F /\ g \in S /\ w[f].deficit = 0 /\ w[g].deficit \in Nat
      BY <1>2, <1>9, <1>10, <2>1, <2>4
    <3> QED BY <1>17, <2>3, <2>4, <3>1
  <2>5. CASE g \notin S
    <3>1. g = F /\ f \in S /\ w[g].deficit = 0 /\ w[f].deficit \in Nat
      BY <1>2, <1>9, <1>10, <2>1, <2>5
    <3>2. CASE f = actual
      BY <1>4, <1>16, <1>17, <2>3, <2>5, <3>1, <3>2
    <3>3. CASE f # actual
      BY <1>17, <1>18, <2>3, <2>5, <3>1, <3>3
    <3> QED BY <3>2, <3>3
  <2> QED BY <2>2, <2>4, <2>5
<1> QED BY <1>15, <1>16, <1>19 DEF w
LEMMA EnqueueStep ==
    ASSUME IInv, NEW p \in Packets, Enqueue(p)
    PROVE  /\ IInv' /\ overflowed' = overflowed
           /\ \/ UNCHANGED <<round, queues, actual, length, departures, lead>>
              \/ \A f : ListIn(queues', f) = ListIn(Pushed(p), f)
<1>1. Shapes /\ (~overflowed => Scheduled /\ Credits) /\ overflowed' = overflowed
      /\ p \notin QueuedIn(queues) /\ length + Size[p] <= QueueSize
  BY DEF IInv, Enqueue
<1>2. PICK rd \in Rounds(Flow[p]) :
          \/ StartBreaks(p, rd) /\ Crash
          \/ /\ ~StartBreaks(p, rd)
             /\ Arrives(p, rd, Arrival(p, rd))
             /\ queues' = Arrival(p, rd).queues
             /\ length' = length + Size[p]
             /\ UNCHANGED crashed
  BY DEF Enqueue
<1>3. ~overflowed => ~StartBreaks(p, rd)
  BY <1>1, NoStartBreaks
<1>4. CASE StartBreaks(p, rd) /\ Crash
  <2>1. Shapes'
    BY <1>1, <1>4 DEF Crash, Shapes, Leading
  <2>2. overflowed'
    BY <1>1, <1>3, <1>4 DEF Shapes
  <2> QED BY <1>1, <1>4, <2>1, <2>2 DEF IInv, Crash
<1>5. CASE /\ ~StartBreaks(p, rd)
           /\ Arrives(p, rd, Arrival(p, rd))
           /\ queues' = Arrival(p, rd).queues
           /\ length' = length + Size[p]
           /\ UNCHANGED crashed
  <2> DEFINE after == Arrival(p, rd)
  <2>1. /\ Table(round, queues) /\ \A f \in ToSet(round) : Filled(f, queues[f])
        /\ actual \in ToSet(round) \cup {NoFlow} /\ Leading
        /\ length = SizesOf(QueuedIn(queues)) /\ departures \in Nat
        /\ crashed \in BOOLEAN /\ overflowed \in BOOLEAN
    BY <1>1 DEF Shapes
  <2>2. /\ round' = after.round /\ queues' = after.queues /\ actual' = after.actual
        /\ departures' = departures + (IF Starts(p) THEN Events(after) ELSE 0)
        /\ lead' = (IF Starts(p) THEN LeadAfter(after) ELSE lead)
        /\ length' = length + Size[p] /\ crashed' = crashed
    BY <1>5 DEF Arrives
  <2>3. Tables(after) /\ ToSet(after.round) = ToSet(round) \cup {Flow[p]}
    BY <1>1, <1>5, <2>1, ArrivalIs
  <2>4. QueuedIn(after.queues) = QueuedIn(queues) \cup {p}
    BY <1>1, <1>5, <2>1, ArrivalIs
  <2>5. \A f : ListIn(after.queues, f) = ListIn(Pushed(p), f)
    BY <1>1, <1>5, <2>1, ArrivalIs
  <2>6. Starts(p) => /\ after.actual \in ToSet(after.round)
                     /\ LeadAfter(after) \in Leads /\ SelfLeads(LeadAfter(after))
    BY <1>1, <1>5, <2>1, ArrivalIs
  <2>7. /\ length \in Nat /\ Size[p] \in Nat /\ Size[p] > 0 /\ (Starts(p) <=> length = 0)
    BY <1>1, StartsWhenEmpty
  <2>8. QueuedIn(queues) \subseteq Packets
    BY <2>1, QueuedIs DEF Table
  <2>9. length # 0 => after.round = rd /\ after.queues = Pushed(p) /\ after.actual = actual
    BY <2>7 DEF Arrival
  <2>10. ~overflowed /\ length = 0 =>
            /\ FairlyServed(after) /\ after.actual \in ToSet(after.round)
            /\ \A f \in ToSet(after.round) : Exact(after.queues[f])
    BY <1>1, <1>5, StartFair
  <2>11. ~overflowed /\ length # 0 =>
            /\ \A f \in ToSet(rd) \ {actual} : Waiting(Pushed(p)[f])
            /\ actual \in ToSet(rd) /\ Pushed(p)[actual].deficit < Quantum
            /\ Within(rd, Pushed(p), actual, lead)
    BY <1>1, PushFair
  <2> HIDE DEF after
  <2>12. length' = SizesOf(QueuedIn(queues'))
    BY <1>1, <2>1, <2>2, <2>4, <2>8, SizesWith
  <2>13. Leading'
    BY <2>1, <2>2, <2>6 DEF Leading
  <2>14. Events(after) \in Nat
    BY DEF Events
  <2>15. Shapes'
    BY <1>1, <2>1, <2>2, <2>3, <2>12, <2>13, <2>14 DEF Shapes, Tables
  <2>16. ASSUME ~overflowed PROVE Scheduled' /\ Credits'
    <3>1. Scheduled /\ Credits
      BY <1>1, <2>16
    <3>2. \A f \in ToSet(after.round) : Exact(after.queues[f])
      <4>1. CASE length = 0
        BY <2>10, <2>16, <4>1
      <4>2. CASE length # 0
        <5>1. after.round = rd /\ after.queues = Pushed(p)
          BY <2>9, <4>2
        <5>2. Round(rd) /\ ToSet(rd) = ToSet(round) \cup {Flow[p]}
          BY <2>3, <5>1 DEF Tables, Table
        <5> QED BY <1>1, <3>1, <5>1, <5>2, PushedExact
      <4> QED BY <4>1, <4>2
    <3>3. after.actual \in ToSet(after.round)
      BY <2>9, <2>10, <2>11, <2>16
    <3>4. after.actual # NoFlow
      <4>1. ToSet(after.round) \subseteq Flows
        BY <2>3 DEF Tables, Table, Round, ToSet
      <4> QED BY <3>3, <4>1, FlowAssumption
    <3>5. length' # 0 /\ departures' = 1
      <4>1. departures = IF length = 0 THEN 0 ELSE 1
        BY <3>1 DEF Scheduled
      <4>2. Events(after) = 1
        BY <3>4 DEF Events
      <4> QED BY <2>2, <2>7, <4>1, <4>2
    <3>6. Scheduled'
      BY <2>2, <3>1, <3>2, <3>3, <3>5 DEF Scheduled, Exact
    <3>7. /\ \A f \in ToSet(after.round) \ {after.actual} : Waiting(after.queues[f])
          /\ after.queues[after.actual].deficit < Quantum
          /\ Within(after.round, after.queues, after.actual, lead')
      <4>1. CASE length = 0
        BY <2>2, <2>7, <2>10, <2>16, <3>4, <4>1 DEF FairlyServed
      <4>2. CASE length # 0
        BY <2>2, <2>7, <2>9, <2>11, <2>16, <4>2
      <4> QED BY <4>1, <4>2
    <3>8. \A f, g \in Flows : ~({f, g} \subseteq ToSet(round')) => lead'[f][g] = 0
      <4>1. SUFFICES ASSUME NEW f \in Flows, NEW g \in Flows,
                            ~({f, g} \subseteq ToSet(after.round))
                     PROVE  lead'[f][g] = 0
        BY <2>2
      <4>2. CASE length = 0
        <5>1. lead' = LeadAfter(after) /\ DOMAIN after.queues = ToSet(after.round)
          BY <2>2, <2>3, <2>7, <4>2 DEF Tables, Table
        <5> QED BY <4>1, <5>1 DEF LeadAfter
      <4>3. CASE length # 0
        <5>1. lead' = lead /\ ToSet(round) \subseteq ToSet(after.round)
          BY <2>2, <2>3, <2>7, <4>3
        <5> QED BY <3>1, <4>1, <5>1 DEF Credits
      <4> QED BY <4>2, <4>3
    <3>9. Credits'
      BY <2>2, <3>7, <3>8 DEF Credits
    <3> QED BY <3>6, <3>9
  <2> QED BY <1>1, <2>2, <2>5, <2>15, <2>16 DEF IInv
<1> QED BY <1>2, <1>4, <1>5

-----------------------------------------------------------------------------
(* An overflow.                                                            *)

(* The last packets of a list, and the others.                             *)
LEMMA DroppedIs ==
    ASSUME NEW v \in VirtualQueue, NEW f, Filled(f, v), NEW n \in 0..Len(v.list)
    PROVE  /\ Dropped(v, n) \in VirtualQueue /\ Filled(f, Dropped(v, n))
           /\ Dropped(v, n).list = SubSeq(v.list, 1, Len(v.list) - n)
           /\ ToSet(Dropped(v, n).list) = ToSet(v.list) \ ToSet(LastDropped(v, n))
           /\ ToSet(LastDropped(v, n)) \subseteq ToSet(v.list)
<1> DEFINE s == v.list
           m == Len(s) - n
           t == SubSeq(s, 1, m)
           u == SubSeq(s, m + 1, Len(s))
           w == [v EXCEPT !.list = t]
<1>1. /\ s \in Seq(Packets) /\ v.length \in Nat /\ v.deficit \in Nat /\ Len(s) \in Nat
      /\ n \in Nat /\ m \in 0..Len(s) /\ m \in Nat /\ DOMAIN s = 1..Len(s)
  BY DEF VirtualQueue
<1>2. w = Dropped(v, n) /\ u = LastDropped(v, n)
  BY DEF Dropped, LastDropped
<1>3. v.length # 0 /\ SizeOf(s) <= v.length /\ IsInjective(s) /\ \A p \in ToSet(s) : Flow[p] = f
  BY DEF Filled
<1> HIDE DEF s, m
<1>4. /\ t \in Seq(Packets) /\ Len(t) = m /\ \A j \in 1..m : t[j] = s[j]
  <2>1. 1 \in 1..Len(s) + 1 /\ m \in 1 - 1..Len(s)
    BY <1>1
  <2>2. /\ SubSeq(s, 1, m) \in Seq(Packets) /\ Len(SubSeq(s, 1, m)) = m - 1 + 1
        /\ \A j \in 1..m - 1 + 1 : SubSeq(s, 1, m)[j] = s[1 + j - 1]
    BY <1>1, <2>1, Cut
  <2>3. m - 1 + 1 = m /\ \A j \in 1..m : 1 + j - 1 = j
    BY <1>1
  <2> QED BY <2>2, <2>3
<1>5. /\ u \in Seq(Packets) /\ Len(u) = n /\ \A j \in 1..n : u[j] = s[m + j]
  <2>1. m + 1 \in 1..Len(s) + 1 /\ Len(s) \in (m + 1) - 1..Len(s)
    BY <1>1
  <2>2. /\ SubSeq(s, m + 1, Len(s)) \in Seq(Packets)
        /\ Len(SubSeq(s, m + 1, Len(s))) = Len(s) - (m + 1) + 1
        /\ \A j \in 1..Len(s) - (m + 1) + 1 : SubSeq(s, m + 1, Len(s))[j] = s[m + 1 + j - 1]
    BY <1>1, <2>1, Cut
  <2>3. Len(s) - (m + 1) + 1 = n
    BY <1>1 DEF m
  <2>4. \A j \in 1..n : m + 1 + j - 1 = m + j
    BY <1>1
  <2> QED BY <2>2, <2>3, <2>4
<1> HIDE DEF t, u
<1>6. DOMAIN t = 1..m /\ DOMAIN u = 1..n /\ Len(s) = m + n
  BY <1>1, <1>4, <1>5 DEF m
<1>7. IsInjective(t)
  BY <1>1, <1>3, <1>4, <1>6 DEF IsInjective
<1>8. ToSet(t) = {s[j] : j \in 1..m}
  BY <1>4, <1>6 DEF ToSet
<1>9. ToSet(u) = {s[j] : j \in m + 1..Len(s)}
  <2>1. ASSUME NEW x \in ToSet(u) PROVE x \in {s[j] : j \in m + 1..Len(s)}
    <3>1. PICK j \in 1..n : x = s[m + j]
      BY <1>5, <1>6 DEF ToSet
    <3>2. m + j \in m + 1..Len(s)
      BY <1>1, <1>6
    <3> QED BY <3>1, <3>2
  <2>2. ASSUME NEW j \in m + 1..Len(s) PROVE s[j] \in ToSet(u)
    <3>1. j - m \in 1..n /\ m + (j - m) = j
      BY <1>1, <1>6
    <3>2. u[j - m] = s[j]
      BY <1>5, <3>1
    <3> QED BY <1>6, <3>1, <3>2 DEF ToSet
  <2> QED BY <2>1, <2>2
<1>10. ToSet(s) = {s[j] : j \in 1..Len(s)}
  BY <1>1 DEF ToSet
<1>11. ToSet(u) \subseteq ToSet(s) /\ ToSet(t) = ToSet(s) \ ToSet(u)
  <2>1. \A j \in 1..m : j \in 1..Len(s)
    BY <1>1
  <2>2. \A j \in m + 1..Len(s) : j \in 1..Len(s) /\ j \notin 1..m
    BY <1>1
  <2>3. \A j \in 1..Len(s) : j \in 1..m \/ j \in m + 1..Len(s)
    BY <1>1
  <2>4. \A j, k \in 1..Len(s) : s[j] = s[k] => j = k
    BY <1>1, <1>3 DEF IsInjective
  <2>5. ToSet(u) \subseteq ToSet(s)
    BY <1>9, <1>10, <2>2
  <2>6. ASSUME NEW x \in ToSet(t) PROVE x \in ToSet(s) \ ToSet(u)
    <3>1. PICK j \in 1..m : x = s[j]
      BY <1>8
    <3>2. x \notin ToSet(u)
      BY <1>9, <2>1, <2>2, <2>4, <3>1
    <3> QED BY <1>10, <2>1, <3>1, <3>2
  <2>7. ASSUME NEW x \in ToSet(s) \ ToSet(u) PROVE x \in ToSet(t)
    BY <1>8, <1>9, <1>10, <2>3
  <2> QED BY <2>5, <2>6, <2>7
<1>12. SizeOf(t) <= SizeOf(s)
  <2>1. ToSet(s) \subseteq Packets
    BY <1>1 DEF ToSet
  <2>2. ToSet(t) \subseteq ToSet(s)
    BY <1>11
  <2> QED BY <2>1, <2>2, SizesLess DEF SizeOf
<1>13. SizeOf(t) \in Nat /\ SizeOf(s) \in Nat
  <2>1. ToSet(s) \subseteq Packets /\ ToSet(t) \subseteq Packets
    BY <1>1, <1>4 DEF ToSet
  <2> QED BY <2>1, SizesType DEF SizeOf
<1>14. w \in VirtualQueue /\ w.list = t /\ w.length = v.length
  BY <1>1, <1>4 DEF VirtualQueue
<1> HIDE DEF w
<1>15. Filled(f, w)
  <2>1. SizeOf(t) <= v.length
    BY <1>1, <1>3, <1>12, <1>13
  <2> QED BY <1>3, <1>7, <1>11, <1>14, <2>1 DEF Filled
<1> QED BY <1>2, <1>11, <1>14, <1>15 DEF t, m, s

(* The queue q[h] of one flow loses its last n packets.                    *)
Lessened(q, h, n) == [q EXCEPT ![h] = Dropped(q[h], n)]

Loses(q, h, n, w) ==
    /\ QueuedIn(w) = QueuedIn(q) \ ToSet(LastDropped(q[h], n))
    /\ ToSet(LastDropped(q[h], n)) \subseteq QueuedIn(q)
    /\ \A f : f # h => ListIn(w, f) = ListIn(q, f)
    /\ ListIn(w, h) = SubSeq(ListIn(q, h), 1, Len(ListIn(q, h)) - n)

LEMMA LosesIs ==
    ASSUME NEW T, NEW q \in [T -> VirtualQueue], \A f \in T : Filled(f, q[f]),
           NEW h \in T, NEW n \in 1..Len(q[h].list),
           NEW w, w = Lessened(q, h, n)
    PROVE  /\ w \in [T -> VirtualQueue] /\ \A f \in T : Filled(f, w[f])
           /\ Loses(q, h, n, w)
<1> DEFINE d == Dropped(q[h], n)
           L == ToSet(LastDropped(q[h], n))
<1>1. /\ d \in VirtualQueue /\ Filled(h, d)
      /\ d.list = SubSeq(q[h].list, 1, Len(q[h].list) - n)
      /\ ToSet(d.list) = ToSet(q[h].list) \ L /\ L \subseteq ToSet(q[h].list)
  <2>1. q[h] \in VirtualQueue /\ Filled(h, q[h]) /\ n \in 0..Len(q[h].list)
    OBVIOUS
  <2> QED BY <2>1, DroppedIs
<1> HIDE DEF d, L
<1>2. w \in [T -> VirtualQueue] /\ w[h] = d /\ \A f \in T : f # h => w[f] = q[f]
  <2>1. w = [q EXCEPT ![h] = d]
    BY DEF d, Lessened
  <2> QED BY <1>1, <2>1
<1>3. \A f \in T : Filled(f, w[f])
  BY <1>1, <1>2
<1>4. /\ \A x : x \in QueuedIn(q) <=> \E f \in T : x \in ToSet(q[f].list)
      /\ \A x : x \in QueuedIn(w) <=> \E f \in T : x \in ToSet(w[f].list)
  <2>1. \A x : x \in QueuedIn(q) <=> \E f \in T : x \in ToSet(q[f].list)
    BY QueuedIs
  <2>2. \A x : x \in QueuedIn(w) <=> \E f \in T : x \in ToSet(w[f].list)
    <3>1. w \in [T -> VirtualQueue]
      BY <1>2
    <3> QED BY <3>1, QueuedIs, Zenon
  <2> QED BY <2>1, <2>2
<1>5. L \subseteq QueuedIn(q)
  BY <1>1, <1>4
<1>6. ASSUME NEW x \in L, NEW f \in T, x \in ToSet(q[f].list) PROVE f = h
  BY <1>1, <1>6 DEF Filled
<1>7. QueuedIn(w) = QueuedIn(q) \ L
  <2>1. ASSUME NEW x \in QueuedIn(w) PROVE x \in QueuedIn(q) \ L
    <3>1. PICK f \in T : x \in ToSet(w[f].list)
      BY <1>4
    <3> QED BY <1>1, <1>2, <1>4, <1>6, <3>1
  <2>2. ASSUME NEW x \in QueuedIn(q), x \notin L PROVE x \in QueuedIn(w)
    <3>1. PICK f \in T : x \in ToSet(q[f].list)
      BY <1>4
    <3> QED BY <1>1, <1>2, <1>4, <2>2, <3>1
  <2> QED BY <2>1, <2>2
<1>8. /\ \A f : f # h => ListIn(w, f) = ListIn(q, f)
      /\ ListIn(q, h) = q[h].list /\ ListIn(w, h) = d.list
  <2>1. DOMAIN w = T /\ DOMAIN q = T
    BY <1>2
  <2> QED BY <1>2, <2>1 DEF ListIn
<1> QED BY <1>1, <1>2, <1>3, <1>5, <1>7, <1>8 DEF d, L, Loses

LEMMA FullStep ==
    ASSUME IInv, NEW p \in Packets, EnqueueFull(p)
    PROVE  /\ IInv' /\ overflowed'
           /\ \/ UNCHANGED <<round, queues, actual, length, departures, lead>>
              \/ \E h \in Flows, n \in Nat :
                    /\ n >= 1 /\ n <= Len(ListIn(Pushed(p), h))
                    /\ \A f : f # h => ListIn(queues', f) = ListIn(Pushed(p), f)
                    /\ ListIn(queues', h) =
                         SubSeq(ListIn(Pushed(p), h), 1, Len(ListIn(Pushed(p), h)) - n)
<1>1. Shapes /\ overflowed' = TRUE /\ p \notin QueuedIn(queues)
  BY DEF IInv, EnqueueFull
<1>2. CASE Crash
  <2>1. Shapes'
    BY <1>1, <1>2 DEF Crash, Shapes, Leading
  <2> QED BY <1>1, <1>2, <2>1 DEF IInv, Crash
<1>3. ASSUME ~Crash
      PROVE  /\ Shapes'
             /\ \E h \in Flows, n \in Nat :
                    /\ n >= 1 /\ n <= Len(ListIn(Pushed(p), h))
                    /\ \A f : f # h => ListIn(queues', f) = ListIn(Pushed(p), f)
                    /\ ListIn(queues', h) =
                         SubSeq(ListIn(Pushed(p), h), 1, Len(ListIn(Pushed(p), h)) - n)
  <2>1. PICK rd \in Rounds(Flow[p]) :
             /\ ~StartBreaks(p, rd)
             /\ Arrives(p, rd, Arrival(p, rd))
             /\ LET q == Arrival(p, rd).queues
                    v == q[round'[1]]
                IN  \E n \in 1..Len(v.list) :
                      /\ Enough(v, n, length + Size[p])
                      /\ queues' = [q EXCEPT ![round'[1]] = Dropped(v, n)]
                      /\ length' = TotalAfter(v, n, length + Size[p])
             /\ UNCHANGED crashed
    BY <1>3 DEF EnqueueFull
  <2> DEFINE after == Arrival(p, rd)
             q == after.queues
             h == after.round[1]
             T == ToSet(after.round)
  <2>2. /\ Table(round, queues) /\ \A f \in ToSet(round) : Filled(f, queues[f])
        /\ actual \in ToSet(round) \cup {NoFlow} /\ Leading
        /\ length = SizesOf(QueuedIn(queues)) /\ departures \in Nat /\ crashed \in BOOLEAN
    BY <1>1 DEF Shapes
  <2>3. /\ round' = after.round /\ actual' = after.actual
        /\ departures' = departures + (IF Starts(p) THEN Events(after) ELSE 0)
        /\ lead' = (IF Starts(p) THEN LeadAfter(after) ELSE lead)
        /\ crashed' = crashed
    BY <2>1 DEF Arrives
  <2>4. PICK n \in 1..Len(q[h].list) :
             /\ Enough(q[h], n, length + Size[p])
             /\ queues' = [q EXCEPT ![h] = Dropped(q[h], n)]
             /\ length' = TotalAfter(q[h], n, length + Size[p])
    BY <2>1, <2>3
  <2>5. Tables(after) /\ T = ToSet(round) \cup {Flow[p]}
    BY <1>1, <2>1, <2>2, ArrivalIs
  <2>6. QueuedIn(q) = QueuedIn(queues) \cup {p}
    BY <1>1, <2>1, <2>2, ArrivalIs
  <2>7. \A f : ListIn(q, f) = ListIn(Pushed(p), f)
    BY <1>1, <2>1, <2>2, ArrivalIs
  <2>8. Starts(p) => LeadAfter(after) \in Leads /\ SelfLeads(LeadAfter(after))
    BY <1>1, <2>1, <2>2, ArrivalIs
  <2> HIDE DEF after
  <2>9. Table(after.round, q) /\ q \in [T -> VirtualQueue] /\ \A f \in T : Filled(f, q[f])
    BY <2>5 DEF Tables, Table
  <2>10. h \in T /\ h \in Flows
    <3>1. after.round \in Seq(Flows)
      BY <2>9 DEF Table, Round
    <3>2. DOMAIN after.round # {}
      <4>1. T # {}
        BY <2>5
      <4> QED BY <4>1 DEF ToSet
    <3>3. 1 \in DOMAIN after.round
      BY <3>1, <3>2
    <3> QED BY <3>1, <3>3 DEF ToSet
  <2> DEFINE w == queues'
             L == ToSet(LastDropped(q[h], n))
  <2> HIDE DEF T, q, h, w
  <2>15. w = Lessened(q, h, n)
    BY <2>4 DEF w, Lessened
  <2>11. w \in [T -> VirtualQueue] /\ \A f \in T : Filled(f, w[f])
    BY <2>9, <2>10, <2>15, LosesIs
  <2>12. Loses(q, h, n, w)
    <3>1. q \in [T -> VirtualQueue] /\ h \in T /\ n \in 1..Len(q[h].list)
      BY <2>9, <2>10
    <3>2. \A f \in T : Filled(f, q[f])
      BY <2>9
    <3>3. w = Lessened(q, h, n)
      BY <2>15
    <3> QED BY <3>1, <3>2, <3>3, LosesIs, Zenon
  <2>13. QueuedIn(w) = QueuedIn(q) \ L /\ L \subseteq QueuedIn(q)
    BY <2>12 DEF Loses
  <2>14. /\ \A f : f # h => ListIn(w, f) = ListIn(q, f)
         /\ ListIn(w, h) = SubSeq(ListIn(q, h), 1, Len(ListIn(q, h)) - n)
    BY <2>12 DEF Loses
  <2> HIDE DEF L
  <2>16. QueuedIn(q) \subseteq Packets
    BY <2>9, QueuedIs
  <2>17. length + Size[p] = SizesOf(QueuedIn(q))
    <3>1. QueuedIn(queues) \subseteq Packets
      BY <2>6, <2>16
    <3> QED BY <1>1, <2>2, <2>6, <3>1, SizesWith
  <2>18. length' = SizesOf(QueuedIn(w)) /\ length' <= QueueSize
    <3>1. length' = SizesOf(QueuedIn(q)) - SizesOf(L)
      BY <2>4, <2>17 DEF TotalAfter, SizeOf, L
    <3>2. SizesOf(QueuedIn(w)) = SizesOf(QueuedIn(q)) - SizesOf(L)
      BY <2>13, <2>16, SizesLess
    <3>3. length' <= QueueSize
      BY <2>4 DEF TotalAfter, Enough
    <3> QED BY <3>1, <3>2, <3>3
  <2>19. departures' \in Nat
    <3>1. Events(after) \in Nat
      BY DEF Events
    <3> QED BY <2>2, <2>3, <3>1
  <2>20. Leading'
    BY <2>2, <2>3, <2>8 DEF Leading
  <2>21. Table(round', queues')
    BY <2>3, <2>9, <2>11 DEF Table, T, w
  <2>22. Shapes'
    <3>1. ToSet(round') = T
      BY <2>3 DEF T
    <3>2. actual' \in T \cup {NoFlow}
      BY <2>3, <2>5 DEF Tables, T
    <3> QED BY <1>1, <2>2, <2>3, <2>11, <2>18, <2>19, <2>20, <2>21, <3>1, <3>2 DEF Shapes, w
  <2>23. n \in Nat /\ n >= 1 /\ n <= Len(ListIn(q, h))
    <3>1. ListIn(q, h) = q[h].list /\ q[h].list \in Seq(Packets)
      BY <2>9, <2>10 DEF ListIn, VirtualQueue
    <3> QED BY <3>1
  <2> QED BY <2>7, <2>10, <2>14, <2>22, <2>23 DEF w
<1> QED BY <1>1, <1>2, <1>3 DEF IInv

-----------------------------------------------------------------------------
(* A departure.                                                            *)

LEMMA DepartStep ==
    ASSUME IInv, Depart
    PROVE  /\ IInv' /\ overflowed' = overflowed
           /\ \/ UNCHANGED <<round, queues, actual, length, departures, lead>>
              \/ /\ actual \in ToSet(round) /\ queues[actual].list # <<>>
                 /\ \A f : f # actual => ListIn(queues', f) = ListIn(queues, f)
                 /\ ListIn(queues', actual) = Tail(ListIn(queues, actual))
<1> DEFINE none == actual = NoFlow \/ queues[actual].list = <<>>
<1>1. Shapes /\ (~overflowed => Scheduled /\ Credits) /\ overflowed' = overflowed
  BY DEF IInv, Depart
<1>2. ~none => actual \in ToSet(round) /\ queues[actual].list # <<>>
  BY <1>1 DEF Shapes
<1>3. ~overflowed => ~none
  <2>1. SUFFICES ASSUME ~overflowed PROVE ~none
    OBVIOUS
  <2>2. length # 0
    BY <1>1, <2>1 DEF Scheduled, Depart
  <2>3. actual \in ToSet(round)
    BY <1>1, <2>1, <2>2 DEF Scheduled
  <2>4. ToSet(round) \subseteq Flows
    BY <1>1 DEF Shapes, Table, Round, ToSet
  <2>5. queues[actual].list # <<>>
    BY <1>1, <2>1, <2>3 DEF Scheduled
  <2> QED BY <2>3, <2>4, <2>5, FlowAssumption
<1> DEFINE q == [queues EXCEPT ![actual] = Transmitted(queues[actual])]
           order == Order(round, q, actual)
           after == Dequeue(round, q, actual, order)
           h == Head(queues[actual].list)
<1>4. ASSUME ~none
      PROVE  /\ q \in [ToSet(round) -> VirtualQueue] /\ Visitable(round, q, actual)
             /\ \A f \in ToSet(round) : q[f].length # 0 => Filled(f, q[f])
             /\ \A f \in ToSet(round) : f # actual => q[f] = queues[f]
             /\ q[actual].list = Tail(queues[actual].list)
             /\ q[actual].length = queues[actual].length - Size[h]
             /\ q[actual].deficit = queues[actual].deficit
             /\ h \in QueuedIn(queues) /\ QueuedIn(q) = QueuedIn(queues) \ {h}
             /\ \A f : f # actual => ListIn(q, f) = ListIn(queues, f)
             /\ ListIn(queues, actual) = queues[actual].list
             /\ ListIn(q, actual) = Tail(queues[actual].list)
  <2>1. Table(round, queues) /\ \A f \in ToSet(round) : Filled(f, queues[f])
    BY <1>1 DEF Shapes
  <2>2. actual \in ToSet(round) /\ queues[actual].list # <<>>
    BY <1>2, <1>4
  <2> QED BY <2>1, <2>2, TransmitIs
<1>5. ASSUME ~overflowed, ~none
      PROVE  /\ Exact(queues[actual])
             /\ \A f \in ToSet(round) : q[f].list # <<>> => Exact(q[f])
             /\ \A f \in ToSet(round) : q[f].list = <<>> => f = actual /\ q[f].length = 0
  <2>1. \A f \in ToSet(round) : Exact(queues[f])
    BY <1>1, <1>5 DEF Scheduled, Exact
  <2> DEFINE v == queues[actual]
  <2>2. actual \in ToSet(round) /\ Exact(v)
    BY <1>2, <1>5, <2>1
  <2>3. v.list \in Seq(Packets) /\ IsInjective(v.list)
    BY <1>1, <2>2 DEF Shapes, Table, VirtualQueue, Filled
  <2>4. SizeOf(Tail(v.list)) = SizeOf(v.list) - Size[h] /\ ToSet(<<>>) = {}
    BY <2>2, <2>3, TailIs DEF Exact, ToSet
  <2>5. q[actual].list = Tail(v.list) /\ q[actual].length = SizeOf(Tail(v.list))
    BY <1>4, <1>5, <2>2, <2>4 DEF Exact
  <2>6. SizeOf(<<>>) = 0
    BY <2>4, SizesNone DEF SizeOf
  <2>7. \A f \in ToSet(round) : f # actual => q[f] = queues[f]
    BY <1>4, <1>5
  <2> HIDE DEF q
  <2> QED BY <2>1, <2>2, <2>5, <2>6, <2>7 DEF Exact
<1>6. ~overflowed => ~DequeueBreaks(q, actual, order)
  <2>1. SUFFICES ASSUME ~overflowed PROVE ~DequeueBreaks(q, actual, order)
    OBVIOUS
  <2>2. Visitable(round, q, actual)
    BY <1>3, <1>4, <2>1
  <2>3. \A f \in ToSet(round) : q[f].list = <<>> => f = actual /\ q[f].length = 0
    BY <1>3, <1>5, <2>1
  <2> HIDE DEF q
  <2> QED BY <2>2, <2>3, DequeueWorks
<1>7. CASE Crash
  <2>1. Shapes'
    BY <1>1, <1>7 DEF Crash, Shapes, Leading
  <2>2. overflowed'
    <3>1. SUFFICES ASSUME ~overflowed PROVE FALSE
      BY <1>1 DEF Shapes
    <3>2. ~none /\ ~DequeueBreaks(q, actual, order)
      BY <1>3, <1>6, <3>1
    <3>3. crashed' = crashed
      BY <3>2 DEF Depart
    <3> QED BY <1>7, <3>3 DEF Depart, Crash
  <2> QED BY <1>1, <1>7, <2>1, <2>2 DEF IInv, Crash
<1>8. CASE ~Crash
  <2>1. ~none /\ ~DequeueBreaks(q, actual, order)
    BY <1>8 DEF Depart
  <2>2. /\ round' = after.round /\ queues' = after.queues /\ actual' = after.actual
        /\ departures' = departures - 1 + Events(after)
        /\ lead' = LeadAfter(after)
        /\ length' = length - Size[h] /\ crashed' = crashed /\ departures > 0
    BY <1>8, <2>1 DEF Depart
  <2>3. /\ Table(round, queues) /\ Leading /\ lead \in Leads
        /\ length = SizesOf(QueuedIn(queues)) /\ length <= QueueSize
        /\ departures \in Nat /\ crashed \in BOOLEAN /\ overflowed \in BOOLEAN
    BY <1>1 DEF Shapes, Leading
  <2>4. /\ q \in [ToSet(round) -> VirtualQueue] /\ Visitable(round, q, actual)
        /\ \A f \in ToSet(round) : q[f].length # 0 => Filled(f, q[f])
    BY <1>4, <2>1
  <2>5. actual \in ToSet(round) /\ queues[actual].list # <<>>
    BY <1>2, <2>1
  <2>6. \A f \in ToSet(round) : f # actual => q[f] = queues[f]
    BY <1>4, <2>1
  <2>7. q[actual].deficit = queues[actual].deficit
    BY <1>4, <2>1
  <2>8. h \in QueuedIn(queues) /\ QueuedIn(q) = QueuedIn(queues) \ {h}
    BY <1>4, <2>1
  <2>9. /\ \A f : f # actual => ListIn(q, f) = ListIn(queues, f)
        /\ ListIn(q, actual) = Tail(ListIn(queues, actual))
    BY <1>4, <2>1
  <2>10. ~overflowed => /\ \A f \in ToSet(round) : q[f].list # <<>> => Exact(q[f])
                        /\ \A f \in ToSet(round) : q[f].list = <<>> =>
                              f = actual /\ q[f].length = 0
    BY <1>5, <2>1
  <2> HIDE DEF q, h
  <2>11. Dequeued(round, q, actual, after)
    BY <2>1, <2>4, DequeueTypes
  <2>12. ~overflowed => FairlyServed(after)
    <3>1. SUFFICES ASSUME ~overflowed PROVE FairlyServed(after)
      OBVIOUS
    <3>2. Scheduled /\ Credits
      BY <1>1, <3>1
    <3>3. \A f \in ToSet(round) \ {actual} : Waiting(q[f])
      BY <2>6, <3>2 DEF Credits
    <3>4. q[actual].deficit <= Quantum
      <4>1. actual # NoFlow
        <5>1. ToSet(round) \subseteq Flows
          BY <2>3 DEF Table, Round, ToSet
        <5> QED BY <2>5, <5>1, FlowAssumption
      <4>2. q[actual].deficit < Quantum
        BY <2>7, <3>2, <4>1 DEF Credits
      <4>3. q[actual].deficit \in Nat
        BY <2>4, <2>5 DEF VirtualQueue
      <4> QED BY <4>2, <4>3, QueueSizeAssumption, QuantumAssumption
    <3>5. Within(round, q, actual, lead)
      <4>1. \A f \in ToSet(round) : q[f].deficit = queues[f].deficit
        BY <2>6, <2>7
      <4>2. Within(round, queues, actual, lead)
        BY <3>2 DEF Credits
      <4> QED BY <4>1, <4>2 DEF Within
    <3> QED BY <2>1, <2>3, <2>4, <3>3, <3>4, <3>5, DequeueFair
  <2> HIDE DEF after
  <2>13. Tables(after)
    BY <2>3, <2>4, <2>11, DequeuedTables
  <2>14. QueuedIn(after.queues) = QueuedIn(q)
    BY <2>3, <2>4, <2>11, DequeuedTables
  <2>15. \A f : ListIn(after.queues, f) = ListIn(q, f)
    BY <2>3, <2>4, <2>11, DequeuedTables
  <2>16. LeadAfter(after) \in Leads /\ SelfLeads(LeadAfter(after))
    BY <2>3, <2>4, <2>11, DequeuedTables
  <2>17. QueuedIn(queues) \subseteq Packets /\ QueuedIn(q) \subseteq Packets
    BY <2>3, <2>8, QueuedIs DEF Table
  <2>18. /\ length' = SizesOf(QueuedIn(queues')) /\ length' \in Nat /\ length' <= QueueSize
         /\ Size[h] <= length
    <3>1. {h} \subseteq QueuedIn(queues) /\ h \in Packets
      BY <2>8, <2>17
    <3>2. /\ SizesOf(QueuedIn(queues) \ {h}) = SizesOf(QueuedIn(queues)) - SizesOf({h})
          /\ SizesOf({h}) <= SizesOf(QueuedIn(queues))
      BY <2>17, <3>1, SizesLess
    <3>3. SizesOf({h}) = Size[h] /\ Size[h] \in Nat
      BY <3>1, SizesOne
    <3>4. SizesOf(QueuedIn(q)) \in Nat /\ SizesOf(QueuedIn(queues)) \in Nat
      BY <2>17, SizesType
    <3> QED BY <2>2, <2>3, <2>8, <2>14, <3>2, <3>3, <3>4, QueueSizeAssumption, QuantumAssumption
  <2>19. departures' \in Nat
    BY <2>2, <2>3 DEF Events
  <2>20. Leading'
    BY <2>2, <2>16 DEF Leading
  <2>21. Shapes'
    BY <1>1, <2>2, <2>3, <2>13, <2>18, <2>19, <2>20 DEF Shapes, Tables
  <2>22. ASSUME ~overflowed PROVE Scheduled' /\ Credits'
    <3>1. Scheduled /\ Credits /\ FairlyServed(after)
      BY <1>1, <2>12, <2>22
    <3>2. \A f \in ToSet(after.round) : Exact(after.queues[f])
      <4>1. \A f \in ToSet(after.round) : /\ f \in ToSet(round) /\ q[f].length # 0
                                          /\ after.queues[f].list = q[f].list
                                          /\ after.queues[f].length = q[f].length
        BY <2>11 DEF Dequeued
      <4>2. \A f \in ToSet(after.round) : Exact(q[f])
        BY <2>10, <2>22, <4>1
      <4> QED BY <4>1, <4>2 DEF Exact
    <3>3. departures = 1
      BY <2>2, <3>1 DEF Scheduled
    <3>4. ToSet(after.round) \subseteq Flows /\ after.queues \in [ToSet(after.round) -> VirtualQueue]
      BY <2>13 DEF Tables, Table, Round, ToSet
    <3>5. ASSUME after.actual = NoFlow PROVE Scheduled'
      <4>1. after.round = <<>> /\ ToSet(<<>>) = {}
        BY <2>11, <3>5 DEF Dequeued, ToSet
      <4>2. QueuedIn(after.queues) = {}
        BY <3>4, <4>1, QueuedIs
      <4>3. length' = 0
        BY <2>2, <2>18, <4>2, SizesNone
      <4>4. departures' = 0
        BY <2>2, <3>3, <3>5 DEF Events
      <4> QED BY <2>2, <3>1, <4>1, <4>3, <4>4 DEF Scheduled
    <3>6. ASSUME after.actual # NoFlow PROVE Scheduled'
      <4>1. after.actual \in ToSet(after.round)
        BY <2>11, <3>6 DEF Dequeued
      <4>2. length' # 0
        <5>1. after.queues[after.actual].list # <<>> /\ after.queues[after.actual] \in VirtualQueue
          BY <3>2, <3>4, <4>1 DEF Exact
        <5>2. Head(after.queues[after.actual].list) \in ToSet(after.queues[after.actual].list)
          BY <5>1, HeadIs
        <5>3. Head(after.queues[after.actual].list) \in QueuedIn(after.queues)
          BY <3>4, <4>1, <5>2, QueuedIs
        <5>4. SizesOf(QueuedIn(after.queues)) > 0
          BY <2>14, <2>17, <5>3, SizesSome
        <5> QED BY <2>2, <2>18, <5>4
      <4>3. departures' = 1
        BY <2>2, <3>3, <3>6 DEF Events
      <4> QED BY <2>2, <3>1, <3>2, <4>1, <4>2, <4>3 DEF Scheduled, Exact
    <3>7. Scheduled'
      BY <3>5, <3>6
    <3>8. \A f, g \in Flows : ~({f, g} \subseteq ToSet(round')) => lead'[f][g] = 0
      <4>1. DOMAIN after.queues = ToSet(after.round)
        BY <3>4
      <4> QED BY <2>2, <4>1 DEF LeadAfter
    <3>9. Credits'
      BY <2>2, <3>1, <3>8 DEF Credits, FairlyServed
    <3> QED BY <3>7, <3>9
  <2> QED BY <1>1, <2>2, <2>5, <2>9, <2>15, <2>21, <2>22 DEF IInv
<1> QED BY <1>7, <1>8

-----------------------------------------------------------------------------

LEMMA NextInv == IInv /\ [Next]_vars => IInv'
<1> SUFFICES ASSUME IInv, [Next]_vars PROVE IInv'
  OBVIOUS
<1>1. ASSUME UNCHANGED vars PROVE IInv'
  <2>1. Shapes'
    BY <1>1 DEF vars, IInv, Shapes, Leading
  <2>2. ~overflowed' => Scheduled' /\ Credits'
    <3>1. SUFFICES ASSUME ~overflowed' PROVE Scheduled' /\ Credits'
      OBVIOUS
    <3>2. Scheduled /\ Credits
      BY <1>1, <3>1 DEF vars, IInv
    <3>3. Scheduled'
      BY <1>1, <3>2 DEF vars, Scheduled
    <3>4. Credits'
      BY <1>1, <3>2 DEF vars, Credits
    <3> QED BY <3>3, <3>4
  <2> QED BY <2>1, <2>2 DEF IInv
<1>2. ASSUME NEW p \in Packets, Enqueue(p) PROVE IInv'
  BY <1>2, EnqueueStep
<1>3. ASSUME NEW p \in Packets, EnqueueFull(p) PROVE IInv'
  BY <1>3, FullStep
<1>4. ASSUME Depart PROVE IInv'
  BY <1>4, DepartStep
<1> QED BY <1>1, <1>2, <1>3, <1>4 DEF Next

LEMMA Inductive == Spec => []IInv
<1> QED BY InitInv, NextInv, PTL DEF Spec

(* The tables keep their shape in any run: one virtual queue for each flow *)
(* of the round, no length ever below zero or past the size of the queue.  *)
THEOREM TypeCorrect == Spec => []TypeOK
<1>1. IInv => TypeOK
  <2>1. SUFFICES ASSUME IInv PROVE TypeOK
    OBVIOUS
  <2>2. /\ round \in Seq(Flows) /\ IsInjective(round) /\ queues \in [ToSet(round) -> VirtualQueue]
        /\ actual \in ToSet(round) \cup {NoFlow}
        /\ length = SizesOf(QueuedIn(queues)) /\ length <= QueueSize
        /\ departures \in Nat /\ crashed \in BOOLEAN
    BY <2>1 DEF IInv, Shapes, Table, Round
  <2>3. ToSet(round) \subseteq Flows
    BY <2>2 DEF ToSet
  <2>4. length \in Nat
    BY <2>2, QueuedIs, SizesType
  <2>5. length \in 0..QueueSize
    BY <2>2, <2>4, QueueSizeAssumption, QuantumAssumption
  <2>6. \A f \in ToSet(round) : /\ queues[f].list \in Seq(Packets)
                                /\ queues[f].length \in Nat /\ queues[f].deficit \in Nat
    BY <2>2 DEF VirtualQueue
  <2> QED BY <2>2, <2>3, <2>5, <2>6 DEF TypeOK, Present
<1> QED BY <1>1, Inductive, PTL

(* Until the queue overflows, no call of it reads the front of an empty    *)
(* list, the end of the table or a flow that was erased.                   *)
THEOREM CrashesOnlyFull == Spec => []NeverCrashes
<1>1. IInv => NeverCrashes
  BY DEF IInv, Scheduled, NeverCrashes
<1> QED BY <1>1, Inductive, PTL

(* m_length is what is queued, after overflows too; and, until the first   *)
(* of them, one departure is scheduled exactly while packets wait and each *)
(* flow's own length is that of its packets.                               *)
THEOREM LengthsAgree == Spec => []Consistent
<1>1. IInv => Consistent
  BY DEF IInv, Shapes, Scheduled, Consistent, Present
<1> QED BY <1>1, Inductive, PTL

(* Deficit round robin gives a flow all that its deficit counter can pay   *)
(* for before it turns to the next one.                                    *)
THEOREM CreditIsSpent == Spec => []CreditSpent
<1>1. IInv => CreditSpent
  BY DEF IInv, Credits, CreditSpent, Present, Waiting
<1> QED BY <1>1, Inductive, PTL

(* The fairness of DRR, for any sizes, quantum and number of flows: while  *)
(* two flows both have packets, neither is served more than a quantum and  *)
(* two of the largest packets ahead of the other.                          *)
THEOREM ServiceIsFair == Spec => []FairShare
<1>1. IInv => FairShare
  <2>1. SUFFICES ASSUME IInv, ~overflowed, NEW f \in ToSet(round), NEW g \in ToSet(round)
                 PROVE  lead[f][g] < ShareBound
    BY DEF FairShare, Present
  <2>2. Shapes /\ Scheduled /\ Credits
    BY <2>1 DEF IInv
  <2>3. /\ round \in Seq(Flows) /\ IsInjective(round)
        /\ queues \in [ToSet(round) -> VirtualQueue] /\ lead \in Leads /\ SelfLeads(lead)
    BY <2>2 DEF Shapes, Table, Round, Leading
  <2>4. f \in Flows /\ g \in Flows /\ ToSet(round) \subseteq Flows
    BY <2>3 DEF ToSet
  <2>5. \A x \in ToSet(round) : queues[x] \in VirtualQueue /\ queues[x].list # <<>>
    BY <2>2, <2>3 DEF Scheduled
  <2>6. Packets # {} /\ LargestSize \in Nat /\ LargestSize > 0
    BY <2>5, HeadIs, LargestIs
  <2>7. ShareBound = Quantum + 2 * LargestSize /\ Quantum \in Nat /\ Quantum > 0
    <3>1. 0 \in Int
      OBVIOUS
    <3> QED BY <2>6, <3>1, SaturatedIs, QueueSizeAssumption, QuantumAssumption
  <2>8. CASE f = g
    BY <2>3, <2>4, <2>6, <2>7, <2>8 DEF SelfLeads
  <2>9. CASE f # g
    <3> DEFINE df == queues[f].deficit
               dg == queues[g].deficit
    <3>1. lead[f][g] + df - dg < LargestSize + IF Before(round, actual, g, f) THEN Quantum ELSE 0
      BY <2>2, <2>9 DEF Credits, Within
    <3>2. df \in Nat /\ dg \in Nat /\ lead[f][g] \in Int
      BY <2>3, <2>4, <2>5 DEF VirtualQueue, Leads
    <3> HIDE DEF df
    <3>3. CASE g = actual
      <4>1. ~Before(round, actual, g, f)
        <5>1. Place(round, f) \in DOMAIN round /\ Place(round, g) \in DOMAIN round
          BY <2>3, PlaceIs
        <5>2. Place(round, f) \in Nat /\ Place(round, g) \in Nat
          BY <2>3, <5>1
        <5> QED BY <3>3, <5>2 DEF Before
      <4>2. dg < Quantum
        <5>1. actual # NoFlow
          BY <2>4, <3>3, FlowAssumption
        <5> QED BY <2>2, <3>3, <5>1 DEF Credits
      <4> HIDE DEF dg
      <4> QED BY <2>6, <2>7, <3>1, <3>2, <4>1, <4>2
    <3>4. CASE g # actual
      <4>1. Waiting(queues[g])
        BY <2>2, <3>4 DEF Credits
      <4>2. Size[Head(queues[g].list)] \in Nat /\ Size[Head(queues[g].list)] <= LargestSize
        BY <2>5, HeadIs
      <4>3. dg < LargestSize
        BY <2>6, <3>2, <4>1, <4>2 DEF Waiting
      <4> HIDE DEF dg
      <4> QED BY <2>6, <2>7, <3>1, <3>2, <4>3
    <3> QED BY <3>3, <3>4
  <2> QED BY <2>8, <2>9
<1> QED BY <1>1, Inductive, PTL

-----------------------------------------------------------------------------
(* Every step is one of a channel per flow.                                *)

LEMMA ListsAre ==
    /\ Lists = [f \in Flows |-> ListIn(queues, f)]
    /\ Lists' = [f \in Flows |-> ListIn(queues', f)]
<1>1. NewQueue.list = <<>>
  BY DEF NewQueue
<1>2. \A f : QueueOf(f).list = ListIn(queues, f)
  BY <1>1 DEF QueueOf, ListIn
<1>3. \A f : QueueOf(f)'.list = ListIn(queues', f)
  BY <1>1 DEF QueueOf, ListIn
<1> QED BY <1>2, <1>3 DEF Lists

LEMMA ListsTypes ==
    ASSUME Shapes
    PROVE  /\ Lists \in [Flows -> Seq(Packets)]
           /\ \A p \in Packets : p \notin QueuedIn(queues) =>
                 \A f \in Flows : \A i \in DOMAIN Lists[f] : Lists[f][i] # p
<1>1. queues \in [ToSet(round) -> VirtualQueue] /\ DOMAIN queues = ToSet(round)
  BY DEF Shapes, Table
<1>2. \A f \in ToSet(round) : queues[f].list \in Seq(Packets)
  BY <1>1, QueuedIs
<1>3. \A f : ListIn(queues, f) \in Seq(Packets)
  BY <1>1, <1>2 DEF ListIn
<1>4. Lists \in [Flows -> Seq(Packets)]
  BY <1>3, ListsAre
<1>5. ASSUME NEW p \in Packets, p \notin QueuedIn(queues), NEW f \in Flows,
             NEW i \in DOMAIN Lists[f], Lists[f][i] = p
      PROVE  FALSE
  <2>1. Lists[f] = ListIn(queues, f)
    BY ListsAre
  <2>2. f \in ToSet(round)
    BY <1>1, <1>5, <2>1 DEF ListIn
  <2>3. p \in ToSet(queues[f].list)
    BY <1>1, <1>5, <2>1, <2>2 DEF ListIn, ToSet
  <2> QED BY <1>1, <1>5, <2>2, <2>3, QueuedIs
<1> QED BY <1>4, <1>5

LEMMA PushedLists ==
    ASSUME Shapes, NEW p \in Packets
    PROVE  \A f : ListIn(Pushed(p), f) = IF f = Flow[p] THEN Append(ListIn(queues, f), p)
                                         ELSE ListIn(queues, f)
<1> DEFINE F == Flow[p]
<1>1. DOMAIN Pushed(p) = DOMAIN queues \cup {F}
  BY DEF Pushed
<1>2. \A f \in DOMAIN queues : f # F => Pushed(p)[f] = queues[f]
  BY DEF Pushed
<1>3. Pushed(p)[F] = Push(QueueOf(F), p)
  BY DEF Pushed
<1>4. QueueOf(F) \in VirtualQueue /\ QueueOf(F).list = ListIn(queues, F)
  <2>1. queues \in [ToSet(round) -> VirtualQueue]
    BY DEF Shapes, Table
  <2>2. NewQueue \in VirtualQueue /\ NewQueue.list = <<>>
    BY DEF NewQueue, VirtualQueue
  <2> QED BY <2>1, <2>2 DEF QueueOf, ListIn
<1>5. Push(QueueOf(F), p).list = Append(ListIn(queues, F), p)
  BY <1>4, PushIs
<1> QED BY <1>1, <1>2, <1>3, <1>5 DEF ListIn

(* A packet goes in, and n packets of flow h are lost.                     *)
LEMMA SendsIs ==
    ASSUME Shapes, NEW p \in Packets, p \notin QueuedIn(queues),
           NEW h \in Flows, NEW n \in Nat, n <= Len(ListIn(Pushed(p), h)),
           \A f : f # h => ListIn(queues', f) = ListIn(Pushed(p), f),
           ListIn(queues', h) = SubSeq(ListIn(Pushed(p), h), 1, Len(ListIn(Pushed(p), h)) - n)
    PROVE  LossyChannel!Send(p) /\ (n = 0 => Channel!Send(p))
<1> DEFINE F == Flow[p]
           accepted == [Lists EXCEPT ![F] = Append(Lists[F], p)]
<1>1. Lists \in [Flows -> Seq(Packets)] /\ F \in Flows
  BY ListsTypes, FlowAssumption
<1>2. \A f \in Flows : Lists[f] = ListIn(queues, f) /\ Lists'[f] = ListIn(queues', f)
  BY ListsAre
<1>3. DOMAIN Lists' = Flows /\ Lists' = [f \in Flows |-> Lists'[f]]
  BY ListsAre
<1>4. \A f \in Flows : accepted[f] = ListIn(Pushed(p), f)
  BY <1>1, <1>2, PushedLists
<1>5. accepted \in [Flows -> Seq(Packets)]
  BY <1>1
<1>6. Len(accepted[h]) <= Len(Lists[h]) + 1
  BY <1>1
<1> DEFINE less == [accepted EXCEPT ![h] = SubSeq(accepted[h], 1, Len(accepted[h]) - n)]
<1> HIDE DEF accepted
<1>7. \A f \in Flows : Lists'[f] = less[f]
  BY <1>2, <1>4, <1>5
<1>8. Lists' = less
  BY <1>3, <1>5, <1>7
<1>9. n \in 0..Len(Lists[h]) + 1
  <2>1. n <= Len(accepted[h])
    BY <1>4
  <2>2. Len(Lists[h]) \in Nat /\ Len(accepted[h]) \in Nat
    BY <1>1, <1>5
  <2> QED BY <1>6, <2>1, <2>2
<1>10. p \notin UNION {{Lists[f][i] : i \in DOMAIN Lists[f]} : f \in Flows}
  BY ListsTypes
<1> HIDE DEF less
<1>11. LossyChannel!Send(p)
  <2>1. p \notin LossyChannel!OnTheWay
    BY <1>10 DEF LossyChannel!OnTheWay
  <2>2. n \in LossyChannel!Cuttable(h)
    BY <1>9 DEF LossyChannel!Cuttable
  <2>3. LossyChannel!Accepted(p) = accepted
    BY DEF LossyChannel!Accepted, accepted
  <2>4. Lists' = [LossyChannel!Accepted(p) EXCEPT ![h] = SubSeq(@, 1, Len(@) - n)]
    BY <1>8, <2>3 DEF less
  <2> QED BY <2>1, <2>2, <2>4, Zenon DEF LossyChannel!Send
<1>12. ASSUME n = 0 PROVE Channel!Send(p)
  <2>1. p \notin Channel!OnTheWay
    BY <1>10 DEF Channel!OnTheWay
  <2>2. n \in Channel!Cuttable(h)
    BY <1>12 DEF Channel!Cuttable
  <2>3. Channel!Accepted(p) = accepted
    BY DEF Channel!Accepted, accepted
  <2>4. Lists' = [Channel!Accepted(p) EXCEPT ![h] = SubSeq(@, 1, Len(@) - n)]
    BY <1>8, <2>3 DEF less
  <2> QED BY <2>1, <2>2, <2>4, Zenon DEF Channel!Send
<1> QED BY <1>11, <1>12

LEMMA ReceivesIs ==
    ASSUME Shapes, actual \in ToSet(round), queues[actual].list # <<>>,
           \A f : f # actual => ListIn(queues', f) = ListIn(queues, f),
           ListIn(queues', actual) = Tail(ListIn(queues, actual))
    PROVE  LossyChannel!Receive(actual) /\ Channel!Receive(actual) /\ actual \in Flows
<1>1. actual \in Flows /\ DOMAIN queues = ToSet(round)
  BY DEF Shapes, Table, Round, ToSet
<1>2. \A f \in Flows : Lists[f] = ListIn(queues, f) /\ Lists'[f] = ListIn(queues', f)
  BY ListsAre
<1>3. Lists \in [Flows -> Seq(Packets)] /\ Lists' = [f \in Flows |-> Lists'[f]]
  BY ListsTypes, ListsAre
<1>4. Lists[actual] # <<>>
  BY <1>1, <1>2 DEF ListIn
<1> DEFINE less == [Lists EXCEPT ![actual] = Tail(Lists[actual])]
<1>5. \A f \in Flows : Lists'[f] = less[f]
  BY <1>1, <1>2, <1>3
<1>6. Lists' = less
  BY <1>1, <1>3, <1>5
<1> QED BY <1>1, <1>4, <1>6 DEF LossyChannel!Receive, Channel!Receive

LEMMA EnqueueSends ==
    ASSUME IInv, NEW p \in Packets, Enqueue(p)
    PROVE  UNCHANGED Lists \/ (LossyChannel!Send(p) /\ Channel!Send(p))
<1>1. Shapes /\ p \notin QueuedIn(queues)
  BY DEF IInv, Enqueue
<1>2. CASE queues' = queues
  BY <1>2, ListsAre
<1>3. CASE \A f : ListIn(queues', f) = ListIn(Pushed(p), f)
  <2>1. Flow[p] \in Flows /\ 0 \in Nat
    BY FlowAssumption
  <2> DEFINE s == ListIn(Pushed(p), Flow[p])
  <2>2. s \in Seq(Packets)
    <3>1. Lists[Flow[p]] = ListIn(queues, Flow[p]) /\ Lists[Flow[p]] \in Seq(Packets)
      BY <1>1, <2>1, ListsAre, ListsTypes
    <3> QED BY <1>1, <3>1, PushedLists
  <2>3. ListIn(queues', Flow[p]) = s
    BY <1>3
  <2> HIDE DEF s
  <2>4. 0 <= Len(s) /\ s = SubSeq(s, 1, Len(s) - 0)
    BY <2>2
  <2>5. /\ 0 <= Len(ListIn(Pushed(p), Flow[p]))
        /\ ListIn(queues', Flow[p]) =
             SubSeq(ListIn(Pushed(p), Flow[p]), 1, Len(ListIn(Pushed(p), Flow[p])) - 0)
    BY <2>3, <2>4 DEF s
  <2> QED BY <1>1, <1>3, <2>1, <2>5, SendsIs
<1> QED BY <1>2, <1>3, EnqueueStep

LEMMA FullSends ==
    ASSUME IInv, NEW p \in Packets, EnqueueFull(p)
    PROVE  UNCHANGED Lists \/ LossyChannel!Send(p)
<1>1. Shapes /\ p \notin QueuedIn(queues)
  BY DEF IInv, EnqueueFull
<1>2. CASE queues' = queues
  BY <1>2, ListsAre
<1>3. ASSUME NEW h \in Flows, NEW n \in Nat,
             n >= 1 /\ n <= Len(ListIn(Pushed(p), h)),
             \A f : f # h => ListIn(queues', f) = ListIn(Pushed(p), f),
             ListIn(queues', h) = SubSeq(ListIn(Pushed(p), h), 1, Len(ListIn(Pushed(p), h)) - n)
      PROVE  LossyChannel!Send(p)
  BY <1>1, <1>3, SendsIs
<1> QED BY <1>2, <1>3, FullStep

LEMMA DepartReceives ==
    ASSUME IInv, Depart
    PROVE  UNCHANGED Lists \/ \E f \in Flows : LossyChannel!Receive(f) /\ Channel!Receive(f)
<1>1. Shapes
  BY DEF IInv
<1>2. CASE queues' = queues
  BY <1>2, ListsAre
<1>3. CASE /\ actual \in ToSet(round) /\ queues[actual].list # <<>>
           /\ \A f : f # actual => ListIn(queues', f) = ListIn(queues, f)
           /\ ListIn(queues', actual) = Tail(ListIn(queues, actual))
  BY <1>1, <1>3, ReceivesIs
<1> QED BY <1>2, <1>3, DepartStep

(* To the packets of each flow the queue is a channel that keeps their     *)
(* order and loses none, until it overflows; then it loses packets from    *)
(* the tail of a flow and from nowhere else.                               *)
THEOREM Refinement == Spec => ImplementsChannel
<1>1. Init => LossyChannel!Init
  <2>1. SUFFICES ASSUME Init PROVE LossyChannel!Init
    OBVIOUS
  <2>2. \A f : ListIn(queues, f) = <<>>
    BY <2>1 DEF Init, NoQueues, ListIn
  <2> QED BY <2>2, ListsAre DEF LossyChannel!Init
<1>2. ASSUME IInv, [Next]_vars PROVE [LossyChannel!Next]_Lists
  <2>1. ASSUME NEW p \in Packets, Enqueue(p) PROVE [LossyChannel!Next]_Lists
    BY <1>2, <2>1, EnqueueSends DEF LossyChannel!Next
  <2>2. ASSUME NEW p \in Packets, EnqueueFull(p) PROVE [LossyChannel!Next]_Lists
    BY <1>2, <2>2, FullSends DEF LossyChannel!Next
  <2>3. ASSUME Depart PROVE [LossyChannel!Next]_Lists
    BY <1>2, <2>3, DepartReceives DEF LossyChannel!Next
  <2>4. ASSUME UNCHANGED vars PROVE UNCHANGED Lists
    BY <2>4, ListsAre DEF vars
  <2> QED BY <1>2, <2>1, <2>2, <2>3, <2>4 DEF Next
<1>3. ASSUME IInv, [Next]_vars PROVE [overflowed' \/ Channel!Next]_Lists
  <2>1. ASSUME NEW p \in Packets, Enqueue(p) PROVE [overflowed' \/ Channel!Next]_Lists
    BY <1>3, <2>1, EnqueueSends DEF Channel!Next
  <2>2. ASSUME NEW p \in Packets, EnqueueFull(p) PROVE overflowed'
    BY <2>2 DEF EnqueueFull
  <2>3. ASSUME Depart PROVE [overflowed' \/ Channel!Next]_Lists
    BY <1>3, <2>3, DepartReceives DEF Channel!Next
  <2>4. ASSUME UNCHANGED vars PROVE UNCHANGED Lists
    BY <2>4, ListsAre DEF vars
  <2> QED BY <1>3, <2>1, <2>2, <2>3, <2>4 DEF Next
<1> QED BY <1>1, <1>2, <1>3, Inductive, PTL DEF Spec, ImplementsChannel, LossyChannel!Safety

-----------------------------------------------------------------------------
(* The FIFO queue and its link.                                            *)

(* The code tests for an empty queue by comparing lengths, so that one     *)
(* departure is scheduled rests on the length being exact.                 *)
FIFOInv == FIFOTypeOK /\ LengthExact /\ OneDeparture

-----------------------------------------------------------------------------

(* An exact length is zero only when nothing is queued.                    *)
LEMMA FIFOEmptyByLength ==
    ASSUME FIFOTypeOK, LengthExact
    PROVE  length = 0 <=> list = <<>>
<1>1. PICK ahead \in [1..Len(list) + 1 -> 0..length] : Tallies(ahead, list, length)
  BY DEF LengthExact
<1>2. CASE list = <<>>
  BY <1>1, <1>2 DEF Tallies
<1>3. CASE list # <<>>
  <2>1. Len(list) \in Nat \ {0} /\ list[1] \in Packets
    BY <1>3 DEF FIFOTypeOK
  <2>2. ahead[2] = ahead[1] + Size[list[1]]
    BY <1>1, <2>1 DEF Tallies
  <2>3. ahead[2] \in 0..length
    BY <1>1, <2>1
  <2>. QED
    BY <1>1, <1>3, <2>1, <2>2, <2>3, SizeAssumption DEF Tallies, FIFOTypeOK
<1>. QED
  BY <1>2, <1>3

(* Pushing a packet adds its size to the tally.                            *)
LEMMA FIFOPushTallies ==
    ASSUME NEW s \in Seq(Packets), NEW total \in Nat, NEW p \in Packets,
           NEW ahead, Tallies(ahead, s, total)
    PROVE  \E more \in [1..Len(Append(s, p)) + 1 -> 0..total + Size[p]] :
              Tallies(more, Append(s, p), total + Size[p])
<1>. DEFINE n == Len(s)
            t == Append(s, p)
            more == [i \in 1..n + 2 |-> IF i = n + 2 THEN total + Size[p] ELSE ahead[i]]
<1>1. n \in Nat /\ Len(t) = n + 1 /\ Size[p] \in Nat \ {0}
  BY SizeAssumption
<1>2. \A i \in 1..n : t[i] = s[i]
  OBVIOUS
<1>3. t[n + 1] = p
  OBVIOUS
<1>4. \A i \in 1..n + 1 : ahead[i] \in 0..total
  BY <1>1 DEF Tallies
<1>5. more \in [1..Len(t) + 1 -> 0..total + Size[p]]
  BY <1>1, <1>4
<1>6. more[1] = 0 /\ more[Len(t) + 1] = total + Size[p]
  BY <1>1 DEF Tallies
<1>7. \A i \in 1..Len(t) : more[i + 1] = more[i] + Size[t[i]]
  <2>. SUFFICES ASSUME NEW i \in 1..n + 1 PROVE more[i + 1] = more[i] + Size[t[i]]
    BY <1>1
  <2>1. CASE i = n + 1
    BY <1>1, <1>3, <2>1 DEF Tallies
  <2>2. CASE i # n + 1
    <3>1. i \in 1..n /\ i + 1 # n + 2 /\ i + 1 \in 1..n + 2 /\ i \in 1..n + 2 /\ i # n + 2
      BY <1>1, <2>2
    <3>2. ahead[i + 1] = ahead[i] + Size[s[i]]
      BY <3>1 DEF Tallies
    <3>. QED
      BY <1>2, <3>1, <3>2
  <2>. QED
    BY <2>1, <2>2
<1>8. \A i, j \in 1..Len(t) + 1 : i <= j => more[i] <= more[j]
  <2>. SUFFICES ASSUME NEW i \in 1..n + 2, NEW j \in 1..n + 2, i <= j
                PROVE  more[i] <= more[j]
    BY <1>1
  <2>1. CASE j = n + 2
    BY <1>1, <1>4, <2>1
  <2>2. CASE j # n + 2
    BY <1>1, <2>2 DEF Tallies
  <2>. QED
    BY <2>1, <2>2
<1>. QED
  BY <1>5, <1>6, <1>7, <1>8 DEF Tallies

(* Taking the head out subtracts its size from what follows it.            *)
LEMMA FIFOTailTallies ==
    ASSUME NEW s \in Seq(Packets), NEW total \in Nat, s # <<>>,
           NEW ahead, Tallies(ahead, s, total)
    PROVE  /\ total - Size[Head(s)] \in Nat
           /\ \E less \in [1..Len(Tail(s)) + 1 -> 0..total - Size[Head(s)]] :
                 Tallies(less, Tail(s), total - Size[Head(s)])
<1>. DEFINE n == Len(s)
            t == Tail(s)
            z == Size[Head(s)]
            less == [i \in 1..n |-> ahead[i + 1] - z]
<1>1. n \in Nat \ {0} /\ Len(t) = n - 1 /\ z \in Nat \ {0} /\ Head(s) = s[1]
  BY SizeAssumption
<1>2. \A i \in 1..n - 1 : t[i] = s[i + 1] /\ s[i + 1] \in Packets
  OBVIOUS
<1>3. ahead[2] = z
  <2>1. ahead[2] = ahead[1] + Size[s[1]]
    BY <1>1 DEF Tallies
  <2>. QED
    BY <1>1, <2>1 DEF Tallies
<1>4. \A i \in 1..n : ahead[i + 1] \in z..total
  <2>. SUFFICES ASSUME NEW i \in 1..n PROVE ahead[i + 1] \in z..total
    OBVIOUS
  <2>1. i + 1 \in 1..n + 1 /\ 2 \in 1..n + 1 /\ 2 <= i + 1
    BY <1>1
  <2>2. ahead[2] <= ahead[i + 1] /\ ahead[i + 1] \in 0..total
    BY <2>1 DEF Tallies
  <2>. QED
    BY <1>1, <1>3, <2>2
<1>5. total - z \in Nat
  BY <1>1, <1>4
<1>6. less \in [1..Len(t) + 1 -> 0..total - z]
  BY <1>1, <1>4, <1>5
<1>7. less[1] = 0 /\ less[Len(t) + 1] = total - z
  BY <1>1, <1>3 DEF Tallies
<1>8. \A i \in 1..Len(t) : less[i + 1] = less[i] + Size[t[i]]
  <2>. SUFFICES ASSUME NEW i \in 1..n - 1 PROVE less[i + 1] = less[i] + Size[t[i]]
    BY <1>1
  <2>1. i \in 1..n /\ i + 1 \in 1..n
    BY <1>1
  <2>2. ahead[i + 2] = ahead[i + 1] + Size[s[i + 1]]
    BY <1>1, <2>1 DEF Tallies
  <2>3. ahead[i + 1] \in Nat /\ Size[t[i]] \in Nat
    BY <1>2, <1>4, <1>1, <2>1, SizeAssumption
  <2>. QED
    BY <1>1, <1>2, <2>1, <2>2, <2>3
<1>9. \A i, j \in 1..Len(t) + 1 : i <= j => less[i] <= less[j]
  <2>. SUFFICES ASSUME NEW i \in 1..n, NEW j \in 1..n, i <= j PROVE less[i] <= less[j]
    BY <1>1
  <2>1. ahead[i + 1] <= ahead[j + 1]
    BY <1>1 DEF Tallies
  <2>. QED
    BY <1>1, <1>4, <2>1
<1>. QED
  BY <1>5, <1>6, <1>7, <1>8, <1>9 DEF Tallies

-----------------------------------------------------------------------------

LEMMA FIFOInitInv == FIFOInit => FIFOInv
<1>. SUFFICES ASSUME FIFOInit PROVE FIFOInv
  OBVIOUS
<1>1. FIFOTypeOK /\ OneDeparture
  BY QueueSizeAssumption DEF FIFOInit, FIFOTypeOK, OneDeparture
<1>2. LengthExact
  <2>. DEFINE none == [i \in 1..1 |-> 0]
  <2>1. Len(list) + 1 = 1 /\ length = 0
    BY DEF FIFOInit
  <2>2. none \in [1..Len(list) + 1 -> 0..length] /\ none[1] = 0
    BY <2>1
  <2>3. Tallies(none, list, length)
    BY <2>1, <2>2 DEF Tallies
  <2>. QED
    BY <2>2, <2>3 DEF LengthExact
<1>. QED
  BY <1>1, <1>2 DEF FIFOInv

(* The arrival of a packet: it starts the service exactly if it is alone.  *)
LEMMA FIFOAcceptInv ==
    ASSUME FIFOInv, NEW p \in Packets, Accept(p)
    PROVE  FIFOInv'
<1>. USE DEF FIFOInv, PushBack
<1>1. Size[p] \in Nat \ {0} /\ length \in Nat /\ list \in Seq(Packets)
  BY SizeAssumption DEF FIFOTypeOK
<1>2. FIFOTypeOK'
  BY <1>1, QueueSizeAssumption DEF Accept, FIFOTypeOK, Room
<1>3. LengthExact'
  <2>1. PICK ahead \in [1..Len(list) + 1 -> 0..length] : Tallies(ahead, list, length)
    BY DEF LengthExact
  <2>. QED
    BY <1>1, <2>1, FIFOPushTallies DEF Accept, LengthExact
<1>4. OneDeparture'
  <2>1. list' # <<>>
    BY <1>1 DEF Accept
  <2>2. StartsService(p) <=> list = <<>>
    BY <1>1, FIFOEmptyByLength DEF StartsService
  <2>. QED
    BY <2>1, <2>2 DEF Accept, OneDeparture
<1>. QED
  BY <1>2, <1>3, <1>4

(* A departure: the next one is scheduled exactly if something is left.    *)
LEMMA FIFOTransmitInv ==
    ASSUME FIFOInv, Transmit
    PROVE  FIFOInv' /\ list # <<>>
<1>. USE DEF FIFOInv
<1>1. list # <<>> /\ list \in Seq(Packets) /\ length \in Nat
  BY DEF Transmit, OneDeparture, FIFOTypeOK
<1>2. PICK ahead \in [1..Len(list) + 1 -> 0..length] : Tallies(ahead, list, length)
  BY DEF LengthExact
<1>3. /\ length' \in Nat
      /\ \E less \in [1..Len(list') + 1 -> 0..length'] : Tallies(less, list', length')
  BY <1>1, <1>2, FIFOTailTallies DEF Transmit, LengthWithout
<1>4. Size[Head(list)] \in Nat
  BY <1>1, SizeAssumption
<1>5. OneDeparture'
  BY <1>1 DEF OneDeparture, Transmit
<1>6. FIFOTypeOK'
  <2>1. list' \in Seq(Packets) /\ link' \in Seq(Packets)
    BY <1>1 DEF FIFOTypeOK, Transmit
  <2>2. length' \in 0..QueueSize
    BY <1>3, <1>4, QueueSizeAssumption DEF FIFOTypeOK, Transmit, LengthWithout
  <2>3. departures' \in Nat
    BY <1>5 DEF OneDeparture
  <2>. QED
    BY <2>1, <2>2, <2>3 DEF FIFOTypeOK
<1>7. LengthExact'
  BY <1>3 DEF LengthExact
<1>. QED
  BY <1>1, <1>5, <1>6, <1>7

LEMMA FIFODeliverInv ==
    ASSUME FIFOInv, Deliver
    PROVE  FIFOInv'
<1>1. list' = list /\ length' = length /\ departures' = departures
  BY DEF Deliver
<1>2. LengthExact' /\ OneDeparture'
  BY <1>1 DEF FIFOInv, LengthExact, OneDeparture, Tallies
<1>3. FIFOTypeOK'
  BY <1>1 DEF FIFOInv, Deliver, FIFOTypeOK
<1>. QED
  BY <1>2, <1>3 DEF FIFOInv

LEMMA FIFONextInv == FIFOInv /\ [FIFONext]_FIFOVars => FIFOInv'
<1>. SUFFICES ASSUME FIFOInv, [FIFONext]_FIFOVars PROVE FIFOInv'
  OBVIOUS
<1>1. ASSUME UNCHANGED FIFOVars PROVE FIFOInv'
  BY <1>1 DEF FIFOInv, FIFOVars, FIFOTypeOK, LengthExact, OneDeparture, Tallies
<1>2. ASSUME NEW p \in Packets, Drop(p) PROVE FIFOInv'
  BY <1>1, <1>2 DEF Drop
<1>. QED
  BY <1>1, <1>2, FIFOAcceptInv, FIFOTransmitInv, FIFODeliverInv DEF FIFONext

LEMMA FIFOInductive == FIFOSpec => []FIFOInv
<1>. QED
  BY FIFOInitInv, FIFONextInv, PTL DEF FIFOSpec

-----------------------------------------------------------------------------

(* The queue never grows past its size, in any run.                        *)
THEOREM FIFOTypeCorrect == FIFOSpec => []FIFOTypeOK
<1>1. FIFOInv => FIFOTypeOK
  BY DEF FIFOInv
<1>. QED
  BY <1>1, FIFOInductive, PTL

(* m_length is what is queued, so a packet is dropped only if it does not  *)
(* fit behind what is really there; and one departure event is scheduled   *)
(* while packets wait, and none else.                                      *)
THEOREM FIFOServiceRuns == FIFOSpec => []ServiceConsistent
<1>1. FIFOInv => ServiceConsistent
  BY DEF FIFOInv, ServiceConsistent
<1>. QED
  BY <1>1, FIFOInductive, PTL

-----------------------------------------------------------------------------

(* Queue and link seen as one sequence: a transmission only moves the      *)
(* boundary between them.                                                  *)
LEMMA FIFOTransmitMovesBoundary ==
    ASSUME NEW s \in Seq(Packets), NEW t \in Seq(Packets), t # <<>>
    PROVE  Append(s, Head(t)) \o Tail(t) = s \o t
<1>. DEFINE a == Append(s, Head(t)) \o Tail(t)
            b == s \o t
<1>1. a \in Seq(Packets) /\ b \in Seq(Packets) /\ Len(a) = Len(b)
  OBVIOUS
<1>2. ASSUME NEW i \in 1..Len(b) PROVE a[i] = b[i]
  <2>1. CASE i <= Len(s)
    BY <2>1
  <2>2. CASE i = Len(s) + 1
    BY <2>2
  <2>3. CASE i > Len(s) + 1
    BY <2>3
  <2>. QED
    BY <2>1, <2>2, <2>3
<1>. QED
  BY <1>1, <1>2

LEMMA FIFOHeadLeaves ==
    ASSUME NEW s \in Seq(Packets), NEW t \in Seq(Packets), s # <<>>
    PROVE  s \o t # <<>> /\ Tail(s) \o t = Tail(s \o t)
<1>. DEFINE a == Tail(s) \o t
            b == Tail(s \o t)
<1>1. s \o t # <<>> /\ a \in Seq(Packets) /\ b \in Seq(Packets) /\ Len(a) = Len(b)
  OBVIOUS
<1>2. ASSUME NEW i \in 1..Len(b) PROVE a[i] = b[i]
  <2>1. CASE i <= Len(s) - 1
    BY <2>1
  <2>2. CASE i > Len(s) - 1
    BY <2>2
  <2>. QED
    BY <2>1, <2>2
<1>. QED
  BY <1>1, <1>2

LEMMA FIFOAcceptSends ==
    ASSUME FIFOTypeOK, NEW p \in Packets, Accept(p)
    PROVE  FIFOChannel!Send(p)
<1>. DEFINE way == link \o list
<1>1. link \in Seq(Packets) /\ list \in Seq(Packets) /\ way \in Seq(Packets)
  BY DEF FIFOTypeOK
<1>2. link' \o list' = Append(way, p)
  <2>1. link' \o list' = link \o Append(list, p)
    BY DEF Accept, PushBack
  <2>. QED
    BY <1>1, <2>1
<1>3. p \notin {way[i] : i \in DOMAIN way}
  <2>. SUFFICES ASSUME NEW i \in 1..Len(way) PROVE way[i] # p
    BY <1>1
  <2>1. CASE i <= Len(link)
    BY <1>1, <2>1 DEF Accept, Elements
  <2>2. CASE i > Len(link)
    <3>1. i - Len(link) \in DOMAIN list /\ way[i] = list[i - Len(link)]
      BY <1>1, <2>2
    <3>. QED
      BY <3>1 DEF Accept, Elements
  <2>. QED
    BY <1>1, <2>1, <2>2
<1>4. Append(way, p) = SubSeq(Append(way, p), 1, Len(Append(way, p)) - 0)
  BY <1>1
<1>. QED
  BY <1>2, <1>3, <1>4 DEF FIFOChannel!Send, FIFOChannel!Accepted, FIFOChannel!Cuttable, FIFOChannel!OnTheWay

(* Every step of queue and link is a step of one loss-free, order-keeping  *)
(* channel, or invisible to the packets.                                   *)
THEOREM FIFORefinement == FIFOSpec => ImplementsFIFOChannel
<1>. DEFINE way == link \o list
            seen == [f \in {"all"} |-> way]
<1>1. FIFOInit => FIFOChannel!Init
  <2>1. FIFOInit => link \o list = <<>>
    BY DEF FIFOInit
  <2>. QED
    BY <2>1 DEF FIFOChannel!Init
<1>2. ASSUME FIFOInv, [FIFONext]_FIFOVars
      PROVE  [FIFOChannel!Next]_seen
  <2>. link \in Seq(Packets) /\ list \in Seq(Packets)
    BY <1>2 DEF FIFOInv, FIFOTypeOK
  <2>1. ASSUME NEW p \in Packets, Accept(p) PROVE FIFOChannel!Next
    BY <1>2, <2>1, FIFOAcceptSends DEF FIFOInv, FIFOChannel!Next
  <2>2. ASSUME NEW p \in Packets, Drop(p) PROVE UNCHANGED seen
    BY <2>2 DEF Drop, FIFOVars
  <2>3. CASE Transmit
    <3>1. list # <<>>
      BY <1>2, <2>3, FIFOTransmitInv
    <3>2. link' \o list' = link \o list
      BY <2>3, <3>1, FIFOTransmitMovesBoundary DEF Transmit
    <3>. QED
      BY <3>2
  <2>4. CASE Deliver
    <3>1. way # <<>> /\ way' = Tail(way)
      BY <2>4, FIFOHeadLeaves DEF Deliver
    <3>2. FIFOChannel!Receive("all")
      BY <3>1 DEF FIFOChannel!Receive
    <3>. QED
      BY <3>2 DEF FIFOChannel!Next
  <2>5. CASE UNCHANGED FIFOVars
    BY <2>5 DEF FIFOVars
  <2>. QED
    BY <1>2, <2>1, <2>2, <2>3, <2>4, <2>5 DEF FIFONext
<1>. QED
  BY <1>1, <1>2, FIFOInductive, PTL DEF FIFOSpec, ImplementsFIFOChannel, FIFOChannel!Safety
=============================================================================
