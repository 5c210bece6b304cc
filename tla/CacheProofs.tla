---------------------------- MODULE CacheProofs ----------------------------
(***************************************************************************)
(* Proofs about the content stores, for any contents, sizes and limit: the *)
(* sums of sizes first, then the two structures, then the refinement.      *)
(***************************************************************************)
EXTENDS Cache, DataLemmas

(* The size of every chunk, as a function.                                 *)
UnitSizes == [x \in ChunkSet |-> Units(x)]

LEMMA ChunkType ==
    /\ \A x \in ChunkSet : /\ x = <<x[1], x[2]>> /\ x[1] \in Contents
                           /\ LastChunk[x[1]] \in Nat /\ x[2] \in 1..LastChunk[x[1]]
                           /\ Units(x) \in Nat /\ UnitSizes[x] = Units(x)
    /\ \A x, y \in ChunkSet : x[1] = y[1] /\ x[2] = y[2] => x = y
<1>1. ASSUME NEW x \in ChunkSet
      PROVE  /\ x = <<x[1], x[2]>> /\ x[1] \in Contents
             /\ LastChunk[x[1]] \in Nat /\ x[2] \in 1..LastChunk[x[1]]
             /\ Units(x) \in Nat /\ UnitSizes[x] = Units(x)
  <2>1. PICK c \in Contents : x \in {<<c, k>> : k \in 1..LastChunk[c]}
    BY DEF ChunkSet
  <2>2. PICK k \in 1..LastChunk[c] : x = <<c, k>>
    BY <2>1
  <2>3. x[1] = c /\ x[2] = k
    BY <2>2
  <2>4. LastChunk[c] \in Nat /\ Bits[c] \in Nat
    BY ContentsAssumption
  <2>5. Bits[c] \div KBit \in Nat
    BY <2>4, KBitAssumption
  <2> QED BY <2>2, <2>3, <2>4, <2>5 DEF Units, UnitSizes
<1>2. ASSUME NEW x \in ChunkSet, NEW y \in ChunkSet, x[1] = y[1], x[2] = y[2]
      PROVE  x = y
  BY <1>1, <1>2
<1> QED BY <1>1, <1>2

LEMMA UnitsSum ==
    ASSUME NEW S, S \subseteq ChunkSet, IsFiniteSet(S)
    PROVE  UnitsOf(S) = SumOver(UnitSizes, S)
<1> DEFINE At(h, s) == IF s = {} THEN 0
                       ELSE Units(CHOOSE y \in s : TRUE) + h[s \ {CHOOSE y \in s : TRUE}]
           Rec(h) == h = [s \in SUBSET S |-> At(h, s)]
<1>0. \A x \in S : UnitSizes[x] \in Int /\ UnitSizes[x] = Units(x)
  BY ChunkType
<1>1. \A h, s : s \in SUBSET S => Step(UnitSizes, s, h) = At(h, s)
  BY <1>0, PickIn DEF Step, Pick
<1>2. ASSUME NEW h PROVE Rec(h) <=> Sums(UnitSizes, S, h)
  <2> HIDE DEF At
  <2>1. [s \in SUBSET S |-> At(h, s)] = [s \in SUBSET S |-> Step(UnitSizes, s, h)]
    BY <1>1
  <2> QED BY <2>1, Zenon DEF Sums
<1>3. \E h : Sums(UnitSizes, S, h)
  BY <1>0, SumsExist
<1>4. UnitsOf(S) = (CHOOSE h : Rec(h))[S]
  BY DEF UnitsOf, MapThenSumSet, MapThenFoldSet
<1> HIDE DEF Rec
<1>5. Sums(UnitSizes, S, CHOOSE h : Rec(h))
  <2>1. \E h : Rec(h)
    BY <1>2, <1>3
  <2>2. Rec(CHOOSE h : Rec(h))
    BY <2>1
  <2> QED BY <1>2, <2>2
<1>6. Sums(UnitSizes, S, CHOOSE h : Sums(UnitSizes, S, h))
  BY <1>3
<1>7. UnitsOf(S) = (CHOOSE h : Sums(UnitSizes, S, h))[S]
  BY <1>4, <1>5, <1>6, SumsAgree
<1> QED BY <1>7 DEF SumOver

(* The chunks of one content are as many as their numbers.                 *)
LEMMA NumbersCount ==
    ASSUME NEW c, NEW S, S \subseteq ChunkSet, IsFiniteSet(S), \A y \in S : y[1] = c
    PROVE  /\ IsFiniteSet({y[2] : y \in S})
           /\ Cardinality({y[2] : y \in S}) = Cardinality(S)
<1> DEFINE N == {y[2] : y \in S}
           f == [y \in S |-> y[2]]
<1>1. f \in Surjection(S, N)
  BY DEF Surjection
<1>2. f \in Injection(S, N)
  BY ChunkType DEF Injection, IsInjective
<1> HIDE DEF f, N
<1>3. IsFiniteSet(N) /\ Cardinality(N) = Cardinality(S)
  BY <1>1, <1>2, FS_Surjection
<1> QED BY <1>3 DEF N

LEMMA CachedFinite ==
    ASSUME list \in Seq(ChunkSet)
    PROVE  /\ Cached \subseteq ChunkSet /\ IsFiniteSet(Cached)
           /\ Cardinality(Cached) <= Len(list)
<1>1. DOMAIN list = 1..Len(list) /\ Len(list) \in Nat /\ \A i \in 1..Len(list) : list[i] \in ChunkSet
  BY LenProperties, ElementOfSeq
<1>2. IsFiniteSet(1..Len(list)) /\ Cardinality(1..Len(list)) = Len(list)
  <2>1. 1 \in Int /\ Len(list) \in Int
    BY <1>1
  <2>2. IsFiniteSet(1..Len(list)) /\ Cardinality(1..Len(list)) = IF 1 > Len(list) THEN 0 ELSE Len(list) - 1 + 1
    BY <2>1, FS_Interval, Zenon
  <2> QED BY <1>1, <2>2
<1> DEFINE f == [i \in 1..Len(list) |-> list[i]]
<1>3. f \in Surjection(1..Len(list), Cached)
  BY <1>1 DEF Surjection, Cached, ToSet
<1> HIDE DEF f
<1>4. IsFiniteSet(Cached) /\ Cardinality(Cached) <= Len(list)
  BY <1>2, <1>3, FS_Surjection
<1> QED BY <1>1, <1>4 DEF Cached, ToSet

(* A lookup finds exactly the cached chunks.                               *)
LEMMA HitIsCached ==
    ASSUME TypeOK, RecordsAgree, NEW x \in ChunkSet
    PROVE  Hit(x) <=> x \in Cached
<1>1. Cached \subseteq ChunkSet
  BY CachedFinite DEF TypeOK
<1>2. ASSUME x \in Cached PROVE Hit(x)
  BY <1>2 DEF RecordsAgree, Hit
<1>3. ASSUME Hit(x) PROVE x \in Cached
  <2>1. x[1] \in DOMAIN names /\ x[2] \in {y[2] : y \in {z \in Cached : z[1] = x[1]}}
    BY <1>3 DEF RecordsAgree, Hit
  <2>2. PICK y \in Cached : y[1] = x[1] /\ y[2] = x[2]
    BY <2>1
  <2> QED BY <1>1, <2>2, ChunkType
<1> QED BY <1>2, <1>3

(* Moving an element to the back.                                          *)
LEMMA MovedToBack ==
    ASSUME NEW s \in Seq(ChunkSet), NEW x \in ChunkSet
    PROVE  /\ MoveToBack(s, x) \in Seq(ChunkSet)
           /\ ToSet(MoveToBack(s, x)) = ToSet(s) \cup {x}
           /\ IsInjective(s) => IsInjective(MoveToBack(s, x))
<1> DEFINE w == Without(s, {x})
<1>1. w \in Seq(ChunkSet) /\ ToSet(w) = ToSet(s) \ {x} /\ (IsInjective(s) => IsInjective(w))
  BY WithoutProperties
<1> HIDE DEF w
<1>2. /\ Append(w, x) \in Seq(ChunkSet)
      /\ ToSet(Append(w, x)) = ToSet(w) \cup {x}
      /\ IsInjective(Append(w, x)) <=> IsInjective(w) /\ x \notin ToSet(w)
  BY <1>1, ToSetAppend, AppendProperties
<1> QED BY <1>1, <1>2 DEF MoveToBack, w

(* If the list is the suffix of the recency, so it is after a hit.         *)
LEMMA SuffixMoved ==
    ASSUME NEW s \in Seq(ChunkSet), NEW r \in Seq(ChunkSet), NEW x \in ChunkSet,
           IsSuffix(s, r)
    PROVE  IsSuffix(MoveToBack(s, x), MoveToBack(r, x))
<1>a. \A a, b \in Seq(ChunkSet) : a \o Append(b, x) = Append(a \o b, x)
  BY AppendConcat
<1>1. PICK u \in Seq(ChunkSet) : r = u \o s
  BY SuffixIs
<1> DEFINE wu == Without(u, {x})
           ws == Without(s, {x})
<1>2. wu \in Seq(ChunkSet) /\ ws \in Seq(ChunkSet)
  BY WithoutProperties
<1>3. Without(r, {x}) = wu \o ws
  <2>1. u \in Seq(ChunkSet) /\ s \in Seq(ChunkSet)
    BY <1>1
  <2>2. Without(u \o s, {x}) = Without(u, {x}) \o Without(s, {x})
    BY <2>1, WithoutConcat, SMTT(30)
  <2> QED BY <1>1, <2>2
<1> HIDE DEF wu, ws
<1>4. Append(wu \o ws, x) = wu \o Append(ws, x)
  BY <1>2, <1>a
<1>5. Append(ws, x) \in Seq(ChunkSet) /\ Append(wu \o ws, x) \in Seq(ChunkSet)
  BY <1>2, AppendProperties, ConcatProperties
<1>6. IsSuffix(Append(ws, x), Append(wu \o ws, x))
  BY <1>2, <1>4, <1>5, SuffixIs
<1> QED BY <1>3, <1>6 DEF MoveToBack, ws

(* The victims leave the list, the new chunk enters it.                    *)
LEMMA AddedToList ==
    ASSUME list \in Seq(ChunkSet), IsInjective(list), NEW x \in ChunkSet, x \notin Cached,
           NEW v, v \subseteq Cached, list' = Append(Without(list, v), x)
    PROVE  /\ list' \in Seq(ChunkSet) /\ IsInjective(list')
           /\ Cached' = (Cached \ v) \cup {x}
<1> DEFINE w == Without(list, v)
<1>1. w \in Seq(ChunkSet) /\ ToSet(w) = Cached \ v /\ IsInjective(w)
  BY WithoutProperties DEF Cached
<1> HIDE DEF w
<1>2. /\ Append(w, x) \in Seq(ChunkSet)
      /\ ToSet(Append(w, x)) = ToSet(w) \cup {x}
      /\ IsInjective(Append(w, x)) <=> IsInjective(w) /\ x \notin ToSet(w)
  BY <1>1, ToSetAppend, AppendProperties
<1> QED BY <1>1, <1>2 DEF w, Cached

(* A sequence is its front and the rest.                                   *)
FirstOf(s, k) == SubSeq(s, 1, k)
LastOf(s, k) == SubSeq(s, k + 1, Len(s))

LEMMA FrontAndRest ==
    ASSUME NEW X, NEW s \in Seq(X), NEW k \in Nat, k <= Len(s)
    PROVE  /\ FirstOf(s, k) \in Seq(X) /\ LastOf(s, k) \in Seq(X)
           /\ s = FirstOf(s, k) \o LastOf(s, k)
           /\ ToSet(FirstOf(s, k)) = {s[i] : i \in 1..k}
           /\ ToSet(LastOf(s, k)) = {s[k + i] : i \in 1..(Len(s) - k)}
<1> DEFINE front == FirstOf(s, k)
           rest == LastOf(s, k)
<1>l. Len(s) \in Nat /\ \A i \in 1..Len(s) : s[i] \in X
  BY LenProperties, ElementOfSeq
<1>1. /\ 1 \in Int /\ k \in Int /\ k + 1 \in Int /\ Len(s) \in Int
      /\ \A i \in 1..k : s[i] \in X
      /\ \A i \in (k + 1)..Len(s) : s[i] \in X
  BY <1>l
<1>2. /\ front \in Seq(X)
      /\ Len(front) = IF 1 <= k THEN k - 1 + 1 ELSE 0
      /\ \A i \in 1..(k - 1 + 1) : front[i] = s[1 + i - 1]
  BY <1>1, SubSeqProperties DEF FirstOf
<1>3. /\ rest \in Seq(X)
      /\ Len(rest) = IF k + 1 <= Len(s) THEN Len(s) - (k + 1) + 1 ELSE 0
      /\ \A i \in 1..(Len(s) - (k + 1) + 1) : rest[i] = s[k + 1 + i - 1]
  BY <1>1, SubSeqProperties DEF LastOf
<1>4. s = front \o rest
  <2>1. 1 \in 1..Len(s) + 1 /\ k \in (1 - 1)..Len(s) /\ Len(s) \in k..Len(s)
    BY <1>l
  <2>2. front \o rest = SubSeq(s, 1, Len(s))
    BY <2>1, ConcatAdjacentSubSeq DEF FirstOf, LastOf
  <2> QED BY <2>2, SubSeqFull
<1> HIDE DEF front, rest
<1>5. Len(front) = k /\ \A i \in 1..k : front[i] = s[i]
  <2>1. k - 1 + 1 = k /\ \A i \in 1..k : 1 + i - 1 = i
    OBVIOUS
  <2>2. Len(front) = k
    BY <1>2
  <2> QED BY <1>2, <2>1, <2>2
<1>6. Len(rest) = Len(s) - k /\ \A i \in 1..(Len(s) - k) : rest[i] = s[k + i]
  <2>1. /\ Len(s) - (k + 1) + 1 = Len(s) - k
        /\ \A i \in 1..(Len(s) - k) : k + 1 + i - 1 = k + i
    BY <1>l
  <2>2. Len(rest) = Len(s) - k
    BY <1>l, <1>3
  <2> QED BY <1>3, <2>1, <2>2
<1>7. DOMAIN front = 1..k /\ DOMAIN rest = 1..(Len(s) - k)
  BY <1>2, <1>3, <1>5, <1>6, LenProperties
<1>8. ToSet(front) = {s[i] : i \in 1..k}
  BY <1>5, <1>7 DEF ToSet
<1>9. ToSet(rest) = {s[k + i] : i \in 1..(Len(s) - k)}
  BY <1>6, <1>7 DEF ToSet
<1> QED BY <1>2, <1>3, <1>4, <1>8, <1>9 DEF front, rest

(* Concatenation, removal and suffixes of the chunk sequences.             *)
LEMMA ChunkSequences ==
    /\ \A a, b \in Seq(ChunkSet) : a \o b \in Seq(ChunkSet)
    /\ \A a, b, c \in Seq(ChunkSet) : (a \o b) \o c = a \o (b \o c)
    /\ \A a \in Seq(ChunkSet), x \in ChunkSet : Append(a, x) \in Seq(ChunkSet)
    /\ \A b \in Seq(ChunkSet), x \in ChunkSet :
         \A a \in Seq(ChunkSet) : a \o Append(b, x) = Append(a \o b, x)
    /\ \A S : \A a \in Seq(ChunkSet) : Without(a, S) \in Seq(ChunkSet)
    /\ \A S : \A a, b \in Seq(ChunkSet) : Without(a \o b, S) = Without(a, S) \o Without(b, S)
    /\ \A a, b \in Seq(ChunkSet) : IsSuffix(a, b) <=> \E c \in Seq(ChunkSet) : b = c \o a
<1>1. \A a, b \in Seq(ChunkSet) : a \o b \in Seq(ChunkSet)
  BY ConcatProperties
<1>2. \A a, b, c \in Seq(ChunkSet) : (a \o b) \o c = a \o (b \o c)
  BY ConcatAssociative
<1>3. \A a \in Seq(ChunkSet), x \in ChunkSet : Append(a, x) \in Seq(ChunkSet)
  BY AppendProperties
<1>4. \A b \in Seq(ChunkSet), x \in ChunkSet :
         \A a \in Seq(ChunkSet) : a \o Append(b, x) = Append(a \o b, x)
  BY AppendConcat
<1>5. \A S : \A a \in Seq(ChunkSet) : Without(a, S) \in Seq(ChunkSet)
  BY WithoutProperties
<1>6. \A S : \A a, b \in Seq(ChunkSet) : Without(a \o b, S) = Without(a, S) \o Without(b, S)
  BY WithoutConcat
<1>7. \A a, b \in Seq(ChunkSet) : IsSuffix(a, b) <=> \E c \in Seq(ChunkSet) : b = c \o a
  BY SuffixIs
<1> QED BY <1>1, <1>2, <1>3, <1>4, <1>5, <1>6, <1>7

(* What the eviction takes from the front of the list, the history loses   *)
(* nothing of: the rest stays its suffix, and the new chunk follows both.  *)
LEMMA RestFollows ==
    ASSUME NEW front \in Seq(ChunkSet), NEW rest \in Seq(ChunkSet), NEW v, NEW x \in ChunkSet,
           NEW r \in Seq(ChunkSet), IsSuffix(front \o rest, r),
           ToSet(front) \subseteq v, ToSet(rest) \cap v = {}, x \notin ToSet(rest)
    PROVE  IsSuffix(Append(Without(front \o rest, v), x), MoveToBack(r, x))
<1>a. /\ \A a, b \in Seq(ChunkSet) : a \o b \in Seq(ChunkSet)
      /\ \A a, b, c \in Seq(ChunkSet) : (a \o b) \o c = a \o (b \o c)
      /\ \A a \in Seq(ChunkSet), e \in ChunkSet : Append(a, e) \in Seq(ChunkSet)
      /\ \A b \in Seq(ChunkSet), e \in ChunkSet :
            \A a \in Seq(ChunkSet) : a \o Append(b, e) = Append(a \o b, e)
  BY ChunkSequences, Zenon
<1>b. /\ \A a, b \in Seq(ChunkSet) : Without(a \o b, v) = Without(a, v) \o Without(b, v)
      /\ \A a, b \in Seq(ChunkSet) : Without(a \o b, {x}) = Without(a, {x}) \o Without(b, {x})
      /\ \A a \in Seq(ChunkSet) : Without(a, {x}) \in Seq(ChunkSet)
  BY ChunkSequences, Zenon
<1>e. \A a, b \in Seq(ChunkSet) : IsSuffix(a, b) <=> \E c \in Seq(ChunkSet) : b = c \o a
  BY ChunkSequences, Zenon
<1>h. \A a \in Seq(ChunkSet) : a \o Append(rest, x) = Append(a \o rest, x)
  BY <1>a, Zenon
<1>1. Without(front, v) = <<>>
  BY WithoutAll
<1>2. Without(rest, v) = rest
  BY WithoutNone
<1>3. Without(rest, {x}) = rest
  BY WithoutNone
<1>4. <<>> \o rest = rest
  BY ConcatEmptySeq
<1>5. Without(front \o rest, v) = rest
  <2>1. Without(front \o rest, v) = Without(front, v) \o Without(rest, v)
    BY <1>b, Zenon
  <2> QED BY <2>1, <1>1, <1>2, <1>4, Zenon
<1>6. PICK u \in Seq(ChunkSet) : r = u \o (front \o rest)
  BY <1>a, <1>e, Zenon
<1>7. r = (u \o front) \o rest /\ u \o front \in Seq(ChunkSet)
  <2>1. (u \o front) \o rest = u \o (front \o rest) /\ u \o front \in Seq(ChunkSet)
    BY <1>a
  <2> QED BY <1>6, <2>1, Zenon
<1> DEFINE w == Without(u \o front, {x})
<1>8. w \in Seq(ChunkSet)
  BY <1>b, <1>7, Zenon DEF w
<1>9. Without(r, {x}) = w \o rest
  <2>1. Without((u \o front) \o rest, {x}) = w \o Without(rest, {x})
    BY <1>b, <1>7, Zenon DEF w
  <2> QED BY <1>3, <1>7, <2>1, Zenon
<1> HIDE DEF w
<1>10. MoveToBack(r, x) = w \o Append(rest, x)
  <2>1. MoveToBack(r, x) = Append(w \o rest, x)
    BY <1>9, Zenon DEF MoveToBack
  <2>2. Append(w \o rest, x) = w \o Append(rest, x)
    BY <1>h, <1>8, Zenon
  <2> QED BY <2>1, <2>2, Zenon
<1>11. Append(rest, x) \in Seq(ChunkSet) /\ w \o Append(rest, x) \in Seq(ChunkSet)
  BY <1>a, <1>8, Zenon
<1> QED BY <1>e, <1>5, <1>8, <1>10, <1>11, Zenon

LEMMA ChunkFronts ==
    \A s \in Seq(ChunkSet) : \A k \in Nat : k <= Len(s) =>
       /\ FirstOf(s, k) \in Seq(ChunkSet) /\ LastOf(s, k) \in Seq(ChunkSet)
       /\ s = FirstOf(s, k) \o LastOf(s, k)
       /\ ToSet(FirstOf(s, k)) = {s[i] : i \in 1..k}
       /\ ToSet(LastOf(s, k)) = {s[k + i] : i \in 1..(Len(s) - k)}
BY FrontAndRest

LEMMA FrontEvicted ==
    ASSUME list \in Seq(ChunkSet), IsInjective(list), recency \in Seq(ChunkSet),
           IsSuffix(list, recency), NEW x \in ChunkSet, x \notin Cached,
           NEW v, v \subseteq Cached, v = ToSet(SubSeq(list, 1, Cardinality(v)))
    PROVE  IsSuffix(Append(Without(list, v), x), MoveToBack(recency, x))
<1> DEFINE k == Cardinality(v)
           front == FirstOf(list, k)
           rest == LastOf(list, k)
<1>l. /\ Len(list) \in Nat /\ DOMAIN list = 1..Len(list)
  BY LenProperties
<1>1. k \in Nat /\ k <= Len(list)
  <2>1. /\ IsFiniteSet(Cached) /\ Cardinality(Cached) <= Len(list)
    BY CachedFinite
  <2>2. /\ IsFiniteSet(v) /\ Cardinality(v) <= Cardinality(Cached)
        /\ Cardinality(v) \in Nat /\ Cardinality(Cached) \in Nat
    BY <2>1, FS_Subset, FS_CardinalityType
  <2> QED BY <1>l, <2>1, <2>2
<1>v. v = ToSet(front)
  BY DEF FirstOf
<1> HIDE DEF k
<1>2. /\ front \in Seq(ChunkSet) /\ rest \in Seq(ChunkSet)
      /\ list = front \o rest
      /\ ToSet(front) = {list[i] : i \in 1..k}
      /\ ToSet(rest) = {list[k + i] : i \in 1..(Len(list) - k)}
  BY <1>1, ChunkFronts, Zenon
<1> HIDE DEF front, rest
<1>3. ASSUME NEW y \in ToSet(rest) PROVE y \notin v /\ y \in Cached
  <2>1. PICK i \in 1..(Len(list) - k) : y = list[k + i]
    BY <1>2, <1>3
  <2>2. k + i \in 1..Len(list)
    BY <1>l, <1>1
  <2>3. ASSUME y \in v PROVE FALSE
    <3>1. PICK j \in 1..k : y = list[j]
      BY <1>2, <1>v, <2>3
    <3>2. j \in 1..Len(list) /\ j # k + i
      BY <1>l, <1>1
    <3> QED BY <1>l, <2>1, <2>2, <3>1, <3>2 DEF IsInjective
  <2> QED BY <1>l, <2>1, <2>2, <2>3 DEF Cached, ToSet
<1>4. ToSet(rest) \cap v = {} /\ x \notin ToSet(rest) /\ ToSet(front) \subseteq v
  BY <1>3, <1>v
<1>5. IsSuffix(front \o rest, recency)
  BY <1>2
<1>6. IsSuffix(Append(Without(front \o rest, v), x), MoveToBack(recency, x))
  BY <1>2, <1>4, <1>5, RestFollows
<1> QED BY <1>2, <1>6

-----------------------------------------------------------------------------
(* The numbers of the chunks of content c in a set.                        *)
Numbers(S, c) == {y[2] : y \in {z \in S : z[1] = c}}

(* What an eviction leaves of a record that was there.                     *)
LEMMA RecordEvicted ==
    ASSUME TypeOK, RecordsAgree, NEW v, v \subseteq Cached, NEW c \in DOMAIN names
    PROVE  /\ Numbers(Cached \ v, c) =
                 names[c].bitmap \ {y[2] : y \in VictimsOf(c, v)}
           /\ IsFiniteSet(Numbers(Cached \ v, c))
           /\ Cardinality(Numbers(Cached \ v, c)) =
                 names[c].stored - Cardinality(VictimsOf(c, v))
           /\ names[c].stored > Cardinality(VictimsOf(c, v))
                 <=> \E y \in Cached \ v : y[1] = c
<1> DEFINE N == Numbers(Cached, c)
           V == VictimsOf(c, v)
           M == {y[2] : y \in V}
<1>1. Cached \subseteq ChunkSet /\ IsFiniteSet(Cached)
  BY CachedFinite DEF TypeOK
<1>2. names[c].bitmap = N /\ names[c].stored = Cardinality(N)
  BY DEF RecordsAgree, Numbers
<1>3. IsFiniteSet(N)
  <2> DEFINE C == {z \in Cached : z[1] = c}
  <2>1. C \subseteq ChunkSet /\ IsFiniteSet(C) /\ \A y \in C : y[1] = c
    BY <1>1, FS_Subset
  <2> HIDE DEF C
  <2>2. IsFiniteSet({y[2] : y \in C})
    BY <2>1, NumbersCount
  <2> QED BY <2>2 DEF C, Numbers
<1>4. IsFiniteSet(M) /\ Cardinality(M) = Cardinality(V)
  <2>1. V \subseteq ChunkSet /\ IsFiniteSet(V) /\ \A y \in V : y[1] = c
    BY <1>1, FS_Subset DEF VictimsOf
  <2> HIDE DEF V
  <2> QED BY <2>1, NumbersCount
<1>5. Numbers(Cached \ v, c) = N \ M
  BY <1>1, ChunkType DEF Numbers, VictimsOf
<1>6. N \cap M = M
  BY DEF Numbers, VictimsOf
<1>7. Numbers(Cached \ v, c) # {} <=> \E y \in Cached \ v : y[1] = c
  BY DEF Numbers
<1> HIDE DEF N, M, V
<1>8. IsFiniteSet(N \ M) /\ Cardinality(N \ M) = Cardinality(N) - Cardinality(M)
  BY <1>3, <1>6, FS_Difference
<1>9. /\ Cardinality(N) \in Nat /\ Cardinality(M) \in Nat /\ Cardinality(N \ M) \in Nat
      /\ Cardinality(N \ M) = 0 <=> N \ M = {}
  BY <1>3, <1>4, <1>8, FS_CardinalityType, FS_EmptySet
<1>10. names[c].stored > Cardinality(V) <=> N \ M # {}
  BY <1>2, <1>4, <1>8, <1>9
<1>11. Cardinality(N \ M) = names[c].stored - Cardinality(V)
  BY <1>2, <1>4, <1>8
<1>12. Numbers(Cached \ v, c) = names[c].bitmap \ M
  BY <1>2, <1>5
<1>13. /\ IsFiniteSet(Numbers(Cached \ v, c))
       /\ Cardinality(Numbers(Cached \ v, c)) = names[c].stored - Cardinality(V)
  BY <1>5, <1>8, <1>11
<1>14. names[c].stored > Cardinality(V) <=> \E y \in Cached \ v : y[1] = c
  BY <1>5, <1>7, <1>10
<1> QED BY <1>12, <1>13, <1>14 DEF M, V

(* The records after an eviction and the addition of x.                    *)
LEMMA RecordsAfter ==
    ASSUME TypeOK, RecordsAgree, NEW x \in ChunkSet, x \notin Cached,
           NEW v, v \subseteq Cached, Cached' = (Cached \ v) \cup {x},
           names' = Store(x, Evict(x, v))
    PROVE  /\ DOMAIN names' = {y[1] : y \in Cached'}
           /\ \A c \in DOMAIN names' :
                 /\ names'[c].bitmap = Numbers(Cached', c)
                 /\ names'[c].stored = Cardinality(names'[c].bitmap)
<1> DEFINE kept == Evict(x, v)
<1>1. Cached \subseteq ChunkSet /\ DOMAIN names = {y[1] : y \in Cached}
  BY CachedFinite DEF TypeOK, RecordsAgree
<1>2. DOMAIN kept = NamesKept(x, v)
  BY DEF Evict
<1>3. DOMAIN names' = NamesKept(x, v) \cup {x[1]}
  BY <1>2 DEF Store
<1>4. ASSUME NEW c \in NamesKept(x, v)
      PROVE  /\ kept[c].bitmap = Numbers(Cached \ v, c)
             /\ kept[c].stored = Cardinality(Numbers(Cached \ v, c))
  <2>1. c \in DOMAIN names
    BY DEF NamesKept
  <2>2. kept[c] = [stored |-> names[c].stored - Cardinality(VictimsOf(c, v)),
                   bitmap |-> names[c].bitmap \ {y[2] : y \in VictimsOf(c, v)}]
    BY DEF Evict
  <2> HIDE DEF kept
  <2> QED BY <2>1, <2>2, RecordEvicted
<1>5. \A c \in DOMAIN names : c # x[1] =>
         (c \in NamesKept(x, v) <=> \E y \in Cached \ v : y[1] = c)
  BY RecordEvicted DEF NamesKept
<1>6. DOMAIN names' = {y[1] : y \in Cached'}
  <2>1. ASSUME NEW c PROVE c \in DOMAIN names' <=> \E y \in Cached' : y[1] = c
    <3>1. CASE c = x[1]
      BY <1>3, <3>1
    <3>2. CASE c # x[1] /\ c \in DOMAIN names
      <4>1. c \in DOMAIN names' <=> c \in NamesKept(x, v)
        BY <1>3, <3>2
      <4>2. (\E y \in Cached' : y[1] = c) <=> \E y \in Cached \ v : y[1] = c
        BY <3>2
      <4> QED BY <1>5, <3>2, <4>1, <4>2
    <3>3. CASE c # x[1] /\ c \notin DOMAIN names
      <4>1. c \notin DOMAIN names'
        BY <1>3, <3>3 DEF NamesKept
      <4>2. ~\E y \in Cached' : y[1] = c
        BY <1>1, <3>3
      <4> QED BY <4>1, <4>2
    <3> QED BY <3>1, <3>2, <3>3
  <2> QED BY <2>1
<1>7. ASSUME NEW c \in DOMAIN names', c # x[1]
      PROVE  /\ names'[c].bitmap = Numbers(Cached', c)
             /\ names'[c].stored = Cardinality(names'[c].bitmap)
  <2>1. c \in NamesKept(x, v)
    BY <1>3, <1>7
  <2>2. names'[c] = kept[c]
    BY <1>2, <1>7, <2>1 DEF Store
  <2>3. Numbers(Cached', c) = Numbers(Cached \ v, c)
    BY <1>7 DEF Numbers
  <2> HIDE DEF kept
  <2> QED BY <1>4, <2>1, <2>2, <2>3
<1>8. ASSUME NEW c, c = x[1]
      PROVE  /\ names'[c].bitmap = Numbers(Cached', c)
             /\ names'[c].stored = Cardinality(names'[c].bitmap)
  <2> DEFINE R == RecordOf(x, kept)
             N == Numbers(Cached \ v, c)
  <2>1. /\ R.bitmap = N /\ R.stored = Cardinality(N) /\ IsFiniteSet(N)
    <3>1. CASE c \in DOMAIN names
      <4>1. c \in NamesKept(x, v)
        BY <1>8, <3>1 DEF NamesKept
      <4>2. R = kept[c]
        BY <1>2, <1>8, <4>1 DEF RecordOf
      <4>3. IsFiniteSet(N)
        BY <3>1, RecordEvicted
      <4> HIDE DEF kept, R, N
      <4> QED BY <1>4, <4>1, <4>2, <4>3 DEF N
    <3>2. CASE c \notin DOMAIN names
      <4>1. c \notin DOMAIN kept
        BY <1>2, <3>2 DEF NamesKept
      <4>2. R = NewRecord
        BY <1>8, <4>1 DEF RecordOf
      <4>3. N = {}
        BY <1>1, <3>2 DEF Numbers
      <4> HIDE DEF kept, R, N
      <4> QED BY <4>2, <4>3, FS_EmptySet DEF NewRecord
    <3> QED BY <3>1, <3>2
  <2>2. names'[c] = [stored |-> R.stored + 1, bitmap |-> R.bitmap \cup {x[2]}]
    BY <1>8 DEF Store
  <2>3. Numbers(Cached', c) = N \cup {x[2]}
    BY <1>8 DEF Numbers
  <2>4. x[2] \notin N
    <3>1. ASSUME x[2] \in N PROVE FALSE
      <4>1. PICK y \in Cached : y[1] = x[1] /\ y[2] = x[2]
        BY <1>8, <3>1 DEF Numbers
      <4> QED BY <1>1, <4>1, ChunkType
    <3> QED BY <3>1
  <2> HIDE DEF kept, R, N
  <2>5. Cardinality(N \cup {x[2]}) = Cardinality(N) + 1
    BY <2>1, <2>4, FS_AddElement
  <2> QED BY <2>1, <2>2, <2>3, <2>5
<1> QED BY <1>6, <1>7, <1>8

(* Records that agree with the list have the types.                        *)
LEMMA RecordTypes ==
    ASSUME NEW C, C \subseteq ChunkSet, NEW n, DOMAIN n = {y[1] : y \in C},
           \A c \in DOMAIN n : /\ n[c].bitmap = Numbers(C, c)
                               /\ n[c].stored = Cardinality(n[c].bitmap)
    PROVE  /\ DOMAIN n \subseteq Contents
           /\ \A c \in DOMAIN n : /\ n[c].stored \in 1..LastChunk[c]
                                  /\ n[c].bitmap \subseteq 1..LastChunk[c]
<1>2. DOMAIN n \subseteq Contents
  BY ChunkType
<1>3. ASSUME NEW c \in DOMAIN n
      PROVE  /\ n[c].stored \in 1..LastChunk[c]
             /\ n[c].bitmap \subseteq 1..LastChunk[c]
  <2> DEFINE B == n[c].bitmap
  <2>1. B = {y[2] : y \in {z \in C : z[1] = c}} /\ n[c].stored = Cardinality(B)
    BY DEF Numbers
  <2>2. B \subseteq 1..LastChunk[c] /\ LastChunk[c] \in Nat
    BY <1>2, <2>1, ChunkType, ContentsAssumption
  <2>3. B # {}
    <3>1. PICK y \in C : y[1] = c
      OBVIOUS
    <3>2. y[2] \in B
      BY <2>1, <3>1
    <3> QED BY <3>2
  <2> HIDE DEF B
  <2>4. IsFiniteSet(1..LastChunk[c]) /\ Cardinality(1..LastChunk[c]) = LastChunk[c]
    <3>1. 1 \in Int /\ LastChunk[c] \in Int
      BY <2>2
    <3>2. /\ IsFiniteSet(1..LastChunk[c])
          /\ Cardinality(1..LastChunk[c]) =
                IF 1 > LastChunk[c] THEN 0 ELSE LastChunk[c] - 1 + 1
      BY <3>1, FS_Interval, Zenon
    <3> QED BY <2>2, <3>2
  <2>5. IsFiniteSet(B) /\ Cardinality(B) <= LastChunk[c]
    BY <2>2, <2>4, FS_Subset
  <2>6. Cardinality(B) \in Nat /\ Cardinality(B) # 0
    BY <2>3, <2>5, FS_CardinalityType, FS_EmptySet
  <2> QED BY <2>1, <2>2, <2>5, <2>6 DEF B
<1> QED BY <1>2, <1>3

(* The room of what is left is what was taken less the room of the others. *)
LEMMA RoomLeft ==
    ASSUME TypeOK, SizeAccounted, NEW v, v \subseteq Cached
    PROVE  /\ UnitsOf(Cached \ v) = size - UnitsOf(v)
           /\ UnitsOf(Cached \ v) \in Nat /\ UnitsOf(v) \in Nat
<1>1. Cached \subseteq ChunkSet /\ IsFiniteSet(Cached)
  BY CachedFinite DEF TypeOK
<1>2. \A y \in Cached : UnitSizes[y] \in Nat /\ UnitSizes[y] \in Int
  BY <1>1, ChunkType
<1>3. IsFiniteSet(v) /\ IsFiniteSet(Cached \ v)
  BY <1>1, FS_Subset
<1>4. /\ UnitsOf(Cached) = SumOver(UnitSizes, Cached)
      /\ UnitsOf(v) = SumOver(UnitSizes, v)
      /\ UnitsOf(Cached \ v) = SumOver(UnitSizes, Cached \ v)
  <2>1. v \subseteq ChunkSet /\ Cached \ v \subseteq ChunkSet
    BY <1>1
  <2> QED BY <1>1, <1>3, <2>1, UnitsSum
<1>5. SumOver(UnitSizes, Cached \ v) = SumOver(UnitSizes, Cached) - SumOver(UnitSizes, v)
  BY <1>1, <1>2, SumDifference
<1>6. SumOver(UnitSizes, v) \in Nat /\ SumOver(UnitSizes, Cached \ v) \in Nat
  BY <1>2, <1>3, SumNat
<1> QED BY <1>4, <1>5, <1>6 DEF SizeAccounted

LEMMA SizeAdded ==
    ASSUME TypeOK, SizeAccounted, NEW x \in ChunkSet, x \notin Cached,
           NEW v, v \subseteq Cached, Fits(v, x),
           Cached' = (Cached \ v) \cup {x}, size' = SizeAfter(x, v)
    PROVE  SizeAccounted' /\ size' \in 0..Limit
<1> DEFINE C == Cached \ v
<1>1. Cached \subseteq ChunkSet /\ IsFiniteSet(Cached)
  BY CachedFinite DEF TypeOK
<1>2. C \subseteq ChunkSet /\ IsFiniteSet(C) /\ x \notin C
  BY <1>1, FS_Subset
<1>3. (\A y \in C : UnitSizes[y] \in Int) /\ UnitSizes[x] = Units(x) /\ Units(x) \in Nat
  BY <1>2, ChunkType
<1>4. UnitsOf(C) = size - UnitsOf(v) /\ UnitsOf(C) \in Nat
  BY RoomLeft
<1> HIDE DEF C
<1>5. IsFiniteSet(C \cup {x}) /\ C \cup {x} \subseteq ChunkSet
  BY <1>2, FS_AddElement
<1>6. /\ UnitsOf(C) = SumOver(UnitSizes, C)
      /\ UnitsOf(C \cup {x}) = SumOver(UnitSizes, C \cup {x})
  BY <1>2, <1>5, UnitsSum
<1>7. SumOver(UnitSizes, C \cup {x}) = SumOver(UnitSizes, C) + UnitSizes[x]
  BY <1>2, <1>3, SumAdd
<1>8. UnitsOf(C \cup {x}) = UnitsOf(C) + Units(x)
  BY <1>3, <1>6, <1>7
<1>9. size' = UnitsOf(C) + Units(x)
  BY <1>4 DEF SizeAfter
<1>10. UnitsOf(C) + Units(x) <= Limit
  BY <1>4 DEF Fits
<1>11. size' = UnitsOf(Cached') /\ size' \in Nat /\ size' <= Limit
  BY <1>3, <1>4, <1>8, <1>9, <1>10 DEF C
<1>12. UnitsOf(Cached)' = UnitsOf(Cached')
  BY DEF UnitsOf, MapThenSumSet, MapThenFoldSet
<1> QED BY <1>11, <1>12, LimitAssumption DEF SizeAccounted

-----------------------------------------------------------------------------
(* The inductive invariant: the types, the agreement of the list and the   *)
(* records, without which a lookup could miss a stored chunk and an        *)
(* eviction drop the wrong record, the room taken, and the order of use.   *)
IInv == TypeOK /\ RecordsAgree /\ SizeAccounted /\ LeastRecentEvicted

LEMMA InitInv == Init => IInv
<1> SUFFICES ASSUME Init PROVE IInv
  OBVIOUS
<1>1. Cached = {}
  BY DEF Init, Cached, ToSet
<1>2. UnitsOf({}) = 0
  BY UnitsSum, SumEmpty, FS_EmptySet
<1>3. IsSuffix(<<>>, <<>>)
  <2>1. <<>> \in Seq(ChunkSet) /\ <<>> = <<>> \o <<>>
    BY EmptySeq, ConcatEmptySeq
  <2> QED BY <2>1, SuffixIs
<1>4. TypeOK
  BY LimitAssumption DEF Init, TypeOK
<1>5. RecordsAgree
  BY <1>1 DEF Init, RecordsAgree, IsInjective
<1>6. SizeAccounted
  BY <1>1, <1>2, LimitAssumption DEF Init, SizeAccounted
<1>7. LeastRecentEvicted
  BY <1>3 DEF Init, LeastRecentEvicted
<1> QED BY <1>4, <1>5, <1>6, <1>7 DEF IInv

(* A hit moves the chunk in the list and changes no set.                   *)
LEMMA UseInv ==
    ASSUME IInv, NEW x \in ChunkSet, Use(x)
    PROVE  IInv' /\ Cached' = Cached
<1>1. /\ list \in Seq(ChunkSet) /\ recency \in Seq(ChunkSet)
      /\ IsInjective(list) /\ x \in Cached
  BY HitIsCached DEF IInv, TypeOK, RecordsAgree, Use
<1>2. /\ MoveToBack(list, x) \in Seq(ChunkSet)
      /\ ToSet(MoveToBack(list, x)) = ToSet(list) \cup {x}
      /\ IsInjective(list) => IsInjective(MoveToBack(list, x))
  BY <1>1, MovedToBack
<1>3. /\ list' = IF LeastRecent THEN MoveToBack(list, x) ELSE list
      /\ recency' = MoveToBack(recency, x)
      /\ names' = names /\ size' = size /\ policy' = policy
  BY DEF Use, Touch
<1>4. list' \in Seq(ChunkSet) /\ IsInjective(list') /\ Cached' = Cached
  BY <1>1, <1>2, <1>3 DEF Cached
<1>5. recency' \in Seq(ChunkSet)
  BY <1>1, <1>3, MovedToBack
<1>6. TypeOK'
  BY <1>3, <1>4, <1>5 DEF IInv, TypeOK
<1>7. RecordsAgree'
  BY <1>3, <1>4 DEF IInv, RecordsAgree
<1>8. SizeAccounted'
  BY <1>3, <1>4 DEF IInv, SizeAccounted, UnitsOf, MapThenSumSet, MapThenFoldSet
<1>9. LeastRecentEvicted'
  <2> SUFFICES ASSUME LeastRecent' PROVE IsSuffix(list, recency)'
    BY DEF LeastRecentEvicted
  <2>1. LeastRecent /\ IsSuffix(list, recency)
    BY <1>3 DEF IInv, LeastRecentEvicted, LeastRecent
  <2>2. IsSuffix(MoveToBack(list, x), MoveToBack(recency, x))
    BY <1>1, <2>1, SuffixMoved
  <2>3. IsSuffix(list', recency')
    BY <1>3, <2>1, <2>2, Zenon
  <2> QED BY <2>3 DEF IsSuffix, IsPrefix, Reverse
<1> QED BY <1>4, <1>6, <1>7, <1>8, <1>9 DEF IInv

LEMMA AddInv ==
    ASSUME IInv, NEW x \in ChunkSet, Add(x), NEW v \in VictimSets(x),
           list' = Append(Without(list, v), x),
           names' = Store(x, Evict(x, v)), size' = SizeAfter(x, v)
    PROVE  IInv' /\ Cached' = (Cached \ v) \cup {x} /\ x \notin Cached
<1>1. /\ TypeOK /\ RecordsAgree /\ SizeAccounted /\ LeastRecentEvicted
      /\ list \in Seq(ChunkSet) /\ recency \in Seq(ChunkSet)
      /\ IsInjective(list)
  BY DEF IInv, TypeOK, RecordsAgree
<1>2. x \notin Cached /\ recency' = MoveToBack(recency, x) /\ policy' = policy
  BY <1>1, HitIsCached DEF Add
<1>3. /\ v \subseteq Cached /\ Fits(v, x)
      /\ LeastRecent => v = ToSet(SubSeq(list, 1, Cardinality(v)))
  BY DEF VictimSets, StopsAt
<1>4. /\ list' \in Seq(ChunkSet) /\ IsInjective(list')
      /\ Cached' = (Cached \ v) \cup {x}
  BY <1>1, <1>2, <1>3, AddedToList
<1>5. RecordsAgree'
  <2>1. /\ DOMAIN names' = {y[1] : y \in Cached'}
        /\ \A c \in DOMAIN names' :
              /\ names'[c].bitmap = Numbers(Cached', c)
              /\ names'[c].stored = Cardinality(names'[c].bitmap)
    BY <1>1, <1>2, <1>3, <1>4, RecordsAfter
  <2>2. IsInjective(list)'
    BY <1>4 DEF IsInjective
  <2> QED BY <2>1, <2>2 DEF RecordsAgree, Numbers
<1>6. SizeAccounted' /\ size' \in 0..Limit
  BY <1>1, <1>2, <1>3, <1>4, SizeAdded
<1>7. TypeOK'
  <2>1. /\ DOMAIN names' \subseteq Contents
        /\ \A c \in DOMAIN names' :
              /\ names'[c].stored \in 1..LastChunk[c]
              /\ names'[c].bitmap \subseteq 1..LastChunk[c]
    <3>1. Cached' \subseteq ChunkSet
      BY <1>1, <1>4, CachedFinite
    <3>2. /\ DOMAIN names' = {y[1] : y \in Cached'}
          /\ \A c \in DOMAIN names' :
                /\ names'[c].bitmap = Numbers(Cached', c)
                /\ names'[c].stored = Cardinality(names'[c].bitmap)
      BY <1>5 DEF RecordsAgree, Numbers
    <3>3. \A n : /\ DOMAIN n = {y[1] : y \in Cached'}
                 /\ \A c \in DOMAIN n : /\ n[c].bitmap = Numbers(Cached', c)
                                        /\ n[c].stored = Cardinality(n[c].bitmap)
                 => /\ DOMAIN n \subseteq Contents
                    /\ \A c \in DOMAIN n : /\ n[c].stored \in 1..LastChunk[c]
                                           /\ n[c].bitmap \subseteq 1..LastChunk[c]
      BY <3>1, RecordTypes
    <3> QED BY <3>2, <3>3, Zenon
  <2>2. recency' \in Seq(ChunkSet) /\ policy' \in {"l", "r"}
    BY <1>1, <1>2, MovedToBack DEF TypeOK
  <2> QED BY <1>4, <1>6, <2>1, <2>2 DEF TypeOK
<1>8. LeastRecentEvicted'
  <2> SUFFICES ASSUME LeastRecent' PROVE IsSuffix(list, recency)'
    BY DEF LeastRecentEvicted
  <2>1. LeastRecent /\ IsSuffix(list, recency)
    BY <1>1, <1>2 DEF LeastRecentEvicted, LeastRecent
  <2>2. IsSuffix(Append(Without(list, v), x), MoveToBack(recency, x))
    BY <1>1, <1>2, <1>3, <2>1, FrontEvicted
  <2>3. IsSuffix(list', recency')
    BY <1>2, <2>2, Zenon
  <2> QED BY <2>3 DEF IsSuffix, IsPrefix, Reverse
<1> QED BY <1>2, <1>4, <1>5, <1>6, <1>7, <1>8 DEF IInv

LEMMA NextInv == IInv /\ [Next]_vars => IInv'
<1> SUFFICES ASSUME IInv, [Next]_vars PROVE IInv'
  OBVIOUS
<1>1. CASE UNCHANGED vars
  <2>1. TypeOK'
    BY <1>1 DEF IInv, vars, TypeOK
  <2>2. RecordsAgree'
    BY <1>1 DEF IInv, vars, RecordsAgree, Cached, ToSet, IsInjective
  <2>3. SizeAccounted'
    <3>1. size' = size /\ Cached' = Cached
      BY <1>1 DEF vars, Cached, ToSet
    <3> QED BY <3>1 DEF IInv, SizeAccounted, UnitsOf, MapThenSumSet, MapThenFoldSet
  <2>4. LeastRecentEvicted'
    BY <1>1 DEF IInv, vars, LeastRecentEvicted, LeastRecent, IsSuffix, IsPrefix, Reverse
  <2> QED BY <2>1, <2>2, <2>3, <2>4 DEF IInv
<1>2. ASSUME NEW x \in ChunkSet, Use(x) PROVE IInv'
  BY <1>2, UseInv
<1>3. ASSUME NEW x \in ChunkSet, Add(x) PROVE IInv'
  <2>1. PICK v \in VictimSets(x) : /\ list' = Append(Without(list, v), x)
                                   /\ names' = Store(x, Evict(x, v))
                                   /\ size' = SizeAfter(x, v)
    BY <1>3 DEF Add
  <2> QED BY <1>3, <2>1, AddInv
<1> QED BY <1>1, <1>2, <1>3 DEF Next

LEMMA Inductive == Spec => []IInv
BY InitInv, NextInv, PTL DEF Spec

(* The list and its history hold chunks, the records and m_cache_size stay *)
(* within the contents' sizes and the limit.                               *)
THEOREM TypeCorrect == Spec => []TypeOK
<1>1. IInv => TypeOK
  BY DEF IInv
<1> QED BY <1>1, Inductive, PTL

(* The list and the records by name describe the same chunks, whatever     *)
(* was evicted, among them chunks of the content being added.              *)
THEOREM StructuresAgree == Spec => []RecordsAgree
<1>1. IInv => RecordsAgree
  BY DEF IInv
<1> QED BY <1>1, Inductive, PTL

(* m_cache_size is the room of the stored chunks and never above the       *)
(* limit, for every mix of chunk sizes.                                    *)
THEOREM SizeExact == Spec => []SizeAccounted
<1>1. IInv => SizeAccounted
  BY DEF IInv
<1> QED BY <1>1, Inductive, PTL

(* CacheLRU keeps the most recently used chunks, in their order of use.    *)
THEOREM LeastRecentlyUsed == Spec => []LeastRecentEvicted
<1>1. IInv => LeastRecentEvicted
  BY DEF IInv
<1> QED BY <1>1, Inductive, PTL

-----------------------------------------------------------------------------
LEMMA AbstractRoom ==
    \A S : Abstract!Room(S) = UnitsOf(S)
BY DEF Abstract!Room, UnitsOf, Abstract!MapThenSumSet, Abstract!MapThenFoldSet, MapThenSumSet, MapThenFoldSet


(* An addition evicts a set that the abstract store may give up.           *)
LEMMA AddImplements ==
    ASSUME IInv, NEW x \in ChunkSet, Add(x)
    PROVE  Abstract!Add(x)
<1>1. PICK v \in VictimSets(x) : /\ list' = Append(Without(list, v), x)
                                 /\ names' = Store(x, Evict(x, v))
                                 /\ size' = SizeAfter(x, v)
  BY DEF Add
<1>2. Cached' = (Cached \ v) \cup {x} /\ x \notin Cached
  BY <1>1, AddInv
<1>3. v \subseteq Cached /\ StopsAt(v, x) /\ TypeOK /\ SizeAccounted
  BY DEF IInv, VictimSets
<1>4. UnitsOf(Cached \ v) + Units(x) <= Limit
  <2>1. UnitsOf(Cached \ v) = size - UnitsOf(v)
    BY <1>3, RoomLeft
  <2> QED BY <1>3, <2>1 DEF StopsAt, Fits
<1>5. ASSUME v # {}
      PROVE  \E last \in v : UnitsOf((Cached \ v) \cup {last}) + Units(x) > Limit
  <2>1. PICK last \in v : ~Fits(v \ {last}, x)
    BY <1>3, <1>5 DEF StopsAt
  <2> DEFINE w == v \ {last}
  <2>2. w \subseteq Cached /\ Cached \ w = (Cached \ v) \cup {last}
    BY <1>3, <2>1
  <2>3. ~(size - UnitsOf(w) + Units(x) <= Limit)
    BY <2>1 DEF Fits
  <2> HIDE DEF w
  <2>4. UnitsOf(Cached \ w) = size - UnitsOf(w) /\ UnitsOf(Cached \ w) \in Nat
    BY <1>3, <2>2, RoomLeft
  <2>5. Units(x) \in Nat /\ Limit \in Nat
    BY ChunkType, LimitAssumption
  <2>6. UnitsOf(Cached \ w) + Units(x) > Limit
    BY <2>3, <2>4, <2>5
  <2> QED BY <2>2, <2>6, Zenon
<1>6. Abstract!JustEnough(v, x)
  BY <1>4, <1>5, AbstractRoom DEF Abstract!JustEnough
<1> QED BY <1>2, <1>3, <1>6 DEF Abstract!Add

(* Every run of either cache is one of the abstract store: lookups change  *)
(* nothing, an addition evicts no more than the room it needs.             *)
THEOREM ImplementsAbstract == Spec => ImplementsStore
<1>1. Init => Abstract!Init
  BY DEF Init, Abstract!Init, Cached, ToSet
<1>2. ASSUME IInv, [Next]_vars PROVE [Abstract!Next]_Cached
  <2>1. CASE UNCHANGED vars
    BY <2>1 DEF vars, Cached, ToSet
  <2>2. ASSUME NEW x \in ChunkSet, Use(x) PROVE Cached' = Cached
    BY <1>2, <2>2, UseInv
  <2>3. ASSUME NEW x \in ChunkSet, Add(x) PROVE Abstract!Next
    BY <1>2, <2>3, AddImplements DEF Abstract!Next
  <2> QED BY <1>2, <2>1, <2>2, <2>3 DEF Next
<1> QED BY <1>1, <1>2, Inductive, PTL DEF Spec, ImplementsStore, Abstract!Spec

=============================================================================
