----------------------------- MODULE DataLemmas -----------------------------
(***************************************************************************)
(* What the proofs about the components need of sums over finite sets and  *)
(* of removals from sequences.  Both are recursive; what they compute is   *)
(* proved by the least counterexample, as the induction theorems of the    *)
(* library, whose parameter is an operator, cannot be instantiated.        *)
(***************************************************************************)
EXTENDS Removal, SequencesExt, FiniteSetTheorems, SequenceTheorems, TLAPS

LEMMA LeastOf ==
    ASSUME NEW T, T \subseteq Nat, T # {}
    PROVE  \E n \in T : \A m \in T : n <= m
<1> DEFINE less == {ss \in Nat \X Nat : ss[1] < ss[2]}
<1>1. IsWellFoundedOn(less, Nat)
  BY NatLessThanWellFounded, Zenon DEF OpToRel
<1>2. PICK n \in T : \A m \in T : ~(<<m, n>> \in less)
  <2> HIDE DEF less
  <2> QED BY <1>1, WFMin
<1>3. ASSUME NEW m \in T PROVE n <= m
  <2>1. m \in Nat /\ n \in Nat
    OBVIOUS
  <2>2. <<m, n>> \in less <=> m < n
    BY <2>1
  <2>3. ~(m < n)
    BY <1>2, <2>2
  <2> QED BY <2>1, <2>3
<1> QED BY <1>3

-----------------------------------------------------------------------------
(* The sum of the weights w over the members of S, as MapThenSumSet takes  *)
(* it: one member after the other.                                         *)
Pick(s) == CHOOSE y \in s : TRUE

Step(w, s, h) == IF s = {} THEN 0 ELSE w[Pick(s)] + h[s \ {Pick(s)}]

Sums(w, S, h) == h = [s \in SUBSET S |-> Step(w, s, h)]

SumOver(w, S) == (CHOOSE h : Sums(w, S, h))[S]

LEMMA PickIn == ASSUME NEW s, s # {} PROVE Pick(s) \in s
BY DEF Pick

LEMMA SumsExist ==
    ASSUME NEW S, IsFiniteSet(S), NEW w, \A x \in S : w[x] \in Int
    PROVE  \E h \in [SUBSET S -> Int] : Sums(w, S, h)
<1> DEFINE Upto(n) == \E h \in [SUBSET S -> Int] :
                         \A s \in SUBSET S : Cardinality(s) <= n => h[s] = Step(w, s, h)
           T == {n \in Nat : ~Upto(n)}
<1>c. \A s \in SUBSET S : IsFiniteSet(s) /\ Cardinality(s) \in Nat
  BY FS_Subset, FS_CardinalityType
<1>s. ASSUME NEW h \in [SUBSET S -> Int], NEW s \in SUBSET S
      PROVE  Step(w, s, h) \in Int
  <2>1. CASE s = {}
    BY <2>1 DEF Step
  <2>2. CASE s # {}
    <3>1. Pick(s) \in s /\ s \ {Pick(s)} \in SUBSET S
      BY <2>2, PickIn
    <3>2. w[Pick(s)] \in Int /\ h[s \ {Pick(s)}] \in Int
      BY <3>1
    <3> QED BY <2>2, <3>2 DEF Step
  <2> QED BY <2>1, <2>2
<1>1. ASSUME T # {} PROVE FALSE
  <2>1. PICK n \in T : \A m \in T : n <= m
    <3>1. T \subseteq Nat
      OBVIOUS
    <3> HIDE DEF T
    <3> QED BY <1>1, <3>1, LeastOf
  <2>2. n \in Nat /\ ~Upto(n)
    OBVIOUS
  <2>3. CASE n = 0
    <3> DEFINE h == [s \in SUBSET S |-> 0]
    <3>1. ASSUME NEW s \in SUBSET S, Cardinality(s) <= 0
          PROVE  h[s] = Step(w, s, h)
      <4>1. s = {}
        BY <1>c, <3>1, FS_EmptySet
      <4> QED BY <4>1 DEF Step
    <3>2. h \in [SUBSET S -> Int]
      OBVIOUS
    <3> QED BY <2>2, <2>3, <3>1, <3>2
  <2>4. CASE n # 0
    <3>1. n - 1 \in Nat /\ Upto(n - 1)
      <4>1. n - 1 \in Nat /\ ~(n <= n - 1)
        BY <2>2, <2>4
      <4>2. n - 1 \notin T
        BY <2>1, <4>1
      <4> QED BY <4>1, <4>2
    <3>2. PICK h \in [SUBSET S -> Int] :
             \A s \in SUBSET S : Cardinality(s) <= n - 1 => h[s] = Step(w, s, h)
      BY <3>1
    <3> DEFINE g == [s \in SUBSET S |-> Step(w, s, h)]
    <3>3. g \in [SUBSET S -> Int]
      BY <1>s
    <3>4. ASSUME NEW s \in SUBSET S, Cardinality(s) <= n
          PROVE  g[s] = Step(w, s, g)
      <4>1. CASE s = {}
        BY <4>1 DEF Step
      <4>2. CASE s # {}
        <5> DEFINE r == s \ {Pick(s)}
        <5>1. Pick(s) \in s /\ r \in SUBSET S
          BY <4>2, PickIn
        <5>2. Cardinality(r) <= n - 1
          BY <1>c, <5>1, <3>4, <2>2, FS_RemoveElement
        <5>3. g[r] = h[r]
          BY <3>2, <5>1, <5>2
        <5>4. g[s] = w[Pick(s)] + h[r]
          BY <4>2 DEF Step
        <5> HIDE DEF g
        <5>5. Step(w, s, g) = w[Pick(s)] + g[r]
          BY <4>2 DEF Step
        <5> QED BY <5>3, <5>4, <5>5
      <4> QED BY <4>1, <4>2
    <3> HIDE DEF g
    <3> QED BY <2>2, <3>3, <3>4
  <2> QED BY <2>3, <2>4
<1>2. Cardinality(S) \in Nat /\ Upto(Cardinality(S))
  BY <1>1, <1>c
<1>3. PICK h \in [SUBSET S -> Int] :
         \A s \in SUBSET S : Cardinality(s) <= Cardinality(S) => h[s] = Step(w, s, h)
  BY <1>2
<1>4. \A s \in SUBSET S : h[s] = Step(w, s, h)
  BY <1>3, FS_Subset
<1>5. h = [s \in SUBSET S |-> Step(w, s, h)]
  BY <1>4
<1> QED BY <1>5 DEF Sums

(* A set where two functions differ has a least subset where they do.      *)
LEMMA LeastSet ==
    ASSUME NEW S, IsFiniteSet(S), NEW T, T \subseteq SUBSET S, T # {}
    PROVE  \E s \in T : \A r \in T : ~(r \subseteq s /\ r # s)
<1>1. IsWellFoundedOn(StrictSubsetOrdering(S), SUBSET S)
  BY FS_StrictSubsetOrderingWellFounded, FS_FiniteSubsetsOfFinite
<1>2. PICK s \in T : \A r \in T : ~(<<r, s>> \in StrictSubsetOrdering(S))
  BY <1>1, WFMin
<1>3. \A r \in T : ~(r \subseteq s /\ r # s)
  BY <1>2 DEF StrictSubsetOrdering
<1> QED BY <1>3

(* Functions that sum up the same weights agree on the sets of both.       *)
LEMMA SumsAgree ==
    ASSUME NEW S, IsFiniteSet(S), NEW R, R \subseteq S, NEW w, NEW h, NEW g,
           Sums(w, S, h), Sums(w, R, g)
    PROVE  h[R] = g[R]
<1> DEFINE T == {s \in SUBSET R : h[s] # g[s]}
<1>0. IsFiniteSet(R)
  BY FS_Subset
<1>1. ASSUME T # {} PROVE FALSE
  <2>1. PICK s \in T : \A r \in T : ~(r \subseteq s /\ r # s)
    <3>1. T \subseteq SUBSET R
      OBVIOUS
    <3> HIDE DEF T
    <3> QED BY <3>1, <1>0, <1>1, LeastSet
  <2>2. s \in SUBSET R /\ s \in SUBSET S /\ h[s] # g[s]
    OBVIOUS
  <2>3. h[s] = Step(w, s, h) /\ g[s] = Step(w, s, g)
    BY <2>2 DEF Sums
  <2>4. s # {}
    BY <2>2, <2>3 DEF Step
  <2>5. Pick(s) \in s
    BY <2>4, PickIn
  <2>6. h[s \ {Pick(s)}] = g[s \ {Pick(s)}]
    BY <2>1, <2>2, <2>5
  <2> QED BY <2>2, <2>3, <2>4, <2>6 DEF Step
<1> QED BY <1>1

LEMMA SumIs ==
    ASSUME NEW S, IsFiniteSet(S), NEW w, \A x \in S : w[x] \in Int
    PROVE  /\ SumOver(w, S) \in Int
           /\ SumOver(w, {}) = 0
           /\ S # {} => SumOver(w, S) = w[Pick(S)] + SumOver(w, S \ {Pick(S)})
<1> DEFINE H(R) == CHOOSE h : Sums(w, R, h)
<1>1. ASSUME NEW R, R \subseteq S
      PROVE  Sums(w, R, H(R))
  <2>1. IsFiniteSet(R) /\ \A x \in R : w[x] \in Int
    BY <1>1, FS_Subset
  <2>2. \E h : Sums(w, R, h)
    BY <2>1, SumsExist
  <2> QED BY <2>2
<1>2. ASSUME NEW R, R \subseteq S
      PROVE  SumOver(w, R) = H(S)[R]
  BY <1>1, <1>2, SumsAgree DEF SumOver
<1>3. \A R : R \subseteq S => H(S)[R] = Step(w, R, H(S))
  BY <1>1 DEF Sums
<1>4. PICK h \in [SUBSET S -> Int] : Sums(w, S, h)
  BY SumsExist
<1>5. H(S)[S] = h[S]
  BY <1>1, <1>4, SumsAgree
<1> HIDE DEF H
<1>6. SumOver(w, S) \in Int
  BY <1>2, <1>4, <1>5
<1>7. SumOver(w, {}) = 0
  BY <1>2, <1>3 DEF Step
<1>8. ASSUME S # {} PROVE SumOver(w, S) = w[Pick(S)] + SumOver(w, S \ {Pick(S)})
  BY <1>2, <1>3, <1>8 DEF Step
<1> QED BY <1>6, <1>7, <1>8

(* Any member may be the one that is taken out.                            *)
LEMMA SumTakeOut ==
    ASSUME NEW S, IsFiniteSet(S), NEW w, \A x \in S : w[x] \in Int, NEW x \in S
    PROVE  SumOver(w, S) = w[x] + SumOver(w, S \ {x})
<1> DEFINE Bad(s) == \E y \in s : SumOver(w, s) # w[y] + SumOver(w, s \ {y})
           T == {s \in SUBSET S : Bad(s)}
<1>0. \A s \in SUBSET S : IsFiniteSet(s)
  BY FS_Subset
<1>t. \A s \in SUBSET S : SumOver(w, s) \in Int
  BY <1>0, SumIs
<1>1. ASSUME T # {} PROVE FALSE
  <2>1. PICK s \in T : \A r \in T : ~(r \subseteq s /\ r # s)
    <3>1. T \subseteq SUBSET S
      OBVIOUS
    <3> HIDE DEF T
    <3> QED BY <3>1, <1>1, LeastSet
  <2>2. PICK y \in s : SumOver(w, s) # w[y] + SumOver(w, s \ {y})
    BY <2>1
  <2> DEFINE p == Pick(s)
  <2>3. s \in SUBSET S /\ p \in s
    BY <2>1, <2>2, PickIn
  <2>4. SumOver(w, s) = w[p] + SumOver(w, s \ {p})
    BY <1>0, <2>3, SumIs
  <2> HIDE DEF p
  <2>5. y # p
    BY <2>2, <2>4
  <2>6. ASSUME NEW r \in SUBSET S, r \subseteq s, r # s, NEW z \in r
        PROVE  SumOver(w, r) = w[z] + SumOver(w, r \ {z})
    BY <2>1, <2>6
  <2>7. SumOver(w, s \ {p}) = w[y] + SumOver(w, (s \ {p}) \ {y})
    BY <2>3, <2>5, <2>6
  <2>8. SumOver(w, s \ {y}) = w[p] + SumOver(w, (s \ {y}) \ {p})
    BY <2>3, <2>5, <2>6
  <2>9. (s \ {p}) \ {y} = (s \ {y}) \ {p}
    OBVIOUS
  <2>10. /\ w[p] \in Int /\ w[y] \in Int
         /\ SumOver(w, (s \ {p}) \ {y}) \in Int
    BY <1>t, <2>3
  <2>11. SumOver(w, s \ {y}) = w[p] + SumOver(w, (s \ {p}) \ {y})
    BY <2>8, <2>9, Zenon
  <2>12. SumOver(w, s) = w[p] + (w[y] + SumOver(w, (s \ {p}) \ {y}))
    BY <2>4, <2>7, Zenon
  <2> QED BY <2>2, <2>10, <2>11, <2>12
<1> QED BY <1>1

LEMMA SumEmpty == ASSUME NEW w PROVE SumOver(w, {}) = 0
BY SumIs, FS_EmptySet

LEMMA SumType ==
    ASSUME NEW S, IsFiniteSet(S), NEW w, \A x \in S : w[x] \in Int
    PROVE  SumOver(w, S) \in Int
BY SumIs

LEMMA SumAdd ==
    ASSUME NEW S, IsFiniteSet(S), NEW w, \A y \in S : w[y] \in Int, NEW x, x \notin S,
           w[x] \in Int
    PROVE  SumOver(w, S \cup {x}) = SumOver(w, S) + w[x]
<1>1. IsFiniteSet(S \cup {x})
  BY FS_AddElement
<1>2. (S \cup {x}) \ {x} = S
  OBVIOUS
<1>3. SumOver(w, S \cup {x}) = w[x] + SumOver(w, (S \cup {x}) \ {x})
  BY <1>1, SumTakeOut
<1>4. SumOver(w, S) \in Int
  BY SumType
<1>5. SumOver(w, S \cup {x}) = w[x] + SumOver(w, S)
  BY <1>2, <1>3, Zenon
<1> QED BY <1>4, <1>5

(* The members of R taken out one after the other.                         *)
LEMMA SumDifference ==
    ASSUME NEW S, IsFiniteSet(S), NEW w, \A x \in S : w[x] \in Int, NEW R, R \subseteq S
    PROVE  SumOver(w, S \ R) = SumOver(w, S) - SumOver(w, R)
<1> DEFINE T == {s \in SUBSET S : SumOver(w, S \ s) # SumOver(w, S) - SumOver(w, s)}
<1>0. \A s \in SUBSET S : IsFiniteSet(s) /\ SumOver(w, s) \in Int
  BY FS_Subset, SumType
<1>1. ASSUME T # {} PROVE FALSE
  <2>1. PICK s \in T : \A r \in T : ~(r \subseteq s /\ r # s)
    <3>1. T \subseteq SUBSET S
      OBVIOUS
    <3> HIDE DEF T
    <3> QED BY <3>1, <1>1, LeastSet
  <2>2. s \in SUBSET S /\ SumOver(w, S \ s) # SumOver(w, S) - SumOver(w, s)
    OBVIOUS
  <2>3. s # {}
    <3>1. S \ {} = S
      OBVIOUS
    <3>2. SumOver(w, {}) = 0
      BY SumEmpty
    <3>3. SumOver(w, S) \in Int
      BY <1>0
    <3>4. SumOver(w, S \ {}) = SumOver(w, S) - SumOver(w, {})
      BY <3>1, <3>2, <3>3
    <3> QED BY <2>2, <3>4
  <2>4. PICK x \in s : TRUE
    BY <2>3
  <2> DEFINE r == s \ {x}
  <2>5. SumOver(w, S \ r) = SumOver(w, S) - SumOver(w, r)
    BY <2>1, <2>2, <2>4
  <2>6. SumOver(w, s) = w[x] + SumOver(w, r)
    BY <1>0, <2>2, <2>4, SumTakeOut
  <2>7. (S \ r) \ {x} = S \ s /\ x \in S \ r /\ S \ r \in SUBSET S
    BY <2>2, <2>4
  <2>8. SumOver(w, S \ r) = w[x] + SumOver(w, S \ s)
    BY <1>0, <2>7, SumTakeOut
  <2>9. /\ w[x] \in Int /\ SumOver(w, r) \in Int /\ SumOver(w, S \ s) \in Int
        /\ SumOver(w, S) \in Int
    BY <1>0, <2>2, <2>4
  <2> HIDE DEF r
  <2> QED BY <2>2, <2>5, <2>6, <2>8, <2>9
<1> QED BY <1>1

LEMMA SumNat ==
    ASSUME NEW S, IsFiniteSet(S), NEW w, \A x \in S : w[x] \in Nat
    PROVE  SumOver(w, S) \in Nat
<1> DEFINE T == {s \in SUBSET S : SumOver(w, s) \notin Nat}
<1>0. \A s \in SUBSET S : IsFiniteSet(s)
  BY FS_Subset
<1>1. ASSUME T # {} PROVE FALSE
  <2>1. PICK s \in T : \A r \in T : ~(r \subseteq s /\ r # s)
    <3>1. T \subseteq SUBSET S
      OBVIOUS
    <3> HIDE DEF T
    <3> QED BY <3>1, <1>1, LeastSet
  <2>2. s \in SUBSET S /\ SumOver(w, s) \notin Nat
    OBVIOUS
  <2>3. PICK x \in s : TRUE
    BY <2>2, SumEmpty
  <2>4. SumOver(w, s \ {x}) \in Nat
    BY <2>1, <2>2, <2>3
  <2>5. SumOver(w, s) = w[x] + SumOver(w, s \ {x}) /\ w[x] \in Nat
    BY <1>0, <2>2, <2>3, SumTakeOut
  <2> QED BY <2>2, <2>4, <2>5
<1> QED BY <1>1

-----------------------------------------------------------------------------
(* The function upTo of Without.                                           *)
LeftAt(s, S, f, i) ==
    IF i = 0 THEN <<>> ELSE IF s[i] \in S THEN f[i - 1] ELSE Append(f[i - 1], s[i])

Lefts(s, S, f) == f = [i \in 0..Len(s) |-> LeftAt(s, S, f, i)]

LEMMA LeftsExist ==
    ASSUME NEW X, NEW s \in Seq(X), NEW S
    PROVE  \E f \in [0..Len(s) -> Seq(X)] : Lefts(s, S, f)
<1> DEFINE Upto(n) == \E f \in [0..Len(s) -> Seq(X)] :
                         \A i \in 0..Len(s) : i <= n => f[i] = LeftAt(s, S, f, i)
           T == {n \in Nat : ~Upto(n)}
<1>l. Len(s) \in Nat /\ \A i \in 1..Len(s) : s[i] \in X
  BY LenProperties, ElementOfSeq
<1>s. ASSUME NEW f \in [0..Len(s) -> Seq(X)], NEW i \in 0..Len(s)
      PROVE  LeftAt(s, S, f, i) \in Seq(X)
  <2>1. CASE i = 0
    BY <2>1, EmptySeq DEF LeftAt
  <2>2. CASE i # 0
    <3>1. i \in 1..Len(s) /\ i - 1 \in 0..Len(s)
      BY <1>l, <2>2
    <3>2. s[i] \in X /\ f[i - 1] \in Seq(X)
      BY <1>l, <3>1
    <3>3. Append(f[i - 1], s[i]) \in Seq(X)
      BY <3>2, AppendProperties
    <3> QED BY <2>2, <3>2, <3>3 DEF LeftAt
  <2> QED BY <2>1, <2>2
<1>1. ASSUME T # {} PROVE FALSE
  <2>1. PICK n \in T : \A m \in T : n <= m
    <3>1. T \subseteq Nat
      OBVIOUS
    <3> HIDE DEF T
    <3> QED BY <1>1, <3>1, LeastOf
  <2>2. n \in Nat /\ ~Upto(n)
    OBVIOUS
  <2>3. CASE n = 0
    <3> DEFINE f == [i \in 0..Len(s) |-> <<>>]
    <3>1. \A i \in 0..Len(s) : i <= 0 => f[i] = LeftAt(s, S, f, i)
      BY DEF LeftAt
    <3>2. f \in [0..Len(s) -> Seq(X)]
      BY EmptySeq
    <3> QED BY <2>2, <2>3, <3>1, <3>2
  <2>4. CASE n # 0
    <3>1. n - 1 \in Nat /\ Upto(n - 1)
      <4>1. n - 1 \in Nat /\ ~(n <= n - 1)
        BY <2>2, <2>4
      <4>2. n - 1 \notin T
        BY <2>1, <4>1
      <4> QED BY <4>1, <4>2
    <3>2. PICK f \in [0..Len(s) -> Seq(X)] :
             \A i \in 0..Len(s) : i <= n - 1 => f[i] = LeftAt(s, S, f, i)
      BY <3>1
    <3> DEFINE g == [i \in 0..Len(s) |-> LeftAt(s, S, f, i)]
    <3>3. g \in [0..Len(s) -> Seq(X)]
      BY <1>s
    <3>4. ASSUME NEW i \in 0..Len(s), i <= n
          PROVE  g[i] = LeftAt(s, S, g, i)
      <4>1. CASE i = 0
        BY <4>1 DEF LeftAt
      <4>2. CASE i # 0
        <5>1. i - 1 \in 0..Len(s) /\ i - 1 <= n - 1
          BY <1>l, <4>2, <3>4, <2>2
        <5>2. g[i - 1] = f[i - 1]
          BY <3>2, <5>1
        <5> QED BY <5>2 DEF LeftAt
      <4> QED BY <4>1, <4>2
    <3> HIDE DEF g
    <3> QED BY <2>2, <3>3, <3>4
  <2> QED BY <2>3, <2>4
<1>2. Upto(Len(s))
  BY <1>1, <1>l
<1>3. PICK f \in [0..Len(s) -> Seq(X)] :
         \A i \in 0..Len(s) : i <= Len(s) => f[i] = LeftAt(s, S, f, i)
  BY <1>2
<1>4. \A i \in 0..Len(s) : f[i] = LeftAt(s, S, f, i)
  BY <1>3, <1>l
<1>5. f = [i \in 0..Len(s) |-> LeftAt(s, S, f, i)]
  BY <1>4
<1> QED BY <1>5 DEF Lefts

(* Without is the last value of a function that takes s from the front.    *)
Leaves(s, S, f) ==
    /\ f[0] = <<>> /\ Without(s, S) = f[Len(s)]
    /\ \A i \in 1..Len(s) :
          f[i] = IF s[i] \in S THEN f[i - 1] ELSE Append(f[i - 1], s[i])

LEMMA WithoutSteps ==
    ASSUME NEW X, NEW s \in Seq(X), NEW S
    PROVE  \E f \in [0..Len(s) -> Seq(X)] : Leaves(s, S, f)
<1> DEFINE g == CHOOSE f : Lefts(s, S, f)
<1>l. Len(s) \in Nat
  BY LenProperties
<1>1. PICK f \in [0..Len(s) -> Seq(X)] : Lefts(s, S, f)
  BY LeftsExist
<1>2. Lefts(s, S, g)
  BY <1>1
<1>3. Without(s, S) = g[Len(s)]
  BY DEF Without, Lefts, LeftAt
<1> HIDE DEF g
<1> DEFINE T == {i \in 0..Len(s) : g[i] # f[i]}
<1>4. ASSUME T # {} PROVE FALSE
  <2>1. PICK i \in T : \A m \in T : i <= m
    <3>1. T \subseteq Nat
      OBVIOUS
    <3> HIDE DEF T
    <3> QED BY <1>4, <3>1, LeastOf
  <2>2. i \in 0..Len(s) /\ g[i] # f[i]
    OBVIOUS
  <2>3. g[i] = LeftAt(s, S, g, i) /\ f[i] = LeftAt(s, S, f, i)
    BY <1>1, <1>2, <2>2 DEF Lefts
  <2>4. i # 0
    BY <2>2, <2>3 DEF LeftAt
  <2>5. i - 1 \in 0..Len(s) /\ ~(i <= i - 1)
    BY <1>l, <2>2, <2>4
  <2>6. g[i - 1] = f[i - 1]
    BY <2>1, <2>5
  <2> QED BY <2>2, <2>3, <2>6 DEF LeftAt
<1>5. Without(s, S) = f[Len(s)]
  BY <1>3, <1>4, <1>l
<1>6. f[0] = <<>>
  BY <1>1, <1>l DEF Lefts, LeftAt
<1>7. ASSUME NEW i \in 1..Len(s)
      PROVE  f[i] = IF s[i] \in S THEN f[i - 1] ELSE Append(f[i - 1], s[i])
  <2>1. i \in 0..Len(s) /\ i # 0
    BY <1>l
  <2>2. f[i] = LeftAt(s, S, f, i)
    BY <1>1, <2>1 DEF Lefts
  <2> QED BY <2>1, <2>2 DEF LeftAt
<1> QED BY <1>5, <1>6, <1>7 DEF Leaves

LEMMA ToSetAppend ==
    ASSUME NEW X, NEW s \in Seq(X), NEW e \in X
    PROVE  /\ ToSet(Append(s, e)) = ToSet(s) \cup {e}
           /\ IsInjective(Append(s, e)) <=> IsInjective(s) /\ e \notin ToSet(s)
<1> DEFINE t == Append(s, e)
<1>1. /\ t \in Seq(X) /\ Len(t) = Len(s) + 1 /\ t[Len(s) + 1] = e
      /\ \A i \in 1..Len(s) : t[i] = s[i]
  BY AppendProperties
<1>2. /\ Len(s) \in Nat /\ DOMAIN s = 1..Len(s) /\ DOMAIN t = 1..(Len(s) + 1)
  BY <1>1, LenProperties
<1> HIDE DEF t
<1>3. ToSet(t) = ToSet(s) \cup {e}
  <2>1. DOMAIN t = 1..Len(s) \cup {Len(s) + 1}
    BY <1>2
  <2> QED BY <1>1, <1>2, <2>1 DEF ToSet
<1>4. IsInjective(t) => IsInjective(s) /\ e \notin ToSet(s)
  <2> SUFFICES ASSUME IsInjective(t) PROVE IsInjective(s) /\ e \notin ToSet(s)
    OBVIOUS
  <2>1. \A i, j \in 1..(Len(s) + 1) : t[i] = t[j] => i = j
    BY <1>2 DEF IsInjective
  <2>2. ASSUME NEW i \in 1..Len(s) PROVE i \in 1..(Len(s) + 1) /\ i # Len(s) + 1
    BY <1>2
  <2>3. Len(s) + 1 \in 1..(Len(s) + 1)
    BY <1>2
  <2>4. \A i, j \in 1..Len(s) : s[i] = s[j] => i = j
    BY <1>1, <2>1, <2>2
  <2>5. \A i \in 1..Len(s) : s[i] # e
    BY <1>1, <2>1, <2>2, <2>3
  <2> QED BY <1>2, <2>4, <2>5 DEF IsInjective, ToSet
<1>5. IsInjective(s) /\ e \notin ToSet(s) => IsInjective(t)
  <2> SUFFICES ASSUME IsInjective(s), e \notin ToSet(s),
                      NEW i \in 1..(Len(s) + 1), NEW j \in 1..(Len(s) + 1), t[i] = t[j]
               PROVE  i = j
    BY <1>2 DEF IsInjective
  <2>1. \A k \in 1..Len(s) : s[k] # e /\ t[k] = s[k]
    BY <1>1, <1>2 DEF ToSet
  <2>2. \A k, l \in 1..Len(s) : s[k] = s[l] => k = l
    BY <1>2 DEF IsInjective
  <2>3. \A k \in 1..(Len(s) + 1) : k \in 1..Len(s) \/ k = Len(s) + 1
    BY <1>2
  <2> QED BY <1>1, <2>1, <2>2, <2>3
<1> QED BY <1>3, <1>4, <1>5 DEF t

(* What is left is what was there and is not in S; no element twice that   *)
(* was not there twice.                                                    *)
LEMMA WithoutProperties ==
    ASSUME NEW X, NEW s \in Seq(X), NEW S
    PROVE  /\ Without(s, S) \in Seq(X)
           /\ ToSet(Without(s, S)) = ToSet(s) \ S
           /\ IsInjective(s) => IsInjective(Without(s, S))
<1>l. Len(s) \in Nat /\ DOMAIN s = 1..Len(s) /\ \A i \in 1..Len(s) : s[i] \in X
  BY LenProperties, ElementOfSeq
<1>0. PICK f \in [0..Len(s) -> Seq(X)] : Leaves(s, S, f)
  BY WithoutSteps
<1>1. /\ f[0] = <<>> /\ Without(s, S) = f[Len(s)]
      /\ \A i \in 1..Len(s) :
            f[i] = IF s[i] \in S THEN f[i - 1] ELSE Append(f[i - 1], s[i])
  BY <1>0 DEF Leaves
<1> DEFINE Prefixed(i) == {s[j] : j \in 1..i}
           Good(i) == /\ ToSet(f[i]) = Prefixed(i) \ S
                      /\ IsInjective(s) => IsInjective(f[i])
           T == {i \in 0..Len(s) : ~Good(i)}
<1>2. ASSUME T # {} PROVE FALSE
  <2>1. PICK i \in T : \A m \in T : i <= m
    <3>1. T \subseteq Nat
      OBVIOUS
    <3> HIDE DEF T
    <3> QED BY <1>2, <3>1, LeastOf
  <2>2. i \in 0..Len(s) /\ ~Good(i)
    OBVIOUS
  <2>3. CASE i = 0
    BY <1>1, <2>2, <2>3 DEF ToSet, IsInjective
  <2>4. CASE i # 0
    <3>1. i - 1 \in 0..Len(s) /\ ~(i <= i - 1) /\ i \in 1..Len(s)
      BY <1>l, <2>2, <2>4
    <3>2. Good(i - 1)
      BY <2>1, <3>1
    <3>3. /\ f[i] = IF s[i] \in S THEN f[i - 1] ELSE Append(f[i - 1], s[i])
          /\ f[i - 1] \in Seq(X) /\ s[i] \in X
      BY <1>1, <1>l, <3>1
    <3>4. Prefixed(i) = Prefixed(i - 1) \cup {s[i]}
      <4>1. 1..i = 1..(i - 1) \cup {i}
        BY <3>1, <1>l
      <4> QED BY <4>1
    <3>5. IsInjective(s) => s[i] \notin Prefixed(i - 1)
      <4>1. \A j \in 1..(i - 1) : j \in 1..Len(s) /\ j # i
        BY <3>1, <1>l
      <4> QED BY <3>1, <4>1, <1>l DEF IsInjective
    <3> HIDE DEF Prefixed
    <3>6. CASE s[i] \in S
      BY <2>2, <3>2, <3>3, <3>4, <3>6
    <3>7. CASE s[i] \notin S
      <4>1. /\ ToSet(f[i]) = ToSet(f[i - 1]) \cup {s[i]}
            /\ IsInjective(f[i]) <=> IsInjective(f[i - 1]) /\ s[i] \notin ToSet(f[i - 1])
        BY <3>3, <3>7, ToSetAppend
      <4> QED BY <2>2, <3>2, <3>4, <3>5, <3>7, <4>1
    <3> QED BY <3>6, <3>7
  <2> QED BY <2>3, <2>4
<1>3. Good(Len(s))
  <2>1. Len(s) \in 0..Len(s)
    BY <1>l
  <2> HIDE DEF Good
  <2> QED BY <1>2, <2>1
<1>4. Prefixed(Len(s)) = ToSet(s)
  BY <1>l DEF ToSet
<1> QED BY <1>1, <1>3, <1>4, <1>l

(* Nothing of s is in S, or all of it.                                     *)
LEMMA WithoutNone ==
    ASSUME NEW X, NEW s \in Seq(X), NEW S, ToSet(s) \cap S = {}
    PROVE  Without(s, S) = s
<1>l. Len(s) \in Nat /\ DOMAIN s = 1..Len(s) /\ \A i \in 1..Len(s) : s[i] \in X
  BY LenProperties, ElementOfSeq
<1>0. PICK f \in [0..Len(s) -> Seq(X)] : Leaves(s, S, f)
  BY WithoutSteps
<1>1. /\ f[0] = <<>> /\ Without(s, S) = f[Len(s)]
      /\ \A i \in 1..Len(s) : f[i] = Append(f[i - 1], s[i])
  BY <1>0, <1>l DEF Leaves, ToSet
<1> DEFINE Good(i) == Len(f[i]) = i /\ \A j \in 1..i : f[i][j] = s[j]
           T == {i \in 0..Len(s) : ~Good(i)}
<1>2. ASSUME T # {} PROVE FALSE
  <2>1. PICK i \in T : \A m \in T : i <= m
    <3>1. T \subseteq Nat
      OBVIOUS
    <3> HIDE DEF T
    <3> QED BY <1>2, <3>1, LeastOf
  <2>2. i \in 0..Len(s) /\ ~Good(i)
    OBVIOUS
  <2>3. CASE i = 0
    BY <1>1, <2>2, <2>3
  <2>4. CASE i # 0
    <3>1. i - 1 \in 0..Len(s) /\ ~(i <= i - 1) /\ i \in 1..Len(s)
      BY <1>l, <2>2, <2>4
    <3>2. Good(i - 1)
      BY <2>1, <3>1
    <3>3. f[i] = Append(f[i - 1], s[i]) /\ f[i - 1] \in Seq(X) /\ s[i] \in X
      BY <1>1, <1>l, <3>1
    <3>4. /\ Len(f[i]) = i /\ f[i][i] = s[i]
          /\ \A j \in 1..(i - 1) : f[i][j] = f[i - 1][j]
      BY <3>1, <3>2, <3>3, <1>l, AppendProperties
    <3>5. \A j \in 1..i : j \in 1..(i - 1) \/ j = i
      BY <3>1
    <3> QED BY <2>2, <3>2, <3>4, <3>5
  <2> QED BY <2>3, <2>4
<1>3. Good(Len(s))
  <2>1. Len(s) \in 0..Len(s)
    BY <1>l
  <2> HIDE DEF Good
  <2> QED BY <1>2, <2>1
<1>4. f[Len(s)] \in Seq(X)
  BY <1>l
<1> QED BY <1>1, <1>3, <1>4, SeqEqual

LEMMA WithoutAll ==
    ASSUME NEW X, NEW s \in Seq(X), NEW S, ToSet(s) \subseteq S
    PROVE  Without(s, S) = <<>>
<1>1. Without(s, S) \in Seq(X) /\ ToSet(Without(s, S)) = {}
  BY WithoutProperties
<1>2. Len(Without(s, S)) = 0
  BY <1>1, LenProperties DEF ToSet
<1> QED BY <1>1, <1>2, EmptySeq

LEMMA ToSetConcat ==
    ASSUME NEW X, NEW s \in Seq(X), NEW t \in Seq(X)
    PROVE  ToSet(s \o t) = ToSet(s) \cup ToSet(t)
<1>1. ToSet(s) = Range(s) /\ ToSet(t) = Range(t) /\ ToSet(s \o t) = Range(s \o t)
  BY DEF ToSet, Range
<1> QED BY <1>1, RangeConcatenation

LEMMA AppendConcat ==
    ASSUME NEW X, NEW s \in Seq(X), NEW t \in Seq(X), NEW e \in X
    PROVE  s \o Append(t, e) = Append(s \o t, e)
<1>1. <<e>> \in Seq(X)
  OBVIOUS
<1>2. Append(t, e) = t \o <<e>> /\ s \o t \in Seq(X)
  BY AppendIsConcat, ConcatProperties
<1>3. Append(s \o t, e) = (s \o t) \o <<e>>
  BY <1>2, AppendIsConcat
<1> QED BY <1>1, <1>2, <1>3, ConcatAssociative

(* What is left of two sequences, one after the other.                     *)
LEMMA WithoutConcat ==
    ASSUME NEW X, NEW s \in Seq(X), NEW t \in Seq(X), NEW S
    PROVE  Without(s \o t, S) = Without(s, S) \o Without(t, S)
<1> DEFINE u == s \o t
           n == Len(s)
           m == Len(t)
<1>l. /\ n \in Nat /\ m \in Nat /\ u \in Seq(X) /\ Len(u) = n + m
      /\ \A i \in 1..n : s[i] \in X /\ u[i] = s[i]
      /\ \A i \in 1..m : t[i] \in X /\ u[n + i] = t[i]
  <2>1. n \in Nat /\ m \in Nat
    BY LenProperties
  <2>2. u \in Seq(X) /\ Len(u) = n + m
        /\ \A i \in 1..(n + m) : u[i] = IF i <= n THEN s[i] ELSE t[i - n]
    BY ConcatProperties
  <2>3. (\A i \in 1..n : s[i] \in X) /\ \A i \in 1..m : t[i] \in X
    BY ElementOfSeq
  <2> HIDE DEF n, m, u
  <2>4. \A i \in 1..n : i \in 1..(n + m) /\ i <= n
    BY <2>1
  <2>5. \A i \in 1..m : (n + i) \in 1..(n + m) /\ ~(n + i <= n) /\ (n + i) - n = i
    BY <2>1
  <2> QED BY <2>1, <2>2, <2>3, <2>4, <2>5
<1>a. \A a, b \in Seq(X), e \in X : a \o Append(b, e) = Append(a \o b, e)
  BY AppendConcat
<1>1. PICK f \in [0..n -> Seq(X)] : Leaves(s, S, f)
  BY WithoutSteps
<1>2. PICK g \in [0..m -> Seq(X)] : Leaves(t, S, g)
  BY WithoutSteps
<1>3. PICK h \in [0..Len(u) -> Seq(X)] : Leaves(u, S, h)
  BY <1>l, WithoutSteps
<1> HIDE DEF u
<1> DEFINE A == {i \in 0..n : h[i] # f[i]}
           B == {i \in 0..m : h[n + i] # f[n] \o g[i]}
<1>4. ASSUME A # {} PROVE FALSE
  <2>1. PICK i \in A : \A j \in A : i <= j
    <3>1. A \subseteq Nat
      OBVIOUS
    <3> HIDE DEF A
    <3> QED BY <1>4, <3>1, LeastOf
  <2>2. i \in 0..n /\ h[i] # f[i]
    OBVIOUS
  <2>3. i # 0
    BY <1>1, <1>3, <2>2 DEF Leaves
  <2> HIDE DEF n, m
  <2>4. i - 1 \in 0..n /\ ~(i <= i - 1) /\ i \in 1..n /\ i \in 1..Len(u)
    BY <1>l, <2>2, <2>3
  <2>5. h[i - 1] = f[i - 1] /\ u[i] = s[i]
    BY <1>l, <2>1, <2>4
  <2>6. /\ f[i] = IF s[i] \in S THEN f[i - 1] ELSE Append(f[i - 1], s[i])
        /\ h[i] = IF u[i] \in S THEN h[i - 1] ELSE Append(h[i - 1], u[i])
    BY <1>1, <1>3, <2>4 DEF Leaves, n
  <2> QED BY <2>2, <2>5, <2>6
<1>5. ASSUME B # {} PROVE FALSE
  <2>1. PICK i \in B : \A j \in B : i <= j
    <3>1. B \subseteq Nat
      OBVIOUS
    <3> HIDE DEF B
    <3> QED BY <1>5, <3>1, LeastOf
  <2>2. i \in 0..m /\ h[n + i] # f[n] \o g[i]
    OBVIOUS
  <2>3. n \in 0..n /\ f[n] \in Seq(X) /\ h[n] = f[n]
    <3>1. n \in 0..n
      BY <1>l
    <3> QED BY <1>4, <3>1
  <2>4. i # 0
    <3>1. g[0] = <<>>
      BY <1>2 DEF Leaves
    <3>2. f[n] \o <<>> = f[n]
      BY <2>3, ConcatEmptySeq
    <3>3. n + 0 = n
      BY <1>l
    <3> QED BY <2>2, <2>3, <3>1, <3>2, <3>3
  <2> HIDE DEF n, m
  <2>5. /\ i - 1 \in 0..m /\ ~(i <= i - 1) /\ i \in 1..m /\ (n + i) \in 1..Len(u)
        /\ (n + i) - 1 = n + (i - 1)
    BY <1>l, <2>2, <2>4
  <2>6. h[n + (i - 1)] = f[n] \o g[i - 1] /\ u[n + i] = t[i] /\ t[i] \in X
        /\ g[i - 1] \in Seq(X)
    BY <1>l, <2>1, <2>5
  <2>7. /\ g[i] = IF t[i] \in S THEN g[i - 1] ELSE Append(g[i - 1], t[i])
        /\ h[n + i] = IF u[n + i] \in S THEN h[n + (i - 1)]
                      ELSE Append(h[n + (i - 1)], u[n + i])
    BY <1>2, <1>3, <2>5 DEF Leaves, m
  <2>8. f[n] \o Append(g[i - 1], t[i]) = Append(f[n] \o g[i - 1], t[i])
    BY <1>a, <2>3, <2>6
  <2> QED BY <2>2, <2>6, <2>7, <2>8
<1>6. h[n + m] = f[n] \o g[m]
  <2>1. m \in 0..m
    BY <1>l
  <2> QED BY <1>5, <2>1
<1>7. Without(s, S) = f[n] /\ Without(t, S) = g[m] /\ Without(u, S) = h[n + m]
  BY <1>1, <1>2, <1>3, <1>l DEF Leaves
<1> QED BY <1>6, <1>7 DEF u

-----------------------------------------------------------------------------
(* A suffix is what follows some front.                                    *)
LEMMA SuffixIs ==
    ASSUME NEW X, NEW s \in Seq(X), NEW t \in Seq(X)
    PROVE  IsSuffix(s, t) <=> \E u \in Seq(X) : t = u \o s
<1> DEFINE n == Len(s)
           m == Len(t)
           Fits == n <= m /\ \A i \in 1..n : s[i] = t[(m - n) + i]
<1>l. /\ n \in Nat /\ m \in Nat
      /\ \A i \in 1..n : s[i] \in X
      /\ \A i \in 1..m : t[i] \in X
  BY LenProperties, ElementOfSeq
<1>1. IsSuffix(s, t) <=> Fits
  <2> DEFINE rs == Reverse(s)
             rt == Reverse(t)
  <2>1. /\ rs = [i \in 1..n |-> s[(n - i) + 1]]
        /\ rt = [i \in 1..m |-> t[(m - i) + 1]]
    BY DEF Reverse
  <2> HIDE DEF n, m
  <2>2. /\ rs \in Seq(X) /\ rt \in Seq(X) /\ Len(rs) = n /\ Len(rt) = m
    <3>1. (\A i \in 1..n : (n - i) + 1 \in 1..n) /\ \A i \in 1..m : (m - i) + 1 \in 1..m
      BY <1>l
    <3>2. rs \in [1..n -> X] /\ rt \in [1..m -> X]
      BY <1>l, <2>1, <3>1
    <3>3. \A k \in Nat : \A r : r \in [1..k -> X] => r \in Seq(X) /\ Len(r) = k
      OBVIOUS
    <3> HIDE DEF rs, rt
    <3> QED BY <1>l, <3>2, <3>3
  <2>i. /\ \A i \in 1..n : rs[i] = s[(n - i) + 1]
        /\ \A i \in 1..m : rt[i] = t[(m - i) + 1]
    BY <2>1
  <2> HIDE DEF rs, rt
  <2>3. IsSuffix(s, t) <=> n <= m /\ SubSeq(rs, 1, n) = SubSeq(rt, 1, n)
    BY <2>2 DEF IsSuffix, IsPrefix, rs, rt
  <2>4. ASSUME n <= m
        PROVE  SubSeq(rs, 1, n) = SubSeq(rt, 1, n) <=> \A i \in 1..n : rs[i] = rt[i]
    <3>0. /\ \A i \in 1..n : rs[i] \in X /\ rt[i] \in X
          /\ 1 \in Int /\ n \in Int
      BY <1>l, <2>2, <2>4, ElementOfSeq
    <3>1. /\ SubSeq(rs, 1, n) \in Seq(X)
          /\ Len(SubSeq(rs, 1, n)) = IF 1 <= n THEN n - 1 + 1 ELSE 0
          /\ \A i \in 1..(n - 1 + 1) : SubSeq(rs, 1, n)[i] = rs[1 + i - 1]
      BY <3>0, SubSeqProperties
    <3>2. /\ SubSeq(rt, 1, n) \in Seq(X)
          /\ Len(SubSeq(rt, 1, n)) = IF 1 <= n THEN n - 1 + 1 ELSE 0
          /\ \A i \in 1..(n - 1 + 1) : SubSeq(rt, 1, n)[i] = rt[1 + i - 1]
      BY <3>0, SubSeqProperties
    <3>3. n - 1 + 1 = n /\ \A i \in 1..n : 1 + i - 1 = i
      BY <1>l
    <3>4. Len(SubSeq(rs, 1, n)) = n /\ Len(SubSeq(rt, 1, n)) = n
      BY <1>l, <3>1, <3>2
    <3>5. \A i \in 1..n : SubSeq(rs, 1, n)[i] = rs[i] /\ SubSeq(rt, 1, n)[i] = rt[i]
      BY <3>1, <3>2, <3>3
    <3>6. (\A i \in 1..n : rs[i] = rt[i]) => SubSeq(rs, 1, n) = SubSeq(rt, 1, n)
      BY <3>1, <3>2, <3>4, <3>5, SeqEqual
    <3> QED BY <3>5, <3>6
  <2>5. ASSUME n <= m
        PROVE  (\A i \in 1..n : rs[i] = rt[i]) <=> \A i \in 1..n : s[i] = t[(m - n) + i]
    <3>1. \A i \in 1..n : /\ (n - i) + 1 \in 1..n /\ i \in 1..m
                          /\ (m - n) + ((n - i) + 1) = (m - i) + 1
                          /\ (n - ((n - i) + 1)) + 1 = i
                          /\ (m - ((n - i) + 1)) + 1 = (m - n) + i
                          /\ (n - i) + 1 \in 1..m
      BY <1>l, <2>5
    <3>2. ASSUME \A i \in 1..n : rs[i] = rt[i], NEW i \in 1..n
          PROVE  s[i] = t[(m - n) + i]
      <4> DEFINE j == (n - i) + 1
      <4>1. /\ j \in 1..n /\ j \in 1..m
            /\ (n - j) + 1 = i /\ (m - j) + 1 = (m - n) + i
        BY <3>1
      <4> HIDE DEF j
      <4>2. rs[j] = s[i] /\ rt[j] = t[(m - n) + i]
        BY <2>i, <4>1
      <4> QED BY <3>2, <4>1, <4>2
    <3>3. ASSUME \A i \in 1..n : s[i] = t[(m - n) + i], NEW i \in 1..n
          PROVE  rs[i] = rt[i]
      BY <2>i, <3>1, <3>3
    <3> QED BY <3>2, <3>3
  <2> QED BY <2>3, <2>4, <2>5
<1>2. ASSUME NEW u \in Seq(X), t = u \o s PROVE Fits
  <2>1. /\ Len(u) \in Nat /\ m = Len(u) + n
        /\ \A i \in 1..(Len(u) + n) : t[i] = IF i <= Len(u) THEN u[i] ELSE s[i - Len(u)]
    BY <1>2, ConcatProperties, LenProperties
  <2> HIDE DEF n, m
  <2>2. \A i \in 1..n : /\ Len(u) + i \in 1..(Len(u) + n) /\ ~(Len(u) + i <= Len(u))
                        /\ (Len(u) + i) - Len(u) = i /\ (m - n) + i = Len(u) + i
    BY <1>l, <2>1
  <2>3. n <= m
    BY <1>l, <2>1
  <2> QED BY <2>1, <2>2, <2>3
<1>3. ASSUME Fits PROVE \E u \in Seq(X) : t = u \o s
  <2> DEFINE u == SubSeq(t, 1, m - n)
  <2> HIDE DEF n, m
  <2>0. m - n \in Nat /\ \A i \in 1..(m - n) : t[i] \in X
    <3>1. m - n \in Nat /\ \A i \in 1..(m - n) : i \in 1..m
      BY <1>l, <1>3
    <3> QED BY <1>l, <3>1
  <2>1. /\ u \in Seq(X) /\ Len(u) = IF 1 <= m - n THEN (m - n) - 1 + 1 ELSE 0
        /\ \A i \in 1..((m - n) - 1 + 1) : u[i] = t[1 + i - 1]
    BY <2>0, SubSeqProperties
  <2>2. (m - n) - 1 + 1 = m - n /\ \A i \in 1..(m - n) : 1 + i - 1 = i
    BY <2>0
  <2>3. Len(u) = m - n /\ \A i \in 1..(m - n) : u[i] = t[i]
    BY <2>0, <2>1, <2>2
  <2> HIDE DEF u
  <2>4. /\ u \o s \in Seq(X) /\ Len(u \o s) = Len(u) + Len(s)
        /\ \A i \in 1..(Len(u) + Len(s)) :
              (u \o s)[i] = IF i <= Len(u) THEN u[i] ELSE s[i - Len(u)]
    BY <2>1, ConcatProperties
  <2>5. Len(u) + Len(s) = m
    BY <1>l, <2>3 DEF n
  <2>6. ASSUME NEW i \in 1..m PROVE (u \o s)[i] = t[i]
    <3>1. CASE i <= m - n
      <4>1. i \in 1..(m - n)
        BY <2>0, <3>1
      <4> QED BY <2>3, <2>4, <2>5, <3>1, <4>1
    <3>2. CASE ~(i <= m - n)
      <4> DEFINE j == i - (m - n)
      <4>1. j \in 1..n /\ (m - n) + j = i
        BY <1>l, <2>0, <3>2
      <4>2. (u \o s)[i] = s[j]
        BY <2>3, <2>4, <2>5, <3>2
      <4> HIDE DEF j
      <4> QED BY <1>3, <4>1, <4>2
    <3> QED BY <3>1, <3>2
  <2>7. u \o s = t
    <3>1. Len(u \o s) = Len(t)
      BY <2>4, <2>5 DEF m
    <3>2. \A i \in 1..Len(u \o s) : (u \o s)[i] = t[i]
      BY <2>4, <2>5, <2>6
    <3> QED BY <2>4, <3>1, <3>2, SeqEqual
  <2> QED BY <2>1, <2>7
<1> QED BY <1>1, <1>2, <1>3

-----------------------------------------------------------------------------
(* What is kept of a sequence: the ranks of a finite set of positions are  *)
(* its cardinals, so that Nth counts the set.                              *)
LEMMA Ranks ==
    ASSUME NEW at, at \subseteq Int, IsFiniteSet(at)
    PROVE  /\ Cardinality(at) \in Nat
           /\ \A j \in 1..Cardinality(at) :
                 Nth(at, j) \in at /\ Cardinality({k \in at : k < Nth(at, j)}) = j - 1
           /\ \A j, l \in 1..Cardinality(at) : Nth(at, j) = Nth(at, l) => j = l
           /\ \A i \in at : \E j \in 1..Cardinality(at) : Nth(at, j) = i
<1> DEFINE below(i) == {k \in at : k < i}
           n == Cardinality(at)
           rank == [i \in at |-> Cardinality(below(i)) + 1]
<1>0. n \in Nat
  BY FS_CardinalityType
<1>1. ASSUME NEW i \in at
      PROVE  IsFiniteSet(below(i)) /\ Cardinality(below(i)) \in 0..(n - 1)
  <2>1. below(i) \in SUBSET at /\ i \notin below(i)
    OBVIOUS
  <2>2. /\ IsFiniteSet(below(i)) /\ Cardinality(below(i)) <= n
        /\ n = Cardinality(below(i)) => at = below(i)
    BY <2>1, FS_Subset
  <2>3. Cardinality(below(i)) \in Nat
    BY <2>2, FS_CardinalityType
  <2>4. n # Cardinality(below(i))
    BY <2>1, <2>2
  <2> HIDE DEF below
  <2> QED BY <2>2, <2>3, <2>4, <1>0
<1>2. ASSUME NEW i \in at, NEW l \in at, i < l
      PROVE  Cardinality(below(i)) < Cardinality(below(l))
  <2>0. \A k \in at : k \in Int
    OBVIOUS
  <2>1. below(i) \in SUBSET below(l) /\ i \in below(l) /\ i \notin below(i)
    <3>1. \A k \in at : k < i => k < l
      BY <2>0, <1>2
    <3>2. ~(i < i)
      BY <2>0
    <3> QED BY <3>1, <3>2, <1>2, Zenon
  <2>2. /\ Cardinality(below(i)) <= Cardinality(below(l))
        /\ Cardinality(below(l)) = Cardinality(below(i)) => below(l) = below(i)
    BY <2>1, <1>1, FS_Subset
  <2>3. Cardinality(below(l)) # Cardinality(below(i))
    BY <2>1, <2>2
  <2>4. Cardinality(below(l)) \in Nat /\ Cardinality(below(i)) \in Nat
    BY <1>1, FS_CardinalityType
  <2> HIDE DEF below
  <2> QED BY <2>2, <2>3, <2>4
<1>3. \A i \in at : rank[i] = Cardinality(below(i)) + 1 /\ rank[i] \in 1..n
  <2> SUFFICES ASSUME NEW i \in at
               PROVE  rank[i] = Cardinality(below(i)) + 1 /\ rank[i] \in 1..n
    OBVIOUS
  <2>1. rank[i] = Cardinality(below(i)) + 1
    BY Zenon
  <2>2. Cardinality(below(i)) \in 0..(n - 1)
    BY <1>1
  <2> HIDE DEF rank, below, n
  <2> QED BY <2>1, <2>2, <1>0
<1>4. \A i, l \in at : rank[i] = rank[l] => i = l
  <2> SUFFICES ASSUME NEW i \in at, NEW l \in at, rank[i] = rank[l], i # l PROVE FALSE
    OBVIOUS
  <2>1. i < l \/ l < i
    OBVIOUS
  <2>2. Cardinality(below(l)) \in 0..(n - 1) /\ Cardinality(below(i)) \in 0..(n - 1)
    BY <1>1
  <2>3. Cardinality(below(l)) = Cardinality(below(i))
    <3> HIDE DEF rank, below, n
    <3> QED BY <2>2, <1>3, <1>0
  <2>4. Cardinality(below(i)) < Cardinality(below(l)) \/ Cardinality(below(l)) < Cardinality(below(i))
    BY <1>2, <2>1
  <2> HIDE DEF below
  <2> QED BY <2>2, <2>3, <2>4, <1>0
<1>5. rank \in Surjection(at, 1..n)
  <2>1. rank \in [at -> 1..n]
    BY <1>3
  <2>2. rank \in Injection(at, 1..n)
    <3> HIDE DEF rank
    <3> QED BY <1>4, <2>1 DEF Injection, IsInjective
  <2>3. 1 \in Int /\ n \in Int
    BY <1>0
  <2>4. IsFiniteSet(1..n) /\ Cardinality(1..n) = IF 1 > n THEN 0 ELSE n - 1 + 1
    BY <2>3, FS_Interval, Zenon
  <2>5. Cardinality(1..n) = n
    BY <2>4, <1>0
  <2> HIDE DEF rank
  <2> QED BY <2>2, <2>4, <2>5, FS_Injection
<1>6. \A j \in 1..n : \E i \in at : rank[i] = j
  <2> HIDE DEF rank
  <2> QED BY <1>5 DEF Surjection
<1>7. \A i \in at, j \in 1..n : rank[i] = j <=> Cardinality(below(i)) = j - 1
  <2> SUFFICES ASSUME NEW i \in at, NEW j \in 1..n
               PROVE  rank[i] = j <=> Cardinality(below(i)) = j - 1
    OBVIOUS
  <2>1. Cardinality(below(i)) \in 0..(n - 1) /\ rank[i] = Cardinality(below(i)) + 1
    BY <1>1, <1>3
  <2> HIDE DEF rank, below, n
  <2> QED BY <2>1, <1>0
<1>8. ASSUME NEW j \in 1..n
      PROVE  Nth(at, j) \in at /\ Cardinality(below(Nth(at, j))) = j - 1 /\ rank[Nth(at, j)] = j
  <2>1. \E i \in at : Cardinality(below(i)) = j - 1
    BY <1>6, <1>7
  <2>2. Nth(at, j) \in at /\ Cardinality(below(Nth(at, j))) = j - 1
    BY <2>1, Zenon DEF Nth
  <2> HIDE DEF rank, below, n
  <2> QED BY <2>2, <1>7
<1>9. ASSUME NEW i \in at PROVE \E j \in 1..n : Nth(at, j) = i
  <2>1. rank[i] \in 1..n
    BY <1>3
  <2>2. Nth(at, rank[i]) \in at /\ rank[Nth(at, rank[i])] = rank[i]
    <3> HIDE DEF rank, below, n
    <3> QED BY <1>8, <2>1
  <2>3. Nth(at, rank[i]) = i
    BY <2>2, <1>4
  <2> HIDE DEF rank, n
  <2> QED BY <2>1, <2>3
<1>10. \A j, l \in 1..n : Nth(at, j) = Nth(at, l) => j = l
  <2> HIDE DEF rank, below, n
  <2> QED BY <1>8
<1> HIDE DEF rank
<1> QED BY <1>0, <1>8, <1>9, <1>10

LEMMA KeptIs ==
    ASSUME NEW X, NEW D, D \subseteq Int, NEW s \in [D -> X], NEW at \in SUBSET D,
           IsFiniteSet(at)
    PROVE  Kept(s, at) \in Seq(X) /\ Len(Kept(s, at)) = Cardinality(at)
<1>1. /\ Cardinality(at) \in Nat
      /\ \A j \in 1..Cardinality(at) : Nth(at, j) \in at
  <2>1. at \subseteq Int
    OBVIOUS
  <2> QED BY <2>1, Ranks
<1>3. Kept(s, at) \in [1..Cardinality(at) -> X]
  BY <1>1 DEF Kept
<1>4. Kept(s, at) \in Seq(X) /\ Len(Kept(s, at)) = Cardinality(at)
  BY <1>1, <1>3
<1> QED BY <1>4

(* The positions among at of elements of E; the number of such elements in *)
(* a sequence.                                                             *)
Chosen(s, at, E) == {i \in at : s[i] \in E}
Members(s, E) == {i \in DOMAIN s : s[i] \in E}
Count(s, E) == Cardinality(Members(s, E))

LEMMA MembersFinite ==
    ASSUME NEW X, NEW s \in Seq(X), NEW E
    PROVE  /\ DOMAIN s = 1..Len(s) /\ IsFiniteSet(DOMAIN s)
           /\ Members(s, E) \subseteq 1..Len(s)
           /\ IsFiniteSet(Members(s, E)) /\ Count(s, E) \in Nat
<1>1. DOMAIN s = 1..Len(s) /\ Len(s) \in Nat
  BY LenProperties
<1>2. 1 \in Int /\ Len(s) \in Int
  BY <1>1
<1>3. IsFiniteSet(1..Len(s))
  BY <1>2, FS_Interval, Zenon
<1>4. Members(s, E) \in SUBSET (1..Len(s))
  BY <1>1 DEF Members
<1>5. IsFiniteSet(Members(s, E))
  BY <1>3, <1>4, FS_Subset, Zenon
<1> QED BY <1>1, <1>3, <1>4, <1>5, FS_CardinalityType DEF Count

LEMMA CountEmpty == ASSUME NEW E PROVE Count(<<>>, E) = 0
<1>1. Members(<<>>, E) = {}
  BY DEF Members
<1> QED BY <1>1, FS_EmptySet DEF Count

LEMMA CountAppend ==
    ASSUME NEW X, NEW s \in Seq(X), NEW e \in X, NEW E
    PROVE  Count(Append(s, e), E) = Count(s, E) + IF e \in E THEN 1 ELSE 0
<1> DEFINE t == Append(s, e)
           n == Len(s)
<1>1. /\ t \in Seq(X) /\ Len(t) = n + 1 /\ t[n + 1] = e /\ n \in Nat
      /\ \A i \in 1..n : t[i] = s[i]
  BY AppendProperties, LenProperties
<1>2. DOMAIN s = 1..n /\ DOMAIN t = 1..(n + 1)
  BY <1>1, LenProperties
<1>3. \A i : i \in 1..(n + 1) <=> i \in 1..n \/ i = n + 1
  BY <1>1
<1>4. n + 1 \notin 1..n
  BY <1>1
<1>5. \A i : i \in Members(s, E) <=> i \in 1..n /\ s[i] \in E
  BY <1>2 DEF Members
<1>6. \A i : i \in Members(t, E) <=> i \in 1..(n + 1) /\ t[i] \in E
  BY <1>2 DEF Members
<1>7. IsFiniteSet(Members(s, E)) /\ Count(s, E) \in Nat
  BY MembersFinite
<1> HIDE DEF t, n
<1>8. CASE e \in E
  <2>1. Members(t, E) = Members(s, E) \cup {n + 1}
    <3>1. \A i : i \in Members(t, E) <=> i \in Members(s, E) \/ i = n + 1
      BY <1>8, <1>1, <1>3, <1>5, <1>6, Zenon
    <3> QED BY <3>1 DEF Chosen
  <2>2. n + 1 \notin Members(s, E)
    BY <1>4, <1>5
  <2>3. Cardinality(Members(t, E)) = Cardinality(Members(s, E)) + 1
    BY <2>1, <2>2, <1>7, FS_AddElement
  <2> QED BY <2>3, <1>8 DEF Count, t
<1>9. CASE e \notin E
  <2>1. Members(t, E) = Members(s, E)
    <3>1. \A i : i \in Members(t, E) <=> i \in Members(s, E)
      BY <1>9, <1>1, <1>3, <1>5, <1>6, Zenon
    <3> QED BY <3>1 DEF Chosen
  <2> QED BY <2>1, <1>9, <1>7 DEF Count, t
<1> QED BY <1>8, <1>9

LEMMA CountConcat ==
    ASSUME NEW X, NEW s \in Seq(X), NEW t \in Seq(X), NEW E
    PROVE  Count(s \o t, E) = Count(s, E) + Count(t, E)
<1> DEFINE u == s \o t
           n == Len(s)
           B == {i \in Members(u, E) : i > n}
           f == [i \in B |-> i - n]
<1>1. /\ n \in Nat /\ Len(t) \in Nat /\ u \in Seq(X) /\ Len(u) = n + Len(t)
      /\ \A i \in 1..Len(u) : u[i] = IF i <= n THEN s[i] ELSE t[i - n]
  BY ConcatProperties, LenProperties
<1>2. DOMAIN s = 1..n /\ DOMAIN t = 1..Len(t) /\ DOMAIN u = 1..(n + Len(t))
  BY <1>1, LenProperties
<1>3. /\ IsFiniteSet(Members(u, E)) /\ IsFiniteSet(Members(s, E)) /\ IsFiniteSet(Members(t, E))
      /\ Count(s, E) \in Nat /\ Count(t, E) \in Nat
  BY <1>1, MembersFinite
<1>u. \A i : i \in Members(u, E) <=> i \in 1..(n + Len(t)) /\ u[i] \in E
  BY <1>2 DEF Members
<1>s. \A i : i \in Members(s, E) <=> i \in 1..n /\ s[i] \in E
  BY <1>2 DEF Members
<1>t. \A i : i \in Members(t, E) <=> i \in 1..Len(t) /\ t[i] \in E
  BY <1>2 DEF Members
<1> HIDE DEF u, n
<1>4. Members(u, E) = Members(s, E) \cup B /\ Members(s, E) \cap B = {}
  <2>1. \A i \in 1..n : i \in 1..(n + Len(t)) /\ u[i] = s[i] /\ ~(i > n)
    BY <1>1
  <2>2. \A i \in 1..(n + Len(t)) : ~(i > n) => i \in 1..n
    BY <1>1
  <2>3. \A i : i \in Members(s, E) => i \in Members(u, E) /\ ~(i > n)
    BY <2>1, <1>u, <1>s, Zenon
  <2>4. \A i : i \in Members(u, E) /\ ~(i > n) => i \in Members(s, E)
    BY <2>1, <2>2, <1>u, <1>s, Zenon
  <2> QED BY <2>3, <2>4
<1>5. \A i \in B : i \in 1..(n + Len(t)) /\ i > n /\ u[i] \in E
  BY <1>u
<1>6. \A i \in B : i - n \in 1..Len(t) /\ t[i - n] = u[i] /\ i \in Int
  BY <1>5, <1>1
<1>7. f \in [B -> Members(t, E)]
  <2>1. \A i \in B : i - n \in Members(t, E)
    BY <1>5, <1>6, <1>t, Zenon
  <2> QED BY <2>1
<1>8. \A j \in Members(t, E) : j + n \in B /\ (j + n) - n = j
  <2> SUFFICES ASSUME NEW j \in Members(t, E) PROVE j + n \in B /\ (j + n) - n = j
    OBVIOUS
  <2>1. j \in 1..Len(t) /\ t[j] \in E
    BY <1>t
  <2>2. /\ j + n \in 1..(n + Len(t)) /\ j + n > n /\ (j + n) - n = j
        /\ u[j + n] = t[(j + n) - n]
    BY <2>1, <1>1
  <2>3. j + n \in Members(u, E)
    BY <2>1, <2>2, <1>u, Zenon
  <2> QED BY <2>2, <2>3
<1>9. f \in Bijection(B, Members(t, E))
  <2>1. \A i, l \in B : f[i] = f[l] => i = l
    BY <1>6, <1>1
  <2>2. \A j \in Members(t, E) : \E i \in B : f[i] = j
    <3> SUFFICES ASSUME NEW j \in Members(t, E) PROVE \E i \in B : f[i] = j
      OBVIOUS
    <3>1. j + n \in B /\ f[j + n] = (j + n) - n
      BY <1>8, Zenon
    <3> QED BY <3>1, <1>8
  <2> HIDE DEF f, B
  <2> QED BY <1>7, <2>1, <2>2 DEF Bijection, Injection, Surjection, IsInjective
<1>10. IsFiniteSet(B) /\ Cardinality(B) = Cardinality(Members(t, E))
  <2>1. IsFiniteSet(B)
    <3>1. B \in SUBSET Members(u, E)
      OBVIOUS
    <3> QED BY <3>1, <1>3, FS_Subset
  <2>2. ExistsBijection(B, Members(t, E))
    <3> HIDE DEF f, B
    <3> QED BY <1>9 DEF ExistsBijection
  <2> HIDE DEF B
  <2> QED BY <2>1, <2>2, FS_Bijection
<1>11. Cardinality(Members(u, E)) =
         Cardinality(Members(s, E)) + Cardinality(B) - Cardinality(Members(s, E) \cap B)
  <2> HIDE DEF B
  <2> QED BY <1>3, <1>4, <1>10, FS_Union
<1>12. Cardinality(Members(s, E) \cap B) = 0
  <2> HIDE DEF B
  <2> QED BY <1>4, FS_EmptySet
<1> HIDE DEF B
<1> QED BY <1>3, <1>10, <1>11, <1>12 DEF Count, u

LEMMA CountKept ==
    ASSUME NEW s, NEW at, at \subseteq Int, IsFiniteSet(at), NEW E
    PROVE  Count(Kept(s, at), E) = Cardinality(Chosen(s, at, E))
<1> DEFINE k == Kept(s, at)
           J == Members(k, E)
           A == {i \in at : s[i] \in E}
           f == [j \in J |-> Nth(at, j)]
<1>1. /\ DOMAIN k = 1..Cardinality(at)
      /\ \A j \in 1..Cardinality(at) : k[j] = s[Nth(at, j)]
  BY Zenon DEF Kept
<1>2. /\ Cardinality(at) \in Nat
      /\ \A j \in 1..Cardinality(at) : Nth(at, j) \in at
      /\ \A j, l \in 1..Cardinality(at) : Nth(at, j) = Nth(at, l) => j = l
      /\ \A i \in at : \E j \in 1..Cardinality(at) : Nth(at, j) = i
  BY Ranks, Zenon
<1>3. IsFiniteSet(J)
  <2>1. 1 \in Int /\ Cardinality(at) \in Int
    BY <1>2
  <2>2. IsFiniteSet(1..Cardinality(at))
    BY <2>1, FS_Interval, Zenon
  <2>3. J \in SUBSET (1..Cardinality(at))
    BY <1>1 DEF Members
  <2> QED BY <2>2, <2>3, FS_Subset, Zenon
<1>4. \A j : j \in J <=> j \in 1..Cardinality(at) /\ s[Nth(at, j)] \in E
  <2>1. \A j : j \in J <=> j \in 1..Cardinality(at) /\ k[j] \in E
    BY <1>1 DEF Members
  <2> HIDE DEF k, J
  <2> QED BY <2>1, <1>1, Zenon
<1> HIDE DEF J, k
<1>5. f \in [J -> A]
  <2>1. \A j \in J : Nth(at, j) \in A
    BY <1>2, <1>4
  <2> HIDE DEF A
  <2> QED BY <2>1
<1>6. \A j, l \in J : f[j] = f[l] => j = l
  <2>1. \A j \in J : f[j] = Nth(at, j)
    BY Zenon
  <2> HIDE DEF f
  <2> QED BY <2>1, <1>2, <1>4, Zenon
<1>7. \A i \in A : \E j \in J : f[j] = i
  <2> SUFFICES ASSUME NEW i \in A PROVE \E j \in J : f[j] = i
    OBVIOUS
  <2>1. i \in at /\ s[i] \in E
    OBVIOUS
  <2>2. PICK j \in 1..Cardinality(at) : Nth(at, j) = i
    BY <1>2, <2>1, Zenon
  <2>3. j \in J
    BY <2>1, <2>2, <1>4, Zenon
  <2>4. f[j] = i
    BY <2>2, <2>3, Zenon
  <2> HIDE DEF f
  <2> QED BY <2>3, <2>4
<1>8. f \in Bijection(J, A)
  <2> HIDE DEF f, A
  <2> QED BY <1>5, <1>6, <1>7 DEF Bijection, Injection, Surjection, IsInjective
<1>9. ExistsBijection(J, A)
  <2> HIDE DEF f, A
  <2> QED BY <1>8 DEF ExistsBijection
<1>10. Cardinality(A) = Cardinality(J)
  <2> HIDE DEF f, A
  <2> QED BY <1>9, <1>3, FS_Bijection
<1> HIDE DEF f
<1> QED BY <1>10 DEF Count, Chosen, J, k

LEMMA CountLeft ==
    ASSUME NEW X, NEW s \in Seq(X), NEW gone, gone \subseteq DOMAIN s, NEW E
    PROVE  /\ Kept(s, DOMAIN s \ gone) \in Seq(X)
           /\ Cardinality(Chosen(s, gone, E)) \in Nat
           /\ Count(Kept(s, DOMAIN s \ gone), E) =
                Count(s, E) - Cardinality(Chosen(s, gone, E))
<1> DEFINE at == DOMAIN s \ gone
           A == {i \in at : s[i] \in E}
           G == {i \in gone : s[i] \in E}
<1>1. DOMAIN s = 1..Len(s) /\ Len(s) \in Nat /\ \A i \in 1..Len(s) : s[i] \in X
  BY LenProperties, ElementOfSeq
<1>2. IsFiniteSet(DOMAIN s) /\ IsFiniteSet(Members(s, E)) /\ Count(s, E) \in Nat
  BY MembersFinite, Zenon
<1>3. IsFiniteSet(at) /\ 1..Len(s) \subseteq Int /\ s \in [1..Len(s) -> X] /\ at \in SUBSET (1..Len(s))
  <2>1. at \in SUBSET (DOMAIN s)
    OBVIOUS
  <2>2. \A i \in DOMAIN s : i \in Int /\ s[i] \in X
    BY <1>1
  <2> QED BY <2>1, <2>2, <1>2, FS_Subset
<1>4. A = Members(s, E) \ G /\ Members(s, E) \cap G = G
  BY DEF Members
<1>5. Cardinality(A) = Cardinality(Members(s, E)) - Cardinality(G)
  <2> HIDE DEF A, G
  <2>1. Cardinality(Members(s, E) \ G) =
          Cardinality(Members(s, E)) - Cardinality(Members(s, E) \cap G)
    BY <1>2, FS_Difference
  <2> QED BY <1>4, <2>1
<1>6. Cardinality(G) \in Nat
  <2> HIDE DEF A, G
  <2>1. G \in SUBSET Members(s, E)
    BY <1>4
  <2> QED BY <2>1, <1>2, FS_Subset, FS_CardinalityType
<1>7. Kept(s, at) \in Seq(X) /\ Count(Kept(s, at), E) = Cardinality(A)
  <2>1. Kept(s, at) \in Seq(X)
    <3> HIDE DEF at
    <3> QED BY <1>3, KeptIs
  <2>2. Count(Kept(s, at), E) = Cardinality(A)
    <3>1. Count(Kept(s, at), E) = Cardinality(Chosen(s, at, E))
      <4> HIDE DEF at, A, G
      <4> QED BY <1>3, CountKept, Zenon
    <3> QED BY <3>1 DEF Chosen
  <2> QED BY <2>1, <2>2
<1> QED BY <1>5, <1>6, <1>7 DEF Count, Chosen
=============================================================================
