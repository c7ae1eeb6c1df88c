--------------------------- MODULE EvsCameraProofs ----------------------------
(***************************************************************************)
(* Proofs about EvsCamera, for every value of its constants.  They begin with *)
(* lemmas about the pool: what growing, shrinking, reserving and reclaiming do *)
(* to any vector of buffer records, from facts about sets of slot numbers. *)
(***************************************************************************)
EXTENDS EvsCameraInvariant, FiniteSetTheorems, WellFoundedInduction, TLAPS

-----------------------------------------------------------------------------
(* Sets of natural numbers: minima, maxima and ranks, obtained from the    *)
(* well-foundedness of strict inclusion between finite sets.               *)

(* A nonempty set of naturals has a least element. *)
LEMMA MinExists ==
  ASSUME NEW S \in SUBSET Nat, S # {}
  PROVE  \E x \in S : \A y \in S : x <= y
<1> DEFINE R == StrictSubsetOrdering(Nat)
           T == {0 .. s : s \in S}
<1>1. T \subseteq FiniteSubsetsOf(Nat)
  <2>1. \A s \in S : IsFiniteSet(0 .. s) /\ 0 .. s \in SUBSET Nat
    BY FS_Interval
  <2> QED BY <2>1 DEF FiniteSubsetsOf
<1>2. T # {}
  OBVIOUS
<1>3. IsWellFoundedOn(R, FiniteSubsetsOf(Nat))
  BY FS_StrictSubsetOrderingWellFounded
<1>4. \E x \in T : \A y \in T : ~ (<<y, x>> \in R)
  <2> HIDE DEF R, T
  <2> QED BY <1>1, <1>2, <1>3, WFMin
<1>5. PICK x \in S : \A y \in S : ~ (<<0 .. y, 0 .. x>> \in R)
  BY <1>4
<1>6. SUFFICES ASSUME NEW y \in S, y < x PROVE FALSE
  BY <1>5
<1>7. <<0 .. y, 0 .. x>> \in R
  <2>1. x \notin 0 .. y /\ x \in 0 .. x
    BY <1>6
  <2>2. 0 .. y \subseteq 0 .. x
    BY <1>6
  <2> QED BY <2>1, <2>2 DEF StrictSubsetOrdering
<1> QED BY <1>5, <1>7

(* A nonempty, bounded set of naturals has a greatest element. *)
LEMMA MaxExists ==
  ASSUME NEW S \in SUBSET Nat, S # {}, NEW n \in Nat, \A s \in S : s <= n
  PROVE  \E x \in S : \A y \in S : y <= x
<1> DEFINE T == {k \in Nat : \A s \in S : s <= k}
<1>1. PICK k \in T : \A y \in T : k <= y
  <2>1. T \in SUBSET Nat /\ n \in T
    OBVIOUS
  <2> HIDE DEF T
  <2> QED BY <2>1, MinExists
<1>2. CASE k \in S
  BY <1>1, <1>2
<1>3. CASE k \notin S
  <2>1. \A s \in S : s <= k /\ s # k /\ s \in Nat
    BY <1>1, <1>3
  <2>2. k \in Nat /\ k # 0
    BY <2>1, \E s \in S : s \in Nat
  <2>3. k - 1 \in T
    BY <1>1, <2>1, <2>2
  <2> QED BY <1>1, <2>3, <2>2
<1> QED BY <1>2, <1>3

(* The rank of an element in a finite set grows with the element. *)
LEMMA RankProperties ==
  ASSUME NEW S \in SUBSET Nat, IsFiniteSet(S)
  PROVE  \A i \in S : /\ Rank(i, S) \in Nat
                      /\ \A k \in S : k < i => Rank(k, S) < Rank(i, S)
<1>1. ASSUME NEW i \in S
      PROVE  IsFiniteSet({j \in S : j < i}) /\ Rank(i, S) \in Nat
  BY FS_Subset, FS_CardinalityType DEF Rank
<1>2. ASSUME NEW i \in S, NEW k \in S, k < i PROVE Rank(k, S) < Rank(i, S)
  <2> DEFINE A == {j \in S : j < k}
             B == {j \in S : j < i}
  <2>1. i \in Int /\ k \in Int /\ \A j \in S : j \in Int
    OBVIOUS
  <2>2. A \in SUBSET B /\ k \in B /\ k \notin A
    <3>1. \A j \in A : j \in S /\ j < i
      BY <1>2, <2>1
    <3>2. k \in B /\ k \notin A
      BY <1>2, <2>1
    <3> QED BY <3>1, <3>2
  <2>3. IsFiniteSet(A) /\ IsFiniteSet(B) /\ Rank(k, S) = Cardinality(A) /\ Rank(i, S) = Cardinality(B)
    BY <1>1 DEF Rank
  <2> HIDE DEF A, B
  <2>4. Cardinality(A) <= Cardinality(B) /\ Cardinality(A) # Cardinality(B)
    BY <2>2, <2>3, FS_Subset
  <2>5. Rank(k, S) \in Nat /\ Rank(i, S) \in Nat
    BY <1>1
  <2> QED BY <2>3, <2>4, <2>5
<1> QED BY <1>1, <1>2

(* An element's rank is below the size of the set, and tells it apart.     *)
LEMMA RankIsPosition ==
  ASSUME NEW S \in SUBSET Nat, IsFiniteSet(S)
  PROVE  /\ \A i \in S : Rank(i, S) \in 0 .. Cardinality(S) - 1
         /\ \A i, j \in S : Rank(i, S) = Rank(j, S) => i = j
<1>1. ASSUME NEW i \in S PROVE Rank(i, S) \in 0 .. Cardinality(S) - 1
  <2> DEFINE B == {j \in S : j < i}
  <2>1. B \in SUBSET S /\ i \notin B
    OBVIOUS
  <2>2. Rank(i, S) = Cardinality(B)
    BY DEF Rank
  <2> HIDE DEF B
  <2>3. /\ IsFiniteSet(B) /\ Cardinality(B) <= Cardinality(S)
        /\ Cardinality(B) # Cardinality(S)
    BY <2>1, FS_Subset
  <2>4. Cardinality(B) \in Nat /\ Cardinality(S) \in Nat
    BY <2>3, FS_CardinalityType
  <2> QED BY <2>2, <2>3, <2>4
<1>2. ASSUME NEW i \in S, NEW j \in S, Rank(i, S) = Rank(j, S) PROVE i = j
  <2>1. i \in Int /\ j \in Int /\ Rank(i, S) \in Int
    BY <1>1
  <2>2. ~ (i < j) /\ ~ (j < i)
    BY <1>2, <2>1, RankProperties
  <2> QED BY <2>1, <2>2
<1> QED BY <1>1, <1>2

(* The lowest n elements of a set are n, or all there are. *)
LEMMA LowestCardinality ==
  ASSUME NEW S \in SUBSET Nat, IsFiniteSet(S), NEW n \in Nat,
         NEW b \in Nat, \A s \in S : s <= b
  PROVE  /\ Lowest(n, S) \in SUBSET S
         /\ IsFiniteSet(Lowest(n, S))
         /\ Cardinality(Lowest(n, S)) =
              IF n <= Cardinality(S) THEN n ELSE Cardinality(S)
<1> DEFINE L == Lowest(n, S)
<1>1. /\ L \in SUBSET S /\ IsFiniteSet(L)
      /\ Cardinality(L) \in Nat /\ Cardinality(L) <= Cardinality(S) /\ Cardinality(S) \in Nat
  BY FS_Subset, FS_CardinalityType DEF Lowest
<1>2. \A i \in S : Rank(i, S) \in Nat /\ \A k \in S : k < i => Rank(k, S) < Rank(i, S)
  BY RankProperties
<1>3. \A i \in S : i \in L <=> Rank(i, S) < n
  BY DEF Lowest
<1>4. SUFFICES Cardinality(L) = IF n <= Cardinality(S) THEN n ELSE Cardinality(S)
  BY <1>1
<1> HIDE DEF L
<1>5. \A i \in L : \A j \in S : j < i => j \in L
  BY <1>1, <1>2, <1>3
<1>6. \A j \in S : j \in Int
  OBVIOUS
<1>7. Cardinality(L) <= n
  <2>1. CASE L = {}
    BY <2>1, FS_EmptySet
  <2>2. CASE L # {}
    <3>1. L \in SUBSET Nat /\ \A s \in L : s <= b
      BY <1>1
    <3>2. PICK x \in L : \A y \in L : y <= x
      BY <2>2, <3>1, MaxExists
    <3>3. {j \in S : j < x} = L \ {x}
      <4>1. ASSUME NEW j \in S, j < x PROVE j \in L \ {x}
        BY <1>5, <1>6, <3>2, <4>1
      <4>2. ASSUME NEW j \in L \ {x} PROVE j \in S /\ j < x
        BY <1>1, <1>6, <3>2, <4>2
      <4> QED BY <4>1, <4>2
    <3>4. Rank(x, S) = Cardinality(L) - 1
      BY <1>1, <3>2, <3>3, FS_RemoveElement DEF Rank
    <3> QED BY <1>1, <1>2, <1>3, <3>2, <3>4
  <2> QED BY <2>1, <2>2
<1>8. CASE L = S
  BY <1>1, <1>7, <1>8
<1>9. CASE L # S
  <2>1. S \ L \in SUBSET Nat /\ S \ L # {}
    BY <1>1, <1>9
  <2>2. PICK x \in S \ L : \A y \in S \ L : x <= y
    BY <2>1, MinExists
  <2>3. {j \in S : j < x} = L
    <3>1. ASSUME NEW j \in S, j < x PROVE j \in L
      BY <1>6, <2>2, <3>1
    <3>2. ASSUME NEW j \in L PROVE j \in S /\ j < x
      <4>1. j \in S /\ j \in Int /\ x \in Int /\ j # x /\ x \in S
        BY <1>1, <1>6, <2>2
      <4>2. ~ (x < j)
        BY <1>5, <2>2, <4>1
      <4> QED BY <4>1, <4>2
    <3> QED BY <3>1, <3>2
  <2>4. Rank(x, S) = Cardinality(L)
    BY <2>3 DEF Rank
  <2>5. n <= Cardinality(L)
    BY <1>1, <1>3, <2>2, <2>4
  <2>6. Cardinality(L) = n
    BY <1>1, <1>7, <2>5
  <2> QED BY <1>1, <2>6
<1> QED BY <1>8, <1>9

-----------------------------------------------------------------------------
(* The size of a vector is the number of its slots. *)
LEMMA VectorSize ==
  ASSUME NEW n \in Nat, NEW b, DOMAIN b = 0 .. n - 1
  PROVE  Size(b) = n
BY FS_Interval DEF Size

(* The parts of a pool are finite sets of slot numbers. *)
LEMMA PoolParts ==
  ASSUME NEW b, WellFormed(b)
  PROVE  /\ DOMAIN b = 0 .. Size(b) - 1
         /\ \A S \in SUBSET (DOMAIN b) :
              /\ IsFiniteSet(S) /\ Cardinality(S) \in Nat
              /\ S \in SUBSET Nat /\ \A s \in S : s <= Size(b)
         /\ Empty(b) \in SUBSET (DOMAIN b) /\ LiveSlots(b) \in SUBSET (DOMAIN b)
         /\ Free(b) \in SUBSET LiveSlots(b) /\ InUse(b) \in SUBSET LiveSlots(b)
         /\ Free(b) = LiveSlots(b) \ InUse(b)
<1>1. DOMAIN b = 0 .. Size(b) - 1 /\ Size(b) \in Nat
  BY DEF WellFormed
<1>2. IsFiniteSet(DOMAIN b)
  BY <1>1, FS_Interval
<1>3. ASSUME NEW S \in SUBSET (DOMAIN b)
      PROVE  /\ IsFiniteSet(S) /\ Cardinality(S) \in Nat
             /\ S \in SUBSET Nat /\ \A s \in S : s <= Size(b)
  BY <1>1, <1>2, FS_Subset, FS_CardinalityType
<1>4. ASSUME NEW i \in DOMAIN b
      PROVE  b[i].inUse \in BOOLEAN /\ (b[i].handle = NoHandle => ~b[i].inUse)
  BY <1>1 DEF WellFormed, Slot
<1>5. /\ Empty(b) \in SUBSET (DOMAIN b) /\ LiveSlots(b) \in SUBSET (DOMAIN b)
      /\ Free(b) \in SUBSET LiveSlots(b) /\ InUse(b) \in SUBSET LiveSlots(b)
      /\ Free(b) = LiveSlots(b) \ InUse(b)
  BY <1>4 DEF Empty, LiveSlots, Free, InUse
<1> QED BY <1>1, <1>3, <1>5

(* Adding n buffers fills exactly n slots that were empty or did not exist *)
(* and touches no other slot.                                              *)
LEMMA TargetsOfGrowth ==
  ASSUME NEW b, WellFormed(b), NEW n \in Nat
  PROVE  /\ SizeWith(b, n) \in Nat /\ Size(b) <= SizeWith(b, n)
         /\ Targets(b, n) \in SUBSET (0 .. SizeWith(b, n) - 1)
         /\ Targets(b, n) \cap LiveSlots(b) = {}
         /\ (0 .. SizeWith(b, n) - 1) = DOMAIN b \cup Targets(b, n)
         /\ Cardinality(Targets(b, n)) = n
         /\ IsFiniteSet(Targets(b, n))
<1> DEFINE e == Cardinality(Empty(b))
           A == Lowest(n, Empty(b))
           B == Size(b) .. SizeWith(b, n) - 1
<1>1. /\ DOMAIN b = 0 .. Size(b) - 1 /\ Size(b) \in Nat
      /\ Empty(b) \in SUBSET (DOMAIN b) /\ e \in Nat
      /\ IsFiniteSet(Empty(b)) /\ Empty(b) \in SUBSET Nat
      /\ \A s \in Empty(b) : s <= Size(b)
  <2>1. Size(b) \in Nat
    BY DEF WellFormed
  <2>2. Empty(b) \in SUBSET (DOMAIN b)
    BY PoolParts
  <2> QED BY <2>1, <2>2, PoolParts
<1>2. /\ A \in SUBSET Empty(b) /\ IsFiniteSet(A)
      /\ Cardinality(A) = IF n <= e THEN n ELSE e
  BY <1>1, LowestCardinality
<1>3. SizeWith(b, n) = IF n > e THEN Size(b) + (n - e) ELSE Size(b)
  BY <1>1 DEF SizeWith
<1>4. /\ IsFiniteSet(B)
      /\ Cardinality(B) = IF n > e THEN n - e ELSE 0
  <2>1. SizeWith(b, n) - 1 \in Int
    BY <1>1, <1>3
  <2>2. IsFiniteSet(B) /\ Cardinality(B) = IF Size(b) > SizeWith(b, n) - 1 THEN 0
                                             ELSE SizeWith(b, n) - 1 - Size(b) + 1
    <3>1. Size(b) \in Int
      BY <1>1
    <3> QED BY <2>1, <3>1, FS_Interval
  <2> QED BY <1>1, <1>3, <2>2
<1>5. A \cap B = {} /\ Targets(b, n) = A \cup B
  <2>1. \A s \in A : s \in 0 .. Size(b) - 1
    BY <1>1, <1>2
  <2>2. \A s \in B : s >= Size(b) /\ s \in Int
    BY <1>1, <1>3
  <2>3. \A s \in A : s \notin B
    <3> HIDE DEF A, B
    <3> QED BY <1>1, <2>1, <2>2
  <2> QED BY <2>3 DEF Targets
<1>6. Cardinality(Targets(b, n)) = n /\ IsFiniteSet(Targets(b, n))
  <2>1. IsFiniteSet(A \cup B) /\ Cardinality(A \cup B) = Cardinality(A) + Cardinality(B) - Cardinality({})
    BY <1>2, <1>4, <1>5, FS_Union, ZenonT(40)
  <2> QED BY <1>1, <1>2, <1>4, <1>5, <2>1, FS_EmptySet
<1>7. Targets(b, n) \cap LiveSlots(b) = {}
  BY <1>1, <1>2, <1>5 DEF LiveSlots
<1>8. /\ Targets(b, n) \in SUBSET (0 .. SizeWith(b, n) - 1)
      /\ (0 .. SizeWith(b, n) - 1) = DOMAIN b \cup Targets(b, n)
  <2>1. \A s \in A : s \in 0 .. Size(b) - 1
    BY <1>1, <1>2
  <2>2. SizeWith(b, n) \in Int /\ SizeWith(b, n) >= Size(b)
    BY <1>1, <1>3
  <2> HIDE DEF A
  <2> QED BY <1>1, <2>1, <2>2, <1>5
<1> QED BY <1>1, <1>3, <1>6, <1>7, <1>8

(* Growing: n more buffers are there, all free, the frames in use and the  *)
(* slots that had a buffer are as before.                                  *)
LEMMA GrowPool ==
  ASSUME NEW b, WellFormed(b), NEW n \in Nat, NEW h \in Supplies(b, n),
         NEW c, c = Store(b, n, h)
  PROVE  /\ WellFormed(c)
         /\ InUse(c) = InUse(b)
         /\ Cardinality(LiveSlots(c)) = Cardinality(LiveSlots(b)) + n
         /\ \A i \in LiveSlots(b) : i \in DOMAIN c /\ c[i] = b[i]
<1> DEFINE T == Targets(b, n)
           N == SizeWith(b, n)
<1>1. /\ N \in Nat /\ Size(b) <= N
      /\ T \in SUBSET (0 .. N - 1) /\ T \cap LiveSlots(b) = {}
      /\ (0 .. N - 1) = DOMAIN b \cup T
      /\ Cardinality(T) = n /\ IsFiniteSet(T)
  BY TargetsOfGrowth
<1>2. DOMAIN c = 0 .. N - 1 /\ Size(c) = N
  <2>1. DOMAIN c = 0 .. N - 1
    BY DEF Store
  <2> QED BY <1>1, <2>1, VectorSize
<1>3. ASSUME NEW i \in T
      PROVE  /\ i \in DOMAIN c
             /\ c[i] = [handle |-> h[Rank(i, T)], inUse |-> FALSE]
  BY <1>1, <1>2 DEF Store
<1>4. ASSUME NEW i \in DOMAIN c, i \notin T
      PROVE  i \in DOMAIN b /\ c[i] = b[i]
  BY <1>1, <1>2, <1>4 DEF Store
<1>5. /\ \A i \in T : Rank(i, T) \in 0 .. n - 1
      /\ \A i, j \in T : Rank(i, T) = Rank(j, T) => i = j
  <2>1. T \in SUBSET Nat
    BY <1>1
  <2> HIDE DEF T
  <2> QED BY <1>1, <2>1, RankIsPosition
<1>6. /\ \A k \in 0 .. n - 1 : /\ h[k] \in Handles /\ h[k] # NoHandle
                               /\ h[k] \notin Live(b)
      /\ \A k, m \in 0 .. n - 1 : h[k] = h[m] => k = m
  BY CameraAssumption DEF Supplies
<1>c. c = [i \in DOMAIN c |-> c[i]]
  BY DEF Store
<1> HIDE DEF T, N
<1>t. /\ \A i \in T : /\ c[i].handle \in Handles /\ c[i].handle # NoHandle
                      /\ c[i].handle \notin Live(b)
                      /\ c[i].inUse = FALSE /\ c[i] \in Slot
      /\ \A i, j \in T : c[i].handle = c[j].handle => i = j
  <2>1. ASSUME NEW i \in T
        PROVE  /\ c[i].handle = h[Rank(i, T)] /\ c[i].inUse = FALSE
               /\ h[Rank(i, T)] \in Handles
               /\ c[i].handle \in Handles /\ c[i].handle # NoHandle
               /\ c[i].handle \notin Live(b)
    <3>1. Rank(i, T) \in 0 .. n - 1
      BY <1>5
    <3>2. c[i] = [handle |-> h[Rank(i, T)], inUse |-> FALSE]
      BY <1>3
    <3> QED BY <3>1, <3>2, <1>6
  <2>2. ASSUME NEW i \in T PROVE c[i] \in Slot
    <3>1. h[Rank(i, T)] \in Handles \cup {NoHandle}
      BY <2>1
    <3>2. \A x \in Handles \cup {NoHandle} : [handle |-> x, inUse |-> FALSE] \in Slot
      BY DEF Slot
    <3> QED BY <1>3, <3>1, <3>2
  <2>3. ASSUME NEW i \in T, NEW j \in T, c[i].handle = c[j].handle PROVE i = j
    <3>1. Rank(i, T) \in 0 .. n - 1 /\ Rank(j, T) \in 0 .. n - 1
      BY <1>5
    <3>2. h[Rank(i, T)] = h[Rank(j, T)]
      BY <2>1, <2>3
    <3>3. Rank(i, T) = Rank(j, T)
      BY <3>1, <3>2, <1>6
    <3> QED BY <3>3, <1>5
  <2> QED BY <2>1, <2>2, <2>3
<1>7. ASSUME NEW i \in DOMAIN b
      PROVE  /\ b[i] \in Slot
             /\ b[i].handle \in Handles \cup {NoHandle}
             /\ b[i].inUse \in BOOLEAN
             /\ (b[i].handle = NoHandle => ~b[i].inUse)
  BY DEF WellFormed, Slot
<1>8. ASSUME NEW i \in DOMAIN c
      PROVE  c[i] \in Slot /\ (c[i].handle = NoHandle => ~c[i].inUse)
  <2>1. CASE i \in T
    BY <2>1, <1>t
  <2>2. CASE i \notin T
    BY <2>2, <1>4, <1>7
  <2> QED BY <2>1, <2>2
<1>9. c \in [0 .. N - 1 -> Slot]
  BY <1>2, <1>8, <1>c
<1>10. ASSUME NEW i \in T PROVE c[i].handle # NoHandle /\ ~c[i].inUse
  BY <1>t
<1>11. LiveSlots(c) = LiveSlots(b) \cup T
  <2>1. ASSUME NEW i \in LiveSlots(c) PROVE i \in LiveSlots(b) \cup T
    BY <1>4, <2>1 DEF LiveSlots, Empty
  <2>2. ASSUME NEW i \in LiveSlots(b) \cup T PROVE i \in LiveSlots(c)
    <3>1. CASE i \in T
      BY <1>3, <1>10, <3>1 DEF LiveSlots, Empty
    <3>2. CASE i \notin T
      <4>1. i \in DOMAIN b /\ b[i].handle # NoHandle
        BY <3>2 DEF LiveSlots, Empty
      <4>2. i \in DOMAIN c
        BY <4>1, <1>1, <1>2
      <4> QED BY <4>1, <4>2, <1>4, <3>2 DEF LiveSlots, Empty
    <3> QED BY <3>1, <3>2
  <2> QED BY <2>1, <2>2
<1>12. InUse(c) = InUse(b)
  <2>1. ASSUME NEW i \in InUse(c) PROVE i \in InUse(b)
    BY <1>4, <1>10, <2>1 DEF InUse
  <2>2. ASSUME NEW i \in InUse(b) PROVE i \in InUse(c)
    <3>1. i \in DOMAIN b /\ b[i].inUse /\ i \in LiveSlots(b)
      BY <1>7 DEF InUse, LiveSlots, Empty
    <3>2. i \notin T /\ i \in DOMAIN c
      BY <3>1, <1>1, <1>2
    <3> QED BY <3>1, <3>2, <1>4 DEF InUse
  <2> QED BY <2>1, <2>2
<1>13. Cardinality(LiveSlots(c)) = Cardinality(LiveSlots(b)) + n
  <2>1. IsFiniteSet(LiveSlots(b)) /\ Cardinality(LiveSlots(b)) \in Nat
    BY PoolParts
  <2>2. Cardinality(LiveSlots(b) \cup T) =
          Cardinality(LiveSlots(b)) + Cardinality(T) - Cardinality(LiveSlots(b) \cap T)
    BY <2>1, <1>1, FS_Union
  <2>3. Cardinality(LiveSlots(b) \cap T) = 0
    BY <1>1, FS_EmptySet
  <2> QED BY <1>1, <1>11, <2>1, <2>2, <2>3
<1>14. ASSUME NEW i \in LiveSlots(b) PROVE i \in DOMAIN c /\ c[i] = b[i]
  BY <1>1, <1>2, <1>4 DEF LiveSlots
<1>15. ASSUME NEW i \in LiveSlots(c), NEW j \in LiveSlots(c),
              c[i].handle = c[j].handle
       PROVE  i = j
  <2>1. ASSUME NEW k \in LiveSlots(b) PROVE c[k].handle \in Live(b)
    BY <1>14 DEF Live
  <2>2. CASE i \in T /\ j \in T
    BY <2>2, <1>15, <1>t
  <2>3. CASE i \in T /\ j \notin T
    BY <2>1, <2>3, <1>15, <1>11, <1>t
  <2>4. CASE i \notin T /\ j \in T
    BY <2>1, <2>4, <1>15, <1>11, <1>t
  <2>5. CASE i \notin T /\ j \notin T
    <3>1. i \in LiveSlots(b) /\ j \in LiveSlots(b)
      BY <2>5, <1>11
    <3>2. b[i].handle = b[j].handle
      BY <3>1, <1>14, <1>15
    <3> QED BY <3>1, <3>2 DEF WellFormed
  <2> QED BY <2>2, <2>3, <2>4, <2>5
<1>16. WellFormed(c)
  BY <1>1, <1>2, <1>8, <1>9, <1>15 DEF WellFormed
<1> QED BY <1>12, <1>13, <1>14, <1>16

(* A vector with the slots of a well-formed one is well formed when every  *)
(* slot keeps its buffer or loses it, and only slots with one are in use.  *)
LEMMA SameSlots ==
  ASSUME NEW b, WellFormed(b), NEW c,
         DOMAIN c = DOMAIN b, c = [i \in DOMAIN c |-> c[i]],
         \A i \in DOMAIN b :
           /\ c[i] \in Slot
           /\ c[i].handle = NoHandle \/ c[i].handle = b[i].handle
           /\ c[i].handle = NoHandle => ~c[i].inUse
  PROVE  WellFormed(c)
<1>1. DOMAIN b = 0 .. Size(b) - 1 /\ Size(b) \in Nat
  BY DEF WellFormed
<1>2. Size(c) = Size(b)
  BY <1>1, VectorSize
<1>3. c \in [0 .. Size(c) - 1 -> Slot]
  BY <1>1, <1>2
<1>4. ASSUME NEW i \in LiveSlots(c)
      PROVE  i \in LiveSlots(b) /\ c[i].handle = b[i].handle /\ i \in DOMAIN c
  BY DEF LiveSlots, Empty
<1>5. ASSUME NEW i \in LiveSlots(c), NEW j \in LiveSlots(c),
             c[i].handle = c[j].handle
      PROVE  i = j
  BY <1>4, <1>5 DEF WellFormed
<1> QED BY <1>1, <1>2, <1>3, <1>5 DEF WellFormed

(* Shrinking by n: buffers leave free slots only, as many as it reports.   *)
LEMMA ReleasePool ==
  ASSUME NEW b, WellFormed(b), NEW n \in Nat, NEW c, c = Release(b, n)
  PROVE  /\ WellFormed(c)
         /\ InUse(c) = InUse(b)
         /\ Removed(b, n) \in Nat
         /\ Cardinality(LiveSlots(c)) = Cardinality(LiveSlots(b)) - Removed(b, n)
         /\ \A i \in InUse(b) : i \in DOMAIN c /\ c[i] = b[i]
<1> DEFINE R == Released(b, n)
<1>1. R \in SUBSET Free(b)
  BY DEF Released, Lowest
<1>2. /\ Free(b) \in SUBSET LiveSlots(b) /\ InUse(b) \in SUBSET LiveSlots(b)
      /\ LiveSlots(b) \in SUBSET (DOMAIN b)
      /\ Free(b) = LiveSlots(b) \ InUse(b)
      /\ IsFiniteSet(LiveSlots(b)) /\ Cardinality(LiveSlots(b)) \in Nat
      /\ IsFiniteSet(R) /\ Cardinality(R) \in Nat
  <2>1. R \in SUBSET (DOMAIN b)
    BY <1>1, PoolParts
  <2> QED BY <2>1, PoolParts
<1>3. DOMAIN c = DOMAIN b /\ c = [i \in DOMAIN c |-> c[i]]
  BY DEF Release
<1>4. ASSUME NEW i \in DOMAIN b, i \in R
      PROVE  c[i].handle = NoHandle /\ c[i].inUse = FALSE /\ c[i] \in Slot
  <2>1. b[i] \in Slot /\ ~b[i].inUse
    BY <1>1, <1>4 DEF WellFormed, Free
  <2>2. c[i] = [b[i] EXCEPT !.handle = NoHandle]
    BY <1>4 DEF Release
  <2> QED BY <2>1, <2>2 DEF Slot
<1>5. ASSUME NEW i \in DOMAIN b, i \notin R
      PROVE  c[i] = b[i] /\ c[i] \in Slot
  BY <1>5 DEF Release, WellFormed
<1> HIDE DEF R
<1>6. ASSUME NEW i \in DOMAIN b
      PROVE  /\ c[i] \in Slot
             /\ c[i].handle = NoHandle \/ c[i].handle = b[i].handle
             /\ c[i].handle = NoHandle => ~c[i].inUse
  BY <1>4, <1>5 DEF WellFormed
<1>7. WellFormed(c)
  BY <1>3, <1>6, SameSlots
<1>8. ASSUME NEW i \in InUse(b) PROVE i \in DOMAIN c /\ c[i] = b[i]
  BY <1>1, <1>2, <1>3, <1>5
<1>9. InUse(c) = InUse(b)
  <2>1. ASSUME NEW i \in InUse(c) PROVE i \in InUse(b)
    BY <1>3, <1>4, <1>5 DEF InUse
  <2>2. ASSUME NEW i \in InUse(b) PROVE i \in InUse(c)
    BY <1>8 DEF InUse
  <2> QED BY <2>1, <2>2
<1>10. LiveSlots(c) = LiveSlots(b) \ R
  <2>1. ASSUME NEW i \in LiveSlots(c) PROVE i \in LiveSlots(b) \ R
    BY <1>3, <1>4, <1>5 DEF LiveSlots, Empty
  <2>2. ASSUME NEW i \in LiveSlots(b) \ R PROVE i \in LiveSlots(c)
    BY <1>3, <1>5 DEF LiveSlots, Empty
  <2> QED BY <2>1, <2>2
<1>11. Cardinality(LiveSlots(c)) = Cardinality(LiveSlots(b)) - Cardinality(R)
  <2>1. LiveSlots(b) \cap R = R
    BY <1>1, <1>2
  <2> QED BY <2>1, <1>2, <1>10, FS_Difference, ZenonT(40)
<1> QED BY <1>2, <1>7, <1>8, <1>9, <1>11 DEF Removed, R

(* Reserving a free slot. *)
LEMMA ReservePool ==
  ASSUME NEW b, WellFormed(b), NEW i \in Free(b), NEW c, c = Reserve(b, i)
  PROVE  /\ WellFormed(c) /\ DOMAIN c = DOMAIN b
         /\ InUse(c) = InUse(b) \cup {i} /\ i \notin InUse(b)
         /\ Cardinality(InUse(c)) = Cardinality(InUse(b)) + 1
         /\ LiveSlots(c) = LiveSlots(b)
         /\ \A j \in DOMAIN b : c[j].handle = b[j].handle
         /\ \A j \in InUse(b) : c[j] = b[j]
<1>1. i \in DOMAIN b /\ b[i].handle # NoHandle /\ ~b[i].inUse
  BY DEF Free
<1>2. DOMAIN c = DOMAIN b /\ c = [j \in DOMAIN c |-> c[j]]
  BY DEF Reserve
<1>3. \A j \in DOMAIN b : b[j] \in Slot /\ (b[j].handle = NoHandle => ~b[j].inUse)
  BY DEF WellFormed
<1>4. c[i].handle = b[i].handle /\ c[i].inUse = TRUE /\ c[i] \in Slot
  BY <1>1, <1>3 DEF Reserve, Slot
<1>5. \A j \in DOMAIN b : j # i => c[j] = b[j]
  BY DEF Reserve
<1>6. \A j \in DOMAIN b : c[j] \in Slot /\ c[j].handle = b[j].handle
                          /\ (c[j].handle = NoHandle => ~c[j].inUse)
  BY <1>1, <1>3, <1>4, <1>5
<1>7. WellFormed(c)
  BY <1>2, <1>6, SameSlots
<1>8. InUse(c) = InUse(b) \cup {i} /\ i \notin InUse(b)
  BY <1>1, <1>2, <1>4, <1>5 DEF InUse
<1>9. LiveSlots(c) = LiveSlots(b)
  BY <1>2, <1>6 DEF LiveSlots, Empty
<1>10. IsFiniteSet(InUse(b)) /\ Cardinality(InUse(b)) \in Nat
  <2>1. InUse(b) \in SUBSET (DOMAIN b)
    BY DEF InUse
  <2> QED BY <2>1, PoolParts
<1>11. Cardinality(InUse(c)) = Cardinality(InUse(b)) + 1
  BY <1>8, <1>10, FS_AddElement
<1>12. \A j \in InUse(b) : c[j] = b[j]
  BY <1>5, <1>8 DEF InUse
<1> QED BY <1>2, <1>6, <1>7, <1>8, <1>9, <1>11, <1>12

(* Giving a slot in use free. *)
LEMMA FreePool ==
  ASSUME NEW b, WellFormed(b), NEW i \in InUse(b), NEW c, c = MakeFree(b, i)
  PROVE  /\ WellFormed(c) /\ DOMAIN c = DOMAIN b
         /\ InUse(c) = InUse(b) \ {i}
         /\ Cardinality(InUse(c)) = Cardinality(InUse(b)) - 1
         /\ Cardinality(InUse(b)) \in Nat \ {0}
         /\ LiveSlots(c) = LiveSlots(b) /\ i \in LiveSlots(c)
         /\ \A j \in DOMAIN b : c[j].handle = b[j].handle
         /\ \A j \in InUse(b) \ {i} : c[j] = b[j]
<1>1. i \in DOMAIN b /\ b[i].inUse
  BY DEF InUse
<1>2. DOMAIN c = DOMAIN b /\ c = [j \in DOMAIN c |-> c[j]]
  BY DEF MakeFree
<1>3. \A j \in DOMAIN b : b[j] \in Slot /\ (b[j].handle = NoHandle => ~b[j].inUse)
  BY DEF WellFormed
<1>4. c[i].handle = b[i].handle /\ c[i].inUse = FALSE /\ c[i] \in Slot
  BY <1>1, <1>3 DEF MakeFree, Slot
<1>5. \A j \in DOMAIN b : j # i => c[j] = b[j]
  BY DEF MakeFree
<1>6. \A j \in DOMAIN b : c[j] \in Slot /\ c[j].handle = b[j].handle
                          /\ (c[j].handle = NoHandle => ~c[j].inUse)
  BY <1>1, <1>3, <1>4, <1>5
<1>7. WellFormed(c)
  BY <1>2, <1>6, SameSlots
<1>8. InUse(c) = InUse(b) \ {i}
  BY <1>1, <1>2, <1>4, <1>5 DEF InUse
<1>9. LiveSlots(c) = LiveSlots(b) /\ i \in LiveSlots(c)
  BY <1>1, <1>2, <1>3, <1>6 DEF LiveSlots, Empty
<1>10. IsFiniteSet(InUse(b)) /\ Cardinality(InUse(b)) \in Nat
  <2>1. InUse(b) \in SUBSET (DOMAIN b)
    BY DEF InUse
  <2> QED BY <2>1, PoolParts
<1>11. Cardinality(InUse(c)) = Cardinality(InUse(b)) - 1
  BY <1>8, <1>10, FS_RemoveElement
<1>12. Cardinality(InUse(b)) # 0
  BY <1>10, FS_EmptySet
<1>13. \A j \in InUse(b) \ {i} : c[j] = b[j]
  BY <1>5 DEF InUse
<1> QED BY <1>2, <1>6, <1>7, <1>8, <1>9, <1>10, <1>11, <1>12, <1>13

(* The buffers of a pool are no more than there are. *)
LEMMA PoolBounded ==
  ASSUME NEW b, WellFormed(b)
  PROVE  /\ Cardinality(LiveSlots(b)) \in Nat /\ Cardinality(InUse(b)) \in Nat
         /\ Cardinality(InUse(b)) <= Cardinality(LiveSlots(b))
         /\ Cardinality(LiveSlots(b)) <= UintMax
<1> DEFINE f == [i \in LiveSlots(b) |-> b[i].handle]
<1>1. /\ IsFiniteSet(LiveSlots(b)) /\ Cardinality(LiveSlots(b)) \in Nat
      /\ IsFiniteSet(InUse(b)) /\ Cardinality(InUse(b)) \in Nat
      /\ InUse(b) \in SUBSET LiveSlots(b)
  <2>1. InUse(b) \in SUBSET LiveSlots(b) /\ LiveSlots(b) \in SUBSET (DOMAIN b)
    BY PoolParts
  <2>2. InUse(b) \in SUBSET (DOMAIN b)
    BY <2>1
  <2> QED BY <2>1, <2>2, PoolParts
<1>2. Cardinality(InUse(b)) <= Cardinality(LiveSlots(b))
  BY <1>1, FS_Subset
<1>3. f \in Injection(LiveSlots(b), Handles)
  <2>1. ASSUME NEW i \in LiveSlots(b) PROVE b[i].handle \in Handles
    BY DEF LiveSlots, Empty, WellFormed, Slot
  <2>2. \A i, j \in LiveSlots(b) : b[i].handle = b[j].handle => i = j
    BY DEF WellFormed
  <2> QED BY <2>1, <2>2 DEF Injection, IsInjective
<1>4. /\ IsFiniteSet(Handles) /\ Cardinality(Handles) <= UintMax
      /\ UintMax \in Nat /\ Cardinality(Handles) \in Nat
  BY CameraAssumption, FS_CardinalityType
<1>5. Cardinality(LiveSlots(b)) <= Cardinality(Handles)
  BY <1>3, <1>4, FS_Injection
<1> QED BY <1>1, <1>2, <1>4, <1>5

(* Handling a return: the slot is free, its buffer stays in the pool, and  *)
(* the frames still in use are not touched.                                *)
LEMMA ReclaimPool ==
  ASSUME NEW b, WellFormed(b), NEW id \in InUse(b), NEW c, c = Reclaimed(b, id)
  PROVE  /\ WellFormed(c)
         /\ InUse(c) = InUse(b) \ {id}
         /\ Cardinality(InUse(c)) = Cardinality(InUse(b)) - 1
         /\ Cardinality(InUse(b)) \in Nat \ {0}
         /\ Cardinality(LiveSlots(c)) = Cardinality(LiveSlots(b))
         /\ Live(c) = Live(b)
         /\ \A j \in InUse(b) \ {id} : c[j] = b[j]
<1> DEFINE d   == MakeFree(b, id)
           low == Min(Empty(d))
           move == id >= framesAllowed /\ Empty(d) # {}
<1>1. /\ WellFormed(d) /\ DOMAIN d = DOMAIN b
      /\ InUse(d) = InUse(b) \ {id}
      /\ Cardinality(InUse(d)) = Cardinality(InUse(b)) - 1
      /\ Cardinality(InUse(b)) \in Nat \ {0}
      /\ LiveSlots(d) = LiveSlots(b) /\ id \in LiveSlots(d)
      /\ \A j \in InUse(b) \ {id} : d[j] = b[j]
      /\ \A j \in DOMAIN b : d[j].handle = b[j].handle
      /\ LiveSlots(b) \in SUBSET (DOMAIN b)
  BY FreePool, PoolParts
<1>a. Live(d) = Live(b)
  <2> HIDE DEF d
  <2> QED BY <1>1 DEF Live
<1>2. CASE ~move
  <2>1. c = d
    BY <1>2 DEF Reclaimed
  <2> QED BY <1>1, <1>a, <2>1
<1>3. CASE move
  <2>1. /\ DOMAIN d = 0 .. Size(d) - 1 /\ Size(d) \in Nat
        /\ LiveSlots(d) \in SUBSET (DOMAIN d) /\ IsFiniteSet(LiveSlots(d))
        /\ Cardinality(LiveSlots(d)) \in Nat
        /\ \A j \in DOMAIN d : d[j] \in Slot /\ (d[j].handle = NoHandle => ~d[j].inUse)
        /\ \A i, j \in LiveSlots(d) : d[i].handle = d[j].handle => i = j
    <3>1. LiveSlots(d) \in SUBSET (DOMAIN d)
      BY DEF LiveSlots
    <3> QED BY <1>1, <3>1, PoolParts DEF WellFormed
  <2>2. low \in Empty(d)
    <3>1. Empty(d) \in SUBSET Nat /\ Empty(d) # {}
      BY <1>3, <2>1 DEF Empty
    <3> HIDE DEF d
    <3>2. \E x \in Empty(d) : \A y \in Empty(d) : x <= y
      BY <3>1, MinExists
    <3> QED BY <3>2 DEF Min
  <2>3. c = [d EXCEPT ![low].handle = d[id].handle, ![id].handle = NoHandle]
    BY <1>3 DEF Reclaimed
  <2> HIDE DEF d, low
  <2>4. /\ low \in DOMAIN d /\ d[low].handle = NoHandle /\ d[low].inUse = FALSE
        /\ id \in DOMAIN d /\ d[id].handle \in Handles /\ d[id].handle # NoHandle
        /\ id # low
    <3>1. low \in DOMAIN d /\ d[low].handle = NoHandle /\ ~d[low].inUse
      BY <2>1, <2>2 DEF Empty
    <3>2. id \in DOMAIN d /\ d[id].handle # NoHandle
      BY <1>1, <2>1 DEF LiveSlots, Empty
    <3> QED BY <2>1, <3>1, <3>2 DEF Slot
  <2>5. DOMAIN c = DOMAIN d /\ c = [j \in DOMAIN c |-> c[j]]
    BY <2>3
  <2>6. c[low].handle = d[id].handle /\ c[low].inUse = FALSE /\ c[low] \in Slot
    <3>1. c[low] = [d[low] EXCEPT !.handle = d[id].handle]
      BY <2>3, <2>4
    <3> QED BY <2>1, <2>4, <3>1 DEF Slot
  <2>7. id \notin InUse(d)
    BY <1>1
  <2>8. c[id].handle = NoHandle /\ c[id].inUse = FALSE /\ c[id] \in Slot
    <3>1. c[id] = [d[id] EXCEPT !.handle = NoHandle] /\ ~d[id].inUse
      BY <2>3, <2>4, <2>7 DEF InUse
    <3> QED BY <2>1, <2>4, <3>1 DEF Slot
  <2>9. \A j \in DOMAIN d : j # low /\ j # id => c[j] = d[j]
    BY <2>3, <2>4
  <2>10. Size(c) = Size(d)
    BY <2>1, <2>5, VectorSize
  <2>11. \A j \in DOMAIN c : c[j] \in Slot /\ (c[j].handle = NoHandle => ~c[j].inUse)
    BY <2>1, <2>5, <2>6, <2>8, <2>9
  <2>12. LiveSlots(c) = (LiveSlots(d) \ {id}) \cup {low}
    BY <2>2, <2>4, <2>5, <2>6, <2>8, <2>9 DEF LiveSlots, Empty
  <2>13. Cardinality(LiveSlots(c)) = Cardinality(LiveSlots(d))
    <3>1. IsFiniteSet(LiveSlots(d) \ {id})
          /\ Cardinality(LiveSlots(d) \ {id}) = Cardinality(LiveSlots(d)) - 1
      BY <1>1, <2>1, FS_RemoveElement
    <3>2. low \notin LiveSlots(d) \ {id}
      BY <2>2 DEF LiveSlots
    <3>3. Cardinality(LiveSlots(c)) = Cardinality(LiveSlots(d) \ {id}) + 1
      BY <2>12, <3>1, <3>2, FS_AddElement
    <3> QED BY <2>1, <3>1, <3>3
  <2>14. ASSUME NEW i \in LiveSlots(c), NEW j \in LiveSlots(c),
                c[i].handle = c[j].handle
         PROVE  i = j
    <3>1. \A k \in LiveSlots(c) : k # low => k \in LiveSlots(d) /\ k # id /\ c[k] = d[k]
      BY <2>1, <2>9, <2>12
    <3>2. CASE i = low /\ j # low
      BY <1>1, <2>1, <2>6, <2>14, <3>1, <3>2
    <3>3. CASE i # low /\ j = low
      BY <1>1, <2>1, <2>6, <2>14, <3>1, <3>3
    <3>4. CASE i # low /\ j # low
      BY <2>1, <2>14, <3>1, <3>4
    <3> QED BY <3>2, <3>3, <3>4
  <2>15. WellFormed(c)
    <3>1. c \in [0 .. Size(c) - 1 -> Slot]
      BY <2>1, <2>5, <2>10, <2>11
    <3> QED BY <2>1, <2>10, <2>11, <2>14, <3>1 DEF WellFormed
  <2>16. InUse(c) = InUse(d)
    BY <2>4, <2>5, <2>6, <2>7, <2>8, <2>9 DEF InUse
  <2>17. \A j \in InUse(b) \ {id} : c[j] = b[j]
    <3>1. \A j \in InUse(b) \ {id} : j \in InUse(d) /\ j # low /\ j \in DOMAIN d
      BY <1>1, <2>4 DEF InUse
    <3> QED BY <1>1, <2>9, <3>1
  <2>18. Live(c) = Live(d)
    <3>1. id \in LiveSlots(d) /\ low \in LiveSlots(c)
      BY <1>1, <2>12
    <3>2. \A k \in LiveSlots(c) : k # low => k \in LiveSlots(d) /\ c[k] = d[k]
      BY <2>1, <2>9, <2>12
    <3>3. \A k \in LiveSlots(d) : k # id => k \in LiveSlots(c) /\ c[k] = d[k]
      BY <2>1, <2>2, <2>9, <2>12 DEF LiveSlots
    <3>4. ASSUME NEW x \in Live(c) PROVE x \in Live(d)
      BY <2>6, <3>1, <3>2 DEF Live
    <3>5. ASSUME NEW x \in Live(d) PROVE x \in Live(c)
      BY <2>6, <3>1, <3>3 DEF Live
    <3> QED BY <3>4, <3>5
  <2> QED BY <1>1, <1>a, <2>13, <2>15, <2>16, <2>17, <2>18
<1> QED BY <1>2, <1>3

(* The buffers of free slots are those of the pool that no slot in use has. *)
LEMMA FreeBuffers ==
  ASSUME NEW b, WellFormed(b)
  PROVE  /\ Live(b) \in SUBSET Handles
         /\ \A S \in SUBSET InUse(b) : {b[i].handle : i \in S} \in SUBSET Live(b)
         /\ {b[i].handle : i \in Free(b)} =
              Live(b) \ {b[i].handle : i \in InUse(b)}
<1>1. /\ LiveSlots(b) \in SUBSET (DOMAIN b) /\ Free(b) = LiveSlots(b) \ InUse(b)
      /\ InUse(b) \in SUBSET LiveSlots(b)
  BY PoolParts
<1>2. \A i \in LiveSlots(b) : b[i].handle \in Handles
  <2> SUFFICES ASSUME NEW i \in LiveSlots(b) PROVE b[i].handle \in Handles
    OBVIOUS
  <2>1. i \in DOMAIN b /\ b[i].handle # NoHandle
    BY DEF LiveSlots, Empty
  <2>2. b[i] \in Slot
    BY <2>1 DEF WellFormed
  <2> QED BY <2>1, <2>2 DEF Slot
<1>3. \A i, j \in LiveSlots(b) : b[i].handle = b[j].handle => i = j
  BY DEF WellFormed
<1> QED BY <1>1, <1>2, <1>3 DEF Live

(* Resizing: setAvailableFrames_Locked keeps the pool consistent and the   *)
(* frames in use as they are, whether it succeeds or rolls back.           *)
Resized ==
  /\ WellFormed(buffers')
  /\ framesAllowed' = Cardinality(LiveSlots(buffers'))
  /\ InUse(buffers') = InUse(buffers)
  /\ \A i \in InUse(buffers) : buffers'[i] = buffers[i]

LEMMA GrowResizes ==
  ASSUME WellFormed(buffers), framesAllowed = Cardinality(LiveSlots(buffers)),
         NEW n \in Nat, Grow(n)
  PROVE  Resized
<1>1. PICK h \in Supplies(buffers, n) : buffers' = Store(buffers, n, h)
  BY DEF Grow
<1>2. InUse(buffers) \in SUBSET LiveSlots(buffers)
  BY PoolParts
<1>3. framesAllowed' = framesAllowed + n
  BY DEF Grow
<1> QED BY <1>1, <1>2, <1>3, GrowPool DEF Resized

LEMMA ShrinkResizes ==
  ASSUME WellFormed(buffers), framesAllowed = Cardinality(LiveSlots(buffers)),
         NEW n \in Nat, Shrink(n)
  PROVE  Resized
BY ReleasePool DEF Shrink, Resized

LEMMA RollBackResizes ==
  ASSUME WellFormed(buffers), framesAllowed = Cardinality(LiveSlots(buffers)),
         NEW n \in Nat, RollBack(n)
  PROVE  Resized
<1>1. PICK h \in Supplies(buffers, n) :
        LET grown == Store(buffers, n, h) IN
          /\ buffers' = Release(grown, n)
          /\ framesAllowed' = framesAllowed + n - Removed(grown, n)
  BY DEF RollBack
<1> DEFINE grown == Store(buffers, n, h)
<1>2. /\ WellFormed(grown) /\ InUse(grown) = InUse(buffers)
      /\ Cardinality(LiveSlots(grown)) = framesAllowed + n
      /\ \A i \in InUse(buffers) : grown[i] = buffers[i]
  <2>1. InUse(buffers) \in SUBSET LiveSlots(buffers)
    BY PoolParts
  <2> QED BY <2>1, GrowPool
<1>3. buffers' = Release(grown, n) /\ framesAllowed' = framesAllowed + n - Removed(grown, n)
  BY <1>1
<1> HIDE DEF grown
<1>4. /\ WellFormed(buffers') /\ InUse(buffers') = InUse(grown)
      /\ Removed(grown, n) \in Nat
      /\ Cardinality(LiveSlots(buffers')) =
           Cardinality(LiveSlots(grown)) - Removed(grown, n)
      /\ \A i \in InUse(grown) : buffers'[i] = grown[i]
  BY <1>2, <1>3, ReleasePool
<1>5. framesAllowed' = Cardinality(LiveSlots(buffers'))
  <2>1. framesAllowed \in Nat
    BY PoolBounded
  <2> QED BY <2>1, <1>2, <1>3, <1>4
<1>6. InUse(buffers') = InUse(buffers)
      /\ \A i \in InUse(buffers) : buffers'[i] = buffers[i]
  BY <1>2, <1>4
<1> QED BY <1>4, <1>5, <1>6 DEF Resized

LEMMA RequestResizes ==
  ASSUME WellFormed(buffers), framesAllowed = Cardinality(LiveSlots(buffers)),
         NEW n \in Nat, FramesSet(n) \/ FramesNotSet(n)
  PROVE  Resized
<1>1. framesAllowed \in Nat
  BY PoolBounded
<1>2. CASE UNCHANGED <<buffers, framesAllowed>>
  BY <1>2 DEF Resized
<1>3. CASE framesAllowed < n /\ Grow(n - framesAllowed)
  <2>1. n - framesAllowed \in Nat
    BY <1>1, <1>3
  <2> QED BY <1>3, <2>1, GrowResizes
<1>4. CASE framesAllowed > n /\ Shrink(framesAllowed - n)
  <2>1. framesAllowed - n \in Nat
    BY <1>1, <1>4
  <2> QED BY <1>4, <2>1, ShrinkResizes
<1>5. CASE \E a \in 0 .. n - framesAllowed - 1 : RollBack(a)
  BY <1>5, RollBackResizes
<1> QED BY <1>2, <1>3, <1>4, <1>5 DEF FramesSet, FramesNotSet

-------------------------------------------------------------------------------
(* The camera.                                                             *)

(* The steps of the camera that are steps of the capture wrapper. *)
CaptureStep ==
  \/ StartStream \/ StopStream \/ Close \/ CaptureLoop \/ DriverFills

-----------------------------------------------------------------------------
(* Types and threads.                                                      *)

(* What a step of the camera does to the state of VideoCapture is a step   *)
(* of VideoCapture or nothing.                                             *)
LEMMA StepOfCapture ==
  ASSUME [Next]_vars
  PROVE  CaptureStep \/ UNCHANGED captureVars
<1>1. CASE UNCHANGED vars
  BY <1>1 DEF vars
<1>2. CASE SetMaxFramesInFlight \/ ImportExternalBuffers \/ DoneWithFrame
  BY <1>2 DEF SetMaxFramesInFlight, ImportExternalBuffers, DoneWithFrame
<1>3. CASE StartVideoStream
  BY <1>3 DEF StartVideoStream, CaptureStep, StartStream
<1>4. CASE StopVideoStream \/ BinderCompletes
  BY <1>4 DEF StopVideoStream, BinderCompletes, StopVideoStreamJoins,
              NotifyStreamStopped, CloseCamera, ReclaimFrame, CaptureStep,
              StopStream
<1>5. CASE CaptureThread \/ Driver
  BY <1>5 DEF CaptureThread, Driver, ForwardFrame, ReserveSlot, SkipFrame,
              ReadBase, ReadHandle, FillFrame, CheckClient, DeliverFrame,
              UndoReservation, ForwardFrameReturns, CaptureStep, CaptureLoop
<1> QED BY <1>1, <1>2, <1>3, <1>4, <1>5 DEF Next

(* The types of VideoCapture are kept. *)
LEMMA CaptureTypes ==
  ASSUME VCTypeOK, [Next]_vars
  PROVE  VCTypeOK'
<1> USE DEF VCTypeOK, loopVars, deviceVars
<1>a. /\ <<>> \in Seq(Buf)
      /\ \A n \in Buf : 0 .. n - 1 \in SUBSET Buf
      /\ \A q \in Seq(Buf) : q # <<>> => Head(q) \in Buf /\ Tail(q) \in Seq(Buf)
      /\ \A q \in Seq(Buf), c \in Buf : Append(q, c) \in Seq(Buf)
  BY BufferCountAssumption DEF Buf
<1>1. CASE UNCHANGED captureVars
  BY <1>1 DEF captureVars
<1>2. CASE StartRefused \/ StopReentered
  BY <1>2 DEF StartRefused, StopReentered, captureVars
<1>3. CASE StartFails
  BY <1>3, <1>a DEF StartFails, WithBit
<1>4. CASE StartSucceeds
  <2>1. numStreaming + 1 \in Int
    OBVIOUS
  <2> QED BY <1>4, <1>a, <2>1 DEF StartSucceeds, WithBit, NoBuf
<1>5. CASE StopWhenStopped \/ StopJoined
  <2>1. numStreaming - 1 \in Int
    OBVIOUS
  <2> QED BY <1>5, <1>a, <2>1
          DEF StopWhenStopped, StopJoined, ReleaseCaptureBuffers
<1>6. CASE StopSignal \/ Close
  BY <1>6 DEF StopSignal, WithBit, Close
<1>7. CASE \/ CheckRunMode \/ SelectTimesOut \/ DeviceFails \/ CallbackReturns
           \/ ThreadEnds
  BY <1>7 DEF CheckRunMode, SelectTimesOut, DeviceFails, CallbackReturns,
              ThreadEnds, MarkStopped
<1>8. CASE Dequeue
  BY <1>8, <1>a DEF Dequeue
<1>9. CASE ReturnFrame
  <2>1. cur \in frames => cur \in Buf
    OBVIOUS
  <2> QED BY <1>9, <2>1 DEF ReturnFrame, Erased
<1>10. CASE DriverFills
  BY <1>10, <1>a DEF DriverFills
<1> QED
  BY <1>1, <1>2, <1>3, <1>4, <1>5, <1>6, <1>7, <1>8, <1>9, <1>10, StepOfCapture
  DEF CaptureStep, StartStream, StopStream, CaptureLoop

(* Threads stay where they may be: in particular stopVideoStream leaves no *)
(* capture thread behind.                                                  *)
LEMMA ThreadStep ==
  ASSUME VCTypeOK, ThreadInv, [Next]_vars
  PROVE  ThreadInv'
<1> USE DEF VCTypeOK, ThreadInv, ThreadAt, Idle, CallerFree,
            captureVars, loopVars, deviceVars, cameraVars, poolVars,
            binderVars, frameVars, clientVars
<1>1. CASE UNCHANGED vars
  BY <1>1 DEF vars
<1>2. CASE SetMaxFramesInFlight \/ ImportExternalBuffers
  BY <1>2 DEF SetMaxFramesInFlight, ImportExternalBuffers
<1>3. CASE StartVideoStream
  <2>1. op = "idle" /\ caller = "idle" /\ fdOpen /\ ~terminated
        /\ UNCHANGED <<op, fpc, returning>>
    BY <1>3 DEF StartVideoStream
  <2>2. CASE StartSucceeds /\ stream' = TRUE /\ eos' = FALSE
    BY <2>1, <2>2 DEF StartSucceeds, WithBit
  <2>3. CASE (StartRefused \/ StartFails) /\ UNCHANGED <<stream, eos>>
    <3>1. CASE StartRefused
      BY <2>1, <2>3, <3>1 DEF StartRefused
    <3>2. CASE StartFails
      <4>1. /\ thread # "alive" /\ thread' = thread /\ caller' = caller
            /\ runMode' = runMode \cup {"RUN"} /\ fpc = "lock"
        BY <3>2 DEF StartFails, WithBit
      <4> QED BY <2>1, <4>1
    <3> QED BY <2>3, <3>1, <3>2
  <2>4. CASE UNCHANGED <<captureVars, stream, eos>>
    BY <2>1, <2>4
  <2> QED BY <1>3, <2>2, <2>3, <2>4 DEF StartVideoStream
<1>4. CASE StopVideoStream
  BY <1>4 DEF StopVideoStream, StopWhenStopped, StopReentered, StopSignal, WithBit
<1>5. CASE DoneWithFrame
  BY <1>5 DEF DoneWithFrame
<1>6. CASE StopVideoStreamJoins
  BY <1>6 DEF StopVideoStreamJoins, StopJoined, JoinReturns
<1>7. CASE NotifyStreamStopped
  BY <1>7 DEF NotifyStreamStopped, VideoStopped, Told
<1>8. CASE CloseCamera
  BY <1>8 DEF CloseCamera, Close
<1>9. CASE ReclaimFrame
  BY <1>9 DEF ReclaimFrame
<1>10. CASE ReserveSlot \/ ReadBase \/ ReadHandle \/ CheckClient \/ DeliverFrame \/ UndoReservation
  BY <1>10 DEF ReserveSlot, ReadBase, ReadHandle, CheckClient, DeliverFrame,
               UndoReservation, Forwarding
<1>11. CASE SkipFrame \/ FillFrame
  BY <1>11 DEF SkipFrame, FillFrame, Forwarding, ReturnFrame, Erased
<1>12. CASE ForwardFrameReturns
  BY <1>12 DEF ForwardFrameReturns, Forwarding, CallbackReturns
<1>13. CASE UNCHANGED cameraVars /\ (CheckRunMode \/ SelectTimesOut \/ DeviceFails)
  BY <1>13 DEF CheckRunMode, SelectTimesOut, DeviceFails
<1>14. CASE UNCHANGED cameraVars /\ Dequeue
  BY <1>14 DEF Dequeue
<1>15. CASE UNCHANGED cameraVars /\ (ThreadEnds \/ DriverFills)
  BY <1>15 DEF ThreadEnds, MarkStopped, DriverFills
<1> QED
  BY <1>1, <1>2, <1>3, <1>4, <1>5, <1>6, <1>7, <1>8, <1>9, <1>10, <1>11,
     <1>12, <1>13, <1>14, <1>15
  DEF Next, BinderCompletes, CaptureThread, ForwardFrame, Driver

-----------------------------------------------------------------------------
(* The pool and the users of its slots.                                    *)

(* Free slots are found by their minimum; counters below their limits      *)
(* count.                                                                  *)
LEMMA LowestFree ==
  ASSUME WellFormed(buffers), Free(buffers) # {}
  PROVE  Min(Free(buffers)) \in Free(buffers)
<1> DEFINE F == Free(buffers)
<1>1. F \in SUBSET Nat
  BY DEF Free, WellFormed
<1> HIDE DEF F
<1>2. F # {} => \E x \in F : \A y \in F : x <= y
  BY <1>1, MinExists
<1>3. F # {} => Min(F) \in F
  BY <1>2 DEF Min
<1> QED BY <1>3 DEF F

LEMMA Counting ==
  ASSUME NEW x \in 0 .. UintMax
  PROVE  /\ Increment(x) \in 0 .. UintMax /\ Decrement(x) \in 0 .. UintMax
         /\ x < UintMax => Increment(x) = x + 1
         /\ x > 0 => Decrement(x) = x - 1
BY CameraAssumption DEF Increment, Decrement

(* The slot forwardFrame works on, and those of frames held or being       *)
(* returned, are slots in use.                                             *)
LEMMA UsersOfSlots ==
  ASSUME OwnInv, fdOpen
  PROVE  /\ Worked \in SUBSET InUse(buffers) /\ returning \in SUBSET InUse(buffers)
         /\ \A f \in held : f.id \in InUse(buffers)
BY DEF OwnInv, HeldIds

(* After a resize everybody has the slots they had.                        *)
LEMMA ResizeKeepsInv ==
  ASSUME PoolInv, OwnInv, fdOpen, Resized,
         UNCHANGED <<fdOpen, framesInUse, held, returning, fpc, fidx, fhandle>>
  PROVE  PoolInv' /\ OwnInv'
<1>1. PoolInv'
  BY DEF PoolInv, Resized
<1>2. /\ InUse(buffers') = InUse(buffers)
      /\ \A i \in InUse(buffers) : buffers'[i] = buffers[i]
  BY DEF Resized
<1>3. HeldIds' = HeldIds /\ Worked' = Worked
  BY DEF HeldIds, Worked
<1>4. \A f \in held : buffers'[f.id].handle = buffers[f.id].handle
  BY <1>2, UsersOfSlots
<1>5. fpc \in {"fill", "deliver", "send"} => buffers'[fidx].handle = buffers[fidx].handle
  BY <1>2, UsersOfSlots DEF Worked
<1>6. OwnInv'
  BY <1>2, <1>3, <1>4, <1>5 DEF OwnInv
<1> QED BY <1>1, <1>6

(* Steps that leave the pool and its users alone. *)
LEMMA OthersKeepInv ==
  ASSUME PoolInv, OwnInv,
         UNCHANGED <<fdOpen, buffers, framesAllowed, framesInUse, held, returning>>,
         Worked' = Worked,
         fpc' \in {"fill", "deliver", "send"} =>
           /\ fidx' = fidx
           /\ \/ fhandle' = buffers[fidx].handle
              \/ fhandle' = fhandle /\ fpc \in {"fill", "deliver", "send"}
  PROVE  PoolInv' /\ OwnInv'
<1>1. PoolInv'
  BY DEF PoolInv
<1>2. HeldIds' = HeldIds
  BY DEF HeldIds
<1>3. OwnInv'
  BY <1>2 DEF OwnInv
<1> QED BY <1>1, <1>3

(* The invariant of the pool and of its users is kept by every step of a   *)
(* camera whose client returns what it holds and whose freed memory is not *)
(* overwritten.                                                            *)
LEMMA PoolStep ==
  ASSUME TypeOK, ThreadInv, PoolInv, OwnInv, [Next]_vars,
         RepeatedReturns = FALSE, "reuse" \notin Faults
  PROVE  PoolInv' /\ OwnInv'
<1> USE DEF captureVars, loopVars, deviceVars, cameraVars, poolVars,
            binderVars, frameVars, clientVars
<1>a. fdOpen => /\ WellFormed(buffers)
                /\ framesAllowed = Cardinality(LiveSlots(buffers))
                /\ framesInUse = Cardinality(InUse(buffers))
                /\ framesAllowed \in Nat /\ framesInUse \in Nat
                /\ framesInUse \in 0 .. UintMax
                /\ framesInUse <= framesAllowed /\ framesAllowed <= UintMax
  BY PoolBounded DEF PoolInv, TypeOK, CameraTypeOK
<1>b. \A pc : Forwarding(pc) => fdOpen /\ fpc = pc
  BY DEF Forwarding, ThreadAt, ThreadInv
<1>1. CASE UNCHANGED vars
  BY <1>1, OthersKeepInv DEF vars, Worked
<1>2. CASE SetMaxFramesInFlight
  <2>1. PICK n \in Requests : FramesSet(n) \/ FramesNotSet(n)
    BY <1>2 DEF SetMaxFramesInFlight
  <2>2. fdOpen /\ n \in Nat
    BY <1>2, CameraAssumption DEF SetMaxFramesInFlight
  <2>3. Resized
    BY <1>a, <2>1, <2>2, RequestResizes
  <2> QED BY <1>2, <2>2, <2>3, ResizeKeepsInv DEF SetMaxFramesInFlight
<1>3. CASE ImportExternalBuffers
  <2>1. fdOpen
    BY <1>3 DEF ImportExternalBuffers
  <2>2. PICK n \in Imports :
          LET room  == (kMaxBuffersInFlight - framesAllowed) % (UintMax + 1)
              toAdd == IF n > room THEN n - room ELSE n
          IN  \E a \in 0 .. toAdd : (a = toAdd \/ "import" \in Faults) /\ Grow(a)
    BY <1>3 DEF ImportExternalBuffers
  <2>3. PICK a : a \in Nat /\ Grow(a)
    BY <2>2
  <2>4. Resized
    BY <1>a, <2>1, <2>3, GrowResizes
  <2> QED BY <1>3, <2>1, <2>4, ResizeKeepsInv DEF ImportExternalBuffers
<1>4. CASE StartVideoStream
  <2>1. fdOpen /\ UNCHANGED <<fdOpen, framesInUse, held, returning, fpc, fidx, fhandle>>
    BY <1>4 DEF StartVideoStream, StartSucceeds, StartRefused, StartFails
  <2>2. CASE UNCHANGED <<buffers, framesAllowed>>
    BY <2>1, <2>2, OthersKeepInv DEF Worked
  <2>3. CASE FramesSet(1) \/ FramesNotSet(1)
    <3>1. Resized
      BY <1>a, <2>1, <2>3, RequestResizes
    <3> QED BY <2>1, <3>1, ResizeKeepsInv
  <2> QED BY <1>4, <2>2, <2>3 DEF StartVideoStream
<1>5. CASE StopVideoStream
  BY <1>5, OthersKeepInv
  DEF StopVideoStream, StopWhenStopped, StopReentered, StopSignal, Worked
<1>6. CASE StopVideoStreamJoins
  BY <1>6, OthersKeepInv DEF StopVideoStreamJoins, StopJoined, Worked
<1>7. CASE NotifyStreamStopped
  BY <1>7, OthersKeepInv DEF NotifyStreamStopped, Worked
<1>8. CASE CloseCamera
  <2>1. WellFormed(EmptyVector)
    <3>1. DOMAIN EmptyVector = 0 .. 0 - 1
      BY DEF EmptyVector
    <3>2. Size(EmptyVector) = 0
      BY <3>1, VectorSize
    <3> QED BY <3>1, <3>2 DEF WellFormed, EmptyVector, LiveSlots
  <2>2. /\ buffers' = EmptyVector /\ ~fdOpen'
        /\ held' = held /\ returning' = returning /\ fpc' = fpc /\ fidx' = fidx
    BY <1>8 DEF CloseCamera, Close
  <2>3. HeldIds' = HeldIds /\ Worked' = Worked
    BY <2>2 DEF HeldIds, Worked
  <2> QED BY <2>1, <2>2, <2>3 DEF PoolInv, OwnInv
<1>9. CASE DoneWithFrame
  <2>1. PICK ids \in SUBSET HeldIds : /\ returning' = ids
                                      /\ held' = {f \in held : f.id \notin ids}
    BY <1>9 DEF DoneWithFrame, HeldIds
  <2>2. /\ returning = {}
        /\ UNCHANGED <<fdOpen, buffers, framesAllowed, framesInUse, fpc, fidx, fhandle>>
    BY <1>9 DEF DoneWithFrame, Idle, ThreadInv
  <2>3. HeldIds' = HeldIds \ ids
    BY <2>1 DEF HeldIds
  <2>4. Worked' = Worked /\ HeldIds' \cup returning' = HeldIds \cup returning
    BY <2>1, <2>2, <2>3 DEF Worked
  <2>5. held' \in SUBSET held
    BY <2>1
  <2> QED BY <2>1, <2>2, <2>3, <2>4, <2>5 DEF PoolInv, OwnInv
<1>10. CASE ReclaimFrame
  <2>1. PICK id \in returning :
          /\ returning' = returning \ {id}
          /\ IF fdOpen /\ id \in DOMAIN buffers
               THEN /\ buffers' = Reclaimed(buffers, id)
                    /\ framesInUse' = Decrement(framesInUse)
               ELSE UNCHANGED <<buffers, framesInUse>>
    BY <1>10 DEF ReclaimFrame
  <2>2. UNCHANGED <<fdOpen, framesAllowed, held, fpc, fidx, fhandle>>
    BY <1>10 DEF ReclaimFrame
  <2>3. HeldIds' = HeldIds /\ Worked' = Worked
    BY <2>2 DEF HeldIds, Worked
  <2>4. CASE ~fdOpen
    BY <2>1, <2>2, <2>3, <2>4 DEF PoolInv, OwnInv
  <2>5. CASE fdOpen
    <3>1. id \in InUse(buffers) /\ id \in DOMAIN buffers
      BY <2>5, UsersOfSlots DEF InUse
    <3>2. buffers' = Reclaimed(buffers, id) /\ framesInUse' = Decrement(framesInUse)
      BY <2>1, <2>5, <3>1
    <3>3. /\ WellFormed(buffers')
          /\ InUse(buffers') = InUse(buffers) \ {id}
          /\ Cardinality(InUse(buffers')) = Cardinality(InUse(buffers)) - 1
          /\ Cardinality(InUse(buffers)) \in Nat \ {0}
          /\ Cardinality(LiveSlots(buffers')) = Cardinality(LiveSlots(buffers))
          /\ \A j \in InUse(buffers) \ {id} : buffers'[j] = buffers[j]
      BY <1>a, <2>5, <3>1, <3>2, ReclaimPool
    <3>4. framesInUse' = framesInUse - 1
      BY <1>a, <2>5, <3>2, <3>3, Counting
    <3>5. PoolInv'
      BY <1>a, <2>2, <2>5, <3>3, <3>4 DEF PoolInv
    <3>6. id \notin HeldIds \cup Worked
      BY DEF OwnInv
    <3>7. InUse(buffers') = HeldIds' \cup returning' \cup Worked'
      BY <2>1, <2>3, <2>5, <3>3, <3>6 DEF OwnInv
    <3>8. \A f \in held : buffers'[f.id] = buffers[f.id]
      BY <2>5, <3>3, <3>6, UsersOfSlots DEF HeldIds
    <3>9. Worked # {} => buffers'[fidx] = buffers[fidx]
      BY <2>5, <3>3, <3>6, UsersOfSlots DEF Worked
    <3>10. fpc \in {"fill", "deliver", "send"} => Worked # {}
      BY DEF Worked
    <3>11. OwnInv'
      BY <2>1, <2>2, <2>3, <2>5, <3>7, <3>8, <3>9, <3>10 DEF OwnInv
    <3> QED BY <3>5, <3>11
  <2> QED BY <2>4, <2>5
<1>11. CASE ReserveSlot
  <2>1. /\ UNCHANGED <<fdOpen, framesAllowed, held, returning, fhandle>>
        /\ fdOpen /\ fpc = "lock"
    BY <1>11, <1>b DEF ReserveSlot
  <2>2. HeldIds' = HeldIds /\ Worked = {}
    BY <2>1 DEF HeldIds, Worked
  <2>3. CASE fpc' = "skip" /\ UNCHANGED <<buffers, framesInUse, fidx>>
    BY <2>1, <2>2, <2>3, OthersKeepInv DEF Worked
  <2>4. CASE /\ framesInUse < framesAllowed /\ Free(buffers) # {}
             /\ fpc' = "base" /\ fidx' = Min(Free(buffers))
             /\ buffers' = Reserve(buffers, fidx')
             /\ framesInUse' = Increment(framesInUse)
    <3>1. fidx' \in Free(buffers)
      BY <1>a, <2>1, <2>4, LowestFree
    <3>2. /\ WellFormed(buffers')
          /\ InUse(buffers') = InUse(buffers) \cup {fidx'} /\ fidx' \notin InUse(buffers)
          /\ Cardinality(InUse(buffers')) = Cardinality(InUse(buffers)) + 1
          /\ LiveSlots(buffers') = LiveSlots(buffers)
          /\ \A j \in InUse(buffers) : buffers'[j] = buffers[j]
      BY <1>a, <2>1, <2>4, <3>1, ReservePool
    <3>3. framesInUse' = framesInUse + 1
      <4>1. framesInUse < UintMax
        BY <1>a, <2>1, <2>4, CameraAssumption
      <4> QED BY <1>a, <2>1, <2>4, <4>1, Counting
    <3>4. PoolInv'
      BY <1>a, <2>1, <3>2, <3>3 DEF PoolInv
    <3>5. Worked' = {fidx'}
      BY <2>4 DEF Worked
    <3>6. InUse(buffers) = HeldIds \cup returning
      BY <2>1, <2>2 DEF OwnInv
    <3>7. \A f \in held : buffers'[f.id] = buffers[f.id]
      BY <2>1, <3>2, UsersOfSlots
    <3>8. OwnInv'
      BY <2>1, <2>2, <2>4, <3>2, <3>5, <3>6, <3>7 DEF OwnInv
    <3> QED BY <3>4, <3>8
  <2>5. framesInUse \in Int /\ framesAllowed \in Int
    BY <1>a, <2>1
  <2> QED BY <1>11, <2>3, <2>4, <2>5 DEF ReserveSlot
<1>12. CASE SkipFrame
  BY <1>12, OthersKeepInv DEF SkipFrame, Forwarding, ReturnFrame, Worked
<1>13. CASE ReadBase
  BY <1>13, OthersKeepInv DEF ReadBase, Forwarding, Worked
<1>14. CASE ReadHandle
  <2>1. fhandle' = buffers[fidx].handle
    BY <1>14 DEF ReadHandle
  <2> QED BY <1>14, <2>1, OthersKeepInv DEF ReadHandle, Forwarding, Worked
<1>15. CASE FillFrame
  BY <1>15, OthersKeepInv DEF FillFrame, Forwarding, ReturnFrame, Worked
<1>16. CASE CheckClient
  BY <1>16, OthersKeepInv DEF CheckClient, Forwarding, Worked
<1>17. CASE DeliverFrame
  <2>1. fpc = "send" /\ fdOpen
        /\ UNCHANGED <<fdOpen, buffers, framesAllowed, framesInUse, returning, fidx, fhandle>>
    BY <1>17, <1>b DEF DeliverFrame
  <2>2. CASE fpc' = "undo" /\ UNCHANGED held
    BY <2>1, <2>2, OthersKeepInv DEF Worked
  <2>3. CASE fpc' = "done" /\ held' = held \cup {[id |-> fidx, handle |-> fhandle]}
    <3>1. Worked = {fidx} /\ Worked' = {}
      BY <2>1, <2>3 DEF Worked
    <3>2. HeldIds' = HeldIds \cup {fidx}
      <4>1. \A f \in held' : f \in held \/ f.id = fidx
        BY <2>3
      <4>2. \E f \in held' : f.id = fidx
        <5>1. [id |-> fidx, handle |-> fhandle] \in held'
          BY <2>3
        <5>2. [id |-> fidx, handle |-> fhandle].id = fidx
          OBVIOUS
        <5> QED BY <5>1, <5>2
      <4>3. \A f \in held : f \in held'
        BY <2>3
      <4> QED BY <4>1, <4>2, <4>3 DEF HeldIds
    <3>3. \A f \in held : f.id # fidx
      BY <3>1 DEF OwnInv, HeldIds
    <3>4. fhandle = buffers[fidx].handle
      BY <2>1 DEF OwnInv
    <3>5. PoolInv'
      BY <2>1 DEF PoolInv
    <3>6. \A f, g \in held' : f.id = g.id => f = g
      BY <2>3, <3>3 DEF OwnInv
    <3>7. \A f \in held' : f.handle = buffers[f.id].handle
      BY <2>1, <2>3, <3>4 DEF OwnInv
    <3>8. InUse(buffers') = HeldIds' \cup returning' \cup Worked'
      BY <2>1, <3>1, <3>2 DEF OwnInv
    <3>9. HeldIds' \cap returning' = {}
      BY <2>1, <3>1, <3>2 DEF OwnInv
    <3>10. OwnInv'
      BY <2>1, <2>3, <3>1, <3>6, <3>7, <3>8, <3>9 DEF OwnInv
    <3> QED BY <3>5, <3>10
  <2> QED BY <1>17, <2>2, <2>3 DEF DeliverFrame
<1>18. CASE UndoReservation
  <2>1. /\ UNCHANGED <<fdOpen, framesAllowed, held, returning, fidx, fhandle>>
        /\ fdOpen /\ fpc = "undo" /\ fpc' = "done"
        /\ buffers' = MakeFree(buffers, fidx)
        /\ framesInUse' = Decrement(framesInUse)
    BY <1>18, <1>b DEF UndoReservation
  <2>2. HeldIds' = HeldIds /\ Worked = {fidx} /\ Worked' = {}
    BY <2>1 DEF HeldIds, Worked
  <2>3. fidx \in InUse(buffers)
    BY <2>1, <2>2, UsersOfSlots
  <2>4. /\ WellFormed(buffers')
        /\ InUse(buffers') = InUse(buffers) \ {fidx}
        /\ Cardinality(InUse(buffers')) = Cardinality(InUse(buffers)) - 1
        /\ Cardinality(InUse(buffers)) \in Nat \ {0}
        /\ LiveSlots(buffers') = LiveSlots(buffers)
        /\ \A j \in InUse(buffers) \ {fidx} : buffers'[j] = buffers[j]
    BY <1>a, <2>1, <2>3, FreePool
  <2>5. framesInUse' = framesInUse - 1
    BY <1>a, <2>1, <2>4, Counting
  <2>6. PoolInv'
    BY <1>a, <2>1, <2>4, <2>5 DEF PoolInv
  <2>7. fidx \notin HeldIds \cup returning
    BY <2>2 DEF OwnInv
  <2>8. \A f \in held : buffers'[f.id] = buffers[f.id]
    BY <2>1, <2>4, <2>7, UsersOfSlots DEF HeldIds
  <2>9. InUse(buffers') = HeldIds' \cup returning' \cup Worked'
    BY <2>1, <2>2, <2>4, <2>7 DEF OwnInv
  <2>10. OwnInv'
    BY <2>1, <2>2, <2>8, <2>9 DEF OwnInv
  <2> QED BY <2>6, <2>10
<1>19. CASE ForwardFrameReturns
  BY <1>19, OthersKeepInv DEF ForwardFrameReturns, Forwarding, CallbackReturns, Worked
<1>20. CASE /\ UNCHANGED cameraVars
            /\ \/ CheckRunMode \/ SelectTimesOut \/ DeviceFails \/ Dequeue
               \/ ThreadEnds \/ DriverFills
  <2>1. fdOpen' = fdOpen
    BY <1>20 DEF CheckRunMode, SelectTimesOut, DeviceFails, Dequeue, ThreadEnds,
                 DriverFills
  <2> QED BY <1>20, <2>1, OthersKeepInv DEF Worked
<1> QED
  BY <1>1, <1>2, <1>3, <1>4, <1>5, <1>6, <1>7, <1>8, <1>9, <1>10, <1>11,
     <1>12, <1>13, <1>14, <1>15, <1>16, <1>17, <1>18, <1>19, <1>20
  DEF Next, BinderCompletes, CaptureThread, ForwardFrame, Driver

(* The types of the camera object are kept. *)
LEMMA CameraTypes ==
  ASSUME IInv, PoolInv', [Next]_vars,
         RepeatedReturns = FALSE, "reuse" \notin Faults
  PROVE  CameraTypeOK'
<1> USE DEF captureVars, loopVars, deviceVars, cameraVars, poolVars,
            binderVars, frameVars, clientVars
<1>1. CameraTypeOK /\ ThreadInv /\ PoolInv /\ OwnInv
  BY DEF IInv, TypeOK
<1>2. buffers' \in [0 .. Size(buffers') - 1 -> Slot]
  BY DEF PoolInv, WellFormed
<1>3. framesAllowed' \in Nat
  <2>1. fdOpen' => framesAllowed' \in Nat
    <3>1. WellFormed(buffers')
      BY DEF PoolInv
    <3>2. Cardinality(LiveSlots(buffers')) \in Nat
      BY <3>1, PoolBounded
    <3> QED BY <3>2 DEF PoolInv
  <2>2. ~fdOpen' => framesAllowed' = framesAllowed
    <3>1. CASE SetMaxFramesInFlight \/ ImportExternalBuffers \/ StartVideoStream
      BY <3>1 DEF SetMaxFramesInFlight, ImportExternalBuffers, StartVideoStream,
                  StartSucceeds, StartRefused, StartFails
    <3>2. CASE StopVideoStream \/ DoneWithFrame \/ BinderCompletes
      BY <3>2 DEF StopVideoStream, DoneWithFrame, BinderCompletes,
                  StopVideoStreamJoins, NotifyStreamStopped, CloseCamera, ReclaimFrame
    <3>3. CASE CaptureThread \/ Driver
      BY <3>3 DEF CaptureThread, Driver, ForwardFrame, ReserveSlot, SkipFrame,
                  ReadBase, ReadHandle, FillFrame, CheckClient, DeliverFrame,
                  UndoReservation, ForwardFrameReturns
    <3>4. CASE UNCHANGED vars
      BY <3>4 DEF vars
    <3> QED BY <3>1, <3>2, <3>3, <3>4 DEF Next
  <2> QED BY <1>1, <2>1, <2>2 DEF CameraTypeOK
<1>4. framesInUse' \in 0 .. UintMax
  <2>1. \/ framesInUse' = framesInUse
        \/ framesInUse' = Increment(framesInUse)
        \/ framesInUse' = Decrement(framesInUse)
    <3>1. CASE SetMaxFramesInFlight \/ ImportExternalBuffers \/ StartVideoStream
      BY <3>1 DEF SetMaxFramesInFlight, ImportExternalBuffers, StartVideoStream
    <3>2. CASE StopVideoStream \/ DoneWithFrame \/ BinderCompletes
      BY <3>2 DEF StopVideoStream, DoneWithFrame, BinderCompletes,
                  StopVideoStreamJoins, NotifyStreamStopped, CloseCamera, ReclaimFrame
    <3>3. CASE CaptureThread \/ Driver
      BY <3>3 DEF CaptureThread, Driver, ForwardFrame, ReserveSlot, SkipFrame,
                  ReadBase, ReadHandle, FillFrame, CheckClient, DeliverFrame,
                  UndoReservation, ForwardFrameReturns
    <3>4. CASE UNCHANGED vars
      BY <3>4 DEF vars
    <3> QED BY <3>1, <3>2, <3>3, <3>4 DEF Next
  <2> QED BY <1>1, <2>1, Counting DEF CameraTypeOK
<1>5. /\ stream' \in BOOLEAN /\ eos' \in BOOLEAN
      /\ op' \in {"idle", "returning", "stopping", "closing"}
      /\ losing' \in BOOLEAN /\ returning' \subseteq Nat
  <2> USE <1>1 DEF CameraTypeOK
  <2>1. CASE SetMaxFramesInFlight \/ ImportExternalBuffers
    BY <2>1 DEF SetMaxFramesInFlight, ImportExternalBuffers
  <2>2. CASE StartVideoStream
    BY <2>2 DEF StartVideoStream
  <2>3. CASE StopVideoStream \/ StopVideoStreamJoins
    BY <2>3 DEF StopVideoStream, StopVideoStreamJoins
  <2>4. CASE NotifyStreamStopped
    BY <2>4 DEF NotifyStreamStopped, Told
  <2>5. CASE CloseCamera \/ ReclaimFrame
    BY <2>5 DEF CloseCamera, ReclaimFrame
  <2>6. CASE DoneWithFrame
    <3>1. \A f \in held : f.id \in Nat
      OBVIOUS
    <3>2. returning' \subseteq {f.id : f \in held}
      BY <2>6 DEF DoneWithFrame
    <3>3. returning' \subseteq Nat
      BY <3>1, <3>2
    <3>4. op' = "returning" /\ UNCHANGED <<stream, losing, eos>>
      BY <2>6 DEF DoneWithFrame
    <3> QED BY <3>3, <3>4
  <2>7. CASE CaptureThread \/ Driver
    BY <2>7 DEF CaptureThread, Driver, ForwardFrame, ReserveSlot, SkipFrame,
                ReadBase, ReadHandle, FillFrame, CheckClient, DeliverFrame,
                UndoReservation, ForwardFrameReturns
  <2>8. CASE UNCHANGED vars
    BY <2>8 DEF vars
  <2> QED BY <2>1, <2>2, <2>3, <2>4, <2>5, <2>6, <2>7, <2>8
          DEF Next, BinderCompletes
<1>6. /\ fpc' \in {"lock", "skip", "base", "load", "fill", "deliver",
                   "send", "undo", "done"}
      /\ fidx' \in Nat /\ fhandle' \in Handles \cup {NoHandle, Garbage}
      /\ \A f \in held' : f \in [id : Nat, handle : Handles \cup {NoHandle, Garbage}]
  <2> USE <1>1 DEF CameraTypeOK
  <2>1. CASE SetMaxFramesInFlight \/ ImportExternalBuffers \/ StartVideoStream
    BY <2>1 DEF SetMaxFramesInFlight, ImportExternalBuffers, StartVideoStream
  <2>2. CASE StopVideoStream \/ BinderCompletes
    BY <2>2 DEF StopVideoStream, BinderCompletes, StopVideoStreamJoins,
                NotifyStreamStopped, CloseCamera, ReclaimFrame
  <2>3. CASE DoneWithFrame
    BY <2>3 DEF DoneWithFrame
  <2>4. CASE ReserveSlot
    <3>1. Free(buffers) # {} => Min(Free(buffers)) \in Nat
      <4>1. Free(buffers) \in SUBSET Nat
        BY DEF Free
      <4> QED BY <4>1, LowestFree DEF PoolInv
    <3> QED BY <2>4, <3>1 DEF ReserveSlot
  <2>5. CASE ReadHandle
    <3>1. fdOpen /\ fpc = "load"
      BY <2>5 DEF ReadHandle, Forwarding, ThreadAt, ThreadInv
    <3>2. fidx \in DOMAIN buffers
      BY <3>1, UsersOfSlots DEF Worked, InUse
    <3>3. buffers[fidx].handle \in Handles \cup {NoHandle}
      BY <3>2 DEF Slot
    <3> QED BY <2>5, <3>3 DEF ReadHandle
  <2>6. CASE DeliverFrame
    <3>1. [id |-> fidx, handle |-> fhandle]
            \in [id : Nat, handle : Handles \cup {NoHandle, Garbage}]
      OBVIOUS
    <3> QED BY <2>6, <3>1 DEF DeliverFrame
  <2>7. CASE \/ SkipFrame \/ ReadBase \/ FillFrame \/ CheckClient
             \/ UndoReservation \/ ForwardFrameReturns
    BY <2>7 DEF SkipFrame, ReadBase, FillFrame, CheckClient, UndoReservation,
                ForwardFrameReturns
  <2>8. CASE UNCHANGED cameraVars
    BY <2>8
  <2> QED BY <2>1, <2>2, <2>3, <2>4, <2>5, <2>6, <2>7, <2>8
          DEF Next, CaptureThread, Driver, ForwardFrame, vars
<1>7. fstale' \in BOOLEAN
  <2> USE <1>1 DEF CameraTypeOK
  <2>1. ASSUME NEW m, NEW n, MarkStale(m, n) PROVE fstale' \in BOOLEAN
    BY <2>1 DEF MarkStale
  <2>2. \A n : Grow(n) \/ Shrink(n) \/ RollBack(n) => fstale' \in BOOLEAN
    BY <2>1 DEF Grow, Shrink, RollBack
  <2>3. \A n : FramesSet(n) \/ FramesNotSet(n) => fstale' \in BOOLEAN
    BY <2>2 DEF FramesSet, FramesNotSet
  <2>4. CASE SetMaxFramesInFlight \/ ImportExternalBuffers \/ StartVideoStream
    BY <2>2, <2>3, <2>4 DEF SetMaxFramesInFlight, ImportExternalBuffers, StartVideoStream
  <2>5. CASE StopVideoStream \/ BinderCompletes \/ DoneWithFrame
    BY <2>5 DEF StopVideoStream, BinderCompletes, StopVideoStreamJoins,
                NotifyStreamStopped, CloseCamera, ReclaimFrame, DoneWithFrame
  <2>6. CASE CaptureThread \/ Driver
    BY <2>6 DEF CaptureThread, Driver, ForwardFrame, ReserveSlot, SkipFrame,
                ReadBase, ReadHandle, FillFrame, CheckClient, DeliverFrame,
                UndoReservation, ForwardFrameReturns
  <2>7. CASE UNCHANGED vars
    BY <2>7 DEF vars
  <2> QED BY <2>4, <2>5, <2>6, <2>7 DEF Next
<1> QED BY <1>2, <1>3, <1>4, <1>5, <1>6, <1>7 DEF CameraTypeOK

-----------------------------------------------------------------------------
(* The theorems.                                                           *)

(* The invariants of the initial state. *)
LEMMA InitInv == Init => IInv
<1> SUFFICES ASSUME Init PROVE IInv
  OBVIOUS
<1>1. /\ DOMAIN EmptyVector = {} /\ Size(EmptyVector) = 0
      /\ EmptyVector \in [0 .. Size(EmptyVector) - 1 -> Slot]
  <2>1. DOMAIN EmptyVector = 0 .. 0 - 1
    BY DEF EmptyVector
  <2>2. Size(EmptyVector) = 0
    BY <2>1, VectorSize
  <2> QED BY <2>1, <2>2 DEF EmptyVector
<1>2. WellFormed(EmptyVector)
  BY <1>1 DEF WellFormed, LiveSlots
<1>3. /\ LiveSlots(EmptyVector) = {} /\ InUse(EmptyVector) = {}
      /\ Cardinality({}) = 0
  BY <1>1, FS_EmptySet DEF LiveSlots, InUse
<1>4. VCTypeOK
  <2>1. <<>> \in Seq(Buf)
    OBVIOUS
  <2>2. numStreaming \in Int /\ cur \in Buf \cup {NoBuf}
    BY DEF Init, VCInit
  <2> QED BY <2>1, <2>2 DEF Init, VCInit, VCTypeOK
<1>5. CameraTypeOK
  <2>1. 0 \in 0 .. UintMax
    BY CameraAssumption
  <2> QED BY <1>1, <2>1 DEF Init, CameraTypeOK
<1>6. ThreadInv
  BY DEF Init, VCInit, ThreadInv, ThreadAt
<1>7. PoolInv
  BY <1>2, <1>3 DEF Init, PoolInv
<1>8. OwnInv
  BY <1>3 DEF Init, OwnInv, HeldIds, Worked
<1> QED BY <1>4, <1>5, <1>6, <1>7, <1>8 DEF IInv, TypeOK

(* Whatever the client does, the capture thread runs only between the      *)
(* start of a stream and the return of stopStream.                         *)
LEMMA ThreadsBehave == Spec => [](VCTypeOK /\ ThreadInv)
<1>1. Init => VCTypeOK /\ ThreadInv
  BY InitInv DEF IInv, TypeOK
<1>2. VCTypeOK /\ ThreadInv /\ [Next]_vars => (VCTypeOK /\ ThreadInv)'
  BY CaptureTypes, ThreadStep
<1> QED BY <1>1, <1>2, PTL DEF Spec

(* EvsV4lCamera.cpp:84: when shutdown frees the buffers, forwardFrame is   *)
(* not running, for any client and any faults.                             *)
THEOREM ClosesAlone == Spec => []NoThreadWhenClosing
<1>1. VCTypeOK /\ ThreadInv => NoThreadWhenClosing
  BY DEF ThreadInv, NoThreadWhenClosing
<1> QED BY <1>1, ThreadsBehave, PTL

(* deliverFrame is never called on a stream whose end was announced.       *)
THEOREM NothingAfterTheEnd == Spec => []EndOfStreamIsLast
<1>1. VCTypeOK /\ ThreadInv => EndOfStreamIsLast
  BY DEF ThreadInv, EndOfStreamIsLast, Forwarding, ThreadAt
<1> QED BY <1>1, ThreadsBehave, PTL

(* The inductive invariant of the camera. *)
LEMMA InvariantHolds ==
  ASSUME RepeatedReturns = FALSE, "reuse" \notin Faults
  PROVE  Spec => []IInv
<1>1. IInv /\ [Next]_vars => IInv'
  <2> SUFFICES ASSUME IInv, [Next]_vars PROVE IInv'
    OBVIOUS
  <2>1. VCTypeOK'
    BY CaptureTypes DEF IInv, TypeOK
  <2>2. ThreadInv'
    BY ThreadStep DEF IInv, TypeOK
  <2>3. PoolInv' /\ OwnInv'
    BY PoolStep DEF IInv
  <2>4. CameraTypeOK'
    BY <2>3, CameraTypes
  <2> QED BY <2>1, <2>2, <2>3, <2>4 DEF IInv, TypeOK
<1> QED BY <1>1, InitInv, PTL DEF Spec

(* Every variable keeps its type. *)
THEOREM TypesHold ==
  ASSUME RepeatedReturns = FALSE, "reuse" \notin Faults
  PROVE  Spec => []TypeOK
<1>1. IInv => TypeOK
  BY DEF IInv
<1> QED BY <1>1, InvariantHolds, PTL

(* The counters agree with the records: the limits that forwardFrame and   *)
(* setMaxFramesInFlight check are limits on the buffers there are.         *)
THEOREM CountersAgree ==
  ASSUME RepeatedReturns = FALSE, "reuse" \notin Faults
  PROVE  Spec => []Accounting
<1>1. IInv => Accounting
  BY DEF IInv, PoolInv, Accounting
<1> QED BY <1>1, InvariantHolds, PTL

(* A delivered frame stays what it was until the client returns it.        *)
THEOREM HeldFramesKept ==
  ASSUME RepeatedReturns = FALSE, "reuse" \notin Faults
  PROVE  Spec => []HeldFramesIntact
<1>1. IInv => HeldFramesIntact
  <2> SUFFICES ASSUME IInv, fdOpen PROVE HeldFramesIntact
    BY DEF HeldFramesIntact
  <2>1. WellFormed(buffers) /\ OwnInv
    BY DEF IInv, PoolInv
  <2>2. ASSUME NEW f \in held
        PROVE  /\ f.id \in DOMAIN buffers /\ f.id \in LiveSlots(buffers)
               /\ buffers[f.id].handle = f.handle
               /\ buffers[f.id] = [handle |-> f.handle, inUse |-> TRUE]
    <3>1. f.id \in InUse(buffers) /\ buffers[f.id].handle = f.handle
      BY <2>1, UsersOfSlots DEF OwnInv
    <3>2. f.id \in DOMAIN buffers /\ buffers[f.id].inUse /\ buffers[f.id] \in Slot
      BY <2>1, <3>1 DEF InUse, WellFormed
    <3>3. f.id \in LiveSlots(buffers)
      BY <2>1, <3>1, PoolParts
    <3>4. buffers[f.id].inUse = TRUE
      BY <3>2 DEF Slot
    <3> QED BY <3>1, <3>2, <3>3, <3>4 DEF Slot
  <2>3. ASSUME NEW f \in held, NEW g \in held, f.handle = g.handle PROVE f = g
    <3>1. \A i, j \in LiveSlots(buffers) :
            buffers[i].handle = buffers[j].handle => i = j
      BY <2>1 DEF WellFormed
    <3>2. buffers[f.id].handle = buffers[g.id].handle
      BY <2>2, <2>3
    <3>3. f.id = g.id
      BY <2>2, <3>1, <3>2
    <3> QED BY <2>1, <3>3 DEF OwnInv
  <2> QED BY <2>2, <2>3 DEF HeldFramesIntact
<1> QED BY <1>1, InvariantHolds, PTL

(* The buffer forwardFrame fills without the lock is its own meanwhile.    *)
THEOREM FillsItsOwn ==
  ASSUME RepeatedReturns = FALSE, "reuse" \notin Faults
  PROVE  Spec => []FillIsExclusive
<1>1. IInv => FillIsExclusive
  <2> SUFFICES ASSUME IInv PROVE FillIsExclusive
    OBVIOUS
  <2>1. WellFormed(buffers) /\ OwnInv /\ ThreadInv
    BY DEF IInv, PoolInv
  <2>2. Forwarding("fill") => cur \in frames
    BY <2>1 DEF ThreadInv, Forwarding
  <2>3. ASSUME Forwarding("fill") \/ Forwarding("deliver") \/ Forwarding("send")
        PROVE  /\ fidx \in DOMAIN buffers
               /\ buffers[fidx] = [handle |-> fhandle, inUse |-> TRUE]
               /\ fidx \notin returning
               /\ \A f \in held : f.handle # fhandle
    <3>1. fdOpen /\ fpc \in {"fill", "deliver", "send"}
      BY <2>1, <2>3 DEF Forwarding, ThreadAt, ThreadInv
    <3>2. Worked = {fidx} /\ fidx \in InUse(buffers) /\ buffers[fidx].handle = fhandle
      BY <2>1, <3>1, UsersOfSlots DEF Worked, OwnInv
    <3>3. /\ fidx \in DOMAIN buffers /\ fidx \in LiveSlots(buffers)
          /\ buffers[fidx] \in Slot /\ buffers[fidx].inUse
      BY <2>1, <3>2, PoolParts DEF InUse, WellFormed
    <3>4. buffers[fidx] = [handle |-> fhandle, inUse |-> TRUE]
      BY <3>2, <3>3 DEF Slot
    <3>5. fidx \notin returning /\ fidx \notin HeldIds
      BY <2>1, <3>2 DEF OwnInv
    <3>6. ASSUME NEW f \in held PROVE f.handle # fhandle
      <4>1. f.id \in InUse(buffers) /\ f.handle = buffers[f.id].handle
        BY <2>1, <3>1, UsersOfSlots DEF OwnInv
      <4>2. f.id \in LiveSlots(buffers) /\ f.id # fidx
        BY <2>1, <3>5, <4>1, PoolParts DEF HeldIds
      <4> QED BY <2>1, <3>2, <3>3, <4>1, <4>2 DEF WellFormed
    <3> QED BY <3>3, <3>4, <3>5, <3>6
  <2> QED BY <2>2, <2>3 DEF FillIsExclusive
<1> QED BY <1>1, InvariantHolds, PTL

(* EvsV4lCamera.cpp:680: the search for a free slot does not fail.         *)
THEOREM SlotIsFound ==
  ASSUME RepeatedReturns = FALSE, "reuse" \notin Faults
  PROVE  Spec => []SlotAlwaysFound
<1>1. IInv => SlotAlwaysFound
  <2> SUFFICES ASSUME IInv, Forwarding("lock"), framesInUse < framesAllowed,
                      Free(buffers) = {}
               PROVE  FALSE
    BY DEF SlotAlwaysFound
  <2>1. /\ WellFormed(buffers) /\ framesAllowed = Cardinality(LiveSlots(buffers))
        /\ framesInUse = Cardinality(InUse(buffers))
    BY DEF IInv, ThreadInv, PoolInv, Forwarding, ThreadAt
  <2>2. LiveSlots(buffers) = InUse(buffers)
    BY <2>1, PoolParts
  <2>3. Cardinality(LiveSlots(buffers)) \in Nat
    BY <2>1, PoolBounded
  <2> QED BY <2>1, <2>2, <2>3
<1> QED BY <1>1, InvariantHolds, PTL

(* EvsV4lCamera.cpp:475: a buffer too high in the array has a slot below   *)
(* to go to (by counting: there are framesAllowed buffers in all).         *)
THEOREM RoomBelow ==
  ASSUME RepeatedReturns = FALSE, "reuse" \notin Faults
  PROVE  Spec => []EmptySlotBelow
<1>1. IInv => EmptySlotBelow
  <2> SUFFICES ASSUME IInv, fdOpen, NEW id \in returning, id >= framesAllowed,
                      \A i \in Empty(buffers) : ~ (i < framesAllowed)
               PROVE  FALSE
    BY DEF EmptySlotBelow
  <2>1. /\ WellFormed(buffers) /\ framesAllowed = Cardinality(LiveSlots(buffers))
        /\ OwnInv /\ framesAllowed \in Nat
    BY DEF IInv, PoolInv, TypeOK, CameraTypeOK
  <2>2. id \in LiveSlots(buffers) /\ id \in DOMAIN buffers
    BY <2>1, UsersOfSlots, PoolParts DEF InUse
  <2>3. DOMAIN buffers = 0 .. Size(buffers) - 1 /\ Size(buffers) \in Nat
        /\ IsFiniteSet(LiveSlots(buffers))
    <3>1. LiveSlots(buffers) \in SUBSET (DOMAIN buffers)
      BY DEF LiveSlots
    <3> QED BY <2>1, <3>1, PoolParts DEF WellFormed
  <2> DEFINE B == 0 .. framesAllowed - 1
  <2>4. B \in SUBSET (LiveSlots(buffers) \ {id})
    <3>1. ASSUME NEW i \in B PROVE i \in DOMAIN buffers /\ i # id
      BY <2>1, <2>2, <2>3
    <3>2. ASSUME NEW i \in B PROVE i \notin Empty(buffers)
      BY <2>1
    <3> QED BY <3>1, <3>2 DEF LiveSlots
  <2>5. Cardinality(B) = framesAllowed
    <3>1. framesAllowed - 1 \in Int /\ 0 \in Int
      BY <2>1
    <3>2. Cardinality(B) = IF 0 > framesAllowed - 1 THEN 0 ELSE framesAllowed - 1 - 0 + 1
      BY <3>1, FS_Interval
    <3> QED BY <2>1, <3>2
  <2>6. /\ IsFiniteSet(LiveSlots(buffers) \ {id})
        /\ Cardinality(LiveSlots(buffers) \ {id}) = framesAllowed - 1
    BY <2>1, <2>2, <2>3, FS_RemoveElement
  <2> HIDE DEF B
  <2>7. Cardinality(B) <= Cardinality(LiveSlots(buffers) \ {id})
    BY <2>4, <2>6, FS_Subset
  <2> QED BY <2>1, <2>5, <2>6, <2>7
<1> QED BY <1>1, InvariantHolds, PTL

-----------------------------------------------------------------------------
(* The capture wrapper inside the camera.                                  *)

(* As long as the thread runs its buffers are mapped. *)
MapInv ==
  thread = "alive" => /\ numBuffers = BufferCount
                      /\ tpc = "callback" => cur \in Buf

LEMMA MapStep ==
  ASSUME VCTypeOK, ThreadInv, MapInv, [Next]_vars
  PROVE  MapInv'
<1> USE DEF MapInv, ThreadInv, VCTypeOK, loopVars, deviceVars
<1>1. CASE UNCHANGED captureVars \/ StartRefused \/ StopReentered
  BY <1>1 DEF captureVars, StartRefused, StopReentered
<1>2. CASE StartFails \/ StartSucceeds
  BY <1>2 DEF StartFails, StartSucceeds
<1>3. CASE StopWhenStopped \/ StopSignal \/ Close
  BY <1>3 DEF StopWhenStopped, StopSignal, Close
<1>4. CASE StopJoined
  BY <1>4 DEF StopJoined, JoinReturns
<1>5. CASE Dequeue
  <2>1. Head(filled) \in Buf
    BY <1>5 DEF Dequeue
  <2> QED BY <1>5, <2>1 DEF Dequeue
<1>6. CASE \/ CheckRunMode \/ SelectTimesOut \/ DeviceFails \/ ReturnFrame
           \/ CallbackReturns \/ ThreadEnds \/ DriverFills
  BY <1>6 DEF CheckRunMode, SelectTimesOut, DeviceFails, ReturnFrame,
              CallbackReturns, ThreadEnds, DriverFills
<1> QED BY <1>1, <1>2, <1>3, <1>4, <1>5, <1>6, StepOfCapture
        DEF CaptureStep, StartStream, StopStream, CaptureLoop

(* The capture buffer forwardFrame reads from is mapped and the device     *)
(* open: stopStream and close wait, for any client and any faults.         *)
THEOREM MappedWhenRead == Spec => []MappedWhileUsed
<1>1. Init => MapInv
  BY DEF Init, VCInit, MapInv
<1>2. VCTypeOK /\ ThreadInv /\ MapInv /\ [Next]_vars => MapInv'
  BY MapStep
<1>3. VCTypeOK /\ ThreadInv /\ MapInv => MappedWhileUsed
  BY DEF ThreadInv, MapInv, MappedWhileUsed, ThreadAt
<1> QED BY <1>1, <1>2, <1>3, ThreadsBehave, PTL DEF Spec

(* Inside the camera every step is one VideoCapture allows: it is started  *)
(* when open and closed when its thread has ended (CapturesVideo without   *)
(* its fairness).                                                          *)
THEOREM CapturesSafely == Spec => VCInit /\ [][VCNext]_captureVars
<1>1. Init => VCInit
  BY DEF Init
<1>2. VCTypeOK /\ ThreadInv /\ [Next]_vars => [VCNext]_captureVars
  <2> SUFFICES ASSUME ThreadInv, [Next]_vars PROVE VCNext \/ UNCHANGED captureVars
    OBVIOUS
  <2>1. CASE UNCHANGED vars
    BY <2>1 DEF vars
  <2>2. CASE SetMaxFramesInFlight \/ ImportExternalBuffers \/ DoneWithFrame
    BY <2>2 DEF SetMaxFramesInFlight, ImportExternalBuffers, DoneWithFrame
  <2>3. CASE StartVideoStream
    BY <2>3 DEF StartVideoStream, VCNext, StartStream
  <2>4. CASE StopVideoStream \/ BinderCompletes
    BY <2>4 DEF StopVideoStream, BinderCompletes, StopVideoStreamJoins,
                NotifyStreamStopped, CloseCamera, ReclaimFrame, VCNext,
                StopStream, ThreadInv
  <2>5. CASE CaptureThread \/ Driver
    BY <2>5 DEF CaptureThread, Driver, ForwardFrame, ReserveSlot, SkipFrame,
                ReadBase, ReadHandle, FillFrame, CheckClient, DeliverFrame,
                UndoReservation, ForwardFrameReturns, CaptureLoop, VCNext
  <2> QED BY <2>1, <2>2, <2>3, <2>4, <2>5 DEF Next
<1> QED BY <1>1, <1>2, ThreadsBehave, PTL DEF Spec

-----------------------------------------------------------------------------
(* The camera implements FrameExchange.                                    *)

(* A camera that was lost has no buffer; it was lost when its client had   *)
(* been told of the end.                                                   *)
Emptied == ~fdOpen => buffers = EmptyVector
ToldOfTheEnd == op = "closing" => ~stream
EndInv  == Emptied /\ ToldOfTheEnd

LEMMA EmptyPool ==
  /\ InUse(EmptyVector) = {} /\ Free(EmptyVector) = {} /\ Live(EmptyVector) = {}
BY DEF EmptyVector, InUse, Free, Live, LiveSlots

LEMMA EndStep ==
  ASSUME ThreadInv, EndInv, [Next]_vars
  PROVE  EndInv'
<1> USE DEF captureVars, loopVars, deviceVars, cameraVars, poolVars,
            binderVars, frameVars, clientVars, EndInv, Emptied, ToldOfTheEnd
<1>1. CASE UNCHANGED vars
  BY <1>1 DEF vars
<1>2. CASE SetMaxFramesInFlight \/ ImportExternalBuffers
  BY <1>2 DEF SetMaxFramesInFlight, ImportExternalBuffers
<1>3. CASE StartVideoStream
  <2>1. fdOpen' = fdOpen /\ fdOpen /\ op' = op /\ op = "idle"
    BY <1>3 DEF StartVideoStream, Idle, StartSucceeds, StartRefused, StartFails
  <2> QED BY <2>1
<1>4. CASE StopVideoStream \/ StopVideoStreamJoins \/ DoneWithFrame
  BY <1>4 DEF StopVideoStream, StopWhenStopped, StopReentered, StopSignal,
              StopVideoStreamJoins, StopJoined, DoneWithFrame
<1>5. CASE NotifyStreamStopped \/ CloseCamera
  BY <1>5 DEF NotifyStreamStopped, CloseCamera, Close
<1>6. CASE ReclaimFrame
  BY <1>6 DEF ReclaimFrame
<1>7. CASE CaptureThread \/ Driver
  <2>1. ASSUME NEW pc, Forwarding(pc) PROVE fdOpen
    BY <2>1 DEF Forwarding, ThreadAt, ThreadInv
  <2> QED BY <1>7, <2>1
          DEF CaptureThread, Driver, ForwardFrame, ReserveSlot, SkipFrame, ReadBase,
              ReadHandle, FillFrame, CheckClient, DeliverFrame, UndoReservation,
              ForwardFrameReturns, ReturnFrame, CallbackReturns, CheckRunMode,
              SelectTimesOut, DeviceFails, Dequeue, ThreadEnds, DriverFills
<1> QED BY <1>1, <1>2, <1>3, <1>4, <1>5, <1>6, <1>7 DEF Next, BinderCompletes

(* Who has the buffers of the slots in use: the client those it holds and  *)
(* those it is returning, forwardFrame the one it works on.                *)
HandlesOf(S) == {buffers[i].handle : i \in S}

LEMMA Roles ==
  IInv /\ fdOpen =>
    /\ Lent = HandlesOf(HeldIds \cup returning)
    /\ Writing = HandlesOf(Worked)
    /\ Waiting = Live(buffers) \ (Lent \cup Writing)
    /\ Lent \cap Writing = {}
    /\ Lent \cup Writing \in SUBSET Live(buffers)
    /\ Live(buffers) \in SUBSET Handles
<1> SUFFICES ASSUME IInv, fdOpen
             PROVE  /\ Lent = HandlesOf(HeldIds \cup returning)
                    /\ Writing = HandlesOf(Worked)
                    /\ Waiting = Live(buffers) \ (Lent \cup Writing)
                    /\ Lent \cap Writing = {}
                    /\ Lent \cup Writing \in SUBSET Live(buffers)
                    /\ Live(buffers) \in SUBSET Handles
  OBVIOUS
<1>1. WellFormed(buffers) /\ OwnInv
  BY DEF IInv, PoolInv
<1>2. /\ InUse(buffers) = HeldIds \cup returning \cup Worked
      /\ (HeldIds \cup returning) \cap Worked = {}
      /\ \A f \in held : f.handle = buffers[f.id].handle
  BY <1>1 DEF OwnInv
<1>3. /\ Live(buffers) \in SUBSET Handles
      /\ \A S \in SUBSET InUse(buffers) : HandlesOf(S) \in SUBSET Live(buffers)
      /\ Waiting = Live(buffers) \ HandlesOf(InUse(buffers))
  BY <1>1, FreeBuffers DEF HandlesOf, Waiting
<1>4. \A i \in InUse(buffers) : i \in DOMAIN buffers /\ buffers[i].handle \in Handles
  <2> SUFFICES ASSUME NEW i \in InUse(buffers)
               PROVE  i \in DOMAIN buffers /\ buffers[i].handle \in Handles
    OBVIOUS
  <2>1. buffers[i].handle \in HandlesOf(InUse(buffers))
    BY DEF HandlesOf
  <2> QED BY <1>3, <2>1 DEF InUse
<1>5. ASSUME NEW i \in returning
      PROVE  /\ [id |-> i, handle |-> buffers[i].handle] \in Pending
             /\ [id |-> i, handle |-> buffers[i].handle].id = i
             /\ [id |-> i, handle |-> buffers[i].handle].handle = buffers[i].handle
  BY <1>2, <1>4 DEF Pending
<1>6. \A f \in Pending : f.id \in returning /\ f.handle = buffers[f.id].handle
  BY DEF Pending
<1>7. {f.id : f \in held \cup Pending} = HeldIds \cup returning
  <2>1. \A i \in returning : \E f \in Pending : f.id = i
    BY <1>5
  <2> QED BY <1>6, <2>1 DEF HeldIds
<1>8. Lent = HandlesOf(HeldIds \cup returning)
  <2>1. ASSUME NEW x \in Lent PROVE x \in HandlesOf(HeldIds \cup returning)
    <3>1. PICK f \in held \cup Pending : x = f.handle
      BY DEF Lent
    <3>2. f.id \in HeldIds \cup returning /\ x = buffers[f.id].handle
      BY <1>2, <1>6, <3>1 DEF HeldIds
    <3> QED BY <3>2 DEF HandlesOf
  <2>2. ASSUME NEW x \in HandlesOf(HeldIds \cup returning) PROVE x \in Lent
    <3>1. PICK i \in HeldIds \cup returning : x = buffers[i].handle
      BY DEF HandlesOf
    <3>2. CASE i \in HeldIds
      BY <1>2, <3>1, <3>2 DEF HeldIds, Lent
    <3>3. CASE i \in returning
      BY <1>5, <3>1, <3>3 DEF Lent
    <3> QED BY <3>2, <3>3
  <2> QED BY <2>1, <2>2
<1>9. Writing = HandlesOf(Worked)
  BY <1>2, <1>7 DEF Writing, HandlesOf
<1>10. HandlesOf(InUse(buffers)) = Lent \cup Writing
  BY <1>2, <1>8, <1>9 DEF HandlesOf
<1>11. Lent \cap Writing = {}
  <2>1. InUse(buffers) \in SUBSET LiveSlots(buffers)
    BY <1>1, PoolParts
  <2>2. \A i, j \in InUse(buffers) : buffers[i].handle = buffers[j].handle => i = j
    BY <1>1, <2>1 DEF WellFormed
  <2> QED BY <1>2, <1>8, <1>9, <2>2 DEF HandlesOf
<1> QED BY <1>3, <1>8, <1>9, <1>10, <1>11

(* The same after a step. *)
LEMMA RolesNext ==
  (IInv /\ fdOpen)' =>
    ( /\ Lent = HandlesOf(HeldIds \cup returning)
      /\ Writing = HandlesOf(Worked)
      /\ Waiting = Live(buffers) \ (Lent \cup Writing)
      /\ Lent \cap Writing = {}
      /\ Lent \cup Writing \in SUBSET Live(buffers)
      /\ Live(buffers) \in SUBSET Handles )'
BY Roles, PTL

LEMMA WhenLost ==
  EndInv /\ ~fdOpen => /\ Lent = {f.handle : f \in held}
                       /\ Writing = {} /\ Waiting = {}
<1>1. ASSUME EndInv, ~fdOpen PROVE Pending = {}
  BY <1>1 DEF Pending
<1>2. ASSUME EndInv, ~fdOpen PROVE InUse(buffers) = {} /\ Free(buffers) = {}
  BY <1>2, EmptyPool DEF EndInv, Emptied
<1> QED BY <1>1, <1>2 DEF Lent, Writing, Waiting

LEMMA WhenLostNext ==
  (EndInv /\ ~fdOpen)' => ( /\ Lent = {f.handle : f \in held}
                            /\ Writing = {} /\ Waiting = {} )'
BY WhenLost, PTL

(* Steps that change hands of no buffer. *)
LEMMA SameHands ==
  ASSUME UNCHANGED <<buffers, held, returning, stream, fdOpen>>
  PROVE  UNCHANGED Exchange!feVars
BY DEF Exchange!feVars, Waiting, Lent, Writing, Pending, Free, InUse

(* Resizing concerns the buffers that wait. *)
LEMMA ResizeOfExchange ==
  ASSUME IInv, IInv', fdOpen, Resized,
         UNCHANGED <<fdOpen, held, returning, fpc, fidx>>
  PROVE  /\ Lent' = Lent /\ Writing' = Writing
         /\ Waiting' \in SUBSET (Handles \ (Writing \cup Lent))
<1>1. /\ HeldIds' = HeldIds /\ Worked' = Worked
      /\ HeldIds \cup returning \in SUBSET InUse(buffers)
      /\ Worked \in SUBSET InUse(buffers)
  BY UsersOfSlots DEF HeldIds, Worked, IInv
<1>2. /\ HandlesOf(HeldIds \cup returning)' = HandlesOf(HeldIds \cup returning)
      /\ HandlesOf(Worked)' = HandlesOf(Worked)
  BY <1>1 DEF HandlesOf, Resized
<1>3. Lent' = Lent /\ Writing' = Writing
  BY <1>2, Roles, RolesNext
<1> QED BY <1>3, RolesNext

(* Every step of the camera is one of FrameExchange, or changes hands of   *)
(* no buffer.                                                              *)
LEMMA ExchangeStep ==
  ASSUME IInv, EndInv, IInv', EndInv', [Next]_vars,
         RepeatedReturns = FALSE, "reuse" \notin Faults
  PROVE  Exchange!FENext \/ UNCHANGED Exchange!feVars
<1> USE DEF captureVars, loopVars, deviceVars, cameraVars, poolVars,
            binderVars, frameVars, clientVars
<1>a. ThreadInv /\ PoolInv /\ OwnInv /\ VCTypeOK /\ CameraTypeOK
  BY DEF IInv, TypeOK
<1>b. fdOpen => WellFormed(buffers) /\ framesAllowed = Cardinality(LiveSlots(buffers))
  BY <1>a DEF PoolInv
<1>c. ASSUME NEW pc, Forwarding(pc) PROVE fdOpen /\ stream /\ fpc = pc
  BY <1>a, <1>c DEF Forwarding, ThreadAt, ThreadInv
<1>d. thread # "alive" => Worked = {}
  BY <1>a DEF ThreadInv, Worked
<1>1. CASE UNCHANGED vars
  BY <1>1, SameHands DEF vars
<1>2. CASE SetMaxFramesInFlight \/ ImportExternalBuffers
  <2>1. fdOpen /\ UNCHANGED <<fdOpen, held, returning, fpc, fidx, stream>>
    BY <1>2 DEF SetMaxFramesInFlight, ImportExternalBuffers
  <2>2. Resized
    <3>1. CASE SetMaxFramesInFlight
      <4>1. PICK n \in Requests : FramesSet(n) \/ FramesNotSet(n)
        BY <3>1 DEF SetMaxFramesInFlight
      <4> QED BY <1>b, <2>1, <4>1, RequestResizes, CameraAssumption
    <3>2. CASE ImportExternalBuffers
      <4>1. PICK n \in Imports :
              LET room  == (kMaxBuffersInFlight - framesAllowed) % (UintMax + 1)
                  toAdd == IF n > room THEN n - room ELSE n
              IN  \E a \in 0 .. toAdd : (a = toAdd \/ "import" \in Faults) /\ Grow(a)
        BY <3>2 DEF ImportExternalBuffers
      <4>2. PICK a : a \in Nat /\ Grow(a)
        BY <4>1
      <4> QED BY <1>b, <2>1, <4>2, GrowResizes
    <3> QED BY <1>2, <3>1, <3>2
  <2>3. Exchange!Resize
    BY <2>1, <2>2, ResizeOfExchange DEF Exchange!Resize
  <2> QED BY <2>3 DEF Exchange!FENext
<1>3. CASE StartVideoStream
  <2>1. /\ fdOpen /\ ~stream
        /\ UNCHANGED <<fdOpen, held, returning, fpc, fidx>>
        /\ returning = {} /\ thread # "alive"
    BY <1>3, <1>a DEF StartVideoStream, Idle, StartSucceeds, StartRefused, StartFails,
                      ThreadInv
  <2>2. Worked = {} /\ InUse(buffers) = HeldIds
    BY <1>a, <1>d, <2>1 DEF OwnInv
  <2>3. CASE framesAllowed >= 1 /\ UNCHANGED buffers /\ stream' = TRUE
    <3>1. LiveSlots(buffers) # {}
      BY <1>b, <2>1, <2>3, FS_EmptySet
    <3>2. Live(buffers) # {} /\ Writing = {}
      BY <2>1, <2>2, <3>1, Roles DEF Live, HandlesOf
    <3>3. Waiting \cup Lent # {}
      BY <2>1, <3>2, Roles
    <3>4. UNCHANGED <<Waiting, Lent, Writing>>
      BY <2>1, <2>3 DEF Waiting, Lent, Writing, Pending, Free, InUse
    <3>5. Exchange!Start
      BY <2>1, <2>3, <3>3, <3>4 DEF Exchange!Start
    <3> QED BY <3>5 DEF Exchange!FENext
  <2>4. CASE UNCHANGED <<buffers, stream>>
    BY <2>1, <2>4, SameHands
  <2>5. CASE framesAllowed < 1 /\ (FramesSet(1) \/ FramesNotSet(1))
    <3>1. Resized
      BY <1>b, <2>1, <2>5, RequestResizes
    <3>2. /\ Lent' = Lent /\ Writing' = Writing
          /\ Waiting' \in SUBSET (Handles \ (Writing \cup Lent))
      BY <2>1, <3>1, ResizeOfExchange
    <3>3. CASE stream' = stream
      <4>1. Exchange!Resize
        BY <2>1, <3>2, <3>3 DEF Exchange!Resize
      <4> QED BY <4>1 DEF Exchange!FENext
    <3>4. CASE FramesSet(1) /\ stream' = TRUE
      <4>1. framesAllowed = 0 /\ framesAllowed' = 1
        <5>1. framesAllowed = 0
          BY <1>a, <2>5 DEF CameraTypeOK
        <5> QED BY <3>4, <5>1 DEF FramesSet, Grow
      <4>2. LiveSlots(buffers) = {}
        <5>1. IsFiniteSet(LiveSlots(buffers))
          BY <1>b, <2>1, PoolParts
        <5> QED BY <1>b, <2>1, <4>1, <5>1, FS_EmptySet
      <4>3. Waiting \cup Lent = {} /\ Writing = {}
        <5>1. Live(buffers) = {}
          BY <4>2 DEF Live
        <5> QED BY <2>1, <5>1, Roles
      <4>4. PICK i : LiveSlots(buffers') = {i}
        <5>1. Cardinality(LiveSlots(buffers')) = 1 /\ WellFormed(buffers')
          BY <3>1, <4>1 DEF Resized
        <5>2. IsFiniteSet(LiveSlots(buffers'))
          BY <5>1, PoolParts
        <5> QED BY <5>1, <5>2, FS_Singleton
      <4>5. Live(buffers)' = {buffers'[i].handle}
        BY <4>4 DEF Live
      <4>6. IInv' /\ fdOpen'
        BY <2>1
      <4>7. Waiting' = {buffers'[i].handle} /\ buffers'[i].handle \in Handles
        BY <3>2, <4>3, <4>5, <4>6, RolesNext
      <4>8. Exchange!Start
        BY <2>1, <3>2, <3>4, <4>3, <4>7 DEF Exchange!Start
      <4> QED BY <4>8 DEF Exchange!FENext
    <3>5. ~(framesAllowed >= 1)
      BY <1>a, <2>5 DEF CameraTypeOK
    <3> QED BY <1>3, <3>3, <3>4, <3>5 DEF StartVideoStream
  <2> QED BY <1>3, <2>3, <2>4, <2>5 DEF StartVideoStream
<1>4. CASE StopVideoStream \/ StopVideoStreamJoins
  BY <1>4, SameHands DEF StopVideoStream, StopWhenStopped, StopReentered, StopSignal,
                         StopVideoStreamJoins, StopJoined
<1>5. CASE NotifyStreamStopped
  <2>1. /\ UNCHANGED <<buffers, held, returning, fdOpen>> /\ stream' = FALSE
        /\ thread # "alive"
    BY <1>5, <1>a DEF NotifyStreamStopped, VideoStopped, ThreadInv
  <2>2. UNCHANGED <<Waiting, Lent, Writing>>
    BY <2>1 DEF Waiting, Lent, Writing, Pending, Free, InUse
  <2>3. Writing = {}
    BY <1>d, <2>1, Roles, WhenLost DEF HandlesOf
  <2>4. CASE stream
    <3>1. Exchange!End
      BY <2>1, <2>2, <2>3, <2>4 DEF Exchange!End
    <3> QED BY <3>1 DEF Exchange!FENext
  <2>5. CASE ~stream
    <3>1. stream' = stream
      BY <1>a, <2>1, <2>5 DEF CameraTypeOK
    <3> QED BY <2>1, <3>1, SameHands
  <2> QED BY <2>4, <2>5
<1>6. CASE CloseCamera
  <2>1. /\ ~fdOpen' /\ UNCHANGED <<held, returning, stream>> /\ ~stream
        /\ returning = {} /\ thread # "alive"
    BY <1>6, <1>a DEF CloseCamera, Close, EndInv, ToldOfTheEnd, ThreadInv
  <2>2. Writing = {} /\ Lent = {f.handle : f \in held}
    <3>1. Pending = {}
      BY <2>1 DEF Pending
    <3> QED BY <1>d, <2>1, <3>1, Roles, WhenLost DEF HandlesOf, Lent
  <2>3. Writing' = {} /\ Waiting' = {} /\ Lent' = Lent
    BY <2>1, <2>2, WhenLostNext
  <2>4. Exchange!Lose
    BY <2>1, <2>2, <2>3 DEF Exchange!Lose
  <2> QED BY <2>4 DEF Exchange!FENext
<1>7. CASE DoneWithFrame
  <2>1. PICK ids \in SUBSET HeldIds : /\ returning' = ids
                                      /\ held' = {f \in held : f.id \notin ids}
    BY <1>7 DEF DoneWithFrame, HeldIds
  <2>2. returning = {} /\ UNCHANGED <<fdOpen, buffers, fpc, fidx, stream>>
    BY <1>7, <1>a DEF DoneWithFrame, Idle, ThreadInv
  <2>3. CASE fdOpen
    <3>1. HeldIds' = HeldIds \ ids
      BY <2>1 DEF HeldIds
    <3>2. /\ HandlesOf(HeldIds \cup returning)' = HandlesOf(HeldIds \cup returning)
          /\ HandlesOf(Worked)' = HandlesOf(Worked)
      BY <2>1, <2>2, <3>1 DEF HandlesOf, Worked
    <3>3. Lent' = Lent /\ Writing' = Writing
      BY <2>2, <2>3, <3>2, Roles, RolesNext
    <3>4. Waiting' = Waiting
      BY <2>2 DEF Waiting, Free
    <3> QED BY <2>2, <3>3, <3>4 DEF Exchange!feVars
  <2>4. CASE ~fdOpen
    <3>1. /\ Lent = {f.handle : f \in held} /\ Lent' = {f.handle : f \in held'}
          /\ Writing = {} /\ Writing' = {} /\ Waiting = {} /\ Waiting' = {}
      BY <2>2, <2>4, WhenLost, WhenLostNext
    <3> DEFINE S == Lent \ Lent'
    <3>2. S \in SUBSET Lent /\ Lent' = Lent \ S
      BY <2>1, <3>1
    <3>3. Exchange!GiveBack(S)
      BY <2>2, <2>4, <3>1, <3>2 DEF Exchange!GiveBack
    <3> QED BY <3>2, <3>3 DEF Exchange!FENext
  <2> QED BY <2>3, <2>4
<1>8. CASE ReclaimFrame
  <2>1. PICK id \in returning :
          /\ returning' = returning \ {id}
          /\ IF fdOpen /\ id \in DOMAIN buffers
               THEN buffers' = Reclaimed(buffers, id) ELSE UNCHANGED buffers
    BY <1>8 DEF ReclaimFrame
  <2>2. UNCHANGED <<fdOpen, held, fpc, fidx, stream>>
    BY <1>8 DEF ReclaimFrame
  <2>3. CASE ~fdOpen
    <3>1. UNCHANGED <<Waiting, Lent, Writing>>
      BY <2>2, <2>3, WhenLost, WhenLostNext
    <3> QED BY <2>2, <3>1 DEF Exchange!feVars
  <2>4. CASE fdOpen
    <3>1. id \in InUse(buffers) /\ buffers' = Reclaimed(buffers, id)
      BY <1>a, <2>1, <2>4, UsersOfSlots DEF InUse
    <3>2. Live(buffers') = Live(buffers)
          /\ \A j \in InUse(buffers) \ {id} : buffers'[j] = buffers[j]
      BY <1>b, <2>4, <3>1, ReclaimPool
    <3>3. /\ HeldIds' = HeldIds /\ Worked' = Worked
          /\ id \notin HeldIds \cup Worked
          /\ HeldIds \cup returning \cup Worked = InUse(buffers)
      BY <1>a, <2>2, <2>4 DEF HeldIds, Worked, OwnInv
    <3> DEFINE h == buffers[id].handle
    <3>4. HandlesOf(Worked)' = HandlesOf(Worked)
      BY <3>2, <3>3 DEF HandlesOf
    <3>5. HandlesOf(HeldIds \cup returning)'
            = HandlesOf((HeldIds \cup returning) \ {id})
      BY <2>1, <3>2, <3>3 DEF HandlesOf
    <3>6. HandlesOf((HeldIds \cup returning) \ {id})
            = HandlesOf(HeldIds \cup returning) \ {h}
      <4>1. InUse(buffers) \in SUBSET LiveSlots(buffers)
        BY <1>b, <2>4, PoolParts
      <4>2. \A i, j \in InUse(buffers) : buffers[i].handle = buffers[j].handle => i = j
        BY <1>b, <2>4, <4>1 DEF WellFormed
      <4> QED BY <3>1, <3>3, <4>2 DEF HandlesOf
    <3>7. h \in HandlesOf(HeldIds \cup returning)
      BY DEF HandlesOf
    <3> HIDE DEF h
    <3>8. /\ h \in Lent /\ Lent' = Lent \ {h} /\ Writing' = Writing
          /\ Waiting' = Waiting \cup {h}
      <4>1. h \in Lent /\ Lent' = Lent \ {h} /\ Writing' = Writing
        BY <2>2, <2>4, <3>4, <3>5, <3>6, <3>7, Roles, RolesNext
      <4>2. Waiting' = Live(buffers) \ (Lent' \cup Writing')
        BY <2>2, <2>4, <3>2, RolesNext
      <4> QED BY <2>4, <4>1, <4>2, Roles
    <3>9. {h} \in SUBSET Lent /\ Exchange!GiveBack({h})
      BY <2>2, <2>4, <3>8 DEF Exchange!GiveBack
    <3> QED BY <3>9 DEF Exchange!FENext
  <2> QED BY <2>3, <2>4
<1>9. CASE ReserveSlot
  <2>1. /\ UNCHANGED <<fdOpen, held, returning, stream>>
        /\ fdOpen /\ stream /\ Worked = {}
    BY <1>9, <1>c DEF ReserveSlot, Worked
  <2>2. CASE UNCHANGED buffers
    BY <2>1, <2>2, SameHands
  <2>3. CASE /\ Free(buffers) # {} /\ fpc' = "base" /\ fidx' = Min(Free(buffers))
             /\ buffers' = Reserve(buffers, fidx')
    <3> DEFINE h == buffers[fidx'].handle
    <3>1. fidx' \in Free(buffers)
      BY <1>b, <2>1, <2>3, LowestFree
    <3>2. /\ LiveSlots(buffers') = LiveSlots(buffers)
          /\ LiveSlots(buffers) \in SUBSET (DOMAIN buffers)
          /\ \A j \in DOMAIN buffers : buffers'[j].handle = buffers[j].handle
      BY <1>b, <2>1, <2>3, <3>1, ReservePool, PoolParts
    <3>3. Live(buffers') = Live(buffers)
      BY <3>2 DEF Live
    <3>4. Worked' = {fidx'} /\ HeldIds' = HeldIds
      BY <2>1, <2>3 DEF Worked, HeldIds
    <3>5. \A j \in HeldIds \cup returning : j \in DOMAIN buffers
      BY <1>a, <2>1, UsersOfSlots DEF HeldIds, InUse
    <3>6. HandlesOf(HeldIds \cup returning)' = HandlesOf(HeldIds \cup returning)
      BY <2>1, <3>2, <3>4, <3>5 DEF HandlesOf
    <3>7. HandlesOf(Worked)' = {h} /\ HandlesOf(Worked) = {}
      BY <2>1, <3>1, <3>2, <3>4 DEF HandlesOf, Free
    <3>8. h \in Waiting
      BY <3>1 DEF Waiting
    <3>9. /\ Writing = {} /\ Writing' = {h} /\ Lent' = Lent
          /\ Waiting' = Waiting \ {h}
      BY <2>1, <3>3, <3>6, <3>7, Roles, RolesNext
    <3>10. Exchange!BeginWrite
      BY <2>1, <3>8, <3>9 DEF Exchange!BeginWrite
    <3> QED BY <3>10 DEF Exchange!FENext
  <2> QED BY <1>9, <2>2, <2>3 DEF ReserveSlot
<1>10. CASE SkipFrame \/ ReadBase \/ ReadHandle \/ FillFrame \/ CheckClient
  BY <1>10, SameHands
  DEF SkipFrame, ReadBase, ReadHandle, FillFrame, CheckClient, ReturnFrame
<1>11. CASE DeliverFrame
  <2>1. /\ UNCHANGED <<fdOpen, buffers, returning, stream, fidx>>
        /\ fdOpen /\ stream /\ fpc = "send"
    BY <1>11, <1>c DEF DeliverFrame
  <2>2. CASE UNCHANGED held
    BY <2>1, <2>2, SameHands
  <2>3. CASE fpc' = "done" /\ held' = held \cup {[id |-> fidx, handle |-> fhandle]}
    <3>1. Worked = {fidx} /\ Worked' = {}
      BY <2>1, <2>3 DEF Worked
    <3>2. HeldIds' = HeldIds \cup {fidx}
      <4>1. [id |-> fidx, handle |-> fhandle] \in held'
            /\ [id |-> fidx, handle |-> fhandle].id = fidx
        BY <2>3
      <4>2. \A f \in held' : f \in held \/ f.id = fidx
        BY <2>3
      <4>3. \A f \in held : f \in held'
        BY <2>3
      <4> QED BY <4>1, <4>2, <4>3 DEF HeldIds
    <3>3. /\ HandlesOf(HeldIds \cup returning)'
               = HandlesOf(HeldIds \cup returning) \cup HandlesOf(Worked)
          /\ HandlesOf(Worked)' = {} /\ HandlesOf(Worked) # {}
      BY <2>1, <3>1, <3>2 DEF HandlesOf
    <3>4. Lent' = Lent \cup Writing /\ Writing' = {} /\ Writing # {}
      BY <2>1, <3>3, Roles, RolesNext
    <3>5. Waiting' = Waiting
      BY <2>1 DEF Waiting, Free
    <3>6. Exchange!Lend
      BY <2>1, <3>4, <3>5 DEF Exchange!Lend
    <3> QED BY <3>6 DEF Exchange!FENext
  <2> QED BY <1>11, <2>2, <2>3 DEF DeliverFrame
<1>12. CASE UndoReservation
  <2>1. /\ UNCHANGED <<fdOpen, held, returning, stream, fidx>>
        /\ fdOpen /\ fpc = "undo" /\ fpc' = "done"
        /\ buffers' = MakeFree(buffers, fidx)
    BY <1>12, <1>c DEF UndoReservation
  <2>2. HeldIds' = HeldIds /\ Worked = {fidx} /\ Worked' = {}
    BY <2>1 DEF HeldIds, Worked
  <2>3. fidx \in InUse(buffers)
    BY <1>a, <2>1, <2>2, UsersOfSlots
  <2>4. /\ LiveSlots(buffers') = LiveSlots(buffers)
        /\ LiveSlots(buffers) \in SUBSET (DOMAIN buffers)
        /\ \A j \in DOMAIN buffers : buffers'[j].handle = buffers[j].handle
    BY <1>b, <2>1, <2>3, FreePool, PoolParts
  <2>5. Live(buffers') = Live(buffers)
    BY <2>4 DEF Live
  <2>6. \A j \in HeldIds \cup returning : j \in DOMAIN buffers
    BY <1>a, <2>1, UsersOfSlots DEF HeldIds, InUse
  <2>7. /\ HandlesOf(HeldIds \cup returning)' = HandlesOf(HeldIds \cup returning)
        /\ HandlesOf(Worked)' = {} /\ HandlesOf(Worked) # {}
    BY <2>1, <2>2, <2>4, <2>6 DEF HandlesOf
  <2>8. /\ Lent' = Lent /\ Writing' = {} /\ Writing # {}
        /\ Waiting' = Waiting \cup Writing
    BY <2>1, <2>5, <2>7, Roles, RolesNext
  <2>9. Exchange!Abandon
    BY <2>1, <2>8 DEF Exchange!Abandon
  <2> QED BY <2>9 DEF Exchange!FENext
<1>13. CASE ForwardFrameReturns
  BY <1>13, SameHands DEF ForwardFrameReturns, CallbackReturns
<1>14. CASE /\ UNCHANGED cameraVars
            /\ \/ CheckRunMode \/ SelectTimesOut \/ DeviceFails \/ Dequeue
               \/ ThreadEnds \/ DriverFills
  BY <1>14, SameHands DEF CheckRunMode, SelectTimesOut, DeviceFails, Dequeue,
                          ThreadEnds, DriverFills
<1> QED
  BY <1>1, <1>2, <1>3, <1>4, <1>5, <1>6, <1>7, <1>8, <1>9, <1>10, <1>11,
     <1>12, <1>13, <1>14
  DEF Next, BinderCompletes, CaptureThread, ForwardFrame, Driver

(* A buffer has one owner at a time, and changes hands only by delivery    *)
(* and return: the camera implements FrameExchange.                        *)
THEOREM ImplementsExchange ==
  ASSUME RepeatedReturns = FALSE, "reuse" \notin Faults
  PROVE  Spec => LendsBuffers
<1>1. Init => Exchange!FEInit
  <2> SUFFICES ASSUME Init PROVE Exchange!FEInit
    OBVIOUS
  <2>1. /\ buffers = EmptyVector /\ held = {} /\ returning = {} /\ stream = FALSE
        /\ fdOpen = TRUE
    BY DEF Init, VCInit
  <2>2. Pending = {}
    BY <2>1 DEF Pending
  <2>3. Waiting = {} /\ Writing = {} /\ Lent = {}
    BY <2>1, <2>2, EmptyPool DEF Waiting, Writing, Lent
  <2> QED BY <2>1, <2>3 DEF Exchange!FEInit
<1>2. Spec => []EndInv
  <2>1. Init => EndInv
    BY DEF Init, VCInit, EndInv, Emptied, ToldOfTheEnd
  <2>2. VCTypeOK /\ ThreadInv /\ EndInv /\ [Next]_vars => EndInv'
    BY EndStep
  <2> QED BY <2>1, <2>2, ThreadsBehave, PTL DEF Spec
<1>3. /\ IInv /\ EndInv /\ IInv' /\ EndInv' /\ [Next]_vars
      => [Exchange!FENext]_(Exchange!feVars)
  BY ExchangeStep
<1>4. Spec => []IInv
  BY InvariantHolds
<1> QED BY <1>1, <1>2, <1>3, <1>4, PTL DEF Spec, LendsBuffers, Exchange!FESpec
===============================================================================
