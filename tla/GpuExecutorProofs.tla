-------------------------- MODULE GpuExecutorProofs ---------------------------
(***************************************************************************)
(* Proofs about GpuExecutor, for all models that are well formed, any      *)
(* number of executions and both backends.                                 *)
(***************************************************************************)
EXTENDS GpuExecutor, FiniteSetTheorems, SequenceTheorems, WellFoundedInduction, TLAPS

-------------------------------------------------------------------------------
(* Numbers and sequences.                                                  *)

(* Every set of natural numbers has a least element. *)
LEMMA LeastExists ==
  ASSUME NEW S \in SUBSET Nat, S # {}
  PROVE  \E x \in S : \A y \in S : x <= y
<1> DEFINE R == StrictSubsetOrdering(Nat)
           T == {0 .. s : s \in S}
<1>1. T \subseteq FiniteSubsetsOf(Nat)
  <2>1. \A s \in S : IsFiniteSet(0 .. s) /\ 0 .. s \in SUBSET Nat
    BY FS_Interval
  <2> QED BY <2>1 DEF FiniteSubsetsOf
<1>2. T # {}
  OBVIOUS
<1>3. IsWellFoundedOn(R, FiniteSubsetsOf(Nat))
  BY FS_StrictSubsetOrderingWellFounded
<1>4. \E x \in T : \A y \in T : ~ (<<y, x>> \in R)
  <2> HIDE DEF R, T
  <2> QED BY <1>1, <1>2, <1>3, WFMin
<1>5. PICK x \in S : \A y \in S : ~ (<<0 .. y, 0 .. x>> \in R)
  BY <1>4
<1>6. SUFFICES ASSUME NEW y \in S, y < x PROVE FALSE
  BY <1>5
<1>7. <<0 .. y, 0 .. x>> \in R
  <2>1. x \notin 0 .. y /\ x \in 0 .. x
    BY <1>6
  <2>2. 0 .. y \subseteq 0 .. x
    BY <1>6
  <2> QED BY <2>1, <2>2 DEF StrictSubsetOrdering
<1> QED BY <1>5, <1>7

LEMMA MinIsLeast ==
  ASSUME NEW S \in SUBSET Nat, S # {}
  PROVE  Min(S) \in S
BY LeastExists DEF Min

(* What holds at zero and goes on from each number to the next holds up to *)
(* the last one.                                                           *)
LEMMA UpTo ==
  ASSUME NEW m \in Nat, NEW S, 0 \in S, \A n \in 0 .. m : n < m /\ n \in S => n + 1 \in S
  PROVE  \A n \in 0 .. m : n \in S
<1> SUFFICES ASSUME NEW b \in 0 .. m, b \notin S PROVE FALSE
  OBVIOUS
<1> DEFINE T == {n \in 0 .. m : n \notin S}
<1>1. PICK x \in T : \A y \in T : x <= y
  <2>1. T \in SUBSET Nat /\ T # {}
    OBVIOUS
  <2> HIDE DEF T
  <2> QED BY <2>1, LeastExists
<1>2. x # 0 /\ x \in 1 .. m
  BY <1>1
<1>3. x - 1 \in 0 .. m /\ x - 1 < m /\ x - 1 + 1 = x
  BY <1>2
<1>4. x - 1 \notin S
  BY <1>1, <1>3
<1>5. ~ (x <= x - 1)
  BY <1>2
<1> QED BY <1>1, <1>3, <1>4, <1>5

(* The operands of an operation are bound, and marked, one after another. *)
LEMMA BoundInSteps ==
  ASSUME NEW s, NEW op, Len(op.inputs) \in Nat
  PROVE  \E f : /\ f[0] = s
                /\ \A n \in 1 .. Len(op.inputs) : f[n] = GetSSbo(f[n - 1], op.inputs[n])
                /\ Bound(s, op) = GetSSbo(f[Len(op.inputs)], op.output)
<1> DEFINE last == Len(op.inputs)
           Steps(f, m) == f = [n \in 0 .. m |-> IF n = 0 THEN s ELSE GetSSbo(f[n - 1], op.inputs[n])]
           S == {m \in 0 .. last : \E f : Steps(f, m)}
<1>1. 0 \in S
  <2>1. Steps([n \in 0 .. 0 |-> s], 0)
    OBVIOUS
  <2>2. \E f : Steps(f, 0)
    BY <2>1
  <2> HIDE DEF Steps
  <2> QED BY <2>2
<1>2. ASSUME NEW m \in 0 .. last, m < last, m \in S PROVE m + 1 \in S
  <2>1. PICK f : Steps(f, m)
    BY <1>2
  <2> DEFINE g == [n \in 0 .. m + 1 |-> IF n <= m THEN f[n] ELSE GetSSbo(f[m], op.inputs[m + 1])]
  <2>2. \A n \in 0 .. m + 1 : g[n] = IF n = 0 THEN s ELSE GetSSbo(g[n - 1], op.inputs[n])
    <3> SUFFICES ASSUME NEW n \in 0 .. m + 1
                 PROVE  g[n] = IF n = 0 THEN s ELSE GetSSbo(g[n - 1], op.inputs[n])
      OBVIOUS
    <3>1. CASE n = 0
      BY <2>1, <3>1
    <3>2. CASE n \in 1 .. m
      <4>1. f[n] = GetSSbo(f[n - 1], op.inputs[n])
        BY <2>1, <3>2
      <4>2. n - 1 \in 0 .. m + 1 /\ n - 1 <= m /\ n <= m
        BY <3>2
      <4>3. g[n] = f[n] /\ g[n - 1] = f[n - 1]
        BY <4>2
      <4> QED BY <3>2, <4>1, <4>3
    <3>3. CASE n = m + 1
      <4>1. n - 1 = m /\ m \in 0 .. m + 1 /\ ~(n <= m) /\ n # 0
        BY <3>3
      <4>2. g[n] = GetSSbo(f[m], op.inputs[m + 1]) /\ g[m] = f[m]
        BY <3>3, <4>1
      <4> QED BY <3>3, <4>1, <4>2
    <3> QED BY <3>1, <3>2, <3>3
  <2>3. Steps(g, m + 1)
    <3> DEFINE h == [n \in 0 .. m + 1 |-> IF n = 0 THEN s ELSE GetSSbo(g[n - 1], op.inputs[n])]
    <3>1. \A n \in 0 .. m + 1 : g[n] = h[n]
      BY <2>2
    <3>2. g = [n \in 0 .. m + 1 |-> g[n]] /\ h = [n \in 0 .. m + 1 |-> h[n]]
      OBVIOUS
    <3>3. g = h
      <4> HIDE DEF g, h
      <4> QED BY <3>1, <3>2
    <3> HIDE DEF g
    <3> QED BY <3>3
  <2>4. \E h : Steps(h, m + 1)
    <3> HIDE DEF g
    <3> QED BY <2>3
  <2>5. m + 1 \in 0 .. last
    BY <1>2
  <2> HIDE DEF Steps, last, g
  <2> QED BY <2>4, <2>5
<1>3. last \in S
  <2> HIDE DEF S, last
  <2>1. last \in Nat
    BY DEF last
  <2>2. \A n \in 0 .. last : n \in S
    BY <1>1, <1>2, <2>1, UpTo
  <2> QED BY <2>1, <2>2
<1> DEFINE bind == CHOOSE f : Steps(f, last)
<1>4. Steps(bind, last)
  BY <1>3
<1>5. /\ bind[0] = s
      /\ \A n \in 1 .. last : bind[n] = GetSSbo(bind[n - 1], op.inputs[n])
  <2> HIDE DEF bind
  <2> QED BY <1>4
<1>6. Bound(s, op) = GetSSbo(bind[last], op.output)
  BY DEF Bound
<1> HIDE DEF bind
<1> QED BY <1>5, <1>6

LEMMA MarkedInSteps ==
  ASSUME NEW s, NEW op, Len(op.inputs) \in Nat
  PROVE  \E f : /\ f[0] = s
                /\ \A n \in 1 .. Len(op.inputs) : f[n] = MarkFinished(f[n - 1], op.inputs[n])
                /\ Finished(s, op) = f[Len(op.inputs)]
<1> DEFINE last == Len(op.inputs)
           Steps(f, m) == f = [n \in 0 .. m |-> IF n = 0 THEN s ELSE MarkFinished(f[n - 1], op.inputs[n])]
           S == {m \in 0 .. last : \E f : Steps(f, m)}
<1>1. 0 \in S
  <2>1. Steps([n \in 0 .. 0 |-> s], 0)
    OBVIOUS
  <2>2. \E f : Steps(f, 0)
    BY <2>1
  <2> HIDE DEF Steps
  <2> QED BY <2>2
<1>2. ASSUME NEW m \in 0 .. last, m < last, m \in S PROVE m + 1 \in S
  <2>1. PICK f : Steps(f, m)
    BY <1>2
  <2> DEFINE g == [n \in 0 .. m + 1 |-> IF n <= m THEN f[n] ELSE MarkFinished(f[m], op.inputs[m + 1])]
  <2>2. \A n \in 0 .. m + 1 : g[n] = IF n = 0 THEN s ELSE MarkFinished(g[n - 1], op.inputs[n])
    <3> SUFFICES ASSUME NEW n \in 0 .. m + 1
                 PROVE  g[n] = IF n = 0 THEN s ELSE MarkFinished(g[n - 1], op.inputs[n])
      OBVIOUS
    <3>1. CASE n = 0
      BY <2>1, <3>1
    <3>2. CASE n \in 1 .. m
      <4>1. f[n] = MarkFinished(f[n - 1], op.inputs[n])
        BY <2>1, <3>2
      <4>2. n - 1 \in 0 .. m + 1 /\ n - 1 <= m /\ n <= m
        BY <3>2
      <4>3. g[n] = f[n] /\ g[n - 1] = f[n - 1]
        BY <4>2
      <4> QED BY <3>2, <4>1, <4>3
    <3>3. CASE n = m + 1
      <4>1. n - 1 = m /\ m \in 0 .. m + 1 /\ ~(n <= m) /\ n # 0
        BY <3>3
      <4>2. g[n] = MarkFinished(f[m], op.inputs[m + 1]) /\ g[m] = f[m]
        BY <3>3, <4>1
      <4> QED BY <3>3, <4>1, <4>2
    <3> QED BY <3>1, <3>2, <3>3
  <2>3. Steps(g, m + 1)
    <3> DEFINE h == [n \in 0 .. m + 1 |-> IF n = 0 THEN s ELSE MarkFinished(g[n - 1], op.inputs[n])]
    <3>1. \A n \in 0 .. m + 1 : g[n] = h[n]
      BY <2>2
    <3>2. g = [n \in 0 .. m + 1 |-> g[n]] /\ h = [n \in 0 .. m + 1 |-> h[n]]
      OBVIOUS
    <3>3. g = h
      <4> HIDE DEF g, h
      <4> QED BY <3>1, <3>2
    <3> HIDE DEF g
    <3> QED BY <3>3
  <2>4. \E h : Steps(h, m + 1)
    <3> HIDE DEF g
    <3> QED BY <2>3
  <2>5. m + 1 \in 0 .. last
    BY <1>2
  <2> HIDE DEF Steps, last, g
  <2> QED BY <2>4, <2>5
<1>3. last \in S
  <2> HIDE DEF S, last
  <2>1. last \in Nat
    BY DEF last
  <2>2. \A n \in 0 .. last : n \in S
    BY <1>1, <1>2, <2>1, UpTo
  <2> QED BY <2>1, <2>2
<1> DEFINE mark == CHOOSE f : Steps(f, last)
<1>4. Steps(mark, last)
  BY <1>3
<1>5. /\ mark[0] = s
      /\ \A n \in 1 .. last : mark[n] = MarkFinished(mark[n - 1], op.inputs[n])
  <2> HIDE DEF mark
  <2> QED BY <1>4
<1>6. Finished(s, op) = mark[last]
  BY DEF Finished
<1> HIDE DEF mark
<1> QED BY <1>5, <1>6

-------------------------------------------------------------------------------
(* What a well-formed model has.                                           *)

LEMMA ModelFacts ==
  ASSUME prep \in Prepared
  PROVE  /\ IsFiniteSet(Operand) /\ Null \notin Operand
         /\ Temporary \subseteq Operand /\ IsFiniteSet(Temporary)
         /\ Capacity \in Nat /\ \A k \in 1 .. Capacity : Null # Inter(k)
         /\ \A o \in Operand : prep.length[o] \in Nat
BY ModelAssumption, NullAssumption, FS_Subset, FS_CardinalityType
   DEF Operand, Temporary, Of, Capacity

LEMMA OperationFacts ==
  ASSUME prep \in Prepared, NEW i \in DOMAIN Operations
  PROVE  /\ Len(Operations) \in Nat /\ DOMAIN Operations = 1 .. Len(Operations)
         /\ Operations[i].inputs \in Seq(Operand) /\ Operations[i].inputs # << >>
         /\ Len(Operations[i].inputs) \in Nat \ {0}
         /\ DOMAIN Operations[i].inputs = 1 .. Len(Operations[i].inputs)
         /\ \A n \in DOMAIN Operations[i].inputs : Operations[i].inputs[n] \in Operand
         /\ Operations[i].copies \in Copies
         /\ Operations[i].output \in Temporary \cup Outputs
         /\ Operations[i].output \in Temporary =>
              \E j \in i + 1 .. Len(Operations) : \E n \in DOMAIN Operations[j].inputs :
                Operations[j].inputs[n] = Operations[i].output
<1>1. /\ Operations \in Seq([type : STRING, inputs : Seq(Operand), output : Operand,
                             copies : Copies])
      /\ WellFormed(prep)
  BY ModelAssumption DEF Operations, Operand
<1>2. /\ Len(Operations) \in Nat /\ DOMAIN Operations = 1 .. Len(Operations)
      /\ Operations[i].inputs \in Seq(Operand) /\ Operations[i].output \in Operand
      /\ Operations[i].copies \in Copies
  <2> DEFINE S == [type : STRING, inputs : Seq(Operand), output : Operand, copies : Copies]
  <2>1. Operations \in Seq(S)
    BY <1>1
  <2>2. /\ Len(Operations) \in Nat /\ DOMAIN Operations = 1 .. Len(Operations)
        /\ Operations[i] \in S
    <3> HIDE DEF S
    <3> QED BY <2>1
  <2> QED BY <2>2
<1>3. /\ Operations[i].inputs # << >>
      /\ \/ prep.lifetime[Operations[i].output] = "MODEL_OUTPUT"
         \/ /\ prep.lifetime[Operations[i].output] = "TEMPORARY_VARIABLE"
            /\ \E j \in i + 1 .. Len(Operations) :
                 Operations[i].output \in Range(Operations[j].inputs)
  BY <1>1 DEF WellFormed, Operations
<1>4. /\ Operations[i].output \in Temporary \cup Outputs
      /\ Operations[i].output \in Temporary =>
           \E j \in i + 1 .. Len(Operations) : \E n \in DOMAIN Operations[j].inputs :
             Operations[j].inputs[n] = Operations[i].output
  BY <1>2, <1>3 DEF Temporary, Outputs, Of, Range
<1> HIDE DEF Operations
<1>5. /\ Len(Operations[i].inputs) \in Nat \ {0}
      /\ DOMAIN Operations[i].inputs = 1 .. Len(Operations[i].inputs)
      /\ \A n \in DOMAIN Operations[i].inputs : Operations[i].inputs[n] \in Operand
  <2> DEFINE q == Operations[i].inputs
  <2>1. q \in Seq(Operand) /\ q # << >>
    BY <1>2, <1>3
  <2> HIDE DEF q
  <2>2. Len(q) \in Nat /\ DOMAIN q = 1 .. Len(q) /\ \A n \in DOMAIN q : q[n] \in Operand
    BY <2>1
  <2>3. Len(q) # 0
    BY <2>1, EmptySeq
  <2> QED BY <2>2, <2>3 DEF q
<1> QED BY <1>2, <1>3, <1>4, <1>5

-------------------------------------------------------------------------------
(* The memory.                                                             *)

Asserts == {"none", "capacity", "refCount", "shared", "finished", "pools"}
Infos(s) == {Request(o) : o \in Operand} \cup {InModel(o) : o \in Operand}
              \cup {Inter(k) : k \in DOMAIN s.medium}
MediumInfo == [length : Nat, userptr : Operand \cup {Null}, inUsing : BOOLEAN, refCount : Nat]

HasFields(s) == s = [medium |-> s.medium, memInfo |-> s.memInfo, usesLeft |-> s.usesLeft,
                     ssbo |-> s.ssbo, content |-> s.content, assert |-> s.assert]

MemOK(s) ==
  /\ HasFields(s)
  /\ s.medium \in Seq(MediumInfo) /\ Len(s.medium) <= Capacity
  /\ s.memInfo \in [Operand -> Infos(s) \cup {Null}]
  /\ s.usesLeft \in [Operand -> Nat]
  /\ s.assert \in Asserts

(* Each intermediate buffer that is in use is held by as many operands as  *)
(* it has references, or more, but if it has none of them it is free.      *)
Holders(s, k) == {o \in Temporary : s.memInfo[o] = Inter(k)}
Lent(s) ==
  \A k \in DOMAIN s.medium :
    s.medium[k].inUsing /\ s.medium[k].userptr = Null =>
      s.medium[k].refCount \in 1 .. Cardinality(Holders(s, k))

(* Who holds a buffer is still to be read. *)
Needed(s) == \A o \in Temporary : s.memInfo[o] # Null => s.usesLeft[o] > 0

(* The same but for the buffers themselves. *)
Alike(s, t) == /\ HasFields(t)
               /\ t.medium = s.medium /\ t.memInfo = s.memInfo
               /\ t.usesLeft = s.usesLeft /\ t.assert = s.assert

LEMMA AlikeKeeps ==
  ASSUME NEW s, NEW t, MemOK(s), Alike(s, t)
  PROVE  /\ MemOK(t) /\ Infos(t) = Infos(s)
         /\ Lent(s) => Lent(t)
         /\ Needed(s) => Needed(t)
<1>1. Infos(t) = Infos(s)
  BY DEF Alike, Infos
<1>2. MemOK(t)
  BY <1>1 DEF MemOK, Alike
<1>3. \A k : Holders(t, k) = Holders(s, k)
  BY DEF Holders, Alike
<1> QED BY <1>1, <1>2, <1>3 DEF Lent, Needed, Alike

LEMMA HolderCount ==
  ASSUME prep \in Prepared, NEW s, NEW k
  PROVE  /\ IsFiniteSet(Holders(s, k)) /\ Cardinality(Holders(s, k)) \in Nat
         /\ Holders(s, k) # {} => Cardinality(Holders(s, k)) >= 1
<1>1. IsFiniteSet(Holders(s, k))
  BY ModelFacts, FS_Subset DEF Holders
<1> QED BY <1>1, FS_CardinalityType, FS_EmptySet

LEMMA MoreHolders ==
  ASSUME prep \in Prepared, NEW s, NEW t, NEW k, Holders(s, k) \subseteq Holders(t, k)
  PROVE  Cardinality(Holders(s, k)) <= Cardinality(Holders(t, k))
BY HolderCount, FS_Subset

LEMMA MakeBufferKeeps ==
  ASSUME NEW s, NEW info, HasFields(s)
  PROVE  Alike(s, MakeBuffer(s, info))
BY DEF HasFields, Alike, MakeBuffer

(* A memory with other infos, operands and counts.                         *)
Changed(s, m, f, u) == [s EXCEPT !.medium = m, !.memInfo = f, !.usesLeft = u]

LEMMA ChangedHas ==
  ASSUME NEW s, HasFields(s), NEW m, NEW f, NEW u, NEW t, t = Changed(s, m, f, u)
  PROVE  /\ HasFields(t) /\ t.medium = m /\ t.memInfo = f /\ t.usesLeft = u
         /\ t.ssbo = s.ssbo /\ t.content = s.content /\ t.assert = s.assert
BY DEF HasFields, Changed

LEMMA StopsKeeps ==
  ASSUME NEW s, NEW why \in Asserts \ {"none"}, MemOK(s)
  PROVE  LET t == Stops(s, why) IN
           /\ MemOK(t) /\ t.assert # "none"
           /\ t.usesLeft = s.usesLeft /\ t.memInfo = s.memInfo
           /\ Lent(s) => Lent(t)
<1> DEFINE t == Stops(s, why)
<1>1. /\ HasFields(t) /\ t.medium = s.medium /\ t.memInfo = s.memInfo
      /\ t.usesLeft = s.usesLeft /\ t.assert = why
  BY DEF MemOK, HasFields, Stops
<1> HIDE DEF t
<1>2. Infos(t) = Infos(s)
  BY <1>1 DEF Infos
<1>3. Lent(s) => Lent(t)
  BY <1>1 DEF Lent, Holders
<1>4. MemOK(t)
  BY <1>1, <1>2 DEF MemOK
<1> QED BY <1>1, <1>3, <1>4 DEF t

-------------------------------------------------------------------------------
(* Binding an operand.                                                     *)

(* From s to t the operand o may have got a buffer, and no other has.      *)
Binds(s, t, o) ==
  /\ MemOK(t)
  /\ t.usesLeft = s.usesLeft
  /\ s.assert # "none" => t.assert # "none"
  /\ t.assert = "none" => t.memInfo[o] \in Infos(t)
  /\ \A x \in Operand : x # o => t.memInfo[x] = s.memInfo[x]
  /\ Lent(s) => Lent(t)

(* From s to t the k-th intermediate info has been taken, which is new, or *)
(* was not in use and had no data.                                         *)
Adds(s, t, k, data) ==
  /\ MemOK(t)
  /\ t.usesLeft = s.usesLeft /\ t.ssbo = s.ssbo /\ t.content = s.content
  /\ t.assert = s.assert /\ t.memInfo = s.memInfo
  /\ DOMAIN t.medium = DOMAIN s.medium \cup {k}
  /\ \A j \in DOMAIN s.medium : j # k => t.medium[j] = s.medium[j]
  /\ t.medium[k].userptr = data /\ t.medium[k].inUsing /\ t.medium[k].refCount = 1
  /\ k \in DOMAIN s.medium =>
       data = Null /\ s.medium[k].userptr = Null /\ ~s.medium[k].inUsing

(* From s to t the operand o has got it. *)
Takes(s, t, o, k, data) ==
  /\ MemOK(t)
  /\ t.usesLeft = s.usesLeft /\ t.ssbo = s.ssbo /\ t.content = s.content
  /\ t.assert = s.assert
  /\ t.memInfo[o] = Inter(k)
  /\ \A x \in Operand : x # o => t.memInfo[x] = s.memInfo[x]
  /\ DOMAIN t.medium = DOMAIN s.medium \cup {k}
  /\ \A j \in DOMAIN s.medium : j # k => t.medium[j] = s.medium[j]
  /\ t.medium[k].userptr = data /\ t.medium[k].inUsing /\ t.medium[k].refCount = 1
  /\ k \in DOMAIN s.medium =>
       data = Null /\ s.medium[k].userptr = Null /\ ~s.medium[k].inUsing

LEMMA CreateAdds ==
  ASSUME prep \in Prepared, NEW s, MemOK(s), NEW length \in Nat, NEW data \in Operand \cup {Null}
  PROVE  \/ CreateMemoryInfo(s, length, data) = Stops(s, "capacity")
         \/ \E k : Adds(s, CreateMemoryInfo(s, length, data), k, data)
<1>1. CASE Len(s.medium) >= Capacity
  BY <1>1 DEF CreateMemoryInfo
<1>2. CASE ~ (Len(s.medium) >= Capacity)
  <2> DEFINE info == [length |-> length, userptr |-> data, inUsing |-> TRUE, refCount |-> 1]
             n    == Len(s.medium) + 1
             t    == [s EXCEPT !.medium = Append(s.medium, info)]
  <2>1. CreateMemoryInfo(s, length, data) = t
    BY <1>2 DEF CreateMemoryInfo
  <2>2. /\ HasFields(t) /\ t.medium = Append(s.medium, info) /\ t.memInfo = s.memInfo
        /\ t.usesLeft = s.usesLeft /\ t.assert = s.assert
        /\ t.ssbo = s.ssbo /\ t.content = s.content
    <3>1. PICK m : m = Append(s.medium, info)
      OBVIOUS
    <3>2. t = Changed(s, m, s.memInfo, s.usesLeft)
      BY <3>1 DEF MemOK, HasFields, Changed
    <3> HIDE DEF t, info
    <3>3. /\ HasFields(t) /\ t.medium = m /\ t.memInfo = s.memInfo
          /\ t.usesLeft = s.usesLeft /\ t.assert = s.assert
          /\ t.ssbo = s.ssbo /\ t.content = s.content
      BY <3>2, ChangedHas DEF MemOK
    <3> QED BY <3>1, <3>3
  <2>3. info \in MediumInfo /\ info.userptr = data /\ info.inUsing /\ info.refCount = 1
    BY DEF MediumInfo
  <2>4. /\ n \in 1 .. Capacity /\ s.medium \in Seq(MediumInfo) /\ Len(s.medium) \in Nat
        /\ s.memInfo \in [Operand -> Infos(s) \cup {Null}]
    BY <1>2, ModelFacts DEF MemOK
  <2> HIDE DEF t, info
  <2>5. /\ t.medium \in Seq(MediumInfo) /\ Len(t.medium) = n
        /\ DOMAIN t.medium = 1 .. n /\ DOMAIN s.medium = 1 .. n - 1
        /\ \A k \in 1 .. n - 1 : t.medium[k] = s.medium[k]
        /\ t.medium[n] = info
    <3>1. /\ t.medium \in Seq(MediumInfo) /\ Len(t.medium) = n
          /\ \A k \in 1 .. Len(s.medium) : t.medium[k] = s.medium[k]
          /\ t.medium[n] = info
      BY <2>2, <2>3, <2>4, AppendProperties
    <3> QED BY <2>4, <3>1
  <2>6. Infos(s) \subseteq Infos(t)
    BY <2>5, <2>4 DEF Infos
  <2>7. t.memInfo \in [Operand -> Infos(t) \cup {Null}]
    BY <2>2, <2>4, <2>6
  <2>8. MemOK(t)
    BY <2>2, <2>4, <2>5, <2>7, ModelFacts DEF MemOK
  <2>9. DOMAIN t.medium = DOMAIN s.medium \cup {n} /\ n \notin DOMAIN s.medium
    BY <2>4, <2>5
  <2>10. Adds(s, t, n, data)
    BY <2>2, <2>3, <2>5, <2>8, <2>9 DEF Adds
  <2> QED BY <2>1, <2>10
<1> QED BY <1>1, <1>2

(* A buffer that is not in use is taken again.                             *)
LEMMA ReuseAdds ==
  ASSUME prep \in Prepared, NEW s, MemOK(s), NEW length \in Nat
  PROVE  \/ CreateIntermedium(s, length) = Stops(s, "capacity")
         \/ \E k : Adds(s, CreateIntermedium(s, length), k, Null)
<1>1. CASE Reusable(s, length) = {}
  <2>1. CreateIntermedium(s, length) = CreateMemoryInfo(s, length, Null)
    BY <1>1 DEF CreateIntermedium
  <2> QED BY <2>1, CreateAdds
<1>2. CASE Reusable(s, length) # {}
  <2> DEFINE k == Min(Reusable(s, length))
             t == [s EXCEPT !.medium[k].inUsing = TRUE, !.medium[k].refCount = 1]
  <2>1. CreateIntermedium(s, length) = t
    BY <1>2 DEF CreateIntermedium
  <2>2. /\ s.medium \in Seq(MediumInfo) /\ Len(s.medium) \in Nat /\ Len(s.medium) <= Capacity
        /\ DOMAIN s.medium = 1 .. Len(s.medium)
        /\ s.memInfo \in [Operand -> Infos(s) \cup {Null}]
    BY DEF MemOK
  <2>3. k \in DOMAIN s.medium /\ s.medium[k].userptr = Null /\ ~s.medium[k].inUsing
    <3>1. Reusable(s, length) \in SUBSET Nat
      BY <2>2 DEF Reusable
    <3>2. k \in Reusable(s, length)
      BY <1>2, <3>1, MinIsLeast
    <3> HIDE DEF k
    <3> QED BY <3>2 DEF Reusable
  <2> HIDE DEF k
  <2> DEFINE lent == [s.medium[k] EXCEPT !.inUsing = TRUE, !.refCount = 1]
  <2>4. /\ HasFields(t) /\ t.medium = [s.medium EXCEPT ![k] = lent]
        /\ t.memInfo = s.memInfo
        /\ t.usesLeft = s.usesLeft /\ t.assert = s.assert
        /\ t.ssbo = s.ssbo /\ t.content = s.content
    <3>1. t = Changed(s, [s.medium EXCEPT ![k] = lent], s.memInfo, s.usesLeft)
      BY <2>3 DEF MemOK, HasFields, Changed
    <3> HIDE DEF t, lent
    <3> QED BY <3>1, ChangedHas DEF MemOK
  <2>5. /\ lent \in MediumInfo /\ lent.refCount = 1 /\ lent.inUsing
        /\ lent.userptr = Null
    <3>1. s.medium[k] \in MediumInfo
      BY <2>2, <2>3
    <3> QED BY <2>3, <3>1 DEF MediumInfo
  <2> HIDE DEF t, lent
  <2>6. /\ t.medium \in Seq(MediumInfo) /\ Len(t.medium) = Len(s.medium)
        /\ \A j \in 1 .. Len(s.medium) : t.medium[j] = IF j = k THEN lent ELSE s.medium[j]
    BY <2>2, <2>3, <2>4, <2>5, ExceptSeq
  <2>7. DOMAIN t.medium = DOMAIN s.medium
    BY <2>2, <2>6
  <2>8. Infos(s) = Infos(t)
    BY <2>7 DEF Infos
  <2>9. MemOK(t)
    BY <2>2, <2>4, <2>6, <2>8 DEF MemOK
  <2>10. /\ DOMAIN t.medium = DOMAIN s.medium \cup {k} /\ t.medium[k] = lent
         /\ \A j \in DOMAIN s.medium : j # k => t.medium[j] = s.medium[j]
    BY <2>2, <2>3, <2>6, <2>7
  <2>11. Adds(s, t, k, Null)
    BY <2>3, <2>4, <2>5, <2>9, <2>10 DEF Adds
  <2> QED BY <2>1, <2>11
<1> QED BY <1>1, <1>2

LEMMA AddsTaken ==
  ASSUME NEW s, NEW t, NEW k, NEW data, Adds(s, t, k, data)
  PROVE  Taken(s, t) = {k} /\ (CHOOSE j \in Taken(s, t) : TRUE) = k
<1>1. k \in Taken(s, t)
  BY DEF Adds, Taken
<1>2. ASSUME NEW j \in Taken(s, t) PROVE j = k
  BY <1>2 DEF Adds, Taken
<1> QED BY <1>1, <1>2

LEMMA KeepsTakes ==
  ASSUME prep \in Prepared, NEW s, MemOK(s), s.assert = "none", NEW o \in Operand,
         NEW a, NEW k, NEW data, Adds(s, a, k, data)
  PROVE  Takes(s, Keeps(s, a, o), o, k, data)
<1> DEFINE t == Keeps(s, a, o)
           f == [a.memInfo EXCEPT ![o] = Inter(k)]
<1>1. /\ MemOK(a) /\ HasFields(a) /\ a.assert = "none"
      /\ a.memInfo \in [Operand -> Infos(a) \cup {Null}]
  BY DEF Adds, MemOK
<1>2. t = Changed(a, a.medium, f, a.usesLeft)
  <2>1. t = [a EXCEPT !.memInfo[o] = Inter(k)]
    BY <1>1, AddsTaken DEF Keeps
  <2> HIDE DEF t
  <2> QED BY <1>1, <2>1 DEF HasFields, Changed
<1> HIDE DEF t, f
<1>3. /\ HasFields(t) /\ t.medium = a.medium /\ t.memInfo = f /\ t.usesLeft = a.usesLeft
      /\ t.ssbo = a.ssbo /\ t.content = a.content /\ t.assert = a.assert
  BY <1>1, <1>2, ChangedHas
<1>4. Infos(t) = Infos(a) /\ Inter(k) \in Infos(a)
  BY <1>3 DEF Infos, Adds
<1>5. /\ f \in [Operand -> Infos(a) \cup {Null}] /\ f[o] = Inter(k)
      /\ \A x \in Operand : x # o => f[x] = a.memInfo[x]
  BY <1>1, <1>4 DEF f
<1>6. MemOK(t)
  BY <1>1, <1>3, <1>4, <1>5 DEF MemOK
<1> QED BY <1>3, <1>5, <1>6 DEF Adds, Takes, t

LEMMA CreateTakes ==
  ASSUME prep \in Prepared, NEW s, MemOK(s), s.assert = "none", NEW o \in Operand,
         NEW data \in Operand \cup {Null},
         NEW t, t = Keeps(s, CreateMemoryInfo(s, prep.length[o], data), o)
  PROVE  t = Stops(s, "capacity") \/ \E k : Takes(s, t, o, k, data)
<1>1. PICK a : a = CreateMemoryInfo(s, prep.length[o], data)
  OBVIOUS
<1>2. a = Stops(s, "capacity") \/ \E k : Adds(s, a, k, data)
  BY <1>1, ModelFacts, CreateAdds
<1>3. CASE a = Stops(s, "capacity")
  BY <1>1, <1>3, StopsKeeps DEF Keeps, Asserts
<1> QED BY <1>1, <1>2, <1>3, KeepsTakes

LEMMA ReuseTakes ==
  ASSUME prep \in Prepared, NEW s, MemOK(s), s.assert = "none", NEW o \in Temporary,
         NEW t, t = Keeps(s, CreateIntermedium(s, prep.length[o]), o)
  PROVE  t = Stops(s, "capacity") \/ \E k : Takes(s, t, o, k, Null)
<1>0. o \in Operand
  BY ModelFacts
<1>1. PICK a : a = CreateIntermedium(s, prep.length[o])
  OBVIOUS
<1>2. a = Stops(s, "capacity") \/ \E k : Adds(s, a, k, Null)
  BY <1>0, <1>1, ModelFacts, ReuseAdds
<1>3. CASE a = Stops(s, "capacity")
  BY <1>1, <1>3, StopsKeeps DEF Keeps, Asserts
<1> QED BY <1>0, <1>1, <1>2, <1>3, KeepsTakes

LEMMA TakesBinds ==
  ASSUME prep \in Prepared, NEW s, MemOK(s), NEW o \in Operand, s.memInfo[o] = Null,
         NEW data, data = Null => o \in Temporary, NEW t, NEW k, Takes(s, t, o, k, data)
  PROVE  Binds(s, t, o)
<1>1. /\ Inter(k) \in Infos(t) /\ \A j \in DOMAIN t.medium : Null # Inter(j)
  <2>1. k \in DOMAIN t.medium /\ DOMAIN t.medium = 1 .. Len(t.medium) /\ MemOK(t)
    BY DEF Takes, MemOK
  <2> QED BY <2>1, ModelFacts DEF MemOK, Infos
<1>2. ASSUME Lent(s) PROVE Lent(t)
  <2> SUFFICES ASSUME NEW j \in DOMAIN t.medium, t.medium[j].inUsing, t.medium[j].userptr = Null
               PROVE  t.medium[j].refCount \in 1 .. Cardinality(Holders(t, j))
    BY DEF Lent
  <2>1. CASE j = k
    <3>1. o \in Holders(t, j)
      BY <2>1 DEF Holders, Takes
    <3> QED BY <2>1, <3>1, HolderCount DEF Takes
  <2>2. CASE j # k
    <3>1. j \in DOMAIN s.medium /\ t.medium[j] = s.medium[j]
      BY <2>2 DEF Takes
    <3>2. Holders(s, j) \subseteq Holders(t, j)
      BY <1>1, ModelFacts DEF Holders, Takes
    <3>3. s.medium[j].refCount \in 1 .. Cardinality(Holders(s, j))
      BY <1>2, <3>1 DEF Lent
    <3> QED BY <3>1, <3>2, <3>3, MoreHolders, HolderCount
  <2> QED BY <2>1, <2>2
<1> QED BY <1>1, <1>2 DEF Takes, Binds

LEMMA StopsBinds ==
  ASSUME NEW s, MemOK(s), NEW o
  PROVE  Binds(s, Stops(s, "capacity"), o)
BY StopsKeeps DEF Binds, Asserts

LEMMA GetSSboBinds ==
  ASSUME prep \in Prepared, NEW s, MemOK(s), NEW o \in Operand
  PROVE  Binds(s, GetSSbo(s, o), o)
<1> DEFINE a == IF s.memInfo[o] # Null THEN s
                ELSE IF o \in Temporary
                THEN Keeps(s, CreateIntermedium(s, prep.length[o]), o)
                ELSE Keeps(s, CreateMemoryInfo(s, prep.length[o], o), o)
           t == MakeBuffer(a, a.memInfo[o])
<1>0. CASE s.assert # "none"
  <2>1. GetSSbo(s, o) = s
    BY <1>0 DEF GetSSbo
  <2> QED BY <1>0, <2>1 DEF Binds
<1>1. CASE s.assert = "none"
  <2>1. GetSSbo(s, o) = IF a.assert # "none" THEN a ELSE t
    BY <1>1 DEF GetSSbo
  <2>2. Binds(s, a, o)
    <3>1. CASE s.memInfo[o] # Null
      BY <3>1 DEF Binds, MemOK
    <3>2. CASE s.memInfo[o] = Null /\ o \in Temporary
      <4> HIDE DEF a
      <4>1. a = Keeps(s, CreateIntermedium(s, prep.length[o]), o)
        BY <3>2 DEF a
      <4> QED BY <1>1, <3>2, <4>1, ReuseTakes, TakesBinds, StopsBinds
    <3>3. CASE s.memInfo[o] = Null /\ o \notin Temporary
      <4> HIDE DEF a
      <4>1. a = Keeps(s, CreateMemoryInfo(s, prep.length[o], o), o)
        BY <3>3 DEF a
      <4> QED BY <1>1, <3>3, <4>1, CreateTakes, TakesBinds, StopsBinds, ModelFacts
    <3> QED BY <3>1, <3>2, <3>3
  <2> HIDE DEF a
  <2>3. Alike(a, t)
    BY <2>2, MakeBufferKeeps DEF Binds, MemOK
  <2> HIDE DEF t
  <2>4. Binds(s, t, o)
    BY <2>2, <2>3, AlikeKeeps DEF Binds, Alike
  <2> QED BY <2>1, <2>2, <2>4
<1> QED BY <1>0, <1>1

(* From s to t only operands in X have got buffers.                        *)
Rebinds(s, t, X) ==
  /\ MemOK(t)
  /\ t.usesLeft = s.usesLeft
  /\ s.assert # "none" => t.assert # "none"
  /\ \A x \in Operand : x \notin X => t.memInfo[x] = s.memInfo[x]
  /\ Lent(s) => Lent(t)

OperandsOf(op) == {op.inputs[n] : n \in DOMAIN op.inputs} \cup {op.output}

LEMMA BoundRebinds ==
  ASSUME prep \in Prepared, NEW i \in DOMAIN Operations, NEW s, MemOK(s)
  PROVE  Rebinds(s, Bound(s, Operations[i]), OperandsOf(Operations[i]))
<1> DEFINE op   == Operations[i]
           last == Len(op.inputs)
           X    == OperandsOf(op)
<1>1. /\ last \in Nat /\ DOMAIN op.inputs = 1 .. last
      /\ \A n \in 1 .. last : op.inputs[n] \in Operand /\ op.inputs[n] \in X
      /\ op.output \in Operand /\ op.output \in X
  BY OperationFacts, ModelFacts DEF OperandsOf, Outputs, Of
<1>2. \A t : \A o \in X : Binds(s, t, o) => Rebinds(s, t, X)
  BY DEF Binds, Rebinds
<1> HIDE DEF op, last, X
<1>3. ASSUME NEW u, Rebinds(s, u, X), NEW o \in Operand, o \in X
      PROVE  Rebinds(s, GetSSbo(u, o), X)
  <2>1. Binds(u, GetSSbo(u, o), o)
    BY <1>3, GetSSboBinds DEF Rebinds
  <2> QED BY <1>3, <2>1 DEF Binds, Rebinds
<1>4. PICK f : /\ f[0] = s
               /\ \A n \in 1 .. last : f[n] = GetSSbo(f[n - 1], op.inputs[n])
               /\ Bound(s, op) = GetSSbo(f[last], op.output)
  BY <1>1, BoundInSteps DEF last
<1> DEFINE S == {n \in 0 .. last : Rebinds(s, f[n], X)}
<1>5. 0 \in S
  BY <1>1, <1>4 DEF Rebinds
<1>6. ASSUME NEW n \in 0 .. last, n < last, n \in S PROVE n + 1 \in S
  <2>1. n + 1 \in 1 .. last /\ n + 1 - 1 = n
    BY <1>1, <1>6
  <2>2. f[n + 1] = GetSSbo(f[n], op.inputs[n + 1])
    BY <1>4, <2>1
  <2>3. Rebinds(s, f[n + 1], X)
    BY <1>1, <1>3, <1>6, <2>1, <2>2
  <2> QED BY <2>1, <2>3
<1>7. Rebinds(s, f[last], X)
  <2> HIDE DEF S
  <2>1. \A n \in 0 .. last : n \in S
    BY <1>1, <1>5, <1>6, UpTo
  <2> QED BY <1>1, <2>1 DEF S
<1>8. Rebinds(s, Bound(s, op), X)
  BY <1>1, <1>3, <1>4, <1>7
<1> QED BY <1>8 DEF op, X

(* Copies of operands are no operands: none gets or loses an info.         *)
SetsAside(s, t) ==
  /\ MemOK(t)
  /\ t.usesLeft = s.usesLeft /\ t.memInfo = s.memInfo
  /\ s.assert # "none" => t.assert # "none"

LEMMA RebindKeeps ==
  ASSUME prep \in Prepared, NEW s, MemOK(s), NEW length \in Nat
  PROVE  SetsAside(s, Rebind(s, length))
<1> DEFINE t == Rebind(s, length)
<1>1. PICK a : a = CreateIntermedium(s, length)
  OBVIOUS
<1>2. PICK m : m = Inter(CHOOSE k \in Taken(s, a) : TRUE)
  OBVIOUS
<1>3. PICK b : b = MakeBuffer(a, m)
  OBVIOUS
<1>4. \/ t = s
      \/ t = a
      \/ \E c : t = [b EXCEPT !.content = c]
  BY <1>1, <1>2, <1>3 DEF Rebind
<1>5. SetsAside(s, a)
  <2>1. CASE a = Stops(s, "capacity")
    BY <2>1, StopsKeeps DEF SetsAside, Asserts
  <2>2. CASE \E k : Adds(s, a, k, Null)
    BY <2>2 DEF SetsAside, Adds
  <2> QED BY <1>1, <2>1, <2>2, ReuseAdds
<1>6. Alike(a, b)
  BY <1>3, <1>5, MakeBufferKeeps DEF SetsAside, MemOK
<1>7. ASSUME NEW c, t = [b EXCEPT !.content = c] PROVE Alike(a, t)
  <2> HIDE DEF t
  <2> QED BY <1>6, <1>7 DEF Alike, HasFields
<1> HIDE DEF t
<1>8. ASSUME Alike(a, t) PROVE SetsAside(s, t)
  BY <1>5, <1>8, AlikeKeeps DEF SetsAside, Alike
<1>9. SetsAside(s, s)
  BY DEF SetsAside
<1> QED BY <1>4, <1>5, <1>7, <1>8, <1>9 DEF t

LEMMA CopiedKeeps ==
  ASSUME prep \in Prepared, NEW i \in DOMAIN Operations, NEW s, MemOK(s)
  PROVE  /\ SetsAside(s, Copied(s, Operations[i]))
         /\ Operations[i].copies = << >> => Copied(s, Operations[i]) = s
<1> DEFINE op == Operations[i]
<1>1. CASE op.copies = << >>
  BY <1>1 DEF Copied, SetsAside
<1>2. CASE op.copies # << >>
  <2>1. op.copies[1] \in Nat /\ op.copies[2] \in Nat
    BY <1>2, OperationFacts DEF Copies
  <2> HIDE DEF op
  <2>2. PICK u : u = Rebind(s, op.copies[1])
    OBVIOUS
  <2>3. Copied(s, op) = Rebind(u, op.copies[2])
    BY <1>2, <2>2 DEF Copied
  <2>4. SetsAside(s, u)
    BY <2>1, <2>2, RebindKeeps
  <2>5. SetsAside(u, Copied(s, op))
    BY <2>1, <2>3, <2>4, RebindKeeps DEF SetsAside
  <2>6. SetsAside(s, Copied(s, op))
    BY <2>4, <2>5 DEF SetsAside
  <2> QED BY <1>2, <2>6 DEF op
<1> QED BY <1>1, <1>2

(* A shader that runs on copies keeps buffers for them, for ever.          *)
LEMMA DispatchRebinds ==
  ASSUME prep \in Prepared, NEW i \in DOMAIN Operations, NEW s, MemOK(s)
  PROVE  LET t == Dispatch(s, Operations[i]) IN
           /\ MemOK(t) /\ t.usesLeft = s.usesLeft
           /\ \A x \in Operand : x \notin OperandsOf(Operations[i]) => t.memInfo[x] = s.memInfo[x]
           /\ Operations[i].copies = << >> => Rebinds(s, t, OperandsOf(Operations[i]))
<1> DEFINE op == Operations[i]
           t  == Dispatch(s, op)
<1>1. PICK c : c = Copied(s, op)
  OBVIOUS
<1>2. PICK b : b = Bound(c, op)
  OBVIOUS
<1>3. SetsAside(s, c) /\ (op.copies = << >> => c = s)
  BY <1>1, CopiedKeeps
<1>4. Rebinds(c, b, OperandsOf(op))
  BY <1>2, <1>3, BoundRebinds DEF SetsAside
<1>5. t = b \/ \E d : t = [b EXCEPT !.content = d]
  <2> HIDE DEF op
  <2> QED BY <1>1, <1>2 DEF Dispatch
<1> HIDE DEF t, op
<1>6. HasFields(b)
  BY <1>4 DEF Rebinds, MemOK
<1>7. Alike(b, t)
  BY <1>5, <1>6 DEF Alike, HasFields
<1>8. Rebinds(c, t, OperandsOf(op))
  BY <1>4, <1>7, AlikeKeeps DEF Rebinds, Alike
<1>9. /\ MemOK(t) /\ t.usesLeft = s.usesLeft
      /\ \A x \in Operand : x \notin OperandsOf(op) => t.memInfo[x] = s.memInfo[x]
      /\ op.copies = << >> => Rebinds(s, t, OperandsOf(op))
  BY <1>3, <1>8 DEF Rebinds, SetsAside
<1> QED BY <1>9 DEF t, op

(* An operand gets the info of another one, which is counted.              *)
Shared(s, o, info) == IncRef([s EXCEPT !.memInfo[o] = info], info)

LEMMA SharedBinds ==
  ASSUME prep \in Prepared, NEW s, MemOK(s), NEW o \in Temporary, s.memInfo[o] = Null,
         NEW info \in Infos(s)
  PROVE  Binds(s, Shared(s, o, info), o)
<1> DEFINE t == Shared(s, o, info)
           f == [s.memInfo EXCEPT ![o] = info]
<1>0. /\ s.medium \in Seq(MediumInfo) /\ Len(s.medium) \in Nat /\ Len(s.medium) <= Capacity
      /\ DOMAIN s.medium = 1 .. Len(s.medium)
      /\ s.memInfo \in [Operand -> Infos(s) \cup {Null}] /\ o \in Operand
      /\ HasFields(s) /\ s.usesLeft \in [Operand -> Nat] /\ s.assert \in Asserts
  BY ModelFacts DEF MemOK
<1>1. /\ f \in [Operand -> Infos(s) \cup {Null}] /\ f[o] = info
      /\ \A x \in Operand : x # o => f[x] = s.memInfo[x]
  BY <1>0
<1>2. \A j \in DOMAIN s.medium : Null # Inter(j)
  BY <1>0, ModelFacts
<1>3. CASE info[1] # "intermedium"
  <2>1. t = Changed(s, s.medium, f, s.usesLeft)
    BY <1>0, <1>3 DEF Shared, IncRef, Changed, HasFields
  <2> HIDE DEF t, f
  <2>2. /\ HasFields(t) /\ t.medium = s.medium /\ t.memInfo = f
        /\ t.usesLeft = s.usesLeft /\ t.assert = s.assert
    BY <1>0, <2>1, ChangedHas
  <2>3. Infos(t) = Infos(s)
    BY <2>2 DEF Infos
  <2>4. MemOK(t)
    BY <1>0, <1>1, <2>2, <2>3 DEF MemOK
  <2>5. \A j \in DOMAIN s.medium : Holders(s, j) \subseteq Holders(t, j)
    BY <1>1, <1>2, <2>2, ModelFacts DEF Holders
  <2>6. ASSUME Lent(s) PROVE Lent(t)
    <3> SUFFICES ASSUME NEW j \in DOMAIN s.medium, s.medium[j].inUsing, s.medium[j].userptr = Null
                 PROVE  s.medium[j].refCount \in 1 .. Cardinality(Holders(t, j))
      BY <2>2 DEF Lent
    <3> QED BY <2>5, <2>6, MoreHolders, HolderCount DEF Lent
  <2> QED BY <1>1, <2>2, <2>3, <2>4, <2>6 DEF Binds, t
<1>4. CASE info[1] = "intermedium"
  <2>1. PICK k \in DOMAIN s.medium : info = Inter(k)
    BY <1>4 DEF Infos, Request, InModel, Inter
  <2> DEFINE more == [s.medium[k] EXCEPT !.refCount = @ + 1]
  <2>2. t = Changed(s, [s.medium EXCEPT ![k] = more], f, s.usesLeft)
    <3>1. info[2] = k
      BY <2>1 DEF Inter
    <3> QED BY <1>0, <1>4, <3>1 DEF Shared, IncRef, Changed, HasFields
  <2>3. s.medium[k] \in MediumInfo
    BY <1>0
  <2>4. /\ more \in MediumInfo /\ more.refCount = s.medium[k].refCount + 1
        /\ more.inUsing = s.medium[k].inUsing /\ more.userptr = s.medium[k].userptr
        /\ s.medium[k].refCount \in Nat
    BY <2>3 DEF MediumInfo
  <2> HIDE DEF t, f, more
  <2>5. /\ HasFields(t) /\ t.medium = [s.medium EXCEPT ![k] = more] /\ t.memInfo = f
        /\ t.usesLeft = s.usesLeft /\ t.assert = s.assert
    BY <1>0, <2>2, ChangedHas
  <2>6. /\ t.medium \in Seq(MediumInfo) /\ Len(t.medium) = Len(s.medium)
        /\ \A j \in 1 .. Len(s.medium) : t.medium[j] = IF j = k THEN more ELSE s.medium[j]
    BY <1>0, <2>4, <2>5, ExceptSeq
  <2>7. DOMAIN t.medium = DOMAIN s.medium
    BY <1>0, <2>6
  <2>8. Infos(t) = Infos(s)
    BY <2>7 DEF Infos
  <2>9. MemOK(t)
    BY <1>0, <1>1, <2>5, <2>6, <2>8 DEF MemOK
  <2>10. \A j \in DOMAIN s.medium : Holders(s, j) \subseteq Holders(t, j)
    BY <1>1, <1>2, <2>5, ModelFacts DEF Holders
  <2>11. Cardinality(Holders(t, k)) >= Cardinality(Holders(s, k)) + 1
    <3>1. o \in Holders(t, k) /\ o \notin Holders(s, k)
      BY <1>1, <1>2, <2>1, <2>5 DEF Holders
    <3>2. Cardinality(Holders(s, k) \cup {o}) = Cardinality(Holders(s, k)) + 1
      BY <3>1, HolderCount, FS_AddElement
    <3>3. Holders(s, k) \cup {o} \subseteq Holders(t, k)
      BY <2>10, <3>1
    <3>4. Cardinality(Holders(s, k) \cup {o}) <= Cardinality(Holders(t, k))
      BY <3>3, HolderCount, FS_Subset
    <3> QED BY <3>2, <3>4
  <2>12. ASSUME Lent(s) PROVE Lent(t)
    <3> SUFFICES ASSUME NEW j \in DOMAIN s.medium, t.medium[j].inUsing, t.medium[j].userptr = Null
                 PROVE  t.medium[j].refCount \in 1 .. Cardinality(Holders(t, j))
      BY <2>7 DEF Lent
    <3>1. CASE j = k
      <4>1. t.medium[j] = more
        BY <1>0, <2>6, <3>1
      <4>2. s.medium[k].refCount \in 1 .. Cardinality(Holders(s, k))
        BY <2>4, <2>12, <3>1, <4>1 DEF Lent
      <4>3. Cardinality(Holders(s, k)) \in Nat /\ Cardinality(Holders(t, k)) \in Nat
        BY HolderCount
      <4> QED BY <2>4, <2>11, <3>1, <4>1, <4>2, <4>3
    <3>2. CASE j # k
      <4>1. t.medium[j] = s.medium[j]
        BY <1>0, <2>6, <3>2
      <4>2. s.medium[j].refCount \in 1 .. Cardinality(Holders(s, j))
        BY <2>12, <4>1 DEF Lent
      <4> QED BY <2>10, <4>1, <4>2, MoreHolders, HolderCount
    <3> QED BY <3>1, <3>2
  <2> QED BY <1>1, <2>1, <2>5, <2>8, <2>9, <2>12 DEF Binds, t
<1> QED BY <1>3, <1>4

LEMMA IncRefKeeps ==
  ASSUME NEW s, MemOK(s), NEW info \in Infos(s)
  PROVE  LET t == IncRef(s, info) IN
           MemOK(t) /\ t.usesLeft = s.usesLeft /\ t.assert = s.assert
<1> DEFINE t == IncRef(s, info)
<1>1. CASE info[1] # "intermedium"
  BY <1>1 DEF IncRef
<1>2. CASE info[1] = "intermedium"
  <2>1. PICK k \in DOMAIN s.medium : info = Inter(k)
    BY <1>2 DEF Infos, Request, InModel, Inter
  <2> DEFINE more == [s.medium[k] EXCEPT !.refCount = @ + 1]
  <2>2. /\ s.medium \in Seq(MediumInfo) /\ DOMAIN s.medium = 1 .. Len(s.medium)
        /\ s.medium[k] \in MediumInfo /\ HasFields(s)
    BY DEF MemOK
  <2>3. t = Changed(s, [s.medium EXCEPT ![k] = more], s.memInfo, s.usesLeft)
    <3>1. info[2] = k
      BY <2>1 DEF Inter
    <3> QED BY <1>2, <2>2, <3>1 DEF IncRef, Changed, HasFields
  <2>4. more \in MediumInfo
    <3>1. s.medium[k] \in MediumInfo
      BY <2>2
    <3> QED BY <3>1 DEF MediumInfo
  <2> HIDE DEF t, more
  <2>5. /\ HasFields(t) /\ t.medium = [s.medium EXCEPT ![k] = more] /\ t.memInfo = s.memInfo
        /\ t.usesLeft = s.usesLeft /\ t.assert = s.assert
    BY <2>2, <2>3, ChangedHas
  <2>6. t.medium \in Seq(MediumInfo) /\ Len(t.medium) = Len(s.medium)
    BY <2>2, <2>4, <2>5, ExceptSeq
  <2>7. Infos(t) = Infos(s)
    <3>1. DOMAIN t.medium = DOMAIN s.medium
      BY <2>2, <2>6
    <3> QED BY <3>1 DEF Infos
  <2>8. MemOK(t)
    BY <2>5, <2>6, <2>7 DEF MemOK
  <2> QED BY <2>5, <2>8 DEF t
<1> QED BY <1>1, <1>2

(* A RESHAPE, but for one that gives an output of the model.               *)
LEMMA ShareRebinds ==
  ASSUME prep \in Prepared, NEW i \in DOMAIN Operations, NEW s, MemOK(s)
  PROVE  LET op == Operations[i]
             t  == ShareGpuStorage(s, op)
         IN  /\ MemOK(t) /\ t.usesLeft = s.usesLeft
             /\ s.assert # "none" => t.assert # "none"
             /\ op.output \notin Outputs => Rebinds(s, t, OperandsOf(op))
<1> DEFINE op   == Operations[i]
           in   == op.inputs[1]
           b    == GetSSbo(s, in)
           from == b.memInfo[in]
           t    == ShareGpuStorage(s, op)
<1>1. /\ in \in Operand /\ op.output \in Operand /\ in \in OperandsOf(op)
      /\ op.output \in OperandsOf(op) /\ op.output \in Temporary \cup Outputs
  BY OperationFacts, ModelFacts DEF OperandsOf, Outputs, Of
<1> HIDE DEF op, in
<1>2. Binds(s, b, in)
  BY <1>1, GetSSboBinds
<1>3. t = IF b.assert # "none" THEN b
          ELSE IF op.output \in Outputs
          THEN IncRef([b EXCEPT !.ssbo = With(@, b.memInfo[op.output], b.ssbo[from])], from)
          ELSE IF b.memInfo[op.output] # Null THEN Stops(b, "shared")
          ELSE Shared(b, op.output, from)
  BY DEF ShareGpuStorage, Shared, in
<1> HIDE DEF b, t
<1>4. Rebinds(s, b, OperandsOf(op))
  BY <1>1, <1>2 DEF Binds, Rebinds
<1>5. CASE b.assert # "none"
  BY <1>3, <1>4, <1>5 DEF Rebinds, t, op
<1>6. CASE b.assert = "none" /\ op.output \in Outputs
  <2> DEFINE u == [b EXCEPT !.ssbo = With(@, b.memInfo[op.output], b.ssbo[from])]
  <2>1. Alike(b, u)
    <3>1. PICK c : c = With(b.ssbo, b.memInfo[op.output], b.ssbo[from])
      OBVIOUS
    <3>2. u = [b EXCEPT !.ssbo = c]
      BY <3>1
    <3>3. HasFields(b)
      BY <1>2 DEF Binds, MemOK
    <3> HIDE DEF u
    <3> QED BY <3>2, <3>3 DEF Alike, HasFields
  <2>2. t = IncRef(u, from)
    BY <1>3, <1>6
  <2> HIDE DEF u
  <2>3. MemOK(u) /\ from \in Infos(u)
    BY <1>2, <1>6, <2>1, AlikeKeeps DEF Binds
  <2>4. MemOK(t) /\ t.usesLeft = u.usesLeft /\ t.assert = u.assert
    BY <2>2, <2>3, IncRefKeeps
  <2> QED BY <1>2, <1>6, <2>1, <2>4 DEF Binds, Alike, t, op
<1>7. CASE b.assert = "none" /\ op.output \notin Outputs /\ b.memInfo[op.output] # Null
  <2>1. t = Stops(b, "shared")
    BY <1>3, <1>7
  <2>2. Rebinds(s, t, OperandsOf(op))
    BY <1>4, <2>1, StopsKeeps DEF Rebinds, Asserts
  <2> QED BY <2>2 DEF Rebinds, t, op
<1>8. CASE b.assert = "none" /\ op.output \notin Outputs /\ b.memInfo[op.output] = Null
  <2>1. t = Shared(b, op.output, from)
    BY <1>3, <1>8
  <2>2. Binds(b, t, op.output)
    BY <1>1, <1>2, <1>8, <2>1, SharedBinds DEF Binds
  <2>3. Rebinds(s, t, OperandsOf(op))
    BY <1>1, <1>4, <2>2 DEF Binds, Rebinds
  <2> QED BY <2>3 DEF Rebinds, t, op
<1> QED BY <1>5, <1>6, <1>7, <1>8

-------------------------------------------------------------------------------
(* Marking an operand.                                                     *)

(* A read of o is done.  When it was the last one o gives its buffer back, *)
(* to be used by the other operands that hold it or by any.                *)
Marks(s, t, o) ==
  /\ MemOK(t)
  /\ \A x \in Operand : t.usesLeft[x] <= s.usesLeft[x]
  /\ t.assert = "none" =>
       /\ s.assert = "none"
       /\ \A x \in Temporary : t.usesLeft[x] = IF x = o THEN s.usesLeft[x] - 1 ELSE s.usesLeft[x]
       /\ Needed(s) => Needed(t)
       /\ Lent(s) => Lent(t)

(* SetNotInUsing of an info that o held, when there are references to it.  *)
LEMMA ReturnKeeps ==
  ASSUME prep \in Prepared, NEW s, MemOK(s), NEW o \in Temporary, NEW k \in DOMAIN s.medium,
         s.memInfo[o] = Inter(k), s.medium[k].refCount # 0,
         NEW v, v = Changed(s, s.medium, [s.memInfo EXCEPT ![o] = Null], s.usesLeft)
  PROVE  LET t == SetNotInUsing(v, Inter(k)) IN
           /\ MemOK(t) /\ t.usesLeft = s.usesLeft /\ t.assert = s.assert
           /\ t.memInfo = v.memInfo
           /\ Lent(s) => Lent(t)
<1> DEFINE f    == [s.memInfo EXCEPT ![o] = Null]
           n    == s.medium[k].refCount
           less == [s.medium[k] EXCEPT !.refCount = n - 1, !.inUsing = @ /\ n > 1]
           t    == SetNotInUsing(v, Inter(k))
<1>0. /\ s.medium \in Seq(MediumInfo) /\ Len(s.medium) \in Nat /\ Len(s.medium) <= Capacity
      /\ DOMAIN s.medium = 1 .. Len(s.medium)
      /\ s.memInfo \in [Operand -> Infos(s) \cup {Null}] /\ o \in Operand
      /\ HasFields(s) /\ s.usesLeft \in [Operand -> Nat] /\ s.assert \in Asserts
  BY ModelFacts DEF MemOK
<1>1. /\ f \in [Operand -> Infos(s) \cup {Null}] /\ f[o] = Null
      /\ \A x \in Operand : x # o => f[x] = s.memInfo[x]
  BY <1>0
<1>2. /\ HasFields(v) /\ v.medium = s.medium /\ v.memInfo = f
      /\ v.usesLeft = s.usesLeft /\ v.assert = s.assert
  BY <1>0, ChangedHas
<1>3. s.medium[k] \in MediumInfo
  BY <1>0
<1>4. t = Changed(v, [s.medium EXCEPT ![k] = less], f, s.usesLeft)
  <2>1. t = [v EXCEPT !.medium[k].refCount = n - 1, !.medium[k].inUsing = @ /\ n > 1]
    BY <1>2 DEF SetNotInUsing, Inter
  <2> DEFINE m == [v.medium EXCEPT ![k].refCount = n - 1, ![k].inUsing = @ /\ n > 1]
  <2>2. t = [v EXCEPT !.medium = m]
    BY <1>2, <2>1 DEF HasFields
  <2>3. m = [s.medium EXCEPT ![k] = less]
    BY <1>0, <1>2, <1>3 DEF MediumInfo
  <2> HIDE DEF t, f, m
  <2>4. t = [v EXCEPT !.medium = m, !.memInfo = v.memInfo, !.usesLeft = v.usesLeft]
    BY <1>2, <2>2 DEF HasFields
  <2> QED BY <1>2, <2>3, <2>4 DEF Changed
<1>5. /\ less \in MediumInfo /\ less.refCount = n - 1 /\ n \in Nat
      /\ less.userptr = s.medium[k].userptr
      /\ less.inUsing => s.medium[k].inUsing /\ n > 1
  <2>1. n \in Nat /\ n - 1 \in Nat
    BY <1>3 DEF MediumInfo
  <2>2. PICK using : using = (s.medium[k].inUsing /\ n > 1)
    OBVIOUS
  <2>3. using \in BOOLEAN /\ (using => s.medium[k].inUsing /\ n > 1)
    BY <2>2
  <2>4. less = [s.medium[k] EXCEPT !.refCount = n - 1, !.inUsing = using]
    BY <1>3, <2>2 DEF MediumInfo
  <2> HIDE DEF n, less
  <2> QED BY <1>3, <2>1, <2>3, <2>4 DEF MediumInfo
<1> HIDE DEF t, f, less
<1>6. /\ HasFields(t) /\ t.medium = [s.medium EXCEPT ![k] = less] /\ t.memInfo = f
      /\ t.usesLeft = s.usesLeft /\ t.assert = s.assert
  BY <1>2, <1>4, ChangedHas
<1>7. /\ t.medium \in Seq(MediumInfo) /\ Len(t.medium) = Len(s.medium)
      /\ \A j \in 1 .. Len(s.medium) : t.medium[j] = IF j = k THEN less ELSE s.medium[j]
  BY <1>0, <1>5, <1>6, ExceptSeq
<1>8. DOMAIN t.medium = DOMAIN s.medium
  BY <1>0, <1>7
<1>9. Infos(t) = Infos(s)
  BY <1>8 DEF Infos
<1>10. MemOK(t)
  BY <1>0, <1>1, <1>6, <1>7, <1>9 DEF MemOK
<1>11. \A j \in DOMAIN s.medium : Null # Inter(j)
  BY <1>0, ModelFacts
<1>12. ASSUME Lent(s) PROVE Lent(t)
  <2> SUFFICES ASSUME NEW j \in DOMAIN s.medium, t.medium[j].inUsing, t.medium[j].userptr = Null
               PROVE  t.medium[j].refCount \in 1 .. Cardinality(Holders(t, j))
    BY <1>8 DEF Lent
  <2>1. CASE j = k
    <3>1. t.medium[j] = less
      BY <1>0, <1>7, <2>1
    <3>2. n \in 1 .. Cardinality(Holders(s, k)) /\ n > 1
      BY <1>5, <1>12, <2>1, <3>1 DEF Lent
    <3>3. o \in Holders(s, k) /\ Holders(s, k) \ {o} \subseteq Holders(t, k)
      BY <1>0, <1>1, <1>6, ModelFacts DEF Holders
    <3>4. Cardinality(Holders(s, k) \ {o}) = Cardinality(Holders(s, k)) - 1
      BY <3>3, HolderCount, FS_RemoveElement
    <3>5. Cardinality(Holders(s, k) \ {o}) <= Cardinality(Holders(t, k))
      BY <3>3, HolderCount, FS_Subset
    <3>6. Cardinality(Holders(s, k)) \in Nat /\ Cardinality(Holders(t, k)) \in Nat
      BY HolderCount
    <3> HIDE DEF n
    <3> QED BY <1>5, <2>1, <3>1, <3>2, <3>4, <3>5, <3>6
  <2>2. CASE j # k
    <3>1. t.medium[j] = s.medium[j]
      BY <1>0, <1>7, <2>2
    <3>2. s.medium[j].refCount \in 1 .. Cardinality(Holders(s, j))
      BY <1>12, <3>1 DEF Lent
    <3>3. Inter(j) # Inter(k)
      BY <2>2 DEF Inter
    <3>4. Holders(s, j) \subseteq Holders(t, j)
      BY <1>1, <1>6, <3>3, ModelFacts DEF Holders
    <3> QED BY <3>1, <3>2, <3>4, MoreHolders, HolderCount
  <2> QED BY <2>1, <2>2
<1> QED BY <1>2, <1>6, <1>10, <1>12 DEF t

LEMMA MarkKeeps ==
  ASSUME prep \in Prepared, NEW s, MemOK(s), NEW o \in Operand,
         s.assert = "none" /\ o \in Temporary => s.usesLeft[o] > 0
  PROVE  Marks(s, MarkFinished(s, o), o)
<1> DEFINE t    == MarkFinished(s, o)
           left == [s.usesLeft EXCEPT ![o] = @ - 1]
           u    == [s EXCEPT !.usesLeft[o] = @ - 1]
           f    == [s.memInfo EXCEPT ![o] = Null]
           info == s.memInfo[o]
           v    == [u EXCEPT !.memInfo[o] = Null]
<1>0. /\ s.memInfo \in [Operand -> Infos(s) \cup {Null}] /\ HasFields(s)
      /\ s.usesLeft \in [Operand -> Nat] /\ s.assert \in Asserts
  BY DEF MemOK
<1>1. CASE o \notin Temporary \/ s.assert # "none"
  <2>1. t = s
    BY <1>1 DEF MarkFinished
  <2> HIDE DEF t
  <2>2. \A x \in Temporary : s.assert = "none" => x # o
    BY <1>1
  <2>3. \A x \in Operand : s.usesLeft[x] <= s.usesLeft[x]
    BY <1>0
  <2> QED BY <2>1, <2>2, <2>3 DEF Marks, t
<1> SUFFICES ASSUME o \in Temporary, s.assert = "none" PROVE Marks(s, t, o)
  BY <1>1
<1>2. t = IF info = Null THEN Stops(s, "finished")
          ELSE IF u.usesLeft[o] > 0 THEN u ELSE SetNotInUsing(v, info)
  BY DEF MarkFinished
<1>3. /\ left \in [Operand -> Nat] /\ left[o] = s.usesLeft[o] - 1
      /\ \A x \in Operand : x # o => left[x] = s.usesLeft[x]
      /\ \A x \in Operand : left[x] <= s.usesLeft[x]
  <2>1. s.usesLeft[o] \in Nat /\ s.usesLeft[o] > 0
    BY <1>0
  <2> QED BY <1>0, <2>1
<1>4. u = Changed(s, s.medium, s.memInfo, left)
  BY <1>0 DEF Changed, HasFields
<1> HIDE DEF t, left, u
<1>5. /\ HasFields(u) /\ u.medium = s.medium /\ u.memInfo = s.memInfo
      /\ u.usesLeft = left /\ u.assert = s.assert
  BY <1>0, <1>4, ChangedHas
<1>6. /\ Infos(u) = Infos(s) /\ MemOK(u) /\ (Lent(s) => Lent(u))
  <2>1. Infos(u) = Infos(s)
    BY <1>5 DEF Infos
  <2>2. Lent(s) => Lent(u)
    BY <1>5 DEF Lent, Holders
  <2> QED BY <1>0, <1>3, <1>5, <2>1, <2>2 DEF MemOK
<1>7. ASSUME NEW w, MemOK(w), w.usesLeft = left, Lent(s) => w.assert # "none" \/ Lent(w),
             \A x \in Temporary : x # o => w.memInfo[x] = s.memInfo[x],
             w.memInfo[o] = Null \/ left[o] > 0
      PROVE  Marks(s, w, o)
  <2>1. \A x \in Operand : w.usesLeft[x] <= s.usesLeft[x]
    BY <1>3, <1>7
  <2>2. \A x \in Temporary : w.usesLeft[x] = IF x = o THEN s.usesLeft[x] - 1 ELSE s.usesLeft[x]
    BY <1>3, <1>7, ModelFacts
  <2>3. Needed(s) => Needed(w)
    BY <1>3, <1>7, ModelFacts DEF Needed
  <2> QED BY <1>7, <2>1, <2>2, <2>3 DEF Marks
<1>8. CASE info = Null
  <2>1. t = Stops(s, "finished")
    BY <1>2, <1>8
  <2>2. MemOK(t) /\ t.assert # "none" /\ t.usesLeft = s.usesLeft
    BY <2>1, StopsKeeps DEF Asserts
  <2>3. \A x \in Operand : t.usesLeft[x] <= s.usesLeft[x]
    BY <1>0, <2>2
  <2> QED BY <2>2, <2>3 DEF Marks
<1>9. CASE info # Null /\ u.usesLeft[o] > 0
  BY <1>2, <1>5, <1>6, <1>7, <1>9
<1>10. CASE info # Null /\ ~ (u.usesLeft[o] > 0)
  <2>1. t = SetNotInUsing(v, info) /\ info \in Infos(s)
    BY <1>0, <1>2, <1>10
  <2>2. v = Changed(u, u.medium, [u.memInfo EXCEPT ![o] = Null], u.usesLeft)
    BY <1>5 DEF Changed, HasFields
  <2> HIDE DEF v, info
  <2>3. /\ HasFields(v) /\ v.medium = s.medium /\ v.memInfo = f
        /\ v.usesLeft = left /\ v.assert = "none"
    BY <1>5, <2>2, ChangedHas
  <2>4. /\ f \in [Operand -> Infos(s) \cup {Null}] /\ f[o] = Null
        /\ \A x \in Temporary : x # o => f[x] = s.memInfo[x]
    BY <1>0, ModelFacts
  <2>5. MemOK(v)
    <3>1. Infos(v) = Infos(s)
      BY <2>3 DEF Infos
    <3> HIDE DEF f
    <3> QED BY <1>0, <1>3, <1>6, <2>3, <2>4, <3>1 DEF MemOK, Asserts
  <2>6. CASE info[1] # "intermedium"
    <3>1. t = v
      BY <2>1, <2>6 DEF SetNotInUsing
    <3>2. \A j \in DOMAIN s.medium : Holders(s, j) \subseteq Holders(v, j)
      <4>1. \A j : info # Inter(j)
        BY <2>6 DEF Inter
      <4> HIDE DEF f
      <4> QED BY <2>3, <2>4, <4>1 DEF Holders, info
    <3>3. Lent(s) => Lent(v)
      <4> HIDE DEF f
      <4> QED BY <2>3, <3>2, MoreHolders, HolderCount DEF Lent
    <3> HIDE DEF f
    <3> QED BY <1>7, <2>3, <2>4, <2>5, <3>1, <3>3
  <2>7. CASE info[1] = "intermedium"
    <3>1. PICK k \in DOMAIN s.medium : info = Inter(k)
      BY <2>1, <2>7 DEF Infos, Request, InModel, Inter
    <3>2. CASE s.medium[k].refCount = 0
      <4>1. t = Stops(v, "refCount")
        BY <2>1, <2>3, <3>1, <3>2 DEF SetNotInUsing, Inter
      <4>2. MemOK(t) /\ t.assert # "none" /\ t.usesLeft = left
        BY <2>3, <2>5, <4>1, StopsKeeps DEF Asserts
      <4> QED BY <1>3, <4>2 DEF Marks
    <3>3. CASE s.medium[k].refCount # 0
      <4>1. /\ MemOK(t) /\ t.usesLeft = left /\ t.memInfo = f
            /\ Lent(u) => Lent(t)
        BY <1>5, <1>6, <2>1, <2>2, <2>3, <3>1, <3>3, ReturnKeeps DEF info
      <4> HIDE DEF f
      <4> QED BY <1>6, <1>7, <2>4, <4>1
    <3> QED BY <3>2, <3>3
  <2> QED BY <2>6, <2>7
<1> QED BY <1>8, <1>9, <1>10 DEF t

-------------------------------------------------------------------------------
(* Counting the reads.                                                     *)

(* The reads of o after the n-th one of the i-th operation.                *)
ReadsAfter(o, i, n) ==
  {r \in Reading : /\ r[1] > i \/ (r[1] = i /\ r[2] > n)
                   /\ Operations[r[1]].inputs[r[2]] = o}

Counted(s, i, n) ==
  \A o \in Temporary : s.usesLeft[o] = Cardinality(ReadsAfter(o, i, n))

LEMMA ReadingPairs ==
  ASSUME prep \in Prepared
  PROVE  /\ IsFiniteSet(Reading)
         /\ \A r \in Reading : /\ r = <<r[1], r[2]>> /\ r[1] \in DOMAIN Operations
                               /\ r[2] \in DOMAIN Operations[r[1]].inputs
                               /\ r[1] \in Nat \ {0} /\ r[2] \in Nat \ {0}
         /\ \A i \in DOMAIN Operations : \A n \in DOMAIN Operations[i].inputs :
              <<i, n>> \in Reading
<1> DEFINE PairsOf(i) == {i} \X DOMAIN Operations[i].inputs
           All == {PairsOf(i) : i \in DOMAIN Operations}
<1>1. \A i \in DOMAIN Operations :
        /\ i \in Nat \ {0}
        /\ DOMAIN Operations[i].inputs = 1 .. Len(Operations[i].inputs)
        /\ Len(Operations[i].inputs) \in Nat
  BY OperationFacts
<1>2. IsFiniteSet(DOMAIN Operations)
  <2>1. Operations \in Seq([type : STRING, inputs : Seq(Operand), output : Operand,
                             copies : Copies])
    BY ModelAssumption DEF Operations, Operand
  <2>2. Len(Operations) \in Nat /\ DOMAIN Operations = 1 .. Len(Operations)
    BY <2>1
  <2> QED BY <2>2, FS_Interval
<1>3. \A i \in DOMAIN Operations : IsFiniteSet(PairsOf(i))
  <2> SUFFICES ASSUME NEW i \in DOMAIN Operations PROVE IsFiniteSet(PairsOf(i))
    OBVIOUS
  <2>1. IsFiniteSet(DOMAIN Operations[i].inputs)
    BY <1>1, FS_Interval
  <2>2. IsFiniteSet({i})
    BY FS_Singleton
  <2> QED BY <2>1, <2>2, FS_Product
<1>4. IsFiniteSet(All)
  <2> DEFINE g == [i \in DOMAIN Operations |-> PairsOf(i)]
  <2>1. g \in Surjection(DOMAIN Operations, All)
    BY DEF Surjection
  <2> HIDE DEF g, All
  <2> QED BY <1>2, <2>1, FS_Surjection
<1>5. IsFiniteSet(UNION All)
  <2>1. \A T \in All : IsFiniteSet(T)
    BY <1>3
  <2> HIDE DEF All
  <2> QED BY <1>4, <2>1, FS_UNION
<1>6. Reading = UNION All
  BY DEF Reading
<1>7. \A r \in Reading : /\ r = <<r[1], r[2]>> /\ r[1] \in DOMAIN Operations
                         /\ r[2] \in DOMAIN Operations[r[1]].inputs
  BY DEF Reading
<1>8. \A i \in DOMAIN Operations : \A n \in DOMAIN Operations[i].inputs : <<i, n>> \in Reading
  BY DEF Reading
<1>9. \A r \in Reading : r[1] \in Nat \ {0} /\ r[2] \in Nat \ {0}
  BY <1>1, <1>7
<1> QED BY <1>5, <1>6, <1>7, <1>8, <1>9

LEMMA ReadsCount ==
  ASSUME prep \in Prepared, NEW o, NEW i, NEW n
  PROVE  /\ IsFiniteSet(ReadsAfter(o, i, n))
         /\ Cardinality(ReadsAfter(o, i, n)) \in Nat
         /\ ReadsAfter(o, i, n) # {} => Cardinality(ReadsAfter(o, i, n)) > 0
<1>1. IsFiniteSet(ReadsAfter(o, i, n))
  BY ReadingPairs, FS_Subset DEF ReadsAfter
<1> QED BY <1>1, FS_CardinalityType, FS_EmptySet

(* One read less.                                                          *)
LEMMA ReadDone ==
  ASSUME prep \in Prepared, NEW i \in DOMAIN Operations,
         NEW n \in DOMAIN Operations[i].inputs, NEW o
  PROVE  Cardinality(ReadsAfter(o, i, n)) =
           IF o = Operations[i].inputs[n] THEN Cardinality(ReadsAfter(o, i, n - 1)) - 1
                                          ELSE Cardinality(ReadsAfter(o, i, n - 1))
<1>1. i \in Nat /\ n \in Nat /\ <<i, n>> \in Reading
  <2>1. <<i, n>> \in Reading
    BY ReadingPairs
  <2>2. <<i, n>>[1] \in Nat /\ <<i, n>>[2] \in Nat
    BY <2>1, ReadingPairs
  <2> QED BY <2>1, <2>2
<1>2. \A r \in Reading : r[1] \in Nat /\ r[2] \in Nat /\ r = <<r[1], r[2]>>
  BY ReadingPairs
<1>3. \A r \in Reading : (r[1] > i \/ (r[1] = i /\ r[2] > n - 1)) <=>
                           (r[1] > i \/ (r[1] = i /\ r[2] > n) \/ r = <<i, n>>)
  BY <1>1, <1>2
<1>4. <<i, n>> \notin ReadsAfter(o, i, n)
  BY <1>1 DEF ReadsAfter
<1>5. CASE o = Operations[i].inputs[n]
  <2>1. ReadsAfter(o, i, n - 1) = ReadsAfter(o, i, n) \cup {<<i, n>>}
    BY <1>1, <1>3, <1>5 DEF ReadsAfter
  <2> QED BY <1>4, <1>5, <2>1, ReadsCount, FS_AddElement
<1>6. CASE o # Operations[i].inputs[n]
  <2>1. ReadsAfter(o, i, n - 1) = ReadsAfter(o, i, n)
    BY <1>3, <1>6 DEF ReadsAfter
  <2> QED BY <1>6, <2>1
<1> QED BY <1>5, <1>6

(* The reads of an operation, of none, and of all.                         *)
LEMMA ReadsOfAll ==
  ASSUME prep \in Prepared, NEW o
  PROVE  /\ numberOfConsumers(o) = Cardinality(ReadsAfter(o, 1, 0))
         /\ Cardinality(ReadsAfter(o, Len(Operations) + 1, 0)) = 0
         /\ \A i \in DOMAIN Operations :
              ReadsAfter(o, i, Len(Operations[i].inputs)) = ReadsAfter(o, i + 1, 0)
<1>1. \A r \in Reading : /\ r[1] \in Nat \ {0} /\ r[2] \in Nat \ {0}
                         /\ r[1] \in DOMAIN Operations
                         /\ r[1] \in 1 .. Len(Operations) /\ Len(Operations) \in Nat
                         /\ r[2] <= Len(Operations[r[1]].inputs)
  BY ReadingPairs, OperationFacts
<1>2. ReadsAfter(o, 1, 0) = {r \in Reading : Operations[r[1]].inputs[r[2]] = o}
  <2>1. \A r \in Reading : r[1] > 1 \/ (r[1] = 1 /\ r[2] > 0)
    BY <1>1
  <2> QED BY <2>1 DEF ReadsAfter
<1>3. ReadsAfter(o, Len(Operations) + 1, 0) = {}
  <2>1. \A r \in Reading : ~ (r[1] > Len(Operations) + 1) /\ r[1] # Len(Operations) + 1
    BY <1>1
  <2> QED BY <2>1 DEF ReadsAfter
<1>4. ASSUME NEW i \in DOMAIN Operations
      PROVE  ReadsAfter(o, i, Len(Operations[i].inputs)) = ReadsAfter(o, i + 1, 0)
  <2>1. i \in Nat /\ Len(Operations[i].inputs) \in Nat
    BY OperationFacts
  <2>2. \A r \in Reading :
          (r[1] > i \/ (r[1] = i /\ r[2] > Len(Operations[i].inputs))) <=>
          (r[1] > i + 1 \/ (r[1] = i + 1 /\ r[2] > 0))
    BY <1>1, <2>1
  <2> QED BY <2>2 DEF ReadsAfter
<1> QED BY <1>2, <1>3, <1>4, FS_EmptySet DEF numberOfConsumers

(* Whatever an operation reads or writes is read by it or later.           *)
LEMMA StillRead ==
  ASSUME prep \in Prepared, NEW i \in DOMAIN Operations, NEW s, Counted(s, i, 0),
         NEW o \in Temporary, o \in OperandsOf(Operations[i])
  PROVE  s.usesLeft[o] > 0
<1>1. i \in Nat /\ DOMAIN Operations[i].inputs = 1 .. Len(Operations[i].inputs)
  BY OperationFacts
<1>2. ReadsAfter(o, i, 0) # {}
  <2>1. CASE \E n \in DOMAIN Operations[i].inputs : o = Operations[i].inputs[n]
    <3>1. PICK n \in DOMAIN Operations[i].inputs : o = Operations[i].inputs[n]
      BY <2>1
    <3>2. <<i, n>> \in ReadsAfter(o, i, 0)
      BY <1>1, <3>1, ReadingPairs DEF ReadsAfter
    <3> QED BY <3>2
  <2>2. CASE o = Operations[i].output
    <3>1. PICK j \in i + 1 .. Len(Operations) :
            \E n \in DOMAIN Operations[j].inputs : Operations[j].inputs[n] = o
      BY <2>2, OperationFacts
    <3>2. PICK n \in DOMAIN Operations[j].inputs : Operations[j].inputs[n] = o
      BY <3>1
    <3>3. j \in DOMAIN Operations /\ j > i
      BY <1>1, <3>1, OperationFacts
    <3>4. <<j, n>> \in Reading
      BY <3>3, ReadingPairs
    <3>5. <<j, n>> \in ReadsAfter(o, i, 0)
      BY <3>2, <3>3, <3>4 DEF ReadsAfter
    <3> QED BY <3>5
  <2> QED BY <2>1, <2>2 DEF OperandsOf
<1> QED BY <1>2, ReadsCount DEF Counted

(* A read is done, and counted.                                            *)
LEMMA MarkCounts ==
  ASSUME prep \in Prepared, NEW i \in DOMAIN Operations, NEW n \in DOMAIN Operations[i].inputs,
         NEW s, MemOK(s), s.assert = "none" => Counted(s, i, n - 1),
         NEW o, o = Operations[i].inputs[n], NEW t, t = MarkFinished(s, o)
  PROVE  /\ s.assert = "none" /\ o \in Temporary => s.usesLeft[o] > 0
         /\ Marks(s, t, o)
         /\ t.assert = "none" => Counted(t, i, n)
<1>1. o \in Operand
  BY OperationFacts
<1>2. ASSUME s.assert = "none", o \in Temporary PROVE s.usesLeft[o] > 0
  <2>1. s.usesLeft[o] = Cardinality(ReadsAfter(o, i, n - 1))
    BY <1>2 DEF Counted
  <2>2. Cardinality(ReadsAfter(o, i, n)) = Cardinality(ReadsAfter(o, i, n - 1)) - 1
    BY ReadDone
  <2> QED BY <2>1, <2>2, ReadsCount
<1>3. Marks(s, t, o)
  BY <1>1, <1>2, MarkKeeps
<1>4. ASSUME t.assert = "none" PROVE Counted(t, i, n)
  <2> SUFFICES ASSUME NEW x \in Temporary
               PROVE  t.usesLeft[x] = Cardinality(ReadsAfter(x, i, n))
    BY DEF Counted
  <2>1. t.usesLeft[x] = IF x = o THEN s.usesLeft[x] - 1 ELSE s.usesLeft[x]
    BY <1>3, <1>4 DEF Marks
  <2>2. s.usesLeft[x] = Cardinality(ReadsAfter(x, i, n - 1))
    BY <1>3, <1>4 DEF Marks, Counted
  <2>3. Cardinality(ReadsAfter(x, i, n)) =
          IF x = o THEN Cardinality(ReadsAfter(x, i, n - 1)) - 1
                   ELSE Cardinality(ReadsAfter(x, i, n - 1))
    BY ReadDone
  <2> QED BY <2>1, <2>2, <2>3
<1> QED BY <1>2, <1>3, <1>4

-------------------------------------------------------------------------------
(* Whole operations.                                                       *)

(* From s to t the operation at i has been marked.                         *)
Finishes(s, t, i) ==
  /\ MemOK(t)
  /\ \A x \in Operand : t.usesLeft[x] <= s.usesLeft[x]
  /\ t.assert = "none" =>
       /\ s.assert = "none" /\ Counted(t, i + 1, 0)
       /\ Needed(s) => Needed(t)
       /\ Lent(s) => Lent(t)

LEMMA FinishedKeeps ==
  ASSUME prep \in Prepared, NEW i \in DOMAIN Operations, NEW s, MemOK(s),
         s.assert = "none" => Counted(s, i, 0)
  PROVE  Finishes(s, Finished(s, Operations[i]), i)
<1> DEFINE op   == Operations[i]
           last == Len(op.inputs)
           P(t, n) == /\ MemOK(t)
                      /\ \A x \in Operand : t.usesLeft[x] <= s.usesLeft[x]
                      /\ t.assert = "none" =>
                           /\ s.assert = "none" /\ Counted(t, i, n)
                           /\ Needed(s) => Needed(t)
                           /\ Lent(s) => Lent(t)
<1>1. /\ last \in Nat /\ DOMAIN op.inputs = 1 .. last
      /\ \A n \in 1 .. last : op.inputs[n] \in Operand
  BY OperationFacts
<1>2. PICK f : /\ f[0] = s
               /\ \A n \in 1 .. last : f[n] = MarkFinished(f[n - 1], op.inputs[n])
               /\ Finished(s, op) = f[last]
  BY <1>1, MarkedInSteps
<1> DEFINE S == {n \in 0 .. last : P(f[n], n)}
<1>3. 0 \in S
  <2>1. \A x \in Operand : s.usesLeft[x] <= s.usesLeft[x]
    BY DEF MemOK
  <2>2. P(s, 0)
    BY <2>1
  <2> HIDE DEF P, last
  <2> QED BY <1>1, <1>2, <2>2
<1>4. ASSUME NEW t, NEW n \in 1 .. last, P(t, n - 1)
      PROVE  P(MarkFinished(t, op.inputs[n]), n)
  <2> DEFINE o == op.inputs[n]
             u == MarkFinished(t, o)
  <2>1. n \in DOMAIN op.inputs
    BY <1>1
  <2>2. /\ Marks(t, u, o)
        /\ u.assert = "none" => Counted(u, i, n)
    BY <1>4, <2>1, MarkCounts
  <2>3. \A x \in Operand : u.usesLeft[x] <= s.usesLeft[x]
    <3>1. \A x \in Operand : /\ u.usesLeft[x] <= t.usesLeft[x] /\ t.usesLeft[x] <= s.usesLeft[x]
                             /\ u.usesLeft[x] \in Nat /\ t.usesLeft[x] \in Nat
                             /\ s.usesLeft[x] \in Nat
      <4> HIDE DEF u
      <4> QED BY <1>4, <2>2 DEF Marks, MemOK
    <3> HIDE DEF u
    <3> QED BY <3>1
  <2> HIDE DEF u, o
  <2>4. P(u, n)
    BY <1>4, <2>2, <2>3 DEF Marks
  <2> QED BY <2>4 DEF u, o
<1>5. ASSUME NEW n \in 0 .. last, n < last, n \in S PROVE n + 1 \in S
  <2>1. n + 1 \in 1 .. last /\ n + 1 - 1 = n /\ n + 1 \in 0 .. last
    BY <1>1, <1>5
  <2>2. f[n + 1] = MarkFinished(f[n], op.inputs[n + 1])
    BY <1>2, <2>1
  <2> HIDE DEF P, last, op
  <2>3. P(f[n + 1], n + 1)
    BY <1>4, <1>5, <2>1, <2>2
  <2> QED BY <2>1, <2>3
<1>6. P(f[last], last)
  <2> HIDE DEF P, last, op, S
  <2>1. \A n \in 0 .. last : n \in S
    BY <1>1, <1>3, <1>5, UpTo
  <2> QED BY <1>1, <2>1 DEF S
<1>7. Counted(f[last], i, last) => Counted(f[last], i + 1, 0)
  BY ReadsOfAll DEF Counted
<1> QED BY <1>2, <1>6, <1>7 DEF Finishes

(* An operation that succeeds.  One that reshapes to an output of the      *)
(* model shares a buffer for ever, and one that runs on copies keeps two.  *)
LEMMA DoneKeeps ==
  ASSUME prep \in Prepared, NEW i \in DOMAIN Operations, NEW s, MemOK(s),
         s.assert = "none", Counted(s, i, 0)
  PROVE  LET t == Done(s, Operations[i]) IN
           /\ MemOK(t)
           /\ \A x \in Operand : t.usesLeft[x] <= s.usesLeft[x]
           /\ t.assert = "none" =>
                /\ Counted(t, i + 1, 0)
                /\ ~LosesBuffers /\ Needed(s) /\ Lent(s) => Needed(t) /\ Lent(t)
<1> DEFINE op == Operations[i]
           b  == IF op.type = "RESHAPE" THEN ShareGpuStorage(s, op) ELSE Dispatch(s, op)
           t  == Finished(b, op)
<1>1. Done(s, op) = t
  BY DEF Done
<1>2. MemOK(b) /\ b.usesLeft = s.usesLeft
  <2>1. CASE op.type = "RESHAPE"
    BY <2>1, ShareRebinds
  <2>2. CASE op.type # "RESHAPE"
    BY <2>2, DispatchRebinds
  <2> QED BY <2>1, <2>2
<1>3. ~LosesBuffers => Rebinds(s, b, OperandsOf(op))
  <2>1. CASE op.type = "RESHAPE"
    BY <2>1, ShareRebinds DEF LosesBuffers
  <2>2. CASE op.type # "RESHAPE"
    BY <2>2, DispatchRebinds DEF LosesBuffers
  <2> QED BY <2>1, <2>2
<1> HIDE DEF b, op
<1>4. Counted(b, i, 0)
  BY <1>2 DEF Counted
<1>5. Finishes(b, t, i)
  BY <1>2, <1>4, FinishedKeeps DEF op
<1>6. ASSUME ~LosesBuffers, Needed(s) PROVE Needed(b)
  <2> SUFFICES ASSUME NEW o \in Temporary, b.memInfo[o] # Null PROVE b.usesLeft[o] > 0
    BY DEF Needed
  <2>1. CASE o \in OperandsOf(op)
    BY <1>2, <2>1, StillRead DEF op
  <2>2. CASE o \notin OperandsOf(op)
    BY <1>2, <1>3, <1>6, <2>2, ModelFacts DEF Rebinds, Needed
  <2> QED BY <2>1, <2>2
<1>7. ~LosesBuffers /\ Lent(s) => Lent(b)
  BY <1>3 DEF Rebinds
<1> HIDE DEF t
<1> QED BY <1>1, <1>2, <1>5, <1>6, <1>7 DEF Finishes, op

LEMMA FailedKeeps ==
  ASSUME prep \in Prepared, NEW i \in DOMAIN Operations, NEW s, MemOK(s),
         s.assert = "none", Counted(s, i, 0), NEW t \in Failed(s, Operations[i])
  PROVE  MemOK(t) /\ \A x \in Operand : t.usesLeft[x] <= s.usesLeft[x]
<1> DEFINE op == Operations[i]
           a  == GetSSbo(s, op.output)
<1>1. op.output \in Operand /\ op.inputs[1] \in Operand
  BY OperationFacts, ModelFacts DEF Outputs, Of
<1> HIDE DEF op
<1>2. MemOK(a) /\ a.usesLeft = s.usesLeft
  BY <1>1, GetSSboBinds DEF Binds
<1> HIDE DEF a
<1>3. LET c == GetSSbo(a, op.inputs[1]) IN MemOK(c) /\ c.usesLeft = s.usesLeft
  BY <1>1, <1>2, GetSSboBinds DEF Binds
<1>31. LET c == Bound(Copied(s, op), op) IN MemOK(c) /\ c.usesLeft = s.usesLeft
  <2>1. SetsAside(s, Copied(s, op))
    BY CopiedKeeps DEF op
  <2> QED BY <2>1, BoundRebinds DEF SetsAside, Rebinds, op
<1>4. PICK b : MemOK(b) /\ b.usesLeft = s.usesLeft /\ t = Finished(b, op)
  BY <1>3, <1>31 DEF Failed, op, a
<1>5. Counted(b, i, 0)
  BY <1>4 DEF Counted
<1>6. Finishes(b, t, i)
  BY <1>4, <1>5, FinishedKeeps DEF op
<1> QED BY <1>4, <1>6 DEF Finishes

(* No operand holds a buffer of the pool, and none is in use.              *)
Free(s) ==
  /\ \A o \in Temporary : s.memInfo[o] = Null
  /\ \A k \in DOMAIN s.medium : s.medium[k].inUsing => s.medium[k].userptr # Null

LEMMA RestoredKeeps ==
  ASSUME prep \in Prepared, NEW s, MemOK(s)
  PROVE  LET t == Restored(s) IN
           /\ MemOK(t) /\ Counted(t, 1, 0)
           /\ \A o \in Operand : t.usesLeft[o] \in 0 .. numberOfConsumers(o)
           /\ Free(s) => Free(t)
<1> DEFINE t    == Restored(s)
           left == [o \in Operand |-> IF o \in Temporary THEN numberOfConsumers(o) ELSE 0]
<1>1. HasFields(s)
  BY DEF MemOK
<1>2. /\ HasFields(t) /\ t.medium = s.medium /\ t.memInfo = s.memInfo
      /\ t.usesLeft = left /\ t.assert = s.assert
  BY <1>1 DEF Restored, HasFields
<1>3. \A o : numberOfConsumers(o) \in Nat /\ numberOfConsumers(o) = Cardinality(ReadsAfter(o, 1, 0))
  BY ReadsOfAll, ReadsCount
<1>4. /\ left \in [Operand -> Nat]
      /\ \A o \in Operand : left[o] \in 0 .. numberOfConsumers(o)
      /\ \A o \in Temporary : left[o] = Cardinality(ReadsAfter(o, 1, 0))
  BY <1>3, ModelFacts
<1> HIDE DEF t, left
<1>5. Infos(t) = Infos(s)
  BY <1>2 DEF Infos
<1>6. MemOK(t)
  BY <1>2, <1>4, <1>5 DEF MemOK
<1>7. Free(s) => Free(t)
  BY <1>2 DEF Free
<1> QED BY <1>2, <1>4, <1>6, <1>7 DEF Counted, t

LEMMA BeginKeeps ==
  ASSUME prep \in Prepared, NEW s, MemOK(s)
  PROVE  LET t == SetArgs(ResetFromRequest(s)) IN
           /\ MemOK(t) /\ t.usesLeft = s.usesLeft
           /\ Free(s) => Free(t)
<1> DEFINE t == SetArgs(ResetFromRequest(s))
           m == ResetRef(s.medium)
           f == [o \in Operand |-> IF o \in Arguments THEN Request(o) ELSE s.memInfo[o]]
<1>0. /\ s.medium \in Seq(MediumInfo) /\ Len(s.medium) \in Nat
      /\ DOMAIN s.medium = 1 .. Len(s.medium)
      /\ s.memInfo \in [Operand -> Infos(s) \cup {Null}] /\ HasFields(s)
  BY DEF MemOK
<1>1. /\ HasFields(t) /\ t.medium = m /\ t.memInfo = f
      /\ t.usesLeft = s.usesLeft /\ t.assert = s.assert
  <2> DEFINE r == ResetFromRequest(s)
  <2>1. /\ HasFields(r) /\ r.medium = m /\ r.memInfo = s.memInfo
        /\ r.usesLeft = s.usesLeft /\ r.assert = s.assert
    <3>1. PICK x, y : r = [s EXCEPT !.ssbo = x, !.content = y, !.medium = ResetRef(@)]
      BY DEF ResetFromRequest
    <3>2. r = [s EXCEPT !.ssbo = x, !.content = y, !.medium = m]
      BY <1>0, <3>1 DEF HasFields
    <3> HIDE DEF r, m
    <3> QED BY <1>0, <3>2 DEF HasFields
  <2> HIDE DEF r, m
  <2>2. t = [r EXCEPT !.memInfo = f]
    BY <2>1 DEF SetArgs, HasFields, r
  <2> HIDE DEF t, f
  <2> QED BY <2>1, <2>2 DEF HasFields
<1>2. \A k \in DOMAIN s.medium :
        /\ m[k] \in MediumInfo /\ m[k].inUsing = s.medium[k].inUsing
        /\ m[k].userptr = s.medium[k].userptr
  <2> SUFFICES ASSUME NEW k \in DOMAIN s.medium
               PROVE  /\ m[k] \in MediumInfo /\ m[k].inUsing = s.medium[k].inUsing
                      /\ m[k].userptr = s.medium[k].userptr
    OBVIOUS
  <2>1. s.medium[k] \in MediumInfo
    BY <1>0
  <2>2. m[k] = [s.medium[k] EXCEPT !.refCount = 0]
    BY DEF ResetRef
  <2> HIDE DEF m
  <2> QED BY <2>1, <2>2 DEF MediumInfo
<1>3. /\ m \in Seq(MediumInfo) /\ Len(m) = Len(s.medium) /\ DOMAIN m = DOMAIN s.medium
  <2>1. m = [k \in 1 .. Len(s.medium) |-> m[k]]
    BY <1>0 DEF ResetRef
  <2> HIDE DEF m
  <2>2. \A k \in 1 .. Len(s.medium) : m[k] \in MediumInfo
    BY <1>0, <1>2
  <2>3. Len(s.medium) \in Nat /\ DOMAIN s.medium = 1 .. Len(s.medium)
    BY <1>0
  <2>4. m \in Seq(MediumInfo) /\ DOMAIN m = 1 .. Len(s.medium)
    BY <2>1, <2>2, <2>3
  <2>5. Len(m) = Len(s.medium)
    BY <2>1, <2>3
  <2> QED BY <2>3, <2>4, <2>5
<1>4. /\ f \in [Operand -> Infos(s) \cup {Null}]
      /\ \A o \in Temporary : f[o] = s.memInfo[o]
  <2>1. \A o \in Operand : Request(o) \in Infos(s)
    BY DEF Infos
  <2>2. \A o \in Temporary : o \in Operand /\ o \notin Arguments
    BY DEF Temporary, Arguments, Outputs, Of
  <2> QED BY <1>0, <2>1, <2>2
<1> HIDE DEF t, m, f
<1>5. Infos(t) = Infos(s)
  BY <1>1, <1>3 DEF Infos
<1>6. MemOK(t)
  BY <1>1, <1>3, <1>4, <1>5 DEF MemOK
<1>7. Free(s) => Free(t)
  BY <1>1, <1>2, <1>3, <1>4 DEF Free
<1> QED BY <1>1, <1>6, <1>7 DEF t

LEMMA FreeIsLent ==
  ASSUME NEW s, Free(s)
  PROVE  Needed(s) /\ Lent(s)
BY DEF Free, Needed, Lent

(* When no read is left, no buffer is lent.                                *)
LEMMA LentIsFree ==
  ASSUME prep \in Prepared, NEW s, MemOK(s), Counted(s, Len(Operations) + 1, 0),
         Needed(s), Lent(s)
  PROVE  Free(s)
<1>1. \A o \in Temporary : s.usesLeft[o] = 0
  BY ReadsOfAll DEF Counted
<1>2. \A o \in Temporary : s.memInfo[o] = Null
  BY <1>1 DEF Needed
<1>3. ASSUME NEW k \in DOMAIN s.medium, s.medium[k].inUsing, s.medium[k].userptr = Null
      PROVE  FALSE
  <2>1. s.medium[k].refCount \in 1 .. Cardinality(Holders(s, k))
    BY <1>3 DEF Lent
  <2>2. Null # Inter(k)
    BY ModelFacts DEF MemOK
  <2>3. Holders(s, k) = {}
    BY <1>2, <2>2 DEF Holders
  <2> QED BY <2>1, <2>3, FS_EmptySet
<1> QED BY <1>2, <1>3 DEF Free

-------------------------------------------------------------------------------
(* The inductive invariant.  While an execution goes on numberOfUsesLeft   *)
(* counts the reads to come, what holds a buffer is still to be read, and  *)
(* a buffer that is in use is held by somebody; between executions none is *)
(* in use.                                                                 *)
IInv ==
  /\ prep \in Prepared
  /\ next \in 0 .. Len(Operations) + 1
  /\ MemOK(mem)
  /\ \A o \in Operand : mem.usesLeft[o] \in 0 .. numberOfConsumers(o)
  /\ Ready /\ next > 0 => Counted(mem, next, 0)
  /\ Ready /\ ~failed /\ ~LosesBuffers =>
       IF next = 0 THEN Free(mem) ELSE Needed(mem) /\ Lent(mem)

LEMMA LengthOfModel ==
  ASSUME prep \in Prepared
  PROVE  /\ Len(Operations) \in Nat /\ DOMAIN Operations = 1 .. Len(Operations)
         /\ \A o : numberOfConsumers(o) \in Nat
<1>1. Operations \in Seq([type : STRING, inputs : Seq(Operand), output : Operand,
                             copies : Copies])
  BY ModelAssumption DEF Operations, Operand
<1> QED BY <1>1, ReadsOfAll, ReadsCount

LEMMA InitIInv == Init => IInv
<1> SUFFICES ASSUME Init PROVE IInv
  OBVIOUS
<1>1. prep \in Prepared /\ next = 0 /\ mem = Fresh
  BY DEF Init
<1>2. /\ HasFields(mem) /\ mem.medium = << >> /\ mem.assert = "none"
      /\ mem.memInfo = [o \in Operand |-> IF o \in Of("CONSTANT_REFERENCE") THEN InModel(o) ELSE Null]
      /\ mem.usesLeft = [o \in Operand |-> 0]
  BY <1>1 DEF Fresh, HasFields
<1>3. mem.memInfo \in [Operand -> Infos(mem) \cup {Null}]
  <2>1. \A o \in Operand : InModel(o) \in Infos(mem)
    BY DEF Infos
  <2> QED BY <1>2, <2>1
<1>4. MemOK(mem)
  BY <1>1, <1>2, <1>3, ModelFacts DEF MemOK, Asserts
<1>5. Free(mem)
  <2>1. \A o \in Temporary : o \in Operand /\ o \notin Of("CONSTANT_REFERENCE")
    BY DEF Temporary, Of
  <2> QED BY <1>2, <2>1 DEF Free
<1> QED BY <1>1, <1>2, <1>4, <1>5, LengthOfModel DEF IInv

(* The next state, when the model stays and the memory becomes u.          *)
LEMMA NextMemory ==
  ASSUME UNCHANGED prep, NEW u, mem' = u
  PROVE  /\ Operations' = Operations /\ Temporary' = Temporary /\ Operand' = Operand
         /\ LosesBuffers' <=> LosesBuffers
         /\ Ready' <=> u.assert = "none"
         /\ MemOK(mem)' <=> MemOK(u)
         /\ \A i : Counted(mem, i, 0)' <=> Counted(u, i, 0)
         /\ \A o : numberOfConsumers(o)' = numberOfConsumers(o)
         /\ Needed(mem)' <=> Needed(u)
         /\ Lent(mem)' <=> Lent(u)
         /\ Free(mem)' <=> Free(u)
<1>1. /\ Operations' = Operations /\ Temporary' = Temporary /\ Operand' = Operand
      /\ Outputs' = Outputs /\ Capacity' = Capacity /\ Reading' = Reading
  BY DEF Operations, Temporary, Outputs, Of, Operand, Capacity, Reading
<1>2. LosesBuffers' <=> LosesBuffers
  BY <1>1 DEF LosesBuffers
<1>3. MemOK(mem)' <=> MemOK(u)
  BY <1>1 DEF MemOK, HasFields, Infos, MediumInfo
<1>4. \A o, i : ReadsAfter(o, i, 0)' = ReadsAfter(o, i, 0)
  BY <1>1 DEF ReadsAfter
<1>5. \A i : Counted(mem, i, 0)' <=> Counted(u, i, 0)
  BY <1>1, <1>4 DEF Counted
<1>6. \A o : numberOfConsumers(o)' = numberOfConsumers(o)
  BY <1>1 DEF numberOfConsumers
<1>7. /\ Needed(mem)' <=> Needed(u)
      /\ Lent(mem)' <=> Lent(u)
      /\ Free(mem)' <=> Free(u)
  BY <1>1 DEF Needed, Lent, Free, Holders
<1> QED BY <1>1, <1>2, <1>3, <1>5, <1>6, <1>7 DEF Ready

LEMMA ExecuteIInv == IInv /\ Execute => IInv'
<1> SUFFICES ASSUME IInv, Execute PROVE IInv'
  OBVIOUS
<1> DEFINE r == Restored(mem)
           t == SetArgs(ResetFromRequest(r))
<1>1. /\ MemOK(r) /\ Counted(r, 1, 0)
      /\ \A o \in Operand : r.usesLeft[o] \in 0 .. numberOfConsumers(o)
      /\ Free(mem) => Free(r)
  BY RestoredKeeps DEF IInv
<1> HIDE DEF r
<1>2. MemOK(t) /\ t.usesLeft = r.usesLeft /\ (Free(r) => Free(t))
  BY <1>1, BeginKeeps DEF IInv
<1> HIDE DEF t
<1>3. /\ next' = 1 /\ UNCHANGED <<prep, failed>> /\ Ready /\ next = 0
      /\ mem' = t \/ mem' = Stops(r, "pools")
  BY DEF Execute, r, t
<1>4. PICK u : /\ mem' = u /\ MemOK(u)
               /\ \A o \in Operand : u.usesLeft[o] \in 0 .. numberOfConsumers(o)
               /\ u.assert = "none" => Counted(u, 1, 0) /\ (Free(mem) => Needed(u) /\ Lent(u))
  <2>1. CASE mem' = t
    BY <1>1, <1>2, <2>1, FreeIsLent DEF Counted
  <2>2. CASE mem' = Stops(r, "pools")
    BY <1>1, <2>2, StopsKeeps DEF Asserts
  <2> QED BY <1>3, <2>1, <2>2
<1>5. /\ Operations' = Operations /\ MemOK(mem)'
      /\ (\A o \in Operand : mem.usesLeft[o] \in 0 .. numberOfConsumers(o))'
      /\ Ready' => Counted(mem, 1, 0)'
      /\ (Ready /\ ~failed /\ ~LosesBuffers)' => (Needed(mem) /\ Lent(mem))'
  BY <1>3, <1>4, NextMemory DEF IInv
<1>6. prep' \in Prepared /\ next' \in 0 .. Len(Operations') + 1
  BY <1>3, <1>5, LengthOfModel DEF IInv
<1> QED BY <1>3, <1>5, <1>6 DEF IInv

LEMMA RunOperationIInv == IInv /\ RunOperation => IInv'
<1> SUFFICES ASSUME IInv, RunOperation PROVE IInv'
  OBVIOUS
<1>1. PICK u : u = Done(mem, Operations[next])
  OBVIOUS
<1>2. /\ next \in DOMAIN Operations /\ next' = next + 1 /\ UNCHANGED <<prep, failed>>
      /\ Ready /\ mem' = u
  BY <1>1 DEF RunOperation
<1>3. PICK i : i = next
  OBVIOUS
<1>4. /\ MemOK(u)
      /\ \A x \in Operand : u.usesLeft[x] <= mem.usesLeft[x]
      /\ u.assert = "none" =>
           /\ Counted(u, i + 1, 0)
           /\ ~LosesBuffers /\ Needed(mem) /\ Lent(mem) => Needed(u) /\ Lent(u)
  <2>1. Counted(mem, next, 0) /\ mem.assert = "none"
    BY <1>2, LengthOfModel DEF IInv, Ready
  <2> QED BY <1>1, <1>2, <1>3, <2>1, DoneKeeps DEF IInv
<1>5. \A o \in Operand : u.usesLeft[o] \in 0 .. numberOfConsumers(o)
  <2>1. \A o \in Operand : /\ u.usesLeft[o] \in Nat /\ numberOfConsumers(o) \in Nat
                           /\ mem.usesLeft[o] \in 0 .. numberOfConsumers(o)
    BY <1>4, LengthOfModel DEF IInv, MemOK
  <2> QED BY <1>4, <2>1
<1>6. i \in 1 .. Len(Operations) /\ next' = i + 1 /\ next = i
  BY <1>2, <1>3, LengthOfModel DEF IInv
<1>7. /\ Operations' = Operations /\ MemOK(mem)'
      /\ (\A o \in Operand : mem.usesLeft[o] \in 0 .. numberOfConsumers(o))'
      /\ Ready' => Counted(mem, i + 1, 0)'
      /\ (Ready /\ ~failed /\ ~LosesBuffers)' => (Needed(mem) /\ Lent(mem))'
  BY <1>2, <1>4, <1>5, <1>6, NextMemory DEF IInv
<1>8. prep' \in Prepared /\ next' \in 0 .. Len(Operations') + 1 /\ next' # 0
  BY <1>2, <1>6, <1>7, LengthOfModel DEF IInv
<1>9. (Ready /\ next > 0 => Counted(mem, next, 0))'
  BY <1>6, <1>7
<1> QED BY <1>7, <1>8, <1>9 DEF IInv

LEMMA OperationFailsIInv == IInv /\ OperationFails => IInv'
<1> SUFFICES ASSUME IInv, OperationFails PROVE IInv'
  OBVIOUS
<1>1. PICK u : u \in Failed(mem, Operations[next]) /\ mem' = u
  BY DEF OperationFails
<1>2. /\ next \in DOMAIN Operations /\ next' = 0 /\ prep' = prep /\ failed' = TRUE /\ Ready
  BY DEF OperationFails
<1>3. MemOK(u) /\ \A x \in Operand : u.usesLeft[x] <= mem.usesLeft[x]
  <2>1. Counted(mem, next, 0) /\ mem.assert = "none"
    BY <1>2, LengthOfModel DEF IInv, Ready
  <2> QED BY <1>1, <1>2, <2>1, FailedKeeps DEF IInv
<1>4. \A o \in Operand : u.usesLeft[o] \in 0 .. numberOfConsumers(o)
  <2>1. \A o \in Operand : /\ u.usesLeft[o] \in Nat /\ numberOfConsumers(o) \in Nat
                           /\ mem.usesLeft[o] \in 0 .. numberOfConsumers(o)
    BY <1>3, LengthOfModel DEF IInv, MemOK
  <2> QED BY <1>3, <2>1
<1>5. /\ Operations' = Operations /\ MemOK(mem)'
      /\ (\A o \in Operand : mem.usesLeft[o] \in 0 .. numberOfConsumers(o))'
  BY <1>1, <1>2, <1>3, <1>4, NextMemory DEF IInv
<1>6. prep' \in Prepared /\ next' \in 0 .. Len(Operations') + 1
  BY <1>2, <1>5, LengthOfModel DEF IInv
<1> QED BY <1>2, <1>5, <1>6 DEF IInv

LEMMA ExecutionEndsIInv == IInv /\ ExecutionEnds => IInv'
<1> SUFFICES ASSUME IInv, ExecutionEnds PROVE IInv'
  OBVIOUS
<1>1. PICK u : mem' = u /\ mem = u
  BY DEF ExecutionEnds
<1>2. /\ next = Len(Operations) + 1 /\ next' = 0 /\ UNCHANGED <<prep, failed>> /\ Ready
  BY DEF ExecutionEnds
<1>3. ~failed /\ ~LosesBuffers => Free(mem)
  <2>1. next # 0 /\ next > 0
    BY <1>2, LengthOfModel DEF IInv
  <2> QED BY <1>2, <2>1, LentIsFree DEF IInv
<1>4. /\ Operations' = Operations /\ MemOK(mem)'
      /\ (\A o \in Operand : mem.usesLeft[o] \in 0 .. numberOfConsumers(o))'
      /\ (Ready /\ ~failed /\ ~LosesBuffers)' => Free(mem)'
  BY <1>1, <1>2, <1>3, NextMemory DEF IInv
<1>5. prep' \in Prepared /\ next' \in 0 .. Len(Operations') + 1
  BY <1>2, <1>4, LengthOfModel DEF IInv
<1> QED BY <1>2, <1>4, <1>5 DEF IInv

LEMMA IInvHolds == Spec => []IInv
<1>1. IInv /\ [Next]_vars => IInv'
  <2> SUFFICES ASSUME IInv, [Next]_vars PROVE IInv'
    OBVIOUS
  <2>1. CASE UNCHANGED vars
    <3>1. PICK u : mem' = u /\ mem = u
      BY <2>1 DEF vars
    <3>2. UNCHANGED <<prep, next, failed>>
      BY <2>1 DEF vars
    <3>3. PICK i : i = next /\ i = next'
      BY <3>2
    <3> QED BY <3>1, <3>2, <3>3, NextMemory DEF IInv, Ready
  <2> QED
    BY <2>1, ExecuteIInv, RunOperationIInv, OperationFailsIInv, ExecutionEndsIInv DEF Next
<1> QED BY <1>1, InitIInv, PTL DEF Spec

(* Every variable keeps to its values; no more uses are left of an operand *)
(* than it has, and the pool never has more buffers than operands, so that *)
(* the infos that are pointed to stay where they are (createMemoryInfo).   *)
THEOREM ExecutorTypes == Spec => []TypeOK
<1>1. IInv => TypeOK
  <2> SUFFICES ASSUME IInv PROVE TypeOK
    OBVIOUS
  <2>1. /\ mem.medium \in Seq(MediumInfo) /\ Len(mem.medium) <= Capacity
        /\ DOMAIN mem.memInfo = Operand /\ mem.assert \in Asserts
    BY DEF IInv, MemOK
  <2>2. \A k \in DOMAIN mem.medium : mem.medium[k] \in MediumInfo
    BY <2>1
  <2>3. \A k \in DOMAIN mem.medium :
          /\ mem.medium[k].userptr \in Operand \cup {Null}
          /\ mem.medium[k].inUsing \in BOOLEAN /\ mem.medium[k].refCount \in Nat
    BY <2>2 DEF MediumInfo
  <2> QED BY <2>1, <2>3 DEF IInv, TypeOK, Asserts
<1> QED BY <1>1, IInvHolds, PTL

(* Between executions that were successful no buffer of the pool is in     *)
(* use, for any number of executions of a model in which no RESHAPE gives  *)
(* an output and, with Vulkan, no convolution has three channels:          *)
(* markOpFinished gives each back, though it may be shared and lent        *)
(* several times on the way.                                               *)
THEOREM BuffersReturn == Spec => []BuffersComeBack
<1>1. IInv => BuffersComeBack
  BY DEF IInv, BuffersComeBack, Free
<1> QED BY <1>1, IInvHolds, PTL


-------------------------------------------------------------------------------
(* Contents.                                                               *)

(* The value of an operand in the execution r. *)
ValueIn(o, r) == [of |-> Origin(prep)[o], run |-> IF o \in Constants(prep) THEN 0 ELSE r]

Given == Of("CONSTANT_COPY") \cup Of("CONSTANT_REFERENCE")
WrittenBy(i) == {Operations[j].output : j \in 1 .. i - 1}

Buffered(s, o) == s.memInfo[o] # Null /\ s.memInfo[o] \in DOMAIN s.ssbo

(* Every info but that of an output has a buffer of its own.               *)
Homes(s) ==
  /\ DOMAIN s.ssbo \subseteq Infos(s)
  /\ \A m \in DOMAIN s.ssbo :
       /\ s.ssbo[m] \in DOMAIN s.ssbo /\ s.ssbo[m] \in DOMAIN s.content
       /\ s.ssbo[m] = m \/ \E o \in Outputs : m = Request(o)

(* Constants have an info of their own, with a copy or in the model.       *)
GivenPlaces(s) ==
  /\ \A o \in Of("CONSTANT_REFERENCE") : s.memInfo[o] = InModel(o)
  /\ \A o \in Of("CONSTANT_COPY") : s.memInfo[o] # Null =>
       \E k \in DOMAIN s.medium : s.memInfo[o] = Inter(k) /\ s.medium[k].userptr = o

(* The operands of an execution in which those in W have been written.     *)
Places(s, W) ==
  /\ GivenPlaces(s)
  /\ \A o \in Arguments : s.memInfo[o] = Request(o)
  /\ \A o \in Outputs : Request(o) \in DOMAIN s.ssbo => o \in W
  /\ \A o \in Temporary : s.memInfo[o] # Null => o \in W /\ s.memInfo[o] \in DOMAIN s.ssbo
  /\ \A o \in W : /\ o \in Outputs => Request(o) \in DOMAIN s.ssbo
                  /\ o \in Temporary /\ s.usesLeft[o] > 0 => s.memInfo[o] # Null

(* The buffer of k is that of an output, too.                              *)
Lasting(s, k) == \E o \in Outputs : Request(o) \in DOMAIN s.ssbo /\ s.ssbo[Request(o)] = Inter(k)

(* A buffer is in use, and has a reference for each operand that holds it  *)
(* and one more if it has become that of an output.                        *)
Kept(s) ==
  \A k \in DOMAIN s.medium : s.medium[k].userptr = Null =>
    /\ Holders(s, k) # {} \/ Lasting(s, k) => s.medium[k].inUsing
    /\ s.medium[k].refCount >= Cardinality(Holders(s, k))
    /\ Lasting(s, k) => s.medium[k].refCount > Cardinality(Holders(s, k))

(* The buffers contain the values of their operands, but for those in X.   *)
Exact(s, X, r) ==
  \A o \in Operand \ X : Buffered(s, o) => s.content[BufferOf(s, o)] = ValueIn(o, r)

Sound(s, W, X, r) ==
  MemOK(s) /\ Homes(s) /\ Places(s, W) /\ Kept(s) /\ Exact(s, X, r)

Idle(s) ==
  /\ Homes(s) /\ GivenPlaces(s)
  /\ \A o \in Temporary : s.memInfo[o] = Null
  /\ \A o \in Given : Buffered(s, o) =>
       s.content[BufferOf(s, o)] = [of |-> o, run |-> 0] /\ BufferOf(s, o) \notin Deleted(s)
-------------------------------------------------------------------------------
(* The operands of a model, and where their values are from.               *)

LEMMA Lifetime ==
  ASSUME prep \in Prepared, NEW o \in Operand
  PROVE  /\ o \in Temporary \/ o \in Outputs \/ o \in Of("MODEL_INPUT") \/ o \in Given
         /\ o \in Arguments <=> o \in Outputs \/ o \in Of("MODEL_INPUT")
         /\ o \in Given => o \notin Temporary /\ o \notin Arguments
         /\ o \in Temporary => o \notin Arguments
         /\ o \in Of("MODEL_INPUT") => o \notin Outputs
<1>1. prep.lifetime[o] \in Lifetimes
  BY ModelAssumption DEF Operand
<1> QED BY <1>1 DEF Lifetimes, Temporary, Outputs, Arguments, Given, Of

LEMMA WrittenFacts ==
  ASSUME prep \in Prepared, NEW i \in DOMAIN Operations
  PROVE  /\ Operations[i].output \notin WrittenBy(i)
         /\ WrittenBy(i + 1) = WrittenBy(i) \cup {Operations[i].output}
         /\ WrittenBy(i) \subseteq Temporary \cup Outputs
         /\ \A n \in DOMAIN Operations[i].inputs :
              LET o == Operations[i].inputs[n] IN
                /\ o # Operations[i].output
                /\ o \in Of("MODEL_INPUT") \/ o \in Given \/ o \in WrittenBy(i)
<1>0. Len(Operations) \in Nat /\ DOMAIN Operations = 1 .. Len(Operations)
  BY LengthOfModel
<1>1. i \in 1 .. Len(Operations) /\ i \in Nat /\ WellFormed(prep)
  <2>1. WellFormed(prep)
    BY ModelAssumption
  <2> QED BY <1>0, <2>1
<1>2. /\ \A j \in DOMAIN Operations : Operations[j].output = Operations[i].output => j = i
      /\ \A o \in Range(Operations[i].inputs) :
           \/ prep.lifetime[o] \in {"MODEL_INPUT", "CONSTANT_COPY", "CONSTANT_REFERENCE"}
           \/ \E j \in 1 .. i - 1 : Operations[j].output = o
  BY <1>1 DEF WellFormed, Operations
<1>3. \A j \in DOMAIN Operations : Operations[j].output \in Temporary \cup Outputs
  BY OperationFacts
<1>4. 1 .. i - 1 \subseteq DOMAIN Operations /\ i \notin 1 .. i - 1
  BY <1>0, <1>1
<1>5. Operations[i].output \notin WrittenBy(i) /\ WrittenBy(i) \subseteq Temporary \cup Outputs
  BY <1>2, <1>3, <1>4 DEF WrittenBy
<1>6. WrittenBy(i + 1) = WrittenBy(i) \cup {Operations[i].output}
  <2>1. 1 .. i + 1 - 1 = (1 .. i - 1) \cup {i}
    BY <1>0, <1>1
  <2> QED BY <2>1 DEF WrittenBy
<1>7. ASSUME NEW n \in DOMAIN Operations[i].inputs, NEW o, o = Operations[i].inputs[n]
      PROVE  /\ o # Operations[i].output
             /\ o \in Of("MODEL_INPUT") \/ o \in Given \/ o \in WrittenBy(i)
  <2>1. o \in Operand /\ o \in Range(Operations[i].inputs)
    BY <1>7, OperationFacts DEF Range
  <2>2. o \in Of("MODEL_INPUT") \/ o \in Given \/ o \in WrittenBy(i)
    BY <1>2, <2>1 DEF Of, Given, WrittenBy
  <2>3. Operations[i].output \in Operand
    BY <1>3 DEF Temporary, Outputs, Of
  <2> QED BY <1>3, <1>5, <2>1, <2>2, <2>3, Lifetime
<1> QED BY <1>5, <1>6, <1>7

LEMMA AllWritten ==
  ASSUME prep \in Prepared
  PROVE  Outputs \subseteq WrittenBy(Len(Operations) + 1) /\ WrittenBy(1) = {}
<1>1. Len(Operations) \in Nat /\ DOMAIN Operations = 1 .. Len(Operations) /\ WellFormed(prep)
  BY LengthOfModel, ModelAssumption
<1>2. 1 .. Len(Operations) + 1 - 1 = DOMAIN Operations
  BY <1>1
<1> QED BY <1>1, <1>2 DEF WellFormed, WrittenBy, Outputs, Of, Operand, Operations

(* The equation that Origin is to solve has a solution: going from one     *)
(* operation to the next, only what that one writes gets another origin,   *)
(* and no earlier one has read it.                                         *)
ReshapedBy(o, m) == {i \in 1 .. m : Operations[i].output = o /\ Operations[i].type = "RESHAPE"}
Traces(f, m) ==
  f = [o \in Operand |-> IF ReshapedBy(o, m) = {} THEN o
                         ELSE f[Operations[Min(ReshapedBy(o, m))].inputs[1]]]

LEMMA OneReshape ==
  ASSUME prep \in Prepared, NEW m \in 0 .. Len(Operations), NEW o
  PROVE  /\ \A i \in ReshapedBy(o, m) : ReshapedBy(o, m) = {i} /\ Min(ReshapedBy(o, m)) = i
         /\ ReshapedBy(o, m) # {} => Min(ReshapedBy(o, m)) \in ReshapedBy(o, m)
<1>1. Len(Operations) \in Nat /\ DOMAIN Operations = 1 .. Len(Operations)
  BY LengthOfModel
<1>2. \A i, j \in ReshapedBy(o, m) : i = j
  <2>1. \A i, j \in DOMAIN Operations : Operations[j].output = Operations[i].output => j = i
    BY ModelAssumption DEF WellFormed, Operations
  <2> QED BY <1>1, <2>1 DEF ReshapedBy
<1>3. ReshapedBy(o, m) \in SUBSET Nat
  BY <1>1 DEF ReshapedBy
<1> QED BY <1>2, <1>3, MinIsLeast
LEMMA TraceExists ==
  ASSUME prep \in Prepared
  PROVE  \E f : Traces(f, Len(Operations))
<1> DEFINE last == Len(Operations)
           S == {m \in 0 .. last : \E f : Traces(f, m)}
<1>1. last \in Nat /\ DOMAIN Operations = 1 .. last
  BY LengthOfModel
<1>2. 0 \in S
  <2>1. \A o : ReshapedBy(o, 0) = {}
    BY DEF ReshapedBy
  <2>2. Traces([o \in Operand |-> o], 0)
    BY <2>1 DEF Traces
  <2> QED BY <1>1, <2>2
<1>3. ASSUME NEW m \in 0 .. last, m < last, m \in S PROVE m + 1 \in S
  <2>1. PICK f : Traces(f, m)
    BY <1>3
  <2>2. m + 1 \in DOMAIN Operations /\ m + 1 \in 0 .. last /\ m \in Nat
    BY <1>1, <1>3
  <2> DEFINE op == Operations[m + 1]
             to == op.output
             in == op.inputs[1]
             g  == [f EXCEPT ![to] = f[in]]
  <2>3. /\ to \in Operand /\ in \in Operand /\ in # to /\ to \notin WrittenBy(m + 1)
        /\ \A i \in 1 .. m : Operations[i].inputs[1] # to /\ Operations[i].inputs[1] \in Operand
    <3>1. /\ to \in Operand /\ in \in Operand /\ in # to /\ to \notin WrittenBy(m + 1)
      BY <2>2, OperationFacts, WrittenFacts DEF Temporary, Outputs, Of
    <3>2. ASSUME NEW i \in 1 .. m
          PROVE  Operations[i].inputs[1] # to /\ Operations[i].inputs[1] \in Operand
      <4>1. i \in DOMAIN Operations /\ WrittenBy(i) \subseteq WrittenBy(m + 1)
        <5>1. 1 .. i - 1 \subseteq 1 .. m + 1 - 1
          BY <2>2
        <5> QED BY <1>1, <1>3, <5>1 DEF WrittenBy
      <4>2. 1 \in DOMAIN Operations[i].inputs /\ Operations[i].inputs[1] \in Operand
        BY <4>1, OperationFacts
      <4>3. \/ Operations[i].inputs[1] \in Of("MODEL_INPUT") \/ Operations[i].inputs[1] \in Given
            \/ Operations[i].inputs[1] \in WrittenBy(i)
        BY <4>1, <4>2, WrittenFacts
      <4>4. to \in Temporary \cup Outputs
        BY <2>2, OperationFacts
      <4> QED BY <3>1, <4>1, <4>2, <4>3, <4>4, Lifetime
    <3> QED BY <3>1, <3>2
  <2>4. \A o : o # to => ReshapedBy(o, m + 1) = ReshapedBy(o, m)
    <3>1. 1 .. m + 1 = (1 .. m) \cup {m + 1}
      BY <2>2
    <3> QED BY <3>1 DEF ReshapedBy
  <2>5. ReshapedBy(to, m) = {}
    <3>1. 1 .. m + 1 - 1 = 1 .. m
      BY <2>2
    <3> QED BY <2>3, <3>1 DEF ReshapedBy, WrittenBy
  <2>6. /\ DOMAIN f = Operand
        /\ \A o \in Operand : f[o] = IF ReshapedBy(o, m) = {} THEN o
                                     ELSE f[Operations[Min(ReshapedBy(o, m))].inputs[1]]
    BY <2>1 DEF Traces
  <2>7. CASE op.type # "RESHAPE"
    <3>1. \A o : ReshapedBy(o, m + 1) = ReshapedBy(o, m)
      <4>1. m + 1 \notin ReshapedBy(to, m + 1)
        BY <2>7 DEF ReshapedBy
      <4>2. 1 .. m + 1 = (1 .. m) \cup {m + 1}
        BY <2>2
      <4> QED BY <2>4, <4>1, <4>2 DEF ReshapedBy
    <3>2. Traces(f, m + 1)
      BY <2>1, <3>1 DEF Traces
    <3> QED BY <2>2, <3>2
  <2>8. CASE op.type = "RESHAPE"
    <3>1. m + 1 \in ReshapedBy(to, m + 1)
      BY <2>2, <2>8 DEF ReshapedBy
    <3>2. ReshapedBy(to, m + 1) # {} /\ Min(ReshapedBy(to, m + 1)) = m + 1
      BY <2>2, <3>1, OneReshape
    <3> HIDE DEF to, in
    <3>3. DOMAIN g = Operand /\ g[to] = f[in] /\ \A o \in Operand : o # to => g[o] = f[o]
      BY <2>3, <2>6
    <3> HIDE DEF g
    <3>4. ASSUME NEW o \in Operand
          PROVE  g[o] = IF ReshapedBy(o, m + 1) = {} THEN o
                        ELSE g[Operations[Min(ReshapedBy(o, m + 1))].inputs[1]]
      <4>1. CASE o = to
        BY <2>3, <3>2, <3>3, <4>1 DEF in
      <4>2. CASE o # to
        <5>1. ReshapedBy(o, m + 1) = ReshapedBy(o, m) /\ g[o] = f[o]
          BY <2>4, <3>3, <4>2
        <5>2. CASE ReshapedBy(o, m) = {}
          BY <2>6, <5>1, <5>2
        <5>3. CASE ReshapedBy(o, m) # {}
          <6>1. Min(ReshapedBy(o, m)) \in 1 .. m
            <7>1. Min(ReshapedBy(o, m)) \in ReshapedBy(o, m)
              BY <1>3, <5>3, OneReshape
            <7> QED BY <7>1 DEF ReshapedBy
          <6>2. g[Operations[Min(ReshapedBy(o, m))].inputs[1]]
                  = f[Operations[Min(ReshapedBy(o, m))].inputs[1]]
            BY <2>3, <3>3, <6>1
          <6> QED BY <2>6, <5>1, <5>3, <6>2
        <5> QED BY <5>2, <5>3
      <4> QED BY <4>1, <4>2
    <3>5. Traces(g, m + 1)
      <4>1. g = [o \in Operand |-> g[o]]
        BY <3>3 DEF g
      <4> QED BY <3>4, <4>1 DEF Traces
    <3> QED BY <2>2, <3>5
  <2> QED BY <2>7, <2>8
<1>4. \A m \in 0 .. last : m \in S
  <2> HIDE DEF S, last
  <2> QED BY <1>1, <1>2, <1>3, UpTo
<1> QED BY <1>1, <1>4

LEMMA OriginFacts ==
  ASSUME prep \in Prepared
  PROVE  /\ \A o \in Operand : o \notin WrittenBy(Len(Operations) + 1) => Origin(prep)[o] = o
         /\ \A i \in DOMAIN Operations : Operations[i].type = "RESHAPE" =>
              Origin(prep)[Operations[i].output] = Origin(prep)[Operations[i].inputs[1]]
<1> DEFINE last == Len(Operations)
           g == Origin(prep)
<1>1. last \in Nat /\ DOMAIN Operations = 1 .. last
  BY LengthOfModel
<1>2. \A o : Reshapes(prep, o) = ReshapedBy(o, last)
  BY <1>1 DEF Reshapes, ReshapedBy, Operations
<1> DEFINE origin == CHOOSE f : Traces(f, last)
<1>3. Traces(origin, last)
  BY TraceExists
<1>4. Traces(g, last)
  <2> HIDE DEF last
  <2>1. \A f : Traces(f, last) <=>
          f = [o \in DOMAIN prep.lifetime |->
                 IF Reshapes(prep, o) = {} THEN o
                 ELSE f[prep.operations[Min(Reshapes(prep, o))].inputs[1]]]
    BY <1>2, Zenon DEF Traces, Operand, Operations
  <2> DEFINE solution == CHOOSE f : f = [o \in DOMAIN prep.lifetime |->
                                          IF Reshapes(prep, o) = {} THEN o
                                          ELSE f[prep.operations[Min(Reshapes(prep, o))].inputs[1]]]
  <2>2. g = solution
    BY DEF Origin
  <2>3. Traces(solution, last)
    <3>1. \E f : f = [o \in DOMAIN prep.lifetime |->
                     IF Reshapes(prep, o) = {} THEN o
                     ELSE f[prep.operations[Min(Reshapes(prep, o))].inputs[1]]]
      BY <1>3, <2>1, Zenon
    <3>2. solution = [o \in DOMAIN prep.lifetime |->
                        IF Reshapes(prep, o) = {} THEN o
                        ELSE solution[prep.operations[Min(Reshapes(prep, o))].inputs[1]]]
      BY <3>1, Zenon
    <3> HIDE DEF solution
    <3> QED BY <2>1, <3>2
  <2> QED BY <2>2, <2>3
<1> HIDE DEF g
<1>5. \A o \in Operand : g[o] = IF ReshapedBy(o, last) = {} THEN o
                                ELSE g[Operations[Min(ReshapedBy(o, last))].inputs[1]]
  BY <1>4 DEF Traces
<1>6. ASSUME NEW o \in Operand, o \notin WrittenBy(last + 1) PROVE g[o] = o
  <2>1. 1 .. last + 1 - 1 = 1 .. last
    BY <1>1
  <2>2. ReshapedBy(o, last) = {}
    BY <1>6, <2>1 DEF ReshapedBy, WrittenBy
  <2> QED BY <1>5, <2>2
<1>7. ASSUME NEW i \in DOMAIN Operations, Operations[i].type = "RESHAPE"
      PROVE  g[Operations[i].output] = g[Operations[i].inputs[1]]
  <2>1. i \in ReshapedBy(Operations[i].output, last)
    BY <1>1, <1>7 DEF ReshapedBy
  <2>2. Min(ReshapedBy(Operations[i].output, last)) = i
    BY <1>1, <2>1, OneReshape
  <2>3. Operations[i].output \in Operand
    BY OperationFacts DEF Temporary, Outputs, Of
  <2> QED BY <1>5, <2>1, <2>2, <2>3
<1> QED BY <1>6, <1>7 DEF g
LEMMA ValueFacts ==
  ASSUME prep \in Prepared
  PROVE  /\ \A o, r : o \in Given => ValueIn(o, r) = [of |-> o, run |-> 0]
         /\ \A o, r : o \in Arguments /\ KeepsConstants(prep) /\ prep.backend = "gles" =>
              ValueIn(o, r).run = r
         /\ \A i \in DOMAIN Operations : \A r : Operations[i].type = "RESHAPE" =>
              ValueIn(Operations[i].output, r) = ValueIn(Operations[i].inputs[1], r)
         /\ \A o : Value(o) = ValueIn(o, runs)
<1>1. Len(Operations) \in Nat /\ DOMAIN Operations = 1 .. Len(Operations)
  BY LengthOfModel
<1>2. WrittenBy(Len(Operations) + 1) \subseteq Temporary \cup Outputs
  <2>1. 1 .. Len(Operations) + 1 - 1 = DOMAIN Operations
    BY <1>1
  <2>2. \A i \in DOMAIN Operations : Operations[i].output \in Temporary \cup Outputs
    BY OperationFacts
  <2> QED BY <2>1, <2>2 DEF WrittenBy
<1>3. ASSUME NEW o \in Operand, o \notin Temporary, o \notin Outputs
      PROVE  Origin(prep)[o] = o /\ (o \in Constants(prep) <=> o \in Given)
  <2>1. Origin(prep)[o] = o
    BY <1>2, <1>3, OriginFacts
  <2> QED BY <2>1 DEF Constants, Given, Of, Operand
<1>4. ASSUME NEW o, NEW r, o \in Given PROVE ValueIn(o, r) = [of |-> o, run |-> 0]
  <2>1. o \in Operand
    BY <1>4 DEF Given, Of
  <2>2. o \notin Temporary /\ o \notin Outputs
    BY <1>4, <2>1, Lifetime
  <2> QED BY <1>3, <1>4, <2>1, <2>2 DEF ValueIn
<1>5. ASSUME NEW o, NEW r, o \in Arguments, KeepsConstants(prep), prep.backend = "gles"
      PROVE  ValueIn(o, r).run = r
  <2>1. o \in Operand
    BY <1>5 DEF Arguments, Outputs, Of
  <2>2. o \notin Constants(prep)
    <3>1. CASE o \in Outputs
      BY <1>5, <3>1 DEF KeepsConstants, Outputs, Of
    <3>2. CASE o \notin Outputs
      BY <1>3, <1>5, <2>1, <3>2, Lifetime
    <3> QED BY <3>1, <3>2
  <2> QED BY <2>2 DEF ValueIn
<1>6. ASSUME NEW i \in DOMAIN Operations, NEW r, Operations[i].type = "RESHAPE"
      PROVE  ValueIn(Operations[i].output, r) = ValueIn(Operations[i].inputs[1], r)
  <2>1. Operations[i].output \in Operand /\ Operations[i].inputs[1] \in Operand
    BY OperationFacts DEF Temporary, Outputs, Of
  <2>2. Origin(prep)[Operations[i].output] = Origin(prep)[Operations[i].inputs[1]]
    BY <1>6, OriginFacts
  <2> HIDE DEF Operations
  <2> QED BY <2>1, <2>2 DEF ValueIn, Constants, Operand
<1>7. \A o : Value(o) = ValueIn(o, runs)
  BY DEF Value, ValueIn
<1> QED BY <1>4, <1>5, <1>6, <1>7

-------------------------------------------------------------------------------
(* Making a buffer.                                                        *)

LEMMA WithFacts ==
  ASSUME NEW f, NEW x, NEW v, NEW g, g = With(f, x, v)
  PROVE  /\ DOMAIN g = DOMAIN f \cup {x} /\ g[x] = v
         /\ \A y \in DOMAIN f : y # x => g[y] = f[y]
BY DEF With

LEMMA BufferMade ==
  ASSUME NEW s, HasFields(s), NEW m, m \notin DOMAIN s.ssbo, NEW t, t = MakeBuffer(s, m)
  PROVE  /\ DOMAIN t.ssbo = DOMAIN s.ssbo \cup {m} /\ t.ssbo[m] = m
         /\ \A x \in DOMAIN s.ssbo : t.ssbo[x] = s.ssbo[x]
         /\ DOMAIN t.content = DOMAIN s.content \cup {m}
         /\ t.content[m] = Initial(s, m)
         /\ \A b \in DOMAIN s.content : b # m => t.content[b] = s.content[b]
<1>1. PICK v : v = Initial(s, m)
  OBVIOUS
<1>2. PICK x : x = With(s.ssbo, m, m)
  OBVIOUS
<1>21. PICK c : c = With(s.content, m, v)
  OBVIOUS
<1>3. t = [s EXCEPT !.ssbo = x, !.content = c]
  BY <1>1, <1>2, <1>21 DEF MakeBuffer
<1>4. t.ssbo = x /\ t.content = c
  BY <1>3 DEF HasFields
<1>5. /\ DOMAIN x = DOMAIN s.ssbo \cup {m} /\ x[m] = m
      /\ \A y \in DOMAIN s.ssbo : y # m => x[y] = s.ssbo[y]
  BY <1>2 DEF With
<1>6. /\ DOMAIN c = DOMAIN s.content \cup {m} /\ c[m] = v
      /\ \A y \in DOMAIN s.content : y # m => c[y] = s.content[y]
  BY <1>21 DEF With
<1> QED BY <1>1, <1>4, <1>5, <1>6

(* The infos of different kinds, and of different operands, are different. *)
LEMMA InfosDiffer ==
  /\ \A o, p : Request(o) = Request(p) => o = p
  /\ \A o, p : InModel(o) = InModel(p) => o = p
  /\ \A j, k : Inter(j) = Inter(k) => j = k
  /\ \A o, p : Request(o) # InModel(p)
  /\ \A o, k : Request(o) # Inter(k) /\ InModel(o) # Inter(k)
BY DEF Request, InModel, Inter

LEMMA NotNull ==
  ASSUME prep \in Prepared, NEW s, MemOK(s)
  PROVE  /\ \A m \in Infos(s) : m # Null
         /\ \A o \in Operand : Request(o) # Null /\ InModel(o) # Null
         /\ \A k \in DOMAIN s.medium : Inter(k) # Null /\ k \in Nat
<1>1. \A o \in Operand : Request(o) # Null /\ InModel(o) # Null
  BY NullAssumption DEF Operand
<1>2. \A k \in DOMAIN s.medium : Inter(k) # Null /\ k \in Nat
  BY ModelFacts DEF MemOK
<1> QED BY <1>1, <1>2 DEF Infos

(* An operand that is not a temporary has an info of its own, so the info  *)
(* of an operand without a buffer is not that of another one.              *)
Alone(s, o) == \A p \in Operand : p # o => s.memInfo[p] # s.memInfo[o]

LEMMA UnbufferedAlone ==
  ASSUME prep \in Prepared, NEW s, NEW W, MemOK(s), Places(s, W), NEW o \in Operand,
         s.memInfo[o] # Null, ~Buffered(s, o)
  PROVE  Alone(s, o)
<1> SUFFICES ASSUME NEW p \in Operand, p # o, s.memInfo[p] = s.memInfo[o] PROVE FALSE
  BY DEF Alone
<1>1. o \notin Temporary /\ p \notin Temporary
  BY DEF Places, Buffered
<1>2. \A q \in {o, p} : \/ s.memInfo[q] = Request(q)
                        \/ s.memInfo[q] = InModel(q)
                        \/ \E k : s.memInfo[q] = Inter(k) /\ s.medium[k].userptr = q
  <2> SUFFICES ASSUME NEW q \in Operand, q \notin Temporary, s.memInfo[q] # Null
               PROVE  \/ s.memInfo[q] = Request(q)
                      \/ s.memInfo[q] = InModel(q)
                      \/ \E k : s.memInfo[q] = Inter(k) /\ s.medium[k].userptr = q
    BY <1>1
  <2> QED BY Lifetime DEF Places, GivenPlaces, Given
<1> QED BY <1>2, InfosDiffer
LEMMA KeptAlike ==
  ASSUME NEW s, NEW t, Kept(s), t.medium = s.medium, t.memInfo = s.memInfo,
         \A k \in DOMAIN s.medium : Lasting(t, k) => Lasting(s, k)
  PROVE  Kept(t)
<1>1. \A k : Holders(t, k) = Holders(s, k)
  BY DEF Holders
<1> QED BY <1>1 DEF Kept

(* The operand o, which has an info without a buffer, gets one.            *)
Made(s, t, o, r) ==
  LET m == s.memInfo[o] IN
    /\ MemOK(t) /\ Homes(t) /\ Kept(t) /\ Exact(t, {o}, r)
    /\ t.medium = s.medium /\ t.memInfo = s.memInfo
    /\ t.usesLeft = s.usesLeft /\ t.assert = s.assert
    /\ DOMAIN t.ssbo = DOMAIN s.ssbo \cup {m} /\ t.ssbo[m] = m
    /\ \A x \in DOMAIN s.ssbo : t.ssbo[x] = s.ssbo[x]
    /\ t.content[m] = Initial(s, m)

LEMMA MadeFor ==
  ASSUME prep \in Prepared, NEW s, MemOK(s), Homes(s), Kept(s), NEW o \in Operand,
         s.memInfo[o] \in Infos(s), s.memInfo[o] \notin DOMAIN s.ssbo, Alone(s, o),
         NEW r, Exact(s, {o}, r), NEW t, t = MakeBuffer(s, s.memInfo[o])
  PROVE  Made(s, t, o, r)
<1> DEFINE m == s.memInfo[o]
<1>1. /\ DOMAIN t.ssbo = DOMAIN s.ssbo \cup {m} /\ t.ssbo[m] = m
      /\ \A x \in DOMAIN s.ssbo : t.ssbo[x] = s.ssbo[x]
      /\ DOMAIN t.content = DOMAIN s.content \cup {m}
      /\ t.content[m] = Initial(s, m)
      /\ \A b \in DOMAIN s.content : b # m => t.content[b] = s.content[b]
  BY BufferMade DEF MemOK
<1>2. /\ Alike(s, t) /\ MemOK(t) /\ Infos(t) = Infos(s)
  BY MakeBufferKeeps, AlikeKeeps DEF MemOK
<1>3. /\ t.medium = s.medium /\ t.memInfo = s.memInfo
      /\ t.usesLeft = s.usesLeft /\ t.assert = s.assert
  BY <1>2 DEF Alike
<1> HIDE DEF m
<1>4. m \in Infos(s) /\ m \notin DOMAIN s.ssbo
  BY DEF m
<1>5. Homes(t)
  BY <1>1, <1>2, <1>4 DEF Homes
<1>6. Kept(t)
  <2>1. ASSUME NEW k, Lasting(t, k) PROVE Lasting(s, k)
    <3>1. PICK x \in Outputs : Request(x) \in DOMAIN t.ssbo /\ t.ssbo[Request(x)] = Inter(k)
      BY <2>1 DEF Lasting
    <3>2. Request(x) # m
      BY <1>1, <3>1, InfosDiffer
    <3> QED BY <1>1, <3>1, <3>2 DEF Lasting
  <2> QED BY <1>3, <2>1, KeptAlike
<1>7. ASSUME NEW p \in Operand, p # o, Buffered(t, p)
      PROVE  t.content[BufferOf(t, p)] = ValueIn(p, r)
  <2>1. t.memInfo[p] # m /\ Buffered(s, p)
    BY <1>1, <1>3, <1>7 DEF Alone, Buffered, m
  <2>2. BufferOf(t, p) = BufferOf(s, p) /\ BufferOf(s, p) \in DOMAIN s.ssbo
        /\ BufferOf(s, p) \in DOMAIN s.content
    BY <1>1, <1>3, <2>1 DEF BufferOf, Buffered, Homes
  <2>3. s.content[BufferOf(s, p)] = ValueIn(p, r)
    BY <1>7, <2>1 DEF Exact
  <2> QED BY <1>1, <1>4, <2>2, <2>3
<1>8. Exact(t, {o}, r)
  BY <1>7 DEF Exact
<1> QED BY <1>1, <1>2, <1>3, <1>5, <1>6, <1>8 DEF Made, m

(* An info of the pool that can be taken: nobody has it, nor its buffer.   *)
LEMMA NobodyHas ==
  ASSUME prep \in Prepared, NEW s, NEW W, NEW r, Sound(s, W, {}, r), NEW k, Inter(k) # Null,
         k \in DOMAIN s.medium => s.medium[k].userptr = Null /\ ~s.medium[k].inUsing
  PROVE  /\ Holders(s, k) = {} /\ ~Lasting(s, k)
         /\ \A c \in Operand : s.memInfo[c] # Inter(k)
         /\ k \notin DOMAIN s.medium => Inter(k) \notin Infos(s)
         /\ \A m \in DOMAIN s.ssbo : m # Inter(k) => s.ssbo[m] # Inter(k)
<1>0. /\ MemOK(s) /\ Homes(s) /\ Places(s, W) /\ GivenPlaces(s) /\ Kept(s)
  BY DEF Sound, Places
<1>1. k \notin DOMAIN s.medium => Inter(k) \notin Infos(s)
  BY InfosDiffer DEF Infos
<1>2. Holders(s, k) = {} /\ ~Lasting(s, k)
  <2>1. CASE k \in DOMAIN s.medium
    BY <1>0, <2>1 DEF Kept
  <2>2. CASE k \notin DOMAIN s.medium
    <3>1. Holders(s, k) = {}
      BY <1>0, <1>1, <2>2, ModelFacts DEF Holders, MemOK
    <3>2. ~Lasting(s, k)
      BY <1>0, <1>1, <2>2 DEF Lasting, Homes
    <3> QED BY <3>1, <3>2
  <2> QED BY <2>1, <2>2
<1>3. ASSUME NEW c \in Operand, s.memInfo[c] = Inter(k) PROVE FALSE
  <2>1. c \notin Temporary
    BY <1>2, <1>3 DEF Holders
  <2>2. Inter(k) \in Infos(s) /\ k \in DOMAIN s.medium
    BY <1>0, <1>1, <1>3 DEF MemOK
  <2>3. c \in Of("CONSTANT_COPY")
    BY <1>0, <1>3, <2>1, Lifetime, InfosDiffer DEF Places, GivenPlaces, Given
  <2>4. s.medium[k].userptr = c
    BY <1>0, <1>3, <2>3, InfosDiffer DEF GivenPlaces
  <2> QED BY <2>2, <2>4, ModelFacts
<1>4. ASSUME NEW m \in DOMAIN s.ssbo, m # Inter(k), s.ssbo[m] = Inter(k) PROVE FALSE
  <2>1. PICK x \in Outputs : m = Request(x)
    BY <1>0, <1>4 DEF Homes
  <2> QED BY <1>2, <1>4, <2>1 DEF Lasting
<1> QED BY <1>1, <1>2, <1>3, <1>4

(* An intermediate info is taken by an operand.                            *)
LEMMA TakenSound ==
  ASSUME prep \in Prepared, NEW s, NEW W, NEW r, Sound(s, W, {}, r), NEW o \in Operand,
         s.memInfo[o] = Null, NEW data, data = Null \/ (data = o /\ o \in Of("CONSTANT_COPY")),
         data = Null => o \in Temporary,
         NEW t, NEW k, Takes(s, t, o, k, data)
  PROVE  /\ MemOK(t) /\ Homes(t) /\ Kept(t) /\ Exact(t, {o}, r) /\ GivenPlaces(t)
         /\ Alone(t, o) /\ Inter(k) \in Infos(t)
         /\ k \notin DOMAIN s.medium => Inter(k) \notin DOMAIN t.ssbo
         /\ \A m \in DOMAIN s.ssbo : m # Inter(k) => s.ssbo[m] # Inter(k)
<1>0. /\ MemOK(s) /\ Homes(s) /\ Places(s, W) /\ GivenPlaces(s) /\ Kept(s) /\ Exact(s, {}, r)
      /\ MemOK(t)
  BY DEF Sound, Places, Takes
<1>1. /\ k \in DOMAIN t.medium /\ Inter(k) \in Infos(t) /\ Infos(s) \subseteq Infos(t)
      /\ DOMAIN s.medium \subseteq DOMAIN t.medium
  BY DEF Takes, Infos
<1>2. /\ \A x \in Operand : x # o => t.memInfo[x] = s.memInfo[x]
      /\ t.memInfo[o] = Inter(k) /\ t.ssbo = s.ssbo /\ t.content = s.content
      /\ \A j \in DOMAIN s.medium : j # k => t.medium[j] = s.medium[j]
  BY DEF Takes
<1>3. /\ \A j \in DOMAIN t.medium : Inter(j) # Null
      /\ \A c \in Operand : c # Null
  BY <1>0, NotNull, ModelFacts
<1>4. k \notin DOMAIN s.medium => Inter(k) \notin Infos(s)
  BY InfosDiffer DEF Infos
<1>5. /\ Holders(s, k) = {} /\ ~Lasting(s, k)
      /\ \A c \in Operand : s.memInfo[c] # Inter(k)
      /\ \A m \in DOMAIN s.ssbo : m # Inter(k) => s.ssbo[m] # Inter(k)
  <2>1. k \in DOMAIN s.medium => s.medium[k].userptr = Null /\ ~s.medium[k].inUsing
    BY DEF Takes
  <2> QED BY <1>1, <1>3, <2>1, NobodyHas
<1>6. Homes(t)
  BY <1>0, <1>1, <1>2 DEF Homes
<1>8. Alone(t, o)
  BY <1>2, <1>5 DEF Alone
<1>9. GivenPlaces(t)
  <2>1. ASSUME NEW c \in Of("CONSTANT_REFERENCE") PROVE t.memInfo[c] = InModel(c)
    <3>1. c \in Operand /\ s.memInfo[c] = InModel(c)
      BY <1>0 DEF GivenPlaces, Of
    <3>2. c # o
      BY <1>0, <3>1, NotNull
    <3> QED BY <1>2, <3>1, <3>2
  <2>2. ASSUME NEW c \in Of("CONSTANT_COPY"), t.memInfo[c] # Null
        PROVE  \E j \in DOMAIN t.medium : t.memInfo[c] = Inter(j) /\ t.medium[j].userptr = c
    <3>0. c \in Operand
      BY DEF Of
    <3>1. CASE c = o
      <4>1. data = o
        BY <3>0, <3>1, Lifetime DEF Given
      <4>2. t.medium[k].userptr = c
        BY <3>1, <4>1 DEF Takes
      <4> QED BY <1>1, <1>2, <3>1, <4>2
    <3>2. CASE c # o
      <4>1. PICK j \in DOMAIN s.medium : s.memInfo[c] = Inter(j) /\ s.medium[j].userptr = c
        BY <1>0, <1>2, <2>2, <3>0, <3>2 DEF GivenPlaces
      <4>2. j # k
        BY <1>5, <3>0, <4>1
      <4> QED BY <1>1, <1>2, <3>0, <3>2, <4>1, <4>2
    <3> QED BY <3>1, <3>2
  <2> QED BY <2>1, <2>2 DEF GivenPlaces
<1>10. Kept(t)
  <2> SUFFICES ASSUME NEW j \in DOMAIN t.medium, t.medium[j].userptr = Null
               PROVE  /\ Holders(t, j) # {} \/ Lasting(t, j) => t.medium[j].inUsing
                      /\ t.medium[j].refCount >= Cardinality(Holders(t, j))
                      /\ Lasting(t, j) => t.medium[j].refCount > Cardinality(Holders(t, j))
    BY DEF Kept
  <2>1. Lasting(t, j) <=> Lasting(s, j)
    BY <1>2 DEF Lasting
  <2>2. CASE j = k
    <3>1. /\ t.medium[j].inUsing /\ t.medium[j].refCount = 1 /\ ~Lasting(t, j)
      BY <1>5, <2>1, <2>2 DEF Takes
    <3>2. Holders(t, j) = {o} \/ Holders(t, j) = {}
      BY <1>2, <1>5, <2>2, ModelFacts DEF Holders
    <3>3. Cardinality(Holders(t, j)) \in {0, 1}
      BY <3>2, FS_EmptySet, FS_Singleton
    <3> QED BY <3>1, <3>3
  <2>3. CASE j # k
    <3>1. j \in DOMAIN s.medium /\ t.medium[j] = s.medium[j]
      BY <2>3 DEF Takes
    <3>2. Holders(t, j) = Holders(s, j)
      BY <1>2, <1>3, <2>3, ModelFacts, InfosDiffer DEF Holders
    <3> QED BY <1>0, <2>1, <3>1, <3>2 DEF Kept
  <2> QED BY <2>2, <2>3
<1>11. Exact(t, {o}, r)
  BY <1>0, <1>2 DEF Exact, Buffered, BufferOf
<1>12. k \notin DOMAIN s.medium => Inter(k) \notin DOMAIN t.ssbo
  BY <1>0, <1>2, <1>4 DEF Homes
<1> QED BY <1>0, <1>1, <1>5, <1>6, <1>8, <1>9, <1>10, <1>11, <1>12
(* What the buffer of an input or of a constant contains at first is its   *)
(* value.                                                                  *)
LEMMA MadeSound ==
  ASSUME prep \in Prepared, NEW s, MemOK(s), Homes(s), Kept(s), NEW W, Places(s, W),
         NEW o \in Operand, o \notin Temporary, o \notin Outputs, Exact(s, {o}, runs),
         s.memInfo[o] # Null, s.memInfo[o] \notin DOMAIN s.ssbo, Alone(s, o),
         NEW t, t = MakeBuffer(s, s.memInfo[o])
  PROVE  /\ Sound(t, W, {}, runs) /\ Buffered(t, o) /\ t.usesLeft = s.usesLeft
         /\ \A p \in Operand : Buffered(s, p) => Buffered(t, p)
<1> DEFINE m == s.memInfo[o]
<1>1. m \in Infos(s)
  BY DEF MemOK
<1>2. Made(s, t, o, runs)
  BY <1>1, MadeFor
<1> HIDE DEF m
<1>3. /\ MemOK(t) /\ Homes(t) /\ Kept(t) /\ Exact(t, {o}, runs)
      /\ t.medium = s.medium /\ t.memInfo = s.memInfo /\ t.usesLeft = s.usesLeft
      /\ DOMAIN t.ssbo = DOMAIN s.ssbo \cup {m} /\ t.ssbo[m] = m
      /\ t.content[m] = Initial(s, m)
  BY <1>2 DEF Made, m
<1>4. Initial(s, m) = ValueIn(o, runs)
  <2>1. \/ o \in Of("MODEL_INPUT") /\ m = Request(o)
        \/ o \in Of("CONSTANT_REFERENCE") /\ m = InModel(o)
        \/ \E k \in DOMAIN s.medium : m = Inter(k) /\ s.medium[k].userptr = o
    BY Lifetime DEF Places, GivenPlaces, Given, Arguments, m
  <2>2. o # Null
    BY ModelFacts
  <2>3. Initial(s, m) = Value(o)
    BY <2>1, <2>2 DEF Initial, Request, InModel, Inter
  <2> QED BY <2>3, ValueFacts
<1>5. ASSUME NEW x \in Outputs PROVE Request(x) # m
  <2>1. x \in Operand /\ s.memInfo[x] = Request(x)
    BY DEF Places, Arguments, Outputs, Of
  <2> QED BY <2>1 DEF Alone, m
<1>6. Places(t, W)
  BY <1>3, <1>5 DEF Places, GivenPlaces
<1>7. Buffered(t, o) /\ BufferOf(t, o) = m
  BY <1>3 DEF Buffered, BufferOf, m
<1>8. Exact(t, {}, runs)
  BY <1>3, <1>4, <1>7 DEF Exact
<1>9. \A p \in Operand : Buffered(s, p) => Buffered(t, p)
  BY <1>3 DEF Buffered
<1> QED BY <1>3, <1>6, <1>7, <1>8, <1>9 DEF Sound

(* An operand that can be read: one that has been given or written.        *)
Legible(s, W, o) ==
  \/ o \in Of("MODEL_INPUT") \/ o \in Given
  \/ o \in W /\ (o \in Temporary => s.usesLeft[o] > 0)

LEMMA InputBound ==
  ASSUME prep \in Prepared, NEW s, NEW W, W \subseteq Temporary \cup Outputs,
         Sound(s, W, {}, runs), NEW o \in Operand, Legible(s, W, o),
         NEW t, t = GetSSbo(s, o), t.assert = "none"
  PROVE  /\ s.assert = "none" /\ Sound(t, W, {}, runs) /\ Buffered(t, o)
         /\ t.usesLeft = s.usesLeft
         /\ \A p \in Operand : Buffered(s, p) => Buffered(t, p)
<1>0. /\ MemOK(s) /\ Homes(s) /\ Places(s, W) /\ Kept(s) /\ Exact(s, {}, runs)
  BY DEF Sound
<1>1. Exact(s, {o}, runs)
  BY <1>0 DEF Exact
<1>2. s.assert = "none"
  BY <1>0, GetSSboBinds DEF Binds
<1>3. CASE Buffered(s, o)
  <2>1. t = s
    BY <1>2, <1>3 DEF GetSSbo, MakeBuffer, Buffered
  <2> QED BY <1>2, <1>3, <2>1
<1>4. o \in Outputs \/ o \in Temporary => s.memInfo[o] # Null /\ Buffered(s, o)
  <2>1. o \in W \/ (o \notin Outputs /\ o \notin Temporary)
    BY Lifetime DEF Legible
  <2>2. Request(o) # Null
    BY <1>0, NotNull
  <2>3. CASE o \in Outputs
    BY <1>0, <2>1, <2>2, <2>3 DEF Places, Buffered, Arguments
  <2>4. CASE o \in Temporary
    <3>1. s.usesLeft[o] > 0
      BY <2>4, Lifetime DEF Legible
    <3> QED BY <1>0, <2>1, <2>4, <3>1, Lifetime DEF Places, Buffered
  <2> QED BY <2>3, <2>4
<1>5. CASE s.memInfo[o] # Null /\ ~Buffered(s, o)
  <2>1. t = MakeBuffer(s, s.memInfo[o])
    BY <1>2, <1>5 DEF GetSSbo
  <2>2. Alone(s, o) /\ s.memInfo[o] \notin DOMAIN s.ssbo
    BY <1>0, <1>5, UnbufferedAlone DEF Buffered
  <2> QED BY <1>0, <1>1, <1>2, <1>4, <1>5, <2>1, <2>2, MadeSound
<1>6. CASE s.memInfo[o] = Null
  <2>1. o \in Of("CONSTANT_COPY") /\ o \notin Temporary /\ o \notin Outputs /\ o \notin Arguments
    <3>1. Request(o) # Null /\ InModel(o) # Null
      BY <1>0, NotNull
    <3>2. o \notin Arguments /\ o \notin Of("CONSTANT_REFERENCE")
      BY <1>0, <1>6, <3>1 DEF Places, GivenPlaces
    <3> QED BY <1>4, <1>6, <3>2, Lifetime DEF Given
  <2>2. PICK a : a = Keeps(s, CreateMemoryInfo(s, prep.length[o], o), o)
    OBVIOUS
  <2>3. t = IF a.assert # "none" THEN a ELSE MakeBuffer(a, a.memInfo[o])
    BY <1>2, <1>6, <2>1, <2>2 DEF GetSSbo
  <2>4. a # Stops(s, "capacity")
    <3>1. Stops(s, "capacity").assert # "none"
      BY <1>0, StopsKeeps DEF Asserts
    <3> QED BY <2>3, <3>1
  <2>5. PICK k : Takes(s, a, o, k, o)
    BY <1>0, <1>2, <2>2, <2>4, CreateTakes
  <2>6. o # Null
    BY ModelFacts
  <2>7. /\ MemOK(a) /\ Homes(a) /\ Kept(a) /\ Exact(a, {o}, runs) /\ GivenPlaces(a)
        /\ Alone(a, o) /\ Inter(k) \in Infos(a)
        /\ k \notin DOMAIN s.medium => Inter(k) \notin DOMAIN a.ssbo
    BY <1>6, <2>1, <2>5, <2>6, TakenSound
  <2>8. /\ a.memInfo[o] = Inter(k) /\ Inter(k) \notin DOMAIN a.ssbo
        /\ a.usesLeft = s.usesLeft /\ a.ssbo = s.ssbo /\ a.assert = "none"
        /\ \A x \in Operand : x # o => a.memInfo[x] = s.memInfo[x]
    BY <1>2, <2>5, <2>6, <2>7 DEF Takes
  <2>9. a.memInfo[o] # Null
    BY <2>7, <2>8, NotNull
  <2>10. Places(a, W)
    <3>1. \A x : x \in Temporary \/ x \in Outputs \/ x \in Arguments => x \in Operand
      BY DEF Temporary, Arguments, Outputs, Of
    <3> QED BY <1>0, <2>1, <2>7, <2>8, <3>1 DEF Places
  <2>11. t = MakeBuffer(a, a.memInfo[o])
    BY <2>3, <2>8
  <2>12. /\ Sound(t, W, {}, runs) /\ Buffered(t, o) /\ t.usesLeft = a.usesLeft
         /\ \A p \in Operand : Buffered(a, p) => Buffered(t, p)
    BY <2>1, <2>7, <2>8, <2>9, <2>10, <2>11, MadeSound
  <2>13. \A p \in Operand : Buffered(s, p) => Buffered(a, p)
    BY <1>6, <2>8 DEF Buffered
  <2> QED BY <1>2, <2>8, <2>12, <2>13
<1> QED BY <1>3, <1>5, <1>6
LEMMA InputsBound ==
  ASSUME prep \in Prepared, NEW i \in DOMAIN Operations, NEW s,
         Sound(s, WrittenBy(i), {}, runs), Counted(s, i, 0),
         NEW t, t = Bound(s, Operations[i]), t.assert = "none"
  PROVE  \E u : /\ Sound(u, WrittenBy(i), {}, runs) /\ u.usesLeft = s.usesLeft
                /\ \A n \in DOMAIN Operations[i].inputs : Buffered(u, Operations[i].inputs[n])
                /\ t = GetSSbo(u, Operations[i].output)
<1> DEFINE op   == Operations[i]
           last == Len(op.inputs)
<1>1. /\ last \in Nat /\ DOMAIN op.inputs = 1 .. last
      /\ \A n \in 1 .. last : op.inputs[n] \in Operand
      /\ op.output \in Operand
  BY OperationFacts DEF Temporary, Outputs, Of
<1>2. PICK f : /\ f[0] = s
               /\ \A n \in 1 .. last : f[n] = GetSSbo(f[n - 1], op.inputs[n])
               /\ t = GetSSbo(f[last], op.output)
  <2> HIDE DEF op
  <2>1. t = Bound(s, op)
    BY DEF op
  <2> QED BY <1>1, <2>1, BoundInSteps
<1>3. \A n \in 1 .. last : op.inputs[n] \in Temporary => s.usesLeft[op.inputs[n]] > 0
  BY <1>1, StillRead DEF OperandsOf
<1>4. /\ WrittenBy(i) \subseteq Temporary \cup Outputs
      /\ \A n \in 1 .. last : \/ op.inputs[n] \in Of("MODEL_INPUT") \/ op.inputs[n] \in Given
                              \/ op.inputs[n] \in WrittenBy(i)
  BY <1>1, WrittenFacts
<1> HIDE DEF op
<1> DEFINE Bind(n) == /\ Sound(f[n], WrittenBy(i), {}, runs) /\ f[n].usesLeft = s.usesLeft
                      /\ \A j \in 1 .. n : Buffered(f[n], op.inputs[j])
           S == {n \in 0 .. last : MemOK(f[n]) /\ (f[n].assert = "none" => Bind(n))}
<1>5. 0 \in S
  BY <1>1, <1>2 DEF Sound
<1>6. ASSUME NEW n \in 0 .. last, n < last, n \in S PROVE n + 1 \in S
  <2>1. PICK o : o = op.inputs[n + 1]
    OBVIOUS
  <2>2. n + 1 \in 1 .. last /\ n + 1 - 1 = n /\ n + 1 \in 0 .. last /\ o \in Operand
    BY <1>1, <1>6, <2>1
  <2>3. PICK a, b : a = f[n] /\ b = f[n + 1]
    OBVIOUS
  <2>4. MemOK(a) /\ (a.assert = "none" => Bind(n)) /\ b = GetSSbo(a, o)
    BY <1>2, <1>6, <2>1, <2>2, <2>3
  <2>5. MemOK(b) /\ (b.assert = "none" => a.assert = "none")
    BY <2>2, <2>4, GetSSboBinds DEF Binds
  <2>6. ASSUME b.assert = "none" PROVE Bind(n + 1)
    <3>1. /\ Sound(a, WrittenBy(i), {}, runs) /\ a.usesLeft = s.usesLeft
          /\ \A j \in 1 .. n : Buffered(a, op.inputs[j])
      BY <2>3, <2>4, <2>5, <2>6
    <3>2. Legible(a, WrittenBy(i), o)
      BY <1>3, <1>4, <2>1, <2>2, <3>1 DEF Legible
    <3>3. /\ Sound(b, WrittenBy(i), {}, runs) /\ Buffered(b, o)
          /\ b.usesLeft = a.usesLeft
          /\ \A p \in Operand : Buffered(a, p) => Buffered(b, p)
      BY <1>4, <2>2, <2>4, <2>6, <3>1, <3>2, InputBound
    <3>4. ASSUME NEW j \in 1 .. n + 1 PROVE Buffered(b, op.inputs[j])
      <4>1. j \in 1 .. n \/ j = n + 1
        BY <2>2
      <4>2. j \in 1 .. last
        BY <1>1, <1>6, <2>2
      <4> QED BY <1>1, <2>1, <3>1, <3>3, <4>1, <4>2
    <3> QED BY <2>3, <3>1, <3>3, <3>4
  <2> QED BY <2>2, <2>3, <2>5, <2>6
<1>7. last \in S
  <2> HIDE DEF S, last
  <2>1. last \in Nat
    BY <1>1
  <2>2. \A n \in 0 .. last : n \in S
    BY <1>5, <1>6, <2>1, UpTo
  <2> QED BY <2>1, <2>2
<1>8. f[last].assert = "none"
  <2>1. MemOK(f[last])
    BY <1>7
  <2> QED BY <1>1, <1>2, <2>1, GetSSboBinds DEF Binds
<1>9. Bind(last)
  BY <1>7, <1>8
<1> QED BY <1>1, <1>2, <1>9 DEF op

(* The buffer of o is that of its info, and no other operand has it.       *)
Apart(s, o) ==
  /\ BufferOf(s, o) = s.memInfo[o]
  /\ \A p \in Operand : p # o /\ Buffered(s, p) => BufferOf(s, p) # BufferOf(s, o)

LEMMA MadeApart ==
  ASSUME prep \in Prepared, NEW s, MemOK(s), Homes(s), Kept(s), NEW o \in Operand,
         s.memInfo[o] # Null, Alone(s, o), Exact(s, {o}, runs),
         \A m \in DOMAIN s.ssbo : m # s.memInfo[o] <=> s.ssbo[m] # s.memInfo[o],
         NEW t, t = MakeBuffer(s, s.memInfo[o])
  PROVE  /\ MemOK(t) /\ Homes(t) /\ Kept(t) /\ Exact(t, {o}, runs)
         /\ t.medium = s.medium /\ t.memInfo = s.memInfo
         /\ t.usesLeft = s.usesLeft /\ t.assert = s.assert
         /\ DOMAIN t.ssbo = DOMAIN s.ssbo \cup {s.memInfo[o]}
         /\ Buffered(t, o) /\ Apart(t, o)
<1> DEFINE m == s.memInfo[o]
<1>1. m \in Infos(s)
  BY DEF MemOK
<1>2. CASE m \in DOMAIN s.ssbo
  <2>1. t = s
    BY <1>2 DEF MakeBuffer
  <2>2. Buffered(t, o) /\ BufferOf(t, o) = m
    BY <1>2, <2>1 DEF Buffered, BufferOf
  <2>3. Apart(t, o)
    BY <2>1, <2>2 DEF Apart, Alone, Buffered, BufferOf
  <2> QED BY <1>2, <2>1, <2>2, <2>3
<1>3. CASE m \notin DOMAIN s.ssbo
  <2>1. Made(s, t, o, runs)
    BY <1>1, <1>3, MadeFor
  <2>2. Buffered(t, o) /\ BufferOf(t, o) = m
    BY <2>1 DEF Buffered, BufferOf, Made
  <2>3. ASSUME NEW p \in Operand, p # o, Buffered(t, p) PROVE BufferOf(t, p) # m
    <3>1. s.memInfo[p] \in DOMAIN s.ssbo /\ BufferOf(t, p) = s.ssbo[s.memInfo[p]]
      BY <2>1, <2>3 DEF Made, Buffered, BufferOf, Alone
    <3>2. s.ssbo[s.memInfo[p]] \in DOMAIN s.ssbo
      BY <3>1 DEF Homes
    <3> QED BY <1>3, <3>1, <3>2
  <2>4. Apart(t, o)
    BY <2>1, <2>2, <2>3 DEF Apart, Made
  <2> QED BY <2>1, <2>2, <2>4 DEF Made
<1> QED BY <1>2, <1>3

(* What an operation is to write gets a buffer that no other operand has.  *)
LEMMA OutputBound ==
  ASSUME prep \in Prepared, NEW s, NEW W, Sound(s, W, {}, runs),
         NEW o \in Temporary \cup Outputs, o \notin W,
         NEW t, t = GetSSbo(s, o), t.assert = "none"
  PROVE  /\ Sound(t, W \cup {o}, {o}, runs) /\ t.usesLeft = s.usesLeft
         /\ Buffered(t, o) /\ Apart(t, o)
         /\ \A p \in Operand : Buffered(s, p) => Buffered(t, p)
<1>0. /\ MemOK(s) /\ Homes(s) /\ Places(s, W) /\ Kept(s) /\ Exact(s, {}, runs)
      /\ o \in Operand
  BY DEF Sound, Temporary, Outputs, Of
<1>1. Exact(s, {o}, runs)
  BY <1>0 DEF Exact
<1>2. s.assert = "none"
  BY <1>0, GetSSboBinds DEF Binds
<1>3. \A x : x \in Temporary \/ x \in Outputs \/ x \in Arguments => x \in Operand
  BY DEF Temporary, Arguments, Outputs, Of
<1>4. CASE o \in Outputs
  <2>1. s.memInfo[o] = Request(o) /\ Request(o) \notin DOMAIN s.ssbo /\ Request(o) # Null
    BY <1>0, <1>4, NotNull DEF Places, Arguments
  <2>2. t = MakeBuffer(s, s.memInfo[o])
    BY <1>2, <2>1 DEF GetSSbo
  <2>3. Alone(s, o)
    BY <1>0, <2>1, UnbufferedAlone DEF Buffered
  <2>4. \A m \in DOMAIN s.ssbo : m # s.memInfo[o] /\ s.ssbo[m] # s.memInfo[o]
    BY <1>0, <2>1 DEF Homes
  <2>5. /\ MemOK(t) /\ Homes(t) /\ Kept(t) /\ Exact(t, {o}, runs)
        /\ t.medium = s.medium /\ t.memInfo = s.memInfo
        /\ t.usesLeft = s.usesLeft /\ t.assert = s.assert
        /\ DOMAIN t.ssbo = DOMAIN s.ssbo \cup {s.memInfo[o]}
        /\ Buffered(t, o) /\ Apart(t, o)
    BY <1>0, <1>1, <2>1, <2>2, <2>3, <2>4, MadeApart
  <2>6. Places(t, W \cup {o})
    <3>1. o \notin Temporary
      BY <1>0, <1>4, Lifetime
    <3>2. GivenPlaces(t)
      BY <1>0, <2>5 DEF Places, GivenPlaces
    <3> QED BY <1>0, <2>1, <2>5, <3>1, <3>2, InfosDiffer DEF Places
  <2>7. \A p \in Operand : Buffered(s, p) => Buffered(t, p)
    BY <2>5 DEF Buffered
  <2> QED BY <2>5, <2>6, <2>7 DEF Sound
<1>5. CASE o \in Temporary
  <2>1. s.memInfo[o] = Null
    BY <1>0, <1>5 DEF Places
  <2>2. PICK a : a = Keeps(s, CreateIntermedium(s, prep.length[o]), o)
    OBVIOUS
  <2>3. t = IF a.assert # "none" THEN a ELSE MakeBuffer(a, a.memInfo[o])
    BY <1>2, <1>5, <2>1, <2>2 DEF GetSSbo
  <2>4. a # Stops(s, "capacity")
    <3>1. Stops(s, "capacity").assert # "none"
      BY <1>0, StopsKeeps DEF Asserts
    <3> QED BY <2>3, <3>1
  <2>5. PICK k : Takes(s, a, o, k, Null)
    BY <1>0, <1>2, <1>5, <2>2, <2>4, ReuseTakes
  <2>6. /\ MemOK(a) /\ Homes(a) /\ Kept(a) /\ Exact(a, {o}, runs) /\ GivenPlaces(a)
        /\ Alone(a, o) /\ Inter(k) \in Infos(a)
        /\ \A m \in DOMAIN s.ssbo : m # Inter(k) => s.ssbo[m] # Inter(k)
    BY <1>0, <1>5, <2>1, <2>5, TakenSound
  <2>7. /\ a.memInfo[o] = Inter(k)
        /\ a.usesLeft = s.usesLeft /\ a.ssbo = s.ssbo /\ a.assert = "none"
        /\ \A x \in Operand : x # o => a.memInfo[x] = s.memInfo[x]
    BY <1>2, <2>5 DEF Takes
  <2>8. a.memInfo[o] # Null
    BY <2>6, <2>7, NotNull
  <2>9. \A m \in DOMAIN a.ssbo : m # a.memInfo[o] <=> a.ssbo[m] # a.memInfo[o]
    BY <1>0, <2>6, <2>7, InfosDiffer DEF Homes
  <2>10. t = MakeBuffer(a, a.memInfo[o])
    BY <2>3, <2>7
  <2>11. /\ MemOK(t) /\ Homes(t) /\ Kept(t) /\ Exact(t, {o}, runs)
         /\ t.medium = a.medium /\ t.memInfo = a.memInfo
         /\ t.usesLeft = a.usesLeft /\ t.assert = a.assert
         /\ DOMAIN t.ssbo = DOMAIN a.ssbo \cup {a.memInfo[o]}
         /\ Buffered(t, o) /\ Apart(t, o)
    BY <1>0, <2>6, <2>8, <2>9, <2>10, MadeApart
  <2>12. Places(t, W \cup {o})
    <3>1. o \notin Arguments /\ o \notin Outputs
      BY <1>0, <1>5, Lifetime
    <3>2. GivenPlaces(t)
      BY <2>6, <2>11 DEF GivenPlaces
    <3>3. \A x \in Operand : Request(x) # Inter(k)
      BY InfosDiffer
    <3> QED BY <1>0, <1>3, <2>7, <2>8, <2>11, <3>1, <3>2, <3>3 DEF Places
  <2>13. \A p \in Operand : Buffered(s, p) => Buffered(t, p)
    BY <2>1, <2>7, <2>11 DEF Buffered
  <2> QED BY <2>7, <2>11, <2>12, <2>13 DEF Sound
<1> QED BY <1>4, <1>5
-------------------------------------------------------------------------------
(* Copies.                                                                 *)

(* An info of the pool that no operand has and that is in use.             *)
Unheld(s, k) ==
  /\ k \in DOMAIN s.medium /\ s.medium[k].inUsing
  /\ \A p \in Operand : s.memInfo[p] # Inter(k)
Aside(s, k) == Unheld(s, k) /\ Inter(k) \in DOMAIN s.ssbo

LEMMA AddedSound ==
  ASSUME prep \in Prepared, NEW s, NEW W, NEW r, Sound(s, W, {}, r),
         NEW t, NEW k, Adds(s, t, k, Null)
  PROVE  /\ Sound(t, W, {}, r) /\ Unheld(t, k) /\ Inter(k) \in Infos(t)
         /\ \A m \in DOMAIN t.ssbo : m # Inter(k) => t.ssbo[m] # Inter(k)
         /\ \A j : Unheld(s, j) => Unheld(t, j) /\ j # k
<1>0. /\ MemOK(s) /\ Homes(s) /\ Places(s, W) /\ GivenPlaces(s) /\ Kept(s) /\ Exact(s, {}, r)
      /\ MemOK(t)
  BY DEF Sound, Places, Adds
<1>1. /\ k \in DOMAIN t.medium /\ Inter(k) \in Infos(t) /\ Infos(s) \subseteq Infos(t)
      /\ Inter(k) # Null
  <2>1. k \in DOMAIN t.medium /\ Infos(s) \subseteq Infos(t)
    BY DEF Adds, Infos
  <2> QED BY <1>0, <2>1, NotNull DEF Infos
<1>2. /\ t.memInfo = s.memInfo /\ t.ssbo = s.ssbo /\ t.content = s.content
      /\ t.usesLeft = s.usesLeft
      /\ \A j \in DOMAIN s.medium : j # k => t.medium[j] = s.medium[j]
      /\ DOMAIN t.medium = DOMAIN s.medium \cup {k}
      /\ t.medium[k].userptr = Null /\ t.medium[k].inUsing /\ t.medium[k].refCount = 1
      /\ k \in DOMAIN s.medium => s.medium[k].userptr = Null /\ ~s.medium[k].inUsing
  BY DEF Adds
<1>3. /\ Holders(s, k) = {} /\ ~Lasting(s, k)
      /\ \A c \in Operand : s.memInfo[c] # Inter(k)
      /\ \A m \in DOMAIN s.ssbo : m # Inter(k) => s.ssbo[m] # Inter(k)
  BY <1>1, <1>2, NobodyHas
<1>4. Unheld(t, k) /\ \A j : Unheld(s, j) => Unheld(t, j) /\ j # k
  BY <1>1, <1>2, <1>3 DEF Unheld
<1>5. Homes(t)
  BY <1>0, <1>1, <1>2 DEF Homes
<1>6. Places(t, W)
  <2>1. ASSUME NEW c \in Of("CONSTANT_COPY"), t.memInfo[c] # Null
        PROVE  \E j \in DOMAIN t.medium : t.memInfo[c] = Inter(j) /\ t.medium[j].userptr = c
    <3>1. c # Null
      BY ModelFacts DEF Of
    <3>2. PICK j \in DOMAIN s.medium : s.memInfo[c] = Inter(j) /\ s.medium[j].userptr = c
      BY <1>0, <1>2, <2>1 DEF GivenPlaces
    <3>3. j # k
      BY <1>2, <3>1, <3>2
    <3> QED BY <1>2, <3>2, <3>3
  <2>2. GivenPlaces(t)
    BY <1>0, <1>2, <2>1 DEF GivenPlaces
  <2> QED BY <1>0, <1>2, <2>2 DEF Places
<1>7. Kept(t)
  <2> SUFFICES ASSUME NEW j \in DOMAIN t.medium, t.medium[j].userptr = Null
               PROVE  /\ Holders(t, j) # {} \/ Lasting(t, j) => t.medium[j].inUsing
                      /\ t.medium[j].refCount >= Cardinality(Holders(t, j))
                      /\ Lasting(t, j) => t.medium[j].refCount > Cardinality(Holders(t, j))
    BY DEF Kept
  <2>1. (Lasting(t, j) <=> Lasting(s, j)) /\ Holders(t, j) = Holders(s, j)
    BY <1>2 DEF Lasting, Holders
  <2>2. CASE j = k
    BY <1>2, <1>3, <2>1, <2>2, FS_EmptySet
  <2>3. CASE j # k
    BY <1>0, <1>2, <2>1, <2>3 DEF Kept
  <2> QED BY <2>2, <2>3
<1>8. Exact(t, {}, r)
  BY <1>0, <1>2 DEF Exact, Buffered, BufferOf
<1> QED BY <1>0, <1>1, <1>2, <1>3, <1>4, <1>5, <1>6, <1>7, <1>8 DEF Sound

(* The buffer of an info that no operand has is written.                   *)
Overwritten(b, k) == [b EXCEPT !.content[b.ssbo[Inter(k)]] = Unknown]

LEMMA OverwrittenSound ==
  ASSUME prep \in Prepared, NEW s, NEW W, NEW r, Sound(s, W, {}, r), NEW k, Unheld(s, k),
         Inter(k) \in Infos(s), \A m \in DOMAIN s.ssbo : m # Inter(k) => s.ssbo[m] # Inter(k),
         NEW b, b = MakeBuffer(s, Inter(k)), NEW t, t = Overwritten(b, k)
  PROVE  /\ Sound(t, W, {}, r) /\ Alike(s, t)
         /\ DOMAIN t.ssbo = DOMAIN s.ssbo \cup {Inter(k)}
<1>0. /\ MemOK(s) /\ Homes(s) /\ Places(s, W) /\ Kept(s) /\ Exact(s, {}, r) /\ HasFields(s)
  BY DEF Sound, MemOK
<1>1. PICK m : m = Inter(k)
  OBVIOUS
<1>2. /\ DOMAIN b.ssbo = DOMAIN s.ssbo \cup {m} /\ b.ssbo[m] = m
      /\ \A x \in DOMAIN s.ssbo : b.ssbo[x] = s.ssbo[x]
      /\ DOMAIN b.content = DOMAIN s.content \cup {m}
      /\ \A c \in DOMAIN s.content : c # m => b.content[c] = s.content[c]
  <2>1. CASE m \in DOMAIN s.ssbo
    <3>1. b = s
      BY <1>1, <2>1 DEF MakeBuffer
    <3>2. s.ssbo[m] = m /\ m \in DOMAIN s.content
      BY <1>0, <1>1, <2>1, InfosDiffer DEF Homes
    <3> QED BY <2>1, <3>1, <3>2
  <2>2. CASE m \notin DOMAIN s.ssbo
    BY <1>0, <1>1, <2>2, BufferMade
  <2> QED BY <2>1, <2>2
<1>3. Alike(s, b) /\ HasFields(b)
  BY <1>0, MakeBufferKeeps DEF Alike
<1>4. PICK c : c = [b.content EXCEPT ![m] = Unknown]
  OBVIOUS
<1>5. t = [b EXCEPT !.content = c]
  BY <1>1, <1>2, <1>3, <1>4 DEF HasFields, Overwritten
<1>6. Alike(s, t) /\ t.ssbo = b.ssbo /\ t.content = c
  BY <1>3, <1>5 DEF Alike, HasFields
<1>7. DOMAIN c = DOMAIN b.content /\ \A x \in DOMAIN c : x # m => c[x] = b.content[x]
  BY <1>4
<1>8. MemOK(t) /\ Infos(t) = Infos(s)
  BY <1>0, <1>6, AlikeKeeps
<1>9. Homes(t)
  BY <1>0, <1>1, <1>2, <1>6, <1>7, <1>8 DEF Homes
<1>10. Places(t, W)
  BY <1>0, <1>1, <1>2, <1>6, InfosDiffer DEF Places, GivenPlaces, Alike
<1>11. Kept(t)
  <2>1. ASSUME NEW j, Lasting(t, j) PROVE Lasting(s, j)
    <3>1. PICK o \in Outputs : Request(o) \in DOMAIN t.ssbo /\ t.ssbo[Request(o)] = Inter(j)
      BY <2>1 DEF Lasting
    <3>2. Request(o) # m
      BY <1>1, InfosDiffer
    <3> QED BY <1>2, <1>6, <3>1, <3>2 DEF Lasting
  <2> QED BY <1>0, <1>6, <2>1, KeptAlike DEF Alike
<1>12. ASSUME NEW p \in Operand, Buffered(t, p) PROVE t.content[BufferOf(t, p)] = ValueIn(p, r)
  <2>1. t.memInfo[p] = s.memInfo[p] /\ s.memInfo[p] # m
    BY <1>1, <1>6 DEF Alike, Unheld
  <2>2. Buffered(s, p) /\ s.memInfo[p] \in DOMAIN s.ssbo
    BY <1>2, <1>6, <1>12, <2>1 DEF Buffered
  <2>3. BufferOf(t, p) = BufferOf(s, p) /\ BufferOf(s, p) # m
    BY <1>1, <1>2, <1>6, <2>1, <2>2 DEF BufferOf
  <2>4. BufferOf(s, p) \in DOMAIN s.content /\ s.content[BufferOf(s, p)] = ValueIn(p, r)
    BY <1>0, <2>2 DEF Homes, Exact, BufferOf
  <2> QED BY <1>2, <1>6, <1>7, <2>3, <2>4
<1>13. Exact(t, {}, r)
  BY <1>12 DEF Exact
<1> QED BY <1>1, <1>2, <1>6, <1>8, <1>9, <1>10, <1>11, <1>13 DEF Sound

(* A copy of an operand is put where no operand is.                        *)
LEMMA RebindSound ==
  ASSUME prep \in Prepared, NEW s, NEW W, NEW r, Sound(s, W, {}, r), NEW length \in Nat,
         NEW t, t = Rebind(s, length), t.assert = "none"
  PROVE  /\ Sound(t, W, {}, r)
         /\ \A j \in Taken(s, t) : Aside(t, j)
         /\ \A j : Aside(s, j) => Aside(t, j)
<1>0. MemOK(s)
  BY DEF Sound
<1>1. s.assert = "none"
  BY <1>0, RebindKeeps DEF SetsAside
<1>2. PICK a : a = CreateIntermedium(s, length)
  OBVIOUS
<1>3. PICK m : m = Inter(CHOOSE j \in Taken(s, a) : TRUE)
  OBVIOUS
<1>4. PICK b : b = MakeBuffer(a, m)
  OBVIOUS
<1>5. t = IF a.assert # "none" THEN a ELSE [b EXCEPT !.content[b.ssbo[m]] = Unknown]
  BY <1>1, <1>2, <1>3, <1>4 DEF Rebind
<1>6. a.assert = "none"
  BY <1>5
<1>7. PICK k : Adds(s, a, k, Null)
  <2>1. a # Stops(s, "capacity")
    BY <1>0, <1>6, StopsKeeps DEF Asserts
  <2> QED BY <1>0, <1>2, <2>1, ReuseAdds
<1>8. m = Inter(k) /\ Taken(s, a) = {k}
  BY <1>3, <1>7, AddsTaken
<1>9. /\ Sound(a, W, {}, r) /\ Unheld(a, k) /\ Inter(k) \in Infos(a)
      /\ \A x \in DOMAIN a.ssbo : x # Inter(k) => a.ssbo[x] # Inter(k)
      /\ \A j : Unheld(s, j) => Unheld(a, j)
  BY <1>7, AddedSound
<1>10. /\ Sound(t, W, {}, r) /\ Alike(a, t)
       /\ DOMAIN t.ssbo = DOMAIN a.ssbo \cup {Inter(k)}
  <2>1. b = MakeBuffer(a, Inter(k)) /\ t = Overwritten(b, k)
    BY <1>4, <1>5, <1>6, <1>8 DEF Overwritten
  <2> QED BY <1>9, <2>1, OverwrittenSound
<1>11. Taken(s, t) = {k}
  BY <1>8, <1>10 DEF Alike, Taken
<1>12. \A j : Unheld(a, j) => Unheld(t, j)
  BY <1>10 DEF Alike, Unheld
<1>13. a.ssbo = s.ssbo
  BY <1>7 DEF Adds
<1> QED BY <1>9, <1>10, <1>11, <1>12, <1>13 DEF Aside

LEMMA CopiedSound ==
  ASSUME prep \in Prepared, NEW i \in DOMAIN Operations, NEW s, NEW W, NEW r,
         Sound(s, W, {}, r), NEW t, t = Copied(s, Operations[i]), t.assert = "none"
  PROVE  Sound(t, W, {}, r) /\ \A j \in Taken(s, t) : Aside(t, j)
<1> DEFINE op == Operations[i]
<1>1. CASE op.copies = << >>
  <2>1. t = s
    BY <1>1 DEF Copied
  <2>2. Taken(s, t) = {}
    BY <2>1 DEF Taken
  <2> QED BY <2>1, <2>2
<1>2. CASE op.copies # << >>
  <2>1. op.copies[1] \in Nat /\ op.copies[2] \in Nat
    BY <1>2, OperationFacts DEF Copies
  <2>2. t = Copied(s, op)
    OBVIOUS
  <2> HIDE DEF op
  <2>3. PICK u : u = Rebind(s, op.copies[1])
    OBVIOUS
  <2>4. t = Rebind(u, op.copies[2])
    BY <1>2, <2>2, <2>3 DEF Copied
  <2>5. u.assert = "none"
    <3>1. MemOK(u)
      BY <2>1, <2>3, RebindKeeps DEF Sound, SetsAside
    <3> QED BY <2>1, <2>4, <3>1, RebindKeeps DEF SetsAside
  <2>6. Sound(u, W, {}, r) /\ \A j \in Taken(s, u) : Aside(u, j)
    BY <2>1, <2>3, <2>5, RebindSound
  <2>7. /\ Sound(t, W, {}, r)
        /\ \A j \in Taken(u, t) : Aside(t, j)
        /\ \A j : Aside(u, j) => Aside(t, j)
    BY <2>1, <2>4, <2>6, RebindSound
  <2>8. \A j \in Taken(s, t) : j \in Taken(s, u) \/ j \in Taken(u, t)
    BY DEF Taken
  <2> QED BY <2>6, <2>7, <2>8
<1> QED BY <1>1, <1>2

(* No operand that is bound gets such an info.                             *)
LEMMA GetSSboUnheld ==
  ASSUME prep \in Prepared, NEW s, MemOK(s), NEW o \in Operand, NEW k, Unheld(s, k),
         NEW t, t = GetSSbo(s, o)
  PROVE  Unheld(t, k)
<1>1. CASE s.assert # "none"
  BY <1>1 DEF GetSSbo
<1>2. CASE s.assert = "none"
  <2>1. PICK a : a = IF s.memInfo[o] # Null THEN s
                     ELSE IF o \in Temporary
                     THEN Keeps(s, CreateIntermedium(s, prep.length[o]), o)
                     ELSE Keeps(s, CreateMemoryInfo(s, prep.length[o], o), o)
    OBVIOUS
  <2>2. t = a \/ t = MakeBuffer(a, a.memInfo[o])
    BY <1>2, <2>1 DEF GetSSbo
  <2>3. \/ a = s \/ a = Stops(s, "capacity")
        \/ \E j, data : Takes(s, a, o, j, data)
    BY <1>2, <2>1, ReuseTakes, CreateTakes
  <2>4. MemOK(a) /\ Unheld(a, k)
    <3>1. CASE a = s
      BY <3>1
    <3>2. CASE a = Stops(s, "capacity")
      <4>1. MemOK(a) /\ a.memInfo = s.memInfo
        BY <3>2, StopsKeeps DEF Asserts
      <4>2. a.medium = s.medium
        BY <3>2 DEF MemOK, HasFields, Stops
      <4> QED BY <4>1, <4>2 DEF Unheld
    <3>3. CASE \E j, data : Takes(s, a, o, j, data)
      <4>1. PICK j, data : Takes(s, a, o, j, data)
        BY <3>3
      <4>2. j # k
        BY <4>1 DEF Takes, Unheld
      <4> QED BY <4>1, <4>2, InfosDiffer DEF Takes, Unheld
    <3> QED BY <2>3, <3>1, <3>2, <3>3
  <2>5. CASE t = MakeBuffer(a, a.memInfo[o])
    <3>1. Alike(a, t)
      BY <2>4, <2>5, MakeBufferKeeps DEF MemOK
    <3> QED BY <2>4, <3>1 DEF Alike, Unheld
  <2> QED BY <2>2, <2>4, <2>5
<1> QED BY <1>1, <1>2

LEMMA BoundUnheld ==
  ASSUME prep \in Prepared, NEW i \in DOMAIN Operations, NEW s, MemOK(s), NEW k, Unheld(s, k)
  PROVE  Unheld(Bound(s, Operations[i]), k)
<1> DEFINE op   == Operations[i]
           last == Len(op.inputs)
<1>1. /\ last \in Nat /\ \A n \in 1 .. last : op.inputs[n] \in Operand
      /\ op.output \in Operand
  BY OperationFacts DEF Temporary, Outputs, Of
<1>2. PICK f : /\ f[0] = s
               /\ \A n \in 1 .. last : f[n] = GetSSbo(f[n - 1], op.inputs[n])
               /\ Bound(s, op) = GetSSbo(f[last], op.output)
  BY <1>1, BoundInSteps
<1> HIDE DEF op, last
<1> DEFINE S == {n \in 0 .. last : MemOK(f[n]) /\ Unheld(f[n], k)}
<1>3. 0 \in S
  BY <1>1, <1>2
<1>4. ASSUME NEW n \in 0 .. last, n < last, n \in S PROVE n + 1 \in S
  <2>1. n + 1 \in 1 .. last /\ n + 1 - 1 = n /\ n + 1 \in 0 .. last
    BY <1>1, <1>4
  <2>2. f[n + 1] = GetSSbo(f[n], op.inputs[n + 1]) /\ op.inputs[n + 1] \in Operand
    BY <1>1, <1>2, <2>1
  <2>3. MemOK(f[n + 1]) /\ Unheld(f[n + 1], k)
    BY <1>4, <2>2, GetSSboBinds, GetSSboUnheld DEF Binds
  <2> QED BY <2>1, <2>3
<1>5. MemOK(f[last]) /\ Unheld(f[last], k)
  <2> HIDE DEF S
  <2>1. \A n \in 0 .. last : n \in S
    BY <1>1, <1>3, <1>4, UpTo
  <2> QED BY <1>1, <2>1 DEF S
<1> QED BY <1>1, <1>2, <1>5, GetSSboUnheld DEF op

-------------------------------------------------------------------------------
(* Operations.                                                             *)

(* Who gets an info in an operation is read by it or by a later one.       *)
LEMMA RebindsNeeded ==
  ASSUME prep \in Prepared, NEW i \in DOMAIN Operations, NEW s, Counted(s, i, 0), Needed(s),
         NEW t, t.usesLeft = s.usesLeft, NEW X, X \subseteq OperandsOf(Operations[i]),
         \A p \in Operand : p \notin X => t.memInfo[p] = s.memInfo[p]
  PROVE  Needed(t)
<1> SUFFICES ASSUME NEW p \in Temporary, t.memInfo[p] # Null PROVE t.usesLeft[p] > 0
  BY DEF Needed
<1>1. p \in Operand
  BY ModelFacts
<1>2. CASE p \in X
  BY <1>2, StillRead
<1>3. CASE p \notin X
  BY <1>1, <1>3 DEF Needed
<1> QED BY <1>2, <1>3

(* The buffer of o, which no other operand has, gets a value.              *)
Writes(s, o, v) == [s EXCEPT !.content[BufferOf(s, o)] = v]

LEMMA WritesSound ==
  ASSUME prep \in Prepared, NEW s, NEW W, NEW r, NEW o \in Operand, Sound(s, W, {o}, r),
         Buffered(s, o), Apart(s, o), NEW t, t = Writes(s, o, ValueIn(o, r))
  PROVE  Sound(t, W, {}, r) /\ t.usesLeft = s.usesLeft /\ t.memInfo = s.memInfo
                            /\ t.assert = s.assert
<1>0. /\ MemOK(s) /\ Homes(s) /\ Places(s, W) /\ Kept(s) /\ Exact(s, {o}, r) /\ HasFields(s)
  BY DEF Sound, MemOK
<1>1. PICK to, v : to = BufferOf(s, o) /\ v = ValueIn(o, r)
  OBVIOUS
<1>2. PICK c : c = [s.content EXCEPT ![to] = v]
  OBVIOUS
<1>3. t = [s EXCEPT !.content = c]
  BY <1>0, <1>1, <1>2 DEF Writes, HasFields
<1>4. /\ HasFields(t) /\ t.medium = s.medium /\ t.memInfo = s.memInfo
      /\ t.usesLeft = s.usesLeft /\ t.assert = s.assert /\ t.ssbo = s.ssbo /\ t.content = c
  BY <1>0, <1>3 DEF HasFields
<1>5. to \in DOMAIN s.content
  BY <1>0, <1>1 DEF Homes, Buffered, BufferOf
<1>6. DOMAIN c = DOMAIN s.content /\ c[to] = v /\ \A b \in DOMAIN c : b # to => c[b] = s.content[b]
  BY <1>2, <1>5
<1>7. MemOK(t) /\ Infos(t) = Infos(s)
  BY <1>0, <1>4, AlikeKeeps DEF Alike
<1>8. Homes(t)
  BY <1>0, <1>4, <1>6, <1>7 DEF Homes
<1>9. Places(t, W)
  BY <1>0, <1>4 DEF Places, GivenPlaces
<1>10. Kept(t)
  BY <1>0, <1>4, KeptAlike DEF Lasting
<1>11. ASSUME NEW p \in Operand, Buffered(t, p) PROVE t.content[BufferOf(t, p)] = ValueIn(p, r)
  <2>1. Buffered(s, p) /\ BufferOf(t, p) = BufferOf(s, p)
    BY <1>4, <1>11 DEF Buffered, BufferOf
  <2>2. CASE p = o
    BY <1>1, <1>4, <1>6, <2>1, <2>2
  <2>3. CASE p # o
    <3>1. BufferOf(s, p) # to /\ s.content[BufferOf(s, p)] = ValueIn(p, r)
      BY <1>0, <1>1, <2>1, <2>3 DEF Apart, Exact
    <3>2. BufferOf(s, p) \in DOMAIN c
      BY <1>0, <1>6, <2>1 DEF Homes, Buffered, BufferOf
    <3> QED BY <1>4, <1>6, <2>1, <3>1, <3>2
  <2> QED BY <2>2, <2>3
<1>12. Exact(t, {}, r)
  BY <1>11 DEF Exact
<1> QED BY <1>4, <1>7, <1>8, <1>9, <1>10, <1>12 DEF Sound

(* A shader finds the values of its inputs, and leaves that of its output. *)
LEMMA DispatchSound ==
  ASSUME prep \in Prepared, NEW i \in DOMAIN Operations, NEW s,
         Sound(s, WrittenBy(i), {}, runs), Counted(s, i, 0), Needed(s),
         NEW t, t = Dispatch(s, Operations[i]), t.assert = "none"
  PROVE  Sound(t, WrittenBy(i + 1), {}, runs) /\ t.usesLeft = s.usesLeft /\ Needed(t)
<1> DEFINE op == Operations[i]
<1>0. PICK c : c = Copied(s, op)
  OBVIOUS
<1>1. PICK b : b = Bound(c, op)
  OBVIOUS
<1>2. PICK o : o = op.output
  OBVIOUS
<1>3. /\ o \in Temporary \cup Outputs /\ o \in Operand /\ o \notin WrittenBy(i)
      /\ WrittenBy(i + 1) = WrittenBy(i) \cup {o}
      /\ \A n \in DOMAIN op.inputs : op.inputs[n] \in Operand /\ op.inputs[n] # o
  BY <1>2, OperationFacts, WrittenFacts DEF Temporary, Outputs, Of
<1> DEFINE good == /\ \A k \in Taken(s, c) : c.ssbo[Inter(k)] # BufferOf(b, o)
                   /\ \A x \in Range(op.inputs) :
                        BufferOf(b, x) # BufferOf(b, o) /\ b.content[BufferOf(b, x)] = Value(x)
<1>4. t = IF b.assert # "none" THEN b
          ELSE [b EXCEPT !.content[BufferOf(b, o)] = IF good THEN Value(o) ELSE Unknown]
  <2>1. t = Dispatch(s, op)
    OBVIOUS
  <2> HIDE DEF op
  <2> QED BY <1>0, <1>1, <1>2, <2>1 DEF Dispatch
<1>5. b.assert = "none"
  BY <1>4
<1>51. /\ MemOK(c) /\ c.usesLeft = s.usesLeft /\ c.assert = "none"
  <2>1. MemOK(c) /\ c.usesLeft = s.usesLeft
    BY <1>0, CopiedKeeps DEF Sound, SetsAside
  <2> QED BY <1>1, <1>5, <2>1, BoundRebinds DEF Rebinds
<1>52. Sound(c, WrittenBy(i), {}, runs) /\ \A k \in Taken(s, c) : Aside(c, k)
  BY <1>0, <1>51, CopiedSound
<1>53. Counted(c, i, 0)
  BY <1>51 DEF Counted
<1>6. PICK u : /\ Sound(u, WrittenBy(i), {}, runs) /\ u.usesLeft = s.usesLeft
               /\ \A n \in DOMAIN op.inputs : Buffered(u, op.inputs[n])
               /\ b = GetSSbo(u, o)
  BY <1>1, <1>2, <1>5, <1>51, <1>52, <1>53, InputsBound
<1>7. /\ Sound(b, WrittenBy(i + 1), {o}, runs) /\ b.usesLeft = s.usesLeft
      /\ Buffered(b, o) /\ Apart(b, o)
      /\ \A p \in Operand : Buffered(u, p) => Buffered(b, p)
  BY <1>3, <1>5, <1>6, OutputBound
<1>71. ASSUME NEW k \in Taken(s, c) PROVE c.ssbo[Inter(k)] # BufferOf(b, o)
  <2>1. c.ssbo[Inter(k)] = Inter(k)
    BY <1>52, InfosDiffer DEF Aside, Sound, Homes
  <2>2. Unheld(b, k)
    BY <1>1, <1>51, <1>52, BoundUnheld DEF Aside
  <2> QED BY <1>3, <1>7, <2>1, <2>2 DEF Unheld, Apart
<1>8. good
  <2> SUFFICES ASSUME NEW n \in DOMAIN op.inputs, NEW x, x = op.inputs[n]
               PROVE  BufferOf(b, x) # BufferOf(b, o) /\ b.content[BufferOf(b, x)] = Value(x)
    BY <1>71 DEF Range
  <2>1. x \in Operand /\ x # o /\ Buffered(b, x)
    BY <1>3, <1>6, <1>7
  <2>2. b.content[BufferOf(b, x)] = ValueIn(x, runs)
    BY <1>7, <2>1 DEF Sound, Exact
  <2> QED BY <1>7, <2>1, <2>2, ValueFacts DEF Apart
<1>9. t = Writes(b, o, ValueIn(o, runs))
  <2>1. Value(o) = ValueIn(o, runs)
    BY ValueFacts
  <2> HIDE DEF good
  <2> QED BY <1>4, <1>5, <1>8, <2>1 DEF Writes
<1>10. Sound(t, WrittenBy(i + 1), {}, runs) /\ t.usesLeft = s.usesLeft
  BY <1>3, <1>7, <1>9, WritesSound
<1>11. \A x \in Operand : x \notin OperandsOf(op) => t.memInfo[x] = s.memInfo[x]
  BY DispatchRebinds DEF Sound
<1>12. Needed(t)
  BY <1>10, <1>11, RebindsNeeded
<1> QED BY <1>10, <1>12
LEMMA IncRefHas ==
  ASSUME NEW s, MemOK(s), NEW info \in Infos(s), NEW t, t = IncRef(s, info)
  PROVE  /\ t.memInfo = s.memInfo /\ t.usesLeft = s.usesLeft /\ t.assert = s.assert
         /\ t.ssbo = s.ssbo /\ t.content = s.content
         /\ DOMAIN t.medium = DOMAIN s.medium
         /\ \A k \in DOMAIN s.medium :
              /\ t.medium[k].userptr = s.medium[k].userptr
              /\ t.medium[k].inUsing = s.medium[k].inUsing
              /\ t.medium[k].refCount =
                   IF info = Inter(k) THEN s.medium[k].refCount + 1 ELSE s.medium[k].refCount
<1>0. HasFields(s) /\ s.medium \in Seq(MediumInfo)
  BY DEF MemOK
<1>1. CASE \E j \in DOMAIN s.medium : info = Inter(j)
  <2>1. PICK j \in DOMAIN s.medium : info = Inter(j)
    BY <1>1
  <2>2. t = [s EXCEPT !.medium[j].refCount = @ + 1]
    BY <2>1 DEF IncRef, Inter
  <2>3. PICK e : e = [s.medium[j] EXCEPT !.refCount = @ + 1]
    OBVIOUS
  <2>4. PICK m : m = [s.medium EXCEPT ![j] = e]
    OBVIOUS
  <2>5. t = [s EXCEPT !.medium = m]
    BY <1>0, <2>2, <2>3, <2>4 DEF HasFields
  <2>6. /\ t.memInfo = s.memInfo /\ t.usesLeft = s.usesLeft /\ t.assert = s.assert
        /\ t.ssbo = s.ssbo /\ t.content = s.content /\ t.medium = m
    BY <1>0, <2>5 DEF HasFields
  <2>7. s.medium[j] \in MediumInfo
    BY <1>0
  <2>8. /\ e.userptr = s.medium[j].userptr /\ e.inUsing = s.medium[j].inUsing
        /\ e.refCount = s.medium[j].refCount + 1
    BY <2>3, <2>7 DEF MediumInfo
  <2>9. DOMAIN m = DOMAIN s.medium /\ m[j] = e /\ \A k \in DOMAIN m : k # j => m[k] = s.medium[k]
    BY <2>4
  <2>10. \A k : info = Inter(k) <=> k = j
    BY <2>1, InfosDiffer
  <2> QED BY <2>6, <2>8, <2>9, <2>10
<1>2. CASE ~ \E j \in DOMAIN s.medium : info = Inter(j)
  <2>1. info[1] # "intermedium"
    BY <1>2 DEF Infos, Request, InModel
  <2>2. t = s
    BY <2>1 DEF IncRef
  <2> QED BY <1>2, <2>2
<1> QED BY <1>1, <1>2

(* An intermediate buffer that a readable operand has is in use.           *)
LEMMA HeldInUse ==
  ASSUME prep \in Prepared, NEW s, MemOK(s), Kept(s), NEW W, Places(s, W), NEW x \in Operand,
         NEW k \in DOMAIN s.medium, s.memInfo[x] = Inter(k), s.medium[k].userptr = Null
  PROVE  x \in Holders(s, k) /\ s.medium[k].inUsing
<1>1. s.memInfo[x] # Null /\ x # Null
  BY NotNull, ModelFacts
<1>2. x \in Temporary
  BY <1>1, Lifetime, InfosDiffer DEF Places, GivenPlaces, Given, Arguments
<1> QED BY <1>2 DEF Holders, Kept

(* A RESHAPE to an output of the model: its buffer becomes that of x.      *)
Lends(s, o, x) ==
  IncRef([s EXCEPT !.ssbo = With(@, s.memInfo[o], s.ssbo[s.memInfo[x]])], s.memInfo[x])

LEMMA GivesBuffer ==
  ASSUME prep \in Prepared, NEW s, NEW W, NEW r, Sound(s, W, {}, r),
         NEW x \in Operand, Buffered(s, x), NEW o \in Outputs, o \notin W,
         ValueIn(o, r) = ValueIn(x, r),
         NEW t, t = Lends(s, o, x)
  PROVE  Sound(t, W \cup {o}, {}, r) /\ t.usesLeft = s.usesLeft /\ t.memInfo = s.memInfo
<1>0. /\ MemOK(s) /\ Homes(s) /\ Places(s, W) /\ Kept(s) /\ Exact(s, {}, r) /\ HasFields(s)
      /\ o \in Operand /\ o \notin Temporary
  BY Lifetime DEF Sound, MemOK, Outputs, Of
<1>1. PICK from, to : from = s.memInfo[x] /\ to = s.memInfo[o]
  OBVIOUS
<1>2. PICK g : g = With(s.ssbo, to, s.ssbo[from])
  OBVIOUS
<1>3. PICK c : c = [s EXCEPT !.ssbo = g]
  OBVIOUS
<1>4. t = IncRef(c, from)
  BY <1>0, <1>1, <1>2, <1>3 DEF HasFields, Lends
<1>5. /\ to = Request(o) /\ to \notin DOMAIN s.ssbo /\ to # Null
  BY <1>0, <1>1, NotNull DEF Places, Arguments
<1>6. /\ from \in DOMAIN s.ssbo /\ from # Null /\ s.ssbo[from] \in DOMAIN s.ssbo
      /\ s.ssbo[from] \in DOMAIN s.content /\ from \in Infos(s)
  BY <1>0, <1>1 DEF Buffered, Homes
<1>7. /\ DOMAIN g = DOMAIN s.ssbo \cup {to} /\ g[to] = s.ssbo[from]
      /\ \A m \in DOMAIN s.ssbo : g[m] = s.ssbo[m]
  BY <1>2, <1>5 DEF With
<1>8. /\ Alike(s, c) /\ c.ssbo = g /\ c.content = s.content
  BY <1>0, <1>3 DEF HasFields, Alike
<1>9. MemOK(c) /\ Infos(c) = Infos(s)
  BY <1>0, <1>8, AlikeKeeps
<1>10. MemOK(t)
  BY <1>4, <1>6, <1>9, IncRefKeeps
<1>11. /\ t.memInfo = s.memInfo /\ t.usesLeft = s.usesLeft
       /\ t.ssbo = g /\ t.content = s.content
       /\ DOMAIN t.medium = DOMAIN s.medium
       /\ \A k \in DOMAIN s.medium :
            /\ t.medium[k].userptr = s.medium[k].userptr
            /\ t.medium[k].inUsing = s.medium[k].inUsing
            /\ t.medium[k].refCount =
                 IF from = Inter(k) THEN s.medium[k].refCount + 1 ELSE s.medium[k].refCount
  BY <1>4, <1>6, <1>8, <1>9, IncRefHas DEF Alike
<1>12. Infos(t) = Infos(s)
  BY <1>11 DEF Infos
<1>13. Homes(t)
  <2>1. to \in Infos(s)
    BY <1>0, <1>1, <1>5 DEF MemOK
  <2> QED BY <1>0, <1>5, <1>6, <1>7, <1>11, <1>12, <2>1 DEF Homes
<1>14. Places(t, W \cup {o})
  <2>1. GivenPlaces(t)
    BY <1>0, <1>11 DEF Places, GivenPlaces
  <2>2. \A y \in Outputs : Request(y) \in DOMAIN g => y \in W \cup {o}
    BY <1>0, <1>5, <1>7, InfosDiffer DEF Places
  <2>3. \A y \in W \cup {o} : y \in Outputs => Request(y) \in DOMAIN g
    BY <1>0, <1>5, <1>7 DEF Places
  <2>4. \A y \in Temporary : s.memInfo[y] # Null => y \in W /\ s.memInfo[y] \in DOMAIN g
    BY <1>0, <1>7 DEF Places
  <2>5. \A y \in W \cup {o} : y \in Temporary /\ s.usesLeft[y] > 0 => s.memInfo[y] # Null
    BY <1>0 DEF Places
  <2>6. \A y \in Arguments : s.memInfo[y] = Request(y)
    BY <1>0 DEF Places
  <2> QED BY <1>11, <2>1, <2>2, <2>3, <2>4, <2>5, <2>6 DEF Places
<1>15. Kept(t)
  <2> SUFFICES ASSUME NEW k \in DOMAIN t.medium, t.medium[k].userptr = Null
               PROVE  /\ Holders(t, k) # {} \/ Lasting(t, k) => t.medium[k].inUsing
                      /\ t.medium[k].refCount >= Cardinality(Holders(t, k))
                      /\ Lasting(t, k) => t.medium[k].refCount > Cardinality(Holders(t, k))
    BY DEF Kept
  <2>1. /\ Holders(t, k) = Holders(s, k) /\ k \in DOMAIN s.medium /\ s.medium[k].userptr = Null
        /\ Cardinality(Holders(s, k)) \in Nat
    <3>1. Holders(t, k) = Holders(s, k)
      BY <1>11 DEF Holders
    <3> QED BY <1>11, <3>1, HolderCount
  <2>2. s.medium[k].refCount \in Nat
    <3>1. s.medium[k] \in MediumInfo
      BY <1>0, <2>1 DEF MemOK
    <3> QED BY <3>1 DEF MediumInfo
  <2>3. /\ Holders(s, k) # {} \/ Lasting(s, k) => s.medium[k].inUsing
        /\ s.medium[k].refCount >= Cardinality(Holders(s, k))
        /\ Lasting(s, k) => s.medium[k].refCount > Cardinality(Holders(s, k))
    BY <1>0, <2>1 DEF Kept
  <2>4. from = Inter(k) => s.medium[k].inUsing
    BY <1>0, <1>1, <2>1, HeldInUse
  <2>5. ASSUME Lasting(t, k), ~Lasting(s, k) PROVE from = Inter(k)
    <3>1. PICK y \in Outputs : Request(y) \in DOMAIN g /\ g[Request(y)] = Inter(k)
      BY <1>11, <2>5 DEF Lasting
    <3>2. Request(y) = to
      BY <1>7, <2>5, <3>1 DEF Lasting
    <3>3. s.ssbo[from] = Inter(k)
      BY <1>7, <3>1, <3>2
    <3>4. ~ \E z \in Outputs : from = Request(z)
      BY <1>6, <2>5, <3>3 DEF Lasting
    <3> QED BY <1>0, <1>6, <3>3, <3>4 DEF Homes
  <2>6. Lasting(t, k) => t.medium[k].inUsing /\ t.medium[k].refCount > Cardinality(Holders(s, k))
    <3>1. CASE Lasting(s, k)
      BY <1>11, <2>1, <2>2, <2>3, <3>1
    <3>2. CASE ~Lasting(s, k)
      BY <1>11, <2>1, <2>2, <2>3, <2>4, <2>5, <3>2
    <3> QED BY <3>1, <3>2
  <2>7. t.medium[k].refCount >= Cardinality(Holders(s, k))
    BY <1>11, <2>1, <2>2, <2>3
  <2> QED BY <1>11, <2>1, <2>3, <2>6, <2>7
<1>16. ASSUME NEW p \in Operand, Buffered(t, p) PROVE t.content[BufferOf(t, p)] = ValueIn(p, r)
  <2>1. CASE p = o
    <3>1. BufferOf(t, p) = BufferOf(s, x)
      BY <1>1, <1>7, <1>11, <2>1 DEF BufferOf
    <3> QED BY <1>0, <1>11, <2>1, <3>1 DEF Exact
  <2>2. CASE p # o
    <3>1. Alone(s, o)
      BY <1>0, <1>1, <1>5, UnbufferedAlone DEF Buffered
    <3>2. Buffered(s, p) /\ BufferOf(t, p) = BufferOf(s, p)
      BY <1>1, <1>7, <1>11, <1>16, <2>2, <3>1 DEF Alone, Buffered, BufferOf
    <3> QED BY <1>0, <1>11, <3>2 DEF Exact
  <2> QED BY <2>1, <2>2
<1>17. Exact(t, {}, r)
  BY <1>16 DEF Exact
<1> QED BY <1>10, <1>11, <1>13, <1>14, <1>15, <1>17 DEF Sound

(* A RESHAPE to a temporary, which gets the info of x.                     *)
LEMMA GivesInfo ==
  ASSUME prep \in Prepared, NEW s, NEW W, NEW r, Sound(s, W, {}, r),
         NEW x \in Operand, Buffered(s, x), NEW o \in Temporary, o \notin W,
         ValueIn(o, r) = ValueIn(x, r), NEW t, t = Shared(s, o, s.memInfo[x])
  PROVE  /\ Sound(t, W \cup {o}, {}, r) /\ t.usesLeft = s.usesLeft
         /\ \A p \in Operand : p # o => t.memInfo[p] = s.memInfo[p]
<1>0. /\ MemOK(s) /\ Homes(s) /\ Places(s, W) /\ Kept(s) /\ Exact(s, {}, r) /\ HasFields(s)
      /\ o \in Operand /\ o \notin Outputs /\ o \notin Arguments /\ o \notin Given
      /\ s.memInfo[o] = Null
  <2>1. o \in Operand
    BY ModelFacts
  <2> QED BY <2>1, Lifetime DEF Sound, MemOK, Places
<1>1. PICK from : from = s.memInfo[x]
  OBVIOUS
<1>2. PICK h : h = [s.memInfo EXCEPT ![o] = from]
  OBVIOUS
<1>3. PICK c : c = [s EXCEPT !.memInfo = h]
  OBVIOUS
<1>4. t = IncRef(c, from)
  BY <1>0, <1>1, <1>2, <1>3 DEF HasFields, Shared
<1>5. /\ from \in DOMAIN s.ssbo /\ from # Null /\ from \in Infos(s)
  BY <1>0, <1>1 DEF Buffered, Homes
<1>6. /\ HasFields(c) /\ c.medium = s.medium /\ c.memInfo = h
      /\ c.usesLeft = s.usesLeft /\ c.assert = s.assert
      /\ c.ssbo = s.ssbo /\ c.content = s.content
  BY <1>0, <1>3 DEF HasFields
<1>7. /\ h[o] = from /\ h \in [Operand -> Infos(s) \cup {Null}]
      /\ \A p \in Operand : p # o => h[p] = s.memInfo[p]
  <2>1. s.memInfo \in [Operand -> Infos(s) \cup {Null}]
    BY <1>0 DEF MemOK
  <2> QED BY <1>0, <1>2, <1>5, <2>1
<1>8. MemOK(c) /\ Infos(c) = Infos(s)
  <2>1. Infos(c) = Infos(s)
    BY <1>6 DEF Infos
  <2> QED BY <1>0, <1>6, <1>7, <2>1 DEF MemOK
<1>9. MemOK(t)
  BY <1>4, <1>5, <1>8, IncRefKeeps
<1>10. /\ t.memInfo = h /\ t.usesLeft = s.usesLeft
       /\ t.ssbo = s.ssbo /\ t.content = s.content
       /\ DOMAIN t.medium = DOMAIN s.medium
       /\ \A k \in DOMAIN s.medium :
            /\ t.medium[k].userptr = s.medium[k].userptr
            /\ t.medium[k].inUsing = s.medium[k].inUsing
            /\ t.medium[k].refCount =
                 IF from = Inter(k) THEN s.medium[k].refCount + 1 ELSE s.medium[k].refCount
  BY <1>4, <1>5, <1>6, <1>8, IncRefHas
<1>11. Homes(t)
  <2>1. Infos(t) = Infos(s)
    BY <1>10 DEF Infos
  <2> QED BY <1>0, <1>10, <2>1 DEF Homes
<1>12. Places(t, W \cup {o})
  <2>1. \A p : p \in Temporary \/ p \in Outputs \/ p \in Arguments \/ p \in Given => p \in Operand
    BY DEF Temporary, Arguments, Outputs, Given, Of
  <2>2. GivenPlaces(t)
    BY <1>0, <1>7, <1>10, <2>1 DEF Places, GivenPlaces, Given
  <2> QED BY <1>0, <1>5, <1>7, <1>10, <2>1, <2>2 DEF Places
<1>13. Kept(t)
  <2> SUFFICES ASSUME NEW k \in DOMAIN t.medium, t.medium[k].userptr = Null
               PROVE  /\ Holders(t, k) # {} \/ Lasting(t, k) => t.medium[k].inUsing
                      /\ t.medium[k].refCount >= Cardinality(Holders(t, k))
                      /\ Lasting(t, k) => t.medium[k].refCount > Cardinality(Holders(t, k))
    BY DEF Kept
  <2>1. /\ k \in DOMAIN s.medium /\ s.medium[k].userptr = Null
        /\ Cardinality(Holders(s, k)) \in Nat /\ IsFiniteSet(Holders(s, k))
        /\ Lasting(t, k) <=> Lasting(s, k)
    BY <1>10, HolderCount DEF Lasting
  <2>2. s.medium[k].refCount \in Nat
    <3>1. s.medium[k] \in MediumInfo
      BY <1>0, <2>1 DEF MemOK
    <3> QED BY <3>1 DEF MediumInfo
  <2>3. /\ Holders(s, k) # {} \/ Lasting(s, k) => s.medium[k].inUsing
        /\ s.medium[k].refCount >= Cardinality(Holders(s, k))
        /\ Lasting(s, k) => s.medium[k].refCount > Cardinality(Holders(s, k))
    BY <1>0, <2>1 DEF Kept
  <2>4. CASE from = Inter(k)
    <3>1. s.medium[k].inUsing
      BY <1>0, <1>1, <2>1, <2>4, HeldInUse
    <3>2. Holders(t, k) = Holders(s, k) \cup {o} /\ o \notin Holders(s, k)
      BY <1>0, <1>5, <1>7, <1>10, <2>4, ModelFacts DEF Holders
    <3>3. Cardinality(Holders(t, k)) = Cardinality(Holders(s, k)) + 1
      BY <2>1, <3>2, FS_AddElement
    <3> QED BY <1>10, <2>1, <2>2, <2>3, <2>4, <3>1, <3>3
  <2>5. CASE from # Inter(k)
    <3>1. Inter(k) # Null
      BY <1>0, <2>1, NotNull
    <3>2. Holders(t, k) = Holders(s, k)
      BY <1>0, <1>7, <1>10, <2>5, <3>1, ModelFacts DEF Holders
    <3> QED BY <1>10, <2>1, <2>3, <2>5, <3>2
  <2> QED BY <2>4, <2>5
<1>14. ASSUME NEW p \in Operand, Buffered(t, p) PROVE t.content[BufferOf(t, p)] = ValueIn(p, r)
  <2>1. PICK q \in Operand : Buffered(s, q) /\ s.memInfo[q] = h[p] /\ ValueIn(q, r) = ValueIn(p, r)
    <3>1. CASE p = o
      BY <1>1, <1>7, <3>1
    <3>2. CASE p # o
      BY <1>7, <1>10, <1>14, <3>2 DEF Buffered
    <3> QED BY <3>1, <3>2
  <2>2. BufferOf(t, p) = BufferOf(s, q)
    BY <1>10, <2>1 DEF BufferOf
  <2> QED BY <1>0, <1>10, <2>1, <2>2 DEF Exact
<1>15. Exact(t, {}, r)
  BY <1>14 DEF Exact
<1> QED BY <1>7, <1>9, <1>10, <1>11, <1>12, <1>13, <1>15 DEF Sound
LEMMA ShareSound ==
  ASSUME prep \in Prepared, NEW i \in DOMAIN Operations, Operations[i].type = "RESHAPE", NEW s,
         Sound(s, WrittenBy(i), {}, runs), Counted(s, i, 0), Needed(s),
         NEW t, t = ShareGpuStorage(s, Operations[i]), t.assert = "none"
  PROVE  Sound(t, WrittenBy(i + 1), {}, runs) /\ t.usesLeft = s.usesLeft /\ Needed(t)
<1> DEFINE op == Operations[i]
<1>1. PICK o, x : o = op.output /\ x = op.inputs[1]
  OBVIOUS
<1>2. PICK b : b = GetSSbo(s, x)
  OBVIOUS
<1>3. /\ o \in Temporary \cup Outputs /\ o \notin WrittenBy(i) /\ x \in Operand
      /\ WrittenBy(i + 1) = WrittenBy(i) \cup {o} /\ WrittenBy(i) \subseteq Temporary \cup Outputs
      /\ x \in Of("MODEL_INPUT") \/ x \in Given \/ x \in WrittenBy(i)
      /\ x \in OperandsOf(op) /\ o \in OperandsOf(op)
      /\ ValueIn(o, runs) = ValueIn(x, runs)
  <2>1. 1 \in DOMAIN op.inputs
    BY OperationFacts
  <2> QED BY <1>1, <2>1, OperationFacts, WrittenFacts, ValueFacts DEF OperandsOf
<1>4. t = IF b.assert # "none" THEN b
          ELSE IF o \in Outputs THEN Lends(b, o, x)
          ELSE IF b.memInfo[o] # Null THEN Stops(b, "shared")
          ELSE Shared(b, o, b.memInfo[x])
  <2>1. t = ShareGpuStorage(s, op)
    OBVIOUS
  <2> HIDE DEF op
  <2> QED BY <1>1, <1>2, <2>1 DEF ShareGpuStorage, Lends, Shared
<1> HIDE DEF op
<1>5. b.assert = "none"
  BY <1>4
<1>6. Legible(s, WrittenBy(i), x)
  BY <1>3, StillRead DEF Legible, op
<1>7. Sound(b, WrittenBy(i), {}, runs) /\ Buffered(b, x) /\ b.usesLeft = s.usesLeft /\ MemOK(b)
  <2>1. Sound(b, WrittenBy(i), {}, runs) /\ Buffered(b, x) /\ b.usesLeft = s.usesLeft
    BY <1>2, <1>3, <1>5, <1>6, InputBound
  <2> QED BY <2>1 DEF Sound
<1>8. \A p \in Operand : p # x => b.memInfo[p] = s.memInfo[p]
  <2>1. MemOK(s)
    BY DEF Sound
  <2> QED BY <1>2, <1>3, <2>1, GetSSboBinds DEF Binds
<1>9. {x, o} \subseteq OperandsOf(Operations[i])
  BY <1>3 DEF op
<1>10. CASE o \in Outputs
  <2>1. t = Lends(b, o, x)
    BY <1>4, <1>5, <1>10
  <2>2. Sound(t, WrittenBy(i + 1), {}, runs) /\ t.usesLeft = s.usesLeft /\ t.memInfo = b.memInfo
    BY <1>3, <1>7, <1>10, <2>1, GivesBuffer
  <2>3. Needed(t)
    <3>1. \A p \in Operand : p \notin {x, o} => t.memInfo[p] = s.memInfo[p]
      BY <1>8, <2>2
    <3> QED BY <1>9, <2>2, <3>1, RebindsNeeded
  <2> QED BY <2>2, <2>3
<1>11. CASE o \notin Outputs
  <2>1. o \in Temporary /\ t = Shared(b, o, b.memInfo[x])
    <3>1. Stops(b, "shared").assert # "none"
      BY <1>7, StopsKeeps DEF Asserts
    <3> QED BY <1>3, <1>4, <1>5, <1>11, <3>1
  <2>2. /\ Sound(t, WrittenBy(i + 1), {}, runs) /\ t.usesLeft = b.usesLeft
        /\ \A p \in Operand : p # o => t.memInfo[p] = b.memInfo[p]
    BY <1>3, <1>7, <2>1, GivesInfo
  <2>3. Needed(t)
    <3>1. \A p \in Operand : p \notin {x, o} => t.memInfo[p] = s.memInfo[p]
      BY <1>8, <2>2
    <3>2. t.usesLeft = s.usesLeft
      BY <1>7, <2>2
    <3> QED BY <1>9, <3>1, <3>2, RebindsNeeded
  <2> QED BY <1>7, <2>2, <2>3
<1> QED BY <1>10, <1>11

-------------------------------------------------------------------------------
(* Reads that are done.                                                    *)

LEMMA ReleaseHas ==
  ASSUME NEW s, HasFields(s), NEW k \in DOMAIN s.medium, s.medium \in Seq(MediumInfo),
         s.medium[k].refCount # 0, NEW t, t = SetNotInUsing(s, Inter(k))
  PROVE  /\ t.memInfo = s.memInfo /\ t.usesLeft = s.usesLeft /\ t.assert = s.assert
         /\ t.ssbo = s.ssbo /\ t.content = s.content
         /\ DOMAIN t.medium = DOMAIN s.medium
         /\ \A j \in DOMAIN s.medium : j # k => t.medium[j] = s.medium[j]
         /\ t.medium[k].userptr = s.medium[k].userptr
         /\ t.medium[k].refCount = s.medium[k].refCount - 1
         /\ s.medium[k].inUsing /\ s.medium[k].refCount > 1 => t.medium[k].inUsing
<1>1. PICK n : n = s.medium[k].refCount
  OBVIOUS
<1>2. t = [s EXCEPT !.medium[k].refCount = n - 1, !.medium[k].inUsing = @ /\ n > 1]
  BY <1>1 DEF SetNotInUsing, Inter
<1>3. s.medium[k] \in MediumInfo
  OBVIOUS
<1>4. PICK using : using = (s.medium[k].inUsing /\ n > 1)
  OBVIOUS
<1>5. PICK e : e = [s.medium[k] EXCEPT !.refCount = n - 1, !.inUsing = using]
  OBVIOUS
<1>6. PICK m : m = [s.medium EXCEPT ![k] = e]
  OBVIOUS
<1>7. t = [s EXCEPT !.medium = m]
  <2> DEFINE g == [s.medium EXCEPT ![k].refCount = n - 1, ![k].inUsing = @ /\ n > 1]
  <2>1. t = [s EXCEPT !.medium = g]
    BY <1>2 DEF HasFields
  <2>2. g = m
    BY <1>3, <1>4, <1>5, <1>6 DEF MediumInfo
  <2> HIDE DEF g
  <2> QED BY <2>1, <2>2
<1>8. /\ t.memInfo = s.memInfo /\ t.usesLeft = s.usesLeft /\ t.assert = s.assert
      /\ t.ssbo = s.ssbo /\ t.content = s.content /\ t.medium = m
  BY <1>7 DEF HasFields
<1>9. e.userptr = s.medium[k].userptr /\ e.refCount = n - 1 /\ e.inUsing = using
  BY <1>3, <1>5 DEF MediumInfo
<1>10. DOMAIN m = DOMAIN s.medium /\ m[k] = e /\ \A j \in DOMAIN m : j # k => m[j] = s.medium[j]
  BY <1>6
<1> QED BY <1>1, <1>4, <1>8, <1>9, <1>10

(* The temporary o has given back what it had.                             *)
LEMMA LoseSound ==
  ASSUME prep \in Prepared, NEW s, NEW W, NEW r, Sound(s, W, {}, r), NEW o \in Temporary,
         NEW t, MemOK(t), t.ssbo = s.ssbo, t.content = s.content,
         t.memInfo[o] = Null, \A p \in Operand : p # o => t.memInfo[p] = s.memInfo[p],
         ~(t.usesLeft[o] > 0), \A p \in Temporary : p # o => t.usesLeft[p] = s.usesLeft[p],
         DOMAIN t.medium = DOMAIN s.medium,
         \A k \in DOMAIN s.medium :
           /\ s.memInfo[o] # Inter(k) => t.medium[k] = s.medium[k]
           /\ s.memInfo[o] = Inter(k) =>
                /\ t.medium[k].userptr = s.medium[k].userptr
                /\ t.medium[k].refCount = s.medium[k].refCount - 1
                /\ s.medium[k].inUsing /\ s.medium[k].refCount > 1 => t.medium[k].inUsing
  PROVE  Sound(t, W, {}, r)
<1>0. /\ MemOK(s) /\ Homes(s) /\ Places(s, W) /\ Kept(s) /\ Exact(s, {}, r) /\ o \in Operand
  BY ModelFacts DEF Sound
<1>1. o \notin Arguments /\ o \notin Outputs /\ o \notin Given
  BY <1>0, Lifetime
<1>2. \A p : p \in Temporary \/ p \in Outputs \/ p \in Arguments \/ p \in Given => p \in Operand
  BY DEF Temporary, Arguments, Outputs, Given, Of
<1>3. Homes(t)
  <2>1. Infos(t) = Infos(s)
    BY DEF Infos
  <2> QED BY <1>0, <2>1 DEF Homes
<1>4. \A k \in DOMAIN s.medium : t.medium[k].userptr = s.medium[k].userptr
  OBVIOUS
<1>5. Places(t, W)
  <2>1. GivenPlaces(t)
    BY <1>0, <1>1, <1>2, <1>4 DEF Places, GivenPlaces, Given
  <2> QED BY <1>0, <1>1, <1>2, <2>1 DEF Places
<1>6. Kept(t)
  <2> SUFFICES ASSUME NEW k \in DOMAIN t.medium, t.medium[k].userptr = Null
               PROVE  /\ Holders(t, k) # {} \/ Lasting(t, k) => t.medium[k].inUsing
                      /\ t.medium[k].refCount >= Cardinality(Holders(t, k))
                      /\ Lasting(t, k) => t.medium[k].refCount > Cardinality(Holders(t, k))
    BY DEF Kept
  <2>1. /\ k \in DOMAIN s.medium /\ s.medium[k].userptr = Null
        /\ Lasting(t, k) <=> Lasting(s, k)
    BY <1>4 DEF Lasting
  <2>2. /\ Holders(s, k) # {} \/ Lasting(s, k) => s.medium[k].inUsing
        /\ s.medium[k].refCount >= Cardinality(Holders(s, k))
        /\ Lasting(s, k) => s.medium[k].refCount > Cardinality(Holders(s, k))
    BY <1>0, <2>1 DEF Kept
  <2>3. Inter(k) # Null
    BY <1>0, <2>1, NotNull
  <2>4. CASE s.memInfo[o] = Inter(k)
    <3>1. Holders(t, k) = Holders(s, k) \ {o} /\ o \in Holders(s, k)
      BY <1>2, <2>3, <2>4 DEF Holders
    <3>2. Cardinality(Holders(t, k)) = Cardinality(Holders(s, k)) - 1
      <4>1. IsFiniteSet(Holders(s, k))
        BY HolderCount
      <4>2. Cardinality(Holders(s, k) \ {o}) = Cardinality(Holders(s, k)) - 1
        BY <3>1, <4>1, FS_RemoveElement
      <4> QED BY <3>1, <4>2
    <3>3. /\ Cardinality(Holders(s, k)) \in Nat /\ Cardinality(Holders(t, k)) \in Nat
          /\ Holders(t, k) # {} => Cardinality(Holders(t, k)) >= 1
      BY HolderCount
    <3>4. s.medium[k].refCount \in Nat
      <4>1. s.medium[k] \in MediumInfo
        BY <1>0, <2>1 DEF MemOK
      <4> QED BY <4>1 DEF MediumInfo
    <3>5. Holders(t, k) # {} \/ Lasting(t, k) => s.medium[k].inUsing /\ s.medium[k].refCount > 1
      <4>1. s.medium[k].inUsing
        BY <2>2, <3>1
      <4>2. ASSUME Holders(t, k) # {} PROVE s.medium[k].refCount > 1
        BY <2>2, <3>2, <3>3, <3>4, <4>2
      <4>3. ASSUME Lasting(t, k) PROVE s.medium[k].refCount > 1
        BY <2>1, <2>2, <3>2, <3>3, <3>4, <4>3
      <4> QED BY <4>1, <4>2, <4>3
    <3>6. t.medium[k].refCount = s.medium[k].refCount - 1
      BY <2>1, <2>4
    <3>7. Holders(t, k) # {} \/ Lasting(t, k) => t.medium[k].inUsing
      BY <2>1, <2>4, <3>5
    <3> QED BY <2>1, <2>2, <3>2, <3>3, <3>4, <3>6, <3>7
  <2>5. CASE s.memInfo[o] # Inter(k)
    <3>1. Holders(t, k) = Holders(s, k) /\ t.medium[k] = s.medium[k]
      BY <1>2, <2>1, <2>3, <2>5 DEF Holders
    <3> QED BY <2>1, <2>2, <3>1
  <2> QED BY <2>4, <2>5
<1>7. ASSUME NEW p \in Operand, Buffered(t, p) PROVE t.content[BufferOf(t, p)] = ValueIn(p, r)
  <2>1. p # o /\ Buffered(s, p) /\ BufferOf(t, p) = BufferOf(s, p)
    BY <1>7 DEF Buffered, BufferOf
  <2> QED BY <1>0, <2>1 DEF Exact
<1>8. Exact(t, {}, r)
  BY <1>7 DEF Exact
<1> QED BY <1>3, <1>5, <1>6, <1>8 DEF Sound
LEMMA MarkSound ==
  ASSUME prep \in Prepared, NEW s, NEW W, NEW r, Sound(s, W, {}, r), NEW o \in Operand,
         o \in Temporary => s.usesLeft[o] > 0,
         NEW t, t = MarkFinished(s, o), t.assert = "none"
  PROVE  Sound(t, W, {}, r)
<1> DEFINE left == [s.usesLeft EXCEPT ![o] = @ - 1]
           u    == [s EXCEPT !.usesLeft[o] = @ - 1]
           f    == [s.memInfo EXCEPT ![o] = Null]
           v    == [u EXCEPT !.memInfo[o] = Null]
<1>0. /\ MemOK(s) /\ Homes(s) /\ Places(s, W) /\ Kept(s) /\ Exact(s, {}, r) /\ HasFields(s)
      /\ s.memInfo \in [Operand -> Infos(s) \cup {Null}] /\ s.medium \in Seq(MediumInfo)
      /\ s.usesLeft \in [Operand -> Nat]
  BY DEF Sound, MemOK
<1>1. /\ MemOK(t) /\ s.assert = "none"
      /\ \A x \in Temporary : t.usesLeft[x] = IF x = o THEN s.usesLeft[x] - 1 ELSE s.usesLeft[x]
  BY <1>0, MarkKeeps DEF Marks
<1>2. CASE o \notin Temporary
  <2>1. t = s
    BY <1>2 DEF MarkFinished
  <2> QED BY <2>1
<1> SUFFICES ASSUME o \in Temporary PROVE Sound(t, W, {}, r)
  BY <1>2
<1>3. PICK info : info = s.memInfo[o]
  OBVIOUS
<1>4. t = IF info = Null THEN Stops(s, "finished")
          ELSE IF u.usesLeft[o] > 0 THEN u ELSE SetNotInUsing(v, info)
  BY <1>1, <1>3 DEF MarkFinished
<1>5. info # Null
  BY <1>0, <1>4, StopsKeeps DEF Asserts
<1>6. /\ HasFields(u) /\ u.medium = s.medium /\ u.memInfo = s.memInfo /\ u.usesLeft = left
      /\ u.assert = s.assert /\ u.ssbo = s.ssbo /\ u.content = s.content
  <2>1. u = Changed(s, s.medium, s.memInfo, left)
    BY <1>0 DEF Changed, HasFields
  <2> HIDE DEF u, left
  <2> QED BY <1>0, <2>1, ChangedHas
<1>7. left[o] = s.usesLeft[o] - 1 /\ \A x \in Operand : x # o => left[x] = s.usesLeft[x]
  BY <1>0
<1>8. CASE u.usesLeft[o] > 0
  <2>1. t = u
    BY <1>4, <1>5, <1>8
  <2> HIDE DEF u, left
  <2>2. GivenPlaces(t)
    BY <1>0, <1>6, <2>1 DEF Places, GivenPlaces
  <2>3. \A x \in Temporary : t.usesLeft[x] > 0 => s.usesLeft[x] > 0
    BY <1>1
  <2>4. Places(t, W)
    BY <1>0, <1>6, <2>1, <2>2, <2>3 DEF Places
  <2>5. Infos(t) = Infos(s)
    BY <1>6, <2>1 DEF Infos
  <2>6. Homes(t)
    BY <1>0, <1>6, <2>1, <2>5 DEF Homes
  <2>7. Kept(t)
    BY <1>0, <1>6, <2>1, KeptAlike DEF Lasting
  <2>8. Exact(t, {}, r)
    BY <1>0, <1>6, <2>1 DEF Exact, Buffered, BufferOf
  <2> QED BY <1>1, <2>4, <2>6, <2>7, <2>8 DEF Sound
<1>9. CASE ~(u.usesLeft[o] > 0)
  <2>1. t = SetNotInUsing(v, info) /\ info \in Infos(s)
    BY <1>0, <1>3, <1>4, <1>5, <1>9
  <2>2. /\ HasFields(v) /\ v.medium = s.medium /\ v.memInfo = f /\ v.usesLeft = left
        /\ v.assert = s.assert /\ v.ssbo = s.ssbo /\ v.content = s.content
    <3> HIDE DEF u
    <3>1. v = Changed(u, u.medium, f, u.usesLeft)
      BY <1>6 DEF Changed, HasFields
    <3> HIDE DEF v, f
    <3> QED BY <1>6, <3>1, ChangedHas
  <2>3. f[o] = Null /\ \A p \in Operand : p # o => f[p] = s.memInfo[p]
    BY <1>0
  <2>4. ~(left[o] > 0)
    BY <1>6, <1>9
  <2> HIDE DEF u, v, f, left
  <2>5. ~(t.usesLeft[o] > 0) /\ \A p \in Temporary : p # o => t.usesLeft[p] = s.usesLeft[p]
    BY <1>1, <1>7, <2>4
  <2>6. CASE \E k \in DOMAIN s.medium : info = Inter(k)
    <3>1. PICK k \in DOMAIN s.medium : info = Inter(k)
      BY <2>6
    <3>2. s.medium[k].refCount # 0
      <4>1. ASSUME s.medium[k].refCount = 0 PROVE FALSE
        <5>1. t = Stops(v, "refCount")
          BY <2>1, <2>2, <3>1, <4>1 DEF SetNotInUsing, Inter
        <5>2. t.assert = "refCount"
          BY <2>2, <5>1 DEF Stops, HasFields
        <5> QED BY <5>2
      <4> QED BY <4>1
    <3>3. /\ t.memInfo = f /\ t.ssbo = s.ssbo /\ t.content = s.content
          /\ DOMAIN t.medium = DOMAIN s.medium
          /\ \A j \in DOMAIN s.medium : j # k => t.medium[j] = s.medium[j]
          /\ t.medium[k].userptr = s.medium[k].userptr
          /\ t.medium[k].refCount = s.medium[k].refCount - 1
          /\ s.medium[k].inUsing /\ s.medium[k].refCount > 1 => t.medium[k].inUsing
      BY <1>0, <2>1, <2>2, <3>1, <3>2, ReleaseHas
    <3>4. \A j : s.memInfo[o] = Inter(j) <=> j = k
      BY <1>3, <3>1, InfosDiffer
    <3> QED BY <1>1, <2>3, <2>5, <3>3, <3>4, LoseSound
  <2>7. CASE ~ \E k \in DOMAIN s.medium : info = Inter(k)
    <3>1. info[1] # "intermedium"
      BY <2>1, <2>7 DEF Infos, Request, InModel
    <3>2. t = v
      BY <2>1, <3>1 DEF SetNotInUsing
    <3> QED BY <1>1, <1>3, <2>2, <2>3, <2>5, <2>7, <3>2, LoseSound
  <2> QED BY <2>6, <2>7
<1> QED BY <1>8, <1>9
LEMMA FinishedSound ==
  ASSUME prep \in Prepared, NEW i \in DOMAIN Operations, NEW s, NEW W, NEW r,
         Sound(s, W, {}, r), Counted(s, i, 0), Needed(s),
         NEW t, t = Finished(s, Operations[i]), t.assert = "none"
  PROVE  Sound(t, W, {}, r) /\ Needed(t)
<1> DEFINE op   == Operations[i]
           last == Len(op.inputs)
<1>1. /\ last \in Nat /\ DOMAIN op.inputs = 1 .. last
      /\ \A n \in 1 .. last : op.inputs[n] \in Operand
  BY OperationFacts
<1>2. PICK f : /\ f[0] = s
               /\ \A n \in 1 .. last : f[n] = MarkFinished(f[n - 1], op.inputs[n])
               /\ t = f[last]
  <2> HIDE DEF op
  <2>1. t = Finished(s, op)
    BY DEF op
  <2> QED BY <1>1, <2>1, MarkedInSteps
<1> DEFINE Half(u, n) == MemOK(u) /\ (u.assert = "none" => Counted(u, i, n) /\ Sound(u, W, {}, r))
           S == {n \in 0 .. last : Half(f[n], n)}
<1>4. 0 \in S
  BY <1>1, <1>2 DEF Sound
<1>5. ASSUME NEW n \in 0 .. last, n < last, n \in S PROVE n + 1 \in S
  <2>1. n + 1 \in 1 .. last /\ n + 1 - 1 = n /\ n + 1 \in 0 .. last
    BY <1>1, <1>5
  <2>2. PICK o : o = op.inputs[n + 1]
    OBVIOUS
  <2>3. PICK a, b : a = f[n] /\ b = f[n + 1]
    OBVIOUS
  <2>4. PICK m : m = n + 1
    OBVIOUS
  <2>5. /\ b = MarkFinished(a, o) /\ o \in Operand /\ Half(a, n)
        /\ m \in DOMAIN Operations[i].inputs /\ m - 1 = n /\ o = Operations[i].inputs[m]
    BY <1>1, <1>2, <1>5, <2>1, <2>2, <2>3, <2>4
  <2> HIDE DEF op
  <2>6. /\ a.assert = "none" /\ o \in Temporary => a.usesLeft[o] > 0
        /\ Marks(a, b, o)
        /\ b.assert = "none" => Counted(b, i, m)
    BY <2>5, MarkCounts
  <2>7. MemOK(b) /\ (b.assert = "none" => a.assert = "none")
    BY <2>6 DEF Marks
  <2>8. b.assert = "none" => Sound(b, W, {}, r)
    BY <2>5, <2>6, <2>7, MarkSound
  <2> QED BY <2>1, <2>3, <2>4, <2>6, <2>7, <2>8
<1>6. last \in S
  <2> HIDE DEF S, last
  <2>1. last \in Nat
    BY <1>1
  <2>2. \A n \in 0 .. last : n \in S
    BY <1>4, <1>5, <2>1, UpTo
  <2> QED BY <2>1, <2>2
<1>7. Finishes(s, t, i)
  <2>1. MemOK(s)
    BY DEF Sound
  <2> QED BY <2>1, FinishedKeeps
<1>8. Needed(t)
  BY <1>7 DEF Finishes
<1>9. Half(t, last)
  BY <1>2, <1>6
<1> QED BY <1>8, <1>9

(* An operation that succeeds has written its output, and every buffer     *)
(* contains the value of the operands that have it.                        *)
LEMMA DoneSound ==
  ASSUME prep \in Prepared, NEW i \in DOMAIN Operations, NEW s,
         Sound(s, WrittenBy(i), {}, runs), Counted(s, i, 0), Needed(s),
         NEW t, t = Done(s, Operations[i]), t.assert = "none"
  PROVE  Sound(t, WrittenBy(i + 1), {}, runs) /\ Needed(t)
<1> DEFINE op == Operations[i]
<1>1. PICK b : b = IF op.type = "RESHAPE" THEN ShareGpuStorage(s, op) ELSE Dispatch(s, op)
  OBVIOUS
<1>2. t = Finished(b, op)
  BY <1>1 DEF Done
<1>3. MemOK(b) /\ b.usesLeft = s.usesLeft
  <2>1. MemOK(s)
    BY DEF Sound
  <2>2. CASE op.type = "RESHAPE"
    BY <1>1, <2>1, <2>2, ShareRebinds
  <2>3. CASE op.type # "RESHAPE"
    BY <1>1, <2>1, <2>3, DispatchRebinds
  <2> QED BY <2>2, <2>3
<1>4. Counted(b, i, 0)
  BY <1>3 DEF Counted
<1>5. b.assert = "none"
  <2>1. Finishes(b, t, i)
    BY <1>2, <1>3, <1>4, FinishedKeeps
  <2> QED BY <2>1 DEF Finishes
<1>6. Sound(b, WrittenBy(i + 1), {}, runs) /\ Needed(b)
  <2>1. CASE op.type = "RESHAPE"
    <3>1. b = ShareGpuStorage(s, op)
      BY <1>1, <2>1
    <3> QED BY <1>5, <2>1, <3>1, ShareSound
  <2>2. CASE op.type # "RESHAPE"
    <3>1. b = Dispatch(s, op)
      BY <1>1, <2>2
    <3> QED BY <1>5, <3>1, DispatchSound
  <2> QED BY <2>1, <2>2
<1> QED BY <1>2, <1>4, <1>6, FinishedSound
-------------------------------------------------------------------------------
(* Executions.                                                             *)

(* What is left for the next execution.                                    *)
LEMMA BeginHas ==
  ASSUME NEW s, HasFields(s), NEW t, t = SetArgs(ResetFromRequest(Restored(s)))
  PROVE  /\ t.medium = ResetRef(s.medium)
         /\ t.memInfo = [o \in Operand |-> IF o \in Arguments THEN Request(o) ELSE s.memInfo[o]]
         /\ t.ssbo = [m \in {j \in DOMAIN s.ssbo : ~OfRequest(j)} |-> s.ssbo[m]]
         /\ t.content = [b \in DOMAIN s.content |->
                           IF b \in Deleted(s) THEN Unknown ELSE s.content[b]]
<1>1. PICK u : u = Restored(s)
  OBVIOUS
<1>2. /\ HasFields(u) /\ u.medium = s.medium /\ u.memInfo = s.memInfo /\ u.ssbo = s.ssbo
      /\ u.content = s.content
  <2>1. PICK left : left = [o \in Operand |-> IF o \in Temporary THEN numberOfConsumers(o) ELSE 0]
    OBVIOUS
  <2>2. u = [s EXCEPT !.usesLeft = left]
    BY <1>1, <2>1 DEF Restored
  <2> QED BY <2>2 DEF HasFields
<1>3. Deleted(u) = Deleted(s)
  BY <1>2 DEF Deleted
<1>4. PICK g : g = [m \in {j \in DOMAIN s.ssbo : ~OfRequest(j)} |-> s.ssbo[m]]
  OBVIOUS
<1>5. PICK c : c = [b \in DOMAIN s.content |-> IF b \in Deleted(s) THEN Unknown ELSE s.content[b]]
  OBVIOUS
<1>6. PICK v : v = ResetFromRequest(u)
  OBVIOUS
<1>7. v = [u EXCEPT !.ssbo = g, !.content = c, !.medium = ResetRef(s.medium)]
  BY <1>2, <1>3, <1>4, <1>5, <1>6 DEF ResetFromRequest, HasFields
<1>8. /\ HasFields(v) /\ v.medium = ResetRef(s.medium) /\ v.memInfo = s.memInfo
      /\ v.ssbo = g /\ v.content = c
  BY <1>2, <1>7 DEF HasFields
<1>9. PICK f : f = [o \in Operand |-> IF o \in Arguments THEN Request(o) ELSE s.memInfo[o]]
  OBVIOUS
<1>10. t = [v EXCEPT !.memInfo = f]
  BY <1>1, <1>6, <1>8, <1>9 DEF SetArgs, HasFields
<1> QED BY <1>4, <1>5, <1>8, <1>9, <1>10 DEF HasFields

LEMMA BeginSound ==
  ASSUME prep \in Prepared, NEW s, MemOK(s), Idle(s), NEW r,
         NEW t, t = SetArgs(ResetFromRequest(Restored(s)))
  PROVE  Sound(t, {}, {}, r) /\ Needed(t)
<1>0. /\ HasFields(s) /\ Homes(s) /\ GivenPlaces(s) /\ \A o \in Temporary : s.memInfo[o] = Null
      /\ \A o \in Given : Buffered(s, o) =>
           s.content[BufferOf(s, o)] = [of |-> o, run |-> 0] /\ BufferOf(s, o) \notin Deleted(s)
  BY DEF Idle, MemOK
<1>1. MemOK(t)
  BY RestoredKeeps, BeginKeeps
<1>2. PICK g, c : /\ g = [m \in {j \in DOMAIN s.ssbo : ~OfRequest(j)} |-> s.ssbo[m]]
                  /\ c = [b \in DOMAIN s.content |->
                            IF b \in Deleted(s) THEN Unknown ELSE s.content[b]]
  OBVIOUS
<1>3. /\ t.medium = ResetRef(s.medium) /\ t.ssbo = g /\ t.content = c
      /\ t.memInfo = [o \in Operand |-> IF o \in Arguments THEN Request(o) ELSE s.memInfo[o]]
  BY <1>0, <1>2, BeginHas
<1>4. /\ DOMAIN g = {j \in DOMAIN s.ssbo : ~OfRequest(j)}
      /\ \A m \in DOMAIN g : m \in DOMAIN s.ssbo /\ g[m] = s.ssbo[m] /\ ~OfRequest(m)
      /\ DOMAIN c = DOMAIN s.content
      /\ \A b \in DOMAIN c : b \notin Deleted(s) => c[b] = s.content[b]
  BY <1>2
<1>5. /\ DOMAIN t.medium = DOMAIN s.medium
      /\ \A k \in DOMAIN s.medium : /\ t.medium[k].userptr = s.medium[k].userptr
                                    /\ t.medium[k].refCount = 0
  <2>1. s.medium \in Seq(MediumInfo)
    BY DEF MemOK
  <2>2. \A k \in DOMAIN s.medium : s.medium[k] \in MediumInfo
    BY <2>1
  <2> QED BY <1>3, <2>2 DEF ResetRef, MediumInfo
<1>6. /\ \A o \in Arguments : t.memInfo[o] = Request(o)
      /\ \A o \in Operand : o \notin Arguments => t.memInfo[o] = s.memInfo[o]
      /\ \A o : o \in Arguments \/ o \in Outputs \/ o \in Temporary \/ o \in Given => o \in Operand
  <2>1. \A o : o \in Arguments \/ o \in Outputs \/ o \in Temporary \/ o \in Given => o \in Operand
    BY DEF Arguments, Outputs, Temporary, Given, Of
  <2> QED BY <1>3, <2>1
<1>7. \A o : Request(o) \notin DOMAIN g
  BY <1>4 DEF OfRequest, Request
<1>8. \A o \in Temporary : t.memInfo[o] = Null
  BY <1>0, <1>6, Lifetime
<1>9. \A o \in Given : t.memInfo[o] = s.memInfo[o]
  BY <1>6, Lifetime
<1>10. Homes(t)
  <2>1. Infos(t) = Infos(s)
    BY <1>5 DEF Infos
  <2>2. ASSUME NEW m \in DOMAIN g PROVE g[m] = m /\ m \in DOMAIN c /\ m \in Infos(s)
    <3>1. s.ssbo[m] = m
      BY <1>0, <1>4, <1>7 DEF Homes
    <3> QED BY <1>0, <1>4, <3>1 DEF Homes
  <2> QED BY <1>3, <2>1, <2>2 DEF Homes
<1>11. Places(t, {})
  <2>1. GivenPlaces(t)
    BY <1>0, <1>5, <1>9 DEF GivenPlaces, Given
  <2> QED BY <1>3, <1>6, <1>7, <1>8, <2>1 DEF Places
<1>12. Kept(t)
  <2>1. ASSUME NEW k \in DOMAIN t.medium
        PROVE  Holders(t, k) = {} /\ ~Lasting(t, k) /\ t.medium[k].refCount = 0
    <3>1. Inter(k) # Null
      BY <1>1, NotNull
    <3> QED BY <1>3, <1>5, <1>7, <1>8, <3>1 DEF Holders, Lasting
  <2>2. \A k \in DOMAIN t.medium : Cardinality(Holders(t, k)) = 0 /\ t.medium[k].refCount >= 0
    <3>1. Cardinality({}) = 0
      BY FS_EmptySet
    <3> QED BY <2>1, <3>1
  <2> QED BY <2>1, <2>2 DEF Kept
<1>13. ASSUME NEW o \in Operand, Buffered(t, o) PROVE t.content[BufferOf(t, o)] = ValueIn(o, r)
  <2>1. o \in Given
    BY <1>3, <1>6, <1>7, <1>8, <1>13, Lifetime DEF Buffered
  <2>2. Buffered(s, o) /\ BufferOf(t, o) = BufferOf(s, o)
    BY <1>3, <1>4, <1>9, <1>13, <2>1 DEF Buffered, BufferOf
  <2>3. BufferOf(s, o) \in DOMAIN s.content
    BY <1>0, <2>2 DEF Homes, Buffered, BufferOf
  <2>4. ValueIn(o, r) = [of |-> o, run |-> 0]
    BY <2>1, ValueFacts
  <2>5. t.content[BufferOf(t, o)] = s.content[BufferOf(s, o)]
    BY <1>0, <1>3, <1>4, <2>1, <2>2, <2>3
  <2>6. s.content[BufferOf(s, o)] = [of |-> o, run |-> 0]
    BY <1>0, <2>1, <2>2
  <2> QED BY <2>4, <2>5, <2>6
<1>14. Exact(t, {}, r)
  BY <1>13 DEF Exact
<1> QED BY <1>1, <1>8, <1>10, <1>11, <1>12, <1>14 DEF Sound, Needed

(* When all has been run the outputs have their values, and what is        *)
(* deleted with the request is not a constant, which an output would have  *)
(* to be a RESHAPE of.                                                     *)
LEMMA EndSound ==
  ASSUME prep \in Prepared, KeepsConstants(prep), NEW s, NEW r, r # 0,
         Sound(s, WrittenBy(Len(Operations) + 1), {}, r),
         Counted(s, Len(Operations) + 1, 0), Needed(s)
  PROVE  Idle(s) /\ \A o \in Outputs : s.content[BufferOf(s, o)] = ValueIn(o, r)
<1> DEFINE W == WrittenBy(Len(Operations) + 1)
<1>0. /\ MemOK(s) /\ Homes(s) /\ Places(s, W) /\ GivenPlaces(s) /\ Exact(s, {}, r)
      /\ Outputs \subseteq W
  BY AllWritten DEF Sound, Places
<1> HIDE DEF W
<1>1. \A o \in Temporary : s.memInfo[o] = Null
  <2>1. \A o \in Temporary : s.usesLeft[o] = 0
    BY ReadsOfAll DEF Counted
  <2> QED BY <2>1 DEF Needed
<1>2. \A o : o \in Arguments \/ o \in Outputs \/ o \in Given => o \in Operand
  BY DEF Arguments, Outputs, Given, Of
<1>3. ASSUME NEW o \in Outputs
      PROVE  Buffered(s, o) /\ s.memInfo[o] = Request(o)
             /\ s.content[BufferOf(s, o)] = ValueIn(o, r)
  <2>1. Buffered(s, o) /\ s.memInfo[o] = Request(o)
    BY <1>0, <1>2, NotNull DEF Places, Buffered, Arguments
  <2> QED BY <1>0, <1>2, <2>1 DEF Exact
<1>4. ASSUME NEW o \in Given, Buffered(s, o)
      PROVE  s.content[BufferOf(s, o)] = [of |-> o, run |-> 0] /\ BufferOf(s, o) \notin Deleted(s)
  <2>1. s.content[BufferOf(s, o)] = ValueIn(o, r) /\ ValueIn(o, r) = [of |-> o, run |-> 0]
    BY <1>0, <1>2, <1>4, ValueFacts DEF Exact
  <2>2. ASSUME BufferOf(s, o) \in Deleted(s) PROVE FALSE
    <3>1. prep.backend = "gles"
      BY <2>2, ModelAssumption DEF Deleted
    <3>2. PICK j \in DOMAIN s.ssbo : OfRequest(j) /\ BufferOf(s, o) = s.ssbo[j]
      BY <2>2 DEF Deleted
    <3>3. CASE \E y \in Outputs : j = Request(y)
      <4>1. PICK y \in Outputs : j = Request(y)
        BY <3>3
      <4>2. BufferOf(s, y) = BufferOf(s, o)
        BY <1>3, <3>2, <4>1 DEF BufferOf
      <4>3. ValueIn(y, r) = [of |-> o, run |-> 0]
        BY <1>3, <2>1, <4>2
      <4>4. ValueIn(y, r).run = r
        BY <3>1, ValueFacts DEF Arguments
      <4> QED BY <4>3, <4>4
    <3>4. CASE ~ \E y \in Outputs : j = Request(y)
      <4>1. BufferOf(s, o) = j
        BY <1>0, <3>2, <3>4 DEF Homes
      <4>2. s.memInfo[o] = InModel(o) \/ \E k : s.memInfo[o] = Inter(k)
        BY <1>0, <1>4 DEF GivenPlaces, Given, Buffered
      <4>3. BufferOf(s, o) = s.memInfo[o]
        BY <1>0, <1>4, <4>2, InfosDiffer DEF Homes, Buffered, BufferOf
      <4>4. ~OfRequest(s.memInfo[o])
        BY <4>2 DEF OfRequest, InModel, Inter
      <4> QED BY <3>2, <4>1, <4>3, <4>4
    <3> QED BY <3>3, <3>4
  <2> QED BY <2>1, <2>2
<1> QED BY <1>0, <1>1, <1>3, <1>4 DEF Idle
-------------------------------------------------------------------------------
(* The inductive invariant for the results: between executions the memory  *)
(* is Idle, while one goes on it is Sound for what has been written.       *)
RInv ==
  /\ IInv
  /\ runs \in Nat /\ (next > 0 => runs > 0)
  /\ Ready /\ ~failed /\ next = 0 =>
       Idle(mem) /\ (status = "NONE" => \A o \in Outputs : result[o] = ValueIn(o, runs))
  /\ Ready /\ ~failed /\ next > 0 =>
       Sound(mem, WrittenBy(next), {}, runs) /\ Needed(mem)

LEMMA NextSound ==
  ASSUME UNCHANGED prep, NEW u, mem' = u, NEW r, runs' = r, NEW i, next' = i
  PROVE  /\ Ready' <=> u.assert = "none"
         /\ Outputs' = Outputs
         /\ \A o : ValueIn(o, runs)' = ValueIn(o, r)
         /\ Idle(mem)' <=> Idle(u)
         /\ Needed(mem)' <=> Needed(u)
         /\ Sound(mem, WrittenBy(next), {}, runs)' <=> Sound(u, WrittenBy(i), {}, r)
<1>1. /\ Operations' = Operations /\ Temporary' = Temporary /\ Operand' = Operand
      /\ Outputs' = Outputs /\ Capacity' = Capacity /\ Arguments' = Arguments /\ Given' = Given
      /\ Of("CONSTANT_REFERENCE")' = Of("CONSTANT_REFERENCE")
      /\ Of("CONSTANT_COPY")' = Of("CONSTANT_COPY")
  BY DEF Operations, Temporary, Outputs, Arguments, Given, Of, Operand, Capacity
<1>2. \A o : ValueIn(o, runs)' = ValueIn(o, r)
  BY DEF ValueIn
<1>3. WrittenBy(next)' = WrittenBy(i)
  BY <1>1 DEF WrittenBy
<1>4. /\ MemOK(mem)' <=> MemOK(u)
      /\ Needed(mem)' <=> Needed(u)
  BY NextMemory
<1>5. Homes(mem)' <=> Homes(u)
  BY <1>1 DEF Homes, Infos
<1>6. GivenPlaces(mem)' <=> GivenPlaces(u)
  BY <1>1 DEF GivenPlaces
<1>7. Places(mem, WrittenBy(next))' <=> Places(u, WrittenBy(i))
  BY <1>1, <1>3, <1>6 DEF Places
<1>8. Kept(mem)' <=> Kept(u)
  BY <1>1 DEF Kept, Holders, Lasting
<1>9. Exact(mem, {}, runs)' <=> Exact(u, {}, r)
  BY <1>1, <1>2 DEF Exact, Buffered, BufferOf
<1>10. Idle(mem)' <=> Idle(u)
  <2>1. Deleted(mem)' = Deleted(u)
    BY DEF Deleted
  <2> QED BY <1>1, <1>5, <1>6, <2>1 DEF Idle, Buffered, BufferOf
<1>11. Sound(mem, WrittenBy(next), {}, runs)' <=> Sound(u, WrittenBy(i), {}, r)
  BY <1>4, <1>5, <1>7, <1>8, <1>9 DEF Sound
<1> QED BY <1>1, <1>2, <1>4, <1>10, <1>11 DEF Ready
LEMMA InitRInv == Init => RInv
<1> SUFFICES ASSUME Init PROVE RInv
  OBVIOUS
<1>1. IInv /\ prep \in Prepared /\ next = 0 /\ runs = 0 /\ mem = Fresh /\ status = "none"
  BY InitIInv DEF Init
<1>2. /\ mem.medium = << >> /\ mem.ssbo = << >>
      /\ mem.memInfo = [o \in Operand |-> IF o \in Of("CONSTANT_REFERENCE") THEN InModel(o) ELSE Null]
  BY <1>1 DEF Fresh
<1>3. DOMAIN mem.ssbo = {}
  BY <1>2
<1>4. Homes(mem)
  BY <1>3 DEF Homes
<1>5. /\ \A o \in Of("CONSTANT_REFERENCE") : mem.memInfo[o] = InModel(o)
      /\ \A o \in Of("CONSTANT_COPY") : mem.memInfo[o] = Null
      /\ \A o \in Temporary : mem.memInfo[o] = Null
  BY <1>2 DEF Of, Temporary, Operand
<1>6. GivenPlaces(mem)
  BY <1>5 DEF GivenPlaces
<1>7. \A o \in Given : ~Buffered(mem, o)
  BY <1>3 DEF Buffered
<1>8. Idle(mem)
  BY <1>4, <1>5, <1>6, <1>7 DEF Idle
<1> QED BY <1>1, <1>8 DEF RInv

LEMMA ExecuteRInv == RInv /\ Execute => RInv'
<1> SUFFICES ASSUME RInv, Execute PROVE RInv'
  OBVIOUS
<1>1. IInv' /\ prep \in Prepared /\ MemOK(mem)
  BY ExecuteIInv DEF RInv, IInv
<1>2. PICK u, r : mem' = u /\ runs' = r
  OBVIOUS
<1>3. /\ next' = 1 /\ UNCHANGED <<prep, failed>> /\ Ready /\ next = 0 /\ r = runs + 1
      /\ u = SetArgs(ResetFromRequest(Restored(mem))) \/ u = Stops(Restored(mem), "pools")
  BY <1>2 DEF Execute
<1>4. r \in Nat /\ r > 0
  BY <1>3 DEF RInv
<1>5. ASSUME Ready', ~failed' PROVE Sound(u, WrittenBy(1), {}, r) /\ Needed(u)
  <2>1. Idle(mem)
    BY <1>3, <1>5 DEF RInv
  <2>2. u.assert = "none"
    BY <1>2, <1>5 DEF Ready
  <2>3. u # Stops(Restored(mem), "pools")
    <3>1. Stops(Restored(mem), "pools").assert # "none"
      BY <1>1, RestoredKeeps, StopsKeeps DEF Asserts
    <3> QED BY <2>2, <3>1
  <2>4. u = SetArgs(ResetFromRequest(Restored(mem)))
    BY <1>3, <2>3
  <2> QED BY <1>1, <2>1, <2>4, AllWritten, BeginSound
<1>6. Ready' /\ ~failed' => Sound(mem, WrittenBy(next), {}, runs)' /\ Needed(mem)'
  BY <1>2, <1>3, <1>5, NextSound
<1>7. next' > 0 /\ next' # 0
  BY <1>3
<1> QED BY <1>1, <1>2, <1>4, <1>6, <1>7 DEF RInv

LEMMA RunOperationRInv == RInv /\ RunOperation => RInv'
<1> SUFFICES ASSUME RInv, RunOperation PROVE RInv'
  OBVIOUS
<1>1. IInv' /\ prep \in Prepared /\ MemOK(mem)
  BY RunOperationIInv DEF RInv, IInv
<1>2. PICK i, u : i = next /\ u = Done(mem, Operations[i])
  OBVIOUS
<1>3. /\ i \in DOMAIN Operations /\ next' = i + 1 /\ UNCHANGED <<prep, failed, runs>>
      /\ Ready /\ mem' = u /\ mem.assert = "none"
  BY <1>2 DEF RunOperation, Ready
<1>4. i > 0 /\ i + 1 > 0 /\ i + 1 # 0
  BY <1>1, <1>3, LengthOfModel
<1>5. Counted(mem, i, 0) /\ (~failed => Sound(mem, WrittenBy(i), {}, runs) /\ Needed(mem))
  BY <1>2, <1>3, <1>4 DEF RInv, IInv
<1>6. ASSUME Ready', ~failed' PROVE Sound(u, WrittenBy(i + 1), {}, runs) /\ Needed(u)
  <2>1. u.assert = "none"
    BY <1>3, <1>6 DEF Ready
  <2> QED BY <1>1, <1>2, <1>3, <1>5, <1>6, <2>1, DoneSound
<1>7. Ready' /\ ~failed' => Sound(mem, WrittenBy(next), {}, runs)' /\ Needed(mem)'
  <2>1. PICK r, j : r = runs' /\ j = next'
    OBVIOUS
  <2> QED BY <1>3, <1>6, <2>1, NextSound
<1> QED BY <1>1, <1>2, <1>3, <1>4, <1>7 DEF RInv

LEMMA OperationFailsRInv == RInv /\ OperationFails => RInv'
<1> SUFFICES ASSUME RInv, OperationFails PROVE RInv'
  OBVIOUS
<1>1. IInv'
  BY OperationFailsIInv DEF RInv
<1>2. next' = 0 /\ failed' = TRUE /\ runs' = runs
  BY DEF OperationFails
<1> QED BY <1>1, <1>2 DEF RInv

LEMMA ExecutionEndsRInv ==
  ASSUME \A p \in Prepared : KeepsConstants(p)
  PROVE  RInv /\ ExecutionEnds => RInv'
<1> SUFFICES ASSUME RInv, ExecutionEnds PROVE RInv'
  OBVIOUS
<1>1. IInv' /\ prep \in Prepared /\ KeepsConstants(prep)
  BY ExecutionEndsIInv DEF RInv, IInv
<1>2. /\ next = Len(Operations) + 1 /\ next' = 0 /\ UNCHANGED <<prep, failed, runs>> /\ Ready
      /\ mem' = mem /\ result' = [o \in Outputs |-> mem.content[BufferOf(mem, o)]]
  BY DEF ExecutionEnds
<1>3. next > 0 /\ runs \in Nat /\ runs # 0
  BY <1>1, <1>2, LengthOfModel DEF RInv
<1>4. ~failed => Idle(mem) /\ \A o \in Outputs : mem.content[BufferOf(mem, o)] = ValueIn(o, runs)
  <2>1. Counted(mem, Len(Operations) + 1, 0)
    BY <1>2, <1>3 DEF RInv, IInv
  <2>2. ~failed => Sound(mem, WrittenBy(Len(Operations) + 1), {}, runs) /\ Needed(mem)
    BY <1>2, <1>3 DEF RInv
  <2> QED BY <1>1, <1>3, <2>1, <2>2, EndSound
<1>5. PICK u, r, i : mem' = u /\ u = mem /\ runs' = r /\ r = runs /\ next' = i /\ i = 0
  BY <1>2
<1>6. ~failed' => Idle(mem)' /\ \A o \in Outputs' : result'[o] = ValueIn(o, runs)'
  BY <1>2, <1>4, <1>5, NextSound
<1> QED BY <1>1, <1>2, <1>3, <1>6 DEF RInv

LEMMA RInvHolds ==
  ASSUME \A p \in Prepared : KeepsConstants(p)
  PROVE  Spec => []RInv
<1>1. RInv /\ [Next]_vars => RInv'
  <2> SUFFICES ASSUME RInv, [Next]_vars PROVE RInv'
    OBVIOUS
  <2>1. CASE UNCHANGED vars
    <3>1. PICK u, r, i : mem' = u /\ u = mem /\ runs' = r /\ r = runs /\ next' = i /\ i = next
      BY <2>1 DEF vars
    <3>2. UNCHANGED <<prep, failed, status, result>>
      BY <2>1 DEF vars
    <3>3. IInv'
      <4>1. /\ Operations' = Operations /\ (MemOK(mem)' <=> MemOK(mem))
            /\ (Ready' <=> Ready) /\ (LosesBuffers' <=> LosesBuffers)
            /\ \A j : Counted(mem, j, 0)' <=> Counted(mem, j, 0)
            /\ \A o : numberOfConsumers(o)' = numberOfConsumers(o)
            /\ (Needed(mem)' <=> Needed(mem)) /\ (Lent(mem)' <=> Lent(mem))
            /\ (Free(mem)' <=> Free(mem)) /\ Operand' = Operand
        BY <3>1, <3>2, NextMemory DEF Ready
      <4> QED BY <3>1, <3>2, <4>1 DEF RInv, IInv
    <3>4. /\ Ready' <=> Ready
          /\ Outputs' = Outputs
          /\ \A o : ValueIn(o, runs)' = ValueIn(o, runs)
          /\ Idle(mem)' <=> Idle(mem)
          /\ Needed(mem)' <=> Needed(mem)
          /\ Sound(mem, WrittenBy(next), {}, runs)' <=> Sound(mem, WrittenBy(next), {}, runs)
      BY <3>1, <3>2, NextSound DEF Ready
    <3> QED BY <3>1, <3>2, <3>3, <3>4 DEF RInv
  <2> QED
    BY <2>1, ExecuteRInv, RunOperationRInv, OperationFailsRInv, ExecutionEndsRInv DEF Next
<1> QED BY <1>1, InitRInv, PTL DEF Spec

(* A client that is told of success has the results of this execution,     *)
(* for any model and any number of executions: no buffer is given to       *)
(* another value while an operation is to read the one it has, or when it  *)
(* has become that of an output.  With GLES no output may be a RESHAPE of  *)
(* a constant, which would be deleted with it.                             *)
THEOREM ResultsDelivered ==
  ASSUME \A p \in Prepared : KeepsConstants(p)
  PROVE  Spec => []DeliversResults
<1>1. RInv => DeliversResults
  BY ValueFacts DEF RInv, IInv, DeliversResults, DeliversAlways
<1> QED BY <1>1, RInvHolds, PTL(* As long as an operation is to read a value, no other is written to the  *)
(* buffer that has it.                                                     *)
THEOREM AwaitedStaysIntact ==
  ASSUME \A p \in Prepared : KeepsConstants(p)
  PROVE  Spec => []AwaitedIsIntact
<1>1. RInv => AwaitedIsIntact
  <2> SUFFICES ASSUME RInv, Ready, next > 0, ~failed, NEW o \in Awaited
               PROVE  IF HasBuffer(o) THEN mem.content[BufferOf(mem, o)] = Value(o)
                                      ELSE ~(o \in Temporary)
    BY DEF AwaitedIsIntact
  <2>1. /\ prep \in Prepared /\ Counted(mem, next, 0) /\ Sound(mem, WrittenBy(next), {}, runs)
        /\ Places(mem, WrittenBy(next)) /\ Exact(mem, {}, runs)
    BY DEF RInv, IInv, Sound
  <2>2. PICK i \in next .. Len(Operations) : o \in Range(Operations[i].inputs) /\ Written(o)
    BY DEF Awaited
  <2>3. /\ i \in DOMAIN Operations /\ i >= next /\ next \in Nat /\ DOMAIN Operations \subseteq Nat
    BY <2>1, <2>2, LengthOfModel DEF RInv, IInv
  <2>4. PICK n \in DOMAIN Operations[i].inputs : Operations[i].inputs[n] = o
    BY <2>2 DEF Range
  <2>5. /\ o \in Operand
        /\ o \in Of("MODEL_INPUT") \/ o \in Given \/ o \in WrittenBy(i)
    BY <2>1, <2>3, <2>4, OperationFacts, WrittenFacts
  <2>6. CASE HasBuffer(o)
    <3>1. mem.content[BufferOf(mem, o)] = ValueIn(o, runs)
      BY <2>1, <2>5, <2>6 DEF Exact, Buffered, HasBuffer
    <3> QED BY <2>1, <2>6, <3>1, ValueFacts
  <2>7. ASSUME o \in Temporary PROVE HasBuffer(o)
    <3>1. PICK j \in 1 .. i - 1 : Operations[j].output = o
      BY <2>1, <2>5, <2>7, Lifetime DEF WrittenBy
    <3>2. j \in 1 .. next - 1
      <4>1. j \in DOMAIN Operations
        BY <2>1, <2>3, <3>1, LengthOfModel
      <4>2. j < next
        BY <2>2, <3>1, <4>1 DEF Written
      <4> QED BY <2>3, <3>1, <4>2
    <3>3. o \in WrittenBy(next)
      BY <3>1, <3>2 DEF WrittenBy
    <3>4. <<i, n>> \in ReadsAfter(o, next, 0)
      <4>1. <<i, n>> \in Reading /\ n \in Nat \ {0}
        BY <2>1, <2>3, <2>4, ReadingPairs
      <4> QED BY <2>3, <2>4, <4>1 DEF ReadsAfter
    <3>5. mem.usesLeft[o] > 0
      BY <2>1, <2>7, <3>4, ReadsCount DEF Counted
    <3> QED BY <2>1, <2>7, <3>3, <3>5 DEF Places, HasBuffer
  <2> QED BY <2>6, <2>7
<1> QED BY <1>1, RInvHolds, PTL
===============================================================================
