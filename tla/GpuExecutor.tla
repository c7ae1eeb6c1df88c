---- MODULE GpuExecutor ----
(***************************************************************************)
(* The executions of a prepared neural network (nn_gpu).  An execution     *)
(* runs the operations of the model one after the other on buffers of the  *)
(* GPU.  The buffers of the intermediate results come from a pool: one is  *)
(* taken when an operand is first bound, goes back when the last operation *)
(* that reads the operand has run, is shared by the operands on the two    *)
(* sides of a RESHAPE, and stays in the pool from one execution to the     *)
(* next.  Some convolutions take buffers of their own besides.             *)
(*                                                                         *)
(* What a buffer contains is symbolic: an operation writes the value of    *)
(* its output if each buffer it reads contains the value of its input.     *)
(***************************************************************************)
EXTENDS Naturals, Sequences, FiniteSets, FiniteSetsExt, Functions

CONSTANTS
  Prepared,    \* the models that may be prepared, each with the backend in use
  Null,        \* nullptr
  Failures,    \* whether an operation may fail
  PoolCounts,  \* how many memory pools a request may have
  MaxRuns      \* bound: executions of the model

Lifetimes == {"TEMPORARY_VARIABLE", "MODEL_INPUT", "MODEL_OUTPUT",
              "CONSTANT_COPY", "CONSTANT_REFERENCE"}

(* Every model has its operations in an order in which what one reads was  *)
(* written by an earlier one, no operand that is written twice, no output  *)
(* that is not written and no temporary that is not read.                  *)
WellFormed(p) ==
  /\ \A o \in DOMAIN p.lifetime : p.lifetime[o] = "MODEL_OUTPUT" =>
       \E i \in DOMAIN p.operations : p.operations[i].output = o
  /\ \A i \in DOMAIN p.operations :
      /\ p.operations[i].inputs # << >>
      /\ \A j \in DOMAIN p.operations : p.operations[j].output = p.operations[i].output => j = i
      /\ \A o \in Range(p.operations[i].inputs) :
           \/ p.lifetime[o] \in {"MODEL_INPUT", "CONSTANT_COPY", "CONSTANT_REFERENCE"}
           \/ \E j \in 1 .. i - 1 : p.operations[j].output = o
      /\ \/ p.lifetime[p.operations[i].output] = "MODEL_OUTPUT"
         \/ /\ p.lifetime[p.operations[i].output] = "TEMPORARY_VARIABLE"
            /\ \E j \in i + 1 .. Len(p.operations) :
                 p.operations[i].output \in Range(p.operations[j].inputs)

(* With Vulkan a convolution of three channels is one of four: it runs on  *)
(* copies of the filter and of the input, of these lengths.                *)
Copies == {<< >>} \cup ((Nat \ {0}) \X (Nat \ {0}))

ASSUME ModelAssumption ==
  \A p \in Prepared :
    /\ p.backend \in {"gles", "vulkan"}
    /\ IsFiniteSet(DOMAIN p.lifetime) /\ Null \notin DOMAIN p.lifetime
    /\ p.lifetime \in [DOMAIN p.lifetime -> Lifetimes]
    /\ p.length \in [DOMAIN p.lifetime -> Nat \ {0}]
    /\ p.operations \in Seq([type : STRING, inputs : Seq(DOMAIN p.lifetime),
                             output : DOMAIN p.lifetime, copies : Copies])
    /\ \A i \in DOMAIN p.operations : p.operations[i].copies # << >> =>
         p.backend = "vulkan" /\ p.operations[i].type = "CONV_2D"
    /\ WellFormed(p)

VARIABLES
  prep,    \* the model, and the backend of the process
  mem,     \* the operands and the memory manager, see Fresh
  next,    \* the operation to run, 0 when no execution is going on
  runs,    \* how many executions have begun
  pools,   \* requestPoolInfos.size()
  status,  \* what the last callback said
  failed,  \* whether an execution has failed
  result   \* what is in the client's memory for each output

vars == <<prep, mem, next, runs, pools, status, failed, result>>

Operations == prep.operations
Operand    == DOMAIN prep.lifetime
Of(l)      == {o \in Operand : prep.lifetime[o] = l}
Temporary  == Of("TEMPORARY_VARIABLE")
Outputs    == Of("MODEL_OUTPUT")
Arguments  == Of("MODEL_INPUT") \cup Outputs

(* numberOfConsumers: how often the operand is read. *)
Reading == UNION {{i} \X DOMAIN Operations[i].inputs : i \in DOMAIN Operations}
numberOfConsumers(o) == Cardinality({r \in Reading : Operations[r[1]].inputs[r[2]] = o})

(* A RESHAPE changes the form of a value and not the value: where in the   *)
(* model p the value of each operand is from.                              *)
Reshapes(p, o) == {i \in DOMAIN p.operations :
                     p.operations[i].output = o /\ p.operations[i].type = "RESHAPE"}
Origin(p) ==
  LET origin[o \in DOMAIN p.lifetime] ==
        IF Reshapes(p, o) = {} THEN o
        ELSE origin[p.operations[Min(Reshapes(p, o))].inputs[1]]
  IN  origin
Constants(p) == {o \in DOMAIN p.lifetime :
                   p.lifetime[Origin(p)[o]] \in {"CONSTANT_COPY", "CONSTANT_REFERENCE"}}

(* With GLES the buffer of an output is deleted with the request: if it is *)
(* shared with a constant, the constant is lost.                           *)
KeepsConstants(p) ==
  p.backend = "gles" => \A o \in Constants(p) : p.lifetime[o] # "MODEL_OUTPUT"

(* The value an operand has in this execution; constants keep theirs.      *)
Value(o) == [of  |-> Origin(prep)[o], run |-> IF o \in Constants(prep) THEN 0 ELSE runs]
Unknown  == [of |-> Null, run |-> 0]

-----------------------------------------------------------------------------
(* Memory.  A memory info is that of an argument of the request, that of a *)
(* constant in the model's pools, or one of intermediumMemInfos, named by  *)
(* its place there.  Its buffer is made when it is first asked for, and is *)
(* named after the info that made it.                                      *)
Request(o) == <<"request", o>>
InModel(o) == <<"model", o>>
Inter(k)   == <<"intermedium", k>>

ASSUME NullAssumption ==
  \A p \in Prepared :
    /\ \A k \in 1 .. Cardinality(DOMAIN p.lifetime) : Null # Inter(k)
    /\ \A o \in DOMAIN p.lifetime : Null # Request(o) /\ Null # InModel(o)

Fresh ==
  [medium   |-> << >>,       \* intermediumMemInfos
   memInfo  |-> [o \in Operand |-> IF o \in Of("CONSTANT_REFERENCE") THEN InModel(o) ELSE Null],
   usesLeft |-> [o \in Operand |-> 0],   \* numberOfUsesLeft
   ssbo     |-> << >>,       \* info -> its buffer, if it has one
   content  |-> << >>,       \* buffer -> what it contains
   assert   |-> "none"]      \* the ASSERT that ended the process

Stops(s, why) == [s EXCEPT !.assert = why]
Capacity == Cardinality(Operand)

(* createMemoryInfo: infos are pointed to, so the vector must not grow.    *)
CreateMemoryInfo(s, length, data) ==
  IF Len(s.medium) >= Capacity THEN Stops(s, "capacity")
  ELSE [s EXCEPT !.medium = Append(@, [length |-> length, userptr |-> data,
                                       inUsing |-> TRUE, refCount |-> 1])]

(* An intermediate info of this length that is not in use. *)
Reusable(s, length) ==
  {k \in DOMAIN s.medium : /\ ~s.medium[k].inUsing
                           /\ s.medium[k].length = length
                           /\ s.medium[k].userptr = Null}

CreateIntermedium(s, length) ==
  IF Reusable(s, length) = {} THEN CreateMemoryInfo(s, length, Null)
  ELSE LET k == Min(Reusable(s, length)) IN
         [s EXCEPT !.medium[k].inUsing = TRUE, !.medium[k].refCount = 1]

(* What has been taken from s to t, and the operand that keeps it. *)
Taken(s, t) ==
  {k \in DOMAIN t.medium : t.medium[k].inUsing /\ (k \in DOMAIN s.medium => ~s.medium[k].inUsing)}
Keeps(s, t, o) ==
  IF t.assert # "none" THEN t
  ELSE [t EXCEPT !.memInfo[o] = Inter(CHOOSE k \in Taken(s, t) : TRUE)]

(* glBufferData, with what userptr points to. *)
Initial(s, info) ==
  IF info[1] = "intermedium"
  THEN IF s.medium[info[2]].userptr = Null THEN Unknown ELSE Value(s.medium[info[2]].userptr)
  ELSE IF info[2] \in Outputs THEN Unknown ELSE Value(info[2])

With(f, x, v) == [y \in DOMAIN f \cup {x} |-> IF y = x THEN v ELSE f[y]]
MakeBuffer(s, info) ==
  IF info \in DOMAIN s.ssbo THEN s
  ELSE [s EXCEPT !.ssbo    = With(@, info, info),
                 !.content = With(@, info, Initial(s, info))]

(* getSSbo of an operand: it has a buffer afterwards.                      *)
GetSSbo(s, o) ==
  LET a == IF s.memInfo[o] # Null THEN s
           ELSE IF o \in Temporary
           THEN Keeps(s, CreateIntermedium(s, prep.length[o]), o)
           ELSE Keeps(s, CreateMemoryInfo(s, prep.length[o], o), o)
  IN  IF s.assert # "none" THEN s
      ELSE IF a.assert # "none" THEN a
      ELSE MakeBuffer(a, a.memInfo[o])

BufferOf(s, o) == s.ssbo[s.memInfo[o]]

IncRefNot(s, info) == s     \* variant: sharing is not counted
IncRef(s, info) ==
  IF info[1] = "intermedium" THEN [s EXCEPT !.medium[info[2]].refCount = @ + 1] ELSE s

(* The counter of an info outside the pool frees nothing. *)
SetNotInUsingLate(s, info) ==     \* variant: compared before it is decreased
  IF info[1] # "intermedium" THEN s
  ELSE [s EXCEPT !.medium[info[2]].refCount = @ - 1,
                 !.medium[info[2]].inUsing  = @ /\ s.medium[info[2]].refCount > 0]
SetNotInUsing(s, info) ==
  IF info[1] # "intermedium" THEN s
  ELSE LET n == s.medium[info[2]].refCount IN
         IF n = 0 THEN Stops(s, "refCount")
         ELSE [s EXCEPT !.medium[info[2]].refCount = n - 1,
                        !.medium[info[2]].inUsing  = @ /\ n > 1]

-----------------------------------------------------------------------------
(* Operations.                                                             *)

Bound(s, op) ==
  LET bind[n \in 0 .. Len(op.inputs)] ==
        IF n = 0 THEN s ELSE GetSSbo(bind[n - 1], op.inputs[n])
  IN  GetSSbo(bind[Len(op.inputs)], op.output)

(* rebindVkBuffer: a copy of an operand takes an info for itself, which no *)
(* operand of the model has, and a shader writes to its buffer.            *)
Rebind(s, length) ==
  LET a == CreateIntermedium(s, length)
      m == Inter(CHOOSE k \in Taken(s, a) : TRUE)
      b == MakeBuffer(a, m)
  IN  IF s.assert # "none" THEN s
      ELSE IF a.assert # "none" THEN a
      ELSE [b EXCEPT !.content[b.ssbo[m]] = Unknown]
Copied(s, op) ==
  IF op.copies = << >> THEN s ELSE Rebind(Rebind(s, op.copies[1]), op.copies[2])

(* A shader: it reads its inputs, or their copies, while it writes its     *)
(* output.                                                                 *)
Dispatch(s, op) ==
  LET c    == Copied(s, op)
      b    == Bound(c, op)
      to   == BufferOf(b, op.output)
      good == /\ \A k \in Taken(s, c) : c.ssbo[Inter(k)] # to
              /\ \A o \in Range(op.inputs) :
                   BufferOf(b, o) # to /\ b.content[BufferOf(b, o)] = Value(o)
  IN  IF b.assert # "none" THEN b
      ELSE [b EXCEPT !.content[to] = IF good THEN Value(op.output) ELSE Unknown]

(* doRESHAPE: the output gets the buffer of the input.  If it is the       *)
(* model's, its info does; otherwise it gets the info.                     *)
ShareGpuStorage(s, op) ==
  LET b    == GetSSbo(s, op.inputs[1])
      from == b.memInfo[op.inputs[1]]
  IN  IF b.assert # "none" THEN b
      ELSE IF op.output \in Outputs
      THEN IncRef([b EXCEPT !.ssbo = With(@, b.memInfo[op.output], b.ssbo[from])], from)
      ELSE IF b.memInfo[op.output] # Null THEN Stops(b, "shared")
      ELSE IncRef([b EXCEPT !.memInfo[op.output] = from], from)

(* markOpFinished. *)
MarkFinished(s, o) ==
  IF o \notin Temporary \/ s.assert # "none" THEN s
  ELSE IF s.memInfo[o] = Null THEN Stops(s, "finished")
  ELSE LET u == [s EXCEPT !.usesLeft[o] = @ - 1] IN
         IF u.usesLeft[o] > 0 THEN u
         ELSE SetNotInUsing([u EXCEPT !.memInfo[o] = Null], s.memInfo[o])

(* run(operation): the inputs are marked whether or not it succeeded.      *)
Finished(s, op) ==
  LET mark[n \in 0 .. Len(op.inputs)] ==
        IF n = 0 THEN s ELSE MarkFinished(mark[n - 1], op.inputs[n])
  IN  mark[Len(op.inputs)]

Done(s, op) == Finished(IF op.type = "RESHAPE" THEN ShareGpuStorage(s, op)
                                               ELSE Dispatch(s, op), op)

(* The program does not compile, the dimensions do not fit, a uniform is   *)
(* missing, the groups cannot be counted: when nothing has been bound, or  *)
(* the output and an input have, as in concatenation, or everything, as in *)
(* a convolution.                                                          *)
Failed(s, op) ==
  {Finished(b, op) : b \in {s, GetSSbo(GetSSbo(s, op.output), op.inputs[1]),
                            Bound(Copied(s, op), op)}}

-----------------------------------------------------------------------------
(* Executions, one at a time.                                              *)

Ready == mem.assert = "none"

(* The infos of the last request are deleted with their buffers, and the   *)
(* references to the intermediate ones forgotten.  With Vulkan a buffer    *)
(* lives as long as an info has it.                                        *)
OfRequest(info) == info[1] = "request"
Deleted(s) ==
  IF prep.backend = "vulkan" THEN {}
  ELSE {s.ssbo[i] : i \in {j \in DOMAIN s.ssbo : OfRequest(j)}}
ResetRef(m) == [k \in DOMAIN m |-> [m[k] EXCEPT !.refCount = 0]]

ResetFromRequest(s) ==
  [s EXCEPT !.ssbo    = [i \in {j \in DOMAIN @ : ~OfRequest(j)} |-> @[i]],
            !.content = [b \in DOMAIN @ |-> IF b \in Deleted(s) THEN Unknown ELSE @[b]],
            !.medium  = ResetRef(@)]

(* restoreOperands and setArgOperands. *)
Restored(s) == [s EXCEPT !.usesLeft = [o \in Operand |-> IF o \in Temporary THEN numberOfConsumers(o) ELSE 0]]
SetArgs(s)  == [s EXCEPT !.memInfo = [o \in Operand |-> IF o \in Arguments THEN Request(o) ELSE @[o]]]

Execute ==
  /\ Ready /\ next = 0 /\ runs < MaxRuns
  /\ runs' = runs + 1
  /\ \E n \in PoolCounts :
       /\ pools' = n
       /\ mem' = IF pools \in {0, n} THEN SetArgs(ResetFromRequest(Restored(mem)))
                                     ELSE Stops(Restored(mem), "pools")
  /\ next' = 1
  /\ UNCHANGED <<prep, status, failed, result>>

RunOperation ==
  /\ Ready /\ next \in DOMAIN Operations
  /\ mem' = Done(mem, Operations[next])
  /\ next' = next + 1
  /\ UNCHANGED <<prep, runs, pools, status, failed, result>>

OperationFails ==
  /\ Ready /\ next \in DOMAIN Operations
  /\ Failures /\ Operations[next].type # "RESHAPE"
  /\ mem' \in Failed(mem, Operations[next])
  /\ next' = 0
  /\ status' = "GENERAL_FAILURE"
  /\ failed' = TRUE
  /\ UNCHANGED <<prep, runs, pools, result>>

(* sync: the outputs are copied to the client's memory, which is told. *)
ExecutionEnds ==
  /\ Ready /\ next = Len(Operations) + 1
  /\ result' = [o \in Outputs |-> mem.content[BufferOf(mem, o)]]
  /\ next' = 0
  /\ status' = "NONE"
  /\ UNCHANGED <<prep, mem, runs, pools, failed>>

Init ==
  /\ prep \in Prepared
  /\ mem = Fresh
  /\ next = 0 /\ runs = 0 /\ pools = 0
  /\ status = "none" /\ failed = FALSE
  /\ result = [o \in Outputs |-> Unknown]

Next == Execute \/ RunOperation \/ OperationFails \/ ExecutionEnds

Spec == Init /\ [][Next]_vars
-----------------------------------------------------------------------------
TypeOK ==
  /\ next \in 0 .. Len(Operations) + 1
  /\ Len(mem.medium) <= Capacity
  /\ \A k \in DOMAIN mem.medium :
       /\ mem.medium[k].userptr \in Operand \cup {Null}
       /\ mem.medium[k].inUsing \in BOOLEAN /\ mem.medium[k].refCount \in Nat
  /\ DOMAIN mem.memInfo = Operand
  /\ \A o \in Operand : mem.usesLeft[o] \in 0 .. numberOfConsumers(o)
  /\ mem.assert \in {"none", "capacity", "refCount", "shared", "finished", "pools"}

Written(o) == \A i \in DOMAIN Operations : Operations[i].output = o => i < next
Awaited == {o \in UNION {Range(Operations[i].inputs) : i \in next .. Len(Operations)} : Written(o)}
HasBuffer(o) == mem.memInfo[o] # Null /\ mem.memInfo[o] \in DOMAIN mem.ssbo

(* Buffers are used again within an execution and from one to the next,    *)
(* and shared (createIntermediumMemoryInfo, shareGpuStorage): still, as    *)
(* long as an operation is to read a value, no other is written to the     *)
(* buffer that has it.                                                     *)
AwaitedIsIntact ==
  Ready /\ next > 0 /\ ~failed => \A o \in Awaited :
    IF HasBuffer(o) THEN mem.content[BufferOf(mem, o)] = Value(o)
                    ELSE ~(o \in Temporary)

(* A client that is told of success (asyncExecute) has the results of this *)
(* execution in its memory: no buffer that an operation read had been      *)
(* given to another value, and an output that shares the buffer of an      *)
(* intermediate result keeps it to the end.                                *)
DeliversAlways ==
  Ready /\ next = 0 /\ status = "NONE" => \A o \in Outputs : result[o] = Value(o)
DeliversResults == failed \/ DeliversAlways

(* A model in which a RESHAPE gives an output, which shares a buffer for   *)
(* ever, or a convolution runs on copies, whose buffers nobody gives back. *)
LosesBuffers == \E i \in DOMAIN Operations :
  \/ Operations[i].type = "RESHAPE" /\ Operations[i].output \in Outputs
  \/ Operations[i].copies # << >>

(* Between executions the pool has its buffers back (markOpFinished), so a *)
(* model can be executed as often as the client likes, unless one of its   *)
(* operations is of the two kinds that lose buffers: see ReservedSuffices. *)
BuffersComeBack ==
  Ready /\ next = 0 /\ status = "NONE" /\ ~failed /\ ~LosesBuffers =>
    \A k \in DOMAIN mem.medium : mem.medium[k].inUsing => mem.medium[k].userptr # Null

(* gles_memory_manager.cpp:62: "just reserve size of big enough": FAILS    *)
(* for a model of LosesBuffers that is executed often enough, and after    *)
(* failures.                                                               *)
ReservedSuffices == mem.assert # "capacity"

(* Nothing tells a client that its requests must have the same number of   *)
(* pools (resetFromRequest).                                               *)
AnyPools == mem.assert # "pools"
=============================================================================
