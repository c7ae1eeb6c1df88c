---- MODULE MCGpuExecutor ----
(* Models of at most MaxOps operations on a constant, 1, and an input, 2.  *)
(* Operation i writes operand i + 2.  It reads one operand, or the one     *)
(* written last and another; RESHAPE reads one.  Every operand written is  *)
(* read, but for the last, and at most one that is read is also an output  *)
(* of the model; at most one operation changes the length.  With Vulkan    *)
(* one operation on two operands may be a convolution of three channels,   *)
(* whose third operand, the bias, is the constant, given as a copy.        *)
EXTENDS GpuExecutor

CONSTANTS
  MaxOps, Backends,
  ConstantKinds,   \* how operand 1 is given
  ConstantOutputs  \* whether a RESHAPE may give a constant as an output

InputsAt(i) == {<<a>> : a \in 1 .. i + 1} \cup {<<i + 1, a>> : a \in 1 .. i + 1}
Reads(f, o) == \E i \in DOMAIN f : o \in Range(f[i])
Graphs(n) ==
  {f \in [1 .. n -> InputsAt(n)] :
     /\ \A i \in 1 .. n : f[i] \in InputsAt(i)
     /\ \A o \in 3 .. n + 1 : Reads(f, o)}

Model(b, f, reshapes, conv, second, longer, constant) ==
  LET n == Len(f) IN
  [backend    |-> b,
   operations |-> [i \in 1 .. n |->
                     [type   |-> CASE i \in reshapes -> "RESHAPE"
                                   [] i = conv       -> "CONV_2D"
                                   [] OTHER          -> "ADD",
                      inputs |-> IF i = conv THEN Append(f[i], 1) ELSE f[i],
                      output |-> i + 2,
                      copies |-> IF i = conv THEN <<1, 2>> ELSE << >>]],
   lifetime   |-> [o \in 1 .. n + 2 |->
                     CASE o = 1 -> constant
                       [] o = 2 -> "MODEL_INPUT"
                       [] o = n + 2 \/ o = second -> "MODEL_OUTPUT"
                       [] OTHER -> "TEMPORARY_VARIABLE"],
   length     |-> [o \in 1 .. n + 2 |-> IF o >= longer THEN 2 ELSE 1]]

(* A RESHAPE keeps the length. *)
Sensible(p) ==
  /\ \A i \in DOMAIN p.operations :
       p.operations[i].type = "RESHAPE" =>
         p.length[p.operations[i].inputs[1]] = p.length[p.operations[i].output]
  /\ (\E i \in DOMAIN p.operations : p.operations[i].copies # << >>) =>
       p.backend = "vulkan" /\ p.lifetime[1] = "CONSTANT_COPY"
  /\ ConstantOutputs \/ KeepsConstants(p)

ModelsOf(f) ==
  {p \in {Model(b, f, r, v, s, l, c) :
            b \in Backends, r \in SUBSET {i \in DOMAIN f : Len(f[i]) = 1},
            v \in {0} \cup {i \in DOMAIN f : Len(f[i]) = 2},
            s \in 2 .. Len(f) + 1, l \in 4 .. Len(f) + 3, c \in ConstantKinds} : Sensible(p)}

Models == UNION {ModelsOf(f) : f \in UNION {Graphs(n) : n \in 1 .. MaxOps}}
=============================================================================
