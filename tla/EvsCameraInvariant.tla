------------------------- MODULE EvsCameraInvariant -------------------------
(***************************************************************************)
(* The inductive invariant of EvsCamera.  It says, beyond the types, which *)
(* thread may be where, that the pool and its two counters are consistent, *)
(* and that every slot in use has exactly one user: the client, a return   *)
(* that is being handled, or forwardFrame.                                 *)
(***************************************************************************)
EXTENDS EvsCamera

(* A vector of buffer records as the code keeps it: an empty slot is not   *)
(* in use, and no buffer is in two slots.                                  *)
WellFormed(b) ==
  /\ Size(b) \in Nat
  /\ b \in [0 .. Size(b) - 1 -> Slot]
  /\ \A i \in DOMAIN b : b[i].handle = NoHandle => ~b[i].inUse
  /\ \A i, j \in LiveSlots(b) : b[i].handle = b[j].handle => i = j

ThreadInv ==
  /\ thread = "alive" =>
       /\ stream /\ ~eos /\ fdOpen /\ ~terminated
       /\ "RUN" \in runMode
       /\ op # "closing"
       /\ caller = "idle" => op # "stopping" /\ "STOPPING" \notin runMode
  /\ fpc # "lock" => thread = "alive" /\ tpc = "callback"
  /\ caller = "join" => op = "stopping"
  /\ op # "returning" => returning = {}
  /\ "STOPPING" \in runMode => "RUN" \in runMode
  /\ ThreadAt("callback") /\ fpc \in {"lock", "skip", "base", "load", "fill"}
       => cur \in frames

PoolInv ==
  /\ WellFormed(buffers)
  /\ fdOpen => /\ framesAllowed = Cardinality(LiveSlots(buffers))
               /\ framesInUse = Cardinality(InUse(buffers))

(* The slot forwardFrame has reserved, and those the client has. *)
Worked  == IF fpc \in {"base", "load", "fill", "deliver", "send", "undo"}
             THEN {fidx} ELSE {}
HeldIds == {f.id : f \in held}

OwnInv ==
  /\ HeldIds \cap returning = {}
  /\ (HeldIds \cup returning) \cap Worked = {}
  /\ \A f, g \in held : f.id = g.id => f = g
  /\ fdOpen =>
       /\ InUse(buffers) = HeldIds \cup returning \cup Worked
       /\ \A f \in held : f.handle = buffers[f.id].handle
       /\ fpc \in {"fill", "deliver", "send"} => fhandle = buffers[fidx].handle

(* What every step of a camera preserves whose client returns only frames  *)
(* it holds, and whose freed memory is not overwritten before it is read.  *)
IInv == TypeOK /\ ThreadInv /\ PoolInv /\ OwnInv
=============================================================================
