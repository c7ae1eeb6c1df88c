----------------------------- MODULE EvsCamera ------------------------------
(***************************************************************************)
(* EvsV4lCamera, the camera object of the EVS HAL                          *)
(* (src/evs/evsHal/aidl/src/EvsV4lCamera.cpp), on top of VideoCapture.     *)
(*                                                                         *)
(* Two threads share it.  The only binder thread of the service runs the   *)
(* client's calls one at a time; the capture thread runs forwardFrame as   *)
(* the callback of VideoCapture.  mAccessLock makes each locked section    *)
(* one action; the code between two sections is split where the other      *)
(* thread can come in.                                                     *)
(***************************************************************************)
EXTENDS VideoCapture, FiniteSetsExt

CONSTANTS
  Handles,         \* the graphics buffers an allocator or a client can supply
  NoHandle,        \* a null buffer_handle_t
  Garbage,         \* what a read of overwritten memory yields
  kMaxBuffersInFlight,
  UintMax,         \* the largest value of an unsigned
  Requests,        \* bound: arguments of setMaxFramesInFlight
  Imports,         \* bound: lengths of the vector given to importExternalBuffers
  RepeatedReturns  \* the client may return a frame it does not hold

ASSUME CameraAssumption ==
  /\ NoHandle \notin Handles /\ Garbage \notin Handles /\ Garbage # NoHandle
  /\ kMaxBuffersInFlight \in Nat \ {0}
  /\ UintMax \in Nat /\ UintMax > kMaxBuffersInFlight
  /\ IsFiniteSet(Handles) /\ Cardinality(Handles) <= UintMax
  /\ Requests \subseteq Nat /\ Imports \subseteq Nat
  /\ RepeatedReturns \in BOOLEAN

(* "alloc", "import": the allocator or the mapper supplies no buffer;      *)
(* "deliver": deliverFrame fails in the transport layer; "reuse": storage  *)
(* freed by a vector that grew is overwritten before it is read again.     *)
CameraFaults == {"alloc", "import", "deliver", "reuse"}

VARIABLES
  buffers,        \* mBuffers: slot number -> [handle, inUse]
  framesAllowed,  \* mFramesAllowed
  framesInUse,    \* mFramesInUse
  stream,         \* mStream # nullptr
  op,             \* what the binder thread is executing
  losing,         \* stopVideoStream was called by shutdown
  returning,      \* ids doneWithFrame has still to handle
  fpc,            \* where the capture thread is in forwardFrame
  fidx,           \* forwardFrame's idx
  fhandle,        \* forwardFrame's memHandle
  fstale,         \* mBuffers was reallocated since forwardFrame read its base
  held,           \* frames the client has: their ids and buffers
  eos             \* the client was sent STREAM_STOPPED, and no start since

poolVars   == <<buffers, framesAllowed, framesInUse>>
binderVars == <<op, losing, returning>>
frameVars  == <<fpc, fidx, fhandle, fstale>>
clientVars == <<held, eos>>
cameraVars == <<poolVars, stream, binderVars, frameVars, clientVars>>
vars       == <<captureVars, cameraVars>>

(* The position of a number in a set of numbers, and the numbers that come *)
(* first: what a loop over the slots that stops after k hits selects.      *)
Rank(i, S)   == Cardinality({j \in S : j < i})
Lowest(k, S) == {i \in S : Rank(i, S) < k}

Size(b) == Cardinality(DOMAIN b)     \* mBuffers.size()

Slot == [handle : Handles \cup {NoHandle}, inUse : BOOLEAN]

CameraTypeOK ==
  /\ buffers \in [0 .. Size(buffers) - 1 -> Slot]
  /\ framesAllowed \in Nat
  /\ framesInUse \in 0 .. UintMax
  /\ stream \in BOOLEAN
  /\ op \in {"idle", "returning", "stopping", "closing"}
  /\ losing \in BOOLEAN
  /\ returning \subseteq Nat
  /\ fpc \in {"lock", "skip", "base", "load", "fill", "deliver",
            "send", "undo", "done"}
  /\ fidx \in Nat
  /\ fhandle \in Handles \cup {NoHandle, Garbage}
  /\ fstale \in BOOLEAN
  /\ \A f \in held : f \in [id : Nat, handle : Handles \cup {NoHandle, Garbage}]
  /\ eos \in BOOLEAN

(* The values each variable may take. *)
TypeOK == VCTypeOK /\ CameraTypeOK

EmptyVector == [i \in 0 .. -1 |-> [handle |-> NoHandle, inUse |-> FALSE]]

Init ==
  /\ VCInit
  /\ buffers = EmptyVector
  /\ framesAllowed = 0 /\ framesInUse = 0
  /\ stream = FALSE
  /\ op = "idle" /\ losing = FALSE /\ returning = {}
  /\ fpc = "lock" /\ fidx = 0 /\ fhandle = NoHandle /\ fstale = FALSE
  /\ held = {} /\ eos = FALSE

-----------------------------------------------------------------------------
(* The buffer pool.                                                        *)

Free(b)  == {i \in DOMAIN b : ~b[i].inUse /\ b[i].handle # NoHandle}
Empty(b) == {i \in DOMAIN b : b[i].handle = NoHandle}
LiveSlots(b) == DOMAIN b \ Empty(b)
Live(b)  == {b[i].handle : i \in LiveSlots(b)}

(* Ways to supply n fresh buffers. *)
Supplies(b, n) == {h \in [0 .. n - 1 -> Handles \ Live(b)] :
                     \A i, j \in 0 .. n - 1 : h[i] = h[j] => i = j}

(* n new buffers go to the empty slots in order, then to the end. *)
SizeWith(b, n) == Size(b) + LET e == Cardinality(Empty(b))
                            IN  IF n > e THEN n - e ELSE 0
Targets(b, n)  == Lowest(n, Empty(b)) \cup (Size(b) .. SizeWith(b, n) - 1)
Store(b, n, h) ==
  [i \in 0 .. SizeWith(b, n) - 1 |->
     IF i \in Targets(b, n)
       THEN [handle |-> h[Rank(i, Targets(b, n))], inUse |-> FALSE]
       ELSE b[i]]

(* The slots decreaseAvailableFrames_Locked empties.  It compares its      *)
(* count with n only after a removal, so n = 0 never stops it.  In the     *)
(* variant the slots in use are not passed over.                           *)
ReleasedInUse(b, n) == Lowest(n, {i \in DOMAIN b : b[i].handle # NoHandle})
Released(b, n) == IF n = 0 THEN Free(b) ELSE Lowest(n, Free(b))
Release(b, n)  == [i \in DOMAIN b |-> IF i \in Released(b, n)
                                        THEN [b[i] EXCEPT !.handle = NoHandle]
                                        ELSE b[i]]

(* How many that were. *)
Removed(b, n)         == Cardinality(Released(b, n))

(* A slot is marked, and its frame given up. *)
Reserve(b, i)    == [b EXCEPT ![i].inUse = TRUE]
MakeFree(b, i)   == [b EXCEPT ![i].inUse = FALSE]

(* push_back reallocates a vector whose size is zero or a power of two.    *)
Reallocates(m, n) == \E k \in m .. n - 1 : k = 0 \/ \E e \in 0 .. 7 : k = 2 ^ e
MarkStale(m, n) == fstale' = (fstale \/ (fpc = "load" /\ Reallocates(m, n)))

Increment(x) == IF x = UintMax THEN 0 ELSE x + 1
DecrementNot(x) == x     \* variant: forgotten
Decrement(x) == IF x = 0 THEN UintMax ELSE x - 1

Grow(n) ==
  /\ \E h \in Supplies(buffers, n) : buffers' = Store(buffers, n, h)
  /\ framesAllowed' = framesAllowed + n
  /\ MarkStale(Size(buffers), SizeWith(buffers, n))

Shrink(n) ==
  /\ buffers' = Release(buffers, n)
  /\ framesAllowed' = framesAllowed - Removed(buffers, n)
  /\ UNCHANGED fstale

(* Only n buffers could be had: what was added is given back. *)
RollBack(n) ==
  /\ \E h \in Supplies(buffers, n) :
       LET grown == Store(buffers, n, h) IN
         /\ buffers' = Release(grown, n)
         /\ framesAllowed' = framesAllowed + n - Removed(grown, n)
  /\ MarkStale(Size(buffers), SizeWith(buffers, n))

(* The sizes a pool may be given. *)
Acceptable(n) == n \in 1 .. kMaxBuffersInFlight

(* setAvailableFrames_Locked(n), when it returns true and when false. *)
FramesSet(n) ==
  /\ Acceptable(n)
  /\ \/ framesAllowed < n /\ Grow(n - framesAllowed)
     \/ framesAllowed > n /\ Shrink(framesAllowed - n)
     \/ framesAllowed = n /\ UNCHANGED <<buffers, framesAllowed, fstale>>

FramesNotSet(n) ==
  \/ /\ ~Acceptable(n)
     /\ UNCHANGED <<buffers, framesAllowed, fstale>>
  \/ /\ Acceptable(n) /\ framesAllowed < n
     /\ "alloc" \in Faults
     /\ \E a \in 0 .. n - framesAllowed - 1 : RollBack(a)

-----------------------------------------------------------------------------
(* The client's calls, on the binder thread.  A call on a camera that was  *)
(* lost (the device is closed) returns an error and changes nothing.       *)

Idle == op = "idle" /\ caller = "idle" /\ ~terminated

SetMaxFramesInFlight ==
  /\ Idle /\ fdOpen
  /\ \E n \in Requests : FramesSet(n) \/ FramesNotSet(n)
  /\ UNCHANGED <<captureVars, framesInUse, stream, binderVars, fpc, fidx,
                 fhandle, clientVars>>

ImportExternalBuffers ==
  /\ Idle /\ fdOpen
  /\ \E n \in Imports :
       LET room  == (kMaxBuffersInFlight - framesAllowed) % (UintMax + 1)
           toAdd == IF n > room THEN n - room ELSE n
       IN  \E a \in 0 .. toAdd : (a = toAdd \/ "import" \in Faults) /\ Grow(a)
  /\ UNCHANGED <<captureVars, framesInUse, stream, binderVars, fpc, fidx,
                 fhandle, clientVars>>

(* A client that never asked for buffers is given one. *)
StartVideoStream ==
  /\ Idle /\ fdOpen /\ ~stream
  /\ \/ /\ \/ framesAllowed >= 1 /\ UNCHANGED <<buffers, framesAllowed, fstale>>
           \/ framesAllowed < 1 /\ FramesSet(1)
        /\ \/ StartSucceeds /\ stream' = TRUE /\ eos' = FALSE
           \/ (StartRefused \/ StartFails) /\ UNCHANGED <<stream, eos>>
     \/ /\ framesAllowed < 1 /\ FramesNotSet(1)
        /\ UNCHANGED <<captureVars, stream, eos>>
  /\ UNCHANGED <<framesInUse, binderVars, fpc, fidx, fhandle, held>>

(* stopVideoStream, also as the first step of shutdown. *)
StopVideoStream ==
  /\ Idle
  /\ StopWhenStopped \/ StopReentered \/ StopSignal
  /\ op' = "stopping"
  /\ losing' \in BOOLEAN
  /\ UNCHANGED <<poolVars, stream, returning, frameVars, clientVars>>

StopVideoStreamJoins ==
  /\ op = "stopping"
  /\ StopJoined
  /\ UNCHANGED cameraVars

(* mVideo.stopStream() has returned, and the client is told; variants: it  *)
(* is not waited for; only a client that loses the camera is told.         *)
NotWaited    == TRUE
VideoStopped == caller = "idle"
Told         == eos \/ stream

NotifyStreamStopped ==
  /\ op = "stopping" /\ VideoStopped
  /\ eos' = Told
  /\ stream' = FALSE
  /\ op' = IF losing THEN "closing" ELSE "idle"
  /\ UNCHANGED <<captureVars, poolVars, losing, returning, frameVars, held>>

(* The rest of shutdown: mFramesAllowed and mFramesInUse keep their values.*)
CloseCamera ==
  /\ op = "closing"
  /\ Close
  /\ buffers' = EmptyVector
  /\ op' = "idle" /\ losing' = FALSE
  /\ UNCHANGED <<framesAllowed, framesInUse, stream, returning, frameVars,
                 clientVars>>

(* The client returns a batch of frames; each is handled under the lock.   *)
DoneWithFrame ==
  /\ Idle
  /\ \E ids \in SUBSET (IF RepeatedReturns THEN DOMAIN buffers
                                           ELSE {f.id : f \in held}) \ {{}} :
       /\ returning' = ids
       /\ held' = {f \in held : f.id \notin ids}
  /\ op' = "returning"
  /\ UNCHANGED <<captureVars, poolVars, stream, losing, frameVars, eos>>

(* Give id back; if it is high in the array move its buffer down.         *)
Reclaimed(b, id) ==
  LET freed == MakeFree(b, id) IN
    IF id >= framesAllowed /\ Empty(freed) # {}
      THEN [freed EXCEPT ![Min(Empty(freed))].handle = freed[id].handle,
                         ![id].handle = NoHandle]
      ELSE freed

ReclaimFrame ==
  /\ op = "returning"
  /\ \E id \in returning :
       /\ returning' = returning \ {id}
       /\ op' = IF returning = {id} THEN "idle" ELSE op
       /\ IF fdOpen /\ id \in DOMAIN buffers
            THEN /\ buffers' = Reclaimed(buffers, id)
                 /\ framesInUse' = Decrement(framesInUse)
            ELSE UNCHANGED <<buffers, framesInUse>>
  /\ UNCHANGED <<captureVars, framesAllowed, stream, losing, frameVars,
                 clientVars>>

-----------------------------------------------------------------------------
(* forwardFrame, on the capture thread.                                    *)

Forwarding(pc) == ThreadAt("callback") /\ fpc = pc

ReserveSlot ==
  /\ Forwarding("lock")
  /\ IF framesInUse >= framesAllowed \/ Free(buffers) = {}
       THEN /\ fpc' = "skip"
            /\ UNCHANGED <<buffers, framesInUse, fidx>>
       ELSE LET idx == Min(Free(buffers)) IN
            /\ fpc' = "base"
            /\ fidx' = idx
            /\ buffers' = Reserve(buffers, idx)
            /\ framesInUse' = Increment(framesInUse)
  /\ UNCHANGED <<captureVars, framesAllowed, stream, binderVars, fhandle,
                 fstale, clientVars>>

SkipFrame ==
  /\ Forwarding("skip")
  /\ ReturnFrame
  /\ fpc' = "done"
  /\ UNCHANGED <<poolVars, stream, binderVars, fidx, fhandle, fstale,
                 clientVars>>

(* mBuffers[idx].handle is read without the lock: first where the vector's *)
(* storage is, then the element in it.                                     *)
ReadBase ==
  /\ Forwarding("base")
  /\ fpc' = "load"
  /\ fstale' = FALSE
  /\ UNCHANGED <<captureVars, poolVars, stream, binderVars, fidx, fhandle,
                 clientVars>>

ReadHandle ==
  /\ Forwarding("load")
  /\ fpc' = "fill"
  /\ fhandle' \in {buffers[fidx].handle}
                  \cup (IF fstale /\ "reuse" \in Faults THEN {Garbage} ELSE {})
  /\ UNCHANGED <<captureVars, poolVars, stream, binderVars, fidx, fstale,
                 clientVars>>

(* The picture is copied; the capture buffer goes back to the driver. *)
FillFrame ==
  /\ Forwarding("fill")
  /\ ReturnFrame
  /\ fpc' = "deliver"
  /\ UNCHANGED <<poolVars, stream, binderVars, fidx, fhandle, fstale,
                 clientVars>>

(* if (mStream) mStream->deliverFrame(...), without the lock. *)
CheckClient ==
  /\ Forwarding("deliver")
  /\ fpc' = IF stream THEN "send" ELSE "undo"
  /\ UNCHANGED <<captureVars, poolVars, stream, binderVars, fidx, fhandle,
                 fstale, clientVars>>

DeliverFrame ==
  /\ Forwarding("send")
  /\ \/ /\ held' = held \cup {[id |-> fidx, handle |-> fhandle]}
        /\ fpc' = "done"
     \/ /\ "deliver" \in Faults
        /\ fpc' = "undo"
        /\ UNCHANGED held
  /\ UNCHANGED <<captureVars, poolVars, stream, binderVars, fidx, fhandle,
                 fstale, eos>>

UndoReservation ==
  /\ Forwarding("undo")
  /\ buffers' = MakeFree(buffers, fidx)
  /\ framesInUse' = Decrement(framesInUse)
  /\ fpc' = "done"
  /\ UNCHANGED <<captureVars, framesAllowed, stream, binderVars, fidx, fhandle,
                 fstale, clientVars>>

ForwardFrameReturns ==
  /\ Forwarding("done")
  /\ CallbackReturns
  /\ fpc' = "lock"
  /\ UNCHANGED <<poolVars, stream, binderVars, fidx, fhandle, fstale,
                 clientVars>>

ForwardFrame ==
  \/ ReserveSlot \/ SkipFrame \/ ReadBase \/ ReadHandle \/ FillFrame
  \/ CheckClient \/ DeliverFrame \/ UndoReservation \/ ForwardFrameReturns

CaptureThread ==
  \/ ForwardFrame
  \/ /\ CheckRunMode \/ SelectTimesOut \/ DeviceFails \/ Dequeue \/ ThreadEnds
     /\ UNCHANGED cameraVars

Driver == DriverFills /\ UNCHANGED cameraVars

BinderCompletes == \/ StopVideoStreamJoins \/ NotifyStreamStopped
                   \/ CloseCamera \/ ReclaimFrame

Next ==
  \/ SetMaxFramesInFlight \/ ImportExternalBuffers \/ StartVideoStream
  \/ StopVideoStream \/ DoneWithFrame
  \/ BinderCompletes
  \/ CaptureThread
  \/ Driver

(* The two threads run and the camera produces pictures; the client is     *)
(* obliged to nothing.                                                     *)
Fairness == /\ WF_vars(CaptureThread)
            /\ WF_vars(Driver)
            /\ WF_vars(BinderCompletes)

Spec == Init /\ [][Next]_vars /\ Fairness
-----------------------------------------------------------------------------
(* Properties.                                                             *)

InUse(b) == {i \in DOMAIN b : b[i].inUse}

(* The two counters forwardFrame and the resizing code decide by always    *)
(* agree with the records they summarise, whatever the capture thread does *)
(* between two locked sections.                                            *)
Accounting ==
  fdOpen => /\ framesAllowed = Cardinality(LiveSlots(buffers))
            /\ framesInUse = Cardinality(InUse(buffers))

(* A frame the client holds stays its frame: its slot is in use and has    *)
(* the buffer that was delivered, and no buffer is delivered twice before  *)
(* it is returned - resizing, importing and moving buffers between slots   *)
(* leave it alone.                                                         *)
HeldFramesIntact ==
  /\ fdOpen => \A f \in held : /\ f.id \in DOMAIN buffers
                              /\ buffers[f.id] = [handle |-> f.handle, inUse |-> TRUE]
  /\ fdOpen => \A f, g \in held : f.handle = g.handle => f = g

(* While forwardFrame copies a picture without the lock, the buffer it     *)
(* writes to is still the one in its slot, is reserved, and is not one the *)
(* client holds or is just returning; and the driver does not own the      *)
(* capture buffer it reads from.                                           *)
FillIsExclusive ==
  /\ Forwarding("fill") => cur \in frames
  /\ (Forwarding("fill") \/ Forwarding("deliver") \/ Forwarding("send")) =>
       /\ fidx \in DOMAIN buffers
       /\ buffers[fidx] = [handle |-> fhandle, inUse |-> TRUE]
       /\ fidx \notin returning
       /\ \A f \in held : f.handle # fhandle

(* EvsV4lCamera.cpp:680: having fewer frames in use than allowed, the      *)
(* search for a free slot always succeeds.                                 *)
SlotAlwaysFound ==
  Forwarding("lock") /\ framesInUse < framesAllowed => Free(buffers) # {}

(* EvsV4lCamera.cpp:475: when a returned frame is too high in the array,   *)
(* there is an empty slot below to move its buffer to.                     *)
EmptySlotBelow ==
  fdOpen => \A id \in returning : id >= framesAllowed =>
              \E i \in Empty(buffers) : i < framesAllowed

(* STREAM_STOPPED is the last the client hears of a stream: when the       *)
(* capture thread delivers a frame, having looked at mStream without the   *)
(* lock, mStream is still set and the client was not told of the end.      *)
EndOfStreamIsLast == Forwarding("send") => stream /\ ~eos

(* EvsV4lCamera.cpp:84: when shutdown goes on to close the device and free *)
(* the buffers, no thread is using them.                                   *)
NoThreadWhenClosing == op = "closing" => thread # "alive"

(* The pool never grows beyond kMaxBuffersInFlight. *)
LimitRespected == framesAllowed <= kMaxBuffersInFlight

(* The pool shrinks only because a client asked for a smaller one: a       *)
(* request that fails is rolled back to the previous state.                *)
ShrinksOnRequestOnly ==
  [][framesAllowed' < framesAllowed =>
       \E n \in Requests : n >= 1 /\ n <= framesAllowed']_vars

(* stopVideoStream returns, although it waits for the capture thread while *)
(* that thread takes the same lock, and the client of a running stream is  *)
(* told of its end.                                                        *)
StopReturns  == op = "stopping" ~> op # "stopping"
StopNotifies == (op = "stopping" /\ stream) ~> eos

(* A stream does not dry up while the client keeps returning its frames:   *)
(* a frame is offered to the client again and again until the stream ends. *)
(* Unless the camera cannot: the pool has no buffer left after requests    *)
(* that failed, the capture loop lost its descriptor in a time-out (see    *)
(* FramesAreDispatched), or the driver refused to take its buffers back.   *)
Streaming      == stream /\ runMode = {"RUN"} /\ ~terminated
Starved        == \/ framesAllowed = 0
                  \/ ~armed
                  \/ queued = {} /\ filled = <<>> /\ cur = NoBuf
KeepsFlowing   == Streaming ~> (Forwarding("send") \/ ~Streaming \/ Starved)
FairClientSpec == Spec /\ SF_vars(DoneWithFrame)
-----------------------------------------------------------------------------
(* A camera whose client returns only what it holds implements             *)
(* FrameExchange.  A buffer counts as lent until its return is handled; a  *)
(* slot in use that is neither with the client nor being returned is the   *)
(* one forwardFrame works on.                                              *)
Waiting  == {buffers[i].handle : i \in Free(buffers)}
Pending  == {f \in [id : returning, handle : Handles] :
               fdOpen /\ f.id \in DOMAIN buffers /\ buffers[f.id].handle = f.handle}
Lent     == {f.handle : f \in held \cup Pending}
Writing  == {buffers[i].handle :
               i \in InUse(buffers) \ {f.id : f \in held \cup Pending}}
Exchange == INSTANCE FrameExchange
              WITH idle <- Waiting, writing <- Writing, lent <- Lent,
                   streaming <- stream, lost <- ~fdOpen

(* The buffers change hands as FrameExchange says. *)
LendsBuffers == Exchange!FESpec

(* Inside the camera, VideoCapture behaves as its own specification says:  *)
(* in particular forwardFrame is a callback that gives every frame back.   *)
CapturesVideo == VCSpec
=============================================================================
