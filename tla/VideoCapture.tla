---------------------------- MODULE VideoCapture ----------------------------
(***************************************************************************)
(* The V4L2 capture wrapper of the EVS HAL                                 *)
(* (src/evs/evsHal/aidl/src/VideoCapture.cpp): a caller thread that opens, *)
(* starts, stops and closes the device, and the capture thread it starts,  *)
(* which dequeues filled driver buffers and hands each to a callback.  The *)
(* two communicate through the bit set mRunMode and Thread.join.           *)
(*                                                                         *)
(* The model follows one object from a successful open() on.  mRunMode is  *)
(* the set of its bits, STOPPED being the empty set.                       *)
(***************************************************************************)
EXTENDS Integers, FiniteSets, Sequences, Functions

CONSTANTS
  BufferCount,   \* BUFFER_COUNT: capture buffers asked of the driver
  Faults         \* the kinds of failure the environment may produce

ASSUME BufferCountAssumption == BufferCount \in Nat \ {0}

(* "reqbufs", "setup": VIDIOC_REQBUFS, or one of QUERYBUF, mmap and QBUF,  *)
(* fails in startStream; "select", "dqbuf", "qbuf": that call fails in the *)
(* capture loop; "timeout": the camera delivers nothing for a second.      *)
CaptureFaults == {"reqbufs", "setup", "select", "dqbuf", "qbuf", "timeout"}

Buf   == 0 .. BufferCount - 1
NoBuf == -1

VARIABLES
  fdOpen,      \* mDeviceFd >= 0
  runMode,     \* mRunMode, as the set of its bits
  thread,      \* mCaptureThread: "none", "alive", or "ended" and joinable
  tpc,         \* where the capture thread is in collectFrames
  armed,       \* mDeviceFd is a member of the fd_set given to select
  numBuffers,  \* mNumBuffers: how many capture buffers are mapped
  queued,      \* buffers the driver may fill
  filled,      \* those it has filled, in order, until they are dequeued
  frames,      \* mFrames: buffers dequeued and not yet requeued
  cur,         \* the buffer given to the callback that is running
  numStreaming,\* mNumCamerasStreaming
  caller,      \* "idle", or "join" inside stopStream
  terminated   \* std::terminate ended the process

captureVars == <<fdOpen, runMode, thread, tpc, armed, numBuffers, queued,
                 filled, frames, cur, numStreaming, caller, terminated>>
loopVars   == <<tpc, armed, cur>>
deviceVars == <<numBuffers, queued, filled>>

VCTypeOK ==
  /\ fdOpen \in BOOLEAN
  /\ runMode \in SUBSET {"RUN", "STOPPING"}
  /\ thread \in {"none", "alive", "ended"}
  /\ tpc \in {"check", "select", "callback", "exit"}
  /\ armed \in BOOLEAN
  /\ numBuffers \in {0, BufferCount}
  /\ queued \in SUBSET Buf
  /\ filled \in Seq(Buf)
  /\ frames \in SUBSET Buf
  /\ cur \in Buf \cup {NoBuf}
  /\ numStreaming \in Int
  /\ caller \in {"idle", "join"}
  /\ terminated \in BOOLEAN

(* open() has succeeded: no thread, no buffers, mRunMode = STOPPED. *)
VCInit ==
  /\ fdOpen = TRUE
  /\ runMode = {}
  /\ thread = "none"
  /\ tpc = "check" /\ armed = TRUE /\ cur = NoBuf
  /\ numBuffers = 0 /\ queued = {} /\ filled = <<>>
  /\ frames = {}
  /\ numStreaming = 0
  /\ caller = "idle"
  /\ terminated = FALSE

-----------------------------------------------------------------------------
(* startStream.  The RUN bit is set before anything can fail, and no       *)
(* failure clears it.                                                      *)

(* fetch_or *)
WithBit(b) == runMode \cup {b}

CallerFree == caller = "idle" /\ ~terminated

StartRefused ==
  /\ CallerFree
  /\ "RUN" \in runMode
  /\ UNCHANGED captureVars

StartFails ==
  /\ CallerFree
  /\ "RUN" \notin runMode
  /\ runMode' = WithBit("RUN")
  /\ \/ /\ "reqbufs" \in Faults
        /\ UNCHANGED deviceVars
     \/ /\ "setup" \in Faults
        /\ numBuffers' = BufferCount
        /\ \E n \in Buf : queued' = 0 .. n - 1
        /\ filled' = <<>>
  /\ UNCHANGED <<fdOpen, thread, loopVars, frames, numStreaming, caller,
                 terminated>>

(* Assigning a new thread to a std::thread that is still joinable          *)
(* terminates the process.                                                 *)
StartSucceeds ==
  /\ CallerFree
  /\ "RUN" \notin runMode
  /\ runMode' = WithBit("RUN")
  /\ numBuffers' = BufferCount /\ queued' = Buf /\ filled' = <<>>
  /\ \/ /\ thread = "none"
        /\ thread' = "alive"
        /\ tpc' = "check" /\ armed' = TRUE /\ cur' = NoBuf
        /\ numStreaming' = numStreaming + 1
        /\ UNCHANGED terminated
     \/ /\ thread # "none"
        /\ terminated' = TRUE
        /\ UNCHANGED <<thread, loopVars, numStreaming>>
  /\ UNCHANGED <<fdOpen, frames, caller>>

-----------------------------------------------------------------------------
(* stopStream: set STOPPING, wait for the thread, release the buffers.     *)

(* The buffers are unmapped and given back; the variant counts them down.  *)
ReleaseOneBuffer      == numBuffers' = numBuffers - 1 /\ queued' = {} /\ filled' = <<>>
ReleaseCaptureBuffers == numBuffers' = 0 /\ queued' = {} /\ filled' = <<>>

(* The thread was not running: nothing is joined and mNumCamerasStreaming  *)
(* is left alone, also when the thread has ended by itself.                *)
StopWhenStopped ==
  /\ CallerFree
  /\ runMode = {}
  /\ ReleaseCaptureBuffers
  /\ UNCHANGED <<fdOpen, runMode, thread, loopVars, frames, numStreaming,
                 caller, terminated>>

StopReentered ==
  /\ CallerFree
  /\ "STOPPING" \in runMode
  /\ UNCHANGED captureVars

StopSignal ==
  /\ CallerFree
  /\ runMode = {"RUN"}
  /\ runMode' = WithBit("STOPPING")
  /\ caller' = "join"
  /\ UNCHANGED <<fdOpen, thread, loopVars, deviceVars, frames, numStreaming,
                 terminated>>

(* When join returns; the variant does not wait. *)
JoinSkipped == TRUE
JoinReturns == thread # "alive"

StopJoined ==
  /\ caller = "join"
  /\ JoinReturns
  /\ thread' = IF thread = "ended" THEN "none" ELSE thread
  /\ numStreaming' = numStreaming - 1
  /\ ReleaseCaptureBuffers
  /\ caller' = "idle"
  /\ UNCHANGED <<fdOpen, runMode, loopVars, frames, terminated>>

(* close() expects a stopped stream and closes the device in any case. *)
Close ==
  /\ CallerFree
  /\ fdOpen' = FALSE
  /\ UNCHANGED <<runMode, thread, loopVars, deviceVars, frames, numStreaming,
                 caller, terminated>>

-----------------------------------------------------------------------------
(* collectFrames, the capture thread.                                      *)

ThreadAt(pc) == thread = "alive" /\ tpc = pc /\ ~terminated

(* The condition of the loop; the variant looks for any bit. *)
KeepRunningAny == runMode # {}
KeepRunning    == runMode = {"RUN"}

CheckRunMode ==
  /\ ThreadAt("check")
  /\ tpc' = IF KeepRunning THEN "select" ELSE "exit"
  /\ UNCHANGED <<fdOpen, runMode, thread, armed, cur, deviceVars, frames,
                 numStreaming, caller, terminated>>

(* A second without a frame. *)
Silent == "timeout" \in Faults \/ queued = {}

(* select() found nothing for a second.  It reports that by clearing the   *)
(* fd_set, which the loop builds once, before its first round.             *)
SelectTimesOut ==
  /\ ThreadAt("select")
  /\ \/ ~armed
     \/ filled = <<>> /\ Silent
  /\ armed' = FALSE
  /\ tpc' = "check"
  /\ UNCHANGED <<fdOpen, runMode, thread, cur, deviceVars, frames,
                 numStreaming, caller, terminated>>

DeviceFails ==
  /\ ThreadAt("select")
  /\ "select" \in Faults \/ ("dqbuf" \in Faults /\ armed /\ filled # <<>>)
  /\ tpc' = "exit"
  /\ UNCHANGED <<fdOpen, runMode, thread, armed, cur, deviceVars, frames,
                 numStreaming, caller, terminated>>

Dequeue ==
  /\ ThreadAt("select")
  /\ armed
  /\ filled # <<>>
  /\ cur' = Head(filled)
  /\ filled' = Tail(filled)
  /\ frames' = frames \cup {cur'}
  /\ tpc' = "callback"
  /\ UNCHANGED <<fdOpen, runMode, thread, armed, numBuffers, queued,
                 numStreaming, caller, terminated>>

(* mFrames without b. *)
Erased(b) == frames \ {b}

(* markFrameConsumed, which the callback makes: returnFrame ignores a      *)
(* buffer that is not in mFrames, and keeps it there when QBUF fails.      *)
ReturnFrame ==
  /\ ThreadAt("callback")
  /\ \/ /\ cur \in frames
        /\ queued' = queued \cup {cur}
        /\ frames' = Erased(cur)
     \/ /\ cur \notin frames \/ "qbuf" \in Faults
        /\ UNCHANGED <<queued, frames>>
  /\ UNCHANGED <<fdOpen, runMode, thread, loopVars, numBuffers, filled,
                 numStreaming, caller, terminated>>

(* The only callback, forwardFrame, gives its frame back on every path.    *)
CallbackReturns ==
  /\ ThreadAt("callback")
  /\ cur \notin frames \/ "qbuf" \in Faults
  /\ tpc' = "check"
  /\ cur' = NoBuf
  /\ UNCHANGED <<fdOpen, runMode, thread, armed, deviceVars, frames,
                 numStreaming, caller, terminated>>

(* The thread marks itself stopped. *)
MarkStopped == runMode' = {}

ThreadEnds ==
  /\ ThreadAt("exit")
  /\ MarkStopped
  /\ thread' = "ended"
  /\ UNCHANGED <<fdOpen, loopVars, deviceVars, frames, numStreaming, caller,
                 terminated>>

-----------------------------------------------------------------------------
(* The V4L2 driver: it fills queued buffers while the stream is on.        *)
DriverFills ==
  /\ thread # "none" /\ ~terminated
  /\ \E b \in queued :
       /\ queued' = queued \ {b}
       /\ filled' = Append(filled, b)
  /\ UNCHANGED <<fdOpen, runMode, thread, loopVars, numBuffers, frames,
                 numStreaming, caller, terminated>>

StartStream == StartRefused \/ StartFails \/ StartSucceeds
StopStream  == StopWhenStopped \/ StopReentered \/ StopSignal \/ StopJoined
CaptureLoop ==
  \/ CheckRunMode \/ SelectTimesOut \/ DeviceFails \/ Dequeue
  \/ ReturnFrame \/ CallbackReturns \/ ThreadEnds

(* The callers start an open device, and close it after a stopStream.      *)
VCNext == \/ fdOpen /\ StartStream
          \/ StopStream
          \/ thread # "alive" /\ Close
          \/ CaptureLoop \/ DriverFills

(* The capture thread and the driver keep running; the caller returns from *)
(* a join that can return.  Nobody has to start, stop or close a stream.   *)
VCFairness == /\ WF_captureVars(CaptureLoop)
              /\ WF_captureVars(DriverFills)
              /\ WF_captureVars(StopJoined)

VCSpec == VCInit /\ [][VCNext]_captureVars /\ VCFairness
-----------------------------------------------------------------------------
(* Properties.                                                             *)

(* While a stream runs every capture buffer has exactly one owner: the     *)
(* driver, still to be filled; the driver, filled; or the HAL, dequeued.   *)
BufferConservation ==
  thread = "alive" =>
    /\ queued \cup Range(filled) \cup frames = Buf
    /\ Cardinality(queued) + Len(filled) + Cardinality(frames) = BufferCount

(* The capture buffers stay mapped as long as a callback may read them:    *)
(* stopStream and close wait until it has returned.                        *)
MappedWhileUsed ==
  ThreadAt("callback") => fdOpen /\ numBuffers = BufferCount /\ cur \in Buf

(* VideoCapture.cpp:213: "Stream should be stopped first!", asserted when  *)
(* the device is closed.                                                   *)
ClosedWhenStopped == [][fdOpen /\ ~fdOpen' => runMode = {}]_captureVars

(* VideoCapture.cpp:386, 426: the thread receives and dispatches the video *)
(* frames, waiting for a buffer to be ready: what the camera has filled is *)
(* dequeued, or the stream ends.                                           *)
FramesAreDispatched ==
  \A b \in Buf : b \in Range(filled) ~> (b \notin Range(filled) \/ runMode # {"RUN"})
=============================================================================
