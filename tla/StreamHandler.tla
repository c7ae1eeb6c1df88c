---------------------------- MODULE StreamHandler ----------------------------
(***************************************************************************)
(* StreamHandler of the EVS application                                    *)
(* (src/evs/apps/default/src/StreamHandler.cpp) between a camera and the   *)
(* renderer that owns it.                                                  *)
(*                                                                         *)
(* The camera is any that keeps to FrameExchange; its calls deliverFrame   *)
(* and notify are one-way and wait in a queue until the only binder thread *)
(* of the application executes them.  The renderer is VideoTex or          *)
(* RenderPixelCopy; both run on the render thread.  mLock makes each       *)
(* method one action.                                                      *)
(***************************************************************************)
EXTENDS FrameExchange, Integers, Sequences

CONSTANTS
  NumBuffers,  \* the buffers the constructor asks the camera for
  NoFrame,     \* an empty BufferDesc
  Stopped,     \* the event STREAM_STOPPED
  Faults       \* what may go wrong, see below

(* "refused": the camera refuses the buffers or the stream; "stolen":      *)
(* another client opens the camera; "dies": the process of the camera      *)
(* ends; "invalid": the handle of a frame cannot be duplicated.            *)
StreamFaults == {"refused", "stolen", "dies", "invalid"}

ASSUME StreamAssumption ==
  /\ NumBuffers \in Nat \ {0}
  /\ NoFrame \notin Handles /\ Stopped \notin Handles
  /\ Faults \subseteq StreamFaults

VARIABLES
  died,     \* the camera's process has ended without a word
  wire,     \* one-way calls of the camera that were not executed yet
  running,  \* mRunning
  slot,     \* mBuffers
  ready,    \* mReadyBuffer
  heldIdx,  \* mHeldBuffer
  owner,    \* who uses the handler: a "texture" or a "copy" of pixels
  image,    \* the frame that it works with
  pc        \* where it is

cameraVars  == <<feVars, died>>
handlerVars == <<running, slot, ready, heldIdx>>
ownerVars   == <<owner, image, pc>>
vars        == <<cameraVars, wire, handlerVars, ownerVars>>

Slots == 0 .. 1
None  == -1

Frame   == [frame : Handles \cup {NoFrame}, valid : BOOLEAN]
NoImage == [frame |-> NoFrame, valid |-> FALSE]

(* The values each variable may take. *)
TypeOK ==
  /\ idle \subseteq Handles /\ writing \subseteq Handles /\ lent \subseteq Handles
  /\ streaming \in BOOLEAN /\ lost \in BOOLEAN /\ died \in BOOLEAN
  /\ wire \in Seq(Handles \cup {Stopped})
  /\ running \in BOOLEAN
  /\ slot \in [Slots -> Frame]
  /\ ready \in Slots \cup {None} /\ heldIdx \in Slots \cup {None}
  /\ owner \in {"texture", "copy"}
  /\ image \in Frame
  /\ pc \in {"new", "start", "idle", "done", "take", "stop", "close",
             "dropped", "waits", "gone"}

Init ==
  /\ FEInit /\ died = FALSE
  /\ wire = <<>>
  /\ running = FALSE
  /\ slot = [i \in Slots |-> NoImage]
  /\ ready = None /\ heldIdx = None
  /\ owner \in {"texture", "copy"} /\ image = NoImage /\ pc = "new"

-----------------------------------------------------------------------------
(* The camera, and what may happen to it.                                  *)

CameraWrites == BeginWrite /\ UNCHANGED <<died, wire, handlerVars, ownerVars>>

CameraDelivers ==
  /\ Lend
  /\ \E f \in writing : wire' = Append(wire, f)
  /\ UNCHANGED <<died, handlerVars, ownerVars>>

(* Another client opens the camera: it is shut down. *)
CameraStolen ==
  /\ "stolen" \in Faults
  /\ End
  /\ wire' = Append(wire, Stopped)
  /\ UNCHANGED <<died, handlerVars, ownerVars>>

CameraLost ==
  /\ "stolen" \in Faults
  /\ Lose
  /\ UNCHANGED <<died, wire, handlerVars, ownerVars>>

CameraDies ==
  /\ "dies" \in Faults /\ ~lost
  /\ died' = TRUE /\ streaming' = FALSE /\ lost' = TRUE
  /\ idle' = {} /\ writing' = {}
  /\ UNCHANGED <<lent, wire, handlerVars, ownerVars>>

-----------------------------------------------------------------------------
(* The calls of the camera, on the binder thread.                          *)

(* The slot that the renderer does not hold; the variant takes the first.  *)
FirstSlot(h) == 0
OtherSlot(h) == 1 - h

OnDeck == IF ready # None THEN ready
          ELSE IF heldIdx # None THEN OtherSlot(heldIdx) ELSE 0

DeliverFrame ==
  /\ wire # <<>> /\ Head(wire) # Stopped
  /\ wire' = Tail(wire)
  /\ IF ready # None THEN GiveBack({slot[ready].frame}) ELSE UNCHANGED feVars
  /\ ready' = OnDeck
  /\ \E valid \in BOOLEAN :
       /\ valid \/ "invalid" \in Faults
       /\ slot' = [slot EXCEPT ![OnDeck] = [frame |-> Head(wire), valid |-> valid]]
  /\ UNCHANGED <<died, running, heldIdx, ownerVars>>

(* The stream has ended.  Nobody is woken.  In the variant it goes on. *)
StillRunning == running
NotRunning   == FALSE

NotifyStopped ==
  /\ wire # <<>> /\ Head(wire) = Stopped
  /\ wire' = Tail(wire)
  /\ running' = NotRunning
  /\ UNCHANGED <<cameraVars, slot, ready, heldIdx, ownerVars>>

-----------------------------------------------------------------------------
(* The renderer.                                                           *)

Goes(where) == pc' = where /\ UNCHANGED owner

(* setMaxFramesInFlight or importExternalBuffers; the result is ignored.   *)
Construct ==
  /\ pc = "new"
  /\ \/ Resize /\ Cardinality(idle') = NumBuffers
     \/ (lost \/ "refused" \in Faults) /\ UNCHANGED feVars
  /\ Goes("start")
  /\ UNCHANGED <<died, wire, handlerVars, image>>

(* A handler whose stream cannot be started is destroyed. *)
StartStream ==
  /\ pc = "start"
  /\ \/ Start /\ running' = TRUE /\ Goes("idle")
     \/ /\ lost \/ "refused" \in Faults
        /\ Goes("gone") /\ UNCHANGED <<feVars, running>>
  /\ UNCHANGED <<died, wire, slot, ready, heldIdx, image>>

(* newFrameAvailable.  A texture first gives back the image it has. *)
NewFrameAvailable ==
  /\ pc = "idle" /\ ready # None
  /\ IF owner = "texture" /\ image.valid THEN Goes("done") ELSE Goes("take")
  /\ UNCHANGED <<cameraVars, wire, handlerVars, image>>

(* The ready frame becomes the held one; in the variant it stays ready.    *)
StillReady == ready
NotReady   == None

GetNewFrame ==
  /\ pc = "take"
  /\ IF heldIdx # None
       THEN UNCHANGED <<ready, heldIdx>>
       ELSE heldIdx' = (IF ready # None THEN ready ELSE 0) /\ ready' = NotReady
  /\ image' = slot[heldIdx']
  /\ CASE owner = "texture"                 -> Goes("idle")
       [] owner = "copy" /\ image'.valid    -> Goes("done")
       [] owner = "copy" /\ ~image'.valid   -> Goes("dropped")
  /\ UNCHANGED <<cameraVars, wire, running, slot>>

(* Only the frame that is held is given back; in the variant it is not     *)
(* marked.                                                                 *)
StillHeld == heldIdx
NotHeld   == None

DoneWithFrame ==
  /\ pc = "done"
  /\ IF heldIdx # None /\ slot[heldIdx].frame = image.frame
       THEN GiveBack({image.frame}) /\ heldIdx' = NotHeld
       ELSE UNCHANGED <<feVars, heldIdx>>
  /\ image' = NoImage
  /\ Goes(IF owner = "texture" THEN "take" ELSE "idle")
  /\ UNCHANGED <<died, wire, running, slot, ready>>

(* The renderer is deactivated: a texture stops the stream and closes the  *)
(* camera, the other just drops the handler.                               *)
Deactivate ==
  /\ pc = "idle"
  /\ Goes(IF owner = "texture" THEN "stop" ELSE "dropped")
  /\ UNCHANGED <<cameraVars, wire, handlerVars, image>>

(* The call returns when the stream has ended. *)
AsyncStopStream ==
  /\ pc = "stop"
  /\ \/ End /\ wire' = Append(wire, Stopped)
     \/ ~streaming /\ UNCHANGED <<feVars, wire>>
  /\ Goes("close")
  /\ UNCHANGED <<died, handlerVars, image>>

CloseCamera ==
  /\ pc = "close"
  /\ Lose \/ (lost /\ UNCHANGED feVars)
  /\ Goes("dropped")
  /\ UNCHANGED <<died, wire, handlerVars, image>>

(* The camera has a reference to the handler during a stream, and so has a *)
(* call that is not executed yet.                                          *)
Referenced == streaming \/ wire # <<>>

(* The last reference is gone: the destructor stops the stream and waits   *)
(* for the end of it.  Nothing is left that could end such a wait.         *)
Destroy ==
  /\ pc = "dropped" /\ ~Referenced
  /\ Goes(IF running THEN "waits" ELSE "gone")
  /\ UNCHANGED <<cameraVars, wire, handlerVars, image>>

Camera       == CameraWrites \/ CameraDelivers
BinderThread == DeliverFrame \/ NotifyStopped
Drawing      == NewFrameAvailable \/ GetNewFrame \/ DoneWithFrame
Leaving      == AsyncStopStream \/ CloseCamera \/ Destroy

Next ==
  \/ Camera \/ CameraStolen \/ CameraLost \/ CameraDies
  \/ BinderThread
  \/ Construct \/ StartStream \/ Drawing \/ Deactivate \/ Leaving

(* The camera writes pictures, its deliveries do not fail for ever, and a  *)
(* stop, which keeps it from going on, ends; calls are executed; the       *)
(* renderer draws again and again as long as it is active.  It need not be *)
(* deactivated.                                                            *)
Fairness == /\ WF_vars(CameraWrites) /\ SF_vars(CameraDelivers)
            /\ WF_vars(BinderThread)
            /\ WF_vars(Drawing) /\ WF_vars(Leaving) /\ SF_vars(AsyncStopStream)

Spec == Init /\ [][Next]_vars /\ Fairness
-----------------------------------------------------------------------------
(* Properties.                                                             *)

OnWire == {wire[i] : i \in DOMAIN wire} \ {Stopped}
Kept   == {slot[i].frame : i \in {ready, heldIdx} \ {None}}

(* Every frame the camera has lent is in exactly one place: in a call that *)
(* waits, ready, or held by the renderer.  None is dropped, kept twice or  *)
(* given back twice, so the camera never runs out of buffers.              *)
Conserved ==
  /\ lent = OnWire \cup Kept
  /\ OnWire \cap Kept = {}
  /\ \A i, j \in DOMAIN wire : wire[i] = wire[j] /\ wire[i] # Stopped => i = j
  /\ ready # None /\ heldIdx # None =>
       ready # heldIdx /\ slot[ready].frame # slot[heldIdx].frame

(* While a renderer works with a picture - a texture from one refresh to   *)
(* the next, a copy until it is done - the handler holds that frame for it *)
(* and the camera does not have it to write to, whatever is delivered.     *)
Reading == /\ image.valid
           /\ pc \in IF owner = "texture" THEN {"idle", "done"} ELSE {"done"}
ReadsItsOwn ==
  Reading => heldIdx # None /\ slot[heldIdx] = image /\ image.frame \in lent

(* The picture does not freeze: as long as it is drawn and the camera      *)
(* streams, a new frame is taken again and again - with two buffers, as    *)
(* the constructor asks for, and handles that can be duplicated.           *)
Drawn  == pc \in {"idle", "done", "take"} /\ streaming
Frozen == \/ Cardinality(idle \cup writing \cup lent) < 2
          \/ heldIdx # None /\ ~slot[heldIdx].valid
KeepsRefreshing ==
  Drawn ~> (pc = "take" /\ heldIdx = None) \/ ~Drawn \/ Frozen

(* The same, whatever the camera and the frames are like. *)
NeverFreezes == Drawn ~> (pc = "take" /\ heldIdx = None) \/ ~Drawn

(* A texture that is destroyed is gone: the stream ends, and the handler's *)
(* destructor, which waits for the end of it, returns - unless the camera  *)
(* dies and does not announce it.                                          *)
StopEnds == pc = "stop" ~> pc = "gone" \/ died

(* StreamHandler.cpp:139: it waits until the stream has actually stopped,  *)
(* and no longer.                                                          *)
WaitsForEnd == pc = "waits" ~> streaming \/ pc = "gone"

(* When nobody draws the picture any more, the camera stops.               *)
(* (RenderDirectView.cpp:145: another renderer might need the camera.)     *)
StreamsWhileDrawn == pc = "dropped" ~> ~streaming
-----------------------------------------------------------------------------
(* The inductive invariant: besides what the properties say, the camera    *)
(* has no buffer twice and writes during a stream only, and the renderer   *)
(* asks for a frame when there is one and gives back one that it has.      *)
Disjoint ==
  /\ idle \cap writing = {} /\ (idle \cup writing) \cap lent = {}
  /\ \A f, g \in writing : f = g
  /\ ~streaming => writing = {}
Asks ==
  /\ pc = "take" => ready # None
  /\ pc = "done" => image.valid
  /\ pc = "done" /\ owner = "texture" => ready # None
  /\ pc \in {"new", "start"} => heldIdx = None /\ ~image.valid
  /\ owner = "copy" /\ pc \in {"idle", "take"} => heldIdx = None
IInv == TypeOK /\ Disjoint /\ Conserved /\ ReadsItsOwn /\ Asks
=============================================================================
