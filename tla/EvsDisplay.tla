----------------------------- MODULE EvsDisplay -----------------------------
(***************************************************************************)
(* EvsGlDisplay, a display of the EVS HAL                                  *)
(* (src/evs/evsHal/aidl/src/EvsGlDisplay.cpp).                             *)
(*                                                                         *)
(* There is one buffer.  A client gets it, draws into it and returns it; a *)
(* render thread puts it on the screen.  Another client may take the       *)
(* display over at any time: then forceShutdown ends the render thread.    *)
(* mLock makes each locked section one action; a wait on a condition       *)
(* variable is a guard, since every change of its condition is notified.   *)
(***************************************************************************)
EXTENDS FiniteSets

CONSTANTS
  BinderThreads,  \* those that run the calls
  Asked,    \* bound: states the client asks for
  Client,   \* how the client behaves, see below
  Faults    \* what may fail, see below

DisplayStates == {"NOT_OPEN", "NOT_VISIBLE", "VISIBLE_ON_NEXT_FRAME",
                  "VISIBLE", "DEAD"}

(* "early": the client calls before the render thread has initialised      *)
(* itself; "hidden": it returns its buffer also when the display is not    *)
(* visible; "retry": it returns a buffer again after an error.             *)
ClientHabits == {"early", "hidden", "retry"}

(* "gl": GlWrapper::initialize fails; "alloc": there is no buffer;         *)
(* "texture": the buffer cannot be made a texture.                         *)
DisplayFaults == {"gl", "alloc", "texture"}

ASSUME DisplayAssumption ==
  /\ Asked \subseteq DisplayStates
  /\ Client \subseteq ClientHabits
  /\ Faults \subseteq DisplayFaults

VARIABLES
  requested,  \* mRequestedState
  handle,     \* mBuffer.handle: nothing, uninitialised memory, or the buffer
  busy,       \* mBufferBusy
  ready,      \* mBufferReady
  state,      \* mState
  rpc,        \* where the render thread is
  gl,         \* mGlWrapper holds a window and an EGL context
  texture,    \* mGlWrapper has made an image of the buffer (mKHRimage)
  window,     \* the display proxy shows the window
  call,       \* what each binder thread is waiting for
  lent,       \* the handles the client has and has not returned
  refused,    \* the last return of the buffer was answered with an error
  shut,       \* forceShutdown has returned
  mishaps     \* faults so far, buffers ignored, takeovers not noticed

renderVars == <<state, rpc, gl, texture>>
bufferVars == <<handle, busy, ready>>
clientVars == <<lent, refused>>
displayVars ==
  <<requested, bufferVars, renderVars, window, call, clientVars, shut, mishaps>>

(* The values each variable may take; an image exists only in a context.   *)
DisplayTypeOK ==
  /\ requested \in DisplayStates
  /\ handle \in {"null", "junk", "buffer"}
  /\ busy \in BOOLEAN /\ ready \in BOOLEAN
  /\ state \in {"RUN", "STOPPING", "STOPPED"}
  /\ rpc \in {"init", "wait", "draw", "free", "hide", "ended"}
  /\ gl \in BOOLEAN /\ window \in BOOLEAN
  /\ texture \in BOOLEAN /\ (texture => gl)
  /\ call \in [BinderThreads -> {"idle", "get", "render", "join"}]
  /\ lent \subseteq {"null", "junk", "buffer"}
  /\ refused \in BOOLEAN /\ shut \in BOOLEAN
  /\ mishaps \subseteq DisplayFaults \cup {"ignored", "overlooked"}

(* mBuffer has no initialiser. *)
DisplayInit ==
  /\ requested = "NOT_VISIBLE"
  /\ handle \in {"null", "junk"}
  /\ busy = FALSE /\ ready = FALSE
  /\ state = "RUN" /\ rpc = "init"
  /\ gl = FALSE /\ texture = FALSE /\ window = FALSE
  /\ call = [t \in BinderThreads |-> "idle"]
  /\ lent = {} /\ refused = FALSE /\ shut = FALSE /\ mishaps = {}

-----------------------------------------------------------------------------
(* The render thread.                                                      *)

(* The buffer is made available; the variant forgets that. *)
StillBusy == busy
NotBusy   == FALSE

(* GlWrapper::shutdown drops the image. *)
ImageDropped == FALSE

RenderInit ==
  /\ rpc = "init"
  /\ handle' = "buffer" /\ busy' = NotBusy /\ gl' = TRUE
  /\ rpc' = "wait"
  /\ UNCHANGED <<requested, ready, state, texture, window, call, clientVars, shut, mishaps>>

Mishap(what) == mishaps' = mishaps \cup {what}

(* GlWrapper::initialize gives up half-way and leaves what it has; after a *)
(* failed allocation the wrapper is shut down.                             *)
RenderInitFails ==
  /\ rpc = "init"
  /\ \/ "gl" \in Faults /\ gl' \in BOOLEAN /\ UNCHANGED handle /\ Mishap("gl")
     \/ "alloc" \in Faults /\ handle' \in {handle, "null"} /\ UNCHANGED gl /\ Mishap("alloc")
  /\ rpc' = "ended"
  /\ UNCHANGED <<requested, busy, ready, state, texture, window, call,
                 clientVars, shut>>

RenderNext ==
  /\ rpc = "wait" /\ (ready \/ state # "RUN")
  /\ IF state # "RUN"
       THEN rpc' = "free" /\ UNCHANGED ready
       ELSE rpc' = "draw" /\ ready' = FALSE
  /\ UNCHANGED <<requested, handle, busy, state, gl, texture, window, call,
                 clientVars, shut, mishaps>>

(* updateImageTexture fails, which it does only the first time: the frame  *)
(* is dropped.                                                             *)
RenderFails ==
  /\ rpc = "draw" /\ ~texture /\ "texture" \in Faults
  /\ rpc' = "wait" /\ Mishap("texture")
  /\ UNCHANGED <<requested, bufferVars, state, gl, texture, window, call,
                 clientVars, shut>>

RenderDraws ==
  /\ rpc = "draw"
  /\ texture' = TRUE /\ busy' = NotBusy
  /\ rpc' = "wait"
  /\ UNCHANGED <<requested, handle, ready, state, gl, window, call, clientVars,
                 shut, mishaps>>

(* The thread ends: it frees the buffer without the lock, then hides the   *)
(* window and releases what the wrapper holds.                             *)
RenderFrees ==
  /\ rpc = "free"
  /\ handle' = "null"
  /\ rpc' = "hide"
  /\ UNCHANGED <<requested, busy, ready, state, gl, texture, window, call,
                 clientVars, shut, mishaps>>

RenderEnds ==
  /\ rpc = "hide"
  /\ window' = FALSE /\ gl' = FALSE /\ texture' = ImageDropped
  /\ state' = "STOPPED" /\ rpc' = "ended"
  /\ UNCHANGED <<requested, bufferVars, call, clientVars, shut, mishaps>>

RenderThread ==
  \/ RenderInit \/ RenderInitFails \/ RenderNext \/ RenderFails \/ RenderDraws
  \/ RenderFrees \/ RenderEnds

-----------------------------------------------------------------------------
(* The client's calls.                                                     *)

Returns(t) == call' = [call EXCEPT ![t] = "idle"]
Waits(t, what) == call' = [call EXCEPT ![t] = what]

Calls(t)   == call[t] = "idle" /\ (rpc = "init" => "early" \in Client)
Waiting    == \E t \in BinderThreads : call[t] \in {"get", "render"}

(* The object has lost the display. *)
Dead == requested = "DEAD"

SetDisplayState ==
  /\ \E t \in BinderThreads : Calls(t)
  /\ ~Dead
  /\ \E s \in Asked :
       /\ "hidden" \in Client \/ s \in {"VISIBLE", "VISIBLE_ON_NEXT_FRAME"}
            \/ ("buffer" \notin lent /\ ~Waiting)
       /\ requested' = s
       /\ window' = CASE s = "NOT_VISIBLE" -> FALSE
                      [] s = "VISIBLE"     -> TRUE
                      [] OTHER             -> window
  /\ UNCHANGED <<bufferVars, renderVars, call, clientVars, shut, mishaps>>

(* The buffer is given out. *)
Grant == /\ busy' = TRUE
         /\ lent' = lent \cup {handle}
         /\ refused' = FALSE

(* May it be?  The variant looks only whether the client has returned it.  *)
FreeOfClient == "buffer" \notin lent
Available    == ~busy

GetTargetBuffer(t) ==
  /\ Calls(t) /\ ~Dead
  /\ ~Waiting /\ lent = {}
  /\ \/ Available /\ Grant /\ UNCHANGED call
     \/ ~Available /\ Waits(t, "get") /\ UNCHANGED <<busy, clientVars>>
  /\ UNCHANGED <<requested, handle, ready, renderVars, window, shut, mishaps>>

GetTargetBufferWakes(t) ==
  /\ call[t] = "get" /\ Available
  /\ Grant
  /\ Returns(t)
  /\ UNCHANGED <<requested, handle, ready, renderVars, window, shut, mishaps>>

(* returnTargetBufferForDisplay, up to where it waits for the picture.     *)
Shown == requested \in {"VISIBLE", "VISIBLE_ON_NEXT_FRAME"}

ReturnRefused ==
  /\ ~busy \/ Dead
  /\ refused' = TRUE
  /\ UNCHANGED <<requested, ready, window, call, mishaps>>

ReturnIgnored ==
  /\ busy /\ ~Shown /\ ~Dead
  /\ refused' = FALSE /\ Mishap("ignored")
  /\ UNCHANGED <<requested, ready, window, call>>

ReturnShows(t) ==
  /\ busy /\ Shown
  /\ requested' = "VISIBLE"
  /\ window' = (window \/ requested = "VISIBLE_ON_NEXT_FRAME")
  /\ ready' = TRUE
  /\ refused' = FALSE
  /\ Waits(t, "render")
  /\ UNCHANGED mishaps

ReturnTargetBuffer(t) ==
  /\ Calls(t) /\ ~Waiting
  /\ "buffer" \in lent \/ (refused /\ "retry" \in Client)
  /\ Shown \/ Dead \/ "hidden" \in Client
  /\ lent' = lent \ {"buffer"}
  /\ ReturnRefused \/ ReturnIgnored \/ ReturnShows(t)
  /\ UNCHANGED <<handle, busy, renderVars, shut>>

(* The picture is on the screen, or a second has passed. *)
ReturnTargetBufferEnds(t) ==
  /\ call[t] = "render"
  /\ \/ ~busy /\ UNCHANGED refused
     \/ busy /\ refused' = TRUE
  /\ Returns(t)
  /\ UNCHANGED <<requested, bufferVars, renderVars, window, lent, shut, mishaps>>

-----------------------------------------------------------------------------
(* The display is taken over, perhaps before the render thread is up.  It  *)
(* is told to stop only if there is a buffer, or what mBuffer happens to   *)
(* contain looks like one; in the variant, only if the buffer is busy.     *)
ToldIfBusy == IF busy THEN "STOPPING" ELSE state
ToldToStop == IF handle # "null" THEN "STOPPING" ELSE state

TooEarly   == rpc = "init" /\ handle = "null"

ForceShutdown(t) ==
  /\ call[t] = "idle" /\ ~shut /\ \A u \in BinderThreads : call[u] # "join"
  /\ state' = ToldToStop
  /\ requested' = "DEAD"
  /\ Waits(t, "join")
  /\ IF TooEarly THEN Mishap("overlooked") ELSE UNCHANGED mishaps
  /\ UNCHANGED <<bufferVars, rpc, gl, texture, window, clientVars, shut>>

ForceShutdownJoins(t) ==
  /\ call[t] = "join" /\ rpc = "ended"
  /\ shut' = TRUE
  /\ Returns(t)
  /\ UNCHANGED <<requested, bufferVars, renderVars, window, clientVars, mishaps>>

CallEnds ==
  \E t \in BinderThreads : \/ GetTargetBufferWakes(t)
                          \/ ReturnTargetBufferEnds(t)
                          \/ ForceShutdownJoins(t)

DisplayNext ==
  \/ RenderThread
  \/ SetDisplayState
  \/ \E t \in BinderThreads : \/ GetTargetBuffer(t)
                              \/ ReturnTargetBuffer(t)
                              \/ ForceShutdown(t)
  \/ CallEnds

(* The render thread runs, and a call whose condition holds, or whose time *)
(* is up, ends; nobody is obliged to call.                                 *)
Fairness == WF_displayVars(RenderThread) /\ WF_displayVars(CallEnds)

DisplaySpec == DisplayInit /\ [][DisplayNext]_displayVars /\ Fairness
-----------------------------------------------------------------------------
(* Properties.                                                             *)

(* The render thread reads a picture that its client has finished: while   *)
(* it draws without the lock, the buffer exists and no client has it.      *)
DrawnAlone == rpc = "draw" => handle = "buffer" /\ "buffer" \notin lent

(* The buffer is not lost: as long as the client owns the display, and     *)
(* unless a return was ignored or a texture failed, a busy buffer is with  *)
(* the client, waits to be drawn or is being drawn - so it becomes         *)
(* available again.                                                        *)
BusyHasReason ==
  busy /\ ~Dead /\ mishaps = {} => "buffer" \in lent \/ ready \/ rpc = "draw"

(* When forceShutdown returns, the display is free for its next owner: the *)
(* window is hidden, the buffer and the GL context are released, and they  *)
(* remain so whatever the old client still calls - if the render thread    *)
(* had been able to initialise them.                                       *)
ReleasedWhenShut ==
  shut => /\ rpc = "ended" /\ handle # "buffer"
          /\ mishaps \cap {"gl", "alloc"} = {} => ~window /\ ~gl

(* Nobody gets a buffer from an object that has lost the display.          *)
(* (EvsGlDisplay.cpp:332: such requests are rejected.)                     *)
OwnersOnly == [][lent' \subseteq lent \/ ~Dead]_displayVars

(* EvsGlDisplay.cpp:322: what getTargetBuffer returns is the buffer of the *)
(* display.                                                                *)
GivesBuffer == lent \subseteq {"buffer"}

(* A request for a buffer is answered, unless the display is lost, and     *)
(* unless the buffer is, by a return that was ignored or a texture that    *)
(* failed.                                                                 *)
GetAnswers ==
  \A t \in BinderThreads :
    call[t] = "get" ~> (call[t] # "get" \/ Dead \/ mishaps # {})

(* EvsGlDisplay.cpp:348: a request is answered even if there is nothing to *)
(* provide.                                                                *)
AlwaysAnswers == \A t \in BinderThreads : call[t] = "get" ~> (call[t] # "get" \/ Dead)

(* forceShutdown returns, whenever it is called: while the render thread   *)
(* starts, waits, draws or has failed, whatever the old client still does. *)
(* There is one exception: it was called when there was nothing in mBuffer *)
(* yet, so that it told nobody to stop, and the render thread then came up *)
(* (EvsGlDisplay.cpp:91).                                                  *)
Overlooked == "overlooked" \in mishaps /\ rpc = "wait"

ShutdownReturns ==
  \A t \in BinderThreads : call[t] = "join" ~> (call[t] # "join" \/ Overlooked)

(* forceShutdown returns.  FAILS in that case: it joins a thread that      *)
(* waits for ever.                                                         *)
ShutdownAlwaysReturns == \A t \in BinderThreads : call[t] = "join" ~> call[t] # "join"
=============================================================================
