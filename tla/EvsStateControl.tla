--------------------------- MODULE EvsStateControl ---------------------------
(***************************************************************************)
(* EvsStateControl of the EVS application                                  *)
(* (src/evs/apps/default/src/EvsStateControl.cpp), which chooses what the  *)
(* display shows, with EvsVehicleListener, which wakes it.                 *)
(*                                                                         *)
(* The main thread is the listener: it waits for an event of the vehicle,  *)
(* or five seconds, and posts a command.  The render thread runs the       *)
(* update loop: it empties the queue, reads three properties of the        *)
(* vehicle one after the other, changes the renderer and draws, or sleeps. *)
(* Nothing in the application posts EXIT or TOUCH_EVENT.                   *)
(* The application keeps its display as long as it runs, so the weak       *)
(* pointer to it is always valid, but another client may take it over.     *)
(***************************************************************************)
EXTENDS Naturals, Sequences

CONSTANTS
  Cameras,
  Views,    \* mCameraList: the cameras of each state
  Gears,    \* bound: positions the gear is put to
  Signals,  \* bound: positions of the turn signal
  Failing    \* what may fail, see below

States == {"OFF", "REVERSE", "LEFT", "RIGHT", "PARKING"}
Powers == {"ON", "SHUTDOWN_PREPARE"}  \* bound: the reports of the power
Unread == "unread"

(* "power", "gear", "signal": that property cannot be read; "activate": a  *)
(* renderer cannot be set up; "draw": it cannot draw; "info": the display  *)
(* does not describe itself; "taken": another client opens the display.    *)
ControlFaults == {"power", "gear", "signal", "activate", "draw", "info", "taken"}

ASSUME ControlAssumption ==
  /\ Views \in [States -> Seq(Cameras)] /\ Views["OFF"] = <<>>
  /\ Gears \subseteq {"REVERSE", "PARK", "DRIVE"}
  /\ Signals \subseteq {"NONE", "LEFT", "RIGHT"}
  /\ Failing \subseteq ControlFaults

VARIABLES
  vehicle,    \* the properties of the vehicle
  graphics,   \* SurfaceFlinger runs
  listener,   \* where EvsVehicleListener::run is
  queue,      \* mCommandQueue: the operations in it
  step,         \* where updateLoop is
  power,      \* mPowerStateReport
  gear,       \* mGearValue
  signal,     \* mTurnSignalValue
  signalRead, \* mTurnSignalValue.prop # 0
  suspend,    \* mSuspend
  isGlReady,
  state,      \* mCurrentState
  renderer,   \* mCurrentRenderer: none, a "copy" of pixels, or "gl"
  used,       \* the cameras it streams from
  orphans,    \* cameras that stream although their renderer is gone
  display     \* the state of the display

outsideVars == <<vehicle, graphics>>
readVars    == <<power, gear, signal, signalRead>>
showVars    == <<suspend, isGlReady, state, renderer, used, orphans, display>>
loopVars    == <<readVars, showVars>>
controlVars == <<outsideVars, listener, queue, step, loopVars>>

Vehicle == [power : Powers, gear : Gears, signal : Signals]

(* The values each variable may take; and when a state is chosen, gear and *)
(* signal have been read. *)
ControlTypeOK ==
  /\ vehicle \in Vehicle /\ graphics \in BOOLEAN
  /\ listener \in {"waits", "posts", "notifies"}
  /\ queue \subseteq {"CHECK_VEHICLE_STATE"}
  /\ step \in {"commands", "power", "gear", "signal", "choose", "draw", "sleeps",
             "leave", "ended", "crashed"}
  /\ power \in Powers \cup {Unread}
  /\ gear \in Gears \cup {Unread}
  /\ signal \in Signals \cup {"NONE", Unread} /\ signalRead \in BOOLEAN
  /\ step \in {"signal", "choose"} => gear # Unread
  /\ step = "choose" => signal # Unread
  /\ suspend \in BOOLEAN /\ isGlReady \in BOOLEAN
  /\ state \in States
  /\ renderer \in {"none", "copy", "gl"}
  /\ used \subseteq Cameras /\ orphans \subseteq Cameras
  /\ display \in {"NOT_VISIBLE", "VISIBLE_ON_NEXT_FRAME", "VISIBLE", "DEAD"}

ControlInit ==
  /\ vehicle \in Vehicle /\ graphics = FALSE
  /\ listener = "waits" /\ queue = {} /\ step = "commands"
  /\ power = Unread /\ gear = Unread /\ signal = Unread /\ signalRead = TRUE
  /\ suspend = FALSE /\ isGlReady = FALSE
  /\ state = "OFF" /\ renderer = "none" /\ used = {} /\ orphans = {}
  /\ display = "NOT_VISIBLE"

-----------------------------------------------------------------------------
(* The vehicle and the system.                                             *)

VehicleChanges ==
  /\ \/ \E p \in Powers  : vehicle' = [vehicle EXCEPT !.power = p]
     \/ \E g \in Gears   : vehicle' = [vehicle EXCEPT !.gear = g]
     \/ \E s \in Signals : vehicle' = [vehicle EXCEPT !.signal = s]
  /\ UNCHANGED <<graphics, listener, queue, step, loopVars>>

GraphicsStart ==
  /\ ~graphics /\ graphics' = TRUE
  /\ UNCHANGED <<vehicle, listener, queue, step, loopVars>>

DisplayTaken ==
  /\ "taken" \in Failing /\ display # "DEAD" /\ display' = "DEAD"
  /\ UNCHANGED <<outsideVars, listener, queue, step, readVars, suspend, isGlReady,
                 state, renderer, used, orphans>>

-----------------------------------------------------------------------------
(* The listener.                                                           *)

(* onPropertyEvent: an event, which may be late and is lost when it comes  *)
(* while nobody waits.                                                     *)
OnPropertyEvent ==
  /\ listener' = IF listener = "waits" THEN "posts" ELSE listener
  /\ UNCHANGED <<outsideVars, queue, step, loopVars>>

(* After five seconds it looks anyway; the variant waits for an event. *)
OnlyEvents  == FALSE
FiveSeconds == listener = "waits"
WaitTimesOut ==
  /\ FiveSeconds
  /\ listener' = "posts"
  /\ UNCHANGED <<outsideVars, queue, step, loopVars>>

(* postCommand: the queue under mLock, then the signal without it, which   *)
(* is lost on a loop that does not sleep yet.                              *)
Awake == IF step = "sleeps" THEN "commands" ELSE step

PostCommand ==
  /\ listener = "posts"
  /\ queue' = queue \cup {"CHECK_VEHICLE_STATE"} /\ listener' = "notifies"
  /\ UNCHANGED <<outsideVars, step, loopVars>>

NotifyLoop ==
  /\ listener = "notifies"
  /\ step' = Awake /\ listener' = "waits"
  /\ UNCHANGED <<outsideVars, queue, loopVars>>

-----------------------------------------------------------------------------
(* The update loop.                                                        *)

ProcessCommands ==
  /\ step = "commands"
  /\ queue' = {} /\ step' = "power"
  /\ UNCHANGED <<outsideVars, listener, loopVars>>

(* A report that cannot be read leaves the last one. *)
ReadPower ==
  /\ step = "power" /\ step' = "gear"
  /\ power' = vehicle.power
  /\ UNCHANGED <<outsideVars, listener, queue, gear, signal, signalRead, showVars>>

PowerFails ==
  /\ "power" \in Failing
  /\ step = "power" /\ step' = "gear"
  /\ UNCHANGED <<outsideVars, listener, queue, loopVars>>

(* Without a gear the loop ends. *)
ReadGear ==
  /\ step = "gear"
  /\ \/ gear' = vehicle.gear /\ step' = "signal"
     \/ "gear" \in Failing /\ step' = "leave" /\ UNCHANGED gear
  /\ UNCHANGED <<outsideVars, listener, queue, power, signal, signalRead, showVars>>

(* A turn signal that cannot be read is taken as none, from then on.       *)
SignalMissing == "NONE"

ReadSignal ==
  /\ step = "signal" /\ step' = "choose"
  /\ \/ signalRead /\ signal' = vehicle.signal /\ UNCHANGED signalRead
     \/ /\ ~signalRead \/ "signal" \in Failing
        /\ signal' = SignalMissing /\ signalRead' = FALSE
  /\ UNCHANGED <<outsideVars, listener, queue, power, gear, showVars>>

(* The state for these values: the gear goes before the turn signal. *)
StateFor(p, g, s) ==
  CASE p # "ON"                  -> "OFF"
    [] p = "ON" /\ g = "REVERSE" -> "REVERSE"
    [] p = "ON" /\ g = "PARK"    -> "PARKING"
    [] OTHER                     -> IF s = "NONE" THEN "OFF" ELSE s

desiredState == StateFor(power, gear, signal)
Suspending   == suspend \/ power = "SHUTDOWN_PREPARE"

Choosing == step = "choose" /\ power # Unread

(* The values read are used up. *)
Chosen == /\ gear' = Unread /\ signal' = Unread
          /\ UNCHANGED <<outsideVars, listener, queue, power, signalRead>>

(* There is no first element in a report that was never read. *)
ChooseFromNothing ==
  /\ step = "choose" /\ power = Unread
  /\ step' = "crashed"
  /\ UNCHANGED <<outsideVars, listener, queue, loopVars>>

KeepState ==
  /\ Choosing /\ desiredState = state
  /\ step' = "draw" /\ suspend' = Suspending
  /\ Chosen
  /\ UNCHANGED <<isGlReady, state, renderer, used, orphans, display>>

(* Until the graphics system is there, only one camera can be shown, with  *)
(* its pixels copied.  Once it has been seen it is not looked for again.   *)
GlReady == isGlReady \/ graphics
Shown(s, r) == {Views[s][i] : i \in {j \in DOMAIN Views[s] : r = "copy" => j = 1}}
Kind        == IF GlReady THEN "gl" ELSE "copy"
Wanted      == Shown(desiredState, Kind)

(* Deactivation: a copying renderer forgets its camera, which streams on.  *)
(* The variant does not deactivate the renderer that it replaces.          *)
KeptUsed == used
LeftUsed == {}
Orphaned == IF renderer = "copy" THEN orphans \cup used ELSE orphans

TurnOff ==
  /\ Choosing /\ desiredState # state /\ Wanted = {}
  /\ isGlReady' = GlReady /\ suspend' = Suspending
  /\ display' = IF display = "DEAD" THEN "DEAD" ELSE "NOT_VISIBLE"
  /\ used' = LeftUsed /\ orphans' = Orphaned /\ renderer' = "none"
  /\ state' = desiredState /\ step' = "draw"
  /\ Chosen

(* A camera that is opened again is taken from whoever streams from it. *)
Replace(cams) ==
  /\ used' = LeftUsed \cup cams
  /\ orphans' = Orphaned \ cams
  /\ renderer' = Kind
  /\ isGlReady' = GlReady

SwitchTo ==
  /\ Choosing /\ desiredState # state /\ Wanted # {}
  /\ Replace(Wanted)
  /\ display # "DEAD" /\ display' = "VISIBLE_ON_NEXT_FRAME"
  /\ suspend' = FALSE
  /\ state' = desiredState /\ step' = "draw"
  /\ Chosen

SwitchFails ==
  /\ Choosing /\ desiredState # state /\ Wanted # {}
  /\ \/ /\ "activate" \in Failing /\ suspend' = Suspending
        /\ \E cams \in (SUBSET Wanted) \ {Wanted} : Replace(cams)
     \/ /\ "info" \in Failing /\ Suspending /\ suspend' = TRUE
        /\ Replace(Wanted)
     \/ /\ display = "DEAD" /\ suspend' = FALSE
        /\ Replace(Wanted)
  /\ step' = "leave"
  /\ Chosen
  /\ UNCHANGED <<state, display>>

(* One picture.  When there is no buffer for it, or it cannot be drawn,    *)
(* the loop ends, after the buffer was sent to the display.                *)
DrawFrame ==
  /\ step = "draw" /\ renderer # "none" /\ display # "DEAD"
  /\ display' = "VISIBLE"
  /\ step' = "commands" \/ ("draw" \in Failing /\ step' = "leave")
  /\ UNCHANGED <<outsideVars, listener, queue, readVars, suspend, isGlReady,
                 state, renderer, used, orphans>>

NoBuffer ==
  /\ step = "draw" /\ renderer # "none" /\ display = "DEAD"
  /\ step' = "leave"
  /\ UNCHANGED <<outsideVars, listener, queue, loopVars>>

(* Nothing to draw: it sleeps, without another look at the queue. *)
Sleep ==
  /\ step = "draw" /\ renderer = "none"
  /\ step' = "sleeps"
  /\ UNCHANGED <<outsideVars, listener, queue, loopVars>>

SpuriousWakeup ==
  /\ step = "sleeps" /\ step' = "commands"
  /\ UNCHANGED <<outsideVars, listener, queue, loopVars>>

(* The loop ends; the display is left as it is. *)
Leave ==
  /\ step = "leave" /\ step' = "ended"
  /\ used' = {} /\ orphans' = Orphaned
  /\ UNCHANGED <<outsideVars, listener, queue, readVars, suspend, isGlReady,
                 state, renderer, display>>

Listener == PostCommand \/ NotifyLoop
Choose   == \/ ChooseFromNothing \/ KeepState \/ TurnOff \/ SwitchTo \/ SwitchFails
UpdateLoop ==
  \/ ProcessCommands \/ ReadPower \/ PowerFails \/ ReadGear \/ ReadSignal
  \/ Choose \/ DrawFrame \/ NoBuffer \/ Sleep \/ Leave

ControlNext ==
  \/ VehicleChanges \/ GraphicsStart \/ DisplayTaken
  \/ OnPropertyEvent \/ WaitTimesOut \/ Listener
  \/ UpdateLoop \/ SpuriousWakeup

(* The threads run, the wait times out, and a property that is read again  *)
(* and again is read in the end.  No event has to come.                    *)
ControlFairness == /\ WF_controlVars(WaitTimesOut) /\ WF_controlVars(Listener)
            /\ WF_controlVars(UpdateLoop) /\ SF_controlVars(ReadPower)

ControlSpec == ControlInit /\ [][ControlNext]_controlVars /\ ControlFairness
-----------------------------------------------------------------------------
(* Properties.                                                             *)

Over == step \in {"leave", "ended", "crashed"}

(* What is shown belongs to the state that was chosen, and to it alone: as *)
(* long as the loop goes on, the cameras in use are those of the state, so *)
(* it never sleeps with a camera in use or with a picture on its display,  *)
(* and what the display shows is a view of the current state.              *)
Lit == display \in {"VISIBLE", "VISIBLE_ON_NEXT_FRAME"}
ShowsItsState ==
  ~Over => /\ used = Shown(state, renderer)
           /\ (used = {}) <=> (renderer = "none")
           /\ Lit => used # {}

(* The view follows the vehicle: what its power, gear and turn signal call *)
(* for is shown, unless one of them changes again first or the loop ends - *)
(* although events and wake-ups may be lost.  The three are read one by    *)
(* one, so nothing is promised of a vehicle that never stays as it is.     *)
Calls(v) == StateFor(v.power, v.gear, IF signalRead THEN v.signal ELSE "NONE")
ViewFollowsVehicle ==
  \A v \in Vehicle : vehicle = v ~> (state = Calls(v) \/ vehicle # v \/ Over)

(* A command that is in the queue is taken out of it, also when the loop   *)
(* was just going to sleep and did not see it come.                        *)
CommandServed == queue # {} ~> (queue = {} \/ Over)

(* EvsStateControl.cpp:223: when drawing failed, the application exits     *)
(* quickly, so that it can be restarted; at least it does not leave an old *)
(* picture on the display.                                                 *)
NoPictureLeft == step = "ended" => ~Lit

(* EvsStateControl.cpp:267: a power report that cannot be read is logged,   *)
(* and the loop goes on with the last one; so there always is one.         *)
AlwaysAReport == step # "crashed"

(* RenderDirectView.cpp:145: some other renderer might need the camera, so *)
(* none streams for a renderer that is gone.                               *)
NoOrphans == orphans = {}

(* EvsStateControl.cpp:275: a missing turn signal is treated as none; once *)
(* it can be read, it counts.                                              *)
SignalCounts ==
  \A v \in Vehicle : vehicle = v
    ~> (state = StateFor(v.power, v.gear, v.signal) \/ vehicle # v \/ Over)
=============================================================================
