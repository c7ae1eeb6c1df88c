--------------------------- MODULE EvsCameraList ----------------------------
(***************************************************************************)
(* The cameras part of EvsEnumerator                                       *)
(* (src/evs/evsHal/aidl/src/EvsEnumerator.cpp): the list of cameras, which *)
(* a thread of its own keeps up to date with /dev, and the calls that open *)
(* and close cameras, on the only binder thread.                           *)
(*                                                                         *)
(* The hotplug thread changes the list under sLock; the calls look at it   *)
(* and write to it without the lock, so they are split where the other     *)
(* thread can come in.                                                     *)
(***************************************************************************)
EXTENDS Integers, Sequences, FiniteSets, Functions

CONSTANTS
  Devices,    \* names of video devices that may be in /dev
  Qualified,  \* those of them that are capture devices
  Groups,     \* ids of the camera groups in the configuration
  Cams,       \* bound: camera objects
  NoCamera,   \* no camera object
  Plugging,   \* devices come and go
  Early,      \* also before the hotplug thread watches /dev
  MaxEvents   \* bound: inotify events not yet read

ASSUME CameraListAssumption ==
  /\ Qualified \subseteq Devices /\ Devices \cap Groups = {}
  /\ NoCamera \notin Cams
  /\ Plugging \in BOOLEAN /\ Early \in BOOLEAN
  /\ MaxEvents \in Nat

VARIABLES
  present,   \* the devices in /dev
  stirred,   \* those that came or went since the start
  watching,  \* the hotplug thread has added its watch
  events,    \* inotify events to read
  list,      \* sCameraList: id -> activeInstance
  changed,   \* what the hotplug thread has still to notify
  listener,  \* mCallback is set
  told,      \* the last status the listener was told of each device
  cams,      \* camera objects: the id they were made for, whether open
  held,      \* those a client holds
  closed,    \* those a client has closed
  pc,        \* what the binder thread is doing
  rec,       \* openCamera's pRecord: the id of the record
  gone,      \* and whether it was erased since it was found
  cam,       \* openCamera's pActiveCamera
  sized      \* getCameraList: the length of the vector to be returned

deviceVars == <<present, stirred, watching, events>>
notifyVars == <<changed, listener, told>>
objectVars == <<cams, held, closed>>
binderVars == <<pc, rec, gone, cam, sized>>
vars == <<deviceVars, list, notifyVars, objectVars, binderVars>>

AllIds == Devices \cup Groups
Status == {"AVAILABLE", "NOT_AVAILABLE"}
Change == [id : Devices, status : Status]
None   == {}   \* nothing to notify

(* The values each variable may take. *)
TypeOK ==
  /\ present \subseteq Devices /\ stirred \subseteq Devices /\ watching \in BOOLEAN
  /\ events \in Seq(Change) /\ Len(events) <= MaxEvents
  /\ DOMAIN list \subseteq AllIds
  /\ \A id \in DOMAIN list : list[id] \in DOMAIN cams \cup {NoCamera}
  /\ changed \subseteq Change /\ Cardinality(changed) <= 1
  /\ listener \in BOOLEAN
  /\ DOMAIN told \subseteq Devices /\ Range(told) \subseteq Status
  /\ DOMAIN cams \subseteq Cams
  /\ \A c \in DOMAIN cams : cams[c] \in [id : AllIds, open : BOOLEAN]
  /\ held \subseteq DOMAIN cams /\ closed \subseteq held
  /\ pc \in {"idle", "kill", "create", "assign", "size", "copy"}
  /\ rec \in AllIds /\ gone \in BOOLEAN
  /\ cam \in DOMAIN cams \cup {NoCamera}
  /\ sized \in 0 .. Cardinality(AllIds)

EmptyMap == [x \in {} |-> x]
With(f, k, v) == [j \in DOMAIN f \cup {k} |-> IF j = k THEN v ELSE f[j]]
Without(f, K) == Restrict(f, DOMAIN f \ K)

(* The constructor has enumerated the devices in /dev. *)
Init ==
  /\ present \in SUBSET Devices
  /\ stirred = {} /\ watching = FALSE /\ events = <<>>
  /\ list = [id \in present \cap Qualified |-> NoCamera]
  /\ changed = None /\ listener = FALSE /\ told = EmptyMap
  /\ cams = EmptyMap /\ held = {} /\ closed = {}
  /\ pc = "idle" /\ gone = FALSE /\ cam = NoCamera /\ sized = 0
  /\ rec \in AllIds /\ rec = CHOOSE id \in AllIds : TRUE

-----------------------------------------------------------------------------
(* The devices and the hotplug thread.                                     *)

(* A device node is made or deleted, which inotify reports. *)
DeviceChanges ==
  /\ Plugging /\ (watching \/ Early) /\ Len(events) < MaxEvents
  /\ \E d \in Devices :
       LET status == IF d \in present THEN "NOT_AVAILABLE" ELSE "AVAILABLE" IN
         /\ stirred' = stirred \cup {d}
         /\ present' = IF d \in present THEN present \ {d} ELSE present \cup {d}
         /\ events' = IF watching
                        THEN Append(events, [id |-> d, status |-> status])
                        ELSE events
  /\ UNCHANGED <<watching, list, notifyVars, objectVars, binderVars>>

StartWatching ==
  /\ ~watching /\ watching' = TRUE
  /\ UNCHANGED <<present, stirred, events, list, notifyVars, objectVars, binderVars>>

(* addCaptureDevice: insert_or_assign a new record.                        *)
Qualifies(d) == d \in present \cap Qualified

AddCaptureDevice(d) ==
  IF Qualifies(d)
    THEN /\ list' = With(list, d, NoCamera)
         /\ changed' = {[id |-> d, status |-> "AVAILABLE"]}
    ELSE UNCHANGED <<list, changed>>

(* removeCaptureDevice; a record openCamera points to is gone as well.  In *)
(* the variant nobody is told of it.                                       *)
RemoveSilently(d) ==
  /\ list' = Without(list, {d})
  /\ UNCHANGED changed
RemoveCaptureDevice(d) ==
  /\ list' = Without(list, {d})
  /\ IF d \in DOMAIN list
       THEN changed' = {[id |-> d, status |-> "NOT_AVAILABLE"]}
       ELSE UNCHANGED changed

(* One read may return several events; the variant handles the first only. *)
FirstOnly(q) == <<>>
Rest(q)      == Tail(q)

HandleEvent ==
  /\ watching /\ changed = None /\ events # <<>>
  /\ events' = Rest(events)
  /\ LET e == Head(events) IN
       \/ e.status = "AVAILABLE" /\ AddCaptureDevice(e.id) /\ UNCHANGED gone
       \/ /\ e.status = "NOT_AVAILABLE" /\ RemoveCaptureDevice(e.id)
          /\ gone' = (gone \/ (pc # "idle" /\ rec = e.id))
  /\ UNCHANGED <<present, stirred, watching, listener, told, objectVars, pc, rec, cam,
                 sized>>

NotifyDeviceStatusChange ==
  /\ \E c \in changed :
       told' = IF listener THEN With(told, c.id, c.status) ELSE told
  /\ changed' = None
  /\ UNCHANGED <<deviceVars, list, listener, objectVars, binderVars>>

HotplugThread == StartWatching \/ HandleEvent \/ NotifyDeviceStatusChange

-----------------------------------------------------------------------------
(* The calls.                                                              *)

(* A listener replaces the one before, and has not been told anything.     *)
RegisterStatusCallback ==
  /\ pc = "idle"
  /\ listener' = TRUE /\ told' = EmptyMap
  /\ UNCHANGED <<deviceVars, list, changed, objectVars, binderVars>>

(* The list is waited for, then sized and copied without the lock, and the *)
(* camera groups are put into it.                                          *)
GetCameraList ==
  /\ pc = "idle"
  /\ pc' = "size"
  /\ UNCHANGED <<deviceVars, list, notifyVars, objectVars, rec, gone, cam, sized>>

SizeList ==
  /\ pc = "size"
  /\ sized' = Cardinality(DOMAIN list)
  /\ pc' = "copy"
  /\ UNCHANGED <<deviceVars, list, notifyVars, objectVars, rec, gone, cam>>

CopyList ==
  /\ pc = "copy"
  /\ list' = [id \in DOMAIN list \cup Groups |->
                IF id \in DOMAIN list THEN list[id] ELSE NoCamera]
  /\ pc' = "idle" /\ sized' = 0
  /\ UNCHANGED <<deviceVars, notifyVars, objectVars, rec, gone, cam>>

(* openCamera: find the record; the active camera, if any, is locked. *)
OpenCamera ==
  /\ pc = "idle"
  /\ \E id \in DOMAIN list :
       /\ rec' = id /\ gone' = FALSE
       /\ cam' = list[id]
       /\ pc' = IF list[id] = NoCamera THEN "create" ELSE "kill"
  /\ UNCHANGED <<deviceVars, list, notifyVars, objectVars, sized>>

(* closeCamera_impl: the camera is shut down if the record of its id still *)
(* has it.                                                                 *)
CloseImpl(c) ==
  IF cams[c].id \in DOMAIN list /\ list[cams[c].id] = c
    THEN [cams EXCEPT ![c].open = FALSE]
    ELSE cams

(* Another client takes the camera over; the variant lets the old one be.  *)
LetBe(c) == cams
Kill(c)  == CloseImpl(c)

KillPrevious ==
  /\ pc = "kill"
  /\ cams' = Kill(cam)
  /\ pc' = "create"
  /\ UNCHANGED <<deviceVars, list, notifyVars, held, closed, rec, gone, cam,
                 sized>>

(* EvsV4lCamera::Create opens the device, if it is there and works. *)
CreateCamera ==
  /\ pc = "create"
  /\ \/ /\ rec \in present
        /\ \E c \in Cams \ DOMAIN cams :
             /\ cams' = With(cams, c, [id |-> rec, open |-> TRUE])
             /\ cam' = c
     \/ cam' = NoCamera /\ UNCHANGED cams
  /\ pc' = "assign"
  /\ UNCHANGED <<deviceVars, list, notifyVars, held, closed, rec, gone, sized>>

(* pRecord->activeInstance = pActiveCamera; a write to an erased record is *)
(* lost, if it does no other harm.                                         *)
Assign(id, c) == With(list, id, c)

AssignRecord ==
  /\ pc = "assign"
  /\ list' = IF gone THEN list ELSE Assign(rec, cam)
  /\ held' = IF cam = NoCamera THEN held ELSE held \cup {cam}
  /\ cam' = NoCamera /\ gone' = FALSE
  /\ pc' = "idle"
  /\ UNCHANGED <<deviceVars, notifyVars, cams, closed, rec, sized>>

CloseCamera ==
  /\ pc = "idle"
  /\ \E c \in held : cams' = CloseImpl(c) /\ closed' = closed \cup {c}
  /\ UNCHANGED <<deviceVars, list, notifyVars, held, binderVars>>

(* A client drops its camera, which is destroyed, or dies; the reference   *)
(* in its record is weak.                                                  *)
Expired(c) == [id \in DOMAIN list |-> IF list[id] = c THEN NoCamera ELSE list[id]]

DropCamera ==
  /\ pc = "idle"
  /\ \E c \in held :
       /\ held' = held \ {c} /\ closed' = closed \ {c}
       /\ cams' = Without(cams, {c})
       /\ list' = Expired(c)
  /\ UNCHANGED <<deviceVars, notifyVars, binderVars>>

BinderThread == \/ KillPrevious \/ CreateCamera \/ AssignRecord
                \/ SizeList \/ CopyList

Next ==
  \/ DeviceChanges \/ HotplugThread
  \/ RegisterStatusCallback \/ GetCameraList \/ OpenCamera \/ CloseCamera
  \/ DropCamera \/ BinderThread

Spec == Init /\ [][Next]_vars /\ WF_vars(HotplugThread) /\ WF_vars(BinderThread)
-----------------------------------------------------------------------------
(* Properties.                                                             *)

Open == {c \in DOMAIN cams : cams[c].open}

(* EvsEnumerator.cpp:392: opening a camera that another caller has opened  *)
(* shuts that one down, so that no device is opened by two camera objects  *)
(* - unless it was unplugged, whereupon its record is a new one.           *)
OneOpen ==
  \A c, d \in Open : cams[c].id = cams[d].id => c = d \/ cams[c].id \in stirred

(* A camera its client has closed is shut down, with the same exception.   *)
ClosedIsShutDown == \A c \in closed \cap Open : cams[c].id \in stirred

(* The list follows the devices: when all events were handled, it has the  *)
(* capture devices that are there and no others.                           *)
ListFollowsDevices ==
  watching /\ events = <<>> => DOMAIN list \ Groups = present \cap Qualified

(* What a listener was last told of a device is true, as soon as nothing   *)
(* is left to be notified.                                                 *)
NotifiedTruth ==
  changed = None =>
    \A d \in DOMAIN told : (told[d] = "AVAILABLE") <=> (d \in DOMAIN list)

(* openCamera writes to a record that is in the list.                      *)
(* (EvsEnumerator.h:136: the list is never accessed concurrently.)         *)
RecordIsLive == pc = "assign" => ~gone

(* getCameraList writes no more entries than it made room for. *)
ListFits == pc = "copy" => Cardinality(DOMAIN list) <= sized
=============================================================================
