------------------------ MODULE EvsCameraListProofs -------------------------
(***************************************************************************)
(* Proofs about EvsCameraList, for any devices, groups and camera objects  *)
(* and any number of unread events.                                        *)
(***************************************************************************)
EXTENDS EvsCameraList, SequenceTheorems, TLAPS

-----------------------------------------------------------------------------
(* The inductive invariant.                                                *)

(* The binder thread has a record: in these steps of openCamera. *)
Opening == pc \in {"kill", "create", "assign"}

Typed ==
  /\ present \subseteq Devices /\ stirred \subseteq Devices /\ watching \in BOOLEAN
  /\ events \in Seq(Change)
  /\ DOMAIN list \subseteq AllIds
  /\ DOMAIN told \subseteq Devices /\ changed \subseteq Change
  /\ pc \in {"idle", "kill", "create", "assign", "size", "copy"}
  /\ rec \in AllIds

(* An event that is the last one of its device in the queue says whether   *)
(* the device is there.                                                    *)
LastOf(q, i)   == \A j \in DOMAIN q : j > i => q[j].id # q[i].id
Truthful(q, p) == \A i \in DOMAIN q : LastOf(q, i) =>
                    ((q[i].status = "AVAILABLE") <=> q[i].id \in p)
Awaited(q)     == {q[i].id : i \in DOMAIN q}

(* What the hotplug thread has still to read is of devices that stirred.   *)
QueueInv == /\ events # <<>> => watching
            /\ Awaited(events) \subseteq stirred
            /\ Truthful(events, present)

(* The list is right of every device no event is unread of. *)
ListInv == /\ \A d \in Devices \ Awaited(events) :
                d \in DOMAIN list <=> d \in present \cap Qualified
           /\ DOMAIN list \cap Devices \subseteq Qualified

(* What has to be notified is true, and so is all the listener was told of *)
(* other devices.                                                          *)
ToldInv ==
  /\ \A c, d \in changed : c = d
  /\ \A c \in changed : (c.status = "AVAILABLE") <=> c.id \in DOMAIN list
  /\ \A d \in DOMAIN told :
       (\A c \in changed : c.id # d) => ((told[d] = "AVAILABLE") <=> d \in DOMAIN list)
  /\ ~listener => DOMAIN told = {}

(* A record has a camera that was made for it.                             *)
CamerasTyped ==
  /\ DOMAIN cams \subseteq Cams
  /\ \A c \in DOMAIN cams : cams[c] \in [id : AllIds, open : BOOLEAN]
  /\ closed \subseteq held /\ held \subseteq DOMAIN cams
CamerasListed ==
  \A id \in DOMAIN list : list[id] # NoCamera =>
    list[id] \in DOMAIN cams /\ cams[list[id]].id = id

(* The one openCamera found stays while its device is undisturbed. *)
RecordFound ==
  /\ Opening /\ ~gone => rec \in DOMAIN list
  /\ Opening /\ gone => rec \in stirred
  /\ pc = "kill" => /\ cam \in DOMAIN cams /\ cams[cam].id = rec
                    /\ rec \notin stirred => list[rec] = cam
  /\ pc = "assign" /\ cam # NoCamera =>
       cam \in DOMAIN cams /\ cams[cam].id = rec /\ cam \notin held

RecordInv == CamerasTyped /\ CamerasListed /\ RecordFound

(* An open camera on an undisturbed device is the one in its record, or    *)
(* the one that openCamera is about to put there.                          *)
BeingAssigned(c) == pc = "assign" /\ cam = c /\ rec = cams[c].id
Recorded(c) == /\ cams[c].id \in DOMAIN list /\ list[cams[c].id] = c
               /\ ~ (pc \in {"create", "assign"} /\ rec = cams[c].id)
OpenInv == \A c \in Open : cams[c].id \in stirred \/ BeingAssigned(c) \/ Recorded(c)

IInv == Typed /\ QueueInv /\ ToldInv /\ RecordInv /\ OpenInv /\ ClosedIsShutDown
-----------------------------------------------------------------------------
(* Queues of events.                                                       *)

LEMMA AwaitedGrows ==
  ASSUME NEW q \in Seq(Change), NEW e \in Change
  PROVE  Awaited(Append(q, e)) = Awaited(q) \cup {e.id}
<1> DEFINE a == Append(q, e)
<1>1. /\ DOMAIN a = DOMAIN q \cup {Len(q) + 1}
      /\ \A i \in DOMAIN q : a[i] = q[i]
      /\ a[Len(q) + 1] = e
  OBVIOUS
<1> HIDE DEF a
<1>2. Awaited(a) = Awaited(q) \cup {e.id}
  BY <1>1 DEF Awaited
<1> QED BY <1>2 DEF a

(* A device comes or goes and the event that says so is put last. *)
LEMMA QueueGrows ==
  ASSUME NEW q \in Seq(Change), NEW e \in Change, NEW p, NEW r, Truthful(q, p),
         \A d \in Devices : d # e.id => (d \in p <=> d \in r),
         (e.status = "AVAILABLE") <=> e.id \in r
  PROVE  /\ Append(q, e) \in Seq(Change)
         /\ Append(q, e) # <<>>
         /\ Truthful(Append(q, e), r)
         /\ Awaited(Append(q, e)) = Awaited(q) \cup {e.id}
<1> DEFINE a == Append(q, e)
<1>1. /\ a \in Seq(Change) /\ a # <<>>
      /\ Len(q) \in Nat /\ DOMAIN q = 1 .. Len(q) /\ DOMAIN a = 1 .. Len(q) + 1
      /\ \A i \in DOMAIN q : a[i] = q[i] /\ q[i] \in Change
      /\ a[Len(q) + 1] = e
  OBVIOUS
<1>2. DOMAIN a = DOMAIN q \cup {Len(q) + 1} /\ \A i \in DOMAIN q : Len(q) + 1 > i
  BY <1>1
<1> HIDE DEF a
<1>3. Awaited(a) = Awaited(q) \cup {e.id}
  BY AwaitedGrows DEF a
<1>4. ASSUME NEW i \in DOMAIN a, LastOf(a, i)
      PROVE  (a[i].status = "AVAILABLE") <=> a[i].id \in r
  <2>1. CASE i = Len(q) + 1
    BY <1>1, <2>1
  <2>2. CASE i \in DOMAIN q
    <3>1. q[i].id # e.id /\ q[i].id \in Devices
      BY <1>1, <1>2, <1>4, <2>2 DEF LastOf, Change
    <3>2. LastOf(q, i)
      BY <1>1, <1>2, <1>4, <2>2 DEF LastOf
    <3> QED BY <1>1, <2>2, <3>1, <3>2 DEF Truthful
  <2> QED BY <1>2, <1>4, <2>1, <2>2
<1> QED BY <1>1, <1>3, <1>4 DEF a, Truthful

(* The first event is read; if it was the only one of its device, it says  *)
(* whether the device is there.                                            *)
LEMMA QueueShrinks ==
  ASSUME NEW q \in Seq(Change), q # <<>>, NEW p, Truthful(q, p)
  PROVE  /\ Head(q) \in Change
         /\ Tail(q) \in Seq(Change)
         /\ Truthful(Tail(q), p)
         /\ Awaited(q) = Awaited(Tail(q)) \cup {Head(q).id}
         /\ Head(q).id \notin Awaited(Tail(q)) =>
              ((Head(q).status = "AVAILABLE") <=> Head(q).id \in p)
<1> DEFINE t == Tail(q)
<1>1. /\ Head(q) \in Change /\ t \in Seq(Change)
      /\ Len(q) \in Nat \ {0} /\ DOMAIN q = 1 .. Len(q) /\ DOMAIN t = 1 .. Len(q) - 1
      /\ \A i \in DOMAIN t : t[i] = q[i + 1]
      /\ q[1] = Head(q)
  OBVIOUS
<1>2. /\ \A i \in DOMAIN t : i + 1 \in DOMAIN q /\ i + 1 > 1
      /\ \A j \in DOMAIN q : j = 1 \/ (j - 1 \in DOMAIN t /\ t[j - 1] = q[j])
      /\ 1 \in DOMAIN q
  BY <1>1
<1> HIDE DEF t
<1>3. Awaited(q) = Awaited(t) \cup {Head(q).id}
  <2>1. Awaited(t) \cup {Head(q).id} \subseteq Awaited(q)
    BY <1>1, <1>2 DEF Awaited
  <2>2. ASSUME NEW j \in DOMAIN q PROVE q[j].id \in Awaited(t) \cup {Head(q).id}
    <3>1. CASE j = 1
      BY <1>1, <3>1
    <3>2. CASE j - 1 \in DOMAIN t /\ t[j - 1] = q[j]
      BY <3>2 DEF Awaited
    <3> QED BY <1>2, <3>1, <3>2
  <2> QED BY <2>1, <2>2 DEF Awaited
<1>4. ASSUME NEW i \in DOMAIN t, LastOf(t, i)
      PROVE  (t[i].status = "AVAILABLE") <=> t[i].id \in p
  <2>1. LastOf(q, i + 1)
    <3> SUFFICES ASSUME NEW j \in DOMAIN q, j > i + 1 PROVE q[j].id # q[i + 1].id
      BY DEF LastOf
    <3>1. j - 1 \in DOMAIN t /\ t[j - 1] = q[j] /\ j - 1 > i
      BY <1>1, <1>2
    <3> QED BY <1>1, <1>4, <3>1 DEF LastOf
  <2> QED BY <1>1, <1>2, <2>1 DEF Truthful
<1>5. ASSUME Head(q).id \notin Awaited(t)
      PROVE  (Head(q).status = "AVAILABLE") <=> Head(q).id \in p
  <2>1. LastOf(q, 1)
    BY <1>1, <1>2, <1>5 DEF LastOf, Awaited
  <2> QED BY <1>1, <1>2, <2>1 DEF Truthful
<1> QED BY <1>1, <1>3, <1>4, <1>5 DEF t, Truthful

-----------------------------------------------------------------------------
(* The list and the queue.                                                 *)

(* What handling an event may do: a device is added with a new record, its *)
(* record is erased, or nothing changes.                                   *)
Erased(d) == gone' = (gone \/ (pc # "idle" /\ rec = d))
Adds(e) ==
  /\ e.status = "AVAILABLE" /\ Qualifies(e.id)
  /\ DOMAIN list' = DOMAIN list \cup {e.id} /\ list'[e.id] = NoCamera
  /\ \A d \in DOMAIN list : d # e.id => list'[d] = list[d]
  /\ changed' = {[id |-> e.id, status |-> "AVAILABLE"]} /\ gone' = gone
Removes(e) ==
  /\ e.status = "NOT_AVAILABLE" /\ e.id \in DOMAIN list
  /\ DOMAIN list' = DOMAIN list \ {e.id}
  /\ \A d \in DOMAIN list : d # e.id => list'[d] = list[d]
  /\ changed' = {[id |-> e.id, status |-> "NOT_AVAILABLE"]} /\ Erased(e.id)
Ignores(e) ==
  /\ IF e.status = "AVAILABLE" THEN ~Qualifies(e.id) /\ gone' = gone
                               ELSE e.id \notin DOMAIN list /\ Erased(e.id)
  /\ DOMAIN list' = DOMAIN list /\ \A d \in DOMAIN list : list'[d] = list[d]
  /\ changed' = {}

LEMMA EventHandled ==
  ASSUME Typed, HandleEvent
  PROVE  /\ events # <<>> /\ Head(events) \in Change /\ changed = {}
         /\ Adds(Head(events)) \/ Removes(Head(events)) \/ Ignores(Head(events))
<1>1. events # <<>> /\ Head(events) \in Change /\ changed = {}
  BY DEF HandleEvent, None, Typed
<1>2. PICK e \in Change : e = Head(events)
  BY <1>1
<1>3. PICK d \in Devices : d = e.id
  BY DEF Change
<1> SUFFICES Adds(e) \/ Removes(e) \/ Ignores(e)
  BY <1>1, <1>2
<1>4. CASE e.status = "AVAILABLE" /\ AddCaptureDevice(d) /\ UNCHANGED gone
  <2>1. CASE ~Qualifies(d)
    BY <1>1, <1>3, <1>4, <2>1 DEF AddCaptureDevice, Ignores
  <2>2. CASE Qualifies(d)
    <3>1. list' = With(list, d, NoCamera) /\ changed' = {[id |-> d, status |-> "AVAILABLE"]}
      BY <1>4, <2>2 DEF AddCaptureDevice
    <3>2. /\ DOMAIN list' = DOMAIN list \cup {d} /\ list'[d] = NoCamera
          /\ \A x \in DOMAIN list : x # d => list'[x] = list[x]
      BY <3>1 DEF With
    <3> QED BY <1>3, <1>4, <2>2, <3>1, <3>2 DEF Adds
  <2> QED BY <2>1, <2>2
<1>5. CASE e.status = "NOT_AVAILABLE" /\ RemoveCaptureDevice(d) /\ Erased(d)
  <2>1. /\ DOMAIN list' = DOMAIN list \ {d}
        /\ \A x \in DOMAIN list : x # d => list'[x] = list[x]
    <3>1. list' = Without(list, {d})
      BY <1>5 DEF RemoveCaptureDevice
    <3> QED BY <3>1 DEF Without, Restrict
  <2>2. CASE d \in DOMAIN list
    <3>1. changed' = {[id |-> d, status |-> "NOT_AVAILABLE"]}
      BY <1>5, <2>2 DEF RemoveCaptureDevice
    <3> QED BY <1>3, <1>5, <2>1, <2>2, <3>1 DEF Removes
  <2>3. CASE d \notin DOMAIN list
    <3>1. changed' = {}
      BY <1>1, <1>5, <2>3 DEF RemoveCaptureDevice
    <3>2. DOMAIN list' = DOMAIN list /\ \A x \in DOMAIN list : list'[x] = list[x]
      BY <2>1, <2>3
    <3>3. Ignores(e)
      BY <1>3, <1>5, <2>3, <3>1, <3>2 DEF Ignores
    <3> QED BY <3>3
  <2> QED BY <2>2, <2>3
<1> QED BY <1>1, <1>2, <1>3, <1>4, <1>5 DEF HandleEvent, Erased

LEMMA TypedStep == ASSUME IInv, [Next]_vars PROVE Typed'
<1> USE DEF IInv, Typed, deviceVars, notifyVars, objectVars, binderVars, None, AllIds
<1>1. CASE DeviceChanges
  <2>1. PICK d \in Devices :
           /\ stirred' = stirred \cup {d}
           /\ present' = IF d \in present THEN present \ {d} ELSE present \cup {d}
           /\ \/ UNCHANGED events
              \/ \E e \in Change : events' = Append(events, e)
    BY <1>1 DEF DeviceChanges, Change, Status
  <2>2. events' \in Seq(Change)
    BY <2>1
  <2> QED BY <1>1, <2>1, <2>2 DEF DeviceChanges
<1>2. CASE HandleEvent
  <2>1. events # <<>> /\ Head(events) \in Change /\ events' \in Seq(Change)
    BY <1>2 DEF HandleEvent, Rest
  <2>2. DOMAIN list' \subseteq AllIds /\ changed' \subseteq Change
    BY <1>2, <2>1, EventHandled DEF Adds, Removes, Ignores, Change, Status
  <2> QED BY <1>2, <2>1, <2>2 DEF HandleEvent
<1>3. CASE StartWatching
  BY <1>3 DEF StartWatching
<1>4. CASE NotifyDeviceStatusChange
  <2>1. PICK c \in changed : told' = IF listener THEN With(told, c.id, c.status) ELSE told
    BY <1>4 DEF NotifyDeviceStatusChange
  <2>2. PICK d \in Devices : d = c.id
    BY DEF Change
  <2>3. DOMAIN told' \subseteq Devices
    BY <2>1, <2>2 DEF With
  <2> QED BY <1>4, <2>3 DEF NotifyDeviceStatusChange
<1>5. CASE RegisterStatusCallback \/ GetCameraList \/ SizeList \/ CloseCamera
  BY <1>5 DEF RegisterStatusCallback, EmptyMap, GetCameraList, SizeList, CloseCamera
<1>6. CASE CopyList
  BY <1>6 DEF CopyList
<1>7. CASE OpenCamera
  BY <1>7 DEF OpenCamera
<1>8. CASE KillPrevious \/ CreateCamera
  BY <1>8 DEF KillPrevious, CreateCamera
<1>9. CASE AssignRecord
  <2>1. DOMAIN With(list, rec, cam) = DOMAIN list \cup {rec}
    BY DEF With
  <2>2. list' = list \/ list' = With(list, rec, cam)
    BY <1>9 DEF AssignRecord, Assign
  <2>3. DOMAIN list' \subseteq AllIds
    BY <2>1, <2>2
  <2> QED BY <1>9, <2>3 DEF AssignRecord
<1>10. CASE DropCamera
  BY <1>10 DEF DropCamera, Expired
<1>11. CASE UNCHANGED vars
  BY <1>11 DEF vars
<1> QED BY <1>1, <1>2, <1>3, <1>4, <1>5, <1>6, <1>7, <1>8, <1>9, <1>10, <1>11
        DEF Next, HotplugThread, BinderThread

(* Only the hotplug thread changes which devices are in the list.          *)
LEMMA DevicesListed ==
  ASSUME IInv, [Next]_vars, ~HandleEvent
  PROVE  \A d \in Devices : d \in DOMAIN list' <=> d \in DOMAIN list
<1>1. CASE CopyList
  BY <1>1, CameraListAssumption DEF CopyList
<1>2. CASE AssignRecord
  <2>1. DOMAIN With(list, rec, cam) = DOMAIN list \cup {rec}
    BY DEF With
  <2>2. CASE gone
    BY <1>2, <2>2 DEF AssignRecord
  <2>3. CASE ~gone
    BY <1>2, <2>1, <2>3 DEF AssignRecord, Assign, IInv, RecordInv, RecordFound, Opening
  <2> QED BY <2>2, <2>3
<1>3. CASE DropCamera
  BY <1>3 DEF DropCamera, Expired
<1>4. CASE UNCHANGED list
  BY <1>4
<1> QED BY <1>1, <1>2, <1>3, <1>4
        DEF Next, HotplugThread, BinderThread, vars, deviceVars, notifyVars, objectVars,
            binderVars, DeviceChanges, StartWatching, NotifyDeviceStatusChange,
            RegisterStatusCallback, GetCameraList, SizeList, OpenCamera, KillPrevious,
            CreateCamera, CloseCamera

(* The queue tells the truth about the devices, and only of those that     *)
(* stirred.                                                                *)
LEMMA QueueStep == ASSUME IInv, [Next]_vars PROVE QueueInv'
<1> USE DEF IInv, Typed, QueueInv
<1>1. CASE DeviceChanges
  <2>1. PICK d \in Devices :
          LET status == IF d \in present THEN "NOT_AVAILABLE" ELSE "AVAILABLE" IN
           /\ stirred' = stirred \cup {d}
           /\ present' = IF d \in present THEN present \ {d} ELSE present \cup {d}
           /\ events' = IF watching
                          THEN Append(events, [id |-> d, status |-> status])
                          ELSE events
    BY <1>1 DEF DeviceChanges
  <2>2. CASE watching
    <3>1. PICK e \in Change :
            /\ e.id = d /\ events' = Append(events, e)
            /\ e.status = IF d \in present THEN "NOT_AVAILABLE" ELSE "AVAILABLE"
      BY <2>1, <2>2 DEF Change, Status
    <3>2. \A x \in Devices : x # e.id => (x \in present <=> x \in present')
      BY <2>1, <3>1
    <3>3. e.status = "AVAILABLE" <=> e.id \in present'
      BY <2>1, <3>1
    <3>4. Truthful(events', present') /\ Awaited(events') = Awaited(events) \cup {d}
      BY <3>1, <3>2, <3>3, QueueGrows
    <3> QED BY <1>1, <2>1, <2>2, <3>4 DEF DeviceChanges
  <2>3. CASE ~watching
    <3>1. events = <<>> /\ events' = <<>>
      BY <2>1, <2>3
    <3> QED BY <3>1 DEF Awaited, Truthful
  <2> QED BY <2>2, <2>3
<1>2. CASE HandleEvent
  <2>1. /\ events # <<>> /\ events' = Tail(events)
        /\ UNCHANGED <<present, stirred, watching>>
    BY <1>2 DEF HandleEvent, Rest
  <2>2. Truthful(Tail(events), present) /\ Awaited(Tail(events)) \subseteq Awaited(events)
    BY <2>1, QueueShrinks
  <2> QED BY <2>1, <2>2
<1>3. CASE StartWatching
  BY <1>3 DEF StartWatching
<1>4. CASE UNCHANGED deviceVars
  BY <1>4 DEF deviceVars
<1> QED BY <1>1, <1>2, <1>3, <1>4
        DEF Next, HotplugThread, BinderThread, vars, NotifyDeviceStatusChange,
            RegisterStatusCallback, GetCameraList, SizeList, CopyList, OpenCamera,
            KillPrevious, CreateCamera, AssignRecord, CloseCamera, DropCamera

(* The list is right of what is settled, if nothing happens unwatched.     *)
LEMMA ListStep == ASSUME IInv, ListInv, ~Early, [Next]_vars PROVE ListInv'
<1>1. CASE DeviceChanges
  <2>1. PICK d \in Devices, e \in Change :
          /\ e.id = d /\ events' = Append(events, e)
          /\ present' = IF d \in present THEN present \ {d} ELSE present \cup {d}
    BY <1>1 DEF DeviceChanges, Change, Status
  <2>2. Awaited(events') = Awaited(events) \cup {d}
    <3>1. e \in Change /\ events \in Seq(Change) /\ Awaited(Append(events, e)) = Awaited(events) \cup {e.id}
      BY AwaitedGrows DEF IInv, Typed
    <3> QED BY <2>1, <3>1
  <2> QED BY <1>1, <2>1, <2>2 DEF DeviceChanges, ListInv
<1>2. CASE HandleEvent
  <2> DEFINE e == Head(events)
  <2>1. /\ events # <<>> /\ events' = Tail(events) /\ present' = present
        /\ e \in Change /\ e.id \in Devices
        /\ Adds(e) \/ Removes(e) \/ Ignores(e)
    BY <1>2, EventHandled DEF HandleEvent, Rest, IInv, Change
  <2>2. /\ Awaited(events) = Awaited(events') \cup {e.id}
        /\ e.id \notin Awaited(events') => (e.status = "AVAILABLE" <=> e.id \in present)
    BY <2>1, QueueShrinks DEF IInv, Typed, QueueInv
  <2> HIDE DEF e
  <2>3. ASSUME NEW d \in Devices, d \notin Awaited(events'), d # e.id
        PROVE  d \in DOMAIN list' <=> d \in present' \cap Qualified
    <3>1. d \in DOMAIN list <=> d \in present \cap Qualified
      BY <2>2, <2>3 DEF ListInv
    <3> QED BY <2>1, <2>3, <3>1 DEF Adds, Removes, Ignores
  <2>4. ASSUME e.id \notin Awaited(events')
        PROVE  e.id \in DOMAIN list' <=> e.id \in present' \cap Qualified
    <3>1. CASE Adds(e)
      BY <2>1, <3>1 DEF Adds, Qualifies
    <3>2. CASE Removes(e)
      BY <2>1, <2>2, <2>4, <3>2 DEF Removes
    <3>3. CASE Ignores(e)
      <4>1. e.status = "AVAILABLE" => e.id \notin present \cap Qualified
        BY <3>3 DEF Ignores, Qualifies
      <4>2. e.status # "AVAILABLE" => e.id \notin DOMAIN list /\ e.id \notin present
        BY <2>1, <2>2, <2>4, <3>3 DEF Ignores
      <4>3. e.status = "AVAILABLE" => e.id \notin DOMAIN list
        BY <2>1, <2>2, <2>4, <4>1 DEF ListInv
      <4> QED BY <2>1, <3>3, <4>1, <4>2, <4>3 DEF Ignores
    <3> QED BY <2>1, <3>1, <3>2, <3>3
  <2>5. DOMAIN list' \cap Devices \subseteq Qualified
    BY <2>1 DEF ListInv, Adds, Removes, Ignores, Qualifies
  <2> QED BY <2>3, <2>4, <2>5 DEF ListInv
<1>3. CASE UNCHANGED <<present, events>> /\ ~HandleEvent
  BY <1>3, DevicesListed DEF ListInv
<1> QED BY <1>1, <1>2, <1>3
        DEF Next, HotplugThread, BinderThread, vars, deviceVars, StartWatching,
            NotifyDeviceStatusChange, RegisterStatusCallback, GetCameraList, SizeList,
            CopyList, OpenCamera, KillPrevious, CreateCamera, AssignRecord, CloseCamera,
            DropCamera

(* What is notified, and what was, is true of the list. *)
LEMMA ToldStep == ASSUME IInv, [Next]_vars PROVE ToldInv'
<1> USE DEF IInv, Typed, ToldInv
<1>1. CASE HandleEvent
  <2>1. /\ Head(events).id \in Devices /\ changed = {} /\ UNCHANGED <<told, listener>>
        /\ Adds(Head(events)) \/ Removes(Head(events)) \/ Ignores(Head(events))
    BY <1>1, EventHandled DEF HandleEvent, Change
  <2>2. \A d \in Devices : d # Head(events).id => (d \in DOMAIN list' <=> d \in DOMAIN list)
    BY <2>1 DEF Adds, Removes, Ignores
  <2>3. CASE Adds(Head(events))
    BY <2>1, <2>2, <2>3 DEF Adds
  <2>4. CASE Removes(Head(events))
    BY <2>1, <2>2, <2>4 DEF Removes
  <2>5. CASE Ignores(Head(events))
    BY <2>1, <2>2, <2>5 DEF Ignores
  <2> QED BY <2>1, <2>3, <2>4, <2>5
<1>2. CASE NotifyDeviceStatusChange
  <2>1. PICK c \in changed :
          /\ told' = IF listener THEN With(told, c.id, c.status) ELSE told
          /\ changed' = {} /\ list' = list /\ listener' = listener
    BY <1>2 DEF NotifyDeviceStatusChange, None
  <2>2. PICK x : x = c.id
    OBVIOUS
  <2>3. PICK s : s = c.status
    OBVIOUS
  <2>4. CASE listener
    <3>1. /\ DOMAIN told' = DOMAIN told \cup {x} /\ told'[x] = s
          /\ \A d \in DOMAIN told : d # x => told'[d] = told[d]
      BY <2>1, <2>2, <2>3, <2>4 DEF With
    <3> QED BY <2>1, <2>2, <2>3, <2>4, <3>1
  <2>5. CASE ~listener
    BY <2>1, <2>5
  <2> QED BY <2>4, <2>5
<1>3. CASE RegisterStatusCallback
  BY <1>3 DEF RegisterStatusCallback, EmptyMap
<1>4. CASE UNCHANGED notifyVars /\ ~HandleEvent
  <2>1. \A d \in Devices : d \in DOMAIN list' <=> d \in DOMAIN list
    BY <1>4, DevicesListed
  <2>2. \A c \in changed : c.id \in Devices
    BY DEF Change
  <2> QED BY <1>4, <2>1, <2>2 DEF notifyVars
<1> QED BY <1>1, <1>2, <1>3, <1>4
        DEF Next, HotplugThread, BinderThread, vars, DeviceChanges, StartWatching,
            GetCameraList, SizeList, CopyList, OpenCamera,
            KillPrevious, CreateCamera, AssignRecord, CloseCamera, DropCamera

-----------------------------------------------------------------------------
(* Records and cameras.                                                    *)

(* closeCamera_impl closes the camera it is given, if its record has it,   *)
(* and changes no other.                                                   *)
LEMMA Closing ==
  ASSUME RecordInv, NEW c \in DOMAIN cams, cams' = CloseImpl(c)
  PROVE  /\ DOMAIN cams' = DOMAIN cams
         /\ \A d \in DOMAIN cams :
              /\ cams'[d] \in [id : AllIds, open : BOOLEAN] /\ cams'[d].id = cams[d].id
              /\ cams'[d].open => cams[d].open
         /\ cams[c].id \in DOMAIN list /\ list[cams[c].id] = c => ~cams'[c].open
<1> USE DEF RecordInv, CamerasTyped
<1>1. CASE cams' = cams /\ ~(cams[c].id \in DOMAIN list /\ list[cams[c].id] = c)
  BY <1>1
<1>2. CASE cams' = [cams EXCEPT ![c].open = FALSE]
  <2>1. /\ DOMAIN cams' = DOMAIN cams /\ cams'[c] = [cams[c] EXCEPT !.open = FALSE]
        /\ \A d \in DOMAIN cams : d # c => cams'[d] = cams[d]
    BY <1>2
  <2>2. /\ cams'[c] \in [id : AllIds, open : BOOLEAN] /\ cams'[c].id = cams[c].id
        /\ ~ cams'[c].open
    BY <2>1
  <2> QED BY <2>1, <2>2
<1> QED BY <1>1, <1>2 DEF CloseImpl

(* The steps of the binder thread. *)
LEMMA BinderKeepsRecords ==
  ASSUME IInv, [Next]_vars, ~HandleEvent, ~DeviceChanges
  PROVE  RecordInv' /\ OpenInv' /\ ClosedIsShutDown'
<1> USE CameraListAssumption
        DEF IInv, Typed, RecordInv, CamerasTyped, CamerasListed, RecordFound, OpenInv, Open,
            BeingAssigned, Recorded,
            ClosedIsShutDown, Opening, deviceVars, objectVars, binderVars
<1>1. CASE KillPrevious
  <2>1. cam \in DOMAIN cams /\ cams' = CloseImpl(cam) /\ pc = "kill" /\ pc' = "create"
        /\ UNCHANGED <<deviceVars, list, notifyVars, held, closed, rec, gone, cam, sized>>
    BY <1>1 DEF KillPrevious, Kill
  <2>2. /\ DOMAIN cams' = DOMAIN cams
        /\ \A d \in DOMAIN cams :
              /\ cams'[d] \in [id : AllIds, open : BOOLEAN] /\ cams'[d].id = cams[d].id
              /\ cams'[d].open => cams[d].open
        /\ cams[cam].id \in DOMAIN list /\ list[cams[cam].id] = cam => ~cams'[cam].open
    BY <2>1, Closing
  <2>3. RecordInv'
    BY <2>1, <2>2
  <2>4. ClosedIsShutDown'
    BY <2>1, <2>2
  <2>5. OpenInv'
    BY <2>1, <2>2
  <2> QED BY <2>3, <2>4, <2>5
<1>2. CASE CreateCamera
  <2>1. CASE cam' = NoCamera /\ UNCHANGED cams
    BY <1>2, <2>1 DEF CreateCamera
  <2>2. ASSUME NEW c \in Cams \ DOMAIN cams, rec \in present, cam' = c,
               cams' = With(cams, c, [id |-> rec, open |-> TRUE])
        PROVE  RecordInv' /\ OpenInv' /\ ClosedIsShutDown'
    <3>1. /\ DOMAIN cams' = DOMAIN cams \cup {c} /\ cams'[c].id = rec
          /\ cams'[c] \in [id : AllIds, open : BOOLEAN]
          /\ \A d \in DOMAIN cams : cams'[d] = cams[d]
      BY <2>2 DEF With
    <3>2. /\ pc = "create" /\ pc' = "assign"
          /\ UNCHANGED <<deviceVars, list, notifyVars, held, closed, rec, gone, sized>>
      BY <1>2 DEF CreateCamera
    <3>3. CamerasTyped'
      BY <2>2, <3>1, <3>2
    <3>4. CamerasListed'
      BY <3>1, <3>2
    <3>5. RecordFound'
      BY <2>2, <3>1, <3>2
    <3>6. ClosedIsShutDown'
      BY <2>2, <3>1, <3>2
    <3>7. OpenInv'
      <4>1. BeingAssigned(c)'
        BY <2>2, <3>1, <3>2
      <4>2. ASSUME NEW d \in Open, cams[d].id \in stirred \/ Recorded(d)
            PROVE  (cams[d].id \in stirred \/ Recorded(d))'
        BY <3>1, <3>2, <4>2
      <4>3. Open' \subseteq Open \cup {c}
        BY <3>1
      <4>4. \A d \in Open : cams[d].id \in stirred \/ Recorded(d)
        BY <3>2
      <4> QED BY <4>1, <4>2, <4>3, <4>4
    <3> QED BY <3>3, <3>6, <3>7, <3>4, <3>5
  <2> QED BY <1>2, <2>1, <2>2 DEF CreateCamera
<1>3. CASE AssignRecord
  <2>1. /\ pc = "assign" /\ pc' = "idle"
        /\ held' = IF cam = NoCamera THEN held ELSE held \cup {cam}
        /\ UNCHANGED <<deviceVars, cams, closed, rec>>
    BY <1>3 DEF AssignRecord
  <2>2. CASE gone
    <3>1. list' = list
      BY <1>3, <2>2 DEF AssignRecord
    <3> QED BY <2>1, <2>2, <3>1
  <2>3. CASE ~gone
    <3>1. list' = With(list, rec, cam)
      BY <1>3, <2>3 DEF AssignRecord, Assign
    <3>2. rec \in DOMAIN list
      BY <2>1, <2>3
    <3>3. /\ DOMAIN list' = DOMAIN list /\ list'[rec] = cam
          /\ \A id \in DOMAIN list : id # rec => list'[id] = list[id]
      BY ONLY <3>1, <3>2 DEF With
    <3> QED BY <2>1, <2>3, <3>2, <3>3
  <2> QED BY <2>2, <2>3
<1>4. CASE CopyList
  <2>1. /\ \A id \in DOMAIN list : id \in DOMAIN list' /\ list'[id] = list[id]
        /\ \A id \in DOMAIN list' : id \notin DOMAIN list => list'[id] = NoCamera
    BY <1>4 DEF CopyList
  <2> QED BY <1>4, <2>1 DEF CopyList
<1>5. CASE OpenCamera
  <2>1. PICK id \in DOMAIN list :
          /\ rec' = id /\ gone' = FALSE /\ cam' = list[id]
          /\ pc' = IF list[id] = NoCamera THEN "create" ELSE "kill"
    BY <1>5 DEF OpenCamera
  <2>2. pc = "idle" /\ UNCHANGED <<deviceVars, list, objectVars>>
    BY <1>5 DEF OpenCamera
  <2>3. CASE list[id] = NoCamera
    BY <2>1, <2>2, <2>3
  <2>4. CASE list[id] # NoCamera
    BY <2>1, <2>2, <2>4
  <2> QED BY <2>3, <2>4
<1>6. CASE CloseCamera
  <2>1. PICK c \in held : cams' = CloseImpl(c) /\ closed' = closed \cup {c}
    BY <1>6 DEF CloseCamera
  <2>2. pc = "idle" /\ c \in DOMAIN cams /\ UNCHANGED <<deviceVars, list, held, binderVars>>
    BY <1>6, <2>1 DEF CloseCamera
  <2>3. /\ DOMAIN cams' = DOMAIN cams
        /\ \A d \in DOMAIN cams :
              /\ cams'[d] \in [id : AllIds, open : BOOLEAN] /\ cams'[d].id = cams[d].id
              /\ cams'[d].open => cams[d].open
        /\ cams[c].id \in DOMAIN list /\ list[cams[c].id] = c => ~cams'[c].open
    BY <2>1, <2>2, Closing
  <2>4. RecordInv' /\ OpenInv'
    BY <2>1, <2>2, <2>3
  <2>5. ClosedIsShutDown'
    BY <2>1, <2>2, <2>3
  <2> QED BY <2>4, <2>5
<1>7. CASE DropCamera
  <2>1. PICK c \in held :
          /\ held' = held \ {c} /\ closed' = closed \ {c}
          /\ cams' = Without(cams, {c}) /\ list' = Expired(c)
    BY <1>7 DEF DropCamera
  <2>2. pc = "idle" /\ c \in DOMAIN cams /\ UNCHANGED <<deviceVars, binderVars>>
    BY <1>7, <2>1 DEF DropCamera
  <2>3. /\ DOMAIN cams' = DOMAIN cams \ {c}
        /\ \A d \in DOMAIN cams : d # c => cams'[d] = cams[d]
    BY <2>1 DEF Without, Restrict
  <2>4. /\ DOMAIN list' = DOMAIN list
        /\ \A id \in DOMAIN list : list[id] = c => list'[id] = NoCamera
        /\ \A id \in DOMAIN list : list[id] # c => list'[id] = list[id]
    BY <2>1 DEF Expired
  <2>5. CamerasTyped' /\ RecordFound'
    BY <2>1, <2>2, <2>3
  <2>6. CamerasListed'
    BY <2>2, <2>3, <2>4
  <2>7. OpenInv'
    <3> SUFFICES ASSUME NEW d \in Open', cams'[d].id \notin stirred
                 PROVE  Recorded(d)'
      BY <2>2
    <3>1. d \in Open /\ d # c /\ cams'[d] = cams[d]
      BY <2>3
    <3>2. Recorded(d)
      BY <2>2, <3>1
    <3> QED BY <2>2, <2>4, <3>1, <3>2
  <2>8. ClosedIsShutDown'
    BY <2>1, <2>2, <2>3
  <2> QED BY <2>5, <2>7, <2>8, <2>6
<1>8. CASE GetCameraList \/ SizeList
  BY <1>8 DEF GetCameraList, SizeList
<1>9. CASE StartWatching
  BY <1>9 DEF StartWatching
<1>10. CASE UNCHANGED <<deviceVars, list, objectVars, binderVars>>
  BY <1>10
<1> QED BY <1>1, <1>2, <1>3, <1>4, <1>5, <1>6, <1>7, <1>8, <1>9, <1>10
        DEF Next, HotplugThread, BinderThread, vars, NotifyDeviceStatusChange,
            RegisterStatusCallback

(* The hotplug thread touches records of devices that stirred only. *)
LEMMA DevicesKeepRecords ==
  ASSUME IInv, HandleEvent \/ DeviceChanges
  PROVE  RecordInv' /\ OpenInv' /\ ClosedIsShutDown'
<1> USE DEF RecordInv, CamerasTyped, CamerasListed, RecordFound, OpenInv, Open,
            BeingAssigned, Recorded, ClosedIsShutDown, Opening,
            objectVars, binderVars
<1>1. CASE DeviceChanges
  <2>1. stirred \subseteq stirred' /\ UNCHANGED <<list, objectVars, binderVars>>
    BY <1>1 DEF DeviceChanges
  <2> QED BY <2>1 DEF IInv
<1>2. CASE HandleEvent
  <2> DEFINE e == Head(events)
  <2>1. /\ Adds(e) \/ Removes(e) \/ Ignores(e)
        /\ events # <<>> /\ e \in Change
        /\ UNCHANGED <<stirred, objectVars, pc, rec, cam>>
    BY <1>2, EventHandled DEF HandleEvent, IInv
  <2>2. e.id \in stirred
    BY <2>1, QueueShrinks DEF IInv, Typed, QueueInv
  <2> HIDE DEF e
  <2>3. CASE Adds(e)
    BY <2>1, <2>2, <2>3 DEF IInv, Adds
  <2>4. CASE Removes(e)
    BY <2>1, <2>2, <2>4 DEF IInv, Removes, Erased
  <2>5. CASE Ignores(e)
    <3>1. DOMAIN list' = DOMAIN list /\ \A d \in DOMAIN list : list'[d] = list[d]
      BY <2>5 DEF Ignores
    <3>2. gone' = gone \/ (gone' = (gone \/ (pc # "idle" /\ rec = e.id)) /\ e.id \notin DOMAIN list)
      BY <2>5 DEF Ignores, Erased
    <3>3. gone => gone'
      BY <3>2
    <3>4. gone' /\ ~gone => rec = e.id
      BY <3>2
    <3>5. RecordInv'
      BY <2>1, <2>2, <3>1, <3>3, <3>4 DEF IInv
    <3>6. OpenInv' /\ ClosedIsShutDown'
      BY <2>1, <2>2, <3>1 DEF IInv
    <3> QED BY <3>5, <3>6
  <2> QED BY <2>1, <2>3, <2>4, <2>5
<1> QED BY <1>1, <1>2

-----------------------------------------------------------------------------
LEMMA InvariantInit == ASSUME Init PROVE IInv /\ ListInv
<1>1. events = <<>> /\ DOMAIN list = present \cap Qualified /\ DOMAIN told = {} /\ DOMAIN cams = {}
  BY DEF Init, EmptyMap
<1>2. \A id \in DOMAIN list : list[id] = NoCamera
  BY DEF Init
<1>3. Typed
  <2>1. <<>> \in Seq(Change) /\ {} \subseteq Change
    OBVIOUS
  <2>2. present \subseteq Devices /\ rec \in AllIds /\ pc = "idle" /\ changed = {}
        /\ stirred = {} /\ watching = FALSE
    BY DEF Init, None
  <2> QED BY <1>1, <2>1, <2>2, CameraListAssumption DEF Typed, AllIds
<1>4. QueueInv /\ ListInv
  BY <1>1, CameraListAssumption DEF QueueInv, ListInv, Awaited, Truthful
<1>5. ToldInv
  BY <1>1 DEF Init, ToldInv, None
<1>6. RecordInv /\ OpenInv /\ ClosedIsShutDown
  BY <1>1, <1>2 DEF Init, RecordInv, CamerasTyped, CamerasListed, RecordFound, OpenInv,
                    Open, ClosedIsShutDown, Opening
<1> QED BY <1>3, <1>4, <1>5, <1>6 DEF IInv

LEMMA InvariantStep == ASSUME IInv, [Next]_vars PROVE IInv'
BY TypedStep, QueueStep, ToldStep, BinderKeepsRecords, DevicesKeepRecords DEF IInv

(* EvsEnumerator.cpp:392: whoever opens a camera first shuts down the one  *)
(* that another caller has; no undisturbed device is open twice.           *)
THEOREM OpenedOnce == Spec => []OneOpen
<1>1. IInv => OneOpen
  BY DEF IInv, OpenInv, OneOpen, Open, BeingAssigned, Recorded
<1> QED BY <1>1, InvariantInit, InvariantStep, PTL DEF Spec

(* closeCamera shuts down the camera it is given, on undisturbed devices,  *)
(* and no step opens it again.                                             *)
THEOREM ClosedStaysShut == Spec => []ClosedIsShutDown
<1>1. IInv => ClosedIsShutDown
  BY DEF IInv
<1> QED BY <1>1, InvariantInit, InvariantStep, PTL DEF Spec

(* notifyDeviceStatusChange tells the truth: when nothing is left to be    *)
(* notified, the listener knows what is in the list.                       *)
THEOREM ListenerKnows == Spec => []NotifiedTruth
<1>1. IInv => NotifiedTruth
  BY DEF IInv, ToldInv, NotifiedTruth, None
<1> QED BY <1>1, InvariantInit, InvariantStep, PTL DEF Spec

(* When all events are read, the list has the capture devices that are     *)
(* there, whatever order they came and went in - provided that none does   *)
(* before the hotplug thread watches.                                      *)
THEOREM DevicesFollowed ==
  ASSUME Early = FALSE
  PROVE  Spec => []ListFollowsDevices
<1>1. IInv /\ ListInv /\ [Next]_vars => (IInv /\ ListInv)'
  BY InvariantStep, ListStep
<1>2. IInv /\ ListInv => ListFollowsDevices
  <2> SUFFICES ASSUME IInv, ListInv, events = <<>>
               PROVE  DOMAIN list \ Groups = present \cap Qualified
    BY DEF ListFollowsDevices
  <2>1. Awaited(events) = {}
    BY DEF Awaited
  <2> QED BY <2>1, CameraListAssumption DEF IInv, Typed, ListInv, AllIds
<1> QED BY <1>1, <1>2, InvariantInit, PTL DEF Spec
=============================================================================
