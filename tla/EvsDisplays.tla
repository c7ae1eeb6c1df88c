----------------------------- MODULE EvsDisplays ----------------------------
(***************************************************************************)
(* The displays part of EvsEnumerator                                      *)
(* (src/evs/evsHal/aidl/src/EvsEnumerator.cpp: openDisplay, closeDisplay   *)
(* and the class ActiveDisplays).                                          *)
(*                                                                         *)
(* The enumerator has two maps, each under mMutex only as long as it is    *)
(* looked at: from ids to displays, which it knows by a weak reference,    *)
(* and from addresses of display objects to ids.  An object lives until    *)
(* its last client is gone, and its address may then be given to another.  *)
(***************************************************************************)
EXTENDS Integers, FiniteSets, Functions

CONSTANTS
  Ids,        \* bound: display ids that clients ask for
  Ports,      \* sDisplayPortList: the ids that are ports with a display
  MainPort,   \* the port of mInternalDisplayId
  Addresses,  \* where display objects may be allocated
  NoAddress,  \* a null pointer
  Threads     \* binder threads

ASSUME DisplaysAssumption ==
  /\ MainPort \in Ports /\ Ports \subseteq Ids
  /\ NoAddress \notin Addresses

VARIABLES
  heap,         \* the display objects there are: address -> display, dead
  owned,        \* the addresses of those that a client holds
  idToDisplay,  \* mIdToDisplay: id -> address and whether displayWeak is valid
  displayToId,  \* mDisplayToId
  pc,           \* what each thread is doing
  arg,          \* the id each thread was asked for
  obj           \* the display object each thread holds

mapVars == <<idToDisplay, displayToId>>
threadVars == <<pc, arg, obj>>
vars == <<heap, owned, mapVars, threadVars>>

(* Without the pairs of f for the keys in K. *)
Without(f, K) == Restrict(f, DOMAIN f \ K)
With(f, k, v) == [j \in DOMAIN f \cup {k} |-> IF j = k THEN v ELSE f[j]]

(* Where a client's id leads: an id that is not a port stands for the main *)
(* display.                                                                *)
Target(id) == IF id \in Ports THEN id ELSE MainPort

(* The values each variable may take. *)
TypeOK ==
  /\ heap \in [DOMAIN heap -> [display : Ports, dead : BOOLEAN]]
  /\ DOMAIN heap \subseteq Addresses
  /\ owned \subseteq DOMAIN heap
  /\ DOMAIN idToDisplay \subseteq Ids
  /\ \A id \in DOMAIN idToDisplay :
       idToDisplay[id] \in [addr : Addresses, valid : BOOLEAN]
  /\ DOMAIN displayToId \subseteq Addresses
  /\ \A a \in DOMAIN displayToId : displayToId[a] \in Ids
  /\ pc \in [Threads -> {"idle", "kill", "create", "insert", "reject", "close"}]
  /\ arg \in [Threads -> Ids]
  /\ obj \in [Threads -> Addresses \cup {NoAddress}]

Empty == [x \in {} |-> x]

Init ==
  /\ heap = Empty /\ owned = {}
  /\ idToDisplay = Empty /\ displayToId = Empty
  /\ pc = [t \in Threads |-> "idle"]
  /\ arg = [t \in Threads |-> MainPort]
  /\ obj = [t \in Threads |-> NoAddress]

-----------------------------------------------------------------------------
Goes(t, where, what) == /\ pc' = [pc EXCEPT ![t] = where]
                        /\ obj' = [obj EXCEPT ![t] = what]

(* A reference is dropped: an object without one is destroyed (which shuts *)
(* it down) and weak references to it become invalid.                         *)
Referenced(a, held, objs) == a \in held \/ \E t \in Threads : objs[t] = a
Collect(h, held, objs) == Without(h, {a \in DOMAIN h : ~Referenced(a, held, objs)})
Invalidate(m, h) ==
  [id \in DOMAIN m |-> [m[id] EXCEPT !.valid = @ /\ m[id].addr \in DOMAIN h]]

Killed(a) == [heap EXCEPT ![a].dead = TRUE]

(* popDisplay(id), in openDisplay: a display that is alive is locked and   *)
(* shut down.                                                              *)
DropAddress(a) == Without(displayToId, {a})

OpenDisplay(t) ==
  /\ pc[t] = "idle"
  /\ \E id \in Ids :
       /\ arg' = [arg EXCEPT ![t] = id]
       /\ IF id \in DOMAIN idToDisplay
            THEN LET old == idToDisplay[id] IN
                 /\ idToDisplay' = Without(idToDisplay, {id})
                 /\ displayToId' = DropAddress(old.addr)
                 /\ IF old.valid THEN Goes(t, "kill", old.addr)
                                 ELSE Goes(t, "create", NoAddress)
            ELSE /\ Goes(t, "create", NoAddress)
                 /\ UNCHANGED mapVars
  /\ UNCHANGED <<heap, owned>>

(* forceShutdown of the display that was popped; the variant forgets it.   *)
NotKilled(a) == heap
ShutDown(a)  == Killed(a)

KillPrevious(t) ==
  /\ pc[t] = "kill"
  /\ Goes(t, "create", NoAddress)
  /\ heap' = Collect(ShutDown(obj[t]), owned, obj')
  /\ idToDisplay' = Invalidate(idToDisplay, heap')
  /\ UNCHANGED <<owned, displayToId, arg>>

(* A new display is made at an address that is free. *)
CreateDisplay(t) ==
  /\ pc[t] = "create"
  /\ \E a \in Addresses \ DOMAIN heap :
       /\ heap' = With(heap, a, [display |-> Target(arg[t]), dead |-> FALSE])
       /\ Goes(t, "insert", a)
  /\ UNCHANGED <<owned, mapVars, arg>>

(* tryInsert: both the id and the address must be new.                     *)
(* In the variant an id that is taken is taken over.                       *)
AddressIsNew(id, a) == a \notin DOMAIN displayToId
Insertable(id, a)   == id \notin DOMAIN idToDisplay /\ a \notin DOMAIN displayToId

InsertDisplay(t) ==
  /\ pc[t] = "insert"
  /\ IF Insertable(arg[t], obj[t])
       THEN /\ idToDisplay' = With(idToDisplay, arg[t],
                                   [addr |-> obj[t], valid |-> TRUE])
            /\ displayToId' = With(displayToId, obj[t], arg[t])
            /\ owned' = owned \cup {obj[t]}
            /\ Goes(t, "idle", NoAddress)
       ELSE /\ Goes(t, "reject", obj[t])
            /\ UNCHANGED <<owned, mapVars>>
  /\ UNCHANGED <<heap, arg>>

(* RESOURCE_BUSY: the new display is shut down and dropped. *)
RejectDisplay(t) ==
  /\ pc[t] = "reject"
  /\ Goes(t, "idle", NoAddress)
  /\ heap' = Collect(Killed(obj[t]), owned, obj')
  /\ UNCHANGED <<owned, mapVars, arg>>

(* closeDisplay of an object a client holds: popDisplay(obj), then         *)
(* forceShutdown.  The call itself holds a reference.                      *)
CloseDisplay(t) ==
  /\ pc[t] = "idle"
  /\ \E a \in owned \cap DOMAIN displayToId :
       LET id == displayToId[a] IN
         /\ displayToId' = Without(displayToId, {a})
         /\ IF id \in DOMAIN idToDisplay
              THEN /\ idToDisplay' = Without(idToDisplay, {id})
                   /\ IF idToDisplay[id].valid
                        THEN Goes(t, "close", idToDisplay[id].addr)
                        ELSE UNCHANGED <<pc, obj>>
              ELSE UNCHANGED <<idToDisplay, pc, obj>>
  /\ UNCHANGED <<heap, owned, arg>>

CloseShutsDown(t) ==
  /\ pc[t] = "close"
  /\ Goes(t, "idle", NoAddress)
  /\ heap' = Collect(Killed(obj[t]), owned, obj')
  /\ idToDisplay' = Invalidate(idToDisplay, heap')
  /\ UNCHANGED <<owned, displayToId, arg>>

(* A client drops its display, or dies; a binder thread hears of it.       *)
DropDisplay ==
  /\ \E t \in Threads : pc[t] = "idle"
  /\ \E a \in owned :
       /\ owned' = owned \ {a}
       /\ heap' = Collect(heap, owned', obj)
  /\ idToDisplay' = Invalidate(idToDisplay, heap')
  /\ UNCHANGED <<displayToId, threadVars>>

Continues(t) == \/ KillPrevious(t) \/ CreateDisplay(t) \/ InsertDisplay(t)
                \/ RejectDisplay(t) \/ CloseShutsDown(t)

Next ==
  \/ \E t \in Threads : OpenDisplay(t) \/ CloseDisplay(t) \/ Continues(t)
  \/ DropDisplay

Spec == Init /\ [][Next]_vars
-----------------------------------------------------------------------------
(* Properties.                                                             *)

Handled(a) == \E t \in Threads : obj[t] = a
Alive      == {a \in DOMAIN heap : ~heap[a].dead}

(* The two maps are inverse to each other, whichever threads change them   *)
(* in between: closing by object and closing by id mean the same display.  *)
MapsAgree ==
  /\ \A id \in DOMAIN idToDisplay :
       /\ idToDisplay[id].addr \in DOMAIN displayToId
       /\ displayToId[idToDisplay[id].addr] = id
  /\ \A a \in DOMAIN displayToId :
       /\ displayToId[a] \in DOMAIN idToDisplay
       /\ idToDisplay[displayToId[a]].addr = a

(* A display that can still draw is known to the enumerator, or a call     *)
(* that will shut it down or hand it out has it: none is forgotten and     *)
(* goes on drawing when the next client opens the display.                 *)
NoneForgotten ==
  \A a \in Alive : Handled(a) \/ \E id \in DOMAIN idToDisplay :
                                   idToDisplay[id] = [addr |-> a, valid |-> TRUE]

(* EvsEnumerator.cpp:448: the new caller gets exclusive access; of two     *)
(* calls at a time, it gets it when the other has shut down what it took   *)
(* from the map.                                                           *)
ExclusiveAccess ==
  \A a, b \in owned \cap Alive :
    heap[a].display = heap[b].display => a = b \/ Handled(a) \/ Handled(b)

(* EvsEnumerator.cpp:472: opening a display is refused only because        *)
(* another caller uses it.                                                 *)
RefusedOnlyIfUsed ==
  \A t \in Threads : pc[t] = "reject" =>
    arg[t] \in DOMAIN idToDisplay /\ idToDisplay[arg[t]].valid
=============================================================================
