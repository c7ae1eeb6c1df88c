-------------------------- MODULE EvsDisplaysProofs ---------------------------
(***************************************************************************)
(* Proofs about EvsDisplay: what holds of a display whatever fails in GL and *)
(* allocation, for any number of binder threads, and with clients that return *)
(* a buffer once; and about EvsDisplays, for any number of binder threads, *)
(* displays and clients.                                                   *)
(***************************************************************************)
EXTENDS EvsDisplay, EvsDisplays, TLAPS

-------------------------------------------------------------------------------
(* One display.                                                            *)

(* Before the render thread is up the client has not called; another may   *)
(* have taken the display over.                                            *)
Untouched ==
  rpc = "init" => /\ ~busy /\ ~ready /\ ~texture /\ lent = {} /\ handle # "buffer"
                  /\ \A t \in BinderThreads : call[t] \in {"idle", "join"}

(* The context and the buffer exist from there to the end of the thread. *)
BufferExists ==
  /\ rpc \in {"wait", "draw", "free", "hide"} => gl
  /\ rpc \in {"wait", "draw", "free"} => handle = "buffer"
  /\ rpc \in {"hide", "ended"} => handle # "buffer"

(* A picture that waits or is drawn has the buffer for itself; so has the  *)
(* client that draws into it.                                              *)
OneUser ==
  /\ ready \/ rpc = "draw" => busy /\ "buffer" \notin lent
  /\ rpc = "draw" => ~ready
  /\ "buffer" \in lent => busy

(* The thread ends only when the display is lost, or when it could not     *)
(* begin; what ends well leaves nothing behind.                            *)
EndsWhenLost ==
  /\ state # "RUN" => Dead
  /\ rpc \in {"free", "hide"} => Dead
  /\ rpc = "ended" /\ mishaps \cap {"gl", "alloc"} = {} => Dead /\ ~window /\ ~gl
  /\ shut => rpc = "ended"

DisplayInv == DisplayTypeOK /\ Untouched /\ BufferExists /\ OneUser /\ EndsWhenLost /\ BusyHasReason

-----------------------------------------------------------------------------
LEMMA InitInv == ASSUME DisplayInit PROVE DisplayInv
BY DisplayAssumption
   DEF DisplayInit, DisplayInv, DisplayTypeOK, DisplayStates, Untouched, BufferExists, OneUser, EndsWhenLost,
       BusyHasReason, Dead

(* The steps of the render thread. *)
LEMMA RenderInv == ASSUME DisplayInv, RenderThread PROVE DisplayInv'
<1> USE DEF DisplayInv, DisplayTypeOK, Untouched, BufferExists, OneUser, EndsWhenLost, BusyHasReason,
            Dead, bufferVars, renderVars, clientVars, NotBusy, ImageDropped, Mishap,
            DisplayFaults, DisplayStates
<1>1. CASE RenderInit
  BY <1>1 DEF RenderInit
<1>2. CASE RenderInitFails
  <2>1. mishaps' \cap {"gl", "alloc"} # {} /\ mishaps' \in SUBSET (DisplayFaults \cup {"ignored", "overlooked"})
    BY <1>2 DEF RenderInitFails
  <2> HIDE DEF Mishap
  <2> QED BY <1>2, <2>1 DEF RenderInitFails
<1>3. CASE RenderNext
  BY <1>3 DEF RenderNext
<1>4. CASE RenderFails
  BY <1>4 DEF RenderFails
<1>5. CASE RenderDraws
  BY <1>5 DEF RenderDraws
<1>6. CASE RenderFrees
  BY <1>6 DEF RenderFrees
<1>7. CASE RenderEnds
  BY <1>7 DEF RenderEnds
<1> QED BY <1>1, <1>2, <1>3, <1>4, <1>5, <1>6, <1>7 DEF RenderThread

(* The calls.  The client makes none while the render thread starts, and   *)
(* returns no buffer twice.                                                *)
LEMMA CallsInv ==
  ASSUME DisplayInv, "early" \notin Client, "retry" \notin Client,
         \/ SetDisplayState \/ CallEnds
         \/ \E t \in BinderThreads : GetTargetBuffer(t) \/ ReturnTargetBuffer(t) \/ ForceShutdown(t)
  PROVE  DisplayInv'
<1> USE DisplayAssumption
        DEF DisplayInv, DisplayTypeOK, Untouched, BufferExists, OneUser, EndsWhenLost, BusyHasReason,
            Dead, bufferVars, renderVars, clientVars, Mishap, DisplayFaults, DisplayStates,
            Calls, Waits, Returns
<1>1. CASE SetDisplayState
  BY <1>1 DEF SetDisplayState
<1>2. ASSUME NEW t \in BinderThreads, GetTargetBuffer(t) PROVE DisplayInv'
  <2>1. CASE Available /\ Grant /\ UNCHANGED call
    <3>1. rpc = "ended" => mishaps # {}
      BY <1>2 DEF GetTargetBuffer
    <3> QED BY <1>2, <2>1, <3>1 DEF GetTargetBuffer, Grant, Available
  <2>2. CASE ~Available /\ Waits(t, "get") /\ UNCHANGED <<busy, clientVars>>
    BY <1>2, <2>2 DEF GetTargetBuffer
  <2> QED BY <1>2, <2>1, <2>2 DEF GetTargetBuffer
<1>3. ASSUME NEW t \in BinderThreads, ReturnTargetBuffer(t) PROVE DisplayInv'
  <2>1. CASE ReturnRefused
    BY <1>3, <2>1 DEF ReturnTargetBuffer, ReturnRefused
  <2>2. CASE ReturnIgnored
    BY <1>3, <2>2 DEF ReturnTargetBuffer, ReturnIgnored
  <2>3. CASE ReturnShows(t)
    BY <1>3, <2>3 DEF ReturnTargetBuffer, ReturnShows, Shown
  <2> QED BY <1>3, <2>1, <2>2, <2>3 DEF ReturnTargetBuffer
<1>4. ASSUME NEW t \in BinderThreads, ForceShutdown(t) PROVE DisplayInv'
  BY <1>4 DEF ForceShutdown, ToldToStop, TooEarly
<1>5. ASSUME NEW t \in BinderThreads, GetTargetBufferWakes(t) PROVE DisplayInv'
  BY <1>5, ZenonT(40) DEF GetTargetBufferWakes, Grant, Available
<1>6. ASSUME NEW t \in BinderThreads, ReturnTargetBufferEnds(t) PROVE DisplayInv'
  <2>1. refused' \in BOOLEAN
    BY <1>6 DEF ReturnTargetBufferEnds
  <2>2. rpc # "init" /\ call' \in [BinderThreads -> {"idle", "get", "render", "join"}]
    BY <1>6 DEF ReturnTargetBufferEnds
  <2> QED BY <1>6, <2>1, <2>2 DEF ReturnTargetBufferEnds
<1>7. ASSUME NEW t \in BinderThreads, ForceShutdownJoins(t) PROVE DisplayInv'
  BY <1>7 DEF ForceShutdownJoins
<1> HIDE DEF DisplayInv
<1> QED BY <1>1, <1>2, <1>3, <1>4, <1>5, <1>6, <1>7 DEF CallEnds

LEMMA Inductive ==
  ASSUME "early" \notin Client, "retry" \notin Client
  PROVE  DisplaySpec => []DisplayInv
<1>1. ASSUME DisplayInv, [DisplayNext]_displayVars PROVE DisplayInv'
  <2>1. CASE UNCHANGED displayVars
    BY <1>1, <2>1 DEF displayVars, bufferVars, renderVars, clientVars, DisplayInv, DisplayTypeOK, Untouched,
                      BufferExists, OneUser, EndsWhenLost, BusyHasReason, Dead
  <2>2. CASE DisplayNext
    BY <1>1, <2>2, RenderInv, CallsInv DEF DisplayNext
  <2> QED BY <1>1, <2>1, <2>2
<1> QED BY InitInv, <1>1, PTL DEF DisplaySpec

-----------------------------------------------------------------------------
(* The render thread reads the buffer only when it exists and no client    *)
(* has it (renderFrames draws without mLock).                              *)
THEOREM DrawsAlone ==
  ASSUME "early" \notin Client, "retry" \notin Client
  PROVE  DisplaySpec => []DrawnAlone
<1>1. DisplayInv => DrawnAlone
  BY DEF DisplayInv, OneUser, BufferExists, DrawnAlone
<1> QED BY <1>1, Inductive, PTL

(* A busy buffer is with the client, waits to be drawn, or is drawn, as    *)
(* long as the client owns the display and nothing was ignored or failed.  *)
THEOREM BufferKept ==
  ASSUME "early" \notin Client, "retry" \notin Client
  PROVE  DisplaySpec => []BusyHasReason
<1>1. DisplayInv => BusyHasReason
  BY DEF DisplayInv
<1> QED BY <1>1, Inductive, PTL

(* What forceShutdown leaves is free for the next owner, and stays so.     *)
THEOREM DisplayReleased ==
  ASSUME "early" \notin Client, "retry" \notin Client
  PROVE  DisplaySpec => []ReleasedWhenShut
<1>1. DisplayInv => ReleasedWhenShut
  BY DEF DisplayInv, BufferExists, EndsWhenLost, ReleasedWhenShut
<1> QED BY <1>1, Inductive, PTL

-------------------------------------------------------------------------------
(* The displays that the enumerator has opened.                            *)

(* The record of id is valid and leads to a. *)
Knows(id, a) == /\ id \in DOMAIN idToDisplay
                /\ idToDisplay[id].addr = a /\ idToDisplay[id].valid

(* A thread has an object exactly while it works on one, and everything on *)
(* the heap has a reference.                                               *)
HeapInv ==
  /\ \A t \in Threads : IF pc[t] \in {"idle", "create"}
                          THEN obj[t] = NoAddress
                          ELSE obj[t] \in DOMAIN heap
  /\ \A a \in DOMAIN heap : Referenced(a, owned, obj)

(* What is valid in the map is on the heap, for the display of its id.     *)
ValidInv ==
  \A id \in Ids, a \in Addresses : Knows(id, a) =>
    a \in DOMAIN heap /\ heap[a].display = Target(id)

(* A new display is known to its thread only, until it is inserted. *)
NewInv ==
  \A t \in Threads : pc[t] \in {"insert", "reject"} =>
    /\ heap[obj[t]].display = Target(arg[t])
    /\ \A u \in Threads : u # t => obj[u] # obj[t]
    /\ \A id \in Ids : ~Knows(id, obj[t])

(* A display that can draw is in the map or in a thread's hands. *)
KnownInv == \A a \in Alive : Handled(a) \/ \E id \in Ids : Knows(id, a)

IInv == TypeOK /\ MapsAgree /\ HeapInv /\ ValidInv /\ NewInv /\ KnownInv
-----------------------------------------------------------------------------
(* Maps.                                                                   *)

LEMMA WithoutMap ==
  ASSUME NEW f, NEW K
  PROVE  /\ DOMAIN Without(f, K) = DOMAIN f \ K
         /\ \A x \in DOMAIN f \ K : Without(f, K)[x] = f[x]
BY DEF Without, Restrict

Entry == [addr : Addresses, valid : BOOLEAN]

(* A record whose object is gone is no longer valid; nothing else changes. *)
LEMMA InvalidateMap ==
  ASSUME NEW m, NEW h, \A id \in DOMAIN m : m[id] \in Entry
  PROVE  /\ DOMAIN Invalidate(m, h) = DOMAIN m
         /\ \A id \in DOMAIN m :
              /\ Invalidate(m, h)[id] \in Entry
              /\ Invalidate(m, h)[id].addr = m[id].addr
              /\ Invalidate(m, h)[id].valid <=> m[id].valid /\ m[id].addr \in DOMAIN h
<1>1. DOMAIN Invalidate(m, h) = DOMAIN m
  BY DEF Invalidate
<1>2. ASSUME NEW id \in DOMAIN m
      PROVE  /\ Invalidate(m, h)[id] \in Entry
             /\ Invalidate(m, h)[id].addr = m[id].addr
             /\ Invalidate(m, h)[id].valid <=> m[id].valid /\ m[id].addr \in DOMAIN h
  <2> DEFINE e == m[id]
             v == e.valid /\ m[id].addr \in DOMAIN h
  <2>1. e \in Entry
    OBVIOUS
  <2>2. Invalidate(m, h)[id] = [e EXCEPT !.valid = v]
    BY DEF Invalidate
  <2>3. v \in BOOLEAN
    OBVIOUS
  <2> HIDE DEF v, e
  <2>4. /\ [e EXCEPT !.valid = v] \in Entry
        /\ [e EXCEPT !.valid = v].addr = e.addr
        /\ [e EXCEPT !.valid = v].valid = v
    BY <2>1, <2>3 DEF Entry
  <2> QED BY <2>2, <2>4 DEF v, e
<1> QED BY <1>1, <1>2

(* forceShutdown, and the reference of the call dropped: the object can no *)
(* longer draw, and only it may be gone.                                   *)
LEMMA ShutsDown ==
  ASSUME TypeOK, HeapInv, NEW t \in Threads, obj[t] \in DOMAIN heap,
         obj' = [obj EXCEPT ![t] = NoAddress],
         heap' = Collect(Killed(obj[t]), owned, obj')
  PROVE  /\ DOMAIN heap' \in SUBSET DOMAIN heap
         /\ heap' \in [DOMAIN heap' -> [display : Ports, dead : BOOLEAN]]
         /\ \A b \in DOMAIN heap' : heap'[b].display = heap[b].display
         /\ \A b \in DOMAIN heap' : ~heap'[b].dead => ~heap[b].dead /\ b # obj[t]
         /\ DOMAIN heap \ {obj[t]} \in SUBSET DOMAIN heap'
         /\ owned \in SUBSET DOMAIN heap'
         /\ \A b \in DOMAIN heap : b \in DOMAIN heap' <=> Referenced(b, owned, obj')
<1> DEFINE a == obj[t]
           k == Killed(a)
           Lost == {b \in DOMAIN k : ~Referenced(b, owned, obj')}
<1>1. heap \in [DOMAIN heap -> [display : Ports, dead : BOOLEAN]] /\ owned \in SUBSET DOMAIN heap
  BY DEF TypeOK
<1>2. /\ DOMAIN k = DOMAIN heap
      /\ k \in [DOMAIN heap -> [display : Ports, dead : BOOLEAN]]
      /\ \A b \in DOMAIN heap : /\ k[b].display = heap[b].display
                                /\ b # a => k[b] = heap[b]
      /\ k[a].dead
  <2>1. k = [heap EXCEPT ![a] = [heap[a] EXCEPT !.dead = TRUE]]
    BY DEF Killed
  <2>2. heap[a] \in [display : Ports, dead : BOOLEAN]
    BY <1>1
  <2>3. /\ [heap[a] EXCEPT !.dead = TRUE] \in [display : Ports, dead : BOOLEAN]
        /\ [heap[a] EXCEPT !.dead = TRUE].display = heap[a].display
        /\ [heap[a] EXCEPT !.dead = TRUE].dead
    BY <2>2
  <2> QED BY <1>1, <2>1, <2>3
<1>3. DOMAIN heap' = DOMAIN k \ Lost /\ \A b \in DOMAIN k \ Lost : heap'[b] = k[b]
  <2>1. heap' = Without(k, Lost)
    BY DEF Collect
  <2>2. /\ DOMAIN Without(k, Lost) = DOMAIN k \ Lost
        /\ \A b \in DOMAIN k \ Lost : Without(k, Lost)[b] = k[b]
    <3> HIDE DEF k, Lost
    <3> QED BY WithoutMap
  <2> HIDE DEF k, Lost
  <2> QED BY <2>1, <2>2
<1>4. heap' = [b \in DOMAIN heap' |-> heap'[b]]
  BY DEF Collect, Without, Restrict
<1> HIDE DEF k
<1>5. heap' \in [DOMAIN heap' -> [display : Ports, dead : BOOLEAN]]
  BY <1>2, <1>3, <1>4
<1>6. \A b \in DOMAIN heap' : ~heap'[b].dead => ~heap[b].dead /\ b # obj[t]
  BY <1>2, <1>3
<1>7. ASSUME NEW b \in DOMAIN heap \ {a} PROVE b \in DOMAIN heap'
  <2>1. b \in owned \/ \E u \in Threads : obj[u] = b
    BY DEF HeapInv, Referenced
  <2>2. Referenced(b, owned, obj')
    BY <2>1 DEF Referenced, TypeOK
  <2> QED BY <1>2, <1>3, <2>2
<1>8. owned \in SUBSET DOMAIN heap'
  BY <1>1, <1>2, <1>3 DEF Referenced
<1>9. \A b \in DOMAIN heap : b \in DOMAIN heap' <=> Referenced(b, owned, obj')
  BY <1>2, <1>3
<1> QED BY <1>2, <1>3, <1>5, <1>6, <1>7, <1>8, <1>9, ZenonT(40)
-----------------------------------------------------------------------------
(* The invariant is kept.                                                  *)

(* What TypeOK says, in the form the steps need. *)
LEMMA Parts ==
  ASSUME IInv
  PROVE  /\ \A id \in DOMAIN idToDisplay :
              /\ id \in Ids /\ idToDisplay[id] \in Entry
              /\ idToDisplay[id].addr \in Addresses
         /\ NoAddress \notin DOMAIN heap
BY DisplaysAssumption DEF IInv, TypeOK, Entry

(* The end of a forceShutdown, in openDisplay and in closeDisplay. *)
LEMMA ShutDownStep ==
  ASSUME IInv, NEW t \in Threads, pc[t] \in {"kill", "close"},
         NEW next \in {"create", "idle"}, Goes(t, next, NoAddress),
         heap' = Collect(Killed(obj[t]), owned, obj'),
         idToDisplay' = Invalidate(idToDisplay, heap'),
         UNCHANGED <<owned, displayToId, arg>>
  PROVE  IInv'
<1> USE DEF IInv
<1>1. obj[t] \in DOMAIN heap /\ obj' = [obj EXCEPT ![t] = NoAddress]
      /\ pc' = [pc EXCEPT ![t] = next]
  BY DEF HeapInv, Goes
<1>2. /\ DOMAIN heap' \in SUBSET DOMAIN heap
      /\ heap' \in [DOMAIN heap' -> [display : Ports, dead : BOOLEAN]]
      /\ \A b \in DOMAIN heap' : heap'[b].display = heap[b].display
      /\ \A b \in DOMAIN heap' : ~heap'[b].dead => ~heap[b].dead /\ b # obj[t]
      /\ DOMAIN heap \ {obj[t]} \in SUBSET DOMAIN heap'
      /\ owned \in SUBSET DOMAIN heap'
      /\ \A b \in DOMAIN heap : b \in DOMAIN heap' <=> Referenced(b, owned, obj')
  BY <1>1, ShutsDown
<1>3. /\ DOMAIN idToDisplay' = DOMAIN idToDisplay
      /\ \A id \in DOMAIN idToDisplay :
           /\ idToDisplay'[id] \in Entry
           /\ idToDisplay'[id].addr = idToDisplay[id].addr
           /\ idToDisplay'[id].valid <=>
                idToDisplay[id].valid /\ idToDisplay[id].addr \in DOMAIN heap'
  BY Parts, InvalidateMap
<1>4. /\ \A u \in Threads : u # t => obj'[u] = obj[u] /\ pc'[u] = pc[u]
      /\ obj'[t] = NoAddress /\ pc'[t] = next
  BY <1>1 DEF TypeOK
<1>a. \A u \in Threads : u # t /\ pc[u] \notin {"idle", "create"} =>
        obj[u] \in DOMAIN heap /\ obj[u] \in DOMAIN heap' /\ obj[u] # NoAddress
  BY <1>2, <1>4, Parts DEF HeapInv, Referenced
<1>5. TypeOK'
  <2>1. /\ pc' \in [Threads -> {"idle", "kill", "create", "insert", "reject", "close"}]
        /\ obj' \in [Threads -> Addresses \cup {NoAddress}]
    BY <1>1 DEF TypeOK
  <2> QED BY <1>2, <1>3, <2>1 DEF TypeOK, Entry
<1>6. MapsAgree'
  BY <1>3 DEF MapsAgree
<1>7. \A id, a : Knows(id, a)' <=> Knows(id, a) /\ a \in DOMAIN heap'
  BY <1>3 DEF Knows
<1>8. HeapInv'
  <2> QED BY <1>2, <1>4, <1>a DEF HeapInv
<1>9. ValidInv'
  BY <1>2, <1>7 DEF ValidInv, Target
<1>10. NewInv'
  BY <1>2, <1>4, <1>7, <1>a DEF NewInv, Target
<1>11. KnownInv'
  BY <1>2, <1>4, <1>7 DEF KnownInv, Alive, Handled
<1> QED BY <1>5, <1>6, <1>8, <1>9, <1>10, <1>11
(* popDisplay: the record of id is taken out of both maps, and its object, *)
(* if it is still there, into the call's hands.                            *)
LEMMA PopStep ==
  ASSUME IInv, NEW t \in Threads, pc[t] = "idle", NEW id \in DOMAIN idToDisplay,
         idToDisplay' = Without(idToDisplay, {id}),
         displayToId' = Without(displayToId, {idToDisplay[id].addr}),
         IF idToDisplay[id].valid
           THEN \/ Goes(t, "kill", idToDisplay[id].addr)
                \/ Goes(t, "close", idToDisplay[id].addr)
           ELSE Goes(t, "create", NoAddress) \/ UNCHANGED <<pc, obj>>,
         arg' \in [Threads -> Ids], \A u \in Threads : u # t => arg'[u] = arg[u],
         UNCHANGED <<heap, owned>>
  PROVE  IInv'
<1> USE DEF IInv
<1> DEFINE a == idToDisplay[id].addr
<1>1. id \in Ids /\ a \in Addresses /\ obj[t] = NoAddress
  BY Parts DEF HeapInv
<1>2. /\ DOMAIN idToDisplay' = DOMAIN idToDisplay \ {id}
      /\ \A i \in DOMAIN idToDisplay' : idToDisplay'[i] = idToDisplay[i]
      /\ DOMAIN displayToId' = DOMAIN displayToId \ {a}
      /\ \A b \in DOMAIN displayToId' : displayToId'[b] = displayToId[b]
  BY DEF Without, Restrict
<1>3. \A i, b : Knows(i, b)' <=> Knows(i, b) /\ i # id
  BY <1>2 DEF Knows
<1>4. /\ pc' \in [Threads -> {"idle", "kill", "create", "insert", "reject", "close"}]
      /\ obj' \in [Threads -> Addresses \cup {NoAddress}]
      /\ \A u \in Threads : u # t => pc'[u] = pc[u] /\ obj'[u] = obj[u]
      /\ idToDisplay[id].valid => pc'[t] \in {"kill", "close"} /\ obj'[t] = a
      /\ ~idToDisplay[id].valid => pc'[t] \in {"create", "idle"} /\ obj'[t] = NoAddress
  <2>1. CASE idToDisplay[id].valid
    BY <1>1, <2>1 DEF Goes, TypeOK
  <2>2. CASE ~idToDisplay[id].valid
    BY <1>1, <2>2 DEF Goes, TypeOK
  <2> QED BY <2>1, <2>2
<1> HIDE DEF a
<1>5. idToDisplay[id].valid => Knows(id, a) /\ a \in DOMAIN heap
  BY <1>1 DEF Knows, ValidInv, a
<1>6. TypeOK'
  <2>1. /\ DOMAIN idToDisplay' \subseteq Ids
        /\ \A i \in DOMAIN idToDisplay' :
             idToDisplay'[i] \in [addr : Addresses, valid : BOOLEAN]
    BY <1>2 DEF TypeOK
  <2>2. /\ DOMAIN displayToId' \subseteq Addresses
        /\ \A b \in DOMAIN displayToId' : displayToId'[b] \in Ids
    BY <1>2 DEF TypeOK
  <2> QED BY <1>4, <2>1, <2>2 DEF TypeOK
<1>7. MapsAgree'
  <2>1. ASSUME NEW i \in DOMAIN idToDisplay'
        PROVE  /\ idToDisplay'[i].addr \in DOMAIN displayToId'
               /\ displayToId'[idToDisplay'[i].addr] = i
    <3>1. i \in DOMAIN idToDisplay /\ i # id /\ idToDisplay'[i] = idToDisplay[i]
      BY <1>2
    <3>2. /\ idToDisplay[i].addr \in DOMAIN displayToId
          /\ displayToId[idToDisplay[i].addr] = i /\ displayToId[a] = id
      BY <3>1 DEF MapsAgree, a
    <3>3. idToDisplay[i].addr \in DOMAIN displayToId'
      BY <1>2, <3>1, <3>2
    <3> QED BY <1>2, <3>1, <3>2, <3>3
  <2>2. ASSUME NEW b \in DOMAIN displayToId'
        PROVE  /\ displayToId'[b] \in DOMAIN idToDisplay'
               /\ idToDisplay'[displayToId'[b]].addr = b
    <3>1. b \in DOMAIN displayToId /\ b # a /\ displayToId'[b] = displayToId[b]
      BY <1>2
    <3>2. /\ displayToId[b] \in DOMAIN idToDisplay
          /\ idToDisplay[displayToId[b]].addr = b
      BY <3>1 DEF MapsAgree
    <3>3. displayToId[b] \in DOMAIN idToDisplay'
      BY <1>2, <3>1, <3>2 DEF a
    <3> QED BY <1>2, <3>1, <3>2, <3>3
  <2> QED BY <2>1, <2>2 DEF MapsAgree
<1>8. HeapInv'
  <2>1. ASSUME NEW b \in DOMAIN heap PROVE Referenced(b, owned, obj')
    <3>1. Referenced(b, owned, obj) /\ b # NoAddress
      BY Parts DEF HeapInv
    <3> QED BY <1>1, <1>4, <3>1 DEF Referenced
  <2> QED BY <1>4, <1>5, <2>1 DEF HeapInv
<1>9. ValidInv'
  BY <1>3 DEF ValidInv, Target
<1>10. NewInv'
  <2>1. ASSUME NEW u \in Threads, u # t, pc[u] \in {"insert", "reject"}
        PROVE  /\ obj[u] \in DOMAIN heap /\ obj[u] # NoAddress
               /\ idToDisplay[id].valid => obj[u] # a
    BY <1>1, <1>5, <2>1, Parts DEF HeapInv, NewInv
  <2> QED BY <1>3, <1>4, <2>1 DEF NewInv, Target
<1>11. KnownInv'
  <2> SUFFICES ASSUME NEW b \in Alive
               PROVE  Handled(b)' \/ \E i \in Ids : Knows(i, b)'
    BY DEF KnownInv, Alive
  <2>1. CASE Handled(b)
    <3>1. b # NoAddress
      BY Parts DEF Alive
    <3> QED BY <1>1, <1>4, <2>1, <3>1 DEF Handled
  <2>2. ASSUME NEW i \in Ids, Knows(i, b)
        PROVE  Handled(b)' \/ Knows(i, b)'
    <3>1. CASE i = id
      <4>1. idToDisplay[id].valid /\ b = a
        BY <2>2, <3>1 DEF Knows, a
      <4> QED BY <1>4, <4>1 DEF Handled
    <3>2. CASE i # id
      BY <1>3, <2>2, <3>2
    <3> QED BY <3>1, <3>2
  <2> QED BY <2>1, <2>2 DEF KnownInv
<1> QED BY <1>6, <1>7, <1>8, <1>9, <1>10, <1>11

LEMMA OpenStep ==
  ASSUME IInv, NEW t \in Threads, OpenDisplay(t)
  PROVE  IInv'
<1> USE DEF IInv
<1>1. PICK id \in Ids :
        /\ arg' = [arg EXCEPT ![t] = id]
        /\ IF id \in DOMAIN idToDisplay
             THEN LET old == idToDisplay[id] IN
                  /\ idToDisplay' = Without(idToDisplay, {id})
                  /\ displayToId' = DropAddress(old.addr)
                  /\ IF old.valid THEN Goes(t, "kill", old.addr)
                                  ELSE Goes(t, "create", NoAddress)
             ELSE /\ Goes(t, "create", NoAddress)
                  /\ UNCHANGED mapVars
  BY DEF OpenDisplay
<1>2. pc[t] = "idle" /\ UNCHANGED <<heap, owned>>
  BY DEF OpenDisplay
<1>3. arg' \in [Threads -> Ids] /\ \A u \in Threads : u # t => arg'[u] = arg[u]
  BY <1>1 DEF TypeOK
<1>4. CASE id \in DOMAIN idToDisplay
  BY <1>1, <1>2, <1>3, <1>4, PopStep DEF DropAddress
<1>5. CASE id \notin DOMAIN idToDisplay
  <2>1. UNCHANGED mapVars /\ Goes(t, "create", NoAddress)
    BY <1>1, <1>5
  <2>2. obj' = obj
    BY <1>2, <2>1 DEF Goes, HeapInv, TypeOK
  <2>3. /\ pc' \in [Threads -> {"idle", "kill", "create", "insert", "reject", "close"}]
        /\ pc'[t] = "create" /\ \A u \in Threads : u # t => pc'[u] = pc[u]
    BY <2>1 DEF Goes, TypeOK
  <2>4. \A i, b : Knows(i, b)' <=> Knows(i, b)
    BY <2>1 DEF Knows, mapVars
  <2>5. TypeOK' /\ MapsAgree'
    BY <1>2, <1>3, <2>1, <2>2, <2>3 DEF TypeOK, MapsAgree, mapVars
  <2>6. HeapInv'
    BY <1>2, <2>2, <2>3 DEF HeapInv, Referenced
  <2>7. ValidInv' /\ KnownInv'
    BY <1>2, <2>2, <2>4 DEF ValidInv, KnownInv, Alive, Handled, Target
  <2>8. NewInv'
    BY <1>2, <1>3, <2>2, <2>3, <2>4 DEF NewInv, Target
  <2> QED BY <2>5, <2>6, <2>7, <2>8
<1> QED BY <1>4, <1>5

LEMMA CloseStep ==
  ASSUME IInv, NEW t \in Threads, CloseDisplay(t)
  PROVE  IInv'
<1>1. PICK a \in owned \cap DOMAIN displayToId :
        LET id == displayToId[a] IN
          /\ displayToId' = Without(displayToId, {a})
          /\ IF id \in DOMAIN idToDisplay
               THEN /\ idToDisplay' = Without(idToDisplay, {id})
                    /\ IF idToDisplay[id].valid
                         THEN Goes(t, "close", idToDisplay[id].addr)
                         ELSE UNCHANGED <<pc, obj>>
               ELSE UNCHANGED <<idToDisplay, pc, obj>>
  BY DEF CloseDisplay
<1> DEFINE id == displayToId[a]
<1>2. id \in DOMAIN idToDisplay /\ idToDisplay[id].addr = a
  BY DEF IInv, MapsAgree
<1>3. pc[t] = "idle" /\ UNCHANGED <<heap, owned, arg>> /\ arg \in [Threads -> Ids]
  BY DEF CloseDisplay, IInv, TypeOK
<1> QED BY <1>1, <1>2, <1>3, PopStep

(* A new object, which no valid record leads to. *)
LEMMA CreateStep ==
  ASSUME IInv, NEW t \in Threads, CreateDisplay(t)
  PROVE  IInv'
<1> USE DEF IInv
<1>1. PICK a \in Addresses \ DOMAIN heap :
        /\ heap' = With(heap, a, [display |-> Target(arg[t]), dead |-> FALSE])
        /\ Goes(t, "insert", a)
  BY DEF CreateDisplay
<1>2. pc[t] = "create" /\ UNCHANGED <<owned, mapVars, arg>>
  BY DEF CreateDisplay
<1>3. /\ DOMAIN heap' = DOMAIN heap \cup {a}
      /\ heap'[a] = [display |-> Target(arg[t]), dead |-> FALSE]
      /\ \A b \in DOMAIN heap : heap'[b] = heap[b] /\ b # a
      /\ heap' = [b \in DOMAIN heap' |-> heap'[b]]
  <2>1. \A b \in DOMAIN heap : b # a
    OBVIOUS
  <2> QED BY <1>1, <2>1 DEF With
<1>4. heap' \in [DOMAIN heap' -> [display : Ports, dead : BOOLEAN]]
  <2>1. Target(arg[t]) \in Ports
    BY DisplaysAssumption DEF Target
  <2>2. heap'[a] \in [display : Ports, dead : BOOLEAN]
    BY <1>3, <2>1
  <2>3. \A b \in DOMAIN heap : heap'[b] \in [display : Ports, dead : BOOLEAN]
    BY <1>3 DEF TypeOK
  <2> QED BY <1>3, <2>2, <2>3
<1>5. /\ pc' \in [Threads -> {"idle", "kill", "create", "insert", "reject", "close"}]
      /\ obj' \in [Threads -> Addresses \cup {NoAddress}]
      /\ \A u \in Threads : u # t => pc'[u] = pc[u] /\ obj'[u] = obj[u]
      /\ pc'[t] = "insert" /\ obj'[t] = a /\ obj[t] = NoAddress
  BY <1>1, <1>2 DEF Goes, TypeOK, HeapInv
<1>6. \A i, b : Knows(i, b)' <=> Knows(i, b)
  BY <1>2 DEF Knows, mapVars
<1>7. \A u \in Threads : obj[u] # a
  BY DisplaysAssumption DEF HeapInv
<1>8. TypeOK' /\ MapsAgree'
  BY <1>2, <1>3, <1>4, <1>5 DEF TypeOK, MapsAgree, mapVars
<1>9. HeapInv'
  <2>1. ASSUME NEW b \in DOMAIN heap PROVE Referenced(b, owned, obj')
    <3>1. Referenced(b, owned, obj) /\ b # NoAddress
      BY Parts DEF HeapInv
    <3> QED BY <1>5, <3>1 DEF Referenced
  <2>2. Referenced(a, owned, obj')
    BY <1>5 DEF Referenced
  <2> QED BY <1>2, <1>3, <1>5, <2>1, <2>2 DEF HeapInv
<1>10. ValidInv'
  BY <1>3, <1>6 DEF ValidInv, Target
<1>11. NewInv'
  <2>1. heap'[a].display = Target(arg[t])
    BY <1>3
  <2>2. \A i \in Ids : ~Knows(i, a)
    BY DEF ValidInv
  <2>3. \A u \in Threads : pc[u] \in {"insert", "reject"} =>
          obj[u] \in DOMAIN heap /\ obj[u] # NoAddress
    BY Parts DEF HeapInv
  <2> QED BY <1>2, <1>3, <1>5, <1>6, <1>7, <2>1, <2>2, <2>3 DEF NewInv, Target
<1>12. KnownInv'
  <2>1. ASSUME NEW b \in Alive', b # a
        PROVE  Handled(b)' \/ \E i \in Ids : Knows(i, b)'
    <3>1. b \in Alive /\ b # NoAddress
      BY <1>3, <2>1, Parts DEF Alive
    <3> QED BY <1>5, <1>6, <3>1 DEF KnownInv, Handled
  <2>2. Handled(a)'
    BY <1>5 DEF Handled
  <2> QED BY <2>1, <2>2 DEF KnownInv
<1> QED BY <1>8, <1>9, <1>10, <1>11, <1>12
(* tryInsert: the object is known to the map from now on. *)
LEMMA InsertStep ==
  ASSUME IInv, NEW t \in Threads, InsertDisplay(t)
  PROVE  IInv'
<1> USE DEF IInv
<1> DEFINE a == obj[t]
           id == arg[t]
<1>1. /\ pc[t] = "insert" /\ UNCHANGED <<heap, arg>>
      /\ a \in DOMAIN heap /\ a \in Addresses /\ a # NoAddress /\ id \in Ids
      /\ \A u \in Threads : pc[u] \notin {"idle", "create"} => obj[u] \in DOMAIN heap
  <2>1. pc[t] = "insert" /\ UNCHANGED <<heap, arg>>
    BY DEF InsertDisplay
  <2> QED BY <2>1, Parts DEF HeapInv, TypeOK
<1>2. CASE Goes(t, "reject", a) /\ UNCHANGED <<owned, mapVars>>
  <2>1. /\ pc' \in [Threads -> {"idle", "kill", "create", "insert", "reject", "close"}]
        /\ obj' = obj
        /\ \A u \in Threads : u # t => pc'[u] = pc[u]
        /\ pc'[t] = "reject"
    BY <1>2 DEF Goes, TypeOK
  <2>2. \A i, b : Knows(i, b)' <=> Knows(i, b)
    BY <1>2 DEF Knows, mapVars
  <2>3. TypeOK' /\ MapsAgree'
    BY <1>1, <1>2, <2>1 DEF TypeOK, MapsAgree, mapVars
  <2>4. HeapInv'
    BY <1>1, <1>2, <2>1 DEF HeapInv, Referenced
  <2>5. ValidInv' /\ KnownInv'
    BY <1>1, <2>1, <2>2 DEF ValidInv, KnownInv, Alive, Handled, Target
  <2>6. NewInv'
    BY <1>1, <2>1, <2>2 DEF NewInv, Target
  <2> QED BY <2>3, <2>4, <2>5, <2>6
<1>3. CASE /\ Insertable(id, a)
           /\ idToDisplay' = With(idToDisplay, id, [addr |-> a, valid |-> TRUE])
           /\ displayToId' = With(displayToId, a, id)
           /\ owned' = owned \cup {a}
           /\ Goes(t, "idle", NoAddress)
  <2>1. id \notin DOMAIN idToDisplay /\ a \notin DOMAIN displayToId
    BY <1>3 DEF Insertable
  <2> DEFINE e == [addr |-> a, valid |-> TRUE]
  <2>2. e.addr = a /\ e.valid /\ e \in [addr : Addresses, valid : BOOLEAN]
    BY <1>1
  <2> HIDE DEF e
  <2>3. /\ DOMAIN idToDisplay' = DOMAIN idToDisplay \cup {id}
        /\ idToDisplay'[id] = e
        /\ \A i \in DOMAIN idToDisplay : idToDisplay'[i] = idToDisplay[i] /\ i # id
    <3>1. idToDisplay' = With(idToDisplay, id, e)
      BY <1>3 DEF e
    <3> QED BY <2>1, <3>1 DEF With
  <2>4. /\ DOMAIN displayToId' = DOMAIN displayToId \cup {a}
        /\ displayToId'[a] = id
        /\ \A b \in DOMAIN displayToId : displayToId'[b] = displayToId[b] /\ b # a
    BY <1>3, <2>1 DEF With
  <2>5. /\ pc' \in [Threads -> {"idle", "kill", "create", "insert", "reject", "close"}]
        /\ obj' \in [Threads -> Addresses \cup {NoAddress}]
        /\ \A u \in Threads : u # t => pc'[u] = pc[u] /\ obj'[u] = obj[u]
        /\ pc'[t] = "idle" /\ obj'[t] = NoAddress
    BY <1>3 DEF Goes, TypeOK
  <2> HIDE DEF a, id
  <2>6. \A i, b : Knows(i, b)' <=> Knows(i, b) \/ (i = id /\ b = a)
    BY <2>1, <2>2, <2>3 DEF Knows
  <2>7. TypeOK'
    <3>1. /\ DOMAIN idToDisplay' \subseteq Ids
          /\ \A i \in DOMAIN idToDisplay' :
               idToDisplay'[i] \in [addr : Addresses, valid : BOOLEAN]
      BY <1>1, <2>2, <2>3 DEF TypeOK
    <3>2. /\ DOMAIN displayToId' \subseteq Addresses
          /\ \A b \in DOMAIN displayToId' : displayToId'[b] \in Ids
      BY <1>1, <2>4 DEF TypeOK
    <3>3. owned' \subseteq DOMAIN heap
      BY <1>1, <1>3 DEF TypeOK
    <3> QED BY <1>1, <2>5, <3>1, <3>2, <3>3 DEF TypeOK
  <2>8. MapsAgree'
    <3>1. ASSUME NEW i \in DOMAIN idToDisplay'
          PROVE  /\ idToDisplay'[i].addr \in DOMAIN displayToId'
                 /\ displayToId'[idToDisplay'[i].addr] = i
      <4>1. CASE i = id
        BY <2>2, <2>3, <2>4, <4>1
      <4>2. CASE i # id
        <5>1. i \in DOMAIN idToDisplay /\ idToDisplay'[i] = idToDisplay[i]
          BY <2>3, <3>1, <4>2
        <5>2. /\ idToDisplay[i].addr \in DOMAIN displayToId
              /\ displayToId[idToDisplay[i].addr] = i
          BY <5>1 DEF MapsAgree
        <5> QED BY <2>4, <5>1, <5>2
      <4> QED BY <4>1, <4>2
    <3>2. ASSUME NEW b \in DOMAIN displayToId'
          PROVE  /\ displayToId'[b] \in DOMAIN idToDisplay'
                 /\ idToDisplay'[displayToId'[b]].addr = b
      <4>1. CASE b = a
        BY <2>2, <2>3, <2>4, <4>1
      <4>2. CASE b # a
        <5>1. b \in DOMAIN displayToId /\ displayToId'[b] = displayToId[b]
          BY <2>4, <3>2, <4>2
        <5>2. /\ displayToId[b] \in DOMAIN idToDisplay
              /\ idToDisplay[displayToId[b]].addr = b
          BY <5>1 DEF MapsAgree
        <5> QED BY <2>3, <5>1, <5>2
      <4> QED BY <4>1, <4>2
    <3> QED BY <3>1, <3>2 DEF MapsAgree
  <2>9. HeapInv'
    <3>1. ASSUME NEW b \in DOMAIN heap PROVE Referenced(b, owned', obj')
      <4>1. Referenced(b, owned, obj) /\ b # NoAddress
        BY Parts DEF HeapInv
      <4> QED BY <1>3, <2>5, <4>1 DEF Referenced, a
    <3> QED BY <1>1, <2>5, <3>1 DEF HeapInv
  <2>10. ValidInv'
    <3>1. heap[a].display = Target(id)
      BY <1>1 DEF NewInv, a, id
    <3> QED BY <1>1, <2>6, <3>1 DEF ValidInv, Target
  <2>11. NewInv'
    <3>1. ASSUME NEW u \in Threads, u # t, pc[u] \in {"insert", "reject"}
          PROVE  obj[u] # a /\ obj[u] # NoAddress
      BY <1>1, <3>1, Parts DEF NewInv, a
    <3> QED BY <1>1, <2>5, <2>6, <3>1 DEF NewInv, Target
  <2>12. KnownInv'
    <3>1. ASSUME NEW b \in Alive, Handled(b)
          PROVE  Handled(b)' \/ \E i \in Ids : Knows(i, b)'
      BY <1>1, <2>5, <2>6, <3>1 DEF Handled, a
    <3> QED BY <1>1, <2>6, <3>1 DEF KnownInv, Alive
  <2> QED BY <2>7, <2>8, <2>9, <2>10, <2>11, <2>12
<1> QED BY <1>2, <1>3 DEF InsertDisplay

(* The object that was not inserted goes: no record leads to it. *)
LEMMA RejectStep ==
  ASSUME IInv, NEW t \in Threads, RejectDisplay(t)
  PROVE  IInv'
<1> USE DEF IInv
<1>1. /\ pc[t] = "reject" /\ Goes(t, "idle", NoAddress)
      /\ heap' = Collect(Killed(obj[t]), owned, obj')
      /\ UNCHANGED <<owned, mapVars, arg>>
  BY DEF RejectDisplay
<1>2. obj[t] \in DOMAIN heap /\ obj' = [obj EXCEPT ![t] = NoAddress]
      /\ pc' = [pc EXCEPT ![t] = "idle"]
  BY <1>1 DEF HeapInv, Goes
<1>3. /\ DOMAIN heap' \in SUBSET DOMAIN heap
      /\ heap' \in [DOMAIN heap' -> [display : Ports, dead : BOOLEAN]]
      /\ \A b \in DOMAIN heap' : heap'[b].display = heap[b].display
      /\ \A b \in DOMAIN heap' : ~heap'[b].dead => ~heap[b].dead /\ b # obj[t]
      /\ DOMAIN heap \ {obj[t]} \in SUBSET DOMAIN heap'
      /\ owned \in SUBSET DOMAIN heap'
      /\ \A b \in DOMAIN heap : b \in DOMAIN heap' <=> Referenced(b, owned, obj')
  BY <1>1, <1>2, ShutsDown
<1>4. /\ \A u \in Threads : u # t => obj'[u] = obj[u] /\ pc'[u] = pc[u]
      /\ obj'[t] = NoAddress /\ pc'[t] = "idle"
  BY <1>2 DEF TypeOK
<1>5. \A u \in Threads : u # t /\ pc[u] \notin {"idle", "create"} =>
        obj[u] \in DOMAIN heap /\ obj[u] \in DOMAIN heap' /\ obj[u] # NoAddress
  BY <1>3, <1>4, Parts DEF HeapInv, Referenced
<1>6. \A i, b : Knows(i, b)' <=> Knows(i, b)
  BY <1>1 DEF Knows, mapVars
<1>7. TypeOK' /\ MapsAgree'
  <2>1. /\ pc' \in [Threads -> {"idle", "kill", "create", "insert", "reject", "close"}]
        /\ obj' \in [Threads -> Addresses \cup {NoAddress}]
    BY <1>2 DEF TypeOK
  <2> QED BY <1>1, <1>3, <2>1 DEF TypeOK, MapsAgree, mapVars
<1>8. HeapInv'
  BY <1>1, <1>3, <1>4, <1>5 DEF HeapInv
<1>9. ValidInv'
  <2>1. \A i \in Ids : ~Knows(i, obj[t])
    BY <1>1 DEF NewInv
  <2> QED BY <1>3, <1>6, <2>1 DEF ValidInv, Target
<1>10. NewInv'
  BY <1>1, <1>3, <1>4, <1>5, <1>6 DEF NewInv, Target
<1>11. KnownInv'
  BY <1>3, <1>4, <1>6 DEF KnownInv, Alive, Handled
<1> QED BY <1>7, <1>8, <1>9, <1>10, <1>11

(* A client lets go: the object may live on in a call, or is gone. *)
LEMMA DropStep ==
  ASSUME IInv, DropDisplay
  PROVE  IInv'
<1> USE DEF IInv
<1>1. PICK a \in owned : /\ owned' = owned \ {a}
                         /\ heap' = Collect(heap, owned', obj)
  BY DEF DropDisplay
<1>2. idToDisplay' = Invalidate(idToDisplay, heap') /\ UNCHANGED <<displayToId, threadVars>>
  BY DEF DropDisplay
<1>3. /\ DOMAIN heap' = {b \in DOMAIN heap : Referenced(b, owned', obj)}
      /\ \A b \in DOMAIN heap' : heap'[b] = heap[b]
      /\ heap' = [b \in DOMAIN heap' |-> heap'[b]]
  BY <1>1 DEF Collect, Without, Restrict
<1>4. /\ DOMAIN idToDisplay' = DOMAIN idToDisplay
      /\ \A id \in DOMAIN idToDisplay :
           /\ idToDisplay'[id] \in Entry
           /\ idToDisplay'[id].addr = idToDisplay[id].addr
           /\ idToDisplay'[id].valid <=>
                idToDisplay[id].valid /\ idToDisplay[id].addr \in DOMAIN heap'
  BY <1>2, Parts, InvalidateMap
<1>5. \A id, b : Knows(id, b)' <=> Knows(id, b) /\ b \in DOMAIN heap'
  BY <1>4 DEF Knows
<1>6. \A u \in Threads : pc[u] \notin {"idle", "create"} => obj[u] \in DOMAIN heap'
  BY <1>3 DEF HeapInv, Referenced
<1>7. TypeOK'
  <2>1. heap' \in [DOMAIN heap' -> [display : Ports, dead : BOOLEAN]]
    <3>1. \A b \in DOMAIN heap' : heap'[b] \in [display : Ports, dead : BOOLEAN]
      BY <1>3 DEF TypeOK
    <3> QED BY <1>3, <3>1
  <2>2. owned' \subseteq DOMAIN heap'
    BY <1>1, <1>3 DEF TypeOK, Referenced
  <2> QED BY <1>2, <1>3, <1>4, <2>1, <2>2 DEF TypeOK, Entry, threadVars
<1>8. MapsAgree'
  BY <1>2, <1>4 DEF MapsAgree
<1>9. HeapInv'
  BY <1>2, <1>3, <1>6 DEF HeapInv, threadVars
<1>10. ValidInv' /\ KnownInv'
  BY <1>2, <1>3, <1>5 DEF ValidInv, KnownInv, Alive, Handled, Target, threadVars
<1>11. NewInv'
  BY <1>2, <1>3, <1>5, <1>6 DEF NewInv, Target, threadVars
<1> QED BY <1>7, <1>8, <1>9, <1>10, <1>11

-----------------------------------------------------------------------------
(* The theorems.                                                           *)

(* The inductive invariant of the enumerator's displays. *)
LEMMA InvariantHolds == Spec => []IInv
<1>1. Init => IInv
  <2> SUFFICES ASSUME Init PROVE IInv
    OBVIOUS
  <2>1. /\ DOMAIN heap = {} /\ DOMAIN idToDisplay = {} /\ DOMAIN displayToId = {}
        /\ heap \in [DOMAIN heap -> [display : Ports, dead : BOOLEAN]]
    BY DEF Init, Empty
  <2>2. TypeOK
    <3>1. MainPort \in Ids
      BY DisplaysAssumption
    <3> QED BY <2>1, <3>1 DEF Init, TypeOK
  <2> QED BY <2>1, <2>2 DEF Init, IInv, MapsAgree, HeapInv, ValidInv, NewInv, KnownInv,
                            Knows, Alive
<1>2. IInv /\ [Next]_vars => IInv'
  <2> SUFFICES ASSUME IInv, [Next]_vars PROVE IInv'
    OBVIOUS
  <2>1. CASE UNCHANGED vars
    BY <2>1 DEF vars, mapVars, threadVars, IInv, TypeOK, MapsAgree, HeapInv, ValidInv,
                NewInv, KnownInv, Knows, Alive, Handled, Referenced, Target
  <2>2. ASSUME NEW t \in Threads, OpenDisplay(t) \/ CloseDisplay(t) \/ Continues(t)
        PROVE  IInv'
    <3>1. CASE OpenDisplay(t) \/ CloseDisplay(t)
      BY <3>1, OpenStep, CloseStep
    <3>2. CASE CreateDisplay(t) \/ InsertDisplay(t) \/ RejectDisplay(t)
      BY <3>2, CreateStep, InsertStep, RejectStep
    <3>3. CASE KillPrevious(t) \/ CloseShutsDown(t)
      BY <3>3, ShutDownStep DEF KillPrevious, CloseShutsDown, ShutDown
    <3> QED BY <2>2, <3>1, <3>2, <3>3 DEF Continues
  <2> QED BY <2>1, <2>2, DropStep DEF Next
<1> QED BY <1>1, <1>2, PTL DEF Spec

(* A display that can draw is never forgotten, however calls, deaths of    *)
(* clients and reuse of addresses interleave.                              *)
THEOREM DisplaysRemembered == Spec => []NoneForgotten
<1>1. IInv => NoneForgotten
  <2> SUFFICES ASSUME IInv, NEW a \in Alive, NEW id \in Ids, Knows(id, a)
               PROVE  idToDisplay[id] = [addr |-> a, valid |-> TRUE] /\ id \in DOMAIN idToDisplay
    BY DEF IInv, KnownInv, NoneForgotten
  <2>1. id \in DOMAIN idToDisplay /\ idToDisplay[id] \in Entry
        /\ idToDisplay[id].addr = a /\ idToDisplay[id].valid
    BY Parts DEF Knows
  <2>2. idToDisplay[id].valid = TRUE
    BY <2>1 DEF Entry
  <2> QED BY <2>1, <2>2 DEF Entry
<1> QED BY <1>1, InvariantHolds, PTL

(* The two maps of the enumerator stay inverse to each other. *)
THEOREM MapsStayInverse == Spec => []MapsAgree
<1>1. IInv => MapsAgree
  BY DEF IInv
<1> QED BY <1>1, InvariantHolds, PTL

(* EvsEnumerator.cpp:448: as long as clients name ports, no two of them    *)
(* can draw on a display, but while a call is about to end one of them.    *)
THEOREM AccessIsExclusive ==
  ASSUME Ids = Ports
  PROVE  Spec => []ExclusiveAccess
<1>1. IInv => ExclusiveAccess
  <2> SUFFICES ASSUME IInv, NEW a \in owned \cap Alive, NEW b \in owned \cap Alive,
                      heap[a].display = heap[b].display, ~Handled(a), ~Handled(b)
               PROVE  a = b
    BY DEF ExclusiveAccess
  <2>1. a \in Addresses /\ b \in Addresses
    BY DEF IInv, TypeOK, Alive
  <2>2. PICK i \in Ids : Knows(i, a)
    BY DEF IInv, KnownInv
  <2>3. PICK j \in Ids : Knows(j, b)
    BY DEF IInv, KnownInv
  <2>4. heap[a].display = i /\ heap[b].display = j
    BY <2>1, <2>2, <2>3 DEF IInv, ValidInv, Target
  <2> QED BY <2>2, <2>3, <2>4 DEF Knows
<1> QED BY <1>1, InvariantHolds, PTL
===============================================================================
