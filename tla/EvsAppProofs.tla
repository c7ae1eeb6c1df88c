----------------------------- MODULE EvsAppProofs -----------------------------
(***************************************************************************)
(* Proofs about the EVS application: StreamHandler, for every set of       *)
(* buffers and every fault, and EvsStateControl, for every assignment of   *)
(* cameras to states and every fault.                                      *)
(***************************************************************************)
EXTENDS StreamHandler, EvsStateControl, TLAPS


(* The frames on a queue of calls, each of them once. *)
On(q)      == {q[i] : i \in DOMAIN q} \ {Stopped}
OnceEach(q) == \A i, j \in DOMAIN q : q[i] = q[j] /\ q[i] # Stopped => i = j

-----------------------------------------------------------------------------
(* Queues of calls.                                                        *)

(* A call is added. *)
LEMMA Sending ==
  ASSUME NEW q \in Seq(Handles \cup {Stopped}), NEW x \in Handles \cup {Stopped},
         OnceEach(q), x \notin On(q)
  PROVE  /\ Append(q, x) \in Seq(Handles \cup {Stopped})
         /\ On(Append(q, x)) = On(q) \cup ({x} \ {Stopped})
         /\ OnceEach(Append(q, x))
<1> DEFINE a == Append(q, x)
<1>1. /\ a \in Seq(Handles \cup {Stopped})
      /\ Len(q) \in Nat /\ DOMAIN q = 1 .. Len(q) /\ DOMAIN a = 1 .. Len(q) + 1
      /\ \A i \in DOMAIN q : a[i] = q[i]
      /\ a[Len(q) + 1] = x
  OBVIOUS
<1>2. DOMAIN a = DOMAIN q \cup {Len(q) + 1}
  BY <1>1
<1> HIDE DEF a
<1>3. On(a) = On(q) \cup ({x} \ {Stopped})
  BY <1>1, <1>2 DEF On
<1>4. OnceEach(a)
  BY <1>1, <1>2 DEF OnceEach, On
<1> QED BY <1>1, <1>3, <1>4 DEF a

(* The first call is executed. *)
LEMMA Executing ==
  ASSUME NEW q \in Seq(Handles \cup {Stopped}), q # <<>>, OnceEach(q)
  PROVE  /\ Head(q) \in Handles \cup {Stopped}
         /\ Tail(q) \in Seq(Handles \cup {Stopped})
         /\ On(q) = On(Tail(q)) \cup ({Head(q)} \ {Stopped})
         /\ Head(q) # Stopped => Head(q) \notin On(Tail(q))
         /\ OnceEach(Tail(q))
<1> DEFINE t == Tail(q)
<1>1. /\ Head(q) \in Handles \cup {Stopped} /\ t \in Seq(Handles \cup {Stopped})
      /\ Len(q) \in Nat \ {0} /\ DOMAIN q = 1 .. Len(q) /\ DOMAIN t = 1 .. Len(q) - 1
      /\ \A i \in DOMAIN t : t[i] = q[i + 1]
      /\ q[1] = Head(q)
  OBVIOUS
<1>2. /\ \A i \in DOMAIN t : i + 1 \in DOMAIN q /\ i + 1 # 1
      /\ \A j \in DOMAIN q : j = 1 \/ (j - 1 \in DOMAIN t /\ t[j - 1] = q[j])
      /\ 1 \in DOMAIN q
  BY <1>1
<1> HIDE DEF t
<1>3. On(q) = On(t) \cup ({Head(q)} \ {Stopped})
  BY <1>1, <1>2 DEF On
<1>4. Head(q) # Stopped => Head(q) \notin On(t)
  BY <1>1, <1>2 DEF On, OnceEach
<1>5. OnceEach(t)
  <2> SUFFICES ASSUME NEW i \in DOMAIN t, NEW j \in DOMAIN t, t[i] = t[j], t[i] # Stopped
               PROVE  i = j
    BY DEF OnceEach
  <2>1. i + 1 = j + 1
    BY <1>1, <1>2 DEF OnceEach
  <2> QED BY <2>1, <1>1
<1> QED BY <1>1, <1>3, <1>4, <1>5 DEF t

(* Conserved in these terms, before and after a step. *)
Apart == ready # None /\ heldIdx # None =>
           ready # heldIdx /\ slot[ready].frame # slot[heldIdx].frame

LEMMA Places ==
  /\ Conserved <=> /\ lent = On(wire) \cup Kept /\ On(wire) \cap Kept = {}
                   /\ OnceEach(wire) /\ Apart
  /\ Conserved' <=> /\ lent' = On(wire') \cup Kept' /\ On(wire') \cap Kept' = {}
                    /\ OnceEach(wire') /\ Apart'
BY DEF Conserved, OnWire, On, OnceEach, Apart

-----------------------------------------------------------------------------
(* The steps.                                                              *)

(* A step that touches neither the queue nor the handler's slots nor what  *)
(* the client has, keeps every frame where it is. *)
LEMMA SamePlaces ==
  Conserved /\ UNCHANGED <<lent, wire, slot, ready, heldIdx>> => Conserved'
BY Places DEF Kept, Apart

(* The steps of the camera keep the invariant. *)
LEMMA CameraSteps ==
  ASSUME IInv, CameraWrites \/ CameraDelivers \/ CameraStolen \/ CameraLost \/ CameraDies
  PROVE  IInv'
<1> USE DEF None, Slots, Frame
<1>1. CASE CameraWrites
  <2>1. UNCHANGED <<lent, wire, slot, ready, heldIdx>>
    BY <1>1 DEF CameraWrites, BeginWrite, handlerVars
  <2> QED BY <1>1, <2>1, SamePlaces
          DEF IInv, TypeOK, Disjoint, ReadsItsOwn, Reading, Asks, CameraWrites,
              BeginWrite, handlerVars, ownerVars
<1>2. CASE CameraDelivers
  <2>1. PICK f \in writing : wire' = Append(wire, f)
    BY <1>2 DEF CameraDelivers
  <2>2. writing = {f} /\ f \in Handles /\ f # Stopped /\ f \notin lent
    BY <2>1, StreamAssumption DEF IInv, TypeOK, Disjoint
  <2>3. f \notin On(wire) /\ OnceEach(wire) /\ lent = On(wire) \cup Kept
        /\ On(wire) \cap Kept = {} /\ Apart
    BY <2>2, Places DEF IInv
  <2>4. wire' \in Seq(Handles \cup {Stopped}) /\ On(wire') = On(wire) \cup {f}
        /\ OnceEach(wire')
    BY <2>1, <2>2, <2>3, Sending DEF IInv, TypeOK
  <2>5. lent' = lent \cup {f} /\ Kept' = Kept /\ Apart'
    BY <1>2, <2>2, <2>3 DEF CameraDelivers, Lend, handlerVars, Kept, Apart
  <2>6. Conserved'
    BY <2>2, <2>3, <2>4, <2>5, Places
  <2>7. TypeOK' /\ Disjoint' /\ ReadsItsOwn' /\ Asks'
    BY <1>2, <2>2, <2>4, <2>5
    DEF IInv, TypeOK, Disjoint, ReadsItsOwn, Reading, Asks, CameraDelivers, Lend,
        handlerVars, ownerVars
  <2> QED BY <2>6, <2>7 DEF IInv
<1>3. CASE CameraStolen
  <2>1. OnceEach(wire) /\ Stopped \notin On(wire)
    BY Places DEF IInv, On
  <2>2. wire' \in Seq(Handles \cup {Stopped}) /\ On(wire') = On(wire)
        /\ OnceEach(wire')
    BY <1>3, <2>1, Sending DEF IInv, TypeOK, CameraStolen
  <2>3. UNCHANGED <<idle, writing, lent, lost, died, handlerVars, ownerVars>>
        /\ streaming' = FALSE /\ writing = {}
    BY <1>3 DEF CameraStolen, End
  <2>4. Conserved'
    BY <2>2, <2>3, Places DEF IInv, handlerVars, Kept, Apart
  <2>5. TypeOK' /\ Disjoint'
    BY <2>2, <2>3, ZenonT(40) DEF IInv, TypeOK, Disjoint, handlerVars, ownerVars
  <2>6. ReadsItsOwn' /\ Asks'
    BY <2>3 DEF IInv, ReadsItsOwn, Reading, Asks, handlerVars, ownerVars
  <2> QED BY <2>4, <2>5, <2>6 DEF IInv
<1>4. CASE CameraLost
  <2>1. UNCHANGED <<lent, wire, slot, ready, heldIdx>>
    BY <1>4 DEF CameraLost, Lose, handlerVars
  <2> QED BY <1>4, <2>1, SamePlaces
          DEF IInv, TypeOK, Disjoint, ReadsItsOwn, Reading, Asks, CameraLost, Lose,
              handlerVars, ownerVars
<1>5. CASE CameraDies
  <2>1. UNCHANGED <<lent, wire, slot, ready, heldIdx>>
    BY <1>5 DEF CameraDies, handlerVars
  <2> QED BY <1>5, <2>1, SamePlaces, ZenonT(40)
          DEF IInv, TypeOK, Disjoint, ReadsItsOwn, Reading, Asks, CameraDies,
              handlerVars, ownerVars
<1> QED BY <1>1, <1>2, <1>3, <1>4, <1>5

(* The calls that the binder thread executes keep the invariant: a frame   *)
(* goes to the slot the renderer does not hold, and one that was ready     *)
(* there goes back. *)
LEMMA BinderSteps ==
  ASSUME IInv, BinderThread
  PROVE  IInv'
<1> USE DEF None, Slots, Frame
<1>1. CASE DeliverFrame
  <2> DEFINE f == Head(wire)
  <2>1. wire # <<>> /\ f # Stopped /\ wire' = Tail(wire)
    BY <1>1 DEF DeliverFrame
  <2>2. OnceEach(wire) /\ lent = On(wire) \cup Kept /\ On(wire) \cap Kept = {} /\ Apart
    BY Places DEF IInv
  <2>3. /\ f \in Handles /\ wire' \in Seq(Handles \cup {Stopped})
        /\ On(wire) = On(wire') \cup {f} /\ f \notin On(wire') /\ OnceEach(wire')
    BY <2>1, <2>2, Executing DEF IInv, TypeOK
  <2> HIDE DEF f
  <2>4. PICK valid \in BOOLEAN : slot' = [slot EXCEPT ![OnDeck] = [frame |-> f, valid |-> valid]]
    BY <1>1 DEF DeliverFrame, f
  <2>5. /\ OnDeck \in Slots /\ OnDeck # heldIdx /\ (ready # None => OnDeck = ready)
        /\ ready' = OnDeck /\ heldIdx' = heldIdx
    BY <1>1, <2>2 DEF IInv, TypeOK, OnDeck, OtherSlot, Apart, DeliverFrame
  <2>6. /\ slot' \in [Slots -> Frame] /\ slot'[ready'].frame = f
        /\ heldIdx # None => slot'[heldIdx] = slot[heldIdx]
    BY <2>3, <2>4, <2>5 DEF IInv, TypeOK
  <2> DEFINE back == IF ready # None THEN {slot[ready].frame} ELSE {}
             held == IF heldIdx # None THEN {slot[heldIdx].frame} ELSE {}
  <2>7. Kept = back \cup held /\ back \cap held = {}
    <3>1. Kept = back \cup held
      BY DEF Kept
    <3>2. back \cap held = {}
      BY <2>2 DEF Apart
    <3> QED BY <3>1, <3>2
  <2>8. Kept' = {f} \cup held
    <3>1. ready' # None /\ heldIdx' = heldIdx
      BY <2>5
    <3>2. Kept' = {slot'[ready'].frame} \cup
                  (IF heldIdx # None THEN {slot'[heldIdx].frame} ELSE {})
      BY <3>1 DEF Kept
    <3> QED BY <2>6, <3>2
  <2>9. /\ lent' = lent \ back
        /\ back # {} => idle' = IF lost THEN idle ELSE idle \cup back
        /\ back = {} => idle' = idle
        /\ UNCHANGED <<writing, streaming, lost, died, running, ownerVars>>
    BY <1>1 DEF DeliverFrame, GiveBack, feVars, None
  <2>10. back \subseteq lent /\ held \subseteq lent /\ f \in lent
         /\ f \notin back /\ f \notin held
    BY <2>2, <2>3, <2>7
  <2>11. Apart'
    BY <2>5, <2>6, <2>10 DEF Apart
  <2> HIDE DEF back, held
  <2>12. lent' = On(wire') \cup Kept' /\ On(wire') \cap Kept' = {}
    BY <2>2, <2>3, <2>7, <2>8, <2>9, <2>10
  <2>13. Conserved'
    BY <2>3, <2>11, <2>12, Places
  <2>14. TypeOK' /\ Disjoint'
    BY <2>3, <2>5, <2>6, <2>9, <2>10 DEF IInv, TypeOK, Disjoint, ownerVars
  <2>15. ReadsItsOwn'
    <3> SUFFICES ASSUME Reading' PROVE (heldIdx # None /\ slot[heldIdx] = image
                                         /\ image.frame \in lent)'
      BY DEF ReadsItsOwn
    <3>1. Reading /\ image' = image
      BY <2>9 DEF Reading, ownerVars
    <3>2. heldIdx # None /\ slot[heldIdx] = image /\ image.frame \in lent
      BY <3>1 DEF IInv, ReadsItsOwn
    <3>3. image.frame \in held
      BY <3>2 DEF held
    <3> QED BY <2>5, <2>6, <2>7, <2>9, <3>1, <3>2, <3>3
  <2>16. Asks'
    BY <2>5, <2>9 DEF IInv, Asks, ownerVars
  <2> QED BY <2>13, <2>14, <2>15, <2>16 DEF IInv
<1>2. CASE NotifyStopped
  <2>1. OnceEach(wire) /\ wire # <<>> /\ Head(wire) = Stopped /\ wire' = Tail(wire)
    BY <1>2, Places DEF IInv, NotifyStopped
  <2>2. wire' \in Seq(Handles \cup {Stopped}) /\ On(wire') = On(wire)
        /\ OnceEach(wire')
    <3>1. On(wire) = On(wire') \cup ({Stopped} \ {Stopped})
          /\ wire' \in Seq(Handles \cup {Stopped}) /\ OnceEach(wire')
      BY <2>1, Executing DEF IInv, TypeOK
    <3> QED BY <3>1
  <2>3. UNCHANGED <<cameraVars, slot, ready, heldIdx, ownerVars>> /\ running' = FALSE
    BY <1>2 DEF NotifyStopped, NotRunning
  <2>4. Conserved'
    BY <2>2, <2>3, Places DEF IInv, cameraVars, feVars, Kept, Apart
  <2>5. TypeOK' /\ Disjoint'
    BY <2>2, <2>3, ZenonT(40) DEF IInv, TypeOK, Disjoint, cameraVars, feVars, ownerVars
  <2>6. ReadsItsOwn' /\ Asks'
    BY <2>3 DEF IInv, ReadsItsOwn, Reading, Asks, cameraVars, feVars, ownerVars
  <2> QED BY <2>4, <2>5, <2>6 DEF IInv
<1> QED BY <1>1, <1>2 DEF BinderThread

(* The steps of the renderer keep the invariant. *)
LEMMA RendererSteps ==
  ASSUME IInv, Construct \/ StartStream \/ Drawing \/ Deactivate \/ Leaving
  PROVE  IInv'
<1> USE DEF None, Slots, Frame, Goes
<1>1. CASE Construct
  <2>1. UNCHANGED <<writing, lent, lost, streaming, died, wire, handlerVars, image, owner>>
        /\ pc = "new" /\ pc' = "start"
        /\ (idle' = idle \/ idle' \in SUBSET (Handles \ (writing \cup lent)))
    BY <1>1 DEF Construct, Resize, feVars
  <2>2. Conserved'
    BY <2>1, SamePlaces DEF IInv, handlerVars
  <2> QED BY <2>1, <2>2
          DEF IInv, TypeOK, Disjoint, ReadsItsOwn, Reading, Asks, handlerVars
<1>2. CASE StartStream
  <2>1. /\ UNCHANGED <<writing, lent, lost, died, wire, slot, ready, heldIdx, image, owner>>
        /\ pc = "start" /\ pc' \in {"idle", "gone"} /\ running' \in BOOLEAN
        /\ streaming' \in BOOLEAN
        /\ \/ idle' = idle
           \/ lent = {} /\ \E h \in Handles : idle' = {h}
    BY <1>2 DEF StartStream, Start, feVars, IInv, TypeOK
  <2>2. /\ writing = {} \/ idle' = idle
        /\ writing = {} \/ streaming' = streaming
    BY <1>2 DEF StartStream, Start, feVars, IInv, Disjoint
  <2>3. Conserved'
    BY <2>1, SamePlaces DEF IInv
  <2>4. TypeOK' /\ Disjoint'
    BY <2>1, <2>2 DEF IInv, TypeOK, Disjoint
  <2>5. ReadsItsOwn' /\ Asks'
    BY <2>1 DEF IInv, ReadsItsOwn, Reading, Asks
  <2> QED BY <2>3, <2>4, <2>5 DEF IInv
<1>3. CASE NewFrameAvailable
  <2>1. UNCHANGED <<cameraVars, wire, handlerVars, image, owner>>
    BY <1>3 DEF NewFrameAvailable
  <2>2. Conserved'
    BY <2>1, SamePlaces DEF IInv, cameraVars, feVars, handlerVars
  <2> QED BY <1>3, <2>1, <2>2
          DEF IInv, TypeOK, Disjoint, ReadsItsOwn, Reading, Asks, NewFrameAvailable,
              cameraVars, feVars, handlerVars
<1>4. CASE GetNewFrame
  <2>1. /\ pc = "take" /\ ready # None
        /\ UNCHANGED <<cameraVars, wire, running, slot>>
    BY <1>4 DEF GetNewFrame, IInv, Asks
  <2>2. /\ heldIdx # None => UNCHANGED <<ready, heldIdx>>
        /\ heldIdx = None => heldIdx' = ready /\ ready' = None
        /\ image' = slot[heldIdx']
    BY <1>4, <2>1 DEF GetNewFrame, NotReady
  <2>3. /\ heldIdx' \in Slots /\ ready' \in Slots \cup {None} /\ image' \in Frame
        /\ slot'[heldIdx'] = image' /\ heldIdx' # None
    BY <2>1, <2>2 DEF IInv, TypeOK
  <2>4. pc' \in {"idle", "done", "dropped"} /\ owner' = owner
        /\ (owner = "texture" => pc' = "idle")
        /\ (owner = "copy" => pc' # "idle")
        /\ (pc' = "done" => image'.valid)
    BY <1>4, <2>3 DEF GetNewFrame, IInv, TypeOK
  <2>5. Kept' = Kept /\ (Apart => Apart')
    BY <2>1, <2>2 DEF Kept, Apart
  <2>6. Conserved'
    BY <2>1, <2>5, Places DEF IInv, cameraVars, feVars
  <2>7. image'.frame \in lent'
    <3>1. image'.frame \in Kept'
      BY <2>3 DEF Kept
    <3> QED BY <2>6, <3>1, Places
  <2>8. TypeOK' /\ Disjoint'
    BY <2>1, <2>3, <2>4 DEF IInv, TypeOK, Disjoint, cameraVars, feVars
  <2>9. ReadsItsOwn' /\ Asks'
    BY <2>1, <2>3, <2>4, <2>7 DEF ReadsItsOwn, Reading, Asks, IInv, TypeOK
  <2> QED BY <2>6, <2>8, <2>9 DEF IInv
<1>5. CASE DoneWithFrame
  <2>1. /\ heldIdx # None /\ slot[heldIdx] = image /\ image.frame \in lent
        /\ pc = "done" /\ (owner = "texture" => ready # None)
    BY <1>5 DEF DoneWithFrame, IInv, ReadsItsOwn, Reading, Asks, TypeOK
  <2> DEFINE f == image.frame
  <2>2. /\ lent' = lent \ {f} /\ idle' = (IF lost THEN idle ELSE idle \cup {f})
        /\ UNCHANGED <<writing, streaming, lost, died, wire, running, slot, ready, owner>>
        /\ heldIdx' = None /\ image' = NoImage
        /\ pc' = IF owner = "texture" THEN "take" ELSE "idle"
    BY <1>5, <2>1 DEF DoneWithFrame, GiveBack, NotHeld
  <2>3. /\ OnceEach(wire) /\ lent = On(wire) \cup Kept /\ On(wire) \cap Kept = {}
        /\ Apart
    BY Places DEF IInv
  <2> DEFINE kept == IF ready # None THEN {slot[ready].frame} ELSE {}
  <2>4. Kept = kept \cup {f}
    BY <2>1 DEF Kept
  <2>5. f \notin kept
    BY <2>1, <2>3 DEF Apart
  <2>6. Kept' = kept
    BY <2>2 DEF Kept
  <2>7. f \in Handles
    BY <2>1 DEF IInv, TypeOK
  <2> HIDE DEF kept, f
  <2>8. lent' = On(wire') \cup Kept' /\ On(wire') \cap Kept' = {}
    BY <2>2, <2>3, <2>4, <2>5, <2>6
  <2>9. Apart' /\ OnceEach(wire')
    BY <2>2, <2>3 DEF Apart
  <2>10. Conserved'
    BY <2>8, <2>9, Places
  <2>11. TypeOK' /\ Disjoint'
    BY <2>1, <2>2, <2>7 DEF IInv, TypeOK, Disjoint, NoImage, f
  <2>12. ReadsItsOwn' /\ Asks'
    BY <2>1, <2>2 DEF ReadsItsOwn, Reading, Asks, NoImage
  <2> QED BY <2>10, <2>11, <2>12 DEF IInv
<1>6. CASE Deactivate
  <2>1. UNCHANGED <<cameraVars, wire, handlerVars, image, owner>>
        /\ pc = "idle" /\ pc' \in {"stop", "dropped"}
    BY <1>6 DEF Deactivate
  <2>2. Conserved'
    BY <2>1, SamePlaces DEF IInv, cameraVars, feVars, handlerVars
  <2> QED BY <2>1, <2>2
          DEF IInv, TypeOK, Disjoint, ReadsItsOwn, Reading, Asks,
              cameraVars, feVars, handlerVars
<1>7. CASE AsyncStopStream
  <2>1. /\ UNCHANGED <<idle, writing, lent, lost, died, handlerVars, image, owner>>
        /\ pc' = "close" /\ streaming' \in BOOLEAN
        /\ (writing = {} \/ streaming' = streaming)
        /\ (wire' = wire \/ wire' = Append(wire, Stopped))
    BY <1>7 DEF AsyncStopStream, End, feVars, IInv, TypeOK
  <2>2. OnceEach(wire) /\ Stopped \notin On(wire)
    BY Places DEF IInv, On
  <2>3. wire' \in Seq(Handles \cup {Stopped}) /\ On(wire') = On(wire)
        /\ OnceEach(wire')
    <3>1. CASE wire' = wire
      BY <2>2, <3>1 DEF IInv, TypeOK
    <3>2. CASE wire' = Append(wire, Stopped)
      BY <2>2, <3>2, Sending DEF IInv, TypeOK
    <3> QED BY <2>1, <3>1, <3>2
  <2>4. Conserved'
    BY <2>1, <2>3, Places DEF IInv, handlerVars, Kept, Apart
  <2>5. TypeOK' /\ Disjoint'
    BY <2>1, <2>3 DEF IInv, TypeOK, Disjoint, handlerVars
  <2>6. ReadsItsOwn' /\ Asks'
    BY <2>1 DEF IInv, ReadsItsOwn, Reading, Asks, handlerVars
  <2> QED BY <2>4, <2>5, <2>6 DEF IInv
<1>8. CASE CloseCamera
  <2>1. UNCHANGED <<writing, lent, streaming, died, wire, handlerVars, image, owner>>
        /\ idle' \in {idle, {}} /\ lost' \in BOOLEAN /\ pc' = "dropped"
    BY <1>8 DEF CloseCamera, Lose, feVars, IInv, TypeOK
  <2>2. Conserved'
    BY <2>1, SamePlaces DEF IInv, handlerVars
  <2> QED BY <2>1, <2>2
          DEF IInv, TypeOK, Disjoint, ReadsItsOwn, Reading, Asks, handlerVars
<1>9. CASE Destroy
  <2>1. UNCHANGED <<cameraVars, wire, handlerVars, image, owner>>
        /\ pc' \in {"waits", "gone"}
    BY <1>9 DEF Destroy
  <2>2. Conserved'
    BY <2>1, SamePlaces DEF IInv, cameraVars, feVars, handlerVars
  <2> QED BY <2>1, <2>2
          DEF IInv, TypeOK, Disjoint, ReadsItsOwn, Reading, Asks,
              cameraVars, feVars, handlerVars
<1> QED BY <1>1, <1>2, <1>3, <1>4, <1>5, <1>6, <1>7, <1>8, <1>9 DEF Drawing, Leaving

LEMMA InvariantHolds == Spec => []IInv
<1>1. Init => IInv
  <2> SUFFICES ASSUME Init PROVE IInv
    OBVIOUS
  <2>1. wire = <<>> /\ DOMAIN wire = {} /\ ready = None /\ heldIdx = None
    BY DEF Init
  <2>2. On(wire) = {} /\ OnceEach(wire) /\ Kept = {} /\ Apart
    BY <2>1 DEF On, OnceEach, Kept, Apart
  <2>3. Conserved
    BY <2>2, Places DEF Init, FEInit
  <2>4. TypeOK
    <3>1. wire \in Seq(Handles \cup {Stopped})
      BY <2>1
    <3>2. slot \in [Slots -> Frame] /\ image \in Frame
      BY DEF Init, NoImage, Frame
    <3> QED BY <2>1, <3>1, <3>2 DEF Init, FEInit, TypeOK
  <2>5. Disjoint /\ ReadsItsOwn /\ Asks
    BY DEF Init, FEInit, Disjoint, ReadsItsOwn, Reading, Asks, NoImage
  <2> QED BY <2>3, <2>4, <2>5 DEF IInv
<1>2. IInv /\ [Next]_vars => IInv'
  <2> SUFFICES ASSUME IInv, [Next]_vars PROVE IInv'
    OBVIOUS
  <2>1. CASE UNCHANGED vars
    <3>1. UNCHANGED <<lent, wire, slot, ready, heldIdx>>
      BY <2>1 DEF vars, cameraVars, feVars, handlerVars
    <3> QED BY <2>1, <3>1, SamePlaces
            DEF IInv, TypeOK, Disjoint, ReadsItsOwn, Reading, Asks, vars, cameraVars,
                feVars, handlerVars, ownerVars
  <2> QED BY <2>1, CameraSteps, BinderSteps, RendererSteps DEF Next, Camera
<1> QED BY <1>1, <1>2, PTL DEF Spec

-----------------------------------------------------------------------------
(* The theorems.                                                           *)

(* Every variable keeps its type, whatever the camera does and however the *)
(* threads of the application interleave. *)
THEOREM HandlerTypes == Spec => []TypeOK
<1>1. IInv => TypeOK
  BY DEF IInv
<1> QED BY <1>1, InvariantHolds, PTL

(* No frame is ever lost, kept twice or given back twice by the handler:   *)
(* what the camera has lent is what waits in calls, is ready or is held,   *)
(* for any number of buffers, and whether the camera is stolen, dies,      *)
(* refuses, or sends handles that cannot be duplicated. *)
THEOREM FramesConserved == Spec => []Conserved
<1>1. IInv => Conserved
  BY DEF IInv
<1> QED BY <1>1, InvariantHolds, PTL

(* What a renderer works with stays its own: deliveries, which come on     *)
(* another thread, never take, replace or give back the picture in use. *)
THEOREM PictureInUseKept == Spec => []ReadsItsOwn
<1>1. IInv => ReadsItsOwn
  BY DEF IInv
<1> QED BY <1>1, InvariantHolds, PTL

-----------------------------------------------------------------------------
(* The state control.                                                      *)

(* What is chosen is a state. *)
LEMMA Called ==
  ASSUME ControlTypeOK, Choosing
  PROVE  /\ desiredState \in States /\ Suspending \in BOOLEAN
         /\ GlReady \in BOOLEAN /\ Kind \in {"copy", "gl"}
BY ControlAssumption DEF ControlTypeOK, Choosing, desiredState, StateFor, Suspending,
   GlReady, Kind, States, Powers

(* What is shown are cameras; a state that shows none has none. *)
LEMMA ShownCameras ==
  ASSUME NEW s \in States, NEW r \in {"none", "copy", "gl"}
  PROVE  /\ Shown(s, r) \subseteq Cameras
         /\ Shown(s, r) = {} => Shown(s, "none") = {}
         /\ Shown("OFF", r) = {}
<1>1. /\ Views[s] \in Seq(Cameras) /\ Views["OFF"] = <<>>
  BY ControlAssumption
<1>2. /\ DOMAIN Views[s] = 1 .. Len(Views[s]) /\ Len(Views[s]) \in Nat
      /\ \A i \in DOMAIN Views[s] : Views[s][i] \in Cameras
      /\ DOMAIN Views["OFF"] = {}
  BY <1>1
<1>3. Shown(s, r) \subseteq Cameras /\ Shown("OFF", r) = {}
  BY <1>2 DEF Shown
<1>4. ASSUME Shown(s, r) = {} PROVE Shown(s, "none") = {}
  <2>1. 1 \notin DOMAIN Views[s]
    BY <1>4 DEF Shown
  <2>2. DOMAIN Views[s] = {}
    BY <1>2, <2>1
  <2> QED BY <2>2 DEF Shown
<1> QED BY <1>3, <1>4

-----------------------------------------------------------------------------
(* Every variable keeps to its values, with any faults.                    *)
THEOREM ControlTypes == ControlSpec => []ControlTypeOK
<1>1. ControlInit => ControlTypeOK
  BY DEF ControlInit, ControlTypeOK, States, Powers
<1>2. ControlTypeOK /\ [ControlNext]_controlVars => ControlTypeOK'
  <2> SUFFICES ASSUME ControlTypeOK, [ControlNext]_controlVars PROVE ControlTypeOK'
    OBVIOUS
  <2> USE DEF ControlTypeOK, outsideVars, loopVars, readVars, showVars
  <2>1. CASE VehicleChanges
    BY <2>1 DEF VehicleChanges, Vehicle
  <2>2. CASE GraphicsStart
    BY <2>2 DEF GraphicsStart
  <2>3. CASE DisplayTaken
    BY <2>3 DEF DisplayTaken
  <2>4. CASE OnPropertyEvent \/ WaitTimesOut
    <3>1. listener' \in {"waits", "posts", "notifies"} /\ UNCHANGED <<queue, step>>
      BY <2>4 DEF OnPropertyEvent, WaitTimesOut
    <3> QED BY <2>4, <3>1 DEF OnPropertyEvent, WaitTimesOut
  <2>5. CASE Listener
    <3>1. CASE PostCommand
      BY <3>1 DEF PostCommand
    <3>2. CASE NotifyLoop
      BY <3>2 DEF NotifyLoop, Awake
    <3> QED BY <2>5, <3>1, <3>2 DEF Listener
  <2>6. CASE UpdateLoop
    <3>1. CASE ProcessCommands
      BY <3>1 DEF ProcessCommands
    <3>2. CASE ReadPower \/ PowerFails
      BY <3>2, ZenonT(40) DEF ReadPower, PowerFails, Vehicle
    <3>3. CASE ReadGear
      BY <3>3, ControlAssumption DEF ReadGear, Vehicle, Unread
    <3>4. CASE ReadSignal
      <4>1. signal' \in Signals \cup {"NONE"} /\ signal' # Unread /\ signalRead' \in BOOLEAN
        BY <3>4, ControlAssumption DEF ReadSignal, SignalMissing, Vehicle, Unread
      <4> QED BY <3>4, <4>1 DEF ReadSignal
    <3>5. CASE ChooseFromNothing
      BY <3>5 DEF ChooseFromNothing
    <3>6. CASE KeepState
      BY <3>6, Called DEF KeepState, Chosen
    <3>7. CASE TurnOff
      BY <3>7, Called DEF TurnOff, Chosen, LeftUsed, Orphaned
    <3>8. CASE SwitchTo \/ SwitchFails
      <4>1. Wanted \subseteq Cameras
        BY <3>8, Called, ShownCameras DEF SwitchTo, SwitchFails, Wanted
      <4> QED BY <3>8, <4>1, Called, ZenonT(40)
              DEF SwitchTo, SwitchFails, Replace, Chosen, LeftUsed, Orphaned
    <3>9. CASE DrawFrame \/ NoBuffer \/ Sleep
      BY <3>9, ZenonT(40) DEF DrawFrame, NoBuffer, Sleep
    <3>10. CASE Leave
      BY <3>10 DEF Leave, Orphaned
    <3> QED BY <2>6, <3>1, <3>2, <3>3, <3>4, <3>5, <3>6, <3>7, <3>8, <3>9, <3>10
            DEF UpdateLoop, Choose
  <2>7. CASE SpuriousWakeup
    BY <2>7 DEF SpuriousWakeup
  <2>8. CASE UNCHANGED controlVars
    BY <2>8 DEF controlVars
  <2> QED BY <2>1, <2>2, <2>3, <2>4, <2>5, <2>6, <2>7, <2>8 DEF ControlNext
<1> QED BY <1>1, <1>2, PTL DEF ControlSpec

(* What is shown belongs to the state: while the loop goes on, the cameras *)
(* in use are those of the state that was chosen last, whatever renderer   *)
(* could be had when it was, and without one the display is dark.          *)
THEOREM StateIsShown == ControlSpec => []ShowsItsState
<1>1. ControlInit => ShowsItsState
  <2>1. Shown("OFF", "none") = {}
    BY ShownCameras DEF States
  <2> QED BY <2>1 DEF ControlInit, ShowsItsState, Lit
<1>2. ControlTypeOK /\ ShowsItsState /\ [ControlNext]_controlVars => ShowsItsState'
  <2> SUFFICES ASSUME ControlTypeOK, ShowsItsState, [ControlNext]_controlVars PROVE ShowsItsState'
    OBVIOUS
  <2> USE DEF outsideVars, loopVars, readVars, showVars
  <2>1. CASE UNCHANGED <<step, showVars>>
    BY <2>1 DEF ShowsItsState, Lit, Over, Shown
  <2>2. CASE DisplayTaken
    BY <2>2 DEF DisplayTaken, ShowsItsState, Lit, Over, Shown
  <2>3. CASE UNCHANGED showVars /\ step \notin {"leave", "ended", "crashed"}
    BY <2>3 DEF ShowsItsState, Lit, Over, Shown
  <2>4. CASE step' \in {"leave", "ended", "crashed"}
    BY <2>4 DEF ShowsItsState, Over
  <2>5. CASE KeepState
    BY <2>5 DEF KeepState, Choosing, Chosen, ShowsItsState, Lit, Over, Shown
  <2>6. CASE TurnOff
    <3>1. Shown(desiredState, "none") = {}
      BY <2>6, Called, ShownCameras DEF TurnOff, Wanted
    <3>2. Shown(state', renderer') = {} /\ used' = {} /\ renderer' = "none" /\ ~Lit'
      BY <2>6, <3>1 DEF TurnOff, LeftUsed, Lit
    <3> QED BY <2>6, <3>2 DEF TurnOff, Chosen, ShowsItsState, Shown
  <2>7. CASE SwitchTo
    <3>1. used' = Shown(state', renderer') /\ used' # {} /\ renderer' # "none"
      BY <2>7, Called DEF SwitchTo, Replace, LeftUsed, Wanted
    <3> QED BY <2>7, <3>1 DEF SwitchTo, Chosen, ShowsItsState, Shown
  <2>8. CASE DrawFrame
    BY <2>8 DEF DrawFrame, ShowsItsState, Lit, Over, Shown
  <2> QED
    BY <2>1, <2>2, <2>3, <2>4, <2>5, <2>6, <2>7, <2>8
    DEF ControlNext, controlVars, VehicleChanges, GraphicsStart, OnPropertyEvent, WaitTimesOut,
        Listener, PostCommand, NotifyLoop, Awake, UpdateLoop, ProcessCommands,
        ReadPower, PowerFails, ReadGear, ReadSignal, Choose, ChooseFromNothing,
        SwitchFails, NoBuffer, Sleep, SpuriousWakeup, Leave
<1> QED BY <1>1, <1>2, ControlTypes, PTL DEF ControlSpec
=============================================================================
