------------------------- MODULE GnssSessionsProofs -------------------------
(***************************************************************************)
(* Proofs about GnssSessions, for every kind of interface and any number   *)
(* of threads: one thread reports at a time, and after a stop() that joins *)
(* its thread none does.                                                   *)
(*                                                                         *)
(* The argument: a call that deactivates the session lets go of its thread *)
(* before it returns and before it starts another (Orderly), so a thread   *)
(* that is neither joined nor passed on is of an active session (CallInv). *)
(* All others that still run are in mFutures, and a thread begins to       *)
(* report only when every future's thread has ended (ThreadInv).           *)
(***************************************************************************)
EXTENDS GnssSessions, FiniteSetTheorems, SequenceTheorems, TLAPS

Step == {"set", "clear", "lock", "unlock", "status", "activate", "deactivate",
         "notify", "reset", "join", "pass", "spawn"}

Releases == {"join", "pass"}
Running  == {t \in Threads : at[t] \notin {"unborn", "ended"}}

(* A thread past these waits for no other. *)
Past == {t \in Threads : at[t] \in InLoop \cup {"resetting"}}

(* The order of the steps of a call: whoever deactivates lets go of the    *)
(* thread afterwards, and activates again before a thread is started;      *)
(* nothing is let go of once that thread is started.  A call sets one      *)
(* callback and starts one thread at most.                                 *)
Ahead(s) == {s[i] : i \in DOMAIN s}

Orderly(s) ==
  \A i \in DOMAIN s :
    /\ s[i] = "deactivate" =>
         /\ \E j \in DOMAIN s : j > i /\ s[j] \in Releases
         /\ \A j \in DOMAIN s : j > i /\ s[j] = "spawn" =>
              \E k \in DOMAIN s : k > i /\ s[k] = "activate"
    /\ s[i] = "spawn" =>
         \A j \in DOMAIN s : j > i => s[j] \notin Releases \cup {"activate", "spawn"}
    /\ s[i] = "set" => \A j \in DOMAIN s : j > i => s[j] # "set"

(* The thread that is not joined or passed on is of an active session, or  *)
(* the call will see to it first.                                          *)
CallInv ==
  /\ Orderly(steps)
  /\ "spawn" \in Ahead(steps) => starts < MaxStarts
  /\ "set" \in Ahead(steps) => sets < MaxStarts
  /\ "spawn" \in Ahead(steps) /\ "activate" \notin Ahead(steps) => mIsActive
  /\ Ahead(steps) \cap Releases = {} =>
       mThread = Nobody \/ (mIsActive /\ "spawn" \notin Ahead(steps))

(* Every running thread is known, and one of them only has begun. *)
ThreadInv ==
  /\ kind \in Joining => mFutures = {} /\ "pass" \notin Ahead(steps)
  /\ \A t \in Running : t \in mFutures \/ t = mThread
  /\ \A t, u \in Past : t = u

IInv == TypeOK /\ CallInv /\ ThreadInv
-----------------------------------------------------------------------------
(* The steps of a call, one after the other. *)

LEMMA KindOf ==
  ASSUME TypeOK
  PROVE  kind = "location" \/ kind = "antenna" \/ kind = "measurement" \/ kind = "navigation"
BY SessionsAssumption DEF TypeOK

(* What is done is no longer ahead, and the rest is in order. *)
LEMMA TailAhead ==
  ASSUME NEW s \in Seq(Step), s # << >>, Orderly(s)
  PROVE  /\ Tail(s) \in Seq(Step)
         /\ Head(s) \in Ahead(s)
         /\ Ahead(s) \subseteq {Head(s)} \cup Ahead(Tail(s))
         /\ Ahead(Tail(s)) \subseteq Ahead(s)
         /\ Orderly(Tail(s))
         /\ Head(s) = "deactivate" =>
              /\ Ahead(Tail(s)) \cap Releases # {}
              /\ "spawn" \in Ahead(Tail(s)) => "activate" \in Ahead(Tail(s))
         /\ Head(s) = "spawn" =>
              Ahead(Tail(s)) \cap (Releases \cup {"activate", "spawn"}) = {}
         /\ Head(s) = "set" => "set" \notin Ahead(Tail(s))
<1> DEFINE u == Tail(s)
<1>1. /\ u \in Seq(Step) /\ Len(s) \in Nat /\ Len(s) > 0 /\ Len(u) = Len(s) - 1
      /\ \A i \in 1 .. Len(u) : u[i] = s[i + 1]
      /\ Head(s) = s[1]
  BY HeadTailProperties, LenProperties, EmptySeq
<1>2. DOMAIN s = 1 .. Len(s) /\ DOMAIN u = 1 .. Len(u)
  BY <1>1, LenProperties
<1>3. 1 \in DOMAIN s
  BY <1>1, <1>2
<1>4. \A i \in DOMAIN u : i + 1 \in DOMAIN s /\ u[i] = s[i + 1] /\ i + 1 > 1
  BY <1>1, <1>2
<1>5. \A i \in DOMAIN s : i > 1 => i - 1 \in DOMAIN u /\ u[i - 1] = s[i]
  <2> SUFFICES ASSUME NEW i \in DOMAIN s, i > 1
               PROVE  i - 1 \in DOMAIN u /\ u[i - 1] = s[i]
    OBVIOUS
  <2>1. i - 1 \in 1 .. Len(u) /\ (i - 1) + 1 = i
    BY <1>1, <1>2
  <2> QED BY <2>1, <1>1, <1>2
<1>6. \A i \in DOMAIN s : i = 1 \/ i > 1
  BY <1>1, <1>2
<1>7. \A i, j \in DOMAIN u : j > i <=> j + 1 > i + 1
  BY <1>1, <1>2
<1>8. \A i \in DOMAIN u : \A j \in DOMAIN s : j > i + 1 => j > 1 /\ j - 1 > i
  BY <1>1, <1>2
<1> HIDE DEF u
<1>9. Head(s) \in Ahead(s)
  BY <1>1, <1>3 DEF Ahead
<1>10. Ahead(s) \subseteq {Head(s)} \cup Ahead(u)
  BY <1>1, <1>5, <1>6 DEF Ahead
<1>11. Ahead(u) \subseteq Ahead(s)
  BY <1>4 DEF Ahead
<1>12. Orderly(u)
  <2> SUFFICES ASSUME NEW i \in DOMAIN u
               PROVE  /\ u[i] = "deactivate" =>
                           /\ \E j \in DOMAIN u : j > i /\ u[j] \in Releases
                           /\ \A j \in DOMAIN u : j > i /\ u[j] = "spawn" =>
                                \E k \in DOMAIN u : k > i /\ u[k] = "activate"
                      /\ u[i] = "spawn" =>
                           \A j \in DOMAIN u :
                             j > i => u[j] \notin Releases \cup {"activate", "spawn"}
                      /\ u[i] = "set" => \A j \in DOMAIN u : j > i => u[j] # "set"
    BY DEF Orderly
  <2>1. i + 1 \in DOMAIN s /\ u[i] = s[i + 1]
    BY <1>4
  <2>2. ASSUME u[i] = "deactivate"
        PROVE  \E j \in DOMAIN u : j > i /\ u[j] \in Releases
    <3>1. PICK j \in DOMAIN s : j > i + 1 /\ s[j] \in Releases
      BY <2>1, <2>2 DEF Orderly
    <3> QED BY <3>1, <1>5, <1>8
  <2>3. ASSUME u[i] = "deactivate", NEW j \in DOMAIN u, j > i, u[j] = "spawn"
        PROVE  \E k \in DOMAIN u : k > i /\ u[k] = "activate"
    <3>1. j + 1 \in DOMAIN s /\ j + 1 > i + 1 /\ s[j + 1] = "spawn"
      BY <2>3, <1>4, <1>7
    <3>2. PICK k \in DOMAIN s : k > i + 1 /\ s[k] = "activate"
      BY <2>1, <2>3, <3>1 DEF Orderly
    <3> QED BY <3>2, <1>5, <1>8
  <2>4. ASSUME NEW j \in DOMAIN u, j > i
        PROVE  /\ u[i] = "spawn" => u[j] \notin Releases \cup {"activate", "spawn"}
               /\ u[i] = "set" => u[j] # "set"
    BY <2>1, <2>4, <1>4, <1>7 DEF Orderly
  <2> QED BY <2>2, <2>3, <2>4
<1>13. Head(s) = "deactivate" =>
         /\ Ahead(u) \cap Releases # {}
         /\ "spawn" \in Ahead(u) => "activate" \in Ahead(u)
  <2> SUFFICES ASSUME s[1] = "deactivate"
               PROVE  /\ Ahead(u) \cap Releases # {}
                      /\ "spawn" \in Ahead(u) => "activate" \in Ahead(u)
    BY <1>1
  <2>1. PICK j \in DOMAIN s : j > 1 /\ s[j] \in Releases
    BY <1>3 DEF Orderly
  <2>2. s[j] \in Ahead(u)
    BY <2>1, <1>5 DEF Ahead
  <2>3. ASSUME "spawn" \in Ahead(u)
        PROVE  "activate" \in Ahead(u)
    <3>1. PICK i \in DOMAIN u : u[i] = "spawn"
      BY <2>3 DEF Ahead
    <3>2. PICK k \in DOMAIN s : k > 1 /\ s[k] = "activate"
      BY <3>1, <1>3, <1>4 DEF Orderly
    <3> QED BY <3>2, <1>5 DEF Ahead
  <2> QED BY <2>1, <2>2, <2>3
<1>14. /\ Head(s) = "spawn" => Ahead(u) \cap (Releases \cup {"activate", "spawn"}) = {}
       /\ Head(s) = "set" => "set" \notin Ahead(u)
  <2> SUFFICES ASSUME NEW i \in DOMAIN u
               PROVE  /\ s[1] = "spawn" => u[i] \notin Releases \cup {"activate", "spawn"}
                      /\ s[1] = "set" => u[i] # "set"
    BY <1>1 DEF Ahead
  <2> QED BY <1>3, <1>4 DEF Orderly
<1> QED BY <1>1, <1>9, <1>10, <1>11, <1>12, <1>13, <1>14 DEF u

Planned(call) ==
  /\ call \in Seq(Step)
  /\ Orderly(call)
  /\ "spawn" \in Ahead(call) => "activate" \in Ahead(call)
  /\ mIsActive /\ "spawn" \in Ahead(call) => Ahead(call) \cap Releases # {}
  /\ kind \in Joining => "pass" \notin Ahead(call)

(* Every call is in order; one that starts a thread while the session is   *)
(* active lets go of the thread there is.                                  *)
LEMMA CallsArePlanned ==
  ASSUME TypeOK, NEW call \in Calls
  PROVE  Planned(call)
<1> USE DEF Step, Releases, Ahead, Orderly, Joining, Passing
<1>1. CASE kind = "location"
  <2>1. /\ StopSteps = <<"deactivate", "status", "notify", "join">>
        /\ StartSteps = <<"activate", "reset", "status", "spawn">>
    BY <1>1 DEF StopSteps, StartSteps
  <2>2. ASSUME call = <<"set">> PROVE Planned(call)
    BY <1>1, <2>2 DEF Planned
  <2>3. ASSUME call = <<"clear">> PROVE Planned(call)
    BY <1>1, <2>3 DEF Planned
  <2>4. ASSUME call = StopSteps PROVE Planned(call)
    BY <1>1, <2>1, <2>4 DEF Planned
  <2>5. ASSUME call = StopSteps \o StartSteps PROVE Planned(call)
    BY <1>1, <2>1, <2>5 DEF Planned
  <2>6. ASSUME call = << >> \o StartSteps, ~mIsActive PROVE Planned(call)
    BY <1>1, <2>1, <2>6 DEF Planned
  <2> QED BY <1>1, <2>2, <2>3, <2>4, <2>5, <2>6 DEF Calls, LocationStart, StopIfActive
<1>2. CASE kind = "measurement"
  <2>1. StopSteps = <<"deactivate", "notify", "pass">> /\ StartSteps = <<"activate", "spawn">>
    BY <1>2 DEF StopSteps, StartSteps
  <2>2. ASSUME call = <<"set">> \o StopSteps \o StartSteps PROVE Planned(call)
    <3>1. call \in Seq(Step)
      BY <2>1, <2>2
    <3>2. Orderly(call)
      BY <2>1, <2>2
    <3>3. /\ "spawn" \in Ahead(call) => "activate" \in Ahead(call)
          /\ Ahead(call) \cap Releases # {}
      BY <2>1, <2>2
    <3> QED BY <3>1, <3>2, <3>3, <1>2 DEF Planned
  <2>3. ASSUME call = <<"set">> \o << >> \o StartSteps, ~mIsActive PROVE Planned(call)
    BY <1>2, <2>1, <2>3 DEF Planned
  <2>4. ASSUME call = StopSteps \o <<"clear">> PROVE Planned(call)
    BY <1>2, <2>1, <2>4 DEF Planned
  <2>5. ASSUME call = << >> \o <<"clear">> PROVE Planned(call)
    BY <1>2, <2>5 DEF Planned
  <2> QED BY <1>2, <2>2, <2>3, <2>4, <2>5 DEF Calls, MeasurementSetCallback, Close, StopIfActive
<1>3. CASE kind = "navigation"
  <2>1. StopSteps = <<"deactivate", "notify", "pass">> /\ StartSteps = <<"activate", "spawn">>
    BY <1>3 DEF StopSteps, StartSteps
  <2>2. ASSUME call = <<"lock", "set">> \o StopSteps \o StartSteps \o <<"unlock">> PROVE Planned(call)
    BY <1>3, <2>1, <2>2 DEF Planned
  <2>3. ASSUME call = <<"lock", "set">> \o << >> \o StartSteps \o <<"unlock">>, ~mIsActive PROVE Planned(call)
    BY <1>3, <2>1, <2>3 DEF Planned
  <2>4. ASSUME call = StopSteps \o <<"clear">> PROVE Planned(call)
    BY <1>3, <2>1, <2>4 DEF Planned
  <2>5. ASSUME call = << >> \o <<"clear">> PROVE Planned(call)
    BY <1>3, <2>5 DEF Planned
  <2> QED BY <1>3, <2>2, <2>3, <2>4, <2>5 DEF Calls, NavigationSetCallback, Close, StopIfActive
<1>4. CASE kind = "antenna"
  <2>1. StopSteps = <<"deactivate", "join">> /\ StartSteps = <<"activate", "spawn">>
    BY <1>4 DEF StopSteps, StartSteps
  <2>2. ASSUME call = <<"lock", "set">> \o StopSteps \o StartSteps \o <<"unlock">> PROVE Planned(call)
    BY <1>4, <2>1, <2>2 DEF Planned
  <2>3. ASSUME call = <<"lock", "set">> \o << >> \o StartSteps \o <<"unlock">>, ~mIsActive PROVE Planned(call)
    BY <1>4, <2>1, <2>3 DEF Planned
  <2>4. ASSUME call = StopSteps \o <<"clear">> PROVE Planned(call)
    BY <1>4, <2>1, <2>4 DEF Planned
  <2> QED BY <1>4, <2>2, <2>3, <2>4 DEF Calls, AntennaSetCallback, Close, StopIfActive
<1> QED BY <1>1, <1>2, <1>3, <1>4, KindOf

(* What a step of a call leaves to be done. *)
LEMMA Doing ==
  ASSUME IInv, NEW step, Does(step)
  PROVE  /\ steps' \in Seq(Step) /\ kind' = kind
         /\ step = Head(steps) /\ step \in Ahead(steps)
         /\ Ahead(steps) \subseteq {step} \cup Ahead(steps')
         /\ Ahead(steps') \subseteq Ahead(steps)
         /\ Orderly(steps')
         /\ step = "deactivate" =>
              /\ Ahead(steps') \cap Releases # {}
              /\ "spawn" \in Ahead(steps') => "activate" \in Ahead(steps')
         /\ step = "spawn" =>
              Ahead(steps') \cap (Releases \cup {"activate", "spawn"}) = {}
         /\ step = "set" => "set" \notin Ahead(steps')
<1>1. steps \in Seq(Step) /\ steps # << >> /\ Orderly(steps)
  BY DEF IInv, TypeOK, CallInv, Does, Step
<1>2. steps' = Tail(steps) /\ step = Head(steps) /\ kind' = kind
  BY DEF Does
<1> QED BY <1>1, <1>2, TailAhead

(* The threads leave the calls alone. *)
LEMMA ThreadFrame ==
  ASSUME NEW t \in Threads, Thread(t)
  PROVE  UNCHANGED <<kind, steps, starts, sets, mThread, mIsActive>>
BY DEF Thread, Goes, flags, ends, JoinedBegins, LooksForStopping, WaitsForStopping,
       ClearsFutures, Resets, Looks, Reports, Called, Reported, WaitEnds

LEMMA Began ==
  ASSUME IInv, Begin
  PROVE  /\ Planned(steps')
         /\ "spawn" \in Ahead(steps') => starts < MaxStarts
         /\ "set" \in Ahead(steps') => sets < MaxStarts
         /\ Ahead(steps) = {}
<1>1. steps' \in Calls
  BY DEF Begin
<1>2. Planned(steps')
  BY <1>1, CallsArePlanned DEF IInv
<1>3. DOMAIN steps' = 1 .. Len(steps')
  BY <1>2, LenProperties DEF Planned
<1>4. Ahead(steps) = {}
  BY DEF Begin, Ahead
<1> QED BY <1>2, <1>3, <1>4 DEF Begin, Ahead

LEMMA CallStep ==
  ASSUME IInv, [Next]_vars
  PROVE  CallInv'
<1> DEFINE Now == Ahead(steps)
           Then == Ahead(steps')
<1>1. SUFFICES /\ Orderly(steps')
               /\ "spawn" \in Then => starts' < MaxStarts
               /\ "set" \in Then => sets' < MaxStarts
               /\ "spawn" \in Then /\ "activate" \notin Then => mIsActive'
               /\ Then \cap Releases = {} =>
                    mThread' = Nobody \/ (mIsActive' /\ "spawn" \notin Then)
  BY DEF CallInv
<1>2. /\ Orderly(steps)
      /\ "spawn" \in Now => starts < MaxStarts
      /\ "set" \in Now => sets < MaxStarts
      /\ "spawn" \in Now /\ "activate" \notin Now => mIsActive
      /\ Now \cap Releases = {} =>
           mThread = Nobody \/ (mIsActive /\ "spawn" \notin Now)
  BY DEF IInv, CallInv
<1>3. CASE Begin
  <2>1. UNCHANGED <<starts, sets, mThread, mIsActive>>
    BY <1>3 DEF Begin, flags
  <2>2. mThread = Nobody \/ mIsActive
    BY <1>2, <1>3, Began
  <2> HIDE DEF Then
  <2> QED BY <1>3, <2>1, <2>2, Began DEF Planned, Then
<1>4. CASE CallGoesOn
  <2>1. CASE SetCallback
    <3>1. Does("set") /\ UNCHANGED <<starts, mThread, mIsActive>>
      BY <2>1 DEF SetCallback, flags
    <3> QED BY <1>2, <3>1, Doing DEF Releases
  <2>2. CASE ClearCallback \/ Lock \/ Unlock \/ Status \/ Notify \/ Reset
    <3>1. PICK step \in {"clear", "lock", "unlock", "status", "notify", "reset"} : Does(step)
      BY <2>2 DEF ClearCallback, Lock, Unlock, Status, Notify, Reset
    <3>2. UNCHANGED <<starts, sets, mThread, mIsActive>>
      BY <2>2 DEF ClearCallback, Lock, Unlock, Status, Notify, Reset, flags
    <3> QED BY <1>2, <3>1, <3>2, Doing DEF Releases
  <2>3. CASE Activation
    <3>1. UNCHANGED <<starts, sets, mThread>>
      BY <2>3 DEF Activation
    <3>2. CASE Does("activate")
      <4>1. mIsActive' = TRUE
        BY <2>3, <3>2, Doing DEF Activation
      <4> QED BY <1>2, <3>1, <3>2, <4>1, Doing DEF Releases
    <3>3. CASE Does("deactivate")
      BY <1>2, <3>1, <3>3, Doing DEF Releases
    <3> QED BY <2>3, <3>2, <3>3 DEF Activation
  <2>4. CASE Join \/ PassOn
    <3>1. PICK step \in Releases : Does(step)
      BY <2>4 DEF Join, PassOn, Releases
    <3>2. mThread' = Nobody /\ UNCHANGED <<starts, sets, mIsActive>>
      BY <2>4 DEF Join, PassOn, flags
    <3> QED BY <1>2, <3>1, <3>2, Doing DEF Releases
  <2>5. CASE Spawn
    <3>1. Does("spawn") /\ UNCHANGED <<sets, mIsActive>>
      BY <2>5 DEF Spawn, flags
    <3>2. "activate" \notin Now => mIsActive
      BY <1>2, <3>1, Doing
    <3>3. Now \subseteq {"spawn"} \cup Then
      BY <3>1, Doing
    <3> QED BY <1>2, <3>1, <3>2, <3>3, Doing
  <2> QED BY <1>4, <2>1, <2>2, <2>3, <2>4, <2>5 DEF CallGoesOn
<1>5. CASE \E t \in Threads : Thread(t)
  BY <1>2, <1>5, ThreadFrame
<1>6. CASE UNCHANGED vars
  BY <1>2, <1>6 DEF vars, flags
<1> QED BY <1>3, <1>4, <1>5, <1>6 DEF Next

(* The thread a call still has to start. *)
LEMMA SpawnTyped ==
  ASSUME IInv, Does("spawn")
  PROVE  starts + 1 \in Threads /\ starts < MaxStarts
<1>1. starts < MaxStarts
  BY Doing DEF IInv, CallInv
<1> QED BY <1>1, SessionsAssumption DEF IInv, TypeOK, Threads

LEMMA TypeStep ==
  ASSUME IInv, [Next]_vars
  PROVE  TypeOK'
<1> USE DEF IInv, TypeOK
<1>1. CASE Begin
  BY <1>1, Began DEF Begin, Planned, Step, flags, ends
<1>2. CASE CallGoesOn
  <2>1. CASE SetCallback
    <3>1. Does("set") /\ UNCHANGED <<starts, at, flags, mMutex, mThread, ends>>
      BY <2>1 DEF SetCallback
    <3>2. sets < MaxStarts
      BY <3>1, Doing DEF CallInv
    <3>3. sets' \in 0 .. MaxStarts /\ sCallback' \in 0 .. MaxStarts
      BY <2>1, <3>2, SessionsAssumption DEF SetCallback
    <3> QED BY <3>1, <3>3, Doing DEF Step, flags, ends
  <2>2. CASE ClearCallback
    BY <2>2, Doing, SessionsAssumption DEF ClearCallback, Step, flags, ends, NoCallback
  <2>3. CASE Lock \/ Unlock \/ Status
    BY <2>3, Doing DEF Lock, Unlock, Status, Step, flags, ends
  <2>4. CASE Activation \/ Notify \/ Reset
    BY <2>4, Doing DEF Activation, Notify, Reset, Step, flags, ends, Beginning
  <2>5. CASE Join \/ PassOn
    BY <2>5, Doing DEF Join, PassOn, Step, flags, ends
  <2>6. CASE Spawn
    <3>1. Does("spawn") /\ UNCHANGED <<flags, sCallback, mMutex, ends, sets>>
      BY <2>6 DEF Spawn
    <3>2. starts' \in 0 .. MaxStarts /\ mThread' \in Threads
      BY <2>6, <3>1, SpawnTyped, SessionsAssumption DEF Spawn
    <3> QED BY <2>6, <3>1, <3>2, SpawnTyped, Doing DEF Spawn, Step, flags, ends
  <2> QED BY <1>2, <2>1, <2>2, <2>3, <2>4, <2>5, <2>6 DEF CallGoesOn
<1>3. ASSUME NEW t \in Threads, Thread(t) PROVE TypeOK'
  <2>1. UNCHANGED <<kind, steps, starts, sets, mThread, mIsActive, sCallback, early>>
    BY <1>3 DEF Thread, Goes, flags, ends, JoinedBegins, LooksForStopping,
       WaitsForStopping, ClearsFutures, Resets, Looks, Reports, Called, Reported, WaitEnds
  <2>2. at' \in [Threads -> InLoop \cup {"unborn", "born", "waiting", "clearing",
                                         "resetting", "ended"}]
    BY <1>3 DEF Thread, Goes, InLoop, JoinedBegins, LooksForStopping,
       WaitsForStopping, ClearsFutures, Resets, Looks, Reports, Called, Reported, WaitEnds
  <2>3. terminate' \in BOOLEAN /\ mMutex' \in Threads \cup {Nobody, Client}
    BY <1>3 DEF Thread, Goes, flags, JoinedBegins, LooksForStopping,
       WaitsForStopping, ClearsFutures, Resets, Looks, Reports, Called, Reported, WaitEnds
  <2>4. mFutures' \subseteq Threads /\ awaited' \in [Threads -> SUBSET Threads]
    BY <1>3 DEF Thread, Goes, ends, JoinedBegins, LooksForStopping,
       WaitsForStopping, ClearsFutures, Resets, Looks, Reports, Called, Reported, WaitEnds
  <2> QED BY <2>1, <2>2, <2>3, <2>4
<1>4. CASE UNCHANGED vars
  BY <1>4 DEF vars, flags, ends
<1> QED BY <1>1, <1>2, <1>3, <1>4 DEF Next

(* Every running thread is known: a step starts none but the one it names, *)
(* and lets go of none that runs unless a future waits for it.             *)
LEMMA KnownStep ==
  ASSUME IInv, [Next]_vars
  PROVE  /\ kind' \in Joining => mFutures' = {} /\ "pass" \notin Ahead(steps')
         /\ \A t \in Running' : t \in mFutures' \/ t = mThread'
<1>1. /\ kind \in Joining => mFutures = {} /\ "pass" \notin Ahead(steps)
      /\ \A t \in Running : t \in mFutures \/ t = mThread
  BY DEF IInv, ThreadInv
<1>2. at \in [Threads -> InLoop \cup {"unborn", "born", "waiting", "clearing",
                                      "resetting", "ended"}]
  BY DEF IInv, TypeOK
<1>3. CASE Begin
  <2>1. UNCHANGED <<kind, at, mThread, mFutures>>
    BY <1>3 DEF Begin, ends
  <2>2. kind \in Joining => "pass" \notin Ahead(steps')
    BY <1>3, Began DEF Planned
  <2> QED BY <1>1, <2>1, <2>2 DEF Running
<1>4. CASE CallGoesOn
  <2>1. CASE SetCallback \/ ClearCallback \/ Lock \/ Unlock \/ Status
             \/ Activation \/ Notify \/ Reset
    <3>1. PICK step \in Step : Does(step)
      BY <2>1 DEF SetCallback, ClearCallback, Lock, Unlock, Status, Activation,
         Notify, Reset, Step
    <3>2. UNCHANGED <<at, mThread, mFutures>>
      BY <2>1 DEF SetCallback, ClearCallback, Lock, Unlock, Status, Activation,
         Notify, Reset, ends
    <3> QED BY <1>1, <3>1, <3>2, Doing DEF Running
  <2>2. CASE Join
    <3>1. Does("join") /\ UNCHANGED <<at, mFutures>> /\ mThread' = Nobody
      BY <2>2 DEF Join, ends
    <3>2. mThread # Nobody => at[mThread] = "ended"
      BY <2>2 DEF Join
    <3>3. \A t \in Running : t # mThread
      BY <3>2, SessionsAssumption DEF Running, Threads, Nobody
    <3> QED BY <1>1, <3>1, <3>3, Doing DEF Running
  <2>3. CASE PassOn
    <3>1. Does("pass") /\ UNCHANGED at
      BY <2>3 DEF PassOn
    <3>2. kind' \notin Joining
      BY <1>1, <3>1, Doing
    <3>3. \A t \in Running : t \in mFutures'
      BY <1>1, <2>3, SessionsAssumption DEF PassOn, Running, Threads, Nobody
    <3> QED BY <3>1, <3>2, <3>3 DEF Running
  <2>4. CASE Spawn
    <3>1. Does("spawn") /\ UNCHANGED mFutures /\ mThread' = starts + 1
      BY <2>4 DEF Spawn, ends
    <3>2. mThread = Nobody \/ Ahead(steps) \cap Releases # {}
      BY <3>1, Doing DEF IInv, CallInv
    <3>3. mThread = Nobody
      BY <3>1, <3>2, Doing DEF Releases
    <3>4. \A t \in Running : t \in mFutures
      BY <1>1, <3>3, SessionsAssumption DEF Running, Threads, Nobody
    <3>5. Running' \subseteq Running \cup {starts + 1}
      BY <1>2, <2>4 DEF Spawn, Running
    <3> QED BY <1>1, <3>1, <3>4, <3>5, Doing
  <2> QED BY <1>4, <2>1, <2>2, <2>3, <2>4 DEF CallGoesOn
<1>5. ASSUME NEW t \in Threads, Thread(t)
      PROVE  /\ kind' \in Joining => mFutures' = {} /\ "pass" \notin Ahead(steps')
             /\ \A u \in Running' : u \in mFutures' \/ u = mThread'
  <2>1. UNCHANGED <<kind, steps, mThread>>
    BY <1>5, ThreadFrame
  <2>2. Running' \subseteq Running
    BY <1>2, <1>5 DEF Thread, Goes, Running, InLoop, JoinedBegins, LooksForStopping,
       WaitsForStopping, ClearsFutures, Resets, Looks, Reports, Called, Reported, WaitEnds
  <2>3. CASE ClearsFutures(t)
    <3>1. mFutures' = {}
      BY <2>3 DEF ClearsFutures
    <3>2. \A u \in Running : u \notin mFutures
      BY <2>3 DEF ClearsFutures, Running
    <3> QED BY <1>1, <2>1, <2>2, <3>1, <3>2
  <2>4. CASE ~ClearsFutures(t)
    <3>1. mFutures' = mFutures
      BY <1>5, <2>4 DEF Thread, ends, JoinedBegins, LooksForStopping,
         WaitsForStopping, Resets, Looks, Reports, Called, Reported, WaitEnds
    <3> QED BY <1>1, <2>1, <2>2, <3>1
  <2> QED BY <2>3, <2>4
<1>6. CASE UNCHANGED vars
  BY <1>1, <1>6 DEF vars, ends, Running
<1> QED BY <1>3, <1>4, <1>5, <1>6 DEF Next

(* A thread begins to report only when it is the one that runs. *)
LEMMA PastStep ==
  ASSUME IInv, [Next]_vars
  PROVE  \A t, u \in Past' : t = u
<1>1. /\ kind \in Joining => mFutures = {}
      /\ \A t \in Running : t \in mFutures \/ t = mThread
      /\ \A t, u \in Past : t = u
      /\ Past \subseteq Running
  BY DEF IInv, ThreadInv, Past, Running, InLoop
<1>2. at \in [Threads -> InLoop \cup {"unborn", "born", "waiting", "clearing",
                                      "resetting", "ended"}]
  BY DEF IInv, TypeOK
<1>3. CASE Spawn
  <2>1. Past' \subseteq Past
    BY <1>2, <1>3 DEF Spawn, Past, InLoop
  <2> QED BY <1>1, <2>1
<1>4. CASE UNCHANGED at
  BY <1>1, <1>4 DEF Past
<1>5. ASSUME NEW t \in Threads, JoinedBegins(t) \/ ClearsFutures(t)
      PROVE  \A u, v \in Past' : u = v
  <2>1. Past' \subseteq Past \cup {t} /\ t \in Running
    BY <1>2, <1>5 DEF JoinedBegins, ClearsFutures, Goes, Past, Running, InLoop
  <2>2. \A u \in Running : u \notin mFutures
    BY <1>1, <1>5 DEF JoinedBegins, ClearsFutures, Running
  <2> QED BY <1>1, <2>1, <2>2
<1>6. ASSUME NEW t \in Threads, Thread(t), ~JoinedBegins(t), ~ClearsFutures(t)
      PROVE  \A u, v \in Past' : u = v
  <2>1. Past' \subseteq Past
    BY <1>2, <1>6 DEF Thread, Goes, Past, InLoop, LooksForStopping,
       WaitsForStopping, Resets, Looks, Reports, Called, Reported, WaitEnds
  <2> QED BY <1>1, <2>1
<1>7. [Next]_vars => Spawn \/ UNCHANGED at \/ \E t \in Threads : Thread(t)
  BY DEF Next, vars, Begin, CallGoesOn, SetCallback, ClearCallback, Lock, Unlock,
     Status, Activation, Notify, Reset, Join, PassOn
<1> QED BY <1>3, <1>4, <1>5, <1>6, <1>7
-----------------------------------------------------------------------------
LEMMA Inductive == IInv /\ [Next]_vars => IInv'
BY TypeStep, CallStep, KnownStep, PastStep DEF IInv, ThreadInv

LEMMA Initial == Init => IInv
<1> SUFFICES ASSUME Init PROVE IInv
  OBVIOUS
<1>1. TypeOK
  <2>1. starts \in 0 .. MaxStarts /\ sets \in 0 .. MaxStarts /\ sCallback \in 0 .. MaxStarts
    BY SessionsAssumption DEF Init, NoCallback
  <2>2. at \in [Threads -> InLoop \cup {"unborn", "born", "waiting", "clearing",
                                        "resetting", "ended"}]
    BY DEF Init
  <2>3. /\ steps = << >> /\ kind \in Kinds
        /\ mIsActive \in BOOLEAN /\ terminate \in BOOLEAN /\ early \in BOOLEAN
        /\ mThread = Nobody /\ mMutex = Nobody /\ mFutures = {}
        /\ awaited \in [Threads -> SUBSET Threads]
    BY DEF Init
  <2> QED BY <2>1, <2>2, <2>3, EmptySeq DEF TypeOK
<1>2. CallInv
  BY DEF Init, CallInv, Orderly, Ahead
<1>3. ThreadInv
  BY DEF Init, ThreadInv, Running, Past, InLoop, Ahead
<1> QED BY <1>1, <1>2, <1>3 DEF IInv

LEMMA Invariant == Spec => []IInv
<1> QED BY Initial, Inductive, PTL DEF Spec

(* One thread of an interface reports at a time, however often it is       *)
(* restarted (GnssMeasurementInterface.cpp:107-161, Gnss.cpp:124-184).     *)
THEOREM OneReports == Spec => []OneReporter
<1>1. IInv => OneReporter
  <2> DEFINE R == {t \in Threads : at[t] \in InLoop}
  <2> SUFFICES ASSUME IInv PROVE Cardinality(R) <= 1
    BY DEF OneReporter
  <2>1. \A t, u \in R : t = u
    BY DEF IInv, ThreadInv, Past
  <2>2. CASE R = {}
    BY <2>2, FS_EmptySet
  <2>3. CASE R # {}
    <3>1. PICK t : R = {t}
      BY <2>1, <2>3
    <3>2. Cardinality({t}) = 1
      BY FS_Singleton
    <3> QED BY <3>1, <3>2
  <2> QED BY <2>2, <2>3
<1> QED BY <1>1, Invariant, PTL

(* When stop() or close() of an interface that joins its thread has        *)
(* returned, no thread is left that could report (Gnss.cpp:174-184,        *)
(* GnssAntennaInfo.cpp:54-60).                                             *)
THEOREM QuietAfterStop == Spec => []QuietWhenStopped
<1>1. IInv => QuietWhenStopped
  <2> SUFFICES ASSUME IInv, kind \in Joining, steps = << >>, ~mIsActive,
                      NEW t \in Threads
               PROVE  at[t] \in {"unborn", "ended"}
    BY DEF QuietWhenStopped
  <2>1. Ahead(steps) = {}
    BY DEF Ahead
  <2>2. mThread = Nobody
    BY <2>1 DEF IInv, CallInv
  <2>3. t # Nobody
    BY SessionsAssumption DEF Threads, Nobody
  <2> QED BY <2>2, <2>3 DEF IInv, ThreadInv, Running
<1> QED BY <1>1, Invariant, PTL
=============================================================================
