------------------------- MODULE SensorsHealthProofs --------------------------
(***************************************************************************)
(* Proofs about the two HALs that a wake alarm or a wake lock keeps going: *)
(* SensorsHal, for any sensors, periods and queue, and Health, for any     *)
(* intervals, levels and clients.                                          *)
(***************************************************************************)
EXTENDS SensorsHal, Health, TLAPS

-------------------------------------------------------------------------------
(* The sensors: the wake lock.                                             *)

QueueTyped ==
  /\ unread \in [wake : Nat, other : Nat]
  /\ wakeQueue = << >> \/ \E n \in Nat : wakeQueue = <<n>>
  /\ mOutstandingWakeUpEvents \in Nat /\ uncounted \in Nat

RunTyped == run \in [Sensors -> {"waiting", "sleeping", "posting"}]

(* The wake lock is held for the events that were counted, and unless time  *)
(* let go of it every event that was not acknowledged is counted, but for   *)
(* those of a post under way, which holds mWriteLock.                       *)
WakeInv ==
  /\ QueueTyped
  /\ mHasWakeLock <=> mOutstandingWakeUpEvents > 0
  /\ ~ Locked => uncounted = 0
  /\ ~ released => mOutstandingWakeUpEvents >= Known

(* What updateWakeLock leaves, when there are known events more of those    *)
(* written and fewer of those done.                                         *)
LEMMA UpdateKeeps ==
  ASSUME WakeInv, NEW written \in Nat, NEW done \in Nat, UpdateWakeLock(written, done)
  PROVE  /\ mOutstandingWakeUpEvents' \in Nat
         /\ mHasWakeLock' <=> mOutstandingWakeUpEvents' > 0
         /\ ~ released' => \/ mOutstandingWakeUpEvents' >= Known + written - done
                           \/ Known + written <= done
<1> DEFINE count == Most(0, mOutstandingWakeUpEvents + written - done)
           late  == overdue /\ written = 0
           left  == IF mHasWakeLock /\ late THEN 0 ELSE count
<1>1. /\ released' = (left < count \/ (released /\ Known + written > done))
      /\ mOutstandingWakeUpEvents' = left
      /\ mHasWakeLock' <=> left > 0
  BY DEF UpdateWakeLock
<1>2. count \in Nat /\ count >= mOutstandingWakeUpEvents + written - done
  BY DEF Most, WakeInv, QueueTyped
<1>3. Known \in Int
  BY DEF Known, Pending, WakeInv, QueueTyped
<1>4. left \in Nat
  BY <1>2
<1> HIDE DEF count, left
<1>5. ASSUME ~ released'
      PROVE  \/ mOutstandingWakeUpEvents' >= Known + written - done
             \/ Known + written <= done
  <2>1. ~ (left < count) /\ (~ released \/ ~ (Known + written > done))
    BY <1>1, <1>5, Zenon
  <2>2. CASE ~ (Known + written > done)
    BY <1>3, <2>2
  <2>3. CASE ~ released
    <3>1. mOutstandingWakeUpEvents >= Known
      BY <2>3 DEF WakeInv
    <3>2. left >= count /\ mOutstandingWakeUpEvents \in Nat
      BY <1>2, <1>4, <2>1 DEF WakeInv, QueueTyped
    <3>3. left >= Known + written - done
      BY <1>2, <1>3, <1>4, <3>1, <3>2
    <3> QED BY <1>1, <3>3
  <2> QED BY <2>1, <2>2, <2>3
<1> QED BY <1>1, <1>4, <1>5

(* Before an event is counted nothing but the queue changes; the thread     *)
(* that has written it holds the lock.                                      *)
LEMMA PostKeeps ==
  ASSUME WakeInv, NEW s, NEW n \in Nat, PostEvents(s, n), MustCount(s, n) => Locked',
         UNCHANGED <<wakeQueue, countVars>>
  PROVE  WakeInv'
<1>0. /\ unread \in [wake : Nat, other : Nat] /\ uncounted = 0
      /\ UNCHANGED <<wakeQueue, mOutstandingWakeUpEvents, mHasWakeLock, released>>
  BY DEF WakeInv, QueueTyped, PostEvents, countVars
<1>1. CASE ~ MustCount(s, n)
  <2>1. /\ unread' \in [wake : Nat, other : Nat] /\ unread'.wake = unread.wake
        /\ uncounted' = 0
    <3>1. CASE ~ Fits(n)
      BY <1>0, <3>1 DEF PostEvents
    <3>2. CASE Fits(n)
      <4>1. s \notin WakeUp
        BY <1>1, <3>2 DEF MustCount
      <4>2. unread' = [unread EXCEPT !.other = @ + n] /\ uncounted' = 0
        BY <3>2, <4>1 DEF PostEvents
      <4> QED BY <1>0, <4>2
    <3> QED BY <3>1, <3>2
  <2>2. Known' = Known
    BY <1>0, <2>1 DEF Known, Pending
  <2> QED BY <1>0, <2>1, <2>2 DEF WakeInv, QueueTyped
<1>2. CASE MustCount(s, n)
  <2>1. unread' = [unread EXCEPT !.wake = @ + n] /\ uncounted' = n
    BY <1>2 DEF PostEvents, MustCount
  <2>2. unread' \in [wake : Nat, other : Nat] /\ unread'.wake = unread.wake + n
    BY <1>0, <2>1
  <2>3. Known' = Known
    BY <1>0, <2>1, <2>2 DEF Known, Pending, WakeInv, QueueTyped
  <2> QED BY <1>0, <1>2, <2>1, <2>2, <2>3 DEF WakeInv, QueueTyped
<1> QED BY <1>1, <1>2

(* The end of a post: its events are counted, those too that were read and  *)
(* acknowledged meanwhile.                                                  *)
LEMMA CountKeeps ==
  ASSUME WakeInv, CountEvents, UNCHANGED <<unread, wakeQueue>>
  PROVE  WakeInv'
<1>1. UpdateWakeLock(uncounted, 0) /\ uncounted' = 0 /\ uncounted \in Nat
  BY DEF CountEvents, WakeInv, QueueTyped
<1>2. /\ mOutstandingWakeUpEvents' \in Nat
      /\ mHasWakeLock' <=> mOutstandingWakeUpEvents' > 0
      /\ ~ released' => \/ mOutstandingWakeUpEvents' >= Known + uncounted - 0
                        \/ Known + uncounted <= 0
  BY <1>1, UpdateKeeps
<1>3. Known \in Int /\ Known' = Known + uncounted
  BY <1>1 DEF Known, Pending, WakeInv, QueueTyped
<1>4. ~ released' => mOutstandingWakeUpEvents' >= Known'
  BY <1>1, <1>2, <1>3
<1> QED BY <1>1, <1>2, <1>4 DEF WakeInv, QueueTyped

LEMMA WakeInit == Init => WakeInv
<1> SUFFICES ASSUME Init PROVE WakeInv
  OBVIOUS
<1>1. /\ mHasWakeLock = FALSE /\ mOutstandingWakeUpEvents = 0
      /\ unread = [wake |-> 0, other |-> 0] /\ wakeQueue = << >> /\ uncounted = 0
  BY DEF Init
<1>2. QueueTyped
  BY <1>1 DEF QueueTyped
<1>3. mHasWakeLock <=> mOutstandingWakeUpEvents > 0
  <2>1. ~ (mOutstandingWakeUpEvents > 0)
    BY <1>1
  <2> QED BY <1>1, <2>1, Zenon
<1>4. mOutstandingWakeUpEvents >= Known
  BY <1>1 DEF Known, Pending
<1> QED BY <1>1, <1>2, <1>3, <1>4 DEF WakeInv

LEMMA RunStep == RunTyped /\ [Next]_vars => RunTyped'
<1> SUFFICES ASSUME RunTyped, [Next]_vars PROVE RunTyped'
  OBVIOUS
<1> USE DEF threadVars, RunTyped
<1>1. ASSUME NEW s \in Sensors, Run(s) PROVE RunTyped'
  BY <1>1 DEF Run, SampleTime, SampleWoken, Sample, Posts, Waits, SampleEnds, RunWaits
<1>2. ASSUME NEW s \in Sensors, Calls(s) PROVE RunTyped'
  BY <1>2 DEF Calls, ActivateCalled, Batch, FlushOrInject
<1>3. CASE BinderGoesOn
  BY <1>3 DEF BinderGoesOn, Forget, SetMode, Disable, FlushEnds, StopWakeThread,
     StartWakeThread
<1>4. CASE \/ SetOperationMode \/ Initialize \/ IioConnects \/ IioReplays
           \/ FrameworkReads \/ ReadWakeLockFMQ \/ TimePasses \/ UNCHANGED vars
  BY <1>4 DEF SetOperationMode, Initialize, IioConnects, IioReplays, IioReplaysBatch,
     IioReplaysActivate, IioNext, IioRests, FrameworkReads, ReadWakeLockFMQ, TimePasses, vars
<1> QED BY <1>1, <1>2, <1>3, <1>4 DEF Next

LEMMA WakeStep == RunTyped /\ WakeInv /\ [Next]_vars => WakeInv'
<1> SUFFICES ASSUME RunTyped, WakeInv, [Next]_vars PROVE WakeInv'
  OBVIOUS
<1> USE DEF wakeVars, countVars, queueVars, threadVars
<1>1. ASSUME UNCHANGED <<unread, wakeQueue, mOutstandingWakeUpEvents, mHasWakeLock, released,
                         uncounted>>,
             Locked => Locked'
      PROVE  WakeInv'
  BY <1>1 DEF WakeInv, QueueTyped, Known, Pending
<1>2. ASSUME NEW s \in Sensors, Calls(s) PROVE WakeInv'
  <2>1. CASE FlushOrInject(s)
    BY <2>1, PostKeeps DEF FlushOrInject, Locked
  <2>2. ASSUME NEW enable \in BOOLEAN, ActivateCalled(s, enable) PROVE WakeInv'
    BY <1>1, <2>2 DEF ActivateCalled, Locked, NoCall, Flushing
  <2>3. CASE Batch(s)
    BY <1>1, <2>3 DEF Batch, Locked
  <2> QED BY <1>2, <2>1, <2>2, <2>3 DEF Calls
<1>3. ASSUME NEW s \in Sensors, Run(s) PROVE WakeInv'
  <2>1. CASE Sample(s)
    <3>1. PICK n \in {0, 1} : /\ PostEvents(s, n)
                              /\ IF MustCount(s, n) THEN Posts(s) ELSE Waits(s)
      BY <2>1 DEF Sample, ReadEvents
    <3>2. MustCount(s, n) => Locked'
      <4>1. run \in [Sensors -> {"waiting", "sleeping", "posting"}]
        BY DEF RunTyped
      <4> QED BY <3>1, <4>1 DEF Posts, Locked
    <3> QED BY <2>1, <3>1, <3>2, PostKeeps DEF Sample
  <2>2. CASE SampleEnds(s)
    BY <2>2, CountKeeps DEF SampleEnds
  <2>3. CASE RunWaits(s)
    <3>1. Locked => Locked'
      BY <2>3 DEF RunWaits, Waits, Locked
    <3> QED BY <1>1, <2>3, <3>1 DEF RunWaits
  <2> QED BY <1>3, <2>1, <2>2, <2>3 DEF Run, SampleTime, SampleWoken
<1>4. CASE Initialize
  <2>1. /\ unread' = [wake |-> 0, other |-> 0]
        /\ UNCHANGED <<wakeQueue, wakeVars, run>> /\ call = NoCall
    BY <1>4 DEF Initialize
  <2>2. Known' <= Known /\ Known \in Int /\ Known' \in Int
    BY <2>1 DEF Known, Pending, WakeInv, QueueTyped
  <2>3. Locked => Locked'
    BY <2>1 DEF Locked, NoCall, Flushing
  <2> QED BY <2>1, <2>2, <2>3 DEF WakeInv, QueueTyped
<1>5. CASE StartWakeThread
  <2>1. /\ wakeQueue' = << >> /\ UNCHANGED <<unread, wakeVars, run>>
        /\ call.op = "join"
    BY <1>5 DEF StartWakeThread
  <2>2. Known' <= Known /\ Known \in Int /\ Known' \in Int
    BY <2>1 DEF Known, Pending, WakeInv, QueueTyped
  <2>3. Locked => Locked'
    BY <2>1 DEF Locked, Flushing
  <2> QED BY <2>1, <2>2, <2>3 DEF WakeInv, QueueTyped
<1>6. CASE FrameworkReads
  <2>1. unread' = [wake |-> 0, other |-> 0] /\ UNCHANGED <<wakeVars, run, call>>
    BY <1>6 DEF FrameworkReads
  <2>2. Locked' <=> Locked
    BY <2>1 DEF Locked
  <2>3. CASE unread.wake = 0
    <3>1. UNCHANGED wakeQueue
      BY <1>6, <2>3 DEF FrameworkReads
    <3>2. Known' = Known
      BY <2>1, <2>3, <3>1 DEF Known, Pending
    <3> QED BY <2>1, <2>2, <3>1, <3>2 DEF WakeInv, QueueTyped
  <2>4. CASE unread.wake # 0
    <3>1. wakeQueue = << >> /\ wakeQueue' = <<unread.wake>>
      BY <1>6, <2>4 DEF FrameworkReads
    <3>2. Known' = Known /\ unread.wake \in Nat
      BY <2>1, <3>1 DEF Known, Pending, WakeInv, QueueTyped
    <3> QED BY <2>1, <2>2, <3>1, <3>2 DEF WakeInv, QueueTyped
  <2> QED BY <2>3, <2>4
<1>7. CASE ReadWakeLockFMQ
  <2>1. UNCHANGED <<unread, uncounted, run, call>>
    BY <1>7 DEF ReadWakeLockFMQ
  <2>2. Locked' <=> Locked
    BY <2>1 DEF Locked
  <2>3. CASE wakeQueue = << >>
    <3>1. UpdateWakeLock(0, 0) /\ UNCHANGED wakeQueue
      BY <1>7, <2>3 DEF ReadWakeLockFMQ
    <3>2. /\ mOutstandingWakeUpEvents' \in Nat
          /\ mHasWakeLock' <=> mOutstandingWakeUpEvents' > 0
          /\ ~ released' => \/ mOutstandingWakeUpEvents' >= Known + 0 - 0
                            \/ Known + 0 <= 0
      BY <3>1, UpdateKeeps
    <3>3. Known' = Known /\ Known \in Int
      BY <2>1, <3>1 DEF Known, Pending, WakeInv, QueueTyped
    <3> QED BY <2>1, <2>2, <3>1, <3>2, <3>3 DEF WakeInv, QueueTyped
  <2>4. CASE wakeQueue # << >>
    <3>1. PICK n \in Nat : wakeQueue = <<n>>
      BY <2>4 DEF WakeInv, QueueTyped
    <3>2. UpdateWakeLock(0, n) /\ wakeQueue' = << >>
      BY <1>7, <2>4, <3>1 DEF ReadWakeLockFMQ
    <3>3. /\ mOutstandingWakeUpEvents' \in Nat
          /\ mHasWakeLock' <=> mOutstandingWakeUpEvents' > 0
          /\ ~ released' => \/ mOutstandingWakeUpEvents' >= Known + 0 - n
                            \/ Known + 0 <= n
      BY <3>2, UpdateKeeps
    <3>4. Known' \in Int /\ Known \in Int /\ Known = Known' + n
      BY <2>1, <3>1, <3>2 DEF Known, Pending, WakeInv, QueueTyped
    <3>5. ASSUME ~ released' PROVE mOutstandingWakeUpEvents' >= Known'
      <4>1. \/ mOutstandingWakeUpEvents' >= Known + 0 - n
            \/ Known + 0 <= n
        BY <3>3, <3>5
      <4>2. \A a, b \in Int, m \in Nat :
              a = b + n /\ (m >= a + 0 - n \/ a + 0 <= n) => m >= b
        OBVIOUS
      <4>3. mOutstandingWakeUpEvents' \in Nat
        BY <3>3
      <4> QED BY <3>4, <4>1, <4>2, <4>3
    <3> QED BY <2>1, <2>2, <3>2, <3>3, <3>5 DEF WakeInv, QueueTyped
  <2> QED BY <2>3, <2>4
<1>8. CASE BinderGoesOn
  <2>1. CASE FlushEnds
    BY <2>1, CountKeeps DEF FlushEnds
  <2>2. ASSUME NEW s \in Sensors, Forget(s) \/ SetMode(s) \/ Disable(s) PROVE WakeInv'
    <3>0. call.op # "posting" /\ UNCHANGED run
      <4>1. CASE Forget(s)
        BY <4>1 DEF Forget, Forgets
      <4>2. CASE SetMode(s)
        BY <4>2 DEF SetMode
      <4>3. CASE Disable(s)
        BY <4>3 DEF Disable
      <4> QED BY <2>2, <4>1, <4>2, <4>3
    <3>1. call # Flushing /\ UNCHANGED run
      BY <3>0 DEF Flushing
    <3>2. Locked => Locked'
      BY <3>1 DEF Locked
    <3> QED BY <1>1, <2>2, <3>2 DEF Forget, SetMode, Disable
  <2>3. CASE StopWakeThread
    BY <1>1, <2>3 DEF StopWakeThread, Locked, Flushing
  <2> QED BY <1>5, <1>8, <2>1, <2>2, <2>3 DEF BinderGoesOn
<1>9. CASE SetOperationMode
  BY <1>1, <1>9 DEF SetOperationMode, Locked, NoCall, Flushing
<1>10. CASE IioConnects \/ IioReplays \/ TimePasses \/ UNCHANGED vars
  BY <1>1, <1>10 DEF IioConnects, IioReplays, IioReplaysBatch,
     IioReplaysActivate, IioNext, IioRests, TimePasses, vars, Locked
<1> QED BY <1>2, <1>3, <1>4, <1>6, <1>7, <1>8, <1>9, <1>10 DEF Next

(* An event of a WakeUp sensor that waits to be read or acknowledged keeps  *)
(* the wake lock from the moment it is counted, unless its time has passed  *)
(* once, though events are read and acknowledged before they are counted    *)
(* (Sensors.h:101-116, 140-152, 157-189; Sensors.cpp:87).                   *)
THEOREM WakeLockIsHeld == Spec => []HeldWhileUnread
<1>1. WakeInv => HeldWhileUnread
  <2> SUFFICES ASSUME WakeInv, Known > 0, ~ released PROVE mHasWakeLock
    BY DEF HeldWhileUnread
  <2>1. Known \in Int
    BY DEF Known, Pending, WakeInv, QueueTyped
  <2>2. mOutstandingWakeUpEvents > 0
    BY <2>1 DEF WakeInv, QueueTyped
  <2>3. mHasWakeLock <=> mOutstandingWakeUpEvents > 0
    BY DEF WakeInv
  <2> QED BY <2>2, <2>3, Zenon
<1>2. Init => RunTyped
  BY DEF Init, RunTyped
<1> QED BY <1>1, <1>2, WakeInit, RunStep, WakeStep, PTL DEF Spec
-----------------------------------------------------------------------------
(* What was asked for and what the server was told, sensor by sensor: before *)
(* the thread comes to it, while it is about to call batch or activate with  *)
(* what it has read, and afterwards.                                         *)
Periods == {Clamped(period) : period \in Asked} \cup {0}

ReplayTyped ==
  /\ iio.at \in {"connect", "next", "batch", "activate"}
  /\ found \subseteq Sensors /\ iio.todo \subseteq found
  /\ iio.at = "connect" => found = {}
  /\ iio.at \in {"batch", "activate"} =>
       /\ iio.sensor \in found \ iio.todo /\ iio.read \in Periods
       /\ iio = [at |-> iio.at, todo |-> iio.todo, sensor |-> iio.sensor, read |-> iio.read]
  /\ mIsEnabled \in [Sensors -> BOOLEAN]
  /\ mSamplingPeriodNs \in [Sensors -> Periods] /\ sampling \in [Sensors -> Periods]
  /\ rate \in [Sensors -> Periods]

Unreplayed(s) ==
  s \notin found \/ s \in iio.todo =>
    /\ s \in wanted <=> mIsEnabled[s]
    /\ s \in channels => s \in wanted
    /\ sampling[s] = mSamplingPeriodNs[s] /\ rate[s] \in {0, sampling[s]}

Unfound(s) == s \notin found => rate[s] = 0 /\ s \notin channels

Batching(s) ==
  iio.at = "batch" /\ s = iio.sensor =>
    /\ s \in wanted <=> mIsEnabled[s]
    /\ s \in channels => s \in wanted
    /\ \/ <<s, "batch">> \in raced
       \/ iio.read = mSamplingPeriodNs[s] /\ rate[s] \in {0, mSamplingPeriodNs[s]}

Activating(s) ==
  iio.at = "activate" /\ s = iio.sensor =>
    /\ mIsEnabled[s] \/ <<s, "activate">> \in raced
    /\ rate[s] = mSamplingPeriodNs[s] \/ <<s, "batch">> \in raced

Replayed(s) ==
  s \in found /\ s \notin iio.todo /\ ~ IioAbout(s) =>
    /\ (s \in channels <=> mIsEnabled[s]) \/ <<s, "activate">> \in raced
    /\ rate[s] = mSamplingPeriodNs[s] \/ <<s, "batch">> \in raced

SensorInv(s) ==
  Unreplayed(s) /\ Unfound(s) /\ Batching(s) /\ Activating(s) /\ Replayed(s)

ReplayInv == ReplayTyped /\ \A s \in Sensors : SensorInv(s)

LEMMA ReplayInit == Init => ReplayInv
BY DEF Init, ReplayInv, SensorInv, ReplayTyped, Unreplayed, Unfound, Batching, Activating,
   Replayed, IioAbout, Periods

(* A call of the framework for t. *)
LEMMA ActivateFollows ==
  ASSUME ReplayInv, NEW t \in Sensors, NEW enable \in BOOLEAN, Activate(t, enable),
         UNCHANGED <<iio, found, sampling, rate, mSamplingPeriodNs>>
  PROVE  ReplayInv'
<1> USE DEF ReplayInv
<1>1. CASE mIsEnabled[t] = enable
  <2>1. UNCHANGED <<mIsEnabled, wanted, channels, raced>>
    BY <1>1 DEF Activate, iioStates
  <2> QED BY <2>1 DEF SensorInv, ReplayTyped, Unreplayed, Unfound, Batching, Activating,
             Replayed, IioAbout
<1>2. CASE mIsEnabled[t] # enable
  <2>1. /\ mIsEnabled' = [mIsEnabled EXCEPT ![t] = enable]
        /\ wanted' = IF enable THEN wanted \cup {t} ELSE wanted \ {t}
        /\ channels' = IF t \notin found THEN channels
                       ELSE IF enable THEN channels \cup {t} ELSE channels \ {t}
        /\ raced' = IF IioAbout(t) THEN raced \cup {<<t, "activate">>}
                                   ELSE raced \ {<<t, "activate">>}
    BY <1>2 DEF Activate, IioActivate, Overtaken
  <2>2. ReplayTyped'
    BY <2>1 DEF ReplayTyped
  <2>3. ASSUME NEW s \in Sensors, s # t PROVE SensorInv(s)'
    <3>1. /\ mIsEnabled'[s] = mIsEnabled[s] /\ (s \in wanted' <=> s \in wanted)
          /\ (s \in channels' <=> s \in channels)
          /\ \A op : <<s, op>> \in raced' <=> <<s, op>> \in raced
      BY <2>1, <2>3 DEF ReplayTyped
    <3> QED BY <3>1 DEF SensorInv, Unreplayed, Unfound, Batching, Activating, Replayed, IioAbout
  <2>4. SensorInv(t)'
    <3>1. mIsEnabled'[t] = enable /\ (t \in wanted' <=> enable)
      BY <2>1 DEF ReplayTyped
    <3>2. t \in found => (t \in channels' <=> enable)
      BY <2>1
    <3>3. t \notin found => t \notin channels'
      BY <2>1 DEF SensorInv, Unfound
    <3>4. /\ <<t, "batch">> \in raced => <<t, "batch">> \in raced'
          /\ IioAbout(t) => <<t, "activate">> \in raced'
      BY <2>1
    <3> QED BY <3>1, <3>2, <3>3, <3>4 DEF SensorInv, ReplayTyped, Unreplayed, Unfound,
               Batching, Activating, Replayed, IioAbout
  <2> QED BY <2>2, <2>3, <2>4
<1> QED BY <1>1, <1>2

LEMMA BatchFollows ==
  ASSUME ReplayInv, NEW t \in Sensors, Batch(t)
  PROVE  ReplayInv'
<1> USE DEF ReplayInv, iioStates, iioRates
<1>1. UNCHANGED <<mIsEnabled, iio, found, wanted, channels>>
  BY DEF Batch
<1>2. PICK period \in Asked :
        /\ mSamplingPeriodNs' = [mSamplingPeriodNs EXCEPT ![t] = Clamped(period)]
        /\ IF Clamped(period) = mSamplingPeriodNs[t]
            THEN UNCHANGED <<notified, iioRates, raced>>
            ELSE NotifyAll(t) /\ IioBatch(t, Clamped(period)) /\ Overtaken(t, "batch")
  BY DEF Batch
<1>3. Clamped(period) \in Periods
  BY DEF Periods
<1>4. CASE Clamped(period) = mSamplingPeriodNs[t]
  <2>1. UNCHANGED <<mSamplingPeriodNs, sampling, rate, raced>>
    BY <1>2, <1>4 DEF ReplayTyped
  <2> QED BY <1>1, <2>1 DEF SensorInv, ReplayTyped, Unreplayed, Unfound, Batching, Activating,
             Replayed, IioAbout
<1>5. CASE Clamped(period) # mSamplingPeriodNs[t]
  <2>1. /\ mSamplingPeriodNs' = [mSamplingPeriodNs EXCEPT ![t] = Clamped(period)]
        /\ sampling' = [sampling EXCEPT ![t] = Clamped(period)]
        /\ rate' = IF t \in found THEN [rate EXCEPT ![t] = Clamped(period)] ELSE rate
        /\ raced' = IF IioAbout(t) THEN raced \cup {<<t, "batch">>}
                                   ELSE raced \ {<<t, "batch">>}
    BY <1>2, <1>5 DEF IioBatch, Overtaken
  <2>2. ReplayTyped'
    BY <1>1, <1>3, <2>1 DEF ReplayTyped
  <2>3. ASSUME NEW s \in Sensors, s # t PROVE SensorInv(s)'
    <3>1. /\ mSamplingPeriodNs'[s] = mSamplingPeriodNs[s] /\ sampling'[s] = sampling[s]
          /\ rate'[s] = rate[s]
          /\ \A op : <<s, op>> \in raced' <=> <<s, op>> \in raced
      BY <2>1, <2>3 DEF ReplayTyped
    <3> QED BY <1>1, <3>1 DEF SensorInv, Unreplayed, Unfound, Batching, Activating, Replayed,
               IioAbout
  <2>4. SensorInv(t)'
    <3>1. /\ mSamplingPeriodNs'[t] = Clamped(period) /\ sampling'[t] = Clamped(period)
          /\ t \in found => rate'[t] = Clamped(period)
          /\ t \notin found => rate'[t] = rate[t]
      BY <2>1 DEF ReplayTyped
    <3>2. /\ <<t, "activate">> \in raced => <<t, "activate">> \in raced'
          /\ IioAbout(t) => <<t, "batch">> \in raced'
      BY <2>1
    <3> QED BY <1>1, <3>1, <3>2 DEF SensorInv, ReplayTyped, Unreplayed, Unfound,
               Batching, Activating, Replayed, IioAbout
  <2> QED BY <2>2, <2>3, <2>4
<1> QED BY <1>4, <1>5

(* The thread of the client. *)
LEMMA ConnectFollows ==
  ASSUME ReplayInv, IioConnects
  PROVE  ReplayInv'
<1> USE DEF ReplayInv, iioStates, iioRates, sensorVars
<1>1. PICK some \in SUBSET Sensors \ {{}} :
        found' = some /\ iio' = [at |-> "next", todo |-> some]
  BY DEF IioConnects
<1>2. /\ iio'.at = "next" /\ iio'.todo = found' /\ found' \subseteq Sensors
      /\ iio.at = "connect"
      /\ UNCHANGED <<mIsEnabled, mSamplingPeriodNs, wanted, channels, sampling, rate, raced>>
  BY <1>1 DEF IioConnects, IioRests
<1>3. ReplayTyped'
  BY <1>2 DEF ReplayTyped
<1>4. \A s \in Sensors : SensorInv(s)'
  BY <1>2 DEF SensorInv, ReplayTyped, Unreplayed, Unfound, Batching, Activating, Replayed
<1> QED BY <1>3, <1>4

LEMMA NextFollows ==
  ASSUME ReplayInv, NEW t \in Sensors, IioNext(t)
  PROVE  ReplayInv'
<1> USE DEF ReplayInv, iioStates, iioRates, sensorVars
<1>1. iio' = [at |-> "batch", todo |-> iio.todo \ {t}, sensor |-> t, read |-> sampling[t]]
  BY DEF IioNext
<1>2. /\ iio'.at = "batch" /\ iio'.todo = iio.todo \ {t}
      /\ iio'.sensor = t /\ iio'.read = sampling[t]
      /\ iio.at = "next" /\ t \in iio.todo
      /\ UNCHANGED <<found, mIsEnabled, mSamplingPeriodNs, wanted, channels, sampling, rate,
                     raced>>
  BY <1>1 DEF IioNext, IioRests
<1>3. ReplayTyped'
  BY <1>1, <1>2 DEF ReplayTyped
<1>4. \A s \in Sensors : SensorInv(s)'
  BY <1>2 DEF SensorInv, ReplayTyped, Unreplayed, Unfound, Batching, Activating, Replayed,
     IioAbout
<1> QED BY <1>3, <1>4

LEMMA BatchReplayFollows ==
  ASSUME ReplayInv, IioReplaysBatch
  PROVE  ReplayInv'
<1> USE DEF ReplayInv, iioStates, iioRates, sensorVars
<1>0. PICK t \in Sensors : t = iio.sensor
  BY DEF ReplayTyped, IioReplaysBatch
<1>1. /\ iio.at = "batch" /\ t = iio.sensor /\ t \in found \ iio.todo
      /\ iio = [at |-> iio.at, todo |-> iio.todo, sensor |-> iio.sensor, read |-> iio.read]
      /\ UNCHANGED <<found, mIsEnabled, mSamplingPeriodNs, wanted, channels, raced>>
  BY <1>0 DEF IioReplaysBatch, IioRests, ReplayTyped
<1>2. /\ iio'.todo = iio.todo
      /\ t \in wanted => iio'.at = "activate" /\ iio'.sensor = t
      /\ t \notin wanted => iio'.at = "next"
      /\ iio'.at = "activate" =>
           iio' = [at |-> "activate", todo |-> iio.todo, sensor |-> t, read |-> 0]
  BY <1>1 DEF IioReplaysBatch, IioGoesOn
<1>3. \A s \in Sensors : s # t => sampling'[s] = sampling[s] /\ rate'[s] = rate[s]
  BY <1>1 DEF IioReplaysBatch, IioBatch, ReplayTyped
<1>4. rate'[t] = mSamplingPeriodNs[t] \/ <<t, "batch">> \in raced
  BY <1>1 DEF IioReplaysBatch, IioBatch, ReplayTyped, SensorInv, Batching
<1>5. sampling' \in [Sensors -> Periods] /\ rate' \in [Sensors -> Periods]
  <2>1. iio.read \in Periods
    BY <1>1 DEF ReplayTyped
  <2> QED BY <1>1, <2>1 DEF IioReplaysBatch, IioBatch, ReplayTyped
<1>6. ReplayTyped'
  <2>1. iio'.at # "connect" /\ iio'.at \in {"next", "activate"} /\ iio'.todo \subseteq found'
    BY <1>1, <1>2 DEF ReplayTyped
  <2>2. 0 \in Periods
    BY DEF Periods
  <2>3. iio'.at \in {"batch", "activate"} =>
          /\ iio'.sensor \in found' \ iio'.todo /\ iio'.read \in Periods
          /\ iio' = [at |-> iio'.at, todo |-> iio'.todo, sensor |-> iio'.sensor,
                     read |-> iio'.read]
    BY <1>1, <1>2, <2>1, <2>2
  <2> QED BY <1>1, <1>5, <2>1, <2>3 DEF ReplayTyped
<1>7. ASSUME NEW s \in Sensors, s # t PROVE SensorInv(s)'
  BY <1>1, <1>2, <1>3, <1>7 DEF SensorInv, Unreplayed, Unfound, Batching, Activating,
     Replayed, IioAbout
<1>8. SensorInv(t)'
  <2>1. /\ t \in wanted <=> mIsEnabled[t]
        /\ t \in channels => t \in wanted
    BY <1>1 DEF SensorInv, Batching
  <2>2. /\ t \in found' /\ t \notin iio'.todo
        /\ iio'.at # "batch"
        /\ t \in wanted => iio'.at = "activate" /\ iio'.sensor = t
    BY <1>1, <1>2
  <2>3. Unreplayed(t)' /\ Unfound(t)' /\ Batching(t)'
    BY <2>2 DEF Unreplayed, Unfound, Batching
  <2>4. Activating(t)'
    BY <1>1, <1>2, <1>4, <2>1 DEF Activating
  <2>5. Replayed(t)'
    BY <1>1, <1>2, <1>4, <2>1, <2>2 DEF Replayed, IioAbout
  <2> QED BY <2>3, <2>4, <2>5 DEF SensorInv
<1> QED BY <1>6, <1>7, <1>8

LEMMA ActivateReplayFollows ==
  ASSUME ReplayInv, IioReplaysActivate
  PROVE  ReplayInv'
<1> USE DEF ReplayInv, iioStates, iioRates, sensorVars
<1>0. PICK t \in Sensors : t = iio.sensor
  BY DEF ReplayTyped, IioReplaysActivate
<1>1. /\ iio.at = "activate" /\ t = iio.sensor /\ t \in found \ iio.todo
      /\ UNCHANGED <<found, mIsEnabled, mSamplingPeriodNs, sampling, rate, raced>>
  BY <1>0 DEF IioReplaysActivate, IioRests, ReplayTyped
<1>2. iio'.todo = iio.todo /\ iio'.at = "next"
  BY DEF IioReplaysActivate, IioGoesOn
<1>3. /\ t \in wanted' /\ t \in channels'
      /\ \A s \in Sensors : s # t => /\ s \in wanted' <=> s \in wanted
                                     /\ s \in channels' <=> s \in channels
  BY <1>1 DEF IioReplaysActivate, IioActivate
<1>4. ReplayTyped'
  BY <1>1, <1>2 DEF ReplayTyped
<1>5. ASSUME NEW s \in Sensors PROVE SensorInv(s)'
  BY <1>1, <1>2, <1>3 DEF SensorInv, Unreplayed, Unfound, Batching, Activating,
     Replayed, IioAbout
<1> QED BY <1>4, <1>5

LEMMA ReplayStep == ReplayInv /\ [Next]_vars => ReplayInv'
<1> SUFFICES ASSUME ReplayInv, [Next]_vars PROVE ReplayInv'
  OBVIOUS
<1> USE DEF sensorVars, iioVars, iioStates, iioRates
<1>1. CASE UNCHANGED <<mIsEnabled, mSamplingPeriodNs, iio, found, wanted, channels, sampling,
                       rate, raced>>
  BY <1>1 DEF ReplayInv, SensorInv, ReplayTyped, Unreplayed, Unfound, Batching, Activating,
     Replayed, IioAbout
<1>2. ASSUME NEW s \in Sensors, Calls(s) PROVE ReplayInv'
  <2>1. ASSUME NEW enable \in BOOLEAN, ActivateCalled(s, enable) PROVE ReplayInv'
    BY <2>1, ActivateFollows DEF ActivateCalled
  <2>2. CASE FlushOrInject(s)
    BY <1>1, <2>2 DEF FlushOrInject
  <2> QED BY <1>2, <2>1, <2>2, BatchFollows DEF Calls
<1>3. ASSUME NEW s \in Sensors, Run(s) PROVE ReplayInv'
  BY <1>1, <1>3 DEF Run, SampleTime, SampleWoken, SampleEnds, RunWaits, Sample
<1>4. CASE BinderGoesOn
  <2>1. ASSUME NEW s \in Sensors, Disable(s) PROVE ReplayInv'
    BY <2>1, ActivateFollows DEF Disable
  <2>2. ASSUME NEW s \in Sensors, Forget(s) \/ SetMode(s) PROVE ReplayInv'
    BY <1>1, <2>2 DEF Forget, SetMode
  <2>3. CASE FlushEnds \/ StopWakeThread \/ StartWakeThread
    BY <1>1, <2>3 DEF FlushEnds, StopWakeThread, StartWakeThread
  <2> QED BY <1>4, <2>1, <2>2, <2>3 DEF BinderGoesOn
<1>5. CASE SetOperationMode \/ Initialize \/ FrameworkReads \/ ReadWakeLockFMQ \/ TimePasses
           \/ UNCHANGED vars
  BY <1>1, <1>5 DEF SetOperationMode, Initialize, FrameworkReads, ReadWakeLockFMQ,
     TimePasses, vars
<1>6. CASE IioReplays
  BY <1>6, NextFollows, BatchReplayFollows, ActivateReplayFollows DEF IioReplays
<1> QED BY <1>2, <1>3, <1>4, <1>5, <1>6, ConnectFollows DEF Next

(* Once the client has gone through its sensors, the server's channels and    *)
(* rates are the framework's, but for a sensor that was called for between    *)
(* the thread's look at it and its call (iioClient.cpp:66-90).                *)
THEOREM ServerIsTold == Spec => []ServerFollows
<1>1. ReplayInv => ServerFollows
  <2> SUFFICES ASSUME ReplayInv, NEW s \in found, s \notin iio.todo, ~ IioAbout(s)
               PROVE  /\ (s \in channels <=> mIsEnabled[s]) \/ <<s, "activate">> \in raced
                      /\ rate[s] = mSamplingPeriodNs[s] \/ <<s, "batch">> \in raced
    BY DEF ServerFollows
  <2>1. s \in Sensors
    BY DEF ReplayInv, ReplayTyped
  <2> QED BY <2>1 DEF ReplayInv, SensorInv, Replayed
<1> QED BY <1>1, ReplayInit, ReplayStep, PTL DEF Spec

-------------------------------------------------------------------------------
(* Health: the battery is watched.                                         *)

(* What the loop does when it is about to update the battery. *)
Updating == {"chores", "adjust", "event_chores", "event_adjust"}

Clocked ==
  /\ wakealarm_wake_interval_ \in {Fast, Slow}
  /\ alarm \in 1 .. wakealarm_wake_interval_
  /\ expired \in BOOLEAN
  /\ age \in 0 .. Late

(* The alarm, which counts on through suspensions, is set for no later than *)
(* the interval after the last update, or has expired and is still to be    *)
(* read, or was read and the update is under way.  Its interval is at most  *)
(* that for the charger: it starts with the shorter one.                    *)
Watched ==
  /\ charger_online_ => wakealarm_wake_interval_ = Fast
  /\ expired \/ at \in Updating \/ age + alarm <= wakealarm_wake_interval_

LoopInv == Clocked /\ Watched

LEMMA Intervals == Fast \in 1 .. Fast /\ Slow \in 1 .. Slow /\ 0 \in 0 .. Late
<1>1. Fast \in Nat /\ Slow \in Nat /\ Fast > 0 /\ Slow > 0
  BY HealthAssumption
<1> QED BY <1>1 DEF Late

LEMMA LoopInit == HealthInit => LoopInv
<1> SUFFICES ASSUME HealthInit PROVE LoopInv
  OBVIOUS
<1>1. /\ wakealarm_wake_interval_ = Fast /\ alarm = Fast /\ age = 0
      /\ expired = FALSE /\ charger_online_ = FALSE
  BY DEF HealthInit
<1>2. Clocked
  BY <1>1, Intervals DEF Clocked
<1>3. Watched
  BY <1>1, HealthAssumption DEF Watched
<1> QED BY <1>2, <1>3 DEF LoopInv

LEMMA LoopStep == LoopInv /\ [HealthNext]_healthVars => LoopInv'
<1> SUFFICES ASSUME LoopInv, [HealthNext]_healthVars PROVE LoopInv'
  OBVIOUS
<1> USE HealthAssumption DEF LoopInv, Clocked, Watched
<1>1. CASE MainLoop
  <2>1. CASE Top
    BY <2>1 DEF Top, intervals, timer, past, Updating
  <2>2. CASE Update
    BY <2>2 DEF Update, intervals, timer, Updating
  <2>3. CASE OnHealthInfoChanged
    <3>1. age' = 0 /\ Late \in Nat
      BY <2>3 DEF OnHealthInfoChanged, Late
    <3>2. charger_online_' => wakealarm_wake_interval_' = Fast
      BY <2>3 DEF OnHealthInfoChanged, AdjustWakealarmPeriods, WakeAlarmSetInterval
    <3>3. PICK interval \in {Fast, Slow} :
            \/ UNCHANGED <<timer, wakealarm_wake_interval_>>
            \/ WakeAlarmSetInterval(interval)
      BY <2>3 DEF OnHealthInfoChanged, AdjustWakealarmPeriods
    <3>4. CASE UNCHANGED <<timer, wakealarm_wake_interval_>>
      BY <3>1, <3>2, <3>4 DEF timer
    <3>5. CASE WakeAlarmSetInterval(interval)
      <4>1. wakealarm_wake_interval_' = interval /\ alarm' = interval /\ expired' = FALSE
        BY <3>5 DEF WakeAlarmSetInterval
      <4>2. alarm' \in 1 .. wakealarm_wake_interval_'
        BY <4>1, <3>3, Intervals
      <4>3. Clocked'
        BY <3>1, <3>3, <4>1, <4>2, Intervals
      <4>4. age' + alarm' <= wakealarm_wake_interval_'
        BY <3>1, <3>3, <4>1
      <4> QED BY <3>2, <4>3, <4>4
    <3> QED BY <3>3, <3>4, <3>5
  <2>4. CASE Wait
    BY <2>4 DEF Wait, intervals, timer, past, Updating
  <2>5. CASE Handle
    <3>1. UNCHANGED <<wakealarm_wake_interval_, charger_online_, alarm, age>>
      BY <2>5 DEF Handle, intervals, timer, WakeAlarmEvent, UeventEvent, BinderEvent
    <3>2. at \notin Updating
      BY <2>5 DEF Handle, Updating
    <3>3. CASE WakeAlarmEvent
      <4>1. expired' = FALSE /\ (expired => at' = "event_chores")
        BY <3>3 DEF WakeAlarmEvent
      <4> QED BY <3>1, <3>2, <4>1 DEF Updating
    <3>4. CASE UeventEvent \/ BinderEvent
      <4>1. expired' = expired
        BY <3>4 DEF UeventEvent, BinderEvent, timer
      <4> QED BY <3>1, <3>2, <4>1
    <3> QED BY <2>5, <3>3, <3>4 DEF Handle
  <2>6. CASE Handled
    BY <2>6 DEF Handled, intervals, timer, past, Updating
  <2> QED BY <1>1, <2>1, <2>2, <2>3, <2>4, <2>5, <2>6 DEF MainLoop, ScheduleBatteryUpdate
<1>2. CASE recv_vsock
  <2>1. UNCHANGED <<at, wakealarm_wake_interval_, charger_online_, alarm, expired, age>>
    BY <1>2 DEF recv_vsock, parse_init_properties, parse_battery_properties, loop,
       intervals, timer, past
  <2> QED BY <2>1
<1>3. CASE ClockTicks
  <2>1. /\ UNCHANGED <<at, wakealarm_wake_interval_, charger_online_>>
        /\ alarm' = IF alarm = 1 THEN wakealarm_wake_interval_ ELSE alarm - 1
        /\ expired' = (expired \/ alarm = 1)
        /\ age' = IF age < Late THEN age + 1 ELSE age
    BY <1>3 DEF ClockTicks, intervals
  <2>2. age' \in 0 .. Late
    BY <2>1 DEF Late
  <2>3. CASE alarm = 1
    <3>1. expired' = TRUE /\ alarm' = wakealarm_wake_interval_
      BY <2>1, <2>3
    <3>2. alarm' \in 1 .. wakealarm_wake_interval_
      BY <3>1
    <3> QED BY <2>1, <2>2, <3>1, <3>2
  <2>4. CASE alarm # 1
    BY <2>1, <2>2, <2>4
  <2> QED BY <2>3, <2>4
<1>4. CASE Sleeps \/ Uevent \/ ClientCalls
  BY <1>4 DEF Sleeps, Uevent, ClientCalls, loop, intervals, timer, past
<1>5. CASE UNCHANGED healthVars
  BY <1>5 DEF healthVars, loop, intervals, timer, past
<1> QED BY <1>1, <1>2, <1>3, <1>4, <1>5 DEF HealthNext

(* An awake device waits with no state of the battery that is older than    *)
(* the interval for its charger (HealthLoop.cpp:81, 98, 174).               *)
THEOREM BatteryIsUpdated == HealthSpec => []UpdatedInTime
<1>1. LoopInv => UpdatedInTime
  <2> SUFFICES ASSUME LoopInv, Waiting
               PROVE  age <= IF charger_online_ THEN Fast ELSE Slow
    BY DEF UpdatedInTime
  <2>1. ~ expired
    BY DEF Waiting, Readable, Events
  <2>2. at \notin Updating
    BY DEF Waiting, Updating
  <2> QED BY <2>1, <2>2, HealthAssumption DEF LoopInv, Clocked, Watched, Late
<1>2. LoopInv /\ [HealthNext]_healthVars => LoopInv'
  BY LoopStep
<1> QED BY <1>1, <1>2, LoopInit, PTL DEF HealthSpec
===============================================================================
