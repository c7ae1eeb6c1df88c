------------------------------ MODULE SensorsHal ------------------------------
(***************************************************************************)
(* The sensors HAL, sensors/aidl: Sensors with its event queue and wake    *)
(* lock (Sensors.cpp, Sensors.h), the sampling thread of each Sensor       *)
(* (Sensor.cpp), and iioClient, whose thread connects to the sensors'      *)
(* server and replays what was asked for before it was there.              *)
(*                                                                         *)
(* The process has one binder thread (main.cpp), so calls come one at a    *)
(* time.  A sampling thread holds mRunMutex for a whole iteration and      *)
(* activate() for all it does under it.  A post is two actions: once an    *)
(* event is written the framework may read it and acknowledge it, and only *)
(* then is it counted; mWriteLock keeps other posts out, and no one else.  *)
(* What is read from the server and the layout of events are left out.     *)
(***************************************************************************)
EXTENDS Integers, Sequences, FiniteSets

CONSTANTS
  Sensors,
  OnChange,  \* those that report when their value changes
  WakeUp,    \* those whose events must not be slept over
  MinDelay, MaxDelay, \* minDelayUs * 1000 and maxDelayUs * 1000
  Word,      \* 2^32, the values of an int32_t
  Asked,     \* bound: the sampling periods that are asked for
  Capacity,  \* bound: the size of the event queue
  MaxInits   \* bound: how often the framework initializes

ASSUME SensorsAssumption ==
  /\ OnChange \subseteq Sensors /\ WakeUp \subseteq Sensors
  /\ Word \in Nat \ {0} /\ Asked \subseteq Nat
  /\ MinDelay \in Nat /\ MaxDelay \in Nat /\ MinDelay <= MaxDelay
  /\ Capacity \in Nat \ {0} /\ MaxInits \in Nat

VARIABLES
  mIsEnabled, mMode, mSamplingPeriodNs,
  mPreviousEventSet,
  run,       \* where the sampling thread is: it waits for mWaitCV, or for its next
             \* time, or has written an event that it has not yet counted
  notified,  \* mWaitCV was notified while it waited
  call,      \* the binder thread's call, and the sensors it has still to do
  session,   \* how many event queues there have been
  unread,    \* the events in the queue: those of WakeUp sensors and the others
  wakeQueue, \* how many WakeUp events the framework has handled, as it writes it
  wakeThread,\* readWakeLockFMQ: "none", "running" or "done"
  mReadWakeLockQueueRun,
  mOutstandingWakeUpEvents, mHasWakeLock,
  overdue,   \* mAutoReleaseWakeLockTime has passed
  uncounted, \* the events that postEvents has written and not yet counted
  iio,       \* iioThread: what it does, the sensors it has still to do, what it read
  found,     \* is_initialized: the server has the sensor
  wanted,    \* is_enabled
  sampling,  \* sampling_period_ns
  channels,  \* the sensor's channels are enabled at the server
  rate,      \* the period the sensor's frequency is set for at the server
  reported,  \* "yes" if an event was written since the sensor was enabled,
             \* "dropped" if one did not fit the queue (history)
  raced,     \* calls that changed what the replay had read (history)
  released   \* the wake lock was let go by time, with events pending (history)

sensorVars == <<mIsEnabled, mMode, mSamplingPeriodNs, mPreviousEventSet>>
threadVars == <<run, notified>>
countVars  == <<mOutstandingWakeUpEvents, mHasWakeLock, overdue, released>>
wakeVars   == <<countVars, uncounted>>
queueVars  == <<session, unread, wakeQueue>>
lockThread == <<wakeThread, mReadWakeLockQueueRun>>
iioStates  == <<wanted, channels>>
iioRates   == <<sampling, rate>>
iioVars    == <<iio, found, iioStates, iioRates, raced>>
vars == <<sensorVars, threadVars, wakeVars, queueVars, lockThread, iioVars, reported,
          call>>

NoCall   == [op |-> "none", todo |-> {}]
Flushing == [op |-> "posting", todo |-> {}]

Init ==
  /\ mIsEnabled = [s \in Sensors |-> FALSE]
  /\ mMode = [s \in Sensors |-> "NORMAL"]
  /\ mSamplingPeriodNs = [s \in Sensors |-> 0]
  /\ mPreviousEventSet = [s \in Sensors |-> FALSE]
  /\ run = [s \in Sensors |-> "waiting"]
  /\ notified = [s \in Sensors |-> FALSE]
  /\ call = NoCall
  /\ session = 0
  /\ unread = [wake |-> 0, other |-> 0] /\ wakeQueue = << >>
  /\ wakeThread = "none" /\ mReadWakeLockQueueRun = FALSE
  /\ mOutstandingWakeUpEvents = 0 /\ mHasWakeLock = FALSE
  /\ overdue = FALSE /\ released = FALSE /\ uncounted = 0
  /\ iio = [at |-> "connect", todo |-> {}]
  /\ found = {} /\ wanted = {} /\ channels = {}
  /\ sampling = [s \in Sensors |-> 0] /\ rate = [s \in Sensors |-> 0]
  /\ reported = [s \in Sensors |-> "yes"] /\ raced = {}

On(s) == mIsEnabled[s] /\ mMode[s] = "NORMAL"
-------------------------------------------------------------------------------
(* The wake lock and the event queue. *)

Most(a, b) == IF a >= b THEN a ELSE b

\* The events of WakeUp sensors that the framework is not known to have handled.
Pending == unread.wake + (IF wakeQueue = << >> THEN 0 ELSE Head(wakeQueue))

\* Less those that are not counted yet; these may have been handled already.
Known == Pending - uncounted

\* Mutant: time is not looked at.
UpdateWakeLockForever(written, done) ==
  LET count == Most(0, mOutstandingWakeUpEvents + written - done)
  IN  /\ overdue' = (overdue /\ written = 0)
      /\ released' = FALSE
      /\ mOutstandingWakeUpEvents' = count
      /\ mHasWakeLock' = (count > 0)

\* updateWakeLock; taking and letting go of the lock succeed.
UpdateWakeLock(written, done) ==
  LET count == Most(0, mOutstandingWakeUpEvents + written - done)
      late  == overdue /\ written = 0
      left  == IF mHasWakeLock /\ late THEN 0 ELSE count
  IN  /\ overdue' = late
      /\ released' = \/ left < count
                     \/ released /\ Known + written > done
      /\ mOutstandingWakeUpEvents' = left
      /\ mHasWakeLock' = (left > 0)

Fits(n) == session > 0 /\ unread.wake + unread.other + n <= Capacity

\* mWriteLock is held: by a sampling thread or by the binder thread.
Locked == call = Flushing \/ \E s \in Sensors : run[s] = "posting"

\* postEvents up to where it counts, which MustCount says it does.
PostEvents(s, n) ==
  /\ ~Locked
  /\ unread' = IF ~Fits(n) THEN unread
               ELSE [unread EXCEPT ![IF s \in WakeUp THEN "wake" ELSE "other"] = @ + n]
  /\ uncounted' = IF s \in WakeUp /\ Fits(n) THEN n ELSE 0

MustCount(s, n) == s \in WakeUp /\ Fits(n)

\* Mutant: an event that was written is not counted.
CountsNothing == UpdateWakeLock(0, 0) /\ uncounted' = 0

CountEvents == UpdateWakeLock(uncounted, 0) /\ uncounted' = 0

\* What the history keeps of n events of a sensor.
Records(s, n) ==
  reported' = IF n = 0 \/ reported[s] = "yes" THEN reported
              ELSE [reported EXCEPT ![s] = IF Fits(n) THEN "yes" ELSE "dropped"]
-------------------------------------------------------------------------------
(* The sampling threads. *)

\* readEvents() of an on-change sensor gives nothing if the value is the same.
ReadEvents(s) ==
  IF s \in OnChange /\ mPreviousEventSet[s] THEN {0, 1} ELSE {1}

Waits(s) ==
  /\ run' = [run EXCEPT ![s] = IF On(s) THEN "sleeping" ELSE "waiting"]
  /\ notified' = [notified EXCEPT ![s] = FALSE]

Posts(s) ==
  /\ run' = [run EXCEPT ![s] = "posting"]
  /\ notified' = [notified EXCEPT ![s] = FALSE]

Sample(s) ==
  /\ On(s)
  /\ \E n \in ReadEvents(s) :
       /\ PostEvents(s, n) /\ Records(s, n)
       /\ IF MustCount(s, n) THEN Posts(s) ELSE Waits(s)
  /\ mPreviousEventSet' = [mPreviousEventSet EXCEPT ![s] = s \in OnChange]
  /\ UNCHANGED <<mIsEnabled, mMode, mSamplingPeriodNs, countVars, session, wakeQueue,
                 lockThread, iioVars, call>>

\* postEvents ends, and with it the iteration.
SampleEnds(s) ==
  /\ run[s] = "posting"
  /\ CountEvents
  /\ Waits(s)
  /\ UNCHANGED <<sensorVars, queueVars, lockThread, iioVars, reported, call>>

\* The time of the next sample, or a notification that brings it forward.
SampleTime(s) == run[s] = "sleeping" /\ Sample(s)

\* Enabled, or back to normal, from mWaitCV.wait.
SampleWoken(s) == run[s] = "waiting" /\ notified[s] /\ Sample(s)

\* Woken before it is time, or to find that it was disabled or its data are injected.
RunWaits(s) ==
  /\ run[s] = "sleeping" \/ (run[s] = "waiting" /\ notified[s])
  /\ run[s] = "sleeping" => notified[s] \/ ~On(s)
  /\ Waits(s)
  /\ UNCHANGED <<sensorVars, wakeVars, queueVars, lockThread, iioVars, reported, call>>
-------------------------------------------------------------------------------
(* iioClient: what is asked for is stored, and done if the sensor is there. *)

IioActivate(s, enable) ==
  /\ wanted' = IF enable THEN wanted \cup {s} ELSE wanted \ {s}
  /\ channels' = IF s \notin found THEN channels
                 ELSE IF enable THEN channels \cup {s} ELSE channels \ {s}

IioBatch(s, period) ==
  /\ sampling' = [sampling EXCEPT ![s] = period]
  /\ rate' = IF s \in found THEN [rate EXCEPT ![s] = period] ELSE rate

\* The thread is about to call batch or activate with what it has read.
IioAbout(s) == iio.at \in {"batch", "activate"} /\ s = iio.sensor

Overtaken(s, op) == raced' = IF IioAbout(s) THEN raced \cup {<<s, op>>}
                                            ELSE raced \ {<<s, op>>}

IioRests == UNCHANGED <<sensorVars, threadVars, wakeVars, queueVars, lockThread,
                        reported, call>>

\* iioInit succeeds; while it does not, the thread sleeps and tries again.
IioConnects ==
  /\ iio.at = "connect"
  /\ \E some \in SUBSET Sensors \ {{}} :
       found' = some /\ iio' = [at |-> "next", todo |-> some]
  /\ UNCHANGED <<iioStates, iioRates, raced>> /\ IioRests

\* Its next sensor, and the period that was asked for it.
IioNext(s) ==
  /\ iio.at = "next" /\ s \in iio.todo
  /\ iio' = [at |-> "batch", todo |-> iio.todo \ {s}, sensor |-> s, read |-> sampling[s]]
  /\ UNCHANGED <<found, iioStates, iioRates, raced>> /\ IioRests

IioGoesOn(enabled) ==
  IF enabled THEN [iio EXCEPT !.at = "activate", !.read = 0]
             ELSE [at |-> "next", todo |-> iio.todo]

\* Mutant: what was enabled before the server was there is not enabled now.
IioReplaysBatchOnly ==
  /\ iio.at = "batch"
  /\ IF iio.read = 0 THEN UNCHANGED iioRates ELSE IioBatch(iio.sensor, iio.read)
  /\ iio' = IioGoesOn(FALSE)
  /\ UNCHANGED <<found, iioStates, raced>> /\ IioRests

\* batch() with the period, and the look at whether the sensor is enabled.
IioReplaysBatch ==
  /\ iio.at = "batch"
  /\ IF iio.read = 0 THEN UNCHANGED iioRates ELSE IioBatch(iio.sensor, iio.read)
  /\ iio' = IioGoesOn(iio.sensor \in wanted)
  /\ UNCHANGED <<found, iioStates, raced>> /\ IioRests

IioReplaysActivate ==
  /\ iio.at = "activate"
  /\ IioActivate(iio.sensor, TRUE)
  /\ iio' = IioGoesOn(FALSE)
  /\ UNCHANGED <<found, iioRates, raced>> /\ IioRests
-------------------------------------------------------------------------------
(* The calls of the framework. *)

NotifyAll(s) == notified' = [notified EXCEPT ![s] = TRUE]

\* Mutant: the thread is not notified.
ActivateSilently(s, enable) ==
  IF mIsEnabled[s] = enable
  THEN UNCHANGED <<mIsEnabled, iioStates, raced, notified, reported>>
  ELSE /\ run[s] # "posting"
       /\ mIsEnabled' = [mIsEnabled EXCEPT ![s] = enable]
       /\ IioActivate(s, enable) /\ Overtaken(s, "activate")
       /\ reported' = [reported EXCEPT ![s] = IF enable THEN "no" ELSE "yes"]
       /\ UNCHANGED notified

\* Sensor::activate, all of it under mRunMutex, which a thread that posts holds.
Activate(s, enable) ==
  IF mIsEnabled[s] = enable
  THEN UNCHANGED <<mIsEnabled, iioStates, raced, notified, reported>>
  ELSE /\ run[s] # "posting"
       /\ mIsEnabled' = [mIsEnabled EXCEPT ![s] = enable]
       /\ IioActivate(s, enable) /\ Overtaken(s, "activate")
       /\ NotifyAll(s)
       /\ reported' = [reported EXCEPT ![s] = IF enable THEN "no" ELSE "yes"]

Forgets(s) == [op |-> "forget", todo |-> {s}]

ActivateCalled(s, enable) ==
  /\ call = NoCall /\ session > 0
  /\ Activate(s, enable)
  /\ call' = IF s \in OnChange /\ ~enable THEN Forgets(s) ELSE NoCall
  /\ UNCHANGED <<mMode, mSamplingPeriodNs, mPreviousEventSet, run, wakeVars, queueVars,
                 lockThread, iio, found, iioRates>>

\* OnChangeSensor::activate goes on after mRunMutex is let go.
Forget(s) ==
  /\ call = Forgets(s)
  /\ mPreviousEventSet' = [mPreviousEventSet EXCEPT ![s] = FALSE]
  /\ call' = NoCall
  /\ UNCHANGED <<mIsEnabled, mMode, mSamplingPeriodNs, threadVars, wakeVars, queueVars,
                 lockThread, iioVars, reported>>

Signed(x) == LET low == x % Word IN IF 2 * low >= Word THEN low - Word ELSE low

\* Sensors::batch passes the int64_t on as an int32_t; Sensor::batch clamps it.
Clamped(period) ==
  LET p == Signed(period)
  IN  IF p < Signed(MinDelay) THEN Signed(MinDelay)
      ELSE IF p > Signed(MaxDelay) THEN Signed(MaxDelay) ELSE p

Batch(s) ==
  /\ call = NoCall /\ session > 0
  /\ \E period \in Asked :
       /\ mSamplingPeriodNs' = [mSamplingPeriodNs EXCEPT ![s] = Clamped(period)]
       /\ IF Clamped(period) = mSamplingPeriodNs[s]
          THEN UNCHANGED <<notified, iioRates, raced>>
          ELSE NotifyAll(s) /\ IioBatch(s, Clamped(period)) /\ Overtaken(s, "batch")
  /\ UNCHANGED <<mIsEnabled, mMode, mPreviousEventSet, run, wakeVars, queueVars,
                 lockThread, iio, found, iioStates, reported, call>>

\* A flush of an enabled sensor, or an injected event, posts one event.
FlushOrInject(s) ==
  /\ call = NoCall /\ session > 0
  /\ mIsEnabled[s] \/ mMode[s] = "DATA_INJECTION"
  /\ PostEvents(s, 1)
  /\ call' = IF MustCount(s, 1) THEN Flushing ELSE NoCall
  /\ UNCHANGED <<sensorVars, threadVars, countVars, session, wakeQueue, lockThread,
                 iioVars, reported>>

FlushEnds ==
  /\ call = Flushing
  /\ CountEvents
  /\ call' = NoCall
  /\ UNCHANGED <<sensorVars, threadVars, queueVars, lockThread, iioVars, reported>>

SetOperationMode ==
  /\ call = NoCall /\ session > 0
  /\ call' \in {[op |-> mode, todo |-> Sensors] : mode \in {"NORMAL", "DATA_INJECTION"}}
  /\ UNCHANGED <<sensorVars, threadVars, wakeVars, queueVars, lockThread, iioVars,
                 reported>>

SetMode(s) ==
  /\ call.op \in {"NORMAL", "DATA_INJECTION"} /\ s \in call.todo
  /\ mMode[s] # call.op => run[s] # "posting"
  /\ mMode' = [mMode EXCEPT ![s] = call.op]
  /\ IF mMode' # mMode THEN NotifyAll(s) ELSE UNCHANGED notified
  /\ call' = IF call.todo = {s} THEN NoCall ELSE [call EXCEPT !.todo = @ \ {s}]
  /\ UNCHANGED <<mIsEnabled, mSamplingPeriodNs, mPreviousEventSet, run, wakeVars,
                 queueVars, lockThread, iioVars, reported>>

\* initialize: the new event queue, before the sensors are disabled.
Initialize ==
  /\ call = NoCall /\ session < MaxInits
  /\ session' = session + 1
  /\ unread' = [wake |-> 0, other |-> 0]
  /\ call' = [op |-> "disable", todo |-> Sensors]
  /\ UNCHANGED <<sensorVars, threadVars, wakeVars, wakeQueue, lockThread, iioVars,
                 reported>>

Disable(s) ==
  /\ call.op = "disable" /\ s \in call.todo
  /\ Activate(s, FALSE)
  /\ mPreviousEventSet' = [mPreviousEventSet EXCEPT ![s] = FALSE]
  /\ call' = IF call.todo = {s} THEN [op |-> "stop", todo |-> {}]
                                ELSE [call EXCEPT !.todo = @ \ {s}]
  /\ UNCHANGED <<mMode, mSamplingPeriodNs, run, wakeVars, queueVars, lockThread, iio,
                 found, iioRates>>

StopWakeThread ==
  /\ call.op = "stop"
  /\ mReadWakeLockQueueRun' = FALSE
  /\ call' = [op |-> "join", todo |-> {}]
  /\ UNCHANGED <<sensorVars, threadVars, wakeVars, queueVars, wakeThread, iioVars,
                 reported>>

\* Once the old thread is joined: new flags, the new wake lock queue, a new thread.
StartWakeThread ==
  /\ call.op = "join"
  /\ wakeThread # "running"
  /\ wakeQueue' = << >>
  /\ mReadWakeLockQueueRun' = TRUE
  /\ wakeThread' = "running"
  /\ call' = NoCall
  /\ UNCHANGED <<sensorVars, threadVars, wakeVars, session, unread, iioVars,
                 reported>>
-------------------------------------------------------------------------------
(* The framework reads events and says how many it has handled. *)

FrameworkReads ==
  /\ unread.wake + unread.other > 0
  /\ IF unread.wake = 0 THEN UNCHANGED wakeQueue
     ELSE /\ wakeQueue = << >>
          /\ wakeQueue' = <<unread.wake>>
  /\ unread' = [wake |-> 0, other |-> 0]
  /\ UNCHANGED <<sensorVars, threadVars, wakeVars, session, lockThread, iioVars,
                 reported, call>>

\* One turn of readWakeLockFMQ: an acknowledgement, or half a second passes.
ReadWakeLockFMQ ==
  /\ wakeThread = "running"
  /\ IF wakeQueue = << >>
     THEN UpdateWakeLock(0, 0) /\ UNCHANGED wakeQueue
     ELSE UpdateWakeLock(0, Head(wakeQueue)) /\ wakeQueue' = Tail(wakeQueue)
  /\ wakeThread' = IF mReadWakeLockQueueRun THEN "running" ELSE "done"
  /\ UNCHANGED <<sensorVars, threadVars, session, unread, uncounted,
                 mReadWakeLockQueueRun, iioVars, reported, call>>

TimePasses ==
  /\ mHasWakeLock /\ ~overdue
  /\ overdue' = TRUE
  /\ UNCHANGED <<sensorVars, threadVars, mOutstandingWakeUpEvents, mHasWakeLock,
                 released, uncounted, queueVars, lockThread, iioVars, reported, call>>
-------------------------------------------------------------------------------
Calls(s) ==
  \/ \E enable \in BOOLEAN : ActivateCalled(s, enable)
  \/ Batch(s) \/ FlushOrInject(s)

BinderGoesOn ==
  \/ \E s \in Sensors : Forget(s) \/ SetMode(s) \/ Disable(s)
  \/ FlushEnds \/ StopWakeThread \/ StartWakeThread

Run(s) == SampleTime(s) \/ SampleWoken(s) \/ SampleEnds(s) \/ RunWaits(s)

IioReplays == IioReplaysBatch \/ IioReplaysActivate \/ \E s \in Sensors : IioNext(s)

Next ==
  \/ \E s \in Sensors : Calls(s) \/ Run(s)
  \/ SetOperationMode \/ Initialize \/ BinderGoesOn
  \/ IioConnects \/ IioReplays
  \/ FrameworkReads
  \/ ReadWakeLockFMQ \/ TimePasses

\* The HAL's threads run, get mWriteLock if it is free again and again, and time
\* passes; the framework owes nothing, and the server need not be there.
Fairness ==
  /\ \A s \in Sensors : WF_vars(Run(s)) /\ SF_vars(SampleTime(s)) /\ SF_vars(SampleWoken(s))
  /\ WF_vars(BinderGoesOn)
  /\ WF_vars(IioReplays)
  /\ WF_vars(ReadWakeLockFMQ) /\ WF_vars(TimePasses)

Spec == Init /\ [][Next]_vars /\ Fairness
-------------------------------------------------------------------------------
(* Each time it is enabled, a sensor reports at least once, an on-change      *)
(* sensor too, unless it is disabled or the event does not fit the queue: no  *)
(* sample taken while it is being disabled hides the one after it is enabled  *)
(* again (Sensor.cpp:462-467, 473-481).                                       *)
ReportsOnActivation ==
  \A s \in Sensors : On(s) ~> (~On(s) \/ reported[s] # "no")

(* While an event of a WakeUp sensor waits to be read, or to be acknowledged  *)
(* by the framework, the wake lock is held from the moment it was counted,    *)
(* unless its time has passed once - whatever the framework acknowledges in   *)
(* the window before it is counted, and though a new queue may come there     *)
(* (Sensors.h:101-116, 140-152, 157-189; Sensors.cpp:87).                     *)
HeldWhileUnread ==
  (Known > 0 /\ ~released) => mHasWakeLock

(* Without the window: FAILS, an event can be read, and the device asleep     *)
(* again, before it is counted (Sensors.h:106, 113).                          *)
HeldAlways ==
  (Pending > 0 /\ ~released) => mHasWakeLock

(* The count is never more than the events that are pending, so that an       *)
(* acknowledgement of all lets go of the lock: FAILS with MaxInits = 1, for   *)
(* one that comes before the count takes nothing off, and the lock waits for  *)
(* its time (Sensors.h:160-164).                                              *)
CountedOnce == mOutstandingWakeUpEvents <= Pending

(* A held wake lock is let go, by acknowledgement or by time, unless events   *)
(* of WakeUp sensors keep coming (Sensors.h:140-152, 175-188).                *)
WakeLockReleased ==
  <>[][unread'.wake <= unread.wake]_vars => []<>~mHasWakeLock

(* Once the client has connected and gone through its sensors, the server's   *)
(* channels and rates are the framework's, but for a sensor that was called   *)
(* for between the thread's look at it and its call (iioClient.cpp:66-90).    *)
ServerFollows ==
  \A s \in found :
    (s \notin iio.todo /\ ~IioAbout(s)) =>
      /\ (s \in channels <=> mIsEnabled[s]) \/ <<s, "activate">> \in raced
      /\ rate[s] = mSamplingPeriodNs[s] \/ <<s, "batch">> \in raced

(* Without the exception: FAILS, the late call wins.                          *)
ServerFollowsAlways ==
  \A s \in found :
    (s \notin iio.todo /\ ~IioAbout(s)) => (s \in channels <=> mIsEnabled[s])

(* A period between the sensor's delays is the one it is sampled with: FAILS  *)
(* where int32_t cannot hold it, and for the longest delay itself, 10 s in ns *)
(* (Sensors.cpp:48, Sensor.cpp:35, 64-67).                                    *)
PeriodAsAsked == \A period \in Asked \cap (MinDelay .. MaxDelay) : Clamped(period) = period

(* A sensor reports each time it is enabled, full queue or not: FAILS, an     *)
(* on-change sensor whose event did not fit takes it for reported.            *)
ReportsAlways == \A s \in Sensors : On(s) ~> (~On(s) \/ reported[s] = "yes")
===============================================================================
