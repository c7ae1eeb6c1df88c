-------------------------------- MODULE Health --------------------------------
(***************************************************************************)
(* The health HAL (health/aidl): HealthLoop, one thread that waits for its *)
(* wake alarm, for uevents and for binder calls and updates the battery's  *)
(* state; Health, which keeps the callbacks of the clients; and the thread *)
(* of healthd_board_default.cpp that receives the battery of the host.     *)
(*                                                                         *)
(* Time passes in steps.  While the device is awake the loop is quick: no  *)
(* time passes while it has something to do.  The device may be suspended  *)
(* at any moment, as the loop's descriptors are registered without         *)
(* EPOLLWAKEUP; the alarm wakes it.                                        *)
(*                                                                         *)
(* Of the battery's state its level is kept and whether a charger is on    *)
(* line.  Charger mode, which has another loop callback, and the           *)
(* properties read from sysfs are left out.                                *)
(***************************************************************************)
EXTENDS Integers

CONSTANTS
  Clients,
  Fast, Slow, \* the intervals of the periodic chores
  Levels,     \* battery levels a host sends; those that are not 1 .. 100 are invalid
  MaxTraffic  \* bound: uevents and calls between two steps of time

ASSUME HealthAssumption ==
  /\ Fast \in Nat \ {0} /\ Slow \in Nat /\ Fast < Slow
  /\ Levels \subseteq Nat /\ MaxTraffic \in Nat

Forever == -1
NoLevel == -1
Late    == Slow + 1 \* an age that is too high
Events  == {"alarm", "uevent", "binder"}
Nobody  == "nobody"
HealthCalls ==
  [does : {"register", "unregister"}, client : Clients]
    \cup [does : {"update"}, client : {Nobody}]

VARIABLES
  at,       \* what the loop does
  nevents,  \* those of the last wait that are not handled yet
  timeout,  \* of the wait, and what is left of it
  awake_poll_interval_,
  wakealarm_wake_interval_,
  alarm,    \* until wakealarm_fd_ expires
  expired,  \* it has, and was not read
  uevents,  \* one waits to be read
  calls,    \* that wait to be handled
  traffic,  \* uevents and calls since time last passed
  charger_online_,
  callbacks_,
  s_props,  \* what the host said
  parsing,  \* the level that the receiving thread has still to write
  awake,    \* the device
  age,      \* since the battery was last updated (history)
  told      \* what each client was last told (history)

intervals == <<awake_poll_interval_, wakealarm_wake_interval_, charger_online_>>
timer  == <<alarm, expired>>
inputs == <<uevents, calls, traffic>>
host   == <<s_props, parsing>>
loop   == <<at, nevents, timeout>>
past   == <<age, told>>
healthVars == <<loop, intervals, timer, inputs, callbacks_, host, awake, past>>

Nothing == [level |-> 0, charger |-> TRUE]

\* StartLoop, InitInternal: the first chores do not wait.
HealthInit ==
  /\ at = "idle" /\ nevents = {} /\ timeout = Forever
  /\ awake_poll_interval_ = Forever /\ wakealarm_wake_interval_ = Fast
  /\ alarm = Fast /\ expired = FALSE
  /\ uevents = FALSE /\ calls = {} /\ traffic = 0 /\ charger_online_ = FALSE
  /\ callbacks_ = {}
  /\ s_props = [level |-> 0, charger |-> FALSE] /\ parsing = NoLevel
  /\ awake = TRUE /\ age = 0 /\ told = [c \in Clients |-> Nothing]
-------------------------------------------------------------------------------
(* The battery.                                                               *)

\* Without a level that makes sense the HAL says it knows nothing, and that the
\* device is on mains.
healthd_board_battery_update ==
  IF s_props.level \in 1 .. 100 THEN s_props ELSE Nothing

\* The receiving thread writes the properties one after the other: first, of
\* the first message, whether there is a charger, which is only ever found to be
\* there; then the level, which every message has.
parse_init_properties ==
  /\ parsing = NoLevel
  /\ s_props' = [s_props EXCEPT !.charger = TRUE]
  /\ parsing' \in Levels
  /\ UNCHANGED <<loop, intervals, timer, inputs, callbacks_, awake, past>>

parse_battery_properties ==
  /\ \E level \in IF parsing = NoLevel THEN Levels ELSE {parsing} :
       s_props' = [s_props EXCEPT !.level = level]
  /\ parsing' = NoLevel
  /\ UNCHANGED <<loop, intervals, timer, inputs, callbacks_, awake, past>>

recv_vsock == awake /\ (parse_init_properties \/ parse_battery_properties)
-------------------------------------------------------------------------------
(* Updates.                                                                   *)

Tell(clients) ==
  told' = [c \in Clients |-> IF c \in clients THEN healthd_board_battery_update ELSE told[c]]

\* Mutant: the interval holds from the next time the alarm expires.
WakeAlarmSetIntervalLater(interval) ==
  /\ wakealarm_wake_interval_' = interval
  /\ alarm' = alarm /\ expired' = FALSE

\* timerfd_settime: an expiration that was not read is forgotten.
WakeAlarmSetInterval(interval) ==
  /\ wakealarm_wake_interval_' = interval
  /\ alarm' = interval /\ expired' = FALSE

AdjustWakealarmPeriods(online) ==
  LET interval == IF online THEN Fast ELSE Slow IN
  /\ IF interval # wakealarm_wake_interval_
       THEN WakeAlarmSetInterval(interval)
       ELSE UNCHANGED <<timer, wakealarm_wake_interval_>>
  /\ awake_poll_interval_' = IF interval = Fast THEN Forever ELSE Fast

\* The first half of ScheduleBatteryUpdate, Health::update().
Update ==
  /\ at \in {"chores", "event_chores"}
  /\ Tell(callbacks_)
  /\ at' = IF at = "chores" THEN "adjust" ELSE "event_adjust"
  /\ UNCHANGED <<nevents, timeout, intervals, timer, inputs, callbacks_, host, awake, age>>

\* The second: what may have changed since is read, told and acted upon.
OnHealthInfoChanged ==
  /\ at \in {"adjust", "event_adjust"}
  /\ Tell(callbacks_)
  /\ charger_online_' = healthd_board_battery_update.charger
  /\ AdjustWakealarmPeriods(charger_online_')
  /\ age' = 0
  /\ at' = IF at = "adjust" THEN "wait" ELSE "events"
  /\ UNCHANGED <<nevents, timeout, inputs, callbacks_, host, awake>>

ScheduleBatteryUpdate == Update \/ OnHealthInfoChanged
-------------------------------------------------------------------------------
(* The loop.                                                                  *)

\* The poll interval is read before the chores, which may change it.  The chores
\* are due when the last wait ended without an event.
Top ==
  /\ at \in {"top", "idle"}
  /\ timeout' = awake_poll_interval_
  /\ at' = IF at = "idle" THEN "chores" ELSE "wait"
  /\ UNCHANGED <<nevents, intervals, timer, inputs, callbacks_, host, awake, past>>

Readable ==
  {e \in Events : \/ e = "alarm"  /\ expired
                  \/ e = "uevent" /\ uevents
                  \/ e = "binder" /\ calls # {}}

\* epoll_wait ends with all that can be read, or with its time.
Wait ==
  /\ at = "wait"
  /\ \/ /\ Readable # {}
        /\ nevents' = Readable /\ at' = "events"
     \/ /\ Readable = {} /\ timeout = 0
        /\ nevents' = {} /\ at' = "idle"
  /\ timeout' = Forever
  /\ UNCHANGED <<intervals, timer, inputs, callbacks_, host, awake, past>>

\* Mutant: the alarm is read, and the chores are left to the poll.
WakeAlarmEventOnlyRead ==
  /\ nevents' = nevents \ {"alarm"}
  /\ expired' = FALSE
  /\ at' = "events"
  /\ UNCHANGED <<alarm, inputs, callbacks_, told>>

\* The alarm may have been set anew by an event handled before it; then there
\* is nothing to read.
WakeAlarmEvent ==
  /\ nevents' = nevents \ {"alarm"}
  /\ expired' = FALSE
  /\ at' = IF expired THEN "event_chores" ELSE "events"
  /\ UNCHANGED <<alarm, inputs, callbacks_, told>>

\* One that is not of a power supply changes nothing.
UeventEvent ==
  /\ nevents' = nevents \ {"uevent"}
  /\ uevents' = FALSE
  /\ at' \in {"event_chores", "events"}
  /\ UNCHANGED <<timer, calls, traffic, callbacks_, told>>

registerCallback(c) ==
  /\ callbacks_' = callbacks_ \cup {c}
  /\ Tell({c})

\* Also what the death of a client leads to.
unregisterCallback(c) ==
  /\ callbacks_' = callbacks_ \ {c}
  /\ told' = [told EXCEPT ![c] = Nothing]

\* handlePolledCommands: all that wait.  An update a client asks for is told,
\* and does not adjust the alarm.
BinderEvent ==
  /\ \E call \in calls :
       /\ calls' = calls \ {call}
       /\ CASE call.does = "register" -> registerCallback(call.client)
            [] call.does = "unregister" -> unregisterCallback(call.client)
            [] call.does = "update" -> Tell(callbacks_) /\ UNCHANGED callbacks_
  /\ nevents' = IF calls' = {} THEN nevents \ {"binder"} ELSE nevents
  /\ at' = "events"
  /\ UNCHANGED <<timer, uevents, traffic>>

Handle ==
  /\ at = "events" /\ nevents # {}
  /\ \/ "alarm"  \in nevents /\ WakeAlarmEvent
     \/ "uevent" \in nevents /\ UeventEvent
     \/ "binder" \in nevents /\ BinderEvent
  /\ UNCHANGED <<timeout, intervals, host, awake, age>>

Handled ==
  /\ at = "events" /\ nevents = {}
  /\ at' = "top"
  /\ UNCHANGED <<nevents, timeout, intervals, timer, inputs, callbacks_, host, awake, past>>

MainLoop == awake /\ (Top \/ ScheduleBatteryUpdate \/ Wait \/ Handle \/ Handled)
-------------------------------------------------------------------------------
(* Around it.                                                                 *)

Waiting == at = "wait" /\ Readable = {} /\ timeout # 0

\* The alarm counts while the device is suspended, and the wait does not.
ClockTicks ==
  /\ awake => Waiting
  /\ alarm' = IF alarm = 1 THEN wakealarm_wake_interval_ ELSE alarm - 1
  /\ expired' = (expired \/ alarm = 1)
  /\ awake' = (awake \/ alarm = 1)
  /\ timeout' = IF awake /\ timeout # Forever THEN timeout - 1 ELSE timeout
  /\ age' = IF age < Late THEN age + 1 ELSE age
  /\ traffic' = 0
  /\ UNCHANGED <<at, nevents, intervals, uevents, calls, callbacks_, host, told>>

Sleeps ==
  /\ awake' = ~ awake
  /\ UNCHANGED <<loop, intervals, timer, inputs, callbacks_, host, past>>

Uevent ==
  /\ awake /\ ~ uevents /\ traffic < MaxTraffic
  /\ uevents' = TRUE /\ traffic' = traffic + 1
  /\ UNCHANGED <<loop, intervals, timer, calls, callbacks_, host, awake, past>>

\* A client waits for its call to return.
ClientCalls ==
  /\ awake /\ traffic < MaxTraffic
  /\ \E call \in HealthCalls :
       /\ \A other \in calls : other.client # call.client
       /\ calls' = calls \cup {call} /\ traffic' = traffic + 1
  /\ UNCHANGED <<loop, intervals, timer, uevents, callbacks_, host, awake, past>>

HealthNext == MainLoop \/ recv_vsock \/ ClockTicks \/ Sleeps \/ Uevent \/ ClientCalls

\* The loop and the receiving thread run, and time passes; nobody need call,
\* and the host need send nothing.
HealthSpec ==
  /\ HealthInit /\ [][HealthNext]_healthVars
  /\ WF_healthVars(MainLoop) /\ WF_healthVars(ClockTicks)
  /\ WF_healthVars(awake /\ parsing # NoLevel /\ parse_battery_properties)
-------------------------------------------------------------------------------
TypeOK ==
  /\ at \in {"top", "idle", "chores", "adjust", "wait", "events", "event_chores", "event_adjust"}
  /\ nevents \subseteq Events /\ timeout \in {Forever} \cup 0 .. Fast
  /\ wakealarm_wake_interval_ \in {Fast, Slow} /\ alarm \in 1 .. wakealarm_wake_interval_
  /\ calls \subseteq HealthCalls /\ callbacks_ \subseteq Clients
  /\ age \in 0 .. Late

\* An awake device never waits with a state of the battery that is older than
\* the interval for its charger, however suspensions, alarms that expire, uevents
\* and changes of the charger come in between (HealthLoop.cpp:81, 98, 174).
UpdatedInTime ==
  awake /\ Waiting => age <= IF charger_online_ THEN Fast ELSE Slow

\* A client that stays registered with a device that stays awake learns the
\* battery's state once the host has said it (HalHealthLoop.cpp:37, Health.cpp:382).
CatchesUp ==
  \A c \in Clients :
    []<>(awake /\ c \in callbacks_ /\ parsing = NoLevel => told[c] = healthd_board_battery_update)

\* "If wake alarm is set at slow rate then poll at fast rate while awake"
\* (HealthLoop.cpp:109).  The interval is read before the chores that change it
\* (HealthLoop.cpp:206), and so the first wait on battery has no limit.
PollsAwake == at = "wait" /\ ~ charger_online_ => timeout # Forever

\* The battery is watched while the device is suspended (HealthLoop.cpp:99).  It
\* may be suspended again before the loop has seen the alarm, for nothing holds
\* it awake (HealthLoop.cpp:69).
WatchedInSleep == []<>(age = 0)

\* A client is told a level and a charger that the host said together.  The loop
\* may read between the two writes (healthd_board_default.cpp:91, 96).
ToldTogether == at \in {"chores", "event_chores", "adjust", "event_adjust"} => parsing = NoLevel
===============================================================================
