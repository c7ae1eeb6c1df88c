----------------------------- MODULE GnssSessions -----------------------------
(***************************************************************************)
(* The reporting threads of the GNSS HAL: the location session of Gnss     *)
(* (gnss/Gnss.cpp), and GnssMeasurementInterface, GnssNavigationMessage-   *)
(* Interface and GnssAntennaInfo.  Each has a callback, a flag mIsActive,  *)
(* and a thread that reports until it is stopped.  They differ in how they *)
(* stop it - two join it, two leave that to a future, which the next       *)
(* thread waits for - and in what they do with mMutex held.                *)
(*                                                                         *)
(* A behaviour is one interface's, of a kind chosen at the start.  The     *)
(* calls of one interface come one at a time, as the framework makes them. *)
(* What is reported, and satellite status, are left out.                   *)
(***************************************************************************)
EXTENDS Naturals, Sequences, FiniteSets

CONSTANTS
  Kinds,     \* some of "location", "measurement", "navigation", "antenna"
  MaxStarts  \* bound: how many threads are started

ASSUME SessionsAssumption ==
  /\ Kinds \subseteq {"location", "measurement", "navigation", "antenna"}
  /\ MaxStarts \in Nat \ {0}

Threads == 1 .. MaxStarts
Nobody  == 0
Client  == MaxStarts + 1
NoCallback == 0

Joining == {"location", "antenna"}       \* stop() joins the thread
Passing == {"measurement", "navigation"} \* stop() passes it to a future

VARIABLES
  kind,
  steps,     \* what the client's call has still to do
  starts,    \* the threads that were started
  at,        \* where each thread is
  mIsActive,
  terminate, \* of mThreadBlocker
  sCallback, \* the number of the call that set it
  mMutex,    \* who holds it
  mThread,   \* the thread that is neither joined nor passed on
  mFutures,  \* threads whose end a future waits for
  awaited,   \* those that a thread goes through before it begins
  sets,      \* how many callbacks were set
  early      \* a stop overtook the start of its thread (history)

flags == <<mIsActive, terminate>>
ends  == <<mFutures, awaited, early>>
vars  == <<kind, steps, starts, at, flags, sCallback, mMutex, mThread, ends, sets>>

Init ==
  /\ kind \in Kinds
  /\ steps = << >> /\ starts = 0
  /\ at = [t \in Threads |-> "unborn"]
  /\ mIsActive = FALSE /\ terminate = FALSE
  /\ sCallback = NoCallback /\ mMutex = Nobody
  /\ mThread = Nobody /\ mFutures = {} /\ awaited = [t \in Threads |-> {}]
  /\ sets = 0 /\ early = FALSE
-------------------------------------------------------------------------------
(* The calls, as the steps they take.  Only the calls change mIsActive, so     *)
(* what they do about it is known when they begin.                             *)

\* Mutant: the thread is joined before it is told.
StopStepsLate ==
  CASE kind = "location"    -> <<"status", "join", "deactivate", "notify">>
    [] kind = "antenna"     -> <<"join", "deactivate">>
    [] kind \in Passing     -> <<"pass", "deactivate", "notify">>

StopSteps ==
  CASE kind = "location"    -> <<"deactivate", "status", "notify", "join">>
    [] kind = "antenna"     -> <<"deactivate", "join">>
    [] kind \in Passing     -> <<"deactivate", "notify", "pass">>

StopIfActive == IF mIsActive THEN StopSteps ELSE << >>

StartSteps ==
  CASE kind = "location" -> <<"activate", "reset", "status", "spawn">>
    [] OTHER             -> <<"activate", "spawn">>

\* Gnss::start(), where setCallback() is a call of its own.
LocationStart == StopIfActive \o StartSteps

MeasurementSetCallback == <<"set">> \o StopIfActive \o StartSteps

\* These hold mMutex all the way.
NavigationSetCallback == <<"lock", "set">> \o StopIfActive \o StartSteps \o <<"unlock">>
AntennaSetCallback    == <<"lock", "set">> \o StopIfActive \o StartSteps \o <<"unlock">>

\* close() of the others; the one of GnssAntennaInfo stops in any case.
Close == (IF kind = "antenna" THEN StopSteps ELSE StopIfActive) \o <<"clear">>

Calls ==
  CASE kind = "location"    -> {<<"set">>, LocationStart, StopSteps, <<"clear">>}
    [] kind = "measurement" -> {MeasurementSetCallback, Close}
    [] kind = "navigation"  -> {NavigationSetCallback, Close}
    [] kind = "antenna"     -> {AntennaSetCallback, Close}

Begin ==
  /\ steps = << >>
  /\ steps' \in {call \in Calls :
                   \A i \in 1 .. Len(call) :
                     call[i] \in {"set", "spawn"} => starts < MaxStarts /\ sets < MaxStarts}
  /\ UNCHANGED <<kind, starts, at, flags, sCallback, mMutex, mThread, ends, sets>>
-------------------------------------------------------------------------------
(* The steps of a call. *)

Does(step) ==
  /\ steps # << >> /\ Head(steps) = step
  /\ steps' = Tail(steps)
  /\ UNCHANGED kind

\* Gnss changes its callback without mMutex.
MayChange == kind = "location" \/ mMutex \in {Nobody, Client}

SetCallback ==
  /\ Does("set") /\ MayChange
  /\ sets' = sets + 1
  /\ sCallback' = sets + 1
  /\ UNCHANGED <<starts, at, flags, mMutex, mThread, ends>>

ClearCallback ==
  /\ Does("clear") /\ MayChange
  /\ sCallback' = NoCallback
  /\ UNCHANGED <<starts, at, flags, mMutex, mThread, ends, sets>>

Lock ==
  /\ Does("lock") /\ mMutex = Nobody
  /\ mMutex' = Client
  /\ UNCHANGED <<starts, at, flags, sCallback, mThread, ends, sets>>

Unlock ==
  /\ Does("unlock")
  /\ mMutex' = Nobody
  /\ UNCHANGED <<starts, at, flags, sCallback, mThread, ends, sets>>

\* reportGnssStatusValue: the callback is called with mMutex held.
Status ==
  /\ Does("status") /\ mMutex = Nobody
  /\ UNCHANGED <<starts, at, flags, sCallback, mMutex, mThread, ends, sets>>

Activation ==
  /\ Does("activate") \/ Does("deactivate")
  /\ mIsActive' = (Head(steps) = "activate")
  /\ UNCHANGED <<starts, at, terminate, sCallback, mMutex, mThread, ends, sets>>

\* A thread that has not begun its loop.
Beginning(t) == t # Nobody /\ at[t] \in {"born", "waiting", "clearing", "resetting"}

Notify ==
  /\ Does("notify")
  /\ terminate' = TRUE
  /\ early' = (early \/ (kind \in Passing /\ Beginning(mThread)))
  /\ UNCHANGED <<starts, at, mIsActive, sCallback, mMutex, mThread, mFutures, awaited,
                 sets>>

Reset ==
  /\ Does("reset")
  /\ terminate' = FALSE
  /\ UNCHANGED <<starts, at, mIsActive, sCallback, mMutex, mThread, ends, sets>>

\* Mutant: stop() does not wait for the thread.
JoinNot ==
  /\ Does("join")
  /\ mThread' = Nobody
  /\ UNCHANGED <<starts, at, flags, sCallback, mMutex, ends, sets>>

Join ==
  /\ Does("join")
  /\ mThread # Nobody => at[mThread] = "ended"
  /\ mThread' = Nobody
  /\ UNCHANGED <<starts, at, flags, sCallback, mMutex, ends, sets>>

\* Mutant: the thread is let go of.
PassOnNot ==
  /\ Does("pass")
  /\ mThread' = Nobody
  /\ UNCHANGED <<starts, at, flags, sCallback, mMutex, ends, sets>>

PassOn ==
  /\ Does("pass")
  /\ mFutures' = mFutures \cup ({mThread} \ {Nobody})
  /\ mThread' = Nobody
  /\ UNCHANGED <<starts, at, flags, sCallback, mMutex, awaited, early, sets>>

Spawn ==
  /\ Does("spawn")
  /\ starts' = starts + 1
  /\ mThread' = starts + 1
  /\ at' = [at EXCEPT ![starts + 1] = "born"]
  /\ UNCHANGED <<flags, sCallback, mMutex, ends, sets>>

CallGoesOn ==
  \/ SetCallback \/ ClearCallback \/ Lock \/ Unlock \/ Status
  \/ Activation \/ Notify \/ Reset \/ Join \/ PassOn \/ Spawn
-------------------------------------------------------------------------------
(* The threads. *)

Goes(t, from, to) ==
  /\ at[t] = from
  /\ at' = [at EXCEPT ![t] = to]
  /\ UNCHANGED <<kind, steps, starts, sCallback, mThread, sets>>

\* Its first satellite status and the time to the first fix, where it has them.
JoinedBegins(t) ==
  /\ kind \in Joining
  /\ kind = "location" => mMutex = Nobody
  /\ Goes(t, "born", "top")
  /\ UNCHANGED <<flags, mMutex, ends>>

\* waitForStoppingThreads: the futures there are when it begins.
LooksForStopping(t) ==
  /\ kind \in Passing
  /\ Goes(t, "born", "waiting")
  /\ awaited' = [awaited EXCEPT ![t] = mFutures]
  /\ UNCHANGED <<flags, mMutex, mFutures, early>>

WaitsForStopping(t) ==
  /\ \A other \in awaited[t] : at[other] = "ended"
  /\ Goes(t, "waiting", "clearing")
  /\ UNCHANGED <<flags, mMutex, ends>>

\* mFutures.clear(): the end of a future waits too.
ClearsFutures(t) ==
  /\ \A other \in mFutures : at[other] = "ended"
  /\ Goes(t, "clearing", "resetting")
  /\ mFutures' = {}
  /\ awaited' = [awaited EXCEPT ![t] = {}]
  /\ UNCHANGED <<flags, mMutex, early>>

\* Mutant: mThreadBlocker stays as the last stop left it.
ResetsNot(t) == Goes(t, "resetting", "top") /\ UNCHANGED <<flags, mMutex, ends>>

Resets(t) ==
  /\ Goes(t, "resetting", "top")
  /\ terminate' = FALSE
  /\ UNCHANGED <<mIsActive, mMutex, ends>>

Looks(t) ==
  /\ Goes(t, "top", IF mIsActive THEN "report" ELSE "ended")
  /\ UNCHANGED <<flags, mMutex, ends>>

\* The callback is read with mMutex held, and called with it by those that join.
Reports(t) ==
  /\ mMutex = Nobody
  /\ Goes(t, "report", IF sCallback = NoCallback THEN "reported" ELSE "calling")
  /\ mMutex' = IF kind \in Joining /\ sCallback # NoCallback THEN t ELSE Nobody
  /\ UNCHANGED <<flags, ends>>

Called(t) ==
  /\ Goes(t, "calling", "reported")
  /\ mMutex' = IF kind \in Joining THEN Nobody ELSE mMutex
  /\ UNCHANGED <<flags, ends>>

\* GnssAntennaInfo sleeps and looks after that.
Reported(t) ==
  /\ Goes(t, "reported", IF mIsActive \/ kind = "antenna" THEN "blocked" ELSE "ended")
  /\ UNCHANGED <<flags, mMutex, ends>>

\* mThreadBlocker.wait_for: the time passes, or it is told to end.
WaitEnds(t) ==
  /\ Goes(t, "blocked", IF terminate /\ kind # "antenna" THEN "ended" ELSE "top")
  /\ UNCHANGED <<flags, mMutex, ends>>

Thread(t) ==
  \/ JoinedBegins(t)
  \/ LooksForStopping(t) \/ WaitsForStopping(t) \/ ClearsFutures(t) \/ Resets(t)
  \/ Looks(t) \/ Reports(t) \/ Called(t) \/ Reported(t) \/ WaitEnds(t)

Next == Begin \/ CallGoesOn \/ \E t \in Threads : Thread(t)

\* The threads are scheduled, mMutex is not kept from one that asks again and
\* again, and the framework's callbacks return; it need not make a call.
Fairness == SF_vars(CallGoesOn) /\ \A t \in Threads : WF_vars(Thread(t))

Spec == Init /\ [][Next]_vars /\ Fairness
-------------------------------------------------------------------------------
InLoop == {"top", "report", "calling", "reported", "blocked"}

TypeOK ==
  /\ kind \in Kinds
  /\ steps \in Seq({"set", "clear", "lock", "unlock", "status", "activate",
                    "deactivate", "notify", "reset", "join", "pass", "spawn"})
  /\ starts \in 0 .. MaxStarts /\ sets \in 0 .. MaxStarts
  /\ at \in [Threads -> InLoop \cup {"unborn", "born", "waiting", "clearing",
                                     "resetting", "ended"}]
  /\ mIsActive \in BOOLEAN /\ terminate \in BOOLEAN /\ early \in BOOLEAN
  /\ sCallback \in 0 .. MaxStarts
  /\ mMutex \in Threads \cup {Nobody, Client}
  /\ mThread \in Threads \cup {Nobody}
  /\ mFutures \subseteq Threads /\ awaited \in [Threads -> SUBSET Threads]

(* However often it is restarted, an interface has one thread that reports:   *)
(* the next one begins when the last has ended, whether the call joined it or *)
(* only passed it on, and whatever happens to mFutures between                *)
(* (GnssMeasurementInterface.cpp:107-161, 190-197, Gnss.cpp:124-184).         *)
OneReporter == Cardinality({t \in Threads : at[t] \in InLoop}) <= 1

(* After stop() or close() of an interface that joins its thread has returned *)
(* nothing is reported any more (Gnss.cpp:174-184, GnssAntennaInfo.cpp:54-60).*)
QuietWhenStopped ==
  (kind \in Joining /\ steps = << >> /\ ~mIsActive) =>
     \A t \in Threads : at[t] \in {"unborn", "ended"}

Reporting == \E t \in Threads : at[t] = "calling"

(* A session that is left alone reports again and again, unless a stop        *)
(* overtook the start of a thread before it: then that thread waits for       *)
(* itself, or loses the notification, and those after it wait for it.         *)
KeepsReporting ==
  <>[](mIsActive /\ sCallback # NoCallback /\ steps = << >> /\ ~early) => []<>Reporting

(* Without the exception: FAILS.                                              *)
KeepsReportingAlways ==
  <>[](mIsActive /\ sCallback # NoCallback /\ steps = << >>) => []<>Reporting

(* Every call returns, but those of GnssAntennaInfo: no thread that a stop    *)
(* joins waits for what the call holds (Gnss.cpp:174-184).                    *)
CallsReturn == kind # "antenna" => []<>(steps = << >>)

(* Of GnssAntennaInfo too: FAILS, setCallback joins with mMutex held a thread *)
(* that waits for mMutex to report.                                           *)
ResettingReturns == []<>(steps = << >>)

(* The callback that is called is not cleared under the call: FAILS, Gnss     *)
(* clears its callback without the mMutex that the report holds.              *)
CalledIsThere ==
  \A t \in Threads : (kind \in Joining /\ at[t] = "calling") => sCallback # NoCallback
===============================================================================
