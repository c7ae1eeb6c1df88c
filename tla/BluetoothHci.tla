----------------------------- MODULE BluetoothHci -----------------------------
(***************************************************************************)
(* The Bluetooth HAL service, bluetooth/aidl/default/BluetoothHci.cpp with *)
(* the management socket it opens the interface by: clients that call      *)
(* initialize, send and close over binder, that die and whose death is     *)
(* reported, and the watcher thread that reads the interface (HciFraming). *)
(* Each open gives a new file descriptor, numbered from 1.  A client's     *)
(* thread is one binder thread that serves its calls; Death serves the     *)
(* death notifications.                                                    *)
(***************************************************************************)
EXTENDS HciFraming, FiniteSets

CONSTANTS
  Clients,
  Death,       \* the thread of the death notifications
  Nobody,
  Emulator,    \* ro.product.board starts with "cutf" or "goldfish"
  ResetAnswers,\* the packets that complete a reset
  MaxOpens,    \* bound: how often the interface is opened
  Mortal       \* bound: the clients that may die

ASSUME ClientsAssumption ==
  /\ Death \notin Clients /\ Nobody \notin Clients /\ Death # Nobody
  /\ Emulator \in BOOLEAN /\ ResetAnswers \subseteq 1 .. N /\ MaxOpens \in Nat
  /\ Mortal \subseteq Clients

VARIABLES
  pc,       \* where each thread is in the call it serves
  then,     \* what follows the close() it is in
  mState,
  mCb,
  mFd,
  h4,       \* who the packets of mH4 go to, or "none"
  watched,  \* the descriptor mFdWatcher waits for, 0 if none
  open,     \* descriptors of the interface that are open
  opens,    \* how many there have been
  promise,  \* the reset was answered
  recipient,\* the death recipient's mCb
  links,    \* death notifications each client's end will give
  dead,
  aborted,  \* the process ended, and why
  told,     \* who was told SUCCESS since anyone called initialize or close
  owner,    \* who had mFd opened (history)
  strayed,  \* a packet went to a client that did not open mFd (history)
  overlap   \* two calls were under way at once, or a client died (history)

callVars    == <<pc, then>>
stateVars   == <<mState, mCb, h4>>
fdVars      == <<mFd, open, opens, owner>>
deathVars   == <<recipient, links, dead>>
serviceVars == <<callVars, stateVars, fdVars, deathVars, watched, promise, aborted,
                 told, strayed, overlap>>
vars        == <<readerVars, serviceVars>>

Threads == Clients \cup {Death}

Init ==
  /\ ReaderInit
  /\ pc = [t \in Threads |-> "idle"]
  /\ then = [t \in Threads |-> "idle"]
  /\ mState = "READY" /\ mCb = Nobody /\ mFd = 0
  /\ h4 = "none" /\ watched = 0
  /\ open = {} /\ opens = 0
  /\ promise = FALSE
  /\ recipient = Nobody
  /\ links = [c \in Clients |-> 0]
  /\ dead = {}
  /\ aborted = "no"
  /\ told = {}
  /\ owner = Nobody
  /\ strayed = FALSE
  /\ overlap = FALSE

Up == aborted = "no"

Goto(t, here, there) == pc[t] = here /\ pc' = [pc EXCEPT ![t] = there]

Abort(why) == aborted' = why

\* A callback to a client, which fails if the client is dead.
Tell(c, what) ==
  told' = IF c \notin dead /\ what = "SUCCESS" THEN told \cup {c} ELSE told

\* The other calls that are under way when one begins.
Begins(t) == overlap' = (overlap \/ \E u \in Threads \ {t} : pc[u] # "idle")
-------------------------------------------------------------------------------
(* initialize *)

Calls(c) == Up /\ c \in Clients \ dead /\ pc[c] = "idle"

\* Mutant: the callback is taken before the state is looked at.
InitializeTakes(c) ==
  /\ Calls(c)
  /\ opens < MaxOpens
  /\ Begins(c)
  /\ mCb' = c
  /\ IF mState = "READY"
     THEN mState' = "INITIALIZING" /\ Goto(c, "idle", "setUp") /\ UNCHANGED then
     ELSE /\ Goto(c, "idle", "close")
          /\ then' = [then EXCEPT ![c] = "already"]
          /\ UNCHANGED mState
  /\ told' = {}
  /\ UNCHANGED <<readerVars, h4, fdVars, deathVars, watched, promise, aborted, strayed>>

Initialize(c) ==
  /\ Calls(c)
  /\ opens < MaxOpens
  /\ Begins(c)
  /\ IF mState = "READY"
     THEN /\ mState' = "INITIALIZING"
          /\ Goto(c, "idle", "setUp")
          /\ UNCHANGED then
     ELSE /\ Goto(c, "idle", "close")
          /\ then' = [then EXCEPT ![c] = "already"]
          /\ UNCHANGED mState
  /\ told' = {}
  /\ UNCHANGED <<readerVars, mCb, h4, fdVars, deathVars, watched, promise,
                 aborted, strayed>>

Already(c) ==
  /\ Up
  /\ Goto(c, "already", "idle")
  /\ then' = [then EXCEPT ![c] = "idle"]
  /\ Tell(c, "ALREADY_INITIALIZED")
  /\ UNCHANGED <<readerVars, stateVars, fdVars, deathVars, watched, promise,
                 aborted, strayed, overlap>>

SetUp(c) ==
  /\ Up
  /\ Goto(c, "setUp", "openHci")
  /\ mCb' = c
  /\ UNCHANGED <<readerVars, then, mState, h4, fdVars, deathVars, watched, promise,
                 aborted, told, strayed, overlap>>

\* The interface or the device file opens: a new descriptor.
OpenHci(c) ==
  /\ Up
  /\ Goto(c, "openHci", "linkToDeath")
  /\ opens' = opens + 1
  /\ mFd' = opens + 1
  /\ open' = open \cup {opens + 1}
  /\ owner' = c
  /\ UNCHANGED <<readerVars, then, stateVars, deathVars, watched, promise, aborted, told, strayed,
                 overlap>>

OpenFails(c) ==
  /\ Up
  /\ Goto(c, "openHci", "idle")
  /\ mState' = "READY"
  /\ mFd' = 0
  /\ Tell(c, "UNABLE_TO_OPEN_INTERFACE")
  /\ UNCHANGED <<readerVars, then, mCb, h4, open, opens, owner, deathVars,
                 watched, promise, aborted, strayed, overlap>>

LinkToDeath(c) ==
  /\ Up
  /\ recipient' = mCb
  /\ IF c \in dead
     THEN Abort("link to the dead") /\ UNCHANGED <<pc, links>>
     ELSE /\ links' = [links EXCEPT ![c] = @ + 1]
          /\ UNCHANGED aborted
          /\ Goto(c, "linkToDeath", IF Emulator THEN "reset" ELSE "makeH4")
  /\ pc[c] = "linkToDeath"
  /\ UNCHANGED <<readerVars, then, stateVars, fdVars, dead, watched, promise, told,
                 strayed, overlap>>

\* reset(): an H4Protocol that discards all but the answer.
Reset(c) ==
  /\ Up
  /\ Goto(c, "reset", "waitReset")
  /\ Replace
  /\ h4' = "reset"
  /\ watched' = mFd
  /\ promise' = FALSE
  /\ UNCHANGED <<then, mState, mCb, fdVars, deathVars, aborted, told, strayed,
                 overlap>>

\* Mutant: the answer is waited for without a limit.
ResetEndsAnswered(c) ==
  /\ Up
  /\ promise
  /\ Goto(c, "waitReset", "makeH4")
  /\ at = upto
  /\ watched' = 0
  /\ UNCHANGED <<readerVars, then, stateVars, fdVars, deathVars, promise, aborted,
                 told, strayed, overlap>>

\* The answer has come or a second has passed; the watcher is joined, which it
\* can be once it is out of OnDataReady.
ResetEnds(c) ==
  /\ Up
  /\ Goto(c, "waitReset", "makeH4")
  /\ at = upto
  /\ watched' = 0
  /\ UNCHANGED <<readerVars, then, stateVars, fdVars, deathVars, promise, aborted,
                 told, strayed, overlap>>

\* Mutant: the packetizer of the reset is kept for the client.
MakeH4Keeps(c) ==
  /\ Up
  /\ Goto(c, "makeH4", "oneClient")
  /\ delivered' = << >> /\ base' = base + Len(delivered)
  /\ h4' = "client"
  /\ watched' = mFd
  /\ promise' = FALSE
  /\ UNCHANGED <<upto, at, parser, disconnected, fatal, patch, aligned, then, mState,
                 mCb, fdVars, deathVars, aborted, told, strayed, overlap>>

MakeH4(c) ==
  /\ Up
  /\ Goto(c, "makeH4", "oneClient")
  /\ Replace
  /\ h4' = "client"
  /\ watched' = mFd
  /\ promise' = FALSE
  /\ UNCHANGED <<then, mState, mCb, fdVars, deathVars, aborted, told, strayed,
                 overlap>>

OneClient(c) ==
  /\ Up
  /\ Goto(c, "oneClient", "complete")
  /\ mState' = "ONE_CLIENT"
  /\ UNCHANGED <<readerVars, then, mCb, h4, fdVars, deathVars, watched,
                 promise, aborted, told, strayed, overlap>>

Complete(c) ==
  /\ Up
  /\ pc[c] = "complete"
  /\ Tell(mCb, "SUCCESS")
  /\ pc' = [pc EXCEPT ![c] = IF mCb \in dead THEN "close" ELSE "idle"]
  /\ then' = [then EXCEPT ![c] = "idle"]
  /\ UNCHANGED <<readerVars, stateVars, fdVars, deathVars, watched, promise, aborted,
                 strayed, overlap>>
-------------------------------------------------------------------------------
(* close *)

CloseCalled(c) ==
  /\ Calls(c)
  /\ Begins(c)
  /\ Goto(c, "idle", "close")
  /\ then' = [then EXCEPT ![c] = "idle"]
  /\ told' = {}
  /\ UNCHANGED <<readerVars, stateVars, fdVars, deathVars, watched, promise, aborted,
                 strayed>>

Close(t) ==
  /\ Up
  /\ pc[t] = "close"
  /\ CASE mState = "ONE_CLIENT" ->
            /\ mState' = "CLOSING"
            /\ Goto(t, "close", "stopWatching")
            /\ UNCHANGED aborted
       [] mState = "INITIALIZING" ->
            Abort("closed while initializing") /\ UNCHANGED <<mState, pc>>
       [] OTHER ->
            Goto(t, "close", then[t]) /\ UNCHANGED <<mState, aborted>>
  /\ UNCHANGED <<readerVars, then, mCb, h4, fdVars, deathVars, watched, promise, told,
                 strayed, overlap>>

\* Mutant: close does not stop the watcher.
StopWatchingNot(t) ==
  /\ Up
  /\ Goto(t, "stopWatching", "closeFd")
  /\ UNCHANGED <<readerVars, then, stateVars, fdVars, deathVars, watched, promise,
                 aborted, told, strayed, overlap>>

StopWatching(t) ==
  /\ Up
  /\ Goto(t, "stopWatching", "closeFd")
  /\ at = upto
  /\ watched' = 0
  /\ UNCHANGED <<readerVars, then, stateVars, fdVars, deathVars, promise, aborted,
                 told, strayed, overlap>>

\* management_->closeHci() or ::close(): what the next descriptor reads is new.
CloseFd(t) ==
  /\ Up
  /\ Goto(t, "closeFd", "closed")
  /\ open' = open \ {mFd}
  /\ Open
  /\ UNCHANGED <<then, stateVars, mFd, opens, owner, deathVars,
                 watched, promise, aborted, told, strayed, overlap>>

\* Mutant: mH4 is kept.
ClosedKeeps(t) ==
  /\ Up
  /\ Goto(t, "closed", then[t])
  /\ mState' = "READY"
  /\ UNCHANGED <<readerVars, then, mCb, h4, fdVars, deathVars, watched, promise,
                 aborted, told, strayed, overlap>>

Closed(t) ==
  /\ Up
  /\ Goto(t, "closed", then[t])
  /\ mState' = "READY"
  /\ h4' = "none"
  /\ UNCHANGED <<readerVars, then, mCb, fdVars, deathVars, watched, promise,
                 aborted, told, strayed, overlap>>

CloseSteps(t) == Close(t) \/ StopWatching(t) \/ CloseFd(t) \/ Closed(t)
-------------------------------------------------------------------------------
(* Commands and data to the controller, under mStateMutex. *)

Send(c) ==
  /\ Calls(c)
  /\ Begins(c)
  /\ IF h4 # "none" /\ mFd \notin open THEN Abort("wrote to a closed descriptor")
                                      ELSE UNCHANGED aborted
  /\ UNCHANGED <<readerVars, callVars, mState, mCb, h4, fdVars, deathVars, watched,
                 promise, told, strayed>>
-------------------------------------------------------------------------------
(* The watcher thread. *)

\* What the callback of the packet just completed does, if one is.
Callback ==
  CASE fatal' ->
         Abort("bad packet type") /\ UNCHANGED <<promise, strayed>>
    [] ~fatal' /\ delivered' = delivered ->
         UNCHANGED <<promise, aborted, strayed>>
    [] delivered' # delivered /\ h4 = "client" /\ hciType = COMMAND ->
         Abort("unexpected command") /\ UNCHANGED <<promise, strayed>>
    [] delivered' # delivered /\ h4 = "client" /\ hciType # COMMAND ->
         strayed' = (strayed \/ mCb # owner) /\ UNCHANGED <<promise, aborted>>
    [] delivered' # delivered /\ h4 = "reset" ->
         /\ promise' = (promise \/ Current \in ResetAnswers)
         /\ IF promise /\ Current \in ResetAnswers THEN Abort("answered twice")
                                                   ELSE UNCHANGED aborted
         /\ UNCHANGED strayed

\* The interface has something to read.
WatcherReads ==
  /\ Up /\ watched # 0
  /\ \E n \in ReadSizes : OnDataReady(n)
  /\ UNCHANGED serviceVars

WatcherLoops ==
  /\ Up /\ watched # 0
  /\ SendDataToPacketizer
  /\ Callback
  /\ UNCHANGED <<callVars, stateVars, fdVars, deathVars, watched, told, overlap>>

\* The disconnect callback stops the watcher from its own thread.
WatcherDisconnects ==
  /\ Up /\ watched # 0
  /\ Disconnect
  /\ watched' = 0
  /\ UNCHANGED <<callVars, stateVars, fdVars, deathVars, promise, aborted, told, strayed,
                 overlap>>

-------------------------------------------------------------------------------
(* Clients that die. *)

Die(c) ==
  /\ Up /\ c \in Mortal \ dead
  /\ dead' = dead \cup {c}
  /\ overlap' = TRUE
  /\ UNCHANGED <<readerVars, callVars, stateVars, fdVars, recipient, links, watched,
                 promise, aborted, told, strayed>>

\* One notification per link; the recipient looks at the client linked last.
ServiceDied(c) ==
  /\ Up
  /\ c \in dead /\ links[c] > 0
  /\ pc[Death] = "idle"
  /\ links' = [links EXCEPT ![c] = @ - 1]
  /\ pc' = [pc EXCEPT ![Death] = IF recipient \in dead THEN "close" ELSE "idle"]
  /\ UNCHANGED <<readerVars, then, stateVars, fdVars, recipient, dead, watched,
                 promise, aborted, told, strayed, overlap>>
-------------------------------------------------------------------------------
InitializeSteps(c) ==
  \/ Already(c) \/ SetUp(c) \/ LinkToDeath(c) \/ Reset(c) \/ ResetEnds(c)
  \/ MakeH4(c) \/ OneClient(c) \/ Complete(c)

Watcher == WatcherReads \/ WatcherLoops \/ WatcherDisconnects

Next ==
  \/ \E c \in Clients :
       \/ Initialize(c) \/ OpenHci(c) \/ OpenFails(c) \/ InitializeSteps(c)
       \/ CloseCalled(c) \/ Send(c)
       \/ Die(c) \/ ServiceDied(c)
  \/ \E t \in Threads : CloseSteps(t)
  \/ Watcher

\* The process's threads run; the interface need not come, nor data.
Fairness ==
  /\ \A c \in Clients : WF_vars(InitializeSteps(c)) /\ WF_vars(ServiceDied(c))
  /\ \A t \in Threads : WF_vars(CloseSteps(t))
  /\ WF_vars(WatcherLoops)

Spec == Init /\ [][Next]_vars /\ Fairness
-------------------------------------------------------------------------------
\* The watcher never waits on a descriptor that was closed: a new one of the same
\* number would be read (close stops it first, BluetoothHci.cpp:335).
WatchedIsOpen == watched # 0 => watched \in open /\ watched = mFd

\* No packet of an interface opened for one client goes to another, nor do two
\* stay open: clients take over from each other while threads read and close.
DeliveredToOwner ==
  /\ ~strayed
  /\ \A d \in open : d = mFd

\* One client that makes one call after another, however often it opens, sends and
\* closes, does not end the process; only a controller that answers the reset
\* twice, or bytes left over from it, can.
AloneIsSafe ==
  ~overlap =>
    aborted \in {"no", "answered twice", "bad packet type", "unexpected command"}

\* A client that was told SUCCESS has the interface, until it or another closes or
\* initializes; so long as calls come one after another.
SuccessIsOpen ==
  \A c \in told :
    ~overlap /\ Up =>
      mState = "ONE_CLIENT" /\ h4 = "client" /\ mFd \in open /\ owner = c

\* No call is refused by ending the process (BluetoothHci.cpp:327).
NotInitializing == aborted # "closed while initializing"

\* A client that dies while its interface opens does not end the process
\* (BluetoothHci.cpp:75).
LinkedAlive == aborted # "link to the dead"

\* A command goes to an open descriptor or is refused (BluetoothHci.cpp:393).
SentToOpen == aborted # "wrote to a closed descriptor"

\* Answering a reset twice does not end the process (BluetoothHci.cpp:168).
AnsweredOnce == aborted # "answered twice"

\* A death closes no living client's session (BluetoothHci.cpp:84).
DeathClosesItsOwn ==
  [][pc[Death] = "close" /\ pc'[Death] = "stopWatching" => owner \in dead]_vars

\* A client is told SUCCESS only of an interface opened for it.
OwnSuccess == [][\A c \in Clients : c \in told' \ told => owner = c]_vars

\* A call waits for nothing but the interface: every initialize and close returns,
\* and so does a death's (reset waits a second, StopWatching for one read).
CallsReturn ==
  \A t \in Threads : pc[t] # "idle" ~> pc[t] \in {"idle", "openHci"} \/ ~Up

\* The service uses the reader as HciFraming says.
ReadsAsFraming == ReaderSpec
===============================================================================
