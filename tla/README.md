# Verification of the vendor hardware interfaces

TLA+ models, TLC runs and TLAPS proofs about the hardware abstraction layers in
`src/`. The repository is a collection of Android HAL services; the part with
the most concurrency and the most state of its own is the Exterior View System
(EVS): a camera HAL with a capture thread, a display HAL with a render thread,
an enumerator with a hotplug thread, and the application that uses them. Those
are modelled first and in most detail; Bluetooth, sensors, GNSS, thermal and
health follow, the HALs whose threads and callbacks share state, and the memory of
the neural network executors.

Contents: [inventory](#inventory), [modules](#modules-and-the-code),
[runs](#runs), [bounds](#bounds), [fairness](#fairness), [proofs](#proofs),
[deviations](#where-the-code-deviates), [not modelled](#not-modelled),
[plan](#plan).

## Inventory

### EVS HAL, `src/evs/evsHal/aidl`

`service.cpp` starts one service object, `EvsEnumerator`, and asks for one
binder thread (`kNumBinderThreads = 1`). libbinder may add the thread that
joins the pool, and nothing in the display code relies on a single thread (it
locks), so the display models have two binder threads. The camera code relies
on it in a comment (`EvsEnumerator.h:136-138`); its models have one.

| Component | State | Operations | Talks to |
|---|---|---|---|
| Video capture, `VideoCapture.cpp` | device fd, `mRunMode` bits, capture thread, mapped V4L2 buffers, `mFrames` | open, startStream, stopStream, close, returnFrame; the loop collectFrames | the V4L2 driver (ioctl, select); a callback per frame |
| Camera, `EvsV4lCamera.cpp` | `mBuffers` with `inUse`, `mFramesAllowed`, `mFramesInUse`, `mStream` | setMaxFramesInFlight, importExternalBuffers, startVideoStream, stopVideoStream, doneWithFrame, shutdown; forwardFrame on the capture thread | VideoCapture; the allocator; the client's deliverFrame and notify |
| Display, `EvsGlDisplay.cpp`, `GlWrapper.cpp` | `mRequestedState`, one buffer with `mBufferBusy`/`mBufferReady`, `mState` of the render thread, the window, EGL image | setDisplayState, getTargetBuffer, returnTargetBufferForDisplay, forceShutdown; renderFrames | GL, the display proxy |
| Enumerator, displays, `EvsEnumerator.cpp` | `ActiveDisplays`: id to weak display, address to id | openDisplay, closeDisplay | display objects |
| Enumerator, cameras, `EvsEnumerator.cpp` | `sCameraList` with weak `activeInstance`, `mCallback` | getCameraList, openCamera, closeCamera, registerStatusCallback; the hotplug thread | inotify; camera objects; the listener |
| Configuration, `ConfigManager.cpp` | tables parsed from XML, constant afterwards | parsing, queries | |
| Conversion, `bufferCopy.cpp`; media links, `MediaControl.cpp`, `NodeInfo.cpp` | none that changes after start-up | pixel format conversion; ioctls that set up a camera's links | |

Hard here: forwardFrame works on a slot outside the lock while the pool is
resized; stopping joins a thread that takes the same lock; the capture thread
may end by itself; start may fail half-way; another client may take a camera or
a display at any time; clients die; devices come and go during calls; a display
object's address is used again. Correct means: no buffer has two owners and none
is lost; the end of a stream is the last event; a device is released only when
no thread uses it; stopping and taking over end; lists and notifications follow
the devices; nobody else's display can be drawn on.

### EVS application, `src/evs/apps/default`

| Component | State | Operations |
|---|---|---|
| `StreamHandler.cpp` | `mReadyBuffer`, `mHeldBuffer`, `mRunning` | startStream, blockingStopStream, newFrameAvailable, getNewFrame, doneWithFrame; deliverFrame and notify from the HAL |
| `EvsStateControl.cpp`, `EvsVehicleListener.h` | current state and renderer, command queue | onPropertyEvent and the wait for it, postCommand, the update loop that chooses a renderer from gear, turn signal and power state |
| Renderers, `VideoTex.cpp`, `RenderTopView.cpp`, ... | textures, one stream handler each | activate, drawFrame, deactivate |
| `evs_app.cpp` | none after start | wires the above, opens the display |

Hard here: the stream handler waits for the end of the stream that another
thread reports; commands are posted while the loop decides to sleep; frames
arrive while one is held. Correct means: at most two frames are kept and every
other one goes back; stopping ends; a command is not missed.

### Bluetooth, `src/bluetooth`

| Component | State | Operations | Talks to |
|---|---|---|---|
| `hci/h4_protocol.cc`, `hci_packetizer.cc` | the type of the packet being read, what has come of it, how much is missing | OnDataReady, called by the watcher when the descriptor can be read | callbacks per packet type; the disconnect callback |
| `aidl/default/BluetoothHci.cpp`, `net_bluetooth_mgmt.cpp` | `mState`, `mCb`, `mFd`, `mH4`, the watcher, the death recipient | initialize, close, the send calls, serviceDied, reset | the management socket and the interface; the client |

Hard: reads that end anywhere in a packet; close, death of the client and
initialize in any order while the watcher reads; the reset with its one-second
wait. Correct means: packets arrive whole, in order, in time, and at the client
that opened the interface; the watcher never waits on a descriptor that was
closed; calls return.

### Sensors, `src/sensors/aidl`

`Sensors.cpp` (event queue, wake lock, a thread that reads acknowledgements),
`Sensor.cpp` (one sampling thread per sensor), `iioClient.cpp` (a thread that
connects to the sensor server and replays what was asked before). Hard: what
was asked for and what the server was told drift apart; events are counted by
threads that write them, by one that reads acknowledgements, and by time; the
framework initialises again at any moment. Correct means: a sensor that is on
reports; the wake lock is held while there is a counted event to handle and let go of
when not; the server does what was asked last.

### GNSS, `src/gnss`

Four interfaces - locations in `Gnss.cpp`, measurements, navigation messages,
antenna information - with a callback, a flag and a reporting thread each.
Two join the thread when they stop; two pass it to a `std::future` that the
next thread waits for. Hard: a stop that overtakes a start; a callback under
the lock that a call holds. Correct means: one thread reports at a time, none
after a stop that joins, and a session left alone reports for ever.

### Thermal, `src/thermal`

One checking thread, two lists of callbacks, temperatures and trip points from
the host by vsock or from a file. Hard: the two lists, thresholds that three
places write. Correct means: who is registered is told, who is not is not, and
the status is that of the temperature.

### Health, `src/health/aidl`

`HealthLoop.cpp` (epoll, wake alarm, uevents), `HalHealthLoop.cpp`, `Health.cpp`
(callbacks), and the thread of `healthd_board_default.cpp` that receives the
battery of the host. Hard: intervals that depend on what is read in between,
suspension at any moment. Correct means: an awake device's state is never too
old, and clients learn it.

### Neural networks, `src/nn_gpu`

A prepared model has operands, a memory manager and, with GLES or Vulkan, the
kernels (`gles_cs_executor.cpp`, `gles_memory_manager.cpp`, `gles_operand.cpp`, and
the same in `vulkan`). An execution binds the client's memory, runs the
operations in order, and copies the outputs back. Hard: buffers of intermediate
results are counted, used again and shared, over executions of which some fail; with
Vulkan a convolution of three channels takes two more, for copies, at every execution.
Correct means: no operation reads a buffer that has another value by then, success
means the results, and no buffer is lost.

### Other HALs

| Component | State and behaviour |
|---|---|
| Vehicle, `src/vehicle` | the VMCU connection: a listening thread and one thread per connection, length-prefixed messages |
| Power, `src/power`; boot control, `src/boot`; storage, `src/storage`; lights, `src/lights` | thin wrappers: system properties, the boot module, a sysfs file, an LED device |
| `src/sensors/2.0`, `src/health/2.0`, `2.1` | earlier interfaces of the same components; a second copy of libiio |
| `src/graphic`, `src/vpl_tools`, AIDL and proto definitions, both copies of libiio | configuration, prebuilt samples, interface definitions, vendored code |

## Modules and the code

```
FrameExchange <--implements-- EvsCamera --EXTENDS--> VideoCapture
     ^                            ^
     | EXTENDS                    | EXTENDS
StreamHandler              EvsCameraInvariant --- MCEvsCamera
     ^                            ^
EvsAppProofs (and of       EvsCameraProofs
EvsStateControl)

EvsDisplay, EvsDisplays <--- EvsDisplaysProofs
EvsCameraList <--- EvsCameraListProofs

EvsStateControl <--- MCEvsStateControl

HciFraming <--EXTENDS-- BluetoothHci <--- MCBluetoothHci, BluetoothHciProofs

SensorsHal, Health <--- SensorsHealthProofs
GnssSessions <--- GnssSessionsProofs
Thermal

GpuExecutor <--- MCGpuExecutor, GpuExecutorProofs
```

EvsAppProofs, EvsDisplaysProofs and SensorsHealthProofs have the proofs of two
components each, which share nothing; so that one module can extend both,
EvsStateControl, EvsDisplay and Health call their specification `ControlSpec`,
`DisplaySpec` and `HealthSpec`.

In every module a section of code under a mutex is one action, and code between
two sections is split where another thread can come in. A variable carries the
name of the member it models; its comment says which.

**VideoCapture.** One object from a successful `open` on. The caller's thread
starts and stops (`StartStream`, `StopSignal` and `StopJoined` around the join);
the capture thread is a loop with a program counter (`CheckRunMode`, `Dequeue`,
`CallbackReturns`, ...); the driver moves buffers from `queued` to `filled`.
`mRunMode` is the set of its bits because the code sets and tests bits without a
lock. Failing ioctls are enabled by `Faults`.

**EvsCamera** extends it. `buffers` is `mBuffers`, a function from slot numbers
to a handle and `inUse`. `forwardFrame` runs as the callback in nine steps
(`ReserveSlot` ... `ForwardFrameReturns`), so that everything a client can call
falls between any two of them: the slot is reserved under the lock, filled
without it. `held` is what the client has. Reading `mBuffers[idx]` without the
lock while the vector grows is a read of moved memory: two steps, `ReadBase` and
`ReadHandle`, and a value `Garbage` when the fault "reuse" is on.

**FrameExchange** is the abstract specification: every buffer has one owner
(idle, being written, lent), it changes hands only by delivery and return, and
the end of a stream is not announced while one is written. `EvsCamera` states
with `LendsBuffers` that it implements it, under the refinement mapping at its
end; `StreamHandler` is written against it instead of against the camera. So the
two large components are checked apart, each against the same contract.
`CapturesVideo` says likewise that inside the camera `VideoCapture` behaves as
its own specification says.

**StreamHandler** has the one-way calls of the camera in a queue (`wire`), the
binder thread that executes them, and the render thread as `VideoTex`
(owner "texture") or `RenderPixelCopy` (owner "copy"): both draw the steps
newFrameAvailable, doneWithFrame, getNewFrame from the handler but in another
order, and they leave it differently. The only thing known of the camera is
`FrameExchange`, plus that a delivery it makes goes on the queue.

**EvsDisplay** has the render thread (`rpc`), two binder threads that run the
client's calls, and a takeover (`ForceShutdown`, `ForceShutdownJoins`) at any
time, also while the render thread starts, when `mBuffer` holds what was in memory. A wait on a condition variable is a guard; every change of the condition
is notified in the code, which was checked for each. **EvsDisplays** has the
enumerator's two maps and the life times of the display objects, with addresses
that are used again. **EvsCameraList** has the hotplug thread, inotify events,
the list, and one binder thread whose calls look at the list without its lock.

**EvsStateControl** has the main thread (`listener`: it waits, posts, signals) and
the render thread as a loop with a program counter: `ProcessCommands`, the three
reads, one of `KeepState`, `TurnOff`, `SwitchTo`, `SwitchFails`, then `DrawFrame` or
`Sleep`. What selectStateForCurrentConditions and configureEvsPipeline do once the
values are read is one action, because only this thread touches the renderers; the
reads are three, because the vehicle changes between them. A renderer is its kind and
the cameras it streams from. Events may be late, lost or missing: `OnPropertyEvent`
may happen at any time and never has to. That the old renderer's stream does end when it
is replaced is `StopEnds` of StreamHandler.

**HciFraming** is the reader. A byte is named by its position in the stream and
has the value `Wire` gives it, so that "the packet was handed over whole" is an
equation between positions; headers are computed from bytes because the change of
the supported commands (`DisableEnhancedSync`) may hit one. A read takes any number of
bytes of `ReadSizes`; the loop over them is one action per turn. **BluetoothHci**
extends it with the service: a thread per client with the steps of `initialize` and
`close` between which it holds no lock, one for deaths, and the watcher, which
is the reader together with what the callback of the packet does. The process
may end (`aborted`, with the reason), which is how the code refuses some calls.
`reset` and `MakeH4` give the reader a new packetizer on the same descriptor
(`Replace`): this is where half a packet could be left behind, and what
`ReadsAsFraming` and the history `aligned` are about.

**SensorsHal** has one binder thread (`main.cpp` makes the pool that small), the
sampling threads, of which one turn is an action because `mRunMutex` is held for
it - except a turn that posts an event of a wake-up sensor. Such a post is two actions,
here and in a flush: `PostEvents` writes, and the framework may read and acknowledge
from then on; `CountEvents` is the call of `updateWakeLock` that follows. Between them
`mWriteLock` is held (`Locked`), which other posts wait for and no one else, and a
sampling thread that posts holds its `mRunMutex`, which `activate` and a change of mode
wait for. There are also the thread that reads acknowledgements, and the thread that connects to the
server, of which reading a request and acting on it are two (no lock). Time is
an action that makes the wake lock overdue. `initialize` puts a new queue in the
place of the old one without `mWriteLock` (`Sensors.cpp:87`): that happens between
any two steps, but a thread that is inside `write` at that moment, where the code has no
defined behaviour, is not in the model.

**GnssSessions** has one interface whose kind is chosen at the start. A call is
the sequence of its steps (`steps`), as the four interfaces differ in little but
their order and in which of them hold `mMutex`; a thread is a program counter, and
`mThreadBlocker` its flag `terminate`.

**Thermal** has the checking thread, whose comparison with each severity is an
action, and the calls. Registration without a type is two actions, because the
lock is taken twice.

**Health** has the loop with a program counter, the device that sleeps and wakes,
time in steps, and the receiving thread, which writes the battery's properties one
by one. While the loop has work no time passes: its work takes milliseconds and
its shortest interval is a minute.

**MCEvsCamera** has the symmetry of handles.

**GpuExecutor** takes a model from a set of models and executes it again and again. An
operation is an action: it binds its operands, runs, and marks its inputs as
finished. Memory infos and buffers are apart, as in the code: an info is in the
pool or not, several operands may have one info, several infos one buffer. What a
buffer contains is the name of a value and the execution it is from, so "wrong
result" is a difference of names. A convolution of three channels with Vulkan has `copies`:
before it binds its operands it takes two infos for them (`Rebind`), which no operand has, so
that nobody marks them as finished. **MCGpuExecutor** makes the models.

## Runs

| Run | Module, configuration | States | Shows |
|---|---|---|---|
| camera | MCEvsCamera, EvsCamera | 519,151 | With every fault at any time: the counters agree with the records (`Accounting`), a held frame keeps its buffer (`HeldFramesIntact`), the device's buffers stay mapped while a frame is handled (`MappedWhileUsed`), the end of a stream is the last a client hears of it (`EndOfStreamIsLast`), stopping ends (`StopReturns`), frames keep coming to a client that returns them (`KeepsFlowing`), and the camera implements FrameExchange (`LendsBuffers`), so that a picture is never written where someone reads |
| app_stream | StreamHandler | 11,279 | No frame lost or doubled between camera and renderer (`Conserved`), the frame in use is left alone (`ReadsItsOwn`), the picture goes on changing (`KeepsRefreshing`), stopping ends (`StopEnds`) |
| display | EvsDisplay | 856 | The screen shows finished pictures only (`DrawnAlone`), a request for the buffer is answered (`GetAnswers`), taking a display over ends, except when it comes before there is a buffer to be told about and the render thread then comes up (`ShutdownReturns`; that takeover hangs, see EvsDisplayHang [below](#where-the-code-deviates)) |
| displays | EvsDisplays | 26,752 | No living display is forgotten though addresses are used again (`NoneForgotten`), access is exclusive (`ExclusiveAccess`) |
| camera_list | EvsCameraList | 236,060 | No device is open twice (`OneOpen`), list and notifications follow the devices (`ListFollowsDevices`, `NotifiedTruth`) |
| state_control | MCEvsStateControl, EvsStateControl | 155,728 | The cameras in use and the display belong to the state that was chosen (`ShowsItsState`), the state follows a vehicle that rests though signals and events may be lost (`ViewFollowsVehicle`) |
| bluetooth | MCBluetoothHci, Bluetooth | 92,915 | Packets are handed over whole and in order (`WholePackets`), as soon as they can (`Prompt`), to the client that opened the interface (`DeliveredToOwner`); the watcher never waits on a closed descriptor (`WatchedIsOpen`); one client alone does not end the process (`AloneIsSafe`); calls return; the service reads as HciFraming says (`ReadsAsFraming`) |
| sensors | SensorsHal, Sensors | 357,895 | The wake lock is held while a counted event waits (`HeldWhileUnread`) and is let go of (`WakeLockReleased`), a sensor that is switched on reports (`ReportsOnActivation`), the server does what was asked last (`ServerFollows`) |
| gnss | GnssSessions, Gnss | 22,437 | One thread reports at a time (`OneReporter`), none after a stop that joins (`QuietWhenStopped`), a session left alone reports for ever (`KeepsReporting`), calls return |
| health | Health | 674,320 | An awake device never waits with a state that is too old (`UpdatedInTime`), and clients learn it (`CatchesUp`) |
| gpu | MCGpuExecutor, Gpu | 2,068,472 | Success means the results of this execution (`DeliversResults`); between executions every buffer is back in the pool, unless the model has one of the two kinds of operation that lose buffers (`BuffersComeBack`; a RESHAPE that gives an output, and with Vulkan a convolution of three channels, see [below](#where-the-code-deviates)) |
| thermal_callbacks | Thermal, ThermalCallbacks | violation | see [deviations](#where-the-code-deviates) |

Each property of a passing run is violated by a plausible bug in the code
it is about (PROJECT.json, "mutants"); the variants stand in the modules beside
what they replace.

The modules define more properties than the runs list, for a run costs time and
these follow from, or are weaker than, what is listed: the type invariants
(`TypeOK`), `IInv`, `FillIsExclusive`, `EmptySlotBelow`, `NoThreadWhenClosing`,
`StopNotifies` and `CapturesVideo` of the camera, `BusyHasReason` and
`ReleasedWhenShut` of the display, `MapsAgree`, `ClosedIsShutDown`, `CommandServed`,
`SuccessIsOpen`, and `AwaitedIsIntact` of the executor. They hold when they are added to the
configuration of their module's run. `BufferConservation` and `ShrinksOnRequestOnly`
of the camera do so with `Faults = {"deliver", "select", "dqbuf"}`, `BufferCount = 2`
and `Imports = {}`.

## Bounds

- Camera: three handles and pools of at most two (`kMaxBuffersInFlight` is 100 in
  the code). Two make a held frame and one being written; a third handle is what a
  resize or an import brings in. Resizing from any size to any other, and
  importing one or two, are all in `Requests` and `Imports`. One capture
  buffer: the camera handles one frame at a time, and the faults do not depend on
  how many the driver has. The proofs have no such bounds.
- `UintMax` is 7 so that wrapping `framesInUse` would show: `Decrement` of 0 gives it.
- Stream handler: two buffers of three handles, as the constructor asks for; the
  queue of calls is bounded by the buffers there are.
- Display: two binder threads, so that a wait for the buffer and a takeover meet;
  the third caller would only wait on the same lock.
- Displays: two ids, two ports, three addresses: an address can be used again
  while two others live.
- Camera list: two devices of which one qualifies, one group, two camera
  objects (one to be stolen from), and two unread events.
- State control: a state with one camera, one with two of which it shares one, the
  others without; two gears (reverse, another), two turn signals, two power
  reports. The queue is a set, as a command has no content that is used.
- Bluetooth: five packets - the list of supported commands, two answers to the
  reset, an event without a payload, an ACL packet whose length needs both bytes - read
  in pieces of 6 or 25 bytes, which end in every part of a packet and span several.
  A byte has two values where it says a length (`ByteBase`, 256 in the code). Two
  clients, of which one may die; the interface is opened twice. The proofs have no
  such bounds.
- Sensors: one sensor, which reports on change and wakes the device, so that it takes
  every path; a queue with room for one event; two initialisations. `Word` is 16,
  and the period asked for cuts to another.
- GNSS: each kind alone, four threads: the third meets the ends of two before it.
- Health: one client, two levels of which one is invalid, intervals of one and three
  steps, and one uevent or call in a step.
- Thermal: two clients, two zones in a message.
- GPU: every model of at most four operations, each with one or two inputs, in which
  what is written is read: four make a value that is written, shared, and awaited
  while another buffer is taken. With Vulkan one operation may be a convolution of three
  channels. Two lengths, at most two outputs, two executions, so that the pool is met empty
  and used.

## Fairness

Liveness needs, and the runs assume, no more than this:

- The capture thread, the binder thread of a call that has begun, the render
  threads and the driver take a step that stays enabled (weak fairness):
  threads are scheduled, and the camera delivers pictures.
- The client of a camera need do nothing. Only `KeepsFlowing` assumes that it
  returns its frames (`SF_vars(DoneWithFrame)`): with all frames held, skipping
  is what the code is meant to do. It leaves out the cases in which the camera has
  nothing to send (`Starved`): no buffer in the pool after requests that failed, a
  capture loop that lost its descriptor, a driver that took no buffer back.
- Stream handler: the camera goes on writing (WF) and a delivery that is tried
  again and again succeeds in the end (SF); the binder thread executes calls; the
  render loop draws as long as it has a renderer (WF), which is what `updateLoop`
  does; leaving, once begun, goes on. `SF_vars(AsyncStopStream)` stands for the
  fact that stopVideoStream returns although the camera may be in the middle of a
  picture whenever one looks; that is `StopReturns` of `EvsCamera`. No one is
  obliged to deactivate a renderer.
- State control: both threads run, the wait of five seconds ends, and a power
  report that is read again and again is read in the end (SF). Neither events nor
  wake-ups are assumed: `FiveSeconds` alone brings the loop back.
- Bluetooth: what is under way goes on (WF on the steps of a call, deaths and
  the watcher's loop); opening the interface need not end, as it waits for the
  hardware, and the controller need send nothing.
- Sensors: the sampling threads, the binder thread's call, the thread of the wake lock
  and time go on, and a sampling thread gets `mWriteLock` if it is free again and again
  (SF; another post holds it only while it writes and counts); the framework need neither call nor read its events. The server
  need not be there.
- GNSS: threads run (WF) and a call in progress gets `mMutex` in the end if it is
  free again and again (SF). Nobody need call.
- Health: the loop runs, time passes, a message being written is written. `CatchesUp`
  is about a device that stays awake, and none is obliged to.
- Clients of a display are obliged to nothing. `GetAnswers` is about a wait
  that is ended by the render thread alone.

## Proofs

`tlapm` checks every proof from nothing. For every value of the constants:

**Camera** (`EvsCameraProofs`, which begins with lemmas on the pool and on sets of slot
numbers). The inductive invariant `IInv` of `EvsCameraInvariant`
has, besides the types, three parts. `ThreadInv` says which thread can be where:
a live capture thread implies an open device with a stream and a set RUN bit,
forwardFrame runs only inside the callback, a join only while stopping. `PoolInv`
says that the records are well-formed - an empty slot is not in use, no buffer
stands in two slots - and that the counters count them. `OwnInv` says that a slot
in use has exactly one user: the client, a return that is being handled, or
forwardFrame. The properties are not inductive without these: `HeldFramesIntact`,
for one, breaks in a state where forwardFrame works on a slot the client holds.

| Theorem | States |
|---|---|
| `ClosesAlone` | `NoThreadWhenClosing`, for every fault |
| `NothingAfterTheEnd` | `EndOfStreamIsLast`, for every fault |
| `MappedWhenRead` | `MappedWhileUsed`, for every client and fault |
| `CapturesSafely` | The device behaves as VideoCapture says: `CapturesVideo` without its fairness |
| `ImplementsExchange` | `LendsBuffers`: the camera implements FrameExchange |
| `TypesHold`, `CountersAgree`, `HeldFramesKept`, `FillsItsOwn`, `SlotIsFound`, `RoomBelow` | `TypeOK`, `Accounting`, `HeldFramesIntact`, `FillIsExclusive`, `SlotAlwaysFound`, `EmptySlotBelow` |

`ImplementsExchange` and the last six assume that the client returns only frames that it holds
(`RepeatedReturns = FALSE`) and that memory freed by a growing vector is not
overwritten before it is read (`"reuse" \notin Faults`); without either the
properties do not hold, as the configurations in the last section show. Every
other fault is allowed.

**Stream handler** (`EvsAppProofs`, first half). `IInv` adds to the properties that the
camera has no buffer twice and writes only during a stream (`Disjoint`), and that
the renderer asks for a frame only when there is one and gives back one that it
has (`Asks`). There is one lemma for the steps of the camera, one for those of the
binder thread, one for the renderer; the queue of calls is dealt with by `Sending`
and `Executing`. `FramesConserved` and `PictureInUseKept` then hold for
any set of buffers and any fault. They rest on the contract `FrameExchange`; that
the camera keeps it is `ImplementsExchange`, whose refinement mapping takes the
written, lent and waiting buffers from the slots that `OwnInv` says have one user.

**Display** (`EvsDisplaysProofs`): `DrawsAlone` (`DrawnAlone`), `BufferKept`
(`BusyHasReason`) and `DisplayReleased` (`ReleasedWhenShut`), for any number of
binder threads and any fault. The invariant says that nobody has called before
the render thread is up (`Untouched`), from where to where buffer and context exist
(`BufferExists`), that a picture and a client exclude each other (`OneUser`),
and that the thread ends only when the display is lost or could not begin
(`EndsWhenLost`). They assume what the run has: no call before the thread is up and no
buffer returned twice; the configurations EvsDisplayEarly and EvsDisplayRetry
show what happens otherwise.

**Displays** (the same module): `DisplaysRemembered` (`NoneForgotten`),
`MapsStayInverse` (`MapsAgree`) and `AccessIsExclusive` (`ExclusiveAccess`), for any
number of threads, ids and addresses. `NoneForgotten` alone is not inductive, for a
map entry may belong to an object that is gone and whose address has been given to
another: `HeapInv` says which objects live, `ValidInv` that a valid entry leads to a
live object of its display, `NewInv` that an object not yet inserted is known to its
thread only, `KnownInv` that every display that can draw is found. The third theorem
assumes that clients name ports (`Ids = Ports`); EvsDisplaysShared shows the rest.

**Cameras** (`EvsCameraListProofs`), for any devices, groups and camera objects and any
number of unread events: `OpenedOnce` (`OneOpen`), `ClosedStaysShut`
(`ClosedIsShutDown`), `ListenerKnows` (`NotifiedTruth`) and `DevicesFollowed`
(`ListFollowsDevices`). That no device is open twice is not inductive: `OpenInv` adds
that an open camera of an undisturbed device is the one its record names, or the one
that the call under way is about to put there. `ToldInv` relates what was told to the
list and to the change still to be told. `QueueInv` says that the last unread event of
a device tells whether it is there, `ListInv` that the list does for a device without
one. `DevicesFollowed` alone assumes something, that no device comes before the thread
watches (`Early = FALSE`); EvsEarlyDevice shows the rest.

**State control** (`EvsAppProofs`, second half): `ControlTypes` and `StateIsShown`, for any
assignment of cameras to states. The second rests on the types and on one fact
of the lists of cameras, `ShownCameras`: a list whose first camera does not exist is
empty, so the copying renderer turns off exactly when the other one would.

**Framing** (`BluetoothHciProofs`, first half), for every stream of packets of the five types, every
way to cut it, and every replacement of the reader between packets. The
invariant `Framed` says, as long as no header was changed (`InStep`), where the
reader stands (`Placed`: between two packets, in a header or in a payload, of which
`packet_` holds exactly what came) and what it has given (`Given`). `WholePackets`
alone is not inductive: it says nothing of the packet that is half read. That the
packet lengths add up is the assumption `WireAssumption`, which is what a
controller writes.

**Service** (its second half), for any number of clients, opens and deaths. `Owned`
has the types and three parts: `Alone`, that `mState` lets one call at a time open or
close; `Found`, what that call finds of the descriptor, the packetizer and the
client; `Kept`, what then holds of the watcher and the packets.
`ServiceReadsAsFraming` is the refinement of the reader, and with it the
theorems about the reader hold in the service (`ServiceDeliversWholePackets`,
`ServiceIsPrompt`). `Sole` is what holds besides while calls come one after another:
there is one (`OneCall`), each place of it has a state of the interface (`UnderWay`),
between calls the interface is closed or open for one client (`Settled`). From it
follow `ServiceIsSafeAlone` (`AloneIsSafe`) and `ServiceSuccessIsOpen`
(`SuccessIsOpen`).

**GNSS** (`GnssSessionsProofs`), for each kind of interface, any number of threads and
any sequence of calls: `OneReports` (`OneReporter`) and `QuietAfterStop`
(`QuietWhenStopped`). A call is a sequence of steps, and `CallInv` says of what is left
of it that it is in an order in which the session is deactivated, its thread is let go
of, by joining it or by passing its future on, and only then the next one is started;
so a thread that was not let go of is of an active session. `ThreadInv` says that every
thread that has not ended has its future in `mFutures` or is `mThread`, and that only one
has come past the wait for the others. So the one that reports is alone.

**Sensors** (`SensorsHealthProofs`), for any sensors, periods and size of the queue.
`WakeLockIsHeld` (`HeldWhileUnread`): `WakeInv` says that until time lets go of the
lock at least the pending events are counted, less those that the post under way has
written and not yet counted (`Known`); that there are such only while `mWriteLock` is
held; and that the wake lock is held just when the counter is not zero. Those that are
not counted may be read and acknowledged already, so `Known` may be negative.
`UpdateKeeps` is what `updateWakeLock` does, `PostKeeps` and `CountKeeps` are the two
halves of a post.
`ServerIsTold` (`ServerFollows`): `ReplayInv` has for each sensor what it is told in each
of the places in which the connecting thread can be - not yet found (`Unfound`), still to do
(`Unreplayed`), about to be told its period (`Batching`) or that it is enabled
(`Activating`), done (`Replayed`).

**Health** (the same module), for any intervals, levels and clients: `BatteryIsUpdated`
(`UpdatedInTime`). `Watched` says that the battery's age and what is left until the
alarm are together no more than the interval, unless the alarm has expired unread or an
update is under way, and that the interval is the short one if there is a charger.

**GPU executor** (`GpuExecutorProofs`), for any models, sizes, backends and number of
executions, with operations that fail or not: `ExecutorTypes`, `BuffersReturn`
(`BuffersComeBack`, for models outside `LosesBuffers`: no RESHAPE gives an output, no
convolution runs on copies), `ResultsDelivered` (`DeliversResults`) and `AwaitedStaysIntact`
(`AwaitedIsIntact`). The first two count the reads to come: while operation `next` is to
run, `numberOfUsesLeft` of a temporary is the number of places among the inputs of this
and the later operations where it stands (`Counted`), which is what lets the code know
the last read. `Needed` says that a temporary that has a buffer is still to be read, and
`Lent` that a buffer in use has no more references than operands that hold it, but at least
one. So when no read is left nobody holds a buffer, and none is in use (`LentIsFree`).
The loops of the code over the inputs of an operation are recursive functions here;
`BoundInSteps` and `MarkedInSteps` are what is true of each of their steps, by
induction over the number of inputs, and of the whole loop.

For the results `RInv` adds what every buffer contains. `Sound` says of an execution in
which the operands of a set W have been written: every info but that of an output has a
buffer of its own (`Homes`); constants have an info that is theirs alone, outputs have a
buffer when they are in W, and so have the temporaries in W that are still to be read
(`Places`); a buffer of the pool is in use and has a reference for each temporary that holds
it, and one more if an output got it in a RESHAPE (`Kept`, which unlike `Lent` holds with such
models, too, and says nothing of a buffer that was taken for a copy: nobody holds it); and each buffer contains the value of every operand that has it (`Exact`).
`Idle` is what is left between executions: no temporary has a buffer, and those of the
constants contain them and are not among what the next request deletes.
Each function of the code has a lemma: binding an input makes a buffer that contains its
value or finds one (`InputBound`), what is to be written gets one that no other operand has
(`OutputBound`, by `Kept` no buffer that is taken from the pool is held or an output's), a copy is
made in a buffer that no operand has and that stays so (`RebindSound`, `CopiedSound`), a shader
writes there and nowhere else (`DispatchSound`), a RESHAPE lets two operands of one value share
(`ShareSound`), and a buffer goes back only with its last reference (`MarkSound`).
`OriginFacts` gives where a value is from: the recursion of `Origin` has a solution,
because what an operation reads was written before it (`TraceExists`).

`ResultsDelivered` and `AwaitedStaysIntact` have the hypothesis `KeepsConstants`: with GLES no
output is a RESHAPE of a constant, of which the code is not right ([below](#where-the-code-deviates));
the run has the same restriction, `ConstantOutputs = FALSE`, and the theorems need it
nowhere but at the end of an execution (`EndSound`).
`ModelAssumption` is what the client library's `validateModel` (called in
`device.cpp:81`, 117, 153) lets pass: operations in order, which write to temporaries and outputs, to each
once and to every output. `NullAssumption` says that the null pointer is not an info.
`ModelAssumption` also asks that every temporary is read, which is an assumption on the models: one that
is never read keeps its buffer from one execution to the next.

Only model-checked: all liveness (fairness and ENABLED are out of the prover's reach). Of
the invariants of the passing runs none is.

## Where the code deviates

The run thermal_callbacks shows a violation of what an answer of the code says:

| Run | Property | The code |
|---|---|---|
| thermal_callbacks | `AlreadyIsRegistered` | A callback is kept in two lists and taken out of one when it is unregistered; registering it again is answered "Callback already registered" (`Thermal.cpp:655`; 686) |

The following were met on the way. The properties are defined in the modules;
the passing runs exclude the case, by a constant or by a condition that says so. The
first column says how to see the violation: a configuration that is there
to run, or the property to add to the configuration of a run.

| How | Property | The code |
|---|---|---|
| VideoCaptureTimeout | `FramesAreDispatched` | After a time-out of `select` the set of descriptors is empty and is not filled again, so no frame is ever noticed (`VideoCapture.cpp:417`) |
| EvsCameraImport | `LimitRespected` | importExternalBuffers subtracts the room that is left instead of reducing the request to it, and passes the limit (`EvsV4lCamera.cpp:404`) |
| EvsCameraRollback | `ShrinksOnRequestOnly` | A failed request rolls back to less than before when there are more slots than buffers (`EvsV4lCamera.cpp:560`, 646; comment 558) |
| EvsCameraAssert | `ClosedWhenStopped` | A failed start leaves the run mode set, against the assertion in `close` (`VideoCapture.cpp:225`; 213) |
| EvsCameraRepeat | `SlotAlwaysFound` | A frame that is returned twice is counted twice (`EvsV4lCamera.cpp:470`; 680, 510) |
| EvsCameraRealloc | `HeldFramesIntact` | A slot is read without the lock while the vector may move (`EvsV4lCamera.cpp:721`) |
| EvsDisplayHang | `ShutdownAlwaysReturns` (PROPERTY) | A render thread that is still starting is not told to stop, and is joined (`EvsGlDisplay.cpp:91`) |
| EvsDisplayStolen | `OwnersOnly` | A buffer is granted after the display was lost during the wait (`EvsGlDisplay.cpp:339`; 332) |
| EvsDisplayEarly | `GivesBuffer` | A buffer is granted before there is one (`EvsGlDisplay.cpp:355`; 322) |
| EvsDisplayRetry | `DrawnAlone` | A buffer returned twice is drawn while a client has it (`EvsGlDisplay.cpp:392`) |
| EvsDisplay, `Client = {"hidden"}` | `AlwaysAnswers` | A return that is ignored leaves the buffer busy for good (`EvsGlDisplay.cpp:409`; 348) |
| EvsDisplaysShared | `ExclusiveAccess` | An id that is no port stands for the main display, but not in the map (`EvsEnumerator.cpp:458`) |
| EvsDisplaysBusy | `RefusedOnlyIfUsed` | The address of a destroyed display refuses a new one (`EvsEnumerator.cpp:758`; 472) |
| EvsRecordErased | `RecordIsLive` | openCamera writes to a record that another thread has erased (`EvsEnumerator.cpp:406`) |
| EvsListRace | `ListFits` | The list is sized and copied without the lock (`EvsEnumerator.cpp:308`) |
| EvsEarlyDevice | `ListFollowsDevices` | A device that comes between enumeration and the watch is not seen (`EvsEnumerator.cpp:95`) |
| (excluded in `OneOpen`) | | A device that was unplugged and plugged in has a new record, and the old camera stays open (`EvsEnumerator.cpp:204`) |
| StreamHandlerDies | `WaitsForEnd` | The destructor waits for an event that a dead process does not send (`StreamHandler.cpp:142`) |
| StreamHandler, `Faults = {"refused"}` | `NeverFreezes` (PROPERTY) | The answer of the camera about the number of buffers is ignored (`StreamHandler.cpp:48`) |
| StreamHandlerInvalid | `NeverFreezes` | A frame with a bad handle is never given back (`VideoTex.cpp:96`) |
| StreamHandlerLeak | `StreamsWhileDrawn` | The handler is dropped but the camera keeps it (`RenderPixelCopy.cpp:74`) |
| EvsStateControl, `Failing = {"draw"}` | `NoPictureLeft` | The loop ends with its last picture on the display, and the main thread, which would end the application, waits on (`EvsStateControl.cpp:223`, 254; `evs_app.cpp:275`) |
| EvsStateControl, `Failing = {"signal"}` | `SignalCounts` (PROPERTY) | A turn signal that could not be read once is never read again (`EvsStateControl.cpp:277`; 275) |
| EvsStateControl, `Failing = {"power"}` | `AlwaysAReport` | The first element of a power report that was never read is read (`EvsStateControl.cpp:298`; 267). Without a vehicle (`--test`, line 279) no report is ever read |
| EvsStateControl, `Failing = {}` | `NoOrphans` | A camera streams on after its copying renderer is gone (`RenderPixelCopy.cpp:74`; `RenderDirectView.cpp:145`) |
| Bluetooth | `NotInitializing` | Closing, or dying and being closed, while another call initialises ends the process (`BluetoothHci.cpp:327`) |
| Bluetooth | `LinkedAlive` | A client that dies while its interface opens ends the process (`BluetoothHci.cpp:75`) |
| Bluetooth | `AnsweredOnce` | A second answer to the reset completes a promise twice, which ends the process (`BluetoothHci.cpp:168`) |
| Bluetooth | `SentToOpen` | close lets go of the descriptor before the packetizer that writes to it (`BluetoothHci.cpp:337`, 346; 393) |
| Bluetooth | `DeathClosesItsOwn` (PROPERTY) | The death of an earlier client closes the session of the next (`BluetoothHci.cpp:84`, 94) |
| Bluetooth | `OwnSuccess` (PROPERTY) | SUCCESS is told to whoever `mCb` is, read after the lock was let go of (`BluetoothHci.cpp:308`) |
| Bluetooth | `Disabled`, `InBounds` | The supported commands are looked for at a fixed place of each read, not in the packet: an answer in two reads is not changed, and a byte outside of the buffer may be (`h4_protocol.cc:241`, 246) |
| Sensors | `HeldAlways` | An event can be read before it is counted, and until then nothing holds the wake lock for it (`Sensors.h:106`, 113; comment 111) |
| Sensors, `MaxInits = 1` | `CountedOnce` | An acknowledgement that comes before the count is taken off nothing; the event is then counted, and the lock held until its time has passed (`Sensors.h:160`) |
| Sensors | `ServerFollowsAlways` | The thread that connects replays a request that was withdrawn while it read it (`iioClient.cpp:85`) |
| Sensors | `PeriodAsAsked` | A period of 64 bits is cut to 32 (`Sensors.cpp:48`) |
| Sensors | `ReportsAlways` (PROPERTY) | An event of an on-change sensor that did not fit the queue is not sent again (`Sensor.cpp:476`) |
| Gnss | `KeepsReportingAlways` (PROPERTY) | A stop that overtakes the start of its thread: that thread waits for itself or loses the notification (`GnssMeasurementInterface.cpp:111`, 194) |
| Gnss | `ResettingReturns` (PROPERTY) | setCallback joins a thread that waits for what it holds (`GnssAntennaInfo.cpp:42-47`) |
| Gnss | `CalledIsThere` | close clears a callback while it is being called (`Gnss.cpp:188`) |
| ThermalCallbacks | `OnlyRegisteredAreTold` | A callback that was unregistered is told on (`Thermal.cpp:686`) |
| ThermalCallbacks | `RegisteredAreTold` (PROPERTY) | One that was registered with a type is never told (`Thermal.cpp:681`) |
| ThermalCallbacks | `StatusIsHighest`, `StatusEnds` | The status ends at the lowest threshold that is reached, and never returns to none (`Thermal.cpp:517-537`) |
| ThermalCallbacks | `TripsStay` (PROPERTY) | Asking for the thresholds writes the defaults over them (`Thermal.cpp:605`) |
| Health | `PollsAwake` | The poll interval is read before the chores that change it (`HealthLoop.cpp:206`; comment 109) |
| Health | `WatchedInSleep` (PROPERTY) | The device may sleep again before the alarm was seen (`HealthLoop.cpp:69`) |
| Health | `ToldTogether` | The battery's properties are copied while they are written (`healthd_board_default.cpp:191`) |
| Gpu, `MaxOps = 1`, `PoolCounts = {1}`, `Failures = FALSE`, `Backends = {"vulkan"}` | `ReservedSuffices` | A convolution of three channels takes two buffers for copies of its filter and its input at every execution, and nobody gives them back: the process aborts (`vk_cs_executor_conv.cpp:1198`; `vk_operand.cpp:33`; `vk_memory_manager.cpp:29`) |
| Gpu, `MaxOps = 2`, `MaxRuns = 6`, `PoolCounts = {1}`, `Failures = FALSE`, `Backends = {"gles"}` | `ReservedSuffices` | A RESHAPE that gives an output counts a reference that is never taken back, so each execution loses a buffer until the process aborts (`gles_memory_info.h:48`; `gles_memory_manager.cpp:10`, 62) |
| Gpu | `DeliversAlways` | After an operation failed, its operands keep buffers that the pool gives to others: a later execution aborts, or reports success with other results (`gles_memory_manager.cpp:88`) |
| Gpu, `ConstantOutputs = TRUE` | `DeliversResults` | With GLES the buffer of a constant that was reshaped to an output is deleted with the request (`gles_memory_info.cpp:10`) |
| Gpu | `AnyPools` | A request with another number of pools than the first ends the process (`gles_memory_manager.cpp:71`) |

## Not modelled

Camera parameters, meta data, the primary client and extended information of the
camera (they touch neither the pool nor the stream); what a picture looks like;
GL calls, except that they may fail; configuration files; logging and dumps;
statistics of the application, and its mode without a vehicle. Nothing posts EXIT or
TOUCH_EVENT, so the loop that obeys them is not in the model. Of the one-way calls the order is kept and
none is lost while the processes live, as binder guarantees.

Bluetooth: the loopback mode, the socket for the audio of USB adapters, rfkill and how
`openHci` waits for the interface (it may fail or not end, and no more is known).
Sensors: the values and their scales, a server that goes away, the older
interface. GNSS: satellite status, batching, parsing. Health: charger mode, the
properties read from sysfs. Neural networks: the numeric kernels, the choice and tuning
of shaders (the larger part of `src/nn_gpu`), scalar operands, memory of the client that cannot
be mapped, the two buffers outside the pool that a GLES convolution of three channels keeps
with its operation (it converts the filter in the first execution alone, right only for a
constant: `gles_cs_executor_conv.cpp:1275`), and two executions at once: each has a thread (`prepare_model.cpp:90`), and
the code has no lock that would keep them apart, so nothing could be said but that
every member is raced for.

No module: power, boot control, storage and lights, which translate a call to
one read or write; the two copies of libiio (`src/sensors/aidl/libiio_client`,
`src/sensors/2.0/.../libiio_client`), which are vendored. They and the kernels are half of
the lines of the implementation, so the share that a model can cover is small
however much is modelled; what is covered is the code that shares state between
threads, processes and calls.

## Plan

Done, in this order: VideoCapture, FrameExchange, EvsCamera with its proofs,
EvsDisplay and EvsDisplays with theirs, EvsCameraList, StreamHandler and
EvsStateControl with their proofs; HciFraming and BluetoothHci with theirs, SensorsHal, GnssSessions,
Thermal, Health and GpuExecutor; the proofs of EvsCameraList, GnssSessions, SensorsHal,
Health and GpuExecutor.

Next, by weight:

1. The connections of the VMCU (`src/vehicle/Conn`): a listening thread, a thread per
   connection, messages with a length in front, cut anywhere. To look at first:
   `readExactly` of `SocketComm.cpp` reads again from the start after a short read,
   `stop` closes the descriptor that another thread accepts on, and connections are
   never removed.
2. Two executions of a model at once (`src/nn_gpu`), once the code keeps them apart.
3. The server of the sensors going away and coming back; the socket of USB audio.
