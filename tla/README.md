# A verification project for the Orange Pi 5 Pro device configuration

The repository is an Android device configuration.  Most of it is build files,
policies and firmware; its programs are a set of hardware services (HALs), and
the largest and hardest of them is the audio HAL under `audio/`.  This directory
holds TLA+ models of these programs, the configurations TLC checks them with, and
theorems about them that TLAPS proves.

- A component is one module (or two, when its state and its threads are separate
  classes).  Operations carry the names of the functions they model, and
  `PROJECT.json` maps every definition to the lines it stands for.
- `MC*.tla` and `.cfg` give the constants of a model small values for TLC.
- `*Proofs.tla` hold the theorems, true for every value of the constants.

Contents: the system (1), the plan (2), the models one by one (3), the runs (4),
fairness (5), the proofs (6), what the models leave out (7), what they showed (8).

## 1. The system

### 1.1 Components

| Component | Source | State | Operations | Models |
|---|---|---|---|---|
| Output and input streams | `audio/Stream.cpp` | stream state, drain state, command and reply queue, closing thread | commands, driver callbacks, `close` | `StreamOut`, `StreamIn`, `StreamProtocol` |
| Stub and offload drivers | `audio/stub` | staged clips, DSP thread | driver interface, DSP cycles | `OffloadDriver` |
| Memory-mapped stub | `audio/stub/StreamMmapStub.cpp` | shared memory, DSP thread, position | driver interface, `createMmapBuffer` | `StreamMmapStub` |
| Remote submix | `audio/r_submix` | table of routes, pipes, stream counters | open, transfer, standby, close, pipe reset | `SubmixRoute`, `StreamRemoteSubmix` |
| Stream switcher | `audio/deprecated` | the stream behind the stream, postponed requests | devices, parameters, effects, close | `StreamSwitcher` |
| Primary streams | `audio/primary` | card named, card open, stub | devices, start, standby, shutdown | `StreamPrimary` |
| ALSA streams | `audio/alsa` | pipes, I/O threads, proxies | start, transfer, standby, shutdown | `StreamAlsa` |
| ALSA devices | `audio/alsa_utils`, `ModuleAlsa.cpp` | profile of a device, prepared proxy | read, populate, prepare, open | `AlsaProfile` |
| USB streams and mixers | `audio/usb`, `audio/alsa/Mixer.cpp` | devices of a stream, mixers of cards | devices, open, mute | `UsbAudio` |
| Bluetooth position | `audio/bluetooth/A2dpManualSync.cpp` and its caller | latency, presented frames | transfer, `refinePosition` | `A2dpManualSync` |
| Bluetooth ports and streams | `audio/bluetooth` | state of the port, answers of the stack | start, suspend, stop, callbacks | `DevicePortProxy`, `StreamBluetooth` |
| Bluetooth module | `ModuleBluetooth.cpp` | proxies, connections | connect, configure, patch, open | `ModuleBluetooth` |
| Module: ports, patches, streams | `audio/Module.cpp` | ports, routes, patches and their index, streams | connect, disconnect, patches, configs, open, close | `AudioPorts`, `AudioModule` |
| Module: configurations | `audio/Module.cpp`, `ModulePrimary.cpp`, `ModuleRemoteSubmix.cpp`, `Configuration.cpp` | profiles, port configs, minimum buffers | negotiation, update, patches | `Configuration`, `PortConfigs` |
| Effect instance | `audio/Effect{Impl,Context,Thread}.cpp` | instance state, context with queues, worker | open, reopen, commands, parameters, `close` | `EffectContext`, `EffectImpl` |
| Effect factory, sessions | `audio/EffectFactory.cpp`, `bundle/aidl/GlobalSession.h` | instances, sessions, contexts | create, open, close, destroy | `EffectFactory` |
| Effect libraries | `audio/libeffects` | parameters, caches, rings | parameters, enable, process | `BundleContext`, `BundleParameters`, `Reverb`, `Visualizer`, `DynamicsProcessing` |
| USB gadget | `usb` | functions in configfs, monitor thread | set functions, reset, tear down | `UsbGadget` |
| Bluetooth HCI | `bluetooth` | state, socket, reader thread | initialize, close, death of the client | `BluetoothHci` |
| HDMI CEC | `hdmi/cec` | flags, callback, event thread | init, flags, addresses, events | `HdmiCec` |
| XML converters, sound dose, telephony, Bluetooth settings | `audio` | none that changes, or values that are stored | built once; setters | none |
| HDMI connection, health, lights, scripts | `hdmi/connection`, `health`, `light`, `scripts` | none or one file | read, write | none: no behaviour over time |

Section 7 lists what each model leaves out.

### 1.2 How they interact

A client creates a stream through its module and talks to it over two message
queues of one place, one for commands and one for replies.  A *worker thread* of
the stream reads a command, calls the *driver* (which is the same object: a stream
is its own driver), changes the stream's state and replies.  `close` comes on a
binder thread, puts an exit command into the same queue and joins the worker.  A
driver may have a thread of its own that calls back into the stream.

The *module* gets calls on binder threads, which its client makes one at a time.
It keeps patches (connections of mix ports and device ports) and tells each open
stream which devices it is connected to; a stream may refuse, and the module then
rolls back.

The *submix* module connects an output stream to input streams by a pipe in the
process; streams share a route, under its lock, and each of them runs on its own
worker.

A *Bluetooth* stream asks the Bluetooth stack, through its port, to start and to
suspend, and waits for an answer that comes on a thread of the stack; changes of the
A2DP and LE settings reach it on binder threads.

An *effect* is driven by calls from binder threads and moves samples from one data
queue to another on a worker that waits for an event flag, which both the client
and the instance raise.  The *factory* makes instances; those of the bundle share
*sessions*, and each has a context over the signal processing library.

An *ALSA* stream has one I/O thread for each device, and a pipe between it and the
worker; primary and USB streams choose the devices, which the module changes from
binder threads while the worker runs.

The *services* (USB gadget, HCI, CEC) have each a thread that waits on the kernel,
and callers that start it, join it and change what it looks at.

### 1.3 What is hard here

`PROJECT.json` lists the hazards at their lines.  The largest groups:

- *two threads over one state*: the callbacks of a DSP thread and a worker both
  write the state of a stream without a lock (`Stream.cpp:450`); two submix streams
  open, reset the pipe and close at the same time; an effect is closed in two
  locked sections with a join in between;
- *closing*: an exit command in a queue of one place; a writer that waits for a
  reader; a worker that waits for a flag; counters that decide who is last;
- *late answers*: a Bluetooth request whose answer comes after its time limit, or
  crosses a suspend of the stack;
- *partial failure*: a driver call fails in a command; one of several streams
  refuses its devices and the others are rolled back;
- *redundant state*: the index beside the list of patches, profiles of a mix port
  filled by a device that goes, the size of a work buffer beside the queues;
- *order*: a drain that ends before it is recorded, a configuration that changes
  twice, an update that removes a patch from the index before it checks it, an
  endpoint that is gone and back before the monitor looks;
- *stale copies*: pointers into memory that is mapped anew, devices read before they
  change, gains and limiter groups computed before a parameter changed;
- *boundaries*: channel counts above a limit, a ring that wraps under a capture, the
  last of the places for sessions.

### 1.4 What makes each component correct

- A *stream* performs every command as one step of its state machine and answers
  once; a failure leads to `ERROR` and stays; `CLOSED` is final; no data goes to a
  driver in standby; `close` returns, after the driver is shut down; drains are
  acknowledged, and not too often.
- The *submix* counts its streams right, keeps a pipe as long as somebody needs it,
  and no longer; an output keeps its end whatever others do; `close` returns.
- The *reported position* never runs backwards nor past what was consumed.
- A *Bluetooth port* is in the state of its stack when nobody waits for anybody, its
  calls return, and it does not stay between two states.
- A *module* names exactly the patches that use a port, keeps configs that are in
  use, tells streams the devices they have, restores them after a refusal, respects
  exclusive routes, and never runs into its own fatal checks.
- An *effect's* worker runs exactly while the effect is started, its flag outlives
  its wait, announced samples are processed, `close` returns, and the work buffer
  fits the queues.

- A *switched* stream delivers everything that was postponed, once; a *memory-mapped*
  one never leaves its memory and goes on counting; *primary* and *USB* streams use
  the devices connected now; *USB cards* are muted together.
- What an *ALSA device* is offered with can be prepared; a capture arrives in order.
- What a *port config* is refused for comes with a suggestion that is taken.
- An *effect library* plays what its parameters answer, enabled effects are processed,
  captures are unbroken, linked limiters limit alike; shared contexts stay alive.
- The *gadget* reports a pull-up of the functions that were asked for, and its monitor
  ends; *HCI* has one client at a time and notices its death; *CEC* keeps back what
  its flags forbid.

## 2. The plan

Done: every component of 1.1 that changes state over time, at the depth that 3 and 7 say,
and a proof of every safety property of the passing runs but one (section 6).  What
remains is type correctness of the models of 3.4, 3.8 and 3.9 as theorems of their own,
where the inductive invariants below do not state it in full.

## 3. The models

Every module has a comment that says what a step of it stands for.  In short:

### 3.1 Stream workers: `OffloadDriver`, `StreamOut`, `StreamIn`, `StreamProtocol`

`StreamOut` is `StreamOutWorkerLogic::cycle` with its driver and the thread that
closes it.  One cycle of the worker is several steps, because the DSP thread may
call back between any two of them: reading the command (`ReadCommand`), accepting
or refusing it from the state (`AcceptCommand`, `RefuseCommand`), the driver call
(`CallDriver`, `DriverFails`), the decision after a burst (`DecideAfterBurst`), the
write of `mState` (`ApplyState`), the write of the drain state after it
(`ApplyDrain`), and the reply (`SendReply`).  The exit command runs `ShutdownDriver`
and then `WorkerSetClosed`.  `close()` is three steps: the check, the exit command
into a queue of one place, the join.

The callbacks (`OnClipStateChange`, `OnBufferStateChange`) read `mState` and
`mDrainState` in one step (`seen`) and write them in a later one, as the code does
without a lock.  `OffloadDriver` is the simulated DSP: clips with a number of frames
left abstracted to the events that a cycle may report (`DspCycle`: the clip nears
its end, ends, the buffer is ready), pausing, flushing and the join in `shutdown`.
With `Async = FALSE` the same `StreamOut` is the synchronous stub, whose drains end
at the top of a cycle.

`StreamIn` needs no such splitting: no thread but the worker touches its state, so a
command is one step, and the states a command is accepted in are a table (`Target`).

`StreamProtocol` is the abstract specification of both: a client has at most one
request, which is performed along an edge of the state machine, refused when there
is no edge, or fails and leads to `ERROR`; then it is answered once.  Its parameters
are the edges, the transitions a stream makes on its own, and what is seen of the
request and the answer.  `KeepsPromise` of `StreamOut` and `InKeepsPromise` of `StreamIn`
are that specification under a refinement mapping.  (Where models are checked together,
the names of one carry a prefix: `InSendReply` is what `SendReply` is for an output.)

### 3.2 Streams over streams: `StreamSwitcher`, `StreamMmapStub`

`StreamSwitcher` is the stream that the submix module hands out: a stub until a device
is connected, then the real one.  What the client asks of the stub in the meantime is
kept (`SetVendorParameters`, `AddEffect`, `RemoveEffect`, `BluetoothParametersUpdated`),
and `CreateNewStream` hands it to the real stream (`Engaged`), unless the old one cannot
be closed or the new one does not start.  The module asks whether the stream is open
(`ModuleChecks`) before it calls (`ForwardConnectedDevices`), and the client may close
in between; that is why the two are separate steps.

`StreamMmapStub` is a driver whose DSP thread reads and writes a mapping
(`Cycle`), which a binder thread replaces (`ReleaseUnknown`, `ReleaseSharedMemory`,
`InitSharedMemory`: the two locked sections, with the mapping between them).
Addresses are `Places`; a mapping is what the kernel has mapped there.

### 3.3 Remote submix: `SubmixRoute`, `StreamRemoteSubmix`

`SubmixRoute` has one operator for each method of the class, each a critical section
of the route's lock; pipes and routes are named by the stream that made them, which
is the identity the code's `sp<>` pointers have.  `StreamRemoteSubmix` runs any number
of streams over them: `Opening` (find or create the route, validate, reset the pipe,
open), `Serve` (start, standby, reads and writes in the three locked sections in which
`outWrite` looks up the sink, decides whether it may block, and looks up the source)
and `Closing` (`prepareToClose`, exit, and the three steps of `shutdown`).  `Client`
says what clients do beyond opening and closing one stream at a time: `"overlap"` (several
at a time), `"early"` (`prepareToClose` long before `close`, with other calls in between)
and `"second"` (a second output while one is open).  The code leaves all of it to the
client.  `RouteServesItsStreams` is about orderly clients (`Client = {}`), in the run
`streams`; what the others do to it is told in 8, and what holds whatever they do is
checked in the run `module` and proved (6).

### 3.4 Hardware streams: `StreamPrimary`, `UsbAudio`, `StreamAlsa`, `AlsaProfile`

`StreamAlsa` is the driver of the others.  Each open device has an I/O thread, in lockstep
with the code (`CheckInput`, `ReadDevice`, `Push`, `WritePipe`; `CheckOutput`,
`WriteDevice`), and a pipe between it and the worker.  Frames are numbered, so that an
order can be stated.  The pipe of a capture makes its writer wait until all is taken or
the pipe is shut, as `makeSink` asks of it for an input; only an output truncates.
Standby and shutdown are the steps of `teardown` (`StopThreads`, `ShutPipes`,
`StopDevices`, `JoinThreads`).

`StreamPrimary` and the streams of `UsbAudio` are about *which* devices that driver opens.
The module names them from a binder thread (`PrimarySetConnectedDevices`,
`UsbSetConnectedDevices` and, outside the lock, `StoreProfiles`); the worker takes them
over when it starts (`StartKeepsDevice`, `StartTakesDevice`, `StartShutsDown`,
`StartOpens`; `GetDeviceProfiles`, `OpenDevices`).  The other half of `UsbAudio` is the
master mute over the mixers of the attached cards, with controls of which one value cannot
be written.

`AlsaProfile` is pure but for the device that is plugged in: what the kernel says
(`ReadAlsaDeviceConfig`), what is enumerated from it (formats, channel counts, sample
rates), what the port is offered with (`PopulateConnectedDevicePort`), and what happens
when a stream asks for one of those (`ProxyPrepare`, `OpenProxyForExternalDevice`).
Counts and rates are sets, as no property depends on their order.

### 3.5 Bluetooth: `A2dpManualSync`, `DevicePortProxy`, `StreamBluetooth`, `ModuleBluetooth`

`A2dpManualSync` is the arithmetic of the presented position: the validity bounds, the
clamps, the order of the modes, and the two variables `transfer` and `refinePosition`
share.  Its steps are a change of the user's settings, a burst, a status request.

`DevicePortProxy` is `BluetoothAudioPortAidl`.  `start()` and `suspend()` share their
shape and are one set of steps, with tables for the states they go from, over and to:
the first locked section, the wait for somebody else's transient state, the second
section, the request outside the lock, and the wait for the answer.  A wait may end
at any time, for the state it is in decides what it returns and not whether it was
woken or timed out.  The stack is external: `asked` are requests it has, `news` the
calls back under way.  `StreamBluetooth` puts the worker's driver calls and the binder
thread's calls on top; `mLock` is held from a call's beginning to its end (`doing`).

`ModuleBluetooth` is how a stream comes by its port: a proxy is made when a device
connects or its port is configured, tied to a mix port's handle while a patch is
checked, and given to the stream that is opened with that handle.

### 3.6 Module: `AudioPorts`, `AudioModule`, `Configuration`, `PortConfigs`

`AudioPorts` holds what connection changes: ports, routes, profiles, port configs.
`AudioModule` adds patches, the index `mPatches` and the streams.  A step is one whole
call with its rollback.  `SetAudioPatch` creates or updates; a stream that refuses its
devices (`Refusals`) makes the call fail, and then everything `Module.cpp` does to undo
it is done, in its order and with its mistakes.

`Configuration` is the tables that `Configuration.cpp` builds: ports, routes, profiles
and initial configs of the five types of modules.  `PortConfigs` starts from them and
says what a port config may hold.  A request is a choice for each of its fields
(`Request`); `Offer` is what the port can do, `Suggestion` what the code answers,
`IsRefused` and `IsValid` what it thinks of the request.  `CreateConfig` and
`UpdateConfig` perform one, `SetNewPatch` computes the buffer a patch promises, and
`AcceptsStream` is what opening a stream demands of it.

### 3.7 Effects: `EffectContext`, `EffectImpl`, `EffectFactory`

`EffectContext` is data: the two data queues, the place of the status queue, the bit of
the event flag and the size of the work buffer.  `EffectImpl` begins with the thread
(`EffectThread.cpp`) and its two flags, by the lock it waits for, and has the calls, each
one step under `mImplMutex`, except `close()` and `destroyEffect`, which are the steps
between which they give the mutex up (`Close`, `CloseNotify`, `CloseExit`, `CloseJoin`,
`CloseRelease`).  The libraries of the repository differ in two things that matter here,
which are constants: whether releasing keeps the context (`Keeps`: loudness and
visualizer) and whether `process` looks at the state (`Checks`: not downmix).

`EffectFactory` is the map of instances, and the sessions that instances of the bundle
enter and leave, with the context that each holds.  A context knows the session that its
configuration names *now*: `SetCommon` replaces it in any state and tells the sessions
nothing, and `ReleaseContext` looks in the session of that name for a context of the
effect's type, be it another effect's.  An effect whose session does not list its context
is `Misplaced`.  An open that fails may leave the empty session it has entered
(`CreateSession`) or the context it has made, which the next open takes (`OpenEffect`).
Contexts are numbered as they are made, so the first of a list is its least.

### 3.8 Effect libraries: `BundleContext`, `BundleParameters`, `Reverb`, `Visualizer`, `DynamicsProcessing`

What they compute is left out; what they are *told* is kept, for it is kept twice: by
the effect, which answers clients, and by a library, an engine or a cache, which
processes.

- `BundleContext`: the four enabled and draining flags, the counters of samples to the
  exit, the operating mode of the library, devices and mute.
- `BundleParameters`: levels, presets, strengths and volume beside what the library
  was given; every library call may be refused, also the second of two (`LimitLevel`).
- `Reverb`: parameters one by one (environmental) or all at once when the worker meets
  a new preset; levels and times are converted and clipped on the way.
- `Visualizer`: a ring with a write index, a capture from as far back as the latency
  says, and the last measurements.  A sample is its number; of those that one buffer
  writes to one place the last stays.
- `DynamicsProcessing`, equalizer: the bands of one stage, their copy in the engine, the
  bins they cover and the factor of each bin.
- `DynamicsProcessing`, limiters: channels and limiters of the context, their copies, the
  map of link groups that is brought up to date channel by channel, and the factors found.

### 3.9 Services: `UsbGadget`, `BluetoothHci`, `HdmiCec`

`UsbGadget` is `setCurrentUsbFunctions` step by step over configfs (`PullDown`, `Unlink`,
`StopMonitor`, `JoinMonitor`, `AddFunction` in the order of the code, `PullUpNow` or
`MonitorFunctions`, `WaitForPullUp`), with a fault at each write, and `reset`, which holds
no lock.  Its first part is `MonitorFfs.cpp`, the thread, the daemons it watches, and the
kernel between them: inotify events wait until the thread reads them, and a gadget whose
daemon dies is unbound at once.

`BluetoothHci` has three callers and a client that may die at any time; `Goes`
names the place of each in `initialize` or `close`.  `HdmiCec` is the event thread
between receiving a message and passing it on, against binder threads that change what
it looks at (`EnableFlag`, `ClearCallback`, `StoreCallback`) and add addresses in two
steps.

## 4. The runs

Components that share nothing are checked in one run: `MCStreams`, `MCThreads`,
`MCObjects` and `MCAudioModule` are *sums*.  A variable `part` names one of their models,
a behaviour is one of that model, and the others stay in an initial state.  So a property
of one model is checked over exactly its behaviours, and a run asks one question of all of
them. Properties that say the same thing of several models are one definition there.

| Run | Models and bounds | What it shows |
|---|---|---|
| `out_async` | asynchronous output with one staged clip, no failures | `NoCallbackAfterShutdown`, `DrainReadyBound`; `CommandAnswered` (also of `close`) and `DrainHonoured` under fairness |
| `out_race` | two clips | violation of `NoTransferInStandby`: see 8 |
| `streams` | synchronous output and input, every call and both queues fail | they implement `StreamProtocol` (`KeepsPromise`, `InKeepsPromise`), inputs are answered (`InputsAndRoutesAnswer`) |
| | two submix outputs of different configurations and an input, one opening or closing at a time | an open output keeps its end, configuration and pipe (`RouteServesItsStreams`), for clients that open and close one stream at a time; blocked writes end (`InputsAndRoutesAnswer`) |
| | A2DP at 1000 Hz, so that a frame is a millisecond; reports and settings on both sides of each limit; 1400 frames, more than the largest latency | `PositionMonotone` |
| | switcher with two effects and parameters | `NothingPostponedIsLost` |
| | memory-mapped stub with two addresses, positions to 3 | `MmapGoesOn`: `MemoryInUseIsMapped`, `MmapPositionContinues` |
| | primary stream over three cards; USB stream over two devices | `UsesConnectedDevices`: `OpenedIsCurrent`, `FramesReachConnected` |
| | three USB cards with two values each, one of which cannot be written | `MutedTogether` |
| | three ALSA devices: a headset, an interface whose channels shrink at high rates, a microphone | `OfferedIsPrepared` |
| `profile_wide` | a fourth device, of 16 to 20 channels | violation of `OfferedIsPrepared`: see 8 |
| `threads` | effect with two callers; configurations of one and two samples and one that is refused | `ThreadFollowsState`, `FlagOutlivesWait`, `InputProcessed`, `WaitsEnd` (`CloseReturns`) |
| | two ALSA devices, pipes of two frames, four frames | `CaptureInOrder`, `WaitsEnd` (`TeardownReturns`) |
| | Bluetooth stream and a stack that answers each request once or never: finite | `PortFollowsStack`, `WaitsEnd` (`CallsReturn`, `LeavesTransient`) |
| | gadget with two daemons, a fault at each write, and requests for nothing, for both daemons, and for a function without a daemon | `SuccessMeansPulledUp`, `WaitsEnd` (`SetReturns`) |
| | HCI with two callers and the thread of death notices | `OneClientAtATime`, `WaitsEnd` (`DeadClientReleased`) |
| `effect_reopen` | one caller, three configurations | violation of `WorkBufferFits`: see 8 |
| `gadget_restart` | no faults | violation of `RestartedWhenBack`: see 8 |
| `objects` | factory: two instances, two sessions and places for two, three contexts | `ContextStaysAlive` |
| | bundle, reverb: the values at which code paths differ | `BuffersProcessed`; `AnswersAgree`: `ParametersAgree`, `ReverbAsAnswered` |
| | visualizer: a ring of three samples, four samples played | `CapturedUnbroken` |
| | dynamics: two bands over three bins; two channels, two groups | `SpectrumAsSet`, `LinkedLimitAlike` |
| | CEC: one caller that adds an address, one message waiting | `FlagsKeepBack` |
| | Bluetooth module: two devices, two handles, two ports and proxies | `ProxyInOnePlace` |
| | the five types of modules, three formats, two rates, two new ports and configs | `SuggestionsAreTaken`, `PatchBufferSuffices` |
| `factory_moved` | two equalizers, two sessions | violation of `OneOfATypeInASession`: see 8 |
| `bundle_device` | the bundle alone | violation of `OperatesOnItsDevice`: see 8 |
| `module` | three mix ports, two device ports, two templates; two patches, numbers up to 11, at most two ends on a side | `IndexNamesPatches`, `PatchEndsExist`, `StreamsKnowTheirDevices`, `ProfilesFollowDevices`, `RollbackRestores`, `ExclusiveWhenSet` |
| | submix with one output and two inputs, opening, closing and preparing at the same time; the inputs are alike (`SYMMETRY`) | the last stream leaves nothing (`NothingLeft`); nobody waits in a pipe without a reader (`WaitsForReader`) |
| `module_refused` | the module, only updates refused | violation of `NeverFatal`: see 8 |

Type invariants are theorems where there is a proof module (`TypeCorrect`,
`SubmixTypes`, `PositionTypes`, `ModuleTypes`, `EffectTypes`) and are not repeated in
runs; nor are `ClosedAfterShutdown`, `ClosedIsFinal`, `InputsCounted`,
`LatencyInRange` and `PositionBounded`, which are theorems as well.

Why the bounds are enough.

- A stream's worker handles one command at a time and one drain is remembered, so one
  clip already gives every order of a command with a clip's end; the second clip only
  matters for `out_race`, whose counterexample needs a clip that outlives a flush.
- A route distinguishes the first, another, and the last of its inputs, for which two
  are enough, and one output against another of a different configuration.
- Two patches with two ends overlap in all ways that the index can confuse; four new
  numbers allow two configs on a mix port, one on a device and a connected device.
- Queues of one and two samples give a queue that fits, one that changes and one that
  does not.  Pipes of two frames are partly full, and four frames wrap around.
- A mapping is the old one or the new one, and may come to lie where one was: two
  addresses.  Two parameters and two effects are postponed in both orders.
- Three cards are one that follows, one whose write fails half way, and one that comes
  after it.
- A ring of three samples and captures of two wrap in the middle of a capture, at its
  end and not at all; latencies of 0 and 2 are below and above what has been written.
- Two effects of a type and two sessions are enough for one to move into the session of
  the other, and two places for one of them to be lost; two channels are linked,
  unlinked, or move from one group to another.
- Theorems cover any number where section 6 lists them.

Deadlock checking is off where the system may stop: closed streams, an aborted
process, ids used up, a stream shut down, a device without a client.

## 5. Fairness

- *Streams*: the worker, the thread in `close()` and the thread that calls back are
  threads that run (weak fairness each).  The end of a clip is under strong fairness:
  a DSP cycle plays frames whenever it is not paused, and each brings the end nearer.
  A client never has to do anything.
- *Submix*: weak fairness of every worker's steps, and none for readers or openers.
- *Effect*: weak fairness of the worker and of each `close()`; and of reading the
  status queue, because a worker with a full status queue waits with the mutex held,
  and nothing in the code bounds that wait.  So `close()` returns only if the client
  reads its statuses.
- *ALSA*: weak fairness of the thread in `teardown` and of each I/O thread.  A device
  takes and gives frames, or fails: a PCM call does not hang.
- *Bluetooth*: only the thread inside a call runs; the wait's time limit is that
  fairness.  The stack owes nothing for `CallsReturn`.  `LeavesTransient` says what
  happens with a stack that answers and names that hypothesis in the formula.
- *Gadget*: weak fairness of the thread in `setCurrentUsbFunctions`, of the second half
  of `reset` and of the monitor.  Strong fairness of the monitor's reading of the event
  that stops it: `epoll_wait` reports that descriptor together with the others, and the
  code looks at all that are reported.
- *HCI*: weak fairness of each thread inside a call, and none of the client.

In the sums each of these is guarded by the part it belongs to, so that it says nothing
about the other parts, where none of those actions can happen.

## 6. The proofs

TLAPS checks every step of the following; no fact is assumed but the named
assumptions on constants.

| Module | Theorem | For every |
|---|---|---|
| `StreamOutProofs` | `TypeCorrect`, `NoCallbackAfterShutdownHolds`, `DrainReadyBounded` | number of clips, set of commands, set of failures |
| | `ClosedAfterShutdownHolds`, `ClosedStays` | the same, with queues that do not fail |
| | `SynchronousStreamKeepsPromise` | set of commands and failures, of a synchronous stream |
| `StreamInProofs` | `InputStreamKeepsPromise` | set of failures, and of commands without the reserved `exit` |
| `StreamsProofs` | `PositionTypes`, `LatencyAlwaysInRange`, `PositionAlwaysBounded`, `PositionNeverBackward` | sample rate, report and setting, without a bound on frames |
| | `NothingEverLost` | parameters and effects, in any number |
| | `MmapAlwaysGoesOn` | addresses at which the kernel maps, and numbers of frames |
| | `AlwaysUsesConnectedDevices` | cards and devices, and default device |
| | `AlwaysMutedTogether` | cards and channels, and the cards whose values cannot be written |
| | `OfferedAlwaysPrepared` | formats, counts and rates of devices that take a channel count within `FCC_LIMIT` (`TakesWithinLimit`) |
| `SubmixProofs` | `SubmixTypes`, `InputsAlwaysCounted`, `NothingEverLeft`, `WaitsOnlyForReader` | set of outputs, finite set of inputs, and kind of client |
| `AudioModuleProofs` | `ModuleTypes`, `PatchEndsAlwaysExist`, `IndexAlwaysNamesPatches`, `ExclusiveRoutesAreExclusive`, `ProfilesAlwaysFollowDevices` | ports, routes, addresses, refusals and stream limits |
| | `StreamsAlwaysKnow`, `RollbackAlwaysRestores` | the same, if clients keep a mix port config to one patch (`OneEach`) |
| `ThreadProofs` | `EffectTypes`, `ThreadAlwaysFollowsState`, `FlagAlwaysOutlivesWait` | callers, configurations and kinds of library, if no client opens an instance that is being closed |
| | `CaptureAlwaysInOrder` | finite set of devices, sizes of buffers and pipes |
| | `SuccessAlwaysMeansPulledUp` | requests, daemons and faults |
| | `OneClientAlways` | callers |
| | `PortAlwaysFollowsStack` | behaviour of one stream with a stack that answers each request once or never (`Stack = {}`) |
| `ObjectsProofs` | `ContextAlwaysAlive` | instances, types, sessions and places, whatever sessions effects are moved to |
| | `BuffersAlwaysProcessed`, `AnswersAlwaysAgree` | lengths of tails; presets, levels and bands |
| | `CapturedAlwaysUnbroken` | sizes of the ring, the captures and the buffers, and latencies |
| | `SpectrumAlwaysAsSet`, `LinkedAlwaysLimitAlike` | bands, bins, channels and groups |
| | `FlagsAlwaysKeepBack`, `ProxyAlwaysInOnePlace` | messages and callers; ports, proxies and streams |
| | `PatchBufferAlwaysSuffices`, `SuggestionsAlwaysTaken` | types of modules, requests, numbers of connections and configs, and devices that offer each format with the same channels and rates |

Where a theorem has a hypothesis, the code shows why: without it the property is not what
the code promises.  `TakesWithinLimit` is violated in `profile_wide`; a client that opens
an effect while it is closing can break what the others rely on (8); a mix port config
that is in two patches has streams that know the devices of the last one only; and `exit`
is not a client's to send (`StreamInWorkerLogic::cycle` compares a cookie).

The inductive invariants, and why each is needed:

- *Output stream*: `TypeOK /\ SeenIsQueued /\ CloseInv /\ DrainInv`.  A callback acts
  on values it read before, so its notice must still be in the queue while it is
  between its two steps (`SeenIsQueued`); `CloseInv` ties the driver's shutdown to the
  worker's place; `DrainInv` says how many acknowledgements each drain state has
  behind it, also for the drain state that a callback has read and not yet written.
- *Refinement of the output stream*: a synchronous stream has no DSP thread (`NoDsp`),
  the client's request is the command in the queue or in the worker's hands
  (`OneRequest`), and the state that accepted a command is still there when the worker
  acts on it (`StillAccepted`).  Each step of the worker then is a step or a stutter of
  `StreamProtocol` (`CommitStep`, `FailStep`, `RefuseStep`, `Refines`).
- *Refinement of the input stream*: `TypeOK /\ OneRequest /\ ClosedAtTheEnd`.  The
  worker handles a command in one step, so it needs only that a request is in one place
  and that a closed stream has no worker left that could act on one.
- *Submix, all clients*: a stream from opening to closing has a route (`RouteKnown`),
  and `InputsCounted` itself; most steps are quiet for the count, which `QuietStep` says
  once.  `NothingLeft` needs `Held`: an open end, a pipe and the route in the table are
  each held by a stream that has still to drop it, so that the last one finds them.
- *Submix, waiting writers*: `WaitInv`.  Nobody knows a pipe that has not been made yet
  (`NoneYet`), and no two routes share one (`OwnPipe`), so that the pipe which the last
  input shuts is the one its writers wait in; a writer has looked one up (`LookedUp`); and
  where a writer is to block, in the pipe of its route, an input is open or the pipe is
  shut (`ReaderThere`), whether it is full by now or not.  What a step leaves alone is
  said once (`Calm`, `QuietCalm`).
- *A2DP*: `A2dpTypeOK /\ PositionBounded`: monotonicity follows from the position being
  between what was announced and what was consumed (`PresentedBetween`).
- *Switcher*: `StubWaits`: behind a stub all that was postponed is still in the list, and
  nothing of it behind a real stream.  *Memory-mapped*: `MmapInv`, the DSP stands in the
  memory it knows.  *Primary* and *USB*: `PrimaryInv` and `UsbInv` say which cards may be
  open between two steps of a start, and what a worker holds that was not told of a
  change.  *Mixers*: `MixersInv` is about all channels at once.  *ALSA profiles*:
  `ReadFrom` and `OfferedFrom` carry what was read from the device through the profile
  into the offers, and `MaskCounts` leads back from an offered mask to a count.
- *Module*: the index is sound and complete, and ends exist (`IndexSound`,
  `IndexComplete`, `PatchEndsExist`).  `PortStep` is the frame lemma of calls that only
  touch ports, `PatchStep` that of calls that touch patches: each patch is kept,
  entered or lost.  After a refused request the index is only sound, which is why
  `IndexNamesPatches` is stated with the history variable `spoiled`.  `Populating` adds
  which mix ports each connected device has filled, which is what a device that goes has
  to look at; `KInv`, that patches share no mix port config (`Apart`) and that streams
  know the devices of theirs.
- *Effect*: besides the properties, `CloseInv`: a close under way means `INIT`, only
  one thread is past the first section, the context is released after the thread is
  gone, and a thread means that a context is attached.
- *ALSA capture*: `CaptureInv`: what a thread has in its buffer is newer than what is in
  its pipe, which is newer than what the client took, and nothing is captured twice.
- *Gadget*: `GadgetInv`: what is linked so far is part of the request, nothing of the
  functions before is left when linking begins, and a pull-up that was reported is the
  one that was shown.  *HCI*: at most one thread owns the open or the close of the
  service (`OneOwner`), and the step it is at says what is open (`OwnersProgress`).
- *Factory*: `FactoryTypeOK`, `ListsRight`, `ContextsRight`: a list holds contexts that
  were made, one of a type, and an effect's context is of its type and of no other effect.
  Nothing is said of the session that a context names, which is the client's to change; so
  a release takes a context of its type out of the session it finds there, and that is its
  own unless it is misplaced.  *Bundle*: the count of enabled effects is 1 exactly when
  one is enabled or in its tail.  *Parameters* and *reverb*: each value that was recorded
  is in the library, and the preset stands for its values until one of them is set.
- *Visualizer*: `RingInOrder`: every place of the ring is silent or holds the sample that
  its distance from the write position says.  A buffer writes to a place last exactly
  as many samples before its end as that distance is then (`NewestWrite`), also when it
  goes round the ring more than once; and the places a capture is taken from follow each
  other without crossing the write position (`CapturedPlaces`).
- *Dynamics*: `ComputedAsCached`: the bins and factors of a stage are those of the
  parameters it has cached, whatever has been set since.
  `DynamicsInv`: the map has a channel only in the group of its parameters (`MapIsOf`),
  and factors are linked over the groups of the map (`LinkedIn`).  The least factor of a
  group exists by well-founded induction (`MinOfNaturals`).
- *CEC*: `CecInv`: the thread holds one message while it filters, the flags set now are
  among those the message has seen, and each filter that let it pass has been asked.
  *Bluetooth proxies*: `ProxiesInv`: every proxy has a number of its own, and is in the
  cache, with a stream, or gone.
- *Bluetooth stream*: `BtInv`: for each state of the port, what it has asked of the stack
  and which answer is on its way (`WhileLive`); after the end of the session the stack
  owes nothing, and the news of that end are the last ones (`AfterSession`); the thread
  inside a call waits for what the call is about (`CallGoesOn`).  With a stack of another
  kind (7) the argument breaks at `WhileLive`: an answer on its way may be to a request
  before the last.
- *Port configs*: `PortConfigsInv`: numbers are never given twice (`Numbered`), so that a
  port that comes cannot change what an older config names; whatever is connected, the
  profiles of a port differ in the format only (`ProfilesUniform`), which is why a
  suggestion put together from the default and what was asked for fits every format;
  a config of a mix port has a rate that its port once had (`ConfigsHavePorts`); and the
  buffer of the patch is as large as each of its ends needs (`PatchInv`).  A patch names
  the buffer of its highest rate, and a lower rate never needs a larger one
  (`BufferSizesKeepOrder`), also where one is rounded to a power of two and the other is
  not; the powers are twenty-one cases (`PowersOfTwo`).  That the five configurations
  are as the invariant needs them is computed by the provers (`ConfigurationsSound`).

Constants are assumed to be what the code makes them: sets of devices, inputs and
requests are finite where they are counted or folded over (`IsFiniteSet(Devices)`), a
Bluetooth device is not the mark of one that has gone (`BtAssumption`), and the ring of
the visualizer is not empty (`VisualizerAssumption`).  Devices have sample rates from
8 to 192 kHz, which is what `std_sample_rates` has, and at least one of them, and the
profiles that `ModuleAlsa::populateConnectedDevicePort` makes differ in the format only
(`DevicesAssumption`).

Only model-checked is liveness (`CommandAnswered`, `DrainHonoured`,
`InputsAndRoutesAnswer`, `WaitsEnd`, `InputProcessed`): fairness and `ENABLED` are
beyond this prover; and `RouteServesItsStreams`, which holds only for clients that open and
close one stream at a time, and which is checked for two outputs and an input.

No module declares a `RECURSIVE` operator, so all of them can be proved about.

## 7. What the models leave out

- *Data*: samples, names, latencies and signal processing, except where a property is
  about them (`A2dpManualSync`; the number of samples of an effect; the frames of an ALSA
  pipe; gains, levels and factors of effects).  A submix pipe is full or not.
- *Stream workers*: a failing data queue; an exit command with a wrong cookie; metadata
  and the hardware controls; the position fields of replies; bursts of a memory-mapped
  stream, which move no data.  The worker's locked reads of `mConnectedDevices` are one
  with the step they decide.
- *Switcher, memory-mapped stub*: metadata and hardware gains, which are not postponed;
  burst sizes, the latency, and what is written into the memory.
- *Submix*: one device address; the two locked sections of the configuration's
  validation are one; the delays of `transfer`; microphones of the module.
- *Primary*: the choice between stub, offload and ALSA streams when a stream is made; the
  volumes of its mixer; opening and closing are one step, `StreamAlsa` has them in detail.
- *ALSA*: positions, hardware gains, conversion of frames.  Profiles: names and the text
  of `/proc`, which says what kernel parameters say.
- *USB*: what `ModuleUsb` checks of an address before the device reaches the mixers.
- *Bluetooth*: with `Stack = {}`, as in the run and the theorem, each request is answered
  once or never, also after the wait for it has ended, but not after `stop()` and not
  across a suspend of the stack's own (see 8 for the others); statuses that the code
  treats alike are one; metadata and the data path; the session ends once; the settings
  of SCO, hands-free and LE, which are stored.
- *Module*: calls come one at a time, as `Module.cpp` has no lock of its own; microphones,
  vendor parameters, debug settings.  In `AudioModule` clients keep a mix port config to
  one patch, so that a port which another patch still connects (`Module.cpp:590`) is left
  out (8), and an open that is refused changes nothing, streams accept again devices they
  had, requests have mix ports on one side. In `PortConfigs` requests name the port's own
  flags and no gain, for no port has gains. A USB device that knows none of the standard
  rates would have profiles without rates, which the code takes for dynamic ones; such
  devices are left out.  Of the formats and channel masks of ALSA only those are told
  apart that differ in the size of a frame.
- *Effect*: an open while the instance is being closed (`OpenDuringClose = FALSE` in the
  run and in the theorems; see 8); in `EffectImpl` parameters that only store a value;
  draining, which no effect starts; an open without channels, which aborts.  Waking the
  event flag never fails.
- *Effect libraries*: the signal processing; loudness and downmix, with one parameter
  each.  `BundleContext` takes library calls to succeed, `BundleParameters` lets each fail.
  Floating point is not modelled: values are in the units the clients use.
- *Factory*: deinitialising while the worker processes, which nothing locks; queries; the
  configuration file, read once.  The session table is not locked in the code, and its
  operations are single steps here.
- *Gadget*: queries of speed and current functions.  *HCI*: packets.  *CEC*: sending,
  which keeps no state; one adapter port.
- *Components without a model*: the XML converters are pure translations, sound dose,
  telephony and the Bluetooth settings store what they are given, `main` registers
  services; health answers with constants, lights write one file, and scripts look at
  images offline.

## 8. What they showed

Seven findings, each kept as a run that ends in a counterexample:

1. `out_race`: the end of a clip writes the state of an asynchronous stream from a drain
   state read earlier.  A stream that went back to `STANDBY` becomes `IDLE` without a
   start, the client sends a burst, and the driver aborts on its own check.
2. `module_refused`: `setAudioPatch` takes its backup of the index a second time after
   the old patch has left it.  An update that a stream refuses loses the patch from the
   index, and the next change finds it missing: the process aborts.
3. `effect_reopen`: a second change of configuration before `reopen()` leaves a queue of
   the old size beside a work buffer of the new one, against the assertion in `process`.
4. `gadget_restart`: the monitor is to restart the gadget "when the ep owner restarts", but
   looks when it reads the event (`MonitorFfs.cpp:154`): an owner that is back by then was
   never absent, and the gadget, which the kernel has unbound, stays down.
5. `profile_wide`: a device of 16 to 20 channels is offered with 12, as a HAL that pads
   would want it; this one asks the device for 12, and no stream over it starts.
6. `bundle_device`: the comment says that a bass boost switched off for the speaker is
   switched on again, and the code does so only if it was *not* enabled
   (`BundleContext.cpp:351`).
7. `factory_moved`: "each session must not have more than one session for each type", but
   `setCommon` stores another session in a context (`EffectContext.cpp:188`) without
   telling `GlobalSession`.  A second effect of the type opens there, and the one that
   moved, when it is closed, deinitialises the context of the other
   (`EffectBundleAidl.cpp:425`).

Observations that are not kept as runs, each visible in the model at the definition named
or by changing a constant:

- *Stream workers*: a burst is accepted in `STANDBY` (`BurstInStandby = TRUE` makes
  `NoTransferInStandby` fail).  A clip that ends between the driver's drain and the
  recording of the drain is not acknowledged, and `DRAINING` stays.
- *Switcher*: a failed switch puts a stub in place but does not record it as one
  (`StreamSwitcher.cpp:211`), so the real stream is never made; a client that closes
  between the module's check and its call makes the module call a null stream; a switch
  refused because the stream is not idle leaves it closed.
- *Memory-mapped stub*: a buffer made after or during `shutdown` is never unmapped; the
  simulated DSP goes on in standby.
- *Submix*, although "sink and source life cycles are synchronized"
  (`StreamRemoteSubmix.cpp:219`): `SourceOfSink` fails with `Client = {"early"}` and two
  outputs.  `prepareToClose` of one releases its end of the route while its worker goes
  on; the other may open and reset the pipe in two locked sections, and a write of the
  first finds no source for its sink, or that of the new pipe, or aborts without a sink
  (`:209`, `PipeWhenNeeded`).  With `"overlap"` one output and one input that are closed
  at the same time are enough: the input, the last one open, releases the pipe of the
  worker. With `"overlap"` `CloseReturns` fails as well: an input that opens between
  `prepareToClose` and the join makes the pipe usable again, and if it does not read the
  writer waits; it holds with `"early"` and with `"second"`.  With `"second"`
  `OutputStaysOpen` fails: an output that is refused because one is open is closed by the
  switcher, and its `prepareToClose` finds the route by its address (`:106`), shuts the
  pipe and releases the end of the one that is open.
- *ALSA*: the default format is invalid if the first bit of the kernel's mask that is not
  8 bit is unknown; sample rates are not "sorted highest to lowest"; capture from an
  attached microphone may come upon the proxy of HDMI, which has no device.  In `Mixer`,
  `getMixerControlMute` returns the opposite of what it reads.  `setHwVolume` that fails
  half way restores the cached value only.
- *USB*: of a headset with two ports on one card, the disconnection of one erases the
  mixer of both; a stream whose devices changed transfers nothing until it goes to standby
  and starts again.
- *Bluetooth*: with `Stack = {"late"}`, `{"crossing"}` or `{"refuses"}`
  `PortFollowsStack` fails: an answer carries no name of the request it answers, so the
  port takes the answer of an old one; and a request that is refused at once leaves the
  transient state behind.  A session that ends while the port is being registered is
  forgotten, and the port stays `STARTING` after the next request is refused, which is
  why `LeavesTransient` exempts a session that has ended.  `stop()` calls the stack with
  the lock held.  `mConnections.insert` keeps the device of an earlier patch
  (`ConnectedHasProxy` fails), so a handle that is patched anew may open a stream without
  a proxy.
- *Module*: the iterator `existing` is compared after `push_back` may have moved the
  vector (`Module.cpp:1179`); a mix port config in two patches is told about one of them
  only (`OneEach = FALSE` makes `StreamsKnowTheirDevices` fail); the exclusive check also
  covers sinks of routes that the patch does not use; a patch is accepted when only one
  of its sources has a route; `ModulePrimary.cpp:109` rewrites an address after the check
  for duplicates; a mix port filled by the first of two devices keeps those profiles when
  that device goes (`Module.cpp:812`).
- *Port configs*: an update of the format alone keeps a mask and rate that the new profile
  may lack; the configuration of an open stream may change; a patch of mixed latencies
  takes that of its highest rate; initial configs of the stub outside its profiles can
  only be updated with a dynamic format (`Module.cpp:1280`); a submix device connected
  while a pipe existed is populated with its rate and goes on suggesting it when the pipe
  has another (`ModuleRemoteSubmix.cpp:71-89`).  Comments of `Configuration.cpp` disagree
  with the ports below them in the number of streams and in some profiles.
- *Effect*: with `OpenDuringClose = TRUE` an `open()` between the two halves of `close()`
  returns success and then loses its context and thread; `RESET` leaves a status that
  nobody reads; `EffectThread.h` says that `process` runs under the thread's mutex, which
  `threadLoop` does not hold.
- *Factory*: a session is entered before its context is initialised (`GlobalSession.h:79`)
  and stays when that fails, as does the session that an effect moved out of: each takes
  one of the `MAX_BUNDLE_SESSIONS` places for good (`SessionsSupported` fails).  An effect
  that has a context when it is destroyed without being open is not looked for in its
  session, which goes on listing the context; `setCommon` gives a context that another
  effect has deinitialised a library instance again, without what was set.
- *Bundle*: disabled bass boosts and virtualizers are switched on by a change of device; a
  forced device set while disabled leaves the temporary switch set; muting twice, or
  unmuting without muting, loses the level; bands whose last step fails keep the name of
  the old preset; the first preset is `Custom` over the bands of `Normal`.
- *Reverb*: `mVolume` is never updated; a preset whose library calls fail counts as loaded;
  a preset reverb takes environmental parameters.
- *Visualizer*: when the point of a capture lies more than a capture before the beginning
  of the ring, the capture is unbroken but too late: it is taken from the end of the ring,
  and not from as far back as the latency says (`Captured`,
  `VisualizerContext.cpp:212-218`); old measurements stay while measuring is off.
- *Dynamics*: a disabled band of the pre-equalizer applies the input gain twice; a bin
  that no band covers any more keeps its factor; a limiter that is switched off stays in
  its group and still limits the others; the group of no limiter is indexed like any other
  (`UnlinkedLimitsAlone` fails, `DPFrequency.cpp:352`); a change of the architecture's
  preference is recorded and the engine stays.
- *HCI*: a client that dies during initialisation, or a late `close`, either aborts the
  process (`BluetoothHci.cpp:171`) or closes the session of the *next* client (`:158`);
  an `openHci` that fails leaves the radio blocked.
- *CEC*: the event thread runs before the flags are set, so that early messages are
  dropped; `release` joins event threads that nothing has told to exit (`HdmiCec.cpp:289`);
  a failed `init` leaves no port, and calls that take the first one crash; two callers that
  add an address at a time lose one of them.
