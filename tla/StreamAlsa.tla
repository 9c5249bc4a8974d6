------------------------------ MODULE StreamAlsa ------------------------------
(* src/audio/alsa/StreamAlsa.cpp: the driver that plays and captures through  *)
(* ALSA devices.  Beside the worker of the stream, which calls the driver,    *)
(* each open device has an I/O thread; between the two stands a pipe with one *)
(* writer and one reader (MonoPipe, a library).  Frames are numbers in the    *)
(* order in which the client sends or the device captures them.               *)
EXTENDS Integers, Sequences, SequencesExt, FiniteSets

CONSTANTS Devices,       \* that getDeviceProfiles may name
          BufferFrames,  \* mBufferSizeFrames: of a pipe, and of the thread's buffer
          MaxFrames      \* bound on the frames of a behaviour

ASSUME AlsaAssumption ==
  BufferFrames \in Nat \ {0} /\ MaxFrames \in Nat /\ IsFiniteSet(Devices)

VARIABLES
  mIsInput,
  mAlsaDeviceProxies,    \* the devices that are open
  mIoThreadIsRunning,
  pipes, pipesShut,      \* what is in each pipe, have they been shut down
  io,                    \* per device [at, buffer, written, left]: its I/O thread
  kernel,                \* frames that the kernel holds for each device
  alsaWorker,            \* "idle", or its next step in teardownIo
  frames,                \* frames sent by the client, or captured
  taken                  \* the last frame that the client was given

alsaVars == <<mIsInput, mAlsaDeviceProxies, mIoThreadIsRunning, pipes, pipesShut, io,
              kernel, alsaWorker, frames, taken>>

NoThread == [at |-> "none", buffer |-> <<>>, written |-> 0, left |-> 0]
NoFrames == [d \in Devices |-> <<>>]

AlsaInit ==
  /\ mIsInput \in BOOLEAN
  /\ mAlsaDeviceProxies = {} /\ mIoThreadIsRunning = FALSE
  /\ pipes = NoFrames /\ pipesShut = FALSE
  /\ io = [d \in Devices |-> NoThread] /\ kernel = [d \in Devices |-> 0]
  /\ alsaWorker = "idle" /\ frames = 0 /\ taken = 0

TheSmaller(m, n) == IF m < n THEN m ELSE n
Frames(m, n)  == [i \in 1..(n - m + 1) |-> m + i - 1]
Room(d)       == BufferFrames - Len(pipes[d])
Thread(d, t)  == io' = [io EXCEPT ![d] = t]

\* Mutant: it is the worker that may wait.
WorkerCanBlock == ~mIsInput

\* makeSink(mIsInput): only the I/O thread of a capture may wait for room.
WriteCanBlock == mIsInput

-----------------------------------------------------------------------------
(* The worker *)

\* start: one device that does not open fails the whole call, and what it has
\* opened is closed again.  A stream that has devices resumes.
AlsaStart ==
  /\ alsaWorker = "idle" /\ mAlsaDeviceProxies = {}
  /\ \E devices \in SUBSET Devices \ {{}} :
       /\ mIsInput => Cardinality(devices) = 1
       /\ mAlsaDeviceProxies' = devices
       /\ io' = [d \in Devices |-> IF d \in devices THEN [NoThread EXCEPT !.at = "check"]
                                   ELSE NoThread]
  /\ mIoThreadIsRunning' = TRUE /\ pipes' = NoFrames /\ pipesShut' = FALSE
  /\ UNCHANGED <<mIsInput, kernel, alsaWorker, frames, taken>>

\* transfer of an output: what does not fit in a pipe is dropped.
TransferOut ==
  /\ alsaWorker = "idle" /\ mAlsaDeviceProxies # {} /\ ~mIsInput
  /\ \E n \in 1..BufferFrames :
       /\ frames + n <= MaxFrames /\ frames' = frames + n
       /\ pipes' = [d \in Devices |->
            IF d \in mAlsaDeviceProxies
            THEN pipes[d] \o Frames(frames + 1, frames + TheSmaller(n, Room(d)))
            ELSE pipes[d]]
  /\ UNCHANGED <<mIsInput, mAlsaDeviceProxies, mIoThreadIsRunning, pipesShut, io, kernel,
                 alsaWorker, taken>>

\* transfer of an input, from its only device; silence follows what there is.
TransferIn ==
  /\ alsaWorker = "idle" /\ mIsInput
  /\ \E d \in mAlsaDeviceProxies, n \in 1..BufferFrames :
       /\ pipes[d] # <<>>
       /\ LET read == TheSmaller(n, Len(pipes[d])) IN
            /\ taken' = pipes[d][read]
            /\ pipes' = [pipes EXCEPT ![d] = SubSeq(@, read + 1, Len(@))]
  /\ UNCHANGED <<mIsInput, mAlsaDeviceProxies, mIoThreadIsRunning, pipesShut, io, kernel,
                 alsaWorker, frames>>

\* teardownIo, for standby and shutdown
StopThreads ==
  /\ alsaWorker = "idle" /\ alsaWorker' = IF mIsInput THEN "shut" ELSE "stop"
  /\ mIoThreadIsRunning' = FALSE
  /\ UNCHANGED <<mIsInput, mAlsaDeviceProxies, pipes, pipesShut, io, kernel, frames, taken>>

ShutPipes ==
  /\ alsaWorker = "shut" /\ alsaWorker' = "stop" /\ pipesShut' = TRUE
  /\ UNCHANGED <<mIsInput, mAlsaDeviceProxies, mIoThreadIsRunning, pipes, io, kernel,
                 frames, taken>>

StopDevices ==
  /\ alsaWorker = "stop" /\ alsaWorker' = "join"
  /\ kernel' = [d \in Devices |-> 0]
  /\ UNCHANGED <<mIsInput, mAlsaDeviceProxies, mIoThreadIsRunning, pipes, pipesShut, io,
                 frames, taken>>

JoinThreads ==
  /\ alsaWorker = "join" /\ \A d \in mAlsaDeviceProxies : io[d].at = "done"
  /\ alsaWorker' = "idle" /\ mAlsaDeviceProxies' = {} /\ pipes' = NoFrames
  /\ io' = [d \in Devices |-> NoThread]
  /\ UNCHANGED <<mIsInput, mIoThreadIsRunning, pipesShut, kernel, frames, taken>>

Teardown == ShutPipes \/ StopDevices \/ JoinThreads
-----------------------------------------------------------------------------
(* inputIoThread *)

CheckInput(d) ==
  /\ mIsInput /\ io[d].at = "check"
  /\ Thread(d, [io[d] EXCEPT !.at = IF mIoThreadIsRunning THEN "read" ELSE "done"])
  /\ UNCHANGED <<mIsInput, mAlsaDeviceProxies, mIoThreadIsRunning, pipes, pipesShut, kernel,
                 alsaWorker, frames, taken>>

\* proxy_read_with_retries: a buffer full of frames, or, at the latest when the
\* device is stopped, an error.
ReadDevice(d) ==
  /\ io[d].at = "read"
  /\ \/ /\ frames + BufferFrames <= MaxFrames /\ frames' = frames + BufferFrames
        /\ Thread(d, [NoThread EXCEPT !.at = "push",
                        !.buffer = Frames(frames + 1, frames + BufferFrames)])
     \/ Thread(d, [NoThread EXCEPT !.at = "check"]) /\ UNCHANGED frames
  /\ UNCHANGED <<mIsInput, mAlsaDeviceProxies, mIoThreadIsRunning, pipes, pipesShut, kernel,
                 alsaWorker, taken>>

\* The loop that fills the pipe begins anew with the first frame of the buffer.
Push(d) ==
  /\ io[d].at = "push"
  /\ Thread(d, CASE io[d].written = BufferFrames -> [NoThread EXCEPT !.at = "check"]
                 [] ~mIoThreadIsRunning /\ io[d].written < BufferFrames
                                        -> [NoThread EXCEPT !.at = "done"]
                 [] OTHER -> [io[d] EXCEPT !.at = "write", !.left = BufferFrames - io[d].written])
  /\ UNCHANGED <<mIsInput, mAlsaDeviceProxies, mIoThreadIsRunning, pipes, pipesShut, kernel,
                 alsaWorker, frames, taken>>

\* MonoPipe::write returns when all is written, or if it does not wait.
WritePipe(d) ==
  /\ io[d].at = "write"
  /\ LET left    == io[d].left
         now     == TheSmaller(left, Room(d))
         begun   == BufferFrames - io[d].written - left
         waiting == WriteCanBlock /\ ~pipesShut
     IN /\ waiting => now > 0
        /\ pipes' = [pipes EXCEPT ![d] = @ \o SubSeq(io[d].buffer, begun + 1, begun + now)]
        /\ Thread(d, IF waiting /\ now < left THEN [io[d] EXCEPT !.left = left - now]
                     ELSE [io[d] EXCEPT !.at = "push", !.written = @ + begun + now, !.left = 0])
  /\ UNCHANGED <<mIsInput, mAlsaDeviceProxies, mIoThreadIsRunning, pipesShut, kernel,
                 alsaWorker, frames, taken>>
-----------------------------------------------------------------------------
(* outputIoThread *)

\* It sleeps while the pipe is empty.
CheckOutput(d) ==
  /\ ~mIsInput /\ io[d].at = "check"
  /\ IF mIoThreadIsRunning
     THEN /\ pipes[d] # <<>> /\ Thread(d, [NoThread EXCEPT !.at = "play", !.buffer = pipes[d]])
          /\ pipes' = [pipes EXCEPT ![d] = <<>>]
     ELSE Thread(d, [NoThread EXCEPT !.at = "done"]) /\ UNCHANGED pipes
  /\ UNCHANGED <<mIsInput, mAlsaDeviceProxies, mIoThreadIsRunning, pipesShut, kernel,
                 alsaWorker, frames, taken>>

\* proxy_write_with_retries waits for room, frame by frame, or fails.
WriteDevice(d) ==
  /\ io[d].at = "play"
  /\ \/ /\ io[d].buffer # <<>> /\ kernel[d] < BufferFrames
        /\ kernel' = [kernel EXCEPT ![d] = @ + 1]
        /\ Thread(d, [io[d] EXCEPT !.buffer = Tail(@)])
     \/ Thread(d, [NoThread EXCEPT !.at = "check"]) /\ UNCHANGED kernel
  /\ UNCHANGED <<mIsInput, mAlsaDeviceProxies, mIoThreadIsRunning, pipes, pipesShut,
                 alsaWorker, frames, taken>>

Plays(d) ==
  /\ kernel[d] > 0 /\ kernel' = [kernel EXCEPT ![d] = @ - 1]
  /\ UNCHANGED <<mIsInput, mAlsaDeviceProxies, mIoThreadIsRunning, pipes, pipesShut, io,
                 alsaWorker, frames, taken>>

IoThread(d) ==
  CheckInput(d) \/ ReadDevice(d) \/ Push(d) \/ WritePipe(d) \/ CheckOutput(d) \/ WriteDevice(d)

AlsaNext ==
  \/ AlsaStart \/ TransferOut \/ TransferIn \/ StopThreads \/ Teardown
  \/ \E d \in Devices : IoThread(d) \/ Plays(d)

\* The scheduler runs the threads.
AlsaFairness == WF_alsaVars(Teardown) /\ \A d \in Devices : WF_alsaVars(IoThread(d))
AlsaSpec == AlsaInit /\ [][AlsaNext]_alsaVars /\ AlsaFairness
-----------------------------------------------------------------------------
(* The client hears what the device captured, each frame once and in order,   *)
(* across standbys and starts: the thread that fills the pipe of a capture    *)
(* waits until all of its buffer is taken or the pipe is shut (makeSink of an *)
(* input, StreamAlsa.cpp:131), and is joined before the next pipe is made.    *)
CaptureInOrder ==
  mIsInput /\ mIoThreadIsRunning =>
    \A d \in mAlsaDeviceProxies :
      \A i \in DOMAIN pipes[d] :
        pipes[d][i] > (IF i = 1 THEN taken ELSE pipes[d][i - 1])

(* standby and shutdown return: every thread that they join hears of it, be   *)
(* it waiting for a device, or for room in a pipe that nobody reads any more  *)
(* (StreamAlsa.cpp:303-324).                                                  *)
TeardownReturns == alsaWorker # "idle" ~> alsaWorker = "idle"
=============================================================================
