--------------------------- MODULE OffloadDriver ---------------------------
(***************************************************************************)
(* The driver of an offloaded output stream (DriverOffloadStubImpl on top  *)
(* of DriverStubImpl) and the DSP simulator thread behind it.              *)
(*                                                                         *)
(* The driver operations run on the stream worker thread; the DSP thread   *)
(* plays the staged clips, and tells the stream about it with callbacks    *)
(* made AFTER the lock on the shared state is released.  What the stream   *)
(* does in a callback belongs to StreamOut; here a cycle only queues the   *)
(* callbacks it is going to make in `notices'.                             *)
(*                                                                         *)
(* Data abstraction.  A clip is "far" or "near": more, or at most,         *)
(* earlyNotifyFrames left to play.  The buffer level is `bufferLow': at    *)
(* most mBufferNotifyFrames left.  How much a cycle plays is any amount.   *)
(***************************************************************************)
EXTENDS Naturals, Sequences

CONSTANT
  MaxClips     \* bound on the clips staged at a time

ASSUME MaxClipsAssumption == MaxClips \in Nat \ {0}

VARIABLES
  dsp,          \* the DSP worker thread: "none" (not started yet), "running",
                \* "paused" or "stopped"
  clips,        \* clipFramesLeft
  bufferLow,    \* bufferFramesLeft <= mBufferNotifyFrames
  notifyArmed,  \* bufferNotifyFrames # kSkipBufferNotifyFrames
  notices,      \* callbacks the cycle under way still has to make
  driver        \* "standby" (mIsStandby), "started", "aborted" (LOG(FATAL)),
                \* or "shutdown" (~mIsInitialized)

driverVars == <<dsp, clips, bufferLow, notifyArmed, notices, driver>>

Clip == {"far", "near"}

\* What onBufferStateChange and onClipStateChange are called with.
BufferNotice == [kind : {"buffer"}, left : {"low"}, hasNext : {FALSE}]
ClipNotice   == [kind : {"clip"}, left : {"zero", "near"}, hasNext : BOOLEAN]
Notice       == BufferNotice \cup ClipNotice

DriverTypeOK ==
  /\ dsp \in {"none", "running", "paused", "stopped"}
  /\ clips \in Seq(Clip)
  /\ bufferLow \in BOOLEAN
  /\ notifyArmed \in BOOLEAN
  /\ notices \in Seq(Notice)
  /\ driver \in {"standby", "started", "aborted", "shutdown"}

DriverInit ==
  /\ dsp = "none"
  /\ clips = <<>>
  /\ bufferLow = TRUE
  /\ notifyArmed = FALSE
  /\ notices = <<>>
  /\ driver = "standby"

----------------------------------------------------------------------------
(* The DSP thread. *)

\* The DSP thread is between two cycles: no callback is pending or running.
AtCycleBoundary == notices = <<>>

\* The clips left when a cycle finishes the first `done' of them and gets
\* into the next one as far as `head' says ("untouched": not a frame of it).
ClipsAfter(done, head) ==
  LET rest == SubSeq(clips, done + 1, Len(clips))
  IN  IF head = "untouched" THEN rest ELSE <<head>> \o Tail(rest)

\* The onClipStateChange calls of such a cycle, in order.
ClipNoticesOf(done, head) ==
  LET ended == [i \in 1..done |-> [kind |-> "clip", left |-> "zero",
                                   hasNext |-> i < Len(clips)]]
  IN  IF head = "near"
        THEN Append(ended, [kind |-> "clip", left |-> "near",
                            hasNext |-> done + 1 < Len(clips)])
        ELSE ended

\* Playing may end anywhere; a clip that was "near" does not get "far" again,
\* and the first clip is always played a little.
Progress ==
  {p \in (0..MaxClips) \X {"untouched", "far", "near"} :
     /\ p[1] <= Len(clips)
     /\ p[2] # "untouched" => p[1] < Len(clips)
     /\ p[2] = "far" => clips[p[1] + 1] = "far"
     /\ clips # <<>> /\ p[1] = 0 => p[2] # "untouched"}

\* One DspSimulatorLogic::cycle up to the release of the lock: the clips and
\* the buffer advance, and the callbacks to make are decided.
DspCycle(done, head) ==
  /\ dsp = "running"
  /\ AtCycleBoundary
  /\ clips' = ClipsAfter(done, head)
  /\ bufferLow' \in {bufferLow, TRUE}
  /\ (done > 0 /\ done = Len(clips)) => bufferLow'
  /\ LET fires == notifyArmed /\ bufferLow'
     IN  /\ notifyArmed' = (notifyArmed /\ ~fires)
         /\ notices' = (IF fires
                          THEN <<[kind |-> "buffer", left |-> "low", hasNext |-> FALSE]>>
                          ELSE <<>>) \o ClipNoticesOf(done, head)
  /\ UNCHANGED <<dsp, driver>>

----------------------------------------------------------------------------
(* The driver operations, called on the stream worker thread. *)

\* DriverStubImpl::start and ::transfer, all there is to a driver without a DSP.
StubStart ==
  /\ driver' = "started"
  /\ UNCHANGED <<dsp, clips, bufferLow, notifyArmed, notices>>

StubTransfer ==
  /\ driver' = (IF driver = "standby" THEN "aborted" ELSE driver)
  /\ UNCHANGED <<dsp, clips, bufferLow, notifyArmed, notices>>

\* start: the buffer notification is dropped, and the DSP goes on playing if
\* clips are left from before a pause.
DriverStart ==
  /\ driver' = "started"
  /\ dsp' = (IF dsp = "none" \/ (dsp = "paused" /\ clips # <<>>)
               THEN "running" ELSE dsp)
  /\ notifyArmed' = FALSE
  /\ UNCHANGED <<clips, bufferLow, notices>>

\* transfer: stages the clips whose headers it finds, arms the buffer
\* notification and resumes the DSP.  In standby it is a fatal error.
DriverTransfer(newClips, low) ==
  /\ Len(clips) + newClips <= MaxClips
  /\ IF driver = "standby"
       THEN StubTransfer
       ELSE /\ dsp' = "running"
            /\ clips' = clips \o [i \in 1..newClips |-> "far"]
            /\ bufferLow' = low
            /\ notifyArmed' = TRUE
            /\ UNCHANGED <<notices, driver>>

\* drain: no clip may follow the current one when all is to be drained.
DriverDrain(all) ==
  /\ clips' = (IF all /\ clips # <<>> THEN <<Head(clips)>> ELSE clips)
  /\ notifyArmed' = FALSE
  /\ UNCHANGED <<dsp, bufferLow, notices, driver>>

\* pause and flush wait until the DSP thread has finished its cycle.
DspPaused == dsp' = (IF dsp = "running" THEN "paused" ELSE dsp)

DriverPause ==
  /\ dsp = "running" => AtCycleBoundary
  /\ DspPaused
  /\ notifyArmed' = FALSE
  /\ UNCHANGED <<clips, bufferLow, notices, driver>>

DriverFlush ==
  /\ dsp = "running" => AtCycleBoundary
  /\ DspPaused
  /\ clips' = <<>>
  /\ bufferLow' = TRUE
  /\ notifyArmed' = FALSE
  /\ UNCHANGED <<notices, driver>>

DriverStandby ==
  /\ driver' = "standby"
  /\ UNCHANGED <<dsp, clips, bufferLow, notifyArmed, notices>>

\* A defect: the DSP thread is told to stop but not waited for.
ShutdownNotJoined ==
  /\ dsp' = "stopped"
  /\ driver' = "shutdown"
  /\ UNCHANGED <<clips, bufferLow, notifyArmed, notices>>

\* shutdown: stops the DSP thread and waits for its end.
DriverShutdown ==
  /\ AtCycleBoundary
  /\ dsp' = "stopped"
  /\ driver' = "shutdown"
  /\ UNCHANGED <<clips, bufferLow, notifyArmed, notices>>
=============================================================================
