----------------------------- MODULE Visualizer -----------------------------
(* src/audio/libeffects/visualizer/aidl: the effect worker writes what is     *)
(* played into a ring; clients capture the stretch of it that is being heard, *)
(* and measure the last buffers.  Calls and processing exclude each other     *)
(* (mImplMutex of EffectImpl).  Time is counted in samples; a sample is its   *)
(* number, 0 is silence.                                                      *)
EXTENDS Integers, Sequences, SequencesExt

CONSTANTS
  CaptureBufSize,    \* kMaxCaptureBufSize
  CaptureSizes,      \* what captureSamples may be set to
  Latencies,         \* what latencyMs may be set to, in samples
  StallTime,         \* kMaxStallTimeMs, in samples
  DiscardTime,       \* kDiscardMeasurementsTimeMs, in samples
  Window,            \* kMeasurementWindowMaxSizeInBuffers
  MaxPlayed,         \* bound: samples played
  MaxBuffer          \* bound: samples in a buffer

ASSUME VisualizerAssumption ==
  /\ CaptureBufSize \in Nat \ {0} /\ CaptureSizes \subseteq 1 .. CaptureBufSize
  /\ Latencies \subseteq Nat /\ StallTime \in Nat /\ DiscardTime \in Nat
  /\ {MaxPlayed, MaxBuffer, Window} \subseteq Nat \ {0}

VARIABLES
  visState,          \* mState: "INITIALIZED", "ACTIVE"
  captureBuf,        \* mCaptureBuf
  captureIdx, lastCaptureIdx,
  sinceUpdate,       \* time since mBufferUpdateTime, Never if that is 0
  downstreamLatency, captureSamples,
  measurements,      \* the valid mPastMeasurements, by their last sample
  measuring,         \* mMeasurementMode is PEAK_RMS
  played,            \* samples processed so far
  captured           \* the result of the last capture, and of what it was of

visualizerVars == <<visState, captureBuf, captureIdx, lastCaptureIdx, sinceUpdate,
  downstreamLatency, captureSamples, measurements, measuring, played, captured>>

Never == -1
Positions == 0 .. CaptureBufSize - 1
SilentBuf == [i \in Positions |-> 0]

\* mBufferUpdateTime is not initialised.
VisualizerInit ==
  /\ visState = "INITIALIZED" /\ captureBuf = SilentBuf
  /\ captureIdx = 0 /\ lastCaptureIdx = 0
  /\ sinceUpdate \in Never .. StallTime + 1
  /\ downstreamLatency = 0 /\ captureSamples = CaptureBufSize
  /\ measurements = <<>> /\ measuring = FALSE
  /\ played = 0 /\ captured = [result |-> <<>>, latest |-> FALSE, upTo |-> 0]

\* getDeltaTimeMsFromUpdatedTime_l
Delta == IF sinceUpdate = Never THEN 0 ELSE sinceUpdate
-----------------------------------------------------------------------------
Enable ==
  /\ visState = "INITIALIZED" /\ visState' = "ACTIVE"
  /\ UNCHANGED <<captureBuf, captureIdx, lastCaptureIdx, sinceUpdate, downstreamLatency,
                 captureSamples, measurements, measuring, played, captured>>

Disable ==
  /\ visState = "ACTIVE" /\ visState' = "INITIALIZED"
  /\ UNCHANGED <<captureBuf, captureIdx, lastCaptureIdx, sinceUpdate, downstreamLatency,
                 captureSamples, measurements, measuring, played, captured>>

\* reset clears the ring and keeps its position.
ResetCapture ==
  /\ captureBuf' = SilentBuf
  /\ UNCHANGED <<visState, captureIdx, lastCaptureIdx, sinceUpdate, downstreamLatency,
                 captureSamples, measurements, measuring, played, captured>>

SetVisualizerParameter ==
  /\ \/ captureSamples' \in CaptureSizes /\ UNCHANGED <<downstreamLatency, measuring>>
     \/ downstreamLatency' \in Latencies /\ UNCHANGED <<captureSamples, measuring>>
     \/ measuring' \in BOOLEAN /\ UNCHANGED <<captureSamples, downstreamLatency>>
  /\ UNCHANGED <<visState, captureBuf, captureIdx, lastCaptureIdx, sinceUpdate,
                 measurements, played, captured>>

TimePasses ==
  /\ sinceUpdate \in 0 .. (IF StallTime > DiscardTime THEN StallTime ELSE DiscardTime)
  /\ sinceUpdate' = sinceUpdate + 1
  /\ UNCHANGED <<visState, captureBuf, captureIdx, lastCaptureIdx, downstreamLatency,
                 captureSamples, measurements, measuring, played, captured>>

\* Where the i-th sample of a buffer goes: the index wraps before a write, and
\* may stay at the size of the ring after the last one.  Of several samples
\* written to one place the last one stays.
WriteAt(i) == (captureIdx + i - 1) % CaptureBufSize
IdxAfter(n) == 1 + ((captureIdx + n - 1) % CaptureBufSize)

ProcessAudio(n) ==
  /\ visState = "ACTIVE" /\ played + n <= MaxPlayed
  /\ captureBuf' = [p \in Positions |->
       LET writes == {i \in 1 .. n : WriteAt(i) = p}
       IN IF writes = {} THEN captureBuf[p] ELSE played + Max(writes)]
  /\ captureIdx' = IdxAfter(n) /\ sinceUpdate' = 0 /\ played' = played + n
  /\ measurements' =
       IF ~measuring THEN measurements
       ELSE LET longer == Append(measurements, played + n)
            IN IF Len(longer) > Window THEN Tail(longer) ELSE longer
  /\ UNCHANGED <<visState, lastCaptureIdx, downstreamLatency, captureSamples, measuring, captured>>

\* Measurements too old are thrown away.
GetMeasure ==
  /\ measurements' = IF Delta > DiscardTime THEN <<>> ELSE measurements
  /\ UNCHANGED <<visState, captureBuf, captureIdx, lastCaptureIdx, sinceUpdate,
                 downstreamLatency, captureSamples, measuring, played, captured>>

StillToPlay == IF downstreamLatency > Delta THEN downstreamLatency - Delta ELSE 0

\* Mutant: the latency may reach back further than the ring does.
OffsetUnlimited == captureSamples + StillToPlay

\* How far before captureIdx the capture begins.
Offset ==
  LET wanted == captureSamples + StillToPlay
  IN IF wanted > CaptureBufSize THEN CaptureBufSize ELSE wanted

From(start, n) == [i \in 1 .. n |-> captureBuf[start + i - 1]]

\* A capture that begins before the ring takes its first part from the end.
Captured ==
  LET point   == captureIdx - Offset
      wrapped == IF point >= 0 THEN 0
                 ELSE IF -point > captureSamples THEN captureSamples ELSE -point
      rest    == captureSamples - wrapped
  IN From(CaptureBufSize - wrapped, wrapped) \o From(IF point < 0 THEN 0 ELSE point, rest)

Silence == [i \in 1 .. captureSamples |-> 0]
Stalled == lastCaptureIdx = captureIdx /\ sinceUpdate # Never /\ Delta > StallTime

Capture ==
  /\ captured' =
       IF visState = "ACTIVE" /\ ~Stalled
       THEN [result |-> Captured, latest |-> StillToPlay = 0, upTo |-> captureBuf[(captureIdx - 1) % CaptureBufSize]]
       ELSE [result |-> Silence, latest |-> FALSE, upTo |-> 0]
  /\ sinceUpdate' = IF visState = "ACTIVE" /\ Stalled THEN Never ELSE sinceUpdate
  /\ lastCaptureIdx' = IF visState = "ACTIVE" /\ ~Stalled THEN captureIdx ELSE lastCaptureIdx
  /\ UNCHANGED <<visState, captureBuf, captureIdx, downstreamLatency, captureSamples,
                 measurements, measuring, played>>

VisualizerNext ==
  \/ Enable \/ Disable \/ ResetCapture \/ SetVisualizerParameter \/ TimePasses
  \/ GetMeasure \/ Capture
  \/ \E n \in 1 .. MaxBuffer : ProcessAudio(n)

VisualizerSpec == VisualizerInit /\ [][VisualizerNext]_visualizerVars
-----------------------------------------------------------------------------
(* A capture is one unbroken stretch of what was played, wherever the ring    *)
(* wraps and whatever the sizes and the latency are set to in between, and    *)
(* the newest stretch once the latency has passed (VisualizerContext.cpp,     *)
(* capture; what was cleared in between is silent).                           *)
CapturedUnbroken ==
  LET r == captured.result IN
  /\ \A i \in 1 .. Len(r) - 1 : r[i] # 0 => r[i + 1] \in {0, r[i] + 1}
  /\ captured.latest => Last(r) = captured.upTo
=============================================================================
