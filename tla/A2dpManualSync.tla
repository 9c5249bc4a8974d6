--------------------------- MODULE A2dpManualSync ---------------------------
(***************************************************************************)
(* The latency and the presentation position that a Bluetooth output       *)
(* reports when the delay of the A2DP sink is set by hand: the functions   *)
(* of namespace a2dp_manual_sync, and what StreamBluetooth::transfer and   *)
(* StreamBluetooth::refinePosition keep between two commands.              *)
(*                                                                         *)
(* The settings are system properties, and may change at any time.         *)
(***************************************************************************)
EXTENDS Integers

CONSTANTS
  SampleRate,      \* Hz
  Fallback,        \* ms: the latency of the buffer plus kExtraAudioSyncMs
  Reports,         \* ms: the delays that the sink may report
  Relative,        \* ms: the values of the relative and of the absolute delay
  Absolute,        \*   that a user may set, in range or not
  Bursts,          \* frames that a transfer may consume
  MaxFrames        \* bound on the frames consumed

ASSUME ConstantsAssumption ==
  /\ SampleRate \in Nat \ {0} /\ Fallback \in Nat
  /\ Reports \subseteq Int /\ Relative \subseteq Int /\ Absolute \subseteq Int
  /\ Bursts \subseteq Nat /\ MaxFrames \in Nat

Settings == [sync : {"off", "on", "auto"}, mode : {"relative", "absolute"},
             relative : Relative, absolute : Absolute]

VARIABLES
  settings,   \* the system properties
  consumed,   \* StreamContext::mFrameCount
  correct,    \* mCorrectManualSyncPosition
  latency,    \* mEffectiveLatencyMs
  last,       \* mLastObservableFrames
  position    \* the position in the last reply

a2dpVars == <<settings, consumed, correct, latency, last, position>>

----------------------------------------------------------------------------
(* The functions of the namespace. *)

AtLeast(a, b) == IF a < b THEN b ELSE a                     \* std::max
Clamp(x, low, high) == IF x < low THEN low ELSE IF x > high THEN high ELSE x

MinimumValidReport == 50
MaximumValidReport == 1000
MaximumEffectiveLatency == 1250

IsValidDelayReport(available, report) ==
  available /\ report > MinimumValidReport /\ report < MaximumValidReport

CalculateLatency(s, available, report, existing) ==
  LET valid == IsValidDelayReport(available, report) IN
  IF s.sync = "off" THEN existing
  ELSE IF s.sync = "auto" /\ s.mode = "absolute" /\ valid THEN report
  ELSE Clamp(IF s.mode = "absolute" THEN Clamp(s.absolute, 0, 1000)
             ELSE (IF valid THEN report ELSE Fallback) + Clamp(s.relative, -250, 250),
             0, MaximumEffectiveLatency)

LatencyFrames(ms) == (AtLeast(0, ms) * SampleRate) \div 1000

\* Mutant: the position that was reported before is not taken into account.
PresentedAfresh(frames, ms, previous) ==
  IF frames <= 0 THEN AtLeast(0, previous)
  ELSE AtLeast(0, frames - LatencyFrames(ms))

CalculatePresentedFrames(frames, ms, previous) ==
  IF frames <= 0 THEN AtLeast(0, previous)
  ELSE AtLeast(AtLeast(0, frames - LatencyFrames(ms)), previous)

----------------------------------------------------------------------------
(* The stream. *)

A2dpTypeOK ==
  /\ settings \in Settings
  /\ consumed \in Nat
  /\ correct \in BOOLEAN
  /\ latency \in Int
  /\ last \in Nat
  /\ position \in Nat

A2dpInit ==
  /\ settings \in Settings
  /\ consumed = 0
  /\ correct = FALSE
  /\ latency = 0
  /\ last = 0
  /\ position = 0

\* refinePosition, with what the transfer before it has left.
Refine(frames, corrects, ms) ==
  /\ position' = IF corrects THEN CalculatePresentedFrames(frames, ms, last) ELSE frames
  /\ last' = AtLeast(last, position')

ChangeSettings ==
  /\ settings' \in Settings
  /\ UNCHANGED <<consumed, correct, latency, last, position>>

\* A burst on an A2DP session that is up: transfer, the count of frames, reply.
\* Without a position the remote delay is taken to be 200 ms.
Burst(n, available, report) ==
  LET delay == IF available THEN report ELSE 200 IN
  /\ consumed + n <= MaxFrames
  /\ consumed' = consumed + n
  /\ correct' = (settings.sync # "off")
  /\ latency' = CalculateLatency(settings, available, delay, AtLeast(0, delay))
  /\ Refine(consumed', correct', latency')
  /\ UNCHANGED settings

\* getStatus, or a burst on a session that is down: only the reply.
GetStatus ==
  /\ Refine(consumed, correct, latency)
  /\ UNCHANGED <<settings, consumed, correct, latency>>

A2dpNext ==
  \/ ChangeSettings
  \/ \E n \in Bursts, available \in BOOLEAN, report \in Reports : Burst(n, available, report)
  \/ GetStatus

A2dpSpec == A2dpInit /\ [][A2dpNext]_a2dpVars

----------------------------------------------------------------------------
(* What the stream promises. *)

\* The latency used to correct positions is between 0 and the maximum, whatever
\* was reported and set ("ManualValuesAndResultAreClamped").
LatencyInRange == correct => latency \in 0 .. MaximumEffectiveLatency

\* A reply never announces frames that the stream has not consumed, and none
\* before those that were announced before, however the settings changed.
PositionBounded == position <= last /\ last <= consumed

\* The position that the client sees never moves backward, when the latency is
\* increased, and when the correction is switched on or off ("Increased latency
\* cannot move presentation backward").
PositionMonotone == [][position' >= position]_a2dpVars
=============================================================================
