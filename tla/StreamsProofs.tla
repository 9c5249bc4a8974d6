---------------------------- MODULE StreamsProofs ----------------------------
(* Proofs about the streams of the audio HAL and what they rest on: the        *)
(* manual synchronisation of A2DP, the switcher, the memory-mapped, primary    *)
(* and USB streams and the mixers of USB cards; for every sample rate and      *)
(* delay, and every number of devices, cards, parameters and effects.          *)
EXTENDS MCStreams, TLAPS

-----------------------------------------------------------------------------
(* The manual synchronisation of A2DP (A2dpManualSync.tla) *)

\* A clamped value is in the range.
LEMMA ClampRange ==
  ASSUME NEW x \in Int, NEW low \in Int, NEW high \in Int, low <= high
  PROVE Clamp(x, low, high) \in low .. high
  BY DEF Clamp

\* The latency is an integer, and unless the correction is off in the range.
LEMMA LatencyRange ==
  ASSUME NEW s \in Settings, NEW available \in BOOLEAN, NEW report \in Int, NEW existing \in Int
  PROVE /\ CalculateLatency(s, available, report, existing) \in Int
        /\ s.sync # "off" =>
             CalculateLatency(s, available, report, existing) \in 0 .. MaximumEffectiveLatency
<1>1. s.relative \in Int /\ s.absolute \in Int BY ConstantsAssumption DEF Settings
<1>2. Clamp(s.relative, -250, 250) \in Int BY <1>1 DEF Clamp
<1>3. Clamp(s.absolute, 0, 1000) \in Int BY <1>1 DEF Clamp
<1> DEFINE valid == IsValidDelayReport(available, report)
           base == IF valid THEN report ELSE Fallback
           sum == IF s.mode = "absolute" THEN Clamp(s.absolute, 0, 1000)
                  ELSE base + Clamp(s.relative, -250, 250)
<1>4. base \in Int BY ConstantsAssumption
<1>5. sum \in Int BY <1>2, <1>3, <1>4
<1>6. Clamp(sum, 0, MaximumEffectiveLatency) \in 0 .. MaximumEffectiveLatency
  <2>1. MaximumEffectiveLatency \in Int /\ 0 <= MaximumEffectiveLatency
    BY DEF MaximumEffectiveLatency
  <2> HIDE DEF sum
  <2> QED BY <1>5, <2>1, ClampRange
<1>7. CASE s.sync = "off" BY <1>7 DEF CalculateLatency
<1>8. CASE s.sync = "auto" /\ s.mode = "absolute" /\ valid
  <2>1. report \in 0 .. MaximumEffectiveLatency
    BY <1>8 DEF IsValidDelayReport, MinimumValidReport, MaximumValidReport, MaximumEffectiveLatency
  <2>2. CalculateLatency(s, available, report, existing) = report
    BY <1>8 DEF CalculateLatency
  <2> QED BY <2>1, <2>2
<1>9. CASE s.sync # "off" /\ ~(s.sync = "auto" /\ s.mode = "absolute" /\ valid)
  <2>1. CalculateLatency(s, available, report, existing) = Clamp(sum, 0, MaximumEffectiveLatency)
    BY <1>9 DEF CalculateLatency
  <2> HIDE DEF sum
  <2> QED BY <1>6, <2>1
<1> QED BY <1>7, <1>8, <1>9

\* A latency is a number of frames.
LEMMA LatencyFramesNat == ASSUME NEW ms \in Int PROVE LatencyFrames(ms) \in Nat
<1>1. AtLeast(0, ms) \in Nat BY DEF AtLeast
<1>2. \A a, b \in Nat : a * b \in Nat OBVIOUS
<1>3. \A a \in Nat : a \div 1000 \in Nat OBVIOUS
<1> QED BY <1>1, <1>2, <1>3, ConstantsAssumption DEF LatencyFrames

\* A corrected position lies between the one announced before and the frames
\* consumed.
LEMMA PresentedBetween ==
  ASSUME NEW frames \in Nat, NEW ms \in Int, NEW previous \in Nat, previous <= frames
  PROVE /\ CalculatePresentedFrames(frames, ms, previous) \in Nat
        /\ previous <= CalculatePresentedFrames(frames, ms, previous)
        /\ CalculatePresentedFrames(frames, ms, previous) <= frames
  BY LatencyFramesNat DEF CalculatePresentedFrames, AtLeast

A2dpInv == A2dpTypeOK /\ PositionBounded

\* A reply keeps the positions in order.
LEMMA RefineOrder ==
  ASSUME A2dpInv, NEW frames \in Nat, consumed <= frames, NEW corrects \in BOOLEAN,
         NEW ms \in Int, Refine(frames, corrects, ms)
  PROVE /\ position' \in Nat /\ last' \in Nat
        /\ position <= position' /\ position' <= last' /\ last' <= frames
<1>1. last \in Nat /\ position \in Nat /\ consumed \in Nat /\ position <= last /\ last <= frames
  BY DEF A2dpInv, A2dpTypeOK, PositionBounded
<1>2. position' = IF corrects THEN CalculatePresentedFrames(frames, ms, last) ELSE frames
  BY DEF Refine
<1>3. position' \in Nat /\ last <= position' /\ position' <= frames
  BY <1>1, <1>2, PresentedBetween
<1>4. last' = AtLeast(last, position') BY DEF Refine
<1> QED BY <1>1, <1>3, <1>4 DEF AtLeast

LEMMA A2dpInitially == A2dpInit => A2dpInv
<1> SUFFICES ASSUME A2dpInit PROVE A2dpInv OBVIOUS
<1>1. A2dpTypeOK
  <2>1. settings \in Settings /\ correct \in BOOLEAN BY Zenon DEF A2dpInit
  <2>2. consumed \in Nat /\ latency \in Int /\ last \in Nat /\ position \in Nat BY DEF A2dpInit
  <2> QED BY <2>1, <2>2 DEF A2dpTypeOK
<1>2. PositionBounded BY DEF A2dpInit, PositionBounded
<1> QED BY <1>1, <1>2 DEF A2dpInv

LEMMA A2dpStep ==
  ASSUME A2dpInv, [A2dpNext]_a2dpVars PROVE A2dpInv' /\ position <= position'
<1>1. CASE ChangeSettings
  BY <1>1 DEF ChangeSettings, A2dpInv, A2dpTypeOK, PositionBounded
<1>2. CASE \E n \in Bursts, available \in BOOLEAN, report \in Reports : Burst(n, available, report)
  <2>1. PICK n \in Bursts, available \in BOOLEAN, report \in Reports : Burst(n, available, report)
    BY <1>2
  <2>2. consumed' \in Nat /\ consumed <= consumed' /\ correct' \in BOOLEAN /\ UNCHANGED settings
    BY <2>1, ConstantsAssumption DEF Burst, A2dpInv, A2dpTypeOK
  <2>3. latency' \in Int
    <3>1. report \in Int /\ settings \in Settings BY ConstantsAssumption DEF A2dpInv, A2dpTypeOK
    <3>2. AtLeast(0, report) \in Int /\ AtLeast(0, 200) \in Int BY <3>1 DEF AtLeast
    <3> QED BY <2>1, <3>1, <3>2, LatencyRange DEF Burst
  <2>4. Refine(consumed', correct', latency') BY <2>1 DEF Burst
  <2>5. /\ position' \in Nat /\ last' \in Nat
        /\ position <= position' /\ position' <= last' /\ last' <= consumed'
    BY <2>2, <2>3, <2>4, RefineOrder
  <2> QED BY <2>2, <2>3, <2>5 DEF A2dpInv, A2dpTypeOK, PositionBounded
<1>3. CASE GetStatus
  <2>1. /\ consumed \in Nat /\ correct \in BOOLEAN /\ latency \in Int
        /\ Refine(consumed, correct, latency) /\ UNCHANGED <<settings, consumed, correct, latency>>
    BY <1>3 DEF GetStatus, A2dpInv, A2dpTypeOK
  <2>2. /\ position' \in Nat /\ last' \in Nat
        /\ position <= position' /\ position' <= last' /\ last' <= consumed
    BY <2>1, RefineOrder
  <2> QED BY <2>1, <2>2 DEF A2dpInv, A2dpTypeOK, PositionBounded
<1>4. CASE UNCHANGED a2dpVars BY <1>4 DEF a2dpVars, A2dpInv, A2dpTypeOK, PositionBounded
<1> QED BY <1>1, <1>2, <1>3, <1>4 DEF A2dpNext

\* The effective latency of a step that sets it is in range.
LEMMA LatencyKept == ASSUME A2dpInv, LatencyInRange, [A2dpNext]_a2dpVars PROVE LatencyInRange'
<1>1. CASE \E n \in Bursts, available \in BOOLEAN, report \in Reports : Burst(n, available, report)
  <2>1. PICK n \in Bursts, available \in BOOLEAN, report \in Reports : Burst(n, available, report)
    BY <1>1
  <2>2. report \in Int /\ settings \in Settings BY ConstantsAssumption DEF A2dpInv, A2dpTypeOK
  <2>3. AtLeast(0, report) \in Int /\ AtLeast(0, 200) \in Int BY <2>2 DEF AtLeast
  <2>4. settings.sync # "off" => latency' \in 0 .. MaximumEffectiveLatency
    BY <2>1, <2>2, <2>3, LatencyRange DEF Burst
  <2> QED BY <2>1, <2>4 DEF Burst, LatencyInRange
<1>2. CASE ChangeSettings \/ GetStatus \/ UNCHANGED a2dpVars
  BY <1>2 DEF ChangeSettings, GetStatus, a2dpVars, LatencyInRange
<1> QED BY <1>1, <1>2 DEF A2dpNext

LEMMA A2dpAlways == A2dpSpec => [](A2dpInv /\ LatencyInRange)
<1>1. A2dpInit => LatencyInRange BY DEF A2dpInit, LatencyInRange
<1>2. A2dpInv /\ LatencyInRange /\ [A2dpNext]_a2dpVars => (A2dpInv /\ LatencyInRange)' BY A2dpStep, LatencyKept
<1> QED BY A2dpInitially, <1>1, <1>2, PTL DEF A2dpSpec

\* The types hold whatever a sink reports and a user sets: in particular no
\* position is negative.
THEOREM PositionTypes == A2dpSpec => []A2dpTypeOK
<1>1. A2dpInv => A2dpTypeOK BY DEF A2dpInv
<1> QED BY <1>1, A2dpAlways, PTL

\* The latency used for corrections is in range.
THEOREM LatencyAlwaysInRange == A2dpSpec => []LatencyInRange
BY A2dpAlways, PTL

\* No reply announces frames that were not consumed.
THEOREM PositionAlwaysBounded == A2dpSpec => []PositionBounded
<1>1. A2dpInv => PositionBounded BY DEF A2dpInv
<1> QED BY <1>1, A2dpAlways, PTL

\* The position never moves backward.
THEOREM PositionNeverBackward == A2dpSpec => PositionMonotone
<1>1. A2dpInv /\ [A2dpNext]_a2dpVars => [position' >= position]_a2dpVars
  <2> SUFFICES ASSUME A2dpInv, [A2dpNext]_a2dpVars PROVE position' >= position OBVIOUS
  <2>1. position <= position' BY A2dpStep
  <2>2. position \in Nat /\ position' \in Nat BY A2dpStep DEF A2dpInv, A2dpTypeOK
  <2> QED BY <2>1, <2>2
<1> QED BY <1>1, A2dpAlways, PTL DEF A2dpSpec, PositionMonotone
-----------------------------------------------------------------------------
(* The memory-mapped stream (StreamMmapStub.tla) *)

\* The DSP stands in the memory it knows; the position is the last one it came
\* to, or unknown, and the client was told none beyond it.
MmapInv ==
  /\ sharedMemory # NoMemory => sharedMemory \in mapped
  /\ mMemBegin # NoMemory => mMemPos = mMemBegin
  /\ mLastFrames \in Nat /\ reported \in Nat /\ reported <= mLastFrames
  /\ mmapPos \in {UNKNOWN, mLastFrames}

LEMMA MmapStep == MmapInv /\ [MmapNext]_mmapVars => MmapInv'
  <1> SUFFICES ASSUME MmapInv, [MmapNext]_mmapVars PROVE MmapInv'
    OBVIOUS
  <1>1. CASE Cycle
    <2>1. CASE sharedMemory # NoMemory
      <3>1. PICK newFrames \in 0..1 :
              /\ mmapPos' = newFrames + (IF mmapPos = UNKNOWN THEN mLastFrames ELSE mmapPos)
              /\ mLastFrames' = mmapPos'
        BY <1>1, <2>1 DEF Cycle
      <3>2. mLastFrames' \in Nat /\ mLastFrames <= mLastFrames' /\ mmapPos' = mLastFrames'
        BY <3>1 DEF MmapInv, UNKNOWN
      <3>3. mMemPos' = mMemBegin' /\ UNCHANGED <<mapped, sharedMemory, reported>>
        BY <1>1, <2>1 DEF Cycle, MmapInv
      <3>4. QED
        BY <3>2, <3>3 DEF MmapInv
    <2>2. CASE sharedMemory = NoMemory
      BY <1>1, <2>2 DEF Cycle, MmapInv
    <2>3. QED
      BY <2>1, <2>2
  <1>2. CASE MmapStart
    BY <1>2 DEF MmapStart, MmapInv
  <1>3. CASE MmapPause \/ MmapStandby \/ UNCHANGED mmapVars
    BY <1>3 DEF MmapPause, MmapStandby, mmapVars, dspVars, MmapInv
  <1>4. CASE MmapShutdown
    BY <1>4 DEF MmapShutdown, dspVars, MmapInv
  <1>5. CASE ReleaseSharedMemory
    BY <1>5 DEF ReleaseSharedMemory, dspVars, MmapInv
  <1>6. CASE InitSharedMemory
    BY <1>6 DEF InitSharedMemory, dspVars, MmapInv
  <1>7. CASE Report
    BY <1>7 DEF Report, dspVars, MmapInv
  <1>8. QED
    BY <1>1, <1>2, <1>3, <1>4, <1>5, <1>6, <1>7 DEF MmapNext

LEMMA MmapAlways == MmapSpec => []MmapInv
  <1>1. MmapInit => MmapInv
    BY DEF MmapInit, MmapInv, NoMemory, UNKNOWN
  <1>2. QED
    BY <1>1, MmapStep, PTL DEF MmapSpec

\* The memory of the next cycle is mapped, and the DSP does not stand in one that
\* was there before, wherever the kernel maps; and the position never goes back
\* behind the one the client was told.
THEOREM MmapAlwaysGoesOn == MmapSpec => []MmapGoesOn
  <1>1. MmapInv => MemoryInUseIsMapped
    BY DEF MmapInv, MemoryInUseIsMapped, NoMemory
  <1>2. MmapInv => MmapPositionContinues
    BY DEF MmapInv, MmapPositionContinues
  <1>3. QED
    BY <1>1, <1>2, MmapAlways, PTL DEF MmapGoesOn
-----------------------------------------------------------------------------
(* The primary stream (StreamPrimary.tla) *)

\* Also between the steps of a start no card is open but the one that the
\* worker has taken over, unless that is to be closed.
PrimaryInv ==
  /\ OpenedIsCurrent /\ starting \in {"no", "shutdown", "open"}
  /\ starting = "open" => opened \subseteq {mCurrAlsaDeviceId} \ {STUB}

\* A primary stream uses the card of the device that is connected and no other,
\* for all cards and every default device.
LEMMA OpenedAlwaysCurrent == PrimarySpec => []OpenedIsCurrent
  <1>1. PrimaryInit => PrimaryInv
    BY DEF PrimaryInit, PrimaryInv, OpenedIsCurrent, IsStubStreamOnWorker
  <1>2. PrimaryInv /\ [PrimaryNext]_primaryVars => PrimaryInv'
    <2> SUFFICES ASSUME PrimaryInv, [PrimaryNext]_primaryVars PROVE PrimaryInv'
      OBVIOUS
    <2> USE DEF PrimaryInv, OpenedIsCurrent, IsStubStreamOnWorker
    <2>1. ASSUME NEW device \in PrimaryDevices, PrimarySetConnectedDevices(device)
          PROVE  PrimaryInv'
      BY <2>1 DEF PrimarySetConnectedDevices
    <2>2. CASE StartTakesDevice
      BY <2>2 DEF StartTakesDevice
    <2>3. CASE StartShutsDown
      BY <2>3 DEF StartShutsDown
    <2>4. CASE StartOpens
      BY <2>4 DEF StartOpens
    <2>5. CASE PrimaryStandby
      BY <2>5 DEF PrimaryStandby
    <2>6. CASE PrimaryShutdown
      BY <2>6 DEF PrimaryShutdown
    <2>7. CASE UNCHANGED primaryVars
      BY <2>7 DEF primaryVars
    <2>8. QED
      BY <2>1, <2>2, <2>3, <2>4, <2>5, <2>6, <2>7 DEF PrimaryNext
  <1>3. PrimaryInv => OpenedIsCurrent
    BY DEF PrimaryInv
  <1>4. QED
    BY <1>1, <1>2, <1>3, PTL DEF PrimarySpec
-----------------------------------------------------------------------------
(* The USB stream (UsbAudio.tla) *)

\* A worker that has not been told otherwise holds, or is opening, the devices
\* that are stored.
UsbInv ==
  /\ usbWorker \in {"idle", "open"} /\ (usbWorker = "open" => usbOpened = {})
  /\ mConnectedDevicesUpdated
     \/ /\ usbWorker = "open" => usbProfiles = mConnectedDeviceProfiles
        /\ usbOpened # {} => usbOpened = mConnectedDeviceProfiles

\* Frames go to the devices that are connected, all of them and no others, or to
\* none, for every number of devices.
LEMMA FramesAlwaysReachConnected == UsbSpec => []FramesReachConnected
  <1>1. UsbInit => UsbInv
    BY DEF UsbInit, UsbInv
  <1>2. UsbInv /\ [UsbNext]_usbVars => UsbInv'
    <2> SUFFICES ASSUME UsbInv, [UsbNext]_usbVars PROVE UsbInv'
      OBVIOUS
    <2>1. ASSUME NEW devices \in SUBSET UsbDevices, UsbSetConnectedDevices(devices)
          PROVE  UsbInv'
      BY <2>1 DEF UsbSetConnectedDevices, UsbInv
    <2>2. CASE StoreProfiles
      BY <2>2 DEF StoreProfiles, UsbInv
    <2>3. CASE GetDeviceProfiles
      BY <2>3 DEF GetDeviceProfiles, UsbInv
    <2>4. CASE OpenDevices
      BY <2>4 DEF OpenDevices, UsbInv
    <2>5. CASE UsbTeardown
      BY <2>5 DEF UsbTeardown, UsbInv
    <2>6. CASE UNCHANGED usbVars
      BY <2>6 DEF usbVars, UsbInv
    <2>7. QED
      BY <2>1, <2>2, <2>3, <2>4, <2>5, <2>6 DEF UsbNext
  <1>3. UsbInv => FramesReachConnected
    BY DEF UsbInv, FramesReachConnected, Transfers
  <1>4. QED
    BY <1>1, <1>2, <1>3, PTL DEF UsbSpec

\* A stream uses the devices that are connected, whichever kind it is of.
THEOREM AlwaysUsesConnectedDevices == PrimarySpec /\ UsbSpec => []UsesConnectedDevices
  BY OpenedAlwaysCurrent, FramesAlwaysReachConnected, PTL DEF UsesConnectedDevices
-----------------------------------------------------------------------------
(* The mixers of USB cards (UsbAudio.tla) *)

MixersInv ==
  /\ mMasterMute \in BOOLEAN /\ usbPorts \subseteq Ports /\ mMixerControls \subseteq UsbCards
  /\ switches \in [UsbCards -> [Channels -> BOOLEAN]]
  /\ \A card \in mMixerControls : Works(card) =>
       switches[card] = [ch \in Channels |-> ~mMasterMute]

\* A card that takes the value has it on every channel.
LEMMA WrittenAll ==
  ASSUME NEW values, NEW card \in UsbCards, NEW muted \in BOOLEAN, Works(card)
  PROVE  Written(values, card, muted) = [ch \in Channels |-> ~muted]
  BY DEF Written, Works

LEMMA WrittenType ==
  ASSUME NEW values \in [Channels -> BOOLEAN], NEW card \in UsbCards, NEW muted \in BOOLEAN
  PROVE  Written(values, card, muted) \in [Channels -> BOOLEAN]
  BY DEF Written

\* The value reaches each card in order until one fails.
LEMMA MutedUntilOneFails ==
  ASSUME mMixerControls \subseteq UsbCards,
         NEW values \in [UsbCards -> [Channels -> BOOLEAN]], NEW muted \in BOOLEAN
  PROVE  /\ MuteAll(values, muted) \in [UsbCards -> [Channels -> BOOLEAN]]
         /\ \A card \in mMixerControls : Works(card) =>
              MuteAll(values, muted)[card] =
                IF \A before \in mMixerControls : before < card => Works(before)
                THEN [ch \in Channels |-> ~muted] ELSE values[card]
  <1>1. ASSUME NEW card \in UsbCards
        PROVE  MuteAll(values, muted)[card] \in [Channels -> BOOLEAN]
    BY WrittenType DEF MuteAll
  <1>2. MuteAll(values, muted) \in [UsbCards -> [Channels -> BOOLEAN]]
    BY <1>1 DEF MuteAll
  <1>3. QED
    BY <1>2, WrittenAll DEF MuteAll

LEMMA MixersStep == MixersInv /\ [MixersNext]_mixerVars => MixersInv'
  <1> SUFFICES ASSUME MixersInv, [MixersNext]_mixerVars PROVE MixersInv'
    OBVIOUS
  <1>1. ASSUME NEW port \in Ports, UsbConnect(port) PROVE MixersInv'
    <2>1. port[1] \in UsbCards /\ usbPorts' \subseteq Ports /\ mMasterMute' = mMasterMute
      BY <1>1 DEF UsbConnect, MixersInv, Ports
    <2>2. CASE UNCHANGED <<switches, mMixerControls>>
      BY <2>1, <2>2 DEF MixersInv
    <2>3. CASE /\ switches' = [switches EXCEPT ![port[1]] = Written(@, port[1], mMasterMute)]
               /\ mMixerControls' = mMixerControls \cup {port[1]}
      <3>1. Written(switches[port[1]], port[1], mMasterMute) \in [Channels -> BOOLEAN]
        BY <2>1, WrittenType DEF MixersInv
      <3>2. switches' \in [UsbCards -> [Channels -> BOOLEAN]]
        BY <2>1, <2>3, <3>1 DEF MixersInv
      <3>3. ASSUME NEW card \in mMixerControls', Works(card)
            PROVE  switches'[card] = [ch \in Channels |-> ~mMasterMute]
        <4>1. CASE card = port[1]
          BY <2>1, <2>3, <3>3, <4>1, WrittenAll DEF MixersInv
        <4>2. CASE card # port[1]
          BY <2>1, <2>3, <3>3, <4>2 DEF MixersInv
        <4>3. QED
          BY <4>1, <4>2
      <3>4. QED
        BY <2>1, <2>3, <3>2, <3>3 DEF MixersInv, Works
    <2>4. QED
      BY <1>1, <2>2, <2>3 DEF UsbConnect
  <1>2. ASSUME NEW port \in Ports, UsbDisconnect(port) PROVE MixersInv'
    <2>1. /\ mMixerControls' = mMixerControls \ {port[1]} /\ mMasterMute' = mMasterMute
          /\ port[1] \in UsbCards /\ usbPorts' \subseteq Ports
      BY <1>2 DEF UsbDisconnect, MixersInv, Ports
    <2>2. switches' \in [UsbCards -> [Channels -> BOOLEAN]]
          /\ \A card \in UsbCards \ {port[1]} : switches'[card] = switches[card]
      BY <1>2, <2>1 DEF UsbDisconnect, MixersInv
    <2>3. QED
      BY <2>1, <2>2 DEF MixersInv, Works
  <1>3. ASSUME NEW muted \in BOOLEAN, SetMasterMute(muted) PROVE MixersInv'
    <2>1. /\ mMasterMute \in BOOLEAN /\ mMixerControls \subseteq UsbCards
          /\ switches \in [UsbCards -> [Channels -> BOOLEAN]]
          /\ UNCHANGED <<usbPorts, mMixerControls>>
      BY <1>3 DEF MixersInv, SetMasterMute
    <2>2. CASE \A card \in mMixerControls : Works(card)
      <3>1. switches' = MuteAll(switches, muted) /\ mMasterMute' = muted
        BY <1>3, <2>2 DEF SetMasterMute
      <3>2. ASSUME NEW card \in mMixerControls
            PROVE  switches'[card] = [ch \in Channels |-> ~muted]
        <4>0. Works(card)
          BY <2>2
        <4>1. MuteAll(switches, muted)[card] =
                IF \A before \in mMixerControls : before < card => Works(before)
                THEN [ch \in Channels |-> ~muted] ELSE switches[card]
          BY <2>1, <4>0, MutedUntilOneFails
        <4>2. \A before \in mMixerControls : before < card => Works(before)
          BY <2>2
        <4>3. QED
          BY <3>1, <4>1, <4>2
      <3>3. switches' \in [UsbCards -> [Channels -> BOOLEAN]]
        BY <2>1, <3>1, MutedUntilOneFails
      <3>4. QED
        BY <2>1, <3>1, <3>2, <3>3 DEF MixersInv
    <2>3. CASE ~\A card \in mMixerControls : Works(card)
      <3> DEFINE half == MuteAll(switches, muted)
      <3>1. switches' = MuteAll(half, mMasterMute) /\ mMasterMute' = mMasterMute
        BY <1>3, <2>3 DEF SetMasterMute
      <3>2. half \in [UsbCards -> [Channels -> BOOLEAN]]
        BY <2>1, MutedUntilOneFails
      <3>3. ASSUME NEW card \in mMixerControls, Works(card)
            PROVE  switches'[card] = [ch \in Channels |-> ~mMasterMute]
        <4>1. switches[card] = [ch \in Channels |-> ~mMasterMute]
          BY <3>3 DEF MixersInv
        <4>2. half[card] = IF \A before \in mMixerControls : before < card => Works(before)
                           THEN [ch \in Channels |-> ~muted] ELSE switches[card]
          BY <2>1, <3>3, MutedUntilOneFails
        <4>3. MuteAll(half, mMasterMute)[card] =
                IF \A before \in mMixerControls : before < card => Works(before)
                THEN [ch \in Channels |-> ~mMasterMute] ELSE half[card]
          BY <2>1, <3>2, <3>3, MutedUntilOneFails
        <4> HIDE DEF half
        <4>4. QED
          BY <3>1, <4>1, <4>2, <4>3
      <3>4. switches' \in [UsbCards -> [Channels -> BOOLEAN]]
        BY <2>1, <3>1, <3>2, MutedUntilOneFails
      <3>5. QED
        BY <2>1, <3>1, <3>3, <3>4 DEF MixersInv, Works
    <2>4. QED
      BY <2>2, <2>3
  <1>4. CASE UNCHANGED mixerVars
    BY <1>4 DEF mixerVars, MixersInv, Works
  <1>5. QED
    BY <1>1, <1>2, <1>3, <1>4 DEF MixersNext

\* The module and its cards agree on what is muted, for every number of cards and
\* channels and whichever values cannot be written.
THEOREM AlwaysMutedTogether == MixersSpec => []MutedTogether
  <1>1. MixersInit => MixersInv
    BY DEF MixersInit, MixersInv
  <1>2. MixersInv => MutedTogether
    BY DEF MixersInv, MutedTogether
  <1>3. QED
    BY <1>1, <1>2, MixersStep, PTL DEF MixersSpec
-----------------------------------------------------------------------------
(* The switcher (StreamSwitcher.tla) *)

Requests == Seq(Nat)
InnerStreams ==
  [kind : {"stub", "real"}, closed : BOOLEAN, state : {"STANDBY", "ACTIVE", "ERROR"},
   devices : {"none", "submix", "other", "no"}, told : Requests,
   effects : SUBSET Effects, bluetooth : BOOLEAN]

SwitcherTypeOK ==
  /\ inner = NoStream \/ inner \in InnerStreams
  /\ mIsStubStream \in BOOLEAN /\ moduleCall \in {"none", "submix", "other", "no"}
  /\ mMissedParameters \in Requests /\ postponed \in Requests
  /\ mEffects \in SUBSET Effects /\ mBluetoothParametersUpdated \in BOOLEAN

\* A stub has been told nothing, and a stub that still waits has no devices.
StubWaits ==
  inner \in InnerStreams =>
    /\ inner.kind = "stub" => inner.told = <<>> /\ mMissedParameters = postponed
    /\ inner.kind = "real" =>
         inner.told = postponed /\ mMissedParameters = <<>> /\ inner.effects = mEffects
    /\ mIsStubStream => inner.kind = "stub" /\ inner.devices = "none"

SwitcherInv == SwitcherTypeOK /\ StubWaits

LEMMA NewStub ==
  /\ New("stub") \in InnerStreams
  /\ \A devices \in {"none", "submix", "other", "no"} :
       [New("stub") EXCEPT !.devices = devices] \in InnerStreams
  <1>1. <<>> \in Requests
    BY DEF Requests
  <1>2. New("stub") \in InnerStreams
    BY <1>1 DEF New, InnerStreams
  <1>3. QED
    BY <1>2 DEF InnerStreams

\* No stream is not a stream.
LEMMA NoStreamIsNone == NoStream \notin InnerStreams
  <1>1. \A s \in InnerStreams : s.kind \in {"stub", "real"}
    BY DEF InnerStreams
  <1>2. NoStream.kind = "null"
    BY DEF NoStream
  <1>3. QED
    BY <1>1, <1>2

LEMMA SwitcherInitially == SwitcherInit => SwitcherInv
  <1> SUFFICES ASSUME SwitcherInit PROVE SwitcherInv
    OBVIOUS
  <1>0. <<>> \in Requests
    BY DEF Requests
  <1>1. SwitcherTypeOK
    BY <1>0, NewStub DEF SwitcherInit, SwitcherTypeOK
  <1>2. StubWaits
    BY DEF SwitcherInit, StubWaits, New
  <1>3. QED
    BY <1>1, <1>2 DEF SwitcherInv

\* The module sets devices on a stream: it stays, is closed, or is replaced.
LEMMA DevicesForwarded == SwitcherInv /\ ForwardConnectedDevices => SwitcherInv'
  <1> SUFFICES ASSUME SwitcherInv, ForwardConnectedDevices PROVE SwitcherInv'
    OBVIOUS
  <1>1. moduleCall \in {"none", "submix", "other", "no"} /\ moduleCall' = "no"
    BY DEF SwitcherInv, SwitcherTypeOK, ForwardConnectedDevices
  <1>2. CASE UNCHANGED <<inner, mIsStubStream, requestVars>>
    BY <1>1, <1>2 DEF SwitcherInv, SwitcherTypeOK, StubWaits, requestVars
  <1>3. ASSUME inner \in InnerStreams, ~mIsStubStream, UNCHANGED <<mIsStubStream, requestVars>>,
               inner' = [inner EXCEPT !.devices = moduleCall]
        PROVE  SwitcherInv'
    <2>1. /\ inner' \in InnerStreams /\ inner'.kind = inner.kind /\ inner'.told = inner.told
          /\ inner'.effects = inner.effects
      BY <1>1, <1>3 DEF InnerStreams
    <2>2. QED
      BY <1>1, <1>3, <2>1 DEF SwitcherInv, SwitcherTypeOK, StubWaits, requestVars
  <1>4. ASSUME inner \in InnerStreams, UNCHANGED <<mIsStubStream, requestVars>>,
               inner' = [inner EXCEPT !.closed = TRUE]
        PROVE  SwitcherInv'
    <2>1. /\ inner' \in InnerStreams /\ inner'.kind = inner.kind /\ inner'.told = inner.told
          /\ inner'.effects = inner.effects /\ inner'.devices = inner.devices
      BY <1>4 DEF InnerStreams
    <2>2. QED
      BY <1>1, <1>4, <2>1 DEF SwitcherInv, SwitcherTypeOK, StubWaits, requestVars
  <1>5. ASSUME inner \in InnerStreams, mIsStubStream, inner' = Engaged(moduleCall),
               mIsStubStream' = FALSE, mMissedParameters' = <<>>,
               mBluetoothParametersUpdated' = FALSE, UNCHANGED <<mEffects, postponed>>
        PROVE  SwitcherInv'
    <2>1. /\ mMissedParameters = postponed /\ postponed \in Requests /\ mEffects \in SUBSET Effects
          /\ mBluetoothParametersUpdated \in BOOLEAN
      BY <1>5 DEF SwitcherInv, SwitcherTypeOK, StubWaits, InnerStreams
    <2>2. /\ inner' \in InnerStreams /\ inner'.kind = "real" /\ inner'.told = postponed
          /\ inner'.effects = mEffects
      BY <1>1, <1>5, <2>1 DEF Engaged, New, InnerStreams
    <2>3. <<>> \in Requests
      BY DEF Requests
    <2>4. QED
      BY <1>1, <1>5, <2>1, <2>2, <2>3 DEF SwitcherInv, SwitcherTypeOK, StubWaits
  <1>6. ASSUME inner \in InnerStreams, mIsStubStream, UNCHANGED requestVars,
               inner' = [New("stub") EXCEPT !.devices = moduleCall], mIsStubStream' = FALSE
        PROVE  SwitcherInv'
    <2>1. mMissedParameters = postponed
      BY <1>6 DEF SwitcherInv, StubWaits
    <2>2. inner' \in InnerStreams /\ inner'.kind = "stub" /\ inner'.told = <<>>
      BY <1>1, <1>6, NewStub DEF New
    <2>3. QED
      BY <1>1, <1>6, <2>1, <2>2 DEF SwitcherInv, SwitcherTypeOK, StubWaits, requestVars
  <1>7. inner # NoStream => inner \in InnerStreams
    BY DEF SwitcherInv, SwitcherTypeOK
  <1>8. CASE UseCurrentStream
    BY <1>3, <1>7, <1>8 DEF UseCurrentStream, SwitchCurrentStream
  <1>9. CASE CreateNewStream
    <2>0. inner # NoStream /\ SwitchCurrentStream(moduleCall) = "CREATE_NEW_STREAM"
      BY <1>9 DEF CreateNewStream
    <2>1. inner \in InnerStreams /\ mIsStubStream
      BY <1>7, <2>0 DEF SwitchCurrentStream
    <2>2. QED
      BY <1>2, <1>4, <1>5, <1>6, <1>9, <2>1 DEF CreateNewStream
  <1>10. QED
    BY <1>2, <1>8, <1>9 DEF ForwardConnectedDevices, NoSwitch, CallOnNull

LEMMA SwitcherStep == SwitcherInv /\ [SwitcherNext]_switcherVars => SwitcherInv'
  <1> SUFFICES ASSUME SwitcherInv, [SwitcherNext]_switcherVars PROVE SwitcherInv'
    OBVIOUS
  <1>1. inner # NoStream => inner \in InnerStreams
    BY DEF SwitcherInv, SwitcherTypeOK
  <1>2. ASSUME NEW devices \in {"none", "submix", "other"}, ModuleChecks(devices)
        PROVE  SwitcherInv'
    BY <1>2 DEF ModuleChecks, SwitcherInv, SwitcherTypeOK, StubWaits, requestVars
  <1>3. CASE SetVendorParameters
    <2>1. CASE mIsStubStream
      <3>1. /\ mMissedParameters \in Requests /\ postponed \in Requests
            /\ inner \in InnerStreams /\ inner.kind = "stub" /\ mMissedParameters = postponed
        BY <1>1, <1>3, <2>1 DEF SetVendorParameters, SwitcherInv, SwitcherTypeOK, StubWaits
      <3>2. /\ mMissedParameters' = postponed' /\ postponed' \in Requests
        BY <1>3, <2>1, <3>1 DEF SetVendorParameters, Requests
      <3>3. QED
        BY <1>3, <2>1, <3>1, <3>2 DEF SetVendorParameters, SwitcherInv, SwitcherTypeOK, StubWaits
    <2>2. CASE ~mIsStubStream
      BY <1>3, <2>2 DEF SetVendorParameters, SwitcherInv, SwitcherTypeOK, StubWaits
    <2>3. QED
      BY <2>1, <2>2
  <1>4. CASE BluetoothParametersUpdated
    <2>1. CASE mIsStubStream
      BY <1>4, <2>1 DEF BluetoothParametersUpdated, SwitcherInv, SwitcherTypeOK, StubWaits
    <2>2. CASE ~mIsStubStream
      <3>1. inner \in InnerStreams /\ inner' = [inner EXCEPT !.bluetooth = TRUE]
        BY <1>1, <1>4, <2>2 DEF BluetoothParametersUpdated
      <3>2. /\ inner' \in InnerStreams /\ inner'.kind = inner.kind /\ inner'.told = inner.told
            /\ inner'.effects = inner.effects /\ inner'.devices = inner.devices
        BY <3>1 DEF InnerStreams
      <3>3. QED
        BY <1>4, <2>2, <3>1, <3>2
        DEF BluetoothParametersUpdated, SwitcherInv, SwitcherTypeOK, StubWaits
    <2>3. QED
      BY <2>1, <2>2
  <1>5. ASSUME NEW e \in Effects, AddEffect(e) PROVE SwitcherInv'
    <2>1. mEffects' \in SUBSET Effects /\ inner.kind = "stub"
      BY <1>1, <1>5 DEF AddEffect, SwitcherInv, SwitcherTypeOK, StubWaits
    <2>2. QED
      BY <1>5, <2>1 DEF AddEffect, SwitcherInv, SwitcherTypeOK, StubWaits
  <1>6. ASSUME NEW e \in Effects, RemoveEffect(e) PROVE SwitcherInv'
    <2>1. inner \in InnerStreams /\ mEffects' = mEffects \ {e} /\ mEffects' \in SUBSET Effects
      BY <1>1, <1>6 DEF RemoveEffect, SwitcherInv, SwitcherTypeOK
    <2>2. CASE mIsStubStream
      <3>1. inner' = inner /\ inner.kind = "stub"
        BY <1>6, <2>1, <2>2 DEF RemoveEffect, SwitcherInv, StubWaits
      <3>2. QED
        BY <1>6, <2>1, <3>1 DEF RemoveEffect, SwitcherInv, SwitcherTypeOK, StubWaits
    <2>3. CASE ~mIsStubStream
      <3>1. inner' = [inner EXCEPT !.effects = @ \ {e}]
        BY <1>6, <2>3 DEF RemoveEffect
      <3>2. /\ inner' \in InnerStreams /\ inner'.kind = inner.kind /\ inner'.told = inner.told
            /\ inner'.effects = inner.effects \ {e} /\ inner'.devices = inner.devices
        BY <2>1, <3>1 DEF InnerStreams
      <3>3. QED
        BY <1>6, <2>1, <2>3, <3>2 DEF RemoveEffect, SwitcherInv, SwitcherTypeOK, StubWaits
    <2>4. QED
      BY <2>2, <2>3
  <1>7. CASE WorkerMoves
    <2>1. PICK s \in {"STANDBY", "ACTIVE", "ERROR"} : inner' = [inner EXCEPT !.state = s]
      BY <1>7 DEF WorkerMoves
    <2>2. inner \in InnerStreams
      BY <1>1, <1>7 DEF WorkerMoves, IsOpen
    <2>3. /\ inner' \in InnerStreams /\ inner'.kind = inner.kind /\ inner'.told = inner.told
          /\ inner'.effects = inner.effects /\ inner'.devices = inner.devices
      BY <2>1, <2>2 DEF InnerStreams
    <2>4. QED
      BY <1>7, <2>2, <2>3 DEF WorkerMoves, SwitcherInv, SwitcherTypeOK, StubWaits, requestVars
  <1>8. CASE SwitcherClose
    BY <1>8, NoStreamIsNone
    DEF SwitcherClose, SwitcherInv, SwitcherTypeOK, StubWaits, requestVars
  <1>9. CASE UNCHANGED switcherVars
    BY <1>9 DEF switcherVars, SwitcherInv, SwitcherTypeOK, StubWaits, requestVars
  <1>10. QED
    BY <1>2, <1>3, <1>4, <1>5, <1>6, <1>7, <1>8, <1>9, DevicesForwarded DEF SwitcherNext

\* Nothing that was accepted is lost or delivered twice, for every number of
\* parameters and effects.
THEOREM NothingEverLost == SwitcherSpec => []NothingPostponedIsLost
  <1>1. SwitcherInv => NothingPostponedIsLost
    <2> SUFFICES ASSUME SwitcherInv, inner # NoStream
                 PROVE  /\ inner.told \o mMissedParameters = postponed
                        /\ inner.kind = "real" => inner.effects = mEffects /\ mMissedParameters = <<>>
                        /\ mIsStubStream => inner.kind = "stub" /\ inner.devices = "none"
      BY DEF NothingPostponedIsLost
    <2>1. inner \in InnerStreams /\ inner.kind \in {"stub", "real"} /\ postponed \in Requests
      BY DEF SwitcherInv, SwitcherTypeOK, InnerStreams
    <2>2. \A s \in Requests : s \o <<>> = s /\ <<>> \o s = s
      BY DEF Requests
    <2>3. QED
      BY <2>1, <2>2 DEF SwitcherInv, StubWaits
  <1>2. QED
    BY <1>1, SwitcherInitially, SwitcherStep, PTL DEF SwitcherSpec
-----------------------------------------------------------------------------
(* The profile of an ALSA device (AlsaProfile.tla) *)

\* What is read of a device is what it takes, and what is offered is what was read.
ReadFrom(p, d) ==
  /\ p.limits = d.channels /\ 0 \notin p.rates
  /\ \A n \in p.counts : n # 0 /\ Within(n, d.channels)

OfferedFrom(offers, p) ==
  \A o \in offers : o.format \in p.formats /\ o.masks = ChannelMasks(p.counts) /\ o.rates = p.rates

ProfileInv ==
  /\ pcmDevice \in PcmDevices
  /\ profile # NoProfile => ReadFrom(profile, pcmDevice)
  /\ portProfiles # {} => profile # NoProfile /\ OfferedFrom(portProfiles, profile)
  /\ OfferedIsPrepared

\* The number of channels of a mask that is offered is one that was counted.
LEMMA MaskCounts ==
  ASSUME NEW counts, NEW mask \in ChannelMasks(counts)
  PROVE  GetChannelCountFromChannelMask(mask) \in counts
  BY DEF ChannelMasks, GetChannelCountFromChannelMask
\* A stream for what is offered is prepared without an error.
LEMMA OfferFits ==
  ASSUME NEW p, NEW d, ReadFrom(p, d), NEW offer, offer.format \in p.formats,
         offer.masks = ChannelMasks(p.counts), offer.rates = p.rates,
         NEW mask \in offer.masks, NEW rate \in offer.rates
  PROVE  ~ProxyPrepare(p, [format |-> offer.format, rate |-> rate,
                           channels |-> GetChannelCountFromChannelMask(mask)]).error
  <1> DEFINE n == GetChannelCountFromChannelMask(mask)
             config == [format |-> offer.format, rate |-> rate, channels |-> n]
  <1>1. n \in p.counts
    BY MaskCounts
  <1>2. n # 0 /\ Within(n, p.limits) /\ rate # 0 /\ rate \in p.rates
    BY <1>1 DEF ReadFrom
  <1> HIDE DEF n
  <1>3. config.format = offer.format /\ config.rate = rate /\ config.channels = n
    OBVIOUS
  <1> HIDE DEF config
  <1>4. ProxyPrepare(p, config).error =
          ~(/\ config.format \in p.formats
            /\ config.rate # 0 /\ config.rate \in p.rates
            /\ config.channels # 0 /\ Within(config.channels, p.limits))
    BY DEF ProxyPrepare
  <1>5. ~ProxyPrepare(p, config).error
    BY <1>2, <1>3, <1>4
  <1>6. QED
    BY <1>5 DEF config, n

\* The port of a device offers only what a stream can be prepared for, for every
\* device that takes a number of channels within the limit of the framework.
THEOREM OfferedAlwaysPrepared ==
  ASSUME \A d \in PcmDevices : TakesWithinLimit(d)
  PROVE  ProfileSpec => []OfferedIsPrepared
  <1>1. ProfileInit => ProfileInv
    BY DEF ProfileInit, ProfileInv, OfferedIsPrepared
  <1>2. ProfileInv /\ [ProfileNext]_profileVars => ProfileInv'
    <2> SUFFICES ASSUME ProfileInv, [ProfileNext]_profileVars PROVE ProfileInv'
      OBVIOUS
    <2>1. CASE ReadDeviceInfo
      <3>1. /\ profile'.limits = pcmDevice.channels
            /\ profile'.counts = EnumChannelCounts(pcmDevice)
            /\ profile'.rates \subseteq std_sample_rates
        BY <2>1 DEF ReadDeviceInfo, EnumSampleRates
      <3>2. EnumChannelCounts(pcmDevice) = {n \in 1..FCC_LIMIT : Within(n, pcmDevice.channels)}
        BY DEF ProfileInv, EnumChannelCounts, TakesWithinLimit
      <3>3. 0 \notin std_sample_rates
        BY DEF std_sample_rates
      <3>4. ReadFrom(profile', pcmDevice)
        BY <3>1, <3>2, <3>3 DEF ReadFrom
      <3>5. QED
        BY <2>1, <3>4 DEF ReadDeviceInfo, ProfileInv, OfferedIsPrepared
    <2>2. CASE PopulateConnectedDevicePort
      <3>1. OfferedFrom(portProfiles', profile)
        BY <2>2 DEF PopulateConnectedDevicePort, OfferedFrom
      <3>2. profile # NoProfile
        BY <2>2 DEF PopulateConnectedDevicePort, NoProfile
      <3>3. QED
        BY <2>2, <3>1, <3>2 DEF PopulateConnectedDevicePort, ProfileInv, OfferedIsPrepared
    <2>3. CASE OpenProxyForExternalDevice
      <3>0. PICK o \in portProfiles : \E mask \in o.masks, rate \in o.rates :
              prepared'[1].error =
                ProxyPrepare(profile, [format |-> o.format, rate |-> rate,
                                       channels |-> GetChannelCountFromChannelMask(mask)]).error
        BY <2>3 DEF OpenProxyForExternalDevice
      <3>1. PICK mask \in o.masks, rate \in o.rates :
              prepared'[1].error =
                ProxyPrepare(profile, [format |-> o.format, rate |-> rate,
                                       channels |-> GetChannelCountFromChannelMask(mask)]).error
        BY <3>0
      <3>2. /\ ReadFrom(profile, pcmDevice) /\ o.format \in profile.formats
            /\ o.masks = ChannelMasks(profile.counts) /\ o.rates = profile.rates
        BY DEF ProfileInv, OfferedFrom
      <3>3. ~prepared'[1].error
        BY <3>1, <3>2, OfferFits
      <3>4. QED
        BY <2>3, <3>3 DEF OpenProxyForExternalDevice, ProfileInv, OfferedIsPrepared
    <2>4. CASE CloseProxy
      BY <2>4 DEF CloseProxy, ProfileInv, OfferedIsPrepared
    <2>5. CASE PlugIn
      BY <2>5 DEF PlugIn, ProfileInv, OfferedIsPrepared
    <2>6. CASE UNCHANGED profileVars
      BY <2>6 DEF profileVars, ProfileInv, OfferedIsPrepared
    <2>7. QED
      BY <2>1, <2>2, <2>3, <2>4, <2>5, <2>6 DEF ProfileNext
  <1>3. ProfileInv => OfferedIsPrepared
    BY DEF ProfileInv
  <1>4. QED
    BY <1>1, <1>2, <1>3, PTL DEF ProfileSpec
=============================================================================
