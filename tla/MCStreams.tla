------------------------------ MODULE MCStreams ------------------------------
(* The streams of the audio HAL, each kind with its driver and its callers:   *)
(* the workers of a synchronous output and of an input, the switcher, the     *)
(* memory-mapped, primary, USB and remote submix streams, and what they rest  *)
(* on: the mixers of USB cards, the profile of an ALSA device, the manual     *)
(* A2DP synchronisation.  They share nothing: a behaviour is one of the part  *)
(* that "part" names, while the others are at rest in an initial state.       *)
EXTENDS StreamOut, StreamIn, A2dpManualSync, StreamSwitcher, StreamMmapStub, StreamPrimary,
        UsbAudio, AlsaProfile, StreamRemoteSubmix

CONSTANT Parts
VARIABLE part

sideVars == <<switcherVars, mmapVars, primaryVars, usbVars, mixerVars, profileVars>>
-----------------------------------------------------------------------------
\* At 1000 Hz a millisecond is a frame; MaxFrames lets the stream consume more
\* than the largest latency, and the delays lie on both sides of every limit.
MCReports  == {50, 51, 999, 1000}
MCRelative == {-500, -40, 500}
MCAbsolute == {-1, 5000}

MCCardNames == [n \in 0..2 |-> <<"hdmi0", "codec", "other">>[n + 1]]
MCBroken    == {<<2, 2>>}

\* A headset; an interface with more channels than the limit, that drops to
\* fewer at high rates; a microphone; and a device for sixteen to twenty
\* channels, the example of alsa_device_profile.c:251.
Takes(counts, rates) == counts \X rates
Headset    == [isInput |-> FALSE, channels |-> <<2, 2>>, rates |-> <<8000, 48000>>,
               periods |-> <<32, 4096>>, mask |-> {2, 32}, accepts |-> Takes({2}, {44100, 48000})]
Interface  == [isInput |-> FALSE, channels |-> <<2, 18>>, rates |-> <<44100, 192000>>,
               periods |-> <<64, 400>>, mask |-> {10, 14},
               accepts |-> Takes({2, 8, 12}, {44100, 48000, 96000}) \cup Takes({2}, {192000})]
Microphone == [isInput |-> TRUE, channels |-> <<1, 4>>, rates |-> <<16000, 48000>>,
               periods |-> <<32, 4096>>, mask |-> {1, 2, 3}, accepts |-> Takes(1..4, {16000, 48000})]
Scarlett   == [isInput |-> FALSE, channels |-> <<16, 20>>, rates |-> <<44100, 96000>>,
               periods |-> <<64, 4096>>, mask |-> {10}, accepts |-> Takes(16..20, {44100, 48000, 96000})]

NarrowDevices == {Headset, Interface, Microphone}
AllDevices    == NarrowDevices \cup {Scarlett}
-----------------------------------------------------------------------------
MCInit ==
  /\ part \in Parts
  /\ (part = "a2dp" \/ (settings = CHOOSE s \in Settings : TRUE))
  /\ (part = "primary" \/ (primaryIsInput = FALSE))
  /\ (part = "usb" \/ (usbIsInput = FALSE))
  /\ (part = "mixers" \/ (switches = [card \in UsbCards |-> [ch \in Channels |-> TRUE]]))
  /\ (part = "profile" \/ (pcmDevice = Headset))
  /\ Init /\ InInit /\ SubmixInit /\ A2dpInit
  /\ SwitcherInit /\ MmapInit /\ PrimaryInit /\ UsbInit /\ MixersInit /\ ProfileInit

SideNext ==
  \/ /\ part = "switcher" /\ SwitcherNext
     /\ UNCHANGED <<mmapVars, primaryVars, usbVars, mixerVars, profileVars>>
  \/ /\ part = "mmap" /\ MmapNext
     /\ UNCHANGED <<switcherVars, primaryVars, usbVars, mixerVars, profileVars>>
  \/ /\ part = "primary" /\ PrimaryNext
     /\ UNCHANGED <<switcherVars, mmapVars, usbVars, mixerVars, profileVars>>
  \/ /\ part = "usb" /\ UsbNext
     /\ UNCHANGED <<switcherVars, mmapVars, primaryVars, mixerVars, profileVars>>
  \/ /\ part = "mixers" /\ MixersNext
     /\ UNCHANGED <<switcherVars, mmapVars, primaryVars, usbVars, profileVars>>
  \/ /\ part = "profile" /\ ProfileNext
     /\ UNCHANGED <<switcherVars, mmapVars, primaryVars, usbVars, mixerVars>>

MCNext ==
  /\ UNCHANGED part
  /\ \/ part = "out" /\ Next /\ UNCHANGED <<inVars, submixVars, a2dpVars, sideVars>>
     \/ part = "in" /\ InNext /\ UNCHANGED <<vars, submixVars, a2dpVars, sideVars>>
     \/ part = "submix" /\ SubmixNext /\ UNCHANGED <<vars, inVars, a2dpVars, sideVars>>
     \/ part = "a2dp" /\ A2dpNext /\ UNCHANGED <<vars, inVars, submixVars, sideVars>>
     \/ SideNext /\ UNCHANGED <<vars, inVars, submixVars, a2dpVars>>

MCSafety == MCInit /\ [][MCNext]_<<part, vars, inVars, submixVars, a2dpVars, sideVars>>

\* The workers of an input and of the submix streams are scheduled, and so are
\* the close() of an input.
MCFairness ==
  /\ WF_inVars(part = "in" /\ InWorker)
  /\ WF_inVars(part = "in" /\ InStopWorker) /\ WF_inVars(part = "in" /\ InCloseEnd)
  /\ \A s \in Streams : WF_submixVars(part = "submix" /\ SubmixWorks(s))

MCSpec == MCSafety /\ MCFairness
-----------------------------------------------------------------------------
\* The commands of an input stream are answered and its close() returns, unless
\* a message queue fails (Stream.cpp:212); the close() of a submix stream
\* returns, also that of an output that waits for room in the pipe
\* (StreamRemoteSubmix.cpp:104-118).
InputsAndRoutesAnswer == InCommandAnswered /\ CloseReturns

\* A memory-mapped stream lives in memory that is mapped, wherever its DSP is
\* (StreamMmapStub.cpp:149), and its position goes on when the memory is
\* replaced (StreamMmapStub.cpp:64).
MmapGoesOn == MemoryInUseIsMapped /\ MmapPositionContinues

\* A stream uses the devices that are connected: a primary stream has its card
\* open and no other (StreamPrimary.cpp:81-98), and a USB stream sends frames to
\* all the devices that are connected, or to none (StreamUsb.cpp:65).
UsesConnectedDevices == OpenedIsCurrent /\ FramesReachConnected
=============================================================================
