--------------------------- MODULE Configuration ---------------------------
(***************************************************************************)
(* The configurations that the audio modules of each type are made with:   *)
(* ports, the routes between them, and the port configs that are there     *)
(* from the beginning.                                                     *)
(*                                                                         *)
(* As in the code a port is named by its number, here its place in the     *)
(* sequence.  Names, flags and limits on streams are left out, and so are  *)
(* the types of devices; what is kept of a device is how it connects.      *)
(***************************************************************************)
EXTENDS Sequences, Functions, Naturals

Profile(format, channelMasks, sampleRates) ==
  [format |-> format, channelMasks |-> channelMasks, sampleRates |-> sampleRates]

\* The profiles of a device when connections are simulated are its
\* connectedProfiles; those of a port are empty when they are dynamic.
MixPort(profiles) ==
  [type |-> "mix", external |-> FALSE, profiles |-> profiles, connectedProfiles |-> <<>>]

AttachedPort ==
  [type |-> "device", external |-> FALSE, profiles |-> <<>>, connectedProfiles |-> <<>>]

ExternalPort(profiles, connectedProfiles) ==
  [type |-> "device", external |-> TRUE, profiles |-> profiles,
   connectedProfiles |-> connectedProfiles]

RouteTo(sources, sink) == [sources |-> sources, sink |-> sink]

PortConfig(port, format, channelMask, sampleRate) ==
  [port |-> port, format |-> format, channelMask |-> channelMask, sampleRate |-> sampleRate]

\* What the default constructors of the parts of a config stand for.
Dynamic == [format |-> "none", channelMask |-> "none", sampleRate |-> 0]

DynamicPortConfig(port) ==
  PortConfig(port, Dynamic.format, Dynamic.channelMask, Dynamic.sampleRate)

MonoStereo == <<"mono", "stereo">>

StandardRates == <<8000, 11025, 16000, 32000, 44100, 48000>>

Standard16And24BitProfiles ==
  <<Profile("pcm16", MonoStereo, StandardRates), Profile("pcm24", MonoStereo, StandardRates)>>

\* populateConnectedProfiles: an external device without any profiles gets the
\* standard ones.
Populated(port) ==
  IF port.external /\ port.profiles = <<>> /\ port.connectedProfiles = <<>>
  THEN [port EXCEPT !.connectedProfiles = Standard16And24BitProfiles]
  ELSE port

\* Speaker, HDMI, analog jack, microphone, telephony out and in, FM tuner;
\* the primary output and input, telephony out and in, FM tuner.
PrimaryConfiguration ==
  LET standard == <<Profile("pcm16", MonoStereo, StandardRates)>>
      external == ExternalPort(<<>>, standard)
  IN [ports    |-> <<AttachedPort, external, external, AttachedPort, AttachedPort,
                     AttachedPort, AttachedPort>> \o [m \in 1 .. 5 |-> MixPort(standard)],
      routes   |-> {RouteTo({8}, 1), RouteTo({8}, 2), RouteTo({8}, 3), RouteTo({4}, 9),
                    RouteTo({6}, 11), RouteTo({10}, 5), RouteTo({7}, 12)},
      initials |-> [d \in {1, 4, 5, 6, 7} |-> DynamicPortConfig(d)]]

\* Devices out and in, the output and the input.
RSubmixConfiguration ==
  LET profiles == <<Profile("pcm16", <<"stereo">>, StandardRates \o <<192000>>)>>
      external == ExternalPort(<<>>, profiles)
  IN [ports    |-> <<external, external, MixPort(profiles), MixPort(profiles)>>,
      routes   |-> {RouteTo({3}, 1), RouteTo({2}, 4)},
      initials |-> <<>>]

\* Device and headset out, device and headset in, the output and the input.
UsbConfiguration ==
  LET masks    == <<"mono", "stereo", "index1", "index2">>
      standard == <<Profile("pcm16", masks, <<44100, 48000>>),
                    Profile("pcm24", masks, <<44100, 48000>>)>>
  IN [ports    |-> [d \in 1 .. 4 |-> ExternalPort(<<>>, standard)]
                     \o [m \in 1 .. 2 |-> MixPort(<<>>)],
      routes   |-> {RouteTo({5}, 1), RouteTo({5}, 2), RouteTo({3, 4}, 6)},
      initials |-> <<>>]

\* Test out, headset, test in, headset microphone; the output, the fast, the
\* compressed output, and the input.
StubConfiguration ==
  LET masks == <<"mono", "stereo", "frontback">>
      rates == <<8000, 11025, 16000, 22050, 32000, 44100, 48000>>
  IN [ports    |-> <<AttachedPort, ExternalPort(<<>>, <<>>), AttachedPort,
                     ExternalPort(<<>>, <<>>),
                     MixPort(<<Profile("pcm24", MonoStereo, StandardRates)>>),
                     MixPort(<<Profile("pcm24", <<"stereo">>, <<44100, 48000>>)>>),
                     MixPort(<<Profile("mp3", MonoStereo, <<44100, 48000>>)>>),
                     MixPort(<<Profile("pcm16", masks, rates),
                               Profile("pcm24", masks, rates)>>)>>,
      routes   |-> {RouteTo({5, 6, 7}, 1), RouteTo({5}, 2), RouteTo({3, 4}, 8)},
      initials |-> [d \in {1, 3} |->
                      PortConfig(d, "pcm24", IF d = 1 THEN "stereo" ELSE "mono", 48000)]]

\* A2DP device, headphones and speaker, hearing aid; the outputs of both.
BluetoothConfiguration ==
  LET a2dp == <<Profile("pcm16", <<"stereo">>, <<44100, 48000, 88200, 96000>>)>>
      aid  == <<Profile("pcm16", <<"stereo">>, <<16000, 24000>>)>>
  IN [ports    |-> [d \in 1 .. 3 |-> ExternalPort(a2dp, a2dp)]
                     \o <<ExternalPort(<<>>, aid), MixPort(<<>>), MixPort(aid)>>,
      routes   |-> {RouteTo({5}, 1), RouteTo({5}, 2), RouteTo({5}, 3), RouteTo({6}, 4)},
      initials |-> <<>>]

ConfigurationOf ==
  [DEFAULT   |-> PrimaryConfiguration,
   R_SUBMIX  |-> RSubmixConfiguration,
   STUB      |-> StubConfiguration,
   USB       |-> UsbConfiguration,
   BLUETOOTH |-> BluetoothConfiguration]
=============================================================================
