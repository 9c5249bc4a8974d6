---------------------------- MODULE PortConfigs ----------------------------
(***************************************************************************)
(* What the port configs of a module say: format, channels and sample rate,*)
(* as clients negotiate them with setAudioPortConfig from the profiles of  *)
(* the ports, and the size of buffer that a patch promises to streams on   *)
(* its mix port configs.  AudioPorts has the life of ports and configs.    *)
(*                                                                         *)
(* Requests name the port's own flags and no gain: no port has gains, and  *)
(* every request for one is refused.  Streams are left out but for what    *)
(* createStreamContext demands of them.                                    *)
(***************************************************************************)
EXTENDS Configuration, FiniteSetsExt, SequencesExt

CONSTANTS
  Types,            \* the types of modules
  Formats, Masks,   \* what clients ask for beside what is dynamic
  Rates,
  DeviceProfiles,   \* the profiles that USB devices may have
  PipeRates,        \* the sample rates of the pipe of a remote submix
  MaxNew            \* the bounds on new ports and port configs

ASSUME PortConfigsAssumption ==
  /\ Types \subseteq DOMAIN ConfigurationOf
  /\ Rates \cup PipeRates \subseteq Nat \ {0} /\ MaxNew \in [Types -> Nat]

\* The rates of the configurations and of alsa_device_profile.
SampleRates == {rate \in Nat : 8000 <= rate /\ rate <= 192000}

AllFormats == {"pcm16", "pcm24", "pcm32", "mp3"}

\* No device has more channels than index24.
AllMasks == {"mono", "stereo", "frontback", "index1", "index2", "index24"}

\* Profiles that differ in nothing but the format: the configurations and
\* populateConnectedDevicePort make no others.  Left out are USB devices that
\* know none of the sample rates.
UniformProfiles ==
  {s \in Seq([format : AllFormats, channelMasks : Seq(AllMasks), sampleRates : Seq(SampleRates)]) :
     \A i \in DOMAIN s :
       /\ s[i].channelMasks = s[1].channelMasks /\ s[i].channelMasks # <<>>
       /\ s[i].sampleRates = s[1].sampleRates /\ s[i].sampleRates # <<>>}

ASSUME DevicesAssumption == DeviceProfiles \subseteq UniformProfiles /\ PipeRates \subseteq SampleRates

VARIABLES
  type, simulated,  \* the module, and whether it simulates connections
  profiles,         \* the profiles of each port
  attached,        \* the template and the mix ports of each connected device
  configs,          \* the port configs
  nextFreeId,
  patch,            \* a patch, with its minimumStreamBufferSizeFrames
  pipe              \* the rate of the remote end's pipe of a submix, 0 for none

portConfigVars ==
  <<type, simulated, profiles, attached, configs, nextFreeId, patch, pipe>>

NoPatchSet == [sources |-> {}, sinks |-> {}, frames |-> 0]

PortConfigsInit ==
  /\ type \in Types /\ simulated \in BOOLEAN
  /\ LET c == ConfigurationOf[type] IN
     /\ profiles = [p \in DOMAIN c.ports |-> c.ports[p].profiles]
     /\ configs = c.initials
     /\ nextFreeId = Len(c.ports) + 1
  /\ attached = <<>> /\ patch = NoPatchSet /\ pipe = 0

TheConfiguration == ConfigurationOf[type]

TemplateOf(p) == IF p \in DOMAIN attached THEN attached[p].template ELSE p

\* The port of the configuration, or the template of an external device's.
PortOf(p) == Populated(TheConfiguration.ports[TemplateOf(p)])

IsDevice(p) == PortOf(p).type = "device"

\* No port of the configurations or of a device has a profile that is dynamic
\* in part.
HasDynamicProfilesOnly(p) == profiles[p] = <<>>

RoutesFor(p) ==
  {r \in TheConfiguration.routes : TemplateOf(p) \in r.sources \cup {r.sink}}

RoutableMixes(p) ==
  {m \in UNION {r.sources \cup {r.sink} : r \in RoutesFor(p)} : ~IsDevice(m)}

With(f, key, value) == [k \in DOMAIN f \cup {key} |-> IF k = key THEN value ELSE f[k]]

MayAdd == nextFreeId <= Len(TheConfiguration.ports) + MaxNew[type]

----------------------------------------------------------------------------
(* External devices. *)

\* populateConnectedDevicePort of each module: what profiles the port of a
\* device may get from it.  The jacks of the primary module are left dynamic.
PrimaryPopulated == {<<>>}

\* The configuration of a pipe, or the profiles of the mix port.
SubmixPopulated(template) ==
  IF pipe # 0 THEN {<<Profile("pcm16", <<"stereo">>, <<pipe>>)>>}
  ELSE {profiles[m] : m \in RoutableMixes(template)}

PopulatedBy(template) ==
  CASE type = "DEFAULT"  -> PrimaryPopulated
    [] type = "USB"      -> DeviceProfiles
    [] type = "R_SUBMIX" -> SubmixPopulated(template)
    [] OTHER             -> {}

ConnectedProfiles(template) ==
  IF ~simulated THEN PopulatedBy(template)
  ELSE {IF profiles[template] = <<>> THEN PortOf(template).connectedProfiles
        ELSE profiles[template]}

\* Mix ports without profiles get those of the device; those that got theirs
\* from an earlier device keep them.
MixesOf(template, device) ==
  IF device = <<>> THEN {}
  ELSE {m \in RoutableMixes(template) :
          HasDynamicProfilesOnly(m) \/ \E c \in DOMAIN attached : m \in attached[c].mixes}

ConnectDevice(template) ==
  /\ PortOf(template).external /\ template \notin DOMAIN attached
  /\ MayAdd
  /\ nextFreeId' = nextFreeId + 1
  /\ \E device \in ConnectedProfiles(template) :
       LET filled == {m \in MixesOf(template, device) : HasDynamicProfilesOnly(m)} IN
       /\ device = <<>> => \A m \in RoutableMixes(template) : ~HasDynamicProfilesOnly(m)
       /\ profiles' = [p \in DOMAIN profiles \cup {nextFreeId} |->
                         IF p \in filled \cup {nextFreeId} THEN device ELSE profiles[p]]
       /\ attached' = With(attached, nextFreeId,
                           [template |-> template, mixes |-> MixesOf(template, device)])
  /\ UNCHANGED <<type, simulated, configs, patch, pipe>>

DisconnectDevice(p) ==
  LET others == DOMAIN attached \ {p}
      clear  == attached[p].mixes \ UNION {attached[c].mixes : c \in others}
  IN
  /\ \A c \in DOMAIN configs : configs[c].port # p
  /\ profiles' = [q \in DOMAIN profiles \ {p} |-> IF q \in clear THEN <<>> ELSE profiles[q]]
  /\ attached' = Restrict(attached, others)
  /\ UNCHANGED <<type, simulated, configs, nextFreeId, patch, pipe>>

\* The streams at the other end of a submix come and go.
ChangePipe ==
  /\ type = "R_SUBMIX"
  /\ pipe' \in (PipeRates \cup {0}) \ {pipe}
  /\ UNCHANGED <<type, simulated, profiles, attached, configs, nextFreeId, patch>>

----------------------------------------------------------------------------
(* setAudioPortConfig. *)

\* A submix suggests the configuration of the remote end for a device.
FromRemoteEnd(p) == type = "R_SUBMIX" /\ IsDevice(p) /\ pipe # 0

HasDefault(p) == IsDevice(p) \/ ~HasDynamicProfilesOnly(p)

DefaultPortConfig(p) ==
  IF FromRemoteEnd(p) THEN PortConfig(p, "pcm16", "stereo", pipe)
  ELSE IF HasDynamicProfilesOnly(p) THEN DynamicPortConfig(p)
  ELSE LET first == Head(profiles[p])
       IN PortConfig(p, first.format, Head(first.channelMasks), Head(first.sampleRates))

\* A field of a request has one value or none.
Optional(S) == {{}} \cup {{v} : v \in S}

Request ==
  [format      : Optional(Formats \cup {Dynamic.format}),
   channelMask : Optional(Masks \cup {Dynamic.channelMask}),
   sampleRate  : Optional(Rates \cup {Dynamic.sampleRate})]

AllowDynamicConfig(p) == IsDevice(p) /\ HasDynamicProfilesOnly(p)

\* findAudioProfile: the first profile with the format.
ProfileFor(p, format) ==
  profiles[p][Min({i \in DOMAIN profiles[p] : profiles[p][i].format = format})]

\* Mutant: the rate that is dynamic is never asked for.
ListedRates(p) ==
  [f \in {profiles[p][i].format : i \in DOMAIN profiles[p]} |-> ToSet(ProfileFor(p, f).sampleRates)]
     @@ [f \in {Dynamic.format} |-> {}]

\* The rates, and the channels, that go with each format of the port; only what
\* is dynamic if it has no profiles.
SupportedRates(p) ==
  IF AllowDynamicConfig(p) THEN [f \in {Dynamic.format} |-> {Dynamic.sampleRate}]
  ELSE [f \in {profiles[p][i].format : i \in DOMAIN profiles[p]} |->
          ToSet(ProfileFor(p, f).sampleRates)]

SupportedMasks(p) ==
  IF AllowDynamicConfig(p) THEN [f \in {Dynamic.format} |-> {Dynamic.channelMask}]
  ELSE [f \in {profiles[p][i].format : i \in DOMAIN profiles[p]} |->
          ToSet(ProfileFor(p, f).channelMasks)]

Offer(p) == [rates |-> SupportedRates(p), masks |-> SupportedMasks(p)]

\* What is asked for, if it is supported.
Updated(value, asked, supported) ==
  IF asked \cap supported = {} THEN value ELSE CHOOSE v \in asked : TRUE

SuggestedFormat(offer, base, request) ==
  Updated(base.format, request.format, DOMAIN offer.rates)

\* "does not support format anymore": the request is refused.
IsRefused(offer, base, request) ==
  SuggestedFormat(offer, base, request) \notin DOMAIN offer.rates

\* Channels and rates are looked up for the format that results.
Suggestion(offer, base, request) ==
  LET format == SuggestedFormat(offer, base, request) IN
  PortConfig(base.port, format,
    Updated(base.channelMask, request.channelMask, offer.masks[format]),
    Updated(base.sampleRate, request.sampleRate, offer.rates[format]))

IsValid(offer, base, request) ==
  LET format == SuggestedFormat(offer, base, request) IN
  /\ request.format \subseteq DOMAIN offer.rates
  /\ request.channelMask \subseteq offer.masks[format]
  /\ request.sampleRate \subseteq offer.rates[format]

IsFullySpecified(request) == \A field \in DOMAIN request : request[field] # {}

CreatesConfig(offer, base, request) ==
  /\ ~IsRefused(offer, base, request)
  /\ IsValid(offer, base, request) /\ IsFullySpecified(request)

CreateConfig(p) ==
  /\ HasDefault(p) /\ MayAdd
  /\ LET offer == Offer(p)
         base  == DefaultPortConfig(p)
     IN \E request \in Request :
          /\ CreatesConfig(offer, base, request)
          /\ configs' = With(configs, nextFreeId, Suggestion(offer, base, request))
  /\ nextFreeId' = nextFreeId + 1
  /\ UNCHANGED <<type, simulated, profiles, attached, patch, pipe>>

PatchEnds == patch.sources \cup patch.sinks

\* Clients leave the configs of a patch alone, and those that permanent device
\* ports have from the beginning.
MayChange(c) == c \notin PatchEnds \cup DOMAIN TheConfiguration.initials

UpdateConfig(c) ==
  /\ MayChange(c)
  /\ LET offer == Offer(configs[c].port) IN
     \E request \in Request :
       /\ ~IsRefused(offer, configs[c], request) /\ IsValid(offer, configs[c], request)
       /\ configs' = [configs EXCEPT ![c] = Suggestion(offer, configs[c], request)]
  /\ UNCHANGED <<type, simulated, profiles, attached, nextFreeId, patch, pipe>>

ResetConfig(c) ==
  /\ MayChange(c)
  /\ configs' = Restrict(configs, DOMAIN configs \ {c})
  /\ UNCHANGED <<type, simulated, profiles, attached, nextFreeId, patch, pipe>>

----------------------------------------------------------------------------
(* Patches, and the buffers of streams. *)

DivideUp(n, d) == (n + d - 1) \div d

SmallestPowerOf2From(n) == Min({2^k : k \in {j \in 0 .. 20 : 2^j >= n}})

CalculateBufferSizeFramesForPcm(latencyMs, rate) ==
  LET multipleOf16 == 16 * DivideUp((latencyMs * rate) \div 1000, 16) IN
  IF rate < 44100 \/ multipleOf16 <= 512 THEN multipleOf16
  ELSE SmallestPowerOf2From(multipleOf16)

\* No port of the primary module has memory-mapped streams.
PrimaryLatencyMs == 85

\* A quarter of the 4096 frames of a pipe.
SubmixLatencyMs == ((4096 * 1000) \div 48000) \div 4

NominalLatencyMs ==
  CASE type = "DEFAULT" -> PrimaryLatencyMs [] type = "R_SUBMIX" -> SubmixLatencyMs
    [] OTHER -> 5

\* The primary module also knows compressed formats, but has no port for them.
IsPcm(config) == config.format \in {"pcm16", "pcm24", "pcm32"}

BufferSizeFrames(config) ==
  CalculateBufferSizeFramesForPcm(NominalLatencyMs, config.sampleRate)

MixConfigs(ends) == {c \in ends : ~IsDevice(configs[c].port)}

\* Mutant: the lowest sample rate decides.
LowestRate(mixes) ==
  {c \in mixes : \A d \in mixes : configs[c].sampleRate <= configs[d].sampleRate}

HighestRate(mixes) ==
  {c \in mixes : \A d \in mixes : configs[c].sampleRate >= configs[d].sampleRate}

\* checkAudioPatchEndpointsMatch of USB and submix: both ends say the same.
EndpointsMatch(sources, sinks) ==
  type \in {"USB", "R_SUBMIX"} => \A c \in sources, d \in sinks :
    [configs[c] EXCEPT !.port = 0] = [configs[d] EXCEPT !.port = 0]

LeadsTo(c, d) ==
  \E r \in TheConfiguration.routes :
    TemplateOf(configs[c].port) \in r.sources /\ TemplateOf(configs[d].port) = r.sink

\* Patches have one sink here, and no source that does not lead to it.  Those
\* of the Bluetooth module need its proxies: see ModuleBluetooth.
SetNewPatch(sources, sinks) ==
  LET ends == sources \cup sinks IN
  /\ type # "BLUETOOTH" /\ sources # {}
  /\ EndpointsMatch(sources, sinks)
  /\ \E c \in HighestRate(MixConfigs(ends)) :
       /\ IsPcm(configs[c])
       /\ patch' = [sources |-> sources, sinks |-> sinks,
                    frames |-> BufferSizeFrames(configs[c])]
  /\ UNCHANGED <<type, simulated, profiles, attached, configs, nextFreeId, pipe>>

ResetPatch ==
  /\ patch # NoPatchSet
  /\ patch' = NoPatchSet
  /\ UNCHANGED <<type, simulated, profiles, attached, configs, nextFreeId, pipe>>

ChannelCount(mask) ==
  CASE mask \in {"mono", "index1"} -> 1 [] mask = "index24" -> 24 [] OTHER -> 2

SampleSize(format) == CASE format = "pcm16" -> 2 [] format = "pcm32" -> 4 [] OTHER -> 3

FrameSize(config) == SampleSize(config.format) * ChannelCount(config.channelMask)

\* createStreamContext: whether a stream may have so many frames.
AcceptsStream(config, frames) ==
  /\ frames > 0 /\ IsPcm(config)
  /\ frames >= BufferSizeFrames(config)
  /\ FrameSize(config) <= 2^30 \div frames

PortConfigsNext ==
  \/ \E p \in DOMAIN profiles :
       \/ ConnectDevice(p)
       \/ p \in DOMAIN attached /\ DisconnectDevice(p)
       \/ CreateConfig(p)
  \/ \E c \in DOMAIN configs : ResetConfig(c) \/ UpdateConfig(c)
  \/ ChangePipe
  \/ \E d \in DOMAIN configs : \E sources \in SUBSET {c \in DOMAIN configs : LeadsTo(c, d)} :
       SetNewPatch(sources, {d})
  \/ ResetPatch

PortConfigsSpec == PortConfigsInit /\ [][PortConfigsNext]_portConfigVars

----------------------------------------------------------------------------
(* What port configs promise. *)

\* A client that takes what setAudioPortConfig suggests for a new config
\* ("out_suggested is either an existing port config, or a new generated
\* config") gets it: the suggestion, asked for in full, is applied.  So it is
\* for every port of every module after any connections and whatever was asked
\* for first, unless a submix suggests what the remote end has.
NegotiationEnds ==
  \A p \in DOMAIN profiles : HasDefault(p) /\ ~FromRemoteEnd(p) =>
    LET offer == Offer(p)
        base  == DefaultPortConfig(p)
        Asking(config) == [field \in DOMAIN config \ {"port"} |-> {config[field]}]
    IN \A request \in Request : ~IsRefused(offer, base, request) =>
         CreatesConfig(offer, base, Asking(Suggestion(offer, base, request)))

\* A stream with the buffer that a patch names as the minimum is accepted on
\* each mix port config of the patch that has a PCM format.
PatchBufferSuffices ==
  \A c \in MixConfigs(PatchEnds) :
    IsPcm(configs[c]) => AcceptsStream(configs[c], patch.frames)
=============================================================================
