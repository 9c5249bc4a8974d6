----------------------------- MODULE AlsaProfile -----------------------------
(* What is known of an ALSA device: alsa_device_profile.c reads it from the    *)
(* kernel, ModuleAlsa.cpp offers it to the framework as the profiles of a      *)
(* port, and a stream that the framework opens for one of them goes through    *)
(* alsa/Utils.cpp to proxy_prepare and proxy_open of alsa_device_proxy.c.      *)
EXTENDS Integers, FiniteSetsExt

CONSTANTS FCC_LIMIT,     \* of the framework: the most channels of a stream
          PeriodUs,      \* ro.vendor.audio.usb.period_us
          PcmDevices     \* what may be plugged in, see DeviceFields

\* The range of channels, rates and periods that the kernel reports, the bits of
\* its mask of formats, and which channels and rates it accepts together.
DeviceFields == {"isInput", "channels", "rates", "periods", "mask", "accepts"}

ASSUME ProfileAssumption ==
  /\ FCC_LIMIT \in 1..24 /\ PeriodUs \in Nat \ {0}
  /\ \A d \in PcmDevices : DOMAIN d = DeviceFields

VARIABLES
  pcmDevice,    \* the device that is plugged in
  profile,      \* alsa_device_profile, and whether it could be read
  portProfiles, \* profiles of the connected port
  prepared      \* what opening a stream came to: a proxy and its result

profileVars == <<pcmDevice, profile, portProfiles, prepared>>

NoFormat == "invalid"
Within(n, range) == range[1] <= n /\ n <= range[2]

-----------------------------------------------------------------------------
(* Reading the device *)

std_sample_rates ==
  {96000, 88200, 192000, 176400, 48000, 44100, 32000, 24000, 22050, 16000, 12000, 11025, 8000}

\* The formats that are known, by their bit; S8, bit 0, is never used.
pcm_format_value_map == [b \in {2, 6, 10, 32} |->
  CASE b = 2 -> "S16" [] b = 6 -> "S24" [] b = 10 -> "S32" [] b = 32 -> "S24_3"]

\* The first bit beyond the 8-bit formats, whether or not it is a known one.
GetPcmFormatForMask(mask) ==
  LET bits == mask \ {0, 1} IN
    IF bits = {} \/ Min(bits) \notin DOMAIN pcm_format_value_map THEN NoFormat
    ELSE pcm_format_value_map[Min(bits)]

RoundTo16(n) == ((n + 15) \div 16) * 16

CalcMinPeriodSize(minPeriod, rate) ==
  RoundTo16(Max({minPeriod, (rate * (PeriodUs \div 100)) \div 10000}))

\* read_alsa_device_config; a missing format is an error that no one looks at.
ReadAlsaDeviceConfig(d) ==
  LET rate == IF Within(48000, d.rates) THEN 48000
              ELSE IF Within(44100, d.rates) THEN 44100 ELSE d.rates[1] IN
    [channels |-> IF ~d.isInput /\ Within(2, d.channels) THEN 2 ELSE d.channels[1],
     rate     |-> rate,
     period   |-> CalcMinPeriodSize(d.periods[1], rate),
     format   |-> GetPcmFormatForMask(d.mask)]

EnumSampleFormats(d) == {pcm_format_value_map[b] : b \in d.mask \cap DOMAIN pcm_format_value_map}

\* Mutant: the number that suits the framework is offered to it.
EnumUpToLimit(d) == 1..FCC_LIMIT

\* A device that only takes more channels than the limit is offered with the limit.
EnumChannelCounts(d) ==
  LET fitting == {n \in 1..FCC_LIMIT : Within(n, d.channels)} IN
    IF fitting = {} THEN {FCC_LIMIT} ELSE fitting

\* pcm_open and pcm_is_ready: what the kernel and the device say (external)
IsReady(d, config) ==
  /\ config.format # NoFormat /\ config.period <= d.periods[2]
  /\ <<config.channels, config.rate>> \in d.accepts

\* profile_test_sample_rate: with the most channels below the limit
TestSampleRate(d, config, rate) ==
  LET most == IF d.channels[2] < FCC_LIMIT THEN d.channels[2] ELSE FCC_LIMIT IN
    IsReady(d, [config EXCEPT !.rate = rate,
                              !.channels = IF @ < FCC_LIMIT THEN most ELSE @])

EnumSampleRates(d, config) ==
  {r \in std_sample_rates : Within(r, d.rates) /\ TestSampleRate(d, config, r)}

NoProfile == [valid |-> FALSE]

\* profile_read_device_info, which fails if the device is gone
ReadDeviceInfo ==
  /\ profile = NoProfile
  /\ LET config == ReadAlsaDeviceConfig(pcmDevice) IN
       profile' = [valid         |-> TRUE,
                   defaultConfig |-> config,
                   formats       |-> EnumSampleFormats(pcmDevice),
                   counts        |-> EnumChannelCounts(pcmDevice),
                   rates         |-> EnumSampleRates(pcmDevice, config),
                   limits        |-> pcmDevice.channels,
                   minPeriod     |-> pcmDevice.periods[1]]
  /\ UNCHANGED <<pcmDevice, portProfiles, prepared>>

-----------------------------------------------------------------------------
(* Offering it *)

\* getChannelMasksFromProfile: a layout for mono and stereo, an index mask for each
ChannelMasks(counts) ==
  {[tag |-> "layout", n |-> n] : n \in counts \cap {1, 2}} \cup {[tag |-> "index", n |-> n] : n \in counts}

GetChannelCountFromChannelMask(mask) ==
  IF mask.tag = "layout" /\ mask.n \notin {1, 2} THEN 0 ELSE mask.n

\* ModuleAlsa::populateConnectedDevicePort: one profile for each format.
PopulateConnectedDevicePort ==
  /\ profile.valid /\ portProfiles = {}
  /\ portProfiles' = [format : profile.formats, masks : {ChannelMasks(profile.counts)},
                      rates : {profile.rates}]
  /\ UNCHANGED <<pcmDevice, profile, prepared>>

-----------------------------------------------------------------------------
(* Opening a stream for a profile *)

\* proxy_prepare with an exact match, as every caller wants it.  A field that
\* does not fit keeps what it had, which is zero, and the result is an error.
\* (proxy_scan_rates then tries the one rate that is asked for, and that it finds
\* nothing is no error.)
ProxyPrepare(p, config) ==
  LET formatFits   == config.format \in p.formats
      rateFits     == config.rate # 0 /\ config.rate \in p.rates
      channelsFit  == config.channels # 0 /\ Within(config.channels, p.limits)
      rate         == IF rateFits THEN config.rate ELSE 0
  IN  [error  |-> ~(formatFits /\ rateFits /\ channelsFit),
       config |-> [format   |-> IF formatFits THEN config.format ELSE NoFormat,
                   rate     |-> rate,
                   channels |-> IF channelsFit THEN config.channels ELSE 0,
                   period   |-> CalcMinPeriodSize(p.minPeriod, rate)]]

\* getPcmConfig of a stream for one of the offered profiles, and
\* openProxyForExternalDevice, which reads the device anew.
OpenProxyForExternalDevice ==
  /\ prepared = <<>>
  /\ \E o \in portProfiles : \E mask \in o.masks, rate \in o.rates :
       LET config == [format |-> o.format, rate |-> rate,
                      channels |-> GetChannelCountFromChannelMask(mask)]
           result == ProxyPrepare(profile, config)
       IN  prepared' = <<[asked  |-> config,
                          error  |-> result.error,
                          config |-> result.config,
                          opened |-> ~result.error /\ IsReady(pcmDevice, result.config)]>>
  /\ UNCHANGED <<pcmDevice, profile, portProfiles>>

\* The stream is closed, or the device unplugged and another one plugged in.
CloseProxy ==
  /\ prepared # <<>> /\ prepared' = <<>>
  /\ UNCHANGED <<pcmDevice, profile, portProfiles>>

PlugIn ==
  /\ pcmDevice' \in PcmDevices
  /\ profile' = NoProfile /\ portProfiles' = {} /\ prepared' = <<>>

ProfileInit ==
  /\ pcmDevice \in PcmDevices
  /\ profile = NoProfile /\ portProfiles = {} /\ prepared = <<>>

ProfileNext ==
  \/ ReadDeviceInfo \/ PopulateConnectedDevicePort
  \/ OpenProxyForExternalDevice \/ CloseProxy \/ PlugIn

ProfileSpec == ProfileInit /\ [][ProfileNext]_profileVars

-----------------------------------------------------------------------------
(* Properties *)

\* What a device is offered with is within what it takes: it takes a number of
\* channels that the framework can ask for.
TakesWithinLimit(d) == \E n \in 1..FCC_LIMIT : Within(n, d.channels)

\* A stream for any format, channels and rate that the port offers can be
\* prepared: openDevices demands an exact match because "that is guaranteed by
\* setAudioPortConfig and setAudioPatch" (StreamAlsa.cpp:116-119), and these
\* only know what the device was offered with.
OfferedIsPrepared == prepared # <<>> => ~prepared[1].error
=============================================================================
