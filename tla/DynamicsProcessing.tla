------------------------- MODULE DynamicsProcessing -------------------------
(* libeffects/dynamicsproc: the stages of a channel of the dynamics processing *)
(* engine, and the limiters that link its channels.                            *)
EXTENDS Integers, FiniteSetsExt

-----------------------------------------------------------------------------
(* libeffects/dynamicsproc: one stage of one channel of the dynamics           *)
(* processing engine, an equalizer or the multiband compressor.  Clients set   *)
(* its bands (DPBase.cpp); before each buffer the worker copies what they set  *)
(* into its own parameters and, only when it finds one changed, computes the   *)
(* factor of every bin of the spectrum anew (DPFrequency.cpp).  Calls and      *)
(* processing exclude each other (mImplMutex of EffectImpl).  Stages do not    *)
(* touch each other, and channels do not either: one stage is looked at.       *)

CONSTANTS
  BandCount,   \* bandCount of the stage
  Bins,        \* mHalfFFTSize
  EqBands,     \* bands clients set: enable, the bin of the cutoff, gain in dB
  InputGains   \* in dB

ASSUME EqualizerAssumption ==
  /\ BandCount \in Nat \ {0} /\ Bins \in Nat \ {0}
  /\ EqBands \subseteq [enable : BOOLEAN, cutoff : Nat, gain : Int]
  /\ InputGains \subseteq Int

VARIABLES
  stage,      \* "pre", "mbc" or "post"
  asSet,      \* what clients have set: DPChannel, DPEq, DPMbc
  asCached,   \* what the worker has copied: ChannelBuffer
  mBins,      \* binStart and binStop of each band
  mFactor     \* mPreEqFactorVector, mPostEqFactorVector, in dB

equalizerVars == <<stage, asSet, asCached, mBins, mFactor>>

BandIds == 0 .. BandCount - 1
BinIds == 0 .. Bins - 1
DefaultBand == [enable |-> FALSE, cutoff |-> 1000, gain |-> 0]
NoBand == [enable |-> FALSE, cutoff |-> 0, gain |-> 0]

EqualizerInit ==
  /\ stage \in {"pre", "mbc", "post"}
  /\ asSet = [enabled |-> FALSE, bands |-> [b \in BandIds |-> DefaultBand], inputGain |-> 0]
  /\ asCached = [enabled |-> FALSE, bands |-> [b \in BandIds |-> NoBand], inputGain |-> 0]
  /\ mBins = [b \in BandIds |-> [start |-> 0, stop |-> 0]]
  /\ mFactor = [k \in BinIds |-> 0]

\* computeBinStartStop: each band begins above the cutoff of the one before.
BinsOf(bands) ==
  [b \in BandIds |-> [start |-> IF b = 0 THEN 0 ELSE bands[b - 1].cutoff + 1,
                      stop  |-> bands[b].cutoff]]

Covering(bins, k) == {b \in BandIds : bins[b].start <= k /\ k <= bins[b].stop}

\* What a band does to its bins.  One that is off takes the input gain for its
\* own, so that before the compressor that gain counts twice.
BandFactor(band, inputGain) ==
  CASE stage = "pre"  -> (IF band.enable THEN band.gain ELSE inputGain) + inputGain
    [] stage = "post" -> IF band.enable THEN band.gain ELSE 0
-----------------------------------------------------------------------------
\* setPreEq, setMbc, setPostEq
SetStageEnabled(on) ==
  /\ asSet' = [asSet EXCEPT !.enabled = on]
  /\ UNCHANGED <<stage, asCached, mBins, mFactor>>

\* setPreEqBand, setMbcBand, setPostEqBand: bands are set while the stage is on.
SetBands(bands) ==
  /\ asSet.enabled
  /\ asSet' = [asSet EXCEPT !.bands = [b \in BandIds |->
                 IF b \in DOMAIN bands THEN bands[b] ELSE @[b]]]
  /\ UNCHANGED <<stage, asCached, mBins, mFactor>>

SetInputGain(gain) ==
  /\ asSet' = [asSet EXCEPT !.inputGain = gain]
  /\ UNCHANGED <<stage, asCached, mBins, mFactor>>

\* Bands are copied and compared while the stage is on.
BandsChanged ==
  /\ asSet.enabled
  /\ IF stage = "mbc"
     THEN \E b \in BandIds : asSet.bands[b].cutoff # asCached.bands[b].cutoff
     ELSE asSet.bands # asCached.bands

\* Mutant: switching an equalizer on or off is no change.
ChangedUnlessSwitched ==
  \/ BandsChanged
  \/ stage = "pre" /\ asSet.inputGain # asCached.inputGain

\* Is there anything to compute anew?
Changed ==
  \/ BandsChanged
  \/ stage # "mbc" /\ asSet.enabled # asCached.enabled
  \/ stage = "pre" /\ asSet.inputGain # asCached.inputGain

\* updateParameters, before a buffer is processed.  A bin that no band covers
\* keeps the factor it had; a later band takes a bin from an earlier one.
UpdateParameters ==
  LET bins == BinsOf(asSet.bands) IN
  /\ asCached' = [asSet EXCEPT !.bands = IF asSet.enabled THEN @ ELSE asCached.bands]
  /\ mBins' = IF Changed /\ asSet.enabled THEN bins ELSE mBins
  /\ mFactor' =
       IF ~Changed \/ stage = "mbc" THEN mFactor
       ELSE IF asSet.enabled
       THEN [k \in BinIds |-> IF Covering(bins, k) = {} THEN mFactor[k]
                              ELSE BandFactor(asSet.bands[Max(Covering(bins, k))], asSet.inputGain)]
       ELSE IF stage = "pre" THEN [k \in BinIds |-> asSet.inputGain] ELSE mFactor
  /\ UNCHANGED <<stage, asSet>>

EqualizerNext ==
  \/ \E on \in BOOLEAN : SetStageEnabled(on)
  \/ \E named \in SUBSET BandIds : \E bands \in [named -> EqBands] : SetBands(bands)
  \/ \E gain \in InputGains : SetInputGain(gain)
  \/ UpdateParameters

EqualizerSpec == EqualizerInit /\ [][EqualizerNext]_equalizerVars
-----------------------------------------------------------------------------
UpToDate ==
  asCached = [asSet EXCEPT !.bands = IF asSet.enabled THEN @ ELSE asCached.bands]

(* What is heard is what is set, as soon as the worker has looked, however    *)
(* stages are switched, bands moved and gains changed in between, on or off   *)
(* (DPFrequency.cpp, updateParameters): each bin that a band covers has the   *)
(* factor of the last band that does, a bin of the first equalizer switched   *)
(* off has the input gain alone, and the compressor has the bins of its bands *)
(* (unless all cutoffs are 0 Hz, as in parameters that were never computed).  *)
SpectrumAsSet ==
  UpToDate =>
    IF asSet.enabled
    THEN \A k \in BinIds :
           LET by == Covering(BinsOf(asSet.bands), k) IN
           /\ \/ Covering(mBins, k) = by
              \/ stage = "mbc" /\ \A b \in BandIds : asSet.bands[b].cutoff = 0
           /\ stage # "mbc" /\ by # {} =>
                mFactor[k] = BandFactor(asSet.bands[Max(by)], asSet.inputGain)
    ELSE stage = "pre" => \A k \in BinIds : mFactor[k] = asSet.inputGain

-----------------------------------------------------------------------------
(* libeffects/dynamicsproc: the context of a dynamics processing effect, its   *)
(* engine and the limiters of the engine's channels.  Limiters of one link     *)
(* group limit alike: the worker keeps a map from groups to channels, brought  *)
(* up to date channel by channel before each buffer, and gives all channels of *)
(* a group the smallest factor among them (DPFrequency.cpp).  Calls and        *)
(* processing exclude each other (mImplMutex of EffectImpl).                   *)

CONSTANTS
  ChannelCounts,  \* channel counts of the common parameters
  LinkGroups,     \* link groups clients ask for
  Factors,        \* factors a limiter may come to, in percent
  Architectures   \* engine architectures: limiterInUse, byFrequency

ASSUME DynamicsAssumption ==
  /\ ChannelCounts \subseteq Nat \ {0} /\ LinkGroups \subseteq Int
  /\ Factors \subseteq 1 .. 100
  /\ Architectures \subseteq [limiterInUse : BOOLEAN, byFrequency : BOOLEAN]

VARIABLES
  dpActive,           \* mState is ACTIVE
  mChannelCount, mEngineArchitecture, mEngineInited,
  limiters,           \* DPChannel of each channel of the engine: its limiter
  limiterParams,      \* ChannelBuffer of each channel: mLimiterEnabled, mLimiterParams
  mGroupsMap,         \* LinkedLimiters
  limited             \* (history) a block has been processed since the parameters
                      \* were copied last

dynamicsVars == <<dpActive, mChannelCount, mEngineArchitecture, mEngineInited, limiters,
                  limiterParams, mGroupsMap, limited>>

Default == [limiterInUse |-> TRUE, byFrequency |-> TRUE]
NoGroup == -1
Groups == LinkGroups \cup {0}
ChannelsOf(n) == 0 .. n - 1
EngineChannels == DOMAIN limiters

\* dpSetFreqDomainVariant_l, DPBase::init, initBuffers
NewLimiters(n, architecture) ==
  [c \in ChannelsOf(n) |-> [inUse |-> architecture.limiterInUse, enabled |-> FALSE, group |-> 0]]
NewParams(n, architecture) ==
  [c \in ChannelsOf(n) |-> [inUse |-> architecture.limiterInUse, enabled |-> FALSE,
                            group |-> NoGroup, newFactor |-> 0, linkFactor |-> 0]]
NoChannels == [g \in Groups |-> {}]

\* open makes the engine of the default architecture.
DynamicsInit ==
  /\ dpActive = FALSE /\ mChannelCount \in ChannelCounts
  /\ mEngineArchitecture = Default /\ mEngineInited = TRUE
  /\ limiters = NewLimiters(mChannelCount, Default)
  /\ limiterParams = NewParams(mChannelCount, Default)
  /\ mGroupsMap = NoChannels /\ limited = FALSE
-----------------------------------------------------------------------------
\* enable, disable: refused when it is so already
SetActive(on) ==
  /\ dpActive # on /\ dpActive' = on
  /\ UNCHANGED <<mChannelCount, mEngineArchitecture, mEngineInited, limiters, limiterParams,
                 mGroupsMap, limited>>

\* reset: the next architecture makes a new engine, even if it is the same.
ResetEngine ==
  /\ mEngineInited' = FALSE
  /\ UNCHANGED <<dpActive, mChannelCount, mEngineArchitecture, limiters, limiterParams,
                 mGroupsMap, limited>>

\* setCommon: the engine keeps the channels it was made for.
SetChannels(n) ==
  /\ mChannelCount' = n
  /\ UNCHANGED <<dpActive, mEngineArchitecture, mEngineInited, limiters, limiterParams,
                 mGroupsMap, limited>>

\* setEngineArchitecture: one that favours time is recorded, and the engine stays.
SetEngineArchitecture(architecture) ==
  /\ mEngineInited' = TRUE /\ mEngineArchitecture' = architecture
  /\ IF architecture.byFrequency /\ (~mEngineInited \/ mEngineArchitecture # architecture)
     THEN /\ limiters' = NewLimiters(mChannelCount, architecture)
          /\ limiterParams' = NewParams(mChannelCount, architecture)
          /\ mGroupsMap' = NoChannels /\ limited' = FALSE
     ELSE UNCHANGED <<limiters, limiterParams, mGroupsMap, limited>>
  /\ UNCHANGED <<dpActive, mChannelCount>>

\* setLimiter: a channel that the common parameters do not have refuses the call;
\* one that only the engine lacks is skipped, and refused after the rest is set.
SetLimiter(configs) ==
  /\ DOMAIN configs \subseteq ChannelsOf(mChannelCount)
  /\ limiters' = [c \in EngineChannels |->
       IF c \in DOMAIN configs
       THEN [inUse |-> mEngineArchitecture.limiterInUse,
             enabled |-> configs[c].enable, group |-> configs[c].linkGroup]
       ELSE limiters[c]]
  /\ UNCHANGED <<dpActive, mChannelCount, mEngineArchitecture, mEngineInited, limiterParams,
                 mGroupsMap, limited>>
-----------------------------------------------------------------------------
\* updateParameters: a limiter that is off keeps the group it had, in the map too.
CopyOf(c) ==
  LET p == limiterParams[c] IN
  IF ~p.inUse THEN p
  ELSE [p EXCEPT !.enabled = limiters[c].enabled,
                 !.group = IF limiters[c].enabled THEN limiters[c].group ELSE @]

\* Mutant: a limiter is not taken out of the group it leaves.
RegroupedTwice(copies) ==
  LET moved == {c \in EngineChannels : copies[c].group # limiterParams[c].group} IN
  [g \in Groups |-> mGroupsMap[g] \cup {c \in moved : copies[c].group = g}]

\* remove and update of LinkedLimiters, for the channels whose group changed
Regrouped(copies) ==
  LET moved == {c \in EngineChannels : copies[c].group # limiterParams[c].group} IN
  [g \in Groups |-> (mGroupsMap[g] \ moved) \cup {c \in moved : copies[c].group = g}]

\* processFirstStages, processLinkedLimiters: limiters that are on come to a new
\* factor, and every channel in the map gets the least one of its group.
Limit(copies, groups, found) ==
  LET new == [c \in EngineChannels |->
                IF copies[c].inUse /\ copies[c].enabled THEN found[c] ELSE copies[c].newFactor]
  IN [c \in EngineChannels |->
        [copies[c] EXCEPT !.newFactor = new[c],
           !.linkFactor = IF \E g \in Groups : c \in groups[g]
                          THEN Min({100} \cup {new[d] : d \in groups[CHOOSE g \in Groups : c \in groups[g]]})
                          ELSE @]]

\* dpeProcess, processSamples: parameters are copied for every buffer, a block is
\* processed when enough samples have come together.
ProcessSamples ==
  LET copies == [c \in EngineChannels |-> CopyOf(c)] IN
  /\ dpActive
  /\ mGroupsMap' = Regrouped(copies)
  /\ \/ limiterParams' = copies /\ limited' = FALSE
     \/ /\ \E found \in [EngineChannels -> Factors] :
             limiterParams' = Limit(copies, mGroupsMap', found)
        /\ limited' = TRUE
  /\ UNCHANGED <<dpActive, mChannelCount, mEngineArchitecture, mEngineInited, limiters>>

DynamicsNext ==
  \/ \E on \in BOOLEAN : SetActive(on)
  \/ ResetEngine \/ ProcessSamples
  \/ \E n \in ChannelCounts : SetChannels(n)
  \/ \E architecture \in Architectures : SetEngineArchitecture(architecture)
  \/ \E named \in SUBSET ChannelsOf(mChannelCount) :
       \E configs \in [named -> [enable : BOOLEAN, linkGroup : LinkGroups]] : SetLimiter(configs)

DynamicsSpec == DynamicsInit /\ [][DynamicsNext]_dynamicsVars
-----------------------------------------------------------------------------
Limits(c) == limiterParams[c].inUse /\ limiterParams[c].enabled

(* Limiters of one group limit alike, and no less than each of them would by  *)
(* itself, in whatever order they are switched, regrouped and processed, and  *)
(* the engine replaced: the map has a channel in one group at most, that of   *)
(* its parameters (DPFrequency.cpp, LinkedLimiters).                          *)
LinkedLimitAlike ==
  /\ \A g \in Groups : \A c \in mGroupsMap[g] : limiterParams[c].group = g
  /\ limited =>
       \A c, d \in EngineChannels :
         /\ Limits(c) /\ Limits(d)
         /\ limiterParams[c].group = limiterParams[d].group /\ limiterParams[c].group # NoGroup
         => /\ limiterParams[c].linkFactor = limiterParams[d].linkFactor
            /\ limiterParams[c].linkFactor <= limiterParams[d].newFactor

(* A limiter that is in no group is linked to none: it limits as much as it   *)
(* finds it must (DPFrequency.cpp:88 calls the group it starts in "no group").*)
UnlinkedLimitsAlone ==
  limited =>
    \A c \in EngineChannels :
      Limits(c) /\ limiterParams[c].group = NoGroup =>
        limiterParams[c].linkFactor = limiterParams[c].newFactor
=============================================================================
