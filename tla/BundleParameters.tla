-------------------------- MODULE BundleParameters --------------------------
(* libeffects/bundle/aidl/BundleContext.cpp, EffectBundleAidl.cpp: the        *)
(* parameters of an effect of the bundle.  Each call hands them to the LVM    *)
(* library, which may refuse, records them, and then has the library's level  *)
(* limited by all the gains in force (limitLevel), which may fail as well.    *)
(* The level is kept as what it was computed from.                            *)
EXTENDS Integers

CONSTANTS Bands,        \* bands of the equalizer
          SoftPresets,  \* kSoftPresets: the gain of each band, in dB, by preset
          BandLevels,   \* levels a client sets, in mB
          Strengths,    \* of bass boost and virtualizer
          Volumes       \* of setVolumeStereo, in dB

ASSUME ParametersAssumption ==
  /\ SoftPresets \in [DOMAIN SoftPresets -> [Bands -> Int]]
  /\ 0 \in DOMAIN SoftPresets /\ BandLevels \subseteq Int
  /\ Strengths \cup Volumes \subseteq Int

VARIABLES
  effectType, effectOn, \* mType, and the operating mode it has in the library
  mBandGain, mCurPreset, mBassStrength, mVirtStrength, mVolume,
  library,         \* the parameters of the library
  levelFrom,       \* what its level was computed from
  levelled,        \* did the last limitLevel succeed
  halfway          \* (history) the last call for bands failed at limitLevel

recordVars == <<mBandGain, mCurPreset, mBassStrength, mVirtStrength, mVolume>>
parameterVars == <<effectType, effectOn, recordVars, library, levelFrom, levelled, halfway>>

Custom == -1    \* PRESET_CUSTOM
EffectTypes == {"equalizer", "bass", "virtualizer"}

PresetLevels(preset) == [b \in Bands |-> SoftPresets[preset][b] * 100]

\* Half a dB is rounded away from zero.
InDb(mb) == IF mb > 0 THEN (mb + 50) \div 100 ELSE -((50 - mb) \div 100)

\* What limitLevel counts: the gains of what is on, and the volume.
InForce(on, gains, bass, volume) ==
  [equalizer   |-> IF on /\ effectType = "equalizer" THEN gains ELSE [b \in Bands |-> 0],
   bass        |-> IF on /\ effectType = "bass" THEN bass ELSE 0,
   virtualizer |-> on /\ effectType = "virtualizer", volume |-> volume]

ParametersInit ==
  /\ effectType \in EffectTypes /\ effectOn = FALSE
  /\ mBandGain = PresetLevels(0) /\ mCurPreset = Custom
  /\ mBassStrength = 0 /\ mVirtStrength = 0 /\ mVolume = 0
  /\ library = [bands |-> SoftPresets[0], bass |-> 0, virtualizer |-> 0]
  /\ levelFrom = InForce(FALSE, mBandGain, 0, 0) /\ levelled = TRUE /\ halfway = FALSE
-----------------------------------------------------------------------------
\* limitLevel, the last step of every call below.
LimitLevel ==
  \/ levelled' = TRUE /\ levelFrom' = InForce(effectOn', mBandGain', mBassStrength', mVolume')
  \/ levelled' = FALSE /\ UNCHANGED levelFrom

\* enableOperatingMode, disableOperatingMode
SetOperatingMode(on) ==
  /\ effectOn' = on
  /\ UNCHANGED <<effectType, recordVars, library, halfway>> /\ LimitLevel

\* updateControlParameter: bands that are not named keep their gain.
UpdateControlParameter(levels) ==
  /\ mBandGain' = [b \in Bands |-> IF b \in DOMAIN levels THEN levels[b] ELSE mBandGain[b]]
  /\ library' = [library EXCEPT !.bands = [b \in Bands |-> InDb(mBandGain'[b])]]
  /\ UNCHANGED <<effectType, effectOn, mBassStrength, mVirtStrength, mVolume>>
  /\ LimitLevel /\ halfway' = ~levelled'

\* The preset is recorded only when all of it has succeeded.
SetEqualizerPreset(preset) ==
  /\ UpdateControlParameter(PresetLevels(preset))
  /\ mCurPreset' = IF levelled' THEN preset ELSE mCurPreset

\* Mutant: the preset stays when the client sets bands.
SetBandsOfPreset(levels) == UpdateControlParameter(levels) /\ UNCHANGED mCurPreset

SetEqualizerBandLevels(levels) ==
  /\ UpdateControlParameter(levels)
  /\ mCurPreset' = IF levelled' THEN Custom ELSE mCurPreset

SetBassBoostStrength(strength) ==
  /\ mBassStrength' = strength
  /\ library' = [library EXCEPT !.bass = (15 * strength) \div 1000]
  /\ UNCHANGED <<effectType, effectOn, mBandGain, mCurPreset, mVirtStrength, mVolume, halfway>>
  /\ LimitLevel

SetVirtualizerStrength(strength) ==
  /\ mVirtStrength' = strength
  /\ library' = [library EXCEPT !.virtualizer = (strength * 32767) \div 1000]
  /\ UNCHANGED <<effectType, effectOn, mBandGain, mCurPreset, mBassStrength, mVolume, halfway>>
  /\ LimitLevel

\* setVolumeStereo does not ask whether the level was limited.
SetVolumeStereo(volume) ==
  /\ mVolume' = volume
  /\ UNCHANGED <<effectType, effectOn, mBandGain, mCurPreset, mBassStrength, mVirtStrength, library, halfway>>
  /\ LimitLevel

\* What getParameter answers.
GetParameter(tag) ==
  CASE tag = "bandLevels" -> mBandGain [] tag = "preset" -> mCurPreset
    [] tag = "bassStrength" -> mBassStrength [] tag = "virtStrength" -> mVirtStrength

ParametersNext ==
  \/ \E on \in BOOLEAN : SetOperatingMode(on)
  \/ \E preset \in DOMAIN SoftPresets : SetEqualizerPreset(preset)
  \/ \E b \in Bands, level \in BandLevels : SetEqualizerBandLevels([named \in {b} |-> level])
  \/ \E strength \in Strengths : SetBassBoostStrength(strength) \/ SetVirtualizerStrength(strength)
  \/ \E volume \in Volumes : SetVolumeStereo(volume)

ParametersSpec == ParametersInit /\ [][ParametersNext]_parameterVars
-----------------------------------------------------------------------------
(* What a client is answered is what is heard.  The preset that getParameter  *)
(* names is the one whose bands the library has, in whatever order presets,   *)
(* single bands and strengths are set and fail, until a call that changed     *)
(* bands failed half-way; and the level counts every gain in force whenever   *)
(* limitLevel has succeeded last (BundleContext.cpp:207, 432-465).            *)
ParametersAgree ==
  /\ ~halfway /\ GetParameter("preset") # Custom =>
       library.bands = SoftPresets[GetParameter("preset")]
  /\ levelled => levelFrom = InForce(effectOn, mBandGain, mBassStrength, mVolume)
=============================================================================
