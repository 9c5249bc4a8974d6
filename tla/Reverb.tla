-------------------------------- MODULE Reverb --------------------------------
(* libeffects/reverb/aidl/ReverbContext.cpp, EffectReverb.cpp: a reverb, either *)
(* environmental, whose parameters clients set one by one, or preset, where     *)
(* the worker loads all of them when it meets a new preset.  Every parameter    *)
(* goes to the LVREV library, which may refuse it.  Calls and processing        *)
(* exclude each other (mImplMutex of EffectImpl).                               *)
EXTENDS Integers, Sequences

CONSTANTS
  LevelMapping,     \* kLevelMapping, ascending
  MaxReverbLevel,   \* kMaxReverbLevel
  MaxT60,           \* kMaxT60
  ReverbPresets,    \* mReverbPresets: the parameters of each preset
  EnvironmentValues \* parameter -> the values clients set

LibraryParams == {"roomLevel", "level", "decayTime", "density"}
PlainParams == {"delay", "bypass", "reflectionsDelay"}

ASSUME ReverbAssumption ==
  /\ ReverbPresets \in [DOMAIN ReverbPresets -> [LibraryParams -> Int]]
  /\ DOMAIN EnvironmentValues = LibraryParams \cup PlainParams

NoPreset == "none"   \* PresetReverb::Presets::NONE

VARIABLES
  presetType,      \* isPreset
  reverbOn,        \* mEnabled
  parameters,      \* mRoomLevel, mLevel, mDecayTime, ...
  reverbLibrary,   \* the control parameters of the library
  mPreset, mNextPreset,
  levelSet,        \* (history) a level has reached the library
  asPreset         \* (history) every parameter of mPreset has, and none since

reverbVars == <<presetType, reverbOn, parameters, reverbLibrary, mPreset, mNextPreset,
                levelSet, asPreset>>

ReverbInit ==
  /\ presetType \in BOOLEAN /\ reverbOn = FALSE
  /\ parameters = [p \in LibraryParams \cup PlainParams |->
       CASE p \in {"roomLevel", "level"} -> -6000 [] p = "decayTime" -> 1490
         [] p = "density" -> 1000 [] OTHER -> 0]
  /\ reverbLibrary = [level |-> 0, T60 |-> 1490, roomSize |-> 100]
  /\ mPreset = NoPreset /\ mNextPreset = NoPreset
  /\ levelSet = FALSE /\ asPreset = FALSE

\* convertLevel: the first entry that is not below the level.
ConvertLevel(level) ==
  IF \A i \in DOMAIN LevelMapping : level > LevelMapping[i] THEN 0
  ELSE (CHOOSE i \in DOMAIN LevelMapping :
          level <= LevelMapping[i] /\ \A j \in 1 .. i - 1 : level > LevelMapping[j]) - 1

Clipped(time) == IF time > MaxT60 THEN MaxT60 ELSE time

\* The library after parameter p of the record; both levels make up one.
InLibrary(record, p, library) ==
  CASE p \in {"roomLevel", "level"} ->
         [library EXCEPT !.level = ConvertLevel(record["roomLevel"] + record["level"] - MaxReverbLevel)]
    [] p = "decayTime" -> [library EXCEPT !.T60 = record[p]]
    [] p = "density" -> [library EXCEPT !.roomSize = ((record[p] * 99) \div 1000) + 1]

Recorded(p, value) ==
  [parameters EXCEPT ![p] = IF p = "decayTime" THEN Clipped(value) ELSE value]
-----------------------------------------------------------------------------
\* enable and disable refuse what is so already.
SetEnabled(on) ==
  /\ reverbOn # on /\ reverbOn' = on
  /\ UNCHANGED <<presetType, parameters, reverbLibrary, mPreset, mNextPreset, levelSet, asPreset>>

\* setParameterEnvironmentalReverb, on either type of reverb: a parameter that
\* the library refuses is not recorded.
SetEnvironmentalReverb(p, value) ==
  /\ parameters' = Recorded(p, value)
  /\ IF p \in LibraryParams
     THEN /\ reverbLibrary' = InLibrary(parameters', p, reverbLibrary)
          /\ asPreset' = FALSE
          /\ levelSet' = (levelSet \/ p \in {"roomLevel", "level"})
     ELSE UNCHANGED <<reverbLibrary, levelSet, asPreset>>
  /\ UNCHANGED <<presetType, reverbOn, mPreset, mNextPreset>>

SetPresetReverb(preset) ==
  /\ mNextPreset' = preset
  /\ UNCHANGED <<presetType, reverbOn, parameters, reverbLibrary, mPreset, levelSet, asPreset>>

\* loadPreset: any of its parameters may be refused, and no one looks; the
\* preset counts as loaded.  Its delay and reflections are not used.
LoadPreset(refused) ==
  LET loaded == LibraryParams \ refused
      record == [p \in DOMAIN parameters |->
                   IF p \in loaded THEN Recorded(p, ReverbPresets[mNextPreset][p])[p]
                   ELSE parameters[p]]
      levels == {"roomLevel", "level"} \cap loaded
      level  == IF levels = {} THEN reverbLibrary.level
                ELSE InLibrary(record, CHOOSE p \in levels : TRUE, reverbLibrary).level
  IN
  /\ parameters' = record
  /\ reverbLibrary' =
       [level |-> level,
        T60 |-> IF "decayTime" \in loaded THEN record["decayTime"] ELSE reverbLibrary.T60,
        roomSize |-> IF "density" \in loaded
                     THEN InLibrary(record, "density", reverbLibrary).roomSize
                     ELSE reverbLibrary.roomSize]
  /\ levelSet' = (levelSet \/ levels # {})
  /\ asPreset' = (refused = {})

\* process: a bypassed reverb copies, or is silent, and loads no preset.
ProcessReverb ==
  /\ parameters["bypass"] = 0 /\ presetType /\ mNextPreset # mPreset
  /\ mPreset' = mNextPreset
  /\ IF mNextPreset = NoPreset THEN asPreset' = FALSE /\ UNCHANGED <<parameters, reverbLibrary, levelSet>>
     ELSE \E refused \in SUBSET LibraryParams : LoadPreset(refused)
  /\ UNCHANGED <<presetType, reverbOn, mNextPreset>>

\* What getParameter answers: the preset asked for, and of the reflections only
\* whether there are any (their getter returns a bool).
GetReverbParameter(p) ==
  IF p = "preset" THEN mNextPreset
  ELSE IF p = "reflectionsDelay" THEN (IF parameters[p] = 0 THEN 0 ELSE 1)
  ELSE parameters[p]

ReverbNext ==
  \/ \E on \in BOOLEAN : SetEnabled(on)
  \/ \E p \in DOMAIN EnvironmentValues : \E value \in EnvironmentValues[p] :
       SetEnvironmentalReverb(p, value)
  \/ \E preset \in DOMAIN ReverbPresets \cup {NoPreset} : SetPresetReverb(preset)
  \/ ProcessReverb

ReverbSpec == ReverbInit /\ [][ReverbNext]_reverbVars
-----------------------------------------------------------------------------
(* What the library plays is what getParameter answers, in whatever order     *)
(* parameters and presets are set, loaded and refused: its level is that of   *)
(* both levels together as soon as one was taken, its decay time the one      *)
(* recorded, and a preset that was loaded without a refusal is in force with  *)
(* all its parameters until one of them is set (ReverbContext.cpp:160-305).   *)
ReverbAsAnswered ==
  /\ levelSet => reverbLibrary.level =
       ConvertLevel(GetReverbParameter("roomLevel") + GetReverbParameter("level") - MaxReverbLevel)
  /\ reverbLibrary.T60 = GetReverbParameter("decayTime")
  /\ asPreset => \A p \in LibraryParams : parameters[p] = Recorded(p, ReverbPresets[mPreset][p])[p]
=============================================================================
