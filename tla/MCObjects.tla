------------------------------ MODULE MCObjects ------------------------------
(* Objects whose state outlives many calls, each called by one thread at a    *)
(* time or as its locks allow: the effect factory and the contexts of the     *)
(* effect libraries, HDMI CEC, the proxies of the Bluetooth module, and the   *)
(* port configs of every type of module.  They share nothing: a behaviour is  *)
(* one of the object that "part" names, while the others are at rest in an    *)
(* initial state.                                                             *)
EXTENDS EffectFactory, BundleContext, BundleParameters, Reverb, Visualizer,
        DynamicsProcessing, HdmiCec, ModuleBluetooth, PortConfigs

CONSTANT Parts
VARIABLE part

MCLevels  == {-10, 0}
MCRemotes == {{}, {"speaker"}, {"headphone"}, {"speaker", "headphone"}, {"submix"}}

\* Two bands of the equalizer, and of its presets the two that differ in sign.
MCSoftPresets == 0 :> (1 :> 3 @@ 2 :> 0) @@ 1 :> (1 :> 5 @@ 2 :> -2)
MCBandLevels  == {-250, 500}
MCVolumes     == {-20}

MCLevelMapping == <<-12000, -4000, -2500, -2000>>
MCReverbPresets ==
  "room"  :> [roomLevel |-> -400, level |-> -600, decayTime |-> 1100, density |-> 700] @@
  "plate" :> [roomLevel |-> -1000, level |-> 0, decayTime |-> 1300, density |-> 1000]
MCEnvironmentValues ==
  [roomLevel |-> {-2000, 0}, level |-> {-500}, decayTime |-> {500, 20000}, density |-> {0},
   delay |-> {40}, bypass |-> {0, 1}, reflectionsDelay |-> {20}]

\* A band for the lower bins, the same without effect, and one for all.
MCEqBands ==
  {[enable |-> TRUE, cutoff |-> 0, gain |-> 3], [enable |-> FALSE, cutoff |-> 1, gain |-> 3],
   [enable |-> TRUE, cutoff |-> 2, gain |-> 5]}
MCArchitectures == {[limiterInUse |-> TRUE, byFrequency |-> TRUE]}

MCDeviceProfiles == {
  <<Profile("pcm16", <<"stereo">>, <<44100, 48000>>), Profile("pcm24", <<"stereo">>, <<44100, 48000>>)>>,
  <<Profile("pcm16", <<"mono", "index24">>, <<48000>>)>> }
MCMaxNew == [t \in Types |-> 2]
-----------------------------------------------------------------------------
libraryVars == <<bundleVars, parameterVars, reverbVars, visualizerVars, equalizerVars, dynamicsVars>>
moduleVars  == <<factoryVars, cecVars, btModuleVars, portConfigVars>>

MCInit ==
  /\ part \in Parts
  /\ (part = "factory" \/ (mEffectLibMap = Uuids))
  /\ (part = "bundle" \/ (mType = "bass"))
  /\ (part = "parameters" \/ (effectType = "equalizer"))
  /\ (part = "reverb" \/ (presetType = TRUE))
  /\ (part = "visualizer" \/ (sinceUpdate = Never))
  /\ (part = "equalizer" \/ (stage = "pre"))
  /\ (part = "dynamics" \/ (mChannelCount = 1))
  /\ (part = "btmodule" \/ (mixConfigs = [h \in Handles |-> "cd"]))
  /\ (part = "configs" \/ (type = "R_SUBMIX" /\ simulated = FALSE))
  /\ FactoryInit /\ BundleInit /\ ParametersInit /\ ReverbInit /\ VisualizerInit
  /\ EqualizerInit /\ DynamicsInit /\ CecInit /\ BtModuleInit /\ PortConfigsInit

LibraryNext ==
  \/ /\ part = "bundle" /\ BundleNext
     /\ UNCHANGED <<parameterVars, reverbVars, visualizerVars, equalizerVars, dynamicsVars>>
  \/ /\ part = "parameters" /\ ParametersNext
     /\ UNCHANGED <<bundleVars, reverbVars, visualizerVars, equalizerVars, dynamicsVars>>
  \/ /\ part = "reverb" /\ ReverbNext
     /\ UNCHANGED <<bundleVars, parameterVars, visualizerVars, equalizerVars, dynamicsVars>>
  \/ /\ part = "visualizer" /\ VisualizerNext
     /\ UNCHANGED <<bundleVars, parameterVars, reverbVars, equalizerVars, dynamicsVars>>
  \/ /\ part = "equalizer" /\ EqualizerNext
     /\ UNCHANGED <<bundleVars, parameterVars, reverbVars, visualizerVars, dynamicsVars>>
  \/ /\ part = "dynamics" /\ DynamicsNext
     /\ UNCHANGED <<bundleVars, parameterVars, reverbVars, visualizerVars, equalizerVars>>

ModuleNext ==
  \/ part = "factory" /\ FactoryNext /\ UNCHANGED <<cecVars, btModuleVars, portConfigVars>>
  \/ part = "cec" /\ CecNext /\ UNCHANGED <<factoryVars, btModuleVars, portConfigVars>>
  \/ part = "btmodule" /\ BtModuleNext /\ UNCHANGED <<factoryVars, cecVars, portConfigVars>>
  \/ part = "configs" /\ PortConfigsNext /\ UNCHANGED <<factoryVars, cecVars, btModuleVars>>

MCNext ==
  /\ UNCHANGED part
  /\ \/ LibraryNext /\ UNCHANGED moduleVars
     \/ ModuleNext /\ UNCHANGED libraryVars

MCSpec == MCInit /\ [][MCNext]_<<part, libraryVars, moduleVars>>
-----------------------------------------------------------------------------
\* What a client reads back is what the library works with: the parameters of
\* the bundle, over its presets and levels (BundleContext.cpp:207, 462), and of
\* a reverb, over its presets (ReverbContext.cpp:264).
AnswersAgree == ParametersAgree /\ ReverbAsAnswered

\* What setAudioPortConfig suggests for a new config it takes, for every port of
\* every type of module (Module.cpp:1252-1350): in the behaviours of the port
\* configs, for it is costly to evaluate.
SuggestionsAreTaken == part = "configs" => NegotiationEnds
=============================================================================
