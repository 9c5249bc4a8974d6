---------------------------- MODULE BundleContext ----------------------------
(* libeffects/bundle/aidl/BundleContext.cpp: one effect of the bundle, which is *)
(* a type of its own, over one instance of the LVM library.  What the library   *)
(* computes is left out; what it is told is kept: the operating mode and the    *)
(* level.  Its calls are taken to succeed.  EffectImpl serialises the methods.  *)
EXTENDS Integers, FiniteSets

CONSTANTS Levels,        \* volumes a client sets, in dB
          ExitSamples,   \* mSamplesPerSecond * 0.1, in buffers of one call
          RemoteDevices  \* sets of devices that an output may have

ASSUME BundleAssumption == ExitSamples \in Nat \ {0} /\ Levels \subseteq Int

VARIABLES
  mType,
  mEnabled,
  operating,        \* the mode of the effect in the library: on or off
  mTempDisabled,    \* mBassTempDisabled or mVirtualizerTempDisabled
  mOutputDevice, mVirtualizerForcedDevice,
  mSamplesToExit, mEffectInDrain, mNumberEffectsEnabled,
  processed,        \* whether the library saw the last buffer
  mMuteEnabled, mVolumedB, mLevelSaveddB

modeVars   == <<operating, mTempDisabled, mOutputDevice, mVirtualizerForcedDevice>>
drainVars  == <<mSamplesToExit, mEffectInDrain, mNumberEffectsEnabled, processed>>
volumeVars == <<mMuteEnabled, mVolumedB, mLevelSaveddB>>
bundleVars == <<mType, mEnabled, modeVars, drainVars, volumeVars>>

BundleTypes == {"equalizer", "bass", "virtualizer", "volume"}
NoDevice    == "none"

\* isDeviceSupportedBassBoost and -Virtualizer: each device is one of these.
BassDevices == {"speaker", "carkit", "bt_speaker", "submix"}
VirtDevices == {"headset", "headphone", "bt_headphone", "usb_headset", "submix"}

SupportsType(devices) ==
  CASE mType = "bass" -> devices \subseteq BassDevices
    [] mType = "virtualizer" -> devices \subseteq VirtDevices
    [] OTHER -> TRUE

BundleInit ==
  /\ mType \in BundleTypes
  /\ mEnabled = FALSE /\ operating = FALSE /\ mTempDisabled = FALSE
  /\ mOutputDevice = {} /\ mVirtualizerForcedDevice = NoDevice
  /\ mSamplesToExit = 0 /\ mEffectInDrain = FALSE /\ mNumberEffectsEnabled = 0
  /\ processed = TRUE
  /\ mMuteEnabled = FALSE /\ mVolumedB = 0 /\ mLevelSaveddB = 0

-----------------------------------------------------------------------------
(* Enabling, disabling and processing *)

\* The volume has no tail to play: it is counted unless it drains.
StillCounted == IF mType = "volume" THEN mEffectInDrain ELSE mSamplesToExit > 0

\* Mutant: an effect that is enabled while it drains is counted again.
CountedAnew == mNumberEffectsEnabled + 1

CountedOnce == IF StillCounted THEN mNumberEffectsEnabled ELSE mNumberEffectsEnabled + 1

\* A temporarily disabled effect reports that it is enabled but does not operate.
EnableBundle ==
  /\ ~mEnabled /\ mEnabled' = TRUE
  /\ mNumberEffectsEnabled' = CountedOnce
  /\ mSamplesToExit' = IF mType = "volume" THEN 0 ELSE ExitSamples
  /\ mEffectInDrain' = FALSE
  /\ operating' = IF mType \in {"bass", "virtualizer"} /\ mTempDisabled THEN operating ELSE TRUE
  /\ UNCHANGED <<mType, processed, mTempDisabled, mOutputDevice, mVirtualizerForcedDevice, volumeVars>>

DisableBundle ==
  /\ mEnabled /\ mEnabled' = FALSE
  /\ mEffectInDrain' = TRUE
  /\ operating' = FALSE
  /\ UNCHANGED <<mType, mSamplesToExit, mNumberEffectsEnabled, processed, mTempDisabled,
                 mOutputDevice, mVirtualizerForcedDevice, volumeVars>>

\* process: the tail of a disabled effect gets shorter, and at its end the effect
\* is not counted any more.  The library gets the buffer once as many effects
\* have been called as are counted; otherwise the buffer is copied.
ProcessBundle ==
  LET left == IF mEnabled \/ mSamplesToExit <= 0 THEN mSamplesToExit ELSE mSamplesToExit - 1
      data == mEnabled \/ (mType # "volume" /\ left > 0)
      ends == mEffectInDrain /\ ~data
      counted == IF ends THEN mNumberEffectsEnabled - 1 ELSE mNumberEffectsEnabled
  IN  /\ mSamplesToExit' = left
      /\ mEffectInDrain' = (mEffectInDrain /\ ~ends)
      /\ mNumberEffectsEnabled' = counted
      /\ processed' = ((IF data THEN 1 ELSE 0) >= counted)
      /\ UNCHANGED <<mType, mEnabled, modeVars, volumeVars>>

-----------------------------------------------------------------------------
(* The devices of the output *)

SetOutputDevice ==
  /\ mOutputDevice' \in RemoteDevices
  /\ IF mType \notin {"bass", "virtualizer"} THEN UNCHANGED <<operating, mTempDisabled>>
     ELSE IF SupportsType(mOutputDevice')
     THEN /\ operating' = IF ~mEnabled THEN TRUE ELSE operating
          /\ mTempDisabled' = FALSE
     ELSE /\ operating' = IF mEnabled THEN FALSE ELSE operating
          /\ mTempDisabled' = TRUE
  /\ UNCHANGED <<mType, mEnabled, mVirtualizerForcedDevice, drainVars, volumeVars>>

\* setForcedDevice: a device that is not supported resets it.  (A client that sets
\* a parameter of the virtualizer on another type of effect turns that one off.)
SetForcedDevice ==
  /\ mType = "virtualizer"
  /\ \E device \in {NoDevice, "headphone", "speaker"} :
       LET supported == device \in VirtDevices
           on == mEnabled /\ (supported \/ mOutputDevice \subseteq VirtDevices)
       IN  /\ mVirtualizerForcedDevice' = IF supported THEN device ELSE NoDevice
           /\ operating' = IF on = mTempDisabled THEN on ELSE operating
           /\ mTempDisabled' = ~on
  /\ UNCHANGED <<mType, mEnabled, mOutputDevice, drainVars, volumeVars>>

-----------------------------------------------------------------------------
(* The volume *)

\* setVolumeLevel, of the volume effect and of setVolumeStereo
SetVolumeLevel ==
  /\ \E level \in Levels :
       IF mMuteEnabled THEN mLevelSaveddB' = level /\ UNCHANGED mVolumedB
       ELSE mVolumedB' = level /\ UNCHANGED mLevelSaveddB
  /\ UNCHANGED <<mType, mEnabled, modeVars, drainVars, mMuteEnabled>>

\* setVolumeMute, whatever it was before
SetVolumeMute ==
  /\ mMuteEnabled' \in BOOLEAN
  /\ IF mMuteEnabled' THEN mLevelSaveddB' = mVolumedB /\ mVolumedB' = -96
     ELSE mVolumedB' = mLevelSaveddB /\ UNCHANGED mLevelSaveddB
  /\ UNCHANGED <<mType, mEnabled, modeVars, drainVars>>

BundleNext ==
  \/ EnableBundle \/ DisableBundle \/ ProcessBundle
  \/ SetOutputDevice \/ SetForcedDevice
  \/ SetVolumeLevel \/ SetVolumeMute

BundleSpec == BundleInit /\ [][BundleNext]_bundleVars

-----------------------------------------------------------------------------
(* Properties *)

\* No buffer passes the library by: whatever the order of enabling, disabling and
\* processing, and wherever in its tail an effect is enabled again, no more
\* effects are counted than are called.  A buffer that is only copied would be
\* silence or a click in the tail.
BuffersProcessed ==
  processed /\ (mNumberEffectsEnabled = 1 <=> mEnabled \/ mEffectInDrain)

\* A bass boost that is enabled operates over every device that supports it: "if a
\* device supports bass boost and the effect has been temporarily disabled
\* previously then re-enable it" (BundleContext.cpp:349).
OperatesOnItsDevice ==
  mType = "bass" /\ mEnabled /\ mOutputDevice \subseteq BassDevices => operating
=============================================================================
