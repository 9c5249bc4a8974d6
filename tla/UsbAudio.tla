------------------------------ MODULE UsbAudio ------------------------------
(* The USB module (src/audio/usb): its streams, and the mixers of its cards.  *)
EXTENDS Naturals, FiniteSets

-----------------------------------------------------------------------------
(* src/audio/usb/StreamUsb.cpp: the stream of the USB module, which plays     *)
(* through all the devices connected to it at once.  The module stores the    *)
(* devices from a binder thread; the worker reads them when it opens them.    *)

CONSTANT UsbDevices     \* <card, device> addresses; some may not be ALSA addresses

VARIABLES
  usbIsInput,
  isConnected,                \* of the worker: StreamCommonImpl::setConnectedDevices
  storing,                    \* devices that setConnectedDevices is about to store
  mConnectedDeviceProfiles,
  mConnectedDevicesUpdated,
  usbWorker,                  \* "idle", "open": getDeviceProfiles has returned
  usbProfiles,                \* what it returned
  usbOpened                   \* mAlsaDeviceProxies

usbVars == <<usbIsInput, isConnected, storing, mConnectedDeviceProfiles,
             mConnectedDevicesUpdated, usbWorker, usbProfiles, usbOpened>>

Nothing == {"nothing"}

UsbInit ==
  /\ usbIsInput \in BOOLEAN /\ isConnected = FALSE /\ storing = Nothing
  /\ mConnectedDeviceProfiles = {} /\ mConnectedDevicesUpdated = FALSE
  /\ usbWorker = "idle" /\ usbProfiles = {} /\ usbOpened = {}
-----------------------------------------------------------------------------
\* setConnectedDevices: an input takes one device; an address that is not an
\* ALSA address is refused.  The worker hears first that it is connected.
UsbSetConnectedDevices(devices) ==
  /\ storing = Nothing /\ (usbIsInput => Cardinality(devices) <= 1)
  /\ isConnected' = (devices # {}) /\ storing' = devices
  /\ UNCHANGED <<usbIsInput, mConnectedDeviceProfiles, mConnectedDevicesUpdated,
                 usbWorker, usbProfiles, usbOpened>>

StoreProfiles ==
  /\ storing # Nothing /\ storing' = Nothing
  /\ mConnectedDeviceProfiles' = storing /\ mConnectedDevicesUpdated' = TRUE
  /\ UNCHANGED <<usbIsInput, isConnected, usbWorker, usbProfiles, usbOpened>>

\* start: getDeviceProfiles, both under the lock
GetDeviceProfiles ==
  /\ usbWorker = "idle" /\ usbOpened = {} /\ usbWorker' = "open"
  /\ usbProfiles' = mConnectedDeviceProfiles /\ mConnectedDevicesUpdated' = FALSE
  /\ UNCHANGED <<usbIsInput, isConnected, storing, mConnectedDeviceProfiles, usbOpened>>

\* All of them open, or none is left open.
OpenDevices ==
  /\ usbWorker = "open" /\ usbWorker' = "idle" /\ usbProfiles' = {}
  /\ usbOpened' \in {usbProfiles, {}}
  /\ UNCHANGED <<usbIsInput, isConnected, storing, mConnectedDeviceProfiles,
                 mConnectedDevicesUpdated>>

\* standby, shutdown
UsbTeardown ==
  /\ usbWorker = "idle" /\ usbOpened' = {}
  /\ UNCHANGED <<usbIsInput, isConnected, storing, mConnectedDeviceProfiles,
                 mConnectedDevicesUpdated, usbWorker, usbProfiles>>

\* transfer moves frames only between the open devices and a worker that finds
\* that they are not outdated.
Transfers ==
  usbWorker = "idle" /\ isConnected /\ usbOpened # {} /\ ~mConnectedDevicesUpdated

UsbNext ==
  \/ \E devices \in SUBSET UsbDevices : UsbSetConnectedDevices(devices)
  \/ StoreProfiles \/ GetDeviceProfiles \/ OpenDevices \/ UsbTeardown

UsbSpec == UsbInit /\ [][UsbNext]_usbVars
-----------------------------------------------------------------------------
(* "'setConnectedDevices' was called. I/O will be restarted" (StreamUsb.cpp   *)
(* :65): frames go to the devices that are connected now, all of them and no  *)
(* others, or to none, though the devices may change at any step of a start.  *)
FramesReachConnected == Transfers => usbOpened = mConnectedDeviceProfiles

-----------------------------------------------------------------------------
(* The master mute of the USB module: Module::setMasterMute (Module.cpp),     *)
(* src/audio/usb/UsbAlsaMixerControl.cpp with a mixer for each card, and      *)
(* src/audio/alsa/Mixer.cpp, which writes the values of a control one after   *)
(* the other.  Master volume works the same way.  Like all calls of a module, *)
(* which has no lock, these come one at a time.                               *)

CONSTANTS UsbCards,      \* numbers of sound cards
          Channels,      \* values of the control of a card
          WithoutSwitch, \* cards that have no such control
          Broken         \* <<card, channel>>: values that cannot be written

ASSUME MixerAssumption ==
  /\ UsbCards \subseteq Nat /\ Channels \subseteq Nat
  /\ WithoutSwitch \subseteq UsbCards /\ Broken \subseteq UsbCards \X Channels

VARIABLES
  mMasterMute,
  usbPorts,              \* connected device ports: a headset has two, on one card
  mMixerControls,        \* cards that have a mixer
  switches               \* per card and channel: is the sound on

mixerVars == <<mMasterMute, usbPorts, mMixerControls, switches>>

Ports == UsbCards \X {"in", "out"}

MixersInit ==
  /\ mMasterMute = FALSE /\ usbPorts = {} /\ mMixerControls = {}
  /\ switches \in [UsbCards -> [Channels -> BOOLEAN]]

\* findControl, setMixerControlValue: the first value that fails ends it.
Works(card) == card \notin WithoutSwitch /\ \A ch \in Channels : <<card, ch>> \notin Broken

Written(values, card, muted) ==
  [ch \in Channels |->
     IF card \notin WithoutSwitch /\ \A before \in Channels :
          before <= ch => <<card, before>> \notin Broken
     THEN ~muted ELSE values[ch]]

\* UsbAlsaMixerControl::setMasterMute: the first card that fails ends it.
MuteAll(values, muted) ==
  [card \in UsbCards |->
     IF card \in mMixerControls /\ \A before \in mMixerControls : before < card => Works(before)
     THEN Written(values[card], card, muted) ELSE values[card]]
-----------------------------------------------------------------------------
\* A device whose mixer opens gets the value of the module, if it takes it; a
\* mixer that the card has already stays.
UsbConnect(port) ==
  /\ port \notin usbPorts /\ usbPorts' = usbPorts \cup {port}
  /\ \/ /\ switches' = [switches EXCEPT ![port[1]] = Written(@, port[1], mMasterMute)]
        /\ mMixerControls' = mMixerControls \cup {port[1]}
     \/ UNCHANGED <<switches, mMixerControls>>
  /\ UNCHANGED mMasterMute

\* The mixer goes with either port of its card.  A card that is unplugged comes
\* back with values of its own.
UsbDisconnect(port) ==
  /\ port \in usbPorts /\ usbPorts' = usbPorts \ {port}
  /\ mMixerControls' = mMixerControls \ {port[1]}
  /\ IF \E other \in usbPorts' : other[1] = port[1] THEN UNCHANGED switches
     ELSE \E values \in [Channels -> BOOLEAN] : switches' = [switches EXCEPT ![port[1]] = values]
  /\ UNCHANGED mMasterMute

\* Mutant: a call that failed half-way is not taken back.
SetMasterMuteOnly(muted) ==
  /\ switches' = MuteAll(switches, muted)
  /\ mMasterMute' = IF \A card \in mMixerControls : Works(card) THEN muted ELSE mMasterMute
  /\ UNCHANGED <<usbPorts, mMixerControls>>

\* Module::setMasterMute: when a card fails, the value before is set again.
SetMasterMute(muted) ==
  /\ IF \A card \in mMixerControls : Works(card)
     THEN switches' = MuteAll(switches, muted) /\ mMasterMute' = muted
     ELSE /\ switches' = MuteAll(MuteAll(switches, muted), mMasterMute)
          /\ UNCHANGED mMasterMute
  /\ UNCHANGED <<usbPorts, mMixerControls>>

MixersNext ==
  \/ \E port \in Ports : UsbConnect(port) \/ UsbDisconnect(port)
  \/ \E muted \in BOOLEAN : SetMasterMute(muted)

MixersSpec == MixersInit /\ [][MixersNext]_mixerVars
-----------------------------------------------------------------------------
(* The module and its cards agree: a card that takes the value is muted when  *)
(* getMasterMute says so, also after calls that failed at another card, or at *)
(* the second value of one, and whatever was connected since                  *)
(* (Module.cpp:1465-1478, UsbAlsaMixerControl.cpp:34-62).                     *)
MutedTogether ==
  \A card \in mMixerControls : Works(card) =>
    \A ch \in Channels : switches[card][ch] = ~mMasterMute
=============================================================================
