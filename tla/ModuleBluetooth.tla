--------------------------- MODULE ModuleBluetooth ---------------------------
(* src/audio/bluetooth/ModuleBluetooth.cpp: how a stream comes by its         *)
(* Bluetooth port.  The proxy of a device is made when the device connects or *)
(* its port is configured, kept in a cache, tied to the handle of a mix port  *)
(* while a patch is checked, and given to the stream that is opened with that *)
(* handle.  What the generic module does beside is in AudioModule.tla; its    *)
(* caller makes one call at a time.                                           *)
EXTENDS Integers, Sequences, SequencesExt

CONSTANTS BtDevices,   \* headsets
          Handles,     \* of mix ports, that the client gives
          PcmConfigs,  \* configurations that the Bluetooth stack may load
          MaxPorts, MaxProxies  \* bounds on the ports and proxies of a behaviour

ASSUME BtAssumption == MaxPorts \in Nat /\ MaxProxies \in Nat /\ "gone" \notin BtDevices

VARIABLES
  devicePorts,  \* the device of each connected port, by its id, or "gone"
  mixConfigs,   \* the configuration of each mix port
  btPatches,    \* the device port at the other end of each mix port, or 0
  mProxies,     \* the cached proxy of each device port
  mConnections, \* the device port that a handle was last checked for, or 0
  btStreams,    \* the proxy of each open stream, or 0
  proxies       \* every proxy that was made: its port and its configuration

btModuleVars ==
  <<devicePorts, mixConfigs, btPatches, mProxies, mConnections, btStreams, proxies>>

Ids        == DOMAIN devicePorts
Connected  == {id \in Ids : devicePorts[id] # "gone"}
Closed     == -1
None       == 0

BtModuleInit ==
  /\ devicePorts = <<>> /\ proxies = <<>> /\ mProxies = <<>>
  /\ mixConfigs \in [Handles -> PcmConfigs]
  /\ btPatches = [h \in Handles |-> None] /\ mConnections = [h \in Handles |-> None]
  /\ btStreams = [h \in Handles |-> Closed]

-----------------------------------------------------------------------------
\* createProxy: the port registers and loads the configuration that the stack has.
CreateProxy(id) ==
  \E config \in PcmConfigs : proxies' = Append(proxies, [port |-> id, config |-> config])

\* connectExternalDevice and populateConnectedDevicePort.  A port that cannot be
\* registered, after kCreateProxyRetries, or has no configuration fails the call;
\* its id is not used again.
ConnectBtDevice(device) ==
  /\ \A id \in Ids : devicePorts[id] # device
  /\ Len(devicePorts) < MaxPorts /\ Len(proxies) < MaxProxies
  /\ \/ /\ devicePorts' = Append(devicePorts, device)
        /\ CreateProxy(Len(devicePorts) + 1)
        /\ mProxies' = Append(mProxies, Len(proxies) + 1)
     \/ /\ devicePorts' = Append(devicePorts, "gone")
        /\ mProxies' = Append(mProxies, None)
        /\ UNCHANGED proxies
  /\ UNCHANGED <<mixConfigs, btPatches, mConnections, btStreams>>

\* disconnectExternalDevice and onExternalDeviceConnectionChanged: only a port
\* that is in no patch.  The connections that name it stay.
DisconnectBtDevice(id) ==
  /\ id \in Connected /\ \A h \in Handles : btPatches[h] # id
  /\ devicePorts' = [devicePorts EXCEPT ![id] = "gone"]
  /\ mProxies' = [mProxies EXCEPT ![id] = None]
  /\ UNCHANGED <<mixConfigs, btPatches, mConnections, btStreams, proxies>>

\* setAudioPortConfig of a device port: findOrCreateProxy.  A default
\* configuration is used where no proxy can be made.
SetDevicePortConfig(id) ==
  /\ id \in Connected /\ mProxies[id] = None /\ Len(proxies) < MaxProxies
  /\ CreateProxy(id)
  /\ mProxies' = [mProxies EXCEPT ![id] = Len(proxies) + 1]
  /\ UNCHANGED <<devicePorts, mixConfigs, btPatches, mConnections, btStreams>>

SetMixPortConfig(h, config) ==
  /\ btStreams[h] = Closed /\ btPatches[h] = None
  /\ mixConfigs' = [mixConfigs EXCEPT ![h] = config]
  /\ UNCHANGED <<devicePorts, btPatches, mProxies, mConnections, btStreams, proxies>>

\* setAudioPatch and checkAudioPatchEndpointsMatch: refused if the proxy has
\* another configuration.  Without a proxy nothing is compared or recorded, and a
\* connection that the handle has already is not replaced.  The module may refuse
\* the patch for other reasons afterwards.
SetBtPatch(h, id) ==
  /\ id \in Connected /\ btPatches[h] # id
  /\ mProxies[id] # None => proxies[mProxies[id]].config = mixConfigs[h]
  /\ mConnections' = IF mProxies[id] # None /\ mConnections[h] = None
                     THEN [mConnections EXCEPT ![h] = id] ELSE mConnections
  /\ btPatches' = [btPatches EXCEPT ![h] = id] \/ UNCHANGED btPatches
  /\ UNCHANGED <<devicePorts, mixConfigs, mProxies, btStreams, proxies>>

ResetBtPatch(h) ==
  /\ btPatches[h] # None
  /\ btPatches' = [btPatches EXCEPT ![h] = None]
  /\ UNCHANGED <<devicePorts, mixConfigs, mProxies, mConnections, btStreams, proxies>>

\* Mutant: the proxy stays in the cache.
FetchShared(h) ==
  /\ mConnections' = [mConnections EXCEPT ![h] = None]
  /\ UNCHANGED mProxies

\* What fetchAndCheckProxy takes from the cache.
Fetched(h) == IF mConnections[h] = None THEN None ELSE mProxies[mConnections[h]]

Fetch(h) ==
  /\ mConnections' = [mConnections EXCEPT ![h] = None]
  /\ mProxies' = IF Fetched(h) = None THEN mProxies
                 ELSE [mProxies EXCEPT ![mConnections[h]] = None]

\* createInputStream and createOutputStream: a stream without a proxy is opened
\* and plays to nobody; one whose proxy has another configuration is refused, and
\* the proxy is lost, as it is if the stream cannot be made.
OpenBtStream(h) ==
  /\ btStreams[h] = Closed
  /\ Fetch(h)
  /\ \/ /\ Fetched(h) # None => proxies[Fetched(h)].config = mixConfigs[h]
        /\ btStreams' = [btStreams EXCEPT ![h] = Fetched(h)]
     \/ UNCHANGED btStreams
  /\ UNCHANGED <<devicePorts, mixConfigs, btPatches, proxies>>

CloseBtStream(h) ==
  /\ btStreams[h] # Closed
  /\ btStreams' = [btStreams EXCEPT ![h] = Closed]
  /\ UNCHANGED <<devicePorts, mixConfigs, btPatches, mProxies, mConnections, proxies>>

BtModuleNext ==
  \/ \E d \in BtDevices : ConnectBtDevice(d)
  \/ \E id \in Ids : DisconnectBtDevice(id) \/ SetDevicePortConfig(id)
  \/ \E h \in Handles : ResetBtPatch(h) \/ OpenBtStream(h) \/ CloseBtStream(h)
  \/ \E h \in Handles, config \in PcmConfigs : SetMixPortConfig(h, config)
  \/ \E h \in Handles, id \in Ids : SetBtPatch(h, id)

BtModuleSpec == BtModuleInit /\ [][BtModuleNext]_btModuleVars

-----------------------------------------------------------------------------
(* Properties *)

\* A proxy, which is a state machine with one waiter (DevicePortProxy.tla), is in
\* one place: in the cache of a port that is connected, or with one stream.  No
\* order of connecting, configuring, patching and opening shares it, or opens a
\* stream over the proxy of a port that had gone before.
ProxyInOnePlace ==
  /\ \A id \in Ids \ Connected : mProxies[id] = None
  /\ \A g, h \in Handles : g # h /\ btStreams[g] > 0 => btStreams[h] # btStreams[g]
  /\ \A h \in Handles, id \in Ids : btStreams[h] > 0 => mProxies[id] # btStreams[h]

\* A stream that is opened over a patch has a proxy: "not having a proxy is OK, it
\* may happen in VTS tests when streams are opened on unconnected mix ports"
\* (ModuleBluetooth.cpp, fetchAndCheckProxy).
ConnectedHasProxy ==
  [][\A h \in Handles :
       btStreams[h] = Closed /\ btStreams'[h] # Closed /\ btPatches[h] # None
         => btStreams'[h] # None]_btModuleVars
=============================================================================
