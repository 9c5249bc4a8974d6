----------------------------- MODULE AudioPorts -----------------------------
(***************************************************************************)
(* The ports of an audio module: the mix ports and device ports of its     *)
(* configuration, the device ports that external devices get when they are *)
(* connected, the routes between ports, and the port configs that clients  *)
(* make of them.                                                           *)
(*                                                                         *)
(* As in the code, ports and port configs are named by numbers out of one  *)
(* counter, and the config that a permanent device port has from the       *)
(* beginning has the number of the port.  Of the profiles of a port it is  *)
(* kept whether there are only dynamic ones (hasDynamicProfilesOnly), of a *)
(* port config its port.  A call with arguments that the code refuses at   *)
(* once changes nothing and is not a step.                                 *)
(***************************************************************************)
EXTENDS Naturals, FiniteSets, Functions

CONSTANTS
  MixPorts,         \* the mix ports of the module
  DevicePorts,      \* its device ports: those that are always there,
  Templates,        \*   and the templates for external devices
  Unfilled,         \* the ports that have dynamic profiles only
  InitialRoutes,    \* the routes of the configuration
  Addresses,        \* the addresses of external devices
  FirstId,          \* the first number that is free,
  MaxId             \* and the bound on numbers

InitialPorts == MixPorts \cup DevicePorts \cup Templates

AudioRoute == [sources : SUBSET Nat, sink : Nat, exclusive : BOOLEAN]

\* A route leads from mix ports to a device port, or the other way.
MixToDevice(r) == r.sources \subseteq MixPorts /\ r.sink \notin MixPorts

DeviceToMix(r) == r.sources \cap MixPorts = {} /\ r.sink \in MixPorts

ASSUME PortsAssumption ==
  /\ FirstId \in Nat \ {0} /\ MaxId \in Nat
  /\ InitialPorts \subseteq 1 .. (FirstId - 1)
  /\ MixPorts \cap (DevicePorts \cup Templates) = {}
  /\ DevicePorts \cap Templates = {}
  /\ Unfilled \subseteq InitialPorts
  /\ InitialRoutes \subseteq AudioRoute
  /\ \A r \in InitialRoutes :
       /\ r.sources \cup {r.sink} \subseteq InitialPorts
       /\ MixToDevice(r) \/ DeviceToMix(r)

VARIABLES
  ports,        \* the ports that exist
  bare,         \* those with dynamic profiles only
  audioRoutes,  \* the routes
  connected,    \* mConnectedDevicePorts: what device each connected port is
                \* for, and the mix ports populated from it
  portConfigs,  \* the port configs, and the port of each
  nextPortId    \* the counter for ports and port configs

portVars == <<ports, bare, audioRoutes, connected, portConfigs, nextPortId>>

ConnectedPort == [device : Templates \X Addresses, mixes : SUBSET MixPorts]

PortsTypeOK ==
  /\ nextPortId \in Nat \ {0}
  /\ InitialPorts \subseteq ports /\ ports \subseteq 1 .. (nextPortId - 1)
  /\ bare \subseteq ports
  /\ audioRoutes \subseteq [sources : SUBSET ports, sink : ports, exclusive : BOOLEAN]
  /\ \A r \in audioRoutes : MixToDevice(r) \/ DeviceToMix(r)
  /\ DOMAIN connected \subseteq ports \ InitialPorts
  /\ \A c \in DOMAIN connected : connected[c] \in ConnectedPort
  /\ DOMAIN portConfigs \subseteq 1 .. (nextPortId - 1)
  /\ \A c \in DOMAIN portConfigs : portConfigs[c] \in ports

PortsInit ==
  /\ ports = InitialPorts
  /\ bare = Unfilled
  /\ audioRoutes = InitialRoutes
  /\ connected = [c \in {} |-> {}]
  /\ portConfigs = [c \in DevicePorts |-> c]
  /\ nextPortId = FirstId

\* findById: the config is one of the configuration.
ConfigExists(c) == c \in DOMAIN portConfigs

PortsOf(configs) == {portConfigs[c] : c \in configs}

IsMix(c) == portConfigs[c] \in MixPorts

----------------------------------------------------------------------------
(* External devices. *)

RoutesOf(port) == {r \in audioRoutes : r.sink = port \/ port \in r.sources}

RoutablePorts(port) ==
  UNION {IF r.sink = port THEN r.sources ELSE {r.sink} : r \in RoutesOf(port)}

IsConnected(device) == \E c \in DOMAIN connected : connected[c].device = device

PopulatedFromAny(m) == \E c \in DOMAIN connected : m \in connected[c].mixes

\* The mix ports that the new device populates, or that an earlier one has.
\* Mutant: the ones that an earlier device has populated are left to it.
NewMixesOnly(port, dynamic) ==
  IF dynamic THEN {} ELSE {m \in RoutablePorts(port) : m \in bare}

MixesFrom(port, dynamic) ==
  IF dynamic THEN {}
  ELSE {m \in RoutablePorts(port) : m \in bare \/ PopulatedFromAny(m)}

\* A new port takes the template's place in the routes that it is a source of,
\* and gets copies of those that it is the sink of.
RoutesWith(new, port) ==
  {IF port \in r.sources THEN [r EXCEPT !.sources = @ \cup {new}] ELSE r : r \in audioRoutes}
    \cup {[r EXCEPT !.sink = new] : r \in {q \in audioRoutes : q.sink = port}}

\* The number of the new port is taken before the module populates the port,
\* which may fail, or leave it with dynamic profiles only.
ConnectFails(template, address) ==
  /\ ~IsConnected(<<template, address>>)
  /\ nextPortId < MaxId
  /\ nextPortId' = nextPortId + 1
  /\ UNCHANGED <<ports, bare, audioRoutes, connected, portConfigs>>

Connect(template, address, populated) ==
  LET dynamic == template \in bare /\ ~populated
      mixes   == MixesFrom(template, dynamic)
      device  == [device |-> <<template, address>>, mixes |-> mixes]
  IN
  /\ ~IsConnected(<<template, address>>)
  /\ dynamic => RoutablePorts(template) \cap bare = {}
  /\ nextPortId < MaxId
  /\ nextPortId' = nextPortId + 1
  /\ ports' = ports \cup {nextPortId}
  /\ bare' = (bare \ mixes) \cup (IF dynamic THEN {nextPortId} ELSE {})
  /\ audioRoutes' = RoutesWith(nextPortId, template)
  /\ connected' = [c \in DOMAIN connected \cup {nextPortId} |->
                     IF c = nextPortId THEN device ELSE connected[c]]
  /\ UNCHANGED portConfigs

ConnectExternalDevice ==
  \E template \in Templates, address \in Addresses :
    \/ ConnectFails(template, address)
    \/ \E populated \in BOOLEAN : Connect(template, address, populated)

\* The mix ports that no other connected device populates.
MixPortsToClear(port) ==
  connected[port].mixes
    \ UNION {connected[c].mixes : c \in DOMAIN connected \ {port}}

RoutesWithout(port) ==
  {[r EXCEPT !.sources = @ \ {port}] : r \in {q \in audioRoutes : q.sink # port}}

HasNoConfig(port) == \A c \in DOMAIN portConfigs : portConfigs[c] # port

DisconnectExternalDevice(port) ==
  /\ HasNoConfig(port)
  /\ ports' = ports \ {port}
  /\ bare' = (bare \ {port}) \cup MixPortsToClear(port)
  /\ audioRoutes' = RoutesWithout(port)
  /\ connected' = Restrict(connected, DOMAIN connected \ {port})
  /\ UNCHANGED <<portConfigs, nextPortId>>

----------------------------------------------------------------------------
(* Port configs. *)

\* A new config.  Only device ports can do without a profile.
SetAudioPortConfig(port) ==
  /\ port \in bare => port \notin MixPorts
  /\ nextPortId < MaxId
  /\ nextPortId' = nextPortId + 1
  /\ portConfigs' = [c \in DOMAIN portConfigs \cup {nextPortId} |->
                       IF c = nextPortId THEN port ELSE portConfigs[c]]
  /\ UNCHANGED <<ports, bare, audioRoutes, connected>>

\* The config of the configuration is reset to what it was, others are erased.
RemovePortConfig(c) ==
  /\ portConfigs' =
       IF c \in DevicePorts THEN portConfigs
       ELSE Restrict(portConfigs, DOMAIN portConfigs \ {c})
  /\ UNCHANGED <<ports, bare, audioRoutes, connected, nextPortId>>
=============================================================================
