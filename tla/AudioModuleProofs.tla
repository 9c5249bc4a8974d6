------------------------- MODULE AudioModuleProofs -------------------------
(***************************************************************************)
(* Theorems about the audio module, for every configuration of ports and   *)
(* routes and any number of calls, refused ones included: the types, what  *)
(* the index of patches tells of the patches and their ends, the profiles  *)
(* of mix ports, and the devices that streams know.                        *)
(***************************************************************************)
EXTENDS AudioModule, TLAPS

Indexed(p) == \E entry \in mPatches : entry[2] = p

\* An entry names a patch and one of its port configs or ports.
IndexSound ==
  \A entry \in mPatches :
    entry[2] \in DOMAIN patches /\ entry[1] \in IdsOf(patches[entry[2]])

\* A patch that is in the index is there with all its port configs and ports.
\* Until a request has been refused every patch is.
IndexComplete ==
  \A p \in DOMAIN patches :
    ~spoiled \/ Indexed(p) => IdsOf(patches[p]) \X {p} \subseteq mPatches

IInv == TypeOK /\ IndexSound /\ IndexComplete /\ PatchEndsExist

----------------------------------------------------------------------------
(* Calls that change ports, routes or port configs.                        *)

\* The configs keep their ports.
Keep(configs) ==
  configs \subseteq DOMAIN portConfigs' /\ \A c \in configs : portConfigs'[c] = portConfigs[c]

LEMMA SamePorts ==
  ASSUME NEW configs, Keep(configs) PROVE PortsOf(configs)' = PortsOf(configs)
  BY DEF Keep, PortsOf

LEMMA SameIds ==
  ASSUME NEW patch, Keep(Ends(patch)) PROVE IdsOf(patch)' = IdsOf(patch)
  BY DEF Keep, IdsOf, PortsOf, Ends

\* A call keeps the invariant if it keeps the configs that streams and patches
\* are on, and the way from the sources of a patch to its sinks.
LEMMA PortStep ==
  ASSUME IInv, PortsTypeOK', UNCHANGED moduleVars,
         Keep(DOMAIN streams),
         \A p \in DOMAIN patches : Indexed(p) =>
           /\ Keep(Ends(patches[p]))
           /\ AllowedSinkPorts(patches[p].sources) \cap PortsOf(patches[p].sinks)
                \subseteq AllowedSinkPorts(patches[p].sources)'
  PROVE IInv'
<1> USE DEF moduleVars
<1>1. TypeOK' BY DEF IInv, TypeOK, Keep, IsMix
<1>2. IndexSound'
  <2> SUFFICES ASSUME NEW entry \in mPatches
               PROVE /\ entry[2] \in DOMAIN patches
                     /\ entry[1] \in IdsOf(patches[entry[2]])'
    BY DEF IndexSound
  <2>1. entry[2] \in DOMAIN patches /\ entry[1] \in IdsOf(patches[entry[2]])
    BY DEF IInv, IndexSound
  <2>2. Keep(Ends(patches[entry[2]])) BY <2>1 DEF Indexed
  <2> QED BY <2>1, <2>2, SameIds
<1>3. IndexComplete'
  <2> SUFFICES ASSUME NEW p \in DOMAIN patches, ~spoiled \/ Indexed(p)
               PROVE  IdsOf(patches[p])' \X {p} \subseteq mPatches
    BY DEF IndexComplete, Indexed
  <2>1. IdsOf(patches[p]) \X {p} \subseteq mPatches BY DEF IInv, IndexComplete
  <2>2. CASE Indexed(p)
    <3>1. IdsOf(patches[p])' = IdsOf(patches[p]) BY <2>2, SameIds
    <3> QED BY <2>1, <3>1
  <2>3. CASE ~Indexed(p)
    <3>1. \A x \in IdsOf(patches[p]) : <<x, p>> \in mPatches BY <2>1
    <3>2. IdsOf(patches[p]) = {} BY <2>3, <3>1 DEF Indexed
    <3>3. Ends(patches[p]) = {} BY <3>2 DEF IdsOf
    <3>4. Keep(Ends(patches[p])) BY <3>3 DEF Keep
    <3>5. IdsOf(patches[p])' = IdsOf(patches[p]) BY <3>4, SameIds
    <3> QED BY <2>1, <3>5
  <2> QED BY <2>2, <2>3
<1>4. PatchEndsExist'
  <2> SUFFICES ASSUME NEW entry \in mPatches
               PROVE /\ entry[2] \in DOMAIN patches
                     /\ Ends(patches[entry[2]]) \subseteq DOMAIN portConfigs'
                     /\ PortsOf(patches[entry[2]].sinks)'
                          \subseteq AllowedSinkPorts(patches[entry[2]].sources)'
    BY DEF PatchEndsExist, Ends
  <2> DEFINE patch == patches[entry[2]]
  <2>1. /\ entry[2] \in DOMAIN patches
        /\ PortsOf(patch.sinks) \subseteq AllowedSinkPorts(patch.sources)
    BY DEF IInv, PatchEndsExist
  <2>2. /\ Keep(Ends(patch))
        /\ AllowedSinkPorts(patch.sources) \cap PortsOf(patch.sinks)
             \subseteq AllowedSinkPorts(patch.sources)'
    BY <2>1 DEF Indexed
  <2>3. Keep(patch.sinks) BY <2>2 DEF Keep, Ends
  <2>4. PortsOf(patch.sinks)' = PortsOf(patch.sinks) BY <2>3, SamePorts
  <2> QED BY <2>1, <2>2, <2>4 DEF Keep
<1> QED BY <1>1, <1>2, <1>3, <1>4 DEF IInv

\* The configs of patches in the index, and their ports.
LEMMA IndexedEnds ==
  ASSUME IInv, NEW p \in DOMAIN patches, Indexed(p)
  PROVE  /\ Ends(patches[p]) \subseteq DOMAIN portConfigs
         /\ Ends(patches[p]) \X {p} \subseteq mPatches
<1>1. PICK entry \in mPatches : entry[2] = p BY DEF Indexed
<1>2. Ends(patches[p]) \subseteq DOMAIN portConfigs BY <1>1 DEF IInv, PatchEndsExist
<1>3. IdsOf(patches[p]) \X {p} \subseteq mPatches BY DEF IInv, IndexComplete
<1> QED BY <1>2, <1>3 DEF IdsOf

\* A new number is the number of nothing yet.
LEMMA NewNumber ==
  ASSUME PortsTypeOK PROVE nextPortId \notin ports /\ nextPortId \notin DOMAIN portConfigs
  BY DEF PortsTypeOK

LEMMA ConnectFailsStep ==
  ASSUME IInv, NEW template \in Templates, NEW address \in Addresses,
         ConnectFails(template, address), UNCHANGED moduleVars
  PROVE  IInv'
<1>1. PortsTypeOK' BY DEF IInv, TypeOK, PortsTypeOK, ConnectFails
<1>2. Keep(DOMAIN streams) BY DEF IInv, TypeOK, ConnectFails, Keep
<1>3. ASSUME NEW p \in DOMAIN patches, Indexed(p)
      PROVE  /\ Keep(Ends(patches[p]))
             /\ AllowedSinkPorts(patches[p].sources)' = AllowedSinkPorts(patches[p].sources)
  <2>1. Keep(Ends(patches[p])) BY <1>3, IndexedEnds DEF Keep, ConnectFails
  <2>2. AllowedSinkPorts(patches[p].sources)' = AllowedSinkPorts(patches[p].sources)
    BY DEF AllowedSinkPorts, RoutesFrom, PortsOf, ConnectFails, moduleVars
  <2> QED BY <2>1, <2>2
<1> QED BY <1>1, <1>2, <1>3, PortStep

\* What the device populates are mix ports.
LEMMA MixesAreMixPorts ==
  ASSUME PortsTypeOK, NEW port \in Templates, NEW dynamic
  PROVE  MixesFrom(port, dynamic) \subseteq MixPorts
<1>1. port \notin MixPorts /\ Templates \subseteq InitialPorts
  BY PortsAssumption DEF InitialPorts
<1>2. ASSUME NEW r \in RoutesOf(port), r.sink = port
      PROVE  r.sources \subseteq MixPorts
  BY <1>1, <1>2 DEF RoutesOf, PortsTypeOK, MixToDevice, DeviceToMix
<1>3. ASSUME NEW r \in RoutesOf(port), r.sink # port
      PROVE  r.sink \in MixPorts
  BY <1>1, <1>3 DEF RoutesOf, PortsTypeOK, MixToDevice, DeviceToMix
<1>4. RoutablePorts(port) \subseteq MixPorts BY <1>2, <1>3 DEF RoutablePorts
<1> QED BY <1>4 DEF MixesFrom

LEMMA ConnectPortsType ==
  ASSUME PortsTypeOK, NEW template \in Templates, NEW address \in Addresses,
         NEW populated \in BOOLEAN, Connect(template, address, populated)
  PROVE  PortsTypeOK'
<1> DEFINE dynamic == template \in bare /\ ~populated
           mixes == MixesFrom(template, dynamic)
<1> USE DEF Connect
<1>1. mixes \subseteq MixPorts BY MixesAreMixPorts
<1>2. MixPorts \subseteq InitialPorts BY DEF InitialPorts
<1>3. template \in ports /\ template \notin MixPorts
  BY PortsAssumption DEF InitialPorts, PortsTypeOK
<1>4. nextPortId' = nextPortId + 1 /\ ports' = ports \cup {nextPortId} OBVIOUS
<1>5. InitialPorts \subseteq ports' /\ ports' \subseteq 1 .. (nextPortId' - 1)
  BY <1>4 DEF PortsTypeOK
<1>6. bare' \subseteq ports' BY <1>4 DEF PortsTypeOK
<1>7. nextPortId \notin MixPorts BY <1>2, NewNumber DEF PortsTypeOK
<1>8. ASSUME NEW r \in audioRoutes'
      PROVE  /\ r \in [sources : SUBSET ports', sink : ports', exclusive : BOOLEAN]
             /\ MixToDevice(r) \/ DeviceToMix(r)
  <2>1. CASE \E q \in audioRoutes : r = IF template \in q.sources
                                   THEN [q EXCEPT !.sources = @ \cup {nextPortId}] ELSE q
    <3>1. PICK q \in audioRoutes : r = IF template \in q.sources
                                   THEN [q EXCEPT !.sources = @ \cup {nextPortId}] ELSE q
      BY <2>1
    <3>2. q \in [sources : SUBSET ports, sink : ports, exclusive : BOOLEAN]
      BY DEF PortsTypeOK
    <3>3. MixToDevice(q) \/ DeviceToMix(q) BY DEF PortsTypeOK
    <3> QED BY <1>3, <1>4, <1>7, <3>1, <3>2, <3>3 DEF MixToDevice, DeviceToMix
  <2>2. CASE \E q \in audioRoutes : q.sink = template /\ r = [q EXCEPT !.sink = nextPortId]
    <3>1. PICK q \in audioRoutes : q.sink = template /\ r = [q EXCEPT !.sink = nextPortId]
      BY <2>2
    <3>2. q \in [sources : SUBSET ports, sink : ports, exclusive : BOOLEAN]
      BY DEF PortsTypeOK
    <3>3. MixToDevice(q) \/ DeviceToMix(q) BY DEF PortsTypeOK
    <3> QED BY <1>3, <1>4, <1>7, <3>1, <3>2, <3>3 DEF MixToDevice, DeviceToMix
  <2> QED BY <2>1, <2>2, <1>8 DEF RoutesWith
<1>9. DOMAIN connected' \subseteq ports' \ InitialPorts
  BY <1>4, NewNumber DEF PortsTypeOK
<1>10. \A c \in DOMAIN connected' : connected'[c] \in ConnectedPort
  BY <1>1 DEF PortsTypeOK, ConnectedPort
<1>11. /\ DOMAIN portConfigs' \subseteq 1 .. (nextPortId' - 1)
       /\ \A c \in DOMAIN portConfigs' : portConfigs'[c] \in ports'
  BY <1>4 DEF PortsTypeOK
<1>12. nextPortId' \in Nat \ {0} BY <1>4 DEF PortsTypeOK
<1>13. audioRoutes' \subseteq [sources : SUBSET ports', sink : ports', exclusive : BOOLEAN]
  BY <1>8
<1> QED BY <1>5, <1>6, <1>8, <1>9, <1>10, <1>11, <1>12, <1>13 DEF PortsTypeOK, MixToDevice, DeviceToMix

LEMMA ConnectStep ==
  ASSUME IInv, NEW template \in Templates, NEW address \in Addresses,
         NEW populated \in BOOLEAN, Connect(template, address, populated), UNCHANGED moduleVars
  PROVE  IInv'
<1>1. PortsTypeOK' BY ConnectPortsType DEF IInv, TypeOK
<1>2. portConfigs' = portConfigs /\ audioRoutes' = RoutesWith(nextPortId, template) BY DEF Connect
<1>3. Keep(DOMAIN streams) BY <1>2 DEF IInv, TypeOK, Keep
<1>4. ASSUME NEW p \in DOMAIN patches, Indexed(p)
      PROVE  /\ Keep(Ends(patches[p]))
             /\ AllowedSinkPorts(patches[p].sources) \subseteq AllowedSinkPorts(patches[p].sources)'
  <2>1. Keep(Ends(patches[p])) BY <1>2, <1>4, IndexedEnds DEF Keep
  <2>2. Keep(patches[p].sources) BY <2>1 DEF Keep, Ends
  <2>3. PortsOf(patches[p].sources)' = PortsOf(patches[p].sources)
    BY <2>2 DEF Keep, PortsOf, moduleVars
  <2>4. ASSUME NEW r \in RoutesFrom(patches[p].sources)
        PROVE  \E q \in RoutesFrom(patches[p].sources)' : q.sink = r.sink
    <3>1. r \in audioRoutes /\ r.sources \cap PortsOf(patches[p].sources) # {} BY <2>4 DEF RoutesFrom
    <3>2. r \in [sources : SUBSET ports, sink : ports, exclusive : BOOLEAN]
      BY <3>1 DEF IInv, TypeOK, PortsTypeOK
    <3> DEFINE q == IF template \in r.sources
                    THEN [r EXCEPT !.sources = @ \cup {nextPortId}] ELSE r
    <3>3. q \in audioRoutes' BY <1>2, <3>1 DEF RoutesWith
    <3>4. q.sink = r.sink /\ r.sources \subseteq q.sources BY <3>2
    <3>5. q.sources \cap PortsOf(patches[p].sources)' # {} BY <2>3, <3>1, <3>4
    <3>6. q \in RoutesFrom(patches[p].sources)' BY <3>3, <3>5 DEF RoutesFrom
    <3> QED BY <3>4, <3>6
  <2> QED BY <2>1, <2>4 DEF AllowedSinkPorts
<1> QED BY <1>1, <1>3, <1>4, PortStep

LEMMA DisconnectPortsType ==
  ASSUME PortsTypeOK, NEW port \in DOMAIN connected, DisconnectExternalDevice(port)
  PROVE  PortsTypeOK'
<1> USE DEF DisconnectExternalDevice
<1>1. port \in ports /\ port \notin InitialPorts BY DEF PortsTypeOK
<1>2. MixPortsToClear(port) \subseteq MixPorts BY DEF MixPortsToClear, PortsTypeOK, ConnectedPort
<1>3. InitialPorts \subseteq ports' /\ ports' \subseteq 1 .. (nextPortId' - 1)
  BY <1>1 DEF PortsTypeOK
<1>4. bare' \subseteq ports' BY <1>2, <1>3 DEF PortsTypeOK, InitialPorts
<1>5. ASSUME NEW r \in audioRoutes'
      PROVE  /\ r \in [sources : SUBSET ports', sink : ports', exclusive : BOOLEAN]
             /\ MixToDevice(r) \/ DeviceToMix(r)
  <2>1. PICK q \in audioRoutes : q.sink # port /\ r = [q EXCEPT !.sources = @ \ {port}]
    BY <1>5 DEF RoutesWithout
  <2>2. q \in [sources : SUBSET ports, sink : ports, exclusive : BOOLEAN]
    BY DEF PortsTypeOK
  <2>3. MixToDevice(q) \/ DeviceToMix(q) BY DEF PortsTypeOK
  <2> QED BY <2>1, <2>2, <2>3 DEF MixToDevice, DeviceToMix
<1>6. DOMAIN connected' = DOMAIN connected \ {port} BY DEF Restrict
<1>7. \A c \in DOMAIN connected' : connected'[c] = connected[c] BY DEF Restrict
<1>8. \A c \in DOMAIN portConfigs : portConfigs[c] # port BY DEF HasNoConfig
<1> QED BY <1>1, <1>3, <1>4, <1>5, <1>6, <1>7, <1>8 DEF PortsTypeOK, MixToDevice, DeviceToMix

LEMMA DisconnectStep ==
  ASSUME IInv, NEW port \in DOMAIN connected, DisconnectExternalDevice(port),
         UNCHANGED moduleVars
  PROVE  IInv'
<1>1. PortsTypeOK' BY DisconnectPortsType DEF IInv, TypeOK
<1>2. portConfigs' = portConfigs /\ audioRoutes' = RoutesWithout(port) /\ HasNoConfig(port)
  BY DEF DisconnectExternalDevice
<1>3. Keep(DOMAIN streams) BY <1>2 DEF IInv, TypeOK, Keep
<1>4. ASSUME NEW p \in DOMAIN patches, Indexed(p)
      PROVE  /\ Keep(Ends(patches[p]))
             /\ AllowedSinkPorts(patches[p].sources) \cap PortsOf(patches[p].sinks)
                  \subseteq AllowedSinkPorts(patches[p].sources)'
  <2> DEFINE sources == patches[p].sources
             sinks == patches[p].sinks
  <2>1. Keep(Ends(patches[p])) BY <1>2, <1>4, IndexedEnds DEF Keep
  <2>2. PortsOf(sources)' = PortsOf(sources) BY <1>2 DEF PortsOf, moduleVars
  <2>3. port \notin PortsOf(sources) /\ port \notin PortsOf(sinks)
    BY <1>2, <1>4, IndexedEnds DEF HasNoConfig, PortsOf, Ends
  <2>4. ASSUME NEW r \in RoutesFrom(sources), r.sink # port
        PROVE  r.sink \in AllowedSinkPorts(sources)'
    <3>1. r \in audioRoutes /\ r.sources \cap PortsOf(sources) # {} BY <2>4 DEF RoutesFrom
    <3>2. r \in [sources : SUBSET ports, sink : ports, exclusive : BOOLEAN]
      BY <3>1 DEF IInv, TypeOK, PortsTypeOK
    <3> DEFINE q == [r EXCEPT !.sources = @ \ {port}]
    <3>3. q \in audioRoutes' BY <1>2, <2>4, <3>1 DEF RoutesWithout
    <3>4. q.sink = r.sink /\ q.sources = r.sources \ {port} BY <3>2
    <3>5. q.sources \cap PortsOf(sources)' # {} BY <2>2, <2>3, <3>1, <3>4
    <3>6. q \in RoutesFrom(sources)' BY <3>3, <3>5 DEF RoutesFrom
    <3> QED BY <3>4, <3>6 DEF AllowedSinkPorts
  <2>5. AllowedSinkPorts(sources) \cap PortsOf(sinks) \subseteq AllowedSinkPorts(sources)'
    BY <2>3, <2>4 DEF AllowedSinkPorts
  <2> QED BY <2>1, <2>5
<1> QED BY <1>1, <1>3, <1>4, PortStep

\* A call that changes port configs only, and keeps those that streams and
\* patches are on.
LEMMA ConfigStep ==
  ASSUME IInv, PortsTypeOK', UNCHANGED audioRoutes, UNCHANGED moduleVars,
         Keep(DOMAIN streams),
         \A p \in DOMAIN patches : Indexed(p) => Keep(Ends(patches[p]))
  PROVE  IInv'
<1>1. ASSUME NEW p \in DOMAIN patches, Indexed(p)
      PROVE  AllowedSinkPorts(patches[p].sources)' = AllowedSinkPorts(patches[p].sources)
  <2> DEFINE sources == patches[p].sources
  <2>1. Keep(sources) BY <1>1 DEF Keep, Ends
  <2>2. PortsOf(sources)' = PortsOf(sources) BY <2>1 DEF Keep, PortsOf, moduleVars
  <2>3. RoutesFrom(sources)' = RoutesFrom(sources) BY <2>2 DEF RoutesFrom
  <2> QED BY <2>3 DEF AllowedSinkPorts
<1> QED BY <1>1, PortStep

LEMMA SetConfigStep ==
  ASSUME IInv, NEW port \in ports, SetAudioPortConfig(port), UNCHANGED moduleVars
  PROVE  IInv'
<1> USE DEF SetAudioPortConfig
<1>1. PortsTypeOK' BY DEF IInv, TypeOK, PortsTypeOK
<1>2. Keep(DOMAIN portConfigs) BY NewNumber DEF IInv, TypeOK, Keep
<1>3. Keep(DOMAIN streams) BY <1>2 DEF IInv, TypeOK, Keep
<1>4. \A p \in DOMAIN patches : Indexed(p) => Keep(Ends(patches[p]))
  BY <1>2, IndexedEnds DEF Keep
<1> QED BY <1>1, <1>3, <1>4, ConfigStep

LEMMA ResetConfigStep ==
  ASSUME IInv, NEW config \in DOMAIN portConfigs, ResetAudioPortConfig(config)
  PROVE  IInv'
<1> USE DEF ResetAudioPortConfig, RemovePortConfig
<1>1. PortsTypeOK' BY DEF IInv, TypeOK, PortsTypeOK, Restrict
<1>2. Keep(DOMAIN portConfigs \ {config}) BY DEF Keep, Restrict
<1>3. Keep(DOMAIN streams) BY <1>2 DEF IInv, TypeOK, Keep, IsUnused
<1>4. ASSUME NEW p \in DOMAIN patches, Indexed(p) PROVE Keep(Ends(patches[p]))
  <2>1. config \notin Ends(patches[p])
    <3> SUFFICES ASSUME config \in Ends(patches[p]) PROVE FALSE OBVIOUS
    <3>1. <<config, p>> \in mPatches BY <1>4, IndexedEnds
    <3> QED BY <3>1 DEF IsUnused
  <2> QED BY <1>2, <1>4, <2>1, IndexedEnds DEF Keep
<1> QED BY <1>1, <1>3, <1>4, ConfigStep

----------------------------------------------------------------------------
(* Calls that change patches and streams.                                  *)

EntriesOf(p) == {entry \in mPatches : entry[2] = p}

\* A patch whose ends exist, with a way to all its sinks.
Fine(patch) ==
  /\ patch \in Patch
  /\ Ends(patch) \subseteq DOMAIN portConfigs
  /\ PortsOf(patch.sinks) \subseteq AllowedSinkPorts(patch.sources)

\* What a call does to a patch: it leaves it as it was, sets it and enters it in
\* the index, or is refused and leaves it without an entry.
Kept(p) ==
  p \in DOMAIN patches /\ patches'[p] = patches[p] /\ EntriesOf(p)' = EntriesOf(p)

Entered(p) == Fine(patches'[p]) /\ EntriesOf(p)' = IdsOf(patches'[p]) \X {p}

Lost(p) == spoiled' /\ EntriesOf(p)' = {}

\* The index stays right if that is all that a call does to patches.
LEMMA PatchStep ==
  ASSUME IInv, TypeOK', UNCHANGED portVars, spoiled => spoiled',
         \A p \in DOMAIN patches' : Kept(p) \/ Entered(p) \/ Lost(p),
         \A entry \in mPatches' : entry[2] \in DOMAIN patches'
  PROVE  IInv'
<1> USE DEF portVars
<1>1. ASSUME NEW p \in DOMAIN patches'
      PROVE  /\ \A entry \in EntriesOf(p)' :
                  /\ entry[1] \in IdsOf(patches'[p])
                  /\ Ends(patches'[p]) \subseteq DOMAIN portConfigs
                  /\ PortsOf(patches'[p].sinks) \subseteq AllowedSinkPorts(patches'[p].sources)
             /\ ~spoiled' \/ EntriesOf(p)' # {}
                  => IdsOf(patches'[p]) \X {p} \subseteq mPatches'
  <2>1. CASE Kept(p)
    <3>1. p \in DOMAIN patches /\ patches'[p] = patches[p] /\ EntriesOf(p)' = EntriesOf(p)
      BY <2>1 DEF Kept
    <3>2. \A entry \in EntriesOf(p) :
            /\ entry[1] \in IdsOf(patches[p])
            /\ Ends(patches[p]) \subseteq DOMAIN portConfigs
            /\ PortsOf(patches[p].sinks) \subseteq AllowedSinkPorts(patches[p].sources)
      BY DEF IInv, IndexSound, PatchEndsExist, EntriesOf
    <3>3. ~spoiled \/ EntriesOf(p) # {} => IdsOf(patches[p]) \X {p} \subseteq mPatches
      BY <3>1 DEF IInv, IndexComplete, Indexed, EntriesOf
    <3>4. IdsOf(patches[p]) \X {p} \subseteq mPatches => IdsOf(patches[p]) \X {p} \subseteq EntriesOf(p)
      BY DEF EntriesOf
    <3>5. EntriesOf(p)' \subseteq mPatches' BY DEF EntriesOf
    <3> QED BY <3>1, <3>2, <3>3, <3>4, <3>5
  <2>2. CASE Entered(p)
    <3>1. EntriesOf(p)' \subseteq mPatches' BY DEF EntriesOf
    <3> QED BY <2>2, <3>1 DEF Entered, Fine
  <2>3. CASE Lost(p) BY <2>3 DEF Lost
  <2> QED BY <2>1, <2>2, <2>3
<1>2. \A entry \in mPatches' : entry \in EntriesOf(entry[2])' BY DEF EntriesOf
<1>3. IndexSound'
  <2> SUFFICES ASSUME NEW entry \in mPatches'
               PROVE  entry[2] \in DOMAIN patches' /\ entry[1] \in IdsOf(patches'[entry[2]])
    BY DEF IndexSound, IdsOf, PortsOf, Ends
  <2> QED BY <1>1, <1>2
<1>4. IndexComplete'
  <2> SUFFICES ASSUME NEW p \in DOMAIN patches', ~spoiled' \/ Indexed(p)'
               PROVE  IdsOf(patches'[p]) \X {p} \subseteq mPatches'
    BY DEF IndexComplete, IdsOf, PortsOf, Ends
  <2>1. Indexed(p)' => EntriesOf(p)' # {} BY DEF Indexed, EntriesOf
  <2> QED BY <1>1, <2>1
<1>5. PatchEndsExist'
  <2> SUFFICES ASSUME NEW entry \in mPatches'
               PROVE  /\ entry[2] \in DOMAIN patches'
                      /\ Ends(patches'[entry[2]]) \subseteq DOMAIN portConfigs
                      /\ PortsOf(patches'[entry[2]].sinks)
                           \subseteq AllowedSinkPorts(patches'[entry[2]].sources)
    BY DEF PatchEndsExist, Ends, PortsOf, AllowedSinkPorts, RoutesFrom
  <2> QED BY <1>1, <1>2
<1> QED BY <1>3, <1>4, <1>5 DEF IInv

\* Open streams are on configs of mix ports, and know ports.
StreamsOK ==
  /\ DOMAIN streams \subseteq DOMAIN portConfigs
  /\ \A c \in DOMAIN streams : IsMix(c) /\ streams[c] \subseteq Nat

LEMMA PortsAreNumbers ==
  ASSUME PortsTypeOK, NEW configs, configs \subseteq DOMAIN portConfigs
  PROVE  PortsOf(configs) \subseteq Nat
<1>1. ports \subseteq Nat BY DEF PortsTypeOK
<1>2. \A c \in DOMAIN portConfigs : portConfigs[c] \in ports BY DEF PortsTypeOK
<1> QED BY <1>1, <1>2 DEF PortsOf

\* What connections are made of.
LEMMA ConnectionsOf ==
  ASSUME NEW patch \in Patch, NEW c \in DOMAIN Connections(patch)
  PROVE  Connections(patch)[c] \subseteq Ends(patch)
<1>1. CASE patch.sources \cap DOMAIN streams # {} BY <1>1 DEF Connections, Ends
<1>2. CASE patch.sources \cap DOMAIN streams = {} /\ patch.sinks \cap DOMAIN streams # {}
  BY <1>2 DEF Connections, Ends
<1>3. CASE patch.sources \cap DOMAIN streams = {} /\ patch.sinks \cap DOMAIN streams = {}
  BY <1>3 DEF Connections, NotConnected
<1> QED BY <1>1, <1>2, <1>3

LEMMA StreamsToldType ==
  ASSUME TypeOK, UNCHANGED portVars, NEW old, NEW new, StreamsTold(old, new),
         \A c \in DOMAIN new : new[c] \subseteq DOMAIN portConfigs
  PROVE  StreamsOK'
<1> USE DEF portVars
<1>1. DOMAIN streams' = DOMAIN streams BY DEF StreamsTold
<1>2. ASSUME NEW c \in DOMAIN streams PROVE streams'[c] \subseteq Nat
  <2>1. c \in Reconnected(old, new) => PortsOf(new[c]) \subseteq Nat
    BY PortsAreNumbers DEF Reconnected, TypeOK
  <2>2. streams[c] \subseteq Nat BY DEF TypeOK
  <2> QED BY <2>1, <2>2 DEF StreamsTold
<1> QED BY <1>1, <1>2 DEF StreamsOK, TypeOK, IsMix

LEMMA RollbackType ==
  ASSUME TypeOK, UNCHANGED portVars, NEW told, NEW old, Rollback(told, old)
  PROVE  StreamsOK' /\ fatal' \in BOOLEAN
<1> USE DEF portVars
<1>1. fatal' \in BOOLEAN BY DEF Rollback, RollbackFatal
<1>2. CASE RollbackFatal(told, old) BY <1>1, <1>2 DEF Rollback, StreamsOK, TypeOK, IsMix
<1>3. CASE ~RollbackFatal(told, old)
  <2>1. DOMAIN streams' = DOMAIN streams BY <1>3 DEF Rollback
  <2>2. ASSUME NEW c \in DOMAIN streams PROVE streams'[c] \subseteq Nat
    <3>1. c \in told /\ c \in DOMAIN old => old[c] \subseteq DOMAIN portConfigs
      BY <1>3 DEF RollbackFatal, ConfigExists
    <3>2. c \in told => RolledBack(c, old) \subseteq Nat
      BY <3>1, PortsAreNumbers DEF RolledBack, TypeOK
    <3>3. streams[c] \subseteq Nat BY DEF TypeOK
    <3> QED BY <1>3, <3>2, <3>3 DEF Rollback
  <2> QED BY <1>1, <2>1, <2>2 DEF StreamsOK, TypeOK, IsMix
<1> QED BY <1>1, <1>2, <1>3

\* The types from their parts.
LEMMA TypeFrom ==
  ASSUME TypeOK, UNCHANGED portVars, StreamsOK', fatal' \in BOOLEAN, spoiled' \in BOOLEAN,
         nextPatchId' \in Nat \ {0}, DOMAIN patches' \subseteq 0 .. (nextPatchId' - 1),
         \A p \in DOMAIN patches' : patches'[p] \in Patch,
         mPatches' \subseteq Nat \X (1 .. (nextPatchId' - 1))
  PROVE  TypeOK'
<1>1. PortsTypeOK' BY DEF TypeOK, PortsTypeOK, portVars
<1> QED BY <1>1 DEF TypeOK, StreamsOK

\* A request names configs, and has a way to its sinks when it is accepted.
LEMMA RequestIsFine ==
  ASSUME TypeOK, NEW patch \in Requests, NEW index, Acceptable(patch, index)
  PROVE  Fine(patch) /\ IdsOf(patch) \subseteq Nat
<1>1. patch \in Patch /\ Ends(patch) \subseteq DOMAIN portConfigs
  BY DEF Requests, TypeOK, PortsTypeOK, Ends, Patch
<1>2. Ends(patch) \subseteq Nat BY <1>1 DEF Patch, Ends
<1>3. PortsOf(Ends(patch)) \subseteq Nat BY <1>1, PortsAreNumbers DEF TypeOK
<1> QED BY <1>1, <1>2, <1>3 DEF Fine, Acceptable, IdsOf

LEMMA CreateStep ==
  ASSUME IInv, NEW patch \in Requests, CreatePatch(patch), UNCHANGED portVars
  PROVE  IInv'
<1> USE DEF CreatePatch, SetPatch, RegisterPatch
<1>1. Fine(patch) /\ IdsOf(patch) \subseteq Nat BY RequestIsFine DEF IInv
<1>2. StreamsOK'
  <2>1. \A c \in DOMAIN Connections(patch) : Connections(patch)[c] \subseteq DOMAIN portConfigs
    BY <1>1, ConnectionsOf DEF Fine
  <2> QED BY <2>1, StreamsToldType DEF IInv
<1>3. TypeOK'
  <2>1. nextPatchId \in Nat \ {0} /\ nextPatchId' = nextPatchId + 1
    BY DEF IInv, TypeOK
  <2>2. mPatches' \subseteq Nat \X (1 .. (nextPatchId' - 1))
    BY <1>1, <2>1 DEF IInv, TypeOK
  <2>3. /\ DOMAIN patches' \subseteq 0 .. (nextPatchId' - 1)
        /\ \A p \in DOMAIN patches' : patches'[p] \in Patch
    BY <1>1, <2>1 DEF IInv, TypeOK, Fine
  <2>4. fatal' \in BOOLEAN /\ spoiled' \in BOOLEAN /\ nextPatchId' \in Nat \ {0}
    BY <2>1 DEF IInv, TypeOK
  <2> QED BY <1>2, <2>2, <2>3, <2>4, TypeFrom DEF IInv
<1>4. ASSUME NEW p \in DOMAIN patches' PROVE Kept(p) \/ Entered(p)
  <2>1. CASE p = nextPatchId
    <3>1. EntriesOf(p) = {} BY <2>1 DEF IInv, TypeOK, EntriesOf
    <3>2. EntriesOf(p)' = IdsOf(patch) \X {p} BY <2>1, <3>1 DEF EntriesOf
    <3>3. patches'[p] = patch BY <2>1
    <3> QED BY <1>1, <3>2, <3>3 DEF Entered
  <2>2. CASE p # nextPatchId BY <2>2 DEF Kept, EntriesOf
  <2> QED BY <2>1, <2>2
<1>5. \A entry \in mPatches' : entry[2] \in DOMAIN patches' BY DEF IInv, IndexSound
<1> QED BY <1>3, <1>4, <1>5, PatchStep

LEMMA CreateRefusedStep ==
  ASSUME IInv, NEW patch \in Requests, CreateRefused(patch), UNCHANGED portVars
  PROVE  IInv'
<1> USE DEF CreateRefused, SetPatch
<1>1. patch \in Patch BY RequestIsFine DEF IInv, Fine
<1>2. NoPatch \in Patch BY DEF NoPatch, Patch
<1>3. nextPatchId \in Nat \ {0} /\ nextPatchId' = nextPatchId + 1 BY DEF IInv, TypeOK
<1>4. PICK streamsTold : streams' = [c \in DOMAIN streams |->
                                       IF c \in streamsTold THEN {} ELSE streams[c]]
  OBVIOUS
<1>5. StreamsOK' BY <1>4 DEF IInv, TypeOK, StreamsOK, portVars, IsMix
<1>6. TypeOK'
  <2>1. mPatches' \subseteq Nat \X (1 .. (nextPatchId' - 1))
    BY <1>3 DEF IInv, TypeOK
  <2>2. /\ DOMAIN patches' \subseteq 0 .. (nextPatchId' - 1)
        /\ \A p \in DOMAIN patches' : patches'[p] \in Patch
    BY <1>1, <1>2, <1>3 DEF IInv, TypeOK
  <2>3. fatal' \in BOOLEAN /\ spoiled' \in BOOLEAN BY Zenon
  <2>4. nextPatchId' \in Nat \ {0} BY <1>3
  <2> QED BY <1>5, <2>1, <2>2, <2>3, <2>4, TypeFrom DEF IInv
<1>7. ASSUME NEW p \in DOMAIN patches' PROVE Kept(p) \/ Lost(p)
  <2>1. CASE p \in {0, nextPatchId} BY <2>1 DEF IInv, TypeOK, EntriesOf, Lost
  <2>2. CASE p \notin {0, nextPatchId} BY <2>2 DEF Kept, EntriesOf
  <2> QED BY <2>1, <2>2
<1>8. \A entry \in mPatches' : entry[2] \in DOMAIN patches' BY DEF IInv, IndexSound
<1> QED BY <1>6, <1>7, <1>8, PatchStep

LEMMA UpdateStep ==
  ASSUME IInv, NEW patch \in Requests, NEW id \in DOMAIN patches \ {0},
         UpdatePatch(id, patch), UNCHANGED portVars
  PROVE  IInv'
<1> USE DEF UpdatePatch, SetPatch, RegisterPatch, CleanUpPatch
<1>1. Fine(patch) /\ IdsOf(patch) \subseteq Nat BY RequestIsFine DEF IInv
<1>2. StreamsOK'
  <2>1. \A c \in DOMAIN Connections(patch) : Connections(patch)[c] \subseteq DOMAIN portConfigs
    BY <1>1, ConnectionsOf DEF Fine
  <2> QED BY <2>1, StreamsToldType DEF IInv
<1>3. TypeOK'
  <2>1. mPatches' \subseteq Nat \X (1 .. (nextPatchId' - 1))
    BY <1>1 DEF IInv, TypeOK
  <2>2. /\ DOMAIN patches' \subseteq 0 .. (nextPatchId' - 1)
        /\ \A p \in DOMAIN patches' : patches'[p] \in Patch
    BY <1>1 DEF IInv, TypeOK, Fine
  <2> QED BY <1>2, <2>1, <2>2, TypeFrom DEF IInv, TypeOK
<1>4. ASSUME NEW p \in DOMAIN patches' PROVE Kept(p) \/ Entered(p)
  <2>1. CASE p = id
    <3>1. EntriesOf(p)' = IdsOf(patch) \X {p} BY <2>1 DEF EntriesOf
    <3>2. patches'[p] = patch BY <2>1
    <3> QED BY <1>1, <3>1, <3>2 DEF Entered
  <2>2. CASE p # id BY <2>2 DEF Kept, EntriesOf
  <2> QED BY <2>1, <2>2
<1>5. \A entry \in mPatches' : entry[2] \in DOMAIN patches' BY DEF IInv, IndexSound
<1> QED BY <1>3, <1>4, <1>5, PatchStep

LEMMA UpdateRefusedStep ==
  ASSUME IInv, NEW patch \in Requests, NEW id \in DOMAIN patches \ {0},
         UpdateRefused(id, patch), UNCHANGED portVars
  PROVE  IInv'
<1> USE DEF UpdateRefused, CleanUpPatch
<1>1. PICK told : Rollback(told, Connections(patches[id])) OBVIOUS
<1>2. StreamsOK' /\ fatal' \in BOOLEAN BY <1>1, RollbackType DEF IInv
<1>3. TypeOK' BY <1>2, TypeFrom DEF IInv, TypeOK
<1>4. ASSUME NEW p \in DOMAIN patches' PROVE Kept(p) \/ Lost(p)
  <2>1. CASE p = id BY <2>1 DEF Lost, EntriesOf
  <2>2. CASE p # id BY <2>2 DEF Kept, EntriesOf
  <2> QED BY <2>1, <2>2
<1>5. \A entry \in mPatches' : entry[2] \in DOMAIN patches' BY DEF IInv, IndexSound
<1> QED BY <1>3, <1>4, <1>5, PatchStep

LEMMA RemoveStep ==
  ASSUME IInv, NEW id \in DOMAIN patches, RemovePatch(id), UNCHANGED portVars
  PROVE  IInv'
<1> USE DEF RemovePatch, CleanUpPatch
<1>1. StreamsOK'
  <2>1. \A c \in DOMAIN NotConnected : NotConnected[c] \subseteq DOMAIN portConfigs
    BY DEF NotConnected
  <2> QED BY <2>1, StreamsToldType DEF IInv
<1>2. /\ DOMAIN patches' = DOMAIN patches \ {id}
      /\ \A p \in DOMAIN patches' : patches'[p] = patches[p]
  BY DEF Restrict
<1>3. TypeOK' BY <1>1, <1>2, TypeFrom DEF IInv, TypeOK
<1>4. ASSUME NEW p \in DOMAIN patches' PROVE Kept(p)
  BY <1>2 DEF Kept, EntriesOf
<1>5. \A entry \in mPatches' : entry[2] \in DOMAIN patches' BY <1>2 DEF IInv, IndexSound
<1> QED BY <1>3, <1>4, <1>5, PatchStep

\* A call that changes neither patches nor the index.
LEMMA QuietStep ==
  ASSUME IInv, TypeOK', UNCHANGED <<portVars, patches, mPatches, spoiled>>
  PROVE  IInv'
<1>1. ASSUME NEW p \in DOMAIN patches' PROVE Kept(p) BY DEF Kept, EntriesOf
<1>2. \A entry \in mPatches' : entry[2] \in DOMAIN patches' BY DEF IInv, IndexSound
<1> QED BY <1>1, <1>2, PatchStep

LEMMA ResetRefusedStep ==
  ASSUME IInv, NEW id \in DOMAIN patches, ResetRefused(id), UNCHANGED portVars
  PROVE  IInv'
<1> USE DEF ResetRefused
<1>1. PICK told : Rollback(told, Connections(patches[id])) OBVIOUS
<1>2. StreamsOK' /\ fatal' \in BOOLEAN BY <1>1, RollbackType DEF IInv
<1>3. TypeOK' BY <1>2, TypeFrom DEF IInv, TypeOK
<1> QED BY <1>3, QuietStep

LEMMA OpenStep ==
  ASSUME IInv, NEW config \in DOMAIN portConfigs, OpenAudioStream(config)
  PROVE  IInv'
<1> USE DEF OpenAudioStream
<1>1. fatal' \in BOOLEAN BY DEF FindFatal
<1>2. CASE FindFatal(config)
  <2>1. TypeOK' BY <1>1, <1>2, TypeFrom DEF IInv, TypeOK, StreamsOK, portVars, IsMix
  <2> QED BY <2>1, QuietStep
<1>3. CASE ~FindFatal(config)
  <2>1. DOMAIN streams' = DOMAIN streams \cup {config} BY <1>3
  <2>2. PortsOf(ConnectedConfigs(config)) \subseteq Nat
    BY <1>3, PortsAreNumbers DEF FindFatal, ConfigExists, IInv, TypeOK
  <2>3. \A c \in DOMAIN streams' : streams'[c] \subseteq Nat
    BY <1>3, <2>2 DEF IInv, TypeOK
  <2>4. \A c \in DOMAIN streams' : IsMix(c) BY <2>1 DEF MayOpen, IInv, TypeOK
  <2>5. StreamsOK' BY <2>1, <2>3, <2>4 DEF StreamsOK, IInv, TypeOK, portVars, IsMix
  <2>6. TypeOK' BY <1>1, <2>5, TypeFrom DEF IInv, TypeOK
  <2> QED BY <2>6, QuietStep
<1> QED BY <1>2, <1>3

LEMMA CloseStep ==
  ASSUME IInv, NEW config \in DOMAIN streams, CloseAudioStream(config)
  PROVE  IInv'
<1> USE DEF CloseAudioStream
<1>1. StreamsOK' BY DEF StreamsOK, IInv, TypeOK, portVars, IsMix, Restrict
<1>2. TypeOK' BY <1>1, TypeFrom DEF IInv, TypeOK
<1> QED BY <1>2, QuietStep

----------------------------------------------------------------------------
(* The theorems.                                                           *)

LEMMA InitIInv == Init => IInv
<1> SUFFICES ASSUME Init PROVE IInv OBVIOUS
<1> USE DEF Init, PortsInit
<1>1. PortsTypeOK
  BY PortsAssumption DEF PortsTypeOK, InitialPorts, AudioRoute
<1>2. DOMAIN patches = {} /\ DOMAIN streams = {} /\ nextPatchId = 1 OBVIOUS
<1>3. fatal \in BOOLEAN /\ spoiled \in BOOLEAN BY Zenon
<1>4. mPatches = {} OBVIOUS
<1>5. TypeOK BY ONLY <1>1, <1>2, <1>3, <1>4 DEF TypeOK
<1> QED BY <1>2, <1>4, <1>5 DEF IInv, IndexSound, IndexComplete, PatchEndsExist

LEMMA StepIInv == IInv /\ [Next]_vars => IInv'
<1> SUFFICES ASSUME IInv, [Next]_vars PROVE IInv' OBVIOUS
<1>1. CASE ConnectExternalDevice /\ UNCHANGED moduleVars
  BY <1>1, ConnectStep, ConnectFailsStep DEF ConnectExternalDevice
<1>2. CASE \E c \in DOMAIN connected : DisconnectExternalDevice(c) /\ UNCHANGED moduleVars
  BY <1>2, DisconnectStep
<1>3. CASE \E port \in ports : SetAudioPortConfig(port) /\ UNCHANGED moduleVars
  BY <1>3, SetConfigStep
<1>4. CASE SetAudioPatch /\ UNCHANGED portVars
  BY <1>4, CreateStep, CreateRefusedStep, UpdateStep, UpdateRefusedStep DEF SetAudioPatch
<1>5. CASE \E id \in DOMAIN patches : ResetAudioPatch(id) /\ UNCHANGED portVars
  BY <1>5, RemoveStep, ResetRefusedStep DEF ResetAudioPatch
<1>6. CASE \E c \in DOMAIN portConfigs : ResetAudioPortConfig(c) BY <1>6, ResetConfigStep
<1>7. CASE \E c \in DOMAIN portConfigs : OpenAudioStream(c) BY <1>7, OpenStep
<1>8. CASE \E c \in DOMAIN streams : CloseAudioStream(c) BY <1>8, CloseStep
<1>9. CASE UNCHANGED vars
  <2>1. TypeOK'
    BY <1>9, TypeFrom DEF IInv, TypeOK, vars, moduleVars, portVars, StreamsOK, IsMix
  <2> QED BY <1>9, <2>1, QuietStep DEF vars, moduleVars
<1> QED BY <1>1, <1>2, <1>3, <1>4, <1>5, <1>6, <1>7, <1>8, <1>9 DEF Next

LEMMA AlwaysIInv == Spec => []IInv
  BY InitIInv, StepIInv, PTL DEF Spec

\* Ports, configs, routes, patches and streams have their types, whatever calls
\* come and whichever of them are refused: no route, config or connection is
\* left of a port that is gone (class Module).
THEOREM ModuleTypes == Spec => []TypeOK
<1>1. IInv => TypeOK BY DEF IInv
<1> QED BY <1>1, AlwaysIInv, PTL

\* No call takes away a patch, a port config or a route that the index of
\* patches still needs (resetAudioPortConfig, disconnectExternalDevice and the
\* rollback of setAudioPatch).
THEOREM PatchEndsAlwaysExist == Spec => []PatchEndsExist
<1>1. IInv => PatchEndsExist BY DEF IInv
<1> QED BY <1>1, AlwaysIInv, PTL

\* Until a request for a patch has been refused, the index names exactly the
\* patches that use a port config or a port (registerPatch, cleanUpPatch).
THEOREM IndexAlwaysNamesPatches == Spec => []IndexNamesPatches
<1>1. ASSUME IInv, ~spoiled
      PROVE  mPatches = UNION {IdsOf(patches[p]) \X {p} : p \in DOMAIN patches}
  <2>1. ASSUME NEW entry \in mPatches
        PROVE  entry \in UNION {IdsOf(patches[p]) \X {p} : p \in DOMAIN patches}
    <3>1. entry[2] \in DOMAIN patches /\ entry[1] \in IdsOf(patches[entry[2]])
      BY <1>1 DEF IInv, IndexSound
    <3>2. entry = <<entry[1], entry[2]>> BY <1>1 DEF IInv, TypeOK
    <3>3. entry \in IdsOf(patches[entry[2]]) \X {entry[2]} BY <3>1, <3>2
    <3> QED BY <3>1, <3>3
  <2>2. ASSUME NEW p \in DOMAIN patches PROVE IdsOf(patches[p]) \X {p} \subseteq mPatches
    BY <1>1 DEF IInv, IndexComplete
  <2> QED BY <2>1, <2>2
<1>2. IInv => IndexNamesPatches BY <1>1 DEF IndexNamesPatches
<1> QED BY <1>2, AlwaysIInv, PTL

\* What a patch that is set over an exclusive route has to itself.
Alone(p) ==
  \A port \in PortsOf(patches'[p].sinks) :
    IsExclusive(port, patches'[p].sources) =>
      \A q \in DOMAIN patches' \ {p} : port \notin PortsOf(patches'[q].sinks)

\* An exclusive route is taken by one patch at a time: a new patch over it is
\* refused while any other patch uses its sink (setAudioPatch), as long as the
\* index has not been spoiled.
THEOREM ExclusiveRoutesAreExclusive == Spec => ExclusiveWhenSet
<1>1. ASSUME IInv, NEW patch \in Requests, NEW index, NEW id,
             index = {entry \in mPatches : entry[2] # id},
             Acceptable(patch, index), SetPatch(id, patch), ~spoiled
      PROVE  Alone(id)
  <2> SUFFICES ASSUME NEW port \in PortsOf(patch.sinks), IsExclusive(port, patch.sources),
                      NEW q \in DOMAIN patches \ {id}, port \in PortsOf(patches[q].sinks)
               PROVE  FALSE
    BY <1>1 DEF Alone, SetPatch
  <2>1. port \in IdsOf(patches[q]) BY DEF IdsOf, PortsOf, Ends
  <2>2. <<port, q>> \in mPatches BY <1>1, <2>1 DEF IInv, IndexComplete
  <2>3. <<port, q>> \in index BY <1>1, <2>2
  <2>4. port \in AllowedSinkPorts(patch.sources) BY <1>1 DEF Acceptable
  <2> QED BY <1>1, <2>3, <2>4 DEF Acceptable, ExclusiveAreFree
<1>2. ASSUME IInv, [Next]_vars, ~spoiled', NEW p \in DOMAIN patches',
             p \notin DOMAIN patches \/ patches'[p] # patches[p]
      PROVE  Alone(p)
  <2>1. CASE \E patch \in Requests : CreatePatch(patch)
    <3>1. PICK patch \in Requests : CreatePatch(patch) BY <2>1
    <3>2. p = nextPatchId BY <1>2, <3>1 DEF CreatePatch, SetPatch
    <3>3. mPatches = {entry \in mPatches : entry[2] # nextPatchId}
      BY <1>2 DEF IInv, TypeOK
    <3>4. Acceptable(patch, mPatches) /\ SetPatch(nextPatchId, patch) /\ ~spoiled
      BY <1>2, <3>1 DEF CreatePatch
    <3> QED BY <1>1, <1>2, <3>2, <3>3, <3>4
  <2>2. CASE \E patch \in Requests, id \in DOMAIN patches \ {0} : UpdatePatch(id, patch)
    <3>1. PICK patch \in Requests, id \in DOMAIN patches \ {0} : UpdatePatch(id, patch) BY <2>2
    <3>2. p = id BY <1>2, <3>1 DEF UpdatePatch, SetPatch
    <3>3. Acceptable(patch, CleanUpPatch(id, mPatches)) /\ SetPatch(id, patch) /\ ~spoiled
      BY <1>2, <3>1 DEF UpdatePatch
    <3> QED BY <1>1, <1>2, <3>2, <3>3 DEF CleanUpPatch
  <2>3. CASE \E patch \in Requests : CreateRefused(patch)
    BY <1>2, <2>3 DEF CreateRefused
  <2>4. CASE \E patch \in Requests, id \in DOMAIN patches : UpdateRefused(id, patch)
    BY <1>2, <2>4 DEF UpdateRefused
  <2>5. CASE \E id \in DOMAIN patches : RemovePatch(id)
    BY <1>2, <2>5 DEF RemovePatch, Restrict
  <2>6. CASE UNCHANGED patches BY <1>2, <2>6
  <2>7. UNCHANGED moduleVars => UNCHANGED patches BY DEF moduleVars
  <2>8. UNCHANGED vars => UNCHANGED patches BY DEF vars, moduleVars
  <2> QED BY <1>2, <2>1, <2>2, <2>3, <2>4, <2>5, <2>6, <2>7, <2>8
      DEF Next, SetAudioPatch, ResetAudioPatch, ResetRefused, ResetAudioPortConfig,
          OpenAudioStream, CloseAudioStream
<1>3. IInv /\ [Next]_vars =>
        [~spoiled' => \A p \in DOMAIN patches' :
           (p \notin DOMAIN patches \/ patches'[p] # patches[p]) => Alone(p)]_vars
  BY <1>2
<1> QED BY <1>3, AlwaysIInv, PTL DEF Spec, ExclusiveWhenSet, Alone

----------------------------------------------------------------------------
(* The profiles of mix ports.                                              *)

\* A device that has profiles of its own populates all the mix ports without
\* that its routes lead to, another one none.  A mix port is without profiles
\* until a device populates it.
Populating ==
  /\ bare \cap MixPorts \subseteq Unfilled
  /\ \A c \in DOMAIN connected :
       connected[c].mixes = IF c \in bare THEN {} ELSE RoutablePorts(c) \cap Unfilled
  /\ \A m \in MixPorts \cap Unfilled : m \in bare <=> ~PopulatedFromAny(m)

LEMMA DeviceRoutes ==
  ASSUME PortsTypeOK, NEW port, port \notin MixPorts
  PROVE  /\ RoutablePorts(port) \subseteq MixPorts
         /\ \A r \in audioRoutes : r.sink = port => r.sources \subseteq MixPorts
         /\ \A r \in audioRoutes : port \in r.sources => r.sink \in MixPorts
<1>1. \A r \in audioRoutes : r.sink = port => r.sources \subseteq MixPorts
  BY DEF PortsTypeOK, MixToDevice, DeviceToMix
<1>2. \A r \in audioRoutes : port \in r.sources => r.sink \in MixPorts
  BY DEF PortsTypeOK, MixToDevice, DeviceToMix
<1> QED BY <1>1, <1>2 DEF RoutablePorts, RoutesOf

\* The ports that routes lead to from a device port, or from which they lead to it.
LEMMA Routable ==
  ASSUME PortsTypeOK, NEW port, port \notin MixPorts, NEW m
  PROVE  m \in RoutablePorts(port) <=>
           \E r \in audioRoutes : \/ r.sink = port /\ m \in r.sources
                                  \/ port \in r.sources /\ m = r.sink
<1>1. \A r \in audioRoutes : port \in r.sources => r.sink # port BY DeviceRoutes
<1> QED BY <1>1 DEF RoutablePorts, RoutesOf

\* A connected device reaches what its template reaches, and other devices what
\* they have reached.
LEMMA RoutableAfterConnect ==
  ASSUME PortsTypeOK, NEW template \in Templates, NEW address \in Addresses,
         NEW populated \in BOOLEAN, Connect(template, address, populated),
         NEW port, port \notin MixPorts, port \in ports'
  PROVE  RoutablePorts(port)' =
           RoutablePorts(IF port = nextPortId THEN template ELSE port)
<1> DEFINE new == nextPortId
<1>1. PortsTypeOK' BY ConnectPortsType
<1>2. template \in ports /\ template \notin MixPorts /\ new \notin ports
  BY PortsAssumption, NewNumber DEF InitialPorts, PortsTypeOK
<1>3. audioRoutes' = RoutesWith(new, template) BY DEF Connect
<1>4. \A r \in audioRoutes : r \in [sources : SUBSET ports, sink : ports, exclusive : BOOLEAN]
  BY DEF PortsTypeOK
<1>5. \A m : m \in RoutablePorts(port)' <=>
        \E r \in audioRoutes' : \/ r.sink = port /\ m \in r.sources
                                \/ port \in r.sources /\ m = r.sink
  BY <1>1, Routable DEF RoutablePorts, RoutesOf
<1> DEFINE Joined(q) == IF template \in q.sources
                        THEN [q EXCEPT !.sources = @ \cup {new}] ELSE q
           Copied(q) == [q EXCEPT !.sink = new]
<1>6. \A r : r \in audioRoutes' <=>
               \E q \in audioRoutes : r = Joined(q) \/ (q.sink = template /\ r = Copied(q))
  BY <1>3 DEF RoutesWith
<1>7. \A q \in audioRoutes :
        /\ Joined(q).sink = q.sink
        /\ Joined(q).sources = q.sources \cup (IF template \in q.sources THEN {new} ELSE {})
        /\ Copied(q).sink = new /\ Copied(q).sources = q.sources
        /\ q.sink # new /\ new \notin q.sources
        /\ q.sink = template => template \notin q.sources
  BY <1>2, <1>4, DeviceRoutes
<1>8. CASE port = new
  <2>1. ASSUME NEW m
        PROVE  m \in RoutablePorts(port)' <=> m \in RoutablePorts(template)
    <3>1. m \in RoutablePorts(template) <=>
            \E q \in audioRoutes : \/ q.sink = template /\ m \in q.sources
                                   \/ template \in q.sources /\ m = q.sink
      BY <1>2, Routable
    <3>2. ASSUME NEW r \in audioRoutes', \/ r.sink = new /\ m \in r.sources
                                         \/ new \in r.sources /\ m = r.sink
          PROVE  \E q \in audioRoutes : \/ q.sink = template /\ m \in q.sources
                                        \/ template \in q.sources /\ m = q.sink
      <4>1. PICK q \in audioRoutes : r = Joined(q) \/ (q.sink = template /\ r = Copied(q))
        BY <1>6
      <4>2. CASE r = Joined(q) BY <1>7, <3>2, <4>2
      <4>3. CASE q.sink = template /\ r = Copied(q) BY <1>7, <3>2, <4>3
      <4> QED BY <4>1, <4>2, <4>3
    <3>3. ASSUME NEW q \in audioRoutes, \/ q.sink = template /\ m \in q.sources
                                        \/ template \in q.sources /\ m = q.sink
          PROVE  \E r \in audioRoutes' : \/ r.sink = new /\ m \in r.sources
                                         \/ new \in r.sources /\ m = r.sink
      <4>1. Joined(q) \in audioRoutes' BY <1>6
      <4>2. q.sink = template => Copied(q) \in audioRoutes' BY <1>6
      <4> HIDE DEF Joined, Copied
      <4> QED BY <1>7, <3>3, <4>1, <4>2
    <3> QED BY <1>5, <1>8, <3>1, <3>2, <3>3
  <2>2. RoutablePorts(port)' = RoutablePorts(template)
    BY <2>1 DEF RoutablePorts
  <2> QED BY <1>8, <2>2
<1>9. CASE port # new
  <2>1. ASSUME NEW m
        PROVE  m \in RoutablePorts(port)' <=> m \in RoutablePorts(port)
    <3>1. m \in RoutablePorts(port) <=>
            \E q \in audioRoutes : \/ q.sink = port /\ m \in q.sources
                                   \/ port \in q.sources /\ m = q.sink
      BY Routable
    <3>2. ASSUME NEW r \in audioRoutes', \/ r.sink = port /\ m \in r.sources
                                         \/ port \in r.sources /\ m = r.sink
          PROVE  \E q \in audioRoutes : \/ q.sink = port /\ m \in q.sources
                                        \/ port \in q.sources /\ m = q.sink
      <4>1. PICK q \in audioRoutes : r = Joined(q) \/ (q.sink = template /\ r = Copied(q))
        BY <1>6
      <4>2. CASE r = Joined(q)
        <5>1. q.sink = port => template \notin q.sources BY <1>2, DeviceRoutes
        <5> QED BY <1>7, <1>9, <3>2, <4>2, <5>1
      <4>3. CASE q.sink = template /\ r = Copied(q)
        <5>1. template \notin MixPorts /\ port \notin q.sources BY <1>2, <4>3, DeviceRoutes
        <5> QED BY <1>7, <1>9, <3>2, <4>3, <5>1
      <4> QED BY <4>1, <4>2, <4>3
    <3>3. ASSUME NEW q \in audioRoutes, \/ q.sink = port /\ m \in q.sources
                                        \/ port \in q.sources /\ m = q.sink
          PROVE  \E r \in audioRoutes' : \/ r.sink = port /\ m \in r.sources
                                         \/ port \in r.sources /\ m = r.sink
      <4>1. Joined(q) \in audioRoutes' BY <1>6
      <4> HIDE DEF Joined, Copied
      <4> QED BY <1>7, <3>3, <4>1
    <3> QED BY <1>5, <3>1, <3>2, <3>3
  <2>2. RoutablePorts(port)' = RoutablePorts(port)
    BY <2>1 DEF RoutablePorts
  <2> QED BY <1>9, <2>2
<1> QED BY <1>8, <1>9

LEMMA RoutableAfterDisconnect ==
  ASSUME PortsTypeOK, NEW gone \in DOMAIN connected, DisconnectExternalDevice(gone),
         NEW port, port \notin MixPorts, port # gone
  PROVE  RoutablePorts(port)' = RoutablePorts(port)
<1>1. PortsTypeOK' BY DisconnectPortsType
<1>2. gone \notin MixPorts BY DEF PortsTypeOK, InitialPorts
<1> DEFINE Left(q) == [q EXCEPT !.sources = @ \ {gone}]
<1>3. \A r : r \in audioRoutes' <=> \E q \in audioRoutes : q.sink # gone /\ r = Left(q)
  BY DEF DisconnectExternalDevice, RoutesWithout
<1>4. \A q \in audioRoutes : q \in [sources : SUBSET ports, sink : ports, exclusive : BOOLEAN]
  BY DEF PortsTypeOK
<1>5. \A q \in audioRoutes : Left(q).sink = q.sink /\ Left(q).sources = q.sources \ {gone}
  BY <1>4
<1> HIDE DEF Left
<1>6. \A m : m \in RoutablePorts(port)' <=>
        \E r \in audioRoutes' : \/ r.sink = port /\ m \in r.sources
                                \/ port \in r.sources /\ m = r.sink
  BY <1>1, Routable DEF RoutablePorts, RoutesOf
<1>7. \A m : m \in RoutablePorts(port) <=>
        \E q \in audioRoutes : \/ q.sink = port /\ m \in q.sources
                               \/ port \in q.sources /\ m = q.sink
  BY Routable
<1>8. ASSUME NEW m
      PROVE  m \in RoutablePorts(port)' <=> m \in RoutablePorts(port)
  <2>1. ASSUME NEW q \in audioRoutes, \/ q.sink = port /\ m \in q.sources
                                      \/ port \in q.sources /\ m = q.sink
        PROVE  \E r \in audioRoutes' : \/ r.sink = port /\ m \in r.sources
                                       \/ port \in r.sources /\ m = r.sink
    <3>1. q.sink # gone BY <1>2, <2>1, DeviceRoutes
    <3>2. Left(q) \in audioRoutes' BY <1>3, <3>1
    <3>3. q.sink = port => gone \notin q.sources BY <1>2, DeviceRoutes
    <3> QED BY <1>5, <2>1, <3>2, <3>3
  <2>2. ASSUME NEW r \in audioRoutes', \/ r.sink = port /\ m \in r.sources
                                       \/ port \in r.sources /\ m = r.sink
        PROVE  \E q \in audioRoutes : \/ q.sink = port /\ m \in q.sources
                                      \/ port \in q.sources /\ m = q.sink
    <3>1. PICK q \in audioRoutes : r = Left(q) BY <1>3
    <3> QED BY <1>5, <2>2, <3>1
  <2> QED BY <1>6, <1>7, <2>1, <2>2
<1> QED BY <1>8 DEF RoutablePorts

\* The invariant depends on ports and routes only.
LEMMA PopulatingKept ==
  ASSUME Populating, UNCHANGED <<bare, audioRoutes, connected>> PROVE Populating'
<1>1. \A port : RoutablePorts(port)' = RoutablePorts(port) BY DEF RoutablePorts, RoutesOf
<1>2. \A m : PopulatedFromAny(m)' = PopulatedFromAny(m) BY DEF PopulatedFromAny
<1> QED BY <1>1, <1>2 DEF Populating

LEMMA ConnectPopulating ==
  ASSUME PortsTypeOK, Populating, NEW template \in Templates, NEW address \in Addresses,
         NEW populated \in BOOLEAN, Connect(template, address, populated)
  PROVE  Populating'
<1> DEFINE dynamic == template \in bare /\ ~populated
           mixes == MixesFrom(template, dynamic)
<1>0. PICK new : new = nextPortId OBVIOUS
<1>1. template \notin MixPorts /\ new \notin ports /\ new \notin MixPorts
  BY <1>0, PortsAssumption, NewNumber DEF InitialPorts, PortsTypeOK
<1>2. /\ bare' = (bare \ mixes) \cup (IF dynamic THEN {new} ELSE {})
      /\ DOMAIN connected' = DOMAIN connected \cup {new}
      /\ connected'[new].mixes = mixes
      /\ \A c \in DOMAIN connected : connected'[c] = connected[c]
  BY <1>0, <1>1 DEF Connect, PortsTypeOK
<1>3. new \in ports' BY <1>0 DEF Connect
<1>4. RoutablePorts(new)' = RoutablePorts(template) BY <1>0, <1>1, <1>3, RoutableAfterConnect
<1>5. ASSUME NEW c \in DOMAIN connected
      PROVE  c \notin MixPorts /\ c # new /\ RoutablePorts(c)' = RoutablePorts(c)
  <2>1. c \in ports /\ c \notin MixPorts BY DEF PortsTypeOK, InitialPorts
  <2>2. c # new /\ c \in ports' BY <1>0, <1>1, <2>1 DEF Connect
  <2> QED BY <1>0, <2>1, <2>2, RoutableAfterConnect
<1>6. RoutablePorts(template) \subseteq MixPorts BY <1>1, DeviceRoutes
<1>7. ASSUME NEW m \in MixPorts, PopulatedFromAny(m)
      PROVE  m \in Unfilled
  <2>1. PICK c \in DOMAIN connected : m \in connected[c].mixes BY <1>7 DEF PopulatedFromAny
  <2>2. connected[c].mixes = IF c \in bare THEN {} ELSE RoutablePorts(c) \cap Unfilled
    BY DEF Populating
  <2> QED BY <2>1, <2>2
<1>8. mixes = IF dynamic THEN {} ELSE RoutablePorts(template) \cap Unfilled
  <2>1. ASSUME NEW m \in RoutablePorts(template)
        PROVE  m \in bare \/ PopulatedFromAny(m) <=> m \in Unfilled
    <3>1. m \in MixPorts BY <1>6
    <3>2. m \in bare => m \in Unfilled BY <3>1 DEF Populating
    <3>3. m \in Unfilled => (m \in bare <=> ~PopulatedFromAny(m)) BY <3>1 DEF Populating
    <3> QED BY <1>7, <3>1, <3>2, <3>3
  <2> HIDE DEF dynamic
  <2> QED BY <2>1, Zenon DEF MixesFrom
<1>9. bare' \cap MixPorts \subseteq Unfilled BY <1>1, <1>2 DEF Populating
<1>10. new \in bare' <=> dynamic BY <1>1, <1>2, <1>6, <1>8 DEF PortsTypeOK
<1>11. \A c \in DOMAIN connected : c \in bare' <=> c \in bare
  BY <1>2, <1>5, <1>6, <1>8
<1> HIDE DEF mixes, dynamic
<1>12. \A c \in DOMAIN connected' :
         connected'[c].mixes = IF c \in bare' THEN {} ELSE RoutablePorts(c)' \cap Unfilled
  <2> SUFFICES ASSUME NEW c \in DOMAIN connected'
               PROVE  connected'[c].mixes = IF c \in bare' THEN {} ELSE RoutablePorts(c)' \cap Unfilled
    OBVIOUS
  <2>1. CASE c = new BY <1>2, <1>4, <1>8, <1>10, <2>1
  <2>2. CASE c \in DOMAIN connected
    <3>1. connected[c].mixes = IF c \in bare THEN {} ELSE RoutablePorts(c) \cap Unfilled
      BY <2>2 DEF Populating
    <3> QED BY <1>2, <1>5, <1>11, <2>2, <3>1
  <2> QED BY <1>2, <2>1, <2>2
<1>13. ASSUME NEW m \in MixPorts \cap Unfilled
       PROVE  m \in bare' <=> ~PopulatedFromAny(m)'
  <2>1. PopulatedFromAny(m)' <=> m \in mixes \/ PopulatedFromAny(m)
    BY <1>1, <1>2, <1>5 DEF PopulatedFromAny
  <2>2. m \in bare <=> ~PopulatedFromAny(m) BY DEF Populating
  <2> QED BY <1>1, <1>2, <2>1, <2>2
<1> QED BY <1>9, <1>12, <1>13 DEF Populating

LEMMA DisconnectPopulating ==
  ASSUME PortsTypeOK, Populating, NEW gone \in DOMAIN connected,
         DisconnectExternalDevice(gone)
  PROVE  Populating'
<1>1. /\ bare' = (bare \ {gone}) \cup MixPortsToClear(gone)
      /\ DOMAIN connected' = DOMAIN connected \ {gone}
      /\ \A c \in DOMAIN connected' : connected'[c] = connected[c]
  BY DEF DisconnectExternalDevice, Restrict
<1>2. \A c \in DOMAIN connected : c \notin MixPorts BY DEF PortsTypeOK, InitialPorts
<1>3. \A c \in DOMAIN connected' : RoutablePorts(c)' = RoutablePorts(c)
  BY <1>1, <1>2, RoutableAfterDisconnect
<1>4. ASSUME NEW m
      PROVE  m \in MixPortsToClear(gone) <=>
               m \in connected[gone].mixes /\ ~PopulatedFromAny(m)'
  BY <1>1 DEF MixPortsToClear, PopulatedFromAny
<1>5. connected[gone].mixes \subseteq MixPorts \cap Unfilled
  BY DEF PortsTypeOK, ConnectedPort, Populating
<1>6. bare' \cap MixPorts \subseteq Unfilled BY <1>1, <1>4, <1>5 DEF Populating
<1>7. \A c \in DOMAIN connected' : c \in bare' <=> c \in bare
  BY <1>1, <1>2, <1>4, <1>5
<1>8. \A c \in DOMAIN connected' :
        connected'[c].mixes = IF c \in bare' THEN {} ELSE RoutablePorts(c)' \cap Unfilled
  BY <1>1, <1>3, <1>7 DEF Populating
<1>9. ASSUME NEW m \in MixPorts \cap Unfilled
      PROVE  m \in bare' <=> ~PopulatedFromAny(m)'
  <2>1. PopulatedFromAny(m)' => PopulatedFromAny(m) BY <1>1 DEF PopulatedFromAny
  <2>2. PopulatedFromAny(m) => PopulatedFromAny(m)' \/ m \in connected[gone].mixes
    BY <1>1 DEF PopulatedFromAny
  <2>3. m # gone BY <1>2
  <2>4. m \in bare <=> ~PopulatedFromAny(m) BY DEF Populating
  <2>5. m \in connected[gone].mixes => PopulatedFromAny(m) BY DEF PopulatedFromAny
  <2>6. m \in bare' <=> m \in bare \/ m \in MixPortsToClear(gone) BY <1>1, <2>3
  <2> QED BY <1>4, <2>1, <2>2, <2>4, <2>5, <2>6
<1> QED BY <1>6, <1>8, <1>9 DEF Populating

LEMMA InitPopulating == Init => Populating
<1> SUFFICES ASSUME Init PROVE Populating OBVIOUS
<1>1. bare = Unfilled /\ DOMAIN connected = {} BY DEF Init, PortsInit
<1> QED BY <1>1 DEF Populating, PopulatedFromAny

LEMMA StepPopulating == IInv /\ Populating /\ [Next]_vars => Populating'
<1> SUFFICES ASSUME IInv, Populating, [Next]_vars PROVE Populating' OBVIOUS
<1>1. PortsTypeOK BY DEF IInv, TypeOK
<1>2. CASE ConnectExternalDevice
  BY <1>1, <1>2, ConnectPopulating, PopulatingKept DEF ConnectExternalDevice, ConnectFails
<1>3. CASE \E c \in DOMAIN connected : DisconnectExternalDevice(c)
  BY <1>1, <1>3, DisconnectPopulating
<1>4. CASE UNCHANGED <<bare, audioRoutes, connected>> BY <1>4, PopulatingKept
<1> QED BY <1>2, <1>3, <1>4
    DEF Next, vars, portVars, SetAudioPortConfig, ResetAudioPortConfig, RemovePortConfig,
        OpenAudioStream, CloseAudioStream

\* A mix port without profiles of its own has them exactly while a device that
\* has some and that a route connects it to is there, in whatever order devices
\* come and go and whichever of them populates it (connectExternalDevice,
\* disconnectExternalDevice).
THEOREM ProfilesAlwaysFollowDevices == Spec => []ProfilesFollowDevices
<1>1. IInv /\ Populating => ProfilesFollowDevices
  <2> SUFFICES ASSUME IInv, Populating, NEW m \in MixPorts \cap Unfilled
               PROVE  m \in bare <=> \A c \in DOMAIN connected \ bare : m \notin RoutablePorts(c)
    BY DEF ProfilesFollowDevices
  <2>1. PopulatedFromAny(m) <=> \E c \in DOMAIN connected \ bare : m \in RoutablePorts(c)
    BY DEF Populating, PopulatedFromAny
  <2> QED BY <2>1 DEF Populating
<1> QED BY <1>1, AlwaysIInv, InitPopulating, StepPopulating, PTL DEF Spec

----------------------------------------------------------------------------
(* What streams know of their devices.                                     *)

\* The config of a permanent device port has the number of its port, and no
\* other config has the number of a port.
NumbersApart ==
  /\ \A c \in DevicePorts : ConfigExists(c) /\ portConfigs[c] = c
  /\ ports \cap DOMAIN portConfigs \subseteq DevicePorts

\* Mix port configs are on one side of a patch, device port configs on the other.
Sided(patch) ==
  /\ Ends(patch) \subseteq DOMAIN portConfigs
  /\ \/ (\A c \in patch.sources : IsMix(c)) /\ (\A c \in patch.sinks : ~IsMix(c))
     \/ (\A c \in patch.sources : ~IsMix(c)) /\ (\A c \in patch.sinks : IsMix(c))

\* Patches have no mix port config in common.
Apart(set) ==
  /\ \A p \in DOMAIN set : p # 0 /\ Sided(set[p])
  /\ \A p \in DOMAIN set, q \in DOMAIN set : p # q =>
       \A c \in Ends(set[p]) \cap Ends(set[q]) : ~IsMix(c)

\* The devices that patches connect a config to.
DevicesBy(set, c) ==
  UNION {PortsOf(OtherEnd(set[p], c)) : p \in {q \in DOMAIN set : c \in Ends(set[q])}}

Know == Apart(patches) /\ \A c \in DOMAIN streams : streams[c] = DevicesBy(patches, c)

KInv ==
  /\ NumbersApart
  /\ streams = [c \in DOMAIN streams |-> streams[c]]
  /\ ~spoiled => Know

LEMMA DevicesInOnePatch ==
  ASSUME NEW set, Apart(set), NEW p \in DOMAIN set, NEW c \in Ends(set[p]), IsMix(c)
  PROVE  DevicesBy(set, c) = PortsOf(OtherEnd(set[p], c))
<1>1. {q \in DOMAIN set : c \in Ends(set[q])} = {p} BY DEF Apart
<1> QED BY <1>1 DEF DevicesBy

LEMMA DevicesInNoPatch ==
  ASSUME NEW set, NEW c, \A p \in DOMAIN set : c \notin Ends(set[p])
  PROVE  DevicesBy(set, c) = {}
  BY DEF DevicesBy

\* A patch connects the streams on its mix port configs to its other side.
LEMMA ConnectionsOfStreams ==
  ASSUME TypeOK, NEW patch, Sided(patch), NEW c \in DOMAIN streams
  PROVE  /\ c \in DOMAIN Connections(patch) <=> c \in Ends(patch)
         /\ c \in Ends(patch) => Connections(patch)[c] = OtherEnd(patch, c)
<1>1. \A d \in DOMAIN streams : IsMix(d) BY DEF TypeOK
<1>2. CASE (\A d \in patch.sources : IsMix(d)) /\ (\A d \in patch.sinks : ~IsMix(d))
  BY <1>1, <1>2 DEF Connections, Ends, OtherEnd, NotConnected
<1>3. CASE (\A d \in patch.sources : ~IsMix(d)) /\ (\A d \in patch.sinks : IsMix(d))
  BY <1>1, <1>3 DEF Connections, Ends, OtherEnd, NotConnected
<1> QED BY <1>2, <1>3 DEF Sided

LEMMA RequestIsSided ==
  ASSUME NEW patch \in Requests PROVE Sided(patch)
<1> DEFINE Of(mix) == {c \in DOMAIN portConfigs : IsMix(c) = mix}
<1>1. PICK mix \in BOOLEAN : patch.sources \subseteq Of(mix) /\ patch.sinks \subseteq Of(~mix)
  BY DEF Requests
<1>2. Ends(patch) \subseteq DOMAIN portConfigs BY <1>1 DEF Ends
<1>3. CASE mix = TRUE
  <2>1. (\A c \in patch.sources : IsMix(c)) /\ (\A c \in patch.sinks : ~IsMix(c))
    BY <1>1, <1>3
  <2> QED BY <1>2, <2>1 DEF Sided
<1>4. CASE mix = FALSE
  <2>1. (\A c \in patch.sources : ~IsMix(c)) /\ (\A c \in patch.sinks : IsMix(c))
    BY <1>1, <1>4
  <2> QED BY <1>2, <2>1 DEF Sided
<1> QED BY <1>3, <1>4

\* The invariant when only ports and configs change, and the configs of patches
\* and streams keep their ports.
LEMMA PortsKInv ==
  ASSUME TypeOK, KInv, NumbersApart', UNCHANGED moduleVars, Keep(DOMAIN streams),
         ~spoiled => \A p \in DOMAIN patches : Keep(Ends(patches[p]))
  PROVE  KInv'
<1> USE DEF moduleVars
<1> SUFFICES ASSUME ~spoiled PROVE Know' BY DEF KInv
<1>1. Know BY DEF KInv
<1>2. ASSUME NEW p \in DOMAIN patches, NEW c \in Ends(patches[p])
      PROVE  c \in DOMAIN portConfigs' /\ IsMix(c)' = IsMix(c)
  BY <1>2 DEF Keep, IsMix
<1>3. \A p \in DOMAIN patches : Sided(patches[p]) => Sided(patches[p])'
  BY <1>2 DEF Sided, Ends
<1>4. Apart(patches)' BY <1>1, <1>2, <1>3 DEF Know, Apart, Ends
<1>5. ASSUME NEW p \in DOMAIN patches, NEW c
      PROVE  PortsOf(OtherEnd(patches[p], c))' = PortsOf(OtherEnd(patches[p], c))
  BY <1>5 DEF Keep, PortsOf, OtherEnd, Ends
<1>6. ASSUME NEW c PROVE DevicesBy(patches, c)' = DevicesBy(patches, c)
  BY <1>5 DEF DevicesBy, Ends
<1> QED BY <1>1, <1>4, <1>6 DEF Know

\* Patches when one of them is set by a client that keeps to one patch each.
LEMMA ApartWith ==
  ASSUME OneEach, Apart(patches), NEW id, id # 0, NEW patch \in Requests, Unshared(id, patch),
         SetPatch(id, patch)
  PROVE  Apart(patches')
<1> USE DEF SetPatch
<1>1. ASSUME NEW p \in DOMAIN patches' PROVE patches'[p] = IF p = id THEN patch ELSE patches[p]
  OBVIOUS
<1>2. ASSUME NEW p \in DOMAIN patches' PROVE p # 0 /\ Sided(patches'[p])
  BY <1>1, RequestIsSided DEF Apart
<1>3. ASSUME NEW p \in DOMAIN patches', NEW q \in DOMAIN patches', p # q,
             NEW c \in Ends(patches'[p]) \cap Ends(patches'[q])
      PROVE  ~IsMix(c)
  BY <1>1, <1>3 DEF Apart, Unshared, Ends
<1> QED BY <1>2, <1>3 DEF Apart

\* What streams know when they have been told of a change of patches.
LEMMA ToldRight ==
  ASSUME Know, Apart(patches'), UNCHANGED portVars, NEW old, NEW new, StreamsTold(old, new),
         \A c \in DOMAIN streams :
           /\ c \in DOMAIN old => DevicesBy(patches, c) = PortsOf(old[c])
           /\ c \in DOMAIN new => DevicesBy(patches', c) = PortsOf(new[c])
           /\ c \in DOMAIN old \ DOMAIN new => DevicesBy(patches', c) = {}
           /\ c \notin DOMAIN old \cup DOMAIN new => DevicesBy(patches', c) = DevicesBy(patches, c)
  PROVE  Know' /\ streams' = [c \in DOMAIN streams' |-> streams'[c]]
<1> USE DEF portVars
<1>1. DOMAIN streams' = DOMAIN streams /\ streams' = [c \in DOMAIN streams' |-> streams'[c]]
  BY DEF StreamsTold
<1>2. ASSUME NEW c \in DOMAIN streams PROVE streams'[c] = DevicesBy(patches', c)
  <2>1. streams[c] = DevicesBy(patches, c) BY DEF Know
  <2>2. streams'[c] = IF c \in DOMAIN old \ DOMAIN new THEN {}
                      ELSE IF c \in Reconnected(old, new) THEN PortsOf(new[c])
                      ELSE streams[c]
    BY DEF StreamsTold, Disconnected
  <2>3. CASE c \in DOMAIN new
    <3>1. CASE c \in Reconnected(old, new) BY <2>2, <2>3, <3>1
    <3>2. CASE c \notin Reconnected(old, new)
      <4>1. c \in DOMAIN old /\ old[c] = new[c] BY <2>3, <3>2 DEF Reconnected
      <4> QED BY <2>1, <2>2, <2>3, <3>2, <4>1
    <3> QED BY <3>1, <3>2
  <2>4. CASE c \notin DOMAIN new
    <3>1. c \notin Reconnected(old, new) BY <2>4 DEF Reconnected
    <3> QED BY <2>1, <2>2, <2>4, <3>1
  <2> QED BY <2>3, <2>4
<1>3. \A c : DevicesBy(patches, c)' = DevicesBy(patches', c)
  BY DEF DevicesBy, PortsOf, OtherEnd, Ends
<1>4. Apart(patches)' BY DEF Apart, Sided, Ends, IsMix
<1> QED BY <1>1, <1>2, <1>3, <1>4 DEF Know

LEMMA CreateKnows ==
  ASSUME OneEach, TypeOK, Know, NEW patch \in Requests, Unshared(0, patch),
         UNCHANGED portVars, CreatePatch(patch)
  PROVE  Know' /\ streams' = [c \in DOMAIN streams' |-> streams'[c]]
<1> DEFINE id == nextPatchId
           new == Connections(patch)
<1>1. id \notin DOMAIN patches /\ id # 0 BY DEF TypeOK
<1>2. SetPatch(id, patch) /\ StreamsTold(NotConnected, new) BY DEF CreatePatch
<1>3. Unshared(id, patch) /\ Apart(patches) BY <1>1 DEF Unshared, Know, Apart
<1>4. Apart(patches') BY <1>1, <1>2, <1>3, ApartWith
<1>5. Sided(patch) BY RequestIsSided
<1>6. id \in DOMAIN patches' /\ patches'[id] = patch BY <1>2 DEF SetPatch
<1>7. \A p \in DOMAIN patches : p \in DOMAIN patches' /\ patches'[p] = patches[p]
  BY <1>1, <1>2 DEF SetPatch
<1>8. DOMAIN patches' = DOMAIN patches \cup {id} BY <1>2 DEF SetPatch
<1>9. ASSUME NEW c \in DOMAIN streams
      PROVE  /\ c \in DOMAIN new => DevicesBy(patches', c) = PortsOf(new[c])
             /\ c \notin DOMAIN new => DevicesBy(patches', c) = DevicesBy(patches, c)
  <2>1. IsMix(c) BY DEF TypeOK
  <2>2. /\ c \in DOMAIN new <=> c \in Ends(patch)
        /\ c \in Ends(patch) => new[c] = OtherEnd(patch, c)
    BY <1>5, ConnectionsOfStreams
  <2>3. CASE c \in Ends(patch) BY <1>4, <1>6, <2>1, <2>2, <2>3, DevicesInOnePatch
  <2>4. CASE c \notin Ends(patch)
    <3>1. {q \in DOMAIN patches' : c \in Ends(patches'[q])}
            = {q \in DOMAIN patches : c \in Ends(patches[q])}
      BY <1>6, <1>7, <1>8, <2>4
    <3> QED BY <1>7, <2>2, <2>4, <3>1 DEF DevicesBy
  <2> QED BY <2>3, <2>4
<1>10. DOMAIN NotConnected = {} BY DEF NotConnected
<1> HIDE DEF id, new
<1> QED BY <1>2, <1>4, <1>9, <1>10, ToldRight

\* The patch id is all that a stream on one of its configs is connected by.
LEMMA ThisPatchOnly ==
  ASSUME TypeOK, Know, NEW id \in DOMAIN patches, NEW c \in DOMAIN streams
  PROVE  /\ c \in DOMAIN Connections(patches[id]) <=> c \in Ends(patches[id])
         /\ c \in Ends(patches[id]) =>
              /\ streams[c] = PortsOf(Connections(patches[id])[c])
              /\ \A p \in DOMAIN patches \ {id} : c \notin Ends(patches[p])
<1>1. IsMix(c) /\ Sided(patches[id]) /\ Apart(patches) BY DEF TypeOK, Know, Apart
<1>2. c \in Ends(patches[id]) => DevicesBy(patches, c) = PortsOf(OtherEnd(patches[id], c))
  BY <1>1, DevicesInOnePatch
<1>3. c \in Ends(patches[id]) => \A p \in DOMAIN patches \ {id} : c \notin Ends(patches[p])
  BY <1>1 DEF Apart
<1> QED BY <1>1, <1>2, <1>3, ConnectionsOfStreams DEF Know

LEMMA UpdateKnows ==
  ASSUME OneEach, TypeOK, Know, NEW patch \in Requests, NEW id \in DOMAIN patches \ {0},
         Unshared(id, patch), UNCHANGED portVars, UpdatePatch(id, patch)
  PROVE  Know' /\ streams' = [c \in DOMAIN streams' |-> streams'[c]]
<1> DEFINE old == Connections(patches[id])
           new == Connections(patch)
<1>1. SetPatch(id, patch) /\ StreamsTold(old, new) BY DEF UpdatePatch
<1>2. Apart(patches') BY <1>1, ApartWith DEF Know
<1>3. Sided(patch) BY RequestIsSided
<1>4. /\ DOMAIN patches' = DOMAIN patches /\ patches'[id] = patch
      /\ \A p \in DOMAIN patches \ {id} : patches'[p] = patches[p]
  BY <1>1 DEF SetPatch
<1>5. ASSUME NEW c \in DOMAIN streams
      PROVE  /\ c \in DOMAIN old => DevicesBy(patches, c) = PortsOf(old[c])
             /\ c \in DOMAIN new => DevicesBy(patches', c) = PortsOf(new[c])
             /\ c \in DOMAIN old \ DOMAIN new => DevicesBy(patches', c) = {}
             /\ c \notin DOMAIN old \cup DOMAIN new =>
                  DevicesBy(patches', c) = DevicesBy(patches, c)
  <2>1. IsMix(c) BY DEF TypeOK
  <2>2. /\ c \in DOMAIN new <=> c \in Ends(patch)
        /\ c \in Ends(patch) => new[c] = OtherEnd(patch, c)
    BY <1>3, ConnectionsOfStreams
  <2>3. /\ c \in DOMAIN old <=> c \in Ends(patches[id])
        /\ c \in Ends(patches[id]) =>
             /\ streams[c] = PortsOf(old[c])
             /\ \A p \in DOMAIN patches \ {id} : c \notin Ends(patches[p])
    BY ThisPatchOnly
  <2>4. streams[c] = DevicesBy(patches, c) BY DEF Know
  <2>5. c \in Ends(patch) => DevicesBy(patches', c) = PortsOf(new[c])
    BY <1>2, <1>4, <2>1, <2>2, DevicesInOnePatch
  <2>6. c \in Ends(patches[id]) /\ c \notin Ends(patch) => DevicesBy(patches', c) = {}
    BY <1>4, <2>3, DevicesInNoPatch
  <2>7. ASSUME c \notin Ends(patches[id]), c \notin Ends(patch)
        PROVE  DevicesBy(patches', c) = DevicesBy(patches, c)
    <3>1. {q \in DOMAIN patches' : c \in Ends(patches'[q])}
            = {q \in DOMAIN patches : c \in Ends(patches[q])}
      BY <1>4, <2>7
    <3>2. \A q \in DOMAIN patches : c \in Ends(patches[q]) => patches'[q] = patches[q]
      BY <1>4, <2>7
    <3> QED BY <3>1, <3>2 DEF DevicesBy
  <2> HIDE DEF old, new
  <2> QED BY <2>2, <2>3, <2>4, <2>5, <2>6, <2>7
<1> HIDE DEF old, new
<1> QED BY <1>1, <1>2, <1>5, ToldRight

LEMMA RemoveKnows ==
  ASSUME TypeOK, Know, NEW id \in DOMAIN patches, UNCHANGED portVars, RemovePatch(id)
  PROVE  Know' /\ streams' = [c \in DOMAIN streams' |-> streams'[c]]
<1> DEFINE old == Connections(patches[id])
<1>1. StreamsTold(old, NotConnected) BY DEF RemovePatch
<1>2. /\ DOMAIN patches' = DOMAIN patches \ {id}
      /\ \A p \in DOMAIN patches' : patches'[p] = patches[p]
  BY DEF RemovePatch, Restrict
<1>3. Apart(patches') BY <1>2 DEF Know, Apart
<1>4. ASSUME NEW c \in DOMAIN streams
      PROVE  /\ c \in DOMAIN old => DevicesBy(patches, c) = PortsOf(old[c])
             /\ c \in DOMAIN old => DevicesBy(patches', c) = {}
             /\ c \notin DOMAIN old => DevicesBy(patches', c) = DevicesBy(patches, c)
  <2>1. /\ c \in DOMAIN old <=> c \in Ends(patches[id])
        /\ c \in Ends(patches[id]) =>
             /\ streams[c] = PortsOf(old[c])
             /\ \A p \in DOMAIN patches \ {id} : c \notin Ends(patches[p])
    BY ThisPatchOnly
  <2>2. streams[c] = DevicesBy(patches, c) BY DEF Know
  <2>3. c \in Ends(patches[id]) => DevicesBy(patches', c) = {}
    BY <1>2, <2>1, DevicesInNoPatch
  <2>4. ASSUME c \notin Ends(patches[id])
        PROVE  DevicesBy(patches', c) = DevicesBy(patches, c)
    <3>1. {q \in DOMAIN patches' : c \in Ends(patches'[q])}
            = {q \in DOMAIN patches : c \in Ends(patches[q])}
      BY <1>2, <2>4
    <3> QED BY <1>2, <3>1 DEF DevicesBy
  <2> HIDE DEF old
  <2> QED BY <2>1, <2>2, <2>3, <2>4
<1>5. DOMAIN NotConnected = {} BY DEF NotConnected
<1> HIDE DEF old
<1> QED BY <1>1, <1>3, <1>4, <1>5, ToldRight

\* A rollback leaves streams as they were, those that the patch id is of or no
\* patch at all.
LEMMA RollbackSame ==
  ASSUME TypeOK, KInv, ~spoiled, NEW id \in DOMAIN patches, NEW told,
         Rollback(told, Connections(patches[id])),
         \A c \in DOMAIN streams \cap told : c \notin Ends(patches[id]) =>
           \A p \in DOMAIN patches : c \notin Ends(patches[p])
  PROVE  streams' = streams
<1> DEFINE old == Connections(patches[id])
<1>1. streams = [c \in DOMAIN streams |-> streams[c]] /\ Know BY DEF KInv
<1>2. ASSUME NEW c \in DOMAIN streams \cap told PROVE RolledBack(c, old) = streams[c]
  <2>1. /\ c \in DOMAIN old <=> c \in Ends(patches[id])
        /\ c \in Ends(patches[id]) => streams[c] = PortsOf(old[c])
    BY <1>1, ThisPatchOnly
  <2>2. c \notin Ends(patches[id]) => streams[c] = {}
    BY <1>1, DevicesInNoPatch DEF Know
  <2> HIDE DEF old
  <2> QED BY <2>1, <2>2 DEF RolledBack
<1>3. CASE ~RollbackFatal(told, old)
  <2>1. streams' = [c \in DOMAIN streams |->
                      IF c \in told THEN RolledBack(c, old) ELSE streams[c]]
    BY <1>3 DEF Rollback
  <2> HIDE DEF old
  <2>2. [c \in DOMAIN streams |-> IF c \in told THEN RolledBack(c, old) ELSE streams[c]]
          = [c \in DOMAIN streams |-> streams[c]]
    BY <1>2
  <2> QED BY <1>1, <2>1, <2>2
<1>4. CASE RollbackFatal(told, old) BY <1>4 DEF Rollback
<1> QED BY <1>3, <1>4

\* The streams that have been told are on configs of the old patch or the new.
LEMMA ToldAre ==
  ASSUME NEW old, NEW new, NEW failed
  PROVE  \A c \in Told(failed, old, new) : c \in DOMAIN old \/ c \in DOMAIN new
  BY DEF Told, Disconnected, Reconnected

LEMMA UpdateRefusedSame ==
  ASSUME OneEach, TypeOK, KInv, ~spoiled, NEW patch \in Requests,
         NEW id \in DOMAIN patches \ {0}, Unshared(id, patch), UpdateRefused(id, patch)
  PROVE  streams' = streams
<1> DEFINE old == Connections(patches[id])
           new == Connections(patch)
<1>1. PICK failed : Rollback(Told(failed, old, new), old) BY DEF UpdateRefused
<1>2. Know /\ Sided(patch) BY RequestIsSided DEF KInv
<1>3. ASSUME NEW c \in DOMAIN streams \cap Told(failed, old, new), c \notin Ends(patches[id])
      PROVE  \A p \in DOMAIN patches : c \notin Ends(patches[p])
  <2>1. c \notin DOMAIN old BY <1>2, <1>3, ThisPatchOnly
  <2>2. c \in DOMAIN old \/ c \in DOMAIN new BY ToldAre
  <2>3. c \in Ends(patch) BY <1>2, <2>1, <2>2, ConnectionsOfStreams
  <2>4. IsMix(c) BY DEF TypeOK
  <2> QED BY <1>3, <2>3, <2>4 DEF Unshared
<1> QED BY <1>1, <1>3, RollbackSame

LEMMA CreateRefusedSame ==
  ASSUME OneEach, TypeOK, KInv, ~spoiled, NEW patch \in Requests, Unshared(0, patch),
         CreateRefused(patch)
  PROVE  streams' = streams
<1> DEFINE new == Connections(patch)
<1>1. PICK failed : streams' = [c \in DOMAIN streams |->
                      IF c \in Told(failed, NotConnected, new) THEN {} ELSE streams[c]]
  BY DEF CreateRefused
<1>2. streams = [c \in DOMAIN streams |-> streams[c]] /\ Know /\ Sided(patch)
  BY RequestIsSided DEF KInv
<1>3. ASSUME NEW c \in DOMAIN streams, c \in Told(failed, NotConnected, new)
      PROVE  streams[c] = {}
  <2>1. c \in DOMAIN new BY <1>3, ToldAre DEF NotConnected
  <2>2. c \in Ends(patch) BY <1>2, <2>1, ConnectionsOfStreams
  <2>3. IsMix(c) BY DEF TypeOK
  <2>4. \A p \in DOMAIN patches : c \notin Ends(patches[p])
    BY <1>2, <2>2, <2>3 DEF Unshared, Know, Apart
  <2> QED BY <1>2, <2>4, DevicesInNoPatch DEF Know
<1> HIDE DEF new
<1>4. [c \in DOMAIN streams |-> IF c \in Told(failed, NotConnected, new) THEN {} ELSE streams[c]]
        = [c \in DOMAIN streams |-> streams[c]]
  BY <1>3
<1> QED BY <1>1, <1>2, <1>4

LEMMA ResetRefusedSame ==
  ASSUME TypeOK, KInv, ~spoiled, NEW id \in DOMAIN patches, ResetRefused(id)
  PROVE  streams' = streams
<1> DEFINE old == Connections(patches[id])
<1>1. PICK failed : Rollback(Told(failed, old, NotConnected), old) BY DEF ResetRefused
<1>2. ASSUME NEW c \in DOMAIN streams \cap Told(failed, old, NotConnected)
      PROVE  c \in Ends(patches[id])
  <2>1. c \in DOMAIN old BY ToldAre DEF NotConnected
  <2> QED BY <2>1, ThisPatchOnly DEF KInv
<1> QED BY <1>1, <1>2, RollbackSame

\* A new stream asks the index for its patches.
LEMMA OpenKnows ==
  ASSUME IInv, NumbersApart, Know, ~spoiled, NEW config \in DOMAIN portConfigs,
         OpenAudioStream(config), ~FindFatal(config)
  PROVE  Know'
<1> USE DEF OpenAudioStream
<1>1. IsMix(config) BY DEF MayOpen
<1>2. config \notin ports
  <2>1. config \notin DevicePorts
    BY <1>1, PortsAssumption DEF NumbersApart, IsMix
  <2> QED BY <2>1 DEF NumbersApart
<1>3. ASSUME NEW p \in DOMAIN patches
      PROVE  <<config, p>> \in mPatches <=> config \in Ends(patches[p])
  <2>1. IdsOf(patches[p]) \X {p} \subseteq mPatches BY DEF IInv, IndexComplete
  <2>2. config \in Ends(patches[p]) => <<config, p>> \in mPatches BY <2>1 DEF IdsOf
  <2>3. Ends(patches[p]) \subseteq DOMAIN portConfigs BY DEF Know, Apart, Sided
  <2>4. PortsOf(Ends(patches[p])) \subseteq ports
    BY <2>3 DEF PortsOf, IInv, TypeOK, PortsTypeOK
  <2>5. <<config, p>> \in mPatches => config \in IdsOf(patches[p])
    BY DEF IInv, IndexSound
  <2> QED BY <1>2, <2>2, <2>4, <2>5 DEF IdsOf
<1>4. \A entry \in mPatches : entry = <<entry[1], entry[2]>> BY DEF IInv, TypeOK
<1>5. PatchesOn(config) \cap DOMAIN patches = {p \in DOMAIN patches : config \in Ends(patches[p])}
  <2>1. ASSUME NEW p PROVE p \in PatchesOn(config) <=> <<config, p>> \in mPatches
    <3>1. p \in PatchesOn(config) => <<config, p>> \in mPatches BY <1>4 DEF PatchesOn
    <3>2. <<config, p>> \in mPatches => p \in PatchesOn(config)
      <4>1. <<config, p>>[1] = config /\ <<config, p>>[2] = p OBVIOUS
      <4> QED BY <4>1, Zenon DEF PatchesOn
    <3> QED BY <3>1, <3>2
  <2> QED BY <1>3, <2>1
<1>6. ConnectedConfigs(config)
        = UNION {OtherEnd(patches[p], config) :
                   p \in {q \in DOMAIN patches : config \in Ends(patches[q])}}
  BY <1>5 DEF ConnectedConfigs
<1>7. PortsOf(ConnectedConfigs(config)) = DevicesBy(patches, config)
  BY <1>6 DEF DevicesBy, PortsOf
<1>8. \A d \in DOMAIN streams' : streams'[d] = DevicesBy(patches, d)
  BY <1>7 DEF Know
<1>9. Apart(patches)' BY DEF Know, Apart, Sided, Ends, IsMix, portVars
<1>10. \A d : DevicesBy(patches, d)' = DevicesBy(patches, d)
  BY DEF DevicesBy, PortsOf, OtherEnd, Ends, portVars
<1> QED BY <1>8, <1>9, <1>10 DEF Know

LEMMA InitKInv == Init => KInv
<1> SUFFICES ASSUME Init PROVE KInv OBVIOUS
<1> USE DEF Init, PortsInit
<1>1. NumbersApart BY PortsAssumption DEF NumbersApart, ConfigExists, InitialPorts
<1>2. streams = [c \in DOMAIN streams |-> streams[c]] OBVIOUS
<1>3. DOMAIN patches = {} /\ DOMAIN streams = {} OBVIOUS
<1>4. Know BY <1>3 DEF Know, Apart
<1> QED BY <1>1, <1>2, <1>4 DEF KInv

\* Calls that change ports and configs keep those of patches and streams.
LEMMA PortCallsKInv ==
  ASSUME IInv, KInv, UNCHANGED moduleVars,
         \/ ConnectExternalDevice
         \/ \E c \in DOMAIN connected : DisconnectExternalDevice(c)
         \/ \E port \in ports : SetAudioPortConfig(port)
         \/ \E c \in DOMAIN portConfigs : ResetAudioPortConfig(c)
  PROVE  KInv'
<1>1. /\ TypeOK /\ NumbersApart
      /\ nextPortId \notin ports /\ nextPortId \notin DOMAIN portConfigs
  BY NewNumber DEF IInv, TypeOK, KInv
<1>2. DOMAIN streams \subseteq DOMAIN portConfigs BY DEF IInv, TypeOK
<1>3. ~spoiled => \A p \in DOMAIN patches : Ends(patches[p]) \subseteq DOMAIN portConfigs
  BY DEF KInv, Know, Apart, Sided
<1>4. CASE ConnectExternalDevice
  <2>1. portConfigs' = portConfigs /\ ports' \subseteq ports \cup {nextPortId}
    BY <1>4 DEF ConnectExternalDevice, ConnectFails, Connect
  <2>2. NumbersApart' BY <1>1, <2>1 DEF NumbersApart, ConfigExists
  <2>3. Keep(DOMAIN portConfigs) BY <2>1 DEF Keep
  <2> QED BY <1>1, <1>2, <1>3, <2>2, <2>3, PortsKInv DEF Keep
<1>5. CASE \E c \in DOMAIN connected : DisconnectExternalDevice(c)
  <2>1. portConfigs' = portConfigs /\ ports' \subseteq ports
    BY <1>5 DEF DisconnectExternalDevice
  <2>2. NumbersApart' BY <1>1, <2>1 DEF NumbersApart, ConfigExists
  <2>3. Keep(DOMAIN portConfigs) BY <2>1 DEF Keep
  <2> QED BY <1>1, <1>2, <1>3, <2>2, <2>3, PortsKInv DEF Keep
<1>6. CASE \E port \in ports : SetAudioPortConfig(port)
  <2>1. ports' = ports /\ DOMAIN portConfigs' = DOMAIN portConfigs \cup {nextPortId}
    BY <1>6 DEF SetAudioPortConfig
  <2>2. Keep(DOMAIN portConfigs) BY <1>1, <1>6 DEF Keep, SetAudioPortConfig
  <2>3. NumbersApart' BY <1>1, <2>1, <2>2 DEF NumbersApart, ConfigExists, Keep
  <2> QED BY <1>1, <1>2, <1>3, <2>2, <2>3, PortsKInv DEF Keep
<1>7. CASE \E c \in DOMAIN portConfigs : ResetAudioPortConfig(c)
  <2>1. PICK config \in DOMAIN portConfigs : IsUnused(config) /\ RemovePortConfig(config)
    BY <1>7 DEF ResetAudioPortConfig
  <2>2. /\ Keep(DOMAIN portConfigs \ {config}) /\ ports' = ports
        /\ DOMAIN portConfigs' \subseteq DOMAIN portConfigs
        /\ config \in DevicePorts => portConfigs' = portConfigs
    BY <2>1 DEF RemovePortConfig, Keep, Restrict
  <2>3. NumbersApart' BY <1>1, <2>2 DEF NumbersApart, ConfigExists, Keep
  <2>4. Keep(DOMAIN streams) BY <1>2, <2>1, <2>2 DEF Keep, IsUnused
  <2>5. ASSUME ~spoiled, NEW p \in DOMAIN patches PROVE Keep(Ends(patches[p]))
    <3>1. IdsOf(patches[p]) \X {p} \subseteq mPatches BY <2>5 DEF IInv, IndexComplete
    <3>2. config \in Ends(patches[p]) => <<config, p>> \in mPatches BY <3>1 DEF IdsOf
    <3>3. config \notin Ends(patches[p]) BY <2>1, <3>2 DEF IsUnused
    <3> QED BY <1>3, <2>2, <2>5, <3>3 DEF Keep
  <2> QED BY <1>1, <2>3, <2>4, <2>5, PortsKInv
<1> QED BY <1>4, <1>5, <1>6, <1>7

\* Calls that leave ports and configs alone.
LEMMA NumbersKept == NumbersApart /\ UNCHANGED portVars => NumbersApart'
  BY DEF NumbersApart, ConfigExists, portVars

LEMMA KnowKept ==
  ASSUME Know, UNCHANGED <<portVars, patches>>, DOMAIN streams' \subseteq DOMAIN streams,
         \A c \in DOMAIN streams' : streams'[c] = streams[c]
  PROVE  Know'
<1> USE DEF portVars
<1>1. Apart(patches)' BY DEF Know, Apart, Sided, Ends, IsMix
<1>2. \A c : DevicesBy(patches, c)' = DevicesBy(patches, c)
  BY DEF DevicesBy, PortsOf, OtherEnd, Ends
<1> QED BY <1>1, <1>2 DEF Know

LEMMA StepKInv == ASSUME OneEach PROVE IInv /\ KInv /\ [Next]_vars => KInv'
<1> SUFFICES ASSUME IInv, KInv, [Next]_vars PROVE KInv' OBVIOUS
<1>1. TypeOK /\ NumbersApart /\ (~spoiled => Know) /\ spoiled \in BOOLEAN
  BY DEF IInv, TypeOK, KInv
<1>2. CASE \E patch \in Requests : Unshared(0, patch) /\ CreatePatch(patch) /\ UNCHANGED portVars
  <2>1. NumbersApart' BY <1>1, <1>2, NumbersKept
  <2>2. CASE ~spoiled BY <1>1, <1>2, <2>1, <2>2, CreateKnows DEF KInv
  <2>3. CASE spoiled
    <3>1. spoiled' BY <1>2, <2>3 DEF CreatePatch
    <3>2. streams' = [c \in DOMAIN streams' |-> streams'[c]]
      BY <1>2 DEF CreatePatch, StreamsTold
    <3> QED BY <2>1, <3>1, <3>2 DEF KInv
  <2> QED BY <2>2, <2>3
<1>3. CASE \E patch \in Requests : CreateRefused(patch) /\ UNCHANGED portVars
  <2>1. NumbersApart' BY <1>1, <1>3, NumbersKept
  <2>2. spoiled' BY <1>3 DEF CreateRefused
  <2>3. streams' = [c \in DOMAIN streams' |-> streams'[c]] BY <1>3 DEF CreateRefused
  <2> QED BY <2>1, <2>2, <2>3 DEF KInv
<1>4. CASE \E patch \in Requests, id \in DOMAIN patches \ {0} :
             Unshared(id, patch) /\ UpdatePatch(id, patch) /\ UNCHANGED portVars
  <2>1. NumbersApart' BY <1>1, <1>4, NumbersKept
  <2>2. CASE ~spoiled BY <1>1, <1>4, <2>1, <2>2, UpdateKnows DEF KInv
  <2>3. CASE spoiled
    <3>1. spoiled' BY <1>4, <2>3 DEF UpdatePatch
    <3>2. streams' = [c \in DOMAIN streams' |-> streams'[c]]
      BY <1>4 DEF UpdatePatch, StreamsTold
    <3> QED BY <2>1, <3>1, <3>2 DEF KInv
  <2> QED BY <2>2, <2>3
<1>5. CASE \E patch \in Requests, id \in DOMAIN patches \ {0} :
             UpdateRefused(id, patch) /\ UNCHANGED portVars
  <2>1. NumbersApart' BY <1>1, <1>5, NumbersKept
  <2>2. spoiled' BY <1>5 DEF UpdateRefused
  <2>3. streams' = [c \in DOMAIN streams' |-> streams'[c]]
    BY <1>5 DEF UpdateRefused, Rollback, KInv
  <2> QED BY <2>1, <2>2, <2>3 DEF KInv
<1>6. CASE \E id \in DOMAIN patches : RemovePatch(id) /\ UNCHANGED portVars
  <2>1. NumbersApart' BY <1>1, <1>6, NumbersKept
  <2>2. CASE ~spoiled BY <1>1, <1>6, <2>1, <2>2, RemoveKnows DEF KInv
  <2>3. CASE spoiled
    <3>1. spoiled' BY <1>6, <2>3 DEF RemovePatch
    <3>2. streams' = [c \in DOMAIN streams' |-> streams'[c]]
      BY <1>6 DEF RemovePatch, StreamsTold
    <3> QED BY <2>1, <3>1, <3>2 DEF KInv
  <2> QED BY <2>2, <2>3
<1>7. CASE \E id \in DOMAIN patches : ResetRefused(id) /\ UNCHANGED portVars
  <2>1. NumbersApart' /\ UNCHANGED <<portVars, patches, spoiled>>
    BY <1>1, <1>7, NumbersKept DEF ResetRefused
  <2>2. CASE ~spoiled
    <3>1. streams' = streams BY <1>1, <1>7, <2>2, ResetRefusedSame
    <3> QED BY <2>1, <2>2, <3>1, <1>1, KnowKept DEF KInv
  <2>3. CASE spoiled
    <3>1. streams' = [c \in DOMAIN streams' |-> streams'[c]]
      BY <1>7 DEF ResetRefused, Rollback, KInv
    <3> QED BY <2>1, <2>3, <3>1 DEF KInv
  <2> QED BY <2>2, <2>3
<1>8. CASE \E c \in DOMAIN portConfigs : OpenAudioStream(c)
  <2>1. PICK config \in DOMAIN portConfigs : OpenAudioStream(config) BY <1>8
  <2>2. NumbersApart' BY <1>1, <2>1, NumbersKept DEF OpenAudioStream
  <2>3. CASE FindFatal(config)
    <3>1. UNCHANGED <<portVars, patches, streams, spoiled>> BY <2>1, <2>3 DEF OpenAudioStream
    <3> QED BY <1>1, <2>2, <3>1, KnowKept DEF KInv
  <2>4. CASE ~FindFatal(config)
    <3>1. spoiled' = spoiled /\ streams' = [c \in DOMAIN streams' |-> streams'[c]]
      BY <2>1, <2>4 DEF OpenAudioStream
    <3> QED BY <1>1, <2>1, <2>2, <2>4, <3>1, OpenKnows DEF KInv
  <2> QED BY <2>3, <2>4
<1>9. CASE \E c \in DOMAIN streams : CloseAudioStream(c)
  <2>1. PICK config \in DOMAIN streams : CloseAudioStream(config) BY <1>9
  <2>2. NumbersApart' BY <1>1, <2>1, NumbersKept DEF CloseAudioStream
  <2>3. /\ spoiled' = spoiled /\ UNCHANGED <<portVars, patches>>
        /\ streams' = [c \in DOMAIN streams' |-> streams'[c]]
        /\ DOMAIN streams' \subseteq DOMAIN streams
        /\ \A c \in DOMAIN streams' : streams'[c] = streams[c]
    BY <2>1 DEF CloseAudioStream, Restrict
  <2> QED BY <1>1, <2>2, <2>3, KnowKept DEF KInv
<1>10. CASE UNCHANGED vars
  <2>1. UNCHANGED <<portVars, patches, streams, spoiled>> BY <1>10 DEF vars, moduleVars
  <2> QED BY <1>1, <2>1, NumbersKept, KnowKept DEF KInv
<1>11. CASE \/ ConnectExternalDevice /\ UNCHANGED moduleVars
            \/ \E c \in DOMAIN connected : DisconnectExternalDevice(c) /\ UNCHANGED moduleVars
            \/ \E port \in ports : SetAudioPortConfig(port) /\ UNCHANGED moduleVars
            \/ \E c \in DOMAIN portConfigs : ResetAudioPortConfig(c)
  BY <1>11, PortCallsKInv DEF ResetAudioPortConfig
<1> QED BY <1>2, <1>3, <1>4, <1>5, <1>6, <1>7, <1>8, <1>9, <1>10, <1>11
    DEF Next, SetAudioPatch, ResetAudioPatch

\* An open stream knows the devices that the patches connect it to, in whatever
\* order streams, patches, configs and devices come and go, as long as clients
\* keep a mix port config to one patch and no request has been refused
\* (updateStreamsConnectedState, openInputStream, openOutputStream).
THEOREM StreamsAlwaysKnow == ASSUME OneEach PROVE Spec => []StreamsKnowTheirDevices
<1>1. KInv => StreamsKnowTheirDevices
  BY DEF KInv, Know, DevicesBy, StreamsKnowTheirDevices
<1> QED BY <1>1, AlwaysIInv, InitKInv, StepKInv, PTL DEF Spec

\* A refused request leaves every stream with the devices it had, whichever
\* stream refuses and however many have been told before it (setAudioPatch).
THEOREM RollbackAlwaysRestores == ASSUME OneEach PROVE Spec => RollbackRestores
<1>1. IInv /\ KInv /\ [Next]_vars => [~spoiled /\ spoiled' => streams' = streams]_vars
  <2> SUFFICES ASSUME IInv, KInv, Next, ~spoiled, spoiled' PROVE streams' = streams
    OBVIOUS
  <2>1. TypeOK BY DEF IInv
  <2>2. CASE \E patch \in Requests : Unshared(0, patch) /\ CreateRefused(patch)
    BY <2>1, <2>2, CreateRefusedSame
  <2>3. CASE \E patch \in Requests, id \in DOMAIN patches \ {0} :
               Unshared(id, patch) /\ UpdateRefused(id, patch)
    BY <2>1, <2>3, UpdateRefusedSame
  <2>4. CASE UNCHANGED spoiled BY <2>4
  <2> QED BY <2>2, <2>3, <2>4
      DEF Next, moduleVars, SetAudioPatch, CreatePatch, UpdatePatch, ResetAudioPatch,
          RemovePatch, ResetRefused, ResetAudioPortConfig, OpenAudioStream, CloseAudioStream
<1> QED BY <1>1, AlwaysIInv, InitKInv, StepKInv, PTL DEF Spec, RollbackRestores
=============================================================================
