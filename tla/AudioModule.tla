---------------------------- MODULE AudioModule ----------------------------
(***************************************************************************)
(* The patches and the streams of an audio module (class Module): clients  *)
(* connect port configs by patches, open streams on mix port configs, and  *)
(* the module tells every stream which devices it is connected to.         *)
(*                                                                         *)
(* The framework makes one call at a time, and a step is a whole call with *)
(* everything that it does, a rollback included.  A stream may refuse the  *)
(* devices it is told (the primary stream takes one device, a USB stream   *)
(* those with a known address); it always takes back devices it had.       *)
(***************************************************************************)
EXTENDS AudioPorts

CONSTANTS
  Refusals,     \* the calls in which streams may refuse devices
  OneEach,      \* clients have a mix port config in one patch at a time
  MaxEnds,      \* the bound on the ends of a patch on either side
  MaxStreams,   \* maxOpenStreamCount of each mix port, 0 for no limit
  MaxPatchId    \* the bound on patches

ASSUME ModuleAssumption ==
  /\ Refusals \subseteq {"create", "update", "reset"}
  /\ OneEach \in BOOLEAN
  /\ MaxStreams \in [MixPorts -> Nat]
  /\ MaxPatchId \in Nat /\ MaxEnds \in Nat

VARIABLES
  patches,      \* the patches of the configuration
  mPatches,     \* the index from port configs and ports to patches
  nextPatchId,  \* the counter for patches
  streams,      \* the open streams, by port config: the devices of each
  fatal,        \* the process has aborted
  spoiled       \* (history) a refused setAudioPatch has come before

moduleVars == <<patches, mPatches, nextPatchId, streams, fatal, spoiled>>
vars == <<portVars, moduleVars>>

NoPatch == [sources |-> {}, sinks |-> {}]

Patch == [sources : SUBSET Nat, sinks : SUBSET Nat]

TypeOK ==
  /\ PortsTypeOK
  /\ nextPatchId \in Nat \ {0}
  /\ DOMAIN patches \subseteq 0 .. (nextPatchId - 1)
  /\ \A p \in DOMAIN patches : patches[p] \in Patch
  /\ mPatches \subseteq Nat \X (1 .. (nextPatchId - 1))
  /\ DOMAIN streams \subseteq DOMAIN portConfigs
  /\ \A c \in DOMAIN streams : IsMix(c) /\ streams[c] \subseteq Nat
  /\ fatal \in BOOLEAN /\ spoiled \in BOOLEAN

Init ==
  /\ PortsInit
  /\ patches = [p \in {} |-> NoPatch]
  /\ mPatches = {}
  /\ nextPatchId = 1
  /\ streams = [c \in {} |-> {}]
  /\ fatal = FALSE /\ spoiled = FALSE

----------------------------------------------------------------------------
(* The index of patches. *)

Ends(patch) == patch.sources \cup patch.sinks

IdsOf(patch) == Ends(patch) \cup PortsOf(Ends(patch))

\* Mutant: only the sources are entered.
RegisterSources(id, patch, index) ==
  index \cup ((patch.sources \cup PortsOf(patch.sources)) \X {id})

RegisterPatch(id, patch, index) == index \cup (IdsOf(patch) \X {id})

\* Mutant: the entries stay.
CleanUpNothing(id, index) == index

CleanUpPatch(id, index) == {entry \in index : entry[2] # id}

----------------------------------------------------------------------------
(* Telling streams about their devices: updateStreamsConnectedState. *)

NotConnected == [c \in {} |-> {}]

\* The device port configs of each mix port config of a patch, if some of its
\* mix port configs have a stream.
Connections(patch) ==
  IF patch.sources \cap DOMAIN streams # {}
  THEN [c \in patch.sources |-> patch.sinks]
  ELSE IF patch.sinks \cap DOMAIN streams # {}
  THEN [c \in patch.sinks |-> patch.sources]
  ELSE NotConnected

\* Mutant: every stream of the old patch is disconnected.
AllDisconnected(old, new) == DOMAIN old

Disconnected(old, new) == DOMAIN old \ DOMAIN new

Reconnected(old, new) ==
  {c \in DOMAIN new : c \in DOMAIN old => old[c] # new[c]}

\* The streams that have been told when the one on `failed' refuses: streams
\* are disconnected first, and both steps go by ascending numbers.
Told(failed, old, new) ==
  IF failed \in Disconnected(old, new)
  THEN {c \in Disconnected(old, new) : c <= failed}
  ELSE Disconnected(old, new) \cup {c \in Reconnected(old, new) : c <= failed}

\* Mutant: the rollback disconnects every stream.
RolledBackToNone(c, old) == {}

\* What the rollback tells the stream on c.
RolledBack(c, old) == IF c \in DOMAIN old THEN PortsOf(old[c]) ELSE {}

\* The rollback looks for the devices of configs that have been erased.
RollbackFatal(told, old) ==
  \E c \in told \cap DOMAIN old : \E d \in old[c] : ~ConfigExists(d)

StreamsTold(old, new) ==
  streams' = [c \in DOMAIN streams |->
                IF c \in Disconnected(old, new) THEN {}
                ELSE IF c \in Reconnected(old, new) THEN PortsOf(new[c])
                ELSE streams[c]]

Rollback(told, old) ==
  /\ fatal' = RollbackFatal(told, old)
  /\ IF RollbackFatal(told, old) THEN UNCHANGED streams
     ELSE streams' = [c \in DOMAIN streams |->
                        IF c \in told THEN RolledBack(c, old) ELSE streams[c]]

MayRefuse(old, new) ==
  DOMAIN streams \cap (Disconnected(old, new) \cup Reconnected(old, new))

----------------------------------------------------------------------------
(* setAudioPatch. *)

RoutesFrom(sources) == {r \in audioRoutes : r.sources \cap PortsOf(sources) # {}}

AllowedSinkPorts(sources) == {r.sink : r \in RoutesFrom(sources)}

\* A sink port that only exclusive routes lead to.
IsExclusive(port, sources) ==
  \A r \in RoutesFrom(sources) : r.sink = port => r.exclusive

\* Every exclusive sink port that the sources lead to must be free, whether it
\* is asked for or not.
ExclusiveAreFree(sources, index) ==
  \A port \in AllowedSinkPorts(sources) :
    IsExclusive(port, sources) => \A entry \in index : entry[1] # port

Acceptable(patch, index) ==
  /\ patch.sources # {} /\ patch.sinks # {}
  /\ PortsOf(patch.sinks) \subseteq AllowedSinkPorts(patch.sources)
  /\ ExclusiveAreFree(patch.sources, index)

SetPatch(id, patch) ==
  patches' = [p \in DOMAIN patches \cup {id} |-> IF p = id THEN patch ELSE patches[p]]

CreatePatch(patch) ==
  LET new == Connections(patch) IN
  /\ Acceptable(patch, mPatches)
  /\ nextPatchId <= MaxPatchId
  /\ nextPatchId' = nextPatchId + 1
  /\ SetPatch(nextPatchId, patch)
  /\ mPatches' = RegisterPatch(nextPatchId, patch, mPatches)
  /\ StreamsTold(NotConnected, new)
  /\ UNCHANGED <<fatal, spoiled>>

\* The iterator `existing' was taken before the patch was appended, and is not
\* the end of the list afterwards: instead of the removal of the new patch an
\* empty patch is written through it.  That is a write through a null pointer,
\* or one beside the list, or one that replaces the new patch.
CreateRefused(patch) ==
  LET new == Connections(patch) IN
  /\ "create" \in Refusals
  /\ Acceptable(patch, mPatches)
  /\ nextPatchId <= MaxPatchId
  /\ nextPatchId' = nextPatchId + 1
  /\ \E failed \in MayRefuse(NotConnected, new) :
       streams' = [c \in DOMAIN streams |->
                     IF c \in Told(failed, NotConnected, new) THEN {} ELSE streams[c]]
  /\ \/ fatal' = TRUE /\ UNCHANGED patches
     \/ fatal' = FALSE /\ SetPatch(nextPatchId, patch)
     \/ fatal' = FALSE /\ SetPatch(0, NoPatch)
  /\ spoiled' = TRUE
  /\ UNCHANGED mPatches

UpdatePatch(id, patch) ==
  LET old == Connections(patches[id])
      new == Connections(patch)
  IN
  /\ Acceptable(patch, CleanUpPatch(id, mPatches))
  /\ SetPatch(id, patch)
  /\ mPatches' = RegisterPatch(id, patch, CleanUpPatch(id, mPatches))
  /\ StreamsTold(old, new)
  /\ UNCHANGED <<nextPatchId, fatal, spoiled>>

\* The old patch is put back, but not its entries in the index: the backup of
\* the index has been taken anew after they were removed.
UpdateRefused(id, patch) ==
  LET old == Connections(patches[id])
      new == Connections(patch)
  IN
  /\ "update" \in Refusals
  /\ Acceptable(patch, CleanUpPatch(id, mPatches))
  /\ mPatches' = CleanUpPatch(id, mPatches)
  /\ \E failed \in MayRefuse(old, new) : Rollback(Told(failed, old, new), old)
  /\ spoiled' = TRUE
  /\ UNCHANGED <<patches, nextPatchId>>

\* A client that keeps its mix port configs to one patch each.
Unshared(id, patch) ==
  OneEach => \A p \in DOMAIN patches \ {id} :
    \A c \in Ends(patch) : IsMix(c) => c \notin Ends(patches[p])

\* Patches between mix ports on one side and device ports on the other.
Requests ==
  LET Side(mix) == {cs \in SUBSET {c \in DOMAIN portConfigs : IsMix(c) = mix} :
                      Cardinality(cs) \in 1 .. MaxEnds}
  IN UNION {[sources : Side(mix), sinks : Side(~mix)] : mix \in BOOLEAN}

SetAudioPatch ==
  \E patch \in Requests :
    \/ Unshared(0, patch) /\ (CreatePatch(patch) \/ CreateRefused(patch))
    \/ \E id \in DOMAIN patches \ {0} :
         Unshared(id, patch) /\ (UpdatePatch(id, patch) \/ UpdateRefused(id, patch))

----------------------------------------------------------------------------
(* The other calls. *)

RemovePatch(id) ==
  LET old == Connections(patches[id]) IN
  /\ patches' = Restrict(patches, DOMAIN patches \ {id})
  /\ mPatches' = CleanUpPatch(id, mPatches)
  /\ StreamsTold(old, NotConnected)
  /\ UNCHANGED <<nextPatchId, fatal, spoiled>>

ResetRefused(id) ==
  LET old == Connections(patches[id]) IN
  /\ "reset" \in Refusals
  /\ \E failed \in MayRefuse(old, NotConnected) :
       Rollback(Told(failed, old, NotConnected), old)
  /\ UNCHANGED <<patches, mPatches, nextPatchId, spoiled>>

ResetAudioPatch(id) == RemovePatch(id) \/ ResetRefused(id)

\* Mutant: configs in patches may be reset.
NoStreamOn(c) == c \notin DOMAIN streams

IsUnused(c) == c \notin DOMAIN streams /\ \A entry \in mPatches : entry[1] # c

ResetAudioPortConfig(c) == IsUnused(c) /\ RemovePortConfig(c) /\ UNCHANGED moduleVars

\* findConnectedPortConfigIds.
OtherEnd(patch, c) == IF c \in patch.sources THEN patch.sinks ELSE patch.sources

PatchesOn(c) == {entry[2] : entry \in {e \in mPatches : e[1] = c}}

ConnectedConfigs(c) == UNION {OtherEnd(patches[p], c) : p \in PatchesOn(c) \cap DOMAIN patches}

FindFatal(c) ==
  \/ ~(PatchesOn(c) \subseteq DOMAIN patches)
  \/ \E d \in ConnectedConfigs(c) : ~ConfigExists(d)

\* findPortIdForNewStream.
MayOpen(c) ==
  /\ IsMix(c)
  /\ c \notin DOMAIN streams
  /\ MaxStreams[portConfigs[c]] # 0
       => Cardinality({d \in DOMAIN streams : portConfigs[d] = portConfigs[c]})
            < MaxStreams[portConfigs[c]]

\* openInputStream and openOutputStream.  A stream that refuses its devices is
\* dropped.
OpenAudioStream(c) ==
  /\ MayOpen(c)
  /\ fatal' = FindFatal(c)
  /\ IF FindFatal(c) THEN UNCHANGED streams
     ELSE streams' = [d \in DOMAIN streams \cup {c} |->
                        IF d = c THEN PortsOf(ConnectedConfigs(c)) ELSE streams[d]]
  /\ UNCHANGED <<portVars, patches, mPatches, nextPatchId, spoiled>>

\* A closed stream is removed before anything looks at the streams again.
CloseAudioStream(c) ==
  /\ streams' = Restrict(streams, DOMAIN streams \ {c})
  /\ UNCHANGED <<portVars, patches, mPatches, nextPatchId, fatal, spoiled>>

Next ==
  /\ ~fatal
  /\ \/ ConnectExternalDevice /\ UNCHANGED moduleVars
     \/ \E c \in DOMAIN connected : DisconnectExternalDevice(c) /\ UNCHANGED moduleVars
     \/ \E port \in ports : SetAudioPortConfig(port) /\ UNCHANGED moduleVars
     \/ SetAudioPatch /\ UNCHANGED portVars
     \/ \E id \in DOMAIN patches : ResetAudioPatch(id) /\ UNCHANGED portVars
     \/ \E c \in DOMAIN portConfigs : ResetAudioPortConfig(c)
     \/ \E c \in DOMAIN portConfigs : OpenAudioStream(c)
     \/ \E c \in DOMAIN streams : CloseAudioStream(c)

Spec == Init /\ [][Next]_vars

----------------------------------------------------------------------------
(* What the module promises. *)

\* The index names exactly the patches that use a port config or a port
\* ("Maps port ids and port config ids to patch ids"), as long as no request
\* for a patch was refused.
IndexNamesPatches ==
  ~spoiled => mPatches = UNION {IdsOf(patches[p]) \X {p} : p \in DOMAIN patches}

\* A patch that the index names exists, and so do all its port configs, and
\* routes that lead to all its sinks, although configs are erased and devices
\* are disconnected by other calls, and whatever was refused before.
PatchEndsExist ==
  \A entry \in mPatches :
    /\ entry[2] \in DOMAIN patches
    /\ Ends(patches[entry[2]]) \subseteq DOMAIN portConfigs
    /\ PortsOf(patches[entry[2]].sinks) \subseteq AllowedSinkPorts(patches[entry[2]].sources)

\* An open stream knows the devices that the patches connect it to, in
\* whatever order streams, patches and configs come and go.
StreamsKnowTheirDevices ==
  ~spoiled => \A c \in DOMAIN streams :
    streams[c] =
      UNION {PortsOf(OtherEnd(patches[p], c)) :
               p \in {q \in DOMAIN patches : c \in Ends(patches[q])}}

\* A request that is refused leaves every stream with the devices it had ("The
\* aim of the restoreOldConnections is to make connections back").
RollbackRestores == [][~spoiled /\ spoiled' => streams' = streams]_vars

\* A mix port without profiles of its own has some exactly while a device with
\* profiles that a route connects it to is there, in whatever order devices
\* come and go.
ProfilesFollowDevices ==
  \A m \in MixPorts \cap Unfilled :
    m \in bare <=> \A c \in DOMAIN connected \ bare : m \notin RoutablePorts(c)

\* A patch is established over exclusive routes only when no other patch uses
\* its sink ports, as long as no request for a patch was refused.
ExclusiveWhenSet ==
  [][~spoiled' => \A p \in DOMAIN patches' :
       (p \notin DOMAIN patches \/ patches'[p] # patches[p]) =>
         \A port \in PortsOf(patches'[p].sinks) :
           IsExclusive(port, patches'[p].sources) =>
             \A q \in DOMAIN patches' \ {p} : port \notin PortsOf(patches'[q].sinks)
    ]_vars

\* No call runs into a fatal check ("failed to find device for id", "patch
\* taken from mPatches not found in the configuration").
NeverFatal == ~fatal
=============================================================================
