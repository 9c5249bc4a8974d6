---------------------------- MODULE EffectFactory ----------------------------
(* EffectFactory.cpp, with the sessions of the bundle (GlobalSession.h and the  *)
(* context methods of EffectBundleAidl.cpp): which instances exist, and which   *)
(* contexts they share the sessions with.  The factory is locked; the session   *)
(* table is not, and its operations are steps here as if it were.  What an      *)
(* instance does while it is open is in EffectImpl.tla and BundleContext.tla.   *)
EXTENDS Integers, Sequences, SequencesExt, FiniteSets

CONSTANTS Uuids,          \* implementations that the configuration names
          Bundled,        \* those of the bundle, each a type of its own
          Instances,      \* of effects, each created once
          Sessions, MAX_BUNDLE_SESSIONS,
          MaxContexts     \* bound on the contexts of a behaviour

ASSUME FactoryAssumption ==
  Bundled \subseteq Uuids /\ MAX_BUNDLE_SESSIONS \in Nat \ {0}

VARIABLES
  mEffectLibMap,   \* implementations whose library could be opened
  mEffectMap,      \* the implementation of each instance that exists
  effectState,     \* "INIT" or "open"
  effectContext,   \* the context of each instance, or 0
  contexts,        \* every context made: its type, and the session of its configuration
  deInited,        \* contexts whose library instance is gone
  mSessionMap      \* the contexts of each session, the older the smaller, or NoSession

sessionVars == <<effectState, effectContext, contexts, deInited, mSessionMap>>
factoryVars == <<mEffectLibMap, mEffectMap, sessionVars>>

NoSession == {0}
Listed    == {s \in Sessions : mSessionMap[s] # NoSession}
Exists(e) == e \in DOMAIN mEffectMap

\* loadEffectLibs: a library that does not open is left out.
FactoryInit ==
  /\ mEffectLibMap \in SUBSET Uuids
  /\ mEffectMap = <<>>
  /\ effectState = [e \in Instances |-> "INIT"]
  /\ effectContext = [e \in Instances |-> 0]
  /\ contexts = <<>> /\ deInited = {}
  /\ mSessionMap = [s \in Sessions |-> NoSession]

-----------------------------------------------------------------------------
(* Sessions of the bundle *)

\* findBundleTypeInList
OfType(list, type) == {c \in list \ NoSession : contexts[c].type = type}

\* releaseSession: the first context of the type is deinitialised and dropped; a
\* session without contexts is forgotten.
FirstOfType(type, s) ==
  LET found == OfType(mSessionMap[s], type) IN {c \in found : \A d \in found : c <= d}

ReleaseSession(type, s) ==
  LET rest == mSessionMap[s] \ FirstOfType(type, s)
  IN  mSessionMap' = IF FirstOfType(type, s) = {} THEN mSessionMap
                     ELSE [mSessionMap EXCEPT ![s] = IF rest = {} THEN NoSession ELSE rest]

\* An effect gives its context up.  With the last reference, which may be the one
\* of a session, the library instance goes too.
Forget(e, released) ==
  LET listed == NoSession \cup UNION {mSessionMap'[s] : s \in Sessions}
  IN  /\ effectContext' = [effectContext EXCEPT ![e] = 0]
      /\ deInited' = deInited \cup released \cup ({effectContext[e]} \ listed)

\* Mutant: the types of the session are not looked at.
MayCreateTwice(type, s) == s \in Listed \/ Cardinality(Listed) < MAX_BUNDLE_SESSIONS

\* A session may be added, and a type that the session does not have.
MayCreate(type, s) ==
  IF s \in Listed THEN OfType(mSessionMap[s], type) = {}
  ELSE Cardinality(Listed) < MAX_BUNDLE_SESSIONS

\* createSession.  If the context fails to initialise the session stays, empty.
CreateSession(e, type, s) ==
  LET list == IF s \in Listed THEN mSessionMap[s] ELSE {}
      new == Len(contexts) + 1
  IN  \/ /\ contexts' = Append(contexts, [type |-> type, session |-> s])
         /\ effectContext' = [effectContext EXCEPT ![e] = new]
         /\ mSessionMap' = [mSessionMap EXCEPT ![s] = list \cup {new}]
      \/ /\ mSessionMap' = [mSessionMap EXCEPT ![s] = list]
         /\ UNCHANGED <<contexts, effectContext>>

-----------------------------------------------------------------------------
(* Instances *)

\* createEffect, after getDlSyms_l; the library may refuse.
CreateEffect(e, uuid) ==
  /\ uuid \in mEffectLibMap /\ ~Exists(e)
  /\ mEffectMap' = [i \in DOMAIN mEffectMap \cup {e} |-> IF i = e THEN uuid ELSE mEffectMap[i]]
  /\ UNCHANGED <<mEffectLibMap, sessionVars>>

\* EffectImpl::open: createContext keeps the context that a failed open left, for
\* whatever session it was, and a parameter that is refused fails the call with
\* the context in place.
OpenEffect(e, s) ==
  /\ Exists(e) /\ effectState[e] = "INIT" /\ Len(contexts) < MaxContexts
  /\ IF effectContext[e] # 0 \/ mEffectMap[e] \notin Bundled
     THEN UNCHANGED <<contexts, effectContext, mSessionMap>>
     ELSE MayCreate(mEffectMap[e], s) /\ CreateSession(e, mEffectMap[e], s)
  /\ \/ effectState' = [effectState EXCEPT ![e] =
                          IF effectContext'[e] # 0 \/ mEffectMap[e] \notin Bundled THEN "open" ELSE @]
     \/ UNCHANGED effectState
  /\ UNCHANGED <<mEffectLibMap, mEffectMap, deInited>>

\* setParameter of a common configuration, in any state: the session named in it
\* replaces the one of the context, and the sessions are not told.  A context
\* without a library instance, which another effect has deinitialised, is
\* initialised again, or that fails.
SetCommon(e, s) ==
  /\ effectContext[e] # 0
  /\ contexts' = [contexts EXCEPT ![effectContext[e]].session = s]
  /\ deInited' \in {deInited, deInited \ {effectContext[e]}}
  /\ UNCHANGED <<mEffectLibMap, mEffectMap, effectState, effectContext, mSessionMap>>

\* releaseContext: by the session that the configuration names NOW.
ReleaseContext(e) ==
  LET type == mEffectMap[e]
      s == contexts[effectContext[e]].session
  IN  IF effectContext[e] = 0 THEN UNCHANGED <<effectContext, deInited, mSessionMap>>
      ELSE ReleaseSession(type, s) /\ Forget(e, FirstOfType(type, s))

CloseEffect(e) ==
  /\ effectState[e] = "open"
  /\ effectState' = [effectState EXCEPT ![e] = "INIT"]
  /\ ReleaseContext(e)
  /\ UNCHANGED <<mEffectLibMap, mEffectMap, contexts>>

\* destroyEffect: an open instance is reset and closed first.  One that is not
\* open is not closed, whatever context it has.
DestroyEffect(e) ==
  /\ Exists(e)
  /\ IF effectState[e] = "open" THEN ReleaseContext(e)
     ELSE UNCHANGED mSessionMap /\ Forget(e, {})
  /\ effectState' = [effectState EXCEPT ![e] = "INIT"]
  /\ mEffectMap' = [i \in DOMAIN mEffectMap \ {e} |-> mEffectMap[i]]
  /\ UNCHANGED <<mEffectLibMap, contexts>>

FactoryNext ==
  \/ \E e \in Instances, uuid \in Uuids : CreateEffect(e, uuid)
  \/ \E e \in Instances, s \in Sessions : OpenEffect(e, s) \/ SetCommon(e, s)
  \/ \E e \in Instances : CloseEffect(e) \/ DestroyEffect(e)

FactorySpec == FactoryInit /\ [][FactoryNext]_factoryVars

-----------------------------------------------------------------------------
(* Properties *)

\* An effect is misplaced if the session that its configuration names does not
\* list its context: a client gave it another session, or the release of such an
\* effect dropped its context.
Misplaced(e) == effectContext[e] \notin mSessionMap[contexts[effectContext[e]].session]

\* A context that an effect has is deinitialised by the release of a misplaced one.
TakenByMisplaced ==
  \A e \in Instances : effectContext'[e] \in deInited' \ deInited /\ effectContext'[e] # 0 =>
    \E d \in Instances \ {e} :
      /\ effectContext[d] # 0 /\ effectContext'[d] = 0 /\ mEffectMap[d] = mEffectMap[e]
      /\ Misplaced(d)

\* The context of an effect keeps its library instance until a misplaced effect of
\* its type is released: no other effect that is opened, closed, destroyed or fails
\* to open takes it away, although a release names a type and a session and not
\* the context (EffectBundleAidl.cpp:425).
ContextStaysAlive == [][TakenByMisplaced]_factoryVars

\* "each session must not have more than one session for each type"
\* (GlobalSession.h:58): of the effects of a type that are open in a session.
OneOfATypeInASession ==
  \A e, d \in Instances :
    /\ effectState[e] = "open" /\ effectState[d] = "open"
    /\ effectContext[e] # 0 /\ effectContext[d] # 0
    /\ contexts[effectContext[e]] = contexts[effectContext[d]]
    => e = d

\* "maximum of MAX_BUNDLE_SESSIONS is supported" (GlobalSession.h:33): while less
\* of them have an effect, there is a place for another session.
SessionsSupported ==
  LET inUse == {s \in Listed : \E e \in Instances : effectContext[e] \in mSessionMap[s] \ NoSession}
  IN  Cardinality(inUse) < MAX_BUNDLE_SESSIONS => Cardinality(Listed) < MAX_BUNDLE_SESSIONS
=============================================================================
