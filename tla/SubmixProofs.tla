---------------------------- MODULE SubmixProofs ----------------------------
(***************************************************************************)
(* Theorems about the remote submix streams, for any number of streams:    *)
(* the types, the count of the inputs, what is left at the end, and that   *)
(* writers wait only for a reader that is there, whatever clients do.      *)
(***************************************************************************)
EXTENDS StreamRemoteSubmix, FiniteSetTheorems, TLAPS

\* A stream that is not before its opening or after its end has a route.
RouteKnown ==
  \A s \in Streams : at[s] \in OpeningSteps \cup OpenSteps \cup ClosingSteps => route[s] # None

IInv == SubmixTypeOK /\ RouteKnown /\ InputsCounted

\* The names of the pipes a stream makes.
LEMMA Names ==
  ASSUME NEW s \in Streams PROVE <<s, "create">> \in PipeId /\ <<s, "reset">> \in PipeId
  BY DEF PipeId
\* The inputs of a route are counted by a natural number.
LEMMA InputsFinite ==
  ASSUME NEW r PROVE IsFiniteSet(InputsOf(r)) /\ Cardinality(InputsOf(r)) \in Nat
  BY InsAssumption, FS_Subset, FS_CardinalityType DEF InputsOf

\* The initial state.
LEMMA InitIInv == SubmixInit => IInv
<1> SUFFICES ASSUME SubmixInit PROVE IInv OBVIOUS
<1> USE DEF SubmixInit, RouteInit
<1>1. NewRoute \in Route BY DEF NewRoute, Route
<1>2. SubmixTypeOK BY <1>1 DEF SubmixTypeOK, RouteTypeOK
<1>3. RouteKnown BY DEF RouteKnown, OpeningSteps, OpenSteps, ClosingSteps
<1>4. ASSUME NEW r \in Streams PROVE ~routes[r].inOpen /\ InputsOf(r) = {}
  BY DEF NewRoute, InputsOf, OpenSteps, Streams
<1> QED BY <1>2, <1>3, <1>4 DEF IInv, InputsCounted

\* What the methods make of a route is a route, and only two of them touch the
\* inputs.
SameInputs(new, rt) ==
  new \in Route /\ new.inOpen = rt.inOpen /\ new.inRefs = rt.inRefs

LEMMA WithPipeType ==
  ASSUME NEW rt \in Route, NEW p \in PipeId, NEW b \in BOOLEAN
  PROVE SameInputs(WithPipe(rt, p, b), rt)
  BY DEF WithPipe, Route, SameInputs

LEMMA QuietOperators ==
  ASSUME NEW rt \in Route
  PROVE /\ SameInputs(Released(rt), rt)
        /\ SameInputs(OutOpened(rt), rt)
        /\ SameInputs(OutClosed(rt), rt)
        /\ SameInputs(InStandby(rt), rt)
        /\ SameInputs(OutStandby(rt), rt)
        /\ SameInputs(InActive(rt), rt)
        /\ SameInputs(OutActive(rt), rt)
        /\ SameInputs(FramesRead(rt), rt)
<1>1. SameInputs(Released(rt), rt) BY DEF Released, Route, SameInputs
<1>2. SameInputs(OutOpened(rt), rt) BY DEF OutOpened, Route, SameInputs
<1>3. SameInputs(OutClosed(rt), rt) BY DEF OutClosed, Route, SameInputs
<1>4. SameInputs(InStandby(rt), rt) BY DEF InStandby, Route, SameInputs
<1>5. SameInputs(OutStandby(rt), rt) BY DEF OutStandby, Route, SameInputs
<1>6. SameInputs(InActive(rt), rt) BY DEF InActive, Route, SameInputs
<1>7. SameInputs(OutActive(rt), rt) BY DEF OutActive, Route, SameInputs
<1>8. SameInputs(FramesRead(rt), rt) BY DEF FramesRead, Route, SameInputs
<1> QED BY <1>1, <1>2, <1>3, <1>4, <1>5, <1>6, <1>7, <1>8

LEMMA InOpenedType ==
  ASSUME NEW rt \in Route
  PROVE /\ InOpened(rt) \in Route /\ InOpened(rt).inOpen
        /\ InOpened(rt).inRefs = IF rt.inOpen THEN rt.inRefs + 1 ELSE 1
<1>1. (IF rt.inOpen THEN rt.inRefs + 1 ELSE 1) \in Nat BY DEF Route
<1> QED BY <1>1 DEF InOpened, Route

LEMMA InClosedType ==
  ASSUME NEW rt \in Route, rt.inRefs > 0
  PROVE /\ InClosed(rt) \in Route
        /\ InClosed(rt).inOpen <=> rt.inOpen /\ rt.inRefs # 1
        /\ InClosed(rt).inRefs = rt.inRefs - 1
<1>1. rt.inRefs - 1 \in Nat BY DEF Route
<1>2. (rt.inOpen /\ rt.inRefs # 1) \in BOOLEAN OBVIOUS
<1> QED BY <1>1, <1>2 DEF InClosed, Route

\* Only the sinks that exist are shut.
LEMMA ShutSinkType ==
  ASSUME RouteTypeOK, NEW r, NEW b \in BOOLEAN
  PROVE ShutSink(r, b) \in [PipeId -> [shut : BOOLEAN, full : BOOLEAN]]
  BY DEF ShutSink, RouteTypeOK

\* A step that leaves the inputs of every route alone, and their count.
InputsStay ==
  \A i \in Ins : (at'[i] \in OpenSteps <=> at[i] \in OpenSteps)
                  /\ (at[i] \in OpenSteps => route'[i] = route[i])

Quiet ==
  /\ \A r \in Streams : routes'[r].inOpen = routes[r].inOpen /\ routes'[r].inRefs = routes[r].inRefs
  /\ InputsStay

LEMMA QuietCounted == ASSUME InputsCounted, Quiet PROVE InputsCounted'
<1>1. ASSUME NEW r PROVE InputsOf(r)' = InputsOf(r) BY DEF Quiet, InputsStay, InputsOf
<1> QED BY <1>1 DEF InputsCounted, Quiet

\* A step of one stream that stays on one side of being open.
LEMMA Stays ==
  ASSUME SubmixTypeOK, NEW s \in Streams, NEW step, Goto(s, step), step \in OpenSteps <=> at[s] \in OpenSteps
  PROVE \A i \in Ins : at'[i] \in OpenSteps <=> at[i] \in OpenSteps
  BY DEF Goto, SubmixTypeOK, Streams

\* What a method that leaves the inputs alone does to the routes.
RoutesQuiet ==
  /\ routes' \in [Streams -> Route]
  /\ \A r \in Streams : routes'[r].inOpen = routes[r].inOpen /\ routes'[r].inRefs = routes[r].inRefs

LEMMA RouteChange ==
  ASSUME RouteTypeOK, NEW r \in Streams, NEW new, SameInputs(new, routes[r]),
         routes' = [routes EXCEPT ![r] = new]
  PROVE RoutesQuiet
  BY DEF RoutesQuiet, SameInputs, RouteTypeOK

LEMMA NoRouteChange == ASSUME RouteTypeOK, UNCHANGED routes PROVE RoutesQuiet
  BY DEF RoutesQuiet, RouteTypeOK

\* The steps that open a stream, or close it, are not quiet.
LEMMA QuietStep ==
  ASSUME IInv, RoutesQuiet, SubmixTypeOK', RouteKnown', InputsStay
  PROVE IInv'
<1>1. InputsCounted BY DEF IInv
<1>2. Quiet BY DEF Quiet, RoutesQuiet
<1> QED BY <1>1, <1>2, QuietCounted DEF IInv

(***************************************************************************)
(* Opening.                                                                *)
(***************************************************************************)
LEMMA OpeningStep ==
  ASSUME IInv, NEW s \in Streams, Opening(s) PROVE IInv'
<1> USE DEF IInv
<1>0. /\ SubmixTypeOK /\ RouteTypeOK /\ RouteKnown /\ InputsCounted
      /\ routes \in [Streams -> Route] /\ Ins \subseteq Streams
  BY DEF SubmixTypeOK, RouteTypeOK, Streams
<1>1. CASE Begin(s)
  <2>1. RoutesQuiet /\ table' \in Streams /\ UNCHANGED pipes
    <3>1. CASE table = None
      <4>1. routes' = [routes EXCEPT ![s] = WithPipe(routes[s], <<s, "create">>, s \in Odd)]
        BY <1>1, <3>1 DEF Begin, FindOrCreateRoute, CreatePipe
      <4>2. (s \in Odd) \in BOOLEAN /\ routes[s] \in Route BY <1>0
      <4>3. SameInputs(WithPipe(routes[s], <<s, "create">>, s \in Odd), routes[s])
        BY <4>2, Names, WithPipeType
      <4> QED BY <1>0, <1>1, <3>1, <4>1, <4>3, RouteChange DEF Begin, FindOrCreateRoute
    <3>2. CASE table # None
      BY <1>0, <1>1, <3>2, NoRouteChange DEF Begin, FindOrCreateRoute, RouteTypeOK
    <3> QED BY <3>1, <3>2
  <2>2. SubmixTypeOK'
    BY <1>1, <2>1 DEF Begin, SubmixTypeOK, RouteTypeOK, RoutesQuiet, Goto, OpeningSteps
  <2>3. RouteKnown' BY <1>1, <2>1, StreamsAssumption DEF Begin, RouteKnown, Goto, SubmixTypeOK
  <2> QED BY <1>0, <1>1, <2>1, <2>2, <2>3, QuietStep DEF InputsStay, Begin, Goto, SubmixTypeOK, OpenSteps
<1>2. CASE Validate(s) \/ LookUp(s)
  <2>1. RoutesQuiet BY <1>0, <1>2, NoRouteChange DEF Validate, LookUp, routeVars
  <2>2. SubmixTypeOK'
    BY <1>2 DEF Validate, LookUp, SubmixTypeOK, RouteTypeOK, routeVars, Goto, OpeningSteps
  <2>3. RouteKnown'
    BY <1>2 DEF Validate, LookUp, RouteKnown, Goto, SubmixTypeOK, OpeningSteps, OpenSteps, ClosingSteps
  <2> QED BY <1>0, <1>2, <2>1, <2>2, <2>3, QuietStep
             DEF InputsStay, Validate, LookUp, Goto, SubmixTypeOK, OpenSteps
<1>3. CASE ResetRelease(s) \/ ResetCreate(s)
  <2>1. route[s] \in Streams /\ routes[route[s]] \in Route
    BY <1>0, <1>3 DEF ResetRelease, ResetCreate, RouteKnown, SubmixTypeOK, OpeningSteps
  <2>2. RoutesQuiet
    <3>1. CASE ResetRelease(s)
      BY <1>0, <2>1, <3>1, QuietOperators, RouteChange DEF ResetRelease, ReleasePipe
    <3>2. CASE ResetCreate(s)
      <4>1. routes[route[s]].odd \in BOOLEAN BY <2>1 DEF Route
      <4>2. SameInputs(WithPipe(routes[route[s]], <<s, "reset">>, routes[route[s]].odd),
                       routes[route[s]])
        BY <2>1, <4>1, Names, WithPipeType
      <4> QED BY <1>0, <2>1, <3>2, <4>2, RouteChange DEF ResetCreate, CreatePipe
    <3> QED BY <1>3, <3>1, <3>2
  <2>3. SubmixTypeOK'
    BY <1>3, <2>2 DEF ResetRelease, ReleasePipe, ResetCreate, SubmixTypeOK, RouteTypeOK,
                      RoutesQuiet, Goto, OpeningSteps
  <2>4. RouteKnown'
    BY <1>3, <2>1 DEF ResetRelease, ResetCreate, RouteKnown, Goto, SubmixTypeOK,
                      OpeningSteps, OpenSteps, ClosingSteps
  <2> QED BY <1>0, <1>3, <2>2, <2>3, <2>4, QuietStep
             DEF InputsStay, ResetRelease, ResetCreate, Goto, SubmixTypeOK, OpenSteps, OpeningSteps
<1>4. CASE Attach(s)
  <2>0. PICK r \in Streams : r = route[s]
    BY <1>0, <1>4 DEF Attach, RouteKnown, SubmixTypeOK, OpeningSteps
  <2>1. r = route[s] /\ route[s] \in Streams /\ routes[r] \in Route BY <1>0, <2>0
  <2>2. RouteKnown'
    BY <1>4, <2>1 DEF Attach, RouteKnown, Goto, SubmixTypeOK, OpeningSteps, OpenSteps, ClosingSteps
  <2>3. CASE s \notin Ins
    <3>1. RoutesQuiet /\ UNCHANGED <<table, pipes>>
      BY <1>0, <1>4, <2>1, <2>3, QuietOperators, RouteChange DEF Attach, OpenStream
    <3>2. SubmixTypeOK'
      BY <1>4, <3>1 DEF Attach, SubmixTypeOK, RouteTypeOK, RoutesQuiet, Goto, OpenSteps
    <3> QED BY <1>0, <1>4, <2>2, <2>3, <3>1, <3>2, QuietStep DEF InputsStay, Attach, Goto, SubmixTypeOK, OpenSteps
  <2>4. CASE s \in Ins
    <3>1. /\ routes' = [routes EXCEPT ![r] = InOpened(routes[r])]
          /\ pipes' = ShutSink(r, FALSE) /\ UNCHANGED table
      BY <1>4, <2>1, <2>4 DEF Attach, OpenStream
    <3>2. SubmixTypeOK'
      BY <1>0, <1>4, <2>1, <3>1, InOpenedType, ShutSinkType
         DEF Attach, SubmixTypeOK, RouteTypeOK, Goto, OpenSteps
    <3>3. InputsOf(r)' = InputsOf(r) \cup {s} /\ s \notin InputsOf(r)
      BY <1>0, <1>4, <2>1, <2>4 DEF Attach, InputsOf, Goto, SubmixTypeOK, OpenSteps
    <3>4. ASSUME NEW q \in Streams, q # r PROVE InputsOf(q)' = InputsOf(q)
      BY <1>0, <1>4, <2>1, <3>4 DEF Attach, InputsOf, Goto, SubmixTypeOK
    <3>5. Cardinality(InputsOf(r)') = Cardinality(InputsOf(r)) + 1
      BY <3>3, InputsFinite, FS_AddElement
    <3>6. routes'[r].inOpen /\ routes'[r].inRefs = Cardinality(InputsOf(r)')
      <4>1. routes'[r] = InOpened(routes[r]) BY <1>0, <2>1, <3>1
      <4>2. CASE routes[r].inOpen
        BY <1>0, <2>1, <3>5, <4>1, <4>2, InOpenedType DEF InputsCounted
      <4>3. CASE ~routes[r].inOpen
        <5>1. Cardinality(InputsOf(r)) = 0 BY <1>0, <2>1, <4>3, FS_EmptySet DEF InputsCounted
        <5> QED BY <2>1, <3>5, <4>1, <4>3, <5>1, InOpenedType
      <4> QED BY <4>2, <4>3
    <3>7. ASSUME NEW q \in Streams
          PROVE /\ routes'[q].inOpen <=> InputsOf(q)' # {}
                /\ routes'[q].inOpen => routes'[q].inRefs = Cardinality(InputsOf(q)')
      <4>1. CASE q = r BY <3>3, <3>6, <4>1
      <4>2. CASE q # r
        <5>1. routes'[q] = routes[q] /\ InputsOf(q)' = InputsOf(q)
          BY <1>0, <3>1, <3>4, <4>2
        <5> QED BY <1>0, <5>1 DEF InputsCounted
      <4> QED BY <4>1, <4>2
    <3>8. InputsCounted' BY <3>7 DEF InputsCounted
    <3> QED BY <2>2, <3>2, <3>8
  <2> QED BY <2>3, <2>4
<1> QED BY <1>1, <1>2, <1>3, <1>4 DEF Opening

(***************************************************************************)
(* The worker of an open stream.                                           *)
(***************************************************************************)
LEMMA ServeStep ==
  ASSUME IInv, NEW s \in Streams, Serve(s) PROVE IInv'
<1> USE DEF IInv
<1>0. /\ SubmixTypeOK /\ RouteTypeOK /\ RouteKnown /\ InputsCounted
      /\ routes \in [Streams -> Route] /\ Ins \subseteq Streams
      /\ at[s] \in OpenSteps
  BY DEF SubmixTypeOK, RouteTypeOK, Streams, Serve, StandBy, Start, BeginWrite, Decide, EndWrite,
         BeginRead, EndRead, Serving, OpenSteps
<1>1. route[s] \in Streams /\ routes[route[s]] \in Route
  BY <1>0 DEF RouteKnown, SubmixTypeOK
<1>2. /\ routes[route[s]].sink \in PipeId \cup {None}
      /\ routes[route[s]].source \in PipeId \cup {None}
  BY <1>1 DEF Route
<1>3. RoutesQuiet /\ UNCHANGED table
  <2>1. ASSUME ExitStandby(route[s], s) PROVE RoutesQuiet /\ UNCHANGED table
    BY <1>0, <1>1, <2>1, QuietOperators, RouteChange DEF ExitStandby
  <2>2. CASE StandBy(s)
    BY <1>0, <1>1, <2>2, QuietOperators, RouteChange DEF StandBy, StandbyRoute
  <2>3. CASE Start(s) \/ BeginWrite(s) \/ BeginRead(s)
    BY <2>1, <2>3 DEF Start, BeginWrite, BeginRead
  <2>4. CASE Decide(s) \/ EndWrite(s)
    BY <1>0, <2>4, NoRouteChange DEF Decide, EndWrite, routeVars
  <2>5. CASE EndRead(s)
    BY <1>0, <1>1, <2>5, QuietOperators, RouteChange, NoRouteChange
       DEF EndRead, UpdateReadCounterFrames, routeVars
  <2> QED BY <2>2, <2>3, <2>4, <2>5 DEF Serve
<1>4. RouteTypeOK'
  <2>1. CASE StandBy(s) \/ Start(s) \/ BeginWrite(s) \/ Decide(s) \/ BeginRead(s)
    BY <1>0, <1>3, <2>1 DEF RouteTypeOK, RoutesQuiet, StandBy, StandbyRoute, Start, BeginWrite,
                            Decide, BeginRead, ExitStandby, routeVars
  <2>2. CASE EndWrite(s) BY <1>0, <1>3, <2>2 DEF RouteTypeOK, RoutesQuiet, EndWrite
  <2>3. CASE EndRead(s) BY <1>0, <1>3, <2>3 DEF RouteTypeOK, RoutesQuiet, EndRead, routeVars
  <2> QED BY <2>1, <2>2, <2>3 DEF Serve
<1>5. SubmixTypeOK' /\ UNCHANGED route
  <2>1. CASE StandBy(s) \/ Start(s)
    BY <1>4, <2>1 DEF StandBy, Start, submixWorkerVars, SubmixTypeOK
  <2>2. CASE BeginWrite(s)
    BY <1>2, <1>4, <2>2 DEF BeginWrite, SubmixTypeOK, Goto, OpenSteps
  <2>3. CASE Decide(s)
    BY <1>2, <1>4, <2>3 DEF Decide, ShouldBlockWrite, SubmixTypeOK, Goto, OpenSteps
  <2>4. CASE EndWrite(s) BY <1>4, <2>4 DEF EndWrite, SubmixTypeOK, Goto, OpenSteps
  <2>5. CASE BeginRead(s) \/ EndRead(s)
    BY <1>4, <2>5 DEF BeginRead, EndRead, SubmixTypeOK, Goto, OpenSteps
  <2> QED BY <2>1, <2>2, <2>3, <2>4, <2>5 DEF Serve
<1>6. /\ \A t \in Streams \ {s} : at'[t] = at[t]
      /\ at'[s] \in OpenSteps \/ (s \notin Ins /\ at'[s] = "dead")
  <2>1. CASE StandBy(s) \/ Start(s) BY <1>0, <2>1 DEF StandBy, Start, submixWorkerVars
  <2>2. CASE BeginWrite(s)
    BY <1>0, <2>2, StreamsAssumption DEF BeginWrite, SubmixTypeOK, Goto, OpenSteps
  <2>3. CASE Decide(s) \/ EndWrite(s) \/ BeginRead(s) \/ EndRead(s)
    BY <1>0, <2>3 DEF Decide, EndWrite, BeginRead, EndRead, SubmixTypeOK, Goto, OpenSteps
  <2> QED BY <2>1, <2>2, <2>3 DEF Serve
<1>7. RouteKnown'
  BY <1>0, <1>5, <1>6 DEF RouteKnown, OpeningSteps, OpenSteps, ClosingSteps
<1> QED BY <1>0, <1>3, <1>5, <1>6, <1>7, QuietStep DEF InputsStay

(***************************************************************************)
(* Closing.                                                                *)
(***************************************************************************)
LEMMA ClosingStep ==
  ASSUME IInv, NEW s \in Streams, Closing(s) PROVE IInv'
<1> USE DEF IInv
<1>0. /\ SubmixTypeOK /\ RouteTypeOK /\ RouteKnown /\ InputsCounted
      /\ routes \in [Streams -> Route] /\ Ins \subseteq Streams
  BY DEF SubmixTypeOK, RouteTypeOK, Streams
<1>1. ASSUME ReleaseOutput(s) PROVE RoutesQuiet /\ RouteTypeOK'
  <2>1. CASE s \in Outs /\ table # None
    <3>1. table \in Streams BY <1>0, <2>1 DEF RouteTypeOK
    <3>2. routes' = [routes EXCEPT ![table] = OutClosed(routes[table])]
      BY <1>1, <2>1 DEF ReleaseOutput
    <3>3. RoutesQuiet BY <1>0, <3>1, <3>2, QuietOperators, RouteChange
    <3>4. UNCHANGED table /\ pipes' = ShutSink(table, TRUE) BY <1>1, <2>1 DEF ReleaseOutput
    <3>5. pipes' \in [PipeId -> [shut : BOOLEAN, full : BOOLEAN]] BY <1>0, <3>4, ShutSinkType
    <3> QED BY <1>0, <3>3, <3>4, <3>5 DEF RoutesQuiet, RouteTypeOK
  <2>2. CASE ~(s \in Outs /\ table # None)
    BY <1>0, <1>1, <2>2, NoRouteChange DEF ReleaseOutput, routeVars, RouteTypeOK
  <2> QED BY <2>1, <2>2
<1>2. CASE PrepareToClose(s) \/ SubmixClose(s)
  <2>1. RoutesQuiet /\ RouteTypeOK' BY <1>1, <1>2 DEF PrepareToClose, SubmixClose
  <2>2. SubmixTypeOK' BY <1>2, <2>1 DEF PrepareToClose, SubmixClose, Goto, SubmixTypeOK
  <2>3. RouteKnown'
    BY <1>2 DEF PrepareToClose, SubmixClose, Goto, SubmixTypeOK, RouteKnown, OpeningSteps, OpenSteps, ClosingSteps
  <2>4. \A i \in Ins : at'[i] = at[i]
    BY <1>0, <1>2, StreamsAssumption DEF PrepareToClose, SubmixClose, NullSink, Goto, SubmixTypeOK
  <2> QED BY <1>2, <2>1, <2>2, <2>3, <2>4, QuietStep DEF InputsStay, PrepareToClose, SubmixClose
<1>3. CASE CloseFailed(s)
  <2>1. RoutesQuiet /\ RouteTypeOK' BY <1>1, <1>3 DEF CloseFailed
  <2>2. SubmixTypeOK' BY <1>3, <2>1 DEF CloseFailed, Goto, SubmixTypeOK
  <2>3. RouteKnown'
    BY <1>3 DEF CloseFailed, Goto, SubmixTypeOK, RouteKnown, OpeningSteps, OpenSteps, ClosingSteps
  <2> QED BY <1>0, <1>3, <2>1, <2>2, <2>3, QuietStep DEF InputsStay, CloseFailed, Goto, SubmixTypeOK, OpenSteps
<1>4. CASE TestLast(s) \/ DropPipe(s) \/ DropRoute(s)
  <2>1. route[s] \in Streams /\ routes[route[s]] \in Route
    BY <1>0, <1>4 DEF TestLast, DropPipe, DropRoute, RouteKnown, SubmixTypeOK, ClosingSteps
  <2>2. RoutesQuiet /\ RouteTypeOK'
    <3>1. CASE DropPipe(s)
      <4>1. RoutesQuiet
        BY <1>0, <2>1, <3>1, QuietOperators, RouteChange DEF DropPipe, ReleasePipe
      <4> QED BY <1>0, <3>1, <4>1 DEF DropPipe, ReleasePipe, RoutesQuiet, RouteTypeOK
    <3>2. CASE TestLast(s) \/ DropRoute(s)
      BY <1>0, <3>2, NoRouteChange DEF TestLast, DropRoute, RemoveRoute, routeVars, RouteTypeOK
    <3> QED BY <1>4, <3>1, <3>2
  <2>3. SubmixTypeOK'
    BY <1>4, <2>2 DEF TestLast, DropPipe, DropRoute, Finish, Goto, SubmixTypeOK, ClosingSteps
  <2>4. RouteKnown'
    BY <1>4, <2>1 DEF TestLast, DropPipe, DropRoute, Finish, Goto, SubmixTypeOK, RouteKnown,
                      OpeningSteps, OpenSteps, ClosingSteps
  <2> QED BY <1>0, <1>4, <2>2, <2>3, <2>4, QuietStep
             DEF InputsStay, TestLast, DropPipe, DropRoute, Finish, Goto, SubmixTypeOK, OpenSteps
<1>5. CASE Detach(s)
  <2>0. PICK r \in Streams : r = route[s]
    BY <1>0, <1>5 DEF Detach, RouteKnown, SubmixTypeOK, OpenSteps
  <2>1. r = route[s] /\ route[s] \in Streams /\ routes[r] \in Route BY <1>0, <2>0
  <2>2. RouteKnown'
    BY <1>5, <2>1 DEF Detach, RouteKnown, Goto, SubmixTypeOK, OpeningSteps, OpenSteps, ClosingSteps
  <2>3. CASE s \notin Ins
    <3>1. RoutesQuiet /\ UNCHANGED <<table, pipes>>
      BY <1>0, <1>5, <2>1, <2>3, QuietOperators, RouteChange DEF Detach, CloseStream
    <3>2. SubmixTypeOK'
      BY <1>5, <3>1 DEF Detach, SubmixTypeOK, RouteTypeOK, RoutesQuiet, Goto, ClosingSteps
    <3> QED BY <1>0, <1>5, <2>2, <2>3, <3>1, <3>2, QuietStep DEF InputsStay, Detach, Goto, SubmixTypeOK
  <2>4. CASE s \in Ins
    <3>1. /\ routes' = [routes EXCEPT ![r] = InClosed(routes[r])]
          /\ pipes' = IF routes[r].inRefs = 1 THEN ShutSink(r, TRUE) ELSE pipes
          /\ UNCHANGED table
      BY <1>5, <2>1, <2>4 DEF Detach, CloseStream
    <3>2. InputsOf(r)' = InputsOf(r) \ {s} /\ s \in InputsOf(r)
      BY <1>0, <1>5, <2>1, <2>4 DEF Detach, InputsOf, Goto, SubmixTypeOK, OpenSteps
    <3>3. ASSUME NEW q \in Streams, q # r PROVE InputsOf(q)' = InputsOf(q)
      BY <1>0, <1>5, <2>1, <3>3 DEF Detach, InputsOf, Goto, SubmixTypeOK
    <3>4. Cardinality(InputsOf(r)') = Cardinality(InputsOf(r)) - 1
      BY <3>2, InputsFinite, FS_RemoveElement
    <3>5. routes[r].inOpen /\ routes[r].inRefs = Cardinality(InputsOf(r)) /\ routes[r].inRefs > 0
      <4>1. routes[r].inOpen /\ routes[r].inRefs = Cardinality(InputsOf(r))
        BY <1>0, <2>1, <3>2 DEF InputsCounted
      <4>2. Cardinality(InputsOf(r)) # 0 BY <3>2, InputsFinite, FS_EmptySet
      <4> QED BY <4>1, <4>2, InputsFinite
    <3>6. routes'[r] = InClosed(routes[r]) BY <1>0, <2>1, <3>1
    <3>7. SubmixTypeOK'
      BY <1>0, <1>5, <2>1, <3>1, <3>5, InClosedType, ShutSinkType
         DEF Detach, SubmixTypeOK, RouteTypeOK, Goto, ClosingSteps
    <3>8. InputsOf(r)' # {} <=> routes[r].inRefs # 1
      <4>1. IsFiniteSet(InputsOf(r)') BY <3>2, InputsFinite, FS_RemoveElement
      <4>2. InputsOf(r)' = {} <=> Cardinality(InputsOf(r)') = 0 BY <4>1, FS_EmptySet
      <4> QED BY <3>4, <3>5, <4>2, InputsFinite
    <3>9. ASSUME NEW q \in Streams
          PROVE /\ routes'[q].inOpen <=> InputsOf(q)' # {}
                /\ routes'[q].inOpen => routes'[q].inRefs = Cardinality(InputsOf(q)')
      <4>1. CASE q = r BY <2>1, <3>4, <3>5, <3>6, <3>8, <4>1, InClosedType
      <4>2. CASE q # r
        <5>1. routes'[q] = routes[q] /\ InputsOf(q)' = InputsOf(q)
          BY <1>0, <3>1, <3>3, <4>2
        <5> QED BY <1>0, <5>1 DEF InputsCounted
      <4> QED BY <4>1, <4>2
    <3>10. InputsCounted' BY <3>9 DEF InputsCounted
    <3> QED BY <2>2, <3>7, <3>10
  <2> QED BY <2>3, <2>4
<1> QED BY <1>2, <1>3, <1>4, <1>5 DEF Closing

(***************************************************************************)
(* The theorems.                                                           *)
(***************************************************************************)
LEMMA StutterStep == ASSUME IInv, UNCHANGED submixVars PROVE IInv'
<1> USE DEF IInv, submixVars, routeVars
<1>1. SubmixTypeOK' BY DEF SubmixTypeOK, RouteTypeOK
<1>2. RouteKnown' BY DEF RouteKnown
<1>3. RouteTypeOK BY DEF SubmixTypeOK
<1> QED BY <1>1, <1>2, <1>3, NoRouteChange, QuietStep DEF InputsStay

LEMMA Invariance == SubmixSpec => []IInv
<1>1. IInv /\ [SubmixNext]_submixVars => IInv'
  <2> SUFFICES ASSUME IInv, [SubmixNext]_submixVars PROVE IInv' OBVIOUS
  <2>1. CASE SubmixNext BY <2>1, OpeningStep, ServeStep, ClosingStep DEF SubmixNext
  <2>2. CASE UNCHANGED submixVars BY <2>2, StutterStep
  <2> QED BY <2>1, <2>2
<1> QED BY InitIInv, <1>1, PTL DEF SubmixSpec

\* The variables of the streams, of the routes and of the pipes keep their
\* types; in particular no count of inputs becomes negative.
THEOREM SubmixTypes == SubmixSpec => []SubmixTypeOK
<1>1. IInv => SubmixTypeOK BY DEF IInv
<1> QED BY <1>1, Invariance, PTL

\* The count of the inputs of a route is right in every interleaving of any
\* number of streams (openStream, closeStream).
THEOREM InputsAlwaysCounted == SubmixSpec => []InputsCounted
<1>1. IInv => InputsCounted BY DEF IInv
<1> QED BY <1>1, Invariance, PTL

(***************************************************************************)
(* Nothing is left: somebody holds what there is.                          *)
(***************************************************************************)
Gone == {"new", "failed", "closed"}

\* An output that is open is that of an open stream.
OutputHeld ==
  \A r \in Streams : routes[r].outOpen =>
    \E o \in Outs : route[o] = r /\ at[o] \in OpenSteps \cup {"dead"}

\* The pipe of a route is that of a stream that has not dropped it yet,
PipeHeld ==
  \A r \in Streams : routes[r].sink # None =>
    \E t \in Streams : route[t] = r /\ at[t] \notin Gone \cup {"remove"}

\* the route in the table that of a stream that has not gone,
TableHeld ==
  table # None => \E t \in Streams : route[t] = table /\ at[t] \notin Gone

\* and if it is without a pipe, one makes a new pipe or removes it.
BareHeld ==
  table # None /\ routes[table].sink = None =>
    \E t \in Streams : route[t] = table /\ at[t] \in {"create", "remove"}

Held == OutputHeld /\ PipeHeld /\ TableHeld /\ BareHeld

\* A step of the stream s, from the state before to the one after.
OnlyOf(s) ==
  /\ s \in Streams
  /\ \A t \in Streams \ {s} : at'[t] = at[t] /\ route'[t] = route[t]

LEMMA StepsAreOfOne ==
  ASSUME SubmixTypeOK, NEW s \in Streams, Opening(s) \/ Serve(s) \/ Closing(s)
  PROVE  OnlyOf(s)
<1> USE DEF OnlyOf, Goto, SubmixTypeOK
<1>1. CASE Begin(s) \/ Validate(s) \/ LookUp(s) \/ ResetRelease(s) \/ ResetCreate(s) \/ Attach(s)
  BY <1>1 DEF Begin, Validate, LookUp, ResetRelease, ResetCreate, Attach
<1>2. CASE StandBy(s) \/ Start(s) BY <1>2 DEF StandBy, Start, submixWorkerVars
<1>3. CASE BeginWrite(s) BY <1>3 DEF BeginWrite
<1>4. CASE Decide(s) \/ EndWrite(s) \/ BeginRead(s) \/ EndRead(s)
  BY <1>4 DEF Decide, EndWrite, BeginRead, EndRead
<1>5. CASE PrepareToClose(s) \/ SubmixClose(s) \/ CloseFailed(s) \/ Detach(s)
  BY <1>5 DEF PrepareToClose, SubmixClose, CloseFailed, Detach
<1>6. CASE TestLast(s) \/ DropPipe(s) \/ DropRoute(s)
  BY <1>6 DEF TestLast, DropPipe, DropRoute, Finish
<1> QED BY <1>1, <1>2, <1>3, <1>4, <1>5, <1>6 DEF Opening, Serve, Closing

\* Routes whose pipes and outputs stay, or are closed.
PipesStay ==
  /\ table' = table
  /\ \A r \in Streams : /\ routes'[r].sink = routes[r].sink
                        /\ routes'[r].outOpen => routes[r].outOpen

\* A step of a stream that holds as much as before.
LEMMA HoldsOn ==
  ASSUME RouteTypeOK, Held, NEW s, OnlyOf(s), PipesStay, route'[s] = route[s],
         at[s] \in OpenSteps \cup {"dead"} =>
           at'[s] \in OpenSteps \cup {"dead"} \/ \A r \in Streams : r = route[s] => ~routes'[r].outOpen,
         at[s] \notin Gone \cup {"remove"} => at'[s] \notin Gone \cup {"remove"},
         at[s] \notin Gone => at'[s] \notin Gone,
         at[s] \notin {"create", "remove"}
  PROVE  Held'
<1>1. OutputHeld'
  <2> SUFFICES ASSUME NEW r \in Streams, routes'[r].outOpen
               PROVE  \E o \in Outs : route'[o] = r /\ at'[o] \in OpenSteps \cup {"dead"}
    BY DEF OutputHeld, OpenSteps
  <2>1. PICK o \in Outs : route[o] = r /\ at[o] \in OpenSteps \cup {"dead"}
    BY DEF Held, OutputHeld, PipesStay
  <2> QED BY <2>1 DEF OnlyOf, Streams
<1>2. PipeHeld'
  <2> SUFFICES ASSUME NEW r \in Streams, routes'[r].sink # None
               PROVE  \E t \in Streams : route'[t] = r /\ at'[t] \notin Gone \cup {"remove"}
    BY DEF PipeHeld, Gone
  <2>1. PICK t \in Streams : route[t] = r /\ at[t] \notin Gone \cup {"remove"}
    BY DEF Held, PipeHeld, PipesStay
  <2> QED BY <2>1 DEF OnlyOf
<1>3. TableHeld' BY DEF Held, TableHeld, PipesStay, OnlyOf, Gone
<1>4. BareHeld' BY DEF Held, BareHeld, PipesStay, OnlyOf, RouteTypeOK
<1> QED BY <1>1, <1>2, <1>3, <1>4 DEF Held

\* Methods that keep the pipe of a route, and open no output.
SamePipe(new, rt) == new.sink = rt.sink /\ (new.outOpen => rt.outOpen)

LEMMA PipeOperators ==
  ASSUME NEW rt \in Route
  PROVE  /\ SamePipe(OutClosed(rt), rt) /\ ~OutClosed(rt).outOpen
         /\ SamePipe(InStandby(rt), rt) /\ SamePipe(OutStandby(rt), rt)
         /\ SamePipe(InActive(rt), rt) /\ SamePipe(OutActive(rt), rt)
         /\ SamePipe(FramesRead(rt), rt) /\ SamePipe(InClosed(rt), rt)
         /\ SamePipe(InOpened(rt), rt)
         /\ Released(rt).sink = None /\ Released(rt).outOpen = rt.outOpen
         /\ OutOpened(rt).sink = rt.sink
<1> USE DEF SamePipe, Route
<1>1. SamePipe(OutClosed(rt), rt) /\ ~OutClosed(rt).outOpen BY DEF OutClosed
<1>2. SamePipe(InStandby(rt), rt) /\ SamePipe(OutStandby(rt), rt) BY DEF InStandby, OutStandby
<1>3. SamePipe(InActive(rt), rt) /\ SamePipe(OutActive(rt), rt) BY DEF InActive, OutActive
<1>4. SamePipe(FramesRead(rt), rt) BY DEF FramesRead
<1>5. SamePipe(InClosed(rt), rt) BY DEF InClosed
<1>6. SamePipe(InOpened(rt), rt) BY DEF InOpened
<1>7. Released(rt).sink = None /\ Released(rt).outOpen = rt.outOpen BY DEF Released
<1>8. OutOpened(rt).sink = rt.sink BY DEF OutOpened
<1> QED BY <1>1, <1>2, <1>3, <1>4, <1>5, <1>6, <1>7, <1>8

LEMMA PipeChange ==
  ASSUME RouteTypeOK, UNCHANGED table, NEW r \in Streams, NEW new, SamePipe(new, routes[r]),
         routes' = [routes EXCEPT ![r] = new]
  PROVE  PipesStay
  BY DEF PipesStay, SamePipe, RouteTypeOK

LEMMA NoPipeChange ==
  ASSUME UNCHANGED <<table, routes>> PROVE PipesStay
  BY DEF PipesStay

LEMMA ServeHeld ==
  ASSUME IInv, Held, NEW s \in Streams, Serve(s) PROVE Held'
<1>0. SubmixTypeOK /\ RouteTypeOK /\ RouteKnown /\ OnlyOf(s) BY StepsAreOfOne DEF IInv, SubmixTypeOK
<1>1. at[s] \in OpenSteps
  BY DEF Serve, StandBy, Start, BeginWrite, Decide, EndWrite, BeginRead, EndRead, Serving, OpenSteps
<1>2. route[s] \in Streams /\ routes[route[s]] \in Route
  BY <1>0, <1>1 DEF RouteKnown, SubmixTypeOK, RouteTypeOK
<1>3. PipesStay
  <2>1. CASE StandBy(s)
    BY <1>0, <1>2, <2>1, PipeOperators, PipeChange DEF StandBy, StandbyRoute
  <2>2. CASE Start(s) \/ BeginWrite(s) \/ BeginRead(s)
    BY <1>0, <1>2, <2>2, PipeOperators, PipeChange DEF Start, BeginWrite, BeginRead, ExitStandby
  <2>3. CASE Decide(s) \/ EndWrite(s)
    BY <2>3, NoPipeChange DEF Decide, EndWrite, routeVars
  <2>4. CASE EndRead(s)
    BY <1>0, <1>2, <2>4, PipeOperators, PipeChange, NoPipeChange
       DEF EndRead, UpdateReadCounterFrames, routeVars
  <2> QED BY <2>1, <2>2, <2>3, <2>4 DEF Serve
<1>4. route'[s] = route[s]
  BY DEF Serve, StandBy, Start, BeginWrite, Decide, EndWrite, BeginRead, EndRead, submixWorkerVars
<1>5. at'[s] \in OpenSteps \cup {"dead"}
  <2>1. CASE StandBy(s) \/ Start(s) BY <1>1, <2>1 DEF StandBy, Start, submixWorkerVars
  <2>2. CASE BeginWrite(s) BY <1>0, <1>1, <2>2 DEF BeginWrite, SubmixTypeOK, Goto, OpenSteps
  <2>3. CASE Decide(s) \/ EndWrite(s) \/ BeginRead(s) \/ EndRead(s)
    BY <1>0, <2>3 DEF Decide, EndWrite, BeginRead, EndRead, SubmixTypeOK, Goto, OpenSteps
  <2> QED BY <2>1, <2>2, <2>3 DEF Serve
<1>6. at[s] \notin {"create", "remove"} /\ at'[s] \notin Gone \cup {"remove"}
  BY <1>1, <1>5 DEF OpenSteps, Gone
<1> QED BY <1>0, <1>3, <1>4, <1>5, <1>6, HoldsOn

LEMMA OpeningHeld ==
  ASSUME IInv, Held, NEW s \in Streams, Opening(s) PROVE Held'
<1>0. /\ SubmixTypeOK /\ RouteTypeOK /\ RouteKnown /\ InputsCounted /\ OnlyOf(s)
      /\ Outs \subseteq Streams /\ routes \in [Streams -> Route]
  BY StepsAreOfOne DEF IInv, SubmixTypeOK, RouteTypeOK, Streams
<1>1. CASE Begin(s)
  <2>1. at[s] = "new" /\ at'[s] = "validate" /\ route'[s] = table'
    BY <1>0, <1>1 DEF Begin, Goto, SubmixTypeOK
  <2>2. CASE table # None
    <3>1. UNCHANGED <<table, routes>> BY <1>1, <2>2 DEF Begin, FindOrCreateRoute
    <3> QED BY <1>0, <2>1, <3>1 DEF Held, OutputHeld, PipeHeld, TableHeld, BareHeld, OnlyOf,
                                    Gone, OpenSteps
  <2>3. CASE table = None
    <3>1. table' = s /\ routes' = [routes EXCEPT ![s] = WithPipe(@, <<s, "create">>, s \in Odd)]
      BY <1>1, <2>3 DEF Begin, FindOrCreateRoute, CreatePipe
    <3>2. /\ routes'[s].sink = <<s, "create">> /\ routes'[s].outOpen = routes[s].outOpen
          /\ \A r \in Streams \ {s} : routes'[r] = routes[r]
      BY <1>0, <3>1 DEF WithPipe, Route
    <3>3. routes'[s].sink # None BY <3>2, StreamsAssumption
    <3>4. OutputHeld' BY <1>0, <2>1, <3>2 DEF Held, OutputHeld, OnlyOf, OpenSteps
    <3>5. PipeHeld' BY <2>1, <3>1, <3>2, <1>0 DEF Held, PipeHeld, OnlyOf, Gone
    <3>6. TableHeld' BY <2>1, <3>1 DEF TableHeld, Gone
    <3>7. BareHeld' BY <3>1, <3>3 DEF BareHeld
    <3> QED BY <3>4, <3>5, <3>6, <3>7 DEF Held
  <2> QED BY <2>2, <2>3
<1>2. CASE Validate(s) \/ LookUp(s)
  <2>1. UNCHANGED <<table, routes>> /\ route' = route BY <1>2 DEF Validate, LookUp, routeVars
  <2>2. at[s] \in {"validate", "lookup"}
        /\ at'[s] \in {"lookup", "release", "attach", "failed"}
    BY <1>0, <1>2 DEF Validate, LookUp, Goto, SubmixTypeOK
  <2>3. route[s] \in Streams BY <1>0, <2>2 DEF RouteKnown, SubmixTypeOK, OpeningSteps
  <2>4. ASSUME at'[s] = "failed"
        PROVE  \/ \E t \in Streams \ {s} : route[t] = route[s] /\ at[t] \in OpenSteps \cup {"dead"}
               \/ routes[route[s]].sink = None
    <3>1. CASE Validate(s)
      <4>1. ~IsStreamConfigValid(route[s], s) BY <1>0, <2>4, <3>1 DEF Validate, Goto, SubmixTypeOK
      <4>2. routes[route[s]].inOpen \/ routes[route[s]].outOpen
        BY <4>1 DEF IsStreamConfigValid, HasAtleastOneStreamOpen
      <4>3. routes[route[s]].inOpen => InputsOf(route[s]) # {} BY <1>0, <2>3 DEF InputsCounted
      <4>4. routes[route[s]].outOpen =>
              \E o \in Outs : route[o] = route[s] /\ at[o] \in OpenSteps \cup {"dead"}
        BY <2>3 DEF Held, OutputHeld
      <4> QED BY <2>2, <4>2, <4>3, <4>4 DEF InputsOf, OpenSteps, Streams
    <3>2. CASE LookUp(s) BY <1>0, <2>4, <3>2 DEF LookUp, Goto, SubmixTypeOK
    <3> QED BY <1>2, <3>1, <3>2
  <2>5. OutputHeld' BY <1>0, <2>1, <2>2 DEF Held, OutputHeld, OnlyOf, OpenSteps
  <2>6. PipeHeld'
    <3>1. CASE at'[s] = "failed"
      BY <1>0, <2>1, <2>2, <2>4, <3>1 DEF Held, PipeHeld, OnlyOf, Gone, OpenSteps
    <3>2. CASE at'[s] # "failed"
      BY <1>0, <2>1, <2>2, <3>2 DEF Held, PipeHeld, OnlyOf, Gone
    <3> QED BY <3>1, <3>2
  <2>7. BareHeld' BY <1>0, <2>1, <2>2 DEF Held, BareHeld, OnlyOf
  <2>8. TableHeld'
    <3>1. CASE at'[s] = "failed"
      BY <1>0, <2>1, <2>2, <2>4, <3>1 DEF Held, TableHeld, BareHeld, OnlyOf, Gone, OpenSteps
    <3>2. CASE at'[s] # "failed"
      BY <1>0, <2>1, <2>2, <3>2 DEF Held, TableHeld, OnlyOf, Gone
    <3> QED BY <3>1, <3>2
  <2> QED BY <2>5, <2>6, <2>7, <2>8 DEF Held
<1>3. CASE ResetRelease(s) \/ ResetCreate(s) \/ Attach(s)
  <2>1. /\ UNCHANGED table /\ route' = route
        /\ at[s] \in {"release", "create", "attach"}
    BY <1>3 DEF ResetRelease, ReleasePipe, ResetCreate, Attach, OpenStream
  <2>2. PICK r \in Streams : r = route[s]
    BY <1>0, <2>1 DEF RouteKnown, SubmixTypeOK, OpeningSteps
  <2>3. CASE ResetRelease(s)
    <3>1. at'[s] = "create" /\ routes' = [routes EXCEPT ![r] = Released(@)]
      BY <1>0, <2>2, <2>3 DEF ResetRelease, ReleasePipe, Goto, SubmixTypeOK
    <3>2. /\ routes'[r].sink = None /\ routes'[r].outOpen = routes[r].outOpen
          /\ \A q \in Streams \ {r} : routes'[q] = routes[q]
      BY <1>0, <3>1, PipeOperators
    <3>3. OutputHeld' BY <1>0, <2>1, <3>1, <3>2 DEF Held, OutputHeld, OnlyOf, OpenSteps
    <3>4. PipeHeld' BY <1>0, <2>1, <3>1, <3>2 DEF Held, PipeHeld, OnlyOf, Gone
    <3>5. TableHeld' BY <1>0, <2>1, <3>1 DEF Held, TableHeld, OnlyOf, Gone
    <3>6. BareHeld'
      <4>1. CASE table = r BY <2>1, <2>2, <3>1, <4>1 DEF BareHeld
      <4>2. CASE table # r
        BY <1>0, <2>1, <3>1, <3>2, <4>2 DEF Held, BareHeld, OnlyOf, RouteTypeOK
      <4> QED BY <4>1, <4>2
    <3> QED BY <3>3, <3>4, <3>5, <3>6 DEF Held
  <2>4. CASE ResetCreate(s)
    <3>1. /\ at'[s] = "attach" /\ at[s] = "create"
          /\ routes' = [routes EXCEPT ![r] = WithPipe(@, <<s, "reset">>, routes[r].odd)]
      BY <1>0, <2>2, <2>4 DEF ResetCreate, CreatePipe, Goto, SubmixTypeOK
    <3>2. /\ routes'[r].sink = <<s, "reset">> /\ routes'[r].outOpen = routes[r].outOpen
          /\ \A q \in Streams \ {r} : routes'[q] = routes[q]
      BY <1>0, <3>1 DEF WithPipe, Route
    <3>3. routes'[r].sink # None BY <3>2, StreamsAssumption
    <3>4. OutputHeld' BY <1>0, <2>1, <3>1, <3>2 DEF Held, OutputHeld, OnlyOf, OpenSteps
    <3>5. PipeHeld' BY <1>0, <2>1, <2>2, <3>1, <3>2 DEF Held, PipeHeld, OnlyOf, Gone
    <3>6. TableHeld' BY <1>0, <2>1, <3>1 DEF Held, TableHeld, OnlyOf, Gone
    <3>7. BareHeld'
      <4>1. CASE table = r BY <2>1, <3>3, <4>1 DEF BareHeld
      <4>2. CASE table # r
        BY <1>0, <2>1, <2>2, <3>1, <3>2, <4>2 DEF Held, BareHeld, OnlyOf, RouteTypeOK
      <4> QED BY <4>1, <4>2
    <3> QED BY <3>4, <3>5, <3>6, <3>7 DEF Held
  <2>5. CASE Attach(s)
    <3>1. at'[s] = "open" /\ at[s] = "attach" /\ OpenStream(r, s)
      BY <1>0, <2>2, <2>5 DEF Attach, Goto, SubmixTypeOK
    <3>2. PICK new : /\ routes' = [routes EXCEPT ![r] = new] /\ new.sink = routes[r].sink
                     /\ new.outOpen => routes[r].outOpen \/ s \in Outs
      <4>1. CASE s \in Ins
        <5>1. routes' = [routes EXCEPT ![r] = InOpened(routes[r])] BY <3>1, <4>1 DEF OpenStream
        <5> QED BY <1>0, <5>1, PipeOperators DEF SamePipe
      <4>2. CASE s \notin Ins
        <5>1. routes' = [routes EXCEPT ![r] = OutOpened(routes[r])] /\ s \in Outs
          BY <3>1, <4>2 DEF OpenStream, Streams
        <5>2. OutOpened(routes[r]).sink = routes[r].sink BY <1>0, PipeOperators
        <5> QED BY <5>1, <5>2
      <4> QED BY <4>1, <4>2
    <3>3. /\ routes'[r].sink = routes[r].sink
          /\ routes'[r].outOpen => routes[r].outOpen \/ s \in Outs
          /\ \A q \in Streams \ {r} : routes'[q] = routes[q]
      BY <1>0, <3>2
    <3>4. OutputHeld' BY <1>0, <2>1, <2>2, <3>1, <3>3 DEF Held, OutputHeld, OnlyOf, OpenSteps
    <3>5. PipeHeld' BY <1>0, <2>1, <3>1, <3>3 DEF Held, PipeHeld, OnlyOf, Gone
    <3>6. TableHeld' BY <1>0, <2>1, <3>1 DEF Held, TableHeld, OnlyOf, Gone
    <3>7. BareHeld' BY <1>0, <2>1, <3>1, <3>3 DEF Held, BareHeld, OnlyOf, RouteTypeOK
    <3> QED BY <3>4, <3>5, <3>6, <3>7 DEF Held
  <2> QED BY <1>3, <2>3, <2>4, <2>5
<1> QED BY <1>1, <1>2, <1>3 DEF Opening

LEMMA ClosingHeld ==
  ASSUME IInv, Held, NEW s \in Streams, Closing(s) PROVE Held'
<1>0. /\ SubmixTypeOK /\ RouteTypeOK /\ RouteKnown /\ InputsCounted /\ OnlyOf(s)
      /\ Outs \subseteq Streams /\ routes \in [Streams -> Route]
  BY StepsAreOfOne DEF IInv, SubmixTypeOK, RouteTypeOK, Streams
<1>1. ReleaseOutput(s) => PipesStay
  <2>1. CASE s \in Outs /\ table # None
    BY <1>0, <2>1, PipeOperators, PipeChange DEF ReleaseOutput, RouteTypeOK
  <2>2. CASE ~(s \in Outs /\ table # None)
    BY <2>2, NoPipeChange DEF ReleaseOutput, routeVars
  <2> QED BY <2>1, <2>2
<1>2. CASE PrepareToClose(s) \/ SubmixClose(s)
  <2>1. route' = route /\ PipesStay /\ at[s] \in OpenSteps /\ at'[s] \in OpenSteps \cup {"dead"}
    BY <1>0, <1>1, <1>2 DEF PrepareToClose, SubmixClose, Goto, SubmixTypeOK
  <2>2. at[s] \notin {"create", "remove"} /\ at'[s] \notin Gone \cup {"remove"}
    BY <2>1 DEF OpenSteps, Gone
  <2> QED BY <1>0, <2>1, <2>2, HoldsOn
<1>3. CASE CloseFailed(s)
  <2>1. PipesStay /\ at[s] = "failed" BY <1>1, <1>3 DEF CloseFailed
  <2>2. OutputHeld' BY <1>0, <2>1 DEF Held, OutputHeld, PipesStay, OnlyOf, OpenSteps
  <2>3. PipeHeld' BY <1>0, <2>1 DEF Held, PipeHeld, PipesStay, OnlyOf, Gone
  <2>4. TableHeld' BY <1>0, <2>1 DEF Held, TableHeld, PipesStay, OnlyOf, Gone
  <2>5. BareHeld' BY <1>0, <2>1 DEF Held, BareHeld, PipesStay, OnlyOf, RouteTypeOK
  <2> QED BY <2>2, <2>3, <2>4, <2>5 DEF Held
<1>4. CASE Detach(s)
  <2>1. PICK r \in Streams : r = route[s]
    BY <1>0, <1>4 DEF Detach, RouteKnown, SubmixTypeOK, OpenSteps
  <2>2. at[s] = "open" /\ at'[s] = "test" /\ route'[s] = route[s] /\ CloseStream(r, s)
    BY <1>0, <1>4, <2>1 DEF Detach, Goto, SubmixTypeOK
  <2>3. PipesStay /\ (s \in Outs => ~routes'[r].outOpen)
    <3>1. CASE s \in Ins
      <4>1. routes' = [routes EXCEPT ![r] = InClosed(routes[r])] /\ UNCHANGED table
        BY <2>2, <3>1 DEF CloseStream
      <4> QED BY <1>0, <3>1, <4>1, PipeOperators, PipeChange, StreamsAssumption
    <3>2. CASE s \notin Ins
      <4>1. routes' = [routes EXCEPT ![r] = OutClosed(routes[r])] /\ UNCHANGED table
        BY <2>2, <3>2 DEF CloseStream
      <4>2. SamePipe(OutClosed(routes[r]), routes[r]) /\ ~OutClosed(routes[r]).outOpen
        BY <1>0, PipeOperators
      <4>3. routes'[r] = OutClosed(routes[r]) BY <1>0, <4>1
      <4> QED BY <1>0, <4>1, <4>2, <4>3, PipeChange
    <3> QED BY <3>1, <3>2
  <2>4. OutputHeld' BY <1>0, <2>1, <2>2, <2>3 DEF Held, OutputHeld, PipesStay, OnlyOf
  <2>5. PipeHeld' BY <1>0, <2>2, <2>3 DEF Held, PipeHeld, PipesStay, OnlyOf, Gone
  <2>6. TableHeld' BY <1>0, <2>2, <2>3 DEF Held, TableHeld, PipesStay, OnlyOf, Gone
  <2>7. BareHeld' BY <1>0, <2>2, <2>3 DEF Held, BareHeld, PipesStay, OnlyOf, RouteTypeOK
  <2> QED BY <2>4, <2>5, <2>6, <2>7 DEF Held
<1>5. CASE TestLast(s)
  <2>1. UNCHANGED <<table, routes>> /\ at[s] = "test" BY <1>5 DEF TestLast, routeVars
  <2>2. route[s] \in Streams BY <1>0, <2>1 DEF RouteKnown, SubmixTypeOK, ClosingSteps
  <2>3. CASE HasAtleastOneStreamOpen(route[s])
    <3>1. routes[route[s]].inOpen => InputsOf(route[s]) # {} BY <1>0, <2>2 DEF InputsCounted
    <3>2. routes[route[s]].outOpen =>
            \E o \in Outs : route[o] = route[s] /\ at[o] \in OpenSteps \cup {"dead"}
      BY <2>2 DEF Held, OutputHeld
    <3>3. PICK t \in Streams \ {s} : route[t] = route[s] /\ at[t] \in OpenSteps \cup {"dead"}
      BY <2>1, <2>3, <3>1, <3>2 DEF HasAtleastOneStreamOpen, InputsOf, OpenSteps, Streams
    <3>4. OutputHeld' BY <1>0, <2>1 DEF Held, OutputHeld, OnlyOf, OpenSteps
    <3>5. PipeHeld' BY <1>0, <2>1, <3>3 DEF Held, PipeHeld, OnlyOf, Gone, OpenSteps
    <3>6. TableHeld' BY <1>0, <2>1, <3>3 DEF Held, TableHeld, OnlyOf, Gone, OpenSteps
    <3>7. BareHeld' BY <1>0, <2>1 DEF Held, BareHeld, OnlyOf
    <3> QED BY <3>4, <3>5, <3>6, <3>7 DEF Held
  <2>4. CASE ~HasAtleastOneStreamOpen(route[s])
    <3>1. at'[s] = "drop" /\ route'[s] = route[s] BY <1>0, <1>5, <2>4 DEF TestLast, Goto, SubmixTypeOK
    <3>2. PipesStay BY <2>1, NoPipeChange
    <3>3. /\ at[s] \notin OpenSteps \cup {"dead"} \cup {"create", "remove"}
          /\ at'[s] \notin Gone \cup {"remove"}
      BY <2>1, <3>1 DEF OpenSteps, Gone
    <3> QED BY <1>0, <3>1, <3>2, <3>3, HoldsOn
  <2> QED BY <2>3, <2>4
<1>6. CASE DropPipe(s)
  <2>1. /\ UNCHANGED table /\ route' = route /\ at[s] = "drop" /\ at'[s] = "remove"
    BY <1>0, <1>6 DEF DropPipe, ReleasePipe, Goto, SubmixTypeOK
  <2>2. PICK r \in Streams : r = route[s]
    BY <1>0, <2>1 DEF RouteKnown, SubmixTypeOK, ClosingSteps
  <2>3. routes' = [routes EXCEPT ![r] = Released(@)] BY <1>6, <2>2 DEF DropPipe, ReleasePipe
  <2>4. /\ routes'[r].sink = None /\ routes'[r].outOpen = routes[r].outOpen
        /\ \A q \in Streams \ {r} : routes'[q] = routes[q]
    BY <1>0, <2>3, PipeOperators
  <2>5. OutputHeld' BY <1>0, <2>1, <2>4 DEF Held, OutputHeld, OnlyOf, OpenSteps
  <2>6. PipeHeld' BY <1>0, <2>1, <2>2, <2>4 DEF Held, PipeHeld, OnlyOf
  <2>7. TableHeld' BY <1>0, <2>1 DEF Held, TableHeld, OnlyOf, Gone
  <2>8. BareHeld'
    <3>1. CASE table = r BY <2>1, <2>2, <3>1 DEF BareHeld
    <3>2. CASE table # r BY <1>0, <2>1, <2>4, <3>2 DEF Held, BareHeld, OnlyOf, RouteTypeOK
    <3> QED BY <3>1, <3>2
  <2> QED BY <2>5, <2>6, <2>7, <2>8 DEF Held
<1>7. CASE DropRoute(s)
  <2>1. table' = None /\ routes' = routes /\ at[s] = "remove"
    BY <1>7 DEF DropRoute, RemoveRoute
  <2>2. OutputHeld' BY <1>0, <2>1 DEF Held, OutputHeld, OnlyOf, OpenSteps
  <2>3. PipeHeld' BY <1>0, <2>1 DEF Held, PipeHeld, OnlyOf
  <2>4. TableHeld' /\ BareHeld' BY <2>1 DEF TableHeld, BareHeld
  <2> QED BY <2>2, <2>3, <2>4 DEF Held
<1> QED BY <1>2, <1>3, <1>4, <1>5, <1>6, <1>7 DEF Closing

LEMMA AlwaysHeld == SubmixSpec => []Held
<1>1. SubmixInit => Held
  <2> SUFFICES ASSUME SubmixInit PROVE Held OBVIOUS
  <2>1. table = None /\ \A r \in Streams : ~routes[r].outOpen /\ routes[r].sink = None
    BY DEF SubmixInit, RouteInit, NewRoute
  <2> QED BY <2>1 DEF Held, OutputHeld, PipeHeld, TableHeld, BareHeld
<1>2. IInv /\ Held /\ [SubmixNext]_submixVars => Held'
  <2> SUFFICES ASSUME IInv, Held, [SubmixNext]_submixVars PROVE Held' OBVIOUS
  <2>1. CASE SubmixNext BY <2>1, OpeningHeld, ServeHeld, ClosingHeld DEF SubmixNext
  <2>2. CASE UNCHANGED submixVars
    BY <2>2 DEF submixVars, routeVars, Held, OutputHeld, PipeHeld, TableHeld, BareHeld
  <2> QED BY <2>1, <2>2
<1> QED BY <1>1, <1>2, Invariance, PTL DEF SubmixSpec

\* When all streams are closed, the last shutdown() has removed the route and
\* its pipe, in every interleaving of any number of streams that open and close
\* and whatever their clients do (shutdown, findOrCreateRoute, resetPipe).
THEOREM NothingEverLeft == SubmixSpec => []NothingLeft
<1>1. Held => NothingLeft BY DEF Held, PipeHeld, TableHeld, NothingLeft, Gone
<1> QED BY <1>1, AlwaysHeld, PTL

\* MonoPipe::shutdown of the sink of a route changes that pipe and no other.
LEMMA ShutSinkShuts ==
  ASSUME RouteTypeOK, NEW r \in Streams, NEW b \in BOOLEAN, pipes' = ShutSink(r, b)
  PROVE  /\ \A p \in PipeId : p # routes[r].sink => pipes'[p].shut = pipes[p].shut
         /\ routes[r].sink # None => pipes'[routes[r].sink].shut = b
<1>1. CASE routes[r].sink = None
  BY <1>1 DEF ShutSink
<1>2. CASE routes[r].sink # None
  <2>1. routes[r].sink \in PipeId BY <1>2 DEF RouteTypeOK, Route
  <2>2. pipes' = [pipes EXCEPT ![routes[r].sink].shut = b] BY <1>2 DEF ShutSink
  <2> QED BY <2>1, <2>2 DEF RouteTypeOK
<1> QED BY <1>1, <1>2

(***************************************************************************)
(* Writers wait for readers: a writer that was told to block is let go by  *)
(* the last input to close its route.                                      *)
(***************************************************************************)
\* A pipe that a stream has not made yet, and may make.
BeforeReset == {"new", "validate", "lookup", "release", "create"}

Unmade(t, p) ==
  \/ p = <<t, "create">> /\ at[t] = "new"
  \/ p = <<t, "reset">> /\ at[t] \in BeforeReset

\* Nobody knows of a pipe before it is made,
NoneYet ==
  \A t \in Streams, p \in PipeId : Unmade(t, p) =>
    \A s \in Streams : routes[s].sink # p /\ sink[s] # p

\* no two routes share one,
OwnPipe ==
  \A r \in Streams, q \in Streams :
    routes[r].sink = routes[q].sink /\ routes[r].sink # None => r = q

\* and a writer has looked one up.
LookedUp == \A s \in Outs : at[s] \in {"decide", "write"} => sink[s] # None

\* A writer that is to block on the pipe of its route has an input there, or the
\* pipe is shut, whether it is full or not.
ReaderThere ==
  \A s \in Outs :
    /\ at[s] = "write" /\ block[s]
    /\ routes[route[s]].sink = sink[s] /\ ~pipes[sink[s]].shut
    => routes[route[s]].inOpen

WaitInv == NoneYet /\ OwnPipe /\ LookedUp /\ ReaderThere

\* What a step of the stream s does to the pipes of the routes: none gets
\* another, or one gets a new one.
SinksKept == \A r \in Streams : routes'[r].sink \in {routes[r].sink, None}

SinkMade(s) ==
  \E r \in Streams, p \in PipeId :
    /\ Unmade(s, p) /\ ~Unmade(s, p)' /\ routes'[r].sink = p
    /\ \A q \in Streams \ {r} : routes'[q].sink = routes[q].sink

ShutStays == \A p \in PipeId : pipes[p].shut => pipes'[p].shut

\* ... and to what the workers have looked up.
WorkersStay(s) ==
  /\ \A t \in Streams \ {s} : sink'[t] = sink[t] /\ block'[t] = block[t]
  /\ sink'[s] \in {sink[s], None} \cup {routes[q].sink : q \in Streams}
  /\ \A p \in PipeId : Unmade(s, p)' => Unmade(s, p)
  /\ s \in Outs /\ at'[s] \in {"decide", "write"} => sink'[s] # None
  /\ at'[s] = "write" /\ ~Decide(s) =>
       at[s] = "write" /\ block'[s] = block[s] /\ sink'[s] = sink[s] /\ route'[s] = route[s]

\* No route loses its inputs while its pipe is in use.
Calm(s) ==
  \A r \in Streams, p \in PipeId :
    ~Unmade(s, p) /\ routes'[r].sink = p /\ ~pipes'[p].shut /\ ~routes'[r].inOpen
    => routes[r].sink = p /\ ~pipes[p].shut /\ ~routes[r].inOpen

LEMMA NoPipe == None \notin PipeId
  BY StreamsAssumption DEF PipeId

LEMMA OwnNames ==
  ASSUME NEW s \in Streams, NEW t \in Streams, NEW p, Unmade(s, p), Unmade(t, p)
  PROVE  s = t
  BY DEF Unmade

LEMMA UnmadeOfOne ==
  ASSUME NEW s, OnlyOf(s), NEW t \in Streams \ {s}, NEW p
  PROVE  Unmade(t, p)' = Unmade(t, p)
  BY DEF Unmade, OnlyOf

LEMMA QuietCalm ==
  ASSUME NEW s, RoutesQuiet, SinksKept \/ SinkMade(s), ShutStays
  PROVE  Calm(s)
<1> SUFFICES ASSUME NEW r \in Streams, NEW p \in PipeId, ~Unmade(s, p), routes'[r].sink = p,
                    ~pipes'[p].shut, ~routes'[r].inOpen
             PROVE  routes[r].sink = p /\ ~pipes[p].shut /\ ~routes[r].inOpen
  BY DEF Calm
<1>1. ~pipes[p].shut /\ ~routes[r].inOpen BY DEF ShutStays, RoutesQuiet
<1>2. routes[r].sink = p BY NoPipe DEF SinksKept, SinkMade
<1> QED BY <1>1, <1>2

LEMMA NamesStill ==
  ASSUME NoneYet, OwnPipe, RouteTypeOK, NEW s, OnlyOf(s), SinksKept \/ SinkMade(s), WorkersStay(s)
  PROVE  NoneYet' /\ OwnPipe'
<1>0. s \in Streams BY DEF OnlyOf
<1>1. NoneYet'
  <2> SUFFICES ASSUME NEW t \in Streams, NEW p \in PipeId, Unmade(t, p)', NEW q \in Streams
               PROVE  routes'[q].sink # p /\ sink'[q] # p
    BY DEF NoneYet
  <2>1. Unmade(t, p) BY <1>0, UnmadeOfOne DEF WorkersStay
  <2>2. routes[q].sink # p /\ sink[q] # p /\ \A r \in Streams : routes[r].sink # p
    BY <2>1 DEF NoneYet
  <2>3. sink'[q] # p BY <2>2, NoPipe DEF WorkersStay
  <2>4. routes'[q].sink # p
    <3>1. CASE SinksKept BY <2>2, <3>1, NoPipe DEF SinksKept
    <3>2. CASE SinkMade(s)
      <4>1. PICK r \in Streams, x \in PipeId :
              /\ Unmade(s, x) /\ ~Unmade(s, x)' /\ routes'[r].sink = x
              /\ \A o \in Streams \ {r} : routes'[o].sink = routes[o].sink
        BY <3>2 DEF SinkMade
      <4>2. CASE q # r BY <2>2, <4>1, <4>2
      <4>3. CASE q = r
        <5>1. CASE x = p
          <6>1. t = s BY <1>0, <2>1, <4>1, <5>1, OwnNames
          <6> QED BY <4>1, <5>1, <6>1
        <5>2. CASE x # p BY <4>1, <4>3, <5>2
        <5> QED BY <5>1, <5>2
      <4> QED BY <4>2, <4>3
    <3> QED BY <3>1, <3>2
  <2> QED BY <2>3, <2>4
<1>2. OwnPipe'
  <2> SUFFICES ASSUME NEW q \in Streams, NEW o \in Streams,
                      routes'[q].sink = routes'[o].sink, routes'[q].sink # None
               PROVE  q = o
    BY DEF OwnPipe
  <2>1. CASE SinksKept BY <2>1 DEF SinksKept, OwnPipe
  <2>2. CASE SinkMade(s)
    <3>1. PICK r \in Streams, x \in PipeId :
            /\ Unmade(s, x) /\ routes'[r].sink = x
            /\ \A c \in Streams \ {r} : routes'[c].sink = routes[c].sink
      BY <2>2 DEF SinkMade
    <3>2. \A c \in Streams : routes[c].sink # x BY <1>0, <3>1 DEF NoneYet
    <3>3. CASE q = r \/ o = r BY <3>1, <3>2, <3>3
    <3>4. CASE q # r /\ o # r BY <3>1, <3>4 DEF OwnPipe
    <3> QED BY <3>3, <3>4
  <2> QED BY <2>1, <2>2
<1> QED BY <1>1, <1>2

\* A step that is calm and leaves the other workers alone keeps the invariant.
LEMMA WaitStill ==
  ASSUME IInv, WaitInv, NEW s, OnlyOf(s), SinksKept \/ SinkMade(s), WorkersStay(s), Calm(s),
         Decide(s) => \A r \in Streams : routes'[r] = routes[r]
  PROVE  WaitInv'
<1>0. s \in Streams /\ SubmixTypeOK /\ RouteTypeOK /\ RouteKnown
  BY DEF OnlyOf, IInv, SubmixTypeOK
<1>1. NoneYet' /\ OwnPipe' BY <1>0, NamesStill DEF WaitInv
<1>2. LookedUp'
  <2> SUFFICES ASSUME NEW t \in Outs, at'[t] \in {"decide", "write"} PROVE sink'[t] # None
    BY DEF LookedUp
  <2>1. CASE t = s BY <2>1 DEF WorkersStay
  <2>2. CASE t # s
    <3>1. t \in Streams \ {s} BY <2>2 DEF Streams
    <3> QED BY <3>1 DEF WorkersStay, OnlyOf, WaitInv, LookedUp
  <2> QED BY <2>1, <2>2
<1>3. ReaderThere'
  <2> SUFFICES ASSUME NEW t \in Outs, at'[t] = "write", block'[t],
                      routes'[route'[t]].sink = sink'[t], ~pipes'[sink'[t]].shut,
                      ~routes'[route'[t]].inOpen
               PROVE  FALSE
    BY DEF ReaderThere
  <2>0. t \in Streams BY DEF Streams
  <2>1. CASE t = s /\ Decide(s)
    <3>1. route'[t] = route[t] BY <2>1 DEF Decide
    <3>2. route[t] \in Streams
      BY <1>0, <2>0, <2>1 DEF Decide, RouteKnown, SubmixTypeOK, OpenSteps
    <3>3. block'[t] = ShouldBlockWrite(route[t]) BY <1>0, <2>1 DEF Decide, SubmixTypeOK
    <3> QED BY <2>1, <3>1, <3>2, <3>3 DEF ShouldBlockWrite
  <2>2. CASE ~(t = s /\ Decide(s))
    <3>1. at[t] = "write" /\ block[t] /\ sink'[t] = sink[t] /\ route'[t] = route[t]
      <4>1. CASE t = s BY <2>2, <4>1 DEF WorkersStay
      <4>2. CASE t # s BY <2>0, <4>2 DEF WorkersStay, OnlyOf
      <4> QED BY <4>1, <4>2
    <3>2. route[t] \in Streams
      BY <1>0, <2>0, <3>1 DEF RouteKnown, SubmixTypeOK, OpenSteps
    <3>3. sink[t] \in PipeId
      <4>1. sink[t] # None BY <3>1 DEF WaitInv, LookedUp
      <4> QED BY <1>0, <2>0, <4>1 DEF SubmixTypeOK
    <3>4. ~Unmade(s, sink[t]) BY <1>0, <2>0, <3>3 DEF WaitInv, NoneYet
    <3>5. routes[route[t]].sink = sink[t] /\ ~pipes[sink[t]].shut /\ ~routes[route[t]].inOpen
      BY <3>1, <3>2, <3>3, <3>4 DEF Calm
    <3> QED BY <3>1, <3>5 DEF WaitInv, ReaderThere
  <2> QED BY <2>1, <2>2
<1> QED BY <1>1, <1>2, <1>3 DEF WaitInv

\* A method that keeps the inputs, and the pipe or drops it.
Keeps(new, rt) == SameInputs(new, rt) /\ new.sink \in {rt.sink, None}

LEMMA KeepingOperators ==
  ASSUME NEW rt \in Route
  PROVE  /\ Keeps(Released(rt), rt) /\ Keeps(OutOpened(rt), rt) /\ Keeps(OutClosed(rt), rt)
         /\ Keeps(InStandby(rt), rt) /\ Keeps(OutStandby(rt), rt)
         /\ Keeps(InActive(rt), rt) /\ Keeps(OutActive(rt), rt) /\ Keeps(FramesRead(rt), rt)
  BY QuietOperators, PipeOperators DEF Keeps, SamePipe

LEMMA KeepingChange ==
  ASSUME RouteTypeOK, NEW r \in Streams, NEW new, Keeps(new, routes[r]),
         routes' = [routes EXCEPT ![r] = new]
  PROVE  RoutesQuiet /\ SinksKept
<1>1. RoutesQuiet BY RouteChange DEF Keeps
<1>2. SinksKept BY DEF Keeps, SinksKept, RouteTypeOK
<1> QED BY <1>1, <1>2

LEMMA SameSinks == ASSUME UNCHANGED routes PROVE SinksKept
  BY DEF SinksKept

LEMMA MakesSink ==
  ASSUME RouteTypeOK, NEW s \in Streams, NEW r \in Streams, NEW p \in PipeId, NEW odd,
         Unmade(s, p), ~Unmade(s, p)', CreatePipe(r, p, odd)
  PROVE  SinkMade(s)
<1>1. WithPipe(routes[r], p, odd).sink = p BY DEF WithPipe, RouteTypeOK, Route
<1>2. routes' = [routes EXCEPT ![r] = WithPipe(routes[r], p, odd)] BY DEF CreatePipe
<1> QED BY <1>1, <1>2 DEF SinkMade, RouteTypeOK

LEMMA OpeningWait ==
  ASSUME IInv, WaitInv, NEW s \in Streams, Opening(s) PROVE WaitInv'
<1>0. /\ SubmixTypeOK /\ RouteTypeOK /\ RouteKnown /\ OnlyOf(s)
      /\ routes \in [Streams -> Route] /\ ~Decide(s)
  BY StepsAreOfOne DEF IInv, SubmixTypeOK, RouteTypeOK, Opening, Begin, Validate, LookUp,
                       ResetRelease, ResetCreate, Attach, Decide
<1>1. IInv' BY OpeningStep
<1>2. WorkersStay(s)
  <2>1. UNCHANGED <<sink, block>>
    BY DEF Opening, Begin, Validate, LookUp, ResetRelease, ResetCreate, Attach
  <2>2. at'[s] \notin {"new", "decide", "write"}
        /\ (at'[s] \in BeforeReset => at[s] \in BeforeReset)
    BY <1>0 DEF Opening, Begin, Validate, LookUp, ResetRelease, ResetCreate, Attach, Goto,
                SubmixTypeOK, BeforeReset
  <2> QED BY <2>1, <2>2 DEF WorkersStay, Unmade
<1>3. CASE Begin(s)
  <2>1. UNCHANGED pipes /\ at'[s] = "validate" /\ at[s] = "new"
    BY <1>0, <1>3 DEF Begin, FindOrCreateRoute, Goto, SubmixTypeOK
  <2>2. CASE table = None
    <3>1. CreatePipe(s, <<s, "create">>, s \in Odd) BY <1>3, <2>2 DEF Begin, FindOrCreateRoute
    <3>2. Unmade(s, <<s, "create">>) /\ ~Unmade(s, <<s, "create">>)' BY <2>1 DEF Unmade
    <3>3. SinkMade(s) BY <1>0, <3>1, <3>2, Names, MakesSink
    <3>4. RoutesQuiet
      <4>1. routes[s] \in Route /\ (s \in Odd) \in BOOLEAN BY <1>0
      <4> QED BY <1>0, <3>1, <4>1, Names, WithPipeType, RouteChange DEF CreatePipe
    <3> QED BY <1>0, <1>2, <2>1, <3>3, <3>4, QuietCalm, WaitStill DEF ShutStays
  <2>3. CASE table # None
    <3>1. UNCHANGED routes BY <1>3, <2>3 DEF Begin, FindOrCreateRoute
    <3> QED BY <1>0, <1>2, <2>1, <3>1, SameSinks, NoRouteChange, QuietCalm, WaitStill DEF ShutStays
  <2> QED BY <2>2, <2>3
<1>4. CASE Validate(s) \/ LookUp(s)
  <2>1. UNCHANGED <<routes, pipes>> BY <1>4 DEF Validate, LookUp, routeVars
  <2> QED BY <1>0, <1>2, <2>1, SameSinks, NoRouteChange, QuietCalm, WaitStill DEF ShutStays
<1>5. CASE ResetRelease(s) \/ ResetCreate(s) \/ Attach(s)
  <2>1. route[s] \in Streams /\ routes[route[s]] \in Route
    BY <1>0, <1>5 DEF ResetRelease, ResetCreate, Attach, RouteKnown, SubmixTypeOK, OpeningSteps
  <2>2. CASE ResetRelease(s)
    <3>1. routes' = [routes EXCEPT ![route[s]] = Released(routes[route[s]])] /\ UNCHANGED pipes
      BY <2>2 DEF ResetRelease, ReleasePipe
    <3>2. SinksKept /\ RoutesQuiet
      BY <1>0, <2>1, <3>1, KeepingOperators, KeepingChange
    <3> QED BY <1>0, <1>2, <3>1, <3>2, QuietCalm, WaitStill DEF ShutStays
  <2>3. CASE ResetCreate(s)
    <3>1. /\ CreatePipe(route[s], <<s, "reset">>, routes[route[s]].odd) /\ UNCHANGED pipes
          /\ at[s] = "create" /\ at'[s] = "attach"
      BY <1>0, <2>3 DEF ResetCreate, Goto, SubmixTypeOK
    <3>2. Unmade(s, <<s, "reset">>) /\ ~Unmade(s, <<s, "reset">>)'
      BY <3>1 DEF Unmade, BeforeReset
    <3>3. SinkMade(s) BY <1>0, <2>1, <3>1, <3>2, Names, MakesSink
    <3>4. RoutesQuiet
      <4>1. routes[route[s]].odd \in BOOLEAN BY <2>1 DEF Route
      <4> QED BY <1>0, <2>1, <3>1, <4>1, Names, WithPipeType, RouteChange DEF CreatePipe
    <3> QED BY <1>0, <1>2, <3>1, <3>3, <3>4, QuietCalm, WaitStill DEF ShutStays
  <2>4. CASE Attach(s) /\ s \notin Ins
    <3>1. routes' = [routes EXCEPT ![route[s]] = OutOpened(routes[route[s]])] /\ UNCHANGED pipes
      BY <2>4 DEF Attach, OpenStream
    <3>2. SinksKept /\ RoutesQuiet
      BY <1>0, <2>1, <3>1, KeepingOperators, KeepingChange
    <3> QED BY <1>0, <1>2, <3>1, <3>2, QuietCalm, WaitStill DEF ShutStays
  <2>5. CASE Attach(s) /\ s \in Ins
    <3>0. PICK r \in Streams : r = route[s] BY <2>1
    <3>1. routes' = [routes EXCEPT ![r] = InOpened(routes[r])] /\ pipes' = ShutSink(r, FALSE)
      BY <2>5, <3>0 DEF Attach, OpenStream
    <3>2. InOpened(routes[r]).sink = routes[r].sink /\ InOpened(routes[r]).inOpen
      <4>1. routes[r] \in Route BY <1>0
      <4> QED BY <4>1, PipeOperators, InOpenedType DEF SamePipe
    <3>3. SinksKept BY <1>0, <3>1, <3>2 DEF SinksKept
    <3>4. Calm(s)
      <4> SUFFICES ASSUME NEW q \in Streams, NEW p \in PipeId, routes'[q].sink = p,
                          ~pipes'[p].shut, ~routes'[q].inOpen
                   PROVE  routes[q].sink = p /\ ~pipes[p].shut /\ ~routes[q].inOpen
        BY DEF Calm
      <4>1. q # r BY <1>0, <3>1, <3>2
      <4>2. routes'[q] = routes[q] BY <1>0, <3>1, <4>1
      <4>3. p # routes[r].sink BY <4>1, <4>2, NoPipe DEF WaitInv, OwnPipe
      <4>4. pipes'[p].shut = pipes[p].shut BY <1>0, <3>1, <4>3, ShutSinkShuts
      <4> QED BY <4>2, <4>4
    <3> QED BY <1>0, <1>2, <3>3, <3>4, WaitStill
  <2> QED BY <1>5, <2>2, <2>3, <2>4, <2>5
<1> QED BY <1>3, <1>4, <1>5 DEF Opening

LEMMA ServeWait ==
  ASSUME IInv, WaitInv, NEW s \in Streams, Serve(s) PROVE WaitInv'
<1>0. /\ SubmixTypeOK /\ RouteTypeOK /\ RouteKnown /\ OnlyOf(s)
      /\ routes \in [Streams -> Route] /\ at[s] \in OpenSteps
  BY StepsAreOfOne DEF IInv, SubmixTypeOK, RouteTypeOK, Serve, StandBy, Start, BeginWrite, Decide,
                       EndWrite, BeginRead, EndRead, Serving, OpenSteps
<1>1. route[s] \in Streams /\ routes[route[s]] \in Route
  BY <1>0 DEF RouteKnown, SubmixTypeOK
<1>2. RoutesQuiet /\ SinksKept
  <2>1. ASSUME ExitStandby(route[s], s) PROVE RoutesQuiet /\ SinksKept
    <3>1. routes' = [routes EXCEPT ![route[s]] = IF s \in Ins THEN InActive(routes[route[s]])
                                                 ELSE OutActive(routes[route[s]])]
      BY <2>1 DEF ExitStandby
    <3> QED BY <1>0, <1>1, <3>1, KeepingOperators, KeepingChange
  <2>2. CASE StandBy(s)
    <3>1. routes' = [routes EXCEPT ![route[s]] = IF s \in Ins THEN InStandby(routes[route[s]])
                                                 ELSE OutStandby(routes[route[s]])]
      BY <2>2 DEF StandBy, StandbyRoute
    <3> QED BY <1>0, <1>1, <3>1, KeepingOperators, KeepingChange
  <2>3. CASE Start(s) \/ BeginWrite(s) \/ BeginRead(s)
    BY <2>1, <2>3 DEF Start, BeginWrite, BeginRead
  <2>4. CASE Decide(s) \/ EndWrite(s)
    BY <1>0, <2>4, NoRouteChange, SameSinks DEF Decide, EndWrite, routeVars
  <2>5. CASE EndRead(s)
    <3>1. CASE UNCHANGED routes BY <1>0, <3>1, NoRouteChange, SameSinks
    <3>2. CASE routes' = [routes EXCEPT ![route[s]] = FramesRead(routes[route[s]])]
      BY <1>0, <1>1, <3>2, KeepingOperators, KeepingChange
    <3> QED BY <2>5, <3>1, <3>2 DEF EndRead, UpdateReadCounterFrames, routeVars
  <2> QED BY <2>2, <2>3, <2>4, <2>5 DEF Serve
<1>3. ShutStays
  <2>1. CASE StandBy(s) \/ Start(s) \/ BeginWrite(s) \/ Decide(s) \/ BeginRead(s)
    BY <2>1 DEF ShutStays, StandBy, StandbyRoute, Start, BeginWrite, Decide, BeginRead,
                ExitStandby, routeVars
  <2>2. CASE EndWrite(s) BY <1>0, <2>2 DEF ShutStays, EndWrite, RouteTypeOK
  <2>3. CASE EndRead(s) BY <1>0, <2>3 DEF ShutStays, EndRead, RouteTypeOK, routeVars
  <2> QED BY <2>1, <2>2, <2>3 DEF Serve
<1>4. WorkersStay(s)
  <2>1. at'[s] \notin BeforeReset /\ at'[s] # "new"
    BY <1>0 DEF Serve, StandBy, Start, BeginWrite, Decide, EndWrite, BeginRead, EndRead, Goto,
                submixWorkerVars, SubmixTypeOK, OpenSteps, BeforeReset
  <2>2. CASE StandBy(s) \/ Start(s)
    BY <1>0, <2>1, <2>2 DEF StandBy, Start, submixWorkerVars, WorkersStay, Unmade, WaitInv, LookedUp
  <2>3. CASE BeginWrite(s)
    BY <1>0, <1>1, <2>1, <2>3 DEF BeginWrite, Goto, SubmixTypeOK, WorkersStay, Unmade, OpenSteps,
                                  Serving
  <2>4. CASE Decide(s)
    BY <1>0, <2>1, <2>4 DEF Decide, Goto, SubmixTypeOK, WorkersStay, Unmade, WaitInv, LookedUp
  <2>5. CASE EndWrite(s)
    BY <1>0, <2>1, <2>5 DEF EndWrite, Goto, SubmixTypeOK, WorkersStay, Unmade
  <2>6. CASE BeginRead(s) \/ EndRead(s)
    BY <1>0, <2>1, <2>6 DEF BeginRead, EndRead, Goto, SubmixTypeOK, WorkersStay, Unmade
  <2> QED BY <2>2, <2>3, <2>4, <2>5, <2>6 DEF Serve
<1>5. Decide(s) => \A r \in Streams : routes'[r] = routes[r] BY DEF Decide, routeVars
<1> QED BY <1>0, <1>2, <1>3, <1>4, <1>5, QuietCalm, WaitStill

LEMMA ClosingWait ==
  ASSUME IInv, WaitInv, NEW s \in Streams, Closing(s) PROVE WaitInv'
<1>0. /\ SubmixTypeOK /\ RouteTypeOK /\ RouteKnown /\ OnlyOf(s)
      /\ routes \in [Streams -> Route] /\ InputsCounted
  BY StepsAreOfOne DEF IInv, SubmixTypeOK, RouteTypeOK
<1>1. ~Decide(s)
  <2>1. CASE PrepareToClose(s) \/ SubmixClose(s)
    BY <1>0, <2>1 DEF PrepareToClose, SubmixClose, Goto, SubmixTypeOK, Decide, Closing
  <2>2. CASE CloseFailed(s) \/ Detach(s) \/ TestLast(s) \/ DropPipe(s) \/ DropRoute(s)
    BY <2>2 DEF CloseFailed, Detach, TestLast, DropPipe, DropRoute, Decide
  <2> QED BY <2>1, <2>2 DEF Closing
<1>2. WorkersStay(s)
  <2>1. UNCHANGED <<sink, block>>
    BY DEF Closing, PrepareToClose, SubmixClose, CloseFailed, Detach, TestLast, DropPipe, DropRoute
  <2>2. CASE PrepareToClose(s) \/ SubmixClose(s)
    <3>1. at'[s] \in {at[s], "dead"} /\ route' = route
      BY <1>0, <2>2 DEF PrepareToClose, SubmixClose, Goto, SubmixTypeOK
    <3> QED BY <2>1, <3>1 DEF WorkersStay, Unmade, BeforeReset, WaitInv, LookedUp
  <2>3. CASE CloseFailed(s) \/ Detach(s) \/ TestLast(s) \/ DropPipe(s) \/ DropRoute(s)
    <3>1. at'[s] \in {"closed", "dead", "test", "drop", "remove"}
      BY <1>0, <2>3 DEF CloseFailed, Detach, TestLast, DropPipe, DropRoute, Finish, Goto, SubmixTypeOK
    <3> QED BY <2>1, <3>1 DEF WorkersStay, Unmade, BeforeReset
  <2> QED BY <2>2, <2>3 DEF Closing
<1>3. ASSUME ReleaseOutput(s) PROVE RoutesQuiet /\ SinksKept /\ ShutStays
  <2>1. CASE s \in Outs /\ table # None
    <3>1. table \in Streams /\ routes[table] \in Route BY <1>0, <2>1 DEF RouteTypeOK
    <3>2. routes' = [routes EXCEPT ![table] = OutClosed(routes[table])]
          /\ pipes' = ShutSink(table, TRUE)
      BY <1>3, <2>1 DEF ReleaseOutput
    <3>3. RoutesQuiet /\ SinksKept BY <1>0, <3>1, <3>2, KeepingOperators, KeepingChange
    <3>4. ShutStays
      <4> SUFFICES ASSUME NEW p \in PipeId, pipes[p].shut PROVE pipes'[p].shut BY DEF ShutStays
      <4>1. CASE p = routes[table].sink BY <1>0, <3>1, <3>2, <4>1, NoPipe, ShutSinkShuts
      <4>2. CASE p # routes[table].sink BY <1>0, <3>1, <3>2, <4>2, ShutSinkShuts
      <4> QED BY <4>1, <4>2
    <3> QED BY <3>3, <3>4
  <2>2. CASE ~(s \in Outs /\ table # None)
    BY <1>0, <1>3, <2>2, NoRouteChange, SameSinks DEF ReleaseOutput, routeVars, ShutStays
  <2> QED BY <2>1, <2>2
<1>4. CASE PrepareToClose(s) \/ SubmixClose(s) \/ CloseFailed(s)
  <2>1. RoutesQuiet /\ SinksKept /\ ShutStays
    BY <1>3, <1>4 DEF PrepareToClose, SubmixClose, CloseFailed
  <2> QED BY <1>0, <1>1, <1>2, <2>1, QuietCalm, WaitStill
<1>5. CASE TestLast(s) \/ DropRoute(s)
  <2>1. UNCHANGED <<routes, pipes>> BY <1>5 DEF TestLast, DropRoute, RemoveRoute, routeVars
  <2> QED BY <1>0, <1>1, <1>2, <2>1, SameSinks, NoRouteChange, QuietCalm, WaitStill DEF ShutStays
<1>6. CASE DropPipe(s) \/ Detach(s)
  <2>0. PICK r \in Streams : r = route[s]
    BY <1>0, <1>6 DEF DropPipe, Detach, RouteKnown, SubmixTypeOK, OpenSteps, ClosingSteps
  <2>1. routes[r] \in Route BY <1>0
  <2>2. CASE DropPipe(s)
    <3>1. routes' = [routes EXCEPT ![r] = Released(routes[r])] /\ UNCHANGED pipes
      BY <2>0, <2>2 DEF DropPipe, ReleasePipe
    <3>2. RoutesQuiet /\ SinksKept BY <1>0, <2>1, <3>1, KeepingOperators, KeepingChange
    <3> QED BY <1>0, <1>1, <1>2, <3>1, <3>2, QuietCalm, WaitStill DEF ShutStays
  <2>3. CASE Detach(s) /\ s \notin Ins
    <3>1. routes' = [routes EXCEPT ![r] = OutClosed(routes[r])] /\ UNCHANGED pipes
      BY <2>0, <2>3 DEF Detach, CloseStream
    <3>2. RoutesQuiet /\ SinksKept BY <1>0, <2>1, <3>1, KeepingOperators, KeepingChange
    <3> QED BY <1>0, <1>1, <1>2, <3>1, <3>2, QuietCalm, WaitStill DEF ShutStays
  <2>4. CASE Detach(s) /\ s \in Ins
    <3>1. /\ routes' = [routes EXCEPT ![r] = InClosed(routes[r])]
          /\ pipes' = IF routes[r].inRefs = 1 THEN ShutSink(r, TRUE) ELSE pipes
      BY <2>0, <2>4 DEF Detach, CloseStream
    <3>2. InClosed(routes[r]).sink = routes[r].sink BY <2>1, PipeOperators DEF SamePipe
    <3>3. InClosed(routes[r]).inOpen <=> routes[r].inOpen /\ routes[r].inRefs # 1
      BY <2>1 DEF InClosed, Route
    <3>4. SinksKept BY <1>0, <3>1, <3>2 DEF SinksKept
    <3>5. Calm(s)
      <4> SUFFICES ASSUME NEW q \in Streams, NEW p \in PipeId, routes'[q].sink = p,
                          ~pipes'[p].shut, ~routes'[q].inOpen
                   PROVE  routes[q].sink = p /\ ~pipes[p].shut /\ ~routes[q].inOpen
        BY DEF Calm
      <4>1. routes[q].sink = p BY <1>0, <3>1, <3>2
      <4>2. ~pipes[p].shut
        <5>1. CASE routes[r].inRefs = 1 /\ p = routes[r].sink
          BY <1>0, <3>1, <5>1, NoPipe, ShutSinkShuts
        <5>2. CASE routes[r].inRefs = 1 /\ p # routes[r].sink
          BY <1>0, <3>1, <5>2, ShutSinkShuts
        <5>3. CASE routes[r].inRefs # 1 BY <3>1, <5>3
        <5> QED BY <5>1, <5>2, <5>3
      <4>3. ~routes[q].inOpen
        <5>1. CASE q # r BY <1>0, <3>1, <5>1
        <5>2. CASE q = r
          <6>1. ~(routes[r].inOpen /\ routes[r].inRefs # 1) BY <1>0, <3>1, <3>3, <5>2
          <6>2. routes[r].inRefs # 1
            <7>1. ASSUME routes[r].inRefs = 1 PROVE pipes'[p].shut
              <8>1. routes[r].sink = p /\ routes[r].sink # None BY <4>1, <5>2, NoPipe
              <8>2. pipes' = ShutSink(r, TRUE) BY <3>1, <7>1
              <8> QED BY <1>0, <8>1, <8>2, ShutSinkShuts
            <7> QED BY <7>1
          <6> QED BY <5>2, <6>1, <6>2
        <5> QED BY <5>1, <5>2
      <4> QED BY <4>1, <4>2, <4>3
    <3> QED BY <1>0, <1>1, <1>2, <3>4, <3>5, WaitStill
  <2> QED BY <1>6, <2>2, <2>3, <2>4
<1> QED BY <1>4, <1>5, <1>6 DEF Closing

LEMMA InitWait == SubmixInit => WaitInv
<1> SUFFICES ASSUME SubmixInit PROVE WaitInv OBVIOUS
<1>1. \A s \in Streams : routes[s].sink = None /\ sink[s] = None /\ at[s] = "new"
  BY DEF SubmixInit, RouteInit, NewRoute
<1> QED BY <1>1, NoPipe DEF WaitInv, NoneYet, OwnPipe, LookedUp, ReaderThere, Streams

\* A writer waits for room in the pipe of its route only while an input is open
\* that makes some, for any number of streams and whatever clients do: early
\* prepareToClose, second outputs, overlapping calls, failed opens (outWrite,
\* openStream, closeStream, resetPipe).
THEOREM WaitsOnlyForReader == SubmixSpec => []WaitsForReader
<1>1. IInv /\ WaitInv /\ [SubmixNext]_submixVars => WaitInv'
  <2> SUFFICES ASSUME IInv, WaitInv, [SubmixNext]_submixVars PROVE WaitInv' OBVIOUS
  <2>1. CASE SubmixNext BY <2>1, OpeningWait, ServeWait, ClosingWait DEF SubmixNext
  <2>2. CASE UNCHANGED submixVars
    BY <2>2 DEF submixVars, routeVars, WaitInv, NoneYet, OwnPipe, LookedUp, ReaderThere, Unmade
  <2> QED BY <2>1, <2>2
<1>2. WaitInv => WaitsForReader BY DEF WaitInv, ReaderThere, WaitsForReader, Blocked
<1> QED BY InitWait, <1>1, <1>2, Invariance, PTL DEF SubmixSpec
=============================================================================
