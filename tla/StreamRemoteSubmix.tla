------------------------- MODULE StreamRemoteSubmix -------------------------
(***************************************************************************)
(* The streams of the remote submix module over their common route.        *)
(*                                                                         *)
(* A stream is opened by StreamSwitcher on a binder thread, which waits    *)
(* while the worker of the stream runs init(); a stream whose init() fails *)
(* is closed at once.  The worker runs start, standby and transfer, and at *)
(* the end shutdown().  prepareToClose() runs on a binder thread: because  *)
(* the client called it, because the client called close(), or because     *)
(* StreamSwitcher closes a stream that failed.                             *)
(*                                                                         *)
(* A step is what happens under one lock; init() and shutdown() hold none  *)
(* from one call on the route to the next.                                 *)
(***************************************************************************)
EXTENDS SubmixRoute, FiniteSets

CONSTANT
  Client    \* what clients do: "overlap" (open and close streams at the same
            \* time), "early" (call prepareToClose ahead of close), "second"
            \* (open an output while another is open)

ASSUME ClientAssumption == Client \subseteq {"overlap", "early", "second"}

ASSUME InsAssumption == IsFiniteSet(Ins)

VARIABLES
  at,       \* where the worker of each stream is
  route,    \* mCurrentRoute
  asked,    \* what the binder thread has done: "no", "prepared", "exit" (the
            \* worker has been sent the exit command)
  sink,     \* outWrite: the sink it has looked up,
  block,    \*   shouldBlockWrite,
  source    \*   and the source it has looked up

submixVars == <<routeVars, at, route, asked, sink, block, source>>
submixWorkerVars == <<at, route, asked, sink, block, source>>

OpeningSteps == {"validate", "lookup", "release", "create", "attach"}
OpenSteps    == {"open", "decide", "write", "reading"}
ClosingSteps == {"test", "drop", "remove"}

SubmixTypeOK ==
  /\ RouteTypeOK
  /\ at \in [Streams -> {"new", "failed", "closed", "dead"} \cup OpeningSteps
                          \cup OpenSteps \cup ClosingSteps]
  /\ route \in [Streams -> Streams \cup {None}]
  /\ asked \in [Streams -> {"no", "prepared", "exit"}]
  /\ sink \in [Streams -> PipeId \cup {None}]
  /\ source \in [Streams -> PipeId \cup {None}]
  /\ block \in [Streams -> BOOLEAN]

SubmixInit ==
  /\ RouteInit
  /\ at = [s \in Streams |-> "new"]
  /\ route = [s \in Streams |-> None]
  /\ asked = [s \in Streams |-> "no"]
  /\ sink = [s \in Streams |-> None]
  /\ source = [s \in Streams |-> None]
  /\ block = [s \in Streams |-> FALSE]

Goto(s, step) == at' = [at EXCEPT ![s] = step]

\* A stream in the middle of a call to open or close it.
Busy(s) ==
  \/ at[s] \in OpeningSteps \cup ClosingSteps \cup {"failed"}
  \/ at[s] \in OpenSteps /\ asked[s] = "exit"

MayCall == "overlap" \in Client \/ \A s \in Streams : ~Busy(s)

----------------------------------------------------------------------------
(* Opening: StreamRemoteSubmix::init. *)

Begin(s) ==
  /\ at[s] = "new" /\ MayCall
  /\ (s \in Outs /\ "second" \notin Client)
       => \A t \in Outs \ {s} : at[t] \in {"new", "closed"} \/ asked[t] # "no"
  /\ FindOrCreateRoute(s)
  /\ route' = [route EXCEPT ![s] = table']
  /\ Goto(s, "validate")
  /\ UNCHANGED <<asked, sink, block, source>>

Validate(s) ==
  /\ at[s] = "validate"
  /\ Goto(s, IF IsStreamConfigValid(route[s], s) THEN "lookup" ELSE "failed")
  /\ UNCHANGED <<routeVars, route, asked, sink, block, source>>

\* A pipe that was shut down is replaced, unless the first input opens: that
\* one makes the sink usable again when it attaches.
LookUp(s) ==
  LET r == routes[route[s]] IN
  /\ at[s] = "lookup"
  /\ Goto(s, IF r.sink = None THEN "failed"
             ELSE IF (s \in Outs \/ r.inOpen) /\ pipes[r.sink].shut THEN "release"
             ELSE "attach")
  /\ UNCHANGED <<routeVars, route, asked, sink, block, source>>

ResetRelease(s) ==
  /\ at[s] = "release"
  /\ ReleasePipe(route[s])
  /\ Goto(s, "create")
  /\ UNCHANGED <<route, asked, sink, block, source>>

ResetCreate(s) ==
  /\ at[s] = "create"
  /\ CreatePipe(route[s], <<s, "reset">>, routes[route[s]].odd)
  /\ Goto(s, "attach")
  /\ UNCHANGED <<table, pipes, route, asked, sink, block, source>>

Attach(s) ==
  /\ at[s] = "attach"
  /\ OpenStream(route[s], s)
  /\ Goto(s, "open")
  /\ UNCHANGED <<route, asked, sink, block, source>>

----------------------------------------------------------------------------
(* The worker of an open stream. *)

Serving(s) == at[s] = "open" /\ asked[s] # "exit"

StandBy(s) ==
  /\ Serving(s)
  /\ StandbyRoute(route[s], s)
  /\ UNCHANGED submixWorkerVars

Start(s) ==
  /\ Serving(s)
  /\ ExitStandby(route[s], s)
  /\ UNCHANGED submixWorkerVars

\* transfer and outWrite up to the check of the sink.  A write to a route
\* without a pipe is fatal; one to a sink that is shut is dropped.
BeginWrite(s) ==
  LET p == routes[route[s]].sink IN
  /\ s \in Outs /\ Serving(s)
  /\ ExitStandby(route[s], s)
  /\ IF p = None THEN Goto(s, "dead") /\ UNCHANGED sink
     ELSE IF pipes[p].shut THEN UNCHANGED <<at, sink>>
     ELSE Goto(s, "decide") /\ sink' = [sink EXCEPT ![s] = p]
  /\ UNCHANGED <<route, asked, block, source>>

Decide(s) ==
  /\ at[s] = "decide"
  /\ block' = [block EXCEPT ![s] = ShouldBlockWrite(route[s])]
  /\ source' = [source EXCEPT ![s] = routes[route[s]].source]
  /\ Goto(s, "write")
  /\ UNCHANGED <<routeVars, route, asked, sink>>

\* A writer that was told to block waits in MonoPipe::write for room.
Blocked(s) ==
  at[s] = "write" /\ block[s] /\ pipes[sink[s]].full /\ ~pipes[sink[s]].shut

\* A writer that was told not to block makes room by reading from the source.
EndWrite(s) ==
  /\ at[s] = "write" /\ ~Blocked(s)
  /\ \E full \in BOOLEAN : pipes' = [pipes EXCEPT ![sink[s]].full = full]
  /\ Goto(s, "open")
  /\ sink' = [sink EXCEPT ![s] = None]
  /\ source' = [source EXCEPT ![s] = None]
  /\ block' = [block EXCEPT ![s] = FALSE]
  /\ UNCHANGED <<table, routes, route, asked>>

BeginRead(s) ==
  /\ s \in Ins /\ Serving(s)
  /\ ExitStandby(route[s], s)
  /\ Goto(s, "reading")
  /\ UNCHANGED <<route, asked, sink, block, source>>

\* inRead: silence when there is no pipe, which is not counted.
EndRead(s) ==
  LET p == routes[route[s]].source IN
  /\ at[s] = "reading"
  /\ IF p = None THEN UNCHANGED routeVars
     ELSE /\ UpdateReadCounterFrames(route[s])
          /\ pipes' = [pipes EXCEPT ![p].full = FALSE]
          /\ UNCHANGED table
  /\ Goto(s, "open")
  /\ UNCHANGED <<route, asked, sink, block, source>>

----------------------------------------------------------------------------
(* Closing. *)

\* StreamRemoteSubmix::prepareToClose: whatever route the address has NOW is
\* told that its output is closed.  A route between pipes is a null pointer.
NullSink(s) == s \in Outs /\ table # None /\ routes[table].sink = None

\* Mutant: the sink is not shut.
ReleaseOutputOnly(s) ==
  IF s \in Outs /\ table # None
  THEN routes' = [routes EXCEPT ![table] = OutClosed(@)] /\ UNCHANGED <<table, pipes>>
  ELSE UNCHANGED routeVars

ReleaseOutput(s) ==
  IF s \in Outs /\ table # None
  THEN /\ pipes' = ShutSink(table, TRUE)
       /\ routes' = [routes EXCEPT ![table] = OutClosed(@)]
       /\ UNCHANGED table
  ELSE UNCHANGED routeVars

PrepareToClose(s) ==
  /\ "early" \in Client /\ MayCall
  /\ at[s] \in OpenSteps /\ asked[s] = "no"
  /\ ReleaseOutput(s)
  /\ asked' = [asked EXCEPT ![s] = "prepared"]
  /\ IF NullSink(s) THEN Goto(s, "dead") ELSE UNCHANGED at
  /\ UNCHANGED <<route, sink, block, source>>

\* StreamSwitcher::closeCurrentStream: prepareToClose, then the exit command.
SubmixClose(s) ==
  /\ at[s] \in OpenSteps /\ asked[s] # "exit" /\ MayCall
  /\ ReleaseOutput(s)
  /\ asked' = [asked EXCEPT ![s] = "exit"]
  /\ IF NullSink(s) THEN Goto(s, "dead") ELSE UNCHANGED at
  /\ UNCHANGED <<route, sink, block, source>>

\* The same for a stream whose init() failed; its worker has already ended.
CloseFailed(s) ==
  /\ at[s] = "failed"
  /\ ReleaseOutput(s)
  /\ Goto(s, IF NullSink(s) THEN "dead" ELSE "closed")
  /\ asked' = [asked EXCEPT ![s] = "exit"]
  /\ route' = [route EXCEPT ![s] = None]
  /\ UNCHANGED <<sink, block, source>>

\* StreamRemoteSubmix::shutdown.
Detach(s) ==
  /\ at[s] = "open" /\ asked[s] = "exit"
  /\ CloseStream(route[s], s)
  /\ Goto(s, "test")
  /\ UNCHANGED <<route, asked, sink, block, source>>

Finish(s) == Goto(s, "closed") /\ route' = [route EXCEPT ![s] = None]

TestLast(s) ==
  /\ at[s] = "test"
  /\ IF HasAtleastOneStreamOpen(route[s])
     THEN Finish(s)
     ELSE Goto(s, "drop") /\ UNCHANGED route
  /\ UNCHANGED <<routeVars, asked, sink, block, source>>

DropPipe(s) ==
  /\ at[s] = "drop"
  /\ ReleasePipe(route[s])
  /\ Goto(s, "remove")
  /\ UNCHANGED <<route, asked, sink, block, source>>

DropRoute(s) ==
  /\ at[s] = "remove"
  /\ RemoveRoute
  /\ Finish(s)
  /\ UNCHANGED <<asked, sink, block, source>>

Opening(s) == Begin(s) \/ Validate(s) \/ LookUp(s) \/ ResetRelease(s) \/ ResetCreate(s) \/ Attach(s)
Serve(s)   == StandBy(s) \/ Start(s) \/ BeginWrite(s) \/ Decide(s) \/ EndWrite(s)
                \/ BeginRead(s) \/ EndRead(s)
Closing(s) == PrepareToClose(s) \/ SubmixClose(s) \/ CloseFailed(s)
                \/ Detach(s) \/ TestLast(s) \/ DropPipe(s) \/ DropRoute(s)

SubmixNext == \E s \in Streams : Opening(s) \/ Serve(s) \/ Closing(s)

\* A worker finishes what it started: its thread never waits for another one
\* except in a blocked write, and close() waits for it.
SubmixWorks(s) == Decide(s) \/ EndWrite(s) \/ EndRead(s) \/ Detach(s) \/ TestLast(s)
              \/ DropPipe(s) \/ DropRoute(s)

SubmixSpec == SubmixInit /\ [][SubmixNext]_submixVars
SubmixFairSpec == SubmixSpec /\ \A s \in Streams : WF_submixVars(SubmixWorks(s))

----------------------------------------------------------------------------
(* What the module promises. *)

\* The inputs attached to a route: they have opened it, and not closed it.
InputsOf(r) == {s \in Ins : route[s] = r /\ at[s] \in OpenSteps}

\* SubmixRoute counts its inputs right in every interleaving of streams that
\* open and close (openStream, closeStream): the count decides when writers
\* stop waiting for a reader.
InputsCounted ==
  \A r \in Streams :
    /\ routes[r].inOpen <=> InputsOf(r) # {}
    /\ routes[r].inOpen => routes[r].inRefs = Cardinality(InputsOf(r))

\* When no stream is left, no route and no pipe is: the last shutdown() always
\* notices that it is the last, in every interleaving.
NothingLeft ==
  (\A s \in Streams : at[s] \in {"new", "closed"})
    => table = None /\ \A r \in Streams : routes[r].sink = None

\* An output that nobody asked to close keeps the output end of its route,
\* whatever happens to other streams (prepareToClose releases the output "the
\* client already considers closed").
OutputStaysOpen ==
  \A s \in Outs : at[s] \in OpenSteps /\ asked[s] = "no" => routes[route[s]].outOpen

\* No worker meets a route without a pipe (outWrite aborts on one).
PipeWhenNeeded == \A s \in Streams : at[s] # "dead"

\* outWrite reads from the other end of the pipe that it is going to write to
\* ("sink and source life cycles are synchronized").
SourceOfSink == \A s \in Outs : at[s] = "write" => source[s] = sink[s]

\* The configuration of an open stream is that of the pipe it is attached to,
\* also when the pipe was reset or made for a stream that has gone.
ConfigOfPipe ==
  \A s \in Streams : at[s] \in OpenSteps /\ asked[s] = "no"
    => routes[route[s]].odd = (s \in Odd)

\* A route serves its streams: its output is not closed under its writer
\* (SubmixRoute.cpp:158-180), and it has a pipe, whose source reads what its sink
\* writes, of the configuration it was asked for (SubmixRoute.cpp:199-258).
RouteServesItsStreams ==
  OutputStaysOpen /\ PipeWhenNeeded /\ SourceOfSink /\ ConfigOfPipe

\* A writer waits for room in the pipe of its route only while an input is there to
\* make some: whatever clients do, the last input to close ends the wait, although
\* the writer was told to block when the input was there (closeStream).
WaitsForReader ==
  \A s \in Outs : Blocked(s) /\ routes[route[s]].sink = sink[s] => routes[route[s]].inOpen

\* close() returns, also for an output that is waiting for room in the pipe:
\* prepareToClose shuts the sink, which ends the wait.
CloseReturns == \A s \in Streams : asked[s] = "exit" ~> at[s] \in {"closed", "dead"}
=============================================================================
