---------------------------- MODULE SubmixRoute ----------------------------
(***************************************************************************)
(* The routes of the remote submix module: one pipe per device address,    *)
(* written by an output stream and read by input streams.  The state of    *)
(* class SubmixRoute, and one operator per method; every operator is one   *)
(* critical section of the route's mutex (or of the mutex of the table).   *)
(*                                                                         *)
(* One device address.  A route, and a pipe, is named by what made it:     *)
(* the stream that called createPipe, and for which purpose; a stream      *)
(* makes at most one of each, so a name is never used twice.               *)
(* Of the contents of a pipe only `full' is kept, and of the number of     *)
(* frames read only whether there are any.                                 *)
(***************************************************************************)
EXTENDS Naturals

CONSTANTS
  Outs, Ins,    \* the output and the input streams of the address
  Odd,          \* those that do not use the default audio configuration
  None          \* the null pointer

Streams == Outs \cup Ins

ASSUME StreamsAssumption ==
  /\ Outs \cap Ins = {}
  /\ Odd \subseteq Streams
  /\ None \notin Streams \cup (Streams \X {"create", "reset"})

VARIABLES
  table,    \* the entry of the address in the table of routes, or None
  routes,   \* the SubmixRoute objects, by the stream that created them
  pipes     \* the MonoPipe objects, by <<stream, purpose>>

routeVars == <<table, routes, pipes>>

PipeId == Streams \X {"create", "reset"}

Route == [sink : PipeId \cup {None}, source : PipeId \cup {None},
  odd : BOOLEAN, inOpen : BOOLEAN, inRefs : Nat, inStandby : BOOLEAN,
  transition : BOOLEAN, outOpen : BOOLEAN, outStandby : BOOLEAN, read : BOOLEAN]

RouteTypeOK ==
  /\ table \in Streams \cup {None}
  /\ routes \in [Streams -> Route]
  /\ pipes \in [PipeId -> [shut : BOOLEAN, full : BOOLEAN]]

NewRoute == [sink |-> None, source |-> None, odd |-> FALSE,
  inOpen |-> FALSE, inRefs |-> 0, inStandby |-> TRUE, transition |-> FALSE,
  outOpen |-> FALSE, outStandby |-> TRUE, read |-> FALSE]

RouteInit ==
  /\ table = None
  /\ routes = [s \in Streams |-> NewRoute]
  /\ pipes = [p \in PipeId |-> [shut |-> FALSE, full |-> FALSE]]

----------------------------------------------------------------------------
(* What the methods ask of a route. *)

\* Mutant: both ends must be open.
BothEndsOpen(r) == routes[r].inOpen /\ routes[r].outOpen

HasAtleastOneStreamOpen(r) == routes[r].inOpen \/ routes[r].outOpen

IsStreamConfigValid(r, s) ==
  /\ ~(s \in Outs /\ routes[r].outOpen)
  /\ HasAtleastOneStreamOpen(r) => (s \in Odd) = routes[r].odd

ShouldBlockWrite(r) ==
  routes[r].inOpen /\ (~routes[r].inStandby \/ ~routes[r].read)

\* MonoPipe::shutdown of the sink of a route that has one.
ShutSink(r, shut) ==
  IF routes[r].sink = None THEN pipes
  ELSE [pipes EXCEPT ![routes[r].sink].shut = shut]

----------------------------------------------------------------------------
(* What the methods make of a route. *)

WithPipe(rt, p, odd) == [rt EXCEPT !.sink = p, !.source = p, !.odd = odd]

\* Mutant: only one end is released.
SourceReleased(rt) == [rt EXCEPT !.source = None]

Released(rt) == [rt EXCEPT !.sink = None, !.source = None]

InOpened(rt) == [rt EXCEPT
  !.inRefs = IF rt.inOpen THEN @ + 1 ELSE 1,
  !.inOpen = TRUE, !.inStandby = TRUE, !.read = FALSE]

InClosed(rt) == [rt EXCEPT !.inRefs = @ - 1, !.inOpen = @ /\ rt.inRefs # 1]

OutOpened(rt) == [rt EXCEPT !.outOpen = TRUE]
OutClosed(rt) == [rt EXCEPT !.outOpen = FALSE]

InStandby(rt)  == [rt EXCEPT !.inStandby = TRUE]
OutStandby(rt) ==
  [rt EXCEPT !.outStandby = TRUE, !.transition = @ \/ ~rt.outStandby]

\* An input that leaves standby, or finds that the output changed, starts
\* counting the frames it reads anew.
InActive(rt)  == [rt EXCEPT !.inStandby = FALSE, !.transition = FALSE,
                    !.read = @ /\ ~rt.inStandby /\ ~rt.transition]
OutActive(rt) ==
  [rt EXCEPT !.outStandby = FALSE, !.transition = @ \/ rt.outStandby]

FramesRead(rt) == [rt EXCEPT !.read = TRUE]

----------------------------------------------------------------------------
(* The methods that change a route. *)

\* createPipe: the configuration is that of the stream that makes the route,
\* or, when the pipe is reset, the one that the route had before.
CreatePipe(r, p, odd) == routes' = [routes EXCEPT ![r] = WithPipe(@, p, odd)]

\* findOrCreateRoute, which holds the lock on the table.
FindOrCreateRoute(s) ==
  /\ UNCHANGED pipes
  /\ IF table = None
     THEN table' = s /\ CreatePipe(s, <<s, "create">>, s \in Odd)
     ELSE UNCHANGED <<table, routes>>

ReleasePipe(r) ==
  /\ routes' = [routes EXCEPT ![r] = Released(@)]
  /\ UNCHANGED <<table, pipes>>

RemoveRoute == table' = None /\ UNCHANGED <<routes, pipes>>

OpenStream(r, s) ==
  /\ UNCHANGED table
  /\ IF s \in Ins
     THEN /\ routes' = [routes EXCEPT ![r] = InOpened(@)]
          /\ pipes' = ShutSink(r, FALSE)
     ELSE routes' = [routes EXCEPT ![r] = OutOpened(@)] /\ UNCHANGED pipes

\* Mutant: the last input leaves the pipe as it is.
CloseStreamOnly(r, s) ==
  /\ UNCHANGED <<table, pipes>>
  /\ routes' = [routes EXCEPT ![r] = IF s \in Ins THEN InClosed(@) ELSE OutClosed(@)]

CloseStream(r, s) ==
  /\ UNCHANGED table
  /\ IF s \in Ins
     THEN /\ routes' = [routes EXCEPT ![r] = InClosed(@)]
          /\ pipes' = IF routes[r].inRefs = 1 THEN ShutSink(r, TRUE) ELSE pipes
     ELSE routes' = [routes EXCEPT ![r] = OutClosed(@)] /\ UNCHANGED pipes

StandbyRoute(r, s) ==
  /\ UNCHANGED <<table, pipes>>
  /\ routes' = [routes EXCEPT ![r] = IF s \in Ins THEN InStandby(@) ELSE OutStandby(@)]

ExitStandby(r, s) ==
  /\ UNCHANGED <<table, pipes>>
  /\ routes' = [routes EXCEPT ![r] = IF s \in Ins THEN InActive(@) ELSE OutActive(@)]

UpdateReadCounterFrames(r) == routes' = [routes EXCEPT ![r] = FramesRead(@)]
=============================================================================
