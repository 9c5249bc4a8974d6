-------------------------- MODULE DevicePortProxy --------------------------
(***************************************************************************)
(* The port of a Bluetooth stream (class BluetoothAudioPortAidl): it asks  *)
(* the Bluetooth stack to start and to suspend, waits for the answer no    *)
(* longer than 4.5 s, and takes answers and news of the stack at any time. *)
(* A step is one critical section of mCvMutex.  The stream makes one call  *)
(* at a time, under a lock of its own.                                     *)
(*                                                                         *)
(* The stack, which is not in the repository: it takes requests in their   *)
(* order, answers each with success or failure, may suspend on its own     *)
(* ("Only Suspend signal can be send in STARTED state"), and ends the      *)
(* session once.  Statuses that the code treats alike are one.             *)
(***************************************************************************)
EXTENDS Sequences

CONSTANT
  Stack   \* what the stack does besides: "late" (a call back outlives stop()),
          \* "crossing" (a suspend that crosses the stack's own is answered),
          \* "refuses" (a request fails although the session goes on)

ASSUME StackAssumption == Stack \subseteq {"late", "crossing", "refuses"}

VARIABLES
  inUse,      \* whether mCookie is set
  portState,
  at,         \* where start() or suspend() is, or "idle"
  op,         \* which of them
  ok,         \* what it will return
  waits,      \* condWaitState: the state that it waits to end
  asked,      \* requests that the stack has not answered
  news,       \* calls back under way
  streaming,  \* the stack moves data
  live        \* the session goes on

callVars  == <<at, op, ok, waits>>
stackVars == <<asked, news, streaming, live>>
portVars  == <<inUse, portState, callVars, stackVars>>

Op      == {"start", "suspend"}
State   == {"DISABLED", "STANDBY", "STARTING", "STARTED", "SUSPENDING"}
Status  == {"SUCCESS", "RECONFIGURATION", "FAILURE"}

PortTypeOK ==
  /\ inUse \in BOOLEAN /\ ok \in BOOLEAN /\ streaming \in BOOLEAN /\ live \in BOOLEAN
  /\ portState \in State
  /\ at \in {"idle", "first", "wait", "second", "ask", "answer", "result"}
  /\ op \in Op
  /\ waits \in {"STARTING", "SUSPENDING"}
  /\ asked \in Seq(Op)
  /\ news \in Seq(Status \cup {"session"})

PortInit ==
  /\ inUse = FALSE /\ portState = "DISABLED"
  /\ at = "idle" /\ op = "start" /\ ok = FALSE /\ waits = "STARTING"
  /\ asked = <<>> /\ news = <<>> /\ streaming = FALSE /\ live = TRUE

\* From what state a call takes the port, over which, to which.
From == [start |-> "STANDBY",  suspend |-> "STARTED"]
Over == [start |-> "STARTING", suspend |-> "SUSPENDING"]
To   == [start |-> "STARTED",  suspend |-> "STANDBY"]

\* What condWaitState hopes for.
Hoped == [STARTING |-> "STARTED", SUSPENDING |-> "STANDBY"]

----------------------------------------------------------------------------
(* start() and suspend(). *)

Enter(o) == at = "idle" /\ at' = "first" /\ op' = o /\ UNCHANGED <<ok, waits>>

Return(r) == at' = "result" /\ ok' = r /\ UNCHANGED <<op, waits>>

GoOn(to) == at' = to /\ UNCHANGED <<op, ok, waits>>

WaitFor(state, to) == at' = to /\ waits' = state /\ UNCHANGED <<op, ok>>

FirstSection ==
  /\ at = "first"
  /\ \/ portState = To[op] /\ Return(TRUE)
     \/ portState \in {"STARTING", "SUSPENDING"} /\ WaitFor(portState, "wait")
     \/ portState \notin {To[op], "STARTING", "SUSPENDING"} /\ GoOn("second")
  /\ UNCHANGED <<inUse, portState, stackVars>>

SecondSection ==
  /\ at = "second"
  /\ \/ portState = To[op] /\ Return(TRUE) /\ UNCHANGED portState
     \/ portState = From[op] /\ portState' = Over[op] /\ WaitFor(Over[op], "ask")
     \/ portState \notin {To[op], From[op]} /\ Return(FALSE) /\ UNCHANGED portState
  /\ UNCHANGED <<inUse, stackVars>>

\* StartStream or SuspendStream, outside the lock.
AskStack ==
  /\ at = "ask"
  /\ \/ /\ live
        /\ asked' = Append(asked, op)
        /\ GoOn("answer")
        /\ UNCHANGED <<news, streaming, live>>
     \/ /\ ~live \/ "refuses" \in Stack
        /\ Return(FALSE)
        /\ UNCHANGED stackVars
  /\ UNCHANGED <<inUse, portState>>

\* A wait ends with the state it waits to end, or after kMaxWaitingTimeMs.
WaitIsOver == TRUE

CondWaitState ==
  /\ at \in {"wait", "answer"}
  /\ WaitIsOver
  /\ IF at = "wait" /\ portState = Hoped[waits] THEN GoOn("second")
     ELSE Return(portState = Hoped[waits])
  /\ UNCHANGED <<inUse, portState, stackVars>>

PortStep == FirstSection \/ SecondSection \/ AskStack \/ CondWaitState

----------------------------------------------------------------------------
(* The other calls, each of one critical section. *)

StopPort ==
  /\ portState' = "DISABLED"
  /\ IF portState = "DISABLED" THEN UNCHANGED stackVars
     ELSE /\ streaming' = FALSE
          /\ IF "late" \in Stack THEN UNCHANGED <<asked, news>> ELSE asked' = <<>> /\ news' = <<>>
          /\ UNCHANGED live

StandbyPort == portState = "DISABLED" /\ portState' = "STANDBY"

SetState(s) == portState' = s

----------------------------------------------------------------------------
(* Calls back. *)

\* The state after controlResultHandler.
AfterResult(status) ==
  CASE portState = "STARTED"    -> IF status = "FAILURE" THEN "STARTED" ELSE "STANDBY"
    [] portState = "STARTING"   -> IF status = "SUCCESS" THEN "STARTED" ELSE "STANDBY"
    [] portState = "SUSPENDING" -> IF status = "SUCCESS" THEN "STANDBY" ELSE "DISABLED"
    [] OTHER                 -> portState

ControlResultHandler ==
  /\ news # <<>> /\ Head(news) \in Status
  /\ news' = Tail(news)
  /\ portState' = IF inUse THEN AfterResult(Head(news)) ELSE portState
  /\ UNCHANGED <<inUse, callVars, asked, streaming, live>>

SessionChangedHandler ==
  /\ news # <<>> /\ Head(news) = "session"
  /\ news' = Tail(news)
  /\ portState' = IF inUse THEN "DISABLED" ELSE portState
  /\ UNCHANGED <<inUse, callVars, asked, streaming, live>>

----------------------------------------------------------------------------
(* The stack. *)

Tell(what) == news' = IF inUse THEN Append(news, what) ELSE news

AnswerStart ==
  /\ asked # <<>> /\ Head(asked) = "start"
  /\ asked' = Tail(asked)
  /\ \/ streaming' = TRUE /\ Tell("SUCCESS")
     \/ UNCHANGED streaming /\ Tell("FAILURE")
  /\ UNCHANGED <<inUse, portState, callVars, live>>

\* A failed suspend means that the headset goes.
AnswerSuspend ==
  /\ asked # <<>> /\ Head(asked) = "suspend"
  /\ asked' = Tail(asked)
  /\ streaming' = FALSE
  /\ IF streaming \/ "crossing" \in Stack THEN Tell("SUCCESS") \/ Tell("FAILURE")
     ELSE UNCHANGED news
  /\ UNCHANGED <<inUse, portState, callVars, live>>

SuspendSignal ==
  /\ streaming
  /\ streaming' = FALSE
  /\ Tell("SUCCESS") \/ Tell("RECONFIGURATION")
  /\ UNCHANGED <<inUse, portState, callVars, asked, live>>

EndSession ==
  /\ live
  /\ live' = FALSE /\ streaming' = FALSE /\ asked' = <<>>
  /\ Tell("session")
  /\ UNCHANGED <<inUse, portState, callVars>>

CallBack  == ControlResultHandler \/ SessionChangedHandler
Answer    == AnswerStart \/ AnswerSuspend
=============================================================================
