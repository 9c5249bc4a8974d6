------------------------------ MODULE StreamIn ------------------------------
(***************************************************************************)
(* An input stream of the audio HAL over the stub driver: the command loop *)
(* of StreamInWorkerLogic and close() on a Binder thread.  The driver of   *)
(* an input stream makes no callbacks, so nothing but the worker touches   *)
(* mState until it has ended, and a command is handled in one step.        *)
(***************************************************************************)

CONSTANTS
  InCommands,       \* the commands the client uses: some of InCommand, not "exit"
  InFailing,        \* the driver operations that may return an error
  InMqMayFail       \* reading a command or writing a reply may fail

VARIABLES
  inState,      \* mState
  inPrior,      \* mStatePriorToClosing
  inDriver,     \* "standby" (mIsStandby), "started", "aborted" (LOG(FATAL)), "shutdown"
  inPc,         \* the worker thread: "read", "handle", "reply", "setClosed",
                \* "exited" or "aborted"
  inCmd,        \* the command being handled
  inStatus,     \* reply.status
  inMq,         \* the command queue: a command, or "empty"
  inClient,     \* "free" to send a command, or "waiting" for the reply
  inCloser      \* IStreamCommon::close on a Binder thread

inVars == <<inState, inPrior, inDriver, inPc, inCmd, inStatus, inMq, inClient, inCloser>>

InCommand == {"getStatus", "start", "burst", "drain", "standby", "pause", "flush",
              "flushFromFrame", "malformed", "exit"}

InTypeOK ==
  /\ inState \in {"STANDBY", "IDLE", "ACTIVE", "PAUSED", "DRAINING", "ERROR", "CLOSED"}
  /\ inPrior \in {"STANDBY", "IDLE", "ACTIVE", "PAUSED", "DRAINING", "ERROR"}
  /\ inDriver \in {"standby", "started", "aborted", "shutdown"}
  /\ inPc \in {"read", "handle", "reply", "setClosed", "exited", "aborted"}
  /\ inCmd \in InCommand
  /\ inStatus \in {"OK", "BAD_VALUE", "INVALID_OPERATION"}
  /\ inMq \in InCommand \cup {"empty"}
  /\ inClient \in {"free", "waiting"}
  /\ inCloser \in {"open", "stopping", "joining", "closed"}

InInit ==
  /\ inState = "STANDBY" /\ inPrior = "STANDBY"
  /\ inDriver = "standby"
  /\ inPc = "read" /\ inCmd = "getStatus" /\ inStatus = "BAD_VALUE"
  /\ inMq = "empty" /\ inClient = "free" /\ inCloser = "open"

----------------------------------------------------------------------------
InSendCommand(c) ==
  /\ inClient = "free" /\ inMq = "empty" /\ inCloser = "open"
  /\ inMq' = c
  /\ inClient' = "waiting"
  /\ UNCHANGED <<inState, inPrior, inDriver, inPc, inCmd, inStatus, inCloser>>

InCloseBegin ==
  /\ inCloser = "open" /\ inState # "CLOSED"
  /\ inCloser' = "stopping"
  /\ UNCHANGED <<inState, inPrior, inDriver, inPc, inCmd, inStatus, inMq, inClient>>

\* stopWorker: blocks until the command queue has room for the exit command.
InStopWorker ==
  /\ inCloser = "stopping" /\ inMq = "empty"
  /\ inMq' = "exit"
  /\ inCloser' = "joining"
  /\ UNCHANGED <<inState, inPrior, inDriver, inPc, inCmd, inStatus, inClient>>

InSetClosed ==
  /\ inState' = "CLOSED"
  /\ inPrior' = (IF inState # "CLOSED" THEN inState ELSE inPrior)

InCloseEnd ==
  /\ inCloser = "joining" /\ inPc \in {"exited", "aborted"}
  /\ InSetClosed
  /\ inCloser' = "closed"
  /\ UNCHANGED <<inDriver, inPc, inCmd, inStatus, inMq, inClient>>

----------------------------------------------------------------------------
(* The worker thread. *)

InReadCommand ==
  /\ inPc = "read" /\ inMq # "empty"
  /\ inPc' = "handle"
  /\ inCmd' = inMq
  /\ inMq' = "empty"
  /\ UNCHANGED <<inState, inPrior, inDriver, inStatus, inClient, inCloser>>

\* The states a command is accepted in, and where it leads.  A read in
\* DRAINING is taken to consume all that was left in the hardware buffer.
Target ==
  [c \in InCommand |->
     CASE c = "start"   -> [STANDBY |-> "IDLE", DRAINING |-> "ACTIVE"]
       [] c = "burst"   -> [IDLE |-> "ACTIVE", ACTIVE |-> "ACTIVE", PAUSED |-> "ACTIVE",
                            DRAINING |-> "STANDBY"]
       [] c = "drain"   -> [ACTIVE |-> "DRAINING"]
       [] c = "standby" -> [IDLE |-> "STANDBY"]
       [] c = "pause"   -> [ACTIVE |-> "PAUSED"]
       [] c = "flush"   -> [PAUSED |-> "STANDBY"]
       [] OTHER         -> <<>>]

Accepted == inState \in DOMAIN Target[inCmd]

\* What the driver call of a command does to the driver, which validates the
\* state machine with a fatal check.  A disconnected stream does not call it,
\* which changes nothing for a driver out of standby.
DriverAfter ==
  CASE inCmd = "start"                          -> "started"
    [] inCmd = "standby"                        -> "standby"
    [] inCmd = "burst" /\ inDriver = "standby"    -> "aborted"
    [] OTHER                                  -> inDriver

HandleCommand ==
  /\ inPc = "handle" /\ inCmd # "exit" /\ Accepted
  /\ inState' = Target[inCmd][inState]
  /\ inDriver' = DriverAfter
  /\ inStatus' = "OK"
  /\ inPc' = "reply"
  /\ UNCHANGED <<inPrior, inCmd, inMq, inClient, inCloser>>

\* A defect: the error of the driver is reported but not kept as the state.
DriverFailsSoftly ==
  /\ inPc = "handle" /\ inCmd \in InFailing /\ Accepted
  /\ inStatus' = "BAD_VALUE"
  /\ inPc' = "reply"
  /\ UNCHANGED <<inState, inPrior, inDriver, inCmd, inMq, inClient, inCloser>>

\* A driver error.  standby has filled in its reply before the call, and a
\* failed read its reply after it.
InDriverFails ==
  /\ inPc = "handle" /\ inCmd \in InFailing /\ Accepted
  /\ inState' = "ERROR"
  /\ inStatus' = (IF inCmd \in {"standby", "burst"} THEN "OK" ELSE "BAD_VALUE")
  /\ inPc' = "reply"
  /\ UNCHANGED <<inPrior, inDriver, inCmd, inMq, inClient, inCloser>>

InRefuseCommand ==
  /\ inPc = "handle" /\ inCmd # "exit" /\ ~Accepted
  /\ inStatus' = CASE inCmd = "getStatus" -> "OK"
                 [] inCmd = "malformed" -> "BAD_VALUE"
                 [] OTHER             -> "INVALID_OPERATION"
  /\ inPc' = "reply"
  /\ UNCHANGED <<inState, inPrior, inDriver, inCmd, inMq, inClient, inCloser>>

InSendReply ==
  /\ inPc = "reply"
  /\ inPc' = "read"
  /\ inClient' = "free"
  /\ inCmd' = "getStatus" /\ inStatus' = "BAD_VALUE"
  /\ UNCHANGED <<inState, inPrior, inDriver, inMq, inCloser>>

InQueueFails ==
  /\ InMqMayFail /\ inPc \in {"read", "reply"}
  /\ inState' = "ERROR"
  /\ inPc' = "aborted"
  /\ UNCHANGED <<inPrior, inDriver, inCmd, inStatus, inMq, inClient, inCloser>>

\* The exit command: mDriver->shutdown(), then setClosed().
InShutdownDriver ==
  /\ inPc = "handle" /\ inCmd = "exit"
  /\ inDriver' = "shutdown"
  /\ inPc' = "setClosed"
  /\ UNCHANGED <<inState, inPrior, inCmd, inStatus, inMq, inClient, inCloser>>

InWorkerSetClosed ==
  /\ inPc = "setClosed"
  /\ InSetClosed
  /\ inPc' = "exited"
  /\ UNCHANGED <<inDriver, inCmd, inStatus, inMq, inClient, inCloser>>

InWorker ==
  \/ InReadCommand \/ HandleCommand \/ InDriverFails \/ InRefuseCommand \/ InSendReply
  \/ InShutdownDriver \/ InWorkerSetClosed

InNext ==
  /\ inDriver # "aborted"
  /\ \/ \E c \in InCommands : InSendCommand(c)
     \/ InCloseBegin \/ InStopWorker \/ InCloseEnd
     \/ InWorker \/ InQueueFails

InSpec == InInit /\ [][InNext]_inVars

\* The worker and the Binder thread inside close() are scheduled.
InFairSpec == InSpec /\ WF_inVars(InWorker) /\ WF_inVars(InStopWorker) /\ WF_inVars(InCloseEnd)

----------------------------------------------------------------------------
(* Properties. *)

InEdges ==
  {<<"start", "STANDBY", "IDLE">>, <<"start", "DRAINING", "ACTIVE">>,
   <<"burst", "IDLE", "ACTIVE">>, <<"burst", "ACTIVE", "ACTIVE">>,
   <<"burst", "PAUSED", "ACTIVE">>, <<"burst", "DRAINING", "STANDBY">>,
   <<"drain", "ACTIVE", "DRAINING">>, <<"standby", "IDLE", "STANDBY">>,
   <<"pause", "ACTIVE", "PAUSED">>, <<"flush", "PAUSED", "STANDBY">>}

InRequest ==
  IF inClient # "waiting" THEN "none"
  ELSE IF inMq \notin {"empty", "exit"} THEN inMq ELSE inCmd

InPromise == INSTANCE StreamProtocol WITH
  state <- inState,
  Requests <- InCommands,
  Edges <- InEdges,
  Spontaneous <- {},
  request <- InRequest,
  answer <- IF inPc = "reply" THEN inStatus ELSE "none"

\* The worker performs every command as one step of the state machine of an
\* input stream and answers it once, whatever fails and whenever the stream is
\* closed.
InKeepsPromise == InPromise!Spec

\* A command is answered unless the client closes the stream; a close() that
\* has begun returns, since the queue with room for one command always gets
\* read again.  A message queue that fails ends the worker, and both promises.
InCommandAnswered ==
  /\ inClient = "waiting" ~> inClient = "free" \/ inCloser # "open" \/ inPc = "aborted"
  /\ inCloser # "open" ~> inCloser = "closed" \/ inPc = "aborted"
=============================================================================
