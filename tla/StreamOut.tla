----------------------------- MODULE StreamOut -----------------------------
(***************************************************************************)
(* An output stream of the audio HAL: the command loop of                  *)
(* StreamOutWorkerLogic on the worker thread, the driver callbacks on the  *)
(* DSP thread, and close() on a Binder thread.                             *)
(*                                                                         *)
(* The client and the worker exchange one command and one reply at a time  *)
(* (both queues have capacity 1).  A command is handled in steps, because  *)
(* the DSP thread may run between any two accesses of the worker to mState *)
(* and mDrainState: the worker reads mState to accept or refuse the        *)
(* command, calls the driver, then writes mState and mDrainState, then     *)
(* replies.  The callbacks read both variables first and write them after. *)
(***************************************************************************)
EXTENDS OffloadDriver

CONSTANTS
  Commands,         \* the commands the client uses
  Async,            \* the stream has an async callback and the offload driver;
                    \* otherwise the driver is synchronous and has no thread
  ForceSyncDrain,   \* the forceSynchronousDrain debug parameter
  Failing,          \* the driver operations that may return an error
  MqMayFail,        \* reading a command or writing a reply may fail
  Disconnects,      \* the connected devices may change while the stream is open
  BurstInStandby    \* the client may send 'burst' in STANDBY

ASSUME StreamOutAssumption ==
  /\ Async \in BOOLEAN
  /\ ForceSyncDrain \in BOOLEAN
  /\ BurstInStandby \in BOOLEAN
  /\ MqMayFail \in BOOLEAN
  /\ Disconnects \in BOOLEAN
  /\ Commands \subseteq {"getStatus", "start", "burst", "drainAll", "drainEarly", "standby",
                        "pause", "flush", "flushFromFrame", "malformed"}
  /\ Failing \subseteq {"start", "burst", "drain", "standby", "pause", "flush"}

VARIABLES
  state,        \* mState
  prior,        \* mStatePriorToClosing
  drainState,   \* mDrainState
  connected,    \* mIsConnected
  pc,           \* where the worker thread is in its cycle
  cmd,          \* the command being handled
  next,         \* the state it will switch to
  partial,      \* the driver took only a part of the burst
  status,       \* reply.status
  seen,         \* what the callback under way has read, or NotSeen
  mq,           \* the command queue: a command, or "empty"
  client,       \* "free" to send a command, or "waiting" for the reply
  closer,       \* IStreamCommon::close on a Binder thread
  drainReady    \* onDrainReady calls since the last accepted drain (up to 3)

workerVars == <<state, prior, drainState, pc, cmd, next, partial, status>>
clientVars == <<mq, client>>
vars == <<driverVars, workerVars, clientVars, connected, seen, closer, drainReady>>

State == {"STANDBY", "IDLE", "ACTIVE", "PAUSED", "DRAINING", "DRAIN_PAUSED",
          "TRANSFERRING", "TRANSFER_PAUSED", "ERROR", "CLOSED"}

DrainState == {"NONE", "ALL", "EN", "EN_SENT"}

\* What the command queue holds.  "malformed" is a command with an argument out
\* of its range: a negative byte count, an input drain mode, an exit command
\* with a zero cookie.  "exit" is halReservedExit with the cookie of this stream.
Command == {"getStatus", "start", "burst", "drainAll", "drainEarly", "standby",
            "pause", "flush", "flushFromFrame", "malformed", "exit"}

Status == {"OK", "BAD_VALUE", "INVALID_OPERATION"}

\* What a callback works with: whether the mState it read was TRANSFERRING, the
\* mDrainState it read, and how far it is.
NotSeen == [transferring |-> FALSE, drain |-> "NONE", at |-> "nothing"]
View == [transferring : BOOLEAN, drain : DrainState, at : {"nothing", "read", "written"}]

TypeOK ==
  /\ DriverTypeOK
  /\ state \in State
  /\ prior \in State \ {"CLOSED"}
  /\ drainState \in DrainState
  /\ connected \in BOOLEAN
  /\ pc \in {"top", "read", "handle", "driver", "decide", "apply", "applyDrain",
             "reply", "setClosed", "exited", "aborted"}
  /\ cmd \in Command
  /\ next \in (State \ {"CLOSED"}) \cup {"keep"}
  /\ partial \in BOOLEAN
  /\ status \in Status
  /\ seen \in View
  /\ mq \in Command \cup {"empty"}
  /\ client \in {"free", "waiting"}
  /\ closer \in {"open", "stopping", "joining", "closed"}
  /\ drainReady \in 0..3

Init ==
  /\ DriverInit
  /\ state = "STANDBY"
  /\ prior = "STANDBY"
  /\ drainState = "NONE"
  /\ connected \in (IF Disconnects THEN {FALSE} ELSE {TRUE})
  /\ pc = "top"
  /\ cmd = "getStatus"
  /\ next = "keep"
  /\ partial = FALSE
  /\ status = "BAD_VALUE"
  /\ seen = NotSeen
  /\ mq = "empty"
  /\ client = "free"
  /\ closer = "open"
  /\ drainReady = 0

----------------------------------------------------------------------------
(* The client and the Binder threads. *)

\* The client owns the stream: it sends nothing more once it has called close.
SendCommand(c) ==
  /\ client = "free"
  /\ mq = "empty"
  /\ closer = "open"
  /\ c = "burst" => BurstInStandby \/ state # "STANDBY"
  /\ mq' = c
  /\ client' = "waiting"
  /\ UNCHANGED <<driverVars, workerVars, connected, seen, closer, drainReady>>

\* Module::updateStreamsConnectedState -> setConnectedDevices.
SetConnectedDevices ==
  /\ Disconnects
  /\ state # "CLOSED"
  /\ connected' = ~connected
  /\ UNCHANGED <<driverVars, workerVars, clientVars, seen, closer, drainReady>>

\* close: refused once the stream is closed, otherwise stopAndJoinWorker.
CloseBegin ==
  /\ closer = "open"
  /\ state # "CLOSED"
  /\ closer' = "stopping"
  /\ UNCHANGED <<driverVars, workerVars, clientVars, connected, seen, drainReady>>

\* stopWorker: blocks until the command queue has room for the exit command.
StopWorker ==
  /\ closer = "stopping"
  /\ mq = "empty"
  /\ mq' = "exit"
  /\ closer' = "joining"
  /\ UNCHANGED <<driverVars, workerVars, client, connected, seen, drainReady>>

\* The value of state and prior after setClosed.
SetClosed ==
  /\ state' = "CLOSED"
  /\ prior' = (IF state # "CLOSED" THEN state ELSE prior)

CloseEnd ==
  /\ closer = "joining"
  /\ pc \in {"exited", "aborted"}
  /\ SetClosed
  /\ closer' = "closed"
  /\ UNCHANGED <<driverVars, drainState, pc, cmd, next, partial, status, clientVars,
                 connected, seen, drainReady>>

----------------------------------------------------------------------------
(* The worker thread. *)

GoTo(from, to) == pc = from /\ pc' = to

\* A synchronous drain ends here, on the worker itself, once the delay of the
\* transient state is over.
CycleTop ==
  /\ GoTo("top", "read")
  /\ \/ /\ ~Async
        /\ state = "DRAINING"
        /\ state' = "IDLE"
     \/ UNCHANGED state
  /\ UNCHANGED <<driverVars, prior, drainState, cmd, next, partial, status, clientVars,
                 connected, seen, closer, drainReady>>

ReadCommand ==
  /\ GoTo("read", "handle")
  /\ mq # "empty"
  /\ cmd' = mq
  /\ mq' = "empty"
  /\ UNCHANGED <<driverVars, state, prior, drainState, next, partial, status, client, connected,
                 seen, closer, drainReady>>

\* A defect: a paused drain is resumed as if it were over.
StartToIdle == [STANDBY |-> "IDLE", PAUSED |-> "ACTIVE", DRAIN_PAUSED |-> "IDLE",
                TRANSFER_PAUSED |-> "TRANSFERRING"]

StartTo == [STANDBY |-> "IDLE", PAUSED |-> "ACTIVE", DRAIN_PAUSED |-> "DRAINING",
            TRANSFER_PAUSED |-> "TRANSFERRING"]
PauseTo == [ACTIVE |-> "PAUSED", DRAINING |-> "DRAIN_PAUSED",
            TRANSFERRING |-> "TRANSFER_PAUSED"]

IsDrain(c) == c \in {"drainAll", "drainEarly"}

\* The states a command is accepted in.
Accepts(c) ==
  CASE c = "start"   -> DOMAIN StartTo
    [] c = "burst"   -> State \ {"ERROR", "TRANSFERRING", "TRANSFER_PAUSED"}
    [] IsDrain(c)    -> {"ACTIVE", "TRANSFERRING", "TRANSFER_PAUSED"}
    [] c = "standby" -> {"IDLE"}
    [] c = "pause"   -> DOMAIN PauseTo
    [] c = "flush"   -> {"PAUSED", "DRAIN_PAUSED", "TRANSFER_PAUSED"}
    [] OTHER         -> {}

\* The switch(mState) of the command: the target is fixed by the state read
\* here, before the driver is called.  TRANSFER_PAUSED drains without it.
AcceptCommand ==
  /\ pc = "handle"
  /\ state \in Accepts(cmd)
  /\ IF IsDrain(cmd) /\ state = "TRANSFER_PAUSED"
       THEN pc' = "apply" /\ next' = "DRAIN_PAUSED"
       ELSE /\ pc' = "driver"
            /\ next' = CASE cmd = "start"   -> StartTo[state]
                         [] cmd = "pause"   -> PauseTo[state]
                         [] cmd = "flush"   -> "IDLE"
                         [] cmd = "standby" -> "STANDBY"
                         [] IsDrain(cmd)    -> "DRAINING"
                         [] OTHER           -> "keep"
  /\ UNCHANGED <<driverVars, state, prior, drainState, cmd, partial, status, clientVars,
                 connected, seen, closer, drainReady>>

\* A defect: a refused command gets no reply.
RefuseSilently ==
  /\ GoTo("handle", "top")
  /\ cmd # "exit"
  /\ state \notin Accepts(cmd)
  /\ UNCHANGED <<driverVars, state, prior, drainState, cmd, next, partial, status, clientVars,
                 connected, seen, closer, drainReady>>

\* Every command that has no effect: a status query, an argument out of
\* range, or a command the state does not accept.
RefuseCommand ==
  /\ GoTo("handle", "reply")
  /\ cmd # "exit"
  /\ state \notin Accepts(cmd)
  /\ status' = CASE cmd = "getStatus" -> "OK"
                 [] cmd = "malformed" -> "BAD_VALUE"
                 [] OTHER             -> "INVALID_OPERATION"
  /\ UNCHANGED <<driverVars, state, prior, drainState, cmd, next, partial, clientVars,
                 connected, seen, closer, drainReady>>

\* The driver call of an accepted command, and the shutdown of the exit
\* command.  pause, flush and shutdown wait for the DSP thread.
WaitsForDsp == pc = "driver" /\ cmd \in {"pause", "flush", "exit"}

\* The burst reaches the driver only when the stream is connected.  A clip
\* header found in the data is not counted, so such a write is partial.
Transfer ==
  \E newClips \in 0..1, low \in BOOLEAN :
    /\ IF ~connected THEN UNCHANGED driverVars
       ELSE IF Async THEN DriverTransfer(newClips, low)
       ELSE StubTransfer
    /\ partial' \in BOOLEAN
    /\ connected /\ newClips > 0 => partial'

CallDriver ==
  /\ pc = "driver"
  /\ \/ cmd = "start"   /\ (IF Async THEN DriverStart ELSE StubStart)
     \/ cmd = "burst"   /\ Transfer
     \/ IsDrain(cmd)    /\ DriverDrain(cmd = "drainAll")
     \/ cmd = "standby" /\ DriverStandby
     \/ cmd = "pause"   /\ DriverPause
     \/ cmd = "flush"   /\ DriverFlush
  /\ cmd # "burst" => UNCHANGED partial
  /\ pc' = (IF cmd = "burst" THEN "decide" ELSE "apply")
  /\ status' = "OK"
  /\ UNCHANGED <<state, prior, drainState, cmd, next, clientVars, connected, seen, closer,
                 drainReady>>

\* A driver error.  standby and burst have filled in the reply before it.
\* The offload driver fails only when it cannot start its thread.
DriverFails ==
  /\ pc = "driver"
  /\ cmd \in Failing \/ (IsDrain(cmd) /\ "drain" \in Failing)
  /\ Async => dsp = "none" /\ cmd \in {"start", "burst"}
  /\ cmd = "burst" => connected
  /\ state' = "ERROR"
  /\ status' = (IF cmd \in {"standby", "burst"} THEN "OK" ELSE "BAD_VALUE")
  /\ pc' = "reply"
  /\ UNCHANGED <<driverVars, prior, drainState, cmd, next, partial, clientVars, connected,
                 seen, closer, drainReady>>

\* After a burst mState and mDrainState are read again to choose the state.
BurstTarget ==
  CASE state = "DRAIN_PAUSED" /\ Async          -> "TRANSFER_PAUSED"
    [] state \in {"STANDBY", "PAUSED"}
       \/ (state = "DRAIN_PAUSED" /\ ~Async)    -> "PAUSED"
    [] state \in {"IDLE", "ACTIVE"}
       \/ (state = "DRAINING" /\ drainState # "EN_SENT")
                                                -> IF Async /\ partial THEN "TRANSFERRING"
                                                                        ELSE "ACTIVE"
    [] OTHER                                    -> "keep"

DecideAfterBurst ==
  /\ GoTo("decide", "apply")
  /\ next' = BurstTarget
  /\ partial' = FALSE
  /\ UNCHANGED <<driverVars, state, prior, drainState, cmd, status, clientVars,
                 connected, seen, closer, drainReady>>

\* mState is written; a drain writes mDrainState in a step of its own.
ApplyState ==
  /\ pc = "apply"
  /\ status' = "OK"
  /\ IF IsDrain(cmd) /\ next = "DRAINING" /\ state = "ACTIVE" /\ ForceSyncDrain
       THEN state' = "IDLE" /\ pc' = "reply"
       ELSE /\ state' = (IF next = "keep" THEN state ELSE next)
            /\ pc' = (IF IsDrain(cmd) /\ next = "DRAINING" THEN "applyDrain" ELSE "reply")
  /\ UNCHANGED <<driverVars, prior, drainState, cmd, next, partial, clientVars, connected,
                 seen, closer, drainReady>>

ApplyDrain ==
  /\ GoTo("applyDrain", "reply")
  /\ drainState' = (IF cmd = "drainEarly" THEN "EN" ELSE "ALL")
  /\ drainReady' = 0
  /\ UNCHANGED <<driverVars, state, prior, cmd, next, partial, status, clientVars, connected,
                 seen, closer>>

\* The variables local to a cycle go out of scope.
LocalsDropped ==
  /\ cmd' = "getStatus"
  /\ next' = "keep"
  /\ partial' = FALSE
  /\ status' = "BAD_VALUE"

SendReply ==
  /\ GoTo("reply", "top")
  /\ client' = "free"
  /\ LocalsDropped
  /\ UNCHANGED <<driverVars, state, prior, drainState, mq, connected, seen, closer, drainReady>>

\* A failure of either queue ends the worker without a driver shutdown.
QueueFails ==
  /\ MqMayFail
  /\ pc \in {"read", "reply"}
  /\ state' = "ERROR"
  /\ pc' = "aborted"
  /\ UNCHANGED <<driverVars, prior, drainState, cmd, next, partial, status, clientVars,
                 connected, seen, closer, drainReady>>

\* The exit command: the driver is shut down first, then the state is CLOSED.
HandleExit ==
  /\ GoTo("handle", "driver")
  /\ cmd = "exit"
  /\ UNCHANGED <<driverVars, state, prior, drainState, cmd, next, partial, status,
                 clientVars, connected, seen, closer, drainReady>>

ShutdownDriver ==
  /\ GoTo("driver", "setClosed")
  /\ cmd = "exit"
  /\ DriverShutdown
  /\ UNCHANGED <<state, prior, drainState, cmd, next, partial, status, clientVars, connected,
                 seen, closer, drainReady>>

WorkerSetClosed ==
  /\ GoTo("setClosed", "exited")
  /\ SetClosed
  /\ UNCHANGED <<driverVars, drainState, cmd, next, partial, status, clientVars, connected,
                 seen, closer, drainReady>>

Worker ==
  \/ CycleTop \/ ReadCommand \/ AcceptCommand \/ RefuseCommand \/ CallDriver
  \/ DriverFails \/ DecideAfterBurst \/ ApplyState \/ ApplyDrain \/ SendReply
  \/ HandleExit \/ ShutdownDriver \/ WorkerSetClosed

----------------------------------------------------------------------------
(* The DSP thread. *)

\* A cycle does not begin while the worker waits for the thread.
PlayCycle(done, head) ==
  /\ ~WaitsForDsp
  /\ DspCycle(done, head)
  /\ UNCHANGED <<workerVars, clientVars, connected, seen, closer, drainReady>>

CallbackRead ==
  /\ notices # <<>>
  /\ seen.at = "nothing"
  /\ seen' = [transferring |-> Head(notices).kind = "buffer" /\ state = "TRANSFERRING",
              drain |-> drainState, at |-> "read"]
  /\ UNCHANGED <<driverVars, workerVars, clientVars, connected, closer, drainReady>>

CallbackDone ==
  /\ notices' = Tail(notices)
  /\ seen' = NotSeen
  /\ UNCHANGED <<dsp, clips, bufferLow, notifyArmed, driver>>

Counted(n) == IF n < 3 THEN n + 1 ELSE n

OnBufferStateChange ==
  /\ seen.at = "read"
  /\ Head(notices).kind = "buffer"
  /\ state' = (IF seen.transferring THEN "ACTIVE" ELSE state)
  /\ CallbackDone
  /\ UNCHANGED <<prior, drainState, pc, cmd, next, partial, status, clientVars, connected,
                 closer, drainReady>>

\* onClipStateChange at the end of a clip writes mState, then mDrainState.
ClipEnds == Head(notices).left = "zero" /\ seen.drain # "NONE"
\* A defect: the early notification is repeated.
ClipNearsAgain == Head(notices).left = "near" /\ seen.drain \in {"EN", "EN_SENT"}
ClipNears == Head(notices).left = "near" /\ seen.drain = "EN"

OnClipStateChange ==
  /\ seen.at = "read"
  /\ Head(notices).kind = "clip"
  /\ \/ /\ ClipEnds
        /\ state' = (IF Head(notices).hasNext THEN "TRANSFERRING" ELSE "IDLE")
        /\ seen' = [seen EXCEPT !.at = "written"]
        /\ UNCHANGED <<driverVars, drainState, drainReady>>
     \/ /\ ClipNears
        /\ drainState' = "EN_SENT"
        /\ drainReady' = Counted(drainReady)
        /\ CallbackDone
        /\ UNCHANGED state
     \/ /\ ~ClipEnds /\ ~ClipNears
        /\ CallbackDone
        /\ UNCHANGED <<state, drainState, drainReady>>
  /\ UNCHANGED <<prior, pc, cmd, next, partial, status, clientVars, connected, closer>>

\* A defect: the drain is acknowledged but not taken off.
ClipEndedStillDraining ==
  /\ seen.at = "written"
  /\ drainReady' = (IF seen.drain \in {"ALL", "EN_SENT"} THEN Counted(drainReady)
                                                      ELSE drainReady)
  /\ CallbackDone
  /\ UNCHANGED <<state, prior, drainState, pc, cmd, next, partial, status, clientVars,
                 connected, closer>>

OnClipEnded ==
  /\ seen.at = "written"
  /\ drainState' = "NONE"
  /\ drainReady' = (IF seen.drain \in {"ALL", "EN_SENT"} THEN Counted(drainReady)
                                                      ELSE drainReady)
  /\ CallbackDone
  /\ UNCHANGED <<state, prior, pc, cmd, next, partial, status, clientVars, connected, closer>>

Callback == CallbackRead \/ OnBufferStateChange \/ OnClipStateChange \/ OnClipEnded

----------------------------------------------------------------------------
Close == CloseBegin \/ StopWorker \/ CloseEnd

PlaySome == \E p \in Progress : PlayCycle(p[1], p[2])

Next ==
  /\ driver # "aborted"
  /\ \/ \E c \in Commands : SendCommand(c)
     \/ SetConnectedDevices
     \/ Close
     \/ Worker
     \/ QueueFails
     \/ PlaySome
     \/ Callback

\* The worker and the Binder thread inside close() are scheduled, and the DSP
\* thread makes the callbacks it owes.  Every cycle plays a frame at least, so a
\* clip the DSP thread gets to play again and again ends: strong fairness, for a
\* cycle in progress disables the next one.  The client never has to do anything.
Fairness ==
  /\ WF_vars(Worker)
  /\ WF_vars(StopWorker)
  /\ WF_vars(CloseEnd)
  /\ WF_vars(Callback)
  /\ SF_vars(\E p \in Progress : p[1] > 0 /\ PlayCycle(p[1], p[2]))

Spec == Init /\ [][Next]_vars
FairSpec == Spec /\ Fairness

----------------------------------------------------------------------------
(* What a synchronous stream promises. *)

DrainEdges ==
  {<<c, "ACTIVE", IF ForceSyncDrain THEN "IDLE" ELSE "DRAINING">> :
     c \in {"drainAll", "drainEarly"}}

OutEdges ==
  {<<"start", "STANDBY", "IDLE">>, <<"start", "PAUSED", "ACTIVE">>,
   <<"start", "DRAIN_PAUSED", "DRAINING">>,
   <<"burst", "IDLE", "ACTIVE">>, <<"burst", "ACTIVE", "ACTIVE">>,
   <<"burst", "DRAINING", "ACTIVE">>, <<"burst", "STANDBY", "PAUSED">>,
   <<"burst", "PAUSED", "PAUSED">>, <<"burst", "DRAIN_PAUSED", "PAUSED">>,
   <<"standby", "IDLE", "STANDBY">>,
   <<"pause", "ACTIVE", "PAUSED">>, <<"pause", "DRAINING", "DRAIN_PAUSED">>,
   <<"flush", "PAUSED", "IDLE">>, <<"flush", "DRAIN_PAUSED", "IDLE">>} \cup DrainEdges

\* The request of the client that is not answered yet.
Request ==
  IF client # "waiting" THEN "none"
  ELSE IF mq \notin {"empty", "exit"} THEN mq ELSE cmd

\* The reply that is ready for it.
Reply == IF pc \in {"applyDrain", "reply"} THEN status ELSE "none"

Promise == INSTANCE StreamProtocol WITH
  Requests <- Commands,
  Edges <- OutEdges,
  Spontaneous <- {<<"DRAINING", "IDLE">>},
  request <- Request,
  answer <- Reply

\* Without callbacks the worker performs every command as one step of the
\* state machine and answers it once, whatever fails and however a close or a
\* change of the connected devices falls between the steps of the cycle.
KeepsPromise == Promise!Spec

----------------------------------------------------------------------------
(* Properties. *)

\* Once the worker has set mState to CLOSED nothing changes it again: the
\* callbacks write mState without looking at it, so the driver has to be shut
\* down, and its thread gone, before setClosed.
ClosedIsFinal == [][state = "CLOSED" => state' = "CLOSED"]_vars

\* After the driver is shut down its thread makes no callback, so none can
\* reach a stream that is being destroyed.
NoCallbackAfterShutdown == driver = "shutdown" => dsp # "running" /\ notices = <<>>

\* close() returns only after the worker has ended and shut the driver down.
ClosedAfterShutdown == closer = "closed" => pc = "exited" /\ driver = "shutdown"

\* One accepted drain is acknowledged by at most two onDrainReady calls, and
\* by at most one unless it asked for an early notification.
DrainReadyBound ==
  /\ drainReady <= 2
  /\ drainState \in {"ALL", "EN"} => drainReady = 0
  /\ drainState = "EN_SENT" => drainReady = 1

\* The driver's own check of the state machine logic: no data is transferred
\* to a driver in standby.
NoTransferInStandby == driver # "aborted"

\* A command that the worker has not answered is answered, unless the stream
\* is closed meanwhile: pause and flush cannot wait for the DSP for ever; and a
\* close() that has begun returns.
CommandAnswered ==
  /\ client = "waiting" ~> client = "free" \/ closer # "open"
  /\ closer # "open" ~> closer = "closed"

\* A drain that was recorded while the DSP had a clip to play ends, unless
\* the client pauses, flushes or closes the stream first.
DrainHonoured ==
  drainState # "NONE" /\ clips # <<>> /\ dsp = "running"
    ~> drainState = "NONE" \/ dsp # "running" \/ cmd = "flush"
=============================================================================
