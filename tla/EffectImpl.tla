----------------------------- MODULE EffectImpl -----------------------------
(***************************************************************************)
(* One instance of an effect: the calls of its clients, class EffectImpl,  *)
(* its worker (EffectThread) and its queues (EffectContext.tla).           *)
(***************************************************************************)
EXTENDS EffectContext

-----------------------------------------------------------------------------
(***************************************************************************)
(* The worker thread of an effect: class EffectThread.  Every method is    *)
(* one critical section of mThreadMutex, except that destroyThread() joins *)
(* the thread after its own.  Draining, which no effect of the repository  *)
(* starts, is left out.                                                    *)
(***************************************************************************)

VARIABLES
  mStop, mExit,
  worker    \* "none": no thread to join;
            \* "cv": before or in the wait for mStop or mExit to change;
            \* "wait": waiting for the event flag;  "lock": before mImplMutex;
            \* "status": in a full status queue, with mImplMutex held;
            \* "ended": the thread has returned

threadVars == <<mStop, mExit, worker>>

ThreadTypeOK ==
  /\ mStop \in BOOLEAN /\ mExit \in BOOLEAN
  /\ worker \in {"none", "cv", "wait", "lock", "status", "ended"}

ThreadInit == mStop = TRUE /\ mExit = FALSE /\ worker = "none"

Running == worker \notin {"none", "ended"}

CreateThread ==
  IF worker # "none" THEN UNCHANGED threadVars
  ELSE mStop' = TRUE /\ mExit' = FALSE /\ worker' = "cv"

\* Mutant: the start only ends a draining that has been forgotten.
StillStopped == UNCHANGED threadVars

StartThread == mStop' = FALSE /\ UNCHANGED <<mExit, worker>>

StopThread == mStop' = TRUE /\ UNCHANGED <<mExit, worker>>

\* Mutant: the thread is stopped, not told to end.
OnlyStopped == StopThread

\* destroyThread, up to the join ...
TellExit == mStop' = TRUE /\ mExit' = TRUE /\ UNCHANGED worker

\* Mutant: the thread is not waited for.
Detached == worker' = worker /\ UNCHANGED <<mStop, mExit>>

\* ... and the join.
Join == ~Running /\ worker' = "none" /\ UNCHANGED <<mStop, mExit>>

\* One turn of threadLoop up to process().
Turn ==
  /\ worker = "cv"
  /\ mExit \/ ~mStop
  /\ worker' = IF mExit THEN "ended" ELSE "wait"
  /\ UNCHANGED <<mStop, mExit>>

-----------------------------------------------------------------------------
(***************************************************************************)
(*                                                                         *)
(* A call holds mImplMutex from its first line to its last, and is one     *)
(* step, except close(): it takes the mutex, gives it up to wake, stop and *)
(* join the worker, and takes it again to release the context.  The mutex  *)
(* is held across steps only by a worker that waits for a place in the     *)
(* status queue.  A call that returns an error at once changes nothing and *)
(* is no step.  Waking the flag never fails while the context lives.       *)
(***************************************************************************)

CONSTANTS
  Callers,          \* the threads that call the instance
  Keeps,            \* whether a library's releaseContext keeps the context
  Checks,           \* whether a library's process() looks at the state
  OpenDuringClose   \* whether a client opens an instance that is being closed

ASSUME LibraryAssumption == Keeps \subseteq BOOLEAN /\ Checks \subseteq BOOLEAN
ASSUME ClientAssumption  == OpenDuringClose \in BOOLEAN

VARIABLES
  mState,
  mContext,   \* the library's pointer to the context, or None
  attached,   \* whether mImplContext points to it, too
  call,       \* how far the close() or destroyEffect() of each thread is
  dupes       \* whether the client holds the queues the context uses

vars == <<mStop, mExit, worker, mState, mContext, attached, call, dupes>>

TypeOK ==
  /\ ThreadTypeOK
  /\ mState \in {"INIT", "IDLE", "PROCESSING"}
  /\ mContext \in Context \cup {None}
  /\ attached \in BOOLEAN /\ dupes \in BOOLEAN
  /\ attached => mContext # None
  /\ call \in [Callers -> {"none", "destroy", "notify", "exit", "join", "release"}]

Init ==
  /\ ThreadInit
  /\ mState = "INIT" /\ mContext = None
  /\ attached = FALSE /\ dupes = FALSE
  /\ call = [t \in Callers |-> "none"]

MutexFree == worker # "status"
Closing   == \E t \in Callers : call[t] \in {"notify", "exit", "join", "release"}

\* A call that begins and ends in one step.
Calls == (\E t \in Callers : call[t] = "none") /\ MutexFree

\* notifyEventFlag.
Notified(c) == IF c = None THEN None ELSE Wake(c)

----------------------------------------------------------------------------
(* The calls. *)

\* open(); the parameters given with it may be refused, which leaves a context
\* that the next open() uses as it is.
Open ==
  /\ Calls /\ mState = "INIT" /\ (Closing => OpenDuringClose)
  /\ \E common \in Commons :
       /\ HasChannels(common)
       /\ mContext' = IF mContext = None THEN NewContext(common) ELSE mContext
  /\ attached' = TRUE
  /\ \/ UNCHANGED <<mState, threadVars, dupes>>
     \/ mState' = "IDLE" /\ CreateThread /\ dupes' = HasQueues(mContext')
  /\ UNCHANGED call

Reopen ==
  /\ Calls /\ mState # "INIT" /\ attached
  /\ mContext' = DupeFmqWithReopen(mContext)
  /\ dupes' = TRUE
  /\ UNCHANGED <<threadVars, mState, attached, call>>

\* setParameter with the tag common, in any state.
SetParameter ==
  /\ Calls /\ attached
  /\ \E common \in Commons : mContext' = SetCommon(mContext, common)
  /\ dupes' = (dupes /\ HasQueues(mContext'))
  /\ UNCHANGED <<threadVars, mState, attached, call>>

Start ==
  /\ Calls /\ mState = "IDLE" /\ attached
  /\ mState' = "PROCESSING"
  /\ mContext' = Notified(mContext)
  /\ StartThread
  /\ UNCHANGED <<attached, call, dupes>>

Stop ==
  /\ Calls /\ mState = "PROCESSING"
  /\ mState' = "IDLE"
  /\ mContext' = Notified(mContext)
  /\ StopThread
  /\ UNCHANGED <<attached, call, dupes>>

\* Mutant: the worker is not stopped.
ResetUnstopped ==
  /\ mState' = IF mState = "INIT" THEN "INIT" ELSE "IDLE"
  /\ mContext' = IF mState # "INIT" /\ attached
                 THEN ResetBuffer(Notified(mContext)) ELSE mContext
  /\ UNCHANGED threadVars

\* The command RESET, in any state but INIT.
DoReset ==
  IF mState = "INIT" THEN UNCHANGED <<mState, mContext, threadVars>>
  ELSE /\ mState' = "IDLE"
       /\ mContext' = IF attached THEN ResetBuffer(Notified(mContext)) ELSE Notified(mContext)
       /\ StopThread

Reset == Calls /\ mState # "INIT" /\ DoReset /\ UNCHANGED <<attached, call, dupes>>

\* destroyEffect of the factory: RESET, then close(), both unconditionally.
Destroy(t) ==
  /\ call[t] = "none" /\ MutexFree
  /\ DoReset
  /\ call' = [call EXCEPT ![t] = "destroy"]
  /\ UNCHANGED <<attached, dupes>>

Goto(t, step) == call' = [call EXCEPT ![t] = step]

\* close() takes the mutex ...
Close(t) ==
  /\ call[t] \in {"none", "destroy"} /\ MutexFree
  /\ mState = "IDLE"
  /\ mState' = "INIT"
  /\ Goto(t, "notify")
  /\ UNCHANGED <<threadVars, mContext, attached, dupes>>

\* ... or returns at once, to destroyEffect, which ignores its result.
GiveUp(t) ==
  /\ call[t] = "destroy" /\ MutexFree
  /\ mState # "IDLE"
  /\ Goto(t, "none")
  /\ UNCHANGED <<threadVars, mState, mContext, attached, dupes>>

CloseNotify(t) ==
  /\ call[t] = "notify"
  /\ mContext' = Notified(mContext)
  /\ Goto(t, "exit")
  /\ UNCHANGED <<threadVars, mState, attached, dupes>>

CloseExit(t) ==
  /\ call[t] = "exit"
  /\ TellExit
  /\ Goto(t, "join")
  /\ UNCHANGED <<mState, mContext, attached, dupes>>

CloseJoin(t) ==
  /\ call[t] = "join"
  /\ Join
  /\ Goto(t, "release")
  /\ UNCHANGED <<mState, mContext, attached, dupes>>

\* releaseContext of the library, and mImplContext.reset().
CloseRelease(t) ==
  /\ call[t] = "release" /\ MutexFree
  /\ \E keeps \in Keeps :
       mContext' = IF keeps /\ mContext # None THEN ResetBuffer(mContext) ELSE None
  /\ attached' = FALSE /\ dupes' = FALSE
  /\ Goto(t, "none")
  /\ UNCHANGED <<threadVars, mState>>

CloseStep(t) == CloseNotify(t) \/ CloseExit(t) \/ CloseJoin(t) \/ CloseRelease(t)

----------------------------------------------------------------------------
(* The client's side of the queues. *)

\* Samples are written, then the worker is woken.
WriteInput ==
  /\ dupes /\ attached
  /\ \E n \in 1 .. (mContext.queue["in"].cap - mContext.queue["in"].filled) :
       mContext' = Wake([mContext EXCEPT !.queue["in"].filled = @ + n])
  /\ UNCHANGED <<threadVars, mState, attached, call, dupes>>

ReadOutput ==
  /\ dupes /\ attached /\ mContext.queue["out"].filled > 0
  /\ mContext' = [mContext EXCEPT !.queue["out"].filled = 0]
  /\ UNCHANGED <<threadVars, mState, attached, call, dupes>>

\* The status queue lives as long as the context.
ReadStatus ==
  /\ attached /\ mContext.status
  /\ mContext' = [mContext EXCEPT !.status = FALSE]
  /\ UNCHANGED <<threadVars, mState, attached, call, dupes>>

----------------------------------------------------------------------------
(* process(), on the worker. *)

Wait ==
  /\ worker = "wait"
  /\ mContext # None /\ mContext.notEmpty
  /\ mContext' = [mContext EXCEPT !.notEmpty = FALSE]
  /\ worker' = "lock"
  /\ UNCHANGED <<mStop, mExit, mState, attached, call, dupes>>

Amount == Smaller(mContext.queue["in"].filled, Free(mContext))

MayProcess(checks) ==
  /\ checks => mState = "PROCESSING"
  /\ attached /\ HasQueues(mContext)

Skip ==
  /\ worker = "lock"
  /\ \E checks \in Checks : MayProcess(checks) => Amount = 0
  /\ worker' = "cv"
  /\ UNCHANGED <<mStop, mExit, mState, mContext, attached, call, dupes>>

\* A library that is not active takes the samples and produces none.
Process ==
  /\ worker = "lock"
  /\ \E checks \in Checks : MayProcess(checks) /\ Amount > 0
  /\ \E produced \in {0, Amount} :
       mContext' = [mContext EXCEPT
         !.queue["in"].filled = @ - Amount,
         !.queue["out"].filled = @ + produced,
         !.status = TRUE]
  /\ worker' = IF mContext.status THEN "status" ELSE "cv"
  /\ UNCHANGED <<mStop, mExit, mState, attached, call, dupes>>

\* The end of writeBlocking, when the client has read the status before.
WriteStatus ==
  /\ worker = "status"
  /\ ~mContext.status
  /\ mContext' = [mContext EXCEPT !.status = TRUE]
  /\ worker' = "cv"
  /\ UNCHANGED <<mStop, mExit, mState, attached, call, dupes>>

TurnStep == Turn /\ UNCHANGED <<mState, mContext, attached, call, dupes>>

WorkerStep == TurnStep \/ Wait \/ Skip \/ Process \/ WriteStatus

----------------------------------------------------------------------------

ControlCall == Open \/ Reopen \/ SetParameter \/ Start \/ Stop \/ Reset
ClientStep  == WriteInput \/ ReadOutput \/ ReadStatus

Next ==
  \/ ControlCall \/ ClientStep \/ WorkerStep
  \/ \E t \in Callers : Destroy(t) \/ Close(t) \/ GiveUp(t) \/ CloseStep(t)

Spec == Init /\ [][Next]_vars

\* The worker and a close() run when they can; a client reads its statuses.
FairSpec ==
  /\ Spec
  /\ WF_vars(WorkerStep)
  /\ WF_vars(ReadStatus)
  /\ \A t \in Callers : WF_vars(CloseStep(t))

----------------------------------------------------------------------------
(* What an effect promises. *)

\* The thread follows the state: it runs unstopped when, and only when, the
\* instance is PROCESSING, and an instance that is open has one ("EffectThread
\* will make sure effectProcessImpl only be called after startThread() ... and
\* before stopThread()").  It takes open(), commands and both halves of close()
\* of several threads to break it.
ThreadFollowsState ==
  /\ mStop = (mState # "PROCESSING")
  /\ mState # "INIT" => Running /\ ~mExit /\ attached

\* The event flag the worker waits on without a lock lives as long as the wait
\* ("the mEfGroup pointer will not change in the life cycle of workerThread"):
\* releaseContext and createContext come before the thread or after its join.
FlagOutlivesWait == worker \in {"wait", "lock", "status"} => attached

\* close() returns: the worker it joins is never left waiting for a flag that
\* nobody wakes, nor is the mutex it takes again.
CloseReturns ==
  \A t \in Callers : call[t] \in {"notify", "exit", "join", "release"} ~> call[t] = "none"

\* Samples that a client has announced are processed when there is room for
\* the result, unless the effect is stopped or its queues are replaced: no
\* wake-up is lost between the flag, the condition variable and the mutex.
InputProcessed ==
  \A n \in 1 .. 2 :
    LET Unprocessed == MayProcess(TRUE) /\ mContext.queue["in"].filled = n
    IN Unprocessed /\ mContext.notEmpty /\ Free(mContext) > 0 ~> ~Unprocessed

\* "assert(mImplContext->getWorkBufferSize() >= std::max(inputMQ->
\* availableToRead(), outputMQ->availableToWrite()))" of process(): the work
\* buffer has room for all that the queues allow to be moved.
WorkBufferFits ==
  worker = "lock" /\ MayProcess(TRUE)
    => mContext.work >= Larger(mContext.queue["in"].filled, Free(mContext))
=============================================================================
