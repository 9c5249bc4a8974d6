-------------------------- MODULE StreamOutProofs --------------------------
(***************************************************************************)
(* Proofs about the output stream, for every MaxClips and every choice of  *)
(* the other constants: its safety, and that a synchronous one implements  *)
(* the state machine it promises.                                          *)
(***************************************************************************)
EXTENDS StreamOut, TLAPS

----------------------------------------------------------------------------
(* The DSP thread and the driver keep their types. *)

\* A cycle leaves a sequence of clips: the first `done' ones go, and the next
\* one, if it was begun, is cut down.
LEMMA ClipsAfterType ==
  ASSUME clips \in Seq(Clip), NEW p \in Progress
  PROVE  ClipsAfter(p[1], p[2]) \in Seq(Clip)
<1> DEFINE done == p[1]
           head == p[2]
           rest == SubSeq(clips, done + 1, Len(clips))
<1>1. done \in Nat /\ done <= Len(clips) /\ head \in {"untouched", "far", "near"}
  BY MaxClipsAssumption DEF Progress
<1>2. rest \in Seq(Clip) /\ Len(rest) = Len(clips) - done
  BY <1>1
<1>3. CASE head = "untouched"
  BY <1>2, <1>3 DEF ClipsAfter
<1>4. CASE head # "untouched"
  <2>1. Len(rest) > 0 /\ head \in Clip
    BY <1>1, <1>2, <1>4 DEF Progress, Clip
  <2> HIDE DEF rest, head
  <2>2. Tail(rest) \in Seq(Clip)
    BY <1>2, <2>1
  <2>3. <<head>> \in Seq(Clip)
    BY <2>1
  <2>4. <<head>> \o Tail(rest) \in Seq(Clip)
    BY <2>2, <2>3
  <2> QED
    BY <2>4, <1>4 DEF ClipsAfter, rest, head
<1> QED
  BY <1>3, <1>4

\* The callbacks a cycle queues are well formed.
LEMMA ClipNoticesType ==
  ASSUME clips \in Seq(Clip), NEW p \in Progress
  PROVE  ClipNoticesOf(p[1], p[2]) \in Seq(Notice)
<1> DEFINE done == p[1]
           ended == [i \in 1..done |-> [kind |-> "clip", left |-> "zero",
                                        hasNext |-> i < Len(clips)]]
           near == [kind |-> "clip", left |-> "near", hasNext |-> done + 1 < Len(clips)]
<1>1. done \in Nat
  BY MaxClipsAssumption DEF Progress
<1>2. ended \in Seq(Notice)
  <2>1. \A i \in 1..done : [kind |-> "clip", left |-> "zero", hasNext |-> i < Len(clips)] \in Notice
    BY DEF Notice, ClipNotice
  <2>2. ended \in [1..done -> Notice]
    BY <2>1
  <2> HIDE DEF ended
  <2> QED
    BY <1>1, <2>2
<1>3. near \in Notice
  BY DEF Notice, ClipNotice
<1> HIDE DEF ended, near
<1>4. Append(ended, near) \in Seq(Notice)
  BY <1>2, <1>3
<1> QED
  BY <1>2, <1>4 DEF ClipNoticesOf, ended, near

LEMMA DspCycleType ==
  ASSUME DriverTypeOK, NEW p \in Progress, DspCycle(p[1], p[2])
  PROVE  DriverTypeOK'
<1>1. clips' \in Seq(Clip)
  BY ClipsAfterType DEF DspCycle, DriverTypeOK
<1>2. notices' \in Seq(Notice)
  <2>1. ClipNoticesOf(p[1], p[2]) \in Seq(Notice)
    BY ClipNoticesType DEF DriverTypeOK
  <2>2. [kind |-> "buffer", left |-> "low", hasNext |-> FALSE] \in Notice
    BY DEF Notice, BufferNotice
  <2> QED
    BY <2>1, <2>2 DEF DspCycle
<1>3. bufferLow' \in BOOLEAN /\ notifyArmed' \in BOOLEAN
  BY DEF DspCycle, DriverTypeOK
<1> QED
  BY <1>1, <1>2, <1>3 DEF DspCycle, DriverTypeOK

LEMMA DriverTransferType ==
  ASSUME DriverTypeOK, NEW n \in 0..1, NEW low \in BOOLEAN, DriverTransfer(n, low)
  PROVE  DriverTypeOK'
<1> DEFINE staged == [i \in 1..n |-> "far"]
<1>1. CASE driver = "standby"
  BY <1>1 DEF DriverTransfer, StubTransfer, DriverTypeOK
<1>2. CASE driver # "standby"
  <2>1. staged \in Seq(Clip)
    BY DEF Clip
  <2> HIDE DEF staged
  <2>2. clips \o staged \in Seq(Clip)
    BY <2>1 DEF DriverTypeOK
  <2> QED
    BY <1>2, <2>2 DEF DriverTransfer, DriverTypeOK, staged
<1> QED
  BY <1>1, <1>2

\* Every operation of the driver keeps its types.
LEMMA DriverCallType ==
  ASSUME TypeOK, CallDriver
  PROVE  DriverTypeOK' /\ partial' \in BOOLEAN
<1>1. DriverTypeOK
  BY DEF TypeOK
<1>2. CASE cmd = "burst"
  <2>1. Transfer
    BY <1>2 DEF CallDriver, IsDrain
  <2>2. partial' \in BOOLEAN
    BY <2>1 DEF Transfer
  <2>3. PICK n \in 0..1, low \in BOOLEAN :
          IF ~connected THEN UNCHANGED driverVars
          ELSE IF Async THEN DriverTransfer(n, low) ELSE StubTransfer
    BY <2>1 DEF Transfer
  <2>4. CASE UNCHANGED driverVars
    BY <1>1, <2>2, <2>4 DEF DriverTypeOK, driverVars
  <2>5. CASE DriverTransfer(n, low)
    BY <1>1, <2>2, <2>5, DriverTransferType
  <2>6. CASE StubTransfer
    BY <1>1, <2>2, <2>6 DEF StubTransfer, DriverTypeOK
  <2> QED
    BY <2>2, <2>3, <2>4, <2>5, <2>6
<1>3. CASE cmd # "burst"
  <2>1. partial' \in BOOLEAN
    BY <1>3 DEF CallDriver, TypeOK
  <2>2. CASE DriverDrain(cmd = "drainAll")
    <3>1. clips' \in Seq(Clip)
      BY <1>1, <2>2 DEF DriverDrain, DriverTypeOK
    <3> QED
      BY <1>1, <2>1, <2>2, <3>1 DEF DriverDrain, DriverTypeOK
  <2>3. CASE DriverStart \/ StubStart \/ DriverStandby
    BY <1>1, <2>1, <2>3 DEF DriverStart, StubStart, DriverStandby, DriverTypeOK
  <2>4. CASE DriverPause
    BY <1>1, <2>1, <2>4 DEF DriverPause, DspPaused, DriverTypeOK
  <2>5. CASE DriverFlush
    <3>1. bufferLow' \in BOOLEAN /\ notifyArmed' \in BOOLEAN
      BY <2>5, Zenon DEF DriverFlush
    <3> QED
      BY <1>1, <2>1, <2>5, <3>1 DEF DriverFlush, DspPaused, DriverTypeOK
  <2> QED
    BY <1>3, <2>2, <2>3, <2>4, <2>5 DEF CallDriver
<1> QED
  BY <1>2, <1>3

LEMMA NoticesTail ==
  ASSUME DriverTypeOK, notices # <<>>
  PROVE  Tail(notices) \in Seq(Notice) /\ Head(notices) \in Notice
  BY DEF DriverTypeOK

\* A callback is under way only while its notice is still queued.
SeenIsQueued == seen.at # "nothing" => notices # <<>>

LEMMA CallbackType ==
  ASSUME TypeOK, SeenIsQueued, Callback
  PROVE  TypeOK'
<1> USE DEF TypeOK, DriverTypeOK, DrainState, View
<1>1. CASE CallbackRead
  BY <1>1 DEF CallbackRead, driverVars, workerVars, clientVars
<1>2. CASE OnBufferStateChange
  <2>1. Tail(notices) \in Seq(Notice)
    BY <1>2, NoticesTail DEF OnBufferStateChange, SeenIsQueued
  <2> QED
    BY <1>2, <2>1 DEF OnBufferStateChange, CallbackDone, NotSeen, State, clientVars
<1>3. CASE OnClipStateChange
  <2>1. Tail(notices) \in Seq(Notice)
    BY <1>3, NoticesTail DEF OnClipStateChange, SeenIsQueued
  <2>2. CASE ClipEnds /\ UNCHANGED <<driverVars, drainState, drainReady>>
                      /\ seen' = [seen EXCEPT !.at = "written"]
                      /\ state' = (IF Head(notices).hasNext THEN "TRANSFERRING" ELSE "IDLE")
    <3>1. state' \in State
      BY <2>2, Zenon DEF State
    <3> QED
      BY <1>3, <2>2, <3>1 DEF OnClipStateChange, driverVars, clientVars
  <2>3. CASE CallbackDone /\ UNCHANGED state
    BY <1>3, <2>1, <2>3 DEF OnClipStateChange, CallbackDone, Counted, NotSeen, clientVars
  <2> QED
    BY <1>3, <2>2, <2>3 DEF OnClipStateChange
<1>4. CASE OnClipEnded
  <2>1. Tail(notices) \in Seq(Notice)
    BY <1>4, NoticesTail DEF OnClipEnded, SeenIsQueued
  <2> QED
    BY <1>4, <2>1 DEF OnClipEnded, CallbackDone, Counted, NotSeen, clientVars
<1> QED
  BY <1>1, <1>2, <1>3, <1>4 DEF Callback

\* Nobody but the DSP thread touches its callbacks.
Outside ==
  \/ \E c \in Commands : SendCommand(c)
  \/ SetConnectedDevices \/ Close \/ Worker \/ QueueFails

LEMMA OutsideKeepsNotices == Outside => UNCHANGED <<notices, seen>>
<1> USE DEF driverVars, workerVars, clientVars
<1>1. SetConnectedDevices \/ Close \/ QueueFails \/ (\E c \in Commands : SendCommand(c))
        => UNCHANGED <<notices, seen>>
  BY DEF SetConnectedDevices, Close, CloseBegin, StopWorker, CloseEnd, QueueFails, SendCommand
<1>2. CallDriver => UNCHANGED <<notices, seen>>
  BY DEF CallDriver, Transfer, DriverTransfer, StubTransfer, DriverStart, StubStart,
         DriverDrain, DriverStandby, DriverPause, DriverFlush
<1>3. ShutdownDriver => UNCHANGED <<notices, seen>>
  BY DEF ShutdownDriver, DriverShutdown
<1>4. Worker => UNCHANGED <<notices, seen>>
  BY <1>2, <1>3
  DEF Worker, CycleTop, ReadCommand, AcceptCommand, RefuseCommand, DriverFails,
      DecideAfterBurst, ApplyState, ApplyDrain, SendReply, HandleExit, WorkerSetClosed
<1> QED
  BY <1>1, <1>4 DEF Outside

LEMMA SeenNext == TypeOK /\ SeenIsQueued /\ [Next]_vars => SeenIsQueued'
<1> SUFFICES ASSUME TypeOK, SeenIsQueued, [Next]_vars PROVE SeenIsQueued'
  OBVIOUS
<1>1. CASE Outside
  BY <1>1, OutsideKeepsNotices DEF SeenIsQueued
<1>2. ASSUME NEW p \in Progress, PlayCycle(p[1], p[2]) PROVE SeenIsQueued'
  BY <1>2 DEF PlayCycle, DspCycle, AtCycleBoundary, SeenIsQueued
<1>3. CASE Callback
  BY <1>3 DEF Callback, CallbackRead, OnBufferStateChange, OnClipStateChange, OnClipEnded,
              CallbackDone, NotSeen, SeenIsQueued, driverVars
<1>4. CASE UNCHANGED vars
  BY <1>4 DEF vars, driverVars, SeenIsQueued
<1> QED
  BY <1>1, <1>2, <1>3, <1>4 DEF Next, Outside, PlaySome

----------------------------------------------------------------------------
(* Type correctness. *)

LEMMA TypeInit == Init => TypeOK
<1> SUFFICES ASSUME Init PROVE TypeOK
  OBVIOUS
<1>1. DriverTypeOK
  <2>1. bufferLow \in BOOLEAN /\ notifyArmed \in BOOLEAN
    BY Zenon DEF Init, DriverInit
  <2> QED
    BY <2>1 DEF Init, DriverInit, DriverTypeOK
<1>2. connected \in BOOLEAN /\ partial \in BOOLEAN
  BY Zenon DEF Init
<1>3. seen \in View
  BY DEF Init, NotSeen, View, DrainState
<1> QED
  BY <1>1, <1>2, <1>3 DEF Init, TypeOK, State, DrainState, Command, Status

LEMMA TypeNext == TypeOK /\ SeenIsQueued /\ [Next]_vars => TypeOK'
<1> SUFFICES ASSUME TypeOK, SeenIsQueued, [Next]_vars PROVE TypeOK'
  OBVIOUS
<1> USE DEF TypeOK, State, DrainState, Command, Status, GoTo
<1>1. ASSUME NEW c \in Commands, SendCommand(c) PROVE TypeOK'
  BY <1>1, StreamOutAssumption DEF SendCommand, driverVars, workerVars, DriverTypeOK
<1>2. CASE SetConnectedDevices
  BY <1>2 DEF SetConnectedDevices, driverVars, workerVars, clientVars, DriverTypeOK
<1>3. CASE Close
  <2>1. CASE CloseBegin
    BY <2>1 DEF CloseBegin, driverVars, workerVars, clientVars, DriverTypeOK
  <2>2. CASE StopWorker
    BY <2>2 DEF StopWorker, driverVars, workerVars, DriverTypeOK
  <2>3. CASE CloseEnd
    BY <2>3 DEF CloseEnd, SetClosed, driverVars, clientVars, DriverTypeOK
  <2> QED
    BY <1>3, <2>1, <2>2, <2>3 DEF Close
<1>4. CASE Worker
  <2> USE DEF clientVars
  <2>1. CASE CycleTop
    BY <2>1 DEF CycleTop, driverVars, DriverTypeOK
  <2>2. CASE ReadCommand
    BY <2>2 DEF ReadCommand, driverVars, DriverTypeOK
  <2>3. CASE AcceptCommand
    BY <2>3 DEF AcceptCommand, Accepts, StartTo, PauseTo, IsDrain, driverVars, DriverTypeOK
  <2>4. CASE RefuseCommand
    BY <2>4 DEF RefuseCommand, driverVars, DriverTypeOK
  <2>5. CASE CallDriver
    <3>1. DriverTypeOK' /\ partial' \in BOOLEAN
      BY <2>5, DriverCallType DEF CallDriver
    <3> QED
      BY <2>5, <3>1 DEF CallDriver
  <2>6. CASE DriverFails
    BY <2>6 DEF DriverFails, driverVars, DriverTypeOK
  <2>7. CASE DecideAfterBurst
    <3>1. partial' \in BOOLEAN
      BY <2>7, Zenon DEF DecideAfterBurst
    <3>2. BurstTarget \in (State \ {"CLOSED"}) \cup {"keep"}
      BY DEF BurstTarget
    <3> QED
      BY <2>7, <3>1, <3>2 DEF DecideAfterBurst, driverVars, DriverTypeOK
  <2>8. CASE ApplyState
    BY <2>8 DEF ApplyState, driverVars, DriverTypeOK
  <2>9. CASE ApplyDrain
    BY <2>9 DEF ApplyDrain, driverVars, DriverTypeOK
  <2>10. CASE SendReply
    <3>1. partial' \in BOOLEAN
      BY <2>10, Zenon DEF SendReply, LocalsDropped
    <3> QED
      BY <2>10, <3>1 DEF SendReply, LocalsDropped, driverVars, DriverTypeOK
  <2>11. CASE HandleExit
    BY <2>11 DEF HandleExit, driverVars, DriverTypeOK
  <2>12. CASE ShutdownDriver
    BY <2>12 DEF ShutdownDriver, DriverShutdown, DriverTypeOK
  <2>13. CASE WorkerSetClosed
    BY <2>13 DEF WorkerSetClosed, SetClosed, driverVars, DriverTypeOK
  <2> QED
    BY <1>4, <2>1, <2>2, <2>3, <2>4, <2>5, <2>6, <2>7, <2>8, <2>9, <2>10, <2>11, <2>12, <2>13
    DEF Worker
<1>5. CASE QueueFails
  BY <1>5 DEF QueueFails, driverVars, clientVars, DriverTypeOK
<1>6. ASSUME NEW p \in Progress, PlayCycle(p[1], p[2]) PROVE TypeOK'
  <2>1. DriverTypeOK'
    BY <1>6, DspCycleType DEF PlayCycle
  <2> QED
    BY <1>6, <2>1 DEF PlayCycle, workerVars, clientVars
<1>7. CASE Callback
  BY <1>7, CallbackType
<1>8. CASE UNCHANGED vars
  BY <1>8 DEF vars, driverVars, workerVars, clientVars, DriverTypeOK
<1> QED
  BY <1>1, <1>2, <1>3, <1>4, <1>5, <1>6, <1>7, <1>8 DEF Next, PlaySome

----------------------------------------------------------------------------
(* Closing. *)

\* The worker alone shuts the driver down, and it makes no other step of its
\* cycle afterwards; the DSP thread is gone by then with all its callbacks.
\* Whoever sets CLOSED does it after that.
CloseInv ==
  /\ driver = "shutdown" <=> pc \in {"setClosed", "exited"}
  /\ driver = "shutdown" => dsp = "stopped" /\ notices = <<>>
  /\ state = "CLOSED" => pc \in {"exited", "aborted"}
  /\ closer = "closed" => pc \in {"exited", "aborted"}
  /\ MqMayFail \/ pc # "aborted"

LEMMA CloseInit == Init => CloseInv
  BY DEF Init, DriverInit, CloseInv

\* The driver operations of a command neither shut the driver down nor undo it.
LEMMA DriverStaysUp ==
  ASSUME CallDriver, driver # "shutdown"
  PROVE  driver' # "shutdown"
  BY DEF CallDriver, Transfer, DriverTransfer, StubTransfer, DriverStart, StubStart,
         DriverDrain, DriverStandby, DriverPause, DriverFlush, driverVars

LEMMA CloseNext == TypeOK /\ SeenIsQueued /\ CloseInv /\ [Next]_vars => CloseInv'
<1> SUFFICES ASSUME TypeOK, SeenIsQueued, CloseInv, [Next]_vars PROVE CloseInv'
  OBVIOUS
<1> USE DEF CloseInv, driverVars, workerVars, clientVars
<1>1. ASSUME NEW c \in Commands, SendCommand(c) PROVE CloseInv'
  BY <1>1 DEF SendCommand
<1>2. CASE SetConnectedDevices
  BY <1>2 DEF SetConnectedDevices
<1>3. CASE Close
  BY <1>3 DEF Close, CloseBegin, StopWorker, CloseEnd, SetClosed
<1>4. CASE Worker
  <2> USE DEF GoTo
  <2>1. CASE CycleTop \/ ReadCommand \/ AcceptCommand \/ RefuseCommand
    BY <2>1 DEF CycleTop, ReadCommand, AcceptCommand, RefuseCommand
  <2>2. CASE CallDriver
    BY <2>2, DriverStaysUp DEF CallDriver
  <2>3. CASE DriverFails \/ DecideAfterBurst
    BY <2>3 DEF DriverFails, DecideAfterBurst
  <2>4. CASE ApplyState
    BY <2>4 DEF ApplyState, TypeOK
  <2>5. CASE ApplyDrain \/ SendReply \/ HandleExit
    BY <2>5 DEF ApplyDrain, SendReply, HandleExit
  <2>6. CASE ShutdownDriver
    BY <2>6 DEF ShutdownDriver, DriverShutdown, AtCycleBoundary
  <2>7. CASE WorkerSetClosed
    BY <2>7 DEF WorkerSetClosed, SetClosed
  <2> QED
    BY <1>4, <2>1, <2>2, <2>3, <2>4, <2>5, <2>6, <2>7 DEF Worker
<1>5. CASE QueueFails
  BY <1>5 DEF QueueFails
<1>6. ASSUME NEW p \in Progress, PlayCycle(p[1], p[2]) PROVE CloseInv'
  BY <1>6 DEF PlayCycle, DspCycle
<1>7. CASE Callback
  <2>1. notices # <<>>
    BY <1>7 DEF Callback, CallbackRead, OnBufferStateChange, OnClipStateChange, OnClipEnded,
                SeenIsQueued
  <2>2. driver # "shutdown" /\ pc \notin {"setClosed", "exited"}
    BY <2>1
  <2> QED
    BY <1>7, <2>2
    DEF Callback, CallbackRead, OnBufferStateChange, OnClipStateChange, OnClipEnded, CallbackDone
<1>8. CASE UNCHANGED vars
  BY <1>8 DEF vars
<1> QED
  BY <1>1, <1>2, <1>3, <1>4, <1>5, <1>6, <1>7, <1>8 DEF Next, PlaySome

----------------------------------------------------------------------------
(* Acknowledging a drain. *)

\* A callback under way may work with a drain state the worker has replaced
\* since; what it still may acknowledge is bounded by what it has read.
DrainInv ==
  /\ drainReady <= 2
  /\ drainState \in {"ALL", "EN"} => drainReady = 0
  /\ drainState = "EN_SENT" => drainReady = 1
  /\ seen.at # "nothing" /\ seen.drain \in {"ALL", "EN"} => drainReady = 0
  /\ seen.at # "nothing" /\ seen.drain = "EN_SENT" => drainReady <= 1

LEMMA DrainInit == Init => DrainInv
  BY DEF Init, NotSeen, DrainInv

LEMMA DrainNext == TypeOK /\ DrainInv /\ [Next]_vars => DrainInv'
<1> SUFFICES ASSUME TypeOK, DrainInv, [Next]_vars PROVE DrainInv'
  OBVIOUS
<1> USE DEF DrainInv, driverVars, workerVars, clientVars
<1>1. CASE ApplyDrain
  BY <1>1 DEF ApplyDrain
<1>2. CASE Outside /\ ~ApplyDrain
  <2>1. UNCHANGED <<drainState, drainReady>>
    BY <1>2
    DEF Outside, SendCommand, SetConnectedDevices, Close, CloseBegin, StopWorker, CloseEnd,
        Worker, CycleTop, ReadCommand, AcceptCommand, RefuseCommand, CallDriver, DriverFails,
        DecideAfterBurst, ApplyState, SendReply, HandleExit, ShutdownDriver, WorkerSetClosed,
        QueueFails
  <2> QED
    BY <1>2, <2>1, OutsideKeepsNotices
<1>3. ASSUME NEW p \in Progress, PlayCycle(p[1], p[2]) PROVE DrainInv'
  BY <1>3 DEF PlayCycle
<1>4. CASE CallbackRead
  BY <1>4 DEF CallbackRead
<1>5. CASE OnBufferStateChange
  BY <1>5 DEF OnBufferStateChange, CallbackDone, NotSeen
<1>6. CASE OnClipStateChange
  BY <1>6 DEF OnClipStateChange, CallbackDone, NotSeen, ClipEnds, ClipNears, Counted, TypeOK, View
<1>7. CASE OnClipEnded
  BY <1>7 DEF OnClipEnded, CallbackDone, NotSeen, Counted, TypeOK, View, DrainState
<1>8. CASE UNCHANGED vars
  BY <1>8 DEF vars
<1> QED
  BY <1>1, <1>2, <1>3, <1>4, <1>5, <1>6, <1>7, <1>8 DEF Next, Outside, PlaySome, Callback, Worker

----------------------------------------------------------------------------
(* The theorems. *)

\* The inductive invariant.
IInv == TypeOK /\ SeenIsQueued /\ CloseInv /\ DrainInv

LEMMA IInvHolds == Spec => []IInv
<1>1. Init => IInv
  <2>1. Init => SeenIsQueued
    BY DEF Init, DriverInit, NotSeen, SeenIsQueued
  <2> QED
    BY <2>1, TypeInit, CloseInit, DrainInit DEF IInv
<1>2. IInv /\ [Next]_vars => IInv'
  BY TypeNext, SeenNext, CloseNext, DrainNext DEF IInv
<1> QED
  BY <1>1, <1>2, PTL DEF Spec

\* The values of the variables stay in their sets.
THEOREM TypeCorrect == Spec => []TypeOK
<1>1. IInv => TypeOK
  BY DEF IInv
<1> QED
  BY <1>1, IInvHolds, PTL

\* After the driver is shut down its thread makes no callback, even when a
\* queue or a driver operation failed before.
THEOREM NoCallbackAfterShutdownHolds == Spec => []NoCallbackAfterShutdown
<1>1. IInv => NoCallbackAfterShutdown
  BY DEF IInv, CloseInv, NoCallbackAfterShutdown
<1> QED
  BY <1>1, IInvHolds, PTL

\* One drain is acknowledged by one callback, or by two when an early
\* notification was asked for, in whatever order worker and DSP thread run.
THEOREM DrainReadyBounded == Spec => []DrainReadyBound
<1>1. IInv => DrainReadyBound
  BY DEF IInv, DrainInv, DrainReadyBound
<1> QED
  BY <1>1, IInvHolds, PTL

\* When the queues do not fail, close() returns only after the worker has shut
\* the driver down.
THEOREM ClosedAfterShutdownHolds == ASSUME ~MqMayFail PROVE Spec => []ClosedAfterShutdown
<1>1. IInv => ClosedAfterShutdown
  BY DEF IInv, CloseInv, ClosedAfterShutdown
<1> QED
  BY <1>1, IInvHolds, PTL

\* When the queues do not fail, nothing takes a stream out of CLOSED.
THEOREM ClosedStays == ASSUME ~MqMayFail PROVE Spec => ClosedIsFinal
<1>1. IInv /\ [Next]_vars => [state = "CLOSED" => state' = "CLOSED"]_vars
  <2> SUFFICES ASSUME IInv, Next, state = "CLOSED" PROVE state' = "CLOSED"
    OBVIOUS
  <2>1. pc = "exited" /\ notices = <<>> /\ dsp = "stopped" /\ seen.at = "nothing"
    BY DEF IInv, CloseInv, SeenIsQueued
  <2>2. ~Worker /\ ~QueueFails
    BY <2>1
    DEF Worker, CycleTop, ReadCommand, AcceptCommand, RefuseCommand, CallDriver, DriverFails,
        DecideAfterBurst, ApplyState, ApplyDrain, SendReply, HandleExit, ShutdownDriver,
        WorkerSetClosed, QueueFails, GoTo
  <2>3. ~Callback /\ ~PlaySome
    BY <2>1
    DEF Callback, CallbackRead, OnBufferStateChange, OnClipStateChange, OnClipEnded, PlaySome,
        PlayCycle, DspCycle
  <2> QED
    BY <2>2, <2>3
    DEF Next, SendCommand, SetConnectedDevices, Close, CloseBegin, StopWorker, CloseEnd,
        SetClosed, workerVars
<1>2. Spec => [][Next]_vars /\ []IInv
  BY IInvHolds, PTL DEF Spec
<1> QED
  BY <1>1, <1>2, PTL DEF ClosedIsFinal

(***************************************************************************)
(* A synchronous output stream implements the state machine it promises:   *)
(* the steps of the worker that change mState are steps of that machine,   *)
(* and all others stutter.                                                 *)
(***************************************************************************)
\* Without the offload driver no thread but the worker touches the state.
NoDsp ==
  /\ dsp # "running"
  /\ notices = <<>>
  /\ seen.at = "nothing"
  /\ drainState # "EN_SENT"
  /\ state \notin {"TRANSFERRING", "TRANSFER_PAUSED"}
  /\ next \notin {"TRANSFERRING", "TRANSFER_PAUSED"}

\* The client waits from the moment it sends a command until the reply, and the
\* exit command is the last that is ever sent.
OneRequest ==
  /\ pc \in {"top", "read"} => (client = "waiting" <=> mq \notin {"empty", "exit"})
  /\ pc \in {"handle", "driver", "decide", "apply", "applyDrain", "reply"} /\ cmd # "exit"
       => client = "waiting" /\ mq \in {"empty", "exit"}
  /\ cmd = "exit" => /\ pc \in {"handle", "driver", "setClosed", "exited"}
                     /\ closer \in {"joining", "closed"}
                     /\ client = "free"
  /\ mq = "exit" => closer \in {"joining", "closed"} /\ cmd # "exit"
  /\ pc \in {"setClosed", "exited"} => cmd = "exit"

\* What the worker decided when it accepted the command still applies when it
\* writes mState: nobody else has changed mState.
StillAccepted ==
  /\ pc \in {"driver", "decide", "apply"} /\ cmd # "exit" => state \in Accepts(cmd)
  /\ pc \in {"driver", "apply"} /\ cmd \notin {"burst", "exit"}
       => IF IsDrain(cmd) THEN state = "ACTIVE" /\ next = "DRAINING"
                          ELSE <<cmd, state, next>> \in OutEdges
  /\ pc = "apply" /\ cmd = "burst" => <<cmd, state, next>> \in OutEdges
  /\ pc = "decide" => cmd = "burst"
  /\ pc = "applyDrain" => IsDrain(cmd)

SyncInv == NoDsp /\ OneRequest /\ StillAccepted

LEMMA SyncInit == Init => SyncInv
  BY DEF Init, DriverInit, NotSeen, SyncInv, NoDsp, OneRequest, StillAccepted

LEMMA NoDspNext ==
  ASSUME ~Async, TypeOK, NoDsp, StillAccepted, [Next]_vars
  PROVE  NoDsp'
<1> USE DEF NoDsp, driverVars, workerVars, clientVars
<1>1. ~Callback /\ ~PlaySome
  BY DEF Callback, CallbackRead, OnBufferStateChange, OnClipStateChange, OnClipEnded,
         PlaySome, PlayCycle, DspCycle
<1>2. ASSUME Outside PROVE NoDsp'
  <2>1. UNCHANGED <<notices, seen>>
    BY <1>2, OutsideKeepsNotices
  <2>2. CASE (\E c \in Commands : SendCommand(c)) \/ SetConnectedDevices \/ Close \/ QueueFails
    BY <2>1, <2>2 DEF SendCommand, SetConnectedDevices, Close, CloseBegin, StopWorker, CloseEnd,
                      SetClosed, QueueFails
  <2>3. CASE CycleTop \/ ReadCommand \/ RefuseCommand \/ DriverFails
    BY <2>1, <2>3 DEF CycleTop, ReadCommand, RefuseCommand, DriverFails
  <2>4. CASE AcceptCommand
    BY <2>1, <2>4 DEF AcceptCommand, Accepts, StartTo, PauseTo, IsDrain, TypeOK, Command
  <2>5. CASE CallDriver
    <3>1. dsp' # "running"
      BY <2>5 DEF CallDriver, Transfer, StubTransfer, StubStart, DriverDrain, DriverStandby,
                  DriverPause, DriverFlush, DspPaused
    <3> QED
      BY <2>1, <2>5, <3>1 DEF CallDriver
  <2>6. CASE DecideAfterBurst
    BY <2>1, <2>6 DEF DecideAfterBurst, BurstTarget
  <2>7. CASE ApplyState \/ ApplyDrain
    BY <2>1, <2>7 DEF ApplyState, ApplyDrain
  <2>8. CASE SendReply \/ HandleExit
    BY <2>1, <2>8 DEF SendReply, LocalsDropped, HandleExit
  <2>9. CASE ShutdownDriver \/ WorkerSetClosed
    BY <2>1, <2>9 DEF ShutdownDriver, DriverShutdown, WorkerSetClosed, SetClosed
  <2> QED
    BY <1>2, <2>2, <2>3, <2>4, <2>5, <2>6, <2>7, <2>8, <2>9 DEF Outside, Worker
<1>3. CASE UNCHANGED vars
  BY <1>3 DEF vars
<1> QED
  BY <1>1, <1>2, <1>3 DEF Next, Outside

LEMMA OneRequestNext ==
  ASSUME ~Async, TypeOK, NoDsp, OneRequest, StillAccepted, [Next]_vars
  PROVE  OneRequest'
<1> USE DEF OneRequest, driverVars, workerVars, clientVars, GoTo
<1>1. ~Callback /\ ~PlaySome
  BY DEF NoDsp, Callback, CallbackRead, OnBufferStateChange, OnClipStateChange, OnClipEnded,
         PlaySome, PlayCycle, DspCycle
<1>2. ASSUME NEW c \in Commands, SendCommand(c) PROVE OneRequest'
  BY <1>2, StreamOutAssumption DEF SendCommand
<1>3. CASE SetConnectedDevices
  BY <1>3 DEF SetConnectedDevices
<1>4. CASE Close
  BY <1>4 DEF Close, CloseBegin, StopWorker, CloseEnd
<1>5. CASE Worker
  <2>1. CASE CycleTop \/ ReadCommand
    BY <2>1 DEF CycleTop, ReadCommand, TypeOK
  <2>2. CASE AcceptCommand \/ RefuseCommand
    BY <2>2 DEF AcceptCommand, RefuseCommand, Accepts, IsDrain
  <2>6. CASE CallDriver
    BY <2>6 DEF CallDriver, IsDrain
  <2>7. CASE DriverFails
    BY <2>7, StreamOutAssumption DEF DriverFails, IsDrain
  <2>3. CASE DecideAfterBurst \/ ApplyState \/ ApplyDrain
    BY <2>3 DEF DecideAfterBurst, ApplyState, ApplyDrain
  <2>4. CASE SendReply
    BY <2>4 DEF SendReply, LocalsDropped, StillAccepted
  <2>5. CASE HandleExit \/ ShutdownDriver \/ WorkerSetClosed
    BY <2>5 DEF HandleExit, ShutdownDriver, WorkerSetClosed
  <2> QED
    BY <1>5, <2>1, <2>2, <2>3, <2>4, <2>5, <2>6, <2>7 DEF Worker
<1>6. CASE QueueFails
  BY <1>6 DEF QueueFails
<1>7. CASE UNCHANGED vars
  BY <1>7 DEF vars
<1> QED
  BY <1>1, <1>2, <1>3, <1>4, <1>5, <1>6, <1>7 DEF Next
----------------------------------------------------------------------------
(* The decision of the worker. *)

\* The state the worker switches to is at the end of an edge.
LEMMA AcceptedEdge ==
  ASSUME ~Async, TypeOK, NoDsp, AcceptCommand, cmd # "burst"
  PROVE  IF IsDrain(cmd) THEN state = "ACTIVE" /\ next' = "DRAINING" /\ pc' = "driver"
                         ELSE <<cmd, state, next'>> \in OutEdges /\ pc' = "driver"
<1> USE DEF AcceptCommand, Accepts, IsDrain, NoDsp
<1>1. CASE cmd = "start"
  BY <1>1 DEF StartTo, OutEdges
<1>2. CASE cmd = "pause"
  BY <1>2 DEF PauseTo, OutEdges
<1>3. CASE cmd = "flush"
  BY <1>3 DEF OutEdges
<1>4. CASE cmd = "standby"
  BY <1>4 DEF OutEdges
<1>5. CASE cmd \in {"drainAll", "drainEarly"}
  BY <1>5
<1>6. CASE cmd \in {"getStatus", "flushFromFrame", "malformed", "exit"}
  BY <1>6
<1> QED
  BY <1>1, <1>2, <1>3, <1>4, <1>5, <1>6 DEF TypeOK, Command

\* So is the state after a burst.
LEMMA BurstEdge ==
  ASSUME ~Async, TypeOK, NoDsp, state \in Accepts("burst"), state # "CLOSED"
  PROVE  <<"burst", state, BurstTarget>> \in OutEdges
<1>1. state \in {"STANDBY", "IDLE", "ACTIVE", "PAUSED", "DRAINING", "DRAIN_PAUSED"}
  BY DEF Accepts, IsDrain, TypeOK, State, NoDsp
<1>2. CASE state \in {"IDLE", "ACTIVE", "DRAINING"}
  BY <1>2 DEF BurstTarget, OutEdges, NoDsp
<1>3. CASE state \in {"STANDBY", "PAUSED", "DRAIN_PAUSED"}
  BY <1>3 DEF BurstTarget, OutEdges
<1> QED
  BY <1>1, <1>2, <1>3

LEMMA StillAcceptedNext ==
  ASSUME ~Async, TypeOK, CloseInv, NoDsp, StillAccepted, [Next]_vars
  PROVE  StillAccepted'
<1> USE DEF StillAccepted, driverVars, workerVars, clientVars, GoTo
<1>1. ~Callback /\ ~PlaySome
  BY DEF NoDsp, Callback, CallbackRead, OnBufferStateChange, OnClipStateChange, OnClipEnded,
         PlaySome, PlayCycle, DspCycle
<1>2. CASE (\E c \in Commands : SendCommand(c)) \/ SetConnectedDevices \/ CloseBegin \/ StopWorker
  <2>1. UNCHANGED <<state, pc, cmd, next>>
    BY <1>2 DEF SendCommand, SetConnectedDevices, CloseBegin, StopWorker
  <2> QED
    BY <2>1 DEF Accepts, IsDrain
<1>3. CASE CloseEnd \/ QueueFails \/ CycleTop \/ ReadCommand \/ RefuseCommand \/ DriverFails
           \/ SendReply \/ ShutdownDriver \/ WorkerSetClosed \/ ApplyDrain
  <2>1. pc' \in {"aborted", "read", "handle", "reply", "top", "setClosed", "exited"}
    BY <1>3 DEF CloseEnd, QueueFails, CycleTop, ReadCommand, RefuseCommand, DriverFails,
                SendReply, ShutdownDriver, WorkerSetClosed, ApplyDrain
  <2> QED
    BY <2>1
<1>4. CASE AcceptCommand
  <2>1. cmd # "exit" /\ state' = state /\ cmd' = cmd /\ pc' \in {"driver", "apply"}
    BY <1>4 DEF AcceptCommand, Accepts, IsDrain
  <2>2. state' \in Accepts(cmd)'
    BY <1>4, <2>1 DEF AcceptCommand, Accepts, IsDrain
  <2>3. CASE cmd = "burst"
    BY <1>4, <2>1, <2>2, <2>3 DEF AcceptCommand, IsDrain
  <2>4. CASE cmd # "burst"
    <3>1. IF IsDrain(cmd) THEN state = "ACTIVE" /\ next' = "DRAINING" /\ pc' = "driver"
                          ELSE <<cmd, state, next'>> \in OutEdges /\ pc' = "driver"
      BY <1>4, <2>4, AcceptedEdge
    <3> QED
      BY <2>1, <2>2, <2>4, <3>1 DEF IsDrain, OutEdges, DrainEdges
  <2> QED
    BY <2>3, <2>4
<1>5. CASE CallDriver
  <2>1. /\ UNCHANGED <<state, cmd, next>>
        /\ pc' = (IF cmd = "burst" THEN "decide" ELSE "apply")
        /\ pc = "driver" /\ cmd # "exit"
    BY <1>5 DEF CallDriver, IsDrain
  <2> QED
    BY <2>1 DEF Accepts, IsDrain, OutEdges, DrainEdges
<1>6. CASE DecideAfterBurst
  <2>1. cmd = "burst" /\ cmd' = cmd /\ state' = state /\ next' = BurstTarget /\ pc' = "apply"
    BY <1>6 DEF DecideAfterBurst
  <2>2. state # "CLOSED" /\ state \in Accepts("burst")
    BY <1>6, <2>1 DEF CloseInv, DecideAfterBurst
  <2>3. <<cmd, state, BurstTarget>> \in OutEdges
    BY <2>1, <2>2, BurstEdge
  <2> QED
    BY <2>1, <2>2, <2>3 DEF Accepts, IsDrain, OutEdges, DrainEdges
<1>7. CASE ApplyState
  BY <1>7 DEF ApplyState, IsDrain
<1>8. CASE HandleExit
  BY <1>8 DEF HandleExit
<1>9. CASE UNCHANGED vars
  <2>1. UNCHANGED <<state, pc, cmd, next>>
    BY <1>9 DEF vars
  <2> QED
    BY <2>1 DEF Accepts, IsDrain
<1> QED
  BY <1>1, <1>2, <1>3, <1>4, <1>5, <1>6, <1>7, <1>8, <1>9 DEF Next, Worker, Close

----------------------------------------------------------------------------
(* Every step is a step of the promised machine, or shows nothing. *)

\* A state that accepts a command has an edge for it.
LEMMA AcceptedIsPossible ==
  ASSUME TypeOK, NoDsp, cmd # "exit", state \in Accepts(cmd), state # "CLOSED",
         Request = cmd
  PROVE  Promise!Possible # {}
<1> SUFFICES \E t \in State : <<cmd, state, t>> \in OutEdges
  BY DEF Promise!Possible
<1> USE DEF Accepts, IsDrain, NoDsp, State
<1>1. CASE cmd = "start"
  <2>1. state \in {"STANDBY", "PAUSED", "DRAIN_PAUSED"}
    BY <1>1 DEF StartTo
  <2>2. /\ <<"start", "STANDBY", "IDLE">> \in OutEdges
        /\ <<"start", "PAUSED", "ACTIVE">> \in OutEdges
        /\ <<"start", "DRAIN_PAUSED", "DRAINING">> \in OutEdges
    BY DEF OutEdges
  <2> QED
    BY <1>1, <2>1, <2>2
<1>2. CASE cmd = "burst"
  <2>1. state \in {"STANDBY", "IDLE", "ACTIVE", "PAUSED", "DRAINING", "DRAIN_PAUSED"}
    BY <1>2 DEF TypeOK
  <2>2. /\ \A s \in {"IDLE", "ACTIVE", "DRAINING"} : <<"burst", s, "ACTIVE">> \in OutEdges
        /\ \A s \in {"STANDBY", "PAUSED", "DRAIN_PAUSED"} : <<"burst", s, "PAUSED">> \in OutEdges
    BY DEF OutEdges
  <2> QED
    BY <1>2, <2>1, <2>2
<1>3. CASE IsDrain(cmd)
  <2>1. state = "ACTIVE"
    BY <1>3
  <2>2. <<cmd, "ACTIVE", IF ForceSyncDrain THEN "IDLE" ELSE "DRAINING">> \in OutEdges
    BY <1>3 DEF OutEdges, DrainEdges
  <2> QED
    BY <2>1, <2>2
<1>4. CASE cmd = "standby"
  <2>1. state = "IDLE" /\ <<"standby", "IDLE", "STANDBY">> \in OutEdges
    BY <1>4 DEF OutEdges
  <2> QED
    BY <1>4, <2>1
<1>5. CASE cmd = "pause"
  <2>1. state \in {"ACTIVE", "DRAINING"}
    BY <1>5 DEF PauseTo
  <2>2. /\ <<"pause", "ACTIVE", "PAUSED">> \in OutEdges
        /\ <<"pause", "DRAINING", "DRAIN_PAUSED">> \in OutEdges
    BY DEF OutEdges
  <2> QED
    BY <1>5, <2>1, <2>2
<1>6. CASE cmd = "flush"
  <2>1. state \in {"PAUSED", "DRAIN_PAUSED"}
    BY <1>6
  <2>2. /\ <<"flush", "PAUSED", "IDLE">> \in OutEdges
        /\ <<"flush", "DRAIN_PAUSED", "IDLE">> \in OutEdges
    BY DEF OutEdges
  <2> QED
    BY <1>6, <2>1, <2>2
<1> QED
  BY <1>1, <1>2, <1>3, <1>4, <1>5, <1>6 DEF TypeOK, Command

\* And only such a state has one.
LEMMA PossibleIsAccepted ==
  ASSUME Request = cmd, Promise!Possible # {}
  PROVE  state \in Accepts(cmd)
<1>1. PICK e \in OutEdges : e[1] = cmd /\ e[2] = state
  BY DEF Promise!Possible
<1> QED
  BY <1>1 DEF OutEdges, DrainEdges, Accepts, IsDrain, StartTo, PauseTo, State

\* While a command is being handled it is the request of the client.
LEMMA RequestIsCmd ==
  ASSUME OneRequest, cmd # "exit",
         pc \in {"handle", "driver", "decide", "apply", "applyDrain", "reply"}
  PROVE  Request = cmd
  BY DEF OneRequest, Request

LEMMA CommitStep ==
  ASSUME ~Async, TypeOK, CloseInv, SyncInv, ApplyState
  PROVE  Promise!Perform
<1> USE DEF ApplyState, SyncInv
<1>1. cmd # "exit" /\ Request = cmd /\ Request' = cmd /\ cmd \in Command
  BY RequestIsCmd DEF OneRequest, Request, clientVars, TypeOK
<1>2. Reply = "none" /\ Reply' = "OK"
  BY DEF Reply
<1>3. state # "CLOSED"
  BY DEF CloseInv
<1>4. Request # "none"
  BY <1>1 DEF Command
<1>5. <<cmd, state, state'>> \in OutEdges
  <2>1. CASE IsDrain(cmd)
    BY <2>1, <1>1 DEF StillAccepted, OutEdges, DrainEdges, IsDrain
  <2>2. CASE ~IsDrain(cmd)
    <3>1. <<cmd, state, next>> \in OutEdges
      BY <1>1, <2>2 DEF StillAccepted
    <3>2. next # "keep"
      BY <3>1 DEF OutEdges, DrainEdges
    <3> QED
      BY <2>2, <3>1, <3>2
  <2> QED
    BY <2>1, <2>2
<1> QED
  <2>1. Promise!Pending
    BY <1>2, <1>4 DEF Promise!Pending, Promise!Nothing
  <2>2. <<cmd, state, state'>> \in Promise!Possible
    BY <1>1, <1>5 DEF Promise!Possible
  <2>3. \E e \in Promise!Possible : state' = e[3]
    BY <2>2
  <2> QED
    BY <1>1, <1>2, <2>1, <2>3 DEF Promise!Perform

LEMMA FailStep ==
  ASSUME ~Async, TypeOK, CloseInv, SyncInv, DriverFails
  PROVE  Promise!Fail
<1> USE DEF DriverFails, SyncInv
<1>1. cmd # "exit" /\ Request = cmd /\ Request' = cmd /\ cmd \in Command
  BY RequestIsCmd, StreamOutAssumption DEF OneRequest, Request, clientVars, TypeOK, IsDrain
<1>2. Reply = "none" /\ Reply' \in {"OK", "BAD_VALUE"}
  BY DEF Reply
<1>3. state # "CLOSED" /\ state \in Accepts(cmd)
  BY <1>1 DEF CloseInv, StillAccepted
<1>4. Promise!Possible # {}
  BY <1>1, <1>3, AcceptedIsPossible
<1>5. Promise!Pending
  BY <1>1, <1>2 DEF Promise!Pending, Promise!Nothing, Command
<1> QED
  BY <1>1, <1>2, <1>4, <1>5 DEF Promise!Fail

LEMMA RefuseStep ==
  ASSUME TypeOK, SyncInv, RefuseCommand
  PROVE  Promise!Refuse
<1> USE DEF RefuseCommand, SyncInv, GoTo
<1>1. cmd # "exit" /\ Request = cmd /\ Request' = cmd /\ cmd \in Command
  BY RequestIsCmd DEF OneRequest, Request, clientVars, TypeOK
<1>2. Reply = "none" /\ Reply' = status'
  BY DEF Reply
<1>3. Promise!Possible = {}
  BY <1>1, PossibleIsAccepted
<1>4. Promise!Pending
  BY <1>1, <1>2 DEF Promise!Pending, Promise!Nothing, Command
<1>5. status' = CASE Request = "getStatus" -> "OK"
                  [] Request = "malformed" -> "BAD_VALUE"
                  [] OTHER                 -> "INVALID_OPERATION"
  BY <1>1
<1> QED
  BY <1>1, <1>2, <1>3, <1>4, <1>5 DEF Promise!Refuse

LEMMA Refines ==
  ASSUME ~Async, IInv, SyncInv, [Next]_vars
  PROVE  [Promise!Next]_(Promise!protocolVars)
<1> USE DEF driverVars, workerVars, clientVars, GoTo, SyncInv, Promise!protocolVars
<1>0. TypeOK /\ CloseInv
  BY DEF IInv
<1>1. ~Callback /\ ~PlaySome
  BY DEF NoDsp, Callback, CallbackRead, OnBufferStateChange, OnClipStateChange, OnClipEnded,
         PlaySome, PlayCycle, DspCycle
<1>2. ASSUME NEW c \in Commands, SendCommand(c) PROVE Promise!Issue(c)
  <2>1. c \notin {"empty", "exit"}
    BY StreamOutAssumption
  <2>2. Request = "none" /\ Request' = c /\ UNCHANGED <<state, Reply>>
    BY <1>2, <2>1 DEF SendCommand, Request, Reply
  <2> QED
    BY <2>2 DEF Promise!Issue, Promise!Nothing
<1>3. CASE SetConnectedDevices \/ CloseBegin \/ StopWorker \/ ReadCommand \/ AcceptCommand
           \/ CallDriver \/ DecideAfterBurst \/ ApplyDrain \/ HandleExit \/ ShutdownDriver
  <2>1. UNCHANGED <<state, Reply>>
    BY <1>3 DEF SetConnectedDevices, CloseBegin, StopWorker, ReadCommand, AcceptCommand,
                CallDriver, DecideAfterBurst, ApplyDrain, HandleExit, ShutdownDriver, Reply
  <2>2. CASE ReadCommand
    BY <2>1, <2>2, <1>0 DEF ReadCommand, OneRequest, Request, TypeOK
  <2>3. CASE StopWorker
    BY <2>1, <2>3, <1>0 DEF StopWorker, Request
  <2>4. CASE ~ReadCommand /\ ~StopWorker
    <3>1. UNCHANGED <<client, mq, cmd>>
      BY <1>3, <2>4 DEF SetConnectedDevices, CloseBegin, AcceptCommand, CallDriver,
                        DecideAfterBurst, ApplyDrain, HandleExit, ShutdownDriver
    <3> QED
      BY <2>1, <3>1 DEF Request
  <2> QED
    BY <2>2, <2>3, <2>4
<1>4. CASE CloseEnd \/ WorkerSetClosed
  <2>1. UNCHANGED <<client, mq, cmd>> /\ state' = "CLOSED"
    BY <1>4 DEF CloseEnd, WorkerSetClosed, SetClosed
  <2>2. Reply = "none" /\ Reply' = "none"
    BY <1>4 DEF CloseEnd, WorkerSetClosed, Reply
  <2> QED
    BY <2>1, <2>2 DEF Promise!Close, Promise!Next, Promise!Nothing, Request
<1>5. CASE QueueFails
  <2>1. UNCHANGED <<client, mq, cmd>> /\ state' = "ERROR" /\ Reply' = "none"
    BY <1>5 DEF QueueFails, Reply
  <2>2. state # "CLOSED"
    BY <1>0, <1>5 DEF QueueFails, CloseInv
  <2> QED
    BY <2>1, <2>2 DEF Promise!Break, Promise!Next, Promise!Nothing, Request
<1>6. CASE CycleTop
  <2>1. UNCHANGED <<Request, Reply>>
    BY <1>6 DEF CycleTop, Request, Reply
  <2>2. CASE UNCHANGED state
    BY <2>1, <2>2
  <2>3. CASE state = "DRAINING" /\ state' = "IDLE"
    BY <2>1, <2>3 DEF Promise!Move, Promise!Next
  <2> QED
    BY <1>6, <2>2, <2>3 DEF CycleTop
<1>7. CASE SendReply
  <2>1. Reply # "none" /\ Reply' = "none" /\ Request' = "none" /\ state' = state
    BY <1>0, <1>7 DEF SendReply, Reply, Request, TypeOK, Status
  <2> QED
    BY <2>1 DEF Promise!Answer, Promise!Next, Promise!Nothing
<1>8. CASE RefuseCommand
  BY <1>0, <1>8, RefuseStep DEF Promise!Next
<1>9. CASE DriverFails
  BY <1>0, <1>9, FailStep DEF Promise!Next
<1>10. CASE ApplyState
  BY <1>0, <1>10, CommitStep DEF Promise!Next
<1>11. CASE UNCHANGED vars
  BY <1>11 DEF vars, Request, Reply
<1> QED
  BY <1>1, <1>2, <1>3, <1>4, <1>5, <1>6, <1>7, <1>8, <1>9, <1>10, <1>11
  DEF Next, Close, Worker, Promise!Next

\* For every set of commands and of failing operations, and whether or not the
\* queues may fail, a synchronous output stream keeps the promise of its state
\* machine.
THEOREM SynchronousStreamKeepsPromise == ASSUME ~Async PROVE Spec => KeepsPromise
<1>1. Init => Promise!Init
  BY DEF Init, Promise!Init, Promise!Nothing, Request, Reply
<1>2. Init => SyncInv
  BY SyncInit
<1>3. IInv /\ SyncInv /\ [Next]_vars => SyncInv'
  BY NoDspNext, OneRequestNext, StillAcceptedNext DEF SyncInv, IInv
<1>4. IInv /\ SyncInv /\ [Next]_vars => [Promise!Next]_(Promise!protocolVars)
  BY Refines
<1>5. Spec => Init /\ [][Next]_vars /\ []IInv
  BY IInvHolds, PTL DEF Spec
<1> QED
  BY <1>1, <1>2, <1>3, <1>4, <1>5, PTL DEF KeepsPromise, Promise!Spec

=============================================================================
