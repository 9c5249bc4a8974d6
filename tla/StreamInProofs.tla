--------------------------- MODULE StreamInProofs ---------------------------
(***************************************************************************)
(* An input stream implements the state machine it promises, for every set *)
(* of commands but "exit", of failing operations, and whether or not the   *)
(* queues may fail.                                                        *)
(***************************************************************************)
EXTENDS StreamIn, TLAPS

\* The client waits from the moment it sends a command until the reply, and the
\* exit command is the last that is ever sent.
OneRequest ==
  /\ inPc = "read" => (inClient = "waiting" <=> inMq \notin {"empty", "exit"})
  /\ inPc \in {"handle", "reply"} /\ inCmd # "exit" => inClient = "waiting" /\ inMq \in {"empty", "exit"}
  /\ inCmd = "exit" => /\ inPc \in {"handle", "setClosed", "exited"}
                     /\ inCloser \in {"joining", "closed"}
                     /\ inClient = "free"
  /\ inMq = "exit" => inCloser \in {"joining", "closed"} /\ inCmd # "exit"
  /\ inPc \in {"setClosed", "exited"} => inCmd = "exit"

\* A stream is closed only when its worker has ended.
ClosedAtTheEnd == inState = "CLOSED" => inPc \in {"exited", "aborted"}

InInv == InTypeOK /\ OneRequest /\ ClosedAtTheEnd

----------------------------------------------------------------------------
\* The edges of the machine are the entries of the worker's table.
LEMMA TargetDomain ==
  ASSUME NEW c \in InCommand, NEW s
  PROVE  s \in DOMAIN Target[c] <=> \E e \in InEdges : e[1] = c /\ e[2] = s
<1>1. CASE c = "start"
  <2>1. Target[c] = [STANDBY |-> "IDLE", DRAINING |-> "ACTIVE"] BY <1>1 DEF Target
  <2>2. DOMAIN Target[c] = {"STANDBY", "DRAINING"} BY <2>1
  <2> QED BY <1>1, <2>2 DEF InEdges
<1>2. CASE c = "burst"
  <2>1. Target[c] = [IDLE |-> "ACTIVE", ACTIVE |-> "ACTIVE", PAUSED |-> "ACTIVE",
                     DRAINING |-> "STANDBY"] BY <1>2 DEF Target
  <2>2. DOMAIN Target[c] = {"IDLE", "ACTIVE", "PAUSED", "DRAINING"} BY <2>1
  <2> QED BY <1>2, <2>2 DEF InEdges
<1>3. CASE c = "drain"
  <2>1. Target[c] = [ACTIVE |-> "DRAINING"] BY <1>3 DEF Target
  <2>2. DOMAIN Target[c] = {"ACTIVE"} BY <2>1
  <2> QED BY <1>3, <2>2 DEF InEdges
<1>4. CASE c = "standby"
  <2>1. Target[c] = [IDLE |-> "STANDBY"] BY <1>4 DEF Target
  <2>2. DOMAIN Target[c] = {"IDLE"} BY <2>1
  <2> QED BY <1>4, <2>2 DEF InEdges
<1>5. CASE c = "pause"
  <2>1. Target[c] = [ACTIVE |-> "PAUSED"] BY <1>5 DEF Target
  <2>2. DOMAIN Target[c] = {"ACTIVE"} BY <2>1
  <2> QED BY <1>5, <2>2 DEF InEdges
<1>6. CASE c = "flush"
  <2>1. Target[c] = [PAUSED |-> "STANDBY"] BY <1>6 DEF Target
  <2>2. DOMAIN Target[c] = {"PAUSED"} BY <2>1
  <2> QED BY <1>6, <2>2 DEF InEdges
<1>7. CASE c \notin {"start", "burst", "drain", "standby", "pause", "flush"}
  <2>1. Target[c] = <<>> BY <1>7 DEF Target
  <2>2. DOMAIN Target[c] = {} BY <2>1
  <2> QED BY <1>7, <2>2 DEF InEdges
<1> QED BY <1>1, <1>2, <1>3, <1>4, <1>5, <1>6, <1>7

LEMMA TargetEdge ==
  ASSUME NEW c \in InCommand, NEW s, s \in DOMAIN Target[c]
  PROVE  /\ <<c, s, Target[c][s]>> \in InEdges
         /\ Target[c][s] \in {"STANDBY", "IDLE", "ACTIVE", "PAUSED", "DRAINING"}
<1>0. PICK e \in InEdges : e[1] = c /\ e[2] = s BY TargetDomain
<1>1. CASE c = "start"
  <2>1. Target[c] = [STANDBY |-> "IDLE", DRAINING |-> "ACTIVE"] BY <1>1 DEF Target
  <2>2. s \in {"STANDBY", "DRAINING"} BY <1>0, <1>1 DEF InEdges
  <2> QED BY <1>1, <2>1, <2>2 DEF InEdges
<1>2. CASE c = "burst"
  <2>1. Target[c] = [IDLE |-> "ACTIVE", ACTIVE |-> "ACTIVE", PAUSED |-> "ACTIVE",
                     DRAINING |-> "STANDBY"] BY <1>2 DEF Target
  <2>2. s \in {"IDLE", "ACTIVE", "PAUSED", "DRAINING"} BY <1>0, <1>2 DEF InEdges
  <2> QED BY <1>2, <2>1, <2>2 DEF InEdges
<1>3. CASE c = "drain"
  <2>1. Target[c] = [ACTIVE |-> "DRAINING"] BY <1>3 DEF Target
  <2> QED BY <1>0, <1>3, <2>1 DEF InEdges
<1>4. CASE c = "standby"
  <2>1. Target[c] = [IDLE |-> "STANDBY"] BY <1>4 DEF Target
  <2> QED BY <1>0, <1>4, <2>1 DEF InEdges
<1>5. CASE c = "pause"
  <2>1. Target[c] = [ACTIVE |-> "PAUSED"] BY <1>5 DEF Target
  <2> QED BY <1>0, <1>5, <2>1 DEF InEdges
<1>6. CASE c = "flush"
  <2>1. Target[c] = [PAUSED |-> "STANDBY"] BY <1>6 DEF Target
  <2> QED BY <1>0, <1>6, <2>1 DEF InEdges
<1> QED BY <1>0, <1>1, <1>2, <1>3, <1>4, <1>5, <1>6 DEF InEdges

LEMMA AcceptedIsPossible ==
  ASSUME InTypeOK, InRequest = inCmd
  PROVE  Accepted <=> InPromise!Possible # {}
<1>1. inCmd \in InCommand BY DEF InTypeOK
<1>2. Accepted <=> \E e \in InEdges : e[1] = inCmd /\ e[2] = inState
  BY <1>1, TargetDomain DEF Accepted
<1> QED BY <1>2 DEF InPromise!Possible

----------------------------------------------------------------------------
LEMMA InInitially == InInit => InInv
  BY DEF InInit, InInv, InTypeOK, OneRequest, ClosedAtTheEnd, InCommand

LEMMA InStepKeeps ==
  ASSUME InCommands \subseteq InCommand \ {"exit"}, InInv, [InNext]_inVars PROVE InInv'
<1> USE DEF InInv, InTypeOK, OneRequest, ClosedAtTheEnd
<1>1. ASSUME NEW c \in InCommands, InSendCommand(c) PROVE InInv'
  <2>1. c \in InCommand /\ c # "exit" /\ c # "empty" BY DEF InCommand
  <2> QED BY <1>1, <2>1 DEF InSendCommand
<1>2. CASE InCloseBegin \/ InStopWorker
  BY <1>2 DEF InCloseBegin, InStopWorker, InCommand
<1>3. CASE InCloseEnd BY <1>3 DEF InCloseEnd, InSetClosed
<1>4. CASE InReadCommand
  BY <1>4 DEF InReadCommand
<1>5. CASE HandleCommand
  <2>1. inState' \in {"STANDBY", "IDLE", "ACTIVE", "PAUSED", "DRAINING"}
    BY <1>5, TargetEdge DEF HandleCommand, Accepted
  <2>2. inDriver' \in {"standby", "started", "aborted", "shutdown"}
    BY <1>5 DEF HandleCommand, DriverAfter
  <2> QED BY <1>5, <2>1, <2>2 DEF HandleCommand
<1>6. CASE InDriverFails
  <2>1. inCmd # "exit"
    <3>1. Accepted BY <1>6 DEF InDriverFails
    <3> QED BY <3>1, TargetDomain DEF Accepted, InEdges
  <2> QED BY <1>6, <2>1 DEF InDriverFails
<1>7. CASE InRefuseCommand BY <1>7 DEF InRefuseCommand
<1>8. CASE InSendReply BY <1>8 DEF InSendReply, InCommand
<1>9. CASE InQueueFails BY <1>9 DEF InQueueFails
<1>10. CASE InShutdownDriver \/ InWorkerSetClosed
  BY <1>10 DEF InShutdownDriver, InWorkerSetClosed, InSetClosed
<1>11. CASE UNCHANGED inVars BY <1>11 DEF inVars
<1> QED BY <1>1, <1>2, <1>3, <1>4, <1>5, <1>6, <1>7, <1>8, <1>9, <1>10, <1>11 DEF InNext, InWorker

----------------------------------------------------------------------------
(* Every step is a step of the promised machine, or shows nothing. *)

Reply == IF inPc = "reply" THEN inStatus ELSE "none"

\* While a command is being handled it is the request of the client.
LEMMA Handling ==
  ASSUME InInv, inPc = "handle", inCmd # "exit", inPc' = "reply", UNCHANGED <<inCmd, inMq, inClient>>
  PROVE  /\ InRequest = inCmd /\ InRequest' = inCmd /\ Reply = "none" /\ Reply' = inStatus'
         /\ InPromise!Pending
<1>1. InRequest = inCmd /\ InRequest' = inCmd BY DEF InInv, OneRequest, InRequest
<1>2. Reply = "none" /\ Reply' = inStatus' BY DEF Reply
<1>3. inCmd # "none" BY DEF InInv, InTypeOK, InCommand
<1> QED BY <1>1, <1>2, <1>3 DEF InPromise!Pending, InPromise!Nothing, Reply

LEMMA Refines ==
  ASSUME InCommands \subseteq InCommand \ {"exit"}, InInv, [InNext]_inVars
  PROVE  [InPromise!Next]_(InPromise!protocolVars)
<1> USE DEF InPromise!protocolVars
<1>0. InTypeOK /\ OneRequest BY DEF InInv
<1>1. ASSUME NEW c \in InCommands, InSendCommand(c) PROVE InPromise!Issue(c)
  <2>1. c \notin {"empty", "exit"} BY DEF InCommand
  <2>2. InRequest = "none" /\ InRequest' = c /\ UNCHANGED <<inState, Reply>>
    BY <1>1, <2>1 DEF InSendCommand, InRequest, Reply
  <2> QED BY <2>2 DEF InPromise!Issue, InPromise!Nothing, Reply
<1>2. CASE InCloseBegin \/ InStopWorker \/ InReadCommand \/ InShutdownDriver
  <2>1. UNCHANGED <<inState, Reply>>
    BY <1>2 DEF InCloseBegin, InStopWorker, InReadCommand, InShutdownDriver, Reply
  <2>2. InRequest' = InRequest
    <3>1. CASE InReadCommand BY <1>0, <3>1 DEF InReadCommand, OneRequest, InRequest, InTypeOK
    <3>2. CASE InCloseBegin \/ InStopWorker \/ InShutdownDriver
      BY <3>2 DEF InCloseBegin, InStopWorker, InShutdownDriver, InRequest
    <3> QED BY <1>2, <3>1, <3>2
  <2> QED BY <2>1, <2>2 DEF Reply
<1>3. CASE InCloseEnd \/ InWorkerSetClosed
  <2>1. UNCHANGED <<inClient, inMq, inCmd>> /\ inState' = "CLOSED" /\ Reply = "none" /\ Reply' = "none"
    BY <1>3 DEF InCloseEnd, InWorkerSetClosed, InSetClosed, Reply
  <2> QED BY <2>1 DEF InPromise!Close, InPromise!Next, InPromise!Nothing, InRequest, Reply
<1>4. CASE InQueueFails
  <2>1. UNCHANGED <<inClient, inMq, inCmd>> /\ inState' = "ERROR" /\ Reply' = "none" /\ inState # "CLOSED"
    BY <1>4 DEF InQueueFails, Reply, InInv, ClosedAtTheEnd
  <2> QED BY <2>1 DEF InPromise!Break, InPromise!Next, InPromise!Nothing, InRequest, Reply
<1>5. CASE InSendReply
  <2>1. Reply # "none" /\ Reply' = "none" /\ InRequest' = "none" /\ inState' = inState
    BY <1>0, <1>5 DEF InSendReply, Reply, InRequest, InTypeOK
  <2> QED BY <2>1 DEF InPromise!Answer, InPromise!Next, InPromise!Nothing, Reply
<1>6. CASE HandleCommand
  <2>1. InRequest = inCmd /\ InRequest' = inCmd /\ Reply' = "OK" /\ InPromise!Pending
    BY <1>6, Handling DEF HandleCommand
  <2>2. <<inCmd, inState, inState'>> \in InEdges
    BY <1>0, <1>6, TargetEdge DEF HandleCommand, Accepted, InTypeOK
  <2>3. <<inCmd, inState, inState'>> \in InPromise!Possible BY <2>1, <2>2 DEF InPromise!Possible
  <2>4. \E e \in InPromise!Possible : inState' = e[3] BY <2>3
  <2> QED BY <2>1, <2>4 DEF InPromise!Perform, InPromise!Next, Reply
<1>7. CASE InDriverFails
  <2>1. inCmd # "exit"
    <3>1. Accepted BY <1>7 DEF InDriverFails
    <3> QED BY <1>0, <3>1, TargetDomain DEF Accepted, InEdges, InTypeOK
  <2>2. InRequest = inCmd /\ InRequest' = inCmd /\ Reply' \in {"OK", "BAD_VALUE"} /\ InPromise!Pending
    BY <1>7, <2>1, Handling DEF InDriverFails
  <2>3. InPromise!Possible # {} BY <1>0, <1>7, <2>2, AcceptedIsPossible DEF InDriverFails
  <2>4. inState' = "ERROR" BY <1>7 DEF InDriverFails
  <2> QED BY <2>2, <2>3, <2>4 DEF InPromise!Fail, InPromise!Next, Reply
<1>8. CASE InRefuseCommand
  <2>1. InRequest = inCmd /\ InRequest' = inCmd /\ Reply' = inStatus' /\ InPromise!Pending
    BY <1>8, Handling DEF InRefuseCommand
  <2>2. InPromise!Possible = {} BY <1>0, <1>8, <2>1, AcceptedIsPossible DEF InRefuseCommand
  <2>3. inStatus' = CASE InRequest = "getStatus" -> "OK"
                    [] InRequest = "malformed" -> "BAD_VALUE"
                    [] OTHER                 -> "INVALID_OPERATION"
    BY <1>8, <2>1 DEF InRefuseCommand
  <2>4. inState' = inState BY <1>8 DEF InRefuseCommand
  <2> QED BY <2>1, <2>2, <2>3, <2>4 DEF InPromise!Refuse, InPromise!Next, Reply
<1>9. CASE UNCHANGED inVars BY <1>9 DEF inVars, InRequest, Reply
<1> QED BY <1>1, <1>2, <1>3, <1>4, <1>5, <1>6, <1>7, <1>8, <1>9 DEF InNext, InWorker, InPromise!Next

\* The worker of an input stream performs every command as one step of the state
\* machine of an input stream and answers it once, whatever fails and whenever
\* the stream is closed (StreamInWorkerLogic::cycle, StreamCommonImpl::close).
THEOREM InputStreamKeepsPromise ==
  ASSUME InCommands \subseteq InCommand \ {"exit"} PROVE InSpec => InKeepsPromise
<1>1. InInit => InPromise!Init BY DEF InInit, InPromise!Init, InPromise!Nothing, InRequest
<1>2. InInit => InInv BY InInitially
<1>3. InInv /\ [InNext]_inVars => InInv' BY InStepKeeps
<1>4. InInv /\ [InNext]_inVars => [InPromise!Next]_(InPromise!protocolVars) BY Refines
<1> QED BY <1>1, <1>2, <1>3, <1>4, PTL DEF InSpec, InKeepsPromise, InPromise!Spec
=============================================================================
