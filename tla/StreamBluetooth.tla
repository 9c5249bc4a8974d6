-------------------------- MODULE StreamBluetooth --------------------------
(***************************************************************************)
(* A Bluetooth stream and its port: the driver calls of the worker, the    *)
(* updates that a change of the A2DP or LE settings brings on a binder     *)
(* thread, and prepareToClose().  They hold mLock from beginning to end,   *)
(* across the waits of the port.  The values that transfer() reports are   *)
(* the matter of A2dpManualSync.                                           *)
(***************************************************************************)
EXTENDS DevicePortProxy

VARIABLES
  life,     \* "new", "registering" (ModuleBluetooth makes the port), "open",
            \* "shutdown"
  doing     \* the call that holds mLock, or "none"

btStreamVars == <<portVars, life, doing>>

PortCalls == {"transfer", "start", "standby", "disable"}

BtStreamTypeOK ==
  /\ PortTypeOK
  /\ life \in {"new", "registering", "open", "shutdown"}
  /\ doing \in PortCalls \cup {"none"}
  /\ doing = "none" <=> at = "idle"

BtStreamInit == PortInit /\ life = "new" /\ doing = "none"

\* registerPort: the cookie first, the state after it, under the lock.
RegisterPort ==
  /\ life = "new" /\ live
  /\ inUse' = TRUE
  /\ life' = "registering"
  /\ UNCHANGED <<portState, callVars, stackVars, doing>>

Registered ==
  /\ life = "registering"
  /\ portState' = "STANDBY"
  /\ life' = "open"
  /\ UNCHANGED <<inUse, callVars, stackVars, doing>>

\* A call takes mLock and enters the port.
Begin(call, o) ==
  /\ life = "open" /\ doing = "none"
  /\ doing' = call
  /\ Enter(o)
  /\ UNCHANGED <<inUse, portState, stackVars, life>>

Transfer == portState # "DISABLED" /\ Begin("transfer", "start")
StartStream    == Begin("start", "start")
Standby  == Begin("standby", "suspend")    \* and pause()

\* bluetoothParametersUpdated, with the setting off ...
Disable == Begin("disable", "suspend")

\* ... or on.
Enable ==
  /\ life = "open" /\ doing = "none"
  /\ StandbyPort
  /\ UNCHANGED <<inUse, callVars, stackVars, life, doing>>

\* Mutant: the port is disabled also when it could not be suspended.
DisableAnyway ==
  /\ at = "result"
  /\ at' = "idle" /\ doing' = "none"
  /\ IF doing = "disable" THEN SetState("DISABLED") ELSE UNCHANGED portState
  /\ UNCHANGED <<inUse, op, ok, waits, stackVars, life>>

\* A call returns, and gives mLock up.
End ==
  /\ at = "result"
  /\ at' = "idle" /\ doing' = "none"
  /\ IF doing = "disable" /\ ok THEN SetState("DISABLED") ELSE UNCHANGED portState
  /\ UNCHANGED <<inUse, op, ok, waits, stackVars, life>>

PrepareToClose ==
  /\ life = "open" /\ doing = "none"
  /\ StopPort
  /\ UNCHANGED <<inUse, callVars, life, doing>>

\* shutdown(), and with it the end of the port.
Shutdown ==
  /\ life = "open" /\ doing = "none"
  /\ StopPort
  /\ inUse' = FALSE /\ life' = "shutdown"
  /\ UNCHANGED <<callVars, doing>>

WorkerCall == Transfer \/ StartStream \/ Standby \/ Shutdown
BinderCall == RegisterPort \/ Registered \/ Disable \/ Enable \/ PrepareToClose
InCall     == (PortStep /\ UNCHANGED <<life, doing>>) \/ End
Deliver    == CallBack /\ UNCHANGED <<life, doing>>
Answered   == Answer /\ UNCHANGED <<life, doing>>
OnItsOwn   == (SuspendSignal \/ EndSession) /\ UNCHANGED <<life, doing>>

BtStreamNext == WorkerCall \/ BinderCall \/ InCall \/ Deliver \/ Answered \/ OnItsOwn

BtStreamSpec == BtStreamInit /\ [][BtStreamNext]_btStreamVars

\* The thread that is in a call runs; the stack owes nothing.
BtStreamFairSpec == BtStreamSpec /\ WF_btStreamVars(InCall)

----------------------------------------------------------------------------
(* What a Bluetooth stream promises. *)

\* When nobody is waiting for anybody, the port is STARTED if the stack moves
\* data, and only then: no answer, timeout, suspend of the stack or change of
\* the settings leaves the port with a state of its own.
PortFollowsStack ==
  life = "open" /\ doing = "none" /\ asked = <<>> /\ news = <<>>
    => (portState = "STARTED" <=> streaming)

\* Every call returns and gives mLock up, also when the stack never answers
\* ("Wait until kMaxWaitingTimeMs or a state change").
CallsReturn == doing # "none" ~> doing = "none"

\* With a stack that answers, the port of a session that goes on does not stay
\* between two states: a stream that "failed to start, will retry" finds a port
\* that it can start.
LeavesTransient ==
  WF_btStreamVars(Answered) /\ WF_btStreamVars(Deliver) =>
    \A s \in {"STARTING", "SUSPENDING"} : portState = s ~> portState # s \/ ~live
=============================================================================
