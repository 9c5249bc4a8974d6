--------------------------- MODULE StreamSwitcher ---------------------------
(* src/audio/deprecated/StreamSwitcher.cpp as StreamIn- and                  *)
(* StreamOutRemoteSubmix use it: a stream that is a stub until the module    *)
(* connects a device to it, and keeps for the real stream what its client    *)
(* asks for in the meantime.  The module asks whether a stream is open       *)
(* before it calls (Stream.h:665); the client closes from another thread.    *)
EXTENDS Naturals, Sequences

CONSTANTS Effects, MaxParameters

ASSUME SwitcherAssumption == MaxParameters \in Nat

VARIABLES
  inner,             \* mStream, or NoStream
  mIsStubStream,
  mMissedParameters, mEffects, mBluetoothParametersUpdated,
  moduleCall,        \* devices that the module is about to set, or "no"
  postponed,         \* parameters that the client was told are accepted
  switcherCrashed    \* a method has been called on a null mStream

requestVars  == <<mMissedParameters, mEffects, mBluetoothParametersUpdated, postponed>>
switcherVars == <<inner, mIsStubStream, requestVars, moduleCall, switcherCrashed>>

NoStream == [kind |-> "null"]

\* An inner stream, new: what it is, the state of its worker, what it was told.
New(kind) == [kind |-> kind, closed |-> FALSE, state |-> "STANDBY", devices |-> "none",
              told |-> <<>>, effects |-> {}, bluetooth |-> FALSE]

IsOpen == inner # NoStream /\ ~inner.closed

SwitcherInit ==
  /\ inner = New("stub") /\ mIsStubStream = TRUE
  /\ mMissedParameters = <<>> /\ mEffects = {} /\ mBluetoothParametersUpdated = FALSE
  /\ moduleCall = "no" /\ postponed = <<>> /\ switcherCrashed = FALSE

\* Only one submix device will do, and once there is a real stream it stays.
SwitchCurrentStream(devices) ==
  CASE ~mIsStubStream -> "USE_CURRENT_STREAM"
    [] mIsStubStream /\ devices = "submix" -> "CREATE_NEW_STREAM"
    [] OTHER -> "UNSUPPORTED_DEVICES"

ClosesValidly == inner.state \in {"STANDBY", "ERROR"}

\* Mutant: the effects of the stub are not passed on, the parameters are.
EngagedWithoutEffects(devices) ==
  [New("real") EXCEPT !.devices = devices, !.told = mMissedParameters,
     !.bluetooth = mBluetoothParametersUpdated]

\* The real stream is told what was asked for while there was none.
Engaged(devices) ==
  [New("real") EXCEPT !.devices = devices, !.told = mMissedParameters,
     !.effects = mEffects, !.bluetooth = mBluetoothParametersUpdated]

-----------------------------------------------------------------------------
ModuleChecks(devices) ==
  /\ moduleCall = "no" /\ IsOpen /\ moduleCall' = devices
  /\ UNCHANGED <<inner, mIsStubStream, requestVars, switcherCrashed>>

\* setConnectedDevices: closing the current stream joins its worker; a stream
\* that was not idle has been closed all the same.
UseCurrentStream ==
  /\ inner # NoStream /\ inner.devices # moduleCall
  /\ SwitchCurrentStream(moduleCall) = "USE_CURRENT_STREAM"
  /\ inner' = [inner EXCEPT !.devices = moduleCall]
  /\ UNCHANGED <<mIsStubStream, requestVars, switcherCrashed>>

CreateNewStream ==
  /\ inner # NoStream /\ inner.devices # moduleCall
  /\ SwitchCurrentStream(moduleCall) = "CREATE_NEW_STREAM"
  /\ \/ inner.closed /\ UNCHANGED <<inner, mIsStubStream, requestVars>>
     \/ ~inner.closed /\ ~ClosesValidly /\ inner' = [inner EXCEPT !.closed = TRUE]
        /\ UNCHANGED <<mIsStubStream, requestVars>>
     \/ /\ ~inner.closed /\ ClosesValidly
        /\ inner' = Engaged(moduleCall) /\ mIsStubStream' = FALSE
        /\ mMissedParameters' = <<>> /\ mBluetoothParametersUpdated' = FALSE
        /\ UNCHANGED <<mEffects, postponed>>
     \/ /\ ~inner.closed /\ ClosesValidly   \* the new stream does not start
        /\ inner' = [New("stub") EXCEPT !.devices = moduleCall] /\ mIsStubStream' = FALSE
        /\ UNCHANGED requestVars
  /\ UNCHANGED switcherCrashed

NoSwitch ==
  /\ inner # NoStream
  /\ inner.devices = moduleCall \/ SwitchCurrentStream(moduleCall) = "UNSUPPORTED_DEVICES"
  /\ UNCHANGED <<inner, mIsStubStream, requestVars, switcherCrashed>>

CallOnNull ==
  /\ inner = NoStream /\ switcherCrashed' = TRUE
  /\ UNCHANGED <<inner, mIsStubStream, requestVars>>

ForwardConnectedDevices ==
  /\ moduleCall # "no" /\ moduleCall' = "no"
  /\ UseCurrentStream \/ CreateNewStream \/ NoSwitch \/ CallOnNull
-----------------------------------------------------------------------------
SetVendorParameters ==
  /\ inner # NoStream /\ Len(postponed) < MaxParameters
  /\ IF mIsStubStream
     THEN /\ mMissedParameters' = Append(mMissedParameters, Len(postponed) + 1)
          /\ postponed' = Append(postponed, Len(postponed) + 1)
     ELSE UNCHANGED <<mMissedParameters, postponed>>   \* the stream refuses them
  /\ UNCHANGED <<inner, mIsStubStream, mEffects, mBluetoothParametersUpdated, moduleCall,
                 switcherCrashed>>

\* A stream that is not the stub refuses effects, so they are not kept either.
AddEffect(e) ==
  /\ inner # NoStream /\ mIsStubStream /\ mEffects' = mEffects \cup {e}
  /\ UNCHANGED <<inner, mIsStubStream, mMissedParameters, mBluetoothParametersUpdated,
                 postponed, moduleCall, switcherCrashed>>

RemoveEffect(e) ==
  /\ inner # NoStream /\ e \in mEffects /\ mEffects' = mEffects \ {e}
  /\ inner' = IF mIsStubStream THEN inner ELSE [inner EXCEPT !.effects = @ \ {e}]
  /\ UNCHANGED <<mIsStubStream, mMissedParameters, mBluetoothParametersUpdated,
                 postponed, moduleCall, switcherCrashed>>

BluetoothParametersUpdated ==
  /\ inner # NoStream
  /\ IF mIsStubStream THEN mBluetoothParametersUpdated' = TRUE /\ UNCHANGED inner
     ELSE inner' = [inner EXCEPT !.bluetooth = TRUE] /\ UNCHANGED mBluetoothParametersUpdated
  /\ UNCHANGED <<mIsStubStream, mMissedParameters, mEffects, postponed, moduleCall,
                 switcherCrashed>>

\* The worker obeys the client, or fails.
WorkerMoves ==
  /\ IsOpen /\ \E s \in {"STANDBY", "ACTIVE", "ERROR"} : inner' = [inner EXCEPT !.state = s]
  /\ UNCHANGED <<mIsStubStream, requestVars, moduleCall, switcherCrashed>>

\* close(): an inner stream that is already closed stays, and close fails.
SwitcherClose ==
  /\ IsOpen /\ inner' = NoStream
  /\ UNCHANGED <<mIsStubStream, requestVars, moduleCall, switcherCrashed>>

SwitcherNext ==
  /\ ~switcherCrashed
  /\ \/ \E devices \in {"none", "submix", "other"} : ModuleChecks(devices)
     \/ ForwardConnectedDevices \/ SetVendorParameters \/ BluetoothParametersUpdated
     \/ \E e \in Effects : AddEffect(e) \/ RemoveEffect(e)
     \/ WorkerMoves \/ SwitcherClose

SwitcherSpec == SwitcherInit /\ [][SwitcherNext]_switcherVars
-----------------------------------------------------------------------------
(* "While the stub stream is engaged, any requests made via IStreamCommon are *)
(* postponed and only delivered on device connection change to the real       *)
(* stream" (StreamSwitcher.h:40): the real stream has been told of every      *)
(* parameter that was accepted, in order and once, and has the effects that   *)
(* are in force; and the stub has no devices (StreamSwitcher.h:191).  A switch*)
(* that is refused, or fails, delivers nothing but keeps all of it.           *)
NothingPostponedIsLost ==
  inner # NoStream =>
    /\ inner.told \o mMissedParameters = postponed
    /\ inner.kind = "real" => inner.effects = mEffects /\ mMissedParameters = <<>>
    /\ mIsStubStream => inner.kind = "stub" /\ inner.devices = "none"
=============================================================================
