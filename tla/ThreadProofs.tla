---------------------------- MODULE ThreadProofs ----------------------------
(* Proofs about the services whose threads wait for and join one another: the *)
(* Bluetooth HCI service, the USB gadget with its monitor, an ALSA stream     *)
(* with its I/O threads, and an effect instance with its worker; for every    *)
(* set of callers, daemons, faults, devices, configurations and sizes of      *)
(* buffers.                                                                   *)
EXTENDS EffectImpl, StreamAlsa, StreamBluetooth, UsbGadget, BluetoothHci,
        FiniteSetTheorems, TLAPS

-----------------------------------------------------------------------------
(* Bluetooth HCI (BluetoothHci.tla) *)

Opens  == {"open", "link", "watch", "complete"}
Closes == {"unwatch", "shut", "ready"}

HciTypeOK ==
  /\ hciState \in {"READY", "INITIALIZING", "ONE_CLIENT", "CLOSING"}
  /\ hciCall \in [HciCallers -> Opens \cup Closes \cup {"idle", "tell", "close"}]
  /\ mH4 \in BOOLEAN /\ watching \in BOOLEAN /\ socket \in {"open", "closed"}

\* A state that is passing belongs to one thread, which is between the steps
\* that take it there and back; a state that stays, to none.
OneOwner ==
  /\ hciState = "INITIALIZING" <=> \E c \in HciCallers : hciCall[c] \in Opens
  /\ hciState = "CLOSING" <=> \E c \in HciCallers : hciCall[c] \in Closes
  /\ \A c, d \in HciCallers :
       hciCall[c] \in Opens \cup Closes /\ hciCall[d] \in Opens \cup Closes => c = d

\* What the owner has made so far, or has not yet undone.
OwnersProgress ==
  /\ hciState = "READY" => socket = "closed" /\ ~watching /\ ~mH4
  /\ hciState = "ONE_CLIENT" => socket = "open" /\ mH4
  /\ \A c \in HciCallers :
       /\ hciCall[c] \in Opens => (socket = "open" <=> hciCall[c] # "open")
       /\ hciCall[c] \in {"open", "link", "watch"} => ~watching /\ ~mH4
       /\ hciCall[c] \in {"complete", "unwatch"} => socket = "open" /\ mH4
       /\ hciCall[c] \in {"shut", "ready"} => ~watching
       /\ hciCall[c] = "ready" => socket = "closed"

HciInv == HciTypeOK /\ OneOwner /\ OwnersProgress

LEMMA HciInitially == HciInit => HciInv
  BY HciAssumption DEF HciInit, HciInv, HciTypeOK, OneOwner, OwnersProgress, Opens, Closes

LEMMA HciStepKeeps == HciInv /\ [HciNext]_hciVars => HciInv'
  <1> SUFFICES ASSUME HciInv, [HciNext]_hciVars PROVE HciInv'
    OBVIOUS
  <1> USE DEF HciInv, HciTypeOK, OneOwner, OwnersProgress, Opens, Closes, Runs, Goes
  <1>1. ASSUME NEW c \in HciCallers, Initialize(c) PROVE HciInv'
    BY <1>1 DEF Initialize
  <1>2. ASSUME NEW c \in HciCallers, CallClose(c) PROVE HciInv'
    BY <1>2 DEF CallClose
  <1>3. ASSUME NEW c \in HciCallers, HciStep(c) PROVE HciInv'
    <2>1. CASE OpenHci(c)
      BY <2>1 DEF OpenHci
    <2>2. CASE LinkToDeath(c)
      BY <2>2 DEF LinkToDeath
    <2>3. CASE Watch(c)
      BY <2>3 DEF Watch
    <2>4. CASE Complete(c)
      BY <2>4 DEF Complete
    <2>5. CASE TellClient(c)
      BY <2>5 DEF TellClient
    <2>6. CASE CloseHci(c)
      BY <2>6 DEF CloseHci
    <2>7. CASE Unwatch(c)
      BY <2>7 DEF Unwatch
    <2>8. CASE Shut(c)
      BY <2>8 DEF Shut
    <2>9. CASE Ready(c)
      BY <2>9 DEF Ready
    <2>10. QED
      BY <1>3, <2>1, <2>2, <2>3, <2>4, <2>5, <2>6, <2>7, <2>8, <2>9 DEF HciStep
  <1>4. CASE ClientDies
    BY <1>4, HciAssumption DEF ClientDies
  <1>5. CASE Disconnected
    BY <1>5 DEF Disconnected
  <1>6. CASE UNCHANGED hciVars
    BY <1>6 DEF hciVars
  <1>7. QED
    BY <1>1, <1>2, <1>3, <1>4, <1>5, <1>6 DEF HciNext

\* "Don't close twice or open before close is complete" (BluetoothHci.h:66): a
\* service that is ready has nothing left of the client before, for any number
\* of callers.
THEOREM OneClientAlways == HciSpec => []OneClientAtATime
  <1>1. HciInv => OneClientAtATime
    <2> SUFFICES ASSUME HciInv, watching PROVE socket = "open" /\ mH4
      BY DEF HciInv, OwnersProgress, OneClientAtATime
    <2>1. CASE hciState \in {"READY", "ONE_CLIENT"}
      BY <2>1 DEF HciInv, OwnersProgress
    <2>2. CASE hciState = "INITIALIZING"
      BY <2>2 DEF HciInv, OwnersProgress, OneOwner, Opens
    <2>3. CASE hciState = "CLOSING"
      BY <2>3 DEF HciInv, OwnersProgress, OneOwner, Closes
    <2>4. QED
      BY <2>1, <2>2, <2>3 DEF HciInv, HciTypeOK
  <1>2. QED
    BY <1>1, HciInitially, HciStepKeeps, PTL DEF HciSpec
-----------------------------------------------------------------------------
(* The USB gadget and its monitor (UsbGadget.tla) *)

ConfigfsOK == configfs \in [linked : SUBSET GadgetFunctions, udc : BOOLEAN]
RequestOK  ==
  /\ mCurrentUsbFunctions \in SUBSET GadgetFunctions
  /\ request \in [step : {"idle", "pullDown", "unlink", "stop", "join", "check", "setup", "wait"},
                  todo : SUBSET GadgetFunctions, callback : BOOLEAN]
FlagsOK    == mMonitorRunning \in BOOLEAN /\ gadgetPullup \in BOOLEAN

GadgetTypeOK == ConfigfsOK /\ RequestOK /\ FlagsOK

\* A thread that does not run has nothing to report.
NothingFromBefore == ~mMonitorRunning => monitor = "none" /\ ~gadgetPullup

\* Between the removal of the old functions and the last of the new ones, the
\* gadget has the functions that have been added.
LinkedSoFar ==
  /\ request.step \in {"pullDown", "unlink", "stop", "join", "check"}
       => request.todo = mCurrentUsbFunctions
  /\ At("stop") \/ At("join") \/ At("check") => configfs.linked = {} /\ shown = {}
  /\ At("check") \/ At("setup") => ~mMonitorRunning
  /\ At("setup") => request.todo \subseteq mCurrentUsbFunctions
                    /\ configfs.linked = mCurrentUsbFunctions \ request.todo
  /\ At("wait") => configfs.linked = mCurrentUsbFunctions

\* What the monitor has pulled up is what the gadget has, as long as somebody
\* waits for it.
ReportedIsShown ==
  At("wait") /\ (monitor = "report" \/ gadgetPullup) => shown = configfs.linked

\* A client that was told SUCCESS, until the next request.
AnsweredIsLinked ==
  answer = "SUCCESS" =>
    /\ At("idle") /\ configfs.linked = mCurrentUsbFunctions /\ shown = mCurrentUsbFunctions

GadgetInv ==
  /\ GadgetTypeOK /\ NothingFromBefore /\ LinkedSoFar /\ ReportedIsShown /\ AnsweredIsLinked

LEMMA GadgetInitially == GadgetInit => GadgetInv
  <1> SUFFICES ASSUME GadgetInit PROVE GadgetInv
    OBVIOUS
  <1> USE DEF GadgetInit, MonitorFfsInit, Idle
  <1>1. configfs \in [linked : SUBSET GadgetFunctions, udc : BOOLEAN]
    OBVIOUS
  <1>2. /\ mCurrentUsbFunctions \in SUBSET GadgetFunctions
        /\ request.step = "idle" /\ request.todo \in SUBSET GadgetFunctions
    OBVIOUS
  <1>3. GadgetTypeOK
    BY <1>1, <1>2 DEF GadgetTypeOK, ConfigfsOK, RequestOK, FlagsOK
  <1>4. NothingFromBefore /\ LinkedSoFar /\ ReportedIsShown /\ AnsweredIsLinked
    BY DEF NothingFromBefore, LinkedSoFar, ReportedIsShown, AnsweredIsLinked, At
  <1>5. QED
    BY <1>3, <1>4 DEF GadgetInv

\* A pull-up shows what is linked.
LEMMA PullUpShows ==
  ASSUME GadgetTypeOK, NEW done \in BOOLEAN, PullUp(done)
  PROVE  /\ configfs' \in [linked : SUBSET GadgetFunctions, udc : BOOLEAN]
         /\ configfs'.linked = configfs.linked
         /\ shown' = IF done THEN configfs.linked ELSE shown
         /\ done => configfs.linked # {}
  BY DEF PullUp, CanBind, GadgetTypeOK, ConfigfsOK

LEMMA RequestGoes ==
  ASSUME RequestOK, UNCHANGED mCurrentUsbFunctions,
         \/ \E status : AnswerRequest(status)
         \/ \E step \in {"unlink", "stop", "join", "check", "setup", "wait"} : GoTo(step)
  PROVE  RequestOK'
  <1>1. CASE \E status : AnswerRequest(status)
    BY <1>1 DEF RequestOK, AnswerRequest, Idle
  <1>2. CASE \E step \in {"unlink", "stop", "join", "check", "setup", "wait"} : GoTo(step)
    BY <1>2 DEF RequestOK, GoTo
  <1>3. QED
    BY <1>1, <1>2

LEMMA RequestTyped == GadgetTypeOK /\ RequestStep => GadgetTypeOK'
  <1> SUFFICES ASSUME GadgetTypeOK, RequestStep PROVE GadgetTypeOK'
    OBVIOUS
  <1> USE DEF GadgetTypeOK, listVars, monitorThreadVars, monitorVars
  <1>1. RequestOK'
    <2>1. CASE \E f \in GadgetFunctions : AddFunction(f)
      <3>1. PICK f \in GadgetFunctions : AddFunction(f)
        BY <2>1
      <3>2. CASE request' = [request EXCEPT !.todo = @ \ {f}]
        BY <3>1, <3>2 DEF AddFunction, RequestOK
      <3>3. CASE AnswerRequest("ERROR")
        BY <3>1, <3>3, RequestGoes DEF AddFunction
      <3>4. QED
        BY <3>1, <3>2, <3>3 DEF AddFunction
    <2>2. CASE Unlink \/ CheckFunctions \/ MonitorFunctions
      BY <2>2, RequestGoes DEF Unlink, CheckFunctions, MonitorFunctions, StartMonitor
    <2>3. CASE PullDown \/ StopMonitor \/ JoinMonitor
      BY <2>3, RequestGoes DEF PullDown, StopMonitor, JoinMonitor
    <2>4. CASE PullUpNow \/ WaitForPullUp
      BY <2>4, RequestGoes DEF PullUpNow, WaitForPullUp
    <2>5. QED
      BY <2>1, <2>2, <2>3, <2>4 DEF RequestStep
  <1>2. ConfigfsOK'
    <2> USE DEF ConfigfsOK
    <2>1. CASE \E f \in GadgetFunctions : AddFunction(f)
      BY <2>1 DEF AddFunction
    <2>2. CASE Unlink
      <3>1. CASE configfs' = [linked |-> {}, udc |-> FALSE]
        BY <3>1
      <3>2. ASSUME NEW left \in SUBSET configfs.linked,
                   configfs' = [linked |-> left, udc |-> configfs.udc /\ left = configfs.linked]
            PROVE ConfigfsOK'
        BY <3>2
      <3>3. QED
        BY <2>2, <3>1, <3>2 DEF Unlink
    <2>3. CASE PullDown \/ StopMonitor \/ JoinMonitor \/ CheckFunctions
      BY <2>3 DEF PullDown, StopMonitor, SignalMonitor, JoinMonitor, ForgetMonitored, CheckFunctions
    <2>4. CASE PullUpNow
      BY <2>4, PullUpShows DEF PullUpNow
    <2>5. CASE MonitorFunctions \/ WaitForPullUp
      BY <2>5 DEF MonitorFunctions, StartMonitor, WaitForPullUp
    <2>6. QED
      BY <2>1, <2>2, <2>3, <2>4, <2>5 DEF RequestStep
  <1>3. FlagsOK'
    <2> USE DEF FlagsOK
    <2>1. CASE PullDown \/ Unlink \/ StopMonitor \/ JoinMonitor
      BY <2>1 DEF PullDown, Unlink, StopMonitor, SignalMonitor, JoinMonitor, ForgetMonitored
    <2>2. CASE CheckFunctions \/ (\E f \in GadgetFunctions : AddFunction(f)) \/ PullUpNow
      BY <2>2 DEF CheckFunctions, AddFunction, PullUpNow
    <2>3. CASE MonitorFunctions \/ WaitForPullUp
      BY <2>3 DEF MonitorFunctions, StartMonitor, WaitForPullUp
    <2>4. QED
      BY <2>1, <2>2, <2>3 DEF RequestStep
  <1>4. QED
    BY <1>1, <1>2, <1>3

LEMMA RequestKeeps == GadgetInv /\ RequestStep => GadgetInv'
  <1> SUFFICES ASSUME GadgetInv, RequestStep PROVE GadgetInv'
    OBVIOUS
  <1> USE DEF GadgetInv, GadgetTypeOK, ConfigfsOK, RequestOK, FlagsOK, NothingFromBefore,
              LinkedSoFar, ReportedIsShown, AnsweredIsLinked, At, GoTo, AnswerRequest, Idle, listVars, monitorThreadVars
  <1>1. CASE PullDown
    BY <1>1 DEF PullDown
  <1>2. CASE Unlink
    <2>1. NothingFromBefore' /\ AnsweredIsLinked'
      BY <1>2 DEF Unlink
    <2>2. LinkedSoFar'
      BY <1>2 DEF Unlink
    <2>3. ReportedIsShown'
      BY <1>2 DEF Unlink
    <2>4. QED
      BY <2>1, <2>2, <2>3, RequestTyped
  <1>3. CASE StopMonitor
    BY <1>3 DEF StopMonitor, SignalMonitor
  <1>4. CASE JoinMonitor
    BY <1>4 DEF JoinMonitor, ForgetMonitored
  <1>5. CASE CheckFunctions
    <2>1. NothingFromBefore' /\ AnsweredIsLinked'
      BY <1>5 DEF CheckFunctions, monitorVars
    <2>2. LinkedSoFar'
      <3>1. CASE \E status : AnswerRequest(status)
        BY <1>5, <3>1 DEF CheckFunctions, monitorVars
      <3>2. CASE GoTo("setup")
        BY <1>5, <3>2 DEF CheckFunctions, monitorVars
      <3>3. QED
        BY <1>5, <3>1, <3>2 DEF CheckFunctions
    <2>3. ReportedIsShown'
      BY <1>5 DEF CheckFunctions, monitorVars
    <2>4. QED
      BY <2>1, <2>2, <2>3, RequestTyped
  <1>6. ASSUME NEW f \in GadgetFunctions, AddFunction(f) PROVE GadgetInv'
    <2>1. NothingFromBefore' /\ AnsweredIsLinked'
      BY <1>6 DEF AddFunction, IsNext
    <2>2. LinkedSoFar'
      BY <1>6 DEF AddFunction, IsNext
    <2>3. ReportedIsShown'
      BY <1>6 DEF AddFunction, IsNext
    <2>4. QED
      BY <2>1, <2>2, <2>3, RequestTyped
  <1>7. CASE PullUpNow
    BY <1>7, PullUpShows DEF PullUpNow
  <1>8. CASE MonitorFunctions
    <2>1. NothingFromBefore' /\ AnsweredIsLinked'
      BY <1>8 DEF MonitorFunctions, StartMonitor
    <2>2. LinkedSoFar'
      BY <1>8 DEF MonitorFunctions, StartMonitor
    <2>3. ReportedIsShown'
      BY <1>8 DEF MonitorFunctions, StartMonitor
    <2>4. QED
      BY <2>1, <2>2, <2>3, RequestTyped
  <1>9. CASE WaitForPullUp
    BY <1>9 DEF WaitForPullUp, monitorVars
  <1>10. QED
    BY <1>1, <1>2, <1>3, <1>4, <1>5, <1>6, <1>7, <1>8, <1>9 DEF RequestStep

LEMMA MonitorKeeps ==
  GadgetInv /\ (MonitorStep \/ DaemonStep) /\ UNCHANGED serviceVars => GadgetInv'
  <1> SUFFICES ASSUME GadgetInv, MonitorStep \/ DaemonStep, UNCHANGED serviceVars
               PROVE GadgetInv'
    OBVIOUS
  <1> USE DEF GadgetInv, GadgetTypeOK, ConfigfsOK, RequestOK, FlagsOK, NothingFromBefore,
              LinkedSoFar, ReportedIsShown, AnsweredIsLinked, At, listVars, monitorThreadVars, serviceVars
  <1>1. CASE MonitorStarts
    BY <1>1 DEF MonitorStarts
  <1>2. CASE MonitorPullsUp
    BY <1>2, PullUpShows DEF MonitorPullsUp
  <1>3. CASE MonitorReports
    BY <1>3 DEF MonitorReports
  <1>4. CASE MonitorReads
    BY <1>4 DEF MonitorReads
  <1>5. CASE MonitorStops
    BY <1>5 DEF MonitorStops
  <1>6. CASE DaemonStep
    <2>1. ConfigfsOK' /\ FlagsOK'
      <3>1. ASSUME NEW f \in Daemons, DaemonStarts(f) PROVE ConfigfsOK' /\ FlagsOK'
        BY <3>1 DEF DaemonStarts
      <3>2. ASSUME NEW f \in Daemons, DaemonDies(f) PROVE ConfigfsOK' /\ FlagsOK'
        BY <3>2 DEF DaemonDies
      <3>3. QED
        BY <1>6, <3>1, <3>2 DEF DaemonStep
    <2>r. RequestOK'
      BY <1>6 DEF DaemonStep, DaemonStarts, DaemonDies, Noticed
    <2>2. NothingFromBefore' /\ AnsweredIsLinked'
      BY <1>6 DEF DaemonStep, DaemonStarts, DaemonDies, Noticed
    <2>3. LinkedSoFar'
      BY <1>6 DEF DaemonStep, DaemonStarts, DaemonDies, Noticed
    <2>4. ReportedIsShown'
      BY <1>6 DEF DaemonStep, DaemonStarts, DaemonDies, Noticed
    <2>5. QED
      BY <2>1, <2>r, <2>2, <2>3, <2>4
  <1>7. QED
    BY <1>1, <1>2, <1>3, <1>4, <1>5, <1>6 DEF MonitorStep

LEMMA GadgetStepKeeps == GadgetInv /\ [GadgetNext]_gadgetVars => GadgetInv'
  <1> SUFFICES ASSUME GadgetInv, [GadgetNext]_gadgetVars PROVE GadgetInv'
    OBVIOUS
  <1> USE DEF GadgetInv, GadgetTypeOK, ConfigfsOK, RequestOK, FlagsOK, NothingFromBefore,
              LinkedSoFar, ReportedIsShown, AnsweredIsLinked, At, listVars, monitorThreadVars
  <1>1. ASSUME NEW functions \in Requests, NEW callback \in BOOLEAN,
               SetCurrentUsbFunctions(functions, callback)
        PROVE GadgetInv'
    BY <1>1, GadgetAssumption DEF SetCurrentUsbFunctions
  <1>2. CASE ResetPullsDown
    BY <1>2 DEF ResetPullsDown
  <1>3. CASE ResetPullsUp
    BY <1>3, PullUpShows DEF ResetPullsUp
  <1>4. CASE UNCHANGED gadgetVars
    BY <1>4 DEF gadgetVars, monitorVars, serviceVars
  <1>5. QED
    BY <1>1, <1>2, <1>3, <1>4, RequestKeeps, MonitorKeeps DEF GadgetNext

\* A client that is told SUCCESS has its functions, and no others, on the gadget
\* when it was last pulled up (UsbGadget.cpp:236-243, MonitorFfs.cpp:226-240),
\* for every set of requests, daemons and faults.
THEOREM SuccessAlwaysMeansPulledUp == GadgetSpec => []SuccessMeansPulledUp
  <1>1. GadgetInv => SuccessMeansPulledUp
    BY DEF GadgetInv, AnsweredIsLinked, SuccessMeansPulledUp
  <1>2. QED
    BY <1>1, GadgetInitially, GadgetStepKeeps, PTL DEF GadgetSpec
-----------------------------------------------------------------------------
(* An ALSA stream (StreamAlsa.tla) *)

\* A pipe: frames in order, all of them after low and none after high.
Ordered(p, low, high) ==
  /\ p \in Seq(Nat)
  /\ \A i \in 1..Len(p) : p[i] > (IF i = 1 THEN low ELSE p[i - 1]) /\ p[i] <= high

LEMMA OrderedFill ==
  ASSUME NEW p, NEW low \in Nat, NEW high \in Nat, low <= high, Ordered(p, low, high),
         NEW b \in Seq(Nat), \A i \in 1..Len(b) : b[i] = high + i
  PROVE  Ordered(p \o b, low, high + Len(b))
  <1> DEFINE q == p \o b
  <1>1. q \in Seq(Nat) /\ Len(q) = Len(p) + Len(b)
    BY DEF Ordered
  <1>2. \A i \in 1..Len(q) : q[i] = IF i <= Len(p) THEN p[i] ELSE b[i - Len(p)]
    BY DEF Ordered
  <1>3. ASSUME NEW i \in 1..Len(q)
        PROVE  q[i] > (IF i = 1 THEN low ELSE q[i - 1]) /\ q[i] <= high + Len(b)
    <2>1. CASE i <= Len(p)
      BY <1>1, <1>2, <2>1 DEF Ordered
    <2>2. CASE i > Len(p)
      <3>1. q[i] = high + (i - Len(p)) /\ i - Len(p) \in 1..Len(b)
        BY <1>1, <1>2, <2>2 DEF Ordered
      <3>2. CASE i = 1
        BY <3>1, <3>2, <1>1, <2>2 DEF Ordered
      <3>3. CASE i # 1 /\ i - 1 <= Len(p)
        <4>1. q[i - 1] = p[i - 1] /\ p[i - 1] <= high /\ p[i - 1] \in Nat
          BY <3>3, <1>1, <1>2 DEF Ordered
        <4>2. QED
          BY <3>1, <4>1, <3>3, <1>1, <2>2 DEF Ordered
      <3>4. CASE i # 1 /\ i - 1 > Len(p)
        <4>1. /\ i - 1 \in 1..Len(q) /\ ~(i - 1 <= Len(p))
              /\ (i - 1) - Len(p) \in 1..Len(b) /\ Len(p) \in Nat
          BY <3>4, <1>1 DEF Ordered
        <4>2. q[i - 1] = b[(i - 1) - Len(p)]
          BY <4>1, <1>2
        <4>3. q[i - 1] = high + ((i - 1) - Len(p))
          BY <4>1, <4>2
        <4>4. high + (i - Len(p)) > high + ((i - 1) - Len(p)) /\ i - Len(p) <= Len(b)
          BY <3>1, <4>1
        <4>5. high + (i - Len(p)) <= high + Len(b)
          BY <3>1, <4>1, <4>4
        <4>6. QED
          BY <3>1, <4>3, <4>4, <4>5, <3>4
      <3>5. Len(p) \in Nat /\ i \in Nat
        BY <1>1 DEF Ordered
      <3>6. i - 1 <= Len(p) \/ i - 1 > Len(p)
        BY <3>5
      <3>7. CASE i # 1
        BY <3>3, <3>4, <3>6, <3>7
      <3>8. QED
        BY <3>2, <3>7
    <2>3. i <= Len(p) \/ i > Len(p)
      BY <1>1 DEF Ordered
    <2>4. QED
      BY <2>1, <2>2, <2>3
  <1>4. Ordered(q, low, high + Len(b))
    BY <1>1, <1>3 DEF Ordered
  <1>5. QED
    BY <1>4 DEF q

LEMMA OrderedTake ==
  ASSUME NEW p, NEW low \in Nat, NEW high \in Nat, Ordered(p, low, high),
         NEW read \in 1..Len(p)
  PROVE  /\ p[read] \in Nat /\ p[read] <= high
         /\ Ordered(SubSeq(p, read + 1, Len(p)), p[read], high)
  <1> DEFINE q == SubSeq(p, read + 1, Len(p))
  <1>1. p[read] \in Nat /\ p[read] <= high
    BY DEF Ordered
  <1>2. q \in Seq(Nat) /\ Len(q) = Len(p) - read
    BY DEF Ordered
  <1>3. \A i \in 1..Len(q) : q[i] = p[read + i]
    BY DEF Ordered
  <1>4. ASSUME NEW i \in 1..Len(q)
        PROVE  q[i] > (IF i = 1 THEN p[read] ELSE q[i - 1]) /\ q[i] <= high
    <2>1. read + i \in 1..Len(p) /\ read + i # 1 /\ (read + i) - 1 = read + (i - 1)
      BY <1>2 DEF Ordered
    <2>2. p[read + i] > p[read + (i - 1)] /\ p[read + i] <= high
      BY <2>1 DEF Ordered
    <2>3. q[i] = p[read + i]
      BY <1>3
    <2>4. CASE i = 1
      <3>1. read + (i - 1) = read
        BY <2>4 DEF Ordered
      <3>2. QED
        BY <2>2, <2>3, <2>4, <3>1
    <2>5. CASE i # 1
      <3>1. i - 1 \in 1..Len(q)
        BY <2>5, <1>2
      <3>2. q[i - 1] = p[read + (i - 1)]
        BY <3>1, <1>3
      <3>3. QED
        BY <2>2, <2>3, <2>5, <3>2
    <2>6. QED
      BY <2>4, <2>5
  <1>5. Ordered(q, p[read], high)
    BY <1>1, <1>2, <1>4 DEF Ordered
  <1>6. QED
    BY <1>1, <1>5 DEF q

LEMMA PartOfBuffer ==
  ASSUME NEW s \in Seq(Nat), NEW m \in Nat, NEW n \in Nat, m + n <= Len(s)
  PROVE  /\ SubSeq(s, m + 1, m + n) \in Seq(Nat) /\ Len(SubSeq(s, m + 1, m + n)) = n
         /\ \A i \in 1..n : SubSeq(s, m + 1, m + n)[i] = s[m + i]
  <1>1. \A i \in 1..n : m + i \in 1..Len(s)
    OBVIOUS
  <1>2. SubSeq(s, m + 1, m + n) = [i \in 1..n |-> s[m + i]]
    BY <1>1
  <1>3. [i \in 1..n |-> s[m + i]] \in Seq(Nat) /\ Len([i \in 1..n |-> s[m + i]]) = n
    BY <1>1
  <1>4. QED
    BY <1>2, <1>3

\* What a write adds to the pipe follows what is in it.
LEMMA PipeTakes ==
  ASSUME NEW buffer \in Seq(Nat), Len(buffer) = BufferFrames, NEW captured \in Nat,
         \A i \in 1..BufferFrames : buffer[i] = (captured - BufferFrames) + i,
         NEW left \in 1..BufferFrames, NEW now \in 1..left, BufferFrames <= captured,
         NEW p, NEW low \in Nat, low <= captured - left, Ordered(p, low, captured - left),
         NEW begun, begun = BufferFrames - left
  PROVE  Ordered(p \o SubSeq(buffer, begun + 1, begun + now), low, captured - (left - now))
  <1>1. /\ begun \in Nat /\ now \in Nat /\ begun + now <= Len(buffer) /\ captured - left \in Nat
        /\ (captured - left) + now = captured - (left - now)
    BY AlsaAssumption
  <1>2. PICK b : b = SubSeq(buffer, begun + 1, begun + now)
    OBVIOUS
  <1>3. b \in Seq(Nat) /\ Len(b) = now /\ \A i \in 1..now : b[i] = buffer[begun + i]
    BY <1>1, <1>2, PartOfBuffer
  <1>4. \A i \in 1..now : begun + i \in 1..BufferFrames
                       /\ (captured - BufferFrames) + (begun + i) = (captured - left) + i
    BY AlsaAssumption
  <1>5. \A i \in 1..Len(b) : b[i] = (captured - left) + i
    BY <1>3, <1>4
  <1>6. Ordered(p \o b, low, (captured - left) + Len(b))
    BY <1>1, <1>3, <1>5, OrderedFill
  <1>7. QED
    BY <1>1, <1>2, <1>3, <1>6

\* Frames of the buffer of a thread that are not in the pipe yet.
Unsent(d) ==
  IF io[d].at = "push" /\ io[d].written = 0 THEN BufferFrames
  ELSE IF io[d].at = "write" THEN io[d].left ELSE 0

CaptureThread == [at : {"none", "check", "read", "push", "write", "done"},
                  buffer : Seq(Nat), written : Nat, left : Nat]

LEMMA NewCaptureThread ==
  /\ NoThread \in CaptureThread
  /\ \A step \in {"none", "check", "read", "push", "write", "done"} :
       [NoThread EXCEPT !.at = step] \in CaptureThread
  <1>1. <<>> \in Seq(Nat)
    OBVIOUS
  <1>2. QED
    BY <1>1 DEF NoThread, CaptureThread

\* The thread holds the last frames that the device captured, and what it has
\* not written of them comes after all that is in the pipe.
ThreadRight(d) ==
  /\ io[d].at = "push" => io[d].written \in {0, BufferFrames}
  /\ io[d].at = "write" => io[d].written = 0 /\ io[d].left \in 1..BufferFrames
  /\ io[d].at \in {"push", "write"} =>
       /\ Len(io[d].buffer) = BufferFrames /\ BufferFrames <= frames
       /\ \A i \in 1..BufferFrames : io[d].buffer[i] = (frames - BufferFrames) + i
  /\ taken <= frames - Unsent(d) /\ Ordered(pipes[d], taken, frames - Unsent(d))

\* A capture that runs has one device.
CaptureRuns ==
  /\ alsaWorker = "idle" /\ ~pipesShut
  /\ \A d, e \in mAlsaDeviceProxies : d = e
  /\ io \in [Devices -> CaptureThread] /\ pipes \in [Devices -> Seq(Nat)]
  /\ \A d \in Devices \ mAlsaDeviceProxies : io[d].at = "none"
  /\ \A d \in mAlsaDeviceProxies : ThreadRight(d)

CaptureInv ==
  /\ mIsInput \in BOOLEAN /\ mAlsaDeviceProxies \subseteq Devices
  /\ frames \in Nat /\ taken \in Nat /\ taken <= frames
  /\ alsaWorker = "idle" /\ ~mIoThreadIsRunning => mAlsaDeviceProxies = {}
  /\ mIsInput /\ mIoThreadIsRunning => CaptureRuns

\* A step of the thread, or of the worker with its pipe.
LEMMA ThreadSteps ==
  ASSUME CaptureInv, CaptureRuns, mIsInput, NEW d \in mAlsaDeviceProxies,
         UNCHANGED <<mIsInput, mAlsaDeviceProxies, mIoThreadIsRunning, pipesShut, alsaWorker>>,
         NEW t \in CaptureThread, Thread(d, t),
         NEW p \in Seq(Nat), pipes' = [pipes EXCEPT ![d] = p],
         frames' \in Nat, taken' \in Nat, taken' <= frames', ThreadRight(d)'
  PROVE  CaptureInv'
  <1>1. io' \in [Devices -> CaptureThread] /\ pipes' \in [Devices -> Seq(Nat)]
    BY DEF Thread, CaptureRuns
  <1>2. \A e \in Devices \ mAlsaDeviceProxies : io'[e].at = "none"
    BY DEF Thread, CaptureRuns, CaptureInv
  <1>3. \A e \in mAlsaDeviceProxies : e = d
    BY DEF CaptureRuns
  <1>4. (\A e \in mAlsaDeviceProxies : ThreadRight(e))'
    BY <1>3
  <1>5. CaptureRuns'
    BY <1>1, <1>2, <1>4 DEF CaptureRuns
  <1>6. QED
    BY <1>5 DEF CaptureInv

LEMMA CaptureInitially == AlsaInit => CaptureInv
  BY DEF AlsaInit, CaptureInv

LEMMA CaptureStepKeeps == CaptureInv /\ [AlsaNext]_alsaVars => CaptureInv'
  <1> SUFFICES ASSUME CaptureInv, [AlsaNext]_alsaVars PROVE CaptureInv'
    OBVIOUS
  <1>1. CASE AlsaStart
    <2>1. PICK devices \in SUBSET Devices \ {{}} :
            /\ mIsInput => Cardinality(devices) = 1
            /\ mAlsaDeviceProxies' = devices
            /\ io' = [d \in Devices |-> IF d \in devices THEN [NoThread EXCEPT !.at = "check"]
                                        ELSE NoThread]
      BY <1>1 DEF AlsaStart
    <2>2. mIsInput => \A d, e \in devices : d = e
      <3>1. IsFiniteSet(devices)
        BY AlsaAssumption, FS_Subset
      <3>2. QED
        BY <2>1, <3>1, FS_Singleton
    <2>3. \A d \in Devices : Unsent(d)' = 0 /\ io'[d].at \in {"none", "check"}
      BY <2>1 DEF Unsent, NoThread
    <2>4. /\ io' \in [Devices -> CaptureThread]
          /\ \A d \in Devices \ devices : io'[d].at = "none"
      <3>1. io' \in [Devices -> CaptureThread]
        BY <2>1, NewCaptureThread
      <3>2. QED
        BY <2>1, <3>1 DEF NoThread
    <2>5. pipes' \in [Devices -> Seq(Nat)] /\ \A d \in devices : Ordered(pipes'[d], taken, frames)
      BY <1>1, <2>1 DEF AlsaStart, NoFrames, Ordered
    <2>6. QED
      BY <1>1, <2>1, <2>2, <2>3, <2>4, <2>5 DEF AlsaStart, CaptureInv, CaptureRuns, ThreadRight
  <1>2. CASE TransferOut
    BY <1>2, AlsaAssumption DEF TransferOut, CaptureInv
  <1>3. CASE TransferIn
    <2>1. CASE ~mIoThreadIsRunning
      BY <1>3, <2>1 DEF TransferIn, CaptureInv
    <2>2. CASE mIoThreadIsRunning
      <3>1. CaptureRuns /\ mIsInput
        BY <1>3, <2>2 DEF TransferIn, CaptureInv
      <3>2. PICK d \in mAlsaDeviceProxies, n \in 1..BufferFrames :
              /\ pipes[d] # <<>>
              /\ taken' = pipes[d][TheSmaller(n, Len(pipes[d]))]
              /\ pipes' = [pipes EXCEPT ![d] =
                             SubSeq(@, TheSmaller(n, Len(pipes[d])) + 1, Len(@))]
        BY <1>3 DEF TransferIn
      <3>3. TheSmaller(n, Len(pipes[d])) \in 1..Len(pipes[d])
        BY <3>1, <3>2, AlsaAssumption DEF CaptureRuns, CaptureInv, TheSmaller
      <3>4. ThreadRight(d) /\ Unsent(d) \in 0..BufferFrames /\ frames - Unsent(d) \in Nat
        BY <3>1, AlsaAssumption DEF CaptureRuns, CaptureInv, ThreadRight, Unsent
      <3>5. /\ taken' \in Nat /\ taken' <= frames - Unsent(d)
            /\ Ordered(pipes'[d], taken', frames - Unsent(d)) /\ pipes'[d] \in Seq(Nat)
        <4> DEFINE read == TheSmaller(n, Len(pipes[d]))
        <4>1. pipes'[d] = SubSeq(pipes[d], read + 1, Len(pipes[d]))
          BY <3>1, <3>2 DEF CaptureRuns, CaptureInv
        <4>2. Ordered(pipes[d], taken, frames - Unsent(d)) /\ taken \in Nat
          BY <3>4 DEF ThreadRight, CaptureInv
        <4>3. /\ pipes[d][read] \in Nat /\ pipes[d][read] <= frames - Unsent(d)
              /\ Ordered(SubSeq(pipes[d], read + 1, Len(pipes[d])), pipes[d][read],
                         frames - Unsent(d))
          BY <3>3, <3>4, <4>2, OrderedTake
        <4>4. QED
          BY <3>2, <4>1, <4>3 DEF Ordered
      <3>6. /\ Unsent(d)' = Unsent(d) /\ frames' = frames /\ io' = io
            /\ UNCHANGED <<mIsInput, mAlsaDeviceProxies, mIoThreadIsRunning, pipesShut, alsaWorker>>
        BY <1>3 DEF TransferIn, Unsent
      <3>7. taken' <= frames
        BY <3>4, <3>5, AlsaAssumption DEF CaptureInv
      <3>8. ThreadRight(d)'
        BY <3>4, <3>5, <3>6 DEF ThreadRight
      <3>9. Thread(d, io[d]) /\ io[d] \in CaptureThread
        BY <3>1, <3>6 DEF Thread, CaptureRuns, CaptureInv
      <3>10. pipes' = [pipes EXCEPT ![d] = pipes'[d]]
        BY <3>1, <3>2 DEF CaptureRuns, CaptureInv
      <3>11. QED
        BY <3>1, <3>5, <3>6, <3>7, <3>8, <3>9, <3>10, ThreadSteps DEF CaptureInv
    <2>3. QED
      BY <2>1, <2>2
  <1>4. CASE StopThreads
    BY <1>4 DEF StopThreads, CaptureInv
  <1>5. CASE Teardown
    BY <1>5 DEF Teardown, ShutPipes, StopDevices, JoinThreads, CaptureInv, CaptureRuns
  <1>6. ASSUME NEW d \in Devices, IoThread(d) PROVE CaptureInv'
    <2> SUFFICES ASSUME mIsInput, mIoThreadIsRunning, CaptureRuns, d \in mAlsaDeviceProxies
                 PROVE  CaptureInv'
      BY <1>6, AlsaAssumption
      DEF IoThread, CheckInput, ReadDevice, Push, WritePipe, CheckOutput, WriteDevice, CaptureInv,
          CaptureRuns
    <2> DEFINE steady == UNCHANGED <<mIsInput, mAlsaDeviceProxies, mIoThreadIsRunning,
                                     pipesShut, alsaWorker>>
    <2>0. /\ io[d] \in CaptureThread /\ pipes[d] \in Seq(Nat) /\ ThreadRight(d)
          /\ Unsent(d) \in 0..BufferFrames
          /\ pipes = [pipes EXCEPT ![d] = pipes[d]]
      BY AlsaAssumption DEF CaptureRuns, ThreadRight, CaptureThread, Unsent
    <2>1. CASE CheckInput(d)
      <3>1. steady /\ frames' = frames /\ taken' = taken /\ pipes' = pipes
            /\ Thread(d, [io[d] EXCEPT !.at = "read"]) /\ io[d].at = "check"
        BY <2>1 DEF CheckInput
      <3>2. [io[d] EXCEPT !.at = "read"] \in CaptureThread
        BY <2>0 DEF CaptureThread
      <3>3. ThreadRight(d)'
        BY <2>0, <3>1 DEF ThreadRight, Unsent, Thread, CaptureRuns, CaptureThread
      <3>4. QED
        BY <2>0, <3>1, <3>2, <3>3, ThreadSteps DEF CaptureInv
    <2>2. CASE ReadDevice(d)
      <3> DEFINE full == Frames(frames + 1, frames + BufferFrames)
      <3>1. full \in Seq(Nat) /\ Len(full) = BufferFrames
            /\ \A i \in 1..BufferFrames : full[i] = frames + i
        BY AlsaAssumption DEF Frames, CaptureInv
      <3> HIDE DEF full
      <3>2. steady /\ taken' = taken /\ pipes' = pipes /\ io[d].at = "read"
        BY <2>2 DEF ReadDevice
      <3>3. CASE frames' = frames + BufferFrames
                 /\ Thread(d, [NoThread EXCEPT !.at = "push", !.buffer = full])
        <4>1. [NoThread EXCEPT !.at = "push", !.buffer = full] \in CaptureThread
          BY <3>1 DEF NoThread, CaptureThread
        <4>2. io'[d] = [NoThread EXCEPT !.at = "push", !.buffer = full] /\ Unsent(d)' = BufferFrames
          BY <3>3 DEF Thread, CaptureRuns, Unsent, NoThread
        <4>3. frames' \in Nat /\ taken' <= frames' /\ frames' - BufferFrames = frames
          BY <3>2, <3>3, AlsaAssumption DEF CaptureInv
        <4>4. ThreadRight(d)'
          BY <2>0, <3>1, <3>2, <3>3, <4>2, <4>3, AlsaAssumption
          DEF ThreadRight, NoThread, CaptureInv, Unsent
        <4>5. QED
          BY <2>0, <3>2, <3>3, <4>1, <4>3, <4>4, ThreadSteps DEF CaptureInv
      <3>4. CASE Thread(d, [NoThread EXCEPT !.at = "check"]) /\ UNCHANGED frames
        <4>1. io'[d] = [NoThread EXCEPT !.at = "check"] /\ Unsent(d)' = 0
          BY <3>4 DEF Thread, CaptureRuns, Unsent, NoThread
        <4>2. ThreadRight(d)'
          BY <2>0, <3>2, <3>4, <4>1 DEF ThreadRight, NoThread, Unsent
        <4>3. QED
          BY <2>0, <3>2, <3>4, <4>2, NewCaptureThread, ThreadSteps DEF CaptureInv
      <3>5. QED
        BY <2>2, <3>3, <3>4 DEF ReadDevice, full
    <2>3. CASE Push(d)
      <3>1. steady /\ taken' = taken /\ pipes' = pipes /\ frames' = frames /\ io[d].at = "push"
        BY <2>3 DEF Push
      <3>2. CASE io[d].written = BufferFrames
        <4>1. Thread(d, [NoThread EXCEPT !.at = "check"])
          BY <2>3, <3>2 DEF Push
        <4>2. io'[d] = [NoThread EXCEPT !.at = "check"] /\ Unsent(d)' = 0 /\ Unsent(d) = 0
          BY <3>1, <3>2, <4>1, AlsaAssumption DEF Thread, CaptureRuns, Unsent, NoThread
        <4>3. ThreadRight(d)'
          BY <2>0, <3>1, <4>2 DEF ThreadRight, NoThread
        <4>4. QED
          BY <2>0, <3>1, <4>1, <4>3, NewCaptureThread, ThreadSteps DEF CaptureInv
      <3>3. CASE io[d].written = 0
        <4> DEFINE begins == [io[d] EXCEPT !.at = "write", !.left = BufferFrames]
        <4>1. Thread(d, begins)
          <5>1. BufferFrames - io[d].written = BufferFrames /\ io[d].written # BufferFrames
            BY <3>3, AlsaAssumption
          <5>2. QED
            BY <2>3, <5>1 DEF Push
        <4>2. io'[d] = begins /\ begins \in CaptureThread
          BY <2>0, <4>1, AlsaAssumption DEF Thread, CaptureRuns, CaptureThread
        <4>3. Unsent(d)' = BufferFrames /\ Unsent(d) = BufferFrames
          BY <2>0, <3>1, <3>3, <4>2 DEF Unsent, CaptureThread
        <4>4. ThreadRight(d)'
          BY <2>0, <3>1, <3>3, <4>2, <4>3, AlsaAssumption DEF ThreadRight, CaptureThread
        <4>5. QED
          BY <2>0, <3>1, <4>1, <4>2, <4>4, ThreadSteps DEF CaptureInv
      <3>4. QED
        BY <2>0, <3>1, <3>2, <3>3 DEF ThreadRight
    <2>4. CASE WritePipe(d)
      <3>1. steady /\ taken' = taken /\ frames' = frames /\ io[d].at = "write"
        BY <2>4 DEF WritePipe
      <3>2. /\ io[d].left \in 1..BufferFrames /\ io[d].written = 0
            /\ BufferFrames - io[d].written - io[d].left = BufferFrames - io[d].left
            /\ Room(d) \in Int
        BY <2>0, <3>1, AlsaAssumption DEF ThreadRight, Room
      <3>3. PICK left, now, begun :
              /\ left = io[d].left /\ now = TheSmaller(left, Room(d)) /\ now > 0
              /\ begun = BufferFrames - left
              /\ pipes' = [pipes EXCEPT ![d] =
                             pipes[d] \o SubSeq(io[d].buffer, begun + 1, begun + now)]
              /\ Thread(d, IF now < left THEN [io[d] EXCEPT !.left = left - now]
                           ELSE [io[d] EXCEPT !.at = "push", !.written = io[d].written + begun + now,
                                              !.left = 0])
        BY <2>4, <3>2 DEF WritePipe, WriteCanBlock, CaptureRuns
      <3>4. left \in 1..BufferFrames /\ now \in 1..left /\ Unsent(d) = left
        BY <3>1, <3>2, <3>3, AlsaAssumption DEF TheSmaller, Unsent
      <3>5. /\ BufferFrames <= frames /\ Len(io[d].buffer) = BufferFrames
            /\ \A i \in 1..BufferFrames : io[d].buffer[i] = (frames - BufferFrames) + i
            /\ io[d].buffer \in Seq(Nat)
            /\ taken <= frames - left /\ Ordered(pipes[d], taken, frames - left)
        BY <2>0, <3>1, <3>4 DEF ThreadRight, CaptureThread
      <3>6. /\ pipes'[d] = pipes[d] \o SubSeq(io[d].buffer, begun + 1, begun + now)
            /\ Ordered(pipes'[d], taken, frames - (left - now)) /\ pipes'[d] \in Seq(Nat)
        <4>1. pipes'[d] = pipes[d] \o SubSeq(io[d].buffer, begun + 1, begun + now)
          BY <3>3 DEF CaptureRuns, CaptureInv
        <4>2. Ordered(pipes[d] \o SubSeq(io[d].buffer, begun + 1, begun + now),
                      taken, frames - (left - now))
          <5>1. frames \in Nat /\ taken \in Nat
            BY DEF CaptureInv
          <5>2. QED
            BY <3>3, <3>4, <3>5, <5>1, PipeTakes
        <4>3. QED
          BY <4>1, <4>2 DEF Ordered
      <3>7. PICK t : Thread(d, t) /\ io'[d] = t
                     /\ t = IF now < left THEN [io[d] EXCEPT !.left = left - now]
                            ELSE [io[d] EXCEPT !.at = "push",
                                       !.written = io[d].written + begun + now, !.left = 0]
        BY <3>3 DEF Thread, CaptureRuns, CaptureInv
      <3>8. CASE now < left
        <4>1. /\ t \in CaptureThread /\ t.at = "write" /\ t.written = 0 /\ t.left = left - now
              /\ t.left \in 1..BufferFrames /\ t.buffer = io[d].buffer
          <5>1. left - now \in 1..BufferFrames
            BY <3>4, <3>8, AlsaAssumption
          <5>2. t = [io[d] EXCEPT !.left = left - now] /\ left - now \in Nat
            BY <3>7, <3>8, <5>1, AlsaAssumption
          <5>3. QED
            BY <2>0, <3>1, <3>2, <5>1, <5>2 DEF CaptureThread
        <4>2. Unsent(d)' = left - now
          BY <3>7, <4>1 DEF Unsent
        <4>3. taken <= frames - (left - now)
          BY <3>4, <3>5 DEF CaptureInv
        <4>4. ThreadRight(d)'
          BY <3>1, <3>5, <3>6, <3>7, <4>1, <4>2, <4>3 DEF ThreadRight
        <4>5. QED
          BY <2>0, <3>1, <3>3, <3>6, <3>7, <4>1, <4>4, ThreadSteps DEF CaptureInv
      <3>9. CASE now = left
        <4>1. /\ io[d].written + begun + now = BufferFrames /\ ~(now < left)
              /\ left - now = 0 /\ frames - (left - now) = frames
          BY <3>2, <3>3, <3>4, <3>9, AlsaAssumption DEF CaptureInv
        <4>2. /\ t \in CaptureThread /\ t.at = "push" /\ t.written = BufferFrames
              /\ t.buffer = io[d].buffer
          <5>1. t = [io[d] EXCEPT !.at = "push", !.written = BufferFrames, !.left = 0]
            BY <3>7, <4>1
          <5>2. QED
            BY <2>0, <5>1, AlsaAssumption DEF CaptureThread
        <4>3. Unsent(d)' = 0
          BY <3>7, <4>2, AlsaAssumption DEF Unsent
        <4>4. ThreadRight(d)'
          BY <3>1, <3>5, <3>6, <3>7, <4>1, <4>2, <4>3 DEF ThreadRight, CaptureInv
        <4>5. QED
          BY <2>0, <3>1, <3>3, <3>6, <3>7, <4>2, <4>4, ThreadSteps DEF CaptureInv
      <3>10. QED
        BY <3>4, <3>8, <3>9
    <2>5. CASE CheckOutput(d)
      BY <2>5 DEF CheckOutput, CaptureInv
    <2>6. CASE WriteDevice(d)
      BY <2>6 DEF WriteDevice, CaptureRuns, CaptureThread
    <2>7. QED
      BY <1>6, <2>1, <2>2, <2>3, <2>4, <2>5, <2>6 DEF IoThread
  <1>7. ASSUME NEW d \in Devices, Plays(d) PROVE CaptureInv'
    BY <1>7 DEF Plays, CaptureInv, CaptureRuns, ThreadRight, Unsent
  <1>8. CASE UNCHANGED alsaVars
    BY <1>8 DEF alsaVars, CaptureInv, CaptureRuns, ThreadRight, Unsent
  <1>9. QED
    BY <1>1, <1>2, <1>3, <1>4, <1>5, <1>6, <1>7, <1>8 DEF AlsaNext

\* The client hears what the device captured, each frame once and in order
\* (StreamAlsa.cpp:255), for every size of buffer and every number of frames.
THEOREM CaptureAlwaysInOrder == AlsaSpec => []CaptureInOrder
  <1>1. CaptureInv => CaptureInOrder
    <2> SUFFICES ASSUME CaptureInv, mIsInput, mIoThreadIsRunning,
                        NEW d \in mAlsaDeviceProxies, NEW i \in DOMAIN pipes[d]
                 PROVE  pipes[d][i] > (IF i = 1 THEN taken ELSE pipes[d][i - 1])
      BY DEF CaptureInOrder
    <2>1. Ordered(pipes[d], taken, frames - Unsent(d))
      BY DEF CaptureInv, CaptureRuns, ThreadRight
    <2>2. i \in 1..Len(pipes[d])
      BY <2>1 DEF Ordered
    <2>3. QED
      BY <2>1, <2>2 DEF Ordered
  <1>2. QED
    BY <1>1, CaptureInitially, CaptureStepKeeps, PTL DEF AlsaSpec

-----------------------------------------------------------------------------
(* An effect instance (EffectImpl.tla), provided that no client opens one that *)
(* is being closed.                                                            *)

InClose(t) == call[t] \in {"notify", "exit", "join", "release"}

\* What close() keeps true between its two critical sections: nobody else
\* closes or opens the instance, and the context goes after the thread.
CloseInv ==
  /\ \A t \in Callers : InClose(t) => mState = "INIT"
  /\ \A t, u \in Callers : InClose(t) /\ InClose(u) => t = u
  /\ \A t \in Callers : call[t] = "release" => worker = "none"
  /\ mState = "INIT" => worker = "none" \/ \E t \in Callers : InClose(t)
  /\ worker # "none" => attached

\* The queues a client holds are there.
HeldQueues == dupes => attached /\ HasQueues(mContext)

IInv == TypeOK /\ HeldQueues /\ ThreadFollowsState /\ CloseInv

----------------------------------------------------------------------------
(* The operations of the context. *)

\* Sizes are natural numbers.
LEMMA ProductIsNat == ASSUME NEW m \in Nat, NEW n \in Nat PROVE m * n \in Nat
OBVIOUS

\* The constructor makes a context: empty queues of the sizes asked for.
LEMMA NewContextType == \A common \in Common : NewContext(common) \in Context
<1> SUFFICES ASSUME NEW common \in Common PROVE NewContext(common) \in Context
  OBVIOUS
<1>1. common.frames \in [Side -> Nat] /\ common.size \in [Side -> Nat]
  BY DEF Common
<1>2. \A s \in Side : common.frames[s] * common.size[s] \in Nat
  BY <1>1, ProductIsNat
<1>3. \A s \in Side : EmptyQueue(common.frames[s] * common.size[s]) \in Queue
  BY <1>2 DEF EmptyQueue, Queue
<1>4. Larger(common.frames["in"] * common.size["in"],
             common.frames["out"] * common.size["out"]) \in Nat
  BY <1>2 DEF Larger, Side
<1> QED BY <1>1, <1>3, <1>4 DEF NewContext, Context

\* updateIOFrameSize and setCommon keep a context a context.
LEMMA SetCommonType ==
  \A c \in Context, common \in Common : SetCommon(c, common) \in Context
<1> SUFFICES ASSUME NEW c \in Context, NEW common \in Common
             PROVE  SetCommon(c, common) \in Context
  OBVIOUS
<1>1. common.size \in [Side -> Nat]
  BY DEF Common
<1>2. UpdateIOFrameSize(c, common) \in Context
  BY <1>1 DEF UpdateIOFrameSize, Context
<1> QED BY <1>2 DEF SetCommon, Context

\* dupeFmqWithReopen makes the missing queues and a buffer for both.
LEMMA DupeType == \A c \in Context : DupeFmqWithReopen(c) \in Context
<1> SUFFICES ASSUME NEW c \in Context PROVE DupeFmqWithReopen(c) \in Context
  OBVIOUS
<1>1. \A s \in Side : c.common.frames[s] \in Nat /\ c.frameSize[s] \in Nat
  BY DEF Context, Common
<1>2. \A s \in Side : Samples(c, s) \in Nat
  BY <1>1, ProductIsNat DEF Samples
<1>3. \A s \in Side : EmptyQueue(Samples(c, s)) \in Queue
  BY <1>2 DEF EmptyQueue, Queue
<1>4. WorkSize(c) \in Nat
  BY <1>2 DEF WorkSize, Larger, Side
<1> QED BY <1>3, <1>4 DEF DupeFmqWithReopen, Context

\* A reset leaves an empty input queue.
LEMMA ResetType == \A c \in Context : ResetBuffer(c) \in Context
<1> SUFFICES ASSUME NEW c \in Context PROVE ResetBuffer(c) \in Context
  OBVIOUS
<1>1. CASE c.queue["in"] = None
  BY <1>1 DEF ResetBuffer
<1>2. CASE c.queue["in"] # None
  <2>1. c.queue["in"] \in Queue
    BY <1>2 DEF Context, Side
  <2>2. [c.queue["in"] EXCEPT !.filled = 0] \in Queue
    BY <2>1 DEF Queue
  <2>3. [c.queue EXCEPT !["in"].filled = 0] \in [Side -> Queue \cup {None}]
    BY <2>2 DEF Context, Side
  <2> QED BY <1>2, <2>3 DEF ResetBuffer, Context
<1> QED BY <1>1, <1>2

\* Waking changes the flag alone.
LEMMA WakeType == \A c \in Context : Wake(c) \in Context
BY DEF Wake, Context

\* Moving samples keeps what a queue holds within what it can hold.
LEMMA FilledType ==
  ASSUME NEW c \in Context, NEW s \in Side, c.queue[s] # None,
         NEW n \in Nat, n <= c.queue[s].cap
  PROVE  /\ [c EXCEPT !.queue[s].filled = n] \in Context
         /\ HasQueues(c) => HasQueues([c EXCEPT !.queue[s].filled = n])
<1>1. c.queue[s] \in Queue
  BY DEF Context
<1>2. [c.queue[s] EXCEPT !.filled = n] \in Queue
  BY <1>1 DEF Queue
<1>3. [c.queue EXCEPT ![s].filled = n] \in [Side -> Queue \cup {None}]
  BY <1>2 DEF Context
<1>4. HasQueues(c) => HasQueues([c EXCEPT !.queue[s].filled = n])
  BY <1>2, NullAssumption DEF HasQueues, Context
<1> QED BY <1>3, <1>4 DEF Context

----------------------------------------------------------------------------
(* Types. *)

\* notifyEventFlag keeps the pointer to the context null or not.
LEMMA NotifiedType ==
  ASSUME NEW c \in Context \cup {None}
  PROVE  Notified(c) \in Context \cup {None} /\ (c # None => Notified(c) # None)
BY WakeType, NullAssumption DEF Notified

\* A reset of the instance keeps the types, and the pointers null or not.
LEMMA DoResetType ==
  ASSUME TypeOK, DoReset, UNCHANGED <<attached, dupes>>
  PROVE  /\ ThreadTypeOK'
         /\ mState' \in {"INIT", "IDLE", "PROCESSING"}
         /\ mContext' \in Context \cup {None}
         /\ attached' => mContext' # None
<1>1. Notified(mContext) \in Context \cup {None}
      /\ (attached => Notified(mContext) \in Context)
  BY NotifiedType DEF TypeOK
<1>2. attached => ResetBuffer(Notified(mContext)) \in Context
  BY <1>1, ResetType
<1>3. mContext' \in Context \cup {None} /\ (attached => mContext' \in Context)
  BY <1>1, <1>2 DEF DoReset, TypeOK
<1>4. ThreadTypeOK' /\ mState' \in {"INIT", "IDLE", "PROCESSING"}
  BY DEF DoReset, TypeOK, ThreadTypeOK, StopThread, threadVars
<1> QED BY <1>3, <1>4, NullAssumption

\* process() moves no more than there is, into no more room than there is.
LEMMA ProcessType ==
  ASSUME TypeOK, attached, HasQueues(mContext), NEW produced \in {0, Amount}
  PROVE  LET c == [mContext EXCEPT
                     !.queue["in"].filled = @ - Amount,
                     !.queue["out"].filled = @ + produced,
                     !.status = TRUE]
         IN  c \in Context /\ HasQueues(c)
<1> DEFINE in == mContext.queue["in"]  out == mContext.queue["out"]
<1>1. mContext \in Context
  BY DEF TypeOK
<1>2. in \in Queue /\ out \in Queue
  BY <1>1 DEF Context, HasQueues, Side
<1>3. Amount \in Nat /\ Amount <= in.filled /\ Amount <= out.cap - out.filled
  BY <1>2 DEF Amount, Smaller, Free, Queue
<1>4. [in EXCEPT !.filled = in.filled - Amount] \in Queue
  BY <1>2, <1>3 DEF Queue
<1>5. [out EXCEPT !.filled = out.filled + produced] \in Queue
  BY <1>2, <1>3 DEF Queue
<1>6. [mContext.queue EXCEPT !["in"].filled = @ - Amount,
                             !["out"].filled = @ + produced]
        \in [Side -> Queue \cup {None}]
  BY <1>1, <1>4, <1>5 DEF Context, Side
<1> DEFINE c == [mContext EXCEPT
                   !.queue["in"].filled = @ - Amount,
                   !.queue["out"].filled = @ + produced,
                   !.status = TRUE]
<1>7. c \in Context
  BY <1>1, <1>6 DEF Context
<1>8. c.queue = [mContext.queue EXCEPT !["in"].filled = @ - Amount,
                                       !["out"].filled = @ + produced]
  BY <1>1 DEF Context
<1>9. c.queue["in"] \in Queue /\ c.queue["out"] \in Queue
  BY <1>1, <1>4, <1>5, <1>8 DEF Context, Side
<1>10. HasQueues(c)
  BY <1>9, NullAssumption DEF HasQueues, Side
<1> QED BY <1>7, <1>10

\* Every step keeps the types.
LEMMA TypeStep == IInv /\ [Next]_vars => TypeOK'
<1> SUFFICES ASSUME TypeOK, HeldQueues, CloseInv, [Next]_vars PROVE TypeOK'
  BY DEF IInv
<1>1. CASE Open
  <2>1. PICK common \in Commons :
          mContext' = IF mContext = None THEN NewContext(common) ELSE mContext
    BY <1>1 DEF Open
  <2>2. NewContext(common) \in Context
    BY NewContextType, CommonsAssumption
  <2>3. mContext' \in Context
    BY <2>1, <2>2 DEF TypeOK
  <2>4. ThreadTypeOK' /\ mState' \in {"INIT", "IDLE", "PROCESSING"} /\ dupes' \in BOOLEAN
    BY <1>1 DEF Open, TypeOK, ThreadTypeOK, CreateThread, threadVars, HasQueues
  <2> QED BY <1>1, <2>3, <2>4, NullAssumption DEF Open, TypeOK
<1>2. CASE Reopen
  <2>1. mContext' \in Context
    BY <1>2, DupeType DEF Reopen, TypeOK
  <2> QED BY <1>2, <2>1, NullAssumption DEF Reopen, TypeOK, ThreadTypeOK, threadVars
<1>3. CASE SetParameter
  <2>1. mContext' \in Context
    BY <1>3, SetCommonType, CommonsAssumption DEF SetParameter, TypeOK
  <2>2. dupes' \in BOOLEAN
    BY <1>3 DEF SetParameter, TypeOK, HasQueues
  <2> QED
    BY <1>3, <2>1, <2>2, NullAssumption DEF SetParameter, TypeOK, ThreadTypeOK, threadVars
<1>4. CASE Start
  BY <1>4, NotifiedType DEF Start, StartThread, TypeOK, ThreadTypeOK
<1>5. CASE Stop
  BY <1>5, NotifiedType DEF Stop, StopThread, TypeOK, ThreadTypeOK
<1>6. CASE Reset
  <2>1. DoReset /\ UNCHANGED <<attached, call, dupes>>
    BY <1>6 DEF Reset
  <2> QED BY <2>1, DoResetType DEF TypeOK
<1>7. ASSUME NEW t \in Callers, Destroy(t) PROVE TypeOK'
  <2>1. DoReset /\ UNCHANGED <<attached, dupes>>
    BY <1>7 DEF Destroy
  <2> QED BY <1>7, <2>1, DoResetType DEF Destroy, TypeOK
<1>8. ASSUME NEW t \in Callers, Close(t) \/ GiveUp(t) \/ CloseExit(t) \/ CloseJoin(t)
      PROVE  TypeOK'
  <2>1. ThreadTypeOK' /\ mState' \in {"INIT", "IDLE", "PROCESSING"}
    BY <1>8 DEF Close, GiveUp, CloseExit, CloseJoin, TellExit, Join, TypeOK,
                ThreadTypeOK, threadVars
  <2>2. call' \in [Callers -> {"none", "destroy", "notify", "exit", "join", "release"}]
    BY <1>8 DEF Close, GiveUp, CloseExit, CloseJoin, Goto, TypeOK
  <2>3. UNCHANGED <<mContext, attached, dupes>>
    BY <1>8 DEF Close, GiveUp, CloseExit, CloseJoin
  <2> QED BY <2>1, <2>2, <2>3 DEF TypeOK
<1>9. ASSUME NEW t \in Callers, CloseNotify(t) PROVE TypeOK'
  BY <1>9, NotifiedType DEF CloseNotify, Goto, TypeOK, ThreadTypeOK, threadVars
<1>10. ASSUME NEW t \in Callers, CloseRelease(t) PROVE TypeOK'
  <2>1. mContext' \in Context \cup {None}
    BY <1>10, ResetType DEF CloseRelease, TypeOK
  <2> QED BY <1>10, <2>1 DEF CloseRelease, Goto, TypeOK, ThreadTypeOK, threadVars
<1>11. CASE WriteInput
  <2> DEFINE in == mContext.queue["in"]
  <2>1. PICK n \in 1 .. (in.cap - in.filled) :
          mContext' = Wake([mContext EXCEPT !.queue["in"].filled = @ + n])
    BY <1>11 DEF WriteInput
  <2>2. mContext \in Context /\ in \in Queue /\ in # None
    BY <1>11 DEF WriteInput, TypeOK, HeldQueues, HasQueues, Context, Side
  <2>3. in.filled + n \in Nat /\ in.filled + n <= in.cap
    BY <2>2 DEF Queue
  <2>4. [mContext EXCEPT !.queue["in"].filled = in.filled + n] \in Context
    BY <2>2, <2>3, FilledType DEF Side
  <2>5. mContext' \in Context
    BY <2>1, <2>4, WakeType
  <2> QED
    BY <1>11, <2>5, NullAssumption DEF WriteInput, TypeOK, ThreadTypeOK, threadVars
<1>12. CASE ReadOutput
  <2>1. mContext \in Context /\ mContext.queue["out"] \in Queue /\ mContext.queue["out"] # None
    BY <1>12 DEF ReadOutput, TypeOK, HeldQueues, HasQueues, Context, Side
  <2>2. mContext' \in Context
    BY <1>12, <2>1, FilledType DEF ReadOutput, Side, Queue
  <2> QED
    BY <1>12, <2>2, NullAssumption DEF ReadOutput, TypeOK, ThreadTypeOK, threadVars
<1>13. CASE ReadStatus
  <2>1. mContext' \in Context
    BY <1>13 DEF ReadStatus, TypeOK, Context
  <2> QED
    BY <1>13, <2>1, NullAssumption DEF ReadStatus, TypeOK, ThreadTypeOK, threadVars
<1>14. CASE Wait
  <2>1. mContext' \in Context
    BY <1>14 DEF Wait, TypeOK, Context
  <2> QED BY <1>14, <2>1, NullAssumption DEF Wait, TypeOK, ThreadTypeOK
<1>15. CASE WriteStatus
  <2>1. mContext' \in Context
    BY <1>15 DEF WriteStatus, CloseInv, TypeOK, Context
  <2> QED BY <1>15, <2>1, NullAssumption DEF WriteStatus, TypeOK, ThreadTypeOK
<1>16. CASE Skip
  BY <1>16 DEF Skip, TypeOK, ThreadTypeOK
<1>17. CASE TurnStep
  BY <1>17 DEF TurnStep, Turn, TypeOK, ThreadTypeOK
<1>18. CASE Process
  <2>1. attached /\ HasQueues(mContext)
    BY <1>18 DEF Process, MayProcess
  <2>2. mContext' \in Context
    BY <1>18, <2>1, ProcessType DEF Process
  <2> QED BY <1>18, <2>2, NullAssumption DEF Process, TypeOK, ThreadTypeOK
<1>19. CASE UNCHANGED vars
  BY <1>19 DEF vars, TypeOK, ThreadTypeOK
<1> QED
  BY <1>1, <1>2, <1>3, <1>4, <1>5, <1>6, <1>7, <1>8, <1>9, <1>10, <1>11, <1>12,
     <1>13, <1>14, <1>15, <1>16, <1>17, <1>18, <1>19
  DEF Next, ControlCall, ClientStep, WorkerStep, CloseStep

----------------------------------------------------------------------------
(* The queues a client holds. *)

\* Waking and resetting replace no queue.
LEMMA QueuesStay ==
  ASSUME NEW c \in Context, HasQueues(c)
  PROVE  HasQueues(Wake(c)) /\ HasQueues(ResetBuffer(c)) /\ HasQueues(ResetBuffer(Wake(c)))
<1>1. Wake(c).queue = c.queue
  BY DEF Wake, Context
<1>2. ASSUME NEW d \in Context, HasQueues(d) PROVE HasQueues(ResetBuffer(d))
  <2>1. d.queue["in"] \in Queue /\ d.queue["in"] # None
    BY <1>2 DEF Context, HasQueues, Side
  <2>2. [d.queue["in"] EXCEPT !.filled = 0] \in Queue
    BY <2>1 DEF Queue
  <2>3. ResetBuffer(d).queue = [d.queue EXCEPT !["in"] = [d.queue["in"] EXCEPT !.filled = 0]]
    BY <2>1 DEF ResetBuffer, Context
  <2> QED BY <1>2, <2>1, <2>2, <2>3, NullAssumption DEF HasQueues, Context, Side
<1>3. HasQueues(Wake(c))
  BY <1>1 DEF HasQueues
<1> QED BY <1>2, <1>3, WakeType

\* Every step keeps them while it leaves the client in possession.
LEMMA HeldStep == IInv /\ [Next]_vars => HeldQueues'
<1> SUFFICES ASSUME TypeOK, HeldQueues, CloseInv, [Next]_vars PROVE HeldQueues'
  BY DEF IInv
<1>0. dupes => mContext \in Context
  BY DEF HeldQueues, TypeOK
<1>1. CASE Open
  <2>1. dupes => mContext # None
    BY DEF HeldQueues, TypeOK
  <2>2. dupes => mContext' = mContext
    BY <1>1, <2>1 DEF Open
  <2>3. HasQueues(mContext') \in BOOLEAN
    BY DEF HasQueues
  <2> QED BY <1>1, <2>2, <2>3 DEF Open, HeldQueues, HasQueues
<1>2. CASE Reopen
  <2>1. mContext \in Context
    BY <1>2 DEF Reopen, TypeOK
  <2>2. \A sd \in Side : EmptyQueue(Samples(mContext, sd)) \in Queue
    <3>1. \A sd \in Side : mContext.common.frames[sd] \in Nat /\ mContext.frameSize[sd] \in Nat
      BY <2>1 DEF Context, Common
    <3>2. \A sd \in Side : Samples(mContext, sd) \in Nat
      BY <3>1, ProductIsNat DEF Samples
    <3> QED BY <3>2 DEF EmptyQueue, Queue
  <2>3. HasQueues(DupeFmqWithReopen(mContext))
    BY <2>1, <2>2, NullAssumption DEF DupeFmqWithReopen, HasQueues, Context
  <2> QED BY <1>2, <2>3 DEF Reopen, HeldQueues
<1>3. CASE SetParameter
  BY <1>3 DEF SetParameter, HeldQueues
<1>4. CASE Start \/ Stop
  <2>1. dupes => attached /\ HasQueues(Wake(mContext)) /\ mContext # None
    BY <1>0, QueuesStay, NullAssumption DEF HeldQueues
  <2> QED BY <1>4, <2>1 DEF Start, Stop, Notified, HeldQueues
<1>5. ASSUME DoReset, UNCHANGED <<attached, dupes>> PROVE HeldQueues'
  <2>1. dupes => /\ attached /\ mContext # None
                 /\ HasQueues(mContext) /\ HasQueues(ResetBuffer(Wake(mContext)))
    BY <1>0, QueuesStay, NullAssumption DEF HeldQueues
  <2> QED BY <1>5, <2>1 DEF DoReset, Notified, HeldQueues
<1>6. CASE Reset
  BY <1>5, <1>6 DEF Reset
<1>7. ASSUME NEW t \in Callers, Destroy(t) PROVE HeldQueues'
  BY <1>5, <1>7 DEF Destroy
<1>8. ASSUME NEW t \in Callers, Close(t) \/ GiveUp(t) \/ CloseExit(t) \/ CloseJoin(t)
      PROVE  HeldQueues'
  <2>1. UNCHANGED <<mContext, attached, dupes>>
    BY <1>8 DEF Close, GiveUp, CloseExit, CloseJoin
  <2> QED BY <2>1 DEF HeldQueues, HasQueues
<1>9. ASSUME NEW t \in Callers, CloseNotify(t) PROVE HeldQueues'
  <2>1. dupes => attached /\ HasQueues(Wake(mContext)) /\ mContext # None
    BY <1>0, QueuesStay, NullAssumption DEF HeldQueues
  <2> QED BY <1>9, <2>1 DEF CloseNotify, Notified, HeldQueues
<1>10. ASSUME NEW t \in Callers, CloseRelease(t) PROVE HeldQueues'
  BY <1>10 DEF CloseRelease, HeldQueues
<1>11. CASE WriteInput
  <2> DEFINE in == mContext.queue["in"]
  <2>1. PICK n \in 1 .. (in.cap - in.filled) :
          mContext' = Wake([mContext EXCEPT !.queue["in"].filled = @ + n])
    BY <1>11 DEF WriteInput
  <2>2. mContext \in Context /\ HasQueues(mContext) /\ in \in Queue /\ in # None
    BY <1>11 DEF WriteInput, TypeOK, HeldQueues, HasQueues, Context, Side
  <2>3. in.filled + n \in Nat /\ in.filled + n <= in.cap
    BY <2>2 DEF Queue
  <2> DEFINE d == [mContext EXCEPT !.queue["in"].filled = in.filled + n]
  <2>4. d \in Context /\ HasQueues(d)
    BY <2>2, <2>3, FilledType DEF Side
  <2>5. HasQueues(Wake(d))
    BY <2>4, QueuesStay
  <2> QED BY <1>11, <2>1, <2>5 DEF WriteInput, HeldQueues
<1>12. CASE ReadOutput
  <2>1. /\ mContext \in Context /\ HasQueues(mContext)
        /\ mContext.queue["out"] \in Queue /\ mContext.queue["out"] # None
    BY <1>12 DEF ReadOutput, TypeOK, HeldQueues, HasQueues, Context, Side
  <2>2. HasQueues(mContext')
    BY <1>12, <2>1, FilledType DEF ReadOutput, Side, Queue
  <2> QED BY <1>12, <2>2 DEF ReadOutput, HeldQueues
<1>13. CASE ReadStatus \/ Wait \/ WriteStatus
  <2>1. mContext \in Context
    BY <1>13 DEF ReadStatus, Wait, WriteStatus, CloseInv, TypeOK
  <2>2. mContext'.queue = mContext.queue /\ UNCHANGED <<attached, dupes>>
    BY <1>13, <2>1 DEF ReadStatus, Wait, WriteStatus, Context
  <2> QED BY <2>2 DEF HeldQueues, HasQueues
<1>14. CASE Skip \/ TurnStep \/ UNCHANGED vars
  <2>1. UNCHANGED <<mContext, attached, dupes>>
    BY <1>14 DEF Skip, TurnStep, vars
  <2> QED BY <2>1 DEF HeldQueues, HasQueues
<1>15. CASE Process
  <2>1. attached /\ HasQueues(mContext)
    BY <1>15 DEF Process, MayProcess
  <2>2. HasQueues(mContext')
    BY <1>15, <2>1, ProcessType DEF Process
  <2> QED BY <1>15, <2>1, <2>2 DEF Process, HeldQueues
<1> QED
  BY <1>1, <1>2, <1>3, <1>4, <1>6, <1>7, <1>8, <1>9, <1>10, <1>11, <1>12, <1>13,
     <1>14, <1>15
  DEF Next, ControlCall, ClientStep, WorkerStep, CloseStep

----------------------------------------------------------------------------
(* The thread and the state. *)

\* Every step keeps the thread in the state's company, and the context under
\* the thread, when nobody opens an instance that is being closed.
LEMMA ThreadStep ==
  ASSUME OpenDuringClose = FALSE
  PROVE  IInv /\ [Next]_vars => ThreadFollowsState' /\ CloseInv'
<1> SUFFICES ASSUME TypeOK, ThreadFollowsState, CloseInv, [Next]_vars
             PROVE  ThreadFollowsState' /\ CloseInv'
  BY DEF IInv
<1> USE DEF ThreadFollowsState, CloseInv, InClose, Running
<1>1. CASE Open
  <2>1. \A t \in Callers : ~InClose(t)
    BY <1>1 DEF Open, Closing
  <2>2. worker = "none" /\ mStop = TRUE
    BY <1>1, <2>1 DEF Open
  <2> QED BY <1>1, <2>1, <2>2 DEF Open, CreateThread, threadVars
<1>2. CASE Reopen \/ SetParameter
  BY <1>2 DEF Reopen, SetParameter, threadVars
<1>3. CASE Start
  BY <1>3 DEF Start, StartThread
<1>4. CASE Stop
  BY <1>4 DEF Stop, StopThread
<1>5. CASE Reset
  BY <1>5 DEF Reset, DoReset, StopThread, threadVars
<1>6. ASSUME NEW t \in Callers, Destroy(t) PROVE ThreadFollowsState' /\ CloseInv'
  BY <1>6 DEF Destroy, DoReset, StopThread, threadVars, TypeOK
<1>7. ASSUME NEW t \in Callers, Close(t) PROVE ThreadFollowsState' /\ CloseInv'
  BY <1>7 DEF Close, Goto, threadVars, TypeOK
<1>8. ASSUME NEW t \in Callers, GiveUp(t) PROVE ThreadFollowsState' /\ CloseInv'
  BY <1>8 DEF GiveUp, Goto, threadVars, TypeOK
<1>9. ASSUME NEW t \in Callers, CloseNotify(t) PROVE ThreadFollowsState' /\ CloseInv'
  BY <1>9 DEF CloseNotify, Goto, threadVars, TypeOK
<1>10. ASSUME NEW t \in Callers, CloseExit(t) PROVE ThreadFollowsState' /\ CloseInv'
  BY <1>10 DEF CloseExit, TellExit, Goto, TypeOK
<1>11. ASSUME NEW t \in Callers, CloseJoin(t) PROVE ThreadFollowsState' /\ CloseInv'
  BY <1>11 DEF CloseJoin, Join, Goto, TypeOK
<1>12. ASSUME NEW t \in Callers, CloseRelease(t) PROVE ThreadFollowsState' /\ CloseInv'
  BY <1>12 DEF CloseRelease, Goto, threadVars, TypeOK
<1>13. CASE ClientStep
  BY <1>13 DEF ClientStep, WriteInput, ReadOutput, ReadStatus, threadVars
<1>14. CASE TurnStep
  BY <1>14 DEF TurnStep, Turn
<1>15. CASE Wait \/ Skip \/ Process \/ WriteStatus
  BY <1>15 DEF Wait, Skip, Process, WriteStatus
<1>16. CASE UNCHANGED vars
  BY <1>16 DEF vars
<1> QED
  BY <1>1, <1>2, <1>3, <1>4, <1>5, <1>6, <1>7, <1>8, <1>9, <1>10, <1>11, <1>12,
     <1>13, <1>14, <1>15, <1>16
  DEF Next, ControlCall, WorkerStep, CloseStep

\* An instance begins in the invariant.
LEMMA InitInv == Init => IInv
<1> SUFFICES ASSUME Init PROVE IInv
  OBVIOUS
<1>1. TypeOK
  BY DEF Init, ThreadInit, TypeOK, ThreadTypeOK
<1>2. HeldQueues /\ ThreadFollowsState /\ CloseInv
  BY DEF Init, ThreadInit, HeldQueues, ThreadFollowsState, CloseInv, InClose
<1> QED BY <1>1, <1>2 DEF IInv

\* ... and stays in it.
LEMMA Invariance == ASSUME OpenDuringClose = FALSE PROVE Spec => []IInv
<1>1. IInv /\ [Next]_vars => IInv'
  BY TypeStep, HeldStep, ThreadStep DEF IInv
<1> QED BY InitInv, <1>1, PTL DEF Spec

----------------------------------------------------------------------------
(* The theorems. *)

\* Contexts stay contexts: no queue of an effect is ever filled beyond its
\* size or emptied below nothing, in whatever way process(), setCommon(),
\* reopen(), reset and the client take turns.
THEOREM EffectTypes == ASSUME OpenDuringClose = FALSE PROVE Spec => []TypeOK
<1>1. IInv => TypeOK
  BY DEF IInv
<1> QED BY Invariance, <1>1, PTL

\* The worker runs unstopped exactly while the instance is PROCESSING, and an
\* open instance has a worker.
THEOREM ThreadAlwaysFollowsState ==
  ASSUME OpenDuringClose = FALSE PROVE Spec => []ThreadFollowsState
<1>1. IInv => ThreadFollowsState
  BY DEF IInv
<1> QED BY Invariance, <1>1, PTL

\* The event flag the worker waits for, without a lock, outlives the wait.
THEOREM FlagAlwaysOutlivesWait ==
  ASSUME OpenDuringClose = FALSE PROVE Spec => []FlagOutlivesWait
<1>1. IInv => FlagOutlivesWait
  BY DEF IInv, CloseInv, FlagOutlivesWait
<1> QED BY Invariance, <1>1, PTL
-----------------------------------------------------------------------------
(* The Bluetooth stream and its port (StreamBluetooth.tla, DevicePortProxy.tla). *)
(* The inductive invariant says for each state of the port which requests the    *)
(* stack may owe and which calls back may be under way, so that the port comes   *)
(* to the state of the stack when all are delivered.                             *)

\* The stack has stopped, and says so if it had started.
StoppedOrSays ==
  IF streaming THEN news = <<>> ELSE news \in {<<"SUCCESS">>, <<"RECONFIGURATION">>}

\* Nothing moves; a suspend may be owed that finds nothing to suspend.
AtRest ==
  /\ news = <<>> /\ ~streaming
  /\ asked = <<>> \/ (at # "ask" /\ asked = <<"suspend">>)
  /\ at = "ask" => op = "suspend"

\* The port is started, or learns that it is not any more.
Moves == asked = <<>> /\ StoppedOrSays /\ at # "ask"

\* Between the state and the request; until the answer, behind that of a suspend
\* that timed out; until the call back, which a suspend of the stack may follow.
StartsUp ==
  \/ at = "ask" /\ op = "start" /\ news = <<>> /\ ~streaming /\ asked \in {<<>>, <<"suspend">>}
  \/ at # "ask" /\ news = <<>> /\ ~streaming /\ asked \in {<<"start">>, <<"suspend", "start">>}
  \/ /\ at # "ask" /\ asked = <<>>
     /\ IF streaming THEN news = <<"SUCCESS">>
        ELSE news \in {<<"FAILURE">>, <<"SUCCESS", "SUCCESS">>, <<"SUCCESS", "RECONFIGURATION">>}

\* The same of a suspend, which the stack's own may come before.
SlowsDown ==
  \/ at = "ask" /\ op = "suspend" /\ asked = <<>> /\ StoppedOrSays
  \/ at # "ask" /\ asked = <<"suspend">> /\ StoppedOrSays
  \/ /\ at # "ask" /\ asked = <<>> /\ ~streaming
     /\ news \in {<<"SUCCESS">>, <<"RECONFIGURATION">>, <<"FAILURE">>}

WhileLive ==
  /\ portState \in {"DISABLED", "STANDBY"} => AtRest
  /\ portState = "STARTED" => Moves
  /\ portState = "STARTING" => StartsUp
  /\ portState = "SUSPENDING" => SlowsDown

\* The news of the end of the session are the last ones.
AfterSession ==
  /\ asked = <<>> /\ ~streaming
  /\ IF news = <<>> THEN portState \notin {"STARTED", "SUSPENDING"}
     ELSE news[Len(news)] = "session"

\* The port belongs to a registered stream; otherwise it stays DISABLED.
PortOwned ==
  /\ inUse <=> life \in {"registering", "open"}
  /\ life # "open" => portState = "DISABLED" /\ at = "idle"
  /\ life \in {"new", "registering"} => asked = <<>>

\* What a call is about, and waits for; a suspend that succeeded lasts.
CallGoesOn ==
  /\ doing \in {"standby", "disable"} => op = "suspend"
  /\ at \in {"ask", "answer"} => waits = Over[op]
  /\ at = "result" /\ ok /\ op = "suspend" => portState \in {"STANDBY", "DISABLED"}

BtInv ==
  /\ BtStreamTypeOK /\ PortOwned /\ CallGoesOn
  /\ IF live THEN WhileLive ELSE AfterSession

\* The type invariant in two parts.
PortFields ==
  /\ inUse \in BOOLEAN /\ ok \in BOOLEAN /\ streaming \in BOOLEAN /\ live \in BOOLEAN
  /\ portState \in State
  /\ at \in {"idle", "first", "wait", "second", "ask", "answer", "result"}
  /\ op \in Op
  /\ waits \in {"STARTING", "SUSPENDING"}
  /\ life \in {"new", "registering", "open", "shutdown"}
  /\ doing \in PortCalls \cup {"none"}
  /\ doing = "none" <=> at = "idle"

PortQueues == asked \in Seq(Op) /\ news \in Seq(Status \cup {"session"})

LEMMA AppendToOne ==
  ASSUME NEW S, NEW x \in S, NEW y \in S
  PROVE  Append(<<y>>, x) = <<y, x>>
  <1>1. Append(<<y>>, x) \in Seq(S) /\ <<y, x>> \in Seq(S)
    OBVIOUS
  <1>2. Len(Append(<<y>>, x)) = 2 /\ Len(<<y, x>>) = 2
    OBVIOUS
  <1>3. Append(<<y>>, x)[1] = y /\ Append(<<y>>, x)[2] = x
    OBVIOUS
  <1>4. <<y, x>>[1] = y /\ <<y, x>>[2] = x
    OBVIOUS
  <1>5. \A s, t \in Seq(S) : Len(s) = Len(t) /\ (\A i \in 1 .. Len(s) : s[i] = t[i]) => s = t
    OBVIOUS
  <1>6. \A s, t \in Seq(S) : Len(s) = 2 /\ Len(t) = 2 /\ s[1] = t[1] /\ s[2] = t[2] => s = t
    BY <1>5
  <1>. QED
    BY <1>1, <1>2, <1>3, <1>4, <1>6

LEMMA PortTypes == BtStreamTypeOK <=> PortFields /\ PortQueues
  BY DEF BtStreamTypeOK, PortTypeOK, PortFields, PortQueues

\* The parts of the invariant and the tables of the port are expanded in every
\* step of this section.
USE DEF PortFields, PortOwned, CallGoesOn, WhileLive, AfterSession, AtRest, Moves,
        StartsUp, SlowsDown, StoppedOrSays, State, PortCalls, Over, From, To, Hoped,
        portVars, callVars, stackVars

LEMMA PortParts ==
  ASSUME PortFields', PortQueues', PortOwned', CallGoesOn',
         live' => WhileLive', ~live' => AfterSession'
  PROVE  BtInv'
  BY DEF BtInv, BtStreamTypeOK, PortTypeOK, PortFields, PortQueues

\* The calls of the binder threads and of the worker.
LEMMA BtRegisterPort ==
  ASSUME Stack = {}, BtInv, RegisterPort
  PROVE  BtInv'
  <1>0. /\ PortFields /\ PortQueues /\ PortOwned /\ CallGoesOn
        /\ (live => WhileLive) /\ (~live => AfterSession)
    BY PortTypes DEF BtInv
  <1>1. PortFields'
    BY <1>0 DEF RegisterPort, Op, Status
  <1>2. PortQueues'
    BY <1>0 DEF RegisterPort, PortQueues, Op, Status
  <1>3. PortOwned'
    BY <1>0 DEF RegisterPort
  <1>4. CallGoesOn'
    BY <1>0 DEF RegisterPort, Op
  <1>5. live' => WhileLive'
    BY <1>0 DEF RegisterPort, Op, Status
  <1>6. ~live' => AfterSession'
    BY <1>0 DEF RegisterPort, PortQueues, Op, Status
  <1>. QED
    BY <1>1, <1>2, <1>3, <1>4, <1>5, <1>6, PortParts

LEMMA BtRegistered ==
  ASSUME Stack = {}, BtInv, Registered
  PROVE  BtInv'
  <1>0. /\ PortFields /\ PortQueues /\ PortOwned /\ CallGoesOn
        /\ (live => WhileLive) /\ (~live => AfterSession)
    BY PortTypes DEF BtInv
  <1>1. PortFields'
    BY <1>0 DEF Registered, Op, Status
  <1>2. PortQueues'
    BY <1>0 DEF Registered, PortQueues, Op, Status
  <1>3. PortOwned'
    BY <1>0 DEF Registered
  <1>4. CallGoesOn'
    BY <1>0 DEF Registered, Op
  <1>5. live' => WhileLive'
    BY <1>0 DEF Registered, Op, Status
  <1>6. ~live' => AfterSession'
    BY <1>0 DEF Registered, PortQueues, Op, Status
  <1>. QED
    BY <1>1, <1>2, <1>3, <1>4, <1>5, <1>6, PortParts

LEMMA BtTransfer ==
  ASSUME Stack = {}, BtInv, Transfer
  PROVE  BtInv'
  <1>0. /\ PortFields /\ PortQueues /\ PortOwned /\ CallGoesOn
        /\ (live => WhileLive) /\ (~live => AfterSession)
    BY PortTypes DEF BtInv
  <1>1. PortFields'
    BY <1>0 DEF Transfer, Begin, Enter, Op, Status
  <1>2. PortQueues'
    BY <1>0 DEF Transfer, Begin, Enter, PortQueues, Op, Status
  <1>3. PortOwned'
    BY <1>0 DEF Transfer, Begin, Enter
  <1>4. CallGoesOn'
    BY <1>0 DEF Transfer, Begin, Enter, Op
  <1>5. live' => WhileLive'
    BY <1>0 DEF Transfer, Begin, Enter, Op, Status
  <1>6. ~live' => AfterSession'
    BY <1>0 DEF Transfer, Begin, Enter, PortQueues, Op, Status
  <1>. QED
    BY <1>1, <1>2, <1>3, <1>4, <1>5, <1>6, PortParts

LEMMA BtStartStream ==
  ASSUME Stack = {}, BtInv, StartStream
  PROVE  BtInv'
  <1>0. /\ PortFields /\ PortQueues /\ PortOwned /\ CallGoesOn
        /\ (live => WhileLive) /\ (~live => AfterSession)
    BY PortTypes DEF BtInv
  <1>1. PortFields'
    BY <1>0 DEF StartStream, Begin, Enter, Op, Status
  <1>2. PortQueues'
    BY <1>0 DEF StartStream, Begin, Enter, PortQueues, Op, Status
  <1>3. PortOwned'
    BY <1>0 DEF StartStream, Begin, Enter
  <1>4. CallGoesOn'
    BY <1>0 DEF StartStream, Begin, Enter, Op
  <1>5. live' => WhileLive'
    BY <1>0 DEF StartStream, Begin, Enter, Op, Status
  <1>6. ~live' => AfterSession'
    BY <1>0 DEF StartStream, Begin, Enter, PortQueues, Op, Status
  <1>. QED
    BY <1>1, <1>2, <1>3, <1>4, <1>5, <1>6, PortParts

LEMMA BtStandby ==
  ASSUME Stack = {}, BtInv, Standby
  PROVE  BtInv'
  <1>0. /\ PortFields /\ PortQueues /\ PortOwned /\ CallGoesOn
        /\ (live => WhileLive) /\ (~live => AfterSession)
    BY PortTypes DEF BtInv
  <1>1. PortFields'
    BY <1>0 DEF Standby, Begin, Enter, Op, Status
  <1>2. PortQueues'
    BY <1>0 DEF Standby, Begin, Enter, PortQueues, Op, Status
  <1>3. PortOwned'
    BY <1>0 DEF Standby, Begin, Enter
  <1>4. CallGoesOn'
    BY <1>0 DEF Standby, Begin, Enter, Op
  <1>5. live' => WhileLive'
    BY <1>0 DEF Standby, Begin, Enter, Op, Status
  <1>6. ~live' => AfterSession'
    BY <1>0 DEF Standby, Begin, Enter, PortQueues, Op, Status
  <1>. QED
    BY <1>1, <1>2, <1>3, <1>4, <1>5, <1>6, PortParts

LEMMA BtDisable ==
  ASSUME Stack = {}, BtInv, Disable
  PROVE  BtInv'
  <1>0. /\ PortFields /\ PortQueues /\ PortOwned /\ CallGoesOn
        /\ (live => WhileLive) /\ (~live => AfterSession)
    BY PortTypes DEF BtInv
  <1>1. PortFields'
    BY <1>0 DEF Disable, Begin, Enter, Op, Status
  <1>2. PortQueues'
    BY <1>0 DEF Disable, Begin, Enter, PortQueues, Op, Status
  <1>3. PortOwned'
    BY <1>0 DEF Disable, Begin, Enter
  <1>4. CallGoesOn'
    BY <1>0 DEF Disable, Begin, Enter, Op
  <1>5. live' => WhileLive'
    BY <1>0 DEF Disable, Begin, Enter, Op, Status
  <1>6. ~live' => AfterSession'
    BY <1>0 DEF Disable, Begin, Enter, PortQueues, Op, Status
  <1>. QED
    BY <1>1, <1>2, <1>3, <1>4, <1>5, <1>6, PortParts

LEMMA BtEnable ==
  ASSUME Stack = {}, BtInv, Enable
  PROVE  BtInv'
  <1>0. /\ PortFields /\ PortQueues /\ PortOwned /\ CallGoesOn
        /\ (live => WhileLive) /\ (~live => AfterSession)
    BY PortTypes DEF BtInv
  <1>1. PortFields'
    BY <1>0 DEF Enable, StandbyPort, Op, Status
  <1>2. PortQueues'
    BY <1>0 DEF Enable, StandbyPort, PortQueues, Op, Status
  <1>3. PortOwned'
    BY <1>0 DEF Enable, StandbyPort
  <1>4. CallGoesOn'
    BY <1>0 DEF Enable, StandbyPort, Op
  <1>5. live' => WhileLive'
    BY <1>0 DEF Enable, StandbyPort, Op, Status
  <1>6. ~live' => AfterSession'
    BY <1>0 DEF Enable, StandbyPort, PortQueues, Op, Status
  <1>. QED
    BY <1>1, <1>2, <1>3, <1>4, <1>5, <1>6, PortParts

LEMMA BtPrepareToClose ==
  ASSUME Stack = {}, BtInv, PrepareToClose
  PROVE  BtInv'
  <1>0. /\ PortFields /\ PortQueues /\ PortOwned /\ CallGoesOn
        /\ (live => WhileLive) /\ (~live => AfterSession)
    BY PortTypes DEF BtInv
  <1>1. PortFields'
    BY <1>0 DEF PrepareToClose, StopPort, Op, Status
  <1>2. PortQueues'
    <2>1. (UNCHANGED <<asked, news>>) \/ (asked' = <<>> /\ news' = <<>>)
      BY DEF PrepareToClose, StopPort
    <2>2. <<>> \in Seq(Op) /\ <<>> \in Seq(Status \cup {"session"})
      OBVIOUS
    <2>. QED
      BY <1>0, <2>1, <2>2, Zenon DEF PortQueues
  <1>3. PortOwned'
    BY <1>0 DEF PrepareToClose, StopPort
  <1>4. CallGoesOn'
    BY <1>0 DEF PrepareToClose, StopPort, Op
  <1>5. live' => WhileLive'
    BY <1>0 DEF PrepareToClose, StopPort, Op, Status
  <1>6. ~live' => AfterSession'
    BY <1>0 DEF PrepareToClose, StopPort, PortQueues, Op, Status
  <1>. QED
    BY <1>1, <1>2, <1>3, <1>4, <1>5, <1>6, PortParts

LEMMA BtShutdown ==
  ASSUME Stack = {}, BtInv, Shutdown
  PROVE  BtInv'
  <1>0. /\ PortFields /\ PortQueues /\ PortOwned /\ CallGoesOn
        /\ (live => WhileLive) /\ (~live => AfterSession)
    BY PortTypes DEF BtInv
  <1>1. PortFields'
    BY <1>0 DEF Shutdown, StopPort, Op, Status
  <1>2. PortQueues'
    <2>1. (UNCHANGED <<asked, news>>) \/ (asked' = <<>> /\ news' = <<>>)
      BY DEF Shutdown, StopPort
    <2>2. <<>> \in Seq(Op) /\ <<>> \in Seq(Status \cup {"session"})
      OBVIOUS
    <2>. QED
      BY <1>0, <2>1, <2>2, Zenon DEF PortQueues
  <1>3. PortOwned'
    BY <1>0 DEF Shutdown, StopPort
  <1>4. CallGoesOn'
    BY <1>0 DEF Shutdown, StopPort, Op
  <1>5. live' => WhileLive'
    BY <1>0 DEF Shutdown, StopPort, Op, Status
  <1>6. ~live' => AfterSession'
    BY <1>0 DEF Shutdown, StopPort, PortQueues, Op, Status
  <1>. QED
    BY <1>1, <1>2, <1>3, <1>4, <1>5, <1>6, PortParts

LEMMA BtEnd ==
  ASSUME Stack = {}, BtInv, End
  PROVE  BtInv'
  <1>0. /\ PortFields /\ PortQueues /\ PortOwned /\ CallGoesOn
        /\ (live => WhileLive) /\ (~live => AfterSession)
    BY PortTypes DEF BtInv
  <1>1. PortFields'
    BY <1>0 DEF End, SetState, Op, Status
  <1>2. PortQueues'
    BY <1>0 DEF End, SetState, PortQueues, Op, Status
  <1>3. PortOwned'
    BY <1>0 DEF End, SetState
  <1>4. CallGoesOn'
    BY <1>0 DEF End, SetState, Op
  <1>5. live' => WhileLive'
    BY <1>0 DEF End, SetState, Op, Status
  <1>6. ~live' => AfterSession'
    BY <1>0 DEF End, SetState, PortQueues, Op, Status
  <1>. QED
    BY <1>1, <1>2, <1>3, <1>4, <1>5, <1>6, PortParts

\* The steps of a call that is in the port.
LEMMA BtFirstSection ==
  ASSUME Stack = {}, BtInv, FirstSection, UNCHANGED <<life, doing>>
  PROVE  BtInv'
  <1>0. /\ PortFields /\ PortQueues /\ PortOwned /\ CallGoesOn
        /\ (live => WhileLive) /\ (~live => AfterSession)
    BY PortTypes DEF BtInv
  <1>1. PortFields'
    BY <1>0 DEF FirstSection, Return, WaitFor, GoOn, Op, Status
  <1>2. PortQueues'
    BY <1>0 DEF FirstSection, Return, WaitFor, GoOn, PortQueues, Op, Status
  <1>3. PortOwned'
    BY <1>0 DEF FirstSection, Return, WaitFor, GoOn
  <1>4. CallGoesOn'
    BY <1>0 DEF FirstSection, Return, WaitFor, GoOn, Op
  <1>5. live' => WhileLive'
    BY <1>0 DEF FirstSection, Return, WaitFor, GoOn, Op, Status
  <1>6. ~live' => AfterSession'
    BY <1>0 DEF FirstSection, Return, WaitFor, GoOn, PortQueues, Op, Status
  <1>. QED
    BY <1>1, <1>2, <1>3, <1>4, <1>5, <1>6, PortParts

LEMMA BtSecondSection ==
  ASSUME Stack = {}, BtInv, SecondSection, UNCHANGED <<life, doing>>
  PROVE  BtInv'
  <1>0. /\ PortFields /\ PortQueues /\ PortOwned /\ CallGoesOn
        /\ (live => WhileLive) /\ (~live => AfterSession)
    BY PortTypes DEF BtInv
  <1>1. PortFields'
    <2>2. UNCHANGED <<inUse, stackVars, op>>
      BY DEF SecondSection, Return, WaitFor
    <2>1. Over[op] \in {"STARTING", "SUSPENDING"}
      BY <1>0 DEF Op
    <2>3. portState' \in {portState, Over[op]}
      BY DEF SecondSection
    <2>4. at # "idle" /\ at' \in {"ask", "result"}
      BY DEF SecondSection, Return, WaitFor
    <2>5. ok' \in BOOLEAN /\ waits' \in {"STARTING", "SUSPENDING"}
      <3>1. ok' \in {ok, TRUE, FALSE} /\ waits' \in {waits, Over[op]}
        BY DEF SecondSection, Return, WaitFor
      <3>. QED
        BY <1>0, <2>1, <3>1
    <2>. QED
      BY <1>0, <2>1, <2>2, <2>3, <2>4, <2>5
  <1>2. PortQueues'
    BY <1>0 DEF SecondSection, Return, WaitFor, GoOn, PortQueues, Op, Status
  <1>3. PortOwned'
    BY <1>0 DEF SecondSection, Return, WaitFor, GoOn
  <1>4. CallGoesOn'
    BY <1>0 DEF SecondSection, Return, WaitFor, GoOn, Op
  <1>5. live' => WhileLive'
    BY <1>0 DEF SecondSection, Return, WaitFor, GoOn, Op, Status
  <1>6. ~live' => AfterSession'
    BY <1>0 DEF SecondSection, Return, WaitFor, GoOn, PortQueues, Op, Status
  <1>. QED
    BY <1>1, <1>2, <1>3, <1>4, <1>5, <1>6, PortParts

LEMMA BtAskStack ==
  ASSUME Stack = {}, BtInv, AskStack, UNCHANGED <<life, doing>>
  PROVE  BtInv'
  <1>0. /\ PortFields /\ PortQueues /\ PortOwned /\ CallGoesOn
        /\ (live => WhileLive) /\ (~live => AfterSession)
    BY PortTypes DEF BtInv
  <1>1. PortFields'
    BY <1>0 DEF AskStack, Return, GoOn, Op, Status
  <1>2. PortQueues'
    BY <1>0 DEF AskStack, Return, GoOn, PortQueues, Op, Status
  <1>3. PortOwned'
    BY <1>0 DEF AskStack, Return, GoOn
  <1>4. CallGoesOn'
    BY <1>0 DEF AskStack, Return, GoOn, Op
  <1>5. live' => WhileLive'
    <2>. SUFFICES ASSUME live'
                  PROVE  WhileLive'
      OBVIOUS
    <2>1. live /\ at = "ask" /\ at' = "answer" /\ asked' = Append(asked, op)
      BY DEF AskStack, Return, GoOn
    <2>2. UNCHANGED <<news, streaming, portState>>
      BY DEF AskStack, Return, GoOn
    <2>3. asked \in {<<>>, <<"suspend">>} /\ op \in Op
      BY <1>0, <2>1
    <2>4. Append(<<>>, op) = <<op>> /\ Append(<<"suspend">>, op) = <<"suspend", op>>
      <3>1. "suspend" \in Op
        BY DEF Op
      <3>2. Append(<<"suspend">>, op) = <<"suspend", op>>
        BY <2>3, <3>1, AppendToOne, Zenon
      <3>. QED
        BY <3>2
    <2>5. CASE portState \in {"DISABLED", "STANDBY"}
      BY <1>0, <2>1, <2>2, <2>3, <2>4, <2>5
    <2>6. CASE portState = "STARTING"
      BY <1>0, <2>1, <2>2, <2>3, <2>4, <2>6
    <2>7. CASE portState = "SUSPENDING"
      BY <1>0, <2>1, <2>2, <2>3, <2>4, <2>7
    <2>. QED
      BY <1>0, <2>1, <2>5, <2>6, <2>7
  <1>6. ~live' => AfterSession'
    BY <1>0 DEF AskStack, Return, GoOn, PortQueues, Op, Status
  <1>. QED
    BY <1>1, <1>2, <1>3, <1>4, <1>5, <1>6, PortParts

LEMMA BtCondWaitState ==
  ASSUME Stack = {}, BtInv, CondWaitState, UNCHANGED <<life, doing>>
  PROVE  BtInv'
  <1>0. /\ PortFields /\ PortQueues /\ PortOwned /\ CallGoesOn
        /\ (live => WhileLive) /\ (~live => AfterSession)
    BY PortTypes DEF BtInv
  <1>1. PortFields'
    BY <1>0 DEF CondWaitState, Return, GoOn, WaitIsOver, Op, Status
  <1>2. PortQueues'
    BY <1>0 DEF CondWaitState, Return, GoOn, WaitIsOver, PortQueues, Op, Status
  <1>3. PortOwned'
    BY <1>0 DEF CondWaitState, Return, GoOn, WaitIsOver
  <1>4. CallGoesOn'
    <2>1. CASE at = "wait" /\ portState = Hoped[waits]
      BY <1>0, <2>1 DEF CondWaitState, GoOn, Op
    <2>2. CASE ~(at = "wait" /\ portState = Hoped[waits])
      <3>1. /\ at' = "result" /\ ok' = (portState = Hoped[waits])
            /\ UNCHANGED <<op, waits, portState, doing>>
        BY <2>2 DEF CondWaitState, Return
      <3>2. ok' /\ op = "suspend" => portState = "STANDBY"
        <4>. SUFFICES ASSUME portState = Hoped[waits], op = "suspend"
                      PROVE  portState = "STANDBY"
          BY <3>1
        <4>1. at = "answer"
          BY <2>2 DEF CondWaitState
        <4>2. waits = "SUSPENDING"
          BY <1>0, <4>1
        <4>. QED
          BY <4>2
      <3>. QED
        BY <1>0, <3>1, <3>2
    <2>. QED
      BY <2>1, <2>2
  <1>5. live' => WhileLive'
    BY <1>0 DEF CondWaitState, Return, GoOn, WaitIsOver, Op, Status
  <1>6. ~live' => AfterSession'
    BY <1>0 DEF CondWaitState, Return, GoOn, WaitIsOver, PortQueues, Op, Status
  <1>. QED
    BY <1>1, <1>2, <1>3, <1>4, <1>5, <1>6, PortParts

\* The calls back.
LEMMA BtControlResultHandler ==
  ASSUME Stack = {}, BtInv, ControlResultHandler, UNCHANGED <<life, doing>>
  PROVE  BtInv'
  <1>0. /\ PortFields /\ PortQueues /\ PortOwned /\ CallGoesOn
        /\ (live => WhileLive) /\ (~live => AfterSession)
    BY PortTypes DEF BtInv
  <1>1. PortFields'
    BY <1>0 DEF ControlResultHandler, AfterResult, Op, Status
  <1>2. PortQueues'
    BY <1>0 DEF ControlResultHandler, AfterResult, PortQueues, Op, Status
  <1>3. PortOwned'
    BY <1>0 DEF ControlResultHandler, AfterResult
  <1>4. CallGoesOn'
    BY <1>0 DEF ControlResultHandler, AfterResult, Op
  <1>5. live' => WhileLive'
    <2>. SUFFICES ASSUME live'
                  PROVE  WhileLive'
      OBVIOUS
    <2>1. UNCHANGED <<at, op, asked, streaming, inUse, life, doing>> /\ live
      BY DEF ControlResultHandler
    <2>2. news # <<>> /\ news' = Tail(news) /\ portState' = AfterResult(Head(news))
      BY <1>0 DEF ControlResultHandler
    <2>3. \A x, y : /\ Tail(<<x>>) = <<>> /\ Head(<<x>>) = x
                    /\ Tail(<<x, y>>) = <<y>> /\ Head(<<x, y>>) = x
      OBVIOUS
    <2>4. CASE portState \in {"DISABLED", "STANDBY"}
      BY <1>0, <2>1, <2>2, <2>4
    <2>5. CASE portState = "STARTED"
      <3>1. Moves /\ news \in {<<"SUCCESS">>, <<"RECONFIGURATION">>}
        BY <1>0, <2>1, <2>2, <2>5
      <3>2. news' = <<>> /\ portState' = "STANDBY"
        BY <2>2, <2>3, <2>5, <3>1 DEF AfterResult
      <3>. QED
        BY <1>0, <2>1, <3>1, <3>2
    <2>6. CASE portState = "STARTING"
      <3>1. StartsUp /\ at # "ask" /\ asked = <<>>
        BY <1>0, <2>1, <2>2, <2>6
      <3>2. CASE streaming
        <4>1. news = <<"SUCCESS">>
          BY <2>2, <3>1, <3>2
        <4>2. news' = <<>> /\ portState' = "STARTED"
          BY <2>2, <2>3, <2>6, <4>1 DEF AfterResult
        <4>. QED
          BY <1>0, <2>1, <3>1, <3>2, <4>2
      <3>3. CASE news = <<"FAILURE">> /\ ~streaming
        <4>1. news' = <<>> /\ portState' = "STANDBY"
          BY <2>2, <2>3, <2>6, <3>3 DEF AfterResult
        <4>. QED
          BY <1>0, <2>1, <3>1, <3>3, <4>1
      <3>4. CASE ~streaming /\ \E x \in {"SUCCESS", "RECONFIGURATION"} : news = <<"SUCCESS", x>>
        <4>1. PICK x \in {"SUCCESS", "RECONFIGURATION"} : news = <<"SUCCESS", x>>
          BY <3>4
        <4>2. news' = <<x>> /\ portState' = "STARTED"
          BY <2>2, <2>3, <2>6, <4>1 DEF AfterResult
        <4>. QED
          BY <1>0, <2>1, <3>1, <3>4, <4>2
      <3>. QED
        BY <2>2, <3>1, <3>2, <3>3, <3>4
    <2>7. CASE portState = "SUSPENDING"
      <3>1. asked = <<>> \/ (asked = <<"suspend">> /\ at # "ask")
        BY <1>0, <2>1, <2>7
      <3>2. /\ news \in {<<"SUCCESS">>, <<"RECONFIGURATION">>, <<"FAILURE">>} /\ ~streaming
            /\ at = "ask" => op = "suspend"
        BY <1>0, <2>1, <2>2, <2>7
      <3>3. news' = <<>> /\ portState' \in {"STANDBY", "DISABLED"}
        BY <2>2, <2>3, <2>7, <3>2 DEF AfterResult
      <3>. QED
        BY <2>1, <3>1, <3>2, <3>3
    <2>. QED
      BY <1>0, <2>4, <2>5, <2>6, <2>7
  <1>6. ~live' => AfterSession'
    <2>. SUFFICES ASSUME ~live'
                  PROVE  AfterSession'
      OBVIOUS
    <2>1. /\ UNCHANGED <<asked, streaming>> /\ ~live
          /\ news # <<>> /\ news' = Tail(news) /\ Head(news) \in Status
      BY DEF ControlResultHandler
    <2>2. news[Len(news)] = "session" /\ news \in Seq(Status \cup {"session"})
      BY <1>0, <2>1 DEF PortQueues
    <2>3. Len(news) > 1
      BY <2>1, <2>2 DEF Status
    <2>4. news' # <<>> /\ news'[Len(news')] = "session"
      BY <2>1, <2>2, <2>3
    <2>. QED
      BY <1>0, <2>1, <2>4
  <1>. QED
    BY <1>1, <1>2, <1>3, <1>4, <1>5, <1>6, PortParts

LEMMA BtSessionChangedHandler ==
  ASSUME Stack = {}, BtInv, SessionChangedHandler, UNCHANGED <<life, doing>>
  PROVE  BtInv'
  <1>0. /\ PortFields /\ PortQueues /\ PortOwned /\ CallGoesOn
        /\ (live => WhileLive) /\ (~live => AfterSession)
    BY PortTypes DEF BtInv
  <1>1. PortFields'
    BY <1>0 DEF SessionChangedHandler, Op, Status
  <1>2. PortQueues'
    BY <1>0 DEF SessionChangedHandler, PortQueues, Op, Status
  <1>3. PortOwned'
    BY <1>0 DEF SessionChangedHandler
  <1>4. CallGoesOn'
    BY <1>0 DEF SessionChangedHandler, Op
  <1>5. live' => WhileLive'
    BY <1>0 DEF SessionChangedHandler, Op, Status
  <1>6. ~live' => AfterSession'
    BY <1>0 DEF SessionChangedHandler, PortQueues, Op, Status
  <1>. QED
    BY <1>1, <1>2, <1>3, <1>4, <1>5, <1>6, PortParts

\* The stack.
LEMMA BtAnswerStart ==
  ASSUME Stack = {}, BtInv, AnswerStart, UNCHANGED <<life, doing>>
  PROVE  BtInv'
  <1>0. /\ PortFields /\ PortQueues /\ PortOwned /\ CallGoesOn
        /\ (live => WhileLive) /\ (~live => AfterSession)
    BY PortTypes DEF BtInv
  <1>1. PortFields'
    BY <1>0 DEF AnswerStart, Tell, Op, Status
  <1>2. PortQueues'
    BY <1>0 DEF AnswerStart, Tell, PortQueues, Op, Status
  <1>3. PortOwned'
    BY <1>0 DEF AnswerStart, Tell
  <1>4. CallGoesOn'
    BY <1>0 DEF AnswerStart, Tell, Op
  <1>5. live' => WhileLive'
    BY <1>0 DEF AnswerStart, Tell, Op, Status
  <1>6. ~live' => AfterSession'
    BY <1>0 DEF AnswerStart, Tell, PortQueues, Op, Status
  <1>. QED
    BY <1>1, <1>2, <1>3, <1>4, <1>5, <1>6, PortParts

LEMMA BtAnswerSuspend ==
  ASSUME Stack = {}, BtInv, AnswerSuspend, UNCHANGED <<life, doing>>
  PROVE  BtInv'
  <1>0. /\ PortFields /\ PortQueues /\ PortOwned /\ CallGoesOn
        /\ (live => WhileLive) /\ (~live => AfterSession)
    BY PortTypes DEF BtInv
  <1>1. PortFields'
    BY <1>0 DEF AnswerSuspend, Tell, Op, Status
  <1>2. PortQueues'
    BY <1>0 DEF AnswerSuspend, Tell, PortQueues, Op, Status
  <1>3. PortOwned'
    BY <1>0 DEF AnswerSuspend, Tell
  <1>4. CallGoesOn'
    BY <1>0 DEF AnswerSuspend, Tell, Op
  <1>5. live' => WhileLive'
    <2>. SUFFICES ASSUME live'
                  PROVE  WhileLive'
      OBVIOUS
    <2>1. UNCHANGED <<at, op, portState, inUse>> /\ live
      BY DEF AnswerSuspend
    <2>2. asked # <<>> /\ Head(asked) = "suspend" /\ asked' = Tail(asked) /\ ~streaming'
      BY DEF AnswerSuspend
    <2>3. \A x, y : /\ Tail(<<x>>) = <<>> /\ Head(<<x>>) = x
                    /\ Tail(<<x, y>>) = <<y>> /\ Head(<<x, y>>) = x
      OBVIOUS
    <2>4. IF streaming
          THEN news' = news \/ \E x \in {"SUCCESS", "FAILURE"} : news' = Append(news, x)
          ELSE news' = news
      BY DEF AnswerSuspend, Tell
    <2>5. CASE portState \in {"DISABLED", "STANDBY"}
      BY <1>0, <2>1, <2>2, <2>3, <2>4, <2>5
    <2>6. CASE portState = "STARTING"
      <3>1. asked \in {<<"suspend">>, <<"suspend", "start">>} /\ news = <<>> /\ ~streaming
        BY <1>0, <2>1, <2>2, <2>6
      <3>2. UNCHANGED news
        BY <2>4, <3>1
      <3>3. CASE asked = <<"suspend">>
        <4>1. asked' = <<>> /\ at = "ask" /\ op = "start"
          BY <1>0, <2>1, <2>2, <2>3, <2>6, <3>3, <3>1
        <4>. QED
          BY <2>1, <2>2, <2>6, <3>1, <3>2, <4>1
      <3>4. CASE asked = <<"suspend", "start">>
        <4>1. asked' = <<"start">>
          BY <2>2, <2>3, <3>4
        <4>2. at # "ask"
          BY <1>0, <2>1, <2>6, <3>1, <3>4
        <4>. QED
          BY <2>1, <2>2, <2>6, <3>1, <3>2, <4>1, <4>2
      <3>. QED
        BY <3>1, <3>3, <3>4
    <2>7. CASE portState = "SUSPENDING"
      <3>1. at # "ask" /\ asked = <<"suspend">> /\ StoppedOrSays /\ inUse
        BY <1>0, <2>1, <2>2, <2>7
      <3>2. CASE streaming
        <4>1. news = <<>> /\ (news' = <<"SUCCESS">> \/ news' = <<"FAILURE">>)
          BY <3>1, <3>2 DEF AnswerSuspend, Tell
        <4>. QED
          BY <2>1, <2>2, <2>3, <2>7, <3>1, <4>1
      <3>3. CASE ~streaming
        BY <2>1, <2>2, <2>3, <2>4, <2>7, <3>1, <3>3
      <3>. QED
        BY <3>2, <3>3
    <2>. QED
      BY <1>0, <2>1, <2>2, <2>5, <2>6, <2>7
  <1>6. ~live' => AfterSession'
    BY <1>0 DEF AnswerSuspend, Tell, PortQueues, Op, Status
  <1>. QED
    BY <1>1, <1>2, <1>3, <1>4, <1>5, <1>6, PortParts

LEMMA BtSuspendSignal ==
  ASSUME Stack = {}, BtInv, SuspendSignal, UNCHANGED <<life, doing>>
  PROVE  BtInv'
  <1>0. /\ PortFields /\ PortQueues /\ PortOwned /\ CallGoesOn
        /\ (live => WhileLive) /\ (~live => AfterSession)
    BY PortTypes DEF BtInv
  <1>1. PortFields'
    BY <1>0 DEF SuspendSignal, Tell, Op, Status
  <1>2. PortQueues'
    BY <1>0 DEF SuspendSignal, Tell, PortQueues, Op, Status
  <1>3. PortOwned'
    BY <1>0 DEF SuspendSignal, Tell
  <1>4. CallGoesOn'
    BY <1>0 DEF SuspendSignal, Tell, Op
  <1>5. live' => WhileLive'
    <2>. SUFFICES ASSUME live'
                  PROVE  WhileLive'
      OBVIOUS
    <2>1. UNCHANGED <<at, op, portState, inUse, asked>> /\ live /\ streaming /\ ~streaming'
      BY DEF SuspendSignal
    <2>2. portState \in {"STARTED", "STARTING", "SUSPENDING"} /\ inUse
      BY <1>0, <2>1
    <2>3. \E x \in {"SUCCESS", "RECONFIGURATION"} : news' = Append(news, x)
      BY <2>2 DEF SuspendSignal, Tell
    <2>4. \A x \in Status : Append(<<>>, x) = <<x>> /\ Append(<<"SUCCESS">>, x) = <<"SUCCESS", x>>
      <3>1. \A x \in Status : Append(<<"SUCCESS">>, x) = <<"SUCCESS", x>>
        <4>1. "SUCCESS" \in Status
          BY DEF Status
        <4>. QED
          BY <4>1, AppendToOne, Zenon
      <3>. QED
        BY <3>1
    <2>5. PICK x \in Status : x # "FAILURE" /\ news' = Append(news, x)
      BY <2>3 DEF Status
    <2>6. x \in {"SUCCESS", "RECONFIGURATION"}
      BY <2>5 DEF Status
    <2>7. CASE portState = "STARTED"
      BY <1>0, <2>1, <2>5, <2>6, <2>4, <2>7
    <2>8. CASE portState = "STARTING"
      BY <1>0, <2>1, <2>5, <2>6, <2>4, <2>8
    <2>9. CASE portState = "SUSPENDING"
      BY <1>0, <2>1, <2>5, <2>6, <2>4, <2>9
    <2>. QED
      BY <2>1, <2>2, <2>7, <2>8, <2>9
  <1>6. ~live' => AfterSession'
    BY <1>0 DEF SuspendSignal, Tell, PortQueues, Op, Status
  <1>. QED
    BY <1>1, <1>2, <1>3, <1>4, <1>5, <1>6, PortParts

LEMMA BtEndSession ==
  ASSUME Stack = {}, BtInv, EndSession, UNCHANGED <<life, doing>>
  PROVE  BtInv'
  <1>0. /\ PortFields /\ PortQueues /\ PortOwned /\ CallGoesOn
        /\ (live => WhileLive) /\ (~live => AfterSession)
    BY PortTypes DEF BtInv
  <1>1. PortFields'
    BY <1>0 DEF EndSession, Tell, Op, Status
  <1>2. PortQueues'
    BY <1>0 DEF EndSession, Tell, PortQueues, Op, Status
  <1>3. PortOwned'
    BY <1>0 DEF EndSession, Tell
  <1>4. CallGoesOn'
    BY <1>0 DEF EndSession, Tell, Op
  <1>5. live' => WhileLive'
    BY <1>0 DEF EndSession, Tell, Op, Status
  <1>6. ~live' => AfterSession'
    BY <1>0 DEF EndSession, Tell, PortQueues, Op, Status
  <1>. QED
    BY <1>1, <1>2, <1>3, <1>4, <1>5, <1>6, PortParts

LEMMA BtInitially == BtStreamInit => BtInv
  <1>. SUFFICES ASSUME BtStreamInit
                PROVE  BtInv
    OBVIOUS
  <1>1. PortFields /\ PortOwned /\ CallGoesOn
    BY DEF BtStreamInit, PortInit, Op
  <1>2. PortQueues
    <2>1. <<>> \in Seq(Op) /\ <<>> \in Seq(Status \cup {"session"})
      OBVIOUS
    <2>. QED
      BY <2>1 DEF BtStreamInit, PortInit, PortQueues
  <1>3. live /\ WhileLive
    BY DEF BtStreamInit, PortInit
  <1>. QED
    BY <1>1, <1>2, <1>3, PortTypes DEF BtInv

LEMMA BtStep ==
  ASSUME Stack = {}, BtInv, [BtStreamNext]_btStreamVars
  PROVE  BtInv'
  <1>1. CASE WorkerCall
    BY <1>1, BtTransfer, BtStartStream, BtStandby, BtShutdown DEF WorkerCall
  <1>2. CASE BinderCall
    BY <1>2, BtRegisterPort, BtRegistered, BtDisable, BtEnable, BtPrepareToClose DEF BinderCall
  <1>3. CASE InCall
    BY <1>3, BtFirstSection, BtSecondSection, BtAskStack, BtCondWaitState, BtEnd
       DEF InCall, PortStep
  <1>4. CASE Deliver
    BY <1>4, BtControlResultHandler, BtSessionChangedHandler DEF Deliver, CallBack
  <1>5. CASE Answered
    BY <1>5, BtAnswerStart, BtAnswerSuspend DEF Answered, Answer
  <1>6. CASE OnItsOwn
    BY <1>6, BtSuspendSignal, BtEndSession DEF OnItsOwn
  <1>7. CASE UNCHANGED btStreamVars
    <2>1. PortFields' /\ PortQueues' /\ PortOwned' /\ CallGoesOn'
      BY <1>7, PortTypes DEF BtInv, btStreamVars, PortQueues
    <2>2. (live' => WhileLive') /\ (~live' => AfterSession')
      BY <1>7 DEF BtInv, btStreamVars
    <2>. QED
      BY <2>1, <2>2, PortParts
  <1>. QED
    BY <1>1, <1>2, <1>3, <1>4, <1>5, <1>6, <1>7 DEF BtStreamNext

\* When nobody waits for anybody, the port is STARTED if the stack moves data,
\* and only then, whatever calls of the worker and of the binder threads,
\* answers, timeouts, suspends of the stack and ends of the session met before
\* (DevicePortProxy.cpp:240-560).
THEOREM PortAlwaysFollowsStack ==
  ASSUME Stack = {} PROVE BtStreamSpec => []PortFollowsStack
  <1>1. BtInv => PortFollowsStack
    <2>. SUFFICES ASSUME BtInv, life = "open", doing = "none", asked = <<>>, news = <<>>
                  PROVE  portState = "STARTED" <=> streaming
      BY DEF PortFollowsStack
    <2>1. at # "ask" /\ portState \in State /\ streaming \in BOOLEAN
      BY PortTypes DEF BtInv
    <2>2. CASE live
      BY <2>1, <2>2 DEF BtInv
    <2>3. CASE ~live
      BY <2>1, <2>3 DEF BtInv
    <2>. QED
      BY <2>2, <2>3
  <1>. QED
    BY <1>1, BtInitially, BtStep, PTL DEF BtStreamSpec
=============================================================================
