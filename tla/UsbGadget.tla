----------------------------- MODULE UsbGadget -----------------------------
(* The USB gadget: the thread that pulls it up, and the service that composes *)
(* it out of functions.                                                       *)
EXTENDS Naturals, Sequences

-----------------------------------------------------------------------------
(* src/usb/MonitorFfs.cpp: the thread that pulls the USB gadget up once the   *)
(* daemons behind its functions have written their descriptors, and again     *)
(* when a daemon restarts.  Three parties share its world: the kernel, which  *)
(* keeps the gadget (configfs) and tells of changes to watched directories    *)
(* (inotify, where several changes may be waiting when the thread looks), the *)
(* daemons, which come and go, and the gadget service below, which starts and *)
(* stops the thread.                                                          *)

CONSTANTS Daemons,    \* functions served by a daemon, of those clients ask for
          Faults      \* operations on the file system that may fail

VARIABLES
  configfs,           \* [linked, udc]: functions of the gadget, is it pulled up
  present,            \* daemons whose endpoints exist
  inotify,            \* [watched, pending]: directories watched, is an event waiting
  shown,              \* the functions linked when the gadget was last pulled up
  mEndpointList,      \* functions whose endpoints the thread waits for
  mCallback,          \* is the callback registered
  mMonitorRunning,
  mEventFd,           \* has the thread been told to stop
  gadgetPullup,
  monitor,            \* "none", "start", "pull", "report", "poll", "done"
  writeUdc,           \* local of the thread: the gadget is to be pulled up
  applied             \* UsbGadget::mCurrentUsbFunctionsApplied

monitorVars == <<configfs, present, inotify, shown, mEndpointList, mCallback,
                 mMonitorRunning, mEventFd, gadgetPullup, monitor, writeUdc, applied>>
monitorThreadVars  == <<gadgetPullup, monitor, writeUdc, applied>>
listVars    == <<mEndpointList, mCallback, mMonitorRunning>>

MonitorFfsInit ==
  /\ configfs = [linked |-> {}, udc |-> FALSE] /\ present = {}
  /\ inotify = [watched |-> {}, pending |-> FALSE] /\ shown = {}
  /\ mEndpointList = {} /\ mCallback = FALSE /\ mMonitorRunning = FALSE
  /\ mEventFd = FALSE /\ gadgetPullup = FALSE
  /\ monitor = "none" /\ writeUdc = TRUE /\ applied = FALSE
-----------------------------------------------------------------------------
(* The kernel binds a gadget that has functions, all of them with their       *)
(* descriptors, and is not bound yet; it unbinds one that loses a daemon.     *)
CanBind ==
  /\ ~configfs.udc /\ configfs.linked # {}
  /\ configfs.linked \cap Daemons \subseteq present

\* WriteStringToFile(name, PULLUP_PATH)
PullUp(done) ==
  /\ done => CanBind
  /\ CanBind /\ "pullup" \notin Faults => done
  /\ configfs' = [configfs EXCEPT !.udc = @ \/ done]
  /\ shown' = IF done THEN configfs.linked ELSE shown

Noticed(f) == inotify' = [inotify EXCEPT !.pending = @ \/ f \in inotify.watched]

DaemonStarts(f) ==
  /\ f \notin present
  /\ present' = present \cup {f} /\ Noticed(f)
  /\ UNCHANGED <<configfs, shown, listVars, mEventFd, monitorThreadVars>>

DaemonDies(f) ==
  /\ f \in present
  /\ present' = present \ {f} /\ Noticed(f)
  /\ configfs' = [configfs EXCEPT !.udc = @ /\ f \notin configfs.linked]
  /\ UNCHANGED <<shown, listVars, mEventFd, monitorThreadVars>>
-----------------------------------------------------------------------------
DescriptorsPresent == mEndpointList \subseteq present

\* The thread looks at the endpoints before it waits for the first event.
MonitorStarts ==
  /\ monitor = "start"
  /\ monitor' = IF DescriptorsPresent THEN "pull" ELSE "poll"
  /\ writeUdc' = TRUE
  /\ UNCHANGED <<configfs, present, inotify, shown, listVars, mEventFd, gadgetPullup, applied>>

\* After a delay: the write, and, with mLock, what follows from its success.
MonitorPullsUp ==
  /\ monitor = "pull"
  /\ \E done \in BOOLEAN : PullUp(done) /\ monitor' = IF done THEN "report" ELSE "poll"
  /\ UNCHANGED <<present, inotify, listVars, mEventFd, gadgetPullup, writeUdc, applied>>

MonitorReports ==
  /\ monitor = "report"
  /\ applied' = TRUE /\ gadgetPullup' = TRUE /\ writeUdc' = FALSE
  /\ monitor' = "poll"
  /\ UNCHANGED <<configfs, present, inotify, shown, listVars, mEventFd>>

\* The events that wait are read together; each makes the thread look at the
\* endpoints as they are by then.
MonitorReads ==
  /\ monitor = "poll" /\ inotify.pending
  /\ inotify' = [inotify EXCEPT !.pending = FALSE]
  /\ monitor' = IF DescriptorsPresent /\ writeUdc THEN "pull" ELSE "poll"
  /\ writeUdc' = (writeUdc \/ ~DescriptorsPresent)
  /\ UNCHANGED <<configfs, present, shown, listVars, mEventFd, gadgetPullup, applied>>

MonitorStops ==
  /\ monitor = "poll" /\ mEventFd
  /\ mEventFd' = FALSE /\ monitor' = "done"
  /\ UNCHANGED <<configfs, present, inotify, shown, listVars, gadgetPullup, writeUdc, applied>>

MonitorStep ==
  \/ MonitorStarts \/ MonitorPullsUp \/ MonitorReports \/ MonitorReads \/ MonitorStops

DaemonStep == \E f \in Daemons : DaemonStarts(f) \/ DaemonDies(f)
-----------------------------------------------------------------------------
(* What the service calls, from its own thread. *)

\* reset(): tell the thread to stop, join it, forget what it monitored.  The
\* removal of a watch is an event like any other.
SignalMonitor == mMonitorRunning /\ mEventFd' = TRUE

MonitorJoined == mMonitorRunning => monitor = "done"

\* Mutant: a pull-up of the functions torn down is remembered.
ForgetButPullup ==
  /\ MonitorJoined
  /\ monitor' = "none" /\ mMonitorRunning' = FALSE
  /\ inotify' = [watched |-> {}, pending |-> inotify.pending \/ inotify.watched # {}]
  /\ mEndpointList' = {} /\ gadgetPullup' = gadgetPullup /\ mCallback' = FALSE

ForgetMonitored ==
  /\ MonitorJoined
  /\ monitor' = "none" /\ mMonitorRunning' = FALSE
  /\ inotify' = [watched |-> {}, pending |-> inotify.pending \/ inotify.watched # {}]
  /\ mEndpointList' = {} /\ gadgetPullup' = FALSE /\ mCallback' = FALSE

\* registerFunctionsAppliedCallback, startMonitor
StartMonitor == mCallback' = TRUE /\ monitor' = "start" /\ mMonitorRunning' = TRUE

-----------------------------------------------------------------------------
(* src/usb/UsbGadget.cpp with UsbGadgetUtils.cpp: the service that composes   *)
(* the USB gadget out of functions.  setCurrentUsbFunctions runs under a lock *)
(* of its own, one request at a time; reset() takes no lock.                  *)

CONSTANTS Requests      \* sets of functions that clients ask for

VARIABLES
  mCurrentUsbFunctions,
  request,              \* [step, todo, callback]: the request in progress
  answer,               \* status given to the callback of the last request
  resetting             \* reset() is between its two writes

serviceVars == <<mCurrentUsbFunctions, request, answer, resetting>>
gadgetVars  == <<monitorVars, serviceVars>>

\* The functions in the order in which setupFunctions adds them.
SetupOrder == <<"mtp", "ptp", "midi", "accessory", "audio_source", "rndis", "ncm", "adb">>

GadgetFunctions == {SetupOrder[i] : i \in DOMAIN SetupOrder}

ASSUME GadgetAssumption ==
  /\ Requests \subseteq SUBSET GadgetFunctions
  /\ Daemons = {"mtp", "ptp", "adb"} \cap UNION Requests
  /\ Faults \subseteq {"pullup", "teardown", "vidpid", "descriptor", "watch", "link"}

\* validateAndSetVidPid: the combinations that have a product id.
Supported(functions) ==
  /\ functions # {}
  /\ \/ functions \ {"adb"} = {"accessory", "audio_source"}
     \/ \A f, g \in functions \ {"adb"} : f = g

Idle == [step |-> "idle", todo |-> {}, callback |-> FALSE]

GadgetInit ==
  /\ MonitorFfsInit
  /\ mCurrentUsbFunctions = {} /\ request = Idle /\ answer = "none" /\ resetting = FALSE

At(step) == request.step = step
GoTo(step) == request' = [request EXCEPT !.step = step]

\* The request ends; its callback, if it has one, is given the status.
AnswerRequest(status) ==
  /\ request' = Idle
  /\ answer' = IF request.callback THEN status ELSE "none"
-----------------------------------------------------------------------------
SetCurrentUsbFunctions(functions, callback) ==
  /\ At("idle")
  /\ mCurrentUsbFunctions' = functions /\ applied' = FALSE
  /\ request' = [step |-> "pullDown", todo |-> functions, callback |-> callback]
  /\ answer' = "none"
  /\ UNCHANGED <<configfs, present, inotify, shown, listVars, mEventFd, gadgetPullup,
                 monitor, writeUdc, resetting>>

\* resetGadget: a failure to pull down is only logged, for it means that the
\* gadget was not pulled up.
PullDown ==
  /\ At("pullDown")
  /\ configfs' = [configfs EXCEPT !.udc = FALSE] /\ GoTo("unlink")
  /\ UNCHANGED <<present, inotify, shown, listVars, mEventFd, monitorThreadVars,
                 mCurrentUsbFunctions, answer, resetting>>

\* The kernel unbinds a gadget that loses a function.
Unlink ==
  /\ At("unlink")
  /\ \/ /\ configfs' = [linked |-> {}, udc |-> FALSE] /\ shown' = {}
        /\ GoTo("stop") /\ UNCHANGED answer
     \/ /\ "teardown" \in Faults
        /\ \E left \in SUBSET configfs.linked :
              configfs' = [linked |-> left, udc |-> configfs.udc /\ left = configfs.linked]
        /\ AnswerRequest("ERROR") /\ UNCHANGED shown
  /\ UNCHANGED <<present, inotify, listVars, mEventFd, monitorThreadVars, mCurrentUsbFunctions, resetting>>

\* tearDownGadget: the monitor is reset only if it runs.
StopMonitor ==
  /\ At("stop")
  /\ \/ SignalMonitor /\ GoTo("join")
     \/ ~mMonitorRunning /\ GoTo("check") /\ UNCHANGED mEventFd
  /\ UNCHANGED <<configfs, present, inotify, shown, listVars, monitorThreadVars,
                 mCurrentUsbFunctions, answer, resetting>>

JoinMonitor ==
  /\ At("join") /\ ForgetMonitored /\ GoTo("check")
  /\ UNCHANGED <<configfs, present, shown, mEventFd, writeUdc, applied,
                 mCurrentUsbFunctions, answer, resetting>>

\* Nothing to set up, an unsupported combination, or the ids are written.
CheckFunctions ==
  /\ At("check")
  /\ \/ mCurrentUsbFunctions = {} /\ AnswerRequest("SUCCESS")
     \/ mCurrentUsbFunctions # {} /\ ~Supported(mCurrentUsbFunctions)
        /\ AnswerRequest("CONFIGURATION_NOT_SUPPORTED")
     \/ Supported(mCurrentUsbFunctions) /\ "vidpid" \in Faults /\ AnswerRequest("ERROR")
     \/ Supported(mCurrentUsbFunctions) /\ GoTo("setup") /\ UNCHANGED answer
  /\ UNCHANGED <<monitorVars, mCurrentUsbFunctions, resetting>>

IsNext(f) ==
  \E i \in DOMAIN SetupOrder :
    /\ f = SetupOrder[i] /\ f \in request.todo
    /\ \A j \in 1..(i - 1) : SetupOrder[j] \notin request.todo

\* addGenericAndroidFunctions, addAdb: a function with a daemon is watched, then
\* linked, then monitored; an error leaves what has been done so far.
AddFunction(f) ==
  /\ At("setup") /\ IsNext(f)
  /\ \/ /\ inotify' = [inotify EXCEPT !.watched = @ \cup ({f} \cap Daemons)]
        /\ configfs' = [configfs EXCEPT !.linked = @ \cup {f}]
        /\ mEndpointList' = mEndpointList \cup ({f} \cap Daemons)
        /\ request' = [request EXCEPT !.todo = @ \ {f}] /\ UNCHANGED answer
     \/ /\ f \in Daemons /\ Faults \cap {"descriptor", "watch"} # {}
        /\ AnswerRequest("ERROR") /\ UNCHANGED <<inotify, configfs, mEndpointList>>
     \/ /\ "link" \in Faults
        /\ inotify' = [inotify EXCEPT !.watched = @ \cup ({f} \cap Daemons)]
        /\ AnswerRequest("ERROR") /\ UNCHANGED <<configfs, mEndpointList>>
  /\ UNCHANGED <<present, shown, mCallback, mMonitorRunning, mEventFd, monitorThreadVars,
                 mCurrentUsbFunctions, resetting>>

\* Without daemons there is nothing to wait for.
PullUpNow ==
  /\ At("setup") /\ request.todo = {} /\ mCurrentUsbFunctions \cap Daemons = {}
  /\ \E done \in BOOLEAN :
       /\ PullUp(done)
       /\ AnswerRequest(IF done THEN "SUCCESS" ELSE "ERROR")
       /\ applied' = (applied \/ done)
  /\ UNCHANGED <<present, inotify, listVars, mEventFd, gadgetPullup, monitor, writeUdc,
                 mCurrentUsbFunctions, resetting>>

MonitorFunctions ==
  /\ At("setup") /\ request.todo = {} /\ mCurrentUsbFunctions \cap Daemons # {}
  /\ StartMonitor
  /\ IF request.callback THEN GoTo("wait") /\ UNCHANGED answer ELSE AnswerRequest("none")
  /\ UNCHANGED <<configfs, present, inotify, shown, mEndpointList, mEventFd, gadgetPullup,
                 writeUdc, applied, mCurrentUsbFunctions, resetting>>

\* waitForPullUp: the flag wins over the timeout, which may come at any moment.
WaitForPullUp ==
  /\ At("wait")
  /\ AnswerRequest(IF gadgetPullup THEN "SUCCESS" ELSE "ERROR")
  /\ UNCHANGED <<monitorVars, mCurrentUsbFunctions, resetting>>

\* reset(), by another client at any time
ResetPullsDown ==
  /\ ~resetting /\ configfs.udc
  /\ configfs' = [configfs EXCEPT !.udc = FALSE] /\ resetting' = TRUE
  /\ UNCHANGED <<present, inotify, shown, listVars, mEventFd, monitorThreadVars,
                 mCurrentUsbFunctions, request, answer>>

ResetPullsUp ==
  /\ resetting /\ resetting' = FALSE
  /\ \E done \in BOOLEAN : PullUp(done)
  /\ UNCHANGED <<present, inotify, listVars, mEventFd, monitorThreadVars,
                 mCurrentUsbFunctions, request, answer>>

RequestStep ==
  \/ PullDown \/ Unlink \/ StopMonitor \/ JoinMonitor \/ CheckFunctions
  \/ \E f \in GadgetFunctions : AddFunction(f)
  \/ PullUpNow \/ MonitorFunctions \/ WaitForPullUp

GadgetNext ==
  \/ \E functions \in Requests, callback \in BOOLEAN :
        SetCurrentUsbFunctions(functions, callback)
  \/ RequestStep \/ ResetPullsDown \/ ResetPullsUp
  \/ (MonitorStep \/ DaemonStep) /\ UNCHANGED serviceVars

GadgetSpec == GadgetInit /\ [][GadgetNext]_gadgetVars

(* The scheduler runs the service and the thread.  MonitorStops is fair even  *)
(* if the thread is again and again busy with daemons: epoll reports the      *)
(* event descriptor together with the others, and the loop takes them all.    *)
GadgetFairness ==
  /\ WF_gadgetVars(RequestStep)
  /\ WF_gadgetVars(ResetPullsUp)
  /\ WF_gadgetVars(MonitorStep /\ UNCHANGED serviceVars)
  /\ SF_gadgetVars(MonitorStops /\ UNCHANGED serviceVars)

GadgetFairSpec == GadgetSpec /\ GadgetFairness
-----------------------------------------------------------------------------
(* A client that is told SUCCESS has its functions, and no others, on the     *)
(* gadget when it was last pulled up: the pull-up that waitForPullUp reports  *)
(* is not one of the functions before, whatever daemons, reset() and failures *)
(* do meanwhile (UsbGadget.cpp:236-243, MonitorFfs.cpp:226-240).              *)
SuccessMeansPulledUp == answer = "SUCCESS" => shown = mCurrentUsbFunctions

(* setCurrentUsbFunctions returns: the thread it joins hears that it is to    *)
(* stop, however busy the daemons keep it (UsbGadget.cpp:258, MonitorFfs:202).*)
SetReturns == ~At("idle") ~> At("idle")

(* "Restarts the usb gadget when the ep owner restarts" (UsbGadgetCommon.h:98 *)
(* to 100): a gadget whose monitor runs and whose daemons are all there for   *)
(* good is pulled up.                                                         *)
RestartedWhenBack ==
  <>[](/\ mMonitorRunning /\ At("idle") /\ ~resetting
       /\ configfs.linked \cap Daemons \subseteq present)
  => []<>configfs.udc
=============================================================================
