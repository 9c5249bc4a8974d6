------------------------------- MODULE HdmiCec -------------------------------
(* src/hdmi/cec/HdmiCec.cpp, HdmiCecPort.cpp: the service that passes CEC     *)
(* messages between the kernel's adapter and the framework.  An event thread  *)
(* reads the adapter; binder threads set three flags and the callback, with   *)
(* no lock.                                                                   *)
EXTENDS Naturals, Sequences

CONSTANTS
  Addresses,    \* logical addresses asked for: "playback" ... and "invalid"
  Adders,       \* binder threads that add a logical address
  MaxQueued     \* bound: messages waiting in the adapter

ASSUME CecAssumption == MaxQueued \in Nat \ {0}

Flags == {"cec", "wakeup", "control"}

\* The messages, up to what the code tells apart.
CecMessages ==
  [opcode : {"view_on", "give_status", "set_menu_language"}, param : {"none"}]
    \cup [opcode : {"user_control_pressed"}, param : {"power", "play"}]

IsWakeupMessage(m) == m.opcode = "view_on"
IsPowerUICommand(m) == m.param = "power"
IsTransferableInSleep(m) ==
  \/ m.opcode \in {"view_on", "give_status"}
  \/ m.opcode = "user_control_pressed" /\ IsPowerUICommand(m)

VARIABLES
  cecLife,      \* "init", "started", "running", "noport", "releasing", "crashed"
  cecFlags,     \* the flags that are set
  cecCallback,  \* mCallback is set
  received,     \* messages waiting in the adapter
  handled,      \* the message the event thread holds: <<>> or one element
  eventStep,    \* "none", "poll", the flag it asks next, "callback", "call"
  adder,        \* per binder thread: the addresses it has read, once it has
  logAddrs      \* the adapter's logical addresses

cecVars == <<cecLife, cecFlags, cecCallback, received, handled, eventStep, adder, logAddrs>>

CecInit ==
  /\ cecLife = "init" /\ cecFlags = {} /\ cecCallback = FALSE
  /\ received = <<>> /\ handled = <<>> /\ eventStep = "none"
  /\ adder = [a \in Adders |-> <<>>] /\ logAddrs = {}

Served == cecLife \in {"running", "noport"}
HasPort == cecLife \in {"started", "running", "releasing"}

\* A message and the flags that were set at some time since it was read.
Held(m, flags) == <<[message |-> m, seen |-> flags]>>
-----------------------------------------------------------------------------
\* init: the port is opened, its capabilities and mode may be refused; the
\* event thread runs before the flags are set.
InitPort ==
  /\ cecLife = "init"
  /\ \/ cecLife' = "started" /\ eventStep' = "poll"
     \/ cecLife' = "noport" /\ UNCHANGED eventStep
  /\ UNCHANGED <<cecFlags, cecCallback, received, handled, adder, logAddrs>>

InitFlags ==
  /\ cecLife = "started" /\ cecLife' = "running" /\ cecFlags' = Flags
  /\ handled' = [i \in DOMAIN handled |-> [handled[i] EXCEPT !.seen = Flags]]
  /\ UNCHANGED <<cecCallback, received, eventStep, adder, logAddrs>>

\* enableWakeupByOtp, enableCec, enableSystemCecControl
EnableFlag(f, value) ==
  /\ Served
  /\ cecFlags' = IF value THEN cecFlags \cup {f} ELSE cecFlags \ {f}
  /\ handled' = [i \in DOMAIN handled |-> [handled[i] EXCEPT !.seen = @ \cup cecFlags']]
  /\ UNCHANGED <<cecLife, cecCallback, received, eventStep, adder, logAddrs>>

\* setCallback clears the old callback before it stores the new one.
ClearCallback ==
  /\ Served /\ cecCallback /\ cecCallback' = FALSE
  /\ UNCHANGED <<cecLife, cecFlags, received, handled, eventStep, adder, logAddrs>>

StoreCallback ==
  /\ Served /\ ~cecCallback /\ cecCallback' = TRUE
  /\ UNCHANGED <<cecLife, cecFlags, received, handled, eventStep, adder, logAddrs>>

\* The first port is used without asking whether there is one.
Crash ==
  /\ cecLife' = "crashed"
  /\ UNCHANGED <<cecFlags, cecCallback, received, handled, eventStep, adder, logAddrs>>

\* addLogicalAddress reads the adapter's addresses ...
ReadAddresses(a) ==
  /\ Served /\ adder[a] = <<>>
  /\ IF cecLife = "noport" THEN Crash
     ELSE /\ adder' = [adder EXCEPT ![a] = <<logAddrs>>]
          /\ UNCHANGED <<cecLife, cecFlags, cecCallback, received, handled, eventStep, logAddrs>>

\* ... and writes them back with one more; either call may fail, and an add
\* between the two is overwritten.
AddLogicalAddress(a, address) ==
  /\ Served /\ adder[a] # <<>> /\ adder' = [adder EXCEPT ![a] = <<>>]
  /\ logAddrs' \in {logAddrs, adder[a][1] \cup {address}}
  /\ UNCHANGED <<cecLife, cecFlags, cecCallback, received, handled, eventStep>>

ClearLogicalAddress ==
  /\ Served
  /\ IF cecLife = "noport" THEN Crash
     ELSE /\ logAddrs' \in {logAddrs, {}}
          /\ UNCHANGED <<cecLife, cecFlags, cecCallback, received, handled, eventStep, adder>>

\* The rest of the calls read: sendMessage fails without the flag, and without
\* a port only then is safe; getPhysicalAddress needs the port.
UsePort ==
  /\ cecLife = "noport" /\ Crash

-----------------------------------------------------------------------------
\* The adapter receives a message.
Arrives ==
  /\ HasPort /\ Len(received) < MaxQueued
  /\ \E m \in CecMessages : received' = Append(received, m)
  /\ UNCHANGED <<cecLife, cecFlags, cecCallback, handled, eventStep, adder, logAddrs>>

\* event_thread takes a message; one received with an error is dropped.
Receive ==
  /\ eventStep = "poll" /\ received # <<>> /\ received' = Tail(received)
  /\ \/ handled' = Held(Head(received), cecFlags) /\ eventStep' = "cec"
     \/ UNCHANGED <<handled, eventStep>>
  /\ UNCHANGED <<cecLife, cecFlags, cecCallback, adder, logAddrs>>

\* Mutant: asleep, every key is passed on.
PassesAnyKey(m, f) ==
  CASE f = "cec" -> FALSE
    [] f = "wakeup" -> ~IsWakeupMessage(m)
    [] f = "control" -> IsTransferableInSleep(m) \/ m.opcode = "user_control_pressed"
    [] OTHER -> FALSE

\* What each flag lets through when it is set; without it, what it lets pass.
PassesWithout(m, f) ==
  CASE f = "cec" -> FALSE
    [] f = "wakeup" -> ~IsWakeupMessage(m)
    [] f = "control" -> IsTransferableInSleep(m)
    [] OTHER -> FALSE

\* The flags are read one after the other, then the callback.
AfterFlag == [cec |-> "wakeup", wakeup |-> "control", control |-> "callback", callback |-> "call"]
Filter ==
  /\ eventStep \in DOMAIN AfterFlag
  /\ IF \/ eventStep = "callback" /\ cecCallback
        \/ eventStep \in cecFlags
        \/ PassesWithout(handled[1].message, eventStep)
     THEN eventStep' = AfterFlag[eventStep] /\ UNCHANGED handled
     ELSE eventStep' = "poll" /\ handled' = <<>>
  /\ UNCHANGED <<cecLife, cecFlags, cecCallback, received, adder, logAddrs>>

\* The callback is read again for the call: it may be gone by now.
CallHandler ==
  /\ eventStep = "call"
  /\ IF cecCallback
     THEN /\ eventStep' = "poll" /\ handled' = <<>>
          /\ UNCHANGED <<cecLife, cecFlags, cecCallback, received, adder, logAddrs>>
     ELSE eventStep' = "none" /\ handled' = <<>> /\ cecLife' = "crashed"
          /\ UNCHANGED <<cecFlags, cecCallback, received, adder, logAddrs>>

\* release joins the event thread; only the port, released after that, would
\* tell the thread to exit.
Release ==
  /\ cecLife = "running" /\ cecLife' = "releasing" /\ cecFlags' = {}
  /\ UNCHANGED <<cecCallback, received, handled, eventStep, adder, logAddrs>>

EventStep == cecLife # "crashed" /\ (Receive \/ Filter \/ CallHandler)

CecNext ==
  \/ InitPort \/ InitFlags \/ ClearCallback \/ StoreCallback \/ ClearLogicalAddress
  \/ UsePort \/ Arrives \/ EventStep \/ Release
  \/ \E f \in Flags, value \in BOOLEAN : EnableFlag(f, value)
  \/ \E a \in Adders : ReadAddresses(a) \/ \E address \in Addresses : AddLogicalAddress(a, address)

CecFairness == WF_cecVars(EventStep)
CecSpec == CecInit /\ [][CecNext]_cecVars /\ CecFairness
-----------------------------------------------------------------------------
(* What the flags keep back all the time the event thread holds a message is  *)
(* never given to the framework (HdmiCec.h:71-84): asleep it hears only what  *)
(* it may be told in its sleep, and no wakeup it was not to hear, however the *)
(* flags and the callback change meanwhile.                                   *)
FlagsKeepBack ==
  eventStep = "call" =>
    /\ "cec" \in handled[1].seen
    /\ "wakeup" \in handled[1].seen \/ handled[1].message.opcode # "view_on"
    /\ \/ "control" \in handled[1].seen
       \/ handled[1].message.opcode \in {"view_on", "give_status"}
       \/ handled[1].message.param = "power"
=============================================================================
