---------------------------- MODULE BluetoothHci ----------------------------
(* src/bluetooth/BluetoothHci.cpp, net_bluetooth_mgmt.cpp: the service that   *)
(* gives one client the raw HCI socket of a Bluetooth controller.  Binder     *)
(* threads (HciCallers) initialise and close it; the death of the client closes  *)
(* it as well, from a thread of its own; another thread watches the socket.   *)
CONSTANT HciCallers    \* binder threads, and "death", the thread of death notices

ASSUME HciAssumption == "death" \in HciCallers

VARIABLES
  hciState,      \* mState
  client,        \* the client whose death is watched: "none", "alive", "dead"
  mH4,           \* does the protocol object exist
  socket,        \* bt_fd_: "closed", "open"
  watching,      \* does mFdWatcher watch the socket
  radioBlocked,  \* rfkill
  hciCall,       \* per caller the step it is about to take
  aborted        \* LOG_ALWAYS_FATAL has ended the process

hciVars == <<hciState, client, mH4, socket, watching, radioBlocked, hciCall, aborted>>

HciInit ==
  /\ hciState = "READY" /\ client = "none" /\ mH4 = FALSE /\ socket = "closed"
  /\ watching = FALSE /\ radioBlocked = FALSE
  /\ hciCall = [c \in HciCallers |-> "idle"] /\ aborted = FALSE

Goes(c, step) == hciCall' = [hciCall EXCEPT ![c] = step]
Runs(c, step) == ~aborted /\ hciCall[c] = step
-----------------------------------------------------------------------------
Initialize(c) ==
  /\ Runs(c, "idle") /\ c # "death"
  /\ IF hciState = "READY"
     THEN hciState' = "INITIALIZING" /\ Goes(c, "open")
     ELSE Goes(c, "close") /\ UNCHANGED hciState
  /\ UNCHANGED <<client, mH4, socket, watching, radioBlocked, aborted>>

\* openHci blocks the radio and waits for the controller asked for, or takes a
\* later one; a socket or the wait may fail.
OpenHci(c) ==
  /\ Runs(c, "open") /\ radioBlocked' = TRUE
  /\ \/ socket' = "open" /\ Goes(c, "link") /\ UNCHANGED hciState
     \/ hciState' = "READY" /\ Goes(c, "idle") /\ UNCHANGED socket
  /\ UNCHANGED <<client, mH4, watching, aborted>>

\* LinkToDeath is fatal if the client is already dead.
LinkToDeath(c) ==
  /\ Runs(c, "link")
  /\ \/ client' = "alive" /\ Goes(c, "watch") /\ UNCHANGED aborted
     \/ aborted' = TRUE /\ UNCHANGED <<client, hciCall>>
  /\ UNCHANGED <<hciState, mH4, socket, watching, radioBlocked>>

Watch(c) ==
  /\ Runs(c, "watch")
  /\ mH4' = TRUE /\ watching' = TRUE /\ Goes(c, "complete")
  /\ UNCHANGED <<hciState, client, socket, radioBlocked, aborted>>

\* With the state set, and no lock, the client is told; it may have died.
Complete(c) ==
  /\ Runs(c, "complete") /\ hciState' = "ONE_CLIENT" /\ Goes(c, "tell")
  /\ UNCHANGED <<client, mH4, socket, watching, radioBlocked, aborted>>

TellClient(c) ==
  /\ Runs(c, "tell") /\ Goes(c, IF client = "alive" THEN "idle" ELSE "close")
  /\ UNCHANGED <<hciState, client, mH4, socket, watching, radioBlocked, aborted>>

ClientDies ==
  /\ ~aborted /\ client = "alive" /\ hciCall["death"] = "idle"
  /\ client' = "dead" /\ Goes("death", "close")
  /\ UNCHANGED <<hciState, mH4, socket, watching, radioBlocked, aborted>>

CallClose(c) ==
  /\ Runs(c, "idle") /\ c # "death"
  /\ Goes(c, "close")
  /\ UNCHANGED <<hciState, client, mH4, socket, watching, radioBlocked, aborted>>

\* Mutant: close does not take the state, only gives it back.
CloseUnmarked(c) ==
  /\ Runs(c, "close")
  /\ Goes(c, IF hciState = "ONE_CLIENT" THEN "unwatch" ELSE "idle")
  /\ UNCHANGED <<hciState, client, mH4, socket, watching, radioBlocked, aborted>>

\* close: one thread wins the state; in INITIALIZING the process is aborted.
CloseHci(c) ==
  /\ Runs(c, "close")
  /\ \/ hciState = "ONE_CLIENT" /\ hciState' = "CLOSING" /\ Goes(c, "unwatch")
        /\ UNCHANGED aborted
     \/ hciState = "INITIALIZING" /\ aborted' = TRUE /\ UNCHANGED <<hciState, hciCall>>
     \/ hciState \in {"READY", "CLOSING"} /\ Goes(c, "idle") /\ UNCHANGED <<hciState, aborted>>
  /\ UNCHANGED <<client, mH4, socket, watching, radioBlocked>>

\* StopWatchingFileDescriptors joins the thread that watches.
Unwatch(c) ==
  /\ Runs(c, "unwatch") /\ watching' = FALSE /\ Goes(c, "shut")
  /\ UNCHANGED <<hciState, client, mH4, socket, radioBlocked, aborted>>

\* closeHci
Shut(c) ==
  /\ Runs(c, "shut")
  /\ socket' = "closed" /\ radioBlocked' = FALSE /\ Goes(c, "ready")
  /\ UNCHANGED <<hciState, client, mH4, watching, aborted>>

Ready(c) ==
  /\ Runs(c, "ready") /\ hciState' = "READY" /\ mH4' = FALSE /\ Goes(c, "idle")
  /\ UNCHANGED <<client, socket, watching, radioBlocked, aborted>>

\* The controller goes: its socket is no longer watched, all else stays.
Disconnected ==
  /\ ~aborted /\ watching /\ watching' = FALSE
  /\ UNCHANGED <<hciState, client, mH4, socket, radioBlocked, hciCall, aborted>>

HciStep(c) ==
  \/ OpenHci(c) \/ LinkToDeath(c) \/ Watch(c) \/ Complete(c) \/ TellClient(c)
  \/ CloseHci(c) \/ Unwatch(c) \/ Shut(c) \/ Ready(c)

HciNext ==
  \/ \E c \in HciCallers : Initialize(c) \/ CallClose(c) \/ HciStep(c)
  \/ ClientDies \/ Disconnected

HciFairness == \A c \in HciCallers : WF_hciVars(HciStep(c))
HciSpec == HciInit /\ [][HciNext]_hciVars /\ HciFairness
-----------------------------------------------------------------------------
(* "Don't close twice or open before close is complete" (BluetoothHci.h:66):  *)
(* a service that is ready for a client has nothing left of the one before,   *)
(* and the socket that is watched is open and has its protocol object, in     *)
(* every order of initialisations, closes, deaths and disconnections.         *)
OneClientAtATime ==
  /\ hciState = "READY" => socket = "closed" /\ ~watching /\ ~mH4
  /\ watching => socket = "open" /\ mH4

(* A client that dies is noticed: the service gives the socket back, or ends  *)
(* as a process, whatever else is being called (BluetoothHci.cpp:49, 166).    *)
DeadClientReleased ==
  client = "dead" ~> (hciState = "READY" \/ client = "alive" \/ aborted)
=============================================================================
