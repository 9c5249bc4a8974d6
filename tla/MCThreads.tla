------------------------------ MODULE MCThreads ------------------------------
(* The parts of the system where threads wait for, join and call one another: *)
(* an effect and its thread, the I/O threads of an ALSA stream, a Bluetooth   *)
(* stream and the stack below it, the USB gadget and its monitor, the HCI     *)
(* service.  They share nothing: a behaviour is one of the part that "part"   *)
(* names, while the others are at rest in an initial state, where none of     *)
(* their fair actions is enabled.                                             *)
EXTENDS EffectImpl, StreamAlsa, StreamBluetooth, UsbGadget, BluetoothHci

CONSTANT Parts     \* the parts that this run is about
VARIABLE part

\* Configurations of an effect: queues hold at most two samples.
Config(in, out, inSize) ==
  [frames |-> [in |-> in, out |-> out], size |-> [in |-> inSize, out |-> 1]]

Refused == {Config(1, 2, 1), Config(2, 1, 1), Config(1, 1, 0)}
Three   == {Config(1, 2, 1), Config(2, 2, 1), Config(1, 1, 1)}

MCInit ==
  /\ part \in Parts
  /\ (part = "alsa" \/ (mIsInput = FALSE))
  /\ Init /\ AlsaInit /\ BtStreamInit /\ GadgetInit /\ HciInit

MCNext ==
  /\ UNCHANGED part
  /\ \/ /\ part = "effect" /\ Next
        /\ UNCHANGED <<alsaVars, btStreamVars, gadgetVars, hciVars>>
     \/ /\ part = "alsa" /\ AlsaNext
        /\ UNCHANGED <<vars, btStreamVars, gadgetVars, hciVars>>
     \/ /\ part = "bluetooth" /\ BtStreamNext
        /\ UNCHANGED <<vars, alsaVars, gadgetVars, hciVars>>
     \/ /\ part = "gadget" /\ GadgetNext
        /\ UNCHANGED <<vars, alsaVars, btStreamVars, hciVars>>
     \/ /\ part = "hci" /\ HciNext
        /\ UNCHANGED <<vars, alsaVars, btStreamVars, gadgetVars>>

\* The fairness of each module, of the part that the behaviour is about.
MCFairness ==
  /\ WF_vars(part = "effect" /\ WorkerStep) /\ WF_vars(part = "effect" /\ ReadStatus)
  /\ \A t \in Callers : WF_vars(part = "effect" /\ CloseStep(t))
  /\ WF_alsaVars(part = "alsa" /\ Teardown)
  /\ \A d \in Devices : WF_alsaVars(part = "alsa" /\ IoThread(d))
  /\ WF_btStreamVars(part = "bluetooth" /\ InCall)
  /\ WF_gadgetVars(part = "gadget" /\ RequestStep)
  /\ WF_gadgetVars(part = "gadget" /\ ResetPullsUp)
  /\ WF_gadgetVars(part = "gadget" /\ MonitorStep /\ UNCHANGED serviceVars)
  /\ SF_gadgetVars(part = "gadget" /\ MonitorStops /\ UNCHANGED serviceVars)
  /\ \A c \in HciCallers : WF_hciVars(part = "hci" /\ HciStep(c))

MCSafety == MCInit /\ [][MCNext]_<<part, vars, alsaVars, btStreamVars, gadgetVars, hciVars>>
MCSpec   == MCSafety /\ MCFairness
-----------------------------------------------------------------------------
\* What a thread waits for, comes.  close() and destroy return to the client of
\* an effect (EffectImpl.cpp:122-143), standby and shutdown of an ALSA stream
\* join its I/O threads (StreamAlsa.cpp:303-324), no call into a Bluetooth
\* port waits for the stack for ever and the port leaves its transient states
\* (DevicePortProxy.cpp:240-450), setCurrentUsbFunctions joins the monitor
\* (UsbGadget.cpp:255), and the HCI service notices that its client has died
\* (BluetoothHci.cpp:49, 166).
WaitsEnd ==
  /\ CloseReturns /\ TeardownReturns /\ CallsReturn /\ LeavesTransient
  /\ SetReturns /\ DeadClientReleased
=============================================================================
