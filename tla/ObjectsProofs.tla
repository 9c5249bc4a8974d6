---------------------------- MODULE ObjectsProofs ----------------------------
(* Proofs about objects whose state outlives many calls: the contexts of the  *)
(* effect libraries and their factory, HDMI CEC, the proxies of the Bluetooth *)
(* module, the port configs of a module and the ring of the visualizer; for   *)
(* every number of instances, sessions, devices, bands and channels, every    *)
(* size of the ring and all profiles of devices.                              *)
EXTENDS MCObjects, WellFoundedInduction, TLAPS

-----------------------------------------------------------------------------
(* HDMI CEC (HdmiCec.tla) *)

Filtering == {"cec", "wakeup", "control", "callback", "call"}
HeldMessages == [message : CecMessages, seen : SUBSET Flags]

CecTypeOK ==
  /\ cecFlags \subseteq Flags /\ received \in Seq(CecMessages)
  /\ eventStep \in {"none", "poll"} \cup Filtering
  /\ cecLife = "init" => eventStep = "none"

\* The thread holds one message while it filters, and the flags that are set
\* now are among those it has seen.
HoldsMessage ==
  IF eventStep \in Filtering
  THEN \E h \in HeldMessages : handled = <<h>> /\ cecFlags \subseteq h.seen
  ELSE handled = <<>>

\* What the flags that have been asked let pass.
PassedSoFar ==
  /\ eventStep \in Filtering \ {"cec"} => "cec" \in handled[1].seen
  /\ eventStep \in Filtering \ {"cec", "wakeup"} =>
       "wakeup" \in handled[1].seen \/ ~IsWakeupMessage(handled[1].message)
  /\ eventStep \in {"callback", "call"} =>
       "control" \in handled[1].seen \/ IsTransferableInSleep(handled[1].message)

CecInv == CecTypeOK /\ HoldsMessage /\ PassedSoFar

LEMMA CecInitially == CecInit => CecInv
  BY DEF CecInit, CecInv, CecTypeOK, HoldsMessage, PassedSoFar, Filtering

\* A flag is set or cleared: the message that is held has seen it.
LEMMA FlagsSeen ==
  ASSUME CecInv, NEW flags \in SUBSET Flags, NEW more \in SUBSET Flags, flags \subseteq more,
         cecFlags' = flags, UNCHANGED <<received, eventStep>>, cecLife' # "init",
         \A h \in HeldMessages : handled = <<h>> =>
            \E g \in HeldMessages : handled' = <<g>> /\ g.message = h.message
                                /\ h.seen \subseteq g.seen /\ flags \subseteq g.seen,
         handled = <<>> => handled' = <<>>
  PROVE  CecInv'
  <1>1. CecTypeOK'
    BY DEF CecInv, CecTypeOK
  <1>2. CASE eventStep \in Filtering
    <2>1. PICK h \in HeldMessages : handled = <<h>>
      BY <1>2 DEF CecInv, HoldsMessage
    <2>2. PICK g \in HeldMessages : /\ handled' = <<g>> /\ g.message = h.message
                                  /\ h.seen \subseteq g.seen /\ flags \subseteq g.seen
      BY <2>1
    <2>3. HoldsMessage'
      BY <1>2, <2>2 DEF HoldsMessage
    <2>4. handled[1] = h /\ handled'[1] = g
      BY <2>1, <2>2
    <2>5. PassedSoFar'
      BY <2>2, <2>4 DEF CecInv, PassedSoFar
    <2>6. QED
      BY <1>1, <2>3, <2>5 DEF CecInv
  <1>3. CASE eventStep \notin Filtering
    BY <1>1, <1>3 DEF CecInv, HoldsMessage, PassedSoFar, Filtering
  <1>4. QED
    BY <1>2, <1>3

LEMMA OneHeld ==
  ASSUME NEW h, NEW g, NEW s, s = <<h>>
  PROVE  DOMAIN s = {1} /\ s[1] = h /\ [i \in {1} |-> g] = <<g>>
  OBVIOUS

LEMMA CecStepKeeps == CecInv /\ [CecNext]_cecVars => CecInv'
  <1> SUFFICES ASSUME CecInv, [CecNext]_cecVars PROVE CecInv'
    OBVIOUS
  <1>1. CASE InitPort \/ ClearCallback \/ StoreCallback \/ ClearLogicalAddress \/ UsePort
    BY <1>1 DEF InitPort, ClearCallback, StoreCallback, ClearLogicalAddress, UsePort, Crash,
                CecInv, CecTypeOK, HoldsMessage, PassedSoFar, Filtering
  <1>2. CASE InitFlags
    <2>1. ASSUME NEW h \in HeldMessages, handled = <<h>>
          PROVE  \E g \in HeldMessages : handled' = <<g>> /\ g.message = h.message
                                     /\ h.seen \subseteq g.seen /\ Flags \subseteq g.seen
      <3> DEFINE g == [h EXCEPT !.seen = Flags]
      <3>1. g \in HeldMessages /\ g.message = h.message /\ g.seen = Flags /\ h.seen \subseteq Flags
        BY DEF HeldMessages
      <3>2. handled' = <<g>>
        BY <1>2, <2>1, OneHeld DEF InitFlags
      <3>3. QED
        BY <3>1, <3>2
    <2>2. handled = <<>> => handled' = <<>>
      BY <1>2 DEF InitFlags
    <2>3. QED
      BY <1>2, <2>1, <2>2, FlagsSeen DEF InitFlags
  <1>3. ASSUME NEW f \in Flags, NEW value \in BOOLEAN, EnableFlag(f, value) PROVE CecInv'
    <2>1. cecFlags' \in SUBSET Flags /\ Served
      BY <1>3 DEF EnableFlag, CecInv, CecTypeOK
    <2>2. ASSUME NEW h \in HeldMessages, handled = <<h>>
          PROVE  \E g \in HeldMessages : handled' = <<g>> /\ g.message = h.message
                                     /\ h.seen \subseteq g.seen /\ cecFlags' \subseteq g.seen
      <3> DEFINE g == [h EXCEPT !.seen = @ \cup cecFlags']
      <3>1. g \in HeldMessages /\ g.message = h.message /\ g.seen = h.seen \cup cecFlags'
        BY <2>1 DEF HeldMessages
      <3>2. handled' = <<g>>
        BY <1>3, <2>2, OneHeld DEF EnableFlag
      <3>3. QED
        BY <3>1, <3>2
    <2>3. handled = <<>> => handled' = <<>>
      BY <1>3 DEF EnableFlag
    <2>4. QED
      BY <1>3, <2>1, <2>2, <2>3, FlagsSeen DEF EnableFlag, Served
  <1>4. CASE Arrives
    BY <1>4 DEF Arrives, CecInv, CecTypeOK, HoldsMessage, PassedSoFar
  <1>5. CASE EventStep
    <2>1. CASE Receive
      <3>1. received' \in Seq(CecMessages) /\ Head(received) \in CecMessages
        BY <2>1 DEF Receive, CecInv, CecTypeOK
      <3>2. CASE handled' = Held(Head(received), cecFlags) /\ eventStep' = "cec"
        <4> DEFINE h == [message |-> Head(received), seen |-> cecFlags]
        <4>1. h \in HeldMessages /\ handled' = <<h>> /\ cecFlags' \subseteq h.seen
          BY <2>1, <3>1, <3>2 DEF HeldMessages, Held, Receive, CecInv, CecTypeOK
        <4>2. HoldsMessage' /\ PassedSoFar'
          BY <3>2, <4>1 DEF HoldsMessage, PassedSoFar, Filtering
        <4>3. QED
          BY <2>1, <3>1, <3>2, <4>2 DEF Receive, CecInv, CecTypeOK, Filtering
      <3>3. CASE UNCHANGED <<handled, eventStep>>
        BY <2>1, <3>1, <3>3 DEF Receive, CecInv, CecTypeOK, HoldsMessage, PassedSoFar
      <3>4. QED
        BY <2>1, <3>2, <3>3 DEF Receive
    <2>2. CASE Filter
      <3> DEFINE passes == \/ eventStep = "callback" /\ cecCallback
                           \/ eventStep \in cecFlags
                           \/ PassesWithout(handled[1].message, eventStep)
      <3>1. eventStep \in {"cec", "wakeup", "control", "callback"}
        BY <2>2 DEF Filter, AfterFlag
      <3>2. PICK h \in HeldMessages : handled = <<h>> /\ cecFlags \subseteq h.seen
        BY <3>1 DEF CecInv, HoldsMessage, Filtering
      <3>3. CASE passes
        <4>1. eventStep' = AfterFlag[eventStep] /\ handled' = handled
          BY <2>2, <3>3 DEF Filter
        <4>2. PassedSoFar'
          <5>1. CASE eventStep = "cec"
            BY <2>2, <3>2, <3>3, <4>1, <5>1
            DEF CecInv, PassedSoFar, PassesWithout, AfterFlag, Filtering
          <5>2. CASE eventStep = "wakeup"
            BY <2>2, <3>2, <3>3, <4>1, <5>2
            DEF CecInv, PassedSoFar, PassesWithout, AfterFlag, Filtering
          <5>3. CASE eventStep = "control"
            BY <2>2, <3>2, <3>3, <4>1, <5>3
            DEF CecInv, PassedSoFar, PassesWithout, AfterFlag, Filtering
          <5>4. CASE eventStep = "callback"
            BY <4>1, <5>4 DEF CecInv, PassedSoFar, AfterFlag, Filtering
          <5>5. QED
            BY <3>1, <5>1, <5>2, <5>3, <5>4
        <4>3. CecTypeOK' /\ HoldsMessage'
          BY <2>2, <3>1, <3>2, <4>1 DEF Filter, AfterFlag, Filtering, CecInv, CecTypeOK, HoldsMessage
        <4>4. QED
          BY <4>2, <4>3 DEF CecInv
      <3>4. CASE ~passes
        BY <2>2, <3>1, <3>4 DEF Filter, Filtering, CecInv, CecTypeOK, HoldsMessage, PassedSoFar
      <3>5. QED
        BY <3>3, <3>4
    <2>3. CASE CallHandler
      BY <2>3 DEF CallHandler, CecInv, CecTypeOK, HoldsMessage, PassedSoFar, Filtering
    <2>4. QED
      BY <1>5, <2>1, <2>2, <2>3 DEF EventStep
  <1>6. CASE Release
    BY <1>6 DEF Release, CecInv, CecTypeOK, HoldsMessage, PassedSoFar
  <1>7. ASSUME NEW a \in Adders, ReadAddresses(a) \/ \E address \in Addresses : AddLogicalAddress(a, address)
        PROVE CecInv'
    BY <1>7 DEF ReadAddresses, AddLogicalAddress, Crash, CecInv, CecTypeOK, HoldsMessage, PassedSoFar
  <1>8. CASE UNCHANGED cecVars
    BY <1>8 DEF cecVars, CecInv, CecTypeOK, HoldsMessage, PassedSoFar
  <1>9. QED
    BY <1>1, <1>2, <1>3, <1>4, <1>5, <1>6, <1>7, <1>8 DEF CecNext

\* What the flags keep back all the time the event thread holds a message is
\* never given to the framework (HdmiCec.h:71-84), for every number of messages.
THEOREM FlagsAlwaysKeepBack == CecSpec => []FlagsKeepBack
  <1>1. CecInv => FlagsKeepBack
    BY DEF CecInv, PassedSoFar, FlagsKeepBack, Filtering, IsWakeupMessage,
           IsTransferableInSleep, IsPowerUICommand
  <1>2. QED
    BY <1>1, CecInitially, CecStepKeeps, PTL DEF CecSpec
-----------------------------------------------------------------------------
(* The proxies of the Bluetooth module (ModuleBluetooth.tla) *)

Proxies == Seq([port : Nat, config : PcmConfigs])

LEMMA ProxyMade ==
  ASSUME proxies \in Proxies, NEW id \in Nat, CreateProxy(id)
  PROVE  proxies' \in Proxies /\ Len(proxies') = Len(proxies) + 1
  <1>1. PICK config \in PcmConfigs : proxies' = Append(proxies, [port |-> id, config |-> config])
    BY DEF CreateProxy
  <1>2. QED
    BY <1>1 DEF Proxies

LEMMA ProxiesCounted == proxies \in Proxies => Len(proxies) \in Nat
  BY DEF Proxies

BtTypeOK ==
  /\ devicePorts \in Seq(BtDevices \cup {"gone"}) /\ mProxies \in Seq(Nat)
  /\ Len(mProxies) = Len(devicePorts)
  /\ proxies \in Proxies
  /\ \A id \in Ids : mProxies[id] <= Len(proxies)
  /\ mConnections \in [Handles -> Nat] /\ \A h \in Handles : mConnections[h] <= Len(devicePorts)
  /\ btStreams \in [Handles -> Int] /\ \A h \in Handles : btStreams[h] <= Len(proxies)

\* A proxy is in the cache once, too.
CachedOnce == \A id, other \in Ids : mProxies[id] # None /\ mProxies[id] = mProxies[other] => id = other

ProxiesInv == BtTypeOK /\ CachedOnce /\ ProxyInOnePlace

LEMMA BtInitially == BtModuleInit => ProxiesInv
  BY DEF BtModuleInit, ProxiesInv, BtTypeOK, CachedOnce, ProxyInOnePlace, Proxies, Ids, Connected,
         Closed, None

\* A port is added, with a proxy of its own or, gone at once, with none.
LEMMA PortAdded ==
  ASSUME ProxiesInv, NEW p \in BtDevices \cup {"gone"}, devicePorts' = Append(devicePorts, p),
         NEW cached \in Nat, mProxies' = Append(mProxies, cached),
         proxies' \in Proxies, Len(proxies) <= Len(proxies'),
         \/ cached = 0
         \/ cached = Len(proxies) + 1 /\ cached = Len(proxies') /\ p # "gone",
         UNCHANGED <<mConnections, btStreams>>
  PROVE  ProxiesInv'
  <1> DEFINE ids == 1..Len(devicePorts)
             new == Len(devicePorts) + 1
  <1> USE DEF ProxiesInv, Ids
  <1>1. /\ devicePorts' \in Seq(BtDevices \cup {"gone"}) /\ mProxies' \in Seq(Nat)
        /\ Len(devicePorts') = new /\ Len(mProxies') = new
        /\ Len(devicePorts) \in Nat /\ Len(proxies) \in Nat /\ Len(proxies') \in Nat
    BY ProxiesCounted DEF BtTypeOK, Proxies
  <1>2. new \notin ids /\ Ids' = ids \cup {new} /\ Ids = ids
    BY <1>1 DEF BtTypeOK
  <1>3. /\ \A id \in ids : devicePorts'[id] = devicePorts[id] /\ mProxies'[id] = mProxies[id]
        /\ devicePorts'[new] = p /\ mProxies'[new] = cached
    BY DEF BtTypeOK
  <1>4. \A id \in ids : mProxies[id] \in Nat /\ mProxies[id] <= Len(proxies)
    <2>1. \A id \in Ids : mProxies[id] \in Nat /\ mProxies[id] <= Len(proxies)
      BY DEF BtTypeOK
    <2>2. QED
      BY <1>2, <2>1
  <1>5. BtTypeOK'
    <2>1. \A id \in Ids' : mProxies'[id] <= Len(proxies')
      BY <1>1, <1>2, <1>3, <1>4
    <2>2. /\ \A h \in Handles : mConnections'[h] <= Len(devicePorts')
          /\ \A h \in Handles : btStreams'[h] <= Len(proxies')
      BY <1>1 DEF BtTypeOK
    <2>3. QED
      BY <1>1, <2>1, <2>2 DEF BtTypeOK
  <1>6. CachedOnce'
    BY <1>1, <1>2, <1>3, <1>4 DEF CachedOnce, None
  <1>7. ProxyInOnePlace'
    <2>1. \A id \in Ids' \ Connected' : mProxies'[id] = None
      BY <1>2, <1>3 DEF ProxyInOnePlace, Connected, None
    <2>2. \A h \in Handles : btStreams[h] \in Int /\ btStreams[h] <= Len(proxies)
      BY DEF BtTypeOK
    <2>3. \A h \in Handles, id \in Ids' : btStreams'[h] > 0 => mProxies'[id] # btStreams'[h]
      BY <1>1, <1>2, <1>3, <2>2 DEF ProxyInOnePlace
    <2>4. QED
      BY <2>1, <2>3 DEF ProxyInOnePlace
  <1>8. QED
    BY <1>5, <1>6, <1>7

LEMMA BtStepKeeps == ProxiesInv /\ [BtModuleNext]_btModuleVars => ProxiesInv'
  <1> SUFFICES ASSUME ProxiesInv, [BtModuleNext]_btModuleVars PROVE ProxiesInv'
    OBVIOUS
  <1> USE DEF ProxiesInv, Ids
  <1>0. /\ Len(proxies) \in Nat /\ Len(devicePorts) \in Nat /\ Ids = 1..Len(devicePorts)
        /\ \A id \in Ids : mProxies[id] \in Nat /\ mProxies[id] <= Len(proxies)
        /\ \A h \in Handles : btStreams[h] \in Int /\ btStreams[h] <= Len(proxies)
        /\ \A h \in Handles : mConnections[h] # None => mConnections[h] \in Ids
    BY ProxiesCounted DEF BtTypeOK, None
  <1>1. ASSUME NEW d \in BtDevices, ConnectBtDevice(d) PROVE ProxiesInv'
    <2>1. CASE devicePorts' = Append(devicePorts, d) /\ CreateProxy(Len(devicePorts) + 1)
               /\ mProxies' = Append(mProxies, Len(proxies) + 1)
      <3>1. proxies' \in Proxies /\ Len(proxies') = Len(proxies) + 1 /\ d # "gone"
        BY <1>0, <2>1, ProxyMade, BtAssumption DEF BtTypeOK
      <3>2. QED
        BY <1>0, <1>1, <2>1, <3>1, PortAdded DEF ConnectBtDevice
    <2>2. CASE devicePorts' = Append(devicePorts, "gone") /\ mProxies' = Append(mProxies, None)
               /\ proxies' = proxies
      BY <1>0, <1>1, <2>2, PortAdded DEF ConnectBtDevice, BtTypeOK, None
    <2>3. QED
      BY <1>1, <2>1, <2>2 DEF ConnectBtDevice
  <1>2. ASSUME NEW id \in Ids, DisconnectBtDevice(id) PROVE ProxiesInv'
    BY <1>2 DEF DisconnectBtDevice, BtTypeOK, CachedOnce, ProxyInOnePlace, Connected, None
  <1>3. ASSUME NEW id \in Ids, SetDevicePortConfig(id) PROVE ProxiesInv'
    <2>1. /\ mProxies' = [mProxies EXCEPT ![id] = Len(proxies) + 1] /\ CreateProxy(id) /\ id \in Nat
          /\ UNCHANGED <<devicePorts, mConnections, btStreams>> /\ id \in Connected
      BY <1>0, <1>3 DEF SetDevicePortConfig
    <2>2. proxies' \in Proxies /\ Len(proxies') = Len(proxies) + 1
      BY <2>1, ProxyMade DEF BtTypeOK
    <2>3. /\ mProxies' \in Seq(Nat) /\ Len(mProxies') = Len(mProxies)
          /\ \A other \in Ids : mProxies'[other] = IF other = id THEN Len(proxies) + 1 ELSE mProxies[other]
      BY <1>0, <2>1, <2>2 DEF BtTypeOK
    <2>4. BtTypeOK'
      BY <1>0, <2>1, <2>2, <2>3 DEF BtTypeOK
    <2>5. CachedOnce'
      BY <1>0, <2>1, <2>3 DEF CachedOnce
    <2>6. ProxyInOnePlace'
      BY <1>0, <2>1, <2>3 DEF ProxyInOnePlace, Connected
    <2>7. QED
      BY <2>4, <2>5, <2>6
  <1>4. ASSUME NEW h \in Handles, OpenBtStream(h) PROVE ProxiesInv'
    <2>1. /\ UNCHANGED <<devicePorts, proxies>> /\ mConnections' = [mConnections EXCEPT ![h] = None]
          /\ mProxies' = IF Fetched(h) = None THEN mProxies
                         ELSE [mProxies EXCEPT ![mConnections[h]] = None]
          /\ btStreams' = btStreams \/ btStreams' = [btStreams EXCEPT ![h] = Fetched(h)]
      BY <1>4 DEF OpenBtStream, Fetch
    <2>2. /\ Fetched(h) \in Nat /\ Fetched(h) <= Len(proxies)
          /\ Fetched(h) # None => mConnections[h] \in Ids /\ Fetched(h) = mProxies[mConnections[h]]
      BY <1>0 DEF Fetched, None
    <2>3. /\ mProxies' \in Seq(Nat) /\ Len(mProxies') = Len(mProxies)
          /\ \A id \in Ids : mProxies'[id] = IF Fetched(h) # None /\ id = mConnections[h]
                                          THEN None ELSE mProxies[id]
      BY <1>0, <2>1, <2>2 DEF BtTypeOK, None
    <2>4. BtTypeOK'
      <3>1. /\ mConnections' \in [Handles -> Nat]
            /\ \A g \in Handles : mConnections'[g] <= Len(devicePorts')
        BY <1>0, <2>1 DEF BtTypeOK, None
      <3>2. /\ btStreams' \in [Handles -> Int] /\ \A g \in Handles : btStreams'[g] <= Len(proxies')
        <4>1. CASE btStreams' = btStreams
          BY <1>0, <2>1, <4>1 DEF BtTypeOK
        <4>2. CASE btStreams' = [btStreams EXCEPT ![h] = Fetched(h)]
          <5> HIDE DEF Fetched
          <5>1. Fetched(h) \in Int
            BY <2>2
          <5>2. QED
            BY <1>0, <2>1, <2>2, <4>2, <5>1 DEF BtTypeOK
        <4>3. QED
          BY <2>1, <4>1, <4>2
      <3>3. \A id \in Ids' : mProxies'[id] <= Len(proxies')
        BY <1>0, <2>1, <2>3 DEF None
      <3>4. QED
        BY <2>1, <2>3, <3>1, <3>2, <3>3 DEF BtTypeOK
    <2>5. CachedOnce'
      BY <1>0, <2>1, <2>3 DEF CachedOnce, None
    <2>6. \A id \in Ids : Fetched(h) # None => mProxies'[id] # Fetched(h)
      BY <1>0, <2>2, <2>3 DEF CachedOnce, None
    <2>7. \A g \in Handles : btStreams'[g] = btStreams[g] \/ (g = h /\ btStreams'[g] = Fetched(h))
      <3>1. CASE btStreams' = [btStreams EXCEPT ![h] = Fetched(h)]
        BY <3>1 DEF BtTypeOK
      <3>2. QED
        BY <2>1, <3>1
    <2>8. \A g \in Handles : Fetched(h) # None => btStreams[g] # Fetched(h)
      BY <1>0, <2>2 DEF ProxyInOnePlace, None
    <2>9. ProxyInOnePlace'
      <3>1. \A id \in Ids' \ Connected' : mProxies'[id] = None
        BY <2>1, <2>3 DEF ProxyInOnePlace, Connected, None
      <3>2. \A f, g \in Handles : f # g /\ btStreams'[f] > 0 => btStreams'[g] # btStreams'[f]
        BY <1>0, <2>2, <2>7, <2>8 DEF ProxyInOnePlace, None
      <3>3. \A g \in Handles, id \in Ids' : btStreams'[g] > 0 => mProxies'[id] # btStreams'[g]
        BY <1>0, <2>1, <2>2, <2>3, <2>6, <2>7 DEF ProxyInOnePlace, None
      <3>4. QED
        BY <3>1, <3>2, <3>3 DEF ProxyInOnePlace
    <2>10. QED
      BY <2>4, <2>5, <2>9
  <1>5. ASSUME NEW h \in Handles, CloseBtStream(h) PROVE ProxiesInv'
    <2>1. /\ btStreams' = [btStreams EXCEPT ![h] = Closed]
          /\ UNCHANGED <<devicePorts, mProxies, mConnections, proxies>>
      BY <1>5 DEF CloseBtStream
    <2>2. BtTypeOK' /\ CachedOnce'
      BY <1>0, <2>1 DEF BtTypeOK, CachedOnce, Closed
    <2>3. ProxyInOnePlace'
      BY <1>0, <2>1 DEF BtTypeOK, ProxyInOnePlace, Connected, Closed
    <2>4. QED
      BY <2>2, <2>3
  <1>6. ASSUME NEW h \in Handles,
               ResetBtPatch(h) \/ \E config \in PcmConfigs : SetMixPortConfig(h, config)
        PROVE  ProxiesInv'
    BY <1>6 DEF ResetBtPatch, SetMixPortConfig, BtTypeOK, CachedOnce, ProxyInOnePlace, Connected
  <1>7. ASSUME NEW h \in Handles, NEW id \in Ids, SetBtPatch(h, id) PROVE ProxiesInv'
    <2>1. /\ UNCHANGED <<devicePorts, mProxies, btStreams, proxies>>
          /\ mConnections' = mConnections \/ mConnections' = [mConnections EXCEPT ![h] = id]
      BY <1>7 DEF SetBtPatch
    <2>2. mConnections' \in [Handles -> Nat] /\ \A g \in Handles : mConnections'[g] <= Len(devicePorts')
      <3>1. CASE mConnections' = [mConnections EXCEPT ![h] = id]
        <4>1. id \in Nat /\ id <= Len(devicePorts)
          BY <1>0
        <4>2. QED
          BY <2>1, <3>1, <4>1 DEF BtTypeOK
      <3>2. QED
        BY <2>1, <3>1 DEF BtTypeOK
    <2>3. BtTypeOK'
      BY <2>1, <2>2 DEF BtTypeOK
    <2>4. QED
      BY <2>1, <2>3 DEF CachedOnce, ProxyInOnePlace, Connected
  <1>8. CASE UNCHANGED btModuleVars
    BY <1>8 DEF btModuleVars, BtTypeOK, CachedOnce, ProxyInOnePlace, Connected
  <1>9. QED
    BY <1>1, <1>2, <1>3, <1>4, <1>5, <1>6, <1>7, <1>8 DEF BtModuleNext

\* A proxy is in one place, in the cache of a port that is connected or with one
\* stream, for every number of headsets and streams.
THEOREM ProxyAlwaysInOnePlace == BtModuleSpec => []ProxyInOnePlace
  <1>1. ProxiesInv => ProxyInOnePlace
    BY DEF ProxiesInv
  <1>2. QED
    BY <1>1, BtInitially, BtStepKeeps, PTL DEF BtModuleSpec
-----------------------------------------------------------------------------
(* An effect of the bundle (BundleContext.tla) *)

\* The library counts one effect, as long as it is enabled or plays its tail; an
\* effect that is enabled does not drain, and the volume has no tail.
Counted ==
  /\ mType \in BundleTypes
  /\ mNumberEffectsEnabled = IF mEnabled \/ mEffectInDrain THEN 1 ELSE 0
  /\ mEnabled => ~mEffectInDrain
  /\ mSamplesToExit \in 0..ExitSamples
  /\ mType = "volume" => mSamplesToExit = 0
  /\ mType # "volume" => (mSamplesToExit > 0 <=> mEnabled \/ mEffectInDrain)
  /\ processed

LEMMA CountedInitially == BundleInit => Counted
  BY BundleAssumption DEF BundleInit, Counted

LEMMA CountedStep == Counted /\ [BundleNext]_bundleVars => Counted'
  <1> SUFFICES ASSUME Counted, [BundleNext]_bundleVars PROVE Counted'
    OBVIOUS
  <1> USE BundleAssumption DEF Counted, BundleTypes, drainVars
  <1>1. CASE EnableBundle
    BY <1>1 DEF EnableBundle, CountedOnce, StillCounted
  <1>2. CASE DisableBundle
    <2>1. /\ ~mEnabled' /\ mEffectInDrain' /\ mEnabled
          /\ UNCHANGED <<mType, mSamplesToExit, mNumberEffectsEnabled, processed>>
      BY <1>2 DEF DisableBundle
    <2>2. QED
      BY <2>1
  <1>3. CASE ProcessBundle
    <2> DEFINE left == IF mEnabled \/ mSamplesToExit <= 0 THEN mSamplesToExit ELSE mSamplesToExit - 1
               data == mEnabled \/ (mType # "volume" /\ left > 0)
               ends == mEffectInDrain /\ ~data
    <2>1. UNCHANGED <<mType, mEnabled>> /\ mSamplesToExit' = left /\ left \in 0..ExitSamples
      BY <1>3 DEF ProcessBundle
    <2>2. mEffectInDrain' <=> mEffectInDrain /\ ~ends
      BY <1>3 DEF ProcessBundle
    <2>3. mNumberEffectsEnabled' = IF ends THEN mNumberEffectsEnabled - 1 ELSE mNumberEffectsEnabled
      BY <1>3 DEF ProcessBundle
    <2>4. processed' <=> (IF data THEN 1 ELSE 0) >= mNumberEffectsEnabled'
      BY <1>3, <2>3 DEF ProcessBundle
    <2>5. mNumberEffectsEnabled' = IF mEnabled' \/ mEffectInDrain' THEN 1 ELSE 0
      BY <2>1, <2>2, <2>3
    <2>6. mType' # "volume" => (mSamplesToExit' > 0 <=> mEnabled' \/ mEffectInDrain')
      BY <2>1, <2>2
    <2>7. processed'
      BY <2>1, <2>2, <2>4, <2>5
    <2>8. QED
      BY <2>1, <2>2, <2>5, <2>6, <2>7
  <1>4. CASE SetOutputDevice \/ SetForcedDevice \/ SetVolumeLevel \/ SetVolumeMute
    <2>1. UNCHANGED <<mType, mEnabled, mEffectInDrain, mNumberEffectsEnabled, mSamplesToExit, processed>>
      BY <1>4 DEF SetOutputDevice, SetForcedDevice, SetVolumeLevel, SetVolumeMute
    <2>2. QED
      BY <2>1
  <1>5. CASE UNCHANGED bundleVars
    BY <1>5 DEF bundleVars
  <1>6. QED
    BY <1>1, <1>2, <1>3, <1>4, <1>5 DEF BundleNext

\* No buffer passes the library by, for every length of the tail.
THEOREM BuffersAlwaysProcessed == BundleSpec => []BuffersProcessed
  <1>1. Counted => BuffersProcessed
    BY DEF Counted, BuffersProcessed
  <1>2. QED
    BY <1>1, CountedInitially, CountedStep, PTL DEF BundleSpec
-----------------------------------------------------------------------------
(* The effect factory and the sessions of the bundle (EffectFactory.tla) *)

Made == 1 .. Len(contexts)

FactoryTypeOK ==
  /\ mEffectLibMap \subseteq Uuids /\ \A e \in DOMAIN mEffectMap : mEffectMap[e] \in Uuids
  /\ effectState \in [Instances -> {"INIT", "open"}]
  /\ effectContext \in [Instances -> Nat]
  /\ contexts \in Seq([type : Uuids, session : Sessions])
  /\ deInited \subseteq Made
  /\ mSessionMap \in [Sessions -> SUBSET Nat]

\* A session lists one context of each type at most, whatever session it was made for.
ListsRight ==
  \A s \in Listed :
    /\ mSessionMap[s] \subseteq Made
    /\ \A c, d \in mSessionMap[s] : contexts[c].type = contexts[d].type => c = d

\* The context of an instance is of its type, and of no other instance.
ContextsRight ==
  /\ \A e \in Instances : effectContext[e] # 0 =>
       /\ Exists(e) /\ effectContext[e] \in Made
       /\ contexts[effectContext[e]].type = mEffectMap[e]
  /\ \A e, f \in Instances : effectContext[e] # 0 /\ effectContext[e] = effectContext[f] => e = f

FactoryInv == FactoryTypeOK /\ ListsRight /\ ContextsRight

\* Contexts are a sequence of records.
LEMMA ElementReplaced ==
  ASSUME NEW S, NEW q \in Seq(S), NEW i \in 1 .. Len(q), NEW v \in S
  PROVE  /\ q[i] \in S
         /\ [q EXCEPT ![i] = v] \in Seq(S) /\ Len([q EXCEPT ![i] = v]) = Len(q)
         /\ \A j \in 1 .. Len(q) : [q EXCEPT ![i] = v][j] = IF j = i THEN v ELSE q[j]
  OBVIOUS

LEMMA MadeIsContext ==
  ASSUME FactoryInv, NEW c \in Made PROVE contexts[c] \in [type : Uuids, session : Sessions]
  <1> DEFINE S == [type : Uuids, session : Sessions]
  <1>1. contexts \in Seq(S)
    BY DEF FactoryInv, FactoryTypeOK
  <1> HIDE DEF S
  <1>2. contexts[c] \in S
    BY <1>1 DEF Made
  <1>3. QED
    BY <1>2 DEF S

LEMMA FactoryInitially == FactoryInit => FactoryInv
  BY DEF FactoryInit, FactoryInv, FactoryTypeOK, ListsRight, ContextsRight, Made, Listed, NoSession

\* What a type is looked for in is a list of contexts.
LEMMA FoundIsListed ==
  ASSUME FactoryInv, NEW s \in Sessions, NEW t
  PROVE  /\ OfType(mSessionMap[s], t) \subseteq mSessionMap[s] \cap Made
         /\ OfType(mSessionMap[s], t) # {} => s \in Listed
         /\ \A c, d \in OfType(mSessionMap[s], t) : c = d
         /\ \A c \in OfType(mSessionMap[s], t) : contexts[c].type = t
  BY DEF FactoryInv, ListsRight, OfType, Listed, NoSession

\* A release takes a context of the type out of one session, or nothing, and the
\* effect has none afterwards.
LEMMA ReleaseKeeps ==
  ASSUME FactoryInv, NEW e \in Instances, NEW released, released \subseteq Made,
         mSessionMap' \in [Sessions -> SUBSET Nat],
         \A s \in Sessions : mSessionMap'[s] = NoSession \/ mSessionMap'[s] \subseteq mSessionMap[s],
         \A s \in Sessions : mSessionMap'[s] # NoSession => s \in Listed,
         effectContext[e] # 0, Forget(e, released), UNCHANGED <<contexts, mEffectLibMap>>,
         effectState' \in [Instances -> {"INIT", "open"}],
         mEffectMap' = mEffectMap \/ mEffectMap' = [i \in DOMAIN mEffectMap \ {e} |-> mEffectMap[i]]
  PROVE  FactoryInv'
  <1> USE DEF FactoryInv
  <1>1. /\ effectContext' \in [Instances -> Nat] /\ effectContext'[e] = 0
        /\ \A f \in Instances : f # e => effectContext'[f] = effectContext[f]
    BY DEF Forget, FactoryTypeOK
  <1>2. UNCHANGED Made /\ deInited' \subseteq Made
    BY DEF Forget, FactoryTypeOK, ContextsRight, Made
  <1>3. FactoryTypeOK'
    BY <1>1, <1>2 DEF FactoryTypeOK
  <1>4. ListsRight'
    BY <1>2 DEF ListsRight, Listed
  <1>5. ContextsRight'
    BY <1>1, <1>2 DEF ContextsRight, Exists
  <1>6. QED
    BY <1>3, <1>4, <1>5

LEMMA ReleasedFromSession ==
  ASSUME FactoryInv, NEW s \in Sessions, NEW t, ReleaseSession(t, s)
  PROVE  /\ mSessionMap' \in [Sessions -> SUBSET Nat]
         /\ FirstOfType(t, s) \subseteq Made
         /\ \A r \in Sessions : mSessionMap'[r] = NoSession \/ mSessionMap'[r] \subseteq mSessionMap[r]
         /\ \A r \in Sessions : mSessionMap'[r] # NoSession => r \in Listed
  <1> DEFINE first == FirstOfType(t, s)
             rest == mSessionMap[s] \ first
  <1>1. /\ first \subseteq Made /\ (first # {} => s \in Listed)
    BY FoundIsListed DEF FirstOfType
  <1>2. mSessionMap \in [Sessions -> SUBSET Nat]
    BY DEF FactoryInv, FactoryTypeOK
  <1>3. mSessionMap' = IF first = {} THEN mSessionMap
                       ELSE [mSessionMap EXCEPT ![s] = IF rest = {} THEN NoSession ELSE rest]
    BY DEF ReleaseSession
  <1> HIDE DEF first
  <1>4. /\ mSessionMap' \in [Sessions -> SUBSET Nat]
        /\ \A r \in Sessions : mSessionMap'[r] = NoSession \/ mSessionMap'[r] \subseteq mSessionMap[r]
    BY <1>2, <1>3 DEF NoSession
  <1>5. \A r \in Sessions : mSessionMap'[r] # NoSession => r \in Listed
    BY <1>1, <1>2, <1>3 DEF Listed
  <1>6. QED
    BY <1>1, <1>4, <1>5 DEF first

\* A context is added to a session that has none of its type, or the session alone.
LEMMA SessionCreated ==
  ASSUME FactoryInv, NEW e \in Instances, Exists(e), effectContext[e] = 0, NEW s \in Sessions,
         MayCreate(mEffectMap[e], s), CreateSession(e, mEffectMap[e], s),
         effectState' \in [Instances -> {"INIT", "open"}],
         UNCHANGED <<mEffectLibMap, mEffectMap, deInited>>
  PROVE  FactoryInv'
  <1> USE DEF FactoryInv
  <1> DEFINE list == IF s \in Listed THEN mSessionMap[s] ELSE {}
             new == Len(contexts) + 1
  <1>1. /\ list \subseteq Made
        /\ \A c, d \in list : contexts[c].type = contexts[d].type => c = d
        /\ list # NoSession /\ 0 \notin list
    BY DEF ListsRight, Made, NoSession
  <1>2. \A c \in list : contexts[c].type # mEffectMap[e]
    BY <1>1 DEF MayCreate, OfType, NoSession
  <1>3. mEffectMap[e] \in Uuids
    BY DEF FactoryTypeOK, Exists
  <1> HIDE DEF list
  <1>4. CASE mSessionMap' = [mSessionMap EXCEPT ![s] = list] /\ UNCHANGED <<contexts, effectContext>>
    <2>1. /\ mSessionMap' \in [Sessions -> SUBSET Nat] /\ mSessionMap'[s] = list
          /\ \A r \in Sessions : r # s => mSessionMap'[r] = mSessionMap[r]
      BY <1>1, <1>4 DEF FactoryTypeOK, Made
    <2>2. FactoryTypeOK'
      BY <1>4, <2>1 DEF FactoryTypeOK, Made
    <2>3. ListsRight'
      <3>1. ASSUME NEW r \in Listed'
            PROVE  /\ mSessionMap'[r] \subseteq Made
                   /\ \A c, d \in mSessionMap'[r] : contexts[c].type = contexts[d].type => c = d
        <4>1. CASE r = s
          BY <1>1, <2>1, <4>1
        <4>2. CASE r # s
          BY <2>1, <3>1, <4>2 DEF ListsRight, Listed
        <4>3. QED
          BY <4>1, <4>2
      <3>2. QED
        BY <1>4, <3>1 DEF ListsRight, Made
    <2>4. ContextsRight'
      BY <1>4 DEF ContextsRight, Made, Exists
    <2>5. QED
      BY <2>2, <2>3, <2>4
  <1>5. CASE /\ contexts' = Append(contexts, [type |-> mEffectMap[e], session |-> s])
             /\ effectContext' = [effectContext EXCEPT ![e] = new]
             /\ mSessionMap' = [mSessionMap EXCEPT ![s] = list \cup {new}]
    <2>1. /\ new \notin Made /\ Made' = Made \cup {new} /\ new \in Nat \ {0}
          /\ \A c \in Made : contexts'[c] = contexts[c]
          /\ contexts'[new].type = mEffectMap[e]
          /\ contexts' \in Seq([type : Uuids, session : Sessions])
      BY <1>3, <1>5 DEF FactoryTypeOK, Made
    <2> HIDE DEF new
    <2>2. /\ mSessionMap' \in [Sessions -> SUBSET Nat] /\ mSessionMap'[s] = list \cup {new}
          /\ \A r \in Sessions : r # s => mSessionMap'[r] = mSessionMap[r]
      BY <1>1, <1>5, <2>1 DEF FactoryTypeOK, Made
    <2>3. effectContext' \in [Instances -> Nat] /\ effectContext'[e] = new
          /\ \A f \in Instances : f # e => effectContext'[f] = effectContext[f]
      BY <1>5, <2>1 DEF FactoryTypeOK
    <2>4. FactoryTypeOK'
      BY <2>1, <2>2, <2>3 DEF FactoryTypeOK
    <2>5. ListsRight'
      <3>1. ASSUME NEW r \in Listed', r # s
            PROVE  /\ mSessionMap'[r] \subseteq Made'
                   /\ \A c, d \in mSessionMap'[r] : contexts'[c].type = contexts'[d].type => c = d
        BY <2>1, <2>2, <3>1 DEF ListsRight, Listed
      <3>2. /\ mSessionMap'[s] \subseteq Made'
            /\ \A c, d \in mSessionMap'[s] : contexts'[c].type = contexts'[d].type => c = d
        BY <1>1, <1>2, <2>1, <2>2
      <3>3. QED
        BY <3>1, <3>2 DEF ListsRight
    <2>6. ContextsRight'
      BY <2>1, <2>3 DEF ContextsRight, Exists
    <2>7. QED
      BY <2>4, <2>5, <2>6
  <1>6. QED
    BY <1>4, <1>5 DEF CreateSession, list

\* A release of an effect, by the session that its configuration names.
LEMMA ContextReleased ==
  ASSUME FactoryInv, NEW e \in Instances, ReleaseContext(e), effectContext[e] # 0
  PROVE  LET s == contexts[effectContext[e]].session
         IN  /\ s \in Sessions /\ ReleaseSession(mEffectMap[e], s)
             /\ Forget(e, FirstOfType(mEffectMap[e], s))
  <1>1. contexts[effectContext[e]] \in [type : Uuids, session : Sessions]
    BY MadeIsContext DEF FactoryInv, ContextsRight
  <1>2. QED
    BY <1>1 DEF ReleaseContext

LEMMA FactoryStepKeeps == FactoryInv /\ [FactoryNext]_factoryVars => FactoryInv'
  <1> SUFFICES ASSUME FactoryInv, [FactoryNext]_factoryVars PROVE FactoryInv'
    OBVIOUS
  <1> USE DEF FactoryInv
  <1>1. ASSUME NEW e \in Instances, NEW uuid \in Uuids, CreateEffect(e, uuid) PROVE FactoryInv'
    BY <1>1 DEF CreateEffect, sessionVars, FactoryTypeOK, ListsRight, ContextsRight, Made, Listed, Exists
  <1>2. ASSUME NEW e \in Instances, NEW s \in Sessions, OpenEffect(e, s) PROVE FactoryInv'
    <2>1. /\ effectState' \in [Instances -> {"INIT", "open"}] /\ Exists(e)
          /\ UNCHANGED <<mEffectLibMap, mEffectMap, deInited>>
      BY <1>2 DEF OpenEffect, FactoryTypeOK
    <2>2. CASE UNCHANGED <<contexts, effectContext, mSessionMap>>
      BY <2>1, <2>2 DEF FactoryTypeOK, ListsRight, ContextsRight, Made, Listed, Exists
    <2>3. CASE effectContext[e] = 0 /\ MayCreate(mEffectMap[e], s) /\ CreateSession(e, mEffectMap[e], s)
      BY <2>1, <2>3, SessionCreated
    <2>4. QED
      BY <1>2, <2>2, <2>3 DEF OpenEffect
  <1>3. ASSUME NEW e \in Instances, NEW s \in Sessions, SetCommon(e, s) PROVE FactoryInv'
    <2>1. effectContext[e] \in Made /\ deInited' \subseteq deInited
      BY <1>3 DEF SetCommon, ContextsRight
    <2>2. /\ contexts' \in Seq([type : Uuids, session : Sessions]) /\ UNCHANGED Made
          /\ \A c \in Made : contexts'[c].type = contexts[c].type
      <3> DEFINE S == [type : Uuids, session : Sessions]
                 c == effectContext[e]
                 moved == [contexts[c] EXCEPT !.session = s]
      <3>1. contexts[c] \in S /\ contexts \in Seq(S)
        BY <2>1, MadeIsContext DEF FactoryTypeOK
      <3>2. moved \in S /\ moved.type = contexts[c].type
        BY <3>1
      <3>3. contexts' = [contexts EXCEPT ![c] = moved]
        BY <1>3 DEF SetCommon
      <3> HIDE DEF S, c, moved
      <3>4. /\ contexts' \in Seq(S) /\ Len(contexts') = Len(contexts)
            /\ \A k \in Made : contexts'[k] = IF k = c THEN moved ELSE contexts[k]
        BY <2>1, <3>1, <3>2, <3>3, ElementReplaced DEF Made, c
      <3>5. QED
        BY <3>2, <3>4 DEF Made, S
    <2>3. FactoryTypeOK'
      BY <1>3, <2>1, <2>2 DEF SetCommon, FactoryTypeOK
    <2>4. ListsRight' /\ ContextsRight'
      BY <1>3, <2>2 DEF SetCommon, ListsRight, ContextsRight, Listed, Exists
    <2>5. QED
      BY <2>3, <2>4
  <1>4. ASSUME NEW e \in Instances, ReleaseContext(e), UNCHANGED <<contexts, mEffectLibMap>>,
               effectState' \in [Instances -> {"INIT", "open"}],
               mEffectMap' = mEffectMap \/ mEffectMap' = [i \in DOMAIN mEffectMap \ {e} |-> mEffectMap[i]]
        PROVE  FactoryInv'
    <2>1. CASE effectContext[e] = 0
      <3>1. UNCHANGED <<effectContext, deInited, mSessionMap>>
        BY <1>4, <2>1 DEF ReleaseContext
      <3>2. QED
        BY <1>4, <2>1, <3>1 DEF FactoryTypeOK, ListsRight, ContextsRight, Made, Listed, Exists
    <2>2. CASE effectContext[e] # 0
      BY <1>4, <2>2, ContextReleased, ReleasedFromSession, ReleaseKeeps
    <2>3. QED
      BY <2>1, <2>2
  <1>5. ASSUME NEW e \in Instances, CloseEffect(e) PROVE FactoryInv'
    <2>1. effectState' \in [Instances -> {"INIT", "open"}]
      BY <1>5 DEF CloseEffect, FactoryTypeOK
    <2>2. QED
      BY <1>4, <1>5, <2>1 DEF CloseEffect
  <1>6. ASSUME NEW e \in Instances, DestroyEffect(e) PROVE FactoryInv'
    <2>1. /\ effectState' \in [Instances -> {"INIT", "open"}] /\ UNCHANGED <<contexts, mEffectLibMap>>
          /\ mEffectMap' = [i \in DOMAIN mEffectMap \ {e} |-> mEffectMap[i]]
      BY <1>6 DEF DestroyEffect, FactoryTypeOK
    <2>2. CASE effectState[e] = "open"
      BY <1>4, <1>6, <2>1, <2>2 DEF DestroyEffect
    <2>3. CASE effectState[e] # "open" /\ effectContext[e] # 0
      <3>1. UNCHANGED mSessionMap /\ Forget(e, {})
        BY <1>6, <2>3 DEF DestroyEffect
      <3>2. /\ mSessionMap' \in [Sessions -> SUBSET Nat]
            /\ \A s \in Sessions : mSessionMap'[s] # NoSession => s \in Listed
        BY <3>1 DEF FactoryTypeOK, Listed
      <3>3. QED
        BY <2>1, <2>3, <3>1, <3>2, ReleaseKeeps
    <2>4. CASE effectState[e] # "open" /\ effectContext[e] = 0
      <3>1. UNCHANGED <<mSessionMap, effectContext, deInited>>
        BY <1>6, <2>4 DEF DestroyEffect, Forget, NoSession, FactoryTypeOK
      <3>2. QED
        BY <2>1, <2>4, <3>1 DEF FactoryTypeOK, ListsRight, ContextsRight, Made, Listed, Exists
    <2>5. QED
      BY <2>2, <2>3, <2>4
  <1>7. CASE UNCHANGED factoryVars
    BY <1>7 DEF factoryVars, sessionVars, FactoryTypeOK, ListsRight, ContextsRight, Made, Listed, Exists
  <1>8. QED
    BY <1>1, <1>2, <1>3, <1>5, <1>6, <1>7 DEF FactoryNext

\* Who takes the context of e away by giving up a context, with what is released.
LEMMA ReleaseTakes ==
  ASSUME FactoryInv, NEW d \in Instances, effectContext[d] # 0, ReleaseContext(d),
         NEW e \in Instances, effectContext'[e] \in deInited' \ deInited, effectContext'[e] # 0
  PROVE  /\ d # e /\ effectContext'[d] = 0 /\ mEffectMap[d] = mEffectMap[e] /\ Misplaced(d)
  <1> USE DEF FactoryInv
  <1> DEFINE s == contexts[effectContext[d]].session
             c == effectContext[e]
  <1>1. s \in Sessions /\ Forget(d, FirstOfType(mEffectMap[d], s))
    BY ContextReleased
  <1>2. effectContext'[d] = 0 /\ d # e /\ effectContext'[e] = c
    BY <1>1 DEF Forget, FactoryTypeOK
  <1>3. c \in FirstOfType(mEffectMap[d], s) \/ c = effectContext[d]
    BY <1>1, <1>2 DEF Forget
  <1>4. c # effectContext[d]
    BY <1>2 DEF ContextsRight
  <1>5. c \in OfType(mSessionMap[s], mEffectMap[d])
    BY <1>3, <1>4 DEF FirstOfType
  <1>6. s \in Listed /\ c \in mSessionMap[s] /\ contexts[c].type = mEffectMap[d]
    BY <1>1, <1>5, FoundIsListed
  <1>7. mEffectMap[d] = mEffectMap[e] /\ contexts[effectContext[d]].type = mEffectMap[d]
    BY <1>2, <1>6 DEF ContextsRight
  <1>8. effectContext[d] \notin mSessionMap[s]
    BY <1>4, <1>6, <1>7 DEF ListsRight
  <1>9. QED
    BY <1>2, <1>7, <1>8 DEF Misplaced

\* The context that an effect has keeps its library instance until an effect of
\* its type that has been given another session is released, for every number of
\* effects, types and sessions (releaseContext, releaseSession, createSession).
THEOREM ContextAlwaysAlive == FactorySpec => ContextStaysAlive
  <1>1. FactoryInv /\ [FactoryNext]_factoryVars => [TakenByMisplaced]_factoryVars
    <2> SUFFICES ASSUME FactoryInv, FactoryNext, NEW e \in Instances,
                        effectContext'[e] \in deInited' \ deInited, effectContext'[e] # 0
                 PROVE  \E d \in Instances \ {e} :
                          /\ effectContext[d] # 0 /\ effectContext'[d] = 0
                          /\ mEffectMap[d] = mEffectMap[e] /\ Misplaced(d)
      BY DEF TakenByMisplaced
    <2>1. PICK d \in Instances : CloseEffect(d) \/ DestroyEffect(d)
      <3>1. deInited' \subseteq deInited => FALSE
        OBVIOUS
      <3>2. (\E i \in Instances, uuid \in Uuids : CreateEffect(i, uuid)) => FALSE
        BY <3>1 DEF CreateEffect, sessionVars
      <3>3. (\E i \in Instances, s \in Sessions : OpenEffect(i, s) \/ SetCommon(i, s)) => FALSE
        BY <3>1 DEF OpenEffect, SetCommon
      <3>4. QED
        BY <3>2, <3>3 DEF FactoryNext
    <2>2. CASE ReleaseContext(d) /\ effectContext[d] # 0
      BY <2>2, ReleaseTakes
    <2>3. CASE ReleaseContext(d) /\ effectContext[d] = 0
      BY <2>3 DEF ReleaseContext
    <2>4. CASE Forget(d, {})
      <3>1. effectContext'[d] = 0 /\ effectContext'[e] = effectContext[e] /\ d # e
        BY <2>4 DEF Forget, FactoryInv, FactoryTypeOK
      <3>2. effectContext[e] = effectContext[d]
        BY <2>4, <3>1 DEF Forget
      <3>3. QED
        BY <3>1, <3>2 DEF FactoryInv, ContextsRight
    <2>5. ReleaseContext(d) \/ Forget(d, {})
      BY <2>1 DEF CloseEffect, DestroyEffect
    <2>6. QED
      BY <2>2, <2>3, <2>4, <2>5
  <1>2. QED
    BY <1>1, FactoryInitially, FactoryStepKeeps, PTL DEF FactorySpec, ContextStaysAlive
-----------------------------------------------------------------------------
(* A stage of the dynamics processing (DynamicsProcessing.tla) *)

\* What the worker has computed is right for what it has copied.
ComputedAsCached ==
  /\ stage \in {"pre", "mbc", "post"}
  /\ asCached.enabled \in BOOLEAN
  /\ stage = "mbc" => \/ mBins = BinsOf(asCached.bands)
                      \/ \A b \in BandIds : asCached.bands[b].cutoff = 0
  /\ stage # "mbc" /\ asCached.enabled =>
       /\ mBins = BinsOf(asCached.bands)
       /\ \A k \in BinIds : Covering(mBins, k) # {} =>
            mFactor[k] = BandFactor(asCached.bands[Max(Covering(mBins, k))], asCached.inputGain)
  /\ stage = "pre" /\ ~asCached.enabled => \A k \in BinIds : mFactor[k] = asCached.inputGain

Settings == [enabled : BOOLEAN, bands : [BandIds -> [enable : BOOLEAN, cutoff : Nat, gain : Int]],
             inputGain : Int]

SpectrumInv == asSet \in Settings /\ asCached \in Settings /\ ComputedAsCached

LEMMA SpectrumInitially == EqualizerInit => SpectrumInv
  <1> SUFFICES ASSUME EqualizerInit PROVE SpectrumInv
    OBVIOUS
  <1>1. asSet \in Settings /\ asCached \in Settings
    BY DEF EqualizerInit, Settings, DefaultBand, NoBand
  <1>2. ComputedAsCached
    BY DEF EqualizerInit, ComputedAsCached, NoBand
  <1>3. QED
    BY <1>1, <1>2 DEF SpectrumInv

\* The worker looks: what it computes is right for what it copies.
LEMMA UpdateComputes == SpectrumInv /\ UpdateParameters => SpectrumInv'
  <1> SUFFICES ASSUME SpectrumInv, UpdateParameters PROVE SpectrumInv'
    OBVIOUS
  <1>1. /\ asSet' = asSet /\ stage' = stage /\ asCached' \in Settings
        /\ asCached'.enabled = asSet.enabled /\ asCached'.inputGain = asSet.inputGain
        /\ asCached'.bands = IF asSet.enabled THEN asSet.bands ELSE asCached.bands
    BY DEF UpdateParameters, SpectrumInv, Settings
  <1>2. mBins' = IF Changed /\ asSet.enabled THEN BinsOf(asSet.bands) ELSE mBins
    BY DEF UpdateParameters
  <1>3. /\ ~Changed \/ stage = "mbc" => mFactor' = mFactor
        /\ Changed /\ stage # "mbc" /\ asSet.enabled =>
             \A k \in BinIds : Covering(BinsOf(asSet.bands), k) # {} =>
               mFactor'[k] = BandFactor(asSet.bands[Max(Covering(BinsOf(asSet.bands), k))], asSet.inputGain)
        /\ Changed /\ stage = "pre" /\ ~asSet.enabled => \A k \in BinIds : mFactor'[k] = asSet.inputGain
    BY DEF UpdateParameters
  <1>4. stage \in {"pre", "mbc", "post"}
    BY DEF SpectrumInv, ComputedAsCached
  <1>5. CASE stage = "mbc"
    <2>1. CASE asSet.enabled /\ Changed
      BY <1>1, <1>2, <1>5, <2>1 DEF ComputedAsCached, SpectrumInv
    <2>2. CASE asSet.enabled /\ ~Changed
      <3>1. \A b \in BandIds : asSet.bands[b].cutoff = asCached.bands[b].cutoff
        BY <1>5, <2>2 DEF Changed, BandsChanged
      <3>2. BinsOf(asSet.bands) = BinsOf(asCached.bands)
        BY <3>1, EqualizerAssumption DEF BinsOf, BandIds
      <3>3. mBins = BinsOf(asSet.bands) \/ \A b \in BandIds : asSet.bands[b].cutoff = 0
        BY <1>5, <3>1, <3>2 DEF ComputedAsCached, SpectrumInv
      <3>4. asCached'.bands = asSet.bands /\ mBins' = mBins /\ asCached'.enabled \in BOOLEAN
        BY <1>1, <1>2, <2>2 DEF SpectrumInv, Settings
      <3>5. ComputedAsCached'
        BY <1>1, <1>5, <3>3, <3>4 DEF ComputedAsCached, BinsOf
      <3>6. QED
        BY <1>1, <3>5 DEF SpectrumInv
    <2>3. CASE ~asSet.enabled
      <3>1. /\ asCached'.bands = asCached.bands /\ mBins' = mBins
            /\ asCached'.enabled \in BOOLEAN
        BY <1>1, <1>2, <2>3 DEF SpectrumInv, Settings
      <3>2. mBins = BinsOf(asCached.bands) \/ \A b \in BandIds : asCached.bands[b].cutoff = 0
        BY <1>5 DEF SpectrumInv, ComputedAsCached
      <3>3. ComputedAsCached'
        BY <1>1, <1>5, <3>1, <3>2 DEF ComputedAsCached, BinsOf
      <3>4. QED
        BY <1>1, <3>3 DEF SpectrumInv
    <2>4. QED
      BY <2>1, <2>2, <2>3
  <1>6. CASE stage # "mbc"
    <2> SUFFICES ComputedAsCached'
      BY <1>1 DEF SpectrumInv
    <2>1. CASE ~asSet.enabled
      <3>1. \A k \in BinIds : stage = "pre" => mFactor'[k] = asSet.inputGain
        <4>1. CASE Changed
          BY <1>3, <2>1, <4>1
        <4>2. CASE ~Changed
          <5>1. asCached.enabled = asSet.enabled
            BY <1>6, <4>2 DEF Changed
          <5>2. stage = "pre" => asSet.inputGain = asCached.inputGain
            BY <4>2 DEF Changed
          <5>3. \A k \in BinIds : stage = "pre" => mFactor[k] = asCached.inputGain
            BY <2>1, <5>1 DEF SpectrumInv, ComputedAsCached
          <5>4. QED
            BY <1>3, <4>2, <5>2, <5>3
        <4>3. QED
          BY <4>1, <4>2
      <3>2. asCached'.enabled \in BOOLEAN /\ ~asCached'.enabled
        BY <1>1, <2>1 DEF SpectrumInv, Settings
      <3>3. \A k \in BinIds : stage = "pre" => mFactor'[k] = asCached'.inputGain
        BY <1>1, <3>1
      <3>4. stage' # "mbc" /\ stage' \in {"pre", "mbc", "post"}
        BY <1>1, <1>4, <1>6
      <3>5. QED
        BY <3>2, <3>3, <3>4, <1>1 DEF ComputedAsCached
    <2>2. CASE asSet.enabled
      <3>1. /\ mBins' = BinsOf(asSet.bands)
            /\ \A k \in BinIds : Covering(mBins', k) # {} =>
                 mFactor'[k] = BandFactor(asSet.bands[Max(Covering(mBins', k))], asSet.inputGain)
        <4>1. CASE Changed
          <5>1. mBins' = BinsOf(asSet.bands)
            BY <1>2, <2>2, <4>1
          <5>2. QED
            BY <1>3, <1>6, <2>2, <4>1, <5>1
        <4>2. CASE ~Changed
          <5>1. asSet.bands = asCached.bands /\ asCached.enabled
                /\ (stage = "pre" => asSet.inputGain = asCached.inputGain)
            BY <1>6, <2>2, <4>2 DEF Changed, BandsChanged, SpectrumInv, Settings
          <5>2. /\ mBins = BinsOf(asCached.bands)
                /\ \A k \in BinIds : Covering(mBins, k) # {} =>
                     mFactor[k] = BandFactor(asCached.bands[Max(Covering(mBins, k))], asCached.inputGain)
            BY <1>6, <5>1 DEF SpectrumInv, ComputedAsCached
          <5>3. ASSUME NEW band
                PROVE  BandFactor(band, asCached.inputGain) = BandFactor(band, asSet.inputGain)
            BY <1>4, <1>6, <5>1 DEF BandFactor
          <5>4. mBins' = mBins /\ mFactor' = mFactor
            BY <1>2, <1>3, <4>2
          <5>5. QED
            BY <5>1, <5>2, <5>3, <5>4
        <4>3. QED
          BY <4>1, <4>2
      <3>2. ASSUME NEW band, NEW gain PROVE BandFactor(band, gain)' = BandFactor(band, gain)
        BY <1>1 DEF BandFactor
      <3>3. \A k \in BinIds : (Covering(mBins, k))' = Covering(mBins', k)
        BY DEF Covering
      <3>4. \A k \in BinIds : (Covering(mBins, k) # {})' =>
              mFactor'[k] = (BandFactor(asCached.bands[Max(Covering(mBins, k))], asCached.inputGain))'
        BY <1>1, <2>2, <3>1 DEF BandFactor, Covering
      <3>5. QED
        BY <1>1, <1>4, <1>6, <2>2, <3>1, <3>4 DEF ComputedAsCached
    <2>3. QED
      BY <2>1, <2>2
  <1>7. QED
    BY <1>4, <1>5, <1>6

LEMMA SpectrumStep == SpectrumInv /\ [EqualizerNext]_equalizerVars => SpectrumInv'
  <1> SUFFICES ASSUME SpectrumInv, [EqualizerNext]_equalizerVars PROVE SpectrumInv'
    OBVIOUS
  <1>1. CASE asSet' \in Settings /\ UNCHANGED <<stage, asCached, mBins, mFactor>>
    BY <1>1 DEF SpectrumInv, ComputedAsCached, Covering, BandFactor
  <1>2. ASSUME NEW on \in BOOLEAN, SetStageEnabled(on) PROVE SpectrumInv'
    BY <1>1, <1>2 DEF SetStageEnabled, SpectrumInv, Settings
  <1>3. ASSUME NEW named \in SUBSET BandIds, NEW bands \in [named -> EqBands], SetBands(bands)
        PROVE  SpectrumInv'
    <2>1. \A b \in DOMAIN bands : bands[b] \in [enable : BOOLEAN, cutoff : Nat, gain : Int]
      BY EqualizerAssumption
    <2>2. QED
      BY <1>1, <1>3, <2>1 DEF SetBands, SpectrumInv, Settings
  <1>4. ASSUME NEW gain \in InputGains, SetInputGain(gain) PROVE SpectrumInv'
    BY <1>1, <1>4, EqualizerAssumption DEF SetInputGain, SpectrumInv, Settings
  <1>5. CASE UNCHANGED equalizerVars
    BY <1>1, <1>5 DEF equalizerVars, SpectrumInv
  <1>6. QED
    BY <1>2, <1>3, <1>4, <1>5, UpdateComputes DEF EqualizerNext

\* What is heard is what is set as soon as the worker has looked, for every number
\* of bands and bins and every gain.
THEOREM SpectrumAlwaysAsSet == EqualizerSpec => []SpectrumAsSet
  <1>1. SpectrumInv => SpectrumAsSet
    <2> SUFFICES ASSUME SpectrumInv, UpToDate PROVE SpectrumAsSet
      BY DEF SpectrumAsSet
    <2>1. /\ asCached.enabled = asSet.enabled /\ asCached.inputGain = asSet.inputGain
          /\ asSet.enabled => asCached.bands = asSet.bands
      BY DEF UpToDate, SpectrumInv, Settings
    <2>2. CASE ~asSet.enabled
      BY <2>1, <2>2 DEF SpectrumAsSet, SpectrumInv, ComputedAsCached
    <2>3. CASE asSet.enabled /\ stage = "mbc"
      BY <2>1, <2>3 DEF SpectrumAsSet, SpectrumInv, ComputedAsCached
    <2>4. CASE asSet.enabled /\ stage # "mbc"
      BY <2>1, <2>4 DEF SpectrumAsSet, SpectrumInv, ComputedAsCached
    <2>5. QED
      BY <2>2, <2>3, <2>4
  <1>2. QED
    BY <1>1, SpectrumInitially, SpectrumStep, PTL DEF EqualizerSpec
-----------------------------------------------------------------------------
(* The limiters of a link group (DynamicsProcessing.tla) *)

LimiterParams == [inUse : BOOLEAN, enabled : BOOLEAN, group : Groups \cup {NoGroup},
                  newFactor : 0..100, linkFactor : 0..100]

DynamicsTypeOK ==
  /\ mEngineArchitecture \in [limiterInUse : BOOLEAN, byFrequency : BOOLEAN]
  /\ limiters \in [EngineChannels -> [inUse : BOOLEAN, enabled : BOOLEAN, group : Groups]]
  /\ limiterParams \in [EngineChannels -> LimiterParams]
  /\ mGroupsMap \in [Groups -> SUBSET EngineChannels]

\* The map has the channels of a group and no others.
MapIsOf(map, params) ==
  /\ \A g \in Groups : \A c \in map[g] : params[c].group = g
  /\ \A c \in EngineChannels : params[c].group # NoGroup => c \in map[params[c].group]

\* After a block, channels of a group have the least factor among them.
LinkedIn(map, params) ==
  \A c \in EngineChannels : params[c].group # NoGroup =>
    params[c].linkFactor = Min({100} \cup {params[d].newFactor : d \in map[params[c].group]})

DynamicsInv ==
  /\ DynamicsTypeOK /\ MapIsOf(mGroupsMap, limiterParams)
  /\ limited => LinkedIn(mGroupsMap, limiterParams)

\* A non-empty set of natural numbers has a least element.
LessThan == {ss \in Nat \X Nat : ss[1] < ss[2]}

LEMMA LessThanWellFounded == IsWellFoundedOn(LessThan, Nat)
  <1>1. OpToRel(<, Nat) = LessThan
    BY Zenon DEF OpToRel, LessThan
  <1>2. QED
    BY <1>1, NatLessThanWellFounded, Zenon

LEMMA MinOfNaturals ==
  ASSUME NEW S \in SUBSET Nat, S # {}
  PROVE  Min(S) \in S /\ \A x \in S : Min(S) <= x
  <1>1. PICK x \in S : \A y \in S : <<y, x>> \notin LessThan
    BY LessThanWellFounded, WFMin
  <1>2. ASSUME NEW y \in S PROVE x <= y
    <2>1. <<y, x>> \in Nat \X Nat /\ <<y, x>>[1] = y /\ <<y, x>>[2] = x
      OBVIOUS
    <2>2. ~(y < x)
      BY <1>1, <2>1 DEF LessThan
    <2>3. QED
      BY <2>2
  <1>3. QED
    BY <1>2 DEF Min

LEMMA DynamicsInitially == DynamicsInit => DynamicsInv
  <1> SUFFICES ASSUME DynamicsInit PROVE DynamicsInv
    OBVIOUS
  <1>1. EngineChannels = ChannelsOf(mChannelCount)
    BY DEF DynamicsInit, NewLimiters, EngineChannels
  <1>2. DynamicsTypeOK
    BY <1>1 DEF DynamicsInit, DynamicsTypeOK, NewLimiters, NewParams, NoChannels, Default,
       LimiterParams, Groups
  <1>3. MapIsOf(mGroupsMap, limiterParams)
    BY <1>1 DEF DynamicsInit, MapIsOf, NewParams, NoChannels
  <1>4. QED
    BY <1>2, <1>3 DEF DynamicsInit, DynamicsInv

\* A channel whose group changes is taken out of the one and put into the other.
LEMMA RegroupedIsOf ==
  ASSUME DynamicsTypeOK, MapIsOf(mGroupsMap, limiterParams),
         NEW copies \in [EngineChannels -> LimiterParams]
  PROVE  /\ Regrouped(copies) \in [Groups -> SUBSET EngineChannels]
         /\ MapIsOf(Regrouped(copies), copies)
  <1> DEFINE moved == {c \in EngineChannels : copies[c].group # limiterParams[c].group}
             map == Regrouped(copies)
  <1>1. \A c \in EngineChannels : copies[c].group \in Groups \cup {NoGroup}
    BY DEF LimiterParams
  <1>2. map = [g \in Groups |-> (mGroupsMap[g] \ moved) \cup {c \in moved : copies[c].group = g}]
    BY DEF Regrouped
  <1>3. map \in [Groups -> SUBSET EngineChannels]
    BY <1>2 DEF DynamicsTypeOK
  <1> HIDE DEF map
  <1>4. ASSUME NEW g \in Groups, NEW c \in map[g] PROVE copies[c].group = g
    <2>1. CASE c \in moved
      BY <1>2, <2>1
    <2>2. CASE c \notin moved
      BY <1>2, <1>3, <2>2 DEF MapIsOf
    <2>3. QED
      BY <2>1, <2>2
  <1>5. ASSUME NEW c \in EngineChannels, copies[c].group # NoGroup
        PROVE  c \in map[copies[c].group]
    <2>1. copies[c].group \in Groups
      BY <1>1, <1>5
    <2>2. CASE c \in moved
      BY <1>2, <2>1, <2>2
    <2>3. CASE c \notin moved
      BY <1>2, <1>5, <2>1, <2>3 DEF MapIsOf
    <2>4. QED
      BY <2>2, <2>3
  <1>6. QED
    BY <1>3, <1>4, <1>5 DEF MapIsOf, map

\* After a block, the channels of a group have the least factor among them.
LEMMA LimitLinks ==
  ASSUME NEW copies \in [EngineChannels -> LimiterParams],
         NEW map \in [Groups -> SUBSET EngineChannels], MapIsOf(map, copies),
         NEW found \in [EngineChannels -> Factors]
  PROVE  /\ Limit(copies, map, found) \in [EngineChannels -> LimiterParams]
         /\ MapIsOf(map, Limit(copies, map, found))
         /\ LinkedIn(map, Limit(copies, map, found))
  <1> DEFINE new == [c \in EngineChannels |->
                       IF copies[c].inUse /\ copies[c].enabled THEN found[c] ELSE copies[c].newFactor]
             least(g) == Min({100} \cup {new[d] : d \in map[g]})
             linked(c) == \E g \in Groups : c \in map[g]
             limit == Limit(copies, map, found)
  <1>1. ASSUME NEW c \in EngineChannels PROVE new[c] \in 0..100
    <2>0. Factors \subseteq 1..100
      BY DynamicsAssumption
    <2>1. found[c] \in 0..100
      <3>1. found[c] \in Factors
        OBVIOUS
      <3>2. \A x \in 1..100 : x \in 0..100
        OBVIOUS
      <3>3. QED
        BY <2>0, <3>1, <3>2
    <2>2. copies[c].newFactor \in 0..100
      BY DEF LimiterParams
    <2>3. QED
      BY <2>1, <2>2
  <1>2. limit = [c \in EngineChannels |->
                   [copies[c] EXCEPT !.newFactor = new[c],
                      !.linkFactor = IF linked(c) THEN least(CHOOSE g \in Groups : c \in map[g]) ELSE @]]
    BY DEF Limit
  <1> HIDE DEF new, limit
  <1>3. ASSUME NEW g \in Groups PROVE least(g) \in 0..100
    <2>1. {100} \cup {new[d] : d \in map[g]} \in SUBSET (0..100)
      BY <1>1
    <2>2. {100} \cup {new[d] : d \in map[g]} \in SUBSET Nat
      BY <2>1
    <2>3. QED
      BY <2>1, <2>2, MinOfNaturals
  <1> HIDE DEF least
  <1>4. ASSUME NEW c \in EngineChannels
        PROVE  /\ limit[c] \in LimiterParams
               /\ limit[c].group = copies[c].group /\ limit[c].newFactor = new[c]
               /\ linked(c) => limit[c].linkFactor = least(CHOOSE g \in Groups : c \in map[g])
    <2>1. copies[c] \in LimiterParams /\ new[c] \in 0..100
      BY <1>1
    <2>2. CASE linked(c)
      <3>1. least(CHOOSE g \in Groups : c \in map[g]) \in 0..100
        BY <1>3, <2>2
      <3>2. QED
        BY <1>2, <2>1, <2>2, <3>1 DEF LimiterParams
    <2>3. CASE ~linked(c)
      BY <1>2, <2>1, <2>3 DEF LimiterParams
    <2>4. QED
      BY <2>2, <2>3
  <1>5. limit \in [EngineChannels -> LimiterParams]
    BY <1>2, <1>4
  <1>6. MapIsOf(map, limit)
    BY <1>4 DEF MapIsOf
  <1>7. ASSUME NEW c \in EngineChannels, limit[c].group # NoGroup
        PROVE  limit[c].linkFactor = Min({100} \cup {limit[d].newFactor : d \in map[limit[c].group]})
    <2>1. limit[c].group = copies[c].group /\ copies[c].group \in Groups
      BY <1>4, <1>7 DEF LimiterParams
    <2>2. c \in map[copies[c].group]
      BY <1>7, <2>1 DEF MapIsOf
    <2>3. (CHOOSE g \in Groups : c \in map[g]) = copies[c].group
      BY <2>1, <2>2 DEF MapIsOf
    <2>4. {limit[d].newFactor : d \in map[copies[c].group]} = {new[d] : d \in map[copies[c].group]}
      BY <1>4, <2>1
    <2>5. limit[c].linkFactor = least(CHOOSE g \in Groups : c \in map[g])
      BY <1>4, <2>1, <2>2
    <2>6. limit[c].linkFactor = least(copies[c].group)
      BY <2>3, <2>5
    <2>7. QED
      BY <2>1, <2>4, <2>6 DEF least
  <1>8. QED
    BY <1>5, <1>6, <1>7 DEF LinkedIn, limit

\* A worker copies the parameters, and may process a block.
LEMMA SamplesKeep == DynamicsInv /\ ProcessSamples => DynamicsInv'
  <1> SUFFICES ASSUME DynamicsInv, ProcessSamples PROVE DynamicsInv'
    OBVIOUS
  <1> DEFINE copies == [c \in EngineChannels |-> CopyOf(c)]
  <1>1. copies \in [EngineChannels -> LimiterParams]
    <2>1. ASSUME NEW c \in EngineChannels PROVE CopyOf(c) \in LimiterParams
      <3>1. /\ limiters[c].enabled \in BOOLEAN /\ limiters[c].group \in Groups
            /\ limiterParams[c] \in LimiterParams
        BY DEF DynamicsInv, DynamicsTypeOK
      <3>2. CASE ~limiterParams[c].inUse
        BY <3>1, <3>2 DEF CopyOf
      <3>3. CASE limiterParams[c].inUse /\ limiters[c].enabled
        BY <3>1, <3>3 DEF CopyOf, LimiterParams
      <3>4. CASE limiterParams[c].inUse /\ ~limiters[c].enabled
        BY <3>1, <3>4 DEF CopyOf, LimiterParams
      <3>5. QED
        BY <3>2, <3>3, <3>4
    <2>2. QED
      BY <2>1
  <1>2. /\ mGroupsMap' = Regrouped(copies)
        /\ \/ limiterParams' = copies /\ limited' = FALSE
           \/ \E found \in [EngineChannels -> Factors] :
                limiterParams' = Limit(copies, mGroupsMap', found)
        /\ mEngineArchitecture' = mEngineArchitecture /\ limiters' = limiters
    BY DEF ProcessSamples
  <1> HIDE DEF copies
  <1>3. mGroupsMap' \in [Groups -> SUBSET EngineChannels] /\ MapIsOf(mGroupsMap', copies)
    BY <1>1, <1>2, RegroupedIsOf DEF DynamicsInv
  <1>4. EngineChannels' = EngineChannels
    BY <1>2 DEF EngineChannels
  <1>5. /\ limiterParams' \in [EngineChannels -> LimiterParams]
        /\ MapIsOf(mGroupsMap', limiterParams')
        /\ limited' => LinkedIn(mGroupsMap', limiterParams')
    <2>1. CASE limiterParams' = copies /\ limited' = FALSE
      BY <1>1, <1>3, <2>1
    <2>2. ASSUME NEW found \in [EngineChannels -> Factors],
                 limiterParams' = Limit(copies, mGroupsMap', found)
          PROVE  /\ limiterParams' \in [EngineChannels -> LimiterParams]
                 /\ MapIsOf(mGroupsMap', limiterParams')
                 /\ LinkedIn(mGroupsMap', limiterParams')
      BY <1>1, <1>3, <2>2, LimitLinks
    <2>3. QED
      BY <1>2, <2>1, <2>2
  <1>6. DynamicsTypeOK'
    BY <1>2, <1>3, <1>4, <1>5 DEF DynamicsInv, DynamicsTypeOK
  <1>7. (MapIsOf(mGroupsMap, limiterParams))' /\ (limited => LinkedIn(mGroupsMap, limiterParams))'
    BY <1>4, <1>5 DEF MapIsOf, LinkedIn
  <1>8. QED
    BY <1>6, <1>7 DEF DynamicsInv

LEMMA DynamicsStep == DynamicsInv /\ [DynamicsNext]_dynamicsVars => DynamicsInv'
  <1> SUFFICES ASSUME DynamicsInv, [DynamicsNext]_dynamicsVars PROVE DynamicsInv'
    OBVIOUS
  <1>1. CASE UNCHANGED <<mEngineArchitecture, limiters, limiterParams, mGroupsMap, limited>>
    BY <1>1 DEF DynamicsInv, DynamicsTypeOK, MapIsOf, LinkedIn, EngineChannels
  <1>2. ASSUME NEW architecture \in Architectures, SetEngineArchitecture(architecture)
        PROVE  DynamicsInv'
    <2>1. architecture \in [limiterInUse : BOOLEAN, byFrequency : BOOLEAN]
          /\ mEngineArchitecture' = architecture
      BY <1>2, DynamicsAssumption DEF SetEngineArchitecture
    <2>2. CASE UNCHANGED <<limiters, limiterParams, mGroupsMap, limited>>
      BY <2>1, <2>2 DEF DynamicsInv, DynamicsTypeOK, MapIsOf, LinkedIn, EngineChannels
    <2>3. CASE /\ limiters' = NewLimiters(mChannelCount, architecture)
               /\ limiterParams' = NewParams(mChannelCount, architecture)
               /\ mGroupsMap' = NoChannels /\ limited' = FALSE
      <3>1. EngineChannels' = ChannelsOf(mChannelCount)
        BY <2>3 DEF NewLimiters, EngineChannels
      <3>2. DynamicsTypeOK'
        BY <2>1, <2>3, <3>1 DEF DynamicsTypeOK, NewLimiters, NewParams, NoChannels,
           LimiterParams, Groups
      <3>3. (MapIsOf(mGroupsMap, limiterParams))'
        BY <2>3, <3>1 DEF MapIsOf, NewParams, NoChannels
      <3>4. QED
        BY <2>3, <3>2, <3>3 DEF DynamicsInv
    <2>4. QED
      BY <1>2, <2>2, <2>3 DEF SetEngineArchitecture
  <1>3. ASSUME NEW named \in SUBSET ChannelsOf(mChannelCount),
               NEW asked \in [named -> [enable : BOOLEAN, linkGroup : LinkGroups]],
               SetLimiter(asked)
        PROVE  DynamicsInv'
    <2>1. /\ limiters' = [c \in EngineChannels |->
               IF c \in DOMAIN asked
               THEN [inUse |-> mEngineArchitecture.limiterInUse,
                     enabled |-> asked[c].enable, group |-> asked[c].linkGroup]
               ELSE limiters[c]]
          /\ UNCHANGED <<mEngineArchitecture, limiterParams, mGroupsMap, limited>>
      BY <1>3 DEF SetLimiter
    <2>2. EngineChannels' = EngineChannels
      BY <2>1 DEF EngineChannels
    <2>3. \A c \in EngineChannels :
            limiters'[c] \in [inUse : BOOLEAN, enabled : BOOLEAN, group : Groups]
      BY <2>1 DEF DynamicsInv, DynamicsTypeOK, Groups
    <2>4. DynamicsTypeOK'
      BY <2>1, <2>2, <2>3 DEF DynamicsInv, DynamicsTypeOK
    <2>5. QED
      BY <2>1, <2>2, <2>4 DEF DynamicsInv, MapIsOf, LinkedIn
  <1>4. QED
    BY <1>1, <1>2, <1>3, SamplesKeep
    DEF DynamicsNext, SetActive, ResetEngine, SetChannels, dynamicsVars

\* Limiters of a group limit alike, for every number of channels, every link
\* group, whatever factors are found and however the engine is replaced.
THEOREM LinkedAlwaysLimitAlike == DynamicsSpec => []LinkedLimitAlike
  <1>1. DynamicsInv => LinkedLimitAlike
    <2> SUFFICES ASSUME DynamicsInv PROVE LinkedLimitAlike
      OBVIOUS
    <2>1. ASSUME limited, NEW c \in EngineChannels, NEW d \in EngineChannels,
                 limiterParams[c].group = limiterParams[d].group,
                 limiterParams[c].group # NoGroup
          PROVE  /\ limiterParams[c].linkFactor = limiterParams[d].linkFactor
                 /\ limiterParams[c].linkFactor <= limiterParams[d].newFactor
      <3> DEFINE g == limiterParams[c].group
                 factors == {100} \cup {limiterParams[e].newFactor : e \in mGroupsMap[g]}
      <3>1. g \in Groups /\ d \in mGroupsMap[g] /\ mGroupsMap[g] \subseteq EngineChannels
        BY <2>1 DEF DynamicsInv, DynamicsTypeOK, MapIsOf, LimiterParams
      <3>2. limiterParams[c].linkFactor = Min(factors) /\ limiterParams[d].linkFactor = Min(factors)
        BY <2>1 DEF DynamicsInv, LinkedIn
      <3>3. ASSUME NEW e \in EngineChannels PROVE limiterParams[e].newFactor \in Nat
        <4>1. limiterParams[e] \in LimiterParams
          BY DEF DynamicsInv, DynamicsTypeOK
        <4>2. limiterParams[e].newFactor \in 0..100
          BY <4>1 DEF LimiterParams
        <4>3. QED
          BY <4>2
      <3>4. factors \in SUBSET Nat /\ limiterParams[d].newFactor \in factors
        BY <3>1, <3>3
      <3> HIDE DEF factors
      <3>5. Min(factors) <= limiterParams[d].newFactor
        BY <3>4, MinOfNaturals
      <3>6. QED
        BY <3>2, <3>5
    <2>2. QED
      BY <2>1 DEF LinkedLimitAlike, DynamicsInv, MapIsOf
  <1>2. QED
    BY <1>1, DynamicsInitially, DynamicsStep, PTL DEF DynamicsSpec
-----------------------------------------------------------------------------
(* The parameters of the bundle (BundleParameters.tla) *)

ParametersInv ==
  /\ ParametersAgree /\ library \in [bands : {library.bands}, bass : Int, virtualizer : Int]
  /\ mBassStrength \in Int /\ mVirtStrength \in Int

\* A gain of whole dB survives the way to mB and back.
LEMMA WholeDb == ASSUME NEW gain \in Int PROVE InDb(gain * 100) = gain
  BY DEF InDb

LEMMA PresetReachesLibrary ==
  ASSUME NEW preset \in DOMAIN SoftPresets
  PROVE  [b \in Bands |-> InDb(PresetLevels(preset)[b])] = SoftPresets[preset]
  <1>1. SoftPresets[preset] \in [Bands -> Int]
    BY ParametersAssumption
  <1>2. \A b \in Bands : InDb(PresetLevels(preset)[b]) = SoftPresets[preset][b]
    BY <1>1, WholeDb DEF PresetLevels
  <1>3. QED
    BY <1>1, <1>2

\* Bands are set: the library has them, whatever becomes of the level.
LEMMA BandsReachLibrary ==
  ASSUME ParametersInv, NEW levels, UpdateControlParameter(levels)
  PROVE  /\ library'.bands = [b \in Bands |-> InDb(mBandGain'[b])]
         /\ library' \in [bands : {library'.bands}, bass : Int, virtualizer : Int]
         /\ mBassStrength' \in Int /\ mVirtStrength' \in Int
         /\ levelled' => levelFrom' = InForce(effectOn, mBandGain, mBassStrength, mVolume)'
  <1>1. library' = [library EXCEPT !.bands = [b \in Bands |-> InDb(mBandGain'[b])]]
    BY DEF UpdateControlParameter
  <1>2. library \in [bands : {library.bands}, bass : Int, virtualizer : Int]
    BY DEF ParametersInv
  <1>3. levelled' => levelFrom' = InForce(effectOn, mBandGain, mBassStrength, mVolume)'
    BY DEF UpdateControlParameter, LimitLevel, InForce
  <1>4. QED
    BY <1>1, <1>2, <1>3 DEF UpdateControlParameter, ParametersInv

LEMMA ParametersStep == ParametersInv /\ [ParametersNext]_parameterVars => ParametersInv'
  <1> SUFFICES ASSUME ParametersInv, [ParametersNext]_parameterVars PROVE ParametersInv'
    OBVIOUS
  <1>1. ASSUME NEW on \in BOOLEAN, SetOperatingMode(on) PROVE ParametersInv'
    BY <1>1 DEF SetOperatingMode, LimitLevel, recordVars, ParametersInv, ParametersAgree,
       GetParameter, InForce
  <1>2. ASSUME NEW preset \in DOMAIN SoftPresets, SetEqualizerPreset(preset)
        PROVE  ParametersInv'
    <2>1. UpdateControlParameter(PresetLevels(preset))
          /\ mCurPreset' = IF levelled' THEN preset ELSE mCurPreset
      BY <1>2 DEF SetEqualizerPreset
    <2>2. mBandGain' = PresetLevels(preset) /\ halfway' = ~levelled'
      BY <2>1 DEF UpdateControlParameter, PresetLevels
    <2>3. library'.bands = SoftPresets[preset]
      BY <2>1, <2>2, BandsReachLibrary, PresetReachesLibrary
    <2>4. ~halfway' => mCurPreset' = preset
      BY <2>1, <2>2 DEF UpdateControlParameter, LimitLevel
    <2>5. ParametersAgree'
      BY <2>1, <2>3, <2>4, BandsReachLibrary DEF ParametersAgree, GetParameter
    <2>6. QED
      BY <2>1, <2>5, BandsReachLibrary DEF ParametersInv
  <1>3. ASSUME NEW levels, SetEqualizerBandLevels(levels) PROVE ParametersInv'
    <2>1. UpdateControlParameter(levels) /\ mCurPreset' = IF levelled' THEN Custom ELSE mCurPreset
      BY <1>3 DEF SetEqualizerBandLevels
    <2>2. ~halfway' => mCurPreset' = Custom
      BY <2>1 DEF UpdateControlParameter, LimitLevel
    <2>3. ParametersAgree'
      BY <2>1, <2>2, BandsReachLibrary DEF ParametersAgree, GetParameter
    <2>4. QED
      BY <2>1, <2>3, BandsReachLibrary DEF ParametersInv
  <1>4. ASSUME NEW strength \in Strengths, SetBassBoostStrength(strength) PROVE ParametersInv'
    <2>1. strength \in Int /\ (15 * strength) \div 1000 \in Int
      BY ParametersAssumption
    <2>2. library' \in [bands : {library'.bands}, bass : Int, virtualizer : Int]
          /\ library'.bands = library.bands
      BY <1>4, <2>1 DEF SetBassBoostStrength, ParametersInv
    <2>3. ParametersAgree'
      BY <1>4, <2>2 DEF SetBassBoostStrength, LimitLevel, ParametersInv, ParametersAgree,
         GetParameter, InForce
    <2>4. QED
      BY <1>4, <2>1, <2>2, <2>3 DEF SetBassBoostStrength, ParametersInv
  <1>5. ASSUME NEW strength \in Strengths, SetVirtualizerStrength(strength) PROVE ParametersInv'
    <2>1. strength \in Int /\ (strength * 32767) \div 1000 \in Int
      BY ParametersAssumption
    <2>2. library' \in [bands : {library'.bands}, bass : Int, virtualizer : Int]
          /\ library'.bands = library.bands
      BY <1>5, <2>1 DEF SetVirtualizerStrength, ParametersInv
    <2>3. ParametersAgree'
      BY <1>5, <2>2 DEF SetVirtualizerStrength, LimitLevel, ParametersInv, ParametersAgree,
         GetParameter, InForce
    <2>4. QED
      BY <1>5, <2>1, <2>2, <2>3 DEF SetVirtualizerStrength, ParametersInv
  <1>6. ASSUME NEW volume \in Volumes, SetVolumeStereo(volume) PROVE ParametersInv'
    BY <1>6 DEF SetVolumeStereo, LimitLevel, ParametersInv, ParametersAgree, GetParameter, InForce
  <1>7. CASE UNCHANGED parameterVars
    BY <1>7 DEF parameterVars, recordVars, ParametersInv, ParametersAgree, GetParameter, InForce
  <1>8. QED
    BY <1>1, <1>2, <1>3, <1>4, <1>5, <1>6, <1>7 DEF ParametersNext

LEMMA ParametersInitially == ParametersInit => ParametersInv
  BY DEF ParametersInit, ParametersInv, ParametersAgree, GetParameter, InForce, Custom
-----------------------------------------------------------------------------
(* The parameters of a reverb (Reverb.tla) *)

IsReverbLibrary(l) == l = [level |-> l.level, T60 |-> l.T60, roomSize |-> l.roomSize]

ReverbInv ==
  /\ ReverbAsAnswered /\ DOMAIN parameters = LibraryParams \cup PlainParams
  /\ IsReverbLibrary(reverbLibrary)

LEMMA ReverbInitially == ReverbInit => ReverbInv
  <1> SUFFICES ASSUME ReverbInit PROVE ReverbInv
    OBVIOUS
  <1>1. DOMAIN parameters = LibraryParams \cup PlainParams /\ parameters["decayTime"] = 1490
    BY DEF ReverbInit, LibraryParams, PlainParams
  <1>2. reverbLibrary = [level |-> 0, T60 |-> 1490, roomSize |-> 100]
        /\ levelSet = FALSE /\ asPreset = FALSE
    BY DEF ReverbInit
  <1>3. ReverbAsAnswered
    BY <1>1, <1>2 DEF ReverbAsAnswered, GetReverbParameter
  <1>4. IsReverbLibrary(reverbLibrary)
    BY <1>2 DEF IsReverbLibrary
  <1>5. QED
    BY <1>1, <1>3, <1>4 DEF ReverbInv

\* A value is recorded where it belongs, and nowhere else.
LEMMA RecordedThere ==
  ASSUME NEW p \in DOMAIN parameters, NEW value
  PROVE  /\ DOMAIN Recorded(p, value) = DOMAIN parameters
         /\ Recorded(p, value)[p] = (IF p = "decayTime" THEN Clipped(value) ELSE value)
         /\ \A q \in DOMAIN parameters \ {p} : Recorded(p, value)[q] = parameters[q]
  BY DEF Recorded

LEMMA ParameterSet ==
  ASSUME ReverbInv, NEW p \in LibraryParams \cup PlainParams, NEW value,
         SetEnvironmentalReverb(p, value)
  PROVE  ReverbInv'
  <1>1. /\ parameters' = Recorded(p, value) /\ DOMAIN parameters' = LibraryParams \cup PlainParams
        /\ \A q \in (LibraryParams \cup PlainParams) \ {p} : parameters'[q] = parameters[q]
    BY RecordedThere DEF SetEnvironmentalReverb, ReverbInv
  <1> DEFINE level == reverbLibrary.level
             T60 == reverbLibrary.T60
             size == reverbLibrary.roomSize
  <1>2. reverbLibrary = [level |-> level, T60 |-> T60, roomSize |-> size]
    BY DEF ReverbInv, IsReverbLibrary
  <1> HIDE DEF level, T60, size
  <1>3. CASE p \in PlainParams
    <2>1. p \notin LibraryParams /\ UNCHANGED <<reverbLibrary, levelSet, asPreset, mPreset>>
      BY <1>3 DEF SetEnvironmentalReverb, LibraryParams, PlainParams
    <2>2. \A q \in LibraryParams : parameters'[q] = parameters[q]
      BY <1>1, <2>1
    <2>3. QED
      BY <1>1, <1>2, <2>1, <2>2
      DEF ReverbInv, ReverbAsAnswered, GetReverbParameter, Recorded, LibraryParams
  <1>4. CASE p \in LibraryParams
    <2>1. /\ reverbLibrary' = InLibrary(parameters', p, reverbLibrary) /\ asPreset' = FALSE
          /\ levelSet' = (levelSet \/ p \in {"roomLevel", "level"})
      BY <1>4 DEF SetEnvironmentalReverb
    <2>2. CASE p \in {"roomLevel", "level"}
      <3>1. reverbLibrary' = [reverbLibrary EXCEPT !.level =
              ConvertLevel(parameters'["roomLevel"] + parameters'["level"] - MaxReverbLevel)]
        BY <2>1, <2>2 DEF InLibrary
      <3>2. parameters'["decayTime"] = parameters["decayTime"]
        BY <1>1, <2>2 DEF LibraryParams
      <3>3. reverbLibrary.T60 = parameters["decayTime"]
        BY DEF ReverbInv, ReverbAsAnswered, GetReverbParameter
      <3> DEFINE heard == ConvertLevel(parameters'["roomLevel"] + parameters'["level"] - MaxReverbLevel)
      <3>4. reverbLibrary' = [level |-> heard, T60 |-> T60, roomSize |-> size]
        BY <1>2, <3>1
      <3>5. T60 = parameters'["decayTime"]
        BY <1>2, <3>2, <3>3
      <3> HIDE DEF heard
      <3>6. reverbLibrary'.level = heard /\ reverbLibrary'.T60 = parameters'["decayTime"]
        BY <3>4, <3>5
      <3>7. ReverbAsAnswered'
        BY <2>1, <3>6 DEF ReverbAsAnswered, GetReverbParameter, ConvertLevel, heard
      <3>8. QED
        BY <1>1, <3>4, <3>7 DEF ReverbInv, IsReverbLibrary
    <2>3. CASE p = "decayTime"
      <3>1. reverbLibrary' = [reverbLibrary EXCEPT !.T60 = parameters'["decayTime"]]
        BY <2>1, <2>3 DEF InLibrary
      <3>2. parameters'["roomLevel"] = parameters["roomLevel"]
            /\ parameters'["level"] = parameters["level"]
        BY <1>1, <2>3 DEF LibraryParams
      <3> DEFINE time == parameters'["decayTime"]
      <3> HIDE DEF time
      <3>3. reverbLibrary' = [level |-> level, T60 |-> time, roomSize |-> size]
        BY <1>2, <3>1 DEF time
      <3>4. reverbLibrary'.level = reverbLibrary.level /\ reverbLibrary'.T60 = time
        BY <1>2, <3>3
      <3>5. levelSet' => levelSet
        BY <2>1, <2>3
      <3>6. ReverbAsAnswered'
        BY <2>1, <3>2, <3>4, <3>5
        DEF ReverbInv, ReverbAsAnswered, GetReverbParameter, ConvertLevel, time
      <3>7. QED
        BY <1>1, <3>3, <3>6 DEF ReverbInv, IsReverbLibrary
    <2>4. CASE p = "density"
      <3>1. reverbLibrary' = [reverbLibrary EXCEPT !.roomSize =
              ((parameters'["density"] * 99) \div 1000) + 1]
        BY <2>1, <2>4 DEF InLibrary
      <3>2. \A q \in {"roomLevel", "level", "decayTime"} : parameters'[q] = parameters[q]
        BY <1>1, <2>4 DEF LibraryParams
      <3> DEFINE newSize == ((parameters'["density"] * 99) \div 1000) + 1
      <3> HIDE DEF newSize
      <3>3. reverbLibrary' = [level |-> level, T60 |-> T60, roomSize |-> newSize]
        BY <1>2, <3>1 DEF newSize
      <3>4. reverbLibrary'.level = reverbLibrary.level /\ reverbLibrary'.T60 = reverbLibrary.T60
        BY <1>2, <3>3
      <3>0. levelSet' => levelSet
        BY <2>1, <2>4
      <3>5. ReverbAsAnswered'
        BY <2>1, <3>0, <3>2, <3>4 DEF ReverbInv, ReverbAsAnswered, GetReverbParameter, ConvertLevel
      <3>6. QED
        BY <1>1, <3>3, <3>5 DEF ReverbInv, IsReverbLibrary
    <2>5. QED
      BY <1>4, <2>2, <2>3, <2>4 DEF LibraryParams
  <1>5. QED
    BY <1>3, <1>4

\* A preset is loaded, all of it or what the library takes.
LEMMA PresetLoaded ==
  ASSUME ReverbInv, NEW refused \in SUBSET LibraryParams, LoadPreset(refused),
         mPreset' = mNextPreset
  PROVE  ReverbInv'
  <1> DEFINE loaded == LibraryParams \ refused
             levels == {"roomLevel", "level"} \cap loaded
             levelOf(record) == ConvertLevel(record["roomLevel"] + record["level"] - MaxReverbLevel)
  <1>1. DOMAIN parameters = LibraryParams \cup PlainParams
    BY DEF ReverbInv
  <1>2. parameters' = [p \in DOMAIN parameters |->
                         IF p \in loaded THEN Recorded(p, ReverbPresets[mNextPreset][p])[p]
                         ELSE parameters[p]]
    BY DEF LoadPreset
  <1>3. \A p \in DOMAIN parameters : \A value :
          Recorded(p, value)[p] = IF p = "decayTime" THEN Clipped(value) ELSE value
    BY RecordedThere
  <1>4. IsReverbLibrary(reverbLibrary)
    BY DEF ReverbInv
  <1>5. reverbLibrary'.level = IF levels = {} THEN reverbLibrary.level ELSE levelOf(parameters')
    <2>1. reverbLibrary'.level =
            IF levels = {} THEN reverbLibrary.level
            ELSE InLibrary(parameters', CHOOSE p \in levels : TRUE, reverbLibrary).level
      BY DEF LoadPreset
    <2>2. ASSUME levels # {}
          PROVE  InLibrary(parameters', CHOOSE p \in levels : TRUE, reverbLibrary).level
                   = levelOf(parameters')
      <3>1. (CHOOSE p \in levels : TRUE) \in {"roomLevel", "level"}
        BY <2>2
      <3>2. \A p \in {"roomLevel", "level"} :
              InLibrary(parameters', p, reverbLibrary) =
                [reverbLibrary EXCEPT !.level = levelOf(parameters')]
        BY DEF InLibrary
      <3>3. [reverbLibrary EXCEPT !.level = levelOf(parameters')].level = levelOf(parameters')
        BY <1>4 DEF IsReverbLibrary
      <3>4. QED
        BY <3>1, <3>2, <3>3
    <2>3. QED
      BY <2>1, <2>2
  <1>6. reverbLibrary'.T60 =
          IF "decayTime" \in loaded THEN parameters'["decayTime"] ELSE reverbLibrary.T60
    BY DEF LoadPreset
  <1>7. /\ levelSet' = (levelSet \/ levels # {}) /\ asPreset' = (refused = {})
        /\ IsReverbLibrary(reverbLibrary')
    BY DEF LoadPreset, IsReverbLibrary
  <1>8. DOMAIN parameters' = LibraryParams \cup PlainParams
        /\ \A p \in DOMAIN parameters \ loaded : parameters'[p] = parameters[p]
    BY <1>1, <1>2
  <1>9. reverbLibrary'.T60 = parameters'["decayTime"]
    BY <1>1, <1>6, <1>8 DEF ReverbInv, ReverbAsAnswered, GetReverbParameter, LibraryParams
  <1>10. levelSet' => reverbLibrary'.level = levelOf(parameters')
    <2>1. CASE levels # {}
      BY <1>5, <2>1
    <2>2. CASE levels = {}
      <3>1. levelSet' => levelSet
        BY <1>7, <2>2
      <3>2. parameters'["roomLevel"] = parameters["roomLevel"]
            /\ parameters'["level"] = parameters["level"]
        BY <1>1, <1>8, <2>2 DEF LibraryParams
      <3>3. levelSet => reverbLibrary.level = levelOf(parameters)
        BY DEF ReverbInv, ReverbAsAnswered, GetReverbParameter
      <3>4. levelOf(parameters) = levelOf(parameters')
        BY <3>2
      <3>5. QED
        BY <1>5, <2>2, <3>1, <3>3, <3>4
    <2>3. QED
      BY <2>1, <2>2
  <1>11. asPreset' => \A p \in LibraryParams :
           parameters'[p] = (Recorded(p, ReverbPresets[mPreset][p])[p])'
    <2> SUFFICES ASSUME refused = {}, NEW p \in LibraryParams
                 PROVE  parameters'[p] = (Recorded(p, ReverbPresets[mPreset][p])[p])'
      BY <1>7
    <2>1. parameters'[p] = Recorded(p, ReverbPresets[mNextPreset][p])[p]
      BY <1>1, <1>2
    <2>2. (Recorded(p, ReverbPresets[mPreset][p])[p])' =
            IF p = "decayTime" THEN Clipped(ReverbPresets[mNextPreset][p])
            ELSE ReverbPresets[mNextPreset][p]
      BY <1>8 DEF Recorded
    <2>3. QED
      BY <1>1, <1>3, <2>1, <2>2
  <1>12. ReverbAsAnswered'
    BY <1>9, <1>10, <1>11 DEF ReverbAsAnswered, GetReverbParameter, ConvertLevel
  <1>13. QED
    BY <1>7, <1>8, <1>12 DEF ReverbInv, IsReverbLibrary

LEMMA ReverbStep == ReverbInv /\ [ReverbNext]_reverbVars => ReverbInv'
  <1> SUFFICES ASSUME ReverbInv, [ReverbNext]_reverbVars PROVE ReverbInv'
    OBVIOUS
  <1>1. CASE /\ UNCHANGED <<parameters, reverbLibrary, levelSet>>
             /\ asPreset' = FALSE \/ UNCHANGED <<mPreset, asPreset>>
    BY <1>1 DEF ReverbInv, ReverbAsAnswered, GetReverbParameter, Recorded, IsReverbLibrary
  <1>2. ASSUME NEW p \in DOMAIN EnvironmentValues, NEW value \in EnvironmentValues[p],
               SetEnvironmentalReverb(p, value)
        PROVE  ReverbInv'
    BY <1>2, ParameterSet, ReverbAssumption
  <1>3. CASE ProcessReverb
    BY <1>1, <1>3, PresetLoaded DEF ProcessReverb
  <1>4. QED
    BY <1>1, <1>2, <1>3 DEF ReverbNext, SetEnabled, SetPresetReverb, reverbVars

\* What a client is answered is what the library works with, for every table of
\* presets and levels, whatever is refused and in whatever order it is set.
THEOREM AnswersAlwaysAgree == ParametersSpec /\ ReverbSpec => []AnswersAgree
  <1>1. ParametersSpec => []ParametersInv
    BY ParametersInitially, ParametersStep, PTL DEF ParametersSpec
  <1>2. ReverbSpec => []ReverbInv
    BY ReverbInitially, ReverbStep, PTL DEF ReverbSpec
  <1>3. ParametersInv /\ ReverbInv => AnswersAgree
    BY DEF ParametersInv, ReverbInv, AnswersAgree
  <1>4. QED
    BY <1>1, <1>2, <1>3, PTL

-----------------------------------------------------------------------------
(* The visualizer (Visualizer.tla) *)

VisualizerTypeOK ==
  /\ captureIdx \in 0 .. CaptureBufSize /\ captureSamples \in 1 .. CaptureBufSize
  /\ downstreamLatency \in Nat /\ sinceUpdate \in Int /\ sinceUpdate >= Never
  /\ played \in Nat /\ captureBuf \in [Positions -> Int]

\* How many samples have been written since a place of the ring was.
Age(p) == IF p < captureIdx THEN captureIdx - 1 - p ELSE captureIdx - 1 - p + CaptureBufSize

\* Every place holds the sample that its age says, or has been cleared.
RingInOrder == \A p \in Positions : captureBuf[p] \in {0, played - Age(p)}

VisualizerInv == VisualizerTypeOK /\ RingInOrder /\ CapturedUnbroken

\* Two numbers below n that differ by a multiple of n are the same.
LEMMA NoMultipleBetween ==
  ASSUME NEW n \in Nat \ {0}, NEW k \in Int, -n < n * k, n * k < n
  PROVE  k = 0
  <1>1. CASE k >= 1
    <2>1. n * k = n + n * (k - 1) /\ n * (k - 1) >= 0
      BY <1>1
    <2>2. QED
      BY <2>1
  <1>2. CASE k <= -1
    <2>1. n * k = -n + n * (k + 1) /\ n * (k + 1) <= 0
      BY <1>2
    <2>2. QED
      BY <2>1
  <1>3. QED
    BY <1>1, <1>2

LEMMA SameRest ==
  ASSUME NEW n \in Nat \ {0}, NEW a \in 0 .. n - 1, NEW b \in 0 .. n - 1, NEW j \in Int, NEW k \in Int,
         n * j + a = n * k + b
  PROVE  a = b
  <1>1. n * (k - j) = a - b
    OBVIOUS
  <1>2. k - j = 0
    BY <1>1, NoMultipleBetween
  <1>3. QED
    BY <1>1, <1>2

LEMMA QuotientAndRest ==
  ASSUME NEW n \in Nat \ {0}, NEW a \in Int
  PROVE  a % n \in 0 .. n - 1 /\ \E q \in Int : a = n * q + (a % n)
  <1>1. a % n \in 0 .. n - 1
    OBVIOUS
  <1>2. a \div n \in Int /\ a = n * (a \div n) + (a % n)
    OBVIOUS
  <1>3. QED
    BY <1>1, <1>2

\* The newest sample written to a place is as old as the place will be.
LEMMA NewestWrite ==
  ASSUME VisualizerTypeOK, NEW n \in Nat \ {0}, NEW p \in Positions, captureIdx' = IdxAfter(n)
  PROVE  LET writes == {i \in 1 .. n : WriteAt(i) = p}
         IN IF writes = {} THEN Age(p)' = Age(p) + n ELSE Max(writes) = n - Age(p)'
  <1> DEFINE N == CaptureBufSize
             writes == {i \in 1 .. n : WriteAt(i) = p}
             e == (captureIdx + n - 1) % N
             age == Age(p)'
             newest == n - age
  <1>1. N \in Nat \ {0} /\ captureIdx \in 0 .. N /\ p \in 0 .. N - 1
    BY VisualizerAssumption DEF VisualizerTypeOK, Positions
  <1>2. e \in 0 .. N - 1 /\ captureIdx' = e + 1
    BY <1>1 DEF IdxAfter
  <1>3. age = IF p <= e THEN e - p ELSE e - p + N
    BY <1>1, <1>2 DEF Age
  <1>4. age \in 0 .. N - 1
    BY <1>1, <1>2, <1>3
  <1>5. PICK q \in Int : captureIdx + n - 1 = N * q + e
    <2>1. captureIdx + n - 1 \in Int
      BY <1>1
    <2>2. QED
      BY <1>1, <2>1, QuotientAndRest, Zenon
  <1>6. PICK u \in Int : captureIdx + n - 1 = N * u + p + age
    <2>1. CASE p <= e
      <3>1. captureIdx + n - 1 = N * q + p + age
        BY <1>1, <1>2, <1>3, <1>5, <2>1
      <3>2. QED
        BY <3>1
    <2>2. CASE ~(p <= e)
      <3>1. N * (q - 1) = N * q - N
        BY <1>1
      <3>2. captureIdx + n - 1 = N * (q - 1) + p + age
        BY <1>1, <1>2, <1>3, <1>5, <2>2, <3>1
      <3>3. QED
        BY <3>2
    <2>3. QED
      BY <2>1, <2>2
  <1> HIDE DEF e, age
  <1>7. ASSUME NEW i \in writes
        PROVE  i <= newest
    <2>1. i \in 1 .. n /\ (captureIdx + i - 1) % N = p
      BY DEF WriteAt
    <2>2. PICK v \in Int : captureIdx + i - 1 = N * v + p
      <3>1. captureIdx + i - 1 \in Int
        BY <1>1, <2>1
      <3>2. QED
        BY <1>1, <2>1, <3>1, QuotientAndRest, Zenon
    <2>3. N * (u - v) = n - i - age
      BY <1>1, <1>4, <1>6, <2>1, <2>2
    <2>4. CASE u - v >= 0
      <3>1. N * (u - v) >= 0
        BY <1>1, <2>4
      <3>2. QED
        BY <1>4, <2>1, <2>3, <3>1
    <2>5. CASE u - v < 0
      <3>1. N * (u - v) <= -N
        <4>1. N * (u - v) = -N + N * (u - v + 1) /\ N * (u - v + 1) <= 0
          BY <1>1, <2>5
        <4>2. QED
          BY <1>1, <4>1
      <3>2. QED
        BY <1>1, <1>4, <2>1, <2>3, <3>1
    <2>6. QED
      BY <2>4, <2>5
  <1>8. CASE newest >= 1
    <2>1. newest \in 1 .. n
      BY <1>4, <1>8
    <2>2. captureIdx + newest - 1 = N * u + p
      BY <1>1, <1>4, <1>6
    <2>3. (captureIdx + newest - 1) % N = p
      <3>0. captureIdx + newest - 1 \in Int
        BY <1>1, <2>1
      <3>1. PICK v \in Int : captureIdx + newest - 1 = N * v + ((captureIdx + newest - 1) % N)
        BY <1>1, <3>0, QuotientAndRest, Zenon
      <3>2. (captureIdx + newest - 1) % N \in 0 .. N - 1
        BY <1>1, <3>0, QuotientAndRest, Zenon
      <3>3. QED
        <4> DEFINE rest == (captureIdx + newest - 1) % N
        <4> HIDE DEF rest
        <4>1. rest \in 0 .. N - 1 /\ N * v + rest = N * u + p
          BY <2>2, <3>1, <3>2 DEF rest
        <4>2. rest = p
          BY <1>1, <4>1, SameRest
        <4>3. QED
          BY <4>2 DEF rest
    <2>4. newest \in writes
      BY <2>1, <2>3 DEF WriteAt
    <2>5. Max(writes) = newest
      BY <1>7, <2>1, <2>4 DEF Max
    <2>6. QED
      BY <2>4, <2>5 DEF age
  <1>9. CASE newest < 1
    <2>1. writes = {}
      BY <1>4, <1>7, <1>9
    <2>2. age - n \in 0 .. N - 1 /\ Age(p) \in 0 .. N - 1
      BY <1>1, <1>4, <1>9 DEF Age
    <2>3. N * u + age - n = captureIdx - 1 - p
      BY <1>1, <1>4, <1>6
    <2>4. \E v \in Int : captureIdx - 1 - p = N * v + Age(p)
      <3>1. CASE p < captureIdx
        BY <1>1, <3>1, Zenon, SMT DEF Age
      <3>2. CASE ~(p < captureIdx)
        BY <1>1, <3>2 DEF Age
      <3>3. QED
        BY <3>1, <3>2
    <2>5. age - n = Age(p)
      <3>1. PICK v \in Int : captureIdx - 1 - p = N * v + Age(p)
        BY <2>4
      <3> DEFINE left == age - n
                 before == Age(p)
      <3> HIDE DEF left, before
      <3>2. left \in 0 .. N - 1 /\ before \in 0 .. N - 1 /\ N * u + left = N * v + before
        BY <1>1, <1>4, <2>2, <2>3, <3>1 DEF left, before
      <3>3. left = before
        BY <1>1, <3>2, SameRest
      <3>4. QED
        BY <3>3 DEF left, before
    <2>6. QED
      BY <1>4, <2>1, <2>5 DEF age
  <1>10. QED
    BY <1>4, <1>8, <1>9

\* What is processed goes on where the ring ends.
LEMMA RingKeeps ==
  ASSUME VisualizerInv, NEW n \in 1 .. MaxBuffer, ProcessAudio(n)
  PROVE  VisualizerInv'
  <1> DEFINE writes(p) == {i \in 1 .. n : WriteAt(i) = p}
  <1>1. n \in Nat \ {0} /\ VisualizerTypeOK /\ CaptureBufSize \in Nat \ {0}
    BY VisualizerAssumption DEF VisualizerInv
  <1>2. /\ captureBuf' = [p \in Positions |-> IF writes(p) = {} THEN captureBuf[p] ELSE played + Max(writes(p))]
        /\ captureIdx' = IdxAfter(n) /\ sinceUpdate' = 0 /\ played' = played + n
        /\ UNCHANGED <<downstreamLatency, captureSamples, captured>>
    BY Zenon DEF ProcessAudio
  <1>3. captureIdx' \in 0 .. CaptureBufSize
    BY <1>1, <1>2 DEF IdxAfter, VisualizerTypeOK
  <1>4. ASSUME NEW p \in Positions
        PROVE  /\ captureBuf'[p] \in Int
               /\ captureBuf'[p] \in {0, played' - Age(p)'}
    <2>1. IF writes(p) = {} THEN Age(p)' = Age(p) + n ELSE Max(writes(p)) = n - Age(p)'
      BY <1>1, <1>2, NewestWrite
    <2>2. captureBuf[p] \in Int /\ captureBuf[p] \in {0, played - Age(p)}
      BY <1>1 DEF VisualizerInv, VisualizerTypeOK, RingInOrder
    <2>3. captureBuf'[p] = IF writes(p) = {} THEN captureBuf[p] ELSE played + Max(writes(p))
      BY <1>2
    <2>4. played \in Nat /\ Age(p) \in Int /\ Age(p)' \in Int
      BY <1>1, <1>3 DEF VisualizerTypeOK, Positions, Age
    <2> HIDE DEF writes
    <2>5. CASE writes(p) = {}
      BY <1>1, <1>2, <2>1, <2>2, <2>3, <2>4, <2>5
    <2>6. CASE writes(p) # {}
      BY <1>1, <1>2, <2>1, <2>3, <2>4, <2>6
    <2>7. QED
      BY <2>5, <2>6
  <1>5. VisualizerTypeOK'
    <2>1. captureBuf' \in [Positions -> Int]
      BY <1>2, <1>4
    <2>2. QED
      BY <1>1, <1>2, <1>3, <2>1 DEF VisualizerTypeOK, Never
  <1>6. RingInOrder' /\ CapturedUnbroken'
    BY <1>2, <1>4 DEF VisualizerInv, RingInOrder, CapturedUnbroken, Positions
  <1>7. QED
    BY <1>5, <1>6 DEF VisualizerInv

\* The places that a capture is taken from, one for each of its samples.
Wrapped ==
  LET point == captureIdx - Offset
  IN IF point >= 0 THEN 0 ELSE IF -point > captureSamples THEN captureSamples ELSE -point
Place(i) ==
  LET point == captureIdx - Offset
  IN IF i <= Wrapped THEN CaptureBufSize - Wrapped + i - 1
     ELSE (IF point < 0 THEN 0 ELSE point) + i - Wrapped - 1

LEMMA CapturedPlaces ==
  ASSUME VisualizerTypeOK
  PROVE  /\ \A i \in 1 .. captureSamples : Place(i) \in Positions
         /\ \A i \in 1 .. captureSamples - 1 : Age(Place(i + 1)) = Age(Place(i)) - 1
         /\ StillToPlay = 0 => Place(captureSamples) = (captureIdx - 1) % CaptureBufSize
         /\ Wrapped \in 0 .. captureSamples
         /\ Len(Captured) = captureSamples
         /\ \A i \in 1 .. captureSamples : Captured[i] = captureBuf[Place(i)]
  <1>1. /\ CaptureBufSize \in Nat \ {0} /\ captureIdx \in 0 .. CaptureBufSize
        /\ captureSamples \in 1 .. CaptureBufSize
    BY VisualizerAssumption DEF VisualizerTypeOK
  <1>2. StillToPlay \in Nat
    BY DEF VisualizerTypeOK, StillToPlay, Delta, Never
  <1>3. Offset \in captureSamples .. CaptureBufSize /\ (StillToPlay = 0 => Offset = captureSamples)
    BY <1>1, <1>2 DEF Offset
  <1>4. Wrapped \in 0 .. captureSamples
    BY <1>1, <1>3 DEF Wrapped
  <1>5. ASSUME NEW i \in 1 .. captureSamples
        PROVE  Place(i) \in Positions
    BY <1>1, <1>3, <1>4 DEF Place, Wrapped, Positions
  <1>6. ASSUME NEW i \in 1 .. captureSamples - 1
        PROVE  Age(Place(i + 1)) = Age(Place(i)) - 1
    BY <1>1, <1>3, <1>4 DEF Place, Wrapped, Age
  <1>7. StillToPlay = 0 => Place(captureSamples) = (captureIdx - 1) % CaptureBufSize
    <2>1. CASE captureIdx = 0
      BY <1>1, <1>3, <2>1 DEF Place, Wrapped
    <2>2. CASE captureIdx > 0
      BY <1>1, <1>3, <2>2 DEF Place, Wrapped
    <2>3. QED
      BY <1>1, <2>1, <2>2
  <1> DEFINE first  == From(CaptureBufSize - Wrapped, Wrapped)
             start  == IF captureIdx - Offset < 0 THEN 0 ELSE captureIdx - Offset
             second == From(start, captureSamples - Wrapped)
  <1>8. Captured = first \o second
    BY DEF Captured, Wrapped
  <1>9. /\ first \in Seq(Int) /\ Len(first) = Wrapped
        /\ \A i \in 1 .. Wrapped : first[i] = captureBuf[CaptureBufSize - Wrapped + i - 1]
    <2>1. \A i \in 1 .. Wrapped : captureBuf[CaptureBufSize - Wrapped + i - 1] \in Int
      BY <1>1, <1>4 DEF VisualizerTypeOK, Positions
    <2>2. QED
      BY <1>1, <1>4, <2>1 DEF From
  <1>10. /\ second \in Seq(Int) /\ Len(second) = captureSamples - Wrapped
         /\ \A i \in 1 .. captureSamples - Wrapped : second[i] = captureBuf[start + i - 1]
    <2>1. start \in Int
      BY <1>1, <1>3
    <2>2. \A i \in 1 .. captureSamples - Wrapped : start + i - 1 \in Positions
      BY <1>1, <1>3, <1>4 DEF Wrapped, Positions
    <2>3. \A i \in 1 .. captureSamples - Wrapped : captureBuf[start + i - 1] \in Int
      BY <2>2 DEF VisualizerTypeOK
    <2>4. QED
      BY <1>1, <1>4, <2>1, <2>3 DEF From
  <1> HIDE DEF first, second
  <1>11. Len(first \o second) = captureSamples
    BY <1>1, <1>4, <1>9, <1>10
  <1>12. ASSUME NEW i \in 1 .. captureSamples
         PROVE  (first \o second)[i] = captureBuf[Place(i)]
    <2>1. CASE i <= Wrapped
      BY <1>1, <1>4, <1>9, <1>10, <2>1 DEF Place
    <2>2. CASE i > Wrapped
      <3>1. (first \o second)[i] = second[i - Wrapped]
        BY <1>1, <1>4, <1>9, <1>10, <2>2
      <3>2. second[i - Wrapped] = captureBuf[start + (i - Wrapped) - 1]
        BY <1>1, <1>4, <1>10, <2>2
      <3>3. Place(i) = start + (i - Wrapped) - 1
        BY <1>1, <1>3, <1>4, <2>2 DEF Place
      <3>4. QED
        BY <3>1, <3>2, <3>3
    <2>3. i <= Wrapped \/ i > Wrapped
      BY <1>1, <1>4
    <2>4. QED
      BY <2>1, <2>2, <2>3, Zenon
  <1>13. QED
    BY <1>4, <1>5, <1>6, <1>7, <1>8, <1>11, <1>12

LEMMA CaptureUnbroken ==
  ASSUME VisualizerInv, Capture
  PROVE  CapturedUnbroken'
  <1>1. VisualizerTypeOK /\ RingInOrder /\ captureSamples \in Nat \ {0}
    BY VisualizerAssumption DEF VisualizerInv, VisualizerTypeOK
  <1>2. CASE captured' = [result |-> Silence, latest |-> FALSE, upTo |-> 0]
    <2>1. captured'.result = Silence /\ ~captured'.latest
      BY <1>2
    <2>2. Len(Silence) = captureSamples /\ \A i \in 1 .. captureSamples : Silence[i] = 0
      BY <1>1 DEF Silence
    <2>3. QED
      BY <1>1, <2>1, <2>2 DEF CapturedUnbroken
  <1>3. CASE captured' = [result |-> Captured, latest |-> StillToPlay = 0,
                          upTo |-> captureBuf[(captureIdx - 1) % CaptureBufSize]]
    <2>1. /\ captured'.result = Captured /\ captured'.latest = (StillToPlay = 0)
          /\ captured'.upTo = captureBuf[(captureIdx - 1) % CaptureBufSize]
      BY <1>3
    <2>2. ASSUME NEW i \in 1 .. Len(Captured) - 1, Captured[i] # 0
          PROVE  Captured[i + 1] \in {0, Captured[i] + 1}
      <3>1. i \in 1 .. captureSamples - 1 /\ i \in 1 .. captureSamples /\ i + 1 \in 1 .. captureSamples
        BY <1>1, CapturedPlaces
      <3>2. /\ Captured[i] = captureBuf[Place(i)] /\ Captured[i + 1] = captureBuf[Place(i + 1)]
            /\ Place(i) \in Positions /\ Place(i + 1) \in Positions
            /\ Age(Place(i + 1)) = Age(Place(i)) - 1
        BY <1>1, <3>1, CapturedPlaces
      <3>3. /\ captureBuf[Place(i)] = played - Age(Place(i))
            /\ captureBuf[Place(i + 1)] \in {0, played - Age(Place(i + 1))}
        BY <1>1, <2>2, <3>2 DEF RingInOrder
      <3>4. \A p \in Positions : Age(p) \in Int
        BY <1>1, VisualizerAssumption DEF VisualizerTypeOK, Positions, Age
      <3>5. played \in Int /\ Age(Place(i)) \in Int
        BY <1>1, <3>2, <3>4 DEF VisualizerTypeOK
      <3>6. QED
        BY <3>2, <3>3, <3>5
    <2>3. StillToPlay = 0 => Last(Captured) = captureBuf[(captureIdx - 1) % CaptureBufSize]
      BY <1>1, CapturedPlaces DEF Last
    <2>4. QED
      BY <2>1, <2>2, <2>3 DEF CapturedUnbroken
  <1>4. QED
    BY <1>2, <1>3 DEF Capture

LEMMA VisualizerInitially == VisualizerInit => VisualizerInv
  <1> SUFFICES ASSUME VisualizerInit PROVE VisualizerInv
    OBVIOUS
  <1>1. VisualizerTypeOK
    BY VisualizerAssumption DEF VisualizerInit, VisualizerTypeOK, SilentBuf, Never
  <1>2. \A p \in Positions : captureBuf[p] = 0
    BY DEF VisualizerInit, SilentBuf
  <1>3. captured.result = <<>> /\ ~captured.latest
    BY DEF VisualizerInit
  <1>4. QED
    BY <1>1, <1>2, <1>3 DEF VisualizerInv, RingInOrder, CapturedUnbroken

LEMMA VisualizerStep == VisualizerInv /\ [VisualizerNext]_visualizerVars => VisualizerInv'
  <1> SUFFICES ASSUME VisualizerInv, [VisualizerNext]_visualizerVars PROVE VisualizerInv'
    OBVIOUS
  <1>1. CASE /\ UNCHANGED <<captureBuf, captureIdx, played, captured>>
             /\ captureSamples' \in 1 .. CaptureBufSize /\ downstreamLatency' \in Nat
             /\ sinceUpdate' \in Int /\ sinceUpdate' >= Never
    <2>1. VisualizerTypeOK'
      BY <1>1 DEF VisualizerInv, VisualizerTypeOK
    <2>2. RingInOrder'
      BY <1>1 DEF VisualizerInv, RingInOrder, Age
    <2>3. QED
      BY <1>1, <2>1, <2>2 DEF VisualizerInv, CapturedUnbroken
  <1>2. CASE ResetCapture
    <2>1. VisualizerTypeOK'
      BY <1>2 DEF ResetCapture, VisualizerInv, VisualizerTypeOK, SilentBuf
    <2>2. RingInOrder'
      BY <1>2 DEF ResetCapture, RingInOrder, SilentBuf
    <2>3. QED
      BY <1>2, <2>1, <2>2 DEF ResetCapture, VisualizerInv, CapturedUnbroken
  <1>3. CASE SetVisualizerParameter
    <2>1. captureSamples' \in 1 .. CaptureBufSize /\ downstreamLatency' \in Nat
      BY <1>3, VisualizerAssumption DEF SetVisualizerParameter, VisualizerInv, VisualizerTypeOK
    <2>2. QED
      BY <1>1, <1>3, <2>1 DEF SetVisualizerParameter, VisualizerInv, VisualizerTypeOK
  <1>4. CASE TimePasses
    BY <1>1, <1>4 DEF TimePasses, VisualizerInv, VisualizerTypeOK, Never
  <1>5. CASE Capture
    <2>1. VisualizerTypeOK'
      BY <1>5 DEF Capture, VisualizerInv, VisualizerTypeOK, Never
    <2>2. RingInOrder'
      BY <1>5 DEF Capture, VisualizerInv, RingInOrder, Age
    <2>3. QED
      BY <1>5, <2>1, <2>2, CaptureUnbroken DEF VisualizerInv
  <1>6. CASE Enable \/ Disable \/ GetMeasure \/ UNCHANGED visualizerVars
    BY <1>1, <1>6 DEF Enable, Disable, GetMeasure, visualizerVars, VisualizerInv, VisualizerTypeOK
  <1>7. QED
    BY <1>2, <1>3, <1>4, <1>5, <1>6, RingKeeps DEF VisualizerNext

\* What is captured is one stretch of what was played, wherever the ring wraps
\* and however long the buffers are that go round it.
THEOREM CapturedAlwaysUnbroken == VisualizerSpec => []CapturedUnbroken
  <1>1. VisualizerInv => CapturedUnbroken
    BY DEF VisualizerInv
  <1>2. QED
    BY <1>1, VisualizerInitially, VisualizerStep, PTL DEF VisualizerSpec
-----------------------------------------------------------------------------
(* The buffer that a patch needs (PortConfigs.tla)                            *)

\* Numbers of frames up to the largest power of two that is considered.
FrameCounts == {n \in Nat : n <= 1048576}

LEMMA PowersOfTwo == \A j \in 0 .. 20 : 2^j \in FrameCounts /\ 2^j > 0
  <1>. DEFINE Is(j) == 2^j \in FrameCounts /\ 2^j > 0
  <1>1. \A j \in 0 .. 20 : \/ j = 0 \/ j = 1 \/ j = 2 \/ j = 3 \/ j = 4 \/ j = 5 \/ j = 6
                           \/ j = 7 \/ j = 8 \/ j = 9 \/ j = 10 \/ j = 11 \/ j = 12 \/ j = 13
                           \/ j = 14 \/ j = 15 \/ j = 16 \/ j = 17 \/ j = 18 \/ j = 19 \/ j = 20
    OBVIOUS
  <1>2. /\ 2^0 = 1 /\ 2^1 = 2 /\ 2^2 = 4 /\ 2^3 = 8 /\ 2^4 = 16 /\ 2^5 = 32 /\ 2^6 = 64
        /\ 2^7 = 128 /\ 2^8 = 256 /\ 2^9 = 512 /\ 2^10 = 1024 /\ 2^11 = 2048 /\ 2^12 = 4096
        /\ 2^13 = 8192 /\ 2^14 = 16384 /\ 2^15 = 32768 /\ 2^16 = 65536 /\ 2^17 = 131072
        /\ 2^18 = 262144 /\ 2^19 = 524288 /\ 2^20 = 1048576
    BY SMT
  <1>3. Is(0) /\ Is(1) /\ Is(2) /\ Is(3) /\ Is(4) /\ Is(5) /\ Is(6)
    BY <1>2, SMT DEF FrameCounts
  <1>4. Is(7) /\ Is(8) /\ Is(9) /\ Is(10) /\ Is(11) /\ Is(12) /\ Is(13)
    BY <1>2, SMT DEF FrameCounts
  <1>5. Is(14) /\ Is(15) /\ Is(16) /\ Is(17) /\ Is(18) /\ Is(19) /\ Is(20)
    BY <1>2, SMT DEF FrameCounts
  <1>. HIDE DEF Is
  <1>6. \A j \in 0 .. 20 : Is(j)
    BY <1>1, <1>3, <1>4, <1>5, Zenon
  <1>. QED
    BY <1>6 DEF Is

LEMMA LargestPower == 20 \in 0 .. 20 /\ \A n \in FrameCounts : 2^20 >= n
  BY SMT DEF FrameCounts

\* SmallestPowerOf2From rounds up, and does not turn the order round.
LEMMA RoundsUp ==
  ASSUME NEW n \in FrameCounts
  PROVE  /\ SmallestPowerOf2From(n) \in FrameCounts
         /\ n <= SmallestPowerOf2From(n) /\ 0 < SmallestPowerOf2From(n)
  <1>. DEFINE powers == {2^k : k \in {j \in 0 .. 20 : 2^j >= n}}
  <1>1. ASSUME NEW j \in 0 .. 20, 2^j >= n
        PROVE  2^j \in FrameCounts /\ n <= 2^j /\ 0 < 2^j
    <2>1. 2^j \in FrameCounts /\ 2^j > 0
      BY PowersOfTwo
    <2>2. 2^j \in Nat /\ n \in Nat
      BY <2>1, SMT DEF FrameCounts
    <2>. QED
      BY <1>1, <2>1, <2>2, SMT
  <1>2. 2^20 \in powers
    BY LargestPower
  <1>3. powers \in SUBSET Nat /\ powers # {}
    BY <1>1, <1>2, SMT DEF FrameCounts
  <1>4. Min(powers) \in powers
    BY <1>3, MinOfNaturals, Zenon
  <1>. QED
    BY <1>1, <1>4 DEF SmallestPowerOf2From

LEMMA RoundingKeepsOrder ==
  ASSUME NEW m \in FrameCounts, NEW n \in FrameCounts, m <= n
  PROVE  SmallestPowerOf2From(m) <= SmallestPowerOf2From(n)
  <1>. DEFINE Powers(i) == {2^k : k \in {j \in 0 .. 20 : 2^j >= i}}
  <1>1. Powers(n) \subseteq Powers(m)
    <2>1. ASSUME NEW k \in 0 .. 20, 2^k >= n PROVE 2^k >= m
      BY <2>1, PowersOfTwo, SMT DEF FrameCounts
    <2>. QED
      BY <2>1
  <1>2. \A x \in Powers(m) : x \in Nat
    BY PowersOfTwo, SMT DEF FrameCounts
  <1>3. 2^20 \in Powers(n)
    BY LargestPower
  <1>4. Powers(n) \in SUBSET Nat /\ Powers(n) # {} /\ Powers(m) \in SUBSET Nat /\ Powers(m) # {}
    BY <1>1, <1>2, <1>3
  <1>5. Min(Powers(n)) \in Powers(n)
    BY <1>4, MinOfNaturals, Zenon
  <1>6. \A x \in Powers(m) : Min(Powers(m)) <= x
    BY <1>4, MinOfNaturals, Zenon
  <1>. QED
    BY <1>1, <1>5, <1>6 DEF SmallestPowerOf2From

\* The frames that last the latency, in whole sixteens.
Sixteens(latencyMs, rate) == 16 * DivideUp((latencyMs * rate) \div 1000, 16)

NominalLatencies == {5, 21, 85}

LEMMA WholeSixteens ==
  ASSUME NEW L \in NominalLatencies, NEW rate \in SampleRates
  PROVE  Sixteens(L, rate) \in FrameCounts /\ Sixteens(L, rate) > 0
  <1>1. CASE L = 5
    BY <1>1, SMT DEF Sixteens, DivideUp, SampleRates, FrameCounts
  <1>2. CASE L = 21
    BY <1>2, SMT DEF Sixteens, DivideUp, SampleRates, FrameCounts
  <1>3. CASE L = 85
    BY <1>3, SMT DEF Sixteens, DivideUp, SampleRates, FrameCounts
  <1>. QED
    BY <1>1, <1>2, <1>3 DEF NominalLatencies

LEMMA SixteensKeepOrder ==
  ASSUME NEW L \in NominalLatencies, NEW low \in SampleRates, NEW high \in SampleRates, low <= high
  PROVE  Sixteens(L, low) <= Sixteens(L, high)
  <1>1. CASE L = 5
    BY <1>1, SMT DEF Sixteens, DivideUp, SampleRates
  <1>2. CASE L = 21
    BY <1>2, SMT DEF Sixteens, DivideUp, SampleRates
  <1>3. CASE L = 85
    BY <1>3, SMT DEF Sixteens, DivideUp, SampleRates
  <1>. QED
    BY <1>1, <1>2, <1>3 DEF NominalLatencies

LEMMA BufferSizes ==
  ASSUME NEW L \in NominalLatencies, NEW rate \in SampleRates
  PROVE  /\ CalculateBufferSizeFramesForPcm(L, rate) \in FrameCounts
         /\ CalculateBufferSizeFramesForPcm(L, rate) > 0
  <1>. DEFINE m == Sixteens(L, rate)
  <1>1. m \in FrameCounts /\ m > 0
    BY WholeSixteens
  <1>2. SmallestPowerOf2From(m) \in FrameCounts /\ SmallestPowerOf2From(m) > 0
    BY <1>1, RoundsUp, SMT DEF FrameCounts
  <1>. QED
    BY <1>1, <1>2, SMT DEF CalculateBufferSizeFramesForPcm, Sixteens

\* A higher rate never needs a smaller buffer.
LEMMA BufferSizesKeepOrder ==
  ASSUME NEW L \in NominalLatencies, NEW low \in SampleRates, NEW high \in SampleRates, low <= high
  PROVE  CalculateBufferSizeFramesForPcm(L, low) <= CalculateBufferSizeFramesForPcm(L, high)
  <1>. DEFINE m == Sixteens(L, low)
              n == Sixteens(L, high)
              Size(rate, frames) == IF rate < 44100 \/ frames <= 512 THEN frames
                                    ELSE SmallestPowerOf2From(frames)
  <1>1. m \in FrameCounts /\ n \in FrameCounts
    BY WholeSixteens
  <1>2. m <= n
    BY SixteensKeepOrder
  <1>3. n <= SmallestPowerOf2From(n) /\ SmallestPowerOf2From(n) \in FrameCounts
    BY <1>1, RoundsUp
  <1>4. /\ SmallestPowerOf2From(m) <= SmallestPowerOf2From(n)
        /\ SmallestPowerOf2From(m) \in FrameCounts
    BY <1>1, <1>2, RoundingKeepsOrder, RoundsUp
  <1>5. CalculateBufferSizeFramesForPcm(L, low) = Size(low, m)
    BY SMT DEF CalculateBufferSizeFramesForPcm, Sixteens
  <1>6. CalculateBufferSizeFramesForPcm(L, high) = Size(high, n)
    BY SMT DEF CalculateBufferSizeFramesForPcm, Sixteens
  <1>7. low \in Nat /\ high \in Nat
    BY SMT DEF SampleRates
  <1>8. /\ m \in Nat /\ n \in Nat
        /\ SmallestPowerOf2From(m) \in Nat /\ SmallestPowerOf2From(n) \in Nat
    BY <1>1, <1>3, <1>4, SMT DEF FrameCounts
  <1>. HIDE DEF m, n
  <1>9. Size(low, m) <= Size(high, n)
    BY <1>2, <1>3, <1>4, <1>7, <1>8, SMT
  <1>. QED
    BY <1>5, <1>6, <1>9

LEMMA LatencyKnown == NominalLatencyMs \in NominalLatencies
  <1>1. SubmixLatencyMs = 21
    BY SMT DEF SubmixLatencyMs
  <1>. QED
    BY <1>1 DEF NominalLatencies, NominalLatencyMs, PrimaryLatencyMs

\* A stream has room for the buffer in 2^30 bytes.
LEMMA FramesFit ==
  ASSUME NEW frames \in FrameCounts, frames > 0, NEW config
  PROVE  FrameSize(config) <= 2^30 \div frames
  <1>1. 2^30 = 1073741824
    BY SMT
  <1>2. FrameSize(config) \in {2, 3, 4, 6, 8, 48, 72, 96}
    BY SMT DEF FrameSize, SampleSize, ChannelCount
  <1>3. 96 <= 1073741824 \div frames
    BY SMT DEF FrameCounts
  <1>4. 1073741824 \div frames \in Int
    BY SMT DEF FrameCounts
  <1>. QED
    BY <1>1, <1>2, <1>3, <1>4, SMT

-----------------------------------------------------------------------------
(* The configurations of the modules (Configuration.tla)                      *)

SoundPort ==
  [type : {"mix", "device"}, external : BOOLEAN,
   profiles : UniformProfiles, connectedProfiles : UniformProfiles]

\* Ports have uniform profiles, routes and initial configs name ports of the
\* configuration, and initial configs are those of device ports.
SoundConfiguration(c) ==
  /\ c.ports \in Seq(SoundPort)
  /\ \A r \in c.routes : r.sources \cup {r.sink} \subseteq 1 .. Len(c.ports)
  /\ \A d \in DOMAIN c.initials :
       d \in 1 .. Len(c.ports) /\ c.ports[d].type = "device" /\ c.initials[d].port = d

SoundProfile == [format : AllFormats, channelMasks : Seq(AllMasks), sampleRates : Seq(SampleRates)]

LEMMA FewProfiles ==
  ASSUME NEW f \in AllFormats, NEW g \in AllFormats, NEW masks \in Seq(AllMasks), masks # <<>>,
         NEW rates \in Seq(SampleRates), rates # <<>>
  PROVE  /\ <<>> \in UniformProfiles
         /\ <<Profile(f, masks, rates)>> \in UniformProfiles
         /\ <<Profile(f, masks, rates), Profile(g, masks, rates)>> \in UniformProfiles
  <1>. DEFINE p == Profile(f, masks, rates)
              q == Profile(g, masks, rates)
  <1>1. p \in SoundProfile /\ q \in SoundProfile
    BY DEF SoundProfile, Profile
  <1>2. p.channelMasks = masks /\ p.sampleRates = rates /\ q.channelMasks = masks /\ q.sampleRates = rates
    BY DEF Profile
  <1>. HIDE DEF p, q
  <1>3. <<>> \in Seq(SoundProfile) /\ <<p>> \in Seq(SoundProfile) /\ <<p, q>> \in Seq(SoundProfile)
    BY <1>1
  <1>4. \A i \in DOMAIN <<p>> : <<p>>[i] = p
    OBVIOUS
  <1>5. <<p, q>>[1] = p /\ \A i \in DOMAIN <<p, q>> : <<p, q>>[i] \in {p, q}
    OBVIOUS
  <1>6. <<>> \in UniformProfiles
    BY <1>3 DEF UniformProfiles, SoundProfile
  <1>7. <<p>> \in UniformProfiles
    BY <1>2, <1>3, <1>4 DEF UniformProfiles, SoundProfile
  <1>8. <<p, q>> \in UniformProfiles
    BY <1>2, <1>3, <1>5 DEF UniformProfiles, SoundProfile
  <1>. QED
    BY <1>6, <1>7, <1>8 DEF p, q

LEMMA SoundPorts ==
  ASSUME NEW s \in UniformProfiles, NEW t \in UniformProfiles
  PROVE  /\ MixPort(s) \in SoundPort /\ AttachedPort \in SoundPort
         /\ ExternalPort(s, t) \in SoundPort
         /\ AttachedPort.type = "device" /\ ExternalPort(s, t).type = "device"
  <1>1. <<>> \in UniformProfiles
    BY DEF UniformProfiles
  <1>. QED
    BY <1>1 DEF SoundPort, MixPort, AttachedPort, ExternalPort

LEMMA Joined ==
  ASSUME NEW S, NEW s \in Seq(S), NEW t \in Seq(S)
  PROVE  /\ s \o t \in Seq(S) /\ Len(s \o t) = Len(s) + Len(t)
         /\ \A i \in 1 .. Len(s) : (s \o t)[i] = s[i]
  OBVIOUS

\* The rates of the configurations.
HdRates    == <<44100, 48000>>
SubmixOnly == <<192000>>
A2dpRates  == <<44100, 48000, 88200, 96000>>
AidRates   == <<16000, 24000>>
StubRates  == <<8000, 11025, 16000, 22050, 32000, 44100, 48000>>

LEMMA KnownRates ==
  /\ StandardRates \in Seq(SampleRates) /\ StandardRates # <<>>
  /\ StandardRates \o SubmixOnly \in Seq(SampleRates) /\ StandardRates \o SubmixOnly # <<>>
  /\ HdRates \in Seq(SampleRates) /\ HdRates # <<>>
  /\ A2dpRates \in Seq(SampleRates) /\ A2dpRates # <<>>
  /\ AidRates \in Seq(SampleRates) /\ AidRates # <<>>
  /\ StubRates \in Seq(SampleRates) /\ StubRates # <<>>
  <1>1. {8000, 11025, 16000, 22050, 24000, 32000, 44100, 48000, 88200, 96000, 192000} \subseteq SampleRates
    BY SMT DEF SampleRates
  <1>2. StandardRates \in Seq(SampleRates) /\ StandardRates # <<>>
    BY <1>1, SMT DEF StandardRates
  <1>3. SubmixOnly \in Seq(SampleRates) /\ SubmixOnly # <<>>
    BY <1>1, SMT DEF SubmixOnly
  <1>4. StandardRates \o SubmixOnly \in Seq(SampleRates) /\ StandardRates \o SubmixOnly # <<>>
    BY <1>2, <1>3
  <1>5. HdRates \in Seq(SampleRates) /\ HdRates # <<>>
    BY <1>1, SMT DEF HdRates
  <1>6. A2dpRates \in Seq(SampleRates) /\ A2dpRates # <<>>
    BY <1>1, SMT DEF A2dpRates
  <1>7. AidRates \in Seq(SampleRates) /\ AidRates # <<>>
    BY <1>1, SMT DEF AidRates
  <1>8. StubRates \in Seq(SampleRates) /\ StubRates # <<>>
    BY <1>1, SMT DEF StubRates
  <1>. QED
    BY <1>2, <1>4, <1>5, <1>6, <1>7, <1>8

LEMMA KnownMasks ==
  /\ MonoStereo \in Seq(AllMasks) /\ MonoStereo # <<>>
  /\ <<"stereo">> \in Seq(AllMasks) /\ <<"stereo">> # <<>>
  /\ <<"mono", "stereo", "index1", "index2">> \in Seq(AllMasks)
  /\ <<"mono", "stereo", "index1", "index2">> # <<>>
  /\ <<"mono", "stereo", "frontback">> \in Seq(AllMasks)
  /\ <<"mono", "stereo", "frontback">> # <<>>
  BY DEF MonoStereo, AllMasks


LEMMA PrimarySound == SoundConfiguration(PrimaryConfiguration)
  <1>. DEFINE standard == <<Profile("pcm16", MonoStereo, StandardRates)>>
              external == ExternalPort(<<>>, standard)
              devices  == <<AttachedPort, external, external, AttachedPort, AttachedPort,
                            AttachedPort, AttachedPort>>
              mixes    == [m \in 1 .. 5 |-> MixPort(standard)]
              ports    == PrimaryConfiguration.ports
  <1>1. standard \in UniformProfiles /\ <<>> \in UniformProfiles
    BY KnownRates, KnownMasks, FewProfiles DEF AllFormats
  <1>. HIDE DEF standard
  <1>2. MixPort(standard) \in SoundPort /\ AttachedPort \in SoundPort /\ external \in SoundPort
    BY <1>1, SoundPorts, Zenon
  <1>3. AttachedPort.type = "device"
    BY DEF AttachedPort
  <1>. HIDE DEF external
  <1>4. devices \in Seq(SoundPort) /\ Len(devices) = 7
    BY <1>2
  <1>5. mixes \in Seq(SoundPort) /\ Len(mixes) = 5
    BY <1>2
  <1>6. \A d \in {1, 4, 5, 6, 7} : devices[d] = AttachedPort
    OBVIOUS
  <1>7. ports = devices \o mixes
    BY DEF PrimaryConfiguration, external, standard
  <1>. HIDE DEF devices, mixes, ports
  <1>8. ports \in Seq(SoundPort) /\ Len(ports) = 12
    <2>1. devices \o mixes \in Seq(SoundPort) /\ Len(devices \o mixes) = Len(devices) + Len(mixes)
      BY <1>4, <1>5, Joined, Zenon
    <2>. QED
      BY <1>4, <1>5, <1>7, <2>1
  <1>9. \A d \in {1, 4, 5, 6, 7} : ports[d] = AttachedPort
    <2>1. \A i \in 1 .. Len(devices) : (devices \o mixes)[i] = devices[i]
      BY <1>4, <1>5, Joined, Zenon
    <2>2. {1, 4, 5, 6, 7} \subseteq 1 .. Len(devices)
      BY <1>4
    <2>. QED
      BY <1>6, <1>7, <2>1, <2>2, Zenon
  <1>10. \A r \in PrimaryConfiguration.routes : r.sources \cup {r.sink} \subseteq 1 .. 12
    BY DEF PrimaryConfiguration, RouteTo
  <1>11. PrimaryConfiguration.initials = [d \in {1, 4, 5, 6, 7} |-> DynamicPortConfig(d)]
    BY DEF PrimaryConfiguration
  <1>12. \A d : DynamicPortConfig(d).port = d
    BY DEF DynamicPortConfig, PortConfig
  <1>. QED
    BY <1>3, <1>8, <1>9, <1>10, <1>11, <1>12 DEF SoundConfiguration, ports

LEMMA RSubmixSound == SoundConfiguration(RSubmixConfiguration)
  <1>. DEFINE profile  == <<Profile("pcm16", <<"stereo">>, StandardRates \o SubmixOnly)>>
              dynamic  == ExternalPort(<<>>, profile)
              ports    == RSubmixConfiguration.ports
  <1>1. profile \in UniformProfiles /\ <<>> \in UniformProfiles
    BY KnownRates, KnownMasks, FewProfiles DEF AllFormats
  <1>2. ports = <<dynamic, dynamic, MixPort(profile), MixPort(profile)>>
    BY SMT DEF RSubmixConfiguration, SubmixOnly
  <1>3. \A r \in RSubmixConfiguration.routes : r.sources \cup {r.sink} \subseteq 1 .. 4
    BY SMT DEF RSubmixConfiguration, RouteTo
  <1>4. DOMAIN RSubmixConfiguration.initials = {}
    BY SMT DEF RSubmixConfiguration
  <1>. HIDE DEF profile, ports
  <1>5. dynamic \in SoundPort /\ MixPort(profile) \in SoundPort
    BY <1>1, SoundPorts, Zenon
  <1>. HIDE DEF dynamic
  <1>6. ports \in Seq(SoundPort) /\ Len(ports) = 4
    BY <1>2, <1>5
  <1>. QED
    BY <1>3, <1>4, <1>6 DEF SoundConfiguration, ports

LEMMA UsbSound == SoundConfiguration(UsbConfiguration)
  <1>. DEFINE masks    == <<"mono", "stereo", "index1", "index2">>
              standard == <<Profile("pcm16", masks, HdRates), Profile("pcm24", masks, HdRates)>>
              external == ExternalPort(<<>>, standard)
              devices  == [d \in 1 .. 4 |-> external]
              mixes    == [m \in 1 .. 2 |-> MixPort(<<>>)]
              ports    == UsbConfiguration.ports
  <1>1. standard \in UniformProfiles /\ <<>> \in UniformProfiles
    BY KnownRates, KnownMasks, FewProfiles DEF AllFormats
  <1>2. ports = devices \o mixes
    BY SMT DEF UsbConfiguration, HdRates
  <1>3. \A r \in UsbConfiguration.routes : r.sources \cup {r.sink} \subseteq 1 .. 6
    BY SMT DEF UsbConfiguration, RouteTo
  <1>4. DOMAIN UsbConfiguration.initials = {}
    BY SMT DEF UsbConfiguration
  <1>. HIDE DEF standard, ports
  <1>5. external \in SoundPort /\ MixPort(<<>>) \in SoundPort
    BY <1>1, SoundPorts, Zenon
  <1>6. devices \in Seq(SoundPort) /\ Len(devices) = 4 /\ mixes \in Seq(SoundPort) /\ Len(mixes) = 2
    BY <1>5
  <1>. HIDE DEF devices, mixes
  <1>7. ports \in Seq(SoundPort) /\ Len(ports) = 6
    <2>1. devices \o mixes \in Seq(SoundPort) /\ Len(devices \o mixes) = Len(devices) + Len(mixes)
      BY <1>6, Joined, Zenon
    <2>. QED
      BY <1>2, <1>6, <2>1
  <1>. QED
    BY <1>3, <1>4, <1>7 DEF SoundConfiguration, ports

LEMMA StubSound == SoundConfiguration(StubConfiguration)
  <1>. DEFINE masks == <<"mono", "stereo", "frontback">>
              one   == <<Profile("pcm24", MonoStereo, StandardRates)>>
              fast  == <<Profile("pcm24", <<"stereo">>, HdRates)>>
              mp3   == <<Profile("mp3", MonoStereo, HdRates)>>
              all   == <<Profile("pcm16", masks, StubRates), Profile("pcm24", masks, StubRates)>>
              outer == ExternalPort(<<>>, <<>>)
              ports == StubConfiguration.ports
  <1>1. one \in UniformProfiles /\ mp3 \in UniformProfiles /\ <<>> \in UniformProfiles
    BY KnownRates, KnownMasks, FewProfiles DEF AllFormats
  <1>2. fast \in UniformProfiles /\ all \in UniformProfiles
    BY KnownRates, KnownMasks, FewProfiles DEF AllFormats
  <1>3. ports = <<AttachedPort, outer, AttachedPort, outer, MixPort(one), MixPort(fast),
                  MixPort(mp3), MixPort(all)>>
    BY SMT DEF StubConfiguration, HdRates, StubRates
  <1>4. \A r \in StubConfiguration.routes : r.sources \cup {r.sink} \subseteq 1 .. 8
    BY SMT DEF StubConfiguration, RouteTo
  <1>5. DOMAIN StubConfiguration.initials = {1, 3}
    BY SMT DEF StubConfiguration
  <1>6. \A d \in {1, 3} : StubConfiguration.initials[d].port = d
    BY SMT DEF StubConfiguration, PortConfig
  <1>. HIDE DEF one, fast, mp3, all, ports
  <1>7. /\ outer \in SoundPort /\ AttachedPort \in SoundPort /\ MixPort(one) \in SoundPort
        /\ MixPort(fast) \in SoundPort /\ MixPort(mp3) \in SoundPort /\ MixPort(all) \in SoundPort
    BY <1>1, <1>2, SoundPorts, Zenon
  <1>8. AttachedPort.type = "device"
    BY DEF AttachedPort
  <1>. HIDE DEF outer
  <1>9. ports \in Seq(SoundPort) /\ Len(ports) = 8 /\ ports[1] = AttachedPort /\ ports[3] = AttachedPort
    BY <1>3, <1>7
  <1>. QED
    BY <1>4, <1>5, <1>6, <1>8, <1>9 DEF SoundConfiguration, ports

LEMMA BluetoothSound == SoundConfiguration(BluetoothConfiguration)
  <1>. DEFINE a2dp    == <<Profile("pcm16", <<"stereo">>, A2dpRates)>>
              aid     == <<Profile("pcm16", <<"stereo">>, AidRates)>>
              headset == ExternalPort(a2dp, a2dp)
              hearing == ExternalPort(<<>>, aid)
              devices == [d \in 1 .. 3 |-> headset]
              others  == <<hearing, MixPort(<<>>), MixPort(aid)>>
              ports   == BluetoothConfiguration.ports
  <1>1. a2dp \in UniformProfiles /\ aid \in UniformProfiles /\ <<>> \in UniformProfiles
    BY KnownRates, KnownMasks, FewProfiles DEF AllFormats
  <1>2. ports = devices \o others
    BY SMT DEF BluetoothConfiguration, A2dpRates, AidRates
  <1>3. \A r \in BluetoothConfiguration.routes : r.sources \cup {r.sink} \subseteq 1 .. 6
    BY SMT DEF BluetoothConfiguration, RouteTo
  <1>4. DOMAIN BluetoothConfiguration.initials = {}
    BY SMT DEF BluetoothConfiguration
  <1>. HIDE DEF a2dp, aid, ports
  <1>5. /\ headset \in SoundPort /\ hearing \in SoundPort
        /\ MixPort(<<>>) \in SoundPort /\ MixPort(aid) \in SoundPort
    BY <1>1, SoundPorts, Zenon
  <1>. HIDE DEF headset, hearing
  <1>6. devices \in Seq(SoundPort) /\ Len(devices) = 3 /\ others \in Seq(SoundPort) /\ Len(others) = 3
    BY <1>5
  <1>. HIDE DEF devices, others
  <1>7. ports \in Seq(SoundPort) /\ Len(ports) = 6
    <2>1. devices \o others \in Seq(SoundPort) /\ Len(devices \o others) = Len(devices) + Len(others)
      BY <1>6, Joined, Zenon
    <2>. QED
      BY <1>2, <1>6, <2>1
  <1>. QED
    BY <1>3, <1>4, <1>7 DEF SoundConfiguration, ports

LEMMA ConfigurationsSound ==
  \A t \in DOMAIN ConfigurationOf : SoundConfiguration(ConfigurationOf[t])
  BY PrimarySound, RSubmixSound, UsbSound, StubSound, BluetoothSound DEF ConfigurationOf

-----------------------------------------------------------------------------
(* Port configs (PortConfigs.tla)                                             *)

\* The ports of the configuration and those of devices; the numbers of ports
\* and port configs, which are never given twice.
Numbered ==
  /\ type \in DOMAIN ConfigurationOf /\ pipe \in PipeRates \cup {0}
  /\ nextFreeId \in Nat /\ Len(TheConfiguration.ports) < nextFreeId
  /\ DOMAIN configs \subseteq 1 .. nextFreeId - 1
  /\ DOMAIN attached \subseteq Len(TheConfiguration.ports) + 1 .. nextFreeId - 1
  /\ DOMAIN profiles = (1 .. Len(TheConfiguration.ports)) \cup DOMAIN attached
  /\ \A p \in DOMAIN attached :
       /\ attached[p].template \in 1 .. Len(TheConfiguration.ports)
       /\ attached[p].mixes \subseteq 1 .. Len(TheConfiguration.ports)

\* A port has profiles that differ in nothing but the format, or none.
ProfilesUniform == \A p \in DOMAIN profiles : profiles[p] \in UniformProfiles

\* A port config keeps its port, and the one of a mix port has a rate that
\* some profile had.
ConfigsHavePorts ==
  \A c \in DOMAIN configs :
    /\ configs[c].port \in DOMAIN profiles
    /\ ~IsDevice(configs[c].port) => configs[c].sampleRate \in SampleRates

PatchInv ==
  /\ PatchEnds \subseteq DOMAIN configs
  /\ \A c \in MixConfigs(PatchEnds) :
       /\ patch.frames \in FrameCounts /\ patch.frames > 0
       /\ BufferSizeFrames(configs[c]) <= patch.frames

PortConfigsInv == Numbered /\ ProfilesUniform /\ ConfigsHavePorts /\ PatchInv

LEMMA PortConfigsInitially == PortConfigsInit => PortConfigsInv
  <1>. SUFFICES ASSUME PortConfigsInit
                PROVE  PortConfigsInv
    OBVIOUS
  <1>. DEFINE c == ConfigurationOf[type]
  <1>1. type \in DOMAIN ConfigurationOf
    BY PortConfigsAssumption DEF PortConfigsInit
  <1>2. SoundConfiguration(c)
    BY <1>1, ConfigurationsSound
  <1>3. /\ profiles = [p \in DOMAIN c.ports |-> c.ports[p].profiles]
        /\ configs = c.initials /\ nextFreeId = Len(c.ports) + 1
        /\ attached = <<>> /\ patch = NoPatchSet /\ pipe = 0
    BY DEF PortConfigsInit
  <1>. HIDE DEF c
  <1>4. c.ports \in Seq(SoundPort) /\ DOMAIN c.ports = 1 .. Len(c.ports) /\ Len(c.ports) \in Nat
    BY <1>2 DEF SoundConfiguration
  <1>5. TheConfiguration = c
    BY DEF TheConfiguration, c
  <1>6. Numbered
    BY <1>1, <1>2, <1>3, <1>4, <1>5 DEF Numbered, SoundConfiguration
  <1>7. ProfilesUniform
    <2>1. \A p \in DOMAIN c.ports : c.ports[p] \in SoundPort
      BY <1>4
    <2>2. \A port \in SoundPort : port.profiles \in UniformProfiles
      BY DEF SoundPort
    <2>. QED
      BY <1>3, <2>1, <2>2 DEF ProfilesUniform
  <1>8. ASSUME NEW d \in DOMAIN c.initials
        PROVE  c.initials[d].port \in DOMAIN profiles /\ IsDevice(c.initials[d].port)
    <2>1. d \in 1 .. Len(c.ports) /\ c.ports[d].type = "device" /\ c.initials[d].port = d
      BY <1>2, <1>8 DEF SoundConfiguration
    <2>2. TemplateOf(d) = d
      BY <1>3 DEF TemplateOf
    <2>3. Populated(c.ports[d]).type = c.ports[d].type
      BY <1>4, <2>1 DEF Populated, SoundPort
    <2>. QED
      BY <1>3, <1>4, <1>5, <2>1, <2>2, <2>3 DEF IsDevice, PortOf
  <1>9. ConfigsHavePorts
    BY <1>3, <1>8 DEF ConfigsHavePorts
  <1>10. PatchInv
    BY <1>3 DEF PatchInv, PatchEnds, MixConfigs, NoPatchSet
  <1>. QED
    BY <1>6, <1>7, <1>9, <1>10 DEF PortConfigsInv

\* What is asked for is taken only if it is offered.
LEMMA TakenOrKept ==
  ASSUME NEW S, NEW asked \in Optional(S), NEW supported, NEW value
  PROVE  \/ Updated(value, asked, supported) = value
         \/ asked = {Updated(value, asked, supported)} /\ Updated(value, asked, supported) \in supported
  <1>1. asked = {} \/ \E v \in S : asked = {v}
    BY DEF Optional
  <1>. QED
    BY <1>1 DEF Updated

\* All formats of a port come with the same channels and rates.
LEMMA SameOffer ==
  ASSUME NEW p, profiles[p] \in UniformProfiles, ~AllowDynamicConfig(p)
  PROVE  /\ DOMAIN SupportedRates(p) = {profiles[p][i].format : i \in DOMAIN profiles[p]}
         /\ DOMAIN SupportedMasks(p) = DOMAIN SupportedRates(p)
         /\ \A f \in DOMAIN SupportedRates(p) :
              /\ SupportedRates(p)[f] = ToSet(profiles[p][1].sampleRates)
              /\ SupportedMasks(p)[f] = ToSet(profiles[p][1].channelMasks)
  <1>. DEFINE s == profiles[p]
              formats == {s[i].format : i \in DOMAIN s}
  <1>1. /\ SupportedRates(p) = [f \in formats |-> ToSet(ProfileFor(p, f).sampleRates)]
        /\ SupportedMasks(p) = [f \in formats |-> ToSet(ProfileFor(p, f).channelMasks)]
    BY DEF SupportedRates, SupportedMasks
  <1>2. ASSUME NEW f \in formats
        PROVE  /\ ProfileFor(p, f).sampleRates = s[1].sampleRates
               /\ ProfileFor(p, f).channelMasks = s[1].channelMasks
    <2>. DEFINE places == {i \in DOMAIN s : s[i].format = f}
    <2>1. s \in Seq(SoundProfile)
      BY DEF UniformProfiles, SoundProfile
    <2>2. DOMAIN s \subseteq Nat
      BY <2>1
    <2>3. places \in SUBSET Nat /\ places # {}
      BY <2>2
    <2>4. Min(places) \in places
      BY <2>3, MinOfNaturals, Zenon
    <2>5. ProfileFor(p, f) = s[Min(places)] /\ Min(places) \in DOMAIN s
      BY <2>4 DEF ProfileFor
    <2>. QED
      BY <2>5 DEF UniformProfiles
  <1>. QED
    BY <1>1, <1>2

\* The first profile, with its first channels and rate.
LEMMA FirstProfile ==
  ASSUME NEW s \in UniformProfiles, s # <<>>
  PROVE  /\ 1 \in DOMAIN s /\ Head(s) = s[1]
         /\ Head(s[1].sampleRates) \in ToSet(s[1].sampleRates)
         /\ Head(s[1].channelMasks) \in ToSet(s[1].channelMasks)
         /\ ToSet(s[1].sampleRates) \subseteq SampleRates
  <1>1. s \in Seq(SoundProfile)
    BY DEF UniformProfiles, SoundProfile
  <1>2. 1 \in DOMAIN s /\ Head(s) = s[1] /\ s[1] \in SoundProfile
    BY <1>1
  <1>3. s[1].sampleRates # <<>> /\ s[1].channelMasks # <<>>
    BY <1>2 DEF UniformProfiles
  <1>4. s[1].sampleRates \in Seq(SampleRates) /\ s[1].channelMasks \in Seq(AllMasks)
    BY <1>2 DEF SoundProfile
  <1>5. ASSUME NEW S, NEW t \in Seq(S), t # <<>>
        PROVE  Head(t) \in ToSet(t) /\ ToSet(t) \subseteq S
    <2>1. 1 \in DOMAIN t /\ Head(t) = t[1]
      BY <1>5
    <2>2. \A i \in DOMAIN t : t[i] \in S
      OBVIOUS
    <2>. QED
      BY <2>1, <2>2 DEF ToSet
  <1>. QED
    BY <1>2, <1>3, <1>4, <1>5

LEMMA TypeSound ==
  ASSUME type \in DOMAIN ConfigurationOf
  PROVE  /\ SoundConfiguration(TheConfiguration)
         /\ DOMAIN TheConfiguration.ports = 1 .. Len(TheConfiguration.ports)
         /\ Len(TheConfiguration.ports) \in Nat
         /\ \A t \in 1 .. Len(TheConfiguration.ports) : TheConfiguration.ports[t] \in SoundPort
  <1>1. SoundConfiguration(TheConfiguration)
    BY ConfigurationsSound DEF TheConfiguration
  <1>2. TheConfiguration.ports \in Seq(SoundPort)
    BY <1>1 DEF SoundConfiguration
  <1>. QED
    BY <1>1, <1>2

\* Whatever is connected to a port, the new port has uniform profiles.
LEMMA DevicesUniform ==
  ASSUME Numbered, ProfilesUniform, NEW t \in 1 .. Len(TheConfiguration.ports),
         NEW device \in ConnectedProfiles(t)
  PROVE  device \in UniformProfiles /\ RoutableMixes(t) \subseteq 1 .. Len(TheConfiguration.ports)
  <1>1. RoutableMixes(t) \subseteq 1 .. Len(TheConfiguration.ports)
    BY TypeSound DEF Numbered, RoutableMixes, RoutesFor, SoundConfiguration
  <1>2. t \in DOMAIN profiles /\ RoutableMixes(t) \subseteq DOMAIN profiles
    BY <1>1 DEF Numbered
  <1>3. <<>> \in UniformProfiles /\ Standard16And24BitProfiles \in UniformProfiles
    BY FewProfiles, KnownRates, KnownMasks DEF Standard16And24BitProfiles, AllFormats
  <1>4. CASE ~simulated
    <2>1. device \in PopulatedBy(t)
      BY <1>4 DEF ConnectedProfiles
    <2>2. CASE type = "DEFAULT"
      <3>1. PopulatedBy(t) = {<<>>}
        BY <2>2 DEF PopulatedBy, PrimaryPopulated
      <3>. QED
        BY <1>1, <1>3, <2>1, <3>1, Zenon
    <2>3. CASE type = "USB"
      <3>1. PopulatedBy(t) = DeviceProfiles
        BY <2>3 DEF PopulatedBy
      <3>. QED
        BY <1>1, <2>1, <3>1, DevicesAssumption, Zenon
    <2>4. CASE type = "R_SUBMIX"
      <3>1. device \in SubmixPopulated(t)
        BY <2>1, <2>4 DEF PopulatedBy
      <3>2. CASE pipe = 0
        <4>1. PICK m \in RoutableMixes(t) : device = profiles[m]
          BY <3>1, <3>2 DEF SubmixPopulated
        <4>. QED
          BY <1>1, <1>2, <4>1, Zenon DEF ProfilesUniform
      <3>3. CASE pipe # 0
        <4>1. pipe \in SampleRates
          BY <3>3, DevicesAssumption DEF Numbered
        <4>2. <<pipe>> \in Seq(SampleRates) /\ <<pipe>> # <<>>
          BY <4>1
        <4>3. <<Profile("pcm16", <<"stereo">>, <<pipe>>)>> \in UniformProfiles
          BY <4>2, FewProfiles, KnownMasks DEF AllFormats
        <4>. QED
          BY <1>1, <3>1, <3>3, <4>3, Zenon DEF SubmixPopulated
      <3>. QED
        BY <3>2, <3>3
    <2>5. CASE type \notin {"DEFAULT", "USB", "R_SUBMIX"}
      BY <2>1, <2>5 DEF PopulatedBy
    <2>. QED
      BY <2>2, <2>3, <2>4, <2>5
  <1>5. CASE simulated
    <2>1. device = PortOf(t).connectedProfiles \/ device = profiles[t]
      BY <1>5 DEF ConnectedProfiles
    <2>2. TheConfiguration.ports[t] \in SoundPort
      BY TypeSound DEF Numbered
    <2>3. ASSUME NEW port \in SoundPort
          PROVE  Populated(port).connectedProfiles \in UniformProfiles
      BY <1>3 DEF Populated, SoundPort
    <2>4. t \notin DOMAIN attached
      BY TypeSound DEF Numbered
    <2>5. PortOf(t).connectedProfiles \in UniformProfiles
      BY <2>2, <2>3, <2>4 DEF PortOf, TemplateOf
    <2>. QED
      BY <1>1, <1>2, <2>1, <2>5, Zenon DEF ProfilesUniform
  <1>. QED
    BY <1>1, <1>4, <1>5

\* A step that leaves the devices alone leaves every port what it is.
LEMMA PortsStay ==
  ASSUME NEW p, UNCHANGED type, TemplateOf(p)' = TemplateOf(p)
  PROVE  IsDevice(p)' = IsDevice(p)
  BY DEF IsDevice, PortOf, TheConfiguration

\* A patch stands on the configs that it was made with.
LEMMA PatchStays ==
  ASSUME PatchInv, PatchEnds' = PatchEnds, patch'.frames = patch.frames, UNCHANGED type,
         \A c \in PatchEnds : c \in DOMAIN configs' /\ configs'[c] = configs[c]
                              /\ TemplateOf(configs[c].port)' = TemplateOf(configs[c].port)
  PROVE  PatchInv'
  <1>1. PatchEnds' \subseteq DOMAIN configs'
    OBVIOUS
  <1>2. ASSUME NEW c \in MixConfigs(PatchEnds)'
        PROVE  /\ c \in MixConfigs(PatchEnds)
               /\ BufferSizeFrames(configs[c])' = BufferSizeFrames(configs[c])
    <2>1. c \in PatchEnds /\ ~IsDevice(configs[c].port)'
      BY DEF MixConfigs
    <2>2. IsDevice(configs[c].port)' = IsDevice(configs[c].port)
      BY <2>1, PortsStay DEF IsDevice, PortOf, TheConfiguration, TemplateOf
    <2>3. configs'[c] = configs[c]
      BY <2>1
    <2>. QED
      BY <2>1, <2>2, <2>3 DEF MixConfigs, BufferSizeFrames, NominalLatencyMs
  <1>. QED
    BY <1>1, <1>2 DEF PatchInv

\* No device is connected twice under one number, and no port of the
\* configuration goes away.
LEMMA ConnectKeepsNumbers ==
  ASSUME Numbered, ProfilesUniform, NEW t \in DOMAIN profiles, ConnectDevice(t)
  PROVE  Numbered' /\ ProfilesUniform'
  <1>. DEFINE n == Len(TheConfiguration.ports)
  <1>1. n \in Nat /\ TheConfiguration' = TheConfiguration /\ n' = n
    BY TypeSound DEF Numbered, TheConfiguration, ConnectDevice
  <1>2. t \in 1 .. n
    BY DEF Numbered, ConnectDevice
  <1>. DEFINE filled(device) == {m \in MixesOf(t, device) : HasDynamicProfilesOnly(m)}
  <1>3. PICK device \in ConnectedProfiles(t) :
          /\ profiles' = [p \in DOMAIN profiles \cup {nextFreeId} |->
                            IF p \in filled(device) \cup {nextFreeId} THEN device ELSE profiles[p]]
          /\ attached' = With(attached, nextFreeId,
                              [template |-> t, mixes |-> MixesOf(t, device)])
    BY DEF ConnectDevice
  <1>4. device \in UniformProfiles /\ RoutableMixes(t) \subseteq 1 .. n
    BY <1>2, DevicesUniform
  <1>5. MixesOf(t, device) \subseteq 1 .. n /\ filled(device) \subseteq 1 .. n
    BY <1>4 DEF MixesOf
  <1>. DEFINE record == [template |-> t, mixes |-> MixesOf(t, device)]
  <1>. HIDE DEF filled, record
  <1>6. /\ DOMAIN profiles' = {nextFreeId} \cup DOMAIN profiles
        /\ \A p \in DOMAIN profiles' :
             profiles'[p] = device \/ (p \in DOMAIN profiles /\ profiles'[p] = profiles[p])
    BY <1>3, Zenon
  <1>7. /\ DOMAIN attached' = {nextFreeId} \cup DOMAIN attached
        /\ \A p \in DOMAIN attached' :
             attached'[p] = record \/ (p \in DOMAIN attached /\ attached'[p] = attached[p])
    BY <1>3 DEF With, record
  <1>8. UNCHANGED <<type, pipe, configs>> /\ nextFreeId' = nextFreeId + 1
    BY DEF ConnectDevice
  <1>. HIDE DEF n
  <1>9. /\ type' \in DOMAIN ConfigurationOf /\ pipe' \in PipeRates \cup {0}
        /\ nextFreeId' \in Nat /\ n' < nextFreeId' /\ DOMAIN configs' \subseteq 1 .. nextFreeId' - 1
    BY <1>1, <1>8 DEF Numbered, n
  <1>10. nextFreeId \in Nat /\ n < nextFreeId /\ DOMAIN attached \subseteq n + 1 .. nextFreeId - 1
    BY DEF Numbered, n
  <1>11. DOMAIN attached' \subseteq n' + 1 .. nextFreeId' - 1
    BY <1>1, <1>7, <1>8, <1>10
  <1>12. DOMAIN profiles' = (1 .. n') \cup DOMAIN attached'
    BY <1>1, <1>5, <1>6, <1>7 DEF Numbered, n
  <1>13. \A p \in DOMAIN attached' :
           attached'[p].template \in 1 .. n' /\ attached'[p].mixes \subseteq 1 .. n'
    <2>1. record.template = t /\ record.mixes = MixesOf(t, device)
      BY DEF record
    <2>. QED
      BY <1>1, <1>2, <1>5, <1>7, <2>1 DEF Numbered, n
  <1>14. ProfilesUniform'
    BY <1>4, <1>6, Zenon DEF ProfilesUniform
  <1>. QED
    BY <1>9, <1>11, <1>12, <1>13, <1>14 DEF Numbered, n

LEMMA ConnectKeeps ==
  ASSUME PortConfigsInv, NEW t \in DOMAIN profiles, ConnectDevice(t)
  PROVE  PortConfigsInv'
  <1>1. Numbered' /\ ProfilesUniform'
    BY ConnectKeepsNumbers DEF PortConfigsInv
  <1>2. /\ UNCHANGED <<type, configs, patch>>
        /\ nextFreeId \notin DOMAIN profiles /\ nextFreeId \notin DOMAIN attached
        /\ DOMAIN profiles \subseteq DOMAIN profiles'
    BY DEF PortConfigsInv, Numbered, ConnectDevice
  <1>3. \A p \in DOMAIN profiles : TemplateOf(p)' = TemplateOf(p) /\ p \in DOMAIN profiles'
    <2>1. PICK record : attached' = With(attached, nextFreeId, record)
      BY DEF ConnectDevice
    <2>2. /\ DOMAIN attached' = {nextFreeId} \cup DOMAIN attached
          /\ \A p \in DOMAIN attached : attached'[p] = attached[p]
      BY <1>2, <2>1 DEF With
    <2>. QED
      BY <1>2, <2>2 DEF TemplateOf
  <1>4. \A c \in DOMAIN configs : configs[c].port \in DOMAIN profiles
    BY DEF PortConfigsInv, ConfigsHavePorts
  <1>5. ConfigsHavePorts'
    <2>1. ASSUME NEW c \in DOMAIN configs
          PROVE  IsDevice(configs[c].port)' = IsDevice(configs[c].port)
      BY <1>2, <1>3, <1>4, PortsStay DEF IsDevice, PortOf, TheConfiguration, TemplateOf
    <2>. QED
      BY <1>2, <1>3, <1>4, <2>1 DEF PortConfigsInv, ConfigsHavePorts
  <1>6. PatchInv'
    <2>1. PatchEnds' = PatchEnds /\ PatchEnds \subseteq DOMAIN configs /\ PatchInv
      BY <1>2 DEF PatchEnds, PortConfigsInv, PatchInv
    <2>. QED
      BY <1>2, <1>3, <1>4, <2>1, PatchStays
  <1>. QED
    BY <1>1, <1>5, <1>6 DEF PortConfigsInv

LEMMA DisconnectKeeps ==
  ASSUME PortConfigsInv, NEW p \in DOMAIN attached, DisconnectDevice(p)
  PROVE  PortConfigsInv'
  <1>. DEFINE n == Len(TheConfiguration.ports)
  <1>1. n \in Nat /\ n' = n
    BY TypeSound DEF PortConfigsInv, Numbered, TheConfiguration, DisconnectDevice
  <1>2. /\ UNCHANGED <<type, pipe, configs, nextFreeId, patch>>
        /\ \A c \in DOMAIN configs : configs[c].port # p
        /\ DOMAIN profiles' = DOMAIN profiles \ {p}
        /\ \A q \in DOMAIN profiles' : profiles'[q] \in {profiles[q], <<>>}
    BY DEF DisconnectDevice
  <1>3. DOMAIN attached' = DOMAIN attached \ {p} /\ \A q \in DOMAIN attached' : attached'[q] = attached[q]
    BY DEF DisconnectDevice, Restrict
  <1>4. p \notin 1 .. n
    BY DEF PortConfigsInv, Numbered, n
  <1>5. /\ nextFreeId \in Nat /\ n < nextFreeId
        /\ DOMAIN attached \subseteq n + 1 .. nextFreeId - 1
        /\ DOMAIN profiles = (1 .. n) \cup DOMAIN attached
        /\ \A q \in DOMAIN attached :
             attached[q].template \in 1 .. n /\ attached[q].mixes \subseteq 1 .. n
    BY DEF PortConfigsInv, Numbered, n
  <1>. HIDE DEF n
  <1>6. Numbered'
    <2>1. type' \in DOMAIN ConfigurationOf /\ pipe' \in PipeRates \cup {0} /\ DOMAIN configs' \subseteq 1 .. nextFreeId' - 1
      BY <1>2 DEF PortConfigsInv, Numbered
    <2>2. n' < nextFreeId' /\ nextFreeId' \in Nat /\ DOMAIN attached' \subseteq n' + 1 .. nextFreeId' - 1
      BY <1>1, <1>2, <1>3, <1>5
    <2>3. DOMAIN profiles' = (1 .. n') \cup DOMAIN attached'
      BY <1>1, <1>2, <1>3, <1>4, <1>5
    <2>4. \A q \in DOMAIN attached' :
            attached'[q].template \in 1 .. n' /\ attached'[q].mixes \subseteq 1 .. n'
      BY <1>1, <1>3, <1>5
    <2>. QED
      BY <2>1, <2>2, <2>3, <2>4 DEF Numbered, n
  <1>7. ProfilesUniform'
    <2>1. <<>> \in UniformProfiles
      BY FewProfiles, KnownRates, KnownMasks DEF AllFormats
    <2>. QED
      BY <1>2, <2>1, Zenon DEF PortConfigsInv, ProfilesUniform
  <1>8. \A q \in DOMAIN profiles \ {p} : TemplateOf(q)' = TemplateOf(q) /\ q \in DOMAIN profiles'
    BY <1>2, <1>3 DEF TemplateOf
  <1>9. \A c \in DOMAIN configs : configs[c].port \in DOMAIN profiles \ {p}
    BY <1>2 DEF PortConfigsInv, ConfigsHavePorts
  <1>10. ConfigsHavePorts'
    <2>1. ASSUME NEW c \in DOMAIN configs
          PROVE  IsDevice(configs[c].port)' = IsDevice(configs[c].port)
      BY <1>2, <1>8, <1>9, PortsStay DEF IsDevice, PortOf, TheConfiguration, TemplateOf
    <2>. QED
      BY <1>2, <1>8, <1>9, <2>1 DEF PortConfigsInv, ConfigsHavePorts
  <1>11. PatchInv'
    <2>1. PatchEnds' = PatchEnds /\ PatchEnds \subseteq DOMAIN configs /\ PatchInv
      BY <1>2 DEF PatchEnds, PortConfigsInv, PatchInv
    <2>. QED
      BY <1>2, <1>8, <1>9, <2>1, PatchStays
  <1>. QED
    BY <1>6, <1>7, <1>10, <1>11 DEF PortConfigsInv

\* The rate that is suggested for a mix port config: what it had, or one of
\* the profiles of its port.
LEMMA SuggestedRate ==
  ASSUME NEW p, profiles[p] \in UniformProfiles, ~IsDevice(p), NEW base,
         base.port = p, base.sampleRate \in SampleRates,
         NEW request \in Request, ~IsRefused(Offer(p), base, request)
  PROVE  Suggestion(Offer(p), base, request).sampleRate \in SampleRates
  <1>. DEFINE offer == Offer(p)
              format == SuggestedFormat(offer, base, request)
  <1>1. ~AllowDynamicConfig(p)
    BY DEF AllowDynamicConfig
  <1>2. offer.rates = SupportedRates(p)
    BY DEF Offer
  <1>3. format \in DOMAIN SupportedRates(p)
    BY <1>2 DEF IsRefused
  <1>. HIDE DEF format
  <1>4. profiles[p] # <<>> /\ SupportedRates(p)[format] = ToSet(profiles[p][1].sampleRates)
    <2>1. DOMAIN SupportedRates(p) = {profiles[p][i].format : i \in DOMAIN profiles[p]}
      BY <1>1, SameOffer, Zenon
    <2>2. DOMAIN profiles[p] # {}
      BY <1>3, <2>1, Zenon
    <2>3. SupportedRates(p)[format] = ToSet(profiles[p][1].sampleRates)
      BY <1>1, <1>3, SameOffer, Zenon
    <2>. QED
      BY <2>2, <2>3
  <1>5. SupportedRates(p)[format] \subseteq SampleRates
    BY <1>4, FirstProfile
  <1>6. request.sampleRate \in Optional(Rates \cup {Dynamic.sampleRate})
    BY DEF Request
  <1>7. Suggestion(offer, base, request).sampleRate
          = Updated(base.sampleRate, request.sampleRate, SupportedRates(p)[format])
    BY <1>2 DEF Suggestion, PortConfig, format
  <1>8. \/ Updated(base.sampleRate, request.sampleRate, SupportedRates(p)[format]) = base.sampleRate
        \/ Updated(base.sampleRate, request.sampleRate, SupportedRates(p)[format])
             \in SupportedRates(p)[format]
    BY <1>6, TakenOrKept
  <1>. QED
    BY <1>5, <1>7, <1>8, Zenon

\* The first profile of a mix port gives the rate of its default.
LEMMA DefaultRate ==
  ASSUME NEW p, profiles[p] \in UniformProfiles, ~IsDevice(p), HasDefault(p)
  PROVE  DefaultPortConfig(p).port = p /\ DefaultPortConfig(p).sampleRate \in SampleRates
  <1>1. profiles[p] # <<>> /\ ~FromRemoteEnd(p)
    BY DEF HasDefault, HasDynamicProfilesOnly, FromRemoteEnd
  <1>2. /\ Head(profiles[p]) = profiles[p][1]
        /\ Head(profiles[p][1].sampleRates) \in SampleRates
    BY <1>1, FirstProfile
  <1>. QED
    BY <1>1, <1>2, Zenon DEF DefaultPortConfig, HasDynamicProfilesOnly, PortConfig

\* Steps that leave the ports alone: what they owe to the numbers.
LEMMA PortsUntouched ==
  ASSUME PortConfigsInv, UNCHANGED <<type, profiles, attached>>, pipe' \in PipeRates \cup {0},
         nextFreeId' \in {nextFreeId, nextFreeId + 1}, DOMAIN configs' \subseteq 1 .. nextFreeId' - 1
  PROVE  Numbered' /\ ProfilesUniform' /\ \A p : IsDevice(p)' = IsDevice(p)
  <1>1. TheConfiguration' = TheConfiguration
    BY DEF TheConfiguration
  <1>2. nextFreeId \in Nat /\ Len(TheConfiguration.ports) \in Nat
    BY TypeSound DEF PortConfigsInv, Numbered
  <1>3. nextFreeId' \in Nat /\ nextFreeId <= nextFreeId'
    BY <1>2
  <1>4. Numbered'
    <2>. DEFINE n == Len(TheConfiguration.ports)
    <2>1. n' = n /\ n \in Nat
      BY <1>1, <1>2
    <2>2. n < nextFreeId /\ DOMAIN attached \subseteq n + 1 .. nextFreeId - 1
      BY DEF PortConfigsInv, Numbered
    <2>. HIDE DEF n
    <2>3. n' < nextFreeId' /\ DOMAIN attached' \subseteq n' + 1 .. nextFreeId' - 1
      BY <1>2, <1>3, <2>1, <2>2
    <2>. QED
      BY <1>1, <1>3, <2>3 DEF PortConfigsInv, Numbered, n
  <1>5. ProfilesUniform'
    BY Zenon DEF PortConfigsInv, ProfilesUniform
  <1>6. \A p : IsDevice(p)' = IsDevice(p)
    BY <1>1 DEF IsDevice, PortOf, TemplateOf
  <1>. QED
    BY <1>4, <1>5, <1>6

LEMMA PatchUntouched ==
  ASSUME PatchInv, UNCHANGED <<type, attached, patch>>,
         \A c \in PatchEnds : c \in DOMAIN configs' /\ configs'[c] = configs[c]
  PROVE  PatchInv'
  <1>1. PatchEnds' = PatchEnds
    BY DEF PatchEnds
  <1>2. \A p : TemplateOf(p)' = TemplateOf(p)
    BY DEF TemplateOf
  <1>. QED
    BY <1>1, <1>2, PatchStays

LEMMA CreateKeeps ==
  ASSUME PortConfigsInv, NEW p \in DOMAIN profiles, CreateConfig(p)
  PROVE  PortConfigsInv'
  <1>1. PICK request \in Request :
          /\ CreatesConfig(Offer(p), DefaultPortConfig(p), request)
          /\ configs' = With(configs, nextFreeId, Suggestion(Offer(p), DefaultPortConfig(p), request))
    BY DEF CreateConfig
  <1>. DEFINE new == Suggestion(Offer(p), DefaultPortConfig(p), request)
  <1>2. UNCHANGED <<type, profiles, attached, patch, pipe>> /\ nextFreeId' = nextFreeId + 1 /\ HasDefault(p)
    BY DEF CreateConfig
  <1>3. /\ nextFreeId \in Nat /\ pipe \in PipeRates \cup {0}
        /\ DOMAIN configs \subseteq 1 .. nextFreeId - 1 /\ nextFreeId > 0
    BY TypeSound DEF PortConfigsInv, Numbered
  <1>4. new.port = p
    BY DEF Suggestion, PortConfig, DefaultPortConfig, DynamicPortConfig
  <1>5. ~IsDevice(p) => new.sampleRate \in SampleRates
    <2>1. profiles[p] \in UniformProfiles
      BY DEF PortConfigsInv, ProfilesUniform
    <2>. QED
      BY <1>1, <1>2, <2>1, DefaultRate, SuggestedRate DEF CreatesConfig
  <1>. HIDE DEF new
  <1>6. /\ DOMAIN configs' = DOMAIN configs \cup {nextFreeId} /\ configs'[nextFreeId] = new
        /\ \A c \in DOMAIN configs : configs'[c] = configs[c]
    BY <1>1, <1>3 DEF With, new
  <1>7. DOMAIN configs' \subseteq 1 .. nextFreeId' - 1
    BY <1>2, <1>3, <1>6
  <1>8. Numbered' /\ ProfilesUniform' /\ \A q : IsDevice(q)' = IsDevice(q)
    BY <1>2, <1>3, <1>7, PortsUntouched
  <1>9. ConfigsHavePorts'
    <2>1. ASSUME NEW c \in DOMAIN configs'
          PROVE  /\ configs'[c].port \in DOMAIN profiles
                 /\ ~IsDevice(configs'[c].port) => configs'[c].sampleRate \in SampleRates
      BY <1>4, <1>5, <1>6 DEF PortConfigsInv, ConfigsHavePorts
    <2>2. \A c \in DOMAIN configs' : IsDevice(configs[c].port)' = IsDevice(configs'[c].port)
      BY <1>2 DEF IsDevice, PortOf, TemplateOf, TheConfiguration
    <2>. QED
      BY <1>2, <2>1, <2>2 DEF ConfigsHavePorts
  <1>10. PatchInv'
    BY <1>2, <1>6, PatchUntouched DEF PortConfigsInv, PatchInv
  <1>. QED
    BY <1>8, <1>9, <1>10 DEF PortConfigsInv

LEMMA UpdateKeeps ==
  ASSUME PortConfigsInv, NEW d \in DOMAIN configs, UpdateConfig(d)
  PROVE  PortConfigsInv'
  <1>. DEFINE p == configs[d].port
  <1>1. PICK request \in Request :
          /\ ~IsRefused(Offer(p), configs[d], request)
          /\ configs' = [configs EXCEPT ![d] = Suggestion(Offer(p), configs[d], request)]
    BY DEF UpdateConfig
  <1>. DEFINE new == Suggestion(Offer(p), configs[d], request)
  <1>2. UNCHANGED <<type, profiles, attached, patch, pipe, nextFreeId>> /\ d \notin PatchEnds
    BY DEF UpdateConfig, MayChange
  <1>3. /\ pipe \in PipeRates \cup {0} /\ DOMAIN configs \subseteq 1 .. nextFreeId - 1
        /\ p \in DOMAIN profiles
    BY DEF PortConfigsInv, Numbered, ConfigsHavePorts
  <1>4. new.port = p
    BY DEF Suggestion, PortConfig
  <1>5. ~IsDevice(p) => new.sampleRate \in SampleRates
    <2>1. profiles[p] \in UniformProfiles
      BY <1>3 DEF PortConfigsInv, ProfilesUniform
    <2>2. ~IsDevice(p) => configs[d].sampleRate \in SampleRates
      BY DEF PortConfigsInv, ConfigsHavePorts
    <2>. QED
      BY <1>1, <2>1, <2>2, SuggestedRate
  <1>. HIDE DEF new
  <1>6. /\ DOMAIN configs' = DOMAIN configs /\ configs'[d] = new
        /\ \A c \in DOMAIN configs : c # d => configs'[c] = configs[c]
    BY <1>1 DEF new
  <1>. HIDE DEF p
  <1>8. Numbered' /\ ProfilesUniform'
    BY <1>2, <1>3, <1>6, PortsUntouched
  <1>9. ConfigsHavePorts'
    <2>1. ASSUME NEW c \in DOMAIN configs'
          PROVE  /\ configs'[c].port \in DOMAIN profiles
                 /\ ~IsDevice(configs'[c].port) => configs'[c].sampleRate \in SampleRates
      BY <1>3, <1>4, <1>5, <1>6 DEF PortConfigsInv, ConfigsHavePorts
    <2>2. \A c \in DOMAIN configs' : IsDevice(configs[c].port)' = IsDevice(configs'[c].port)
      BY <1>2 DEF IsDevice, PortOf, TemplateOf, TheConfiguration
    <2>. QED
      BY <1>2, <2>1, <2>2 DEF ConfigsHavePorts
  <1>10. PatchInv'
    BY <1>2, <1>6, PatchUntouched DEF PortConfigsInv, PatchInv
  <1>. QED
    BY <1>8, <1>9, <1>10 DEF PortConfigsInv

\* The steps that make no new port config.
LEMMA OthersKeep ==
  ASSUME PortConfigsInv,
         \/ \E d \in DOMAIN configs : ResetConfig(d)
         \/ ChangePipe \/ UNCHANGED portConfigVars
  PROVE  PortConfigsInv'
  <1>. DEFINE Fewer ==
                /\ UNCHANGED <<type, profiles, attached, patch, nextFreeId>>
                /\ pipe' \in PipeRates \cup {0} /\ DOMAIN configs' \subseteq DOMAIN configs
                /\ \A c \in DOMAIN configs' : configs'[c] = configs[c]
                /\ PatchEnds \subseteq DOMAIN configs'
  <1>1. Fewer
    <2>1. ASSUME NEW d \in DOMAIN configs, ResetConfig(d)
          PROVE  Fewer
      BY <2>1 DEF ResetConfig, MayChange, Restrict, PortConfigsInv, Numbered, PatchInv
    <2>2. CASE ChangePipe
      BY <2>2 DEF ChangePipe, PortConfigsInv, PatchInv
    <2>3. CASE UNCHANGED portConfigVars
      BY <2>3 DEF portConfigVars, PortConfigsInv, Numbered, PatchInv
    <2>. QED
      BY <2>1, <2>2, <2>3
  <1>2. DOMAIN configs' \subseteq 1 .. nextFreeId' - 1
    BY <1>1 DEF PortConfigsInv, Numbered
  <1>3. Numbered' /\ ProfilesUniform'
    BY <1>1, <1>2, PortsUntouched
  <1>4. ConfigsHavePorts'
    <2>1. \A c \in DOMAIN configs' : IsDevice(configs[c].port)' = IsDevice(configs[c].port)
      BY <1>1 DEF IsDevice, PortOf, TemplateOf, TheConfiguration
    <2>. QED
      BY <1>1, <2>1 DEF PortConfigsInv, ConfigsHavePorts
  <1>5. PatchInv'
    BY <1>1, PatchUntouched DEF PortConfigsInv, PatchInv
  <1>. QED
    BY <1>3, <1>4, <1>5 DEF PortConfigsInv

\* The buffer of a new patch is that of the highest rate, and no other end
\* needs a larger one.
LEMMA PatchKeeps ==
  ASSUME PortConfigsInv, NEW d \in DOMAIN configs, NEW sources \in SUBSET DOMAIN configs,
         SetNewPatch(sources, {d})
  PROVE  PortConfigsInv'
  <1>. DEFINE mixes == MixConfigs(sources \cup {d})
  <1>1. PICK h \in HighestRate(mixes) :
          patch' = [sources |-> sources, sinks |-> {d}, frames |-> BufferSizeFrames(configs[h])]
    BY DEF SetNewPatch
  <1>2. UNCHANGED <<type, profiles, attached, configs, nextFreeId, pipe>>
    BY DEF SetNewPatch
  <1>3. Numbered' /\ ProfilesUniform' /\ \A p : IsDevice(p)' = IsDevice(p)
    <2>1. pipe' \in PipeRates \cup {0} /\ DOMAIN configs' \subseteq 1 .. nextFreeId' - 1
      BY <1>2 DEF PortConfigsInv, Numbered
    <2>. QED
      BY <1>2, <2>1, PortsUntouched
  <1>4. ConfigsHavePorts'
    <2>1. \A c \in DOMAIN configs : IsDevice(configs[c].port)' = IsDevice(configs[c].port)
      BY <1>2 DEF IsDevice, PortOf, TemplateOf, TheConfiguration
    <2>. QED
      BY <1>2, <2>1 DEF PortConfigsInv, ConfigsHavePorts
  <1>5. \A c \in mixes : configs[c].sampleRate \in SampleRates
    BY DEF MixConfigs, PortConfigsInv, ConfigsHavePorts
  <1>6. h \in mixes /\ \A c \in mixes : configs[h].sampleRate >= configs[c].sampleRate
    BY DEF HighestRate
  <1>7. PatchEnds' = sources \cup {d} /\ patch'.frames = BufferSizeFrames(configs[h])
    BY <1>1 DEF PatchEnds
  <1>8. PatchEnds' \subseteq DOMAIN configs'
    BY <1>2, <1>7
  <1>9. MixConfigs(PatchEnds)' = mixes
    BY <1>2, <1>7 DEF MixConfigs, IsDevice, PortOf, TemplateOf, TheConfiguration
  <1>. HIDE DEF mixes
  <1>10. \A c \in mixes : BufferSizeFrames(configs[c])' = BufferSizeFrames(configs[c])
    BY <1>2 DEF BufferSizeFrames, NominalLatencyMs
  <1>11. ASSUME NEW c \in mixes
         PROVE  BufferSizeFrames(configs[c]) <= BufferSizeFrames(configs[h])
    <2>1. configs[c].sampleRate <= configs[h].sampleRate
      BY <1>5, <1>6, SMT DEF SampleRates
    <2>2. configs[c].sampleRate \in SampleRates /\ configs[h].sampleRate \in SampleRates
      BY <1>5, <1>6
    <2>. QED
      BY <2>1, <2>2, LatencyKnown, BufferSizesKeepOrder, Zenon DEF BufferSizeFrames
  <1>12. patch'.frames \in FrameCounts /\ patch'.frames > 0
    BY <1>5, <1>6, <1>7, LatencyKnown, BufferSizes, Zenon DEF BufferSizeFrames
  <1>13. PatchInv'
    BY <1>7, <1>8, <1>9, <1>10, <1>11, <1>12, Zenon DEF PatchInv
  <1>. QED
    BY <1>3, <1>4, <1>13 DEF PortConfigsInv

LEMMA ResetKeepsPatchInv ==
  ASSUME PortConfigsInv, ResetPatch
  PROVE  PortConfigsInv'
  <1>1. UNCHANGED <<type, profiles, attached, configs, nextFreeId, pipe>> /\ patch' = NoPatchSet
    BY DEF ResetPatch
  <1>2. Numbered' /\ ProfilesUniform'
    <2>1. pipe' \in PipeRates \cup {0} /\ DOMAIN configs' \subseteq 1 .. nextFreeId' - 1
      BY <1>1 DEF PortConfigsInv, Numbered
    <2>. QED
      BY <1>1, <2>1, PortsUntouched
  <1>3. ConfigsHavePorts'
    <2>1. \A c \in DOMAIN configs : IsDevice(configs[c].port)' = IsDevice(configs[c].port)
      BY <1>1 DEF IsDevice, PortOf, TemplateOf, TheConfiguration
    <2>. QED
      BY <1>1, <2>1 DEF PortConfigsInv, ConfigsHavePorts
  <1>4. PatchEnds' = {}
    BY <1>1 DEF PatchEnds, NoPatchSet
  <1>5. PatchInv'
    BY <1>4 DEF PatchInv, MixConfigs
  <1>. QED
    BY <1>2, <1>3, <1>5 DEF PortConfigsInv

LEMMA PortConfigsStep == PortConfigsInv /\ [PortConfigsNext]_portConfigVars => PortConfigsInv'
  <1>. SUFFICES ASSUME PortConfigsInv, [PortConfigsNext]_portConfigVars
                PROVE  PortConfigsInv'
    OBVIOUS
  <1>1. ASSUME NEW p \in DOMAIN profiles, ConnectDevice(p) PROVE PortConfigsInv'
    BY <1>1, ConnectKeeps
  <1>2. ASSUME NEW p \in DOMAIN attached, DisconnectDevice(p) PROVE PortConfigsInv'
    BY <1>2, DisconnectKeeps
  <1>3. ASSUME NEW p \in DOMAIN profiles, CreateConfig(p) PROVE PortConfigsInv'
    BY <1>3, CreateKeeps
  <1>4. ASSUME NEW c \in DOMAIN configs, UpdateConfig(c) PROVE PortConfigsInv'
    BY <1>4, UpdateKeeps
  <1>5. ASSUME NEW c \in DOMAIN configs, ResetConfig(c) PROVE PortConfigsInv'
    BY <1>5, OthersKeep
  <1>6. CASE ChangePipe
    BY <1>6, OthersKeep
  <1>7. ASSUME NEW d \in DOMAIN configs,
               NEW sources \in SUBSET {c \in DOMAIN configs : LeadsTo(c, d)},
               SetNewPatch(sources, {d})
        PROVE  PortConfigsInv'
    BY <1>7, PatchKeeps
  <1>8. CASE ResetPatch
    BY <1>8, ResetKeepsPatchInv
  <1>9. CASE UNCHANGED portConfigVars
    BY <1>9, OthersKeep
  <1>. QED
    BY <1>1, <1>2, <1>3, <1>4, <1>5, <1>6, <1>7, <1>8, <1>9 DEF PortConfigsNext

LEMMA PortConfigsInvHolds == PortConfigsSpec => []PortConfigsInv
  BY PortConfigsInitially, PortConfigsStep, PTL DEF PortConfigsSpec

\* The buffer that a patch names as the minimum is enough on each of its mix
\* port configs (Module.cpp:1146-1154, 174-214).
THEOREM PatchBufferAlwaysSuffices == PortConfigsSpec => []PatchBufferSuffices
  <1>1. PortConfigsInv => PatchBufferSuffices
    <2>. SUFFICES ASSUME PatchInv, NEW c \in MixConfigs(PatchEnds), IsPcm(configs[c])
                  PROVE  AcceptsStream(configs[c], patch.frames)
      BY DEF PatchBufferSuffices, PortConfigsInv
    <2>1. /\ patch.frames \in FrameCounts /\ patch.frames > 0
          /\ BufferSizeFrames(configs[c]) <= patch.frames
      BY DEF PatchInv
    <2>2. FrameSize(configs[c]) <= 2^30 \div patch.frames
      BY <2>1, FramesFit
    <2>3. patch.frames >= BufferSizeFrames(configs[c])
      BY <2>1
    <2>. QED
      BY <2>1, <2>2, <2>3, Zenon DEF AcceptsStream
  <1>. QED
    BY <1>1, PortConfigsInvHolds, PTL

\* What a client is told to ask for is what it gets.
LEMMA SuggestionTaken ==
  ASSUME NEW base, NEW rates, NEW masks, NEW request \in Request,
         SuggestedFormat([rates |-> rates, masks |-> masks], base, request) \in DOMAIN rates,
         \A f \in DOMAIN rates : base.channelMask \in masks[f] /\ base.sampleRate \in rates[f]
  PROVE  LET offer  == [rates |-> rates, masks |-> masks]
             config == Suggestion(offer, base, request)
         IN CreatesConfig(offer, base, [field \in DOMAIN config \ {"port"} |-> {config[field]}])
  <1>. DEFINE offer  == [rates |-> rates, masks |-> masks]
              format == SuggestedFormat(offer, base, request)
              mask   == Updated(base.channelMask, request.channelMask, masks[format])
              rate   == Updated(base.sampleRate, request.sampleRate, rates[format])
              config == Suggestion(offer, base, request)
              asking == [field \in DOMAIN config \ {"port"} |-> {config[field]}]
  <1>1. config = PortConfig(base.port, format, mask, rate)
    BY DEF Suggestion
  <1>2. offer.rates = rates /\ offer.masks = masks /\ format \in DOMAIN rates
    OBVIOUS
  <1>3. /\ request.channelMask \in Optional(Masks \cup {Dynamic.channelMask})
        /\ request.sampleRate \in Optional(Rates \cup {Dynamic.sampleRate})
    BY DEF Request
  <1>. HIDE DEF config, format
  <1>4. mask \in masks[format]
    <2>1. mask = base.channelMask \/ mask \in masks[format]
      BY <1>3, TakenOrKept
    <2>. QED
      BY <1>2, <2>1, Zenon
  <1>5. rate \in rates[format]
    <2>1. rate = base.sampleRate \/ rate \in rates[format]
      BY <1>3, TakenOrKept
    <2>. QED
      BY <1>2, <2>1, Zenon
  <1>. HIDE DEF mask, rate, offer
  <1>6. /\ DOMAIN asking = {"format", "channelMask", "sampleRate"}
        /\ asking.format = {format} /\ asking.channelMask = {mask} /\ asking.sampleRate = {rate}
    BY <1>1 DEF PortConfig
  <1>. HIDE DEF asking
  <1>7. SuggestedFormat(offer, base, asking) = format
    BY <1>2, <1>6 DEF SuggestedFormat, Updated
  <1>8. ~IsRefused(offer, base, asking) /\ IsValid(offer, base, asking)
    BY <1>2, <1>4, <1>5, <1>6, <1>7 DEF IsRefused, IsValid
  <1>9. IsFullySpecified(asking)
    BY <1>6 DEF IsFullySpecified
  <1>. QED
    BY <1>8, <1>9 DEF CreatesConfig, asking, config, offer

\* The default of a port is among what the port offers.
LEMMA DefaultOffered ==
  ASSUME NEW p, profiles[p] \in UniformProfiles, HasDefault(p), ~FromRemoteEnd(p)
  PROVE  /\ DOMAIN SupportedRates(p) = DOMAIN SupportedMasks(p)
         /\ \A f \in DOMAIN SupportedRates(p) :
              /\ DefaultPortConfig(p).channelMask \in SupportedMasks(p)[f]
              /\ DefaultPortConfig(p).sampleRate \in SupportedRates(p)[f]
  <1>1. CASE AllowDynamicConfig(p)
    <2>1. DefaultPortConfig(p) = DynamicPortConfig(p)
      BY <1>1 DEF AllowDynamicConfig, DefaultPortConfig
    <2>2. DynamicPortConfig(p).channelMask = Dynamic.channelMask
          /\ DynamicPortConfig(p).sampleRate = Dynamic.sampleRate
      BY DEF DynamicPortConfig, PortConfig
    <2>. QED
      BY <1>1, <2>1, <2>2 DEF SupportedRates, SupportedMasks
  <1>2. CASE ~AllowDynamicConfig(p)
    <2>1. ~HasDynamicProfilesOnly(p) /\ profiles[p] # <<>>
      BY <1>2 DEF AllowDynamicConfig, HasDefault, HasDynamicProfilesOnly
    <2>2. /\ Head(profiles[p]) = profiles[p][1]
          /\ Head(profiles[p][1].sampleRates) \in ToSet(profiles[p][1].sampleRates)
          /\ Head(profiles[p][1].channelMasks) \in ToSet(profiles[p][1].channelMasks)
      BY <2>1, FirstProfile, Zenon
    <2>3. /\ DefaultPortConfig(p).channelMask = Head(profiles[p][1].channelMasks)
          /\ DefaultPortConfig(p).sampleRate = Head(profiles[p][1].sampleRates)
      BY <2>1, <2>2 DEF DefaultPortConfig, PortConfig
    <2>. QED
      BY <1>2, <2>2, <2>3, SameOffer
  <1>. QED
    BY <1>1, <1>2

LEMMA NegotiationAlwaysEnds == PortConfigsInv => NegotiationEnds
  <1>. SUFFICES ASSUME PortConfigsInv, NEW p \in DOMAIN profiles, HasDefault(p), ~FromRemoteEnd(p),
                       NEW request \in Request, ~IsRefused(Offer(p), DefaultPortConfig(p), request)
                PROVE  LET base   == DefaultPortConfig(p)
                           config == Suggestion(Offer(p), base, request)
                       IN CreatesConfig(Offer(p), base,
                                        [field \in DOMAIN config \ {"port"} |-> {config[field]}])
    BY DEF NegotiationEnds
  <1>1. profiles[p] \in UniformProfiles
    BY DEF PortConfigsInv, ProfilesUniform
  <1>2. Offer(p) = [rates |-> SupportedRates(p), masks |-> SupportedMasks(p)]
    BY DEF Offer
  <1>3. SuggestedFormat(Offer(p), DefaultPortConfig(p), request) \in DOMAIN SupportedRates(p)
    BY <1>2 DEF IsRefused
  <1>. QED
    BY <1>1, <1>2, <1>3, DefaultOffered, SuggestionTaken

\* Whatever a client asks for first, setAudioPortConfig takes what it then
\* suggests itself, in every behaviour of the port configs of every type of
\* module (Module.cpp:1252-1350).
THEOREM SuggestionsAlwaysTaken ==
  PortConfigsSpec => []NegotiationEnds /\ []SuggestionsAreTaken
  <1>1. NegotiationEnds => SuggestionsAreTaken
    BY DEF SuggestionsAreTaken
  <1>. QED
    BY <1>1, NegotiationAlwaysEnds, PortConfigsInvHolds, PTL
=============================================================================
