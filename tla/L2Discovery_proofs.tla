------------------------- MODULE L2Discovery_proofs -------------------------
(***************************************************************************)
(* Proofs about L2Discovery, for every cluster and every set of reports:   *)
(* the list of interfaces and the maps into it agree whatever fails, and   *)
(* the numbers given are positions in the list unless an attempt failed    *)
(* half-way; no interface is lost, LANs stay within the physical segments  *)
(* and have all links, announces are with the interface that received them.*)
(***************************************************************************)
EXTENDS L2Discovery, SequenceTheorems, Lans_proofs, TLAPS

(***************************************************************************)
(* Adding a key to a function.                                             *)
(***************************************************************************)
LEMMA SetProperties ==
    ASSUME NEW f, NEW x, NEW value
    PROVE  /\ DOMAIN Set(f, x, value) = DOMAIN f \cup {x}
           /\ Set(f, x, value)[x] = value
           /\ \A y \in DOMAIN f : y # x => Set(f, x, value)[y] = f[y]
BY DEF Set

----------------------------------------------------------------------------
(***************************************************************************)
(* Types.                                                                  *)
(***************************************************************************)
LEMMA EmptyTypes == <<>> \in Seq(Entries) /\ DOMAIN <<>> = {}
OBVIOUS

LEMMA TypeInit == Init => TypeOK
<1>1. ASSUME Init
      PROVE  /\ PtpIfList \in Seq(Entries)
             /\ DOMAIN DiscoveryMap = {} /\ DOMAIN PtpIfListUnfiltered = {}
             /\ DOMAIN ClusterMacToInt = {} /\ DOMAIN ClusterIndexToInt = {}
  BY <1>1, EmptyTypes DEF Init
<1>2. ASSUME Init
      PROVE  /\ refresh \in BOOLEAN /\ ptpInterfacesOnly \in BOOLEAN
             /\ deployed \in BOOLEAN /\ spoiled \in BOOLEAN /\ failed \in BOOLEAN
             /\ built \in BOOLEAN
             /\ L2DsMode = "MANAGED" /\ pc = "idle" /\ caller = "get" /\ outcome = "none"
             /\ L2DiscoveryPods = {} /\ PortsGettingPTP = {} /\ todo = {} /\ node \in Nodes
             /\ MaxL2GraphSize = 0 /\ index = 0 /\ calls = 0 /\ attempt = 0
  BY <1>2 DEF Init
<1>3. QED
  BY <1>1, <1>2 DEF TypeOK, L2DiscoveryRetries

LEMMA TypeCall ==
    ASSUME TypeOK, NEW from \in {"get", "direct"}, NEW only \in BOOLEAN,
           pc = "idle", DiscoverL2Connectivity(from, only)
    PROVE  TypeOK'
<1>1. /\ PtpIfList' \in Seq(Entries)
      /\ DOMAIN PtpIfListUnfiltered' = {}
      /\ DOMAIN ClusterMacToInt' = {} /\ DOMAIN ClusterIndexToInt' = {}
  BY EmptyTypes DEF DiscoverL2Connectivity, reset
<1>2. L2DsMode' \in {"MANAGED", "PRECONFIGURED"} /\ pc' \in {"create", "list"}
  BY ModesAssumption DEF DiscoverL2Connectivity
<1>3. /\ refresh' \in BOOLEAN /\ ptpInterfacesOnly' \in BOOLEAN /\ deployed' \in BOOLEAN
      /\ spoiled' \in BOOLEAN /\ failed' \in BOOLEAN /\ built' \in BOOLEAN
  BY Zenon DEF DiscoverL2Connectivity, TypeOK
<1>4. /\ calls' = calls + 1 /\ caller' \in {"get", "direct"}
      /\ L2DiscoveryPods' = {} /\ todo' = {} /\ attempt' = 0 /\ index' = 0
      /\ UNCHANGED <<node, DiscoveryMap, PortsGettingPTP, MaxL2GraphSize, outcome>>
  BY DEF DiscoverL2Connectivity, reset, graphVars
<1>5. QED
  BY <1>1, <1>2, <1>3, <1>4 DEF TypeOK, L2DiscoveryRetries

LEMMA TypeExisting ==
    ASSUME TypeOK, GetExisting
    PROVE  TypeOK'
BY DEF TypeOK, GetExisting, configVars, callVars, L2DiscoveryRetries

LEMMA TypeEnvironment ==
    ASSUME TypeOK, \/ CreateDaemonSet \/ CreateDaemonSetFails
                   \/ getL2TopologyDiscoveryPods \/ ListPodsFails \/ DeleteNamespace
    PROVE  TypeOK'
<1>1. CASE CreateDaemonSet
  BY <1>1 DEF TypeOK, CreateDaemonSet, configVars, callVars, L2DiscoveryRetries
<1>2. CASE CreateDaemonSetFails
  BY <1>2 DEF TypeOK, CreateDaemonSetFails, Return, listVars, graphVars, callVars, L2DiscoveryRetries
<1>3. CASE getL2TopologyDiscoveryPods
  BY <1>3 DEF TypeOK, getL2TopologyDiscoveryPods, listVars, graphVars, callVars, historyVars, L2DiscoveryRetries
<1>4. CASE ListPodsFails
  BY <1>4 DEF TypeOK, ListPodsFails, Return, listVars, graphVars, callVars, L2DiscoveryRetries
<1>5. CASE DeleteNamespace
  BY <1>5 DEF TypeOK, DeleteNamespace, configVars, callVars, L2DiscoveryRetries
<1>6. QED
  BY <1>1, <1>2, <1>3, <1>4, <1>5

LEMMA TypeAttempt ==
    ASSUME TypeOK, BeginAttempt \/ ReadPod \/ ReadPodFails \/ EndAttempt
    PROVE  TypeOK'
<1>1. CASE BeginAttempt
  BY <1>1 DEF TypeOK, BeginAttempt, listVars, graphVars, historyVars, L2DiscoveryRetries
<1>2. CASE ReadPod
  <2>1. PICK nd \in todo :
          /\ node' = nd /\ todo' = todo \ {nd}
          /\ \E report \in Reports[nd] :
                DiscoveryMap' = Set(DiscoveryMap, nd, report) /\ work' = DOMAIN report.exp
    BY <1>2 DEF ReadPod
  <2>2. PICK report \in Reports[nd] :
          DiscoveryMap' = Set(DiscoveryMap, nd, report) /\ work' = DOMAIN report.exp
    BY <2>1
  <2>3. nd \in Nodes /\ work' \subseteq DOMAIN Ifaces[nd]
    BY <2>1, <2>2, ReportsAssumption DEF TypeOK
  <2>4. /\ DOMAIN DiscoveryMap' = DOMAIN DiscoveryMap \cup {nd}
        /\ \A other \in DOMAIN DiscoveryMap' : DiscoveryMap'[other] \in Reports[other]
    <3>1. DiscoveryMap' = Set(DiscoveryMap, nd, report)
      BY <2>2
    <3>2. /\ DOMAIN DiscoveryMap' = DOMAIN DiscoveryMap \cup {nd}
          /\ DiscoveryMap'[nd] = report
          /\ \A other \in DOMAIN DiscoveryMap :
                other # nd => DiscoveryMap'[other] = DiscoveryMap[other]
      BY <3>1 DEF Set
    <3>3. \A other \in DOMAIN DiscoveryMap : DiscoveryMap[other] \in Reports[other]
      BY DEF TypeOK
    <3>4. QED
      BY <2>2, <3>2, <3>3
  <2>5. /\ DOMAIN DiscoveryMap' \subseteq Nodes /\ node' \in DOMAIN DiscoveryMap'
        /\ node' \in Nodes /\ todo' \subseteq Nodes /\ work' \subseteq DOMAIN Ifaces[node']
    BY <2>1, <2>3, <2>4 DEF TypeOK
  <2>6. /\ UNCHANGED <<refresh, L2DsMode, L2DiscoveryPods, PtpIfList, PtpIfListUnfiltered,
                       ClusterMacToInt, ClusterIndexToInt, PortsGettingPTP,
                       MaxL2GraphSize, caller, ptpInterfacesOnly, attempt, index>>
        /\ UNCHANGED <<deployed, calls, outcome, spoiled, failed, built>> /\ pc' = "exp"
    BY <1>2 DEF ReadPod, listVars, graphVars, historyVars
  <2>7. /\ refresh' \in BOOLEAN /\ ptpInterfacesOnly' \in BOOLEAN /\ deployed' \in BOOLEAN
        /\ spoiled' \in BOOLEAN /\ failed' \in BOOLEAN /\ built' \in BOOLEAN
    BY <2>6, Zenon DEF TypeOK
  <2>8. QED
    BY <2>4, <2>5, <2>6, <2>7 DEF TypeOK, L2DiscoveryRetries
<1>3. CASE ReadPodFails
  BY <1>3 DEF TypeOK, ReadPodFails, configVars, callVars, L2DiscoveryRetries
<1>4. CASE EndAttempt
  BY <1>4 DEF TypeOK, EndAttempt, listVars, callVars, historyVars, L2DiscoveryRetries
<1>5. QED
  BY <1>1, <1>2, <1>3, <1>4

LEMMA NewEntry ==
    ASSUME NEW nd \in Nodes, NEW name \in DOMAIN Ifaces[nd]
    PROVE  [node |-> nd, name |-> name, mac |-> Iface(nd, name).mac,
            kind |-> Iface(nd, name).kind, announces |-> {}] \in Entries
<1>1. <<name, nd>> \in Indexes /\ name \in Nat
      /\ Iface(nd, name).kind \in {"ptp", "virtual", "plain"}
  BY IfacesAssumption DEF Indexes, Iface
<1>2. Iface(nd, name).mac \in Macs
  BY <1>1 DEF Macs
<1>3. QED
  BY <1>1, <1>2 DEF Entries

LEMMA TypeUpdateMaps ==
    ASSUME TypeOK, NEW name \in work, PassOver(name) \/ Skip(name) \/ Number(name)
    PROVE  TypeOK'
<1>1. /\ UNCHANGED <<refresh, L2DsMode, L2DiscoveryPods, DiscoveryMap, PortsGettingPTP,
                     MaxL2GraphSize, pc, caller, ptpInterfacesOnly, attempt, todo, node>>
      /\ UNCHANGED <<deployed, calls, outcome, spoiled, failed, built>>
      /\ work' = work \ {name} /\ pc \in {"exp", "local"}
  BY DEF PassOver, Skip, Number, updateMaps, graphVars, historyVars
<1>2. name \in DOMAIN Ifaces[node] /\ node \in Nodes
  BY <1>1 DEF TypeOK
<1>3. <<name, node>> \in Indexes /\ ifMac(name) \in Macs
  BY <1>2 DEF Indexes, Macs, ifMac, Iface
<1>5. /\ PtpIfList' \in Seq(Entries) /\ index' \in Nat
      /\ DOMAIN PtpIfListUnfiltered' \subseteq Macs
      /\ DOMAIN ClusterMacToInt' \subseteq Macs
      /\ DOMAIN ClusterIndexToInt' \subseteq Indexes
  <2>1. /\ PtpIfList \in Seq(Entries) /\ index \in Nat
        /\ DOMAIN PtpIfListUnfiltered \subseteq Macs
        /\ DOMAIN ClusterMacToInt \subseteq Macs
        /\ DOMAIN ClusterIndexToInt \subseteq Indexes
    BY DEF TypeOK
  <2>2. CASE PassOver(name)
    BY <2>1, <2>2 DEF PassOver, listVars
  <2>3. ASSUME PtpIfListUnfiltered' = Set(PtpIfListUnfiltered, ifMac(name), <<name, node>>)
        PROVE  DOMAIN PtpIfListUnfiltered' \subseteq Macs
    <3>1. DOMAIN PtpIfListUnfiltered' = DOMAIN PtpIfListUnfiltered \cup {ifMac(name)}
      BY <2>3, SetProperties
    <3>2. QED
      BY <2>1, <3>1, <1>3
  <2>4. CASE Skip(name)
    <3>1. DOMAIN PtpIfListUnfiltered' \subseteq Macs
      BY <2>3, <2>4 DEF Skip
    <3>2. UNCHANGED <<PtpIfList, ClusterMacToInt, ClusterIndexToInt, index>>
      BY <2>4 DEF Skip
    <3>3. QED
      BY <2>1, <3>1, <3>2
  <2>5. CASE Number(name)
    <3>1. [node |-> node, name |-> name, mac |-> ifMac(name),
           kind |-> Iface(node, name).kind, announces |-> {}] \in Entries
      BY <1>2, NewEntry DEF ifMac
    <3>2. PtpIfList' \in Seq(Entries) /\ index' \in Nat
      BY <2>1, <2>5, <3>1 DEF Number
    <3>3. /\ DOMAIN ClusterMacToInt' = DOMAIN ClusterMacToInt \cup {ifMac(name)}
          /\ DOMAIN ClusterIndexToInt' = DOMAIN ClusterIndexToInt \cup {<<name, node>>}
      BY <2>5, SetProperties DEF Number
    <3>4. DOMAIN PtpIfListUnfiltered' \subseteq Macs
      BY <2>3, <2>5 DEF Number
    <3>5. QED
      BY <2>1, <3>2, <3>3, <3>4, <1>3
  <2>6. QED
    BY <2>2, <2>4, <2>5
<1>6. /\ refresh' \in BOOLEAN /\ ptpInterfacesOnly' \in BOOLEAN /\ deployed' \in BOOLEAN
      /\ spoiled' \in BOOLEAN /\ failed' \in BOOLEAN /\ built' \in BOOLEAN
  BY <1>1, Zenon DEF TypeOK
<1>7. QED
  BY <1>1, <1>5, <1>6 DEF TypeOK, L2DiscoveryRetries

LEMMA TypeEndUpdateMaps ==
    ASSUME TypeOK, EndUpdateMaps
    PROVE  TypeOK'
<1>1. pc = "exp" => work' \subseteq DOMAIN Ifaces[node]
  BY ReportsAssumption DEF TypeOK, EndUpdateMaps
<1>2. QED
  BY <1>1 DEF TypeOK, EndUpdateMaps, configVars, historyVars, L2DiscoveryRetries

(***************************************************************************)
(* What getInterfacesReceivingPTP leaves of the list.                      *)
(***************************************************************************)
LEMMA AnnouncesWritten ==
    ASSUME TypeOK, getInterfacesReceivingPTP
    PROVE  /\ PtpIfList' \in Seq(Entries)
           /\ Len(PtpIfList') = Len(PtpIfList)
           /\ \A k \in DOMAIN PtpIfList :
                 /\ PtpIfList'[k].node = PtpIfList[k].node
                 /\ PtpIfList'[k].name = PtpIfList[k].name
                 /\ PtpIfList'[k].mac = PtpIfList[k].mac
                 /\ PtpIfList'[k].kind = PtpIfList[k].kind
<1>1. PtpIfList \in Seq(Entries) /\ PtpIfList' = [k \in DOMAIN PtpIfList |-> PtpIfList'[k]]
  BY DEF TypeOK, getInterfacesReceivingPTP
<1>2. ASSUME NEW k \in DOMAIN PtpIfList
      PROVE  /\ PtpIfList'[k] \in Entries
             /\ PtpIfList'[k].node = PtpIfList[k].node
             /\ PtpIfList'[k].name = PtpIfList[k].name
             /\ PtpIfList'[k].mac = PtpIfList[k].mac
             /\ PtpIfList'[k].kind = PtpIfList[k].kind
  <2>1. PtpIfList[k] \in Entries
    BY <1>1
  <2>2. CASE LastWriter(k - 1) = {}
    BY <2>1, <2>2 DEF getInterfacesReceivingPTP
  <2>3. CASE LastWriter(k - 1) # {}
    <3>1. PICK x \in LastWriter(k - 1) :
              PtpIfList'[k] = [PtpIfList[k] EXCEPT !.announces = AnnouncesOf(x)]
      BY <2>3 DEF getInterfacesReceivingPTP
    <3>2. PICK nd \in DOMAIN DiscoveryMap : x \in (DOMAIN DiscoveryMap[nd].ptp) \X {nd}
      BY <3>1 DEF LastWriter, Writers, Receiving
    <3>3. AnnouncesOf(x) \subseteq Announces
      BY <3>2, ReportsAssumption DEF AnnouncesOf, TypeOK
    <3>4. QED
      BY <2>1, <3>1, <3>3 DEF Entries
  <2>4. QED
    BY <2>2, <2>3
<1>3. QED
  BY <1>1, <1>2

LEMMA TypeReceiving ==
    ASSUME TypeOK, getInterfacesReceivingPTP
    PROVE  TypeOK'
<1>1. Receiving \subseteq Indexes
  <2>1. SUFFICES ASSUME NEW x \in Receiving PROVE x \in Indexes
    OBVIOUS
  <2>2. PICK nd \in DOMAIN DiscoveryMap : x \in (DOMAIN DiscoveryMap[nd].ptp) \X {nd}
    BY <2>1 DEF Receiving
  <2>3. nd \in Nodes /\ DOMAIN DiscoveryMap[nd].ptp \subseteq DOMAIN Ifaces[nd]
    BY <2>2, ReportsAssumption DEF TypeOK
  <2>4. QED
    BY <2>2, <2>3 DEF Indexes
<1>2. PtpIfList' \in Seq(Entries)
  BY AnnouncesWritten
<1>3. PortsGettingPTP' \subseteq Indexes
  BY <1>1 DEF TypeOK, getInterfacesReceivingPTP
<1>4. QED
  BY <1>2, <1>3 DEF TypeOK, getInterfacesReceivingPTP, graphVars, callVars, historyVars, L2DiscoveryRetries

LEMMA TypeGraph ==
    ASSUME TypeOK, createL2InternalGraph \/ createL2InternalGraphPanics
    PROVE  TypeOK'
<1>1. CASE createL2InternalGraph
  BY <1>1 DEF TypeOK, createL2InternalGraph, Return, listVars, callVars, L2DiscoveryRetries
<1>2. CASE createL2InternalGraphPanics
  BY <1>2 DEF TypeOK, createL2InternalGraphPanics, configVars, callVars, historyVars,
              L2DiscoveryRetries
<1>3. QED
  BY <1>1, <1>2

LEMMA TypeNext == TypeOK /\ [Next]_vars => TypeOK'
<1> SUFFICES ASSUME TypeOK, [Next]_vars
             PROVE  TypeOK'
  OBVIOUS
<1>1. CASE \E only \in BOOLEAN : GetL2DiscoveryConfig(only) \/ Direct(only)
  BY <1>1, TypeCall DEF GetL2DiscoveryConfig, Direct
<1>2. CASE GetExisting
  BY <1>2, TypeExisting
<1>3. CASE Step
  BY <1>3, TypeEnvironment, TypeAttempt, TypeUpdateMaps, TypeEndUpdateMaps, TypeReceiving,
     TypeGraph DEF Step
<1>4. CASE UNCHANGED vars
  BY <1>4 DEF vars, TypeOK, L2DiscoveryRetries
<1>5. QED
  BY <1>1, <1>2, <1>3, <1>4 DEF Next

(* The variables keep their types in every reachable state, for every      *)
(* cluster, whatever the API calls and the reports return.                 *)
THEOREM TypeCorrect == Spec => []TypeOK
BY TypeInit, TypeNext, PTL DEF Spec

----------------------------------------------------------------------------
(***************************************************************************)
(* The list of interfaces and its maps.  The numbers that updateMaps gives *)
(* come from the counter index, which starts from 0 in every attempt while *)
(* the list only grows: the counter never passes the length of the list,   *)
(* and falls behind it only after an attempt that had numbered interfaces  *)
(* failed.                                                                 *)
(***************************************************************************)
IndexInv ==
    /\ pc \in {"read", "exp", "local", "ptp"} =>
          /\ index <= Len(PtpIfList)
          /\ ~ spoiled => index = Len(PtpIfList)
    /\ pc \in {"create", "list"} => Len(PtpIfList) = 0
    /\ pc = "attempt" /\ ~ spoiled => Len(PtpIfList) = 0
    /\ pc \in {"delete", "graph"} /\ ~ failed /\ ~ spoiled => MaxL2GraphSize = Len(PtpIfList)
    /\ ~ spoiled => NumbersArePositions

ListInv == ListMatchesMaps /\ IndexInv

LEMMA ListEmpty ==
    ASSUME PtpIfList = <<>>, ClusterMacToInt = <<>>, ClusterIndexToInt = <<>>
    PROVE  ListMatchesMaps /\ NumbersArePositions /\ Len(PtpIfList) = 0
BY DEF ListMatchesMaps, NumbersArePositions

LEMMA ListInit == Init => ListInv
BY ListEmpty DEF Init, ListInv, IndexInv

LEMMA ListEmptied ==
    ASSUME reset
    PROVE  ListMatchesMaps' /\ NumbersArePositions' /\ Len(PtpIfList') = 0
BY DEF reset, ListMatchesMaps, NumbersArePositions

LEMMA ListKept ==
    ASSUME ListMatchesMaps, UNCHANGED <<PtpIfList, ClusterMacToInt, ClusterIndexToInt>>
    PROVE  ListMatchesMaps' /\ (NumbersArePositions => NumbersArePositions')
BY DEF ListMatchesMaps, NumbersArePositions, ListEntry

LEMMA ListAnnounces ==
    ASSUME TypeOK, ListMatchesMaps, getInterfacesReceivingPTP
    PROVE  ListMatchesMaps' /\ (NumbersArePositions => NumbersArePositions')
<1>1. /\ Len(PtpIfList') = Len(PtpIfList)
      /\ DOMAIN PtpIfList' = DOMAIN PtpIfList
      /\ UNCHANGED <<ClusterMacToInt, ClusterIndexToInt>>
  BY AnnouncesWritten DEF getInterfacesReceivingPTP
<1>2. \A k \in DOMAIN PtpIfList :
         /\ PtpIfList'[k].node = PtpIfList[k].node /\ PtpIfList'[k].name = PtpIfList[k].name
         /\ PtpIfList'[k].mac = PtpIfList[k].mac /\ PtpIfList'[k].kind = PtpIfList[k].kind
  BY AnnouncesWritten
<1>3. \A k \in DOMAIN PtpIfList : IndexOf(PtpIfList'[k]) = IndexOf(PtpIfList[k])
  BY <1>2 DEF IndexOf
<1>4. \A k \in DOMAIN PtpIfList : ListEntry(PtpIfList[k]) => ListEntry(PtpIfList'[k])
  BY <1>2, <1>3 DEF ListEntry
<1>5. {PtpIfList'[k].mac : k \in DOMAIN PtpIfList'} = {PtpIfList[k].mac : k \in DOMAIN PtpIfList}
  BY <1>1, <1>2
<1>6. {IndexOf(PtpIfList'[k]) : k \in DOMAIN PtpIfList'} =
         {IndexOf(PtpIfList[k]) : k \in DOMAIN PtpIfList}
  BY <1>1, <1>3
<1>7. ListMatchesMaps'
  BY <1>1, <1>2, <1>3, <1>4, <1>5, <1>6 DEF ListMatchesMaps
<1>8. NumbersArePositions => NumbersArePositions'
  BY <1>1, <1>2 DEF NumbersArePositions
<1>9. QED
  BY <1>7, <1>8

LEMMA ListNumber ==
    ASSUME TypeOK, ListInv, NEW name \in work, Number(name)
    PROVE  /\ ListMatchesMaps' /\ (NumbersArePositions /\ ~ spoiled => NumbersArePositions')
           /\ Len(PtpIfList') = Len(PtpIfList) + 1
<1> DEFINE last == Len(PtpIfList) + 1
           mac == ifMac(name)
<1>1. /\ node \in Nodes /\ name \in DOMAIN Ifaces[node]
      /\ pc \in {"exp", "local"} /\ UNCHANGED spoiled
  BY DEF Number, updateMaps, TypeOK, historyVars
<1>2. index \in Nat /\ index <= Len(PtpIfList) /\ (~ spoiled => index = Len(PtpIfList))
  BY <1>1 DEF ListInv, IndexInv, TypeOK
<1>3. /\ Len(PtpIfList) \in Nat /\ Len(PtpIfList') = last
      /\ DOMAIN PtpIfList' = DOMAIN PtpIfList \cup {last} /\ last \notin DOMAIN PtpIfList
      /\ \A k \in DOMAIN PtpIfList : PtpIfList'[k] = PtpIfList[k]
      /\ PtpIfList'[last].mac = mac
      /\ PtpIfList'[last].node = node /\ PtpIfList'[last].name = name
      /\ PtpIfList'[last].kind = Iface(node, name).kind
  <2> DEFINE entry == [node |-> node, name |-> name, mac |-> ifMac(name),
                       kind |-> Iface(node, name).kind, announces |-> {}]
  <2>1. PtpIfList \in Seq(Entries) /\ PtpIfList' = Append(PtpIfList, entry)
    BY DEF Number, TypeOK
  <2>2. entry.mac = mac /\ entry.node = node /\ entry.name = name /\ entry.kind = Iface(node, name).kind
    OBVIOUS
  <2>3. entry \in Entries
    BY <1>1, NewEntry DEF ifMac
  <2> HIDE DEF entry
  <2>4. /\ Len(PtpIfList') = Len(PtpIfList) + 1
        /\ \A k \in 1 .. Len(PtpIfList) : PtpIfList'[k] = PtpIfList[k]
        /\ PtpIfList'[Len(PtpIfList) + 1] = entry
        /\ PtpIfList' \in Seq(Entries)
    BY <2>1, <2>3, AppendProperties
  <2>5. QED
    BY <2>1, <2>2, <2>4
<1>4. ListEntry(PtpIfList'[last])
  BY <1>1, <1>3 DEF ListEntry, IndexOf, Indexes, ifMac
<1>5. mac \notin DOMAIN ClusterMacToInt
  BY DEF Number, Known
<1>6. <<name, node>> \notin DOMAIN ClusterIndexToInt
  <2>1. SUFFICES ASSUME <<name, node>> \in DOMAIN ClusterIndexToInt PROVE FALSE
    OBVIOUS
  <2>2. PICK k \in DOMAIN PtpIfList : IndexOf(PtpIfList[k]) = <<name, node>>
    BY <2>1 DEF ListInv, ListMatchesMaps
  <2>3. PtpIfList[k].mac = mac /\ PtpIfList[k].mac \in DOMAIN ClusterMacToInt
    BY <2>2 DEF ListInv, ListMatchesMaps, ListEntry, IndexOf, ifMac
  <2>4. QED
    BY <2>3, <1>5
<1>7. /\ DOMAIN ClusterMacToInt' = DOMAIN ClusterMacToInt \cup {mac}
      /\ ClusterMacToInt'[mac] = index
      /\ \A other \in DOMAIN ClusterMacToInt : ClusterMacToInt'[other] = ClusterMacToInt[other]
  BY <1>5 DEF Number, Set
<1>8. /\ DOMAIN ClusterIndexToInt' = DOMAIN ClusterIndexToInt \cup {<<name, node>>}
      /\ ClusterIndexToInt'[<<name, node>>] = index
      /\ \A other \in DOMAIN ClusterIndexToInt :
            ClusterIndexToInt'[other] = ClusterIndexToInt[other]
  BY <1>6 DEF Number, Set
<1>9. IndexOf(PtpIfList'[last]) = <<name, node>>
  BY <1>3 DEF IndexOf
<1>10. \A k \in DOMAIN PtpIfList :
          /\ ListEntry(PtpIfList[k]) /\ PtpIfList[k].mac \in DOMAIN ClusterMacToInt
          /\ PtpIfList[k].mac # mac
          /\ IndexOf(PtpIfList[k]) \in DOMAIN ClusterIndexToInt
          /\ ClusterMacToInt[PtpIfList[k].mac] = ClusterIndexToInt[IndexOf(PtpIfList[k])]
          /\ ClusterMacToInt[PtpIfList[k].mac] \in 0 .. k - 1
  BY <1>5 DEF ListInv, ListMatchesMaps
<1>11. ListMatchesMaps'
  <2>1. \A k \in DOMAIN PtpIfList' : ListEntry(PtpIfList'[k])
    BY <1>3, <1>4, <1>10
  <2>2. \A j, k \in DOMAIN PtpIfList' : PtpIfList'[j].mac = PtpIfList'[k].mac => j = k
    <3>1. \A j, k \in DOMAIN PtpIfList : PtpIfList[j].mac = PtpIfList[k].mac => j = k
      BY DEF ListInv, ListMatchesMaps
    <3>2. QED
      BY <3>1, <1>3, <1>10
  <2>3. DOMAIN ClusterMacToInt' = {PtpIfList'[k].mac : k \in DOMAIN PtpIfList'}
    <3>1. DOMAIN ClusterMacToInt = {PtpIfList[k].mac : k \in DOMAIN PtpIfList}
      BY DEF ListInv, ListMatchesMaps
    <3>2. {PtpIfList'[k].mac : k \in DOMAIN PtpIfList'} =
             {PtpIfList[k].mac : k \in DOMAIN PtpIfList} \cup {mac}
      BY <1>3
    <3>3. QED
      BY <3>1, <3>2, <1>7
  <2>4. DOMAIN ClusterIndexToInt' = {IndexOf(PtpIfList'[k]) : k \in DOMAIN PtpIfList'}
    <3>1. DOMAIN ClusterIndexToInt = {IndexOf(PtpIfList[k]) : k \in DOMAIN PtpIfList}
      BY DEF ListInv, ListMatchesMaps
    <3>2. {IndexOf(PtpIfList'[k]) : k \in DOMAIN PtpIfList'} =
             {IndexOf(PtpIfList[k]) : k \in DOMAIN PtpIfList} \cup {<<name, node>>}
      BY <1>3, <1>9
    <3>3. QED
      BY <3>1, <3>2, <1>8
  <2>5. ASSUME NEW k \in DOMAIN PtpIfList'
        PROVE  /\ ClusterMacToInt'[PtpIfList'[k].mac] = ClusterIndexToInt'[IndexOf(PtpIfList'[k])]
               /\ ClusterMacToInt'[PtpIfList'[k].mac] \in 0 .. k - 1
    <3>1. CASE k = last
      BY <3>1, <1>2, <1>3, <1>7, <1>8, <1>9
    <3>2. CASE k # last
      BY <3>2, <1>3, <1>7, <1>8, <1>10
    <3>3. QED
      BY <3>1, <3>2
  <2>6. QED
    BY <2>1, <2>2, <2>3, <2>4, <2>5 DEF ListMatchesMaps
<1>12. ASSUME NumbersArePositions, ~ spoiled
       PROVE  NumbersArePositions'
  BY <1>2, <1>3, <1>7, <1>10, <1>12 DEF NumbersArePositions
<1>13. QED
  BY <1>3, <1>11, <1>12

(***************************************************************************)
(* Every step keeps the invariant.                                         *)
(***************************************************************************)
LEMMA ListCall ==
    ASSUME TypeOK, ListInv, NEW from, NEW only, DiscoverL2Connectivity(from, only)
    PROVE  ListInv'
<1>1. reset /\ pc' \in {"create", "list"} /\ spoiled' = FALSE
  BY DEF DiscoverL2Connectivity
<1>2. ListMatchesMaps' /\ NumbersArePositions' /\ Len(PtpIfList') = 0
  BY <1>1, ListEmptied
<1>3. QED
  BY <1>1, <1>2 DEF ListInv, IndexInv

LEMMA ListEnvironment ==
    ASSUME TypeOK, ListInv,
           \/ GetExisting \/ CreateDaemonSet \/ CreateDaemonSetFails
           \/ getL2TopologyDiscoveryPods \/ ListPodsFails \/ DeleteNamespace
    PROVE  ListInv'
<1>1. /\ UNCHANGED <<PtpIfList, ClusterMacToInt, ClusterIndexToInt, MaxL2GraphSize>>
      /\ UNCHANGED <<index, spoiled, failed>>
  BY DEF GetExisting, CreateDaemonSet, CreateDaemonSetFails, getL2TopologyDiscoveryPods,
         ListPodsFails, DeleteNamespace, configVars, listVars, graphVars, callVars, historyVars
<1>2. \/ pc' = pc
      \/ pc = "create" /\ pc' \in {"list", "idle"}
      \/ pc = "list" /\ pc' \in {"attempt", "idle"}
      \/ pc = "delete" /\ pc' = "graph"
  BY DEF GetExisting, CreateDaemonSet, CreateDaemonSetFails, getL2TopologyDiscoveryPods,
         ListPodsFails, DeleteNamespace, Return
<1>3. ListMatchesMaps' /\ (NumbersArePositions => NumbersArePositions')
  BY <1>1, ListKept DEF ListInv
<1>4. QED
  BY <1>1, <1>2, <1>3 DEF ListInv, IndexInv

LEMMA ListAttempt ==
    ASSUME TypeOK, ListInv, BeginAttempt \/ ReadPod \/ ReadPodFails \/ EndAttempt
    PROVE  ListInv'
<1>1. UNCHANGED <<PtpIfList, ClusterMacToInt, ClusterIndexToInt>>
  BY DEF BeginAttempt, ReadPod, ReadPodFails, EndAttempt, configVars, listVars
<1>2. ListMatchesMaps' /\ (NumbersArePositions => NumbersArePositions')
  BY <1>1, ListKept DEF ListInv
<1>3. Len(PtpIfList) \in Nat /\ index \in Nat
  BY DEF TypeOK
<1>4. CASE BeginAttempt
  <2>1. pc = "attempt" /\ pc' = "read" /\ index' = 0 /\ UNCHANGED spoiled
    BY <1>4 DEF BeginAttempt, historyVars
  <2>2. QED
    BY <1>1, <1>2, <1>3, <2>1 DEF ListInv, IndexInv
<1>5. CASE ReadPod
  <2>1. pc = "read" /\ pc' = "exp" /\ UNCHANGED <<index, spoiled>>
    BY <1>5 DEF ReadPod, historyVars
  <2>2. QED
    BY <1>1, <1>2, <2>1 DEF ListInv, IndexInv
<1>6. CASE ReadPodFails
  <2>1. pc = "read" /\ (pc' = "attempt" \/ (pc' = "delete" /\ failed' = TRUE))
    BY <1>6 DEF ReadPodFails
  <2>2. ~ spoiled' => ~ spoiled /\ ~ (index > 0)
    <3>1. spoiled' = (spoiled \/ index > 0)
      BY <1>6 DEF ReadPodFails
    <3>2. QED
      BY <3>1, Zenon
  <2>3. ~ spoiled' => Len(PtpIfList) = 0
    BY <1>3, <2>1, <2>2 DEF ListInv, IndexInv
  <2>4. QED
    BY <1>1, <1>2, <2>1, <2>2, <2>3 DEF ListInv, IndexInv
<1>7. CASE EndAttempt
  <2>1. pc = "read" /\ pc' = "delete" /\ MaxL2GraphSize' = index /\ UNCHANGED spoiled
    BY <1>7 DEF EndAttempt, historyVars
  <2>2. QED
    BY <1>1, <1>2, <2>1 DEF ListInv, IndexInv
<1>8. QED
  BY <1>4, <1>5, <1>6, <1>7

LEMMA ListCreateMaps ==
    ASSUME TypeOK, ListInv,
           \/ \E name \in work : PassOver(name) \/ Skip(name) \/ Number(name)
           \/ EndUpdateMaps \/ getInterfacesReceivingPTP
    PROVE  ListInv'
<1>1. /\ pc \in {"exp", "local", "ptp"} /\ pc' \in {"exp", "local", "ptp", "read"}
      /\ UNCHANGED spoiled
  BY DEF PassOver, Skip, Number, updateMaps, EndUpdateMaps, getInterfacesReceivingPTP, historyVars
<1>2. Len(PtpIfList) \in Nat /\ index \in Nat
  BY DEF TypeOK
<1>3. CASE \E name \in work : Number(name)
  <2>1. PICK name \in work : Number(name)
    BY <1>3
  <2>2. /\ ListMatchesMaps' /\ (NumbersArePositions /\ ~ spoiled => NumbersArePositions')
        /\ Len(PtpIfList') = Len(PtpIfList) + 1 /\ index' = index + 1
    BY <2>1, ListNumber DEF Number
  <2>3. QED
    BY <1>1, <1>2, <2>2 DEF ListInv, IndexInv
<1>4. CASE ~ \E name \in work : Number(name)
  <2>1. CASE getInterfacesReceivingPTP
    <3>1. ListMatchesMaps' /\ (NumbersArePositions => NumbersArePositions')
      BY <2>1, ListAnnounces DEF ListInv
    <3>2. Len(PtpIfList') = Len(PtpIfList) /\ UNCHANGED index
      BY <2>1, AnnouncesWritten DEF getInterfacesReceivingPTP, callVars
    <3>3. QED
      BY <1>1, <3>1, <3>2 DEF ListInv, IndexInv
  <2>2. CASE ~ getInterfacesReceivingPTP
    <3>1. UNCHANGED <<PtpIfList, ClusterMacToInt, ClusterIndexToInt, index>>
      BY <1>4, <2>2 DEF PassOver, Skip, EndUpdateMaps, configVars, listVars
    <3>2. ListMatchesMaps' /\ (NumbersArePositions => NumbersArePositions')
      BY <3>1, ListKept DEF ListInv
    <3>3. QED
      BY <1>1, <3>1, <3>2 DEF ListInv, IndexInv
  <2>3. QED
    BY <2>1, <2>2
<1>5. QED
  BY <1>3, <1>4

LEMMA ListGraph ==
    ASSUME TypeOK, ListInv, createL2InternalGraph \/ createL2InternalGraphPanics
    PROVE  ListInv'
<1>1. /\ UNCHANGED <<PtpIfList, ClusterMacToInt, ClusterIndexToInt, spoiled>>
      /\ pc' \in {"idle", "panic"}
  BY DEF createL2InternalGraph, createL2InternalGraphPanics, Return, configVars, listVars,
         historyVars
<1>2. ListMatchesMaps' /\ (NumbersArePositions => NumbersArePositions')
  BY <1>1, ListKept DEF ListInv
<1>3. QED
  BY <1>1, <1>2 DEF ListInv, IndexInv

LEMMA ListNext == TypeOK /\ ListInv /\ [Next]_vars => ListInv'
<1> SUFFICES ASSUME TypeOK, ListInv, [Next]_vars
             PROVE  ListInv'
  OBVIOUS
<1>1. CASE \E only \in BOOLEAN : GetL2DiscoveryConfig(only) \/ Direct(only)
  BY <1>1, ListCall DEF GetL2DiscoveryConfig, Direct
<1>2. CASE GetExisting
  BY <1>2, ListEnvironment
<1>3. CASE Step
  BY <1>3, ListEnvironment, ListAttempt, ListCreateMaps, ListGraph DEF Step
<1>4. CASE UNCHANGED vars
  BY <1>4, ListKept DEF vars, ListInv, IndexInv
<1>5. QED
  BY <1>1, <1>2, <1>3, <1>4 DEF Next

LEMMA ListAlways == Spec => [](TypeOK /\ ListInv)
BY TypeInit, TypeNext, ListInit, ListNext, PTL DEF Spec

(* The list and the maps into it always describe the same interfaces under *)
(* the same numbers, whichever attempts to read the reports fail: looking  *)
(* up the ends of an edge cannot go out of range (createL2InternalGraph).  *)
THEOREM ListCorrect == Spec => []ListMatchesMaps
<1>1. TypeOK /\ ListInv => ListMatchesMaps
  BY DEF ListInv
<1>2. QED
  BY <1>1, ListAlways, PTL

(* Numbers are positions, and the graph is as large as the list, unless an *)
(* attempt failed after numbering interfaces (getL2Disc, updateMaps).      *)
THEOREM NumbersCorrect == Spec => []NumbersFit
<1>1. TypeOK /\ ListInv => NumbersFit
  BY DEF ListInv, IndexInv, NumbersFit
<1>2. QED
  BY <1>1, ListAlways, PTL

----------------------------------------------------------------------------
(***************************************************************************)
(* Building the graph.                                                     *)
(***************************************************************************)
LEMMA EdgesListed ==
    ASSUME TypeOK, ListMatchesMaps, NEW edge \in Edges
    PROVE  /\ edge[1] \in 0 .. Len(PtpIfList) - 1
           /\ edge[2] \in 0 .. Len(PtpIfList) - 1
<1>1. PICK x \in DOMAIN ClusterIndexToInt :
        edge \in {<<ClusterIndexToInt[x], ClusterMacToInt[mac]>> :
                     mac \in Remote(x) \cap DOMAIN ClusterMacToInt}
  BY DEF Edges
<1>2. PICK mac \in DOMAIN ClusterMacToInt :
        edge = <<ClusterIndexToInt[x], ClusterMacToInt[mac]>>
  BY <1>1
<1>3. PICK j \in DOMAIN PtpIfList : x = IndexOf(PtpIfList[j])
  BY <1>1 DEF ListMatchesMaps
<1>4. PICK k \in DOMAIN PtpIfList : mac = PtpIfList[k].mac
  BY <1>2 DEF ListMatchesMaps
<1>5. DOMAIN PtpIfList = 1 .. Len(PtpIfList) /\ Len(PtpIfList) \in Nat
  BY DEF TypeOK
<1>6. ClusterIndexToInt[x] \in 0 .. j - 1 /\ ClusterMacToInt[mac] \in 0 .. k - 1
  BY <1>3, <1>4 DEF ListMatchesMaps
<1>7. QED
  BY <1>2, <1>5, <1>6

LEMMA GraphInRange ==
    ASSUME TypeOK, ListMatchesMaps, MaxL2GraphSize = Len(PtpIfList)
    PROVE  ~ GraphPanics
<1>1. Len(PtpIfList) \in Nat
  BY DEF TypeOK
<1>2. \A edge \in Edges : {edge[1], edge[2]} \subseteq Vertices
  BY EdgesListed DEF Vertices
<1>3. QED
  BY <1>1, <1>2 DEF GraphPanics

LEMMA PanicStep ==
    ASSUME Next, pc' = "panic"
    PROVE  createL2InternalGraphPanics
<1>1. CASE \E only \in BOOLEAN : GetL2DiscoveryConfig(only) \/ Direct(only)
  BY <1>1 DEF GetL2DiscoveryConfig, Direct, DiscoverL2Connectivity
<1>2. CASE GetExisting
  BY <1>2 DEF GetExisting
<1>3. CASE Step
  BY <1>3 DEF Step, CreateDaemonSet, CreateDaemonSetFails, getL2TopologyDiscoveryPods,
      ListPodsFails, BeginAttempt, ReadPod, ReadPodFails, EndAttempt, PassOver, Skip, Number,
      updateMaps, EndUpdateMaps, getInterfacesReceivingPTP, DeleteNamespace,
      createL2InternalGraph, Return
<1>4. QED
  BY <1>1, <1>2, <1>3 DEF Next

LEMMA PanicNext ==
    TypeOK /\ ListInv /\ PanicOnlyAfterFailure /\ [Next]_vars => PanicOnlyAfterFailure'
<1> SUFFICES ASSUME TypeOK, ListInv, PanicOnlyAfterFailure, [Next]_vars, pc' = "panic"
             PROVE  spoiled' \/ failed'
  BY DEF PanicOnlyAfterFailure
<1>1. CASE createL2InternalGraphPanics
  <2>1. pc = "graph" /\ GraphPanics /\ UNCHANGED <<spoiled, failed>>
    BY <1>1 DEF createL2InternalGraphPanics, historyVars
  <2>2. spoiled \/ failed
    BY <2>1, GraphInRange DEF ListInv, IndexInv
  <2>3. QED
    BY <2>1, <2>2
<1>2. CASE UNCHANGED vars
  <2>1. pc = "panic" /\ UNCHANGED <<spoiled, failed>>
    BY <1>2 DEF vars
  <2>2. QED
    BY <2>1 DEF PanicOnlyAfterFailure
<1>3. QED
  BY <1>1, <1>2, PanicStep

(* The graph library only panics in createL2InternalGraph, or PrintAllNICs *)
(* on an index out of range, when reading the reports has failed before.   *)
THEOREM PanicCorrect == Spec => []PanicOnlyAfterFailure
<1>1. Init => PanicOnlyAfterFailure
  BY DEF Init, PanicOnlyAfterFailure
<1>2. QED
  BY <1>1, ListAlways, PanicNext, PTL DEF Spec

----------------------------------------------------------------------------
(***************************************************************************)
(* Numbers are never taken back.                                           *)
(***************************************************************************)
Kept == /\ \A mac \in DOMAIN ClusterMacToInt : ClusterMacToInt'[mac] = ClusterMacToInt[mac]
        /\ \A k \in DOMAIN PtpIfList : PtpIfList'[k].mac = PtpIfList[k].mac

LEMMA KeptStep ==
    ASSUME TypeOK, ListInv, Step
    PROVE  Kept
<1>1. CASE \E name \in work : Number(name)
  <2>1. PICK name \in work : Number(name)
    BY <1>1
  <2>2. \A mac \in DOMAIN ClusterMacToInt : ClusterMacToInt'[mac] = ClusterMacToInt[mac]
    BY <2>1 DEF Number, Known, Set
  <2>3. \A k \in DOMAIN PtpIfList : PtpIfList'[k] = PtpIfList[k]
    BY <2>1 DEF Number, TypeOK
  <2>4. QED
    BY <2>2, <2>3 DEF Kept
<1>2. CASE getInterfacesReceivingPTP
  BY <1>2, AnnouncesWritten DEF Kept, getInterfacesReceivingPTP
<1>3. CASE ~ (\E name \in work : Number(name)) /\ ~ getInterfacesReceivingPTP
  <2>1. UNCHANGED <<PtpIfList, ClusterMacToInt>>
    BY <1>3 DEF Step, CreateDaemonSet, CreateDaemonSetFails, getL2TopologyDiscoveryPods,
       ListPodsFails, BeginAttempt, ReadPod, ReadPodFails, EndAttempt, PassOver, Skip,
       EndUpdateMaps, DeleteNamespace, createL2InternalGraph, createL2InternalGraphPanics,
       configVars, listVars
  <2>2. QED
    BY <2>1 DEF Kept
<1>4. QED
  BY <1>1, <1>2, <1>3

(* Within a discovery no interface is given another number or moved in the *)
(* list, through all attempts (updateMaps, getInterfacesReceivingPTP).     *)
THEOREM NumbersStableCorrect == Spec => NumbersStable
<1>1. TypeOK /\ ListInv /\ [Next]_vars => [pc # "idle" => Kept]_vars
  <2> SUFFICES ASSUME TypeOK, ListInv, Next, pc # "idle" PROVE Kept
    BY DEF vars
  <2>1. Step
    BY DEF Next, GetL2DiscoveryConfig, Direct, GetExisting
  <2>2. QED
    BY <2>1, KeptStep
<1>2. QED
  BY <1>1, ListAlways, PTL DEF Spec, NumbersStable, Kept

----------------------------------------------------------------------------
(***************************************************************************)
(* What does not change once a discovery has built its LANs.               *)
(***************************************************************************)
Reading == {"read", "exp", "local", "ptp"}

ResultVars == <<PtpIfList, ClusterMacToInt, ClusterIndexToInt, DiscoveryMap, LANs,
                ptpInterfacesOnly, spoiled, failed>>

BuiltIdle == built => pc = "idle"

LEMMA BuiltStep ==
    ASSUME BuiltIdle, [Next]_vars
    PROVE  /\ BuiltIdle'
           /\ built' => \/ built /\ UNCHANGED ResultVars
                        \/ createL2InternalGraph
<1>1. CASE \E only \in BOOLEAN : GetL2DiscoveryConfig(only) \/ Direct(only)
  BY <1>1 DEF GetL2DiscoveryConfig, Direct, DiscoverL2Connectivity, BuiltIdle
<1>2. CASE GetExisting
  BY <1>2 DEF GetExisting, BuiltIdle, configVars, callVars, ResultVars
<1>3. CASE createL2InternalGraph
  BY <1>3 DEF createL2InternalGraph, Return, BuiltIdle
<1>4. CASE Step /\ ~ createL2InternalGraph
  <2>1. UNCHANGED built /\ pc # "idle"
    BY <1>4 DEF Step, CreateDaemonSet, CreateDaemonSetFails, getL2TopologyDiscoveryPods,
       ListPodsFails, BeginAttempt, ReadPod, ReadPodFails, EndAttempt, PassOver, Skip, Number,
       updateMaps, EndUpdateMaps, getInterfacesReceivingPTP, DeleteNamespace,
       createL2InternalGraphPanics, historyVars
  <2> QED BY <2>1 DEF BuiltIdle
<1>5. CASE UNCHANGED vars
  BY <1>5 DEF vars, BuiltIdle, ResultVars
<1> QED BY <1>1, <1>2, <1>3, <1>4, <1>5 DEF Next

----------------------------------------------------------------------------
(***************************************************************************)
(* The edges, in terms of the list.                                        *)
(***************************************************************************)
LEMMA NumbersOf ==
    ASSUME ListMatchesMaps, NumbersArePositions, NEW k \in DOMAIN PtpIfList
    PROVE  /\ PtpIfList[k].mac \in DOMAIN ClusterMacToInt
           /\ IndexOf(PtpIfList[k]) \in DOMAIN ClusterIndexToInt
           /\ ClusterMacToInt[PtpIfList[k].mac] = k - 1
           /\ ClusterIndexToInt[IndexOf(PtpIfList[k])] = k - 1
BY DEF ListMatchesMaps, NumbersArePositions

LEMMA EdgeEnds ==
    ASSUME TypeOK, ListMatchesMaps, NumbersArePositions, NEW edge \in Edges
    PROVE  \E j, k \in DOMAIN PtpIfList :
              /\ edge = <<j - 1, k - 1>>
              /\ PtpIfList[k].mac \in Remote(IndexOf(PtpIfList[j]))
<1>1. PICK x \in DOMAIN ClusterIndexToInt :
        edge \in {<<ClusterIndexToInt[x], ClusterMacToInt[mac]>> :
                     mac \in Remote(x) \cap DOMAIN ClusterMacToInt}
  BY DEF Edges
<1>2. PICK mac \in DOMAIN ClusterMacToInt :
        mac \in Remote(x) /\ edge = <<ClusterIndexToInt[x], ClusterMacToInt[mac]>>
  BY <1>1
<1>3. PICK j \in DOMAIN PtpIfList : x = IndexOf(PtpIfList[j])
  BY <1>1 DEF ListMatchesMaps
<1>4. PICK k \in DOMAIN PtpIfList : mac = PtpIfList[k].mac
  BY <1>2 DEF ListMatchesMaps
<1> QED BY <1>2, <1>3, <1>4, NumbersOf

LEMMA RemoteSegment ==
    ASSUME TypeOK, ListMatchesMaps, NEW j \in DOMAIN PtpIfList,
           NEW mac \in Remote(IndexOf(PtpIfList[j]))
    PROVE  Segment[mac] = Segment[PtpIfList[j].mac]
<1> DEFINE nd == PtpIfList[j].node
           nm == PtpIfList[j].name
<1>1. nd \in DOMAIN DiscoveryMap /\ nm \in DOMAIN DiscoveryMap[nd].exp
      /\ mac \in DiscoveryMap[nd].exp[nm]
  BY DEF Remote, IndexOf
<1>2. nd \in Nodes /\ DiscoveryMap[nd] \in Reports[nd]
  BY <1>1 DEF TypeOK
<1>3. Segment[mac] = Segment[Ifaces[nd][nm].mac]
  BY <1>1, <1>2, ReportsAssumption
<1>4. PtpIfList[j].mac = Ifaces[nd][nm].mac
  BY DEF ListMatchesMaps, ListEntry, Iface
<1> QED BY <1>3, <1>4

SegmentOf(v) == Segment[PtpIfList[v + 1].mac]

LEMMA EdgeOnSegment ==
    ASSUME TypeOK, ListMatchesMaps, NumbersArePositions, NEW edge \in Edges
    PROVE  SegmentOf(edge[1]) = SegmentOf(edge[2])
<1>1. PICK j \in DOMAIN PtpIfList, k \in DOMAIN PtpIfList :
              /\ edge = <<j - 1, k - 1>>
              /\ PtpIfList[k].mac \in Remote(IndexOf(PtpIfList[j]))
  BY EdgeEnds
<1>2. j \in Nat /\ k \in Nat /\ edge[1] + 1 = j /\ edge[2] + 1 = k
  BY <1>1 DEF TypeOK
<1> QED BY <1>1, <1>2, RemoteSegment DEF SegmentOf

LEMMA LanOnSegment ==
    ASSUME TypeOK, ListMatchesMaps, NumbersArePositions,
           NEW C \in Components(Vertices, Edges), NEW v \in C, NEW w \in C
    PROVE  SegmentOf(v) = SegmentOf(w)
<1> DEFINE S == {x \in C : SegmentOf(x) = SegmentOf(v)}
<1>1. \A edge \in Edges : edge[1] \in S <=> edge[2] \in S
  BY EdgeOnSegment, ComponentKeepsEdges
<1>2. S \in SUBSET C /\ S # {}
  OBVIOUS
<1>3. S = C
  <2> HIDE DEF S
  <2> QED BY <1>1, <1>2, ComponentWhole
<1> QED BY <1>3

LEMMA LansSoundNext ==
    TypeOK /\ ListInv /\ BuiltIdle /\ LansSound /\ [Next]_vars => LansSound'
<1> SUFFICES ASSUME TypeOK, ListInv, BuiltIdle, LansSound, [Next]_vars, built', ~ spoiled',
                    NEW lan \in LANs', NEW v \in lan, NEW w \in lan
             PROVE  SegmentOf(v)' = SegmentOf(w)'
  BY DEF LansSound, SegmentOf
<1>1. CASE built /\ UNCHANGED ResultVars
  <2>1. UNCHANGED <<PtpIfList, LANs, spoiled>>
    BY <1>1 DEF ResultVars
  <2> QED BY <1>1, <2>1 DEF LansSound, SegmentOf
<1>2. CASE createL2InternalGraph
  <2>1. UNCHANGED <<PtpIfList, spoiled>> /\ LANs' = Components(Vertices, Edges)
    BY <1>2 DEF createL2InternalGraph, listVars
  <2>2. ListMatchesMaps /\ NumbersArePositions
    BY <2>1 DEF ListInv, IndexInv
  <2> QED BY <2>1, <2>2, LanOnSegment DEF SegmentOf
<1> QED BY <1>1, <1>2, BuiltStep

(* Interfaces put on one LAN are on one physical segment, whatever the     *)
(* filters leave out and whichever interfaces share a MAC address.         *)
THEOREM LansSoundCorrect == Spec => []LansSound
<1>1. Init => BuiltIdle /\ LansSound
  BY DEF Init, BuiltIdle, LansSound
<1>2. BuiltIdle /\ [Next]_vars => BuiltIdle'
  BY BuiltStep
<1> QED BY <1>1, <1>2, ListAlways, LansSoundNext, PTL DEF Spec

----------------------------------------------------------------------------
(***************************************************************************)
(* The course of a discovery.  Done are the nodes whose reports have been  *)
(* worked through; x is <<name, node>>.                                    *)
(***************************************************************************)
Working == {"exp", "local", "ptp"}
Discovering == Reading \cup {"delete", "graph"}

KindsInv == ptpInterfacesOnly => \A k \in DOMAIN PtpIfList : PtpIfList[k].kind = "ptp"

PodsInv ==
    /\ pc \in Reading => DOMAIN DiscoveryMap \cap todo = {}
                         /\ DOMAIN DiscoveryMap \cup todo = L2DiscoveryPods
    /\ pc \in {"delete", "graph"} /\ ~ failed => DOMAIN DiscoveryMap = L2DiscoveryPods

NodesInv ==
    ~ spoiled /\ pc \in Discovering =>
        \A k \in DOMAIN PtpIfList : PtpIfList[k].node \in DOMAIN DiscoveryMap

CourseInv == KindsInv /\ PodsInv /\ NodesInv

\* The steps that touch neither reports nor list, and where they lead.
Quiet ==
    \/ CreateDaemonSet \/ CreateDaemonSetFails \/ getL2TopologyDiscoveryPods
    \/ ListPodsFails \/ DeleteNamespace \/ ReadPodFails \/ EndAttempt \/ EndUpdateMaps
    \/ \E name \in work : PassOver(name) \/ Skip(name)

LEMMA QuietEffect ==
    ASSUME Quiet
    PROVE  /\ UNCHANGED <<DiscoveryMap, PtpIfList, ClusterMacToInt, ClusterIndexToInt,
                          ptpInterfacesOnly, node, todo>>
           /\ \/ pc' \notin Discovering /\ pc # "idle"
              \/ /\ pc' = pc /\ pc \in {"exp", "local"} /\ UNCHANGED <<spoiled, failed, L2DiscoveryPods>>
              \/ /\ pc = "exp" /\ pc' = "local" /\ UNCHANGED <<spoiled, failed, L2DiscoveryPods>>
              \/ /\ pc = "local" /\ pc' = "ptp" /\ UNCHANGED <<spoiled, failed, L2DiscoveryPods>>
              \/ /\ pc = "read" /\ todo = {} /\ pc' = "delete"
                 /\ UNCHANGED <<spoiled, failed, L2DiscoveryPods>>
              \/ /\ pc = "read" /\ pc' = "delete" /\ failed' = TRUE /\ UNCHANGED L2DiscoveryPods
                 /\ (~ spoiled' => ~ spoiled)
              \/ /\ pc = "delete" /\ pc' = "graph" /\ UNCHANGED <<spoiled, failed, L2DiscoveryPods>>
<1>1. CASE CreateDaemonSet \/ CreateDaemonSetFails \/ getL2TopologyDiscoveryPods \/ ListPodsFails
  BY <1>1 DEF CreateDaemonSet, CreateDaemonSetFails, getL2TopologyDiscoveryPods, ListPodsFails,
              Return, configVars, listVars, callVars, Discovering, Reading
<1>2. CASE DeleteNamespace
  BY <1>2 DEF DeleteNamespace, configVars, callVars
<1>3. CASE ReadPodFails
  <2>1. ~ spoiled' => ~ spoiled
    <3>1. spoiled' = (spoiled \/ index > 0)
      BY <1>3 DEF ReadPodFails
    <3> QED BY <3>1, Zenon
  <2> QED BY <1>3, <2>1 DEF ReadPodFails, configVars, callVars, Discovering, Reading
<1>4. CASE EndAttempt
  BY <1>4 DEF EndAttempt, listVars, callVars, historyVars
<1>5. CASE EndUpdateMaps
  BY <1>5 DEF EndUpdateMaps, configVars, historyVars
<1>6. CASE \E name \in work : PassOver(name) \/ Skip(name)
  BY <1>6 DEF PassOver, Skip, updateMaps, listVars, historyVars
<1> QED BY <1>1, <1>2, <1>3, <1>4, <1>5, <1>6 DEF Quiet

LEMMA NumberEffect ==
    ASSUME TypeOK, ListInv, NEW name \in work, Number(name)
    PROVE  /\ UNCHANGED <<DiscoveryMap, ptpInterfacesOnly, node, todo, pc, spoiled, failed,
                          L2DiscoveryPods>>
           /\ pc \in {"exp", "local"} /\ ~ Filtered(Iface(node, name))
           /\ node \in Nodes /\ name \in DOMAIN Ifaces[node] /\ node \in DOMAIN DiscoveryMap
           /\ DOMAIN PtpIfList' = DOMAIN PtpIfList \cup {Len(PtpIfList) + 1}
           /\ Len(PtpIfList) + 1 \notin DOMAIN PtpIfList
           /\ \A k \in DOMAIN PtpIfList : PtpIfList'[k] = PtpIfList[k]
           /\ PtpIfList'[Len(PtpIfList) + 1].node = node
           /\ PtpIfList'[Len(PtpIfList) + 1].name = name
           /\ PtpIfList'[Len(PtpIfList) + 1].kind = Iface(node, name).kind
           /\ PtpIfList'[Len(PtpIfList) + 1].announces = {}
<1> DEFINE entry == [node |-> node, name |-> name, mac |-> ifMac(name),
                     kind |-> Iface(node, name).kind, announces |-> {}]
<1>1. /\ UNCHANGED <<DiscoveryMap, ptpInterfacesOnly, node, todo, pc, spoiled, failed,
                     L2DiscoveryPods>>
      /\ pc \in {"exp", "local"} /\ ~ Filtered(Iface(node, name))
  BY DEF Number, updateMaps, historyVars
<1>2. node \in Nodes /\ name \in DOMAIN Ifaces[node] /\ node \in DOMAIN DiscoveryMap
  BY <1>1 DEF TypeOK
<1>3. PtpIfList \in Seq(Entries) /\ PtpIfList' = Append(PtpIfList, entry) /\ entry \in Entries
  BY <1>2, NewEntry DEF Number, TypeOK, ifMac
<1> HIDE DEF entry
<1>4. /\ DOMAIN PtpIfList' = DOMAIN PtpIfList \cup {Len(PtpIfList) + 1}
      /\ Len(PtpIfList) + 1 \notin DOMAIN PtpIfList
      /\ \A k \in DOMAIN PtpIfList : PtpIfList'[k] = PtpIfList[k]
      /\ PtpIfList'[Len(PtpIfList) + 1] = entry
  BY <1>3, AppendProperties
<1>5. entry.node = node /\ entry.name = name /\ entry.kind = Iface(node, name).kind
      /\ entry.announces = {}
  BY DEF entry
<1> QED BY <1>1, <1>2, <1>4, <1>5

LEMMA ReadPodEffect ==
    ASSUME TypeOK, PodsInv, ReadPod
    PROVE  /\ UNCHANGED <<PtpIfList, ClusterMacToInt, ClusterIndexToInt, PtpIfListUnfiltered,
                          ptpInterfacesOnly, spoiled, failed, L2DiscoveryPods>>
           /\ pc = "read" /\ pc' = "exp"
           /\ node' \in todo /\ todo' = todo \ {node'} /\ node' \notin DOMAIN DiscoveryMap
           /\ DOMAIN DiscoveryMap' = DOMAIN DiscoveryMap \cup {node'}
           /\ \A nd \in DOMAIN DiscoveryMap : DiscoveryMap'[nd] = DiscoveryMap[nd]
<1>1. PICK nd \in todo : \E report \in Reports[nd] :
          node' = nd /\ todo' = todo \ {nd} /\ DiscoveryMap' = Set(DiscoveryMap, nd, report)
  BY DEF ReadPod
<1>2. pc = "read" /\ nd \notin DOMAIN DiscoveryMap
  BY <1>1 DEF ReadPod, PodsInv, Reading
<1>3. UNCHANGED <<PtpIfList, ClusterMacToInt, ClusterIndexToInt, PtpIfListUnfiltered,
                  ptpInterfacesOnly, spoiled, failed, L2DiscoveryPods>> /\ pc' = "exp"
  BY DEF ReadPod, listVars, historyVars
<1>4. PICK report \in Reports[nd] : DiscoveryMap' = Set(DiscoveryMap, nd, report)
  BY <1>1
<1>5. DOMAIN DiscoveryMap' = DOMAIN DiscoveryMap \cup {nd} /\ DiscoveryMap'[nd] = report
      /\ \A x \in DOMAIN DiscoveryMap : x # nd => DiscoveryMap'[x] = DiscoveryMap[x]
  BY <1>4 DEF Set
<1>6. \A x \in DOMAIN DiscoveryMap : DiscoveryMap'[x] = DiscoveryMap[x]
  BY <1>2, <1>5
<1>7. node' = nd /\ nd \in todo /\ todo' = todo \ {nd}
  BY <1>1
<1>8. DOMAIN DiscoveryMap' = DOMAIN DiscoveryMap \cup {node'}
  BY <1>5, <1>7
<1> QED BY <1>2, <1>3, <1>6, <1>7, <1>8

LEMMA CourseCall ==
    ASSUME TypeOK, CourseInv, NEW from, NEW only, DiscoverL2Connectivity(from, only)
    PROVE  CourseInv'
BY DEF DiscoverL2Connectivity, reset, CourseInv, KindsInv, PodsInv, NodesInv, Discovering, Reading

LEMMA CourseStep ==
    ASSUME TypeOK, ListInv, CourseInv, Step
    PROVE  CourseInv'
<1>1. CASE Quiet
  <2>1. KindsInv'
    BY <1>1, QuietEffect DEF CourseInv, KindsInv
  <2>2. PodsInv'
    BY <1>1, QuietEffect DEF CourseInv, PodsInv, Discovering, Reading
  <2>3. NodesInv'
    BY <1>1, QuietEffect DEF CourseInv, NodesInv, Discovering, Reading
  <2> QED BY <2>1, <2>2, <2>3 DEF CourseInv
<1>2. ASSUME NEW name \in work, Number(name)
      PROVE  CourseInv'
  <2> DEFINE last == Len(PtpIfList) + 1
  <2>0. /\ UNCHANGED <<DiscoveryMap, ptpInterfacesOnly, node, todo, pc, spoiled, failed,
                       L2DiscoveryPods>>
        /\ pc \in {"exp", "local"} /\ ~ Filtered(Iface(node, name)) /\ node \in DOMAIN DiscoveryMap
        /\ DOMAIN PtpIfList' = DOMAIN PtpIfList \cup {last}
        /\ \A k \in DOMAIN PtpIfList : PtpIfList'[k] = PtpIfList[k]
        /\ PtpIfList'[last].node = node /\ PtpIfList'[last].kind = Iface(node, name).kind
    BY <1>2, NumberEffect
  <2> HIDE DEF last
  <2>1. KindsInv'
    BY <2>0 DEF CourseInv, KindsInv, Filtered
  <2>2. PodsInv'
    BY <2>0 DEF CourseInv, PodsInv
  <2>3. NodesInv'
    BY <2>0 DEF CourseInv, NodesInv, Discovering, Reading
  <2> QED BY <2>1, <2>2, <2>3 DEF CourseInv
<1>3. CASE BeginAttempt
  <2>1. pc = "attempt" /\ pc' = "read" /\ todo' = L2DiscoveryPods /\ DiscoveryMap' = <<>>
        /\ UNCHANGED <<PtpIfList, ptpInterfacesOnly, spoiled, L2DiscoveryPods>>
    BY <1>3 DEF BeginAttempt, listVars, historyVars
  <2>2. ~ spoiled => Len(PtpIfList) = 0
    BY <2>1 DEF ListInv, IndexInv
  <2>3. ~ spoiled => DOMAIN PtpIfList = {}
    BY <2>2 DEF TypeOK
  <2> QED BY <2>1, <2>3 DEF CourseInv, KindsInv, PodsInv, NodesInv, Discovering, Reading
<1>4. CASE ReadPod
  <2>1. KindsInv'
    BY <1>4, ReadPodEffect DEF CourseInv, KindsInv
  <2>2. PodsInv'
    BY <1>4, ReadPodEffect DEF CourseInv, PodsInv, Reading
  <2>3. NodesInv'
    BY <1>4, ReadPodEffect DEF CourseInv, NodesInv, Discovering, Reading
  <2> QED BY <2>1, <2>2, <2>3 DEF CourseInv
<1>5. CASE getInterfacesReceivingPTP
  <2>1. pc = "ptp" /\ pc' = "read"
        /\ UNCHANGED <<DiscoveryMap, todo, ptpInterfacesOnly, spoiled, failed, L2DiscoveryPods>>
    BY <1>5 DEF getInterfacesReceivingPTP, callVars, historyVars
  <2>2. /\ DOMAIN PtpIfList' = DOMAIN PtpIfList
        /\ \A k \in DOMAIN PtpIfList : /\ PtpIfList'[k].kind = PtpIfList[k].kind
                                       /\ PtpIfList'[k].node = PtpIfList[k].node
    BY <1>5, AnnouncesWritten DEF getInterfacesReceivingPTP
  <2> QED BY <2>1, <2>2 DEF CourseInv, KindsInv, PodsInv, NodesInv, Discovering, Reading
<1>6. CASE createL2InternalGraph \/ createL2InternalGraphPanics
  <2>1. pc' \notin Discovering /\ UNCHANGED <<PtpIfList, ptpInterfacesOnly>>
    BY <1>6 DEF createL2InternalGraph, createL2InternalGraphPanics, Return, configVars, listVars,
                callVars, Discovering, Reading
  <2> QED BY <2>1 DEF CourseInv, KindsInv, PodsInv, NodesInv, Discovering, Reading
<1> QED BY <1>1, <1>2, <1>3, <1>4, <1>5, <1>6 DEF Step, Quiet

LEMMA CourseNext == TypeOK /\ ListInv /\ CourseInv /\ [Next]_vars => CourseInv'
<1> SUFFICES ASSUME TypeOK, ListInv, CourseInv, [Next]_vars
             PROVE  CourseInv'
  OBVIOUS
<1>1. CASE \E only \in BOOLEAN : GetL2DiscoveryConfig(only) \/ Direct(only)
  BY <1>1, CourseCall DEF GetL2DiscoveryConfig, Direct
<1>2. CASE GetExisting
  BY <1>2 DEF GetExisting, configVars, callVars, CourseInv, KindsInv, PodsInv, NodesInv
<1>3. CASE Step
  BY <1>3, CourseStep
<1>4. CASE UNCHANGED vars
  BY <1>4 DEF vars, CourseInv, KindsInv, PodsInv, NodesInv
<1> QED BY <1>1, <1>2, <1>3, <1>4 DEF Next

LEMMA CourseAlways == Spec => [](TypeOK /\ ListInv /\ CourseInv)
<1>1. Init => CourseInv
  BY DEF Init, CourseInv, KindsInv, PodsInv, NodesInv, Discovering, Reading
<1> QED BY <1>1, CourseNext, ListAlways, PTL DEF Spec

----------------------------------------------------------------------------
(***************************************************************************)
(* The LANs have every link.                                               *)
(***************************************************************************)
Linked(j, k) ==
    LET exp == DiscoveryMap[PtpIfList[j].node].exp
    IN  PtpIfList[j].name \in DOMAIN exp /\ PtpIfList[k].mac \in exp[PtpIfList[j].name]

LEMMA LinkIsEdge ==
    ASSUME TypeOK, ListMatchesMaps, NumbersArePositions, KindsInv,
           NEW j \in DOMAIN PtpIfList, NEW k \in DOMAIN PtpIfList,
           PtpIfList[j].node \in DOMAIN DiscoveryMap, Linked(j, k)
    PROVE  <<j - 1, k - 1>> \in Edges
<1> DEFINE x == IndexOf(PtpIfList[j])
           mac == PtpIfList[k].mac
           edge == <<j - 1, k - 1>>
<1>1. mac \in Remote(x)
  BY DEF Linked, Remote, IndexOf
<1>2. /\ mac \in DOMAIN ClusterMacToInt /\ x \in DOMAIN ClusterIndexToInt
      /\ ClusterMacToInt[mac] = k - 1 /\ ClusterIndexToInt[x] = j - 1
  BY NumbersOf
<1>3. edge \in {<<ClusterIndexToInt[x], ClusterMacToInt[m]>> :
                   m \in Remote(x) \cap DOMAIN ClusterMacToInt}
  BY <1>1, <1>2
<1>4. j \in Nat /\ k \in Nat /\ edge[1] + 1 = j /\ edge[2] + 1 = k
  BY DEF TypeOK
<1>5. ptpInterfacesOnly => KindOf(edge[1]) = "ptp" /\ KindOf(edge[2]) # "plain"
  BY <1>4 DEF KindOf, KindsInv
<1> HIDE DEF x, edge
<1> QED BY <1>2, <1>3, <1>5 DEF Edges, edge

LEMMA EdgesAreLinks ==
    ASSUME TypeOK, ListMatchesMaps, NumbersArePositions, MaxL2GraphSize = Len(PtpIfList)
    PROVE  Edges \in SUBSET (Vertices \X Vertices)
<1>1. SUFFICES ASSUME NEW edge \in Edges
               PROVE  edge \in Vertices \X Vertices
  OBVIOUS
<1>2. PICK j \in DOMAIN PtpIfList, k \in DOMAIN PtpIfList : edge = <<j - 1, k - 1>>
  BY EdgeEnds
<1>3. DOMAIN PtpIfList = 1 .. Len(PtpIfList) /\ Len(PtpIfList) \in Nat
  BY DEF TypeOK
<1>4. j - 1 \in Vertices /\ k - 1 \in Vertices
  BY <1>3 DEF Vertices
<1> QED BY <1>2, <1>4

LEMMA GraphCoversLinks ==
    ASSUME TypeOK, ListInv, CourseInv, createL2InternalGraph, ~ spoiled, ~ failed
    PROVE  /\ UNION LANs' = 0 .. Len(PtpIfList) - 1
           /\ \A lan, other \in LANs' : lan # other => lan \cap other = {}
           /\ \A j, k \in DOMAIN PtpIfList :
                 Linked(j, k) => \E lan \in LANs' : {j - 1, k - 1} \subseteq lan
<1>1. pc = "graph" /\ LANs' = Components(Vertices, Edges)
  BY DEF createL2InternalGraph
<1>2. /\ ListMatchesMaps /\ NumbersArePositions /\ MaxL2GraphSize = Len(PtpIfList)
      /\ KindsInv
      /\ \A k \in DOMAIN PtpIfList : PtpIfList[k].node \in DOMAIN DiscoveryMap
  BY <1>1 DEF ListInv, IndexInv, CourseInv, NodesInv, Discovering
<1>3. Edges \in SUBSET (Vertices \X Vertices)
  BY <1>2, EdgesAreLinks
<1>4. UNION LANs' = 0 .. Len(PtpIfList) - 1
  BY <1>1, <1>2, <1>3, ComponentsCover DEF Vertices
<1>5. \A lan, other \in LANs' : lan # other => lan \cap other = {}
  BY <1>1, ComponentsDisjoint
<1>6. ASSUME NEW j \in DOMAIN PtpIfList, NEW k \in DOMAIN PtpIfList, Linked(j, k)
      PROVE  \E lan \in LANs' : {j - 1, k - 1} \subseteq lan
  <2>1. <<j - 1, k - 1>> \in Edges
    BY <1>2, <1>6, LinkIsEdge
  <2>2. j - 1 \in Vertices
    BY <1>3, <2>1
  <2>3. PICK lan \in Components(Vertices, Edges) : j - 1 \in lan
    BY <1>3, <2>2, ComponentOf
  <2>4. k - 1 \in lan
    BY <2>1, <2>3, ComponentKeepsEdges
  <2> QED BY <1>1, <2>3, <2>4
<1> QED BY <1>4, <1>5, <1>6

LEMMA LansCoverNext ==
    TypeOK /\ ListInv /\ CourseInv /\ BuiltIdle /\ LansCoverLinks /\ [Next]_vars
        => LansCoverLinks'
<1> SUFFICES ASSUME TypeOK, ListInv, CourseInv, BuiltIdle, LansCoverLinks, [Next]_vars,
                    built', ~ spoiled', ~ failed'
             PROVE  /\ UNION LANs' = 0 .. Len(PtpIfList') - 1
                    /\ \A lan, other \in LANs' : lan # other => lan \cap other = {}
                    /\ \A j, k \in DOMAIN PtpIfList' :
                          Linked(j, k)' => \E lan \in LANs' : {j - 1, k - 1} \subseteq lan
  BY DEF LansCoverLinks, Linked
<1>1. CASE built /\ UNCHANGED ResultVars
  <2>1. UNCHANGED <<PtpIfList, DiscoveryMap, LANs, spoiled, failed>>
    BY <1>1 DEF ResultVars
  <2> QED BY <1>1, <2>1 DEF LansCoverLinks, Linked
<1>2. CASE createL2InternalGraph
  <2>1. UNCHANGED <<PtpIfList, DiscoveryMap, spoiled, failed>>
    BY <1>2 DEF createL2InternalGraph, listVars
  <2> QED BY <1>2, <2>1, GraphCoversLinks DEF Linked
<1> QED BY <1>1, <1>2, BuiltStep

(* After a discovery in which no attempt failed, the LANs divide the       *)
(* listed interfaces, and a probe received in one direction puts both ends *)
(* on one of them: the filters drop no link between listed interfaces.     *)
THEOREM LansCoverCorrect == Spec => []LansCoverLinks
<1>1. Init => BuiltIdle /\ LansCoverLinks
  BY DEF Init, BuiltIdle, LansCoverLinks
<1>2. BuiltIdle /\ [Next]_vars => BuiltIdle'
  BY BuiltStep
<1> QED BY <1>1, <1>2, CourseAlways, LansCoverNext, PTL DEF Spec

----------------------------------------------------------------------------
(***************************************************************************)
(* Announces stay with the interface that received them.                   *)
(***************************************************************************)
Heard(if) == IF IndexOf(if) \in Receiving THEN AnnouncesOf(IndexOf(if)) ELSE {}

AnnouncesInv ==
    ~ spoiled /\ pc \in Discovering =>
        \A k \in DOMAIN PtpIfList :
            PtpIfList[k].announces =
                IF pc \in Working /\ PtpIfList[k].node = node THEN {} ELSE Heard(PtpIfList[k])

LEMMA ReceivingIs ==
    ASSUME NEW nd, NEW nm
    PROVE  <<nm, nd>> \in Receiving <=>
              /\ nd \in DOMAIN DiscoveryMap
              /\ nm \in DOMAIN DiscoveryMap[nd].ptp
              /\ DiscoveryMap[nd].ptp[nm].remote # {}
              /\ ~ Filtered(Iface(nd, nm))
BY DEF Receiving

LEMMA HeardKept ==
    ASSUME UNCHANGED ptpInterfacesOnly,
           NEW j \in DOMAIN PtpIfList, NEW k \in DOMAIN PtpIfList',
           PtpIfList[j].node \in DOMAIN DiscoveryMap,
           PtpIfList[j].node \in DOMAIN DiscoveryMap',
           DiscoveryMap'[PtpIfList[j].node] = DiscoveryMap[PtpIfList[j].node],
           PtpIfList'[k].node = PtpIfList[j].node, PtpIfList'[k].name = PtpIfList[j].name
    PROVE  Heard(PtpIfList[k])' = Heard(PtpIfList[j])
<1> DEFINE nd == PtpIfList[j].node
           nm == PtpIfList[j].name
<1>1. <<nm, nd>> \in Receiving <=> <<nm, nd>> \in Receiving'
  BY DEF Receiving, Filtered, Iface
<1>2. DiscoveryMap'[nd].ptp[nm].announces = DiscoveryMap[nd].ptp[nm].announces
  OBVIOUS
<1> QED BY <1>1, <1>2 DEF Heard, IndexOf, AnnouncesOf

\* Numbers are positions, so an entry has no other writer than its interface.
LEMMA WrittenAnnounces ==
    ASSUME TypeOK, ListMatchesMaps, NumbersArePositions, getInterfacesReceivingPTP,
           NEW k \in DOMAIN PtpIfList
    PROVE  PtpIfList'[k].announces =
              IF IndexOf(PtpIfList[k]) \in Receiving /\ AnnouncesOf(IndexOf(PtpIfList[k])) # {}
                THEN AnnouncesOf(IndexOf(PtpIfList[k]))
                ELSE PtpIfList[k].announces
<1> DEFINE x == IndexOf(PtpIfList[k])
<1>1. \A y \in DOMAIN ClusterIndexToInt : ClusterIndexToInt[y] = k - 1 => y = x
  <2> SUFFICES ASSUME NEW y \in DOMAIN ClusterIndexToInt, ClusterIndexToInt[y] = k - 1
               PROVE  y = x
    OBVIOUS
  <2>1. PICK j \in DOMAIN PtpIfList : y = IndexOf(PtpIfList[j])
    BY DEF ListMatchesMaps
  <2>2. ClusterIndexToInt[y] = j - 1
    BY <2>1, NumbersOf
  <2>3. j \in Nat /\ k \in Nat
    BY DEF TypeOK
  <2> QED BY <2>1, <2>2, <2>3
<1>2. x \in DOMAIN ClusterIndexToInt /\ ClusterIndexToInt[x] = k - 1
  BY NumbersOf
<1>3. Writers(k - 1) = IF x \in Receiving /\ AnnouncesOf(x) # {} THEN {x} ELSE {}
  <2> HIDE DEF x
  <2> QED BY <1>1, <1>2 DEF Writers
<1>4. x[2] <= x[2]
  <2>1. PtpIfList[k] \in Entries
    BY DEF TypeOK
  <2>2. PtpIfList[k].node \in Nat
    BY <2>1, NodesAssumption DEF Entries
  <2>3. x[2] = PtpIfList[k].node
    BY DEF IndexOf
  <2> HIDE DEF x
  <2> QED BY <2>2, <2>3
<1>5. LastWriter(k - 1) = Writers(k - 1)
  <2> HIDE DEF x
  <2> QED BY <1>3, <1>4 DEF LastWriter
<1>6. PtpIfList'[k] = IF LastWriter(k - 1) = {}
            THEN PtpIfList[k]
            ELSE [PtpIfList[k] EXCEPT !.announces =
                     AnnouncesOf(CHOOSE y \in LastWriter(k - 1) : TRUE)]
  BY DEF getInterfacesReceivingPTP
<1>7. PtpIfList[k] \in Entries
  BY DEF TypeOK
<1>8. CASE x \in Receiving /\ AnnouncesOf(x) # {}
  <2>1. LastWriter(k - 1) = {x}
    BY <1>3, <1>5, <1>8
  <2>2. (CHOOSE y \in LastWriter(k - 1) : TRUE) = x
    <3> HIDE DEF x
    <3> QED BY <2>1
  <2>3. PtpIfList'[k] = [PtpIfList[k] EXCEPT !.announces = AnnouncesOf(x)]
    <3> HIDE DEF x
    <3> QED BY <1>6, <2>1, <2>2
  <2> HIDE DEF x
  <2> QED BY <1>7, <1>8, <2>3 DEF Entries, x
<1>9. CASE ~ (x \in Receiving /\ AnnouncesOf(x) # {})
  BY <1>3, <1>5, <1>6, <1>9
<1> QED BY <1>8, <1>9

LEMMA AnnouncesCall ==
    ASSUME TypeOK, NEW from, NEW only, DiscoverL2Connectivity(from, only)
    PROVE  AnnouncesInv'
BY DEF DiscoverL2Connectivity, reset, AnnouncesInv, Discovering, Reading

LEMMA AnnouncesStep ==
    ASSUME TypeOK, ListInv, CourseInv, AnnouncesInv, Step, ~ spoiled', pc' \in Discovering
    PROVE  \A k \in DOMAIN PtpIfList' :
              PtpIfList'[k].announces =
                 IF pc' \in Working /\ PtpIfList'[k].node = node' THEN {}
                 ELSE Heard(PtpIfList[k])'
<1>1. CASE Quiet
  <2>1. /\ UNCHANGED <<DiscoveryMap, PtpIfList, ptpInterfacesOnly, node>>
    BY <1>1, QuietEffect
  <2>2. pc \in Discovering
    BY <1>1, QuietEffect DEF Discovering, Reading
  <2>3. pc \in Working <=> pc' \in Working
    BY <1>1, QuietEffect DEF Discovering, Reading, Working
  <2>4. ~ spoiled
    BY <1>1, QuietEffect
  <2>5. \A k \in DOMAIN PtpIfList : Heard(PtpIfList[k])' = Heard(PtpIfList[k])
    BY <2>1, <2>2, <2>4, HeardKept DEF CourseInv, NodesInv
  <2> QED BY <2>1, <2>2, <2>3, <2>4, <2>5 DEF AnnouncesInv
<1>2. ASSUME NEW name \in work, Number(name), NEW k \in DOMAIN PtpIfList'
      PROVE  PtpIfList'[k].announces =
                 IF pc' \in Working /\ PtpIfList'[k].node = node' THEN {}
                 ELSE Heard(PtpIfList[k])'
  <2>1. /\ UNCHANGED <<DiscoveryMap, ptpInterfacesOnly, node, pc, spoiled>>
        /\ pc \in Working /\ pc \in Discovering
    BY <1>2, NumberEffect DEF Discovering, Reading, Working
  <2>2. CASE k \in DOMAIN PtpIfList
    <3>1. PtpIfList'[k] = PtpIfList[k]
      BY <1>2, <2>2, NumberEffect
    <3>2. Heard(PtpIfList[k])' = Heard(PtpIfList[k])
      BY <1>2, <2>1, <2>2, <3>1, HeardKept DEF CourseInv, NodesInv
    <3> QED BY <2>1, <2>2, <3>1, <3>2 DEF AnnouncesInv
  <2>3. CASE k \notin DOMAIN PtpIfList
    <3>1. k = Len(PtpIfList) + 1
      BY <1>2, <2>3, NumberEffect
    <3>2. PtpIfList'[k].node = node /\ PtpIfList'[k].announces = {}
      BY <1>2, <3>1, NumberEffect
    <3> QED BY <2>1, <3>2
  <2> QED BY <2>2, <2>3
<1>3. CASE BeginAttempt
  <2>1. pc = "attempt" /\ UNCHANGED <<PtpIfList, spoiled>>
    BY <1>3 DEF BeginAttempt, listVars, historyVars
  <2>2. Len(PtpIfList) = 0
    BY <2>1 DEF ListInv, IndexInv
  <2>3. DOMAIN PtpIfList = {}
    BY <2>2 DEF TypeOK
  <2> QED BY <2>1, <2>3
<1>4. CASE ReadPod
  <2>1. /\ UNCHANGED <<PtpIfList, ptpInterfacesOnly, spoiled>>
        /\ pc = "read" /\ pc' = "exp" /\ node' \notin DOMAIN DiscoveryMap
        /\ DOMAIN DiscoveryMap' = DOMAIN DiscoveryMap \cup {node'}
        /\ \A nd \in DOMAIN DiscoveryMap : DiscoveryMap'[nd] = DiscoveryMap[nd]
    BY <1>4, ReadPodEffect DEF CourseInv
  <2>2. \A k \in DOMAIN PtpIfList : PtpIfList[k].node \in DOMAIN DiscoveryMap
    BY <2>1 DEF CourseInv, NodesInv, Discovering, Reading
  <2>3. \A k \in DOMAIN PtpIfList : Heard(PtpIfList[k])' = Heard(PtpIfList[k])
    BY <2>1, <2>2, HeardKept
  <2>4. \A k \in DOMAIN PtpIfList : PtpIfList[k].announces = Heard(PtpIfList[k])
    BY <2>1 DEF AnnouncesInv, Discovering, Reading, Working
  <2>5. \A k \in DOMAIN PtpIfList : PtpIfList[k].node # node'
    BY <2>1, <2>2
  <2> QED BY <2>1, <2>3, <2>4, <2>5
<1>5. CASE getInterfacesReceivingPTP
  <2>1. pc = "ptp" /\ pc' = "read" /\ UNCHANGED <<DiscoveryMap, ptpInterfacesOnly, spoiled, node>>
    BY <1>5 DEF getInterfacesReceivingPTP, callVars, historyVars
  <2>2. ListMatchesMaps /\ NumbersArePositions
        /\ \A k \in DOMAIN PtpIfList : PtpIfList[k].node \in DOMAIN DiscoveryMap
    BY <2>1 DEF ListInv, IndexInv, CourseInv, NodesInv, Discovering, Reading
  <2>3. DOMAIN PtpIfList' = DOMAIN PtpIfList
    BY <1>5 DEF getInterfacesReceivingPTP
  <2>4. ASSUME NEW k \in DOMAIN PtpIfList
        PROVE  PtpIfList'[k].announces = Heard(PtpIfList[k])'
    <3>1. Heard(PtpIfList[k])' = Heard(PtpIfList[k])
      BY <1>5, <2>1, <2>2, <2>3, AnnouncesWritten, HeardKept
    <3>2. PtpIfList[k].announces = IF PtpIfList[k].node = node THEN {} ELSE Heard(PtpIfList[k])
      BY <2>1 DEF AnnouncesInv, Discovering, Reading, Working
    <3>3. PtpIfList'[k].announces =
              IF IndexOf(PtpIfList[k]) \in Receiving /\ AnnouncesOf(IndexOf(PtpIfList[k])) # {}
                THEN AnnouncesOf(IndexOf(PtpIfList[k]))
                ELSE PtpIfList[k].announces
      BY <1>5, <2>2, WrittenAnnounces
    <3>4. PtpIfList'[k].announces = Heard(PtpIfList[k])
      BY <3>2, <3>3 DEF Heard
    <3> QED BY <3>1, <3>4
  <2> QED BY <2>1, <2>3, <2>4 DEF Working
<1>6. CASE createL2InternalGraph \/ createL2InternalGraphPanics
  BY <1>6 DEF createL2InternalGraph, createL2InternalGraphPanics, Return, Discovering, Reading
<1> QED BY <1>1, <1>2, <1>3, <1>4, <1>5, <1>6 DEF Step, Quiet

LEMMA AnnouncesNext ==
    TypeOK /\ ListInv /\ CourseInv /\ AnnouncesInv /\ [Next]_vars => AnnouncesInv'
<1> SUFFICES ASSUME TypeOK, ListInv, CourseInv, AnnouncesInv, [Next]_vars
             PROVE  AnnouncesInv'
  OBVIOUS
<1>1. CASE \E only \in BOOLEAN : GetL2DiscoveryConfig(only) \/ Direct(only)
  BY <1>1, AnnouncesCall DEF GetL2DiscoveryConfig, Direct
<1>2. CASE GetExisting
  BY <1>2 DEF GetExisting, AnnouncesInv, Discovering, Reading
<1>3. CASE Step
  BY <1>3, AnnouncesStep DEF AnnouncesInv
<1>4. CASE UNCHANGED vars
  BY <1>4 DEF vars, AnnouncesInv, Heard, Receiving, AnnouncesOf, Filtered
<1> QED BY <1>1, <1>2, <1>3, <1>4 DEF Next

LEMMA AnnouncesOwnNext ==
    TypeOK /\ ListInv /\ CourseInv /\ AnnouncesInv /\ BuiltIdle /\ AnnouncesOwn /\ [Next]_vars
        => AnnouncesOwn'
<1> SUFFICES ASSUME TypeOK, ListInv, CourseInv, AnnouncesInv, BuiltIdle, AnnouncesOwn,
                    [Next]_vars, built', ~ spoiled', ~ failed', NEW k \in DOMAIN PtpIfList'
             PROVE  PtpIfList'[k].announces = Heard(PtpIfList[k])'
  BY DEF AnnouncesOwn, Heard
<1>1. CASE built /\ UNCHANGED ResultVars
  <2>1. UNCHANGED <<PtpIfList, DiscoveryMap, ptpInterfacesOnly, spoiled, failed>>
    BY <1>1 DEF ResultVars
  <2> QED BY <1>1, <2>1 DEF AnnouncesOwn, Heard, Receiving, AnnouncesOf, Filtered
<1>2. CASE createL2InternalGraph
  <2>1. pc = "graph" /\ UNCHANGED <<PtpIfList, DiscoveryMap, ptpInterfacesOnly, spoiled, failed>>
    BY <1>2 DEF createL2InternalGraph, listVars, callVars
  <2>2. PtpIfList[k].announces = Heard(PtpIfList[k])
    BY <2>1 DEF AnnouncesInv, Discovering, Working
  <2> QED BY <2>1, <2>2 DEF Heard, Receiving, AnnouncesOf, Filtered
<1> QED BY <1>1, <1>2, BuiltStep

(* After a discovery in which no attempt failed, an interface is listed    *)
(* with the announces of its own report, neither those of another          *)
(* interface nor any left from an earlier discovery.                       *)
THEOREM AnnouncesOwnCorrect == Spec => []AnnouncesOwn
<1>1. Init => BuiltIdle /\ AnnouncesOwn /\ AnnouncesInv
  BY DEF Init, BuiltIdle, AnnouncesOwn, AnnouncesInv
<1>2. BuiltIdle /\ [Next]_vars => BuiltIdle'
  BY BuiltStep
<1> QED BY <1>1, <1>2, CourseAlways, AnnouncesNext, AnnouncesOwnNext, PTL DEF Spec

----------------------------------------------------------------------------
(***************************************************************************)
(* No interface is lost.  HandledInv holds whichever attempts fail: what   *)
(* an attempt finds numbered already it need not number.                   *)
(***************************************************************************)
Handled(nd, nm) ==
    \/ Iface(nd, nm).mac \in DOMAIN ClusterMacToInt
    \/ Filtered(Iface(nd, nm))
    \/ isSkipped(nm) /\ Iface(nd, nm).mac \in DOMAIN PtpIfListUnfiltered

HandledInv ==
    pc \in Discovering =>
        \A nd \in DOMAIN DiscoveryMap : \A nm \in DOMAIN Ifaces[nd] :
            \/ Handled(nd, nm)
            \/ pc = "exp" /\ nd = node
            \/ pc = "local" /\ nd = node /\ nm \in work

LEMMA HandledKept ==
    ASSUME UNCHANGED ptpInterfacesOnly,
           DOMAIN ClusterMacToInt \subseteq DOMAIN ClusterMacToInt',
           DOMAIN PtpIfListUnfiltered \subseteq DOMAIN PtpIfListUnfiltered',
           NEW nd, NEW nm, Handled(nd, nm)
    PROVE  Handled(nd, nm)'
BY DEF Handled, Filtered, Iface, isSkipped

LEMMA UpdateMapsHandles ==
    ASSUME NEW name \in work, PassOver(name) \/ Skip(name) \/ Number(name)
    PROVE  /\ UNCHANGED <<DiscoveryMap, ptpInterfacesOnly, node, pc>>
           /\ pc \in {"exp", "local"} /\ work' = work \ {name}
           /\ DOMAIN ClusterMacToInt \subseteq DOMAIN ClusterMacToInt'
           /\ DOMAIN PtpIfListUnfiltered \subseteq DOMAIN PtpIfListUnfiltered'
           /\ Handled(node, name)'
<1>1. /\ UNCHANGED <<DiscoveryMap, ptpInterfacesOnly, node, pc>>
      /\ pc \in {"exp", "local"} /\ work' = work \ {name}
  BY DEF PassOver, Skip, Number, updateMaps
<1>2. CASE PassOver(name)
  BY <1>1, <1>2 DEF PassOver, listVars, Known, ifMac, Handled, Filtered, Iface
<1>3. CASE Skip(name)
  BY <1>1, <1>3 DEF Skip, Set, ifMac, Handled, Filtered, Iface
<1>4. CASE Number(name)
  BY <1>1, <1>4 DEF Number, Set, ifMac, Handled, Filtered, Iface
<1> QED BY <1>1, <1>2, <1>3, <1>4

LEMMA HandledCall ==
    ASSUME NEW from, NEW only, DiscoverL2Connectivity(from, only)
    PROVE  HandledInv'
BY DEF DiscoverL2Connectivity, HandledInv, Discovering, Reading

LEMMA HandledStep ==
    ASSUME TypeOK, CourseInv, HandledInv, Step, pc' \in Discovering,
           NEW nd \in DOMAIN DiscoveryMap', NEW nm \in DOMAIN Ifaces[nd]
    PROVE  \/ Handled(nd, nm)'
           \/ pc' = "exp" /\ nd = node'
           \/ pc' = "local" /\ nd = node' /\ nm \in work'
<1>1. CASE \E name \in work : PassOver(name) \/ Skip(name) \/ Number(name)
  <2>1. PICK name \in work : PassOver(name) \/ Skip(name) \/ Number(name)
    BY <1>1
  <2>2. \/ Handled(nd, nm)
        \/ pc = "exp" /\ nd = node
        \/ pc = "local" /\ nd = node /\ nm \in work
    BY <2>1, UpdateMapsHandles DEF HandledInv, Discovering, Reading
  <2>3. CASE Handled(nd, nm)
    BY <2>1, <2>3, UpdateMapsHandles, HandledKept
  <2>4. CASE nm = name /\ nd = node
    BY <2>1, <2>4, UpdateMapsHandles
  <2> QED BY <2>1, <2>2, <2>3, <2>4, UpdateMapsHandles
<1>2. CASE EndUpdateMaps
  <2>1. /\ pc \in {"exp", "local"} /\ work = {} /\ UNCHANGED <<DiscoveryMap, node>>
        /\ pc = "exp" => pc' = "local" /\ work' = DiscoveryMap[node].local
    BY <1>2 DEF EndUpdateMaps, configVars
  <2>2. UNCHANGED <<ptpInterfacesOnly, ClusterMacToInt, PtpIfListUnfiltered>>
    BY <1>2 DEF EndUpdateMaps, configVars
  <2>3. CASE Handled(nd, nm)
    BY <2>2, <2>3, HandledKept
  <2>4. CASE pc = "exp" /\ nd = node
    <3>1. DiscoveryMap[node].local = DOMAIN Ifaces[node]
      BY <2>1, <2>4, ReportsAssumption DEF TypeOK
    <3> QED BY <2>1, <2>4, <3>1
  <2> QED BY <2>1, <2>3, <2>4 DEF HandledInv, Discovering, Reading
<1>3. CASE ReadPod
  <2>1. /\ UNCHANGED <<ptpInterfacesOnly, ClusterMacToInt, PtpIfListUnfiltered>>
        /\ pc = "read" /\ pc' = "exp"
        /\ DOMAIN DiscoveryMap' = DOMAIN DiscoveryMap \cup {node'}
    BY <1>3, ReadPodEffect DEF CourseInv
  <2>2. CASE nd \in DOMAIN DiscoveryMap
    <3>1. Handled(nd, nm)
      BY <2>1, <2>2 DEF HandledInv, Discovering, Reading
    <3> QED BY <2>1, <3>1, HandledKept
  <2>3. CASE nd = node'
    BY <2>1, <2>3
  <2> QED BY <2>1, <2>2, <2>3
<1>4. CASE BeginAttempt
  BY <1>4 DEF BeginAttempt
<1>5. CASE ReadPodFails \/ EndAttempt \/ DeleteNamespace \/ getInterfacesReceivingPTP
  <2>1. /\ UNCHANGED <<DiscoveryMap, ptpInterfacesOnly, ClusterMacToInt, PtpIfListUnfiltered>>
        /\ pc \in {"read", "delete", "ptp"}
    BY <1>5 DEF ReadPodFails, EndAttempt, DeleteNamespace, getInterfacesReceivingPTP, configVars,
                listVars, callVars
  <2>2. Handled(nd, nm)
    BY <2>1 DEF HandledInv, Discovering, Reading
  <2> QED BY <2>1, <2>2, HandledKept
<1>6. CASE \/ CreateDaemonSet \/ CreateDaemonSetFails
           \/ getL2TopologyDiscoveryPods \/ ListPodsFails
           \/ createL2InternalGraph \/ createL2InternalGraphPanics
  <2>1. pc' \notin Discovering
    BY <1>6 DEF CreateDaemonSet, CreateDaemonSetFails, getL2TopologyDiscoveryPods, ListPodsFails,
                createL2InternalGraph, createL2InternalGraphPanics, Return, Discovering, Reading
  <2> QED BY <2>1
<1> QED BY <1>1, <1>2, <1>3, <1>4, <1>5, <1>6 DEF Step

LEMMA HandledNext ==
    TypeOK /\ CourseInv /\ HandledInv /\ [Next]_vars => HandledInv'
<1> SUFFICES ASSUME TypeOK, CourseInv, HandledInv, [Next]_vars
             PROVE  HandledInv'
  OBVIOUS
<1>1. CASE \E only \in BOOLEAN : GetL2DiscoveryConfig(only) \/ Direct(only)
  BY <1>1, HandledCall DEF GetL2DiscoveryConfig, Direct
<1>2. CASE GetExisting
  BY <1>2 DEF GetExisting, HandledInv, Discovering, Reading
<1>3. CASE Step
  BY <1>3, HandledStep DEF HandledInv
<1>4. CASE UNCHANGED vars
  BY <1>4 DEF vars, HandledInv, Handled, Filtered
<1> QED BY <1>1, <1>2, <1>3, <1>4 DEF Next

(* When the reports of all pods have been read, in whichever attempt, each *)
(* interface they tell of is listed, filtered out, skipped, or shares its  *)
(* MAC address with a listed one.                                          *)
THEOREM NoInterfaceLostCorrect == Spec => []NoInterfaceLost
<1>1. Init => HandledInv
  BY DEF Init, HandledInv, Discovering, Reading
<1>2. CourseInv /\ HandledInv => NoInterfaceLost
  <2> SUFFICES ASSUME CourseInv, HandledInv, pc = "graph", ~ failed,
                      NEW x \in UNION {(DOMAIN Ifaces[nd]) \X {nd} : nd \in L2DiscoveryPods}
               PROVE  \/ Iface(x[2], x[1]).mac \in DOMAIN ClusterMacToInt
                      \/ Filtered(Iface(x[2], x[1]))
                      \/ isSkipped(x[1]) /\ Iface(x[2], x[1]).mac \in DOMAIN PtpIfListUnfiltered
    BY DEF NoInterfaceLost
  <2>1. x[2] \in L2DiscoveryPods /\ x[1] \in DOMAIN Ifaces[x[2]]
    OBVIOUS
  <2>2. x[2] \in DOMAIN DiscoveryMap
    BY <2>1 DEF CourseInv, PodsInv
  <2>3. Handled(x[2], x[1])
    BY <2>1, <2>2 DEF HandledInv, Discovering
  <2> QED BY <2>3 DEF Handled
<1> QED BY <1>1, <1>2, CourseAlways, HandledNext, PTL DEF Spec
=============================================================================
