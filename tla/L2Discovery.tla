---------------------------- MODULE L2Discovery ----------------------------
(***************************************************************************)
(* The discovery library (l2lib.go): GetL2DiscoveryConfig and the exported *)
(* DiscoverL2Connectivity, which deploys the daemons, waits, lists their   *)
(* pods, reads the last report of every pod with up to L2DiscoveryRetries  *)
(* attempts, numbers the interfaces and builds the LANs.                   *)
(*                                                                         *)
(* The library is sequential.  What it does not control is the cluster:    *)
(* every API call may fail, any set of pods may be listed, and a pod's log *)
(* may hold any report its daemon can print, or none that can be parsed.   *)
(*                                                                         *)
(* Nodes and interface names are numbers, their order standing for the     *)
(* order of the strings (sort.Strings).  Interface number X of the code is *)
(* PtpIfList[X + 1].  ClusterMacs and ClusterIndexes, which are written    *)
(* with ClusterIndexToInt and ClusterMacToInt and never read, are left out.*)
(***************************************************************************)
EXTENDS Integers, Sequences, FiniteSets, Lans

CONSTANTS
    Nodes,          \* the nodes of the cluster
    Ifaces,         \* for each node its interfaces, by name: [mac, kind]
    Reports,        \* for each node the reports its daemon may have printed last
    Announces,      \* the Announce data grandmasters send
    Segment,        \* for each MAC address the physical segment it is on
    Skipped,        \* the interface names in SKIP_INTERFACES
    Modes,          \* the daemonset modes L2_DAEMONSET may select
    NIL,            \* the nil value of LANs
    MaxCalls        \* bound: calls of the exported functions

(***************************************************************************)
(* The kind of an interface is "ptp" (all hardware timestamping            *)
(* capabilities, not virtual), "virtual" (the same, on a virtual function) *)
(* or "plain" (some capability missing).                                   *)
(*                                                                         *)
(* A report maps ethertypes to the interfaces they were seen on:           *)
(*   exp    interface -> MAC addresses that sent it probes                 *)
(*   local  all interfaces of the node, recorded before the first report   *)
(*   ptp    interface -> [remote, announces], the senders of PTP frames    *)
(*          and the Announce data received                                 *)
(***************************************************************************)
ASSUME NodesAssumption == Nodes \subseteq Nat

ASSUME IfacesAssumption ==
    \A nd \in Nodes :
        /\ DOMAIN Ifaces[nd] \subseteq Nat
        /\ \A nm \in DOMAIN Ifaces[nd] :
              Ifaces[nd][nm].kind \in {"ptp", "virtual", "plain"}

ASSUME ReportsAssumption ==
    \A nd \in Nodes : \A report \in Reports[nd] :
        /\ report.local = DOMAIN Ifaces[nd]
        /\ DOMAIN report.exp \subseteq DOMAIN Ifaces[nd]
        /\ DOMAIN report.ptp \subseteq DOMAIN Ifaces[nd]
        /\ \A nm \in DOMAIN report.exp : \A mac \in report.exp[nm] :
              Segment[mac] = Segment[Ifaces[nd][nm].mac]
        /\ \A nm \in DOMAIN report.ptp : report.ptp[nm].announces \subseteq Announces

ASSUME ModesAssumption == Modes \subseteq {"MANAGED", "PRECONFIGURED"}

L2DiscoveryRetries == 3

VARIABLES
    \* GlobalL2DiscoveryConfig
    refresh,              \* the next GetL2DiscoveryConfig discovers
    L2DsMode,
    L2DiscoveryPods,      \* the nodes whose pods were listed
    DiscoveryMap,         \* the reports read in the current attempt, by node
    PtpIfList,            \* the numbered interfaces: [node, name, mac, kind, announces]
    PtpIfListUnfiltered,  \* MAC -> <<name, node>> of the interfaces not filtered out
    ClusterMacToInt,      \* MAC -> interface number
    ClusterIndexToInt,    \* <<name, node>> -> interface number
    PortsGettingPTP,      \* the <<name, node>> receiving PTP frames
    MaxL2GraphSize,
    LANs,                 \* NIL, or the set of LANs, each a set of interface numbers
    \* the active call
    pc,                   \* where it is; "idle" between calls, "panic" for good
    caller,               \* "get" for GetL2DiscoveryConfig, "direct" otherwise
    ptpInterfacesOnly,    \* its argument
    attempt, index,       \* the counters of DiscoverL2Connectivity and getL2Disc
    todo, node,           \* the nodes getL2Disc has still to read, the one it reads
    work,                 \* the names updateMaps has still to look at
    \* the environment and history
    deployed,             \* the daemonset of managed mode exists
    calls, outcome,       \* number of calls begun, result of the last: "ok", "error"
    spoiled,              \* an attempt of this discovery failed after numbering interfaces
    failed,               \* all attempts of this discovery failed
    built                 \* LANs is the result of this discovery

configVars == <<refresh, L2DsMode, L2DiscoveryPods, DiscoveryMap, PtpIfList,
                PtpIfListUnfiltered, ClusterMacToInt, ClusterIndexToInt,
                PortsGettingPTP, MaxL2GraphSize, LANs>>
listVars == <<PtpIfList, PtpIfListUnfiltered, ClusterMacToInt, ClusterIndexToInt>>
graphVars == <<MaxL2GraphSize, LANs>>
callVars == <<caller, ptpInterfacesOnly, attempt, index, todo, node, work>>
historyVars == <<deployed, calls, outcome, spoiled, failed, built>>
vars == <<refresh, L2DsMode, L2DiscoveryPods, DiscoveryMap, PtpIfList,
          PtpIfListUnfiltered, ClusterMacToInt, ClusterIndexToInt, PortsGettingPTP,
          MaxL2GraphSize, LANs, pc, caller, ptpInterfacesOnly, attempt, index,
          todo, node, work, deployed, calls, outcome, spoiled, failed, built>>

Init ==
    /\ refresh = TRUE
    /\ L2DsMode = "MANAGED"
    /\ L2DiscoveryPods = {}
    /\ DiscoveryMap = <<>>
    /\ PtpIfList = <<>>
    /\ PtpIfListUnfiltered = <<>>
    /\ ClusterMacToInt = <<>> /\ ClusterIndexToInt = <<>>
    /\ PortsGettingPTP = {}
    /\ MaxL2GraphSize = 0
    /\ LANs = NIL
    /\ pc = "idle" /\ caller = "get" /\ ptpInterfacesOnly = FALSE
    /\ attempt = 0 /\ index = 0 /\ todo = {} /\ node \in Nodes /\ work = {}
    /\ deployed \in BOOLEAN
    /\ calls = 0 /\ outcome = "none" /\ spoiled = FALSE /\ failed = FALSE /\ built = FALSE

Set(f, x, value) == [y \in DOMAIN f \cup {x} |-> IF y = x THEN value ELSE f[y]]

IsFirst(x, names) == x \in names /\ \A y \in names : x <= y

Iface(nd, nm) == Ifaces[nd][nm]

\* The filter of ptpInterfacesOnly.
Filtered(if) == ptpInterfacesOnly /\ if.kind # "ptp"

isSkipped(name) == name \in Skipped

----------------------------------------------------------------------------
(***************************************************************************)
(* The exported functions.  MaxCalls bounds their calls.                   *)
(***************************************************************************)
reset ==
    /\ PtpIfList' = <<>>
    /\ L2DiscoveryPods' = {}
    /\ ClusterMacToInt' = <<>>
    /\ ClusterIndexToInt' = <<>>
    /\ PtpIfListUnfiltered' = <<>>

DiscoverL2Connectivity(from, only) ==
    /\ calls' = calls + 1
    /\ caller' = from
    /\ ptpInterfacesOnly' = only
    /\ reset
    /\ \E mode \in Modes :
          /\ L2DsMode' = mode
          /\ pc' = IF mode = "MANAGED" THEN "create" ELSE "list"
    /\ attempt' = 0 /\ index' = 0 /\ todo' = {} /\ work' = {}
    /\ spoiled' = FALSE /\ failed' = FALSE /\ built' = FALSE
    /\ UNCHANGED <<node, refresh, DiscoveryMap, PortsGettingPTP, graphVars, deployed, outcome>>

Direct(only) ==
    /\ pc = "idle" /\ calls < MaxCalls
    /\ DiscoverL2Connectivity("direct", only)

GetL2DiscoveryConfig(only) ==
    /\ pc = "idle" /\ calls < MaxCalls
    /\ refresh
    /\ DiscoverL2Connectivity("get", only)

GetExisting ==
    /\ pc = "idle" /\ calls < MaxCalls
    /\ ~ refresh
    /\ calls' = calls + 1
    /\ outcome' = "ok"
    /\ UNCHANGED <<configVars, pc, callVars, deployed, spoiled, failed, built>>

Return(result) ==
    /\ pc' = "idle"
    /\ outcome' = result
    /\ refresh' = (refresh /\ caller = "direct")

----------------------------------------------------------------------------
(***************************************************************************)
(* DiscoverL2Connectivity.                                                 *)
(***************************************************************************)
CreateDaemonSet ==
    /\ pc = "create"
    /\ deployed' = TRUE
    /\ pc' = "list"
    /\ UNCHANGED <<configVars, callVars, calls, outcome, spoiled, failed, built>>

\* A failed creation may still have created the daemonset, or not removed an old one.
CreateDaemonSetFails ==
    /\ pc = "create"
    /\ deployed' \in BOOLEAN
    /\ Return("error")
    /\ UNCHANGED <<L2DsMode, L2DiscoveryPods, DiscoveryMap, listVars, PortsGettingPTP,
                   graphVars, callVars, calls, spoiled, failed, built>>

\* After the wait for the daemons' first reports.
getL2TopologyDiscoveryPods ==
    /\ pc = "list"
    /\ L2DiscoveryPods' \in IF deployed THEN SUBSET Nodes ELSE {{}}
    /\ pc' = "attempt"
    /\ UNCHANGED <<refresh, L2DsMode, DiscoveryMap, listVars, PortsGettingPTP, graphVars,
                   callVars, historyVars>>

ListPodsFails ==
    /\ pc = "list"
    /\ Return("error")
    /\ UNCHANGED <<L2DsMode, L2DiscoveryPods, DiscoveryMap, listVars, PortsGettingPTP,
                   graphVars, callVars, deployed, calls, spoiled, failed, built>>

DeleteNamespace ==
    /\ pc = "delete"
    /\ IF L2DsMode = "MANAGED" THEN deployed' \in {FALSE, deployed}
                               ELSE UNCHANGED deployed
    /\ pc' = "graph"
    /\ UNCHANGED <<configVars, callVars, calls, outcome, spoiled, failed, built>>

----------------------------------------------------------------------------
(***************************************************************************)
(* getL2Disc.                                                              *)
(***************************************************************************)
\* A mutant: the attempts are not counted.
BeginAttemptUncounted ==
    /\ pc = "attempt"
    /\ attempt' = attempt
    /\ DiscoveryMap' = <<>>
    /\ index' = 0
    /\ todo' = L2DiscoveryPods
    /\ pc' = "read"
    /\ UNCHANGED <<refresh, L2DsMode, L2DiscoveryPods, listVars, PortsGettingPTP,
                   graphVars, caller, ptpInterfacesOnly, node, work, historyVars>>

BeginAttempt ==
    /\ pc = "attempt"
    /\ attempt' = attempt + 1
    /\ DiscoveryMap' = <<>>
    /\ index' = 0
    /\ todo' = L2DiscoveryPods
    /\ pc' = "read"
    /\ UNCHANGED <<refresh, L2DsMode, L2DiscoveryPods, listVars, PortsGettingPTP,
                   graphVars, caller, ptpInterfacesOnly, node, work, historyVars>>

ReadPod ==
    /\ pc = "read"
    /\ \E nd \in todo :
          /\ IsFirst(nd, todo)
          /\ node' = nd
          /\ todo' = todo \ {nd}
          /\ \E report \in Reports[nd] :
                /\ DiscoveryMap' = Set(DiscoveryMap, nd, report)
                /\ work' = DOMAIN report.exp
    /\ pc' = "exp"
    /\ UNCHANGED <<refresh, L2DsMode, L2DiscoveryPods, listVars, PortsGettingPTP,
                   graphVars, caller, ptpInterfacesOnly, attempt, index, historyVars>>

\* A mutant: one attempt too many.
ReadPodFailsOnceMore ==
    /\ pc = "read"
    /\ todo # {}
    /\ spoiled' = (spoiled \/ index > 0)
    /\ IF attempt <= L2DiscoveryRetries
         THEN pc' = "attempt" /\ UNCHANGED failed
         ELSE pc' = "delete" /\ failed' = TRUE
    /\ UNCHANGED <<configVars, callVars, deployed, calls, outcome, built>>

\* The log cannot be fetched, holds no report, or text after it spoils the parsing.
ReadPodFails ==
    /\ pc = "read"
    /\ todo # {}
    /\ spoiled' = (spoiled \/ index > 0)
    /\ IF attempt < L2DiscoveryRetries
         THEN pc' = "attempt" /\ UNCHANGED failed
         ELSE pc' = "delete" /\ failed' = TRUE
    /\ UNCHANGED <<configVars, callVars, deployed, calls, outcome, built>>

\* A mutant: the size of the graph is the last number given.
EndAttemptLastNumber ==
    /\ pc = "read"
    /\ todo = {}
    /\ MaxL2GraphSize' = IF index = 0 THEN 0 ELSE index - 1
    /\ pc' = "delete"
    /\ UNCHANGED <<refresh, L2DsMode, L2DiscoveryPods, DiscoveryMap, listVars,
                   PortsGettingPTP, LANs, callVars, historyVars>>

EndAttempt ==
    /\ pc = "read"
    /\ todo = {}
    /\ MaxL2GraphSize' = index
    /\ pc' = "delete"
    /\ UNCHANGED <<refresh, L2DsMode, L2DiscoveryPods, DiscoveryMap, listVars,
                   PortsGettingPTP, LANs, callVars, historyVars>>

----------------------------------------------------------------------------
(***************************************************************************)
(* createMaps for the pod just read: updateMaps for the interfaces that    *)
(* received probes, updateMaps for all interfaces, one action for each     *)
(* interface in the order of the names, and getInterfacesReceivingPTP.     *)
(***************************************************************************)
ifMac(name) == Iface(node, name).mac

\* A mutant: interfaces are told apart by name, not by MAC address.
KnownByName(name) == <<name, node>> \in DOMAIN ClusterIndexToInt

Known(name) == ifMac(name) \in DOMAIN ClusterMacToInt

updateMaps(name) ==
    /\ pc \in {"exp", "local"}
    /\ IsFirst(name, work)
    /\ work' = work \ {name}
    /\ UNCHANGED <<refresh, L2DsMode, L2DiscoveryPods, DiscoveryMap, PortsGettingPTP,
                   graphVars, pc, caller, ptpInterfacesOnly, attempt, todo, node, historyVars>>

PassOver(name) ==
    /\ updateMaps(name)
    /\ Known(name) \/ Filtered(Iface(node, name))
    /\ UNCHANGED <<listVars, index>>

\* A mutant: a skipped interface uses up a number.
SkipNumbered(name) ==
    /\ updateMaps(name)
    /\ ~ Known(name) /\ ~ Filtered(Iface(node, name))
    /\ isSkipped(name)
    /\ PtpIfListUnfiltered' = Set(PtpIfListUnfiltered, ifMac(name), <<name, node>>)
    /\ index' = index + 1
    /\ UNCHANGED <<PtpIfList, ClusterMacToInt, ClusterIndexToInt>>

Skip(name) ==
    /\ updateMaps(name)
    /\ ~ Known(name) /\ ~ Filtered(Iface(node, name))
    /\ isSkipped(name)
    /\ PtpIfListUnfiltered' = Set(PtpIfListUnfiltered, ifMac(name), <<name, node>>)
    /\ UNCHANGED <<PtpIfList, ClusterMacToInt, ClusterIndexToInt, index>>

Number(name) ==
    /\ updateMaps(name)
    /\ ~ Known(name) /\ ~ Filtered(Iface(node, name))
    /\ ~ isSkipped(name)
    /\ PtpIfListUnfiltered' = Set(PtpIfListUnfiltered, ifMac(name), <<name, node>>)
    /\ ClusterMacToInt' = Set(ClusterMacToInt, ifMac(name), index)
    /\ ClusterIndexToInt' = Set(ClusterIndexToInt, <<name, node>>, index)
    /\ PtpIfList' = Append(PtpIfList,
          [node |-> node, name |-> name, mac |-> ifMac(name),
           kind |-> Iface(node, name).kind, announces |-> {}])
    /\ index' = index + 1

\* A mutant: interfaces that heard no probe are not numbered.
EndUpdateMapsSilent ==
    /\ pc \in {"exp", "local"}
    /\ work = {}
    /\ pc' = "ptp"
    /\ UNCHANGED <<configVars, callVars, historyVars>>

EndUpdateMaps ==
    /\ pc \in {"exp", "local"}
    /\ work = {}
    /\ IF pc = "exp" THEN pc' = "local" /\ work' = DiscoveryMap[node].local
                     ELSE pc' = "ptp" /\ UNCHANGED work
    /\ UNCHANGED <<configVars, caller, ptpInterfacesOnly, attempt, index, todo, node,
                   historyVars>>

(***************************************************************************)
(* The ports receiving PTP frames in the reports read so far, and those of *)
(* them whose announces are written to an entry of PtpIfList; of several   *)
(* the last node is the last writer.  Interfaces of one node never share a *)
(* number: they are all numbered in one attempt.                           *)
(***************************************************************************)
Receiving ==
    {x \in UNION {(DOMAIN DiscoveryMap[nd].ptp) \X {nd} : nd \in DOMAIN DiscoveryMap} :
        /\ DiscoveryMap[x[2]].ptp[x[1]].remote # {}
        /\ ~ Filtered(Iface(x[2], x[1]))}

AnnouncesOf(x) == DiscoveryMap[x[2]].ptp[x[1]].announces

\* A mutant: the announces go to the next interface.
WritersNext(number) ==
    {x \in Receiving : /\ AnnouncesOf(x) # {}
                       /\ x \in DOMAIN ClusterIndexToInt
                       /\ ClusterIndexToInt[x] + 1 = number}

Writers(number) ==
    {x \in Receiving : /\ AnnouncesOf(x) # {}
                       /\ x \in DOMAIN ClusterIndexToInt
                       /\ ClusterIndexToInt[x] = number}

LastWriter(number) == {x \in Writers(number) : \A y \in Writers(number) : y[2] <= x[2]}

getInterfacesReceivingPTP ==
    /\ pc = "ptp"
    /\ PortsGettingPTP' = PortsGettingPTP \cup Receiving
    /\ PtpIfList' = [k \in DOMAIN PtpIfList |->
          IF LastWriter(k - 1) = {}
            THEN PtpIfList[k]
            ELSE [PtpIfList[k] EXCEPT !.announces =
                     AnnouncesOf(CHOOSE x \in LastWriter(k - 1) : TRUE)]]
    /\ pc' = "read"
    /\ UNCHANGED <<refresh, L2DsMode, L2DiscoveryPods, DiscoveryMap, PtpIfListUnfiltered,
                   ClusterMacToInt, ClusterIndexToInt, graphVars, callVars, historyVars>>

----------------------------------------------------------------------------
(***************************************************************************)
(* createL2InternalGraph.                                                  *)
(***************************************************************************)
KindOf(number) == PtpIfList[number + 1].kind

\* The MAC addresses whose probes were received on the interface of a cluster index.
Remote(x) ==
    IF x[2] \in DOMAIN DiscoveryMap /\ x[1] \in DOMAIN DiscoveryMap[x[2]].exp
      THEN DiscoveryMap[x[2]].exp[x[1]]
      ELSE {}

\* A mutant: the receiver is looked up by its name, on whatever node.
EdgesByName ==
    LET named(x) == {y \in DOMAIN ClusterIndexToInt : y[1] = x[1]}
    IN  UNION {{<<ClusterIndexToInt[x], ClusterMacToInt[mac]>> :
                   mac \in UNION {Remote(y) : y \in named(x)} \cap DOMAIN ClusterMacToInt} :
               x \in DOMAIN ClusterIndexToInt}

\* The edges: the receiver's number by its name, the sender's by its MAC address.
Edges ==
    LET edges == UNION {{<<ClusterIndexToInt[x], ClusterMacToInt[mac]>> :
                            mac \in Remote(x) \cap DOMAIN ClusterMacToInt} :
                        x \in DOMAIN ClusterIndexToInt}
    IN  {edge \in edges : ptpInterfacesOnly =>
                              KindOf(edge[1]) = "ptp" /\ KindOf(edge[2]) # "plain"}

Vertices == 0 .. MaxL2GraphSize - 1

\* AddBoth panics for a vertex out of range, PrintAllNICs for an interface out of range.
GraphPanics ==
    \/ \E edge \in Edges : {edge[1], edge[2]} \ Vertices # {}
    \/ MaxL2GraphSize > Len(PtpIfList)

createL2InternalGraph ==
    /\ pc = "graph"
    /\ ~ GraphPanics
    /\ LANs' = Components(Vertices, Edges)
    /\ built' = TRUE
    /\ Return("ok")
    /\ UNCHANGED <<L2DsMode, L2DiscoveryPods, DiscoveryMap, listVars, PortsGettingPTP,
                   MaxL2GraphSize, callVars, deployed, calls, spoiled, failed>>

createL2InternalGraphPanics ==
    /\ pc = "graph"
    /\ GraphPanics
    /\ pc' = "panic"
    /\ UNCHANGED <<configVars, callVars, historyVars>>

Step ==
    \/ CreateDaemonSet \/ CreateDaemonSetFails
    \/ getL2TopologyDiscoveryPods \/ ListPodsFails
    \/ BeginAttempt \/ ReadPod \/ ReadPodFails \/ EndAttempt
    \/ \E name \in work : PassOver(name) \/ Skip(name) \/ Number(name)
    \/ EndUpdateMaps \/ getInterfacesReceivingPTP
    \/ DeleteNamespace
    \/ createL2InternalGraph \/ createL2InternalGraphPanics

Next ==
    \/ \E only \in BOOLEAN : GetL2DiscoveryConfig(only) \/ Direct(only)
    \/ GetExisting
    \/ Step

Spec == Init /\ [][Next]_vars

(***************************************************************************)
(* A call is a synchronous function: once begun it runs on, and the client *)
(* calls, sleeps and loops in it all end.                                  *)
(***************************************************************************)
FairSpec == Spec /\ WF_vars(Step)

----------------------------------------------------------------------------
(***************************************************************************)
(* Properties.                                                             *)
(***************************************************************************)
Indexes == UNION {(DOMAIN Ifaces[nd]) \X {nd} : nd \in Nodes}
Macs == {Iface(x[2], x[1]).mac : x \in Indexes}

IndexOf(if) == <<if.name, if.node>>

Entries == [node : Nodes, name : Nat, mac : Macs, kind : {"ptp", "virtual", "plain"},
            announces : SUBSET Announces]

(* Types of the variables; an entry of the list is an interface of the     *)
(* cluster, and the interfaces being numbered are those of the pod read.   *)
TypeOK ==
    /\ refresh \in BOOLEAN /\ ptpInterfacesOnly \in BOOLEAN /\ deployed \in BOOLEAN
    /\ spoiled \in BOOLEAN /\ failed \in BOOLEAN /\ built \in BOOLEAN
    /\ L2DsMode \in {"MANAGED", "PRECONFIGURED"}
    /\ pc \in {"idle", "create", "list", "attempt", "read", "exp", "local", "ptp",
               "delete", "graph", "panic"}
    /\ caller \in {"get", "direct"}
    /\ outcome \in {"none", "ok", "error"}
    /\ L2DiscoveryPods \subseteq Nodes
    /\ DOMAIN DiscoveryMap \subseteq Nodes
    /\ \A nd \in DOMAIN DiscoveryMap : DiscoveryMap[nd] \in Reports[nd]
    /\ PtpIfList \in Seq(Entries)
    /\ DOMAIN PtpIfListUnfiltered \subseteq Macs
    /\ DOMAIN ClusterMacToInt \subseteq Macs
    /\ DOMAIN ClusterIndexToInt \subseteq Indexes
    /\ PortsGettingPTP \subseteq Indexes
    /\ MaxL2GraphSize \in Nat /\ index \in Nat /\ calls \in Nat
    /\ attempt \in 0 .. L2DiscoveryRetries
    /\ pc \in {"create", "list"} => attempt = 0
    /\ pc = "attempt" => attempt < L2DiscoveryRetries
    /\ todo \subseteq Nodes /\ node \in Nodes
    /\ pc \in {"exp", "local", "ptp"} => node \in DOMAIN DiscoveryMap
    /\ pc \in {"exp", "local"} => work \subseteq DOMAIN Ifaces[node]

ListEntry(if) ==
    /\ IndexOf(if) \in Indexes
    /\ if.mac = Iface(if.node, if.name).mac
    /\ if.kind = Iface(if.node, if.name).kind

(* The list and the maps that lead into it describe the same interfaces:   *)
(* every MAC address is listed once, under the number its cluster index    *)
(* has too, and no number lies beyond the list, so that looking the ends   *)
(* of an edge up cannot go out of range, however many attempts failed.     *)
ListMatchesMaps ==
    /\ \A k \in DOMAIN PtpIfList : ListEntry(PtpIfList[k])
    /\ \A j, k \in DOMAIN PtpIfList : PtpIfList[j].mac = PtpIfList[k].mac => j = k
    /\ DOMAIN ClusterMacToInt = {PtpIfList[k].mac : k \in DOMAIN PtpIfList}
    /\ DOMAIN ClusterIndexToInt = {IndexOf(PtpIfList[k]) : k \in DOMAIN PtpIfList}
    /\ \A k \in DOMAIN PtpIfList :
          /\ ClusterMacToInt[PtpIfList[k].mac] = ClusterIndexToInt[IndexOf(PtpIfList[k])]
          /\ ClusterMacToInt[PtpIfList[k].mac] \in 0 .. k - 1

(* "List of cluster interfaces indexed with a simple integer", "mapping    *)
(* between a cluster wide MAC address and a simple integer": the number of *)
(* an interface is its position in the list.                               *)
NumbersArePositions ==
    \A k \in DOMAIN PtpIfList : ClusterMacToInt[PtpIfList[k].mac] = k - 1

(* It is, and the graph is as large as the list, unless an attempt to read *)
(* the reports failed after it had numbered interfaces.                    *)
NumbersFit ==
    ~ spoiled =>
        /\ NumbersArePositions
        /\ pc \in {"delete", "graph"} /\ ~ failed => MaxL2GraphSize = Len(PtpIfList)

(* MaxL2GraphSize is the "max size of graph": no edge and no interface     *)
(* lies outside when the graph is built.                                   *)
GraphFits == pc = "graph" => ~ GraphPanics

(* Building the graph only ever panics when an attempt has failed.         *)
PanicOnlyAfterFailure == pc = "panic" => spoiled \/ failed

(* Interfaces put on one LAN are physically on one segment, if the reports *)
(* were read without a failed attempt in between: neither the filters nor  *)
(* interfaces sharing a MAC address misattribute a probe.                  *)
LansSound ==
    built /\ ~ spoiled =>
        \A lan \in LANs : \A v, w \in lan :
            Segment[PtpIfList[v + 1].mac] = Segment[PtpIfList[w + 1].mac]

(* The LANs cover the listed interfaces, each in one of them, and a probe  *)
(* received in one direction is enough to put both ends on one.            *)
LansCoverLinks ==
    built /\ ~ spoiled /\ ~ failed =>
        /\ UNION LANs = 0 .. Len(PtpIfList) - 1
        /\ \A lan, other \in LANs : lan # other => lan \cap other = {}
        /\ \A j, k \in DOMAIN PtpIfList :
              LET exp == DiscoveryMap[PtpIfList[j].node].exp
              IN  PtpIfList[j].name \in DOMAIN exp /\ PtpIfList[k].mac \in exp[PtpIfList[j].name]
                    => \E lan \in LANs : {j - 1, k - 1} \subseteq lan

(* The announces kept with a listed interface are the ones its own last    *)
(* report holds, with the same proviso.                                    *)
AnnouncesOwn ==
    built /\ ~ spoiled /\ ~ failed =>
        \A k \in DOMAIN PtpIfList :
            PtpIfList[k].announces =
                IF IndexOf(PtpIfList[k]) \in Receiving THEN AnnouncesOf(IndexOf(PtpIfList[k]))
                                                       ELSE {}

(* No interface is lost: when the reports of all pods were read, each of   *)
(* their interfaces is listed, filtered, skipped, or shares its MAC        *)
(* address with one that is listed, even if earlier attempts failed.       *)
NoInterfaceLost ==
    pc = "graph" /\ ~ failed =>
        \A x \in UNION {(DOMAIN Ifaces[nd]) \X {nd} : nd \in L2DiscoveryPods} :
            \/ Iface(x[2], x[1]).mac \in DOMAIN ClusterMacToInt
            \/ Filtered(Iface(x[2], x[1]))
            \/ isSkipped(x[1]) /\ Iface(x[2], x[1]).mac \in DOMAIN PtpIfListUnfiltered

(* Within a discovery an interface keeps the number it was given, and its  *)
(* place in the list.                                                      *)
NumbersStable ==
    [][pc # "idle" =>
          /\ \A mac \in DOMAIN ClusterMacToInt : ClusterMacToInt'[mac] = ClusterMacToInt[mac]
          /\ \A k \in DOMAIN PtpIfList : PtpIfList'[k].mac = PtpIfList[k].mac]_vars

(* Every call returns, or has panicked.                                    *)
CallsReturn == pc # "idle" ~> pc \in {"idle", "panic"}
============================================================================
