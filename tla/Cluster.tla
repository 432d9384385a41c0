------------------------------- MODULE Cluster -------------------------------
(***************************************************************************)
(* The daemons of several nodes (cmd/l2discovery/main.go), the network     *)
(* between them and the library that reads their reports (l2lib.go).       *)
(*                                                                         *)
(* Daemons start and restart at any time.  A daemon opens the sockets of   *)
(* its ports two seconds after it started, while its senders probe once a  *)
(* second and stop for good after MaxProbes; of that clock the model keeps *)
(* that at most EarlyProbes leave a port before all ports of its node are  *)
(* open.  A socket is opened for all interfaces of the node and bound to   *)
(* its own a step later, which may fail unnoticed, so that a receiver may  *)
(* read probes that came in by another port.  A probe reaches all sockets  *)
(* that take it, but for those that miss it.  What a receiver does with a  *)
(* frame is in L2Daemon; here it is one step, and so is printing a report. *)
(*                                                                         *)
(* Ports have addresses of their own, so that a port stands for its        *)
(* address and its number too.                                             *)
(***************************************************************************)
EXTENDS Integers, Lans

CONSTANTS
    Ports,          \* the ports of the cluster
    NodeOf,         \* the node of each port, a number in the order of the names
    SegmentOf,      \* the physical segment of each port
    Bonded,         \* the slaves of bonds, which send no probes
    MaxProbes,      \* the probes a sender sends, 10 in the code
    EarlyProbes,    \* of these the ones it may send before its node listens, 2 in the code
    MaxMissed,      \* bound: probes of one port another one may miss
    MaxRestarts,    \* bound: restarts of daemons
    BindFails,      \* bound: the ports whose IfaceBind may fail
    NIL             \* the absent report and the nil value of LANs

ASSUME PortsAssumption == \A p \in Ports : NodeOf[p] \in Nat /\ Bonded \subseteq Ports

(* Of the probes sent while the node listens one at least gets through.    *)
ASSUME ProbesAssumption ==
    /\ MaxProbes \in Nat /\ EarlyProbes \in Nat /\ MaxMissed \in Nat
    /\ MaxMissed < MaxProbes - EarlyProbes

Nodes == {NodeOf[p] : p \in Ports}

PortsOf(nd) == {p \in Ports : NodeOf[p] = nd}

ASSUME NilAssumption == \A nd \in Nodes : NIL \notin [PortsOf(nd) -> SUBSET Ports]

\* The ports that hear p and whose daemons do not take it for one of their own.
Neighbours(p) == {q \in Ports : NodeOf[q] # NodeOf[p] /\ SegmentOf[q] = SegmentOf[p]}

VARIABLES
    \* the daemons
    open,           \* the ports whose sockets are open
    reading,        \* of these the ones whose receivers are done with IfaceBind and read
    bound,          \* of these the ones whose sockets it did bind to the port
    probes,         \* the probes sent from each port
    socket,         \* for each port the senders of the probes not yet read from its socket
    MacsPerIface,   \* for each port the senders recorded
    report,         \* for each node the last report in its log
    \* the library
    DiscoveryMap,   \* the reports read, by node
    LANs,           \* NIL, or the components computed from them
    \* history
    missed,         \* missed[p][q]: the probes of p that q missed while it was open
    stray,          \* the ports whose sockets have ever taken a probe of another segment
    restarts,
    calm            \* the first report was read when all was settled, and no restart since

daemonVars == <<open, reading, bound, probes, socket, MacsPerIface, report>>
libraryVars == <<DiscoveryMap, LANs>>
sockets == <<open, reading, bound>>
vars == <<open, reading, bound, probes, socket, MacsPerIface, report, DiscoveryMap, LANs,
          missed, stray, restarts, calm>>

Init ==
    /\ open = {} /\ reading = {} /\ bound = {}
    /\ probes = [p \in Ports |-> 0]
    /\ socket = [p \in Ports |-> {}]
    /\ MacsPerIface = [p \in Ports |-> {}]
    /\ report = [nd \in Nodes |-> NIL]
    /\ DiscoveryMap = <<>>
    /\ LANs = NIL
    /\ missed = [p \in Ports |-> [q \in Ports |-> 0]]
    /\ stray = {}
    /\ restarts = 0
    /\ calm = FALSE

Unread == Nodes \ DOMAIN DiscoveryMap

\* Daemons run until all are read, when the library deletes them; should they run on,
\* nobody reads it.
Deployed == Unread # {}

----------------------------------------------------------------------------
(***************************************************************************)
(* The daemons.                                                            *)
(***************************************************************************)
\* A mutant: slaves get no receiver, as they get no sender.
OpenUnlessSlave(p) ==
    /\ Deployed
    /\ p \notin open \cup Bonded
    /\ open' = open \cup {p}
    /\ UNCHANGED <<reading, bound, probes, socket, MacsPerIface, report, libraryVars,
                   missed, stray, restarts, calm>>

Open(p) ==
    /\ Deployed
    /\ p \notin open
    /\ open' = open \cup {p}
    /\ UNCHANGED <<reading, bound, probes, socket, MacsPerIface, report, libraryVars,
                   missed, stray, restarts, calm>>

\* The result is not looked at: the receiver reads on with a socket that is not bound.
IfaceBind(p) ==
    /\ Deployed
    /\ p \in open \ reading
    /\ reading' = reading \cup {p}
    /\ \/ bound' = bound \cup {p}
       \/ p \in BindFails /\ bound' = bound
    /\ UNCHANGED <<open, probes, socket, MacsPerIface, report, libraryVars,
                   missed, stray, restarts, calm>>

\* A mutant: nothing delays the probes until the node listens.
MayProbeEarly(p) == p \notin Bonded /\ probes[p] < MaxProbes

MayProbe(p) ==
    /\ p \notin Bonded
    /\ probes[p] < MaxProbes
    /\ probes[p] < EarlyProbes \/ PortsOf(NodeOf[p]) \subseteq open

\* The ports whose frames the socket of q takes.
TakesFrom(q) == IF q \in bound THEN {q} ELSE PortsOf(NodeOf[q])

Reached(p) ==
    {q \in open : NodeOf[q] # NodeOf[p] /\ \E x \in TakesFrom(q) : SegmentOf[x] = SegmentOf[p]}

\* A probe whose sender is recorded already changes nothing when it is read, and is left out.
sendProbe(p) ==
    /\ Deployed
    /\ MayProbe(p)
    /\ probes' = [probes EXCEPT ![p] = @ + 1]
    /\ \E lost \in SUBSET Reached(p) :
          /\ \A q \in lost \cap Neighbours(p) : missed[p][q] < MaxMissed
          /\ missed' = [missed EXCEPT ![p] = [q \in Ports |->
                           IF q \in lost \cap Neighbours(p) THEN @[q] + 1 ELSE @[q]]]
          /\ socket' = [q \in Ports |->
                           IF q \in Reached(p) \ lost /\ p \notin MacsPerIface[q]
                             THEN socket[q] \cup {p} ELSE socket[q]]
          /\ stray' = stray \cup {q \in Reached(p) \ lost : SegmentOf[q] # SegmentOf[p]}
    /\ UNCHANGED <<sockets, MacsPerIface, report, libraryVars, restarts, calm>>

\* A mutant: the receivers of a node share the loop's variable and record under one port.
RecvFrameShared(q) ==
    \E p \in socket[q] :
        /\ Deployed /\ q \in reading
        /\ socket' = [socket EXCEPT ![q] = @ \ {p}]
        /\ \E r \in PortsOf(NodeOf[q]) :
              MacsPerIface' = [MacsPerIface EXCEPT ![r] = @ \cup {p}]
        /\ UNCHANGED <<sockets, probes, report, libraryVars, missed, stray, restarts, calm>>

RecvFrame(q) ==
    \E p \in socket[q] :
        /\ Deployed /\ q \in reading
        /\ socket' = [socket EXCEPT ![q] = @ \ {p}]
        /\ MacsPerIface' = [MacsPerIface EXCEPT ![q] = @ \cup {p}]
        /\ UNCHANGED <<sockets, probes, report, libraryVars, missed, stray, restarts, calm>>

Recorded(nd) == [q \in PortsOf(nd) |-> MacsPerIface[q]]

PrintLog(nd) ==
    /\ Deployed
    /\ report' = [report EXCEPT ![nd] = Recorded(nd)]
    /\ UNCHANGED <<sockets, probes, socket, MacsPerIface, libraryVars,
                   missed, stray, restarts, calm>>

\* The daemon is started again after a panic: map, sockets and log are new.
Restart(nd) ==
    /\ Deployed
    /\ restarts < MaxRestarts
    /\ restarts' = restarts + 1
    /\ open' = open \ PortsOf(nd)
    /\ reading' = reading \ PortsOf(nd)
    /\ bound' = bound \ PortsOf(nd)
    /\ probes' = [p \in Ports |-> IF p \in PortsOf(nd) THEN 0 ELSE probes[p]]
    /\ socket' = [p \in Ports |-> IF p \in PortsOf(nd) THEN {} ELSE socket[p]]
    /\ MacsPerIface' = [p \in Ports |-> IF p \in PortsOf(nd) THEN {} ELSE MacsPerIface[p]]
    /\ report' = [report EXCEPT ![nd] = NIL]
    /\ missed' = [p \in Ports |-> [q \in Ports |->
                    IF {p, q} \cap PortsOf(nd) # {} THEN 0 ELSE missed[p][q]]]
    /\ calm' = FALSE
    /\ UNCHANGED <<libraryVars, stray>>

----------------------------------------------------------------------------
(***************************************************************************)
(* The library.                                                            *)
(***************************************************************************)
Settled ==
    /\ reading = Ports
    /\ \A p \in Ports \ Bonded : probes[p] = MaxProbes
    /\ \A p \in Ports : socket[p] = {}
    /\ \A nd \in Nodes : report[nd] = Recorded(nd)

\* getL2Disc, for one pod: the last report of its log.
ReadPod(nd) ==
    /\ LANs = NIL
    /\ nd \in Unread /\ \A other \in Unread : nd <= other
    /\ report[nd] # NIL
    /\ DiscoveryMap' = [x \in DOMAIN DiscoveryMap \cup {nd} |->
                          IF x = nd THEN report[nd] ELSE DiscoveryMap[x]]
    /\ calm' = IF DiscoveryMap = <<>> THEN Settled ELSE calm
    /\ UNCHANGED <<daemonVars, LANs, missed, stray, restarts>>

\* Without a report there, or when the log cannot be read, the next attempt starts anew.
ReadPodFails ==
    /\ LANs = NIL /\ Unread # {}
    /\ DiscoveryMap' = <<>>
    /\ UNCHANGED <<daemonVars, LANs, missed, stray, restarts, calm>>

\* A mutant: both ends must have heard the other.
EdgesMutual ==
    {edge \in Ports \X Ports : /\ edge[2] \in DiscoveryMap[NodeOf[edge[1]]][edge[1]]
                              /\ edge[1] \in DiscoveryMap[NodeOf[edge[2]]][edge[2]]}

Edges == UNION {{q} \X DiscoveryMap[NodeOf[q]][q] : q \in Ports}

createL2InternalGraph ==
    /\ LANs = NIL /\ Unread = {}
    /\ LANs' = Components(Ports, Edges)
    /\ UNCHANGED <<daemonVars, DiscoveryMap, missed, stray, restarts, calm>>

Next ==
    \/ \E p \in Ports : Open(p) \/ IfaceBind(p) \/ sendProbe(p) \/ RecvFrame(p)
    \/ \E nd \in Nodes : PrintLog(nd) \/ Restart(nd) \/ ReadPod(nd)
    \/ ReadPodFails
    \/ createL2InternalGraph

Spec == Init /\ [][Next]_vars

(***************************************************************************)
(* Goroutines that can run do run.  Nothing makes anyone call the library. *)
(***************************************************************************)
FairSpec ==
    /\ Spec
    /\ \A p \in Ports : /\ WF_vars(Open(p)) /\ WF_vars(IfaceBind(p))
                         /\ WF_vars(sendProbe(p)) /\ WF_vars(RecvFrame(p))
    /\ \A nd \in Nodes : WF_vars(PrintLog(nd))

----------------------------------------------------------------------------
(***************************************************************************)
(* Properties.                                                             *)
(***************************************************************************)
(* Types of the variables.                                                 *)
TypeOK ==
    /\ open \subseteq Ports /\ reading \subseteq open /\ bound \subseteq reading
    /\ probes \in [Ports -> 0 .. MaxProbes]
    /\ socket \in [Ports -> SUBSET Ports]
    /\ MacsPerIface \in [Ports -> SUBSET Ports]
    /\ DOMAIN report = Nodes
    /\ \A nd \in Nodes : report[nd] # NIL => report[nd] \in [PortsOf(nd) -> SUBSET Ports]
    /\ DOMAIN DiscoveryMap \subseteq Nodes
    /\ \A nd \in DOMAIN DiscoveryMap : DiscoveryMap[nd] \in [PortsOf(nd) -> SUBSET Ports]
    /\ LANs # NIL => LANs \subseteq SUBSET Ports /\ DOMAIN DiscoveryMap = Nodes
    /\ missed \in [Ports -> [Ports -> 0 .. MaxMissed]]
    /\ stray \subseteq Ports /\ restarts \in Nat /\ calm \in BOOLEAN

\* One of the two has seen a probe of the other.
Seen(p, q) == p \in socket[q] \cup MacsPerIface[q] \/ q \in socket[p] \cup MacsPerIface[p]

(* Daemons may start and restart at any time and in any order: of two      *)
(* neighbours that listen and have seen nothing of each other, one has     *)
(* lost all the probes it sent since its node listened, and so has others  *)
(* left to send.                                                           *)
NeighboursMeet ==
    /\ \A p \in Ports \ Bonded :
          ~ PortsOf(NodeOf[p]) \subseteq open => probes[p] <= EarlyProbes
    /\ \A p \in Ports \ Bonded : \A q \in Neighbours(p) \ Bonded :
          {p, q} \subseteq open =>
              Seen(p, q) \/ probes[p] - EarlyProbes <= missed[p][q]
                         \/ probes[q] - EarlyProbes <= missed[q][p]

(* The LANs join physical segments only at a port whose socket has taken a *)
(* probe of another segment, which one that is not (yet) bound to its port *)
(* does.  Daemons and library mix nothing up themselves, whenever the      *)
(* reports are read, and a stray probe, once read, harms no LAN but the    *)
(* one of the port that read it.                                           *)
LansSound ==
    LANs # NIL => \A lan \in LANs :
        lan \cap stray = {} => \A p, q \in lan : SegmentOf[p] = SegmentOf[q]

(* Reports read when all probes have been sent and reported put every two  *)
(* neighbours that probe on one LAN, whatever was lost and restarted       *)
(* before: one direction is always seen.                                   *)
LansComplete ==
    LANs # NIL /\ calm =>
        \A p \in Ports \ Bonded : \A q \in Neighbours(p) \ Bonded :
            \E lan \in LANs : {p, q} \subseteq lan

(* Once daemons stop restarting, all probes are sent and reported, unless  *)
(* all reports are read before, so that waiting longer is enough.          *)
Settles == <>[](Deployed => Settled)

Promise(nd) == INSTANCE DaemonPromise WITH
    Facts <- Ports \X Ports,
    up <- TRUE,
    known <- UNION {{q} \X MacsPerIface[q] : q \in PortsOf(nd)},
    report <- IF report[nd] = NIL THEN NIL
                                  ELSE UNION {{q} \X report[nd][q] : q \in PortsOf(nd)}

(* Every node does what the daemon alone is shown to promise.              *)
NodesKeepPromise ==
    /\ \A nd \in Nodes : Promise(nd)!Init
    /\ [][\A nd \in Nodes : Promise(nd)!Next \/ UNCHANGED Promise(nd)!vars]_vars
=============================================================================
