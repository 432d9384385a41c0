--------------------------- MODULE Cluster_proofs ---------------------------
(***************************************************************************)
(* Proofs about Cluster, for any nodes, ports and segments, any number of  *)
(* restarts, any losses short of all probes of a port and any sockets left *)
(* unbound: neighbours meet, the LANs are complete once the daemons rest,  *)
(* and they join segments nowhere but at ports that took stray probes.     *)
(***************************************************************************)
EXTENDS Cluster, Lans_proofs

----------------------------------------------------------------------------
(***************************************************************************)
(* Types.                                                                  *)
(***************************************************************************)
LEMMA TypeInit == Init => TypeOK
<1> SUFFICES ASSUME Init
             PROVE  TypeOK
  OBVIOUS
<1>1. DOMAIN DiscoveryMap = {}
  BY DEF Init
<1>2. /\ probes \in [Ports -> 0 .. MaxProbes]
      /\ missed \in [Ports -> [Ports -> 0 .. MaxMissed]]
  BY ProbesAssumption DEF Init
<1> QED BY <1>1, <1>2 DEF Init, TypeOK

LEMMA TypeDaemon ==
    ASSUME TypeOK, NEW p \in Ports, Open(p) \/ IfaceBind(p) \/ sendProbe(p) \/ RecvFrame(p)
    PROVE  TypeOK'
<1>1. CASE Open(p)
  BY <1>1 DEF Open, TypeOK, libraryVars
<1>4. CASE IfaceBind(p)
  BY <1>4 DEF IfaceBind, TypeOK, libraryVars
<1>2. CASE sendProbe(p)
  <2>1. probes' \in [Ports -> 0 .. MaxProbes]
    BY <1>2, ProbesAssumption DEF sendProbe, MayProbe, TypeOK
  <2>2. PICK lost \in SUBSET Reached(p) :
          /\ \A q \in lost \cap Neighbours(p) : missed[p][q] < MaxMissed
          /\ missed' = [missed EXCEPT ![p] =
                           [q \in Ports |-> IF q \in lost \cap Neighbours(p) THEN @[q] + 1 ELSE @[q]]]
          /\ socket' = [q \in Ports |->
                           IF q \in Reached(p) \ lost /\ p \notin MacsPerIface[q]
                             THEN socket[q] \cup {p} ELSE socket[q]]
          /\ stray' = stray \cup {q \in Reached(p) \ lost : SegmentOf[q] # SegmentOf[p]}
    BY <1>2 DEF sendProbe
  <2>3. socket' \in [Ports -> SUBSET Ports]
    BY <2>2 DEF TypeOK
  <2>4. [q \in Ports |-> IF q \in lost \cap Neighbours(p) THEN missed[p][q] + 1 ELSE missed[p][q]]
            \in [Ports -> 0 .. MaxMissed]
    BY <2>2, ProbesAssumption DEF TypeOK
  <2>6. stray' \subseteq Ports
    BY <2>2 DEF Reached, TypeOK
  <2>5. missed' \in [Ports -> [Ports -> 0 .. MaxMissed]]
    BY <2>2, <2>4 DEF TypeOK
  <2> QED BY <1>2, <2>1, <2>3, <2>5, <2>6 DEF sendProbe, TypeOK, libraryVars, sockets
<1>3. CASE RecvFrame(p)
  BY <1>3 DEF RecvFrame, TypeOK, libraryVars, sockets
<1> QED BY <1>1, <1>2, <1>3, <1>4

LEMMA TypeNode ==
    ASSUME TypeOK, NEW nd \in Nodes, PrintLog(nd) \/ Restart(nd)
    PROVE  TypeOK'
<1>1. CASE PrintLog(nd)
  <2>1. Recorded(nd) \in [PortsOf(nd) -> SUBSET Ports]
    BY DEF Recorded, PortsOf, TypeOK
  <2> QED BY <1>1, <2>1 DEF PrintLog, TypeOK, libraryVars, sockets
<1>2. CASE Restart(nd)
  <2>1. /\ open' \subseteq Ports /\ reading' \subseteq open' /\ bound' \subseteq reading'
        /\ probes' \in [Ports -> 0 .. MaxProbes]
        /\ socket' \in [Ports -> SUBSET Ports] /\ MacsPerIface' \in [Ports -> SUBSET Ports]
    BY <1>2, ProbesAssumption DEF Restart, TypeOK
  <2>2. missed' \in [Ports -> [Ports -> 0 .. MaxMissed]]
    <3>1. \A p, q \in Ports : missed[p][q] \in 0 .. MaxMissed /\ 0 \in 0 .. MaxMissed
      BY ProbesAssumption DEF TypeOK
    <3> QED BY <1>2, <3>1 DEF Restart
  <2>3. DOMAIN report' = Nodes
    BY <1>2 DEF Restart, TypeOK
  <2>4. ASSUME NEW x \in Nodes, report'[x] # NIL
        PROVE  report'[x] \in [PortsOf(x) -> SUBSET Ports]
    BY <1>2, <2>4 DEF Restart, TypeOK
  <2>5. /\ restarts' = restarts + 1 /\ calm' = FALSE
        /\ UNCHANGED <<DiscoveryMap, LANs, stray>>
    BY <1>2, Zenon DEF Restart, libraryVars
  <2>6. restarts' \in Nat
    <3>1. restarts' = restarts + 1
      BY <2>5
    <3> QED BY <3>1 DEF TypeOK
  <2>8. calm' \in BOOLEAN
    BY <2>5, Zenon
  <2>7. /\ stray' \subseteq Ports /\ DOMAIN DiscoveryMap' \subseteq Nodes
        /\ \A x \in DOMAIN DiscoveryMap' : DiscoveryMap'[x] \in [PortsOf(x) -> SUBSET Ports]
        /\ LANs' # NIL => LANs' \subseteq SUBSET Ports /\ DOMAIN DiscoveryMap' = Nodes
    BY <2>5 DEF TypeOK
  <2> QED BY <2>1, <2>2, <2>3, <2>4, <2>6, <2>8, <2>7 DEF TypeOK
<1> QED BY <1>1, <1>2

LEMMA TypeLibrary ==
    ASSUME TypeOK,
           (\E nd \in Nodes : ReadPod(nd)) \/ ReadPodFails \/ createL2InternalGraph
    PROVE  TypeOK'
<1>1. ASSUME NEW nd \in Nodes, ReadPod(nd)
      PROVE  TypeOK'
  <2>1. calm' \in BOOLEAN
    BY <1>1 DEF ReadPod, TypeOK, Settled
  <2>2. /\ DOMAIN DiscoveryMap' \subseteq Nodes
        /\ \A x \in DOMAIN DiscoveryMap' : DiscoveryMap'[x] \in [PortsOf(x) -> SUBSET Ports]
    BY <1>1 DEF ReadPod, Unread, TypeOK
  <2> QED BY <1>1, <2>1, <2>2 DEF ReadPod, TypeOK, daemonVars
<1>2. CASE ReadPodFails
  BY <1>2 DEF ReadPodFails, TypeOK, daemonVars
<1>3. CASE createL2InternalGraph
  BY <1>3 DEF createL2InternalGraph, Unread, Components, Closed, TypeOK, daemonVars
<1> QED BY <1>1, <1>2, <1>3

LEMMA TypeStep == TypeOK /\ [Next]_vars => TypeOK'
<1> SUFFICES ASSUME TypeOK, [Next]_vars
             PROVE  TypeOK'
  OBVIOUS
<1>1. CASE UNCHANGED vars
  BY <1>1 DEF vars, TypeOK
<1>2. CASE \E p \in Ports : Open(p) \/ IfaceBind(p) \/ sendProbe(p) \/ RecvFrame(p)
  BY <1>2, TypeDaemon
<1>3. CASE \E nd \in Nodes : PrintLog(nd) \/ Restart(nd)
  BY <1>3, TypeNode
<1>4. CASE (\E nd \in Nodes : ReadPod(nd)) \/ ReadPodFails \/ createL2InternalGraph
  BY <1>4, TypeLibrary
<1> QED BY <1>1, <1>2, <1>3, <1>4 DEF Next

(* The variables of any reachable state have their types.                  *)
THEOREM TypeCorrect == Spec => []TypeOK
<1> QED BY TypeInit, TypeStep, PTL DEF Spec

----------------------------------------------------------------------------
(***************************************************************************)
(* What is recorded and reported.                                          *)
(***************************************************************************)
LEMMA NeighboursSymmetric ==
    ASSUME NEW p \in Ports, NEW q \in Neighbours(p)
    PROVE  q \in Ports /\ p \in Neighbours(q)
BY DEF Neighbours

OnSegmentOf(q) == {p \in Ports : SegmentOf[p] = SegmentOf[q]}

\* What is in the socket, recorded, reported or read of a port that has taken no stray
\* probe is of its segment.
OwnSegment ==
    \A q \in Ports \ stray :
        /\ socket[q] \cup MacsPerIface[q] \subseteq OnSegmentOf(q)
        /\ report[NodeOf[q]] # NIL => report[NodeOf[q]][q] \subseteq OnSegmentOf(q)
        /\ NodeOf[q] \in DOMAIN DiscoveryMap => DiscoveryMap[NodeOf[q]][q] \subseteq OnSegmentOf(q)

LEMMA OwnDaemon ==
    ASSUME TypeOK, OwnSegment,
           NEW p \in Ports, Open(p) \/ IfaceBind(p) \/ sendProbe(p) \/ RecvFrame(p)
    PROVE  OwnSegment'
<1>1. CASE Open(p) \/ IfaceBind(p)
  BY <1>1 DEF Open, IfaceBind, OwnSegment, libraryVars
<1>2. CASE sendProbe(p)
  <2>1. UNCHANGED <<MacsPerIface, report, DiscoveryMap>>
    BY <1>2 DEF sendProbe, libraryVars
  <2>2. stray \subseteq stray'
    BY <1>2 DEF sendProbe
  <2>3. ASSUME NEW q \in Ports \ stray'
        PROVE  socket'[q] \subseteq socket[q] \cup OnSegmentOf(q)
    <3>1. PICK lost \in SUBSET Reached(p) :
            /\ socket' = [x \in Ports |->
                            IF x \in Reached(p) \ lost /\ p \notin MacsPerIface[x]
                              THEN socket[x] \cup {p} ELSE socket[x]]
            /\ stray' = stray \cup {x \in Reached(p) \ lost : SegmentOf[x] # SegmentOf[p]}
      BY <1>2 DEF sendProbe
    <3>2. q \in Reached(p) \ lost => SegmentOf[q] = SegmentOf[p]
      BY <2>3, <3>1
    <3> QED BY <3>1, <3>2 DEF OnSegmentOf
  <2> QED BY <2>1, <2>2, <2>3 DEF OwnSegment
<1>3. CASE RecvFrame(p)
  <2>1. UNCHANGED <<report, DiscoveryMap, stray>>
    BY <1>3 DEF RecvFrame, libraryVars
  <2>2. \A q \in Ports : socket'[q] \cup MacsPerIface'[q] \subseteq socket[q] \cup MacsPerIface[q]
    BY <1>3 DEF RecvFrame, TypeOK
  <2> QED BY <2>1, <2>2 DEF OwnSegment
<1> QED BY <1>1, <1>2, <1>3

LEMMA OwnNode ==
    ASSUME TypeOK, OwnSegment, NEW nd \in Nodes, PrintLog(nd) \/ Restart(nd) \/ ReadPod(nd)
    PROVE  OwnSegment'
<1> SUFFICES ASSUME NEW q \in Ports \ stray
             PROVE  /\ socket'[q] \cup MacsPerIface'[q] \subseteq OnSegmentOf(q)
                    /\ report'[NodeOf[q]] # NIL => report'[NodeOf[q]][q] \subseteq OnSegmentOf(q)
                    /\ NodeOf[q] \in DOMAIN DiscoveryMap' =>
                           DiscoveryMap'[NodeOf[q]][q] \subseteq OnSegmentOf(q)
  BY DEF OwnSegment, PrintLog, Restart, ReadPod
<1>1. NodeOf[q] \in Nodes /\ q \in PortsOf(NodeOf[q])
  BY DEF Nodes, PortsOf
<1>2. CASE PrintLog(nd)
  <2>1. UNCHANGED <<socket, MacsPerIface, DiscoveryMap>>
    BY <1>2 DEF PrintLog, libraryVars
  <2>2. CASE NodeOf[q] = nd
    <3>1. report'[nd] = Recorded(nd)
      BY <1>2 DEF PrintLog, TypeOK
    <3>2. Recorded(nd)[q] = MacsPerIface[q]
      BY <1>1, <2>2 DEF Recorded
    <3> QED BY <2>1, <2>2, <3>1, <3>2 DEF OwnSegment
  <2>3. CASE NodeOf[q] # nd
    <3>1. report'[NodeOf[q]] = report[NodeOf[q]]
      BY <1>1, <1>2, <2>3 DEF PrintLog, TypeOK
    <3> QED BY <2>1, <3>1 DEF OwnSegment
  <2> QED BY <2>2, <2>3
<1>3. CASE Restart(nd)
  <2>1. UNCHANGED DiscoveryMap
    BY <1>3 DEF Restart, libraryVars
  <2>2. socket'[q] \cup MacsPerIface'[q] \subseteq socket[q] \cup MacsPerIface[q]
    BY <1>3 DEF Restart
  <2>3. report'[NodeOf[q]] # NIL => report'[NodeOf[q]] = report[NodeOf[q]]
    BY <1>1, <1>3 DEF Restart, TypeOK
  <2> QED BY <2>1, <2>2, <2>3 DEF OwnSegment
<1>4. CASE ReadPod(nd)
  <2>1. UNCHANGED <<socket, MacsPerIface, report>>
    BY <1>4 DEF ReadPod, daemonVars
  <2>2. ASSUME NodeOf[q] \in DOMAIN DiscoveryMap'
        PROVE  DiscoveryMap'[NodeOf[q]][q] \subseteq OnSegmentOf(q)
    <3>1. CASE NodeOf[q] = nd
      BY <1>4, <2>2, <3>1 DEF ReadPod, OwnSegment
    <3>2. CASE NodeOf[q] # nd
      BY <1>4, <2>2, <3>2 DEF ReadPod, OwnSegment
    <3> QED BY <3>1, <3>2
  <2> QED BY <2>1, <2>2 DEF OwnSegment
<1> QED BY <1>2, <1>3, <1>4

LEMMA OwnStep == TypeOK /\ OwnSegment /\ [Next]_vars => OwnSegment'
<1> SUFFICES ASSUME TypeOK, OwnSegment, [Next]_vars
             PROVE  OwnSegment'
  OBVIOUS
<1>1. CASE UNCHANGED vars
  BY <1>1 DEF vars, OwnSegment
<1>2. CASE \E p \in Ports : Open(p) \/ IfaceBind(p) \/ sendProbe(p) \/ RecvFrame(p)
  BY <1>2, OwnDaemon
<1>3. CASE \E nd \in Nodes : PrintLog(nd) \/ Restart(nd) \/ ReadPod(nd)
  BY <1>3, OwnNode
<1>4. CASE ReadPodFails
  BY <1>4 DEF ReadPodFails, daemonVars, OwnSegment
<1>5. CASE createL2InternalGraph
  BY <1>5 DEF createL2InternalGraph, daemonVars, OwnSegment
<1> QED BY <1>1, <1>2, <1>3, <1>4, <1>5 DEF Next

LEMMA OwnCorrect == Spec => []OwnSegment
<1>1. Init => OwnSegment
  BY DEF Init, OwnSegment, Nodes
<1> QED BY <1>1, OwnStep, TypeCorrect, PTL DEF Spec

----------------------------------------------------------------------------
(***************************************************************************)
(* Neighbours meet.  The invariant is inductive as it is stated.           *)
(***************************************************************************)
Early(p) == ~ PortsOf(NodeOf[p]) \subseteq open => probes[p] <= EarlyProbes

Met(p, q) ==
    {p, q} \subseteq open =>
        Seen(p, q) \/ probes[p] - EarlyProbes <= missed[p][q]
                   \/ probes[q] - EarlyProbes <= missed[q][p]

LEMMA MeetParts ==
    NeighboursMeet <=> /\ \A p \in Ports \ Bonded : Early(p)
                       /\ \A p \in Ports \ Bonded : \A q \in Neighbours(p) \ Bonded : Met(p, q)
BY DEF NeighboursMeet, Early, Met

LEMMA Counts ==
    ASSUME TypeOK, NEW p \in Ports, NEW q \in Ports
    PROVE  probes[p] \in Nat /\ missed[p][q] \in Nat
BY ProbesAssumption DEF TypeOK

LEMMA MeetOpen ==
    ASSUME TypeOK, NeighboursMeet, NEW x \in Ports, Open(x)
    PROVE  NeighboursMeet'
<1>1. open' = open \cup {x} /\ x \notin open /\ UNCHANGED <<probes, socket, MacsPerIface, missed>>
  BY DEF Open
<1>2. ASSUME NEW p \in Ports \ Bonded
      PROVE  Early(p)'
  BY <1>1, MeetParts DEF Early
<1>3. ASSUME NEW p \in Ports \ Bonded, NEW q \in Neighbours(p) \ Bonded
      PROVE  Met(p, q)'
  <2>1. q \in Ports
    BY DEF Neighbours
  <2>2. CASE x \notin {p, q}
    BY <1>1, <2>2, MeetParts DEF Met, Seen
  <2>3. ASSUME x = p \/ x = q
        PROVE  probes[x] <= EarlyProbes
    <3>1. x \in PortsOf(NodeOf[x])
      BY DEF PortsOf
    <3> QED BY <1>1, <2>1, <2>3, <3>1, MeetParts DEF Early
  <2>4. CASE x = p
    BY <1>1, <2>1, <2>3, <2>4, Counts, ProbesAssumption DEF Met
  <2>5. CASE x = q
    BY <1>1, <2>1, <2>3, <2>5, Counts, ProbesAssumption DEF Met
  <2> QED BY <2>2, <2>4, <2>5
<1> QED BY <1>2, <1>3 DEF NeighboursMeet, Early, Met

LEMMA MeetProbe ==
    ASSUME TypeOK, NeighboursMeet, NEW x \in Ports, sendProbe(x)
    PROVE  NeighboursMeet'
<1>1. /\ x \notin Bonded
      /\ probes[x] < EarlyProbes \/ PortsOf(NodeOf[x]) \subseteq open
      /\ probes' = [probes EXCEPT ![x] = @ + 1]
      /\ UNCHANGED <<open, MacsPerIface>>
  BY DEF sendProbe, MayProbe, sockets
<1>2. PICK lost \in SUBSET Reached(x) :
          /\ missed' = [missed EXCEPT ![x] =
                           [q \in Ports |-> IF q \in lost \cap Neighbours(x) THEN @[q] + 1 ELSE @[q]]]
          /\ socket' = [q \in Ports |->
                           IF q \in Reached(x) \ lost /\ x \notin MacsPerIface[q]
                             THEN socket[q] \cup {x} ELSE socket[q]]
  BY DEF sendProbe
<1>3. /\ probes'[x] = probes[x] + 1
      /\ \A p \in Ports : p # x => probes'[p] = probes[p] /\ missed'[p] = missed[p]
      /\ \A q \in Ports : missed'[x][q] = IF q \in lost \cap Neighbours(x)
                                               THEN missed[x][q] + 1 ELSE missed[x][q]
  BY <1>1, <1>2 DEF TypeOK
<1>4. /\ \A q \in Ports : socket[q] \subseteq socket'[q]
      /\ \A q \in Ports : q \in Reached(x) \ lost => x \in socket'[q] \cup MacsPerIface[q]
  BY <1>2 DEF TypeOK
<1>5. ASSUME NEW p \in Ports, NEW q \in Ports, Seen(p, q)
      PROVE  Seen(p, q)'
  BY <1>1, <1>4, <1>5 DEF Seen
<1>6. ASSUME NEW p \in Ports \ Bonded
      PROVE  Early(p)'
  <2>1. CASE p = x
    BY <1>1, <1>3, <2>1, Counts, ProbesAssumption DEF Early
  <2>2. CASE p # x
    BY <1>1, <1>3, <2>2, MeetParts DEF Early
  <2> QED BY <2>1, <2>2
<1>7. ASSUME NEW q \in Neighbours(x) \ Bonded, {x, q} \subseteq open, Met(x, q)
      PROVE  Seen(x, q)' \/ probes'[x] - EarlyProbes <= missed'[x][q]
                         \/ probes'[q] - EarlyProbes <= missed'[q][x]
  <2>1. q \in Ports /\ q \in Reached(x) /\ q # x
    BY <1>7 DEF Neighbours, Reached, TakesFrom, PortsOf
  <2>2. CASE q \notin lost
    BY <1>1, <1>4, <2>1, <2>2 DEF Seen
  <2>3. CASE q \in lost
    <3>1. Seen(x, q) => Seen(x, q)'
      BY <1>5, <2>1
    <3>2. probes'[q] = probes[q] /\ missed'[q][x] = missed[q][x]
      BY <1>3, <2>1
    <3>3. probes'[x] = probes[x] + 1 /\ missed'[x][q] = missed[x][q] + 1
      BY <1>3, <2>1, <2>3
    <3>4. Seen(x, q) \/ probes[x] - EarlyProbes <= missed[x][q]
                     \/ probes[q] - EarlyProbes <= missed[q][x]
      BY <1>7 DEF Met
    <3>5. probes[x] \in Nat /\ missed[x][q] \in Nat /\ EarlyProbes \in Nat
      BY <2>1, Counts, ProbesAssumption
    <3> QED BY <3>1, <3>2, <3>3, <3>4, <3>5
  <2> QED BY <2>2, <2>3
<1>8. ASSUME NEW p \in Ports \ Bonded, NEW q \in Neighbours(p) \ Bonded
      PROVE  Met(p, q)'
  <2>1. q \in Ports /\ p \in Neighbours(q)
    BY NeighboursSymmetric
  <2>2. SUFFICES ASSUME {p, q} \subseteq open
                 PROVE  Seen(p, q)' \/ probes'[p] - EarlyProbes <= missed'[p][q]
                                    \/ probes'[q] - EarlyProbes <= missed'[q][p]
    BY <1>1 DEF Met
  <2>3. Met(p, q) /\ Met(q, p)
    BY <2>1, MeetParts
  <2>4. CASE x = p
    BY <1>7, <2>2, <2>3, <2>4
  <2>5. CASE x = q
    <3>1. Seen(q, p)' <=> Seen(p, q)'
      BY DEF Seen
    <3> QED BY <1>7, <2>1, <2>2, <2>3, <2>5, <3>1
  <2>6. CASE x \notin {p, q}
    <3>1. Seen(p, q) \/ probes[p] - EarlyProbes <= missed[p][q]
                     \/ probes[q] - EarlyProbes <= missed[q][p]
      BY <2>2, <2>3 DEF Met
    <3> QED BY <1>3, <1>5, <2>1, <2>6, <3>1
  <2> QED BY <2>4, <2>5, <2>6
<1> QED BY <1>6, <1>8 DEF NeighboursMeet, Early, Met

LEMMA MeetRecv ==
    ASSUME TypeOK, NeighboursMeet, NEW x \in Ports, RecvFrame(x)
    PROVE  NeighboursMeet'
<1>1. UNCHANGED <<open, probes, missed>>
  BY DEF RecvFrame, sockets
<1>2. \A q \in Ports : socket'[q] \cup MacsPerIface'[q] = socket[q] \cup MacsPerIface[q]
  BY DEF RecvFrame, TypeOK
<1>3. \A p \in Ports : \A q \in Neighbours(p) : Seen(p, q)' <=> Seen(p, q)
  BY <1>2 DEF Seen, Neighbours
<1> QED BY <1>1, <1>3 DEF NeighboursMeet

LEMMA MeetRestart ==
    ASSUME TypeOK, NeighboursMeet, NEW nd \in Nodes, Restart(nd)
    PROVE  NeighboursMeet'
<1>1. open' = open \ PortsOf(nd)
  BY DEF Restart
<1>2. \A p \in Ports : probes'[p] = IF p \in PortsOf(nd) THEN 0 ELSE probes[p]
  BY DEF Restart
<1>3. \A p \in Ports : p \notin PortsOf(nd) => /\ socket'[p] = socket[p]
                                              /\ MacsPerIface'[p] = MacsPerIface[p]
  BY DEF Restart
<1>4. \A p, q \in Ports : p \notin PortsOf(nd) /\ q \notin PortsOf(nd) => missed'[p][q] = missed[p][q]
  BY DEF Restart
<1>5. ASSUME NEW p \in Ports \ Bonded
      PROVE  Early(p)'
  <2>1. CASE p \in PortsOf(nd)
    BY <1>2, <2>1, ProbesAssumption DEF Early
  <2>2. CASE p \notin PortsOf(nd)
    <3>1. PortsOf(NodeOf[p]) \cap PortsOf(nd) = {}
      BY <2>2 DEF PortsOf
    <3> QED BY <1>1, <1>2, <2>2, <3>1, MeetParts DEF Early
  <2> QED BY <2>1, <2>2
<1>6. ASSUME NEW p \in Ports \ Bonded, NEW q \in Neighbours(p) \ Bonded
      PROVE  Met(p, q)'
  <2>1. q \in Ports
    BY DEF Neighbours
  <2>2. CASE p \in PortsOf(nd) \/ q \in PortsOf(nd)
    BY <1>1, <2>2 DEF Met
  <2>3. CASE p \notin PortsOf(nd) /\ q \notin PortsOf(nd)
    BY <1>1, <1>2, <1>3, <1>4, <2>1, <2>3, MeetParts DEF Met, Seen
  <2> QED BY <2>2, <2>3
<1> QED BY <1>5, <1>6 DEF NeighboursMeet, Early, Met

LEMMA MeetStep == TypeOK /\ NeighboursMeet /\ [Next]_vars => NeighboursMeet'
<1> SUFFICES ASSUME TypeOK, NeighboursMeet, [Next]_vars
             PROVE  NeighboursMeet'
  OBVIOUS
<1>1. ASSUME UNCHANGED <<open, probes, socket, MacsPerIface, missed>>
      PROVE  NeighboursMeet'
  BY <1>1 DEF NeighboursMeet, Seen
<1>2. CASE UNCHANGED vars
  BY <1>1, <1>2 DEF vars
<1>3. CASE \E p \in Ports : Open(p) \/ IfaceBind(p) \/ sendProbe(p) \/ RecvFrame(p)
  BY <1>1, <1>3, MeetOpen, MeetProbe, MeetRecv DEF IfaceBind
<1>4. CASE \E nd \in Nodes : PrintLog(nd)
  BY <1>1, <1>4 DEF PrintLog, sockets
<1>5. CASE \E nd \in Nodes : Restart(nd)
  BY <1>5, MeetRestart
<1>6. CASE (\E nd \in Nodes : ReadPod(nd)) \/ ReadPodFails \/ createL2InternalGraph
  BY <1>1, <1>6 DEF ReadPod, ReadPodFails, createL2InternalGraph, daemonVars
<1> QED BY <1>2, <1>3, <1>4, <1>5, <1>6 DEF Next

(* Whatever restarts and whatever is lost, two neighbours that listen have *)
(* met, or one of them has probes left.                                    *)
THEOREM NeighboursMeetCorrect == Spec => []NeighboursMeet
<1>1. Init => NeighboursMeet
  BY ProbesAssumption DEF Init, NeighboursMeet
<1> QED BY <1>1, MeetStep, TypeCorrect, PTL DEF Spec

----------------------------------------------------------------------------
(***************************************************************************)
(* The LANs: a component whose ports have taken no stray probe stays       *)
(* within a segment; reports of daemons at rest have an edge for all who   *)
(* met.                                                                    *)
(***************************************************************************)
LEMMA EdgesTyped ==
    ASSUME TypeOK, DOMAIN DiscoveryMap = Nodes
    PROVE  Edges \in SUBSET (Ports \X Ports)
<1>1. \A q \in Ports : NodeOf[q] \in Nodes /\ q \in PortsOf(NodeOf[q])
  BY DEF Nodes, PortsOf
<1>2. \A q \in Ports : DiscoveryMap[NodeOf[q]] \in [PortsOf(NodeOf[q]) -> SUBSET Ports]
  BY <1>1 DEF TypeOK
<1>3. \A q \in Ports : DiscoveryMap[NodeOf[q]][q] \subseteq Ports
  BY <1>1, <1>2
<1> QED BY <1>3 DEF Edges

LEMMA EdgeOnSegment ==
    ASSUME OwnSegment, DOMAIN DiscoveryMap = Nodes, NEW edge \in Edges, edge[1] \notin stray
    PROVE  SegmentOf[edge[1]] = SegmentOf[edge[2]]
<1>1. PICK q \in Ports : edge \in {q} \X DiscoveryMap[NodeOf[q]][q]
  BY DEF Edges
<1>2. DiscoveryMap[NodeOf[q]][q] \subseteq OnSegmentOf(q)
  BY <1>1 DEF OwnSegment, Nodes
<1> QED BY <1>1, <1>2 DEF OnSegmentOf

LEMMA LanOfOneSegment ==
    ASSUME OwnSegment, DOMAIN DiscoveryMap = Nodes,
           NEW C \in Components(Ports, Edges), C \cap stray = {}, NEW p \in C, NEW q \in C
    PROVE  SegmentOf[p] = SegmentOf[q]
<1> DEFINE S == {x \in C : SegmentOf[x] = SegmentOf[p]}
<1>1. ASSUME NEW edge \in Edges
      PROVE  edge[1] \in S <=> edge[2] \in S
  <2>1. edge[1] \in C <=> edge[2] \in C
    BY ComponentKeepsEdges
  <2>2. edge[1] \in C => SegmentOf[edge[1]] = SegmentOf[edge[2]]
    BY EdgeOnSegment
  <2> QED BY <2>1, <2>2
<1>2. S \in SUBSET C /\ S # {}
  OBVIOUS
<1>3. S = C
  <2> HIDE DEF S
  <2> QED BY <1>1, <1>2, ComponentWhole
<1> QED BY <1>3

LEMMA SoundStep == TypeOK /\ OwnSegment /\ LansSound /\ [Next]_vars => LansSound'
<1> SUFFICES ASSUME TypeOK, OwnSegment, LansSound, [Next]_vars
             PROVE  LansSound'
  OBVIOUS
<1>1. CASE UNCHANGED LANs /\ stray \subseteq stray'
  BY <1>1 DEF LansSound
<1>2. CASE createL2InternalGraph
  <2>1. DOMAIN DiscoveryMap = Nodes
    BY <1>2 DEF createL2InternalGraph, Unread, TypeOK
  <2>2. LANs' = Components(Ports, Edges) /\ stray' = stray
    BY <1>2 DEF createL2InternalGraph
  <2> QED BY <2>1, <2>2, LanOfOneSegment DEF LansSound
<1>3. (UNCHANGED LANs /\ stray \subseteq stray') \/ createL2InternalGraph
  BY DEF Next, vars, Open, IfaceBind, sendProbe, RecvFrame, PrintLog, Restart, ReadPod,
         ReadPodFails, libraryVars
<1> QED BY <1>1, <1>2, <1>3

(* No LAN joins two segments, however early the reports are read, unless   *)
(* one of its ports has taken a probe of another segment: what the daemons *)
(* and the library do with the probes adds no confusion to that.           *)
THEOREM LansSoundCorrect == Spec => []LansSound
<1>1. Init => LansSound
  BY DEF Init, LansSound
<1> QED BY <1>1, SoundStep, TypeCorrect, OwnCorrect, PTL DEF Spec

\* When the daemons were at rest at the first report, they are still, and
\* what was read is what is recorded.
Calm == calm => /\ Settled
                /\ \A nd \in DOMAIN DiscoveryMap : DiscoveryMap[nd] = Recorded(nd)

LEMMA CalmStep == TypeOK /\ Calm /\ [Next]_vars => Calm'
<1> SUFFICES ASSUME TypeOK, Calm, [Next]_vars, calm'
             PROVE  /\ Settled'
                    /\ \A nd \in DOMAIN DiscoveryMap' : DiscoveryMap'[nd] = Recorded(nd)'
  BY DEF Calm
<1>1. ASSUME UNCHANGED <<reading, probes, socket, MacsPerIface, report>>
      PROVE  /\ Settled' <=> Settled
             /\ \A nd \in Nodes : Recorded(nd)' = Recorded(nd)
  BY <1>1 DEF Settled, Recorded
<1>2. ASSUME UNCHANGED <<vars>>
      PROVE  Settled' /\ \A nd \in DOMAIN DiscoveryMap' : DiscoveryMap'[nd] = Recorded(nd)'
  BY <1>1, <1>2 DEF vars, Calm, TypeOK
<1>3. ASSUME NEW p \in Ports, Open(p) \/ IfaceBind(p) \/ sendProbe(p) \/ RecvFrame(p)
      PROVE  FALSE
  <2>1. calm
    BY <1>3 DEF Open, IfaceBind, sendProbe, RecvFrame
  <2>2. /\ reading = Ports /\ socket[p] = {}
        /\ p \notin Bonded => probes[p] = MaxProbes
    BY <2>1 DEF Calm, Settled
  <2>3. ~ Open(p)
    BY <2>2 DEF Open, TypeOK
  <2>6. ~ IfaceBind(p)
    BY <2>2 DEF IfaceBind
  <2>4. ~ sendProbe(p)
    <3>1. ~ MayProbe(p)
      BY <2>2, ProbesAssumption DEF MayProbe
    <3> QED BY <3>1 DEF sendProbe
  <2>5. ~ RecvFrame(p)
    BY <2>2 DEF RecvFrame
  <2> QED BY <1>3, <2>3, <2>4, <2>5, <2>6
<1>4. ASSUME NEW nd \in Nodes, PrintLog(nd)
      PROVE  Settled' /\ \A x \in DOMAIN DiscoveryMap' : DiscoveryMap'[x] = Recorded(x)'
  <2>1. /\ calm /\ report' = [report EXCEPT ![nd] = Recorded(nd)]
        /\ UNCHANGED <<reading, probes, socket, MacsPerIface, DiscoveryMap>>
    BY <1>4 DEF PrintLog, libraryVars, sockets
  <2>2. Settled /\ \A x \in DOMAIN DiscoveryMap : DiscoveryMap[x] = Recorded(x)
    BY <2>1 DEF Calm
  <2>3. report[nd] = Recorded(nd)
    BY <2>2 DEF Settled
  <2>4. \A x \in Nodes : report'[x] = report[x]
    BY <2>1, <2>3 DEF TypeOK
  <2>5. \A x \in Nodes : Recorded(x)' = Recorded(x)
    BY <2>1 DEF Recorded
  <2>6. Settled'
    BY <2>1, <2>2, <2>4, <2>5 DEF Settled
  <2> QED BY <2>1, <2>2, <2>5, <2>6 DEF TypeOK
<1>5. ASSUME NEW nd \in Nodes, Restart(nd)
      PROVE  FALSE
  BY <1>5 DEF Restart
<1>6. ASSUME NEW nd \in Nodes, ReadPod(nd)
      PROVE  Settled' /\ \A x \in DOMAIN DiscoveryMap' : DiscoveryMap'[x] = Recorded(x)'
  <2>1. /\ calm' = IF DiscoveryMap = <<>> THEN Settled ELSE calm
        /\ DiscoveryMap' = [x \in DOMAIN DiscoveryMap \cup {nd} |->
                              IF x = nd THEN report[nd] ELSE DiscoveryMap[x]]
        /\ UNCHANGED <<reading, probes, socket, MacsPerIface, report>>
    BY <1>6 DEF ReadPod, daemonVars
  <2>2. Settled /\ \A x \in DOMAIN DiscoveryMap : DiscoveryMap[x] = Recorded(x)
    <3>1. CASE DiscoveryMap = <<>>
      BY <2>1, <3>1
    <3>2. CASE DiscoveryMap # <<>>
      BY <2>1, <3>2 DEF Calm
    <3> QED BY <3>1, <3>2
  <2>3. report[nd] = Recorded(nd)
    BY <2>2 DEF Settled
  <2>4. \A x \in DOMAIN DiscoveryMap' : DiscoveryMap'[x] = Recorded(x)
    BY <2>1, <2>2, <2>3
  <2>5. DOMAIN DiscoveryMap' \subseteq Nodes
    BY <2>1 DEF TypeOK
  <2> QED BY <1>1, <2>1, <2>2, <2>4, <2>5
<1>7. CASE ReadPodFails
  BY <1>1, <1>7 DEF ReadPodFails, daemonVars, Calm
<1>8. CASE createL2InternalGraph
  BY <1>1, <1>8 DEF createL2InternalGraph, daemonVars, Calm, TypeOK
<1> QED BY <1>2, <1>3, <1>4, <1>5, <1>6, <1>7, <1>8 DEF Next

LEMMA LanOfNeighbours ==
    ASSUME TypeOK, NeighboursMeet, Settled, DOMAIN DiscoveryMap = Nodes,
           \A nd \in Nodes : DiscoveryMap[nd] = Recorded(nd),
           NEW p \in Ports \ Bonded, NEW q \in Neighbours(p) \ Bonded
    PROVE  \E lan \in Components(Ports, Edges) : {p, q} \subseteq lan
<1>1. q \in Ports
  BY DEF Neighbours
<1>2. /\ probes[p] = MaxProbes /\ probes[q] = MaxProbes
      /\ missed[p][q] \in 0 .. MaxMissed /\ missed[q][p] \in 0 .. MaxMissed
  BY <1>1 DEF Settled, TypeOK
<1>3. {p, q} \subseteq open /\ socket[p] = {} /\ socket[q] = {}
  BY <1>1 DEF Settled, TypeOK
<1>4. q \in MacsPerIface[p] \/ p \in MacsPerIface[q]
  BY <1>2, <1>3, ProbesAssumption DEF NeighboursMeet, Seen
<1>5. \A x \in Ports : DiscoveryMap[NodeOf[x]][x] = MacsPerIface[x]
  <2> TAKE x \in Ports
  <2>1. NodeOf[x] \in Nodes /\ x \in PortsOf(NodeOf[x])
    BY DEF Nodes, PortsOf
  <2>2. DiscoveryMap[NodeOf[x]] = [y \in PortsOf(NodeOf[x]) |-> MacsPerIface[y]]
    BY <2>1 DEF Recorded
  <2> QED BY <2>1, <2>2
<1>6. \A x, y \in Ports : y \in MacsPerIface[x] => <<x, y>> \in Edges
  BY <1>5 DEF Edges
<1>7. <<p, q>> \in Edges \/ <<q, p>> \in Edges
  BY <1>1, <1>4, <1>6
<1>8. Edges \in SUBSET (Ports \X Ports)
  BY EdgesTyped
<1>9. PICK C \in Components(Ports, Edges) : p \in C
  BY <1>8, ComponentOf
<1>10. q \in C
  BY <1>7, <1>9, ComponentKeepsEdges
<1> QED BY <1>9, <1>10

LEMMA CompleteStep ==
    /\ TypeOK /\ NeighboursMeet /\ Calm
    /\ LansComplete /\ [Next]_vars
    => LansComplete'
<1> SUFFICES ASSUME TypeOK, NeighboursMeet, Calm, LansComplete, [Next]_vars
             PROVE  LansComplete'
  OBVIOUS
<1>1. CASE UNCHANGED LANs /\ (LANs = NIL \/ (calm' => calm))
  BY <1>1 DEF LansComplete
<1>2. CASE createL2InternalGraph
  <2>1. DOMAIN DiscoveryMap = Nodes
    BY <1>2 DEF createL2InternalGraph, Unread, TypeOK
  <2>2. LANs' = Components(Ports, Edges) /\ calm' = calm
    BY <1>2 DEF createL2InternalGraph
  <2>3. calm => Settled /\ \A nd \in Nodes : DiscoveryMap[nd] = Recorded(nd)
    BY <2>1 DEF Calm
  <2> QED BY <2>1, <2>2, <2>3, LanOfNeighbours DEF LansComplete
<1>3. (UNCHANGED LANs /\ (LANs = NIL \/ (calm' => calm))) \/ createL2InternalGraph
  <2>1. ASSUME NEW p \in Ports, Open(p) \/ IfaceBind(p) \/ sendProbe(p) \/ RecvFrame(p)
        PROVE  UNCHANGED LANs /\ (calm' => calm)
    BY <2>1 DEF Open, IfaceBind, sendProbe, RecvFrame, libraryVars
  <2>2. ASSUME NEW nd \in Nodes, PrintLog(nd) \/ Restart(nd)
        PROVE  UNCHANGED LANs /\ (calm' => calm)
    BY <2>2 DEF PrintLog, Restart, libraryVars
  <2>3. ASSUME NEW nd \in Nodes, ReadPod(nd)
        PROVE  UNCHANGED LANs /\ LANs = NIL
    BY <2>3 DEF ReadPod
  <2>4. ASSUME ReadPodFails \/ UNCHANGED vars
        PROVE  UNCHANGED LANs /\ (calm' => calm)
    BY <2>4 DEF ReadPodFails, vars
  <2> QED BY <2>1, <2>2, <2>3, <2>4 DEF Next
<1> QED BY <1>1, <1>2, <1>3

(* Reports read after the probing put every two neighbours on one LAN.     *)
THEOREM LansCompleteCorrect == Spec => []LansComplete
<1>1. Init => Calm /\ LansComplete
  BY DEF Init, Calm, LansComplete
<1> QED BY <1>1, CalmStep, CompleteStep, TypeCorrect, NeighboursMeetCorrect, PTL DEF Spec

----------------------------------------------------------------------------
(***************************************************************************)
(* The promise of every node: Known are the facts it has learnt, Told      *)
(* those of its last report.                                               *)
(***************************************************************************)
Known(nd) == UNION {{q} \X MacsPerIface[q] : q \in PortsOf(nd)}

Told(nd) == IF report[nd] = NIL THEN NIL ELSE UNION {{q} \X report[nd][q] : q \in PortsOf(nd)}

LEMMA PromiseStutters ==
    ASSUME NEW nd \in Nodes, UNCHANGED MacsPerIface, report'[nd] = report[nd]
    PROVE  UNCHANGED Promise(nd)!vars
BY DEF Promise!vars

LEMMA PromiseRecv ==
    ASSUME TypeOK, NEW x \in Ports, RecvFrame(x), NEW nd \in Nodes
    PROVE  Promise(nd)!Next \/ UNCHANGED Promise(nd)!vars
<1>1. PICK p \in socket[x] : MacsPerIface' = [MacsPerIface EXCEPT ![x] = @ \cup {p}]
  BY DEF RecvFrame
<1>2. p \in Ports /\ UNCHANGED report
  BY <1>1 DEF RecvFrame, TypeOK
<1>3. \A q \in Ports : MacsPerIface'[q] = IF q = x THEN MacsPerIface[q] \cup {p} ELSE MacsPerIface[q]
  BY <1>1 DEF TypeOK
<1>4. Told(nd)' = Told(nd)
  BY <1>2 DEF Told
<1>5. CASE x \in PortsOf(nd)
  <2>1. Known(nd)' = Known(nd) \cup {<<x, p>>}
    <3>1. \A fact : fact \in Known(nd) <=>
                       \E q \in PortsOf(nd) : \E r \in MacsPerIface[q] : fact = <<q, r>>
      BY DEF Known
    <3>2. \A fact : fact \in Known(nd)' <=>
                       \E q \in PortsOf(nd) : \E r \in MacsPerIface'[q] : fact = <<q, r>>
      BY DEF Known
    <3>3. \A q \in PortsOf(nd) :
             MacsPerIface'[q] = IF q = x THEN MacsPerIface[q] \cup {p} ELSE MacsPerIface[q]
      BY <1>3 DEF PortsOf
    <3>4. \A fact : fact \in Known(nd)' <=> fact \in Known(nd) \cup {<<x, p>>}
      BY <1>5, <3>1, <3>2, <3>3
    <3> QED BY <3>4
  <2>2. <<x, p>> \in Ports \X Ports
    BY <1>2
  <2> QED BY <1>4, <2>1, <2>2 DEF Promise!Next, Promise!Learn, Known, Told
<1>6. CASE x \notin PortsOf(nd)
  <2>1. Known(nd)' = Known(nd)
    BY <1>3, <1>6 DEF Known, PortsOf
  <2> QED BY <1>4, <2>1 DEF Promise!vars, Known, Told
<1> QED BY <1>5, <1>6

LEMMA PromisePrint ==
    ASSUME TypeOK, NEW x \in Nodes, PrintLog(x), NEW nd \in Nodes
    PROVE  Promise(nd)!Next \/ UNCHANGED Promise(nd)!vars
<1>1. report' = [report EXCEPT ![x] = Recorded(x)] /\ UNCHANGED MacsPerIface
  BY DEF PrintLog
<1>2. CASE nd = x
  <2>1. report'[nd] = Recorded(nd)
    BY <1>1, <1>2 DEF TypeOK
  <2>2. Recorded(nd) \in [PortsOf(nd) -> SUBSET Ports]
    BY DEF Recorded, PortsOf, TypeOK
  <2>3. Recorded(nd) # NIL
    BY <2>2, NilAssumption
  <2>4. \A q \in PortsOf(nd) : Recorded(nd)[q] = MacsPerIface[q]
    BY DEF Recorded
  <2>5. UNION {{q} \X Recorded(nd)[q] : q \in PortsOf(nd)} = Known(nd)
    BY <2>4 DEF Known
  <2>6. Told(nd)' = Known(nd) /\ Known(nd)' = Known(nd)
    BY <1>1, <2>1, <2>3, <2>5 DEF Told, Known
  <2> QED BY <2>6 DEF Promise!Next, Promise!PrintReport, Known, Told
<1>3. CASE nd # x
  <2>1. report'[nd] = report[nd]
    BY <1>1, <1>3 DEF TypeOK
  <2> QED BY <1>1, <2>1, PromiseStutters
<1> QED BY <1>2, <1>3

LEMMA PromiseRestart ==
    ASSUME TypeOK, NEW x \in Nodes, Restart(x), NEW nd \in Nodes
    PROVE  Promise(nd)!Next \/ UNCHANGED Promise(nd)!vars
<1>1. /\ report' = [report EXCEPT ![x] = NIL]
      /\ \A p \in Ports : MacsPerIface'[p] = IF p \in PortsOf(x) THEN {} ELSE MacsPerIface[p]
  BY DEF Restart
<1>2. CASE nd = x
  <2>1. Told(nd)' = NIL
    BY <1>1, <1>2 DEF Told, TypeOK
  <2>2. Known(nd)' = {}
    BY <1>1, <1>2 DEF Known, PortsOf
  <2> QED BY <2>1, <2>2 DEF Promise!Next, Promise!Restart, Known, Told
<1>3. CASE nd # x
  <2>1. Told(nd)' = Told(nd)
    BY <1>1, <1>3 DEF Told, TypeOK
  <2>2. Known(nd)' = Known(nd)
    BY <1>1, <1>3 DEF Known, PortsOf
  <2> QED BY <2>1, <2>2 DEF Promise!vars, Known, Told
<1> QED BY <1>2, <1>3

LEMMA PromiseStep ==
    ASSUME TypeOK, [Next]_vars, NEW nd \in Nodes
    PROVE  Promise(nd)!Next \/ UNCHANGED Promise(nd)!vars
<1>1. CASE UNCHANGED <<MacsPerIface, report>>
  BY <1>1, PromiseStutters
<1>2. CASE \E p \in Ports : Open(p) \/ IfaceBind(p) \/ sendProbe(p) \/ RecvFrame(p)
  BY <1>1, <1>2, PromiseRecv DEF Open, IfaceBind, sendProbe
<1>3. CASE \E x \in Nodes : PrintLog(x) \/ Restart(x) \/ ReadPod(x)
  BY <1>1, <1>3, PromisePrint, PromiseRestart DEF ReadPod, daemonVars
<1>4. CASE ReadPodFails \/ createL2InternalGraph \/ UNCHANGED vars
  BY <1>1, <1>4 DEF ReadPodFails, createL2InternalGraph, daemonVars, vars
<1> QED BY <1>2, <1>3, <1>4 DEF Next

(* The daemons of a cluster, seen one by one, do what DaemonPromise says,  *)
(* which is what L2Daemon implements goroutine by goroutine.               *)
THEOREM PromisesKept == Spec => NodesKeepPromise
<1>1. Init => \A nd \in Nodes : Promise(nd)!Init
  BY DEF Init, Promise!Init, PortsOf
<1>2. TypeOK /\ [Next]_vars => [\A nd \in Nodes : Promise(nd)!Next \/ UNCHANGED Promise(nd)!vars]_vars
  BY PromiseStep
<1> QED BY <1>1, <1>2, TypeCorrect, PTL DEF Spec, NodesKeepPromise
=============================================================================
