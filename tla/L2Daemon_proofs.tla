--------------------------- MODULE L2Daemon_proofs ---------------------------
(***************************************************************************)
(* Proofs about L2Daemon, for every number of interfaces and any frames:   *)
(* the receivers exclude each other, and what the printer prints under the *)
(* lock is complete, whole, and names neighbours of the right interface.   *)
(***************************************************************************)
EXTENDS L2Daemon, TLAPS

Ethertypes == {"0000", "88b5", "88f7"}

(***************************************************************************)
(* Entering an interface in the map.                                       *)
(***************************************************************************)
LEMMA EnteredProperties ==
    ASSUME DOMAIN MacsPerIface = Ethertypes, NEW type \in Ethertypes, NEW i, NEW entry
    PROVE  /\ DOMAIN Entered(type, i, entry) = Ethertypes
           /\ DOMAIN Entered(type, i, entry)[type] = DOMAIN MacsPerIface[type] \cup {i}
           /\ Entered(type, i, entry)[type][i] = entry
           /\ \A j \in DOMAIN MacsPerIface[type] :
                 j # i => Entered(type, i, entry)[type][j] = MacsPerIface[type][j]
           /\ \A other \in Ethertypes :
                 other # type => Entered(type, i, entry)[other] = MacsPerIface[other]
<1>1. /\ DOMAIN Entered(type, i, entry) = Ethertypes
      /\ Entered(type, i, entry)[type] = Put(MacsPerIface[type], i, entry)
      /\ \A other \in Ethertypes :
            other # type => Entered(type, i, entry)[other] = MacsPerIface[other]
  BY DEF Entered
<1>2. QED
  BY <1>1 DEF Put

(***************************************************************************)
(* The inductive invariant.  An entry without a neighbour exists only      *)
(* while the receiver of its interface holds the lock.                     *)
(***************************************************************************)
IsNeighbors(entry) == DOMAIN entry = {"remote", "announces"}

EntriesOK ==
    \A type \in Ethertypes : \A i \in DOMAIN MacsPerIface[type] : IsNeighbors(MacsPerIface[type][i])

LocalRecorded ==
    /\ \A i \in names : pc[i] # "off" => i \in DOMAIN MacsPerIface["0000"]
    /\ main = "running" => \A i \in names : pc[i] # "off"

RecordsForeign == \A i \in names : pc[i] = "remote" => FromOtherNode(i)

HalfDone ==
    \A type \in {"88b5", "88f7"} : \A i \in DOMAIN MacsPerIface[type] :
        MacsPerIface[type][i].remote = {} => pc[i] = "remote" /\ aFrame[i].Type = type

MapInv ==
    /\ EntriesOK /\ LocalRecorded /\ RecordsForeign /\ HalfDone
    /\ RemotesForeign /\ ReportsComplete /\ ReportsWhole

----------------------------------------------------------------------------
(***************************************************************************)
(* Types and mutual exclusion.                                             *)
(***************************************************************************)
LEMMA TypeInit == Init => TypeOK
BY FreeAssumption, MaxProbesAssumption DEF Init, TypeOK, Empty, Critical

LEMMA TypeRestart ==
    ASSUME Restart
    PROVE  TypeOK'
BY FreeAssumption, MaxProbesAssumption DEF Restart, TypeOK, Empty, Critical

LEMMA TypeMain ==
    ASSUME TypeOK, NEW i \in names,
           RecordAllLocal(i) \/ StartPrintLog \/ PrintLog \/ sendProbeForever(i)
    PROVE  TypeOK'
<1>1. CASE RecordAllLocal(i)
  <2>1. /\ DOMAIN MacsPerIface' = Ethertypes
        /\ \A type \in Ethertypes : DOMAIN MacsPerIface'[type] \subseteq names
        /\ \A type \in Ethertypes : DOMAIN MacsPerIface[type] \subseteq DOMAIN MacsPerIface'[type]
    BY <1>1, EnteredProperties DEF RecordAllLocal, TypeOK, Ethertypes
  <2>2. QED
    BY <1>1, <2>1 DEF RecordAllLocal, TypeOK, Critical, Ethertypes
<1>2. CASE StartPrintLog \/ PrintLog
  BY <1>2 DEF StartPrintLog, PrintLog, TypeOK, Critical
<1>3. CASE sendProbeForever(i)
  <2>1. probes' \in [names -> 0 .. MaxProbes]
    BY <1>3, MaxProbesAssumption DEF sendProbeForever, TypeOK
  <2>2. QED
    BY <1>3, <2>1 DEF sendProbeForever, TypeOK, Critical
<1>4. QED
  BY <1>1, <1>2, <1>3

LEMMA TypeReceive ==
    ASSUME TypeOK, NEW i \in names,
           \/ Open(i) \/ Lock(i) \/ IgnoreSender(i)
           \/ \E frame \in Frames[i] : Recvfrom(i, frame)
    PROVE  TypeOK'
<1>1. CASE Open(i)
  BY <1>1, FreeAssumption DEF Open, TypeOK, Critical
<1>2. CASE Lock(i)
  BY <1>2, FreeAssumption DEF Lock, TypeOK, Critical
<1>3. CASE IgnoreSender(i)
  BY <1>3 DEF IgnoreSender, TypeOK, Critical
<1>4. CASE \E frame \in Frames[i] : Recvfrom(i, frame)
  BY <1>4 DEF Recvfrom, TypeOK, Critical
<1>5. QED
  BY <1>1, <1>2, <1>3, <1>4

(***************************************************************************)
(* What the steps of the critical section do to the map.                   *)
(***************************************************************************)
LEMMA EntryRecorded ==
    ASSUME TypeOK, NEW i \in names, RecordEntry(i)
    PROVE  /\ aFrame[i].Type \in {"88b5", "88f7"} /\ FromOtherNode(i)
           /\ \/ MacsPerIface' = MacsPerIface /\ i \in DOMAIN MacsPerIface[aFrame[i].Type]
              \/ MacsPerIface' = Entered(aFrame[i].Type, i, newNeighbors)
BY DEF RecordEntry, FromOtherNode

LEMMA TypeRecord ==
    ASSUME TypeOK, NEW i \in names, RecordEntry(i) \/ RecordRemote(i) \/ RecordAnnounce(i)
    PROVE  TypeOK'
<1>1. /\ DOMAIN MacsPerIface' = Ethertypes
      /\ \A type \in Ethertypes : /\ DOMAIN MacsPerIface'[type] \subseteq names
                                  /\ DOMAIN MacsPerIface[type] \subseteq DOMAIN MacsPerIface'[type]
  <2>1. CASE MacsPerIface' = MacsPerIface
    BY <2>1 DEF TypeOK, Ethertypes
  <2>2. ASSUME NEW type \in Ethertypes, NEW entry, MacsPerIface' = Entered(type, i, entry)
        PROVE  /\ DOMAIN MacsPerIface' = Ethertypes
               /\ \A other \in Ethertypes :
                     /\ DOMAIN MacsPerIface'[other] \subseteq names
                     /\ DOMAIN MacsPerIface[other] \subseteq DOMAIN MacsPerIface'[other]
    BY <2>2, EnteredProperties DEF TypeOK, Ethertypes
  <2>3. CASE RecordEntry(i)
    BY <2>1, <2>2, <2>3, EntryRecorded DEF Ethertypes
  <2>4. CASE RecordRemote(i)
    BY <2>2, <2>4 DEF RecordRemote, TypeOK, Ethertypes
  <2>5. CASE RecordAnnounce(i)
    BY <2>1, <2>2, <2>5 DEF RecordAnnounce, Ethertypes
  <2>6. QED
    BY <2>3, <2>4, <2>5
<1>2. CASE RecordEntry(i)
  <2>1. i \in DOMAIN MacsPerIface'[aFrame[i].Type] /\ aFrame[i].Type \in {"88b5", "88f7"}
    BY <1>2, EntryRecorded, EnteredProperties DEF TypeOK, Ethertypes
  <2>2. QED
    BY <1>1, <1>2, <2>1 DEF RecordEntry, TypeOK, Critical, Ethertypes
<1>3. CASE RecordRemote(i)
  BY <1>1, <1>3 DEF RecordRemote, TypeOK, Critical, Ethertypes
<1>4. CASE RecordAnnounce(i)
  BY <1>1, <1>4, FreeAssumption DEF RecordAnnounce, TypeOK, Critical, Ethertypes
<1>5. QED
  BY <1>2, <1>3, <1>4

LEMMA TypeNext == TypeOK /\ [Next]_vars => TypeOK'
<1> SUFFICES ASSUME TypeOK, [Next]_vars
             PROVE  TypeOK'
  OBVIOUS
<1>1. CASE StartPrintLog \/ PrintLog
  BY <1>1 DEF StartPrintLog, PrintLog, TypeOK, Critical
<1>2. CASE \E i \in names : SocketPanics(i) \/ BindToDevicePanics(i)
  BY <1>2, TypeRestart DEF SocketPanics, BindToDevicePanics
<1>3. CASE \E i \in names :
              \/ RecordAllLocal(i) \/ sendProbeForever(i)
              \/ Open(i) \/ Lock(i) \/ RecvFrame(i)
              \/ \E frame \in Frames[i] : Recvfrom(i, frame)
  BY <1>3, TypeMain, TypeReceive, TypeRecord DEF RecvFrame
<1>4. CASE UNCHANGED vars
  BY <1>4 DEF vars, TypeOK, Critical
<1>5. QED
  BY <1>1, <1>2, <1>3, <1>4 DEF Next

(* The variables keep their types, and the receiver in its critical        *)
(* section is the one that holds mu (RecvFrame), for any interfaces.       *)
THEOREM TypeCorrect == Spec => []TypeOK
BY TypeInit, TypeNext, PTL DEF Spec

----------------------------------------------------------------------------
(***************************************************************************)
(* The map and the reports.                                                *)
(***************************************************************************)
LEMMA NewNeighbors ==
    IsNeighbors(newNeighbors) /\ newNeighbors.remote = {}
BY DEF IsNeighbors, newNeighbors

LEMMA MapInit == Init => MapInv
BY DEF Init, MapInv, EntriesOK, LocalRecorded, RecordsForeign, HalfDone, RemotesForeign,
       ReportsComplete, ReportsWhole, Empty, Ethertypes

LEMMA MapRestart ==
    ASSUME Restart
    PROVE  MapInv'
BY DEF Restart, MapInv, EntriesOK, LocalRecorded, RecordsForeign, HalfDone, RemotesForeign,
       ReportsComplete, ReportsWhole, Empty, Ethertypes

LEMMA MapRecordAllLocal ==
    ASSUME TypeOK, MapInv, NEW i \in names, RecordAllLocal(i)
    PROVE  MapInv'
<1>1. /\ MacsPerIface' = Entered("0000", i, newNeighbors) /\ main = "starting"
      /\ pc' = [pc EXCEPT ![i] = "sleep"] /\ UNCHANGED <<main, mu, aFrame, report>>
      /\ pc[i] = "off"
  BY DEF RecordAllLocal
<1>2. /\ DOMAIN MacsPerIface'["0000"] = DOMAIN MacsPerIface["0000"] \cup {i}
      /\ MacsPerIface'["0000"][i] = newNeighbors
      /\ \A j \in DOMAIN MacsPerIface["0000"] :
            j # i => MacsPerIface'["0000"][j] = MacsPerIface["0000"][j]
      /\ MacsPerIface'["88b5"] = MacsPerIface["88b5"]
      /\ MacsPerIface'["88f7"] = MacsPerIface["88f7"]
  BY <1>1, EnteredProperties DEF TypeOK, Ethertypes
<1>3. \A j \in names : IF j = i THEN pc'[j] = "sleep" ELSE pc'[j] = pc[j]
  BY <1>1 DEF TypeOK
<1>4. EntriesOK'
  BY <1>2, NewNeighbors DEF MapInv, EntriesOK, Ethertypes
<1>5. LocalRecorded'
  BY <1>1, <1>2, <1>3 DEF MapInv, LocalRecorded
<1>6. RecordsForeign'
  BY <1>1, <1>3 DEF MapInv, RecordsForeign, FromOtherNode
<1>7. HalfDone'
  BY <1>1, <1>2, <1>3 DEF MapInv, HalfDone, TypeOK
<1>8. RemotesForeign' /\ ReportsComplete' /\ ReportsWhole'
  BY <1>1, <1>2 DEF MapInv, RemotesForeign, ReportsComplete, ReportsWhole
<1>9. QED
  BY <1>4, <1>5, <1>6, <1>7, <1>8 DEF MapInv

LEMMA MapStartPrintLog ==
    ASSUME TypeOK, MapInv, StartPrintLog
    PROVE  MapInv'
BY DEF StartPrintLog, MapInv, EntriesOK, LocalRecorded, RecordsForeign, FromOtherNode,
       HalfDone, RemotesForeign, ReportsComplete, ReportsWhole

(* The printer takes the lock: no receiver is in its critical section.     *)
LEMMA MapPrintLog ==
    ASSUME TypeOK, MapInv, PrintLog
    PROVE  MapInv'
<1>1. /\ main = "running" /\ mu = FREE /\ report' = MacsPerIface
      /\ UNCHANGED <<main, MacsPerIface, pc, aFrame>>
  BY DEF PrintLog
<1>2. \A i \in names : pc[i] # "remote"
  BY <1>1, FreeAssumption DEF TypeOK, Critical
<1>3. ReportsComplete'
  BY <1>1 DEF MapInv, LocalRecorded, ReportsComplete, TypeOK
<1>4. ReportsWhole'
  BY <1>1, <1>2 DEF MapInv, HalfDone, ReportsWhole, TypeOK
<1>5. QED
  BY <1>1, <1>3, <1>4
     DEF MapInv, EntriesOK, LocalRecorded, RecordsForeign, FromOtherNode, HalfDone, RemotesForeign

LEMMA MapReceive ==
    ASSUME TypeOK, MapInv, NEW i \in names,
           \/ sendProbeForever(i) \/ Open(i) \/ Lock(i) \/ IgnoreSender(i)
           \/ \E frame \in Frames[i] : Recvfrom(i, frame)
    PROVE  MapInv'
<1>1. UNCHANGED <<main, MacsPerIface, report>>
  BY DEF sendProbeForever, Open, Lock, IgnoreSender, Recvfrom
<1>2. \A j \in names :
         /\ pc'[j] = "remote" => pc[j] = "remote" /\ aFrame'[j] = aFrame[j]
         /\ pc[j] = "remote" => pc'[j] = "remote"
         /\ pc[j] # "off" <=> pc'[j] # "off"
  BY DEF sendProbeForever, Open, Lock, IgnoreSender, Recvfrom, TypeOK
<1>3. \A type \in {"88b5", "88f7"} : DOMAIN MacsPerIface[type] \subseteq names
  BY DEF TypeOK
<1>4. LocalRecorded'
  BY <1>1, <1>2 DEF MapInv, LocalRecorded
<1>5. RecordsForeign'
  <2>1. SUFFICES ASSUME NEW j \in names, pc'[j] = "remote" PROVE FromOtherNode(j)'
    BY DEF RecordsForeign
  <2>2. FromOtherNode(j) /\ aFrame'[j] = aFrame[j]
    BY <1>2, <2>1 DEF MapInv, RecordsForeign
  <2>3. QED
    BY <2>2 DEF FromOtherNode
<1>6. HalfDone'
  <2>1. SUFFICES ASSUME NEW type \in {"88b5", "88f7"}, NEW j \in DOMAIN MacsPerIface[type],
                        MacsPerIface[type][j].remote = {}
                 PROVE  pc'[j] = "remote" /\ aFrame'[j].Type = type
    BY <1>1 DEF HalfDone
  <2>2. pc[j] = "remote" /\ aFrame[j].Type = type /\ j \in names
    BY <1>3, <2>1 DEF MapInv, HalfDone
  <2>3. QED
    BY <1>2, <2>2
<1>7. QED
  BY <1>1, <1>4, <1>5, <1>6 DEF MapInv, EntriesOK, RemotesForeign, ReportsComplete, ReportsWhole

LEMMA MapRecordEntry ==
    ASSUME TypeOK, MapInv, NEW i \in names, RecordEntry(i)
    PROVE  MapInv'
<1> DEFINE type == aFrame[i].Type
<1>1. /\ pc[i] = "record" /\ FromOtherNode(i) /\ type \in {"88b5", "88f7"}
      /\ pc' = [pc EXCEPT ![i] = "remote"] /\ UNCHANGED <<main, aFrame, report>>
  BY EntryRecorded DEF RecordEntry
<1>2. \A j \in names : IF j = i THEN pc'[j] = "remote" ELSE pc'[j] = pc[j]
  BY <1>1 DEF TypeOK
<1>3. LocalRecorded' /\ RecordsForeign' /\ ReportsComplete' /\ ReportsWhole'
  <2>1. MacsPerIface'["0000"] = MacsPerIface["0000"]
    BY <1>1, EntryRecorded, EnteredProperties DEF TypeOK, Ethertypes
  <2>2. QED
    BY <1>1, <1>2, <2>1
       DEF MapInv, LocalRecorded, RecordsForeign, FromOtherNode, ReportsComplete, ReportsWhole
<1>4. CASE MacsPerIface' = MacsPerIface
  BY <1>1, <1>2, <1>3, <1>4 DEF MapInv, EntriesOK, HalfDone, RemotesForeign, TypeOK
<1>5. CASE MacsPerIface' = Entered(type, i, newNeighbors)
  <2>1. /\ DOMAIN MacsPerIface'[type] = DOMAIN MacsPerIface[type] \cup {i}
        /\ MacsPerIface'[type][i] = newNeighbors
        /\ \A j \in DOMAIN MacsPerIface[type] :
              j # i => MacsPerIface'[type][j] = MacsPerIface[type][j]
        /\ \A other \in Ethertypes : other # type => MacsPerIface'[other] = MacsPerIface[other]
    BY <1>1, <1>5, EnteredProperties DEF TypeOK, Ethertypes
  <2>2. EntriesOK'
    BY <1>1, <2>1, NewNeighbors DEF MapInv, EntriesOK, Ethertypes
  <2>3. HalfDone'
    BY <1>1, <1>2, <2>1 DEF MapInv, HalfDone, TypeOK, Ethertypes
  <2>4. RemotesForeign'
    BY <1>1, <2>1, NewNeighbors DEF MapInv, RemotesForeign, Ethertypes
  <2>5. QED
    BY <1>3, <2>2, <2>3, <2>4 DEF MapInv
<1>6. QED
  BY <1>4, <1>5, EntryRecorded

LEMMA MapRecordRemote ==
    ASSUME TypeOK, MapInv, NEW i \in names, RecordRemote(i)
    PROVE  MapInv'
<1> DEFINE type == aFrame[i].Type
           old == MacsPerIface[type][i]
           new == [old EXCEPT !.remote = @ \cup {aFrame[i].MacSa}]
<1>1. /\ pc[i] = "remote" /\ MacsPerIface' = Entered(type, i, new)
      /\ pc' = [pc EXCEPT ![i] = "announce"] /\ UNCHANGED <<main, aFrame, report>>
  BY DEF RecordRemote
<1>2. type \in {"88b5", "88f7"} /\ i \in DOMAIN MacsPerIface[type] /\ aFrame[i] \in Frames[i]
  BY <1>1 DEF TypeOK, Critical
<1>3. aFrame[i].MacSa \notin macsExist
  BY <1>1 DEF MapInv, RecordsForeign, FromOtherNode, Foreign
<1>4. IsNeighbors(new) /\ new.remote = old.remote \cup {aFrame[i].MacSa}
  BY <1>2 DEF MapInv, EntriesOK, IsNeighbors, Ethertypes
<1> HIDE DEF new
<1>5. /\ DOMAIN MacsPerIface'[type] = DOMAIN MacsPerIface[type] \cup {i}
      /\ MacsPerIface'[type][i] = new
      /\ \A j \in DOMAIN MacsPerIface[type] :
            j # i => MacsPerIface'[type][j] = MacsPerIface[type][j]
      /\ \A other \in Ethertypes : other # type => MacsPerIface'[other] = MacsPerIface[other]
  BY <1>1, <1>2, EnteredProperties DEF TypeOK, Ethertypes
<1>6. \A j \in names : IF j = i THEN pc'[j] = "announce" ELSE pc'[j] = pc[j]
  BY <1>1 DEF TypeOK
<1>7. EntriesOK'
  BY <1>2, <1>4, <1>5 DEF MapInv, EntriesOK, Ethertypes
<1>8. LocalRecorded' /\ RecordsForeign' /\ ReportsComplete' /\ ReportsWhole'
  BY <1>1, <1>2, <1>5, <1>6
     DEF MapInv, LocalRecorded, RecordsForeign, FromOtherNode, ReportsComplete, ReportsWhole, Ethertypes
<1>9. HalfDone'
  <2>1. SUFFICES ASSUME NEW other \in {"88b5", "88f7"}, NEW j \in DOMAIN MacsPerIface'[other],
                        MacsPerIface'[other][j].remote = {}
                 PROVE  pc'[j] = "remote" /\ aFrame'[j].Type = other
    BY DEF HalfDone
  <2>2. ~ (other = type /\ j = i)
    BY <1>4, <1>5, <2>1
  <2>3. j \in DOMAIN MacsPerIface[other] /\ MacsPerIface[other][j].remote = {}
    BY <1>2, <1>5, <2>1, <2>2 DEF Ethertypes
  <2>4. j \in names /\ pc[j] = "remote" /\ aFrame[j].Type = other
    BY <2>3 DEF MapInv, HalfDone, TypeOK
  <2>5. QED
    BY <1>1, <1>6, <2>2, <2>4
<1>10. RemotesForeign'
  BY <1>2, <1>3, <1>4, <1>5 DEF MapInv, RemotesForeign, Ethertypes
<1>11. QED
  BY <1>7, <1>8, <1>9, <1>10 DEF MapInv

LEMMA MapRecordAnnounce ==
    ASSUME TypeOK, MapInv, NEW i \in names, RecordAnnounce(i)
    PROVE  MapInv'
<1> DEFINE old == MacsPerIface["88f7"][i]
           new == [old EXCEPT !.announces = Announced(@, aFrame[i].announce)]
<1>1. /\ pc[i] = "announce" /\ pc' = [pc EXCEPT ![i] = "recv"]
      /\ aFrame' = [aFrame EXCEPT ![i] = NIL] /\ UNCHANGED <<main, report>>
  BY DEF RecordAnnounce
<1>2. \A j \in names : IF j = i THEN pc'[j] = "recv"
                                 ELSE pc'[j] = pc[j] /\ aFrame'[j] = aFrame[j]
  BY <1>1 DEF TypeOK
<1>3. /\ \A type \in Ethertypes : DOMAIN MacsPerIface'[type] = DOMAIN MacsPerIface[type]
      /\ \A type \in Ethertypes : \A j \in DOMAIN MacsPerIface[type] :
            /\ IsNeighbors(MacsPerIface'[type][j])
            /\ MacsPerIface'[type][j].remote = MacsPerIface[type][j].remote
  <2>1. CASE MacsPerIface' = MacsPerIface
    BY <2>1 DEF MapInv, EntriesOK
  <2>2. CASE i \in DOMAIN MacsPerIface["88f7"] /\ MacsPerIface' = Entered("88f7", i, new)
    <3>1. IsNeighbors(new) /\ new.remote = old.remote
      BY <2>2 DEF MapInv, EntriesOK, IsNeighbors, Ethertypes
    <3> HIDE DEF new
    <3>2. /\ DOMAIN MacsPerIface'["88f7"] = DOMAIN MacsPerIface["88f7"]
          /\ MacsPerIface'["88f7"][i] = new
          /\ \A j \in DOMAIN MacsPerIface["88f7"] :
                j # i => MacsPerIface'["88f7"][j] = MacsPerIface["88f7"][j]
          /\ \A other \in Ethertypes :
                other # "88f7" => MacsPerIface'[other] = MacsPerIface[other]
      <4>1. DOMAIN MacsPerIface = Ethertypes /\ "88f7" \in Ethertypes
        BY DEF TypeOK, Ethertypes
      <4>2. /\ DOMAIN MacsPerIface'["88f7"] = DOMAIN MacsPerIface["88f7"] \cup {i}
            /\ MacsPerIface'["88f7"][i] = new
            /\ \A j \in DOMAIN MacsPerIface["88f7"] :
                  j # i => MacsPerIface'["88f7"][j] = MacsPerIface["88f7"][j]
            /\ \A other \in Ethertypes :
                  other # "88f7" => MacsPerIface'[other] = MacsPerIface[other]
        BY <2>2, <4>1, EnteredProperties
      <4>3. QED
        BY <2>2, <4>2
    <3>3. QED
      BY <3>1, <3>2 DEF MapInv, EntriesOK, Ethertypes
  <2>3. QED
    BY <2>1, <2>2 DEF RecordAnnounce
<1>4. EntriesOK'
  BY <1>3 DEF EntriesOK
<1>5. LocalRecorded' /\ RecordsForeign' /\ ReportsComplete' /\ ReportsWhole'
  BY <1>1, <1>2, <1>3
     DEF MapInv, LocalRecorded, RecordsForeign, FromOtherNode, ReportsComplete, ReportsWhole, Ethertypes
<1>6. HalfDone'
  <2>1. SUFFICES ASSUME NEW type \in {"88b5", "88f7"}, NEW j \in DOMAIN MacsPerIface[type],
                        MacsPerIface[type][j].remote = {}
                 PROVE  pc'[j] = "remote" /\ aFrame'[j].Type = type
    BY <1>3 DEF HalfDone, Ethertypes
  <2>2. pc[j] = "remote" /\ aFrame[j].Type = type /\ j \in names
    BY <2>1 DEF MapInv, HalfDone, TypeOK
  <2>3. QED
    BY <1>1, <1>2, <2>2
<1>7. RemotesForeign'
  BY <1>3 DEF MapInv, RemotesForeign, Ethertypes
<1>8. QED
  BY <1>4, <1>5, <1>6, <1>7 DEF MapInv

LEMMA MapNext == TypeOK /\ MapInv /\ [Next]_vars => MapInv'
<1> SUFFICES ASSUME TypeOK, MapInv, [Next]_vars
             PROVE  MapInv'
  OBVIOUS
<1>1. CASE StartPrintLog \/ PrintLog
  BY <1>1, MapStartPrintLog, MapPrintLog
<1>2. CASE \E i \in names : SocketPanics(i) \/ BindToDevicePanics(i)
  BY <1>2, MapRestart DEF SocketPanics, BindToDevicePanics
<1>3. CASE \E i \in names :
              \/ RecordAllLocal(i) \/ sendProbeForever(i)
              \/ Open(i) \/ Lock(i) \/ RecvFrame(i)
              \/ \E frame \in Frames[i] : Recvfrom(i, frame)
  BY <1>3, MapRecordAllLocal, MapReceive, MapRecordEntry, MapRecordRemote, MapRecordAnnounce
     DEF RecvFrame
<1>4. CASE UNCHANGED vars
  BY <1>4 DEF vars, MapInv, EntriesOK, LocalRecorded, RecordsForeign, FromOtherNode, HalfDone,
              RemotesForeign, ReportsComplete, ReportsWhole
<1>5. QED
  BY <1>1, <1>2, <1>3, <1>4 DEF Next

LEMMA MapAlways == Spec => [](TypeOK /\ MapInv)
BY TypeInit, TypeNext, MapInit, MapNext, PTL DEF Spec

(* Every report printed names all interfaces of the node (main records     *)
(* them before it starts PrintLog).                                        *)
THEOREM ReportsCompleteCorrect == Spec => []ReportsComplete
<1>1. MapInv => ReportsComplete
  BY DEF MapInv
<1>2. QED
  BY <1>1, MapAlways, PTL

(* No report shows an entry whose first neighbour is still being recorded  *)
(* (the critical section of RecvFrame, and PrintLog under the same lock).  *)
THEOREM ReportsWholeCorrect == Spec => []ReportsWhole
<1>1. MapInv => ReportsWhole
  BY DEF MapInv
<1>2. QED
  BY <1>1, MapAlways, PTL

(* Neighbours recorded for an interface are addresses of other nodes seen  *)
(* on that interface (RecvFrame).                                          *)
THEOREM RemotesForeignCorrect == Spec => []RemotesForeign
<1>1. MapInv => RemotesForeign
  BY DEF MapInv
<1>2. QED
  BY <1>1, MapAlways, PTL

----------------------------------------------------------------------------
(***************************************************************************)
(* What a step of the daemon does to what was heard.                       *)
(***************************************************************************)
Hears(map, type, i, mac) == i \in DOMAIN map[type] /\ mac \in map[type][i].remote

Probed == {"88b5", "88f7"}

\* The map grows: no entry, sender or grandmaster is lost.
Grows(old, new) ==
    \A type \in Ethertypes : \A i \in DOMAIN old[type] :
        /\ i \in DOMAIN new[type]
        /\ old[type][i].remote \subseteq new[type][i].remote
        /\ DOMAIN old[type][i].announces \subseteq DOMAIN new[type][i].announces

\* The map is as before but for one entry.
EntryOnly(type, i, entry) ==
    /\ DOMAIN MacsPerIface' = Ethertypes
    /\ DOMAIN MacsPerIface'[type] = DOMAIN MacsPerIface[type] \cup {i}
    /\ MacsPerIface'[type][i] = entry
    /\ \A j \in DOMAIN MacsPerIface[type] :
          j # i => MacsPerIface'[type][j] = MacsPerIface[type][j]
    /\ \A other \in Ethertypes : other # type => MacsPerIface'[other] = MacsPerIface[other]

LEMMA EnteredOnly ==
    ASSUME TypeOK, NEW type \in Ethertypes, NEW i, NEW entry,
           MacsPerIface' = Entered(type, i, entry)
    PROVE  EntryOnly(type, i, entry)
BY EnteredProperties DEF EntryOnly, TypeOK, Ethertypes

LEMMA EntryGrows ==
    ASSUME TypeOK, NEW type \in Ethertypes, NEW i, NEW entry, EntryOnly(type, i, entry),
           i \in DOMAIN MacsPerIface[type] =>
               /\ MacsPerIface[type][i].remote \subseteq entry.remote
               /\ DOMAIN MacsPerIface[type][i].announces \subseteq DOMAIN entry.announces
    PROVE  Grows(MacsPerIface, MacsPerIface')
BY DEF EntryOnly, Grows

(***************************************************************************)
(* What each step of a critical section does to the entry it works on.     *)
(***************************************************************************)
LEMMA RecordEntryEffect ==
    ASSUME TypeOK, MapInv, NEW i \in names, RecordEntry(i)
    PROVE  \/ MacsPerIface' = MacsPerIface
           \/ \E type \in Probed : /\ EntryOnly(type, i, newNeighbors)
                                   /\ i \notin DOMAIN MacsPerIface[type]
<1>1. aFrame[i].Type \in Probed
  BY EntryRecorded DEF Probed
<1>2. CASE i \in DOMAIN MacsPerIface[aFrame[i].Type]
  BY <1>2 DEF RecordEntry
<1>3. CASE i \notin DOMAIN MacsPerIface[aFrame[i].Type]
  <2>1. MacsPerIface' = Entered(aFrame[i].Type, i, newNeighbors)
    BY <1>3 DEF RecordEntry
  <2> QED BY <1>1, <1>3, <2>1, EnteredOnly DEF Probed, Ethertypes
<1> QED BY <1>2, <1>3

LEMMA RecordRemoteEffect ==
    ASSUME TypeOK, MapInv, NEW i \in names, RecordRemote(i)
    PROVE  \E entry : /\ EntryOnly(aFrame[i].Type, i, entry)
                      /\ entry.remote = MacsPerIface[aFrame[i].Type][i].remote \cup {aFrame[i].MacSa}
                      /\ entry.announces = MacsPerIface[aFrame[i].Type][i].announces
<1> DEFINE type == aFrame[i].Type
           old == MacsPerIface[type][i]
           new == [old EXCEPT !.remote = @ \cup {aFrame[i].MacSa}]
<1>1. type \in Probed /\ i \in DOMAIN MacsPerIface[type]
  BY DEF RecordRemote, TypeOK, Probed
<1>2. DOMAIN old = {"remote", "announces"}
  BY <1>1 DEF MapInv, EntriesOK, IsNeighbors, Probed, Ethertypes
<1>3. new.remote = old.remote \cup {aFrame[i].MacSa} /\ new.announces = old.announces
  BY <1>2
<1>4. MacsPerIface' = Entered(type, i, new)
  BY DEF RecordRemote
<1> HIDE DEF new
<1>5. EntryOnly(type, i, new)
  BY <1>1, <1>4, EnteredOnly DEF Probed, Ethertypes
<1> QED BY <1>3, <1>5

LEMMA RecordAnnounceEffect ==
    ASSUME TypeOK, MapInv, NEW i \in names, RecordAnnounce(i)
    PROVE  \/ /\ MacsPerIface' = MacsPerIface
              /\ aFrame[i].announce = NIL \/ i \notin DOMAIN MacsPerIface["88f7"]
           \/ /\ aFrame[i].announce # NIL /\ i \in DOMAIN MacsPerIface["88f7"]
              /\ \E entry :
                    /\ EntryOnly("88f7", i, entry)
                    /\ entry.remote = MacsPerIface["88f7"][i].remote
                    /\ entry.announces = Put(MacsPerIface["88f7"][i].announces,
                                             aFrame[i].announce.gm, aFrame[i].announce.data)
<1> DEFINE old == MacsPerIface["88f7"][i]
           new == [old EXCEPT !.announces = Announced(@, aFrame[i].announce)]
<1>1. CASE aFrame[i].announce = NIL \/ i \notin DOMAIN MacsPerIface["88f7"]
  BY <1>1 DEF RecordAnnounce
<1>2. CASE aFrame[i].announce # NIL /\ i \in DOMAIN MacsPerIface["88f7"]
  <2>1. DOMAIN old = {"remote", "announces"}
    BY <1>2 DEF MapInv, EntriesOK, IsNeighbors, Ethertypes
  <2>2. /\ new.remote = old.remote
        /\ new.announces = Put(old.announces, aFrame[i].announce.gm, aFrame[i].announce.data)
    BY <2>1 DEF Announced
  <2>3. MacsPerIface' = Entered("88f7", i, new)
    BY <1>2 DEF RecordAnnounce
  <2> HIDE DEF new
  <2>4. EntryOnly("88f7", i, new)
    BY <2>3, EnteredOnly DEF Ethertypes
  <2> QED BY <1>2, <2>2, <2>4
<1> QED BY <1>1, <1>2

----------------------------------------------------------------------------
(***************************************************************************)
(* Reports grow, because the map does and a report is a copy of it.        *)
(***************************************************************************)
ReportBelow ==
    report # NIL => main = "running" /\ DOMAIN report = Ethertypes /\ Grows(report, MacsPerIface)

LEMMA GrowsOn ==
    ASSUME NEW f, NEW g, NEW h, Grows(f, g), Grows(g, h)
    PROVE  Grows(f, h)
BY DEF Grows

LEMMA RecordGrows ==
    ASSUME TypeOK, MapInv, NEW i \in names, RecvFrame(i)
    PROVE  Grows(MacsPerIface, MacsPerIface')
<1>1. CASE MacsPerIface' = MacsPerIface
  BY <1>1 DEF Grows
<1>2. CASE RecordEntry(i)
  BY <1>1, <1>2, RecordEntryEffect, EntryGrows DEF Probed, Ethertypes
<1>3. CASE RecordRemote(i)
  <2>1. aFrame[i].Type \in Ethertypes
    BY <1>3 DEF RecordRemote, TypeOK, Ethertypes
  <2> QED BY <1>3, <2>1, RecordRemoteEffect, EntryGrows
<1>4. CASE IgnoreSender(i)
  BY <1>1, <1>4 DEF IgnoreSender
<1>5. CASE RecordAnnounce(i)
  <2>1. ASSUME NEW f, NEW x, NEW value
        PROVE  DOMAIN f \subseteq DOMAIN Put(f, x, value)
    BY DEF Put
  <2> QED BY <1>1, <1>5, <2>1, RecordAnnounceEffect, EntryGrows DEF Ethertypes
<1> QED BY <1>2, <1>3, <1>4, <1>5 DEF RecvFrame

\* The steps that touch neither map nor report.
Elsewhere(i) ==
    \/ sendProbeForever(i) \/ Open(i) \/ Lock(i) \/ \E frame \in Frames[i] : Recvfrom(i, frame)

LEMMA BelowStep ==
    ASSUME TypeOK, MapInv, ReportBelow, [Next]_vars
    PROVE  /\ ReportBelow'
           /\ report # NIL /\ report' # NIL => Grows(report, report')
<1>1. ASSUME UNCHANGED <<main, report>>, Grows(MacsPerIface, MacsPerIface')
      PROVE  /\ ReportBelow'
             /\ report # NIL /\ report' # NIL => Grows(report, report')
  <2>1. Grows(report, report)
    BY DEF Grows
  <2> QED BY <1>1, <2>1, GrowsOn DEF ReportBelow
<1>2. Grows(MacsPerIface, MacsPerIface)
  BY DEF Grows
<1>3. CASE StartPrintLog
  BY <1>2, <1>3 DEF StartPrintLog, ReportBelow, Grows
<1>4. CASE PrintLog
  BY <1>2, <1>4 DEF PrintLog, ReportBelow, Grows, TypeOK, Ethertypes
<1>5. CASE \E i \in names : SocketPanics(i) \/ BindToDevicePanics(i)
  BY <1>5 DEF SocketPanics, BindToDevicePanics, Restart, ReportBelow
<1>6. CASE \E i \in names : RecordAllLocal(i)
  BY <1>6 DEF RecordAllLocal, ReportBelow
<1>7. CASE \E i \in names : RecvFrame(i)
  <2>1. UNCHANGED <<main, report>>
    BY <1>7 DEF RecvFrame, RecordEntry, RecordRemote, IgnoreSender, RecordAnnounce
  <2> QED BY <1>1, <1>7, <2>1, RecordGrows
<1>8. CASE \E i \in names : Elsewhere(i)
  BY <1>1, <1>2, <1>8 DEF Elsewhere, sendProbeForever, Open, Lock, Recvfrom
<1>9. CASE UNCHANGED vars
  BY <1>1, <1>2, <1>9 DEF vars
<1> QED BY <1>3, <1>4, <1>5, <1>6, <1>7, <1>8, <1>9 DEF Next, Elsewhere

LEMMA BelowAlways == Spec => [](TypeOK /\ MapInv /\ ReportBelow)
<1>1. Init => ReportBelow
  BY DEF Init, ReportBelow
<1>2. TypeOK /\ MapInv /\ ReportBelow /\ [Next]_vars => ReportBelow'
  BY BelowStep
<1> QED BY <1>1, <1>2, MapAlways, PTL DEF Spec

(* A report shows all that the one before showed, since PrintLog prints    *)
(* the whole map and RecvFrame only adds to it.                            *)
THEOREM ReportsGrowCorrect == Spec => ReportsGrow
<1>1. TypeOK /\ MapInv /\ ReportBelow /\ [Next]_vars =>
        [report # NIL /\ report' # NIL =>
          \A type \in DOMAIN report : \A i \in DOMAIN report[type] :
              /\ i \in DOMAIN report'[type]
              /\ report[type][i].remote \subseteq report'[type][i].remote
              /\ DOMAIN report[type][i].announces \subseteq DOMAIN report'[type][i].announces]_vars
  BY BelowStep DEF ReportBelow, Grows
<1> QED BY <1>1, BelowAlways, PTL DEF Spec, ReportsGrow

----------------------------------------------------------------------------
(***************************************************************************)
(* Announces.  Between Recvfrom and RecordAnnounce the announce a receiver *)
(* works on is the last one heard and not kept yet; all others are kept.   *)
(***************************************************************************)
Pending(i) == pc[i] \in {"lock"} \cup Critical /\ aFrame[i].announce # NIL

\* The announces kept for i are right, but for those of the grandmasters in gms.
KeptBut(i, gms) ==
    /\ others[i] \subseteq DOMAIN AnnouncesOf(i) \cup gms
    /\ \A gm \in DOMAIN AnnouncesOf(i) :
          gm \in DOMAIN heard[i] /\ (gm \notin gms => AnnouncesOf(i)[gm] = heard[i][gm])

PendingKept(i) ==
    LET announce == aFrame[i].announce
    IN  /\ KeptBut(i, {announce.gm})
        /\ announce.gm \in DOMAIN heard[i] /\ heard[i][announce.gm] = announce.data
        /\ ~ Foreign(aFrame[i]) => others[i] \subseteq DOMAIN AnnouncesOf(i)
        /\ Foreign(aFrame[i]) /\ pc[i] = "announce" => i \in DOMAIN MacsPerIface["88f7"]

Kept(i) == IF Pending(i) THEN PendingKept(i) ELSE KeptBut(i, {})

AnnounceInv ==
    /\ DOMAIN heard = names /\ DOMAIN others = names
    /\ \A i \in names : Kept(i)

\* Nothing that Kept(j) looks at has changed.
Aside(j) ==
    /\ pc'[j] = pc[j] /\ aFrame'[j] = aFrame[j]
    /\ heard'[j] = heard[j] /\ others'[j] = others[j]
    /\ AnnouncesOf(j)' = AnnouncesOf(j)
    /\ j \in DOMAIN MacsPerIface["88f7"] => j \in DOMAIN MacsPerIface'["88f7"]

LEMMA AsideKept ==
    ASSUME NEW j \in names, Kept(j), Aside(j)
    PROVE  Kept(j)'
BY DEF Aside, Kept, Pending, PendingKept, KeptBut, Foreign

LEMMA OtherEntryAside ==
    ASSUME TypeOK, NEW type \in Ethertypes, NEW i \in names, NEW entry,
           EntryOnly(type, i, entry), NEW j \in names, j # i \/ type # "88f7"
    PROVE  /\ AnnouncesOf(j)' = AnnouncesOf(j)
           /\ j \in DOMAIN MacsPerIface["88f7"] => j \in DOMAIN MacsPerIface'["88f7"]
<1>1. CASE type # "88f7"
  BY <1>1 DEF EntryOnly, AnnouncesOf, Ethertypes
<1>2. CASE type = "88f7" /\ j # i
  BY <1>2 DEF EntryOnly, AnnouncesOf, Ethertypes
<1> QED BY <1>1, <1>2

LEMMA AnnounceRecvfrom ==
    ASSUME TypeOK, AnnounceInv, NEW i \in names, NEW frame \in Frames[i], Recvfrom(i, frame)
    PROVE  AnnounceInv'
<1>1. /\ pc[i] = "recv" /\ pc' = [pc EXCEPT ![i] = "lock"]
      /\ aFrame' = [aFrame EXCEPT ![i] = frame] /\ UNCHANGED MacsPerIface
  BY DEF Recvfrom
<1>2. /\ DOMAIN heard' = names /\ DOMAIN others' = names
      /\ \A j \in names : j # i => heard'[j] = heard[j] /\ others'[j] = others[j]
  BY DEF Recvfrom, AnnounceInv
<1>3. /\ \A j \in names : AnnouncesOf(j)' = AnnouncesOf(j)
      /\ pc'[i] = "lock" /\ aFrame'[i] = frame
      /\ \A j \in names : j # i => pc'[j] = pc[j] /\ aFrame'[j] = aFrame[j]
  BY <1>1 DEF TypeOK, AnnouncesOf
<1>4. KeptBut(i, {})
  BY <1>1 DEF AnnounceInv, Kept, Pending, Critical
<1>5. ASSUME frame.announce = NIL
      PROVE  Kept(i)'
  <2>1. heard'[i] = heard[i] /\ others'[i] = others[i]
    BY <1>5 DEF Recvfrom
  <2>2. KeptBut(i, {})'
    BY <1>3, <1>4, <2>1 DEF KeptBut
  <2> QED BY <1>3, <1>5, <2>2 DEF Kept, Pending
<1>6. ASSUME frame.announce # NIL
      PROVE  Kept(i)'
  <2>1. /\ heard'[i] = Put(heard[i], frame.announce.gm, frame.announce.data)
        /\ others'[i] = IF Foreign(frame) THEN others[i] \cup {frame.announce.gm} ELSE others[i]
    BY <1>6 DEF Recvfrom, AnnounceInv
  <2>2. /\ DOMAIN heard'[i] = DOMAIN heard[i] \cup {frame.announce.gm}
        /\ heard'[i][frame.announce.gm] = frame.announce.data
        /\ \A gm \in DOMAIN heard[i] : gm # frame.announce.gm => heard'[i][gm] = heard[i][gm]
    BY <2>1 DEF Put
  <2>3. others'[i] \subseteq others[i] \cup {frame.announce.gm}
        /\ (~ Foreign(frame) => others'[i] = others[i])
    BY <2>1
  <2>4. /\ others'[i] \subseteq DOMAIN AnnouncesOf(i)' \cup {frame.announce.gm}
        /\ \A gm \in DOMAIN AnnouncesOf(i)' :
              gm \in DOMAIN heard'[i]
              /\ (gm \notin {frame.announce.gm} => AnnouncesOf(i)'[gm] = heard'[i][gm])
        /\ ~ Foreign(frame) => others'[i] \subseteq DOMAIN AnnouncesOf(i)'
    BY <1>3, <1>4, <2>2, <2>3 DEF KeptBut
  <2>5. PendingKept(i)'
    BY <1>3, <2>2, <2>4 DEF PendingKept, KeptBut, Foreign
  <2> QED BY <1>3, <1>6, <2>5 DEF Kept, Pending
<1>7. ASSUME NEW j \in names, j # i
      PROVE  Kept(j)'
  BY <1>1, <1>2, <1>3, <1>7, AsideKept DEF AnnounceInv, Aside
<1>8. Kept(i)'
  BY <1>5, <1>6
<1> QED BY <1>2, <1>7, <1>8 DEF AnnounceInv

LEMMA AnnounceRecord ==
    ASSUME TypeOK, MapInv, AnnounceInv, NEW i \in names,
           RecordEntry(i) \/ RecordRemote(i) \/ IgnoreSender(i)
    PROVE  AnnounceInv'
<1>1. /\ UNCHANGED <<aFrame, heard, others>>
      /\ \A j \in names : j # i => pc'[j] = pc[j]
      /\ pc[i] \in Critical /\ pc'[i] \in Critical
      /\ pc'[i] = "announce" => ~ RecordEntry(i)
  BY DEF RecordEntry, RecordRemote, IgnoreSender, TypeOK, Critical
<1>2. /\ \A j \in names : AnnouncesOf(j)' = AnnouncesOf(j)
      /\ \A j \in names : j \in DOMAIN MacsPerIface["88f7"] => j \in DOMAIN MacsPerIface'["88f7"]
  <2>1. CASE MacsPerIface' = MacsPerIface
    BY <2>1 DEF AnnouncesOf
  <2>2. ASSUME NEW type \in Probed, EntryOnly(type, i, newNeighbors),
               i \notin DOMAIN MacsPerIface[type]
        PROVE  /\ \A j \in names : AnnouncesOf(j)' = AnnouncesOf(j)
               /\ \A j \in names : j \in DOMAIN MacsPerIface["88f7"] =>
                                      j \in DOMAIN MacsPerIface'["88f7"]
    <3>1. type = "88f7" => AnnouncesOf(i) = Empty /\ AnnouncesOf(i)' = Empty
      BY <2>2 DEF AnnouncesOf, EntryOnly, newNeighbors
    <3> QED BY <2>2, <3>1, OtherEntryAside DEF Probed, Ethertypes
  <2>3. CASE RecordEntry(i)
    BY <2>1, <2>2, <2>3, RecordEntryEffect
  <2>4. CASE RecordRemote(i)
    <3> DEFINE type == aFrame[i].Type
    <3>1. PICK entry : /\ EntryOnly(type, i, entry)
                       /\ entry.announces = MacsPerIface[type][i].announces
      BY <2>4, RecordRemoteEffect
    <3>2. type \in Probed /\ i \in DOMAIN MacsPerIface[type]
      BY <2>4 DEF RecordRemote, TypeOK, Probed
    <3> HIDE DEF type
    <3>3. type = "88f7" => AnnouncesOf(i)' = AnnouncesOf(i) /\ i \in DOMAIN MacsPerIface'["88f7"]
      BY <3>1, <3>2 DEF AnnouncesOf, EntryOnly
    <3> QED BY <3>1, <3>2, <3>3, OtherEntryAside DEF Probed, Ethertypes
  <2>5. CASE IgnoreSender(i)
    BY <2>1, <2>5 DEF IgnoreSender
  <2> QED BY <2>3, <2>4, <2>5
<1>3. ASSUME NEW j \in names, j # i
      PROVE  Kept(j)'
  BY <1>1, <1>2, <1>3, AsideKept DEF AnnounceInv, Aside
<1>4. ASSUME ~ Pending(i)
      PROVE  Kept(i)'
  BY <1>1, <1>2, <1>4 DEF AnnounceInv, Kept, KeptBut, Pending
<1>5. ASSUME Pending(i)
      PROVE  Kept(i)'
  <2>1. aFrame[i].announce # NIL /\ aFrame[i] \in Frames[i] /\ aFrame[i].Type = "88f7"
    BY <1>1, <1>5, FramesAssumption DEF Pending, TypeOK
  <2>2. PendingKept(i)
    BY <1>5 DEF AnnounceInv, Kept
  <2>3. ASSUME Foreign(aFrame[i]), pc'[i] = "announce"
        PROVE  i \in DOMAIN MacsPerIface'["88f7"]
    <3>1. ~ IgnoreSender(i)
      BY <2>1, <2>3 DEF IgnoreSender, FromOtherNode
    <3>2. RecordRemote(i)
      BY <1>1, <2>3, <3>1
    <3> QED BY <1>2, <2>1, <3>2 DEF RecordRemote, TypeOK
  <2>4. PendingKept(i)'
    BY <1>1, <1>2, <2>2, <2>3 DEF PendingKept, KeptBut, Foreign
  <2>5. Pending(i)'
    BY <1>1, <2>1 DEF Pending
  <2> QED BY <2>4, <2>5 DEF Kept
<1>6. Kept(i)'
  BY <1>4, <1>5
<1> QED BY <1>1, <1>3, <1>6 DEF AnnounceInv

LEMMA AnnounceRecordAnnounce ==
    ASSUME TypeOK, MapInv, AnnounceInv, NEW i \in names, RecordAnnounce(i)
    PROVE  AnnounceInv'
<1> DEFINE announce == aFrame[i].announce
<1>1. /\ UNCHANGED <<heard, others>> /\ pc[i] = "announce" /\ pc'[i] = "recv"
      /\ \A j \in names : j # i => pc'[j] = pc[j] /\ aFrame'[j] = aFrame[j]
  BY DEF RecordAnnounce, TypeOK
<1>2. ASSUME NEW j \in names, j # i
      PROVE  Kept(j)'
  <2>1. /\ AnnouncesOf(j)' = AnnouncesOf(j)
        /\ j \in DOMAIN MacsPerIface["88f7"] => j \in DOMAIN MacsPerIface'["88f7"]
    <3>1. CASE MacsPerIface' = MacsPerIface
      BY <3>1 DEF AnnouncesOf
    <3>2. CASE \E entry : EntryOnly("88f7", i, entry)
      BY <1>2, <3>2, OtherEntryAside DEF Ethertypes
    <3> QED BY <3>1, <3>2, RecordAnnounceEffect
  <2> QED BY <1>1, <1>2, <2>1, AsideKept DEF AnnounceInv, Aside
<1>3. KeptBut(i, {})'
  <2>1. CASE announce = NIL
    <3>1. MacsPerIface' = MacsPerIface
      BY <2>1, RecordAnnounceEffect
    <3>2. KeptBut(i, {})
      BY <2>1 DEF AnnounceInv, Kept, Pending
    <3> QED BY <1>1, <3>1, <3>2 DEF KeptBut, AnnouncesOf
  <2>2. CASE announce # NIL
    <3>1. PendingKept(i)
      BY <1>1, <2>2 DEF AnnounceInv, Kept, Pending, Critical
    <3>2. CASE i \notin DOMAIN MacsPerIface["88f7"]
      <4>1. MacsPerIface' = MacsPerIface
        BY <3>2, RecordAnnounceEffect
      <4>2. AnnouncesOf(i) = Empty /\ AnnouncesOf(i)' = Empty
        BY <3>2, <4>1 DEF AnnouncesOf
      <4>3. others[i] = {}
        BY <1>1, <3>1, <3>2, <4>2 DEF PendingKept, Empty
      <4> QED BY <1>1, <4>2, <4>3 DEF KeptBut, Empty
    <3>3. CASE i \in DOMAIN MacsPerIface["88f7"]
      <4>1. PICK entry : /\ EntryOnly("88f7", i, entry)
                         /\ entry.announces = Put(MacsPerIface["88f7"][i].announces,
                                                  announce.gm, announce.data)
        BY <2>2, <3>3, RecordAnnounceEffect
      <4>2. AnnouncesOf(i)' = Put(AnnouncesOf(i), announce.gm, announce.data)
        BY <3>3, <4>1 DEF EntryOnly, AnnouncesOf
      <4>3. /\ DOMAIN AnnouncesOf(i)' = DOMAIN AnnouncesOf(i) \cup {announce.gm}
            /\ AnnouncesOf(i)'[announce.gm] = announce.data
            /\ \A gm \in DOMAIN AnnouncesOf(i) :
                  gm # announce.gm => AnnouncesOf(i)'[gm] = AnnouncesOf(i)[gm]
        BY <4>2 DEF Put
      <4> HIDE DEF announce
      <4>4. /\ others[i] \subseteq DOMAIN AnnouncesOf(i) \cup {announce.gm}
            /\ announce.gm \in DOMAIN heard[i] /\ heard[i][announce.gm] = announce.data
            /\ \A gm \in DOMAIN AnnouncesOf(i) :
                  gm \in DOMAIN heard[i] /\ (gm # announce.gm => AnnouncesOf(i)[gm] = heard[i][gm])
        BY <3>1 DEF PendingKept, KeptBut, announce
      <4> QED BY <1>1, <4>3, <4>4 DEF KeptBut
    <3> QED BY <3>2, <3>3
  <2> QED BY <2>1, <2>2
<1>4. Kept(i)'
  BY <1>1, <1>3 DEF Kept, Pending, Critical
<1> QED BY <1>1, <1>2, <1>4 DEF AnnounceInv

LEMMA AnnounceStep ==
    ASSUME TypeOK, MapInv, AnnounceInv, [Next]_vars
    PROVE  AnnounceInv'
<1>1. ASSUME UNCHANGED <<aFrame, heard, others>>,
             \A j \in names : AnnouncesOf(j)' = AnnouncesOf(j),
             MacsPerIface'["88f7"] = MacsPerIface["88f7"],
             \A j \in names : /\ pc'[j] \in {"lock"} \cup Critical <=> pc[j] \in {"lock"} \cup Critical
                              /\ pc'[j] = "announce" => pc[j] = "announce"
      PROVE  AnnounceInv'
  BY <1>1 DEF AnnounceInv, Kept, Pending, PendingKept, KeptBut, Foreign
<1>2. CASE StartPrintLog \/ PrintLog \/ UNCHANGED vars
  BY <1>1, <1>2 DEF StartPrintLog, PrintLog, vars, AnnouncesOf
<1>3. CASE \E i \in names : SocketPanics(i) \/ BindToDevicePanics(i)
  BY <1>3 DEF SocketPanics, BindToDevicePanics, Restart, AnnounceInv, Kept, Pending, KeptBut,
              AnnouncesOf, Empty, Critical
<1>4. ASSUME NEW i \in names, RecordAllLocal(i)
      PROVE  AnnounceInv'
  <2>1. EntryOnly("0000", i, newNeighbors)
    BY <1>4, EnteredOnly DEF RecordAllLocal, Ethertypes
  <2>2. /\ \A j \in names : AnnouncesOf(j)' = AnnouncesOf(j)
        /\ MacsPerIface'["88f7"] = MacsPerIface["88f7"]
    BY <2>1, OtherEntryAside DEF Ethertypes, EntryOnly
  <2> QED BY <1>1, <1>4, <2>2 DEF RecordAllLocal, TypeOK, Critical
<1>5. CASE \E i \in names : sendProbeForever(i) \/ Open(i) \/ Lock(i)
  BY <1>1, <1>5 DEF sendProbeForever, Open, Lock, AnnouncesOf, TypeOK, Critical
<1>6. CASE \E i \in names : \E frame \in Frames[i] : Recvfrom(i, frame)
  BY <1>6, AnnounceRecvfrom
<1>7. CASE \E i \in names : RecvFrame(i)
  BY <1>7, AnnounceRecord, AnnounceRecordAnnounce DEF RecvFrame
<1> QED BY <1>2, <1>3, <1>4, <1>5, <1>6, <1>7 DEF Next

(* The latest announce of each grandmaster wins, whatever the receivers do *)
(* at the same time (RecvFrame).                                           *)
THEOREM LatestAnnounceWinsCorrect == Spec => []LatestAnnounceWins
<1>1. Init => AnnounceInv
  BY DEF Init, AnnounceInv, Kept, Pending, KeptBut, AnnouncesOf, Empty, Critical
<1>2. TypeOK /\ MapInv /\ AnnounceInv /\ [Next]_vars => AnnounceInv'
  BY AnnounceStep
<1>3. AnnounceInv => LatestAnnounceWins
  BY DEF AnnounceInv, Kept, Pending, KeptBut, LatestAnnounceWins, Critical
<1> QED BY <1>1, <1>2, <1>3, MapAlways, PTL DEF Spec

----------------------------------------------------------------------------
(***************************************************************************)
(* The promise.  Steps that change what was heard add one fact.            *)
(***************************************************************************)
\* NIL is told from the map, so that a report printed is a report.
NilIsNoMap == DOMAIN NIL # Ethertypes

Told == IF report = NIL THEN NIL ELSE FactsOf(report)

SameFacts(f, g) ==
    \A type \in Probed : \A i \in names : \A mac : Hears(f, type, i, mac) <=> Hears(g, type, i, mac)

LEMMA FactsKept ==
    ASSUME NEW f, NEW g, DOMAIN f = Ethertypes, DOMAIN g = Ethertypes, SameFacts(f, g)
    PROVE  FactsOf(f) = FactsOf(g)
<1>1. ASSUME NEW fact \in Facts
      PROVE  fact \in FactsOf(f) <=> fact \in FactsOf(g)
  <2>1. fact[1] \in Types /\ fact[2] \in names
    BY DEF Facts
  <2>2. fact[1] \in Ethertypes => fact[1] \in Probed
    BY <2>1 DEF Types, Ethertypes, Probed
  <2> QED BY <2>1, <2>2 DEF FactsOf, SameFacts, Hears
<1> QED BY <1>1 DEF FactsOf

LEMMA FactLearnt ==
    ASSUME NEW f, NEW g, DOMAIN f = Ethertypes, DOMAIN g = Ethertypes,
           NEW new \in Facts, new[1] \in Probed,
           \A type \in Probed : \A i \in names : \A mac :
               Hears(g, type, i, mac) <=>
                   Hears(f, type, i, mac) \/ (new[1] = type /\ new[2] = i /\ new[3] = mac)
    PROVE  FactsOf(g) = FactsOf(f) \cup {new}
<1>1. \A fact \in Facts : fact = <<fact[1], fact[2], fact[3]>>
  BY DEF Facts
<1>2. ASSUME NEW fact \in Facts
      PROVE  fact \in FactsOf(g) <=> fact \in FactsOf(f) \/ fact = new
  <2>1. fact[1] \in Types /\ fact[2] \in names
    BY DEF Facts
  <2>2. fact[1] \in Ethertypes => fact[1] \in Probed
    BY <2>1 DEF Types, Ethertypes, Probed
  <2>3. fact = new <=> fact[1] = new[1] /\ fact[2] = new[2] /\ fact[3] = new[3]
    BY <1>1
  <2>4. fact \in FactsOf(f) <=> fact[1] \in Probed /\ Hears(f, fact[1], fact[2], fact[3])
    BY <2>2 DEF FactsOf, Hears, Probed, Ethertypes
  <2>5. fact \in FactsOf(g) <=> fact[1] \in Probed /\ Hears(g, fact[1], fact[2], fact[3])
    BY <2>2 DEF FactsOf, Hears, Probed, Ethertypes
  <2> QED BY <2>1, <2>3, <2>4, <2>5
<1> QED BY <1>2 DEF FactsOf

LEMMA PromiseStutters ==
    ASSUME UNCHANGED <<main, report>>, FactsOf(MacsPerIface)' = FactsOf(MacsPerIface)
    PROVE  UNCHANGED Promise!vars
<1>1. Told' = Told
  BY DEF Told, FactsOf
<1> QED BY <1>1 DEF Promise!vars, Told

LEMMA PromiseRecord ==
    ASSUME TypeOK, MapInv, NEW i \in names, RecvFrame(i)
    PROVE  Promise!Next \/ UNCHANGED Promise!vars
<1>1. UNCHANGED <<main, report>>
  BY DEF RecvFrame, RecordEntry, RecordRemote, IgnoreSender, RecordAnnounce
<1>2. Told' = Told
  BY <1>1 DEF Told, FactsOf
<1>3. DOMAIN MacsPerIface = Ethertypes
  BY DEF TypeOK, Ethertypes
<1>4. ASSUME DOMAIN MacsPerIface' = Ethertypes, SameFacts(MacsPerIface', MacsPerIface)
      PROVE  UNCHANGED Promise!vars
  <2>1. FactsOf(MacsPerIface') = FactsOf(MacsPerIface)
    BY <1>3, <1>4, FactsKept
  <2>2. FactsOf(MacsPerIface)' = FactsOf(MacsPerIface')
    BY DEF FactsOf
  <2> QED BY <1>1, <2>1, <2>2, PromiseStutters
<1>5. CASE MacsPerIface' = MacsPerIface
  BY <1>3, <1>4, <1>5 DEF SameFacts, Hears
<1>6. CASE RecordEntry(i)
  <2>1. CASE \E type \in Probed : /\ EntryOnly(type, i, newNeighbors)
                                  /\ i \notin DOMAIN MacsPerIface[type]
    BY <1>4, <2>1, NewNeighbors DEF EntryOnly, SameFacts, Hears, Probed, Ethertypes
  <2> QED BY <1>5, <1>6, <2>1, RecordEntryEffect
<1>7. CASE RecordRemote(i)
  <2> DEFINE type == aFrame[i].Type
             new == <<type, i, aFrame[i].MacSa>>
  <2>1. PICK entry : /\ EntryOnly(type, i, entry)
                     /\ entry.remote = MacsPerIface[type][i].remote \cup {aFrame[i].MacSa}
    BY <1>7, RecordRemoteEffect
  <2>2. type \in Probed /\ i \in DOMAIN MacsPerIface[type] /\ aFrame[i] \in Frames[i]
    BY <1>7 DEF RecordRemote, TypeOK, Probed, Critical
  <2>3. new \in Facts
    BY <2>2 DEF Facts, Types, Probed
  <2>4. new[1] = type /\ new[2] = i /\ new[3] = aFrame[i].MacSa
    OBVIOUS
  <2> HIDE DEF new, type
  <2>5. \A t \in Probed : \A j \in names : \A mac :
           Hears(MacsPerIface', t, j, mac) <=>
               Hears(MacsPerIface, t, j, mac) \/ (new[1] = t /\ new[2] = j /\ new[3] = mac)
    BY <2>1, <2>2, <2>4 DEF EntryOnly, Hears, Probed, Ethertypes
  <2>6. DOMAIN MacsPerIface' = Ethertypes
    BY <2>1 DEF EntryOnly
  <2>7. FactsOf(MacsPerIface') = FactsOf(MacsPerIface) \cup {new}
    BY <1>3, <2>2, <2>3, <2>4, <2>5, <2>6, FactLearnt
  <2>8. FactsOf(MacsPerIface)' = FactsOf(MacsPerIface) \cup {new}
    BY <2>7 DEF FactsOf
  <2>9. Promise!Learn(new)
    BY <1>1, <1>2, <2>8 DEF Promise!Learn, Told
  <2> QED BY <2>3, <2>9 DEF Promise!Next
<1>8. CASE IgnoreSender(i)
  BY <1>5, <1>8 DEF IgnoreSender
<1>9. CASE RecordAnnounce(i)
  <2>1. CASE i \in DOMAIN MacsPerIface["88f7"]
             /\ \E entry : EntryOnly("88f7", i, entry)
                           /\ entry.remote = MacsPerIface["88f7"][i].remote
    BY <1>4, <2>1 DEF EntryOnly, SameFacts, Hears, Probed, Ethertypes
  <2> QED BY <1>5, <1>9, <2>1, RecordAnnounceEffect
<1> QED BY <1>6, <1>7, <1>8, <1>9 DEF RecvFrame

LEMMA PromiseStep ==
    ASSUME NilIsNoMap, TypeOK, MapInv, [Next]_vars
    PROVE  Promise!Next \/ UNCHANGED Promise!vars
<1>1. CASE UNCHANGED <<main, report, MacsPerIface>>
  BY <1>1, PromiseStutters DEF FactsOf
<1>2. CASE StartPrintLog
  <2>1. (main = "running")' /\ UNCHANGED <<report, MacsPerIface>>
    BY <1>2 DEF StartPrintLog
  <2>2. Promise!Start
    BY <2>1, Zenon DEF Promise!Start, FactsOf
  <2> QED BY <2>2 DEF Promise!Next
<1>3. CASE PrintLog
  <2>1. main = "running" /\ report' = MacsPerIface /\ UNCHANGED <<main, MacsPerIface>>
    BY <1>3 DEF PrintLog
  <2>2. MacsPerIface # NIL
    BY DEF NilIsNoMap, TypeOK, Ethertypes
  <2>3. Told' = FactsOf(MacsPerIface) /\ FactsOf(MacsPerIface)' = FactsOf(MacsPerIface)
    BY <2>1, <2>2 DEF Told, FactsOf
  <2> QED BY <2>1, <2>3 DEF Promise!Next, Promise!PrintReport, Told
<1>4. CASE \E i \in names : SocketPanics(i) \/ BindToDevicePanics(i)
  <2>1. /\ main' = "starting" /\ report' = NIL
        /\ MacsPerIface' = [type \in Ethertypes |-> Empty]
    BY <1>4 DEF SocketPanics, BindToDevicePanics, Restart, Ethertypes
  <2>2. FactsOf(MacsPerIface)' = {}
    BY <2>1 DEF FactsOf, Empty
  <2>3. (main = "running")' \in BOOLEAN
    OBVIOUS
  <2>4. Told' = NIL
    BY <2>1 DEF Told
  <2> QED BY <2>2, <2>3, <2>4 DEF Promise!Next, Promise!Restart, Told
<1>5. ASSUME NEW i \in names, RecordAllLocal(i)
      PROVE  UNCHANGED Promise!vars
  <2>1. EntryOnly("0000", i, newNeighbors) /\ UNCHANGED <<main, report>>
    BY <1>5, EnteredOnly DEF RecordAllLocal, Ethertypes
  <2>2. DOMAIN MacsPerIface' = Ethertypes /\ SameFacts(MacsPerIface', MacsPerIface)
    BY <2>1 DEF EntryOnly, SameFacts, Hears, Probed, Ethertypes
  <2>3. DOMAIN MacsPerIface = Ethertypes
    BY DEF TypeOK, Ethertypes
  <2>4. FactsOf(MacsPerIface') = FactsOf(MacsPerIface)
    BY <2>2, <2>3, FactsKept
  <2>5. FactsOf(MacsPerIface)' = FactsOf(MacsPerIface')
    BY DEF FactsOf
  <2> QED BY <2>1, <2>4, <2>5, PromiseStutters
<1>6. CASE \E i \in names : RecvFrame(i)
  BY <1>6, PromiseRecord
<1>7. CASE (\E i \in names : Elsewhere(i)) \/ UNCHANGED vars
  BY <1>1, <1>7 DEF Elsewhere, sendProbeForever, Open, Lock, Recvfrom, vars
<1> QED BY <1>2, <1>3, <1>4, <1>5, <1>6, <1>7 DEF Next, Elsewhere

(* However the goroutines interleave, the daemon learns a fact at a time   *)
(* and reports exactly what it knows.                                      *)
THEOREM DaemonImplementsPromise ==
    ASSUME NilIsNoMap
    PROVE  Spec => ImplementsPromise
<1>1. Init => Promise!Init
  <2>1. ASSUME Init
        PROVE  /\ (main = "running") \in BOOLEAN /\ report = NIL
               /\ FactsOf(MacsPerIface) = {}
    BY <2>1 DEF Init, FactsOf, Empty
  <2> QED BY <2>1 DEF Promise!Init
<1>2. TypeOK /\ MapInv /\ [Next]_vars => [Promise!Next]_(Promise!vars)
  BY PromiseStep
<1> QED BY <1>1, <1>2, MapAlways, PTL DEF Spec, ImplementsPromise, Promise!Spec
=============================================================================
