------------------------------ MODULE L2Daemon ------------------------------
(***************************************************************************)
(* The discovery daemon of one node (cmd/l2discovery/main.go).  The main   *)
(* goroutine records every interface and starts for each a receiver        *)
(* (RecvFrame) and, unless it is the slave of a bond, a sender of probes   *)
(* (sendProbeForever); then it starts the printer of reports (PrintLog).   *)
(* All of them share the map MacsPerIface under the mutex mu.              *)
(*                                                                         *)
(* A receiver reads whole frames into a buffer it reuses; what parse and   *)
(* parsePtpAnnounce find there is modelled as the frame: its source        *)
(* address, its ethertype and, for a PTP Announce message, the grandmaster *)
(* and the data it announces.  The sockets are opened for all ethertypes,  *)
(* so that an interface's own outgoing frames are received too, and take   *)
(* the frames of all interfaces until IfaceBind binds them, for good if it *)
(* fails: Frames is to hold what is read then too.  Cluster tells a socket *)
(* that is bound from one that is not.                                     *)
(***************************************************************************)
EXTENDS Integers

CONSTANTS
    Ifaces,         \* the interfaces of the node (getIfs): [mac, bond]
    Frames,         \* for each interface the frames its receiver may read
    MaxProbes,      \* bound: the probes a sender sends, 10 in the code
    FREE,           \* mu is not locked
    NIL             \* the absent frame, announce or report

names == DOMAIN Ifaces

Types == {"88b5", "88f7", "other"}

ASSUME FramesAssumption ==
    \A i \in names : \A frame \in Frames[i] :
        /\ frame.Type \in Types
        /\ frame.announce # NIL => frame.Type = "88f7"

ASSUME FreeAssumption == FREE \notin names

ASSUME MaxProbesAssumption == MaxProbes \in Nat

VARIABLES
    main,           \* the main goroutine: "starting", "running"
    mu,             \* the goroutine in its critical section, or FREE
    MacsPerIface,   \* ethertype -> interface -> [remote, announces]
    pc,             \* where the receiver of each interface is
    aFrame,         \* the frame it works on
    probes,         \* the probes sent from each interface
    report,         \* the last report printed
    heard,          \* history: for each interface GM -> data of the last announce seen
    others          \* history: the GMs announced there by other nodes

vars == <<main, mu, MacsPerIface, pc, aFrame, probes, report, heard, others>>

Empty == [i \in {} |-> NIL]

Init ==
    /\ main = "starting"
    /\ mu = FREE
    /\ MacsPerIface = [type \in {"0000", "88b5", "88f7"} |-> Empty]
    /\ pc = [i \in names |-> "off"]
    /\ aFrame = [i \in names |-> NIL]
    /\ probes = [i \in names |-> 0]
    /\ report = NIL
    /\ heard = [i \in names |-> Empty]
    /\ others = [i \in names |-> {}]

Put(f, x, value) == [y \in DOMAIN f \cup {x} |-> IF y = x THEN value ELSE f[y]]

\* The map with the entry of an interface replaced or added.
Entered(type, i, entry) ==
    [MacsPerIface EXCEPT ![type] = Put(MacsPerIface[type], i, entry)]

newNeighbors == [remote |-> {}, announces |-> Empty]

macsExist == {Ifaces[i].mac : i \in names}

----------------------------------------------------------------------------
(***************************************************************************)
(* main and RecordAllLocal, for one interface.                             *)
(***************************************************************************)
RecordAllLocal(i) ==
    /\ main = "starting"
    /\ pc[i] = "off"
    /\ mu = FREE
    /\ MacsPerIface' = Entered("0000", i, newNeighbors)
    /\ pc' = [pc EXCEPT ![i] = "sleep"]
    /\ UNCHANGED <<main, mu, aFrame, probes, report, heard, others>>

\* A mutant: the printer is started first.
StartPrintLogFirst ==
    /\ main = "starting"
    /\ main' = "running"
    /\ UNCHANGED <<mu, MacsPerIface, pc, aFrame, probes, report, heard, others>>

StartPrintLog ==
    /\ main = "starting"
    /\ \A i \in names : pc[i] # "off"
    /\ main' = "running"
    /\ UNCHANGED <<mu, MacsPerIface, pc, aFrame, probes, report, heard, others>>

\* A mutant: the map is printed without the lock.
PrintLogUnlocked ==
    /\ main = "running"
    /\ report' = MacsPerIface
    /\ UNCHANGED <<main, mu, MacsPerIface, pc, aFrame, probes, heard, others>>

\* A mutant: a single report is printed.
PrintLogOnce ==
    /\ main = "running"
    /\ mu = FREE
    /\ report = NIL
    /\ report' = MacsPerIface
    /\ UNCHANGED <<main, mu, MacsPerIface, pc, aFrame, probes, heard, others>>

PrintLog ==
    /\ main = "running"
    /\ mu = FREE
    /\ report' = MacsPerIface
    /\ UNCHANGED <<main, mu, MacsPerIface, pc, aFrame, probes, heard, others>>

sendProbeForever(i) ==
    /\ pc[i] # "off"
    /\ ~ Ifaces[i].bond
    /\ probes[i] < MaxProbes
    /\ probes' = [probes EXCEPT ![i] = @ + 1]
    /\ UNCHANGED <<main, mu, MacsPerIface, pc, aFrame, report, heard, others>>

(***************************************************************************)
(* A receiver that cannot open its socket and a sender that cannot bind to *)
(* its device panic: the process ends, its container is restarted and its  *)
(* log begins anew.                                                        *)
(***************************************************************************)
Restart ==
    /\ main' = "starting"
    /\ mu' = FREE
    /\ MacsPerIface' = [type \in {"0000", "88b5", "88f7"} |-> Empty]
    /\ pc' = [i \in names |-> "off"]
    /\ aFrame' = [i \in names |-> NIL]
    /\ probes' = [i \in names |-> 0]
    /\ report' = NIL
    /\ heard' = [i \in names |-> Empty]
    /\ others' = [i \in names |-> {}]

SocketPanics(i) == pc[i] = "sleep" /\ Restart

BindToDevicePanics(i) ==
    /\ pc[i] # "off" /\ ~ Ifaces[i].bond /\ probes[i] < MaxProbes
    /\ Restart

----------------------------------------------------------------------------
(***************************************************************************)
(* RecvFrame.                                                              *)
(***************************************************************************)
Open(i) ==
    /\ pc[i] = "sleep"
    /\ pc' = [pc EXCEPT ![i] = "recv"]
    /\ UNCHANGED <<main, mu, MacsPerIface, aFrame, probes, report, heard, others>>

Foreign(frame) == frame.MacSa \notin macsExist

Recvfrom(i, frame) ==
    /\ pc[i] = "recv"
    /\ aFrame' = [aFrame EXCEPT ![i] = frame]
    /\ pc' = [pc EXCEPT ![i] = "lock"]
    /\ IF frame.announce = NIL
         THEN UNCHANGED <<heard, others>>
         ELSE /\ heard' = [heard EXCEPT ![i] =
                              Put(@, frame.announce.gm, frame.announce.data)]
              /\ others' = [others EXCEPT ![i] =
                              IF Foreign(frame) THEN @ \cup {frame.announce.gm} ELSE @]
    /\ UNCHANGED <<main, mu, MacsPerIface, probes, report>>

\* A mutant: a lock that does not exclude.
LockUnchecked(i) ==
    /\ pc[i] = "lock"
    /\ mu' = i
    /\ pc' = [pc EXCEPT ![i] = "record"]
    /\ UNCHANGED <<main, MacsPerIface, aFrame, probes, report, heard, others>>

Lock(i) ==
    /\ pc[i] = "lock"
    /\ mu = FREE
    /\ mu' = i
    /\ pc' = [pc EXCEPT ![i] = "record"]
    /\ UNCHANGED <<main, MacsPerIface, aFrame, probes, report, heard, others>>

\* A mutant: only the interface's own address is told from foreign ones.
FromOtherNodeByIface(i) ==
    /\ aFrame[i].Type \in {"88b5", "88f7"}
    /\ aFrame[i].MacSa # Ifaces[i].mac

FromOtherNode(i) ==
    /\ aFrame[i].Type \in {"88b5", "88f7"}
    /\ Foreign(aFrame[i])

\* A mutant: the entry is made anew for every frame.
RecordEntryAnew(i) ==
    /\ pc[i] = "record"
    /\ FromOtherNode(i)
    /\ MacsPerIface' = Entered(aFrame[i].Type, i, newNeighbors)
    /\ pc' = [pc EXCEPT ![i] = "remote"]
    /\ UNCHANGED <<main, mu, aFrame, probes, report, heard, others>>

RecordEntry(i) ==
    LET type == aFrame[i].Type
    IN  /\ pc[i] = "record"
        /\ FromOtherNode(i)
        /\ MacsPerIface' = IF i \in DOMAIN MacsPerIface[type]
                             THEN MacsPerIface
                             ELSE Entered(type, i, newNeighbors)
        /\ pc' = [pc EXCEPT ![i] = "remote"]
        /\ UNCHANGED <<main, mu, aFrame, probes, report, heard, others>>

\* A mutant: only the first sender is kept.
RecordRemoteOnce(i) ==
    LET type == aFrame[i].Type
        entry == MacsPerIface[type][i]
    IN  /\ pc[i] = "remote"
        /\ MacsPerIface' = Entered(type, i,
              [entry EXCEPT !.remote = IF @ = {} THEN {aFrame[i].MacSa} ELSE @])
        /\ pc' = [pc EXCEPT ![i] = "announce"]
        /\ UNCHANGED <<main, mu, aFrame, probes, report, heard, others>>

\* The comparison with Local.IfMac always lets a foreign address pass.
RecordRemote(i) ==
    LET type == aFrame[i].Type
        entry == MacsPerIface[type][i]
    IN  /\ pc[i] = "remote"
        /\ MacsPerIface' = Entered(type, i,
              [entry EXCEPT !.remote = @ \cup {aFrame[i].MacSa}])
        /\ pc' = [pc EXCEPT ![i] = "announce"]
        /\ UNCHANGED <<main, mu, aFrame, probes, report, heard, others>>

IgnoreSender(i) ==
    /\ pc[i] = "record"
    /\ ~ FromOtherNode(i)
    /\ pc' = [pc EXCEPT ![i] = "announce"]
    /\ UNCHANGED <<main, mu, MacsPerIface, aFrame, probes, report, heard, others>>

\* A mutant: the first announce of a grandmaster is kept.
AnnouncedFirst(announces, announce) ==
    IF announce.gm \in DOMAIN announces
      THEN announces
      ELSE Put(announces, announce.gm, announce.data)

Announced(announces, announce) == Put(announces, announce.gm, announce.data)

\* An announce, whoever sent it, is stored if there is an entry; then mu is unlocked.
RecordAnnounce(i) ==
    LET announce == aFrame[i].announce
        entry == MacsPerIface["88f7"][i]
    IN  /\ pc[i] = "announce"
        /\ MacsPerIface' = IF announce # NIL /\ i \in DOMAIN MacsPerIface["88f7"]
                             THEN Entered("88f7", i,
                                    [entry EXCEPT !.announces = Announced(@, announce)])
                             ELSE MacsPerIface
        /\ mu' = FREE
        /\ pc' = [pc EXCEPT ![i] = "recv"]
        /\ aFrame' = [aFrame EXCEPT ![i] = NIL]
        /\ UNCHANGED <<main, probes, report, heard, others>>

RecvFrame(i) ==
    \/ RecordEntry(i) \/ RecordRemote(i) \/ IgnoreSender(i) \/ RecordAnnounce(i)

Next ==
    \/ StartPrintLog \/ PrintLog
    \/ \E i \in names :
          \/ RecordAllLocal(i)
          \/ sendProbeForever(i)
          \/ SocketPanics(i) \/ BindToDevicePanics(i)
          \/ Open(i) \/ Lock(i) \/ RecvFrame(i)
          \/ \E frame \in Frames[i] : Recvfrom(i, frame)

Spec == Init /\ [][Next]_vars

(***************************************************************************)
(* Goroutines that can run do run, and sync.Mutex does not starve those    *)
(* waiting for it, so that taking it is strongly fair.  Nothing makes      *)
(* frames arrive.                                                          *)
(***************************************************************************)
FairSpec ==
    /\ Spec
    /\ WF_vars(StartPrintLog) /\ SF_vars(PrintLog)
    /\ \A i \in names :
          /\ SF_vars(RecordAllLocal(i)) /\ SF_vars(Lock(i))
          /\ WF_vars(Open(i)) /\ WF_vars(RecvFrame(i)) /\ WF_vars(sendProbeForever(i))

----------------------------------------------------------------------------
(***************************************************************************)
(* Properties.                                                             *)
(***************************************************************************)
Critical == {"record", "remote", "announce"}

AnnouncesOf(i) ==
    IF i \in DOMAIN MacsPerIface["88f7"] THEN MacsPerIface["88f7"][i].announces ELSE Empty

(* Types of the variables; mu is held by the receiver in its critical      *)
(* section and by no other, and that section has the entry it works on.    *)
TypeOK ==
    /\ main \in {"starting", "running"}
    /\ mu \in names \cup {FREE}
    /\ DOMAIN MacsPerIface = {"0000", "88b5", "88f7"}
    /\ \A type \in DOMAIN MacsPerIface : DOMAIN MacsPerIface[type] \subseteq names
    /\ pc \in [names -> {"off", "sleep", "recv", "lock"} \cup Critical]
    /\ \A i \in names : mu = i <=> pc[i] \in Critical
    /\ DOMAIN aFrame = names
    /\ \A i \in names : IF pc[i] \in {"lock"} \cup Critical THEN aFrame[i] \in Frames[i]
                                                             ELSE aFrame[i] = NIL
    /\ \A i \in names : pc[i] = "remote" =>
          /\ aFrame[i].Type \in {"88b5", "88f7"}
          /\ i \in DOMAIN MacsPerIface[aFrame[i].Type]
    /\ probes \in [names -> 0 .. MaxProbes]

(* Every report names all interfaces of the node, even the first one,      *)
(* which may be printed before any frame arrives.                          *)
ReportsComplete == report # NIL => DOMAIN report["0000"] = names

(* No report shows the work of a receiver half done: an interface that is  *)
(* reported to have heard probes or PTP frames has heard someone.          *)
ReportsWhole ==
    report # NIL =>
        \A type \in {"88b5", "88f7"} : \A i \in DOMAIN report[type] : report[type][i].remote # {}

(* A neighbour reported for an interface is the sender of a frame of that  *)
(* ethertype its own receiver may read, and none of the ports of the node, *)
(* though these hear each other.                                           *)
RemotesForeign ==
    \A type \in {"88b5", "88f7"} : \A i \in DOMAIN MacsPerIface[type] :
        \A mac \in MacsPerIface[type][i].remote :
            /\ mac \notin macsExist
            /\ \E frame \in Frames[i] : frame.MacSa = mac /\ frame.Type = type

(* "Latest announce from each GM wins": between frames the announces kept  *)
(* for an interface are the last ones seen there, and none that another    *)
(* node sent is missing.                                                   *)
LatestAnnounceWins ==
    \A i \in names : pc[i] = "recv" =>
        /\ others[i] \subseteq DOMAIN AnnouncesOf(i)
        /\ \A gm \in DOMAIN AnnouncesOf(i) :
              gm \in DOMAIN heard[i] /\ AnnouncesOf(i)[gm] = heard[i][gm]

(* Until the daemon is restarted a report shows all that the one before    *)
(* showed, so that reading the last one loses nothing.                     *)
ReportsGrow ==
    [][report # NIL /\ report' # NIL =>
          \A type \in DOMAIN report : \A i \in DOMAIN report[type] :
              /\ i \in DOMAIN report'[type]
              /\ report[type][i].remote \subseteq report'[type][i].remote
              /\ DOMAIN report[type][i].announces \subseteq DOMAIN report'[type][i].announces]_vars

(* The sender of every frame of another node that is received is in a      *)
(* later report, whatever the other receivers do meanwhile, unless the     *)
(* daemon is restarted.                                                    *)
ReceivedIsReported ==
    \A i \in names : \A frame \in {f \in Frames[i] : f.Type # "other" /\ Foreign(f)} :
        pc[i] = "lock" /\ aFrame[i] = frame
          ~> \/ pc[i] = "off"
             \/ /\ report # NIL /\ i \in DOMAIN report[frame.Type]
                /\ frame.MacSa \in report[frame.Type][i].remote

\* Who may be heard where, with what ethertype.
Facts == Types \X names \X UNION {{frame.MacSa : frame \in Frames[i]} : i \in names}

\* The facts a map of entries holds.
FactsOf(map) ==
    {fact \in Facts : /\ fact[1] \in DOMAIN map /\ fact[2] \in DOMAIN map[fact[1]]
                     /\ fact[3] \in map[fact[1]][fact[2]].remote}

Promise == INSTANCE DaemonPromise WITH
    up <- main = "running",
    known <- FactsOf(MacsPerIface),
    report <- IF report = NIL THEN NIL ELSE FactsOf(report)

(* The daemon implements the promise, however its goroutines interleave:   *)
(* facts are learnt one at a time, and reports hold exactly those known.   *)
ImplementsPromise == Promise!Spec

(* And it keeps reporting, unless it is restarted.                         *)
KeepsPromise == Promise!FairSpec
=============================================================================
