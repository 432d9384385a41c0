------------------------------ MODULE Inventory ------------------------------
(***************************************************************************)
(* The start of the daemon (cmd/l2discovery/main.go up to getIfs, with the *)
(* parsers of pkg/parser): it lists the PCI devices of the node and its    *)
(* links, and asks for each link in turn for its PCI address, timestamping *)
(* capabilities, PTP pins and GNSS device.  Every question is a command,   *)
(* run one after the other, and every command may fail.  Failures of the   *)
(* lists and of the capabilities end the program, others leave a gap.      *)
(*                                                                         *)
(* What a command prints is modelled as what the code reads from it.       *)
(***************************************************************************)
EXTENDS Integers, Sequences

CONSTANTS
    Links,          \* the links of the node in the order of the ip command:
                    \*   [name, mac, loopback, virtual, slave]
    AllIFs,         \* virtual links are wanted too
    PciDevices,     \* the devices lspci lists: a sequence of [bus, Subsystem]
    BusInfo,        \* link name -> the bus addresses ethtool -i names, one at most
    Timestamping,   \* link name -> its capabilities (ethtool -T): [caps, clock, provider]
    NetPins,        \* link name -> its directory of pins: "absent", "empty" or "full"
    PhcPins,        \* PTP hardware clock -> its directory of pins
    NetGnss,        \* link name -> the GNSS devices listed under it
    BusGnss,        \* bus address -> the GNSS devices listed under it
    Fixed,          \* the GNSS devices that have a fix
    NIL             \* nothing found

Wanted(aIfRaw) == ~ aIfRaw.loopback /\ (~ aIfRaw.virtual \/ AllIFs)

wantedNames == {Links[j].name : j \in {k \in DOMAIN Links : Wanted(Links[k])}}

IsSequence(output) == output \in Seq({output[j] : j \in DOMAIN output})

ASSUME LinksAssumption ==
    /\ IsSequence(Links)
    /\ \A j, k \in DOMAIN Links : Links[j].name = Links[k].name => j = k

ASSUME PciAssumption ==
    \A j \in DOMAIN PciDevices :
        PciDevices[j].bus # NIL /\ IsSequence(BusGnss[PciDevices[j].bus])

\* What the commands about a link print.
ASSUME AnswersAssumption ==
    /\ \A x \in wantedNames :
          /\ IsSequence(BusInfo[x]) /\ Len(BusInfo[x]) <= 1
          /\ {Timestamping[x].clock, Timestamping[x].provider} \subseteq Nat \cup {NIL}
          /\ NetPins[x] \in {"absent", "empty", "full"}
          /\ IsSequence(NetGnss[x])
    /\ NIL \notin Fixed

VARIABLES
    pc,             \* the command to run next, "run" when all is listed, or "fatal"
    PCIMap,         \* bus address -> subsystem
    index,          \* the link asked about
    address,        \* its PCI address, or NIL
    ptpCaps,        \* its capabilities: [caps, PhcIndex, HasPtpPins, GnssDevice]
    path, devices,  \* the GNSS path listed, 1 or 2, and its devices not yet read
    macs,           \* the interfaces recorded, by name
    macsExist,      \* their MAC addresses
    faults,         \* history: the links for which a command failed
    rejected        \* history: <<name, device>> for the devices read that showed no fix

loopVars == <<index, address, ptpCaps, path, devices>>
macVars == <<macs, macsExist>>
historyVars == <<faults, rejected>>
vars == <<pc, PCIMap, index, address, ptpCaps, path, devices, macs, macsExist, faults, rejected>>

NoCaps == [caps |-> {}, PhcIndex |-> -1, HasPtpPins |-> FALSE, GnssDevice |-> NIL]

Init ==
    /\ pc = "lspci"
    /\ PCIMap = <<>>
    /\ index = 1 /\ address = NIL /\ ptpCaps = NoCaps /\ path = 1 /\ devices = <<>>
    /\ macs = <<>> /\ macsExist = {}
    /\ faults = {} /\ rejected = {}

link == Links[index]
name == link.name

(***************************************************************************)
(* The parsers: a map of the devices listed, of which the last counts that *)
(* has an address, and the first bus address named.  Without any they      *)
(* return an error.                                                        *)
(***************************************************************************)
ParseLspci(output) ==
    [bus \in {output[j].bus : j \in DOMAIN output} |->
        LET last == CHOOSE j \in DOMAIN output :
                       /\ output[j].bus = bus
                       /\ \A k \in DOMAIN output : output[k].bus = bus => k <= j
        IN  output[last].Subsystem]

ParseEthtool(output) == IF output = <<>> THEN NIL ELSE Head(output)

----------------------------------------------------------------------------
(***************************************************************************)
(* The lists.  lspci may complain about kmod and is used all the same.     *)
(***************************************************************************)
initPCIMap ==
    /\ pc = "lspci"
    /\ PciDevices # <<>>
    /\ PCIMap' = ParseLspci(PciDevices)
    /\ pc' = "ip"
    /\ UNCHANGED <<loopVars, macVars, historyVars>>

ListLinks ==
    /\ pc = "ip"
    /\ pc' = "next"
    /\ UNCHANGED <<PCIMap, loopVars, macVars, historyVars>>

\* A command fails without which the daemon cannot go on.
Fatal ==
    /\ pc \in {"lspci", "ip", "caps"}
    /\ pc' = "fatal"
    /\ UNCHANGED <<PCIMap, loopVars, macVars, historyVars>>

----------------------------------------------------------------------------
(***************************************************************************)
(* getIfs, the loop over the links.                                        *)
(***************************************************************************)
NextLink ==
    /\ pc = "next" /\ index \in DOMAIN Links
    /\ Wanted(link)
    /\ pc' = "pci"
    /\ UNCHANGED <<PCIMap, loopVars, macVars, historyVars>>

SkipLink ==
    /\ pc = "next" /\ index \in DOMAIN Links
    /\ ~ Wanted(link)
    /\ index' = index + 1
    /\ UNCHANGED <<pc, PCIMap, address, ptpCaps, path, devices, macVars, historyVars>>

AllListed ==
    /\ pc = "next" /\ index \notin DOMAIN Links
    /\ pc' = "run"
    /\ UNCHANGED <<PCIMap, loopVars, macVars, historyVars>>

\* ParseEthtool finds no bus-info for some links, and PCIMap may not have the device.
getPci ==
    /\ pc = "pci"
    /\ address' = LET bus == ParseEthtool(BusInfo[name])
                  IN  IF bus \in DOMAIN PCIMap THEN bus ELSE NIL
    /\ pc' = "caps"
    /\ UNCHANGED <<PCIMap, index, ptpCaps, path, devices, macVars, historyVars>>

\* Mutants: the address is not emptied, or the link is passed over.
getPciFailsStale ==
    /\ pc = "pci"
    /\ faults' = faults \cup {name}
    /\ pc' = "caps"
    /\ UNCHANGED <<PCIMap, loopVars, macVars, rejected>>
getPciFailsSkipping ==
    /\ pc = "pci"
    /\ faults' = faults \cup {name}
    /\ index' = index + 1
    /\ pc' = "next"
    /\ UNCHANGED <<PCIMap, address, ptpCaps, path, devices, macVars, rejected>>

\* Only warned about.
getPciFails ==
    /\ pc = "pci"
    /\ address' = NIL
    /\ faults' = faults \cup {name}
    /\ pc' = "caps"
    /\ UNCHANGED <<PCIMap, index, ptpCaps, path, devices, macVars, rejected>>

\* "PTP Hardware Clock: none", or no such line; newer kernels name a provider instead.
PhcIndex(answer) ==
    IF answer.clock # NIL THEN answer.clock
    ELSE IF answer.provider # NIL THEN answer.provider ELSE -1

getPtpCaps ==
    /\ pc = "caps"
    /\ ptpCaps' = [NoCaps EXCEPT !.caps = Timestamping[name].caps,
                                 !.PhcIndex = PhcIndex(Timestamping[name])]
    /\ pc' = "pins"
    /\ UNCHANGED <<PCIMap, index, address, path, devices, macVars, historyVars>>

\* The directory of the link comes first in the order of ls, then that of the clock.
pinsDir ==
    IF NetPins[name] # "absent" THEN NetPins[name] ELSE PhcPins[ptpCaps.PhcIndex]

hasPtpPins ==
    /\ pc = "pins"
    /\ ptpCaps' = [ptpCaps EXCEPT !.HasPtpPins = ptpCaps.PhcIndex >= 0 /\ pinsDir = "full"]
    /\ path' = 1
    /\ pc' = "gnss"
    /\ UNCHANGED <<PCIMap, index, address, devices, macVars, historyVars>>

hasPtpPinsFails ==
    /\ pc = "pins" /\ ptpCaps.PhcIndex >= 0
    /\ faults' = faults \cup {name}
    /\ path' = 1
    /\ pc' = "gnss"
    /\ UNCHANGED <<PCIMap, index, address, ptpCaps, devices, macVars, rejected>>

----------------------------------------------------------------------------
(***************************************************************************)
(* getGnssDevice and checkGNRMC: the devices under the link, then those    *)
(* under its PCI address, until one shows a fix.  Only the first sentence  *)
(* a device sends is looked at, within a timeout: one with a fix may well  *)
(* send another one first, or nothing.                                     *)
(***************************************************************************)
Listed == IF path = 1 THEN NetGnss[name] ELSE IF address = NIL THEN <<>> ELSE BusGnss[address]

\* The path has no device left.
NextPath ==
    IF path = 1 THEN path' = 2 /\ pc' = "gnss" ELSE pc' = "record" /\ UNCHANGED path

ListGnss ==
    /\ pc = "gnss"
    /\ devices' = Listed
    /\ IF Listed = <<>> THEN NextPath ELSE pc' = "device" /\ UNCHANGED path
    /\ UNCHANGED <<PCIMap, index, address, ptpCaps, macVars, historyVars>>

ListGnssFails ==
    /\ pc = "gnss"
    /\ faults' = faults \cup {name}
    /\ NextPath
    /\ UNCHANGED <<PCIMap, index, address, ptpCaps, devices, macVars, rejected>>

ShowsFix ==
    /\ pc = "device"
    /\ Head(devices) \in Fixed
    /\ ptpCaps' = [ptpCaps EXCEPT !.GnssDevice = Head(devices)]
    /\ pc' = "record"
    /\ UNCHANGED <<PCIMap, index, address, path, devices, macVars, historyVars>>

\* A mutant: the first device decides for its path.
ShowsNoFixGivingUp ==
    /\ pc = "device"
    /\ rejected' = rejected \cup {<<name, Head(devices)>>}
    /\ NextPath
    /\ UNCHANGED <<PCIMap, index, address, ptpCaps, devices, macVars, faults>>

ShowsNoFix ==
    /\ pc = "device"
    /\ rejected' = rejected \cup {<<name, Head(devices)>>}
    /\ devices' = Tail(devices)
    /\ IF Len(devices) = 1 THEN NextPath ELSE UNCHANGED <<pc, path>>
    /\ UNCHANGED <<PCIMap, index, address, ptpCaps, macVars, faults>>

Record ==
    /\ pc = "record"
    /\ macs' = [x \in DOMAIN macs \cup {name} |->
                  IF x = name THEN [mac |-> link.mac, slave |-> link.slave,
                                    IfPci |-> address, IfPTPCaps |-> ptpCaps]
                              ELSE macs[x]]
    /\ macsExist' = macsExist \cup {link.mac}
    /\ index' = index + 1
    /\ pc' = "next"
    /\ UNCHANGED <<PCIMap, address, ptpCaps, path, devices, historyVars>>

getGnssDevice == ListGnss \/ ListGnssFails \/ ShowsFix \/ ShowsNoFix

getIfs ==
    \/ ListLinks \/ NextLink \/ SkipLink \/ AllListed
    \/ getPci \/ getPciFails
    \/ getPtpCaps
    \/ hasPtpPins \/ hasPtpPinsFails
    \/ getGnssDevice
    \/ Record

Next == initPCIMap \/ Fatal \/ getIfs

Spec == Init /\ [][Next]_vars

----------------------------------------------------------------------------
(***************************************************************************)
(* Properties.                                                             *)
(***************************************************************************)
(* When the daemon goes on, every link it is to use is recorded and the    *)
(* addresses by which it tells its own frames are exactly theirs, whatever *)
(* commands about a single link failed.                                    *)
InventoryComplete ==
    pc = "run" =>
        /\ DOMAIN macs = wantedNames
        /\ \A j \in DOMAIN Links : Wanted(Links[j]) => macs[Links[j].name].mac = Links[j].mac
        /\ macsExist = {macs[x].mac : x \in DOMAIN macs}

(* What is recorded of an interface is its own: no address, capability,    *)
(* pin or GNSS device of the link asked about before it, and no GNSS       *)
(* device without a fix.                                                   *)
RecordsOwn ==
    \A x \in DOMAIN macs :
        LET caps == macs[x].IfPTPCaps
        IN  /\ macs[x].IfPci # NIL => \E j \in DOMAIN BusInfo[x] : BusInfo[x][j] = macs[x].IfPci
            /\ caps.caps = Timestamping[x].caps
            /\ caps.PhcIndex >= 0 => caps.PhcIndex \in {Timestamping[x].clock, Timestamping[x].provider}
            /\ caps.HasPtpPins => caps.PhcIndex >= 0 /\ "full" \in {NetPins[x], PhcPins[caps.PhcIndex]}
            /\ caps.GnssDevice # NIL =>
                  /\ caps.GnssDevice \in Fixed
                  /\ \/ \E k \in DOMAIN NetGnss[x] : NetGnss[x][k] = caps.GnssDevice
                     \/ /\ macs[x].IfPci # NIL
                        /\ \E k \in DOMAIN BusGnss[macs[x].IfPci] :
                              BusGnss[macs[x].IfPci][k] = caps.GnssDevice

(* A feature missing from the record of an interface is missing from the   *)
(* interface, unless a command failed: the clock is found in either form,  *)
(* and without a GNSS device every one that is listed was read and showed  *)
(* no fix.                                                                 *)
NothingMissed ==
    \A x \in DOMAIN macs \ faults :
        LET caps == macs[x].IfPTPCaps
        IN  /\ macs[x].IfPci = NIL =>
                  \A j \in DOMAIN PciDevices, k \in DOMAIN BusInfo[x] : PciDevices[j].bus # BusInfo[x][k]
            /\ caps.PhcIndex < 0 => Timestamping[x].clock = NIL /\ Timestamping[x].provider = NIL
            /\ ~ caps.HasPtpPins /\ caps.PhcIndex >= 0 =>
                  \/ NetPins[x] = "empty"
                  \/ NetPins[x] = "absent" /\ PhcPins[caps.PhcIndex] # "full"
            /\ caps.GnssDevice = NIL =>
                  /\ \A k \in DOMAIN NetGnss[x] : <<x, NetGnss[x][k]>> \in rejected
                  /\ macs[x].IfPci # NIL =>
                        \A k \in DOMAIN BusGnss[macs[x].IfPci] :
                            <<x, BusGnss[macs[x].IfPci][k]>> \in rejected
=============================================================================
