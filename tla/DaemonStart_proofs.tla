------------------------- MODULE DaemonStart_proofs -------------------------
(***************************************************************************)
(* Proofs about DaemonStart, for every node, all answers of its commands   *)
(* and all frames: when the daemon goes on its inventory is complete, what *)
(* it recorded of an interface is the interface's own and all there is,    *)
(* and a frame is read as it was sent.                                     *)
(***************************************************************************)
EXTENDS DaemonStart, SequenceTheorems, TLAPS

(***************************************************************************)
(* Where the program is: the links before index are done with, and index   *)
(* is a link to use while commands are asked about it.                     *)
(***************************************************************************)
Asking == {"pci", "caps", "pins", "gnss", "device", "record"}

CourseInv ==
    /\ index \in Nat \ {0}
    /\ pc \in {"lspci", "ip", "next", "run", "fatal"} \cup Asking
    /\ pc \notin {"lspci", "fatal"} =>
          DOMAIN PCIMap = {PciDevices[j].bus : j \in DOMAIN PciDevices}
    /\ pc \in Asking => index \in DOMAIN Links /\ Wanted(link)
    /\ pc = "run" => index \notin DOMAIN Links

ListInv ==
    /\ \A x : x \in DOMAIN macs <=>
                 \E j \in DOMAIN Links : j < index /\ Wanted(Links[j]) /\ x = Links[j].name
    /\ \A j \in DOMAIN Links :
          j < index /\ Wanted(Links[j]) => macs[Links[j].name].mac = Links[j].mac
    /\ macsExist = {macs[x].mac : x \in DOMAIN macs}

(***************************************************************************)
(* What is known of a link: each part of it says that the answer kept is   *)
(* the link's own, and all there is unless a command failed.               *)
(***************************************************************************)
AddressTrue(x, pci) ==
    /\ pci # NIL => /\ \E j \in DOMAIN PciDevices : PciDevices[j].bus = pci
                    /\ \E j \in DOMAIN BusInfo[x] : BusInfo[x][j] = pci
    /\ pci = NIL /\ x \notin faults =>
          \A j \in DOMAIN PciDevices, k \in DOMAIN BusInfo[x] : PciDevices[j].bus # BusInfo[x][k]

CapsOf(x, pins, gnss) ==
    [caps |-> Timestamping[x].caps, PhcIndex |-> PhcIndex(Timestamping[x]),
     HasPtpPins |-> pins, GnssDevice |-> gnss]

PinsTrue(x, phc, pins) ==
    /\ pins => phc >= 0 /\ "full" \in {NetPins[x], PhcPins[phc]}
    /\ ~ pins /\ phc >= 0 /\ x \notin faults =>
          \/ NetPins[x] = "empty"
          \/ NetPins[x] = "absent" /\ PhcPins[phc] # "full"

Lists(list, device) == \E k \in DOMAIN list : list[k] = device

AllRejected(x, list) == \A k \in DOMAIN list : <<x, list[k]>> \in rejected

GnssTrue(x, pci, gnss) ==
    /\ gnss # NIL =>
          /\ gnss \in Fixed
          /\ \/ Lists(NetGnss[x], gnss)
             \/ pci # NIL /\ Lists(BusGnss[pci], gnss)
    /\ gnss = NIL /\ x \notin faults =>
          /\ AllRejected(x, NetGnss[x])
          /\ pci # NIL => AllRejected(x, BusGnss[pci])

Known(x, pci, caps) ==
    /\ AddressTrue(x, pci)
    /\ caps = CapsOf(x, caps.HasPtpPins, caps.GnssDevice)
    /\ PinsTrue(x, caps.PhcIndex, caps.HasPtpPins)
    /\ GnssTrue(x, pci, caps.GnssDevice)

RecordsInv == \A x \in DOMAIN macs : Known(x, macs[x].IfPci, macs[x].IfPTPCaps)

(***************************************************************************)
(* What is known of the present link, by the commands already asked.       *)
(***************************************************************************)
AskedInv ==
    /\ pc \in Asking \ {"pci"} => AddressTrue(name, address)
    /\ pc = "pins" => ptpCaps = CapsOf(name, FALSE, NIL)
    /\ pc \in {"gnss", "device", "record"} =>
          /\ ptpCaps = CapsOf(name, ptpCaps.HasPtpPins, ptpCaps.GnssDevice)
          /\ PinsTrue(name, ptpCaps.PhcIndex, ptpCaps.HasPtpPins)
    /\ pc \in {"gnss", "device"} =>
          /\ ptpCaps.GnssDevice = NIL
          /\ path \in {1, 2}
          /\ path = 2 /\ name \notin faults => AllRejected(name, NetGnss[name])
    /\ pc = "device" =>
          /\ IsSequence(devices) /\ devices # <<>>
          /\ \A k \in DOMAIN devices : Lists(Listed, devices[k])
          /\ \A k \in DOMAIN Listed : Lists(devices, Listed[k]) \/ <<name, Listed[k]>> \in rejected
    /\ pc = "record" => GnssTrue(name, address, ptpCaps.GnssDevice)

InventoryInv == CourseInv /\ ListInv /\ AskedInv /\ RecordsInv

----------------------------------------------------------------------------
(***************************************************************************)
(* The commands and their answers.                                         *)
(***************************************************************************)
LEMMA NameWanted ==
    ASSUME CourseInv, pc \in Asking
    PROVE  name \in wantedNames
BY DEF CourseInv, name, link, wantedNames

LEMMA ClockOf ==
    ASSUME NEW x \in wantedNames
    PROVE  /\ PhcIndex(Timestamping[x]) >= 0 =>
                 PhcIndex(Timestamping[x]) \in {Timestamping[x].clock, Timestamping[x].provider}
           /\ PhcIndex(Timestamping[x]) < 0 =>
                 Timestamping[x].clock = NIL /\ Timestamping[x].provider = NIL
<1>1. /\ Timestamping[x].clock = NIL \/ Timestamping[x].clock \in Nat
      /\ Timestamping[x].provider = NIL \/ Timestamping[x].provider \in Nat
  BY AnswersAssumption
<1> QED BY <1>1 DEF PhcIndex

(***************************************************************************)
(* What is recorded stays true: the histories only grow.                   *)
(***************************************************************************)
Grow == faults \subseteq faults' /\ rejected \subseteq rejected'

LEMMA GrowNext == Next => Grow
BY DEF Next, getIfs, getGnssDevice, initPCIMap, Fatal, ListLinks, NextLink, SkipLink, AllListed,
       getPci, getPciFails, getPtpCaps, hasPtpPins, hasPtpPinsFails, ListGnss, ListGnssFails,
       ShowsFix, ShowsNoFix, Record, historyVars, Grow

LEMMA AddressKept ==
    ASSUME NEW x, NEW pci, AddressTrue(x, pci), Grow
    PROVE  AddressTrue(x, pci)'
BY DEF AddressTrue, Grow

LEMMA PinsKept ==
    ASSUME NEW x, NEW phc, NEW pins, PinsTrue(x, phc, pins), Grow
    PROVE  PinsTrue(x, phc, pins)'
BY DEF PinsTrue, Grow

LEMMA RejectedKept ==
    ASSUME NEW x, NEW list, AllRejected(x, list), Grow
    PROVE  AllRejected(x, list)'
BY DEF AllRejected, Grow

LEMMA GnssKept ==
    ASSUME NEW x, NEW pci, NEW gnss, GnssTrue(x, pci, gnss), Grow
    PROVE  GnssTrue(x, pci, gnss)'
BY DEF GnssTrue, AllRejected, Lists, Grow

LEMMA RecordsKept ==
    ASSUME RecordsInv, Grow, UNCHANGED macs
    PROVE  RecordsInv'
<1> SUFFICES ASSUME NEW x \in DOMAIN macs
             PROVE  Known(x, macs[x].IfPci, macs[x].IfPTPCaps)'
  BY DEF RecordsInv
<1>1. PICK pci, caps : pci = macs[x].IfPci /\ caps = macs[x].IfPTPCaps
  OBVIOUS
<1>2. Known(x, pci, caps)
  BY <1>1 DEF RecordsInv
<1>3. Known(x, pci, caps)'
  <2>1. AddressTrue(x, pci)'
    BY <1>2, AddressKept DEF Known
  <2>2. PICK phc, pins, gnss :
            phc = caps.PhcIndex /\ pins = caps.HasPtpPins /\ gnss = caps.GnssDevice
    OBVIOUS
  <2>3. PinsTrue(x, phc, pins)' /\ GnssTrue(x, pci, gnss)'
    BY <1>2, <2>2, PinsKept, GnssKept DEF Known
  <2>4. caps = CapsOf(x, caps.HasPtpPins, caps.GnssDevice)'
    BY <1>2 DEF Known, CapsOf
  <2> QED BY <2>1, <2>2, <2>3, <2>4 DEF Known
<1> QED BY <1>1, <1>3

LEMMA ListKept ==
    ASSUME ListInv, UNCHANGED <<index, macs, macsExist>>
    PROVE  ListInv'
BY DEF ListInv

(***************************************************************************)
(* The invariant is kept, by one part of getIfs after the other.           *)
(***************************************************************************)
LEMMA InitInventory == Init => InventoryInv
<1> SUFFICES ASSUME Init
             PROVE  InventoryInv
  OBVIOUS
<1>1. pc = "lspci" /\ index = 1 /\ DOMAIN macs = {} /\ macsExist = {}
  BY DEF Init
<1>2. CourseInv
  BY <1>1 DEF CourseInv, Asking
<1>3. ListInv
  <2>1. DOMAIN Links = 1 .. Len(Links) /\ Len(Links) \in Nat
    BY LinksAssumption DEF IsSequence
  <2> QED BY <1>1, <2>1 DEF ListInv
<1>4. AskedInv /\ RecordsInv
  BY <1>1 DEF AskedInv, RecordsInv, Asking
<1> QED BY <1>2, <1>3, <1>4 DEF InventoryInv

LEMMA ListsStep ==
    ASSUME InventoryInv, initPCIMap \/ Fatal \/ ListLinks \/ NextLink \/ SkipLink \/ AllListed
    PROVE  InventoryInv'
<1>1. UNCHANGED macVars /\ Grow
  BY GrowNext DEF initPCIMap, Fatal, ListLinks, NextLink, SkipLink, AllListed, Next, getIfs
<1>2. pc' \in {"ip", "fatal", "next", "pci", "run"}
  BY DEF initPCIMap, Fatal, ListLinks, NextLink, SkipLink, AllListed
<1>3. AskedInv' /\ RecordsInv'
  BY <1>1, <1>2, RecordsKept DEF AskedInv, Asking, InventoryInv, macVars
<1>4. CASE SkipLink
  <2>1. index \in Nat \ {0} /\ index \in DOMAIN Links /\ ~ Wanted(Links[index])
        /\ index' = index + 1 /\ UNCHANGED <<pc, PCIMap>> /\ pc = "next"
    BY <1>4 DEF SkipLink, link, InventoryInv, CourseInv
  <2>2. CourseInv'
    BY <2>1 DEF CourseInv, InventoryInv, Asking
  <2>3. DOMAIN Links = 1 .. Len(Links) /\ Len(Links) \in Nat
    BY LinksAssumption DEF IsSequence
  <2>4. \A j \in DOMAIN Links : Wanted(Links[j]) => (j < index' <=> j < index)
    BY <2>1, <2>3
  <2>5. ListInv'
    BY <1>1, <2>4 DEF ListInv, InventoryInv, macVars
  <2> QED BY <1>3, <2>2, <2>5 DEF InventoryInv
<1>5. CASE initPCIMap \/ Fatal \/ ListLinks \/ NextLink \/ AllListed
  <2>1. UNCHANGED index
    BY <1>5 DEF initPCIMap, Fatal, ListLinks, NextLink, AllListed, loopVars
  <2>2. ListInv'
    BY <1>1, <2>1, ListKept DEF InventoryInv, macVars
  <2>3. CourseInv'
    <3>1. CASE initPCIMap
      <4>1. DOMAIN PCIMap' = {PciDevices[j].bus : j \in DOMAIN PciDevices}
        BY <3>1 DEF initPCIMap, ParseLspci
      <4> QED BY <2>1, <3>1, <4>1 DEF CourseInv, InventoryInv, Asking, initPCIMap
    <3>2. CASE Fatal
      BY <2>1, <3>2 DEF CourseInv, InventoryInv, Asking, Fatal
    <3>3. CASE ListLinks
      BY <2>1, <3>3 DEF CourseInv, InventoryInv, Asking, ListLinks
    <3>4. CASE NextLink
      BY <2>1, <3>4 DEF CourseInv, InventoryInv, Asking, NextLink, link
    <3>5. CASE AllListed
      BY <2>1, <3>5 DEF CourseInv, InventoryInv, Asking, AllListed
    <3> QED BY <1>5, <3>1, <3>2, <3>3, <3>4, <3>5
  <2> QED BY <1>3, <2>2, <2>3 DEF InventoryInv
<1> QED BY <1>4, <1>5

LEMMA SameLink ==
    ASSUME InventoryInv, pc \in Asking, pc' \in Asking,
           UNCHANGED <<PCIMap, index, macVars>>, Grow
    PROVE  CourseInv' /\ ListInv' /\ RecordsInv' /\ name' = name /\ name \in wantedNames
<1>1. CourseInv'
  BY DEF InventoryInv, CourseInv, Asking, link
<1>2. ListInv' /\ RecordsInv'
  BY ListKept, RecordsKept DEF InventoryInv, macVars
<1>3. name' = name /\ name \in wantedNames
  BY NameWanted DEF InventoryInv, name, link
<1> QED BY <1>1, <1>2, <1>3

LEMMA AddressStep ==
    ASSUME InventoryInv, getPci \/ getPciFails
    PROVE  InventoryInv'
<1>1. /\ pc = "pci" /\ pc' = "caps" /\ UNCHANGED <<PCIMap, index, macVars>>
      /\ Grow
  BY GrowNext DEF getPci, getPciFails, Next, getIfs
<1>2. CourseInv' /\ ListInv' /\ RecordsInv' /\ name' = name /\ name \in wantedNames
  BY <1>1, SameLink DEF Asking
<1>3. PICK x, pci : x = name /\ pci = address'
  OBVIOUS
<1>4. AddressTrue(x, pci)'
  <2>1. CASE getPciFails
    BY <1>3, <2>1 DEF getPciFails, AddressTrue
  <2>2. CASE getPci
    <3>1. DOMAIN PCIMap = {PciDevices[j].bus : j \in DOMAIN PciDevices}
      BY <1>1 DEF InventoryInv, CourseInv
    <3>2. PICK output : output = BusInfo[x]
      OBVIOUS
    <3>3. output \in Seq({output[j] : j \in DOMAIN output}) /\ Len(output) <= 1
      BY <1>2, <1>3, <3>2, AnswersAssumption DEF IsSequence
    <3>4. \/ DOMAIN output = {} /\ output = <<>>
          \/ DOMAIN output = {1} /\ output # <<>>
      <4> DEFINE T == {output[j] : j \in DOMAIN output}
      <4>1. output \in Seq(T)
        BY <3>3
      <4> HIDE DEF T
      <4>2. PICK m \in Nat : m = Len(output) /\ DOMAIN output = 1 .. m
        BY <4>1
      <4>3. m = 0 \/ m = 1
        BY <3>3, <4>2
      <4>4. output = <<>> <=> m = 0
        BY <4>1, <4>2, EmptySeq
      <4>5. 1 .. 0 = {} /\ 1 .. 1 = {1}
        OBVIOUS
      <4> QED BY <4>2, <4>3, <4>4, <4>5
    <3>5. pci = LET bus == IF output = <<>> THEN NIL ELSE output[1]
                IN  IF bus \in DOMAIN PCIMap THEN bus ELSE NIL
      BY <1>3, <2>2, <3>2, <3>3, HeadTailProperties DEF getPci, ParseEthtool
    <3>6. \A j \in DOMAIN PciDevices : PciDevices[j].bus # NIL
      BY PciAssumption
    <3>7. /\ pci # NIL => /\ \E j \in DOMAIN PciDevices : PciDevices[j].bus = pci
                          /\ \E j \in DOMAIN output : output[j] = pci
          /\ pci = NIL => \A j \in DOMAIN PciDevices, k \in DOMAIN output :
                              PciDevices[j].bus # output[k]
      BY <3>1, <3>4, <3>5, <3>6
    <3> QED BY <3>2, <3>7 DEF AddressTrue
  <2> QED BY <2>1, <2>2
<1>5. AskedInv'
  BY <1>1, <1>2, <1>3, <1>4 DEF AskedInv, AddressTrue
<1> QED BY <1>2, <1>5 DEF InventoryInv

\* The address of the present link is known once it was asked for.
LEMMA AddressStays ==
    ASSUME InventoryInv, pc \in Asking \ {"pci"}, name' = name, address' = address, Grow
    PROVE  AddressTrue(name, address)'
<1>1. PICK x, pci : x = name /\ pci = address
  OBVIOUS
<1>2. AddressTrue(x, pci)'
  BY <1>1, AddressKept DEF InventoryInv, AskedInv
<1> QED BY <1>1, <1>2 DEF AddressTrue

LEMMA CapsStep ==
    ASSUME InventoryInv, getPtpCaps
    PROVE  InventoryInv'
<1>1. /\ pc = "caps" /\ pc' = "pins" /\ UNCHANGED <<PCIMap, index, macVars, address>>
      /\ Grow
  BY GrowNext DEF getPtpCaps, Next, getIfs
<1>2. CourseInv' /\ ListInv' /\ RecordsInv' /\ name' = name /\ name \in wantedNames
  BY <1>1, SameLink DEF Asking
<1>3. AddressTrue(name, address)'
  BY <1>1, <1>2, AddressStays DEF Asking
<1>4. ptpCaps' = CapsOf(name, FALSE, NIL)
  BY DEF getPtpCaps, NoCaps, CapsOf
<1>5. AskedInv'
  BY <1>1, <1>2, <1>3, <1>4 DEF AskedInv, CapsOf
<1> QED BY <1>2, <1>5 DEF InventoryInv

LEMMA PinsStep ==
    ASSUME InventoryInv, hasPtpPins \/ hasPtpPinsFails
    PROVE  InventoryInv'
<1>1. /\ pc = "pins" /\ pc' = "gnss" /\ path' = 1 /\ UNCHANGED <<PCIMap, index, macVars, address>>
      /\ Grow
  BY GrowNext DEF hasPtpPins, hasPtpPinsFails, Next, getIfs
<1>2. CourseInv' /\ ListInv' /\ RecordsInv' /\ name' = name /\ name \in wantedNames
  BY <1>1, SameLink DEF Asking
<1>3. AddressTrue(name, address)'
  BY <1>1, <1>2, AddressStays DEF Asking
<1>4. PICK x, phc, pins :
          x = name /\ phc = PhcIndex(Timestamping[x]) /\ pins = ptpCaps'.HasPtpPins
  OBVIOUS
<1>5. ptpCaps = CapsOf(x, FALSE, NIL) /\ ptpCaps.PhcIndex = phc
  BY <1>1, <1>4 DEF InventoryInv, AskedInv, CapsOf
<1>6. ptpCaps' = CapsOf(x, pins, NIL) /\ ptpCaps'.PhcIndex = phc
  <2>1. CASE hasPtpPins
    BY <1>4, <1>5, <2>1 DEF hasPtpPins, CapsOf
  <2>2. CASE hasPtpPinsFails
    BY <1>4, <1>5, <2>2 DEF hasPtpPinsFails, CapsOf
  <2> QED BY <2>1, <2>2
<1>7. PinsTrue(x, phc, pins)'
  <2>1. CASE hasPtpPins
    <3>1. pins = (phc >= 0 /\ pinsDir = "full")
      BY <1>4, <1>5, <2>1 DEF hasPtpPins, CapsOf
    <3>2. pinsDir = IF NetPins[x] # "absent" THEN NetPins[x] ELSE PhcPins[phc]
      BY <1>4, <1>5 DEF pinsDir
    <3>3. NetPins[x] \in {"absent", "empty", "full"}
      BY <1>2, <1>4, AnswersAssumption
    <3> QED BY <3>1, <3>2, <3>3 DEF PinsTrue
  <2>2. CASE hasPtpPinsFails
    <3>1. x \in faults' /\ ~ pins
      BY <1>4, <1>5, <2>2 DEF hasPtpPinsFails, CapsOf
    <3> QED BY <3>1 DEF PinsTrue
  <2> QED BY <2>1, <2>2
<1>8. AskedInv'
  <2>1. /\ ptpCaps' = CapsOf(name, ptpCaps.HasPtpPins, ptpCaps.GnssDevice)'
        /\ ptpCaps'.GnssDevice = NIL
    BY <1>2, <1>4, <1>6 DEF CapsOf
  <2>2. PinsTrue(name, ptpCaps.PhcIndex, ptpCaps.HasPtpPins)'
    BY <1>2, <1>4, <1>6, <1>7 DEF PinsTrue
  <2> QED BY <1>1, <1>3, <2>1, <2>2 DEF AskedInv
<1> QED BY <1>2, <1>8 DEF InventoryInv

\* Reading GNSS devices adds a device to the capabilities, and changes no other of them.
LEMMA PinsStay ==
    ASSUME InventoryInv, pc \in {"gnss", "device"}, name' = name, Grow, NEW gnss,
           ptpCaps' = [ptpCaps EXCEPT !.GnssDevice = gnss]
    PROVE  /\ ptpCaps' = CapsOf(name, ptpCaps.HasPtpPins, ptpCaps.GnssDevice)'
           /\ PinsTrue(name, ptpCaps.PhcIndex, ptpCaps.HasPtpPins)'
           /\ ptpCaps'.GnssDevice = gnss
<1>1. PICK x, phc, pins :
          x = name /\ phc = PhcIndex(Timestamping[x]) /\ pins = ptpCaps.HasPtpPins
  OBVIOUS
<1>2. ptpCaps = CapsOf(x, pins, ptpCaps.GnssDevice) /\ ptpCaps.PhcIndex = phc
  BY <1>1 DEF InventoryInv, AskedInv, CapsOf
<1>3. ptpCaps' = CapsOf(x, pins, gnss)
  BY <1>2 DEF CapsOf
<1>4. ptpCaps'.PhcIndex = phc /\ ptpCaps'.HasPtpPins = pins /\ ptpCaps'.GnssDevice = gnss
  BY <1>1, <1>3 DEF CapsOf
<1>5. PinsTrue(x, phc, pins)'
  BY <1>1, <1>2, PinsKept DEF InventoryInv, AskedInv
<1> QED BY <1>1, <1>3, <1>4, <1>5 DEF CapsOf, PinsTrue

LEMMA NoDeviceYet ==
    ASSUME InventoryInv, pc \in {"gnss", "device"}
    PROVE  ptpCaps.GnssDevice = NIL /\ ptpCaps = [ptpCaps EXCEPT !.GnssDevice = NIL]
BY DEF InventoryInv, AskedInv, CapsOf

LEMMA ListedIsSequence ==
    ASSUME InventoryInv, pc \in {"gnss", "device"}
    PROVE  IsSequence(Listed)
<1>1. CASE path = 1
  <2>1. name \in wantedNames
    BY NameWanted DEF InventoryInv, Asking
  <2> QED BY <1>1, <2>1, AnswersAssumption DEF Listed
<1>2. CASE path # 1 /\ address = NIL
  BY <1>2, EmptySeq DEF Listed, IsSequence
<1>3. CASE path # 1 /\ address # NIL
  <2>1. PICK j \in DOMAIN PciDevices : PciDevices[j].bus = address
    BY <1>3 DEF InventoryInv, AskedInv, AddressTrue, Asking
  <2> QED BY <1>3, <2>1, PciAssumption DEF Listed
<1> QED BY <1>1, <1>2, <1>3

\* A path is left when all of its devices were read without a fix, or a command failed.
LEMMA PathStep ==
    ASSUME InventoryInv, pc \in {"gnss", "device"}, NextPath, Grow,
           UNCHANGED <<PCIMap, index, address, ptpCaps, macVars>>,
           NEW x, x = name, NEW list, list = Listed,
           x \in faults' \/ AllRejected(x, list)'
    PROVE  InventoryInv'
<1>1. pc' \in {"gnss", "record"}
  BY DEF NextPath
<1>2. CourseInv' /\ ListInv' /\ RecordsInv' /\ name' = name
  BY <1>1, SameLink DEF Asking
<1>3. AddressTrue(name, address)'
  BY <1>2, AddressStays DEF Asking
<1>4. /\ ptpCaps' = CapsOf(name, ptpCaps.HasPtpPins, ptpCaps.GnssDevice)'
      /\ PinsTrue(name, ptpCaps.PhcIndex, ptpCaps.HasPtpPins)'
      /\ ptpCaps'.GnssDevice = NIL
  BY <1>2, PinsStay, NoDeviceYet
<1>5. path \in {1, 2} /\ (path = 2 /\ x \notin faults => AllRejected(x, NetGnss[x]))
  BY DEF InventoryInv, AskedInv
<1>6. CASE path = 1
  <2>1. path' = 2 /\ pc' = "gnss" /\ list = NetGnss[x]
    BY <1>6 DEF NextPath, Listed
  <2>2. x \notin faults' => AllRejected(x, NetGnss[x])'
    BY <2>1
  <2>3. name' \notin faults' => AllRejected(name, NetGnss[name])'
    BY <1>2, <2>2 DEF AllRejected
  <2>4. pc' = "gnss" /\ path' \in {1, 2}
    BY <2>1
  <2>5. AskedInv'
    BY <1>3, <1>4, <2>3, <2>4 DEF AskedInv
  <2> QED BY <1>2, <2>5 DEF InventoryInv
<1>7. CASE path = 2
  <2>1. pc' = "record"
    BY <1>7 DEF NextPath
  <2>2. PICK pci : pci = address
    OBVIOUS
  <2>3. list = IF pci = NIL THEN <<>> ELSE BusGnss[pci]
    BY <1>7, <2>2 DEF Listed
  <2>4. x \notin faults' => AllRejected(x, NetGnss[x])'
    BY <1>5, <1>7, RejectedKept DEF Grow
  <2>5. GnssTrue(x, pci, NIL)'
    BY <2>3, <2>4 DEF GnssTrue
  <2>6. GnssTrue(name, address, ptpCaps.GnssDevice)'
    BY <1>2, <1>4, <2>2, <2>5 DEF GnssTrue, AllRejected
  <2>7. AskedInv'
    BY <1>3, <1>4, <2>1, <2>6 DEF AskedInv
  <2> QED BY <1>2, <2>7 DEF InventoryInv
<1> QED BY <1>5, <1>6, <1>7

LEMMA ListGnssStep ==
    ASSUME InventoryInv, ListGnss \/ ListGnssFails
    PROVE  InventoryInv'
<1>1. /\ pc = "gnss" /\ UNCHANGED <<PCIMap, index, address, ptpCaps, macVars>>
      /\ Grow
  BY GrowNext DEF ListGnss, ListGnssFails, Next, getIfs, getGnssDevice
<1>2. PICK x, list : x = name /\ list = Listed
  OBVIOUS
<1>3. CASE ListGnssFails
  BY <1>1, <1>2, <1>3, PathStep DEF ListGnssFails
<1>4. CASE ListGnss /\ list = <<>>
  <2>1. AllRejected(x, list)'
    BY <1>4 DEF AllRejected
  <2> QED BY <1>1, <1>2, <1>4, <2>1, PathStep DEF ListGnss
<1>5. CASE ListGnss /\ list # <<>>
  <2>1. pc' = "device" /\ path' = path /\ devices' = list /\ list # <<>> /\ UNCHANGED historyVars
    BY <1>2, <1>5 DEF ListGnss
  <2>2. CourseInv' /\ ListInv' /\ RecordsInv' /\ name' = name
    BY <1>1, <2>1, SameLink DEF Asking
  <2>3. AddressTrue(name, address)'
    BY <1>1, <2>2, AddressStays DEF Asking
  <2>4. /\ ptpCaps' = CapsOf(name, ptpCaps.HasPtpPins, ptpCaps.GnssDevice)'
        /\ PinsTrue(name, ptpCaps.PhcIndex, ptpCaps.HasPtpPins)'
        /\ ptpCaps'.GnssDevice = NIL
    BY <1>1, <2>2, PinsStay, NoDeviceYet
  <2>5. path' \in {1, 2} /\ (path' = 2 /\ name' \notin faults' => AllRejected(name, NetGnss[name])')
    BY <1>1, <2>1, <2>2 DEF InventoryInv, AskedInv, AllRejected, historyVars
  <2>6. Listed' = list
    BY <1>1, <1>2, <2>1, <2>2 DEF Listed
  <2>7. IsSequence(devices)' /\ devices' # <<>>
    BY <1>1, <1>2, <2>1, ListedIsSequence DEF IsSequence
  <2>8. /\ (\A k \in DOMAIN devices : Lists(Listed, devices[k]))'
        /\ (\A k \in DOMAIN Listed : Lists(devices, Listed[k]))'
    BY <2>1, <2>6 DEF Lists
  <2>9. AskedInv'
    BY <2>1, <2>3, <2>4, <2>5, <2>7, <2>8 DEF AskedInv
  <2> QED BY <2>2, <2>9 DEF InventoryInv
<1> QED BY <1>3, <1>4, <1>5

LEMMA SeqIsSequence ==
    ASSUME NEW T, NEW list \in Seq(T)
    PROVE  IsSequence(list)
<1> DEFINE S == {list[k] : k \in DOMAIN list}
<1>1. PICK m \in Nat : m = Len(list) /\ list \in [1 .. m -> T]
  OBVIOUS
<1>2. \A k \in 1 .. m : list[k] \in S
  BY <1>1
<1> HIDE DEF S
<1>3. list \in [1 .. m -> S]
  BY <1>1, <1>2
<1>4. list \in Seq(S)
  BY <1>1, <1>3, SeqDef
<1> QED BY <1>4 DEF IsSequence, S

\* Taking the first element away leaves the others.
LEMMA TailOf ==
    ASSUME NEW list, IsSequence(list), list # <<>>
    PROVE  /\ Head(list) = list[1] /\ 1 \in DOMAIN list
           /\ IsSequence(Tail(list))
           /\ Len(list) # 1 => Tail(list) # <<>>
           /\ Len(list) = 1 => DOMAIN list = {1}
           /\ \A k \in DOMAIN Tail(list) : Lists(list, Tail(list)[k])
           /\ \A k \in DOMAIN list : list[k] = Head(list) \/ Lists(Tail(list), list[k])
<1> DEFINE S == {list[k] : k \in DOMAIN list}
<1>1. list \in Seq(S)
  BY DEF IsSequence
<1> HIDE DEF S
<1>2. PICK m \in Nat \ {0} : m = Len(list) /\ DOMAIN list = 1 .. m
  BY <1>1, EmptySeq
<1>3. PICK tail : tail = Tail(list)
  OBVIOUS
<1>4. /\ tail \in Seq(S) /\ Len(tail) = m - 1
      /\ \A k \in 1 .. m - 1 : tail[k] = list[k + 1]
  BY <1>1, <1>2, <1>3, HeadTailProperties
<1>5. DOMAIN tail = 1 .. m - 1
  BY <1>4
<1>6. Head(list) = list[1]
  BY <1>1
<1>7. \A k \in DOMAIN tail : Lists(list, tail[k])
  <2> TAKE k \in DOMAIN tail
  <2>1. k + 1 \in 1 .. m
    BY <1>5
  <2> QED BY <1>2, <1>4, <1>5, <2>1 DEF Lists
<1>8. \A k \in DOMAIN list : list[k] = Head(list) \/ Lists(tail, list[k])
  <2> SUFFICES ASSUME NEW k \in DOMAIN list, k # 1
               PROVE  Lists(tail, list[k])
    BY <1>6
  <2>1. k - 1 \in 1 .. m - 1 /\ (k - 1) + 1 = k
    BY <1>2
  <2> QED BY <1>4, <1>5, <2>1 DEF Lists
<1>9. m # 1 => tail # <<>>
  BY <1>2, <1>4, EmptySeq
<1>10. 1 \in 1 .. m /\ (m = 1 => 1 .. m = {1})
  OBVIOUS
<1> QED BY <1>2, <1>3, <1>4, <1>6, <1>7, <1>8, <1>9, <1>10, SeqIsSequence

LEMMA FixStep ==
    ASSUME InventoryInv, ShowsFix
    PROVE  InventoryInv'
<1>1. /\ pc = "device" /\ pc' = "record"
      /\ UNCHANGED <<PCIMap, index, address, path, devices, macVars>> /\ Grow
      /\ Head(devices) \in Fixed /\ ptpCaps' = [ptpCaps EXCEPT !.GnssDevice = Head(devices)]
  BY GrowNext DEF ShowsFix, Next, getIfs, getGnssDevice
<1>2. CourseInv' /\ ListInv' /\ RecordsInv' /\ name' = name
  BY <1>1, SameLink DEF Asking
<1>3. AddressTrue(name, address)'
  BY <1>1, <1>2, AddressStays DEF Asking
<1>4. PICK x, pci, gnss : x = name /\ pci = address /\ gnss = Head(devices)
  OBVIOUS
<1>5. /\ ptpCaps' = CapsOf(name, ptpCaps.HasPtpPins, ptpCaps.GnssDevice)'
      /\ PinsTrue(name, ptpCaps.PhcIndex, ptpCaps.HasPtpPins)'
      /\ ptpCaps'.GnssDevice = gnss
  BY <1>1, <1>2, <1>4, PinsStay
<1>6. GnssTrue(x, pci, gnss)'
  <2>1. IsSequence(devices) /\ devices # <<>>
    BY <1>1 DEF InventoryInv, AskedInv
  <2>2. Lists(Listed, gnss)
    BY <1>1, <1>4, <2>1, TailOf DEF InventoryInv, AskedInv
  <2>3. \/ Lists(NetGnss[x], gnss)
        \/ pci # NIL /\ Lists(BusGnss[pci], gnss)
    BY <1>4, <2>2 DEF Listed, Lists
  <2>4. gnss # NIL /\ gnss \in Fixed
    BY <1>1, <1>4, AnswersAssumption
  <2> QED BY <2>3, <2>4 DEF GnssTrue, Lists
<1>7. GnssTrue(name, address, ptpCaps.GnssDevice)'
  BY <1>1, <1>2, <1>4, <1>5, <1>6 DEF GnssTrue, AllRejected
<1>8. AskedInv'
  BY <1>1, <1>3, <1>5, <1>7 DEF AskedInv
<1> QED BY <1>2, <1>8 DEF InventoryInv

LEMMA NoFixStep ==
    ASSUME InventoryInv, ShowsNoFix
    PROVE  InventoryInv'
<1>1. /\ pc = "device" /\ UNCHANGED <<PCIMap, index, address, ptpCaps, macVars, faults>>
      /\ Grow
  BY GrowNext DEF ShowsNoFix, Next, getIfs, getGnssDevice
<1>2. PICK x, list, read, left :
          x = name /\ list = Listed /\ read = devices /\ left = Tail(devices)
  OBVIOUS
<1>3. /\ IsSequence(read) /\ read # <<>>
      /\ \A k \in DOMAIN read : Lists(list, read[k])
      /\ \A k \in DOMAIN list : Lists(read, list[k]) \/ <<x, list[k]>> \in rejected
  BY <1>1, <1>2 DEF InventoryInv, AskedInv
<1>4. rejected' = rejected \cup {<<x, Head(read)>>} /\ devices' = left
  BY <1>2 DEF ShowsNoFix
<1>5. /\ Head(read) = read[1] /\ IsSequence(left)
      /\ Len(read) # 1 => left # <<>>
      /\ Len(read) = 1 => DOMAIN read = {1}
      /\ \A k \in DOMAIN left : Lists(read, left[k])
      /\ \A k \in DOMAIN read : read[k] = Head(read) \/ Lists(left, read[k])
  BY <1>2, <1>3, TailOf
<1>6. CASE Len(read) = 1
  <2>1. NextPath
    BY <1>2, <1>6 DEF ShowsNoFix
  <2>2. AllRejected(x, list)'
    <3> SUFFICES ASSUME NEW k \in DOMAIN list
                 PROVE  <<x, list[k]>> \in rejected'
      BY DEF AllRejected
    <3>1. Lists(read, list[k]) => list[k] = Head(read)
      BY <1>5, <1>6 DEF Lists
    <3> QED BY <1>3, <1>4, <3>1
  <2> QED BY <1>1, <1>2, <2>1, <2>2, PathStep
<1>7. CASE Len(read) # 1
  <2>1. UNCHANGED <<pc, path>>
    BY <1>2, <1>7 DEF ShowsNoFix
  <2>2. CourseInv' /\ ListInv' /\ RecordsInv' /\ name' = name
    BY <1>1, <2>1, SameLink DEF Asking
  <2>3. AddressTrue(name, address)'
    BY <1>1, <2>2, AddressStays DEF Asking
  <2>4. /\ ptpCaps' = CapsOf(name, ptpCaps.HasPtpPins, ptpCaps.GnssDevice)'
        /\ PinsTrue(name, ptpCaps.PhcIndex, ptpCaps.HasPtpPins)'
        /\ ptpCaps'.GnssDevice = NIL
    BY <1>1, <2>2, PinsStay, NoDeviceYet
  <2>5. path' \in {1, 2} /\ (path' = 2 /\ name' \notin faults' => AllRejected(name, NetGnss[name])')
    BY <1>1, <1>2, <1>4, <2>1, <2>2 DEF InventoryInv, AskedInv, AllRejected
  <2>6. Listed' = list
    BY <1>1, <1>2, <2>1, <2>2 DEF Listed
  <2>7. IsSequence(devices)' /\ devices' # <<>>
    BY <1>4, <1>5, <1>7 DEF IsSequence
  <2>8. \A k \in DOMAIN left : Lists(list, left[k])
    BY <1>3, <1>5 DEF Lists
  <2>9. \A k \in DOMAIN list : Lists(left, list[k]) \/ <<x, list[k]>> \in rejected'
    <3> TAKE k \in DOMAIN list
    <3>1. CASE Lists(read, list[k])
      BY <1>4, <1>5, <3>1 DEF Lists
    <3>2. CASE <<x, list[k]>> \in rejected
      BY <1>4, <3>2
    <3> QED BY <1>3, <3>1, <3>2
  <2>10. /\ (\A k \in DOMAIN devices : Lists(Listed, devices[k]))'
         /\ (\A k \in DOMAIN Listed : Lists(devices, Listed[k]) \/ <<name, Listed[k]>> \in rejected)'
    BY <1>2, <1>4, <2>2, <2>6, <2>8, <2>9 DEF Lists
  <2>11. pc' = "device"
    BY <1>1, <2>1
  <2>12. AskedInv'
    BY <2>3, <2>4, <2>5, <2>7, <2>10, <2>11 DEF AskedInv
  <2> QED BY <2>2, <2>12 DEF InventoryInv
<1> QED BY <1>6, <1>7

LEMMA RecordStep ==
    ASSUME InventoryInv, Record
    PROVE  InventoryInv'
<1>1. /\ pc = "record" /\ pc' = "next" /\ index' = index + 1 /\ Grow
      /\ UNCHANGED <<PCIMap, historyVars>>
      /\ macsExist' = macsExist \cup {link.mac}
  BY GrowNext DEF Record, Next, getIfs
<1>2. PICK x, entry, mac :
          /\ x = name /\ mac = link.mac
          /\ entry = [mac |-> link.mac, slave |-> link.slave,
                      IfPci |-> address, IfPTPCaps |-> ptpCaps]
  OBVIOUS
<1>3. /\ DOMAIN macs' = DOMAIN macs \cup {x}
      /\ macs'[x] = entry /\ entry.mac = mac
      /\ \A y \in DOMAIN macs : y # x => macs'[y] = macs[y]
  BY <1>2 DEF Record
<1>4. /\ index \in Nat \ {0} /\ index \in DOMAIN Links /\ Wanted(Links[index])
      /\ Links[index].name = x /\ Links[index].mac = mac
  BY <1>1, <1>2 DEF InventoryInv, CourseInv, Asking, link, name
<1>5. DOMAIN Links = 1 .. Len(Links) /\ Len(Links) \in Nat
  BY LinksAssumption DEF IsSequence
<1>6. \A j \in DOMAIN Links : j < index' <=> j < index \/ j = index
  BY <1>1, <1>4, <1>5
<1>7. CourseInv'
  BY <1>1, <1>4 DEF InventoryInv, CourseInv, Asking
<1>8. x \notin DOMAIN macs
  BY <1>4, <1>5, LinksAssumption DEF InventoryInv, ListInv
<1>9. ListInv'
  <2>1. \A y : y \in DOMAIN macs' <=>
                  \E j \in DOMAIN Links : j < index' /\ Wanted(Links[j]) /\ y = Links[j].name
    BY <1>3, <1>4, <1>6 DEF InventoryInv, ListInv
  <2>2. ASSUME NEW j \in DOMAIN Links, j < index', Wanted(Links[j])
        PROVE  macs'[Links[j].name].mac = Links[j].mac
    <3>1. CASE j = index
      BY <1>3, <1>4, <3>1
    <3>2. CASE j # index
      <4>1. j < index /\ Links[j].name \in DOMAIN macs
        BY <1>6, <2>2, <3>2 DEF InventoryInv, ListInv
      <4> QED BY <1>3, <1>8, <2>2, <4>1 DEF InventoryInv, ListInv
    <3> QED BY <3>1, <3>2
  <2>3. \A m : m \in macsExist' <=> \E y \in DOMAIN macs' : m = macs'[y].mac
    BY <1>1, <1>2, <1>3, <1>8 DEF InventoryInv, ListInv
  <2> QED BY <2>1, <2>2, <2>3 DEF ListInv
<1>10. RecordsInv'
  <2>1. AddressTrue(x, address) /\ GnssTrue(x, address, ptpCaps.GnssDevice)
    BY <1>1, <1>2 DEF InventoryInv, AskedInv, Asking
  <2>2. /\ ptpCaps = CapsOf(x, ptpCaps.HasPtpPins, ptpCaps.GnssDevice)
        /\ PinsTrue(x, ptpCaps.PhcIndex, ptpCaps.HasPtpPins)
    BY <1>1, <1>2 DEF InventoryInv, AskedInv
  <2>3. Known(x, entry.IfPci, entry.IfPTPCaps)
    BY <1>2, <2>1, <2>2 DEF Known
  <2>4. ASSUME NEW y \in DOMAIN macs'
        PROVE  Known(y, macs'[y].IfPci, macs'[y].IfPTPCaps)
    BY <1>3, <2>3 DEF InventoryInv, RecordsInv
  <2>5. ASSUME NEW y, NEW pci, NEW caps, Known(y, pci, caps)
        PROVE  Known(y, pci, caps)'
    BY <1>1, <2>5 DEF Known, AddressTrue, PinsTrue, GnssTrue, AllRejected, historyVars
  <2> SUFFICES ASSUME NEW y \in DOMAIN macs'
               PROVE  Known(y, macs[y].IfPci, macs[y].IfPTPCaps)'
    BY DEF RecordsInv
  <2>6. PICK pci, caps : pci = macs'[y].IfPci /\ caps = macs'[y].IfPTPCaps
    OBVIOUS
  <2>7. Known(y, pci, caps)'
    BY <2>4, <2>5, <2>6
  <2> QED BY <2>6, <2>7
<1>11. AskedInv'
  BY <1>1 DEF AskedInv, Asking
<1> QED BY <1>7, <1>9, <1>10, <1>11 DEF InventoryInv

LEMMA InventoryNext == InventoryInv /\ [Next]_vars => InventoryInv'
<1> SUFFICES ASSUME InventoryInv, [Next]_vars
             PROVE  InventoryInv'
  OBVIOUS
<1>1. CASE Next
  BY <1>1, ListsStep, AddressStep, CapsStep, PinsStep, ListGnssStep, FixStep, NoFixStep, RecordStep
     DEF Next, getIfs, getGnssDevice
<1>2. CASE UNCHANGED vars
  <2>1. Grow
    BY <1>2 DEF vars, Grow
  <2>2. CourseInv' /\ ListInv' /\ RecordsInv'
    BY <1>2, <2>1, RecordsKept, ListKept DEF InventoryInv, CourseInv, vars, link
  <2>3. AskedInv'
    BY <1>2 DEF InventoryInv, AskedInv, vars, AddressTrue, PinsTrue, GnssTrue, AllRejected,
                Listed, name, link
  <2> QED BY <2>2, <2>3 DEF InventoryInv
<1> QED BY <1>1, <1>2

LEMMA InventoryAlways == StartSpec => []InventoryInv
<1>1. Start => InventoryInv
  BY InitInventory DEF Start
<1>2. InventoryInv /\ [StartNext]_<<vars, receiverVars>> => InventoryInv'
  BY InventoryNext DEF StartNext
<1> QED BY <1>1, <1>2, PTL DEF StartSpec

(* When getIfs is done every link to use is recorded, under its MAC        *)
(* address, and the addresses of the daemon are those and no others,       *)
(* whatever commands about a single link failed.                           *)
THEOREM InventoryCompleteCorrect == StartSpec => []InventoryComplete
<1>1. InventoryInv => InventoryComplete
  <2> SUFFICES ASSUME InventoryInv, pc = "run"
               PROVE  /\ DOMAIN macs = wantedNames
                      /\ \A j \in DOMAIN Links :
                            Wanted(Links[j]) => macs[Links[j].name].mac = Links[j].mac
                      /\ macsExist = {macs[x].mac : x \in DOMAIN macs}
    BY DEF InventoryComplete
  <2>1. DOMAIN Links = 1 .. Len(Links) /\ Len(Links) \in Nat
    BY LinksAssumption DEF IsSequence
  <2>2. \A j \in DOMAIN Links : j < index
    BY <2>1 DEF InventoryInv, CourseInv
  <2> QED BY <2>2 DEF InventoryInv, ListInv, wantedNames
<1> QED BY <1>1, InventoryAlways, PTL

\* Only links to use are recorded.
LEMMA RecordedWanted ==
    ASSUME InventoryInv, NEW x \in DOMAIN macs
    PROVE  x \in wantedNames
BY DEF InventoryInv, ListInv, wantedNames

(* Nothing recorded of an interface belongs to another one asked about     *)
(* before it: getIfs empties the address, and getPtpCaps all the rest.     *)
THEOREM RecordsOwnCorrect == StartSpec => []RecordsOwn
<1>1. InventoryInv => RecordsOwn
  <2> SUFFICES ASSUME InventoryInv, NEW x \in DOMAIN macs,
                      NEW pci, pci = macs[x].IfPci, NEW caps, caps = macs[x].IfPTPCaps
               PROVE  /\ pci # NIL => \E j \in DOMAIN BusInfo[x] : BusInfo[x][j] = pci
                      /\ caps.caps = Timestamping[x].caps
                      /\ caps.PhcIndex >= 0 =>
                            caps.PhcIndex \in {Timestamping[x].clock, Timestamping[x].provider}
                      /\ caps.HasPtpPins =>
                            caps.PhcIndex >= 0 /\ "full" \in {NetPins[x], PhcPins[caps.PhcIndex]}
                      /\ caps.GnssDevice # NIL =>
                            /\ caps.GnssDevice \in Fixed
                            /\ \/ \E k \in DOMAIN NetGnss[x] : NetGnss[x][k] = caps.GnssDevice
                               \/ /\ pci # NIL
                                  /\ \E k \in DOMAIN BusGnss[pci] : BusGnss[pci][k] = caps.GnssDevice
    BY DEF RecordsOwn
  <2>1. Known(x, pci, caps)
    BY DEF InventoryInv, RecordsInv
  <2>2. caps.caps = Timestamping[x].caps /\ caps.PhcIndex = PhcIndex(Timestamping[x])
    BY <2>1 DEF Known, CapsOf
  <2>3. x \in wantedNames
    BY RecordedWanted
  <2> QED BY <2>1, <2>2, <2>3, ClockOf DEF Known, AddressTrue, PinsTrue, GnssTrue, Lists
<1> QED BY <1>1, InventoryAlways, PTL

(* A feature that is not recorded is not there, unless a command about the *)
(* interface failed or its GNSS devices showed no fix when they were read. *)
THEOREM NothingMissedCorrect == StartSpec => []NothingMissed
<1>1. InventoryInv => NothingMissed
  <2> SUFFICES ASSUME InventoryInv, NEW x \in DOMAIN macs, x \notin faults,
                      NEW pci, pci = macs[x].IfPci, NEW caps, caps = macs[x].IfPTPCaps
               PROVE  /\ pci = NIL =>
                            \A j \in DOMAIN PciDevices, k \in DOMAIN BusInfo[x] :
                                PciDevices[j].bus # BusInfo[x][k]
                      /\ caps.PhcIndex < 0 => Timestamping[x].clock = NIL /\ Timestamping[x].provider = NIL
                      /\ ~ caps.HasPtpPins /\ caps.PhcIndex >= 0 =>
                            \/ NetPins[x] = "empty"
                            \/ NetPins[x] = "absent" /\ PhcPins[caps.PhcIndex] # "full"
                      /\ caps.GnssDevice = NIL =>
                            /\ \A k \in DOMAIN NetGnss[x] : <<x, NetGnss[x][k]>> \in rejected
                            /\ pci # NIL =>
                                  \A k \in DOMAIN BusGnss[pci] : <<x, BusGnss[pci][k]>> \in rejected
    BY DEF NothingMissed
  <2>1. Known(x, pci, caps)
    BY DEF InventoryInv, RecordsInv
  <2>2. caps.PhcIndex = PhcIndex(Timestamping[x])
    BY <2>1 DEF Known, CapsOf
  <2>3. x \in wantedNames
    BY RecordedWanted
  <2> QED BY <2>1, <2>2, <2>3, ClockOf DEF Known, AddressTrue, PinsTrue, GnssTrue, AllRejected
<1> QED BY <1>1, InventoryAlways, PTL

----------------------------------------------------------------------------
(***************************************************************************)
(* The receiver.  The buffer starts with the frame received last, whatever *)
(* is left of longer ones behind it.                                       *)
(***************************************************************************)
BufferInv ==
    /\ IsSequence(received) /\ Len(received) \in 2 .. Size
    /\ IsSequence(data) /\ Len(data) = Size
    /\ \A cell \in 1 .. Len(received) : data[cell] = received[cell]
    /\ aFrame = Receiver!parse(data)

LEMMA FunctionIsSequence ==
    ASSUME NEW m \in Nat, NEW T, NEW list \in [1 .. m -> T]
    PROVE  IsSequence(list) /\ Len(list) = m
<1>1. list \in Seq(T)
  BY SeqDef
<1> QED BY <1>1, SeqIsSequence

\* The header of an untagged PTP frame ends with its ethertype.
LEMMA UntaggedHeader ==
    ASSUME NEW rawFrame, Len(rawFrame) \in Nat \ {0, 1}, rawFrame[2] = "88f7"
    PROVE  Receiver!ethernetHeaderLen(rawFrame) = 2
<1> DEFINE Ends(h) == /\ \A cell \in 2 .. h - 1 : rawFrame[cell] \in Receiver!VlanTypes
                      /\ rawFrame[h] \notin Receiver!VlanTypes \/ h = Len(rawFrame)
<1>1. "88f7" \notin Receiver!VlanTypes
  BY DEF Receiver!VlanTypes
<1>2. 2 \in 2 .. Len(rawFrame) /\ Ends(2)
  BY <1>1
<1>3. ASSUME NEW h \in 2 .. Len(rawFrame), Ends(h)
      PROVE  h = 2
  <2>1. 2 \in 2 .. h - 1 \/ h = 2
    OBVIOUS
  <2> QED BY <1>1, <1>3, <2>1
<1>4. Receiver!ethernetHeaderLen(rawFrame) = CHOOSE h \in 2 .. Len(rawFrame) : Ends(h)
  BY DEF Receiver!ethernetHeaderLen
<1> HIDE DEF Ends
<1> QED BY <1>2, <1>3, <1>4

\* What is parsed from a buffer that starts with a frame is the frame's.
LEMMA ParsedFromStart ==
    ASSUME NEW frame, NEW buffer, Len(frame) \in 2 .. Len(buffer), Len(buffer) \in Nat,
           \A cell \in 1 .. Len(frame) : buffer[cell] = frame[cell]
    PROVE  LET parsed == Receiver!parse(buffer)
           IN  /\ parsed.MacSa = frame[1] /\ parsed.Type = frame[2]
               /\ frame[2] # "88f7" => parsed.announce = NIL
               /\ frame[2] = "88f7" /\ Len(frame) >= 3 =>
                     /\ frame[3] # "announce" => parsed.announce = NIL
                     /\ frame[3] = "announce" /\ Len(frame) >= 5 =>
                           parsed.announce = [domain |-> frame[4], gm |-> frame[5]]
<1>1. PICK parsed : parsed = Receiver!parse(buffer)
  OBVIOUS
<1>2. PICK p \in Nat, q \in Nat : p = Len(frame) /\ q = Len(buffer) /\ 2 <= p /\ p <= q
  OBVIOUS
<1>3. 1 \in 1 .. p /\ 2 \in 1 .. p
  BY <1>2
<1>4. /\ parsed.MacSa = frame[1] /\ parsed.Type = frame[2]
      /\ parsed.announce = IF frame[2] = "88f7" THEN Receiver!parsePtpAnnounce(buffer) ELSE NIL
  BY <1>1, <1>2, <1>3 DEF Receiver!parse
<1>5. ASSUME frame[2] = "88f7", p >= 3
      PROVE  /\ frame[3] # "announce" => parsed.announce = NIL
             /\ frame[3] = "announce" /\ p >= 5 =>
                   parsed.announce = [domain |-> frame[4], gm |-> frame[5]]
  <2>1. Receiver!ethernetHeaderLen(buffer) = 2
    <3>1. buffer[2] = "88f7" /\ Len(buffer) \in Nat \ {0, 1}
      BY <1>2, <1>3, <1>5
    <3> QED BY <3>1, UntaggedHeader
  <2>2. parsed.announce = IF q < 5 \/ buffer[3] # "announce"
                            THEN NIL
                            ELSE [domain |-> buffer[4], gm |-> buffer[5]]
    BY <1>2, <1>4, <1>5, <2>1 DEF Receiver!parsePtpAnnounce, Receiver!MinAnnouncePayload
  <2>3. 3 \in 1 .. p /\ (p >= 5 => 4 \in 1 .. p /\ 5 \in 1 .. p)
    BY <1>5
  <2> QED BY <1>2, <2>2, <2>3
<1> QED BY <1>1, <1>2, <1>4, <1>5

LEMMA BufferInit == Receiver!Init => BufferInv
<1> SUFFICES ASSUME Receiver!Init
             PROVE  BufferInv
  OBVIOUS
<1>1. Size \in Nat \ {0, 1}
  BY FramesAssumption
<1>2. PICK zero : zero = Receiver!Zero
  OBVIOUS
<1>3. zero \in [1 .. Size -> {"00"}]
  BY <1>2 DEF Receiver!Zero
<1>4. IsSequence(zero) /\ Len(zero) = Size
  BY <1>1, <1>3, FunctionIsSequence
<1>5. data = zero /\ received = zero /\ aFrame = Receiver!parse(zero)
  BY <1>2 DEF Receiver!Init
<1> QED BY <1>1, <1>4, <1>5 DEF BufferInv

LEMMA BufferStep ==
    ASSUME BufferInv, NEW frame \in Frames, Receiver!RecvFrame(frame)
    PROVE  BufferInv'
<1>1. Size \in Nat \ {0, 1} /\ IsSequence(frame) /\ Len(frame) \in 2 .. Size
  BY FramesAssumption
<1>2. PICK buffer : buffer = data'
  OBVIOUS
<1>3. buffer = [cell \in 1 .. Size |-> IF cell <= Len(frame) THEN frame[cell] ELSE data[cell]]
  BY <1>2 DEF Receiver!RecvFrame
<1>4. \A cell \in 1 .. Len(frame) : buffer[cell] = frame[cell]
  BY <1>1, <1>3
<1>5. IsSequence(buffer) /\ Len(buffer) = Size
  <2> DEFINE T == {buffer[cell] : cell \in 1 .. Size}
  <2>1. \A cell \in 1 .. Size : buffer[cell] \in T
    OBVIOUS
  <2> HIDE DEF T
  <2>2. buffer \in [1 .. Size -> T]
    BY <1>3, <2>1
  <2> QED BY <1>1, <2>2, FunctionIsSequence
<1>6. received' = frame /\ data' = buffer /\ aFrame' = Receiver!parse(data)'
  BY <1>2 DEF Receiver!RecvFrame
<1> QED BY <1>1, <1>4, <1>5, <1>6 DEF BufferInv, IsSequence

LEMMA BufferAlways == StartSpec => []BufferInv
<1>1. Start => BufferInv
  BY BufferInit DEF Start
<1>2. BufferInv /\ [StartNext]_<<vars, receiverVars>> => BufferInv'
  <2> SUFFICES ASSUME BufferInv, [StartNext]_<<vars, receiverVars>>
               PROVE  BufferInv'
    OBVIOUS
  <2>1. CASE UNCHANGED receiverVars
    BY <2>1 DEF BufferInv, receiverVars, Receiver!parse, Receiver!parsePtpAnnounce,
                Receiver!ethernetHeaderLen
  <2>2. CASE Receiver!Next
    BY <2>2, BufferStep DEF Receiver!Next
  <2> QED BY <2>1, <2>2 DEF StartNext
<1> QED BY <1>1, <1>2, PTL DEF StartSpec

(* A frame is read as it was sent, for every length of the buffer and all  *)
(* frames received before: a shorter frame is not taken for the longer one *)
(* whose end Recvfrom left behind it.                                      *)
THEOREM ReadAsSentCorrect == StartSpec => []ReadAsSent
<1>1. BufferInv => ReadAsSent
  <2> SUFFICES ASSUME BufferInv
               PROVE  ReadAsSent
    OBVIOUS
  <2>1. PICK frame, buffer : frame = received /\ buffer = data
    OBVIOUS
  <2>2. /\ Len(frame) \in 2 .. Len(buffer) /\ Len(buffer) \in Nat
        /\ \A cell \in 1 .. Len(frame) : buffer[cell] = frame[cell]
        /\ aFrame = Receiver!parse(buffer)
    BY <2>1, FramesAssumption DEF BufferInv
  <2> QED BY <2>1, <2>2, ParsedFromStart DEF ReadAsSent, Receiver!ReadAsSent
<1> QED BY <1>1, BufferAlways, PTL
=============================================================================
