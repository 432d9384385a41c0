---------------------------- MODULE SolverSteps ----------------------------
(***************************************************************************)
(* The constraint steps of the graph solver (pkg/graphsolver): the         *)
(* predicates on discovered interfaces and the dispatcher applyStep that   *)
(* evaluates one step of a problem on a candidate assignment.              *)
(*                                                                         *)
(* A configuration (exports.L2Info) is a record with                       *)
(*   ifs    the sequence PtpIfList; interface i of the code is ifs[i+1]    *)
(*   lans   the set of LANs, each a set of interface numbers               *)
(*   ports  the cluster indexes <<name, node>> of PortsGettingPTP          *)
(* An interface is a record with                                           *)
(*   name, node   its IfClusterIndex                                       *)
(*   device       the PCI device, NoDevice for the empty string            *)
(*   wpc          whether the PCI subsystem contains WPCNICSubsystemID     *)
(*   phc          the PHC index, negative when there is none               *)
(*   pins, gnss   whether PTP pins and a GNSS device were found            *)
(*   announces    the set of <<domain, clockClass>> announced to it        *)
(* A candidate is a function from problem variables to interface numbers.  *)
(***************************************************************************)
EXTENDS Integers, Sequences

NoDevice == ""

If(config, i) == config.ifs[i + 1]

IfClusterIndex(if) == <<if.name, if.node>>

----------------------------------------------------------------------------
(***************************************************************************)
(* Codes of the tests, as the enumerations of the code number them.        *)
(***************************************************************************)
StepNil == 0

StepIsPTP == 0
StepIsWPCNic == 1
StepHasGNSSDevice == 2

StepSameLan2 == 0
StepSameNic == 1
StepSameNode == 2

StepSameLan3 == 0

StepClockClassLessThan == 0
StepPTPDomainEquals == 1

StepClockClassLessThanInDomain == 0

OneIfaceOneValue == 10
OneIfaceTwoValues == 11

Positive == 0
Negative == 1

(***************************************************************************)
(* Constructors of encoded tests: <<function, parameter kind, parameters,  *)
(* negation flag>>.                                                        *)
(***************************************************************************)
Step0(fn, negate) == <<fn, 0, negate>>
Step1(fn, p1, negate) == <<fn, 1, p1, negate>>
Step2(fn, p1, p2, negate) == <<fn, 2, p1, p2, negate>>
Step3(fn, p1, p2, p3, negate) == <<fn, 3, p1, p2, p3, negate>>
Step1V(fn, ifParam, value, negate) ==
    <<fn, OneIfaceOneValue, ifParam, value, negate>>
Step1V2(fn, ifParam, value1, value2, negate) ==
    <<fn, OneIfaceTwoValues, ifParam, value1, value2, negate>>

----------------------------------------------------------------------------
(***************************************************************************)
(* Predicates on interfaces.                                               *)
(***************************************************************************)
IsPTP(config, i) == IfClusterIndex(If(config, i)) \in config.ports

SameNode(if1, if2) == if1.node = if2.node

SameLan2(config, i, j) == \E lan \in config.lans : {i, j} \subseteq lan

\* A mutant: the three ports need not be on one LAN.
SameLan3Chained(config, i, j, k) ==
    /\ ~ SameNode(If(config, i), If(config, j))
    /\ ~ SameNode(If(config, i), If(config, k))
    /\ SameLan2(config, i, j) \/ SameLan2(config, i, k)

SameLan3(config, i, j, k) ==
    /\ ~ SameNode(If(config, i), If(config, j))
    /\ ~ SameNode(If(config, i), If(config, k))
    /\ \E lan \in config.lans : {i, j, k} \subseteq lan

\* A port whose PCI address could not be read is on no known NIC, not even its own.
SameNic(if1, if2) ==
    /\ if1.node = if2.node
    /\ if1.device # NoDevice
    /\ if1.device = if2.device

\* The exported IsWpcNic, which looks at the one port it is given.
IsWpcNic(if) == if.phc >= 0 /\ (if.wpc \/ (if.pins /\ if.gnss))

\* The ports of a node that share the PHC of a port, as IsWPCNicWrapper collects them.
PhcSiblings(config, i) ==
    {peer \in {config.ifs[k] : k \in 1 .. Len(config.ifs)} :
        peer.node = If(config, i).node /\ peer.phc = If(config, i).phc}

IsWPCNicWrapper(config, i) ==
    /\ If(config, i).phc >= 0
    /\ \E peer \in PhcSiblings(config, i) : peer.pins
    /\ If(config, i).wpc \/ \E peer \in PhcSiblings(config, i) : peer.gnss

\* A mutant: only the port itself is looked at.
HasGNSSDeviceOfPort(config, i) == If(config, i).phc >= 0 /\ If(config, i).gnss

HasGNSSDeviceWrapper(config, i) ==
    /\ If(config, i).phc >= 0
    /\ \E k \in 1 .. Len(config.ifs) :
          SameNic(config.ifs[k], If(config, i)) /\ config.ifs[k].gnss

ClockClassLessThan(if, value) == \E a \in if.announces : a[2] < value

PTPDomainEquals(if, value) == \E a \in if.announces : a[1] = value

\* A mutant: the two conditions may be met by two announces.
ClockClassLessThanInAnyDomain(if, threshold, domain) ==
    PTPDomainEquals(if, domain) /\ ClockClassLessThan(if, threshold)

ClockClassLessThanInDomain(if, threshold, domain) ==
    \E a \in if.announces : a[1] = domain /\ a[2] < threshold

----------------------------------------------------------------------------
(***************************************************************************)
(* applyStep.  The parameter kind test[1] of the code is test[2] here;     *)
(* NegationIdx is the 0-based position of the negation flag, which may be  *)
(* absent.                                                                 *)
(***************************************************************************)
\* A mutant: the position of the flag counts parameters only.
NegationIdxByCount(test) == 2 + test[2]

NegationIdx(test) ==
    CASE test[2] = OneIfaceOneValue -> 4
      [] test[2] = OneIfaceTwoValues -> 5
      [] OTHER -> 2 + test[2]

Negated(test) ==
    Len(test) > NegationIdx(test) /\ test[NegationIdx(test) + 1] = Negative

AlgoCode1(config, fn, i) ==
    CASE fn = StepIsPTP -> IsPTP(config, i)
      [] fn = StepIsWPCNic -> IsWPCNicWrapper(config, i)
      [] fn = StepHasGNSSDevice -> HasGNSSDeviceWrapper(config, i)

AlgoCode2(config, fn, i, j) ==
    CASE fn = StepSameLan2 -> SameLan2(config, i, j)
      [] fn = StepSameNic -> SameNic(If(config, i), If(config, j))
      [] fn = StepSameNode -> SameNode(If(config, i), If(config, j))

AlgoCode1V(config, fn, i, value) ==
    CASE fn = StepClockClassLessThan -> ClockClassLessThan(If(config, i), value)
      [] fn = StepPTPDomainEquals -> PTPDomainEquals(If(config, i), value)

\* Kinds outside the dispatch table leave the zero value of the result, false.
StepResult(config, test, comb) ==
    CASE test[2] = 0 -> TRUE
      [] test[2] = 1 -> AlgoCode1(config, test[1], comb[test[3]])
      [] test[2] = 2 -> AlgoCode2(config, test[1], comb[test[3]], comb[test[4]])
      [] test[2] = 3 -> SameLan3(config, comb[test[3]], comb[test[4]], comb[test[5]])
      [] test[2] = OneIfaceOneValue ->
            AlgoCode1V(config, test[1], comb[test[3]], test[4])
      [] test[2] = OneIfaceTwoValues ->
            ClockClassLessThanInDomain(If(config, comb[test[3]]), test[4], test[5])
      [] OTHER -> FALSE

TestHolds(config, test, comb) ==
    IF Negated(test) THEN ~ StepResult(config, test, comb)
                     ELSE StepResult(config, test, comb)

\* A step is the set of its tests; the order in which they are conjoined is immaterial.
applyStep(config, step, comb) == \A test \in step : TestHolds(config, test, comb)

(***************************************************************************)
(* The problem variables a test reads, and the problems the solver can     *)
(* decide incrementally: step s only reads variables that are already      *)
(* chosen when it is applied, 0 .. s.                                      *)
(***************************************************************************)
IfParams(test) ==
    CASE test[2] = 0 -> {}
      [] test[2] = 1 -> {test[3]}
      [] test[2] = 2 -> {test[3], test[4]}
      [] test[2] = 3 -> {test[3], test[4], test[5]}
      [] test[2] = OneIfaceOneValue -> {test[3]}
      [] test[2] = OneIfaceTwoValues -> {test[3]}
      [] OTHER -> {}
============================================================================
