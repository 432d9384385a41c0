--------------------------- MODULE StepEvaluation ---------------------------
(***************************************************************************)
(* The evaluation of constraints by the graph solver.  A caller states a   *)
(* constraint by name, encodes it with one of the constructors Step0 ..    *)
(* Step1V2 as a list of integers, and applyStep decodes it, looks its      *)
(* function up and applies it to the interfaces chosen so far.             *)
(***************************************************************************)
EXTENDS SolverSteps

CONSTANTS
    Configs,       \* the configurations constraints are evaluated in
    Constraints,   \* the constraints: [kind, vars, values, negated]
    Candidates     \* the assignments of the variables 0 .. 2

VARIABLES
    config,        \* the configuration of the solver
    comb,          \* the interfaces chosen for variables 0 .. 2
    constraint,    \* the constraint evaluated last
    verdict        \* what applyStep said of it

vars == <<config, comb, constraint, verdict>>

CodeOf ==
    [Nil |-> StepNil,
     IsPTP |-> StepIsPTP, IsWPCNic |-> StepIsWPCNic, HasGNSSDevice |-> StepHasGNSSDevice,
     SameLan2 |-> StepSameLan2, SameNic |-> StepSameNic, SameNode |-> StepSameNode,
     SameLan3 |-> StepSameLan3,
     ClockClassLessThan |-> StepClockClassLessThan,
     PTPDomainEquals |-> StepPTPDomainEquals,
     ClockClassLessThanInDomain |-> StepClockClassLessThanInDomain]

(***************************************************************************)
(* The variables and literal values each function takes: a caller encodes  *)
(* it with the constructor that has as many parameters.                    *)
(***************************************************************************)
Shape(c) == <<Len(c.vars), Len(c.values)>>

ShapeOf ==
    [Nil |-> <<0, 0>>,
     IsPTP |-> <<1, 0>>, IsWPCNic |-> <<1, 0>>, HasGNSSDevice |-> <<1, 0>>,
     SameLan2 |-> <<2, 0>>, SameNic |-> <<2, 0>>, SameNode |-> <<2, 0>>,
     SameLan3 |-> <<3, 0>>,
     ClockClassLessThan |-> <<1, 1>>, PTPDomainEquals |-> <<1, 1>>,
     ClockClassLessThanInDomain |-> <<1, 2>>]

ASSUME ConstraintsAssumption ==
    \A c \in Constraints :
        /\ c \in [kind : DOMAIN ShapeOf, vars : Seq(0 .. 2), values : Seq(Int),
                  negated : BOOLEAN]
        /\ Shape(c) = ShapeOf[c.kind]

ASSUME ConfigsAssumption ==
    \A cfg \in Configs :
        /\ Len(cfg.ifs) \in Nat
        /\ \A k \in 1 .. Len(cfg.ifs) : "announces" \in DOMAIN cfg.ifs[k]

Encode(c) ==
    LET fn == CodeOf[c.kind]
        negate == IF c.negated THEN Negative ELSE Positive
    IN  CASE Shape(c) = <<0, 0>> -> Step0(fn, negate)
          [] Shape(c) = <<1, 0>> -> Step1(fn, c.vars[1], negate)
          [] Shape(c) = <<2, 0>> -> Step2(fn, c.vars[1], c.vars[2], negate)
          [] Shape(c) = <<3, 0>> -> Step3(fn, c.vars[1], c.vars[2], c.vars[3], negate)
          [] Shape(c) = <<1, 1>> -> Step1V(fn, c.vars[1], c.values[1], negate)
          [] Shape(c) = <<1, 2>> -> Step1V2(fn, c.vars[1], c.values[1], c.values[2], negate)

\* The flag of a constraint that is not negated may be left out.
WithoutFlag(test) == SubSeq(test, 1, Len(test) - 1)

Init ==
    /\ config \in Configs
    /\ comb \in Candidates
    /\ constraint = [kind |-> "Nil", vars |-> <<>>, values |-> <<>>, negated |-> FALSE]
    /\ verdict = TRUE

Evaluate(c) ==
    /\ constraint' = c
    /\ \/ verdict' = applyStep(config, {Encode(c)}, comb)
       \/ /\ ~ c.negated
          /\ verdict' = applyStep(config, {WithoutFlag(Encode(c))}, comb)
    /\ UNCHANGED <<config, comb>>

Next == \E c \in Constraints : Evaluate(c)

Spec == Init /\ [][Next]_vars

----------------------------------------------------------------------------
(***************************************************************************)
(* Properties.                                                             *)
(***************************************************************************)

(* What a constraint says, function and arguments by name.                 *)
Holds(c) ==
    LET p == [k \in DOMAIN c.vars |-> comb[c.vars[k]]]
        v == c.values
    IN  CASE c.kind = "Nil" -> TRUE
          [] c.kind = "IsPTP" -> IsPTP(config, p[1])
          [] c.kind = "IsWPCNic" -> IsWPCNicWrapper(config, p[1])
          [] c.kind = "HasGNSSDevice" -> HasGNSSDeviceWrapper(config, p[1])
          [] c.kind = "SameLan2" -> SameLan2(config, p[1], p[2])
          [] c.kind = "SameNic" -> SameNic(If(config, p[1]), If(config, p[2]))
          [] c.kind = "SameNode" -> SameNode(If(config, p[1]), If(config, p[2]))
          [] c.kind = "SameLan3" -> SameLan3(config, p[1], p[2], p[3])
          [] c.kind = "ClockClassLessThan" -> ClockClassLessThan(If(config, p[1]), v[1])
          [] c.kind = "PTPDomainEquals" -> PTPDomainEquals(If(config, p[1]), v[1])
          [] c.kind = "ClockClassLessThanInDomain" ->
                ClockClassLessThanInDomain(If(config, p[1]), v[1], v[2])

(* The integers a constructor writes are the ones applyStep reads: every   *)
(* constraint is decoded to the function, variables, literal values and    *)
(* sign it was stated with, with or without the optional flag.             *)
EncodingRoundTrips == verdict = (Holds(constraint) # constraint.negated)

Interfaces == 0 .. Len(config.ifs) - 1

(* Which port of a card stands for it does not matter: ports that share a  *)
(* clock and a subsystem get the same WPC verdict, and ports with a clock  *)
(* on one card the same GNSS verdict, whichever of them the kernel reports *)
(* the pins and the GNSS device on.                                        *)
SiblingsAgree ==
    \A i, j \in Interfaces :
        LET p == If(config, i)
            q == If(config, j)
        IN  p.node = q.node =>
              /\ p.phc = q.phc /\ p.wpc = q.wpc =>
                    IsWPCNicWrapper(config, i) = IsWPCNicWrapper(config, j)
              /\ SameNic(p, q) /\ p.phc >= 0 /\ q.phc >= 0 =>
                    HasGNSSDeviceWrapper(config, i) = HasGNSSDeviceWrapper(config, j)

(* When the LANs are disjoint, as discovery computes them, three ports are *)
(* on one LAN exactly when the first shares its LAN with both others; the  *)
(* test on nodes only ever removes ports of the first one's node.          *)
LanStepsAgree ==
    (\A lan, other \in config.lans : lan # other => lan \cap other = {}) =>
        \A i, j, k \in Interfaces :
            /\ SameLan3(config, i, j, k) =>
                  SameLan2(config, i, j) /\ SameLan2(config, i, k) /\ SameLan2(config, j, k)
            /\ SameLan2(config, i, j) /\ SameLan2(config, i, k) =>
                  \/ SameLan3(config, i, j, k)
                  \/ If(config, i).node \in {If(config, j).node, If(config, k).node}

(* The combined announce test says that one grandmaster alone would pass   *)
(* both single tests, not that two of them share the work; a port that     *)
(* passes for some domain passes the single clock class test, and the      *)
(* reverse.                                                                *)
AnnounceStepsAgree ==
    \A if \in {If(config, i) : i \in Interfaces} : \A a, b \in if.announces :
        LET threshold == b[2] + 1
            alone(c) == [if EXCEPT !.announces = {c}]
        IN  /\ ClockClassLessThanInDomain(if, threshold, a[1]) <=>
                  \E c \in if.announces :
                      ClockClassLessThan(alone(c), threshold) /\ PTPDomainEquals(alone(c), a[1])
            /\ ClockClassLessThan(if, threshold) <=>
                  \E c \in if.announces :
                      ClockClassLessThanInDomain(if, threshold, c[1])
=============================================================================
