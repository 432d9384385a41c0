-------------------------- MODULE MCStepEvaluation --------------------------
(***************************************************************************)
(* Instances of StepEvaluation for TLC: three ports, two of them on node   *)
(* "w", whose features, LANs and announces vary.                           *)
(***************************************************************************)
EXTENDS StepEvaluation

Port(name, node, features, announces) ==
    [name |-> name, node |-> node, device |-> features[1], phc |-> features[2],
     wpc |-> features[3], pins |-> features[4], gnss |-> features[5],
     announces |-> announces]

Features == {NoDevice, "a"} \X {-1, 0} \X BOOLEAN \X BOOLEAN \X BOOLEAN
Plain == <<"a", 0, FALSE, TRUE, TRUE>>

\* Ports 0 and 1 with every combination of features.
NicConfigs ==
    {[ifs |-> <<Port("e0", "w", f, {}), Port("e1", "w", g, {}), Port("e0", "m", Plain, {})>>,
      lans |-> {}, ports |-> {<<"e0", "m">>}] : f, g \in Features}

\* Every partition of the ports into LANs, and a port on two LANs.
Lans == { {}, {{0, 1}}, {{0, 2}}, {{1, 2}}, {{0, 1, 2}}, {{0, 2}, {1, 2}} }

Heard == { {}, {<<24, 6>>}, {<<24, 6>>, <<0, 248>>}, {<<24, 248>>, <<0, 6>>} }

LinkConfigs ==
    {[ifs |-> <<Port("e0", "w", Plain, h), Port("e1", node, Plain, {}),
                Port("e2", "m", Plain, {})>>,
      lans |-> ls, ports |-> {<<"e0", "w">>}] :
        h \in Heard, node \in {"w", "x"}, ls \in Lans}

MC_Configs == NicConfigs \cup LinkConfigs

Constraint(kind, on, literals) ==
    {[kind |-> kind, vars |-> on, values |-> literals, negated |-> b] : b \in BOOLEAN}

MC_Constraints == UNION
    { Constraint("Nil", <<>>, <<>>),
      Constraint("IsPTP", <<0>>, <<>>),
      Constraint("IsWPCNic", <<1>>, <<>>),
      Constraint("HasGNSSDevice", <<0>>, <<>>),
      Constraint("SameLan2", <<0, 2>>, <<>>),
      Constraint("SameNic", <<1, 0>>, <<>>),
      Constraint("SameNode", <<0, 1>>, <<>>),
      Constraint("SameLan3", <<2, 0, 1>>, <<>>),
      Constraint("ClockClassLessThan", <<0>>, <<7>>),
      Constraint("ClockClassLessThan", <<1>>, <<1>>),
      Constraint("PTPDomainEquals", <<0>>, <<24>>),
      Constraint("ClockClassLessThanInDomain", <<0>>, <<7, 24>>) }

MC_Candidates == {[v \in 0 .. 2 |-> v], [v \in 0 .. 2 |-> (v + 2) % 3]}
============================================================================
