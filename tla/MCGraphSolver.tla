--------------------------- MODULE MCGraphSolver ---------------------------
(***************************************************************************)
(* Instances of GraphSolver for TLC.                                       *)
(***************************************************************************)
EXTENDS GraphSolver

CONSTANTS n1, n2    \* names of the problems

Port(name, node, device, phc, gnss, announces) ==
    [name |-> name, node |-> node, device |-> device, wpc |-> TRUE,
     phc |-> phc, pins |-> TRUE, gnss |-> gnss, announces |-> announces]

Locked == <<24, 6>>
FreeRun == <<0, 248>>

(***************************************************************************)
(* Two nodes with a two-port NIC each, cross-connected by two LANs; port 1 *)
(* hears a locked and a free-running grandmaster.                          *)
(***************************************************************************)
Crossed ==
    [ifs |-> << Port("e0", "w", "a", 0, FALSE, {}),
                Port("e1", "w", "a", 0, FALSE, {Locked, FreeRun}),
                Port("e0", "m", "a", 1, TRUE, {}),
                Port("e1", "m", "a", 1, FALSE, {FreeRun}) >>,
     lans |-> {{0, 2}, {1, 3}},
     ports |-> {<<"e1", "w">>}]

\* The four interfaces of TestTGMConstraintRequiresConnectedGNSSDevice.
TwoNics ==
    [ifs |-> << Port("ens4f0", "disconnected", "0000:8a:00", 5, FALSE, {}),
                Port("ens4f1", "disconnected", "0000:8a:00", 5, FALSE, {}),
                Port("ens7f0", "connected", "0000:ca:00", 9, TRUE, {}),
                Port("ens7f1", "connected", "0000:ca:00", 9, FALSE, {}) >>,
     lans |-> {}, ports |-> {}]

\* Two ports on one LAN, too few for a problem of three variables.
Pair ==
    [ifs |-> << Port("e0", "w", NoDevice, -1, FALSE, {Locked}),
                Port("e0", "m", NoDevice, -1, FALSE, {Locked}) >>,
     lans |-> {{0, 1}}, ports |-> {}]

\* A cluster without interfaces.
Empty == [ifs |-> <<>>, lans |-> {}, ports |-> {}]

MC_Configs == {Crossed, TwoNics, Pair, Empty}

(***************************************************************************)
(* The problem of the example programs, and others of the same shape.      *)
(***************************************************************************)
OC == << {Step0(StepNil, Positive)},
         {Step2(StepSameLan2, 0, 1, Positive)} >>

\* A boundary clock: two ports of a NIC and a port of another node facing the first.
BC == << {Step0(StepNil, Positive)},
         {Step2(StepSameNic, 0, 1, Positive)},
         {Step2(StepSameLan2, 0, 2, Positive), Step2(StepSameNode, 0, 2, Negative)} >>

\* A telecom grandmaster, written as in the solver's test, negation flags omitted.
TGM == << {<<StepIsWPCNic, 1, 0>>, <<StepHasGNSSDevice, 1, 0>>},
          {<<StepIsWPCNic, 1, 1>>, <<StepSameNic, 2, 0, 1>>} >>

\* Every pair of interfaces, and the problem without variables.
AnyPair == << {Step0(StepNil, Positive)}, {Step0(StepNil, Positive)} >>
NoVariable == <<>>

MC_Problems == {OC, BC, TGM, AnyPair, NoVariable}
============================================================================
