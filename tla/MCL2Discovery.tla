--------------------------- MODULE MCL2Discovery ---------------------------
(***************************************************************************)
(* A cluster of two nodes for TLC.  Segment 1 joins the two bonded ports   *)
(* of node 1, which share a MAC address, to ports 1 and 9 of node 2;       *)
(* segment 2 joins port 3 of node 1 to port 2 of node 2, which lacks       *)
(* hardware timestamping.  Port 9 is skipped.                              *)
(***************************************************************************)
EXTENDS L2Discovery

MC_Nodes == {1, 2}

Port(mac, kind) == [mac |-> mac, kind |-> kind]

MC_Ifaces ==
    << [nm \in {1, 2, 3} |-> IF nm = 3 THEN Port("a3", "ptp") ELSE Port("a1", "ptp")],
       [nm \in {1, 2, 9} |-> CASE nm = 1 -> Port("b1", "ptp")
                               [] nm = 2 -> Port("b2", "plain")
                               [] nm = 9 -> Port("b9", "virtual")] >>

MC_Segment == [mac \in {"a1", "a3", "b1", "b2", "b9"} |-> IF mac \in {"a3", "b2"} THEN 2 ELSE 1]

MC_Announces == {"gm1", "gm2"}

Ptp(remote, announces) == [remote |-> remote, announces |-> announces]

\* The first report, before any frame was received, and later ones.
Early(nd) == [exp |-> <<>>, local |-> DOMAIN MC_Ifaces[nd], ptp |-> <<>>]

MC_Reports ==
    << {Early(1),
        [Early(1) EXCEPT
            !.exp = [nm \in {2, 3} |-> IF nm = 2 THEN {"b1", "b9"} ELSE {"b2"}],
            !.ptp = [nm \in {3} |-> Ptp({"b2"}, {"gm1"})]]},
       {Early(2),
        [Early(2) EXCEPT
            !.exp = [nm \in {1, 2, 9} |-> IF nm = 2 THEN {"a3"} ELSE {"a1"}],
            !.ptp = [nm \in {1, 9} |-> Ptp({"a1"}, IF nm = 1 THEN {"gm2"} ELSE {})]]} >>

MC_Skipped == {9}
============================================================================
