----------------------------- MODULE MCL2Daemon -----------------------------
(***************************************************************************)
(* A node with two ports for TLC: port 1 runs PTP, port 2 is the slave of  *)
(* a bond and hears the probes port 1 sends, both being on one segment.    *)
(***************************************************************************)
EXTENDS L2Daemon

MC_Ifaces == << [mac |-> "a1", bond |-> FALSE], [mac |-> "a2", bond |-> TRUE] >>

Frame(mac, type) == [MacSa |-> mac, Type |-> type, announce |-> NIL]

Announce(mac, gm, data) ==
    [Frame(mac, "88f7") EXCEPT !.announce = [gm |-> gm, data |-> data]]

MC_Frames ==
    << {Frame("b1", "other"), Frame("b1", "88f7"),
        Announce("b1", "gm1", 6), Announce("c1", "gm1", 7), Announce("a1", "gm2", 6)},
       {Frame("a1", "88b5"), Frame("b1", "88b5")} >>
=============================================================================
