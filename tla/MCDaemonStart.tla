---------------------------- MODULE MCDaemonStart ----------------------------
(***************************************************************************)
(* A node for TLC: a loopback, the two ports of a NIC, one of which names  *)
(* its clock the new way and is the slave of a bond, the bond itself, and  *)
(* a link without PCI address or clock.                                    *)
(*                                                                         *)
(* Its receiver gets frames of two other nodes: probes, which are a header *)
(* and nothing more, PTP messages with and without the rest of an          *)
(* announce, and an announce behind a VLAN tag.                            *)
(***************************************************************************)
EXTENDS DaemonStart

Link(nm, mac) == [name |-> nm, mac |-> mac, loopback |-> FALSE, virtual |-> FALSE, slave |-> FALSE]

MC_Links ==
    << [Link("lo", "m0") EXCEPT !.loopback = TRUE],
       Link("e0", "m1"),
       [Link("e1", "m2") EXCEPT !.slave = TRUE],
       [Link("bond0", "m2") EXCEPT !.virtual = TRUE],
       Link("x0", "m3") >>

MC_PciDevices == << [bus |-> "a.0", Subsystem |-> "nic"], [bus |-> "a.1", Subsystem |-> "nic"] >>

MC_BusInfo ==
    [nm \in {"e0", "e1", "bond0", "x0"} |->
       CASE nm = "e0" -> <<"a.0">> [] nm = "e1" -> <<"a.1">> [] nm = "x0" -> <<"z.0">>
         [] OTHER -> <<>>]

MC_Timestamping ==
    [nm \in {"e0", "e1", "bond0", "x0"} |->
       CASE nm = "e0" -> [caps |-> {"tx", "rx", "raw"}, clock |-> 0, provider |-> NIL]
         [] nm = "e1" -> [caps |-> {"tx", "rx", "raw"}, clock |-> NIL, provider |-> 1]
         [] OTHER -> [caps |-> {}, clock |-> NIL, provider |-> NIL]]

MC_NetPins == [nm \in {"e0", "e1", "bond0", "x0"} |-> IF nm = "e1" THEN "empty" ELSE "absent"]
MC_PhcPins == [phc \in {0, 1} |-> "full"]

MC_NetGnss ==
    [nm \in {"e0", "e1", "bond0", "x0"} |->
       IF nm = "e0" THEN <<"gnss0", "gnss1">> ELSE <<>>]
MC_BusGnss == [bus \in {"a.0", "a.1"} |-> IF bus = "a.0" THEN <<"gnss0">> ELSE <<"gnss2">>]

MC_Frames ==
    LET from(sa) ==
            { <<sa, "88b5">>, <<sa, "0800", "ip">>, <<sa, "88f7", "sync", "d1">>,
              <<sa, "88f7", "announce", "d1">>, <<sa, "88f7", "announce", "d2", "gm2">>,
              <<sa, "88f7", "announce", "d1", "gm1">>, <<sa, "88f7", "delay", "d1", "p">>,
              <<sa, "8100", "88f7", "announce", "d1", "gm1">> }
    IN  from("a") \cup from("b")
=============================================================================
