------------------------------ MODULE MCCluster ------------------------------
(***************************************************************************)
(* Two nodes for TLC.  Segment 1 joins port 1 of node 1 to port 2 of       *)
(* node 2, segment 2 joins nothing: it has port 3 of node 2 alone.         *)
(***************************************************************************)
EXTENDS Cluster

MC_NodeOf == << 1, 2, 2 >>
MC_SegmentOf == << 1, 1, 2 >>
=============================================================================
