-------------------------- MODULE MCTopologyDrawing --------------------------
(***************************************************************************)
(* All ways to divide six interfaces into at most four LANs, for TLC.      *)
(***************************************************************************)
EXTENDS TopologyDrawing

Interfaces == 1 .. 6
MaxLANs == 4

MC_Discovered ==
    {SelectSeq([j \in 1 .. MaxLANs |-> {x \in Interfaces : f[x] = j}], LAMBDA lan : lan # {}) :
        f \in [Interfaces -> 1 .. MaxLANs]}
=============================================================================
