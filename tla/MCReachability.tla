--------------------------- MODULE MCReachability ---------------------------
(***************************************************************************)
(* Timeouts below, at and above the duration of a ping for TLC, and none.  *)
(***************************************************************************)
EXTENDS Reachability

MC_Timeouts == {-1, 0, 1, 3, 4, 6}
=============================================================================
