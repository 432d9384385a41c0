-------------------------------- MODULE Lans --------------------------------
(***************************************************************************)
(* The connected components of a graph, which the library gets from        *)
(* github.com/yourbasic/graph and calls LANs.                              *)
(***************************************************************************)

\* A mutant: edges lead one way only.
ComponentsOneWay(vertices, edges) ==
    LET closed == {C \in (SUBSET vertices) \ {{}} :
                      \A edge \in edges : edge[1] \in C => edge[2] \in C}
    IN  {C \in closed : \A D \in closed : D \subseteq C => D = C}

Closed(vertices, edges) ==
    {C \in (SUBSET vertices) \ {{}} : \A edge \in edges : edge[1] \in C <=> edge[2] \in C}

\* The minimal non-empty closed sets of vertices.
Components(vertices, edges) ==
    {C \in Closed(vertices, edges) : \A D \in Closed(vertices, edges) : D \subseteq C => D = C}
=============================================================================
