----------------------------- MODULE Lans_proofs -----------------------------
(***************************************************************************)
(* What the users of connected components rely on.                         *)
(***************************************************************************)
EXTENDS Lans, TLAPS

(* A non-empty part of a component that no edge leaves is the whole.       *)
LEMMA ComponentWhole ==
    ASSUME NEW vertices, NEW edges, NEW C \in Components(vertices, edges),
           NEW S \in SUBSET C, S # {},
           \A edge \in edges : edge[1] \in S <=> edge[2] \in S
    PROVE  S = C
BY DEF Components, Closed

(* Every vertex is in a component, and edges do not leave it.              *)
LEMMA ComponentOf ==
    ASSUME NEW vertices, NEW edges \in SUBSET (vertices \X vertices), NEW x \in vertices
    PROVE  \E C \in Components(vertices, edges) : x \in C
<1> DEFINE Around == {D \in Closed(vertices, edges) : x \in D}
           C == {y \in vertices : \A D \in Around : y \in D}
<1>1. C \in Closed(vertices, edges)
  BY DEF Closed
<1>2. ASSUME NEW D \in Closed(vertices, edges), D \subseteq C
      PROVE  D = C
  <2>1. CASE x \in D
    BY <1>2, <2>1
  <2>2. CASE x \notin D
    <3>1. C \ D \in Around
      BY <1>1, <2>2 DEF Closed
    <3>2. C \subseteq C \ D
      BY <3>1
    <3> QED BY <1>2, <3>2 DEF Closed
  <2> QED BY <2>1, <2>2
<1> QED BY <1>1, <1>2 DEF Components

LEMMA ComponentKeepsEdges ==
    ASSUME NEW vertices, NEW edges, NEW C \in Components(vertices, edges),
           NEW edge \in edges
    PROVE  edge[1] \in C <=> edge[2] \in C
BY DEF Components, Closed

(* Components do not overlap.                                              *)
LEMMA ComponentsDisjoint ==
    ASSUME NEW vertices, NEW edges,
           NEW C \in Components(vertices, edges), NEW D \in Components(vertices, edges),
           C \cap D # {}
    PROVE  C = D
<1> DEFINE S == C \cap D
<1>1. \A edge \in edges : edge[1] \in S <=> edge[2] \in S
  BY ComponentKeepsEdges
<1>2. S \in SUBSET C /\ S \in SUBSET D /\ S # {}
  OBVIOUS
<1> HIDE DEF S
<1> QED BY <1>1, <1>2, ComponentWhole

LEMMA ComponentsCover ==
    ASSUME NEW vertices, NEW edges \in SUBSET (vertices \X vertices)
    PROVE  UNION Components(vertices, edges) = vertices
<1>1. UNION Components(vertices, edges) \subseteq vertices
  BY DEF Components, Closed
<1>2. vertices \subseteq UNION Components(vertices, edges)
  BY ComponentOf
<1> QED BY <1>1, <1>2
=============================================================================
