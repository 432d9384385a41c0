--------------------------- MODULE TopologyDrawing ---------------------------
(***************************************************************************)
(* l2dump (cmd/l2dump/main.go): getGraph draws the LANs of a discovery,    *)
(* one after the other, as a node of the drawing with a colour of its own  *)
(* and edges to the interfaces on it.  LANs of one interface are not       *)
(* drawn.                                                                  *)
(***************************************************************************)
EXTENDS Integers, Sequences, FiniteSets, Functions

CONSTANTS
    Discovered,     \* the LANs a discovery may find: sequences of disjoint sets of interfaces
    Colors          \* the number of colours, 8 in the code

ASSUME ColorsAssumption == Colors \in Nat

ASSUME DiscoveredAssumption ==
    \A found \in Discovered :
        /\ found \in Seq(Range(found))
        /\ \A a \in DOMAIN found : IsFiniteSet(found[a]) /\ found[a] # {}
        /\ \A a, b \in DOMAIN found : a # b => found[a] \cap found[b] = {}

VARIABLES
    LANs,           \* the LANs of the configuration, in its order
    todo,           \* those getGraph has still to look at
    k,              \* its counter of the LANs drawn
    lans,           \* the colours of the LANs drawn, colors[0] being 0
    edges,          \* the edges drawn: interface -> position in lans
    drawPc          \* "drawing", "done" or "panic"

drawVars == <<LANs, todo, k, lans, edges, drawPc>>

DrawInit ==
    /\ LANs \in Discovered
    /\ todo = LANs
    /\ k = 0 /\ lans = <<>> /\ edges = <<>>
    /\ drawPc = "drawing"

\* A mutant: a LAN that is not drawn uses up a number.
SkipCounted ==
    /\ drawPc = "drawing" /\ todo # <<>>
    /\ Cardinality(Head(todo)) = 1
    /\ todo' = Tail(todo)
    /\ k' = k + 1
    /\ UNCHANGED <<LANs, lans, edges, drawPc>>

Skip ==
    /\ drawPc = "drawing" /\ todo # <<>>
    /\ Cardinality(Head(todo)) = 1
    /\ todo' = Tail(todo)
    /\ UNCHANGED <<LANs, k, lans, edges, drawPc>>

Draw ==
    /\ drawPc = "drawing" /\ todo # <<>>
    /\ Cardinality(Head(todo)) # 1
    /\ k < Colors
    /\ lans' = Append(lans, k)
    /\ edges' = [x \in DOMAIN edges \cup Head(todo) |->
                   IF x \in Head(todo) THEN k + 1 ELSE edges[x]]
    /\ k' = k + 1
    /\ todo' = Tail(todo)
    /\ UNCHANGED <<LANs, drawPc>>

\* colors[k] is read before k is compared with the number of colours.
OutOfColors ==
    /\ drawPc = "drawing" /\ todo # <<>>
    /\ Cardinality(Head(todo)) # 1
    /\ k >= Colors
    /\ drawPc' = "panic"
    /\ UNCHANGED <<LANs, todo, k, lans, edges>>

Done ==
    /\ drawPc = "drawing" /\ todo = <<>>
    /\ drawPc' = "done"
    /\ UNCHANGED <<LANs, todo, k, lans, edges>>

DrawNext == Skip \/ Draw \/ OutOfColors \/ Done

DrawSpec == DrawInit /\ [][DrawNext]_drawVars

----------------------------------------------------------------------------
(***************************************************************************)
(* Properties.                                                             *)
(***************************************************************************)
Drawable == {lan \in Range(LANs) : Cardinality(lan) > 1}

\* The LANs drawn when there are no colours left.
Extra == {position \in DOMAIN lans : position > Colors}

(* The drawing shows the LANs: the interfaces of every LAN with more than  *)
(* one are joined to one node of the drawing, no two LANs to the same one, *)
(* nor to one of the same colour unless both are extra ones, and no other  *)
(* interface is joined to any.  Nothing panics as long as there are        *)
(* colours for the LANs drawn; those that are not drawn cost none.         *)
DrawingTrue ==
    /\ drawPc = "done" =>
          /\ DOMAIN edges = UNION Drawable
          /\ \A lan, other \in Drawable : \A x \in lan, y \in other :
                /\ edges[x] \in DOMAIN lans /\ edges[y] \in DOMAIN lans
                /\ lan = other <=> edges[x] = edges[y]
                /\ lans[edges[x]] = lans[edges[y]] =>
                      lan = other \/ {edges[x], edges[y]} \subseteq Extra
    /\ drawPc = "panic" => Cardinality(Drawable) > Colors

(* "All extra LANs will be the same color skyblue": more LANs than there   *)
(* are colours are drawn all the same, the extra ones in one colour.       *)
ExtraLansDrawn ==
    /\ drawPc # "panic"
    /\ \A a, b \in Extra : lans[a] = lans[b]
=============================================================================
