--------------------------- MODULE Helpers_proofs ---------------------------
(***************************************************************************)
(* Proofs about what comes with the library: the helpers of pkg/nodes and  *)
(* the drawing of l2dump.  They share no state.  Concurrent calls of       *)
(* LabelNode do not undo each other's labels, WaitForNodeReachability      *)
(* outlasts its timeout by one ping and one second at most, and a drawing  *)
(* shows the LANs of a discovery as they are.                              *)
(***************************************************************************)
EXTENDS NodeLabels, Reachability, TopologyDrawing, FiniteSetTheorems, SequenceTheorems, TLAPS

----------------------------------------------------------------------------
(***************************************************************************)
(* LabelNode, for any number of callers, keys and values.                  *)
(***************************************************************************)
NodeType == [version : Nat, Labels : Labels \cup {NIL}]

TypeInv ==
    /\ node \in NodeType
    /\ pc \in [Callers -> {"idle", "got", "ok", "error", "panic"}]
    /\ NodeObject \in [Callers -> NodeType \cup {NIL}]
    /\ label \in [Callers -> [key : Keys, value : Values]]
    /\ labelled \in [Keys -> Values \cup {NIL}]

\* A copy is an earlier state of the node, and of the present version only if it is the node.
CopiesInv ==
    \A c \in Callers : pc[c] = "got" =>
        /\ NodeObject[c] \in NodeType
        /\ NodeObject[c].version <= node.version
        /\ NodeObject[c].version = node.version => NodeObject[c].Labels = node.Labels

Inv == TypeInv /\ CopiesInv /\ LabelsKept

LEMMA InitInv == Init => Inv
<1> SUFFICES ASSUME Init
             PROVE  Inv
  OBVIOUS
<1>1. [key \in Keys |-> NIL] \in Labels
  BY DEF Labels
<1>2. node \in NodeType
  BY <1>1 DEF Init, NodeType
<1>3. TypeInv
  BY <1>2 DEF Init, TypeInv
<1>4. CopiesInv
  BY DEF Init, CopiesInv
<1>5. LabelsKept
  BY DEF Init, LabelsKept
<1> QED BY <1>3, <1>4, <1>5 DEF Inv

\* What an update sends is the node as it is, but for the one label.
Sent(c) == [NodeObject[c].Labels EXCEPT ![label[c].key] = label[c].value]

LEMMA Updated ==
    ASSUME Inv, NEW c \in Callers, pc[c] = "got", NodeObject[c].Labels # NIL,
           NodeObject[c].version = node.version,
           node' = [version |-> node.version + 1, Labels |-> Sent(c)]
    PROVE  /\ node' \in NodeType /\ node'.version = node.version + 1 /\ node'.Labels # NIL
           /\ node'.Labels[label[c].key] = label[c].value
           /\ \A key \in Keys : key # label[c].key => node'.Labels[key] = node.Labels[key]
<1>1. node \in NodeType /\ NodeObject[c].Labels = node.Labels /\ NodeObject[c] \in NodeType
  BY DEF Inv, TypeInv, CopiesInv
<1>2. label[c].key \in Keys /\ label[c].value \in Values
  BY DEF Inv, TypeInv
<1>3. node.Labels \in Labels /\ node.version \in Nat
  BY <1>1 DEF NodeType
<1>4. Sent(c) \in Labels
  BY <1>1, <1>2, <1>3 DEF Sent, Labels
<1>5. /\ Sent(c)[label[c].key] = label[c].value
      /\ \A key \in Keys : key # label[c].key => Sent(c)[key] = node.Labels[key]
  BY <1>1, <1>2, <1>3 DEF Sent, Labels
<1>6. node'.version = node.version + 1 /\ node'.Labels = Sent(c)
  OBVIOUS
<1>7. node' \in NodeType
  BY <1>3, <1>4 DEF NodeType
<1> QED BY <1>4, <1>5, <1>6, <1>7, NilAssumption

LEMMA UpdateInv ==
    ASSUME Inv, NEW c \in Callers, Update(c) \/ UpdateUnanswered(c)
    PROVE  Inv'
<1>1. /\ pc[c] = "got" /\ NodeObject[c].Labels # NIL /\ NodeObject[c].version = node.version
      /\ node' = [version |-> node.version + 1, Labels |-> Sent(c)]
      /\ UNCHANGED <<NodeObject, label>>
  BY DEF Update, UpdateUnanswered, Sent
<1>2. \/ labelled' = [labelled EXCEPT ![label[c].key] = label[c].value]
      \/ labelled' = [labelled EXCEPT ![label[c].key] = NIL]
  BY DEF Update, UpdateUnanswered
<1>3. pc' = [pc EXCEPT ![c] = "ok"] \/ pc' = [pc EXCEPT ![c] = "error"]
  BY DEF Update, UpdateUnanswered
<1>4. /\ node' \in NodeType /\ node'.version = node.version + 1 /\ node'.Labels # NIL
      /\ node'.Labels[label[c].key] = label[c].value
      /\ \A key \in Keys : key # label[c].key => node'.Labels[key] = node.Labels[key]
  BY <1>1, Updated
<1>5. label[c].key \in Keys /\ label[c].value \in Values /\ node.version \in Nat
  BY DEF Inv, TypeInv, NodeType
<1>6. TypeInv'
  BY <1>1, <1>2, <1>3, <1>4, <1>5 DEF Inv, TypeInv
<1>7. CopiesInv'
  <2> SUFFICES ASSUME NEW d \in Callers, pc'[d] = "got"
               PROVE  /\ NodeObject[d] \in NodeType
                      /\ NodeObject[d].version <= node'.version
                      /\ NodeObject[d].version # node'.version
    BY <1>1 DEF CopiesInv
  <2>1. pc[d] = "got"
    BY <1>3 DEF Inv, TypeInv
  <2>2. NodeObject[d] \in NodeType /\ NodeObject[d].version <= node.version
    BY <2>1 DEF Inv, CopiesInv
  <2>3. NodeObject[d].version \in Nat
    BY <2>2 DEF NodeType
  <2> QED BY <1>4, <1>5, <2>2, <2>3
<1>8. LabelsKept'
  <2> SUFFICES ASSUME NEW key \in Keys, labelled'[key] # NIL
               PROVE  node'.Labels[key] = labelled'[key]
    BY <1>4 DEF LabelsKept
  <2>1. labelled \in [Keys -> Values \cup {NIL}]
    BY DEF Inv, TypeInv
  <2>2. CASE key = label[c].key
    BY <1>2, <1>4, <2>1, <2>2
  <2>3. CASE key # label[c].key
    <3>1. labelled'[key] = labelled[key]
      BY <1>2, <2>1, <2>3
    <3> QED BY <1>4, <2>3, <3>1 DEF Inv, LabelsKept
  <2> QED BY <2>2, <2>3
<1> QED BY <1>6, <1>7, <1>8 DEF Inv

LEMMA OtherInv ==
    ASSUME Inv, NEW c \in Callers,
           \/ Get(c) \/ NoLabelsPanic(c) \/ Fails(c) \/ Again(c)
    PROVE  Inv'
<1>1. UNCHANGED <<node, labelled>>
  BY DEF Get, NoLabelsPanic, Fails, Again
<1>2. TypeInv'
  BY DEF Inv, TypeInv, Get, NoLabelsPanic, Fails, Again
<1>3. CopiesInv'
  <2> SUFFICES ASSUME NEW d \in Callers, pc'[d] = "got"
               PROVE  /\ NodeObject'[d] \in NodeType
                      /\ NodeObject'[d].version <= node.version
                      /\ NodeObject'[d].version = node.version =>
                             NodeObject'[d].Labels = node.Labels
    BY <1>1 DEF CopiesInv
  <2>1. CASE d = c /\ Get(c)
    <3>1. NodeObject'[d] = node /\ node \in NodeType
      BY <2>1 DEF Get, Inv, TypeInv
    <3> QED BY <3>1 DEF NodeType
  <2>2. CASE ~ (d = c /\ Get(c))
    <3>1. pc[d] = "got" /\ NodeObject'[d] = NodeObject[d]
      BY <2>2 DEF Get, NoLabelsPanic, Fails, Again, Inv, TypeInv
    <3> QED BY <3>1 DEF Inv, CopiesInv
  <2> QED BY <2>1, <2>2
<1>4. LabelsKept'
  BY <1>1 DEF Inv, LabelsKept
<1> QED BY <1>2, <1>3, <1>4 DEF Inv

LEMMA NextInv == Inv /\ [Next]_vars => Inv'
<1> SUFFICES ASSUME Inv, [Next]_vars
             PROVE  Inv'
  OBVIOUS
<1>1. CASE OtherUpdate
  <2>1. node' = [node EXCEPT !.version = @ + 1] /\ node \in NodeType
    BY <1>1 DEF OtherUpdate, Inv, TypeInv
  <2>2. node' \in NodeType /\ node'.Labels = node.Labels /\ node'.version = node.version + 1
        /\ node.version \in Nat
    BY <2>1 DEF NodeType
  <2>3. TypeInv'
    BY <1>1, <2>2 DEF OtherUpdate, Inv, TypeInv
  <2>4. CopiesInv'
    <3> SUFFICES ASSUME NEW d \in Callers, pc[d] = "got"
                 PROVE  /\ NodeObject[d] \in NodeType
                        /\ NodeObject[d].version <= node'.version
                        /\ NodeObject[d].version # node'.version
      BY <1>1 DEF OtherUpdate, CopiesInv
    <3>1. NodeObject[d] \in NodeType /\ NodeObject[d].version <= node.version
      BY DEF Inv, CopiesInv
    <3>2. NodeObject[d].version \in Nat
      BY <3>1 DEF NodeType
    <3> QED BY <2>2, <3>1, <3>2
  <2>5. LabelsKept'
    BY <1>1, <2>2 DEF OtherUpdate, Inv, LabelsKept
  <2> QED BY <2>3, <2>4, <2>5 DEF Inv
<1>2. CASE \E c \in Callers : LabelNode(c) \/ Again(c)
  BY <1>2, UpdateInv, OtherInv DEF LabelNode
<1>3. CASE UNCHANGED vars
  BY <1>3 DEF vars, Inv, TypeInv, CopiesInv, LabelsKept
<1> QED BY <1>1, <1>2, <1>3 DEF Next

(* A label whose call returned without error stays on the node until       *)
(* another call sets it, however many callers and other writers there are. *)
THEOREM LabelsKeptCorrect == Spec => []LabelsKept
<1>1. Inv => LabelsKept
  BY DEF Inv
<1> QED BY <1>1, InitInv, NextInv, PTL DEF Spec

----------------------------------------------------------------------------
(***************************************************************************)
(* WaitForNodeReachability, for every timeout and every limit of a ping.   *)
(***************************************************************************)
\* A ping is begun before the timeout, and is followed by one sleep.
WaitInv ==
    /\ timeout \in Int /\ now \in Nat
    /\ waitPc \in {"loop", "sleep", "returned"}
    /\ now <= Max0(timeout) + PingTimeout + 1
    /\ waitPc = "sleep" => now <= Max0(timeout) + PingTimeout
    /\ waitPc = "returned" /\ now < timeout =>
          pings /\ isCurrentlyReachable = expectedReachabilityStatus

LEMMA PingBounded ==
    ASSUME WaitInv, IsNodeReachable
    PROVE  WaitInv'
<1>1. PICK duration \in 0 .. PingTimeout : now' = now + duration
  BY DEF IsNodeReachable
<1>2. now < timeout /\ timeout' = timeout /\ timeout \in Int /\ now \in Nat /\ PingTimeout \in Nat
  BY TimesAssumption DEF IsNodeReachable, arguments, WaitInv
<1>3. now' \in Nat /\ now' <= Max0(timeout) + PingTimeout
  BY <1>1, <1>2 DEF Max0
<1>4. /\ pings' = TRUE /\ UNCHANGED expectedReachabilityStatus
      /\ waitPc' = IF isCurrentlyReachable' = expectedReachabilityStatus THEN "returned" ELSE "sleep"
  BY DEF IsNodeReachable, Found, arguments
<1>5. now' <= Max0(timeout) + PingTimeout + 1
  BY <1>2, <1>3 DEF Max0
<1> QED BY <1>2, <1>3, <1>4, <1>5 DEF WaitInv, Max0

LEMMA BoundedNext == WaitInv /\ [WaitNext]_waitVars => WaitInv'
<1> SUFFICES ASSUME WaitInv, [WaitNext]_waitVars
             PROVE  WaitInv'
  OBVIOUS
<1>1. CASE NodeChanges
  BY <1>1 DEF NodeChanges, WaitInv, arguments, Max0
<1>2. CASE IsNodeReachable
  BY <1>2, PingBounded
<1>3. CASE Sleep
  <2>1. /\ waitPc = "sleep" /\ now' = now + 1 /\ waitPc' = "loop" /\ UNCHANGED timeout
        /\ now \in Nat /\ timeout \in Int /\ now <= Max0(timeout) + PingTimeout
        /\ PingTimeout \in Nat
    BY <1>3, TimesAssumption DEF Sleep, arguments, WaitInv
  <2> QED BY <2>1 DEF WaitInv, Max0
<1>4. CASE TimeOut
  BY <1>4 DEF TimeOut, WaitInv, arguments, Max0
<1>5. CASE UNCHANGED waitVars
  BY <1>5 DEF waitVars, arguments, WaitInv, Max0
<1> QED BY <1>1, <1>2, <1>3, <1>4, <1>5 DEF WaitNext

(* The call outlasts its timeout by one ping and one second at most, and   *)
(* one that returns before its timeout has seen the node as expected.      *)
THEOREM WaitBoundedCorrect == WaitSpec => []WaitBounded
<1>1. WaitInit => WaitInv
  BY TimesAssumption DEF WaitInit, WaitInv, Max0
<1>2. WaitInv => WaitBounded
  BY DEF WaitInv, WaitBounded
<1> QED BY <1>1, <1>2, BoundedNext, PTL DEF WaitSpec

----------------------------------------------------------------------------
(***************************************************************************)
(* getGraph, for all LANs and any number of colours.  It has looked at the *)
(* LANs before those left to do, and drawn the drawable ones of them.      *)
(***************************************************************************)
Position == Len(LANs) - Len(todo)

Drawn == {lan \in Drawable : \E a \in 1 .. Position : LANs[a] = lan}

TodoInv ==
    /\ LANs \in Discovered
    /\ todo \in Seq(Range(LANs)) /\ Len(todo) <= Len(LANs)
    /\ \A a \in 1 .. Len(todo) : todo[a] = LANs[Position + a]

EdgesInv ==
    /\ k \in Nat /\ k <= Colors
    /\ lans \in [1 .. k -> Nat] /\ \A c \in 1 .. k : lans[c] = c - 1
    /\ DOMAIN edges = UNION Drawn
    /\ \A lan, other \in Drawn : \A x \in lan, y \in other :
          /\ edges[x] \in 1 .. k
          /\ lan = other <=> edges[x] = edges[y]
    /\ Cardinality(Drawn) = k

EndInv ==
    /\ drawPc = "done" => todo = <<>>
    /\ drawPc = "panic" => todo # <<>> /\ Cardinality(Head(todo)) # 1 /\ k >= Colors

DrawInv == TodoInv /\ EdgesInv /\ EndInv

\* The LANs of a discovery are finite, not empty, disjoint, and each is listed once.
LEMMA FoundLANs ==
    ASSUME TodoInv
    PROVE  /\ Len(LANs) \in Nat /\ DOMAIN LANs = 1 .. Len(LANs)
           /\ LANs \in Seq(Range(LANs))
           /\ IsFiniteSet(Range(LANs))
           /\ \A a \in DOMAIN LANs : LANs[a] \in Range(LANs)
           /\ \A lan \in Range(LANs) : IsFiniteSet(lan) /\ lan # {}
           /\ \A lan, other \in Range(LANs) : lan # other => lan \cap other = {}
           /\ \A a, b \in DOMAIN LANs : LANs[a] = LANs[b] => a = b
<1>1. /\ LANs \in Seq(Range(LANs))
      /\ \A a \in DOMAIN LANs : IsFiniteSet(LANs[a]) /\ LANs[a] # {}
      /\ \A a, b \in DOMAIN LANs : a # b => LANs[a] \cap LANs[b] = {}
  BY DiscoveredAssumption DEF TodoInv
<1>2. PICK m \in Nat : m = Len(LANs) /\ DOMAIN LANs = 1 .. m
  BY <1>1
<1>3. \A lan : lan \in Range(LANs) <=> \E a \in DOMAIN LANs : lan = LANs[a]
  BY DEF Range
<1>4. IsFiniteSet(Range(LANs))
  <2>1. IsFiniteSet(1 .. m)
    BY FS_Interval
  <2>2. LANs \in [1 .. m -> Range(LANs)]
    BY <1>1, <1>2
  <2>3. LANs \in Surjection(1 .. m, Range(LANs))
    BY <1>2, <1>3, <2>2 DEF Surjection
  <2> QED BY <2>1, <2>3, FS_Surjection
<1> QED BY <1>1, <1>2, <1>3, <1>4

\* The next LAN is one of several interfaces, not drawn yet, or one of a single interface.
LEMMA NextLAN ==
    ASSUME TodoInv, todo # <<>>
    PROVE  /\ Position \in Nat /\ Position + 1 \in DOMAIN LANs
           /\ Head(todo) = LANs[Position + 1]
           /\ Head(todo) \in Drawable <=> Cardinality(Head(todo)) # 1
           /\ Head(todo) \notin Drawn
<1>1. PICK m \in Nat, t \in Nat, p \in Int : m = Len(LANs) /\ t = Len(todo) /\ p = Position
  BY FoundLANs DEF TodoInv, Position
<1>2. t \in 1 .. m /\ p = m - t /\ p \in 0 .. m - 1
  BY <1>1, EmptySeq DEF TodoInv, Position
<1>3. Head(todo) = LANs[p + 1] /\ p + 1 \in DOMAIN LANs
  BY <1>1, <1>2, FoundLANs DEF TodoInv
<1>4. PICK lan : lan = Head(todo)
  OBVIOUS
<1>5. lan \in Range(LANs) /\ IsFiniteSet(lan) /\ lan # {}
  BY <1>3, <1>4, FoundLANs
<1>6. Cardinality(lan) \in Nat /\ Cardinality(lan) # 0
  BY <1>5, FS_CardinalityType, FS_EmptySet
<1>7. lan \in Drawable <=> Cardinality(lan) # 1
  BY <1>5, <1>6 DEF Drawable
<1>8. lan \notin Drawn
  <2> SUFFICES ASSUME NEW a \in 1 .. p, LANs[a] = lan
               PROVE  FALSE
    BY <1>1 DEF Drawn
  <2>1. a \in DOMAIN LANs /\ a # p + 1
    BY <1>1, <1>2, FoundLANs
  <2> QED BY <1>3, <1>4, <2>1, FoundLANs
<1> QED BY <1>1, <1>2, <1>3, <1>4, <1>7, <1>8

\* Having looked at it, getGraph is one further, and has drawn it if it is drawable.
LEMMA TodoStep ==
    ASSUME TodoInv, todo # <<>>, todo' = Tail(todo), LANs' = LANs
    PROVE  TodoInv' /\ Position' = Position + 1
<1>1. PICK m \in Nat, t \in Nat, p \in Int : m = Len(LANs) /\ t = Len(todo) /\ p = Position
  BY FoundLANs DEF TodoInv, Position
<1>2. t \in 1 .. m /\ p = m - t /\ p \in 0 .. m - 1
  BY <1>1, EmptySeq DEF TodoInv, Position
<1>3. PICK tail : tail = Tail(todo)
  OBVIOUS
<1>4. /\ tail \in Seq(Range(LANs)) /\ Len(tail) = t - 1
      /\ \A a \in 1 .. t - 1 : tail[a] = todo[a + 1]
  BY <1>1, <1>3, HeadTailProperties DEF TodoInv
<1>5. Position' = p + 1
  BY <1>1, <1>2, <1>3, <1>4 DEF Position
<1>6. \A a \in 1 .. t - 1 : tail[a] = LANs[(p + 1) + a]
  <2> TAKE a \in 1 .. t - 1
  <2>1. a + 1 \in 1 .. t /\ p + (a + 1) = (p + 1) + a
    BY <1>2
  <2> QED BY <1>1, <1>4, <2>1 DEF TodoInv
<1>7. TodoInv'
  BY <1>1, <1>2, <1>3, <1>4, <1>5, <1>6 DEF TodoInv
<1> QED BY <1>1, <1>5, <1>7

LEMMA DrawnStep ==
    ASSUME TodoInv, todo # <<>>, todo' = Tail(todo), LANs' = LANs
    PROVE  /\ Cardinality(Head(todo)) = 1 => Drawn' = Drawn
           /\ Cardinality(Head(todo)) # 1 => Drawn' = Drawn \cup {Head(todo)}
<1>1. PICK p \in Nat, lan \in {Head(todo)} : p = Position /\ lan = Head(todo) /\ lan = LANs[p + 1]
  BY NextLAN
<1>2. Position' = p + 1
  BY <1>1, TodoStep
<1>3. 1 .. p + 1 = (1 .. p) \cup {p + 1}
  OBVIOUS
<1>4. Drawable' = Drawable
  BY DEF Drawable, Range
<1>5. \A other : other \in Drawn' <=> other \in Drawn \/ (other = lan /\ lan \in Drawable)
  BY <1>1, <1>2, <1>3, <1>4 DEF Drawn
<1>6. lan \in Drawable <=> Cardinality(lan) # 1
  BY <1>1, NextLAN
<1>7. Cardinality(lan) = 1 => Drawn' = Drawn
  BY <1>5, <1>6
<1>8. Cardinality(lan) # 1 => Drawn' = Drawn \cup {lan}
  BY <1>5, <1>6
<1> QED BY <1>1, <1>7, <1>8

\* A drawable LAN that is not drawn makes one more than those drawn.
LEMMA OneMore ==
    ASSUME TodoInv, Cardinality(Drawn) = k, NEW lan \in Drawable \ Drawn
    PROVE  /\ IsFiniteSet(Drawn) /\ Cardinality(Drawn \cup {lan}) = k + 1
           /\ Cardinality(Drawable) \in Nat /\ Cardinality(Drawable) > k
<1>1. IsFiniteSet(Drawable) /\ Drawn \cup {lan} \subseteq Drawable /\ Drawn \subseteq Drawable
  BY FoundLANs, FS_Subset DEF Drawable, Drawn
<1>2. IsFiniteSet(Drawn) /\ Cardinality(Drawn \cup {lan}) = k + 1
  BY <1>1, FS_Subset, FS_AddElement
<1>3. Cardinality(Drawn \cup {lan}) <= Cardinality(Drawable)
  BY <1>1, FS_Subset
<1>4. Cardinality(Drawable) \in Nat /\ k \in Nat
  BY <1>1, <1>2, FS_CardinalityType
<1> QED BY <1>2, <1>3, <1>4

LEMMA DrawStep ==
    ASSUME DrawInv, Draw
    PROVE  DrawInv'
<1>1. /\ todo # <<>> /\ todo' = Tail(todo) /\ LANs' = LANs /\ Cardinality(Head(todo)) # 1
      /\ k < Colors /\ k' = k + 1 /\ lans' = Append(lans, k)
      /\ drawPc = "drawing" /\ drawPc' = "drawing"
  BY DEF Draw
<1>2. PICK lan : lan = Head(todo)
  OBVIOUS
<1>3. TodoInv' /\ Drawn' = Drawn \cup {lan} /\ lan \in Drawable \ Drawn
  BY <1>1, <1>2, NextLAN, TodoStep, DrawnStep DEF DrawInv
<1>4. k \in Nat /\ Colors \in Nat /\ k + 1 <= Colors
  BY <1>1, ColorsAssumption DEF DrawInv, EdgesInv
<1>5. Cardinality(Drawn') = k + 1
  BY <1>3, OneMore DEF DrawInv, EdgesInv
<1>6. edges' = [x \in DOMAIN edges \cup lan |-> IF x \in lan THEN k + 1 ELSE edges[x]]
  BY <1>2 DEF Draw
<1>7. DOMAIN edges' = UNION (Drawn')
  BY <1>3, <1>6 DEF DrawInv, EdgesInv
<1>8. \A other \in Drawn : other # lan /\ other \cap lan = {}
  BY <1>3, FoundLANs DEF DrawInv, Drawn, Drawable
<1>9. /\ \A x \in lan : edges'[x] = k + 1
      /\ \A other \in Drawn : \A x \in other : edges'[x] = edges[x] /\ edges[x] \in 1 .. k
  BY <1>6, <1>8 DEF DrawInv, EdgesInv
<1>10. \A e \in 1 .. k : e \in 1 .. k + 1 /\ e # k + 1
  BY <1>4
<1>11. \A one, other \in Drawn' : \A x \in one, y \in other :
          /\ edges'[x] \in 1 .. k + 1
          /\ one = other <=> edges'[x] = edges'[y]
  <2> SUFFICES ASSUME NEW one \in Drawn', NEW other \in Drawn', NEW x \in one, NEW y \in other
               PROVE  edges'[x] \in 1 .. k + 1 /\ (one = other <=> edges'[x] = edges'[y])
    OBVIOUS
  <2>1. CASE one = lan /\ other = lan
    BY <1>4, <1>9, <2>1
  <2>2. CASE one \in Drawn /\ other \in Drawn
    BY <1>9, <1>10, <2>2 DEF DrawInv, EdgesInv
  <2>3. CASE one = lan /\ other \in Drawn
    BY <1>4, <1>8, <1>9, <1>10, <2>3
  <2>4. CASE one \in Drawn /\ other = lan
    BY <1>8, <1>9, <1>10, <2>4
  <2> QED BY <1>3, <2>1, <2>2, <2>3, <2>4
<1>12. lans' \in [1 .. k + 1 -> Nat] /\ \A c \in 1 .. k + 1 : lans'[c] = c - 1
  <2>1. lans \in Seq(Nat) /\ Len(lans) = k
    BY <1>4, SeqDef DEF DrawInv, EdgesInv
  <2>2. /\ lans' \in Seq(Nat) /\ Len(lans') = k + 1 /\ lans'[k + 1] = k
        /\ \A c \in 1 .. k : lans'[c] = lans[c]
    BY <1>1, <1>4, <2>1, AppendProperties
  <2>3. 1 .. k + 1 = (1 .. k) \cup {k + 1}
    BY <1>4
  <2> QED BY <1>4, <2>2, <2>3 DEF DrawInv, EdgesInv
<1>13. EdgesInv'
  BY <1>1, <1>4, <1>5, <1>7, <1>11, <1>12 DEF EdgesInv
<1> QED BY <1>1, <1>3, <1>13 DEF DrawInv, EndInv

LEMMA SameEdges ==
    ASSUME EdgesInv, UNCHANGED <<k, lans, edges>>, Drawn' = Drawn
    PROVE  EdgesInv'
<1>1. PICK drawn : drawn = Drawn
  OBVIOUS
<1> QED BY <1>1 DEF EdgesInv

LEMMA SkipStep ==
    ASSUME DrawInv, Skip
    PROVE  DrawInv'
<1>1. /\ todo # <<>> /\ todo' = Tail(todo) /\ LANs' = LANs /\ Cardinality(Head(todo)) = 1
      /\ UNCHANGED <<k, lans, edges>> /\ drawPc = "drawing" /\ drawPc' = "drawing"
  BY DEF Skip
<1>2. TodoInv' /\ Drawn' = Drawn
  BY <1>1, TodoStep, DrawnStep DEF DrawInv
<1>3. EdgesInv'
  BY <1>1, <1>2, SameEdges DEF DrawInv
<1> QED BY <1>1, <1>2, <1>3 DEF DrawInv, EndInv

LEMMA DrawInvNext == DrawInv /\ [DrawNext]_drawVars => DrawInv'
<1> SUFFICES ASSUME DrawInv, [DrawNext]_drawVars
             PROVE  DrawInv'
  OBVIOUS
<1>1. CASE Skip
  BY <1>1, SkipStep
<1>2. CASE Draw
  BY <1>2, DrawStep
<1>3. ASSUME UNCHANGED <<LANs, todo, k, lans, edges>>
      PROVE  TodoInv' /\ EdgesInv'
  <2>1. Drawn' = Drawn /\ Position' = Position
    BY <1>3 DEF Drawn, Drawable, Position, Range
  <2>2. TodoInv'
    BY <1>3, <2>1 DEF DrawInv, TodoInv
  <2> QED BY <1>3, <2>1, <2>2, SameEdges DEF DrawInv
<1>4. CASE OutOfColors
  BY <1>3, <1>4 DEF OutOfColors, DrawInv, EndInv
<1>5. CASE Done
  BY <1>3, <1>5 DEF Done, DrawInv, EndInv
<1>6. CASE UNCHANGED drawVars
  BY <1>3, <1>6 DEF drawVars, DrawInv, EndInv
<1> QED BY <1>1, <1>2, <1>4, <1>5, <1>6 DEF DrawNext

LEMMA DrawInvInit == DrawInit => DrawInv
<1> SUFFICES ASSUME DrawInit
             PROVE  DrawInv
  OBVIOUS
<1>1. /\ LANs \in Discovered /\ LANs \in Seq(Range(LANs)) /\ todo = LANs
      /\ k = 0 /\ lans = <<>> /\ edges = <<>> /\ drawPc = "drawing"
  BY DiscoveredAssumption DEF DrawInit
<1>2. Len(LANs) \in Nat /\ Position = 0
  BY <1>1 DEF Position
<1>3. TodoInv
  BY <1>1, <1>2 DEF TodoInv
<1>4. Drawn = {}
  BY <1>2 DEF Drawn
<1>5. EdgesInv
  BY <1>1, <1>4, FS_EmptySet, ColorsAssumption DEF EdgesInv
<1> QED BY <1>1, <1>3, <1>5 DEF DrawInv, EndInv

\* All LANs looked at, the drawn ones are the drawable ones, each of a colour of its own.
LEMMA DoneTrue ==
    ASSUME DrawInv, todo = <<>>
    PROVE  /\ DOMAIN edges = UNION Drawable
           /\ \A lan, other \in Drawable : \A x \in lan, y \in other :
                 /\ edges[x] \in DOMAIN lans /\ edges[y] \in DOMAIN lans
                 /\ lan = other <=> edges[x] = edges[y]
                 /\ lans[edges[x]] = lans[edges[y]] =>
                       lan = other \/ {edges[x], edges[y]} \subseteq Extra
<1>1. PICK m \in Nat : m = Len(LANs) /\ DOMAIN LANs = 1 .. m
  BY FoundLANs DEF DrawInv
<1>2. Position = m
  BY <1>1 DEF Position
<1>3. Drawn = Drawable
  BY <1>1, <1>2 DEF Drawn, Drawable, Range
<1>4. /\ k \in Nat /\ DOMAIN lans = 1 .. k /\ \A c \in 1 .. k : lans[c] = c - 1
      /\ DOMAIN edges = UNION Drawable
      /\ \A lan, other \in Drawable : \A x \in lan, y \in other :
            /\ edges[x] \in 1 .. k
            /\ lan = other <=> edges[x] = edges[y]
  BY <1>3 DEF DrawInv, EdgesInv
<1>5. \A c, d \in 1 .. k : c = d <=> lans[c] = lans[d]
  BY <1>4
<1>6. ASSUME NEW lan \in Drawable, NEW other \in Drawable, NEW x \in lan, NEW y \in other
      PROVE  /\ edges[x] \in DOMAIN lans /\ edges[y] \in DOMAIN lans
             /\ lan = other <=> edges[x] = edges[y]
             /\ lans[edges[x]] = lans[edges[y]] =>
                   lan = other \/ {edges[x], edges[y]} \subseteq Extra
  <2>1. edges[x] \in 1 .. k /\ edges[y] \in 1 .. k /\ (lan = other <=> edges[x] = edges[y])
    BY <1>4
  <2>2. lans[edges[x]] = lans[edges[y]] => edges[x] = edges[y]
    BY <1>5, <2>1
  <2> QED BY <1>4, <2>1, <2>2
<1> QED BY <1>4, <1>6

LEMMA DrawInvTrue == DrawInv => DrawingTrue
<1> SUFFICES ASSUME DrawInv
             PROVE  DrawingTrue
  OBVIOUS
<1>1. ASSUME drawPc = "panic"
      PROVE  Cardinality(Drawable) > Colors
  <2>1. Head(todo) \in Drawable \ Drawn /\ k >= Colors /\ k <= Colors
    BY <1>1, NextLAN DEF DrawInv, EndInv, EdgesInv
  <2>2. Cardinality(Drawable) \in Nat /\ Cardinality(Drawable) > k
    BY <2>1, OneMore DEF DrawInv, EdgesInv
  <2> QED BY <2>1, <2>2, ColorsAssumption DEF DrawInv, EdgesInv
<1>2. drawPc = "done" => todo = <<>>
  BY DEF DrawInv, EndInv
<1> QED BY <1>1, <1>2, DoneTrue DEF DrawingTrue

(* A drawing shows the LANs of a discovery as they are, whatever they are, *)
(* and getGraph panics only where more LANs are to be drawn than there are *)
(* colours.                                                                *)
THEOREM DrawingTrueCorrect == DrawSpec => []DrawingTrue
<1> QED BY DrawInvInit, DrawInvNext, DrawInvTrue, PTL DEF DrawSpec
=============================================================================
