----------------------------- MODULE NodeLabels -----------------------------
(***************************************************************************)
(* LabelNode (pkg/nodes/nodes.go): it gets a node, sets a label in its     *)
(* copy and sends the copy back.  Others update the node at the same time; *)
(* the API server refuses a copy that is not of the present version.       *)
(***************************************************************************)
EXTENDS Integers

CONSTANTS
    Callers,        \* the callers of LabelNode
    Keys, Values,   \* the labels they set
    MaxVersion,     \* bound: versions of the node
    NIL             \* no labels, or no label

Labels == [Keys -> Values \cup {NIL}]

ASSUME NilAssumption == NIL \notin Labels

VARIABLES
    node,           \* the node in the API server: [version, Labels]
    pc,             \* for each caller "idle", "got", or how its call ended:
                    \* "ok", "error" or "panic"
    NodeObject,     \* its copy of the node
    label,          \* its arguments [key, value]
    labelled        \* history: key -> the value of the last call that returned without error

vars == <<node, pc, NodeObject, label, labelled>>

Init ==
    /\ node \in [version : {1}, Labels : {NIL, [key \in Keys |-> NIL]}]
    /\ pc = [c \in Callers |-> "idle"]
    /\ NodeObject = [c \in Callers |-> NIL]
    /\ label \in [Callers -> [key : Keys, value : Values]]
    /\ labelled = [key \in Keys |-> NIL]

Get(c) ==
    /\ pc[c] = "idle"
    /\ NodeObject' = [NodeObject EXCEPT ![c] = node]
    /\ pc' = [pc EXCEPT ![c] = "got"]
    /\ UNCHANGED <<node, label, labelled>>

\* The map of the labels of a node without any is nil, and writing to it panics.
NoLabelsPanic(c) ==
    /\ pc[c] = "got" /\ NodeObject[c].Labels = NIL
    /\ pc' = [pc EXCEPT ![c] = "panic"]
    /\ UNCHANGED <<node, NodeObject, label, labelled>>

\* A mutant: the copy is sent without its version, so that the server cannot compare it.
UpdateAnyVersion(c) ==
    /\ pc[c] = "got" /\ NodeObject[c].Labels # NIL
    /\ node.version < MaxVersion
    /\ node' = [version |-> node.version + 1,
                Labels |-> [NodeObject[c].Labels EXCEPT ![label[c].key] = label[c].value]]
    /\ labelled' = [labelled EXCEPT ![label[c].key] = label[c].value]
    /\ pc' = [pc EXCEPT ![c] = "ok"]
    /\ UNCHANGED <<NodeObject, label>>

Update(c) ==
    /\ pc[c] = "got" /\ NodeObject[c].Labels # NIL
    /\ NodeObject[c].version = node.version
    /\ node.version < MaxVersion
    /\ node' = [version |-> node.version + 1,
                Labels |-> [NodeObject[c].Labels EXCEPT ![label[c].key] = label[c].value]]
    /\ labelled' = [labelled EXCEPT ![label[c].key] = label[c].value]
    /\ pc' = [pc EXCEPT ![c] = "ok"]
    /\ UNCHANGED <<NodeObject, label>>

\* The node was changed meanwhile, or the call failed: the error is returned, nothing is retried.
Fails(c) ==
    /\ pc[c] = "idle" \/ (pc[c] = "got" /\ NodeObject[c].Labels # NIL)
    /\ pc' = [pc EXCEPT ![c] = "error"]
    /\ UNCHANGED <<node, NodeObject, label, labelled>>

\* An update is made though its answer is lost.
UpdateUnanswered(c) ==
    /\ pc[c] = "got" /\ NodeObject[c].Labels # NIL
    /\ NodeObject[c].version = node.version
    /\ node.version < MaxVersion
    /\ node' = [version |-> node.version + 1,
                Labels |-> [NodeObject[c].Labels EXCEPT ![label[c].key] = label[c].value]]
    /\ labelled' = [labelled EXCEPT ![label[c].key] = NIL]
    /\ pc' = [pc EXCEPT ![c] = "error"]
    /\ UNCHANGED <<NodeObject, label>>

Again(c) ==
    /\ pc[c] \in {"ok", "error"}
    /\ pc' = [pc EXCEPT ![c] = "idle"]
    /\ \E key \in Keys, value \in Values :
          label' = [label EXCEPT ![c] = [key |-> key, value |-> value]]
    /\ UNCHANGED <<node, NodeObject, labelled>>

\* The kubelet and others change the rest of the node all the time.
OtherUpdate ==
    /\ node.version < MaxVersion
    /\ node' = [node EXCEPT !.version = @ + 1]
    /\ UNCHANGED <<pc, NodeObject, label, labelled>>

LabelNode(c) == Get(c) \/ NoLabelsPanic(c) \/ Update(c) \/ UpdateUnanswered(c) \/ Fails(c)

Next == OtherUpdate \/ \E c \in Callers : LabelNode(c) \/ Again(c)

Spec == Init /\ [][Next]_vars

----------------------------------------------------------------------------
(***************************************************************************)
(* Properties.                                                             *)
(***************************************************************************)
(* A label whose call returned without error stays on the node until       *)
(* another call sets it: no call undoes what a concurrent one has done.    *)
LabelsKept ==
    \A key \in Keys : labelled[key] # NIL =>
        node.Labels # NIL /\ node.Labels[key] = labelled[key]
=============================================================================
