---------------------------- MODULE DaemonPromise ----------------------------
(***************************************************************************)
(* What the daemon of one node promises those who read its log: it learns  *)
(* facts, who was heard where, and reports all it knows and nothing else,  *)
(* again and again while it is up.  When it is restarted it has forgotten  *)
(* them and its log is empty.                                              *)
(***************************************************************************)
CONSTANTS
    Facts,          \* all there is to learn
    NIL             \* no report in the log

VARIABLES
    up,             \* reports are being printed
    known,          \* the facts learnt
    report          \* NIL, or the facts of the last report

vars == <<up, known, report>>

Init == up \in BOOLEAN /\ known = {} /\ report = NIL

Start == up' = TRUE /\ UNCHANGED <<known, report>>

Learn(fact) == known' = known \cup {fact} /\ UNCHANGED <<up, report>>

PrintReport == up /\ report' = known /\ UNCHANGED <<up, known>>

Restart == up' \in BOOLEAN /\ known' = {} /\ report' = NIL

Next == Start \/ PrintReport \/ Restart \/ \E fact \in Facts : Learn(fact)

Spec == Init /\ [][Next]_vars

FairSpec == Spec /\ WF_vars(PrintReport)
=============================================================================
