CONSTANTS
    Callers = {c1, c2}
    Keys = {k1, k2}
    Values = {v1, v2}
    MaxVersion = 4
    NIL = NIL
SPECIFICATION Spec
INVARIANT LabelsKept
CHECK_DEADLOCK FALSE
