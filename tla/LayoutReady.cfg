SPECIFICATION LayoutSpec
CONSTANTS
    ViewScope = {s1}
    Runner = {r1, r2}
    Viewer = {v1}
    Operator = op
    Fingerprint = {p1, p2}
    NoPrint = NoPrint
    MaxChanges = 1
    MaxLayoutFaults = 1
INVARIANTS
    ReadyIsDurable
