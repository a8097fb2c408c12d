\* An analyzer, a detection, a request and a config save: what becomes of decisions.
CONSTANTS
    Analyzer = {a1}
    Job = {j1}
    Request = {u1}
    Save = {s1}
    Id = {i1, i2}
    Key <- BodyKey
    NullKey <- MCNullKey
    Traces <- BodyTraces
    Class = {pii}
    Severity <- NoSeverity
    Limit = 2
    pii = pii
    i1 = i1
    Earlier <- Identified
    None = None
SPECIFICATION Spec
INVARIANTS
    DecisionsHold
    DroppedStaysDropped
CHECK_DEADLOCK FALSE
