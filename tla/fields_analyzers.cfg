\* Two analyzers and a request: the limit, the unique keys, the risk score.
CONSTANTS
    Analyzer = {a1, a2}
    Job = {}
    Request = {u1}
    Save = {}
    Id = {i1, i2, i3, i4}
    Key <- MCKey
    NullKey <- MCNullKey
    Traces <- MCTraces
    Class = {pii}
    Severity <- MCSeverity
    Limit = 2
    pii = pii
    i1 = i1
    Earlier <- NoRows
    None = None
SPECIFICATION FairSpec
INVARIANT LimitKept
PROPERTIES
    FailureNeedsOverlap
    RiskConverges
CHECK_DEADLOCK FALSE
