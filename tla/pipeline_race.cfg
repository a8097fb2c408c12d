\* Four traces, two analyzers: races to create an endpoint, deletions, failures.
CONSTANTS
    Collector = {c1}
    Analyzer = {a1, a2}
    Trace = {t1, t2, t3, t4}
    t1 = t1
    t2 = t2
    t3 = t3
    t4 = t4
    u1 = u1
    u2 = u2
    list = list
    param = param
    bad = bad
    Path <- MCPath
    BadPath <- MCBadPath
    PathOf <- RacePaths
    Parameterize <- MCParameterize
    Regex <- MCRegex
    NumParams <- MCNumParams
    Suspected <- MCSuspected
    NotFound = {}
    QueueLimit = 3
    Retention = 2
    MaxBatch = 4
    MaxLlenFailures = 0
    None = None
SPECIFICATION Spec
SYMMETRY Symmetry
INVARIANTS
    RowsHaveEndpoint
    StoredUnderOwnPath
    AnnouncedOnce
    ListedOnce
    RaceLosesOnlyParameterized
CHECK_DEADLOCK FALSE
