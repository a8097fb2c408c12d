\* Collectors at the limit of the queue: drops, refused paths, failed length checks.
CONSTANTS
    Collector = {c1, c2}
    Analyzer = {a1}
    Trace = {t1, t2, t3, t4}
    t1 = t1
    t2 = t2
    t3 = t3
    t4 = t4
    u1 = u1
    u2 = u2
    list = list
    param = param
    bad = bad
    Path <- MCPath
    BadPath <- MCBadPath
    PathOf <- QueuePaths
    Parameterize <- MCParameterize
    Regex <- MCRegex
    NumParams <- MCNumParams
    Suspected <- MCSuspected
    NotFound = {t2}
    QueueLimit = 0
    Retention = 2
    MaxBatch = 3
    MaxLlenFailures = 1
    None = None
SPECIFICATION FairSpec
INVARIANTS
    QueueBounded
    OnePlace
PROPERTY DeliversInTheEnd
CHECK_DEADLOCK FALSE
