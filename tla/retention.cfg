\* Two overlapping jobs with two runs each, three traces of two counters.
CONSTANTS
    t1 = t1
    t2 = t2
    t3 = t3
    k1 = k1
    k2 = k2
    Trace = {t1, t2, t3}
    Key = {k1, k2}
    KeyOf <- TwoKeys
    Created <- ThreeTraces
    Retention = 1
    Job = {j1, j2}
    MaxTime = 3
    MaxRuns = 2
SPECIFICATION Spec
SYMMETRY Symmetry
INVARIANTS
    CountedOrStored
    TwiceOnlyByOverlap
    LostOnlyIfLate
CHECK_DEADLOCK FALSE
