\* Two threads, one spare worker, four calls.
CONSTANTS
    Task = {t1, t2, t3, t4}
    Worker = {w1, w2, w3}
    NumThreads = 2
    None = None
SPECIFICATION FairSpec
INVARIANTS
    NoIdleWhileWaiting
    FullStrength
    RunInOrder
PROPERTIES TasksEnd ServesCalls
CHECK_DEADLOCK FALSE
