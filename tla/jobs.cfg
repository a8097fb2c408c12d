\* Two queues, a threshold of one tick; the runner stops twice.
CONSTANTS
    Queues = 2
    Pid = {p1, p2}
    Threshold = 1
    MaxStops = 2
    None = None
SPECIFICATION FairSpec
PROPERTIES
    KillsHaveCause
    SignalsAreAimed
    EveryJobRunsAgain
CHECK_DEADLOCK FALSE
