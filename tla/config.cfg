\* Two saves at a time over the rows of an earlier one, a lookup and a crash.
CONSTANTS
    Save = {s0, s1, s2}
    Earlier = {s0}
    Lookup = {l1}
    Key = {"auth","hostMap"}
    MaxCrashes = 1
    None = None
SPECIFICATION FairSpec
INVARIANTS
    OnlyCommittedInUse
    MixesOnlyOverlapping
    StaleIsTemporary
    NoCircularWait
PROPERTIES
    SavesEnd
    CachesBecomeFresh
CHECK_DEADLOCK FALSE
