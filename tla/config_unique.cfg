\* Two saves at a time leave two authentication configs of one host.
CONSTANTS
    Save = {s1, s2}
    Earlier = {}
    Lookup = {l1}
    Key = {"auth"}
    MaxCrashes = 0
    None = None
SPECIFICATION Spec
INVARIANT OneAuthConfigPerHost
CHECK_DEADLOCK FALSE
