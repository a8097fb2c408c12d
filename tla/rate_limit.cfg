\* Two threads, two calls in a window of 3, the clock is set twice.
CONSTANTS
    Thread = {t1, t2}
    Rps = 2
    Window = 3
    Jump <- BackAndForward
    MaxJumps = 2
    MaxTime = 8
    None = None
SPECIFICATION Spec
SYMMETRY Symmetry
INVARIANT SteadyRate
PROPERTY RefusesOnlyWhenFull
CHECK_DEADLOCK FALSE
