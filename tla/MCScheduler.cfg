SPECIFICATION Spec
CONSTANTS
    t1 = t1
    t2 = t2
    t3 = t3
    Threads = {t1, t2, t3}
    Root = t1
    Idle = Idle
    wordBits = 2
    L2_BITMAP_SIZE = 2
    CONFIG_TIME_SLICE = 2
SYMMETRY Interchangeable
INVARIANT ReadyExact
INVARIANT HighestRuns
INVARIANT AssertionsHold
CHECK_DEADLOCK FALSE
