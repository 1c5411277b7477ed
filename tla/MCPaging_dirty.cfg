SPECIFICATION Spec
CONSTANTS
    p1 = p1 p2 = p2 v1 = v1 v2 = v2 Unset = Unset
    Procs <- TwoProcs
    Values <- TwoValues
    PAGES = 3
    STACK_SIZE = 1
    BOOT_FILES = 0
    ServerValues <- TwoValues
    Sizes <- HeapSize
INVARIANT Transparent
CHECK_DEADLOCK FALSE
