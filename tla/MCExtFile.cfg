\* One file with pointers of every depth, or two that share the group.
CONSTANTS
    BYTE = 8
    SIZE = 54
    POINTER_NUM = 1
    DIVIDER = 2
    Files = {f1, f2}
    Values = {junk, v1}
    Junk = junk
    Quotas <- DeepOrTwo
    EMPTYINGS = 1
    WRITES = 1
SPECIFICATION Spec
INVARIANT TypeOK
INVARIANT SpaceExact
PROPERTY GrowthAnnounced
PROPERTY IsFileStore
CHECK_DEADLOCK FALSE
