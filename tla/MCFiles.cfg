\* Files and directories that are made, opened and unlinked, or a file that is
\* written and read, or two that fill the disk.
CONSTANTS
    a = a
    b = b
    BYTE = 2
    SIZE = 6
    BLOCKS = 6
    Procs = {p1}
    MAX_FILE_NUM = 5
    Names <- TwoNames
    Longer <- Prefix
    InitDirs = {a}
    CELLS = 2
    POINTER_NUM = 2
    Values = {v, w}
    Gap = gap
    Uses <- AllUses
SPECIFICATION Spec
SYMMETRY ValueSymmetry
INVARIANT ReadBack
INVARIANT BlocksOwned
PROPERTY IsNameSpace
CHECK_DEADLOCK FALSE
