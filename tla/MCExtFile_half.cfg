\* A disk that one file can fill to more than a half.
CONSTANTS
    BYTE = 2
    SIZE = 16
    POINTER_NUM = 1
    DIVIDER = 2
    Files = {f1}
    Values = {junk}
    Junk = junk
    Quotas <- DeepOnly
    EMPTYINGS = 1
    WRITES = 0
SPECIFICATION Spec
PROPERTY AvailableOnly
CHECK_DEADLOCK FALSE
