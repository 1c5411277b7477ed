\* One reader or two, two keys, a buffer of three places.
CONSTANTS
    r1 = r1
    r2 = r2
    Readers <- TwoReaders
    MAX_KEYBUFFER_SIZE = 3
    Keys = {k, enter}
    Enter = enter
    Uses <- OneOrTwo
SPECIFICATION Spec
INVARIANT QueueExact
INVARIANT LineWakes
PROPERTY ReadReturns
CHECK_DEADLOCK FALSE
