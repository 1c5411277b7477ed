SPECIFICATION Spec
CONSTANTS
    MAX_PROCESS_NUM = 3
    MAX_WORKER_NUM = 2
    MAX_TICKS = 1
    BadCalls = TRUE
    Calls <- KillCalls
INVARIANT TypeOK
INVARIANT FsExclusive
INVARIANT CallsAtomic
INVARIANT ReplyHeldOnce
INVARIANT JobHasCaller
INVARIANT NoSpin
INVARIANT Inv
PROPERTY SpinIsFinal
CHECK_DEADLOCK FALSE
