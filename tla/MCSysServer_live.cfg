SPECIFICATION FairSpec
CONSTANTS
    MAX_PROCESS_NUM = 3
    MAX_WORKER_NUM = 1
    MAX_TICKS = 2
    BadCalls = FALSE
    Calls <- AllCalls
PROPERTY Answered
PROPERTY WorkerReturns
CHECK_DEADLOCK FALSE
