\* Three sleepers that count an interrupt each, again and again.
CONSTANTS
    Workers = {w1, w2, w3}
    MAX_TICKS = 1
    RETRIES = 2
SPECIFICATION Spec
PROPERTY SleepEnds
CHECK_DEADLOCK FALSE
