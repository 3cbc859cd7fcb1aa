SPECIFICATION Spec
CONSTANTS
    Thread = {t1, t2}
    LBA_CNT = 3
    PER_CMD = 2
    MAX_SECS = 3
    MAX_OPS = 3
    DATA_WAITS = TRUE
    None = None
INVARIANTS TypeOK Transferred NothingLeft
PROPERTY Released
CHECK_DEADLOCK FALSE
