CONSTANTS
    r1 = r1
    r2 = r2
    w1 = w1
    null = null
    NULL = null
    Getter = {r1}
    PipeReader = {}
    PipeWriter = {}
    Forked = {}
    Keyboard = TRUE
    bufsize = 4
    MAX_CHARS = 9
SPECIFICATION Spec
INVARIANTS TypeOK InOrder SleeperReachable
CHECK_DEADLOCK FALSE
