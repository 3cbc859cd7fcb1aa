CONSTANTS
    r1 = r1
    r2 = r2
    w1 = w1
    null = null
    NULL = null
    Getter = {}
    PipeReader = {r1, r2}
    PipeWriter = {w1}
    Forked = {r2}
    Keyboard = FALSE
    bufsize = 3
    MAX_CHARS = 6
SPECIFICATION Spec
INVARIANTS InOrder SleeperReachable
CHECK_DEADLOCK FALSE
