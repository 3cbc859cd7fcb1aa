SPECIFICATION Spec
CONSTANTS
    File = {f1, f2}
    Block = {1, 2, 3, 4, 5, 6}
    N_DIRECT = 1
    BLOCK_SIZE = 2
    Bytes = {9}
    Bufsize = {3}
    MAX_CALLS = 3
    MAX_CRASHES = 0
INVARIANT CutAssertHolds
CHECK_DEADLOCK FALSE
