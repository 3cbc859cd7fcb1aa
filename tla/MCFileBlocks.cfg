SPECIFICATION Spec
CONSTANTS
    File = {f1, f2}
    Block = {1, 2, 3, 4, 5, 6}
    N_DIRECT = 1
    BLOCK_SIZE = 2
    Bytes = {9}
    Bufsize = {0, 1, 3}
    MAX_CALLS = 4
    MAX_CRASHES = 1
INVARIANTS TypeOK Synced BlocksOwned
 
CHECK_DEADLOCK FALSE
SYMMETRY Symmetry
