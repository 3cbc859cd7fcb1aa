SPECIFICATION Spec
CONSTANTS
    File = {a, b}
    Key = {k1, k2}
    Text <- MCText
    Loader = {l1, l2}
    MAX_CMDS = 5
SYMMETRY Symmetry
INVARIANTS TypeOK  
CHECK_DEADLOCK FALSE
