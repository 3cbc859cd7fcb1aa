SPECIFICATION Spec
CONSTANTS
    Name = {a, b, c}
    ENTRIES = 2
    DIR_BLOCKS = 2
    MAX_INO = 3
    MAX_DEPTH = 2
    MAX_CALLS = 5
    MAX_CRASHES = 1
INVARIANTS TypeOK 
 
SYMMETRY Symmetry
CHECK_DEADLOCK FALSE
