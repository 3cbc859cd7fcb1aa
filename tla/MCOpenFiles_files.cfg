CONSTANTS
  p1 = p1  p2 = p2  f1 = f1  f2 = f2
  Proc = {p1, p2}
  Name = {f1}
  Overlap = FALSE
  Flags = {0, 2}
  MAX_FILE_OPEN = 5
  MAX_FILES_OPEN_PER_PROC = 5
  MAX_PAGES = 3
  MAX_INO = 2
  MAX_FORK = 1
  UINT32_MAX = 7
SYMMETRY Symmetry
SPECIFICATION Spec
CHECK_DEADLOCK FALSE
INVARIANTS TypeOK  InodeOutlivesSlots DescriptorsPrivate
