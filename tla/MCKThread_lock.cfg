CONSTANTS
    main = main
    idl = idl
    cleaner = cleaner
    k1 = k1
    k2 = k2
    p1 = p1
    p2 = p2
    l1 = l1
    null = null
    Thread = {main, idl, cleaner, k1}
    Main = main
    Idle = idl
    Cleaner = cleaner
    Proc = {}
    Lock = {l1}
    NULL = null
    PrioTicks <- MCPrioTicks
    Slice <- MCSlice
    UINT32_MAX = 2
    SEMA_MOD = 2
    MAX_NEST = 2
SPECIFICATION Spec
INVARIANTS TagOnce QueueStatus LockInv NoLostWakeup IntrRestored
PROPERTIES ImplementsLock
