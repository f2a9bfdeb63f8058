SPECIFICATION Spec
CONSTANTS
    Threads = {t1, t2}
    Addrs = {a1}
    Null = Null
    Bits = 3
    Capacity = 6
    MaxReserve = 3
    Counts = {2}
    Alignments = {4}
    DefaultAlign = 1
    ElemTypes <- MCElemTypes
    Glibc = FALSE
    Libraries <- MCLibraries
INVARIANTS TypeOK TableSound ThrowingGetsBlock BlockFits
PROPERTIES CallsEnd
