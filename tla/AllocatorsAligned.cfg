SPECIFICATION Spec
CONSTANTS
    Threads = {t1}
    Addrs = {a1, a2}
    Null = Null
    Bits = 3
    Capacity = 7
    MaxReserve = 1
    Counts = {3, 4}
    Alignments = {2}
    DefaultAlign = 2
    ElemTypes <- MCElemTypes
    Glibc = TRUE
    Libraries <- MCLibraries
INVARIANT AlignedFits
