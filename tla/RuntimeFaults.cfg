SPECIFICATION Spec
CONSTANTS
    Threads = {main, t1}
    Main = main
    Addr = {a1, a2}
    Null = null
    Sizes = {1}
    Allowed = {"realloc", "nomem", "self", "unhooked", "noctx", "unwind", "push", "dump"}
    Detached = FALSE
    MaxEvents = 2
SYMMETRY Symmetry
INVARIANTS
    GuardBalance
    OneEventPerCall
    ReportComplete
    OwnersDisjoint
