SPECIFICATION Spec
CONSTANTS
    Threads = {main, t1}
    Main = main
    Addr = {a1, a2}
    Null = null
    Sizes = {1, 2}
    Allowed = {"realloc"}
    Detached = FALSE
    MaxEvents = 3
SYMMETRY Symmetry
INVARIANTS
    TypeOK
    FreeSizes
    LiveIsTrue
    ContextInOrder
PROPERTIES
    LogSpec
