SPECIFICATION Spec
CONSTANTS
    Threads = {main, t1}
    Main = main
    Addr = {a1}
    Null = null
    Sizes = {1}
    Allowed = {}
    Detached = TRUE
    MaxEvents = 1
INVARIANTS
    ContextSafe
