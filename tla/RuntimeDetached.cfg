SPECIFICATION FairSpec
CONSTANTS
    Threads = {main, t1, t2}
    Main = main
    Addr = {a1}
    Null = null
    Sizes = {1, 2}
    Allowed = {"self", "dump"}
    Detached = TRUE
    MaxEvents = 3
INVARIANTS
    Replayable
    EveryFreeSized
PROPERTIES
    NoRegistrationWhileDraining
    HookReturns
    ExitCompletes
