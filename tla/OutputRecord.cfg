SPECIFICATION Spec
CONSTANTS
    Threads = {t1, t2}
    Addr = {a1}
    Null = null
    Sizes = {1, 2}
    Text <- MCText
    Traces <- MCTraces
    ObjectTraces <- MCObjectTraces
    TypeData <- MCTypeData
    Resolutions <- MCResolutions
    EmptyLiteral = "lit"
    NullStr = "nullptr"
    Empty = ""
    Demangled <- MCDemangled
    MaxEvents = 3
INVARIANTS
    Chronological
    ReportSizes
    CallStacks
    ObjectTypes
    StringsConsistent
