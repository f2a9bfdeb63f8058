SPECIFICATION Spec
CONSTANTS
    StackSize = 12
    FrameSizes = {3,7}
    MaxCount = 3
    InfoWords = 3
    TypeDataAt = 1
    SearchWords = 4
    MaxFrames = 4
    MaxObjects = 2
    TraceFrames = 5
    SizeValues = 16
INVARIANTS
    WholeBlocks
    Distinct
    LiveExactly
    TraceAgrees
    TraceCompletes
