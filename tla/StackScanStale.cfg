SPECIFICATION Spec
CONSTANTS
    StackSize = 9
    FrameSizes = {2, 4}
    MaxCount = 3
    InfoWords = 2
    TypeDataAt = 1
    SearchWords = 2
    MaxFrames = 5
    MaxObjects = 2
    TraceFrames = 6
    SizeValues = 16
INVARIANTS
    OnlyLive
