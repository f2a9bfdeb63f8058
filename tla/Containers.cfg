SPECIFICATION ContainersSpec
CONSTANTS
    key_a = key_a
    key_b = key_b
    key_c = key_c
    key_d = key_d
    key_e = key_e
    p1 = p1
    p2 = p2
    p3 = p3
    NullStr = nullptr
    BlockSize = 3
    Strings <- MCStrings
    MaxSaves = 6
    Inserted <- MCInserted
    Text <- MCText
    Hash <- MCHash
    HashBits = 3
    InitialBits = 1
    IndexBits = 2
    DistInc = 2
    DefaultLoad <- MCLoad
    Entries <- MCEntries
    Containers <- MCContainersGiven
    Lists <- MCLists
    Loads <- MCLoads
    Counts <- MCCounts
    Preds <- MCPreds
    Default = 0
CHECK_DEADLOCK FALSE
VIEW ContainersView
INVARIANTS
    ViewsStable
    IdsDecode
    OneIdPerString
    FindsExactly
    IndexSound
    RoomLeft
PROPERTIES
    MapSpec
    StringTableSpec
