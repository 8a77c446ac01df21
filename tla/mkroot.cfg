SPECIFICATION Spec
CONSTANTS
    Zero <- NoByte
    RE_EDGE_MAX = 2
    MaxFanout = 7
    LongUri = 7
    StrSlabSize = 12
    StrOverhead = 3
    Trees <- MCTrees
    Slash = 2
    Dot = 1
    IndexPages <- MCPages
    TextHtml <- MCHtml
    Mime <- MCMime
    Garbage <- MCGarbage
    Contents <- MCContents
    BaseLen = 2
    HdrSz = 2
    EdgeSz = 2
    RedirSz = 1
    FileSz = 2
    TmpBuf = 2
    BUFFER_SIZE = 8
    ReadMax = 2
    MaxEdits = 1
    Faults = {"io", "power"}
INVARIANTS
    ServedWhole
    NoWrongObject
    ScanExact
    FindExact
    FsckExact
    AssertionsHold
    FitsAllocation
    StringsDisjoint
CHECK_DEADLOCK FALSE
