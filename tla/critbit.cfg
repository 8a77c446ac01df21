SPECIFICATION Spec
CONSTANTS
    Keys <- Names
    Vals = {v1, v2}
    Addrs <- Blocks
    Null = Null
INVARIANTS
    MapExact
    Discriminates
    HeapExact
CHECK_DEADLOCK FALSE
