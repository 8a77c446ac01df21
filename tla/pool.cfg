SPECIFICATION Spec
CONSTANTS
    PerSlab = 2
    MaxSlabs = 2
    Null = Null
INVARIANTS
    ListExact
    NoHoarding
