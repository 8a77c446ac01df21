SPECIFICATION Spec
CONSTANTS
    Names = {a, default}
    Default = default
    Versions = {v1}
    Others = {}
    Objs = {o1, o2}
    NoObj = NoObj
    Fails = {}
    MaxQueue = 2
    MaxChanges = 2
    Conns = {c1}
INVARIANTS
    InUseOpen
CHECK_DEADLOCK FALSE
