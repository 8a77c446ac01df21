SPECIFICATION Spec
CONSTANTS
    Names = {a, default}
    Default = default
    Versions = {v1, v2}
    Others = {"junk", "dir"}
    Objs = {o1, o2, o3}
    NoObj = NoObj
    Fails = {"open", "insert", "name"}
    MaxQueue = 2
    MaxChanges = 4
    Conns = {c1}
SYMMETRY Symmetry
INVARIANTS
    Converged
    RefExact
CHECK_DEADLOCK FALSE
