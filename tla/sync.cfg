SPECIFICATION Spec
CONSTANTS
    Conns = {c1, c2}
    Listeners = {l1, l2}
    Efd = efd
    Roots = {w1}
    NoRoot = NoRoot
    Fio = "sync"
    Requests = {"get", "bad"}
    FileLens = {0, 2, 3}
    ConnClose = {FALSE}
    Fails = {"data", "file", "conn", "req", "res", "abort"}
    HdrLen = 2
    ReqCap = 2
    DataCap = 2
    Chunk = 2
    TxCap = 2
    RxCap = 2
    MaxFds = 1
    MaxEvents = 8
    MaxConnects = 3
    MaxTokens = 2
    MayFin = TRUE
    MayReset = TRUE
SYMMETRY ConnSymmetry
CHECK_DEADLOCK FALSE
INVARIANTS
    CallbackFits
    BuffersReleased
    BodyInOrder
    OomHasWaker
PROPERTIES
    PumpSafe
