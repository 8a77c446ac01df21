SPECIFICATION Spec
CONSTANTS
    Conns = {c1, c2}
    Listeners = {l1}
    Efd = efd
    Roots = {w1}
    NoRoot = NoRoot
    Fio = "async"
    Requests = {"get"}
    FileLens = {0, 3}
    ConnClose = {FALSE}
    Fails = {"data", "file", "submit"}
    HdrLen = 1
    ReqCap = 2
    DataCap = 2
    Chunk = 2
    TxCap = 2
    RxCap = 2
    MaxFds = 2
    MaxEvents = 8
    MaxConnects = 2
    MaxTokens = 2
    MayFin = FALSE
    MayReset = TRUE
SYMMETRY ConnSymmetry
CHECK_DEADLOCK FALSE
INVARIANTS
    AioSafe
    NoStrandedCompletion
