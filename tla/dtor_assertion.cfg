SPECIFICATION Spec
CONSTANTS
    Conns = {c1}
    Listeners = {l1}
    Efd = efd
    Roots = {w1}
    NoRoot = NoRoot
    Fio = "sendfile"
    Requests = {"short"}
    FileLens = {0, 3}
    ConnClose = {FALSE}
    Fails = {}
    HdrLen = 1
    ReqCap = 2
    DataCap = 2
    Chunk = 2
    TxCap = 2
    RxCap = 2
    MaxFds = 2
    MaxEvents = 8
    MaxConnects = 1
    MaxTokens = 2
    MayFin = FALSE
    MayReset = TRUE
CHECK_DEADLOCK FALSE
INVARIANTS
    DtorOnlyDead
