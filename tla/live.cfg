SPECIFICATION FairSpec
CONSTANTS
    Conns = {c1, c2}
    Listeners = {l1}
    Efd = efd
    Roots = {w1}
    NoRoot = NoRoot
    Fio = "sendfile"
    Requests = {"get", "other"}
    FileLens = {0, 3}
    ConnClose = {FALSE}
    Fails = {}
    HdrLen = 1
    ReqCap = 2
    DataCap = 2
    Chunk = 2
    TxCap = 2
    RxCap = 2
    MaxFds = 3
    MaxEvents = 8
    MaxConnects = 2
    MaxTokens = 1
    MayFin = FALSE
    MayReset = TRUE
CHECK_DEADLOCK FALSE
PROPERTIES
    RequestAnswered
    ResponseEnds
    DeadFreed
    BacklogServed
