SPECIFICATION Spec
CONSTANTS
    Conns = {c1, c2}
    Listeners = {l1}
    Efd = efd
    Roots = {w1, w2}
    NoRoot = NoRoot
    Fio = "sendfile"
    Requests = {"get"}
    FileLens = {1, 3}
    ConnClose = {FALSE}
    Fails = {}
    HdrLen = 1
    ReqCap = 1
    DataCap = 2
    Chunk = 2
    TxCap = 2
    RxCap = 1
    MaxFds = 2
    MaxEvents = 8
    MaxConnects = 2
    MaxTokens = 2
    MayFin = FALSE
    MayReset = TRUE
SYMMETRY ConnSymmetry
CHECK_DEADLOCK FALSE
INVARIANTS
    TypeOK
    RootPinned
    NoLostWakeup
    NoSpin
    ConcurrencyExact
PROPERTIES
    ImplementsService
