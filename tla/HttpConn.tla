------------------------------ MODULE HttpConn ------------------------------
(***************************************************************************)
(* The single-threaded HTTP server: its connections (http_conn.c), the      *)
(* listeners that create them (nbio-listener.c), the event loop that runs   *)
(* both (nbio.c, nbio-epoll.c), the three file I/O models that feed a       *)
(* response body to the socket (io_sync.c, io_sendfile.c, io_async.c), and  *)
(* the reference counts of the web roots the bodies come from (webroot.c,   *)
(* vhosts.c).  The kernel and the remote peers are the environment.         *)
(*                                                                         *)
(* One action is one callback, run to completion by the one thread.  The    *)
(* order in which nbio_pump visits the active list is left open.            *)
(*                                                                         *)
(* Bytes are counted in units.  What a peer writes is a sequence of tokens: *)
(* "frag" is a piece of a request that ends no request, any other token is  *)
(* the piece that completes one, and names what the request will lead to:   *)
(*   "get"    GET of a file object                                          *)
(*   "head"   HEAD, or a GET whose If-None-Match holds the file's etag      *)
(*   "short"  GET or HEAD answered by 403, 404 or 301, without a body       *)
(*   "other"  any other method, answered by 501                             *)
(*   "bad"    a request http_req() rejects, answered by 400                 *)
(***************************************************************************)
EXTENDS Nbio, Integers, Sequences

CONSTANTS
    Conns,        \* slots of the hgang of connections
    Listeners,    \* listening sockets
    Efd,          \* the eventfd of io_async.c
    Roots,        \* web root objects that can be opened
    NoRoot,       \* NULL web root
    Fio,          \* the file I/O model: "sync", "sendfile" or "async"
    Requests,     \* the request-ending tokens the peers use
    FileLens,     \* lengths of the file objects, in units
    ConnClose,    \* values http_req() can give conn_close
    Fails,        \* which of the fallible calls may fail
    HdrLen,       \* length of a response header
    ReqCap,       \* capacity of a request buffer, in tokens
    DataCap,      \* capacity of a data buffer
    Chunk,        \* SENDFILE_CHUNK
    TxCap,        \* capacity of a socket's send queue
    RxCap,        \* capacity of a socket's receive queue, in tokens
    MaxFds,       \* descriptors available for connections
    MaxEvents,    \* events one epoll_wait returns
    MaxConnects,  \* bound: connection attempts
    MaxTokens,    \* bound: tokens a peer writes on one connection
    MayFin,       \* may a peer shut its side down?
    MayReset      \* may a peer reset a connection?

Nbios == Conns \cup Listeners \cup {Efd}
Tokens == {"frag"} \cup Requests
Fallible == {"conn", "req", "res", "data", "file", "submit", "accept",
             "abort", "epoll"}

ASSUME NbioAssumption ==
    /\ Conns \cap Listeners = {}
    /\ Efd \notin Conns \cup Listeners

ASSUME FiniteAssumption == IsFiniteSet(Conns)

ASSUME RootAssumption == NoRoot \notin Roots

ASSUME SizeAssumption ==
    /\ FileLens \subseteq Nat
    /\ {HdrLen, ReqCap, DataCap, Chunk, TxCap, RxCap} \subseteq Nat \ {0}
    /\ {MaxFds, MaxEvents} \subseteq Nat \ {0}
    /\ {MaxConnects, MaxTokens} \subseteq Nat

ASSUME ChoiceAssumption ==
    /\ Fio \in {"sync", "sendfile", "async"}
    /\ Requests \subseteq {"get", "head", "short", "other", "bad"}
    /\ ConnClose \subseteq BOOLEAN
    /\ Fails \subseteq Fallible
    /\ MayFin \in BOOLEAN /\ MayReset \in BOOLEAN

VARIABLES
    conn,         \* struct _http_conn of every slot
    nb,           \* struct nbio (and epoll item) of every nbio
    sock,         \* the kernel's end of every connection
    backlog,      \* connections waiting in each listening socket
    connects,     \* connection attempts so far
    concurrency,  \* http_conn.c's counter of connections
    visit,        \* what is left of nbio_pump's visit to an nbio
    aio,          \* the iocb of every connection
    efd,          \* is the eventfd's counter non-zero?
    reap,         \* completions io_getevents returned, not yet handled
    vhost,        \* the web root vhosts_lookup() finds
    fresh,        \* web roots webroot_open() has not returned yet
    ref,          \* r_ref of every web root; 0 once its destructor has run
    leaked,       \* history: descriptors, iocbs and buffers nothing refers to
    crashed       \* has the process dereferenced a null pointer?

vars == <<conn, nb, sock, backlog, connects, concurrency, visit, aio, efd,
          reap, vhost, fresh, ref, leaked, crashed>>

\* Variables only some of the callbacks touch.
aioVars == <<aio, efd, reap>>
rootVars == <<vhost, fresh, ref>>
netVars == <<backlog, connects>>

NoVisit == <<>>

\* h_req is req when "req" is in has, else NULL; likewise h_res, of which res
\* units are unsent, and h_io_priv, a buffer whose b_read and b_write are r
\* and w.  clen and sent are history variables: the body length the header
\* promised and the units of body sent.
NoConn == [state |-> "FREE", fd |-> FALSE, has |-> {}, req |-> <<>>,
           res |-> 0, r |-> 0, w |-> 0, dlen |-> 0, close |-> FALSE,
           root |-> NoRoot, clen |-> 0, sent |-> 0]

ConnType == [state : {"FREE", "REQUEST", "HEADER", "DATA", "DEAD"},
             fd : BOOLEAN, has : SUBSET {"req", "res", "data"},
             req : Seq(Tokens), res : Nat, r : Nat, w : Nat, dlen : Nat,
             close : BOOLEAN, root : Roots \cup {NoRoot},
             clen : Nat, sent : Nat]

\* rx is received and not read, tx is sent and not acknowledged.
NoSock == [rx |-> <<>>, fin |-> FALSE, rst |-> FALSE, tx |-> 0, quota |-> 0]

SockType == [rx : Seq(Tokens), fin : BOOLEAN, rst : BOOLEAN, tx : Nat,
             quota : Nat]

Smaller(a, b) == IF a < b THEN a ELSE b

-----------------------------------------------------------------------------
(* What the kernel reports of a descriptor. *)

SockEvents(s, want) ==
    (IF s.rst \/ (READ \in want /\ (s.rx # <<>> \/ s.fin)) THEN {READ} ELSE {})
    \cup (IF WRITE \in want /\ (s.rst \/ s.tx < TxCap) THEN {WRITE} ELSE {})
    \cup (IF s.rst THEN {ERROR} ELSE {})

\* The events epoll_wait would report of nbio n, for a registration of want.
Events(n, want) ==
    IF n \in Conns THEN SockEvents(sock[n], want)
    ELSE IF n \in Listeners
    THEN IF READ \in want /\ backlog[n] > 0 THEN {READ} ELSE {}
    ELSE IF READ \in want /\ efd THEN {READ} ELSE {}

CtlResults == IF "epoll" \in Fails THEN BOOLEAN ELSE {TRUE}

FdsUsed == Cardinality({c \in Conns : conn[c].fd}) + leaked.fd

-----------------------------------------------------------------------------
(* nbio_pump: one visit calls write, then read, then sweeps an error.  visit
   is <<n, "read">> or <<n, "error">> when that much of n's visit remains. *)

Running == ~crashed
Active(n) == nb[n].list = "active"
Idle == Running /\ visit = NoVisit

DueWrite(n) == Idle /\ Active(n) /\ WRITE \in Due(nb[n])

DueRead(n) ==
    /\ Running
    /\ \/ visit = <<n, "read">>
       \/ visit = NoVisit /\ Active(n) /\ WRITE \notin Due(nb[n])
                          /\ READ \in Due(nb[n])

DueSweep(n) ==
    /\ Running
    /\ \/ visit = <<n, "error">>
       \/ visit = NoVisit /\ Active(n) /\ Due(nb[n]) = {}
                          /\ ERROR \in nb[n].flags

AfterRead(n, k) == IF ERROR \in k.flags THEN <<n, "error">> ELSE NoVisit
AfterWrite(n, k) ==
    IF READ \in Due(k) THEN <<n, "read">> ELSE AfterRead(n, k)

LoopDrained == Idle /\ \A n \in Nbios : ~Active(n)

-----------------------------------------------------------------------------
(* Ends of connections. *)

\* Mutant: _io_abort is not called.
KillFreesNoAbort(h) ==
    {"req"} \cup (IF h.state = "HEADER" THEN {"res"} ELSE {})

\* The buffers http_kill() frees, through _io_abort for a data buffer.
KillFrees(h) ==
    {"req"}
    \cup (IF h.state = "HEADER" THEN {"res"} ELSE {})
    \cup (IF h.state \in {"HEADER", "DATA"} /\ Fio # "sendfile"
          THEN {"data"} ELSE {})

DeadConn(h) ==
    [NoConn EXCEPT !.state = "DEAD", !.root = h.root,
                   !.has = h.has \ KillFrees(h)]

\* Mutants: nobody is woken; the connection goes on being counted.
HttpKillSilent(c, h, k) ==
    /\ conn' = [conn EXCEPT ![c] = DeadConn(h)]
    /\ nb' = [nb EXCEPT ![c] = NbioDel(CloseFd(k), FALSE)]
    /\ sock' = [sock EXCEPT ![c] = NoSock]
    /\ concurrency' = concurrency - 1

HttpKillUncounted(c, h, k) ==
    /\ conn' = [conn EXCEPT ![c] = DeadConn(h)]
    /\ nb' = [nb EXCEPT ![c] = NbioDel(CloseFd(k), FALSE)]
    /\ sock' = [sock EXCEPT ![c] = NoSock]
    /\ UNCHANGED concurrency

\* http_kill() on c, whose struct is h and whose nbio is k by now.  Nothing
\* but the web root of a dead struct is looked at again.
HttpKill(c, h, k) ==
    /\ conn' = [conn EXCEPT ![c] = DeadConn(h)]
    /\ nb' = [n \in Nbios |->
                 IF n = c THEN NbioDel(CloseFd(k), FALSE)
                 ELSE IF nb[n].list = "oomq" THEN NbioWake(nb[n], {READ})
                 ELSE nb[n]]
    /\ sock' = [sock EXCEPT ![c] = NoSock]
    /\ concurrency' = concurrency - 1

\* c survives its callback as h, with nbio k and socket s.
Carry(c, h, k, s) ==
    /\ conn' = [conn EXCEPT ![c] = h]
    /\ nb' = [nb EXCEPT ![c] = k]
    /\ sock' = [sock EXCEPT ![c] = s]
    /\ UNCHANGED concurrency

\* nbio_inactive() after an EAGAIN, for one of READ and WRITE.
Blocked(c, h, which) ==
    \E ok \in CtlResults :
        Carry(c, h,
              NbioInactive(nb[c], {which},
                           SockEvents(sock[c], nb[c].mask) # {}, ok),
              sock[c])

Unref(w) == IF w = NoRoot THEN ref ELSE [ref EXCEPT ![w] = @ - 1]

\* Mutants: the nbio goes on waiting to write; the web root is not cleared.
DataCompleteWaits(c, h, s) ==
    LET g == [h EXCEPT !.state = "REQUEST", !.root = NoRoot, !.r = 0, !.w = 0]
    IN  /\ ref' = Unref(h.root)
        /\ IF h.close THEN HttpKill(c, g, nb[c]) ELSE Carry(c, g, nb[c], s)

DataCompleteKeepsRoot(c, h, s) ==
    LET g == [h EXCEPT !.state = "REQUEST", !.r = 0, !.w = 0]
        k == NbioSetWait(nb[c], {READ})
    IN  /\ ref' = Unref(h.root)
        /\ IF h.close THEN HttpKill(c, g, k) ELSE Carry(c, g, k, s)

\* http_conn_data_complete()
DataComplete(c, h, s) ==
    LET g == [h EXCEPT !.state = "REQUEST", !.root = NoRoot, !.r = 0, !.w = 0]
        k == NbioSetWait(nb[c], {READ})
    IN  /\ ref' = Unref(h.root)
        /\ IF h.close THEN HttpKill(c, g, k) ELSE Carry(c, g, k, s)

-----------------------------------------------------------------------------
(* Reading requests. *)

Completes(q) == \E i \in 1..Len(q) : q[i] # "frag"
IsFirstRequest(q, i) == q[i] # "frag" /\ \A j \in 1..(i - 1) : q[j] = "frag"

\* The head of handle_request(), and every response_*() and bodiless header.
Reply(h, close) ==
    [h EXCEPT !.state = "HEADER", !.has = @ \cup {"res"}, !.res = HdrLen,
              !.dlen = 0, !.close = close, !.clen = 0, !.sent = 0]

\* The tail of handle_request(): the request, up to token i, is taken off the
\* buffer, which goes when nothing is left in it.
Consume(h, i) ==
    LET left == SubSeq(h.req, i + 1, Len(h.req))
    IN  [h EXCEPT !.req = left,
                  !.has = IF left = <<>> THEN @ \ {"req"} ELSE @]

Answer(c, h, s) == Carry(c, h, NbioSetWait(nb[c], {WRITE}), s)

\* Mutant: the connection waits for its socket while the read is under way.
SubmittedActive(c, h, s) ==
    Answer(c, h, s) /\ aio' = [aio EXCEPT ![c] = "flight"]

\* aio_submit() has queued a read for c: the connection waits, unregistered.
Submitted(c, h, s) ==
    /\ Carry(c, h, NbioToWaitq(nb[c], "inactive"), s)
    /\ aio' = [aio EXCEPT ![c] = "flight"]

\* Mutant: one unit less is sent than was announced.
GetReplyShort(h, len, close) ==
    [Reply(h, close) EXCEPT !.clen = len, !.root = vhost,
        !.dlen = IF len > 0 THEN len - 1 ELSE 0,
        !.has = IF len > 0 /\ Fio # "sendfile" THEN @ \cup {"data"} ELSE @]

\* handle_get() of a file object of length len, up to a successful _io_prep.
GetReply(h, len, close) ==
    [Reply(h, close) EXCEPT !.dlen = len, !.clen = len, !.root = vhost,
        !.has = IF len > 0 /\ Fio # "sendfile" THEN @ \cup {"data"} ELSE @]

\* _io_prep() fails for want of a buffer or of an iocb, or because io_submit
\* refuses, which forgets the iocb: the answer is a 500.
PrepFails(c, h, s) ==
    /\ Fio # "sendfile"
    /\ \/ "data" \in Fails /\ UNCHANGED leaked
       \/ /\ Fio = "async" /\ "submit" \in Fails /\ h.root # NoRoot
          /\ \E lost \in {0, 1} : leaked' = [leaked EXCEPT !.iocb = @ + lost]
    /\ Answer(c, Reply(h, TRUE), s)
    /\ UNCHANGED <<aio, ref, crashed>>

\* handle_get() for a file.  io_async_prep() needs the web root's descriptor
\* before handle_get() has stored the web root in the connection.
HandleGet(c, h, close, s) ==
    \E len \in FileLens :
        \/ /\ len = 0 \/ Fio # "async"
           /\ Answer(c, GetReply(h, len, close), s)
           /\ ref' = [ref EXCEPT ![vhost] = @ + 1]
           /\ UNCHANGED <<aio, leaked, crashed>>
        \/ /\ len > 0 /\ Fio = "async" /\ h.root # NoRoot
           /\ Submitted(c, GetReply(h, len, close), s)
           /\ ref' = [ref EXCEPT ![vhost] = @ + 1]
           /\ UNCHANGED <<leaked, crashed>>
        \/ /\ len > 0 /\ Fio = "async" /\ h.root = NoRoot
           /\ crashed' = TRUE
           /\ UNCHANGED <<conn, nb, sock, concurrency, aio, ref, leaked>>
        \/ len > 0 /\ PrepFails(c, h, s)

\* handle_request().  A 400 leaves the request in its buffer.  r.content_len
\* is never set: dispatch_hdr() does not find Content-Length.
HandleRequest(c, h, s) ==
    \E i \in 1..Len(h.req) :
        LET q == h.req[i]
            quiet == UNCHANGED <<aio, ref, leaked, crashed>>
        IN  /\ IsFirstRequest(h.req, i)
            /\ \/ "res" \in Fails /\ HttpKill(c, h, nb[c]) /\ quiet
               \/ q = "bad" /\ Answer(c, Reply(h, TRUE), s) /\ quiet
               \/ q = "other" /\ Answer(c, Reply(Consume(h, i), TRUE), s) /\ quiet
               \/ /\ q \in {"short", "head"} \/ (q = "get" /\ vhost = NoRoot)
                  /\ \E close \in ConnClose :
                        Answer(c, Reply(Consume(h, i), close), s)
                  /\ quiet
               \/ /\ q = "get" /\ vhost # NoRoot
                  /\ \E close \in ConnClose :
                        HandleGet(c, Consume(h, i), close, s)

\* http_read() with a request buffer in hand.
Receive(c, h) ==
    LET s == sock[c]
        n == Smaller(ReqCap - Len(h.req), Len(s.rx))
        g == [h EXCEPT !.req = @ \o SubSeq(s.rx, 1, n)]
        t == [s EXCEPT !.rx = SubSeq(@, n + 1, Len(@))]
        quiet == UNCHANGED <<aio, ref, leaked, crashed>>
    IN  \/ /\ Len(h.req) = ReqCap \/ (s.rx = <<>> /\ (s.fin \/ s.rst))
           /\ HttpKill(c, h, nb[c]) /\ quiet
        \/ /\ Len(h.req) < ReqCap /\ s.rx = <<>> /\ ~s.fin /\ ~s.rst
           /\ Blocked(c, h, READ) /\ quiet
        \/ /\ n > 0 /\ ~Completes(g.req)
           /\ Carry(c, g, nb[c], t) /\ quiet
        \/ n > 0 /\ Completes(g.req) /\ HandleRequest(c, g, t)

HttpRead(c) ==
    /\ DueRead(c)
    /\ \/ Receive(c, [conn[c] EXCEPT !.has = @ \cup {"req"}])
       \/ /\ "req" \notin conn[c].has /\ "req" \in Fails
          /\ HttpKill(c, conn[c], nb[c])
          /\ UNCHANGED <<aio, ref, leaked, crashed>>
    /\ visit' = AfterRead(c, nb'[c])
    /\ UNCHANGED <<netVars, efd, reap, vhost, fresh>>

-----------------------------------------------------------------------------
(* Writing responses.  A send moves from one unit up to as many as were asked
   for and the socket has room for; it fails once the connection is reset. *)

Room(c) == TxCap - sock[c].tx
CanSend(c) == Room(c) > 0 /\ ~sock[c].rst
WouldBlock(c) == Room(c) = 0 /\ ~sock[c].rst
Sendable(c, n) == IF CanSend(c) THEN 1..Smaller(Room(c), n) ELSE {}
SentOn(c, n) == [sock[c] EXCEPT !.tx = @ + n]

\* http_write_hdr()
WriteHdr(c, h) ==
    /\ \/ sock[c].rst /\ HttpKill(c, h, nb[c])
       \/ WouldBlock(c) /\ Blocked(c, h, WRITE)
       \/ \E n \in Sendable(c, h.res) :
             LET part == [h EXCEPT !.res = @ - n]
                 done == [part EXCEPT !.has = @ \ {"res"}]
             IN  \/ n < h.res /\ Carry(c, part, nb[c], SentOn(c, n))
                 \/ /\ n = h.res /\ h.dlen > 0
                    /\ Carry(c, [done EXCEPT !.state = "DATA"], nb[c],
                             SentOn(c, n))
                 \/ /\ n = h.res /\ h.dlen = 0 /\ h.close
                    /\ HttpKill(c, done, nb[c])
                 \/ /\ n = h.res /\ h.dlen = 0 /\ ~h.close
                    /\ Carry(c, [done EXCEPT !.state = "REQUEST"],
                             NbioSetWait(nb[c], {READ}), SentOn(c, n))
    /\ UNCHANGED <<aio, ref, leaked>>

\* Mutant: a whole chunk is asked for, however little is left.
SendfileChunkWhole(h) == Chunk

SendfileChunk(h) == Smaller(h.dlen, Chunk)

\* io_sendfile_write()
SendfileWrite(c, h) ==
    \/ /\ sock[c].rst \/ "file" \in Fails
       /\ HttpKill(c, h, nb[c]) /\ UNCHANGED <<aio, ref, leaked>>
    \/ WouldBlock(c) /\ Blocked(c, h, WRITE) /\ UNCHANGED <<aio, ref, leaked>>
    \/ \E n \in Sendable(c, SendfileChunk(h)) :
          LET g == [h EXCEPT !.dlen = @ - n, !.sent = @ + n]
          IN  /\ IF g.dlen = 0
                 THEN DataComplete(c, g, SentOn(c, n))
                 ELSE Carry(c, g, nb[c], SentOn(c, n)) /\ UNCHANGED ref
              /\ UNCHANGED <<aio, leaked>>

\* Mutant: what was not sent yet is dropped.
BufResetDrops(h) == [h EXCEPT !.r = 0, !.w = 0]

\* buf_reset()
BufReset(h) == [h EXCEPT !.r = 0, !.w = @ - h.r]

\* io_sync_write() once the buffer is topped up: the send and what follows.
SyncSend(c, h) ==
    \/ /\ sock[c].rst \/ h.w = h.r
       /\ HttpKill(c, h, nb[c]) /\ UNCHANGED ref
    \/ WouldBlock(c) /\ h.w > h.r /\ Blocked(c, h, WRITE) /\ UNCHANGED ref
    \/ \E n \in Sendable(c, h.w - h.r) :
          LET g == [h EXCEPT !.r = @ + n, !.sent = @ + n]
          IN  IF g.w = g.r /\ g.dlen = 0
              THEN DataComplete(c, [g EXCEPT !.has = @ \ {"data"}],
                                SentOn(c, n))
              ELSE /\ Carry(c, IF g.dlen > DataCap - g.w THEN BufReset(g) ELSE g,
                            nb[c], SentOn(c, n))
                   /\ UNCHANGED ref

\* io_sync_write().  fd_pread() reports end of file for a read of no bytes.
SyncWrite(c, h) ==
    LET room == DataCap - h.w
        n == Smaller(room, h.dlen)
    IN  /\ \/ room = 0 /\ SyncSend(c, h)
           \/ room > 0 /\ n > 0
              /\ SyncSend(c, [h EXCEPT !.w = @ + n, !.dlen = @ - n])
           \/ /\ room > 0 /\ (n = 0 \/ "file" \in Fails)
              /\ HttpKill(c, h, nb[c]) /\ UNCHANGED ref
        /\ UNCHANGED <<aio, leaked>>

\* io_async_write()
AsyncWrite(c, h) ==
    \/ /\ sock[c].rst \/ h.w = h.r
       /\ HttpKill(c, h, nb[c]) /\ UNCHANGED <<aio, ref, leaked>>
    \/ /\ WouldBlock(c) /\ h.w > h.r
       /\ Blocked(c, h, WRITE) /\ UNCHANGED <<aio, ref, leaked>>
    \/ \E n \in Sendable(c, h.w - h.r) :
          LET g == [h EXCEPT !.r = @ + n, !.sent = @ + n, !.dlen = @ - n]
          IN  \/ /\ g.r < g.w
                 /\ Carry(c, g, nb[c], SentOn(c, n))
                 /\ UNCHANGED <<aio, ref, leaked>>
              \/ /\ g.r = g.w /\ g.dlen > 0
                 /\ Submitted(c, BufReset(g), SentOn(c, n))
                 /\ UNCHANGED <<ref, leaked>>
              \/ /\ g.r = g.w /\ g.dlen > 0 /\ "submit" \in Fails
                 /\ \E lost \in {0, 1} :
                       leaked' = [leaked EXCEPT !.iocb = @ + lost]
                 /\ HttpKill(c, g, nb[c]) /\ UNCHANGED <<aio, ref>>
              \/ /\ g.r = g.w /\ g.dlen = 0
                 /\ DataComplete(c, [g EXCEPT !.has = @ \ {"data"}],
                                 SentOn(c, n))
                 /\ UNCHANGED <<aio, leaked>>

HttpWrite(c) ==
    /\ DueWrite(c)
    /\ \/ conn[c].state = "HEADER" /\ WriteHdr(c, conn[c])
       \/ /\ conn[c].state = "DATA"
          /\ \/ Fio = "sendfile" /\ SendfileWrite(c, conn[c])
             \/ Fio = "sync" /\ SyncWrite(c, conn[c])
             \/ Fio = "async" /\ AsyncWrite(c, conn[c])
    /\ visit' = AfterWrite(c, nb'[c])
    /\ UNCHANGED <<netVars, efd, reap, vhost, fresh, crashed>>

-----------------------------------------------------------------------------
(* Completions of asynchronous reads. *)

\* efd_read(), whose callback aio_event() then asks for the completions.
EfdRead ==
    /\ DueRead(Efd)
    /\ \/ /\ ~efd
          /\ \E ok \in CtlResults :
                nb' = [nb EXCEPT ![Efd] = NbioInactive(@, {READ}, FALSE, ok)]
          /\ visit' = NoVisit
          /\ UNCHANGED efd
       \/ efd /\ efd' = FALSE /\ visit' = <<Efd, "reap">> /\ UNCHANGED nb
    /\ UNCHANGED <<conn, sock, netVars, concurrency, aio, reap, rootVars,
                   leaked, crashed>>

\* Mutant: a single completion is collected.
AioEventOne ==
    /\ Running /\ visit = <<Efd, "reap">>
    /\ \E c \in Conns : aio[c] \in {"ok", "err"} /\ reap' = {c}
    /\ visit' = <<Efd, "complete">>
    /\ UNCHANGED <<conn, nb, sock, netVars, concurrency, aio, efd, rootVars,
                   leaked, crashed>>

\* aio_event(): io_getevents() returns what has completed by now.
AioEvent ==
    /\ Running /\ visit = <<Efd, "reap">>
    /\ reap' = {c \in Conns : aio[c] \in {"ok", "err"}}
    /\ visit' = IF reap' = {} THEN NoVisit ELSE <<Efd, "complete">>
    /\ UNCHANGED <<conn, nb, sock, netVars, concurrency, aio, efd, rootVars,
                   leaked, crashed>>

\* handle_completion() of c's read.
HandleCompletion(c) ==
    /\ Running /\ visit = <<Efd, "complete">> /\ c \in reap
    /\ aio' = [aio EXCEPT ![c] = "none"]
    /\ \/ aio[c] = "err" /\ HttpKill(c, conn[c], nb[c])
       \/ /\ aio[c] = "ok"
          /\ \E n \in 1..Smaller(DataCap - conn[c].w, conn[c].dlen) :
                Carry(c, [conn[c] EXCEPT !.w = @ + n],
                      NbioWake(nb[c], {WRITE}), sock[c])
    /\ reap' = reap \ {c}
    /\ visit' = IF reap' = {} THEN NoVisit ELSE visit
    /\ UNCHANGED <<netVars, efd, rootVars, leaked, crashed>>

-----------------------------------------------------------------------------
(* Accepting connections. *)

Accepted(l, c) ==
    /\ conn' = [conn EXCEPT ![c] = [NoConn EXCEPT !.state = "REQUEST",
                                                  !.fd = TRUE]]
    /\ nb' = [nb EXCEPT ![c] = NbioAdd({READ}), ![l] = NbioSetWait(@, {READ})]
    /\ sock' = [sock EXCEPT ![c] = [NoSock EXCEPT !.quota = MaxTokens]]
    /\ concurrency' = concurrency + 1

\* Mutant: out of descriptors for one listener is out of descriptors for all.
HttpOomAll(l) ==
    nb' = [n \in Nbios |-> IF n \in Listeners THEN NbioToWaitq(nb[n], "oomq") ELSE nb[n]]

\* http_oom()
HttpOom(l) == nb' = [nb EXCEPT ![l] = NbioToWaitq(@, "oomq")]

FreeSlots == {c \in Conns : conn[c].state = "FREE"}

\* listener_read(): every accepted connection goes to http_conn(), and then
\* the next is accepted.  A process out of descriptors gets EMFILE whether or
\* not a connection waits.
ListenerRead(l) ==
    /\ DueRead(l)
    /\ \/ /\ FdsUsed < MaxFds /\ backlog[l] > 0
          /\ \/ \E c \in FreeSlots : Accepted(l, c)
             \/ /\ FreeSlots = {} \/ "conn" \in Fails
                /\ nb' = [nb EXCEPT ![l] = NbioSetWait(@, {READ})]
                /\ UNCHANGED <<conn, sock, concurrency>>
          /\ backlog' = [backlog EXCEPT ![l] = @ - 1]
          /\ visit' = <<l, "read">>
       \/ /\ FdsUsed >= MaxFds \/ "accept" \in Fails
          /\ HttpOom(l)
          /\ visit' = NoVisit
          /\ UNCHANGED <<conn, sock, concurrency, backlog>>
       \/ /\ FdsUsed < MaxFds /\ backlog[l] = 0
          /\ \E ok \in CtlResults :
                nb' = [nb EXCEPT ![l] = NbioInactive(@, {READ}, FALSE, ok)]
          /\ visit' = NoVisit
          /\ UNCHANGED <<conn, sock, concurrency, backlog>>
       \/ /\ FdsUsed < MaxFds /\ backlog[l] > 0 /\ "abort" \in Fails
          /\ backlog' = [backlog EXCEPT ![l] = @ - 1]
          /\ visit' = NoVisit
          /\ UNCHANGED <<conn, nb, sock, concurrency>>
    /\ UNCHANGED <<connects, aioVars, rootVars, leaked, crashed>>

-----------------------------------------------------------------------------
(* The rest of nbio_pump. *)

\* An nbio still flagged NBIO_ERROR after its callbacks goes to the deleted
\* list, without the callbacks being told.
Sweep(c) ==
    /\ DueSweep(c)
    /\ nb' = [nb EXCEPT ![c] = NbioSweep(@)]
    /\ visit' = NoVisit
    /\ UNCHANGED <<conn, sock, netVars, concurrency, aioVars, rootVars, leaked,
                   crashed>>

\* What http_dtor() leaves behind of the struct h: it closes no descriptor and
\* returns no buffer.
LeakedBy(h) == [leaked EXCEPT !.fd = @ + (IF h.fd THEN 1 ELSE 0),
                              !.buf = @ + Cardinality(h.has)]

\* http_dtor(), for the deleted list once the active list has drained.
HttpDtor(c) ==
    /\ LoopDrained /\ nb[c].list = "deleted"
    /\ conn' = [conn EXCEPT ![c] = NoConn]
    /\ nb' = [nb EXCEPT ![c] = NoNbio]
    /\ sock' = [sock EXCEPT ![c] = NoSock]
    /\ ref' = Unref(conn[c].root)
    /\ leaked' = LeakedBy(conn[c])
    /\ UNCHANGED <<netVars, concurrency, visit, aioVars, vhost, fresh, crashed>>

QueuedItems == {n \in Nbios : nb[n].item = "queued"}

\* plugin->pump: epoll_wait() takes up to MaxEvents queued items.
EpollWait ==
    /\ LoopDrained /\ \A c \in Conns : nb[c].list # "deleted"
    /\ \E S \in SUBSET QueuedItems :
          /\ S # {}
          /\ Cardinality(S) = Smaller(MaxEvents, Cardinality(QueuedItems))
          /\ nb' = [n \in Nbios |->
                       IF n \in S
                       THEN EpollDeliver(nb[n], Events(n, nb[n].want))
                       ELSE nb[n]]
    /\ UNCHANGED <<conn, sock, netVars, concurrency, visit, aioVars, rootVars,
                   leaked, crashed>>

-----------------------------------------------------------------------------
(* The vhost directory: callbacks of the inotify descriptor. *)

\* vhost_add() of a web root file, in place of the one it may replace.
VhostAdd(w) ==
    /\ Idle /\ w \in fresh
    /\ fresh' = fresh \ {w}
    /\ ref' = [Unref(vhost) EXCEPT ![w] = 1]
    /\ vhost' = w
    /\ UNCHANGED <<conn, nb, sock, netVars, concurrency, visit, aioVars, leaked,
                   crashed>>

\* vhost_del()
VhostDel ==
    /\ Idle /\ vhost # NoRoot
    /\ ref' = Unref(vhost)
    /\ vhost' = NoRoot
    /\ UNCHANGED <<conn, nb, sock, netVars, concurrency, visit, aioVars, fresh,
                   leaked, crashed>>

-----------------------------------------------------------------------------
(* The environment: peers and the kernel's asynchronous reads. *)

PeerConnect(l) ==
    /\ Running /\ connects < MaxConnects
    /\ connects' = connects + 1
    /\ backlog' = [backlog EXCEPT ![l] = @ + 1]
    /\ nb' = [nb EXCEPT ![l] = EpollWakeup(@, {READ})]
    /\ UNCHANGED <<conn, sock, concurrency, visit, aioVars, rootVars, leaked,
                   crashed>>

Connected(c) == Running /\ conn[c].fd /\ ~sock[c].fin /\ ~sock[c].rst

PeerStep(c, s, k) ==
    /\ sock' = [sock EXCEPT ![c] = s]
    /\ nb' = [nb EXCEPT ![c] = k]
    /\ UNCHANGED <<conn, netVars, concurrency, visit, aioVars, rootVars, leaked,
                   crashed>>

PeerSend(c, t) ==
    /\ Connected(c)
    /\ sock[c].quota > 0 /\ Len(sock[c].rx) < RxCap
    /\ PeerStep(c, [sock[c] EXCEPT !.rx = Append(@, t), !.quota = @ - 1],
                EpollWakeup(nb[c], {READ}))

PeerFin(c) ==
    /\ MayFin /\ Connected(c)
    /\ PeerStep(c, [sock[c] EXCEPT !.fin = TRUE], EpollWakeup(nb[c], {READ}))

\* What had arrived before the reset can still be read.
PeerReset(c) ==
    /\ MayReset /\ Running /\ conn[c].fd /\ ~sock[c].rst
    /\ PeerStep(c, [sock[c] EXCEPT !.rst = TRUE], EpollHangup(nb[c]))

PeerDrain(c) ==
    /\ Running /\ conn[c].fd /\ ~sock[c].rst /\ sock[c].tx > 0
    /\ PeerStep(c, [sock[c] EXCEPT !.tx = 0], EpollWakeup(nb[c], {WRITE}))

AioDone(c) ==
    /\ Running /\ aio[c] = "flight"
    /\ \/ aio' = [aio EXCEPT ![c] = "ok"]
       \/ "file" \in Fails /\ aio' = [aio EXCEPT ![c] = "err"]
    /\ efd' = TRUE
    /\ nb' = [nb EXCEPT ![Efd] = EpollWakeup(@, {READ})]
    /\ UNCHANGED <<conn, sock, netVars, concurrency, visit, reap, rootVars,
                   leaked, crashed>>

-----------------------------------------------------------------------------
(* main(): vhosts_new() has opened one web root, the listeners and, for
   io_async, the eventfd have been added. *)

Init ==
    /\ conn = [c \in Conns |-> NoConn]
    /\ nb = [n \in Nbios |->
                IF n \in Listeners \/ (n = Efd /\ Fio = "async")
                THEN NbioAdd({READ}) ELSE NoNbio]
    /\ sock = [c \in Conns |-> NoSock]
    /\ backlog = [l \in Listeners |-> 0]
    /\ connects = 0 /\ concurrency = 0 /\ visit = NoVisit
    /\ aio = [c \in Conns |-> "none"] /\ efd = FALSE /\ reap = {}
    /\ \E w \in Roots :
          /\ vhost = w /\ fresh = Roots \ {w}
          /\ ref = [x \in Roots |-> IF x = w THEN 1 ELSE 0]
    /\ leaked = [fd |-> 0, iocb |-> 0, buf |-> 0]
    /\ crashed = FALSE

ConnStep(c) == HttpRead(c) \/ HttpWrite(c) \/ Sweep(c) \/ HttpDtor(c)

AioStep == EfdRead \/ AioEvent \/ \E c \in Conns : HandleCompletion(c)

Server ==
    \/ \E c \in Conns : ConnStep(c)
    \/ \E l \in Listeners : ListenerRead(l)
    \/ AioStep
    \/ EpollWait

Admin == VhostDel \/ \E w \in Roots : VhostAdd(w)

Peer ==
    \/ \E l \in Listeners : PeerConnect(l)
    \/ \E c \in Conns :
          \/ \E t \in Tokens : PeerSend(c, t)
          \/ PeerFin(c)
          \/ PeerReset(c)
          \/ PeerDrain(c)
          \/ AioDone(c)

Next == Server \/ Admin \/ Peer

Spec == Init /\ [][Next]_vars

\* The loop visits every active nbio on each pass over the list, however many
\* callbacks of others come between, and epoll_wait reports every queued item
\* in turn; a peer acknowledges what it was sent, and a disk read completes.
Fairness ==
    /\ \A c \in Conns : SF_vars(ConnStep(c))
    /\ \A l \in Listeners : SF_vars(ListenerRead(l))
    /\ SF_vars(AioStep)
    /\ SF_vars(EpollWait)
    /\ \A c \in Conns : WF_vars(PeerDrain(c)) /\ WF_vars(AioDone(c))

FairSpec == Spec /\ Fairness

-----------------------------------------------------------------------------
(* Properties. *)

\* The fields of struct _http_conn, struct nbio and the rest keep to the values
\* the code declares for them, buffer offsets and counters within their range.
TypeOK ==
    /\ conn \in [Conns -> ConnType]
    /\ nb \in [Nbios -> NbioType]
    /\ sock \in [Conns -> SockType]
    /\ backlog \in [Listeners -> Nat]
    /\ connects \in Nat /\ concurrency \in Int
    /\ visit \in {NoVisit} \cup (Nbios \X {"read", "error", "reap", "complete"})
    /\ aio \in [Conns -> {"none", "flight", "ok", "err"}]
    /\ efd \in BOOLEAN /\ reap \in SUBSET Conns
    /\ vhost \in Roots \cup {NoRoot} /\ fresh \in SUBSET Roots
    /\ ref \in [Roots -> Int]
    /\ leaked \in [fd : Nat, iocb : Nat, buf : Nat]
    /\ crashed \in BOOLEAN

\* A connection that is still served: not on its way to http_dtor().
Live(c) == conn[c].fd /\ nb[c].list # "deleted"

\* The callbacks find the connection in a state they can handle: http_read()'s
\* assertion, http_write()'s and http_kill()'s abort() and http_kill()'s
\* assertion that a connection between requests holds no response can not
\* fail.  Connection states and wait masks are changed by different calls.
CallbackFits ==
    \A c \in Conns : Live(c) =>
        /\ conn[c].state \in {"REQUEST", "HEADER", "DATA"}
        /\ nb[c].mask = {READ} <=> conn[c].state = "REQUEST"
        /\ nb[c].mask = {} <=> aio[c] # "none"
        /\ nb[c].mask \in {{READ}, {WRITE}, {}}
        /\ conn[c].state = "REQUEST" => conn[c].has \subseteq {"req"}
        /\ conn[c].state = "HEADER" => "res" \in conn[c].has /\ conn[c].res > 0

\* Whatever callback and whatever error http_kill() is called from, it returns
\* every buffer of the connection to its pool: the request buffer, the header,
\* the data buffer.  The connections that nbio_pump() sweeps on an error
\* without http_kill() are the one leak: http_dtor() finds them with their
\* descriptor open and loses what they hold, three buffers at most with each
\* descriptor.
BuffersReleased ==
    /\ \A c \in Conns :
          nb[c].list = "deleted" => conn[c].fd \/ conn[c].has = {}
    /\ leaked.buf <= 3 * leaked.fd

\* Edge-triggered epoll never loses a wake-up: an nbio parked on the inactive
\* list is registered for what it waits for, and if that is possible already
\* its event is queued.
NoLostWakeup ==
    \A n \in Nbios :
        nb[n].list = "inactive" /\ nb[n].mask # {} =>
            /\ nb[n].item # "none"
            /\ nb[n].want = nb[n].mask
            /\ Events(n, nb[n].want) # {} => nb[n].item = "queued"

\* nbio_pump's "while active is not empty" makes progress: no nbio sits on the
\* active list with neither a callback due nor an error to sweep.
NoSpin ==
    \A n \in Nbios :
        Active(n) => Due(nb[n]) # {} \/ ERROR \in nb[n].flags

\* The counter http_kill() asserts non-zero counts the descriptors held for
\* connections, the ones leaked by the error sweep included.
ConcurrencyExact == concurrency = FdsUsed

\* An asynchronous read has a place to go and someone to tell: while the iocb
\* is out, the connection stays in a responding state with its data buffer,
\* is parked without a registration, and so can be neither killed nor freed.
AioSafe ==
    \A c \in Conns : aio[c] # "none" =>
        /\ conn[c].fd /\ conn[c].state \in {"HEADER", "DATA"}
        /\ "data" \in conn[c].has /\ conn[c].r = 0 /\ conn[c].w = 0
        /\ nb[c].list = "inactive" /\ nb[c].item = "none"

\* No completion is stranded: one that io_getevents() has not returned has
\* signalled the eventfd, or is about to be collected.
NoStrandedCompletion ==
    (\E c \in Conns : aio[c] \in {"ok", "err"} /\ c \notin reap) =>
        efd \/ visit = <<Efd, "reap">>

\* A web root is kept open for as long as the vhost table or a connection
\* refers to it, whatever is added to or deleted from the vhost directory.
RootPinned ==
    \A w \in Roots :
        ref[w] >= Cardinality({c \in Conns : conn[c].root = w})
                  + (IF vhost = w THEN 1 ELSE 0)

\* The body goes out in order and complete: what was read of the file is what
\* was sent plus what the data buffer still holds, and a connection is ready
\* for its next request only when the promised length has been sent.
BodyInOrder ==
    \A c \in Conns : LET h == conn[c] IN
        /\ h.state \in {"HEADER", "DATA"} =>
              IF Fio = "sync" THEN h.sent + (h.w - h.r) + h.dlen = h.clen
              ELSE h.sent + h.dlen = h.clen /\ h.w - h.r <= h.dlen
        /\ h.state = "REQUEST" => h.sent = h.clen

\* A listener out of descriptors has someone to wake it, some connection that
\* will yet go through http_kill(), unless the error sweep, which tells
\* nobody, has taken every last descriptor.
OomHasWaker ==
    (\E l \in Listeners : nb[l].list = "oomq") =>
        (\E c \in Conns : Live(c)) \/ FdsUsed >= MaxFds

\* nbio_pump() may go on from one nbio to the next it had noted before the
\* callbacks: no callback, whatever connection it ends and whatever completion
\* it hands on, takes any nbio off the active list but the one it is called
\* for.
PumpSafe ==
    [][\A n \in Nbios : Active(n) /\ nb'[n].list # "active" =>
          /\ visit # NoVisit => visit[1] = n
          /\ \A m \in Nbios \ {n} : Active(m) => nb'[m].list = "active"]_vars

-----------------------------------------------------------------------------
(* The invariant behind the properties of single connections, for a connection
   h with nbio k and iocb a. *)

Serving(h) == h.state \in {"REQUEST", "HEADER", "DATA"}

\* The struct and its buffers.
HoldsOK(h) ==
    /\ h.fd <=> Serving(h)
    /\ ~Serving(h) => h.has = {}
    /\ h.state = "REQUEST" => h.has \subseteq {"req"}
    /\ h.state = "HEADER" => "res" \in h.has /\ h.res > 0
    /\ h.state = "DATA" => "res" \notin h.has
    /\ h.state = "HEADER" =>
          ("data" \in h.has <=> Fio # "sendfile" /\ h.dlen > 0)
    /\ h.state = "DATA" => ("data" \in h.has <=> Fio # "sendfile")

\* The body's bookkeeping.
BodyOK(h) ==
    /\ h.r <= h.w
    /\ h.state = "REQUEST" => h.sent = h.clen /\ h.r = 0 /\ h.w = 0
    /\ h.state = "HEADER" => h.r = 0 /\ (Fio = "sync" => h.w = 0)
    /\ Fio = "sendfile" => h.w = 0
    /\ h.state \in {"HEADER", "DATA"} =>
          IF Fio = "sync" THEN h.sent + (h.w - h.r) + h.dlen = h.clen
          ELSE h.sent + h.dlen = h.clen /\ h.w - h.r <= h.dlen

\* The nbio waits for what the connection needs next, or for its iocb.
WaitOK(h, k, a) ==
    /\ h.state = "FREE" => k.list = "none" /\ k.item = "none"
    /\ h.state = "DEAD" => k.list = "deleted" /\ k.item = "none"
    /\ Serving(h) => k.list \in {"active", "inactive", "deleted"}
    /\ Serving(h) /\ k.list # "deleted" =>
          /\ k.mask \in {{READ}, {WRITE}, {}}
          /\ k.mask = {READ} <=> h.state = "REQUEST"
          /\ k.mask = {} <=> a # "none"
          /\ k.item # "none" => k.poll
    /\ a # "none" =>
          /\ Fio = "async" /\ h.state \in {"HEADER", "DATA"}
          /\ "data" \in h.has /\ h.r = 0 /\ h.w = 0
          /\ k.list = "inactive" /\ k.item = "none"
          /\ k.mask = {} /\ k.flags = {}

ConnOK(h, k, a) == HoldsOK(h) /\ BodyOK(h) /\ WaitOK(h, k, a)

ConnInv == \A c \in Conns : ConnOK(conn[c], nb[c], aio[c])

\* What an unfinished visit, or an unfinished round of completions, relies on.
VisitInv ==
    /\ \A c \in Conns :
          /\ visit = <<c, "read">> =>
                Serving(conn[c]) /\ Active(c) /\ READ \in Due(nb[c])
          /\ visit = <<c, "error">> =>
                /\ Serving(conn[c]) /\ nb[c].list \in {"active", "inactive"}
                /\ ERROR \in nb[c].flags
    /\ \A c \in reap : aio[c] \in {"ok", "err"}
    /\ reap # {} => visit = <<Efd, "complete">>

\* The listeners and the eventfd are never deleted.
ListenInv == \A n \in Nbios \ Conns : nb[n].mask \subseteq {READ, WRITE}

IInv == TypeOK /\ ConnInv /\ VisitInv /\ ListenInv

-----------------------------------------------------------------------------
(* The server as its peers see it. *)

PhaseOf(h) == CASE h.state = "REQUEST" -> "request"
                [] h.state \in {"HEADER", "DATA"} -> "respond"
                [] OTHER -> "closed"

Service == INSTANCE HttpService
           WITH phase <- [c \in Conns |-> PhaseOf(conn[c])],
                owed <- [c \in Conns |-> conn[c].clen - conn[c].sent]

\* Every step of the server is a step of the service it promises: responses
\* are never cut short and followed by another, and no connection goes from
\* one response to the next without passing through a request.
ImplementsService == Service!SSpec

\* Once the end of a request arrives at a connection that awaits one, it is
\* answered or the connection ended.  (A request http_read() took off the
\* socket together with the one before it is not looked at until then.)
RequestAnswered ==
    \A c \in Conns :
        (Live(c) /\ conn[c].state = "REQUEST" /\ Completes(sock[c].rx))
        ~> (conn[c].state # "REQUEST" \/ ~Live(c) \/ crashed)

\* A response that was begun ends, as long as the peer keeps reading: no wait for
\* the socket goes unanswered.  It is checked under io_sendfile.  io_sync waits
\* for the same things; with io_async, where a response waits for the disk as
\* well, the first GET of a file that is not empty crashes the process.
ResponseEnds ==
    \A c \in Conns :
        conn[c].state \in {"HEADER", "DATA"}
        ~> (conn[c].state \notin {"HEADER", "DATA"} \/ crashed)

\* The loop always gets back to the deleted list: a dead connection's memory
\* returns to the pool.
DeadFreed ==
    \A c \in Conns : conn[c].state = "DEAD"
                     ~> (conn[c].state # "DEAD" \/ crashed)

\* As long as descriptors last, a waiting connection is accepted.
BacklogServed ==
    \A l \in Listeners : backlog[l] > 0 ~> (backlog[l] = 0 \/ crashed)

-----------------------------------------------------------------------------
(* What an assertion of the code claims and the code does not do. *)

\* "assert(h->h_state = HTTP_CONN_DEAD)" in http_dtor(), read as the comparison
\* it was meant to be: only connections that went through http_kill() are
\* destroyed.
DtorOnlyDead ==
    \A c \in Conns : nb[c].list = "deleted" => conn[c].state = "DEAD"

=============================================================================
