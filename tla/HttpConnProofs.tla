--------------------------- MODULE HttpConnProofs ---------------------------
(***************************************************************************)
(* The inductive invariant IInv of HttpConn, for every number of slots and   *)
(* listeners, every size of buffer, queue and file, every file I/O model,   *)
(* every set of failures and whether or not peers pipeline or reset.        *)
(*                                                                         *)
(* The argument: a callback replaces the struct, the nbio and the socket of *)
(* one connection (Carry) or kills it (HttpKill).  CarryStep and KillStep   *)
(* say what must hold of the replacement; the lemma of each callback shows  *)
(* that it does.  What the callback may do to the state that other parts of *)
(* the server share with the connection (Effect) follows, and that the      *)
(* server implements HttpService: by IInv what a connection owes its peer   *)
(* is zero but while it responds, and no callback makes it owe more of a    *)
(* response it has begun.                                                   *)
(***************************************************************************)
EXTENDS HttpConn, SequenceTheorems, FiniteSetTheorems, TLAPS

-----------------------------------------------------------------------------
(* The operations on an nbio. *)

\* do_set_wait() leaves exactly the wait it was asked for, believed ready, on
\* the list that goes with it, and no registration behind.
LEMMA SetWaitProps ==
    ASSUME NEW n \in NbioType, NEW w \in SUBSET {READ, WRITE},
           NEW q \in Lists
    PROVE  LET k == DoSetWait(n, w, q)
           IN  /\ k \in NbioType
               /\ k.mask = w /\ k.flags = w
               /\ k.list = IF w = {} THEN q ELSE "active"
               /\ (n.item # "none" => n.poll) => k.item = "none"
BY DEF DoSetWait, EpollActive, NbioType, Items, Lists

\* nbio_inactive() clears the flags it is given, keeps the mask, and leaves
\* the nbio registered if it parks it.
LEMMA InactiveProps ==
    ASSUME NEW n \in NbioType, NEW which \in SUBSET {READ, WRITE},
           NEW ready \in BOOLEAN, NEW ok \in BOOLEAN,
           n.mask \subseteq {READ, WRITE}
    PROVE  LET k == NbioInactive(n, which, ready, ok)
           IN  /\ k \in NbioType
               /\ k.mask = n.mask /\ k.flags = n.flags \ which
               /\ k.list = IF k.mask \cap k.flags = {} THEN "inactive"
                           ELSE n.list
               /\ (n.item # "none" => n.poll) => (k.item # "none" => k.poll)
BY DEF NbioInactive, EpollInactive, NbioType, Items, Lists

\* nbio_del() after the descriptor was closed.
LEMMA DelProps ==
    ASSUME NEW n \in NbioType
    PROVE  LET k == NbioDel(CloseFd(n), FALSE)
           IN  /\ k \in NbioType
               /\ k.list = "deleted" /\ k.item = "none" /\ k.flags = {}
BY DEF NbioDel, CloseFd, EpollActive, NbioType, Items, Lists, DELETED

-----------------------------------------------------------------------------
(* The two ends of a callback. *)

AioStates == {"none", "flight", "ok", "err"}

\* The part of IInv that callbacks and peers act upon.
CoreInv ==
    /\ conn \in [Conns -> ConnType]
    /\ nb \in [Nbios -> NbioType]
    /\ sock \in [Conns -> SockType]
    /\ aio \in [Conns -> AioStates]
    /\ concurrency \in Int
    /\ ConnInv /\ ListenInv

\* Carry() keeps the invariant if the connection it stores satisfies it.
LEMMA CarryStep ==
    ASSUME CoreInv, NEW c \in Conns, NEW h \in ConnType, NEW k \in NbioType,
           NEW s \in SockType, NEW a \in AioStates,
           Carry(c, h, k, s), aio' = [aio EXCEPT ![c] = a], ConnOK(h, k, a)
    PROVE  CoreInv' /\ conn'[c] = h /\ nb'[c] = k
<1>1. c \in Nbios
  BY DEF Nbios
<1>2. /\ conn' \in [Conns -> ConnType] /\ nb' \in [Nbios -> NbioType]
      /\ sock' \in [Conns -> SockType] /\ aio' \in [Conns -> AioStates]
      /\ concurrency' \in Int
      /\ conn'[c] = h /\ nb'[c] = k /\ aio'[c] = a
  BY <1>1 DEF CoreInv, Carry
<1>3. ASSUME NEW d \in Conns, d # c
      PROVE  conn'[d] = conn[d] /\ nb'[d] = nb[d] /\ aio'[d] = aio[d]
  BY <1>3 DEF CoreInv, Carry, Nbios
<1>4. ConnInv'
  <2> SUFFICES ASSUME NEW d \in Conns
               PROVE  ConnOK(conn'[d], nb'[d], aio'[d])
    BY DEF ConnInv, ConnOK, HoldsOK, BodyOK, WaitOK, Serving
  <2>1. CASE d = c
    BY <1>2, <2>1
  <2>2. CASE d # c
    BY <1>3, <2>2 DEF CoreInv, ConnInv
  <2> QED BY <2>1, <2>2
<1>5. ListenInv'
  BY DEF CoreInv, Carry, ListenInv
<1> QED BY <1>2, <1>4, <1>5 DEF CoreInv

\* http_kill() keeps the invariant, if it frees all the connection holds and
\* no iocb of the connection is out; it leaves no flag set.
LEMMA KillStep ==
    ASSUME CoreInv, NEW c \in Conns, NEW h \in ConnType, NEW k \in NbioType,
           HttpKill(c, h, k), aio' = [aio EXCEPT ![c] = "none"],
           h.has \subseteq KillFrees(h)
    PROVE  CoreInv' /\ nb'[c].flags = {}
<1>1. c \in Nbios
  BY DEF Nbios
<1> DEFINE dead == DeadConn(h)
           gone == NbioDel(CloseFd(k), FALSE)
<1>2. /\ dead \in ConnType /\ dead.state = "DEAD" /\ dead.has = {}
      /\ dead.fd = FALSE /\ dead.r = 0 /\ dead.w = 0
  <2>1. NoConn \in ConnType
    BY EmptySeq DEF NoConn, ConnType
  <2> QED BY <2>1 DEF ConnType, NoConn, DeadConn
<1>3. /\ gone \in NbioType
      /\ gone.list = "deleted" /\ gone.item = "none" /\ gone.flags = {}
  BY DelProps
<1>4. ConnOK(dead, gone, "none")
  <2> HIDE DEF dead, gone
  <2>1. HoldsOK(dead)
    BY <1>2 DEF HoldsOK, Serving
  <2>2. BodyOK(dead)
    BY <1>2 DEF BodyOK
  <2>3. WaitOK(dead, gone, "none")
    BY <1>2, <1>3 DEF WaitOK, Serving
  <2> QED BY <2>1, <2>2, <2>3 DEF ConnOK
<1>5. NoSock \in SockType
  BY EmptySeq DEF NoSock, SockType
<1>6. ASSUME NEW n \in Nbios, nb[n].list = "oomq"
      PROVE  /\ NbioWake(nb[n], {READ}) \in NbioType
             /\ NbioWake(nb[n], {READ}).mask = {READ}
  <2>1. nb[n] \in NbioType /\ "inactive" \in Lists
    BY DEF CoreInv, Lists
  <2> QED BY <2>1, SetWaitProps DEF NbioWake
<1>7. /\ conn' \in [Conns -> ConnType] /\ sock' \in [Conns -> SockType]
      /\ aio' \in [Conns -> AioStates] /\ concurrency' \in Int
      /\ conn'[c] = dead /\ aio'[c] = "none"
  <2>1. conn' = [conn EXCEPT ![c] = dead] /\ sock' = [sock EXCEPT ![c] = NoSock]
        /\ concurrency' = concurrency - 1
    BY DEF HttpKill
  <2> QED BY <1>2, <1>5, <2>1 DEF CoreInv, AioStates
<1>8. nb' \in [Nbios -> NbioType] /\ nb'[c] = gone
  <2>1. nb' = [n \in Nbios |->
                 IF n = c THEN gone
                 ELSE IF nb[n].list = "oomq" THEN NbioWake(nb[n], {READ})
                 ELSE nb[n]]
    BY DEF HttpKill
  <2>2. nb \in [Nbios -> NbioType]
    BY DEF CoreInv
  <2> HIDE DEF gone
  <2> QED BY <1>1, <1>3, <1>6, <2>1, <2>2
<1>9. ASSUME NEW d \in Conns, d # c
      PROVE  conn'[d] = conn[d] /\ nb'[d] = nb[d] /\ aio'[d] = aio[d]
  <2>1. nb[d].list # "oomq"
    <3>1. conn[d] \in ConnType /\ ConnOK(conn[d], nb[d], aio[d])
      BY DEF CoreInv, ConnInv
    <3> QED BY <3>1 DEF ConnOK, WaitOK, Serving, ConnType
  <2>2. d \in Nbios
    BY DEF Nbios
  <2> QED BY <1>9, <2>1, <2>2 DEF CoreInv, HttpKill
<1>10. ConnInv'
  <2> SUFFICES ASSUME NEW d \in Conns
               PROVE  ConnOK(conn'[d], nb'[d], aio'[d])
    BY DEF ConnInv, ConnOK, HoldsOK, BodyOK, WaitOK, Serving
  <2>1. CASE d = c
    BY <1>4, <1>7, <1>8, <2>1
  <2>2. CASE d # c
    BY <1>9, <2>2 DEF CoreInv, ConnInv
  <2> QED BY <2>1, <2>2
<1>11. ListenInv'
  <2>1. ASSUME NEW n \in Nbios \ Conns
        PROVE  nb'[n] = nb[n] \/ nb'[n].mask = {READ}
    BY <1>6 DEF HttpKill
  <2> QED BY <2>1 DEF CoreInv, ListenInv
<1> QED BY <1>3, <1>7, <1>8, <1>10, <1>11 DEF CoreInv

-----------------------------------------------------------------------------
(* What a callback leaves behind. *)

\* What remains of the visit after a callback finds the connection alive.
Settled(h, k) ==
    /\ READ \in Due(k) => Serving(h) /\ k.list = "active"
    /\ ERROR \in k.flags => Serving(h) /\ k.list \in {"active", "inactive"}

Done(c) == CoreInv' /\ Settled(conn'[c], nb'[c])

\* A connection in the middle of one of its callbacks: h is its struct so far.
Midway(c, h) ==
    /\ h \in ConnType /\ Serving(h) /\ ConnOK(h, nb[c], "none")
    /\ aio[c] = "none" /\ nb[c].list = "active"

\* A step that leaves the iocbs alone, in the form the steps of one connection
\* are described in.
LEMMA SameAio ==
    ASSUME CoreInv, NEW c \in Conns, UNCHANGED aio
    PROVE  aio' = [aio EXCEPT ![c] = aio[c]]
BY DEF CoreInv

\* A connection that dies is settled.
LEMMA KillDone ==
    ASSUME CoreInv, NEW c \in Conns, NEW h \in ConnType, NEW k \in NbioType,
           HttpKill(c, h, k), aio[c] = "none", UNCHANGED aio,
           h.has \subseteq KillFrees(h)
    PROVE  Done(c)
<1>1. aio' = [aio EXCEPT ![c] = "none"]
  BY SameAio
<1>2. CoreInv' /\ nb'[c].flags = {}
  BY <1>1, KillStep
<1> QED BY <1>2 DEF Done, Settled, Due

\* A connection that keeps its nbio is settled.
LEMMA StayDone ==
    ASSUME CoreInv, NEW c \in Conns, NEW h, NEW s \in SockType,
           Midway(c, h), Carry(c, h, nb[c], s), UNCHANGED aio
    PROVE  Done(c)
<1>1. nb[c] \in NbioType /\ "none" \in AioStates
  BY DEF CoreInv, Nbios, AioStates
<1>2. CoreInv' /\ conn'[c] = h /\ nb'[c] = nb[c]
  BY <1>1, SameAio, CarryStep DEF Midway
<1> QED BY <1>2 DEF Done, Settled, Midway

\* A connection whose socket is not ready is settled.
LEMMA BlockedDone ==
    ASSUME CoreInv, NEW c \in Conns, NEW h, NEW which \in {READ, WRITE},
           Midway(c, h), Blocked(c, h, which), UNCHANGED aio
    PROVE  Done(c)
<1>1. /\ nb[c] \in NbioType /\ sock[c] \in SockType /\ "none" \in AioStates
      /\ ConnOK(h, nb[c], "none") /\ h \in ConnType /\ Serving(h)
      /\ nb[c].list = "active" /\ aio[c] = "none"
  BY DEF CoreInv, Nbios, AioStates, Midway
<1>2. nb[c].mask \in {{READ}, {WRITE}} /\ (nb[c].item # "none" => nb[c].poll)
  BY <1>1 DEF ConnOK, WaitOK
<1> DEFINE ready == SockEvents(sock[c], nb[c].mask) # {}
<1>3. PICK ok \in CtlResults :
             Carry(c, h, NbioInactive(nb[c], {which}, ready, ok), sock[c])
  BY DEF Blocked
<1> DEFINE k == NbioInactive(nb[c], {which}, ready, ok)
<1>4. ready \in BOOLEAN /\ ok \in BOOLEAN
  BY DEF CtlResults
<1>5. /\ k \in NbioType /\ k.mask = nb[c].mask
      /\ k.list = IF k.mask \cap k.flags = {} THEN "inactive" ELSE "active"
      /\ (k.item # "none" => k.poll)
  <2> HIDE DEF ready
  <2>1. {which} \in SUBSET {READ, WRITE} /\ nb[c].mask \subseteq {READ, WRITE}
    BY <1>2
  <2>2. PICK W \in SUBSET {READ, WRITE} : W = {which}
    BY <2>1
  <2>3. k = NbioInactive(nb[c], W, ready, ok)
    BY <2>2
  <2> HIDE DEF k
  <2> QED BY <1>1, <1>2, <1>4, <2>1, <2>3, InactiveProps
<1> HIDE DEF k, ready
<1>6. ConnOK(h, k, "none")
  <2>1. WaitOK(h, k, "none")
    BY <1>1, <1>2, <1>5 DEF ConnOK, WaitOK, Serving
  <2> QED BY <1>1, <2>1 DEF ConnOK
<1>7. CoreInv' /\ conn'[c] = h /\ nb'[c] = k
  <2>1. Carry(c, h, k, sock[c])
    BY <1>3 DEF k
  <2> QED BY <1>1, <1>5, <1>6, <2>1, SameAio, CarryStep
<1> QED BY <1>1, <1>5, <1>7 DEF Done, Settled, Due

\* A connection that was given something new to wait for is settled.
LEMMA WaitDone ==
    ASSUME CoreInv, NEW c \in Conns, NEW h \in ConnType, NEW s \in SockType,
           NEW w \in {{READ}, {WRITE}},
           Serving(h), HoldsOK(h), BodyOK(h), w = {READ} <=> h.state = "REQUEST",
           nb[c].item # "none" => nb[c].poll,
           Carry(c, h, NbioSetWait(nb[c], w), s), aio' = [aio EXCEPT ![c] = "none"]
    PROVE  Done(c)
<1>1. nb[c] \in NbioType /\ "none" \in AioStates /\ "inactive" \in Lists
  BY DEF CoreInv, Nbios, AioStates, Lists
<1> DEFINE k == NbioSetWait(nb[c], w)
<1>2. /\ k \in NbioType /\ k.mask = w /\ k.flags = w /\ k.list = "active"
      /\ k.item = "none"
  BY <1>1, SetWaitProps DEF NbioSetWait
<1> HIDE DEF k
<1>3. WaitOK(h, k, "none")
  BY <1>2 DEF WaitOK, Serving, READ, WRITE
<1>4. CoreInv' /\ conn'[c] = h /\ nb'[c] = k
  BY <1>1, <1>2, <1>3, CarryStep DEF ConnOK, k
<1> QED BY <1>2, <1>4 DEF Done, Settled, READ, WRITE, ERROR

\* A connection that waits for its iocb is settled.
LEMMA SubmittedDone ==
    ASSUME CoreInv, NEW c \in Conns, NEW h \in ConnType, NEW s \in SockType,
           HoldsOK(h), BodyOK(h), h.state \in {"HEADER", "DATA"},
           Fio = "async", "data" \in h.has, h.r = 0, h.w = 0,
           nb[c].item # "none" => nb[c].poll, Submitted(c, h, s)
    PROVE  Done(c)
<1>1. nb[c] \in NbioType /\ "flight" \in AioStates /\ "inactive" \in Lists
  BY DEF CoreInv, Nbios, AioStates, Lists
<1> DEFINE k == NbioToWaitq(nb[c], "inactive")
<1>2. /\ k \in NbioType /\ k.mask = {} /\ k.flags = {} /\ k.list = "inactive"
      /\ k.item = "none"
  BY <1>1, SetWaitProps DEF NbioToWaitq
<1> HIDE DEF k
<1>3. WaitOK(h, k, "flight")
  BY <1>2 DEF WaitOK, Serving, READ
<1>4. CoreInv' /\ conn'[c] = h /\ nb'[c] = k
  BY <1>1, <1>2, <1>3, CarryStep DEF ConnOK, Submitted, k
<1> QED BY <1>2, <1>4 DEF Done, Settled, Due

-----------------------------------------------------------------------------
(* Reading requests. *)

\* The rest of the state a callback may change.
Rest ==
    /\ ref \in [Roots -> Int] /\ leaked \in [fd : Nat, iocb : Nat, buf : Nat]
    /\ crashed \in BOOLEAN

\* A connection that may be given a response.
Asking(h) ==
    h \in ConnType /\ h.state = "REQUEST" /\ HoldsOK(h) /\ BodyOK(h)

\* Taking the request off the buffer leaves the connection as it was.
LEMMA ConsumeProps ==
    ASSUME NEW h, Asking(h), NEW i \in 1..Len(h.req)
    PROVE  Asking(Consume(h, i)) /\ Consume(h, i).root = h.root
<1> DEFINE left == SubSeq(h.req, i + 1, Len(h.req))
           g == [h EXCEPT !.req = left,
                          !.has = IF left = <<>> THEN @ \ {"req"} ELSE @]
<1>1. h \in ConnType /\ h.req \in Seq(Tokens)
  BY DEF Asking, ConnType
<1>2. left \in Seq(Tokens)
  BY <1>1, SubSeqProperties
<1> HIDE DEF left
<1>3. /\ g \in ConnType /\ g.has \subseteq h.has
      /\ g.state = h.state /\ g.fd = h.fd /\ g.r = h.r /\ g.w = h.w
      /\ g.sent = h.sent /\ g.clen = h.clen /\ g.dlen = h.dlen
      /\ g.root = h.root
  BY <1>1, <1>2 DEF ConnType
<1>4. Consume(h, i) = g
  BY DEF Consume, left
<1> HIDE DEF g
<1>5. HoldsOK(g)
  BY <1>3 DEF Asking, HoldsOK, Serving
<1>6. BodyOK(g)
  BY <1>3 DEF Asking, BodyOK
<1> QED BY <1>3, <1>4, <1>5, <1>6 DEF Asking

\* A response without a body.
LEMMA ReplyProps ==
    ASSUME NEW h, Asking(h), NEW close \in BOOLEAN
    PROVE  LET g == Reply(h, close)
           IN  /\ g \in ConnType /\ HoldsOK(g) /\ BodyOK(g)
               /\ g.state = "HEADER" /\ g.r = 0 /\ g.w = 0
               /\ "data" \notin g.has /\ g.sent = 0 /\ g.fd = h.fd
<1> DEFINE g == Reply(h, close)
<1>1. HdrLen \in Nat /\ HdrLen > 0
  BY SizeAssumption
<1>2. /\ h \in ConnType /\ h.state = "REQUEST" /\ h.has \subseteq {"req"}
      /\ h.r = 0 /\ h.w = 0 /\ (h.fd <=> Serving(h))
  BY DEF Asking, HoldsOK, BodyOK
<1>3. /\ g \in ConnType /\ g.state = "HEADER" /\ g.r = 0 /\ g.w = 0
      /\ g.has = h.has \cup {"res"} /\ g.res = HdrLen /\ g.fd = h.fd
      /\ g.sent = 0 /\ g.dlen = 0 /\ g.clen = 0
  BY <1>1, <1>2 DEF Reply, ConnType
<1> HIDE DEF g
<1>4. HoldsOK(g)
  BY <1>1, <1>2, <1>3 DEF HoldsOK, Serving
<1>5. BodyOK(g)
  BY <1>3 DEF BodyOK
<1> QED BY <1>2, <1>3, <1>4, <1>5 DEF g

\* A response with a file for a body.
LEMMA GetReplyProps ==
    ASSUME NEW h, Asking(h), NEW close \in BOOLEAN, NEW len \in FileLens,
           vhost \in Roots \cup {NoRoot}
    PROVE  LET g == GetReply(h, len, close)
           IN  /\ g \in ConnType /\ HoldsOK(g) /\ BodyOK(g)
               /\ g.state = "HEADER" /\ g.r = 0 /\ g.w = 0
               /\ (len > 0 /\ Fio # "sendfile" => "data" \in g.has)
<1> DEFINE f == Reply(h, close)
           g == [f EXCEPT !.dlen = len, !.clen = len, !.root = vhost,
                   !.has = IF len > 0 /\ Fio # "sendfile"
                           THEN @ \cup {"data"} ELSE @]
<1>1. len \in Nat
  BY SizeAssumption
<1>2. /\ f \in ConnType /\ HoldsOK(f) /\ f.state = "HEADER"
      /\ f.r = 0 /\ f.w = 0 /\ "data" \notin f.has /\ f.sent = 0
  BY ReplyProps
<1> HIDE DEF f
<1>3. /\ g \in ConnType /\ g.state = "HEADER" /\ g.r = 0 /\ g.w = 0
      /\ g.has \subseteq f.has \cup {"data"} /\ f.has \subseteq g.has
      /\ ("data" \in g.has <=> len > 0 /\ Fio # "sendfile")
      /\ g.res = f.res /\ g.fd = f.fd
      /\ g.sent = 0 /\ g.dlen = len /\ g.clen = len
  BY <1>1, <1>2 DEF ConnType
<1>4. GetReply(h, len, close) = g
  BY DEF GetReply, f
<1> HIDE DEF g
<1>5. HoldsOK(g)
  BY <1>2, <1>3 DEF HoldsOK, Serving
<1>6. BodyOK(g)
  BY <1>1, <1>3 DEF BodyOK
<1> QED BY <1>3, <1>4, <1>5, <1>6

\* The nbio of a connection whose read callback runs: h is its struct so far.
Reading(c, h) ==
    /\ Asking(h)
    /\ nb[c].item # "none" => nb[c].poll
    /\ nb[c].list = "active" /\ nb[c].mask = {READ} /\ aio[c] = "none"

\* handle_request() has set the connection to respond and wait for its socket.
LEMMA AnswerDone ==
    ASSUME CoreInv, NEW c \in Conns, NEW h \in ConnType, NEW s \in SockType,
           HoldsOK(h), BodyOK(h), h.state = "HEADER", aio[c] = "none",
           nb[c].item # "none" => nb[c].poll, Answer(c, h, s), UNCHANGED aio
    PROVE  Done(c)
<1>1. {WRITE} \in {{READ}, {WRITE}} /\ {WRITE} # {READ}
  BY DEF READ, WRITE
<1>2. aio' = [aio EXCEPT ![c] = "none"]
  BY SameAio
<1> QED BY <1>1, <1>2, WaitDone DEF Answer, Serving

\* A killed reader holds nothing but its request buffer.
LEMMA ReaderKilled ==
    ASSUME CoreInv, NEW c \in Conns, NEW h, Reading(c, h),
           HttpKill(c, h, nb[c]), UNCHANGED aio
    PROVE  Done(c)
<1>1. nb[c] \in NbioType
  BY DEF CoreInv, Nbios
<1>2. h \in ConnType /\ h.has \subseteq KillFrees(h) /\ aio[c] = "none"
  BY DEF Reading, Asking, HoldsOK, KillFrees
<1> QED BY <1>1, <1>2, KillDone

\* handle_get()
LEMMA GetDone ==
    ASSUME CoreInv, Rest, NEW c \in Conns, NEW h, Reading(c, h),
           NEW s \in SockType, NEW close \in BOOLEAN, vhost \in Roots,
           HandleGet(c, h, close, s)
    PROVE  Done(c) /\ Rest'
<1>1. PICK len \in FileLens :
        \/ /\ len = 0 \/ Fio # "async"
           /\ Answer(c, GetReply(h, len, close), s)
           /\ ref' = [ref EXCEPT ![vhost] = @ + 1]
           /\ UNCHANGED <<aio, leaked, crashed>>
        \/ /\ len > 0 /\ Fio = "async" /\ h.root # NoRoot
           /\ Submitted(c, GetReply(h, len, close), s)
           /\ ref' = [ref EXCEPT ![vhost] = @ + 1]
           /\ UNCHANGED <<leaked, crashed>>
        \/ /\ len > 0 /\ Fio = "async" /\ h.root = NoRoot
           /\ crashed' = TRUE
           /\ UNCHANGED <<conn, nb, sock, concurrency, aio, ref, leaked>>
        \/ len > 0 /\ PrepFails(c, h, s)
  BY DEF HandleGet
<1> DEFINE g == GetReply(h, len, close)
<1>2. /\ g \in ConnType /\ HoldsOK(g) /\ BodyOK(g)
      /\ g.state = "HEADER" /\ g.r = 0 /\ g.w = 0
      /\ (len > 0 /\ Fio # "sendfile" => "data" \in g.has)
  BY GetReplyProps DEF Reading
<1> HIDE DEF g
<1>3. aio[c] = "none" /\ (nb[c].item # "none" => nb[c].poll)
  BY DEF Reading
<1>4. CASE /\ Answer(c, g, s) /\ ref' = [ref EXCEPT ![vhost] = @ + 1]
           /\ UNCHANGED <<aio, leaked, crashed>>
  BY <1>2, <1>3, <1>4, AnswerDone DEF Rest
<1>5. CASE /\ len > 0 /\ Fio = "async" /\ Submitted(c, g, s)
           /\ ref' = [ref EXCEPT ![vhost] = @ + 1]
           /\ UNCHANGED <<leaked, crashed>>
  BY <1>2, <1>3, <1>5, SubmittedDone DEF Rest
<1>6. CASE /\ crashed' = TRUE
           /\ UNCHANGED <<conn, nb, sock, concurrency, aio, ref, leaked>>
  <2>1. CoreInv'
    BY <1>6 DEF CoreInv, ConnInv, ListenInv, ConnOK, HoldsOK, BodyOK, WaitOK,
                Serving
  <2>2. Serving(conn[c]) /\ nb[c].list = "active"
    BY DEF Reading, CoreInv, ConnInv, ConnOK, WaitOK, Serving, ConnType
  <2>3. Settled(conn'[c], nb'[c])
    BY <1>6, <2>2 DEF Settled
  <2> QED BY <1>6, <2>1, <2>3 DEF Done, Rest
<1>7. CASE PrepFails(c, h, s)
  <2>1. Answer(c, Reply(h, TRUE), s) /\ UNCHANGED <<aio, ref, crashed>>
    BY <1>7 DEF PrepFails
  <2>2. leaked' \in [fd : Nat, iocb : Nat, buf : Nat]
    BY <1>7 DEF PrepFails, Rest
  <2>3. /\ Reply(h, TRUE) \in ConnType /\ HoldsOK(Reply(h, TRUE))
        /\ BodyOK(Reply(h, TRUE)) /\ Reply(h, TRUE).state = "HEADER"
    BY ReplyProps DEF Reading
  <2> QED BY <1>3, <2>1, <2>2, <2>3, AnswerDone DEF Rest
<1> QED BY <1>1, <1>4, <1>5, <1>6, <1>7 DEF g

\* handle_request()
LEMMA RequestDone ==
    ASSUME CoreInv, Rest, NEW c \in Conns, NEW h, Reading(c, h),
           NEW s \in SockType, vhost \in Roots \cup {NoRoot},
           HandleRequest(c, h, s)
    PROVE  Done(c) /\ Rest'
<1> DEFINE quiet == UNCHANGED <<aio, ref, leaked, crashed>>
<1>1. PICK i \in 1..Len(h.req) :
        \/ HttpKill(c, h, nb[c]) /\ quiet
        \/ Answer(c, Reply(h, TRUE), s) /\ quiet
        \/ Answer(c, Reply(Consume(h, i), TRUE), s) /\ quiet
        \/ /\ \E close \in ConnClose : Answer(c, Reply(Consume(h, i), close), s)
           /\ quiet
        \/ /\ vhost # NoRoot
           /\ \E close \in ConnClose : HandleGet(c, Consume(h, i), close, s)
  BY DEF HandleRequest
<1>2. /\ Reading(c, Consume(h, i)) /\ aio[c] = "none"
      /\ (nb[c].item # "none" => nb[c].poll)
  BY ConsumeProps DEF Reading
<1>3. ASSUME NEW g, Asking(g), NEW close \in BOOLEAN,
             Answer(c, Reply(g, close), s), quiet
      PROVE  Done(c) /\ Rest'
  <2>1. /\ Reply(g, close) \in ConnType /\ HoldsOK(Reply(g, close))
        /\ BodyOK(Reply(g, close)) /\ Reply(g, close).state = "HEADER"
    BY <1>3, ReplyProps
  <2> QED BY <1>2, <1>3, <2>1, AnswerDone DEF Rest
<1>4. CASE HttpKill(c, h, nb[c]) /\ quiet
  BY <1>4, ReaderKilled DEF Rest
<1>5. CASE Answer(c, Reply(h, TRUE), s) /\ quiet
  BY <1>3, <1>5 DEF Reading
<1>6. CASE Answer(c, Reply(Consume(h, i), TRUE), s) /\ quiet
  BY <1>2, <1>3, <1>6 DEF Reading
<1>7. CASE /\ \E close \in ConnClose : Answer(c, Reply(Consume(h, i), close), s)
           /\ quiet
  BY <1>2, <1>3, <1>7, ChoiceAssumption DEF Reading
<1>8. CASE /\ vhost # NoRoot
           /\ \E close \in ConnClose : HandleGet(c, Consume(h, i), close, s)
  BY <1>2, <1>8, ChoiceAssumption, GetDone
<1> QED BY <1>1, <1>4, <1>5, <1>6, <1>7, <1>8

\* What http_read() receives leaves the connection as it was.
LEMMA ReceivedReading ==
    ASSUME CoreInv, NEW c \in Conns, NEW h, Reading(c, h),
           NEW n, n = Smaller(ReqCap - Len(h.req), Len(sock[c].rx)), n > 0
    PROVE  /\ Reading(c, [h EXCEPT !.req = @ \o SubSeq(sock[c].rx, 1, n)])
           /\ [sock[c] EXCEPT !.rx = SubSeq(@, n + 1, Len(@))] \in SockType
<1> DEFINE g == [h EXCEPT !.req = @ \o SubSeq(sock[c].rx, 1, n)]
           t == [sock[c] EXCEPT !.rx = SubSeq(@, n + 1, Len(@))]
<1>1. /\ sock[c] \in SockType /\ sock[c].rx \in Seq(Tokens)
      /\ h \in ConnType /\ h.req \in Seq(Tokens)
  BY DEF CoreInv, SockType, Reading, Asking, ConnType
<1>2. n \in Nat /\ n <= Len(sock[c].rx) /\ Len(sock[c].rx) \in Nat
  <2>1. ReqCap - Len(h.req) \in Int /\ Len(sock[c].rx) \in Nat
    <3>1. ReqCap \in Nat
      BY SizeAssumption
    <3>2. Len(h.req) \in Nat /\ Len(sock[c].rx) \in Nat
      BY <1>1, LenProperties
    <3> QED BY <3>1, <3>2
  <2> QED BY <2>1 DEF Smaller
<1>3. /\ SubSeq(sock[c].rx, 1, n) \in Seq(Tokens)
      /\ SubSeq(sock[c].rx, n + 1, Len(sock[c].rx)) \in Seq(Tokens)
  BY <1>1, <1>2, SubSeqProperties
<1>4. h.req \o SubSeq(sock[c].rx, 1, n) \in Seq(Tokens)
  BY <1>1, <1>3, ConcatProperties
<1>5. t \in SockType
  BY <1>1, <1>3 DEF SockType
<1>6. /\ g \in ConnType /\ g.state = h.state /\ g.fd = h.fd /\ g.has = h.has
      /\ g.r = h.r /\ g.w = h.w /\ g.sent = h.sent /\ g.clen = h.clen
      /\ g.dlen = h.dlen /\ g.res = h.res
  BY <1>1, <1>4 DEF ConnType
<1> HIDE DEF g, t
<1>7. Asking(g)
  BY <1>6 DEF Reading, Asking, HoldsOK, BodyOK, Serving
<1>8. Reading(c, g)
  BY <1>7 DEF Reading
<1> QED BY <1>5, <1>8 DEF g, t

\* http_read() once it has a buffer
LEMMA ReceiveDone ==
    ASSUME CoreInv, Rest, NEW c \in Conns, NEW h, Reading(c, h),
           vhost \in Roots \cup {NoRoot}, Receive(c, h)
    PROVE  Done(c) /\ Rest'
<1> DEFINE n == Smaller(ReqCap - Len(h.req), Len(sock[c].rx))
           g == [h EXCEPT !.req = @ \o SubSeq(sock[c].rx, 1, n)]
           t == [sock[c] EXCEPT !.rx = SubSeq(@, n + 1, Len(@))]
           quiet == UNCHANGED <<aio, ref, leaked, crashed>>
<1>1. ASSUME n > 0
      PROVE  Reading(c, g) /\ t \in SockType
  BY <1>1, ReceivedReading
<1>2. ASSUME NEW f, Reading(c, f)
      PROVE  Midway(c, f)
  <2>1. ConnOK(f, nb[c], "none")
    BY <1>2 DEF Reading, Asking, ConnOK, WaitOK, Serving, READ, WRITE
  <2> QED BY <1>2, <2>1 DEF Reading, Midway, Asking, Serving
<1>3. CASE HttpKill(c, h, nb[c]) /\ quiet
  BY <1>3, ReaderKilled DEF Rest
<1>4. CASE Blocked(c, h, READ) /\ quiet
  BY <1>2, <1>4, BlockedDone DEF Rest
<1>5. CASE n > 0 /\ Carry(c, g, nb[c], t) /\ quiet
  <2> HIDE DEF n, g, t
  <2> QED BY <1>1, <1>2, <1>5, StayDone DEF Rest
<1>6. CASE n > 0 /\ HandleRequest(c, g, t)
  <2> HIDE DEF n, g, t
  <2> QED BY <1>1, <1>6, RequestDone
<1> QED BY <1>3, <1>4, <1>5, <1>6 DEF Receive

\* A connection with a callback or an error due is being served.
LEMMA ActiveServed ==
    ASSUME CoreInv, NEW c \in Conns, Active(c)
    PROVE  Midway(c, conn[c]) /\ nb[c].mask \in {{READ}, {WRITE}}
<1>1. /\ conn[c] \in ConnType /\ ConnOK(conn[c], nb[c], aio[c])
      /\ nb[c].list = "active" /\ aio[c] \in AioStates
  BY DEF CoreInv, ConnInv, Active
<1>2. Serving(conn[c]) /\ aio[c] = "none"
  BY <1>1 DEF ConnOK, WaitOK, Serving, ConnType
<1> QED BY <1>1, <1>2 DEF Midway, ConnOK, WaitOK

\* http_read() is called on a connection that may be given a response, before
\* and after it has made sure of a request buffer.
LEMMA ReaderReading ==
    ASSUME IInv, CoreInv, NEW c \in Conns, HttpRead(c)
    PROVE  /\ Active(c) /\ Reading(c, conn[c])
           /\ Reading(c, [conn[c] EXCEPT !.has = @ \cup {"req"}])
<1>1. Active(c) /\ READ \in Due(nb[c])
  BY DEF HttpRead, DueRead, IInv, VisitInv
<1>2. Midway(c, conn[c]) /\ nb[c].mask = {READ}
  BY <1>1, ActiveServed DEF Due, READ, WRITE
<1>3. Reading(c, conn[c])
  BY <1>2 DEF Midway, Reading, Asking, ConnOK, WaitOK
<1> DEFINE h == [conn[c] EXCEPT !.has = @ \cup {"req"}]
<1>4. conn[c] \in ConnType /\ conn[c].state = "REQUEST"
  BY <1>3 DEF Reading, Asking
<1>5. /\ h \in ConnType /\ h.has = conn[c].has \cup {"req"}
      /\ h.state = conn[c].state /\ h.fd = conn[c].fd /\ h.r = conn[c].r
      /\ h.w = conn[c].w /\ h.sent = conn[c].sent /\ h.clen = conn[c].clen
  BY <1>4 DEF ConnType
<1> HIDE DEF h
<1>6. Asking(h)
  BY <1>3, <1>4, <1>5 DEF Reading, Asking, HoldsOK, BodyOK, Serving
<1>7. Reading(c, h)
  BY <1>3, <1>6 DEF Reading
<1> QED BY <1>1, <1>3, <1>7 DEF h

\* http_read() leaves its connection settled: still waiting for a request,
\* answering one, or dead.
LEMMA HttpReadDone ==
    ASSUME IInv, Rest, CoreInv, NEW c \in Conns, HttpRead(c)
    PROVE  Done(c) /\ Rest' /\ reap = {}
<1> DEFINE h == [conn[c] EXCEPT !.has = @ \cup {"req"}]
<1>1. Reading(c, conn[c]) /\ Reading(c, h)
  BY ReaderReading
<1>2. reap = {}
  BY NbioAssumption DEF IInv, VisitInv, HttpRead, DueRead, NoVisit
<1>3. vhost \in Roots \cup {NoRoot}
  BY DEF IInv, TypeOK
<1>4. CASE Receive(c, h)
  <2> HIDE DEF h
  <2> QED BY <1>1, <1>2, <1>3, <1>4, ReceiveDone
<1>5. CASE /\ HttpKill(c, conn[c], nb[c])
           /\ UNCHANGED <<aio, ref, leaked, crashed>>
  BY <1>1, <1>2, <1>5, ReaderKilled DEF Rest
<1> QED BY <1>4, <1>5 DEF HttpRead

-----------------------------------------------------------------------------
(* Writing responses. *)

\* A send moves at least one unit and no more than it was asked to.
LEMMA SendProps ==
    ASSUME CoreInv, NEW c \in Conns, NEW m \in Int, NEW n \in Sendable(c, m)
    PROVE  n \in Nat /\ n > 0 /\ n <= m /\ SentOn(c, n) \in SockType
<1>1. sock[c] \in SockType
  BY DEF CoreInv
<1>2. TxCap \in Nat
  BY SizeAssumption
<1>3. Room(c) \in Int
  BY <1>1, <1>2 DEF Room, SockType
<1>4. n \in 1..Smaller(Room(c), m)
  BY DEF Sendable
<1>5. n \in Nat /\ n > 0 /\ n <= m
  BY <1>3, <1>4 DEF Smaller
<1> QED BY <1>1, <1>5 DEF SentOn, SockType

\* The nbio of a connection whose write callback runs: h is its struct so far.
Writing(c, h) ==
    /\ h \in ConnType /\ h.state \in {"HEADER", "DATA"}
    /\ HoldsOK(h) /\ BodyOK(h)
    /\ nb[c].item # "none" => nb[c].poll
    /\ nb[c].list = "active" /\ nb[c].mask = {WRITE} /\ aio[c] = "none"

\* A connection that http_write() runs on satisfies the invariant.
LEMMA WriterMidway ==
    ASSUME NEW c, NEW h, Writing(c, h)
    PROVE  Midway(c, h)
<1>1. WaitOK(h, nb[c], "none")
  BY DEF Writing, WaitOK, Serving, READ, WRITE
<1> QED BY <1>1 DEF Writing, Midway, ConnOK, Serving

\* http_kill() of a connection in the middle of a response frees all it holds.
LEMMA WriterKilled ==
    ASSUME CoreInv, NEW c \in Conns, NEW h, Writing(c, h), NEW g \in ConnType,
           g.state = h.state, g.has \subseteq h.has,
           HttpKill(c, g, nb[c]), UNCHANGED aio
    PROVE  Done(c)
<1>1. nb[c] \in NbioType
  BY DEF CoreInv, Nbios
<1>2. g.has \subseteq KillFrees(g) /\ aio[c] = "none"
  BY DEF Writing, ConnType, HoldsOK, KillFrees
<1> QED BY <1>1, <1>2, KillDone

\* http_conn_data_complete(), or the end of a header without a body.
LEMMA NextRequestDone ==
    ASSUME CoreInv, NEW c \in Conns, NEW h \in ConnType, NEW s \in SockType,
           h.state = "REQUEST", h.fd, h.has \subseteq {"req"},
           h.sent = h.clen, h.r = 0, h.w = 0,
           nb[c].item # "none" => nb[c].poll, aio[c] = "none",
           Carry(c, h, NbioSetWait(nb[c], {READ}), s), UNCHANGED aio
    PROVE  Done(c)
<1>1. Serving(h) /\ HoldsOK(h) /\ BodyOK(h)
  BY DEF Serving, HoldsOK, BodyOK
<1>2. {READ} \in {{READ}, {WRITE}} /\ aio' = [aio EXCEPT ![c] = "none"]
  BY SameAio
<1> QED BY <1>1, <1>2, WaitDone

\* http_conn_data_complete() gives the web root back and turns to the next
\* request.
LEMMA CompleteDone ==
    ASSUME CoreInv, Rest, NEW c \in Conns, NEW h \in ConnType,
           NEW s \in SockType, h.fd, h.has \subseteq {"req"}, h.sent = h.clen,
           nb[c].item # "none" => nb[c].poll, aio[c] = "none",
           DataComplete(c, h, s), UNCHANGED aio
    PROVE  Done(c) /\ ref' \in [Roots -> Int]
<1> DEFINE g == [h EXCEPT !.state = "REQUEST", !.root = NoRoot,
                          !.r = 0, !.w = 0]
           k == NbioSetWait(nb[c], {READ})
<1>1. /\ g \in ConnType /\ g.state = "REQUEST" /\ g.fd /\ g.has = h.has
      /\ g.sent = g.clen /\ g.r = 0 /\ g.w = 0
  BY DEF ConnType
<1>2. k \in NbioType
  <2>1. nb[c] \in NbioType /\ {READ} \in SUBSET {READ, WRITE} /\ "inactive" \in Lists
    BY DEF CoreInv, Nbios, Lists
  <2> QED BY <2>1, SetWaitProps DEF NbioSetWait
<1>3. h.root \in Roots \cup {NoRoot}
  BY DEF ConnType
<1>4. ref' \in [Roots -> Int]
  BY <1>3 DEF DataComplete, Unref, Rest
<1>5. HttpKill(c, g, k) \/ Carry(c, g, k, s)
  BY DEF DataComplete
<1>6. g.has \subseteq KillFrees(g)
  BY <1>1 DEF KillFrees
<1> HIDE DEF g
<1>7. CASE HttpKill(c, g, k)
  BY <1>1, <1>2, <1>4, <1>6, <1>7, KillDone
<1>8. CASE Carry(c, g, k, s)
  BY <1>1, <1>4, <1>8, NextRequestDone
<1> QED BY <1>5, <1>7, <1>8

\* http_write_hdr()
LEMMA WriteHdrDone ==
    ASSUME CoreInv, Rest, NEW c \in Conns, NEW h, Writing(c, h),
           h.state = "HEADER", WriteHdr(c, h)
    PROVE  Done(c) /\ UNCHANGED <<ref, leaked>>
<1>1. /\ h \in ConnType /\ HoldsOK(h) /\ BodyOK(h) /\ aio[c] = "none"
      /\ (nb[c].item # "none" => nb[c].poll)
  BY DEF Writing
<1>2. UNCHANGED <<aio, ref, leaked>>
  BY DEF WriteHdr
<1>3. CASE HttpKill(c, h, nb[c])
  BY <1>1, <1>2, <1>3, WriterKilled
<1>4. CASE Blocked(c, h, WRITE)
  BY <1>2, <1>4, WriterMidway, BlockedDone
<1>5. ASSUME NEW n \in Sendable(c, h.res),
             LET part == [h EXCEPT !.res = @ - n]
                 done == [part EXCEPT !.has = @ \ {"res"}]
             IN  \/ n < h.res /\ Carry(c, part, nb[c], SentOn(c, n))
                 \/ /\ n = h.res /\ h.dlen > 0
                    /\ Carry(c, [done EXCEPT !.state = "DATA"], nb[c],
                             SentOn(c, n))
                 \/ /\ n = h.res /\ h.dlen = 0 /\ h.close
                    /\ HttpKill(c, done, nb[c])
                 \/ /\ n = h.res /\ h.dlen = 0 /\ ~h.close
                    /\ Carry(c, [done EXCEPT !.state = "REQUEST"],
                             NbioSetWait(nb[c], {READ}), SentOn(c, n))
      PROVE  Done(c)
  <2> DEFINE part == [h EXCEPT !.res = @ - n]
             done == [part EXCEPT !.has = @ \ {"res"}]
             data == [done EXCEPT !.state = "DATA"]
             ask == [done EXCEPT !.state = "REQUEST"]
  <2>1. h.res \in Int
    BY <1>1 DEF ConnType
  <2>2. n \in Nat /\ n > 0 /\ n <= h.res /\ SentOn(c, n) \in SockType
    BY <2>1, SendProps
  <2>3. /\ part \in ConnType /\ done \in ConnType /\ data \in ConnType
        /\ ask \in ConnType
    <3>1. h.res - n \in Nat
      BY <2>1, <2>2
    <3>2. part \in ConnType
      BY <1>1, <3>1 DEF ConnType
    <3>3. done \in ConnType
      BY <3>2 DEF ConnType
    <3> HIDE DEF done
    <3> QED BY <3>2, <3>3 DEF ConnType
  <2>4. CASE n < h.res /\ Carry(c, part, nb[c], SentOn(c, n))
    <3>1. /\ part.state = h.state /\ part.res > 0 /\ part.has = h.has
          /\ part.fd = h.fd /\ part.r = h.r /\ part.w = h.w
          /\ part.sent = h.sent /\ part.clen = h.clen /\ part.dlen = h.dlen
      BY <1>1, <2>1, <2>2, <2>4 DEF ConnType
    <3> HIDE DEF part
    <3>2. HoldsOK(part) /\ BodyOK(part)
      BY <1>1, <3>1 DEF HoldsOK, BodyOK, Serving
    <3>3. Writing(c, part)
      BY <2>3, <3>1, <3>2 DEF Writing
    <3> QED BY <1>2, <2>2, <2>4, <3>3, WriterMidway, StayDone
  <2>5. CASE h.dlen > 0 /\ Carry(c, data, nb[c], SentOn(c, n))
    <3>1. /\ data.state = "DATA" /\ data.has = h.has \ {"res"}
          /\ data.fd = h.fd /\ data.r = h.r /\ data.w = h.w
          /\ data.sent = h.sent /\ data.clen = h.clen /\ data.dlen = h.dlen
      BY <1>1 DEF ConnType
    <3> HIDE DEF data
    <3>2. HoldsOK(data)
      BY <1>1, <2>5, <3>1 DEF HoldsOK, Serving
    <3>3. BodyOK(data)
      BY <1>1, <3>1 DEF BodyOK
    <3>4. Writing(c, data)
      BY <2>3, <3>1, <3>2, <3>3 DEF Writing
    <3> QED BY <1>2, <2>2, <2>5, <3>4, WriterMidway, StayDone
  <2>6. CASE HttpKill(c, done, nb[c])
    <3>1. done.state = h.state /\ done.has \subseteq h.has
      BY <1>1 DEF ConnType
    <3> HIDE DEF done
    <3> QED BY <1>2, <2>3, <2>6, <3>1, WriterKilled
  <2>7. CASE /\ h.dlen = 0
             /\ Carry(c, ask, NbioSetWait(nb[c], {READ}), SentOn(c, n))
    <3>1. /\ ask.state = "REQUEST" /\ ask.has = h.has \ {"res"}
          /\ ask.fd = h.fd /\ ask.r = h.r /\ ask.w = h.w
          /\ ask.sent = h.sent /\ ask.clen = h.clen
      BY <1>1 DEF ConnType
    <3> HIDE DEF ask
    <3>2. h.fd /\ h.sent = h.clen /\ h.r = 0 /\ h.w = 0 /\ "data" \notin h.has
      BY <1>1, <2>7 DEF HoldsOK, BodyOK, Serving, ConnType
    <3>3. ask.has \subseteq {"req"}
      BY <1>1, <3>1, <3>2 DEF ConnType
    <3> QED BY <1>1, <1>2, <2>2, <2>3, <2>7, <3>1, <3>2, <3>3, NextRequestDone
  <2> HIDE DEF part, done, data, ask
  <2> QED BY <1>5, <2>4, <2>5, <2>6, <2>7 DEF part, done, data, ask
<1> QED BY <1>2, <1>3, <1>4, <1>5 DEF WriteHdr

\* A connection in the middle of its body, whatever of it has gone.
LEMMA BodyStep ==
    ASSUME NEW c, NEW h, Writing(c, h), h.state = "DATA", NEW g \in ConnType,
           g.state = h.state, g.has = h.has, g.fd = h.fd, BodyOK(g)
    PROVE  Writing(c, g)
<1>1. HoldsOK(g)
  BY DEF Writing, HoldsOK, Serving
<1> QED BY <1>1 DEF Writing

\* io_sendfile_write()
LEMMA SendfileDone ==
    ASSUME CoreInv, Rest, NEW c \in Conns, NEW h, Writing(c, h),
           h.state = "DATA", Fio = "sendfile", SendfileWrite(c, h)
    PROVE  Done(c) /\ ref' \in [Roots -> Int] /\ UNCHANGED leaked
<1>1. /\ h \in ConnType /\ HoldsOK(h) /\ BodyOK(h) /\ aio[c] = "none"
      /\ (nb[c].item # "none" => nb[c].poll) /\ h.dlen \in Nat
  BY DEF Writing, ConnType
<1>2. UNCHANGED <<aio, leaked>>
  BY DEF SendfileWrite
<1>3. CASE HttpKill(c, h, nb[c]) /\ UNCHANGED ref
  BY <1>1, <1>2, <1>3, WriterKilled DEF Rest
<1>4. CASE Blocked(c, h, WRITE) /\ UNCHANGED ref
  BY <1>2, <1>4, WriterMidway, BlockedDone DEF Rest
<1>5. ASSUME NEW n \in Sendable(c, SendfileChunk(h)),
             LET g == [h EXCEPT !.dlen = @ - n, !.sent = @ + n]
             IN  IF g.dlen = 0
                 THEN DataComplete(c, g, SentOn(c, n))
                 ELSE Carry(c, g, nb[c], SentOn(c, n)) /\ UNCHANGED ref
      PROVE  Done(c) /\ ref' \in [Roots -> Int]
  <2> DEFINE g == [h EXCEPT !.dlen = @ - n, !.sent = @ + n]
  <2>1. Chunk \in Nat
    BY SizeAssumption
  <2>2. SendfileChunk(h) \in Int /\ SendfileChunk(h) <= h.dlen
    BY <1>1, <2>1 DEF SendfileChunk, Smaller
  <2>3. /\ n \in Nat /\ n <= SendfileChunk(h)
        /\ SentOn(c, n) \in SockType
    BY <2>2, SendProps
  <2>4. h.dlen - n \in Nat /\ h.sent + n \in Nat
    <3>1. h.sent \in Nat
      BY <1>1 DEF ConnType
    <3> QED BY <1>1, <2>2, <2>3, <3>1
  <2>5. /\ g \in ConnType /\ g.state = h.state /\ g.fd = h.fd /\ g.has = h.has
        /\ g.dlen = h.dlen - n /\ g.sent = h.sent + n /\ g.clen = h.clen
        /\ g.r = h.r /\ g.w = h.w
    BY <1>1, <2>4 DEF ConnType
  <2>6. h.sent \in Nat /\ h.clen \in Nat /\ h.r \in Nat /\ h.w \in Nat
    BY <1>1 DEF ConnType
  <2> HIDE DEF g
  <2>7. CASE g.dlen = 0 /\ DataComplete(c, g, SentOn(c, n))
    <3>1. g.fd /\ g.has \subseteq {"req"}
      BY <1>1, <2>5 DEF HoldsOK, Serving, ConnType
    <3>2. h.sent + h.dlen = h.clen
      BY <1>1 DEF BodyOK
    <3>3. g.sent = g.clen
      BY <1>1, <2>3, <2>5, <2>6, <2>7, <3>2
    <3> QED BY <1>1, <1>2, <2>3, <2>5, <2>7, <3>1, <3>3, CompleteDone
  <2>8. CASE /\ g.dlen # 0 /\ Carry(c, g, nb[c], SentOn(c, n))
             /\ UNCHANGED ref
    <3>1. BodyOK(g)
      <4>1. h.sent + h.dlen = h.clen /\ h.w = 0 /\ h.r = 0
        BY <1>1, <2>6 DEF BodyOK
      <4>2. g.sent + g.dlen = g.clen /\ g.w = 0 /\ g.r = 0 /\ g.dlen \in Nat
        BY <1>1, <2>3, <2>4, <2>5, <2>6, <4>1
      <4> QED BY <2>5, <4>2 DEF BodyOK
    <3>2. Writing(c, g)
      BY <2>5, <3>1, BodyStep
    <3> QED BY <1>2, <2>3, <2>8, <3>2, WriterMidway, StayDone DEF Rest
  <2> QED BY <1>5, <2>7, <2>8 DEF g
<1> QED BY <1>2, <1>3, <1>4, <1>5 DEF SendfileWrite

\* buf_reset()
LEMMA BufResetProps ==
    ASSUME NEW h \in ConnType, h.r <= h.w
    PROVE  LET g == BufReset(h)
           IN  /\ g \in ConnType /\ g.state = h.state /\ g.fd = h.fd
               /\ g.has = h.has /\ g.r = 0 /\ g.w = h.w - h.r
               /\ g.sent = h.sent /\ g.clen = h.clen /\ g.dlen = h.dlen
<1>1. h.w - h.r \in Nat
  BY DEF ConnType
<1> QED BY <1>1 DEF BufReset, ConnType

\* The send of io_sync_write()
LEMMA SyncSendDone ==
    ASSUME CoreInv, Rest, NEW c \in Conns, NEW h, Writing(c, h),
           h.state = "DATA", Fio = "sync", SyncSend(c, h), UNCHANGED aio
    PROVE  Done(c) /\ ref' \in [Roots -> Int]
<1>1. /\ h \in ConnType /\ HoldsOK(h) /\ BodyOK(h) /\ aio[c] = "none"
      /\ (nb[c].item # "none" => nb[c].poll)
  BY DEF Writing
<1>2. /\ h.r \in Nat /\ h.w \in Nat /\ h.dlen \in Nat /\ h.sent \in Nat
      /\ h.clen \in Nat
  BY <1>1 DEF ConnType
<1>3. CASE HttpKill(c, h, nb[c]) /\ UNCHANGED ref
  BY <1>1, <1>3, WriterKilled DEF Rest
<1>4. CASE Blocked(c, h, WRITE) /\ UNCHANGED ref
  BY <1>4, WriterMidway, BlockedDone DEF Rest
<1>5. ASSUME NEW n \in Sendable(c, h.w - h.r),
             LET g == [h EXCEPT !.r = @ + n, !.sent = @ + n]
             IN  IF g.w = g.r /\ g.dlen = 0
                 THEN DataComplete(c, [g EXCEPT !.has = @ \ {"data"}],
                                   SentOn(c, n))
                 ELSE /\ Carry(c, IF g.dlen > DataCap - g.w THEN BufReset(g)
                                                           ELSE g,
                               nb[c], SentOn(c, n))
                      /\ UNCHANGED ref
      PROVE  Done(c) /\ ref' \in [Roots -> Int]
  <2> DEFINE g == [h EXCEPT !.r = @ + n, !.sent = @ + n]
             f == [g EXCEPT !.has = @ \ {"data"}]
  <2>1. n \in Nat /\ n <= h.w - h.r /\ SentOn(c, n) \in SockType
    <3>1. h.w - h.r \in Int
      BY <1>2
    <3> QED BY <3>1, SendProps
  <2>2. /\ g \in ConnType /\ g.state = h.state /\ g.fd = h.fd /\ g.has = h.has
        /\ g.dlen = h.dlen /\ g.sent = h.sent + n /\ g.clen = h.clen
        /\ g.r = h.r + n /\ g.w = h.w
    <3>1. h.r + n \in Nat /\ h.sent + n \in Nat
      BY <1>2, <2>1
    <3> QED BY <1>1, <3>1 DEF ConnType
  <2>3. /\ f \in ConnType /\ f.fd = g.fd /\ f.has = g.has \ {"data"}
        /\ f.sent = g.sent /\ f.clen = g.clen
    <3> HIDE DEF g
    <3> QED BY <2>2 DEF ConnType
  <2> HIDE DEF f, g
  <2>4. g.r <= g.w /\ g.sent + (g.w - g.r) + g.dlen = g.clen
    BY <1>1, <1>2, <2>1, <2>2 DEF BodyOK
  <2>5. CASE g.w = g.r /\ g.dlen = 0 /\ DataComplete(c, f, SentOn(c, n))
    <3>1. f.fd /\ f.has \subseteq {"req"}
      BY <1>1, <2>2, <2>3 DEF HoldsOK, Serving, ConnType
    <3>2. f.sent = f.clen
      BY <1>2, <2>1, <2>2, <2>3, <2>4, <2>5
    <3> QED BY <1>1, <2>1, <2>3, <2>5, <3>1, <3>2, CompleteDone
  <2>6. ASSUME NEW e \in ConnType, e.state = g.state, e.fd = g.fd,
               e.has = g.has, e.r <= e.w, e.w - e.r = g.w - g.r,
               e.sent = g.sent, e.clen = g.clen, e.dlen = g.dlen,
               Carry(c, e, nb[c], SentOn(c, n)), UNCHANGED ref
        PROVE  Done(c) /\ ref' \in [Roots -> Int]
    <3>1. BodyOK(e)
      BY <2>2, <2>4, <2>6 DEF BodyOK
    <3>2. Writing(c, e)
      BY <2>2, <2>6, <3>1, BodyStep
    <3> QED BY <2>1, <2>6, <3>2, WriterMidway, StayDone DEF Rest
  <2>7. CASE Carry(c, g, nb[c], SentOn(c, n)) /\ UNCHANGED ref
    BY <2>2, <2>4, <2>6, <2>7
  <2>8. CASE Carry(c, BufReset(g), nb[c], SentOn(c, n)) /\ UNCHANGED ref
    <3>1. g.r \in Nat /\ g.w \in Nat
      BY <2>2 DEF ConnType
    <3>2. /\ BufReset(g) \in ConnType /\ BufReset(g).state = g.state
          /\ BufReset(g).fd = g.fd /\ BufReset(g).has = g.has
          /\ BufReset(g).r = 0 /\ BufReset(g).w = g.w - g.r
          /\ BufReset(g).sent = g.sent /\ BufReset(g).clen = g.clen
          /\ BufReset(g).dlen = g.dlen
      BY <2>2, <2>4, BufResetProps
    <3>3. BufReset(g).r <= BufReset(g).w
      BY <2>4, <3>1, <3>2
    <3>4. BufReset(g).w - BufReset(g).r = g.w - g.r
      BY <3>1, <3>2
    <3> QED BY <2>6, <2>8, <3>2, <3>3, <3>4
  <2> QED BY <1>5, <2>5, <2>7, <2>8 DEF f, g
<1> QED BY <1>3, <1>4, <1>5 DEF SyncSend

\* The read of io_sync_write() moves what it reads from the file to the buffer.
LEMMA ToppedUp ==
    ASSUME NEW c \in Conns, NEW h, Writing(c, h), h.state = "DATA",
           Fio = "sync", NEW n, n = Smaller(DataCap - h.w, h.dlen), n > 0
    PROVE  Writing(c, [h EXCEPT !.w = @ + n, !.dlen = @ - n])
<1> DEFINE g == [h EXCEPT !.w = @ + n, !.dlen = @ - n]
<1>1. /\ h \in ConnType /\ h.r \in Nat /\ h.w \in Nat /\ h.dlen \in Nat
      /\ h.sent \in Nat /\ h.clen \in Nat
  BY DEF Writing, ConnType
<1>2. DataCap \in Nat
  BY SizeAssumption
<1>3. n \in Nat /\ n <= h.dlen
  BY <1>1, <1>2 DEF Smaller
<1>4. h.w + n \in Nat /\ h.dlen - n \in Nat
  BY <1>1, <1>3
<1>5. /\ g \in ConnType /\ g.state = h.state /\ g.fd = h.fd /\ g.has = h.has
      /\ g.dlen = h.dlen - n /\ g.sent = h.sent /\ g.clen = h.clen
      /\ g.r = h.r /\ g.w = h.w + n
  BY <1>1, <1>4 DEF ConnType
<1> HIDE DEF g
<1>6. h.r <= h.w /\ h.sent + (h.w - h.r) + h.dlen = h.clen
  BY DEF Writing, BodyOK
<1>7. g.r <= g.w /\ g.sent + (g.w - g.r) + g.dlen = g.clen
  BY <1>1, <1>3, <1>5, <1>6
<1>8. BodyOK(g)
  BY <1>5, <1>7 DEF BodyOK
<1>9. Writing(c, g)
  BY <1>5, <1>8, BodyStep
<1> QED BY <1>9 DEF g

\* io_sync_write()
LEMMA SyncDone ==
    ASSUME CoreInv, Rest, NEW c \in Conns, NEW h, Writing(c, h),
           h.state = "DATA", Fio = "sync", SyncWrite(c, h)
    PROVE  Done(c) /\ ref' \in [Roots -> Int] /\ UNCHANGED leaked
<1> DEFINE n == Smaller(DataCap - h.w, h.dlen)
           g == [h EXCEPT !.w = @ + n, !.dlen = @ - n]
<1>1. UNCHANGED <<aio, leaked>>
  BY DEF SyncWrite
<1>2. CASE SyncSend(c, h)
  BY <1>1, <1>2, SyncSendDone
<1>3. CASE HttpKill(c, h, nb[c]) /\ UNCHANGED ref
  BY <1>1, <1>3, WriterKilled DEF Rest, Writing
<1>4. CASE n > 0 /\ SyncSend(c, g)
  <2>1. Writing(c, g)
    BY <1>4, ToppedUp
  <2>2. g.state = "DATA"
    BY DEF Writing, ConnType
  <2> HIDE DEF g
  <2> QED BY <1>1, <1>4, <2>1, <2>2, SyncSendDone
<1> QED BY <1>1, <1>2, <1>3, <1>4 DEF SyncWrite

\* io_async_write()
LEMMA AsyncDone ==
    ASSUME CoreInv, Rest, NEW c \in Conns, NEW h, Writing(c, h),
           h.state = "DATA", Fio = "async", AsyncWrite(c, h)
    PROVE  /\ Done(c) /\ ref' \in [Roots -> Int]
           /\ leaked' \in [fd : Nat, iocb : Nat, buf : Nat]
<1>1. /\ h \in ConnType /\ HoldsOK(h) /\ BodyOK(h) /\ aio[c] = "none"
      /\ (nb[c].item # "none" => nb[c].poll)
  BY DEF Writing
<1>2. /\ h.r \in Nat /\ h.w \in Nat /\ h.dlen \in Nat /\ h.sent \in Nat
      /\ h.clen \in Nat
  BY <1>1 DEF ConnType
<1>3. CASE HttpKill(c, h, nb[c]) /\ UNCHANGED <<aio, ref, leaked>>
  BY <1>1, <1>3, WriterKilled DEF Rest
<1>4. CASE Blocked(c, h, WRITE) /\ UNCHANGED <<aio, ref, leaked>>
  BY <1>4, WriterMidway, BlockedDone DEF Rest
<1>5. ASSUME NEW n \in Sendable(c, h.w - h.r),
             LET g == [h EXCEPT !.r = @ + n, !.sent = @ + n, !.dlen = @ - n]
             IN  \/ /\ g.r < g.w
                    /\ Carry(c, g, nb[c], SentOn(c, n))
                    /\ UNCHANGED <<aio, ref, leaked>>
                 \/ /\ g.r = g.w /\ g.dlen > 0
                    /\ Submitted(c, BufReset(g), SentOn(c, n))
                    /\ UNCHANGED <<ref, leaked>>
                 \/ /\ g.r = g.w /\ g.dlen > 0 /\ "submit" \in Fails
                    /\ \E lost \in {0, 1} :
                          leaked' = [leaked EXCEPT !.iocb = @ + lost]
                    /\ HttpKill(c, g, nb[c]) /\ UNCHANGED <<aio, ref>>
                 \/ /\ g.r = g.w /\ g.dlen = 0
                    /\ DataComplete(c, [g EXCEPT !.has = @ \ {"data"}],
                                    SentOn(c, n))
                    /\ UNCHANGED <<aio, leaked>>
      PROVE  /\ Done(c) /\ ref' \in [Roots -> Int]
             /\ leaked' \in [fd : Nat, iocb : Nat, buf : Nat]
  <2> DEFINE g == [h EXCEPT !.r = @ + n, !.sent = @ + n, !.dlen = @ - n]
             f == [g EXCEPT !.has = @ \ {"data"}]
  <2>1. n \in Nat /\ n <= h.w - h.r /\ SentOn(c, n) \in SockType
    <3>1. h.w - h.r \in Int
      BY <1>2
    <3> QED BY <3>1, SendProps
  <2>2. /\ h.r <= h.w /\ h.sent + h.dlen = h.clen /\ h.w - h.r <= h.dlen
        /\ h.fd /\ "data" \in h.has /\ "res" \notin h.has
    BY <1>1 DEF BodyOK, HoldsOK, Serving
  <2>3. /\ g \in ConnType /\ g.state = h.state /\ g.fd = h.fd /\ g.has = h.has
        /\ g.dlen = h.dlen - n /\ g.sent = h.sent + n /\ g.clen = h.clen
        /\ g.r = h.r + n /\ g.w = h.w
    <3>1. h.r + n \in Nat /\ h.sent + n \in Nat /\ h.dlen - n \in Nat
      BY <1>2, <2>1, <2>2
    <3> QED BY <1>1, <3>1 DEF ConnType
  <2>4. /\ f \in ConnType /\ f.fd = g.fd /\ f.has = g.has \ {"data"}
        /\ f.sent = g.sent /\ f.clen = g.clen
    <3> HIDE DEF g
    <3> QED BY <2>3 DEF ConnType
  <2> HIDE DEF f, g
  <2>5. /\ g.r <= g.w /\ g.sent + g.dlen = g.clen /\ g.w - g.r <= g.dlen
        /\ g.r \in Nat /\ g.w \in Nat /\ g.sent \in Nat /\ g.clen \in Nat
        /\ g.dlen \in Nat
    BY <1>2, <2>1, <2>2, <2>3
  <2>6. BodyOK(g)
    BY <2>3, <2>5 DEF BodyOK
  <2>7. CASE /\ Carry(c, g, nb[c], SentOn(c, n))
             /\ UNCHANGED <<aio, ref, leaked>>
    <3>1. Writing(c, g)
      BY <2>3, <2>6, BodyStep
    <3> QED BY <2>1, <2>7, <3>1, WriterMidway, StayDone DEF Rest
  <2>8. CASE /\ g.r = g.w /\ Submitted(c, BufReset(g), SentOn(c, n))
             /\ UNCHANGED <<ref, leaked>>
    <3> DEFINE e == BufReset(g)
    <3>1. /\ e \in ConnType /\ e.state = g.state /\ e.fd = g.fd
          /\ e.has = g.has /\ e.r = 0 /\ e.w = 0
          /\ e.sent = g.sent /\ e.clen = g.clen /\ e.dlen = g.dlen
      BY <2>3, <2>5, <2>8, BufResetProps
    <3> HIDE DEF e
    <3>2. BodyOK(e)
      BY <2>3, <2>5, <3>1 DEF BodyOK
    <3>3. Writing(c, e)
      BY <2>3, <3>1, <3>2, BodyStep
    <3> QED BY <1>1, <2>1, <2>2, <2>3, <2>8, <3>1, <3>3, SubmittedDone
            DEF Writing, Rest, e
  <2>9. CASE /\ \E lost \in {0, 1} : leaked' = [leaked EXCEPT !.iocb = @ + lost]
             /\ HttpKill(c, g, nb[c]) /\ UNCHANGED <<aio, ref>>
    <3>1. leaked' \in [fd : Nat, iocb : Nat, buf : Nat]
      BY <2>9 DEF Rest
    <3> QED BY <2>3, <2>9, <3>1, WriterKilled DEF Rest
  <2>10. CASE /\ g.r = g.w /\ g.dlen = 0 /\ DataComplete(c, f, SentOn(c, n))
              /\ UNCHANGED <<aio, leaked>>
    <3>1. f.fd /\ f.has \subseteq {"req"}
      BY <2>2, <2>3, <2>4 DEF ConnType
    <3>2. f.sent = f.clen
      BY <2>4, <2>5, <2>10
    <3> QED BY <1>1, <2>1, <2>4, <2>10, <3>1, <3>2, CompleteDone DEF Rest
  <2> QED BY <1>5, <2>7, <2>8, <2>9, <2>10 DEF f, g
<1> QED BY <1>3, <1>4, <1>5 DEF AsyncWrite

\* http_write() leaves its connection settled, under each file I/O model.
LEMMA HttpWriteDone ==
    ASSUME IInv, Rest, CoreInv, NEW c \in Conns, HttpWrite(c)
    PROVE  Done(c) /\ Rest' /\ reap = {}
<1>1. Active(c) /\ WRITE \in Due(nb[c])
  BY DEF HttpWrite, DueWrite
<1>2. Midway(c, conn[c]) /\ nb[c].mask = {WRITE}
  BY <1>1, ActiveServed DEF Due, READ, WRITE
<1>3. Writing(c, conn[c])
  BY <1>2 DEF Midway, Writing, ConnOK, WaitOK, Serving, READ, WRITE
<1>4. reap = {}
  BY DEF IInv, VisitInv, HttpWrite, DueWrite, Idle, NoVisit
<1>5. UNCHANGED crashed
  BY DEF HttpWrite
<1>6. CASE conn[c].state = "HEADER" /\ WriteHdr(c, conn[c])
  BY <1>3, <1>4, <1>5, <1>6, WriteHdrDone DEF Rest
<1>7. CASE /\ conn[c].state = "DATA" /\ Fio = "sendfile"
           /\ SendfileWrite(c, conn[c])
  BY <1>3, <1>4, <1>5, <1>7, SendfileDone DEF Rest
<1>8. CASE conn[c].state = "DATA" /\ Fio = "sync" /\ SyncWrite(c, conn[c])
  BY <1>3, <1>4, <1>5, <1>8, SyncDone DEF Rest
<1>9. CASE conn[c].state = "DATA" /\ Fio = "async" /\ AsyncWrite(c, conn[c])
  BY <1>3, <1>4, <1>5, <1>9, AsyncDone DEF Rest
<1> QED BY <1>6, <1>7, <1>8, <1>9 DEF HttpWrite

-----------------------------------------------------------------------------
(* Steps that are not a connection's own callbacks. *)

\* The nbio keeps its place and what it waits for; the kernel may queue it.
Similar(n, k) ==
    /\ k.list = n.list /\ k.mask = n.mask /\ k.flags = n.flags
    /\ k.poll = n.poll /\ (n.item = "none" => k.item = "none")

\* A wake-up of the kernel changes no more than whether an event is queued.
LEMMA WakeupProps ==
    ASSUME NEW n \in NbioType, NEW E
    PROVE  /\ EpollWakeup(n, E) \in NbioType /\ Similar(n, EpollWakeup(n, E))
           /\ EpollHangup(n) \in NbioType /\ Similar(n, EpollHangup(n))
BY DEF EpollWakeup, EpollHangup, NbioType, Items, Similar

\* A step that leaves the connections alone keeps CoreInv, and what VisitInv
\* says of a visit that it does not touch either.
LEMMA KeepStep ==
    ASSUME CoreInv, UNCHANGED <<conn, concurrency>>,
           nb' \in [Nbios -> NbioType], sock' \in [Conns -> SockType],
           aio' \in [Conns -> AioStates],
           \A c \in Conns : /\ Similar(nb[c], nb'[c])
                            /\ aio'[c] = "none" <=> aio[c] = "none",
           \A n \in Nbios \ Conns : nb'[n].mask \subseteq {READ, WRITE}
    PROVE  CoreInv' /\ (VisitInv /\ visit' = visit /\ reap' = reap
                        /\ (\A c \in reap : aio'[c] = aio[c]) => VisitInv')
<1>1. ASSUME NEW c \in Conns
      PROVE  ConnOK(conn'[c], nb'[c], aio'[c])
  <2>1. /\ ConnOK(conn[c], nb[c], aio[c]) /\ conn'[c] = conn[c]
        /\ Similar(nb[c], nb'[c]) /\ (aio'[c] = "none" <=> aio[c] = "none")
    BY DEF CoreInv, ConnInv
  <2>2. WaitOK(conn[c], nb'[c], aio'[c])
    BY <2>1 DEF ConnOK, WaitOK, Similar, Serving
  <2> QED BY <2>1, <2>2 DEF ConnOK
<1>2. ConnInv'
  BY <1>1 DEF ConnInv, ConnOK, HoldsOK, BodyOK, WaitOK, Serving
<1>3. CoreInv'
  BY <1>2 DEF CoreInv, ListenInv
<1>4. ASSUME VisitInv, visit' = visit, reap' = reap,
             \A c \in reap : aio'[c] = aio[c]
      PROVE  VisitInv'
  BY <1>4 DEF VisitInv, Similar, Serving, Active, Due
<1> QED BY <1>3, <1>4

\* IInv has the parts that the lemmas on single steps assume,
LEMMA Parts ==
    ASSUME IInv
    PROVE  CoreInv /\ Rest /\ vhost \in Roots \cup {NoRoot}
BY DEF IInv, TypeOK, CoreInv, Rest, AioStates

\* The state outside CoreInv and Rest.
Others ==
    /\ backlog \in [Listeners -> Nat] /\ connects \in Nat
    /\ visit \in {NoVisit} \cup (Nbios \X {"read", "error", "reap", "complete"})
    /\ efd \in BOOLEAN /\ reap \in SUBSET Conns
    /\ vhost \in Roots \cup {NoRoot} /\ fresh \in SUBSET Roots

\* and is made up of those the lemmas conclude.
LEMMA Whole ==
    /\ IInv => Others
    /\ CoreInv' /\ Rest' /\ Others' /\ VisitInv' => IInv'
BY DEF IInv, TypeOK, CoreInv, Rest, Others, AioStates

\* A callback of a connection, and what it leaves of its visit.
LEMMA CallbackKeeps ==
    ASSUME IInv, NEW c \in Conns, HttpRead(c) \/ HttpWrite(c)
    PROVE  IInv'
<1>1. CoreInv /\ Rest /\ Others
  BY Parts, Whole
<1>2. Done(c) /\ Rest' /\ reap = {}
  BY <1>1, HttpReadDone, HttpWriteDone
<1>3. /\ visit' \in {NoVisit, <<c, "read">>, <<c, "error">>}
      /\ (visit' = <<c, "read">> => READ \in Due(nb'[c]))
      /\ (visit' = <<c, "error">> => ERROR \in nb'[c].flags)
      /\ UNCHANGED <<netVars, efd, reap, vhost, fresh>>
  <2>1. NoVisit # <<c, "read">> /\ NoVisit # <<c, "error">>
    BY DEF NoVisit
  <2>2. visit' = AfterRead(c, nb'[c]) \/ visit' = AfterWrite(c, nb'[c])
    BY DEF HttpRead, HttpWrite
  <2>3. UNCHANGED <<netVars, efd, reap, vhost, fresh>>
    BY DEF HttpRead, HttpWrite
  <2> QED BY <2>1, <2>2, <2>3 DEF AfterRead, AfterWrite
<1>4. Others'
  BY <1>1, <1>3 DEF Others, netVars, Nbios
<1>5. VisitInv'
  <2>1. ASSUME NEW d \in Conns, visit' = <<d, "read">> \/ visit' = <<d, "error">>
        PROVE  d = c
    BY <1>3, <2>1 DEF NoVisit
  <2> QED BY <1>2, <1>3, <2>1 DEF VisitInv, Done, Settled, Active, Serving, Due
<1> QED BY <1>2, <1>4, <1>5, Whole DEF Done

\* The error sweep of nbio_pump() puts a connection on the deleted list.
LEMMA SweepKeeps ==
    ASSUME IInv, NEW c \in Conns, Sweep(c)
    PROVE  IInv'
<1>1. CoreInv /\ Rest /\ Others
  BY Parts, Whole
<1>2. /\ conn[c] \in ConnType /\ nb[c] \in NbioType /\ sock[c] \in SockType
      /\ aio[c] \in AioStates /\ ConnOK(conn[c], nb[c], aio[c])
      /\ nb[c].list \in {"active", "inactive"} /\ ERROR \in nb[c].flags
      /\ reap = {}
  <2>1. /\ conn[c] \in ConnType /\ nb[c] \in NbioType /\ sock[c] \in SockType
        /\ aio[c] \in AioStates /\ ConnOK(conn[c], nb[c], aio[c])
    BY <1>1 DEF CoreInv, ConnInv, Nbios
  <2>2. nb[c].list \in {"active", "inactive"} /\ ERROR \in nb[c].flags
    BY DEF Sweep, DueSweep, Active, IInv, VisitInv
  <2>3. visit # <<Efd, "complete">>
    BY DEF Sweep, DueSweep, NoVisit
  <2> QED BY <2>1, <2>2, <2>3 DEF IInv, VisitInv
<1> DEFINE k == NbioSweep(nb[c])
<1>3. k \in NbioType /\ k.list = "deleted"
  BY <1>2 DEF NbioSweep, NbioType, Lists
<1> HIDE DEF k
<1>4. Serving(conn[c]) /\ aio[c] = "none"
  BY <1>2 DEF ConnOK, WaitOK, Serving, ConnType
<1>5. ConnOK(conn[c], k, aio[c])
  BY <1>2, <1>3, <1>4 DEF ConnOK, WaitOK, Serving
<1>6. Carry(c, conn[c], k, sock[c]) /\ aio' = [aio EXCEPT ![c] = aio[c]]
  BY <1>1 DEF Sweep, Carry, CoreInv, aioVars, k
<1>7. CoreInv'
  BY <1>1, <1>2, <1>3, <1>5, <1>6, CarryStep
<1>8. visit' = NoVisit /\ Others' /\ Rest' /\ reap' = {}
  BY <1>1, <1>2 DEF Sweep, Others, Rest, netVars, rootVars, aioVars
<1>9. VisitInv'
  BY <1>8 DEF VisitInv, NoVisit
<1> QED BY <1>7, <1>8, <1>9, Whole

\* http_dtor() loses the descriptor of a struct that has one, and each of its
\* three buffers that it holds.
LEMMA LeakProps ==
    ASSUME NEW h \in ConnType, leaked \in [fd : Nat, iocb : Nat, buf : Nat]
    PROVE  /\ LeakedBy(h) \in [fd : Nat, iocb : Nat, buf : Nat]
           /\ LeakedBy(h).fd = leaked.fd + (IF h.fd THEN 1 ELSE 0)
           /\ \E n \in 0..3 :
                 /\ LeakedBy(h).buf = leaked.buf + n
                 /\ h.has = {} => n = 0
<1>1. h.has \in SUBSET {"req", "res", "data"} /\ h.fd \in BOOLEAN
  BY DEF ConnType
<1>2. Cardinality(h.has) \in 0..3 /\ (h.has = {} => Cardinality(h.has) = 0)
  <2>1. IsFiniteSet({"req", "res", "data"}) /\ Cardinality({"req", "res", "data"}) <= 3
    <3>1. IsFiniteSet({"data"}) /\ Cardinality({"data"}) = 1
      BY FS_Singleton
    <3>2. IsFiniteSet({"data"} \cup {"res"}) /\ Cardinality({"data"} \cup {"res"}) = 2
      <4>1. "res" \notin {"data"}
        OBVIOUS
      <4> QED BY <3>1, <4>1, FS_AddElement
    <3>3. /\ IsFiniteSet(({"data"} \cup {"res"}) \cup {"req"})
          /\ Cardinality(({"data"} \cup {"res"}) \cup {"req"}) = 3
      <4>1. "req" \notin {"data"} \cup {"res"}
        OBVIOUS
      <4> DEFINE two == {"data"} \cup {"res"}
      <4>2. IsFiniteSet(two) /\ Cardinality(two) = 2 /\ "req" \notin two
        BY <3>2, <4>1
      <4> HIDE DEF two
      <4>3. IsFiniteSet(two \cup {"req"}) /\ Cardinality(two \cup {"req"}) = 3
        BY <4>2, FS_AddElement
      <4> QED BY <4>3 DEF two
    <3>4. {"req", "res", "data"} = ({"data"} \cup {"res"}) \cup {"req"}
      OBVIOUS
    <3> QED BY <3>3, <3>4
  <2>2. Cardinality(h.has) <= Cardinality({"req", "res", "data"})
        /\ IsFiniteSet(h.has)
    BY <1>1, <2>1, FS_Subset
  <2> QED BY <2>1, <2>2, FS_CardinalityType, FS_EmptySet
<1>3. PICK n \in 0..3 : n = Cardinality(h.has)
  BY <1>2
<1>4. LeakedBy(h) = [leaked EXCEPT !.fd = @ + (IF h.fd THEN 1 ELSE 0), !.buf = @ + n]
  BY <1>3 DEF LeakedBy
<1>5. /\ LeakedBy(h) \in [fd : Nat, iocb : Nat, buf : Nat]
      /\ LeakedBy(h).fd = leaked.fd + (IF h.fd THEN 1 ELSE 0)
      /\ LeakedBy(h).buf = leaked.buf + n
  <2>1. PICK b \in {0, 1} : b = IF h.fd THEN 1 ELSE 0
    BY <1>1
  <2>2. LeakedBy(h) = [leaked EXCEPT !.fd = @ + b, !.buf = @ + n]
    BY <1>4, <2>1
  <2>3. leaked.fd + b \in Nat /\ leaked.buf + n \in Nat
    OBVIOUS
  <2>4. LeakedBy(h) = [fd |-> leaked.fd + b, iocb |-> leaked.iocb, buf |-> leaked.buf + n]
    BY <2>2
  <2> QED BY <2>1, <2>3, <2>4
<1> QED BY <1>2, <1>3, <1>5

\* http_dtor()
LEMMA DtorKeeps ==
    ASSUME IInv, NEW c \in Conns, HttpDtor(c)
    PROVE  IInv'
<1>1. CoreInv /\ Rest /\ Others
  BY Parts, Whole
<1>2. visit = NoVisit /\ reap = {}
  BY DEF IInv, VisitInv, HttpDtor, LoopDrained, Idle, NoVisit
<1>3. aio[c] = "none"
  <2>1. ConnOK(conn[c], nb[c], aio[c]) /\ nb[c].list = "deleted"
    BY <1>1 DEF CoreInv, ConnInv, HttpDtor
  <2> QED BY <2>1 DEF ConnOK, WaitOK
<1>4. NoConn \in ConnType /\ NoNbio \in NbioType /\ NoSock \in SockType
  BY EmptySeq DEF NoConn, ConnType, NoNbio, NbioType, NoSock, SockType, Lists,
                  Items
<1>5. ConnOK(NoConn, NoNbio, "none")
  BY DEF ConnOK, HoldsOK, BodyOK, WaitOK, Serving, NoConn, NoNbio
<1>6. Carry(c, NoConn, NoNbio, NoSock) /\ aio' = [aio EXCEPT ![c] = "none"]
  BY <1>1, <1>3 DEF HttpDtor, Carry, CoreInv, aioVars
<1>7. CoreInv'
  BY <1>1, <1>4, <1>5, <1>6, CarryStep DEF AioStates
<1>8. visit' = NoVisit /\ Others' /\ reap' = {}
  BY <1>1, <1>2 DEF HttpDtor, Others, netVars, aioVars
<1>9. Rest'
  <2>1. conn[c].root \in Roots \cup {NoRoot}
    BY <1>1 DEF CoreInv, ConnType
  <2>2. ref' \in [Roots -> Int]
    BY <1>1, <2>1 DEF HttpDtor, Unref, Rest
  <2>3. leaked' \in [fd : Nat, iocb : Nat, buf : Nat] /\ crashed' \in BOOLEAN
    <3>1. LeakedBy(conn[c]) \in [fd : Nat, iocb : Nat, buf : Nat]
      BY <1>1, LeakProps DEF CoreInv, Rest
    <3> QED BY <1>1, <3>1 DEF HttpDtor, Rest
  <2> QED BY <2>2, <2>3 DEF Rest
<1>10. VisitInv'
  BY <1>8 DEF VisitInv, NoVisit
<1> QED BY <1>7, <1>8, <1>9, <1>10, Whole

\* An nbio of a listener or of the eventfd, and what they do with it.
OwnNbio(n) == n \in NbioType /\ n.mask \subseteq {READ, WRITE}

\* What listener_read() and efd_read() do with their own nbio.
LEMMA OtherNbios ==
    ASSUME NEW n \in NbioType, n.mask \subseteq {READ, WRITE}
    PROVE  /\ OwnNbio(NbioSetWait(n, {READ}))
           /\ OwnNbio(NbioToWaitq(n, "oomq"))
           /\ \A ok \in BOOLEAN : OwnNbio(NbioInactive(n, {READ}, FALSE, ok))
<1>1. {READ} \in SUBSET {READ, WRITE} /\ {} \in SUBSET {READ, WRITE}
      /\ "inactive" \in Lists /\ "oomq" \in Lists
  BY DEF Lists
<1>2. OwnNbio(NbioSetWait(n, {READ})) /\ OwnNbio(NbioToWaitq(n, "oomq"))
  BY <1>1, SetWaitProps DEF NbioSetWait, NbioToWaitq, OwnNbio
<1>3. ASSUME NEW ok \in BOOLEAN
      PROVE  OwnNbio(NbioInactive(n, {READ}, FALSE, ok))
  <2>1. PICK W \in SUBSET {READ, WRITE} : W = {READ}
    OBVIOUS
  <2>2. ASSUME NEW ready \in BOOLEAN
        PROVE  OwnNbio(NbioInactive(n, W, ready, ok))
    <3>1. NbioInactive(n, W, ready, ok) \in NbioType
      BY InactiveProps
    <3>2. NbioInactive(n, W, ready, ok).mask = n.mask
      BY InactiveProps
    <3> QED BY <3>1, <3>2 DEF OwnNbio
  <2> QED BY <2>1, <2>2
<1> QED BY <1>2, <1>3

\* listener_read()
LEMMA ListenerKeeps ==
    ASSUME IInv, NEW l \in Listeners, ListenerRead(l)
    PROVE  IInv'
<1>1. CoreInv /\ Rest /\ Others
  BY Parts, Whole
<1>2. l \in Nbios /\ OwnNbio(nb[l]) /\ l \notin Conns
  BY <1>1, NbioAssumption DEF CoreInv, Nbios, ListenInv, OwnNbio
<1>3. reap = {} /\ UNCHANGED <<connects, aioVars, rootVars, leaked, crashed>>
  <2>1. visit # <<Efd, "complete">>
    BY DEF ListenerRead, DueRead, NoVisit
  <2> QED BY <2>1 DEF ListenerRead, IInv, VisitInv
<1>4. visit' \in {NoVisit, <<l, "read">>}
  BY DEF ListenerRead
<1>5. backlog' \in [Listeners -> Nat]
  <2>1. \/ backlog' = backlog
        \/ backlog[l] > 0 /\ backlog' = [backlog EXCEPT ![l] = @ - 1]
    BY DEF ListenerRead
  <2>2. backlog \in [Listeners -> Nat]
    BY <1>1 DEF Others
  <2>3. backlog[l] > 0 => backlog[l] - 1 \in Nat
    BY <2>2
  <2> QED BY <2>1, <2>2, <2>3
<1>6. ASSUME NEW k, OwnNbio(k), nb' = [nb EXCEPT ![l] = k],
             UNCHANGED <<conn, sock, concurrency>>
      PROVE  CoreInv'
  <2>1. /\ nb' \in [Nbios -> NbioType] /\ aio' = aio
        /\ \A n \in Nbios : n # l => nb'[n] = nb[n]
    BY <1>1, <1>2, <1>3, <1>6 DEF CoreInv, OwnNbio, aioVars
  <2>2. \A c \in Conns : Similar(nb[c], nb'[c])
    BY <1>2, <2>1 DEF Similar, Nbios
  <2>3. \A n \in Nbios \ Conns : nb'[n].mask \subseteq {READ, WRITE}
    BY <1>1, <1>2, <1>6, <2>1 DEF CoreInv, ListenInv, OwnNbio
  <2>4. sock' \in [Conns -> SockType] /\ aio' \in [Conns -> AioStates]
    BY <1>1, <1>6, <2>1 DEF CoreInv
  <2> QED BY <1>1, <1>6, <2>1, <2>2, <2>3, <2>4, KeepStep
<1>7. ASSUME NEW c \in FreeSlots, Accepted(l, c)
      PROVE  CoreInv'
  <2> DEFINE h == [NoConn EXCEPT !.state = "REQUEST", !.fd = TRUE]
             k == NbioAdd({READ})
             s == [NoSock EXCEPT !.quota = MaxTokens]
  <2>1. c \in Conns /\ c \in Nbios /\ c # l /\ aio[c] = "none"
    <3>1. c \in Conns /\ conn[c].state = "FREE"
      BY DEF FreeSlots
    <3>2. ConnOK(conn[c], nb[c], aio[c])
      BY <1>1, <3>1 DEF CoreInv, ConnInv
    <3> QED BY <1>2, <3>1, <3>2 DEF Nbios, ConnOK, WaitOK
  <2>2. h \in ConnType
    <3>1. NoConn \in ConnType
      BY EmptySeq DEF NoConn, ConnType
    <3> QED BY <3>1 DEF ConnType
  <2>3. s \in SockType
    <3>1. NoSock \in SockType /\ MaxTokens \in Nat
      BY EmptySeq, SizeAssumption DEF NoSock, SockType
    <3> QED BY <3>1 DEF SockType
  <2>4. /\ k \in NbioType /\ k.mask = {READ} /\ k.list = "active"
        /\ k.item = "none"
    BY DEF NbioAdd, DoSetWait, EpollActive, NoNbio, NbioType, Lists, Items, READ,
           WRITE
  <2>5. ConnOK(h, k, "none")
    <3>1. /\ h.state = "REQUEST" /\ h.fd /\ h.has = {} /\ h.r = 0 /\ h.w = 0
          /\ h.sent = 0 /\ h.clen = 0
      BY DEF NoConn
    <3> HIDE DEF h, k
    <3>2. HoldsOK(h) /\ BodyOK(h)
      BY <3>1 DEF HoldsOK, BodyOK, Serving
    <3>3. WaitOK(h, k, "none")
      BY <2>4, <3>1 DEF WaitOK, Serving, READ
    <3> QED BY <3>2, <3>3 DEF ConnOK
  <2>6. /\ conn' = [conn EXCEPT ![c] = h] /\ sock' = [sock EXCEPT ![c] = s]
        /\ nb' = [nb EXCEPT ![c] = k, ![l] = NbioSetWait(@, {READ})]
        /\ concurrency' = concurrency + 1
    BY <1>7 DEF Accepted
  <2> HIDE DEF h, k, s
  <2>7. /\ nb' \in [Nbios -> NbioType] /\ nb'[c] = k
        /\ nb'[l].mask \subseteq {READ, WRITE}
        /\ \A d \in Nbios : d # c /\ d # l => nb'[d] = nb[d]
    <3>1. OwnNbio(NbioSetWait(nb[l], {READ}))
      BY <1>2, OtherNbios DEF OwnNbio
    <3>2. nb \in [Nbios -> NbioType] /\ Conns \subseteq Nbios
      BY <1>1 DEF CoreInv, Nbios
    <3>3. [nb EXCEPT ![c] = k][l] = nb[l]
      BY <2>1, <1>2, <3>2
    <3> QED BY <1>2, <2>1, <2>4, <2>6, <3>1, <3>2, <3>3 DEF OwnNbio
  <2>8. /\ conn' \in [Conns -> ConnType] /\ sock' \in [Conns -> SockType]
        /\ concurrency' \in Int /\ conn'[c] = h /\ aio' = aio
        /\ \A d \in Conns : d # c => conn'[d] = conn[d]
    BY <1>1, <1>3, <2>1, <2>2, <2>3, <2>6 DEF CoreInv, aioVars
  <2>9. ConnInv'
    <3> SUFFICES ASSUME NEW d \in Conns
                 PROVE  ConnOK(conn'[d], nb'[d], aio'[d])
      BY DEF ConnInv, ConnOK, HoldsOK, BodyOK, WaitOK, Serving
    <3>1. CASE d = c
      BY <2>1, <2>5, <2>7, <2>8, <3>1
    <3>2. CASE d # c
      BY <1>1, <1>2, <2>7, <2>8, <3>2 DEF CoreInv, ConnInv, Nbios
    <3> QED BY <3>1, <3>2
  <2>10. ListenInv'
    BY <1>1, <2>1, <2>7 DEF CoreInv, ListenInv
  <2> QED BY <1>1, <2>7, <2>8, <2>9, <2>10 DEF CoreInv
<1>8. \/ \E c \in FreeSlots : Accepted(l, c)
      \/ /\ UNCHANGED <<conn, sock, concurrency>>
         /\ \/ nb' = [nb EXCEPT ![l] = NbioSetWait(nb[l], {READ})]
            \/ nb' = [nb EXCEPT ![l] = NbioToWaitq(nb[l], "oomq")]
            \/ \E ok \in CtlResults :
                  nb' = [nb EXCEPT ![l] = NbioInactive(nb[l], {READ}, FALSE, ok)]
            \/ nb' = [nb EXCEPT ![l] = nb[l]]
  BY <1>1 DEF ListenerRead, HttpOom, CoreInv
<1>9. CoreInv'
  <2>1. /\ OwnNbio(NbioSetWait(nb[l], {READ}))
        /\ OwnNbio(NbioToWaitq(nb[l], "oomq"))
        /\ \A ok \in CtlResults : OwnNbio(NbioInactive(nb[l], {READ}, FALSE, ok))
    BY <1>2, OtherNbios DEF CtlResults, OwnNbio
  <2> QED BY <1>2, <1>6, <1>7, <1>8, <2>1
<1>10. Others' /\ Rest' /\ reap' = {}
  BY <1>1, <1>2, <1>3, <1>4, <1>5 DEF Others, Rest, aioVars, rootVars
<1>11. VisitInv'
  BY <1>2, <1>4, <1>10 DEF VisitInv, NoVisit
<1> QED BY <1>9, <1>10, <1>11, Whole

\* A step that touches no connection, and at most the visit.
LEMMA QuietStep ==
    ASSUME CoreInv, UNCHANGED <<conn, sock, concurrency, aio>>,
           UNCHANGED nb \/ \E n \in Nbios \ Conns : \E k :
                              OwnNbio(k) /\ nb' = [nb EXCEPT ![n] = k]
    PROVE  CoreInv'
<1>1. nb \in [Nbios -> NbioType] /\ Conns \subseteq Nbios /\ ListenInv
  BY DEF CoreInv, Nbios
<1>2. /\ nb' \in [Nbios -> NbioType] /\ \A c \in Conns : nb'[c] = nb[c]
      /\ \A n \in Nbios \ Conns : nb'[n].mask \subseteq {READ, WRITE}
  <2>1. CASE UNCHANGED nb
    BY <1>1, <2>1 DEF ListenInv
  <2>2. ASSUME NEW n \in Nbios \ Conns, NEW k, OwnNbio(k),
               nb' = [nb EXCEPT ![n] = k]
        PROVE  /\ nb' \in [Nbios -> NbioType] /\ \A c \in Conns : nb'[c] = nb[c]
               /\ \A m \in Nbios \ Conns : nb'[m].mask \subseteq {READ, WRITE}
    BY <1>1, <2>2 DEF ListenInv, OwnNbio
  <2> QED BY <2>1, <2>2
<1>3. \A c \in Conns : Similar(nb[c], nb'[c])
  BY <1>2 DEF Similar
<1>4. sock' \in [Conns -> SockType] /\ aio' \in [Conns -> AioStates]
  BY DEF CoreInv
<1> QED BY <1>2, <1>3, <1>4, KeepStep

\* efd_read()
LEMMA EfdKeeps ==
    ASSUME IInv, EfdRead
    PROVE  IInv'
<1>1. CoreInv /\ Rest /\ Others
  BY Parts, Whole
<1>2. Efd \in Nbios \ Conns /\ OwnNbio(nb[Efd])
  BY <1>1, NbioAssumption DEF CoreInv, ListenInv, OwnNbio, Nbios
<1>3. reap = {}
  <2>1. visit # <<Efd, "complete">>
    BY DEF EfdRead, DueRead, NoVisit
  <2> QED BY <2>1 DEF IInv, VisitInv
<1>4. UNCHANGED nb \/ \E n \in Nbios \ Conns : \E k :
                         OwnNbio(k) /\ nb' = [nb EXCEPT ![n] = k]
  <2>1. \A ok \in CtlResults : OwnNbio(NbioInactive(nb[Efd], {READ}, FALSE, ok))
    BY <1>2, OtherNbios DEF CtlResults, OwnNbio
  <2>2. UNCHANGED nb \/ \E ok \in CtlResults :
          nb' = [nb EXCEPT ![Efd] = NbioInactive(nb[Efd], {READ}, FALSE, ok)]
    BY DEF EfdRead
  <2> QED BY <1>2, <2>1, <2>2
<1>5. UNCHANGED <<conn, sock, concurrency, aio>>
  BY DEF EfdRead
<1>6. CoreInv'
  BY <1>1, <1>4, <1>5, QuietStep
<1>7. visit' \in {NoVisit, <<Efd, "reap">>} /\ efd' \in BOOLEAN
  BY <1>1 DEF EfdRead, Others
<1>8. Others' /\ Rest' /\ reap' = {}
  BY <1>1, <1>2, <1>3, <1>7 DEF EfdRead, Others, Rest, netVars, rootVars
<1>9. VisitInv'
  BY <1>7, <1>8 DEF VisitInv, NoVisit
<1> QED BY <1>6, <1>8, <1>9, Whole

\* aio_event()
LEMMA AioEventKeeps ==
    ASSUME IInv, AioEvent
    PROVE  IInv'
<1>1. CoreInv /\ Rest /\ Others
  BY Parts, Whole
<1>2. CoreInv'
  BY <1>1, QuietStep DEF AioEvent
<1>3. /\ visit' \in {NoVisit, <<Efd, "complete">>}
      /\ (reap' # {} => visit' = <<Efd, "complete">>)
      /\ reap' = {c \in Conns : aio[c] \in {"ok", "err"}} /\ aio' = aio
  BY DEF AioEvent
<1>4. Others' /\ Rest'
  BY <1>1, <1>3 DEF AioEvent, Others, Rest, netVars, rootVars, Nbios
<1>5. VisitInv'
  BY <1>3 DEF VisitInv, NoVisit
<1> QED BY <1>2, <1>4, <1>5, Whole

\* handle_completion()
LEMMA CompletionKeeps ==
    ASSUME IInv, NEW c \in Conns, HandleCompletion(c)
    PROVE  IInv'
<1>1. CoreInv /\ Rest /\ Others
  BY Parts, Whole
<1>2. /\ conn[c] \in ConnType /\ nb[c] \in NbioType /\ sock[c] \in SockType
      /\ ConnOK(conn[c], nb[c], aio[c])
  BY <1>1 DEF CoreInv, ConnInv, Nbios
<1>3. c \in reap /\ aio[c] # "none" /\ aio' = [aio EXCEPT ![c] = "none"]
  BY DEF HandleCompletion, IInv, VisitInv
<1>4. /\ Fio = "async" /\ conn[c].state \in {"HEADER", "DATA"}
      /\ conn[c].r = 0 /\ conn[c].w = 0 /\ nb[c].item = "none"
      /\ HoldsOK(conn[c]) /\ BodyOK(conn[c])
  BY <1>2, <1>3 DEF ConnOK, WaitOK
<1>5. ASSUME HttpKill(c, conn[c], nb[c])
      PROVE  CoreInv'
  <2>1. conn[c].has \subseteq KillFrees(conn[c])
    BY <1>2, <1>4 DEF KillFrees, HoldsOK, ConnType
  <2> QED BY <1>1, <1>2, <1>3, <1>5, <2>1, KillStep
<1>6. ASSUME NEW n \in 1..Smaller(DataCap - conn[c].w, conn[c].dlen),
             Carry(c, [conn[c] EXCEPT !.w = @ + n],
                   NbioWake(nb[c], {WRITE}), sock[c])
      PROVE  CoreInv'
  <2> DEFINE h == conn[c]
             g == [h EXCEPT !.w = @ + n]
  <2>1. h.dlen \in Nat /\ h.sent \in Nat /\ h.clen \in Nat /\ DataCap \in Nat
    BY <1>2, SizeAssumption DEF ConnType
  <2>2. n \in Nat /\ n <= h.dlen
    BY <1>4, <2>1 DEF Smaller
  <2>3. /\ g \in ConnType /\ g.state = h.state /\ g.fd = h.fd /\ g.has = h.has
        /\ g.res = h.res /\ g.dlen = h.dlen /\ g.sent = h.sent
        /\ g.clen = h.clen /\ g.r = 0 /\ g.w = n
    BY <1>2, <1>4, <2>2 DEF ConnType
  <2>4. Carry(c, g, NbioSetWait(nb[c], {WRITE}), sock[c])
    BY <1>6 DEF NbioWake, NbioSetWait
  <2> HIDE DEF g
  <2>5. HoldsOK(g)
    BY <1>4, <2>3 DEF HoldsOK, Serving
  <2>6. BodyOK(g)
    BY <1>4, <2>1, <2>2, <2>3 DEF BodyOK
  <2>7. /\ Serving(g) /\ ({WRITE} = {READ} <=> g.state = "REQUEST")
        /\ {WRITE} \in {{READ}, {WRITE}}
    BY <1>4, <2>3 DEF Serving, READ, WRITE
  <2>8. Done(c)
    BY <1>1, <1>2, <1>3, <1>4, <2>3, <2>4, <2>5, <2>6, <2>7, WaitDone
  <2> QED BY <2>8 DEF Done
<1>7. CoreInv'
  BY <1>5, <1>6 DEF HandleCompletion
<1>8. /\ visit' \in {NoVisit, <<Efd, "complete">>} /\ reap' = reap \ {c}
      /\ (reap' # {} => visit' = <<Efd, "complete">>)
  BY DEF HandleCompletion
<1>9. Others' /\ Rest'
  BY <1>1, <1>8 DEF HandleCompletion, Others, Rest, netVars, rootVars, Nbios
<1>10. \A d \in reap' : aio'[d] \in {"ok", "err"}
  <2>1. \A d \in reap : d \in Conns /\ aio[d] \in {"ok", "err"}
    BY <1>1 DEF Others, IInv, VisitInv
  <2> QED BY <1>1, <1>3, <1>8, <2>1 DEF CoreInv
<1>11. VisitInv'
  BY <1>8, <1>10 DEF VisitInv, NoVisit
<1> QED BY <1>7, <1>9, <1>11, Whole

\* What plugin->pump makes of an event.
LEMMA DeliverProps ==
    ASSUME NEW n \in NbioType, NEW E \in SUBSET {READ, WRITE, ERROR}
    PROVE  LET k == EpollDeliver(n, E)
           IN  /\ k \in NbioType /\ k.mask = n.mask /\ k.poll = n.poll
               /\ k.list \in {n.list, "active"}
BY DEF EpollDeliver, NbioType, Lists, Items

\* plugin->pump
LEMMA EpollKeeps ==
    ASSUME IInv, EpollWait
    PROVE  IInv'
<1>1. CoreInv /\ Rest /\ Others
  BY Parts, Whole
<1>2. visit = NoVisit /\ reap = {} /\ \A c \in Conns : nb[c].list # "deleted"
  BY DEF IInv, VisitInv, EpollWait, LoopDrained, Idle, NoVisit
<1>3. PICK S \in SUBSET QueuedItems :
        nb' = [n \in Nbios |-> IF n \in S
                               THEN EpollDeliver(nb[n], Events(n, nb[n].want))
                               ELSE nb[n]]
  BY DEF EpollWait
<1>4. nb \in [Nbios -> NbioType] /\ Conns \subseteq Nbios
  BY <1>1 DEF CoreInv, Nbios
<1>5. ASSUME NEW n \in Nbios
      PROVE  Events(n, nb[n].want) \in SUBSET {READ, WRITE, ERROR}
  BY DEF Events, SockEvents
<1>6. ASSUME NEW n \in Nbios
      PROVE  /\ nb'[n] \in NbioType /\ nb'[n].mask = nb[n].mask
             /\ \/ nb'[n] = nb[n]
                \/ /\ nb[n].item # "none" /\ nb'[n].poll = nb[n].poll
                   /\ nb'[n].list \in {nb[n].list, "active"}
  <2>1. CASE n \in S
    <3>1. nb'[n] = EpollDeliver(nb[n], Events(n, nb[n].want))
      BY <1>3, <2>1
    <3>2. nb[n].item # "none"
      BY <2>1 DEF QueuedItems
    <3> QED BY <1>4, <1>5, <3>1, <3>2, DeliverProps
  <2>2. CASE n \notin S
    BY <1>3, <1>4, <2>2
  <2> QED BY <2>1, <2>2
<1>7. nb' \in [Nbios -> NbioType] /\ ListenInv'
  <2>1. DOMAIN nb' = Nbios /\ nb' = [n \in Nbios |-> nb'[n]]
    BY <1>3
  <2> QED BY <1>1, <1>6, <2>1 DEF CoreInv, ListenInv
<1>8. ConnInv'
  <2> SUFFICES ASSUME NEW c \in Conns
               PROVE  ConnOK(conn'[c], nb'[c], aio'[c])
    BY DEF ConnInv, ConnOK, HoldsOK, BodyOK, WaitOK, Serving
  <2>1. /\ conn[c] \in ConnType /\ ConnOK(conn[c], nb[c], aio[c])
        /\ conn'[c] = conn[c] /\ aio'[c] = aio[c]
    BY <1>1 DEF CoreInv, ConnInv, EpollWait, aioVars
  <2>2. CASE nb'[c] = nb[c]
    BY <2>1, <2>2
  <2>3. CASE /\ nb[c].item # "none" /\ nb'[c].poll = nb[c].poll
             /\ nb'[c].list \in {nb[c].list, "active"}
    <3>1. /\ Serving(conn[c]) /\ aio[c] = "none"
          /\ nb[c].list \in {"active", "inactive"}
      BY <1>2, <2>1, <2>3 DEF ConnOK, WaitOK, Serving, ConnType
    <3>2. nb'[c].mask = nb[c].mask
      BY <1>4, <1>6
    <3>3. WaitOK(conn[c], nb'[c], "none")
      BY <2>1, <2>3, <3>1, <3>2 DEF ConnOK, WaitOK, Serving
    <3> QED BY <2>1, <3>1, <3>3 DEF ConnOK
  <2> QED BY <1>4, <1>6, <2>2, <2>3
<1>9. CoreInv'
  BY <1>1, <1>7, <1>8 DEF CoreInv, EpollWait, aioVars
<1>10. Others' /\ Rest' /\ visit' = NoVisit /\ reap' = {}
  BY <1>1, <1>2 DEF EpollWait, Others, Rest, netVars, rootVars, aioVars
<1>11. VisitInv'
  BY <1>10 DEF VisitInv, NoVisit
<1> QED BY <1>9, <1>10, <1>11, Whole

\* vhost_add() and vhost_del()
LEMMA AdminKeeps ==
    ASSUME IInv, Admin
    PROVE  IInv'
<1>1. CoreInv /\ Rest /\ Others
  BY Parts, Whole
<1>2. visit = NoVisit /\ reap = {}
  BY DEF IInv, VisitInv, Admin, VhostAdd, VhostDel, Idle, NoVisit
<1>3. UNCHANGED <<conn, nb, sock, netVars, concurrency, visit, aioVars, leaked,
                  crashed>>
  BY DEF Admin, VhostAdd, VhostDel
<1>4. CoreInv'
  BY <1>1, <1>3, QuietStep DEF aioVars
<1>5. /\ ref' \in [Roots -> Int] /\ vhost' \in Roots \cup {NoRoot}
      /\ fresh' \in SUBSET Roots
  <2>1. Unref(vhost) \in [Roots -> Int]
    BY <1>1 DEF Unref, Rest, Others
  <2>2. CASE VhostDel
    BY <1>1, <2>1, <2>2 DEF VhostDel, Others
  <2>3. ASSUME NEW w \in Roots, VhostAdd(w)
        PROVE  /\ ref' \in [Roots -> Int] /\ vhost' \in Roots \cup {NoRoot}
               /\ fresh' \in SUBSET Roots
    BY <1>1, <2>1, <2>3 DEF VhostAdd, Others
  <2> QED BY <2>2, <2>3 DEF Admin
<1>6. Others' /\ Rest' /\ visit' = NoVisit /\ reap' = {}
  BY <1>1, <1>2, <1>3, <1>5 DEF Others, Rest, netVars, aioVars
<1>7. VisitInv'
  BY <1>6 DEF VisitInv, NoVisit
<1> QED BY <1>4, <1>6, <1>7, Whole

\* A peer writes, reads, shuts down or resets.
LEMMA PeerStepKeeps ==
    ASSUME IInv, NEW c \in Conns, NEW s \in SockType, NEW k \in NbioType,
           PeerStep(c, s, k), Similar(nb[c], k)
    PROVE  IInv'
<1>1. CoreInv /\ Rest /\ Others
  BY Parts, Whole
<1>2. /\ nb' = [nb EXCEPT ![c] = k] /\ sock' = [sock EXCEPT ![c] = s]
      /\ UNCHANGED <<conn, netVars, concurrency, visit, aioVars, rootVars,
                     leaked, crashed>>
  BY DEF PeerStep
<1>3. /\ nb' \in [Nbios -> NbioType] /\ sock' \in [Conns -> SockType]
      /\ nb'[c] = k /\ \A n \in Nbios : n # c => nb'[n] = nb[n]
  BY <1>1, <1>2 DEF CoreInv, Nbios
<1>4. \A d \in Conns : Similar(nb[d], nb'[d])
  BY <1>3 DEF Similar, Nbios
<1>5. \A n \in Nbios \ Conns : nb'[n].mask \subseteq {READ, WRITE}
  BY <1>1, <1>3 DEF CoreInv, ListenInv
<1>6. aio' = aio /\ aio' \in [Conns -> AioStates] /\ visit' = visit /\ reap' = reap
  BY <1>1, <1>2 DEF CoreInv, aioVars
<1>7. CoreInv' /\ VisitInv'
  BY <1>1, <1>2, <1>3, <1>4, <1>5, <1>6, KeepStep DEF IInv
<1>8. Others' /\ Rest'
  BY <1>1, <1>2 DEF Others, Rest, netVars, aioVars, rootVars
<1> QED BY <1>7, <1>8, Whole

\* What a client does to its socket.
LEMMA PeerKeeps ==
    ASSUME IInv, NEW c \in Conns,
           \/ \E t \in Tokens : PeerSend(c, t)
           \/ PeerFin(c) \/ PeerReset(c) \/ PeerDrain(c)
    PROVE  IInv'
<1>1. nb[c] \in NbioType /\ sock[c] \in SockType
  BY Parts DEF CoreInv, Nbios
<1>2. /\ \A E : /\ EpollWakeup(nb[c], E) \in NbioType
                /\ Similar(nb[c], EpollWakeup(nb[c], E))
      /\ EpollHangup(nb[c]) \in NbioType /\ Similar(nb[c], EpollHangup(nb[c]))
  BY <1>1, WakeupProps
<1>3. ASSUME NEW t \in Tokens, PeerSend(c, t)
      PROVE  IInv'
  <2> DEFINE s == [sock[c] EXCEPT !.rx = Append(@, t), !.quota = @ - 1]
  <2>1. Append(sock[c].rx, t) \in Seq(Tokens)
    BY <1>1, AppendProperties DEF SockType
  <2>2. sock[c].quota - 1 \in Nat
    <3>1. sock[c].quota \in Nat /\ sock[c].quota > 0
      BY <1>1, <1>3 DEF PeerSend, SockType
    <3> QED BY <3>1
  <2>3. s \in SockType
    BY <1>1, <2>1, <2>2 DEF SockType
  <2>4. PeerStep(c, s, EpollWakeup(nb[c], {READ}))
    BY <1>3 DEF PeerSend
  <2> HIDE DEF s
  <2> QED BY <1>2, <2>3, <2>4, PeerStepKeeps
<1>4. CASE PeerFin(c)
  <2>1. [sock[c] EXCEPT !.fin = TRUE] \in SockType
    BY <1>1 DEF SockType
  <2> QED BY <1>2, <1>4, <2>1, PeerStepKeeps DEF PeerFin
<1>5. CASE PeerReset(c)
  <2>1. [sock[c] EXCEPT !.rst = TRUE] \in SockType
    BY <1>1 DEF SockType
  <2> QED BY <1>2, <1>5, <2>1, PeerStepKeeps DEF PeerReset
<1>6. CASE PeerDrain(c)
  <2>1. [sock[c] EXCEPT !.tx = 0] \in SockType
    BY <1>1 DEF SockType
  <2> QED BY <1>2, <1>6, <2>1, PeerStepKeeps DEF PeerDrain
<1> QED BY <1>3, <1>4, <1>5, <1>6

\* A client connects.
LEMMA ConnectKeeps ==
    ASSUME IInv, NEW l \in Listeners, PeerConnect(l)
    PROVE  IInv'
<1>1. CoreInv /\ Rest /\ Others
  BY Parts, Whole
<1>2. l \in Nbios \ Conns /\ OwnNbio(nb[l])
  BY <1>1, NbioAssumption DEF CoreInv, ListenInv, OwnNbio, Nbios
<1>3. OwnNbio(EpollWakeup(nb[l], {READ}))
  BY <1>2, WakeupProps DEF OwnNbio, Similar
<1>4. /\ nb' = [nb EXCEPT ![l] = EpollWakeup(nb[l], {READ})]
      /\ UNCHANGED <<conn, sock, concurrency, visit, aioVars, rootVars, leaked,
                     crashed>>
  BY DEF PeerConnect
<1>5. CoreInv'
  BY <1>1, <1>2, <1>3, <1>4, QuietStep DEF aioVars
<1>6. Others' /\ Rest'
  BY <1>1, <1>4 DEF PeerConnect, Others, Rest, aioVars, rootVars
<1>7. VisitInv'
  <2>1. \A c \in Conns : nb'[c] = nb[c]
    BY <1>1, <1>2, <1>4 DEF CoreInv, Nbios
  <2> QED BY <1>4, <2>1 DEF IInv, VisitInv, Serving, Active, Due, aioVars
<1> QED BY <1>5, <1>6, <1>7, Whole

\* The kernel finishes an asynchronous read.
LEMMA AioDoneKeeps ==
    ASSUME IInv, NEW c \in Conns, AioDone(c)
    PROVE  IInv'
<1>1. CoreInv /\ Rest /\ Others
  BY Parts, Whole
<1>2. Efd \in Nbios \ Conns /\ OwnNbio(nb[Efd])
  BY <1>1, NbioAssumption DEF CoreInv, ListenInv, OwnNbio, Nbios
<1>3. OwnNbio(EpollWakeup(nb[Efd], {READ}))
  BY <1>2, WakeupProps DEF OwnNbio, Similar
<1>4. /\ nb' = [nb EXCEPT ![Efd] = EpollWakeup(nb[Efd], {READ})]
      /\ UNCHANGED <<conn, sock, netVars, concurrency, visit, reap, rootVars,
                     leaked, crashed>>
      /\ efd' = TRUE /\ aio[c] = "flight"
  BY DEF AioDone
<1>5. /\ aio' \in [Conns -> AioStates] /\ aio'[c] \in {"ok", "err"}
      /\ \A d \in Conns : d # c => aio'[d] = aio[d]
  BY <1>1 DEF AioDone, CoreInv, AioStates
<1>6. /\ nb' \in [Nbios -> NbioType] /\ \A d \in Conns : nb'[d] = nb[d]
      /\ \A n \in Nbios \ Conns : nb'[n].mask \subseteq {READ, WRITE}
  BY <1>1, <1>2, <1>3, <1>4 DEF CoreInv, ListenInv, OwnNbio, Nbios
<1>7. \A d \in Conns : /\ Similar(nb[d], nb'[d])
                       /\ aio'[d] = "none" <=> aio[d] = "none"
  BY <1>4, <1>5, <1>6 DEF Similar
<1>8. \A d \in reap : aio'[d] = aio[d]
  BY <1>1, <1>4, <1>5 DEF IInv, VisitInv, Others
<1>9. CoreInv' /\ VisitInv'
  BY <1>1, <1>4, <1>5, <1>6, <1>7, <1>8, KeepStep DEF IInv, CoreInv
<1>10. Others' /\ Rest'
  BY <1>1, <1>4 DEF Others, Rest, netVars, rootVars
<1> QED BY <1>9, <1>10, Whole

-----------------------------------------------------------------------------
(* The theorems. *)

\* main() leaves the loop in a state that satisfies the invariant.
LEMMA InitIInv == Init => IInv
<1> SUFFICES ASSUME Init PROVE IInv
  OBVIOUS
<1>1. NoConn \in ConnType /\ NoNbio \in NbioType /\ NoSock \in SockType
  BY EmptySeq DEF NoConn, ConnType, NoNbio, NbioType, NoSock, SockType, Lists,
                  Items
<1>2. OwnNbio(NbioAdd({READ})) /\ OwnNbio(NoNbio)
  BY <1>1 DEF NbioAdd, DoSetWait, EpollActive, NoNbio, NbioType, Lists, Items,
              OwnNbio, READ, WRITE
<1>3. \A n \in Nbios : OwnNbio(nb[n])
  BY <1>2 DEF Init
<1>4. nb \in [Nbios -> NbioType] /\ ListenInv
  BY <1>2, <1>3 DEF Init, ListenInv, OwnNbio
<1>5. \A c \in Conns : conn[c] = NoConn /\ nb[c] = NoNbio /\ aio[c] = "none"
  BY NbioAssumption DEF Init, Nbios
<1>6. ConnOK(NoConn, NoNbio, "none")
  BY DEF ConnOK, HoldsOK, BodyOK, WaitOK, Serving, NoConn, NoNbio
<1>7. ConnInv
  BY <1>5, <1>6 DEF ConnInv
<1>8. VisitInv
  BY DEF Init, VisitInv, NoVisit
<1>9. TypeOK
  <2>1. \A x \in Roots, w \in Roots : (IF x = w THEN 1 ELSE 0) \in Int
    OBVIOUS
  <2>2. ref \in [Roots -> Int] /\ vhost \in Roots /\ fresh \in SUBSET Roots
    BY <2>1 DEF Init
  <2>3. /\ conn \in [Conns -> ConnType] /\ sock \in [Conns -> SockType]
        /\ backlog \in [Listeners -> Nat]
        /\ aio \in [Conns -> {"none", "flight", "ok", "err"}]
    BY <1>1 DEF Init
  <2>4. /\ connects \in Nat /\ concurrency \in Int /\ visit = NoVisit
        /\ efd \in BOOLEAN /\ reap \in SUBSET Conns /\ crashed \in BOOLEAN
        /\ leaked \in [fd : Nat, iocb : Nat, buf : Nat]
    <3>1. /\ connects = 0 /\ concurrency = 0 /\ visit = NoVisit /\ efd = FALSE
          /\ reap = {} /\ crashed = FALSE /\ leaked = [fd |-> 0, iocb |-> 0, buf |-> 0]
      BY DEF Init
    <3>2. efd \in BOOLEAN /\ crashed \in BOOLEAN
      BY <3>1, Zenon
    <3>3. connects \in Nat /\ concurrency \in Int /\ reap \in SUBSET Conns
      BY <3>1
    <3>4. leaked \in [fd : Nat, iocb : Nat, buf : Nat]
      BY <3>1
    <3> QED BY <3>1, <3>2, <3>3, <3>4
  <2> QED BY <1>4, <2>2, <2>3, <2>4 DEF TypeOK
<1> QED BY <1>4, <1>7, <1>8, <1>9 DEF IInv

\* Every step keeps it.
LEMMA NextIInv == IInv /\ [Next]_vars => IInv'
<1> SUFFICES ASSUME IInv, [Next]_vars PROVE IInv'
  OBVIOUS
<1>1. CASE \E c \in Conns : ConnStep(c)
  BY <1>1, CallbackKeeps, SweepKeeps, DtorKeeps DEF ConnStep
<1>2. CASE \E l \in Listeners : ListenerRead(l)
  BY <1>2, ListenerKeeps
<1>3. CASE AioStep
  BY <1>3, EfdKeeps, AioEventKeeps, CompletionKeeps DEF AioStep
<1>4. CASE EpollWait
  BY <1>4, EpollKeeps
<1>5. CASE Admin
  BY <1>5, AdminKeeps
<1>6. CASE Peer
  BY <1>6, ConnectKeeps, PeerKeeps, AioDoneKeeps DEF Peer
<1>7. CASE UNCHANGED vars
  <2>1. CoreInv /\ Rest /\ Others
    BY Parts, Whole
  <2>2. CoreInv'
    BY <1>7, <2>1, QuietStep DEF vars
  <2>3. VisitInv'
    BY <1>7 DEF vars, IInv, VisitInv, Serving, Active, Due
  <2>4. Others' /\ Rest'
    BY <1>7, <2>1 DEF vars, Others, Rest
  <2> QED BY <2>2, <2>3, <2>4, Whole
<1> QED BY <1>1, <1>2, <1>3, <1>4, <1>5, <1>6, <1>7 DEF Next, Server

\* The inductive invariant: every connection's struct, buffers, body counters,
\* nbio and iocb fit each other after every callback of http_conn.c, nbio.c,
\* nbio-listener.c and the file I/O models.
THEOREM Inductive == Spec => []IInv
<1>1. Init => IInv
  BY InitIInv
<1>2. IInv /\ [Next]_vars => IInv'
  BY NextIInv
<1> QED BY <1>1, <1>2, PTL DEF Spec

\* Every variable keeps its type, in particular no counter of a buffer, a
\* header or a body goes below zero.
THEOREM TypeCorrect == Spec => []TypeOK
<1>1. IInv => TypeOK
  BY DEF IInv
<1> QED BY <1>1, Inductive, PTL

\* http_read(), http_write() and http_kill() only ever run in states they can
\* handle: none of their assertions and abort()s can fail.
THEOREM CallbacksFit == Spec => []CallbackFits
<1>1. IInv => CallbackFits
  <2> SUFFICES ASSUME IInv, NEW c \in Conns, Live(c)
               PROVE  /\ conn[c].state \in {"REQUEST", "HEADER", "DATA"}
                      /\ nb[c].mask = {READ} <=> conn[c].state = "REQUEST"
                      /\ nb[c].mask = {} <=> aio[c] # "none"
                      /\ nb[c].mask \in {{READ}, {WRITE}, {}}
                      /\ conn[c].state = "REQUEST" => conn[c].has \subseteq {"req"}
                      /\ conn[c].state = "HEADER" =>
                            "res" \in conn[c].has /\ conn[c].res > 0
    BY DEF CallbackFits
  <2>1. ConnOK(conn[c], nb[c], aio[c]) /\ conn[c].fd /\ nb[c].list # "deleted"
    BY DEF IInv, ConnInv, Live
  <2>2. Serving(conn[c]) /\ HoldsOK(conn[c])
    BY <2>1 DEF ConnOK, HoldsOK
  <2>3. /\ nb[c].mask = {READ} <=> conn[c].state = "REQUEST"
        /\ nb[c].mask = {} <=> aio[c] # "none"
        /\ nb[c].mask \in {{READ}, {WRITE}, {}}
    BY <2>1, <2>2 DEF ConnOK, WaitOK
  <2> QED BY <2>2, <2>3 DEF HoldsOK, Serving
<1> QED BY <1>1, Inductive, PTL

\* While an iocb is out, its connection is alive, parked and has its buffer.
THEOREM AioIsSafe == Spec => []AioSafe
<1>1. IInv => AioSafe
  BY DEF IInv, ConnInv, ConnOK, WaitOK, HoldsOK, Serving, AioSafe
<1> QED BY <1>1, Inductive, PTL

\* Under each of the file I/O models, the body sent, the body buffered and the
\* body still to be read add up to the length the header announced.
THEOREM BodiesInOrder == Spec => []BodyInOrder
<1>1. IInv => BodyInOrder
  BY DEF IInv, ConnInv, ConnOK, BodyOK, BodyInOrder
<1> QED BY <1>1, Inductive, PTL

-----------------------------------------------------------------------------
(* What one callback of a connection may do to the state the other parts of   *)
(* the server share with it: the nbio and its registration, the reference     *)
(* counts of the web roots, the counter of connections, the iocbs.  The       *)
(* theorems on wake-ups, on references and on the service rest on it.         *)

\* The reference counts when c is left with web root w: it keeps the one it
\* had, gives it back, or takes a reference to the one of the vhost.
Accounts(c, w) ==
    \/ w = conn[c].root /\ UNCHANGED ref
    \/ w = NoRoot /\ ref' = Unref(conn[c].root)
    \/ w = vhost /\ vhost \in Roots /\ ref' = [ref EXCEPT ![vhost] = @ + 1]

\* The nbio k that c is left with, its socket being s by then.  It is parked
\* on the socket only when the socket is not ready for what it waits for.
Moves(c, k, s) ==
    \/ k \in {nb[c], NbioSetWait(nb[c], {READ}), NbioSetWait(nb[c], {WRITE}),
              NbioToWaitq(nb[c], "inactive")}
    \/ /\ s = sock[c] /\ SockEvents(s, nb[c].mask) = {}
       /\ \E ok \in CtlResults : k = NbioInactive(nb[c], nb[c].mask, FALSE, ok)

\* c is killed.
Ends(c) ==
    \E h \in ConnType, k \in NbioType : HttpKill(c, h, k) /\ Accounts(c, h.root)

\* c survives, further along in its response if it is in one.
GoesOn(c) ==
    \E h \in ConnType : \E k, s :
        /\ Carry(c, h, k, s) /\ Moves(c, k, s) /\ Accounts(c, h.root)
        /\ h.fd = conn[c].fd
        /\ conn[c].state # "REQUEST" =>
              h.clen = conn[c].clen /\ h.sent >= conn[c].sent

\* A callback of c ends it, carries it on or crashes the process.
Effect(c) ==
    /\ Ends(c) \/ GoesOn(c) \/ UNCHANGED <<conn, nb, sock, concurrency, ref>>
    /\ UNCHANGED aio \/ aio' = [aio EXCEPT ![c] = "flight"]
    /\ leaked'.fd = leaked.fd /\ leaked'.buf = leaked.buf

-----------------------------------------------------------------------------
(* Reading requests. *)

\* h is c's struct so far in a callback: the same descriptor and web root, and
\* no less sent of the same response.
Still(c, h) ==
    /\ h \in ConnType /\ h.fd = conn[c].fd /\ h.root = conn[c].root
    /\ conn[c].state # "REQUEST" =>
          h.clen = conn[c].clen /\ h.sent >= conn[c].sent

\* handle_get() takes one reference to the web root it stores, and none when
\* it has to answer with an error.
LEMMA GetEffect ==
    ASSUME Rest, NEW c \in Conns, NEW h, Reading(c, h), Still(c, h),
           conn[c].state = "REQUEST", NEW s, NEW close \in BOOLEAN,
           vhost \in Roots, HandleGet(c, h, close, s)
    PROVE  Effect(c)
<1>1. PICK len \in FileLens :
        \/ /\ Answer(c, GetReply(h, len, close), s)
           /\ ref' = [ref EXCEPT ![vhost] = @ + 1]
           /\ UNCHANGED <<aio, leaked, crashed>>
        \/ /\ Submitted(c, GetReply(h, len, close), s)
           /\ ref' = [ref EXCEPT ![vhost] = @ + 1]
           /\ UNCHANGED <<leaked, crashed>>
        \/ UNCHANGED <<conn, nb, sock, concurrency, aio, ref, leaked>>
        \/ PrepFails(c, h, s)
  BY DEF HandleGet
<1> DEFINE g == GetReply(h, len, close)
<1>2. g \in ConnType /\ Reply(h, TRUE) \in ConnType
  BY GetReplyProps, ReplyProps DEF Reading
<1>3. /\ g.fd = conn[c].fd /\ g.root = vhost
      /\ Reply(h, TRUE).fd = conn[c].fd /\ Reply(h, TRUE).root = conn[c].root
  BY DEF Still, GetReply, Reply, ConnType
<1> HIDE DEF g
<1>4. CASE /\ Answer(c, g, s) /\ ref' = [ref EXCEPT ![vhost] = @ + 1]
           /\ UNCHANGED <<aio, leaked, crashed>>
  BY <1>2, <1>3, <1>4 DEF Effect, GoesOn, Moves, Accounts, Answer
<1>5. CASE /\ Submitted(c, g, s) /\ ref' = [ref EXCEPT ![vhost] = @ + 1]
           /\ UNCHANGED <<leaked, crashed>>
  BY <1>2, <1>3, <1>5 DEF Effect, GoesOn, Moves, Accounts, Submitted
<1>6. CASE UNCHANGED <<conn, nb, sock, concurrency, aio, ref, leaked>>
  BY <1>6 DEF Effect
<1>7. CASE PrepFails(c, h, s)
  <2>1. Answer(c, Reply(h, TRUE), s) /\ UNCHANGED <<aio, ref>>
    BY <1>7 DEF PrepFails
  <2>2. leaked'.fd = leaked.fd /\ leaked'.buf = leaked.buf
    BY <1>7 DEF PrepFails, Rest
  <2> QED BY <1>2, <1>3, <2>1, <2>2 DEF Effect, GoesOn, Moves, Accounts, Answer
<1> QED BY <1>1, <1>4, <1>5, <1>6, <1>7 DEF g

\* handle_request()
LEMMA RequestEffect ==
    ASSUME Rest, NEW c \in Conns, NEW h, Reading(c, h), Still(c, h),
           nb[c] \in NbioType, conn[c].state = "REQUEST", NEW s,
           vhost \in Roots \cup {NoRoot}, HandleRequest(c, h, s)
    PROVE  Effect(c)
<1> DEFINE quiet == UNCHANGED <<aio, ref, leaked, crashed>>
<1>1. PICK i \in 1..Len(h.req) :
        \/ HttpKill(c, h, nb[c]) /\ quiet
        \/ Answer(c, Reply(h, TRUE), s) /\ quiet
        \/ Answer(c, Reply(Consume(h, i), TRUE), s) /\ quiet
        \/ /\ \E close \in ConnClose : Answer(c, Reply(Consume(h, i), close), s)
           /\ quiet
        \/ /\ vhost # NoRoot
           /\ \E close \in ConnClose : HandleGet(c, Consume(h, i), close, s)
  BY DEF HandleRequest
<1>2. Reading(c, Consume(h, i)) /\ Still(c, Consume(h, i))
  <2>1. Asking(Consume(h, i)) /\ Consume(h, i).root = h.root
    BY ConsumeProps DEF Reading
  <2>2. Consume(h, i).fd = h.fd
    BY DEF Still, Consume, ConnType
  <2> QED BY <2>1, <2>2 DEF Reading, Still, Asking
<1>3. ASSUME NEW g, Asking(g), Still(c, g), NEW close \in BOOLEAN,
             Answer(c, Reply(g, close), s), quiet
      PROVE  Effect(c)
  <2>1. Reply(g, close) \in ConnType
    BY <1>3, ReplyProps
  <2>2. Reply(g, close).fd = conn[c].fd /\ Reply(g, close).root = conn[c].root
    BY <1>3 DEF Still, Reply, ConnType
  <2> QED BY <1>3, <2>1, <2>2 DEF Effect, GoesOn, Moves, Accounts, Answer
<1>4. CASE HttpKill(c, h, nb[c]) /\ quiet
  BY <1>4 DEF Effect, Ends, Accounts, Still
<1>5. CASE Answer(c, Reply(h, TRUE), s) /\ quiet
  BY <1>3, <1>5 DEF Reading
<1>6. CASE Answer(c, Reply(Consume(h, i), TRUE), s) /\ quiet
  BY <1>2, <1>3, <1>6 DEF Reading
<1>7. CASE /\ \E close \in ConnClose : Answer(c, Reply(Consume(h, i), close), s)
           /\ quiet
  BY <1>2, <1>3, <1>7, ChoiceAssumption DEF Reading
<1>8. CASE /\ vhost # NoRoot
           /\ \E close \in ConnClose : HandleGet(c, Consume(h, i), close, s)
  BY <1>2, <1>8, ChoiceAssumption, GetEffect
<1> QED BY <1>1, <1>4, <1>5, <1>6, <1>7, <1>8

\* A socket with nothing to say leaves its reader parked and unready, and a
\* full one its writer.
LEMMA BlockedEffect ==
    ASSUME Rest, NEW c \in Conns, NEW h, Still(c, h), NEW which,
           nb[c].mask = {which}, SockEvents(sock[c], {which}) = {},
           Blocked(c, h, which), UNCHANGED <<aio, ref, leaked>>
    PROVE  Effect(c)
<1>1. PICK ok \in CtlResults :
        Carry(c, h, NbioInactive(nb[c], nb[c].mask, FALSE, ok), sock[c])
  BY DEF Blocked
<1>2. Moves(c, NbioInactive(nb[c], nb[c].mask, FALSE, ok), sock[c])
  BY DEF Moves
<1> QED BY <1>1, <1>2 DEF Effect, GoesOn, Accounts, Still

\* A connection that keeps its nbio.
LEMMA StayEffect ==
    ASSUME NEW c \in Conns, NEW h, Still(c, h), NEW s, Carry(c, h, nb[c], s),
           UNCHANGED <<aio, ref, leaked>>
    PROVE  Effect(c)
<1>1. Moves(c, nb[c], s)
  BY DEF Moves
<1> QED BY <1>1 DEF Effect, GoesOn, Accounts, Still

\* A connection that is killed with the web root it had.
LEMMA KillEffect ==
    ASSUME NEW c \in Conns, NEW h, Still(c, h), nb[c] \in NbioType,
           HttpKill(c, h, nb[c]), UNCHANGED <<aio, ref>>,
           leaked'.fd = leaked.fd, leaked'.buf = leaked.buf
    PROVE  Effect(c)
BY DEF Effect, Ends, Accounts, Still

\* http_read() once it has a buffer
LEMMA ReceiveEffect ==
    ASSUME CoreInv, Rest, NEW c \in Conns, NEW h, Reading(c, h), Still(c, h),
           conn[c].state = "REQUEST", vhost \in Roots \cup {NoRoot},
           Receive(c, h)
    PROVE  Effect(c)
<1> DEFINE n == Smaller(ReqCap - Len(h.req), Len(sock[c].rx))
           g == [h EXCEPT !.req = @ \o SubSeq(sock[c].rx, 1, n)]
           t == [sock[c] EXCEPT !.rx = SubSeq(@, n + 1, Len(@))]
           quiet == UNCHANGED <<aio, ref, leaked, crashed>>
<1>1. /\ sock[c] \in SockType /\ h \in ConnType /\ nb[c] \in NbioType
      /\ nb[c].mask = {READ}
  BY DEF CoreInv, Reading, Asking, Nbios
<1>2. ASSUME n > 0
      PROVE  Reading(c, g) /\ Still(c, g)
  <2>1. Reading(c, g)
    BY <1>2, ReceivedReading
  <2>2. g.fd = h.fd /\ g.root = h.root
    BY <1>1 DEF ConnType
  <2> HIDE DEF g
  <2> QED BY <2>1, <2>2 DEF Still, Reading, Asking
<1>3. CASE HttpKill(c, h, nb[c]) /\ quiet
  BY <1>1, <1>3, KillEffect
<1>4. CASE /\ sock[c].rx = <<>> /\ ~sock[c].fin /\ ~sock[c].rst
           /\ Blocked(c, h, READ) /\ quiet
  <2>1. SockEvents(sock[c], {READ}) = {}
    BY <1>4 DEF SockEvents, READ, WRITE
  <2> QED BY <1>1, <1>4, <2>1, BlockedEffect
<1>5. CASE n > 0 /\ Carry(c, g, nb[c], t) /\ quiet
  <2> HIDE DEF n, g, t
  <2> QED BY <1>2, <1>5, StayEffect
<1>6. CASE n > 0 /\ HandleRequest(c, g, t)
  <2> HIDE DEF n, g, t
  <2> QED BY <1>1, <1>2, <1>6, RequestEffect
<1> QED BY <1>3, <1>4, <1>5, <1>6 DEF Receive

\* http_read()
LEMMA ReadEffect ==
    ASSUME IInv, NEW c \in Conns, HttpRead(c)
    PROVE  Active(c) /\ Serving(conn[c]) /\ Effect(c)
<1>1. Active(c) /\ Reading(c, conn[c])
  BY Parts, ReaderReading
<1> DEFINE h == [conn[c] EXCEPT !.has = @ \cup {"req"}]
<1>2. Reading(c, h)
  BY Parts, ReaderReading
<1>3. /\ conn[c] \in ConnType /\ conn[c].state = "REQUEST"
      /\ nb[c] \in NbioType
  BY <1>1, Parts DEF Reading, Asking, CoreInv, Nbios
<1>4. Still(c, h) /\ Still(c, conn[c])
  BY <1>2, <1>3 DEF Still, ConnType
<1>5. CASE Receive(c, h)
  <2> HIDE DEF h
  <2> QED BY <1>1, <1>2, <1>3, <1>4, <1>5, Parts, ReceiveEffect DEF Serving
<1>6. CASE HttpKill(c, conn[c], nb[c]) /\ UNCHANGED <<aio, ref, leaked, crashed>>
  BY <1>1, <1>3, <1>4, <1>6, KillEffect DEF Serving
<1> QED BY <1>5, <1>6 DEF HttpRead

-----------------------------------------------------------------------------
(* Writing responses. *)

\* A full send queue is not ready for writing.
LEMMA FullEffect ==
    ASSUME CoreInv, Rest, NEW c \in Conns, NEW h, Still(c, h),
           nb[c].mask = {WRITE}, WouldBlock(c), Blocked(c, h, WRITE),
           UNCHANGED <<aio, ref, leaked>>
    PROVE  Effect(c)
<1>1. sock[c] \in SockType /\ TxCap \in Nat
  BY SizeAssumption DEF CoreInv
<1>2. sock[c].tx \in Nat /\ TxCap - sock[c].tx = 0 /\ ~sock[c].rst
  BY <1>1 DEF SockType, WouldBlock, Room
<1>3. ~(sock[c].tx < TxCap)
  BY <1>1, <1>2
<1>4. SockEvents(sock[c], {WRITE}) = {}
  BY <1>2, <1>3 DEF SockEvents, READ, WRITE
<1> QED BY <1>4, BlockedEffect

\* http_conn_data_complete() gives the web root back.
LEMMA CompleteEffect ==
    ASSUME NEW c \in Conns, NEW h, Still(c, h), nb[c] \in NbioType, NEW s,
           DataComplete(c, h, s), UNCHANGED <<aio, leaked>>
    PROVE  Effect(c)
<1> DEFINE g == [h EXCEPT !.state = "REQUEST", !.root = NoRoot,
                          !.r = 0, !.w = 0]
           k == NbioSetWait(nb[c], {READ})
<1>1. /\ g \in ConnType /\ g.fd = h.fd /\ g.root = NoRoot
      /\ g.clen = h.clen /\ g.sent = h.sent
  BY DEF Still, ConnType
<1>2. k \in NbioType
  <2>1. {READ} \in SUBSET {READ, WRITE} /\ "inactive" \in Lists
    BY DEF Lists
  <2> QED BY <2>1, SetWaitProps DEF NbioSetWait
<1>3. Accounts(c, g.root)
  BY <1>1 DEF Accounts, DataComplete, Still
<1>4. HttpKill(c, g, k) \/ Carry(c, g, k, s)
  BY DEF DataComplete
<1>5. Moves(c, k, s)
  BY DEF Moves
<1> HIDE DEF g, k
<1> QED BY <1>1, <1>2, <1>3, <1>4, <1>5 DEF Effect, Ends, GoesOn, Still

\* http_write_hdr()
LEMMA WriteHdrEffect ==
    ASSUME CoreInv, Rest, NEW c \in Conns, NEW h, Writing(c, h), Still(c, h),
           WriteHdr(c, h)
    PROVE  Effect(c)
<1>1. h \in ConnType /\ nb[c] \in NbioType /\ nb[c].mask = {WRITE}
  BY DEF Writing, CoreInv, Nbios
<1>2. UNCHANGED <<aio, ref, leaked>>
  BY DEF WriteHdr
<1>3. CASE HttpKill(c, h, nb[c])
  BY <1>1, <1>2, <1>3, KillEffect
<1>4. CASE WouldBlock(c) /\ Blocked(c, h, WRITE)
  BY <1>1, <1>2, <1>4, FullEffect
<1>5. ASSUME NEW n \in Sendable(c, h.res),
             LET part == [h EXCEPT !.res = @ - n]
                 done == [part EXCEPT !.has = @ \ {"res"}]
             IN  \/ Carry(c, part, nb[c], SentOn(c, n))
                 \/ Carry(c, [done EXCEPT !.state = "DATA"], nb[c],
                          SentOn(c, n))
                 \/ HttpKill(c, done, nb[c])
                 \/ Carry(c, [done EXCEPT !.state = "REQUEST"],
                          NbioSetWait(nb[c], {READ}), SentOn(c, n))
      PROVE  Effect(c)
  <2> DEFINE part == [h EXCEPT !.res = @ - n]
             done == [part EXCEPT !.has = @ \ {"res"}]
             data == [done EXCEPT !.state = "DATA"]
             ask == [done EXCEPT !.state = "REQUEST"]
  <2>1. h.res - n \in Nat
    <3>1. h.res \in Int
      BY <1>1 DEF ConnType
    <3>2. n \in Nat /\ n <= h.res
      BY <3>1, SendProps
    <3> QED BY <3>1, <3>2
  <2>2. Still(c, part)
    BY <1>1, <2>1 DEF Still, ConnType
  <2>3. Still(c, done)
    <3> HIDE DEF part
    <3> QED BY <2>2 DEF Still, ConnType
  <2>4. Still(c, data) /\ Still(c, ask)
    <3> HIDE DEF done
    <3> QED BY <2>3 DEF Still, ConnType
  <2> HIDE DEF part, done, data, ask
  <2>5. CASE \/ Carry(c, part, nb[c], SentOn(c, n))
             \/ Carry(c, data, nb[c], SentOn(c, n))
    BY <1>2, <2>2, <2>4, <2>5, StayEffect
  <2>6. CASE HttpKill(c, done, nb[c])
    BY <1>1, <1>2, <2>3, <2>6, KillEffect
  <2>7. CASE Carry(c, ask, NbioSetWait(nb[c], {READ}), SentOn(c, n))
    BY <1>2, <2>4, <2>7 DEF Effect, GoesOn, Moves, Accounts, Still
  <2> QED BY <1>5, <2>5, <2>6, <2>7 DEF part, done, data, ask
<1> QED BY <1>3, <1>4, <1>5 DEF WriteHdr

\* A struct that sent n more of its body.
LEMMA SentMore ==
    ASSUME NEW c \in Conns, conn[c] \in ConnType, NEW h, Still(c, h),
           NEW g \in ConnType, NEW n \in Nat, g.sent = h.sent + n,
           g.fd = h.fd, g.root = h.root, g.clen = h.clen
    PROVE  Still(c, g)
<1>1. h.sent \in Nat /\ conn[c].sent \in Nat
  BY DEF Still, ConnType
<1> QED BY <1>1 DEF Still

\* io_sendfile_write()
LEMMA SendfileEffect ==
    ASSUME CoreInv, Rest, NEW c \in Conns, NEW h, Writing(c, h), Still(c, h),
           SendfileWrite(c, h)
    PROVE  Effect(c)
<1>1. /\ h \in ConnType /\ nb[c] \in NbioType /\ nb[c].mask = {WRITE}
      /\ conn[c] \in ConnType
  BY DEF Writing, CoreInv, Nbios
<1>2. UNCHANGED <<aio, leaked>>
  BY DEF SendfileWrite
<1>3. CASE HttpKill(c, h, nb[c]) /\ UNCHANGED ref
  BY <1>1, <1>2, <1>3, KillEffect
<1>4. CASE WouldBlock(c) /\ Blocked(c, h, WRITE) /\ UNCHANGED ref
  BY <1>1, <1>2, <1>4, FullEffect
<1>5. ASSUME NEW n \in Sendable(c, SendfileChunk(h)),
             LET g == [h EXCEPT !.dlen = @ - n, !.sent = @ + n]
             IN  IF g.dlen = 0
                 THEN DataComplete(c, g, SentOn(c, n))
                 ELSE Carry(c, g, nb[c], SentOn(c, n)) /\ UNCHANGED ref
      PROVE  Effect(c)
  <2> DEFINE g == [h EXCEPT !.dlen = @ - n, !.sent = @ + n]
  <2>1. h.dlen \in Nat /\ h.sent \in Nat /\ Chunk \in Nat
    BY <1>1, SizeAssumption DEF ConnType
  <2>2. SendfileChunk(h) \in Int /\ SendfileChunk(h) <= h.dlen
    BY <2>1 DEF SendfileChunk, Smaller
  <2>3. n \in Nat /\ n <= SendfileChunk(h)
    BY <2>2, SendProps
  <2>4. h.dlen - n \in Nat /\ h.sent + n \in Nat
    BY <2>1, <2>2, <2>3
  <2>5. /\ g \in ConnType /\ g.sent = h.sent + n /\ g.fd = h.fd
        /\ g.root = h.root /\ g.clen = h.clen
    BY <1>1, <2>4 DEF ConnType
  <2> HIDE DEF g
  <2>6. Still(c, g)
    BY <1>1, <2>3, <2>5, SentMore
  <2>7. CASE DataComplete(c, g, SentOn(c, n))
    BY <1>1, <1>2, <2>6, <2>7, CompleteEffect
  <2>8. CASE Carry(c, g, nb[c], SentOn(c, n)) /\ UNCHANGED ref
    BY <1>2, <2>6, <2>8, StayEffect
  <2> QED BY <1>5, <2>7, <2>8 DEF g
<1> QED BY <1>2, <1>3, <1>4, <1>5 DEF SendfileWrite

\* The send of io_sync_write()
LEMMA SyncSendEffect ==
    ASSUME CoreInv, Rest, NEW c \in Conns, NEW h, Writing(c, h), Still(c, h),
           SyncSend(c, h), UNCHANGED <<aio, leaked>>
    PROVE  Effect(c)
<1>1. /\ h \in ConnType /\ nb[c] \in NbioType /\ nb[c].mask = {WRITE}
      /\ conn[c] \in ConnType
  BY DEF Writing, CoreInv, Nbios
<1>2. CASE HttpKill(c, h, nb[c]) /\ UNCHANGED ref
  BY <1>1, <1>2, KillEffect
<1>3. CASE WouldBlock(c) /\ Blocked(c, h, WRITE) /\ UNCHANGED ref
  BY <1>1, <1>3, FullEffect
<1>4. ASSUME NEW n \in Sendable(c, h.w - h.r),
             LET g == [h EXCEPT !.r = @ + n, !.sent = @ + n]
             IN  \/ DataComplete(c, [g EXCEPT !.has = @ \ {"data"}],
                                 SentOn(c, n))
                 \/ /\ \/ Carry(c, BufReset(g), nb[c], SentOn(c, n))
                       \/ Carry(c, g, nb[c], SentOn(c, n))
                    /\ UNCHANGED ref
      PROVE  Effect(c)
  <2> DEFINE g == [h EXCEPT !.r = @ + n, !.sent = @ + n]
             f == [g EXCEPT !.has = @ \ {"data"}]
  <2>1. /\ h.r \in Nat /\ h.w \in Nat /\ h.sent \in Nat
    BY <1>1 DEF ConnType
  <2>2. n \in Nat /\ n <= h.w - h.r
    <3>1. h.w - h.r \in Int
      BY <2>1
    <3> QED BY <3>1, SendProps
  <2>3. h.r + n \in Nat /\ h.sent + n \in Nat /\ h.r + n <= h.w
    BY <2>1, <2>2
  <2>4. /\ g \in ConnType /\ g.sent = h.sent + n /\ g.fd = h.fd
        /\ g.root = h.root /\ g.clen = h.clen /\ g.r = h.r + n /\ g.w = h.w
    BY <1>1, <2>3 DEF ConnType
  <2>5. Still(c, g)
    <3> HIDE DEF g
    <3> QED BY <1>1, <2>2, <2>4, SentMore
  <2>6. Still(c, f)
    <3> HIDE DEF g
    <3> QED BY <2>5 DEF Still, ConnType
  <2>7. Still(c, BufReset(g))
    <3> HIDE DEF g
    <3>1. g.r <= g.w
      BY <2>3, <2>4
    <3>2. BufReset(g) \in ConnType /\ BufReset(g).root = g.root
      BY <2>4, <3>1, BufResetProps DEF BufReset, ConnType
    <3> QED BY <2>4, <2>5, <3>1, <3>2, BufResetProps DEF Still
  <2> HIDE DEF f, g
  <2>8. CASE DataComplete(c, f, SentOn(c, n))
    BY <1>1, <2>6, <2>8, CompleteEffect
  <2>9. CASE /\ \/ Carry(c, BufReset(g), nb[c], SentOn(c, n))
                \/ Carry(c, g, nb[c], SentOn(c, n))
             /\ UNCHANGED ref
    BY <2>5, <2>7, <2>9, StayEffect
  <2> QED BY <1>4, <2>8, <2>9 DEF f, g
<1> QED BY <1>2, <1>3, <1>4 DEF SyncSend

\* io_sync_write()
LEMMA SyncEffect ==
    ASSUME CoreInv, Rest, NEW c \in Conns, NEW h, Writing(c, h), Still(c, h),
           h.state = "DATA", Fio = "sync", SyncWrite(c, h)
    PROVE  Effect(c)
<1> DEFINE n == Smaller(DataCap - h.w, h.dlen)
           g == [h EXCEPT !.w = @ + n, !.dlen = @ - n]
<1>1. UNCHANGED <<aio, leaked>> /\ nb[c] \in NbioType
  BY DEF SyncWrite, CoreInv, Nbios
<1>2. CASE SyncSend(c, h)
  BY <1>1, <1>2, SyncSendEffect
<1>3. CASE HttpKill(c, h, nb[c]) /\ UNCHANGED ref
  BY <1>1, <1>3, KillEffect
<1>4. CASE n > 0 /\ SyncSend(c, g)
  <2>1. Writing(c, g) /\ g.root = h.root /\ g.fd = h.fd /\ g.sent = h.sent
        /\ g.clen = h.clen
    <3>1. Writing(c, g)
      BY <1>4, ToppedUp
    <3> QED BY <3>1 DEF Still, ConnType
  <2> HIDE DEF g
  <2>2. Still(c, g)
    BY <2>1 DEF Still, Writing
  <2> QED BY <1>1, <1>4, <2>1, <2>2, SyncSendEffect
<1> QED BY <1>1, <1>2, <1>3, <1>4 DEF SyncWrite

\* io_async_write()
LEMMA AsyncEffect ==
    ASSUME CoreInv, Rest, NEW c \in Conns, NEW h, Writing(c, h), Still(c, h),
           h.state = "DATA", Fio = "async", AsyncWrite(c, h)
    PROVE  Effect(c)
<1>1. /\ h \in ConnType /\ nb[c] \in NbioType /\ nb[c].mask = {WRITE}
      /\ conn[c] \in ConnType
  BY DEF Writing, CoreInv, Nbios
<1>2. CASE HttpKill(c, h, nb[c]) /\ UNCHANGED <<aio, ref, leaked>>
  BY <1>1, <1>2, KillEffect
<1>3. CASE WouldBlock(c) /\ Blocked(c, h, WRITE) /\ UNCHANGED <<aio, ref, leaked>>
  BY <1>1, <1>3, FullEffect
<1>4. ASSUME NEW n \in Sendable(c, h.w - h.r),
             LET g == [h EXCEPT !.r = @ + n, !.sent = @ + n, !.dlen = @ - n]
             IN  \/ /\ Carry(c, g, nb[c], SentOn(c, n))
                    /\ UNCHANGED <<aio, ref, leaked>>
                 \/ /\ g.r = g.w /\ Submitted(c, BufReset(g), SentOn(c, n))
                    /\ UNCHANGED <<ref, leaked>>
                 \/ /\ \E lost \in {0, 1} :
                          leaked' = [leaked EXCEPT !.iocb = @ + lost]
                    /\ HttpKill(c, g, nb[c]) /\ UNCHANGED <<aio, ref>>
                 \/ /\ DataComplete(c, [g EXCEPT !.has = @ \ {"data"}],
                                    SentOn(c, n))
                    /\ UNCHANGED <<aio, leaked>>
      PROVE  Effect(c)
  <2> DEFINE g == [h EXCEPT !.r = @ + n, !.sent = @ + n, !.dlen = @ - n]
             f == [g EXCEPT !.has = @ \ {"data"}]
  <2>1. /\ h.r \in Nat /\ h.w \in Nat /\ h.sent \in Nat /\ h.dlen \in Nat
        /\ h.w - h.r <= h.dlen
    BY <1>1 DEF ConnType, Writing, BodyOK
  <2>2. n \in Nat /\ n <= h.w - h.r
    <3>1. h.w - h.r \in Int
      BY <2>1
    <3> QED BY <3>1, SendProps
  <2>3. h.r + n \in Nat /\ h.sent + n \in Nat /\ h.dlen - n \in Nat
    BY <2>1, <2>2
  <2>4. /\ g \in ConnType /\ g.sent = h.sent + n /\ g.fd = h.fd
        /\ g.root = h.root /\ g.clen = h.clen
    BY <1>1, <2>3 DEF ConnType
  <2>5. Still(c, g)
    <3> HIDE DEF g
    <3> QED BY <1>1, <2>2, <2>4, SentMore
  <2>6. Still(c, f)
    <3> HIDE DEF g
    <3> QED BY <2>5 DEF Still, ConnType
  <2> HIDE DEF f, g
  <2>7. CASE /\ Carry(c, g, nb[c], SentOn(c, n))
             /\ UNCHANGED <<aio, ref, leaked>>
    BY <2>5, <2>7, StayEffect
  <2>8. CASE /\ g.r = g.w /\ Submitted(c, BufReset(g), SentOn(c, n))
             /\ UNCHANGED <<ref, leaked>>
    <3>1. g.r <= g.w
      BY <2>4, <2>8 DEF ConnType
    <3>2. BufReset(g) \in ConnType /\ BufReset(g).root = g.root
      BY <2>4, <3>1, BufResetProps DEF BufReset, ConnType
    <3>3. Still(c, BufReset(g))
      BY <2>4, <2>5, <3>1, <3>2, BufResetProps DEF Still
    <3> QED BY <2>8, <3>3 DEF Effect, GoesOn, Moves, Accounts, Still, Submitted
  <2>9. CASE /\ \E lost \in {0, 1} : leaked' = [leaked EXCEPT !.iocb = @ + lost]
             /\ HttpKill(c, g, nb[c]) /\ UNCHANGED <<aio, ref>>
    <3>1. leaked'.fd = leaked.fd /\ leaked'.buf = leaked.buf
      BY <2>9 DEF Rest
    <3> QED BY <1>1, <2>5, <2>9, <3>1, KillEffect
  <2>10. CASE DataComplete(c, f, SentOn(c, n)) /\ UNCHANGED <<aio, leaked>>
    BY <1>1, <2>6, <2>10, CompleteEffect
  <2> QED BY <1>4, <2>7, <2>8, <2>9, <2>10 DEF f, g
<1> QED BY <1>2, <1>3, <1>4 DEF AsyncWrite

\* http_write(), under each file I/O model
LEMMA WriteEffect ==
    ASSUME IInv, NEW c \in Conns, HttpWrite(c)
    PROVE  Active(c) /\ Serving(conn[c]) /\ Effect(c)
<1>1. CoreInv /\ Rest
  BY Parts
<1>2. Active(c) /\ WRITE \in Due(nb[c])
  BY DEF HttpWrite, DueWrite
<1>3. Midway(c, conn[c]) /\ nb[c].mask = {WRITE}
  BY <1>1, <1>2, ActiveServed DEF Due, READ, WRITE
<1>4. Writing(c, conn[c]) /\ Serving(conn[c])
  BY <1>3 DEF Midway, Writing, ConnOK, WaitOK, Serving, READ, WRITE
<1>5. Still(c, conn[c])
  BY <1>4 DEF Writing, Still, ConnType
<1>6. CASE WriteHdr(c, conn[c])
  BY <1>1, <1>2, <1>4, <1>5, <1>6, WriteHdrEffect
<1>7. CASE SendfileWrite(c, conn[c])
  BY <1>1, <1>2, <1>4, <1>5, <1>7, SendfileEffect
<1>8. CASE conn[c].state = "DATA" /\ Fio = "sync" /\ SyncWrite(c, conn[c])
  BY <1>1, <1>2, <1>4, <1>5, <1>8, SyncEffect
<1>9. CASE conn[c].state = "DATA" /\ Fio = "async" /\ AsyncWrite(c, conn[c])
  BY <1>1, <1>2, <1>4, <1>5, <1>9, AsyncEffect
<1> QED BY <1>6, <1>7, <1>8, <1>9 DEF HttpWrite

-----------------------------------------------------------------------------
(* The server implements HttpService: its peers see connections that are      *)
(* closed, wait for a request, or respond to one with the length of body they *)
(* announced.                                                                 *)

\* A connection that is not served owes nothing.
ClosedOK(h) == ~Serving(h) => h.clen = 0 /\ h.sent = 0

ClosedInv == \A c \in Conns : ClosedOK(conn[c])

Owed(h) == h.clen - h.sent

\* What is owed is a length, and zero outside a response.
LEMMA OwedProps ==
    ASSUME NEW h \in ConnType, BodyOK(h), ClosedOK(h)
    PROVE  /\ Owed(h) \in Nat
           /\ PhaseOf(h) \in {"closed", "request", "respond"}
           /\ PhaseOf(h) # "respond" => Owed(h) = 0
<1>1. /\ h.clen \in Nat /\ h.sent \in Nat /\ h.dlen \in Nat
      /\ h.r \in Nat /\ h.w \in Nat
      /\ h.state \in {"FREE", "REQUEST", "HEADER", "DATA", "DEAD"}
  BY DEF ConnType
<1>2. CASE h.state \in {"HEADER", "DATA"}
  <2>1. PhaseOf(h) = "respond"
    BY <1>2 DEF PhaseOf
  <2>2. h.sent <= h.clen
    BY <1>1, <1>2 DEF BodyOK
  <2> QED BY <1>1, <2>1, <2>2 DEF Owed
<1>3. CASE h.state = "REQUEST"
  <2>1. PhaseOf(h) = "request"
    BY <1>3 DEF PhaseOf
  <2>2. h.sent = h.clen
    BY <1>3 DEF BodyOK
  <2> QED BY <1>1, <2>1, <2>2 DEF Owed
<1>4. CASE h.state \in {"FREE", "DEAD"}
  <2>1. PhaseOf(h) = "closed" /\ ~Serving(h)
    BY <1>4 DEF PhaseOf, Serving
  <2>2. h.sent = 0 /\ h.clen = 0
    BY <2>1 DEF ClosedOK
  <2> QED BY <2>1, <2>2 DEF Owed
<1> QED BY <1>1, <1>2, <1>3, <1>4

\* A connection does not go from closed to responding, and owes no more of a
\* response it has begun.
Proceeds(h, g) ==
    /\ PhaseOf(h) = "closed" => PhaseOf(g) # "respond"
    /\ PhaseOf(h) = "respond" /\ PhaseOf(g) = "respond" => Owed(g) <= Owed(h)

\* A step of one connection is a step of the service, or shows to nobody.
LEMMA ServiceStep ==
    ASSUME IInv, ClosedInv, IInv', ClosedInv', NEW c \in Conns,
           Proceeds(conn[c], conn'[c]),
           \A d \in Conns \ {c} : conn'[d] = conn[d]
    PROVE  [Service!SNext]_(Service!svars)
<1> DEFINE P == [d \in Conns |-> PhaseOf(conn[d])]
           O == [d \in Conns |-> conn[d].clen - conn[d].sent]
<1>1. /\ P' = [P EXCEPT ![c] = PhaseOf(conn'[c])]
      /\ O' = [O EXCEPT ![c] = Owed(conn'[c])]
      /\ P[c] = PhaseOf(conn[c]) /\ O[c] = Owed(conn[c])
      /\ P'[c] = PhaseOf(conn'[c]) /\ O'[c] = Owed(conn'[c])
  BY DEF Owed, PhaseOf
<1>2. /\ O[c] \in Nat /\ P[c] \in {"closed", "request", "respond"}
      /\ P[c] # "respond" => O[c] = 0
  <2>1. conn[c] \in ConnType /\ BodyOK(conn[c]) /\ ClosedOK(conn[c])
    BY DEF IInv, TypeOK, ConnInv, ConnOK, ClosedInv
  <2> QED BY <1>1, <2>1, OwedProps
<1>3. /\ O'[c] \in Nat /\ P'[c] \in {"closed", "request", "respond"}
      /\ P'[c] # "respond" => O'[c] = 0
  <2>1. conn'[c] \in ConnType /\ BodyOK(conn'[c]) /\ ClosedOK(conn'[c])
    BY DEF IInv, TypeOK, ConnInv, ConnOK, ClosedInv
  <2>2. /\ Owed(conn'[c]) \in Nat
        /\ PhaseOf(conn'[c]) \in {"closed", "request", "respond"}
        /\ PhaseOf(conn'[c]) # "respond" => Owed(conn'[c]) = 0
    BY <2>1, OwedProps
  <2> QED BY <1>1, <2>2
<1>4. /\ P[c] = "closed" => P'[c] # "respond"
      /\ P[c] = "respond" /\ P'[c] = "respond" => O'[c] <= O[c]
  BY <1>1 DEF Proceeds
<1>5. P = [d \in Conns |-> P[d]] /\ O = [d \in Conns |-> O[d]]
  OBVIOUS
<1> HIDE DEF P, O
<1>6. CASE P'[c] = P[c] /\ O'[c] = O[c]
  <2>1. P' = P /\ O' = O
    BY <1>1, <1>5, <1>6
  <2> QED BY <2>1 DEF Service!svars, P, O
<1>7. CASE P[c] = "closed" /\ P'[c] = "request"
  <2>1. P[c] = "closed" /\ P' = [P EXCEPT ![c] = "request"] /\ O' = O
    BY <1>1, <1>2, <1>3, <1>5, <1>7
  <2>2. Service!Open(c)
    BY <2>1 DEF Service!Open, P, O
  <2> QED BY <2>2 DEF Service!SNext
<1>8. CASE P[c] = "request" /\ P'[c] = "respond"
  <2>1. /\ P[c] = "request" /\ P' = [P EXCEPT ![c] = "respond"]
        /\ O'[c] \in Nat /\ O' = [O EXCEPT ![c] = O'[c]]
    BY <1>1, <1>3, <1>8
  <2>2. Service!Respond(c)
    BY <2>1 DEF Service!Respond, P, O
  <2> QED BY <2>2 DEF Service!SNext
<1>9. CASE P[c] = "respond" /\ P'[c] \in {"request", "respond"} /\ O'[c] < O[c]
  <2>1. O[c] > 0
    BY <1>2, <1>3, <1>9
  <2>2. O' = [O EXCEPT ![c] = O'[c]]
    BY <1>1
  <2>3. \/ P' = P
        \/ O'[c] = 0 /\ P' = [P EXCEPT ![c] = "request"]
    <3>1. CASE P'[c] = "respond"
      BY <1>1, <1>5, <1>9, <3>1
    <3>2. CASE P'[c] = "request"
      BY <1>1, <1>3, <3>2
    <3> QED BY <1>9, <3>1, <3>2
  <2>4. Service!SendBody(c)
    BY <1>3, <1>9, <2>1, <2>2, <2>3 DEF Service!SendBody, P, O
  <2> QED BY <2>4 DEF Service!SNext
<1>10. CASE P[c] = "respond" /\ P'[c] = "request" /\ O[c] = 0
  <2>1. /\ P[c] = "respond" /\ O[c] = 0
        /\ P' = [P EXCEPT ![c] = "request"] /\ O' = O
    BY <1>1, <1>3, <1>5, <1>10
  <2>2. Service!EndHeader(c)
    BY <2>1 DEF Service!EndHeader, P, O
  <2> QED BY <2>2 DEF Service!SNext
<1>11. CASE P[c] # "closed" /\ P'[c] = "closed"
  <2>1. /\ P[c] # "closed" /\ P' = [P EXCEPT ![c] = "closed"]
        /\ O' = [O EXCEPT ![c] = 0]
    BY <1>1, <1>3, <1>11
  <2>2. Service!Close(c)
    BY <2>1 DEF Service!Close, P, O
  <2> QED BY <2>2 DEF Service!SNext
<1>12. P[c] = "respond" /\ P'[c] = "request" => O[c] = 0 \/ O'[c] < O[c]
  BY <1>2, <1>3
<1>13. P[c] = "respond" /\ P'[c] = "respond" => O'[c] = O[c] \/ O'[c] < O[c]
  BY <1>2, <1>3, <1>4
<1> QED BY <1>2, <1>3, <1>4, <1>6, <1>7, <1>8, <1>9, <1>10, <1>11, <1>12, <1>13

-----------------------------------------------------------------------------
(* The steps of the server. *)

\* A step that concerns one connection, c.
Advances(c) ==
    \E g : /\ conn' = [conn EXCEPT ![c] = g]
           /\ ClosedOK(g) /\ Proceeds(conn[c], g)

\* Whatever was under way, a connection may be killed.
LEMMA KillAdvances ==
    ASSUME NEW c \in Conns, NEW h, NEW k, HttpKill(c, h, k)
    PROVE  Advances(c)
<1>1. DeadConn(h).state = "DEAD" /\ DeadConn(h).clen = 0 /\ DeadConn(h).sent = 0
  BY DEF DeadConn, NoConn
<1>2. PhaseOf(DeadConn(h)) = "closed" /\ ClosedOK(DeadConn(h))
  BY <1>1 DEF PhaseOf, ClosedOK
<1> QED BY <1>2 DEF HttpKill, Advances, Proceeds

\* A served connection that goes on owes no more than it did.
LEMMA CallbackAdvances ==
    ASSUME IInv, NEW c \in Conns, Serving(conn[c]), Effect(c), IInv'
    PROVE  UNCHANGED conn \/ Advances(c)
<1>1. CASE Ends(c)
  BY <1>1, KillAdvances DEF Ends
<1>2. ASSUME NEW h \in ConnType, conn' = [conn EXCEPT ![c] = h],
             h.fd = conn[c].fd,
             conn[c].state # "REQUEST" =>
                h.clen = conn[c].clen /\ h.sent >= conn[c].sent
      PROVE  Advances(c)
  <2>1. conn \in [Conns -> ConnType] /\ conn[c] \in ConnType /\ conn'[c] = h
    BY <1>2 DEF IInv, TypeOK
  <2>2. Serving(h)
    BY <1>2, <2>1 DEF IInv, ConnInv, ConnOK, HoldsOK
  <2>3. ClosedOK(h)
    BY <2>2 DEF ClosedOK
  <2>4. PhaseOf(conn[c]) # "closed"
    BY DEF PhaseOf, Serving
  <2>5. ASSUME PhaseOf(conn[c]) = "respond"
        PROVE  Owed(h) <= Owed(conn[c])
    <3>1. conn[c].state # "REQUEST"
      BY <2>5 DEF PhaseOf
    <3>2. /\ conn[c].clen \in Nat /\ conn[c].sent \in Nat /\ h.sent \in Nat
      BY <2>1 DEF ConnType
    <3> QED BY <1>2, <3>1, <3>2 DEF Owed
  <2> QED BY <1>2, <2>3, <2>4, <2>5 DEF Advances, Proceeds
<1>3. CASE GoesOn(c)
  BY <1>2, <1>3 DEF GoesOn, Carry
<1> QED BY <1>1, <1>3 DEF Effect

\* http_dtor() closes a connection, and accepting one opens it.
LEMMA EndsAdvance ==
    ASSUME NEW c \in Conns,
           \/ HttpDtor(c)
           \/ conn[c].state = "FREE" /\ \E l \in Listeners : Accepted(l, c)
    PROVE  Advances(c)
<1>1. CASE HttpDtor(c)
  <2>1. PhaseOf(NoConn) = "closed" /\ ClosedOK(NoConn)
    BY DEF PhaseOf, NoConn, ClosedOK
  <2> QED BY <1>1, <2>1 DEF HttpDtor, Advances, Proceeds
<1>2. CASE conn[c].state = "FREE" /\ \E l \in Listeners : Accepted(l, c)
  <2> DEFINE g == [NoConn EXCEPT !.state = "REQUEST", !.fd = TRUE]
  <2>1. g.state = "REQUEST" /\ conn' = [conn EXCEPT ![c] = g]
    BY <1>2 DEF NoConn, Accepted
  <2> HIDE DEF g
  <2>2. PhaseOf(g) = "request" /\ ClosedOK(g)
    BY <2>1 DEF PhaseOf, ClosedOK, Serving
  <2> QED BY <2>1, <2>2 DEF Advances, Proceeds
<1> QED BY <1>1, <1>2

\* handle_completion() only fills the data buffer.
LEMMA CompletionAdvances ==
    ASSUME IInv, IInv', NEW c \in Conns, HandleCompletion(c)
    PROVE  Advances(c)
<1>1. CASE HttpKill(c, conn[c], nb[c])
  BY <1>1, KillAdvances
<1>2. ASSUME NEW n, Carry(c, [conn[c] EXCEPT !.w = @ + n],
                          NbioWake(nb[c], {WRITE}), sock[c])
      PROVE  Advances(c)
  <2> DEFINE g == [conn[c] EXCEPT !.w = @ + n]
  <2>1. conn[c] \in ConnType /\ aio[c] # "none"
    BY DEF IInv, TypeOK, HandleCompletion, VisitInv
  <2>2. conn[c].state \in {"HEADER", "DATA"}
    BY <2>1 DEF IInv, ConnInv, ConnOK, WaitOK
  <2>3. /\ g.state = conn[c].state /\ g.clen = conn[c].clen
        /\ g.sent = conn[c].sent /\ conn' = [conn EXCEPT ![c] = g]
    BY <1>2, <2>1 DEF ConnType, Carry
  <2> HIDE DEF g
  <2>4. PhaseOf(conn[c]) = "respond" /\ ClosedOK(g)
    BY <2>2, <2>3 DEF PhaseOf, ClosedOK, Serving
  <2>5. Owed(g) <= Owed(conn[c])
    <3>1. conn[c].clen \in Nat /\ conn[c].sent \in Nat
      BY <2>1 DEF ConnType
    <3> QED BY <2>3, <3>1 DEF Owed
  <2> QED BY <2>3, <2>4, <2>5 DEF Advances, Proceeds
<1> QED BY <1>1, <1>2 DEF HandleCompletion

\* A step changes the struct of one connection at most.
LEMMA NextAdvances ==
    ASSUME IInv, IInv', [Next]_vars
    PROVE  UNCHANGED conn \/ \E c \in Conns : Advances(c)
<1>1. ASSUME NEW c \in Conns, ConnStep(c)
      PROVE  UNCHANGED conn \/ Advances(c)
  <2>1. CASE HttpRead(c)
    BY <2>1, ReadEffect, CallbackAdvances
  <2>2. CASE HttpWrite(c)
    BY <2>2, WriteEffect, CallbackAdvances
  <2>3. CASE Sweep(c)
    BY <2>3 DEF Sweep
  <2>4. CASE HttpDtor(c)
    BY <2>4, EndsAdvance
  <2> QED BY <1>1, <2>1, <2>2, <2>3, <2>4 DEF ConnStep
<1>2. ASSUME NEW l \in Listeners, ListenerRead(l)
      PROVE  UNCHANGED conn \/ \E c \in Conns : Advances(c)
  <2>1. UNCHANGED conn \/ \E c \in FreeSlots : Accepted(l, c)
    BY <1>2 DEF ListenerRead
  <2> QED BY <2>1, EndsAdvance DEF FreeSlots
<1>3. CASE AioStep
  BY <1>3, CompletionAdvances DEF AioStep, EfdRead, AioEvent
<1>4. CASE EpollWait \/ Admin
  BY <1>4 DEF EpollWait, Admin, VhostAdd, VhostDel
<1>5. CASE Peer
  BY <1>5 DEF Peer, PeerConnect, PeerSend, PeerFin, PeerReset, PeerDrain,
              PeerStep, AioDone
<1>6. CASE UNCHANGED vars
  BY <1>6 DEF vars
<1> QED BY <1>1, <1>2, <1>3, <1>4, <1>5, <1>6 DEF Next, Server

\* Every step keeps closed connections from owing anything, and is a step of
\* the service.
LEMMA NextService ==
    ASSUME IInv, ClosedInv, IInv', [Next]_vars
    PROVE  ClosedInv' /\ [Service!SNext]_(Service!svars)
<1>1. CASE UNCHANGED conn
  <2>1. ClosedInv'
    BY <1>1 DEF ClosedInv
  <2>2. UNCHANGED Service!svars
    BY <1>1 DEF Service!svars
  <2> QED BY <2>1, <2>2
<1>2. ASSUME NEW c \in Conns, Advances(c)
      PROVE  ClosedInv' /\ [Service!SNext]_(Service!svars)
  <2>1. PICK g : /\ conn' = [conn EXCEPT ![c] = g]
                 /\ ClosedOK(g) /\ Proceeds(conn[c], g)
    BY <1>2 DEF Advances
  <2>2. conn'[c] = g /\ \A d \in Conns \ {c} : conn'[d] = conn[d]
    BY <2>1 DEF IInv, TypeOK
  <2>3. ClosedInv'
    BY <2>1, <2>2 DEF ClosedInv
  <2> QED BY <2>1, <2>2, <2>3, ServiceStep
<1> QED BY <1>1, <1>2, NextAdvances

\* main() starts with every connection closed.
LEMMA InitService == Init => ClosedInv /\ Service!SInit
<1> SUFFICES ASSUME Init PROVE ClosedInv /\ Service!SInit
  OBVIOUS
<1>1. \A c \in Conns : conn[c] = NoConn
  BY DEF Init
<1>2. NoConn.clen = 0 /\ NoConn.sent = 0 /\ PhaseOf(NoConn) = "closed"
  BY DEF NoConn, PhaseOf
<1>3. [c \in Conns |-> PhaseOf(conn[c])] = [c \in Conns |-> "closed"]
  BY <1>1, <1>2
<1>4. [c \in Conns |-> conn[c].clen - conn[c].sent] = [c \in Conns |-> 0]
  BY <1>1, <1>2
<1>5. ClosedInv
  BY <1>1, <1>2 DEF ClosedInv, ClosedOK
<1> QED BY <1>3, <1>4, <1>5 DEF Service!SInit

\* http_conn.c, its event loop and its file I/O models implement HttpService:
\* a connection turns to its next request only when the body length it
\* announced has gone out, and leaves a response early only by closing.
THEOREM ServerImplementsService == Spec => ImplementsService
<1> DEFINE SInv == IInv /\ ClosedInv
<1>1. Init => SInv /\ Service!SInit
  BY InitIInv, InitService
<1>2. SInv /\ [Next]_vars => SInv' /\ [Service!SNext]_(Service!svars)
  BY NextIInv, NextService
<1> QED BY <1>1, <1>2, PTL DEF Spec, ImplementsService, Service!SSpec

=============================================================================
