--------------------------- MODULE HttpConnShared ---------------------------
(***************************************************************************)
(* What the connections share: the event loop, the lists of the I/O models, *)
(* and the things the server counts.                                        *)
(*                                                                         *)
(* Wake-ups: the event loop loses none, never spins, and takes no nbio off   *)
(* its active list but the one it visits; and no completed read is left     *)
(* uncollected.  The argument: an nbio that is in use is registered exactly *)
(* when its poll bit says so, and for exactly what it waits for.  Every     *)
(* action that makes a descriptor ready queues the event of an armed        *)
(* registration, and the loop parks an nbio only on a descriptor that it    *)
(* has found unready.                                                       *)
(*                                                                         *)
(* Counts: the references to each web root, the connections, the            *)
(* descriptors that are left.  The argument: a step changes the web root or *)
(* the descriptor of at most one connection, and adjusts the count by what  *)
(* that adds to, or takes from, the set that is counted.  Only http_kill()  *)
(* lowers the number of descriptors in use, and it wakes every listener     *)
(* that waits for one.                                                      *)
(***************************************************************************)
EXTENDS HttpConnProofs

\* The registration of an nbio k in use, and why it is on its list.
Registered(k) ==
    /\ k.list \in {"none", "oomq"} => k.item = "none"
    /\ k.list \in {"active", "inactive"} =>
          /\ k.mask \subseteq {READ, WRITE}
          /\ k.poll = FALSE <=> k.item = "none"
          /\ k.item # "none" => k.want = k.mask
    /\ k.list = "active" => Due(k) # {} \/ ERROR \in k.flags
    /\ k.list = "inactive" /\ k.mask # {} /\ "epoll" \notin Fails => k.poll

\* The kernel has the event of a parked nbio whose descriptor is ready.
Heard(n) ==
    nb[n].list = "inactive" /\ nb[n].item # "none" /\ Events(n, nb[n].want) # {}
    => nb[n].item = "queued"

\* The listeners and the eventfd are never deleted.
OwnOK ==
    \A n \in Nbios \ Conns :
        nb[n].list # "deleted" /\ (visit = <<n, "read">> => Active(n))

WakeInv == (\A n \in Nbios : Registered(nb[n]) /\ Heard(n)) /\ OwnOK

-----------------------------------------------------------------------------
(* The operations on an nbio. *)

\* do_set_wait() takes the nbio's descriptor out of the epoll set.
LEMMA SetWaitRegistered ==
    ASSUME NEW n \in NbioType, n.item # "none" => n.poll,
           NEW w \in SUBSET {READ, WRITE}, NEW q \in {"inactive", "oomq"}
    PROVE  LET k == DoSetWait(n, w, q)
           IN  /\ Registered(k) /\ k.item = "none"
               /\ k.list = IF w = {} THEN q ELSE "active"
<1> DEFINE e == [n EXCEPT !.mask = w, !.flags = w]
           k == DoSetWait(n, w, q)
<1>1. k = [EpollActive(e, TRUE) EXCEPT
              !.list = IF w = {} THEN q ELSE "active"]
  BY DEF DoSetWait
<1>2. /\ e.mask = w /\ e.flags = w /\ e.poll = n.poll /\ e.item = n.item
      /\ e \in NbioType
  BY DEF NbioType
<1> HIDE DEF e
<1>3. /\ EpollActive(e, TRUE) \in NbioType /\ EpollActive(e, TRUE).mask = w
      /\ EpollActive(e, TRUE).flags = w /\ EpollActive(e, TRUE).item = "none"
      /\ ~EpollActive(e, TRUE).poll
  BY <1>2 DEF EpollActive, NbioType, Items
<1>4. /\ k.mask = w /\ k.flags = w /\ k.item = "none" /\ ~k.poll
      /\ k.list = IF w = {} THEN q ELSE "active"
  BY <1>1, <1>3 DEF NbioType
<1> HIDE DEF k
<1>5. Registered(k)
  BY <1>4 DEF Registered, Due
<1> QED BY <1>4, <1>5 DEF k

\* nbio_inactive() parks an nbio registered for what it waits for, unless
\* epoll_ctl() fails, and keeps it active only with a callback due.
LEMMA InactiveRegistered ==
    ASSUME NEW n \in NbioType, Registered(n), n.list = "active",
           NEW which \in SUBSET {READ, WRITE}, NEW ok \in CtlResults,
           NEW k, k = NbioInactive(n, which, FALSE, ok)
    PROVE  Registered(k) /\ k.mask = n.mask /\ k.list \in {"active", "inactive"}
<1> DEFINE e == [n EXCEPT !.flags = @ \ which]
           f == [e EXCEPT !.list = "inactive"]
<1>1. /\ e \in NbioType /\ e.flags = n.flags \ which /\ e.mask = n.mask
      /\ e.list = "active" /\ e.item = n.item /\ e.poll = n.poll
      /\ e.want = n.want
  BY DEF NbioType
<1>2. k = IF e.mask \cap e.flags = {} THEN EpollInactive(f, FALSE, ok) ELSE e
  BY DEF NbioInactive
<1> HIDE DEF e
<1>3. /\ f \in NbioType /\ f.flags = e.flags /\ f.mask = n.mask
      /\ f.list = "inactive" /\ f.item = n.item /\ f.poll = n.poll
      /\ f.want = n.want
  BY <1>1 DEF NbioType, Lists
<1> HIDE DEF f
<1>4. /\ n.mask \subseteq {READ, WRITE} /\ (n.poll = FALSE <=> n.item = "none")
      /\ (n.item # "none" => n.want = n.mask)
  BY DEF Registered
<1>5. (ok = TRUE \/ (ok = FALSE /\ "epoll" \in Fails)) /\ f.poll \in BOOLEAN
  BY <1>3 DEF CtlResults, NbioType
<1>6. CASE e.mask \cap e.flags # {}
  <2>1. k = e /\ Due(e) # {}
    BY <1>2, <1>6 DEF Due
  <2> QED BY <1>1, <1>4, <2>1 DEF Registered
<1>7. CASE e.mask \cap e.flags = {} /\ (f.poll = TRUE \/ ok = FALSE)
  <2>1. k = f
    BY <1>2, <1>7 DEF EpollInactive
  <2>2. "epoll" \notin Fails => f.poll = TRUE
    BY <1>5, <1>7
  <2> QED BY <1>3, <1>4, <2>1, <2>2 DEF Registered
<1>8. CASE e.mask \cap e.flags = {} /\ f.poll = FALSE /\ ok = TRUE
  <2>1. k = [f EXCEPT !.poll = TRUE, !.item = "armed", !.want = f.mask]
    BY <1>2, <1>8 DEF EpollInactive
  <2>2. /\ k.poll = TRUE /\ k.item = "armed" /\ k.want = n.mask
        /\ k.mask = n.mask /\ k.list = "inactive"
    BY <1>3, <2>1 DEF NbioType
  <2> QED BY <1>4, <2>2 DEF Registered
<1> QED BY <1>5, <1>6, <1>7, <1>8

\* A wake-up of the kernel leaves the registration as it is.
LEMMA WakeupRegistered ==
    ASSUME NEW n \in NbioType, Registered(n), NEW E
    PROVE  /\ Registered(EpollWakeup(n, E)) /\ Registered(EpollHangup(n))
           /\ EpollWakeup(n, E).want = n.want /\ EpollHangup(n).want = n.want
           /\ EpollWakeup(n, E).item = IF n.item = "armed" /\ n.want \cap E # {}
                                       THEN "queued" ELSE n.item
           /\ EpollHangup(n).item = IF n.item = "armed" THEN "queued" ELSE n.item
BY DEF EpollWakeup, EpollHangup, NbioType, Registered, Due

-----------------------------------------------------------------------------
(* What a step may do to one nbio. *)

\* The descriptor of n is as ready as it was.
SameFd(n) ==
    /\ n \in Conns => sock'[n] = sock[n]
    /\ n \in Listeners => backlog'[n] = backlog[n]
    /\ n \notin Conns \cup Listeners => efd' = efd

\* n is left alone, or registered for what it now waits for and told of what
\* its descriptor is ready for.
Fine(n) ==
    \/ nb'[n] = nb[n] /\ SameFd(n)
    \/ Registered(nb'[n]) /\ Heard(n)'

\* At most one nbio leaves the active list, the one the loop visits.
OneLeaves ==
    \/ \A n \in Nbios : Active(n) => nb'[n].list = "active"
    \/ \E c \in Nbios :
          /\ visit # NoVisit => visit[1] = c
          /\ \A n \in Nbios \ {c} : Active(n) => nb'[n].list = "active"

Wakes == (\A n \in Nbios : Fine(n)) /\ OwnOK' /\ OneLeaves

\* An nbio that is left alone has still been told all it has to know.
LEMMA FineStep ==
    ASSUME WakeInv, NEW n \in Nbios, Fine(n)
    PROVE  Registered(nb'[n]) /\ Heard(n)'
<1>1. CASE nb'[n] = nb[n] /\ SameFd(n)
  BY <1>1 DEF WakeInv, Heard, Events, SameFd
<1> QED BY <1>1 DEF Fine

\* An nbio that is not parked, or not registered, has nothing to be told.
LEMMA Unparked ==
    ASSUME NEW n \in Nbios, Registered(nb'[n]),
           nb'[n].list # "inactive" \/ nb'[n].item \in {"none", "queued"}
    PROVE  Fine(n)
BY DEF Fine, Heard

\* The event of a registration that includes what has just become possible is
\* queued.
LEMMA WakeupFine ==
    ASSUME WakeInv, NEW n \in Nbios, nb[n] \in NbioType, NEW E,
           nb'[n] = EpollWakeup(nb[n], E),
           nb[n].want \cap E = {} =>
               (Events(n, nb[n].want)' # {} => Events(n, nb[n].want) # {})
    PROVE  Fine(n) /\ nb'[n].list = nb[n].list
<1>1. /\ Registered(nb'[n]) /\ nb'[n].want = nb[n].want
      /\ nb'[n].item = IF nb[n].item = "armed" /\ nb[n].want \cap E # {}
                       THEN "queued" ELSE nb[n].item
  BY WakeupRegistered DEF WakeInv
<1>2. nb'[n].list = nb[n].list
  BY DEF EpollWakeup, NbioType
<1>3. nb[n].item \in {"none", "armed", "queued"}
  BY DEF NbioType, Items
<1>4. Heard(n)'
  BY <1>1, <1>2, <1>3 DEF WakeInv, Heard
<1> QED BY <1>1, <1>2, <1>4 DEF Fine

-----------------------------------------------------------------------------
(* The callbacks of a connection. *)

\* http_kill() disturbs nobody but its connection and the listeners it wakes.
LEMMA KillWakes ==
    ASSUME CoreInv, WakeInv, NEW c \in Conns, NEW h, NEW k \in NbioType,
           HttpKill(c, h, k), UNCHANGED <<backlog, efd>>
    PROVE  /\ \A n \in Nbios : Fine(n)
           /\ \A n \in Nbios \ {c} : nb'[n].list \in {nb[n].list, "active"}
           /\ \A n \in Nbios \ {c} : Active(n) => nb'[n].list = "active"
<1>1. nb' = [n \in Nbios |->
                 IF n = c THEN NbioDel(CloseFd(k), FALSE)
                 ELSE IF nb[n].list = "oomq" THEN NbioWake(nb[n], {READ})
                 ELSE nb[n]]
  BY DEF HttpKill
<1>2. c \in Nbios /\ Fine(c)
  <2>1. c \in Nbios
    BY DEF Nbios
  <2>2. nb'[c] = NbioDel(CloseFd(k), FALSE)
    BY <1>1, <2>1
  <2>3. nb'[c].list = "deleted"
    BY <2>2, DelProps
  <2> QED BY <2>1, <2>3, Unparked DEF Registered
<1>3. ASSUME NEW n \in Nbios \ {c}
      PROVE  /\ Fine(n) /\ nb'[n].list \in {nb[n].list, "active"}
             /\ Active(n) => nb'[n].list = "active"
  <2>1. CASE nb[n].list = "oomq"
    <3>1. nb[n] \in NbioType /\ Registered(nb[n])
      BY DEF CoreInv, WakeInv
    <3>2. nb'[n] = DoSetWait(nb[n], {READ}, "inactive")
      BY <1>1, <2>1 DEF NbioWake
    <3>3. nb[n].item # "none" => nb[n].poll
      BY <2>1, <3>1 DEF Registered
    <3>4. Registered(nb'[n]) /\ nb'[n].list = "active"
      <4>1. {READ} \in SUBSET {READ, WRITE} /\ {READ} # {}
        OBVIOUS
      <4> HIDE DEF READ
      <4> QED BY <3>1, <3>2, <3>3, <4>1, SetWaitRegistered
    <3> QED BY <2>1, <3>4, Unparked DEF Active
  <2>2. CASE nb[n].list # "oomq"
    <3>1. nb'[n] = nb[n]
      BY <1>1, <2>2
    <3>2. SameFd(n)
      BY DEF SameFd, HttpKill, CoreInv
    <3> QED BY <3>1, <3>2 DEF Fine, Active
  <2> QED BY <2>1, <2>2
<1> QED BY <1>2, <1>3

\* The nbio a callback leaves its connection with has been told all it has to
\* know: it is parked on its socket only when the socket is not ready.
LEMMA MovesFine ==
    ASSUME CoreInv, WakeInv, NEW c \in Conns, Active(c), NEW k, NEW s,
           Moves(c, k, s), nb'[c] = k, sock'[c] = s
    PROVE  Fine(c)
<1>1. c \in Nbios /\ nb[c] \in NbioType /\ Registered(nb[c])
  BY DEF CoreInv, WakeInv, Nbios
<1>2. nb[c].list = "active" /\ (nb[c].item # "none" => nb[c].poll)
  BY <1>1 DEF Active, Registered, NbioType
<1>3. CASE k = nb[c]
  BY <1>1, <1>2, <1>3, Unparked
<1>4. ASSUME NEW w \in SUBSET {READ, WRITE},
             k = DoSetWait(nb[c], w, "inactive")
      PROVE  Fine(c)
  <2>1. Registered(k) /\ k.item = "none"
    BY <1>1, <1>2, <1>4, SetWaitRegistered
  <2> QED BY <1>1, <2>1, Unparked
<1>5. CASE k \in {NbioSetWait(nb[c], {READ}), NbioSetWait(nb[c], {WRITE}),
                  NbioToWaitq(nb[c], "inactive")}
  <2>1. \E w \in {{READ}, {WRITE}, {}} : k = DoSetWait(nb[c], w, "inactive")
    BY <1>5 DEF NbioSetWait, NbioToWaitq
  <2>2. PICK w \in {{READ}, {WRITE}, {}} : k = DoSetWait(nb[c], w, "inactive")
    BY <2>1
  <2>3. w \in SUBSET {READ, WRITE}
    OBVIOUS
  <2> QED BY <1>4, <2>2, <2>3
<1>6. ASSUME NEW ok \in CtlResults, s = sock[c],
             SockEvents(s, nb[c].mask) = {},
             k = NbioInactive(nb[c], nb[c].mask, FALSE, ok)
      PROVE  Fine(c)
  <2>1. nb[c].mask \in SUBSET {READ, WRITE}
    BY <1>1, <1>2 DEF Registered
  <2>2. /\ Registered(k) /\ k.mask = nb[c].mask
        /\ k.list \in {"active", "inactive"}
    <3>1. PICK W \in SUBSET {READ, WRITE} : W = nb[c].mask
      BY <2>1
    <3>2. k = NbioInactive(nb[c], W, FALSE, ok)
      BY <1>6, <3>1
    <3> QED BY <1>1, <1>2, <3>2, InactiveRegistered
  <2>3. k.item # "none" => k.want = nb[c].mask
    BY <2>2 DEF Registered
  <2>4. Heard(c)'
    BY <1>6, <2>3 DEF Heard, Events
  <2> QED BY <2>2, <2>4 DEF Fine
<1> QED BY <1>3, <1>5, <1>6 DEF Moves

\* What a visit to a connection leaves of it.
LEMMA OwnStep ==
    ASSUME WakeInv, visit' = NoVisit \/ \E c \in Conns : \E t : visit' = <<c, t>>,
           \A n \in Nbios \ Conns : nb'[n].list \in {nb[n].list, "active"}
    PROVE  OwnOK'
<1> SUFFICES ASSUME NEW n \in Nbios \ Conns
             PROVE  nb'[n].list # "deleted" /\ visit' # <<n, "read">>
  BY DEF OwnOK
<1>1. nb'[n].list # "deleted"
  BY DEF WakeInv, OwnOK
<1>2. visit' # <<n, "read">>
  BY DEF NoVisit
<1> QED BY <1>1, <1>2

\* http_read() and http_write()
LEMMA CallbackWakes ==
    ASSUME IInv, WakeInv, NEW c \in Conns, HttpRead(c) \/ HttpWrite(c)
    PROVE  Wakes
<1>1. CoreInv /\ c \in Nbios
  BY Parts DEF Nbios
<1>2. Active(c) /\ Effect(c)
  BY ReadEffect, WriteEffect
<1>3. /\ UNCHANGED <<backlog, efd>> /\ visit \in {NoVisit, <<c, "read">>}
      /\ visit' = NoVisit \/ \E d \in Conns : \E t : visit' = <<d, t>>
  BY DEF HttpRead, HttpWrite, DueRead, DueWrite, Idle, netVars, AfterRead,
         AfterWrite
<1>4. /\ \A n \in Nbios : Fine(n)
      /\ \A n \in Nbios \ {c} : nb'[n].list \in {nb[n].list, "active"}
      /\ \A n \in Nbios \ {c} : Active(n) => nb'[n].list = "active"
  <2>1. CASE Ends(c)
    BY <1>1, <1>3, <2>1, KillWakes DEF Ends
  <2>2. CASE GoesOn(c)
    <3>1. PICK h, k, s : Carry(c, h, k, s) /\ Moves(c, k, s)
      BY <2>2 DEF GoesOn
    <3>2. nb' = [nb EXCEPT ![c] = k] /\ sock' = [sock EXCEPT ![c] = s]
      BY <3>1 DEF Carry
    <3>3. nb'[c] = k /\ sock'[c] = s
      BY <1>1, <3>2 DEF CoreInv
    <3>4. \A n \in Nbios \ {c} : nb'[n] = nb[n] /\ SameFd(n)
      BY <1>1, <1>3, <3>2 DEF CoreInv, SameFd
    <3>5. Fine(c)
      BY <1>1, <1>2, <3>1, <3>3, MovesFine
    <3> QED BY <3>4, <3>5 DEF Fine, Active
  <2>3. CASE UNCHANGED <<conn, nb, sock, concurrency, ref>>
    BY <1>3, <2>3 DEF Fine, SameFd, Active
  <2> QED BY <1>2, <2>1, <2>2, <2>3 DEF Effect
<1>5. OwnOK'
  BY <1>3, <1>4, OwnStep
<1>6. OneLeaves
  <2>1. visit # NoVisit => visit[1] = c
    BY <1>3
  <2> QED BY <1>1, <1>4, <2>1 DEF OneLeaves
<1> QED BY <1>4, <1>5, <1>6 DEF Wakes

-----------------------------------------------------------------------------
(* The rest of the loop. *)

\* The sweep of an nbio that still has an error.
LEMMA SweepWakes ==
    ASSUME IInv, WakeInv, NEW c \in Conns, Sweep(c)
    PROVE  Wakes
<1>1. CoreInv /\ c \in Nbios
  BY Parts DEF Nbios
<1>2. /\ nb' = [nb EXCEPT ![c] = NbioSweep(nb[c])] /\ visit' = NoVisit
      /\ UNCHANGED <<sock, backlog, efd>>
      /\ visit \in {NoVisit, <<c, "error">>}
  BY DEF Sweep, DueSweep, netVars, aioVars
<1>3. \A n \in Nbios \ {c} : nb'[n] = nb[n] /\ SameFd(n)
  BY <1>1, <1>2 DEF CoreInv, SameFd
<1>4. nb'[c].list = "deleted"
  BY <1>1, <1>2 DEF CoreInv, NbioSweep, NbioType
<1>5. \A n \in Nbios : Fine(n)
  BY <1>1, <1>3, <1>4, Unparked DEF Fine, Registered
<1>6. OwnOK'
  BY <1>2, <1>3, OwnStep
<1>7. OneLeaves
  <2>1. visit # NoVisit => visit[1] = c
    BY <1>2
  <2> QED BY <1>1, <1>3, <2>1 DEF OneLeaves, Active
<1> QED BY <1>5, <1>6, <1>7 DEF Wakes

\* http_dtor()
LEMMA DtorWakes ==
    ASSUME IInv, WakeInv, NEW c \in Conns, HttpDtor(c)
    PROVE  Wakes
<1>1. CoreInv /\ c \in Nbios
  BY Parts DEF Nbios
<1>2. /\ nb' = [nb EXCEPT ![c] = NoNbio] /\ visit' = NoVisit
      /\ sock' = [sock EXCEPT ![c] = NoSock]
      /\ UNCHANGED <<backlog, efd>> /\ \A n \in Nbios : ~Active(n)
  BY DEF HttpDtor, LoopDrained, Idle, netVars, aioVars
<1>3. \A n \in Nbios \ {c} : nb'[n] = nb[n] /\ SameFd(n)
  BY <1>1, <1>2 DEF CoreInv, SameFd
<1>4. nb'[c].list = "none" /\ nb'[c].item = "none"
  BY <1>1, <1>2 DEF CoreInv, NoNbio
<1>5. \A n \in Nbios : Fine(n)
  BY <1>1, <1>3, <1>4, Unparked DEF Fine, Registered
<1>6. OwnOK'
  BY <1>2, <1>3, OwnStep
<1> QED BY <1>2, <1>5, <1>6 DEF Wakes, OneLeaves

\* handle_completion(): the connection was parked, not active.
LEMMA CompletionWakes ==
    ASSUME IInv, WakeInv, NEW c \in Conns, HandleCompletion(c)
    PROVE  Wakes
<1>1. CoreInv /\ c \in Nbios /\ nb[c] \in NbioType
  BY Parts DEF CoreInv, Nbios
<1>2. nb[c].list = "inactive" /\ nb[c].item = "none"
  <2>1. aio[c] # "none" /\ ConnOK(conn[c], nb[c], aio[c])
    BY DEF HandleCompletion, IInv, VisitInv, ConnInv
  <2> QED BY <2>1 DEF ConnOK, WaitOK
<1>3. /\ UNCHANGED <<backlog, efd>> /\ visit' \in {NoVisit, <<Efd, "complete">>}
  BY DEF HandleCompletion, netVars
<1>4. /\ \A n \in Nbios : Fine(n)
      /\ \A n \in Nbios \ {c} : nb'[n].list \in {nb[n].list, "active"}
      /\ \A n \in Nbios \ {c} : Active(n) => nb'[n].list = "active"
  <2>1. CASE HttpKill(c, conn[c], nb[c])
    BY <1>1, <1>3, <2>1, KillWakes
  <2>2. ASSUME NEW h, Carry(c, h, NbioWake(nb[c], {WRITE}), sock[c])
        PROVE  /\ \A n \in Nbios : Fine(n)
               /\ \A n \in Nbios \ {c} : nb'[n] = nb[n]
    <3>1. /\ nb' = [nb EXCEPT ![c] = NbioWake(nb[c], {WRITE})]
          /\ sock' = [sock EXCEPT ![c] = sock[c]]
      BY <2>2 DEF Carry
    <3>2. \A n \in Nbios \ {c} : nb'[n] = nb[n] /\ SameFd(n)
      BY <1>1, <1>3, <3>1 DEF CoreInv, SameFd
    <3>3. nb'[c] = DoSetWait(nb[c], {WRITE}, "inactive")
      BY <1>1, <3>1 DEF CoreInv, NbioWake
    <3>4. Registered(nb'[c]) /\ nb'[c].item = "none"
      <4>1. PICK w \in SUBSET {READ, WRITE} : w = {WRITE}
        OBVIOUS
      <4> QED BY <1>1, <1>2, <3>3, <4>1, SetWaitRegistered
    <3> QED BY <1>1, <3>2, <3>4, Unparked DEF Fine
  <2> QED BY <2>1, <2>2 DEF HandleCompletion, Active
<1>5. OwnOK'
  <2> SUFFICES ASSUME NEW n \in Nbios \ Conns
               PROVE  nb'[n].list # "deleted" /\ visit' # <<n, "read">>
    BY DEF OwnOK
  <2>1. nb'[n].list # "deleted"
    BY <1>4 DEF WakeInv, OwnOK
  <2>2. visit' # <<n, "read">>
    BY <1>3 DEF NoVisit
  <2> QED BY <2>1, <2>2
<1>6. OneLeaves
  BY <1>2, <1>4 DEF OneLeaves, Active
<1> QED BY <1>4, <1>5, <1>6 DEF Wakes

\* One of the listeners or the eventfd is given a new nbio.
LEMMA OwnWakes ==
    ASSUME CoreInv, WakeInv, NEW m \in Nbios \ Conns,
           visit \in {NoVisit, <<m, "read">>}, Fine(m), nb'[m].list # "deleted",
           \A n \in Nbios \ {m} : Fine(n) /\ nb'[n].list \in {nb[n].list, "active"}
                                  /\ (Active(n) => nb'[n].list = "active"),
           \/ visit' = <<m, "read">> /\ nb'[m].list = "active"
           \/ \A n \in Nbios : visit' # <<n, "read">>
    PROVE  Wakes
<1>1. OwnOK'
  <2> SUFFICES ASSUME NEW n \in Nbios \ Conns
               PROVE  /\ nb'[n].list # "deleted"
                      /\ visit' = <<n, "read">> => nb'[n].list = "active"
    BY DEF OwnOK, Active
  <2>1. nb'[n].list # "deleted"
    BY DEF WakeInv, OwnOK
  <2> QED BY <2>1
<1>2. OneLeaves
  <2>1. visit # NoVisit => visit[1] = m
    OBVIOUS
  <2> QED BY <2>1 DEF OneLeaves
<1> QED BY <1>1, <1>2 DEF Wakes

\* One of the listeners or the eventfd that has nothing more to read.
LEMMA OwnParked ==
    ASSUME CoreInv, WakeInv, NEW m \in Nbios \ Conns, Active(m),
           NEW ok \in CtlResults,
           nb' = [nb EXCEPT ![m] = NbioInactive(@, {READ}, FALSE, ok)],
           \A w : Events(m, w)' = {}
    PROVE  Fine(m) /\ nb'[m].list # "deleted"
<1>1. nb'[m] = NbioInactive(nb[m], {READ}, FALSE, ok) /\ nb[m] \in NbioType
  BY DEF CoreInv
<1>2. PICK W \in SUBSET {READ, WRITE} : W = {READ}
  OBVIOUS
<1>3. Registered(nb'[m]) /\ nb'[m].list \in {"active", "inactive"}
  BY <1>1, <1>2, InactiveRegistered DEF WakeInv, Active
<1>4. Heard(m)'
  BY DEF Heard
<1> QED BY <1>3, <1>4 DEF Fine

\* listener_read()
LEMMA ListenerWakes ==
    ASSUME IInv, WakeInv, NEW l \in Listeners, ListenerRead(l)
    PROVE  Wakes
<1>1. /\ CoreInv /\ l \in Nbios \ Conns /\ nb[l] \in NbioType
      /\ Registered(nb[l])
  BY Parts, NbioAssumption DEF CoreInv, Nbios, WakeInv
<1>2. Active(l) /\ visit \in {NoVisit, <<l, "read">>}
  BY <1>1 DEF ListenerRead, DueRead, WakeInv, OwnOK
<1>3. nb[l].item # "none" => nb[l].poll
  BY <1>1, <1>2 DEF Registered, Active, NbioType
<1>4. UNCHANGED efd
  BY DEF ListenerRead, aioVars
<1>5. ASSUME NEW w \in SUBSET {READ, WRITE}, NEW q \in {"inactive", "oomq"},
             nb'[l] = DoSetWait(nb[l], w, q)
      PROVE  Fine(l) /\ nb'[l].list = IF w = {} THEN q ELSE "active"
  BY <1>1, <1>3, <1>5, SetWaitRegistered, Unparked
<1>6. ASSUME NEW c \in FreeSlots, Accepted(l, c),
             backlog' = [backlog EXCEPT ![l] = @ - 1], visit' = <<l, "read">>
      PROVE  Wakes
  <2>1. c \in Conns /\ c # l
    BY <1>1 DEF FreeSlots
  <2>2. nb'[l] = DoSetWait(nb[l], {READ}, "inactive")
        /\ nb'[c] = DoSetWait(NoNbio, {READ}, "inactive")
        /\ \A n \in Nbios \ {c, l} : nb'[n] = nb[n]
    BY <1>1, <1>6, <2>1 DEF Accepted, CoreInv, NbioSetWait, NbioAdd, Nbios
  <2>3. PICK W \in SUBSET {READ, WRITE} : W = {READ}
    OBVIOUS
  <2>4. Fine(l) /\ nb'[l].list = "active"
    BY <1>5, <2>2, <2>3
  <2>5. NoNbio \in NbioType /\ (NoNbio.item # "none" => NoNbio.poll)
    BY DEF NoNbio, NbioType, Lists, Items
  <2>6. Registered(nb'[c]) /\ nb'[c].item = "none" /\ nb'[c].list = "active"
    <3> HIDE DEF NoNbio
    <3> QED BY <2>2, <2>3, <2>5, SetWaitRegistered
  <2>7. Fine(c)
    BY <2>1, <2>6, Unparked DEF Nbios
  <2>8. \A n \in Nbios \ {c, l} : SameFd(n)
    BY <1>1, <1>4, <1>6, Whole DEF SameFd, Accepted, CoreInv, Others, IInv
  <2>9. \A n \in Nbios \ {l} :
          /\ Fine(n) /\ nb'[n].list \in {nb[n].list, "active"}
          /\ Active(n) => nb'[n].list = "active"
    BY <2>2, <2>6, <2>7, <2>8 DEF Fine, Active
  <2> QED BY <1>1, <1>2, <1>6, <2>4, <2>9, OwnWakes
<1>7. ASSUME UNCHANGED <<conn, sock, concurrency>>,
             \A m \in Listeners \ {l} : backlog'[m] = backlog[m],
             NEW k, nb' = [nb EXCEPT ![l] = k], Fine(l), k.list # "deleted",
             \/ visit' = <<l, "read">> /\ k.list = "active"
             \/ visit' = NoVisit
      PROVE  Wakes
  <2>1. nb'[l] = k /\ \A n \in Nbios \ {l} : nb'[n] = nb[n]
    BY <1>1, <1>7 DEF CoreInv
  <2>2. \A n \in Nbios \ {l} : SameFd(n)
    BY <1>4, <1>7 DEF SameFd
  <2>3. \A n \in Nbios \ {l} :
          /\ Fine(n) /\ nb'[n].list \in {nb[n].list, "active"}
          /\ Active(n) => nb'[n].list = "active"
    BY <2>1, <2>2 DEF Fine, Active
  <2>4. visit' = NoVisit => \A n \in Nbios : visit' # <<n, "read">>
    BY DEF NoVisit
  <2> QED BY <1>1, <1>2, <1>7, <2>1, <2>3, <2>4, OwnWakes
<1> DEFINE dropped == backlog' = [backlog EXCEPT ![l] = @ - 1]
<1>8. dropped \/ UNCHANGED backlog => \A m \in Listeners \ {l} : backlog'[m] = backlog[m]
  BY DEF IInv, TypeOK
<1>9. CASE /\ nb' = [nb EXCEPT ![l] = NbioSetWait(@, {READ})]
           /\ UNCHANGED <<conn, sock, concurrency>>
           /\ dropped /\ visit' = <<l, "read">>
  <2>1. nb'[l] = DoSetWait(nb[l], {READ}, "inactive")
    BY <1>1, <1>9 DEF CoreInv, NbioSetWait
  <2>2. PICK W \in SUBSET {READ, WRITE} : W = {READ}
    OBVIOUS
  <2>3. Fine(l) /\ nb'[l].list = "active"
    BY <1>5, <2>1, <2>2
  <2>4. nb' = [nb EXCEPT ![l] = nb'[l]]
    BY <1>1, <1>9 DEF CoreInv
  <2> QED BY <1>7, <1>8, <1>9, <2>3, <2>4
<1>10. CASE HttpOom(l) /\ visit' = NoVisit /\ UNCHANGED <<conn, sock, concurrency, backlog>>
  <2>1. nb'[l] = DoSetWait(nb[l], {}, "oomq") /\ nb' = [nb EXCEPT ![l] = nb'[l]]
    BY <1>1, <1>10 DEF CoreInv, NbioToWaitq, HttpOom
  <2>2. PICK W \in SUBSET {READ, WRITE} : W = {}
    OBVIOUS
  <2>3. Fine(l) /\ nb'[l].list = "oomq"
    BY <1>5, <2>1, <2>2
  <2> QED BY <1>7, <1>8, <1>10, <2>1, <2>3
<1>11. CASE /\ backlog[l] = 0
            /\ \E ok \in CtlResults :
                  nb' = [nb EXCEPT ![l] = NbioInactive(@, {READ}, FALSE, ok)]
            /\ visit' = NoVisit /\ UNCHANGED <<conn, sock, concurrency, backlog>>
  <2>1. \A w : Events(l, w)' = {}
    BY <1>1, <1>11 DEF Events
  <2>2. Fine(l) /\ nb'[l].list # "deleted"
    BY <1>1, <1>2, <1>11, <2>1, OwnParked
  <2>3. nb' = [nb EXCEPT ![l] = nb'[l]]
    BY <1>1, <1>11 DEF CoreInv
  <2> QED BY <1>7, <1>8, <1>11, <2>2, <2>3
<1>12. CASE /\ dropped /\ visit' = NoVisit /\ UNCHANGED <<conn, nb, sock, concurrency>>
  <2>1. nb' = [nb EXCEPT ![l] = nb'[l]] /\ nb'[l].list = "active"
    BY <1>1, <1>2, <1>12 DEF CoreInv, Active
  <2>2. Fine(l)
    BY <1>1, <1>12, <2>1, Unparked
  <2> QED BY <1>7, <1>8, <1>12, <2>1, <2>2
<1> QED BY <1>6, <1>9, <1>10, <1>11, <1>12 DEF ListenerRead

\* efd_read()
LEMMA EfdWakes ==
    ASSUME IInv, WakeInv, EfdRead
    PROVE  Wakes
<1>1. CoreInv /\ Efd \in Nbios \ Conns /\ Efd \notin Conns \cup Listeners
  BY Parts, NbioAssumption DEF Nbios
<1>2. Active(Efd) /\ visit \in {NoVisit, <<Efd, "read">>}
  BY <1>1 DEF EfdRead, DueRead, WakeInv, OwnOK
<1>3. /\ UNCHANGED <<sock, backlog>> /\ visit' \in {NoVisit, <<Efd, "reap">>}
      /\ DOMAIN nb = Nbios
  BY <1>1 DEF EfdRead, netVars, CoreInv
<1>4. \A n \in Nbios \ {Efd} : nb'[n] = nb[n]
  BY <1>3 DEF EfdRead
<1>5. \A n \in Nbios \ {Efd} : SameFd(n)
  BY <1>3 DEF SameFd, Nbios
<1>6. Fine(Efd) /\ nb'[Efd].list # "deleted"
  <2>1. ASSUME NEW ok \in CtlResults, ~efd, UNCHANGED efd,
               nb' = [nb EXCEPT ![Efd] = NbioInactive(@, {READ}, FALSE, ok)]
        PROVE  Fine(Efd) /\ nb'[Efd].list # "deleted"
    <3>1. \A w : Events(Efd, w)' = {}
      BY <1>1, <2>1 DEF Events
    <3> QED BY <1>1, <1>2, <2>1, <3>1, OwnParked
  <2>2. CASE UNCHANGED nb
    BY <1>1, <1>2, <2>2, Unparked DEF WakeInv, Active
  <2> QED BY <2>1, <2>2 DEF EfdRead
<1>7. \A n \in Nbios : visit' # <<n, "read">>
  BY <1>3 DEF NoVisit
<1> QED BY <1>1, <1>2, <1>4, <1>5, <1>6, <1>7, OwnWakes DEF Fine, Active

\* A step that touches no nbio and no descriptor.
LEMMA QuietWakes ==
    ASSUME WakeInv, UNCHANGED <<nb, sock, backlog, efd>>,
           visit' = visit \/ \A n \in Nbios : visit' # <<n, "read">>
    PROVE  Wakes
<1>1. \A n \in Nbios : Fine(n)
  BY DEF Fine, SameFd
<1>2. OwnOK'
  BY DEF WakeInv, OwnOK, Active
<1> QED BY <1>1, <1>2 DEF Wakes, OneLeaves, Active

\* What epoll_wait() reports of a descriptor is a callback due, or an error.
LEMMA EventsDue ==
    ASSUME NEW n \in Nbios, NEW w \in SUBSET {READ, WRITE}, Events(n, w) # {}
    PROVE  Events(n, w) \cap w # {} \/ ERROR \in Events(n, w)
BY DEF Events, SockEvents

\* plugin->pump
LEMMA EpollWakes ==
    ASSUME IInv, WakeInv, EpollWait
    PROVE  Wakes
<1>1. /\ nb \in [Nbios -> NbioType] /\ visit = NoVisit /\ visit' = NoVisit
      /\ \A n \in Nbios : ~Active(n) /\ nb[n].list # "deleted"
      /\ UNCHANGED <<sock, backlog, efd>>
  BY DEF IInv, TypeOK, EpollWait, LoopDrained, Idle, WakeInv, OwnOK, netVars,
         aioVars
<1>2. PICK S \in SUBSET QueuedItems :
        nb' = [n \in Nbios |-> IF n \in S
                               THEN EpollDeliver(nb[n], Events(n, nb[n].want))
                               ELSE nb[n]]
  BY DEF EpollWait
<1>3. ASSUME NEW n \in S
      PROVE  Fine(n) /\ nb'[n].list # "deleted"
  <2>1. n \in Nbios /\ nb[n].item = "queued"
    BY DEF QueuedItems
  <2>2. /\ nb[n] \in NbioType /\ Registered(nb[n])
        /\ nb[n].list \in {"none", "inactive", "oomq"}
    BY <1>1, <2>1 DEF WakeInv, NbioType, Lists, Active
  <2>3. /\ nb[n].list = "inactive" /\ nb[n].want = nb[n].mask
        /\ nb[n].mask \subseteq {READ, WRITE} /\ nb[n].poll # FALSE
    BY <2>1, <2>2 DEF Registered
  <2> DEFINE E == Events(n, nb[n].want)
             k == EpollDeliver(nb[n], E)
  <2>4. nb'[n] = k
    BY <1>2, <2>1
  <2>5. E \in SUBSET {READ, WRITE, ERROR}
    BY DEF Events, SockEvents
  <2>6. Events(n, nb[n].want)' = Events(n, nb'[n].want)
    BY <1>1 DEF Events
  <2> HIDE DEF E
  <2>7. /\ k.mask = nb[n].mask /\ k.want = nb[n].want /\ k.item = "armed"
        /\ k.poll = nb[n].poll
        /\ k.flags = (IF E = {} THEN nb[n].flags ELSE E)
        /\ k.list = (IF E = {} THEN "inactive" ELSE "active")
    BY <2>2, <2>3, <2>5 DEF EpollDeliver, NbioType
  <2> HIDE DEF k
  <2>8. CASE E = {}
    <3>1. Registered(k)
      BY <2>2, <2>3, <2>7, <2>8 DEF Registered
    <3>2. Heard(n)'
      BY <2>4, <2>6, <2>7, <2>8 DEF Heard, E
    <3> QED BY <2>4, <2>7, <2>8, <3>1, <3>2 DEF Fine
  <2>9. CASE E # {}
    <3>1. E \cap nb[n].want # {} \/ ERROR \in E
      BY <2>1, <2>3, <2>9, EventsDue DEF E
    <3>2. Due(k) # {} \/ ERROR \in k.flags
      BY <2>3, <2>7, <2>9, <3>1 DEF Due
    <3>3. Registered(k)
      BY <2>3, <2>7, <2>9, <3>2 DEF Registered
    <3> QED BY <2>1, <2>4, <2>7, <2>9, <3>3, Unparked
  <2> QED BY <2>8, <2>9
<1>4. ASSUME NEW n \in Nbios \ S
      PROVE  Fine(n) /\ nb'[n].list # "deleted"
  BY <1>1, <1>2 DEF Fine, SameFd
<1>5. OwnOK'
  BY <1>1, <1>3, <1>4 DEF OwnOK, NoVisit
<1> QED BY <1>1, <1>3, <1>4, <1>5 DEF Wakes, OneLeaves

-----------------------------------------------------------------------------
(* The environment. *)

\* The kernel queues the event of one nbio, and nothing else happens to any.
LEMMA EventWakes ==
    ASSUME IInv, WakeInv, NEW m \in Nbios, Fine(m), nb'[m].list = nb[m].list,
           \A n \in Nbios \ {m} : nb'[n] = nb[n] /\ SameFd(n),
           UNCHANGED visit
    PROVE  Wakes
<1>1. \A n \in Nbios : Fine(n) /\ nb'[n].list = nb[n].list
  BY DEF Fine
<1> QED BY <1>1 DEF Wakes, OneLeaves, WakeInv, OwnOK, Active

\* A peer writes, reads, shuts down or resets.
LEMMA PeerWakes ==
    ASSUME IInv, WakeInv, NEW c \in Conns,
           \/ \E t \in Tokens : PeerSend(c, t)
           \/ PeerFin(c) \/ PeerReset(c) \/ PeerDrain(c)
    PROVE  Wakes
<1>1. CoreInv /\ c \in Nbios /\ nb[c] \in NbioType /\ sock[c] \in SockType
  BY Parts DEF CoreInv, Nbios
<1>2. PICK s, k : PeerStep(c, s, k)
  BY DEF PeerSend, PeerFin, PeerReset, PeerDrain
<1>3. /\ \A n \in Nbios \ {c} : nb'[n] = nb[n] /\ SameFd(n)
      /\ UNCHANGED visit
  BY <1>1, <1>2 DEF CoreInv, PeerStep, SameFd, netVars, aioVars
<1>4. ASSUME NEW E, PeerStep(c, sock'[c], EpollWakeup(nb[c], E)),
             nb[c].want \cap E = {} =>
                 SockEvents(sock'[c], nb[c].want) = SockEvents(sock[c], nb[c].want)
      PROVE  Wakes
  <2>1. nb'[c] = EpollWakeup(nb[c], E)
    BY <1>1, <1>4 DEF PeerStep, CoreInv
  <2>2. nb'[c].want = nb[c].want
    BY <1>1, <2>1 DEF EpollWakeup, NbioType
  <2>3. nb[c].want \cap E = {} =>
          (Events(c, nb[c].want)' # {} => Events(c, nb[c].want) # {})
    BY <1>4, <2>2 DEF Events
  <2> QED BY <1>1, <1>3, <2>1, <2>3, WakeupFine, EventWakes
<1>5. ASSUME NEW x, PeerStep(c, x, EpollWakeup(nb[c], {READ})),
             x.rst = sock[c].rst, x.tx = sock[c].tx
      PROVE  Wakes
  <2>1. sock'[c] = x
    BY <1>1, <1>5 DEF PeerStep, CoreInv
  <2>2. nb[c].want \cap {READ} = {} =>
          SockEvents(sock'[c], nb[c].want) = SockEvents(sock[c], nb[c].want)
    BY <1>5, <2>1 DEF SockEvents
  <2> QED BY <1>4, <1>5, <2>1, <2>2
<1>6. ASSUME NEW t \in Tokens, PeerSend(c, t)
      PROVE  Wakes
  <2> DEFINE x == [sock[c] EXCEPT !.rx = Append(@, t), !.quota = @ - 1]
  <2>1. x.rst = sock[c].rst /\ x.tx = sock[c].tx
    BY <1>1 DEF SockType
  <2>2. PeerStep(c, x, EpollWakeup(nb[c], {READ}))
    BY <1>6 DEF PeerSend
  <2> HIDE DEF x
  <2> QED BY <1>5, <2>1, <2>2
<1>7. CASE PeerFin(c)
  <2> DEFINE x == [sock[c] EXCEPT !.fin = TRUE]
  <2>1. x.rst = sock[c].rst /\ x.tx = sock[c].tx
    BY <1>1 DEF SockType
  <2>2. PeerStep(c, x, EpollWakeup(nb[c], {READ}))
    BY <1>7 DEF PeerFin
  <2> HIDE DEF x
  <2> QED BY <1>5, <2>1, <2>2
<1>8. CASE PeerReset(c)
  <2>1. nb'[c] = EpollHangup(nb[c])
    BY <1>1, <1>8 DEF PeerReset, PeerStep, CoreInv
  <2>2. nb'[c].list = nb[c].list /\ nb'[c].item \in {"none", "queued"}
    BY <1>1, <2>1 DEF EpollHangup, NbioType, Items
  <2>3. Registered(nb'[c])
    BY <1>1, <2>1, WakeupRegistered DEF WakeInv
  <2>4. Fine(c)
    BY <1>1, <2>2, <2>3, Unparked
  <2> QED BY <1>1, <1>3, <2>2, <2>4, EventWakes
<1>9. CASE PeerDrain(c)
  <2> DEFINE x == [sock[c] EXCEPT !.tx = 0]
  <2>1. x.rst = sock[c].rst /\ x.rx = sock[c].rx /\ x.fin = sock[c].fin
    BY <1>1 DEF SockType
  <2>2. PeerStep(c, x, EpollWakeup(nb[c], {WRITE}))
    BY <1>9 DEF PeerDrain
  <2> HIDE DEF x
  <2>3. sock'[c] = x
    BY <1>1, <2>2 DEF PeerStep, CoreInv
  <2>4. nb[c].want \cap {WRITE} = {} =>
          SockEvents(sock'[c], nb[c].want) = SockEvents(sock[c], nb[c].want)
    BY <2>1, <2>3 DEF SockEvents
  <2> QED BY <1>4, <2>2, <2>3, <2>4
<1> QED BY <1>6, <1>7, <1>8, <1>9

\* A client connects: the listener's event is queued.
LEMMA ConnectWakes ==
    ASSUME IInv, WakeInv, NEW l \in Listeners, PeerConnect(l)
    PROVE  Wakes
<1>1. CoreInv /\ l \in Nbios \ Conns /\ nb[l] \in NbioType
  BY Parts, NbioAssumption DEF CoreInv, Nbios
<1>2. /\ nb'[l] = EpollWakeup(nb[l], {READ})
      /\ \A n \in Nbios \ {l} : nb'[n] = nb[n] /\ SameFd(n)
      /\ UNCHANGED visit
  BY <1>1 DEF PeerConnect, CoreInv, SameFd, aioVars, IInv, TypeOK
<1>3. nb'[l].want = nb[l].want
  BY <1>1, <1>2 DEF EpollWakeup, NbioType
<1>4. nb[l].want \cap {READ} = {} => Events(l, nb[l].want)' = {}
  BY <1>1, <1>3 DEF Events
<1> QED BY <1>1, <1>2, <1>4, WakeupFine, EventWakes

\* A disk read completes: the eventfd's event is queued.
LEMMA AioDoneWakes ==
    ASSUME IInv, WakeInv, NEW c \in Conns, AioDone(c)
    PROVE  Wakes
<1>1. /\ CoreInv /\ Efd \in Nbios /\ Efd \notin Conns \cup Listeners
      /\ nb[Efd] \in NbioType
  BY Parts, NbioAssumption DEF CoreInv, Nbios
<1>2. /\ nb'[Efd] = EpollWakeup(nb[Efd], {READ})
      /\ \A n \in Nbios \ {Efd} : nb'[n] = nb[n] /\ SameFd(n)
      /\ UNCHANGED visit
  BY <1>1 DEF AioDone, CoreInv, SameFd, netVars, Nbios
<1>3. nb'[Efd].want = nb[Efd].want
  BY <1>1, <1>2 DEF EpollWakeup, NbioType
<1>4. nb[Efd].want \cap {READ} = {} => Events(Efd, nb[Efd].want)' = {}
  BY <1>1, <1>3 DEF Events
<1> QED BY <1>1, <1>2, <1>4, WakeupFine, EventWakes

-----------------------------------------------------------------------------
(* The theorems. *)

\* Every step, whatever it does, wakes whom it must and lets no nbio but the
\* visited one leave the active list.
LEMMA NextWakes ==
    ASSUME IInv, WakeInv, [Next]_vars
    PROVE  Wakes
<1>1. CASE \E c \in Conns : ConnStep(c)
  BY <1>1, CallbackWakes, SweepWakes, DtorWakes DEF ConnStep
<1>2. CASE \E l \in Listeners : ListenerRead(l)
  BY <1>2, ListenerWakes
<1>3. CASE AioStep
  <2>1. CASE AioEvent
    <3>1. UNCHANGED <<nb, sock, backlog, efd>>
          /\ visit' \in {NoVisit, <<Efd, "complete">>}
      BY <2>1 DEF AioEvent, netVars
    <3>2. \A n \in Nbios : visit' # <<n, "read">>
      BY <3>1 DEF NoVisit
    <3> QED BY <3>1, <3>2, QuietWakes
  <2> QED BY <1>3, <2>1, EfdWakes, CompletionWakes DEF AioStep
<1>4. CASE EpollWait
  BY <1>4, EpollWakes
<1>5. CASE Admin
  BY <1>5, QuietWakes DEF Admin, VhostAdd, VhostDel, netVars, aioVars
<1>6. CASE Peer
  BY <1>6, ConnectWakes, PeerWakes, AioDoneWakes DEF Peer
<1>7. CASE UNCHANGED vars
  BY <1>7, QuietWakes DEF vars
<1> QED BY <1>1, <1>2, <1>3, <1>4, <1>5, <1>6, <1>7 DEF Next, Server

\* main() leaves the listeners, and with io_async the eventfd, on the active
\* list.
LEMMA InitWakeInv == Init => WakeInv
<1> SUFFICES ASSUME Init PROVE WakeInv
  OBVIOUS
<1>1. NoNbio \in NbioType /\ (NoNbio.item # "none" => NoNbio.poll)
  BY DEF NoNbio, NbioType, Lists, Items
<1>2. Registered(NbioAdd({READ})) /\ NbioAdd({READ}).list = "active"
  <2>1. PICK W \in SUBSET {READ, WRITE} : W = {READ}
    OBVIOUS
  <2>2. NbioAdd({READ}) = DoSetWait(NoNbio, W, "inactive")
    BY <2>1 DEF NbioAdd
  <2> HIDE DEF NoNbio
  <2> QED BY <1>1, <2>1, <2>2, SetWaitRegistered
<1>3. Registered(NoNbio) /\ NoNbio.list = "none"
  BY DEF NoNbio, Registered
<1>4. \A n \in Nbios : nb[n] \in {NbioAdd({READ}), NoNbio} /\ visit = NoVisit
  BY DEF Init
<1> HIDE DEF NoNbio
<1>5. \A n \in Nbios : Registered(nb[n]) /\ nb[n].list \in {"active", "none"}
  BY <1>2, <1>3, <1>4
<1> QED BY <1>4, <1>5 DEF WakeInv, Heard, OwnOK, NoVisit

LoopInv == IInv /\ WakeInv

\* The registrations of nbio-epoll.c, the lists of nbio.c and the descriptors
\* stay in step: what an nbio on the active list waits for is due, and what a
\* registered one waits for is not possible or already reported.
THEOREM WakeInductive == Spec => []LoopInv
<1>1. Init => LoopInv
  BY InitIInv, InitWakeInv DEF LoopInv
<1>2. LoopInv /\ [Next]_vars => LoopInv'
  <2> SUFFICES ASSUME LoopInv, [Next]_vars PROVE LoopInv'
    OBVIOUS
  <2>1. IInv /\ WakeInv
    BY DEF LoopInv
  <2>2. IInv'
    BY <2>1, NextIInv
  <2>3. Wakes
    BY <2>1, NextWakes
  <2>4. \A n \in Nbios : Registered(nb'[n]) /\ Heard(n)'
    BY <2>1, <2>3, FineStep DEF Wakes
  <2>5. WakeInv'
    BY <2>3, <2>4 DEF WakeInv, Wakes, Registered, Due
  <2> QED BY <2>2, <2>5 DEF LoopInv
<1> QED BY <1>1, <1>2, PTL DEF Spec

\* nbio_pump() never finds an nbio on the active list that it can do nothing
\* for, so its "while the list is not empty" does not spin.
THEOREM LoopNeverSpins == Spec => []NoSpin
<1>1. LoopInv => NoSpin
  BY DEF LoopInv, WakeInv, Registered, NoSpin, Active
<1> QED BY <1>1, WakeInductive, PTL

\* With an epoll_ctl() that does not fail, no wake-up is lost: a parked nbio is
\* registered for what it waits for, and if its descriptor is ready its event
\* is queued.
THEOREM WakeupsNotLost ==
    ASSUME "epoll" \notin Fails
    PROVE  Spec => []NoLostWakeup
<1>1. LoopInv => NoLostWakeup
  <2> SUFFICES ASSUME LoopInv, NEW n \in Nbios, nb[n].list = "inactive",
                      nb[n].mask # {}
               PROVE  /\ nb[n].item # "none"
                      /\ nb[n].want = nb[n].mask
                      /\ Events(n, nb[n].want) # {} => nb[n].item = "queued"
    BY DEF NoLostWakeup
  <2>1. Registered(nb[n]) /\ Heard(n)
    BY DEF LoopInv, WakeInv
  <2>2. nb[n].item # "none" /\ nb[n].want = nb[n].mask
    BY <2>1 DEF Registered
  <2> QED BY <2>1, <2>2 DEF Heard
<1> QED BY <1>1, WakeInductive, PTL

\* nbio_pump()'s list_for_each_safe() is safe: a callback takes no nbio but its
\* own off the active list, http_kill() and handle_completion() included.
THEOREM PumpIsSafe == Spec => PumpSafe
<1> DEFINE body == \A n \in Nbios : Active(n) /\ nb'[n].list # "active" =>
                      /\ visit # NoVisit => visit[1] = n
                      /\ \A m \in Nbios \ {n} : Active(m) => nb'[m].list = "active"
<1>1. LoopInv /\ [Next]_vars => [body]_vars
  <2> SUFFICES ASSUME LoopInv, [Next]_vars PROVE body
    OBVIOUS
  <2>1. OneLeaves
    BY NextWakes DEF LoopInv, Wakes
  <2> QED BY <2>1 DEF OneLeaves
<1> QED BY <1>1, WakeInductive, PTL DEF Spec, PumpSafe

\* The eventfd is read before the completions are collected, and nothing but
\* the collection comes between.
LEMMA StrandedStep ==
    ASSUME IInv, NoStrandedCompletion, [Next]_vars
    PROVE  NoStrandedCompletion'
<1>1. aio \in [Conns -> AioStates]
  BY Parts DEF CoreInv
<1>2. ASSUME NEW c \in Conns, HttpRead(c) \/ HttpWrite(c)
      PROVE  NoStrandedCompletion'
  <2>1. UNCHANGED aio \/ aio' = [aio EXCEPT ![c] = "flight"]
    BY <1>2, ReadEffect, WriteEffect DEF Effect
  <2>2. UNCHANGED <<efd, reap>> /\ visit \in {NoVisit, <<c, "read">>}
    BY <1>2 DEF HttpRead, HttpWrite, DueRead, DueWrite, Idle
  <2>3. visit # <<Efd, "reap">>
    BY <2>2 DEF NoVisit
  <2> QED BY <1>1, <2>1, <2>2, <2>3 DEF NoStrandedCompletion
<1>3. ASSUME NEW n, visit = NoVisit \/ visit \in {<<n, "read">>, <<n, "error">>},
             UNCHANGED <<aio, efd, reap>>
      PROVE  NoStrandedCompletion'
  <2>1. visit # <<Efd, "reap">>
    BY <1>3 DEF NoVisit
  <2> QED BY <1>3, <2>1 DEF NoStrandedCompletion
<1>4. ASSUME UNCHANGED <<aio, efd, reap, visit>>
      PROVE  NoStrandedCompletion'
  BY <1>4 DEF NoStrandedCompletion
<1>5. CASE \E c \in Conns : ConnStep(c)
  BY <1>2, <1>3, <1>4, <1>5 DEF ConnStep, Sweep, DueSweep, HttpDtor, aioVars
<1>6. CASE \E l \in Listeners : ListenerRead(l)
  BY <1>3, <1>6 DEF ListenerRead, DueRead, aioVars
<1>7. CASE EfdRead
  <2>1. visit # <<Efd, "reap">>
    BY <1>7 DEF EfdRead, DueRead, NoVisit
  <2> QED BY <1>7, <2>1 DEF EfdRead, NoStrandedCompletion
<1>8. CASE AioEvent
  BY <1>8 DEF AioEvent, NoStrandedCompletion
<1>9. ASSUME NEW c \in Conns, HandleCompletion(c)
      PROVE  NoStrandedCompletion'
  <2>1. visit # <<Efd, "reap">> /\ UNCHANGED efd
        /\ aio' = [aio EXCEPT ![c] = "none"] /\ reap' = reap \ {c}
    BY <1>9 DEF HandleCompletion
  <2> QED BY <1>1, <2>1 DEF NoStrandedCompletion
<1>10. CASE EpollWait \/ Admin
  BY <1>4, <1>10 DEF EpollWait, Admin, VhostAdd, VhostDel, aioVars
<1>11. CASE Peer
  <2>1. ASSUME NEW c \in Conns, AioDone(c)
        PROVE  NoStrandedCompletion'
    BY <2>1 DEF AioDone, NoStrandedCompletion
  <2> QED BY <1>4, <1>11, <2>1 DEF Peer, PeerConnect, PeerSend, PeerFin,
               PeerReset, PeerDrain, PeerStep, aioVars
<1>12. CASE UNCHANGED vars
  BY <1>4, <1>12 DEF vars
<1> QED BY <1>5, <1>6, <1>7, <1>8, <1>9, <1>10, <1>11, <1>12
           DEF Next, Server, AioStep

\* A completion that no io_getevents() has returned yet has raised the eventfd,
\* or is just about to be collected: io_async.c strands none.
THEOREM CompletionsCollected == Spec => []NoStrandedCompletion
<1> DEFINE Inv == IInv /\ NoStrandedCompletion
<1>1. Init => Inv
  BY InitIInv DEF Init, NoStrandedCompletion
<1>2. Inv /\ [Next]_vars => Inv'
  BY NextIInv, StrandedStep
<1> QED BY <1>1, <1>2, PTL DEF Spec

-----------------------------------------------------------------------------

\* The connections that hold a reference to web root w, and a descriptor.
Users(w) == {c \in Conns : conn[c].root = w}
Holders == {c \in Conns : conn[c].fd}

\* A set of connections that gains or loses at most one member.
LEMMA OneMore ==
    ASSUME NEW S \in SUBSET Conns, NEW T, NEW c \in Conns,
           T \subseteq S \cup {c}, S \ {c} \subseteq T
    PROVE  /\ IsFiniteSet(S) /\ Cardinality(S) \in Nat
           /\ Cardinality(T) = Cardinality(S)
                 + (IF c \in T /\ c \notin S THEN 1 ELSE 0)
                 - (IF c \in S /\ c \notin T THEN 1 ELSE 0)
<1>1. IsFiniteSet(S) /\ Cardinality(S) \in Nat
  BY FiniteAssumption, FS_Subset, FS_CardinalityType
<1>2. CASE c \in T /\ c \notin S
  <2>1. T = S \cup {c}
    BY <1>2
  <2> QED BY <1>1, <1>2, <2>1, FS_AddElement
<1>3. CASE c \in S /\ c \notin T
  <2>1. T = S \ {c}
    BY <1>3
  <2> QED BY <1>1, <1>3, <2>1, FS_RemoveElement
<1>4. CASE c \in S <=> c \in T
  <2>1. T = S
    BY <1>4
  <2> QED BY <1>1, <1>4, <2>1
<1> QED BY <1>1, <1>2, <1>3, <1>4

-----------------------------------------------------------------------------
(* References to web roots. *)

\* A web root that was not opened yet is nobody's.
RootInv ==
    /\ RootPinned
    /\ \A w \in fresh : vhost # w /\ \A c \in Conns : conn[c].root # w

\* A step that leaves c with web root w and accounts for it.
LEMMA RootStep ==
    ASSUME IInv, RootInv, NEW c \in Conns, NEW w, Accounts(c, w),
           \A d \in Conns : conn'[d].root = IF d = c THEN w ELSE conn[d].root,
           UNCHANGED <<vhost, fresh>>
    PROVE  RootInv'
<1>1. /\ ref \in [Roots -> Int] /\ vhost \in Roots \cup {NoRoot}
      /\ conn[c].root \in Roots \cup {NoRoot}
  BY DEF IInv, TypeOK, ConnType
<1>2. \A x \in fresh' : vhost' # x /\ \A d \in Conns : conn'[d].root # x
  <2>1. w \in {conn[c].root, NoRoot, vhost}
    BY DEF Accounts
  <2>2. NoRoot \notin fresh
    BY RootAssumption DEF IInv, TypeOK
  <2> QED BY <2>1, <2>2 DEF RootInv
<1>3. ASSUME NEW x \in Roots
      PROVE  ref'[x] >= Cardinality(Users(x)') + (IF vhost = x THEN 1 ELSE 0)
  <2>1. /\ Users(x) \in SUBSET Conns
        /\ Users(x)' \subseteq Users(x) \cup {c}
        /\ Users(x) \ {c} \subseteq Users(x)'
    BY DEF Users
  <2>2. (c \in Users(x)' <=> w = x) /\ (c \in Users(x) <=> conn[c].root = x)
    BY DEF Users
  <2>3. /\ Cardinality(Users(x)) \in Nat
        /\ Cardinality(Users(x)') = Cardinality(Users(x))
              + (IF w = x /\ conn[c].root # x THEN 1 ELSE 0)
              - (IF conn[c].root = x /\ w # x THEN 1 ELSE 0)
    BY <2>1, <2>2, OneMore
  <2>4. ref[x] >= Cardinality(Users(x)) + (IF vhost = x THEN 1 ELSE 0)
    BY DEF RootInv, RootPinned, Users
  <2>5. x # NoRoot /\ ref[x] \in Int
    BY <1>1, RootAssumption
  <2>6. CASE w = conn[c].root /\ UNCHANGED ref
    BY <2>3, <2>4, <2>5, <2>6
  <2>7. CASE w = NoRoot /\ ref' = Unref(conn[c].root)
    <3>1. ref'[x] = IF conn[c].root = x THEN ref[x] - 1 ELSE ref[x]
      BY <1>1, <2>5, <2>7 DEF Unref
    <3> QED BY <2>3, <2>4, <2>5, <2>7, <3>1
  <2>8. CASE w = vhost /\ vhost \in Roots /\ ref' = [ref EXCEPT ![vhost] = @ + 1]
    <3>1. ref'[x] = IF vhost = x THEN ref[x] + 1 ELSE ref[x]
      BY <1>1, <2>8
    <3> QED BY <2>3, <2>4, <2>5, <2>8, <3>1
  <2> QED BY <2>6, <2>7, <2>8 DEF Accounts
<1>4. RootPinned'
  BY <1>3 DEF RootPinned, Users
<1> QED BY <1>2, <1>4 DEF RootInv

\* A step that leaves every connection its web root.
LEMMA RootsKept ==
    ASSUME RootInv, \A c \in Conns : conn'[c].root = conn[c].root,
           UNCHANGED <<vhost, fresh, ref>>
    PROVE  RootInv'
<1>1. \A w : Users(w)' = Users(w)
  BY DEF Users
<1>2. RootPinned'
  BY <1>1 DEF RootInv, RootPinned, Users
<1> QED BY <1>2 DEF RootInv

\* Every step keeps a web root open that somebody still needs.
LEMMA NextRootInv ==
    ASSUME IInv, RootInv, [Next]_vars
    PROVE  RootInv'
<1>1. /\ conn \in [Conns -> ConnType] /\ ref \in [Roots -> Int]
      /\ vhost \in Roots \cup {NoRoot} /\ fresh \in SUBSET Roots
  BY DEF IInv, TypeOK
<1>2. ASSUME NEW c \in Conns, NEW h, conn' = [conn EXCEPT ![c] = h],
             Accounts(c, h.root), UNCHANGED <<vhost, fresh>>
      PROVE  RootInv'
  <2>1. \A d \in Conns : conn'[d].root = IF d = c THEN h.root ELSE conn[d].root
    BY <1>1, <1>2
  <2> QED BY <1>2, <2>1, RootStep
<1>3. ASSUME NEW c \in Conns, NEW h, NEW k, HttpKill(c, h, k),
             Accounts(c, h.root), UNCHANGED <<vhost, fresh>>
      PROVE  RootInv'
  <2>1. DeadConn(h).root = h.root
    BY DEF DeadConn, NoConn
  <2> QED BY <1>2, <1>3, <2>1 DEF HttpKill
<1>4. ASSUME UNCHANGED <<conn, vhost, fresh, ref>>
      PROVE  RootInv'
  BY <1>4, RootsKept
<1>5. ASSUME NEW c \in Conns, HttpRead(c) \/ HttpWrite(c)
      PROVE  RootInv'
  <2>1. Effect(c) /\ UNCHANGED <<vhost, fresh>>
    BY <1>5, ReadEffect, WriteEffect DEF HttpRead, HttpWrite
  <2>2. CASE Ends(c)
    BY <1>3, <2>1, <2>2 DEF Ends
  <2>3. CASE GoesOn(c)
    BY <1>2, <2>1, <2>3 DEF GoesOn, Carry
  <2>4. CASE UNCHANGED <<conn, nb, sock, concurrency, ref>>
    BY <1>4, <2>1, <2>4
  <2> QED BY <2>1, <2>2, <2>3, <2>4 DEF Effect
<1>6. ASSUME NEW c \in Conns, HttpDtor(c)
      PROVE  RootInv'
  <2>1. NoConn.root = NoRoot
    BY DEF NoConn
  <2>2. Accounts(c, NoConn.root)
    BY <1>6, <2>1 DEF HttpDtor, Accounts
  <2> QED BY <1>2, <1>6, <2>2 DEF HttpDtor
<1>7. ASSUME NEW l \in Listeners, ListenerRead(l)
      PROVE  RootInv'
  <2>1. UNCHANGED <<vhost, fresh, ref>>
    BY <1>7 DEF ListenerRead, rootVars
  <2>2. CASE UNCHANGED conn
    BY <1>4, <2>1, <2>2
  <2>3. ASSUME NEW c \in FreeSlots, Accepted(l, c)
        PROVE  RootInv'
    <3>1. c \in Conns /\ conn'[c].root = NoRoot
      BY <1>1, <2>3 DEF FreeSlots, Accepted, NoConn
    <3>2. \A d \in Conns \ {c} : conn'[d].root = conn[d].root
      BY <1>1, <2>3 DEF Accepted
    <3>3. ASSUME NEW w \in Roots
          PROVE  ref'[w] >= Cardinality(Users(w)') + (IF vhost' = w THEN 1 ELSE 0)
      <4>1. Users(w)' \in SUBSET Users(w) /\ Users(w) \in SUBSET Conns
        BY <3>1, <3>2, RootAssumption DEF Users
      <4>2. /\ IsFiniteSet(Users(w)) /\ Cardinality(Users(w)') <= Cardinality(Users(w))
            /\ Cardinality(Users(w)') \in Nat /\ Cardinality(Users(w)) \in Nat
        <5>1. IsFiniteSet(Users(w))
          BY <4>1, FiniteAssumption, FS_Subset
        <5>2. IsFiniteSet(Users(w)')
              /\ Cardinality(Users(w)') <= Cardinality(Users(w))
          BY <4>1, <5>1, FS_Subset
        <5> QED BY <5>1, <5>2, FS_CardinalityType
      <4>3. ref[w] >= Cardinality(Users(w)) + (IF vhost = w THEN 1 ELSE 0)
        BY DEF RootInv, RootPinned, Users
      <4>4. ref[w] \in Int
        BY <1>1
      <4> QED BY <2>1, <4>2, <4>3, <4>4
    <3>4. RootPinned'
      BY <3>3 DEF RootPinned, Users
    <3>5. \A w \in fresh : w # NoRoot
      BY <1>1, RootAssumption
    <3>6. \A w \in fresh' : vhost' # w /\ \A d \in Conns : conn'[d].root # w
      BY <2>1, <3>1, <3>2, <3>5 DEF RootInv
    <3> QED BY <3>4, <3>6 DEF RootInv
  <2> QED BY <1>7, <2>2, <2>3 DEF ListenerRead
<1>8. ASSUME NEW c \in Conns, HandleCompletion(c)
      PROVE  RootInv'
  <2>1. UNCHANGED <<vhost, fresh, ref>>
    BY <1>8 DEF HandleCompletion, rootVars
  <2>2. CASE HttpKill(c, conn[c], nb[c])
    BY <1>3, <2>1, <2>2 DEF Accounts
  <2>3. ASSUME NEW n, Carry(c, [conn[c] EXCEPT !.w = @ + n],
                            NbioWake(nb[c], {WRITE}), sock[c])
        PROVE  RootInv'
    <3> DEFINE g == [conn[c] EXCEPT !.w = @ + n]
    <3>1. g.root = conn[c].root
      BY <1>1 DEF ConnType
    <3> HIDE DEF g
    <3>2. conn' = [conn EXCEPT ![c] = g] /\ Accounts(c, g.root)
      BY <2>1, <2>3, <3>1 DEF Carry, Accounts, g
    <3> QED BY <1>2, <2>1, <3>2
  <2> QED BY <1>8, <2>2, <2>3 DEF HandleCompletion
<1>9. CASE VhostDel
  <2>1. /\ ref' = [ref EXCEPT ![vhost] = @ - 1] /\ vhost' = NoRoot /\ vhost \in Roots
        /\ UNCHANGED <<conn, fresh>>
    BY <1>1, <1>9 DEF VhostDel, Unref
  <2>2. ASSUME NEW w \in Roots
        PROVE  ref'[w] >= Cardinality(Users(w)') + (IF vhost' = w THEN 1 ELSE 0)
    <3>1. Users(w)' = Users(w) /\ Cardinality(Users(w)) \in Nat
      <4>1. Users(w) \in SUBSET Conns
        BY DEF Users
      <4>2. Cardinality(Users(w)) \in Nat
        BY <4>1, FiniteAssumption, FS_Subset, FS_CardinalityType
      <4> QED BY <2>1, <4>2 DEF Users
    <3>2. ref[w] >= Cardinality(Users(w)) + (IF vhost = w THEN 1 ELSE 0)
      BY DEF RootInv, RootPinned, Users
    <3>3. ref[w] \in Int /\ w # NoRoot /\ ref'[w] = IF vhost = w THEN ref[w] - 1 ELSE ref[w]
      BY <1>1, <2>1, RootAssumption
    <3> QED BY <2>1, <3>1, <3>2, <3>3
  <2>3. RootPinned'
    BY <2>2 DEF RootPinned, Users
  <2> QED BY <1>1, <2>1, <2>3, RootAssumption DEF RootInv
<1>10. ASSUME NEW v \in Roots, VhostAdd(v)
       PROVE  RootInv'
  <2>1. /\ v \in fresh /\ ref' = [Unref(vhost) EXCEPT ![v] = 1] /\ vhost' = v
        /\ fresh' = fresh \ {v} /\ UNCHANGED conn
    BY <1>10 DEF VhostAdd
  <2>2. vhost # v /\ Users(v) = {}
    BY <2>1 DEF RootInv, Users
  <2>3. ASSUME NEW w \in Roots
        PROVE  ref'[w] >= Cardinality(Users(w)') + (IF vhost' = w THEN 1 ELSE 0)
    <3>1. Users(w)' = Users(w) /\ Cardinality(Users(w)) \in Nat
      <4>1. Users(w) \in SUBSET Conns
        BY DEF Users
      <4>2. Cardinality(Users(w)) \in Nat
        BY <4>1, FiniteAssumption, FS_Subset, FS_CardinalityType
      <4> QED BY <2>1, <4>2 DEF Users
    <3>2. ref[w] >= Cardinality(Users(w)) + (IF vhost = w THEN 1 ELSE 0)
      BY DEF RootInv, RootPinned, Users
    <3>3. CASE w = v
      <4>1. ref'[w] = 1
        BY <1>1, <2>1, <3>3 DEF Unref
      <4>2. Users(w)' = {}
        BY <2>2, <3>1, <3>3
      <4>3. Cardinality(Users(w)') = 0
        BY <4>2, FS_EmptySet
      <4> QED BY <4>1, <4>3
    <3>4. CASE w # v
      <4>1. ref[w] \in Int /\ w # NoRoot
            /\ ref'[w] = IF vhost = w THEN ref[w] - 1 ELSE ref[w]
        BY <1>1, <2>1, <3>4, RootAssumption DEF Unref
      <4> QED BY <2>1, <3>1, <3>2, <3>4, <4>1
    <3> QED BY <3>3, <3>4
  <2>4. RootPinned'
    BY <2>3 DEF RootPinned, Users
  <2> QED BY <2>1, <2>4 DEF RootInv
<1>11. CASE \E c \in Conns : ConnStep(c)
  BY <1>4, <1>5, <1>6, <1>11 DEF ConnStep, Sweep, rootVars
<1>12. CASE \E l \in Listeners : ListenerRead(l)
  BY <1>7, <1>12
<1>13. CASE AioStep
  BY <1>4, <1>8, <1>13 DEF AioStep, EfdRead, AioEvent, rootVars
<1>14. CASE EpollWait
  BY <1>4, <1>14 DEF EpollWait, rootVars
<1>15. CASE Admin
  BY <1>9, <1>10, <1>15 DEF Admin
<1>16. CASE Peer
  BY <1>4, <1>16 DEF Peer, PeerConnect, PeerSend, PeerFin, PeerReset, PeerDrain,
                     PeerStep, AioDone, rootVars
<1>17. CASE UNCHANGED vars
  BY <1>4, <1>17 DEF vars
<1> QED BY <1>11, <1>12, <1>13, <1>14, <1>15, <1>16, <1>17 DEF Next, Server

\* main() gives the one web root in the table its one reference.
LEMMA InitRootInv == Init => RootInv
<1> SUFFICES ASSUME Init PROVE RootInv
  OBVIOUS
<1>1. PICK v \in Roots : /\ vhost = v /\ fresh = Roots \ {v}
                         /\ ref = [x \in Roots |-> IF x = v THEN 1 ELSE 0]
  BY DEF Init
<1>2. \A c \in Conns : conn[c].root = NoRoot
  BY DEF Init, NoConn
<1>3. ASSUME NEW w \in Roots
      PROVE  ref[w] >= Cardinality(Users(w)) + (IF vhost = w THEN 1 ELSE 0)
  <2>1. Users(w) = {}
    BY <1>2, RootAssumption DEF Users
  <2> QED BY <1>1, <2>1, FS_EmptySet
<1>4. RootPinned
  BY <1>3 DEF RootPinned, Users
<1> QED BY <1>1, <1>2, <1>4, RootAssumption DEF RootInv

\* A web root has a reference for the vhost table that holds it and one for each
\* connection that does: vhost_del() and vhost_add() while files of it are being
\* sent do not close it.
THEOREM RootsArePinned == Spec => []RootPinned
<1> DEFINE Inv == IInv /\ RootInv
<1>1. Init => Inv
  BY InitIInv, InitRootInv
<1>2. Inv /\ [Next]_vars => Inv'
  BY NextIInv, NextRootInv
<1>3. Inv => RootPinned
  BY DEF RootInv
<1> QED BY <1>1, <1>2, <1>3, PTL DEF Spec

-----------------------------------------------------------------------------
(* Connections and descriptors. *)

\* Only a listener that found no descriptor left waits for one.
OomInv ==
    "accept" \notin Fails /\ (\E l \in Listeners : nb[l].list = "oomq")
    => concurrency >= MaxFds

CountInv == ConcurrencyExact /\ OomInv

\* A step of c, after which it holds a descriptor or not, and leaked.fd others
\* are lost.
LEMMA HolderStep ==
    ASSUME IInv, ConcurrencyExact, NEW c \in Conns, NEW has \in {0, 1},
           NEW had \in {0, 1}, NEW gone \in Nat,
           conn[c].fd <=> had = 1, conn'[c].fd <=> has = 1,
           \A d \in Conns \ {c} : conn'[d].fd = conn[d].fd,
           leaked'.fd = leaked.fd + gone,
           concurrency' = concurrency + has - had + gone
    PROVE  ConcurrencyExact' /\ concurrency \in Nat
<1>1. /\ Holders \in SUBSET Conns /\ Holders' \subseteq Holders \cup {c}
      /\ Holders \ {c} \subseteq Holders'
      /\ (c \in Holders' <=> has = 1) /\ (c \in Holders <=> had = 1)
  BY DEF Holders
<1>2. /\ Cardinality(Holders) \in Nat
      /\ Cardinality(Holders') = Cardinality(Holders)
            + (IF has = 1 /\ had # 1 THEN 1 ELSE 0)
            - (IF had = 1 /\ has # 1 THEN 1 ELSE 0)
  BY <1>1, OneMore
<1>3. Cardinality(Holders') = Cardinality(Holders) + has - had
  BY <1>2
<1>4. /\ leaked.fd \in Nat /\ concurrency \in Int
      /\ concurrency = Cardinality(Holders) + leaked.fd
  BY DEF IInv, TypeOK, ConcurrencyExact, FdsUsed, Holders
<1>5. concurrency' = Cardinality(Holders') + leaked'.fd
  BY <1>2, <1>3, <1>4
<1> QED BY <1>2, <1>4, <1>5 DEF ConcurrencyExact, FdsUsed, Holders

\* A step that changes nobody's descriptor, and counts nothing.
LEMMA HoldersKept ==
    ASSUME ConcurrencyExact, \A c \in Conns : conn'[c].fd = conn[c].fd,
           leaked'.fd = leaked.fd, UNCHANGED concurrency
    PROVE  ConcurrencyExact'
<1>1. Holders' = Holders
  BY DEF Holders
<1> QED BY <1>1 DEF ConcurrencyExact, FdsUsed, Holders

\* A step that frees no descriptor and makes no listener wait for one.
LEMMA OomKept ==
    ASSUME IInv, OomInv,
           \A l \in Listeners : nb'[l].list = "oomq" => nb[l].list = "oomq",
           concurrency' \in Int, concurrency' >= concurrency
    PROVE  OomInv'
<1>1. concurrency \in Int /\ MaxFds \in Nat
  BY SizeAssumption DEF IInv, TypeOK
<1> QED BY <1>1 DEF OomInv

\* http_kill() of a connection that is being served takes it off the count,
\* and leaves no listener waiting.
LEMMA KillCounts ==
    ASSUME IInv, CountInv, NEW c \in Conns, Serving(conn[c]), NEW h, NEW k,
           HttpKill(c, h, k), leaked'.fd = leaked.fd
    PROVE  CountInv'
<1>1. conn \in [Conns -> ConnType] /\ nb \in [Nbios -> NbioType]
      /\ leaked.fd \in Nat /\ concurrency \in Int
  BY DEF IInv, TypeOK
<1>2. conn[c].fd
  BY DEF IInv, ConnInv, ConnOK, HoldsOK
<1>3. ~conn'[c].fd /\ \A d \in Conns \ {c} : conn'[d].fd = conn[d].fd
  BY <1>1 DEF HttpKill, DeadConn, NoConn
<1>4. ConcurrencyExact'
  <2>1. /\ concurrency' = concurrency + 0 - 1 + 0
        /\ leaked'.fd = leaked.fd + 0
    BY <1>1 DEF HttpKill
  <2>2. (conn[c].fd <=> 1 = 1) /\ (conn'[c].fd <=> 0 = 1) /\ 0 \in Nat
    BY <1>2, <1>3
  <2> QED BY <1>3, <2>1, <2>2, HolderStep DEF CountInv
<1>5. ASSUME NEW l \in Listeners
      PROVE  nb'[l].list # "oomq"
  <2>1. l \in Nbios \ {c} /\ nb[l] \in NbioType
    BY <1>1, NbioAssumption DEF Nbios
  <2>2. nb'[l] = IF nb[l].list = "oomq" THEN NbioWake(nb[l], {READ}) ELSE nb[l]
    BY <2>1 DEF HttpKill
  <2>3. NbioWake(nb[l], {READ}).list = "active"
    BY <2>1, SetWaitProps DEF NbioWake, Lists
  <2> QED BY <2>2, <2>3
<1> QED BY <1>4, <1>5 DEF CountInv, OomInv

\* A step that leaves the counters and the descriptors as they are.
LEMMA CountKept ==
    ASSUME IInv, CountInv, \A c \in Conns : conn'[c].fd = conn[c].fd,
           leaked'.fd = leaked.fd, UNCHANGED concurrency,
           \A l \in Listeners : nb'[l].list \in {nb[l].list, "active", "inactive"}
    PROVE  CountInv'
<1>1. concurrency \in Int /\ concurrency' \in Int /\ concurrency' >= concurrency
  BY DEF IInv, TypeOK
<1> QED BY <1>1, HoldersKept, OomKept DEF CountInv

\* http_read() and http_write()
LEMMA CallbackCounts ==
    ASSUME IInv, CountInv, NEW c \in Conns, HttpRead(c) \/ HttpWrite(c)
    PROVE  CountInv'
<1>1. Serving(conn[c]) /\ Effect(c)
  BY ReadEffect, WriteEffect
<1>2. conn \in [Conns -> ConnType] /\ nb \in [Nbios -> NbioType]
      /\ \A l \in Listeners : l \in Nbios \ {c}
  BY NbioAssumption DEF IInv, TypeOK, Nbios
<1>3. CASE Ends(c)
  BY <1>1, <1>3, KillCounts DEF Ends, Effect
<1>4. CASE GoesOn(c)
  <2>1. PICK h, k, s : Carry(c, h, k, s) /\ h.fd = conn[c].fd
    BY <1>4 DEF GoesOn
  <2>2. \A d \in Conns : conn'[d].fd = conn[d].fd
    BY <1>2, <2>1 DEF Carry
  <2>3. \A l \in Listeners : nb'[l] = nb[l]
    BY <1>2, <2>1 DEF Carry
  <2> QED BY <1>1, <2>1, <2>2, <2>3, CountKept DEF Effect, Carry
<1>5. CASE UNCHANGED <<conn, nb, sock, concurrency, ref>>
  BY <1>1, <1>5, CountKept DEF Effect
<1> QED BY <1>1, <1>3, <1>4, <1>5 DEF Effect

\* http_dtor() closes no descriptor: one that it finds open is lost, and goes
\* on being counted.
LEMMA DtorCounts ==
    ASSUME IInv, CountInv, NEW c \in Conns, HttpDtor(c)
    PROVE  CountInv'
<1>1. /\ conn \in [Conns -> ConnType] /\ nb \in [Nbios -> NbioType]
      /\ leaked \in [fd : Nat, iocb : Nat, buf : Nat] /\ concurrency \in Int
  BY DEF IInv, TypeOK
<1>2. /\ conn' = [conn EXCEPT ![c] = NoConn] /\ nb' = [nb EXCEPT ![c] = NoNbio]
      /\ leaked'.fd = leaked.fd + (IF conn[c].fd THEN 1 ELSE 0)
      /\ UNCHANGED concurrency
  BY <1>1, LeakProps DEF HttpDtor
<1>3. ~conn'[c].fd /\ \A d \in Conns \ {c} : conn'[d].fd = conn[d].fd
  BY <1>1, <1>2 DEF NoConn
<1>4. \A l \in Listeners : nb'[l] = nb[l]
  BY <1>1, <1>2, NbioAssumption DEF Nbios
<1>5. ConcurrencyExact'
  <2>1. CASE conn[c].fd
    <3>1. leaked'.fd = leaked.fd + 1
      BY <1>1, <1>2, <2>1
    <3>2. concurrency' = concurrency + 0 - 1 + 1
      BY <1>1, <1>2
    <3>3. (conn[c].fd <=> 1 = 1) /\ (conn'[c].fd <=> 0 = 1) /\ 1 \in Nat
      BY <1>3, <2>1
    <3> QED BY <1>3, <3>1, <3>2, <3>3, HolderStep DEF CountInv
  <2>2. CASE ~conn[c].fd
    <3>1. leaked'.fd = leaked.fd + 0
      BY <1>1, <1>2, <2>2
    <3>2. concurrency' = concurrency + 0 - 0 + 0
      BY <1>1, <1>2
    <3>3. (conn[c].fd <=> 0 = 1) /\ (conn'[c].fd <=> 0 = 1) /\ 0 \in Nat
      BY <1>3, <2>2
    <3> QED BY <1>3, <3>1, <3>2, <3>3, HolderStep DEF CountInv
  <2> QED BY <2>1, <2>2
<1>6. OomInv'
  <2>1. concurrency' \in Int /\ concurrency' >= concurrency
    BY <1>1, <1>2
  <2> QED BY <1>4, <2>1, OomKept DEF CountInv
<1> QED BY <1>5, <1>6 DEF CountInv

\* listener_read()
LEMMA ListenerCounts ==
    ASSUME IInv, CountInv, NEW l \in Listeners, ListenerRead(l)
    PROVE  CountInv'
<1>1. /\ conn \in [Conns -> ConnType] /\ nb \in [Nbios -> NbioType]
      /\ leaked.fd \in Nat /\ concurrency \in Int /\ UNCHANGED leaked
      /\ l \in Nbios \ Conns /\ nb[l].mask \subseteq {READ, WRITE}
  BY NbioAssumption DEF IInv, TypeOK, Nbios, ListenInv, ListenerRead
<1>2. nb[l] \in NbioType /\ \A m \in Listeners : m \in Nbios \ Conns
  BY <1>1, NbioAssumption DEF Nbios
<1>3. NbioSetWait(nb[l], {READ}).list = "active"
  BY <1>2, SetWaitProps DEF NbioSetWait, Lists
<1>4. ASSUME NEW c \in FreeSlots, Accepted(l, c)
      PROVE  CountInv'
  <2>1. c \in Conns /\ ~conn[c].fd
    BY DEF FreeSlots, IInv, ConnInv, ConnOK, HoldsOK, Serving
  <2>2. conn'[c].fd /\ \A d \in Conns \ {c} : conn'[d].fd = conn[d].fd
    BY <1>1, <1>4, <2>1 DEF Accepted, NoConn
  <2>3. \A m \in Listeners : nb'[m].list \in {nb[m].list, "active"}
    BY <1>1, <1>2, <1>3, <1>4, <2>1 DEF Accepted
  <2>4. ConcurrencyExact' /\ concurrency' = concurrency + 1
    <3>1. concurrency' = concurrency + 1 - 0 + 0 /\ leaked'.fd = leaked.fd + 0
      BY <1>1, <1>4 DEF Accepted
    <3>2. (conn[c].fd <=> 0 = 1) /\ (conn'[c].fd <=> 1 = 1) /\ 0 \in Nat
      BY <2>1, <2>2
    <3> QED BY <1>1, <2>1, <2>2, <3>1, <3>2, HolderStep DEF CountInv
  <2>5. concurrency' \in Int /\ concurrency' >= concurrency
    BY <1>1, <2>4
  <2> QED BY <2>3, <2>4, <2>5, OomKept DEF CountInv
<1>5. ASSUME NEW k, nb' = [nb EXCEPT ![l] = k], UNCHANGED <<conn, concurrency>>,
             k.list \in {nb[l].list, "active", "inactive"}
      PROVE  CountInv'
  <2>1. \A m \in Listeners : nb'[m].list \in {nb[m].list, "active", "inactive"}
    BY <1>1, <1>2, <1>5
  <2> QED BY <1>1, <1>5, <2>1, CountKept
<1>6. CASE /\ nb' = [nb EXCEPT ![l] = NbioSetWait(@, {READ})]
           /\ UNCHANGED <<conn, sock, concurrency>>
  BY <1>3, <1>5, <1>6
<1>7. ASSUME NEW ok \in CtlResults, UNCHANGED <<conn, sock, concurrency>>,
             nb' = [nb EXCEPT ![l] = NbioInactive(@, {READ}, FALSE, ok)]
      PROVE  CountInv'
  <2>1. PICK W \in SUBSET {READ, WRITE} : W = {READ}
    OBVIOUS
  <2>2. PICK ready \in BOOLEAN : ready = FALSE
    OBVIOUS
  <2>3. NbioInactive(nb[l], W, ready, ok).list \in {nb[l].list, "inactive"}
    BY <1>2 DEF NbioInactive, EpollInactive, NbioType
  <2> QED BY <1>5, <1>7, <2>1, <2>2, <2>3
<1>8. CASE /\ FdsUsed >= MaxFds \/ "accept" \in Fails
           /\ UNCHANGED <<conn, sock, concurrency, backlog>>
  <2>1. ConcurrencyExact'
    BY <1>1, <1>8, HoldersKept DEF CountInv
  <2>2. "accept" \notin Fails => concurrency' >= MaxFds
    BY <1>8 DEF CountInv, ConcurrencyExact
  <2> QED BY <2>1, <2>2 DEF CountInv, OomInv
<1>9. CASE UNCHANGED <<conn, nb, sock, concurrency>>
  BY <1>1, <1>9, CountKept
<1> QED BY <1>4, <1>6, <1>7, <1>8, <1>9 DEF ListenerRead

\* Every step keeps the counts.
LEMMA NextCountInv ==
    ASSUME IInv, CountInv, [Next]_vars
    PROVE  CountInv'
<1>1. conn \in [Conns -> ConnType] /\ nb \in [Nbios -> NbioType]
      /\ \A l \in Listeners : l \in Nbios \ Conns /\ l # Efd
  BY NbioAssumption DEF IInv, TypeOK, Nbios
<1>2. ASSUME UNCHANGED <<conn, concurrency, leaked>>,
             \A l \in Listeners : nb'[l].list \in {nb[l].list, "active"}
      PROVE  CountInv'
  BY <1>2, CountKept
<1>3. ASSUME NEW n \in Nbios \ Listeners, NEW k, nb' = [nb EXCEPT ![n] = k],
             UNCHANGED <<conn, concurrency, leaked>>
      PROVE  CountInv'
  BY <1>1, <1>2, <1>3
<1>4. ASSUME NEW c \in Conns, HandleCompletion(c)
      PROVE  CountInv'
  <2>1. Serving(conn[c]) /\ UNCHANGED leaked
    <3>1. aio[c] # "none" /\ ConnOK(conn[c], nb[c], aio[c])
      BY <1>4 DEF HandleCompletion, IInv, VisitInv, ConnInv
    <3> QED BY <1>4, <3>1 DEF ConnOK, WaitOK, Serving, HandleCompletion
  <2>2. CASE HttpKill(c, conn[c], nb[c])
    BY <2>1, <2>2, KillCounts
  <2>3. ASSUME NEW n, NEW k, Carry(c, [conn[c] EXCEPT !.w = @ + n], k, sock[c])
        PROVE  CountInv'
    <3>1. \A d \in Conns : conn'[d].fd = conn[d].fd
      BY <1>1, <2>3 DEF Carry, ConnType
    <3>2. \A l \in Listeners : nb'[l] = nb[l]
      BY <1>1, <2>3 DEF Carry
    <3> QED BY <2>1, <2>3, <3>1, <3>2, CountKept DEF Carry
  <2> QED BY <1>4, <2>2, <2>3 DEF HandleCompletion
<1>5. CASE \E c \in Conns : ConnStep(c)
  <2>1. ASSUME NEW c \in Conns, Sweep(c)
        PROVE  CountInv'
    BY <1>3, <2>1, NbioAssumption DEF Sweep, Nbios
  <2> QED BY <1>5, <2>1, CallbackCounts, DtorCounts DEF ConnStep
<1>6. CASE \E l \in Listeners : ListenerRead(l)
  BY <1>6, ListenerCounts
<1>7. CASE AioStep
  <2>1. CASE EfdRead
    <3>1. Efd \in Nbios \ Listeners /\ UNCHANGED <<conn, concurrency, leaked>>
      BY <2>1, NbioAssumption DEF EfdRead, Nbios
    <3>2. UNCHANGED nb \/ \E k : nb' = [nb EXCEPT ![Efd] = k]
      BY <2>1 DEF EfdRead
    <3> QED BY <1>2, <1>3, <3>1, <3>2
  <2> QED BY <1>2, <1>4, <1>7, <2>1 DEF AioStep, AioEvent
<1>8. CASE EpollWait
  <2>1. \A n \in Nbios : \A E \in SUBSET {READ, WRITE, ERROR} :
          EpollDeliver(nb[n], E).list \in {nb[n].list, "active"}
    BY <1>1, DeliverProps
  <2>2. \A n \in Nbios : Events(n, nb[n].want) \in SUBSET {READ, WRITE, ERROR}
    BY DEF Events, SockEvents
  <2>3. \A l \in Listeners : nb'[l].list \in {nb[l].list, "active"}
    BY <1>1, <1>8, <2>1, <2>2 DEF EpollWait
  <2> QED BY <1>2, <1>8, <2>3 DEF EpollWait
<1>9. CASE Admin
  BY <1>2, <1>9 DEF Admin, VhostAdd, VhostDel
<1>10. CASE Peer
  <2>1. ASSUME NEW l \in Listeners, PeerConnect(l)
        PROVE  CountInv'
    <3>1. EpollWakeup(nb[l], {READ}).list = nb[l].list
      BY <1>1 DEF EpollWakeup, NbioType
    <3>2. \A m \in Listeners : nb'[m].list = nb[m].list
      BY <1>1, <2>1, <3>1 DEF PeerConnect
    <3> QED BY <1>2, <2>1, <3>2 DEF PeerConnect
  <2>2. ASSUME NEW c \in Conns, NEW s, NEW k, PeerStep(c, s, k)
        PROVE  CountInv'
    BY <1>3, <2>2, NbioAssumption DEF PeerStep, Nbios
  <2>3. ASSUME NEW c \in Conns, AioDone(c)
        PROVE  CountInv'
    BY <1>3, <2>3, NbioAssumption DEF AioDone, Nbios
  <2> QED BY <1>10, <2>1, <2>2, <2>3 DEF Peer, PeerSend, PeerFin, PeerReset,
                                         PeerDrain
<1>11. CASE UNCHANGED vars
  BY <1>2, <1>11 DEF vars
<1> QED BY <1>5, <1>6, <1>7, <1>8, <1>9, <1>10, <1>11 DEF Next, Server

\* main() starts with no connection.
LEMMA InitCountInv == Init => CountInv
<1> SUFFICES ASSUME Init PROVE CountInv
  OBVIOUS
<1>1. Holders = {}
  BY DEF Init, Holders, NoConn
<1>2. FdsUsed = 0 /\ concurrency = 0
  <2>1. FdsUsed = Cardinality(Holders) + leaked.fd
    BY DEF FdsUsed, Holders
  <2>2. Cardinality(Holders) = 0 /\ leaked.fd = 0 /\ concurrency = 0
    BY <1>1, FS_EmptySet DEF Init
  <2> QED BY <2>1, <2>2
<1>3. \A l \in Listeners : nb[l].list # "oomq"
  BY DEF Init, Nbios, NbioAdd, DoSetWait, EpollActive, NoNbio
<1> QED BY <1>2, <1>3 DEF CountInv, ConcurrencyExact, OomInv

CountedInv == IInv /\ CountInv

\* The counts of connections and of descriptors are exact at every step.
THEOREM CountInductive == Spec => []CountedInv
<1>1. Init => CountedInv
  BY InitIInv, InitCountInv DEF CountedInv
<1>2. CountedInv /\ [Next]_vars => CountedInv'
  BY NextIInv, NextCountInv DEF CountedInv
<1> QED BY <1>1, <1>2, PTL DEF Spec

\* http_conn.c's counter is the number of descriptors held for connections, so
\* http_kill()'s assertion that it is not zero can not fail.
THEOREM ConcurrencyIsExact == Spec => []ConcurrencyExact
<1>1. CountedInv => ConcurrencyExact
  BY DEF CountedInv, CountInv
<1> QED BY <1>1, CountInductive, PTL

\* If accept() fails only for want of a descriptor, a listener waits for one
\* only while all are taken: some connection will yet be killed and wake it, or
\* the error sweep has lost them all.
THEOREM OomIsWoken ==
    ASSUME "accept" \notin Fails
    PROVE  Spec => []OomHasWaker
<1>1. CountedInv => OomHasWaker
  BY DEF CountedInv, CountInv, OomInv, ConcurrencyExact, OomHasWaker
<1> QED BY <1>1, CountInductive, PTL

-----------------------------------------------------------------------------
(* Buffers. *)

LeakInv == leaked.buf <= 3 * leaked.fd

\* Only http_dtor() loses buffers, with the descriptor of a connection that
\* was swept.
LEMMA NextLeakInv ==
    ASSUME IInv, LeakInv, [Next]_vars
    PROVE  LeakInv'
<1>1. leaked \in [fd : Nat, iocb : Nat, buf : Nat]
  BY DEF IInv, TypeOK
<1>2. CASE \E c \in Conns : ConnStep(c)
  <2>1. ASSUME NEW c \in Conns, HttpRead(c) \/ HttpWrite(c)
        PROVE  LeakInv'
    <3>1. Effect(c)
      BY <2>1, ReadEffect, WriteEffect
    <3> QED BY <3>1 DEF Effect, LeakInv
  <2>2. ASSUME NEW c \in Conns, HttpDtor(c)
        PROVE  LeakInv'
    <3>1. leaked' = LeakedBy(conn[c]) /\ conn[c] \in ConnType
      BY <2>2 DEF HttpDtor, IInv, TypeOK
    <3>2. conn[c].fd \/ conn[c].has = {}
      BY DEF IInv, ConnInv, ConnOK, HoldsOK
    <3>3. /\ leaked'.fd = leaked.fd + (IF conn[c].fd THEN 1 ELSE 0)
          /\ \E n \in 0..3 :
                /\ leaked'.buf = leaked.buf + n
                /\ conn[c].has = {} => n = 0
      BY <1>1, <3>1, LeakProps
    <3> QED BY <1>1, <3>2, <3>3 DEF LeakInv
  <2>3. ASSUME NEW c \in Conns, Sweep(c)
        PROVE  LeakInv'
    BY <2>3 DEF Sweep, LeakInv
  <2> QED BY <1>2, <2>1, <2>2, <2>3 DEF ConnStep
<1>3. CASE UNCHANGED leaked
  BY <1>3 DEF LeakInv
<1>4. CASE (\E l \in Listeners : ListenerRead(l)) \/ EpollWait \/ Admin \/ UNCHANGED vars
  BY <1>3, <1>4 DEF ListenerRead, EpollWait, Admin, VhostAdd, VhostDel, vars
<1>5. CASE AioStep
  BY <1>3, <1>5 DEF AioStep, EfdRead, AioEvent, HandleCompletion
<1>6. CASE Peer
  BY <1>3, <1>6 DEF Peer, PeerConnect, PeerStep, PeerSend, PeerFin, PeerReset,
                    PeerDrain, AioDone
<1> QED BY <1>2, <1>4, <1>5, <1>6 DEF Next, Server

\* http_kill() returns every buffer that a connection holds, whatever callback
\* and whatever error it is called from: a connection on the deleted list holds
\* one only if it was swept without http_kill(), and what http_dtor() loses of
\* such connections is three buffers at most with each lost descriptor.
THEOREM BuffersAreReleased == Spec => []BuffersReleased
<1> DEFINE Inv == IInv /\ LeakInv
<1>1. Init => Inv
  BY InitIInv DEF Init, LeakInv
<1>2. Inv /\ [Next]_vars => Inv'
  BY NextIInv, NextLeakInv
<1>3. Inv => BuffersReleased
  BY DEF IInv, ConnInv, ConnOK, HoldsOK, LeakInv, BuffersReleased
<1> QED BY <1>1, <1>2, <1>3, PTL DEF Spec

=============================================================================
