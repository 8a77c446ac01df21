-------------------------------- MODULE Nbio --------------------------------
(***************************************************************************)
(* The event loop's primitives (nbio.c over the epoll plugin nbio-epoll.c). *)
(*                                                                         *)
(* A struct nbio is a record                                               *)
(*   list   the list its list_head is on: one of the loop's three lists,   *)
(*          the http_conn.c wait queue "oomq", or "none" (not in use)      *)
(*   mask   what its owner waits for, or {DELETED}                         *)
(*   flags  what is believed to be ready                                   *)
(*   poll   ev_priv.poll, the plugin's note that the fd is in the epoll set *)
(* together with the kernel's epoll item for its descriptor, which the     *)
(* plugin creates and deletes and the kernel queues:                       *)
(*   item   "none", "armed" (registered, nothing to report) or "queued"    *)
(*   want   the events of the registration                                 *)
(* Registrations are edge triggered, so an armed item is queued only by    *)
(* something happening to the descriptor after it was registered, or by    *)
(* the readiness test that EPOLL_CTL_ADD makes.                            *)
(***************************************************************************)
EXTENDS Naturals, FiniteSets

READ == "READ"
WRITE == "WRITE"
ERROR == "ERROR"
DELETED == "DELETED"

Lists == {"none", "active", "inactive", "deleted", "oomq"}
Items == {"none", "armed", "queued"}

NbioType == [list : Lists,
             mask : SUBSET {READ, WRITE, DELETED},
             flags : SUBSET {READ, WRITE, ERROR},
             poll : BOOLEAN,
             item : Items,
             want : SUBSET {READ, WRITE}]

\* A struct nbio as calloc or hgang_alloc0 leaves it.
NoNbio == [list |-> "none", mask |-> {}, flags |-> {}, poll |-> FALSE,
           item |-> "none", want |-> {}]

-----------------------------------------------------------------------------
(* The epoll plugin. *)

\* close(2) on the descriptor: the kernel drops the item, the struct keeps
\* its poll bit.
CloseFd(n) == [n EXCEPT !.item = "none", !.want = {}]

\* Mutant: the registration is left behind.
EpollActiveKeeps(n, open) == n

\* plugin->active: EPOLL_CTL_DEL, unless never registered or already closed.
EpollActive(n, open) ==
    IF n.poll /\ open
    THEN [n EXCEPT !.poll = FALSE, !.item = "none", !.want = {}]
    ELSE n

\* Mutant: the descriptor is never registered.
EpollInactiveNever(n, ready, ok) == n

\* plugin->inactive: EPOLL_CTL_ADD with the mask's events.  ready says
\* whether the descriptor is ready for them now; ok is FALSE when epoll_ctl
\* fails, which the plugin ignores.
EpollInactive(n, ready, ok) ==
    IF n.poll \/ ~ok
    THEN n
    ELSE [n EXCEPT !.poll = TRUE,
                   !.item = IF ready THEN "queued" ELSE "armed",
                   !.want = n.mask]

\* What plugin->pump does with one event: the item stays registered.  An
\* item whose readiness has gone since it was queued is not reported.
EpollDeliver(n, events) ==
    IF events = {}
    THEN [n EXCEPT !.item = "armed"]
    ELSE [n EXCEPT !.item = "armed", !.flags = events, !.list = "active"]

\* The kernel's wake-up callback when one of the events happens.
EpollWakeup(n, events) ==
    IF n.item = "armed" /\ n.want \cap events # {}
    THEN [n EXCEPT !.item = "queued"]
    ELSE n

\* The same for a hang-up or an error, which every registration includes.
EpollHangup(n) == IF n.item = "armed" THEN [n EXCEPT !.item = "queued"] ELSE n

-----------------------------------------------------------------------------
(* nbio.c *)

\* Mutant: the nbio is not put on the deleted list.
NbioDelForgets(n, open) ==
    [EpollActive(n, open) EXCEPT !.mask = {DELETED}, !.flags = {},
                                 !.list = "none"]

NbioDel(n, open) ==
    [EpollActive(n, open) EXCEPT !.mask = {DELETED}, !.flags = {},
                                 !.list = "deleted"]

\* Mutant: an nbio with nothing due stays on the active list.
NbioInactiveStays(n, which, ready, ok) == [n EXCEPT !.flags = @ \ which]

NbioInactive(n, which, ready, ok) ==
    LET k == [n EXCEPT !.flags = @ \ which]
    IN  IF k.mask \cap k.flags = {}
        THEN EpollInactive([k EXCEPT !.list = "inactive"], ready, ok)
        ELSE k

DoSetWait(n, wait, q) ==
    LET k == EpollActive([n EXCEPT !.mask = wait, !.flags = wait], TRUE)
    IN  [k EXCEPT !.list = IF wait = {} THEN q ELSE "active"]

NbioSetWait(n, wait) == DoSetWait(n, wait, "inactive")
NbioToWaitq(n, q) == DoSetWait(n, {}, q)

NbioWake(n, wait) == DoSetWait(n, wait, "inactive")
NbioAdd(wait) == DoSetWait(NoNbio, wait, "inactive")

\* nbio_pump's answer to NBIO_ERROR after the callbacks had their chance.
NbioSweep(n) ==
    [n EXCEPT !.mask = {DELETED}, !.flags = {}, !.list = "deleted"]

\* The callbacks nbio_pump owes an nbio on the active list.
Due(n) == n.flags \cap n.mask

=============================================================================
