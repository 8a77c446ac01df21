------------------------------ MODULE NbioPoll ------------------------------
(***************************************************************************)
(* The poll plugin of nbio, which httpd falls back to without epoll         *)
(* (nbio-poll.c).  An array of pollfd names the descriptors of the inactive *)
(* list, and each nbio keeps the index of its entry.  poll_pump() packs the *)
(* array while it walks the list.  An nbio stands for its descriptor, and   *)
(* waits for input.                                                         *)
(***************************************************************************)
EXTENDS Integers, Sequences, SequencesExt

CONSTANT Nbios   \* finitely many

Free == "free"
Slots == 0..(Cardinality(Nbios) - 1)

VARIABLES
    active,     \* the active list, as a set
    inactive,   \* the inactive list
    index,      \* ev_priv.poll
    pfd,        \* the array: fd, and whether revents is not 0
    num         \* num_pfd

vars == <<active, inactive, index, pfd, num>>

Init ==
    /\ active = Nbios /\ inactive = <<>>
    /\ index = [n \in Nbios |-> -1]
    /\ pfd = [i \in Slots |-> [fd |-> Free, revents |-> FALSE]]
    /\ num = 0

\* A callback has read all there is: nbio_inactive() and poll_inactive().
Inactive(n) ==
    /\ n \in active
    /\ active' = active \ {n}
    /\ inactive' = Append(inactive, n)
    /\ pfd' = [pfd EXCEPT ![num].fd = n]
    /\ index' = [index EXCEPT ![n] = num]
    /\ num' = num + 1

\* What poll_pump() does with the next nbio of the list.
PumpOne(s, n) ==
    LET mine == s.pfd[s.index[n]]
    IN  IF s.index[n] < 0 THEN s
        ELSE IF ~mine.revents
        THEN [s EXCEPT !.pfd[s.num].fd = mine.fd, !.num = @ + 1]
        ELSE [s EXCEPT !.index[n] = -1, !.active = @ \cup {n}]

\* poll_pump(), when the descriptors in ready have input.  nbio_pump() calls it
\* with nothing left on the active list.
Pump(ready) ==
    /\ active = {} /\ inactive # <<>>
    /\ \E i \in 0..(num - 1) : pfd[i].fd \in ready
    /\ LET polled == [i \in Slots |-> IF i < num
                                      THEN [pfd[i] EXCEPT !.revents = pfd[i].fd \in ready]
                                      ELSE pfd[i]]
           s == FoldLeft(PumpOne,
                    [index |-> index, pfd |-> polled, num |-> 0, active |-> {}],
                    inactive)
       IN  /\ index' = s.index /\ pfd' = s.pfd /\ num' = s.num
           /\ active' = s.active
           /\ inactive' = SelectSeq(inactive, LAMBDA n : n \notin s.active)

Next ==
    \/ \E n \in Nbios : Inactive(n)
    \/ \E ready \in SUBSET Nbios : Pump(ready)

Spec == Init /\ [][Next]_vars

-----------------------------------------------------------------------------

\* poll does for httpd what epoll does: the descriptor of every nbio on the
\* inactive list is among those the next poll() waits for.
StillPolled ==
    \A k \in DOMAIN inactive : \E i \in 0..(num - 1) : pfd[i].fd = inactive[k]

=============================================================================
