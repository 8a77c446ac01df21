------------------------------ MODULE StrPool -------------------------------
(***************************************************************************)
(* The string pool of strpool.c: strings are cut off the front of the       *)
(* newest slab, and never given back one by one.  A pool is a record, so    *)
(* that its user (Mkroot) can keep it with the rest of its state.           *)
(***************************************************************************)
EXTENDS Integers, Sequences

CONSTANTS StrSlabSize,   \* slab_size
          StrOverhead    \* sizeof(struct strpool_slab)

ASSUME StrPoolAssumption ==
    /\ StrSlabSize \in Nat /\ StrOverhead \in Nat \ {0}
    /\ StrSlabSize >= StrOverhead

\* slabs has the size of each slab, ptr and len are those of the newest;
\* given, the pieces handed out so far, is history.
StrPoolNew == [slabs |-> <<>>, ptr |-> 0, len |-> 0, given |-> <<>>]

Given(m, slab, off, sz) == Append(m.given, [slab |-> slab, off |-> off, len |-> sz])

\* strpool_alloc_slow()
StrPoolAllocSlow(m, sz) ==
    LET need == StrOverhead + sz
        alloc == IF need < StrSlabSize THEN StrSlabSize ELSE need
    IN  [slabs |-> Append(m.slabs, alloc), ptr |-> need, len |-> alloc - need,
         given |-> Given(m, Len(m.slabs) + 1, StrOverhead, sz)]

\* Mutant: one byte more than is left is taken for a fit.
StrPoolFullLate(m, sz) == m.slabs = <<>> \/ m.len + 1 < sz

StrPoolFull(m, sz) == m.slabs = <<>> \/ m.len < sz

\* strpool_alloc()
StrPoolAlloc(m, sz) ==
    IF StrPoolFull(m, sz) THEN StrPoolAllocSlow(m, sz)
    ELSE [m EXCEPT !.ptr = @ + sz, !.len = @ - sz,
                   !.given = Given(m, Len(m.slabs), m.ptr, sz)]

\* No two strings share a byte, and none reaches past its slab or into the
\* slab's own descriptor.
Disjoint(m) ==
    \A i \in DOMAIN m.given :
        LET a == m.given[i] IN
        /\ a.off >= StrOverhead /\ a.off + a.len <= m.slabs[a.slab]
        /\ \A j \in 1..(i - 1) : LET b == m.given[j] IN
              a.slab = b.slab => a.off >= b.off + b.len \/ b.off >= a.off + a.len

=============================================================================
