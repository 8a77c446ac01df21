-------------------------------- MODULE HGang -------------------------------
(***************************************************************************)
(* The slab allocator of hgang.c, from which connections, buffers, iocbs    *)
(* and trie edges come.  A pool carves objects off its newest slab in       *)
(* order.  Returned objects are kept on a list that is threaded through the *)
(* objects themselves, so a word of each is the allocator's while the       *)
(* object is free and its owner's while it is not.                          *)
(***************************************************************************)
EXTENDS Integers, FiniteSets

CONSTANTS PerSlab,    \* objects to a slab
          MaxSlabs,   \* bound: slabs malloc() can supply
          Null        \* the null pointer

\* An object is the number of its slab and its place in it.
Objs == (1..MaxSlabs) \X (1..PerSlab)

ASSUME SlabAssumption == PerSlab \in Nat \ {0} /\ MaxSlabs \in Nat
ASSUME NullAssumption == Null \notin Objs

VARIABLES slabs,   \* the slabs so far; the newest has the highest number
          next,    \* objects carved off the newest slab: next_obj
          free,    \* the head of the list of returned objects
          word,    \* the first word of every object
          owned,   \* history: the objects in their users' hands
          peak     \* history: the most there ever were

vars == <<slabs, next, free, word, owned, peak>>

Init ==
    /\ slabs = 0 /\ next = 0 /\ free = Null
    /\ word = [o \in Objs |-> Null]
    /\ owned = {} /\ peak = 0

Highest(a, b) == IF a > b THEN a ELSE b

\* The user gets o; hgang_alloc0() clears it, hgang_alloc() does not.
Grant(o, zero) ==
    /\ owned' = owned \cup {o}
    /\ peak' = Highest(peak, Cardinality(owned'))
    /\ word' = IF zero THEN [word EXCEPT ![o] = Null] ELSE word

\* Mutant: the object stays on the list.
AllocReturnedKeeps(zero) ==
    /\ free # Null
    /\ Grant(free, zero)
    /\ UNCHANGED <<slabs, next, free>>

\* hgang_alloc(): a returned object is taken first,
AllocReturned(zero) ==
    /\ free # Null
    /\ free' = word[free]
    /\ Grant(free, zero)
    /\ UNCHANGED <<slabs, next>>

\* obj_in_slab() of the next object is false.
SlabFull == slabs = 0 \/ next >= PerSlab

\* then what is left of the newest slab,
AllocCarved(zero) ==
    /\ free = Null /\ ~SlabFull
    /\ next' = next + 1
    /\ Grant(<<slabs, next'>>, zero)
    /\ UNCHANGED <<slabs, free>>

\* Mutant: returned objects are not looked for.
AllocSlowAnyway(zero) ==
    /\ SlabFull /\ slabs < MaxSlabs
    /\ slabs' = slabs + 1 /\ next' = 1
    /\ Grant(<<slabs', 1>>, zero)
    /\ UNCHANGED free

\* and hgang_alloc_slow() comes last.
AllocSlow(zero) ==
    /\ free = Null /\ SlabFull /\ slabs < MaxSlabs
    /\ slabs' = slabs + 1 /\ next' = 1
    /\ Grant(<<slabs', 1>>, zero)
    /\ UNCHANGED free

\* hgang_return()
Return(o) ==
    /\ o \in owned
    /\ word' = [word EXCEPT ![o] = free]
    /\ free' = o
    /\ owned' = owned \ {o}
    /\ UNCHANGED <<slabs, next, peak>>

\* The owner of an object writes to it: any pointer may come to stand there.
Use(o, p) ==
    /\ o \in owned
    /\ word' = [word EXCEPT ![o] = p]
    /\ UNCHANGED <<slabs, next, free, owned, peak>>

Alloc(zero) == AllocReturned(zero) \/ AllocCarved(zero) \/ AllocSlow(zero)

Next ==
    \/ \E zero \in BOOLEAN : Alloc(zero)
    \/ \E o \in Objs : Return(o) \/ \E p \in Objs \cup {Null} : Use(o, p)

Spec == Init /\ [][Next]_vars

-----------------------------------------------------------------------------
(* Properties. *)

Carved == {o \in Objs : o[1] < slabs \/ (o[1] = slabs /\ o[2] <= next)}
Returned == Carved \ owned

\* The first objects of the list, in order; Null past its end.
Walk ==
    LET walk[i \in 0..Cardinality(Objs)] ==
            IF i = 0 THEN free
            ELSE IF walk[i - 1] = Null THEN Null ELSE word[walk[i - 1]]
    IN  walk

\* The list that runs through the returned objects holds each of them once and
\* nothing else, whatever their users write to the objects they own: so no
\* object is ever handed to a second user, and none is lost.
ListExact ==
    LET n == Cardinality(Returned)
    IN  /\ owned \subseteq Carved
        /\ {Walk[i] : i \in 0..(n - 1)} = Returned
        /\ Walk[n] = Null

\* malloc() is a last resort: a pool has never more slabs than its highest
\* number of objects in use at one time requires.
NoHoarding == (slabs - 1) * PerSlab < peak \/ slabs = 0

=============================================================================
