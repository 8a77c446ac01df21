------------------------------- MODULE CritBit ------------------------------
(***************************************************************************)
(* The crit-bit tree of critbit.c, in which vhosts.c keeps its web roots by  *)
(* host name.  An internal node names the bit, of the byte at some offset,   *)
(* in which the keys of its two subtrees first differ.  A key is the         *)
(* sequence of its bytes, and reads as NUL from its end on.                  *)
(*                                                                          *)
(* The nodes are blocks of memory that point to each other.  A pointer to a  *)
(* pointer, such as wherep, is <<a, d>>: child d of the node at a, or        *)
(* RootRef.  An allocation that fails leaves everything as it was.           *)
(*                                                                          *)
(* char is signed, as it is on x86.  cb_insert() of a key that parts from    *)
(* the key it finds in the sign bit of a byte then writes out of bounds: the *)
(* process is taken to crash, which ends the behaviour.                      *)
(***************************************************************************)
EXTENDS Integers, FiniteSets, Sequences

CONSTANTS Keys,   \* the keys that come up, as sequences of bytes
          Vals,   \* the values kept with them
          Addrs,  \* where malloc() may place a node
          Null

ASSUME KeyAssumption == Keys \subseteq Seq(1..255)
ASSUME NullAssumption == Null \notin Vals \cup Addrs
ASSUME AddrAssumption == IsFiniteSet(Addrs)

VARIABLES root,   \* t->root
          heap,   \* the struct _cb_node at each address
          dict,   \* history: the value last inserted with each key, or Null
          crashed \* has cb_insert() written out of bounds?

cbvars == <<root, heap, dict, crashed>>

SignBit == 128
Bits == {1, 2, 4, 8, 16, 32, 64, SignBit}

Leaf(key, val) == [leaf |-> TRUE, key |-> key, val |-> val]

\* child[1] and child[2] are the code's child[0] and child[1].
Node(byte, bit, child) ==
    [leaf |-> FALSE, byte |-> byte, bit |-> bit, child |-> child]

\* What is at an address that is not allocated.
NoCell == Node(0, 0, <<Null, Null>>)

Live == {a \in Addrs : heap[a] # NoCell}

ByteAt(u, i) == IF i < Len(u) THEN u[i + 1] ELSE 0
BitSet(c, bit) == (c \div bit) % 2 = 1

\* (1 + (otherbits | c)) >> 8: otherbits has every bit set but the one.
Side(u, byte, bit) == IF BitSet(ByteAt(u, byte), bit) THEN 2 ELSE 1
Direction(q, u) == Side(u, q.byte, q.bit)

-----------------------------------------------------------------------------
(* The loops. *)

RootRef == <<Null, 0>>
Deref(w) == IF w = RootRef THEN root ELSE heap[w[1]].child[w[2]]

\* wherep after each turn of the loop that follows the bits of u to a leaf.
Walk(u) ==
    LET where[n \in 0..Cardinality(Addrs)] ==
            IF n = 0 THEN RootRef
            ELSE LET w == where[n - 1]
                     q == Deref(w)
                 IN  IF heap[q].leaf THEN w ELSE <<q, Direction(heap[q], u)>>
    IN  where

\* The first turn of a loop that is in S.
First(S) == CHOOSE n \in S : \A m \in S : n <= m

\* The leaf the loop ends at.
Closest(u) == Deref(Walk(u)[Cardinality(Addrs)])

\* There is a leaf at the end, and strcmp() finds its key to be u.
Finds(u) == root # Null /\ heap[Closest(u)].key = u

\* cb_contains(): the value found, or Null.
Contains(u) == IF Finds(u) THEN heap[Closest(u)].val ELSE Null

\* malloc() returns some block of those that are free.
Malloc(free) == CHOOSE a \in free : TRUE

\* *w = a
Assign(h, w, a) ==
    /\ root' = IF w = RootRef THEN a ELSE root
    /\ heap' = IF w = RootRef THEN h ELSE [h EXCEPT ![w[1]].child[w[2]] = a]

-----------------------------------------------------------------------------
(* cb_insert() *)

\* The first byte two keys differ in, and the highest bit of it.
CritByte(k, u) ==
    CHOOSE i \in 0..Len(u) :
        /\ ByteAt(k, i) # ByteAt(u, i)
        /\ \A j \in 0..(i - 1) : ByteAt(k, j) = ByteAt(u, j)

CritBitOf(a, b) ==
    CHOOSE p \in Bits :
        /\ BitSet(a, p) # BitSet(b, p)
        /\ \A q \in Bits : q > p => (BitSet(a, q) = BitSet(b, q))

\* Mutant: of two nodes for the same byte, the order is not looked at.
BelongsAboveByte(q, byte, bit) == q.leaf \/ q.byte > byte

\* The walk for the new node's place ends at q.
BelongsAbove(q, byte, bit) ==
    q.leaf \/ q.byte > byte \/ (q.byte = byte /\ q.bit < bit)

\* Mutant: the new leaf goes to the side of the key that was found.
ForkSwapped(newdirection, q, leaf) ==
    IF newdirection = 2 THEN <<q, leaf>> ELSE <<leaf, q>>

\* The children of newnode.
Fork(newdirection, q, leaf) ==
    IF newdirection = 2 THEN <<leaf, q>> ELSE <<q, leaf>>

\* "deal with empty tree"
InsertFirst(u, val) ==
    /\ root = Null /\ Live # Addrs
    /\ LET n == Malloc(Addrs \ Live)
       IN  root' = n /\ heap' = [heap EXCEPT ![n] = Leaf(u, val)]

\* The key is there: only the value is replaced.
InsertAgain(u, val) ==
    /\ Finds(u)
    /\ heap' = [heap EXCEPT ![Closest(u)].val = val]
    /\ UNCHANGED root

\* A node and a leaf are allocated and put where the first node or leaf on the
\* way is that comes after the bit in which the keys differ.
InsertNew(u, val) ==
    LET k == heap[Closest(u)].key
        byte == CritByte(k, u)
        bit == CritBitOf(ByteAt(k, byte), ByteAt(u, byte))
        newnode == Malloc(Addrs \ Live)
        newleaf == Malloc((Addrs \ Live) \ {newnode})
        w == Walk(u)
        wherep == w[First({i \in DOMAIN w : BelongsAbove(heap[Deref(w[i])], byte, bit)})]
        child == Fork(Side(k, byte, bit), Deref(wherep), newleaf)
    IN  /\ root # Null /\ ~Finds(u)
        /\ Cardinality(Addrs \ Live) > 1
        /\ bit # SignBit
        /\ Assign([heap EXCEPT ![newnode] = Node(byte, bit, child),
                               ![newleaf] = Leaf(u, val)], wherep, newnode)

\* The exclusive-or of two chars of which one is negative fills newotherbits,
\* and newdirection with it: child[1 - newdirection] is 64 MB before the node.
InsertAstray(u) ==
    LET k == heap[Closest(u)].key
        byte == CritByte(k, u)
    IN  /\ root # Null /\ ~Finds(u)
        /\ Cardinality(Addrs \ Live) > 1
        /\ CritBitOf(ByteAt(k, byte), ByteAt(u, byte)) = SignBit
        /\ crashed' = TRUE
        /\ UNCHANGED <<root, heap, dict>>

\* cb_insert() and the assignment through the pointer it supplies.
CbInsert(u, val) ==
    \/ /\ InsertFirst(u, val) \/ InsertAgain(u, val) \/ InsertNew(u, val)
       /\ dict' = [dict EXCEPT ![u] = val]
       /\ UNCHANGED crashed
    \/ InsertAstray(u)

-----------------------------------------------------------------------------
(* cb_delete() *)

\* What takes the place of node q when the leaf on u's side goes.
Sibling(q, u) == q.child[3 - Direction(q, u)]

\* Mutant: only the leaf is freed.
FreedLeaf(p, q) == [heap EXCEPT ![p] = NoCell]

\* The two calls of free()
Freed(p, q) == [heap EXCEPT ![p] = NoCell, ![q] = NoCell]

\* The key is found as the only one, or below a node, which goes with it.
DeleteFound(u) ==
    LET w == Walk(u)
        turns == First({i \in DOMAIN w : heap[Deref(w[i])].leaf})
        p == Deref(w[turns])
        q == Deref(w[turns - 1])
    IN  /\ Finds(u)
        /\ IF turns = 0
           THEN root' = Null /\ heap' = Freed(p, p)
           ELSE Assign(Freed(p, q), w[turns - 1], Sibling(heap[q], u))

DeleteNone(u) ==
    /\ ~Finds(u)
    /\ UNCHANGED <<root, heap>>

CbDelete(u) ==
    /\ DeleteFound(u) \/ DeleteNone(u)
    /\ dict' = [dict EXCEPT ![u] = Null]
    /\ UNCHANGED crashed

-----------------------------------------------------------------------------

Init ==
    /\ root = Null /\ heap = [a \in Addrs |-> NoCell]
    /\ dict = [k \in Keys |-> Null]
    /\ crashed = FALSE

Next ==
    /\ ~crashed
    /\ \E u \in Keys : CbDelete(u) \/ \E val \in Vals : CbInsert(u, val)

Spec == Init /\ [][Next]_cbvars

-----------------------------------------------------------------------------
(* Properties. *)

\* What can be reached from a: the nodes and leaves of its subtree.
Below(a) ==
    LET reach[n \in 0..Cardinality(Addrs)] ==
            IF n = 0 THEN {a}
            ELSE LET R == reach[n - 1]
                 IN  R \cup UNION {{heap[q].child[1], heap[q].child[2]}
                                     : q \in {q \in R : ~heap[q].leaf}}
    IN  reach[Cardinality(Addrs)]

KeysBelow(a) == {heap[x].key : x \in {x \in Below(a) : heap[x].leaf}}

\* The tree is the map it is used as, in whatever order keys that are prefixes
\* of one another or share most of their bits came and went: a lookup finds
\* the value last stored with the key, and finds no key that is not there.
\* This holds until cb_insert() writes out of bounds, as it does for a key that
\* is not all ASCII next to one that is (critbit.c:136); nothing is said after.
MapExact == ~crashed => \A u \in Keys : Contains(u) = dict[u]

\* Every internal node tells its subtrees apart: all keys below it agree up to
\* the node's bit and differ in it.  A search depends on nothing else.  The
\* write out of bounds is excepted, as for MapExact.
Discriminates ==
    ~crashed /\ root # Null =>
        \A a \in {a \in Below(root) : ~heap[a].leaf} :
            LET q == heap[a] IN
            /\ \A x, y \in KeysBelow(a) :
                  /\ \A i \in 0..(q.byte - 1) : ByteAt(x, i) = ByteAt(y, i)
                  /\ \A p \in Bits : p > q.bit =>
                        (BitSet(ByteAt(x, q.byte), p) = BitSet(ByteAt(y, q.byte), p))
            /\ \A d \in {1, 2} : \A x \in KeysBelow(q.child[d]) : Direction(q, x) = d

\* Memory: what is allocated is what can be reached, so that deleting a key
\* frees what is unlinked, all of it, and nothing that is still pointed to.  The
\* write out of bounds, which may go into any memory, is excepted, as for
\* MapExact.
HeapExact == ~crashed => Live = IF root = Null THEN {} ELSE Below(root)

=============================================================================
