---------------------------- MODULE CritBitProofs ---------------------------
(***************************************************************************)
(* The crit-bit tree is a map, and owns the memory it has allocated,        *)
(* whatever the keys and however often they come and go, until cb_insert()  *)
(* writes out of bounds; which it never does if all keys are ASCII.         *)
(*                                                                         *)
(* The invariant is Shape: some K gives each allocated node the set of the  *)
(* keys below it, such that a leaf has its own key and an internal node     *)
(* splits its keys by its bit (CellOK), nodes that share a key are one      *)
(* above the other, with bits in that order (Chained), the root has all     *)
(* keys (Rooted), and a key has a leaf, with its value, exactly if it is in *)
(* the map (Holds).  Every operation is one of five changes that keep it:   *)
(* Plant and Fell the only leaf, Relabel a leaf with a new value, Graft a   *)
(* node and a leaf into an edge, Prune a node and a leaf.  A walk meets the *)
(* bits in order and so ends at a leaf (WalkEnds), at the key's own if it   *)
(* has one (WalkKey): lookups are exact (FindsExactly).  As every node is   *)
(* on the walk of each key below it, whatever is allocated can be reached   *)
(* (WalkMeets, BelowAll).                                                   *)
(***************************************************************************)
EXTENDS CritBit, FiniteSetTheorems, SequenceTheorems, WellFoundedInduction, TLAPS

-----------------------------------------------------------------------------
(* Induction. *)

\* A set of natural numbers with a member has a least one.
LEMMA LeastMember ==
    ASSUME NEW T \in SUBSET Nat, T # {}
    PROVE  \E m \in T : \A n \in T : m <= n
<1> DEFINE R == OpToRel(<, Nat)
<1>1. IsWellFoundedOn(R, Nat)
  BY NatLessThanWellFounded
<1>2. \A m, n \in Nat : <<m, n>> \in R <=> m < n
  BY DEF OpToRel
<1> HIDE DEF R
<1>3. PICK m \in T : \A n \in T : ~(<<n, m>> \in R)
  BY <1>1, WFMin
<1>4. ASSUME NEW n \in T PROVE m <= n
  <2>1. m \in Nat /\ n \in Nat /\ ~(n < m)
    BY <1>2, <1>3
  <2> QED BY <2>1
<1> QED BY <1>4

\* What holds at a and is passed on from each number to the next holds up to b.
LEMMA Climb ==
    ASSUME NEW a \in Nat, NEW b \in Nat, NEW S, a \in S,
           \A n \in a..(b - 1) : n \in S => n + 1 \in S
    PROVE  \A n \in a..b : n \in S
<1> DEFINE T == {n \in a..b : n \notin S}
<1> SUFFICES ASSUME T # {} PROVE FALSE
  OBVIOUS
<1>1. T \in SUBSET Nat
  OBVIOUS
<1>2. PICK m \in T : \A n \in T : m <= n
  <2> HIDE DEF T
  <2> QED BY <1>1, LeastMember
<1>3. m \in a..b /\ m # a /\ m - 1 \in a..(b - 1) /\ ~(m <= m - 1)
  BY <1>2
<1>4. m - 1 \in T
  BY <1>2, <1>3
<1> QED BY <1>2, <1>3, <1>4

-----------------------------------------------------------------------------
(* Keys and the bits of their bytes. *)

\* Two keys have the same bits before the bit of byte.
Same(x, y, byte, bit) ==
    /\ \A i \in 0..(byte - 1) : ByteAt(x, i) = ByteAt(y, i)
    /\ \A p \in Bits : p > bit =>
          (BitSet(ByteAt(x, byte), p) = BitSet(ByteAt(y, byte), p))

\* The bits of a key in the order in which they are looked at.
At(byte, bit) == 128 * byte + 128 - bit

\* Having the same bits up to some place is an equivalence.
LEMMA SameEquiv ==
    ASSUME NEW byte, NEW bit
    PROVE  /\ \A x : Same(x, x, byte, bit)
           /\ \A x, y : Same(x, y, byte, bit) => Same(y, x, byte, bit)
           /\ \A x, y, z : Same(x, y, byte, bit) /\ Same(y, z, byte, bit)
                              => Same(x, z, byte, bit)
BY DEF Same

\* Places come in the order of their bytes, and no two are the same.
LEMMA AtOrder ==
    ASSUME NEW b1 \in Nat, NEW b2 \in Nat, NEW p1 \in Bits, NEW p2 \in Bits
    PROVE  /\ At(b1, p1) \in Nat
           /\ At(b1, p1) < At(b2, p2) <=> b1 < b2 \/ (b1 = b2 /\ p1 > p2)
           /\ At(b1, p1) = At(b2, p2) => b1 = b2 /\ p1 = p2
           /\ \A n \in Nat : b1 <= n => At(b1, p1) < 128 * (n + 1)
BY DEF At, Bits, SignBit

\* Keys that agree up to some place agree at every earlier one.
LEMMA SameEarlier ==
    ASSUME NEW x, NEW y, NEW b1 \in Nat, NEW b2 \in Nat,
           NEW p1 \in Bits, NEW p2 \in Bits,
           Same(x, y, b2, p2), At(b1, p1) < At(b2, p2)
    PROVE  Same(x, y, b1, p1) /\ Side(x, b1, p1) = Side(y, b1, p1)
<1>1. CASE b1 < b2
  <2>1. b1 \in 0..(b2 - 1) /\ \A i \in 0..(b1 - 1) : i \in 0..(b2 - 1)
    BY <1>1
  <2>2. ByteAt(x, b1) = ByteAt(y, b1)
    BY <2>1 DEF Same
  <2> QED BY <2>1, <2>2 DEF Same, Side
<1>2. CASE b1 = b2 /\ p1 > p2
  <2>1. \A p \in Bits : p > p1 => p > p2
    BY <1>2 DEF Bits, SignBit
  <2> QED BY <1>2, <2>1 DEF Same, Side
<1> QED BY <1>1, <1>2, AtOrder

\* A key reads as NUL from its end on and nowhere else.
LEMMA ReadsByte ==
    ASSUME NEW u \in Keys
    PROVE  /\ Len(u) \in Nat
           /\ \A i \in Nat : ByteAt(u, i) \in 0..255
           /\ \A i \in Nat : ByteAt(u, i) = 0 <=> i >= Len(u)
<1>1. u \in Seq(1..255)
  BY KeyAssumption
<1>2. Len(u) \in Nat /\ \A i \in 1..Len(u) : u[i] \in 1..255
  BY <1>1, LenProperties, ElementOfSeq
<1>3. ASSUME NEW i \in Nat
      PROVE  ByteAt(u, i) \in 0..255 /\ (ByteAt(u, i) = 0 <=> i >= Len(u))
  <2>1. CASE i < Len(u)
    <3>1. i + 1 \in 1..Len(u)
      BY <1>2, <2>1
    <3>2. ByteAt(u, i) \in 1..255
      BY <1>2, <2>1, <3>1 DEF ByteAt
    <3>3. ByteAt(u, i) \in 0..255 /\ ByteAt(u, i) # 0
      BY <3>2
    <3>4. ~(i >= Len(u))
      BY <1>2, <2>1
    <3> QED BY <3>3, <3>4
  <2>2. CASE ~(i < Len(u))
    BY <1>2, <2>2 DEF ByteAt
  <2> QED BY <2>1, <2>2
<1> QED BY <1>2, <1>3

\* Different keys differ in a byte, and the first such byte is within both
\* or the NUL of one.
LEMMA CritByteFound ==
    ASSUME NEW k \in Keys, NEW u \in Keys, k # u, NEW byte, byte = CritByte(k, u)
    PROVE  /\ byte \in Nat /\ byte <= Len(k) /\ byte <= Len(u)
           /\ ByteAt(k, byte) # ByteAt(u, byte)
           /\ \A j \in 0..(byte - 1) : ByteAt(k, j) = ByteAt(u, j)
<1> DEFINE T == {i \in 0..Len(u) : ByteAt(k, i) # ByteAt(u, i)}
<1>1. Len(k) \in Nat /\ Len(u) \in Nat
  BY ReadsByte
<1>2. T # {}
  <2> SUFFICES ASSUME \A i \in 0..Len(u) : ByteAt(k, i) = ByteAt(u, i)
               PROVE  FALSE
    OBVIOUS
  <2>1. Len(k) = Len(u)
    <3>1. Len(u) \in 0..Len(u) /\ (Len(k) < Len(u) => Len(k) \in 0..Len(u))
      BY <1>1
    <3>2. ByteAt(k, Len(u)) = 0
      BY <1>1, <3>1, ReadsByte
    <3>3. Len(u) >= Len(k)
      BY <1>1, <3>2, ReadsByte
    <3>4. ~(Len(k) < Len(u))
      BY <1>1, <3>1, ReadsByte
    <3> QED BY <1>1, <3>3, <3>4
  <2>2. k \in Seq(1..255) /\ u \in Seq(1..255)
    BY KeyAssumption
  <2>3. ASSUME NEW i \in 1..Len(u)
        PROVE  k[i] = u[i]
    <3>1. i - 1 \in 0..Len(u) /\ i - 1 < Len(u) /\ (i - 1) + 1 = i
      BY <1>1
    <3> QED BY <2>1, <3>1 DEF ByteAt
  <2> QED BY <2>1, <2>2, <2>3
<1>3. PICK m \in T : \A n \in T : m <= n
  <2>1. T \in SUBSET Nat
    BY <1>1
  <2> HIDE DEF T
  <2> QED BY <1>2, <2>1, LeastMember
<1>4. \A j \in 0..(m - 1) : ByteAt(k, j) = ByteAt(u, j)
  BY <1>1, <1>3
<1>5. /\ byte \in 0..Len(u) /\ ByteAt(k, byte) # ByteAt(u, byte)
      /\ \A j \in 0..(byte - 1) : ByteAt(k, j) = ByteAt(u, j)
  BY <1>3, <1>4 DEF CritByte
<1>6. byte <= Len(k)
  <2> SUFFICES ASSUME Len(k) < byte PROVE FALSE
    BY <1>1, <1>5
  <2>1. Len(k) \in 0..(byte - 1) /\ Len(k) < Len(u)
    BY <1>1, <1>5
  <2>2. ByteAt(k, Len(k)) = ByteAt(u, Len(k))
    BY <1>5, <2>1
  <2>3. ByteAt(k, Len(k)) = 0 /\ ByteAt(u, Len(k)) # 0
    BY <1>1, <2>1, ReadsByte
  <2> QED BY <2>2, <2>3
<1> QED BY <1>1, <1>5, <1>6

\* Different bytes differ in a bit, and one of those is the highest.
LEMMA CritBitFound ==
    ASSUME NEW a \in 0..255, NEW b \in 0..255, a # b,
           NEW bit, bit = CritBitOf(a, b)
    PROVE  /\ bit \in Bits /\ BitSet(a, bit) # BitSet(b, bit)
           /\ \A p \in Bits : p > bit => (BitSet(a, p) = BitSet(b, p))
<1> DEFINE D == {p \in Bits : BitSet(a, p) # BitSet(b, p)}
           T == {SignBit - p : p \in D}
<1>1. D # {}
  <2> SUFFICES ASSUME \A p \in Bits : BitSet(a, p) = BitSet(b, p)
               PROVE  FALSE
    OBVIOUS
  <2>1. \A p \in Bits : ((a \div p) % 2 = 1) = ((b \div p) % 2 = 1)
    BY DEF BitSet
  <2>2. \A p \in Bits : (a \div p) % 2 = (b \div p) % 2
    BY <2>1 DEF Bits, SignBit
  <2>3. a \div 128 = b \div 128
    BY <2>2 DEF Bits, SignBit
  <2>4. a \div 64 = b \div 64
    <3>1. (a \div 64) % 2 = (b \div 64) % 2
      BY <2>2 DEF Bits, SignBit
    <3> QED BY <2>3, <3>1
  <2>5. a \div 32 = b \div 32
    <3>1. (a \div 32) % 2 = (b \div 32) % 2
      BY <2>2 DEF Bits, SignBit
    <3> QED BY <2>4, <3>1
  <2>6. a \div 16 = b \div 16
    <3>1. (a \div 16) % 2 = (b \div 16) % 2
      BY <2>2 DEF Bits, SignBit
    <3> QED BY <2>5, <3>1
  <2>7. a \div 8 = b \div 8
    <3>1. (a \div 8) % 2 = (b \div 8) % 2
      BY <2>2 DEF Bits, SignBit
    <3> QED BY <2>6, <3>1
  <2>8. a \div 4 = b \div 4
    <3>1. (a \div 4) % 2 = (b \div 4) % 2
      BY <2>2 DEF Bits, SignBit
    <3> QED BY <2>7, <3>1
  <2>9. a \div 2 = b \div 2
    <3>1. (a \div 2) % 2 = (b \div 2) % 2
      BY <2>2 DEF Bits, SignBit
    <3> QED BY <2>8, <3>1
  <2>10. a % 2 = b % 2
    <3>1. (a \div 1) % 2 = (b \div 1) % 2
      BY <2>2 DEF Bits, SignBit
    <3> QED BY <3>1
  <2> QED BY <2>9, <2>10
<1>2. T \in SUBSET Nat /\ T # {}
  BY <1>1 DEF Bits, SignBit
<1>3. PICK m \in T : \A n \in T : m <= n
  <2> HIDE DEF T
  <2> QED BY <1>2, LeastMember
<1>4. PICK p \in D : m = SignBit - p
  BY <1>3
<1>5. \A q \in D : SignBit - p <= SignBit - q
  BY <1>3, <1>4
<1>6. \A q \in Bits : q > p => (BitSet(a, q) = BitSet(b, q))
  BY <1>4, <1>5 DEF Bits, SignBit
<1> QED BY <1>4, <1>6 DEF CritBitOf

\* The new node tells the new key from the one that was found.
LEMMA CritFound ==
    ASSUME NEW k \in Keys, NEW u \in Keys, k # u,
           NEW byte, byte = CritByte(k, u),
           NEW bit, bit = CritBitOf(ByteAt(k, byte), ByteAt(u, byte))
    PROVE  /\ byte \in Nat /\ byte <= Len(k) /\ byte <= Len(u) /\ bit \in Bits
           /\ Same(k, u, byte, bit)
           /\ Side(k, byte, bit) # Side(u, byte, bit)
<1>1. /\ byte \in Nat /\ byte <= Len(k) /\ byte <= Len(u)
      /\ ByteAt(k, byte) # ByteAt(u, byte)
      /\ \A j \in 0..(byte - 1) : ByteAt(k, j) = ByteAt(u, j)
  BY CritByteFound
<1>2. ByteAt(k, byte) \in 0..255 /\ ByteAt(u, byte) \in 0..255
  BY <1>1, ReadsByte
<1> DEFINE a == ByteAt(k, byte)
           b == ByteAt(u, byte)
<1>3. /\ bit \in Bits /\ BitSet(a, bit) # BitSet(b, bit)
      /\ \A p \in Bits : p > bit => (BitSet(a, p) = BitSet(b, p))
  <2>1. a \in 0..255 /\ b \in 0..255 /\ a # b /\ bit = CritBitOf(a, b)
    BY <1>1, <1>2
  <2> HIDE DEF a, b
  <2> QED BY <2>1, CritBitFound, ZenonT(60)
<1>4. Same(k, u, byte, bit)
  BY <1>1, <1>3 DEF Same
<1>5. Side(k, byte, bit) # Side(u, byte, bit)
  BY <1>3 DEF Side, BitSet
<1> QED BY <1>1, <1>3, <1>4, <1>5

-----------------------------------------------------------------------------
(* Nodes and leaves. *)

LeafCell(q) == \E k \in Keys, v \in Vals : q = Leaf(k, v)

NodeCell(q) == \E byte \in Nat, bit \in Bits, c1, c2 \in Addrs :
                  q = Node(byte, bit, <<c1, c2>>)

\* Where a node's bit is.  A leaf comes after every node for a bit of its key.
Pos(q) == IF q.leaf THEN 128 * (Len(q.key) + 1) ELSE At(q.byte, q.bit)

\* What a leaf is.
LEMMA LeafKind ==
    ASSUME NEW q, LeafCell(q)
    PROVE  /\ q.leaf = TRUE /\ q.key \in Keys /\ q.val \in Vals
           /\ q = Leaf(q.key, q.val) /\ q # NoCell /\ ~NodeCell(q)
           /\ Pos(q) = 128 * (Len(q.key) + 1) /\ Pos(q) \in Nat
<1>1. PICK k \in Keys, v \in Vals : q = Leaf(k, v)
  BY DEF LeafCell
<1>2. q.leaf = TRUE /\ q.key = k /\ q.val = v
  BY <1>1 DEF Leaf
<1>3. NoCell.leaf = FALSE
  BY DEF NoCell, Node
<1>4. ASSUME NodeCell(q) PROVE FALSE
  BY <1>2, <1>4 DEF NodeCell, Node
<1>5. Pos(q) = 128 * (Len(q.key) + 1)
  BY <1>2 DEF Pos
<1>6. Len(q.key) \in Nat
  BY <1>2, ReadsByte
<1> QED BY <1>1, <1>2, <1>3, <1>4, <1>5, <1>6

\* What a node is.
LEMMA NodeKind ==
    ASSUME NEW q, NodeCell(q)
    PROVE  /\ q.leaf = FALSE /\ q.byte \in Nat /\ q.bit \in Bits
           /\ q.child[1] \in Addrs /\ q.child[2] \in Addrs
           /\ q = Node(q.byte, q.bit, <<q.child[1], q.child[2]>>)
           /\ q # NoCell /\ ~LeafCell(q)
           /\ Pos(q) = At(q.byte, q.bit) /\ Pos(q) \in Nat
<1>1. PICK byte \in Nat, bit \in Bits, c1 \in Addrs, c2 \in Addrs :
         q = Node(byte, bit, <<c1, c2>>)
  BY DEF NodeCell
<1>2. q.leaf = FALSE /\ q.byte = byte /\ q.bit = bit /\ q.child = <<c1, c2>>
  BY <1>1 DEF Node
<1>3. q.child[1] = c1 /\ q.child[2] = c2
  BY <1>2
<1>4. NoCell.bit = 0 /\ bit # 0
  BY DEF NoCell, Node, Bits, SignBit
<1>5. ~LeafCell(q)
  BY <1>2 DEF LeafCell, Leaf
<1>6. Pos(q) = At(q.byte, q.bit)
  BY <1>2 DEF Pos
<1>7. Pos(q) \in Nat
  BY <1>2, <1>6, AtOrder
<1> QED BY <1>1, <1>2, <1>3, <1>4, <1>5, <1>6, <1>7

\* A node that is made.
LEMMA NodeMade ==
    ASSUME NEW byte \in Nat, NEW bit \in Bits, NEW c1 \in Addrs, NEW c2 \in Addrs,
           NEW q, q = Node(byte, bit, <<c1, c2>>)
    PROVE  /\ NodeCell(q) /\ q.byte = byte /\ q.bit = bit
           /\ q.child[1] = c1 /\ q.child[2] = c2
           /\ Pos(q) = At(byte, bit)
           /\ \A x : Direction(q, x) = Side(x, byte, bit)
<1>1. NodeCell(q)
  BY DEF NodeCell
<1>2. q.byte = byte /\ q.bit = bit /\ q.child = <<c1, c2>>
  BY DEF Node
<1>3. Pos(q) = At(byte, bit)
  BY <1>1, <1>2, NodeKind
<1> QED BY <1>1, <1>2, <1>3 DEF Direction

\* A leaf that is made.
LEMMA LeafMade ==
    ASSUME NEW u \in Keys, NEW v \in Vals, NEW q, q = Leaf(u, v)
    PROVE  LeafCell(q) /\ q.key = u /\ q.val = v /\ Pos(q) = 128 * (Len(u) + 1)
<1>1. LeafCell(q)
  BY DEF LeafCell
<1>2. q.key = u /\ q.val = v
  BY DEF Leaf
<1> QED BY <1>1, <1>2, LeafKind

Relinked(q, e, c) == [q EXCEPT !.child[e] = c]

\* The node q2 is q but for child e, which is c.
Relinks(q, q2, e, c) ==
    /\ NodeCell(q2) /\ q2.byte = q.byte /\ q2.bit = q.bit
    /\ \A f \in {1, 2} : q2.child[f] = IF f = e THEN c ELSE q.child[f]

\* A child pointer is assigned.
LEMMA ChildSet ==
    ASSUME NEW q, NodeCell(q), NEW e \in {1, 2}, NEW c \in Addrs
    PROVE  Relinks(q, Relinked(q, e, c), e, c)
<1> DEFINE q2 == Relinked(q, e, c)
<1> HIDE DEF q2
<1> SUFFICES Relinks(q, q2, e, c)
  BY DEF q2
<1>1. PICK byte \in Nat, bit \in Bits, c1 \in Addrs, c2 \in Addrs :
         q = Node(byte, bit, <<c1, c2>>)
  BY DEF NodeCell
<1>2. q.byte = byte /\ q.bit = bit /\ q.child[1] = c1 /\ q.child[2] = c2
  BY <1>1, NodeMade
<1>3. CASE e = 1
  <2> DEFINE s == <<c1, c2>>
  <2>0. [s EXCEPT ![1] = c] = <<c, c2>>
    OBVIOUS
  <2>1. q2 = Node(byte, bit, <<c, c2>>)
    <3> HIDE DEF s
    <3>1. q = [leaf |-> FALSE, byte |-> byte, bit |-> bit, child |-> s]
      BY <1>1 DEF Node, s
    <3>2. q2 = [leaf |-> FALSE, byte |-> byte, bit |-> bit,
                child |-> [s EXCEPT ![1] = c]]
      <4>1. q2 = [q EXCEPT !.child[1] = c]
        BY <1>3 DEF q2, Relinked
      <4> QED BY <3>1, <4>1
    <3> QED BY <3>2, <2>0 DEF Node
  <2>2. /\ NodeCell(q2) /\ q2.byte = byte /\ q2.bit = bit
        /\ q2.child[1] = c /\ q2.child[2] = c2
    BY <2>1, NodeMade
  <2> QED BY <1>2, <1>3, <2>2 DEF Relinks
<1>4. CASE e = 2
  <2> DEFINE s == <<c1, c2>>
  <2>0. [s EXCEPT ![2] = c] = <<c1, c>>
    OBVIOUS
  <2>1. q2 = Node(byte, bit, <<c1, c>>)
    <3> HIDE DEF s
    <3>1. q = [leaf |-> FALSE, byte |-> byte, bit |-> bit, child |-> s]
      BY <1>1 DEF Node, s
    <3>2. q2 = [leaf |-> FALSE, byte |-> byte, bit |-> bit,
                child |-> [s EXCEPT ![2] = c]]
      <4>1. q2 = [q EXCEPT !.child[2] = c]
        BY <1>4 DEF q2, Relinked
      <4> QED BY <3>1, <4>1
    <3> QED BY <3>2, <2>0 DEF Node
  <2>2. /\ NodeCell(q2) /\ q2.byte = byte /\ q2.bit = bit
        /\ q2.child[1] = c1 /\ q2.child[2] = c
    BY <2>1, NodeMade
  <2> QED BY <1>2, <1>4, <2>2 DEF Relinks
<1> QED BY <1>3, <1>4

\* The direction is one of two.
LEMMA TwoSides ==
    ASSUME NEW q, NEW u
    PROVE  Direction(q, u) \in {1, 2}
BY DEF Direction, Side

-----------------------------------------------------------------------------
(* Trees.  K gives the keys below each node of the heap h.  A tree need not   *)
(* be followed from its root to say what it is: every key has its nodes in    *)
(* the order of their places, and each of them points to the next.            *)

Alive(h) == {a \in Addrs : h[a] # NoCell}

Toward(h, a, x) == h[a].child[Direction(h[a], x)]

LeafOK(h, K, a) == LeafCell(h[a]) /\ K[a] = {h[a].key}

ChildOK(h, K, a, e) ==
    LET c == h[a].child[e] IN
    /\ c \in Alive(h) /\ Pos(h[a]) < Pos(h[c]) /\ K[c] # {}
    /\ \A x \in K[c] : Direction(h[a], x) = e

NodeOK(h, K, a) ==
    /\ NodeCell(h[a])
    /\ ChildOK(h, K, a, 1) /\ ChildOK(h, K, a, 2)
    /\ K[a] = K[h[a].child[1]] \cup K[h[a].child[2]]
    /\ \A x, y \in K[a] : Same(x, y, h[a].byte, h[a].bit)
    /\ \A x \in K[a] : h[a].byte <= Len(x)

CellOK(h, K, a) == LeafOK(h, K, a) \/ NodeOK(h, K, a)

\* The nodes that have the key x below them.
Chained(h, K) ==
    \A a, b \in Alive(h) : \A x \in K[a] \cap K[b] :
        /\ Pos(h[a]) = Pos(h[b]) => a = b
        /\ NodeCell(h[a]) /\ Pos(h[a]) < Pos(h[b])
              => Pos(h[Toward(h, a, x)]) <= Pos(h[b])

Rooted(h, K, r) ==
    /\ r \in Alive(h)
    /\ \A a \in Alive(h) : Pos(h[r]) <= Pos(h[a]) /\ K[a] \subseteq K[r]

\* The map d is the one the tree holds.
Holds(h, K, r, d) ==
    /\ d \in [Keys -> Vals \cup {Null}]
    /\ \A x \in Keys : d[x] # Null <=> x \in K[r]
    /\ \A a \in Alive(h) : LeafCell(h[a]) => d[h[a].key] = h[a].val

Shape(h, K, r, d) ==
    /\ h = [a \in Addrs |-> h[a]]
    /\ K \in [Addrs -> SUBSET Keys]
    /\ \A a \in Alive(h) : CellOK(h, K, a)
    /\ Chained(h, K)
    /\ Rooted(h, K, r)
    /\ Holds(h, K, r, d)

\* A pointer to q: the root's, or a node's.
EdgeTo(h, r, w, q) ==
    \/ w = RootRef /\ q = r
    \/ \E p \in Alive(h), e \in {1, 2} :
          w = <<p, e>> /\ NodeCell(h[p]) /\ h[p].child[e] = q

\* Each cell is a leaf or a node, and has a place and keys below it.
LEMMA CellFacts ==
    ASSUME NEW h, NEW K, NEW a, CellOK(h, K, a)
    PROVE  /\ K[a] # {} /\ Pos(h[a]) \in Nat
           /\ LeafCell(h[a]) => LeafOK(h, K, a) /\ ~NodeCell(h[a])
           /\ NodeCell(h[a]) => NodeOK(h, K, a) /\ ~LeafCell(h[a])
           /\ LeafCell(h[a]) \/ NodeCell(h[a])
<1>1. CASE LeafOK(h, K, a)
  BY <1>1, LeafKind DEF LeafOK
<1>2. CASE NodeOK(h, K, a)
  <2>1. NodeCell(h[a]) /\ K[h[a].child[1]] # {}
           /\ K[a] = K[h[a].child[1]] \cup K[h[a].child[2]]
    BY <1>2 DEF NodeOK, ChildOK
  <2>2. ~LeafCell(h[a]) /\ Pos(h[a]) \in Nat
    BY <2>1, NodeKind
  <2>3. K[a] # {}
    BY <2>1
  <2> QED BY <1>2, <2>1, <2>2, <2>3
<1> QED BY <1>1, <1>2 DEF CellOK

\* A node has each of its keys below the child on that key's side.
LEMMA TowardKey ==
    ASSUME NEW h, NEW K, NEW a, NodeOK(h, K, a), NEW x \in K[a]
    PROVE  /\ Direction(h[a], x) \in {1, 2}
           /\ Toward(h, a, x) \in Alive(h) /\ x \in K[Toward(h, a, x)]
           /\ Pos(h[a]) < Pos(h[Toward(h, a, x)])
<1>1. CASE x \in K[h[a].child[1]]
  BY <1>1 DEF NodeOK, ChildOK, Toward
<1>2. CASE x \in K[h[a].child[2]]
  BY <1>2 DEF NodeOK, ChildOK, Toward
<1> QED BY <1>1, <1>2 DEF NodeOK

\* What is below a child is below its node, on that side.
LEMMA ChildKeys ==
    ASSUME NEW h, NEW K, NEW a, NodeOK(h, K, a), NEW e \in {1, 2},
           NEW c, c = h[a].child[e]
    PROVE  /\ c \in Alive(h) /\ K[c] \subseteq K[a] /\ K[c] # {}
           /\ Pos(h[a]) < Pos(h[c])
           /\ \A x \in K[c] : Direction(h[a], x) = e /\ Toward(h, a, x) = c
BY DEF NodeOK, ChildOK, Toward

\* With respect to an edge to q, a node that has a key of q's is at q or below
\* it, or at the edge or above it.  In the latter case it is where the edge
\* starts, or points to another that is.
LEMMA EdgeCut ==
    ASSUME NEW h, NEW K, NEW r, NEW d, Shape(h, K, r, d),
           NEW w, NEW q \in Alive(h), EdgeTo(h, r, w, q),
           NEW x \in K[q], NEW c \in Alive(h), x \in K[c], Pos(h[c]) < Pos(h[q])
    PROVE  \E p \in Alive(h), e \in {1, 2} :
              /\ w = <<p, e>> /\ NodeCell(h[p]) /\ h[p].child[e] = q
              /\ x \in K[p] /\ Direction(h[p], x) = e
              /\ Pos(h[c]) <= Pos(h[p]) /\ Pos(h[p]) < Pos(h[q])
              /\ c # p /\ NodeCell(h[c]) => Pos(h[Toward(h, c, x)]) <= Pos(h[p])
<1>1. Chained(h, K) /\ Rooted(h, K, r) /\ \A a \in Alive(h) : CellOK(h, K, a)
  BY DEF Shape
<1>2. \A a \in Alive(h) : Pos(h[a]) \in Nat
  BY <1>1, CellFacts
<1>3. q # r
  BY <1>1, <1>2 DEF Rooted
<1>4. PICK p \in Alive(h), e \in {1, 2} :
         w = <<p, e>> /\ NodeCell(h[p]) /\ h[p].child[e] = q
  BY <1>3 DEF EdgeTo
<1>5. NodeOK(h, K, p)
  BY <1>1, <1>4, CellFacts
<1>6. x \in K[p] /\ Direction(h[p], x) = e /\ Toward(h, p, x) = q
         /\ Pos(h[p]) < Pos(h[q])
  BY <1>4, <1>5, ChildKeys
<1>7. Pos(h[c]) <= Pos(h[p])
  <2> SUFFICES ASSUME Pos(h[p]) < Pos(h[c]) PROVE FALSE
    BY <1>2
  <2>1. Pos(h[q]) <= Pos(h[c])
    BY <1>1, <1>4, <1>6 DEF Chained
  <2> QED BY <1>2, <2>1
<1>8. ASSUME c # p, NodeCell(h[c]) PROVE Pos(h[Toward(h, c, x)]) <= Pos(h[p])
  <2>1. Pos(h[c]) # Pos(h[p])
    BY <1>1, <1>6, <1>8 DEF Chained
  <2>2. Pos(h[c]) < Pos(h[p])
    BY <1>2, <1>7, <2>1
  <2> QED BY <1>1, <1>6, <1>8, <2>2 DEF Chained
<1> QED BY <1>4, <1>6, <1>7, <1>8

-----------------------------------------------------------------------------
(* A new key.  It goes with the found key k down to the edge at which the     *)
(* place of the bit is passed in which the two differ.                        *)

GraftSite(h, K, r, d, w, q, k, u, byte, bit) ==
    /\ Shape(h, K, r, d)
    /\ q \in Alive(h) /\ EdgeTo(h, r, w, q) /\ k \in K[q]
    /\ u \in Keys /\ u \notin K[r]
    /\ byte \in Nat /\ byte <= Len(k) /\ byte <= Len(u) /\ bit \in Bits
    /\ Same(k, u, byte, bit) /\ Side(k, byte, bit) # Side(u, byte, bit)
    /\ At(byte, bit) < Pos(h[q])
    /\ \A p \in Alive(h), e \in {1, 2} : w = <<p, e>> => Pos(h[p]) < At(byte, bit)

\* What a site takes over from the tree.
LEMMA SiteFacts ==
    ASSUME NEW h, NEW K, NEW r, NEW d, NEW w, NEW q, NEW k, NEW u, NEW byte, NEW bit,
           GraftSite(h, K, r, d, w, q, k, u, byte, bit)
    PROVE  /\ Chained(h, K) /\ Rooted(h, K, r) /\ K \in [Addrs -> SUBSET Keys]
           /\ \A a \in Alive(h) : CellOK(h, K, a) /\ Pos(h[a]) \in Nat
           /\ \A a \in Alive(h) : u \notin K[a] /\ K[a] \in SUBSET Keys
           /\ At(byte, bit) \in Nat
           /\ k \in Keys /\ Len(k) \in Nat /\ Len(u) \in Nat
<1>1. /\ Chained(h, K) /\ Rooted(h, K, r) /\ K \in [Addrs -> SUBSET Keys]
      /\ \A a \in Alive(h) : CellOK(h, K, a)
  BY DEF GraftSite, Shape
<1>2. \A a \in Alive(h) : Pos(h[a]) \in Nat
  BY <1>1, CellFacts
<1>3. \A a \in Alive(h) : u \notin K[a] /\ K[a] \in SUBSET Keys
  BY <1>1 DEF GraftSite, Rooted, Alive
<1>4. At(byte, bit) \in Nat
  BY AtOrder DEF GraftSite
<1>5. k \in Keys /\ u \in Keys
  BY <1>3 DEF GraftSite
<1> QED BY <1>1, <1>2, <1>3, <1>4, <1>5, ReadsByte

\* Above the site, the new key takes the same way as the one that was found.
LEMMA SiteAbove ==
    ASSUME NEW h, NEW K, NEW r, NEW d, NEW w, NEW q, NEW k, NEW u, NEW byte, NEW bit,
           GraftSite(h, K, r, d, w, q, k, u, byte, bit),
           NEW a \in Alive(h), NodeCell(h[a]), k \in K[a], Pos(h[a]) < At(byte, bit)
    PROVE  /\ Direction(h[a], u) = Direction(h[a], k)
           /\ Same(k, u, h[a].byte, h[a].bit) /\ h[a].byte <= Len(u)
<1>1. /\ h[a].byte \in Nat /\ h[a].bit \in Bits
      /\ Pos(h[a]) = At(h[a].byte, h[a].bit)
  BY NodeKind
<1>2. /\ byte \in Nat /\ bit \in Bits /\ Same(k, u, byte, bit)
      /\ byte <= Len(u) /\ Len(u) \in Nat
  BY SiteFacts DEF GraftSite
<1>3. At(h[a].byte, h[a].bit) < At(byte, bit)
  BY <1>1
<1>4. Same(k, u, h[a].byte, h[a].bit)
         /\ Side(k, h[a].byte, h[a].bit) = Side(u, h[a].byte, h[a].bit)
  <2> DEFINE b1 == h[a].byte
             p1 == h[a].bit
  <2>1. b1 \in Nat /\ p1 \in Bits /\ At(b1, p1) < At(byte, bit)
    BY <1>1, <1>3
  <2> HIDE DEF b1, p1
  <2>2. Same(k, u, b1, p1) /\ Side(k, b1, p1) = Side(u, b1, p1)
    BY <1>2, <2>1, SameEarlier
  <2> QED BY <2>2 DEF b1, p1
<1>5. h[a].byte <= byte
  <2>1. h[a].byte < byte \/ h[a].byte = byte
    BY <1>1, <1>2, <1>3, AtOrder
  <2> QED BY <1>1, <1>2, <2>1
<1> QED BY <1>1, <1>2, <1>4, <1>5 DEF Direction

\* Below the site all keys are on the side of the one that was found.
LEMMA SiteBelow ==
    ASSUME NEW h, NEW K, NEW r, NEW d, NEW w, NEW q, NEW k, NEW u, NEW byte, NEW bit,
           GraftSite(h, K, r, d, w, q, k, u, byte, bit), NEW x \in K[q]
    PROVE  /\ Same(x, u, byte, bit) /\ Same(u, x, byte, bit)
           /\ Side(x, byte, bit) = Side(k, byte, bit)
           /\ byte <= Len(x)
<1>1. /\ q \in Alive(h) /\ k \in K[q] /\ byte \in Nat /\ bit \in Bits
      /\ Same(k, u, byte, bit) /\ byte <= Len(k) /\ At(byte, bit) < Pos(h[q])
  BY DEF GraftSite
<1>2. CellOK(h, K, q) /\ x \in Keys /\ Len(x) \in Nat
  BY <1>1, SiteFacts, ReadsByte
<1>3. CASE LeafOK(h, K, q)
  <2>1. x = k
    BY <1>1, <1>3 DEF LeafOK
  <2> QED BY <1>1, <2>1, SameEquiv
<1>4. CASE NodeOK(h, K, q)
  <2>1. /\ NodeCell(h[q]) /\ Same(x, k, h[q].byte, h[q].bit)
        /\ h[q].byte <= Len(x)
    BY <1>1, <1>4 DEF NodeOK
  <2>2. /\ h[q].byte \in Nat /\ h[q].bit \in Bits
        /\ Pos(h[q]) = At(h[q].byte, h[q].bit)
    BY <2>1, NodeKind
  <2>3. Same(x, k, byte, bit) /\ Side(x, byte, bit) = Side(k, byte, bit)
    <3>1. At(byte, bit) < At(h[q].byte, h[q].bit)
      BY <1>1, <2>2
    <3> QED BY <1>1, <2>1, <2>2, <3>1, SameEarlier, Zenon
  <2>4. byte <= h[q].byte
    <3>1. byte < h[q].byte \/ byte = h[q].byte
      BY <1>1, <2>2, AtOrder
    <3> QED BY <1>1, <2>2, <3>1
  <2>5. Same(x, u, byte, bit)
    BY <1>1, <2>3, SameEquiv
  <2>6. byte <= Len(x)
    BY <1>1, <1>2, <2>1, <2>2, <2>4
  <2> QED BY <2>3, <2>5, <2>6, SameEquiv
<1> QED BY <1>2, <1>3, <1>4 DEF CellOK

\* A node that shares a key with the site is above it or below it.  From above,
\* the key's pointer is the one at the site or stays above.
LEMMA SiteCut ==
    ASSUME NEW h, NEW K, NEW r, NEW d, NEW w, NEW q, NEW k, NEW u, NEW byte, NEW bit,
           GraftSite(h, K, r, d, w, q, k, u, byte, bit),
           NEW x \in K[q], NEW a \in Alive(h), x \in K[a]
    PROVE  /\ Pos(h[a]) < At(byte, bit) \/ Pos(h[q]) <= Pos(h[a])
           /\ Pos(h[a]) < At(byte, bit) =>
                 /\ NodeCell(h[a])
                 /\ \/ w = <<a, Direction(h[a], x)>>
                    \/ Pos(h[Toward(h, a, x)]) < At(byte, bit)
<1>1. /\ Shape(h, K, r, d) /\ q \in Alive(h) /\ EdgeTo(h, r, w, q)
      /\ \A p \in Alive(h), e \in {1, 2} : w = <<p, e>> => Pos(h[p]) < At(byte, bit)
      /\ At(byte, bit) < Pos(h[q])
  BY DEF GraftSite
<1>2. \A b \in Alive(h) : CellOK(h, K, b) /\ Pos(h[b]) \in Nat
  BY SiteFacts
<1>3. At(byte, bit) \in Nat /\ x \in Keys /\ Len(x) \in Nat
  BY <1>1, SiteFacts, ReadsByte
<1> SUFFICES ASSUME Pos(h[a]) < Pos(h[q])
             PROVE  /\ Pos(h[a]) < At(byte, bit)
                    /\ NodeCell(h[a])
                    /\ \/ w = <<a, Direction(h[a], x)>>
                       \/ Pos(h[Toward(h, a, x)]) < At(byte, bit)
  BY <1>1, <1>2, <1>3
<1>4. PICK p \in Alive(h), e \in {1, 2} :
         /\ w = <<p, e>> /\ NodeCell(h[p]) /\ h[p].child[e] = q
         /\ x \in K[p] /\ Direction(h[p], x) = e
         /\ Pos(h[a]) <= Pos(h[p]) /\ Pos(h[p]) < Pos(h[q])
         /\ a # p /\ NodeCell(h[a]) => Pos(h[Toward(h, a, x)]) <= Pos(h[p])
  BY <1>1, EdgeCut
<1>5. Pos(h[p]) < At(byte, bit)
  BY <1>1, <1>4
<1>6. NodeCell(h[a])
  <2> SUFFICES ASSUME LeafCell(h[a]) PROVE FALSE
    BY <1>2, CellFacts
  <2>1. Pos(h[a]) = 128 * (Len(x) + 1)
    <3>1. K[a] = {h[a].key}
      BY <1>2, CellFacts DEF LeafOK
    <3>2. h[a].key = x
      BY <3>1
    <3> QED BY <3>2, LeafKind
  <2>2. NodeOK(h, K, p)
    BY <1>2, <1>4, CellFacts
  <2>3. /\ h[p].byte <= Len(x) /\ h[p].byte \in Nat /\ h[p].bit \in Bits
        /\ Pos(h[p]) = At(h[p].byte, h[p].bit)
    <3>1. h[p].byte <= Len(x)
      BY <1>4, <2>2 DEF NodeOK
    <3> QED BY <1>4, <3>1, NodeKind
  <2>4. Pos(h[p]) < 128 * (Len(x) + 1)
    <3> DEFINE b == h[p].byte
    <3> HIDE DEF b
    <3>1. b \in Nat /\ b <= Len(x) /\ Pos(h[p]) = At(b, h[p].bit)
      BY <2>3 DEF b
    <3>2. \A n \in Nat : b <= n => At(b, h[p].bit) < 128 * (n + 1)
      BY <2>3, <3>1, AtOrder
    <3> QED BY <1>3, <3>1, <3>2
  <2> QED BY <1>2, <1>4, <2>1, <2>4
<1>7. CASE a = p
  BY <1>4, <1>5, <1>6, <1>7
<1>8. CASE a # p
  <2>1. NodeOK(h, K, a)
    BY <1>2, <1>6, CellFacts
  <2>2. Toward(h, a, x) \in Alive(h)
    BY <2>1, TowardKey
  <2>3. Pos(h[Toward(h, a, x)]) \in Nat /\ Pos(h[Toward(h, a, x)]) <= Pos(h[p])
    BY <1>2, <1>4, <1>6, <1>8, <2>2
  <2> QED BY <1>2, <1>3, <1>4, <1>5, <1>6, <2>3
<1> QED BY <1>7, <1>8

\* The keys on the side of the edge at the site are those of the site.
LEMMA SiteEdge ==
    ASSUME NEW h, NEW K, NEW r, NEW d, NEW w, NEW q, NEW k, NEW u, NEW byte, NEW bit,
           GraftSite(h, K, r, d, w, q, k, u, byte, bit),
           NEW a \in Alive(h), NEW e \in {1, 2}, w = <<a, e>>
    PROVE  /\ NodeOK(h, K, a) /\ h[a].child[e] = q /\ k \in K[a]
           /\ Direction(h[a], k) = e /\ Pos(h[a]) < At(byte, bit)
           /\ \A x \in K[a] : Direction(h[a], x) = e => x \in K[q]
<1>1. w # RootRef
  BY NullAssumption DEF RootRef, Alive
<1>2. NodeCell(h[a]) /\ h[a].child[e] = q
  BY <1>1 DEF GraftSite, EdgeTo
<1>3. NodeOK(h, K, a)
  BY <1>2, SiteFacts, CellFacts
<1>4. k \in K[q] /\ Pos(h[a]) < At(byte, bit)
  BY DEF GraftSite
<1>5. \A x \in K[a] : Direction(h[a], x) = e => x \in K[q]
  BY <1>2, <1>3, TowardKey DEF Toward
<1> QED BY <1>2, <1>3, <1>4, <1>5, ChildKeys

-----------------------------------------------------------------------------
(* Pointers are assigned. *)

\* A cell of h is in h2 as it was, but the pointer w is to c now.
Kept(h, h2, w, c, a) ==
    /\ LeafCell(h[a]) => h2[a] = h[a]
    /\ NodeCell(h[a]) =>
          /\ NodeCell(h2[a]) /\ h2[a].byte = h[a].byte /\ h2[a].bit = h[a].bit
          /\ \A e \in {1, 2} :
                h2[a].child[e] = IF w = <<a, e>> THEN c ELSE h[a].child[e]

\* The assignment changes nothing else.
LEMMA KeptFacts ==
    ASSUME NEW h, NEW h2, NEW w, NEW c, NEW a, Kept(h, h2, w, c, a),
           LeafCell(h[a]) \/ NodeCell(h[a])
    PROVE  /\ Pos(h2[a]) = Pos(h[a]) /\ h2[a] # NoCell
           /\ LeafCell(h2[a]) <=> LeafCell(h[a])
           /\ NodeCell(h2[a]) <=> NodeCell(h[a])
           /\ NodeCell(h[a]) =>
                 \A x : /\ Direction(h2[a], x) = Direction(h[a], x)
                        /\ Toward(h2, a, x) = IF w = <<a, Direction(h[a], x)>>
                                              THEN c ELSE Toward(h, a, x)
<1>1. CASE LeafCell(h[a])
  <2>1. h2[a] = h[a] /\ ~NodeCell(h[a]) /\ h[a] # NoCell
    BY <1>1, LeafKind DEF Kept
  <2> QED BY <1>1, <2>1
<1>2. CASE NodeCell(h[a])
  <2>1. NodeCell(h2[a]) /\ h2[a].byte = h[a].byte /\ h2[a].bit = h[a].bit
    BY <1>2 DEF Kept
  <2>2. Pos(h2[a]) = Pos(h[a]) /\ h2[a] # NoCell /\ ~LeafCell(h2[a]) /\ ~LeafCell(h[a])
    BY <1>2, <2>1, NodeKind
  <2>3. \A x : Direction(h2[a], x) = Direction(h[a], x)
    BY <2>1 DEF Direction
  <2>4. \A x : Toward(h2, a, x) = IF w = <<a, Direction(h[a], x)>>
                                  THEN c ELSE Toward(h, a, x)
    BY <1>2, <2>3, TwoSides DEF Kept, Toward
  <2> QED BY <1>2, <2>1, <2>2, <2>3, <2>4
<1> QED BY <1>1, <1>2

\* *w = c
Wired(h, w, c) == IF w = RootRef THEN h ELSE [h EXCEPT ![w[1]].child[w[2]] = c]
OnAddrs(h) == h = [a \in Addrs |-> h[a]]
Assignable(h, w) ==
    \/ w = RootRef
    \/ \E p \in Addrs, e \in {1, 2} : w = <<p, e>> /\ NodeCell(h[p])

Rewires(h, h2, w, c) ==
    /\ OnAddrs(h2)
    /\ \A a \in Addrs : Kept(h, h2, w, c, a)
    /\ \A a \in Addrs : h[a] = NoCell => h2[a] = NoCell

TopOf(r, w, c) == IF w = RootRef THEN c ELSE r

\* The node the pointer is in.
LEMMA KeptRelinked ==
    ASSUME NEW h, NEW h2, NEW a \in Addrs, NEW e \in {1, 2}, NEW c \in Addrs,
           NodeCell(h[a]), h2[a] = Relinked(h[a], e, c), NEW w, w = <<a, e>>
    PROVE  Kept(h, h2, w, c, a)
<1>1. Relinks(h[a], h2[a], e, c)
  BY ChildSet
<1>2. \A f \in {1, 2} : w = <<a, f>> <=> f = e
  OBVIOUS
<1>3. ~LeafCell(h[a])
  BY NodeKind
<1> QED BY <1>1, <1>2, <1>3 DEF Kept, Relinks

\* The assignment through a pointer to a pointer.
LEMMA WiredCells ==
    ASSUME NEW h, OnAddrs(h), NEW w, Assignable(h, w), NEW c \in Addrs
    PROVE  Rewires(h, Wired(h, w, c), w, c)
<1> DEFINE h2 == Wired(h, w, c)
<1> HIDE DEF h2
<1> SUFFICES Rewires(h, h2, w, c)
  BY DEF h2
<1>0. h = [a \in Addrs |-> h[a]]
  BY DEF OnAddrs
<1>1. CASE w = RootRef
  <2>1. h2 = h
    BY <1>1 DEF Wired, h2
  <2>2. \A a \in Addrs, e \in {1, 2} : w # <<a, e>>
    BY <1>1, NullAssumption DEF RootRef
  <2> QED BY <2>1, <2>2 DEF Kept, Rewires
<1>2. CASE w # RootRef
  <2>1. PICK p \in Addrs, e \in {1, 2} : w = <<p, e>> /\ NodeCell(h[p])
    BY <1>2 DEF Assignable
  <2>2. w[1] = p /\ w[2] = e
    BY <2>1
  <2>3. h2 = [h EXCEPT ![p].child[e] = c]
    BY <1>2, <2>2 DEF Wired, h2
  <2>4. h2 = [a \in Addrs |-> IF a = p THEN Relinked(h[p], e, c) ELSE h[a]]
    BY <1>0, <2>3 DEF Relinked
  <2>5. h2 = [a \in Addrs |-> h2[a]] /\ h2[p] = Relinked(h[p], e, c)
           /\ \A a \in Addrs : a # p => h2[a] = h[a]
    BY <2>4
  <2>6. h[p] # NoCell /\ ~LeafCell(h[p])
    BY <2>1, NodeKind
  <2>7. ASSUME NEW a \in Addrs PROVE Kept(h, h2, w, c, a)
    <3>1. CASE a = p
      BY <2>1, <2>5, <3>1, KeptRelinked
    <3>2. CASE a # p
      <4>1. \A f \in {1, 2} : w # <<a, f>>
        BY <2>1, <3>2
      <4> QED BY <2>5, <3>2, <4>1 DEF Kept
    <3> QED BY <3>1, <3>2
  <2> QED BY <2>5, <2>6, <2>7 DEF OnAddrs, Rewires
<1> QED BY <1>1, <1>2

-----------------------------------------------------------------------------
(* The tree with the new key. *)

Grafted(h, h2, w, q, n, l, k, u, v, byte, bit) ==
    /\ n \in Addrs \ Alive(h) /\ l \in Addrs \ Alive(h) /\ n # l
    /\ h2 = [a \in Addrs |-> h2[a]]
    /\ \A a \in Alive(h) : Kept(h, h2, w, n, a)
    /\ \A a \in Addrs : a \notin Alive(h) /\ a # n /\ a # l => h2[a] = NoCell
    /\ h2[l] = Leaf(u, v) /\ v \in Vals
    /\ NodeCell(h2[n]) /\ h2[n].byte = byte /\ h2[n].bit = bit
    /\ h2[n].child[Side(k, byte, bit)] = q
    /\ h2[n].child[Side(u, byte, bit)] = l

GraftKeys(h, K, q, n, l, k, u, byte, bit) ==
    [a \in Addrs |->
        IF a = l THEN {u}
        ELSE IF a = n THEN K[q] \cup {u}
        ELSE IF k \in K[a] /\ Pos(h[a]) < At(byte, bit) THEN K[a] \cup {u}
        ELSE K[a]]

Graft(h, K, r, d, w, q, n, l, k, u, v, byte, bit, h2, K2) ==
    /\ GraftSite(h, K, r, d, w, q, k, u, byte, bit)
    /\ Grafted(h, h2, w, q, n, l, k, u, v, byte, bit)
    /\ K2 = GraftKeys(h, K, q, n, l, k, u, byte, bit)

\* The new cells and the old ones.
LEMMA GraftFacts ==
    ASSUME NEW h, NEW K, NEW r, NEW d, NEW w, NEW q, NEW n, NEW l, NEW k, NEW u,
           NEW v, NEW byte, NEW bit, NEW h2, NEW K2,
           Graft(h, K, r, d, w, q, n, l, k, u, v, byte, bit, h2, K2)
    PROVE  /\ K2 \in [Addrs -> SUBSET Keys] /\ n \notin Alive(h) /\ l \notin Alive(h)
           /\ n # l /\ Alive(h2) = Alive(h) \cup {n, l}
           /\ K2[l] = {u} /\ K2[n] = K[q] \cup {u}
           /\ \A a \in Alive(h) :
                 K2[a] = IF k \in K[a] /\ Pos(h[a]) < At(byte, bit)
                         THEN K[a] \cup {u} ELSE K[a]
           /\ LeafCell(h2[l]) /\ h2[l].key = u /\ h2[l].val = v
           /\ Pos(h2[l]) \in Nat /\ At(byte, bit) < Pos(h2[l])
           /\ NodeCell(h2[n]) /\ Pos(h2[n]) = At(byte, bit)
           /\ \A x : Direction(h2[n], x) = Side(x, byte, bit)
           /\ \A x \in K[q] : Toward(h2, n, x) = q
           /\ Toward(h2, n, u) = l
<1>1. /\ GraftSite(h, K, r, d, w, q, k, u, byte, bit)
      /\ Grafted(h, h2, w, q, n, l, k, u, v, byte, bit)
      /\ K2 = GraftKeys(h, K, q, n, l, k, u, byte, bit)
  BY DEF Graft
<1>2. /\ n \in Addrs \ Alive(h) /\ l \in Addrs \ Alive(h) /\ n # l
      /\ \A a \in Alive(h) : Kept(h, h2, w, n, a)
      /\ \A a \in Addrs : a \notin Alive(h) /\ a # n /\ a # l => h2[a] = NoCell
      /\ h2[l] = Leaf(u, v) /\ v \in Vals
      /\ NodeCell(h2[n]) /\ h2[n].byte = byte /\ h2[n].bit = bit
      /\ h2[n].child[Side(k, byte, bit)] = q
      /\ h2[n].child[Side(u, byte, bit)] = l
  BY <1>1 DEF Grafted
<1>3. /\ u \in Keys /\ q \in Alive(h) /\ byte \in Nat /\ bit \in Bits /\ byte <= Len(u)
      /\ K \in [Addrs -> SUBSET Keys] /\ Len(u) \in Nat
      /\ \A a \in Alive(h) : CellOK(h, K, a)
  BY <1>1, SiteFacts DEF GraftSite
<1>4. LeafCell(h2[l]) /\ h2[l].key = u /\ h2[l].val = v
         /\ Pos(h2[l]) = 128 * (Len(u) + 1)
  BY <1>2, <1>3, LeafMade
<1>5. At(byte, bit) < 128 * (Len(u) + 1)
  BY <1>3, AtOrder
<1>6. Pos(h2[n]) = At(byte, bit) /\ h2[n] # NoCell /\ h2[l] # NoCell
  BY <1>2, <1>4, NodeKind, LeafKind
<1>7. Alive(h2) = Alive(h) \cup {n, l}
  <2>1. \A a \in Alive(h) : h2[a] # NoCell
    BY <1>2, <1>3, CellFacts, KeptFacts
  <2> QED BY <1>2, <1>6, <2>1 DEF Alive
<1>8. \A x : Direction(h2[n], x) = Side(x, byte, bit)
  BY <1>2 DEF Direction
<1>9. \A x \in K[q] : Toward(h2, n, x) = q
  BY <1>1, <1>2, <1>8, SiteBelow DEF Toward
<1>10. Toward(h2, n, u) = l
  BY <1>2, <1>8 DEF Toward
<1>11. Alive(h) \subseteq Addrs
  BY DEF Alive
<1>12. K2 \in [Addrs -> SUBSET Keys]
  BY <1>1, <1>3, <1>11 DEF GraftKeys
<1>13. /\ K2[l] = {u} /\ K2[n] = K[q] \cup {u}
       /\ \A a \in Alive(h) :
             K2[a] = IF k \in K[a] /\ Pos(h[a]) < At(byte, bit)
                     THEN K[a] \cup {u} ELSE K[a]
  BY <1>1, <1>2, <1>11 DEF GraftKeys
<1>14. Pos(h2[l]) \in Nat /\ At(byte, bit) < Pos(h2[l])
  BY <1>3, <1>4, <1>5
<1> QED BY <1>2, <1>4, <1>6, <1>7, <1>8, <1>9, <1>10, <1>12, <1>13, <1>14

\* The site from the tree it is in.
LEMMA GraftSplit ==
    ASSUME NEW h, NEW K, NEW r, NEW d, NEW w, NEW q, NEW n, NEW l, NEW k, NEW u,
           NEW v, NEW byte, NEW bit, NEW h2, NEW K2,
           Graft(h, K, r, d, w, q, n, l, k, u, v, byte, bit, h2, K2)
    PROVE  /\ GraftSite(h, K, r, d, w, q, k, u, byte, bit)
           /\ q \in Alive(h) /\ k \in K[q]
           /\ At(byte, bit) < Pos(h[q]) /\ At(byte, bit) \in Nat
           /\ Chained(h, K) /\ Rooted(h, K, r)
           /\ \A a \in Alive(h) :
                 /\ CellOK(h, K, a) /\ Pos(h[a]) \in Nat /\ u \notin K[a]
                 /\ Kept(h, h2, w, n, a)
                 /\ Pos(h2[a]) = Pos(h[a])
                 /\ LeafCell(h2[a]) <=> LeafCell(h[a])
                 /\ NodeCell(h2[a]) <=> NodeCell(h[a])
                 /\ NodeCell(h[a]) =>
                       \A x : /\ Direction(h2[a], x) = Direction(h[a], x)
                              /\ Toward(h2, a, x) = IF w = <<a, Direction(h[a], x)>>
                                                    THEN n ELSE Toward(h, a, x)
<1>1. GraftSite(h, K, r, d, w, q, k, u, byte, bit)
         /\ \A a \in Alive(h) : Kept(h, h2, w, n, a)
  BY DEF Graft, Grafted
<1>2. q \in Alive(h) /\ k \in K[q] /\ At(byte, bit) < Pos(h[q])
  BY <1>1 DEF GraftSite
<1>3. /\ At(byte, bit) \in Nat /\ Chained(h, K) /\ Rooted(h, K, r)
      /\ \A a \in Alive(h) : CellOK(h, K, a) /\ Pos(h[a]) \in Nat /\ u \notin K[a]
  BY <1>1, SiteFacts
<1>4. \A a \in Alive(h) : LeafCell(h[a]) \/ NodeCell(h[a])
  BY <1>3, CellFacts
<1>5. ASSUME NEW a \in Alive(h)
      PROVE  /\ Pos(h2[a]) = Pos(h[a])
             /\ LeafCell(h2[a]) <=> LeafCell(h[a])
             /\ NodeCell(h2[a]) <=> NodeCell(h[a])
             /\ NodeCell(h[a]) =>
                   \A x : /\ Direction(h2[a], x) = Direction(h[a], x)
                          /\ Toward(h2, a, x) = IF w = <<a, Direction(h[a], x)>>
                                                THEN n ELSE Toward(h, a, x)
  BY <1>1, <1>4, KeptFacts
<1> QED BY <1>1, <1>2, <1>3, <1>5

\* A child of a node above the site has the new key if it is on the way to it.
LEMMA GraftChild ==
    ASSUME NEW h, NEW K, NEW r, NEW d, NEW w, NEW q, NEW n, NEW l, NEW k, NEW u,
           NEW v, NEW byte, NEW bit, NEW h2, NEW K2,
           Graft(h, K, r, d, w, q, n, l, k, u, v, byte, bit, h2, K2),
           NEW a \in Alive(h), NodeOK(h, K, a), NEW e \in {1, 2},
           NEW above, above = (k \in K[a] /\ Pos(h[a]) < At(byte, bit)),
           NEW c, c = h[a].child[e], NEW c2, c2 = h2[a].child[e]
    PROVE  /\ c2 \in Alive(h2) /\ Pos(h2[a]) < Pos(h2[c2])
           /\ K2[c2] = IF above /\ Direction(h[a], k) = e THEN K[c] \cup {u} ELSE K[c]
<1>1. /\ GraftSite(h, K, r, d, w, q, k, u, byte, bit)
      /\ q \in Alive(h) /\ k \in K[q] /\ At(byte, bit) < Pos(h[q])
      /\ At(byte, bit) \in Nat
      /\ \A b \in Alive(h) : /\ Pos(h[b]) \in Nat /\ Pos(h2[b]) = Pos(h[b])
                             /\ Kept(h, h2, w, n, b)
  BY GraftSplit
<1>2. /\ Alive(h2) = Alive(h) \cup {n, l} /\ Pos(h2[n]) = At(byte, bit)
      /\ K2[n] = K[q] \cup {u}
      /\ \A b \in Alive(h) :
            K2[b] = IF k \in K[b] /\ Pos(h[b]) < At(byte, bit)
                    THEN K[b] \cup {u} ELSE K[b]
  BY GraftFacts
<1>3. /\ c \in Alive(h) /\ K[c] \subseteq K[a] /\ Pos(h[a]) < Pos(h[c])
      /\ \A x \in K[c] : Direction(h[a], x) = e /\ Toward(h, a, x) = c
  BY ChildKeys
<1>4. NodeCell(h[a])
  BY DEF NodeOK
<1>5. c2 = IF w = <<a, e>> THEN n ELSE c
  BY <1>1, <1>4 DEF Kept
<1>6. CASE w = <<a, e>>
  <2>1. c = q /\ k \in K[a] /\ Direction(h[a], k) = e /\ Pos(h[a]) < At(byte, bit)
    BY <1>1, <1>6, SiteEdge
  <2> QED BY <1>1, <1>2, <1>5, <1>6, <2>1
<1>7. CASE w # <<a, e>>
  <2>1. c2 = c /\ c2 \in Alive(h2) /\ Pos(h2[a]) < Pos(h2[c2])
    BY <1>1, <1>2, <1>3, <1>5, <1>7
  <2>2. CASE above /\ Direction(h[a], k) = e
    <3>1. k \in K[c] /\ Toward(h, a, k) = c
      <4>1. k \in K[a] /\ k \in K[Toward(h, a, k)]
        BY <2>2, TowardKey
      <4> QED BY <2>2, <4>1 DEF Toward
    <3>2. Pos(h[c]) < At(byte, bit)
      <4>1. k \in K[a] /\ Pos(h[a]) < At(byte, bit) /\ w # <<a, Direction(h[a], k)>>
        BY <1>7, <2>2
      <4>2. Pos(h[Toward(h, a, k)]) < At(byte, bit)
        BY <1>1, <4>1, SiteCut
      <4> QED BY <3>1, <4>2
    <3> QED BY <1>2, <1>3, <2>1, <2>2, <3>1, <3>2
  <2>3. CASE ~(above /\ Direction(h[a], k) = e)
    <3>1. ~(k \in K[c] /\ Pos(h[c]) < At(byte, bit))
      <4> SUFFICES ASSUME k \in K[c], Pos(h[c]) < At(byte, bit) PROVE FALSE
        OBVIOUS
      <4>1. k \in K[a] /\ Direction(h[a], k) = e
        BY <1>3
      <4>2. Pos(h[a]) < At(byte, bit)
        BY <1>1, <1>3
      <4> QED BY <2>3, <4>1, <4>2
    <3> QED BY <1>2, <1>3, <2>1, <2>3, <3>1
  <2> QED BY <2>1, <2>2, <2>3
<1> QED BY <1>6, <1>7

\* Every cell is as it should be.
LEMMA GraftCells ==
    ASSUME NEW h, NEW K, NEW r, NEW d, NEW w, NEW q, NEW n, NEW l, NEW k, NEW u,
           NEW v, NEW byte, NEW bit, NEW h2, NEW K2,
           Graft(h, K, r, d, w, q, n, l, k, u, v, byte, bit, h2, K2)
    PROVE  \A a \in Alive(h2) : CellOK(h2, K2, a)
<1>1. /\ GraftSite(h, K, r, d, w, q, k, u, byte, bit)
      /\ q \in Alive(h) /\ k \in K[q]
      /\ At(byte, bit) < Pos(h[q]) /\ At(byte, bit) \in Nat
      /\ \A a \in Alive(h) :
            /\ CellOK(h, K, a) /\ Pos(h[a]) \in Nat /\ u \notin K[a]
            /\ Kept(h, h2, w, n, a) /\ Pos(h2[a]) = Pos(h[a])
  BY GraftSplit
<1>2. /\ Alive(h2) = Alive(h) \cup {n, l} /\ n # l
      /\ K2[l] = {u} /\ K2[n] = K[q] \cup {u}
      /\ \A a \in Alive(h) :
            K2[a] = IF k \in K[a] /\ Pos(h[a]) < At(byte, bit)
                    THEN K[a] \cup {u} ELSE K[a]
      /\ LeafCell(h2[l]) /\ h2[l].key = u
      /\ Pos(h2[l]) \in Nat /\ At(byte, bit) < Pos(h2[l])
      /\ NodeCell(h2[n]) /\ Pos(h2[n]) = At(byte, bit)
      /\ \A x : Direction(h2[n], x) = Side(x, byte, bit)
  BY GraftFacts
<1>3. ASSUME NEW a \in Alive(h), LeafOK(h, K, a) PROVE CellOK(h2, K2, a)
  <2>1. h2[a] = h[a] /\ LeafCell(h[a]) /\ K[a] = {h[a].key}
    BY <1>1, <1>3 DEF Kept, LeafOK
  <2>2. ASSUME k \in K[a], Pos(h[a]) < At(byte, bit) PROVE FALSE
    BY <1>1, <2>1, <2>2, SiteCut, LeafKind
  <2> QED BY <1>2, <2>1, <2>2 DEF CellOK, LeafOK
<1>4. ASSUME NEW a \in Alive(h), NodeOK(h, K, a) PROVE CellOK(h2, K2, a)
  <2> DEFINE above == k \in K[a] /\ Pos(h[a]) < At(byte, bit)
             c(e) == h[a].child[e]
             c2(e) == h2[a].child[e]
  <2>1. /\ NodeCell(h[a]) /\ NodeCell(h2[a])
        /\ h2[a].byte = h[a].byte /\ h2[a].bit = h[a].bit
        /\ \A x : Direction(h2[a], x) = Direction(h[a], x)
    BY <1>1, <1>4 DEF Kept, NodeOK, Direction
  <2>2. \A e \in {1, 2} :
           /\ c2(e) \in Alive(h2) /\ Pos(h2[a]) < Pos(h2[c2(e)])
           /\ K2[c2(e)] = IF above /\ Direction(h[a], k) = e THEN K[c(e)] \cup {u}
                          ELSE K[c(e)]
    <3> HIDE DEF c, c2
    <3> SUFFICES ASSUME NEW e \in {1, 2}
                 PROVE  /\ c2(e) \in Alive(h2) /\ Pos(h2[a]) < Pos(h2[c2(e)])
                        /\ K2[c2(e)] = IF above /\ Direction(h[a], k) = e
                                       THEN K[c(e)] \cup {u} ELSE K[c(e)]
      OBVIOUS
    <3>1. c(e) = h[a].child[e] /\ c2(e) = h2[a].child[e]
      BY DEF c, c2
    <3> HIDE DEF above
    <3>2. above = (k \in K[a] /\ Pos(h[a]) < At(byte, bit))
      BY DEF above
    <3> QED BY <1>4, <3>1, <3>2, GraftChild
  <2>3. above => /\ Direction(h[a], u) = Direction(h[a], k)
                 /\ Same(k, u, h[a].byte, h[a].bit) /\ h[a].byte <= Len(u)
    BY <1>1, <2>1, SiteAbove
  <2>4. \A e \in {1, 2} : ChildOK(h2, K2, a, e)
    <3> SUFFICES ASSUME NEW e \in {1, 2} PROVE ChildOK(h2, K2, a, e)
      OBVIOUS
    <3>1. K[c(e)] # {} /\ \A x \in K[c(e)] : Direction(h[a], x) = e
      BY <1>4 DEF NodeOK, ChildOK
    <3>2. K2[c2(e)] # {}
      BY <2>2, <3>1
    <3>3. \A x \in K2[c2(e)] : Direction(h2[a], x) = e
      BY <2>1, <2>2, <2>3, <3>1
    <3> QED BY <2>2, <3>2, <3>3 DEF ChildOK
  <2>5. K2[a] = IF above THEN K[a] \cup {u} ELSE K[a]
    BY <1>2
  <2>6. K[a] = K[c(1)] \cup K[c(2)]
    BY <1>4 DEF NodeOK
  <2>7. K2[a] = K2[c2(1)] \cup K2[c2(2)]
    <3>1. CASE above
      <4>1. Direction(h[a], k) = 1 \/ Direction(h[a], k) = 2
        BY TwoSides
      <4> HIDE DEF above, c, c2
      <4> QED BY <2>2, <2>5, <2>6, <3>1, <4>1
    <3>2. CASE ~above
      <4> HIDE DEF above, c, c2
      <4> QED BY <2>2, <2>5, <2>6, <3>2
    <3> QED BY <3>1, <3>2
  <2>8. \A x, y \in K[a] : Same(x, y, h[a].byte, h[a].bit)
    BY <1>4 DEF NodeOK
  <2>9. \A x, y \in K2[a] : Same(x, y, h[a].byte, h[a].bit)
    <3>1. CASE above
      <4>1. k \in K[a] /\ Same(k, u, h[a].byte, h[a].bit)
        BY <2>3, <3>1
      <4>2. \A x \in K2[a] : Same(k, x, h[a].byte, h[a].bit)
        <5> HIDE DEF above
        <5> QED BY <2>5, <2>8, <3>1, <4>1
      <4> QED BY <4>2, SameEquiv
    <3>2. CASE ~above
      BY <2>5, <2>8, <3>2
    <3> QED BY <3>1, <3>2
  <2>10. \A x \in K2[a] : h[a].byte <= Len(x)
    BY <1>4, <2>3, <2>5 DEF NodeOK
  <2> QED BY <2>1, <2>4, <2>7, <2>9, <2>10 DEF CellOK, NodeOK
<1>5. CellOK(h2, K2, l)
  BY <1>2 DEF CellOK, LeafOK
<1>6. CellOK(h2, K2, n)
  <2> DEFINE s == Side(k, byte, bit)
             t == Side(u, byte, bit)
  <2>1. /\ h2[n].child[s] = q /\ h2[n].child[t] = l
        /\ h2[n].byte = byte /\ h2[n].bit = bit
    BY DEF Graft, Grafted
  <2>2. s \in {1, 2} /\ t \in {1, 2} /\ s # t
    BY <1>1 DEF GraftSite, Side
  <2>3. K2[q] = K[q] /\ Pos(h2[q]) = Pos(h[q]) /\ K[q] # {}
    BY <1>1, <1>2
  <2>4. \A x \in K[q] : /\ Same(x, u, byte, bit) /\ Same(u, x, byte, bit)
                        /\ Side(x, byte, bit) = s /\ byte <= Len(x)
    BY <1>1, SiteBelow
  <2> HIDE DEF s, t
  <2>5. ChildOK(h2, K2, n, s)
    BY <1>1, <1>2, <2>1, <2>3, <2>4 DEF ChildOK
  <2>6. ChildOK(h2, K2, n, t)
    BY <1>1, <1>2, <2>1 DEF ChildOK, t
  <2>7. ChildOK(h2, K2, n, 1) /\ ChildOK(h2, K2, n, 2)
    BY <2>2, <2>5, <2>6
  <2>8. K2[n] = K2[h2[n].child[1]] \cup K2[h2[n].child[2]]
    <3>1. K2[n] = K2[h2[n].child[s]] \cup K2[h2[n].child[t]]
      BY <1>2, <2>1, <2>3
    <3> QED BY <2>2, <3>1
  <2>9. \A x, y \in K2[n] : Same(x, y, byte, bit)
    <3>1. \A x \in K2[n] : Same(x, u, byte, bit) /\ Same(u, x, byte, bit)
      BY <1>2, <2>4, SameEquiv
    <3> QED BY <3>1, SameEquiv
  <2>10. \A x \in K2[n] : byte <= Len(x)
    BY <1>1, <1>2, <2>4 DEF GraftSite
  <2> QED BY <1>2, <2>1, <2>7, <2>8, <2>9, <2>10 DEF CellOK, NodeOK
<1> QED BY <1>1, <1>2, <1>3, <1>4, <1>5, <1>6 DEF CellOK

\* What Chained says of two cells.
Linked(h, x, a, b) ==
    /\ Pos(h[a]) = Pos(h[b]) => a = b
    /\ NodeCell(h[a]) /\ Pos(h[a]) < Pos(h[b])
          => Pos(h[Toward(h, a, x)]) <= Pos(h[b])

\* Every key still has its nodes in a chain.
LEMMA GraftChained ==
    ASSUME NEW h, NEW K, NEW r, NEW d, NEW w, NEW q, NEW n, NEW l, NEW k, NEW u,
           NEW v, NEW byte, NEW bit, NEW h2, NEW K2,
           Graft(h, K, r, d, w, q, n, l, k, u, v, byte, bit, h2, K2)
    PROVE  Chained(h2, K2)
<1>1. /\ GraftSite(h, K, r, d, w, q, k, u, byte, bit)
      /\ q \in Alive(h) /\ k \in K[q]
      /\ At(byte, bit) < Pos(h[q]) /\ At(byte, bit) \in Nat
      /\ Chained(h, K)
      /\ \A a \in Alive(h) :
            /\ CellOK(h, K, a) /\ Pos(h[a]) \in Nat /\ u \notin K[a]
            /\ Pos(h2[a]) = Pos(h[a])
            /\ NodeCell(h2[a]) <=> NodeCell(h[a])
            /\ NodeCell(h[a]) =>
                  \A x : Toward(h2, a, x) = IF w = <<a, Direction(h[a], x)>>
                                            THEN n ELSE Toward(h, a, x)
  BY GraftSplit
<1>2. /\ Alive(h2) = Alive(h) \cup {n, l} /\ n # l
      /\ n \notin Alive(h) /\ l \notin Alive(h)
      /\ K2[l] = {u} /\ K2[n] = K[q] \cup {u}
      /\ \A a \in Alive(h) :
            K2[a] = IF k \in K[a] /\ Pos(h[a]) < At(byte, bit)
                    THEN K[a] \cup {u} ELSE K[a]
      /\ LeafCell(h2[l]) /\ Pos(h2[l]) \in Nat /\ At(byte, bit) < Pos(h2[l])
      /\ NodeCell(h2[n]) /\ Pos(h2[n]) = At(byte, bit)
      /\ \A x \in K[q] : Toward(h2, n, x) = q
      /\ Toward(h2, n, u) = l
  BY GraftFacts
<1>3. \A a \in Alive(h), x \in K[q] : x \in K[a] =>
         /\ Pos(h[a]) < At(byte, bit) \/ Pos(h[q]) <= Pos(h[a])
         /\ Pos(h[a]) < At(byte, bit) =>
               /\ NodeCell(h[a])
               /\ \/ w = <<a, Direction(h[a], x)>>
                  \/ Pos(h[Toward(h, a, x)]) < At(byte, bit)
  BY <1>1, SiteCut
<1>4. \A a \in Alive(h) : \A x \in K[a] : NodeCell(h[a]) =>
         /\ Toward(h, a, x) \in Alive(h)
         /\ w = <<a, Direction(h[a], x)>> => x \in K[q] /\ Toward(h, a, x) = q
  <2> SUFFICES ASSUME NEW a \in Alive(h), NEW x \in K[a], NodeCell(h[a])
               PROVE  /\ Toward(h, a, x) \in Alive(h)
                      /\ w = <<a, Direction(h[a], x)>> => x \in K[q] /\ Toward(h, a, x) = q
    OBVIOUS
  <2>1. NodeOK(h, K, a)
    BY <1>1, CellFacts
  <2>2. ASSUME w = <<a, Direction(h[a], x)>> PROVE x \in K[q] /\ Toward(h, a, x) = q
    BY <1>1, <2>2, TwoSides, SiteEdge DEF Toward
  <2> QED BY <2>1, <2>2, TowardKey
<1>5. \A a, b \in Alive(h) : \A x \in K[a] \cap K[b] : Linked(h, x, a, b)
  BY <1>1 DEF Chained, Linked
<1>6. \A a \in Alive(h) : NodeCell(h[a]) /\ k \in K[a] /\ Pos(h[a]) < At(byte, bit)
         => Direction(h[a], u) = Direction(h[a], k) /\ Toward(h, a, u) = Toward(h, a, k)
  BY <1>1, SiteAbove DEF Toward
\* Old cells, an old key.
<1>7. ASSUME NEW a \in Alive(h), NEW b \in Alive(h), NEW x \in K[a], x \in K[b]
      PROVE  Linked(h2, x, a, b)
  <2>1. Linked(h, x, a, b)
    BY <1>5, <1>7
  <2>2. ASSUME NodeCell(h[a]), Pos(h[a]) < Pos(h[b])
        PROVE  Pos(h2[Toward(h2, a, x)]) <= Pos(h[b])
    <3>1. Toward(h, a, x) \in Alive(h) /\ Pos(h[Toward(h, a, x)]) <= Pos(h[b])
      BY <1>4, <2>1, <2>2 DEF Linked
    <3>2. CASE w = <<a, Direction(h[a], x)>>
      <4>1. Toward(h2, a, x) = n /\ Toward(h, a, x) = q
        BY <1>1, <1>4, <2>2, <3>2
      <4> QED BY <1>1, <1>2, <3>1, <4>1
    <3>3. CASE w # <<a, Direction(h[a], x)>>
      <4>1. Toward(h2, a, x) = Toward(h, a, x)
        BY <1>1, <2>2, <3>3
      <4> QED BY <1>1, <3>1, <4>1
    <3> QED BY <3>2, <3>3
  <2> QED BY <1>1, <2>1, <2>2 DEF Linked
\* From above the site to the new node and to what is below it.
<1>8. ASSUME NEW a \in Alive(h), NEW x \in K[q], x \in K[a], NodeCell(h[a]),
             Pos(h[a]) < At(byte, bit)
      PROVE  Pos(h2[Toward(h2, a, x)]) <= At(byte, bit)
  <2>1. CASE w = <<a, Direction(h[a], x)>>
    <3>1. Toward(h2, a, x) = n
      BY <1>1, <1>8, <2>1
    <3> QED BY <1>1, <1>2, <3>1
  <2>2. CASE w # <<a, Direction(h[a], x)>>
    <3>1. Toward(h2, a, x) = Toward(h, a, x) /\ Toward(h, a, x) \in Alive(h)
      BY <1>1, <1>4, <1>8, <2>2
    <3>2. Pos(h[Toward(h, a, x)]) < At(byte, bit)
      BY <1>3, <1>8, <2>2
    <3> QED BY <1>1, <3>1, <3>2
  <2> QED BY <2>1, <2>2
\* The new node and an old cell, an old key.
<1>9. ASSUME NEW a \in Alive(h), NEW x \in K[q], x \in K[a]
      PROVE  Linked(h2, x, a, n) /\ Linked(h2, x, n, a)
  <2>1. Pos(h[a]) # At(byte, bit) /\ (At(byte, bit) < Pos(h[a]) => Pos(h[q]) <= Pos(h[a]))
    BY <1>1, <1>3, <1>9
  <2>2. Linked(h2, x, n, a)
    BY <1>1, <1>2, <2>1 DEF Linked
  <2>3. Linked(h2, x, a, n)
    BY <1>1, <1>2, <1>8, <1>9, <2>1 DEF Linked
  <2> QED BY <2>2, <2>3
\* Old cells, the new key.
<1>10. ASSUME NEW a \in Alive(h), k \in K[a], Pos(h[a]) < At(byte, bit)
       PROVE  /\ NodeCell(h[a]) /\ Toward(h2, a, u) = Toward(h2, a, k)
              /\ \A b \in Alive(h) : k \in K[b] => Linked(h2, u, a, b)
              /\ Linked(h2, u, a, n) /\ Linked(h2, u, n, a)
              /\ Linked(h2, u, a, l) /\ Linked(h2, u, l, a)
  <2>1. NodeCell(h[a])
    BY <1>1, <1>3, <1>10
  <2>2. Toward(h2, a, u) = Toward(h2, a, k)
    BY <1>1, <1>6, <1>10, <2>1
  <2>3. \A b \in Alive(h) : k \in K[b] => Linked(h2, u, a, b)
    BY <1>7, <1>10, <2>2 DEF Linked
  <2>4. Linked(h2, k, a, n)
    BY <1>1, <1>9, <1>10
  <2>5. Linked(h2, u, a, n) /\ Linked(h2, u, n, a)
    BY <1>1, <1>2, <1>10, <2>2, <2>4 DEF Linked
  <2>6. Pos(h2[Toward(h2, a, u)]) <= At(byte, bit) /\ Pos(h2[a]) < At(byte, bit)
    BY <1>1, <1>8, <1>10, <2>1, <2>2
  <2>7. ~NodeCell(h2[l]) /\ Pos(h2[a]) \in Nat
    BY <1>1, <1>2, LeafKind
  <2>8. Toward(h2, a, u) \in Alive(h2)
    BY <1>1, <1>2, <1>4, <1>10, <2>1, <2>2
  <2>9. Pos(h2[Toward(h2, a, u)]) \in Nat
    BY <1>1, <1>2, <2>8
  <2>10. Linked(h2, u, a, l) /\ Linked(h2, u, l, a)
    BY <1>1, <1>2, <2>6, <2>7, <2>9 DEF Linked
  <2> QED BY <2>1, <2>2, <2>3, <2>5, <2>10
<1>11. \A x : Linked(h2, x, n, n) /\ Linked(h2, x, l, l)
  BY <1>1, <1>2 DEF Linked
<1>12. Linked(h2, u, n, l) /\ Linked(h2, u, l, n)
  BY <1>1, <1>2, LeafKind DEF Linked
<1>13. ASSUME NEW a \in Alive(h2), NEW b \in Alive(h2), NEW x \in K2[a] \cap K2[b]
       PROVE  Linked(h2, x, a, b)
  <2>1. CASE x # u
    <3>1. /\ a # l /\ b # l
          /\ a \in Alive(h) => x \in K[a]
          /\ b \in Alive(h) => x \in K[b]
          /\ a = n => x \in K[q]
          /\ b = n => x \in K[q]
      <4>1. x \in K2[a] /\ x \in K2[b]
        BY <1>13
      <4>2. ASSUME NEW c, x \in K2[c]
            PROVE  c # l /\ (c \in Alive(h) => x \in K[c]) /\ (c = n => x \in K[q])
        <5>1. c # l
          BY <1>2, <2>1, <4>2
        <5>2. c = n => x \in K[q]
          BY <1>2, <2>1, <4>2
        <5>3. ASSUME c \in Alive(h) PROVE x \in K[c]
          <6>1. K2[c] = K[c] \cup {u} \/ K2[c] = K[c]
            BY <1>2, <5>3
          <6> QED BY <2>1, <4>2, <6>1
        <5> QED BY <5>1, <5>2, <5>3
      <4> QED BY <1>13, <4>1, <4>2
    <3> QED BY <1>2, <1>7, <1>9, <1>11, <3>1
  <2>2. CASE x = u
    <3>1. /\ a \in Alive(h) => k \in K[a] /\ Pos(h[a]) < At(byte, bit)
          /\ b \in Alive(h) => k \in K[b] /\ Pos(h[b]) < At(byte, bit)
      BY <1>1, <1>2, <2>2
    <3> QED BY <1>2, <1>10, <1>11, <1>12, <2>2, <3>1
  <2> QED BY <2>1, <2>2
<1> QED BY <1>13 DEF Chained, Linked

\* The root is the new node or has it below.
LEMMA GraftRooted ==
    ASSUME NEW h, NEW K, NEW r, NEW d, NEW w, NEW q, NEW n, NEW l, NEW k, NEW u,
           NEW v, NEW byte, NEW bit, NEW h2, NEW K2,
           Graft(h, K, r, d, w, q, n, l, k, u, v, byte, bit, h2, K2),
           NEW r2, r2 = TopOf(r, w, n)
    PROVE  Rooted(h2, K2, r2) /\ K2[r2] = K[r] \cup {u}
<1>1. /\ GraftSite(h, K, r, d, w, q, k, u, byte, bit)
      /\ q \in Alive(h) /\ k \in K[q]
      /\ At(byte, bit) < Pos(h[q]) /\ At(byte, bit) \in Nat /\ Rooted(h, K, r)
      /\ \A a \in Alive(h) : Pos(h[a]) \in Nat /\ Pos(h2[a]) = Pos(h[a])
  BY GraftSplit
<1>2. /\ Alive(h2) = Alive(h) \cup {n, l}
      /\ K2[l] = {u} /\ K2[n] = K[q] \cup {u}
      /\ \A a \in Alive(h) :
            K2[a] = IF k \in K[a] /\ Pos(h[a]) < At(byte, bit)
                    THEN K[a] \cup {u} ELSE K[a]
      /\ Pos(h2[l]) \in Nat /\ At(byte, bit) < Pos(h2[l])
      /\ Pos(h2[n]) = At(byte, bit)
  BY GraftFacts
<1>3. r \in Alive(h) /\ \A a \in Alive(h) : Pos(h[r]) <= Pos(h[a]) /\ K[a] \subseteq K[r]
  BY <1>1 DEF Rooted
<1>4. CASE w = RootRef
  <2>1. r = q /\ r2 = n
    <3>1. \A p \in Alive(h), e \in {1, 2} : w # <<p, e>>
      BY <1>4, NullAssumption DEF RootRef, Alive
    <3> QED BY <1>1, <1>4, <3>1 DEF GraftSite, EdgeTo, TopOf
  <2>2. K2[r2] = K[r] \cup {u}
    BY <1>2, <2>1
  <2>3. ASSUME NEW a \in Alive(h2) PROVE Pos(h2[r2]) <= Pos(h2[a]) /\ K2[a] \subseteq K2[r2]
    <3>1. CASE a \in Alive(h)
      <4>1. Pos(h[r]) <= Pos(h[a]) /\ K[a] \subseteq K[r]
        BY <1>3, <3>1
      <4>2. Pos(h2[r2]) <= Pos(h2[a])
        BY <1>1, <1>2, <2>1, <3>1, <4>1
      <4>3. K2[a] \subseteq K2[r2]
        BY <1>2, <2>2, <3>1, <4>1
      <4> QED BY <4>2, <4>3
    <3>2. CASE a = n \/ a = l
      <4>1. K2[a] \subseteq K2[r2]
        BY <1>2, <2>1, <3>2
      <4>2. Pos(h2[r2]) <= Pos(h2[a])
        BY <1>1, <1>2, <2>1, <3>2
      <4> QED BY <4>1, <4>2
    <3> QED BY <1>2, <2>3, <3>1, <3>2
  <2> QED BY <1>2, <2>1, <2>2, <2>3 DEF Rooted
<1>5. CASE w # RootRef
  <2>1. PICK p \in Alive(h), e \in {1, 2} : w = <<p, e>>
    BY <1>1, <1>5 DEF GraftSite, EdgeTo
  <2>2. Pos(h[p]) < At(byte, bit)
    BY <1>1, <2>1 DEF GraftSite
  <2>3. r2 = r /\ Pos(h[r]) < At(byte, bit) /\ k \in K[r]
    BY <1>1, <1>3, <1>5, <2>2 DEF TopOf
  <2>4. K2[r2] = K[r] \cup {u}
    BY <1>2, <1>3, <2>3
  <2>5. ASSUME NEW a \in Alive(h2) PROVE Pos(h2[r2]) <= Pos(h2[a]) /\ K2[a] \subseteq K2[r2]
    <3>1. CASE a \in Alive(h)
      BY <1>1, <1>2, <1>3, <2>3, <2>4, <3>1
    <3>2. CASE a = n \/ a = l
      <4>1. Pos(h2[r2]) < At(byte, bit) /\ Pos(h2[r2]) \in Nat
        BY <1>1, <1>3, <2>3
      <4>2. At(byte, bit) <= Pos(h2[a]) /\ Pos(h2[a]) \in Nat
        BY <1>1, <1>2, <3>2
      <4>3. K2[a] \subseteq K2[r2]
        BY <1>1, <1>2, <1>3, <2>4, <3>2
      <4>4. Pos(h2[r2]) <= Pos(h2[a])
        BY <1>1, <4>1, <4>2
      <4> QED BY <4>3, <4>4
    <3> QED BY <1>2, <3>1, <3>2
  <2> QED BY <1>2, <1>3, <2>3, <2>4, <2>5 DEF Rooted
<1> QED BY <1>4, <1>5

\* The tree with the new key holds the map with the new key.
LEMMA GraftShape ==
    ASSUME NEW h, NEW K, NEW r, NEW d, NEW w, NEW q, NEW n, NEW l, NEW k, NEW u,
           NEW v, NEW byte, NEW bit, NEW h2, NEW K2,
           Graft(h, K, r, d, w, q, n, l, k, u, v, byte, bit, h2, K2),
           NEW r2, r2 = TopOf(r, w, n), NEW d2, d2 = [d EXCEPT ![u] = v]
    PROVE  Shape(h2, K2, r2, d2)
<1>1. /\ GraftSite(h, K, r, d, w, q, k, u, byte, bit)
      /\ \A a \in Alive(h) :
            /\ CellOK(h, K, a) /\ u \notin K[a] /\ Kept(h, h2, w, n, a)
            /\ LeafCell(h2[a]) <=> LeafCell(h[a])
  BY GraftSplit
<1>2. /\ Alive(h2) = Alive(h) \cup {n, l} /\ K2 \in [Addrs -> SUBSET Keys]
      /\ LeafCell(h2[l]) /\ h2[l].key = u /\ h2[l].val = v /\ NodeCell(h2[n])
  BY GraftFacts
<1>3. Rooted(h2, K2, r2) /\ K2[r2] = K[r] \cup {u}
  BY GraftRooted
<1>4. h2 = [a \in Addrs |-> h2[a]] /\ v \in Vals
  BY DEF Graft, Grafted
<1>5. Holds(h, K, r, d) /\ u \in Keys
  BY <1>1 DEF GraftSite, Shape
<1>6. /\ d \in [Keys -> Vals \cup {Null}]
      /\ \A x \in Keys : d[x] # Null <=> x \in K[r]
      /\ \A a \in Alive(h) : LeafCell(h[a]) => d[h[a].key] = h[a].val
  BY <1>5 DEF Holds
<1>7. /\ d2 \in [Keys -> Vals \cup {Null}] /\ d2[u] = v
      /\ \A x \in Keys : x # u => d2[x] = d[x]
  BY <1>4, <1>5, <1>6
<1>8. ASSUME NEW x \in Keys PROVE d2[x] # Null <=> x \in K2[r2]
  BY <1>3, <1>4, <1>6, <1>7, NullAssumption
<1>9. ASSUME NEW a \in Alive(h2), LeafCell(h2[a]) PROVE d2[h2[a].key] = h2[a].val
  <2>1. a # n
    <3> SUFFICES ASSUME a = n PROVE FALSE
      OBVIOUS
    <3>1. ~LeafCell(h2[n])
      BY <1>2, NodeKind
    <3> QED BY <1>9, <3>1
  <2>2. CASE a = l
    BY <1>2, <1>7, <2>2
  <2>3. CASE a \in Alive(h)
    <3>1. LeafCell(h[a]) /\ h2[a] = h[a]
      BY <1>1, <1>9, <2>3 DEF Kept
    <3>2. LeafOK(h, K, a)
      BY <1>1, <2>3, <3>1, CellFacts
    <3>3. K[a] = {h[a].key}
      BY <3>2 DEF LeafOK
    <3>4. h[a].key # u /\ h[a].key \in Keys
      BY <1>1, <2>3, <3>1, <3>3, LeafKind
    <3> QED BY <1>6, <1>7, <2>3, <3>1, <3>4
  <2> QED BY <1>2, <2>1, <2>2, <2>3
<1>10. Holds(h2, K2, r2, d2)
  BY <1>7, <1>8, <1>9 DEF Holds
<1> QED BY <1>2, <1>3, <1>4, <1>10, GraftCells, GraftChained DEF Shape

-----------------------------------------------------------------------------
(* A key is deleted: its leaf p goes, and so does the node q above it, whose  *)
(* other child s takes q's place.                                             *)

PruneSite(h, K, r, d, w, q, p, s, u) ==
    /\ Shape(h, K, r, d)
    /\ q \in Alive(h) /\ NodeCell(h[q]) /\ EdgeTo(h, r, w, q) /\ u \in K[q]
    /\ p = Toward(h, q, u) /\ LeafCell(h[p]) /\ h[p].key = u
    /\ s = h[q].child[3 - Direction(h[q], u)]

Pruned(h, h2, w, q, p, s) ==
    /\ h2 = [a \in Addrs |-> h2[a]]
    /\ h2[p] = NoCell /\ h2[q] = NoCell
    /\ \A a \in Alive(h) \ {p, q} : Kept(h, h2, w, s, a)
    /\ \A a \in Addrs \ Alive(h) : h2[a] = NoCell

Prune(h, K, r, d, w, q, p, s, u, h2, K2) ==
    /\ PruneSite(h, K, r, d, w, q, p, s, u)
    /\ Pruned(h, h2, w, q, p, s)
    /\ K2 = [a \in Addrs |-> K[a] \ {u}]

\* The node, the leaf and the sibling.
LEMMA PruneSiteFacts ==
    ASSUME NEW h, NEW K, NEW r, NEW d, NEW w, NEW q, NEW p, NEW s, NEW u,
           PruneSite(h, K, r, d, w, q, p, s, u)
    PROVE  /\ Chained(h, K) /\ Rooted(h, K, r) /\ K \in [Addrs -> SUBSET Keys]
           /\ \A a \in Alive(h) : CellOK(h, K, a) /\ Pos(h[a]) \in Nat
           /\ q \in Alive(h) /\ p \in Alive(h) /\ s \in Alive(h)
           /\ p # q /\ s # q /\ s # p /\ u \in Keys
           /\ K[p] = {u} /\ u \notin K[s] /\ K[q] = K[s] \cup {u} /\ K[s] # {}
           /\ Pos(h[q]) < Pos(h[s]) /\ Pos(h[q]) < Pos(h[p])
           /\ \A x \in K[s] : Toward(h, q, x) = s
<1>1. /\ Chained(h, K) /\ Rooted(h, K, r) /\ K \in [Addrs -> SUBSET Keys]
      /\ \A a \in Alive(h) : CellOK(h, K, a)
      /\ q \in Alive(h) /\ NodeCell(h[q]) /\ u \in K[q] /\ p = Toward(h, q, u)
      /\ LeafCell(h[p]) /\ h[p].key = u /\ s = h[q].child[3 - Direction(h[q], u)]
  BY DEF PruneSite, Shape
<1>2. \A a \in Alive(h) : Pos(h[a]) \in Nat
  BY <1>1, CellFacts
<1>3. NodeOK(h, K, q)
  BY <1>1, CellFacts
<1> DEFINE e == Direction(h[q], u)
           f == 3 - e
<1>4. e \in {1, 2} /\ f \in {1, 2} /\ e # f
  BY TwoSides
<1>5. p = h[q].child[e] /\ s = h[q].child[f]
  BY <1>1 DEF Toward
<1> HIDE DEF e, f
<1>6. /\ p \in Alive(h) /\ Pos(h[q]) < Pos(h[p])
      /\ \A x \in K[p] : Direction(h[q], x) = e
  BY <1>3, <1>4, <1>5, ChildKeys
<1>7. /\ s \in Alive(h) /\ Pos(h[q]) < Pos(h[s]) /\ K[s] # {}
      /\ \A x \in K[s] : Direction(h[q], x) = f /\ Toward(h, q, x) = s
  BY <1>3, <1>4, <1>5, ChildKeys
<1>8. K[p] = {u}
  BY <1>1, <1>6, CellFacts DEF LeafOK
<1>9. u \notin K[s]
  BY <1>4, <1>7 DEF e
<1>10. K[q] = K[h[q].child[1]] \cup K[h[q].child[2]]
  BY <1>3 DEF NodeOK
<1>11. K[q] = K[s] \cup {u}
  BY <1>4, <1>5, <1>8, <1>10
<1>12. p # q /\ s # q /\ s # p
  BY <1>1, <1>2, <1>6, <1>7, <1>8, <1>9
<1>13. u \in Keys
  BY <1>1 DEF Alive
<1> QED BY <1>1, <1>2, <1>6, <1>7, <1>8, <1>9, <1>11, <1>12, <1>13

\* Other nodes with the key are above.
LEMMA PruneAbove ==
    ASSUME NEW h, NEW K, NEW r, NEW d, NEW w, NEW q, NEW p, NEW s, NEW u,
           PruneSite(h, K, r, d, w, q, p, s, u),
           NEW a \in Alive(h) \ {p, q}
    PROVE  /\ u \in K[a] => NodeCell(h[a]) /\ Pos(h[a]) < Pos(h[q])
           /\ K[a] \ {u} # {}
<1>1. /\ Chained(h, K) /\ \A b \in Alive(h) : CellOK(h, K, b) /\ Pos(h[b]) \in Nat
      /\ q \in Alive(h) /\ p \in Alive(h) /\ p # q /\ u \in Keys
      /\ K[p] = {u} /\ K[q] = K[s] \cup {u} /\ Pos(h[q]) < Pos(h[p])
  BY PruneSiteFacts
<1>2. LeafCell(h[p]) /\ h[p].key = u /\ NodeCell(h[q]) /\ Toward(h, q, u) = p
  BY DEF PruneSite
<1>3. Pos(h[p]) = 128 * (Len(u) + 1) /\ Len(u) \in Nat
  <2>1. Pos(h[p]) = 128 * (Len(h[p].key) + 1)
    BY <1>2, LeafKind
  <2> QED BY <1>1, <1>2, <2>1, ReadsByte
<1>4. u \in K[a] => Pos(h[a]) # Pos(h[p]) /\ Pos(h[a]) # Pos(h[q])
  BY <1>1 DEF Chained
<1>5. CASE LeafCell(h[a])
  <2>1. LeafOK(h, K, a)
    BY <1>1, <1>5, CellFacts
  <2>2. K[a] = {h[a].key} /\ Pos(h[a]) = 128 * (Len(h[a].key) + 1)
    BY <1>5, <2>1, LeafKind DEF LeafOK
  <2>3. u \notin K[a]
    <3> SUFFICES ASSUME u \in K[a] PROVE FALSE
      OBVIOUS
    <3>1. h[a].key = u
      BY <2>2
    <3> QED BY <1>3, <1>4, <2>2, <3>1
  <2> QED BY <2>2, <2>3
<1>6. CASE NodeCell(h[a])
  <2>1. NodeOK(h, K, a)
    BY <1>1, <1>6, CellFacts
  <2>2. ASSUME u \in K[a] PROVE Pos(h[a]) < Pos(h[q])
    <3>1. h[a].byte <= Len(u)
      BY <2>1, <2>2 DEF NodeOK
    <3>2. h[a].byte \in Nat /\ h[a].bit \in Bits /\ Pos(h[a]) = At(h[a].byte, h[a].bit)
      BY <1>6, NodeKind
    <3>3. Pos(h[a]) < Pos(h[p])
      <4> DEFINE b == h[a].byte
      <4> HIDE DEF b
      <4>1. b \in Nat /\ b <= Len(u) /\ Pos(h[a]) = At(b, h[a].bit)
        BY <3>1, <3>2 DEF b
      <4>2. \A n \in Nat : b <= n => At(b, h[a].bit) < 128 * (n + 1)
        BY <3>2, <4>1, AtOrder
      <4> QED BY <1>3, <4>1, <4>2
    <3>4. ~(Pos(h[q]) < Pos(h[a]))
      <4> SUFFICES ASSUME Pos(h[q]) < Pos(h[a]) PROVE FALSE
        OBVIOUS
      <4>1. u \in K[q] \cap K[a]
        BY <1>1, <2>2
      <4>2. Pos(h[p]) <= Pos(h[a])
        BY <1>1, <1>2, <4>1 DEF Chained
      <4> QED BY <1>1, <3>3, <4>2
    <3> QED BY <1>1, <1>4, <2>2, <3>4
  <2>3. K[a] \ {u} # {}
    <3>1. /\ K[a] = K[h[a].child[1]] \cup K[h[a].child[2]]
          /\ K[h[a].child[1]] # {} /\ K[h[a].child[2]] # {}
          /\ \A x \in K[h[a].child[1]] : Direction(h[a], x) = 1
          /\ \A x \in K[h[a].child[2]] : Direction(h[a], x) = 2
      BY <2>1 DEF NodeOK, ChildOK
    <3>2. PICK x \in K[h[a].child[1]], y \in K[h[a].child[2]] : TRUE
      BY <3>1
    <3>3. x # y
      BY <3>1
    <3> QED BY <3>1, <3>3
  <2> QED BY <1>6, <2>2, <2>3
<1> QED BY <1>1, <1>5, <1>6, CellFacts

\* Only w points to the node, and only the node to the leaf.
LEMMA PruneChild ==
    ASSUME NEW h, NEW K, NEW r, NEW d, NEW w, NEW q, NEW p, NEW s, NEW u,
           PruneSite(h, K, r, d, w, q, p, s, u),
           NEW a \in Alive(h) \ {p, q}, NodeOK(h, K, a), NEW e \in {1, 2},
           NEW c, c = h[a].child[e]
    PROVE  /\ c \in Alive(h) /\ Pos(h[a]) < Pos(h[c]) /\ K[c] \subseteq K[a]
           /\ w # <<a, e>> => c # p /\ c # q
           /\ w = <<a, e>> => c = q
<1>1. /\ Shape(h, K, r, d) /\ Chained(h, K) /\ EdgeTo(h, r, w, q)
      /\ \A b \in Alive(h) : CellOK(h, K, b) /\ Pos(h[b]) \in Nat
      /\ q \in Alive(h) /\ p \in Alive(h) /\ p # q
      /\ K[p] = {u} /\ u \in K[q] /\ Pos(h[q]) < Pos(h[p])
  <2>1. Shape(h, K, r, d) /\ EdgeTo(h, r, w, q) /\ u \in K[q]
    BY DEF PruneSite
  <2> QED BY <2>1, PruneSiteFacts
<1>2. NodeCell(h[a])
  BY DEF NodeOK
<1>3. /\ c \in Alive(h) /\ Pos(h[a]) < Pos(h[c]) /\ K[c] \subseteq K[a]
      /\ \A x \in K[c] : Direction(h[a], x) = e /\ Toward(h, a, x) = c
  BY ChildKeys
<1>4. ASSUME w = <<a, e>> PROVE c = q
  <2>1. w # RootRef
    BY <1>4, NullAssumption DEF RootRef, Alive
  <2> QED BY <1>1, <1>4, <2>1 DEF EdgeTo
<1>5. ASSUME c = q PROVE w = <<a, e>>
  <2>1. u \in K[a] /\ Direction(h[a], u) = e /\ Toward(h, a, u) = q
           /\ Pos(h[a]) < Pos(h[q])
    BY <1>1, <1>3, <1>5
  <2>2. PICK g \in Alive(h), f \in {1, 2} :
           /\ w = <<g, f>> /\ Direction(h[g], u) = f
           /\ Pos(h[g]) < Pos(h[q])
           /\ a # g /\ NodeCell(h[a]) => Pos(h[Toward(h, a, u)]) <= Pos(h[g])
    BY <1>1, <2>1, EdgeCut
  <2>3. a = g
    BY <1>1, <1>2, <2>1, <2>2
  <2> QED BY <2>1, <2>2, <2>3
<1>6. c # p
  <2> SUFFICES ASSUME c = p PROVE FALSE
    OBVIOUS
  <2>1. u \in K[a] \cap K[q] /\ Toward(h, a, u) = p
    BY <1>1, <1>3
  <2>2. Pos(h[a]) < Pos(h[q])
    BY <2>1, PruneAbove
  <2>3. Pos(h[p]) <= Pos(h[q])
    BY <1>1, <1>2, <2>1, <2>2 DEF Chained
  <2> QED BY <1>1, <2>3
<1> QED BY <1>3, <1>4, <1>5, <1>6

\* What is left after a key has been deleted.
LEMMA PruneFacts ==
    ASSUME NEW h, NEW K, NEW r, NEW d, NEW w, NEW q, NEW p, NEW s, NEW u,
           NEW h2, NEW K2, Prune(h, K, r, d, w, q, p, s, u, h2, K2)
    PROVE  /\ PruneSite(h, K, r, d, w, q, p, s, u)
           /\ K2 \in [Addrs -> SUBSET Keys] /\ \A a \in Alive(h) : K2[a] = K[a] \ {u}
           /\ Alive(h2) = Alive(h) \ {p, q}
           /\ \A a \in Alive(h2) :
                 /\ CellOK(h, K, a) /\ Pos(h[a]) \in Nat /\ K2[a] # {}
                 /\ Kept(h, h2, w, s, a) /\ Pos(h2[a]) = Pos(h[a])
                 /\ LeafCell(h2[a]) <=> LeafCell(h[a])
                 /\ NodeCell(h2[a]) <=> NodeCell(h[a])
                 /\ NodeCell(h[a]) =>
                       \A x : /\ Direction(h2[a], x) = Direction(h[a], x)
                              /\ Toward(h2, a, x) = IF w = <<a, Direction(h[a], x)>>
                                                    THEN s ELSE Toward(h, a, x)
<1>1. /\ PruneSite(h, K, r, d, w, q, p, s, u)
      /\ Pruned(h, h2, w, q, p, s) /\ K2 = [a \in Addrs |-> K[a] \ {u}]
  BY DEF Prune
<1>2. /\ K \in [Addrs -> SUBSET Keys]
      /\ \A a \in Alive(h) : CellOK(h, K, a) /\ Pos(h[a]) \in Nat
  BY <1>1, PruneSiteFacts
<1>3. K2 \in [Addrs -> SUBSET Keys] /\ \A a \in Alive(h) : K2[a] = K[a] \ {u}
  BY <1>1, <1>2 DEF Alive
<1>4. /\ h2[p] = NoCell /\ h2[q] = NoCell
      /\ \A a \in Alive(h) \ {p, q} : Kept(h, h2, w, s, a)
      /\ \A a \in Addrs \ Alive(h) : h2[a] = NoCell
  BY <1>1 DEF Pruned
<1>5. \A a \in Alive(h) : LeafCell(h[a]) \/ NodeCell(h[a])
  BY <1>2, CellFacts
<1>6. Alive(h2) = Alive(h) \ {p, q}
  <2>1. \A a \in Alive(h) \ {p, q} : h2[a] # NoCell
    BY <1>4, <1>5, KeptFacts
  <2> QED BY <1>4, <2>1 DEF Alive
<1>7. ASSUME NEW a \in Alive(h) \ {p, q}
      PROVE  /\ Kept(h, h2, w, s, a) /\ Pos(h2[a]) = Pos(h[a])
             /\ LeafCell(h2[a]) <=> LeafCell(h[a])
             /\ NodeCell(h2[a]) <=> NodeCell(h[a])
             /\ NodeCell(h[a]) =>
                   \A x : /\ Direction(h2[a], x) = Direction(h[a], x)
                          /\ Toward(h2, a, x) = IF w = <<a, Direction(h[a], x)>>
                                                THEN s ELSE Toward(h, a, x)
  BY <1>4, <1>5, KeptFacts
<1>8. \A a \in Alive(h) \ {p, q} : K2[a] # {}
  BY <1>1, <1>3, PruneAbove
<1> QED BY <1>1, <1>2, <1>3, <1>6, <1>7, <1>8

\* Every cell is as it should be.
LEMMA PruneCells ==
    ASSUME NEW h, NEW K, NEW r, NEW d, NEW w, NEW q, NEW p, NEW s, NEW u,
           NEW h2, NEW K2, Prune(h, K, r, d, w, q, p, s, u, h2, K2)
    PROVE  \A a \in Alive(h2) : CellOK(h2, K2, a)
<1> SUFFICES ASSUME NEW a \in Alive(h2) PROVE CellOK(h2, K2, a)
  OBVIOUS
<1>1. /\ PruneSite(h, K, r, d, w, q, p, s, u)
      /\ \A b \in Alive(h) : K2[b] = K[b] \ {u}
      /\ Alive(h2) = Alive(h) \ {p, q}
      /\ \A b \in Alive(h2) :
            /\ CellOK(h, K, b) /\ Pos(h[b]) \in Nat /\ K2[b] # {}
            /\ Kept(h, h2, w, s, b) /\ Pos(h2[b]) = Pos(h[b])
  BY PruneFacts
<1>2. /\ q \in Alive(h) /\ p \in Alive(h) /\ s \in Alive(h) /\ p # q /\ s # q /\ s # p
      /\ u \notin K[s] /\ K[q] = K[s] \cup {u}
      /\ Pos(h[q]) < Pos(h[s]) /\ Pos(h[q]) \in Nat
  BY <1>1, PruneSiteFacts
<1>3. CASE LeafOK(h, K, a)
  <2>1. h2[a] = h[a] /\ LeafCell(h[a]) /\ K[a] = {h[a].key}
    BY <1>1, <1>3 DEF Kept, LeafOK
  <2>2. K2[a] = {h[a].key}
    BY <1>1, <2>1
  <2> QED BY <2>1, <2>2 DEF CellOK, LeafOK
<1>4. CASE NodeOK(h, K, a)
  <2> DEFINE c(e) == h[a].child[e]
             c2(e) == h2[a].child[e]
  <2>1. /\ NodeCell(h[a]) /\ NodeCell(h2[a])
        /\ h2[a].byte = h[a].byte /\ h2[a].bit = h[a].bit
        /\ \A x : Direction(h2[a], x) = Direction(h[a], x)
        /\ \A e \in {1, 2} : c2(e) = IF w = <<a, e>> THEN s ELSE c(e)
    BY <1>1, <1>4 DEF Kept, NodeOK, Direction
  <2> HIDE DEF c, c2
  <2>2. ASSUME NEW e \in {1, 2}
        PROVE  /\ c2(e) \in Alive(h2) /\ Pos(h2[a]) < Pos(h2[c2(e)])
               /\ K2[c2(e)] = K[c(e)] \ {u} /\ K2[c2(e)] # {}
    <3>1. /\ c(e) \in Alive(h) /\ Pos(h[a]) < Pos(h[c(e)])
          /\ w # <<a, e>> => c(e) # p /\ c(e) # q
          /\ w = <<a, e>> => c(e) = q
      <4>1. c(e) = h[a].child[e]
        BY DEF c
      <4> QED BY <1>1, <1>4, <4>1, PruneChild
    <3>2. CASE w = <<a, e>>
      <4>1. c2(e) = s /\ c(e) = q /\ s \in Alive(h2)
        BY <1>1, <1>2, <2>1, <3>1, <3>2
      <4>2. K2[s] = K[q] \ {u} /\ K2[s] # {}
        BY <1>1, <1>2, <4>1
      <4>3. Pos(h2[a]) < Pos(h2[s])
        BY <1>1, <1>2, <3>1, <4>1
      <4> QED BY <4>1, <4>2, <4>3
    <3>3. CASE w # <<a, e>>
      <4>1. c2(e) = c(e) /\ c(e) \in Alive(h2)
        BY <1>1, <2>1, <3>1, <3>3
      <4> QED BY <1>1, <3>1, <4>1
    <3> QED BY <3>2, <3>3
  <2>3. ASSUME NEW e \in {1, 2} PROVE ChildOK(h2, K2, a, e)
    <3>1. \A x \in K[c(e)] : Direction(h[a], x) = e
      BY <1>4 DEF NodeOK, ChildOK, c
    <3>2. \A x \in K2[c2(e)] : Direction(h2[a], x) = e
      BY <2>1, <2>2, <3>1
    <3> QED BY <2>2, <3>2 DEF ChildOK, c2
  <2>4. K2[a] = K2[c2(1)] \cup K2[c2(2)]
    <3>1. K[a] = K[c(1)] \cup K[c(2)]
      BY <1>4 DEF NodeOK, c
    <3> QED BY <1>1, <2>2, <3>1
  <2>5. K2[a] \subseteq K[a]
    BY <1>1
  <2>6. /\ \A x, y \in K2[a] : Same(x, y, h2[a].byte, h2[a].bit)
        /\ \A x \in K2[a] : h2[a].byte <= Len(x)
    BY <1>4, <2>1, <2>5 DEF NodeOK
  <2>7. ChildOK(h2, K2, a, 1) /\ ChildOK(h2, K2, a, 2)
    BY <2>3
  <2> QED BY <2>1, <2>4, <2>6, <2>7 DEF CellOK, NodeOK, c2
<1> QED BY <1>1, <1>3, <1>4 DEF CellOK

\* Every key still has its nodes in a chain.
LEMMA PruneChained ==
    ASSUME NEW h, NEW K, NEW r, NEW d, NEW w, NEW q, NEW p, NEW s, NEW u,
           NEW h2, NEW K2, Prune(h, K, r, d, w, q, p, s, u, h2, K2)
    PROVE  Chained(h2, K2)
<1>1. /\ PruneSite(h, K, r, d, w, q, p, s, u)
      /\ \A b \in Alive(h) : K2[b] = K[b] \ {u}
      /\ Alive(h2) = Alive(h) \ {p, q}
      /\ \A b \in Alive(h2) :
            /\ CellOK(h, K, b) /\ Pos(h[b]) \in Nat /\ Pos(h2[b]) = Pos(h[b])
            /\ NodeCell(h2[b]) <=> NodeCell(h[b])
            /\ NodeCell(h[b]) =>
                  \A x : Toward(h2, b, x) = IF w = <<b, Direction(h[b], x)>>
                                            THEN s ELSE Toward(h, b, x)
  BY PruneFacts
<1>2. /\ Chained(h, K) /\ q \in Alive(h) /\ s \in Alive(h) /\ s # p /\ s # q
      /\ K[q] = K[s] \cup {u} /\ Pos(h[q]) \in Nat
      /\ \A x \in K[s] : Toward(h, q, x) = s
  BY <1>1, PruneSiteFacts
<1>3. NodeCell(h[q])
  BY <1>1 DEF PruneSite
<1>4. ASSUME NEW a \in Alive(h2), NEW b \in Alive(h2), NEW x \in K2[a] \cap K2[b]
      PROVE  Linked(h2, x, a, b)
  <2>1. x \in K[a] \cap K[b] /\ x # u /\ a \in Alive(h) /\ b \in Alive(h) /\ b # q
    BY <1>1
  <2>2. Linked(h, x, a, b)
    BY <1>2, <2>1 DEF Chained, Linked
  <2>3. ASSUME NodeCell(h[a]), Pos(h[a]) < Pos(h[b])
        PROVE  Pos(h2[Toward(h2, a, x)]) <= Pos(h[b])
    <3> DEFINE e == Direction(h[a], x)
    <3>1. Pos(h[Toward(h, a, x)]) <= Pos(h[b])
      BY <2>2, <2>3 DEF Linked
    <3>2. NodeOK(h, K, a)
      BY <1>1, <2>3, CellFacts
    <3>3. e \in {1, 2} /\ Toward(h, a, x) = h[a].child[e] /\ x \in K[Toward(h, a, x)]
      BY <2>1, <3>2, TowardKey DEF Toward
    <3>4. /\ Toward(h, a, x) \in Alive(h)
          /\ w # <<a, e>> => Toward(h, a, x) # p /\ Toward(h, a, x) # q
          /\ w = <<a, e>> => Toward(h, a, x) = q
      <4> HIDE DEF e
      <4> QED BY <1>1, <3>2, <3>3, PruneChild
    <3>5. CASE w = <<a, e>>
      <4>1. Toward(h2, a, x) = s /\ Toward(h, a, x) = q
        BY <1>1, <2>3, <3>4, <3>5
      <4>2. x \in K[q] \cap K[b] /\ x \in K[s]
        BY <1>2, <2>1, <3>3, <4>1
      <4>3. Pos(h[q]) # Pos(h[b]) /\ Pos(h[q]) <= Pos(h[b])
        BY <1>2, <2>1, <3>1, <4>1, <4>2 DEF Chained
      <4>4. Pos(h[q]) < Pos(h[b])
        BY <1>1, <1>2, <4>3
      <4>5. Pos(h[s]) <= Pos(h[b])
        BY <1>2, <1>3, <2>1, <4>2, <4>4 DEF Chained
      <4> QED BY <1>1, <1>2, <4>1, <4>5
    <3>6. CASE w # <<a, e>>
      <4>1. Toward(h2, a, x) = Toward(h, a, x) /\ Toward(h, a, x) \in Alive(h2)
        BY <1>1, <2>3, <3>4, <3>6
      <4> QED BY <1>1, <3>1, <4>1
    <3> QED BY <3>5, <3>6
  <2> QED BY <1>1, <2>2, <2>3 DEF Linked
<1> QED BY <1>4 DEF Chained, Linked

\* The root is what it was, or the sibling.
LEMMA PruneRooted ==
    ASSUME NEW h, NEW K, NEW r, NEW d, NEW w, NEW q, NEW p, NEW s, NEW u,
           NEW h2, NEW K2, Prune(h, K, r, d, w, q, p, s, u, h2, K2),
           NEW r2, r2 = TopOf(r, w, s)
    PROVE  Rooted(h2, K2, r2) /\ K2[r2] = K[r] \ {u}
<1>1. /\ PruneSite(h, K, r, d, w, q, p, s, u)
      /\ \A b \in Alive(h) : K2[b] = K[b] \ {u}
      /\ Alive(h2) = Alive(h) \ {p, q}
      /\ \A b \in Alive(h2) : Pos(h[b]) \in Nat /\ Pos(h2[b]) = Pos(h[b]) /\ K2[b] # {}
  BY PruneFacts
<1>2. /\ Chained(h, K) /\ Rooted(h, K, r)
      /\ q \in Alive(h) /\ p \in Alive(h) /\ s \in Alive(h) /\ s # p /\ s # q
      /\ u \notin K[s] /\ K[q] = K[s] \cup {u} /\ Pos(h[q]) < Pos(h[p])
      /\ Pos(h[q]) \in Nat /\ Pos(h[p]) \in Nat
      /\ \A x \in K[s] : Toward(h, q, x) = s
      /\ \A a \in Alive(h) : CellOK(h, K, a) /\ Pos(h[a]) \in Nat
  BY <1>1, PruneSiteFacts
<1>3. r \in Alive(h) /\ \A a \in Alive(h) : Pos(h[r]) <= Pos(h[a]) /\ K[a] \subseteq K[r]
  BY <1>2 DEF Rooted
<1>4. NodeCell(h[q]) /\ EdgeTo(h, r, w, q)
  BY <1>1 DEF PruneSite
<1>5. CASE w = RootRef
  <2>1. r = q /\ r2 = s
    <3>1. \A g \in Alive(h), e \in {1, 2} : w # <<g, e>>
      BY <1>5, NullAssumption DEF RootRef, Alive
    <3> QED BY <1>4, <1>5, <3>1 DEF EdgeTo, TopOf
  <2>2. K2[s] = K[r] \ {u} /\ s \in Alive(h2)
    BY <1>1, <1>2, <2>1
  <2>3. ASSUME NEW a \in Alive(h2) PROVE Pos(h2[s]) <= Pos(h2[a]) /\ K2[a] \subseteq K2[s]
    <3>1. a \in Alive(h) /\ a # q /\ K2[a] \subseteq K2[s]
      BY <1>1, <1>3, <2>2
    <3>2. PICK x \in K2[a] : TRUE
      BY <1>1
    <3>3. x \in K[a] \cap K[q] /\ x \in K[s]
      BY <1>1, <1>2, <1>3, <2>1, <3>1, <3>2
    <3>4. Pos(h[q]) # Pos(h[a])
      BY <1>2, <3>1, <3>3 DEF Chained
    <3>5. Pos(h[q]) < Pos(h[a])
      BY <1>1, <1>2, <1>3, <2>1, <3>1, <3>4
    <3>6. Pos(h[s]) <= Pos(h[a])
      BY <1>2, <1>4, <3>1, <3>3, <3>5 DEF Chained
    <3> QED BY <1>1, <2>2, <3>1, <3>6
  <2> QED BY <2>1, <2>2, <2>3 DEF Rooted
<1>6. CASE w # RootRef
  <2>1. PICK g \in Alive(h), e \in {1, 2} : NodeCell(h[g]) /\ h[g].child[e] = q
    BY <1>4, <1>6 DEF EdgeTo
  <2>2. NodeOK(h, K, g)
    BY <1>2, <2>1, CellFacts
  <2>3. Pos(h[g]) < Pos(h[q])
    BY <2>1, <2>2, ChildKeys
  <2>4. r # q /\ r # p
    BY <1>2, <1>3, <2>3
  <2>5. r2 = r /\ r \in Alive(h2)
    BY <1>1, <1>3, <1>6, <2>4 DEF TopOf
  <2>6. \A a \in Alive(h2) : Pos(h2[r]) <= Pos(h2[a]) /\ K2[a] \subseteq K2[r]
    BY <1>1, <1>3, <2>5
  <2> QED BY <1>1, <1>3, <2>5, <2>6 DEF Rooted
<1> QED BY <1>5, <1>6

\* The tree without the key holds the map without the key.
LEMMA PruneShape ==
    ASSUME NEW h, NEW K, NEW r, NEW d, NEW w, NEW q, NEW p, NEW s, NEW u,
           NEW h2, NEW K2, Prune(h, K, r, d, w, q, p, s, u, h2, K2),
           NEW r2, r2 = TopOf(r, w, s), NEW d2, d2 = [d EXCEPT ![u] = Null]
    PROVE  Shape(h2, K2, r2, d2)
<1>1. /\ PruneSite(h, K, r, d, w, q, p, s, u) /\ K2 \in [Addrs -> SUBSET Keys]
      /\ Alive(h2) = Alive(h) \ {p, q}
      /\ \A a \in Alive(h2) : /\ CellOK(h, K, a) /\ Kept(h, h2, w, s, a)
                              /\ LeafCell(h2[a]) <=> LeafCell(h[a])
  BY PruneFacts
<1>2. Rooted(h2, K2, r2) /\ K2[r2] = K[r] \ {u}
  BY PruneRooted
<1>3. h2 = [a \in Addrs |-> h2[a]]
  BY DEF Prune, Pruned
<1>4. Holds(h, K, r, d) /\ u \in Keys
  <2>1. u \in Keys
    BY <1>1, PruneSiteFacts
  <2> QED BY <1>1, <2>1 DEF PruneSite, Shape
<1>5. /\ d \in [Keys -> Vals \cup {Null}]
      /\ \A x \in Keys : d[x] # Null <=> x \in K[r]
      /\ \A a \in Alive(h) : LeafCell(h[a]) => d[h[a].key] = h[a].val
  BY <1>4 DEF Holds
<1>6. /\ d2 \in [Keys -> Vals \cup {Null}] /\ d2[u] = Null
      /\ \A x \in Keys : x # u => d2[x] = d[x]
  BY <1>4, <1>5
<1>7. \A x \in Keys : d2[x] # Null <=> x \in K2[r2]
  BY <1>2, <1>5, <1>6
<1>8. ASSUME NEW a \in Alive(h2), LeafCell(h2[a]) PROVE d2[h2[a].key] = h2[a].val
  <2>1. a \in Alive(h) \ {p, q} /\ LeafCell(h[a]) /\ h2[a] = h[a]
    BY <1>1, <1>8 DEF Kept
  <2>2. LeafOK(h, K, a) /\ ~NodeCell(h[a])
    BY <1>1, <2>1, CellFacts
  <2>3. K[a] = {h[a].key} /\ h[a].key \in Keys
    BY <2>1, <2>2, LeafKind DEF LeafOK
  <2>4. u \notin K[a]
    BY <1>1, <2>1, <2>2, PruneAbove
  <2> QED BY <1>5, <1>6, <2>1, <2>3, <2>4
<1>9. Holds(h2, K2, r2, d2)
  BY <1>6, <1>7, <1>8 DEF Holds
<1> QED BY <1>1, <1>2, <1>3, <1>9, PruneCells, PruneChained DEF Shape

-----------------------------------------------------------------------------
(* The other steps. *)

Bare(h, r, d) == /\ r = Null /\ h = [a \in Addrs |-> NoCell]
                 /\ d = [x \in Keys |-> Null]

\* The first key makes a tree of one leaf.
LEMMA PlantShape ==
    ASSUME NEW h, NEW r, NEW d, Bare(h, r, d), NEW u \in Keys, NEW v \in Vals,
           NEW n \in Addrs, NEW h2, h2 = [h EXCEPT ![n] = Leaf(u, v)],
           NEW d2, d2 = [d EXCEPT ![u] = v]
    PROVE  \E K : Shape(h2, K, n, d2)
<1> DEFINE q == Leaf(u, v)
           K == [a \in Addrs |-> {u}]
<1>1. LeafCell(q) /\ q.key = u /\ q.val = v
  BY LeafMade
<1>2. q # NoCell /\ Pos(q) \in Nat /\ ~NodeCell(q)
  BY <1>1, LeafKind
<1> HIDE DEF q
<1>3. h2 = [a \in Addrs |-> h2[a]] /\ h2[n] = q
         /\ \A a \in Addrs : a # n => h2[a] = NoCell
  BY DEF Bare, q
<1>4. Alive(h2) = {n}
  BY <1>2, <1>3 DEF Alive
<1>5. CellOK(h2, K, n)
  BY <1>1, <1>3 DEF CellOK, LeafOK
<1>6. Chained(h2, K)
  BY <1>2, <1>3, <1>4 DEF Chained
<1>7. Rooted(h2, K, n)
  <2>1. Pos(h2[n]) <= Pos(h2[n])
    BY <1>2, <1>3
  <2> HIDE DEF K
  <2> QED BY <1>4, <2>1 DEF Rooted
<1>8. /\ d2 \in [Keys -> Vals \cup {Null}] /\ d2[u] = v
      /\ \A x \in Keys : x # u => d2[x] = Null
  BY DEF Bare
<1>9. Holds(h2, K, n, d2)
  <2>1. \A x \in Keys : d2[x] # Null <=> x \in K[n]
    BY <1>8, NullAssumption
  <2>2. \A a \in Alive(h2) : LeafCell(h2[a]) => d2[h2[a].key] = h2[a].val
    BY <1>1, <1>3, <1>4, <1>8
  <2> QED BY <1>8, <2>1, <2>2 DEF Holds
<1>10. K \in [Addrs -> SUBSET Keys]
  OBVIOUS
<1> HIDE DEF K
<1>11. Shape(h2, K, n, d2)
  BY <1>3, <1>4, <1>5, <1>6, <1>7, <1>9, <1>10 DEF Shape
<1> QED BY <1>11

\* A leaf gets another value.
LEMMA Revalued ==
    ASSUME NEW k, NEW old, NEW v, NEW q, q = Leaf(k, old)
    PROVE  [q EXCEPT !.val = v] = Leaf(k, v)
<1>1. ASSUME NEW t, NEW p, p = [leaf |-> t, key |-> k, val |-> old],
             NEW p2, p2 = [p EXCEPT !.val = v]
      PROVE  p2 = [leaf |-> t, key |-> k, val |-> v]
  BY <1>1
<1> QED BY <1>1 DEF Leaf

\* A key that is there gets another value.
LEMMA RelabelShape ==
    ASSUME NEW h, NEW K, NEW r, NEW d, Shape(h, K, r, d),
           NEW c \in Alive(h), LeafCell(h[c]), NEW u, u = h[c].key, NEW v \in Vals,
           NEW h2, h2 = [h EXCEPT ![c].val = v],
           NEW d2, d2 = [d EXCEPT ![u] = v]
    PROVE  Shape(h2, K, r, d2)
<1>1. /\ h = [a \in Addrs |-> h[a]] /\ K \in [Addrs -> SUBSET Keys]
      /\ Chained(h, K) /\ Rooted(h, K, r) /\ Holds(h, K, r, d)
      /\ \A a \in Alive(h) : CellOK(h, K, a)
  BY DEF Shape
<1>2. c \in Addrs /\ u \in Keys /\ h[c] = Leaf(u, h[c].val)
         /\ Pos(h[c]) = 128 * (Len(u) + 1)
  BY LeafKind DEF Alive
<1>3. h2 = [a \in Addrs |-> h2[a]] /\ \A a \in Addrs : a # c => h2[a] = h[a]
  BY <1>1, <1>2
<1>4. h2[c] = Leaf(u, v)
  <2>1. h2[c] = [h[c] EXCEPT !.val = v]
    BY <1>1, <1>2
  <2> QED BY <1>2, <2>1, Revalued
<1>5. /\ LeafCell(h2[c]) /\ h2[c].key = u /\ h2[c].val = v
      /\ Pos(h2[c]) = Pos(h[c]) /\ h2[c] # NoCell
  <2>1. /\ LeafCell(h2[c]) /\ h2[c].key = u /\ h2[c].val = v
        /\ Pos(h2[c]) = 128 * (Len(u) + 1)
    <3> DEFINE q == h2[c]
    <3>1. q = Leaf(u, v)
      BY <1>4
    <3> HIDE DEF q
    <3>2. LeafCell(q) /\ q.key = u /\ q.val = v /\ Pos(q) = 128 * (Len(u) + 1)
      BY <1>2, <3>1, LeafMade
    <3> QED BY <3>2 DEF q
  <2>2. h2[c] # NoCell
    BY <2>1, LeafKind
  <2> QED BY <1>2, <2>1, <2>2
<1>6. ~NodeCell(h[c]) /\ ~NodeCell(h2[c])
  BY <1>5, LeafKind
<1>7. Alive(h2) = Alive(h)
  BY <1>3, <1>5 DEF Alive
<1>8. \A a \in Alive(h) : Pos(h2[a]) = Pos(h[a])
  BY <1>3, <1>5 DEF Alive
<1>9. \A a \in Alive(h) : NodeCell(h2[a]) => h2[a] = h[a]
  BY <1>3, <1>6 DEF Alive
<1>10. ASSUME NEW a \in Alive(h) PROVE CellOK(h2, K, a)
  <2>1. CASE a = c
    <3>1. K[c] = {u}
      BY <1>1, CellFacts DEF LeafOK
    <3> QED BY <1>5, <2>1, <3>1 DEF CellOK, LeafOK
  <2>2. CASE a # c
    <3>1. h2[a] = h[a] /\ CellOK(h, K, a)
      BY <1>1, <1>3, <2>2 DEF Alive
    <3>2. CASE LeafOK(h, K, a)
      BY <3>1, <3>2 DEF CellOK, LeafOK
    <3>3. CASE NodeOK(h, K, a)
      <4>1. ASSUME NEW e, ChildOK(h, K, a, e) PROVE ChildOK(h2, K, a, e)
        BY <1>7, <1>8, <3>1, <4>1 DEF ChildOK
      <4>2. ChildOK(h2, K, a, 1) /\ ChildOK(h2, K, a, 2)
        BY <3>3, <4>1 DEF NodeOK
      <4> QED BY <3>1, <3>3, <4>2 DEF CellOK, NodeOK
    <3> QED BY <3>1, <3>2, <3>3 DEF CellOK
  <2> QED BY <2>1, <2>2
<1>11. Chained(h2, K)
  <2>1. ASSUME NEW a \in Alive(h), NEW b \in Alive(h), NEW x \in K[a] \cap K[b]
        PROVE  Linked(h2, x, a, b)
    <3>1. Linked(h, x, a, b)
      BY <1>1 DEF Chained, Linked
    <3>2. ASSUME NodeCell(h2[a])
          PROVE  Toward(h2, a, x) = Toward(h, a, x) /\ Toward(h, a, x) \in Alive(h)
      <4>1. h2[a] = h[a] /\ NodeOK(h, K, a)
        BY <1>1, <1>9, <3>2, CellFacts
      <4> QED BY <4>1, TowardKey DEF Toward
    <3>3. NodeCell(h2[a]) => NodeCell(h[a])
      BY <1>9
    <3> QED BY <1>8, <3>1, <3>2, <3>3 DEF Linked
  <2> QED BY <1>7, <2>1 DEF Chained, Linked
<1>12. Rooted(h2, K, r)
  BY <1>1, <1>7, <1>8 DEF Rooted
<1>13. /\ d \in [Keys -> Vals \cup {Null}]
       /\ \A x \in Keys : d[x] # Null <=> x \in K[r]
       /\ \A a \in Alive(h) : LeafCell(h[a]) => d[h[a].key] = h[a].val
  BY <1>1 DEF Holds
<1>14. u \in K[r]
  <2>1. K[c] = {u} /\ K[c] \subseteq K[r]
    BY <1>1, CellFacts DEF LeafOK, Rooted
  <2> QED BY <2>1
<1>15. /\ d2 \in [Keys -> Vals \cup {Null}] /\ d2[u] = v
       /\ \A x \in Keys : x # u => d2[x] = d[x]
  BY <1>2, <1>13
<1>16. \A x \in Keys : d2[x] # Null <=> x \in K[r]
  BY <1>13, <1>14, <1>15, NullAssumption
<1>17. ASSUME NEW a \in Alive(h), LeafCell(h2[a]) PROVE d2[h2[a].key] = h2[a].val
  <2>1. CASE a = c
    BY <1>5, <1>15, <2>1
  <2>2. CASE a # c
    <3>1. h2[a] = h[a] /\ LeafOK(h, K, a) /\ LeafOK(h, K, c)
      BY <1>1, <1>3, <1>17, <2>2, CellFacts DEF Alive
    <3>2. K[a] = {h[a].key} /\ K[c] = {u} /\ h[a].key \in Keys
             /\ Pos(h[a]) = 128 * (Len(h[a].key) + 1)
      BY <1>17, <3>1, LeafKind DEF LeafOK
    <3>3. h[a].key # u
      <4> SUFFICES ASSUME h[a].key = u PROVE FALSE
        OBVIOUS
      <4>1. Pos(h[a]) = Pos(h[c]) /\ u \in K[a] \cap K[c]
        BY <1>2, <3>2
      <4> QED BY <1>1, <2>2, <4>1 DEF Chained
    <3> QED BY <1>13, <1>15, <1>17, <3>1, <3>2, <3>3
  <2> QED BY <2>1, <2>2
<1>18. Holds(h2, K, r, d2)
  BY <1>7, <1>15, <1>16, <1>17 DEF Holds
<1> QED BY <1>1, <1>3, <1>7, <1>10, <1>11, <1>12, <1>18 DEF Shape

\* When the root is a leaf it is all there is.
LEMMA FellShape ==
    ASSUME NEW h, NEW K, NEW r, NEW d, Shape(h, K, r, d),
           LeafCell(h[r]), NEW u, u = h[r].key,
           NEW h2, h2 = [h EXCEPT ![r] = NoCell], NEW d2, d2 = [d EXCEPT ![u] = Null]
    PROVE  Bare(h2, Null, d2)
<1>1. /\ h = [a \in Addrs |-> h[a]] /\ Chained(h, K) /\ Rooted(h, K, r)
      /\ Holds(h, K, r, d) /\ \A a \in Alive(h) : CellOK(h, K, a)
  BY DEF Shape
<1>2. r \in Alive(h) /\ r \in Addrs /\ K[r] = {u}
  BY <1>1, CellFacts DEF Rooted, LeafOK, Alive
<1>3. ASSUME NEW a \in Alive(h), a # r PROVE FALSE
  <2>1. K[a] \subseteq {u} /\ K[a] # {} /\ CellOK(h, K, a)
    BY <1>1, <1>2, CellFacts DEF Rooted
  <2>2. CASE LeafOK(h, K, a)
    <3>1. h[a].key = u
      BY <2>1, <2>2 DEF LeafOK
    <3>2. Pos(h[a]) = 128 * (Len(u) + 1) /\ Pos(h[r]) = 128 * (Len(u) + 1)
      BY <2>2, <3>1, LeafKind DEF LeafOK
    <3>3. u \in K[a] \cap K[r]
      BY <1>2, <2>1
    <3> QED BY <1>1, <1>2, <1>3, <3>2, <3>3 DEF Chained
  <2>3. CASE NodeOK(h, K, a)
    <3>1. /\ K[a] = K[h[a].child[1]] \cup K[h[a].child[2]]
          /\ K[h[a].child[1]] # {} /\ K[h[a].child[2]] # {}
          /\ \A x \in K[h[a].child[1]] : Direction(h[a], x) = 1
          /\ \A x \in K[h[a].child[2]] : Direction(h[a], x) = 2
      BY <2>3 DEF NodeOK, ChildOK
    <3>2. u \in K[h[a].child[1]] /\ u \in K[h[a].child[2]]
      BY <2>1, <3>1
    <3> QED BY <3>1, <3>2
  <2> QED BY <2>1, <2>2, <2>3 DEF CellOK
<1>4. h2 = [a \in Addrs |-> NoCell]
  <2>1. \A a \in Addrs : a # r => h[a] = NoCell
    BY <1>3 DEF Alive
  <2> QED BY <1>1, <1>2, <2>1
<1>5. u \in Keys
  BY LeafKind
<1>6. d2 = [x \in Keys |-> Null]
  <2>1. d \in [Keys -> Vals \cup {Null}] /\ \A x \in Keys : x # u => d[x] = Null
    BY <1>1, <1>2 DEF Holds
  <2> QED BY <1>5, <2>1
<1> QED BY <1>4, <1>6 DEF Bare

-----------------------------------------------------------------------------
(* The walk of a key from the root. *)

Turn(w, u) == LET q == Deref(w)
              IN  IF heap[q].leaf THEN w ELSE <<q, Direction(heap[q], u)>>

Walks(f, u, n) == f = [j \in 0..n |-> IF j = 0 THEN RootRef ELSE Turn(f[j - 1], u)]

\* The recursive definition has a solution.
LEMMA WalkExists ==
    ASSUME NEW u, NEW n \in Nat
    PROVE  \E f : Walks(f, u, n)
<1> DEFINE S == {m \in Nat : \E f : Walks(f, u, m)}
<1>1. 0 \in S
  <2> DEFINE f == [j \in 0..0 |-> RootRef]
  <2>1. \A j \in 0..0 : j = 0
    OBVIOUS
  <2>2. Walks(f, u, 0)
    BY <2>1 DEF Walks
  <2> QED BY <2>2
<1>2. ASSUME NEW m \in 0..(n - 1), m \in S PROVE m + 1 \in S
  <2>1. PICK f : Walks(f, u, m)
    BY <1>2
  <2> DEFINE g == [j \in 0..(m + 1) |-> IF j = m + 1 THEN Turn(f[m], u) ELSE f[j]]
  <2>2. ASSUME NEW j \in 0..(m + 1)
        PROVE  g[j] = IF j = 0 THEN RootRef ELSE Turn(g[j - 1], u)
    <3>1. CASE j = m + 1
      <4>1. j # 0 /\ j - 1 = m /\ m \in 0..(m + 1) /\ m # m + 1
        BY <3>1
      <4>2. g[j - 1] = f[m] /\ g[j] = Turn(f[m], u)
        BY <3>1, <4>1
      <4> QED BY <4>1, <4>2
    <3>2. CASE j # m + 1
      <4>1. j \in 0..m /\ g[j] = f[j]
        BY <3>2
      <4>2. CASE j = 0
        BY <2>1, <4>1, <4>2 DEF Walks
      <4>3. CASE j # 0
        <5>1. j - 1 \in 0..(m + 1) /\ j - 1 # m + 1
          BY <4>1, <4>3
        <5>2. g[j - 1] = f[j - 1]
          BY <5>1
        <5>3. f[j] = Turn(f[j - 1], u)
          BY <2>1, <4>1, <4>3 DEF Walks
        <5> QED BY <4>1, <4>3, <5>2, <5>3
      <4> QED BY <4>2, <4>3
    <3> QED BY <3>1, <3>2
  <2>3. g = [j \in 0..(m + 1) |-> g[j]]
    OBVIOUS
  <2> HIDE DEF g
  <2>4. Walks(g, u, m + 1)
    BY <2>2, <2>3 DEF Walks
  <2> QED BY <1>2, <2>4
<1>3. \A m \in 0..n : m \in S
  <2> HIDE DEF S
  <2> QED BY <1>1, <1>2, Climb
<1> QED BY <1>3

Turns == Cardinality(Addrs)

\* The loop as a sequence of turns.
LEMMA WalkTurns ==
    ASSUME NEW u
    PROVE  /\ Turns \in Nat /\ DOMAIN Walk(u) = 0..Turns
           /\ Walk(u)[0] = RootRef
           /\ \A n \in 1..Turns : Walk(u)[n] = Turn(Walk(u)[n - 1], u)
<1> DEFINE f == CHOOSE f : Walks(f, u, Turns)
<1>1. Turns \in Nat
  BY AddrAssumption, FS_CardinalityType DEF Turns
<1>2. Walks(f, u, Turns)
  <2>1. \E g : Walks(g, u, Turns)
    BY <1>1, WalkExists
  <2> QED BY <2>1, Zenon
<1>3. Walk(u) = f
  BY DEF Walk, Walks, Turn, Turns
<1> HIDE DEF f
<1> QED BY <1>1, <1>2, <1>3 DEF Walks

\* One turn.
LEMMA TurnFacts ==
    ASSUME NEW K, Shape(heap, K, root, dict), NEW u, NEW w,
           Deref(w) \in Alive(heap), EdgeTo(heap, root, w, Deref(w)),
           NEW w2, w2 = Turn(w, u), NEW p, p = Deref(w)
    PROVE  /\ Deref(w2) \in Alive(heap) /\ EdgeTo(heap, root, w2, Deref(w2))
           /\ K[Deref(w2)] \subseteq K[p] /\ (u \in K[p] => u \in K[Deref(w2)])
           /\ LeafCell(heap[p]) => w2 = w
           /\ NodeCell(heap[p]) => /\ w2 = <<p, Direction(heap[p], u)>>
                                   /\ Deref(w2) = Toward(heap, p, u)
                                   /\ Pos(heap[p]) < Pos(heap[Deref(w2)])
<1>1. CellOK(heap, K, p) /\ p \in Addrs
  BY DEF Shape, Alive
<1>2. CASE LeafCell(heap[p])
  <2>1. w2 = w /\ ~NodeCell(heap[p])
    BY <1>2, LeafKind DEF Turn
  <2> QED BY <2>1
<1>3. CASE NodeCell(heap[p])
  <2> DEFINE e == Direction(heap[p], u)
  <2>0. heap[p].leaf = FALSE
    BY <1>3, NodeKind
  <2>1. NodeOK(heap, K, p) /\ ~LeafCell(heap[p]) /\ heap[p].leaf = FALSE
    BY <1>1, <1>3, <2>0, CellFacts
  <2>2. w2 = <<p, e>> /\ e \in {1, 2}
    BY <2>1, TwoSides DEF Turn
  <2>3. w2 # RootRef
    BY <1>1, <2>2, NullAssumption DEF RootRef
  <2>4. Deref(w2) = heap[p].child[e] /\ Deref(w2) = Toward(heap, p, u)
    <3>1. w2[1] = p /\ w2[2] = e
      BY <2>2
    <3>2. heap[p].child[e] = Toward(heap, p, u)
      BY DEF Toward
    <3> HIDE DEF e
    <3>3. Deref(w2) = heap[p].child[e]
      BY <2>3, <3>1 DEF Deref
    <3> QED BY <3>2, <3>3
  <2>5. /\ Deref(w2) \in Alive(heap) /\ K[Deref(w2)] \subseteq K[p]
        /\ Pos(heap[p]) < Pos(heap[Deref(w2)])
    <3>1. PICK d \in {1, 2} : Deref(w2) = heap[p].child[d]
      BY <2>2, <2>4
    <3> DEFINE c == heap[p].child[d]
    <3>2. c \in Alive(heap) /\ K[c] \subseteq K[p] /\ Pos(heap[p]) < Pos(heap[c])
      BY <2>1, ChildKeys
    <3> QED BY <3>1, <3>2
  <2>6. u \in K[p] => u \in K[Deref(w2)]
    BY <2>1, <2>4, TowardKey
  <2>7. EdgeTo(heap, root, w2, Deref(w2))
    BY <1>3, <2>2, <2>4 DEF EdgeTo
  <2> QED BY <1>3, <2>1, <2>2, <2>4, <2>5, <2>6, <2>7
<1> QED BY <1>1, <1>2, <1>3, CellFacts

Spot(u, n) == Deref(Walk(u)[n])

\* The walk stays in the tree.
LEMMA WalkFacts ==
    ASSUME NEW K, Shape(heap, K, root, dict), NEW u
    PROVE  /\ Spot(u, 0) = root
           /\ \A n \in 0..Turns : /\ Spot(u, n) \in Alive(heap)
                                  /\ EdgeTo(heap, root, Walk(u)[n], Spot(u, n))
           /\ \A n \in 1..Turns :
                 /\ K[Spot(u, n)] \subseteq K[Spot(u, n - 1)]
                 /\ u \in K[Spot(u, n - 1)] => u \in K[Spot(u, n)]
                 /\ LeafCell(heap[Spot(u, n - 1)]) => Walk(u)[n] = Walk(u)[n - 1]
                 /\ NodeCell(heap[Spot(u, n - 1)]) =>
                       /\ Walk(u)[n] = <<Spot(u, n - 1), Direction(heap[Spot(u, n - 1)], u)>>
                       /\ Spot(u, n) = Toward(heap, Spot(u, n - 1), u)
                       /\ Pos(heap[Spot(u, n - 1)]) < Pos(heap[Spot(u, n)])
<1> DEFINE f == Walk(u)
           S == {n \in Nat : /\ Deref(f[n]) \in Alive(heap)
                             /\ EdgeTo(heap, root, f[n], Deref(f[n]))}
<1>1. /\ Turns \in Nat /\ f[0] = RootRef
      /\ \A n \in 1..Turns : f[n] = Turn(f[n - 1], u)
  BY WalkTurns
<1> HIDE DEF f
<1>2. Deref(f[0]) = root
  BY <1>1 DEF Deref
<1>3. 0 \in S
  BY <1>1, <1>2 DEF Shape, Rooted, EdgeTo
<1>4. ASSUME NEW n \in 1..Turns, n - 1 \in S
      PROVE  /\ Deref(f[n]) \in Alive(heap) /\ EdgeTo(heap, root, f[n], Deref(f[n]))
             /\ K[Deref(f[n])] \subseteq K[Deref(f[n - 1])]
             /\ u \in K[Deref(f[n - 1])] => u \in K[Deref(f[n])]
             /\ LeafCell(heap[Deref(f[n - 1])]) => f[n] = f[n - 1]
             /\ NodeCell(heap[Deref(f[n - 1])]) =>
                   /\ f[n] = <<Deref(f[n - 1]), Direction(heap[Deref(f[n - 1])], u)>>
                   /\ Deref(f[n]) = Toward(heap, Deref(f[n - 1]), u)
                   /\ Pos(heap[Deref(f[n - 1])]) < Pos(heap[Deref(f[n])])
  <2> DEFINE w == f[n - 1]
             w2 == f[n]
             p == Deref(w)
  <2>1. /\ w2 = Turn(w, u) /\ p = Deref(w)
        /\ Deref(w) \in Alive(heap) /\ EdgeTo(heap, root, w, Deref(w))
    BY <1>1, <1>4
  <2> HIDE DEF w, w2, p
  <2>2. /\ Deref(w2) \in Alive(heap) /\ EdgeTo(heap, root, w2, Deref(w2))
        /\ K[Deref(w2)] \subseteq K[p] /\ (u \in K[p] => u \in K[Deref(w2)])
        /\ LeafCell(heap[p]) => w2 = w
        /\ NodeCell(heap[p]) => /\ w2 = <<p, Direction(heap[p], u)>>
                                /\ Deref(w2) = Toward(heap, p, u)
                                /\ Pos(heap[p]) < Pos(heap[Deref(w2)])
    BY <2>1, TurnFacts
  <2> QED BY <2>2 DEF w, w2, p
<1>5. \A n \in 0..(Turns - 1) : n \in S => n + 1 \in S
  <2> SUFFICES ASSUME NEW n \in 0..(Turns - 1), n \in S PROVE n + 1 \in S
    OBVIOUS
  <2>1. n + 1 \in 1..Turns /\ (n + 1) - 1 = n
    BY <1>1
  <2> QED BY <1>4, <2>1
<1>6. \A n \in 0..Turns : n \in S
  <2> HIDE DEF S
  <2> QED BY <1>1, <1>3, <1>5, Climb
<1>7. \A n \in 1..Turns : n - 1 \in S
  BY <1>1, <1>6
<1> QED BY <1>2, <1>4, <1>6, <1>7 DEF Spot, f

\* The walk goes down until it is at a leaf, and there are fewer nodes than
\* turns.
LEMMA WalkEnds ==
    ASSUME NEW K, Shape(heap, K, root, dict), NEW u
    PROVE  LeafCell(heap[Spot(u, Turns)])
<1> SUFFICES ASSUME ~LeafCell(heap[Spot(u, Turns)]) PROVE FALSE
  OBVIOUS
<1> DEFINE a(n) == Spot(u, n)
           N == Turns
<1>1. N \in Nat
  BY WalkTurns
<1>2. /\ \A n \in 0..N : a(n) \in Alive(heap)
      /\ \A n \in 1..N :
            /\ LeafCell(heap[a(n - 1)]) => a(n) = a(n - 1)
            /\ NodeCell(heap[a(n - 1)]) => Pos(heap[a(n - 1)]) < Pos(heap[a(n)])
  BY WalkFacts DEF Spot
<1>3. \A q \in Alive(heap) : CellOK(heap, K, q) /\ Pos(heap[q]) \in Nat
         /\ (LeafCell(heap[q]) \/ NodeCell(heap[q]))
  BY CellFacts DEF Shape
<1> HIDE DEF a, N
<1>4. ASSUME NEW n \in 0..N PROVE ~LeafCell(heap[a(n)])
  <2> SUFFICES ASSUME LeafCell(heap[a(n)]) PROVE FALSE
    OBVIOUS
  <2> DEFINE S == {m \in Nat : LeafCell(heap[a(m)])}
  <2>1. \A m \in n..(N - 1) : m \in S => m + 1 \in S
    <3> SUFFICES ASSUME NEW m \in n..(N - 1), m \in S PROVE m + 1 \in S
      OBVIOUS
    <3>1. m + 1 \in 1..N /\ (m + 1) - 1 = m
      BY <1>1
    <3>2. a(m + 1) = a(m)
      BY <1>2, <3>1
    <3> QED BY <3>1, <3>2
  <2>2. n \in S
    OBVIOUS
  <2>3. \A m \in n..N : m \in S
    <3> HIDE DEF S
    <3> QED BY <1>1, <2>1, <2>2, Climb
  <2>4. N \in n..N
    BY <1>1
  <2> QED BY <2>3, <2>4 DEF a, N
<1>5. ASSUME NEW n \in 0..N, NEW m \in 0..N, n < m
      PROVE  Pos(heap[a(n)]) < Pos(heap[a(m)])
  <2> DEFINE S == {j \in Nat : j <= N => Pos(heap[a(n)]) < Pos(heap[a(j)])}
  <2>0. \A j \in 0..(N - 1) : Pos(heap[a(j)]) < Pos(heap[a(j + 1)])
    <3> SUFFICES ASSUME NEW j \in 0..(N - 1)
                 PROVE  Pos(heap[a(j)]) < Pos(heap[a(j + 1)])
      OBVIOUS
    <3>1. j + 1 \in 1..N /\ (j + 1) - 1 = j /\ j \in 0..N
      BY <1>1
    <3>2. NodeCell(heap[a(j)])
      BY <1>2, <1>3, <1>4, <3>1
    <3> QED BY <1>2, <3>1, <3>2
  <2>1. n + 1 \in S
    <3>1. n \in 0..(N - 1)
      BY <1>1, <1>5
    <3> QED BY <2>0, <3>1
  <2>2. \A j \in (n + 1)..(N - 1) : j \in S => j + 1 \in S
    <3> SUFFICES ASSUME NEW j \in (n + 1)..(N - 1), j \in S PROVE j + 1 \in S
      OBVIOUS
    <3>1. j \in 0..(N - 1) /\ j \in 0..N /\ j + 1 \in 0..N
      BY <1>1
    <3>2. Pos(heap[a(n)]) < Pos(heap[a(j)])
      BY <1>1, <3>1
    <3>3. Pos(heap[a(n)]) \in Nat /\ Pos(heap[a(j)]) \in Nat /\ Pos(heap[a(j + 1)]) \in Nat
      BY <1>2, <1>3, <3>1
    <3>4. Pos(heap[a(n)]) < Pos(heap[a(j + 1)])
      BY <2>0, <3>1, <3>2, <3>3
    <3> QED BY <3>1, <3>4
  <2>3. \A j \in (n + 1)..N : j \in S
    <3>1. n + 1 \in Nat
      OBVIOUS
    <3> HIDE DEF S
    <3> QED BY <1>1, <2>1, <2>2, <3>1, Climb
  <2>4. m \in (n + 1)..N
    BY <1>1, <1>5
  <2> QED BY <1>1, <2>3, <2>4
<1> DEFINE f == [n \in 0..N |-> a(n)]
<1>6. f \in [0..N -> Addrs]
  BY <1>2 DEF Alive
<1>7. ASSUME NEW n \in 0..N, NEW m \in 0..N, a(n) = a(m) PROVE n = m
  <2>1. Pos(heap[a(n)]) \in Nat
    BY <1>2, <1>3
  <2>2. ~(n < m) /\ ~(m < n)
    BY <1>5, <1>7, <2>1
  <2> QED BY <1>1, <2>2
<1>8. f \in Injection(0..N, Addrs)
  <2>1. \A n, m \in 0..N : f[n] = f[m] => n = m
    BY <1>7
  <2>2. DOMAIN f = 0..N
    OBVIOUS
  <2> HIDE DEF f
  <2> QED BY <1>6, <2>1, <2>2 DEF Injection, IsInjective
<1>9. Cardinality(0..N) <= N
  <2> HIDE DEF f
  <2> QED BY <1>8, AddrAssumption, FS_Injection DEF N, Turns
<1>10. Cardinality(0..N) = N + 1
  BY <1>1, FS_Interval
<1> QED BY <1>1, <1>9, <1>10

\* The key that is found is below every node on the way, and is u's when u is
\* in the tree.
LEMMA WalkKey ==
    ASSUME NEW K, Shape(heap, K, root, dict), NEW u, NEW k, k = heap[Closest(u)].key
    PROVE  /\ Closest(u) \in Alive(heap) /\ LeafCell(heap[Closest(u)])
           /\ K[Closest(u)] = {k} /\ k \in Keys
           /\ \A n \in 0..Turns : k \in K[Spot(u, n)]
           /\ u \in K[root] <=> k = u
<1> DEFINE a(n) == Spot(u, n)
           N == Turns
           c == Closest(u)
<1>1. N \in Nat
  BY WalkTurns
<1>2. c = a(N) /\ LeafCell(heap[c])
  BY WalkEnds DEF Closest, Spot, Turns
<1>3. /\ a(0) = root /\ \A n \in 0..N : a(n) \in Alive(heap)
      /\ \A n \in 1..N : /\ K[a(n)] \subseteq K[a(n - 1)]
                         /\ u \in K[a(n - 1)] => u \in K[a(n)]
  BY WalkFacts
<1> HIDE DEF a, N
<1>4. c \in Alive(heap)
  BY <1>1, <1>2, <1>3
<1>5. K[c] = {k} /\ k \in Keys
  <2>1. CellOK(heap, K, c)
    BY <1>4 DEF Shape
  <2>2. LeafOK(heap, K, c) /\ heap[c].key \in Keys
    BY <1>2, <2>1, CellFacts, LeafKind
  <2> QED BY <2>2 DEF LeafOK
<1> HIDE DEF c
<1>6. ASSUME NEW n \in 0..N PROVE k \in K[a(n)]
  <2> DEFINE S == {m \in Nat : K[a(m)] \subseteq K[a(n)]}
  <2>1. \A m \in n..(N - 1) : m \in S => m + 1 \in S
    <3> SUFFICES ASSUME NEW m \in n..(N - 1), m \in S PROVE m + 1 \in S
      OBVIOUS
    <3>1. m + 1 \in 1..N /\ (m + 1) - 1 = m
      BY <1>1
    <3>2. K[a(m + 1)] \subseteq K[a(m)]
      BY <1>3, <3>1
    <3> QED BY <3>1, <3>2
  <2>2. n \in S
    OBVIOUS
  <2>3. \A m \in n..N : m \in S
    <3> HIDE DEF S
    <3> QED BY <1>1, <2>1, <2>2, Climb
  <2>4. N \in n..N
    BY <1>1
  <2>5. K[a(N)] \subseteq K[a(n)]
    BY <2>3, <2>4
  <2> QED BY <1>2, <1>5, <2>5
<1>7. ASSUME u \in K[root] PROVE k = u
  <2> DEFINE S == {m \in Nat : u \in K[a(m)]}
  <2>1. \A m \in 0..(N - 1) : m \in S => m + 1 \in S
    <3> SUFFICES ASSUME NEW m \in 0..(N - 1), m \in S PROVE m + 1 \in S
      OBVIOUS
    <3>1. m + 1 \in 1..N /\ (m + 1) - 1 = m
      BY <1>1
    <3> QED BY <1>3, <3>1
  <2>2. 0 \in S
    BY <1>3, <1>7
  <2>3. \A m \in 0..N : m \in S
    <3> HIDE DEF S
    <3> QED BY <1>1, <2>1, <2>2, Climb
  <2>4. u \in K[a(N)]
    BY <1>1, <2>3
  <2> QED BY <1>2, <1>5, <2>4
<1>8. k \in K[root]
  <2>1. 0 \in 0..N
    BY <1>1
  <2> QED BY <1>3, <1>6, <2>1
<1> QED BY <1>2, <1>4, <1>5, <1>6, <1>7, <1>8 DEF a, N, c

\* A search finds a key exactly when the tree has it, with its value.
LEMMA FindsExactly ==
    ASSUME NEW K, Shape(heap, K, root, dict), NEW u \in Keys
    PROVE  (Finds(u) <=> u \in K[root]) /\ Contains(u) = dict[u]
<1> DEFINE k == heap[Closest(u)].key
<1>1. /\ Closest(u) \in Alive(heap) /\ LeafCell(heap[Closest(u)])
      /\ u \in K[root] <=> k = u
  <2>1. k = heap[Closest(u)].key
    OBVIOUS
  <2> HIDE DEF k
  <2> QED BY <2>1, WalkKey
<1>2. root # Null
  BY NullAssumption DEF Shape, Rooted, Alive
<1>3. Finds(u) <=> u \in K[root]
  BY <1>1, <1>2 DEF Finds
<1>4. Holds(heap, K, root, dict)
  BY DEF Shape
<1>5. CASE Finds(u)
  <2>1. Contains(u) = heap[Closest(u)].val /\ heap[Closest(u)].key = u
    BY <1>5 DEF Contains, Finds
  <2>2. dict[heap[Closest(u)].key] = heap[Closest(u)].val
    BY <1>1, <1>4 DEF Holds
  <2> QED BY <1>3, <2>1, <2>2
<1>6. CASE ~Finds(u)
  <2>1. Contains(u) = Null /\ u \notin K[root]
    BY <1>3, <1>6 DEF Contains
  <2>2. dict[u] = Null
    BY <1>4, <2>1 DEF Holds
  <2> QED BY <1>3, <2>1, <2>2
<1> QED BY <1>5, <1>6

-----------------------------------------------------------------------------
(* The operations. *)

\* The new node and the new leaf.
Planted(h, n, l, q, k, u, v, byte, bit) ==
    [h EXCEPT ![n] = Node(byte, bit, Fork(Side(k, byte, bit), q, l)),
              ![l] = Leaf(u, v)]

\* What the assignments of cb_insert() make.
LEMMA GraftMade ==
    ASSUME NEW h, NEW K, NEW r, NEW d, NEW w, NEW q, NEW k, NEW u, NEW byte, NEW bit,
           GraftSite(h, K, r, d, w, q, k, u, byte, bit), NEW v \in Vals,
           NEW n \in Addrs \ Alive(h), NEW l \in Addrs \ Alive(h), n # l,
           NEW h1, h1 = Planted(h, n, l, q, k, u, v, byte, bit),
           NEW h2, h2 = Wired(h1, w, n)
    PROVE  Grafted(h, h2, w, q, n, l, k, u, v, byte, bit)
<1>1. /\ h = [a \in Addrs |-> h[a]] /\ q \in Alive(h) /\ EdgeTo(h, r, w, q)
      /\ u \in Keys /\ byte \in Nat /\ bit \in Bits
      /\ Side(k, byte, bit) # Side(u, byte, bit)
  BY DEF GraftSite, Shape
<1> DEFINE s == Side(k, byte, bit)
           t == Side(u, byte, bit)
           fork == Fork(s, q, l)
           node == Node(byte, bit, fork)
           leaf == Leaf(u, v)
<1>2. (s = 1 /\ t = 2) \/ (s = 2 /\ t = 1)
  BY <1>1 DEF Side
<1> HIDE DEF s, t
<1>3. NodeCell(node) /\ node.byte = byte /\ node.bit = bit
         /\ node.child[s] = q /\ node.child[t] = l
  <2>0. q \in Addrs
    BY <1>1 DEF Alive
  <2>1. CASE s = 1 /\ t = 2
    <3>1. node = Node(byte, bit, <<q, l>>)
      BY <2>1 DEF Fork
    <3> HIDE DEF node
    <3> QED BY <1>1, <2>0, <2>1, <3>1, NodeMade
  <2>2. CASE s = 2 /\ t = 1
    <3>1. node = Node(byte, bit, <<l, q>>)
      BY <2>2 DEF Fork
    <3> HIDE DEF node
    <3> QED BY <1>1, <2>0, <2>2, <3>1, NodeMade
  <2> QED BY <1>2, <2>1, <2>2
<1>4. LeafCell(leaf)
  BY <1>1, LeafMade
<1>5. /\ h1 = [a \in Addrs |-> h1[a]] /\ h1[n] = node /\ h1[l] = leaf
      /\ \A a \in Addrs : a # n /\ a # l => h1[a] = h[a]
  <2>1. h1 = [h EXCEPT ![n] = node, ![l] = leaf]
    BY DEF s, Planted
  <2> HIDE DEF node, leaf
  <2> QED BY <1>1, <2>1
<1> HIDE DEF node, leaf
<1>6. Alive(h) \subseteq Addrs /\ \A a \in Alive(h) : a # n /\ a # l /\ h1[a] = h[a]
  BY <1>5 DEF Alive
<1>7. \/ w = RootRef
      \/ \E p \in Addrs, e \in {1, 2} : w = <<p, e>> /\ NodeCell(h1[p])
  BY <1>1, <1>6 DEF EdgeTo
<1>8. \A e \in {1, 2} : w # <<n, e>>
  <2>1. n # Null
    BY NullAssumption
  <2>2. CASE w = RootRef
    BY <2>1, <2>2 DEF RootRef
  <2>3. CASE w # RootRef
    BY <1>1, <1>6, <2>3 DEF EdgeTo
  <2> QED BY <2>2, <2>3
<1>9. /\ h2 = [a \in Addrs |-> h2[a]]
      /\ \A a \in Addrs : Kept(h1, h2, w, n, a)
      /\ \A a \in Addrs : h1[a] = NoCell => h2[a] = NoCell
  <2>1. OnAddrs(h1) /\ Assignable(h1, w)
    BY <1>5, <1>7 DEF OnAddrs, Assignable
  <2>2. Rewires(h1, h2, w, n)
    BY <2>1, WiredCells
  <2> QED BY <2>2 DEF OnAddrs, Rewires
<1>10. \A a \in Alive(h) : Kept(h, h2, w, n, a)
  <2> SUFFICES ASSUME NEW a \in Alive(h) PROVE Kept(h, h2, w, n, a)
    OBVIOUS
  <2>1. h1[a] = h[a] /\ Kept(h1, h2, w, n, a)
    BY <1>6, <1>9
  <2> QED BY <2>1 DEF Kept
<1>11. \A a \in Addrs : a \notin Alive(h) /\ a # n /\ a # l => h2[a] = NoCell
  BY <1>5, <1>9 DEF Alive
<1>12. h2[l] = leaf
  BY <1>4, <1>5, <1>9 DEF Kept
<1>13. /\ NodeCell(h2[n]) /\ h2[n].byte = byte /\ h2[n].bit = bit
       /\ \A e \in {1, 2} : h2[n].child[e] = node.child[e]
  <2>1. Kept(h1, h2, w, n, n)
    BY <1>9
  <2>2. NodeCell(h1[n])
    BY <1>3, <1>5
  <2>3. /\ NodeCell(h2[n]) /\ h2[n].byte = h1[n].byte /\ h2[n].bit = h1[n].bit
        /\ \A e \in {1, 2} : h2[n].child[e] = h1[n].child[e]
    BY <1>8, <2>1, <2>2 DEF Kept
  <2> QED BY <1>3, <1>5, <2>3
<1>14. h2[n].child[s] = q /\ h2[n].child[t] = l
  BY <1>2, <1>3, <1>13
<1> QED BY <1>9, <1>10, <1>11, <1>12, <1>13, <1>14 DEF Grafted, s, t, leaf

\* What the assignments of cb_delete() make.
LEMMA PruneMade ==
    ASSUME NEW h, NEW K, NEW r, NEW d, NEW w, NEW q, NEW p, NEW s, NEW u,
           PruneSite(h, K, r, d, w, q, p, s, u),
           NEW h1, h1 = [h EXCEPT ![p] = NoCell, ![q] = NoCell],
           NEW h2, h2 = Wired(h1, w, s)
    PROVE  Pruned(h, h2, w, q, p, s)
<1>1. h = [a \in Addrs |-> h[a]] /\ EdgeTo(h, r, w, q)
  BY DEF PruneSite, Shape
<1>2. /\ q \in Alive(h) /\ p \in Alive(h) /\ s \in Alive(h) /\ p # q
      /\ Pos(h[q]) < Pos(h[p])
      /\ \A a \in Alive(h) : CellOK(h, K, a) /\ Pos(h[a]) \in Nat
  BY PruneSiteFacts
<1>3. /\ h1 = [a \in Addrs |-> h1[a]] /\ h1[p] = NoCell /\ h1[q] = NoCell
      /\ \A a \in Addrs : a # p /\ a # q => h1[a] = h[a]
  BY <1>1, <1>2 DEF Alive
<1>4. Alive(h) \subseteq Addrs
  BY DEF Alive
<1>5. \/ w = RootRef
      \/ \E g \in Addrs, e \in {1, 2} : w = <<g, e>> /\ NodeCell(h1[g])
  <2> SUFFICES ASSUME w # RootRef
               PROVE  \E g \in Addrs, e \in {1, 2} : w = <<g, e>> /\ NodeCell(h1[g])
    OBVIOUS
  <2>1. PICK g \in Alive(h), e \in {1, 2} :
           w = <<g, e>> /\ NodeCell(h[g]) /\ h[g].child[e] = q
    BY <1>1 DEF EdgeTo
  <2>2. NodeOK(h, K, g)
    BY <1>2, <2>1, CellFacts
  <2>3. Pos(h[g]) < Pos(h[q])
    BY <2>1, <2>2, ChildKeys
  <2>4. g # p /\ g # q
    BY <1>2, <2>3
  <2>5. h1[g] = h[g] /\ g \in Addrs
    BY <1>3, <1>4, <2>4
  <2> QED BY <2>1, <2>5
<1>6. /\ h2 = [a \in Addrs |-> h2[a]]
      /\ \A a \in Addrs : Kept(h1, h2, w, s, a)
      /\ \A a \in Addrs : h1[a] = NoCell => h2[a] = NoCell
  <2>1. OnAddrs(h1) /\ Assignable(h1, w) /\ s \in Addrs
    BY <1>2, <1>3, <1>4, <1>5 DEF OnAddrs, Assignable
  <2>2. Rewires(h1, h2, w, s)
    BY <2>1, WiredCells
  <2> QED BY <2>2 DEF OnAddrs, Rewires
<1>7. \A a \in Alive(h) \ {p, q} : Kept(h, h2, w, s, a)
  <2> SUFFICES ASSUME NEW a \in Alive(h) \ {p, q} PROVE Kept(h, h2, w, s, a)
    OBVIOUS
  <2>1. h1[a] = h[a] /\ Kept(h1, h2, w, s, a)
    BY <1>3, <1>4, <1>6
  <2> QED BY <2>1 DEF Kept
<1>8. \A a \in Addrs \ Alive(h) : h2[a] = NoCell
  BY <1>2, <1>3, <1>6 DEF Alive
<1> QED BY <1>2, <1>3, <1>4, <1>6, <1>7, <1>8 DEF Pruned

\* The first turn at which something holds.
LEMMA FirstIn ==
    ASSUME NEW T \in SUBSET Nat, T # {}
    PROVE  First(T) \in T /\ \A n \in T : First(T) <= n
BY LeastMember DEF First

\* The place for a new key: cb_insert() stops at the first node or leaf that
\* comes after the bit in which the key differs from the one it has found.
LEMMA PlaceFound ==
    ASSUME NEW K, Shape(heap, K, root, dict), NEW u \in Keys, u \notin K[root],
           NEW k, k = heap[Closest(u)].key, NEW byte, byte = CritByte(k, u),
           NEW bit, bit = CritBitOf(ByteAt(k, byte), ByteAt(u, byte)),
           NEW T, T = {i \in DOMAIN Walk(u) : BelongsAbove(heap[Spot(u, i)], byte, bit)},
           NEW w, w = Walk(u)[First(T)]
    PROVE  GraftSite(heap, K, root, dict, w, Deref(w), k, u, byte, bit)
<1> DEFINE a(n) == Spot(u, n)
           f == Walk(u)
           N == Turns
           m == First(T)
<1>1. /\ k \in Keys /\ k # u /\ K[Closest(u)] = {k} /\ LeafCell(heap[Closest(u)])
      /\ \A n \in 0..N : k \in K[a(n)]
  BY WalkKey
<1>2. /\ byte \in Nat /\ byte <= Len(k) /\ byte <= Len(u) /\ bit \in Bits
      /\ Same(k, u, byte, bit) /\ Side(k, byte, bit) # Side(u, byte, bit)
  BY <1>1, CritFound
<1>3. N \in Nat /\ DOMAIN f = 0..N /\ f[0] = RootRef /\ Closest(u) = a(N)
  BY WalkTurns DEF Closest, Spot, Turns
<1>4. /\ \A n \in 0..N : a(n) \in Alive(heap) /\ EdgeTo(heap, root, f[n], a(n))
      /\ \A n \in 1..N : NodeCell(heap[a(n - 1)]) =>
            /\ f[n] = <<a(n - 1), Direction(heap[a(n - 1)], u)>>
            /\ a(n) = Toward(heap, a(n - 1), u)
  BY WalkFacts
<1>5. \A q \in Alive(heap) : /\ CellOK(heap, K, q) /\ Pos(heap[q]) \in Nat
                             /\ LeafCell(heap[q]) \/ NodeCell(heap[q])
  BY CellFacts DEF Shape
<1>6. Deref(w) = a(m) /\ w = f[m]
  BY DEF Spot
<1>7. T = {i \in 0..N : BelongsAbove(heap[a(i)], byte, bit)}
  BY <1>3
<1> HIDE DEF a, f, N
<1>8. N \in T
  <2>1. heap[a(N)].leaf = TRUE
    BY <1>1, <1>3, LeafKind
  <2> QED BY <1>3, <1>7, <2>1 DEF BelongsAbove
<1>9. m \in T /\ \A n \in T : m <= n
  <2>1. T \in SUBSET Nat /\ T # {}
    BY <1>3, <1>7, <1>8
  <2> QED BY <2>1, FirstIn
<1> HIDE DEF m
<1>10. m \in 0..N /\ a(m) \in Alive(heap) /\ EdgeTo(heap, root, w, a(m)) /\ k \in K[a(m)]
  BY <1>1, <1>4, <1>6, <1>7, <1>9
<1>11. At(byte, bit) < Pos(heap[a(m)])
  <2>1. BelongsAbove(heap[a(m)], byte, bit) /\ CellOK(heap, K, a(m))
    BY <1>5, <1>7, <1>9, <1>10
  <2>2. CASE LeafCell(heap[a(m)])
    <3>1. K[a(m)] = {heap[a(m)].key}
      BY <2>1, <2>2, CellFacts DEF LeafOK
    <3>2. Pos(heap[a(m)]) = 128 * (Len(heap[a(m)].key) + 1)
      BY <2>2, LeafKind
    <3>3. Pos(heap[a(m)]) = 128 * (Len(k) + 1) /\ Len(k) \in Nat
      BY <1>1, <1>10, <3>1, <3>2, ReadsByte
    <3>4. At(byte, bit) < 128 * (Len(k) + 1)
      BY <1>2, <3>3, AtOrder
    <3> QED BY <3>3, <3>4
  <2>3. CASE NodeCell(heap[a(m)])
    <3> DEFINE b == heap[a(m)].byte
               p == heap[a(m)].bit
    <3>1. b \in Nat /\ p \in Bits /\ Pos(heap[a(m)]) = At(b, p) /\ heap[a(m)].leaf = FALSE
      BY <2>3, NodeKind
    <3>2. b > byte \/ (b = byte /\ p < bit)
      BY <2>1, <3>1 DEF BelongsAbove
    <3> HIDE DEF b, p
    <3>3. byte < b \/ (byte = b /\ bit > p)
      BY <1>2, <3>1, <3>2 DEF Bits, SignBit
    <3>4. At(byte, bit) < At(b, p)
      BY <1>2, <3>1, <3>3, AtOrder
    <3> QED BY <3>1, <3>4
  <2> QED BY <1>5, <1>10, <2>2, <2>3
<1>12. ASSUME NEW p \in Alive(heap), NEW e \in {1, 2}, w = <<p, e>>
       PROVE  Pos(heap[p]) < At(byte, bit)
  <2>1. w # RootRef
    BY <1>12, NullAssumption DEF RootRef, Alive
  <2>2. m \in 1..N /\ m - 1 \in 0..N /\ ~(m <= m - 1)
    BY <1>3, <1>6, <1>10, <2>1
  <2>3. ~BelongsAbove(heap[a(m - 1)], byte, bit) /\ a(m - 1) \in Alive(heap)
    BY <1>4, <1>7, <1>9, <2>2
  <2>4. heap[a(m - 1)].leaf # TRUE
    BY <2>3 DEF BelongsAbove
  <2>5. NodeCell(heap[a(m - 1)])
    BY <1>5, <2>3, <2>4, LeafKind
  <2>6. /\ w = <<a(m - 1), Direction(heap[a(m - 1)], u)>>
        /\ a(m) = Toward(heap, a(m - 1), u)
    BY <1>4, <1>6, <2>2, <2>5
  <2>7. p = a(m - 1) /\ e = Direction(heap[p], u)
    BY <1>12, <2>6
  <2>8. NodeCell(heap[p]) /\ NodeOK(heap, K, p) /\ heap[p].child[e] = a(m)
    BY <1>5, <2>3, <2>5, <2>6, <2>7, CellFacts DEF Toward
  <2>9. Direction(heap[p], k) = e
    BY <1>10, <2>8, ChildKeys
  <2> DEFINE b == heap[p].byte
             c == heap[p].bit
  <2>10. b \in Nat /\ c \in Bits /\ Pos(heap[p]) = At(b, c) /\ heap[p].leaf = FALSE
    BY <2>8, NodeKind
  <2>11. Side(k, b, c) = Side(u, b, c)
    BY <2>7, <2>9 DEF Direction
  <2>12. ~(b > byte) /\ ~(b = byte /\ c < bit)
    BY <2>3, <2>7, <2>10 DEF BelongsAbove
  <2> HIDE DEF b, c
  <2>13. b # byte \/ c # bit
    BY <1>2, <2>11
  <2>14. b < byte \/ (b = byte /\ c > bit)
    BY <1>2, <2>10, <2>12, <2>13 DEF Bits, SignBit
  <2>15. At(b, c) < At(byte, bit)
    BY <1>2, <2>10, <2>14, AtOrder
  <2> QED BY <2>10, <2>15
<1> QED BY <1>1, <1>2, <1>6, <1>10, <1>11, <1>12 DEF GraftSite

\* A new key is inserted.
LEMMA InsertNewShape ==
    ASSUME NEW K, Shape(heap, K, root, dict), NEW u \in Keys, NEW val \in Vals,
           InsertNew(u, val), dict' = [dict EXCEPT ![u] = val]
    PROVE  \E K2 : Shape(heap', K2, root', dict')
<1> DEFINE k == heap[Closest(u)].key
           byte == CritByte(k, u)
           bit == CritBitOf(ByteAt(k, byte), ByteAt(u, byte))
           n == Malloc(Addrs \ Live)
           l == Malloc((Addrs \ Live) \ {n})
           T == {i \in DOMAIN Walk(u) : BelongsAbove(heap[Spot(u, i)], byte, bit)}
           w == Walk(u)[First(T)]
           q == Deref(w)
           h1 == [heap EXCEPT ![n] = Node(byte, bit, Fork(Side(k, byte, bit), q, l)),
                              ![l] = Leaf(u, val)]
<1>1. /\ ~Finds(u) /\ Cardinality(Addrs \ Live) > 1
      /\ root' = TopOf(root, w, n) /\ heap' = Wired(h1, w, n)
  BY DEF InsertNew, Assign, TopOf, Wired, Spot
<1>2. u \notin K[root]
  BY <1>1, FindsExactly
<1>3. Live = Alive(heap)
  BY DEF Live, Alive
<1>4. n \in Addrs \ Alive(heap) /\ l \in Addrs \ Alive(heap) /\ n # l
  <2> DEFINE F == Addrs \ Live
  <2>1. Cardinality(F) > 1
    BY <1>1
  <2>2. F # {}
    <3> SUFFICES ASSUME F = {} PROVE FALSE
      OBVIOUS
    <3>1. Cardinality(F) = 0
      BY FS_EmptySet
    <3> QED BY <2>1, <3>1
  <2>3. n \in F
    BY <2>2 DEF Malloc
  <2>4. F \ {n} # {}
    <3> SUFFICES ASSUME F = {n} PROVE FALSE
      BY <2>3
    <3> HIDE DEF F, n
    <3>1. Cardinality(F) = 1
      BY FS_Singleton
    <3> QED BY <2>1, <3>1
  <2>5. l \in F \ {n}
    <3> HIDE DEF n
    <3> QED BY <2>4 DEF Malloc
  <2> HIDE DEF n, l
  <2> QED BY <1>3, <2>3, <2>5
<1>5. k = heap[Closest(u)].key /\ byte = CritByte(k, u)
         /\ bit = CritBitOf(ByteAt(k, byte), ByteAt(u, byte))
         /\ T = {i \in DOMAIN Walk(u) : BelongsAbove(heap[Spot(u, i)], byte, bit)}
         /\ w = Walk(u)[First(T)] /\ q = Deref(w)
         /\ h1 = Planted(heap, n, l, q, k, u, val, byte, bit)
  BY DEF Planted
<1> HIDE DEF k, byte, bit, n, l, T, w, q, h1
<1>6. GraftSite(heap, K, root, dict, w, q, k, u, byte, bit)
  BY <1>2, <1>5, PlaceFound
<1>7. Grafted(heap, heap', w, q, n, l, k, u, val, byte, bit)
  BY <1>1, <1>4, <1>5, <1>6, GraftMade
<1>8. PICK K2 : K2 = GraftKeys(heap, K, q, n, l, k, u, byte, bit)
  OBVIOUS
<1>9. Graft(heap, K, root, dict, w, q, n, l, k, u, val, byte, bit, heap', K2)
  BY <1>6, <1>7, <1>8 DEF Graft
<1>10. Shape(heap', K2, root', dict')
  BY <1>1, <1>9, GraftShape
<1> QED BY <1>10

\* The key is found and deleted.
LEMMA DeleteFoundShape ==
    ASSUME NEW K, Shape(heap, K, root, dict), NEW u \in Keys,
           DeleteFound(u), dict' = [dict EXCEPT ![u] = Null]
    PROVE  Bare(heap', root', dict') \/ \E K2 : Shape(heap', K2, root', dict')
<1> DEFINE f == Walk(u)
           T == {i \in DOMAIN f : heap[Deref(f[i])].leaf}
           t == First(T)
           a(n) == Spot(u, n)
           N == Turns
           p == a(t)
           q == a(t - 1)
           s == Sibling(heap[q], u)
           w == f[t - 1]
<1>1. /\ Finds(u)
      /\ t = 0 => root' = Null /\ heap' = Freed(p, p)
      /\ t # 0 => root' = TopOf(root, w, s) /\ heap' = Wired(Freed(p, q), w, s)
  BY DEF DeleteFound, Assign, TopOf, Wired, Spot
<1>2. heap[Closest(u)].key = u
  BY <1>1 DEF Finds
<1>3. /\ LeafCell(heap[Closest(u)]) /\ \A n \in 0..N : u \in K[a(n)]
  BY <1>2, WalkKey
<1>4. N \in Nat /\ DOMAIN f = 0..N /\ f[0] = RootRef /\ Closest(u) = a(N)
  BY WalkTurns DEF Closest, Spot, Turns
<1>5. /\ a(0) = root
      /\ \A n \in 0..N : a(n) \in Alive(heap) /\ EdgeTo(heap, root, f[n], a(n))
      /\ \A n \in 1..N : NodeCell(heap[a(n - 1)]) => a(n) = Toward(heap, a(n - 1), u)
  BY WalkFacts
<1>6. \A c \in Alive(heap) : CellOK(heap, K, c) /\ (LeafCell(heap[c]) \/ NodeCell(heap[c]))
  BY CellFacts DEF Shape
<1>7. \A n \in 0..N : n \in T <=> LeafCell(heap[a(n)])
  <2> SUFFICES ASSUME NEW n \in 0..N PROVE n \in T <=> LeafCell(heap[a(n)])
    OBVIOUS
  <2>1. n \in T <=> heap[a(n)].leaf
    BY <1>4 DEF Spot
  <2>2. LeafCell(heap[a(n)]) => heap[a(n)].leaf = TRUE
    BY LeafKind
  <2>3. NodeCell(heap[a(n)]) => heap[a(n)].leaf = FALSE
    BY NodeKind
  <2> QED BY <1>5, <1>6, <2>1, <2>2, <2>3
<1>8. t \in T /\ (\A n \in T : t <= n) /\ T \subseteq 0..N
  <2>1. T \subseteq 0..N
    BY <1>4
  <2>2. N \in T
    BY <1>3, <1>4, <1>7
  <2> HIDE DEF T
  <2>3. T \in SUBSET Nat /\ T # {}
    BY <1>4, <2>1, <2>2
  <2> QED BY <2>1, <2>3, FirstIn
<1> HIDE DEF T, t, a, N
<1>9. t \in 0..N /\ p \in Alive(heap) /\ LeafCell(heap[p]) /\ heap[p].key = u
  <2>1. t \in 0..N /\ p \in Alive(heap) /\ LeafCell(heap[p]) /\ u \in K[p]
    BY <1>3, <1>5, <1>7, <1>8
  <2>2. K[p] = {heap[p].key}
    BY <1>6, <2>1, CellFacts DEF LeafOK
  <2> QED BY <2>1, <2>2
<1>10. CASE t = 0
  <2>1. p = root
    BY <1>5, <1>10
  <2> HIDE DEF p
  <2>2. heap' = [heap EXCEPT ![p] = NoCell]
    <3>1. heap = [c \in Addrs |-> heap[c]]
      BY DEF Shape
    <3> QED BY <1>1, <1>10, <3>1 DEF Freed
  <2>3. Bare(heap', Null, dict')
    BY <1>9, <2>1, <2>2, FellShape
  <2> QED BY <1>1, <1>10, <2>3
<1>11. CASE t # 0
  <2>1. t \in 1..N /\ t - 1 \in 0..N /\ ~(t <= t - 1)
    BY <1>4, <1>9, <1>11
  <2>2. q \in Alive(heap) /\ NodeCell(heap[q]) /\ EdgeTo(heap, root, w, q) /\ u \in K[q]
    BY <1>3, <1>5, <1>6, <1>7, <1>8, <2>1
  <2>3. p = Toward(heap, q, u)
    BY <1>5, <2>1, <2>2
  <2>4. s = heap[q].child[3 - Direction(heap[q], u)]
    BY DEF Sibling
  <2> HIDE DEF p, q, s, w, f
  <2>5. PruneSite(heap, K, root, dict, w, q, p, s, u)
    BY <1>9, <2>2, <2>3, <2>4 DEF PruneSite
  <2> DEFINE h1 == Freed(p, q)
  <2>6. h1 = [heap EXCEPT ![p] = NoCell, ![q] = NoCell] /\ heap' = Wired(h1, w, s)
    BY <1>1, <1>11 DEF Freed
  <2> HIDE DEF h1
  <2>7. Pruned(heap, heap', w, q, p, s)
    BY <2>5, <2>6, PruneMade
  <2>8. PICK K2 : K2 = [c \in Addrs |-> K[c] \ {u}]
    OBVIOUS
  <2>9. Prune(heap, K, root, dict, w, q, p, s, u, heap', K2)
    BY <2>5, <2>7, <2>8 DEF Prune
  <2>10. Shape(heap', K2, root', dict')
    BY <1>1, <1>11, <2>9, PruneShape
  <2> QED BY <2>10
<1> QED BY <1>10, <1>11

-----------------------------------------------------------------------------
(* The inductive invariant. *)

\* The heap is a tree that holds the map, or empty.
TreeInv == Bare(heap, root, dict) \/ \E K : Shape(heap, K, root, dict)

\* The invariant of the next state is that of the next heap, root and map.
LEMMA TreeNext ==
    ASSUME Bare(heap', root', dict') \/ \E K : Shape(heap', K, root', dict')
    PROVE  TreeInv'
BY DEF TreeInv, Bare, Shape, Alive, CellOK, LeafOK, NodeOK, ChildOK, Chained,
       Rooted, Holds, Toward, Same

\* Each step of cb_insert() and cb_delete() leaves a tree.
LEMMA TreeStep ==
    ASSUME TreeInv, Next
    PROVE  TreeInv'
<1> SUFFICES Bare(heap', root', dict') \/ \E K : Shape(heap', K, root', dict')
  BY TreeNext
<1>1. PICK u \in Keys : CbDelete(u) \/ \E val \in Vals : CbInsert(u, val)
  BY DEF Next
<1>2. CASE Bare(heap, root, dict)
  <2>1. root = Null /\ ~Finds(u)
    BY <1>2 DEF Bare, Finds
  <2>2. CASE CbDelete(u)
    <3>1. root' = root /\ heap' = heap /\ dict' = [dict EXCEPT ![u] = Null]
      BY <2>1, <2>2 DEF CbDelete, DeleteFound, DeleteNone
    <3>2. dict' = dict
      BY <1>2, <3>1 DEF Bare
    <3> QED BY <1>2, <3>1, <3>2
  <2>3. ASSUME NEW val \in Vals, CbInsert(u, val)
        PROVE  \E K : Shape(heap', K, root', dict')
    <3> DEFINE n == Malloc(Addrs \ Live)
    <3>1. /\ Live # Addrs /\ root' = n /\ heap' = [heap EXCEPT ![n] = Leaf(u, val)]
          /\ dict' = [dict EXCEPT ![u] = val]
      BY <2>1, <2>3 DEF CbInsert, InsertFirst, InsertAgain, InsertNew, InsertAstray
    <3>2. n \in Addrs
      BY <3>1 DEF Malloc, Live
    <3> HIDE DEF n
    <3>3. PICK m \in Addrs : m = n
      BY <3>2
    <3>4. \E K : Shape(heap', K, m, dict')
      BY <1>2, <3>1, <3>3, PlantShape
    <3> QED BY <3>1, <3>3, <3>4
  <2> QED BY <1>1, <2>2, <2>3
<1>3. ASSUME NEW K, Shape(heap, K, root, dict)
      PROVE  Bare(heap', root', dict') \/ \E K2 : Shape(heap', K2, root', dict')
  <2>1. root # Null
    BY <1>3, NullAssumption DEF Shape, Rooted, Alive
  <2>2. Finds(u) <=> u \in K[root]
    BY <1>3, FindsExactly
  <2>3. CASE DeleteFound(u) /\ dict' = [dict EXCEPT ![u] = Null]
    BY <1>3, <2>3, DeleteFoundShape
  <2>4. CASE DeleteNone(u) /\ dict' = [dict EXCEPT ![u] = Null]
    <3>1. root' = root /\ heap' = heap /\ u \notin K[root]
      BY <2>2, <2>4 DEF DeleteNone
    <3>2. dict \in [Keys -> Vals \cup {Null}] /\ dict[u] = Null
      BY <1>3, <3>1 DEF Shape, Holds
    <3>3. dict' = dict
      BY <2>4, <3>2
    <3> QED BY <1>3, <3>1, <3>3
  <2>5. ASSUME NEW val \in Vals, CbInsert(u, val)
        PROVE  \E K2 : Shape(heap', K2, root', dict')
    <3>1. \/ dict' = [dict EXCEPT ![u] = val] /\ (InsertAgain(u, val) \/ InsertNew(u, val))
          \/ InsertAstray(u)
      BY <2>1, <2>5 DEF CbInsert, InsertFirst
    <3>2. CASE InsertNew(u, val) /\ dict' = [dict EXCEPT ![u] = val]
      BY <1>3, <3>2, InsertNewShape
    <3>3. CASE InsertAgain(u, val) /\ dict' = [dict EXCEPT ![u] = val]
      <4> DEFINE c == Closest(u)
      <4>1. /\ heap[c].key = u /\ heap' = [heap EXCEPT ![c].val = val] /\ root' = root
        BY <3>3 DEF InsertAgain, Finds
      <4>2. c \in Alive(heap) /\ LeafCell(heap[c])
        BY <1>3, WalkKey
      <4> HIDE DEF c
      <4>3. Shape(heap', K, root, dict')
        BY <1>3, <3>3, <4>1, <4>2, RelabelShape
      <4> QED BY <4>1, <4>3
    <3>4. CASE InsertAstray(u)
      <4>1. root' = root /\ heap' = heap /\ dict' = dict
        BY <3>4 DEF InsertAstray
      <4> QED BY <1>3, <4>1
    <3> QED BY <3>1, <3>2, <3>3, <3>4
  <2> QED BY <1>1, <2>3, <2>4, <2>5 DEF CbDelete
<1> QED BY <1>2, <1>3 DEF TreeInv

\* In every reachable state the nodes in memory are one crit-bit tree, and its
\* leaves are the keys that are in the table with the values stored with them.
\* (The write out of bounds, the last step of a behaviour, is not part of it.)
THEOREM TreeInductive == Spec => []TreeInv
<1>1. Init => TreeInv
  BY DEF Init, TreeInv, Bare
<1>2. TreeInv /\ [Next]_cbvars => TreeInv'
  <2> SUFFICES ASSUME TreeInv, [Next]_cbvars PROVE TreeInv'
    OBVIOUS
  <2>1. CASE Next
    BY <2>1, TreeStep
  <2>2. CASE UNCHANGED cbvars
    <3>1. heap' = heap /\ root' = root /\ dict' = dict
      BY <2>2 DEF cbvars
    <3>2. Bare(heap', root', dict') \/ \E K : Shape(heap', K, root', dict')
      BY <3>1 DEF TreeInv
    <3> QED BY <3>2, TreeNext
  <2> QED BY <2>1, <2>2
<1> QED BY <1>1, <1>2, PTL DEF Spec

\* The lookup of cb_contains() in the empty table and in a tree.
LEMMA TreeIsMap ==
    ASSUME TreeInv
    PROVE  MapExact
<1> SUFFICES ASSUME NEW u \in Keys PROVE Contains(u) = dict[u]
  BY DEF MapExact
<1>1. CASE Bare(heap, root, dict)
  BY <1>1 DEF Bare, Contains, Finds
<1>2. ASSUME NEW K, Shape(heap, K, root, dict) PROVE Contains(u) = dict[u]
  BY <1>2, FindsExactly
<1> QED BY <1>1, <1>2 DEF TreeInv

\* cb_contains() finds, for every key and after any sequence of insertions and
\* deletions, the value last stored with it, and nothing for a key that is not
\* in the table: as long as cb_insert() has not written out of bounds.
THEOREM MapIsExact == Spec => []MapExact
BY TreeInductive, TreeIsMap, PTL

-----------------------------------------------------------------------------
(* What can be reached. *)

\* One turn of the search for what can be reached.
Spread(R) == R \cup UNION {{heap[q].child[1], heap[q].child[2]}
                              : q \in {q \in R : ~heap[q].leaf}}
Reaches(f, a, n) == f = [j \in 0..n |-> IF j = 0 THEN {a} ELSE Spread(f[j - 1])]

\* What can be reached in so many turns can be computed.
LEMMA ReachExists ==
    ASSUME NEW a, NEW n \in Nat
    PROVE  \E f : Reaches(f, a, n)
<1> DEFINE S == {m \in Nat : \E f : Reaches(f, a, m)}
<1>1. 0 \in S
  <2> DEFINE f == [j \in 0..0 |-> {a}]
  <2>1. \A j \in 0..0 : j = 0
    OBVIOUS
  <2>2. Reaches(f, a, 0)
    BY <2>1 DEF Reaches
  <2> QED BY <2>2
<1>2. ASSUME NEW m \in 0..(n - 1), m \in S PROVE m + 1 \in S
  <2>1. PICK f : Reaches(f, a, m)
    BY <1>2
  <2> DEFINE g == [j \in 0..(m + 1) |-> IF j = m + 1 THEN Spread(f[m]) ELSE f[j]]
  <2>2. ASSUME NEW j \in 0..(m + 1)
        PROVE  g[j] = IF j = 0 THEN {a} ELSE Spread(g[j - 1])
    <3>1. CASE j = m + 1
      <4>1. j # 0 /\ j - 1 = m /\ m \in 0..(m + 1) /\ m # m + 1
        BY <3>1
      <4>2. g[j - 1] = f[m] /\ g[j] = Spread(f[m])
        BY <3>1, <4>1
      <4> QED BY <4>1, <4>2
    <3>2. CASE j # m + 1
      <4>1. j \in 0..m /\ g[j] = f[j]
        BY <3>2
      <4>2. CASE j = 0
        BY <2>1, <4>1, <4>2 DEF Reaches
      <4>3. CASE j # 0
        <5>1. j - 1 \in 0..(m + 1) /\ j - 1 # m + 1
          BY <4>1, <4>3
        <5>2. g[j - 1] = f[j - 1]
          BY <5>1
        <5>3. f[j] = Spread(f[j - 1])
          BY <2>1, <4>1, <4>3 DEF Reaches
        <5> QED BY <4>1, <4>3, <5>2, <5>3
      <4> QED BY <4>2, <4>3
    <3> QED BY <3>1, <3>2
  <2>3. g = [j \in 0..(m + 1) |-> g[j]]
    OBVIOUS
  <2> HIDE DEF g
  <2>4. Reaches(g, a, m + 1)
    BY <2>2, <2>3 DEF Reaches
  <2> QED BY <1>2, <2>4
<1>3. \A m \in 0..n : m \in S
  <2> HIDE DEF S
  <2> QED BY <1>1, <1>2, Climb
<1> QED BY <1>3

\* What can be reached, as a sequence of turns.
LEMMA BelowTurns ==
    ASSUME NEW a
    PROVE  \E f : /\ Below(a) = f[Turns] /\ f[0] = {a}
                  /\ \A n \in 1..Turns : f[n] = Spread(f[n - 1])
<1> DEFINE f == CHOOSE f : Reaches(f, a, Turns)
<1>1. Turns \in Nat
  BY AddrAssumption, FS_CardinalityType DEF Turns
<1>2. Reaches(f, a, Turns)
  <2>1. \E g : Reaches(g, a, Turns)
    BY <1>1, ReachExists
  <2> QED BY <2>1, Zenon
<1>3. Below(a) = f[Turns]
  BY DEF Below, Reaches, Spread, Turns
<1> HIDE DEF f
<1>4. PICK z, N : z = {a} /\ N = Turns
  OBVIOUS
<1>5. f = [j \in 0..N |-> IF j = 0 THEN z ELSE Spread(f[j - 1])] /\ N \in Nat
  BY <1>1, <1>2, <1>4 DEF Reaches
<1>6. f[0] = z
  BY <1>5
<1>7. \A n \in 1..N : f[n] = Spread(f[n - 1])
  BY <1>5
<1> QED BY <1>3, <1>4, <1>6, <1>7

\* A turn stays in the tree, below where it started.
LEMMA SpreadBelow ==
    ASSUME NEW K, Shape(heap, K, root, dict), NEW a, NEW R,
           \A b \in R : b \in Alive(heap) /\ K[b] \subseteq K[a],
           NEW b \in Spread(R)
    PROVE  b \in Alive(heap) /\ K[b] \subseteq K[a]
<1>1. CASE b \in R
  BY <1>1
<1>2. ASSUME NEW q \in R, ~heap[q].leaf, NEW e \in {1, 2}, b = heap[q].child[e]
      PROVE  b \in Alive(heap) /\ K[b] \subseteq K[a]
  <2>1. q \in Alive(heap) /\ K[q] \subseteq K[a] /\ CellOK(heap, K, q)
    BY DEF Shape
  <2>2. NodeOK(heap, K, q)
    BY <1>2, <2>1, CellFacts, LeafKind
  <2>3. b \in Alive(heap) /\ K[b] \subseteq K[q]
    BY <1>2, <2>2, ChildKeys
  <2> QED BY <2>1, <2>3
<1> QED BY <1>1, <1>2 DEF Spread

\* What can be reached from a node is allocated, and its keys are among the
\* node's.
LEMMA BelowKeys ==
    ASSUME NEW K, Shape(heap, K, root, dict), NEW a \in Alive(heap), NEW b \in Below(a)
    PROVE  b \in Alive(heap) /\ K[b] \subseteq K[a]
<1>1. PICK f : /\ Below(a) = f[Turns] /\ f[0] = {a}
               /\ \A n \in 1..Turns : f[n] = Spread(f[n - 1])
  BY BelowTurns
<1>2. Turns \in Nat
  BY WalkTurns
<1> DEFINE S == {n \in Nat : \A c \in f[n] : c \in Alive(heap) /\ K[c] \subseteq K[a]}
<1>3. 0 \in S
  BY <1>1
<1>4. \A n \in 0..(Turns - 1) : n \in S => n + 1 \in S
  <2> SUFFICES ASSUME NEW n \in 0..(Turns - 1), n \in S PROVE n + 1 \in S
    OBVIOUS
  <2>1. n + 1 \in 1..Turns /\ (n + 1) - 1 = n
    BY <1>2
  <2>2. f[n + 1] = Spread(f[n])
    BY <1>1, <2>1
  <2>3. \A c \in Spread(f[n]) : c \in Alive(heap) /\ K[c] \subseteq K[a]
    BY SpreadBelow
  <2> QED BY <2>1, <2>2, <2>3
<1>5. \A n \in 0..Turns : n \in S
  <2> HIDE DEF S
  <2> QED BY <1>2, <1>3, <1>4, Climb
<1> QED BY <1>1, <1>2, <1>5

\* The walk with a key goes through every node that has the key below it.
LEMMA WalkMeets ==
    ASSUME NEW K, Shape(heap, K, root, dict), NEW a \in Alive(heap), NEW x \in K[a]
    PROVE  \E n \in 0..Turns : Spot(x, n) = a
<1> SUFFICES ASSUME \A n \in 0..Turns : Spot(x, n) # a PROVE FALSE
  OBVIOUS
<1> DEFINE s(n) == Spot(x, n)
           N == Turns
           k == heap[Closest(x)].key
<1>1. N \in Nat /\ Closest(x) = s(N)
  BY WalkTurns DEF Closest, Spot, Turns
<1>2. /\ s(0) = root /\ \A n \in 0..N : s(n) \in Alive(heap)
      /\ \A n \in 1..N :
            /\ LeafCell(heap[s(n - 1)]) => s(n) = s(n - 1)
            /\ NodeCell(heap[s(n - 1)]) => s(n) = Toward(heap, s(n - 1), x)
  BY WalkFacts DEF Spot
<1>3. x \in K[root] /\ Pos(heap[root]) <= Pos(heap[a])
  BY DEF Shape, Rooted
<1>4. /\ LeafCell(heap[s(N)]) /\ heap[s(N)].key = x
      /\ \A n \in 0..N : x \in K[s(n)]
  <2>1. k = heap[Closest(x)].key
    OBVIOUS
  <2> HIDE DEF k
  <2> QED BY <1>1, <1>3, <2>1, WalkKey
<1>5. \A q \in Alive(heap) : /\ CellOK(heap, K, q) /\ Pos(heap[q]) \in Nat
                             /\ LeafCell(heap[q]) \/ NodeCell(heap[q])
  BY CellFacts DEF Shape
<1>6. \A n \in 0..N : s(n) # a
  OBVIOUS
<1>7. Chained(heap, K) /\ x \in Keys
  BY DEF Shape, Alive
<1> HIDE DEF s, N, k
<1>8. ASSUME NEW n \in 0..N, Pos(heap[s(n)]) <= Pos(heap[a])
      PROVE  Pos(heap[s(n)]) < Pos(heap[a])
  <2>1. s(n) \in Alive(heap) /\ x \in K[s(n)] \cap K[a]
    BY <1>2, <1>4
  <2>2. Pos(heap[s(n)]) # Pos(heap[a])
    BY <1>6, <1>7, <2>1 DEF Chained
  <2> QED BY <1>5, <1>8, <2>1, <2>2
<1> DEFINE S == {n \in Nat : Pos(heap[s(n)]) <= Pos(heap[a])}
<1>9. 0 \in S
  BY <1>2, <1>3
<1>10. \A n \in 0..(N - 1) : n \in S => n + 1 \in S
  <2> SUFFICES ASSUME NEW n \in 0..(N - 1), n \in S PROVE n + 1 \in S
    OBVIOUS
  <2>1. n + 1 \in 1..N /\ (n + 1) - 1 = n /\ n \in 0..N
    BY <1>1
  <2>2. Pos(heap[s(n)]) < Pos(heap[a]) /\ s(n) \in Alive(heap) /\ x \in K[s(n)] \cap K[a]
    BY <1>2, <1>4, <1>8, <2>1
  <2>3. CASE LeafCell(heap[s(n)])
    <3>1. s(n + 1) = s(n)
      BY <1>2, <2>1, <2>3
    <3> QED BY <2>1, <3>1
  <2>4. CASE NodeCell(heap[s(n)])
    <3>1. s(n + 1) = Toward(heap, s(n), x)
      BY <1>2, <2>1, <2>4
    <3>2. Pos(heap[Toward(heap, s(n), x)]) <= Pos(heap[a])
      BY <1>7, <2>2, <2>4 DEF Chained
    <3> QED BY <2>1, <3>1, <3>2
  <2> QED BY <1>5, <2>2, <2>3, <2>4
<1>11. \A n \in 0..N : n \in S
  <2> HIDE DEF S
  <2> QED BY <1>1, <1>9, <1>10, Climb
<1>12. Pos(heap[s(N)]) < Pos(heap[a])
  BY <1>1, <1>8, <1>11
<1>13. Pos(heap[s(N)]) = 128 * (Len(x) + 1) /\ Len(x) \in Nat
  BY <1>4, <1>7, LeafKind, ReadsByte
<1>14. CASE LeafCell(heap[a])
  <2>1. CellOK(heap, K, a)
    BY <1>5
  <2>2. K[a] = {heap[a].key}
    BY <1>14, <2>1, CellFacts DEF LeafOK
  <2>3. Pos(heap[a]) = 128 * (Len(heap[a].key) + 1)
    BY <1>14, LeafKind
  <2>4. x = heap[a].key
    BY <2>2
  <2> QED BY <1>12, <1>13, <2>3, <2>4
<1>15. CASE NodeCell(heap[a])
  <2>1. NodeOK(heap, K, a) /\ Pos(heap[a]) = At(heap[a].byte, heap[a].bit)
           /\ heap[a].byte \in Nat /\ heap[a].bit \in Bits
    BY <1>5, <1>15, CellFacts, NodeKind
  <2>2. heap[a].byte <= Len(x)
    BY <2>1 DEF NodeOK
  <2>3. Pos(heap[a]) < 128 * (Len(x) + 1)
    BY <1>13, <2>1, <2>2, AtOrder
  <2>4. Pos(heap[a]) \in Nat
    BY <1>5
  <2> QED BY <1>12, <1>13, <2>3, <2>4
<1> QED BY <1>5, <1>14, <1>15

\* Nothing that is allocated is out of the root's reach.
LEMMA BelowAll ==
    ASSUME NEW K, Shape(heap, K, root, dict), NEW a \in Alive(heap)
    PROVE  a \in Below(root)
<1>1. PICK f : /\ Below(root) = f[Turns] /\ f[0] = {root}
               /\ \A n \in 1..Turns : f[n] = Spread(f[n - 1])
  BY BelowTurns
<1>2. PICK x : x \in K[a]
  BY CellFacts DEF Shape
<1>3. PICK m \in 0..Turns : Spot(x, m) = a
  BY <1>2, WalkMeets
<1> DEFINE s(n) == Spot(x, n)
           N == Turns
<1>4. N \in Nat
  BY WalkTurns
<1>5. /\ s(0) = root /\ \A n \in 0..N : s(n) \in Alive(heap)
      /\ \A n \in 1..N :
            /\ LeafCell(heap[s(n - 1)]) => s(n) = s(n - 1)
            /\ NodeCell(heap[s(n - 1)]) => s(n) = Toward(heap, s(n - 1), x)
  BY WalkFacts DEF Spot
<1>6. \A q \in Alive(heap) : LeafCell(heap[q]) \/ NodeCell(heap[q])
  BY CellFacts DEF Shape
<1> HIDE DEF s, N
<1> DEFINE S == {n \in Nat : s(n) \in f[n]}
<1>7. 0 \in S
  BY <1>1, <1>5
<1>8. \A n \in 0..(N - 1) : n \in S => n + 1 \in S
  <2> SUFFICES ASSUME NEW n \in 0..(N - 1), n \in S PROVE n + 1 \in S
    OBVIOUS
  <2>1. n + 1 \in 1..N /\ (n + 1) - 1 = n /\ n \in 0..N
    BY <1>4
  <2>2. f[n + 1] = Spread(f[n]) /\ s(n) \in f[n]
    BY <1>1, <2>1 DEF N
  <2>3. CASE LeafCell(heap[s(n)])
    <3>1. s(n + 1) = s(n)
      BY <1>5, <2>1, <2>3
    <3> QED BY <2>1, <2>2, <3>1 DEF Spread
  <2>4. CASE NodeCell(heap[s(n)])
    <3>1. s(n + 1) = Toward(heap, s(n), x)
      BY <1>5, <2>1, <2>4
    <3>2. PICK e \in {1, 2} : s(n + 1) = heap[s(n)].child[e]
      BY <3>1, TwoSides DEF Toward
    <3>3. heap[s(n)].leaf = FALSE
      BY <2>4, NodeKind
    <3>4. s(n + 1) \in Spread(f[n])
      BY <2>2, <3>2, <3>3 DEF Spread
    <3> QED BY <2>1, <2>2, <3>4
  <2> QED BY <1>5, <1>6, <2>1, <2>3, <2>4
<1>9. \A n \in 0..N : n \in S
  <2> HIDE DEF S
  <2> QED BY <1>4, <1>7, <1>8, Climb
<1>10. a \in f[m]
  BY <1>3, <1>9 DEF s, N
<1> DEFINE T == {n \in Nat : a \in f[n]}
<1>11. \A n \in m..(N - 1) : n \in T => n + 1 \in T
  <2> SUFFICES ASSUME NEW n \in m..(N - 1), n \in T PROVE n + 1 \in T
    OBVIOUS
  <2>1. n + 1 \in 1..N /\ (n + 1) - 1 = n
    BY <1>4
  <2>2. f[n + 1] = Spread(f[n])
    BY <1>1, <2>1 DEF N
  <2> QED BY <2>1, <2>2 DEF Spread
<1>12. m \in T /\ m \in Nat /\ m <= N
  BY <1>3, <1>4, <1>10 DEF N
<1>13. \A n \in m..N : n \in T
  <2> HIDE DEF T
  <2> QED BY <1>4, <1>11, <1>12, Climb
<1>14. N \in m..N
  BY <1>4, <1>12
<1> QED BY <1>1, <1>13, <1>14 DEF N

\* The keys of the leaves below a node are among its keys.
LEMMA LeavesBelow ==
    ASSUME NEW K, Shape(heap, K, root, dict), NEW a \in Alive(heap),
           NEW x \in KeysBelow(a)
    PROVE  x \in K[a]
<1>1. PICK b \in Below(a) : heap[b].leaf /\ x = heap[b].key
  BY DEF KeysBelow
<1>2. b \in Alive(heap) /\ K[b] \subseteq K[a]
  BY BelowKeys
<1>3. CellOK(heap, K, b)
  BY <1>2 DEF Shape
<1>4. LeafOK(heap, K, b)
  BY <1>1, <1>3, CellFacts, NodeKind
<1> QED BY <1>1, <1>2, <1>4 DEF LeafOK

\* A tree owns what is allocated.
LEMMA TreeIsHeap ==
    ASSUME TreeInv
    PROVE  HeapExact
<1>1. CASE Bare(heap, root, dict)
  BY <1>1 DEF Bare, HeapExact, Live
<1>2. ASSUME NEW K, Shape(heap, K, root, dict) PROVE HeapExact
  <2>1. root \in Alive(heap) /\ root # Null
    BY <1>2, NullAssumption DEF Shape, Rooted, Alive
  <2>2. Live = Alive(heap)
    BY DEF Live, Alive
  <2>3. \A a \in Alive(heap) : a \in Below(root)
    BY <1>2, BelowAll
  <2>4. \A b \in Below(root) : b \in Alive(heap)
    BY <1>2, <2>1, BelowKeys
  <2> QED BY <2>1, <2>2, <2>3, <2>4 DEF HeapExact
<1> QED BY <1>1, <1>2 DEF TreeInv

\* A node of a tree tells the keys below its children apart.
LEMMA TreeTellsApart ==
    ASSUME TreeInv
    PROVE  Discriminates
<1>1. CASE Bare(heap, root, dict)
  BY <1>1 DEF Bare, Discriminates
<1>2. ASSUME NEW K, Shape(heap, K, root, dict) PROVE Discriminates
  <2>1. root \in Alive(heap)
    BY <1>2 DEF Shape, Rooted
  <2>2. ASSUME NEW a \in Below(root), ~heap[a].leaf
        PROVE  /\ \A x, y \in KeysBelow(a) : Same(x, y, heap[a].byte, heap[a].bit)
               /\ \A e \in {1, 2} : \A x \in KeysBelow(heap[a].child[e]) :
                     Direction(heap[a], x) = e
    <3>1. a \in Alive(heap)
      BY <1>2, <2>1, BelowKeys
    <3>2. CellOK(heap, K, a)
      BY <1>2, <3>1 DEF Shape
    <3>3. NodeOK(heap, K, a)
      BY <2>2, <3>2, CellFacts, LeafKind
    <3>4. \A x \in KeysBelow(a) : x \in K[a]
      BY <1>2, <3>1, LeavesBelow
    <3>5. \A x, y \in KeysBelow(a) : Same(x, y, heap[a].byte, heap[a].bit)
      BY <3>3, <3>4 DEF NodeOK
    <3>6. ASSUME NEW e \in {1, 2}, NEW x \in KeysBelow(heap[a].child[e])
          PROVE  Direction(heap[a], x) = e
      <4>1. PICK c : c = heap[a].child[e]
        OBVIOUS
      <4>2. c \in Alive(heap) /\ \A y \in K[c] : Direction(heap[a], y) = e
        BY <3>3, <4>1, ChildKeys
      <4>3. x \in K[c]
        BY <1>2, <4>1, <4>2, <3>6, LeavesBelow
      <4> QED BY <4>2, <4>3
    <3> QED BY <3>5, <3>6
  <2> QED BY <2>2 DEF Discriminates, Same
<1> QED BY <1>1, <1>2 DEF TreeInv

\* Every internal node that can be reached names the bit in which the keys of
\* its two subtrees first differ, after any sequence of insertions and
\* deletions without a write out of bounds: what every descent in critbit.c
\* relies on.
THEOREM AlwaysDiscriminates == Spec => []Discriminates
BY TreeInductive, TreeTellsApart, PTL

\* cb_insert() and cb_delete() lose no block and free none that is still linked,
\* up to a write out of bounds.
THEOREM HeapIsExact == Spec => []HeapExact
BY TreeInductive, TreeIsHeap, PTL

\* Of two bytes, one has the bit in which they first differ.
LEMMA OneHasIt ==
    ASSUME NEW a, NEW b, a \in 0..255 /\ b \in 0..255 /\ a # b,
           NEW bit, bit = CritBitOf(a, b)
    PROVE  BitSet(a, bit) \/ BitSet(b, bit)
<1>1. a \in 0..255 /\ b \in 0..255 /\ a # b /\ bit = CritBitOf(a, b)
  OBVIOUS
<1>2. /\ bit \in Bits /\ BitSet(a, bit) # BitSet(b, bit)
      /\ \A p \in Bits : p > bit => (BitSet(a, p) = BitSet(b, p))
  BY <1>1, CritBitFound
<1> QED BY <1>2 DEF BitSet

\* No two ASCII characters differ in the sign bit.
LEMMA AsciiAgree ==
    ASSUME NEW k \in Keys, NEW u \in Keys, k # u,
           \A x \in Keys : \A i \in 1..Len(x) : x[i] < SignBit,
           NEW byte, byte = CritByte(k, u)
    PROVE  CritBitOf(ByteAt(k, byte), ByteAt(u, byte)) # SignBit
<1>1. byte \in Nat /\ ByteAt(k, byte) # ByteAt(u, byte)
  BY CritByteFound
<1>2. ASSUME NEW x \in Keys
      PROVE  ByteAt(x, byte) \in 0..255 /\ ~BitSet(ByteAt(x, byte), SignBit)
  <2>1. ByteAt(x, byte) \in 0..255 /\ Len(x) \in Nat
    BY <1>1, ReadsByte
  <2>2. ByteAt(x, byte) < 128
    <3>1. CASE byte < Len(x)
      <4>1. byte + 1 \in 1..Len(x)
        BY <1>1, <2>1, <3>1
      <4> QED BY <3>1, <4>1 DEF ByteAt, SignBit
    <3>2. CASE ~(byte < Len(x))
      BY <3>2 DEF ByteAt
    <3> QED BY <3>1, <3>2
  <2>3. \A b \in 0..255 : b < 128 => ~BitSet(b, SignBit)
    BY DEF BitSet, SignBit
  <2> QED BY <2>1, <2>2, <2>3
<1> QED BY <1>1, <1>2, OneHasIt

\* With host names of ASCII characters only, cb_insert() never writes out of
\* bounds, so the other theorems hold of every state.
THEOREM AsciiNeverCrashes ==
    ASSUME \A x \in Keys : \A i \in 1..Len(x) : x[i] < SignBit
    PROVE  Spec => [](~crashed)
<1>1. Init => ~crashed
  BY DEF Init
<1>2. TreeInv /\ ~crashed /\ [Next]_cbvars => ~crashed'
  <2> SUFFICES ASSUME TreeInv, ~crashed, Next, crashed' PROVE FALSE
    BY DEF cbvars
  <2>1. PICK u \in Keys : CbDelete(u) \/ \E val \in Vals : CbInsert(u, val)
    BY DEF Next
  <2>2. InsertAstray(u)
    BY <2>1 DEF CbDelete, CbInsert
  <2>3. root # Null /\ ~Finds(u)
    BY <2>2 DEF InsertAstray
  <2>4. PICK K : Shape(heap, K, root, dict)
    BY <2>3 DEF TreeInv, Bare
  <2> DEFINE k == heap[Closest(u)].key
  <2>5. k \in Keys /\ k # u
    <3>1. LeafCell(heap[Closest(u)])
      BY <2>4, WalkKey
    <3> QED BY <2>3, <3>1, LeafKind DEF Finds
  <2>6. CritBitOf(ByteAt(k, CritByte(k, u)), ByteAt(u, CritByte(k, u))) = SignBit
    BY <2>2 DEF InsertAstray
  <2> HIDE DEF k
  <2> QED BY <2>5, <2>6, AsciiAgree
<1> QED BY <1>1, <1>2, TreeInductive, PTL DEF Spec

=============================================================================
