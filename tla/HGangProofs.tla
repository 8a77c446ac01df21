---------------------------- MODULE HGangProofs -----------------------------
(***************************************************************************)
(* The slab allocator, whatever the size of its slabs and of the memory.    *)
(*                                                                         *)
(* The argument: the returned objects can be numbered so that free leads to *)
(* the first and the word of each to the next (ListInv).  A user writes     *)
(* only to objects that are not numbered, hgang_return() puts one in front  *)
(* and hgang_alloc() takes the first away.  That the list found by following *)
(* the words is the numbered one is an induction along the list, made here  *)
(* by way of its least counterexample.                                      *)
(***************************************************************************)
EXTENDS HGang, FiniteSetTheorems, WellFoundedInduction, TLAPS

\* A set of natural numbers with a member has a least one.
LEMMA LeastNatural ==
    ASSUME NEW T \in SUBSET Nat, T # {}
    PROVE  \E m \in T : \A k \in T : k >= m
<1> DEFINE R == OpToRel(<, Nat)
<1>1. IsWellFoundedOn(R, Nat)
  BY NatLessThanWellFounded
<1>2. \A a, b \in Nat : <<a, b>> \in R <=> a < b
  BY DEF OpToRel
<1> HIDE DEF R
<1>3. PICK m \in T : \A k \in T : ~(<<k, m>> \in R)
  BY <1>1, WFMin
<1>4. ASSUME NEW k \in T PROVE k >= m
  <2>1. k \in Nat /\ m \in Nat /\ ~(<<k, m>> \in R)
    BY <1>3
  <2>2. ~(k < m)
    BY <1>2, <2>1
  <2> QED BY <2>1, <2>2
<1> QED BY <1>4

-----------------------------------------------------------------------------
(* The invariant. *)

GangType ==
    /\ slabs \in 0..MaxSlabs /\ next \in 0..PerSlab
    /\ slabs = 0 <=> next = 0
    /\ word \in [Objs -> Objs \cup {Null}] /\ free \in Objs \cup {Null}
    /\ owned \subseteq Carved /\ peak \in Nat

\* f numbers the n returned objects in the order of the list.
Numbers(f, n) ==
    /\ f \in [0..n -> Objs \cup {Null}]
    /\ f[0] = free /\ f[n] = Null
    /\ \A i \in 0..(n - 1) : f[i] \in Returned /\ f[i + 1] = word[f[i]]
    /\ \A i, j \in 0..(n - 1) : f[i] = f[j] => i = j
    /\ \A o \in Returned : \E i \in 0..(n - 1) : f[i] = o

ListInv == \E n \in Nat : \E f : Numbers(f, n)

\* What slabs hold, up to next, and the objects in use.
CountInv ==
    /\ Cardinality(Carved) =
          IF slabs = 0 THEN 0 ELSE (slabs - 1) * PerSlab + next
    /\ peak >= Cardinality(owned)
    /\ NoHoarding

GangInv == GangType /\ ListInv /\ CountInv

-----------------------------------------------------------------------------

\* There are finitely many objects.
LEMMA ObjsFinite ==
    ASSUME NEW S \in SUBSET Objs
    PROVE  IsFiniteSet(S) /\ Cardinality(S) \in Nat
<1>1. IsFiniteSet(1..MaxSlabs) /\ IsFiniteSet(1..PerSlab)
  BY SlabAssumption, FS_Interval
<1>2. IsFiniteSet(Objs)
  BY <1>1, FS_Product DEF Objs
<1> QED BY <1>2, FS_Subset, FS_CardinalityType

\* A step that moves no object on or off the list, and changes the words of
\* none that is on it, keeps the list.
LEMMA ListKept ==
    ASSUME ListInv, UNCHANGED free, Returned' = Returned,
           \A o \in Returned : word'[o] = word[o]
    PROVE  ListInv'
<1>1. PICK n \in Nat : \E f : Numbers(f, n)
  BY DEF ListInv
<1>2. PICK f : Numbers(f, n)
  BY <1>1
<1>3. Numbers(f, n)'
  BY <1>2 DEF Numbers
<1> QED BY <1>3 DEF ListInv

\* Without a head there is no list.
LEMMA EmptyList ==
    ASSUME ListInv, free = Null
    PROVE  Returned = {}
<1>1. PICK n \in Nat : \E f : Numbers(f, n)
  BY DEF ListInv
<1>2. PICK f : Numbers(f, n)
  BY <1>1
<1>3. n = 0
  <2> SUFFICES ASSUME n > 0 PROVE FALSE
    OBVIOUS
  <2>1. 0 \in 0..(n - 1)
    OBVIOUS
  <2>2. Null \in Returned
    BY <1>2, <2>1 DEF Numbers
  <2> QED BY <2>2, NullAssumption DEF Returned, Carved
<1>4. 0..(n - 1) = {}
  BY <1>3
<1> QED BY <1>2, <1>4 DEF Numbers

\* hgang_return() puts the object at the head of the list.
LEMMA Pushed ==
    ASSUME GangType, ListInv, NEW o \in owned, Return(o)
    PROVE  ListInv'
<1>1. PICK n \in Nat : \E f : Numbers(f, n)
  BY DEF ListInv
<1>2. PICK f : Numbers(f, n)
  BY <1>1
<1> DEFINE g == [i \in 0..(n + 1) |-> IF i = 0 THEN o ELSE f[i - 1]]
<1>3. /\ o \in Objs /\ o \in Carved /\ o \notin Returned
      /\ Returned' = Returned \cup {o}
  BY DEF GangType, Returned, Carved, Return
<1>4. g \in [0..(n + 1) -> Objs \cup {Null}]
  <2> SUFFICES ASSUME NEW i \in 0..(n + 1)
               PROVE  (IF i = 0 THEN o ELSE f[i - 1]) \in Objs \cup {Null}
    OBVIOUS
  <2>1. i # 0 => i - 1 \in 0..n
    OBVIOUS
  <2> QED BY <1>2, <1>3, <2>1 DEF Numbers
<1>5. g[0] = o /\ \A i \in 1..(n + 1) : i \in 0..(n + 1) /\ g[i] = f[i - 1]
  OBVIOUS
<1> HIDE DEF g
<1>6. g[0] = free' /\ g[n + 1] = Null
  <2>1. n + 1 \in 1..(n + 1) /\ (n + 1) - 1 = n
    OBVIOUS
  <2> QED BY <1>2, <1>5, <2>1 DEF Numbers, Return
<1>7. word'[o] = free /\ \A p \in Objs \ {o} : word'[p] = word[p]
  BY <1>3 DEF GangType, Return
<1>8. ASSUME NEW i \in 0..((n + 1) - 1)
      PROVE  g[i] \in Returned' /\ g[i + 1] = word'[g[i]]
  <2>1. CASE i = 0
    <3>1. g[1] = f[0]
      BY <1>5
    <3> QED BY <1>2, <1>3, <1>5, <1>7, <2>1, <3>1 DEF Numbers
  <2>2. CASE i # 0
    <3>1. /\ i \in 1..(n + 1) /\ i + 1 \in 1..(n + 1) /\ i - 1 \in 0..(n - 1)
          /\ (i + 1) - 1 = i /\ (i - 1) + 1 = i
      BY <2>2
    <3>2. g[i] = f[i - 1] /\ g[i + 1] = f[i]
      BY <1>5, <3>1
    <3>3. f[i - 1] \in Returned /\ f[(i - 1) + 1] = word[f[i - 1]]
      BY <1>2, <3>1 DEF Numbers
    <3>4. f[i - 1] \in Objs \ {o}
      BY <1>3, <3>3 DEF Returned, Carved
    <3> QED BY <1>3, <1>7, <3>1, <3>2, <3>3, <3>4
  <2> QED BY <2>1, <2>2
<1>9. ASSUME NEW i \in 0..((n + 1) - 1), NEW j \in 0..((n + 1) - 1), g[i] = g[j]
      PROVE  i = j
  <2>1. ASSUME NEW k \in 0..((n + 1) - 1), k # 0
        PROVE  /\ k \in 1..(n + 1) /\ k - 1 \in 0..(n - 1)
               /\ g[k] = f[k - 1] /\ f[k - 1] \in Returned
    <3>1. k \in 1..(n + 1) /\ k - 1 \in 0..(n - 1)
      BY <2>1
    <3> QED BY <1>2, <1>5, <3>1 DEF Numbers
  <2>2. CASE i # 0 /\ j # 0
    <3>1. f[i - 1] = f[j - 1] /\ i - 1 \in 0..(n - 1) /\ j - 1 \in 0..(n - 1)
      BY <1>9, <2>1, <2>2
    <3>2. i - 1 = j - 1
      BY <1>2, <3>1 DEF Numbers
    <3> QED BY <3>2
  <2>3. CASE i = 0 /\ j # 0
    BY <1>3, <1>5, <1>9, <2>1, <2>3
  <2>4. CASE i # 0 /\ j = 0
    BY <1>3, <1>5, <1>9, <2>1, <2>4
  <2> QED BY <2>2, <2>3, <2>4
<1>10. ASSUME NEW p \in Returned'
       PROVE  \E i \in 0..((n + 1) - 1) : g[i] = p
  <2>1. CASE p = o
    BY <1>5, <2>1
  <2>2. CASE p \in Returned
    <3>1. PICK i \in 0..(n - 1) : f[i] = p
      BY <1>2, <2>2 DEF Numbers
    <3>2. /\ i + 1 \in 1..(n + 1) /\ i + 1 \in 0..((n + 1) - 1)
          /\ (i + 1) - 1 = i
      OBVIOUS
    <3> QED BY <1>5, <3>1, <3>2
  <2> QED BY <1>3, <2>1, <2>2
<1>11. Numbers(g, n + 1)'
  BY <1>4, <1>6, <1>8, <1>9, <1>10 DEF Numbers
<1> QED BY <1>11 DEF ListInv

\* hgang_alloc() takes the head off the list.
LEMMA Popped ==
    ASSUME GangType, ListInv, NEW zero \in BOOLEAN, AllocReturned(zero)
    PROVE  ListInv' /\ free \in Returned /\ free' \in Objs \cup {Null}
<1>1. PICK n \in Nat : \E f : Numbers(f, n)
  BY DEF ListInv
<1>2. PICK f : Numbers(f, n)
  BY <1>1
<1>3. n # 0
  BY <1>2 DEF Numbers, AllocReturned
<1> DEFINE m == n - 1
           g == [i \in 0..m |-> f[i + 1]]
<1>4. m \in Nat /\ m + 1 = n
  BY <1>3
<1> HIDE DEF m
<1>5. /\ free \in Returned /\ free \in Objs
      /\ f[1] = word[free] /\ f[0] = free /\ 0 \in 0..(n - 1)
  BY <1>2, <1>3 DEF Numbers, Returned, Carved
<1>6. Returned' = Returned \ {free}
  BY DEF AllocReturned, Grant, Returned, Carved
<1>7. \A i \in 0..m : i + 1 \in 0..n /\ g[i] = f[i + 1]
  BY <1>4
<1>8. g \in [0..m -> Objs \cup {Null}]
  BY <1>2, <1>7 DEF Numbers
<1> HIDE DEF g
<1>9. g[0] = free' /\ g[m] = Null
  <2>1. 0 \in 0..m /\ m \in 0..m /\ 0 + 1 = 1
    BY <1>4
  <2> QED BY <1>2, <1>4, <1>5, <1>7, <2>1 DEF Numbers, AllocReturned
<1>10. \A p \in Objs \ {free} : word'[p] = word[p]
  BY DEF AllocReturned, Grant, GangType
<1>11. ASSUME NEW i \in 0..(m - 1)
       PROVE  /\ i + 1 \in 0..(n - 1) /\ g[i] = f[i + 1]
              /\ g[i] \in Returned' /\ g[i + 1] = word'[g[i]]
  <2>1. i \in 0..m /\ i + 1 \in 0..m /\ i + 1 \in 0..(n - 1) /\ i + 1 # 0
    BY <1>4
  <2>2. g[i] = f[i + 1] /\ g[i + 1] = f[(i + 1) + 1]
    BY <1>7, <2>1
  <2>3. f[i + 1] \in Returned /\ f[(i + 1) + 1] = word[f[i + 1]]
    BY <1>2, <2>1 DEF Numbers
  <2>4. f[i + 1] # free
    BY <1>2, <1>5, <2>1 DEF Numbers
  <2>5. f[i + 1] \in Objs \ {free}
    BY <2>3, <2>4 DEF Returned, Carved
  <2> QED BY <1>6, <1>10, <2>1, <2>2, <2>3, <2>5
<1>12. ASSUME NEW i \in 0..(m - 1), NEW j \in 0..(m - 1), g[i] = g[j]
       PROVE  i = j
  <2>1. /\ i + 1 \in 0..(n - 1) /\ j + 1 \in 0..(n - 1)
        /\ f[i + 1] = f[j + 1]
    BY <1>11, <1>12
  <2>2. i + 1 = j + 1
    BY <1>2, <2>1 DEF Numbers
  <2> QED BY <2>2
<1>13. ASSUME NEW p \in Returned'
       PROVE  \E i \in 0..(m - 1) : g[i] = p
  <2>1. PICK i \in 0..(n - 1) : f[i] = p
    BY <1>2, <1>6 DEF Numbers
  <2>2. i # 0
    BY <1>5, <1>6, <2>1
  <2>3. i - 1 \in 0..(m - 1) /\ (i - 1) + 1 = i
    BY <1>4, <2>2
  <2> QED BY <1>11, <2>1, <2>3
<1>14. Numbers(g, m)'
  BY <1>8, <1>9, <1>11, <1>12, <1>13 DEF Numbers
<1>15. free' \in Objs \cup {Null}
  BY <1>5 DEF AllocReturned, GangType
<1> QED BY <1>4, <1>5, <1>14, <1>15 DEF ListInv

-----------------------------------------------------------------------------
(* Carving and counting. *)

\* The object o is carved next, off the newest slab or off a new one.
Carves(o) ==
    \/ /\ ~SlabFull /\ next' = next + 1 /\ slabs' = slabs
       /\ o = <<slabs, next'>>
    \/ /\ SlabFull /\ slabs < MaxSlabs /\ slabs' = slabs + 1 /\ next' = 1
       /\ o = <<slabs', 1>>

\* It was not carved before, and it is the only one.
LEMMA CarvesOne ==
    ASSUME GangType, NEW o, Carves(o)
    PROVE  /\ slabs' \in 1..MaxSlabs /\ next' \in 1..PerSlab
           /\ o \in Objs \ Carved /\ Carved' = Carved \cup {o}
<1>1. /\ slabs \in Nat /\ next \in Nat /\ slabs <= MaxSlabs /\ next <= PerSlab
      /\ MaxSlabs \in Nat /\ PerSlab \in Nat /\ PerSlab >= 1
      /\ slabs = 0 <=> next = 0
  BY SlabAssumption DEF GangType
<1>2. \A p \in Objs : /\ p[1] \in Nat /\ p[2] \in Nat /\ p[2] <= PerSlab
                      /\ 1 <= p[1] /\ 1 <= p[2] /\ p = <<p[1], p[2]>>
  BY <1>1 DEF Objs
<1>3. CASE /\ ~SlabFull /\ next' = next + 1 /\ slabs' = slabs
           /\ o = <<slabs, next'>>
  <2>1. /\ slabs' \in 1..MaxSlabs /\ next' \in 1..PerSlab
        /\ next' = next + 1 /\ slabs' = slabs
    BY <1>1, <1>3 DEF SlabFull
  <2>2. o \in Objs /\ o[1] = slabs /\ o[2] = next + 1
    BY <1>3, <2>1 DEF Objs
  <2>3. o \notin Carved
    BY <1>1, <2>2 DEF Carved
  <2>4. ASSUME NEW p \in Objs
        PROVE  p \in Carved' <=> p \in Carved \/ p = o
    <3>1. p = o <=> p[1] = slabs /\ p[2] = next + 1
      BY <1>2, <1>3, <2>1
    <3> QED BY <1>1, <1>2, <2>1, <3>1 DEF Carved
  <2>5. Carved' \subseteq Objs /\ Carved \subseteq Objs
    BY DEF Carved
  <2> QED BY <2>1, <2>2, <2>3, <2>4, <2>5
<1>4. CASE /\ SlabFull /\ slabs < MaxSlabs /\ slabs' = slabs + 1 /\ next' = 1
           /\ o = <<slabs', 1>>
  <2>1. /\ slabs' \in 1..MaxSlabs /\ next' \in 1..PerSlab
        /\ next' = 1 /\ slabs' = slabs + 1
    BY <1>1, <1>4
  <2>2. o \in Objs /\ o[1] = slabs + 1 /\ o[2] = 1
    BY <1>1, <1>4, <2>1 DEF Objs
  <2>3. o \notin Carved
    BY <1>1, <2>2 DEF Carved
  <2>4. ASSUME NEW p \in Objs
        PROVE  p \in Carved' <=> p \in Carved \/ p = o
    <3>1. p = o <=> p[1] = slabs + 1 /\ p[2] = 1
      BY <1>2, <1>4, <2>1
    <3>2. p[1] = slabs => p[2] <= next
      BY <1>1, <1>2, <1>4 DEF SlabFull
    <3> QED BY <1>1, <1>2, <2>1, <3>1, <3>2 DEF Carved
  <2>5. Carved' \subseteq Objs /\ Carved \subseteq Objs
    BY DEF Carved
  <2> QED BY <2>1, <2>2, <2>3, <2>4, <2>5
<1> QED BY <1>3, <1>4 DEF Carves

\* A granted object was nobody's; peak keeps up.
LEMMA Granted ==
    ASSUME GangType, CountInv, NEW o \in Objs \ owned, NEW zero \in BOOLEAN,
           Grant(o, zero)
    PROVE  /\ word' \in [Objs -> Objs \cup {Null}] /\ peak' \in Nat
           /\ Cardinality(owned') = Cardinality(owned) + 1
           /\ Cardinality(owned) \in Nat
           /\ peak' >= Cardinality(owned') /\ peak' >= peak
<1>1. owned \in SUBSET Objs
  BY DEF GangType, Carved
<1>2. IsFiniteSet(owned) /\ Cardinality(owned) \in Nat
  BY <1>1, ObjsFinite
<1>3. Cardinality(owned') = Cardinality(owned) + 1
  BY <1>2, FS_AddElement DEF Grant
<1>4. peak \in Nat /\ peak' = Highest(peak, Cardinality(owned'))
  BY DEF GangType, Grant
<1>5. peak' \in Nat /\ peak' >= Cardinality(owned') /\ peak' >= peak
  BY <1>2, <1>3, <1>4 DEF Highest
<1>6. word' \in [Objs -> Objs \cup {Null}]
  BY DEF GangType, Grant
<1> QED BY <1>2, <1>3, <1>5, <1>6

\* An allocation off a slab.
LEMMA CarvedInv ==
    ASSUME GangInv, NEW o, Carves(o), NEW zero \in BOOLEAN, Grant(o, zero),
           free = Null, UNCHANGED free
    PROVE  GangInv'
<1> USE DEF GangInv
<1>1. /\ slabs' \in 1..MaxSlabs /\ next' \in 1..PerSlab
      /\ o \in Objs \ Carved /\ Carved' = Carved \cup {o}
  BY CarvesOne
<1>2. owned \subseteq Carved /\ o \notin owned /\ owned' = owned \cup {o}
  BY <1>1 DEF GangType, Grant
<1>3. /\ word' \in [Objs -> Objs \cup {Null}] /\ peak' \in Nat
      /\ Cardinality(owned') = Cardinality(owned) + 1
      /\ Cardinality(owned) \in Nat
      /\ peak' >= Cardinality(owned') /\ peak' >= peak
  BY <1>1, <1>2, Granted
<1>4. GangType'
  <2>1. /\ slabs' \in 0..MaxSlabs /\ next' \in 0..PerSlab
        /\ slabs' = 0 <=> next' = 0
    BY <1>1, SlabAssumption
  <2> QED BY <1>1, <1>2, <1>3, <2>1 DEF GangType
<1>5. ListInv'
  <2>1. Returned' = Returned /\ o \notin Returned
    BY <1>1, <1>2 DEF Returned
  <2>2. \A p \in Returned : word'[p] = word[p]
    BY <2>1 DEF Grant, GangType, Returned, Carved
  <2> QED BY <2>1, <2>2, ListKept
<1>6. IsFiniteSet(Carved) /\ Cardinality(Carved) \in Nat
  BY ObjsFinite DEF Carved
<1>7. Cardinality(Carved') = Cardinality(Carved) + 1
  BY <1>1, <1>6, FS_AddElement
<1>8. /\ slabs \in Nat /\ next \in Nat /\ PerSlab \in Nat /\ peak \in Nat
      /\ slabs = 0 <=> next = 0
      /\ next <= PerSlab
  BY SlabAssumption DEF GangType
<1>9. slabs > 0 => (slabs - 1) * PerSlab + PerSlab = slabs * PerSlab
  BY <1>8
<1>10. Cardinality(Carved') = (slabs' - 1) * PerSlab + next'
  <2>1. CASE ~SlabFull /\ next' = next + 1 /\ slabs' = slabs
    <3>1. slabs # 0
      BY <2>1 DEF SlabFull
    <3>2. (slabs - 1) * PerSlab \in Int
      BY <1>8
    <3>3. Cardinality(Carved) = (slabs - 1) * PerSlab + next
      BY <3>1 DEF CountInv
    <3> QED BY <1>7, <1>8, <2>1, <3>2, <3>3
  <2>2. CASE SlabFull /\ slabs' = slabs + 1 /\ next' = 1 /\ slabs = 0
    <3>1. Cardinality(Carved) = 0 /\ slabs' - 1 = 0
      BY <2>2 DEF CountInv
    <3>2. 0 * PerSlab = 0
      BY <1>8
    <3> QED BY <1>7, <2>2, <3>1, <3>2
  <2>3. CASE SlabFull /\ slabs' = slabs + 1 /\ next' = 1 /\ slabs # 0
    <3>1. next = PerSlab
      BY <1>8, <2>3 DEF SlabFull
    <3>2. Cardinality(Carved) = slabs * PerSlab
      BY <1>8, <1>9, <2>3, <3>1 DEF CountInv
    <3>3. slabs' - 1 = slabs
      BY <1>8, <2>3
    <3> QED BY <1>7, <2>3, <3>2, <3>3
  <2> QED BY <2>1, <2>2, <2>3 DEF Carves
<1>11. NoHoarding'
  <2>1. owned = Carved
    BY <1>2, EmptyList DEF Returned
  <2>2. Cardinality(owned') = (slabs' - 1) * PerSlab + next'
    BY <1>3, <1>7, <1>10, <2>1
  <2>3. /\ (slabs' - 1) * PerSlab \in Int /\ next' >= 1 /\ next' \in Nat
    BY <1>1, <1>8, SlabAssumption
  <2> QED BY <1>3, <2>2, <2>3 DEF NoHoarding
<1>12. slabs' # 0
  BY <1>1, SlabAssumption
<1> QED BY <1>3, <1>4, <1>5, <1>10, <1>11, <1>12 DEF CountInv

\* The counts do not depend on the list.
LEMMA CountKept ==
    ASSUME CountInv, UNCHANGED <<slabs, next>>, peak \in Nat, peak' \in Nat,
           Cardinality(owned') \in Nat, peak' >= Cardinality(owned'),
           peak' >= peak, slabs \in Nat
    PROVE  CountInv'
<1>1. Carved' = Carved
  BY DEF Carved
<1>2. NoHoarding'
  <2>1. (slabs - 1) * PerSlab \in Int
    BY SlabAssumption
  <2> QED BY <2>1 DEF CountInv, NoHoarding
<1> QED BY <1>1, <1>2 DEF CountInv

-----------------------------------------------------------------------------
(* The theorems. *)

\* hgang_new() makes a pool without a slab.
LEMMA InitGangInv == Init => GangInv
<1> SUFFICES ASSUME Init PROVE GangInv
  OBVIOUS
<1>1. Carved = {} /\ Returned = {}
  BY DEF Init, Carved, Returned, Objs
<1>2. GangType
  BY <1>1, SlabAssumption DEF Init, GangType
<1>3. ListInv
  <2> DEFINE f == [i \in 0..0 |-> Null]
  <2>1. 0..(0 - 1) = {}
    OBVIOUS
  <2>2. f \in [0..0 -> Objs \cup {Null}] /\ f[0] = Null
    OBVIOUS
  <2> HIDE DEF f
  <2>3. Numbers(f, 0)
    BY <1>1, <2>1, <2>2 DEF Init, Numbers
  <2> QED BY <2>3 DEF ListInv
<1>4. CountInv
  BY <1>1, FS_EmptySet DEF Init, CountInv, NoHoarding
<1> QED BY <1>2, <1>3, <1>4 DEF GangInv

\* Every call of the allocator, and every use of its objects, keeps the list.
LEMMA NextGangInv == GangInv /\ [Next]_vars => GangInv'
<1> SUFFICES ASSUME GangInv, [Next]_vars PROVE GangInv'
  OBVIOUS
<1>1. GangType /\ ListInv /\ CountInv
  BY DEF GangInv
<1>2. slabs \in Nat /\ peak \in Nat /\ owned \in SUBSET Objs
  BY <1>1, SlabAssumption DEF GangType, Carved
<1>3. IsFiniteSet(owned) /\ Cardinality(owned) \in Nat
  BY <1>2, ObjsFinite
<1>4. ASSUME NEW zero \in BOOLEAN, AllocReturned(zero) PROVE GangInv'
  <2>1. ListInv' /\ free \in Returned /\ free' \in Objs \cup {Null}
    BY <1>1, <1>4, Popped
  <2>2. free \in Objs \ owned /\ Grant(free, zero)
    BY <1>4, <2>1 DEF Returned, Carved, AllocReturned
  <2>3. /\ word' \in [Objs -> Objs \cup {Null}] /\ peak' \in Nat
        /\ Cardinality(owned') = Cardinality(owned) + 1
        /\ peak' >= Cardinality(owned') /\ peak' >= peak
    BY <1>1, <2>2, Granted
  <2>4. Carved' = Carved /\ owned' = owned \cup {free}
    BY <1>4 DEF AllocReturned, Carved, Grant
  <2>5. GangType'
    BY <1>1, <1>4, <2>1, <2>3, <2>4 DEF GangType, AllocReturned, Returned
  <2>6. CountInv'
    BY <1>1, <1>2, <1>3, <1>4, <2>3, CountKept DEF AllocReturned
  <2> QED BY <2>1, <2>5, <2>6 DEF GangInv
<1>5. ASSUME NEW zero \in BOOLEAN, AllocCarved(zero) PROVE GangInv'
  <2>1. Carves(<<slabs, next'>>)
    BY <1>5 DEF AllocCarved, Carves
  <2> QED BY <1>5, <2>1, CarvedInv DEF AllocCarved
<1>6. ASSUME NEW zero \in BOOLEAN, AllocSlow(zero) PROVE GangInv'
  <2>1. Carves(<<slabs', 1>>)
    BY <1>6 DEF AllocSlow, Carves
  <2> QED BY <1>6, <2>1, CarvedInv DEF AllocSlow
<1>7. ASSUME NEW o \in Objs, Return(o) PROVE GangInv'
  <2>1. o \in owned /\ owned' = owned \ {o}
    BY <1>7 DEF Return
  <2>2. Carved' = Carved
    BY <1>7 DEF Return, Carved
  <2>3. ListInv'
    BY <1>1, <1>7, <2>1, Pushed
  <2>4. GangType'
    BY <1>1, <1>7, <2>1, <2>2 DEF GangType, Return
  <2>5. Cardinality(owned') = Cardinality(owned) - 1
    BY <1>3, <2>1, FS_RemoveElement
  <2>6. Cardinality(owned') \in Nat
    BY <1>2, <2>1, ObjsFinite
  <2>7. peak' = peak /\ peak' >= Cardinality(owned')
    BY <1>1, <1>2, <1>3, <1>7, <2>5 DEF Return, CountInv
  <2>8. CountInv'
    BY <1>1, <1>2, <1>7, <2>6, <2>7, CountKept DEF Return
  <2> QED BY <2>3, <2>4, <2>8 DEF GangInv
<1>8. ASSUME NEW o \in Objs, NEW p \in Objs \cup {Null}, Use(o, p) PROVE GangInv'
  <2>1. Carved' = Carved /\ Returned' = Returned /\ o \notin Returned
    BY <1>8 DEF Use, Carved, Returned
  <2>2. GangType'
    BY <1>1, <1>8, <2>1 DEF GangType, Use
  <2>3. ListInv'
    <3>1. \A q \in Returned : word'[q] = word[q]
      BY <1>1, <1>8, <2>1 DEF Use, GangType, Returned, Carved
    <3> QED BY <1>1, <1>8, <2>1, <3>1, ListKept DEF Use
  <2>4. CountInv'
    BY <1>1, <1>2, <1>3, <1>8, CountKept DEF Use, CountInv
  <2> QED BY <2>2, <2>3, <2>4 DEF GangInv
<1>9. CASE UNCHANGED vars
  <2>1. Carved' = Carved /\ Returned' = Returned
    BY <1>9 DEF vars, Carved, Returned
  <2>2. ListInv'
    BY <1>1, <1>9, <2>1, ListKept DEF vars
  <2>3. GangType' /\ CountInv'
    BY <1>1, <1>9, <2>1 DEF vars, GangType, CountInv, NoHoarding
  <2> QED BY <2>2, <2>3 DEF GangInv
<1> QED BY <1>4, <1>5, <1>6, <1>7, <1>8, <1>9 DEF Next, Alloc

\* The invariant of the allocator is inductive.
THEOREM GangInductive == Spec => []GangInv
BY InitGangInv, NextGangInv, PTL DEF Spec

\* A pool asks malloc() for a slab only when every object of those it has is
\* in use: it holds no more slabs than its busiest moment required.
THEOREM NeverHoards == Spec => []NoHoarding
<1>1. GangInv => NoHoarding
  BY DEF GangInv, CountInv
<1> QED BY <1>1, GangInductive, PTL

\* There are as many numbers as returned objects.
LEMMA ListSize ==
    ASSUME NEW n \in Nat, NEW f, Numbers(f, n)
    PROVE  Cardinality(Returned) = n /\ n <= Cardinality(Objs)
<1> DEFINE I == 0..(n - 1)
           b == [i \in I |-> f[i]]
<1>1. /\ \A i \in I : b[i] = f[i] /\ b[i] \in Returned
      /\ \A i, j \in I : b[i] = b[j] => i = j
      /\ \A o \in Returned : \E i \in I : b[i] = o
  BY DEF Numbers
<1>2. b \in [I -> Returned]
  BY <1>1
<1>3. IsFiniteSet(I) /\ Cardinality(I) = n
  BY FS_Interval
<1> HIDE DEF I, b
<1>4. b \in Bijection(I, Returned)
  BY <1>1, <1>2 DEF Bijection, Injection, Surjection, IsInjective
<1>5. Cardinality(Returned) = n
  BY <1>3, <1>4, FS_Bijection DEF ExistsBijection
<1>6. Returned \in SUBSET Objs
  BY DEF Returned, Carved
<1>7. IsFiniteSet(Objs)
  BY ObjsFinite
<1> QED BY <1>5, <1>6, <1>7, FS_Subset

\* Following the words from free goes through the objects as they are numbered.
LEMMA WalkNumbers ==
    ASSUME NEW n \in Nat, NEW f, Numbers(f, n)
    PROVE  \A i \in 0..n : Walk[i] = f[i]
<1> DEFINE N == Cardinality(Objs)
           Follow(g) == [i \in 0..N |->
                            IF i = 0 THEN free
                            ELSE IF g[i - 1] = Null THEN Null ELSE word[g[i - 1]]]
           h == [i \in 0..N |-> IF i < n THEN f[i] ELSE Null]
<1>1. N \in Nat /\ n <= N
  BY ObjsFinite, ListSize
<1> HIDE DEF N
<1>2. \A i \in 0..(n - 1) : /\ f[i] # Null /\ f[i + 1] = word[f[i]]
                            /\ i + 1 \in 0..n
  BY NullAssumption DEF Numbers, Returned, Carved
<1>3. h = Follow(h)
  <2> SUFFICES ASSUME NEW i \in 0..N
               PROVE  h[i] = IF i = 0 THEN free
                             ELSE IF h[i - 1] = Null THEN Null ELSE word[h[i - 1]]
    OBVIOUS
  <2>1. \A k \in 0..N : h[k] = IF k < n THEN f[k] ELSE Null
    OBVIOUS
  <2> HIDE DEF h
  <2>2. f[0] = free /\ f[n] = Null
    BY DEF Numbers
  <2>3. CASE i = 0
    BY <1>1, <2>1, <2>2, <2>3
  <2>4. CASE i # 0 /\ i - 1 < n
    <3>1. i - 1 \in 0..(n - 1) /\ i - 1 \in 0..N /\ (i - 1) + 1 = i /\ i <= n
      BY <1>1, <2>4
    <3>2. f[i - 1] # Null /\ f[i] = word[f[i - 1]]
      BY <1>2, <3>1
    <3>3. h[i - 1] = f[i - 1] /\ h[i] = f[i]
      BY <1>1, <2>1, <2>2, <2>4, <3>1
    <3> QED BY <2>4, <3>2, <3>3
  <2>5. CASE i # 0 /\ ~(i - 1 < n)
    <3>1. i - 1 \in 0..N /\ ~(i < n)
      BY <1>1, <2>5
    <3> QED BY <2>1, <2>5, <3>1
  <2> QED BY <2>3, <2>4, <2>5
<1>4. Walk = Follow(Walk)
  BY <1>3 DEF Walk, N
<1>5. /\ Walk[0] = free
      /\ \A i \in 1..n : Walk[i] = IF Walk[i - 1] = Null THEN Null
                                   ELSE word[Walk[i - 1]]
  BY <1>1, <1>4
<1> HIDE DEF Follow, h
<1> DEFINE T == {i \in 0..n : Walk[i] # f[i]}
<1>6. T = {}
  <2> SUFFICES ASSUME T # {} PROVE FALSE
    OBVIOUS
  <2>1. T \in SUBSET Nat
    OBVIOUS
  <2>2. PICK m \in T : \A k \in T : k >= m
    BY <2>1, LeastNatural
  <2>3. m \in 0..n /\ Walk[m] # f[m]
    BY <2>2
  <2>4. m # 0
    BY <1>5, <2>3 DEF Numbers
  <2>5. m - 1 \in 0..n /\ m - 1 \in 0..(n - 1) /\ m \in 1..n /\ (m - 1) + 1 = m
        /\ ~(m - 1 >= m)
    BY <2>3, <2>4
  <2>6. Walk[m - 1] = f[m - 1]
    BY <2>2, <2>5
  <2>7. f[m - 1] # Null /\ f[m] = word[f[m - 1]]
    BY <1>2, <2>5
  <2>8. Walk[m] = word[f[m - 1]]
    BY <1>5, <2>5, <2>6, <2>7
  <2> QED BY <2>3, <2>7, <2>8
<1> QED BY <1>6

\* hgang.c hands no object to two users and loses none: the list threaded
\* through the returned objects holds each of them once and nothing else,
\* whatever their users write to the objects they own.
THEOREM ListIsExact == Spec => []ListExact
<1>1. GangInv => ListExact
  <2> SUFFICES ASSUME GangInv PROVE ListExact
    OBVIOUS
  <2>1. GangType /\ ListInv
    BY DEF GangInv
  <2>2. PICK n \in Nat : \E f : Numbers(f, n)
    BY <2>1 DEF ListInv
  <2>3. PICK f : Numbers(f, n)
    BY <2>2
  <2>4. Cardinality(Returned) = n
    BY <2>3, ListSize
  <2>5. \A i \in 0..n : Walk[i] = f[i]
    BY <2>3, WalkNumbers
  <2>6. Walk[n] = Null
    BY <2>3, <2>5 DEF Numbers
  <2>7. {Walk[i] : i \in 0..(n - 1)} = Returned
    <3>1. \A i \in 0..(n - 1) : Walk[i] = f[i]
      BY <2>5
    <3> QED BY <2>3, <3>1 DEF Numbers
  <2> QED BY <2>1, <2>4, <2>6, <2>7 DEF ListExact, GangType
<1> QED BY <1>1, GangInductive, PTL

=============================================================================
