---------------------------- MODULE VhostsProofs ----------------------------
(***************************************************************************)
(* The vhost table, whatever the names, the web roots, the failures, the    *)
(* room for reports and the files that are read before they are complete.   *)
(*                                                                         *)
(* The argument for convergence: the last report about a name says whether  *)
(* the name stands for a file by now, though what file it does not say;     *)
(* and with no report about it left, the table has what the name stands     *)
(* for.  A web root is given to a name only when nothing refers to it, so   *)
(* opening one name's file never changes what another is served from: that  *)
(* is where the reference counts come in.                                   *)
(***************************************************************************)
EXTENDS Vhosts, FiniteSetTheorems, SequenceTheorems, TLAPS

Adds == {"IN_CREATE", "IN_MOVED_TO"}
Dels == {"IN_DELETE", "IN_MOVED_FROM"}
Reports == [mask : Adds \cup Dels, name : Names, isdir : BOOLEAN]

VhostType ==
    /\ dir \in [Names -> Entries]
    /\ phase \in {"scan", "run"} /\ todo \subseteq Names
    /\ queue \in Seq(Reports \cup {Overflow})
    /\ table \in [Names -> Objs \cup {NoObj}]
    /\ ref \in [Objs -> Int]
    /\ file \in [Objs -> Entries]
    /\ pins \in [Conns -> Objs \cup {NoObj}]
    /\ copying \subseteq Names /\ off \in [Objs -> Int]
    /\ failed \subseteq Names /\ missed \subseteq Names

\* A name vhosts_new() has not come to has no web root; nothing is reported, so
\* nothing is given back, until the directory is watched.
PhaseInv ==
    /\ phase = "scan" =>
          /\ queue = <<>> /\ \A n \in todo : table[n] = NoObj
          /\ \A o \in Objs : off[o] >= 0
    /\ phase = "run" => todo = {}

\* The report ev will have the table changed for n.
About(ev, n) == ev # Overflow /\ ev.isdir = FALSE /\ ev.name = n

\* There is nothing to serve under a name that stands for e.
Gone(e) == e \in {"none", "dir"}

\* What ev will have done is right for a name that stands for e.
Fits(ev, e) == IF Gone(e) THEN ev.mask \in Dels ELSE ev.mask \in Adds

IsLast(q, i, n) ==
    /\ i \in 1..Len(q) /\ About(q[i], n)
    /\ \A j \in 1..Len(q) : j > i => ~About(q[j], n)

\* The table has for n what n stands for.
Serves(n) ==
    /\ dir[n] \in Versions => table[n] # NoObj /\ file[table[n]] = dir[n]
    /\ Gone(dir[n]) => table[n] = NoObj

Settled(n) ==
    /\ \A i \in 1..Len(queue) : IsLast(queue, i, n) => Fits(queue[i], dir[n])
    /\ (\A i \in 1..Len(queue) : ~About(queue[i], n)) /\ n \notin failed =>
          Serves(n)

SettledInv == \A n \in Names \ (todo \cup missed) : Settled(n)

VhostInv == VhostType /\ PhaseInv /\ RefExact /\ SettledInv

-----------------------------------------------------------------------------
(* References. *)

Uses(o) == {n \in Names : table[n] = o}
Pinning(o) == {c \in Conns : pins[c] = o}

\* A set that gains or loses at most one member, x.
LEMMA OneMore ==
    ASSUME NEW U, IsFiniteSet(U), NEW S \in SUBSET U, NEW T, NEW x \in U,
           T \subseteq S \cup {x}, S \ {x} \subseteq T
    PROVE  /\ Cardinality(S) \in Nat
           /\ Cardinality(T) = Cardinality(S)
                 + (IF x \in T /\ x \notin S THEN 1 ELSE 0)
                 - (IF x \in S /\ x \notin T THEN 1 ELSE 0)
<1>1. IsFiniteSet(S) /\ Cardinality(S) \in Nat
  BY FS_Subset, FS_CardinalityType
<1>2. CASE x \in T /\ x \notin S
  <2>1. T = S \cup {x}
    BY <1>2
  <2>2. Cardinality(T) = Cardinality(S) + 1
    BY <1>1, <1>2, <2>1, FS_AddElement
  <2> QED BY <1>1, <1>2, <2>2
<1>3. CASE x \in S /\ x \notin T
  <2>1. T = S \ {x}
    BY <1>3
  <2>2. Cardinality(T) = Cardinality(S) - 1
    BY <1>1, <1>3, <2>1, FS_RemoveElement
  <2> QED BY <1>1, <1>3, <2>2
<1>4. CASE x \in S <=> x \in T
  <2>1. T = S
    BY <1>4
  <2> QED BY <1>1, <1>4, <2>1
<1> QED BY <1>1, <1>2, <1>3, <1>4

\* The sizes of the sets that are counted.
LEMMA Counts ==
    ASSUME NEW o
    PROVE  /\ IsFiniteSet(Uses(o)) /\ Cardinality(Uses(o)) \in Nat
           /\ IsFiniteSet(Pinning(o)) /\ Cardinality(Pinning(o)) \in Nat
<1>1. Uses(o) \in SUBSET Names /\ Pinning(o) \in SUBSET Conns
  BY DEF Uses, Pinning
<1> QED BY <1>1, FiniteAssumption, FS_Subset, FS_CardinalityType

\* No web root in use has been closed if none was given back but by its users.
LEMMA NoStray ==
    ASSUME VhostType, RefExact, \A o \in Objs : off[o] >= 0
    PROVE  InUseOpen
<1>1. ASSUME NEW o \in Objs, Uses(o) # {} \/ Pinning(o) # {}
      PROVE  ref[o] > 0
  <2>1. ref[o] = Cardinality(Uses(o)) + Cardinality(Pinning(o)) + off[o]
    BY DEF RefExact, Uses, Pinning
  <2>2. Cardinality(Uses(o)) # 0 \/ Cardinality(Pinning(o)) # 0
    BY <1>1, Counts, FS_EmptySet
  <2>3. off[o] \in Int /\ off[o] >= 0
    BY DEF VhostType
  <2> QED BY <2>1, <2>2, <2>3, Counts
<1>2. ASSUME NEW n \in Names, table[n] # NoObj
      PROVE  ref[table[n]] > 0
  <2>1. table[n] \in Objs /\ n \in Uses(table[n])
    BY <1>2 DEF VhostType, Uses
  <2> QED BY <1>1, <2>1
<1>3. ASSUME NEW c \in Conns, pins[c] # NoObj
      PROVE  ref[pins[c]] > 0
  <2>1. pins[c] \in Objs /\ c \in Pinning(pins[c])
    BY <1>3 DEF VhostType, Pinning
  <2> QED BY <1>1, <2>1
<1> QED BY <1>2, <1>3 DEF InUseOpen

\* The counts after a reference to v has been exchanged for one to w.
Exchanged(v, w) ==
    \A o \in Objs : ref'[o] = ref[o] + (IF w = o /\ v # o THEN 1 ELSE 0)
                                   - (IF v = o /\ w # o THEN 1 ELSE 0)

\* A step that puts w in the table for n and accounts for it.
LEMMA TableRefs ==
    ASSUME VhostType, RefExact, NEW n \in Names,
           NEW w \in Objs \cup {NoObj},
           table' = [table EXCEPT ![n] = w], UNCHANGED <<pins, off>>,
           Exchanged(table[n], w)
    PROVE  RefExact'
<1> SUFFICES ASSUME NEW o \in Objs
             PROVE  ref'[o] = Cardinality(Uses(o)') + Cardinality(Pinning(o)')
                              + off'[o]
  BY DEF RefExact, Uses, Pinning
<1>1. Pinning(o)' = Pinning(o) /\ off'[o] = off[o]
  BY DEF Pinning
<1>2. /\ Uses(o) \in SUBSET Names
      /\ Uses(o)' \subseteq Uses(o) \cup {n} /\ Uses(o) \ {n} \subseteq Uses(o)'
      /\ n \in Uses(o) <=> table[n] = o
      /\ n \in Uses(o)' <=> w = o
  BY DEF Uses, VhostType
<1>3. /\ Cardinality(Uses(o)) \in Nat
      /\ Cardinality(Uses(o)') = Cardinality(Uses(o))
            + (IF w = o /\ table[n] # o THEN 1 ELSE 0)
            - (IF table[n] = o /\ w # o THEN 1 ELSE 0)
  BY <1>2, FiniteAssumption, OneMore
<1>4. ref[o] = Cardinality(Uses(o)) + Cardinality(Pinning(o))
               + off[o]
  BY DEF RefExact, Uses, Pinning
<1>5. ref[o] \in Int /\ Cardinality(Pinning(o)) \in Nat
      /\ off[o] \in Int
  BY Counts DEF VhostType
<1>6. ref'[o] = ref[o] + (IF w = o /\ table[n] # o THEN 1 ELSE 0)
                       - (IF table[n] = o /\ w # o THEN 1 ELSE 0)
  BY DEF Exchanged
<1> QED BY <1>1, <1>3, <1>4, <1>5, <1>6

\* A step that leaves c with a reference to w and accounts for it.
LEMMA PinRefs ==
    ASSUME VhostType, RefExact, NEW c \in Conns,
           NEW w \in Objs \cup {NoObj},
           pins' = [pins EXCEPT ![c] = w], UNCHANGED <<table, off>>,
           Exchanged(pins[c], w)
    PROVE  RefExact'
<1> SUFFICES ASSUME NEW o \in Objs
             PROVE  ref'[o] = Cardinality(Uses(o)') + Cardinality(Pinning(o)')
                              + off'[o]
  BY DEF RefExact, Uses, Pinning
<1>1. Uses(o)' = Uses(o) /\ off'[o] = off[o]
  BY DEF Uses
<1>2. /\ Pinning(o) \in SUBSET Conns
      /\ Pinning(o)' \subseteq Pinning(o) \cup {c}
      /\ Pinning(o) \ {c} \subseteq Pinning(o)'
      /\ c \in Pinning(o) <=> pins[c] = o
      /\ c \in Pinning(o)' <=> w = o
  BY DEF Pinning, VhostType
<1>3. /\ Cardinality(Pinning(o)) \in Nat
      /\ Cardinality(Pinning(o)') = Cardinality(Pinning(o))
            + (IF w = o /\ pins[c] # o THEN 1 ELSE 0)
            - (IF pins[c] = o /\ w # o THEN 1 ELSE 0)
  BY <1>2, FiniteAssumption, OneMore
<1>4. ref[o] = Cardinality(Uses(o)) + Cardinality(Pinning(o))
               + off[o]
  BY DEF RefExact, Uses, Pinning
<1>5. ref[o] \in Int /\ Cardinality(Uses(o)) \in Nat
      /\ off[o] \in Int
  BY Counts DEF VhostType
<1>6. ref'[o] = ref[o] + (IF w = o /\ pins[c] # o THEN 1 ELSE 0)
                       - (IF pins[c] = o /\ w # o THEN 1 ELSE 0)
  BY DEF Exchanged
<1> QED BY <1>1, <1>3, <1>4, <1>5, <1>6

\* A step that changes the count of o, and what it is off by, by the same.
LEMMA OffRefs ==
    ASSUME VhostType, RefExact, NEW o \in Objs, NEW k \in Int,
           UNCHANGED <<table, pins>>,
           ref' = [ref EXCEPT ![o] = ref[o] + k],
           off' = [off EXCEPT ![o] = off[o] + k]
    PROVE  RefExact' /\ ref' \in [Objs -> Int] /\ off' \in [Objs -> Int]
<1>1. ref \in [Objs -> Int] /\ off \in [Objs -> Int]
  BY DEF VhostType
<1>2. ASSUME NEW q \in Objs
      PROVE  ref'[q] = Cardinality(Uses(q)') + Cardinality(Pinning(q)') + off'[q]
  <2>1. Uses(q)' = Uses(q) /\ Pinning(q)' = Pinning(q)
    BY DEF Uses, Pinning
  <2>2. ref[q] = Cardinality(Uses(q)) + Cardinality(Pinning(q)) + off[q]
    BY DEF RefExact, Uses, Pinning
  <2>3. /\ ref'[q] = IF q = o THEN ref[q] + k ELSE ref[q]
        /\ off'[q] = IF q = o THEN off[q] + k ELSE off[q]
    BY <1>1
  <2>4. ref[q] \in Int /\ off[q] \in Int
    BY <1>1
  <2> QED BY <2>1, <2>2, <2>3, <2>4, Counts
<1>3. RefExact'
  BY <1>2 DEF RefExact, Uses, Pinning
<1> QED BY <1>1, <1>3

\* A step that touches neither the counts nor what they count.
LEMMA RefsKept ==
    ASSUME RefExact, UNCHANGED <<ref, table, pins, off>>
    PROVE  RefExact'
BY DEF RefExact

-----------------------------------------------------------------------------
(* vhost_add() and vhost_del(). *)

TableType ==
    /\ table \in [Names -> Objs \cup {NoObj}] /\ ref \in [Objs -> Int]
    /\ file \in [Objs -> Entries] /\ off \in [Objs -> Int]
    /\ failed \subseteq Names

\* What is done for n leaves the others alone.
Only(n) ==
    \A m \in Names \ {n} :
        /\ table'[m] = table[m]
        /\ table[m] # NoObj => file'[table[m]] = file[table[m]]
        /\ m \in failed' <=> m \in failed

\* An object is opened for n when nothing refers to it, so nobody notices.
LEMMA OpensFree ==
    ASSUME VhostType, InUseOpen, NEW n \in Names, NEW o \in Objs,
           Opens(n, o), file' = [file EXCEPT ![o] = dir[n]]
    PROVE  /\ file' \in [Objs -> Entries] /\ file'[o] = dir[n]
           /\ \A m \in Names : table[m] # NoObj => file'[table[m]] = file[table[m]]
<1>1. /\ file \in [Objs -> Entries] /\ table \in [Names -> Objs \cup {NoObj}]
      /\ dir[n] \in Entries
  BY DEF VhostType
<1>2. \A m \in Names : table[m] # o
  BY ObjAssumption DEF InUseOpen, Opens
<1> QED BY <1>1, <1>2

\* The reference counts after Stored.
LEMMA StoredRefs ==
    ASSUME VhostType, RefExact, InUseOpen, NEW n \in Names, NEW o \in Objs,
           ref[o] = 0, Stored(n, o)
    PROVE  /\ ref' \in [Objs -> Int] /\ table' \in [Names -> Objs \cup {NoObj}]
           /\ UNCHANGED <<pins, off>> => RefExact'
<1>1. /\ ref \in [Objs -> Int] /\ table \in [Names -> Objs \cup {NoObj}]
      /\ table[n] \in Objs \cup {NoObj}
  BY DEF VhostType
<1>2. table[n] # o
  BY ObjAssumption DEF InUseOpen
<1>3. Unreffed(table[n]) \in [Objs -> Int]
  BY <1>1 DEF Unreffed
<1>4. \A q \in Objs : Unreffed(table[n])[q] =
                         IF table[n] = q THEN ref[q] - 1 ELSE ref[q]
  BY <1>1, ObjAssumption DEF Unreffed
<1>5. /\ ref' = [Unreffed(table[n]) EXCEPT ![o] = 1]
      /\ table' = [table EXCEPT ![n] = o]
  BY DEF Stored
<1>6. ref' \in [Objs -> Int] /\ table' \in [Names -> Objs \cup {NoObj}]
  BY <1>1, <1>3, <1>5
<1>7. ASSUME NEW q \in Objs
      PROVE  ref'[q] = ref[q] + (IF o = q /\ table[n] # q THEN 1 ELSE 0)
                              - (IF table[n] = q /\ o # q THEN 1 ELSE 0)
  <2>1. ref[q] \in Int
    BY <1>1
  <2>2. CASE q = o
    <3>1. ref'[q] = 1 /\ ref[q] = 0
      BY <1>3, <1>5, <2>2
    <3> QED BY <1>2, <2>2, <3>1
  <2>3. CASE q # o
    <3>1. ref'[q] = Unreffed(table[n])[q]
      BY <1>3, <1>5, <2>3
    <3> QED BY <1>4, <2>1, <2>3, <3>1
  <2> QED BY <2>2, <2>3
<1>8. Exchanged(table[n], o)
  BY <1>7 DEF Exchanged
<1>9. ASSUME UNCHANGED <<pins, off>> PROVE RefExact'
  BY <1>5, <1>8, <1>9, TableRefs
<1> QED BY <1>6, <1>9

\* vhost_add(): either it fails, or n has what it stands for, if that is a web
\* root, and what it had if not.
LEMMA AddEffect ==
    ASSUME VhostType, RefExact, InUseOpen, NEW n \in Names, VhostAdd(n),
           UNCHANGED pins
    PROVE  /\ TableType' /\ RefExact' /\ Only(n)
           /\ \A o \in Objs : off'[o] >= off[o]
           /\ n \notin failed' =>
                /\ dir[n] \in Versions =>
                      table'[n] # NoObj /\ file'[table'[n]] = dir[n]
                /\ dir[n] \notin Versions => table'[n] = table[n]
<1>1. TableType /\ \A o \in Objs : off[o] \in Int
  BY DEF VhostType, TableType
<1>2. CASE /\ NotARoot(n) /\ failed' = failed \ {n}
           /\ UNCHANGED <<table, ref, file, off>>
  <2>1. TableType' /\ Only(n)
    BY <1>1, <1>2 DEF TableType, Only
  <2>2. RefExact'
    BY <1>2, RefsKept
  <2> QED BY <1>1, <1>2, <2>1, <2>2 DEF NotARoot
<1>3. CASE /\ failed' = failed \cup {n}
           /\ UNCHANGED <<table, ref, file, off>>
  <2>1. TableType' /\ Only(n)
    BY <1>1, <1>3 DEF TableType, Only
  <2>2. RefExact'
    BY <1>3, RefsKept
  <2> QED BY <1>1, <1>3, <2>1, <2>2
<1>4. ASSUME NEW o \in Objs, Opens(n, o), file' = [file EXCEPT ![o] = dir[n]],
             Stored(n, o), failed' = failed \ {n}, UNCHANGED off
      PROVE  /\ TableType' /\ RefExact' /\ Only(n)
             /\ table'[n] = o /\ file'[o] = dir[n] /\ dir[n] \in Versions
  <2>1. ref[o] = 0 /\ dir[n] \in Versions
    BY <1>4 DEF Opens
  <2>2. /\ file' \in [Objs -> Entries] /\ file'[o] = dir[n]
        /\ \A m \in Names : table[m] # NoObj => file'[table[m]] = file[table[m]]
    BY <1>4, OpensFree
  <2>3. /\ ref' \in [Objs -> Int] /\ table' \in [Names -> Objs \cup {NoObj}]
        /\ RefExact'
    BY <1>4, <2>1, StoredRefs
  <2>4. table' = [table EXCEPT ![n] = o]
    BY <1>4 DEF Stored
  <2>5. table'[n] = o /\ \A m \in Names \ {n} : table'[m] = table[m]
    BY <1>1, <2>4 DEF TableType
  <2>6. TableType'
    BY <1>1, <1>4, <2>2, <2>3 DEF TableType
  <2>7. Only(n)
    BY <1>4, <2>2, <2>5 DEF Only
  <2> QED BY <2>1, <2>2, <2>3, <2>5, <2>6, <2>7
<1>5. ASSUME NEW o \in Objs, Opens(n, o), file' = [file EXCEPT ![o] = dir[n]],
             ref' = [ref EXCEPT ![o] = 1], off' = [off EXCEPT ![o] = @ + 1],
             failed' = failed \cup {n}, UNCHANGED table
      PROVE  /\ TableType' /\ RefExact' /\ Only(n) /\ n \in failed'
             /\ \A q \in Objs : off'[q] >= off[q]
  <2>1. ref[o] = 0
    BY <1>5 DEF Opens
  <2>2. /\ file' \in [Objs -> Entries]
        /\ \A m \in Names : table[m] # NoObj => file'[table[m]] = file[table[m]]
    BY <1>5, OpensFree
  <2>3. ref' = [ref EXCEPT ![o] = ref[o] + 1] /\ off' = [off EXCEPT ![o] = off[o] + 1]
    BY <1>5, <2>1
  <2>4. RefExact' /\ ref' \in [Objs -> Int] /\ off' \in [Objs -> Int]
    <3>1. 1 \in Int
      OBVIOUS
    <3>2. UNCHANGED <<table, pins>>
      BY <1>5
    <3> QED BY <2>3, <3>1, <3>2, OffRefs
  <2>5. TableType'
    BY <1>1, <1>5, <2>2, <2>4 DEF TableType
  <2>6. Only(n)
    BY <1>5, <2>2 DEF Only
  <2>7. \A q \in Objs : off'[q] >= off[q]
    BY <1>1, <2>3 DEF TableType
  <2> QED BY <1>5, <2>4, <2>5, <2>6, <2>7
<1>6. (UNCHANGED off) => \A o \in Objs : off'[o] >= off[o]
  BY <1>1
<1> QED BY <1>2, <1>3, <1>4, <1>5, <1>6, ObjAssumption DEF VhostAdd

\* vhost_del(): n is served from nothing, and the others from what they were.
LEMMA DelEffect ==
    ASSUME VhostType, RefExact, NEW n \in Names, VhostDel(n), UNCHANGED pins
    PROVE  TableType' /\ RefExact' /\ Only(n) /\ table'[n] = NoObj
<1>1. TableType /\ table[n] \in Objs \cup {NoObj}
  BY DEF VhostType, TableType
<1>2. \A w \in Objs \cup {NoObj} : Unreffed(w) \in [Objs -> Int]
  BY <1>1 DEF Unreffed, TableType
<1>3. failed' = failed \ {n} /\ UNCHANGED file
  BY DEF VhostDel
<1>4. CASE /\ ref' = Unreffed(table[n]) /\ table' = [table EXCEPT ![n] = NoObj]
           /\ UNCHANGED off
  <2>1. TableType'
    BY <1>1, <1>2, <1>3, <1>4 DEF TableType
  <2>2. Only(n) /\ table'[n] = NoObj
    BY <1>1, <1>3, <1>4 DEF Only, TableType
  <2>3. ASSUME NEW q \in Objs
        PROVE  ref'[q] = ref[q] + (IF NoObj = q /\ table[n] # q THEN 1 ELSE 0)
                                - (IF table[n] = q /\ NoObj # q THEN 1 ELSE 0)
    <3>1. ref[q] \in Int /\ NoObj # q
      BY <1>1, ObjAssumption DEF TableType
    <3>2. ref'[q] = IF table[n] = q THEN ref[q] - 1 ELSE ref[q]
      BY <1>1, <1>4, <3>1 DEF Unreffed, TableType
    <3> QED BY <3>1, <3>2
  <2>4. RefExact'
    <3>1. Exchanged(table[n], NoObj)
      BY <2>3 DEF Exchanged
    <3> QED BY <1>4, <3>1, TableRefs
  <2> QED BY <2>1, <2>2, <2>4
<1>5. CASE table[n] = NoObj /\ StrayUnref /\ UNCHANGED table
  <2>1. TableType' /\ RefExact'
    <3>1. PICK w \in {NoObj} \cup {o \in Objs : ref[o] > 0} :
             /\ ref' = Unreffed(w)
             /\ off' = IF w = NoObj THEN off ELSE [off EXCEPT ![w] = @ - 1]
      BY <1>5 DEF StrayUnref
    <3>2. CASE w = NoObj
      <4>1. ref' = ref /\ off' = off
        BY <3>1, <3>2 DEF Unreffed
      <4> QED BY <1>1, <1>3, <1>5, <4>1, RefsKept DEF TableType
    <3>3. CASE w \in Objs
      <4>1. ref' = [ref EXCEPT ![w] = ref[w] + (-1)]
            /\ off' = [off EXCEPT ![w] = off[w] + (-1)]
        BY <1>1, <3>1, <3>3, ObjAssumption DEF Unreffed, TableType
      <4>2. RefExact' /\ ref' \in [Objs -> Int] /\ off' \in [Objs -> Int]
        <5>1. -1 \in Int
          OBVIOUS
        <5> QED BY <1>5, <3>3, <4>1, <5>1, OffRefs
      <4> QED BY <1>1, <1>3, <1>5, <4>2 DEF TableType
    <3> QED BY <3>2, <3>3
  <2>2. Only(n) /\ table'[n] = NoObj
    BY <1>3, <1>5 DEF Only
  <2> QED BY <2>1, <2>2
<1> QED BY <1>4, <1>5 DEF VhostDel

-----------------------------------------------------------------------------
(* Handling reports. *)

\* The reports that remain when the first of q is taken off.
LEMMA TailLast ==
    ASSUME NEW S, NEW q \in Seq(S), q # <<>>, NEW n
    PROVE  /\ Tail(q) \in Seq(S) /\ q[1] \in S /\ Head(q) = q[1]
           /\ 1 \in 1..Len(q)
           /\ \A i \in 1..Len(Tail(q)) :
                 /\ i + 1 \in 1..Len(q) /\ Tail(q)[i] = q[i + 1]
                 /\ IsLast(Tail(q), i, n) => IsLast(q, i + 1, n)
           /\ (\A i \in 1..Len(Tail(q)) : ~About(Tail(q)[i], n)) =>
                 /\ About(q[1], n) => IsLast(q, 1, n)
                 /\ ~About(q[1], n) => \A i \in 1..Len(q) : ~About(q[i], n)
<1> DEFINE t == Tail(q)
<1>1. Len(q) \in Nat /\ Len(q) >= 1 /\ 1 \in 1..Len(q)
  BY EmptySeq, LenProperties
<1>2. /\ t \in Seq(S) /\ Len(t) = Len(q) - 1
      /\ \A i \in 1..Len(t) : t[i] = q[i + 1]
  BY HeadTailProperties
<1>3. Head(q) = q[1] /\ q[1] \in S
  BY <1>1, ElementOfSeq
<1> HIDE DEF t
<1>4. \A i \in 1..Len(t) : i + 1 \in 1..Len(q) /\ t[i] = q[i + 1]
  BY <1>1, <1>2
<1>5. \A j \in 1..Len(q) : j > 1 => j - 1 \in 1..Len(t) /\ t[j - 1] = q[j]
  <2> SUFFICES ASSUME NEW j \in 1..Len(q), j > 1
               PROVE  j - 1 \in 1..Len(t) /\ t[j - 1] = q[j]
    OBVIOUS
  <2>1. j - 1 \in 1..Len(t) /\ (j - 1) + 1 = j
    BY <1>1, <1>2
  <2> QED BY <1>4, <2>1
<1>6. ASSUME NEW i \in 1..Len(t), IsLast(t, i, n)
      PROVE  IsLast(q, i + 1, n)
  <2>1. i + 1 \in 1..Len(q) /\ About(q[i + 1], n)
    BY <1>4, <1>6 DEF IsLast
  <2>2. ASSUME NEW j \in 1..Len(q), j > i + 1
        PROVE  ~About(q[j], n)
    <3>1. j > 1 /\ j - 1 > i
      BY <1>1, <2>2
    <3>2. j - 1 \in 1..Len(t) /\ t[j - 1] = q[j]
      BY <1>5, <2>2, <3>1
    <3> QED BY <1>6, <3>1, <3>2 DEF IsLast
  <2> QED BY <2>1, <2>2 DEF IsLast
<1>7. ASSUME \A i \in 1..Len(t) : ~About(t[i], n)
      PROVE  \A j \in 1..Len(q) : j > 1 => ~About(q[j], n)
  BY <1>5, <1>7
<1>8. ASSUME \A i \in 1..Len(t) : ~About(t[i], n)
      PROVE  /\ About(q[1], n) => IsLast(q, 1, n)
             /\ ~About(q[1], n) => \A i \in 1..Len(q) : ~About(q[i], n)
  <2>1. \A j \in 1..Len(q) : j > 1 => ~About(q[j], n)
    BY <1>7, <1>8
  <2>2. About(q[1], n) => IsLast(q, 1, n)
    BY <1>1, <2>1 DEF IsLast
  <2>3. ASSUME ~About(q[1], n), NEW i \in 1..Len(q)
        PROVE  ~About(q[i], n)
    <3>1. i = 1 \/ i > 1
      BY <1>1
    <3> QED BY <2>1, <2>3, <3>1
  <2> QED BY <2>2, <2>3
<1> QED BY <1>1, <1>2, <1>3, <1>4, <1>6, <1>8 DEF t

\* What is done for one name does not change what another is served.
LEMMA ServesKept ==
    ASSUME NEW n, NEW m \in Names \ {n}, Only(n), Serves(m), UNCHANGED dir
    PROVE  Serves(m)'
BY DEF Only, Serves

\* dispatch() does for a name what its last report asks.
LEMMA HandledSettles ==
    ASSUME VhostInv, Dispatch,
           NEW m \in Names \ (todo \cup missed)
    PROVE  Settled(m)'
<1> DEFINE ev == queue[1]
<1>1. VhostType /\ RefExact /\ InUseOpen /\ Settled(m)
  BY DEF VhostInv, SettledInv, Dispatch, Running
<1>2. queue \in Seq(Reports \cup {Overflow}) /\ queue # <<>> /\ queue' = Tail(queue)
      /\ UNCHANGED <<dir, pins>>
  BY <1>1 DEF VhostType, Dispatch, adminVars
<1>3. /\ ev \in Reports \cup {Overflow} /\ Head(queue) = ev
      /\ 1 \in 1..Len(queue)
      /\ \A i \in 1..Len(queue') :
            /\ i + 1 \in 1..Len(queue) /\ queue'[i] = queue[i + 1]
            /\ IsLast(queue', i, m) => IsLast(queue, i + 1, m)
      /\ (\A i \in 1..Len(queue') : ~About(queue'[i], m)) =>
            /\ About(ev, m) => IsLast(queue, 1, m)
            /\ ~About(ev, m) => \A i \in 1..Len(queue) : ~About(queue[i], m)
  <2> DEFINE t == Tail(queue)
  <2>1. /\ ev \in Reports \cup {Overflow} /\ Head(queue) = ev
        /\ 1 \in 1..Len(queue)
    BY <1>2, TailLast
  <2>2. \A i \in 1..Len(t) :
           /\ i + 1 \in 1..Len(queue) /\ t[i] = queue[i + 1]
           /\ IsLast(t, i, m) => IsLast(queue, i + 1, m)
    BY <1>2, TailLast
  <2>3. (\A i \in 1..Len(t) : ~About(t[i], m)) =>
           /\ About(ev, m) => IsLast(queue, 1, m)
           /\ ~About(ev, m) => \A i \in 1..Len(queue) : ~About(queue[i], m)
    BY <1>2, TailLast
  <2>4. queue' = t
    BY <1>2
  <2> HIDE DEF t, ev
  <2> QED BY <2>1, <2>2, <2>3, <2>4
<1>4. ASSUME NEW i \in 1..Len(queue'), IsLast(queue', i, m)
      PROVE  Fits(queue'[i], dir'[m])
  BY <1>1, <1>2, <1>3, <1>4 DEF Settled
<1>5. \/ ev = Overflow /\ UNCHANGED tableVars
      \/ ev # Overflow /\ failed' = failed \cup {ev.name} /\ UNCHANGED <<table, file>>
      \/ ev # Overflow /\ ev.isdir = TRUE /\ UNCHANGED tableVars
      \/ ev # Overflow /\ ev.isdir = FALSE /\ ev.mask \in Adds /\ VhostAdd(ev.name)
      \/ ev # Overflow /\ ev.isdir = FALSE /\ ev.mask \in Dels /\ VhostDel(ev.name)
  <2>1. ev # Overflow => ev.isdir \in BOOLEAN
    BY <1>3 DEF Reports
  <2> HIDE DEF ev
  <2> QED BY <1>3, <2>1 DEF Dispatch, Adds, Dels
<1>6. ev # Overflow => ev.name \in Names
  BY <1>3 DEF Reports
<1>7. ASSUME \A i \in 1..Len(queue') : ~About(queue'[i], m), m \notin failed'
      PROVE  Serves(m)'
  <2>1. CASE About(ev, m)
    <3>1. ev # Overflow /\ ev.isdir = FALSE /\ ev.name = m
      BY <2>1 DEF About
    <3>2. Fits(ev, dir[m])
      BY <1>1, <1>3, <1>7, <2>1 DEF Settled
    <3>3. ~(failed' = failed \cup {ev.name})
      BY <1>7, <3>1
    <3>4. CASE ev.mask \in Adds /\ VhostAdd(m)
      <4>1. ~Gone(dir[m])
        BY <3>2, <3>4 DEF Fits, Adds, Dels
      <4>2. dir[m] \in Versions =>
               table'[m] # NoObj /\ file'[table'[m]] = dir[m]
        BY <1>1, <1>2, <1>7, <3>4, AddEffect
      <4> QED BY <1>2, <4>1, <4>2 DEF Serves
    <3>5. CASE ev.mask \in Dels /\ VhostDel(m)
      <4>1. Gone(dir[m])
        BY <3>2, <3>5 DEF Fits, Adds, Dels
      <4>2. table'[m] = NoObj
        BY <1>1, <1>2, <3>5, DelEffect
      <4>3. dir[m] \notin Versions
        BY <4>1, EntryAssumption DEF Gone
      <4> QED BY <1>2, <4>2, <4>3 DEF Serves
    <3> QED BY <1>5, <3>1, <3>3, <3>4, <3>5
  <2>2. CASE ~About(ev, m)
    <3>1. \A i \in 1..Len(queue) : ~About(queue[i], m)
      BY <1>3, <1>7, <2>2
    <3>2. m \notin failed => Serves(m)
      BY <1>1, <3>1 DEF Settled
    <3>3. CASE UNCHANGED tableVars
      BY <1>2, <1>7, <3>2, <3>3 DEF tableVars, Serves
    <3>4. CASE failed' = failed \cup {ev.name} /\ UNCHANGED <<table, file>>
      BY <1>2, <1>7, <3>2, <3>4 DEF Serves
    <3>5. ASSUME ev # Overflow, ev.isdir = FALSE, Only(ev.name)
          PROVE  Serves(m)'
      <4>1. m \in Names \ {ev.name}
        BY <2>2, <3>5 DEF About
      <4>2. m \notin failed
        BY <1>7, <3>5, <4>1 DEF Only
      <4> HIDE DEF ev
      <4> QED BY <1>2, <3>2, <3>5, <4>1, <4>2, ServesKept
    <3>6. CASE ev # Overflow /\ ev.isdir = FALSE /\ VhostAdd(ev.name)
      <4> HIDE DEF ev
      <4>1. Only(ev.name)
        BY <1>1, <1>2, <1>6, <3>6, AddEffect
      <4> QED BY <3>5, <3>6, <4>1
    <3>7. CASE ev # Overflow /\ ev.isdir = FALSE /\ VhostDel(ev.name)
      <4> HIDE DEF ev
      <4>1. Only(ev.name)
        BY <1>1, <1>2, <1>6, <3>7, DelEffect
      <4> QED BY <3>5, <3>7, <4>1
    <3> QED BY <1>5, <3>3, <3>4, <3>6, <3>7
  <2> QED BY <2>1, <2>2
<1> QED BY <1>4, <1>7 DEF Settled

-----------------------------------------------------------------------------
(* Changes to the directory. *)

\* The first k reports have been queued, and at most an overflow after them;
\* the names the others are about have been missed.
Queued(reports, k) ==
    /\ queue' \in Seq(Reports \cup {Overflow})
    /\ \A i \in 1..Len(queue) : i \in 1..Len(queue') /\ queue'[i] = queue[i]
    /\ \A i \in 1..k : /\ Len(queue) + i \in 1..Len(queue')
                       /\ queue'[Len(queue) + i] = reports[i]
    /\ \A i \in 1..Len(queue') : i > Len(queue) + k => queue'[i] = Overflow
    /\ missed' \subseteq Names
    /\ \A x \in Names \ missed' :
          /\ \A i \in 1..Len(reports) : i > k => ~About(reports[i], x)
          /\ x \in missed => \E i \in 1..k : About(reports[i], x)

\* No report of a change is taken for an overflow.
LEMMA NoOverflow == Overflow \notin Reports
<1>1. Overflow.mask = "IN_Q_OVERFLOW"
  BY DEF Overflow
<1>2. \A ev \in Reports : ev.mask \in Adds \cup Dels
  BY DEF Reports
<1> QED BY <1>1, <1>2 DEF Adds, Dels

\* The names of NamesIn() are those the table would be changed for.
LEMMA NamesAbout ==
    ASSUME NEW q \in Seq(Reports)
    PROVE  /\ NamesIn(q) \subseteq Names
           /\ \A x : x \in NamesIn(q) <=> \E i \in 1..Len(q) : About(q[i], x)
<1>1. DOMAIN q = 1..Len(q) /\ \A i \in 1..Len(q) : q[i] \in Reports
  BY LenProperties, ElementOfSeq
<1>2. \A i \in 1..Len(q) : /\ q[i].name \in Names /\ q[i].isdir \in BOOLEAN
                           /\ q[i] # Overflow
  BY <1>1, NoOverflow DEF Reports
<1>3. ToSet(q) = {q[i] : i \in 1..Len(q)}
  BY <1>1 DEF ToSet
<1>4. \A x : x \in NamesIn(q) <=>
                \E i \in 1..Len(q) : ~q[i].isdir /\ q[i].name = x
  BY <1>3 DEF NamesIn
<1>5. ASSUME NEW x
      PROVE  x \in NamesIn(q) <=> \E i \in 1..Len(q) : About(q[i], x)
  <2>1. \A i \in 1..Len(q) : About(q[i], x) <=> ~q[i].isdir /\ q[i].name = x
    BY <1>2 DEF About
  <2> QED BY <1>4, <2>1
<1>6. NamesIn(q) \subseteq Names
  BY <1>2, <1>4
<1> QED BY <1>5, <1>6

\* What the kernel does with reports.
LEMMA Notified ==
    ASSUME VhostType, NEW reports \in Seq(Reports), Notify(reports)
    PROVE  \E k \in 0..Len(reports) : Queued(reports, k)
<1> DEFINE R == Reports \cup {Overflow}
           room == Max({0, MaxQueue - Len(queue)})
           k == Min({room, Len(reports)})
           kept == SubSeq(reports, 1, k)
           dropped == SubSeq(reports, Len(kept) + 1, Len(reports))
           tail == IF dropped = <<>> \/ Overflow \in ToSet(queue)
                   THEN <<>> ELSE <<Overflow>>
<1>1. /\ queue \in Seq(R) /\ Len(queue) \in Nat /\ Len(reports) \in Nat
      /\ MaxQueue \in Nat /\ missed \subseteq Names
  BY ChoiceAssumption, LenProperties DEF VhostType
<1>2. room \in Nat
  <2>1. \A a \in Int : Max({0, a}) \in Nat
    <3> SUFFICES ASSUME NEW a \in Int PROVE Max({0, a}) \in Nat
      OBVIOUS
    <3>1. \E x \in {0, a} : \A y \in {0, a} : x >= y
      OBVIOUS
    <3>2. Max({0, a}) \in {0, a} /\ \A y \in {0, a} : Max({0, a}) >= y
      BY <3>1 DEF Max
    <3> QED BY <3>2
  <2> QED BY <1>1, <2>1
<1> HIDE DEF room
<1>3. k \in 0..Len(reports)
  <2>1. \E x \in {room, Len(reports)} : \A y \in {room, Len(reports)} : x <= y
    BY <1>1, <1>2
  <2>2. /\ k \in {room, Len(reports)}
        /\ \A y \in {room, Len(reports)} : k <= y
    BY <2>1 DEF Min
  <2> QED BY <1>1, <1>2, <2>2
<1> HIDE DEF k
<1>4. \A i \in 1..Len(reports) : reports[i] \in Reports
  BY ElementOfSeq
<1>5. /\ kept \in Seq(Reports) /\ Len(kept) = k
      /\ \A i \in 1..k : kept[i] = reports[i]
  <2>1. k \in Int /\ 1 \in Int /\ \A i \in 1..k : reports[i] \in Reports
    BY <1>1, <1>3, <1>4
  <2>2. /\ SubSeq(reports, 1, k) \in Seq(Reports)
        /\ Len(SubSeq(reports, 1, k)) = IF 1 <= k THEN k - 1 + 1 ELSE 0
        /\ \A i \in 1..(k - 1 + 1) : SubSeq(reports, 1, k)[i] = reports[1 + i - 1]
    BY <2>1, SubSeqProperties
  <2>3. k - 1 + 1 = k /\ \A i \in 1..k : 1 + i - 1 = i
    BY <1>3
  <2> QED BY <1>3, <2>2, <2>3
<1> HIDE DEF kept
<1>6. /\ dropped \in Seq(Reports)
      /\ \A i \in 1..Len(reports) : i > k =>
            i - k \in 1..Len(dropped) /\ dropped[i - k] = reports[i]
  <2> DEFINE a == k + 1
             b == Len(reports)
  <2>1. a \in Int /\ b \in Int /\ \A i \in a..b : reports[i] \in Reports
    BY <1>1, <1>3, <1>4
  <2>2. dropped = SubSeq(reports, a, b)
    BY <1>5
  <2>3. /\ SubSeq(reports, a, b) \in Seq(Reports)
        /\ Len(SubSeq(reports, a, b)) = IF a <= b THEN b - a + 1 ELSE 0
        /\ \A i \in 1..(b - a + 1) : SubSeq(reports, a, b)[i] = reports[a + i - 1]
    <3> HIDE DEF a, b
    <3> QED BY <2>1, SubSeqProperties
  <2>4. ASSUME NEW i \in 1..Len(reports), i > k
        PROVE  /\ a <= b /\ i - k \in 1..(b - a + 1) /\ a + (i - k) - 1 = i
    BY <1>1, <1>3, <2>4
  <2> HIDE DEF a, b, dropped
  <2> QED BY <2>2, <2>3, <2>4
<1> HIDE DEF dropped
<1>7. /\ tail \in Seq(R) /\ Len(tail) \in {0, 1}
      /\ \A i \in 1..Len(tail) : tail[i] = Overflow
  <2>1. CASE tail = <<>>
    <3>1. Len(tail) = 0 /\ tail \in Seq(R)
      BY <2>1, EmptySeq
    <3> QED BY <3>1
  <2>2. CASE tail = <<Overflow>>
    <3>1. Overflow \in R
      OBVIOUS
    <3> HIDE DEF R, tail
    <3>2. Len(tail) = 1 /\ tail[1] = Overflow /\ tail \in Seq(R)
      BY <2>2, <3>1
    <3> QED BY <3>2
  <2> QED BY <2>1, <2>2
<1> HIDE DEF tail
<1>8. queue' = queue \o kept \o tail
  BY DEF Notify, room, k, kept, dropped, tail
<1>9. missed' = (missed \ NamesIn(kept)) \cup NamesIn(dropped)
  BY DEF Notify, room, k, kept, dropped
<1> DEFINE L == Len(queue)
           front == queue \o kept
<1>10. /\ front \in Seq(R) /\ Len(front) = L + k
       /\ \A i \in 1..(L + k) : front[i] = IF i <= L THEN queue[i] ELSE kept[i - L]
  <2>1. kept \in Seq(R)
    BY <1>5, SeqMonotonic
  <2> HIDE DEF R
  <2> QED BY <1>1, <1>5, <2>1, ConcatProperties
<1>11. /\ queue' \in Seq(R) /\ Len(queue') = L + k + Len(tail)
       /\ \A i \in 1..(L + k + Len(tail)) :
             queue'[i] = IF i <= L + k THEN front[i] ELSE tail[i - (L + k)]
  <2> HIDE DEF R, front
  <2>1. queue' = front \o tail
    BY <1>8 DEF front
  <2>2. /\ front \o tail \in Seq(R)
        /\ Len(front \o tail) = Len(front) + Len(tail)
        /\ \A i \in 1..(Len(front) + Len(tail)) : (front \o tail)[i] =
              IF i <= Len(front) THEN front[i] ELSE tail[i - Len(front)]
    BY <1>7, <1>10, ConcatProperties
  <2> HIDE DEF L
  <2> QED BY <1>10, <2>1, <2>2
<1> HIDE DEF front
<1>12. L \in Nat /\ k \in Nat /\ Len(tail) \in Nat
  BY <1>1, <1>3, <1>7
<1> HIDE DEF L
<1>13. ASSUME NEW i \in 1..L
       PROVE  i \in 1..Len(queue') /\ queue'[i] = queue[i]
  <2>1. i \in 1..(L + k) /\ i \in 1..(L + k + Len(tail)) /\ i <= L
    BY <1>12
  <2> QED BY <1>10, <1>11, <1>12, <2>1
<1>14. ASSUME NEW i \in 1..k
       PROVE  L + i \in 1..Len(queue') /\ queue'[L + i] = reports[i]
  <2>1. /\ L + i \in 1..(L + k) /\ L + i \in 1..(L + k + Len(tail))
        /\ ~(L + i <= L) /\ L + i <= L + k /\ (L + i) - L = i
    BY <1>12
  <2>2. queue'[L + i] = front[L + i] /\ front[L + i] = kept[(L + i) - L]
    BY <1>10, <1>11, <2>1
  <2> QED BY <1>5, <1>11, <2>1, <2>2
<1>15. ASSUME NEW i \in 1..Len(queue'), i > L + k
       PROVE  queue'[i] = Overflow
  <2>1. /\ i \in 1..(L + k + Len(tail)) /\ ~(i <= L + k)
        /\ i - (L + k) \in 1..Len(tail)
    BY <1>11, <1>12, <1>15
  <2> QED BY <1>7, <1>11, <2>1
<1>16. missed' \subseteq Names
  BY <1>1, <1>6, <1>9, NamesAbout
<1>17. ASSUME NEW x \in Names \ missed'
       PROVE  /\ \A i \in 1..Len(reports) : i > k => ~About(reports[i], x)
              /\ x \in missed => \E i \in 1..k : About(reports[i], x)
  <2>1. x \notin NamesIn(dropped) /\ (x \in missed => x \in NamesIn(kept))
    BY <1>9, <1>17
  <2>2. \A i \in 1..Len(dropped) : ~About(dropped[i], x)
    BY <1>6, <2>1, NamesAbout
  <2>3. x \in missed => \E i \in 1..Len(kept) : About(kept[i], x)
    BY <1>5, <2>1, NamesAbout
  <2> QED BY <1>5, <1>6, <2>2, <2>3
<1>18. Queued(reports, k)
  BY <1>11, <1>13, <1>14, <1>15, <1>16, <1>17 DEF Queued, L, R
<1> QED BY <1>3, <1>18

\* The reports of a change to d tell of every name whether it stands for a file.
Tells(d, reports) ==
    /\ reports \in Seq(Reports)
    /\ \A i \in 1..Len(reports), x \in Names :
          About(reports[i], x) => Fits(reports[i], d[x])
    /\ \A x \in Names :
          (\A i \in 1..Len(reports) : ~About(reports[i], x)) =>
              d[x] = dir[x] \/ (Gone(d[x]) /\ Gone(dir[x]))

\* A change that is reported leaves every name settled that was not missed.
LEMMA ReportedSettles ==
    ASSUME VhostInv, NEW d, NEW reports, Tells(d, reports), Notify(reports),
           dir' = d, UNCHANGED <<table, file, failed>>,
           NEW x \in Names \ missed', x \notin todo
    PROVE  Settled(x)'
<1>1. VhostType /\ reports \in Seq(Reports)
  BY DEF VhostInv, Tells
<1>2. PICK k \in 0..Len(reports) : Queued(reports, k)
  BY <1>1, Notified
<1> DEFINE L == Len(queue)
<1>3. L \in Nat /\ Len(queue') \in Nat /\ k \in Nat /\ Len(reports) \in Nat
  <2>1. queue \in Seq(Reports \cup {Overflow})
        /\ queue' \in Seq(Reports \cup {Overflow})
    BY <1>1, <1>2 DEF VhostType, Queued
  <2>2. Len(reports) \in Nat
    BY <1>1, LenProperties
  <2> QED BY <1>2, <2>1, <2>2, LenProperties
<1>4. ~About(Overflow, x)
  BY DEF About
<1>5. ASSUME NEW j \in 1..Len(queue'), About(queue'[j], x), j > L
      PROVE  j - L \in 1..k /\ queue'[j] = reports[j - L]
  <2>1. ~(j > L + k)
    BY <1>2, <1>4, <1>5 DEF Queued
  <2>2. j - L \in 1..k /\ L + (j - L) = j
    BY <1>3, <1>5, <2>1
  <2> QED BY <1>2, <2>2 DEF Queued
<1>6. ASSUME NEW i \in 1..k, About(reports[i], x)
      PROVE  Settled(x)'
  <2>1. L + i \in 1..Len(queue') /\ queue'[L + i] = reports[i]
    BY <1>2 DEF Queued
  <2>2. ~(\A j \in 1..Len(queue') : ~About(queue'[j], x))
    BY <1>6, <2>1
  <2>3. ASSUME NEW j \in 1..Len(queue'), IsLast(queue', j, x)
        PROVE  Fits(queue'[j], d[x])
    <3>1. About(queue'[j], x) /\ ~(L + i > j)
      BY <1>6, <2>1, <2>3 DEF IsLast
    <3>2. j > L
      BY <1>3, <3>1
    <3>3. j - L \in 1..k /\ queue'[j] = reports[j - L]
      BY <1>5, <3>1, <3>2
    <3>4. j - L \in 1..Len(reports)
      BY <1>2, <1>3, <3>3
    <3> QED BY <3>1, <3>3, <3>4 DEF Tells
  <2> QED BY <2>2, <2>3 DEF Settled
<1>7. ASSUME \A i \in 1..k : ~About(reports[i], x)
      PROVE  Settled(x)'
  <2>1. /\ x \notin missed
        /\ \A i \in 1..Len(reports) : i > k => ~About(reports[i], x)
    BY <1>2, <1>7 DEF Queued
  <2>2. \A i \in 1..Len(reports) : ~About(reports[i], x)
    <3> SUFFICES ASSUME NEW i \in 1..Len(reports) PROVE ~About(reports[i], x)
      OBVIOUS
    <3>1. i > k \/ i \in 1..k
      BY <1>3
    <3> QED BY <1>7, <2>1, <3>1
  <2>3. d[x] = dir[x] \/ (Gone(d[x]) /\ Gone(dir[x]))
    BY <2>2 DEF Tells
  <2>4. Settled(x)
    BY <2>1 DEF VhostInv, SettledInv
  <2>5. ASSUME NEW j \in 1..Len(queue'), IsLast(queue', j, x)
        PROVE  Fits(queue'[j], d[x])
    <3>1. About(queue'[j], x)
      BY <2>5 DEF IsLast
    <3>2. j \in 1..L
      <4>1. ~(j > L)
        BY <1>5, <1>7, <3>1
      <4> QED BY <1>3, <4>1
    <3>3. /\ queue'[j] = queue[j]
          /\ \A i \in 1..L : i \in 1..Len(queue') /\ queue'[i] = queue[i]
      BY <1>2, <3>2 DEF Queued
    <3>4. IsLast(queue, j, x)
      BY <2>5, <3>1, <3>2, <3>3 DEF IsLast
    <3>5. Fits(queue[j], dir[x])
      BY <2>4, <3>2, <3>4 DEF Settled
    <3> QED BY <2>3, <3>3, <3>5 DEF Fits
  <2>6. ASSUME \A j \in 1..Len(queue') : ~About(queue'[j], x), x \notin failed
        PROVE  Serves(x)'
    <3>1. \A i \in 1..L : i \in 1..Len(queue') /\ queue'[i] = queue[i]
      BY <1>2 DEF Queued
    <3>2. Serves(x)
      BY <2>4, <2>6, <3>1 DEF Settled
    <3>3. Gone(d[x]) => d[x] \notin Versions
      BY EntryAssumption DEF Gone
    <3> QED BY <2>3, <3>2, <3>3 DEF Serves
  <2> QED BY <2>5, <2>6 DEF Settled
<1> QED BY <1>6, <1>7

\* The directory changes, watched or not.
LEMMA ChangeKeeps ==
    ASSUME VhostInv, NEW d \in [Names -> Entries], NEW reports,
           Tells(d, reports), Change(d, reports), copying' \subseteq Names
    PROVE  VhostInv'
<1>1. VhostType /\ PhaseInv /\ RefExact /\ SettledInv
  BY DEF VhostInv
<1>2. /\ dir' = d
      /\ UNCHANGED <<phase, todo, table, ref, file, pins, off, failed>>
  BY DEF Change, tableVars
<1>3. RefExact'
  BY <1>1, <1>2, RefsKept
<1>4. CASE Running /\ Notify(reports)
  <2>1. phase = "run" /\ todo = {}
    BY <1>1, <1>4 DEF Running, VhostType, PhaseInv
  <2>2. PICK k \in 0..Len(reports) : Queued(reports, k)
    BY <1>1, <1>4, Notified DEF Tells
  <2>3. VhostType'
    BY <1>1, <1>2, <2>2 DEF VhostType, Queued
  <2>4. PhaseInv'
    BY <1>2, <2>1 DEF PhaseInv
  <2>5. SettledInv'
    <3> SUFFICES ASSUME NEW x \in Names \ missed' PROVE Settled(x)'
      BY DEF SettledInv
    <3> QED BY <1>2, <1>4, <2>1, ReportedSettles
  <2> QED BY <1>3, <2>3, <2>4, <2>5 DEF VhostInv
<1>5. CASE /\ phase = "scan"
           /\ missed' = missed \cup {n \in Names \ todo : d[n] # dir[n]}
           /\ UNCHANGED queue
  <2>1. VhostType'
    BY <1>1, <1>2, <1>5 DEF VhostType
  <2>2. PhaseInv'
    BY <1>1, <1>2, <1>5 DEF PhaseInv
  <2>3. ASSUME NEW x \in Names \ (todo \cup missed')
        PROVE  Settled(x)'
    <3>1. d[x] = dir[x] /\ x \notin missed
      BY <1>5, <2>3
    <3>2. Settled(x)
      BY <1>1, <2>3, <3>1 DEF SettledInv
    <3> QED BY <1>2, <1>5, <3>1, <3>2 DEF Settled, Serves
  <2>4. SettledInv'
    BY <1>2, <2>3 DEF SettledInv
  <2> QED BY <1>3, <2>1, <2>2, <2>4 DEF VhostInv
<1> QED BY <1>4, <1>5 DEF Change

\* One report tells of a change to one name, when it has the mask for it.
LEMMA OneTells ==
    ASSUME VhostType, NEW n \in Names, NEW e \in Entries, NEW entry \in Entries,
           NEW mask \in Adds \cup Dels, entry # "none",
           IF e = "none" THEN mask \in Dels ELSE mask \in Adds /\ entry = e,
           entry = "dir" => Gone(dir[n])
    PROVE  Tells([dir EXCEPT ![n] = e], <<Report(mask, n, entry)>>)
<1> DEFINE r == Report(mask, n, entry)
           d == [dir EXCEPT ![n] = e]
<1>1. d[n] = e /\ \A x \in Names \ {n} : d[x] = dir[x]
  BY DEF VhostType
<1>2. r \in Reports /\ r.mask = mask /\ r.name = n
      /\ (r.isdir = FALSE <=> entry # "dir")
  BY DEF Report, Reports
<1> HIDE DEF r, d
<1>3. <<r>> \in Seq(Reports) /\ Len(<<r>>) = 1 /\ <<r>>[1] = r
  BY <1>2
<1>4. \A x \in Names : About(r, x) => x = n /\ entry # "dir"
  BY <1>2 DEF About
<1>5. \A x \in Names : About(r, x) => Fits(r, d[x])
  BY <1>1, <1>2, <1>4 DEF Fits, Gone
<1>6. ASSUME NEW x \in Names, ~About(r, x)
      PROVE  d[x] = dir[x] \/ (Gone(d[x]) /\ Gone(dir[x]))
  <2>1. x = n => entry = "dir"
    BY <1>2, <1>6, NoOverflow DEF About
  <2>2. x = n => Gone(d[x]) /\ Gone(dir[x])
    BY <1>1, <2>1 DEF Gone
  <2> QED BY <1>1, <2>2
<1>7. Tells(d, <<r>>)
  BY <1>3, <1>5, <1>6 DEF Tells
<1> QED BY <1>7 DEF d, r

\* A rename is reported as a move from and a move to.
LEMMA RenameTells ==
    ASSUME VhostType, NEW n \in Names, NEW m \in Names, n # m, dir[n] # "none",
           dir[m] = "none" \/ "dir" \notin {dir[n], dir[m]}
    PROVE  Tells([dir EXCEPT ![n] = "none", ![m] = dir[n]],
                 <<Report("IN_MOVED_FROM", n, dir[n]),
                   Report("IN_MOVED_TO", m, dir[n])>>)
<1> DEFINE r == Report("IN_MOVED_FROM", n, dir[n])
           s == Report("IN_MOVED_TO", m, dir[n])
           d == [dir EXCEPT ![n] = "none", ![m] = dir[n]]
<1>1. /\ d[n] = "none" /\ d[m] = dir[n]
      /\ \A x \in Names \ {n, m} : d[x] = dir[x]
  BY DEF VhostType
<1>2. /\ r \in Reports /\ r.mask \in Dels /\ r.name = n
      /\ (r.isdir = FALSE <=> dir[n] # "dir")
  BY DEF Report, Reports, Dels, Adds
<1>3. /\ s \in Reports /\ s.mask \in Adds /\ s.name = m
      /\ (s.isdir = FALSE <=> dir[n] # "dir")
  BY DEF Report, Reports, Dels, Adds
<1> HIDE DEF r, s, d
<1>4. /\ <<r, s>> \in Seq(Reports) /\ Len(<<r, s>>) = 2
      /\ <<r, s>>[1] = r /\ <<r, s>>[2] = s
  BY <1>2, <1>3
<1>5. \A x \in Names : /\ About(r, x) <=> x = n /\ dir[n] # "dir"
                       /\ About(s, x) <=> x = m /\ dir[n] # "dir"
  BY <1>2, <1>3, NoOverflow DEF About
<1>6. \A x \in Names : /\ About(r, x) => Fits(r, d[x])
                       /\ About(s, x) => Fits(s, d[x])
  BY <1>1, <1>2, <1>3, <1>5 DEF Fits, Gone
<1>7. ASSUME NEW x \in Names, ~About(r, x), ~About(s, x)
      PROVE  d[x] = dir[x] \/ (Gone(d[x]) /\ Gone(dir[x]))
  <2>1. CASE x \notin {n, m}
    BY <1>1, <2>1
  <2>2. CASE x \in {n, m}
    <3>1. dir[n] = "dir"
      BY <1>5, <1>7, <2>2
    <3> QED BY <1>1, <2>2, <3>1 DEF Gone
  <2> QED BY <2>1, <2>2
<1>8. \A i \in 1..2 : i = 1 \/ i = 2
  OBVIOUS
<1>9. Tells(d, <<r, s>>)
  <2>1. \A i \in 1..Len(<<r, s>>), x \in Names :
           About(<<r, s>>[i], x) => Fits(<<r, s>>[i], d[x])
    BY <1>4, <1>6, <1>8
  <2>2. ASSUME NEW x \in Names,
               \A i \in 1..Len(<<r, s>>) : ~About(<<r, s>>[i], x)
        PROVE  d[x] = dir[x] \/ (Gone(d[x]) /\ Gone(dir[x]))
    <3>1. 1 \in 1..Len(<<r, s>>) /\ 2 \in 1..Len(<<r, s>>)
      BY <1>4
    <3>2. ~About(r, x) /\ ~About(s, x)
      BY <1>4, <2>2, <3>1
    <3> QED BY <1>7, <3>2
  <2> QED BY <1>4, <2>1, <2>2 DEF Tells
<1> QED BY <1>9 DEF d, r, s

\* Whatever the administrator does.
LEMMA AdminKeeps ==
    ASSUME VhostInv, Admin
    PROVE  VhostInv'
<1>1. /\ VhostType /\ dir \in [Names -> Entries] /\ "none" \in Entries
      /\ copying \subseteq Names
  BY DEF VhostInv, VhostType, Entries
<1>2. "IN_CREATE" \in Adds /\ "IN_MOVED_TO" \in Adds
      /\ \A mask \in {"IN_DELETE", "IN_MOVED_FROM"} : mask \in Dels
  BY DEF Adds, Dels
<1>3. ASSUME NEW n \in Names, NEW e \in Entries, Create(n, e)
      PROVE  VhostInv'
  <2>1. dir[n] = "none" /\ e # "none" /\ Gone(dir[n])
    BY <1>3 DEF Create, Gone
  <2>2. Tells([dir EXCEPT ![n] = e], <<Report("IN_CREATE", n, e)>>)
    BY <1>1, <1>2, <2>1, OneTells
  <2>3. [dir EXCEPT ![n] = e] \in [Names -> Entries]
    BY <1>1
  <2>4. copying' \subseteq Names
    BY <1>1, <1>3 DEF Create
  <2> QED BY <1>3, <2>2, <2>3, <2>4, ChangeKeeps DEF Create
<1>4. ASSUME NEW n \in Names, NEW e \in Entries, MoveIn(n, e)
      PROVE  VhostInv'
  <2>1. e # "none" /\ (e = "dir" => Gone(dir[n]))
    BY <1>4 DEF MoveIn, Gone
  <2>2. Tells([dir EXCEPT ![n] = e], <<Report("IN_MOVED_TO", n, e)>>)
    BY <1>1, <1>2, <2>1, OneTells
  <2>3. [dir EXCEPT ![n] = e] \in [Names -> Entries]
    BY <1>1
  <2>4. copying' \subseteq Names
    BY <1>1, <1>4 DEF MoveIn
  <2> QED BY <1>4, <2>2, <2>3, <2>4, ChangeKeeps DEF MoveIn
<1>5. ASSUME NEW n \in Names, Delete(n)
      PROVE  VhostInv'
  <2>1. PICK mask \in {"IN_DELETE", "IN_MOVED_FROM"} :
           Change([dir EXCEPT ![n] = "none"], <<Report(mask, n, dir[n])>>)
    BY <1>5 DEF Delete
  <2>2. dir[n] # "none" /\ dir[n] \in Entries /\ (dir[n] = "dir" => Gone(dir[n]))
    BY <1>1, <1>5 DEF Delete, Gone
  <2>3. Tells([dir EXCEPT ![n] = "none"], <<Report(mask, n, dir[n])>>)
    BY <1>1, <1>2, <2>2, OneTells
  <2>4. [dir EXCEPT ![n] = "none"] \in [Names -> Entries]
    BY <1>1
  <2>5. copying' \subseteq Names
    BY <1>1, <1>5 DEF Delete
  <2> QED BY <2>1, <2>3, <2>4, <2>5, ChangeKeeps
<1>6. ASSUME NEW n \in Names, NEW m \in Names, Rename(n, m)
      PROVE  VhostInv'
  <2>1. Tells([dir EXCEPT ![n] = "none", ![m] = dir[n]],
              <<Report("IN_MOVED_FROM", n, dir[n]),
                Report("IN_MOVED_TO", m, dir[n])>>)
    BY <1>1, <1>6, RenameTells DEF Rename
  <2>2. [dir EXCEPT ![n] = "none", ![m] = dir[n]] \in [Names -> Entries]
    BY <1>1
  <2>3. copying' \subseteq Names
    BY <1>1, <1>6 DEF Rename
  <2> QED BY <1>6, <2>1, <2>2, <2>3, ChangeKeeps DEF Rename
<1>7. ASSUME NEW n \in Names, CopyDone(n)
      PROVE  VhostInv'
  <2>1. /\ copying' \subseteq Names
        /\ UNCHANGED <<dir, phase, todo, queue, table, ref, file, off, failed,
                       pins, missed>>
    BY <1>1, <1>7 DEF CopyDone, tableVars
  <2>2. VhostType /\ PhaseInv /\ RefExact /\ SettledInv
    BY DEF VhostInv
  <2>3. VhostType' /\ PhaseInv'
    BY <2>1, <2>2 DEF VhostType, PhaseInv
  <2>4. RefExact'
    BY <2>1, <2>2, RefsKept
  <2>5. SettledInv'
    BY <2>1, <2>2 DEF SettledInv, Settled, Serves
  <2> QED BY <2>3, <2>4, <2>5 DEF VhostInv
<1> QED BY <1>3, <1>4, <1>5, <1>6, <1>7 DEF Admin

-----------------------------------------------------------------------------
(* The server's steps. *)

\* dispatch() takes one report off the queue.
LEMMA DispatchKeeps ==
    ASSUME VhostInv, Dispatch
    PROVE  VhostInv'
<1>1. VhostType /\ PhaseInv /\ RefExact /\ InUseOpen /\ phase = "run"
      /\ TableType
  BY DEF VhostInv, Dispatch, Running, VhostType, TableType
<1>2. /\ queue \in Seq(Reports \cup {Overflow}) /\ queue # <<>>
      /\ queue' = Tail(queue)
      /\ UNCHANGED <<dir, phase, todo, pins, copying, missed>>
  BY <1>1 DEF VhostType, Dispatch, adminVars
<1>3. /\ Tail(queue) \in Seq(Reports \cup {Overflow})
      /\ Head(queue) \in Reports \cup {Overflow}
  BY <1>2, TailLast
<1>4. TableType' /\ RefExact'
  <2>1. CASE UNCHANGED tableVars
    <3>1. TableType'
      BY <1>1, <2>1 DEF tableVars, TableType
    <3>2. UNCHANGED <<ref, table, pins, off>>
      BY <1>2, <2>1 DEF tableVars
    <3> QED BY <1>1, <3>1, <3>2, RefsKept
  <2>2. ASSUME NEW n \in Names, failed' = failed \cup {n},
               UNCHANGED <<table, ref, file, off>>
        PROVE  TableType' /\ RefExact'
    <3>1. TableType'
      BY <1>1, <2>2 DEF TableType
    <3> QED BY <1>1, <1>2, <2>2, <3>1, RefsKept
  <2>3. ASSUME NEW n \in Names, VhostAdd(n)
        PROVE  TableType' /\ RefExact'
    BY <1>1, <1>2, <2>3, AddEffect
  <2>4. ASSUME NEW n \in Names, VhostDel(n)
        PROVE  TableType' /\ RefExact'
    BY <1>1, <1>2, <2>4, DelEffect
  <2>5. Head(queue) # Overflow => Head(queue).name \in Names
    BY <1>3 DEF Reports
  <2> QED BY <2>1, <2>2, <2>3, <2>4, <2>5 DEF Dispatch
<1>5. VhostType'
  BY <1>1, <1>2, <1>3, <1>4 DEF VhostType, TableType
<1>6. PhaseInv'
  BY <1>1, <1>2 DEF PhaseInv
<1>7. SettledInv'
  <2> SUFFICES ASSUME NEW m \in Names \ (todo \cup missed)
               PROVE  Settled(m)'
    BY <1>2 DEF SettledInv
  <2> QED BY HandledSettles
<1> QED BY <1>4, <1>5, <1>6, <1>7 DEF VhostInv

\* vhosts_new() comes to a name: from now on the table has what it stands for.
LEMMA ScanKeeps ==
    ASSUME VhostInv, NEW n \in Names, Scan(n)
    PROVE  VhostInv'
<1>1. /\ VhostType /\ RefExact /\ phase = "scan" /\ TableType
      /\ queue = <<>> /\ table[n] = NoObj /\ n \in todo
      /\ \A m \in todo : table[m] = NoObj
      /\ \A o \in Objs : off[o] >= 0
  BY DEF VhostInv, PhaseInv, Scan, VhostType, TableType
<1>2. todo' = todo \ {n} /\ UNCHANGED <<dir, phase, queue, pins, copying, missed>>
  BY DEF Scan, adminVars
<1>3. /\ TableType' /\ RefExact' /\ Only(n)
      /\ \A o \in Objs : off'[o] >= 0
      /\ n \notin failed' => Serves(n)'
  <2>1. CASE dir[n] \in {"none", "dir"} /\ UNCHANGED tableVars
    <3>1. TableType' /\ Only(n) /\ \A o \in Objs : off'[o] >= 0
      BY <1>1, <2>1 DEF tableVars, TableType, Only
    <3>2. RefExact'
      <4>1. UNCHANGED <<ref, table, pins, off>>
        BY <1>2, <2>1 DEF tableVars
      <4> QED BY <1>1, <4>1, RefsKept
    <3>3. dir[n] \notin Versions /\ table'[n] = NoObj
      BY <1>1, <2>1, EntryAssumption DEF tableVars
    <3> QED BY <1>2, <3>1, <3>2, <3>3 DEF Serves
  <2>2. CASE dir[n] \notin {"none", "dir"} /\ VhostAdd(n)
    <3>1. InUseOpen
      BY <1>1, NoStray
    <3>2. /\ TableType' /\ RefExact' /\ Only(n)
          /\ \A o \in Objs : off'[o] >= off[o]
          /\ n \notin failed' => (dir[n] \in Versions =>
                table'[n] # NoObj /\ file'[table'[n]] = dir[n])
      BY <1>1, <1>2, <2>2, <3>1, AddEffect
    <3>3. \A o \in Objs : off'[o] >= 0
      BY <1>1, <3>2 DEF TableType
    <3> QED BY <1>2, <2>2, <3>2, <3>3 DEF Serves, Gone
  <2> QED BY <2>1, <2>2 DEF Scan
<1>4. VhostType'
  BY <1>1, <1>2, <1>3 DEF VhostType, TableType
<1>5. PhaseInv'
  <2>1. \A m \in todo' : table'[m] = NoObj
    BY <1>1, <1>2, <1>3 DEF Only, VhostType
  <2> QED BY <1>1, <1>2, <1>3, <2>1 DEF PhaseInv
<1>6. ASSUME NEW m \in Names \ (todo' \cup missed)
      PROVE  Settled(m)'
  <2>1. Len(queue') = 0
    BY <1>1, <1>2
  <2>2. \A i \in 1..Len(queue') : FALSE
    BY <2>1
  <2>3. CASE m = n
    BY <1>3, <2>2, <2>3 DEF Settled
  <2>4. CASE m # n
    <3>1. Settled(m) /\ m \in Names \ {n}
      BY <1>1, <1>2, <1>6, <2>4 DEF VhostInv, SettledInv
    <3>2. m \notin failed => Serves(m)
      BY <1>1, <1>2, <2>2, <3>1 DEF Settled
    <3>3. m \in failed' <=> m \in failed
      BY <1>3, <3>1 DEF Only
    <3>4. m \notin failed' => Serves(m)'
      BY <1>2, <1>3, <3>1, <3>2, <3>3, ServesKept
    <3> QED BY <2>2, <3>4 DEF Settled
  <2> QED BY <2>3, <2>4
<1>7. SettledInv'
  BY <1>2, <1>6 DEF SettledInv
<1> QED BY <1>3, <1>4, <1>5, <1>7 DEF VhostInv

\* The directory is watched once every name has been seen.
LEMMA WatchKeeps ==
    ASSUME VhostInv, Watch
    PROVE  VhostInv'
<1>1. /\ VhostType /\ PhaseInv /\ RefExact /\ SettledInv
      /\ todo = {} /\ phase' = "run" /\ UNCHANGED tableVars
      /\ UNCHANGED <<dir, todo, queue, pins, copying, missed>>
  BY DEF VhostInv, Watch, adminVars
<1>2. UNCHANGED <<table, ref, file, off, failed>>
  BY <1>1 DEF tableVars
<1>3. VhostType' /\ PhaseInv'
  BY <1>1, <1>2 DEF VhostType, PhaseInv
<1>4. RefExact'
  BY <1>1, <1>2, RefsKept
<1>5. SettledInv'
  BY <1>1, <1>2 DEF SettledInv, Settled, Serves
<1> QED BY <1>3, <1>4, <1>5 DEF VhostInv

\* A connection takes a reference, or gives one back.
LEMMA PinsKeep ==
    ASSUME VhostInv, NEW c \in Conns, NEW w \in Objs \cup {NoObj},
           Running, pins' = [pins EXCEPT ![c] = w],
           ref' \in [Objs -> Int], Exchanged(pins[c], w),
           UNCHANGED <<dir, phase, todo, queue, table, file, copying, off,
                       failed, missed>>
    PROVE  VhostInv'
<1>1. VhostType /\ PhaseInv /\ RefExact /\ SettledInv
  BY DEF VhostInv
<1>2. VhostType'
  BY <1>1 DEF VhostType
<1>3. PhaseInv'
  BY <1>1 DEF PhaseInv
<1>4. RefExact'
  BY <1>1, PinRefs
<1>5. SettledInv'
  BY <1>1 DEF SettledInv, Settled, Serves
<1> QED BY <1>2, <1>3, <1>4, <1>5 DEF VhostInv

\* Pin
LEMMA PinKeeps ==
    ASSUME VhostInv, NEW c \in Conns, NEW n \in Names, Pin(c, n)
    PROVE  VhostInv'
<1> DEFINE w == Lookup(n)
<1>1. /\ Running /\ pins[c] = NoObj /\ w # NoObj
      /\ pins' = [pins EXCEPT ![c] = w] /\ ref' = [ref EXCEPT ![w] = @ + 1]
      /\ UNCHANGED <<dir, phase, todo, queue, table, file, copying, off,
                     failed, missed>>
  BY DEF Pin, adminVars
<1>2. ref \in [Objs -> Int] /\ table \in [Names -> Objs \cup {NoObj}]
  BY DEF VhostInv, VhostType
<1>3. w \in Objs
  BY <1>1, <1>2, NameAssumption DEF Lookup
<1> HIDE DEF w
<1>4. ref' \in [Objs -> Int]
  BY <1>1, <1>2, <1>3
<1>5. ASSUME NEW o \in Objs
      PROVE  ref'[o] = ref[o] + (IF w = o /\ pins[c] # o THEN 1 ELSE 0)
                              - (IF pins[c] = o /\ w # o THEN 1 ELSE 0)
  <2>1. ref[o] \in Int /\ pins[c] # o
    BY <1>1, <1>2, ObjAssumption
  <2>2. ref'[o] = IF w = o THEN ref[o] + 1 ELSE ref[o]
    BY <1>1, <1>2, <1>3
  <2> QED BY <2>1, <2>2
<1>6. Exchanged(pins[c], w)
  BY <1>5 DEF Exchanged
<1> QED BY <1>1, <1>3, <1>4, <1>6, PinsKeep

\* Unpin
LEMMA UnpinKeeps ==
    ASSUME VhostInv, NEW c \in Conns, Unpin(c)
    PROVE  VhostInv'
<1>1. /\ Running /\ pins[c] # NoObj
      /\ pins' = [pins EXCEPT ![c] = NoObj] /\ ref' = Unreffed(pins[c])
      /\ UNCHANGED <<dir, phase, todo, queue, table, file, copying, off,
                     failed, missed>>
  BY DEF Unpin, adminVars
<1>2. ref \in [Objs -> Int] /\ pins[c] \in Objs
  BY <1>1 DEF VhostInv, VhostType
<1>3. ref' = [ref EXCEPT ![pins[c]] = @ - 1]
  BY <1>1 DEF Unreffed
<1>4. ref' \in [Objs -> Int]
  BY <1>2, <1>3
<1>5. ASSUME NEW o \in Objs
      PROVE  ref'[o] = ref[o] + (IF NoObj = o /\ pins[c] # o THEN 1 ELSE 0)
                              - (IF pins[c] = o /\ NoObj # o THEN 1 ELSE 0)
  <2>1. ref[o] \in Int /\ NoObj # o
    BY <1>2, ObjAssumption
  <2>2. ref'[o] = IF pins[c] = o THEN ref[o] - 1 ELSE ref[o]
    BY <1>2, <1>3
  <2> QED BY <2>1, <2>2
<1>6. Exchanged(pins[c], NoObj)
  BY <1>5 DEF Exchanged
<1> QED BY <1>1, <1>4, <1>6, PinsKeep

-----------------------------------------------------------------------------
(* The theorems. *)

\* Before vhosts_new() everything is empty.
LEMMA InitVhostInv == Init => VhostInv
<1> SUFFICES ASSUME Init PROVE VhostInv
  OBVIOUS
<1>1. "none" \in Entries /\ <<>> \in Seq(Reports \cup {Overflow})
  BY EmptySeq DEF Entries
<1>2. VhostType
  <2>1. queue = <<>> /\ queue \in Seq(Reports \cup {Overflow})
    BY <1>1 DEF Init
  <2>2. /\ table \in [Names -> Objs \cup {NoObj}]
        /\ pins \in [Conns -> Objs \cup {NoObj}]
    BY DEF Init
  <2>3. ref \in [Objs -> Int] /\ file \in [Objs -> Entries]
    BY <1>1 DEF Init
  <2> QED BY <2>1, <2>2, <2>3 DEF Init, VhostType
<1>3. PhaseInv
  BY DEF Init, PhaseInv
<1>4. SettledInv
  BY DEF Init, SettledInv
<1>5. RefExact
  <2> SUFFICES ASSUME NEW o \in Objs
               PROVE  ref[o] = Cardinality(Uses(o)) + Cardinality(Pinning(o))
                               + off[o]
    BY DEF RefExact, Uses, Pinning
  <2>1. Uses(o) = {} /\ Pinning(o) = {} /\ off[o] = 0 /\ ref[o] = 0
    BY ObjAssumption DEF Init, Uses, Pinning
  <2> QED BY <2>1, FS_EmptySet
<1> QED BY <1>2, <1>3, <1>4, <1>5 DEF VhostInv

\* Every step of the server and of the administrator.
LEMMA NextVhostInv == VhostInv /\ [Next]_vars => VhostInv'
<1> SUFFICES ASSUME VhostInv, [Next]_vars PROVE VhostInv'
  OBVIOUS
<1>1. CASE Admin
  BY <1>1, AdminKeeps
<1>2. CASE Server
  <2>1. ASSUME NEW n \in Names, Scan(n) PROVE VhostInv'
    BY <2>1, ScanKeeps
  <2>2. ASSUME NEW n \in Names, NEW c \in Conns, Pin(c, n) PROVE VhostInv'
    BY <2>2, PinKeeps
  <2>3. ASSUME NEW c \in Conns, Unpin(c) PROVE VhostInv'
    BY <2>3, UnpinKeeps
  <2> QED BY <1>2, <2>1, <2>2, <2>3, WatchKeeps, DispatchKeeps DEF Server
<1>3. CASE UNCHANGED vars
  <2>1. UNCHANGED <<dir, phase, todo, queue, table, ref, file, pins, copying,
                    off, failed, missed>>
    BY <1>3 DEF vars
  <2>2. VhostType /\ PhaseInv /\ RefExact /\ SettledInv
    BY DEF VhostInv
  <2>3. VhostType' /\ PhaseInv'
    BY <2>1, <2>2 DEF VhostType, PhaseInv
  <2>4. RefExact'
    BY <2>1, <2>2, RefsKept
  <2>5. SettledInv'
    BY <2>1, <2>2 DEF SettledInv, Settled, Serves
  <2> QED BY <2>3, <2>4, <2>5 DEF VhostInv
<1> QED BY <1>1, <1>2, <1>3 DEF Next

\* The types, the phases of start-up, the reference counts and what the queued
\* reports have to say of each name hold whatever the administrator does,
\* whichever calls of vhost_add() fail, and with deletes of names that are not
\* in the table: up to the step in which vhost_del() closes a web root in use.
THEOREM VhostsInductive == Spec => []VhostInv
<1>1. Init => VhostInv
  BY InitVhostInv
<1>2. VhostInv /\ [Next]_vars => VhostInv'
  BY NextVhostInv
<1> QED BY <1>1, <1>2, PTL DEF Spec

\* webroot_ref() and webroot_unref() are balanced but for two calls: the one
\* vhost_add() forgets when cb_insert() is out of memory, and the one
\* vhost_del() makes for a name that is not in the table.  off counts those, and
\* each count is that of the users and off.
THEOREM RefsAreExact == Spec => []RefExact
<1>1. VhostInv => RefExact
  BY DEF VhostInv
<1> QED BY <1>1, VhostsInductive, PTL

\* Once dispatch() has handled every report, each name whose last change was
\* reported and acted on (its file, if it was being copied, was complete enough
\* by then) is served from the file it stands for, in whatever order changes and
\* reports came, unless vhost_del() has closed a web root in use.
THEOREM TableConverges == Spec => []Converged
<1>1. VhostInv => Converged
  <2> SUFFICES ASSUME VhostInv, Running, queue = <<>>,
                      NEW n \in Names \ (missed \cup failed)
               PROVE  Serves(n)
    BY DEF Converged, Serves, Gone
  <2>1. todo = {}
    BY DEF VhostInv, VhostType, PhaseInv, Running
  <2>2. Settled(n)
    BY <2>1 DEF VhostInv, SettledInv
  <2>3. \A i \in 1..Len(queue) : FALSE
    OBVIOUS
  <2> QED BY <2>2, <2>3 DEF Settled
<1> QED BY <1>1, VhostsInductive, PTL

=============================================================================
