-------------------------------- MODULE Trie --------------------------------
(***************************************************************************)
(* The index of a web root.  mkroot sorts the URIs, builds a radix trie of  *)
(* them and writes its edges in breadth-first order (mkroot.c, trie.c);     *)
(* httpd maps that array and looks a request's URI up in it by a binary     *)
(* search of each node's edges (webroot.c); fsckroot lists it (fsck.c).     *)
(* The operators here are those algorithms; Mkroot calls them.              *)
(*                                                                         *)
(* Characters are positive numbers.  Indices of the array written to disk   *)
(* start from 0, as in the code; TLA+ sequences from 1.                     *)
(***************************************************************************)
EXTENDS Integers, Sequences, SequencesExt, FiniteSetsExt

CONSTANTS
    RE_EDGE_MAX, \* bytes an edge can hold (8)
    MaxFanout,   \* 0x100 in node_to_disk(): characters, the NUL included
    LongUri      \* 0x100 in do_radix()

ASSUME EdgeAssumption == {RE_EDGE_MAX, MaxFanout, LongUri} \subseteq Nat \ {0}

NoOid == -1        \* GIDX_INVALID_OID

-----------------------------------------------------------------------------
(* webroot_prep(): what the trie is built from. *)

\* strcmp(a, b) < 0
StrLess(a, b) ==
    LET diff == {i \in 1..Len(a) : i > Len(b) \/ a[i] # b[i]}
    IN  IF diff = {} THEN Len(a) < Len(b)
        ELSE Min(diff) <= Len(b) /\ a[Min(diff)] < b[Min(diff)]

\* Mutant: shorter URIs come first, the comparison that is disabled in ucmp().
SortUrisByLength(uris) ==
    SortSeq(uris, LAMBDA a, b : Len(a.uri) < Len(b.uri)
                                \/ (Len(a.uri) = Len(b.uri) /\ StrLess(a.uri, b.uri)))

\* sort_uris(): uris is the list of [uri, obj] that webroot_link() made.
SortUris(uris) == SortSeq(uris, LAMBDA a, b : StrLess(a.uri, b.uri))

-----------------------------------------------------------------------------
(* trie.c *)

CommonPrefix(a, b, ofs) ==
    LET same == {n \in 0..(Min({Len(a), Len(b)}) - ofs) :
                    \A i \in 1..n : a[ofs + i] = b[ofs + i]}
    IN  Min({RE_EDGE_MAX, Max(same \cup {0})})

\* The entries from v on that share an edge with v at ofs: the last of them.
SharedUpTo(ent, v, end, ofs) ==
    IF Len(ent[v].str) - ofs >= LongUri
    THEN v
    ELSE Max({v} \cup {t \in v..(end - 1) : \A u \in v..t :
                          CommonPrefix(ent[v].str, ent[u].str, ofs) > 0})

\* How much of v's string the edge takes.
EdgeLen(ent, v, last, ofs) ==
    LET rest == Len(ent[v].str) - ofs
    IN  IF rest >= LongUri THEN rest
        ELSE Min({rest} \cup {CommonPrefix(ent[v].str, ent[t].str, ofs) : t \in v..last})

\* do_radix(): the edges of the entries v .. end - 1 below a prefix of ofs bytes.
\* An edge is known by the place of its bytes, v and ofs.
RECURSIVE DoRadix(_, _, _, _)
DoRadix(ent, v, end, ofs) ==
    IF v >= end THEN <<>>
    ELSE LET last == SharedUpTo(ent, v, end, ofs)
             len  == EdgeLen(ent, v, last, ofs)
             terminal == ofs + len = Len(ent[v].str)
             first == IF terminal THEN v + 1 ELSE v
         IN  <<[v |-> v, ofs |-> ofs,
                cmp |-> SubSeq(ent[v].str, ofs + 1, ofs + len),
                oid |-> IF terminal THEN ent[v].oid ELSE NoOid,
                edges |-> DoRadix(ent, first, last + 1, ofs + len)]>>
             \o DoRadix(ent, last + 1, end, ofs)

\* construct_radix(): the root stands for the empty prefix.
Radix(ent) ==
    [v |-> 0, ofs |-> 0, cmp |-> <<>>, oid |-> NoOid,
     edges |-> DoRadix(ent, 1, Len(ent) + 1, 0)]

\* do_layout_bfs(): a level of the trie and those below it.
RECURSIVE Layout(_)
Layout(cur) ==
    IF cur = <<>> THEN <<>>
    ELSE cur \o Layout(FlattenSeq([i \in DOMAIN cur |-> cur[i].edges]))

\* e_bfs_idx
BfsIdx(bfs, e) ==
    (CHOOSE i \in DOMAIN bfs : bfs[i].v = e.v /\ bfs[i].ofs = e.ofs) - 1

\* node_to_disk(), and the index trie_write_trie() gives it.
NodeToDisk(bfs, e) ==
    [oid |-> e.oid, str |-> e.cmp, num |-> Len(e.edges),
     idx |-> IF e.edges = <<>> THEN 0 ELSE BfsIdx(bfs, Head(e.edges))]

\* The array of trie_dedge that trie_write_trie() writes.
WriteTrie(ent) ==
    LET bfs == Layout(<<Radix(ent)>>)
    IN  [i \in DOMAIN bfs |-> NodeToDisk(bfs, bfs[i])]

-----------------------------------------------------------------------------
(* webroot.c *)

\* memcmp() of the bytes of a request from ofs on with those of an edge.  The
\* request ends in a NUL, which no edge holds.
Memcmp(str, edge) ==
    LET diff == {i \in 1..Len(edge) : i > Len(str) \/ str[i] # edge[i]}
    IN  IF diff = {} THEN 0
        ELSE IF Min(diff) > Len(str) \/ str[Min(diff)] < edge[Min(diff)] THEN -1 ELSE 1

\* trie_query() among the num edges at index re.
RECURSIVE TrieQuery(_, _, _, _)
TrieQuery(trie, re, num, str) ==
    IF num = 0 THEN NoOid
    ELSE LET i == num \div 2
             e == trie[re + i + 1]
             cmp == Memcmp(str, e.str)
             suff == SubSeq(str, Len(e.str) + 1, Len(str))
         IN  CASE cmp < 0 -> TrieQuery(trie, re, i, str)
               [] cmp > 0 -> TrieQuery(trie, re + i + 1, num - (i + 1), str)
               [] OTHER -> IF suff = <<>> THEN e.oid
                           ELSE TrieQuery(trie, e.idx, e.num, suff)

-----------------------------------------------------------------------------
(* fsck.c *)

\* Mutant: a URI that is the prefix of others hides them.
RECURSIVE DoDeetsLeaves(_, _, _, _)
DoDeetsLeaves(trie, re, num, prefix) ==
    UNION {LET e == trie[i]
               uri == prefix \o e.str
           IN  IF e.oid = NoOid THEN DoDeetsLeaves(trie, e.idx, e.num, uri)
               ELSE {[uri |-> uri, oid |-> e.oid]}
           : i \in (re + 1)..(re + num)}

\* do_deets(): the URIs that end at one of the num edges at index re, below a
\* prefix, with their object numbers.
RECURSIVE DoDeets(_, _, _, _)
DoDeets(trie, re, num, prefix) ==
    UNION {LET e == trie[i]
               uri == prefix \o e.str
           IN  DoDeets(trie, e.idx, e.num, uri)
               \cup (IF e.oid = NoOid THEN {} ELSE {[uri |-> uri, oid |-> e.oid]})
           : i \in (re + 1)..(re + num)}

\* do_dump(): the length of the longest URI.
RECURSIVE DoDump(_, _, _)
DoDump(trie, re, num) ==
    Max({0} \cup {DoDump(trie, trie[i].idx, trie[i].num) + Len(trie[i].str)
                    : i \in (re + 1)..(re + num)})

=============================================================================
