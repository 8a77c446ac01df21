------------------------------ MODULE MCMkroot ------------------------------
(* Instances of Mkroot for TLC. *)
EXTENDS Mkroot

NoByte == [item |-> [t |-> "zero"], k |-> 0]
Byte(n) == [item |-> [t |-> "byte", c |-> n], k |-> 1]

\* Characters: 1 is the dot, 2 the slash, which sorts between it and letters.
IndexHtml == <<3>>
DefaultHtml == <<4, 4>>
MCPages == <<IndexHtml, DefaultHtml>>
MCMime == <<<<5>>, <<6, 6>>>>
MCHtml == <<5>>
MCGarbage == {<<>>, <<3>>}
MCContents == {<<>>, <<Byte(1), Byte(2), Byte(3)>>}

File(i) == [kind |-> "file", ino |-> i]
Link(to, i) == [kind |-> "link", to |-> to, ino |-> i]
Dir(i) == [kind |-> "dir", ino |-> i]
Fifo == [kind |-> "fifo", ino |-> 0]

\* Entries of a directory, by name.
Flat(names, kinds, max) ==
    UNION {[S -> kinds] : S \in {S \in SUBSET names : Cardinality(S) <= max}}

\* A top directory with the entries top; that of the name at, if it is there,
\* is a directory with the entries sub.
Tree(top, at, sub) ==
    LET below == IF at \in DOMAIN top THEN DOMAIN sub ELSE {}
    IN  [p \in {<<>>} \cup {<<n>> : n \in DOMAIN top} \cup {<<at, n>> : n \in below} |->
            CASE p = <<>> -> Dir(10)
              [] p = <<at>> -> Dir(11)
              [] Len(p) = 2 -> sub[p[2]]
              [] OTHER -> top[p[1]]]

\* Up to two entries in the top directory and one below: hard links, URIs that
\* are prefixes of each other.
Small ==
    {Tree(top, <<4>>, sub)
        : top \in Flat({IndexHtml, <<4>>, <<4, 4, 3>>}, {File(1), File(2)}, 2),
          sub \in Flat({DefaultHtml}, {File(1)}, 1)}

\* A link, to an inode that may be an index page's too, and one more entry.
Links ==
    {Tree(n :> Link(<<2, 3>>, 1) @@ <<4, 4, 3>> :> e, <<>>, <<>>)
        : n \in {IndexHtml, <<4>>}, e \in {File(1), Link(<<4>>, 1)}}

\* More entries, hidden ones, one that is neither file nor link, a dangling
\* link, a URI that do_radix() takes for long, an absolute link further down.
Selected ==
    {Tree(IndexHtml :> Link(<<4>>, 0) @@ <<4>> :> Dir(11) @@ <<4, 4, 3>> :> File(2), <<4>>,
          DefaultHtml :> Link(<<3>>, 1)),
     Tree(<<1, 4>> :> File(1) @@ <<3, 3>> :> Fifo @@ DefaultHtml :> File(2), <<4>>, <<>>),
     Tree(<<4, 4, 3, 3, 3, 3>> :> File(1) @@ <<4, 3>> :> File(2), <<4>>, <<>>),
     Tree(<<4>> :> Dir(11), <<4>>, <<3, 3>> :> Link(<<2, 3>>, 1))}

MCTrees == Small \cup Links \cup Selected
=============================================================================
