------------------------------ MODULE MCCritBit -----------------------------
(* Instances of CritBit for TLC. *)
EXTENDS CritBit

\* Prefixes of one another, and bytes that differ in the first, the last or
\* several bits: ASCII names, and names of which a byte has its sign bit set,
\* which the tree can hold beside one another but not beside the others.
Names == {<<33>>, <<97>>, <<97, 97>>, <<97, 99>>, <<225>>, <<225, 33>>}

\* Room for all of them: four leaves and three nodes.
Blocks == 1..7
=============================================================================
