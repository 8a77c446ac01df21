------------------------------ MODULE MCVhosts ------------------------------
(* Instances of Vhosts for TLC. *)
EXTENDS Vhosts, TLC

\* Web roots, and the files they come from, are interchangeable.
Symmetry == {p @@ q : p \in Permutations(Objs), q \in Permutations(Versions)}
=============================================================================
