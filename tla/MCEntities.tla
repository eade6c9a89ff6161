------------------------------ MODULE MCEntities ------------------------------
(* Instances of Entities, and of the Coordinator it composes, for TLC. *)
EXTENDS Entities, TLC

Symmetry == Permutations(Values)

\* The wall clock may be set back or forward by one tick at a time.
Steps == {-1, 1}
===============================================================================
