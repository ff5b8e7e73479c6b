------------------------------- MODULE MCMmu --------------------------------
(* Table frames are interchangeable, and so are processes: nothing computes *)
(* with the number of either.                                               *)
EXTENDS Mmu, TLC

Symmetry == Permutations(Pool) \cup Permutations(Procs)
=============================================================================
