------------------------------ MODULE MCTbCache -----------------------------
(* Small instances of TbCache.                                             *)
EXTENDS TbCache, TLC

Symmetry == Permutations(Thread) \cup Permutations(TB)
=============================================================================
