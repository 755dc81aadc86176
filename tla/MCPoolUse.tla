------------------------------ MODULE MCPoolUse ------------------------------
(***************************************************************************)
(* A small pool for TLC: four threads that may want eight entries of a     *)
(* pool that starts with two and stops growing at six.                     *)
(***************************************************************************)
EXTENDS PoolUse, TLC

CONSTANTS t1, t2, t3, t4

Symmetry == Permutations(Threads)
=============================================================================
