------------------------------ MODULE MCServer ------------------------------
(***************************************************************************)
(* Small servers for TLC.  A run lists the clients and threads it has.     *)
(***************************************************************************)
EXTENDS Server, TLC

CONSTANTS c1, c2, c3, main, r1, r2, w1, w2, none

Symmetry == Permutations(Clients) \cup Permutations(Reqs)
              \cup Permutations(Workers)
=============================================================================
