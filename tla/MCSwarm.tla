------------------------------ MODULE MCSwarm -------------------------------
(* A torrent with a few peers for TLC.                                     *)
EXTENDS Swarm, TLC
CONSTANTS w1, w2, w3, a, b, c
Symmetry == Permutations(Workers) \cup Permutations(Peers)
=============================================================================
