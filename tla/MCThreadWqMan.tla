---------------------------- MODULE MCThreadWqMan ----------------------------
(* Instances of ThreadWqMan for TLC.                                        *)
EXTENDS ThreadWqMan, TLC

Symmetry == Permutations(Job) \cup Permutations(Producer)
=============================================================================
