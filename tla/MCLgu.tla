-------------------------------- MODULE MCLgu --------------------------------
(* Instances of Lgu for TLC.                                                *)
EXTENDS Lgu

Symmetry == Permutations(Node) \cup Permutations(ListHead)
=============================================================================
