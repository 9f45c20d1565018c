------------------------------ MODULE MCMempool ------------------------------
(* Instances of Mempool for TLC.                                            *)
EXTENDS Mempool, TLC

\* Threads and addresses are interchangeable.
Symmetry == Permutations(Thread) \cup Permutations(Slice)
=============================================================================
