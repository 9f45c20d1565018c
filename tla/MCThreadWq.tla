----------------------------- MODULE MCThreadWq -----------------------------
(* Instances of ThreadWq for TLC.                                           *)
EXTENDS ThreadWq, TLC

\* Jobs and producers are interchangeable; the queues are not (the main thread
\* walks the table in order).
Symmetry == Permutations(Job) \cup Permutations(Producer)
=============================================================================
