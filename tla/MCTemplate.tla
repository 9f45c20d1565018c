----------------------------- MODULE MCTemplate -----------------------------
(* Instances of Template for TLC.                                           *)
EXTENDS Template, TLC

\* Command lines that reach both ends of the message level.
MCArgs == {<<"v", "v", "v", "v">>, <<"q", "b", "q", "q">>}

Symmetry == Permutations(Pid) \cup Permutations(Slice) \cup Permutations(Cpu)
=============================================================================
