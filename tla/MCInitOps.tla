------------------------------ MODULE MCInitOps ------------------------------
(* Instances of InitOps for TLC: every table of N entries.                  *)
EXTENDS InitOps
=============================================================================
