--------------------------------- MODULE Lgu ---------------------------------
(***************************************************************************)
(* The utility library lgu/: lists, hash lists, file reading and hex dumps. *)
(* They share no state, so a behaviour is a use of one of them.             *)
(***************************************************************************)
EXTENDS List, FioEasyRw, HexDump

VARIABLE part

lguVars == <<part, listVars, fioVars, dumpVars>>

LguInit ==
  /\ part \in {"list", "hlist", "fio", "dump"}
  /\ ListInit /\ FioInit /\ DumpInit

LguNext ==
  \/ part = "list" /\ ListNext /\ UNCHANGED <<part, fioVars, dumpVars>>
  \/ part = "hlist" /\ HlistChange /\ UNCHANGED <<part, fioVars, dumpVars>>
  \/ part = "fio" /\ FioNext /\ UNCHANGED <<part, listVars, dumpVars>>
  \/ part = "dump" /\ DumpNext /\ UNCHANGED <<part, listVars, fioVars>>

LguSpec == LguInit /\ [][LguNext]_lguVars
=============================================================================
