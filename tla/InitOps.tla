------------------------------- MODULE InitOps -------------------------------
(***************************************************************************)
(* The init/exit table of initops.c.  DEFINE_INITOPS puts one entry per     *)
(* subsystem into a linker section; initops_exec_init walks the section     *)
(* once per order number, lowest first, and takes back what it did when an  *)
(* init function fails; initops_exec_exit walks it from the highest order   *)
(* down.  The entries, their link order and the outcomes of the init        *)
(* functions are arbitrary, so a run covers every table of its size.        *)
(***************************************************************************)
EXTENDS Integers, Sequences

CONSTANTS
  N,          \* entries in section_initops
  OrderMax    \* INITOPS_ORDER_MAX; INITOPS_ORDER_FIRST is 0

ASSUME NAssumption == N \in Nat \ {0}
ASSUME OrderMaxAssumption == OrderMax \in Nat \ {0}

Entry == 1 .. N
OrderFirst == 0
Order == OrderFirst .. OrderMax

\* struct initops: init is the set of outcomes the init function can have (no
\* outcome: the pointer is NULL), exit says whether there is an exit function.
Initops == [order : Order, init : {{}, {"ok"}, {"ok", "fail"}}, exit : BOOLEAN]

\* initops.c itself defines an entry; it calls sync() and cannot fail.
Dummy == [order |-> OrderMax, init |-> {"ok"}, exit |-> TRUE]

VARIABLES
  table,        \* section_initops, as linked
  pc, order, iter,
  up,           \* entries whose init function returned 0 (history)
  bad,          \* the entry whose init function failed, or 0 (history)
  ends          \* the entries whose exit function was called, in order (history)

vars == <<table, pc, order, iter, up, bad, ends>>

Pc == {"start", "init", "undo", "unwind", "failed", "ready", "exit", "over"}

TypeOK ==
  /\ table \in [Entry -> Initops]
  /\ pc \in Pc
  /\ order \in -1 .. OrderMax
  /\ iter \in 1 .. N + 1
  /\ up \subseteq Entry
  /\ bad \in 0 .. N
  /\ ends \in Seq(Entry)

Init ==
  /\ table \in [Entry -> Initops]
  /\ \E d \in Entry : table[d] = Dummy
  /\ pc = "start" /\ order = 0 /\ iter = 1
  /\ up = {} /\ bad = 0 /\ ends = <<>>

-----------------------------------------------------------------------------
\* The entry the loop looks at has the order of the pass and an init function.
InitHere == iter <= N /\ table[iter].order = order /\ table[iter].init # {}

\* Mutant: the exit function is called whatever the order of the entry.
ExitHere_AnyOrder == table[iter].exit

ExitHere == table[iter].order = order /\ table[iter].exit

CallExit == ends' = IF ExitHere THEN Append(ends, iter) ELSE ends

\* The next pass of a loop over the orders begins at the start of the section.
Pass(to, o) == pc' = to /\ order' = o /\ iter' = 1

\* initops_exec_init is called (main does so once).
exec_init ==
  /\ pc = "start"
  /\ Pass("init", OrderFirst)
  /\ UNCHANGED <<table, up, bad, ends>>

\* initops_exec_init_by_order: not an entry of this pass.
init_skip ==
  /\ pc = "init" /\ iter <= N /\ ~InitHere
  /\ iter' = iter + 1
  /\ UNCHANGED <<table, pc, order, up, bad, ends>>

init_ok ==
  /\ pc = "init" /\ InitHere
  /\ "ok" \in table[iter].init
  /\ up' = up \cup {iter}
  /\ iter' = iter + 1
  /\ UNCHANGED <<table, pc, order, bad, ends>>

\* Mutant: the unwinding starts with the order that has just been undone.
Unwind_SameOrder == Pass("unwind", order)

\* initops_exec_init's fallback: the orders below the one that failed.
Unwind == Pass("unwind", order - 1)

\* Mutant: the failure is taken for a success of the pass.
init_fail_Ignored ==
  /\ pc = "init" /\ InitHere
  /\ "fail" \in table[iter].init
  /\ bad' = iter
  /\ iter' = iter + 1
  /\ UNCHANGED <<table, pc, order, up, ends>>

\* The init function returns less than 0.
init_fail ==
  /\ pc = "init" /\ InitHere
  /\ "fail" \in table[iter].init
  /\ bad' = iter
  /\ IF iter = 1
     THEN Unwind
     ELSE pc' = "undo" /\ UNCHANGED <<order, iter>>
  /\ UNCHANGED <<table, up, ends>>

\* The pass is over; so is initops_exec_init after the last one.
init_pass ==
  /\ pc = "init" /\ iter = N + 1
  /\ IF order < OrderMax THEN Pass("init", order + 1) ELSE Pass("ready", order)
  /\ UNCHANGED <<table, up, bad, ends>>

\* Mutant: the loop also steps off the start of the section.
undo_step_PastStart ==
  /\ pc = "undo" /\ iter >= 1
  /\ CallExit
  /\ iter' = iter - 1
  /\ UNCHANGED <<table, pc, order, up, bad>>

\* Mutant: the loop only moves on from entries it has taken down.
undo_step_Stuck ==
  /\ pc = "undo" /\ iter > 1
  /\ CallExit
  /\ iter' = IF ExitHere THEN iter - 1 ELSE iter
  /\ UNCHANGED <<table, pc, order, up, bad>>

\* The fallback of initops_exec_init_by_order: from the entry that failed back,
\* as long as iter > &__start_section_initops.
undo_step ==
  /\ pc = "undo" /\ iter > 1
  /\ CallExit
  /\ iter' = iter - 1
  /\ UNCHANGED <<table, pc, order, up, bad>>

undo_end ==
  /\ pc = "undo" /\ iter = 1
  /\ Unwind
  /\ UNCHANGED <<table, up, bad, ends>>

-----------------------------------------------------------------------------
\* One iteration of initops_exec_exit_by_order in a loop over the orders.
exit_step(at) ==
  /\ pc = at /\ order >= 0 /\ iter <= N
  /\ CallExit
  /\ iter' = iter + 1
  /\ UNCHANGED <<table, pc, order, up, bad>>

\* Mutant: the loop stops one order early.
exit_pass_StopsEarly(at, last, end) ==
  /\ pc = at
  /\ \/ order > last /\ iter = N + 1 /\ Pass(at, order - 1)
     \/ order <= last /\ Pass(end, order)
  /\ UNCHANGED <<table, up, bad, ends>>

\* The loop over the orders goes down to last, and ends.
exit_pass(at, last, end) ==
  /\ pc = at
  /\ \/ order >= last /\ iter = N + 1 /\ Pass(at, order - 1)
     \/ order < last /\ Pass(end, order)
  /\ UNCHANGED <<table, up, bad, ends>>

\* Unwinding stops above INITOPS_ORDER_FIRST ("Skip first!").
unwind ==
  \/ order > OrderFirst /\ exit_step("unwind")
  \/ exit_pass("unwind", OrderFirst + 1, "failed")

\* initops_exec_exit is called, by a program that initialised successfully.
exec_exit ==
  /\ pc = "ready"
  /\ Pass("exit", OrderMax)
  /\ UNCHANGED <<table, up, bad, ends>>

exit_all ==
  \/ exit_step("exit")
  \/ exit_pass("exit", OrderFirst, "over")

Walking ==
  \/ init_skip \/ init_ok \/ init_fail \/ init_pass
  \/ undo_step \/ undo_end \/ unwind \/ exit_all

Terminated == pc \in {"failed", "over"} /\ UNCHANGED vars

Next == exec_init \/ exec_exit \/ Walking \/ Terminated

Spec == Init /\ [][Next]_vars

\* The init and exit functions return, so the loops keep going.
FairSpec == Spec /\ WF_vars(Walking)
-----------------------------------------------------------------------------
(* Properties.                                                              *)

Ended == {ends[k] : k \in 1 .. Len(ends)}

\* Entries before i in the order initops_exec_init calls them in.
Precedes(j, i) ==
  \/ table[j].order < table[i].order
  \/ table[j].order = table[i].order /\ j < i

\* An init function runs on top of everything that comes before it: all entries
\* of a smaller order, and earlier ones of its own order, are up and nothing has
\* been taken down (initops_exec_init, initops_exec_init_by_order).
InitOnTopOfEarlier ==
  pc = "init" /\ InitHere =>
    /\ \A j \in Entry : Precedes(j, iter) /\ table[j].init # {} => j \in up
    /\ ends = <<>>

\* No exit function is called twice, by a failed initialisation that undoes the
\* failing order and then the ones below it, or by initops_exec_exit.
ExitAtMostOnce ==
  \A k, l \in 1 .. Len(ends) : ends[k] = ends[l] => k = l

\* The subsystems go down from higher to lower orders.
TeardownDescends ==
  \A k, l \in 1 .. Len(ends) :
    k < l => table[ends[k]].order >= table[ends[l]].order

\* The exit function of an entry whose init function was never called is not
\* called either (the passes above the failing one were never begun).
ExitFollowsInit ==
  \A i \in Ended : table[i].init # {} => i \in up \/ i = bad

\* A failed initialisation takes down every order below the failing one, but for
\* INITOPS_ORDER_FIRST; a successful one followed by initops_exec_exit, all.
LowerOrdersGoDown ==
  /\ pc = "failed" =>
       \A i \in Entry :
         table[i].exit /\ table[i].order \in 1 .. table[bad].order - 1 => i \in Ended
  /\ pc = "over" => \A i \in Entry : table[i].exit => i \in Ended

\* initops_exec_init and initops_exec_exit return: the loops that count the
\* order down end at INITOPS_ORDER_FIRST, which is 0 (order is a signed int).
ExecReturns ==
  pc \in {"init", "undo", "unwind", "exit"} ~> pc \in {"failed", "ready", "over"}

\* "Oops. Try to remind successful init." (initops.c:106): what was initialised
\* above INITOPS_ORDER_FIRST is taken down again when a later entry fails.
RollbackCoversSuccessful ==
  pc = "failed" =>
    \A i \in up : table[i].exit /\ table[i].order > OrderFirst => i \in Ended
=============================================================================
