--------------------------- MODULE SingleInstance ---------------------------
(***************************************************************************)
(* How instances of the program start and end (main.c) around the lock file *)
(* of fio_lock.c: options and message level, keep_single, the switch to the *)
(* background, the init table, and the atexit handler that gives the lock   *)
(* back.  Instances start at any time, any number of times, and can be      *)
(* killed at every step.                                                    *)
(*                                                                         *)
(* External: a flock(2) lock belongs to an open file description, which     *)
(* fork shares; the kernel drops the lock on LOCK_UN through any descriptor *)
(* and when the last one is closed.  A description is named by the process  *)
(* that opened it.  daemon(3) ends the parent with _exit, past atexit.      *)
(***************************************************************************)
EXTENDS Naturals, Sequences

CONSTANTS
  Pid,        \* processes
  None,       \* no process: a lock nobody holds, process_lock_fd = -1
  Args        \* command lines: sequences of the options b, q and v

ASSUME PidAssumption == None \notin Pid
ASSUME ArgsAssumption == Args \subseteq Seq({"b", "q", "v"})

VARIABLES
  pc,
  process_lock_fd,   \* per process: the open file description it locked
  flock,             \* the description that has the lock, or None
  stdmsg_lv

procVars == <<pc, process_lock_fd, flock, stdmsg_lv>>

STDMSG_LV_NONE == 0
STDMSG_LV_DFL == 2
STDMSG_LV_MAX == 5

\* Past keep_single and not yet on the way out: the places that must be alone.
Busy == {"daemon", "child", "init", "work", "hold"}

ProcTypeOK ==
  /\ pc \in [Pid -> Busy \cup {"none", "parent", "atexit"}]
  /\ process_lock_fd \in [Pid -> Pid \cup {None}]
  /\ flock \in Pid \cup {None}
  /\ stdmsg_lv \in [Pid -> STDMSG_LV_NONE .. STDMSG_LV_MAX]

ProcInit ==
  /\ pc = [p \in Pid |-> "none"]
  /\ process_lock_fd = [p \in Pid |-> None]
  /\ flock = None
  /\ stdmsg_lv = [p \in Pid |-> STDMSG_LV_DFL]

Step(p, from, to) ==
  /\ pc[p] = from /\ pc' = [pc EXCEPT ![p] = to]
  /\ UNCHANGED <<process_lock_fd, flock>>

\* The process ends with its memory and descriptors; lock is who would have the
\* lock, which is free when no descriptor of that description is left.
Die(p, lock) ==
  /\ pc' = [pc EXCEPT ![p] = "none"]
  /\ process_lock_fd' = [process_lock_fd EXCEPT ![p] = None]
  /\ flock' = IF \E r \in Pid : process_lock_fd'[r] = lock THEN lock ELSE None
  /\ stdmsg_lv' = [stdmsg_lv EXCEPT ![p] = STDMSG_LV_DFL]

-----------------------------------------------------------------------------
(* fio_lock.c                                                               *)

\* open and flock(LOCK_EX), with or without LOCK_NB.
TakeLock(p) ==
  /\ flock = None
  /\ flock' = p
  /\ process_lock_fd' = [process_lock_fd EXCEPT ![p] = p]

\* Another program with the same library and file: fio_lock blocks until it has
\* the lock, fio_unlock gives it back.
fio_lock(p) ==
  /\ pc[p] = "none" /\ pc' = [pc EXCEPT ![p] = "hold"]
  /\ TakeLock(p)
  /\ UNCHANGED stdmsg_lv

\* LOCK_UN, whoever shares the description, and close.
Unlock(p) == Die(p, IF flock = process_lock_fd[p] THEN None ELSE flock)

fio_unlock(p) == pc[p] = "hold" /\ Unlock(p)

-----------------------------------------------------------------------------
(* main                                                                     *)

\* Mutant: the level is not kept on its scale.
stdmsg_lv_step_NoBound(lv, o) ==
  CASE o = "v" -> lv + 1 [] o = "q" /\ lv > STDMSG_LV_NONE -> lv - 1 [] OTHER -> lv

\* stdmsg_lv_inc and stdmsg_lv_dec stop at the ends of the scale.
stdmsg_lv_step(lv, o) ==
  CASE o = "v" /\ lv < STDMSG_LV_MAX  -> lv + 1
    [] o = "q" /\ lv > STDMSG_LV_NONE -> lv - 1
    [] OTHER -> lv

\* The options, one after the other.
argparse(args) ==
  LET level[n \in 0 .. Len(args)] ==
        IF n = 0 THEN STDMSG_LV_DFL ELSE stdmsg_lv_step(level[n - 1], args[n])
  IN  [background |-> \E i \in 1 .. Len(args) : args[i] = "b", level |-> level[Len(args)]]

\* Mutant: the lock is taken when it is free, and main goes on either way.
keep_single_Unchecked(p, args) ==
  LET opt == argparse(args)
  IN  /\ pc[p] = "none"
      /\ TakeLock(p) \/ (flock # None /\ UNCHANGED <<flock, process_lock_fd>>)
      /\ pc' = [pc EXCEPT ![p] = IF opt.background THEN "daemon" ELSE "init"]
      /\ stdmsg_lv' = [stdmsg_lv EXCEPT ![p] = opt.level]

\* argparse, trylock_process and atexit(unlock_process).  Without valid options,
\* or without the lock, the process ends and nothing has happened.
keep_single(p, args) ==
  LET opt == argparse(args)
  IN  /\ pc[p] = "none"
      /\ TakeLock(p)
      /\ pc' = [pc EXCEPT ![p] = IF opt.background THEN "daemon" ELSE "init"]
      /\ stdmsg_lv' = [stdmsg_lv EXCEPT ![p] = opt.level]

\* setsid and daemon's fork.  The child c goes on with the same description.
daemon_fork(p, c) ==
  /\ pc[p] = "daemon" /\ pc[c] = "none"
  /\ pc' = [pc EXCEPT ![p] = "parent", ![c] = "child"]
  /\ process_lock_fd' = [process_lock_fd EXCEPT ![c] = process_lock_fd[p]]
  /\ stdmsg_lv' = [stdmsg_lv EXCEPT ![c] = stdmsg_lv[p]]
  /\ UNCHANGED flock

\* The parent of the fork leaves with _exit.
daemon_parent(p) == pc[p] = "parent" /\ Die(p, flock)

\* The child: /dev/null on its standard streams, and no more messages.
daemon_child(p) ==
  /\ Step(p, "child", "init")
  /\ stdmsg_lv' = [stdmsg_lv EXCEPT ![p] = STDMSG_LV_NONE]

\* initops_exec_init succeeds; between its steps nothing here changes.
main_init(p) == Step(p, "init", "work") /\ UNCHANGED stdmsg_lv

\* main returns: at its end, or because setsid, daemon or initops_exec_init failed.
main_return(p) ==
  /\ \E place \in {"daemon", "child", "init", "work"} : Step(p, place, "atexit")
  /\ UNCHANGED stdmsg_lv

\* unlock_process, and the end of the process.
unlock_process(p) == pc[p] = "atexit" /\ Unlock(p)

\* A signal, or abort() out of a BUG_ON.
killed(p) == pc[p] # "none" /\ Die(p, flock)

\* What starts or stays outside the work of main.
Process(p) ==
  \/ fio_lock(p) \/ fio_unlock(p)
  \/ (\E args \in Args : keep_single(p, args))
  \/ (\E c \in Pid : daemon_fork(p, c))
  \/ daemon_parent(p) \/ daemon_child(p) \/ main_init(p)

-----------------------------------------------------------------------------
(* Properties.                                                              *)

\* "Avoid multiple instance." (main.c:428): at most one process is past
\* keep_single and at work, also while daemon() has two processes share the lock
\* and whichever of them ends first; fio_lock callers are excluded as well.
AtMostOneInstance ==
  \A p, r \in Pid : pc[p] \in Busy /\ pc[r] \in Busy => p = r
=============================================================================
