------------------------------ MODULE Template ------------------------------
(***************************************************************************)
(* The whole program: processes that start, take the lock, run the          *)
(* benchmark and end (SingleInstance), and the memory and threads of the    *)
(* one at work (Benchmark).  The benchmark's variables belong to the        *)
(* process that is past keep_single, of which there is one at a time; they  *)
(* start over when it has given up the lock or has died.                    *)
(***************************************************************************)
EXTENDS SingleInstance, Benchmark

vars == <<procVars, benchVars>>

TemplateTypeOK == ProcTypeOK /\ BenchTypeOK

Init == ProcInit /\ BenchInit

\* The memory of the process goes: the next one starts from initial values.
NewMemory ==
  /\ at' = "pool" /\ test' = 1
  /\ heap' = {} /\ free' = {} /\ walk' = {}
  /\ wpc' = "off" /\ job' = NULL
  /\ queued' = {} /\ running' = {}
  /\ cbs' = [h \in Helper |-> {}] /\ batch' = [h \in Helper |-> {}]
  /\ hpc' = [h \in Helper |-> "off"] /\ stop' = {}
  /\ cnt_start' = 0 /\ cnt_finish' = 0
  /\ late' = 0 /\ lateExit' = {}

\* A process has the benchmark's memory from the end of its init to its unlock.
HasMemory(p) == pc[p] \in {"work", "atexit"}

\* Threads of the process at work run; the call_rcu threads also while it leaves.
Work(A) == (\E p \in Pid : pc[p] = "work") /\ A /\ UNCHANGED procVars
Leave(A) == (\E p \in Pid : HasMemory(p)) /\ A /\ UNCHANGED procVars

\* main returns after mempool_exit, or early; it never calls initops_exec_exit.
main(p) == main_return(p) /\ (pc[p] = "work" => at = "over") /\ UNCHANGED benchVars

End(p) ==
  \/ unlock_process(p) /\ NewMemory
  \/ killed(p) /\ IF HasMemory(p) THEN NewMemory ELSE UNCHANGED benchVars

Next ==
  \/ \E p \in Pid : Process(p) /\ UNCHANGED benchVars
  \/ \E p \in Pid : main(p) \/ End(p)
  \/ Work(MainThread) \/ Work(TimeOver) \/ Work(Writer) \/ Work(WorkerThread)
  \/ \E h \in Helper : Leave(RcuThread(h))

Spec == Init /\ [][Next]_vars
=============================================================================
