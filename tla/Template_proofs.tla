--------------------------- MODULE Template_proofs ---------------------------
(***************************************************************************)
(* Proofs about Template, for every number of processes, slices, processors *)
(* and workers: one instance at a time whoever dies when, and no slice lost *)
(* or in two places between the pool, the threads and call_rcu.             *)
(***************************************************************************)
EXTENDS Template, NatFacts, FiniteSetTheorems, TLAPS

(* The processes.                                                            *)

\* The processes past keep_single that still have to give the lock back.
Inside == Busy \cup {"atexit"}

\* Such a process has the lock through its own descriptor, and is the only one;
\* the processes that run are the ones with a descriptor.
LockInv ==
  /\ \A p \in Pid : pc[p] \in Inside => flock # None /\ process_lock_fd[p] = flock
  /\ \A p, r \in Pid : pc[p] \in Inside /\ pc[r] \in Inside => p = r
  /\ \A p \in Pid : pc[p] # "none" <=> process_lock_fd[p] # None

\* ProcTypeOK: the lock, and the message levels.
ProcTypes ==
  /\ pc \in [Pid -> Busy \cup {"none", "parent", "atexit"}]
  /\ process_lock_fd \in [Pid -> Pid \cup {None}]
  /\ flock \in Pid \cup {None}

ProcInv == ProcTypes /\ LockInv

Level == STDMSG_LV_NONE .. STDMSG_LV_MAX
LevelInv == stdmsg_lv \in [Pid -> Level]

(* The benchmark of the process at work.                                     *)

EarlyPlace == {"pool", "test1", "clock"}

\* Which thread can be where while main is where it is.
PhaseInv ==
  /\ test = 1 <=> at \in EarlyPlace
  /\ at = "join" <=> wpc # "off"
  /\ job # NULL <=> wpc = "add"
  /\ at \notin {"join", "exit"} => queued = {} /\ running = {}
  /\ at # "recycle" => walk = {}

\* A call_rcu thread that does not run has no callbacks, and one that waits for
\* new ones has none in its batch; none is asked to stop while there are workers.
RcuInv ==
  /\ \A h \in Helper : hpc[h] = "off" => cbs[h] = {}
  /\ \A h \in Helper : hpc[h] \in {"off", "top", "stopped"} => batch[h] = {}
  /\ at \in {"join", "exit"} =>
       stop = {} /\ \A h \in Cpu : hpc[h] \in {"top", "batch", "count"}
  /\ at \notin {"join", "exit", "freeall"} => \A h \in Cpu : hpc[h] = "off"

\* SliceAtOnePlace, slice by slice.
PlaceInv ==
  /\ \A s \in free : s # job /\ s \notin queued /\ s \notin running
  /\ \A s \in free, h \in Helper : s \notin cbs[h] /\ s \notin batch[h]
  /\ job \notin queued /\ job \notin running
  /\ \A h \in Helper : job \notin cbs[h] /\ job \notin batch[h]
  /\ \A s \in queued : s \notin running
  /\ \A s \in queued \cup running, h \in Helper : s \notin cbs[h] /\ s \notin batch[h]
  /\ \A h \in Helper : \A s \in cbs[h] : s \notin batch[h]
  /\ \A g, h \in Helper : g # h =>
       \A s \in cbs[g] \cup batch[g] : s \notin cbs[h] /\ s \notin batch[h]

\* Every slice from malloc is somewhere; once mempool_exit has begun it is still to
\* be walked over or it was with a call_rcu thread then.
AccountInv ==
  /\ at \notin {"recycle", "over"} =>
       \A s \in heap :
         \/ s \in free \/ s = job \/ s \in queued \/ s \in running
         \/ \E h \in Helper : s \in cbs[h] \/ s \in batch[h]
  /\ at \in {"recycle", "over"} => \A s \in heap : s \in walk \/ s \in lateExit

BenchInv ==
  BenchTypeOK /\ PhaseInv /\ RcuInv /\ PlaceInv /\ AccountInv /\ CountersBalance

IInv == ProcInv /\ LevelInv /\ BenchInv

-----------------------------------------------------------------------------
(* The processes.                                                            *)

\* What a process does to the others when it ends: the lock of a process inside
\* stays, if the one that ends does not unlock it.
LEMMA DieKeeps ==
  ASSUME ProcInv, NEW p \in Pid, NEW lock, Die(p, lock), pc[p] # "none",
         lock = flock \/ (lock = None /\ pc[p] \in Inside)
  PROVE  ProcInv'
<1> USE PidAssumption DEF ProcInv, ProcTypes, Die
<1>1. /\ \A r \in Pid : pc'[r] = IF r = p THEN "none" ELSE pc[r]
      /\ \A r \in Pid : process_lock_fd'[r] = IF r = p THEN None ELSE process_lock_fd[r]
  OBVIOUS
<1>2. ProcTypes'
  BY DEF LockInv
<1>3. ASSUME NEW r \in Pid, r # p, pc[r] \in Inside
      PROVE  flock' = flock
  <2>1. lock = flock /\ process_lock_fd'[r] = flock
    BY <1>1, <1>3 DEF LockInv
  <2> QED
    BY <2>1
<1>4. LockInv'
  <2>1. \A r \in Pid : pc'[r] \in Inside => r # p /\ pc[r] \in Inside
    BY <1>1 DEF Inside, Busy
  <2>2. \A r \in Pid : pc'[r] # "none" <=> process_lock_fd'[r] # None
    BY <1>1 DEF LockInv
  <2> QED
    BY <1>1, <1>3, <2>1, <2>2 DEF LockInv
<1> QED
  BY <1>2, <1>4

\* Nobody is inside while the lock is free, so whoever takes it is alone.
LEMMA TakeLockAlone ==
  ASSUME ProcInv, NEW p \in Pid, pc[p] = "none", TakeLock(p), NEW to \in Busy,
         pc' = [pc EXCEPT ![p] = to]
  PROVE  ProcInv'
<1> USE PidAssumption DEF ProcInv, ProcTypes, TakeLock
<1>1. \A r \in Pid : pc[r] \notin Inside
  BY DEF LockInv
<1>2. /\ \A r \in Pid : pc'[r] = IF r = p THEN to ELSE pc[r]
      /\ \A r \in Pid : process_lock_fd'[r] = IF r = p THEN p ELSE process_lock_fd[r]
      /\ flock' = p /\ to # "none"
  BY DEF Busy
<1>3. LockInv'
  BY <1>1, <1>2 DEF LockInv
<1> QED
  BY <1>3

\* A process goes on without touching the lock.
LEMMA StepKeeps ==
  ASSUME ProcInv, NEW p \in Pid, NEW from \in Busy,
         NEW to \in Busy \cup {"atexit"}, Step(p, from, to)
  PROVE  ProcInv'
<1> USE DEF ProcInv, ProcTypes, Step
<1>1. \A r \in Pid : pc'[r] = IF r = p THEN to ELSE pc[r]
  OBVIOUS
<1>2. to # "none" /\ pc[p] # "none" /\ pc[p] \in Inside /\ to \in Inside
  BY DEF Inside, Busy
<1>3. LockInv'
  BY <1>1, <1>2 DEF LockInv
<1> QED
  BY <1>3

\* Every step keeps the lock with the one process inside.
LEMMA ProcStep ==
  ASSUME ProcInv, Next
  PROVE  ProcInv'
<1>1. CASE UNCHANGED procVars
  BY <1>1 DEF procVars, ProcInv, ProcTypes, LockInv
<1>2. ASSUME NEW p \in Pid, Process(p) PROVE ProcInv'
  <2>1. CASE fio_lock(p)
    BY <2>1, TakeLockAlone DEF fio_lock, Busy
  <2>2. CASE fio_unlock(p)
    <3>1. pc[p] \in Inside /\ process_lock_fd[p] = flock /\ pc[p] # "none"
      BY <2>2 DEF fio_unlock, ProcInv, LockInv, Inside, Busy
    <3> QED
      BY <2>2, <3>1, DieKeeps DEF fio_unlock, Unlock
  <2>3. ASSUME NEW args \in Args, keep_single(p, args) PROVE ProcInv'
    <3>1. PICK to \in Busy : pc' = [pc EXCEPT ![p] = to]
      BY <2>3 DEF keep_single, Busy
    <3> QED
      BY <2>3, <3>1, TakeLockAlone DEF keep_single
  <2>4. ASSUME NEW c \in Pid, daemon_fork(p, c) PROVE ProcInv'
    <3> USE DEF ProcInv, ProcTypes
    <3>1. /\ \A r \in Pid : pc'[r] = IF r = c THEN "child" ELSE IF r = p THEN "parent" ELSE pc[r]
          /\ \A r \in Pid : process_lock_fd'[r] =
               IF r = c THEN process_lock_fd[p] ELSE process_lock_fd[r]
          /\ flock' = flock /\ c # p /\ pc[p] \in Inside /\ pc[c] = "none"
      BY <2>4 DEF daemon_fork, Inside, Busy
    <3>2. LockInv'
      BY <3>1 DEF LockInv, Inside, Busy
    <3>3. ProcTypes'
      BY <2>4 DEF daemon_fork, Busy
    <3> QED
      BY <3>2, <3>3
  <2>5. CASE daemon_parent(p)
    BY <2>5, DieKeeps DEF daemon_parent
  <2>6. CASE daemon_child(p) \/ main_init(p)
    BY <2>6, StepKeeps DEF daemon_child, main_init, Busy
  <2> QED
    BY <1>2, <2>1, <2>2, <2>3, <2>4, <2>5, <2>6 DEF Process
<1>3. ASSUME NEW p \in Pid, main(p) PROVE ProcInv'
  BY <1>3, StepKeeps DEF main, main_return, Busy
<1>4. ASSUME NEW p \in Pid, End(p) PROVE ProcInv'
  <2>1. CASE unlock_process(p)
    <3>1. pc[p] \in Inside /\ process_lock_fd[p] = flock /\ pc[p] # "none"
      BY <2>1 DEF unlock_process, ProcInv, LockInv, Inside, Busy
    <3> QED
      BY <2>1, <3>1, DieKeeps DEF unlock_process, Unlock
  <2>2. CASE killed(p)
    BY <2>2, DieKeeps DEF killed
  <2> QED
    BY <1>4, <2>1, <2>2 DEF End
<1> QED
  BY <1>1, <1>2, <1>3, <1>4 DEF Next, Work, Leave

\* Both ends of the scale stop the level.
LEMMA StepStaysOnScale ==
  ASSUME NEW lv \in Level, NEW o
  PROVE  stdmsg_lv_step(lv, o) \in Level
BY DEF Level, stdmsg_lv_step, STDMSG_LV_NONE, STDMSG_LV_MAX

\* The recursion over the command line defines a function, by induction on its length.
LEMMA LevelExists ==
  ASSUME NEW args
  PROVE  \A m \in Nat : \E f : f = [n \in 0 .. m |->
           IF n = 0 THEN STDMSG_LV_DFL ELSE stdmsg_lv_step(f[n - 1], args[n])]
<1> DEFINE Def(f, m) == f = [n \in 0 .. m |->
             IF n = 0 THEN STDMSG_LV_DFL ELSE stdmsg_lv_step(f[n - 1], args[n])]
<1> DEFINE S == {m \in Nat : \E f : Def(f, m)}
<1>1. 0 \in S
  <2> DEFINE f == [n \in 0 .. 0 |-> STDMSG_LV_DFL]
  <2>1. Def(f, 0)
    OBVIOUS
  <2> HIDE DEF Def, f
  <2> QED
    BY <2>1
<1>2. ASSUME NEW m \in Nat, m \in S PROVE m + 1 \in S
  <2>1. PICK f : Def(f, m)
    BY <1>2
  <2> DEFINE g == [n \in 0 .. m + 1 |->
                    IF n =< m THEN f[n] ELSE stdmsg_lv_step(f[m], args[m + 1])]
  <2>2. ASSUME NEW n \in 0 .. m + 1
        PROVE  g[n] = IF n = 0 THEN STDMSG_LV_DFL ELSE stdmsg_lv_step(g[n - 1], args[n])
    <3>1. CASE n =< m
      <4>1. n # 0 => n - 1 \in 0 .. m + 1 /\ n - 1 =< m
        BY <3>1
      <4>2. f[n] = IF n = 0 THEN STDMSG_LV_DFL ELSE stdmsg_lv_step(f[n - 1], args[n])
        BY <2>1, <3>1
      <4> QED
        BY <3>1, <4>1, <4>2
    <3>2. CASE n = m + 1
      BY <3>2
    <3> QED
      BY <3>1, <3>2
  <2>3. Def(g, m + 1)
    BY <2>2
  <2> HIDE DEF Def, g
  <2> QED
    BY <2>3
<1> HIDE DEF Def, S
<1>3. \A m \in Nat : m \in S
  BY <1>1, <1>2, SetInduction
<1> QED
  BY <1>3 DEF Def, S

\* Whatever the command line, argparse leaves the level on its scale.
LEMMA ArgparseLevel ==
  ASSUME NEW args \in Args
  PROVE  argparse(args).level \in Level
<1> DEFINE Is(f) == f = [n \in 0 .. Len(args) |->
             IF n = 0 THEN STDMSG_LV_DFL ELSE stdmsg_lv_step(f[n - 1], args[n])]
<1> DEFINE level == CHOOSE f : Is(f)
<1>1. Len(args) \in Nat
  BY ArgsAssumption
<1>2. Is(level)
  <2>1. \E f : Is(f)
    BY <1>1, LevelExists
  <2> HIDE DEF Is
  <2> QED
    BY <2>1
<1>3. argparse(args).level = level[Len(args)]
  BY DEF argparse
<1> HIDE DEF level
<1> DEFINE S == {n \in Nat : n =< Len(args) => level[n] \in Level}
<1>4. 0 \in S
  BY <1>1, <1>2 DEF Level, STDMSG_LV_NONE, STDMSG_LV_MAX, STDMSG_LV_DFL
<1>5. ASSUME NEW n \in Nat, n \in S PROVE n + 1 \in S
  <2>1. SUFFICES ASSUME n + 1 =< Len(args) PROVE level[n + 1] \in Level
    OBVIOUS
  <2>2. level[n + 1] = stdmsg_lv_step(level[n], args[n + 1])
    BY <1>1, <1>2, <2>1
  <2> QED
    BY <1>1, <1>5, <2>1, <2>2, StepStaysOnScale
<1>6. Len(args) \in S
  <2> HIDE DEF S
  <2> QED
    BY <1>1, <1>4, <1>5, SetInduction
<1> QED
  BY <1>1, <1>3, <1>6

\* Every step keeps the levels on their scale.
LEMMA LevelStep ==
  ASSUME LevelInv, [Next]_vars
  PROVE  LevelInv'
<1> USE DEF LevelInv
<1>1. STDMSG_LV_DFL \in Level /\ STDMSG_LV_NONE \in Level
  BY DEF Level, STDMSG_LV_DFL, STDMSG_LV_NONE, STDMSG_LV_MAX
<1>2. CASE UNCHANGED procVars
  BY <1>2 DEF procVars
<1>3. ASSUME NEW p \in Pid, Process(p) PROVE LevelInv'
  <2>1. ASSUME NEW args \in Args, keep_single(p, args) PROVE LevelInv'
    BY <2>1, ArgparseLevel DEF keep_single
  <2>2. ASSUME NEW c \in Pid, daemon_fork(p, c) PROVE LevelInv'
    BY <2>2 DEF daemon_fork
  <2> QED
    BY <1>1, <1>3, <2>1, <2>2 DEF Process, fio_lock, fio_unlock, Unlock, Die, daemon_parent,
       daemon_child, main_init
<1>4. ASSUME NEW p \in Pid, main(p) \/ End(p) PROVE LevelInv'
  BY <1>1, <1>4 DEF main, main_return, End, unlock_process, killed, Unlock, Die
<1> QED
  BY <1>2, <1>3, <1>4 DEF Next, Work, Leave, vars, procVars

-----------------------------------------------------------------------------
(* The benchmark.                                                            *)

\* What the steps of the call_rcu threads do to the callbacks, thread by thread.
LEMMA SpliceEffect ==
  ASSUME BenchTypeOK, NEW h \in Helper, rcu_splice(h)
  PROVE  /\ cbs' \in [Helper -> SUBSET heap] /\ batch' \in [Helper -> SUBSET heap]
         /\ \A g \in Helper : cbs'[g] = IF g = h THEN {} ELSE cbs[g]
         /\ \A g \in Helper : batch'[g] = IF g = h THEN cbs[h] ELSE batch[g]
         /\ \A g \in Helper : hpc'[g] = IF g = h THEN "batch" ELSE hpc[g]
BY DEF BenchTypeOK, rcu_splice

LEMMA DataFreeEffect ==
  ASSUME BenchTypeOK, NEW h \in Cpu, rcu_data_free(h)
  PROVE  /\ cbs' \in [Helper -> SUBSET heap]
         /\ \A g \in Helper : cbs'[g] = IF g = h THEN {}
                           ELSE IF g = "default" THEN cbs[g] \cup cbs[h] ELSE cbs[g]
         /\ "default" \in Helper /\ h \in Helper /\ h # "default"
BY CpuAssumption DEF BenchTypeOK, rcu_data_free, Helper

LEMMA CallRcuEffect ==
  ASSUME BenchTypeOK, NEW s \in Slice, NEW h \in Cpu, worker_call_rcu(s, h)
  PROVE  /\ cbs' \in [Helper -> SUBSET heap]
         /\ \A g \in Helper : cbs'[g] = IF g = h THEN cbs[g] \cup {s} ELSE cbs[g]
         /\ h \in Helper
BY DEF BenchTypeOK, worker_call_rcu, Helper

LEMMA FinishFreeEffect ==
  ASSUME BenchTypeOK, NEW h \in Helper, NEW s \in Slice, cb_finish_free(h, s)
  PROVE  /\ batch' \in [Helper -> SUBSET heap]
         /\ \A g \in Helper : batch'[g] = IF g = h THEN batch[g] \ {s} ELSE batch[g]
         /\ \A g \in Helper : hpc'[g] = IF g = h THEN "count" ELSE hpc[g]
         /\ free' \subseteq free \cup {s} /\ free \subseteq free'
BY DEF BenchTypeOK, cb_finish_free

\* Every step keeps main and the other threads in step.
LEMMA PhaseStep ==
  ASSUME BenchTypeOK, PhaseInv, BenchNext
  PROVE  PhaseInv'
<1> USE SliceAssumption DEF BenchTypeOK, PhaseInv, EarlyPlace,
  mainVars, poolVars, writerVars, queueVars, rcuVars, cntVars, Goto
<1>1. CASE mempool_init_mp
  BY <1>1 DEF mempool_init_mp
<1>2. CASE test_threadwq_one
  BY <1>2 DEF test_threadwq_one
<1>3. CASE test_threadwq_again
  BY <1>3 DEF test_threadwq_again
<1>4. CASE test_threadwq_end
  BY <1>4 DEF test_threadwq_end
<1>5. CASE test_begin
  BY <1>5 DEF test_begin
<1>6. CASE test_create
  BY <1>6 DEF test_create
<1>7. CASE test_join
  BY <1>7 DEF test_join
<1>8. CASE test_exit
  BY <1>8 DEF test_exit
<1>9. CASE free_all_done
  BY <1>9 DEF free_all_done
<1>10. CASE test_report
  BY <1>10 DEF test_report
<1>11. CASE mempool_exit_begin
  BY <1>11 DEF mempool_exit_begin
<1>12. CASE mempool_exit_end
  BY <1>12 DEF mempool_exit_end
<1>13. CASE writer_alloc
  BY <1>13 DEF writer_alloc
<1>14. CASE writer_add
  BY <1>14 DEF writer_add
<1>15. CASE writer_timeout
  BY <1>15 DEF writer_timeout, AllocFails
<1>16. CASE writer_again
  BY <1>16 DEF writer_again
<1>17. ASSUME NEW h \in Cpu, rcu_data_stop(h) PROVE PhaseInv'
  BY <1>17 DEF rcu_data_stop
<1>18. ASSUME NEW h \in Cpu, rcu_data_free(h) PROVE PhaseInv'
  BY <1>18 DEF rcu_data_free
<1>19. ASSUME NEW s \in Slice, mempool_exit_one(s) PROVE PhaseInv'
  BY <1>19 DEF mempool_exit_one
<1>20. ASSUME NEW s \in Slice, worker_start(s) PROVE PhaseInv'
  BY <1>20 DEF worker_start
<1>21. ASSUME NEW s \in Slice, NEW h \in Cpu, worker_call_rcu(s, h) PROVE PhaseInv'
  BY <1>21 DEF worker_call_rcu
<1>22. ASSUME NEW h \in Helper, rcu_splice(h) PROVE PhaseInv'
  BY <1>22 DEF rcu_splice
<1>23. ASSUME NEW h \in Helper, NEW s \in Slice, cb_finish_free(h, s) PROVE PhaseInv'
  BY <1>23 DEF cb_finish_free
<1>24. ASSUME NEW h \in Helper, cb_finish_count(h) PROVE PhaseInv'
  BY <1>24 DEF cb_finish_count
<1>25. ASSUME NEW h \in Helper, rcu_test_stop(h) PROVE PhaseInv'
  BY <1>25 DEF rcu_test_stop
<1> QED
  BY <1>1, <1>2, <1>3, <1>4, <1>5, <1>6, <1>7, <1>8, <1>9, <1>10, <1>11, <1>12, <1>13, <1>14,
     <1>15, <1>16, <1>17, <1>18, <1>19, <1>20, <1>21, <1>22, <1>23, <1>24, <1>25 DEF BenchNext,
     MainThread, TimeOver, Writer, WorkerThread, RcuThread

\* Every step keeps the call_rcu threads' own bookkeeping.
LEMMA RcuStep ==
  ASSUME BenchTypeOK, PhaseInv, RcuInv, BenchNext
  PROVE  RcuInv'
<1> USE CpuAssumption DEF BenchTypeOK, PhaseInv, RcuInv, EarlyPlace, Helper,
  mainVars, poolVars, writerVars, queueVars, rcuVars, cntVars, Goto
<1>1. CASE mempool_init_mp
  BY <1>1 DEF mempool_init_mp
<1>2. CASE test_threadwq_one
  BY <1>2 DEF test_threadwq_one
<1>3. CASE test_threadwq_again
  BY <1>3 DEF test_threadwq_again
<1>4. CASE test_threadwq_end
  BY <1>4 DEF test_threadwq_end
<1>5. CASE test_begin
  BY <1>5 DEF test_begin
<1>6. CASE test_create
  BY <1>6 DEF test_create
<1>7. CASE test_join
  BY <1>7 DEF test_join
<1>8. CASE test_exit
  BY <1>8 DEF test_exit
<1>9. CASE free_all_done
  BY <1>9 DEF free_all_done
<1>10. CASE test_report
  BY <1>10 DEF test_report
<1>11. CASE mempool_exit_begin
  BY <1>11 DEF mempool_exit_begin
<1>12. CASE mempool_exit_end
  BY <1>12 DEF mempool_exit_end
<1>13. CASE writer_alloc
  BY <1>13 DEF writer_alloc
<1>14. CASE writer_add
  BY <1>14 DEF writer_add
<1>15. CASE writer_timeout
  BY <1>15 DEF writer_timeout, AllocFails
<1>16. CASE writer_again
  BY <1>16 DEF writer_again
<1>17. ASSUME NEW h \in Cpu, rcu_data_stop(h) PROVE RcuInv'
  BY <1>17 DEF rcu_data_stop
<1>18. ASSUME NEW h \in Cpu, rcu_data_free(h) PROVE RcuInv'
  BY <1>18 DEF rcu_data_free
<1>19. ASSUME NEW s \in Slice, mempool_exit_one(s) PROVE RcuInv'
  BY <1>19 DEF mempool_exit_one
<1>20. ASSUME NEW s \in Slice, worker_start(s) PROVE RcuInv'
  BY <1>20 DEF worker_start
<1>21. ASSUME NEW s \in Slice, NEW h \in Cpu, worker_call_rcu(s, h) PROVE RcuInv'
  BY <1>21 DEF worker_call_rcu
<1>22. ASSUME NEW h \in Helper, rcu_splice(h) PROVE RcuInv'
  BY <1>22 DEF rcu_splice
<1>23. ASSUME NEW h \in Helper, NEW s \in Slice, cb_finish_free(h, s) PROVE RcuInv'
  BY <1>23 DEF cb_finish_free
<1>24. ASSUME NEW h \in Helper, cb_finish_count(h) PROVE RcuInv'
  BY <1>24 DEF cb_finish_count
<1>25. ASSUME NEW h \in Helper, rcu_test_stop(h) PROVE RcuInv'
  BY <1>25 DEF rcu_test_stop
<1> QED
  BY <1>1, <1>2, <1>3, <1>4, <1>5, <1>6, <1>7, <1>8, <1>9, <1>10, <1>11, <1>12, <1>13, <1>14,
     <1>15, <1>16, <1>17, <1>18, <1>19, <1>20, <1>21, <1>22, <1>23, <1>24, <1>25 DEF BenchNext,
     MainThread, TimeOver, Writer, WorkerThread, RcuThread

\* One more, one less.
LEMMA CountOne ==
  ASSUME NEW S, IsFiniteSet(S), NEW x
  PROVE  /\ Cardinality(S) \in Nat
         /\ x \notin S => Cardinality(S \cup {x}) = Cardinality(S) + 1
         /\ x \in S => Cardinality(S \ {x}) = Cardinality(S) - 1
<1>1. Cardinality(S) \in Nat
  BY FS_CardinalityType
<1>2. x \notin S => Cardinality(S \cup {x}) = Cardinality(S) + 1
  BY FS_AddElement
<1>3. x \in S => Cardinality(S \ {x}) = Cardinality(S) - 1
  BY FS_RemoveElement
<1> QED
  BY <1>1, <1>2, <1>3

\* The counters wrap to 0.
LEMMA IncWraps ==
  ASSUME NEW n \in 0 .. ULongMod - 1
  PROVE  /\ Inc(n) \in 0 .. ULongMod - 1
         /\ Inc(n) = IF n + 1 = ULongMod THEN 0 ELSE n + 1
BY NumAssumption DEF Inc

\* All slices are finitely many, wherever they are.
LEMMA SlicesFinite ==
  ASSUME BenchTypeOK
  PROVE  /\ Pending \subseteq heap
         /\ IsFiniteSet(running) /\ Cardinality(running) \in Nat
         /\ IsFiniteSet(Pending) /\ Cardinality(Pending) \in Nat
         /\ IsFiniteSet({h \in Helper : hpc[h] = "count"})
         /\ Cardinality({h \in Helper : hpc[h] = "count"}) \in Nat
         /\ Uncounted \in Nat
<1>1. Pending \subseteq heap
  BY DEF BenchTypeOK, Pending
<1>2. IsFiniteSet(heap)
  BY SliceAssumption, FS_Subset DEF BenchTypeOK
<1>3. IsFiniteSet(Pending) /\ IsFiniteSet(running)
  BY <1>1, <1>2, FS_Subset DEF BenchTypeOK
<1>4. IsFiniteSet({h \in Helper : hpc[h] = "count"})
  <2>1. IsFiniteSet(Helper)
    BY CpuAssumption, FS_AddElement DEF Helper
  <2> QED
    BY <2>1, FS_Subset
<1>5. Cardinality(Pending) \in Nat /\ Cardinality(running) \in Nat
      /\ Cardinality({h \in Helper : hpc[h] = "count"}) \in Nat
  BY <1>3, <1>4, FS_CardinalityType
<1> QED
  BY <1>1, <1>3, <1>4, <1>5 DEF Uncounted

\* Every step keeps the types; what is released is in nobody's hands.
LEMMA TypeStep ==
  ASSUME BenchTypeOK, PhaseInv, RcuInv, PlaceInv, BenchNext
  PROVE  BenchTypeOK'
<1> USE SliceAssumption, NumAssumption DEF BenchTypeOK, AtPlace, Helper,
  mainVars, poolVars, writerVars, queueVars, rcuVars, cntVars, Goto
<1>1. CASE mempool_init_mp
  BY <1>1 DEF mempool_init_mp
<1>2. CASE test_threadwq_one
  BY <1>2, IncWraps DEF test_threadwq_one
<1>3. CASE test_threadwq_again
  BY <1>3 DEF test_threadwq_again
<1>4. CASE test_threadwq_end
  BY <1>4 DEF test_threadwq_end
<1>5. CASE test_begin
  BY <1>5, SlicesFinite DEF test_begin
<1>6. CASE test_create
  BY <1>6 DEF test_create
<1>7. CASE test_join
  BY <1>7 DEF test_join
<1>8. CASE test_exit
  BY <1>8 DEF test_exit
<1>9. CASE free_all_done
  BY <1>9 DEF free_all_done
<1>10. CASE test_report
  BY <1>10 DEF test_report
<1>11. CASE mempool_exit_begin
  BY <1>11, SlicesFinite DEF mempool_exit_begin
<1>12. CASE mempool_exit_end
  BY <1>12 DEF mempool_exit_end
<1>13. CASE writer_alloc
  <2>1. walk = {}
    BY <1>13 DEF writer_alloc, PhaseInv
  <2>2. heap \subseteq heap' /\ heap' \subseteq Slice /\ free' \subseteq heap'
        /\ job' \in heap' /\ wpc' = "add"
    BY <1>13 DEF writer_alloc
  <2>3. UNCHANGED <<mainVars, walk, queueVars, rcuVars, cntVars>>
    BY <1>13 DEF writer_alloc
  <2> QED
    BY <2>1, <2>2, <2>3
<1>14. CASE writer_add
  BY <1>14 DEF writer_add, PhaseInv
<1>15. CASE writer_timeout
  BY <1>15 DEF writer_timeout, AllocFails
<1>16. CASE writer_again
  BY <1>16 DEF writer_again
<1>17. ASSUME NEW h \in Cpu, rcu_data_stop(h) PROVE BenchTypeOK'
  BY <1>17 DEF rcu_data_stop
<1>18. ASSUME NEW h \in Cpu, rcu_data_free(h) PROVE BenchTypeOK'
  BY <1>18 DEF rcu_data_free
<1>19. ASSUME NEW s \in Slice, mempool_exit_one(s) PROVE BenchTypeOK'
  <2>1. job = NULL /\ queued = {} /\ running = {} /\ s \in free
    BY <1>19 DEF mempool_exit_one, PhaseInv
  <2>2. cbs \in [Helper -> SUBSET (heap \ {s})] /\ batch \in [Helper -> SUBSET (heap \ {s})]
    BY <2>1 DEF PlaceInv
  <2> QED
    BY <1>19, <2>1, <2>2 DEF mempool_exit_one
<1>20. ASSUME NEW s \in Slice, worker_start(s) PROVE BenchTypeOK'
  <2>1. Cardinality(running') =< TwqNum
    <3>1. /\ Cardinality(running \cup {s}) = Cardinality(running) + 1
          /\ running' = running \cup {s} /\ Cardinality(running) \in Nat
      BY <1>20, SlicesFinite, CountOne DEF worker_start, PlaceInv
    <3> QED
      BY <1>20, <3>1 DEF worker_start
  <2>2. cnt_start' \in 0 .. ULongMod - 1
    BY <1>20, IncWraps DEF worker_start
  <2> QED
    BY <1>20, <2>1, <2>2 DEF worker_start
<1>21. ASSUME NEW s \in Slice, NEW h \in Cpu, worker_call_rcu(s, h) PROVE BenchTypeOK'
  <2>1. Cardinality(running') =< TwqNum
    <3>1. /\ Cardinality(running \ {s}) = Cardinality(running) - 1
          /\ running' = running \ {s} /\ Cardinality(running) \in Nat
      BY <1>21, SlicesFinite, CountOne DEF worker_call_rcu
    <3> QED
      BY <3>1
  <2> QED
    BY <1>21, <2>1, CallRcuEffect DEF worker_call_rcu
<1>22. ASSUME NEW h \in Helper, rcu_splice(h) PROVE BenchTypeOK'
  BY <1>22 DEF rcu_splice
<1>23. ASSUME NEW h \in Helper, NEW s \in Slice, cb_finish_free(h, s) PROVE BenchTypeOK'
  BY <1>23 DEF cb_finish_free
<1>24. ASSUME NEW h \in Helper, cb_finish_count(h) PROVE BenchTypeOK'
  BY <1>24, IncWraps DEF cb_finish_count
<1>25. ASSUME NEW h \in Helper, rcu_test_stop(h) PROVE BenchTypeOK'
  BY <1>25 DEF rcu_test_stop
<1> QED
  BY <1>1, <1>2, <1>3, <1>4, <1>5, <1>6, <1>7, <1>8, <1>9, <1>10, <1>11, <1>12, <1>13, <1>14,
     <1>15, <1>16, <1>17, <1>18, <1>19, <1>20, <1>21, <1>22, <1>23, <1>24, <1>25 DEF BenchNext,
     MainThread, TimeOver, Writer, WorkerThread, RcuThread

\* Every step keeps each slice at one place.
LEMMA PlaceStep ==
  ASSUME BenchTypeOK, PhaseInv, RcuInv, PlaceInv, BenchNext
  PROVE  PlaceInv'
<1> USE SliceAssumption, CpuAssumption DEF PlaceInv, Helper,
  mainVars, poolVars, writerVars, queueVars, rcuVars, cntVars, Goto
<1>1. CASE mempool_init_mp
  BY <1>1 DEF mempool_init_mp
<1>2. CASE test_threadwq_one
  BY <1>2 DEF test_threadwq_one
<1>3. CASE test_threadwq_again
  BY <1>3 DEF test_threadwq_again
<1>4. CASE test_threadwq_end
  BY <1>4 DEF test_threadwq_end
<1>5. CASE test_begin
  BY <1>5 DEF test_begin
<1>6. CASE test_create
  BY <1>6 DEF test_create
<1>7. CASE test_join
  BY <1>7 DEF test_join
<1>8. CASE test_exit
  BY <1>8 DEF test_exit
<1>9. CASE free_all_done
  BY <1>9 DEF free_all_done
<1>10. CASE test_report
  BY <1>10 DEF test_report
<1>11. CASE mempool_exit_begin
  BY <1>11 DEF mempool_exit_begin
<1>12. CASE mempool_exit_end
  BY <1>12 DEF mempool_exit_end
<1>13. CASE writer_alloc
  <2>1. /\ job' \notin queued /\ job' \notin running
        /\ \A h \in Helper : job' \notin cbs[h] /\ job' \notin batch[h]
    BY <1>13 DEF writer_alloc, BenchTypeOK
  <2>2. free' \subseteq free /\ job' \notin free'
    BY <1>13 DEF writer_alloc
  <2> QED
    BY <1>13, <2>1, <2>2 DEF writer_alloc
<1>14. CASE writer_add
  <2>1. /\ NULL \notin free /\ NULL \notin queued' /\ NULL \notin running
        /\ \A h \in Helper : NULL \notin cbs[h] /\ NULL \notin batch[h]
    BY <1>14 DEF writer_add, BenchTypeOK, PhaseInv
  <2> QED
    BY <1>14, <2>1 DEF writer_add
<1>15. CASE writer_timeout
  BY <1>15 DEF writer_timeout, AllocFails
<1>16. CASE writer_again
  BY <1>16 DEF writer_again
<1>17. ASSUME NEW h \in Cpu, rcu_data_stop(h) PROVE PlaceInv'
  BY <1>17 DEF rcu_data_stop
<1>18. ASSUME NEW h \in Cpu, rcu_data_free(h) PROVE PlaceInv'
  <2>1. \A g \in Helper : cbs'[g] = IF g = h THEN {}
          ELSE IF g = "default" THEN cbs[g] \cup cbs[h] ELSE cbs[g]
    BY <1>18, DataFreeEffect
  <2>2. h # "default" /\ h \in Helper /\ batch[h] = {} /\ "default" \in Helper
    BY <1>18 DEF rcu_data_free, RcuInv
  <2>3. UNCHANGED <<free, job, queued, running, batch>>
    BY <1>18 DEF rcu_data_free
  <2>4. \A g \in Helper : \A x \in cbs'[g] : x \in cbs[g] \/ (g = "default" /\ x \in cbs[h])
    BY <2>1
  <2>5. \A g \in Helper : cbs'[h] = {} /\ (g # h => cbs[g] \subseteq cbs'[g])
    BY <2>1, <2>2
  <2>6. \A g \in Helper : \A x \in cbs'[g] : x \notin batch[g]
    BY <2>2, <2>4
  <2>7. ASSUME NEW g \in Helper, NEW k \in Helper, g # k, NEW x \in cbs'[g] \cup batch[g]
        PROVE  x \notin cbs'[k] /\ x \notin batch[k]
    BY <2>1, <2>2, <2>7
  <2>8. \A x \in free \cup queued \cup running, g \in Helper : x \notin cbs'[g]
    BY <2>2, <2>4
  <2>9. \A g \in Helper : job \notin cbs'[g]
    BY <2>2, <2>4
  <2> QED
    BY <2>3, <2>6, <2>7, <2>8, <2>9
<1>19. ASSUME NEW s \in Slice, mempool_exit_one(s) PROVE PlaceInv'
  BY <1>19 DEF mempool_exit_one
<1>20. ASSUME NEW s \in Slice, worker_start(s) PROVE PlaceInv'
  BY <1>20 DEF worker_start
<1>21. ASSUME NEW s \in Slice, NEW h \in Cpu, worker_call_rcu(s, h) PROVE PlaceInv'
  BY <1>21 DEF worker_call_rcu
<1>22. ASSUME NEW h \in Helper, rcu_splice(h) PROVE PlaceInv'
  <2>1. \A g \in Helper : /\ cbs'[g] = IF g = h THEN {} ELSE cbs[g]
                          /\ batch'[g] = IF g = h THEN cbs[h] ELSE batch[g]
    BY <1>22, SpliceEffect
  <2>2. UNCHANGED <<free, job, queued, running>>
    BY <1>22 DEF rcu_splice
  <2>3. \A g \in Helper : cbs'[g] \cup batch'[g] \subseteq cbs[g] \cup batch[g]
    BY <2>1
  <2>4. \A g \in Helper : \A x \in cbs'[g] : x \notin batch'[g]
    BY <2>1
  <2> QED
    BY <2>2, <2>3, <2>4
<1>23. ASSUME NEW h \in Helper, NEW s \in Slice, cb_finish_free(h, s) PROVE PlaceInv'
  <2>1. \A g \in Helper : batch'[g] = IF g = h THEN batch[g] \ {s} ELSE batch[g]
    BY <1>23, FinishFreeEffect
  <2>2. free' \subseteq free \cup {s} /\ s \in batch[h]
        /\ UNCHANGED <<job, queued, running, cbs>>
    BY <1>23 DEF cb_finish_free
  <2>3. s # job /\ s \notin queued /\ s \notin running
        /\ \A g \in Helper : s \notin cbs[g] /\ s \notin batch'[g]
    BY <2>1, <2>2
  <2>4. \A g \in Helper : batch'[g] \subseteq batch[g]
    BY <2>1
  <2> QED
    BY <2>2, <2>3, <2>4
<1>24. ASSUME NEW h \in Helper, cb_finish_count(h) PROVE PlaceInv'
  BY <1>24 DEF cb_finish_count
<1>25. ASSUME NEW h \in Helper, rcu_test_stop(h) PROVE PlaceInv'
  BY <1>25 DEF rcu_test_stop
<1> QED
  BY <1>1, <1>2, <1>3, <1>4, <1>5, <1>6, <1>7, <1>8, <1>9, <1>10, <1>11, <1>12, <1>13, <1>14,
     <1>15, <1>16, <1>17, <1>18, <1>19, <1>20, <1>21, <1>22, <1>23, <1>24, <1>25 DEF BenchNext,
     MainThread, TimeOver, Writer, WorkerThread, RcuThread

\* Every step keeps track of every slice.
LEMMA AccountStep ==
  ASSUME BenchTypeOK, PhaseInv, RcuInv, AccountInv, BenchNext
  PROVE  AccountInv'
<1> USE SliceAssumption, CpuAssumption DEF AccountInv, Helper,
  mainVars, poolVars, writerVars, queueVars, rcuVars, cntVars, Goto
<1>1. CASE mempool_init_mp
  BY <1>1 DEF mempool_init_mp
<1>2. CASE test_threadwq_one
  BY <1>2 DEF test_threadwq_one
<1>3. CASE test_threadwq_again
  BY <1>3 DEF test_threadwq_again
<1>4. CASE test_threadwq_end
  BY <1>4 DEF test_threadwq_end
<1>5. CASE test_begin
  BY <1>5 DEF test_begin
<1>6. CASE test_create
  BY <1>6 DEF test_create
<1>7. CASE test_join
  BY <1>7 DEF test_join
<1>8. CASE test_exit
  BY <1>8 DEF test_exit
<1>9. CASE free_all_done
  BY <1>9 DEF free_all_done
<1>10. CASE test_report
  BY <1>10 DEF test_report
<1>11. CASE mempool_exit_begin
  <2>1. job = NULL /\ queued = {} /\ running = {} /\ NULL \notin heap
    BY <1>11 DEF mempool_exit_begin, PhaseInv, BenchTypeOK
  <2>2. \A s \in heap : s \in free \/ s \in Pending
    BY <1>11, <2>1 DEF mempool_exit_begin, Pending
  <2> QED
    BY <1>11, <2>2 DEF mempool_exit_begin
<1>12. CASE mempool_exit_end
  BY <1>12 DEF mempool_exit_end
<1>13. CASE writer_alloc
  <2>1. at = "join" /\ at' = "join" /\ job = NULL /\ NULL \notin heap
    BY <1>13 DEF writer_alloc, PhaseInv, BenchTypeOK
  <2>2. \A s \in heap' : s = job' \/ (s \in heap /\ (s \in free => s \in free'))
    BY <1>13 DEF writer_alloc
  <2> QED
    BY <1>13, <2>1, <2>2 DEF writer_alloc
<1>14. CASE writer_add
  BY <1>14 DEF writer_add
<1>15. CASE writer_timeout
  BY <1>15 DEF writer_timeout, AllocFails
<1>16. CASE writer_again
  BY <1>16 DEF writer_again
<1>17. ASSUME NEW h \in Cpu, rcu_data_stop(h) PROVE AccountInv'
  BY <1>17 DEF rcu_data_stop
<1>18. ASSUME NEW h \in Cpu, rcu_data_free(h) PROVE AccountInv'
  <2>1. \A g \in Helper : \A x \in cbs[g] : \E k \in Helper : x \in cbs'[k]
    <3>1. \A g \in Helper : cbs'[g] = IF g = h THEN {}
            ELSE IF g = "default" THEN cbs[g] \cup cbs[h] ELSE cbs[g]
      BY <1>18, DataFreeEffect
    <3>2. "default" \in Helper /\ h # "default"
      OBVIOUS
    <3> QED
      BY <3>1, <3>2
  <2> QED
    BY <1>18, <2>1 DEF rcu_data_free
<1>19. ASSUME NEW s \in Slice, mempool_exit_one(s) PROVE AccountInv'
  BY <1>19 DEF mempool_exit_one
<1>20. ASSUME NEW s \in Slice, worker_start(s) PROVE AccountInv'
  BY <1>20 DEF worker_start
<1>21. ASSUME NEW s \in Slice, NEW h \in Cpu, worker_call_rcu(s, h) PROVE AccountInv'
  <2>1. /\ \A g \in Helper : cbs[g] \subseteq cbs'[g]
        /\ h \in Helper /\ s \in cbs'[h]
    <3>1. \A g \in Helper : cbs'[g] = IF g = h THEN cbs[g] \cup {s} ELSE cbs[g]
      BY <1>21, CallRcuEffect
    <3> QED
      BY <3>1
  <2>2. at \notin {"recycle", "over"}
    BY <1>21 DEF worker_call_rcu, PhaseInv
  <2> QED
    BY <1>21, <2>1, <2>2 DEF worker_call_rcu
<1>22. ASSUME NEW h \in Helper, rcu_splice(h) PROVE AccountInv'
  <2>1. \A g \in Helper : cbs[g] \cup batch[g] \subseteq cbs'[g] \cup batch'[g]
    BY <1>22, SpliceEffect DEF rcu_splice, RcuInv
  <2> QED
    BY <1>22, <2>1 DEF rcu_splice
<1>23. ASSUME NEW h \in Helper, NEW s \in Slice, cb_finish_free(h, s) PROVE AccountInv'
  BY <1>23 DEF cb_finish_free
<1>24. ASSUME NEW h \in Helper, cb_finish_count(h) PROVE AccountInv'
  BY <1>24 DEF cb_finish_count
<1>25. ASSUME NEW h \in Helper, rcu_test_stop(h) PROVE AccountInv'
  BY <1>25 DEF rcu_test_stop
<1> QED
  BY <1>1, <1>2, <1>3, <1>4, <1>5, <1>6, <1>7, <1>8, <1>9, <1>10, <1>11, <1>12, <1>13, <1>14,
     <1>15, <1>16, <1>17, <1>18, <1>19, <1>20, <1>21, <1>22, <1>23, <1>24, <1>25 DEF BenchNext,
     MainThread, TimeOver, Writer, WorkerThread, RcuThread

\* Counters that differ by a full turn are the same, and stay so.
LEMMA CounterTurns ==
  ASSUME NEW a \in Nat
  PROVE  /\ (a + ULongMod) % ULongMod = a % ULongMod
         /\ (a + 1) % ULongMod
              = IF (a % ULongMod) + 1 = ULongMod THEN 0 ELSE (a % ULongMod) + 1
BY NumAssumption, RemainderOfMore

\* Which slices call_rcu has, before and after a step.
LEMMA PendingMembers ==
  /\ \A x : x \in Pending <=> \E g \in Helper : x \in cbs[g] \/ x \in batch[g]
  /\ \A x : x \in Pending' <=> \E g \in Helper : x \in cbs'[g] \/ x \in batch'[g]
BY DEF Pending

\* Every step keeps the counters in balance, whatever wraps.
LEMMA BalanceStep ==
  ASSUME BenchTypeOK, PhaseInv, RcuInv, PlaceInv, CountersBalance, BenchNext
  PROVE  CountersBalance'
<1> USE DEF CountersBalance, mainVars, poolVars, writerVars, queueVars, rcuVars, cntVars, Goto
<1>0. UNCHANGED <<cbs, batch, hpc>> => Uncounted' = Uncounted
  BY DEF Uncounted, Pending
<1>1. CASE mempool_init_mp
  BY <1>1 DEF mempool_init_mp, PhaseInv, EarlyPlace
<1>2. CASE test_threadwq_one
  BY <1>2 DEF test_threadwq_one, PhaseInv, EarlyPlace
<1>3. CASE test_threadwq_again
  BY <1>0, <1>3 DEF test_threadwq_again
<1>4. CASE test_threadwq_end
  BY <1>0, <1>4 DEF test_threadwq_end
<1>5. CASE test_begin
  <2>1. /\ Uncounted' = Uncounted /\ Uncounted \in Nat
        /\ running' = {} /\ Cardinality(running') = 0
    BY <1>0, <1>5, SlicesFinite, FS_EmptySet DEF test_begin, PhaseInv
  <2> QED
    BY <1>5, <2>1 DEF test_begin
<1>6. CASE test_create
  <2>1. Uncounted' = Uncounted
    <3>1. \A h \in Helper : hpc'[h] = "count" <=> hpc[h] = "count"
      BY <1>6 DEF test_create, RcuInv
    <3> QED
      BY <1>6, <3>1 DEF test_create, Uncounted, Pending
  <2> QED
    BY <1>6, <2>1 DEF test_create
<1>7. CASE test_join
  BY <1>0, <1>7 DEF test_join
<1>8. CASE test_exit
  BY <1>0, <1>8 DEF test_exit
<1>9. CASE free_all_done
  BY <1>0, <1>9 DEF free_all_done
<1>10. CASE test_report
  BY <1>0, <1>10 DEF test_report
<1>11. CASE mempool_exit_begin
  BY <1>0, <1>11 DEF mempool_exit_begin
<1>12. CASE mempool_exit_end
  BY <1>0, <1>12 DEF mempool_exit_end
<1>13. CASE writer_alloc
  BY <1>0, <1>13 DEF writer_alloc
<1>14. CASE writer_add
  BY <1>0, <1>14 DEF writer_add
<1>15. CASE writer_timeout
  BY <1>0, <1>15 DEF writer_timeout, AllocFails
<1>16. CASE writer_again
  BY <1>0, <1>16 DEF writer_again
<1>17. ASSUME NEW h \in Cpu, rcu_data_stop(h) PROVE CountersBalance'
  BY <1>0, <1>17 DEF rcu_data_stop
<1>18. ASSUME NEW h \in Cpu, rcu_data_free(h) PROVE CountersBalance'
  <2>1. Pending' = Pending
    <3>1. \A g \in Helper : cbs'[g] = IF g = h THEN {}
            ELSE IF g = "default" THEN cbs[g] \cup cbs[h] ELSE cbs[g]
      BY <1>18, DataFreeEffect
    <3>2. batch' = batch /\ "default" \in Helper /\ h \in Helper /\ h # "default"
      BY <1>18, DataFreeEffect DEF rcu_data_free
    <3>3. \A x : x \in Pending' <=> x \in Pending
      BY <3>1, <3>2, PendingMembers
    <3> QED
      BY <3>3
  <2>2. \A g \in Helper : hpc'[g] = "count" <=> hpc[g] = "count"
    BY <1>18, DataFreeEffect DEF rcu_data_free, BenchTypeOK
  <2>3. Uncounted' = Uncounted
    BY <2>1, <2>2 DEF Uncounted
  <2> QED
    BY <1>18, <2>3 DEF rcu_data_free
<1>19. ASSUME NEW s \in Slice, mempool_exit_one(s) PROVE CountersBalance'
  BY <1>0, <1>19 DEF mempool_exit_one
<1>20. ASSUME NEW s \in Slice, worker_start(s) PROVE CountersBalance'
  <2>1. Uncounted' = Uncounted /\ Uncounted \in Nat
    BY <1>0, <1>20, SlicesFinite DEF worker_start
  <2>2. Cardinality(running') = Cardinality(running) + 1 /\ Cardinality(running) \in Nat
    BY <1>20, SlicesFinite, CountOne DEF worker_start, PlaceInv
  <2>3. /\ cnt_start \in Nat /\ cnt_finish \in Nat /\ late \in Nat /\ ULongMod \in Nat \ {0}
        /\ cnt_start' = IF cnt_start + 1 = ULongMod THEN 0 ELSE cnt_start + 1
    BY <1>20, IncWraps, NumAssumption DEF worker_start, BenchTypeOK
  <2> DEFINE in == cnt_start + late
  <2> DEFINE out == cnt_finish + Cardinality(running) + Uncounted
  <2>4. (cnt_start' + late) % ULongMod = (in + 1) % ULongMod
    <3>1. CASE cnt_start + 1 = ULongMod
      <4>1. cnt_start' + late = late /\ in + 1 = late + ULongMod
        BY <2>3, <3>1
      <4>2. (late + ULongMod) % ULongMod = late % ULongMod
        BY <2>3, CounterTurns
      <4> QED
        BY <4>1, <4>2
    <3>2. CASE cnt_start + 1 # ULongMod
      BY <2>3, <3>2
    <3> QED
      BY <3>1, <3>2
  <2>5. in \in Nat /\ out \in Nat
    BY <2>1, <2>2, <2>3
  <2>6. cnt_finish' + Cardinality(running') + Uncounted' = out + 1
    BY <1>20, <2>1, <2>2, <2>3 DEF worker_start
  <2>7. in % ULongMod = out % ULongMod => (in + 1) % ULongMod = (out + 1) % ULongMod
    <3> HIDE DEF in, out
    <3> QED
      BY <2>5, CounterTurns
  <2> QED
    BY <1>20, <2>4, <2>6, <2>7 DEF worker_start
<1>21. ASSUME NEW s \in Slice, NEW h \in Cpu, worker_call_rcu(s, h) PROVE CountersBalance'
  <2>1. Pending' = Pending \cup {s} /\ s \notin Pending
    <3>1. \A g \in Helper : cbs'[g] = IF g = h THEN cbs[g] \cup {s} ELSE cbs[g]
      BY <1>21, CallRcuEffect
    <3>2. h \in Helper /\ batch' = batch /\ s \in running
      BY <1>21, CallRcuEffect DEF worker_call_rcu
    <3> QED
      <4>1. \A x : x \in Pending' <=> x \in Pending \/ x = s
        BY <3>1, <3>2, PendingMembers
      <4>2. s \notin Pending
        BY <3>2, PendingMembers DEF PlaceInv
      <4> QED
        BY <4>1, <4>2
  <2>2. Uncounted' = Uncounted + 1 /\ Uncounted \in Nat
    BY <1>21, <2>1, SlicesFinite, CountOne DEF worker_call_rcu, Uncounted
  <2>3. Cardinality(running') = Cardinality(running) - 1 /\ Cardinality(running) \in Nat
    BY <1>21, SlicesFinite, CountOne DEF worker_call_rcu
  <2>4. cnt_finish \in Nat
    BY NumAssumption DEF BenchTypeOK
  <2> QED
    BY <1>21, <2>2, <2>3, <2>4 DEF worker_call_rcu
<1>22. ASSUME NEW h \in Helper, rcu_splice(h) PROVE CountersBalance'
  <2>1. \A g \in Helper : cbs'[g] \cup batch'[g] = cbs[g] \cup batch[g]
    BY <1>22, SpliceEffect DEF rcu_splice, RcuInv
  <2>2. \A g \in Helper : hpc'[g] = "count" <=> hpc[g] = "count"
    BY <1>22, SpliceEffect DEF rcu_splice
  <2>3. Uncounted' = Uncounted
    BY <2>1, <2>2 DEF Uncounted, Pending
  <2> QED
    BY <1>22, <2>3 DEF rcu_splice
<1>23. ASSUME NEW h \in Helper, NEW s \in Slice, cb_finish_free(h, s) PROVE CountersBalance'
  <2>1. /\ \A g \in Helper : batch'[g] = IF g = h THEN batch[g] \ {s} ELSE batch[g]
        /\ \A g \in Helper : hpc'[g] = IF g = h THEN "count" ELSE hpc[g]
        /\ cbs' = cbs /\ s \in batch[h] /\ hpc[h] = "batch"
    BY <1>23, FinishFreeEffect DEF cb_finish_free
  <2>2. Pending' = Pending \ {s} /\ s \in Pending
    <3>1. \A g \in Helper : s \notin cbs[g] /\ (g # h => s \notin batch[g])
      BY <2>1 DEF PlaceInv
    <3>2. \A x : x \in Pending' <=> x \in Pending /\ x # s
      BY <2>1, <3>1, PendingMembers
    <3>3. s \in Pending
      BY <2>1, PendingMembers
    <3> QED
      BY <3>2, <3>3
  <2>3. /\ {g \in Helper : hpc'[g] = "count"} = {g \in Helper : hpc[g] = "count"} \cup {h}
        /\ h \notin {g \in Helper : hpc[g] = "count"}
    BY <2>1
  <2>4. Uncounted' = Uncounted
    <3>1. /\ Cardinality(Pending') = Cardinality(Pending) - 1
          /\ Cardinality(Pending) \in Nat
      BY <2>2, SlicesFinite, CountOne
    <3>2. /\ Cardinality({g \in Helper : hpc'[g] = "count"})
               = Cardinality({g \in Helper : hpc[g] = "count"}) + 1
          /\ Cardinality({g \in Helper : hpc[g] = "count"}) \in Nat
      BY <2>3, SlicesFinite, CountOne
    <3> QED
      BY <3>1, <3>2 DEF Uncounted
  <2> QED
    BY <1>23, <2>4 DEF cb_finish_free
<1>24. ASSUME NEW h \in Helper, cb_finish_count(h) PROVE CountersBalance'
  <2>1. /\ {g \in Helper : hpc'[g] = "count"} = {g \in Helper : hpc[g] = "count"} \ {h}
        /\ h \in {g \in Helper : hpc[g] = "count"}
    BY <1>24 DEF cb_finish_count, BenchTypeOK
  <2>2. Uncounted' = Uncounted - 1 /\ Uncounted \in Nat \ {0}
    <3>1. Pending' = Pending /\ Cardinality(Pending) \in Nat
      BY <1>24, SlicesFinite DEF cb_finish_count, Pending
    <3>2. /\ Cardinality({g \in Helper : hpc'[g] = "count"})
               = Cardinality({g \in Helper : hpc[g] = "count"}) - 1
          /\ Cardinality({g \in Helper : hpc[g] = "count"}) \in Nat \ {0}
      BY <2>1, SlicesFinite, CountOne, FS_EmptySet
    <3> QED
      BY <3>1, <3>2 DEF Uncounted
  <2>3. /\ cnt_finish \in Nat /\ Cardinality(running) \in Nat /\ ULongMod \in Nat \ {0}
        /\ cnt_finish' = IF cnt_finish + 1 = ULongMod THEN 0 ELSE cnt_finish + 1
    BY <1>24, IncWraps, NumAssumption, SlicesFinite DEF cb_finish_count, BenchTypeOK
  <2> DEFINE out == cnt_finish + Cardinality(running) + Uncounted
  <2>4. (cnt_finish' + Cardinality(running) + Uncounted') % ULongMod = out % ULongMod
    <3>1. CASE cnt_finish + 1 = ULongMod
      <4>1. /\ out = (cnt_finish' + Cardinality(running) + Uncounted') + ULongMod
            /\ cnt_finish' + Cardinality(running) + Uncounted' \in Nat
        BY <2>2, <2>3, <3>1
      <4>2. \A n \in Nat : (n + ULongMod) % ULongMod = n % ULongMod
        BY CounterTurns
      <4> QED
        BY <4>1, <4>2
    <3>2. CASE cnt_finish + 1 # ULongMod
      BY <2>2, <2>3, <3>2
    <3> QED
      BY <3>1, <3>2
  <2> QED
    BY <1>24, <2>4 DEF cb_finish_count
<1>25. ASSUME NEW h \in Helper, rcu_test_stop(h) PROVE CountersBalance'
  <2>1. \A g \in Helper : hpc'[g] = "count" <=> hpc[g] = "count"
    BY <1>25 DEF rcu_test_stop, BenchTypeOK
  <2>2. Uncounted' = Uncounted
    BY <1>25, <2>1 DEF rcu_test_stop, Uncounted, Pending
  <2> QED
    BY <1>25, <2>2 DEF rcu_test_stop
<1> QED
  BY <1>1, <1>2, <1>3, <1>4, <1>5, <1>6, <1>7, <1>8, <1>9, <1>10, <1>11, <1>12, <1>13, <1>14,
     <1>15, <1>16, <1>17, <1>18, <1>19, <1>20, <1>21, <1>22, <1>23, <1>24, <1>25 DEF BenchNext,
     MainThread, TimeOver, Writer, WorkerThread, RcuThread

\* Every step of the benchmark, and a step that leaves it alone, keeps BenchInv.
LEMMA BenchStep ==
  ASSUME BenchInv, BenchNext \/ UNCHANGED benchVars
  PROVE  BenchInv'
<1>1. CASE BenchNext
  BY <1>1, PhaseStep, RcuStep, TypeStep, PlaceStep, AccountStep, BalanceStep DEF BenchInv
<1>2. CASE UNCHANGED benchVars
  <2> USE <1>2 DEF BenchInv, benchVars, mainVars, poolVars, writerVars, queueVars, rcuVars,
                   cntVars
  <2>1. BenchTypeOK' /\ PhaseInv' /\ RcuInv'
    BY DEF BenchTypeOK, PhaseInv, RcuInv
  <2>2. PlaceInv' /\ AccountInv'
    BY DEF PlaceInv, AccountInv
  <2>3. CountersBalance'
    BY DEF CountersBalance, Uncounted, Pending
  <2> QED
    BY <2>1, <2>2, <2>3
<1> QED
  BY <1>1, <1>2

\* The memory a process starts with satisfies BenchInv, also after another process.
LEMMA FreshMemory ==
  /\ BenchInit => BenchInv
  /\ NewMemory => BenchInv'
<1> USE SliceAssumption, CpuAssumption, NumAssumption, FS_EmptySet
    DEF BenchInv, BenchTypeOK, AtPlace, PhaseInv, EarlyPlace, RcuInv, PlaceInv, AccountInv,
        CountersBalance
<1>1. ASSUME BenchInit PROVE BenchInv
  BY <1>1 DEF BenchInit, Helper
<1>2. ASSUME NewMemory PROVE BenchInv'
  BY <1>2 DEF NewMemory, Helper
<1> QED
  BY <1>1, <1>2

\* The processes and the memory of the one at work together.
LEMMA IInvStep ==
  ASSUME IInv, [Next]_vars
  PROVE  IInv'
<1>1. ProcInv'
  <2>1. CASE Next
    BY <2>1, ProcStep DEF IInv
  <2>2. CASE UNCHANGED vars
    BY <2>2 DEF IInv, vars, procVars, ProcInv, ProcTypes, LockInv
  <2> QED
    BY <2>1, <2>2
<1>2. BenchNext \/ UNCHANGED benchVars \/ NewMemory
  BY DEF Next, vars, main, End, Work, Leave, BenchNext
<1> QED
  BY <1>1, <1>2, LevelStep, BenchStep, FreshMemory DEF IInv

\* IInv holds throughout.
THEOREM IInvariant == Spec => []IInv
<1>1. Init => IInv
  <2>1. ProcInit => ProcInv
    BY PidAssumption DEF ProcInit, ProcInv, ProcTypes, LockInv, Inside, Busy
  <2>2. ProcInit => LevelInv
    BY DEF ProcInit, LevelInv, Level, STDMSG_LV_DFL, STDMSG_LV_NONE, STDMSG_LV_MAX
  <2> QED
    BY <2>1, <2>2, FreshMemory DEF Init, IInv
<1>2. IInv /\ [Next]_vars => IInv'
  BY IInvStep
<1> QED
  BY <1>1, <1>2, PTL DEF Spec

\* Every variable of the processes and of the benchmark keeps its type: no more jobs run
\* than there are workers, what anybody holds is allocated, the message level stays on
\* its scale whatever the options.
THEOREM TypeCorrect == Spec => []TemplateTypeOK
<1>1. IInv => TemplateTypeOK
  BY DEF IInv, ProcInv, ProcTypes, LevelInv, Level, BenchInv, ProcTypeOK, TemplateTypeOK
<1> QED
  BY <1>1, IInvariant, PTL

\* "Avoid multiple instance." (main.c:428), for any number of processes that start,
\* fork, end and are killed in any order.
THEOREM OneInstance == Spec => []AtMostOneInstance
<1>1. IInv => AtMostOneInstance
  BY DEF IInv, ProcInv, LockInv, Inside, AtMostOneInstance
<1> QED
  BY <1>1, IInvariant, PTL

\* A slice is never at two places on its way through pool, writer, queues, workers and
\* call_rcu threads, for any number of slices, workers and processors.
THEOREM OnePlace == Spec => []SliceAtOnePlace
<1>1. IInv => SliceAtOnePlace
  <2> SUFFICES ASSUME PlaceInv PROVE SliceAtOnePlace
    BY DEF IInv, BenchInv
  <2> USE PendingMembers DEF PlaceInv
  <2>1. free \cap ({job} \cup queued \cup running \cup Pending) = {}
    OBVIOUS
  <2>2. job \notin queued \cup running \cup Pending
    OBVIOUS
  <2>3. queued \cap (running \cup Pending) = {} /\ running \cap Pending = {}
    OBVIOUS
  <2>4. \A h \in Helper : cbs[h] \cap batch[h] = {}
    OBVIOUS
  <2>5. \A g, h \in Helper : g # h => (cbs[g] \cup batch[g]) \cap (cbs[h] \cup batch[h]) = {}
    OBVIOUS
  <2> QED
    BY <2>1, <2>2, <2>3, <2>4, <2>5 DEF SliceAtOnePlace
<1> QED
  BY <1>1, IInvariant, PTL

\* What the pool cannot release at the end was with a call_rcu thread when mempool_exit
\* began (main.c:471).
THEOREM OnlyLateCallbacksLeak == Spec => []LeakOnlyFromLateCallbacks
<1>1. IInv => LeakOnlyFromLateCallbacks
  BY DEF IInv, BenchInv, PhaseInv, AccountInv, LeakOnlyFromLateCallbacks
<1> QED
  BY <1>1, IInvariant, PTL

\* The counters of a test differ by the jobs on their way, for every width of the counters.
THEOREM CountersStayBalanced == Spec => []CountersBalance
<1>1. IInv => CountersBalance
  BY DEF IInv, BenchInv
<1> QED
  BY <1>1, IInvariant, PTL
=============================================================================
