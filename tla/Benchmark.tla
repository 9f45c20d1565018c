------------------------------ MODULE Benchmark ------------------------------
(***************************************************************************)
(* What main does once its subsystems are up (main.c): the job pool, the    *)
(* three tests, and the teardown of call_rcu threads and pool in between.   *)
(*                                                                         *)
(* The components are taken at their promises, which their own modules      *)
(* establish: Mempool (alloc and free are atomic under the lock, the limit  *)
(* holds) and ThreadWq (threadwq_exit_multi returns when every added job    *)
(* was run and handed to call_rcu).  What is followed here is each slice on *)
(* its way pool - writer - queue - worker - call_rcu thread - pool, and the *)
(* two counters.                                                            *)
(*                                                                         *)
(* External, from liburcu: a call_rcu thread splices its callbacks, runs    *)
(* them after a grace period, then looks at STOP; call_rcu_data_free sets   *)
(* STOP, waits for the thread, and gives what is left over to the default   *)
(* thread, which is created when first needed and never stopped.            *)
(***************************************************************************)
EXTENDS Naturals, FiniteSets

CONSTANTS
  Slice,      \* the slices the pool's limit allows
  Cpu,        \* processors: one call_rcu thread each
  TwqNum,     \* workers
  NULL,       \* no slice
  ULongMod    \* number of values of an unsigned long

ASSUME SliceAssumption == IsFiniteSet(Slice) /\ Slice # {} /\ NULL \notin Slice
ASSUME CpuAssumption == IsFiniteSet(Cpu) /\ Cpu # {} /\ "default" \notin Cpu
ASSUME NumAssumption == TwqNum \in Nat \ {0} /\ ULongMod \in Nat \ {0}

Helper == Cpu \cup {"default"}

VARIABLES
  at, test,                \* where main is, and in which test
  heap, free, walk,        \* slices from malloc, list_free, the rest of mempool_exit's walk
  wpc, job,                \* the writer thread and the job in its hands
  queued, running,         \* jobs in the queues and with the workers
  cbs, batch, hpc, stop,   \* the call_rcu threads
  cnt_start, cnt_finish,
  late, lateExit           \* ghosts: callbacks pending at the counters' reset / at mempool_exit

mainVars == <<at, test, late, lateExit>>
poolVars == <<heap, free, walk>>
writerVars == <<wpc, job>>
queueVars == <<queued, running>>
rcuVars == <<cbs, batch, hpc, stop>>
cntVars == <<cnt_start, cnt_finish>>
benchVars == <<mainVars, poolVars, writerVars, queueVars, rcuVars, cntVars>>

AtPlace == {"pool", "test1", "clock", "begin", "create", "join", "exit", "freeall",
            "report", "mpexit", "recycle", "over"}

BenchTypeOK ==
  /\ at \in AtPlace /\ test \in 1 .. 3
  /\ heap \subseteq Slice /\ free \subseteq heap /\ walk \subseteq free
  /\ wpc \in {"off", "alloc", "add", "check", "done"}
  /\ job \in heap \cup {NULL}
  /\ queued \subseteq heap /\ running \subseteq heap
  /\ Cardinality(running) =< TwqNum
  /\ cbs \in [Helper -> SUBSET heap] /\ batch \in [Helper -> SUBSET heap]
  /\ hpc \in [Helper -> {"off", "top", "batch", "count", "stopped"}]
  /\ stop \subseteq Cpu
  /\ cnt_start \in 0 .. ULongMod - 1 /\ cnt_finish \in 0 .. ULongMod - 1
  /\ late \in Nat /\ lateExit \subseteq Slice

BenchInit ==
  /\ at = "pool" /\ test = 1
  /\ heap = {} /\ free = {} /\ walk = {}
  /\ wpc = "off" /\ job = NULL
  /\ queued = {} /\ running = {}
  /\ cbs = [h \in Helper |-> {}] /\ batch = [h \in Helper |-> {}]
  /\ hpc = [h \in Helper |-> "off"] /\ stop = {}
  /\ cnt_start = 0 /\ cnt_finish = 0
  /\ late = 0 /\ lateExit = {}

\* Slices whose callback has not freed them yet, and callbacks not counted yet.
Pending == UNION {cbs[h] \cup batch[h] : h \in Helper}
Uncounted ==
  Cardinality(Pending) + Cardinality({h \in Helper : hpc[h] = "count"})

Inc(n) == (n + 1) % ULongMod
Goto(from, to) == at = from /\ at' = to

-----------------------------------------------------------------------------
(* The main thread.                                                         *)

\* mempool_init, and the counters' reset that test_threadwq begins with.
mempool_init_mp ==
  /\ Goto("pool", "test1")
  /\ cnt_start' = 0 /\ cnt_finish' = 0
  /\ UNCHANGED <<test, late, lateExit, poolVars, writerVars, queueVars, rcuVars>>

\* test_threadwq: cb_start on the main thread until the time is over.
test_threadwq_one ==
  /\ Goto("test1", "clock")
  /\ cnt_start' = Inc(cnt_start)
  /\ UNCHANGED <<test, late, lateExit, poolVars, writerVars, queueVars, rcuVars, cnt_finish>>

test_threadwq_again ==
  /\ Goto("clock", "test1")
  /\ UNCHANGED <<test, late, lateExit, poolVars, writerVars, queueVars, rcuVars, cntVars>>

test_threadwq_end ==
  /\ Goto("clock", "begin") /\ test' = 2
  /\ UNCHANGED <<late, lateExit, poolVars, writerVars, queueVars, rcuVars, cntVars>>

\* Mutant: cnt_finish is not reset.
test_begin_KeepsFinish ==
  /\ Goto("begin", "create")
  /\ cnt_start' = 0 /\ cnt_finish' = cnt_finish
  /\ late' = Uncounted
  /\ UNCHANGED <<test, lateExit, poolVars, writerVars, queueVars, rcuVars>>

\* test_threadwq2 and test_threadwq3: reset the counters, start the workers.
test_begin ==
  /\ Goto("begin", "create")
  /\ cnt_start' = 0 /\ cnt_finish' = 0
  /\ late' = Uncounted
  /\ UNCHANGED <<test, lateExit, poolVars, writerVars, queueVars, rcuVars>>

\* create_all_cpu_call_rcu_data and the writer thread.
test_create ==
  /\ Goto("create", "join")
  /\ hpc' = [h \in Helper |-> IF h \in Cpu THEN "top" ELSE hpc[h]]
  /\ stop' = {}
  /\ wpc' = "alloc"
  /\ UNCHANGED <<test, late, lateExit, poolVars, job, queueVars, cbs, batch, cntVars>>

test_join ==
  /\ wpc = "done" /\ Goto("join", "exit")
  /\ wpc' = "off"
  /\ UNCHANGED <<test, late, lateExit, poolVars, job, queueVars, rcuVars, cntVars>>

\* threadwq_exit_multi (and threadwq_man_exit, which has nothing to do).
test_exit ==
  /\ queued = {} /\ running = {} /\ Goto("exit", "freeall")
  /\ UNCHANGED <<test, late, lateExit, poolVars, writerVars, queueVars, rcuVars, cntVars>>

\* free_all_cpu_call_rcu_data stops one thread after the other ...
rcu_data_stop(h) ==
  /\ at = "freeall"
  /\ hpc[h] # "off" /\ \A k \in stop : hpc[k] = "off"
  /\ stop' = stop \cup {h}
  /\ UNCHANGED <<mainVars, poolVars, writerVars, queueVars, cbs, batch, hpc, cntVars>>

\* ... and hands its leftovers to the default thread.
rcu_data_free(h) ==
  /\ at = "freeall" /\ hpc[h] = "stopped"
  /\ cbs' = [cbs EXCEPT ![h] = {}, !["default"] = @ \cup cbs[h]]
  /\ hpc' = [hpc EXCEPT ![h] = "off",
       !["default"] = IF cbs[h] # {} /\ @ = "off" THEN "top" ELSE @]
  /\ UNCHANGED <<mainVars, poolVars, writerVars, queueVars, batch, stop, cntVars>>

free_all_done ==
  /\ \A h \in Cpu : hpc[h] = "off"
  /\ Goto("freeall", "report")
  /\ UNCHANGED <<test, late, lateExit, poolVars, writerVars, queueVars, rcuVars, cntVars>>

\* The line with the counters, and on to test 3 or to mempool_exit.
test_report ==
  /\ IF test = 2 THEN Goto("report", "begin") /\ test' = 3
                 ELSE Goto("report", "mpexit") /\ UNCHANGED test
  /\ UNCHANGED <<late, lateExit, poolVars, writerVars, queueVars, rcuVars, cntVars>>

\* mempool_exit walks list_free without the lock ...
mempool_exit_begin ==
  /\ Goto("mpexit", "recycle")
  /\ walk' = free
  /\ lateExit' = Pending
  /\ UNCHANGED <<test, late, heap, free, writerVars, queueVars, rcuVars, cntVars>>

mempool_exit_one(s) ==
  /\ at = "recycle" /\ s \in walk
  /\ walk' = walk \ {s} /\ free' = free \ {s} /\ heap' = heap \ {s}
  /\ UNCHANGED <<mainVars, writerVars, queueVars, rcuVars, cntVars>>

\* ... and reports what is left.
mempool_exit_end ==
  /\ walk = {} /\ Goto("recycle", "over")
  /\ UNCHANGED <<test, late, lateExit, poolVars, writerVars, queueVars, rcuVars, cntVars>>

-----------------------------------------------------------------------------
(* The writer: threadfunc2 and threadfunc3.                                 *)

\* Mutant: a slice from the free list is not taken off it.
writer_alloc_KeepsLink ==
  /\ wpc = "alloc"
  /\ \/ \E s \in free :
          job' = s /\ UNCHANGED <<free, heap>>
     \/ \E s \in Slice \ heap :
          free = {} /\ job' = s /\ heap' = heap \cup {s} /\ UNCHANGED free
  /\ wpc' = "add"
  /\ UNCHANGED <<mainVars, walk, queueVars, rcuVars, cntVars>>

\* mempool_alloc: a free slice, or a new one; malloc may also fail.
writer_alloc ==
  /\ wpc = "alloc"
  /\ \/ \E s \in free :
          job' = s /\ free' = free \ {s} /\ UNCHANGED heap
     \/ \E s \in Slice \ heap :
          free = {} /\ job' = s /\ heap' = heap \cup {s} /\ UNCHANGED free
  /\ wpc' = "add"
  /\ UNCHANGED <<mainVars, walk, queueVars, rcuVars, cntVars>>

\* No slice: the writer tries again, or finds the time over.
AllocFails == wpc = "alloc" /\ free = {}

\* threadwq_add_job or threadwq_man_add_job.
writer_add ==
  /\ wpc = "add"
  /\ queued' = queued \cup {job} /\ job' = NULL
  /\ wpc' = "check"
  /\ UNCHANGED <<mainVars, poolVars, running, rcuVars, cntVars>>

\* Mutant: the time is looked at before the job is added.
writer_timeout_BeforeAdd ==
  /\ wpc = "check" \/ wpc = "add" \/ AllocFails
  /\ wpc' = "done" /\ job' = NULL
  /\ UNCHANGED <<mainVars, poolVars, queueVars, rcuVars, cntVars>>

writer_timeout ==
  /\ wpc = "check" \/ AllocFails
  /\ wpc' = "done"
  /\ UNCHANGED <<mainVars, poolVars, job, queueVars, rcuVars, cntVars>>

writer_again ==
  /\ wpc = "check" /\ wpc' = "alloc"
  /\ UNCHANGED <<mainVars, poolVars, job, queueVars, rcuVars, cntVars>>

-----------------------------------------------------------------------------
(* Workers and call_rcu threads.                                            *)

worker_start(s) ==
  /\ s \in queued /\ Cardinality(running) < TwqNum
  /\ queued' = queued \ {s} /\ running' = running \cup {s}
  /\ cnt_start' = Inc(cnt_start)
  /\ UNCHANGED <<mainVars, poolVars, writerVars, rcuVars, cnt_finish>>

\* call_rcu on the worker's processor.
worker_call_rcu(s, h) ==
  /\ s \in running
  /\ running' = running \ {s}
  /\ cbs' = [cbs EXCEPT ![h] = @ \cup {s}]
  /\ UNCHANGED <<mainVars, poolVars, writerVars, queued, batch, hpc, stop, cntVars>>

rcu_splice(h) ==
  /\ hpc[h] = "top"
  /\ hpc' = [hpc EXCEPT ![h] = "batch"]
  /\ batch' = [batch EXCEPT ![h] = cbs[h]] /\ cbs' = [cbs EXCEPT ![h] = {}]
  /\ UNCHANGED <<mainVars, poolVars, writerVars, queueVars, stop, cntVars>>

\* cb_finish: mempool_free puts the slice where mempool_exit's walk has passed; in
\* a race with that unlocked walk the link to it can be overwritten, which is put
\* here as an outcome and not derived from the pointers.
cb_finish_free(h, s) ==
  /\ hpc[h] = "batch" /\ s \in batch[h]
  /\ free' = free \cup {s} \/ (at = "recycle" /\ free' = free)
  /\ batch' = [batch EXCEPT ![h] = @ \ {s}]
  /\ hpc' = [hpc EXCEPT ![h] = "count"]
  /\ UNCHANGED <<mainVars, heap, walk, writerVars, queueVars, cbs, stop, cntVars>>

cb_finish_count(h) ==
  /\ hpc[h] = "count"
  /\ hpc' = [hpc EXCEPT ![h] = "batch"]
  /\ cnt_finish' = Inc(cnt_finish)
  /\ UNCHANGED <<mainVars, poolVars, writerVars, queueVars, cbs, batch, stop, cnt_start>>

rcu_test_stop(h) ==
  /\ hpc[h] = "batch" /\ batch[h] = {}
  /\ hpc' = [hpc EXCEPT ![h] = IF h \in stop THEN "stopped" ELSE "top"]
  /\ UNCHANGED <<mainVars, poolVars, writerVars, queueVars, cbs, batch, stop, cntVars>>

-----------------------------------------------------------------------------
MainThread ==
  \/ mempool_init_mp \/ test_threadwq_one \/ test_threadwq_again
  \/ test_begin \/ test_create \/ test_join \/ test_exit
  \/ (\E h \in Cpu : rcu_data_stop(h) \/ rcu_data_free(h)) \/ free_all_done \/ test_report
  \/ mempool_exit_begin \/ (\E s \in Slice : mempool_exit_one(s)) \/ mempool_exit_end

\* Steps that the clock decides about.
TimeOver == test_threadwq_end \/ writer_timeout

Writer == writer_alloc \/ writer_add \/ writer_again

WorkerThread == \E s \in Slice :
  worker_start(s) \/ \E h \in Cpu : worker_call_rcu(s, h)

RcuThread(h) ==
  \/ rcu_splice(h) \/ (\E s \in Slice : cb_finish_free(h, s))
  \/ cb_finish_count(h) \/ rcu_test_stop(h)

BenchNext ==
  MainThread \/ TimeOver \/ Writer \/ WorkerThread \/ \E h \in Helper : RcuThread(h)

-----------------------------------------------------------------------------
(* Properties.                                                              *)

\* The two counters of a test differ by exactly the jobs that are on their way:
\* those that were started and not yet counted by cb_finish, less the callbacks
\* of the test before that were still pending when test_threadwq3 reset the
\* counters (main.c:252) and are counted in this test.
CountersBalance ==
  (test = 2 /\ at # "begin") \/ test = 3 =>
    (cnt_start + late) % ULongMod
      = (cnt_finish + Cardinality(running) + Uncounted) % ULongMod

\* A slice is at one place at a time, from the pool through the writer, a queue, a
\* worker and a call_rcu thread back to the pool, also across the two tests and
\* while free_all_cpu_call_rcu_data moves callbacks: nobody can be given a job
\* that somebody still uses, and no callback frees a slice twice.
SliceAtOnePlace ==
  LET With(h) == cbs[h] \cup batch[h]
  IN  /\ free \cap ({job} \cup queued \cup running \cup Pending) = {}
      /\ job \notin queued \cup running \cup Pending
      /\ queued \cap (running \cup Pending) = {} /\ running \cap Pending = {}
      /\ \A h \in Helper : cbs[h] \cap batch[h] = {}
      /\ \A g, h \in Helper : g # h => With(g) \cap With(h) = {}

\* No slice is lost on its way: whatever the pool cannot release in the end was
\* still with a call_rcu thread when mempool_exit began, never in the hands of the
\* writer, in a queue or with a worker that was stopped.
LeakOnlyFromLateCallbacks == at = "over" => heap \subseteq lateExit

\* "Free all pending call rcu" (main.c:180): once free_all_cpu_call_rcu_data has
\* returned, no job waits for its callback any more.
FreeAllLeavesNothing == at = "report" => Pending = {}
=============================================================================
