------------------------------ MODULE ThreadWq ------------------------------
(***************************************************************************)
(* A table of thread work queues (threadwq.c, threadwq.h) driven the way   *)
(* main.c drives it: the main thread initialises the table, installs the   *)
(* worker callbacks, starts one worker thread per queue, lets producer     *)
(* threads add jobs, joins the producers and then stops the queues one by  *)
(* one.                                                                    *)
(*                                                                         *)
(* Every step is one access to state another thread can see.  The lock-    *)
(* free queue, the grace period of call_rcu and the pthread primitives are *)
(* library code: they are modelled by what threadwq relies on.             *)
(***************************************************************************)
EXTENDS Naturals, Sequences, FiniteSets

CONSTANTS
  TwqNum,     \* number of queues in the table (main.c TWQNUM)
  Job,        \* the struct threadwq_job objects; each is added at most once
  Producer,   \* threads that call threadwq_add_job
  NoJob,      \* the NULL job pointer
  ExitMod     \* unsigned int exit counts modulo this (2^32 in the code)

ASSUME TwqNumAssumption == TwqNum \in Nat \ {0}
ASSUME ExitModAssumption == ExitMod \in Nat /\ ExitMod >= 2
ASSUME NoJobAssumption == NoJob \notin Job
ASSUME ProducerAssumption == Producer \cap {"free", "main", "worker"} = {}

Twq == 0 .. TwqNum - 1

VARIABLES
  \* struct threadwq, one entry per queue
  exit, exit_ack, running,
  ops,          \* twq->ops holds worker_init/worker_exit
  mutex,        \* owner of twq->mutex: "free", "main", "worker" or a producer
  lfq,          \* twq->lfq
  \* the worker thread of each queue
  wpc, wjob,
  \* the main thread: where it is, and the table index its loop has reached
  mpc, cur,
  \* the producer threads: where each is, its arguments, and the tail node it
  \* read inside its RCU read-side section
  ppc, pjob, ptwq, seen,
  \* call_rcu: callbacks not yet run, the readers each one still waits for
  deferred, gp,
  submitted,    \* jobs handed to threadwq_add_job so far
  finished      \* jobs whose cb_finish has run: their memory is recycled

twqVars  == <<exit, exit_ack, running, ops, mutex, lfq>>
mainVars == <<mpc, cur>>
prodVars == <<ppc, pjob, ptwq, seen, submitted>>
rcuVars  == <<deferred, gp, finished>>
vars == <<twqVars, wpc, wjob, mainVars, prodVars, rcuVars>>

WorkerPc == {"none", "init", "loop", "deq", "run", "defer", "lock", "hold",
             "wait", "woken", "unlock", "fdeq", "frun", "fdefer", "bye", "ack",
             "gone"}
ExitPc == {"kill", "bcast", "poll", "join"}
MainPc == {"init", "setops", "exec", "spin", "serve", "done", "aborted"}
            \cup ExitPc
ProducerPc == {"idle", "add", "enq", "lock", "signal", "done"}

TypeOK ==
  /\ exit \in [Twq -> 0 .. ExitMod - 1]
  /\ exit_ack \in [Twq -> {0, 1}]
  /\ running \in [Twq -> {0, 1}]
  /\ ops \in [Twq -> BOOLEAN]
  /\ mutex \in [Twq -> {"free", "main", "worker"} \cup Producer]
  /\ lfq \in [Twq -> Seq(Job)]
  /\ wpc \in [Twq -> WorkerPc]
  /\ wjob \in [Twq -> Job \cup {NoJob}]
  /\ mpc \in MainPc
  /\ cur \in Twq
  /\ ppc \in [Producer -> ProducerPc]
  /\ pjob \in [Producer -> Job \cup {NoJob}]
  /\ ptwq \in [Producer -> Twq]
  /\ seen \in [Producer -> Job \cup {NoJob}]
  /\ submitted \subseteq Job
  /\ deferred \subseteq Job
  /\ finished \subseteq Job
  /\ gp \in [Job -> SUBSET Producer]

(***************************************************************************)
(* The table lives on main's stack (main.c:148), so the flags threadwq_init *)
(* resets start with leftovers, for instance of the table an earlier test   *)
(* kept at the same place.  Nothing reads the other fields before           *)
(* threadwq_init, so they start with the value it gives them.               *)
(***************************************************************************)
Init ==
  /\ exit \in [Twq -> {0, 1}]
  /\ exit_ack \in [Twq -> {0, 1}]
  /\ running \in [Twq -> {0, 1}]
  /\ ops = [q \in Twq |-> FALSE]
  /\ mutex = [q \in Twq |-> "free"]
  /\ lfq = [q \in Twq |-> <<>>]
  /\ wpc = [q \in Twq |-> "none"]
  /\ wjob = [q \in Twq |-> NoJob]
  /\ mpc = "init"
  /\ cur = 0
  /\ ppc = [p \in Producer |-> "idle"]
  /\ pjob = [p \in Producer |-> NoJob]
  /\ ptwq = [p \in Producer |-> 0]
  /\ seen = [p \in Producer |-> NoJob]
  /\ submitted = {}
  /\ deferred = {}
  /\ finished = {}
  /\ gp = [j \in Job |-> {}]

-----------------------------------------------------------------------------
(* The pthread mutex and condition variable of a queue.                     *)

Lock(q, t) == mutex[q] = "free" /\ mutex' = [mutex EXCEPT ![q] = t]
Unlock(q) == mutex' = [mutex EXCEPT ![q] = "free"]

\* pthread_cond_signal and _broadcast: only the worker ever waits on twq->cond,
\* and a signal nobody waits for is lost.
Wake(q) ==
  wpc' = IF wpc[q] = "wait" THEN [wpc EXCEPT ![q] = "woken"] ELSE wpc

-----------------------------------------------------------------------------
(* The main thread.                                                         *)

\* Mutant: the loop bound of a _multi function is off by one.
Advance_OffByOne(again, next) ==
  IF cur < TwqNum
  THEN cur' = cur + 1 /\ mpc' = again
  ELSE cur' = 0 /\ mpc' = next

\* The loops of the _multi functions: move to the next entry and run `again`
\* for it, or leave the loop for `next` after the last one.
Advance(again, next) ==
  IF cur + 1 < TwqNum
  THEN cur' = cur + 1 /\ mpc' = again
  ELSE cur' = 0 /\ mpc' = next

\* Mutant: running is not reset.
threadwq_init_KeepsRunning ==
  /\ mpc = "init"
  /\ exit' = [exit EXCEPT ![cur] = 0]
  /\ exit_ack' = [exit_ack EXCEPT ![cur] = 0]
  /\ mutex' = [mutex EXCEPT ![cur] = "free"]
  /\ lfq' = [lfq EXCEPT ![cur] = <<>>]
  /\ ops' = [ops EXCEPT ![cur] = FALSE]
  /\ Advance("init", "setops")
  /\ UNCHANGED <<running, wpc, wjob, prodVars, rcuVars>>

\* threadwq_init_multi / threadwq_init; threadwq_init cannot fail.
threadwq_init ==
  /\ mpc = "init"
  /\ exit' = [exit EXCEPT ![cur] = 0]
  /\ exit_ack' = [exit_ack EXCEPT ![cur] = 0]
  /\ running' = [running EXCEPT ![cur] = 0]
  /\ mutex' = [mutex EXCEPT ![cur] = "free"]
  /\ lfq' = [lfq EXCEPT ![cur] = <<>>]
  /\ ops' = [ops EXCEPT ![cur] = FALSE]
  /\ Advance("init", "setops")
  /\ UNCHANGED <<wpc, wjob, prodVars, rcuVars>>

threadwq_set_ops ==
  /\ mpc = "setops"
  /\ ops' = [ops EXCEPT ![cur] = TRUE]
  /\ Advance("setops", "exec")
  /\ UNCHANGED <<exit, exit_ack, running, mutex, lfq, wpc, wjob, prodVars,
                 rcuVars>>

\* pthread_create of the worker.
threadwq_exec ==
  /\ mpc = "exec"
  /\ wpc' = [wpc EXCEPT ![cur] = "init"]
  /\ mpc' = "spin"
  /\ UNCHANGED <<twqVars, wjob, cur, prodVars, rcuVars>>

\* pthread_create fails, threadwq_exec_multi returns non-zero and main's
\* BUG_ON aborts the process.
threadwq_exec_fail ==
  /\ mpc = "exec"
  /\ mpc' = "aborted"
  /\ UNCHANGED <<twqVars, wpc, wjob, cur, prodVars, rcuVars>>

\* The sched_yield loop on twq->running, and the next iteration of exec_multi.
threadwq_exec_spin ==
  /\ mpc = "spin"
  /\ running[cur] = 1
  /\ Advance("exec", "serve")
  /\ UNCHANGED <<twqVars, wpc, wjob, prodVars, rcuVars>>

\* Mutant: the queues are stopped while producers still run.
JoinProducers_Skipped ==
  /\ mpc = "serve"
  /\ mpc' = "kill"
  /\ UNCHANGED <<twqVars, wpc, wjob, cur, prodVars, rcuVars>>

\* main joins the producer threads before it stops the queues.
JoinProducers ==
  /\ mpc = "serve"
  /\ \A p \in Producer : ppc[p] = "done"
  /\ mpc' = "kill"
  /\ UNCHANGED <<twqVars, wpc, wjob, cur, prodVars, rcuVars>>

\* kill_online_worker: lock; exit++ and broadcast and unlock; look at exit_ack.
kill_lock ==
  /\ mpc = "kill"
  /\ Lock(cur, "main")
  /\ mpc' = "bcast"
  /\ UNCHANGED <<exit, exit_ack, running, ops, lfq, wpc, wjob, cur, prodVars,
                 rcuVars>>

\* Mutant: exit is raised but the worker is not woken.
kill_broadcast_NoWake ==
  /\ mpc = "bcast"
  /\ exit' = [exit EXCEPT ![cur] = (@ + 1) % ExitMod]
  /\ Unlock(cur)
  /\ mpc' = "poll"
  /\ UNCHANGED <<exit_ack, running, ops, lfq, wpc, wjob, cur, prodVars, rcuVars>>

kill_broadcast ==
  /\ mpc = "bcast"
  /\ exit' = [exit EXCEPT ![cur] = (@ + 1) % ExitMod]
  /\ Wake(cur)
  /\ Unlock(cur)
  /\ mpc' = "poll"
  /\ UNCHANGED <<exit_ack, running, ops, lfq, wjob, cur, prodVars, rcuVars>>

kill_poll ==
  /\ mpc = "poll"
  /\ mpc' = IF exit_ack[cur] = 1 THEN "join" ELSE "kill"
  /\ UNCHANGED <<twqVars, wpc, wjob, cur, prodVars, rcuVars>>

\* Mutant: exit_ack is taken for the end of the thread.
kill_join_NoJoin ==
  /\ mpc = "join"
  /\ Advance("kill", "done")
  /\ UNCHANGED <<twqVars, wpc, wjob, prodVars, rcuVars>>

\* pthread_join of the worker, and the next iteration of threadwq_exit_multi.
kill_join ==
  /\ mpc = "join"
  /\ wpc[cur] = "gone"
  /\ Advance("kill", "done")
  /\ UNCHANGED <<twqVars, wpc, wjob, prodVars, rcuVars>>

MainStep ==
  \/ threadwq_init \/ threadwq_set_ops
  \/ threadwq_exec \/ threadwq_exec_fail \/ threadwq_exec_spin
  \/ JoinProducers
  \/ kill_lock \/ kill_broadcast \/ kill_poll \/ kill_join

-----------------------------------------------------------------------------
(* The worker thread of queue q: thread_func.                               *)

GoTo(q, from, to) == wpc[q] = from /\ wpc' = [wpc EXCEPT ![q] = to]

\* worker_init has returned 0: announce the worker.
worker_online(q) ==
  /\ GoTo(q, "init", "loop")
  /\ running' = [running EXCEPT ![q] = 1]
  /\ UNCHANGED <<exit, exit_ack, ops, mutex, lfq, wjob, mainVars, prodVars,
                 rcuVars>>

\* worker_init has failed: BUG() kills the process.
worker_init_fail(q) ==
  /\ wpc[q] = "init"
  /\ ops[q]
  /\ mpc' = "aborted"
  /\ UNCHANGED <<twqVars, wpc, wjob, cur, prodVars, rcuVars>>

\* while (twq->exit == 0): read without the mutex.
loop_continue(q) ==
  /\ exit[q] = 0
  /\ GoTo(q, "loop", "deq")
  /\ UNCHANGED <<twqVars, wjob, mainVars, prodVars, rcuVars>>

\* Mutant: the worker leaves without the final exec_pending_jobs.
loop_leave_NoFlush(q) ==
  /\ exit[q] # 0
  /\ GoTo(q, "loop", "bye")
  /\ UNCHANGED <<twqVars, wjob, mainVars, prodVars, rcuVars>>

loop_leave(q) ==
  /\ exit[q] # 0
  /\ GoTo(q, "loop", "fdeq")
  /\ UNCHANGED <<twqVars, wjob, mainVars, prodVars, rcuVars>>

\* dequeue_one_job inside its own RCU read-side section.
dequeue_one_job(q, at, got) ==
  /\ lfq[q] # <<>>
  /\ GoTo(q, at, got)
  /\ wjob' = [wjob EXCEPT ![q] = Head(lfq[q])]
  /\ lfq' = [lfq EXCEPT ![q] = Tail(@)]
  /\ UNCHANGED <<exit, exit_ack, running, ops, mutex, mainVars, prodVars,
                 rcuVars>>

dequeue_empty(q, at, next) ==
  /\ lfq[q] = <<>>
  /\ GoTo(q, at, next)
  /\ UNCHANGED <<twqVars, wjob, mainVars, prodVars, rcuVars>>

\* cb_start of the job in hand returns.
cb_start(q, at, next) ==
  /\ GoTo(q, at, next)
  /\ UNCHANGED <<twqVars, wjob, mainVars, prodVars, rcuVars>>

\* Mutant: the callback does not wait for the readers of the moment.
call_rcu_NoGracePeriod(q, at, next) ==
  /\ GoTo(q, at, next)
  /\ deferred' = deferred \cup {wjob[q]}
  /\ wjob' = [wjob EXCEPT ![q] = NoJob]
  /\ UNCHANGED <<twqVars, mainVars, prodVars, gp, finished>>

\* call_rcu(&job->rcu_head, __exec_finish_rcu): the callback may run once every
\* reader that is inside a section now has left it.
call_rcu(q, at, next) ==
  /\ GoTo(q, at, next)
  /\ deferred' = deferred \cup {wjob[q]}
  /\ gp' = [gp EXCEPT ![wjob[q]] = {p \in Producer : ppc[p] = "enq"}]
  /\ wjob' = [wjob EXCEPT ![q] = NoJob]
  /\ UNCHANGED <<twqVars, mainVars, prodVars, finished>>

\* wait4job: lock, pthread_cond_wait, unlock.
wait4job_lock(q) ==
  /\ GoTo(q, "lock", "hold")
  /\ Lock(q, "worker")
  /\ UNCHANGED <<exit, exit_ack, running, ops, lfq, wjob, mainVars, prodVars,
                 rcuVars>>

\* pthread_cond_wait gives the mutex up and starts to wait in one step.
wait4job_wait(q) ==
  /\ GoTo(q, "hold", "wait")
  /\ Unlock(q)
  /\ UNCHANGED <<exit, exit_ack, running, ops, lfq, wjob, mainVars, prodVars,
                 rcuVars>>

\* POSIX lets pthread_cond_wait return without a signal.
spurious_wakeup(q) ==
  /\ GoTo(q, "wait", "woken")
  /\ UNCHANGED <<twqVars, wjob, mainVars, prodVars, rcuVars>>

wait4job_relock(q) ==
  /\ GoTo(q, "woken", "unlock")
  /\ Lock(q, "worker")
  /\ UNCHANGED <<exit, exit_ack, running, ops, lfq, wjob, mainVars, prodVars,
                 rcuVars>>

wait4job_unlock(q) ==
  /\ GoTo(q, "unlock", "loop")
  /\ Unlock(q)
  /\ UNCHANGED <<exit, exit_ack, running, ops, lfq, wjob, mainVars, prodVars,
                 rcuVars>>

\* worker_exit has returned: acknowledge.
worker_ack(q) ==
  /\ GoTo(q, "bye", "ack")
  /\ exit_ack' = [exit_ack EXCEPT ![q] = 1]
  /\ UNCHANGED <<exit, running, ops, mutex, lfq, wjob, mainVars, prodVars,
                 rcuVars>>

worker_return(q) ==
  /\ GoTo(q, "ack", "gone")
  /\ UNCHANGED <<twqVars, wjob, mainVars, prodVars, rcuVars>>

\* Mutant: the flush runs one job only.
exec_pending_jobs_OneJob(q) ==
  \/ dequeue_one_job(q, "fdeq", "frun")
  \/ dequeue_empty(q, "fdeq", "bye")
  \/ cb_start(q, "frun", "fdefer")
  \/ call_rcu(q, "fdefer", "bye")

\* exec_pending_jobs: the flush once the exit request has been seen.
exec_pending_jobs(q) ==
  \/ dequeue_one_job(q, "fdeq", "frun")
  \/ dequeue_empty(q, "fdeq", "bye")
  \/ cb_start(q, "frun", "fdefer")
  \/ call_rcu(q, "fdefer", "fdeq")

WorkerStep(q) ==
  \/ worker_online(q) \/ worker_init_fail(q)
  \/ loop_continue(q) \/ loop_leave(q)
  \/ dequeue_one_job(q, "deq", "run")
  \/ dequeue_empty(q, "deq", "lock")
  \/ cb_start(q, "run", "defer")
  \/ call_rcu(q, "defer", "deq")
  \/ wait4job_lock(q) \/ wait4job_wait(q)
  \/ wait4job_relock(q) \/ wait4job_unlock(q)
  \/ exec_pending_jobs(q)
  \/ worker_ack(q) \/ worker_return(q)

-----------------------------------------------------------------------------
(* A producer thread p: threadwq_job_init and threadwq_add_job.             *)

PGoTo(p, from, to) == ppc[p] = from /\ ppc' = [ppc EXCEPT ![p] = to]

\* The caller picks a job and a queue and calls threadwq_add_job.
submit(p, j, q) ==
  /\ mpc = "serve"
  /\ j \notin submitted
  /\ PGoTo(p, "idle", "add")
  /\ pjob' = [pjob EXCEPT ![p] = j]
  /\ ptwq' = [ptwq EXCEPT ![p] = q]
  /\ submitted' = submitted \cup {j}
  /\ UNCHANGED <<twqVars, wpc, wjob, mainVars, seen, rcuVars>>

\* rcu_read_lock, and the first half of cds_lfq_enqueue_rcu: read the tail node.
add_job_read_tail(p) ==
  /\ PGoTo(p, "add", "enq")
  /\ LET s == lfq[ptwq[p]]
     IN  seen' = [seen EXCEPT ![p] = IF s = <<>> THEN NoJob ELSE s[Len(s)]]
  /\ UNCHANGED <<twqVars, wpc, wjob, mainVars, pjob, ptwq, submitted, rcuVars>>

\* The compare-and-swap that publishes the node, and rcu_read_unlock.
add_job_enqueue(p) ==
  /\ PGoTo(p, "enq", "lock")
  /\ lfq' = [lfq EXCEPT ![ptwq[p]] = Append(@, pjob[p])]
  /\ pjob' = [pjob EXCEPT ![p] = NoJob]
  /\ seen' = [seen EXCEPT ![p] = NoJob]
  /\ gp' = [j \in Job |-> gp[j] \ {p}]
  /\ UNCHANGED <<exit, exit_ack, running, ops, mutex, wpc, wjob, mainVars,
                 ptwq, submitted, deferred, finished>>

add_job_lock(p) ==
  /\ PGoTo(p, "lock", "signal")
  /\ Lock(ptwq[p], p)
  /\ UNCHANGED <<exit, exit_ack, running, ops, lfq, wpc, wjob, mainVars, pjob,
                 ptwq, seen, submitted, rcuVars>>

add_job_signal(p) ==
  /\ PGoTo(p, "signal", "idle")
  /\ Wake(ptwq[p])
  /\ Unlock(ptwq[p])
  /\ UNCHANGED <<exit, exit_ack, running, ops, lfq, wjob, mainVars, pjob,
                 ptwq, seen, submitted, rcuVars>>

\* The producer's thread function returns.
producer_return(p) ==
  /\ mpc = "serve"
  /\ PGoTo(p, "idle", "done")
  /\ UNCHANGED <<twqVars, wpc, wjob, mainVars, pjob, ptwq, seen, submitted,
                 rcuVars>>

AddJob(p) ==
  \/ add_job_read_tail(p) \/ add_job_enqueue(p)
  \/ add_job_lock(p) \/ add_job_signal(p)

ProducerStep(p) ==
  \/ \E j \in Job, q \in Twq : submit(p, j, q)
  \/ AddJob(p)
  \/ producer_return(p)

-----------------------------------------------------------------------------
\* The call_rcu thread runs __exec_finish_rcu, which calls cb_finish.
exec_finish_rcu(j) ==
  /\ j \in deferred
  /\ gp[j] = {}
  /\ deferred' = deferred \ {j}
  /\ finished' = finished \cup {j}
  /\ UNCHANGED <<twqVars, wpc, wjob, mainVars, prodVars, gp>>

Running ==
  \/ MainStep
  \/ \E q \in Twq : WorkerStep(q) \/ spurious_wakeup(q)
  \/ \E p \in Producer : ProducerStep(p)
  \/ \E j \in Job : exec_finish_rcu(j)

\* main has stopped the queues, or the process has been aborted; callbacks may
\* still be pending.
Terminated ==
  /\ mpc \in {"aborted", "done"}
  /\ UNCHANGED vars

Next == (mpc # "aborted" /\ Running) \/ Terminated

Spec == Init /\ [][Next]_vars
-----------------------------------------------------------------------------
(* Fairness.  Every thread that can run does run, and a thread that wants a *)
(* mutex others take and release again and again gets it in the end.        *)

\* kill_online_worker keeps counting, so exit passes through 0 once in ExitMod
\* increments.  A worker that reads exit over and over while it is being stopped
\* does not meet that one value every single time.
ExitReadFairness(q) ==
  /\ []<>(wpc[q] = "loop" /\ cur = q /\ mpc \in ExitPc)
       => []<>(wpc[q] = "loop" /\ exit[q] # 0)
  /\ SF_vars(loop_leave(q))

WorkerFairness(q) ==
  /\ WF_vars(WorkerStep(q))
  /\ SF_vars(wait4job_lock(q))
  /\ SF_vars(wait4job_relock(q))
  /\ ExitReadFairness(q)

ProducerFairness(p) ==
  /\ WF_vars(ProducerStep(p))
  /\ SF_vars(add_job_lock(p))

Fairness ==
  /\ \A q \in Twq : WorkerFairness(q)
  /\ \A p \in Producer : ProducerFairness(p)
  /\ \A j \in Job : WF_vars(exec_finish_rcu(j))

\* The whole program: the main thread makes progress too.
FairSpec == Spec /\ Fairness /\ WF_vars(MainStep) /\ SF_vars(kill_lock)

\* A service that keeps running: nothing obliges main to stop the queues.
ServiceSpec == Spec /\ Fairness /\ WF_vars(MainStep /\ mpc # "serve")

-----------------------------------------------------------------------------
(* Properties.                                                              *)

\* threadwq_exit(q) has returned.
Stopped(q) == mpc = "done" \/ (mpc \in ExitPc /\ q < cur)

\* Jobs whose cb_start has been called.
Started == {j \in Job : j \in deferred \cup finished
                       \/ \E q \in Twq : wjob[q] = j}

\* When threadwq_exit returns, the worker is gone and has left no job behind,
\* in the queue or half done (kill_online_worker, exec_pending_jobs).
StoppedQueueIsDrained ==
  \A q \in Twq : Stopped(q) =>
     wpc[q] = "gone" /\ lfq[q] = <<>> /\ wjob[q] = NoJob

\* When threadwq_exit_multi returns, every job that was ever handed to
\* threadwq_add_job has been run and handed to call_rcu: none is lost.
NoJobLostAtExit ==
  mpc = "done" => submitted = deferred \cup finished

\* cb_finish recycles the job's memory.  No thread that is inside a read-side
\* section of the queue still has a pointer to such a job, which is why
\* thread_func goes through call_rcu and does not call cb_finish itself.
NoReaderHoldsFinishedJob ==
  \A p \in Producer : seen[p] \notin finished

\* worker_init of main.c clears a table all jobs read: it never runs while a
\* job runs, nor on two workers at once (threadwq_exec waits for running).
WorkerInitRunsAlone ==
  \A q, r \in Twq : wpc[q] = "init" =>
     /\ wpc[r] \notin {"run", "frun"}
     /\ (r # q) => wpc[r] # "init"

\* Once main starts to stop the queues it finishes, whatever the workers were
\* doing: a broadcast the worker misses is repeated.
ExitCompletes == (mpc = "kill") ~> (mpc = "done")

\* Every job a producer submits is eventually run and given back to its owner, as
\* long as the process lives: main does not wait for the callbacks.
EveryJobFinishes ==
  \A j \in Job : (j \in submitted) ~> (j \in finished)

\* The job is run without waiting for another job or for the shutdown:
\* "The caller can wake up the thread to run anytime" (threadwq.h:3).
AddedJobStarts ==
  \A j \in Job : (j \in submitted) ~> (j \in Started)

-----------------------------------------------------------------------------
\* What the table promises its callers, seen through this state: a queue is
\* closed once its worker has found it empty during the flush.
JD == INSTANCE JobDelivery WITH
        queue <- lfq, run <- wjob, pending <- deferred,
        closed <- [q \in Twq |-> wpc[q] \in {"bye", "ack", "gone"}]

\* Threads, flags, mutex and condition variable together implement the abstract
\* queue: each added job is run once, in the order of its queue, by one worker,
\* and nothing is added to or left in a queue its worker has closed
\* (threadwq_add_job, thread_func, exec_pending_jobs, kill_online_worker).
ImplementsJobDelivery == JD!JDSpec

\* With a main thread that stops the queues in the end, no delivered job is
\* forgotten, although a wakeup can be: the flush in thread_func finds it.
ImplementsFairDelivery == JD!JDFairSpec
=============================================================================
