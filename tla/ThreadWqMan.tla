----------------------------- MODULE ThreadWqMan -----------------------------
(***************************************************************************)
(* The work queue manager (threadwq_man.c, threadwq_man_rr.c) on top of     *)
(* ThreadWq: a producer does not choose a queue, threadwq_man_add_job does, *)
(* with the index twq_idx all producers share.  The two benchmarks of       *)
(* main.c are in it, with the two policies of the manager:                  *)
(*   none      threadfunc2: the producer goes from queue to queue itself    *)
(*             and calls threadwq_add_job;                                  *)
(*   rr        read the index, advance it, threadwq_add_job;                *)
(*   rr4idle   from the index on, try the mutexes of the queues in turn and *)
(*             add the job to the first one that is free.                   *)
(***************************************************************************)
EXTENDS ThreadWq

ASSUME ProducersFinite == IsFiniteSet(Producer)

VARIABLES
  man_ops,     \* man->ops: the policy given to threadwq_man_init, or no manager
  twq_idx,     \* man->rr.twq_idx
  idx,         \* per producer: the local idx of its cb_add_job
  apc,         \* per producer: where it is in cb_add_job before the queue is known
  ajob,        \* per producer: the job argument of threadwq_man_add_job
  last         \* the queue the previous job went to, or TwqNum (history)

manVars == <<man_ops, twq_idx, idx, apc, ajob, last>>
allVars == <<vars, manVars>>

Policy == {"none", "rr", "rr4idle"}

ManTypeOK ==
  /\ TypeOK
  /\ man_ops \in Policy
  /\ twq_idx \in Nat
  /\ idx \in [Producer -> Nat]
  /\ apc \in [Producer -> {"none", "read", "choose", "try", "set"}]
  /\ ajob \in [Producer -> Job \cup {NoJob}]
  /\ last \in 0 .. TwqNum

\* threadwq_man_init and rr_init run before any producer starts.
ManInit ==
  /\ Init
  /\ man_ops \in Policy
  /\ twq_idx = 0
  /\ idx = [p \in Producer |-> 0]
  /\ apc = [p \in Producer |-> "none"]
  /\ ajob = [p \in Producer |-> NoJob]
  /\ last = TwqNum

AGoTo(p, from, to) == apc[p] = from /\ apc' = [apc EXCEPT ![p] = to]

\* threadwq_man_add_job is called with job j.
threadwq_man_add_job(p, j) ==
  /\ man_ops # "none"
  /\ mpc = "serve" /\ ppc[p] = "idle"
  /\ j \notin submitted
  /\ \A r \in Producer : ajob[r] # j
  /\ AGoTo(p, "none", "read")
  /\ ajob' = [ajob EXCEPT ![p] = j]
  /\ UNCHANGED <<vars, man_ops, twq_idx, idx, last>>

\* Mutant: the read moves the index on, and rr_add_job does so once more.
read_idx_Advances(p) ==
  /\ AGoTo(p, "read", IF man_ops = "rr" THEN "choose" ELSE "try")
  /\ idx' = [idx EXCEPT ![p] = twq_idx]
  /\ twq_idx' = twq_idx + 1
  /\ UNCHANGED <<vars, man_ops, ajob, last>>

\* uatomic_read(&man->rr.twq_idx)
read_idx(p) ==
  /\ AGoTo(p, "read", IF man_ops = "rr" THEN "choose" ELSE "try")
  /\ idx' = [idx EXCEPT ![p] = twq_idx]
  /\ UNCHANGED <<vars, man_ops, twq_idx, ajob, last>>

\* cb_add_job has settled on queue q: the job goes down threadwq_add_job.
Use(p, q) ==
  /\ submit(p, ajob[p], q)
  /\ ajob' = [ajob EXCEPT ![p] = NoJob]
  /\ last' = q

\* Mutant: the bound test is off by one.
rr_add_job_OffByOne(p) ==
  /\ AGoTo(p, "choose", "none")
  /\ IF idx[p] > TwqNum
     THEN twq_idx' = 0 /\ Use(p, 0)
     ELSE twq_idx' = twq_idx + 1 /\ Use(p, idx[p])
  /\ idx' = [idx EXCEPT ![p] = 0]
  /\ UNCHANGED man_ops

\* rr_add_job: wrap around or advance the shared index.
rr_add_job(p) ==
  /\ AGoTo(p, "choose", "none")
  /\ IF idx[p] >= TwqNum
     THEN twq_idx' = 0 /\ Use(p, 0)
     ELSE twq_idx' = twq_idx + 1 /\ Use(p, idx[p])
  /\ idx' = [idx EXCEPT ![p] = 0]
  /\ UNCHANGED man_ops

\* The queue the loop of rr4idle_add_job looks at.
TryQ(p) == IF idx[p] >= TwqNum THEN 0 ELSE idx[p]

\* rr4idle_add_job: pthread_mutex_trylock fails, go on with the next queue.
rr4idle_busy(p) ==
  /\ apc[p] = "try"
  /\ mutex[TryQ(p)] # "free"
  /\ idx' = [idx EXCEPT ![p] = TryQ(p) + 1]
  /\ UNCHANGED <<vars, man_ops, twq_idx, apc, ajob, last>>

\* Mutant: the result of pthread_mutex_trylock is ignored.
rr4idle_trylock_Ignored(p) ==
  /\ AGoTo(p, "try", "set")
  /\ mutex' = [mutex EXCEPT ![TryQ(p)] = p]
  /\ idx' = [idx EXCEPT ![p] = TryQ(p)]
  /\ UNCHANGED <<exit, exit_ack, running, ops, lfq, wpc, wjob, mainVars, prodVars, rcuVars,
                 man_ops, twq_idx, ajob, last>>

\* It succeeds.
rr4idle_trylock(p) ==
  /\ AGoTo(p, "try", "set")
  /\ Lock(TryQ(p), p)
  /\ idx' = [idx EXCEPT ![p] = TryQ(p)]
  /\ UNCHANGED <<exit, exit_ack, running, ops, lfq, wpc, wjob, mainVars, prodVars, rcuVars,
                 man_ops, twq_idx, ajob, last>>

\* The index is set, and the job is added with the mutex held.
rr4idle_add_job(p) ==
  /\ AGoTo(p, "set", "none")
  /\ twq_idx' = idx[p] + 1
  /\ Use(p, idx[p])
  /\ idx' = [idx EXCEPT ![p] = 0]
  /\ UNCHANGED man_ops

\* threadwq_add_job_locked: the enqueue, on the way to signal and unlock.
add_job_locked(p) ==
  /\ PGoTo(p, "enq", "signal")
  /\ lfq' = [lfq EXCEPT ![ptwq[p]] = Append(@, pjob[p])]
  /\ pjob' = [pjob EXCEPT ![p] = NoJob]
  /\ seen' = [seen EXCEPT ![p] = NoJob]
  /\ gp' = [j \in Job |-> gp[j] \ {p}]
  /\ UNCHANGED <<exit, exit_ack, running, ops, mutex, wpc, wjob, mainVars,
                 ptwq, submitted, deferred, finished>>

Choosing(p) ==
  \/ read_idx(p)
  \/ man_ops = "rr" /\ rr_add_job(p)
  \/ man_ops = "rr4idle" /\ (rr4idle_busy(p) \/ rr4idle_trylock(p) \/ rr4idle_add_job(p))

\* Without a manager select_twq also moves on when mempool_alloc fails: any queue
\* can be next.
Adding(p) ==
  /\ \/ man_ops = "none" /\ \E j \in Job, q \in Twq : submit(p, j, q)
     \/ add_job_read_tail(p) \/ add_job_lock(p) \/ add_job_signal(p)
     \/ man_ops # "rr4idle" /\ add_job_enqueue(p)
     \/ man_ops = "rr4idle" /\ add_job_locked(p)
     \/ apc[p] = "none" /\ producer_return(p)
  /\ UNCHANGED manVars

ManProducer(p) ==
  (\E j \in Job : threadwq_man_add_job(p, j)) \/ Choosing(p) \/ Adding(p)

Others ==
  /\ \/ MainStep
     \/ \E q \in Twq : WorkerStep(q) \/ spurious_wakeup(q)
     \/ \E j \in Job : exec_finish_rcu(j)
  /\ UNCHANGED manVars

ManNext ==
  \/ mpc # "aborted" /\ (Others \/ \E p \in Producer : ManProducer(p))
  \/ Terminated /\ UNCHANGED manVars

ManSpec == ManInit /\ [][ManNext]_allVars
-----------------------------------------------------------------------------
(* Fairness as in ThreadWq: threads run, and a thread that waits in          *)
(* pthread_mutex_lock gets the mutex in the end.  The trylock loop of         *)
(* rr4idle_add_job only runs: nothing hands it a mutex it finds taken at      *)
(* every look, which is the starvation its comment speaks of.                 *)

WorkerGetsMutex(q) == (wait4job_lock(q) \/ wait4job_relock(q)) /\ UNCHANGED manVars

ManFairness ==
  /\ \A q \in Twq :
       /\ WF_allVars(WorkerStep(q) /\ UNCHANGED manVars)
       /\ SF_allVars(WorkerGetsMutex(q))
       /\ []<>(wpc[q] = "loop" /\ cur = q /\ mpc \in ExitPc)
            => []<>(wpc[q] = "loop" /\ exit[q] # 0)
       /\ SF_allVars(loop_leave(q) /\ UNCHANGED manVars)
  /\ \A p \in Producer :
       /\ WF_allVars(ManProducer(p))
       /\ SF_allVars(add_job_lock(p) /\ UNCHANGED manVars)
  /\ \A j \in Job : WF_allVars(exec_finish_rcu(j) /\ UNCHANGED manVars)
  /\ WF_allVars(MainStep /\ UNCHANGED manVars)
  /\ SF_allVars(kill_lock /\ UNCHANGED manVars)

ManFairSpec == ManSpec /\ ManFairness

-----------------------------------------------------------------------------
(* Properties.                                                              *)

\* Writers that read the same twq_idx all increment it.  It still runs at most
\* one past the table per writer that is between its read and its increment, so
\* it cannot creep up from round to round (rr_add_job, rr4idle_add_job).
SharedIndexStaysNearTable ==
  twq_idx + Cardinality({p \in Producer : apc[p] = "choose" /\ idx[p] < TwqNum})
    <= TwqNum + Cardinality(Producer) - 1

\* A queue's mutex is held by the producer that is adding to it with rr4idle, so
\* the worker cannot be between its lock and its wait while the job goes in.
LockedAddExcludesWorker ==
  man_ops = "rr4idle" =>
    \A p \in Producer : ppc[p] \in {"add", "enq", "signal"} =>
       mutex[ptwq[p]] = p /\ wpc[ptwq[p]] \notin {"hold", "unlock"}

\* "Round-robin (RR): Add job into twq one by one." (threadwq_man_rr.c:10): with
\* a single writer each job goes to the queue after the previous one's.
OneByOne ==
  [][\A p \in Producer : rr_add_job(p) =>
       last = TwqNum \/ last' = (last + 1) % TwqNum]_allVars
=============================================================================
