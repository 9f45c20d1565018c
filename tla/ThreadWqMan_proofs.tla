-------------------------- MODULE ThreadWqMan_proofs --------------------------
(***************************************************************************)
(* Proofs about ThreadWqMan: what ThreadWq_proofs shows of producers that   *)
(* choose their queue themselves also holds with a manager between them and *)
(* the queues, for both policies, and what the shared index and the mutex   *)
(* of a queue are worth.                                                    *)
(***************************************************************************)
EXTENDS ThreadWqMan, ThreadWq_proofs, FiniteSetTheorems

ManTypes ==
  /\ man_ops \in Policy
  /\ twq_idx \in Nat
  /\ idx \in [Producer -> Nat]
  /\ apc \in [Producer -> {"none", "read", "choose", "try", "set"}]
  /\ ajob \in [Producer -> Job \cup {NoJob}]
  /\ last \in 0 .. TwqNum

\* A producer inside cb_add_job has a new job, which nobody else has, and is
\* nowhere in threadwq_add_job.
CallInv ==
  \A p \in Producer :
    /\ ajob[p] # NoJob <=> apc[p] # "none"
    /\ apc[p] # "none" => mpc = "serve" /\ ppc[p] = "idle" /\ man_ops # "none"
    /\ apc[p] = "choose" => man_ops = "rr"
    /\ apc[p] \in {"try", "set"} => man_ops = "rr4idle"
    /\ apc[p] = "set" => idx[p] \in Twq
    /\ ajob[p] \notin submitted
    /\ \A r \in Producer : ajob[r] = ajob[p] /\ ajob[p] # NoJob => r = p

\* Where a producer holds the mutex of queue q.
HoldsMutex(p, q) ==
  \/ ptwq[p] = q /\ ppc[p] = "signal"
  \/ ptwq[p] = q /\ man_ops = "rr4idle" /\ ppc[p] \in {"add", "enq"}
  \/ idx[p] = q /\ apc[p] = "set"

\* Whoever is at a place between lock and unlock of a mutex has it.
MutexInv ==
  /\ \A q \in Twq : wpc[q] \in {"hold", "unlock"} => mutex[q] = "worker"
  /\ \A p \in Producer, q \in Twq : HoldsMutex(p, q) => mutex[q] = p
  /\ mpc = "bcast" => mutex[cur] = "main"

\* The writers that will increment twq_idx.
Advancing == {p \in Producer : apc[p] = "choose" /\ idx[p] < TwqNum}

ManIInv ==
  IInv /\ ManTypes /\ CallInv /\ MutexInv /\ SharedIndexStaysNearTable
-----------------------------------------------------------------------------
(* The steps of a producer that are not steps of ThreadWq: with rr4idle the  *)
(* mutex is taken first, and the job is enqueued with the mutex held.        *)

\* The queue that rr4idle_add_job looks at is in the table.
LEMMA TryQType ==
  ASSUME ManTypes, NEW p \in Producer
  PROVE  TryQ(p) \in Twq
  BY TwqNumAssumption DEF ManTypes, TryQ, Twq

\* What a step means for the queues: a step of ThreadWq, nothing, or one of the two.
LEMMA StepKinds ==
  ASSUME ManIInv, ManNext
  PROVE  \/ [Next]_vars
         \/ \E p \in Producer : man_ops = "rr4idle" /\ rr4idle_trylock(p)
         \/ \E p \in Producer : man_ops = "rr4idle" /\ add_job_locked(p)
<1>1. CASE Others
  BY <1>1 DEF Others, ManNext, Next, Running, Terminated
<1>2. ASSUME NEW p \in Producer, ManProducer(p), mpc # "aborted"
      PROVE  \/ [Next]_vars
             \/ man_ops = "rr4idle" /\ rr4idle_trylock(p)
             \/ man_ops = "rr4idle" /\ add_job_locked(p)
  <2>1. CASE \E j \in Job : threadwq_man_add_job(p, j)
    BY <2>1 DEF threadwq_man_add_job
  <2>2. CASE read_idx(p) \/ rr4idle_busy(p)
    BY <2>2 DEF read_idx, rr4idle_busy
  <2>3. CASE rr_add_job(p)
    <3>1. ajob[p] \in Job
      BY <2>3 DEF rr_add_job, AGoTo, ManIInv, ManTypes, CallInv
    <3>2. 0 \in Twq /\ (idx[p] < TwqNum => idx[p] \in Twq) /\ (idx[p] < TwqNum \/ idx[p] >= TwqNum)
      BY TwqNumAssumption DEF Twq, ManIInv, ManTypes
    <3>3. \E q \in Twq : submit(p, ajob[p], q)
      BY <2>3, <3>2 DEF rr_add_job, Use
    <3> QED
      BY <1>2, <3>1, <3>3 DEF Next, Running, ProducerStep
  <2>4. CASE rr4idle_add_job(p)
    <3>1. ajob[p] \in Job /\ idx[p] \in Twq
      BY <2>4 DEF rr4idle_add_job, AGoTo, ManIInv, ManTypes, CallInv
    <3>2. submit(p, ajob[p], idx[p])
      BY <2>4 DEF rr4idle_add_job, Use
    <3> QED
      BY <1>2, <3>1, <3>2 DEF Next, Running, ProducerStep
  <2>5. CASE Adding(p) /\ ~(man_ops = "rr4idle" /\ add_job_locked(p))
    BY <1>2, <2>5 DEF Adding, Next, Running, ProducerStep, AddJob
  <2> QED
    BY <1>2, <2>1, <2>2, <2>3, <2>4, <2>5 DEF ManProducer, Choosing, Adding
<1>3. CASE Terminated
  BY <1>3 DEF Next
<1> QED
  BY <1>1, <1>2, <1>3 DEF ManNext

\* Taking the mutex keeps what ThreadWq_proofs shows.
LEMMA LockFirst ==
  ASSUME ManIInv, NEW p \in Producer, rr4idle_trylock(p)
  PROVE  IInv'
<1> USE DEF ManIInv, IInv
<1>1. /\ TryQ(p) \in Twq /\ mutex' = [mutex EXCEPT ![TryQ(p)] = p]
      /\ UNCHANGED <<exit, exit_ack, running, ops, lfq, wpc, wjob, mpc, cur, ppc, pjob, ptwq, seen,
                     submitted, deferred, gp, finished>>
  BY TryQType DEF rr4idle_trylock, Lock, mainVars, prodVars, rcuVars
<1>2. TypeOK'
  BY <1>1 DEF TypeOK
<1>3. ControlInv'
  BY <1>1
     DEF ControlInv, LoopStart, Hands, NotCreated, InitAlone, Quiet, Flags, Joined, Flush,
         Closed, StoppedGone, Stopped, StartPc, StopPc, FlushPc, ClosedPc, ExitPc
<1>4. JobInv'
  BY <1>1, JobUnchanged DEF rcuVars
<1> QED
  BY <1>2, <1>3, <1>4

\* So does the enqueue.
LEMMA LockedEnqueue ==
  ASSUME ManIInv, NEW p \in Producer, add_job_locked(p)
  PROVE  IInv'
<1> USE DEF ManIInv, IInv
<1>1. /\ ppc[p] = "enq" /\ pjob[p] \in Job /\ ptwq[p] \in Twq
  BY DEF add_job_locked, PGoTo, TypeOK, ControlInv, Hands
<1>2. /\ ppc' = [ppc EXCEPT ![p] = "signal"] /\ PGoTo(p, "enq", "signal")
      /\ lfq' = [lfq EXCEPT ![ptwq[p]] = Append(@, pjob[p])]
      /\ pjob' = [pjob EXCEPT ![p] = NoJob] /\ seen' = [seen EXCEPT ![p] = NoJob]
      /\ gp' = [j \in Job |-> gp[j] \ {p}]
      /\ UNCHANGED <<exit, exit_ack, running, ops, mutex, wpc, wjob, mpc, cur, ptwq, submitted,
                     deferred, finished>>
  BY DEF add_job_locked, PGoTo, mainVars
<1>3. TypeOK'
  BY <1>1, <1>2 DEF TypeOK, ProducerPc
<1>4. ControlInv'
  BY <1>1, <1>2, NoJobAssumption
     DEF TypeOK, ControlInv, LoopStart, Hands, NotCreated, InitAlone, Quiet, Flags, Joined, Flush,
         Closed, StoppedGone, Stopped, StartPc, StopPc, FlushPc, ClosedPc, ExitPc
<1>5. JobInv'
  BY <1>1, <1>2, JobEnqueue
<1> QED
  BY <1>3, <1>4, <1>5

\* Every step keeps the invariant of ThreadWq_proofs.
LEMMA QueueStep ==
  ASSUME ManIInv, ManNext
  PROVE  IInv'
  BY StepKinds, NextIInv, LockFirst, LockedEnqueue DEF ManIInv

-----------------------------------------------------------------------------
(* The manager's own variables.                                              *)

\* Every step keeps their types.
LEMMA ManTypesStep ==
  ASSUME ManIInv, ManNext
  PROVE  ManTypes'
<1> USE TwqNumAssumption DEF ManIInv, ManTypes
<1>1. CASE UNCHANGED manVars
  BY <1>1 DEF manVars
<1>2. ASSUME NEW p \in Producer, NEW j \in Job, threadwq_man_add_job(p, j) PROVE ManTypes'
  BY <1>2 DEF threadwq_man_add_job, AGoTo
<1>3. ASSUME NEW p \in Producer, read_idx(p) PROVE ManTypes'
  BY <1>3 DEF read_idx, AGoTo
<1>4. ASSUME NEW p \in Producer, rr_add_job(p) PROVE ManTypes'
  BY <1>4 DEF rr_add_job, AGoTo, Use
<1>5. ASSUME NEW p \in Producer, rr4idle_busy(p) PROVE ManTypes'
  BY <1>5 DEF rr4idle_busy, TryQ
<1>6. ASSUME NEW p \in Producer, rr4idle_trylock(p) PROVE ManTypes'
  BY <1>6 DEF rr4idle_trylock, AGoTo, TryQ
<1>7. ASSUME NEW p \in Producer, rr4idle_add_job(p) PROVE ManTypes'
  <2>1. idx[p] \in 0 .. TwqNum
    BY <1>7 DEF rr4idle_add_job, AGoTo, CallInv, Twq
  <2> QED
    BY <1>7, <2>1 DEF rr4idle_add_job, AGoTo, Use
<1> QED
  BY <1>1, <1>2, <1>3, <1>4, <1>5, <1>6, <1>7 DEF ManNext, Others, ManProducer, Choosing, Adding

\* While a producer is inside cb_add_job, main waits for it.
LEMMA MainWaits ==
  ASSUME ManIInv, Others, NEW p \in Producer, apc[p] # "none"
  PROVE  mpc' = "serve"
<1> USE DEF ManIInv, IInv, twqVars, mainVars, prodVars, rcuVars
<1>1. mpc = "serve" /\ ppc[p] = "idle"
  BY DEF CallInv
<1>2. CASE MainStep
  BY <1>1, <1>2
     DEF MainStep, threadwq_init, threadwq_set_ops, threadwq_exec, threadwq_exec_fail,
         threadwq_exec_spin, JoinProducers, kill_lock, kill_broadcast, kill_poll, kill_join
<1>3. ASSUME NEW q \in Twq, WorkerStep(q) \/ spurious_wakeup(q)
      PROVE  mpc' = "serve"
  <2>1. ~worker_init_fail(q)
    BY <1>1 DEF worker_init_fail, ControlInv, InitAlone
  <2> QED
    BY <1>1, <1>3, <2>1
       DEF WorkerStep, exec_pending_jobs, worker_online, loop_continue, loop_leave,
           dequeue_one_job, dequeue_empty, cb_start, call_rcu, wait4job_lock, wait4job_wait,
           wait4job_relock, wait4job_unlock, worker_ack, worker_return, spurious_wakeup
<1>4. ASSUME NEW j \in Job, exec_finish_rcu(j)
      PROVE  mpc' = "serve"
  BY <1>1, <1>4 DEF exec_finish_rcu
<1> QED
  BY <1>2, <1>3, <1>4 DEF Others

\* Main, the workers and call_rcu leave the producers alone.
LEMMA OthersKeepProducers ==
  ASSUME Others
  PROVE  UNCHANGED <<prodVars, manVars>>
<1>1. CASE MainStep
  BY <1>1
     DEF Others, MainStep, threadwq_init, threadwq_set_ops, threadwq_exec, threadwq_exec_fail,
         threadwq_exec_spin, JoinProducers, kill_lock, kill_broadcast, kill_poll, kill_join
<1>2. ASSUME NEW q \in Twq, WorkerStep(q) \/ spurious_wakeup(q)
      PROVE  UNCHANGED prodVars
  BY <1>2
     DEF WorkerStep, exec_pending_jobs, worker_online, worker_init_fail, loop_continue, loop_leave,
         dequeue_one_job, dequeue_empty, cb_start, call_rcu, wait4job_lock, wait4job_wait,
         wait4job_relock, wait4job_unlock, worker_ack, worker_return, spurious_wakeup
<1> QED
  BY <1>1, <1>2 DEF Others, exec_finish_rcu

\* Every step keeps the calls of the manager in order.
LEMMA CallStep ==
  ASSUME ManIInv, ManNext
  PROVE  CallInv'
<1> USE NoJobAssumption DEF ManIInv, ManTypes
<1>1. CASE Others
  BY <1>1, OthersKeepProducers, MainWaits DEF CallInv, prodVars, manVars
<1>2. ASSUME NEW p \in Producer, NEW j \in Job, threadwq_man_add_job(p, j) PROVE CallInv'
  BY <1>2 DEF threadwq_man_add_job, AGoTo, CallInv, vars, prodVars, mainVars
<1>3. ASSUME NEW p \in Producer, read_idx(p) PROVE CallInv'
  BY <1>3 DEF read_idx, AGoTo, CallInv, vars, prodVars, mainVars, Policy
<1>4. ASSUME NEW p \in Producer, NEW j \in Job, NEW q \in Twq, submit(p, j, q),
             \A r \in Producer : ajob'[r] = IF r = p THEN NoJob ELSE ajob[r],
             \A r \in Producer : apc'[r] = IF r = p THEN "none" ELSE apc[r],
             \A r \in Producer : r # p => idx'[r] = idx[r],
             man_ops' = man_ops, j = ajob[p] \/ man_ops = "none"
      PROVE  CallInv'
  <2>1. submitted' = submitted \cup {j} /\ mpc' = mpc /\ j # NoJob /\ submitted \subseteq Job
    BY <1>4 DEF submit, mainVars, IInv, TypeOK
  <2>2. \A r \in Producer : r # p => ppc'[r] = ppc[r]
    BY <1>4 DEF submit, PGoTo, IInv, TypeOK
  <2> QED
    BY <1>4, <2>1, <2>2 DEF CallInv
<1>5. ASSUME NEW p \in Producer, rr_add_job(p) PROVE CallInv'
  <2>1. ajob[p] \in Job
    BY <1>5 DEF rr_add_job, AGoTo, CallInv
  <2>2. \E q \in Twq : submit(p, ajob[p], q)
    BY <1>5, TwqNumAssumption DEF rr_add_job, Use, Twq
  <2> QED
    BY <1>4, <1>5, <2>1, <2>2 DEF rr_add_job, AGoTo, Use
<1>6. ASSUME NEW p \in Producer, rr4idle_busy(p) PROVE CallInv'
  BY <1>6 DEF rr4idle_busy, CallInv, vars, prodVars, mainVars
<1>7. ASSUME NEW p \in Producer, rr4idle_trylock(p) PROVE CallInv'
  BY <1>7, TryQType DEF rr4idle_trylock, AGoTo, CallInv, prodVars, mainVars
<1>8. ASSUME NEW p \in Producer, rr4idle_add_job(p) PROVE CallInv'
  <2>1. ajob[p] \in Job /\ idx[p] \in Twq
    BY <1>8 DEF rr4idle_add_job, AGoTo, CallInv
  <2> QED
    BY <1>4, <1>8, <2>1 DEF rr4idle_add_job, AGoTo, Use
<1>9. ASSUME NEW p \in Producer, Adding(p) PROVE CallInv'
  <2>1. ASSUME NEW j \in Job, NEW q \in Twq, submit(p, j, q), man_ops = "none" PROVE CallInv'
    <3>1. apc[p] = "none" /\ ajob[p] = NoJob
      BY <2>1 DEF CallInv
    <3> QED
      BY <1>4, <1>9, <2>1, <3>1 DEF Adding, manVars
  <2>2. CASE \/ add_job_read_tail(p) \/ add_job_lock(p) \/ add_job_signal(p) \/ add_job_enqueue(p)
             \/ add_job_locked(p)
    <3>1. apc[p] = "none"
      BY <2>2
         DEF CallInv, add_job_read_tail, add_job_lock, add_job_signal, add_job_enqueue,
             add_job_locked, PGoTo
    <3>2. /\ \A r \in Producer : r # p => ppc'[r] = ppc[r]
          /\ mpc' = mpc /\ submitted' = submitted
      BY <2>2
         DEF add_job_read_tail, add_job_lock, add_job_signal, add_job_enqueue, add_job_locked,
             PGoTo, IInv, TypeOK, mainVars
    <3> QED
      BY <1>9, <3>1, <3>2 DEF CallInv, Adding, manVars
  <2>3. CASE apc[p] = "none" /\ producer_return(p)
    BY <1>9, <2>3 DEF CallInv, Adding, manVars, producer_return, PGoTo, mainVars, IInv, TypeOK
  <2> QED
    BY <1>9, <2>1, <2>2, <2>3 DEF Adding
<1>10. CASE Terminated /\ UNCHANGED manVars
  BY <1>10 DEF Terminated, vars, prodVars, mainVars, manVars, CallInv
<1> QED
  BY <1>1, <1>2, <1>3, <1>5, <1>6, <1>7, <1>8, <1>9, <1>10 DEF ManNext, ManProducer, Choosing

\* A step that touches no mutex and brings nobody to a place that needs one.
LEMMA MutexKept ==
  ASSUME MutexInv, UNCHANGED <<mutex, man_ops>>,
         \A q \in Twq : wpc'[q] \in {"hold", "unlock"} => wpc[q] \in {"hold", "unlock"},
         \A p \in Producer, q \in Twq : HoldsMutex(p, q)' => HoldsMutex(p, q),
         mpc' = "bcast" => mpc = "bcast" /\ cur' = cur
  PROVE  MutexInv'
  BY DEF MutexInv

\* Main takes a mutex only to count exit, and gives it back.
LEMMA MutexMain ==
  ASSUME ManIInv, MainStep, UNCHANGED manVars
  PROVE  MutexInv'
<1> USE ProducerAssumption DEF ManIInv, IInv, manVars, twqVars, mainVars, prodVars, rcuVars
<1>1. UNCHANGED <<ppc, ptwq, manVars>>
  BY DEF MainStep, threadwq_init, threadwq_set_ops, threadwq_exec, threadwq_exec_fail,
         threadwq_exec_spin, JoinProducers, kill_lock, kill_broadcast, kill_poll, kill_join
<1>2. \A p \in Producer, r \in Twq : HoldsMutex(p, r)' <=> HoldsMutex(p, r)
  BY <1>1 DEF HoldsMutex
<1>3. CASE threadwq_init
  <2>1. /\ \A p \in Producer, q \in Twq : ~HoldsMutex(p, q)
        /\ \A q \in Twq : wpc[q] = "none"
    BY <1>3 DEF threadwq_init, HoldsMutex, ControlInv, Quiet, StartPc, NotCreated, CallInv
  <2>2. mpc' # "bcast" /\ wpc' = wpc
    BY <1>3 DEF threadwq_init, Advance
  <2> QED
    BY <1>2, <2>1, <2>2 DEF MutexInv
<1>4. CASE threadwq_set_ops \/ threadwq_exec_spin \/ threadwq_exec_fail
  BY <1>1, <1>2, <1>4, MutexKept
     DEF threadwq_set_ops, threadwq_exec_spin, threadwq_exec_fail, Advance
<1>5. CASE threadwq_exec
  <2>1. \A q \in Twq : wpc'[q] \in {"hold", "unlock"} => wpc[q] \in {"hold", "unlock"}
    BY <1>5 DEF threadwq_exec, TypeOK
  <2> QED
    BY <1>1, <1>2, <1>5, <2>1, MutexKept DEF threadwq_exec
<1>6. CASE JoinProducers \/ kill_poll \/ kill_join
  BY <1>1, <1>2, <1>6, MutexKept DEF JoinProducers, kill_poll, kill_join, Advance
<1>7. CASE kill_lock
  BY <1>1, <1>2, <1>7 DEF kill_lock, Lock, MutexInv, TypeOK
<1>8. CASE kill_broadcast
  <2>1. mutex[cur] = "main" /\ cur \in Twq
    BY <1>8 DEF kill_broadcast, MutexInv, TypeOK
  <2>2. \A p \in Producer : ~HoldsMutex(p, cur)
    BY <2>1 DEF MutexInv
  <2>3. \A q \in Twq : wpc'[q] \in {"hold", "unlock"} => wpc[q] \in {"hold", "unlock"} /\ q # cur
    BY <1>8, <2>1 DEF kill_broadcast, Wake, MutexInv, TypeOK
  <2>4. \A q \in Twq : q # cur => mutex'[q] = mutex[q]
    BY <1>8 DEF kill_broadcast, Unlock, TypeOK
  <2>5. mpc' # "bcast"
    BY <1>8 DEF kill_broadcast
  <2> QED
    BY <1>1, <1>2, <2>2, <2>3, <2>4, <2>5 DEF MutexInv, TypeOK
<1> QED
  BY <1>3, <1>4, <1>5, <1>6, <1>7, <1>8 DEF MainStep

\* A worker takes its own mutex when it is free and gives back what it has.
LEMMA MutexWorker ==
  ASSUME ManIInv, NEW q \in Twq, WorkerStep(q) \/ spurious_wakeup(q), UNCHANGED manVars
  PROVE  MutexInv'
<1> USE ProducerAssumption DEF ManIInv, IInv, manVars, twqVars, mainVars, prodVars, rcuVars
<1>1. /\ UNCHANGED <<ppc, ptwq, manVars>>
      /\ mpc' = "bcast" => mpc = "bcast" /\ cur' = cur
  BY DEF WorkerStep, exec_pending_jobs, worker_online, worker_init_fail, loop_continue, loop_leave,
         dequeue_one_job, dequeue_empty, cb_start, call_rcu, wait4job_lock, wait4job_wait,
         wait4job_relock, wait4job_unlock, worker_ack, worker_return, spurious_wakeup
<1>2. \A p \in Producer, r \in Twq : HoldsMutex(p, r)' <=> HoldsMutex(p, r)
  BY <1>1 DEF HoldsMutex
<1>3. CASE wait4job_lock(q) \/ wait4job_relock(q)
  <2>1. mutex[q] = "free" /\ mutex'[q] = "worker"
    BY <1>3 DEF wait4job_lock, wait4job_relock, Lock, TypeOK
  <2>2. \A r \in Twq : r # q => mutex'[r] = mutex[r] /\ wpc'[r] = wpc[r]
    BY <1>3 DEF wait4job_lock, wait4job_relock, GoTo, Lock, TypeOK
  <2>3. \A p \in Producer : ~HoldsMutex(p, q)
    BY <2>1 DEF MutexInv
  <2>4. mpc' = "bcast" => cur # q
    BY <1>1, <2>1 DEF MutexInv
  <2>5. \A p \in Producer, r \in Twq : HoldsMutex(p, r)' => mutex'[r] = p
    BY <1>2, <2>2, <2>3 DEF MutexInv
  <2>6. \A r \in Twq : wpc'[r] \in {"hold", "unlock"} => mutex'[r] = "worker"
    BY <2>1, <2>2 DEF MutexInv
  <2> QED
    BY <1>1, <2>2, <2>4, <2>5, <2>6 DEF MutexInv, TypeOK
<1>4. CASE wait4job_wait(q) \/ wait4job_unlock(q)
  <2>1. mutex[q] = "worker"
    BY <1>4 DEF wait4job_wait, wait4job_unlock, GoTo, MutexInv
  <2>2. /\ \A r \in Twq : r # q => mutex'[r] = mutex[r] /\ wpc'[r] = wpc[r]
        /\ wpc'[q] \notin {"hold", "unlock"}
    BY <1>4 DEF wait4job_wait, wait4job_unlock, GoTo, Unlock, TypeOK
  <2>3. \A p \in Producer : ~HoldsMutex(p, q)
    BY <2>1 DEF MutexInv
  <2>4. mpc' = "bcast" => cur # q
    BY <1>1, <2>1 DEF MutexInv
  <2>5. \A p \in Producer, r \in Twq : HoldsMutex(p, r)' => mutex'[r] = p
    BY <1>2, <2>2, <2>3 DEF MutexInv
  <2>6. \A r \in Twq : wpc'[r] \in {"hold", "unlock"} => mutex'[r] = "worker"
    BY <2>2 DEF MutexInv
  <2> QED
    BY <1>1, <2>2, <2>4, <2>5, <2>6 DEF MutexInv, TypeOK
<1>5. CASE \/ worker_online(q) \/ worker_init_fail(q) \/ loop_continue(q) \/ loop_leave(q)
           \/ dequeue_one_job(q, "deq", "run") \/ dequeue_one_job(q, "fdeq", "frun")
           \/ dequeue_empty(q, "deq", "lock") \/ dequeue_empty(q, "fdeq", "bye")
  <2>1. /\ mutex' = mutex
        /\ \A r \in Twq : wpc'[r] \in {"hold", "unlock"} => wpc[r] \in {"hold", "unlock"}
    BY <1>5 DEF worker_online, worker_init_fail, loop_continue, loop_leave, dequeue_one_job,
                dequeue_empty, GoTo, TypeOK
  <2> QED
    BY <1>1, <1>2, <2>1, MutexKept
<1>6. CASE \/ cb_start(q, "run", "defer") \/ cb_start(q, "frun", "fdefer")
           \/ call_rcu(q, "defer", "deq") \/ call_rcu(q, "fdefer", "fdeq")
           \/ worker_ack(q) \/ worker_return(q) \/ spurious_wakeup(q)
  <2>1. /\ mutex' = mutex
        /\ \A r \in Twq : wpc'[r] \in {"hold", "unlock"} => wpc[r] \in {"hold", "unlock"}
    BY <1>6 DEF cb_start, call_rcu, worker_ack, worker_return, spurious_wakeup, GoTo, TypeOK
  <2> QED
    BY <1>1, <1>2, <2>1, MutexKept
<1> QED
  BY <1>3, <1>4, <1>5, <1>6 DEF WorkerStep, exec_pending_jobs

\* A producer takes the mutex of its queue when it is free, and keeps it until
\* it has signalled.
LEMMA MutexProducer ==
  ASSUME ManIInv, NEW p \in Producer, ManProducer(p)
  PROVE  MutexInv'
<1> USE ProducerAssumption DEF ManIInv, IInv, manVars, twqVars, mainVars, rcuVars
<1>1. CASE (\E j \in Job : threadwq_man_add_job(p, j)) \/ read_idx(p) \/ rr4idle_busy(p)
  <2>1. \A r \in Producer, k \in Twq : HoldsMutex(r, k)' => HoldsMutex(r, k)
    BY <1>1 DEF threadwq_man_add_job, read_idx, rr4idle_busy, AGoTo, vars, prodVars, HoldsMutex,
                ManTypes
  <2> QED
    BY <1>1, <2>1, MutexKept DEF threadwq_man_add_job, read_idx, rr4idle_busy, vars
<1>2. ASSUME NEW j, NEW q \in Twq, submit(p, j, q), man_ops # "rr4idle", man_ops' = man_ops,
             \A r \in Producer : apc'[r] = "set" => apc[r] = "set" /\ idx'[r] = idx[r]
      PROVE  MutexInv'
  <2>1. \A r \in Producer, k \in Twq : HoldsMutex(r, k)' => HoldsMutex(r, k)
    BY <1>2 DEF submit, PGoTo, HoldsMutex, TypeOK
  <2> QED
    BY <1>2, <2>1, MutexKept DEF submit
<1>3. CASE man_ops = "rr" /\ rr_add_job(p)
  <2>1. \E q \in Twq : submit(p, ajob[p], q)
    BY <1>3, TwqNumAssumption DEF rr_add_job, Use, Twq, ManTypes
  <2>2. \A r \in Producer : apc'[r] = "set" => apc[r] = "set" /\ idx'[r] = idx[r]
    BY <1>3 DEF rr_add_job, AGoTo, ManTypes
  <2> QED
    BY <1>2, <1>3, <2>1, <2>2 DEF rr_add_job
<1>4. CASE rr4idle_trylock(p)
  <2> DEFINE q == TryQ(p)
  <2>1. q \in Twq
    BY TryQType
  <2>2. /\ mutex[q] = "free" /\ mutex' = [mutex EXCEPT ![q] = p]
        /\ idx' = [idx EXCEPT ![p] = q] /\ apc' = [apc EXCEPT ![p] = "set"]
        /\ ppc[p] = "idle"
        /\ UNCHANGED <<wpc, mpc, cur, man_ops, ppc, ptwq>>
    BY <1>4 DEF rr4idle_trylock, AGoTo, Lock, prodVars, CallInv
  <2> HIDE DEF q
  <2>3. \A r \in Producer, k \in Twq : HoldsMutex(r, k)' => (r = p /\ k = q) \/ HoldsMutex(r, k)
    BY <2>1, <2>2 DEF HoldsMutex, ManTypes
  <2> QED
    BY <2>1, <2>2, <2>3 DEF MutexInv, TypeOK
<1>5. CASE man_ops # "rr4idle" /\ add_job_enqueue(p) /\ UNCHANGED manVars
  <2>1. \A r \in Producer, k \in Twq : HoldsMutex(r, k)' => HoldsMutex(r, k)
    BY <1>5 DEF add_job_enqueue, PGoTo, HoldsMutex, TypeOK
  <2> QED
    BY <1>5, <2>1, MutexKept DEF add_job_enqueue
<1>6. CASE man_ops = "rr4idle" /\ add_job_locked(p) /\ UNCHANGED manVars
  <2>1. \A r \in Producer, k \in Twq : HoldsMutex(r, k)' => HoldsMutex(r, k)
    BY <1>6 DEF add_job_locked, PGoTo, HoldsMutex, TypeOK
  <2> QED
    BY <1>6, <2>1, MutexKept DEF add_job_locked
<1>7. CASE (add_job_read_tail(p) \/ producer_return(p)) /\ UNCHANGED manVars
  <2>1. \A r \in Producer, k \in Twq : HoldsMutex(r, k)' => HoldsMutex(r, k)
    BY <1>7 DEF add_job_read_tail, producer_return, PGoTo, HoldsMutex, TypeOK
  <2> QED
    BY <1>7, <2>1, MutexKept DEF add_job_read_tail, producer_return
<1>8. CASE add_job_lock(p) /\ UNCHANGED manVars
  BY <1>8 DEF add_job_lock, PGoTo, Lock, MutexInv, HoldsMutex, TypeOK
<1>9. CASE add_job_signal(p) /\ UNCHANGED manVars
  <2>1. mutex[ptwq[p]] = p /\ ptwq[p] \in Twq
    BY <1>9 DEF add_job_signal, PGoTo, MutexInv, HoldsMutex, TypeOK
  <2>2. /\ \A q \in Twq : q # ptwq[p] => mutex'[q] = mutex[q]
        /\ \A q \in Twq : wpc'[q] \in {"hold", "unlock"} => wpc[q] \in {"hold", "unlock"}
        /\ UNCHANGED <<mpc, cur, ptwq>>
    BY <1>9 DEF add_job_signal, Unlock, Wake, TypeOK
  <2>3. \A r \in Producer, k \in Twq : HoldsMutex(r, k)' => HoldsMutex(r, k) /\ r # p
    BY <1>9 DEF add_job_signal, PGoTo, HoldsMutex, TypeOK, CallInv
  <2>4. \A q \in Twq : wpc[q] \in {"hold", "unlock"} => q # ptwq[p]
    BY <2>1 DEF MutexInv
  <2>5. \A r \in Producer : r # p => ~HoldsMutex(r, ptwq[p])
    BY <2>1 DEF MutexInv
  <2>6. mpc = "bcast" => cur # ptwq[p]
    BY <2>1 DEF MutexInv
  <2>7. \A r \in Producer, k \in Twq : HoldsMutex(r, k)' => mutex'[k] = r
    BY <2>2, <2>3, <2>5 DEF MutexInv
  <2>8. \A q \in Twq : wpc'[q] \in {"hold", "unlock"} => mutex'[q] = "worker"
    BY <2>2, <2>4 DEF MutexInv
  <2> QED
    BY <2>2, <2>6, <2>7, <2>8 DEF MutexInv, TypeOK
<1>10. CASE man_ops = "rr4idle" /\ rr4idle_add_job(p)
  <2>1. /\ idx[p] \in Twq /\ apc[p] = "set"
        /\ ppc' = [ppc EXCEPT ![p] = "add"] /\ ptwq' = [ptwq EXCEPT ![p] = idx[p]]
        /\ apc' = [apc EXCEPT ![p] = "none"] /\ idx' = [idx EXCEPT ![p] = 0]
        /\ UNCHANGED <<mutex, wpc, mpc, cur, man_ops>>
    BY <1>10 DEF rr4idle_add_job, AGoTo, Use, submit, PGoTo, CallInv
  <2>2. \A r \in Producer, k \in Twq : HoldsMutex(r, k)' => HoldsMutex(r, k)
    BY <2>1 DEF HoldsMutex, ManTypes, TypeOK
  <2> QED
    BY <2>1, <2>2, MutexKept
<1> QED
  BY <1>1, <1>2, <1>3, <1>4, <1>5, <1>6, <1>7, <1>8, <1>9, <1>10 DEF ManProducer, Choosing, Adding

\* Every step keeps the owners of the mutexes.
LEMMA MutexStep ==
  ASSUME ManIInv, ManNext
  PROVE  MutexInv'
<1>1. CASE Others
  <2>1. ASSUME NEW j \in Job, exec_finish_rcu(j), UNCHANGED manVars PROVE MutexInv'
    BY <2>1 DEF exec_finish_rcu, manVars, twqVars, mainVars, prodVars, MutexInv, HoldsMutex,
                ManIInv
  <2> QED
    BY <1>1, <2>1, MutexMain, MutexWorker DEF Others
<1>2. CASE Terminated /\ UNCHANGED manVars
  BY <1>2 DEF Terminated, vars, manVars, twqVars, mainVars, prodVars, MutexInv, HoldsMutex, ManIInv
<1> QED
  BY <1>1, <1>2, MutexProducer DEF ManNext

-----------------------------------------------------------------------------
(* The shared index.                                                         *)

\* The number of writers about to increment, when one joins or leaves them.
LEMMA AdvancingCount ==
  /\ IsFiniteSet(Advancing) /\ Cardinality(Advancing) \in Nat
  /\ Cardinality(Producer) \in Nat
  /\ \A p \in Producer : p \notin Advancing =>
       Cardinality(Advancing) + 1 <= Cardinality(Producer)
<1>1. IsFiniteSet(Advancing) /\ Cardinality(Advancing) \in Nat /\ Cardinality(Producer) \in Nat
  BY ProducersFinite, FS_Subset, FS_CardinalityType DEF Advancing
<1>2. ASSUME NEW p \in Producer, p \notin Advancing
      PROVE  Cardinality(Advancing) + 1 <= Cardinality(Producer)
  <2>1. Advancing \cup {p} \subseteq Producer
    BY DEF Advancing
  <2>2. Cardinality(Advancing \cup {p}) = Cardinality(Advancing) + 1
    BY <1>1, <1>2, FS_AddElement
  <2>3. Cardinality(Advancing \cup {p}) <= Cardinality(Producer)
    BY <2>1, ProducersFinite, FS_Subset
  <2> QED
    BY <2>2, <2>3
<1> QED
  BY <1>1, <1>2

\* Every step keeps the index near the table.
LEMMA IndexStep ==
  ASSUME ManIInv, ManNext
  PROVE  SharedIndexStaysNearTable'
<1> DEFINE C == Cardinality(Advancing)
           P == Cardinality(Producer)
<1> USE TwqNumAssumption DEF ManIInv, ManTypes
<1>1. twq_idx + C <= TwqNum + P - 1 /\ C \in Nat /\ P \in Nat
  BY AdvancingCount DEF SharedIndexStaysNearTable, Advancing
<1>2. SharedIndexStaysNearTable' <=> twq_idx' + Cardinality(Advancing') <= TwqNum + P - 1
  BY DEF SharedIndexStaysNearTable, Advancing
<1>3. CASE UNCHANGED <<twq_idx, idx, apc>>
  <2>1. Advancing' = Advancing
    BY <1>3 DEF Advancing
  <2> QED
    BY <1>1, <1>2, <1>3, <2>1
<1>4. ASSUME NEW p \in Producer, NEW j \in Job, threadwq_man_add_job(p, j)
      PROVE  SharedIndexStaysNearTable'
  <2>1. Advancing' = Advancing
    BY <1>4 DEF threadwq_man_add_job, AGoTo, Advancing
  <2> QED
    BY <1>1, <1>2, <1>4, <2>1 DEF threadwq_man_add_job
<1>5. ASSUME NEW p \in Producer, read_idx(p) PROVE SharedIndexStaysNearTable'
  <2>1. p \notin Advancing /\ C + 1 <= P
    BY <1>5, AdvancingCount DEF read_idx, AGoTo, Advancing
  <2>2. twq_idx' = twq_idx
    BY <1>5 DEF read_idx
  <2>3. CASE man_ops = "rr" /\ twq_idx < TwqNum
    <3>1. Advancing' = Advancing \cup {p}
      BY <1>5, <2>3 DEF read_idx, AGoTo, Advancing
    <3>2. Cardinality(Advancing') = C + 1
      BY <2>1, <3>1, AdvancingCount, FS_AddElement
    <3> QED
      BY <1>1, <1>2, <2>1, <2>2, <2>3, <3>2
  <2>4. CASE ~(man_ops = "rr" /\ twq_idx < TwqNum)
    <3>1. Advancing' = Advancing
      BY <1>5, <2>4 DEF read_idx, AGoTo, Advancing
    <3> QED
      BY <1>1, <1>2, <2>2, <3>1
  <2> QED
    BY <2>3, <2>4
<1>6. ASSUME NEW p \in Producer, rr_add_job(p) PROVE SharedIndexStaysNearTable'
  <2>1. Advancing' = Advancing \ {p}
    BY <1>6 DEF rr_add_job, AGoTo, Advancing
  <2>2. CASE idx[p] < TwqNum
    <3>1. p \in Advancing /\ twq_idx' = twq_idx + 1
      BY <1>6, <2>2 DEF rr_add_job, AGoTo, Advancing
    <3>2. Cardinality(Advancing') = C - 1
      BY <2>1, <3>1, AdvancingCount, FS_RemoveElement
    <3> QED
      BY <1>1, <1>2, <3>1, <3>2
  <2>3. CASE idx[p] >= TwqNum
    <3>1. p \notin Advancing /\ twq_idx' = 0
      BY <1>6, <2>3 DEF rr_add_job, Advancing
    <3>2. Advancing' = Advancing /\ C + 1 <= P
      BY <2>1, <3>1, AdvancingCount
    <3> QED
      BY <1>1, <1>2, <3>1, <3>2
  <2> QED
    BY <2>2, <2>3
<1>7. ASSUME NEW p \in Producer, rr4idle_busy(p) PROVE SharedIndexStaysNearTable'
  <2>1. Advancing' = Advancing
    BY <1>7 DEF rr4idle_busy, Advancing
  <2> QED
    BY <1>1, <1>2, <1>7, <2>1 DEF rr4idle_busy
<1>8. ASSUME NEW p \in Producer, rr4idle_add_job(p) PROVE SharedIndexStaysNearTable'
  <2>1. Advancing = {} /\ man_ops = "rr4idle"
    BY <1>8 DEF rr4idle_add_job, AGoTo, Advancing, CallInv
  <2>2. Advancing' = {} /\ twq_idx' = idx[p] + 1
    BY <1>8, <2>1 DEF rr4idle_add_job, AGoTo, Advancing
  <2>3. Cardinality({}) = 0 /\ C + 1 <= P
    BY <2>1, AdvancingCount, FS_EmptySet
  <2>4. idx[p] \in Nat /\ idx[p] < TwqNum
    BY <1>8 DEF rr4idle_add_job, AGoTo, CallInv, Twq
  <2> QED
    BY <1>1, <1>2, <2>1, <2>2, <2>3, <2>4
<1>9. ASSUME NEW p \in Producer, rr4idle_trylock(p) PROVE SharedIndexStaysNearTable'
  <2>1. Advancing' = Advancing
    BY <1>9 DEF rr4idle_trylock, AGoTo, Advancing
  <2> QED
    BY <1>1, <1>2, <1>9, <2>1 DEF rr4idle_trylock
<1> QED
  BY <1>3, <1>4, <1>5, <1>6, <1>7, <1>8, <1>9
     DEF ManNext, Others, ManProducer, Choosing, Adding, manVars

-----------------------------------------------------------------------------
(* The theorems.                                                             *)

\* The invariant holds initially.
LEMMA InitManIInv ==
  ASSUME ManInit
  PROVE  ManIInv
<1> USE TwqNumAssumption, ProducersFinite DEF ManInit
<1>1. IInv
  BY InitIInv
<1>2. ManTypes /\ CallInv
  BY DEF ManTypes, CallInv, Init
<1>3. MutexInv
  BY DEF MutexInv, HoldsMutex, Init
<1>4. Advancing = {}
  BY DEF Advancing
<1>5. SharedIndexStaysNearTable
  BY <1>4, FS_EmptySet, FS_CardinalityType DEF SharedIndexStaysNearTable, Advancing
<1> QED
  BY <1>1, <1>2, <1>3, <1>5 DEF ManIInv

\* Every step keeps it.
LEMMA NextManIInv ==
  ASSUME ManIInv, [ManNext]_allVars
  PROVE  ManIInv'
<1>1. CASE ManNext
  BY <1>1, QueueStep, ManTypesStep, CallStep, MutexStep, IndexStep DEF ManIInv
<1>2. CASE UNCHANGED allVars
  <2>1. UNCHANGED vars /\ UNCHANGED manVars
    BY <1>2 DEF allVars
  <2>2. IInv'
    BY <2>1, NextIInv DEF ManIInv
  <2>3. ManTypes' /\ CallInv' /\ MutexInv'
    BY <2>1 DEF ManIInv, ManTypes, CallInv, MutexInv, HoldsMutex, vars, manVars, twqVars, mainVars,
                prodVars
  <2>4. SharedIndexStaysNearTable'
    BY <2>1 DEF ManIInv, SharedIndexStaysNearTable, manVars
  <2> QED
    BY <2>2, <2>3, <2>4 DEF ManIInv
<1> QED
  BY <1>1, <1>2

\* With a manager, whatever its policy and however many writers share its index,
\* everything that holds of the queues without it still holds.
THEOREM ManIInvariant == ManSpec => []ManIInv
<1>1. ManInit => ManIInv
  BY InitManIInv
<1>2. ManIInv /\ [ManNext]_allVars => ManIInv'
  BY NextManIInv
<1> QED
  BY <1>1, <1>2, PTL DEF ManSpec

\* The fields of struct threadwq_man and the locals of cb_add_job keep their types;
\* in particular a queue outside the table is never chosen.
THEOREM ManTypeCorrect == ManSpec => []ManTypeOK
<1>1. ManIInv => ManTypeOK
  BY DEF ManIInv, IInv, ManTypes, ManTypeOK
<1> QED
  BY <1>1, ManIInvariant, PTL

\* Writers that race on twq_idx move it at most one past the table each.
THEOREM IndexStaysNearTable == ManSpec => []SharedIndexStaysNearTable
<1>1. ManIInv => SharedIndexStaysNearTable
  BY DEF ManIInv
<1> QED
  BY <1>1, ManIInvariant, PTL

\* With rr4idle a job goes into a queue only while its worker is not between the
\* lock and the wait of wait4job, so the signal that follows is not lost there.
THEOREM LockedAddIsSafe == ManSpec => []LockedAddExcludesWorker
<1>1. ManIInv => LockedAddExcludesWorker
  BY ProducerAssumption DEF ManIInv, IInv, TypeOK, MutexInv, HoldsMutex, LockedAddExcludesWorker
<1> QED
  BY <1>1, ManIInvariant, PTL

\* The safety of threadwq_exit, call_rcu and worker_init does not depend on how
\* jobs are spread over the queues.
THEOREM ManKeepsQueues ==
  ManSpec => [](StoppedQueueIsDrained /\ NoJobLostAtExit /\ NoReaderHoldsFinishedJob
                  /\ WorkerInitRunsAlone)
<1>1. ManIInv => StoppedQueueIsDrained /\ NoJobLostAtExit /\ NoReaderHoldsFinishedJob
                   /\ WorkerInitRunsAlone
  BY IInvDrained, IInvNoJobLost, IInvUnreachable, IInvInitAlone DEF ManIInv
<1> QED
  BY <1>1, ManIInvariant, PTL

\* Jobs given to the manager are delivered as the abstract queue says: run once,
\* in the order of their queue, by one worker.
THEOREM ManDeliversJobs == ManSpec => ImplementsJobDelivery
<1>1. ManInit => JD!JDInit
  BY InitRefines DEF ManInit
<1>2. ManIInv /\ [ManNext]_allVars => [JD!JDNext]_(JD!jdVars)
  <2> SUFFICES ASSUME ManIInv, [ManNext]_allVars PROVE [JD!JDNext]_(JD!jdVars)
    OBVIOUS
  <2>1. CASE [Next]_vars
    BY <2>1, NextRefines DEF ManIInv
  <2>2. ASSUME NEW p \in Producer, rr4idle_trylock(p) PROVE UNCHANGED JD!jdVars
    BY <2>2 DEF rr4idle_trylock, JD!jdVars, prodVars, rcuVars
  <2>3. ASSUME NEW p \in Producer, add_job_locked(p) PROVE JD!JDNext
    BY <2>3, EnqueueDelivers DEF add_job_locked, PGoTo, JD!JDNext, ManIInv
  <2> QED
    BY <2>1, <2>2, <2>3, StepKinds DEF allVars
<1> QED
  BY <1>1, <1>2, ManIInvariant, PTL DEF ManSpec, ImplementsJobDelivery, JD!JDSpec
=============================================================================
