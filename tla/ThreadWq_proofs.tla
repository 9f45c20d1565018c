--------------------------- MODULE ThreadWq_proofs ---------------------------
(***************************************************************************)
(* Proofs about ThreadWq, for every number of queues, producers and jobs    *)
(* and every width of the exit counter.                                     *)
(***************************************************************************)
EXTENDS ThreadWq, TLAPS

(* The inductive invariant.  First the control part: which thread can be    *)
(* where while main is where it is.                                         *)

StartPc == {"init", "setops", "exec", "spin"}
StopPc  == ExitPc \cup {"done"}
FlushPc == {"fdeq", "frun", "fdefer", "bye", "ack", "gone"}
ClosedPc == {"bye", "ack", "gone"}

\* A thread has a job in hand exactly between taking it and passing it on.
Hands ==
  /\ \A q \in Twq : wjob[q] # NoJob <=> wpc[q] \in {"run", "defer", "frun", "fdefer"}
  /\ \A p \in Producer : pjob[p] # NoJob <=> ppc[p] \in {"add", "enq"}

\* Workers are created in table order, each after the one before is online.
NotCreated ==
  \A q \in Twq :
    /\ mpc \in {"init", "setops"} => wpc[q] = "none"
    /\ mpc = "exec" /\ q >= cur => wpc[q] = "none"
    /\ mpc = "spin" /\ q > cur => wpc[q] = "none"

InitAlone ==
  \A q \in Twq : wpc[q] = "init" => mpc \in {"spin", "aborted"} /\ q = cur

\* Nobody produces before every worker is online.
Quiet ==
  mpc \in StartPc \cup {"aborted"} =>
    /\ \A p \in Producer : ppc[p] = "idle"
    /\ \A q \in Twq : lfq[q] = <<>> /\ wjob[q] = NoJob

\* What the flags of a queue say once threadwq_init has reset them.
Flags ==
  \A q \in Twq :
    (mpc = "init" => q < cur) /\ mpc \in StartPc \cup {"serve"} =>
      /\ exit[q] = 0
      /\ running[q] = 1 => wpc[q] \notin {"none", "init"}

Joined == mpc \in StopPc => \A p \in Producer : ppc[p] = "done"

\* A worker only flushes its queue once main is past the join.
Flush == \A q \in Twq : wpc[q] \in FlushPc => mpc \in StopPc

Closed == \A q \in Twq : wpc[q] \in ClosedPc => lfq[q] = <<>>

StoppedGone == \A q \in Twq : Stopped(q) => wpc[q] = "gone"

\* The loops over the table start at its first entry.
LoopStart == mpc = "serve" => cur = 0

ControlInv ==
  /\ LoopStart
  /\ Hands /\ NotCreated /\ InitAlone /\ Quiet /\ Flags
  /\ Joined /\ Flush /\ Closed /\ StoppedGone

(* Then the jobs: each submitted job is in exactly one place.               *)

Queued(j) == \E q \in Twq : \E i \in 1 .. Len(lfq[q]) : lfq[q][i] = j

NoDuplicates ==
  /\ \A p, r \in Producer : pjob[p] = pjob[r] /\ pjob[p] # NoJob => p = r
  /\ \A q, r \in Twq : wjob[q] = wjob[r] /\ wjob[q] # NoJob => q = r
  /\ \A q, r \in Twq :
       \A i \in 1 .. Len(lfq[q]), k \in 1 .. Len(lfq[r]) :
         lfq[q][i] = lfq[r][k] => q = r /\ i = k

Disjoint ==
  \A j \in Job :
    /\ \A p \in Producer : pjob[p] = j =>
         ~Queued(j) /\ (\A q \in Twq : wjob[q] # j) /\ j \notin deferred \cup finished
    /\ Queued(j) => (\A q \in Twq : wjob[q] # j) /\ j \notin deferred \cup finished
    /\ \A q \in Twq : wjob[q] = j => j \notin deferred \cup finished
    /\ ~(j \in deferred /\ j \in finished)

Conserved ==
  \A j \in Job :
    j \in submitted <=>
      \/ \E p \in Producer : pjob[p] = j
      \/ Queued(j)
      \/ \E q \in Twq : wjob[q] = j
      \/ j \in deferred \cup finished

\* A reader's node is in the queue, in a worker's hand, or waits for the reader.
Protected ==
  \A p \in Producer : seen[p] # NoJob =>
    /\ ppc[p] = "enq"
    /\ \/ Queued(seen[p])
       \/ \E q \in Twq : wjob[q] = seen[p]
       \/ seen[p] \in deferred /\ p \in gp[seen[p]]

JobInv == NoDuplicates /\ Disjoint /\ Conserved /\ Protected

IInv == TypeOK /\ ControlInv /\ JobInv

-----------------------------------------------------------------------------
\* Arithmetic of table indices.
LEMMA TwqOrder ==
  ASSUME cur \in Twq, NEW q \in Twq
  PROVE  /\ q \in Nat /\ cur \in Nat /\ 0 \in Twq
         /\ q < TwqNum
         /\ q # cur <=> (q < cur \/ q > cur)
         /\ q < cur + 1 <=> (q < cur \/ q = cur)
         /\ q >= cur + 1 <=> q > cur
         /\ ~(cur + 1 < TwqNum) => q <= cur
  BY TwqNumAssumption DEF Twq

\* The loops of the _multi functions stay inside the table.
LEMMA AdvanceType ==
  ASSUME cur \in Twq, NEW again \in MainPc, NEW next \in MainPc,
         Advance(again, next)
  PROVE  cur' \in Twq /\ mpc' \in MainPc
  BY TwqNumAssumption DEF Advance, Twq
\* Every step keeps the types.
LEMMA TypeStep ==
  ASSUME TypeOK, Hands, Next
  PROVE  TypeOK'
<1> USE TwqNumAssumption, ExitModAssumption DEF TypeOK, twqVars, mainVars, prodVars, rcuVars
<1>1. CASE threadwq_init
  <2>1. \A again, next : Advance(again, next) /\ again \in MainPc /\ next \in MainPc
          => cur' \in Twq /\ mpc' \in MainPc
    BY AdvanceType
  <2> QED
    BY <1>1, <2>1 DEF threadwq_init, MainPc, ExitPc
<1>2. CASE threadwq_set_ops
  <2>1. \A again, next : Advance(again, next) /\ again \in MainPc /\ next \in MainPc
          => cur' \in Twq /\ mpc' \in MainPc
    BY AdvanceType
  <2> QED
    BY <1>2, <2>1 DEF threadwq_set_ops, MainPc, ExitPc
<1>3. CASE threadwq_exec
  BY <1>3 DEF threadwq_exec, WorkerPc, MainPc, ExitPc
<1>4. CASE threadwq_exec_fail
  BY <1>4 DEF threadwq_exec_fail, MainPc, ExitPc
<1>5. CASE threadwq_exec_spin
  <2>1. \A again, next : Advance(again, next) /\ again \in MainPc /\ next \in MainPc
          => cur' \in Twq /\ mpc' \in MainPc
    BY AdvanceType
  <2> QED
    BY <1>5, <2>1 DEF threadwq_exec_spin, MainPc, ExitPc
<1>6. CASE JoinProducers
  BY <1>6 DEF JoinProducers, MainPc, ExitPc
<1>7. CASE kill_lock
  BY <1>7 DEF kill_lock, Lock, MainPc, ExitPc
<1>8. CASE kill_broadcast
  BY <1>8 DEF kill_broadcast, Wake, Unlock, WorkerPc, MainPc, ExitPc
<1>9. CASE kill_poll
  BY <1>9 DEF kill_poll, MainPc, ExitPc
<1>10. CASE kill_join
  <2>1. \A again, next : Advance(again, next) /\ again \in MainPc /\ next \in MainPc
          => cur' \in Twq /\ mpc' \in MainPc
    BY AdvanceType
  <2> QED
    BY <1>10, <2>1 DEF kill_join, MainPc, ExitPc
<1>11. ASSUME NEW q \in Twq, WorkerStep(q) \/ spurious_wakeup(q), mpc # "aborted"
      PROVE  TypeOK'
  <2>1. CASE worker_online(q)
    BY <2>1 DEF worker_online, GoTo, WorkerPc
  <2>2. CASE worker_init_fail(q)
    BY <2>2 DEF worker_init_fail, GoTo, MainPc, ExitPc
  <2>3. CASE loop_continue(q)
    BY <2>3 DEF loop_continue, GoTo, WorkerPc
  <2>4. CASE loop_leave(q)
    BY <2>4 DEF loop_leave, GoTo, WorkerPc
  <2>5. CASE dequeue_one_job(q, "deq", "run")
    BY <2>5 DEF dequeue_one_job, GoTo, WorkerPc
  <2>6. CASE dequeue_empty(q, "deq", "lock")
    BY <2>6 DEF dequeue_empty, GoTo, WorkerPc
  <2>7. CASE cb_start(q, "run", "defer")
    BY <2>7 DEF cb_start, GoTo, WorkerPc
  <2>8. CASE call_rcu(q, "defer", "deq")
    BY <2>8 DEF call_rcu, GoTo, WorkerPc, Hands
  <2>9. CASE wait4job_lock(q)
    BY <2>9 DEF wait4job_lock, GoTo, Lock, WorkerPc
  <2>10. CASE wait4job_wait(q)
    BY <2>10 DEF wait4job_wait, GoTo, Unlock, WorkerPc
  <2>11. CASE wait4job_relock(q)
    BY <2>11 DEF wait4job_relock, GoTo, Lock, WorkerPc
  <2>12. CASE wait4job_unlock(q)
    BY <2>12 DEF wait4job_unlock, GoTo, Unlock, WorkerPc
  <2>13. CASE dequeue_one_job(q, "fdeq", "frun")
    BY <2>13 DEF dequeue_one_job, GoTo, WorkerPc
  <2>14. CASE dequeue_empty(q, "fdeq", "bye")
    BY <2>14 DEF dequeue_empty, GoTo, WorkerPc
  <2>15. CASE cb_start(q, "frun", "fdefer")
    BY <2>15 DEF cb_start, GoTo, WorkerPc
  <2>16. CASE call_rcu(q, "fdefer", "fdeq")
    BY <2>16 DEF call_rcu, GoTo, WorkerPc, Hands
  <2>17. CASE worker_ack(q)
    BY <2>17 DEF worker_ack, GoTo, WorkerPc
  <2>18. CASE worker_return(q)
    BY <2>18 DEF worker_return, GoTo, WorkerPc
  <2>19. CASE spurious_wakeup(q)
    BY <2>19 DEF spurious_wakeup, GoTo, WorkerPc
  <2> QED
    BY <1>11, <2>1, <2>2, <2>3, <2>4, <2>5, <2>6, <2>7, <2>8, <2>9, <2>10, <2>11, <2>12, <2>13,
       <2>14, <2>15, <2>16, <2>17, <2>18, <2>19
       DEF WorkerStep, exec_pending_jobs
<1>12. ASSUME NEW p \in Producer, ProducerStep(p)
      PROVE  TypeOK'
  <2>1. ASSUME NEW j \in Job, NEW q \in Twq, submit(p, j, q)
        PROVE  TypeOK'
    BY <2>1 DEF submit, PGoTo, ProducerPc
  <2>2. CASE add_job_read_tail(p)
    BY <2>2 DEF add_job_read_tail, PGoTo, ProducerPc
  <2>3. CASE add_job_enqueue(p)
    BY <2>3 DEF add_job_enqueue, PGoTo, ProducerPc, Hands
  <2>4. CASE add_job_lock(p)
    BY <2>4 DEF add_job_lock, PGoTo, Lock, ProducerPc
  <2>5. CASE add_job_signal(p)
    BY <2>5 DEF add_job_signal, PGoTo, Wake, Unlock, WorkerPc, ProducerPc
  <2>6. CASE producer_return(p)
    BY <2>6 DEF producer_return, PGoTo, ProducerPc
  <2> QED
    BY <1>12, <2>1, <2>2, <2>3, <2>4, <2>5, <2>6 DEF ProducerStep, AddJob
<1>13. ASSUME NEW j \in Job, exec_finish_rcu(j)
      PROVE  TypeOK'
  BY <1>13 DEF exec_finish_rcu
<1>14. CASE Terminated
  BY <1>14 DEF Terminated, vars
<1> QED
  BY <1>1, <1>2, <1>3, <1>4, <1>5, <1>6, <1>7, <1>8, <1>9, <1>10, <1>11, <1>12, <1>13, <1>14 DEF
     Next, Running, MainStep

\* Every step keeps the control part of the invariant.
LEMMA ControlStep ==
  ASSUME TypeOK, ControlInv, Next
  PROVE  ControlInv'
<1> USE NoJobAssumption, TwqNumAssumption DEF TypeOK, ControlInv, LoopStart, Hands, NotCreated,
   InitAlone, Quiet, Flags, Joined, Flush, Closed, StoppedGone, Stopped, StartPc, StopPc, FlushPc,
   ClosedPc, ExitPc, twqVars, mainVars, prodVars, rcuVars
<1>1. CASE threadwq_init
  <2>1. LoopStart'
    BY <1>1 DEF threadwq_init, Advance, Twq
  <2>2. Hands'
    BY <1>1 DEF threadwq_init, Advance, Twq
  <2>3. NotCreated'
    BY <1>1 DEF threadwq_init, Advance, Twq
  <2>4. InitAlone'
    BY <1>1 DEF threadwq_init, Advance, Twq
  <2>5. Quiet'
    BY <1>1 DEF threadwq_init, Advance, Twq
  <2>6. Flags'
    <3> SUFFICES ASSUME NEW q \in Twq
                 PROVE  ((mpc = "init" => q < cur) /\ mpc \in StartPc \cup {"serve"} =>
                          exit[q] = 0 /\ (running[q] = 1 => wpc[q] \notin {"none", "init"}))'
      OBVIOUS
    <3>1. /\ q \in Nat /\ cur \in Nat
          /\ q < cur + 1 <=> (q < cur \/ q = cur)
          /\ q >= cur + 1 <=> q > cur
          /\ ~(cur + 1 < TwqNum) => q <= cur
      BY TwqOrder
    <3> QED
      BY <1>1, <3>1 DEF threadwq_init, Advance
  <2>7. Joined'
    BY <1>1 DEF threadwq_init, Advance, Twq
  <2>8. Flush'
    BY <1>1 DEF threadwq_init, Advance, Twq
  <2>9. Closed'
    BY <1>1 DEF threadwq_init, Advance, Twq
  <2>10. StoppedGone'
    BY <1>1 DEF threadwq_init, Advance, Twq
  <2> QED
    BY <2>1, <2>2, <2>3, <2>4, <2>5, <2>6, <2>7, <2>8, <2>9, <2>10
<1>2. CASE threadwq_set_ops
  BY <1>2 DEF threadwq_set_ops, Advance, Twq
<1>3. CASE threadwq_exec
  <2>1. LoopStart'
    BY <1>3 DEF threadwq_exec, Twq
  <2>2. Hands'
    BY <1>3 DEF threadwq_exec, Twq
  <2>3. NotCreated'
    <3> SUFFICES ASSUME NEW q \in Twq
                 PROVE  (/\ mpc \in {"init", "setops"} => wpc[q] = "none"
                         /\ mpc = "exec" /\ q >= cur => wpc[q] = "none"
                         /\ mpc = "spin" /\ q > cur => wpc[q] = "none")'
      OBVIOUS
    <3>1. /\ q \in Nat /\ cur \in Nat
          /\ q < cur + 1 <=> (q < cur \/ q = cur)
          /\ q >= cur + 1 <=> q > cur
          /\ ~(cur + 1 < TwqNum) => q <= cur
      BY TwqOrder
    <3> QED
      BY <1>3, <3>1 DEF threadwq_exec
  <2>4. InitAlone'
    BY <1>3 DEF threadwq_exec, Twq
  <2>5. Quiet'
    BY <1>3 DEF threadwq_exec, Twq
  <2>6. Flags'
    <3> SUFFICES ASSUME NEW q \in Twq
                 PROVE  ((mpc = "init" => q < cur) /\ mpc \in StartPc \cup {"serve"} =>
                          exit[q] = 0 /\ (running[q] = 1 => wpc[q] \notin {"none", "init"}))'
      OBVIOUS
    <3>1. /\ q \in Nat /\ cur \in Nat
          /\ q < cur + 1 <=> (q < cur \/ q = cur)
          /\ q >= cur + 1 <=> q > cur
          /\ ~(cur + 1 < TwqNum) => q <= cur
      BY TwqOrder
    <3> QED
      BY <1>3, <3>1 DEF threadwq_exec
  <2>7. Joined'
    BY <1>3 DEF threadwq_exec, Twq
  <2>8. Flush'
    BY <1>3 DEF threadwq_exec, Twq
  <2>9. Closed'
    BY <1>3 DEF threadwq_exec, Twq
  <2>10. StoppedGone'
    BY <1>3 DEF threadwq_exec, Twq
  <2> QED
    BY <2>1, <2>2, <2>3, <2>4, <2>5, <2>6, <2>7, <2>8, <2>9, <2>10
<1>4. CASE threadwq_exec_fail
  BY <1>4 DEF threadwq_exec_fail
<1>5. CASE threadwq_exec_spin
  <2>1. LoopStart'
    BY <1>5 DEF threadwq_exec_spin, Advance, Twq
  <2>2. Hands'
    BY <1>5 DEF threadwq_exec_spin, Advance, Twq
  <2>3. NotCreated'
    <3> SUFFICES ASSUME NEW q \in Twq
                 PROVE  (/\ mpc \in {"init", "setops"} => wpc[q] = "none"
                         /\ mpc = "exec" /\ q >= cur => wpc[q] = "none"
                         /\ mpc = "spin" /\ q > cur => wpc[q] = "none")'
      OBVIOUS
    <3>1. /\ q \in Nat /\ cur \in Nat
          /\ q < cur + 1 <=> (q < cur \/ q = cur)
          /\ q >= cur + 1 <=> q > cur
          /\ ~(cur + 1 < TwqNum) => q <= cur
      BY TwqOrder
    <3> QED
      BY <1>5, <3>1 DEF threadwq_exec_spin, Advance
  <2>4. InitAlone'
    BY <1>5 DEF threadwq_exec_spin, Advance, Twq
  <2>5. Quiet'
    BY <1>5 DEF threadwq_exec_spin, Advance, Twq
  <2>6. Flags'
    BY <1>5 DEF threadwq_exec_spin, Advance, Twq
  <2>7. Joined'
    BY <1>5 DEF threadwq_exec_spin, Advance, Twq
  <2>8. Flush'
    BY <1>5 DEF threadwq_exec_spin, Advance, Twq
  <2>9. Closed'
    BY <1>5 DEF threadwq_exec_spin, Advance, Twq
  <2>10. StoppedGone'
    BY <1>5 DEF threadwq_exec_spin, Advance, Twq
  <2> QED
    BY <2>1, <2>2, <2>3, <2>4, <2>5, <2>6, <2>7, <2>8, <2>9, <2>10
<1>6. CASE JoinProducers
  <2>1. LoopStart'
    BY <1>6 DEF JoinProducers, Twq
  <2>2. Hands'
    BY <1>6 DEF JoinProducers, Twq
  <2>3. NotCreated'
    BY <1>6 DEF JoinProducers, Twq
  <2>4. InitAlone'
    BY <1>6 DEF JoinProducers, Twq
  <2>5. Quiet'
    BY <1>6 DEF JoinProducers, Twq
  <2>6. Flags'
    BY <1>6 DEF JoinProducers, Twq
  <2>7. Joined'
    BY <1>6 DEF JoinProducers, Twq
  <2>8. Flush'
    BY <1>6 DEF JoinProducers, Twq
  <2>9. Closed'
    BY <1>6 DEF JoinProducers, Twq
  <2>10. StoppedGone'
    BY <1>6 DEF JoinProducers, Twq
  <2> QED
    BY <2>1, <2>2, <2>3, <2>4, <2>5, <2>6, <2>7, <2>8, <2>9, <2>10
<1>7. CASE kill_lock
  BY <1>7 DEF kill_lock, Lock
<1>8. CASE kill_broadcast
  BY <1>8 DEF kill_broadcast, Wake, Unlock
<1>9. CASE kill_poll
  BY <1>9 DEF kill_poll
<1>10. CASE kill_join
  <2>1. LoopStart'
    BY <1>10 DEF kill_join, Advance, Twq
  <2>2. Hands'
    BY <1>10 DEF kill_join, Advance, Twq
  <2>3. NotCreated'
    BY <1>10 DEF kill_join, Advance, Twq
  <2>4. InitAlone'
    BY <1>10 DEF kill_join, Advance, Twq
  <2>5. Quiet'
    BY <1>10 DEF kill_join, Advance, Twq
  <2>6. Flags'
    BY <1>10 DEF kill_join, Advance, Twq
  <2>7. Joined'
    BY <1>10 DEF kill_join, Advance, Twq
  <2>8. Flush'
    BY <1>10 DEF kill_join, Advance, Twq
  <2>9. Closed'
    BY <1>10 DEF kill_join, Advance, Twq
  <2>10. StoppedGone'
    <3> SUFFICES ASSUME NEW q \in Twq
                 PROVE  (Stopped(q) => wpc[q] = "gone")'
      OBVIOUS
    <3>1. /\ q \in Nat /\ cur \in Nat
          /\ q < cur + 1 <=> (q < cur \/ q = cur)
          /\ q >= cur + 1 <=> q > cur
          /\ ~(cur + 1 < TwqNum) => q <= cur
      BY TwqOrder
    <3> QED
      BY <1>10, <3>1 DEF kill_join, Advance
  <2> QED
    BY <2>1, <2>2, <2>3, <2>4, <2>5, <2>6, <2>7, <2>8, <2>9, <2>10
<1>11. ASSUME NEW q \in Twq, WorkerStep(q) \/ spurious_wakeup(q), mpc # "aborted"
      PROVE  ControlInv'
  <2>1. CASE worker_online(q)
    BY <2>1 DEF worker_online, GoTo
  <2>2. CASE worker_init_fail(q)
    BY <2>2 DEF worker_init_fail, GoTo
  <2>3. CASE loop_continue(q)
    <3>1. LoopStart'
      BY <2>3, <1>11 DEF loop_continue, GoTo
    <3>2. Hands'
      BY <2>3, <1>11 DEF loop_continue, GoTo
    <3>3. NotCreated'
      BY <2>3, <1>11 DEF loop_continue, GoTo
    <3>4. InitAlone'
      BY <2>3, <1>11 DEF loop_continue, GoTo
    <3>5. Quiet'
      BY <2>3, <1>11 DEF loop_continue, GoTo
    <3>6. Flags'
      BY <2>3, <1>11 DEF loop_continue, GoTo
    <3>7. Joined'
      BY <2>3, <1>11 DEF loop_continue, GoTo
    <3>8. Flush'
      BY <2>3, <1>11 DEF loop_continue, GoTo
    <3>9. Closed'
      BY <2>3, <1>11 DEF loop_continue, GoTo
    <3>10. StoppedGone'
      BY <2>3, <1>11 DEF loop_continue, GoTo
    <3> QED
      BY <3>1, <3>2, <3>3, <3>4, <3>5, <3>6, <3>7, <3>8, <3>9, <3>10
  <2>4. CASE loop_leave(q)
    <3>1. LoopStart'
      BY <2>4, <1>11 DEF loop_leave, GoTo
    <3>2. Hands'
      BY <2>4, <1>11 DEF loop_leave, GoTo
    <3>3. NotCreated'
      BY <2>4, <1>11 DEF loop_leave, GoTo
    <3>4. InitAlone'
      BY <2>4, <1>11 DEF loop_leave, GoTo
    <3>5. Quiet'
      BY <2>4, <1>11 DEF loop_leave, GoTo
    <3>6. Flags'
      BY <2>4, <1>11 DEF loop_leave, GoTo
    <3>7. Joined'
      BY <2>4, <1>11 DEF loop_leave, GoTo
    <3>8. Flush'
      BY <2>4, <1>11 DEF loop_leave, GoTo, MainPc
    <3>9. Closed'
      BY <2>4, <1>11 DEF loop_leave, GoTo
    <3>10. StoppedGone'
      BY <2>4, <1>11 DEF loop_leave, GoTo
    <3> QED
      BY <3>1, <3>2, <3>3, <3>4, <3>5, <3>6, <3>7, <3>8, <3>9, <3>10
  <2>5. CASE dequeue_one_job(q, "deq", "run")
    BY <2>5 DEF dequeue_one_job, GoTo
  <2>6. CASE dequeue_empty(q, "deq", "lock")
    <3>1. LoopStart'
      BY <2>6, <1>11 DEF dequeue_empty, GoTo
    <3>2. Hands'
      BY <2>6, <1>11 DEF dequeue_empty, GoTo
    <3>3. NotCreated'
      BY <2>6, <1>11 DEF dequeue_empty, GoTo
    <3>4. InitAlone'
      BY <2>6, <1>11 DEF dequeue_empty, GoTo
    <3>5. Quiet'
      BY <2>6, <1>11 DEF dequeue_empty, GoTo
    <3>6. Flags'
      BY <2>6, <1>11 DEF dequeue_empty, GoTo
    <3>7. Joined'
      BY <2>6, <1>11 DEF dequeue_empty, GoTo
    <3>8. Flush'
      BY <2>6, <1>11 DEF dequeue_empty, GoTo
    <3>9. Closed'
      BY <2>6, <1>11 DEF dequeue_empty, GoTo
    <3>10. StoppedGone'
      BY <2>6, <1>11 DEF dequeue_empty, GoTo
    <3> QED
      BY <3>1, <3>2, <3>3, <3>4, <3>5, <3>6, <3>7, <3>8, <3>9, <3>10
  <2>7. CASE cb_start(q, "run", "defer")
    BY <2>7 DEF cb_start, GoTo
  <2>8. CASE call_rcu(q, "defer", "deq")
    BY <2>8 DEF call_rcu, GoTo
  <2>9. CASE wait4job_lock(q)
    BY <2>9 DEF wait4job_lock, GoTo, Lock
  <2>10. CASE wait4job_wait(q)
    BY <2>10 DEF wait4job_wait, GoTo, Unlock
  <2>11. CASE wait4job_relock(q)
    BY <2>11 DEF wait4job_relock, GoTo, Lock
  <2>12. CASE wait4job_unlock(q)
    BY <2>12 DEF wait4job_unlock, GoTo, Unlock
  <2>13. CASE dequeue_one_job(q, "fdeq", "frun")
    BY <2>13 DEF dequeue_one_job, GoTo
  <2>14. CASE dequeue_empty(q, "fdeq", "bye")
    <3>1. LoopStart'
      BY <2>14, <1>11 DEF dequeue_empty, GoTo
    <3>2. Hands'
      BY <2>14, <1>11 DEF dequeue_empty, GoTo
    <3>3. NotCreated'
      BY <2>14, <1>11 DEF dequeue_empty, GoTo
    <3>4. InitAlone'
      BY <2>14, <1>11 DEF dequeue_empty, GoTo
    <3>5. Quiet'
      BY <2>14, <1>11 DEF dequeue_empty, GoTo
    <3>6. Flags'
      BY <2>14, <1>11 DEF dequeue_empty, GoTo
    <3>7. Joined'
      BY <2>14, <1>11 DEF dequeue_empty, GoTo
    <3>8. Flush'
      BY <2>14, <1>11 DEF dequeue_empty, GoTo
    <3>9. Closed'
      BY <2>14, <1>11 DEF dequeue_empty, GoTo
    <3>10. StoppedGone'
      BY <2>14, <1>11 DEF dequeue_empty, GoTo
    <3> QED
      BY <3>1, <3>2, <3>3, <3>4, <3>5, <3>6, <3>7, <3>8, <3>9, <3>10
  <2>15. CASE cb_start(q, "frun", "fdefer")
    BY <2>15 DEF cb_start, GoTo
  <2>16. CASE call_rcu(q, "fdefer", "fdeq")
    BY <2>16 DEF call_rcu, GoTo
  <2>17. CASE worker_ack(q)
    BY <2>17 DEF worker_ack, GoTo
  <2>18. CASE worker_return(q)
    <3>1. LoopStart'
      BY <2>18, <1>11 DEF worker_return, GoTo
    <3>2. Hands'
      BY <2>18, <1>11 DEF worker_return, GoTo
    <3>3. NotCreated'
      BY <2>18, <1>11 DEF worker_return, GoTo
    <3>4. InitAlone'
      BY <2>18, <1>11 DEF worker_return, GoTo
    <3>5. Quiet'
      BY <2>18, <1>11 DEF worker_return, GoTo
    <3>6. Flags'
      BY <2>18, <1>11 DEF worker_return, GoTo
    <3>7. Joined'
      BY <2>18, <1>11 DEF worker_return, GoTo
    <3>8. Flush'
      BY <2>18, <1>11 DEF worker_return, GoTo
    <3>9. Closed'
      BY <2>18, <1>11 DEF worker_return, GoTo
    <3>10. StoppedGone'
      BY <2>18, <1>11 DEF worker_return, GoTo
    <3> QED
      BY <3>1, <3>2, <3>3, <3>4, <3>5, <3>6, <3>7, <3>8, <3>9, <3>10
  <2>19. CASE spurious_wakeup(q)
    BY <2>19 DEF spurious_wakeup, GoTo
  <2> QED
    BY <1>11, <2>1, <2>2, <2>3, <2>4, <2>5, <2>6, <2>7, <2>8, <2>9, <2>10, <2>11, <2>12, <2>13,
       <2>14, <2>15, <2>16, <2>17, <2>18, <2>19
       DEF WorkerStep, exec_pending_jobs
<1>12. ASSUME NEW p \in Producer, ProducerStep(p)
      PROVE  ControlInv'
  <2>1. ASSUME NEW j \in Job, NEW q \in Twq, submit(p, j, q)
        PROVE  ControlInv'
    BY <2>1 DEF submit, PGoTo
  <2>2. CASE add_job_read_tail(p)
    BY <2>2 DEF add_job_read_tail, PGoTo
  <2>3. CASE add_job_enqueue(p)
    BY <2>3 DEF add_job_enqueue, PGoTo
  <2>4. CASE add_job_lock(p)
    BY <2>4 DEF add_job_lock, PGoTo, Lock
  <2>5. CASE add_job_signal(p)
    BY <2>5 DEF add_job_signal, PGoTo, Wake, Unlock
  <2>6. CASE producer_return(p)
    BY <2>6 DEF producer_return, PGoTo
  <2> QED
    BY <1>12, <2>1, <2>2, <2>3, <2>4, <2>5, <2>6 DEF ProducerStep, AddJob
<1>13. ASSUME NEW j \in Job, exec_finish_rcu(j)
      PROVE  ControlInv'
  BY <1>13 DEF exec_finish_rcu
<1>14. CASE Terminated
  BY <1>14 DEF Terminated, vars
<1> QED
  BY <1>1, <1>2, <1>3, <1>4, <1>5, <1>6, <1>7, <1>8, <1>9, <1>10, <1>11, <1>12, <1>13, <1>14 DEF
     Next, Running, MainStep

-----------------------------------------------------------------------------
(* The job part.  Only seven actions move a job or a reader's pointer.      *)

\* A step that moves no job and no reader's pointer keeps the job part.
LEMMA JobUnchanged ==
  ASSUME JobInv, UNCHANGED <<lfq, wjob, pjob, submitted, seen, rcuVars>>,
         \A p \in Producer : ppc[p] = "enq" => ppc'[p] = "enq"
  PROVE  JobInv'
  BY DEF JobInv, NoDuplicates, Disjoint, Conserved, Protected, Queued, rcuVars

\* What the queue operators do to positions: taking from the head.
LEMMA SeqFacts ==
  ASSUME NEW s \in Seq(Job)
  PROVE  /\ Len(s) \in Nat
         /\ \A i \in 1 .. Len(s) : s[i] \in Job
         /\ s # <<>> => /\ Len(s) >= 1
                        /\ Head(s) = s[1]
                        /\ Tail(s) \in Seq(Job)
                        /\ Len(Tail(s)) = Len(s) - 1
                        /\ \A i \in 1 .. Len(s) - 1 : Tail(s)[i] = s[i + 1]
  OBVIOUS

\* Adding at the tail.
LEMMA AppendFacts ==
  ASSUME NEW s \in Seq(Job), NEW e \in Job
  PROVE  /\ Append(s, e) \in Seq(Job)
         /\ Len(s) \in Nat
         /\ Len(Append(s, e)) = Len(s) + 1
         /\ \A i \in 1 .. Len(s) : Append(s, e)[i] = s[i]
         /\ Append(s, e)[Len(s) + 1] = e
  OBVIOUS

\* A dequeued job is in the worker's hand and nowhere else.
LEMMA JobDequeue ==
  ASSUME TypeOK, ControlInv, JobInv, NEW q \in Twq, NEW at \in {"deq", "fdeq"},
         NEW got, dequeue_one_job(q, at, got)
  PROVE  JobInv'
<1> DEFINE j == Head(lfq[q])
<1> USE DEF mainVars, prodVars, rcuVars
<1>1. /\ j \in Job /\ j = lfq[q][1] /\ Queued(j) /\ wjob[q] = NoJob
      /\ Len(lfq[q]) \in Nat /\ Len(lfq[q]) >= 1
  <2>1. lfq[q] \in Seq(Job) /\ lfq[q] # <<>>
    BY DEF dequeue_one_job, TypeOK
  <2>2. /\ Len(lfq[q]) \in Nat /\ Len(lfq[q]) >= 1
        /\ j = lfq[q][1] /\ 1 \in 1 .. Len(lfq[q]) /\ lfq[q][1] \in Job
    BY <2>1, SeqFacts
  <2>3. Queued(j)
    BY <2>2 DEF Queued
  <2>4. wjob[q] = NoJob
    BY DEF dequeue_one_job, GoTo, ControlInv, Hands
  <2> QED
    BY <2>2, <2>3, <2>4
<1>2. /\ lfq' \in [Twq -> Seq(Job)]
      /\ \A r \in Twq : r # q => lfq'[r] = lfq[r]
      /\ Len(lfq'[q]) = Len(lfq[q]) - 1
      /\ \A i \in 1 .. Len(lfq'[q]) : lfq'[q][i] = lfq[q][i + 1]
  BY SeqFacts, <1>1 DEF dequeue_one_job, TypeOK
<1>3. wjob' = [wjob EXCEPT ![q] = j]
  BY DEF dequeue_one_job
<1>4. UNCHANGED <<pjob, ppc, seen, submitted, deferred, finished, gp>>
  BY DEF dequeue_one_job
<1>5. NoDuplicates'
  <2>1. \A p, r \in Producer : pjob'[p] = pjob'[r] /\ pjob'[p] # NoJob => p = r
    BY <1>4 DEF JobInv, NoDuplicates
  <2>2. \A r \in Twq : wjob[r] # j
    BY <1>1 DEF JobInv, Disjoint
  <2>3. \A r, t \in Twq : wjob'[r] = wjob'[t] /\ wjob'[r] # NoJob => r = t
    BY <1>3, <2>2 DEF JobInv, NoDuplicates, TypeOK
  <2>4. ASSUME NEW r \in Twq, NEW t \in Twq,
               NEW i \in 1 .. Len(lfq'[r]), NEW k \in 1 .. Len(lfq'[t]),
               lfq'[r][i] = lfq'[t][k]
        PROVE  r = t /\ i = k
    <3> DEFINE i0 == IF r = q THEN i + 1 ELSE i
               k0 == IF t = q THEN k + 1 ELSE k
    <3>1. i0 \in 1 .. Len(lfq[r]) /\ lfq'[r][i] = lfq[r][i0]
      BY <1>1, <1>2
    <3>2. k0 \in 1 .. Len(lfq[t]) /\ lfq'[t][k] = lfq[t][k0]
      BY <1>1, <1>2
    <3> HIDE DEF i0, k0
    <3>3. \A a \in 1 .. Len(lfq[r]), b \in 1 .. Len(lfq[t]) :
            lfq[r][a] = lfq[t][b] => r = t /\ a = b
      BY DEF JobInv, NoDuplicates
    <3>4. r = t /\ i0 = k0
      BY <3>1, <3>2, <3>3, <2>4
    <3> QED
      BY <3>4, <1>1, <1>2 DEF i0, k0
  <2> QED
    BY <2>1, <2>3, <2>4 DEF NoDuplicates
<1>6. \A k : Queued(k)' <=> Queued(k) /\ k # j
  <2>1. ASSUME NEW k, Queued(k)' PROVE Queued(k) /\ k # j
    <3>0. PICK r \in Twq : \E i \in 1 .. Len(lfq'[r]) : lfq'[r][i] = k
      BY <2>1 DEF Queued
    <3>1. PICK i \in 1 .. Len(lfq'[r]) : lfq'[r][i] = k
      BY <3>0
    <3> DEFINE i0 == IF r = q THEN i + 1 ELSE i
    <3>2. i0 \in 1 .. Len(lfq[r]) /\ lfq[r][i0] = k /\ (r = q => i0 # 1)
      BY <1>1, <1>2, <3>1
    <3>3. k # lfq[q][1]
      BY <3>2, <1>1 DEF JobInv, NoDuplicates
    <3> QED
      BY <3>2, <3>3, <1>1 DEF Queued
  <2>2. ASSUME NEW k, Queued(k), k # j PROVE Queued(k)'
    <3>0. PICK r \in Twq : \E i \in 1 .. Len(lfq[r]) : lfq[r][i] = k
      BY <2>2 DEF Queued
    <3>1. PICK i \in 1 .. Len(lfq[r]) : lfq[r][i] = k
      BY <3>0
    <3> DEFINE i1 == IF r = q THEN i - 1 ELSE i
    <3>2. i1 \in 1 .. Len(lfq'[r]) /\ lfq'[r][i1] = k
      BY <1>1, <1>2, <2>2, <3>1
    <3> QED
      BY <3>2 DEF Queued
  <2> QED
    BY <2>1, <2>2
<1> HIDE DEF j
<1>7. \A r \in Twq : wjob'[r] = IF r = q THEN j ELSE wjob[r]
  BY <1>3 DEF TypeOK
<1>8. Disjoint'
  BY <1>1, <1>4, <1>6, <1>7, NoJobAssumption DEF JobInv, Disjoint
<1>9. Conserved'
  BY <1>1, <1>4, <1>6, <1>7, NoJobAssumption DEF JobInv, Conserved
<1>10. Protected'
  BY <1>1, <1>4, <1>6, <1>7, NoJobAssumption DEF JobInv, Protected, TypeOK
<1> QED
  BY <1>5, <1>8, <1>9, <1>10 DEF JobInv

\* A job given to call_rcu waits for every reader of the moment.
LEMMA JobCallRcu ==
  ASSUME TypeOK, ControlInv, JobInv, NEW q \in Twq, NEW at \in {"defer", "fdefer"},
         NEW next, call_rcu(q, at, next)
  PROVE  JobInv'
<1> DEFINE j == wjob[q]
<1> USE DEF twqVars, mainVars, prodVars
<1>1. j \in Job
  BY DEF call_rcu, GoTo, TypeOK, ControlInv, Hands
<1>2. UNCHANGED <<lfq, pjob, ppc, seen, submitted, finished>>
  BY DEF call_rcu
<1>3. \A r \in Twq : wjob'[r] = IF r = q THEN NoJob ELSE wjob[r]
  BY DEF call_rcu, TypeOK
<1>4. deferred' = deferred \cup {j}
  BY DEF call_rcu
<1>5. \A k \in Job : gp'[k] = IF k = j THEN {p \in Producer : ppc[p] = "enq"} ELSE gp[k]
  BY DEF call_rcu, TypeOK
<1>6. \A k : Queued(k)' <=> Queued(k)
  BY <1>2 DEF Queued
<1>7. NoDuplicates'
  BY <1>2, <1>3 DEF JobInv, NoDuplicates
<1> HIDE DEF j
<1>8. \A r \in Twq : r # q => wjob[r] # j
  BY <1>1, NoJobAssumption DEF JobInv, NoDuplicates, j
<1>9. Disjoint'
  BY <1>1, <1>2, <1>3, <1>4, <1>6, <1>8, NoJobAssumption DEF JobInv, Disjoint, j
<1>10. Conserved'
  BY <1>1, <1>2, <1>3, <1>4, <1>6, NoJobAssumption DEF JobInv, Conserved, j
<1>11. Protected'
  BY <1>1, <1>2, <1>3, <1>4, <1>5, <1>6, NoJobAssumption DEF JobInv, Protected, j, TypeOK
<1> QED
  BY <1>7, <1>9, <1>10, <1>11 DEF JobInv
\* A job handed to threadwq_add_job is new.
LEMMA JobSubmit ==
  ASSUME TypeOK, ControlInv, JobInv, NEW p \in Producer, NEW j \in Job,
         j \notin submitted, PGoTo(p, "idle", "add"),
         pjob' = [pjob EXCEPT ![p] = j], submitted' = submitted \cup {j},
         UNCHANGED <<lfq, wjob, seen, rcuVars>>
  PROVE  JobInv'
<1>1. /\ UNCHANGED <<lfq, wjob, seen, deferred, finished, gp>>
      /\ submitted' = submitted \cup {j} /\ j \notin submitted
  BY DEF rcuVars
<1>2. /\ \A r \in Producer : pjob'[r] = IF r = p THEN j ELSE pjob[r]
      /\ \A r \in Producer : ppc[r] = "enq" => ppc'[r] = "enq"
      /\ pjob[p] = NoJob
  BY DEF PGoTo, TypeOK, ControlInv, Hands
<1>3. \A k : Queued(k)' <=> Queued(k)
  BY <1>1 DEF Queued
<1>4. NoDuplicates'
  BY <1>1, <1>2, NoJobAssumption DEF JobInv, NoDuplicates, Conserved
<1>5. Disjoint'
  BY <1>1, <1>2, <1>3, NoJobAssumption DEF JobInv, Disjoint, Conserved
<1>6. Conserved'
  BY <1>1, <1>2, <1>3, NoJobAssumption DEF JobInv, Conserved
<1>7. Protected'
  BY <1>1, <1>2, <1>3 DEF JobInv, Protected
<1> QED
  BY <1>4, <1>5, <1>6, <1>7 DEF JobInv

\* The tail node a producer reads is in the queue.
LEMMA JobReadTail ==
  ASSUME TypeOK, ControlInv, JobInv, NEW p \in Producer, add_job_read_tail(p)
  PROVE  JobInv'
<1> DEFINE s == lfq[ptwq[p]]
<1> USE DEF twqVars, mainVars, rcuVars
<1>1. UNCHANGED <<lfq, wjob, pjob, submitted, deferred, finished, gp>>
  BY DEF add_job_read_tail
<1>2. \A k : Queued(k)' <=> Queued(k)
  BY <1>1 DEF Queued
<1>3. \A r \in Producer : ppc'[r] = IF r = p THEN "enq" ELSE ppc[r]
  BY DEF add_job_read_tail, PGoTo, TypeOK
<1>4. s \in Seq(Job) /\ ptwq[p] \in Twq
  BY DEF TypeOK
<1>5. \A r \in Producer :
        seen'[r] = IF r = p THEN (IF s = <<>> THEN NoJob ELSE s[Len(s)]) ELSE seen[r]
  BY DEF add_job_read_tail, TypeOK
<1>6. s # <<>> => Len(s) \in 1 .. Len(s)
  BY <1>4, SeqFacts
<1>7. s # <<>> => Queued(s[Len(s)])
  BY <1>4, <1>6 DEF Queued
<1>8. NoDuplicates' /\ Disjoint' /\ Conserved'
  BY <1>1, <1>2 DEF JobInv, NoDuplicates, Disjoint, Conserved
<1> HIDE DEF s
<1>9. Protected'
  BY <1>1, <1>2, <1>3, <1>5, <1>7 DEF JobInv, Protected
<1> QED
  BY <1>8, <1>9 DEF JobInv

\* An enqueued job leaves the producer's hand, and the reader its section.
LEMMA JobEnqueue ==
  ASSUME TypeOK, ControlInv, JobInv, NEW p \in Producer, NEW to, PGoTo(p, "enq", to),
         lfq' = [lfq EXCEPT ![ptwq[p]] = Append(@, pjob[p])],
         pjob' = [pjob EXCEPT ![p] = NoJob], seen' = [seen EXCEPT ![p] = NoJob],
         gp' = [j \in Job |-> gp[j] \ {p}],
         UNCHANGED <<wjob, submitted, deferred, finished>>
  PROVE  JobInv'
<1> DEFINE j == pjob[p]
           q == ptwq[p]
<1>1. j \in Job /\ q \in Twq /\ ppc[p] = "enq"
  BY DEF PGoTo, TypeOK, ControlInv, Hands
<1>2. UNCHANGED <<wjob, submitted, deferred, finished>>
  OBVIOUS
<1>3. /\ \A r \in Producer : pjob'[r] = IF r = p THEN NoJob ELSE pjob[r]
      /\ \A r \in Producer : seen'[r] = IF r = p THEN NoJob ELSE seen[r]
      /\ \A r \in Producer : r # p => ppc'[r] = ppc[r]
      /\ \A k \in Job : gp'[k] = gp[k] \ {p}
  BY DEF PGoTo, TypeOK
<1>4. /\ \A r \in Twq : r # q => lfq'[r] = lfq[r]
      /\ Len(lfq[q]) \in Nat
      /\ Len(lfq'[q]) = Len(lfq[q]) + 1
      /\ \A i \in 1 .. Len(lfq[q]) : lfq'[q][i] = lfq[q][i]
      /\ lfq'[q][Len(lfq[q]) + 1] = j
  BY AppendFacts, <1>1 DEF TypeOK
<1> HIDE DEF j, q
<1>5. ~Queued(j) /\ (\A r \in Twq : wjob[r] # j) /\ j \notin deferred \cup finished
  BY <1>1 DEF JobInv, Disjoint, j
<1>6. \A k : Queued(k)' <=> Queued(k) \/ k = j
  <2>1. ASSUME NEW k, Queued(k)' PROVE Queued(k) \/ k = j
    BY <2>1, <1>1, <1>4 DEF Queued
  <2>2. ASSUME NEW k, Queued(k) \/ k = j PROVE Queued(k)'
    <3>1. CASE k = j
      <4>1. Len(lfq[q]) + 1 \in 1 .. Len(lfq'[q])
        BY <1>4
      <4> QED
        BY <1>1, <1>4, <3>1, <4>1 DEF Queued
    <3>2. CASE Queued(k)
      <4>1. PICK r \in Twq : \E i \in 1 .. Len(lfq[r]) : lfq[r][i] = k
        BY <3>2 DEF Queued
      <4>2. PICK i \in 1 .. Len(lfq[r]) : lfq[r][i] = k
        BY <4>1
      <4>3. i \in 1 .. Len(lfq'[r]) /\ lfq'[r][i] = k
        BY <1>4, <4>2
      <4> QED
        BY <4>3 DEF Queued
    <3> QED
      BY <2>2, <3>1, <3>2
  <2> QED
    BY <2>1, <2>2
<1>7. NoDuplicates'
  <2>1. \A r, t \in Producer : pjob'[r] = pjob'[t] /\ pjob'[r] # NoJob => r = t
    BY <1>3 DEF JobInv, NoDuplicates
  <2>2. \A r, t \in Twq : wjob'[r] = wjob'[t] /\ wjob'[r] # NoJob => r = t
    BY <1>2 DEF JobInv, NoDuplicates
  <2>3. ASSUME NEW r \in Twq, NEW t \in Twq,
               NEW i \in 1 .. Len(lfq'[r]), NEW k \in 1 .. Len(lfq'[t]),
               lfq'[r][i] = lfq'[t][k]
        PROVE  r = t /\ i = k
    <3>1. \/ i \in 1 .. Len(lfq[r]) /\ lfq'[r][i] = lfq[r][i]
          \/ r = q /\ i = Len(lfq[q]) + 1 /\ lfq'[r][i] = j
      BY <1>4
    <3>2. \/ k \in 1 .. Len(lfq[t]) /\ lfq'[t][k] = lfq[t][k]
          \/ t = q /\ k = Len(lfq[q]) + 1 /\ lfq'[t][k] = j
      BY <1>4
    <3> QED
      BY <1>5, <2>3, <3>1, <3>2 DEF Queued, JobInv, NoDuplicates
  <2> QED
    BY <2>1, <2>2, <2>3 DEF NoDuplicates
<1>8. \A r \in Producer : pjob[r] = j => r = p
  BY <1>1, NoJobAssumption DEF JobInv, NoDuplicates, j
<1>9. Disjoint'
  BY <1>1, <1>2, <1>3, <1>5, <1>6, <1>8, NoJobAssumption DEF JobInv, Disjoint
<1>10. Conserved'
  BY <1>1, <1>2, <1>3, <1>6, NoJobAssumption DEF JobInv, Conserved, j
<1>11. Protected'
  BY <1>2, <1>3, <1>6 DEF JobInv, Protected, TypeOK
<1> QED
  BY <1>7, <1>9, <1>10, <1>11 DEF JobInv

\* A callback whose grace period is over has no reader.
LEMMA JobFinish ==
  ASSUME TypeOK, JobInv, NEW j \in Job, exec_finish_rcu(j)
  PROVE  JobInv'
<1> USE DEF twqVars, mainVars, prodVars
<1>1. /\ UNCHANGED <<lfq, wjob, pjob, ppc, seen, submitted, gp>>
      /\ j \in deferred /\ gp[j] = {}
      /\ deferred' = deferred \ {j} /\ finished' = finished \cup {j}
  BY DEF exec_finish_rcu
<1>2. \A k : Queued(k)' <=> Queued(k)
  BY <1>1 DEF Queued
<1>3. NoDuplicates'
  BY <1>1 DEF JobInv, NoDuplicates
<1>4. Disjoint'
  BY <1>1, <1>2 DEF JobInv, Disjoint
<1>5. Conserved'
  BY <1>1, <1>2 DEF JobInv, Conserved
<1>6. Protected'
  BY <1>1, <1>2 DEF JobInv, Protected, Disjoint
<1> QED
  BY <1>3, <1>4, <1>5, <1>6 DEF JobInv
\* Every step keeps the job part of the invariant.
LEMMA JobStep ==
  ASSUME IInv, Next
  PROVE  JobInv'
<1> USE DEF IInv, twqVars, mainVars, prodVars, rcuVars
<1>1. CASE MainStep
  <2>1. CASE threadwq_init
    <3>1. lfq[cur] = <<>>
      BY <2>1 DEF threadwq_init, ControlInv, Quiet, StartPc, TypeOK
    <3>2. lfq' = lfq
      BY <2>1, <3>1 DEF threadwq_init, TypeOK
    <3> QED
      BY <2>1, <3>2, JobUnchanged DEF threadwq_init
  <2>2. CASE threadwq_set_ops \/ threadwq_exec \/ threadwq_exec_fail \/ threadwq_exec_spin
    BY <2>2, JobUnchanged
       DEF threadwq_set_ops, threadwq_exec, threadwq_exec_fail, threadwq_exec_spin
  <2>3. CASE JoinProducers \/ kill_lock \/ kill_broadcast \/ kill_poll \/ kill_join
    BY <2>3, JobUnchanged
       DEF JoinProducers, kill_lock, kill_broadcast, kill_poll, kill_join
  <2> QED
    BY <1>1, <2>1, <2>2, <2>3 DEF MainStep
<1>2. ASSUME NEW q \in Twq, WorkerStep(q) \/ spurious_wakeup(q)
      PROVE  JobInv'
  <2>1. CASE dequeue_one_job(q, "deq", "run") \/ dequeue_one_job(q, "fdeq", "frun")
    BY <2>1, JobDequeue
  <2>2. CASE call_rcu(q, "defer", "deq") \/ call_rcu(q, "fdefer", "fdeq")
    BY <2>2, JobCallRcu
  <2>3. CASE worker_online(q) \/ worker_init_fail(q) \/ loop_continue(q) \/ loop_leave(q)
    BY <2>3, JobUnchanged DEF worker_online, worker_init_fail, loop_continue, loop_leave
  <2>4. CASE \/ dequeue_empty(q, "deq", "lock") \/ dequeue_empty(q, "fdeq", "bye")
             \/ cb_start(q, "run", "defer") \/ cb_start(q, "frun", "fdefer")
    BY <2>4, JobUnchanged DEF dequeue_empty, cb_start
  <2>5. CASE \/ wait4job_lock(q) \/ wait4job_wait(q) \/ spurious_wakeup(q)
             \/ wait4job_relock(q) \/ wait4job_unlock(q)
    BY <2>5, JobUnchanged
       DEF wait4job_lock, wait4job_wait, spurious_wakeup, wait4job_relock, wait4job_unlock
  <2>6. CASE worker_ack(q) \/ worker_return(q)
    BY <2>6, JobUnchanged DEF worker_ack, worker_return
  <2> QED
    BY <1>2, <2>1, <2>2, <2>3, <2>4, <2>5, <2>6 DEF WorkerStep, exec_pending_jobs
<1>3. ASSUME NEW p \in Producer, ProducerStep(p)
      PROVE  JobInv'
  <2>1. ASSUME NEW j \in Job, NEW q \in Twq, submit(p, j, q)
        PROVE  JobInv'
    BY <2>1, JobSubmit DEF submit
  <2>2. CASE add_job_read_tail(p)
    BY <2>2, JobReadTail
  <2>3. CASE add_job_enqueue(p)
    BY <2>3, JobEnqueue DEF add_job_enqueue
  <2>4. CASE add_job_lock(p) \/ add_job_signal(p) \/ producer_return(p)
    <3>1. \A r \in Producer : ppc[r] = "enq" => ppc'[r] = "enq"
      BY <2>4 DEF add_job_lock, add_job_signal, producer_return, PGoTo, TypeOK
    <3> QED
      BY <2>4, <3>1, JobUnchanged DEF add_job_lock, add_job_signal, producer_return
  <2> QED
    BY <1>3, <2>1, <2>2, <2>3, <2>4 DEF ProducerStep, AddJob
<1>4. ASSUME NEW j \in Job, exec_finish_rcu(j)
      PROVE  JobInv'
  BY <1>4, JobFinish
<1>5. CASE Terminated
  BY <1>5, JobUnchanged DEF Terminated, vars
<1> QED
  BY <1>1, <1>2, <1>3, <1>4, <1>5 DEF Next, Running

\* The invariant holds initially, whatever the flags start with.
LEMMA InitIInv ==
  ASSUME Init
  PROVE  IInv
<1> USE TwqNumAssumption, ExitModAssumption, NoJobAssumption DEF Init
<1>1. 0 \in Twq
  BY DEF Twq
<1>2. TypeOK
  BY <1>1 DEF TypeOK, WorkerPc, MainPc, ProducerPc
<1>3. ControlInv
  BY DEF ControlInv, LoopStart, Hands, NotCreated, InitAlone, Quiet, Flags, Joined, Flush,
         Closed, StoppedGone, Stopped, StartPc, StopPc, FlushPc, ClosedPc, ExitPc, Twq
<1>4. \A k : ~Queued(k)
  BY DEF Queued
<1>5. JobInv
  BY <1>4 DEF JobInv, NoDuplicates, Disjoint, Conserved, Protected
<1> QED
  BY <1>2, <1>3, <1>5 DEF IInv

\* Every step keeps the invariant.
LEMMA NextIInv ==
  ASSUME IInv, [Next]_vars
  PROVE  IInv'
<1>1. CASE Next
  BY <1>1, TypeStep, ControlStep, JobStep DEF IInv, ControlInv
<1>2. CASE UNCHANGED vars
  BY <1>2, JobUnchanged
     DEF IInv, TypeOK, ControlInv, LoopStart, Hands, NotCreated, InitAlone, Quiet, Flags, Joined,
         Flush, Closed, StoppedGone, Stopped, vars, twqVars, mainVars, prodVars, rcuVars
<1> QED
  BY <1>1, <1>2

\* A queue that was stopped is drained.
LEMMA IInvDrained == IInv => StoppedQueueIsDrained
  BY DEF IInv, ControlInv, StoppedGone, Closed, ClosedPc, Hands, StoppedQueueIsDrained

\* No job is left at the end.
LEMMA IInvNoJobLost == IInv => NoJobLostAtExit
<1> SUFFICES ASSUME IInv, mpc = "done" PROVE submitted = deferred \cup finished
  BY DEF NoJobLostAtExit
<1>1. \A q \in Twq : lfq[q] = <<>> /\ wjob[q] = NoJob
  BY DEF IInv, ControlInv, StoppedGone, Stopped, Closed, ClosedPc, Hands
<1>2. \A p \in Producer : pjob[p] = NoJob
  BY DEF IInv, ControlInv, Joined, StopPc, Hands
<1>3. \A j : ~Queued(j)
  BY <1>1 DEF Queued
<1> QED
  <2>1. \A j \in Job : j \in submitted <=> j \in deferred \cup finished
    BY <1>1, <1>2, <1>3, NoJobAssumption DEF IInv, JobInv, Conserved
  <2> QED
    BY <2>1 DEF IInv, TypeOK

\* A reader's job is not finished.
LEMMA IInvUnreachable == IInv => NoReaderHoldsFinishedJob
<1> SUFFICES ASSUME IInv, NEW p \in Producer PROVE seen[p] \notin finished
  BY DEF NoReaderHoldsFinishedJob
<1> QED
  BY NoJobAssumption DEF IInv, TypeOK, JobInv, Protected, Disjoint

\* A worker_init runs alone.
LEMMA IInvInitAlone == IInv => WorkerInitRunsAlone
  BY DEF IInv, ControlInv, InitAlone, Quiet, Hands, StartPc, WorkerInitRunsAlone

-----------------------------------------------------------------------------
(* The theorems.                                                            *)

\* Everywhere main, the workers, the producers and call_rcu can get to, each
\* submitted job is in exactly one place and the phases of the threads agree.
THEOREM IInvariant == Spec => []IInv
<1>1. Init => IInv
  BY InitIInv
<1>2. IInv /\ [Next]_vars => IInv'
  BY NextIInv
<1> QED
  BY <1>1, <1>2, PTL DEF Spec

\* Every field of struct threadwq and every thread stays within its type.
THEOREM TypeCorrect == Spec => []TypeOK
<1>1. IInv => TypeOK
  BY DEF IInv
<1> QED
  BY <1>1, IInvariant, PTL

\* When threadwq_exit returns for a queue, its worker is gone and has left no
\* job behind, however many queues and producers there are.
THEOREM ExitDrainsQueue == Spec => []StoppedQueueIsDrained
<1>1. IInv => StoppedQueueIsDrained
  BY IInvDrained
<1> QED
  BY <1>1, IInvariant, PTL

\* When threadwq_exit_multi returns, every job handed to threadwq_add_job has
\* been run and handed to call_rcu.
THEOREM ExitLosesNoJob == Spec => []NoJobLostAtExit
<1>1. IInv => NoJobLostAtExit
  BY IInvNoJobLost
<1> QED
  BY <1>1, IInvariant, PTL

\* cb_finish never recycles a job that an enqueuer inside its read-side section
\* still points to: the grace period of call_rcu covers every such reader.
THEOREM FinishedJobIsUnreachable == Spec => []NoReaderHoldsFinishedJob
<1>1. IInv => NoReaderHoldsFinishedJob
  BY IInvUnreachable
<1> QED
  BY <1>1, IInvariant, PTL

\* threadwq_exec waits for running, so the worker_init callbacks run one at a
\* time and never next to a job.
THEOREM WorkerInitAlone == Spec => []WorkerInitRunsAlone
<1>1. IInv => WorkerInitRunsAlone
  BY IInvInitAlone
<1> QED
  BY <1>1, IInvariant, PTL
-----------------------------------------------------------------------------
(* ThreadWq implements JobDelivery.                                         *)

\* A worker changes the closed flag of a queue only when its flush ends.
LEMMA ClosedUnchanged ==
  ASSUME TypeOK, NEW q \in Twq, NEW to \in WorkerPc, wpc' = [wpc EXCEPT ![q] = to],
         to \in ClosedPc <=> wpc[q] \in ClosedPc
  PROVE  [r \in Twq |-> wpc'[r] \in {"bye", "ack", "gone"}]
           = [r \in Twq |-> wpc[r] \in {"bye", "ack", "gone"}]
  BY DEF TypeOK, ClosedPc

\* Waking a worker closes no queue.
LEMMA WakeClosed ==
  ASSUME TypeOK, NEW q \in Twq, Wake(q)
  PROVE  [r \in Twq |-> wpc'[r] \in {"bye", "ack", "gone"}]
           = [r \in Twq |-> wpc[r] \in {"bye", "ack", "gone"}]
  BY DEF TypeOK, Wake

\* The main thread moves no job.
LEMMA MainStutters ==
  ASSUME IInv, MainStep
  PROVE  UNCHANGED JD!jdVars
<1> USE DEF IInv, twqVars, mainVars, prodVars, rcuVars, JD!jdVars
<1>1. CASE threadwq_init
  <2>1. lfq[cur] = <<>>
    BY <1>1 DEF threadwq_init, ControlInv, Quiet, StartPc, TypeOK
  <2>2. lfq' = lfq
    BY <1>1, <2>1 DEF threadwq_init, TypeOK
  <2> QED
    BY <1>1, <2>2 DEF threadwq_init
<1>2. CASE threadwq_exec
  <2>1. wpc[cur] = "none" /\ cur \in Twq /\ cur >= cur
    BY <1>2 DEF threadwq_exec, ControlInv, NotCreated, TypeOK, Twq
  <2> QED
    BY <1>2, <2>1, ClosedUnchanged DEF threadwq_exec, WorkerPc, ClosedPc
<1>3. CASE kill_broadcast
  <2>1. cur \in Twq
    BY DEF TypeOK
  <2> QED
    BY <1>3, <2>1, WakeClosed DEF kill_broadcast
<1>4. CASE threadwq_set_ops \/ threadwq_exec_fail \/ threadwq_exec_spin \/ JoinProducers
  BY <1>4 DEF threadwq_set_ops, threadwq_exec_fail, threadwq_exec_spin, JoinProducers
<1>5. CASE kill_lock \/ kill_poll \/ kill_join
  BY <1>5 DEF kill_lock, kill_poll, kill_join
<1> QED
  BY <1>1, <1>2, <1>3, <1>4, <1>5 DEF MainStep

\* A worker's step is a Start, a Complete, a Close or nothing.
LEMMA WorkerRefines ==
  ASSUME IInv, NEW q \in Twq, WorkerStep(q) \/ spurious_wakeup(q)
  PROVE  JD!Start(q) \/ JD!Complete(q) \/ JD!Close(q) \/ UNCHANGED JD!jdVars
<1> USE DEF IInv, twqVars, mainVars, prodVars, rcuVars, WorkerPc, ClosedPc
<1>1. CASE dequeue_one_job(q, "deq", "run") \/ dequeue_one_job(q, "fdeq", "frun")
  <2>1. wjob[q] = NoJob
    BY <1>1 DEF dequeue_one_job, GoTo, ControlInv, Hands
  <2> QED
    BY <1>1, <2>1, ClosedUnchanged DEF dequeue_one_job, GoTo, JD!Start
<1>2. CASE call_rcu(q, "defer", "deq") \/ call_rcu(q, "fdefer", "fdeq")
  <2>1. wjob[q] # NoJob
    BY <1>2 DEF call_rcu, GoTo, ControlInv, Hands
  <2> QED
    BY <1>2, <2>1, ClosedUnchanged DEF call_rcu, GoTo, JD!Complete
<1>3. CASE dequeue_empty(q, "fdeq", "bye")
  <2>1. wjob[q] = NoJob /\ wpc[q] = "fdeq" /\ lfq[q] = <<>>
    BY <1>3 DEF dequeue_empty, GoTo, ControlInv, Hands
  <2>2. [r \in Twq |-> wpc'[r] \in {"bye", "ack", "gone"}]
          = [[r \in Twq |-> wpc[r] \in {"bye", "ack", "gone"}] EXCEPT ![q] = TRUE]
    BY <1>3 DEF dequeue_empty, GoTo, TypeOK
  <2> QED
    BY <1>3, <2>1, <2>2 DEF dequeue_empty, JD!Close
<1>4. CASE worker_online(q) \/ worker_init_fail(q) \/ loop_continue(q) \/ loop_leave(q)
  BY <1>4, ClosedUnchanged
     DEF worker_online, worker_init_fail, loop_continue, loop_leave, GoTo, JD!jdVars
<1>5. CASE dequeue_empty(q, "deq", "lock") \/ cb_start(q, "run", "defer") \/ cb_start(q, "frun", "fdefer")
  BY <1>5, ClosedUnchanged DEF dequeue_empty, cb_start, GoTo, JD!jdVars
<1>6. CASE \/ wait4job_lock(q) \/ wait4job_wait(q) \/ spurious_wakeup(q)
           \/ wait4job_relock(q) \/ wait4job_unlock(q)
  BY <1>6, ClosedUnchanged
     DEF wait4job_lock, wait4job_wait, spurious_wakeup, wait4job_relock, wait4job_unlock, GoTo,
         JD!jdVars
<1>7. CASE worker_ack(q) \/ worker_return(q)
  BY <1>7, ClosedUnchanged DEF worker_ack, worker_return, GoTo, JD!jdVars
<1> QED
  BY <1>1, <1>2, <1>3, <1>4, <1>5, <1>6, <1>7 DEF WorkerStep, exec_pending_jobs

\* An enqueue delivers the job to an open queue.
LEMMA EnqueueDelivers ==
  ASSUME IInv, NEW p \in Producer, ppc[p] = "enq",
         lfq' = [lfq EXCEPT ![ptwq[p]] = Append(@, pjob[p])],
         UNCHANGED <<wpc, wjob, deferred, finished>>
  PROVE  \E j \in Job, q \in Twq : JD!Deliver(j, q)
<1> DEFINE j == pjob[p]
           q == ptwq[p]
<1>1. j \in Job /\ q \in Twq
  BY DEF IInv, TypeOK, ControlInv, Hands
<1>2. wpc[q] \notin {"bye", "ack", "gone"}
  BY <1>1 DEF IInv, ControlInv, Flush, FlushPc, Joined
<1>3. j \notin JD!Known
  BY <1>1 DEF IInv, JD!Known, JobInv, Disjoint, Queued
<1>4. JD!Deliver(j, q)
  BY <1>1, <1>2, <1>3 DEF JD!Deliver
<1> QED
  BY <1>1, <1>4

\* A producer's step delivers a job to an open queue or does nothing.
LEMMA ProducerRefines ==
  ASSUME IInv, NEW p \in Producer, ProducerStep(p)
  PROVE  (\E j \in Job, q \in Twq : JD!Deliver(j, q)) \/ UNCHANGED JD!jdVars
<1> USE DEF IInv, twqVars, mainVars, prodVars, rcuVars
<1>1. CASE add_job_enqueue(p)
  BY <1>1, EnqueueDelivers DEF add_job_enqueue, PGoTo
<1>2. CASE add_job_signal(p)
  <2>1. ptwq[p] \in Twq
    BY DEF TypeOK
  <2> QED
    BY <1>2, <2>1, WakeClosed DEF add_job_signal, JD!jdVars
<1>3. CASE (\E j \in Job, q \in Twq : submit(p, j, q)) \/ add_job_read_tail(p)
  BY <1>3 DEF submit, add_job_read_tail, JD!jdVars
<1>4. CASE add_job_lock(p) \/ producer_return(p)
  BY <1>4 DEF add_job_lock, producer_return, JD!jdVars
<1> QED
  BY <1>1, <1>2, <1>3, <1>4 DEF ProducerStep, AddJob

\* Every step is a step of the abstract queue or leaves it alone.
LEMMA NextRefines ==
  ASSUME IInv, [Next]_vars
  PROVE  [JD!JDNext]_(JD!jdVars)
<1>1. CASE MainStep
  BY <1>1, MainStutters
<1>2. ASSUME NEW q \in Twq, WorkerStep(q) \/ spurious_wakeup(q)
      PROVE  [JD!JDNext]_(JD!jdVars)
  BY <1>2, WorkerRefines DEF JD!JDNext
<1>3. ASSUME NEW p \in Producer, ProducerStep(p)
      PROVE  [JD!JDNext]_(JD!jdVars)
  BY <1>3, ProducerRefines DEF JD!JDNext
<1>4. ASSUME NEW j \in Job, exec_finish_rcu(j)
      PROVE  [JD!JDNext]_(JD!jdVars)
  BY <1>4 DEF exec_finish_rcu, JD!GiveBack, JD!JDNext, twqVars
<1>5. CASE UNCHANGED vars
  BY <1>5 DEF vars, twqVars, rcuVars, JD!jdVars
<1> QED
  BY <1>1, <1>2, <1>3, <1>4, <1>5 DEF Next, Running, Terminated

\* No job is anywhere at the start, and no queue is closed.
LEMMA InitRefines ==
  ASSUME Init
  PROVE  JD!JDInit
<1>1. [q \in Twq |-> wpc[q] \in {"bye", "ack", "gone"}] = [q \in Twq |-> FALSE]
  <2>1. \A q \in Twq : (wpc[q] \in {"bye", "ack", "gone"}) = FALSE
    BY DEF Init
  <2> QED
    BY <2>1
<1> QED
  BY <1>1 DEF Init, JD!JDInit

\* The threads, flags, mutex, condition variable and call_rcu of threadwq.c
\* implement the abstract queue: each job is run once, in queue order, and
\* nothing is added to or left in a queue that its worker has closed.
THEOREM DeliversJobs == Spec => ImplementsJobDelivery
<1>1. Init => JD!JDInit
  BY InitRefines
<1>2. IInv /\ [Next]_vars => [JD!JDNext]_(JD!jdVars)
  BY NextRefines
<1> QED
  BY <1>1, <1>2, IInvariant, PTL DEF Spec, ImplementsJobDelivery, JD!JDSpec
=============================================================================
