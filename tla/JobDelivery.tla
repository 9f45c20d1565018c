----------------------------- MODULE JobDelivery -----------------------------
(***************************************************************************)
(* What a table of thread work queues promises its callers: a job that is   *)
(* delivered to a queue is run by that queue's worker, in delivery order,   *)
(* one job at a time, exactly once; it is given back to its owner only      *)
(* after it has run; and a queue accepts and runs nothing once it closed.   *)
(***************************************************************************)
EXTENDS Naturals, Sequences

CONSTANTS Twq, Job, NoJob

VARIABLES
  queue,      \* per queue: the delivered jobs that have not been started
  run,        \* per queue: the job its worker is running, or NoJob
  pending,    \* jobs that have run and wait to be given back
  finished,   \* jobs given back to their owner
  closed      \* per queue: the worker has promised to run nothing more

jdVars == <<queue, run, pending, finished, closed>>

Known == pending \cup finished \cup {run[q] : q \in Twq}
           \cup UNION {{queue[q][i] : i \in 1 .. Len(queue[q])} : q \in Twq}

JDInit ==
  /\ queue = [q \in Twq |-> <<>>]
  /\ run = [q \in Twq |-> NoJob]
  /\ pending = {}
  /\ finished = {}
  /\ closed = [q \in Twq |-> FALSE]

Deliver(j, q) ==
  /\ j \notin Known
  /\ ~closed[q]
  /\ queue' = [queue EXCEPT ![q] = Append(@, j)]
  /\ UNCHANGED <<run, pending, finished, closed>>

Start(q) ==
  /\ run[q] = NoJob
  /\ queue[q] # <<>>
  /\ run' = [run EXCEPT ![q] = Head(queue[q])]
  /\ queue' = [queue EXCEPT ![q] = Tail(@)]
  /\ UNCHANGED <<pending, finished, closed>>

Complete(q) ==
  /\ run[q] # NoJob
  /\ pending' = pending \cup {run[q]}
  /\ run' = [run EXCEPT ![q] = NoJob]
  /\ UNCHANGED <<queue, finished, closed>>

GiveBack(j) ==
  /\ j \in pending
  /\ pending' = pending \ {j}
  /\ finished' = finished \cup {j}
  /\ UNCHANGED <<queue, run, closed>>

Close(q) ==
  /\ ~closed[q]
  /\ queue[q] = <<>>
  /\ run[q] = NoJob
  /\ closed' = [closed EXCEPT ![q] = TRUE]
  /\ UNCHANGED <<queue, run, pending, finished>>

JDNext ==
  \/ \E j \in Job, q \in Twq : Deliver(j, q)
  \/ \E q \in Twq : Start(q) \/ Complete(q) \/ Close(q)
  \/ \E j \in Job : GiveBack(j)

JDSpec == JDInit /\ [][JDNext]_jdVars

\* A job that has been delivered is not forgotten.
JDFairness ==
  /\ \A q \in Twq : WF_jdVars(Start(q)) /\ WF_jdVars(Complete(q))
  /\ \A j \in Job : WF_jdVars(GiveBack(j))

JDFairSpec == JDSpec /\ JDFairness
=============================================================================
