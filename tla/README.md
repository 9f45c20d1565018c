# A formal model of linux-c-template

TLA+ specifications, TLC configurations and TLAPS proofs for the C program in
`template-v1/src`: a template for a multi-threaded Linux service, built around a
work queue with worker threads, a memory pool and a table of init functions.

## The system

| part | state | operations | works with |
|---|---|---|---|
| `threadwq` (threadwq.c/.h) | per queue: `exit`, `exit_ack`, `running`, mutex, condition variable, lock-free queue, callbacks, worker thread | init, set_ops, exec (start the worker and wait for it), add_job, exit (stop the worker) | liburcu (queue, call_rcu), pthread; jobs call back into main |
| `threadwq_man` (threadwq_man*.c) | shared index `twq_idx` | add_job with policy rr or rr4idle | picks a queue, takes its mutex, adds to it |
| `mempool` (mempool.c/.h) | `ref`, `fail`, LIFO `list_free`, spinlock | init, alloc, free, recycle, exit | called by writers (alloc) and by the call_rcu thread (free, from `cb_finish`) |
| `initops` (initops.c/.h) | linker section of init/exit functions with order numbers | exec_init with rollback, exec_exit | called once by main |
| `main.c` | the pool, the queue tables on the stack, counters, the lock's descriptor | three benchmarks, option parsing, single-instance lock, background switch | all of the above; the kernel (flock, fork, exit) |
| `lgu/fio` | a lock file; a reader's structure with its buffer | lock, trylock, unlock; read a file at once or by blocks | fio_lock is used by main; other processes write the files |
| `lgu/list`, `hexdump`, `stdmsg` | the pointers in the nodes; local arrays; the message level | lists and hash lists, dumps, level up and down | list.h is used by mempool, stdmsg by all |

What is hard in it:

* the worker waits on a condition variable without testing the queue under the
  mutex, and writers enqueue without the mutex, so wakeups can be lost;
* the shutdown handshake (`exit`, `exit_ack`, repeated broadcasts) races with a
  worker that can be anywhere in its loop, and `exit` is a counter that wraps;
* the queue table lives on the stack with the flags of an earlier table in it;
* job memory may be given back only after a grace period;
* several writers share one index, or try mutexes in turn;
* a pool slice keeps its list node and magic number in the memory its owner writes;
* a failed initialisation is rolled back by two loops with different bounds;
* callbacks can still be pending when a test, or the pool, is torn down;
* two processes share the lock while `daemon` forks, and each can be killed;
* a file changes its size between `stat`, `open` and `read`, and its size is cut to
  an unsigned int.

`PROJECT.json` lists these hazards one by one, at their source lines, with the
properties that cover them.

## Modules

| module | models |
|---|---|
| `JobDelivery` | abstract: what a table of queues promises (each job run once, in order, one at a time per queue, given back after it ran; nothing after closing) |
| `ThreadWq` | `threadwq.c`, `threadwq.h` and their caller `test_threadwq2`/`threadfunc2`; refines `JobDelivery` |
| `ThreadWqMan` | `threadwq_man*.c` on top of `ThreadWq`, called from `test_threadwq3`/`threadfunc3` |
| `Mempool` | `mempool.c`, `mempool.h` |
| `InitOps` | `initops.c`, `initops.h` |
| `SingleInstance` | how processes start and end: options and `stdmsg_lv`, `fio_lock.c`, `keep_single`, `daemon`, atexit, crashes |
| `Benchmark` | the three tests of `main.c` with pool, writer, workers and call_rcu threads |
| `Template` | the program: `SingleInstance` with the memory and threads of `Benchmark` in the process at work |
| `Lists` | abstract: what the operations of `list.h` do to sequences |
| `List` | `list.h` on pointers, shown to do that |
| `FioEasyRw` | `fio_easyrw.c` |
| `HexDump` | `hexdump.c` |
| `Lgu` | the library: a behaviour uses `List`, its hash lists, `FioEasyRw` or `HexDump` |
| `ThreadWq_proofs`, `ThreadWqMan_proofs`, `Mempool_proofs`, `InitOps_proofs`, `Template_proofs`, `List_proofs`, `Lgu_proofs` | theorems and proofs |
| `NatFacts` | facts about numbers that these proofs cite: induction in the form the provers accept, remainders |
| `MCThreadWq`, `MCThreadWqMan`, `MCMempool`, `MCInitOps`, `MCTemplate`, `MCLgu` | the modules TLC runs, with the symmetry sets |

Definitions named `X_Suffix` under a comment `Mutant:` are deliberately wrong
variants of the definition that follows them. No specification uses them; each is
the evidence that some property would notice that mistake.

### ThreadWq

Threads are program counters: `mpc`/`cur` for main and the table entry its loop is
at, `wpc[q]` for the worker of queue `q`, `ppc[p]` for writers. One action is one
access to shared state: `wait4job` is lock, wait (release and wait in one step, as
POSIX says), wake, relock, unlock; `kill_online_worker` is lock, then exit++ with
broadcast and unlock, then the look at `exit_ack`, in a loop, then join.
`exit` counts modulo `ExitMod`. `Init` gives each flag of each entry both values,
because `twq[TWQNUM]` is an uninitialised local of a function that runs after
another one with such a table. A failing `pthread_create` or `worker_init` ends in
`aborted`, as `BUG_ON` and `BUG` do. When main is done, callbacks can still be pending:
nobody waits for them.

External, modelled from use: the mutex is an owner; a signal wakes the worker only
if it waits, and waits can end spuriously; the lock-free queue is a FIFO whose
enqueue reads the tail node first and publishes the new node later, both inside
the read-side section; `call_rcu` remembers the writers that are inside a section
(`gp`) and its callback runs only once they all have left. The readers tracked are
the writers: they are the only threads that keep a node pointer over two steps.
That liburcu's queue never leads a reader to a node that was dequeued before its
section began is assumed here, not shown. The statistic `busy` is written and
never read, and is left out; so is the build variant with
`THREADWQ_BLOCKED_ENQUEUE` 0, which is not the configured one.
Each job object is added once: `main.c` allocates a new one per call.

### ThreadWqMan

Before a writer reaches `threadwq_add_job` it is in `cb_add_job`: it reads
`twq_idx` (`read_idx`), then either advances it and picks a queue (`rr_add_job`), or
tries the queues' mutexes one by one (`rr4idle_busy`, `rr4idle_trylock`), sets the index and
adds with the mutex held (`rr4idle_add_job`, `add_job_locked`, then the same signal and unlock).
The policy is chosen in `ManInit`, as `threadwq_man_init` is given it; the third choice,
`none`, is `threadfunc2`, which has no manager and calls `threadwq_add_job` itself, so
one run covers the queues with all their callers.
The program has one writer; the models have two, because the policies are
written, and documented, for several.

### Mempool

`list_free` is a sequence, `heap` the slices that malloc gave out, `magic` the
slices whose magic field is intact: the owner may overwrite it, fresh memory may
contain anything. Inside the critical sections each access is a step, so that the
mutual exclusion is checked and not assumed. `size`/`sz` count modulo `UIntMod`.
A slice may be freed by another thread than the one that allocated it, as `cb_finish` does.
`BUG_ON` ends in `life = "bug"`, a write through NULL in `"segv"`. `mempool_exit` takes no
lock; it is enabled when no thread is inside, which is its caller's duty. That `main` can
break this duty is seen in `Benchmark` (`program_pending`).

### InitOps

The table is chosen by `Init`: all entries, orders, missing functions and possible
failures, with the `initops_dummy` entry somewhere in it. One action is one
iteration of a loop. `initops_exec_exit` is called after a successful
initialisation; `main.c` does not call it.

### SingleInstance, Benchmark and Template

Processes have a place in `main` (`pc`); the lock is held by an open file description,
named by the process that opened it, and goes when one of its descriptors is used for
LOCK_UN or when the last is closed. `daemon_fork` gives the child a descriptor of the same
description; the parent leaves with `_exit`, past the atexit handler. A process that
fails in `argparse` or `fio_trylock` has changed nothing and is not a step; LOCK_UN, close
and the end of the process are one step, because nobody can tell them apart. `killed`
stands for signals and for every `BUG_ON`; a process that ended may start again.

`Benchmark` follows each slice: `free`, the writer's `job`, `queued`, `running`, then the
callbacks of a call_rcu thread (`cbs`, spliced into `batch`), and back. `mempool_alloc`,
`mempool_free` and `threadwq_exit_multi` are single steps because `Mempool` and `ThreadWq`
prove what is needed for that: exclusive owners, the limit, and drained queues. Test 2 and
test 3 have the same shape and share their actions; the map names the lines of test 3.
`mempool_exit` walks the list in steps, without the lock; a `mempool_free` beside it can
lose its slice from the list, or crash (`killed`); this is put in as an outcome, not
derived from the pointers, so the model does not show what that race can do. The call_rcu threads are liburcu's:
splice, run, look at STOP; stopping one hands its leftovers to the default thread, which
`create_all_cpu_call_rcu_data` does not create and nobody stops.

`Template` has one copy of that memory, owned by the process between its init and its
unlock, which `AtMostOneInstance` makes one process at most. What the call_rcu threads do
after the unlock, while the process exits, is not followed.

### List, FioEasyRw, HexDump

The operators of `List` are the functions of `list.h`, from memory to memory; the stores of
a function are the clauses of an EXCEPT in the order of the code. `SeqsOf` walks the
pointers and gives the sequences of `Lists`. Callers use every operation with any place, as
long as they keep to the header's contract; a head that `list_splice` left behind is in
`stale`. `it` is a safe loop whose body keeps, removes or moves its node.

`FioEasyRw` counts bytes. A call is stat with malloc, open, and single reads; the file
takes any size between them. `UIntMod` is the width of `unsigned int`. A failed assertion is
`aborted`, a store behind the buffer `overrun`. `HexDump` keeps the lengths of its two arrays,
with the sizes of the code.

## What TLC checks

All passing runs check deadlock too; where a program has an end it is an explicit
stuttering step (`Terminated`).

| run | instance | shows |
|---|---|---|
| `queues` | no manager, rr and rr4idle; 2 queues, 3 jobs, 2 writers | `ImplementsJobDelivery`, `StoppedQueueIsDrained`, `NoJobLostAtExit`, `NoReaderHoldsFinishedJob`, `WorkerInitRunsAlone`, `SharedIndexStaysNearTable`, `LockedAddExcludesWorker`, `TypeOK`, `ManTypeOK` |
| `queues_live` | the same callers, 1 queue, 2 jobs, 2 writers, fair | `ExitCompletes`, `EveryJobFinishes`, `ImplementsFairDelivery` |
| `mempool` | 2 threads, 3 slices, limit 2, constructor, sizes 0, 9 and 15 of a 4-bit unsigned int, fair | `RefCountsSlices`, `WithinMax`, `ExclusiveOwner`, `MagicCheckNeverFires`, `SliceFits`, `ExitReportsLeaks`, `CallsReturn`, `TypeOK` |
| `initops` | all tables of 3 entries, 4 orders, fair | `InitOnTopOfEarlier`, `ExitAtMostOnce`, `TeardownDescends`, `ExitFollowsInit`, `LowerOrdersGoDown`, `ExecReturns`, `TypeOK` |
| `program` | 3 processes, 2 command lines, 2 slices, 2 workers, 2 processors, counters modulo 4 | `AtMostOneInstance`, `SliceAtOnePlace`, `CountersBalance`, `LeakOnlyFromLateCallbacks`, `TemplateTypeOK` |
| `lgu` | 2 heads, 3 nodes; files up to 10 with a 3-bit unsigned int, pages of 2, blocks of 3, limits 0 and 4; dumps of up to 34 bytes | `WellLinked`, `ImplementsSequences`, `SafeLoopVisitsAll`, `ReadAllOrNothing`, `LimitProtects`, `DumpIsExact` |

The runs that end in a counterexample, each against a sentence of the repository:

| run | what the code does |
|---|---|
| `threadwq_service` | a job added between the worker's empty dequeue and its wait is not run until the next job or the shutdown |
| `man_rr_order` | rr gives queue 0 two jobs in a row at each wrap-around |
| `mempool_reject` | a constructor that rejects NULL makes `mempool_free` write through NULL |
| `initops_cover` | the rollback never reaches the first entry of the section |
| `program_pending` | callbacks are still pending after `free_all_cpu_call_rcu_data`, and can run beside `mempool_exit` |
| `fio_empty` | `fio_easyrw_read_simple` fails its own assertion on an empty file |

Seen while modelling and not given a run:

* `fail` is documented as the number of malloc failures (mempool.h:23) but counts hits of
  the limit (mempool.c:29, 35);
* the rollback of initops starts with the entry that failed, so it calls the exit
  function of an entry whose init function did not succeed (initops.c:73);
* rr4idle adds to a queue that is busy, since workers do not hold the mutex while they run
  jobs (threadwq_man_rr.c:74, against the comment at 54);
* `mempool_recycle` ignores its reserve (mempool.c:126);
* without a limit, a file of 4 GiB or more is returned as OK with its first `st_size` % 2^32
  bytes (fio_easyrw.c:159, 182, against "Read all data into output." at 127 and "0: unlimited",
  fio_easyrw.h:25); `ReadAllOrNothing` promises the whole file only below that size;
* without a limit, a file within a page below 4 GiB gets a buffer smaller than what is read
  into it (fio_easyrw.c:46, 159); `LimitProtects` says which limits keep that away;
* the test `accl > expect_len` (fio_easyrw.c:111) cannot succeed: a file that grew is
  returned with the length it had at `stat`;
* `hexdump_f` prints its parameter `limit` and does not use it;
* `main` never calls `initops_exec_exit`.

Bounds. Two queues are enough for the table loops to have a first, a last and an
entry that is stopped while another still works; two writers for each race between
writers; three jobs for a queue that holds one while one is run and one is being
added, and for the rr index to wrap. `ExitMod` = 2 makes the exit counter wrap as
often as it can. A limit of 2 with two threads and three slices lets a thread meet
the limit while the other is inside a call, and leaves malloc a slice too many to
give if the limit did not hold. Of the sizes one is below the header, one needs
padding and one wraps. `MaxFail` caps a counter nobody reads. Three entries are an
entry before, at and after a failure. Three processes are a parent, its child and a
rival that starts at any moment; the command lines reach both ends of the message level.
Two slices and two processors let one thread run a callback while another has one left
over, and a slice be used again before its last callback was counted; the counters wrap.
Three nodes are a first, a middle and a last one. The file sizes lie below the limit, between
limit and width, in the page below the width, at it and above it. 34 bytes are two rows and
a rest. Jobs, writers, processes, slices, processors, nodes and heads are symmetric; queues are
not, main walks them in order. Runs with liveness properties use no symmetry. The
safety properties of the passing runs do not depend on these bounds: they are proved.

Fairness. Threads that can run do run (weak fairness per thread, as an operating
system schedules them), and the call_rcu thread runs callbacks that are due.
Waiting for a mutex or spinlock (`pthread_mutex_lock`, `pthread_spin_lock`) is strongly fair:
others release it again and again and a scheduler does not pick the same loser for ever.
`pthread_mutex_trylock` does not wait, so the loop of `rr4idle_add_job` only gets weak
fairness, and it can really starve, as its comment says (threadwq_man_rr.c:57): two workers
that keep waking up spuriously can have their mutex each time the writer looks. So no
property says that a call of `threadwq_man_add_job` returns. `EveryJobFinishes` does not need it:
if a job waits in a queue for good, its worker sleeps and the mutex of that queue stays free,
so the loops of the writers get to it and end, and main gets to stop the queue. `ExitReadFairness` says that a
worker that looks at `exit` infinitely often while it is being stopped does not
meet the one value 0 out of 2^32 every time; without it the wrap of the counter is a
genuine, if absurd, way never to stop. No fairness is assumed for job submission,
spurious wakeups, or, in the service run, for the decision to stop. In
`InitOps` the init and exit functions return. `Template` and `Lgu` are checked for safety only.

## What is proved

For every number of queues, jobs, writers, threads, slices and table entries, every
limit and every modulus, from the named assumptions in the modules.

* `ThreadWq_proofs`: `TypeCorrect`, `ExitDrainsQueue`, `ExitLosesNoJob`,
  `FinishedJobIsUnreachable`, `WorkerInitAlone`, and `DeliversJobs`, the refinement of
  `JobDelivery`. The inductive invariant `IInv` has a control part and a job part.
  Control: which worker states are possible for which main state (`LoopStart`,
  `NotCreated`, `Quiet`, `StoppedGone`), what the flags say about the worker
  (`Flags`: `exit_ack` only from a worker past its flush), that no writer is active
  once stopping began (`Joined`), and that the queue is empty once the worker
  left the flush (`Flush`, `Closed`): nothing is added during the flush because the
  writers were joined, and that is why the flush is enough. Jobs: every submitted
  job is in exactly one place (`NoDuplicates`, `Disjoint`, `Conserved`), and a job a
  reader has seen is still queued, being run, or deferred with that reader in its
  grace period (`Protected`), which is the reason for `call_rcu`.
* `Mempool_proofs`: `TypeCorrect`, `RefIsExact`, `LimitHolds`, `OwnerIsExclusive`,
  `MagicHolds`, `LeakReportIsExact`, `SlicesFit`. The invariant says that only the lock holder is
  inside a critical section, that every slice of the heap is in exactly one of the
  places free list, owner or a call in progress, that the free list has no
  duplicates and only slices with their magic number, and that `ref` counts the heap
  but for the step between malloc and `ref++`. For `SlicesFit` it also says that the size a
  call in progress carries is what `calc_slice_sz` made of a request (`SizeInv`): rounded up
  without a wrap (`RoundUp`), or refused before malloc.
* `InitOps_proofs`: `TypeCorrect`, `InitRunsOnTop`, `ExitsOnce`, `ExitsDescend`,
  `ExitsFollowInits`, `LowerOrdersCovered`. The invariant says how far each loop has
  come: what the upward passes have initialised before their position (`UpTo`,
  `UpToBad`), that every exit call so far lies behind the position of the loop that
  goes down (`Behind`, which gives "at most once" and "descending" at the next call),
  and that this loop left nothing out above its position (`Covered`).

* `ThreadWqMan_proofs`: `ManTypeCorrect`, `IndexStaysNearTable`, `LockedAddIsSafe`,
  `ManKeepsQueues`, `ManDeliversJobs`. The invariant of `ThreadWq` is kept by what the manager
  does to a queue (the lemmas of `ThreadWq_proofs` are about effects, not about the action that
  has them); on top of it `CallInv` says how far each call into a policy has come and
  `MutexInv` which thread holds a queue's mutex there (`HoldsMutex`: from the trylock on). The index needs a count: each writer
  between its read of `twq_idx` and its increment can move it once more, so the bound is about
  the index plus the number of such writers, which is why `ProducersFinite` is assumed.
* `Template_proofs`: `TypeCorrect`, `OneInstance`, `OnePlace`, `OnlyLateCallbacksLeak`,
  `CountersStayBalanced`. `ProcInv` ties each process's step to the lock it holds: a process
  past `keep_single` has it, through the fork of `daemon` as well. `LevelInv` gives the range
  of `stdmsg_lv`; that `argparse` stays on the scale for a command line of every length is an
  induction over the options (`ArgparseLevel`). `BenchInv` says who can hold slices in which
  phase (`PhaseInv`, `PlaceInv`), which call_rcu threads still run (`RcuInv`), that a slice
  that was allocated is at one place or reported as leaked (`AccountInv`), and how
  `cnt_start` and `cnt_finish` differ modulo their width. The set of processors is finite.
* `List_proofs` holds the argument for `ListsWellLinked`, `OperationsImplementSequences` and
  `SafeLoopsVisitAll`, which `Lgu_proofs` states for `LguSpec`. The invariant `ListInv` gives each
  head in use a sequence of nodes that `next` and `prev` go through in both directions, with the head
  before the first and after the last (`Ring`), no node at two places (`NoShare`), and free nodes
  that are initialised on both sides or on none (`FreeOK`: `list_del` of an initialised node must
  change no list). Hash lists have a line that ends in NIL and whose `pprev` go back (`HLine`).
  `WalkIs` shows by induction that a walk over such a chain meets exactly its sequence; it is the
  only place that needs the nodes to be finite. Each operation has a lemma that takes chains to the
  chains of `Lists`, aliased neighbours included (`AddOp`, `DelOp`, `MoveOp`, `SpliceOp`, `HAddHead`,
  `HAddNode`, `HDelOp`). For a safe loop, the nodes it has not seen are the last ones of its head's
  list (the first ones, going backward), which every body allowed to it preserves (`UnseenStep`).
  `ListAssumption` says that heads, nodes, NIL and the poison values are different addresses.
* `Lgu_proofs`: `ReadIsAllOrNothing`, `LimitIsEnough`, `DumpOfEveryLength`. For the reader,
  `HoldInv` says what buffer and descriptor each step holds, `SimpleInv` and `BlockInv` what
  has been read, cut to an unsigned int as the code cuts it. `ReadIsAllOrNothing` gives the
  whole file for sizes that an unsigned int holds (without a limit, larger ones are cut), and
  `LimitIsEnough` for every size, under a limit that refuses the larger ones. For the dump, the rows so far
  are the rows of the bytes so far, and the two arrays hold the rest.
* `NatFacts`: `SetInduction` is induction over the numbers for a *set* of numbers. The library's
  induction theorems have an operator as a parameter, which the provers cannot instantiate; this one
  is derived from the least element of a set and can be cited everywhere.

Only model-checked: liveness (`ExitCompletes`, `EveryJobFinishes`,
`ImplementsFairDelivery`, `CallsReturn`, `ExecReturns`), which the prover
does not handle. Every invariant and action property that a passing run checks has a theorem.

## Not modelled

* `atomic.h` and `tm.c` are not called by the program: the first wraps compiler built-ins,
  the second formats and subtracts time stamps without state. `asciidump.h` prints each byte
  by itself. What the message macros print is left out.
* Of the hash lists, the loops that go on from a node or are safe against removal; they are
  the `next` loops of the lists.
* `THREADWQ_BLOCKED_ENQUEUE` 0, which is not the configured build.
* liburcu, json-c and kconfig-frontends are imported archives; the build files have
  no behaviour to check.

## Plan

1. Done: `ThreadWq` with `JobDelivery`, `Mempool`, `ThreadWqMan`, `InitOps`; their theorems.
2. Done: `SingleInstance`, `Benchmark`, `Template`, `List` with `Lists`, `FioEasyRw`, `HexDump`.
3. Done: proofs about `ThreadWqMan`, `Template`, `List`, `FioEasyRw`, `HexDump` and the sizes of
   `Mempool`.
