------------------------------- MODULE Mempool -------------------------------
(***************************************************************************)
(* The memory pool of mempool.c: slices come from malloc, go to the callers *)
(* of mempool_alloc, come back through mempool_free to a LIFO free list and *)
(* are released by mempool_recycle and mempool_exit.  Threads call it       *)
(* concurrently; the spinlock protects ref, fail and list_free.  Inside a   *)
(* critical section each access is a step of its own, so that what the lock *)
(* is worth is visible.                                                     *)
(***************************************************************************)
EXTENDS Naturals, Sequences, FiniteSets

CONSTANTS
  Thread,      \* threads that use the pool
  Slice,       \* the addresses malloc can return
  NULL,
  Max,         \* the max of mempool_init; 0 means no limit
  HasCtor,     \* the pool has a constructor (main.c passes NULL)
  SizeArg,     \* the size arguments given to mempool_init
  Word,        \* sizeof(unsigned long)
  HeaderSize,  \* sizeof(struct mempool_slice)
  UIntMod,     \* unsigned int counts modulo this (2^32 in the code)
  MaxFail      \* bound of the run: the fail counter stops here

ASSUME ThreadAssumption == Thread \cap {"free"} = {}
ASSUME SliceAssumption == NULL \notin Slice
ASSUME MaxAssumption == Max \in Nat /\ HasCtor \in BOOLEAN /\ MaxFail \in Nat
ASSUME SizeAssumption ==
  /\ Word \in Nat \ {0} /\ HeaderSize \in Nat /\ UIntMod \in Nat
  /\ HeaderSize % Word = 0 /\ UIntMod % Word = 0 /\ 0 < HeaderSize /\ HeaderSize < UIntMod
  /\ SizeArg \subseteq 0 .. UIntMod - 1

VARIABLES
  life,        \* of the pool; "bug" and "segv" are the ends of the process
  size, sz,    \* the size asked for and the slice size computed from it
  ref, fail, list_free, lock,
  heap,        \* slices malloc has returned and free has not taken back
  magic,       \* the slices whose magic field holds MEMPOOL_SLICE_MAGIC
  pc, slice,   \* per thread: where it is, and its local variable slice
  owned        \* per thread: the slices its caller owns

poolVars == <<size, sz, ref, fail, list_free, lock>>
memVars  == <<heap, magic>>
thrVars  == <<pc, slice, owned>>
vars == <<life, poolVars, memVars, thrVars>>

LockedPc == {"look", "del", "inc", "aunlock", "add", "funlock", "recycle", "runlock"}
Pc == LockedPc \cup {"idle", "alock", "ctor", "flock", "rlock"}

TypeOK ==
  /\ life \in {"none", "ready", "exit", "over", "bug", "segv"}
  /\ size \in 0 .. UIntMod - 1 /\ sz \in 0 .. UIntMod - 1
  /\ ref \in Nat /\ fail \in 0 .. MaxFail
  /\ list_free \in Seq(Slice)
  /\ lock \in Thread \cup {"free"}
  /\ heap \subseteq Slice /\ magic \subseteq Slice
  /\ pc \in [Thread -> Pc]
  /\ slice \in [Thread -> Slice \cup {NULL}]
  /\ owned \in [Thread -> SUBSET Slice]

Init ==
  /\ life = "none"
  /\ size = 0 /\ sz = 0 /\ ref = 0 /\ fail = 0
  /\ list_free = <<>> /\ lock = "free"
  /\ heap = {} /\ magic = {}
  /\ pc = [t \in Thread |-> "idle"]
  /\ slice = [t \in Thread |-> NULL]
  /\ owned = [t \in Thread |-> {}]

-----------------------------------------------------------------------------
\* Round up to the header and to a whole number of words, in unsigned int.
mempool_calc_slice_size(input) ==
  LET real_size == IF input < HeaderSize THEN HeaderSize ELSE input
      padding   == IF real_size % Word = 0 THEN 0 ELSE Word - (real_size % Word)
  IN  (real_size + padding) % UIntMod

mempool_init(n) ==
  /\ life = "none"
  /\ life' = "ready"
  /\ size' = n
  /\ sz' = mempool_calc_slice_size(n)
  /\ ref' = 0 /\ fail' = 0 /\ list_free' = <<>> /\ lock' = "free"
  /\ UNCHANGED <<memVars, thrVars>>

-----------------------------------------------------------------------------
GoTo(t, from, to) == pc[t] = from /\ pc' = [pc EXCEPT ![t] = to]

SpinLock(t) == lock = "free" /\ lock' = t
SpinUnlock == lock' = "free"

\* mempool_alloc is called.
mempool_alloc(t) ==
  /\ GoTo(t, "idle", "alock")
  /\ UNCHANGED <<poolVars, memVars, slice, owned>>

\* Mutant: the free list and ref are used without the lock.
alloc_lock_Unlocked(t) ==
  /\ GoTo(t, "alock", "look")
  /\ UNCHANGED <<poolVars, memVars, slice, owned>>

alloc_lock(t) ==
  /\ GoTo(t, "alock", "look")
  /\ SpinLock(t)
  /\ UNCHANGED <<size, sz, ref, fail, list_free, memVars, slice, owned>>

AtLimit == Max # 0 /\ ref >= Max

\* Mutant: the early return skips the unlock.
alloc_slice_limit_KeepsLock(t) ==
  /\ list_free = <<>>
  /\ AtLimit
  /\ GoTo(t, "look", "idle")
  /\ fail' = IF fail < MaxFail THEN fail + 1 ELSE fail
  /\ UNCHANGED <<size, sz, ref, list_free, lock, memVars, slice, owned>>

\* alloc_slice: nothing on the free list and the limit is reached.
alloc_slice_limit(t) ==
  /\ list_free = <<>>
  /\ AtLimit
  /\ GoTo(t, "look", "aunlock")
  /\ fail' = IF fail < MaxFail THEN fail + 1 ELSE fail
  /\ UNCHANGED <<size, sz, ref, list_free, lock, memVars, slice, owned>>

\* alloc_slice: malloc fails.
alloc_slice_nomem(t) ==
  /\ list_free = <<>>
  /\ ~AtLimit /\ sz >= HeaderSize
  /\ GoTo(t, "look", "aunlock")
  /\ UNCHANGED <<poolVars, memVars, slice, owned>>

\* Mutant: a size that wrapped is not caught.
alloc_slice_malloc_NoSizeCheck(t, s) ==
  /\ list_free = <<>>
  /\ ~AtLimit
  /\ GoTo(t, "look", "inc")
  /\ s \notin heap
  /\ heap' = heap \cup {s}
  /\ magic' \in {magic \ {s}, magic \cup {s}}
  /\ slice' = [slice EXCEPT ![t] = s]
  /\ UNCHANGED <<poolVars, owned>>

\* alloc_slice: malloc returns s, with whatever was in that memory before.
alloc_slice_malloc(t, s) ==
  /\ list_free = <<>>
  /\ ~AtLimit /\ sz >= HeaderSize
  /\ GoTo(t, "look", "inc")
  /\ s \notin heap
  /\ heap' = heap \cup {s}
  /\ magic' \in {magic \ {s}, magic \cup {s}}
  /\ slice' = [slice EXCEPT ![t] = s]
  /\ UNCHANGED <<poolVars, owned>>

alloc_slice_inc(t) ==
  /\ GoTo(t, "inc", "aunlock")
  /\ ref' = ref + 1
  /\ UNCHANGED <<size, sz, fail, list_free, lock, memVars, slice, owned>>

\* alloc_slice: list_first_entry ...
alloc_slice_first(t) ==
  /\ list_free # <<>>
  /\ GoTo(t, "look", "del")
  /\ slice' = [slice EXCEPT ![t] = Head(list_free)]
  /\ UNCHANGED <<poolVars, memVars, owned>>

\* list_del of the entry at position k.
Without(s, k) == [i \in 1 .. Len(s) - 1 |-> IF i < k THEN s[i] ELSE s[i + 1]]

\* Mutant: the slice is handed out and stays on the free list.
alloc_slice_del_Skipped(t) ==
  /\ GoTo(t, "del", "aunlock")
  /\ slice[t] \in magic
  /\ UNCHANGED <<poolVars, memVars, slice, owned>>

\* ... and list_del.
alloc_slice_del(t) ==
  /\ GoTo(t, "del", "aunlock")
  /\ slice[t] \in magic
  /\ \E k \in 1 .. Len(list_free) :
       list_free[k] = slice[t] /\ list_free' = Without(list_free, k)
  /\ UNCHANGED <<size, sz, ref, fail, lock, memVars, slice, owned>>

\* Mutant: the caller takes NULL for a slice.
HandOut_Unchecked(t) ==
  /\ owned' = [owned EXCEPT ![t] = @ \cup {slice[t]}]
  /\ slice' = [slice EXCEPT ![t] = NULL]

\* mempool_alloc returns its slice, or NULL, to the caller.
HandOut(t) ==
  /\ owned' = [owned EXCEPT ![t] = @ \cup ({slice[t]} \ {NULL})]
  /\ slice' = [slice EXCEPT ![t] = NULL]

\* The unlock of mempool_alloc; without a constructor the caller has the slice.
alloc_unlock(t) ==
  /\ GoTo(t, "aunlock", IF HasCtor THEN "ctor" ELSE "idle")
  /\ SpinUnlock
  /\ IF HasCtor THEN UNCHANGED <<slice, owned>> ELSE HandOut(t)
  /\ UNCHANGED <<size, sz, ref, fail, list_free, memVars>>

\* The constructor accepts; it has been called with NULL if there is no slice.
ctor_accept(t) ==
  /\ GoTo(t, "ctor", "idle")
  /\ HandOut(t)
  /\ UNCHANGED <<poolVars, memVars>>

\* Mutant: the magic number is not written.
MarkFree_Skipped(t, s) == UNCHANGED magic

\* mempool_free(s) up to its lock: the destructor, and the magic number.
MarkFree(t, s) == magic' = magic \cup {s}

\* The constructor rejects and mempool_alloc gives the slice back itself.
ctor_reject(t) ==
  /\ slice[t] # NULL
  /\ GoTo(t, "ctor", "flock")
  /\ MarkFree(t, slice[t])
  /\ UNCHANGED <<poolVars, heap, slice, owned>>

\* mempool_free is called for a slice of u, by any thread: cb_finish of main.c frees
\* in a call_rcu thread what a writer has allocated.
mempool_free(t, u, s) ==
  /\ s \in owned[u]
  /\ GoTo(t, "idle", "flock")
  /\ MarkFree(t, s)
  /\ slice' = [slice EXCEPT ![t] = s]
  /\ owned' = [owned EXCEPT ![u] = @ \ {s}]
  /\ UNCHANGED <<poolVars, heap>>

free_lock(t) ==
  /\ GoTo(t, "flock", "add")
  /\ SpinLock(t)
  /\ UNCHANGED <<size, sz, ref, fail, list_free, memVars, slice, owned>>

\* list_add: the slice goes to the head of the list, where it is cache-hot.
free_list_add(t) ==
  /\ GoTo(t, "add", "funlock")
  /\ list_free' = <<slice[t]>> \o list_free
  /\ UNCHANGED <<size, sz, ref, fail, lock, memVars, slice, owned>>

free_unlock(t) ==
  /\ GoTo(t, "funlock", "idle")
  /\ SpinUnlock
  /\ slice' = [slice EXCEPT ![t] = NULL]
  /\ UNCHANGED <<size, sz, ref, fail, list_free, memVars, owned>>

-----------------------------------------------------------------------------
\* mempool_recycle is called.  Its argument reserve goes nowhere: the recycling
\* below runs with the constant 0, as it does for mempool_exit.
mempool_recycle(t) ==
  /\ GoTo(t, "idle", "rlock")
  /\ UNCHANGED <<poolVars, memVars, slice, owned>>

recycle_lock(t) ==
  /\ GoTo(t, "rlock", "recycle")
  /\ SpinLock(t)
  /\ UNCHANGED <<size, sz, ref, fail, list_free, memVars, slice, owned>>

\* Mutant: free_slice forgets ref.
free_first_KeepsRef ==
  /\ Head(list_free) \in magic
  /\ list_free' = Tail(list_free)
  /\ heap' = heap \ {Head(list_free)}
  /\ ref' = ref

\* list_del and free_slice of the first entry.
free_first ==
  /\ Head(list_free) \in magic
  /\ list_free' = Tail(list_free)
  /\ heap' = heap \ {Head(list_free)}
  /\ ref' = ref - 1

\* The loop of __mempool_recycle goes on.
recycle_more(n) == list_free # <<>> /\ ref > n

recycle_one(t) ==
  /\ pc[t] = "recycle"
  /\ recycle_more(0)
  /\ free_first
  /\ UNCHANGED <<size, sz, fail, lock, magic, thrVars>>

recycle_end(t) ==
  /\ GoTo(t, "recycle", "runlock")
  /\ ~recycle_more(0)
  /\ UNCHANGED <<poolVars, memVars, slice, owned>>

recycle_unlock(t) ==
  /\ GoTo(t, "runlock", "idle")
  /\ SpinUnlock
  /\ UNCHANGED <<size, sz, ref, fail, list_free, memVars, slice, owned>>

\* The owner of a slice writes its data over the header.
owner_write(t, s) ==
  /\ pc[t] = "idle"
  /\ s \in owned[t]
  /\ magic' = magic \ {s}
  /\ UNCHANGED <<poolVars, heap, thrVars>>

-----------------------------------------------------------------------------
\* mempool_exit, called when no thread is inside the pool: it takes no lock.
mempool_exit ==
  /\ life = "ready"
  /\ \A t \in Thread : pc[t] = "idle"
  /\ life' = "exit"
  /\ UNCHANGED <<poolVars, memVars, thrVars>>

exit_recycle ==
  /\ life = "exit"
  /\ recycle_more(0)
  /\ free_first
  /\ UNCHANGED <<life, size, sz, fail, lock, magic, thrVars>>

\* Mutant: the leak is reported without recycling first.
exit_report_Early ==
  /\ life = "exit"
  /\ life' = "over"
  /\ UNCHANGED <<poolVars, memVars, thrVars>>

\* The loop has ended; ref is what mempool_exit reports as leaked.
exit_report ==
  /\ life = "exit"
  /\ ~recycle_more(0)
  /\ life' = "over"
  /\ UNCHANGED <<poolVars, memVars, thrVars>>

\* A BUG_ON fires: on a slice from the free list without its magic number, or
\* on a slice size smaller than the header.
bug_on ==
  /\ \/ \E t \in Thread : pc[t] = "del" /\ slice[t] \notin magic
     \/ \E t \in Thread : pc[t] = "recycle" /\ recycle_more(0) /\ Head(list_free) \notin magic
     \/ life = "exit" /\ recycle_more(0) /\ Head(list_free) \notin magic
     \/ \E t \in Thread : pc[t] = "look" /\ list_free = <<>> /\ ~AtLimit /\ sz < HeaderSize
  /\ life' = "bug"
  /\ UNCHANGED <<poolVars, memVars, thrVars>>

\* The constructor was called with NULL and rejects: mempool_free writes the
\* magic number through the null pointer.
ctor_reject_null(t) ==
  /\ pc[t] = "ctor" /\ slice[t] = NULL
  /\ life' = "segv"
  /\ UNCHANGED <<poolVars, memVars, thrVars>>

ThreadStep(t) ==
  \/ mempool_alloc(t) \/ alloc_lock(t)
  \/ alloc_slice_limit(t) \/ alloc_slice_nomem(t)
  \/ (\E s \in Slice : alloc_slice_malloc(t, s)) \/ alloc_slice_inc(t)
  \/ alloc_slice_first(t) \/ alloc_slice_del(t)
  \/ alloc_unlock(t) \/ ctor_accept(t) \/ ctor_reject(t)
  \/ (\E u \in Thread, s \in Slice : mempool_free(t, u, s))
  \/ free_lock(t) \/ free_list_add(t) \/ free_unlock(t)
  \/ mempool_recycle(t)
  \/ recycle_lock(t) \/ recycle_one(t) \/ recycle_end(t) \/ recycle_unlock(t)
  \/ (\E s \in Slice : owner_write(t, s))

Running ==
  \/ life = "ready" /\ life' = life /\ \E t \in Thread : ThreadStep(t)
  \/ life = "ready" /\ \E t \in Thread : ctor_reject_null(t)
  \/ mempool_exit \/ exit_recycle \/ exit_report
  \/ life \in {"ready", "exit"} /\ bug_on
  \/ \E n \in SizeArg : mempool_init(n)

Terminated == life \in {"over", "bug", "segv"} /\ UNCHANGED vars

Next == Running \/ Terminated

Spec == Init /\ [][Next]_vars
-----------------------------------------------------------------------------
(* Fairness: a thread inside the pool keeps running, into a BUG_ON if it     *)
(* comes to that, and a thread that spins on the lock gets it in the end.    *)

Inside(t) == life = "ready" /\ life' = life /\ pc[t] # "idle" /\ ThreadStep(t)

GetsLock(t) ==
  /\ life = "ready" /\ life' = life
  /\ alloc_lock(t) \/ free_lock(t) \/ recycle_lock(t)

FairSpec ==
  /\ Spec
  /\ \A t \in Thread : WF_vars(Inside(t)) /\ SF_vars(GetsLock(t))
  /\ WF_vars(life = "ready" /\ bug_on)

-----------------------------------------------------------------------------
(* Properties.                                                               *)

Listed == {list_free[i] : i \in 1 .. Len(list_free)}
Leaked == UNION {owned[t] : t \in Thread}

\* ref counts the slices that malloc gave and free did not take back, but for
\* the instant between malloc and ref++ in alloc_slice.
RefCountsSlices ==
  ref + Cardinality({t \in Thread : pc[t] = "inc"}) = Cardinality(heap)

\* A pool with a limit never has more than max slices from malloc, in use or on
\* the free list together (alloc_slice tests ref, not the caller's share).
WithinMax == Max # 0 => Cardinality(heap) <= Max

\* A slice that mempool_alloc returned belongs to that caller alone until it
\* calls mempool_free: no other caller has it, it is not on the free list, and
\* recycle has not given it back to the system.
ExclusiveOwner ==
  /\ \A t, u \in Thread : t # u => owned[t] \cap owned[u] = {}
  /\ Leaked \cap Listed = {}
  /\ Leaked \subseteq heap

\* What callers write into their slices never trips the magic checks of
\* alloc_slice and free_slice: the only BUG_ON that can fire is the one for a
\* slice size that wrapped around.
MagicCheckNeverFires == life = "bug" => sz < HeaderSize

\* Nobody is given a slice smaller than asked for: mempool_calc_slice_size wraps
\* for sizes close to the top of unsigned int, and BUG_ON(mp->sz < sizeof(struct
\* mempool_slice)) stops the process before malloc is called with such a size.
SliceFits ==
  Leaked # {} =>
    /\ sz >= size /\ sz >= HeaderSize
    /\ sz % Word = 0
    /\ sz < Word + (IF size < HeaderSize THEN HeaderSize ELSE size)

\* The number mempool_exit reports is the number of slices callers still own,
\* and those are all the memory the pool has left behind.
ExitReportsLeaks ==
  life = "over" => heap = Leaked /\ ref = Cardinality(Leaked)

\* Every call into the pool returns, unless the process dies.
CallsReturn ==
  \A t \in Thread : (pc[t] # "idle") ~> (pc[t] = "idle" \/ life # "ready")

\* mempool_alloc hands the constructor a slice it may reject: "Caller reject this
\* allocation." (mempool.c:79).  Giving it back never writes through NULL.
RejectedAllocationExists == life # "segv"
=============================================================================
