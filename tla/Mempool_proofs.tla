---------------------------- MODULE Mempool_proofs ----------------------------
(***************************************************************************)
(* Proofs about Mempool, for every number of threads and slices, every      *)
(* limit and every size.                                                    *)
(***************************************************************************)
EXTENDS Mempool, NatFacts, FiniteSetTheorems, TLAPS

\* Exactly the thread inside a critical section has the lock.
LockInv == \A t \in Thread : lock = t <=> pc[t] \in LockedPc

\* The slice a thread has in hand, neither listed nor owned by a caller.
InHand(t) == pc[t] \in {"inc", "aunlock", "ctor", "flock", "add"} /\ slice[t] # NULL

LocalInv ==
  \A t \in Thread :
    /\ pc[t] \in {"idle", "alock", "look", "rlock", "recycle", "runlock"} => slice[t] = NULL
    /\ pc[t] \in {"inc", "flock", "add"} => slice[t] # NULL
    /\ pc[t] = "del" => Len(list_free) >= 1 /\ slice[t] = list_free[1]
    /\ pc[t] \in {"flock", "add"} => slice[t] \in magic

\* A slice from malloc is on the free list, in one thread's hand or owned.
ListInv ==
  /\ \A i, k \in 1 .. Len(list_free) : list_free[i] = list_free[k] => i = k
  /\ \A i \in 1 .. Len(list_free) : list_free[i] \in heap /\ list_free[i] \in magic

HandInv ==
  \A t \in Thread : InHand(t) =>
    /\ slice[t] \in heap
    /\ \A i \in 1 .. Len(list_free) : list_free[i] # slice[t]
    /\ \A u \in Thread : slice[t] \notin owned[u]
    /\ \A u \in Thread : InHand(u) /\ slice[u] = slice[t] => u = t

OwnerInv ==
  \A t \in Thread : \A s \in owned[t] :
    /\ s \in heap
    /\ \A i \in 1 .. Len(list_free) : list_free[i] # s
    /\ \A u \in Thread : s \in owned[u] => u = t

Accounted ==
  \A s \in heap :
    \/ \E i \in 1 .. Len(list_free) : list_free[i] = s
    \/ \E t \in Thread : InHand(t) /\ slice[t] = s
    \/ \E t \in Thread : s \in owned[t]

PlaceInv == ListInv /\ HandInv /\ OwnerInv /\ Accounted

CountInv ==
  /\ IsFiniteSet(heap)
  /\ (\E t \in Thread : pc[t] = "inc") => ref + 1 = Cardinality(heap)
  /\ (\A t \in Thread : pc[t] # "inc") => ref = Cardinality(heap)
  /\ WithinMax

LifeInv ==
  /\ life \in {"none", "exit", "over"} => \A t \in Thread : pc[t] = "idle"
  /\ life = "over" => list_free = <<>>
  /\ life = "none" => heap = {}
  /\ life = "bug" => sz < HeaderSize

\* The slice size is the one computed from the size asked for, and nothing came from
\* malloc with a size that wrapped.
SizeInv ==
  /\ life # "none" => sz = mempool_calc_slice_size(size)
  /\ heap # {} => sz >= HeaderSize

IInv == TypeOK /\ LockInv /\ LocalInv /\ PlaceInv /\ CountInv /\ LifeInv /\ SizeInv
-----------------------------------------------------------------------------
\* A slice size is an unsigned int.
LEMMA CalcType ==
  ASSUME NEW n \in 0 .. UIntMod - 1
  PROVE  mempool_calc_slice_size(n) \in 0 .. UIntMod - 1
  BY SizeAssumption DEF mempool_calc_slice_size

\* The next multiple of the word size does not pass a larger multiple.
LEMMA RoundUp ==
  ASSUME NEW w \in Nat \ {0}, NEW r \in Nat, NEW top \in Nat, r < top, top % w = 0
  PROVE  LET pad == IF r % w = 0 THEN 0 ELSE w - (r % w)
         IN  /\ pad \in 0 .. w - 1
             /\ (r + pad) % w = 0
             /\ r + pad =< top
<1> DEFINE q == r \div w
<1> DEFINE m == r % w
<1> DEFINE k == top \div w
<1> DEFINE pad == IF m = 0 THEN 0 ELSE w - m
<1>1. q \in Nat /\ m \in 0 .. w - 1 /\ r = w * q + m
  OBVIOUS
<1>2. k \in Nat /\ top = w * k
  OBVIOUS
<1>3. pad \in 0 .. w - 1
  BY <1>1
<1> HIDE DEF q, m, k
<1>4. q < k
  <2> SUFFICES ASSUME k =< q PROVE FALSE
    BY <1>1, <1>2
  <2>1. q - k \in Nat /\ w * q = w * k + w * (q - k)
    BY <1>1, <1>2
  <2>2. w * (q - k) \in Nat
    BY <2>1
  <2> QED
    BY <1>1, <1>2, <2>1, <2>2
<1>5. w * (q + 1) = w * q + w /\ w * (q + 1) =< w * k
  <2>1. w * (q + 1) = w * q + w
    BY <1>1
  <2>2. k - (q + 1) \in Nat /\ w * k = w * (q + 1) + w * (k - (q + 1))
    BY <1>1, <1>2, <1>4
  <2>3. w * (k - (q + 1)) \in Nat
    BY <2>2
  <2>4. w * (q + 1) \in Nat /\ w * k \in Nat
    BY <1>1, <1>2
  <2> QED
    BY <2>1, <2>2, <2>3, <2>4
<1>6. w * q \in Nat /\ w * (q + 1) \in Nat /\ w * k \in Nat
  BY <1>1, <1>2
<1>7. CASE m = 0
  <2>1. pad = 0 /\ r + pad = w * q + 0 /\ r + pad = r
    BY <1>1, <1>6, <1>7
  <2>2. r % w = 0
    BY <1>7 DEF m
  <2>3. pad \in 0 .. w - 1 /\ (r + pad) % w = 0 /\ r + pad =< top
    BY <1>3, <2>1, <2>2
  <2> QED
    BY <2>3 DEF m
<1>8. CASE m # 0
  <2>1. r + pad = w * (q + 1) + 0 /\ r + pad \in Nat /\ q + 1 \in Nat /\ 0 \in 0 .. w - 1
    BY <1>1, <1>5, <1>6, <1>8
  <2>2. (r + pad) % w = 0
    <3> HIDE DEF pad
    <3> QED
      BY <2>1, RemainderUnique
  <2>3. r + pad =< top
    BY <1>2, <1>5, <1>6, <2>1
  <2>4. pad \in 0 .. w - 1 /\ (r + pad) % w = 0 /\ r + pad =< top
    BY <1>3, <2>2, <2>3
  <2> QED
    BY <2>4 DEF m
<1> QED
  BY <1>7, <1>8

\* A slice size that did not wrap has room for the data and for the header, is a whole
\* number of words and wastes less than one word.
LEMMA CalcFits ==
  ASSUME NEW n \in 0 .. UIntMod - 1, mempool_calc_slice_size(n) >= HeaderSize
  PROVE  LET c == mempool_calc_slice_size(n)
         IN  /\ c >= n /\ c % Word = 0
             /\ c < Word + (IF n < HeaderSize THEN HeaderSize ELSE n)
<1> USE SizeAssumption
<1> DEFINE r == IF n < HeaderSize THEN HeaderSize ELSE n
<1> DEFINE pad == IF r % Word = 0 THEN 0 ELSE Word - (r % Word)
<1>1. r \in Nat /\ r < UIntMod /\ r >= n /\ r >= HeaderSize
  OBVIOUS
<1>2. mempool_calc_slice_size(n) = (r + pad) % UIntMod
  BY DEF mempool_calc_slice_size
<1>3. pad \in 0 .. Word - 1 /\ (r + pad) % Word = 0 /\ r + pad =< UIntMod
  <2> HIDE DEF r
  <2> QED
    BY <1>1, RoundUp
<1> HIDE DEF r, pad
<1>4. r + pad # UIntMod
  <2> SUFFICES ASSUME r + pad = UIntMod PROVE FALSE
    OBVIOUS
  <2>1. UIntMod % UIntMod = 0
    OBVIOUS
  <2> QED
    BY <1>2, <2>1
<1>5. mempool_calc_slice_size(n) = r + pad
  BY <1>1, <1>2, <1>3, <1>4
<1> QED
  BY <1>1, <1>3, <1>5 DEF r

\* What list_del does to positions.
LEMMA WithoutFacts ==
  ASSUME NEW s \in Seq(Slice), NEW k \in 1 .. Len(s)
  PROVE  /\ Without(s, k) \in Seq(Slice)
         /\ Len(Without(s, k)) = Len(s) - 1
         /\ \A i \in 1 .. Len(s) - 1 : Without(s, k)[i] = IF i < k THEN s[i] ELSE s[i + 1]
  BY DEF Without

\* What taking the first entry does to positions.
LEMMA TailFacts ==
  ASSUME NEW s \in Seq(Slice), s # <<>>
  PROVE  /\ Len(s) \in Nat /\ Len(s) >= 1
         /\ Head(s) = s[1] /\ Head(s) \in Slice
         /\ Tail(s) \in Seq(Slice)
         /\ Len(Tail(s)) = Len(s) - 1
         /\ \A i \in 1 .. Len(s) - 1 : Tail(s)[i] = s[i + 1]
  OBVIOUS

\* What list_add does to positions.
LEMMA ConsFacts ==
  ASSUME NEW s \in Seq(Slice), NEW e \in Slice
  PROVE  /\ Len(s) \in Nat
         /\ <<e>> \o s \in Seq(Slice)
         /\ Len(<<e>> \o s) = Len(s) + 1
         /\ (<<e>> \o s)[1] = e
         /\ \A i \in 1 .. Len(s) : (<<e>> \o s)[i + 1] = s[i]
  OBVIOUS

\* Every step keeps the types.
LEMMA TypeStep ==
  ASSUME TypeOK, LocalInv, Next
  PROVE  TypeOK'
<1> USE ThreadAssumption, SliceAssumption, MaxAssumption, SizeAssumption DEF TypeOK, poolVars,
   memVars, thrVars
<1>1. ASSUME NEW t \in Thread, ThreadStep(t), life = "ready", life' = life
      PROVE  TypeOK'
  <2>1. CASE mempool_alloc(t)
    BY <1>1, <2>1 DEF mempool_alloc, GoTo, Pc, LockedPc
  <2>2. CASE alloc_lock(t)
    BY <1>1, <2>2 DEF alloc_lock, GoTo, SpinLock, Pc, LockedPc
  <2>3. CASE alloc_slice_limit(t)
    BY <1>1, <2>3 DEF alloc_slice_limit, GoTo, Pc, LockedPc
  <2>4. CASE alloc_slice_nomem(t)
    BY <1>1, <2>4 DEF alloc_slice_nomem, GoTo, Pc, LockedPc
  <2>5. ASSUME NEW s \in Slice, alloc_slice_malloc(t, s) PROVE TypeOK'
    BY <1>1, <2>5 DEF alloc_slice_malloc, GoTo, Pc, LockedPc
  <2>6. CASE alloc_slice_inc(t)
    BY <1>1, <2>6 DEF alloc_slice_inc, GoTo, Pc, LockedPc
  <2>7. CASE alloc_slice_first(t)
    BY <1>1, <2>7 DEF alloc_slice_first, GoTo, Pc, LockedPc
  <2>8. CASE alloc_slice_del(t)
    BY <1>1, <2>8, WithoutFacts DEF alloc_slice_del, GoTo, Without, Pc, LockedPc
  <2>9. CASE alloc_unlock(t)
    <3>1. CASE HasCtor
      BY <1>1, <2>9, <3>1 DEF alloc_unlock, GoTo, SpinUnlock, Pc, LockedPc
    <3>2. CASE ~HasCtor
      <4>1. /\ pc' = [pc EXCEPT ![t] = "idle"] /\ HandOut(t) /\ lock' = "free"
            /\ UNCHANGED <<size, sz, ref, fail, list_free, memVars>>
        BY <2>9, <3>2 DEF alloc_unlock, GoTo, SpinUnlock
      <4> QED
        BY <1>1, <4>1 DEF HandOut, Pc, LockedPc
    <3> QED
      BY <3>1, <3>2
  <2>10. CASE ctor_accept(t)
    BY <1>1, <2>10 DEF ctor_accept, GoTo, HandOut, Pc, LockedPc
  <2>11. CASE ctor_reject(t)
    BY <1>1, <2>11 DEF ctor_reject, GoTo, MarkFree, Pc, LockedPc
  <2>12. ASSUME NEW u \in Thread, NEW s \in Slice, mempool_free(t, u, s) PROVE TypeOK'
    BY <1>1, <2>12 DEF mempool_free, GoTo, MarkFree, Pc, LockedPc
  <2>13. CASE free_lock(t)
    BY <1>1, <2>13 DEF free_lock, GoTo, SpinLock, Pc, LockedPc
  <2>14. CASE free_list_add(t)
    BY <1>1, <2>14, ConsFacts DEF free_list_add, GoTo, LocalInv, Pc, LockedPc
  <2>15. CASE free_unlock(t)
    BY <1>1, <2>15 DEF free_unlock, GoTo, SpinUnlock, Pc, LockedPc
  <2>16. ASSUME mempool_recycle(t) PROVE TypeOK'
    BY <1>1, <2>16 DEF mempool_recycle, GoTo, Pc, LockedPc
  <2>17. CASE recycle_lock(t)
    BY <1>1, <2>17 DEF recycle_lock, GoTo, SpinLock, Pc, LockedPc
  <2>18. CASE recycle_one(t)
    BY <1>1, <2>18, TailFacts DEF recycle_one, free_first, recycle_more, Pc, LockedPc
  <2>19. CASE recycle_end(t)
    BY <1>1, <2>19 DEF recycle_end, GoTo, Pc, LockedPc
  <2>20. CASE recycle_unlock(t)
    BY <1>1, <2>20 DEF recycle_unlock, GoTo, SpinUnlock, Pc, LockedPc
  <2>21. ASSUME NEW s \in Slice, owner_write(t, s) PROVE TypeOK'
    BY <1>1, <2>21 DEF owner_write, Pc, LockedPc
  <2> QED
    BY <1>1, <2>1, <2>2, <2>3, <2>4, <2>5, <2>6, <2>7, <2>8, <2>9, <2>10, <2>11, <2>12, <2>13,
       <2>14, <2>15, <2>16, <2>17, <2>18, <2>19, <2>20, <2>21 DEF ThreadStep
<1>2. ASSUME NEW t \in Thread, ctor_reject_null(t), life = "ready" PROVE TypeOK'
  BY <1>2 DEF ctor_reject_null
<1>3. CASE mempool_exit
  BY <1>3 DEF mempool_exit
<1>4. CASE exit_recycle
  BY <1>4, TailFacts DEF exit_recycle, free_first, recycle_more
<1>5. CASE exit_report
  BY <1>5 DEF exit_report, recycle_more
<1>6. CASE life \in {"ready", "exit"} /\ bug_on
  BY <1>6 DEF bug_on
<1>7. ASSUME NEW n \in SizeArg, mempool_init(n) PROVE TypeOK'
  BY <1>7, CalcType DEF mempool_init
<1>8. CASE Terminated
  BY <1>8 DEF Terminated, vars
<1> QED
  BY <1>1, <1>2, <1>3, <1>4, <1>5, <1>6, <1>7, <1>8 DEF Next, Running

\* Only the thread in a critical section has the lock.
LEMMA LockStep ==
  ASSUME TypeOK, LockInv, LifeInv, Next
  PROVE  LockInv'
<1> USE ThreadAssumption DEF TypeOK, LockInv, LockedPc, poolVars, memVars, thrVars
<1>1. ASSUME NEW t \in Thread, ThreadStep(t), life = "ready", life' = life
      PROVE  LockInv'
  <2>1. CASE mempool_alloc(t)
    BY <1>1, <2>1 DEF mempool_alloc, GoTo
  <2>2. CASE alloc_lock(t)
    BY <1>1, <2>2 DEF alloc_lock, GoTo, SpinLock
  <2>3. CASE alloc_slice_limit(t)
    BY <1>1, <2>3 DEF alloc_slice_limit, GoTo
  <2>4. CASE alloc_slice_nomem(t)
    BY <1>1, <2>4 DEF alloc_slice_nomem, GoTo
  <2>5. ASSUME NEW s \in Slice, alloc_slice_malloc(t, s) PROVE LockInv'
    BY <1>1, <2>5 DEF alloc_slice_malloc, GoTo
  <2>6. CASE alloc_slice_inc(t)
    BY <1>1, <2>6 DEF alloc_slice_inc, GoTo
  <2>7. CASE alloc_slice_first(t)
    BY <1>1, <2>7 DEF alloc_slice_first, GoTo
  <2>8. CASE alloc_slice_del(t)
    BY <1>1, <2>8 DEF alloc_slice_del, GoTo, Without
  <2>9. CASE alloc_unlock(t)
    BY <1>1, <2>9 DEF alloc_unlock, GoTo, SpinUnlock, HandOut
  <2>10. CASE ctor_accept(t)
    BY <1>1, <2>10 DEF ctor_accept, GoTo, HandOut
  <2>11. CASE ctor_reject(t)
    BY <1>1, <2>11 DEF ctor_reject, GoTo, MarkFree
  <2>12. ASSUME NEW u \in Thread, NEW s \in Slice, mempool_free(t, u, s) PROVE LockInv'
    BY <1>1, <2>12 DEF mempool_free, GoTo, MarkFree
  <2>13. CASE free_lock(t)
    BY <1>1, <2>13 DEF free_lock, GoTo, SpinLock
  <2>14. CASE free_list_add(t)
    BY <1>1, <2>14 DEF free_list_add, GoTo
  <2>15. CASE free_unlock(t)
    BY <1>1, <2>15 DEF free_unlock, GoTo, SpinUnlock
  <2>16. ASSUME mempool_recycle(t) PROVE LockInv'
    BY <1>1, <2>16 DEF mempool_recycle, GoTo
  <2>17. CASE recycle_lock(t)
    BY <1>1, <2>17 DEF recycle_lock, GoTo, SpinLock
  <2>18. CASE recycle_one(t)
    BY <1>1, <2>18 DEF recycle_one, free_first, recycle_more
  <2>19. CASE recycle_end(t)
    BY <1>1, <2>19 DEF recycle_end, GoTo
  <2>20. CASE recycle_unlock(t)
    BY <1>1, <2>20 DEF recycle_unlock, GoTo, SpinUnlock
  <2>21. ASSUME NEW s \in Slice, owner_write(t, s) PROVE LockInv'
    BY <1>1, <2>21 DEF owner_write
  <2> QED
    BY <1>1, <2>1, <2>2, <2>3, <2>4, <2>5, <2>6, <2>7, <2>8, <2>9, <2>10, <2>11, <2>12, <2>13,
       <2>14, <2>15, <2>16, <2>17, <2>18, <2>19, <2>20, <2>21 DEF ThreadStep
<1>2. ASSUME NEW t \in Thread, ctor_reject_null(t), life = "ready" PROVE LockInv'
  BY <1>2 DEF ctor_reject_null
<1>3. CASE mempool_exit
  BY <1>3 DEF mempool_exit
<1>4. CASE exit_recycle
  BY <1>4 DEF exit_recycle, free_first, recycle_more
<1>5. CASE exit_report
  BY <1>5 DEF exit_report, recycle_more
<1>6. CASE life \in {"ready", "exit"} /\ bug_on
  BY <1>6 DEF bug_on
<1>7. ASSUME NEW n \in SizeArg, mempool_init(n) PROVE LockInv'
  BY <1>7 DEF mempool_init, LifeInv
<1>8. CASE Terminated
  BY <1>8 DEF Terminated, vars
<1> QED
  BY <1>1, <1>2, <1>3, <1>4, <1>5, <1>6, <1>7, <1>8 DEF Next, Running

\* The local variable slice of each thread is what its code expects.
LEMMA LocalStep ==
  ASSUME TypeOK, LockInv, LocalInv, PlaceInv, LifeInv, Next
  PROVE  LocalInv'
<1> USE ThreadAssumption, SliceAssumption DEF TypeOK, LockInv, LocalInv, LockedPc, poolVars,
   memVars, thrVars
<1>1. ASSUME NEW t \in Thread, ThreadStep(t), life = "ready", life' = life
      PROVE  LocalInv'
  <2>1. CASE mempool_alloc(t)
    BY <1>1, <2>1 DEF mempool_alloc, GoTo
  <2>2. CASE alloc_lock(t)
    BY <1>1, <2>2 DEF alloc_lock, GoTo, SpinLock
  <2>3. CASE alloc_slice_limit(t)
    BY <1>1, <2>3 DEF alloc_slice_limit, GoTo
  <2>4. CASE alloc_slice_nomem(t)
    BY <1>1, <2>4 DEF alloc_slice_nomem, GoTo
  <2>5. ASSUME NEW s \in Slice, alloc_slice_malloc(t, s) PROVE LocalInv'
    BY <1>1, <2>5 DEF alloc_slice_malloc, GoTo, PlaceInv, HandInv, InHand
  <2>6. CASE alloc_slice_inc(t)
    BY <1>1, <2>6 DEF alloc_slice_inc, GoTo
  <2>7. CASE alloc_slice_first(t)
    BY <1>1, <2>7 DEF alloc_slice_first, GoTo
  <2>8. CASE alloc_slice_del(t)
    BY <1>1, <2>8 DEF alloc_slice_del, GoTo, Without
  <2>9. CASE alloc_unlock(t)
    BY <1>1, <2>9 DEF alloc_unlock, GoTo, SpinUnlock, HandOut
  <2>10. CASE ctor_accept(t)
    BY <1>1, <2>10 DEF ctor_accept, GoTo, HandOut
  <2>11. CASE ctor_reject(t)
    BY <1>1, <2>11 DEF ctor_reject, GoTo, MarkFree
  <2>12. ASSUME NEW u \in Thread, NEW s \in Slice, mempool_free(t, u, s) PROVE LocalInv'
    BY <1>1, <2>12 DEF mempool_free, GoTo, MarkFree
  <2>13. CASE free_lock(t)
    BY <1>1, <2>13 DEF free_lock, GoTo, SpinLock
  <2>14. CASE free_list_add(t)
    BY <1>1, <2>14, ConsFacts DEF free_list_add, GoTo
  <2>15. CASE free_unlock(t)
    BY <1>1, <2>15 DEF free_unlock, GoTo, SpinUnlock
  <2>16. ASSUME mempool_recycle(t) PROVE LocalInv'
    BY <1>1, <2>16 DEF mempool_recycle, GoTo
  <2>17. CASE recycle_lock(t)
    BY <1>1, <2>17 DEF recycle_lock, GoTo, SpinLock
  <2>18. CASE recycle_one(t)
    BY <1>1, <2>18, TailFacts DEF recycle_one, free_first, recycle_more
  <2>19. CASE recycle_end(t)
    BY <1>1, <2>19 DEF recycle_end, GoTo
  <2>20. CASE recycle_unlock(t)
    BY <1>1, <2>20 DEF recycle_unlock, GoTo, SpinUnlock
  <2>21. ASSUME NEW s \in Slice, owner_write(t, s) PROVE LocalInv'
    BY <1>1, <2>21 DEF owner_write, PlaceInv, HandInv, InHand
  <2> QED
    BY <1>1, <2>1, <2>2, <2>3, <2>4, <2>5, <2>6, <2>7, <2>8, <2>9, <2>10, <2>11, <2>12, <2>13,
       <2>14, <2>15, <2>16, <2>17, <2>18, <2>19, <2>20, <2>21 DEF ThreadStep
<1>2. ASSUME NEW t \in Thread, ctor_reject_null(t), life = "ready" PROVE LocalInv'
  BY <1>2 DEF ctor_reject_null
<1>3. CASE mempool_exit
  BY <1>3 DEF mempool_exit
<1>4. CASE exit_recycle
  BY <1>4, TailFacts DEF exit_recycle, free_first, recycle_more, LifeInv
<1>5. CASE exit_report
  BY <1>5 DEF exit_report, recycle_more
<1>6. CASE life \in {"ready", "exit"} /\ bug_on
  BY <1>6 DEF bug_on
<1>7. ASSUME NEW n \in SizeArg, mempool_init(n) PROVE LocalInv'
  BY <1>7 DEF mempool_init, LifeInv
<1>8. CASE Terminated
  BY <1>8 DEF Terminated, vars
<1> QED
  BY <1>1, <1>2, <1>3, <1>4, <1>5, <1>6, <1>7, <1>8 DEF Next, Running

-----------------------------------------------------------------------------
(* The places of slices.                                                    *)

\* Most steps move no slice.
LEMMA PlacesKept ==
  ASSUME TypeOK, PlaceInv, UNCHANGED <<heap, list_free, owned>>,
         \A u \in Thread : InHand(u)' <=> InHand(u),
         \A u \in Thread : InHand(u) => slice'[u] = slice[u],
         \A i \in 1 .. Len(list_free) : list_free[i] \in magic'
  PROVE  PlaceInv'
<1>1. ListInv'
  BY DEF PlaceInv, ListInv
<1>2. HandInv'
  BY DEF PlaceInv, HandInv
<1>3. OwnerInv'
  BY DEF PlaceInv, OwnerInv
<1>4. Accounted'
  BY DEF PlaceInv, Accounted
<1> QED
  BY <1>1, <1>2, <1>3, <1>4 DEF PlaceInv

\* A slice from malloc is in the hand of the thread that asked.
LEMMA PlaceMalloc ==
  ASSUME TypeOK, LocalInv, PlaceInv, NEW t \in Thread, NEW s \in Slice,
         alloc_slice_malloc(t, s)
  PROVE  PlaceInv'
<1> USE SliceAssumption DEF poolVars
<1>1. /\ s \notin heap /\ heap' = heap \cup {s}
      /\ UNCHANGED <<list_free, owned>>
      /\ \A x \in heap : x \in magic => x \in magic'
  BY DEF alloc_slice_malloc
<1>2. /\ InHand(t)' /\ slice'[t] = s /\ ~InHand(t)
      /\ \A u \in Thread : u # t => (InHand(u)' <=> InHand(u)) /\ slice'[u] = slice[u]
  BY DEF alloc_slice_malloc, GoTo, InHand, TypeOK
<1>3. ListInv'
  BY <1>1 DEF PlaceInv, ListInv
<1>4. HandInv'
  BY <1>1, <1>2 DEF PlaceInv, ListInv, HandInv, OwnerInv
<1>5. OwnerInv'
  BY <1>1 DEF PlaceInv, OwnerInv
<1>6. Accounted'
  BY <1>1, <1>2 DEF PlaceInv, Accounted
<1> QED
  BY <1>3, <1>4, <1>5, <1>6 DEF PlaceInv

\* list_del of the first entry moves it into the thread's hand.
LEMMA PlaceDel ==
  ASSUME TypeOK, LocalInv, PlaceInv, NEW t \in Thread, alloc_slice_del(t)
  PROVE  PlaceInv'
<1> USE SliceAssumption DEF memVars
<1>1. PICK k \in 1 .. Len(list_free) :
        list_free[k] = slice[t] /\ list_free' = Without(list_free, k)
  BY DEF alloc_slice_del
<1>2. k = 1 /\ Len(list_free) \in Nat /\ Len(list_free) >= 1
  <2>1. Len(list_free) >= 1 /\ slice[t] = list_free[1]
    BY DEF alloc_slice_del, GoTo, LocalInv
  <2>2. Len(list_free) \in Nat /\ 1 \in 1 .. Len(list_free)
    BY <2>1 DEF TypeOK
  <2>3. k = 1
    BY <1>1, <2>1, <2>2 DEF PlaceInv, ListInv
  <2> QED
    BY <2>1, <2>2, <2>3
<1>3. /\ Len(list_free') = Len(list_free) - 1
      /\ \A i \in 1 .. Len(list_free') : list_free'[i] = list_free[i + 1]
  <2>1. list_free \in Seq(Slice)
    BY DEF TypeOK
  <2>2. /\ Len(Without(list_free, k)) = Len(list_free) - 1
        /\ \A i \in 1 .. Len(list_free) - 1 :
             Without(list_free, k)[i] = IF i < k THEN list_free[i] ELSE list_free[i + 1]
    BY <2>1, WithoutFacts
  <2> QED
    BY <1>1, <1>2, <2>2
<1>4. UNCHANGED <<heap, magic, owned, slice>>
  BY DEF alloc_slice_del
<1>5. /\ InHand(t)' /\ ~InHand(t) /\ slice[t] = list_free[1]
      /\ \A u \in Thread : u # t => (InHand(u)' <=> InHand(u))
  <2>1. slice[t] # NULL
    BY <1>1 DEF TypeOK
  <2> QED
    BY <1>1, <1>2, <1>4, <2>1 DEF alloc_slice_del, GoTo, InHand, TypeOK
<1>6. ListInv'
  <2>1. \A i \in 1 .. Len(list_free') : i + 1 \in 1 .. Len(list_free)
    BY <1>2, <1>3
  <2> QED
    BY <1>2, <1>3, <1>4, <2>1 DEF PlaceInv, ListInv
<1>7. \A i \in 1 .. Len(list_free') : list_free'[i] # list_free[1]
  BY <1>2, <1>3 DEF PlaceInv, ListInv
<1>8. 1 \in 1 .. Len(list_free)
  BY <1>2
<1>9. \A x : (\E i \in 1 .. Len(list_free') : list_free'[i] = x)
               => \E i \in 1 .. Len(list_free) : list_free[i] = x
  BY <1>2, <1>3
<1>10. HandInv'
  BY <1>4, <1>5, <1>7, <1>8, <1>9 DEF PlaceInv, ListInv, HandInv, OwnerInv
<1>11. OwnerInv'
  BY <1>4, <1>9 DEF PlaceInv, OwnerInv
<1>12. \A i \in 1 .. Len(list_free) :
         i = 1 \/ \E k2 \in 1 .. Len(list_free') : list_free'[k2] = list_free[i]
  <2> SUFFICES ASSUME NEW i \in 1 .. Len(list_free), i # 1
               PROVE  \E k2 \in 1 .. Len(list_free') : list_free'[k2] = list_free[i]
    OBVIOUS
  <2>1. i - 1 \in 1 .. Len(list_free') /\ list_free'[i - 1] = list_free[i]
    BY <1>2, <1>3
  <2> QED
    BY <2>1
<1>13. Accounted'
  BY <1>4, <1>5, <1>12 DEF PlaceInv, Accounted
<1> QED
  BY <1>6, <1>10, <1>11, <1>13 DEF PlaceInv

\* mempool_alloc passes the slice in hand to its caller.
LEMMA PlaceHandOut ==
  ASSUME TypeOK, PlaceInv, NEW t \in Thread, pc[t] \in {"aunlock", "ctor"},
         pc' = [pc EXCEPT ![t] = "idle"], HandOut(t), UNCHANGED memVars, UNCHANGED list_free
  PROVE  PlaceInv'
<1> USE SliceAssumption DEF memVars
<1>1. /\ ~InHand(t)' /\ (InHand(t) <=> slice[t] # NULL)
      /\ \A u \in Thread : u # t => (InHand(u)' <=> InHand(u)) /\ slice'[u] = slice[u]
  BY DEF HandOut, InHand, TypeOK
<1>2. \A u \in Thread : \A x :
        x \in owned'[u] <=> x \in owned[u] \/ (u = t /\ x = slice[t] /\ InHand(t))
  BY <1>1 DEF HandOut, TypeOK
<1>3. ListInv'
  BY DEF PlaceInv, ListInv
<1>4. HandInv'
  BY <1>1, <1>2 DEF PlaceInv, HandInv
<1>5. OwnerInv'
  BY <1>2 DEF PlaceInv, HandInv, OwnerInv
<1>6. Accounted'
  BY <1>1, <1>2 DEF PlaceInv, Accounted
<1> QED
  BY <1>3, <1>4, <1>5, <1>6 DEF PlaceInv

\* mempool_free takes the slice from its owner.
LEMMA PlaceFree ==
  ASSUME TypeOK, LocalInv, PlaceInv, NEW t \in Thread, NEW w \in Thread, NEW s \in Slice,
         mempool_free(t, w, s)
  PROVE  PlaceInv'
<1> USE SliceAssumption DEF poolVars
<1>1. /\ UNCHANGED <<heap, list_free>> /\ magic \subseteq magic' /\ s \in owned[w]
      /\ \A u \in Thread : \A x : x \in owned'[u] <=> x \in owned[u] /\ (u # w \/ x # s)
  BY DEF mempool_free, MarkFree, TypeOK
<1>2. /\ InHand(t)' /\ slice'[t] = s /\ ~InHand(t)
      /\ \A u \in Thread : u # t => (InHand(u)' <=> InHand(u)) /\ slice'[u] = slice[u]
  BY DEF mempool_free, GoTo, InHand, TypeOK
<1>3. ListInv'
  BY <1>1 DEF PlaceInv, ListInv
<1>4. HandInv'
  BY <1>1, <1>2 DEF PlaceInv, HandInv, OwnerInv
<1>5. OwnerInv'
  BY <1>1 DEF PlaceInv, OwnerInv
<1>6. Accounted'
  BY <1>1, <1>2 DEF PlaceInv, Accounted
<1> QED
  BY <1>3, <1>4, <1>5, <1>6 DEF PlaceInv

\* list_add moves the slice in hand to the free list.
LEMMA PlaceListAdd ==
  ASSUME TypeOK, LocalInv, PlaceInv, NEW t \in Thread, free_list_add(t)
  PROVE  PlaceInv'
<1> USE SliceAssumption DEF memVars
<1>1. /\ slice[t] \in Slice /\ InHand(t) /\ slice[t] \in magic
      /\ \A u \in Thread : InHand(u)' <=> InHand(u) /\ u # t
      /\ UNCHANGED <<heap, magic, owned, slice>>
  BY DEF free_list_add, GoTo, LocalInv, InHand, TypeOK
<1>2. /\ Len(list_free) \in Nat
      /\ Len(list_free') = Len(list_free) + 1
      /\ list_free'[1] = slice[t]
      /\ \A i \in 1 .. Len(list_free) : list_free'[i + 1] = list_free[i]
  BY <1>1, ConsFacts DEF free_list_add, TypeOK
<1>3. \A i \in 1 .. Len(list_free') :
        \/ i = 1 /\ list_free'[i] = slice[t]
        \/ i - 1 \in 1 .. Len(list_free) /\ list_free'[i] = list_free[i - 1]
  <2> SUFFICES ASSUME NEW i \in 1 .. Len(list_free'), i # 1
               PROVE  i - 1 \in 1 .. Len(list_free) /\ list_free'[i] = list_free[i - 1]
    BY <1>2
  <2>1. i - 1 \in 1 .. Len(list_free) /\ i = (i - 1) + 1
    BY <1>2
  <2> QED
    BY <1>2, <2>1
<1>4. ListInv'
  <2>1. \A i \in 1 .. Len(list_free) : list_free[i] # slice[t]
    BY <1>1 DEF PlaceInv, HandInv
  <2>2. ASSUME NEW i \in 1 .. Len(list_free'), NEW k \in 1 .. Len(list_free'),
               list_free'[i] = list_free'[k]
        PROVE  i = k
    <3>1. i = 1 <=> k = 1
      BY <1>3, <2>1, <2>2
    <3>2. CASE i # 1
      <4>1. /\ i - 1 \in 1 .. Len(list_free) /\ list_free'[i] = list_free[i - 1]
            /\ k - 1 \in 1 .. Len(list_free) /\ list_free'[k] = list_free[k - 1]
        BY <1>3, <3>1, <3>2
      <4>2. list_free[i - 1] = list_free[k - 1]
        BY <2>2, <4>1
      <4>3. i - 1 = k - 1
        BY <4>1, <4>2 DEF PlaceInv, ListInv
      <4> QED
        BY <1>2, <4>3
    <3>3. CASE i = 1
      BY ONLY <3>1, <3>3
    <3> QED
      BY ONLY <3>2, <3>3
  <2>3. \A i \in 1 .. Len(list_free') : list_free'[i] \in heap /\ list_free'[i] \in magic
    BY <1>1, <1>3 DEF PlaceInv, ListInv, HandInv
  <2> QED
    BY <1>1, <2>2, <2>3 DEF ListInv
<1>5. \A x : (\E i \in 1 .. Len(list_free') : list_free'[i] = x)
               => x = slice[t] \/ \E i \in 1 .. Len(list_free) : list_free[i] = x
  BY <1>3
<1>6. HandInv'
  BY <1>1, <1>5 DEF PlaceInv, HandInv
<1>7. OwnerInv'
  BY <1>1, <1>5 DEF PlaceInv, HandInv, OwnerInv
<1>8. \A i \in 1 .. Len(list_free) :
        \E k \in 1 .. Len(list_free') : list_free'[k] = list_free[i]
  <2> SUFFICES ASSUME NEW i \in 1 .. Len(list_free)
               PROVE  \E k \in 1 .. Len(list_free') : list_free'[k] = list_free[i]
    OBVIOUS
  <2>1. i + 1 \in 1 .. Len(list_free')
    BY <1>2
  <2> QED
    BY <1>2, <2>1
<1>9. 1 \in 1 .. Len(list_free')
  BY <1>2
<1>10. Accounted'
  BY <1>1, <1>2, <1>8, <1>9 DEF PlaceInv, Accounted
<1> QED
  BY <1>4, <1>6, <1>7, <1>10 DEF PlaceInv

\* free_slice of the first entry takes it out of the pool.
LEMMA PlaceFreeFirst ==
  ASSUME TypeOK, PlaceInv, free_first, list_free # <<>>, UNCHANGED <<magic, thrVars>>
  PROVE  PlaceInv'
<1> USE DEF thrVars
<1> DEFINE x0 == Head(list_free)
<1>1. /\ Len(list_free) \in Nat /\ Len(list_free) >= 1 /\ x0 = list_free[1]
      /\ Len(list_free') = Len(list_free) - 1
      /\ \A i \in 1 .. Len(list_free') : list_free'[i] = list_free[i + 1]
      /\ heap' = heap \ {x0} /\ 1 \in 1 .. Len(list_free)
  BY TailFacts DEF TypeOK, free_first
<1> HIDE DEF x0
<1>2. UNCHANGED <<magic, owned, slice>> /\ \A u \in Thread : InHand(u)' <=> InHand(u)
  BY DEF InHand
<1>3. \A i \in 1 .. Len(list_free') : list_free'[i] # x0
  BY <1>1 DEF PlaceInv, ListInv
<1>4. \A i \in 1 .. Len(list_free') : i + 1 \in 1 .. Len(list_free)
  BY <1>1
<1>5. ListInv'
  BY <1>1, <1>2, <1>3, <1>4 DEF PlaceInv, ListInv
<1>6. \A x : (\E i \in 1 .. Len(list_free') : list_free'[i] = x)
               => \E i \in 1 .. Len(list_free) : list_free[i] = x
  BY <1>1, <1>4
<1>7. HandInv'
  BY <1>1, <1>2, <1>6 DEF PlaceInv, HandInv
<1>8. OwnerInv'
  BY <1>1, <1>2, <1>6 DEF PlaceInv, OwnerInv
<1>9. \A i \in 1 .. Len(list_free) :
        i = 1 \/ \E k \in 1 .. Len(list_free') : list_free'[k] = list_free[i]
  <2> SUFFICES ASSUME NEW i \in 1 .. Len(list_free), i # 1
               PROVE  \E k \in 1 .. Len(list_free') : list_free'[k] = list_free[i]
    OBVIOUS
  <2>1. i - 1 \in 1 .. Len(list_free') /\ (i - 1) + 1 = i
    BY <1>1
  <2> QED
    BY <1>1, <2>1
<1>10. Accounted'
  <2> SUFFICES ASSUME NEW s \in heap'
               PROVE  \/ \E i \in 1 .. Len(list_free') : list_free'[i] = s
                      \/ \E t \in Thread : InHand(t)' /\ slice'[t] = s
                      \/ \E t \in Thread : s \in owned'[t]
    BY DEF Accounted
  <2>1. s \in heap /\ s # list_free[1]
    BY <1>1
  <2>2. \/ \E i \in 1 .. Len(list_free) : list_free[i] = s
        \/ \E t \in Thread : InHand(t) /\ slice[t] = s
        \/ \E t \in Thread : s \in owned[t]
    BY <2>1 DEF PlaceInv, Accounted
  <2> QED
    BY <1>2, <1>9, <2>1, <2>2
<1> QED
  BY <1>5, <1>7, <1>8, <1>10 DEF PlaceInv

\* Every step keeps each slice in one place.
LEMMA PlaceStep ==
  ASSUME TypeOK, LockInv, LocalInv, PlaceInv, LifeInv, Next
  PROVE  PlaceInv'
<1> USE DEF poolVars, memVars, thrVars
<1>1. ASSUME NEW t \in Thread, ThreadStep(t), life = "ready", life' = life
      PROVE  PlaceInv'
  <2>1. CASE \/ mempool_alloc(t) \/ alloc_lock(t) \/ alloc_slice_limit(t) \/ alloc_slice_nomem(t)
    <3>1. /\ UNCHANGED <<heap, magic, list_free, owned, slice>> /\ slice[t] = NULL
          /\ \A u \in Thread : u # t => pc'[u] = pc[u]
      BY <2>1 DEF mempool_alloc, alloc_lock, alloc_slice_limit, alloc_slice_nomem, GoTo,
                  LocalInv, TypeOK
    <3> QED
      BY <3>1, PlacesKept DEF InHand, PlaceInv, ListInv
  <2>2. ASSUME NEW s \in Slice, alloc_slice_malloc(t, s) PROVE PlaceInv'
    BY <2>2, PlaceMalloc
  <2>3. CASE alloc_slice_inc(t) \/ ctor_reject(t) \/ free_lock(t)
    <3>1. /\ UNCHANGED <<heap, list_free, owned, slice>> /\ magic \subseteq magic'
          /\ \A u \in Thread : InHand(u)' <=> InHand(u)
      BY <2>3 DEF alloc_slice_inc, ctor_reject, free_lock, GoTo, MarkFree, InHand, TypeOK
    <3> QED
      BY <3>1, PlacesKept DEF PlaceInv, ListInv
  <2>4. CASE alloc_slice_first(t) \/ free_unlock(t)
    <3>1. /\ UNCHANGED <<heap, magic, list_free, owned>>
          /\ ~InHand(t) /\ ~InHand(t)'
          /\ \A u \in Thread : u # t => pc'[u] = pc[u] /\ slice'[u] = slice[u]
      BY <2>4 DEF alloc_slice_first, free_unlock, GoTo, InHand, TypeOK
    <3> QED
      BY <3>1, PlacesKept DEF InHand, PlaceInv, ListInv
  <2>5. CASE alloc_slice_del(t)
    BY <2>5, PlaceDel
  <2>6. CASE alloc_unlock(t)
    <3>1. CASE HasCtor
      <4>1. /\ UNCHANGED <<heap, magic, list_free, owned, slice>>
            /\ \A u \in Thread : InHand(u)' <=> InHand(u)
        BY <2>6, <3>1 DEF alloc_unlock, GoTo, InHand, TypeOK
      <4> QED
        BY <4>1, PlacesKept DEF PlaceInv, ListInv
    <3>2. CASE ~HasCtor
      BY <2>6, <3>2, PlaceHandOut DEF alloc_unlock, GoTo
    <3> QED
      BY <3>1, <3>2
  <2>7. CASE ctor_accept(t)
    BY <2>7, PlaceHandOut DEF ctor_accept, GoTo
  <2>8. ASSUME NEW u \in Thread, NEW s \in Slice, mempool_free(t, u, s) PROVE PlaceInv'
    BY <2>8, PlaceFree
  <2>9. CASE free_list_add(t)
    BY <2>9, PlaceListAdd
  <2>10. CASE \/ mempool_recycle(t)
              \/ recycle_lock(t) \/ recycle_end(t) \/ recycle_unlock(t)
    <3>1. /\ UNCHANGED <<heap, magic, list_free, owned, slice>>
          /\ \A u \in Thread : InHand(u)' <=> InHand(u)
      BY <2>10 DEF mempool_recycle, recycle_lock, recycle_end, recycle_unlock, GoTo, InHand, TypeOK
    <3> QED
      BY <3>1, PlacesKept DEF PlaceInv, ListInv
  <2>11. CASE recycle_one(t)
    BY <2>11, PlaceFreeFirst DEF recycle_one, recycle_more
  <2>12. ASSUME NEW s \in Slice, owner_write(t, s) PROVE PlaceInv'
    <3>1. UNCHANGED <<heap, list_free, owned, slice, pc>> /\ magic' = magic \ {s} /\ s \in owned[t]
      BY <2>12 DEF owner_write
    <3>2. \A i \in 1 .. Len(list_free) : list_free[i] \in magic'
      BY <3>1 DEF PlaceInv, ListInv, OwnerInv
    <3> QED
      BY <3>1, <3>2, PlacesKept DEF InHand
  <2> QED
    BY <1>1, <2>1, <2>2, <2>3, <2>4, <2>5, <2>6, <2>7, <2>8, <2>9, <2>10, <2>11, <2>12
       DEF ThreadStep
<1>2. CASE exit_recycle
  BY <1>2, PlaceFreeFirst DEF exit_recycle, recycle_more
<1>3. CASE \/ \E t \in Thread : ctor_reject_null(t)
           \/ mempool_exit \/ exit_report \/ bug_on \/ Terminated
  <2>1. UNCHANGED <<memVars, list_free, thrVars>>
    BY <1>3 DEF ctor_reject_null, mempool_exit, exit_report, bug_on, Terminated, vars
  <2> QED
    BY <2>1, PlacesKept DEF InHand, PlaceInv, ListInv
<1>4. ASSUME NEW n \in SizeArg, mempool_init(n) PROVE PlaceInv'
  <2>1. heap = {} /\ heap' = {} /\ list_free' = <<>> /\ UNCHANGED thrVars /\ ~(\E u \in Thread : InHand(u))
    BY <1>4 DEF mempool_init, LifeInv, InHand
  <2>2. Len(list_free') = 0 /\ \A u \in Thread : ~InHand(u)'
    BY <2>1 DEF InHand
  <2> QED
    BY <2>1, <2>2 DEF PlaceInv, ListInv, HandInv, OwnerInv, Accounted
<1> QED
  BY <1>1, <1>2, <1>3, <1>4 DEF Next, Running

-----------------------------------------------------------------------------
(* Counting slices.                                                         *)

\* A step that changes neither the slices nor ref keeps the count.
LEMMA CountKept ==
  ASSUME CountInv, UNCHANGED <<heap, ref>>,
         \A u \in Thread : pc'[u] = "inc" <=> pc[u] = "inc"
  PROVE  CountInv'
  BY DEF CountInv, WithinMax

\* free_slice keeps the count.
LEMMA CountFreeFirst ==
  ASSUME TypeOK, PlaceInv, CountInv, free_first, list_free # <<>>, UNCHANGED pc,
         \A u \in Thread : pc[u] # "inc"
  PROVE  CountInv'
<1>1. Head(list_free) \in heap
  BY TailFacts DEF TypeOK, PlaceInv, ListInv
<1>2. /\ IsFiniteSet(heap \ {Head(list_free)})
      /\ Cardinality(heap \ {Head(list_free)}) = Cardinality(heap) - 1
      /\ Cardinality(heap) \in Nat
  BY <1>1, FS_RemoveElement, FS_CardinalityType DEF CountInv
<1> QED
  BY <1>2, MaxAssumption DEF CountInv, WithinMax, free_first, TypeOK

\* Every step keeps the count and the limit.
LEMMA CountStep ==
  ASSUME TypeOK, LockInv, PlaceInv, CountInv, LifeInv, Next
  PROVE  CountInv'
<1> USE DEF poolVars, memVars, thrVars
<1>1. ASSUME NEW t \in Thread, ThreadStep(t), life = "ready", life' = life
      PROVE  CountInv'
  <2>1. ASSUME NEW s \in Slice, alloc_slice_malloc(t, s) PROVE CountInv'
    <3>1. \A u \in Thread : pc[u] # "inc"
      BY <2>1 DEF alloc_slice_malloc, GoTo, LockInv, LockedPc
    <3>2. ref = Cardinality(heap) /\ IsFiniteSet(heap) /\ (Max # 0 => ref < Max) /\ ref \in Nat
      BY <2>1, <3>1, MaxAssumption DEF CountInv, alloc_slice_malloc, AtLimit, TypeOK
    <3>3. s \notin heap /\ heap' = heap \cup {s} /\ ref' = ref /\ pc'[t] = "inc"
      BY <2>1 DEF alloc_slice_malloc, GoTo, TypeOK
    <3>4. IsFiniteSet(heap') /\ Cardinality(heap') = Cardinality(heap) + 1
      BY <3>2, <3>3, FS_AddElement
    <3> QED
      BY <3>2, <3>3, <3>4, MaxAssumption DEF CountInv, WithinMax
  <2>2. CASE alloc_slice_inc(t)
    <3>1. \A u \in Thread : pc'[u] # "inc"
      BY <2>2 DEF alloc_slice_inc, GoTo, LockInv, LockedPc, TypeOK
    <3> QED
      BY <2>2, <3>1 DEF alloc_slice_inc, GoTo, CountInv, WithinMax
  <2>3. CASE recycle_one(t)
    <3>1. \A u \in Thread : pc[u] # "inc"
      BY <2>3 DEF recycle_one, LockInv, LockedPc
    <3> QED
      BY <2>3, <3>1, CountFreeFirst DEF recycle_one, recycle_more
  <2>4. CASE \/ mempool_alloc(t) \/ alloc_lock(t) \/ alloc_slice_limit(t) \/ alloc_slice_nomem(t)
             \/ alloc_slice_first(t) \/ alloc_slice_del(t)
    BY <2>4, CountKept DEF mempool_alloc, alloc_lock, alloc_slice_limit, alloc_slice_nomem,
       alloc_slice_first, alloc_slice_del, GoTo, TypeOK
  <2>5. CASE alloc_unlock(t) \/ ctor_accept(t) \/ ctor_reject(t)
    BY <2>5, CountKept DEF alloc_unlock, ctor_accept, ctor_reject, GoTo, TypeOK
  <2>6. CASE \/ \E u \in Thread, s \in Slice : mempool_free(t, u, s) \/ owner_write(t, s)
             \/ free_lock(t) \/ free_list_add(t) \/ free_unlock(t)
    BY <2>6, CountKept DEF mempool_free, owner_write, free_lock, free_list_add, free_unlock,
       GoTo, TypeOK
  <2>7. CASE \/ mempool_recycle(t)
             \/ recycle_lock(t) \/ recycle_end(t) \/ recycle_unlock(t)
    BY <2>7, CountKept DEF mempool_recycle, recycle_lock, recycle_end, recycle_unlock, GoTo, TypeOK
  <2> QED
    BY <1>1, <2>1, <2>2, <2>3, <2>4, <2>5, <2>6, <2>7 DEF ThreadStep
<1>2. CASE exit_recycle
  <2>1. \A u \in Thread : pc[u] # "inc"
    BY <1>2 DEF exit_recycle, LifeInv
  <2> QED
    BY <1>2, <2>1, CountFreeFirst DEF exit_recycle, recycle_more
<1>3. CASE \/ \E t \in Thread : ctor_reject_null(t)
           \/ mempool_exit \/ exit_report \/ bug_on \/ Terminated
  BY <1>3, CountKept DEF ctor_reject_null, mempool_exit, exit_report, bug_on, Terminated, vars
<1>4. ASSUME NEW n \in SizeArg, mempool_init(n) PROVE CountInv'
  <2>1. heap' = {} /\ ref' = 0 /\ \A u \in Thread : pc'[u] # "inc"
    BY <1>4 DEF mempool_init, LifeInv
  <2> QED
    BY <2>1, FS_EmptySet, MaxAssumption DEF CountInv, WithinMax
<1> QED
  BY <1>1, <1>2, <1>3, <1>4 DEF Next, Running

\* Every step keeps what the life of the pool says about the rest.
LEMMA LifeStep ==
  ASSUME TypeOK, LockInv, LocalInv, PlaceInv, CountInv, LifeInv, Next
  PROVE  LifeInv'
<1> USE DEF poolVars, memVars, thrVars
<1>1. CASE life = "ready" /\ life' = life
  BY <1>1 DEF LifeInv
<1>2. CASE life = "ready" /\ \E t \in Thread : ctor_reject_null(t)
  BY <1>2 DEF LifeInv, ctor_reject_null
<1>3. CASE mempool_exit \/ exit_recycle
  BY <1>3 DEF LifeInv, mempool_exit, exit_recycle
<1>4. CASE exit_report
  <2>1. \A u \in Thread : pc[u] # "inc"
    BY <1>4 DEF exit_report, LifeInv
  <2>2. ref = Cardinality(heap) /\ IsFiniteSet(heap) /\ ref \in Nat
    BY <2>1 DEF CountInv, TypeOK
  <2>3. list_free = <<>>
    <3> SUFFICES ASSUME list_free # <<>> PROVE FALSE
      OBVIOUS
    <3>1. ref = 0
      BY <1>4, <2>2 DEF exit_report, recycle_more
    <3>2. heap = {}
      BY <2>2, <3>1, FS_EmptySet
    <3>3. Head(list_free) \in heap
      BY TailFacts DEF TypeOK, PlaceInv, ListInv
    <3> QED
      BY <3>2, <3>3
  <2> QED
    BY <1>4, <2>3 DEF LifeInv, exit_report
<1>5. CASE life \in {"ready", "exit"} /\ bug_on
  <2>1. \A t \in Thread : pc[t] = "del" => slice[t] \in magic
    <3> SUFFICES ASSUME NEW t \in Thread, pc[t] = "del" PROVE slice[t] \in magic
      OBVIOUS
    <3>1. Len(list_free) >= 1 /\ slice[t] = list_free[1] /\ Len(list_free) \in Nat
      BY DEF LocalInv, TypeOK
    <3>2. 1 \in 1 .. Len(list_free)
      BY <3>1
    <3> QED
      BY <3>1, <3>2 DEF PlaceInv, ListInv
  <2>2. list_free # <<>> => Head(list_free) \in magic
    BY TailFacts DEF TypeOK, PlaceInv, ListInv
  <2>3. sz < HeaderSize
    BY <1>5, <2>1, <2>2 DEF bug_on, recycle_more
  <2> QED
    BY <1>5, <2>3 DEF LifeInv, bug_on
<1>6. CASE \E n \in SizeArg : mempool_init(n)
  BY <1>6 DEF LifeInv, mempool_init
<1>7. CASE Terminated
  BY <1>7 DEF Terminated, vars, LifeInv
<1> QED
  BY <1>1, <1>2, <1>3, <1>4, <1>5, <1>6, <1>7 DEF Next, Running

\* Only mempool_init sets the sizes, and only alloc_slice calls malloc.
LEMMA SizeStep ==
  ASSUME TypeOK, LifeInv, SizeInv, Next
  PROVE  SizeInv'
<1> USE DEF SizeInv, poolVars, memVars, thrVars
<1>1. ASSUME NEW t \in Thread, ThreadStep(t), life = "ready", life' = life
      PROVE  SizeInv'
  <2>1. ASSUME NEW s \in Slice, alloc_slice_malloc(t, s) PROVE SizeInv'
    BY <1>1, <2>1 DEF alloc_slice_malloc
  <2>2. CASE recycle_one(t)
    BY <1>1, <2>2 DEF recycle_one, free_first
  <2>3. CASE \/ mempool_alloc(t) \/ alloc_lock(t) \/ alloc_slice_limit(t) \/ alloc_slice_nomem(t)
             \/ alloc_slice_inc(t) \/ alloc_slice_first(t) \/ alloc_slice_del(t)
    BY <1>1, <2>3 DEF mempool_alloc, alloc_lock, alloc_slice_limit, alloc_slice_nomem,
       alloc_slice_inc, alloc_slice_first, alloc_slice_del
  <2>4. CASE \/ alloc_unlock(t) \/ ctor_accept(t) \/ ctor_reject(t)
             \/ \E u \in Thread, s \in Slice : mempool_free(t, u, s) \/ owner_write(t, s)
             \/ free_lock(t) \/ free_list_add(t) \/ free_unlock(t)
    BY <1>1, <2>4 DEF alloc_unlock, ctor_accept, ctor_reject, mempool_free, owner_write,
       free_lock, free_list_add, free_unlock
  <2>5. CASE \/ mempool_recycle(t)
             \/ recycle_lock(t) \/ recycle_end(t) \/ recycle_unlock(t)
    BY <1>1, <2>5 DEF mempool_recycle, recycle_lock, recycle_end, recycle_unlock
  <2> QED
    BY <1>1, <2>1, <2>2, <2>3, <2>4, <2>5 DEF ThreadStep
<1>2. CASE exit_recycle
  BY <1>2 DEF exit_recycle, free_first
<1>3. CASE life = "ready" /\ \E t \in Thread : ctor_reject_null(t)
  BY <1>3 DEF ctor_reject_null
<1>4. CASE mempool_exit \/ exit_report \/ Terminated
  BY <1>4 DEF mempool_exit, exit_report, Terminated, vars
<1>5. CASE life \in {"ready", "exit"} /\ bug_on
  BY <1>5 DEF bug_on
<1>6. ASSUME NEW n \in SizeArg, mempool_init(n) PROVE SizeInv'
  BY <1>6 DEF mempool_init, LifeInv
<1> HIDE DEF SizeInv
<1> QED
  BY <1>1, <1>2, <1>3, <1>4, <1>5, <1>6 DEF Next, Running

\* The invariant holds initially.
LEMMA InitIInv ==
  ASSUME Init
  PROVE  IInv
<1> USE DEF Init
<1>1. TypeOK
  BY SizeAssumption, MaxAssumption DEF TypeOK, Pc
<1>2. LockInv /\ LocalInv /\ LifeInv
  BY ThreadAssumption DEF LockInv, LocalInv, LifeInv, LockedPc
<1>3. \A t \in Thread : ~InHand(t)
  BY DEF InHand
<1>4. Len(list_free) = 0
  OBVIOUS
<1>5. PlaceInv
  BY <1>3, <1>4 DEF PlaceInv, ListInv, HandInv, OwnerInv, Accounted
<1>6. CountInv
  BY FS_EmptySet, MaxAssumption DEF CountInv, WithinMax
<1>7. SizeInv
  BY DEF SizeInv
<1> QED
  BY <1>1, <1>2, <1>5, <1>6, <1>7 DEF IInv

\* Every step keeps the invariant.
LEMMA NextIInv ==
  ASSUME IInv, [Next]_vars
  PROVE  IInv'
<1>1. CASE Next
  BY <1>1, TypeStep, LockStep, LocalStep, PlaceStep, CountStep, LifeStep, SizeStep
     DEF IInv
<1>2. CASE UNCHANGED vars
  <2> USE <1>2 DEF vars, poolVars, memVars, thrVars
  <2>1. TypeOK' /\ LockInv' /\ LocalInv' /\ LifeInv' /\ SizeInv'
    BY DEF IInv, TypeOK, LockInv, LocalInv, LifeInv, SizeInv
  <2>2. PlaceInv'
    BY PlacesKept DEF IInv, InHand, PlaceInv, ListInv
  <2>3. CountInv'
    BY CountKept DEF IInv
  <2> QED
    BY <2>1, <2>2, <2>3 DEF IInv
<1> QED
  BY <1>1, <1>2

-----------------------------------------------------------------------------
(* The theorems.                                                            *)

\* Whatever the threads do, every slice malloc gave to the pool is on the free
\* list, in the hand of one thread or owned by one caller, and is counted.
THEOREM IInvariant == Spec => []IInv
<1>1. Init => IInv
  BY InitIInv
<1>2. IInv /\ [Next]_vars => IInv'
  BY NextIInv
<1> QED
  BY <1>1, <1>2, PTL DEF Spec

\* The fields of struct mempool and the locals of its callers keep their types.
THEOREM TypeCorrect == Spec => []TypeOK
<1>1. IInv => TypeOK
  BY DEF IInv
<1> QED
  BY <1>1, IInvariant, PTL

\* ref is the number of slices obtained from malloc and not yet freed.
THEOREM RefIsExact == Spec => []RefCountsSlices
<1>1. IInv => RefCountsSlices
  <2> SUFFICES ASSUME IInv PROVE RefCountsSlices
    OBVIOUS
  <2> USE DEF IInv
  <2>1. CASE \A t \in Thread : pc[t] # "inc"
    <3>1. {t \in Thread : pc[t] = "inc"} = {}
      BY <2>1
    <3>2. Cardinality({t \in Thread : pc[t] = "inc"}) = 0
      BY <3>1, FS_EmptySet
    <3>3. ref = Cardinality(heap) /\ ref \in Nat
      BY <2>1 DEF CountInv, TypeOK
    <3> QED
      BY <3>2, <3>3 DEF RefCountsSlices
  <2>2. ASSUME NEW u \in Thread, pc[u] = "inc" PROVE RefCountsSlices
    <3>1. {t \in Thread : pc[t] = "inc"} = {u}
      BY <2>2 DEF LockInv, LockedPc
    <3>2. Cardinality({u}) = 1
      BY FS_Singleton
    <3> QED
      BY <2>2, <3>1, <3>2 DEF CountInv, RefCountsSlices, TypeOK
  <2> QED
    BY <2>1, <2>2
<1> QED
  BY <1>1, IInvariant, PTL

\* The limit of mempool_init holds whatever the interleaving of the callers.
THEOREM LimitHolds == Spec => []WithinMax
<1>1. IInv => WithinMax
  BY DEF IInv, CountInv
<1> QED
  BY <1>1, IInvariant, PTL

\* A slice belongs to one caller alone from mempool_alloc to mempool_free.
THEOREM OwnerIsExclusive == Spec => []ExclusiveOwner
<1>1. IInv => ExclusiveOwner
  BY DEF IInv, PlaceInv, OwnerInv, ExclusiveOwner, Leaked, Listed
<1> QED
  BY <1>1, IInvariant, PTL

\* The magic number checks of alloc_slice and free_slice never fire.
THEOREM MagicHolds == Spec => []MagicCheckNeverFires
<1>1. IInv => MagicCheckNeverFires
  BY DEF IInv, LifeInv, MagicCheckNeverFires
<1> QED
  BY <1>1, IInvariant, PTL

\* Nobody owns a slice smaller than asked for, for every size and every width of unsigned
\* int: a size that wraps is caught before malloc.
THEOREM SlicesFit == Spec => []SliceFits
<1>1. IInv => SliceFits
  <2> SUFFICES ASSUME IInv, Leaked # {} PROVE
        /\ sz >= size /\ sz >= HeaderSize /\ sz % Word = 0
        /\ sz < Word + (IF size < HeaderSize THEN HeaderSize ELSE size)
    BY DEF SliceFits
  <2>1. heap # {}
    BY DEF IInv, PlaceInv, OwnerInv, Leaked
  <2>2. sz = mempool_calc_slice_size(size) /\ sz >= HeaderSize /\ size \in 0 .. UIntMod - 1
    BY <2>1 DEF IInv, SizeInv, LifeInv, TypeOK
  <2> QED
    BY <2>2, CalcFits
<1> QED
  BY <1>1, IInvariant, PTL

\* mempool_exit reports exactly the slices that callers did not free.
THEOREM LeakReportIsExact == Spec => []ExitReportsLeaks
<1>1. IInv => ExitReportsLeaks
  <2> SUFFICES ASSUME IInv, life = "over" PROVE heap = Leaked /\ ref = Cardinality(Leaked)
    BY DEF ExitReportsLeaks
  <2> USE DEF IInv
  <2>1. (\A t \in Thread : pc[t] = "idle") /\ Len(list_free) = 0
    BY DEF LifeInv
  <2>2. heap = Leaked
    BY <2>1 DEF PlaceInv, Accounted, OwnerInv, Leaked, InHand
  <2>3. ref = Cardinality(heap)
    BY <2>1 DEF CountInv
  <2> QED
    BY <2>2, <2>3
<1> QED
  BY <1>1, IInvariant, PTL
=============================================================================
