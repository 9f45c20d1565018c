--------------------------- MODULE InitOps_proofs ---------------------------
(***************************************************************************)
(* Proofs for InitOps: the order in which init and exit functions run, for  *)
(* every table and every number of orders.                                  *)
(*                                                                          *)
(* The inductive invariant says how far each loop has come: the entries     *)
(* before its position are up (or down again), and everything on the log    *)
(* of exit calls lies behind the position.                                  *)
(***************************************************************************)
EXTENDS InitOps, TLAPS

\* Everything before (order, iter) has been initialised.
UpTo ==
  \A j \in Entry :
    /\ table[j].init # {}
    /\ table[j].order < order \/ (table[j].order = order /\ j < iter)
    => j \in up

\* Everything that comes before the entry that failed has been initialised.
UpToBad ==
  /\ bad \in Entry
  /\ \A j \in Entry : table[j].init # {} /\ Precedes(j, bad) => j \in up

\* The calls of exit functions lie behind the position of a loop that goes down.
Behind ==
  \A k \in 1 .. Len(ends) :
    \/ table[ends[k]].order > order
    \/ table[ends[k]].order = order /\ ends[k] < iter

\* A loop that goes down from order `top` to order `last` left nothing behind.
Covered(last, top) ==
  \A i \in Entry :
    /\ table[i].exit /\ last <= table[i].order /\ table[i].order <= top
    /\ table[i].order > order \/ (table[i].order = order /\ i < iter)
    => i \in Ended

StartInv == pc = "start" => bad = 0 /\ up = {} /\ ends = <<>>

InitInv == pc = "init" => bad = 0 /\ order >= 0 /\ ends = <<>> /\ UpTo

UndoInv ==
  pc = "undo" =>
    /\ UpToBad /\ order = table[bad].order /\ iter <= bad
    /\ \A k \in 1 .. Len(ends) : table[ends[k]].order = order /\ ends[k] > iter

UnwindInv ==
  pc = "unwind" =>
    /\ UpToBad /\ order < table[bad].order
    /\ Behind /\ Covered(1, table[bad].order - 1)

ReadyInv ==
  pc \in {"ready", "exit", "over"} =>
    \A j \in Entry : table[j].init # {} => j \in up

ExitInv ==
  /\ pc = "ready" => ends = <<>>
  /\ pc = "exit" => Behind /\ Covered(0, OrderMax)

LoopInv == StartInv /\ InitInv /\ UndoInv /\ UnwindInv /\ ReadyInv /\ ExitInv

LogInv ==
  /\ ExitAtMostOnce /\ TeardownDescends
  /\ \A k \in 1 .. Len(ends) : table[ends[k]].init # {} => ends[k] \in up \/ ends[k] = bad

IInv == TypeOK /\ LoopInv /\ LogInv /\ LowerOrdersGoDown

USE NAssumption, OrderMaxAssumption

-----------------------------------------------------------------------------
\* The call of an exit function is one more entry at the end of the log, and the
\* calls before it stay where they are.
LEMMA CallExitLog ==
  ASSUME TypeOK, iter \in Entry, CallExit
  PROVE  /\ ends' \in Seq(Entry)
         /\ \/ ~ExitHere /\ ends' = ends
            \/ /\ ExitHere
               /\ Len(ends') = Len(ends) + 1
               /\ ends'[Len(ends) + 1] = iter
         /\ \A k \in 1 .. Len(ends) : ends'[k] = ends[k]
  BY DEF TypeOK, CallExit

\* Whoever is on the log stays on it, and an entry with an exit function that the
\* loop is at gets on it.
LEMMA CallExitEnded ==
  ASSUME TypeOK, iter \in Entry, CallExit
  PROVE  Ended \subseteq Ended' /\ (ExitHere => iter \in Ended')
<1>1. \A k \in 1 .. Len(ends) : k \in 1 .. Len(ends') /\ ends'[k] = ends[k]
  BY CallExitLog DEF TypeOK
<1>2. ExitHere => Len(ends) + 1 \in 1 .. Len(ends') /\ ends'[Len(ends) + 1] = iter
  <2>1. ends \in Seq(Entry)
    BY DEF TypeOK
  <2> QED
    BY <2>1 DEF CallExit
<1> QED
  BY <1>1, <1>2 DEF Ended

\* A call behind which the whole log lies keeps the log free of duplicates and
\* sorted by order.
LEMMA CallExitSorted ==
  ASSUME TypeOK, iter \in Entry, CallExit, LogInv, UNCHANGED <<table, up, bad>>,
         ExitHere /\ table[iter].init # {} => iter \in up \/ iter = bad,
         ExitHere => \A k \in 1 .. Len(ends) :
                       ends[k] # iter /\ table[ends[k]].order >= order
  PROVE  LogInv'
<1> DEFINE n == Len(ends)
<1>1. ends \in Seq(Entry) /\ ends' \in Seq(Entry) /\ n \in Nat /\ table \in [Entry -> Initops]
  BY CallExitLog DEF TypeOK
<1>2. \A k \in 1 .. n : ends'[k] = ends[k] /\ ends[k] \in Entry
  BY <1>1, CallExitLog
<1>3. CASE ~ExitHere
  BY <1>3, CallExitLog DEF LogInv, ExitAtMostOnce, TeardownDescends
<1>4. CASE ExitHere
  <2>1. Len(ends') = n + 1 /\ ends'[n + 1] = iter
    BY <1>4, CallExitLog
  <2>2. \A k \in 1 .. n + 1 : k \in 1 .. n \/ k = n + 1
    BY <1>1
  <2>3. ExitAtMostOnce'
    BY <1>1, <1>2, <1>4, <2>1, <2>2 DEF ExitAtMostOnce, LogInv
  <2>4. \A i \in Entry : table[i].order \in Order
    BY <1>1 DEF Initops
  <2>5. table[iter].order = order
    BY <1>4 DEF ExitHere
  <2>6. TeardownDescends'
    <3> SUFFICES ASSUME NEW k \in 1 .. n + 1, NEW l \in 1 .. n + 1, k < l
                 PROVE  table[ends'[k]].order >= table[ends'[l]].order
      BY <2>1 DEF TeardownDescends
    <3>1. k \in 1 .. n
      BY <1>1
    <3>2. CASE l \in 1 .. n
      BY <3>1, <3>2, <1>2 DEF LogInv, TeardownDescends
    <3>3. CASE l = n + 1
      BY <3>1, <3>3, <2>1, <2>5, <1>2, <1>4
    <3> QED
      BY <3>2, <3>3, <2>2
  <2>7. (\A k \in 1 .. Len(ends) :
           table[ends[k]].init # {} => ends[k] \in up \/ ends[k] = bad)'
    BY <1>1, <1>2, <1>4, <2>1, <2>2 DEF LogInv
  <2> QED
    BY <2>3, <2>6, <2>7 DEF LogInv
<1> QED
  BY <1>3, <1>4

\* One iteration of a loop that goes down keeps the log behind its position and
\* leaves nothing out.
LEMMA CallExitBehind ==
  ASSUME TypeOK, iter \in Entry, CallExit, iter' = iter + 1, Behind,
         UNCHANGED <<table, order>>, NEW last \in Int, NEW top \in Int, Covered(last, top)
  PROVE  Behind' /\ Covered(last, top)'
<1>1. ends \in Seq(Entry) /\ ends' \in Seq(Entry) /\ Len(ends) \in Nat
  BY CallExitLog DEF TypeOK
<1>2. Behind'
  <2>1. CASE ~ExitHere
    BY <1>1, <2>1, CallExitLog DEF Behind, TypeOK, Entry
  <2>2. CASE ExitHere
    <3>1. Len(ends') = Len(ends) + 1 /\ ends'[Len(ends) + 1] = iter
      BY <2>2, CallExitLog
    <3>2. \A k \in 1 .. Len(ends') : k \in 1 .. Len(ends) \/ k = Len(ends) + 1
      BY <1>1, <3>1
    <3>3. table[iter].order = order /\ iter < iter'
      BY <2>2 DEF ExitHere, Entry
    <3>4. \A k \in 1 .. Len(ends) : ends'[k] = ends[k] /\ ends[k] \in Entry
      BY <1>1, CallExitLog
    <3>5. \A k \in 1 .. Len(ends) : ends[k] < iter => ends[k] < iter'
      BY <3>4 DEF Entry
    <3> QED
      BY <3>1, <3>2, <3>3, <3>4, <3>5 DEF Behind
  <2> QED
    BY <2>1, <2>2
<1>3. Covered(last, top)'
  <2> SUFFICES ASSUME NEW i \in Entry, table[i].exit,
                      last <= table[i].order, table[i].order <= top,
                      table[i].order > order \/ (table[i].order = order /\ i < iter + 1)
               PROVE  i \in Ended'
    BY DEF Covered
  <2>1. CASE table[i].order > order \/ (table[i].order = order /\ i < iter)
    BY <2>1, CallExitEnded DEF Covered
  <2>2. CASE table[i].order = order /\ i = iter
    BY <2>2, CallExitEnded DEF ExitHere
  <2>3. i < iter + 1 => i < iter \/ i = iter
    BY DEF Entry
  <2> QED
    BY <2>1, <2>2, <2>3
<1> QED
  BY <1>2, <1>3

\* What lies behind the position of a loop is not the entry it takes down there.
LEMMA BehindIsPast ==
  ASSUME TypeOK, Behind, ExitHere
  PROVE  \A k \in 1 .. Len(ends) : ends[k] # iter /\ table[ends[k]].order >= order
<1> SUFFICES ASSUME NEW k \in 1 .. Len(ends)
             PROVE  ends[k] # iter /\ table[ends[k]].order >= order
  OBVIOUS
<1>1. ends[k] \in Entry /\ order \in Int /\ iter \in Int
  BY DEF TypeOK
<1>2. ends[k] \in Int /\ table[ends[k]].order \in Int
  BY <1>1 DEF TypeOK, Initops, Order, OrderFirst, Entry
<1>3. CASE table[ends[k]].order > order
  BY <1>1, <1>2, <1>3 DEF ExitHere
<1>4. CASE table[ends[k]].order = order /\ ends[k] < iter
  BY <1>1, <1>2, <1>4
<1> QED
  BY <1>3, <1>4 DEF Behind

\* At the end of a pass the next lower order has everything covered above it.
LEMMA CoveredNextPass ==
  ASSUME TypeOK, NEW last \in Int, NEW top \in Int, Covered(last, top), iter = N + 1,
         order' = order - 1, iter' = 1, UNCHANGED <<table, ends>>
  PROVE  Covered(last, top)'
<1> SUFFICES ASSUME NEW i \in Entry, table[i].exit,
                    last <= table[i].order, table[i].order <= top,
                    table[i].order > order - 1 \/ (table[i].order = order - 1 /\ i < 1)
             PROVE  i \in Ended
  BY DEF Covered, Ended
<1>1. i \in Int /\ i >= 1 /\ i < iter /\ table[i].order \in Int /\ order \in Int
  BY DEF TypeOK, Initops, Order, OrderFirst, Entry
<1>2. table[i].order > order \/ table[i].order = order
  BY <1>1
<1> QED
  BY <1>1, <1>2 DEF Covered

-----------------------------------------------------------------------------
LEMMA InitIInv == Init => IInv
<1> SUFFICES ASSUME Init PROVE IInv
  OBVIOUS
<1>1. TypeOK
  BY DEF Init, TypeOK, Pc
<1>2. LoopInv
  BY DEF Init, LoopInv, StartInv, InitInv, UndoInv, UnwindInv, ReadyInv, ExitInv
<1>3. LogInv
  BY DEF Init, LogInv, ExitAtMostOnce, TeardownDescends
<1>4. LowerOrdersGoDown
  BY DEF Init, LowerOrdersGoDown
<1> QED
  BY <1>1, <1>2, <1>3, <1>4 DEF IInv

LEMMA NextIInv == IInv /\ [Next]_vars => IInv'
<1> SUFFICES ASSUME IInv, [Next]_vars PROVE IInv'
  OBVIOUS
<1> USE DEF IInv
<1> DEFINE Loops == <<pc, order, iter>>
<1>t. /\ table \in [Entry -> Initops] /\ pc \in Pc /\ order \in Int
      /\ iter \in Int /\ ends \in Seq(Entry)
      /\ \A i \in Entry : table[i].order \in Int /\ 0 <= table[i].order
                            /\ table[i].order <= OrderMax
  BY DEF TypeOK, Initops, Order, OrderFirst
<1>1. CASE exec_init
  <2>1. TypeOK'
    BY <1>1 DEF exec_init, TypeOK, Pass, Pc, OrderFirst, Order
  <2>2. LoopInv'
    BY <1>1, <1>t DEF exec_init, Pass, OrderFirst, LoopInv, StartInv, InitInv, UndoInv,
       UnwindInv, ReadyInv, ExitInv, UpTo, Entry
  <2>3. LogInv' /\ LowerOrdersGoDown'
    BY <1>1 DEF exec_init, Pass, LogInv, ExitAtMostOnce, TeardownDescends, LowerOrdersGoDown
  <2> QED
    BY <2>1, <2>2, <2>3
<1>2. CASE init_skip
  <2>1. TypeOK'
    BY <1>2 DEF init_skip, TypeOK
  <2>2. LoopInv'
    BY <1>2, <1>t DEF init_skip, InitHere, LoopInv, StartInv, InitInv, UndoInv,
       UnwindInv, ReadyInv, ExitInv, UpTo, Entry
  <2>3. LogInv' /\ LowerOrdersGoDown'
    BY <1>2 DEF init_skip, LogInv, ExitAtMostOnce, TeardownDescends, LowerOrdersGoDown
  <2> QED
    BY <2>1, <2>2, <2>3
<1>3. CASE init_ok
  <2>0. iter \in Entry
    BY <1>3 DEF init_ok, InitHere, TypeOK, Entry
  <2>1. TypeOK'
    BY <1>3, <2>0 DEF init_ok, TypeOK, Entry
  <2>2. LoopInv'
    BY <1>3, <1>t, <2>0 DEF init_ok, LoopInv, StartInv, InitInv, UndoInv,
       UnwindInv, ReadyInv, ExitInv, UpTo, Entry
  <2>3. LogInv' /\ LowerOrdersGoDown'
    BY <1>3 DEF init_ok, LogInv, ExitAtMostOnce, TeardownDescends, LowerOrdersGoDown, Ended
  <2> QED
    BY <2>1, <2>2, <2>3
<1>4. CASE init_fail
  <2>0. /\ iter \in Entry /\ table[iter].order = order /\ bad' = iter
        /\ ends = <<>> /\ ends' = <<>> /\ table' = table /\ up' = up /\ order >= 0
        /\ pc' \in {"undo", "unwind"}
    BY <1>4 DEF init_fail, InitHere, TypeOK, Entry, LoopInv, InitInv, Unwind, Pass
  <2>1. TypeOK'
    BY <1>4, <2>0 DEF init_fail, Unwind, Pass, TypeOK, Entry, Pc
  <2>2. UpToBad'
    BY <1>4, <2>0, <1>t DEF init_fail, UpToBad, Precedes, LoopInv, InitInv, UpTo, Entry
  <2>3. UndoInv'
    BY <1>4, <2>0, <2>2, <1>t DEF init_fail, UndoInv, Unwind, Pass, Entry
  <2>4. pc' = "unwind" => order' = order - 1 /\ iter' = 1
    BY <1>4 DEF init_fail, Unwind, Pass
  <2>5. UnwindInv'
    BY <2>0, <2>2, <2>4, <1>t DEF UnwindInv, Behind, Covered, Entry
  <2>6. LoopInv'
    BY <2>0, <2>3, <2>5 DEF LoopInv, StartInv, InitInv, ReadyInv, ExitInv
  <2>7. LogInv' /\ LowerOrdersGoDown'
    BY <2>0 DEF LogInv, ExitAtMostOnce, TeardownDescends, LowerOrdersGoDown
  <2> QED
    BY <2>1, <2>6, <2>7
<1>5. CASE init_pass
  <2>1. TypeOK'
    BY <1>5 DEF init_pass, TypeOK, Pass, Pc, LoopInv, InitInv
  <2>2. \A j \in Entry : table[j].init # {} /\ table[j].order <= order => j \in up
    BY <1>5, <1>t DEF init_pass, LoopInv, InitInv, UpTo, Entry
  <2>3. LoopInv'
    BY <1>5, <2>2, <1>t DEF init_pass, Pass, LoopInv, StartInv, InitInv, UndoInv,
       UnwindInv, ReadyInv, ExitInv, UpTo, Entry, TypeOK
  <2>4. LogInv' /\ LowerOrdersGoDown'
    BY <1>5 DEF init_pass, Pass, LogInv, ExitAtMostOnce, TeardownDescends, LowerOrdersGoDown
  <2> QED
    BY <2>1, <2>3, <2>4
<1>6. CASE undo_step
  <2>0. /\ iter \in Entry /\ CallExit /\ iter' = iter - 1 /\ iter > 1 /\ pc = "undo"
        /\ UNCHANGED <<table, pc, order, up, bad>> /\ UndoInv
    BY <1>6 DEF undo_step, TypeOK, Entry, LoopInv, UndoInv, UpToBad
  <2>1. TypeOK'
    BY <2>0, CallExitLog DEF TypeOK, Entry
  <2>2. bad \in Entry /\ iter <= bad /\ order = table[bad].order
    BY <2>0 DEF UndoInv, UpToBad
  <2>3. UndoInv'
    <3>1. UpToBad'
      BY <2>0 DEF UndoInv, UpToBad, Precedes
    <3>2. \A k \in 1 .. Len(ends) : ends'[k] = ends[k] /\ ends[k] \in Entry
      BY <2>0, <1>t, CallExitLog
    <3>3. \A k \in 1 .. Len(ends') : k \in 1 .. Len(ends) \/ (ends'[k] = iter /\ ExitHere)
      BY <2>0, <1>t, CallExitLog
    <3>4. \A k \in 1 .. Len(ends) : table[ends[k]].order = order /\ ends[k] > iter - 1
      BY <2>0, <3>2 DEF UndoInv, Entry
    <3>5. \A k \in 1 .. Len(ends') : table[ends'[k]].order = order /\ ends'[k] > iter - 1
      BY <3>2, <3>3, <3>4, <2>0 DEF ExitHere, Entry
    <3> QED
      BY <3>1, <3>5, <2>0, <2>2 DEF UndoInv, Entry
  <2>4. LoopInv'
    BY <2>0, <2>3 DEF LoopInv, StartInv, InitInv, UnwindInv, ReadyInv, ExitInv
  <2>5. ExitHere /\ table[iter].init # {} => iter \in up \/ iter = bad
    BY <2>0, <2>2 DEF UndoInv, UpToBad, Precedes, ExitHere, Entry
  <2>6. \A k \in 1 .. Len(ends) : ends[k] # iter /\ table[ends[k]].order >= order
    BY <2>0, <1>t DEF UndoInv, Entry
  <2>7. LogInv'
    BY <2>0, <2>5, <2>6, CallExitSorted
  <2>8. LowerOrdersGoDown'
    BY <2>0 DEF LowerOrdersGoDown
  <2> QED
    BY <2>1, <2>4, <2>7, <2>8
<1>7. CASE undo_end
  <2>0. /\ pc' = "unwind" /\ order' = order - 1 /\ iter' = 1 /\ order = table[bad].order
        /\ UNCHANGED <<table, up, bad, ends>> /\ UpToBad /\ pc = "undo"
        /\ \A k \in 1 .. Len(ends) : table[ends[k]].order = order
    BY <1>7 DEF undo_end, Unwind, Pass, LoopInv, UndoInv
  <2>1. bad \in Entry /\ order >= 0
    BY <2>0, <1>t DEF UpToBad
  <2>2. TypeOK'
    BY <2>0, <2>1 DEF TypeOK, Pc
  <2>3. UpToBad'
    BY <2>0 DEF UpToBad, Precedes
  <2>4. UnwindInv'
    BY <2>0, <2>1, <2>3, <1>t DEF UnwindInv, Behind, Covered, Entry
  <2>5. LoopInv'
    BY <2>0, <2>4 DEF LoopInv, StartInv, InitInv, UndoInv, ReadyInv, ExitInv
  <2>6. LogInv' /\ LowerOrdersGoDown'
    BY <2>0 DEF LogInv, ExitAtMostOnce, TeardownDescends, LowerOrdersGoDown
  <2> QED
    BY <2>2, <2>5, <2>6
<1>8. CASE unwind
  <2>1. CASE order > OrderFirst /\ exit_step("unwind")
    <3>0. /\ iter \in Entry /\ CallExit /\ iter' = iter + 1 /\ order > 0 /\ pc = "unwind"
          /\ UNCHANGED <<table, pc, order, up, bad>> /\ UnwindInv
      BY <2>1 DEF exit_step, TypeOK, Entry, LoopInv, OrderFirst
    <3>1. TypeOK'
      BY <3>0, CallExitLog DEF TypeOK, Entry
    <3>2. /\ bad \in Entry /\ UpToBad /\ order < table[bad].order
          /\ Behind /\ Covered(1, table[bad].order - 1)
      BY <3>0 DEF UnwindInv, UpToBad
    <3>3. table[bad].order - 1 \in Int
      BY <3>2, <1>t
    <3>4. Behind' /\ Covered(1, table[bad].order - 1)'
      BY <3>0, <3>2, <3>3, CallExitBehind
    <3>5. UpToBad'
      BY <3>0, <3>2 DEF UpToBad, Precedes
    <3>6. UnwindInv'
      BY <3>0, <3>2, <3>4, <3>5 DEF UnwindInv
    <3>7. LoopInv'
      BY <3>0, <3>6 DEF LoopInv, StartInv, InitInv, UndoInv, ReadyInv, ExitInv
    <3>8. ExitHere /\ table[iter].init # {} => iter \in up \/ iter = bad
      BY <3>0, <3>2 DEF UpToBad, Precedes, ExitHere
    <3>9. ExitHere => \A k \in 1 .. Len(ends) :
            ends[k] # iter /\ table[ends[k]].order >= order
      BY <3>2, BehindIsPast
    <3>10. LogInv'
      BY <3>0, <3>8, <3>9, CallExitSorted
    <3>11. LowerOrdersGoDown'
      BY <3>0 DEF LowerOrdersGoDown
    <3> QED
      BY <3>1, <3>7, <3>10, <3>11
  <2>2. CASE exit_pass("unwind", OrderFirst + 1, "failed")
    <3>0. /\ pc = "unwind" /\ UNCHANGED <<table, up, bad, ends>>
          /\ \/ order >= 1 /\ iter = N + 1 /\ pc' = "unwind" /\ order' = order - 1 /\ iter' = 1
             \/ order < 1 /\ pc' = "failed" /\ order' = order /\ iter' = 1
          /\ UpToBad /\ bad \in Entry /\ order < table[bad].order
          /\ Behind /\ Covered(1, table[bad].order - 1)
      BY <2>2 DEF exit_pass, Pass, OrderFirst, LoopInv, UnwindInv, UpToBad
    <3>1. TypeOK'
      BY <3>0 DEF TypeOK, Pc
    <3>2. UpToBad'
      BY <3>0 DEF UpToBad, Precedes
    <3>3. UnwindInv'
      <4> SUFFICES ASSUME pc' = "unwind" PROVE UnwindInv'
        BY DEF UnwindInv
      <4>1. \A k \in 1 .. Len(ends) : ends[k] \in Entry /\ table[ends[k]].order >= order
        BY <3>0, <1>t DEF Behind
      <4>2. Behind'
        BY <3>0, <4>1, <1>t DEF Behind
      <4>3. Covered(1, table[bad].order - 1)'
        <5>1. PICK top \in Int : top = table[bad].order - 1
          BY <3>0, <1>t
        <5>2. Covered(1, top) /\ order' = order - 1 /\ iter = N + 1 /\ iter' = 1
          BY <3>0, <5>1
        <5>3. Covered(1, top)'
          BY <3>0, <5>2, CoveredNextPass
        <5>4. top = (table[bad].order - 1)'
          BY <3>0, <5>1
        <5> QED
          BY <5>3, <5>4
      <4> QED
        BY <3>0, <3>2, <4>2, <4>3, <1>t DEF UnwindInv
    <3>4. LoopInv'
      BY <3>0, <3>3 DEF LoopInv, StartInv, InitInv, UndoInv, ReadyInv, ExitInv
    <3>5. LogInv'
      BY <3>0 DEF LogInv, ExitAtMostOnce, TeardownDescends
    <3>6. LowerOrdersGoDown'
      BY <3>0, <1>t DEF LowerOrdersGoDown, Covered, Ended
    <3> QED
      BY <3>1, <3>4, <3>5, <3>6
  <2> QED
    BY <1>8, <2>1, <2>2 DEF unwind
<1>9. CASE exec_exit
  <2>0. /\ pc = "ready" /\ pc' = "exit" /\ order' = OrderMax /\ iter' = 1 /\ ends = <<>>
        /\ UNCHANGED <<table, up, bad, ends>>
    BY <1>9 DEF exec_exit, Pass, LoopInv, ExitInv
  <2>1. TypeOK'
    BY <2>0 DEF TypeOK, Pc
  <2>2. Behind' /\ Covered(0, OrderMax)'
    BY <2>0, <1>t DEF Behind, Covered, Entry
  <2>3. LoopInv'
    BY <2>0, <2>2 DEF LoopInv, StartInv, InitInv, UndoInv, UnwindInv, ReadyInv, ExitInv
  <2>4. LogInv' /\ LowerOrdersGoDown'
    BY <2>0 DEF LogInv, ExitAtMostOnce, TeardownDescends, LowerOrdersGoDown
  <2> QED
    BY <2>1, <2>3, <2>4
<1>10. CASE exit_all
  <2>1. CASE exit_step("exit")
    <3>0. /\ iter \in Entry /\ CallExit /\ iter' = iter + 1 /\ pc = "exit"
          /\ UNCHANGED <<table, pc, order, up, bad>>
          /\ Behind /\ Covered(0, OrderMax)
          /\ \A j \in Entry : table[j].init # {} => j \in up
      BY <2>1 DEF exit_step, TypeOK, Entry, LoopInv, ExitInv, ReadyInv
    <3>1. TypeOK'
      BY <3>0, CallExitLog DEF TypeOK, Entry
    <3>2. Behind' /\ Covered(0, OrderMax)'
      BY <3>0, CallExitBehind
    <3>3. LoopInv'
      BY <3>0, <3>2 DEF LoopInv, StartInv, InitInv, UndoInv, UnwindInv, ReadyInv, ExitInv
    <3>4. ExitHere => \A k \in 1 .. Len(ends) :
            ends[k] # iter /\ table[ends[k]].order >= order
      BY <3>0, BehindIsPast
    <3>5. LogInv'
      BY <3>0, <3>4, CallExitSorted
    <3>6. LowerOrdersGoDown'
      BY <3>0 DEF LowerOrdersGoDown
    <3> QED
      BY <3>1, <3>3, <3>5, <3>6
  <2>2. CASE exit_pass("exit", OrderFirst, "over")
    <3>0. /\ pc = "exit" /\ UNCHANGED <<table, up, bad, ends>>
          /\ \/ order >= 0 /\ iter = N + 1 /\ pc' = "exit" /\ order' = order - 1 /\ iter' = 1
             \/ order < 0 /\ pc' = "over" /\ order' = order /\ iter' = 1
          /\ Behind /\ Covered(0, OrderMax)
      BY <2>2 DEF exit_pass, Pass, OrderFirst, LoopInv, ExitInv
    <3>1. TypeOK'
      BY <3>0 DEF TypeOK, Pc
    <3>2. pc' = "exit" => Behind' /\ Covered(0, OrderMax)'
      <4>1. \A k \in 1 .. Len(ends) : ends[k] \in Entry /\ table[ends[k]].order >= order
        BY <3>0, <1>t DEF Behind
      <4>2. pc' = "exit" => Behind'
        BY <3>0, <4>1, <1>t DEF Behind
      <4>3. pc' = "exit" => Covered(0, OrderMax)'
        BY <3>0, CoveredNextPass
      <4> QED
        BY <4>2, <4>3
    <3>3. LoopInv'
      BY <3>0, <3>2 DEF LoopInv, StartInv, InitInv, UndoInv, UnwindInv, ReadyInv, ExitInv
    <3>4. LogInv'
      BY <3>0 DEF LogInv, ExitAtMostOnce, TeardownDescends
    <3>5. LowerOrdersGoDown'
      BY <3>0, <1>t DEF LowerOrdersGoDown, Covered, Ended
    <3> QED
      BY <3>1, <3>3, <3>4, <3>5
  <2> QED
    BY <1>10, <2>1, <2>2 DEF exit_all
<1>11. CASE UNCHANGED vars
  BY <1>11 DEF vars, TypeOK, LoopInv, StartInv, InitInv, UndoInv, UnwindInv, ReadyInv, ExitInv,
     UpTo, UpToBad, Precedes, Behind, Covered, Ended, LogInv, ExitAtMostOnce, TeardownDescends,
     LowerOrdersGoDown
<1> QED
  BY <1>1, <1>2, <1>3, <1>4, <1>5, <1>6, <1>7, <1>8, <1>9, <1>10, <1>11
     DEF Next, Walking, Terminated

-----------------------------------------------------------------------------
(* The theorems.                                                            *)

\* The invariant that says how far each loop of initops.c has come.
THEOREM IInvariant == Spec => []IInv
  BY InitIInv, NextIInv, PTL DEF Spec

\* The type invariant.
THEOREM TypeCorrect == Spec => []TypeOK
<1>1. IInv => TypeOK
  BY DEF IInv
<1> QED
  BY <1>1, IInvariant, PTL

\* Each init function of initops_exec_init runs on top of everything that comes
\* before it in order and link order.
THEOREM InitRunsOnTop == Spec => []InitOnTopOfEarlier
<1>1. IInv => InitOnTopOfEarlier
  BY DEF IInv, LoopInv, InitInv, UpTo, InitOnTopOfEarlier, InitHere, Precedes
<1> QED
  BY <1>1, IInvariant, PTL

\* No exit function runs twice, in the rollback or in initops_exec_exit.
THEOREM ExitsOnce == Spec => []ExitAtMostOnce
<1>1. IInv => ExitAtMostOnce
  BY DEF IInv, LogInv
<1> QED
  BY <1>1, IInvariant, PTL

\* The exit functions run from higher to lower orders.
THEOREM ExitsDescend == Spec => []TeardownDescends
<1>1. IInv => TeardownDescends
  BY DEF IInv, LogInv
<1> QED
  BY <1>1, IInvariant, PTL

\* The rollback calls no exit function of an entry that was never reached.
THEOREM ExitsFollowInits == Spec => []ExitFollowsInit
<1>1. IInv => ExitFollowsInit
  BY DEF IInv, LogInv, ExitFollowsInit, Ended
<1> QED
  BY <1>1, IInvariant, PTL

\* The rollback reaches every order between the first and the failing one, and
\* initops_exec_exit reaches every entry.
THEOREM LowerOrdersCovered == Spec => []LowerOrdersGoDown
<1>1. IInv => LowerOrdersGoDown
  BY DEF IInv
<1> QED
  BY <1>1, IInvariant, PTL
=============================================================================
