-------------------------------- MODULE List --------------------------------
(***************************************************************************)
(* The doubly linked lists and the hash lists of lgu/list/list.h.           *)
(*                                                                         *)
(* The operators work on a memory, a record with the fields of all nodes    *)
(* and heads, and return the memory afterwards.  The stores of a C function *)
(* are the clauses of one EXCEPT, which take effect from left to right, so  *)
(* that aliasing (an empty list, a neighbour that is the head) is kept.     *)
(*                                                                         *)
(* Callers keep to the header's contract: a node is added only while it is  *)
(* in no list, removed only when it was added or initialised, a head that   *)
(* list_splice emptied is initialised before it is used again, and the body *)
(* of a safe loop touches no other node than its own.                       *)
(***************************************************************************)
EXTENDS Lists, FiniteSets

CONSTANTS NIL, LIST_POISON1, LIST_POISON2

ASSUME ListAssumption ==
  /\ IsFiniteSet(Node) /\ ListHead \cap Node = {}
  /\ {NIL, LIST_POISON1, LIST_POISON2} \cap (ListHead \cup Node) = {}
  /\ NIL # LIST_POISON2

VARIABLES
  list,      \* [next, prev] of heads and nodes
  stale,     \* heads that list_splice has left behind
  it,        \* a safe loop: [head, pos, n, back, todo, seen], head = NIL: none
  hlist      \* [next, pprev]: next[h] is h->first, pprev names the owner of the pointer

listVars == <<list, stale, it, hlist>>

Cell == ListHead \cup Node
NoLoop == [head |-> NIL, pos |-> NIL, n |-> NIL, back |-> FALSE, todo |-> <<>>, seen |-> <<>>]

ListInit ==
  /\ list = [next |-> [x \in Cell |-> IF x \in ListHead THEN x ELSE LIST_POISON1],
             prev |-> [x \in Cell |-> IF x \in ListHead THEN x ELSE LIST_POISON2]]
  /\ stale = {}
  /\ it = NoLoop
  /\ hlist = [next |-> [x \in Cell |-> NIL], pprev |-> [x \in Cell |-> NIL]]

-----------------------------------------------------------------------------
(* list_head                                                                *)

INIT_LIST_HEAD(m, p) == [m EXCEPT !.next[p] = p, !.prev[p] = p]

\* Mutant: next->prev is not set.
__list_add_NoBack(m, new, prev, next) ==
  [m EXCEPT !.next[new] = next, !.prev[new] = prev, !.next[prev] = new]

__list_add(m, new, prev, next) ==
  [m EXCEPT !.prev[next] = new, !.next[new] = next, !.prev[new] = prev, !.next[prev] = new]

list_add(m, new, head) == __list_add(m, new, head, m.next[head])
list_add_tail(m, new, head) == __list_add(m, new, m.prev[head], head)

__list_del(m, prev, next) == [m EXCEPT !.prev[next] = prev, !.next[prev] = next]

list_del(m, entry) ==
  [__list_del(m, m.prev[entry], m.next[entry])
     EXCEPT !.next[entry] = LIST_POISON1, !.prev[entry] = LIST_POISON2]
list_del_init(m, entry) ==
  INIT_LIST_HEAD(__list_del(m, m.prev[entry], m.next[entry]), entry)

list_move(m, entry, head) ==
  list_add(__list_del(m, m.prev[entry], m.next[entry]), entry, head)
list_move_tail(m, entry, head) ==
  list_add_tail(__list_del(m, m.prev[entry], m.next[entry]), entry, head)

list_is_last(m, entry, head) == m.next[entry] = head
list_empty(m, head) == m.next[head] = head

\* Mutant: head->next is read after it was overwritten.
__list_splice_LateRead(m, from, head) ==
  LET first == m.next[from]  last == m.prev[from]  at == first
  IN  [m EXCEPT !.prev[first] = head, !.next[head] = first,
                !.next[last] = at, !.prev[at] = last]

__list_splice(m, from, head) ==
  LET first == m.next[from]  last == m.prev[from]  at == m.next[head]
  IN  [m EXCEPT !.prev[first] = head, !.next[head] = first,
                !.next[last] = at, !.prev[at] = last]

list_splice(m, from, head) ==
  IF list_empty(m, from) THEN m ELSE __list_splice(m, from, head)
list_splice_init(m, from, head) ==
  IF list_empty(m, from) THEN m ELSE INIT_LIST_HEAD(__list_splice(m, from, head), from)

\* list_for_each and the loops like it: the nodes that a walk over one field meets
\* before it comes to something that is no node.
Walk(field, head) ==
  LET last == Cardinality(Node)
      pos[k \in 0 .. last] ==
        IF k = 0 THEN field[head]
        ELSE IF pos[k - 1] \in Node THEN field[pos[k - 1]] ELSE pos[k - 1]
      len == Cardinality({k \in 0 .. last : pos[k] \in Node})
  IN  [nodes |-> [k \in 1 .. len |-> pos[k - 1]], end |-> pos[last]]

\* The sequences that a memory stands for.
SeqsOf(m, gone) ==
  [h \in ListHead |-> IF h \in gone THEN <<>> ELSE Walk(m.next, h).nodes]

-----------------------------------------------------------------------------
(* hlist: the pointer that pprev points to is a head's first or a node's next. *)

INIT_HLIST_NODE(m, n) == [m EXCEPT !.next[n] = NIL, !.pprev[n] = NIL]
hlist_unhashed(m, n) == m.pprev[n] = NIL
hlist_empty(m, h) == m.next[h] = NIL

\* if (x) x->pprev = owner
SetPprev(m, x, owner) == IF x = NIL THEN m ELSE [m EXCEPT !.pprev[x] = owner]

__hlist_del(m, n) ==
  SetPprev([m EXCEPT !.next[m.pprev[n]] = m.next[n]], m.next[n], m.pprev[n])

hlist_del(m, n) ==
  [__hlist_del(m, n) EXCEPT !.next[n] = LIST_POISON1, !.pprev[n] = LIST_POISON2]
hlist_del_init(m, n) ==
  IF hlist_unhashed(m, n) THEN m ELSE INIT_HLIST_NODE(__hlist_del(m, n), n)

hlist_add_head(m, n, h) ==
  [SetPprev([m EXCEPT !.next[n] = m.next[h]], m.next[h], n)
     EXCEPT !.next[h] = n, !.pprev[n] = h]

hlist_add_before(m, n, next) ==
  LET owner == m.pprev[next]
  IN  [m EXCEPT !.pprev[n] = owner, !.next[n] = next, !.pprev[next] = n, !.next[owner] = n]

\* next is the node that is added.
hlist_add_after(m, n, next) ==
  LET m1 == [m EXCEPT !.next[next] = m.next[n], !.next[n] = next, !.pprev[next] = n]
  IN  SetPprev(m1, m1.next[next], next)

-----------------------------------------------------------------------------
(* Callers.                                                                 *)

now == SeqsOf(list, stale)
hnow == SeqsOf(hlist, {})

\* A place in a list: a head in use, or a node.
Place(x) == x \in ListHead \ stale \/ x \in Linked(now)

CanAdd(n, x) == n \in Node \ Linked(now) /\ Place(x)
CanDel(n) == n \in Linked(now) \/ (n \in Node /\ list.next[n] = n)
CanMove(n, x) == CanDel(n) /\ Place(x) /\ x # n
CanSplice(g, x) == g \in ListHead \ stale /\ Place(x) /\ x \notin {g} \cup ToSet(now[g])

CanHadd(n) == n \in Node \ Linked(hnow)

Change(mems) == it.head = NIL /\ list' \in mems /\ UNCHANGED <<it, hlist>>

ListChange ==
  \/ /\ \/ \E n \in Node, x \in Cell :
             \/ CanAdd(n, x) /\ Change({list_add(list, n, x), list_add_tail(list, n, x)})
             \/ CanMove(n, x) /\ Change({list_move(list, n, x), list_move_tail(list, n, x)})
        \/ \E n \in Node : CanDel(n) /\ Change({list_del(list, n), list_del_init(list, n)})
        \/ \E g \in ListHead, x \in Cell :
             CanSplice(g, x) /\ Change({list_splice_init(list, g, x)})
     /\ UNCHANGED stale
  \/ \E g \in ListHead, x \in Cell :
       /\ CanSplice(g, x) /\ Change({list_splice(list, g, x)})
       /\ stale' = IF list_empty(list, g) THEN stale ELSE stale \cup {g}
  \/ \E g \in stale : Change({INIT_LIST_HEAD(list, g)}) /\ stale' = stale \ {g}

HlistChange ==
  /\ \/ \E n \in Node, h \in ListHead : CanHadd(n) /\ hlist' = hlist_add_head(hlist, n, h)
     \/ \E n \in Node, x \in Linked(hnow) :
          /\ CanHadd(n)
          /\ hlist' \in {hlist_add_before(hlist, n, x), hlist_add_after(hlist, x, n)}
     \/ \E n \in Linked(hnow) : hlist' = hlist_del(hlist, n)
     \/ \E n \in Node :
          hlist.pprev[n] # LIST_POISON2 /\ hlist' = hlist_del_init(hlist, n)
  /\ UNCHANGED <<list, stale, it>>

-----------------------------------------------------------------------------
(* list_for_each_safe, list_for_each_entry_safe, _continue and _reverse.     *)

Follow(m, back, x) == IF back THEN m.prev[x] ELSE m.next[x]

\* The loop starts at its head, or goes on after the node from.
safe_begin(h, from, back) ==
  LET s == now[h]
      first == Follow(list, back, from)
  IN  /\ it.head = NIL /\ h \notin stale
      /\ from = h \/ (from \in ToSet(s) /\ ~back)
      /\ it' = [head |-> h, pos |-> first, n |-> Follow(list, back, first), back |-> back,
                todo |-> IF back THEN Reverse(s) ELSE SubSeq(s, Rank(now, from) + 1, Len(s)),
                seen |-> <<>>]
      /\ UNCHANGED <<list, stale, hlist>>

\* What the body may do with its node.
Bodies ==
  {list, list_del(list, it.pos), list_del_init(list, it.pos)} \cup
  UNION {{list_move(list, it.pos, h), list_move_tail(list, it.pos, h)} :
           h \in ListHead \ (stale \cup {it.head})}

\* Mutant: the next node is read after the body, as in the plain loops.
safe_step_Plain ==
  /\ it.head # NIL /\ it.pos \in Node
  /\ list' \in Bodies
  /\ it' = [it EXCEPT !.pos = Follow(list', it.back, it.pos), !.n = it.pos,
                      !.seen = Append(@, it.pos)]
  /\ UNCHANGED <<stale, hlist>>

safe_step ==
  /\ it.head # NIL /\ it.pos # it.head
  /\ list' \in Bodies
  /\ it' = [it EXCEPT !.pos = it.n, !.n = Follow(list', it.back, it.n),
                      !.seen = Append(@, it.pos)]
  /\ UNCHANGED <<stale, hlist>>

safe_end ==
  /\ it.head # NIL /\ it.pos = it.head
  /\ it' = NoLoop
  /\ UNCHANGED <<list, stale, hlist>>

SafeLoop ==
  \/ \E h \in ListHead, from \in Cell, back \in BOOLEAN : safe_begin(h, from, back)
  \/ safe_step \/ safe_end

ListNext == ListChange \/ SafeLoop

-----------------------------------------------------------------------------
(* Properties.                                                              *)

\* From every memory that callers can build, every operation of list.h does to the
\* pointers what Lists says it does to the sequences, with nodes as well as heads
\* as the place, on nodes that were deleted, initialised or are their own
\* neighbours.
ImplementsSequences ==
  /\ \A n \in Node, x \in Cell : CanAdd(n, x) =>
       /\ SeqsOf(list_add(list, n, x), stale) = After(now, <<n>>, x)
       /\ SeqsOf(list_add_tail(list, n, x), stale) = Before(now, <<n>>, x)
  /\ \A n \in Node : CanDel(n) =>
       /\ SeqsOf(list_del(list, n), stale) = Without(now, n)
       /\ SeqsOf(list_del_init(list, n), stale) = Without(now, n)
  /\ \A n \in Node, x \in Cell : CanMove(n, x) =>
       /\ SeqsOf(list_move(list, n, x), stale) = After(Without(now, n), <<n>>, x)
       /\ SeqsOf(list_move_tail(list, n, x), stale) = Before(Without(now, n), <<n>>, x)
  /\ \A g \in ListHead, x \in Cell : CanSplice(g, x) =>
       /\ SeqsOf(list_splice(list, g, x), stale \cup {g}) = Splice(now, g, x)
       /\ SeqsOf(list_splice_init(list, g, x), stale) = Splice(now, g, x)
  /\ \A n \in Node : CanHadd(n) =>
       /\ \A h \in ListHead : SeqsOf(hlist_add_head(hlist, n, h), {}) = After(hnow, <<n>>, h)
       /\ \A x \in Linked(hnow) :
            /\ SeqsOf(hlist_add_before(hlist, n, x), {}) = Before(hnow, <<n>>, x)
            /\ SeqsOf(hlist_add_after(hlist, x, n), {}) = After(hnow, <<n>>, x)
  /\ \A n \in Linked(hnow) :
       /\ SeqsOf(hlist_del(hlist, n), {}) = Without(hnow, n)
       /\ SeqsOf(hlist_del_init(hlist, n), {}) = Without(hnow, n)

\* Both directions tell the same story: the walk over prev meets the nodes of the
\* walk over next in reverse and both come back to their head, each pprev names the
\* pointer that points to its node, and no node is in two lists; list_empty,
\* list_is_last and hlist_empty answer accordingly.
WellLinked ==
  /\ \A h \in ListHead \ stale :
       /\ Walk(list.next, h).end = h /\ Walk(list.prev, h).end = h
       /\ Walk(list.prev, h).nodes = Reverse(now[h])
       /\ list_empty(list, h) <=> now[h] = <<>>
       /\ \A n \in ToSet(now[h]) : list_is_last(list, n, h) <=> n = Last(now[h])
  /\ \A h \in ListHead :
       /\ Walk(hlist.next, h).end = NIL
       /\ hlist_empty(hlist, h) <=> hnow[h] = <<>>
  /\ \A n \in Linked(hnow) : hlist.next[hlist.pprev[n]] = n
  /\ \A g, h \in ListHead : g # h =>
       ToSet(now[g]) \cap ToSet(now[h]) = {} /\ ToSet(hnow[g]) \cap ToSet(hnow[h]) = {}

\* A safe loop visits exactly the nodes that were in the list when it began, each
\* once and in order, although its body takes nodes out, poisons them or moves them
\* to other lists, and it never follows a pointer of a node that is gone.
SafeLoopVisitsAll ==
  it.head # NIL =>
    /\ it.pos \in {it.head} \cup Node
    /\ IsPrefix(it.seen, it.todo)
    /\ it.pos = it.head => it.seen = it.todo
=============================================================================
