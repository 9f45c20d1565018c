-------------------------------- MODULE Lists --------------------------------
(***************************************************************************)
(* What list.h promises: each head has a sequence of nodes, and an operation *)
(* changes the sequences.  ls is a function from heads to sequences; a      *)
(* place x in them is a head or one of the nodes.                           *)
(***************************************************************************)
EXTENDS Naturals, SequencesExt

CONSTANTS ListHead, Node

Linked(ls) == UNION {ToSet(ls[h]) : h \in ListHead}

HeadOf(ls, x) ==
  IF x \in ListHead THEN x ELSE CHOOSE h \in ListHead : x \in ToSet(ls[h])

\* How many nodes there are before and including x.
Rank(ls, x) ==
  IF x \in ListHead THEN 0
  ELSE LET s == ls[HeadOf(ls, x)] IN CHOOSE i \in DOMAIN s : s[i] = x

\* t comes after x, or before it; before a head is at the end.
After(ls, t, x) ==
  [ls EXCEPT ![HeadOf(ls, x)] =
     SubSeq(@, 1, Rank(ls, x)) \o t \o SubSeq(@, Rank(ls, x) + 1, Len(@))]

Before(ls, t, x) ==
  IF x \in ListHead THEN [ls EXCEPT ![x] = @ \o t]
  ELSE [ls EXCEPT ![HeadOf(ls, x)] =
          SubSeq(@, 1, Rank(ls, x) - 1) \o t \o SubSeq(@, Rank(ls, x), Len(@))]

Without(ls, n) ==
  IF n \in Linked(ls) THEN [ls EXCEPT ![HeadOf(ls, n)] = RemoveAt(@, Rank(ls, n))] ELSE ls

\* The nodes of g go to the place after x.
Splice(ls, g, x) == After([ls EXCEPT ![g] = <<>>], ls[g], x)
=============================================================================
