----------------------------- MODULE List_proofs -----------------------------
(***************************************************************************)
(* Proofs about List: for any number of heads and nodes, the pointers stand  *)
(* for sequences of nodes and every operation of list.h changes them as      *)
(* Lists says.                                                               *)
(***************************************************************************)
EXTENDS List, NatFacts, FiniteSetTheorems, TLAPS

(* Sequences of nodes.                                                      *)

Lines == [ListHead -> Seq(Node)]

\* No node is in two places.
NoShare(ls) ==
  \A g, h \in ListHead : \A i \in 1 .. Len(ls[g]), j \in 1 .. Len(ls[h]) :
    ls[g][i] = ls[h][j] => g = h /\ i = j

\* The i-th cell of the list of h: the head is before its first node and after its last.
At(s, h, i) == IF i \in 1 .. Len(s) THEN s[i] ELSE h

\* t between the nodes k and k + 1 of s.
Insert(s, k, t) == SubSeq(s, 1, k) \o t \o SubSeq(s, k + 1, Len(s))

\* What concatenation does, element by element.
LEMMA ConcatFacts ==
  ASSUME NEW a \in Seq(Node), NEW b \in Seq(Node)
  PROVE  /\ a \o b \in Seq(Node)
         /\ Len(a) \in Nat /\ Len(b) \in Nat /\ Len(a \o b) = Len(a) + Len(b)
         /\ \A i \in 1 .. Len(a) + Len(b) : (a \o b)[i] = IF i =< Len(a) THEN a[i] ELSE b[i - Len(a)]
OBVIOUS

\* The elements of s with t inserted.
LEMMA InsertFacts ==
  ASSUME NEW s \in Seq(Node), NEW t \in Seq(Node), NEW k \in 0 .. Len(s)
  PROVE  /\ Insert(s, k, t) \in Seq(Node)
         /\ Len(Insert(s, k, t)) = Len(s) + Len(t)
         /\ \A i \in 1 .. Len(s) + Len(t) :
              Insert(s, k, t)[i] = IF i =< k THEN s[i]
                                   ELSE IF i =< k + Len(t) THEN t[i - k] ELSE s[i - Len(t)]
<1> DEFINE a == SubSeq(s, 1, k)
           b == SubSeq(s, k + 1, Len(s))
<1>1. a \in Seq(Node) /\ Len(a) = k /\ \A i \in 1 .. k : a[i] = s[i]
  OBVIOUS
<1>2. b \in Seq(Node) /\ Len(b) = Len(s) - k /\ \A i \in 1 .. Len(s) - k : b[i] = s[k + i]
  OBVIOUS
<1> HIDE DEF a, b
<1> DEFINE at == a \o t
<1>3. at \in Seq(Node) /\ Len(at) = k + Len(t)
      /\ \A i \in 1 .. k + Len(t) : at[i] = IF i =< k THEN s[i] ELSE t[i - k]
  BY <1>1
<1> HIDE DEF at
<1>4. at \o b \in Seq(Node) /\ Len(at \o b) = Len(s) + Len(t)
      /\ \A i \in 1 .. Len(s) + Len(t) :
           (at \o b)[i] = IF i =< k + Len(t) THEN at[i] ELSE b[i - k - Len(t)]
  <2>1. at \in Seq(Node) /\ b \in Seq(Node)
    BY <1>2, <1>3
  <2>2. /\ at \o b \in Seq(Node) /\ Len(at \o b) = Len(at) + Len(b)
        /\ \A i \in 1 .. Len(at) + Len(b) : (at \o b)[i] = IF i =< Len(at) THEN at[i] ELSE b[i - Len(at)]
    BY <2>1, ConcatFacts
  <2>3. Len(at) = k + Len(t) /\ Len(at) + Len(b) = Len(s) + Len(t) /\ Len(t) \in Nat /\ Len(s) \in Nat
    BY <1>2, <1>3
  <2>4. ASSUME NEW i \in 1 .. Len(s) + Len(t)
        PROVE (at \o b)[i] = IF i =< k + Len(t) THEN at[i] ELSE b[i - k - Len(t)]
    <3>1. i - Len(at) = i - k - Len(t)
      BY <2>3
    <3> QED
      BY <2>2, <2>3, <3>1
  <2> QED
    BY <2>2, <2>3, <2>4
<1>5. Insert(s, k, t) = at \o b
  BY DEF Insert, at, a, b
<1>6. ASSUME NEW i \in 1 .. Len(s) + Len(t)
      PROVE (at \o b)[i] = IF i =< k THEN s[i]
                           ELSE IF i =< k + Len(t) THEN t[i - k] ELSE s[i - Len(t)]
  <2>1. CASE i =< k + Len(t)
    BY <1>3, <1>4, <2>1
  <2>2. CASE ~ (i =< k + Len(t))
    <3>1. i - k - Len(t) \in 1 .. Len(s) - k /\ k + (i - k - Len(t)) = i - Len(t)
      BY <2>2
    <3>2. b[i - k - Len(t)] = s[k + (i - k - Len(t))]
      BY <1>2, <3>1
    <3>3. (at \o b)[i] = b[i - k - Len(t)]
      BY <1>4, <2>2
    <3> QED
      BY <2>2, <3>1, <3>2, <3>3
  <2> QED
    BY <2>1, <2>2
<1> QED
  BY <1>4, <1>5, <1>6

\* The elements that stay when number k is removed.
LEMMA RemoveFacts ==
  ASSUME NEW s \in Seq(Node), NEW k \in 1 .. Len(s)
  PROVE  /\ RemoveAt(s, k) \in Seq(Node)
         /\ Len(RemoveAt(s, k)) = Len(s) - 1
         /\ \A i \in 1 .. Len(s) - 1 :
              RemoveAt(s, k)[i] = IF i < k THEN s[i] ELSE s[i + 1]
<1> DEFINE a == SubSeq(s, 1, k - 1)
           b == SubSeq(s, k + 1, Len(s))
<1>1. a \in Seq(Node) /\ Len(a) = k - 1 /\ \A i \in 1 .. k - 1 : a[i] = s[i]
  OBVIOUS
<1>2. b \in Seq(Node) /\ Len(b) = Len(s) - k /\ \A i \in 1 .. Len(s) - k : b[i] = s[k + i]
  OBVIOUS
<1> HIDE DEF a, b
<1>3. a \o b \in Seq(Node) /\ Len(a \o b) = Len(s) - 1
      /\ \A i \in 1 .. Len(s) - 1 : (a \o b)[i] = IF i < k THEN s[i] ELSE s[i + 1]
  <2>1. a \o b \in Seq(Node) /\ Len(a \o b) = Len(s) - 1
    <3>1. a \in Seq(Node) /\ b \in Seq(Node)
      BY <1>1, <1>2
    <3>2. a \o b \in Seq(Node) /\ Len(a \o b) = Len(a) + Len(b)
      BY <3>1, ConcatFacts
    <3> QED
      BY <1>1, <1>2, <3>2
  <2>2. ASSUME NEW i \in 1 .. Len(s) - 1 PROVE (a \o b)[i] = IF i < k THEN s[i] ELSE s[i + 1]
    <3>1. (a \o b)[i] = IF i =< k - 1 THEN a[i] ELSE b[i - (k - 1)]
      <4>1. i \in 1 .. Len(a) + Len(b)
        BY <1>1, <1>2
      <4> QED
        BY <1>1, <1>2, <4>1, ConcatFacts, SMTT(20)
    <3>2. CASE i < k
      BY <1>1, <3>1, <3>2
    <3>3. CASE ~ (i < k)
      <4>1. i - (k - 1) \in 1 .. Len(s) - k /\ k + (i - (k - 1)) = i + 1
        BY <3>3
      <4>2. b[i - (k - 1)] = s[k + (i - (k - 1))]
        BY <1>2, <4>1
      <4> QED
        BY <3>1, <3>3, <4>1, <4>2
    <3> QED
      BY <3>2, <3>3
  <2> QED
    BY <2>1, <2>2
<1> QED
  BY <1>3 DEF RemoveAt, a, b

\* A sequence of different nodes is no longer than there are nodes.
LEMMA LengthBound ==
  ASSUME NEW s \in Seq(Node), \A i, j \in 1 .. Len(s) : s[i] = s[j] => i = j
  PROVE  Len(s) =< Cardinality(Node) /\ Cardinality(Node) \in Nat
<1>1. s \in Injection(1 .. Len(s), Node)
  BY DEF Injection, IsInjective
<1>2. Cardinality(1 .. Len(s)) =< Cardinality(Node)
  BY <1>1, FS_Injection, ListAssumption
<1>3. Cardinality(1 .. Len(s)) = Len(s)
  BY FS_Interval
<1> QED
  BY <1>2, <1>3, FS_CardinalityType, ListAssumption

\* A walk through a chain of nodes meets exactly its nodes and stops behind them.
LEMMA WalkIs ==
  ASSUME NEW field, NEW h, NEW e, e \notin Node, NEW s \in Seq(Node),
         \A i, j \in 1 .. Len(s) : s[i] = s[j] => i = j,
         \A i \in 0 .. Len(s) : field[At(s, h, i)] = IF i < Len(s) THEN s[i + 1] ELSE e
  PROVE  Walk(field, h) = [nodes |-> s, end |-> e]
<1> DEFINE last == Cardinality(Node)
           Rec(p) == p = [k \in 0 .. last |->
                            IF k = 0 THEN field[h]
                            ELSE IF p[k - 1] \in Node THEN field[p[k - 1]] ELSE p[k - 1]]
           pos == CHOOSE p : Rec(p)
           f == [k \in 0 .. last |-> IF k < Len(s) THEN s[k + 1] ELSE e]
<1>1. last \in Nat /\ Len(s) \in Nat /\ Len(s) =< last
  BY LengthBound
<1>2. Rec(f)
  <2>1. field[h] = IF 0 < Len(s) THEN s[1] ELSE e
    BY DEF At
  <2>2. ASSUME NEW k \in 1 .. Len(s) PROVE field[s[k]] = IF k < Len(s) THEN s[k + 1] ELSE e
    BY DEF At
  <2>3. ASSUME NEW k \in 0 .. last
        PROVE f[k] = IF k = 0 THEN field[h]
                     ELSE IF f[k - 1] \in Node THEN field[f[k - 1]] ELSE f[k - 1]
    BY <1>1, <2>1, <2>2
  <2> QED
    BY <2>3
<1>3. Rec(pos)
  BY <1>2, Zenon
<1> HIDE DEF pos
<1>4. ASSUME NEW k \in 0 .. last
      PROVE pos[k] = IF k = 0 THEN field[h]
                     ELSE IF pos[k - 1] \in Node THEN field[pos[k - 1]] ELSE pos[k - 1]
  BY <1>3
<1>5. ASSUME NEW k \in 0 .. last
      PROVE f[k] = IF k = 0 THEN field[h]
                   ELSE IF f[k - 1] \in Node THEN field[f[k - 1]] ELSE f[k - 1]
  BY <1>2
<1> HIDE DEF Rec
<1>6. ASSUME NEW k \in 0 .. last PROVE f[k] = IF k < Len(s) THEN s[k + 1] ELSE e
  OBVIOUS
<1> DEFINE S == {k \in Nat : k =< last => pos[k] = f[k]}
<1> HIDE DEF f, last
<1>7. 0 \in S
  BY <1>1, <1>4, <1>5
<1>8. ASSUME NEW k \in Nat, k \in S PROVE k + 1 \in S
  <2> SUFFICES ASSUME k + 1 =< last PROVE pos[k + 1] = f[k + 1]
    OBVIOUS
  <2>1. k + 1 \in 0 .. last /\ k + 1 # 0 /\ (k + 1) - 1 = k /\ pos[k] = f[k]
    BY <1>1, <1>8
  <2> QED
    BY <1>4, <1>5, <2>1
<1>9. ASSUME NEW k \in 0 .. last PROVE pos[k] = f[k]
  <2> HIDE DEF S
  <2>1. \A n \in Nat : n \in S
    BY <1>7, <1>8, SetInduction
  <2>2. k \in S /\ k =< last
    BY <1>1, <2>1
  <2> QED
    BY <2>2 DEF S
<1> DEFINE met == {k \in 0 .. last : pos[k] \in Node}
<1>10. met = 0 .. Len(s) - 1
  BY <1>1, <1>6, <1>9
<1>11. Cardinality(met) = Len(s)
  <2>1. 0 \in Int /\ Len(s) - 1 \in Int
    BY <1>1
  <2> QED
    <3>1. Cardinality(0 .. Len(s) - 1) = IF 0 > Len(s) - 1 THEN 0 ELSE Len(s) - 1 - 0 + 1
      BY <2>1, FS_Interval
    <3>2. Cardinality(0 .. Len(s) - 1) = Len(s)
      BY <1>1, <3>1
    <3> HIDE DEF met
    <3> QED
      BY <1>10, <3>2
<1>12. [k \in 1 .. Len(s) |-> pos[k - 1]] = s
  <2>1. ASSUME NEW k \in 1 .. Len(s) PROVE pos[k - 1] = s[k]
    BY <1>1, <1>6, <1>9
  <2>2. s = [k \in 1 .. Len(s) |-> s[k]]
    OBVIOUS
  <2> QED
    BY <2>1, <2>2
<1>13. pos[last] = e
  BY <1>1, <1>6, <1>9
<1>14. Walk(field, h) = [nodes |-> [k \in 1 .. Cardinality(met) |-> pos[k - 1]], end |-> pos[last]]
  BY DEF Walk, pos, Rec, last
<1> QED
  BY <1>11, <1>12, <1>13, <1>14

-----------------------------------------------------------------------------
(* Memories that stand for sequences.                                       *)

Ptr == Cell \cup {NIL, LIST_POISON1, LIST_POISON2}
Mem == [next : [Cell -> Ptr], prev : [Cell -> Ptr]]

\* The list of h goes through the nodes of s in both directions.
Ring(m, s, h) ==
  \A i \in 0 .. Len(s) :
    m.next[At(s, h, i)] = At(s, h, i + 1) /\ m.prev[At(s, h, i + 1)] = At(s, h, i)

Chain(m, ls, gone) ==
  /\ m \in Mem /\ ls \in Lines /\ NoShare(ls)
  /\ \A h \in ListHead : IF h \in gone THEN ls[h] = <<>> ELSE Ring(m, ls[h], h)

\* No cell is at two places.
LEMMA CellsDiffer ==
  ASSUME NEW ls \in Lines, NoShare(ls), NEW g \in ListHead, NEW h \in ListHead
  PROVE  /\ \A i \in 0 .. Len(ls[g]) + 1 : At(ls[g], g, i) \in Cell
         /\ \A i \in 0 .. Len(ls[g]), j \in 0 .. Len(ls[h]) :
              At(ls[g], g, i) = At(ls[h], h, j) => g = h /\ i = j
         /\ \A i \in 1 .. Len(ls[g]) + 1, j \in 1 .. Len(ls[h]) + 1 :
              At(ls[g], g, i) = At(ls[h], h, j) => g = h /\ i = j
<1>1. ls[g] \in Seq(Node) /\ ls[h] \in Seq(Node)
  BY DEF Lines
<1>2. \A x \in ListHead : x \notin Node
  BY ListAssumption
<1>3. \A i \in 1 .. Len(ls[g]), j \in 1 .. Len(ls[h]) : ls[g][i] = ls[h][j] => g = h /\ i = j
  BY DEF NoShare
<1>4. Len(ls[g]) \in Nat /\ Len(ls[h]) \in Nat
      /\ (\A i \in 1 .. Len(ls[g]) : ls[g][i] \in Node)
      /\ (\A j \in 1 .. Len(ls[h]) : ls[h][j] \in Node)
  BY <1>1
<1> DEFINE s == ls[g]  t == ls[h]
<1> HIDE DEF s, t
<1>5. \A i \in 0 .. Len(s) + 1 : At(s, g, i) \in Cell
  BY <1>4 DEF At, Cell, s
<1>6. \A i \in 0 .. Len(s), j \in 0 .. Len(t) : At(s, g, i) = At(t, h, j) => g = h /\ i = j
  BY <1>2, <1>3, <1>4 DEF At, s, t
<1>7. \A i \in 1 .. Len(s) + 1, j \in 1 .. Len(t) + 1 : At(s, g, i) = At(t, h, j) => g = h /\ i = j
  <2> SUFFICES ASSUME NEW i \in 1 .. Len(s) + 1, NEW j \in 1 .. Len(t) + 1,
                      At(s, g, i) = At(t, h, j)
               PROVE g = h /\ i = j
    OBVIOUS
  <2>1. CASE i = Len(s) + 1 /\ j = Len(t) + 1
    BY <1>4, <2>1 DEF At, s, t
  <2>2. CASE i \in 1 .. Len(s) /\ j \in 1 .. Len(t)
    BY <1>3, <2>2 DEF At, s, t
  <2>3. CASE i = Len(s) + 1 /\ j \in 1 .. Len(t)
    BY <1>2, <1>4, <2>3 DEF At, s, t
  <2>4. CASE i \in 1 .. Len(s) /\ j = Len(t) + 1
    BY <1>2, <1>4, <2>4 DEF At, s, t
  <2> QED
    BY <1>4, <2>1, <2>2, <2>3, <2>4 DEF s, t
<1> QED
  BY <1>5, <1>6, <1>7 DEF s, t

\* The memory of a chain gives its sequences back, in both directions.
LEMMA ChainWalks ==
  ASSUME NEW m, NEW ls, NEW gone, Chain(m, ls, gone)
  PROVE  /\ SeqsOf(m, gone) = ls
         /\ \A h \in ListHead \ gone : /\ Walk(m.next, h) = [nodes |-> ls[h], end |-> h]
                                       /\ Walk(m.prev, h) = [nodes |-> Reverse(ls[h]), end |-> h]
<1>1. ASSUME NEW h \in ListHead, h \notin gone
      PROVE /\ Walk(m.next, h) = [nodes |-> ls[h], end |-> h]
            /\ Walk(m.prev, h) = [nodes |-> Reverse(ls[h]), end |-> h]
  <2> DEFINE s == ls[h]  r == Reverse(s)
  <2>1. s \in Seq(Node) /\ Len(s) \in Nat
    BY DEF Chain, Lines
  <2>2. \A i, j \in 1 .. Len(s) : s[i] = s[j] => i = j
    BY DEF Chain, NoShare
  <2>3. \A i \in 0 .. Len(s) : /\ m.next[At(s, h, i)] = At(s, h, i + 1)
                               /\ m.prev[At(s, h, i + 1)] = At(s, h, i)
    BY <1>1 DEF Chain, Ring
  <2>4. h \notin Node
    BY ListAssumption
  <2> HIDE DEF s
  <2>5. \A i \in 0 .. Len(s) : m.next[At(s, h, i)] = IF i < Len(s) THEN s[i + 1] ELSE h
    BY <2>1, <2>3 DEF At
  <2>6. /\ r \in Seq(Node) /\ Len(r) = Len(s)
        /\ \A i \in 1 .. Len(s) : r[i] = s[Len(s) - i + 1]
    BY <2>1 DEF Reverse
  <2> HIDE DEF r
  <2>7. \A i, j \in 1 .. Len(r) : r[i] = r[j] => i = j
    <3> SUFFICES ASSUME NEW i \in 1 .. Len(r), NEW j \in 1 .. Len(r), r[i] = r[j] PROVE i = j
      OBVIOUS
    <3>1. Len(s) - i + 1 \in 1 .. Len(s) /\ Len(s) - j + 1 \in 1 .. Len(s)
      BY <2>1, <2>6
    <3>2. Len(s) - i + 1 = Len(s) - j + 1
      BY <2>2, <2>6, <3>1
    <3> QED
      BY <2>1, <2>6, <3>2
  <2>8. \A i \in 0 .. Len(r) : m.prev[At(r, h, i)] = IF i < Len(r) THEN r[i + 1] ELSE h
    <3> SUFFICES ASSUME NEW i \in 0 .. Len(s)
                 PROVE m.prev[At(r, h, i)] = IF i < Len(s) THEN r[i + 1] ELSE h
      BY <2>6
    <3>1. Len(s) - i \in 0 .. Len(s)
      BY <2>1
    <3>2. m.prev[At(s, h, Len(s) - i + 1)] = At(s, h, Len(s) - i)
      BY <2>3, <3>1
    <3>3. At(r, h, i) = At(s, h, Len(s) - i + 1)
      BY <2>1, <2>6 DEF At
    <3>4. At(s, h, Len(s) - i) = IF i < Len(s) THEN r[i + 1] ELSE h
      <4>1. CASE i < Len(s)
        <5>1. i + 1 \in 1 .. Len(s) /\ Len(s) - (i + 1) + 1 = Len(s) - i
          BY <2>1, <4>1
        <5> QED
          BY <2>6, <4>1, <5>1, <3>1 DEF At
      <4>2. CASE ~ (i < Len(s))
        BY <2>1, <4>2 DEF At
      <4> QED
        BY <4>1, <4>2
    <3> QED
      BY <3>2, <3>3, <3>4
  <2>9. Walk(m.next, h) = [nodes |-> s, end |-> h]
    BY <2>1, <2>2, <2>4, <2>5, WalkIs
  <2>10. Walk(m.prev, h) = [nodes |-> r, end |-> h]
    BY <2>4, <2>6, <2>7, <2>8, WalkIs
  <2> QED
    BY <2>9, <2>10 DEF s, r
<1>2. SeqsOf(m, gone) = ls
  <2>1. ls = [h \in ListHead |-> ls[h]]
    BY DEF Chain, Lines
  <2>2. ASSUME NEW h \in ListHead
        PROVE (IF h \in gone THEN <<>> ELSE Walk(m.next, h).nodes) = ls[h]
    <3>1. CASE h \in gone
      BY <3>1 DEF Chain
    <3>2. CASE h \notin gone
      <4>1. Walk(m.next, h) = [nodes |-> ls[h], end |-> h]
        BY <1>1, <3>2
      <4> QED
        BY <3>2, <4>1
    <3> QED
      BY <3>1, <3>2
  <2> QED
    BY <2>1, <2>2 DEF SeqsOf
<1> QED
  BY <1>1, <1>2

\* t has been put between the cells p and q.
Spliced(m, m2, p, t, q) ==
  /\ m2.next[p] = t[1] /\ m2.prev[t[1]] = p
  /\ m2.next[t[Len(t)]] = q /\ m2.prev[q] = t[Len(t)]
  /\ \A i \in 1 .. Len(t) - 1 : m2.next[t[i]] = t[i + 1] /\ m2.prev[t[i + 1]] = t[i]
  /\ \A y \in Cell : (\A i \in 1 .. Len(t) : y # t[i]) =>
       (y # p => m2.next[y] = m.next[y]) /\ (y # q => m2.prev[y] = m.prev[y])

\* The nodes of t are different and in none of the lists.
Fresh(ls, t) ==
  /\ \A i, j \in 1 .. Len(t) : t[i] = t[j] => i = j
  /\ \A g \in ListHead : \A i \in 1 .. Len(ls[g]), j \in 1 .. Len(t) : ls[g][i] # t[j]

\* Inserting fresh nodes into one list leaves no node in two places.
LEMMA InsertLines ==
  ASSUME NEW ls \in Lines, NoShare(ls), NEW h \in ListHead, NEW k \in 0 .. Len(ls[h]),
         NEW t \in Seq(Node), Fresh(ls, t)
  PROVE  /\ [ls EXCEPT ![h] = Insert(ls[h], k, t)] \in Lines
         /\ NoShare([ls EXCEPT ![h] = Insert(ls[h], k, t)])
<1> DEFINE s == ls[h]  u == Insert(s, k, t)  l2 == [ls EXCEPT ![h] = u]
<1>1. s \in Seq(Node) /\ Len(s) \in Nat /\ Len(t) \in Nat /\ k \in 0 .. Len(s) /\ k \in Nat
  BY DEF Lines
<1>2. /\ u \in Seq(Node) /\ Len(u) = Len(s) + Len(t)
      /\ \A i \in 1 .. Len(s) + Len(t) :
           u[i] = IF i =< k THEN s[i] ELSE IF i =< k + Len(t) THEN t[i - k] ELSE s[i - Len(t)]
  BY <1>1, InsertFacts
<1>3. l2 \in Lines /\ l2[h] = u /\ \A g \in ListHead : g # h => l2[g] = ls[g]
  BY <1>2 DEF Lines
<1>4. \A i, j \in 1 .. Len(s) : s[i] = s[j] => i = j
  BY DEF NoShare
<1>5. /\ \A i, j \in 1 .. Len(t) : t[i] = t[j] => i = j
      /\ \A i \in 1 .. Len(s), j \in 1 .. Len(t) : s[i] # t[j]
  BY DEF Fresh
<1>6. \A g \in ListHead : g # h =>
        \A i \in 1 .. Len(ls[g]) : /\ \A j \in 1 .. Len(s) : ls[g][i] # s[j]
                                   /\ \A j \in 1 .. Len(t) : ls[g][i] # t[j]
  BY DEF NoShare, Fresh
<1> HIDE DEF s, u, l2
<1>7. ASSUME NEW x \in 1 .. Len(u)
      PROVE \/ x =< k /\ u[x] = s[x] /\ x \in 1 .. Len(s)
            \/ x > k /\ x =< k + Len(t) /\ u[x] = t[x - k] /\ x - k \in 1 .. Len(t)
            \/ x > k + Len(t) /\ u[x] = s[x - Len(t)] /\ x - Len(t) \in 1 .. Len(s) /\ x - Len(t) > k
  BY <1>1, <1>2
<1>8. \A i, j \in 1 .. Len(u) : u[i] = u[j] => i = j
  <2> SUFFICES ASSUME NEW i \in 1 .. Len(u), NEW j \in 1 .. Len(u), u[i] = u[j] PROVE i = j
    OBVIOUS
  <2>1. i \in Nat /\ j \in Nat
    BY <1>1, <1>2
  <2>2. \/ i =< k /\ u[i] = s[i] /\ i \in 1 .. Len(s)
        \/ i > k /\ u[i] = t[i - k] /\ i - k \in 1 .. Len(t)
        \/ i > k /\ u[i] = s[i - Len(t)] /\ i - Len(t) \in 1 .. Len(s) /\ i - Len(t) > k
    BY <1>1, <1>7, <2>1
  <2>3. \/ j =< k /\ u[j] = s[j] /\ j \in 1 .. Len(s)
        \/ j > k /\ u[j] = t[j - k] /\ j - k \in 1 .. Len(t)
        \/ j > k /\ u[j] = s[j - Len(t)] /\ j - Len(t) \in 1 .. Len(s) /\ j - Len(t) > k
    BY <1>1, <1>7, <2>1
  <2>4. CASE u[i] = s[i] /\ i \in 1 .. Len(s) /\ i =< k
    <3>1. CASE j =< k /\ u[j] = s[j] /\ j \in 1 .. Len(s)
      BY <1>4, <2>4, <3>1
    <3>2. CASE j > k /\ u[j] = t[j - k] /\ j - k \in 1 .. Len(t)
      BY <1>5, <2>4, <3>2
    <3>3. CASE j > k /\ u[j] = s[j - Len(t)] /\ j - Len(t) \in 1 .. Len(s) /\ j - Len(t) > k
      <4>1. i = j - Len(t)
        BY <1>4, <2>4, <3>3
      <4> QED
        BY <1>1, <2>1, <2>4, <3>3, <4>1
    <3> QED
      BY <2>3, <3>1, <3>2, <3>3
  <2>5. CASE i > k /\ u[i] = t[i - k] /\ i - k \in 1 .. Len(t)
    <3>1. CASE j > k /\ u[j] = t[j - k] /\ j - k \in 1 .. Len(t)
      <4>1. i - k = j - k
        BY <1>5, <2>5, <3>1
      <4> QED
        BY <1>1, <2>1, <4>1
    <3> QED
      BY <1>5, <2>3, <2>5, <3>1
  <2>6. CASE i > k /\ u[i] = s[i - Len(t)] /\ i - Len(t) \in 1 .. Len(s) /\ i - Len(t) > k
    <3>1. CASE j =< k /\ u[j] = s[j] /\ j \in 1 .. Len(s)
      <4>1. j = i - Len(t)
        BY <1>4, <2>6, <3>1
      <4> QED
        BY <1>1, <2>1, <2>6, <3>1, <4>1
    <3>2. CASE j > k /\ u[j] = t[j - k] /\ j - k \in 1 .. Len(t)
      BY <1>5, <2>6, <3>2
    <3>3. CASE j > k /\ u[j] = s[j - Len(t)] /\ j - Len(t) \in 1 .. Len(s) /\ j - Len(t) > k
      <4>1. i - Len(t) = j - Len(t)
        BY <1>4, <2>6, <3>3
      <4> QED
        BY <1>1, <2>1, <4>1
    <3> QED
      BY <2>3, <3>1, <3>2, <3>3
  <2> QED
    BY <2>2, <2>4, <2>5, <2>6
<1>9. ASSUME NEW g \in ListHead, g # h, NEW i \in 1 .. Len(ls[g]), NEW x \in 1 .. Len(u)
      PROVE ls[g][i] # u[x]
  <2>1. (\E y \in 1 .. Len(s) : u[x] = s[y]) \/ (\E y \in 1 .. Len(t) : u[x] = t[y])
    <3>1. CASE u[x] = s[x] /\ x \in 1 .. Len(s)
      BY <3>1
    <3>2. CASE u[x] = t[x - k] /\ x - k \in 1 .. Len(t)
      BY <3>2
    <3>3. CASE u[x] = s[x - Len(t)] /\ x - Len(t) \in 1 .. Len(s)
      BY <3>3
    <3> QED
      BY <1>7, <3>1, <3>2, <3>3
  <2>2. (\A y \in 1 .. Len(s) : ls[g][i] # s[y]) /\ (\A y \in 1 .. Len(t) : ls[g][i] # t[y])
    BY <1>6, <1>9
  <2> QED
    BY <2>1, <2>2
<1>10. NoShare(l2)
  <2> SUFFICES ASSUME NEW f \in ListHead, NEW g \in ListHead,
                      NEW i \in 1 .. Len(l2[f]), NEW j \in 1 .. Len(l2[g]), l2[f][i] = l2[g][j]
               PROVE f = g /\ i = j
    BY DEF NoShare
  <2>1. CASE f = h /\ g = h
    BY <1>3, <1>8, <2>1
  <2>2. CASE f = h /\ g # h
    <3>1. i \in 1 .. Len(u) /\ u[i] = ls[g][j] /\ j \in 1 .. Len(ls[g])
      BY <1>3, <2>2
    <3> QED
      BY <1>9, <2>2, <3>1
  <2>3. CASE f # h /\ g = h
    <3>1. j \in 1 .. Len(u) /\ u[j] = ls[f][i] /\ i \in 1 .. Len(ls[f])
      BY <1>3, <2>3
    <3> QED
      BY <1>9, <2>3, <3>1
  <2>4. CASE f # h /\ g # h
    BY <1>3, <2>4 DEF NoShare
  <2> QED
    BY <2>1, <2>2, <2>3, <2>4
<1> QED
  BY <1>3, <1>10 DEF l2, u, s

\* The cells of a list into which t was put.
LEMMA InsertAtCells ==
  ASSUME NEW s \in Seq(Node), NEW t \in Seq(Node), NEW k \in 0 .. Len(s), NEW h \in ListHead
  PROVE  /\ \A i \in 0 .. k : At(Insert(s, k, t), h, i) = At(s, h, i)
         /\ \A i \in 1 .. Len(t) : At(Insert(s, k, t), h, k + i) = t[i]
         /\ \A i \in k + 1 .. Len(s) + 1 : At(Insert(s, k, t), h, i + Len(t)) = At(s, h, i)
<1> DEFINE u == Insert(s, k, t)
<1>1. Len(s) \in Nat /\ Len(t) \in Nat /\ k \in Nat /\ k =< Len(s)
  OBVIOUS
<1>2. /\ Len(u) = Len(s) + Len(t)
      /\ \A i \in 1 .. Len(s) + Len(t) :
           u[i] = IF i =< k THEN s[i] ELSE IF i =< k + Len(t) THEN t[i - k] ELSE s[i - Len(t)]
  BY InsertFacts
<1> HIDE DEF u
<1>3. ASSUME NEW i \in 0 .. k PROVE At(u, h, i) = At(s, h, i)
  BY <1>1, <1>2 DEF At
<1>4. ASSUME NEW i \in 1 .. Len(t) PROVE At(u, h, k + i) = t[i]
  <2>1. k + i \in 1 .. Len(s) + Len(t) /\ ~ (k + i =< k) /\ k + i =< k + Len(t) /\ k + i - k = i
    BY <1>1
  <2> QED
    BY <1>2, <2>1 DEF At
<1>5. ASSUME NEW i \in k + 1 .. Len(s) + 1 PROVE At(u, h, i + Len(t)) = At(s, h, i)
  <2>1. CASE i = Len(s) + 1
    BY <1>1, <1>2, <2>1 DEF At
  <2>2. CASE i \in 1 .. Len(s)
    <3>1. /\ i + Len(t) \in 1 .. Len(s) + Len(t) /\ ~ (i + Len(t) =< k + Len(t))
          /\ ~ (i + Len(t) =< k) /\ i + Len(t) - Len(t) = i
      BY <1>1, <2>2
    <3> QED
      BY <1>2, <2>2, <3>1 DEF At
  <2> QED
    BY <1>1, <2>1, <2>2
<1> QED
  BY <1>3, <1>4, <1>5 DEF u

\* Where the cells of a list keep their pointers, it stays what it is.
LEMMA SameRing ==
  ASSUME NEW m, NEW m2, NEW s \in Seq(Node), NEW h, Ring(m, s, h),
         \A i \in 0 .. Len(s) : /\ m2.next[At(s, h, i)] = m.next[At(s, h, i)]
                                /\ m2.prev[At(s, h, i + 1)] = m.prev[At(s, h, i + 1)]
  PROVE  Ring(m2, s, h)
BY DEF Ring

\* Putting t into a list.
LEMMA InsertRing ==
  ASSUME NEW m, NEW m2, NEW s \in Seq(Node), NEW t \in Seq(Node), Len(t) > 0,
         NEW h \in ListHead, NEW k \in 0 .. Len(s), Ring(m, s, h),
         Spliced(m, m2, At(s, h, k), t, At(s, h, k + 1)),
         \A i \in 0 .. Len(s) + 1 :
           At(s, h, i) \in Cell /\ \A j \in 1 .. Len(t) : At(s, h, i) # t[j],
         \A i \in 0 .. Len(s) : At(s, h, i) = At(s, h, k) => i = k,
         \A i \in 1 .. Len(s) + 1 : At(s, h, i) = At(s, h, k + 1) => i = k + 1
  PROVE  Ring(m2, Insert(s, k, t), h)
<1> DEFINE u == Insert(s, k, t)  a(i) == At(u, h, i)  b(i) == At(s, h, i)
<1>1. Len(s) \in Nat /\ Len(t) \in Nat /\ k \in Nat /\ k =< Len(s)
  OBVIOUS
<1>2. Len(u) = Len(s) + Len(t)
  BY InsertFacts
<1>3. /\ \A i \in 0 .. k : a(i) = b(i)
      /\ \A i \in 1 .. Len(t) : a(k + i) = t[i]
      /\ \A i \in k + 1 .. Len(s) + 1 : a(i + Len(t)) = b(i)
  <2>1. /\ \A i \in 0 .. k : At(Insert(s, k, t), h, i) = At(s, h, i)
        /\ \A i \in 1 .. Len(t) : At(Insert(s, k, t), h, k + i) = t[i]
        /\ \A i \in k + 1 .. Len(s) + 1 : At(Insert(s, k, t), h, i + Len(t)) = At(s, h, i)
    BY InsertAtCells
  <2> QED
    BY <2>1, Zenon
<1>4. \A i \in 0 .. Len(s) : m.next[b(i)] = b(i + 1) /\ m.prev[b(i + 1)] = b(i)
  BY DEF Ring
<1>5. \A i \in 0 .. Len(s) : i # k => m2.next[b(i)] = b(i + 1) /\ m2.prev[b(i + 1)] = b(i)
  <2> SUFFICES ASSUME NEW i \in 0 .. Len(s), i # k
               PROVE m2.next[b(i)] = b(i + 1) /\ m2.prev[b(i + 1)] = b(i)
    OBVIOUS
  <2>1. i + 1 \in 1 .. Len(s) + 1 /\ i + 1 # k + 1 /\ i + 1 \in 0 .. Len(s) + 1 /\ i \in 0 .. Len(s) + 1
    BY <1>1
  <2>2. b(i) # b(k) /\ b(i + 1) # b(k + 1) /\ b(i) \in Cell /\ b(i + 1) \in Cell
    BY <2>1
  <2>3. \A j \in 1 .. Len(t) : b(i) # t[j] /\ b(i + 1) # t[j]
    BY <2>1
  <2>4. m2.next[b(i)] = m.next[b(i)] /\ m2.prev[b(i + 1)] = m.prev[b(i + 1)]
    BY <2>2, <2>3 DEF Spliced
  <2> QED
    BY <1>4, <2>4
<1>6. /\ m2.next[b(k)] = t[1] /\ m2.prev[t[1]] = b(k)
      /\ m2.next[t[Len(t)]] = b(k + 1) /\ m2.prev[b(k + 1)] = t[Len(t)]
      /\ \A i \in 1 .. Len(t) - 1 : m2.next[t[i]] = t[i + 1] /\ m2.prev[t[i + 1]] = t[i]
  BY DEF Spliced
<1> HIDE DEF u, a, b
<1>7. ASSUME NEW i \in 0 .. Len(s) + Len(t) PROVE m2.next[a(i)] = a(i + 1) /\ m2.prev[a(i + 1)] = a(i)
  <2>1. CASE i < k
    <3>1. i \in 0 .. k /\ i + 1 \in 0 .. k /\ i \in 0 .. Len(s) /\ i # k
      BY <1>1, <2>1
    <3> QED
      BY <1>3, <1>5, <3>1
  <2>2. CASE i = k
    <3>1. k \in 0 .. k /\ 1 \in 1 .. Len(t)
      BY <1>1
    <3>2. a(k) = b(k) /\ a(k + 1) = t[1]
      BY <1>3, <3>1
    <3> QED
      BY <1>6, <2>2, <3>2
  <2>3. CASE i > k /\ i < k + Len(t)
    <3>1. i - k \in 1 .. Len(t) - 1 /\ i - k \in 1 .. Len(t) /\ i - k + 1 \in 1 .. Len(t)
          /\ k + (i - k) = i /\ k + (i - k + 1) = i + 1
      BY <1>1, <2>3
    <3>2. a(k + (i - k)) = t[i - k] /\ a(k + (i - k + 1)) = t[i - k + 1]
      BY <1>3, <3>1
    <3>3. m2.next[t[i - k]] = t[i - k + 1] /\ m2.prev[t[i - k + 1]] = t[i - k]
      BY <1>6, <3>1
    <3> QED
      BY <3>1, <3>2, <3>3
  <2>4. CASE i = k + Len(t)
    <3>1. Len(t) \in 1 .. Len(t) /\ k + 1 \in k + 1 .. Len(s) + 1 /\ k + 1 + Len(t) = i + 1
      BY <1>1, <2>4
    <3>2. a(k + Len(t)) = t[Len(t)] /\ a(k + 1 + Len(t)) = b(k + 1)
      BY <1>3, <3>1
    <3> QED
      BY <1>6, <2>4, <3>1, <3>2
  <2>5. CASE i > k + Len(t)
    <3> DEFINE j == i - Len(t)
    <3>1. j \in k + 1 .. Len(s) + 1 /\ j + 1 \in k + 1 .. Len(s) + 1 /\ j \in 0 .. Len(s) /\ j # k
          /\ j + Len(t) = i /\ j + 1 + Len(t) = i + 1
      BY <1>1, <2>5
    <3> HIDE DEF j
    <3>2. a(j + Len(t)) = b(j) /\ a(j + 1 + Len(t)) = b(j + 1)
      BY <1>3, <3>1
    <3>3. m2.next[b(j)] = b(j + 1) /\ m2.prev[b(j + 1)] = b(j)
      BY <1>5, <3>1
    <3> QED
      BY <3>1, <3>2, <3>3
  <2>6. i < k \/ i = k \/ (i > k /\ i < k + Len(t)) \/ i = k + Len(t) \/ i > k + Len(t)
    BY <1>1
  <2> QED
    BY <2>1, <2>2, <2>3, <2>4, <2>5, <2>6
<1> QED
  BY <1>2, <1>7 DEF Ring, a, u

\* Putting t between two neighbours of a list that is in use.
LEMMA InsertChain ==
  ASSUME NEW m, NEW m2 \in Mem, NEW ls, NEW gone, Chain(m, ls, gone),
         NEW h \in ListHead \ gone, NEW k \in 0 .. Len(ls[h]),
         NEW t \in Seq(Node), Len(t) > 0, Fresh(ls, t),
         Spliced(m, m2, At(ls[h], h, k), t, At(ls[h], h, k + 1))
  PROVE  Chain(m2, [ls EXCEPT ![h] = Insert(ls[h], k, t)], gone)
<1> DEFINE s == ls[h]  l2 == [ls EXCEPT ![h] = Insert(s, k, t)]
<1>1. /\ ls \in Lines /\ NoShare(ls) /\ h \in ListHead /\ h \notin gone
      /\ \A g \in ListHead : IF g \in gone THEN ls[g] = <<>> ELSE Ring(m, ls[g], g)
  BY DEF Chain
<1>2. l2 \in Lines /\ NoShare(l2)
  BY <1>1, InsertLines
<1>3. s \in Seq(Node) /\ Len(s) \in Nat /\ Ring(m, s, h)
  BY <1>1 DEF Lines
<1>4. ASSUME NEW g \in ListHead, NEW i \in 0 .. Len(ls[g]) + 1
      PROVE At(ls[g], g, i) \in Cell /\ \A j \in 1 .. Len(t) : At(ls[g], g, i) # t[j]
  <2>1. \A j \in 1 .. Len(t) : t[j] \in Node /\ t[j] \notin ListHead
    BY ListAssumption
  <2> QED
    BY <1>1, <2>1, CellsDiffer DEF Fresh, At
<1>5. ASSUME NEW g \in ListHead
      PROVE /\ \A i \in 0 .. Len(ls[g]) : At(ls[g], g, i) = At(s, h, k) => g = h /\ i = k
            /\ \A i \in 1 .. Len(ls[g]) + 1 : At(ls[g], g, i) = At(s, h, k + 1) => g = h /\ i = k + 1
  <2>1. k \in 0 .. Len(ls[h]) /\ k + 1 \in 1 .. Len(ls[h]) + 1
    BY <1>3
  <2> QED
    BY <1>1, <2>1, CellsDiffer
<1>6. Ring(m2, Insert(s, k, t), h)
  <2>1. \A i \in 0 .. Len(s) : At(s, h, i) = At(s, h, k) => i = k
    BY <1>5
  <2>2. \A i \in 1 .. Len(s) + 1 : At(s, h, i) = At(s, h, k + 1) => i = k + 1
    BY <1>5
  <2>3. \A i \in 0 .. Len(s) + 1 : At(s, h, i) \in Cell /\ \A j \in 1 .. Len(t) : At(s, h, i) # t[j]
    BY <1>4
  <2> QED
    BY <1>3, <2>1, <2>2, <2>3, InsertRing
<1>7. ASSUME NEW g \in ListHead, g \notin gone, g # h PROVE Ring(m2, ls[g], g)
  <2>1. Ring(m, ls[g], g) /\ ls[g] \in Seq(Node) /\ Len(ls[g]) \in Nat
    BY <1>1, <1>7 DEF Lines
  <2>2. ASSUME NEW i \in 0 .. Len(ls[g])
        PROVE /\ m2.next[At(ls[g], g, i)] = m.next[At(ls[g], g, i)]
              /\ m2.prev[At(ls[g], g, i + 1)] = m.prev[At(ls[g], g, i + 1)]
    <3>1. i \in 0 .. Len(ls[g]) + 1 /\ i + 1 \in 0 .. Len(ls[g]) + 1 /\ i + 1 \in 1 .. Len(ls[g]) + 1
      BY <2>1
    <3>2. At(ls[g], g, i) # At(s, h, k) /\ At(ls[g], g, i + 1) # At(s, h, k + 1)
      BY <1>5, <1>7, <3>1
    <3> QED
      BY <1>4, <3>1, <3>2 DEF Spliced
  <2> QED
    BY <2>1, <2>2, SameRing
<1>8. \A g \in ListHead : l2[g] = IF g = h THEN Insert(s, k, t) ELSE ls[g]
  BY <1>1 DEF Lines
<1> QED
  BY <1>1, <1>2, <1>6, <1>7, <1>8 DEF Chain

\* The cells of a list without its k-th node.
LEMMA RemoveAtCells ==
  ASSUME NEW s \in Seq(Node), NEW k \in 1 .. Len(s), NEW h \in ListHead
  PROVE  /\ \A i \in 0 .. k - 1 : At(RemoveAt(s, k), h, i) = At(s, h, i)
         /\ \A i \in k .. Len(s) : At(RemoveAt(s, k), h, i) = At(s, h, i + 1)
<1> DEFINE u == RemoveAt(s, k)
<1>1. Len(s) \in Nat /\ k \in Nat /\ k =< Len(s) /\ k >= 1
  OBVIOUS
<1>2. /\ Len(u) = Len(s) - 1
      /\ \A i \in 1 .. Len(s) - 1 : u[i] = IF i < k THEN s[i] ELSE s[i + 1]
  BY RemoveFacts
<1> HIDE DEF u
<1>3. ASSUME NEW i \in 0 .. k - 1 PROVE At(u, h, i) = At(s, h, i)
  BY <1>1, <1>2 DEF At
<1>4. ASSUME NEW i \in k .. Len(s) PROVE At(u, h, i) = At(s, h, i + 1)
  BY <1>1, <1>2 DEF At
<1> QED
  BY <1>3, <1>4 DEF u

\* Neither does removing one.
LEMMA RemoveLines ==
  ASSUME NEW ls \in Lines, NoShare(ls), NEW h \in ListHead, NEW k \in 1 .. Len(ls[h])
  PROVE  /\ [ls EXCEPT ![h] = RemoveAt(ls[h], k)] \in Lines
         /\ NoShare([ls EXCEPT ![h] = RemoveAt(ls[h], k)])
<1> DEFINE s == ls[h]  u == RemoveAt(s, k)  l2 == [ls EXCEPT ![h] = u]
<1>1. s \in Seq(Node) /\ Len(s) \in Nat /\ k \in 1 .. Len(s) /\ k \in Nat
  BY DEF Lines
<1>2. /\ u \in Seq(Node) /\ Len(u) = Len(s) - 1
      /\ \A i \in 1 .. Len(s) - 1 : u[i] = IF i < k THEN s[i] ELSE s[i + 1]
  BY <1>1, RemoveFacts
<1>3. l2 \in Lines /\ l2[h] = u /\ \A g \in ListHead : g # h => l2[g] = ls[g]
  BY <1>2 DEF Lines
<1>4. \A g \in ListHead : \A i \in 1 .. Len(ls[g]), j \in 1 .. Len(s) : ls[g][i] = s[j] => g = h /\ i = j
  BY DEF NoShare
<1> HIDE DEF s, u, l2
<1> DEFINE old(x) == IF x < k THEN x ELSE x + 1
<1>5. ASSUME NEW x \in 1 .. Len(u) PROVE old(x) \in 1 .. Len(s) /\ u[x] = s[old(x)]
  BY <1>1, <1>2
<1>6. ASSUME NEW x \in 1 .. Len(u), NEW y \in 1 .. Len(u), old(x) = old(y) PROVE x = y
  BY <1>1, <1>2, <1>6
<1> HIDE DEF old
<1>7. NoShare(l2)
  <2> SUFFICES ASSUME NEW f \in ListHead, NEW g \in ListHead,
                      NEW i \in 1 .. Len(l2[f]), NEW j \in 1 .. Len(l2[g]), l2[f][i] = l2[g][j]
               PROVE f = g /\ i = j
    BY DEF NoShare
  <2>1. CASE f = h /\ g = h
    <3>1. i \in 1 .. Len(u) /\ j \in 1 .. Len(u) /\ u[i] = u[j]
      BY <1>3, <2>1
    <3>2. old(i) = old(j)
      <4>1. old(i) \in 1 .. Len(s) /\ old(j) \in 1 .. Len(s) /\ s[old(i)] = s[old(j)]
        BY <1>5, <3>1
      <4> QED
        BY <1>4, <4>1 DEF s
    <3> QED
      BY <1>6, <2>1, <3>1, <3>2
  <2>2. CASE f = h /\ g # h
    <3>1. i \in 1 .. Len(u) /\ u[i] = ls[g][j] /\ j \in 1 .. Len(ls[g])
      BY <1>3, <2>2
    <3> QED
      BY <1>5, <1>4, <2>2, <3>1
  <2>3. CASE f # h /\ g = h
    <3>1. j \in 1 .. Len(u) /\ u[j] = ls[f][i] /\ i \in 1 .. Len(ls[f])
      BY <1>3, <2>3
    <3> QED
      BY <1>5, <1>4, <2>3, <3>1
  <2>4. CASE f # h /\ g # h
    BY <1>3, <2>4 DEF NoShare
  <2> QED
    BY <2>1, <2>2, <2>3, <2>4
<1> QED
  BY <1>3, <1>7 DEF l2, u, s

\* n has been taken out from between the cells p and q; its own pointers may be anything.
Unlinked(m, m2, n, p, q) ==
  /\ m2.next[p] = q /\ m2.prev[q] = p
  /\ \A y \in Cell : y # n =>
       (y # p => m2.next[y] = m.next[y]) /\ (y # q => m2.prev[y] = m.prev[y])

\* Taking the k-th node out of a list that is in use.
LEMMA RemoveChain ==
  ASSUME NEW m, NEW m2 \in Mem, NEW ls, NEW gone, Chain(m, ls, gone),
         NEW h \in ListHead \ gone, NEW k \in 1 .. Len(ls[h]),
         Unlinked(m, m2, ls[h][k], At(ls[h], h, k - 1), At(ls[h], h, k + 1))
  PROVE  Chain(m2, [ls EXCEPT ![h] = RemoveAt(ls[h], k)], gone)
<1> DEFINE s == ls[h]  u == RemoveAt(s, k)  l2 == [ls EXCEPT ![h] = u]
           a(i) == At(u, h, i)  b(i) == At(s, h, i)
<1>1. /\ ls \in Lines /\ NoShare(ls) /\ h \in ListHead /\ h \notin gone
      /\ \A g \in ListHead : IF g \in gone THEN ls[g] = <<>> ELSE Ring(m, ls[g], g)
  BY DEF Chain
<1>2. l2 \in Lines /\ NoShare(l2)
  BY <1>1, RemoveLines
<1>3. s \in Seq(Node) /\ Len(s) \in Nat /\ k \in Nat /\ k >= 1 /\ k =< Len(s) /\ Ring(m, s, h)
  BY <1>1 DEF Lines
<1>4. /\ s[k] = At(s, h, k) /\ k - 1 \in 0 .. Len(s) /\ k \in 0 .. Len(s)
      /\ k \in 1 .. Len(s) + 1 /\ k + 1 \in 1 .. Len(s) + 1
  BY <1>3 DEF At
<1>5. ASSUME NEW g \in ListHead, NEW i \in 0 .. Len(ls[g]), ~ (g = h /\ i \in {k - 1, k})
      PROVE m2.next[At(ls[g], g, i)] = m.next[At(ls[g], g, i)]
  <2>1. At(ls[g], g, i) # At(s, h, k - 1) /\ At(ls[g], g, i) # At(s, h, k)
    BY <1>1, <1>4, <1>5, CellsDiffer
  <2>2. At(ls[g], g, i) \in Cell
    <3>1. i \in 0 .. Len(ls[g]) + 1
      BY <1>1 DEF Lines
    <3> QED
      BY <1>1, <3>1, CellsDiffer
  <2> QED
    BY <1>4, <2>1, <2>2 DEF Unlinked
<1>6. ASSUME NEW g \in ListHead, NEW i \in 1 .. Len(ls[g]) + 1, ~ (g = h /\ i \in {k, k + 1})
      PROVE m2.prev[At(ls[g], g, i)] = m.prev[At(ls[g], g, i)]
  <2>1. At(ls[g], g, i) # At(s, h, k) /\ At(ls[g], g, i) # At(s, h, k + 1)
    BY <1>1, <1>4, <1>6, CellsDiffer
  <2>2. At(ls[g], g, i) \in Cell
    <3>1. i \in 0 .. Len(ls[g]) + 1
      BY <1>1 DEF Lines
    <3> QED
      BY <1>1, <3>1, CellsDiffer
  <2> QED
    BY <1>4, <2>1, <2>2 DEF Unlinked
<1>7. ASSUME NEW g \in ListHead, g \notin gone, g # h PROVE Ring(m2, ls[g], g)
  <2>1. Ring(m, ls[g], g) /\ ls[g] \in Seq(Node) /\ Len(ls[g]) \in Nat
    BY <1>1, <1>7 DEF Lines
  <2>2. \A i \in 0 .. Len(ls[g]) :
           /\ m2.next[At(ls[g], g, i)] = m.next[At(ls[g], g, i)]
           /\ m2.prev[At(ls[g], g, i + 1)] = m.prev[At(ls[g], g, i + 1)]
    BY <1>5, <1>6, <1>7, <2>1
  <2> QED
    BY <2>1, <2>2, SameRing
<1>8. /\ Len(u) = Len(s) - 1
      /\ \A i \in 0 .. k - 1 : a(i) = b(i)
      /\ \A i \in k .. Len(s) : a(i) = b(i + 1)
  BY <1>1, <1>3, RemoveFacts, RemoveAtCells
<1>9. \A i \in 0 .. Len(s) : m.next[b(i)] = b(i + 1) /\ m.prev[b(i + 1)] = b(i)
  BY <1>3 DEF Ring
<1>10. m2.next[b(k - 1)] = b(k + 1) /\ m2.prev[b(k + 1)] = b(k - 1)
  BY DEF Unlinked
<1>11. \A i \in 0 .. Len(s) : i \notin {k - 1, k} => m2.next[b(i)] = b(i + 1) /\ m2.prev[b(i + 1)] = b(i)
  BY <1>1, <1>3, <1>5, <1>6, <1>9
<1> HIDE DEF a, b, u, s
<1>12. ASSUME NEW i \in 0 .. Len(s) - 1 PROVE m2.next[a(i)] = a(i + 1) /\ m2.prev[a(i + 1)] = a(i)
  <2>1. CASE i < k - 1
    <3>1. i \in 0 .. k - 1 /\ i + 1 \in 0 .. k - 1 /\ i \in 0 .. Len(s) /\ i \notin {k - 1, k}
      BY <1>3, <2>1
    <3> QED
      BY <1>8, <1>11, <3>1
  <2>2. CASE i = k - 1
    <3>1. k - 1 \in 0 .. k - 1 /\ k \in k .. Len(s) /\ i + 1 = k
      BY <1>3, <2>2
    <3> QED
      BY <1>8, <1>10, <2>2, <3>1
  <2>3. CASE i > k - 1
    <3>1. i \in k .. Len(s) /\ i + 1 \in k .. Len(s) /\ i + 1 \in 0 .. Len(s) /\ i + 1 \notin {k - 1, k}
      BY <1>3, <2>3
    <3> QED
      BY <1>8, <1>11, <3>1
  <2> QED
    BY <1>3, <2>1, <2>2, <2>3
<1>13. Ring(m2, u, h)
  BY <1>8, <1>12 DEF Ring, a
<1>14. \A g \in ListHead : l2[g] = IF g = h THEN u ELSE ls[g]
  BY <1>1 DEF Lines
<1>15. Chain(m2, l2, gone)
  BY <1>1, <1>2, <1>7, <1>13, <1>14 DEF Chain
<1> QED
  BY <1>15 DEF u, s

\* The pointers of a node that is in no list do not matter.
LEMMA FreeChain ==
  ASSUME NEW m, NEW m2 \in Mem, NEW ls, NEW gone, Chain(m, ls, gone),
         NEW n \in Node, \A g \in ListHead : \A i \in 1 .. Len(ls[g]) : ls[g][i] # n,
         \A y \in Cell : y # n => m2.next[y] = m.next[y] /\ m2.prev[y] = m.prev[y]
  PROVE  Chain(m2, ls, gone)
<1>1. /\ ls \in Lines /\ NoShare(ls)
      /\ \A g \in ListHead : IF g \in gone THEN ls[g] = <<>> ELSE Ring(m, ls[g], g)
  BY DEF Chain
<1>2. ASSUME NEW g \in ListHead, g \notin gone PROVE Ring(m2, ls[g], g)
  <2>1. Ring(m, ls[g], g) /\ ls[g] \in Seq(Node) /\ Len(ls[g]) \in Nat
    BY <1>1, <1>2 DEF Lines
  <2>2. ASSUME NEW i \in 0 .. Len(ls[g]) + 1 PROVE At(ls[g], g, i) \in Cell /\ At(ls[g], g, i) # n
    BY <1>1, ListAssumption, CellsDiffer DEF At
  <2>3. \A i \in 0 .. Len(ls[g]) :
           /\ m2.next[At(ls[g], g, i)] = m.next[At(ls[g], g, i)]
           /\ m2.prev[At(ls[g], g, i + 1)] = m.prev[At(ls[g], g, i + 1)]
    BY <2>1, <2>2
  <2> QED
    BY <2>1, <2>3, SameRing
<1> QED
  BY <1>1, <1>2 DEF Chain

\* Giving up a head.
LEMMA ForgetHead ==
  ASSUME NEW m, NEW ls, NEW gone, Chain(m, ls, gone), NEW g \in ListHead
  PROVE  Chain(m, [ls EXCEPT ![g] = <<>>], gone \cup {g})
<1> DEFINE l2 == [ls EXCEPT ![g] = <<>>]
<1>1. ls \in Lines /\ NoShare(ls)
  BY DEF Chain
<1>2. l2 \in Lines /\ l2[g] = <<>> /\ \A h \in ListHead : h # g => l2[h] = ls[h]
  BY <1>1 DEF Lines
<1> HIDE DEF l2
<1>3. NoShare(l2)
  BY <1>1, <1>2 DEF NoShare
<1>4. Chain(m, l2, gone \cup {g})
  BY <1>2, <1>3 DEF Chain
<1> QED
  BY <1>4 DEF l2

\* INIT_LIST_HEAD on a head that was given up, or on an empty list.
LEMMA InitHead ==
  ASSUME NEW m, NEW ls, NEW gone, Chain(m, ls, gone), NEW g \in ListHead, ls[g] = <<>>
  PROVE  Chain(INIT_LIST_HEAD(m, g), ls, gone \ {g})
<1> DEFINE m2 == INIT_LIST_HEAD(m, g)
<1>1. /\ m \in Mem /\ ls \in Lines /\ NoShare(ls) /\ g \in Cell
      /\ \A h \in ListHead : IF h \in gone THEN ls[h] = <<>> ELSE Ring(m, ls[h], h)
  BY DEF Chain, Cell
<1>2. /\ m2 \in Mem /\ m2.next[g] = g /\ m2.prev[g] = g
      /\ \A y \in Cell : y # g => m2.next[y] = m.next[y] /\ m2.prev[y] = m.prev[y]
  BY <1>1 DEF INIT_LIST_HEAD, Mem, Ptr
<1> HIDE DEF m2
<1>3. Ring(m2, ls[g], g)
  BY <1>2 DEF Ring, At
<1>4. ASSUME NEW h \in ListHead, h \notin gone, h # g PROVE Ring(m2, ls[h], h)
  <2>1. Ring(m, ls[h], h) /\ ls[h] \in Seq(Node) /\ Len(ls[h]) \in Nat
    BY <1>1, <1>4 DEF Lines
  <2>2. ASSUME NEW i \in 0 .. Len(ls[h]) + 1 PROVE At(ls[h], h, i) \in Cell /\ At(ls[h], h, i) # g
    BY <1>1, <1>4, <2>1, ListAssumption DEF At, Cell
  <2>3. \A i \in 0 .. Len(ls[h]) :
           /\ m2.next[At(ls[h], h, i)] = m.next[At(ls[h], h, i)]
           /\ m2.prev[At(ls[h], h, i + 1)] = m.prev[At(ls[h], h, i + 1)]
    BY <1>2, <2>1, <2>2
  <2> QED
    BY <2>1, <2>3, SameRing
<1>5. Chain(m2, ls, gone \ {g})
  BY <1>1, <1>2, <1>3, <1>4 DEF Chain
<1> QED
  BY <1>5 DEF m2

-----------------------------------------------------------------------------
(* Places in the sequences.                                                 *)

\* Linked, by position.
LEMMA LinkedIs ==
  ASSUME NEW ls \in Lines, NEW n
  PROVE  n \in Linked(ls) <=> \E g \in ListHead : \E i \in 1 .. Len(ls[g]) : ls[g][i] = n
<1>1. \A g \in ListHead : DOMAIN ls[g] = 1 .. Len(ls[g])
  BY DEF Lines
<1> QED
  BY <1>1 DEF Linked, ToSet

\* HeadOf and Rank find the one place where a node is.
LEMMA RankIs ==
  ASSUME NEW ls \in Lines, NoShare(ls), NEW g \in ListHead, NEW i \in 1 .. Len(ls[g])
  PROVE  HeadOf(ls, ls[g][i]) = g /\ Rank(ls, ls[g][i]) = i
<1> DEFINE n == ls[g][i]
<1>1. \A h \in ListHead : ls[h] \in Seq(Node) /\ DOMAIN ls[h] = 1 .. Len(ls[h])
  BY DEF Lines
<1>2. n \in Node /\ n \notin ListHead
  BY <1>1, ListAssumption
<1>3. \A h \in ListHead : n \in ToSet(ls[h]) <=> h = g
  BY <1>1 DEF NoShare, ToSet
<1>4. \A j \in DOMAIN ls[g] : ls[g][j] = n <=> j = i
  BY <1>1 DEF NoShare
<1> HIDE DEF n
<1>5. HeadOf(ls, n) = g
  BY <1>2, <1>3 DEF HeadOf
<1>6. i \in DOMAIN ls[g] /\ ls[g][i] = n
  BY <1>1 DEF n
<1>7. (CHOOSE j \in DOMAIN ls[g] : ls[g][j] = n) = i
  BY <1>4, <1>6
<1>8. Rank(ls, n) = CHOOSE j \in DOMAIN ls[g] : ls[g][j] = n
  BY <1>2, <1>5 DEF Rank
<1> QED
  BY <1>5, <1>7, <1>8 DEF n

\* A place is the cell at its rank in the list of its head.
LEMMA PlaceIs ==
  ASSUME NEW ls \in Lines, NoShare(ls), NEW x, x \in ListHead \/ x \in Linked(ls)
  PROVE  /\ HeadOf(ls, x) \in ListHead
         /\ Rank(ls, x) \in 0 .. Len(ls[HeadOf(ls, x)])
         /\ At(ls[HeadOf(ls, x)], HeadOf(ls, x), Rank(ls, x)) = x
         /\ x \in ListHead => HeadOf(ls, x) = x /\ Rank(ls, x) = 0
         /\ x \in Linked(ls) => /\ Rank(ls, x) \in 1 .. Len(ls[HeadOf(ls, x)])
                                /\ ls[HeadOf(ls, x)][Rank(ls, x)] = x
                                /\ x \in Node /\ x \notin ListHead
<1>1. CASE x \in Linked(ls)
  <2>1. PICK g \in ListHead : \E i \in 1 .. Len(ls[g]) : ls[g][i] = x
    BY <1>1, LinkedIs
  <2>2. PICK i \in 1 .. Len(ls[g]) : ls[g][i] = x
    BY <2>1
  <2>3. HeadOf(ls, x) = g /\ Rank(ls, x) = i
    BY <2>2, RankIs
  <2>4. ls[g] \in Seq(Node) /\ x \in Node /\ x \notin ListHead
    BY <2>2, ListAssumption DEF Lines
  <2> QED
    BY <2>2, <2>3, <2>4 DEF At
<1>2. CASE x \in ListHead
  <2>1. HeadOf(ls, x) = x /\ Rank(ls, x) = 0
    BY <1>2 DEF HeadOf, Rank
  <2>2. x \notin Linked(ls)
    BY <1>2, LinkedIs, ListAssumption DEF Lines
  <2> QED
    BY <1>2, <2>1, <2>2 DEF At, Lines
<1> QED
  BY <1>1, <1>2

\* Which nodes are in a list afterwards.
LEMMA InsertLinked ==
  ASSUME NEW ls \in Lines, NEW h \in ListHead, NEW k \in 0 .. Len(ls[h]), NEW t \in Seq(Node), NEW n
  PROVE  n \in Linked([ls EXCEPT ![h] = Insert(ls[h], k, t)])
           <=> n \in Linked(ls) \/ \E i \in 1 .. Len(t) : t[i] = n
<1> DEFINE s == ls[h]  u == Insert(s, k, t)  l2 == [ls EXCEPT ![h] = u]
<1>1. s \in Seq(Node) /\ Len(s) \in Nat /\ Len(t) \in Nat /\ k \in Nat /\ k =< Len(s)
  BY DEF Lines
<1>2. /\ u \in Seq(Node) /\ Len(u) = Len(s) + Len(t)
      /\ \A i \in 1 .. Len(s) + Len(t) :
           u[i] = IF i =< k THEN s[i] ELSE IF i =< k + Len(t) THEN t[i - k] ELSE s[i - Len(t)]
  BY <1>1, InsertFacts
<1>3. l2 \in Lines /\ l2[h] = u /\ \A g \in ListHead : g # h => l2[g] = ls[g]
  BY <1>2 DEF Lines
<1> HIDE DEF s, u, l2
<1>4. ASSUME NEW i \in 1 .. Len(u)
      PROVE (\E j \in 1 .. Len(s) : s[j] = u[i]) \/ (\E j \in 1 .. Len(t) : t[j] = u[i])
  <2>1. CASE i =< k
    <3>1. i \in 1 .. Len(s) /\ s[i] = u[i]
      BY <1>1, <1>2, <2>1
    <3> QED
      BY <3>1
  <2>2. CASE i > k /\ i =< k + Len(t)
    <3>1. i - k \in 1 .. Len(t) /\ t[i - k] = u[i]
      BY <1>1, <1>2, <2>2
    <3> QED
      BY <3>1
  <2>3. CASE i > k + Len(t)
    <3>1. i - Len(t) \in 1 .. Len(s) /\ s[i - Len(t)] = u[i]
      BY <1>1, <1>2, <2>3
    <3> QED
      BY <3>1
  <2> QED
    BY <1>1, <1>2, <2>1, <2>2, <2>3
<1>5. ASSUME NEW j \in 1 .. Len(s) PROVE \E i \in 1 .. Len(u) : u[i] = s[j]
  <2>1. CASE j =< k
    <3>1. j \in 1 .. Len(u) /\ u[j] = s[j]
      BY <1>1, <1>2, <2>1
    <3> QED
      BY <3>1
  <2>2. CASE j > k
    <3> DEFINE i == j + Len(t)
    <3>1. /\ i \in 1 .. Len(s) + Len(t) /\ i \in 1 .. Len(u) /\ i - Len(t) = j
          /\ ~ (i =< k) /\ ~ (i =< k + Len(t))
      BY <1>1, <1>2, <2>2
    <3> HIDE DEF i
    <3>2. u[i] = s[j]
      BY <1>2, <3>1
    <3> QED
      BY <3>1, <3>2
  <2> QED
    BY <1>1, <2>1, <2>2
<1>6. ASSUME NEW j \in 1 .. Len(t) PROVE \E i \in 1 .. Len(u) : u[i] = t[j]
  <2>1. k + j \in 1 .. Len(u) /\ k + j - k = j /\ ~ (k + j =< k) /\ k + j =< k + Len(t)
    BY <1>1, <1>2
  <2>2. u[k + j] = t[j]
    BY <1>2, <2>1
  <2> QED
    BY <2>1, <2>2
<1>7. n \in Linked(l2) <=> n \in Linked(ls) \/ \E i \in 1 .. Len(t) : t[i] = n
  <2>1. ASSUME n \in Linked(l2) PROVE n \in Linked(ls) \/ \E i \in 1 .. Len(t) : t[i] = n
    <3>1. PICK g \in ListHead : \E i \in 1 .. Len(l2[g]) : l2[g][i] = n
      BY <1>3, <2>1, LinkedIs
    <3>2. CASE g = h
      <4>1. PICK i \in 1 .. Len(u) : u[i] = n
        BY <1>3, <3>1, <3>2
      <4>2. (\E j \in 1 .. Len(ls[h]) : ls[h][j] = n) \/ (\E j \in 1 .. Len(t) : t[j] = n)
        BY <1>4, <4>1 DEF s
      <4> QED
        BY <4>2, LinkedIs
    <3>3. CASE g # h
      BY <1>3, <3>1, <3>3, LinkedIs
    <3> QED
      BY <3>2, <3>3
  <2>2. ASSUME n \in Linked(ls) PROVE n \in Linked(l2)
    <3>1. PICK g \in ListHead : \E i \in 1 .. Len(ls[g]) : ls[g][i] = n
      BY <2>2, LinkedIs
    <3>2. \E i \in 1 .. Len(l2[g]) : l2[g][i] = n
      BY <1>3, <1>5, <3>1 DEF s
    <3> QED
      BY <1>3, <3>2, LinkedIs
  <2>3. ASSUME NEW j \in 1 .. Len(t), t[j] = n PROVE n \in Linked(l2)
    <3>1. \E i \in 1 .. Len(l2[h]) : l2[h][i] = n
      BY <1>3, <1>6, <2>3
    <3> QED
      BY <1>3, <3>1, LinkedIs
  <2> QED
    BY <2>1, <2>2, <2>3
<1> QED
  BY <1>7 DEF l2, u, s

\* Removing takes out that node and no other.
LEMMA RemoveLinked ==
  ASSUME NEW ls \in Lines, NoShare(ls), NEW h \in ListHead, NEW k \in 1 .. Len(ls[h]), NEW n
  PROVE  n \in Linked([ls EXCEPT ![h] = RemoveAt(ls[h], k)]) <=> n \in Linked(ls) /\ n # ls[h][k]
<1> DEFINE s == ls[h]  u == RemoveAt(s, k)  l2 == [ls EXCEPT ![h] = u]
<1>1. s \in Seq(Node) /\ Len(s) \in Nat /\ k \in 1 .. Len(s) /\ k \in Nat
  BY DEF Lines
<1>2. /\ u \in Seq(Node) /\ Len(u) = Len(s) - 1
      /\ \A i \in 1 .. Len(s) - 1 : u[i] = IF i < k THEN s[i] ELSE s[i + 1]
  BY <1>1, RemoveFacts
<1>3. l2 \in Lines /\ l2[h] = u /\ \A g \in ListHead : g # h => l2[g] = ls[g]
  BY <1>2 DEF Lines
<1>4. \A g \in ListHead : \A i \in 1 .. Len(ls[g]) : ls[g][i] = s[k] => g = h /\ i = k
  BY DEF NoShare
<1> HIDE DEF s, u, l2
<1>5. ASSUME NEW i \in 1 .. Len(u) PROVE \E j \in 1 .. Len(s) : j # k /\ s[j] = u[i]
  <2>1. CASE i < k
    <3>1. i \in 1 .. Len(s) /\ s[i] = u[i]
      BY <1>1, <1>2, <2>1
    <3> QED
      BY <2>1, <3>1, <1>1
  <2>2. CASE ~ (i < k)
    <3>1. i + 1 \in 1 .. Len(s) /\ i + 1 # k /\ s[i + 1] = u[i]
      BY <1>1, <1>2, <2>2
    <3> QED
      BY <3>1
  <2> QED
    BY <2>1, <2>2
<1>6. ASSUME NEW j \in 1 .. Len(s), j # k PROVE \E i \in 1 .. Len(u) : u[i] = s[j]
  <2>1. CASE j < k
    <3>1. j \in 1 .. Len(u) /\ u[j] = s[j]
      BY <1>1, <1>2, <2>1
    <3> QED
      BY <3>1
  <2>2. CASE j > k
    <3>1. j - 1 \in 1 .. Len(u) /\ ~ (j - 1 < k) /\ j - 1 + 1 = j
      BY <1>1, <1>2, <2>2
    <3>2. u[j - 1] = s[j]
      BY <1>2, <3>1
    <3> QED
      BY <3>1, <3>2
  <2> QED
    BY <1>1, <1>6, <2>1, <2>2
<1>7. n \in Linked(l2) <=> n \in Linked(ls) /\ n # s[k]
  <2>1. ASSUME n \in Linked(l2) PROVE n \in Linked(ls) /\ n # s[k]
    <3>1. PICK g \in ListHead : \E i \in 1 .. Len(l2[g]) : l2[g][i] = n
      BY <1>3, <2>1, LinkedIs
    <3>2. CASE g = h
      <4>1. PICK i \in 1 .. Len(u) : u[i] = n
        BY <1>3, <3>1, <3>2
      <4>2. PICK j \in 1 .. Len(s) : j # k /\ s[j] = n
        BY <1>5, <4>1
      <4>3. n # s[k]
        BY <1>4, <4>2 DEF s
      <4> QED
        BY <4>2, <4>3, LinkedIs DEF s
    <3>3. CASE g # h
      BY <1>3, <1>4, <3>1, <3>3, LinkedIs
    <3> QED
      BY <3>2, <3>3
  <2>2. ASSUME n \in Linked(ls), n # s[k] PROVE n \in Linked(l2)
    <3>1. PICK g \in ListHead : \E i \in 1 .. Len(ls[g]) : ls[g][i] = n
      BY <2>2, LinkedIs
    <3>2. \E i \in 1 .. Len(l2[g]) : l2[g][i] = n
      BY <1>3, <1>6, <2>2, <3>1 DEF s
    <3> QED
      BY <1>3, <3>2, LinkedIs
  <2> QED
    BY <2>1, <2>2
<1> QED
  BY <1>7 DEF l2, u, s

-----------------------------------------------------------------------------
(* The operations of list.h on memories that stand for sequences.           *)

\* A node in no list that points to itself was initialised.
FreeOK(m, ls) == \A n \in Node \ Linked(ls) : m.next[n] = n => m.prev[n] = n

Rep(m, ls, gone) == Chain(m, ls, gone) /\ FreeOK(m, ls)

\* x is a place in the lists ls of which those of the heads gone are not in use.
In(ls, gone, x) == x \in ListHead \ gone \/ x \in Linked(ls)

\* A place has its neighbours.
LEMMA PlaceCells ==
  ASSUME NEW m, NEW ls, NEW gone, Chain(m, ls, gone), NEW x, In(ls, gone, x)
  PROVE  \E h \in ListHead \ gone : \E k \in 0 .. Len(ls[h]) :
           /\ h = HeadOf(ls, x) /\ k = Rank(ls, x)
           /\ At(ls[h], h, k) = x /\ x \in Cell /\ m.next[x] = At(ls[h], h, k + 1)
           /\ x \in Linked(ls) => k \in 1 .. Len(ls[h]) /\ m.prev[x] = At(ls[h], h, k - 1)
           /\ x \in ListHead => h = x /\ k = 0 /\ m.prev[x] = At(ls[h], h, Len(ls[h]))
<1> DEFINE h == HeadOf(ls, x)  k == Rank(ls, x)  s == ls[h]
<1>1. /\ ls \in Lines /\ NoShare(ls)
      /\ \A g \in ListHead : IF g \in gone THEN ls[g] = <<>> ELSE Ring(m, ls[g], g)
  BY DEF Chain
<1>2. /\ h \in ListHead /\ k \in 0 .. Len(s) /\ At(s, h, k) = x
      /\ x \in ListHead => h = x /\ k = 0
      /\ x \in Linked(ls) => k \in 1 .. Len(s) /\ x \in Node /\ x \notin ListHead
  BY <1>1, PlaceIs DEF In
<1> HIDE DEF h, k
<1>3. s \in Seq(Node) /\ Len(s) \in Nat
  BY <1>1, <1>2 DEF Lines
<1>4. h \notin gone
  <2>1. CASE x \in Linked(ls)
    <3>1. ls[h] # <<>>
      BY <1>2, <2>1
    <3> QED
      BY <1>1, <1>2, <3>1
  <2>2. CASE x \notin Linked(ls)
    BY <1>2, <2>2 DEF In
  <2> QED
    BY <2>1, <2>2
<1>5. Ring(m, s, h)
  BY <1>1, <1>2, <1>4
<1>6. \A i \in 0 .. Len(s) : m.next[At(s, h, i)] = At(s, h, i + 1) /\ m.prev[At(s, h, i + 1)] = At(s, h, i)
  BY <1>5 DEF Ring
<1> HIDE DEF s
<1>7. m.next[x] = At(s, h, k + 1)
  BY <1>2, <1>6
<1>8. ASSUME x \in Linked(ls) PROVE m.prev[x] = At(s, h, k - 1)
  <2>1. k - 1 \in 0 .. Len(s) /\ k - 1 + 1 = k
    BY <1>2, <1>3, <1>8
  <2> QED
    BY <1>2, <1>6, <2>1
<1>9. ASSUME x \in ListHead PROVE m.prev[x] = At(s, h, Len(s))
  <2>1. Len(s) \in 0 .. Len(s) /\ At(s, h, Len(s) + 1) = h
    BY <1>3 DEF At
  <2> QED
    BY <1>2, <1>6, <1>9, <2>1
<1>10. x \in Cell
  BY <1>2 DEF In, Cell
<1> QED
  BY <1>2, <1>4, <1>7, <1>8, <1>9, <1>10 DEF h, k, s

\* The cells of a list are its head and linked nodes.
LEMMA CellIs ==
  ASSUME NEW ls \in Lines, NEW h \in ListHead, NEW i
  PROVE  LET c == At(ls[h], h, i)
         IN  c \in Cell /\ (c = h \/ (c \in Linked(ls) /\ c \in Node))
<1>1. CASE i \in 1 .. Len(ls[h])
  <2>1. At(ls[h], h, i) = ls[h][i] /\ ls[h][i] \in Node
    BY <1>1 DEF At, Lines
  <2>2. ls[h][i] \in Linked(ls)
    BY <1>1, LinkedIs
  <2> QED
    BY <2>1, <2>2 DEF Cell
<1>2. CASE i \notin 1 .. Len(ls[h])
  BY <1>2 DEF At, Cell
<1> QED
  BY <1>1, <1>2

\* A node between two neighbours.
LEMMA AddBetween ==
  ASSUME NEW m, NEW ls, NEW gone, Rep(m, ls, gone), NEW n \in Node, n \notin Linked(ls),
         NEW h \in ListHead \ gone, NEW k \in 0 .. Len(ls[h])
  PROVE  Rep(__list_add(m, n, At(ls[h], h, k), At(ls[h], h, k + 1)),
             [ls EXCEPT ![h] = Insert(ls[h], k, <<n>>)], gone)
<1> DEFINE p == At(ls[h], h, k)  q == At(ls[h], h, k + 1)
           m2 == __list_add(m, n, p, q)
           t == <<n>>
           l2 == [ls EXCEPT ![h] = Insert(ls[h], k, t)]
<1>1. m \in Mem /\ ls \in Lines /\ NoShare(ls) /\ h \in ListHead /\ Len(ls[h]) \in Nat
  BY DEF Rep, Chain, Lines
<1>2. n \in Cell /\ \A g \in ListHead : \A i \in 1 .. Len(ls[g]) : ls[g][i] # n
  BY <1>1, LinkedIs DEF Cell
<1>3. p \in Cell /\ q \in Cell /\ p # n /\ q # n /\ (p \in ListHead \/ p \in Linked(ls))
      /\ (q \in ListHead \/ q \in Linked(ls))
  BY <1>1, CellIs, ListAssumption
<1> HIDE DEF p, q
<1>4. /\ m2 \in Mem
      /\ \A y \in Cell : /\ m2.next[y] = IF y = p THEN n ELSE IF y = n THEN q ELSE m.next[y]
                         /\ m2.prev[y] = IF y = n THEN p ELSE IF y = q THEN n ELSE m.prev[y]
  BY <1>1, <1>2, <1>3 DEF __list_add, Mem, Ptr
<1>5. t \in Seq(Node) /\ Len(t) = 1 /\ t[1] = n /\ \A i \in 1 .. Len(t) : i = 1 /\ t[i] = n
  OBVIOUS
<1> HIDE DEF m2, t
<1>6. Fresh(ls, t)
  BY <1>2, <1>5 DEF Fresh
<1>7. Spliced(m, m2, p, t, q)
  BY <1>2, <1>3, <1>4, <1>5 DEF Spliced
<1>8. Chain(m2, l2, gone)
  <2>1. Chain(m, ls, gone) /\ Len(t) > 0
    BY <1>5 DEF Rep
  <2>2. Spliced(m, m2, At(ls[h], h, k), t, At(ls[h], h, k + 1))
    BY <1>7 DEF p, q
  <2> QED
    BY <1>4, <1>5, <1>6, <2>1, <2>2, InsertChain
<1>9. FreeOK(m2, l2)
  <2> SUFFICES ASSUME NEW y \in Node, y \notin Linked(l2), m2.next[y] = y PROVE m2.prev[y] = y
    BY DEF FreeOK
  <2>1. y \notin Linked(ls) /\ y # n
    BY <1>1, <1>5, InsertLinked
  <2>2. y # p /\ y # q /\ y \in Cell
    BY <1>3, <2>1, ListAssumption DEF Cell
  <2> QED
    BY <1>4, <2>1, <2>2 DEF Rep, FreeOK
<1> QED
  BY <1>8, <1>9 DEF Rep, m2, p, q, t

\* list_add and list_add_tail.
LEMMA AddOp ==
  ASSUME NEW m, NEW ls, NEW gone, Rep(m, ls, gone), NEW n \in Node, n \notin Linked(ls),
         NEW x, In(ls, gone, x)
  PROVE  /\ Rep(list_add(m, n, x), After(ls, <<n>>, x), gone)
         /\ Rep(list_add_tail(m, n, x), Before(ls, <<n>>, x), gone)
<1>1. ls \in Lines /\ NoShare(ls) /\ Chain(m, ls, gone)
  BY DEF Rep, Chain
<1>2. PICK h \in ListHead \ gone : \E k \in 0 .. Len(ls[h]) :
           /\ h = HeadOf(ls, x) /\ k = Rank(ls, x)
           /\ At(ls[h], h, k) = x /\ x \in Cell /\ m.next[x] = At(ls[h], h, k + 1)
           /\ x \in Linked(ls) => k \in 1 .. Len(ls[h]) /\ m.prev[x] = At(ls[h], h, k - 1)
           /\ x \in ListHead => h = x /\ k = 0 /\ m.prev[x] = At(ls[h], h, Len(ls[h]))
  BY <1>1, PlaceCells
<1>3. PICK k \in 0 .. Len(ls[h]) :
           /\ h = HeadOf(ls, x) /\ k = Rank(ls, x)
           /\ At(ls[h], h, k) = x /\ x \in Cell /\ m.next[x] = At(ls[h], h, k + 1)
           /\ x \in Linked(ls) => k \in 1 .. Len(ls[h]) /\ m.prev[x] = At(ls[h], h, k - 1)
           /\ x \in ListHead => h = x /\ k = 0 /\ m.prev[x] = At(ls[h], h, Len(ls[h]))
  BY <1>2
<1>4. ls[h] \in Seq(Node) /\ Len(ls[h]) \in Nat /\ h \in ListHead
  BY <1>1 DEF Lines
<1>5. Rep(list_add(m, n, x), After(ls, <<n>>, x), gone)
  <2>1. After(ls, <<n>>, x) = [ls EXCEPT ![h] = Insert(ls[h], k, <<n>>)]
    BY <1>3 DEF After, Insert
  <2>2. list_add(m, n, x) = __list_add(m, n, At(ls[h], h, k), At(ls[h], h, k + 1))
    BY <1>3 DEF list_add
  <2> QED
    BY <2>1, <2>2, AddBetween
<1>6. CASE x \in ListHead
  <2>1. Before(ls, <<n>>, x) = [ls EXCEPT ![h] = Insert(ls[h], Len(ls[h]), <<n>>)]
    <3>1. SubSeq(ls[h], 1, Len(ls[h])) = ls[h] /\ SubSeq(ls[h], Len(ls[h]) + 1, Len(ls[h])) = <<>>
      BY <1>4
    <3>2. <<n>> \in Seq(Node) /\ ls[h] \o <<n>> \in Seq(Node)
      BY <1>4
    <3>3. (ls[h] \o <<n>>) \o <<>> = ls[h] \o <<n>>
      BY <3>2
    <3>4. Insert(ls[h], Len(ls[h]), <<n>>) = ls[h] \o <<n>>
      BY <3>1, <3>3 DEF Insert
    <3> QED
      BY <1>3, <1>6, <3>4 DEF Before
  <2> DEFINE j == Len(ls[h])
  <2>2. At(ls[h], h, j + 1) = h
    BY <1>4 DEF At
  <2>3. list_add_tail(m, n, x) = __list_add(m, n, At(ls[h], h, j), At(ls[h], h, j + 1))
    BY <1>3, <1>6, <2>2 DEF list_add_tail
  <2>4. j \in 0 .. Len(ls[h]) /\ Before(ls, <<n>>, x) = [ls EXCEPT ![h] = Insert(ls[h], j, <<n>>)]
    BY <1>4, <2>1
  <2> HIDE DEF j
  <2>5. Rep(list_add_tail(m, n, x), Before(ls, <<n>>, x), gone)
    BY <2>3, <2>4, AddBetween
  <2> QED
    BY <1>5, <2>5
<1>7. CASE x \in Linked(ls)
  <2>1. x \notin ListHead
    BY <1>1, <1>7, PlaceIs
  <2>2. k \in 1 .. Len(ls[h]) /\ m.prev[x] = At(ls[h], h, k - 1)
    BY <1>3, <1>7
  <2> DEFINE j == k - 1
  <2>3. j \in 0 .. Len(ls[h]) /\ j + 1 = k
    BY <1>4, <2>2
  <2>4. Before(ls, <<n>>, x) = [ls EXCEPT ![h] = Insert(ls[h], j, <<n>>)]
    BY <1>3, <2>1, <2>3 DEF Before, Insert
  <2>5. list_add_tail(m, n, x) = __list_add(m, n, At(ls[h], h, j), At(ls[h], h, j + 1))
    BY <1>3, <2>2, <2>3 DEF list_add_tail
  <2> HIDE DEF j
  <2>6. Rep(list_add_tail(m, n, x), Before(ls, <<n>>, x), gone)
    BY <2>3, <2>4, <2>5, AddBetween
  <2> QED
    BY <1>5, <2>6
<1> QED
  BY <1>6, <1>7 DEF In

\* Taking a linked node out; its own pointers are poisoned, initialised or kept.
LEMMA DelBetween ==
  ASSUME NEW m, NEW ls, NEW gone, Rep(m, ls, gone),
         NEW h \in ListHead \ gone, NEW k \in 1 .. Len(ls[h]), NEW m2 \in Mem,
         m2.next[ls[h][k]] = ls[h][k] => m2.prev[ls[h][k]] = ls[h][k],
         \A y \in Cell : y # ls[h][k] =>
           /\ m2.next[y] = IF y = At(ls[h], h, k - 1) THEN At(ls[h], h, k + 1) ELSE m.next[y]
           /\ m2.prev[y] = IF y = At(ls[h], h, k + 1) THEN At(ls[h], h, k - 1) ELSE m.prev[y]
  PROVE  Rep(m2, [ls EXCEPT ![h] = RemoveAt(ls[h], k)], gone)
<1> DEFINE n == ls[h][k]  p == At(ls[h], h, k - 1)  q == At(ls[h], h, k + 1)
           l2 == [ls EXCEPT ![h] = RemoveAt(ls[h], k)]
<1>1. m \in Mem /\ ls \in Lines /\ NoShare(ls) /\ h \in ListHead /\ Len(ls[h]) \in Nat /\ k \in Nat
      /\ Chain(m, ls, gone) /\ FreeOK(m, ls)
  BY DEF Rep, Chain, Lines
<1>2. p \in Cell /\ q \in Cell /\ (p = h \/ p \in Linked(ls)) /\ (q = h \/ q \in Linked(ls))
  BY <1>1, CellIs
<1>3. p # n /\ q # n
  <2>1. n = At(ls[h], h, k) /\ k - 1 \in 0 .. Len(ls[h]) /\ k \in 0 .. Len(ls[h])
        /\ k \in 1 .. Len(ls[h]) + 1 /\ k + 1 \in 1 .. Len(ls[h]) + 1 /\ k - 1 # k /\ k + 1 # k
    BY <1>1 DEF At
  <2> QED
    BY <1>1, <2>1, CellsDiffer
<1>4. Unlinked(m, m2, n, p, q)
  BY <1>2, <1>3 DEF Unlinked
<1>5. Chain(m2, l2, gone)
  BY <1>1, <1>4, RemoveChain
<1>6. FreeOK(m2, l2)
  <2> SUFFICES ASSUME NEW y \in Node, y \notin Linked(l2), m2.next[y] = y, y # n PROVE m2.prev[y] = y
    BY DEF FreeOK
  <2>1. y \notin Linked(ls)
    BY <1>1, RemoveLinked
  <2>2. y # p /\ y # q /\ y \in Cell
    BY <1>1, <1>2, <2>1, ListAssumption DEF Cell
  <2> QED
    BY <1>1, <2>1, <2>2 DEF FreeOK
<1> QED
  BY <1>5, <1>6 DEF Rep

\* What list_del and its variants do with the neighbours of n.
LEMMA DelOp ==
  ASSUME NEW m, NEW ls, NEW gone, Rep(m, ls, gone), NEW n,
         n \in Linked(ls) \/ (n \in Node /\ m.next[n] = n)
  PROVE  /\ Rep(__list_del(m, m.prev[n], m.next[n]), Without(ls, n), gone)
         /\ Rep(list_del(m, n), Without(ls, n), gone)
         /\ Rep(list_del_init(m, n), Without(ls, n), gone)
         /\ n \in Node /\ n \notin Linked(Without(ls, n))
         /\ \A x : In(ls, gone, x) /\ x # n => In(Without(ls, n), gone, x)
<1> DEFINE l2 == Without(ls, n)
           a == __list_del(m, m.prev[n], m.next[n])
           b == list_del(m, n)
           c == list_del_init(m, n)
<1>1. m \in Mem /\ ls \in Lines /\ NoShare(ls) /\ Chain(m, ls, gone) /\ FreeOK(m, ls)
  BY DEF Rep, Chain
<1>2. CASE n \in Linked(ls)
  <2>1. PICK h \in ListHead \ gone : \E k \in 0 .. Len(ls[h]) :
             /\ h = HeadOf(ls, n) /\ k = Rank(ls, n) /\ At(ls[h], h, k) = n /\ n \in Cell
             /\ m.next[n] = At(ls[h], h, k + 1)
             /\ k \in 1 .. Len(ls[h]) /\ m.prev[n] = At(ls[h], h, k - 1)
    BY <1>1, <1>2, PlaceCells DEF In
  <2>2. PICK k \in 1 .. Len(ls[h]) :
             /\ h = HeadOf(ls, n) /\ k = Rank(ls, n) /\ At(ls[h], h, k) = n /\ n \in Cell
             /\ m.next[n] = At(ls[h], h, k + 1) /\ m.prev[n] = At(ls[h], h, k - 1)
    BY <2>1
  <2> DEFINE p == At(ls[h], h, k - 1)  q == At(ls[h], h, k + 1)
  <2>3. n = ls[h][k] /\ n \in Node /\ h \in ListHead /\ Len(ls[h]) \in Nat /\ k \in Nat
    BY <1>1, <2>2 DEF At, Lines
  <2>4. p \in Cell /\ q \in Cell
    BY <1>1, CellIs
  <2>5. p # n /\ q # n
    <3>1. k - 1 \in 0 .. Len(ls[h]) /\ k \in 0 .. Len(ls[h])
          /\ k \in 1 .. Len(ls[h]) + 1 /\ k + 1 \in 1 .. Len(ls[h]) + 1 /\ k - 1 # k /\ k + 1 # k
      BY <2>3
    <3> QED
      BY <1>1, <2>2, <3>1, CellsDiffer
  <2>6. l2 = [ls EXCEPT ![h] = RemoveAt(ls[h], k)]
    BY <1>2, <2>2 DEF Without
  <2>7. m.next[n] = q /\ m.prev[n] = p
    BY <2>2
  <2> HIDE DEF p, q
  <2>8. LIST_POISON1 # n /\ n \in Cell
    BY <2>2, <2>3, ListAssumption
  <2>9. /\ a \in Mem /\ a.next[n] # n
        /\ \A y \in Cell : /\ a.next[y] = IF y = p THEN q ELSE m.next[y]
                           /\ a.prev[y] = IF y = q THEN p ELSE m.prev[y]
    BY <1>1, <2>4, <2>5, <2>7, <2>8 DEF __list_del, Mem, Ptr
  <2>10. b = [a EXCEPT !.next[n] = LIST_POISON1, !.prev[n] = LIST_POISON2]
         /\ c = [a EXCEPT !.next[n] = n, !.prev[n] = n]
    BY DEF list_del, list_del_init, INIT_LIST_HEAD
  <2> HIDE DEF a, b, c
  <2>11. /\ b \in Mem /\ b.next[n] # n
         /\ \A y \in Cell : y # n => b.next[y] = a.next[y] /\ b.prev[y] = a.prev[y]
    BY <2>8, <2>9, <2>10 DEF Mem, Ptr
  <2>12. /\ c \in Mem /\ c.prev[n] = n
         /\ \A y \in Cell : y # n => c.next[y] = a.next[y] /\ c.prev[y] = a.prev[y]
    BY <2>8, <2>9, <2>10 DEF Mem, Ptr
  <2>13. Rep(a, l2, gone)
    BY <2>3, <2>6, <2>9, DelBetween DEF p, q
  <2>14. Rep(b, l2, gone)
    BY <2>3, <2>6, <2>9, <2>11, DelBetween DEF p, q
  <2>15. Rep(c, l2, gone)
    BY <2>3, <2>6, <2>9, <2>12, DelBetween DEF p, q
  <2>16. ASSUME NEW x PROVE x \in Linked(l2) <=> x \in Linked(ls) /\ x # n
    BY <1>1, <2>3, <2>6, RemoveLinked
  <2> QED
    BY <2>3, <2>13, <2>14, <2>15, <2>16 DEF In, a, b, c
<1>3. CASE n \notin Linked(ls)
  <2>1. n \in Node /\ n \in Cell /\ m.next[n] = n /\ m.prev[n] = n /\ LIST_POISON1 # n
    BY <1>1, <1>3, ListAssumption DEF FreeOK, Cell
  <2>2. \A g \in ListHead : \A i \in 1 .. Len(ls[g]) : ls[g][i] # n
    BY <1>1, <1>3, LinkedIs
  <2>3. l2 = ls
    BY <1>3 DEF Without
  <2>4. ASSUME NEW m2 \in Mem, m2.next[n] = n => m2.prev[n] = n,
               \A y \in Cell : y # n => m2.next[y] = m.next[y] /\ m2.prev[y] = m.prev[y]
        PROVE Rep(m2, ls, gone)
    <3>1. Chain(m2, ls, gone)
      BY <1>1, <2>1, <2>2, <2>4, FreeChain
    <3>2. FreeOK(m2, ls)
      BY <1>1, <2>4 DEF FreeOK, Cell
    <3> QED
      BY <3>1, <3>2 DEF Rep
  <2>5. /\ a \in Mem /\ a.next[n] = n /\ a.prev[n] = n
        /\ \A y \in Cell : y # n => a.next[y] = m.next[y] /\ a.prev[y] = m.prev[y]
    BY <1>1, <2>1 DEF __list_del, Mem, Ptr
  <2>6. b = [a EXCEPT !.next[n] = LIST_POISON1, !.prev[n] = LIST_POISON2]
        /\ c = [a EXCEPT !.next[n] = n, !.prev[n] = n]
    BY DEF list_del, list_del_init, INIT_LIST_HEAD
  <2> HIDE DEF a, b, c
  <2>7. /\ b \in Mem /\ b.next[n] # n
        /\ \A y \in Cell : y # n => b.next[y] = m.next[y] /\ b.prev[y] = m.prev[y]
    BY <2>1, <2>5, <2>6 DEF Mem, Ptr
  <2>8. /\ c \in Mem /\ c.prev[n] = n
        /\ \A y \in Cell : y # n => c.next[y] = m.next[y] /\ c.prev[y] = m.prev[y]
    BY <2>1, <2>5, <2>6 DEF Mem, Ptr
  <2>9. Rep(a, ls, gone) /\ Rep(b, ls, gone) /\ Rep(c, ls, gone)
    BY <2>4, <2>5, <2>7, <2>8
  <2> QED
    BY <1>3, <2>1, <2>3, <2>9 DEF a, b, c
<1> QED
  BY <1>2, <1>3

\* list_move and list_move_tail.
LEMMA MoveOp ==
  ASSUME NEW m, NEW ls, NEW gone, Rep(m, ls, gone), NEW n, NEW x,
         n \in Linked(ls) \/ (n \in Node /\ m.next[n] = n), In(ls, gone, x), x # n
  PROVE  /\ Rep(list_move(m, n, x), After(Without(ls, n), <<n>>, x), gone)
         /\ Rep(list_move_tail(m, n, x), Before(Without(ls, n), <<n>>, x), gone)
<1> DEFINE a == __list_del(m, m.prev[n], m.next[n])  l2 == Without(ls, n)
<1>1. Rep(a, l2, gone) /\ n \in Node /\ n \notin Linked(l2) /\ In(l2, gone, x)
  BY DelOp
<1> HIDE DEF a, l2
<1>2. Rep(list_add(a, n, x), After(l2, <<n>>, x), gone)
      /\ Rep(list_add_tail(a, n, x), Before(l2, <<n>>, x), gone)
  BY <1>1, AddOp
<1> QED
  BY <1>2 DEF list_move, list_move_tail, a, l2

\* list_empty tells whether the head has nodes.
LEMMA EmptyIs ==
  ASSUME NEW m, NEW ls, NEW gone, Chain(m, ls, gone), NEW h \in ListHead, h \notin gone
  PROVE  list_empty(m, h) <=> ls[h] = <<>>
<1>1. ls[h] \in Seq(Node) /\ Len(ls[h]) \in Nat /\ Ring(m, ls[h], h)
  BY DEF Chain, Lines
<1>2. 0 \in 0 .. Len(ls[h]) /\ At(ls[h], h, 0) = h
  BY <1>1 DEF At
<1>3. m.next[h] = At(ls[h], h, 0 + 1)
  BY <1>1, <1>2 DEF Ring
<1>4. CASE ls[h] = <<>>
  BY <1>3, <1>4 DEF At, list_empty
<1>5. CASE ls[h] # <<>>
  <2>1. 0 + 1 \in 1 .. Len(ls[h]) /\ ls[h][0 + 1] \in Node
    BY <1>1, <1>5
  <2> QED
    BY <1>3, <1>5, <2>1, ListAssumption DEF At, list_empty
<1> QED
  BY <1>4, <1>5

\* Inserting no nodes changes nothing.
LEMMA InsertNothing ==
  ASSUME NEW s \in Seq(Node), NEW k \in 0 .. Len(s)
  PROVE  Insert(s, k, <<>>) = s
<1> DEFINE t == <<>>  u == Insert(s, k, t)
<1>1. t \in Seq(Node) /\ Len(t) = 0 /\ Len(s) \in Nat /\ k \in Nat
  OBVIOUS
<1> HIDE DEF t
<1>2. /\ u \in Seq(Node) /\ Len(u) = Len(s) + Len(t)
      /\ \A i \in 1 .. Len(s) + Len(t) :
           u[i] = IF i =< k THEN s[i] ELSE IF i =< k + Len(t) THEN t[i - k] ELSE s[i - Len(t)]
  BY <1>1, InsertFacts
<1> HIDE DEF u
<1>3. Len(u) = Len(s) /\ \A i \in 1 .. Len(s) : u[i] = s[i]
  BY <1>1, <1>2
<1>4. u = s
  BY <1>2, <1>3
<1> QED
  BY <1>4 DEF u, t

\* __list_splice of a list that is not empty.
LEMMA SpliceBetween ==
  ASSUME NEW m, NEW ls, NEW gone, Rep(m, ls, gone), NEW g \in ListHead, g \notin gone,
         ls[g] # <<>>, NEW x, In(ls, gone, x), x # g, x \notin ToSet(ls[g])
  PROVE  Rep(__list_splice(m, g, x), Splice(ls, g, x), gone \cup {g}) /\ Splice(ls, g, x)[g] = <<>>
<1> DEFINE t == ls[g]  l0 == [ls EXCEPT ![g] = <<>>]
<1>1. m \in Mem /\ ls \in Lines /\ NoShare(ls) /\ Chain(m, ls, gone) /\ FreeOK(m, ls) /\ Ring(m, t, g)
  BY DEF Rep, Chain
<1>2. t \in Seq(Node) /\ Len(t) \in Nat /\ Len(t) > 0 /\ DOMAIN t = 1 .. Len(t)
  BY <1>1 DEF Lines
<1>3. Chain(m, l0, gone \cup {g})
  BY <1>1, ForgetHead
<1>4. l0 \in Lines /\ l0[g] = <<>> /\ \A h \in ListHead : h # g => l0[h] = ls[h]
  BY <1>1 DEF Lines
<1> HIDE DEF l0
<1>5. \A i \in 1 .. Len(t) : x # t[i]
  BY <1>2 DEF ToSet
<1>6. Fresh(l0, t)
  <2>1. \A i, j \in 1 .. Len(t) : t[i] = t[j] => i = j
    BY <1>1 DEF NoShare
  <2>2. ASSUME NEW f \in ListHead, NEW i \in 1 .. Len(l0[f]), NEW j \in 1 .. Len(t) PROVE l0[f][i] # t[j]
    <3>1. CASE f = g
      BY <1>4, <3>1
    <3>2. CASE f # g
      BY <1>1, <1>4, <3>2 DEF NoShare
    <3> QED
      BY <3>1, <3>2
  <2> QED
    BY <2>1, <2>2 DEF Fresh
<1>7. ASSUME NEW y, y \in Linked(ls) PROVE y \in Linked(l0) \/ \E i \in 1 .. Len(t) : t[i] = y
  <2>1. PICK f \in ListHead : \E i \in 1 .. Len(ls[f]) : ls[f][i] = y
    BY <1>1, <1>7, LinkedIs
  <2>2. CASE f = g
    BY <2>1, <2>2
  <2>3. CASE f # g
    BY <1>4, <2>1, <2>3, LinkedIs
  <2> QED
    BY <2>2, <2>3
<1> HIDE DEF t
<1>8. In(l0, gone \cup {g}, x)
  BY <1>5, <1>7 DEF In
<1>9. m.next[g] = t[1] /\ m.prev[g] = t[Len(t)] /\ \A i \in 1 .. Len(t) - 1 :
        m.next[t[i]] = t[i + 1] /\ m.prev[t[i + 1]] = t[i]
  <2>1. \A i \in 0 .. Len(t) : m.next[At(t, g, i)] = At(t, g, i + 1) /\ m.prev[At(t, g, i + 1)] = At(t, g, i)
    BY <1>1 DEF Ring
  <2>2. 0 \in 0 .. Len(t) /\ Len(t) \in 0 .. Len(t) /\ At(t, g, 0) = g /\ At(t, g, 0 + 1) = t[1]
        /\ At(t, g, Len(t) + 1) = g /\ At(t, g, Len(t)) = t[Len(t)]
    BY <1>2 DEF At
  <2>3. m.next[g] = t[1] /\ m.prev[g] = t[Len(t)]
    BY <2>1, <2>2
  <2>4. ASSUME NEW i \in 1 .. Len(t) - 1 PROVE m.next[t[i]] = t[i + 1] /\ m.prev[t[i + 1]] = t[i]
    <3>1. i \in 0 .. Len(t) /\ At(t, g, i) = t[i] /\ At(t, g, i + 1) = t[i + 1]
      BY <1>2 DEF At
    <3> QED
      BY <2>1, <3>1
  <2> QED
    BY <2>3, <2>4
<1>10. PICK h \in ListHead \ (gone \cup {g}) : \E k \in 0 .. Len(l0[h]) :
           /\ h = HeadOf(l0, x) /\ k = Rank(l0, x)
           /\ At(l0[h], h, k) = x /\ x \in Cell /\ m.next[x] = At(l0[h], h, k + 1)
  BY <1>3, <1>8, PlaceCells
<1>11. PICK k \in 0 .. Len(l0[h]) :
           /\ h = HeadOf(l0, x) /\ k = Rank(l0, x)
           /\ At(l0[h], h, k) = x /\ x \in Cell /\ m.next[x] = At(l0[h], h, k + 1)
  BY <1>10
<1> DEFINE q == m.next[x]  m2 == __list_splice(m, g, x)
           l2 == [l0 EXCEPT ![h] = Insert(l0[h], k, t)]
<1>12. Splice(ls, g, x) = l2
  BY <1>11 DEF Splice, After, Insert, l0, t
<1>13. q \in Cell /\ (q = h \/ q \in Linked(l0)) /\ (x = h \/ x \in Linked(l0))
  BY <1>4, <1>11, CellIs
<1>14. \A i \in 1 .. Len(t) : t[i] \in Cell /\ t[i] \in Node /\ t[i] # x /\ t[i] # q
  <2>1. \A i \in 1 .. Len(t) : t[i] \notin Linked(l0)
    BY <1>4, <1>6, LinkedIs DEF Fresh
  <2> QED
    BY <1>2, <1>5, <1>13, <2>1, ListAssumption DEF Cell
<1>15. 1 \in 1 .. Len(t) /\ Len(t) \in 1 .. Len(t)
  BY <1>2
<1> HIDE DEF q
<1>16. /\ m2 \in Mem
       /\ \A y \in Cell :
            /\ m2.next[y] = IF y = t[Len(t)] THEN q ELSE IF y = x THEN t[1] ELSE m.next[y]
            /\ m2.prev[y] = IF y = q THEN t[Len(t)] ELSE IF y = t[1] THEN x ELSE m.prev[y]
  <2>1. m2 = [m EXCEPT !.prev[t[1]] = x, !.next[x] = t[1], !.next[t[Len(t)]] = q, !.prev[q] = t[Len(t)]]
    BY <1>9 DEF __list_splice, q
  <2>2. t[1] \in Cell /\ t[Len(t)] \in Cell
    BY <1>14, <1>15
  <2> HIDE DEF m2
  <2> QED
    BY <1>1, <1>11, <1>13, <2>1, <2>2 DEF Mem, Ptr
<1> HIDE DEF m2
<1>17. Spliced(m, m2, x, t, q)
  <2>1. m2.next[x] = t[1] /\ m2.prev[t[1]] = x /\ m2.next[t[Len(t)]] = q /\ m2.prev[q] = t[Len(t)]
    BY <1>11, <1>13, <1>14, <1>15, <1>16
  <2>2. ASSUME NEW i \in 1 .. Len(t) - 1 PROVE m2.next[t[i]] = t[i + 1] /\ m2.prev[t[i + 1]] = t[i]
    <3>1. i \in 1 .. Len(t) /\ i + 1 \in 1 .. Len(t) /\ i # Len(t) /\ i + 1 # 1
      <4>1. Len(t) \in Nat
        BY <1>2
      <4> QED
        BY <4>1
    <3>2. t[i] # t[Len(t)] /\ t[i + 1] # t[1]
      BY <1>6, <1>15, <3>1 DEF Fresh
    <3> QED
      BY <1>9, <1>14, <1>16, <3>1, <3>2
  <2>3. ASSUME NEW y \in Cell, \A i \in 1 .. Len(t) : y # t[i]
        PROVE (y # x => m2.next[y] = m.next[y]) /\ (y # q => m2.prev[y] = m.prev[y])
    BY <1>15, <1>16, <2>3
  <2> QED
    BY <2>1, <2>2, <2>3 DEF Spliced
<1>18. Chain(m2, l2, gone \cup {g})
  <2>1. Spliced(m, m2, At(l0[h], h, k), t, At(l0[h], h, k + 1))
    BY <1>11, <1>17 DEF q
  <2> QED
    BY <1>2, <1>3, <1>6, <1>16, <2>1, InsertChain
<1>19. FreeOK(m2, l2)
  <2> SUFFICES ASSUME NEW y \in Node, y \notin Linked(l2), m2.next[y] = y PROVE m2.prev[y] = y
    BY DEF FreeOK
  <2>1. y \notin Linked(l0) /\ \A i \in 1 .. Len(t) : y # t[i]
    BY <1>2, <1>4, InsertLinked
  <2>2. y \notin Linked(ls)
    BY <1>7, <2>1
  <2>3. y # x /\ y # q /\ y \in Cell
    BY <1>13, <2>1, ListAssumption DEF Cell
  <2> QED
    BY <1>1, <1>15, <1>16, <2>1, <2>2, <2>3 DEF FreeOK
<1>20. l2[g] = <<>>
  BY <1>4
<1> QED
  BY <1>12, <1>18, <1>19, <1>20 DEF Rep, m2

\* list_splice and list_splice_init.
LEMMA SpliceOp ==
  ASSUME NEW m, NEW ls, NEW gone, Rep(m, ls, gone), NEW g \in ListHead, g \notin gone,
         NEW x, In(ls, gone, x), x # g, x \notin ToSet(ls[g])
  PROVE  /\ list_empty(m, g) => Splice(ls, g, x) = ls
         /\ Rep(list_splice(m, g, x), Splice(ls, g, x), gone \cup {g})
         /\ Rep(list_splice_init(m, g, x), Splice(ls, g, x), gone)
<1>1. m \in Mem /\ ls \in Lines /\ NoShare(ls) /\ Chain(m, ls, gone) /\ FreeOK(m, ls)
  BY DEF Rep, Chain
<1>2. list_empty(m, g) <=> ls[g] = <<>>
  BY <1>1, EmptyIs
<1>3. CASE ls[g] = <<>>
  <2>1. [ls EXCEPT ![g] = <<>>] = ls
    BY <1>1, <1>3 DEF Lines
  <2> DEFINE h == HeadOf(ls, x)  k == Rank(ls, x)
  <2>2. h \in ListHead /\ k \in 0 .. Len(ls[h])
    BY <1>1, PlaceIs DEF In
  <2>3. Splice(ls, g, x) = [ls EXCEPT ![h] = Insert(ls[h], k, <<>>)]
    BY <1>3, <2>1 DEF Splice, After, Insert
  <2>4. Insert(ls[h], k, <<>>) = ls[h]
    BY <1>1, <2>2, InsertNothing DEF Lines
  <2>5. Splice(ls, g, x) = ls
    BY <1>1, <2>2, <2>3, <2>4 DEF Lines
  <2>6. Chain(m, ls, gone \cup {g})
    BY <1>1, <2>1, ForgetHead
  <2> QED
    BY <1>1, <1>2, <1>3, <2>5, <2>6 DEF Rep, list_splice, list_splice_init
<1>4. CASE ls[g] # <<>>
  <2> DEFINE m2 == __list_splice(m, g, x)  l2 == Splice(ls, g, x)
  <2>1. Rep(m2, l2, gone \cup {g}) /\ l2[g] = <<>>
    BY <1>4, SpliceBetween
  <2>2. list_splice(m, g, x) = m2 /\ list_splice_init(m, g, x) = INIT_LIST_HEAD(m2, g)
    BY <1>2, <1>4 DEF list_splice, list_splice_init
  <2> HIDE DEF m2, l2
  <2>3. Chain(INIT_LIST_HEAD(m2, g), l2, (gone \cup {g}) \ {g})
    BY <2>1, InitHead DEF Rep
  <2>4. (gone \cup {g}) \ {g} = gone
    OBVIOUS
  <2>5. FreeOK(INIT_LIST_HEAD(m2, g), l2)
    <3>1. m2 \in Mem /\ FreeOK(m2, l2)
      BY <2>1 DEF Rep, Chain
    <3>2. \A y \in Node : y \in Cell /\ y # g
      BY ListAssumption DEF Cell
    <3> QED
      BY <3>1, <3>2 DEF FreeOK, INIT_LIST_HEAD, Mem
  <2> QED
    BY <1>2, <1>4, <2>1, <2>2, <2>3, <2>4, <2>5 DEF Rep, l2
<1> QED
  BY <1>3, <1>4

-----------------------------------------------------------------------------
(* Hash lists.                                                              *)

HMem == [next : [Cell -> Ptr], pprev : [Cell -> Ptr]]

\* The i-th cell of the hash list of h; NIL follows the last node.
HAt(s, h, i) == IF i = Len(s) + 1 THEN NIL ELSE At(s, h, i)

\* next goes through the nodes of s, and each pprev names the cell before its node.
HLine(m, s, h) ==
  \A i \in 0 .. Len(s) : /\ m.next[HAt(s, h, i)] = HAt(s, h, i + 1)
                         /\ i < Len(s) => m.pprev[HAt(s, h, i + 1)] = HAt(s, h, i)

HChain(m, ls) ==
  /\ m \in HMem /\ ls \in Lines /\ NoShare(ls)
  /\ \A h \in ListHead : HLine(m, ls[h], h)

\* A node in no hash list is poisoned or unhashed.
HFree(m, ls) == \A n \in Node \ Linked(ls) : m.pprev[n] \in {NIL, LIST_POISON2}

HRep(m, ls) == HChain(m, ls) /\ HFree(m, ls)

\* The places of a hash list differ from each other and from its end.
LEMMA HCells ==
  ASSUME NEW ls \in Lines, NoShare(ls), NEW g \in ListHead, NEW h \in ListHead
  PROVE  /\ \A i \in 0 .. Len(ls[g]) : /\ HAt(ls[g], g, i) = At(ls[g], g, i) /\ HAt(ls[g], g, i) \in Cell
                                       /\ HAt(ls[g], g, i) # NIL
                                       /\ HAt(ls[g], g, i) = g \/ HAt(ls[g], g, i) \in Linked(ls)
         /\ HAt(ls[g], g, Len(ls[g]) + 1) = NIL
         /\ \A i \in 0 .. Len(ls[g]), j \in 0 .. Len(ls[h]) + 1 :
              HAt(ls[g], g, i) = HAt(ls[h], h, j) => g = h /\ i = j
<1>1. Len(ls[g]) \in Nat /\ Len(ls[h]) \in Nat
  BY DEF Lines
<1>2. ASSUME NEW f \in ListHead, NEW i \in 0 .. Len(ls[f])
      PROVE HAt(ls[f], f, i) = At(ls[f], f, i)
  <2>1. Len(ls[f]) \in Nat
    BY DEF Lines
  <2>2. i # Len(ls[f]) + 1
    BY <2>1
  <2> QED
    BY <2>2 DEF HAt
<1>3. ASSUME NEW i \in 0 .. Len(ls[g])
      PROVE /\ HAt(ls[g], g, i) \in Cell /\ HAt(ls[g], g, i) # NIL
            /\ HAt(ls[g], g, i) = g \/ HAt(ls[g], g, i) \in Linked(ls)
  <2>1. NIL \notin Cell
    BY ListAssumption DEF Cell
  <2> QED
    BY <1>2, <2>1, CellIs
<1>4. HAt(ls[g], g, Len(ls[g]) + 1) = NIL /\ HAt(ls[h], h, Len(ls[h]) + 1) = NIL
  BY DEF HAt
<1>5. ASSUME NEW i \in 0 .. Len(ls[g]), NEW j \in 0 .. Len(ls[h]) + 1, HAt(ls[g], g, i) = HAt(ls[h], h, j)
      PROVE g = h /\ i = j
  <2>1. j # Len(ls[h]) + 1
    BY <1>3, <1>4, <1>5
  <2>2. j \in 0 .. Len(ls[h])
    BY <1>1, <2>1
  <2> QED
    BY <1>2, <1>5, <2>2, CellsDiffer
<1> QED
  BY <1>2, <1>3, <1>4, <1>5

\* A walk over a hash list meets its nodes and ends at NIL.
LEMMA HWalks ==
  ASSUME NEW m, NEW ls, HChain(m, ls)
  PROVE  /\ SeqsOf(m, {}) = ls
         /\ \A h \in ListHead : Walk(m.next, h) = [nodes |-> ls[h], end |-> NIL]
<1>1. ASSUME NEW h \in ListHead PROVE Walk(m.next, h) = [nodes |-> ls[h], end |-> NIL]
  <2> DEFINE s == ls[h]
  <2>1. s \in Seq(Node) /\ Len(s) \in Nat /\ ls \in Lines /\ NoShare(ls) /\ HLine(m, s, h)
    BY DEF HChain, Lines
  <2>2. \A i, j \in 1 .. Len(s) : s[i] = s[j] => i = j
    BY <2>1 DEF NoShare
  <2>3. NIL \notin Node
    BY ListAssumption
  <2> HIDE DEF s
  <2>4. ASSUME NEW i \in 0 .. Len(s) PROVE m.next[At(s, h, i)] = IF i < Len(s) THEN s[i + 1] ELSE NIL
    <3>1. m.next[HAt(s, h, i)] = HAt(s, h, i + 1)
      BY <2>1 DEF HLine
    <3>2. HAt(s, h, i) = At(s, h, i)
      BY <2>1 DEF HAt
    <3>3. HAt(s, h, i + 1) = IF i < Len(s) THEN s[i + 1] ELSE NIL
      BY <2>1 DEF HAt, At
    <3> QED
      BY <3>1, <3>2, <3>3
  <2>5. Walk(m.next, h) = [nodes |-> s, end |-> NIL]
    BY <2>1, <2>2, <2>3, <2>4, WalkIs
  <2> QED
    BY <2>5 DEF s
<1>2. ls = [h \in ListHead |-> ls[h]]
  BY DEF HChain, Lines
<1>3. ASSUME NEW h \in ListHead PROVE (IF h \in {} THEN <<>> ELSE Walk(m.next, h).nodes) = ls[h]
  <2>1. Walk(m.next, h) = [nodes |-> ls[h], end |-> NIL]
    BY <1>1
  <2> QED
    BY <2>1
<1>4. SeqsOf(m, {}) = [h \in ListHead |-> ls[h]]
  BY <1>3 DEF SeqsOf
<1> QED
  BY <1>1, <1>2, <1>4

\* Where a hash list keeps its pointers, it stays what it is.
LEMMA SameLine ==
  ASSUME NEW m, NEW m2, NEW s \in Seq(Node), NEW h, HLine(m, s, h),
         \A i \in 0 .. Len(s) :
           /\ m2.next[HAt(s, h, i)] = m.next[HAt(s, h, i)]
           /\ i < Len(s) => m2.pprev[HAt(s, h, i + 1)] = m.pprev[HAt(s, h, i + 1)]
  PROVE  HLine(m2, s, h)
BY DEF HLine

\* A node between two neighbours of a hash list.
LEMMA HAddBetween ==
  ASSUME NEW m, NEW ls, HRep(m, ls), NEW n \in Node, n \notin Linked(ls),
         NEW h \in ListHead, NEW k \in 0 .. Len(ls[h]), NEW m2 \in HMem,
         \A y \in Cell :
           /\ m2.next[y] = IF y = n THEN HAt(ls[h], h, k + 1)
                           ELSE IF y = HAt(ls[h], h, k) THEN n ELSE m.next[y]
           /\ m2.pprev[y] = IF y = n THEN HAt(ls[h], h, k)
                            ELSE IF y = HAt(ls[h], h, k + 1) THEN n ELSE m.pprev[y]
  PROVE  HRep(m2, [ls EXCEPT ![h] = Insert(ls[h], k, <<n>>)])
<1> DEFINE s == ls[h]  t == <<n>>  u == Insert(s, k, t)  l2 == [ls EXCEPT ![h] = u]
           a(i) == HAt(u, h, i)  b(i) == HAt(s, h, i)
<1>1. /\ ls \in Lines /\ NoShare(ls) /\ HFree(m, ls) /\ \A g \in ListHead : HLine(m, ls[g], g)
  BY DEF HRep, HChain
<1>2. s \in Seq(Node) /\ Len(s) \in Nat /\ k \in Nat /\ k =< Len(s)
  BY <1>1 DEF Lines
<1>3. n \in Cell /\ n \notin ListHead /\ n # NIL /\ \A g \in ListHead : \A i \in 1 .. Len(ls[g]) : ls[g][i] # n
  BY <1>1, LinkedIs, ListAssumption DEF Cell
<1>4. t \in Seq(Node) /\ Len(t) = 1 /\ t[1] = n /\ \A i \in 1 .. Len(t) : i = 1 /\ t[i] = n
  OBVIOUS
<1> HIDE DEF t
<1>5. Fresh(ls, t)
  BY <1>3, <1>4 DEF Fresh
<1>6. l2 \in Lines /\ NoShare(l2)
  BY <1>1, <1>4, <1>5, InsertLines
<1>7. Len(u) = Len(s) + 1
  <2>1. s \in Seq(Node) /\ t \in Seq(Node) /\ k \in 0 .. Len(s)
    BY <1>2, <1>4
  <2>2. Len(u) = Len(s) + Len(t)
    <3> HIDE DEF s
    <3> QED
      BY <2>1, InsertFacts
  <2> QED
    BY <1>4, <2>2
<1>8. /\ \A i \in 0 .. k : a(i) = b(i)
      /\ a(k + 1) = n
      /\ \A i \in k + 1 .. Len(s) + 1 : a(i + 1) = b(i)
  <2>1. /\ \A i \in 0 .. k : At(u, h, i) = At(s, h, i)
        /\ \A i \in 1 .. Len(t) : At(u, h, k + i) = t[i]
        /\ \A i \in k + 1 .. Len(s) + 1 : At(u, h, i + Len(t)) = At(s, h, i)
    BY <1>2, <1>4, InsertAtCells
  <2> HIDE DEF u, s
  <2>2. ASSUME NEW i \in 0 .. k PROVE a(i) = b(i)
    <3>1. i # Len(u) + 1 /\ i # Len(s) + 1
      BY <1>2, <1>7
    <3> QED
      BY <2>1, <3>1 DEF HAt
  <2>3. a(k + 1) = n
    <3>1. k + 1 # Len(u) + 1 /\ 1 \in 1 .. Len(t)
      BY <1>2, <1>4, <1>7
    <3> QED
      BY <1>4, <2>1, <3>1 DEF HAt
  <2>4. ASSUME NEW i \in k + 1 .. Len(s) + 1 PROVE a(i + 1) = b(i)
    <3>1. i + 1 = Len(u) + 1 <=> i = Len(s) + 1
      BY <1>2, <1>7
    <3> QED
      BY <1>4, <2>1, <3>1 DEF HAt
  <2> QED
    BY <2>2, <2>3, <2>4
<1>9. ASSUME NEW g \in ListHead, NEW i \in 0 .. Len(ls[g]), ~ (g = h /\ i = k)
      PROVE m2.next[HAt(ls[g], g, i)] = m.next[HAt(ls[g], g, i)]
  <2>1. HAt(ls[g], g, i) # HAt(ls[h], h, k)
    <3>1. k \in 0 .. Len(ls[h]) + 1
      BY <1>2
    <3> QED
      BY <1>1, <1>9, <3>1, HCells
  <2>2. HAt(ls[g], g, i) \in Cell /\ HAt(ls[g], g, i) # n
    BY <1>1, <1>3, HCells
  <2> QED
    BY <2>1, <2>2
<1>10. ASSUME NEW g \in ListHead, NEW i \in 0 .. Len(ls[g]), ~ (g = h /\ i = k + 1)
       PROVE m2.pprev[HAt(ls[g], g, i)] = m.pprev[HAt(ls[g], g, i)]
  <2>1. HAt(ls[g], g, i) # HAt(ls[h], h, k + 1)
    <3>1. k + 1 \in 0 .. Len(ls[h]) + 1
      BY <1>2
    <3> QED
      BY <1>1, <1>10, <3>1, HCells
  <2>2. HAt(ls[g], g, i) \in Cell /\ HAt(ls[g], g, i) # n
    BY <1>1, <1>3, HCells
  <2> QED
    BY <2>1, <2>2
<1>11. ASSUME NEW g \in ListHead, g # h PROVE HLine(m2, ls[g], g)
  <2>1. HLine(m, ls[g], g) /\ ls[g] \in Seq(Node) /\ Len(ls[g]) \in Nat
    BY <1>1 DEF Lines
  <2>2. \A i \in 0 .. Len(ls[g]) :
           /\ m2.next[HAt(ls[g], g, i)] = m.next[HAt(ls[g], g, i)]
           /\ i < Len(ls[g]) => m2.pprev[HAt(ls[g], g, i + 1)] = m.pprev[HAt(ls[g], g, i + 1)]
    BY <1>9, <1>10, <1>11, <2>1
  <2> QED
    BY <2>1, <2>2, SameLine
<1>12. \A i \in 0 .. Len(s) : m.next[b(i)] = b(i + 1) /\ (i < Len(s) => m.pprev[b(i + 1)] = b(i))
  BY <1>1 DEF HLine
<1>13. \A i \in 0 .. Len(s) : /\ i # k => m2.next[b(i)] = b(i + 1)
                              /\ i # k /\ i < Len(s) => m2.pprev[b(i + 1)] = b(i)
  BY <1>2, <1>9, <1>10, <1>12
<1>14. /\ m2.next[n] = b(k + 1) /\ m2.pprev[n] = b(k) /\ m2.next[b(k)] = n
       /\ k < Len(s) => m2.pprev[b(k + 1)] = n
  <2>1. b(k) \in Cell /\ b(k) # n
    BY <1>1, <1>3, HCells
  <2>2. k < Len(s) => b(k + 1) \in Cell /\ b(k + 1) # n
    <3>1. k < Len(s) => k + 1 \in 0 .. Len(ls[h])
      BY <1>2
    <3> QED
      BY <1>1, <1>3, <3>1, HCells
  <2> QED
    BY <1>3, <2>1, <2>2
<1> HIDE DEF a, b, u, s
<1>15. ASSUME NEW i \in 0 .. Len(s) + 1
       PROVE m2.next[a(i)] = a(i + 1) /\ (i < Len(s) + 1 => m2.pprev[a(i + 1)] = a(i))
  <2>1. CASE i < k
    <3>1. i \in 0 .. k /\ i + 1 \in 0 .. k /\ i \in 0 .. Len(s) /\ i # k /\ i < Len(s)
      BY <1>2, <2>1
    <3> QED
      BY <1>8, <1>13, <3>1
  <2>2. CASE i = k
    <3>1. k \in 0 .. k
      BY <1>2
    <3> QED
      BY <1>8, <1>14, <2>2, <3>1
  <2>3. CASE i = k + 1
    <3>1. k + 1 \in k + 1 .. Len(s) + 1 /\ (i < Len(s) + 1 => k < Len(s))
      BY <1>2, <2>3
    <3> QED
      BY <1>8, <1>14, <2>3, <3>1
  <2>4. CASE i > k + 1
    <3> DEFINE j == i - 1
    <3>1. j \in 0 .. Len(s) /\ j # k /\ j \in k + 1 .. Len(s) + 1 /\ j + 1 \in k + 1 .. Len(s) + 1
          /\ i = j + 1 /\ (i < Len(s) + 1 => j < Len(s))
      BY <1>2, <2>4
    <3> HIDE DEF j
    <3> QED
      BY <1>8, <1>13, <3>1
  <2>5. i < k \/ i = k \/ i = k + 1 \/ i > k + 1
    BY <1>2
  <2> QED
    BY <2>1, <2>2, <2>3, <2>4, <2>5
<1>16. HLine(m2, u, h)
  BY <1>7, <1>15 DEF HLine, a
<1>17. \A g \in ListHead : l2[g] = IF g = h THEN u ELSE ls[g]
  BY <1>1 DEF Lines
<1>18. HChain(m2, l2)
  BY <1>6, <1>11, <1>16, <1>17 DEF HChain
<1>19. HFree(m2, l2)
  <2> SUFFICES ASSUME NEW y \in Node, y \notin Linked(l2) PROVE m2.pprev[y] \in {NIL, LIST_POISON2}
    BY DEF HFree
  <2>1. y \notin Linked(ls) /\ y # n
    BY <1>1, <1>4, InsertLinked DEF u, s
  <2>2. m.pprev[y] \in {NIL, LIST_POISON2} /\ y \in Cell
    BY <1>1, <2>1 DEF HFree, Cell
  <2>3. y # HAt(ls[h], h, k + 1)
    <3>1. k + 1 \in 0 .. Len(ls[h]) \/ k + 1 = Len(ls[h]) + 1
      BY <1>2 DEF s
    <3>2. y \notin ListHead /\ y # NIL
      BY ListAssumption
    <3> QED
      BY <1>1, <2>1, <3>1, <3>2, HCells
  <2> QED
    BY <2>1, <2>2, <2>3
<1>20. HRep(m2, l2)
  BY <1>18, <1>19 DEF HRep
<1> QED
  BY <1>20 DEF u, s, t

\* Taking a node out of a hash list.
LEMMA HDelBetween ==
  ASSUME NEW m, NEW ls, HRep(m, ls), NEW h \in ListHead, NEW k \in 1 .. Len(ls[h]), NEW m2 \in HMem,
         m2.pprev[ls[h][k]] \in {NIL, LIST_POISON2},
         \A y \in Cell : y # ls[h][k] =>
           /\ m2.next[y] = IF y = HAt(ls[h], h, k - 1) THEN HAt(ls[h], h, k + 1) ELSE m.next[y]
           /\ m2.pprev[y] = IF y = HAt(ls[h], h, k + 1) THEN HAt(ls[h], h, k - 1) ELSE m.pprev[y]
  PROVE  HRep(m2, [ls EXCEPT ![h] = RemoveAt(ls[h], k)])
<1> DEFINE s == ls[h]  n == s[k]  u == RemoveAt(s, k)  l2 == [ls EXCEPT ![h] = u]
           a(i) == HAt(u, h, i)  b(i) == HAt(s, h, i)
<1>1. /\ ls \in Lines /\ NoShare(ls) /\ HFree(m, ls) /\ \A g \in ListHead : HLine(m, ls[g], g)
  BY DEF HRep, HChain
<1>2. s \in Seq(Node) /\ Len(s) \in Nat /\ k \in Nat /\ k >= 1 /\ k =< Len(s)
  BY <1>1 DEF Lines
<1>3. n = b(k) /\ n \in Node
  BY <1>2 DEF HAt, At
<1>4. l2 \in Lines /\ NoShare(l2)
  BY <1>1, RemoveLines
<1>5. Len(u) = Len(s) - 1
  BY <1>2, RemoveFacts
<1>6. /\ \A i \in 0 .. k - 1 : a(i) = b(i)
      /\ \A i \in k .. Len(s) : a(i) = b(i + 1)
  <2>1. /\ \A i \in 0 .. k - 1 : At(u, h, i) = At(s, h, i)
        /\ \A i \in k .. Len(s) : At(u, h, i) = At(s, h, i + 1)
    BY <1>2, RemoveAtCells
  <2> HIDE DEF u, s
  <2>2. ASSUME NEW i \in 0 .. k - 1 PROVE a(i) = b(i)
    <3>1. i # Len(u) + 1 /\ i # Len(s) + 1
      BY <1>2, <1>5
    <3> QED
      BY <2>1, <3>1 DEF HAt
  <2>3. ASSUME NEW i \in k .. Len(s) PROVE a(i) = b(i + 1)
    <3>1. i = Len(u) + 1 <=> i + 1 = Len(s) + 1
      BY <1>2, <1>5
    <3> QED
      BY <2>1, <3>1 DEF HAt
  <2> QED
    BY <2>2, <2>3
<1>7. k - 1 \in 0 .. Len(ls[h]) + 1 /\ k \in 0 .. Len(ls[h]) + 1 /\ k + 1 \in 0 .. Len(ls[h]) + 1
  BY <1>2
<1>8. ASSUME NEW g \in ListHead, NEW i \in 0 .. Len(ls[g]), ~ (g = h /\ i \in {k - 1, k})
      PROVE m2.next[HAt(ls[g], g, i)] = m.next[HAt(ls[g], g, i)]
  <2>1. HAt(ls[g], g, i) # HAt(ls[h], h, k - 1) /\ HAt(ls[g], g, i) # HAt(ls[h], h, k)
    BY <1>1, <1>7, <1>8, HCells
  <2>2. HAt(ls[g], g, i) \in Cell
    BY <1>1, HCells
  <2> QED
    BY <1>3, <2>1, <2>2
<1>9. ASSUME NEW g \in ListHead, NEW i \in 0 .. Len(ls[g]), ~ (g = h /\ i \in {k, k + 1})
      PROVE m2.pprev[HAt(ls[g], g, i)] = m.pprev[HAt(ls[g], g, i)]
  <2>1. HAt(ls[g], g, i) # HAt(ls[h], h, k + 1) /\ HAt(ls[g], g, i) # HAt(ls[h], h, k)
    BY <1>1, <1>7, <1>9, HCells
  <2>2. HAt(ls[g], g, i) \in Cell
    BY <1>1, HCells
  <2> QED
    BY <1>3, <2>1, <2>2
<1>10. ASSUME NEW g \in ListHead, g # h PROVE HLine(m2, ls[g], g)
  <2>1. HLine(m, ls[g], g) /\ ls[g] \in Seq(Node) /\ Len(ls[g]) \in Nat
    BY <1>1 DEF Lines
  <2>2. \A i \in 0 .. Len(ls[g]) :
           /\ m2.next[HAt(ls[g], g, i)] = m.next[HAt(ls[g], g, i)]
           /\ i < Len(ls[g]) => m2.pprev[HAt(ls[g], g, i + 1)] = m.pprev[HAt(ls[g], g, i + 1)]
    BY <1>8, <1>9, <1>10, <2>1
  <2> QED
    BY <2>1, <2>2, SameLine
<1>11. \A i \in 0 .. Len(s) : m.next[b(i)] = b(i + 1) /\ (i < Len(s) => m.pprev[b(i + 1)] = b(i))
  BY <1>1 DEF HLine
<1>12. ASSUME NEW i \in 0 .. Len(s), i \notin {k - 1, k}
       PROVE m2.next[b(i)] = b(i + 1) /\ (i < Len(s) => m2.pprev[b(i + 1)] = b(i))
  <2>1. m2.next[b(i)] = b(i + 1)
    BY <1>8, <1>11, <1>12
  <2>2. ASSUME i < Len(s) PROVE m2.pprev[b(i + 1)] = b(i)
    <3>1. i + 1 \in 0 .. Len(ls[h]) /\ i + 1 \notin {k, k + 1}
      BY <1>2, <1>12, <2>2
    <3> QED
      BY <1>9, <1>11, <2>2, <3>1
  <2> QED
    BY <2>1, <2>2
<1>13. m2.next[b(k - 1)] = b(k + 1) /\ (k < Len(s) => m2.pprev[b(k + 1)] = b(k - 1))
  <2>1. b(k - 1) \in Cell /\ b(k - 1) # n
    <3>1. k - 1 \in 0 .. Len(ls[h]) /\ k - 1 # k
      BY <1>2
    <3> QED
      BY <1>1, <1>3, <1>7, <3>1, HCells
  <2>2. k < Len(s) => b(k + 1) \in Cell /\ b(k + 1) # n
    <3>1. k < Len(s) => k + 1 \in 0 .. Len(ls[h]) /\ k + 1 # k
      BY <1>2
    <3> QED
      BY <1>1, <1>3, <1>7, <3>1, HCells
  <2> QED
    BY <2>1, <2>2
<1> HIDE DEF a, b, u, n, s
<1>14. ASSUME NEW i \in 0 .. Len(s) - 1
       PROVE m2.next[a(i)] = a(i + 1) /\ (i < Len(s) - 1 => m2.pprev[a(i + 1)] = a(i))
  <2>1. CASE i < k - 1
    <3>1. i \in 0 .. k - 1 /\ i + 1 \in 0 .. k - 1 /\ i \in 0 .. Len(s) /\ i \notin {k - 1, k} /\ i < Len(s)
      BY <1>2, <2>1
    <3> QED
      BY <1>6, <1>12, <3>1
  <2>2. CASE i = k - 1
    <3>1. k - 1 \in 0 .. k - 1 /\ k \in k .. Len(s) /\ i + 1 = k /\ (i < Len(s) - 1 => k < Len(s))
      BY <1>2, <2>2
    <3> QED
      BY <1>6, <1>13, <2>2, <3>1
  <2>3. CASE i > k - 1
    <3>1. i \in k .. Len(s) /\ i + 1 \in k .. Len(s) /\ i + 1 \in 0 .. Len(s) /\ i + 1 \notin {k - 1, k}
          /\ (i < Len(s) - 1 => i + 1 < Len(s))
      BY <1>2, <2>3
    <3> QED
      BY <1>6, <1>12, <3>1
  <2>4. i < k - 1 \/ i = k - 1 \/ i > k - 1
    BY <1>2
  <2> QED
    BY <2>1, <2>2, <2>3, <2>4
<1>15. HLine(m2, u, h)
  BY <1>5, <1>14 DEF HLine, a
<1>16. \A g \in ListHead : l2[g] = IF g = h THEN u ELSE ls[g]
  BY <1>1 DEF Lines
<1>17. HChain(m2, l2)
  BY <1>4, <1>10, <1>15, <1>16 DEF HChain
<1>18. HFree(m2, l2)
  <2> SUFFICES ASSUME NEW y \in Node, y \notin Linked(l2), y # ls[h][k] PROVE m2.pprev[y] \in {NIL, LIST_POISON2}
    BY DEF HFree
  <2>1. y \notin Linked(ls)
    BY <1>1, RemoveLinked DEF u, s
  <2>2. m.pprev[y] \in {NIL, LIST_POISON2} /\ y \in Cell
    BY <1>1, <2>1 DEF HFree, Cell
  <2>3. y # HAt(ls[h], h, k + 1)
    <3>1. k + 1 \in 0 .. Len(ls[h]) \/ k + 1 = Len(ls[h]) + 1
      BY <1>2 DEF s
    <3>2. y \notin ListHead /\ y # NIL
      BY ListAssumption
    <3> QED
      BY <1>1, <2>1, <3>1, <3>2, HCells
  <2> QED
    BY <2>2, <2>3
<1>19. HRep(m2, l2)
  BY <1>17, <1>18 DEF HRep
<1> QED
  BY <1>19 DEF u, s

\* x is the k-th node of the list of h, and these are its neighbours.
HPlaced(m, ls, x, h, k) ==
  /\ h = HeadOf(ls, x) /\ k = Rank(ls, x) /\ x = ls[h][k] /\ x = HAt(ls[h], h, k)
  /\ x \in Node /\ x \notin ListHead /\ x \in Cell
  /\ m.next[x] = HAt(ls[h], h, k + 1) /\ m.pprev[x] = HAt(ls[h], h, k - 1)
  /\ HAt(ls[h], h, k - 1) \in Cell /\ HAt(ls[h], h, k - 1) # x /\ HAt(ls[h], h, k + 1) # x
  /\ HAt(ls[h], h, k + 1) \in Cell \cup {NIL}

\* Every hashed node has such a place.
LEMMA HPlace ==
  ASSUME NEW m, NEW ls, HRep(m, ls), NEW x, x \in Linked(ls)
  PROVE  \E h \in ListHead : \E k \in 1 .. Len(ls[h]) : HPlaced(m, ls, x, h, k)
<1> DEFINE h == HeadOf(ls, x)  k == Rank(ls, x)  s == ls[h]
<1>1. /\ ls \in Lines /\ NoShare(ls) /\ \A g \in ListHead : HLine(m, ls[g], g)
  BY DEF HRep, HChain
<1>2. /\ h \in ListHead /\ k \in 1 .. Len(s) /\ s[k] = x /\ x \in Node /\ x \notin ListHead
  BY <1>1, PlaceIs
<1> HIDE DEF h, k
<1>3. Len(s) \in Nat /\ HLine(m, s, h)
  BY <1>1, <1>2 DEF Lines
<1>4. /\ k \in 0 .. Len(ls[h]) /\ k - 1 \in 0 .. Len(ls[h]) /\ k - 1 + 1 = k /\ k - 1 < Len(ls[h])
      /\ k - 1 # k /\ k + 1 # k /\ k \in 0 .. Len(ls[h]) + 1
      /\ k + 1 \in 0 .. Len(ls[h]) + 1 /\ (k + 1 \in 0 .. Len(ls[h]) \/ k + 1 = Len(ls[h]) + 1)
  BY <1>2, <1>3
<1>5. x = HAt(s, h, k)
  BY <1>1, <1>2, <1>4, HCells DEF At
<1>6. m.next[x] = HAt(s, h, k + 1) /\ m.pprev[x] = HAt(s, h, k - 1)
  BY <1>3, <1>4, <1>5 DEF HLine
<1>7. HAt(s, h, k - 1) \in Cell /\ HAt(s, h, k + 1) \in Cell \cup {NIL}
  BY <1>1, <1>2, <1>4, HCells
<1>8. HAt(s, h, k - 1) # x /\ HAt(s, h, k + 1) # x
  BY <1>1, <1>2, <1>4, <1>5, HCells
<1> QED
  BY <1>2, <1>5, <1>6, <1>7, <1>8 DEF h, k, s, Cell, HPlaced

\* hlist_add_head.
LEMMA HAddHead ==
  ASSUME NEW m, NEW ls, HRep(m, ls), NEW n \in Node, n \notin Linked(ls), NEW h \in ListHead
  PROVE  HRep(hlist_add_head(m, n, h), After(ls, <<n>>, h))
<1> DEFINE s == ls[h]  p == HAt(s, h, 0)  q == HAt(s, h, 0 + 1)  m2 == hlist_add_head(m, n, h)
<1>1. m \in HMem /\ ls \in Lines /\ NoShare(ls) /\ HLine(m, s, h) /\ Len(s) \in Nat
  BY DEF HRep, HChain, Lines
<1>2. 0 \in 0 .. Len(s) /\ p = h /\ (0 + 1 \in 0 .. Len(s) \/ 0 + 1 = Len(s) + 1)
  BY <1>1 DEF HAt, At
<1>3. m.next[h] = q
  BY <1>1, <1>2 DEF HLine
<1>4. q \in Cell \cup {NIL} /\ (q \in ListHead \/ q \in Linked(ls) \/ q = NIL)
  BY <1>1, <1>2, HCells
<1>5. n \in Cell /\ h \in Cell /\ n # h /\ n # q /\ NIL \notin Cell
  BY <1>4, ListAssumption DEF Cell
<1> HIDE DEF q
<1>6. /\ m2 \in HMem
      /\ \A y \in Cell : /\ m2.next[y] = IF y = n THEN q ELSE IF y = h THEN n ELSE m.next[y]
                         /\ m2.pprev[y] = IF y = n THEN h ELSE IF y = q THEN n ELSE m.pprev[y]
  <2>1. CASE q = NIL
    BY <1>1, <1>3, <1>5, <2>1 DEF hlist_add_head, SetPprev, HMem, Ptr
  <2>2. CASE q # NIL
    BY <1>1, <1>3, <1>4, <1>5, <2>2 DEF hlist_add_head, SetPprev, HMem, Ptr
  <2> QED
    BY <2>1, <2>2
<1>7. After(ls, <<n>>, h) = [ls EXCEPT ![h] = Insert(ls[h], 0, <<n>>)]
  BY DEF After, HeadOf, Rank, Insert
<1> HIDE DEF m2
<1>8. HRep(m2, [ls EXCEPT ![h] = Insert(ls[h], 0, <<n>>)])
  <2> DEFINE k == 0
  <2>1. k \in 0 .. Len(ls[h]) /\ h = HAt(ls[h], h, k) /\ q = HAt(ls[h], h, k + 1)
    BY <1>2 DEF q
  <2>2. [ls EXCEPT ![h] = Insert(ls[h], 0, <<n>>)] = [ls EXCEPT ![h] = Insert(ls[h], k, <<n>>)]
    OBVIOUS
  <2> HIDE DEF k
  <2>3. HRep(m2, [ls EXCEPT ![h] = Insert(ls[h], k, <<n>>)])
    BY <1>6, <2>1, HAddBetween
  <2> QED
    BY <2>2, <2>3
<1> QED
  BY <1>7, <1>8 DEF m2

\* hlist_add_before and hlist_add_after.
LEMMA HAddNode ==
  ASSUME NEW m, NEW ls, HRep(m, ls), NEW n \in Node, n \notin Linked(ls), NEW x, x \in Linked(ls)
  PROVE  /\ HRep(hlist_add_before(m, n, x), Before(ls, <<n>>, x))
         /\ HRep(hlist_add_after(m, x, n), After(ls, <<n>>, x))
<1>1. m \in HMem /\ ls \in Lines /\ NoShare(ls)
  BY DEF HRep, HChain
<1>2. PICK h \in ListHead : \E k \in 1 .. Len(ls[h]) : HPlaced(m, ls, x, h, k)
  BY HPlace
<1>3. PICK k \in 1 .. Len(ls[h]) : HPlaced(m, ls, x, h, k)
  BY <1>2
<1>4. /\ h = HeadOf(ls, x) /\ k = Rank(ls, x) /\ x = ls[h][k] /\ x = HAt(ls[h], h, k)
           /\ x \in Node /\ x \notin ListHead /\ x \in Cell
           /\ m.next[x] = HAt(ls[h], h, k + 1) /\ m.pprev[x] = HAt(ls[h], h, k - 1)
           /\ HAt(ls[h], h, k - 1) \in Cell /\ HAt(ls[h], h, k - 1) # x /\ HAt(ls[h], h, k + 1) # x
           /\ HAt(ls[h], h, k + 1) \in Cell \cup {NIL}
  BY <1>3 DEF HPlaced
<1> DEFINE p == HAt(ls[h], h, k - 1)  q == HAt(ls[h], h, k + 1)
<1>5. Len(ls[h]) \in Nat /\ k \in 0 .. Len(ls[h]) /\ k - 1 \in 0 .. Len(ls[h]) /\ k - 1 + 1 = k
      /\ (k + 1 \in 0 .. Len(ls[h]) \/ k + 1 = Len(ls[h]) + 1)
  BY <1>1 DEF Lines
<1>6. n \in Cell /\ n # x /\ n # p /\ n # q /\ NIL \notin Cell
  <2>1. (p = h \/ p \in Linked(ls)) /\ (q = NIL \/ q = h \/ q \in Linked(ls))
    BY <1>1, <1>5, HCells
  <2> QED
    BY <2>1, ListAssumption DEF Cell
<1>7. x \in Cell /\ p \in Cell /\ q \in Cell \cup {NIL} /\ p # x /\ q # x /\ m.next[x] = q /\ m.pprev[x] = p
  BY <1>4
<1> HIDE DEF p, q
<1>8. HRep(hlist_add_before(m, n, x), Before(ls, <<n>>, x))
  <2> DEFINE m2 == hlist_add_before(m, n, x)  j == k - 1
  <2>1. /\ m2 \in HMem
        /\ \A y \in Cell : /\ m2.next[y] = IF y = n THEN x ELSE IF y = p THEN n ELSE m.next[y]
                           /\ m2.pprev[y] = IF y = n THEN p ELSE IF y = x THEN n ELSE m.pprev[y]
    BY <1>1, <1>6, <1>7 DEF hlist_add_before, HMem, Ptr
  <2>2. Before(ls, <<n>>, x) = [ls EXCEPT ![h] = Insert(ls[h], j, <<n>>)]
    BY <1>4, <1>5 DEF Before, Insert
  <2>3. j \in 0 .. Len(ls[h]) /\ p = HAt(ls[h], h, j) /\ x = HAt(ls[h], h, j + 1)
    BY <1>4, <1>5 DEF p
  <2> HIDE DEF m2, j
  <2>4. HRep(m2, [ls EXCEPT ![h] = Insert(ls[h], j, <<n>>)])
    BY <2>1, <2>3, HAddBetween
  <2> QED
    BY <2>2, <2>4 DEF m2
<1>9. HRep(hlist_add_after(m, x, n), After(ls, <<n>>, x))
  <2> DEFINE m2 == hlist_add_after(m, x, n)
  <2>1. /\ m2 \in HMem
        /\ \A y \in Cell : /\ m2.next[y] = IF y = n THEN q ELSE IF y = x THEN n ELSE m.next[y]
                           /\ m2.pprev[y] = IF y = n THEN x ELSE IF y = q THEN n ELSE m.pprev[y]
    <3>1. CASE q = NIL
      BY <1>1, <1>6, <1>7, <3>1 DEF hlist_add_after, SetPprev, HMem, Ptr
    <3>2. CASE q # NIL
      BY <1>1, <1>6, <1>7, <3>2 DEF hlist_add_after, SetPprev, HMem, Ptr
    <3> QED
      BY <3>1, <3>2
  <2>2. After(ls, <<n>>, x) = [ls EXCEPT ![h] = Insert(ls[h], k, <<n>>)]
    BY <1>4 DEF After, Insert
  <2>3. x = HAt(ls[h], h, k) /\ q = HAt(ls[h], h, k + 1)
    BY <1>4 DEF q
  <2> HIDE DEF m2
  <2>4. HRep(m2, [ls EXCEPT ![h] = Insert(ls[h], k, <<n>>)])
    BY <1>5, <2>1, <2>3, HAddBetween
  <2> QED
    BY <2>2, <2>4 DEF m2
<1> QED
  BY <1>8, <1>9

\* hlist_del and hlist_del_init.
LEMMA HDelOp ==
  ASSUME NEW m, NEW ls, HRep(m, ls), NEW n, n \in Linked(ls)
  PROVE  /\ HRep(hlist_del(m, n), Without(ls, n))
         /\ HRep(hlist_del_init(m, n), Without(ls, n))
<1>1. m \in HMem /\ ls \in Lines /\ NoShare(ls)
  BY DEF HRep, HChain
<1>2. PICK h \in ListHead : \E k \in 1 .. Len(ls[h]) : HPlaced(m, ls, n, h, k)
  BY HPlace
<1>3. PICK k \in 1 .. Len(ls[h]) : HPlaced(m, ls, n, h, k)
  BY <1>2
<1>4. /\ h = HeadOf(ls, n) /\ k = Rank(ls, n) /\ n = ls[h][k] /\ n = HAt(ls[h], h, k)
           /\ n \in Node /\ n \notin ListHead /\ n \in Cell
           /\ m.next[n] = HAt(ls[h], h, k + 1) /\ m.pprev[n] = HAt(ls[h], h, k - 1)
           /\ HAt(ls[h], h, k - 1) \in Cell /\ HAt(ls[h], h, k - 1) # n /\ HAt(ls[h], h, k + 1) # n
           /\ HAt(ls[h], h, k + 1) \in Cell \cup {NIL}
  BY <1>3 DEF HPlaced
<1> DEFINE p == HAt(ls[h], h, k - 1)  q == HAt(ls[h], h, k + 1)
           a == __hlist_del(m, n)  b == hlist_del(m, n)  c == hlist_del_init(m, n)
<1>5. n \in Cell /\ p \in Cell /\ q \in Cell \cup {NIL} /\ p # n /\ q # n /\ m.next[n] = q /\ m.pprev[n] = p
      /\ NIL \notin Cell
  BY <1>4, ListAssumption DEF Cell
<1> HIDE DEF p, q
<1>6. /\ a \in HMem
      /\ \A y \in Cell : /\ a.next[y] = IF y = p THEN q ELSE m.next[y]
                         /\ a.pprev[y] = IF y = q THEN p ELSE m.pprev[y]
  <2>1. CASE q = NIL
    BY <1>1, <1>5, <2>1 DEF __hlist_del, SetPprev, HMem, Ptr
  <2>2. CASE q # NIL
    BY <1>1, <1>5, <2>2 DEF __hlist_del, SetPprev, HMem, Ptr
  <2> QED
    BY <2>1, <2>2
<1>7. b = [a EXCEPT !.next[n] = LIST_POISON1, !.pprev[n] = LIST_POISON2]
      /\ c = [a EXCEPT !.next[n] = NIL, !.pprev[n] = NIL]
  BY <1>5 DEF hlist_del, hlist_del_init, hlist_unhashed, INIT_HLIST_NODE
<1> HIDE DEF a, b, c
<1>8. /\ b \in HMem /\ b.pprev[n] = LIST_POISON2
      /\ \A y \in Cell : y # n => b.next[y] = a.next[y] /\ b.pprev[y] = a.pprev[y]
  BY <1>5, <1>6, <1>7 DEF HMem, Ptr
<1>9. /\ c \in HMem /\ c.pprev[n] = NIL
      /\ \A y \in Cell : y # n => c.next[y] = a.next[y] /\ c.pprev[y] = a.pprev[y]
  BY <1>5, <1>6, <1>7 DEF HMem, Ptr
<1>10. Without(ls, n) = [ls EXCEPT ![h] = RemoveAt(ls[h], k)]
  BY <1>4 DEF Without
<1>11. HRep(b, Without(ls, n))
  <2>1. /\ b.pprev[ls[h][k]] \in {NIL, LIST_POISON2}
        /\ \A y \in Cell : y # ls[h][k] =>
             /\ b.next[y] = IF y = HAt(ls[h], h, k - 1) THEN HAt(ls[h], h, k + 1) ELSE m.next[y]
             /\ b.pprev[y] = IF y = HAt(ls[h], h, k + 1) THEN HAt(ls[h], h, k - 1) ELSE m.pprev[y]
    BY <1>4, <1>6, <1>8 DEF p, q
  <2>2. HRep(b, [ls EXCEPT ![h] = RemoveAt(ls[h], k)])
    BY <1>8, <2>1, HDelBetween
  <2> QED
    BY <1>10, <2>2
<1>12. HRep(c, Without(ls, n))
  <2>1. /\ c.pprev[ls[h][k]] \in {NIL, LIST_POISON2}
        /\ \A y \in Cell : y # ls[h][k] =>
             /\ c.next[y] = IF y = HAt(ls[h], h, k - 1) THEN HAt(ls[h], h, k + 1) ELSE m.next[y]
             /\ c.pprev[y] = IF y = HAt(ls[h], h, k + 1) THEN HAt(ls[h], h, k - 1) ELSE m.pprev[y]
    BY <1>4, <1>6, <1>9 DEF p, q
  <2>2. HRep(c, [ls EXCEPT ![h] = RemoveAt(ls[h], k)])
    BY <1>9, <2>1, HDelBetween
  <2> QED
    BY <1>10, <2>2
<1> QED
  BY <1>11, <1>12 DEF b, c

-----------------------------------------------------------------------------
(* The invariant of List.                                                   *)

\* The nodes of todo that a loop has not seen are the last ones of its head's list s, or the
\* first ones when it goes back, and the loop stands at the next of them.
Unseen(s, head, pos, back, todo, seen) ==
  LET done == Len(seen)
      left == Len(todo) - Len(seen)
  IN  /\ left \in Nat /\ left =< Len(s)
      /\ \A i \in 1 .. done : seen[i] = todo[i]
      /\ pos = (IF left > 0 THEN todo[done + 1] ELSE head)
      /\ \A i \in 1 .. left : todo[done + i] = IF back THEN s[left - i + 1] ELSE s[Len(s) - left + i]

\* A loop that runs over s knows the node to go to after the body.
Running(s) ==
  /\ it.head \in ListHead \ stale
  /\ it.n = Follow(list, it.back, it.pos)
  /\ Unseen(s, it.head, it.pos, it.back, it.todo, it.seen)

Loops ==
  [head : ListHead \cup {NIL}, pos : Ptr, n : Ptr, back : BOOLEAN, todo : Seq(Node), seen : Seq(Node)]

ListInv ==
  /\ stale \subseteq ListHead
  /\ Rep(list, now, stale)
  /\ HRep(hlist, hnow)
  /\ it \in Loops
  /\ it.head # NIL => Running(now[it.head])

\* The sequences that a memory stands for are those that the walks find.
LEMMA RepNow ==
  ASSUME NEW m, NEW ls, NEW gone, Rep(m, ls, gone)
  PROVE  Rep(m, SeqsOf(m, gone), gone) /\ SeqsOf(m, gone) = ls
BY ChainWalks DEF Rep

\* The same for hash lists.
LEMMA HRepNow ==
  ASSUME NEW m, NEW ls, HRep(m, ls)
  PROVE  HRep(m, SeqsOf(m, {})) /\ SeqsOf(m, {}) = ls
BY HWalks DEF HRep

\* Empty lists are well linked.
LEMMA ListInitInv ==
  ASSUME ListInit
  PROVE  ListInv
<1> DEFINE ls == [h \in ListHead |-> <<>>]
<1>1. /\ list = [next |-> [x \in Cell |-> IF x \in ListHead THEN x ELSE LIST_POISON1],
                 prev |-> [x \in Cell |-> IF x \in ListHead THEN x ELSE LIST_POISON2]]
      /\ stale = {} /\ it = NoLoop
      /\ hlist = [next |-> [x \in Cell |-> NIL], pprev |-> [x \in Cell |-> NIL]]
  BY DEF ListInit
<1>2. ls \in Lines /\ \A h \in ListHead : ls[h] = <<>>
  BY DEF Lines
<1> HIDE DEF ls
<1>3. NoShare(ls)
  BY <1>2 DEF NoShare
<1>4. list \in Mem /\ hlist \in HMem
  BY <1>1 DEF Mem, HMem, Ptr, Cell
<1>5. \A h \in ListHead : h \in Cell /\ list.next[h] = h /\ list.prev[h] = h
  BY <1>1 DEF Cell
<1>6. \A n \in Node : n \in Cell /\ list.next[n] # n
  BY <1>1, ListAssumption DEF Cell
<1>7. \A h \in ListHead : Ring(list, ls[h], h)
  BY <1>2, <1>5 DEF Ring, At
<1>8. Rep(list, ls, stale)
  BY <1>1, <1>2, <1>3, <1>4, <1>6, <1>7 DEF Rep, Chain, FreeOK
<1>9. ASSUME NEW h \in ListHead PROVE HLine(hlist, ls[h], h)
  <2>1. ls[h] = <<>> /\ Len(ls[h]) = 0 /\ hlist.next[h] = NIL
    BY <1>1, <1>2, <1>5
  <2>2. HAt(ls[h], h, 0) = h /\ HAt(ls[h], h, 0 + 1) = NIL
    BY <2>1 DEF HAt, At
  <2> QED
    BY <2>1, <2>2 DEF HLine
<1>10. HRep(hlist, ls)
  BY <1>1, <1>2, <1>3, <1>4, <1>6, <1>9 DEF HRep, HChain, HFree
<1>11. Rep(list, now, stale) /\ HRep(hlist, hnow)
  BY <1>8, <1>10, RepNow, HRepNow DEF now, hnow
<1>12. it \in Loops /\ it.head = NIL
  BY <1>1 DEF Loops, NoLoop, Ptr
<1> QED
  BY <1>1, <1>11, <1>12 DEF ListInv

\* Every operation outside a loop.
LEMMA ChangeKeepsRep ==
  ASSUME ListInv, ListChange
  PROVE  Rep(list', SeqsOf(list', stale'), stale') /\ stale' \subseteq ListHead
         /\ it.head = NIL /\ UNCHANGED <<it, hlist>>
<1>1. stale \subseteq ListHead /\ Rep(list, now, stale) /\ now \in Lines
  BY DEF ListInv, Rep, Chain
<1> DEFINE Goal == /\ \E ls : Rep(list', ls, stale')
                   /\ stale' \subseteq ListHead /\ it.head = NIL /\ UNCHANGED <<it, hlist>>
<1>2. ASSUME NEW n \in Node, NEW x \in Cell, CanAdd(n, x), stale' = stale,
             Change({list_add(list, n, x), list_add_tail(list, n, x)})
      PROVE Goal
  <2>1. n \notin Linked(now) /\ In(now, stale, x)
    BY <1>2 DEF CanAdd, Place, In
  <2>2. /\ Rep(list_add(list, n, x), After(now, <<n>>, x), stale)
        /\ Rep(list_add_tail(list, n, x), Before(now, <<n>>, x), stale)
    BY <1>1, <2>1, AddOp
  <2> QED
    BY <1>1, <1>2, <2>2 DEF Change
<1>3. ASSUME NEW n \in Node, NEW x \in Cell, CanMove(n, x), stale' = stale,
             Change({list_move(list, n, x), list_move_tail(list, n, x)})
      PROVE Goal
  <2>1. (n \in Linked(now) \/ (n \in Node /\ list.next[n] = n)) /\ In(now, stale, x) /\ x # n
    BY <1>3 DEF CanMove, CanDel, Place, In
  <2>2. /\ Rep(list_move(list, n, x), After(Without(now, n), <<n>>, x), stale)
        /\ Rep(list_move_tail(list, n, x), Before(Without(now, n), <<n>>, x), stale)
    BY <1>1, <2>1, MoveOp
  <2> QED
    BY <1>1, <1>3, <2>2 DEF Change
<1>4. ASSUME NEW n \in Node, CanDel(n), stale' = stale,
             Change({list_del(list, n), list_del_init(list, n)})
      PROVE Goal
  <2>1. n \in Linked(now) \/ (n \in Node /\ list.next[n] = n)
    BY <1>4 DEF CanDel
  <2>2. Rep(list_del(list, n), Without(now, n), stale) /\ Rep(list_del_init(list, n), Without(now, n), stale)
    BY <1>1, <2>1, DelOp
  <2> QED
    BY <1>1, <1>4, <2>2 DEF Change
<1>5. ASSUME NEW g \in ListHead, NEW x \in Cell, CanSplice(g, x)
      PROVE /\ list_empty(list, g) => Splice(now, g, x) = now
            /\ Rep(list_splice(list, g, x), Splice(now, g, x), stale \cup {g})
            /\ Rep(list_splice_init(list, g, x), Splice(now, g, x), stale)
  <2>1. g \notin stale /\ In(now, stale, x) /\ x # g /\ x \notin ToSet(now[g])
    BY <1>5 DEF CanSplice, Place, In
  <2> QED
    BY <1>1, <2>1, SpliceOp
<1>6. ASSUME NEW g \in ListHead, NEW x \in Cell, CanSplice(g, x), stale' = stale,
             Change({list_splice_init(list, g, x)})
      PROVE Goal
  BY <1>1, <1>5, <1>6 DEF Change
<1>7. ASSUME NEW g \in ListHead, NEW x \in Cell, CanSplice(g, x), Change({list_splice(list, g, x)}),
             stale' = IF list_empty(list, g) THEN stale ELSE stale \cup {g}
      PROVE Goal
  <2>1. CASE list_empty(list, g)
    <3>1. list' = list /\ stale' = stale
      BY <1>7, <2>1 DEF Change, list_splice
    <3> QED
      BY <1>1, <1>7, <3>1 DEF Change
  <2>2. CASE ~ list_empty(list, g)
    BY <1>1, <1>5, <1>7, <2>2 DEF Change
  <2> QED
    BY <2>1, <2>2
<1>8. ASSUME NEW g \in stale, Change({INIT_LIST_HEAD(list, g)}), stale' = stale \ {g}
      PROVE Goal
  <2>1. g \in ListHead /\ now[g] = <<>> /\ Chain(list, now, stale) /\ FreeOK(list, now) /\ list \in Mem
    BY <1>1, <1>8 DEF Rep, Chain
  <2>2. Chain(INIT_LIST_HEAD(list, g), now, stale \ {g})
    BY <2>1, InitHead
  <2>3. FreeOK(INIT_LIST_HEAD(list, g), now)
    <3>1. \A y \in Node : y \in Cell /\ y # g
      BY <2>1, ListAssumption DEF Cell
    <3> QED
      BY <2>1, <3>1 DEF FreeOK, INIT_LIST_HEAD, Mem
  <2> QED
    BY <1>1, <1>8, <2>2, <2>3 DEF Change, Rep
<1>9. Goal
  <2> HIDE DEF Goal
  <2> QED
    BY <1>2, <1>3, <1>4, <1>6, <1>7, <1>8 DEF ListChange
<1> QED
  BY <1>9, RepNow

\* Every operation on hash lists.
LEMMA HlistKeepsRep ==
  ASSUME ListInv, HlistChange
  PROVE  HRep(hlist', SeqsOf(hlist', {})) /\ UNCHANGED <<list, stale, it>>
<1>1. HRep(hlist, hnow)
  BY DEF ListInv
<1> DEFINE Goal == \E ls : HRep(hlist', ls)
<1>2. ASSUME NEW n \in Node, NEW h \in ListHead, CanHadd(n), hlist' = hlist_add_head(hlist, n, h)
      PROVE Goal
  BY <1>1, <1>2, HAddHead DEF CanHadd
<1>3. ASSUME NEW n \in Node, NEW x \in Linked(hnow), CanHadd(n),
             hlist' \in {hlist_add_before(hlist, n, x), hlist_add_after(hlist, x, n)}
      PROVE Goal
  <2>1. /\ HRep(hlist_add_before(hlist, n, x), Before(hnow, <<n>>, x))
        /\ HRep(hlist_add_after(hlist, x, n), After(hnow, <<n>>, x))
    BY <1>1, <1>3, HAddNode DEF CanHadd
  <2> QED
    BY <1>3, <2>1
<1>4. ASSUME NEW n \in Linked(hnow), hlist' = hlist_del(hlist, n)
      PROVE Goal
  BY <1>1, <1>4, HDelOp
<1>5. ASSUME NEW n \in Node, hlist.pprev[n] # LIST_POISON2, hlist' = hlist_del_init(hlist, n)
      PROVE Goal
  <2>1. CASE n \in Linked(hnow)
    BY <1>1, <1>5, <2>1, HDelOp
  <2>2. CASE n \notin Linked(hnow)
    <3>1. hlist' = hlist
      BY <1>1, <1>5, <2>2 DEF HRep, HFree, hlist_del_init, hlist_unhashed
    <3> QED
      BY <1>1, <3>1
  <2> QED
    BY <2>1, <2>2
<1>6. Goal
  <2> HIDE DEF Goal
  <2> QED
    BY <1>2, <1>3, <1>4, <1>5 DEF HlistChange
<1>7. UNCHANGED <<list, stale, it>>
  BY DEF HlistChange
<1> QED
  BY <1>6, <1>7, HRepNow

-----------------------------------------------------------------------------
(* Safe loops.                                                              *)

\* What a body makes of memory m when its node is n, in the list of h.
BodiesOf(m, n, gone, h) ==
  {m, list_del(m, n), list_del_init(m, n)} \cup
  UNION {{list_move(m, n, g), list_move_tail(m, n, g)} : g \in ListHead \ (gone \cup {h})}

\* The body of a loop leaves its node where it is or takes it out of its list.
LEMMA BodyEffect ==
  ASSUME NEW m, NEW ls, NEW gone, Rep(m, ls, gone), NEW h \in ListHead \ gone,
         NEW k \in 1 .. Len(ls[h]), NEW m2 \in BodiesOf(m, ls[h][k], gone, h)
  PROVE  \E ls2 : Rep(m2, ls2, gone) /\ (ls2[h] = ls[h] \/ ls2[h] = RemoveAt(ls[h], k))
<1> DEFINE n == ls[h][k]  w == Without(ls, n)
<1>1. ls \in Lines /\ NoShare(ls) /\ h \in ListHead /\ Len(ls[h]) \in Nat
  BY DEF Rep, Chain, Lines
<1>2. n \in Linked(ls) /\ HeadOf(ls, n) = h /\ Rank(ls, n) = k
  BY <1>1, LinkedIs, RankIs
<1>3. w = [ls EXCEPT ![h] = RemoveAt(ls[h], k)]
  BY <1>2 DEF Without
<1>4. w[h] = RemoveAt(ls[h], k) /\ w \in Lines
  <2>1. [ls EXCEPT ![h] = RemoveAt(ls[h], k)] \in Lines
    BY <1>1, RemoveLines
  <2> QED
    BY <1>1, <1>3, <2>1 DEF Lines
<1> HIDE DEF n, w
<1>5. CASE m2 = m
  BY <1>5
<1>6. CASE m2 \in {list_del(m, n), list_del_init(m, n)}
  <2>1. Rep(list_del(m, n), w, gone) /\ Rep(list_del_init(m, n), w, gone)
    BY <1>2, DelOp DEF w
  <2> QED
    BY <1>4, <1>6, <2>1
<1>7. ASSUME NEW g \in ListHead \ (gone \cup {h}), m2 \in {list_move(m, n, g), list_move_tail(m, n, g)}
      PROVE  \E ls2 : Rep(m2, ls2, gone) /\ ls2[h] = RemoveAt(ls[h], k)
  <2>1. In(ls, gone, g) /\ g # n
    <3>1. n \in Node
      BY <1>1, <1>2, PlaceIs
    <3> QED
      BY <3>1, ListAssumption DEF In
  <2>2. Rep(list_move(m, n, g), After(w, <<n>>, g), gone) /\ Rep(list_move_tail(m, n, g), Before(w, <<n>>, g), gone)
    BY <1>2, <2>1, MoveOp DEF w
  <2>3. HeadOf(w, g) = g
    BY DEF HeadOf
  <2>4. After(w, <<n>>, g)[h] = w[h] /\ Before(w, <<n>>, g)[h] = w[h]
    BY <1>1, <1>4, <2>3 DEF After, Before, Lines
  <2> QED
    BY <1>4, <1>7, <2>2, <2>4
<1>8. \/ m2 = m \/ m2 \in {list_del(m, n), list_del_init(m, n)}
      \/ \E g \in ListHead \ (gone \cup {h}) : m2 \in {list_move(m, n, g), list_move_tail(m, n, g)}
  BY DEF BodiesOf, n
<1> QED
  BY <1>5, <1>6, <1>7, <1>8

\* The number in s of the node that a loop stands at, and of the next one.
Number(s, back, todo, seen) ==
  IF back THEN Len(todo) - Len(seen) ELSE Len(s) - (Len(todo) - Len(seen)) + 1
Turn(back, k) == IF back THEN k - 1 ELSE k + 1

\* One round of a loop, on the sequences.
LEMMA UnseenStep ==
  ASSUME NEW s \in Seq(Node), NEW head, NEW pos, NEW back \in BOOLEAN, NEW todo \in Seq(Node),
         NEW seen \in Seq(Node), Unseen(s, head, pos, back, todo, seen), pos # head
  PROVE  /\ Number(s, back, todo, seen) \in 1 .. Len(s)
         /\ pos = s[Number(s, back, todo, seen)] /\ pos \in Node
         /\ \A s2 : s2 = s \/ s2 = RemoveAt(s, Number(s, back, todo, seen)) =>
              Unseen(s2, head, At(s, head, Turn(back, Number(s, back, todo, seen))), back, todo, Append(seen, pos))
<1> DEFINE done == Len(seen)  left == Len(todo) - Len(seen)
           k == IF back THEN left ELSE Len(s) - left + 1
<1>1. done \in Nat /\ left \in Nat /\ left =< Len(s) /\ left > 0 /\ Len(s) \in Nat
      /\ Len(todo) = done + left /\ pos = todo[done + 1]
  BY DEF Unseen
<1>2. \A i \in 1 .. left : todo[done + i] = IF back THEN s[left - i + 1] ELSE s[Len(s) - left + i]
  BY DEF Unseen
<1>3. \A i \in 1 .. done : seen[i] = todo[i]
  BY DEF Unseen
<1>4. pos \in Node
  BY <1>1
<1> DEFINE seen2 == Append(seen, pos)
<1>5. /\ seen2 \in Seq(Node) /\ Len(seen2) = done + 1
      /\ \A i \in 1 .. done : seen2[i] = seen[i]
      /\ seen2[done + 1] = pos
  BY <1>4
<1> HIDE DEF seen2, done, left
<1>6. \A i \in 1 .. done + 1 : seen2[i] = todo[i]
  BY <1>1, <1>3, <1>5
<1>7. Len(todo) - Len(seen2) = left - 1 /\ left - 1 \in Nat
  BY <1>1, <1>5
<1>8. k \in 1 .. Len(s) /\ pos = s[k]
  <2>1. 1 \in 1 .. left /\ left - 1 + 1 = left
    BY <1>1
  <2>2. todo[done + 1] = IF back THEN s[left - 1 + 1] ELSE s[Len(s) - left + 1]
    BY <1>2, <2>1
  <2> QED
    BY <1>1, <2>1, <2>2
<1> DEFINE pos2 == At(s, head, IF back THEN k - 1 ELSE k + 1)
<1>9. ASSUME NEW i \in 1 .. left - 1
      PROVE  todo[done + 1 + i] = IF back THEN s[left - i] ELSE s[Len(s) - left + i + 1]
  <2>1. i + 1 \in 1 .. left /\ done + (i + 1) = done + 1 + i /\ left - (i + 1) + 1 = left - i
        /\ Len(s) - left + (i + 1) = Len(s) - left + i + 1
    BY <1>1
  <2>2. todo[done + (i + 1)] = IF back THEN s[left - (i + 1) + 1] ELSE s[Len(s) - left + (i + 1)]
    BY <1>2, <2>1
  <2> QED
    BY <2>1, <2>2
<1>10. pos2 = IF left - 1 > 0 THEN todo[done + 1 + 1] ELSE head
  <2>1. left > 1 => todo[done + 1 + 1] = IF back THEN s[left - 1] ELSE s[Len(s) - left + 1 + 1]
    <3>1. left > 1 => 1 \in 1 .. left - 1
      BY <1>1
    <3> QED
      BY <1>9, <3>1
  <2>2. CASE back
    <3>1. pos2 = At(s, head, left - 1)
      BY <2>2
    <3> QED
      BY <1>1, <2>1, <2>2, <3>1 DEF At
  <2>3. CASE ~ back
    <3>1. pos2 = At(s, head, Len(s) - left + 1 + 1)
      BY <2>3
    <3> QED
      BY <1>1, <2>1, <2>3, <3>1 DEF At
  <2> QED
    BY <2>2, <2>3
<1>11. ASSUME NEW s2, s2 = s \/ s2 = RemoveAt(s, k)
       PROVE  /\ left - 1 =< Len(s2)
              /\ \A i \in 1 .. left - 1 :
                   todo[done + 1 + i] = IF back THEN s2[(left - 1) - i + 1] ELSE s2[Len(s2) - (left - 1) + i]
  <2>1. CASE s2 = s
    <3>1. \A i \in 1 .. left - 1 : (left - 1) - i + 1 = left - i /\ Len(s) - (left - 1) + i = Len(s) - left + i + 1
      BY <1>1
    <3> QED
      BY <1>1, <1>9, <2>1, <3>1
  <2>2. CASE s2 = RemoveAt(s, k)
    <3>1. /\ Len(s2) = Len(s) - 1
          /\ \A i \in 1 .. Len(s) - 1 : s2[i] = IF i < k THEN s[i] ELSE s[i + 1]
      BY <1>8, <2>2, RemoveFacts
    <3>2. ASSUME NEW i \in 1 .. left - 1
          PROVE  (IF back THEN s2[(left - 1) - i + 1] ELSE s2[Len(s2) - (left - 1) + i])
                   = IF back THEN s[left - i] ELSE s[Len(s) - left + i + 1]
      <4>1. CASE back
        <5>1. (left - 1) - i + 1 = left - i /\ left - i \in 1 .. Len(s) - 1 /\ left - i < k
          BY <1>1, <4>1
        <5> QED
          BY <3>1, <4>1, <5>1
      <4>2. CASE ~ back
        <5>1. Len(s2) - (left - 1) + i = Len(s) - left + i /\ Len(s) - left + i \in 1 .. Len(s) - 1
              /\ ~ (Len(s) - left + i < k)
          BY <1>1, <3>1, <4>2
        <5> QED
          BY <3>1, <4>2, <5>1
      <4> QED
        BY <4>1, <4>2
    <3>3. left - 1 =< Len(s2)
      BY <1>1, <3>1
    <3> HIDE DEF k
    <3> QED
      BY <1>9, <3>2, <3>3, Zenon
  <2> QED
    BY <1>11, <2>1, <2>2
<1> HIDE DEF pos2, k
<1>12. ASSUME NEW s2, s2 = s \/ s2 = RemoveAt(s, k)
       PROVE  Unseen(s2, head, pos2, back, todo, seen2)
  <2>1. Len(todo) - Len(seen2) \in Nat /\ Len(todo) - Len(seen2) =< Len(s2)
    BY <1>7, <1>11, <1>12
  <2>2. \A i \in 1 .. Len(seen2) : seen2[i] = todo[i]
    BY <1>5, <1>6
  <2>3. pos2 = IF Len(todo) - Len(seen2) > 0 THEN todo[Len(seen2) + 1] ELSE head
    BY <1>5, <1>7, <1>10
  <2>4. \A i \in 1 .. left - 1 :
           todo[done + 1 + i] = IF back THEN s2[(left - 1) - i + 1] ELSE s2[Len(s2) - (left - 1) + i]
    BY <1>11, <1>12
  <2>5. \A i \in 1 .. Len(todo) - Len(seen2) :
           todo[Len(seen2) + i] = IF back THEN s2[Len(todo) - Len(seen2) - i + 1]
                                  ELSE s2[Len(s2) - (Len(todo) - Len(seen2)) + i]
    BY <1>5, <1>7, <2>4, Zenon
  <2> QED
    BY <2>1, <2>2, <2>3, <2>5, Zenon DEF Unseen
<1> QED
  <2>1. Number(s, back, todo, seen) = k
    BY Zenon DEF k, left, Number
  <2>2. At(s, head, Turn(back, Number(s, back, todo, seen))) = pos2
    BY <2>1, Zenon DEF k, pos2, Turn
  <2> QED
    BY <1>4, <1>8, <1>12, <2>1, <2>2 DEF seen2

\* A loop that begins has seen nothing.
LEMMA UnseenBegin ==
  ASSUME NEW s \in Seq(Node), NEW head, NEW k \in 0 .. Len(s)
  PROVE  /\ SubSeq(s, k + 1, Len(s)) \in Seq(Node) /\ Reverse(s) \in Seq(Node)
         /\ Unseen(s, head, At(s, head, k + 1), FALSE, SubSeq(s, k + 1, Len(s)), <<>>)
         /\ Unseen(s, head, At(s, head, Len(s)), TRUE, Reverse(s), <<>>)
<1> DEFINE t == SubSeq(s, k + 1, Len(s))  r == Reverse(s)  none == <<>>
<1>1. Len(s) \in Nat /\ k \in Nat /\ k =< Len(s)
  OBVIOUS
<1>2. t \in Seq(Node) /\ Len(t) = Len(s) - k /\ \A i \in 1 .. Len(s) - k : t[i] = s[k + i]
  BY <1>1
<1>3. r \in Seq(Node) /\ Len(r) = Len(s) /\ \A i \in 1 .. Len(s) : r[i] = s[Len(s) - i + 1]
  <2>1. r = [i \in 1 .. Len(s) |-> s[(Len(s) - i) + 1]]
    BY DEF Reverse
  <2>2. \A i \in 1 .. Len(s) : s[(Len(s) - i) + 1] \in Node
    BY <1>1
  <2> QED
    BY <1>1, <2>1, <2>2
<1>4. Len(none) = 0
  OBVIOUS
<1> HIDE DEF t, r, none
<1>5. Unseen(s, head, At(s, head, k + 1), FALSE, t, none)
  <2>1. Len(t) - Len(none) = Len(s) - k /\ Len(t) - Len(none) \in Nat /\ Len(t) - Len(none) =< Len(s)
    BY <1>1, <1>2, <1>4
  <2>2. \A i \in 1 .. Len(none) : none[i] = t[i]
    BY <1>4
  <2>3. At(s, head, k + 1) = IF Len(t) - Len(none) > 0 THEN t[Len(none) + 1] ELSE head
    BY <1>1, <1>2, <1>4, <2>1 DEF At
  <2>4. \A i \in 1 .. Len(t) - Len(none) : t[Len(none) + i] = s[Len(s) - (Len(t) - Len(none)) + i]
    BY <1>1, <1>2, <1>4, <2>1
  <2> QED
    BY <2>1, <2>2, <2>3, <2>4 DEF Unseen
<1>6. Unseen(s, head, At(s, head, Len(s)), TRUE, r, none)
  <2>1. Len(r) - Len(none) = Len(s) /\ Len(r) - Len(none) \in Nat /\ Len(r) - Len(none) =< Len(s)
    BY <1>1, <1>3, <1>4
  <2>2. \A i \in 1 .. Len(none) : none[i] = r[i]
    BY <1>4
  <2>3. At(s, head, Len(s)) = IF Len(r) - Len(none) > 0 THEN r[Len(none) + 1] ELSE head
    BY <1>1, <1>3, <1>4, <2>1 DEF At
  <2>4. \A i \in 1 .. Len(r) - Len(none) : r[Len(none) + i] = s[Len(r) - Len(none) - i + 1]
    BY <1>1, <1>3, <1>4, <2>1
  <2> QED
    BY <2>1, <2>2, <2>3, <2>4 DEF Unseen
<1> QED
  BY <1>2, <1>3, <1>5, <1>6 DEF t, r, none

\* list_for_each_safe and the like, before the first round.
LEMMA LoopBegins ==
  ASSUME ListInv, NEW h \in ListHead, NEW from \in Cell, NEW back \in BOOLEAN, safe_begin(h, from, back)
  PROVE  ListInv'
<1> DEFINE s == now[h]  k == Rank(now, from)  first == Follow(list, back, from)
           todo == IF back THEN Reverse(s) ELSE SubSeq(s, k + 1, Len(s))
<1>1. /\ h \notin stale /\ (from = h \/ (from \in ToSet(s) /\ ~ back))
      /\ it' = [head |-> h, pos |-> first, n |-> Follow(list, back, first), back |-> back,
                todo |-> todo, seen |-> <<>>]
      /\ UNCHANGED <<list, stale, hlist>>
  BY DEF safe_begin
<1>2. stale \subseteq ListHead /\ Rep(list, now, stale) /\ Chain(list, now, stale) /\ HRep(hlist, hnow)
      /\ now \in Lines /\ NoShare(now) /\ s \in Seq(Node) /\ list \in Mem
  BY DEF ListInv, Rep, Chain, Lines
<1>3. In(now, stale, from) /\ HeadOf(now, from) = h
  <2>1. CASE from = h
    BY <1>1, <2>1 DEF In, HeadOf
  <2>2. CASE from \in ToSet(s)
    <3>1. PICK i \in 1 .. Len(now[h]) : now[h][i] = from
      BY <1>2, <2>2 DEF ToSet
    <3>2. from \in Linked(now) /\ HeadOf(now, from) = h
      BY <1>2, <3>1, LinkedIs, RankIs
    <3> QED
      BY <3>2 DEF In
  <2> QED
    BY <1>1, <2>1, <2>2
<1>4. /\ k \in 0 .. Len(s) /\ list.next[from] = At(s, h, k + 1)
      /\ from \in ListHead => list.prev[from] = At(s, h, Len(s))
  BY <1>2, <1>3, PlaceCells
<1>5. first = IF back THEN At(s, h, Len(s)) ELSE At(s, h, k + 1)
  BY <1>1, <1>4 DEF Follow
<1>6. /\ todo \in Seq(Node)
      /\ Unseen(s, h, first, back, todo, <<>>)
  BY <1>2, <1>4, <1>5, UnseenBegin
<1>7. first \in Cell /\ Follow(list, back, first) \in Ptr
  <2>1. first \in Cell
    BY <1>2, <1>5, CellIs
  <2> QED
    BY <1>2, <2>1 DEF Follow, Mem
<1> HIDE DEF s, k, first, todo
<1>8. /\ it' \in Loops /\ it'.head = h /\ it'.pos = first /\ it'.n = Follow(list, back, first)
      /\ it'.back = back /\ it'.todo = todo /\ it'.seen = <<>>
  BY <1>1, <1>6, <1>7 DEF Loops, Ptr
<1>9. now' = now /\ hnow' = hnow /\ list' = list /\ stale' = stale /\ hlist' = hlist
  BY <1>1 DEF now, hnow, SeqsOf
<1>10. Running(now[it.head])'
  BY <1>1, <1>6, <1>8, <1>9 DEF Running, s
<1> QED
  BY <1>2, <1>8, <1>9, <1>10 DEF ListInv

\* One round, whatever the body does with its node.
LEMMA LoopSteps ==
  ASSUME ListInv, safe_step
  PROVE  ListInv'
<1> DEFINE h == it.head  s == now[h]
           k == Number(s, it.back, it.todo, it.seen)
           i2 == Turn(it.back, k)
<1>1. /\ h # NIL /\ it.pos # h /\ list' \in Bodies
      /\ it' = [it EXCEPT !.pos = it.n, !.n = Follow(list', it.back, it.n), !.seen = Append(@, it.pos)]
      /\ UNCHANGED <<stale, hlist>>
  BY DEF safe_step
<1>2. /\ stale \subseteq ListHead /\ Rep(list, now, stale) /\ Chain(list, now, stale) /\ HRep(hlist, hnow)
      /\ now \in Lines /\ NoShare(now) /\ list \in Mem /\ it \in Loops
  BY DEF ListInv, Rep, Chain
<1>3. h \in ListHead \ stale /\ it.n = Follow(list, it.back, it.pos)
      /\ Unseen(s, it.head, it.pos, it.back, it.todo, it.seen)
  BY <1>1 DEF ListInv, Running
<1>4. s \in Seq(Node) /\ it.back \in BOOLEAN /\ it.todo \in Seq(Node) /\ it.seen \in Seq(Node)
  BY <1>2, <1>3 DEF Lines, Loops
<1>5. k \in 1 .. Len(s) /\ it.pos = s[k] /\ it.pos \in Node
      /\ \A s2 : s2 = s \/ s2 = RemoveAt(s, k) =>
           Unseen(s2, h, At(s, h, i2), it.back, it.todo, Append(it.seen, it.pos))
  <2> HIDE DEF s
  <2> QED
    BY <1>1, <1>3, <1>4, UnseenStep
<1> HIDE DEF s, k
<1>6. it.n = At(s, h, i2) /\ it.n \in Cell
  <2>1. In(now, stale, it.pos) /\ it.pos \in Linked(now) /\ HeadOf(now, it.pos) = h /\ Rank(now, it.pos) = k
    <3>1. now[h] = s /\ h \in ListHead
      BY <1>3 DEF s
    <3> QED
      BY <1>2, <1>5, <3>1, LinkedIs, RankIs DEF In
  <2>2. list.next[it.pos] = At(s, h, k + 1) /\ list.prev[it.pos] = At(s, h, k - 1)
    BY <1>2, <2>1, PlaceCells DEF s
  <2>3. it.n = At(s, h, i2)
    BY <1>3, <2>2 DEF Follow, Turn
  <2>4. At(s, h, i2) \in Cell
    BY <1>2, <1>3, CellIs DEF s
  <2> QED
    BY <2>3, <2>4
<1>7. list' \in BodiesOf(list, now[h][k], stale, h)
  <2>1. list' \in BodiesOf(list, it.pos, stale, h)
    BY <1>1 DEF Bodies, BodiesOf
  <2> QED
    BY <1>5, <2>1 DEF s
<1>8. PICK ls2 : Rep(list', ls2, stale) /\ (ls2[h] = s \/ ls2[h] = RemoveAt(s, k))
  <2>1. h \in ListHead \ stale /\ k \in 1 .. Len(now[h])
    BY <1>3, <1>5 DEF s
  <2> HIDE DEF h
  <2>2. \A m2 \in BodiesOf(list, now[h][k], stale, h) :
          \E ls2 : Rep(m2, ls2, stale) /\ (ls2[h] = now[h] \/ ls2[h] = RemoveAt(now[h], k))
    <3> HIDE DEF k
    <3> QED
      BY <1>2, <2>1, BodyEffect
  <2> QED
    BY <1>7, <2>2 DEF s
<1>9. SeqsOf(list', stale) = ls2 /\ list' \in Mem
  BY <1>8, RepNow DEF Rep, Chain
<1>10. stale' = stale /\ hlist' = hlist
  BY <1>1
<1>11. now' = ls2 /\ hnow' = hnow
  BY <1>9, <1>10 DEF now, hnow
<1>12. /\ it'.head = h /\ it'.pos = it.n /\ it'.n = Follow(list', it.back, it.n) /\ it'.back = it.back
       /\ it'.todo = it.todo /\ it'.seen = Append(it.seen, it.pos)
  BY <1>1, <1>2 DEF Loops
<1>13. it' \in Loops
  <2>1. Follow(list', it.back, it.n) \in Ptr /\ it.n \in Ptr
    BY <1>6, <1>9 DEF Follow, Mem, Ptr
  <2>2. Append(it.seen, it.pos) \in Seq(Node)
    BY <1>4, <1>5
  <2> QED
    BY <1>1, <1>2, <2>1, <2>2 DEF Loops
<1>14. Unseen(ls2[h], h, it.n, it.back, it.todo, Append(it.seen, it.pos))
  <2> HIDE DEF h, i2
  <2> QED
    BY <1>5, <1>6, <1>8
<1>15. Running(now[it.head])'
  BY <1>3, <1>10, <1>11, <1>12, <1>14 DEF Running
<1> QED
  BY <1>2, <1>8, <1>10, <1>11, <1>13, <1>15 DEF ListInv

\* The loop has come back to its head.
LEMMA LoopEnds ==
  ASSUME ListInv, safe_end
  PROVE  ListInv'
<1>1. it' = NoLoop /\ list' = list /\ stale' = stale /\ hlist' = hlist
  BY DEF safe_end
<1>2. now' = now /\ hnow' = hnow
  BY <1>1 DEF now, hnow
<1>3. it' \in Loops /\ it'.head = NIL
  BY <1>1 DEF Loops, NoLoop, Ptr
<1> QED
  BY <1>1, <1>2, <1>3 DEF ListInv

\* Every step of the lists and of the hash lists keeps the invariant.
LEMMA ListStep ==
  ASSUME ListInv, ListNext \/ HlistChange \/ UNCHANGED listVars
  PROVE  ListInv'
<1>1. CASE ListChange
  <2>1. /\ Rep(list', SeqsOf(list', stale'), stale') /\ stale' \subseteq ListHead
        /\ it.head = NIL /\ it' = it /\ hlist' = hlist
    BY <1>1, ChangeKeepsRep
  <2>2. now' = SeqsOf(list', stale') /\ hnow' = hnow
    BY <2>1 DEF now, hnow
  <2> QED
    BY <2>1, <2>2 DEF ListInv
<1>2. CASE SafeLoop
  BY <1>2, LoopBegins, LoopSteps, LoopEnds DEF SafeLoop
<1>3. CASE HlistChange
  <2>1. HRep(hlist', SeqsOf(hlist', {})) /\ list' = list /\ stale' = stale /\ it' = it
    BY <1>3, HlistKeepsRep
  <2>2. now' = now /\ hnow' = SeqsOf(hlist', {})
    BY <2>1 DEF now, hnow
  <2> QED
    BY <2>1, <2>2 DEF ListInv, Running
<1>4. CASE UNCHANGED listVars
  <2>1. list' = list /\ stale' = stale /\ it' = it /\ hlist' = hlist
    BY <1>4 DEF listVars
  <2>2. now' = now /\ hnow' = hnow
    BY <2>1 DEF now, hnow
  <2> QED
    BY <2>1, <2>2 DEF ListInv, Running
<1> QED
  BY <1>1, <1>2, <1>3, <1>4 DEF ListNext

-----------------------------------------------------------------------------
(* What the invariant says.                                                 *)

\* list_is_last tells whether a node is the last one.
LEMMA LastIs ==
  ASSUME NEW m, NEW ls, NEW gone, Chain(m, ls, gone), NEW h \in ListHead \ gone, NEW n \in ToSet(ls[h])
  PROVE  list_is_last(m, n, h) <=> n = Last(ls[h])
<1> DEFINE s == ls[h]
<1>1. h \in ListHead /\ h \notin gone /\ ls \in Lines /\ NoShare(ls) /\ Ring(m, ls[h], h)
  BY DEF Chain
<1>2. s \in Seq(Node) /\ Len(s) \in Nat
  BY <1>1 DEF Lines
<1>3. PICK i \in 1 .. Len(s) : s[i] = n
  BY <1>2 DEF ToSet
<1>4. \A j \in 1 .. Len(s) : s[j] = n => j = i
  BY <1>1, <1>3 DEF NoShare
<1>5. \A j \in 1 .. Len(s) : s[j] # h
  BY <1>1, <1>2, ListAssumption
<1> HIDE DEF s
<1>6. m.next[n] = At(s, h, i + 1)
  <2>1. Ring(m, s, h) /\ i \in 0 .. Len(s)
    BY <1>1, <1>2 DEF s
  <2>2. At(s, h, i) = n
    BY <1>3 DEF At
  <2> QED
    BY <2>1, <2>2 DEF Ring
<1>7. m.next[n] = h <=> i = Len(s)
  BY <1>2, <1>5, <1>6 DEF At
<1>8. n = s[Len(s)] <=> i = Len(s)
  BY <1>2, <1>3, <1>4
<1> QED
  BY <1>7, <1>8 DEF list_is_last, Last, s

\* Each part of WellLinked from the sequences.
LEMMA InvWellLinked ==
  ASSUME ListInv
  PROVE  WellLinked
<1>1. Chain(list, now, stale) /\ HRep(hlist, hnow) /\ HChain(hlist, hnow)
      /\ now \in Lines /\ NoShare(now) /\ hnow \in Lines /\ NoShare(hnow)
  BY DEF ListInv, Rep, Chain, HRep, HChain
<1>2. ASSUME NEW h \in ListHead \ stale
      PROVE  /\ Walk(list.next, h).end = h /\ Walk(list.prev, h).end = h
             /\ Walk(list.prev, h).nodes = Reverse(now[h])
             /\ list_empty(list, h) <=> now[h] = <<>>
             /\ \A n \in ToSet(now[h]) : list_is_last(list, n, h) <=> n = Last(now[h])
  <2>1. /\ Walk(list.next, h) = [nodes |-> now[h], end |-> h]
        /\ Walk(list.prev, h) = [nodes |-> Reverse(now[h]), end |-> h]
    BY <1>1, ChainWalks
  <2>2. list_empty(list, h) <=> now[h] = <<>>
    BY <1>1, EmptyIs
  <2>3. \A n \in ToSet(now[h]) : list_is_last(list, n, h) <=> n = Last(now[h])
    BY <1>1, LastIs
  <2> QED
    BY <2>1, <2>2, <2>3
<1>3. ASSUME NEW h \in ListHead
      PROVE  Walk(hlist.next, h).end = NIL /\ (hlist_empty(hlist, h) <=> hnow[h] = <<>>)
  <2>1. Walk(hlist.next, h) = [nodes |-> hnow[h], end |-> NIL]
    BY <1>1, HWalks
  <2>2. HLine(hlist, hnow[h], h) /\ hnow[h] \in Seq(Node) /\ Len(hnow[h]) \in Nat
    BY <1>1 DEF HChain, Lines
  <2>3. HAt(hnow[h], h, 0) = h /\ HAt(hnow[h], h, 0 + 1) = IF Len(hnow[h]) = 0 THEN NIL ELSE hnow[h][1]
    BY <2>2 DEF HAt, At
  <2>4. hlist.next[h] = HAt(hnow[h], h, 0 + 1)
    BY <2>2, <2>3 DEF HLine
  <2>5. Len(hnow[h]) # 0 => hnow[h][1] \in Node
    BY <2>2
  <2>6. hlist.next[h] = NIL <=> Len(hnow[h]) = 0
    BY <2>3, <2>4, <2>5, ListAssumption
  <2> QED
    BY <2>1, <2>2, <2>6 DEF hlist_empty
<1>4. ASSUME NEW n \in Linked(hnow) PROVE hlist.next[hlist.pprev[n]] = n
  <2>1. PICK h \in ListHead : \E k \in 1 .. Len(hnow[h]) : HPlaced(hlist, hnow, n, h, k)
    BY <1>1, HPlace
  <2>2. PICK k \in 1 .. Len(hnow[h]) : HPlaced(hlist, hnow, n, h, k)
    BY <2>1
  <2>3. n = HAt(hnow[h], h, k) /\ hlist.pprev[n] = HAt(hnow[h], h, k - 1)
    BY <2>2 DEF HPlaced
  <2>4. HLine(hlist, hnow[h], h) /\ Len(hnow[h]) \in Nat
    BY <1>1 DEF HChain, Lines
  <2>5. k - 1 \in 0 .. Len(hnow[h]) /\ k - 1 + 1 = k
    BY <2>4
  <2>6. hlist.next[HAt(hnow[h], h, k - 1)] = HAt(hnow[h], h, k - 1 + 1)
    BY <2>4, <2>5 DEF HLine
  <2> QED
    BY <2>3, <2>5, <2>6
<1>5. ASSUME NEW ls \in Lines, NoShare(ls), NEW g \in ListHead, NEW h \in ListHead, g # h
      PROVE  ToSet(ls[g]) \cap ToSet(ls[h]) = {}
  <2>1. ASSUME NEW n, n \in ToSet(ls[g]), n \in ToSet(ls[h]) PROVE FALSE
    <3>1. PICK i \in 1 .. Len(ls[g]) : ls[g][i] = n
      BY <1>5, <2>1 DEF ToSet, Lines
    <3>2. PICK j \in 1 .. Len(ls[h]) : ls[h][j] = n
      BY <1>5, <2>1 DEF ToSet, Lines
    <3> QED
      BY <1>5, <3>1, <3>2 DEF NoShare
  <2> QED
    BY <2>1
<1>6. \A g, h \in ListHead : g # h =>
        ToSet(now[g]) \cap ToSet(now[h]) = {} /\ ToSet(hnow[g]) \cap ToSet(hnow[h]) = {}
  BY <1>1, <1>5
<1> QED
  BY <1>2, <1>3, <1>4, <1>6 DEF WellLinked

\* Each operation by its lemma, and RepNow for what the walks find afterwards.
LEMMA InvImplements ==
  ASSUME ListInv
  PROVE  ImplementsSequences
<1>1. Rep(list, now, stale) /\ HRep(hlist, hnow)
  BY DEF ListInv
<1>2. ASSUME NEW n \in Node, NEW x \in Cell, CanAdd(n, x)
      PROVE  /\ SeqsOf(list_add(list, n, x), stale) = After(now, <<n>>, x)
             /\ SeqsOf(list_add_tail(list, n, x), stale) = Before(now, <<n>>, x)
  <2>1. n \notin Linked(now) /\ In(now, stale, x)
    BY <1>2 DEF CanAdd, Place, In
  <2>2. /\ Rep(list_add(list, n, x), After(now, <<n>>, x), stale)
        /\ Rep(list_add_tail(list, n, x), Before(now, <<n>>, x), stale)
    BY <1>1, <2>1, AddOp
  <2> QED
    BY <2>2, RepNow
<1>3. ASSUME NEW n \in Node, CanDel(n)
      PROVE  /\ SeqsOf(list_del(list, n), stale) = Without(now, n)
             /\ SeqsOf(list_del_init(list, n), stale) = Without(now, n)
  <2>1. n \in Linked(now) \/ (n \in Node /\ list.next[n] = n)
    BY <1>3 DEF CanDel
  <2>2. Rep(list_del(list, n), Without(now, n), stale) /\ Rep(list_del_init(list, n), Without(now, n), stale)
    BY <1>1, <2>1, DelOp
  <2> QED
    BY <2>2, RepNow
<1>4. ASSUME NEW n \in Node, NEW x \in Cell, CanMove(n, x)
      PROVE  /\ SeqsOf(list_move(list, n, x), stale) = After(Without(now, n), <<n>>, x)
             /\ SeqsOf(list_move_tail(list, n, x), stale) = Before(Without(now, n), <<n>>, x)
  <2>1. (n \in Linked(now) \/ (n \in Node /\ list.next[n] = n)) /\ In(now, stale, x) /\ x # n
    BY <1>4 DEF CanMove, CanDel, Place, In
  <2>2. /\ Rep(list_move(list, n, x), After(Without(now, n), <<n>>, x), stale)
        /\ Rep(list_move_tail(list, n, x), Before(Without(now, n), <<n>>, x), stale)
    BY <1>1, <2>1, MoveOp
  <2> QED
    BY <2>2, RepNow
<1>5. ASSUME NEW g \in ListHead, NEW x \in Cell, CanSplice(g, x)
      PROVE  /\ SeqsOf(list_splice(list, g, x), stale \cup {g}) = Splice(now, g, x)
             /\ SeqsOf(list_splice_init(list, g, x), stale) = Splice(now, g, x)
  <2>1. g \notin stale /\ In(now, stale, x) /\ x # g /\ x \notin ToSet(now[g])
    BY <1>5 DEF CanSplice, Place, In
  <2>2. /\ Rep(list_splice(list, g, x), Splice(now, g, x), stale \cup {g})
        /\ Rep(list_splice_init(list, g, x), Splice(now, g, x), stale)
    BY <1>1, <2>1, SpliceOp
  <2> QED
    BY <2>2, RepNow
<1>6. ASSUME NEW n \in Node, CanHadd(n), NEW h \in ListHead
      PROVE  SeqsOf(hlist_add_head(hlist, n, h), {}) = After(hnow, <<n>>, h)
  <2>1. HRep(hlist_add_head(hlist, n, h), After(hnow, <<n>>, h))
    BY <1>1, <1>6, HAddHead DEF CanHadd
  <2> QED
    BY <2>1, HRepNow
<1>7. ASSUME NEW n \in Node, CanHadd(n), NEW x \in Linked(hnow)
      PROVE  /\ SeqsOf(hlist_add_before(hlist, n, x), {}) = Before(hnow, <<n>>, x)
             /\ SeqsOf(hlist_add_after(hlist, x, n), {}) = After(hnow, <<n>>, x)
  <2>1. /\ HRep(hlist_add_before(hlist, n, x), Before(hnow, <<n>>, x))
        /\ HRep(hlist_add_after(hlist, x, n), After(hnow, <<n>>, x))
    BY <1>1, <1>7, HAddNode DEF CanHadd
  <2> QED
    BY <2>1, HRepNow
<1>8. ASSUME NEW n \in Linked(hnow)
      PROVE  /\ SeqsOf(hlist_del(hlist, n), {}) = Without(hnow, n)
             /\ SeqsOf(hlist_del_init(hlist, n), {}) = Without(hnow, n)
  <2>1. HRep(hlist_del(hlist, n), Without(hnow, n)) /\ HRep(hlist_del_init(hlist, n), Without(hnow, n))
    BY <1>1, HDelOp
  <2> QED
    BY <2>1, HRepNow
<1> QED
  BY <1>2, <1>3, <1>4, <1>5, <1>6, <1>7, <1>8 DEF ImplementsSequences

\* What a loop has seen is what it had to see, up to where it stands.
LEMMA InvLoops ==
  ASSUME ListInv
  PROVE  SafeLoopVisitsAll
<1>1. SUFFICES ASSUME it.head # NIL
               PROVE  /\ it.pos \in {it.head} \cup Node
                      /\ IsPrefix(it.seen, it.todo)
                      /\ it.pos = it.head => it.seen = it.todo
  BY DEF SafeLoopVisitsAll
<1> DEFINE seen == it.seen  todo == it.todo  left == Len(it.todo) - Len(it.seen)
<1>2. /\ it.head \in ListHead /\ left \in Nat /\ \A i \in 1 .. Len(seen) : seen[i] = todo[i]
      /\ it.pos = IF left > 0 THEN todo[Len(seen) + 1] ELSE it.head
  BY <1>1 DEF ListInv, Running, Unseen
<1>3. seen \in Seq(Node) /\ todo \in Seq(Node) /\ Len(seen) \in Nat /\ Len(todo) \in Nat
  BY DEF ListInv, Loops
<1>4. left = Len(todo) - Len(seen) /\ Len(seen) =< Len(todo) /\ (left = 0 => Len(seen) = Len(todo))
  BY <1>2, <1>3
<1> HIDE DEF seen, todo, left
<1>5. left > 0 => todo[Len(seen) + 1] \in Node
  BY <1>2, <1>3, <1>4
<1>6. it.pos \in {it.head} \cup Node
  BY <1>2, <1>5
<1>7. SubSeq(seen, 1, Len(seen)) = SubSeq(todo, 1, Len(seen))
  BY <1>2, <1>3, <1>4
<1>8. IsPrefix(seen, todo)
  BY <1>4, <1>7 DEF IsPrefix
<1>9. ASSUME it.pos = it.head PROVE seen = todo
  <2>1. it.head \notin Node
    BY <1>2, ListAssumption
  <2>2. Len(seen) = Len(todo)
    BY <1>2, <1>4, <1>5, <1>9, <2>1
  <2> QED
    BY <1>2, <1>3, <2>2
<1> QED
  BY <1>6, <1>8, <1>9 DEF seen, todo
=============================================================================
