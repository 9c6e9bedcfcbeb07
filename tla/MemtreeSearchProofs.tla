------------------------ MODULE MemtreeSearchProofs -------------------------
(***************************************************************************)
(* The B-tree as a search tree, for any order, any keys and any number of  *)
(* nodes.  To every node belong two bounds, lo and hi, between which the   *)
(* keys under it lie: those of a branch are the records beside it.  The    *)
(* invariant Content says that between them the records are in order, and  *)
(* that the records of all nodes are the keys held.                        *)
(*                                                                         *)
(* The first parts show that each function of memtree.c, as MemtreeProofs  *)
(* describes it, leaves bounds that fit.  From them follows that only the  *)
(* nodes on one path can have a key, hence that the search, going down     *)
(* that path, finds it, and that an insertion is at a place where its key  *)
(* fits; and, by way of a least node for which it fails, that the walk     *)
(* lists what lies between the bounds of a node, and so do the cursors,    *)
(* one record after the other.                                             *)
(***************************************************************************)
EXTENDS MemtreeProofs

\* The keys under a node are between lo and hi of it; 0 is no bound.
Within(k, l, h) == l < k /\ (h = 0 \/ k < h)

\* The bounds of the place p of a node: the records beside it, or the node's own.
Low(ns, lo, n, p) == IF p = 0 THEN lo[n] ELSE ns[n].recs[p]
High(ns, hi, n, p) == IF p = Size(ns, n) THEN hi[n] ELSE ns[n].recs[p + 1]

\* The records of a node are in order, and its branches are bounded by them.
InOrder(ns, lo, hi, n) ==
    /\ \A i \in 1..Size(ns, n) : Within(ns[n].recs[i], lo[n], hi[n])
    /\ \A i, j \in 1..Size(ns, n) : i < j => ns[n].recs[i] < ns[n].recs[j]
    /\ \A i \in 1..Width(ns, n) : /\ lo[ns[n].branches[i]] = Low(ns, lo, n, i - 1)
                                  /\ hi[ns[n].branches[i]] = High(ns, hi, n, i - 1)

Ordered(ns, top, lo, hi) ==
    /\ lo \in [Node -> Nat] /\ hi \in [Node -> Nat]
    /\ lo[top] = 0 /\ hi[top] = 0
    /\ \A n \in Live(ns) : InOrder(ns, lo, hi, n)

\* A search tree with these bounds.
Tree(ns, top, lo, hi) == Linked(ns, top) /\ Ordered(ns, top, lo, hi)

\* What a node and the whole tree contain.
Holds(ns, n, k) == \E i \in 1..Size(ns, n) : ns[n].recs[i] = k
Contents(ns) == {k \in Keys : \E n \in Live(ns) : Holds(ns, n, k)}

-----------------------------------------------------------------------------
(* Order *)

\* What follows from Ordered for one node.
LEMMA NodeOrder ==
    ASSUME NEW V \in Memory, NEW top, NEW lo, NEW hi, Ordered(V, top, lo, hi), NEW n \in Live(V)
    PROVE  /\ lo[n] \in Nat /\ hi[n] \in Nat
           /\ \A i \in 1..Size(V, n) : /\ V[n].recs[i] \in Nat \ {0} /\ lo[n] < V[n].recs[i]
                                       /\ hi[n] = 0 \/ V[n].recs[i] < hi[n]
           /\ \A i, j \in 1..Size(V, n) : i < j => V[n].recs[i] < V[n].recs[j]
<1>1. n \in Node /\ \A i \in 1..Size(V, n) : V[n].recs[i] \in Nat \ {0}
  BY NodeTypes
<1>2. InOrder(V, lo, hi, n) /\ lo[n] \in Nat /\ hi[n] \in Nat
  BY <1>1 DEF Ordered
<1> QED BY <1>1, <1>2 DEF InOrder, Within

\* A node that keeps its records and branches stays in order.
LEMMA SameOrder ==
    ASSUME NEW V, NEW W, NEW lo, NEW hi, NEW x, W[x].recs = V[x].recs, W[x].branches = V[x].branches,
           InOrder(V, lo, hi, x)
    PROVE  InOrder(W, lo, hi, x)
BY DEF InOrder, Size, Width, Low, High

\* The median bounds the two parts.
LEMMA SplitOrdered ==
    ASSUME NEW V, NEW W, NEW top, NEW lo, NEW hi, NEW lo2, NEW hi2,
           NEW a, NEW f, NEW q, NEW o, NEW m,
           Tree(V, top, lo, hi), IsSplit(V, W, a, f, q, o, m),
           lo2 = [lo EXCEPT ![f] = V[a].recs[m + 1]],
           hi2 = [hi EXCEPT ![a] = V[a].recs[m + 1], ![f] = hi[a]]
    PROVE  Ordered(W, top, lo2, hi2)
<1>0. Linked(V, top) /\ Ordered(V, top, lo, hi)
  BY DEF Tree
<1>1. /\ V \in Memory /\ a # top /\ a # q /\ f # a /\ f # q /\ o \in Nat
      /\ o + 1 \in 1..Width(V, q) /\ V[q].branches[o + 1] = a
      /\ V[q].depth # 0 /\ Width(V, q) = Size(V, q) + 1
      /\ Size(V, q) \in Nat /\ Size(V, a) \in Nat
      /\ Width(V, a) = IF V[a].depth = 0 THEN 0 ELSE Size(V, a) + 1
  BY <1>0, SplitPlaces
<1>2. a \in Live(V) /\ q \in Live(V) /\ W \in Memory /\ Live(W) = Live(V) \cup {f} /\ f \notin Live(V)
      /\ m \in Nat /\ m < Size(V, a) /\ V[a].parent = q /\ V[a].pos = o /\ f \in Node /\ a \in Node
      /\ top \in Live(V)
  BY <1>0 DEF IsSplit, Live, Linked
<1> DEFINE med == V[a].recs[m + 1]
<1>3. lo \in [Node -> Nat] /\ hi \in [Node -> Nat] /\ med \in Nat \ {0}
  <2>1. m + 1 \in 1..Size(V, a)
    BY <1>1, <1>2
  <2>2. \A i \in 1..Size(V, a) : V[a].recs[i] \in Nat \ {0}
    BY <1>0, <1>1, <1>2, NodeOrder
  <2> QED BY <2>1, <2>2, <1>0 DEF Ordered
<1>4. lo2[f] = med /\ \A x \in Node : x # f => lo2[x] = lo[x]
  BY <1>2, <1>3
<1>5. hi2[a] = med /\ hi2[f] = hi[a] /\ \A x \in Node : x # f /\ x # a => hi2[x] = hi[x]
  BY <1>1, <1>2, <1>3
<1>6. lo2 \in [Node -> Nat] /\ hi2 \in [Node -> Nat]
  BY <1>2, <1>3
<1> HIDE DEF med
<1>7. lo2[top] = 0 /\ hi2[top] = 0
  <2>1. top # f /\ top # a /\ top \in Node
    BY <1>1, <1>2 DEF Live
  <2> QED BY <2>1, <1>0, <1>4, <1>5 DEF Ordered
<1>8. /\ lo[a] \in Nat /\ hi[a] \in Nat
      /\ \A i \in 1..Size(V, a) : /\ V[a].recs[i] \in Nat \ {0} /\ lo[a] < V[a].recs[i]
                                  /\ hi[a] = 0 \/ V[a].recs[i] < hi[a]
      /\ \A i, j \in 1..Size(V, a) : i < j => V[a].recs[i] < V[a].recs[j]
  BY <1>0, <1>1, <1>2, NodeOrder
<1>9. lo[a] < med /\ (hi[a] = 0 \/ med < hi[a])
  BY <1>1, <1>2, <1>8 DEF med
<1>10. InOrder(V, lo, hi, a) /\ InOrder(V, lo, hi, q)
  BY <1>0, <1>2 DEF Ordered
<1>11. ASSUME NEW n \in Live(V), NEW i \in 1..Width(V, n)
       PROVE  /\ V[n].branches[i] \in Live(V) /\ V[n].branches[i] \in Node /\ V[n].branches[i] # f
              /\ V[n].branches[i] = a <=> n = q /\ i = o + 1
  <2>1. V[n].branches[i] \in Live(V) /\ V[V[n].branches[i]].parent = n /\ V[V[n].branches[i]].pos = i - 1
    BY <1>0 DEF Linked, Down
  <2>2. Width(V, n) \in Nat
    BY <1>1, NodeTypes
  <2> QED BY <2>1, <2>2, <1>1, <1>2 DEF Live
<1>12. ASSUME NEW n \in Live(V), NEW i \in 1..Width(V, n)
       PROVE  /\ lo2[V[n].branches[i]] = Low(V, lo, n, i - 1)
              /\ (n # q \/ i # o + 1) => hi2[V[n].branches[i]] = High(V, hi, n, i - 1)
  <2>1. lo[V[n].branches[i]] = Low(V, lo, n, i - 1) /\ hi[V[n].branches[i]] = High(V, hi, n, i - 1)
    BY <1>0 DEF Ordered, InOrder
  <2> QED BY <2>1, <1>4, <1>5, <1>11
<1>13. InOrder(W, lo2, hi2, a)
  <2>1. /\ Size(W, a) = m /\ \A i \in 1..m : W[a].recs[i] = V[a].recs[i]
        /\ Width(W, a) = IF V[a].depth = 0 THEN 0 ELSE m + 1
        /\ \A i \in 1..Width(W, a) : W[a].branches[i] = V[a].branches[i]
    BY DEF IsSplit
  <2>2. lo2[a] = lo[a]
    BY <1>1, <1>2, <1>4
  <2>3. \A i \in 1..m : i \in 1..Size(V, a) /\ V[a].recs[i] < med
    BY <1>1, <1>2, <1>8 DEF med
  <2>4. \A i \in 1..Size(W, a) : Within(W[a].recs[i], lo2[a], hi2[a])
    BY <2>1, <2>2, <2>3, <1>5, <1>8 DEF Within
  <2>5. \A i, j \in 1..Size(W, a) : i < j => W[a].recs[i] < W[a].recs[j]
    BY <2>1, <2>3, <1>8
  <2>6. ASSUME NEW i \in 1..Width(W, a)
        PROVE  /\ lo2[W[a].branches[i]] = Low(W, lo2, a, i - 1)
               /\ hi2[W[a].branches[i]] = High(W, hi2, a, i - 1)
    <3>1. W[a].branches[i] = V[a].branches[i] /\ i \in 1..Width(V, a) /\ i \in 1..(m + 1)
      BY <2>1, <1>1, <1>2
    <3>2. lo2[W[a].branches[i]] = Low(V, lo, a, i - 1) /\ hi2[W[a].branches[i]] = High(V, hi, a, i - 1)
      <4>1. /\ lo2[V[a].branches[i]] = Low(V, lo, a, i - 1)
            /\ (a # q \/ i # o + 1) => hi2[V[a].branches[i]] = High(V, hi, a, i - 1)
        BY <3>1, <1>2, <1>12
      <4> QED BY <3>1, <4>1, <1>1
    <3>3. Low(V, lo, a, i - 1) = Low(W, lo2, a, i - 1)
      <4>1. i - 1 = 0 \/ i - 1 \in 1..m
        BY <3>1, <1>2
      <4> QED BY <4>1, <2>1, <2>2 DEF Low
    <3>4. High(V, hi, a, i - 1) = High(W, hi2, a, i - 1)
      <4>1. i - 1 # Size(V, a)
        BY <3>1, <1>1, <1>2
      <4>2. CASE i - 1 = m
        BY <4>1, <4>2, <2>1, <1>5 DEF High, med
      <4>3. CASE i - 1 # m
        <5>1. (i - 1) + 1 \in 1..m
          BY <4>3, <3>1, <1>2
        <5> QED BY <4>1, <4>3, <5>1, <2>1 DEF High
      <4> QED BY <4>2, <4>3
    <3> QED BY <3>2, <3>3, <3>4
  <2> QED BY <2>4, <2>5, <2>6 DEF InOrder
<1>14. InOrder(W, lo2, hi2, f)
  <2> DEFINE s == Size(V, a) - m - 1
  <2>1. /\ Size(W, f) = s
        /\ \A i \in 1..s : W[f].recs[i] = V[a].recs[m + 1 + i]
        /\ Width(W, f) = IF V[a].depth = 0 THEN 0 ELSE Size(V, a) - m
        /\ \A i \in 1..Width(W, f) : W[f].branches[i] = V[a].branches[m + 1 + i]
    BY DEF IsSplit
  <2>2. s \in Nat /\ Size(V, a) - m = s + 1 /\ Size(V, a) = m + 1 + s
    BY <1>1, <1>2
  <2> HIDE DEF s
  <2>3. \A i \in 1..s : m + 1 + i \in 1..Size(V, a) /\ med < V[a].recs[m + 1 + i]
    <3>1. m + 1 \in 1..Size(V, a) /\ \A i \in 1..s : m + 1 + i \in 1..Size(V, a) /\ m + 1 < m + 1 + i
      BY <1>2, <2>2
    <3> QED BY <3>1, <1>8 DEF med
  <2>4. \A i \in 1..Size(W, f) : Within(W[f].recs[i], lo2[f], hi2[f])
    BY <2>1, <2>3, <1>4, <1>5, <1>8 DEF Within
  <2>5. ASSUME NEW i \in 1..Size(W, f), NEW j \in 1..Size(W, f), i < j PROVE W[f].recs[i] < W[f].recs[j]
    <3>1. m + 1 + i < m + 1 + j
      BY <2>1, <2>2, <2>5, <1>2
    <3> QED BY <3>1, <2>1, <2>3, <1>8
  <2>6. ASSUME NEW i \in 1..Width(W, f)
        PROVE  /\ lo2[W[f].branches[i]] = Low(W, lo2, f, i - 1)
               /\ hi2[W[f].branches[i]] = High(W, hi2, f, i - 1)
    <3>1. W[f].branches[i] = V[a].branches[m + 1 + i] /\ m + 1 + i \in 1..Width(V, a) /\ i \in 1..(s + 1)
          /\ (m + 1 + i) - 1 = m + i
      BY <2>1, <2>2, <1>1, <1>2
    <3>2. lo2[W[f].branches[i]] = Low(V, lo, a, m + i) /\ hi2[W[f].branches[i]] = High(V, hi, a, m + i)
      <4> DEFINE j == m + 1 + i
      <4>1. j \in 1..Width(V, a) /\ j - 1 = m + i
        BY <3>1
      <4> HIDE DEF j
      <4>2. /\ lo2[V[a].branches[j]] = Low(V, lo, a, j - 1)
            /\ (a # q \/ j # o + 1) => hi2[V[a].branches[j]] = High(V, hi, a, j - 1)
        BY <4>1, <1>2, <1>12
      <4>3. W[f].branches[i] = V[a].branches[j]
        BY <3>1 DEF j
      <4> QED BY <4>1, <4>2, <4>3, <1>1
    <3>3. Low(V, lo, a, m + i) = Low(W, lo2, f, i - 1)
      <4>1. m + i # 0
        BY <3>1, <1>2, <2>2
      <4>2. CASE i = 1
        BY <4>1, <4>2, <1>4 DEF Low, med
      <4>3. CASE i # 1
        <5>1. i - 1 \in 1..s /\ m + 1 + (i - 1) = m + i /\ i - 1 # 0
          BY <4>3, <3>1, <1>2, <2>2
        <5> QED BY <4>1, <5>1, <2>1 DEF Low
      <4> QED BY <4>2, <4>3
    <3>4. High(V, hi, a, m + i) = High(W, hi2, f, i - 1)
      <4>1. CASE i = s + 1
        <5>1. m + i = Size(V, a) /\ i - 1 = Size(W, f)
          BY <4>1, <2>1, <2>2, <1>2
        <5> QED BY <5>1, <1>5 DEF High
      <4>2. CASE i # s + 1
        <5>1. m + i # Size(V, a) /\ i - 1 # Size(W, f) /\ (i - 1) + 1 = i /\ i \in 1..s
              /\ (m + i) + 1 = m + 1 + i
          BY <4>2, <3>1, <2>1, <2>2, <1>2
        <5> QED BY <5>1, <2>1 DEF High
      <4> QED BY <4>1, <4>2
    <3> QED BY <3>2, <3>3, <3>4
  <2> QED BY <2>4, <2>5, <2>6 DEF InOrder
<1>15. InOrder(W, lo2, hi2, q)
  <2>1. /\ Size(W, q) = Size(V, q) + 1
        /\ \A i \in 1..o : W[q].recs[i] = V[q].recs[i]
        /\ W[q].recs[o + 1] = med
        /\ \A i \in (o + 1)..Size(V, q) : W[q].recs[i + 1] = V[q].recs[i]
        /\ Width(W, q) = Width(V, q) + 1
        /\ \A i \in 1..(o + 1) : W[q].branches[i] = V[q].branches[i]
        /\ W[q].branches[o + 2] = f
        /\ \A i \in (o + 2)..Width(V, q) : W[q].branches[i + 1] = V[q].branches[i]
    BY DEF IsSplit, med
  <2>2. lo2[q] = lo[q] /\ hi2[q] = hi[q]
    BY <1>1, <1>2, <1>4, <1>5 DEF Live
  <2>3. /\ lo[q] \in Nat /\ hi[q] \in Nat
        /\ \A i \in 1..Size(V, q) : /\ V[q].recs[i] \in Nat \ {0} /\ lo[q] < V[q].recs[i]
                                    /\ hi[q] = 0 \/ V[q].recs[i] < hi[q]
        /\ \A i, j \in 1..Size(V, q) : i < j => V[q].recs[i] < V[q].recs[j]
    BY <1>0, <1>1, <1>2, NodeOrder
  <2>4. lo[a] = Low(V, lo, q, o) /\ hi[a] = High(V, hi, q, o)
    BY <1>1, <1>2, <1>10 DEF InOrder
  <2>5. o <= Size(V, q)
    BY <1>1
  <2>6. \A i \in 1..Size(V, q) : IF i <= o THEN V[q].recs[i] < med ELSE med < V[q].recs[i]
    <3>1. ASSUME NEW i \in 1..Size(V, q), i <= o PROVE V[q].recs[i] < med
      <4>1. o \in 1..Size(V, q) /\ lo[a] = V[q].recs[o]
        BY <3>1, <1>1, <2>4, <2>5 DEF Low
      <4> QED BY <4>1, <3>1, <2>3, <1>3, <1>9
    <3>2. ASSUME NEW i \in 1..Size(V, q), ~(i <= o) PROVE med < V[q].recs[i]
      <4>1. o + 1 \in 1..Size(V, q) /\ hi[a] = V[q].recs[o + 1]
        BY <3>2, <1>1, <2>4, <2>5 DEF High
      <4>2. med < V[q].recs[o + 1]
        BY <4>1, <2>3, <1>9
      <4> QED BY <4>1, <4>2, <3>2, <2>3, <1>3, <1>1
    <3> QED BY <3>1, <3>2
  <2>7. lo[q] < med /\ (hi[q] = 0 \/ med < hi[q])
    <3>1. lo[q] < med
      <4>1. CASE o = 0
        BY <4>1, <2>4, <1>9 DEF Low
      <4>2. CASE o # 0
        <5>1. o \in 1..Size(V, q)
          BY <4>2, <2>5, <1>1
        <5> QED BY <5>1, <2>3, <2>6, <1>3
      <4> QED BY <4>1, <4>2
    <3>2. hi[q] = 0 \/ med < hi[q]
      <4>1. CASE o = Size(V, q)
        BY <4>1, <2>4, <1>9 DEF High
      <4>2. CASE o # Size(V, q)
        <5>1. o + 1 \in 1..Size(V, q) /\ ~(o + 1 <= o)
          BY <4>2, <2>5, <1>1
        <5> QED BY <5>1, <2>3, <2>6, <1>3
      <4> QED BY <4>1, <4>2
    <3> QED BY <3>1, <3>2
  <2>8. ASSUME NEW i \in 1..Size(W, q)
        PROVE  /\ i <= o => i \in 1..Size(V, q) /\ W[q].recs[i] = V[q].recs[i]
               /\ i = o + 1 => W[q].recs[i] = med
               /\ i > o + 1 => i - 1 \in 1..Size(V, q) /\ i - 1 > o /\ W[q].recs[i] = V[q].recs[i - 1]
    <3>1. i <= o => i \in 1..Size(V, q) /\ i \in 1..o
      BY <1>1, <2>1, <2>5
    <3>2. i > o + 1 => i - 1 \in 1..Size(V, q) /\ i - 1 \in (o + 1)..Size(V, q) /\ (i - 1) + 1 = i /\ i - 1 > o
      BY <1>1, <2>1, <2>5
    <3> QED BY <3>1, <3>2, <2>1
  <2>9. \A i \in 1..Size(W, q) : Within(W[q].recs[i], lo2[q], hi2[q])
    <3> SUFFICES ASSUME NEW i \in 1..Size(W, q) PROVE Within(W[q].recs[i], lo2[q], hi2[q])
      OBVIOUS
    <3>1. i <= o \/ i = o + 1 \/ i > o + 1
      BY <1>1, <2>1
    <3> QED BY <3>1, <2>8, <2>2, <2>3, <2>7 DEF Within
  <2>10. ASSUME NEW i \in 1..Size(W, q), NEW j \in 1..Size(W, q), i < j
         PROVE  W[q].recs[i] < W[q].recs[j]
    <3>1. CASE i <= o /\ j <= o
      BY <3>1, <2>3, <2>8, <2>10
    <3>2. CASE i <= o /\ j = o + 1
      BY <3>2, <2>6, <2>8
    <3>3. CASE i <= o /\ j > o + 1
      <4>1. i \in 1..Size(V, q) /\ j - 1 \in 1..Size(V, q) /\ i < j - 1
        BY <3>3, <1>1, <2>1, <2>8
      <4> QED BY <4>1, <3>3, <2>3, <2>8
    <3>4. CASE i = o + 1
      <4>1. j > o + 1 /\ ~(j - 1 <= o)
        BY <3>4, <2>10, <1>1, <2>1
      <4> QED BY <4>1, <3>4, <2>6, <2>8
    <3>5. CASE i > o + 1
      <4>1. j > o + 1 /\ i - 1 < j - 1
        BY <3>5, <2>10, <1>1, <2>1
      <4> QED BY <4>1, <3>5, <2>3, <2>8
    <3> QED BY <3>1, <3>2, <3>3, <3>4, <3>5, <1>1, <2>1
  <2>11. ASSUME NEW i \in 1..Width(W, q)
         PROVE  /\ lo2[W[q].branches[i]] = Low(W, lo2, q, i - 1)
                /\ hi2[W[q].branches[i]] = High(W, hi2, q, i - 1)
    <3>1. CASE i <= o
      <4>1. i \in 1..Width(V, q) /\ i # o + 1 /\ i \in 1..(o + 1) /\ i \in 1..Size(W, q)
            /\ i - 1 # Size(V, q) /\ i - 1 # Size(W, q) /\ (i - 1) + 1 = i
            /\ (i - 1 = 0 \/ i - 1 \in 1..o)
        BY <3>1, <1>1, <2>1, <2>5
      <4>2. W[q].branches[i] = V[q].branches[i]
        BY <4>1, <2>1
      <4>3. lo2[W[q].branches[i]] = Low(V, lo, q, i - 1) /\ hi2[W[q].branches[i]] = High(V, hi, q, i - 1)
        BY ZenonT(60), <4>1, <4>2, <1>2, <1>12
      <4>4. W[q].recs[i] = V[q].recs[i]
        BY <4>1, <3>1, <2>8
      <4> QED BY <4>1, <4>3, <4>4, <2>1, <2>2 DEF Low, High
    <3>2. CASE i = o + 1
      <4>1. i \in 1..Width(V, q) /\ i \in 1..(o + 1) /\ i - 1 = o /\ o # Size(W, q) /\ (o = 0 \/ o \in 1..o)
        BY <3>2, <1>1, <2>1, <2>5
      <4>2. W[q].branches[i] = a
        BY <4>1, <3>2, <2>1, <1>1
      <4>3. lo2[a] = Low(V, lo, q, o) /\ hi2[a] = med
        BY <1>1, <1>2, <1>4, <1>5, <2>4
      <4> QED BY <4>1, <4>2, <4>3, <2>1, <2>2 DEF Low, High
    <3>3. CASE i = o + 2
      <4>1. i - 1 = o + 1 /\ o + 1 # 0 /\ (o + 1 = Size(W, q) <=> o = Size(V, q))
            /\ (o # Size(V, q) => o + 1 \in (o + 1)..Size(V, q)) /\ (o + 1) + 1 = o + 2
        BY <3>3, <1>1, <2>1, <2>5
      <4>2. lo2[f] = Low(W, lo2, q, o + 1)
        BY <4>1, <2>1, <1>4 DEF Low
      <4>3. hi2[f] = High(W, hi2, q, o + 1)
        <5>1. hi2[f] = High(V, hi, q, o)
          BY <1>5, <2>4
        <5>2. CASE o = Size(V, q)
          BY <5>1, <5>2, <4>1, <2>2 DEF High
        <5>3. CASE o # Size(V, q)
          <6>1. W[q].recs[(o + 1) + 1] = V[q].recs[o + 1]
            BY <5>3, <4>1, <2>1
          <6> QED BY <5>1, <5>3, <6>1, <4>1 DEF High
        <5> QED BY <5>2, <5>3
      <4> QED BY <3>3, <4>1, <4>2, <4>3, <2>1
    <3>4. CASE i > o + 2
      <4> DEFINE j == i - 1
      <4>1. j \in (o + 2)..Width(V, q) /\ j \in 1..Width(V, q) /\ j + 1 = i /\ j # o + 1
            /\ j - 1 \in (o + 1)..Size(V, q) /\ (j - 1) + 1 = j /\ j # 0 /\ j - 1 # 0
            /\ (j = Size(W, q) <=> j - 1 = Size(V, q))
            /\ (j - 1 # Size(V, q) => j \in (o + 1)..Size(V, q))
        BY <3>4, <1>1, <2>1, <2>5
      <4>5. i - 1 = j
        OBVIOUS
      <4> HIDE DEF j
      <4>2. W[q].branches[i] = V[q].branches[j]
        BY <4>1, <2>1
      <4>3. lo2[W[q].branches[i]] = Low(V, lo, q, j - 1) /\ hi2[W[q].branches[i]] = High(V, hi, q, j - 1)
        <5>1. /\ lo2[V[q].branches[j]] = Low(V, lo, q, j - 1)
              /\ (q # q \/ j # o + 1) => hi2[V[q].branches[j]] = High(V, hi, q, j - 1)
          BY <4>1, <1>2, <1>12
        <5> QED BY <4>1, <4>2, <5>1
      <4>4. W[q].recs[j] = V[q].recs[j - 1]
        BY <4>1, <2>1
      <4>6. Low(V, lo, q, j - 1) = Low(W, lo2, q, j)
        BY <4>1, <4>4 DEF Low
      <4>7. High(V, hi, q, j - 1) = High(W, hi2, q, j)
        <5>1. CASE j - 1 = Size(V, q)
          BY <5>1, <4>1, <2>2 DEF High
        <5>2. CASE j - 1 # Size(V, q)
          <6>1. W[q].recs[j + 1] = V[q].recs[j]
            BY <5>2, <4>1, <2>1
          <6> QED BY <5>2, <6>1, <4>1 DEF High
        <5> QED BY <5>1, <5>2
      <4> QED BY <4>3, <4>5, <4>6, <4>7
    <3> QED BY <3>1, <3>2, <3>3, <3>4, <1>1, <2>1
  <2> QED BY <2>9, <2>10, <2>11 DEF InOrder
<1>16. ASSUME NEW n \in Live(V), n # a, n # q PROVE InOrder(W, lo2, hi2, n)
  <2>1. W[n].recs = V[n].recs /\ W[n].branches = V[n].branches
    BY <1>16 DEF IsSplit
  <2>2. InOrder(V, lo, hi, n) /\ lo2[n] = lo[n] /\ hi2[n] = hi[n]
    BY <1>0, <1>2, <1>4, <1>5, <1>16 DEF Ordered, Live
  <2>3. Size(W, n) = Size(V, n) /\ Width(W, n) = Width(V, n)
        /\ \A p : Low(W, lo2, n, p) = Low(V, lo, n, p) /\ High(W, hi2, n, p) = High(V, hi, n, p)
    BY <2>1, <2>2 DEF Size, Width, Low, High
  <2>4. ASSUME NEW i \in 1..Width(W, n)
        PROVE  /\ lo2[W[n].branches[i]] = Low(W, lo2, n, i - 1)
               /\ hi2[W[n].branches[i]] = High(W, hi2, n, i - 1)
    BY <1>12, <1>16, <2>1, <2>3
  <2> QED BY <2>1, <2>2, <2>3, <2>4 DEF InOrder
<1>17. \A n \in Live(W) : InOrder(W, lo2, hi2, n)
  BY <1>2, <1>13, <1>14, <1>15, <1>16
<1> QED BY <1>6, <1>7, <1>17 DEF Ordered

\* A split moves keys and loses none.
LEMMA SplitContents ==
    ASSUME NEW V, NEW W, NEW top, NEW a, NEW f, NEW q, NEW o, NEW m,
           Linked(V, top), IsSplit(V, W, a, f, q, o, m)
    PROVE  Contents(W) = Contents(V)
<1>1. /\ a # q /\ f # a /\ f # q /\ o \in Nat /\ o + 1 \in 1..Width(V, q)
      /\ Width(V, q) = Size(V, q) + 1 /\ Size(V, q) \in Nat /\ Size(V, a) \in Nat
  BY SplitPlaces
<1>2. a \in Live(V) /\ q \in Live(V) /\ Live(W) = Live(V) \cup {f} /\ f \notin Live(V)
      /\ m \in Nat /\ m < Size(V, a)
  BY DEF IsSplit
<1>3. /\ Size(W, a) = m /\ \A i \in 1..m : W[a].recs[i] = V[a].recs[i]
      /\ Size(W, f) = Size(V, a) - m - 1
      /\ \A i \in 1..(Size(V, a) - m - 1) : W[f].recs[i] = V[a].recs[m + 1 + i]
      /\ Size(W, q) = Size(V, q) + 1
      /\ \A i \in 1..o : W[q].recs[i] = V[q].recs[i]
      /\ W[q].recs[o + 1] = V[a].recs[m + 1]
      /\ \A i \in (o + 1)..Size(V, q) : W[q].recs[i + 1] = V[q].recs[i]
  BY DEF IsSplit
<1>4. \A x \in Live(V) : x # a /\ x # q => W[x].recs = V[x].recs /\ Size(W, x) = Size(V, x)
  BY DEF IsSplit, Size
<1>5. ASSUME NEW c \in Contents(W) PROVE c \in Contents(V)
  <2>1. PICK x \in Live(W) : \E i \in 1..Size(W, x) : W[x].recs[i] = c
    BY <1>5 DEF Contents, Holds
  <2>2. PICK i \in 1..Size(W, x) : W[x].recs[i] = c
    BY <2>1
  <2>3. \E y \in Live(V) : \E j \in 1..Size(V, y) : V[y].recs[j] = c
    <3>1. CASE x = a
      <4>1. i \in 1..m /\ i \in 1..Size(V, a)
        BY <3>1, <1>1, <1>2, <1>3
      <4> QED BY <4>1, <3>1, <2>2, <1>2, <1>3
    <3>2. CASE x = f
      <4>1. i \in 1..(Size(V, a) - m - 1) /\ m + 1 + i \in 1..Size(V, a)
        BY <3>2, <1>1, <1>2, <1>3
      <4> QED BY <4>1, <3>2, <2>2, <1>2, <1>3
    <3>3. CASE x = q /\ i <= o
      <4>1. i \in 1..o /\ i \in 1..Size(V, q)
        BY <3>3, <1>1, <1>3
      <4> QED BY <4>1, <3>3, <2>2, <1>2, <1>3
    <3>4. CASE x = q /\ i = o + 1
      <4>1. m + 1 \in 1..Size(V, a)
        BY <1>1, <1>2
      <4> QED BY <4>1, <3>4, <2>2, <1>2, <1>3
    <3>5. CASE x = q /\ i > o + 1
      <4>1. i - 1 \in (o + 1)..Size(V, q) /\ i - 1 \in 1..Size(V, q) /\ (i - 1) + 1 = i
        BY <3>5, <1>1, <1>3
      <4>2. V[q].recs[i - 1] = c
        BY <4>1, <3>5, <2>2, <1>3
      <4> QED BY <4>1, <4>2, <1>2
    <3>6. CASE x # a /\ x # f /\ x # q
      BY <3>6, <2>2, <1>2, <1>4
    <3> QED BY <3>1, <3>2, <3>3, <3>4, <3>5, <3>6, <1>1, <1>3
  <2> QED BY <2>3, <1>5 DEF Contents, Holds
<1>6. ASSUME NEW c \in Contents(V) PROVE c \in Contents(W)
  <2>1. PICK x \in Live(V) : \E i \in 1..Size(V, x) : V[x].recs[i] = c
    BY <1>6 DEF Contents, Holds
  <2>2. PICK i \in 1..Size(V, x) : V[x].recs[i] = c
    BY <2>1
  <2>3. \E y \in Live(W) : \E j \in 1..Size(W, y) : W[y].recs[j] = c
    <3>1. CASE x = a /\ i <= m
      <4>1. i \in 1..m
        BY <3>1, <1>1, <1>2
      <4> QED BY <4>1, <3>1, <2>2, <1>2, <1>3
    <3>2. CASE x = a /\ i = m + 1
      <4>1. o + 1 \in 1..Size(W, q)
        BY <1>1, <1>3
      <4> QED BY <4>1, <3>2, <2>2, <1>2, <1>3
    <3>3. CASE x = a /\ i > m + 1
      <4>1. i - (m + 1) \in 1..(Size(V, a) - m - 1) /\ m + 1 + (i - (m + 1)) = i
        BY <3>3, <1>1, <1>2
      <4>2. W[f].recs[i - (m + 1)] = c
        BY <4>1, <3>3, <2>2, <1>3
      <4> QED BY <4>1, <4>2, <1>2, <1>3
    <3>4. CASE x = q /\ i <= o
      <4>1. i \in 1..o /\ i \in 1..Size(W, q)
        BY <3>4, <1>1, <1>3
      <4> QED BY <4>1, <3>4, <2>2, <1>2, <1>3
    <3>5. CASE x = q /\ i > o
      <4>1. i \in (o + 1)..Size(V, q) /\ i + 1 \in 1..Size(W, q)
        BY <3>5, <1>1, <1>3
      <4>2. W[q].recs[i + 1] = c
        BY <4>1, <3>5, <2>2, <1>3
      <4> QED BY <4>1, <4>2, <1>2
    <3>6. CASE x # a /\ x # q
      BY <3>6, <2>2, <1>2, <1>4
    <3> QED BY <3>1, <3>2, <3>3, <3>4, <3>5, <3>6, <1>1, <1>2
  <2> QED BY <2>3, <1>6 DEF Contents, Holds
<1> QED BY <1>5, <1>6

-----------------------------------------------------------------------------
(* A record more or less in a leaf *)

\* A key that fits its place in a leaf can be put there: the order stays, and the
\* tree has that key more.
LEMMA LeafGrows ==
    ASSUME NEW V, NEW top, NEW lo, NEW hi, Linked(V, top), Ordered(V, top, lo, hi),
           NEW n \in Live(V), V[n].depth = 0, NEW p \in 0..Size(V, n), NEW k \in Keys,
           Within(k, Low(V, lo, n, p), High(V, hi, n, p)),
           NEW W, Live(W) = Live(V), Inserted(V[n].recs, p + 1, k, W[n].recs), W[n].branches = V[n].branches,
           \A x \in Live(V) : x # n => W[x].recs = V[x].recs /\ W[x].branches = V[x].branches
    PROVE  Ordered(W, top, lo, hi) /\ Contents(W) = Contents(V) \cup {k}
<1>1. V \in Memory /\ n \in Node /\ Size(V, n) \in Nat /\ k \in Nat \ {0} /\ Width(V, n) = 0
  <2>1. V \in Memory /\ Width(V, n) = 0
    BY LinkDown DEF Linked
  <2> QED BY <2>1, NodeTypes, KeysOrdered
<1>2. /\ lo[n] \in Nat /\ hi[n] \in Nat
      /\ \A i \in 1..Size(V, n) : /\ V[n].recs[i] \in Nat \ {0} /\ lo[n] < V[n].recs[i]
                                  /\ hi[n] = 0 \/ V[n].recs[i] < hi[n]
      /\ \A i, j \in 1..Size(V, n) : i < j => V[n].recs[i] < V[n].recs[j]
  BY <1>1, NodeOrder
<1>3. /\ Size(W, n) = Size(V, n) + 1 /\ Width(W, n) = 0 /\ W[n].recs[p + 1] = k
      /\ \A i \in 1..p : W[n].recs[i] = V[n].recs[i]
      /\ \A i \in (p + 1)..Size(V, n) : W[n].recs[i + 1] = V[n].recs[i]
  <2>1. \A i \in 1..((p + 1) - 1) : W[n].recs[i] = V[n].recs[i]
    BY DEF Inserted
  <2>2. (p + 1) - 1 = p
    BY <1>1
  <2> QED BY <2>1, <2>2, <1>1 DEF Inserted, Size, Width
<1>4. \A i \in 1..p : i \in 1..Size(V, n) /\ V[n].recs[i] < k
  <2>1. ASSUME NEW i \in 1..p PROVE V[n].recs[i] < k
    <3>1. V[n].recs[p] < k /\ p \in 1..Size(V, n) /\ i \in 1..Size(V, n)
      BY <1>1 DEF Within, Low
    <3> QED BY <3>1, <1>1, <1>2
  <2> QED BY <2>1, <1>1
<1>5. \A i \in (p + 1)..Size(V, n) : i \in 1..Size(V, n) /\ k < V[n].recs[i]
  <2>1. ASSUME NEW i \in (p + 1)..Size(V, n) PROVE k < V[n].recs[i]
    <3>1. p # Size(V, n) /\ p + 1 \in 1..Size(V, n) /\ i \in 1..Size(V, n)
      BY <1>1
    <3>2. k < V[n].recs[p + 1]
      BY <3>1, <1>2 DEF Within, High
    <3> QED BY <3>1, <3>2, <1>1, <1>2
  <2> QED BY <2>1, <1>1
<1>6. Within(k, lo[n], hi[n])
  <2>1. lo[n] < k
    <3>1. CASE p = 0
      BY <3>1 DEF Within, Low
    <3>2. CASE p # 0
      <4>1. p \in 1..p
        BY <3>2, <1>1
      <4> QED BY <4>1, <1>1, <1>2, <1>4
    <3> QED BY <3>1, <3>2
  <2>2. hi[n] = 0 \/ k < hi[n]
    <3>1. CASE p = Size(V, n)
      BY <3>1 DEF Within, High
    <3>2. CASE p # Size(V, n)
      <4>1. p + 1 \in (p + 1)..Size(V, n)
        BY <3>2, <1>1
      <4> QED BY <4>1, <1>1, <1>2, <1>5
    <3> QED BY <3>1, <3>2
  <2> QED BY <2>1, <2>2 DEF Within
\* Where a record of W comes from.
<1>7. ASSUME NEW i \in 1..Size(W, n)
      PROVE  \/ i <= p /\ i \in 1..p /\ W[n].recs[i] = V[n].recs[i]
             \/ i = p + 1 /\ W[n].recs[i] = k
             \/ i > p + 1 /\ i - 1 \in (p + 1)..Size(V, n) /\ W[n].recs[i] = V[n].recs[i - 1]
  <2>1. CASE i <= p
    BY <2>1, <1>1, <1>3
  <2>2. CASE i = p + 1
    BY <2>2, <1>3
  <2>3. CASE i > p + 1
    <3>1. i - 1 \in (p + 1)..Size(V, n) /\ (i - 1) + 1 = i
      BY <2>3, <1>1, <1>3
    <3> QED BY <3>1, <2>3, <1>3
  <2> QED BY <2>1, <2>2, <2>3, <1>1
<1>8. InOrder(W, lo, hi, n)
  <2>1. ASSUME NEW i \in 1..Size(W, n) PROVE Within(W[n].recs[i], lo[n], hi[n])
    BY <1>2, <1>4, <1>5, <1>6, <1>7 DEF Within
  <2>2. ASSUME NEW i \in 1..Size(W, n), NEW j \in 1..Size(W, n), i < j PROVE W[n].recs[i] < W[n].recs[j]
    <3>1. CASE i <= p
      <4>1. i \in 1..Size(V, n) /\ W[n].recs[i] = V[n].recs[i] /\ V[n].recs[i] < k /\ V[n].recs[i] \in Nat
        BY <3>1, <1>1, <1>2, <1>4, <1>7
      <4>2. CASE j <= p
        BY <4>1, <4>2, <2>2, <1>1, <1>2, <1>4, <1>7
      <4>3. CASE j = p + 1
        BY <4>1, <4>3, <1>1, <1>7
      <4>4. CASE j > p + 1
        BY <4>1, <4>4, <1>1, <1>2, <1>5, <1>7
      <4> QED BY <4>2, <4>3, <4>4, <1>1
    <3>2. CASE i = p + 1
      <4>1. j > p + 1 /\ W[n].recs[i] = k
        BY <3>2, <2>2, <1>1, <1>7
      <4> QED BY <4>1, <1>1, <1>5, <1>7
    <3>3. CASE i > p + 1
      <4>1. i - 1 \in 1..Size(V, n) /\ j - 1 \in 1..Size(V, n) /\ i - 1 < j - 1
            /\ W[n].recs[i] = V[n].recs[i - 1] /\ W[n].recs[j] = V[n].recs[j - 1]
        BY <3>3, <2>2, <1>1, <1>5, <1>7
      <4> QED BY <4>1, <1>2
    <3> QED BY <3>1, <3>2, <3>3, <1>1
  <2>3. 1..Width(W, n) = {}
    BY <1>3
  <2> QED BY <2>1, <2>2, <2>3 DEF InOrder
<1>9. Ordered(W, top, lo, hi)
  <2>1. ASSUME NEW x \in Live(V), x # n PROVE InOrder(W, lo, hi, x)
    BY <2>1, SameOrder DEF Ordered
  <2> QED BY <2>1, <1>8 DEF Ordered
<1>10. ASSUME NEW c PROVE Holds(W, n, c) <=> Holds(V, n, c) \/ c = k
  <2>1. ASSUME Holds(W, n, c), c # k PROVE Holds(V, n, c)
    <3>1. PICK i \in 1..Size(W, n) : W[n].recs[i] = c
      BY <2>1 DEF Holds
    <3> QED BY <2>1, <3>1, <1>4, <1>5, <1>7 DEF Holds
  <2>2. ASSUME Holds(V, n, c) PROVE Holds(W, n, c)
    <3>1. PICK i \in 1..Size(V, n) : V[n].recs[i] = c
      BY <2>2 DEF Holds
    <3>2. CASE i <= p
      <4>1. i \in 1..p /\ i \in 1..Size(W, n)
        BY <3>2, <1>1, <1>3
      <4> QED BY <4>1, <3>1, <1>3 DEF Holds
    <3>3. CASE i > p
      <4>1. i \in (p + 1)..Size(V, n) /\ i + 1 \in 1..Size(W, n)
        BY <3>3, <1>1, <1>3
      <4> QED BY <4>1, <3>1, <1>3 DEF Holds
    <3> QED BY <3>2, <3>3, <1>1
  <2>3. Holds(W, n, k)
    <3>1. p + 1 \in 1..Size(W, n)
      BY <1>1, <1>3
    <3> QED BY <3>1, <1>3 DEF Holds
  <2> QED BY <2>1, <2>2, <2>3
<1>11. \A x \in Live(V) : x # n => \A c : Holds(W, x, c) <=> Holds(V, x, c)
  BY DEF Holds, Size
<1>12. Contents(W) = Contents(V) \cup {k}
  BY <1>10, <1>11 DEF Contents
<1> QED BY <1>9, <1>12

\* A key only one leaf has can be taken out of it.
LEMMA LeafShrinks ==
    ASSUME NEW V, NEW top, NEW lo, NEW hi, Linked(V, top), Ordered(V, top, lo, hi),
           NEW n \in Live(V), V[n].depth = 0, NEW i \in 1..Size(V, n), NEW k, k = V[n].recs[i],
           \A x \in Live(V) : Holds(V, x, k) => x = n,
           NEW W, Live(W) = Live(V), W[n].recs = RemoveAt(V[n].recs, i), W[n].branches = V[n].branches,
           \A x \in Live(V) : x # n => W[x].recs = V[x].recs /\ W[x].branches = V[x].branches
    PROVE  Ordered(W, top, lo, hi) /\ Contents(W) = Contents(V) \ {k}
<1>1. V \in Memory /\ Size(V, n) \in Nat /\ V[n].recs \in Seq(Keys) /\ Len(V[n].recs) = Size(V, n)
      /\ Width(V, n) = 0
  <2>1. V \in Memory /\ Width(V, n) = 0
    BY LinkDown DEF Linked
  <2> QED BY <2>1, NodeTypes DEF Size
<1>2. /\ lo[n] \in Nat /\ hi[n] \in Nat
      /\ \A j \in 1..Size(V, n) : /\ V[n].recs[j] \in Nat \ {0} /\ lo[n] < V[n].recs[j]
                                  /\ hi[n] = 0 \/ V[n].recs[j] < hi[n]
      /\ \A j, l \in 1..Size(V, n) : j < l => V[n].recs[j] < V[n].recs[l]
  BY <1>1, NodeOrder
<1>3. /\ Size(W, n) + 1 = Size(V, n) /\ Size(W, n) \in Nat /\ Width(W, n) = 0
      /\ \A j \in 1..Size(W, n) : W[n].recs[j] = IF j < i THEN V[n].recs[j] ELSE V[n].recs[j + 1]
  <2> DEFINE s == V[n].recs
  <2>1. s \in Seq(Keys) /\ i \in 1..Len(s) /\ Len(s) = Size(V, n)
    BY <1>1
  <2>2. W[n].recs = RemoveAt(s, i)
    OBVIOUS
  <2> HIDE DEF s
  <2>3. /\ Len(RemoveAt(s, i)) = Len(s) - 1
        /\ \A j \in 1..(Len(s) - 1) : RemoveAt(s, i)[j] = IF j < i THEN s[j] ELSE s[j + 1]
    BY <2>1, RemoveProps
  <2>4. Size(W, n) = Len(s) - 1
    BY <2>2, <2>3 DEF Size
  <2> QED BY <2>1, <2>2, <2>3, <2>4, <1>1 DEF s, Width
<1> DEFINE o(j) == IF j < i THEN j ELSE j + 1
<1>4. \A j \in 1..Size(W, n) : /\ o(j) \in 1..Size(V, n) /\ o(j) # i /\ W[n].recs[j] = V[n].recs[o(j)]
                               /\ \A l \in 1..Size(W, n) : j < l => o(j) < o(l)
  BY <1>1, <1>3
<1> HIDE DEF o
<1>5. InOrder(W, lo, hi, n)
  <2>1. \A j \in 1..Size(W, n) : Within(W[n].recs[j], lo[n], hi[n])
    BY <1>2, <1>4 DEF Within
  <2>2. \A j, l \in 1..Size(W, n) : j < l => W[n].recs[j] < W[n].recs[l]
    BY <1>2, <1>4
  <2>3. 1..Width(W, n) = {}
    BY <1>3
  <2> QED BY <2>1, <2>2, <2>3 DEF InOrder
<1>6. Ordered(W, top, lo, hi)
  <2>1. ASSUME NEW x \in Live(V), x # n PROVE InOrder(W, lo, hi, x)
    BY <2>1, SameOrder DEF Ordered
  <2> QED BY <2>1, <1>5 DEF Ordered
<1>7. ASSUME NEW c PROVE Holds(W, n, c) <=> Holds(V, n, c) /\ c # k
  <2>1. ASSUME Holds(W, n, c) PROVE Holds(V, n, c) /\ c # k
    <3>1. PICK j \in 1..Size(W, n) : W[n].recs[j] = c
      BY <2>1 DEF Holds
    <3>2. o(j) \in 1..Size(V, n) /\ o(j) # i /\ V[n].recs[o(j)] = c
      BY <3>1, <1>4
    <3>3. c # k
      BY SMTT(60), <3>2, <1>1, <1>2
    <3> QED BY <3>2, <3>3 DEF Holds
  <2>2. ASSUME Holds(V, n, c), c # k PROVE Holds(W, n, c)
    <3>1. PICK j \in 1..Size(V, n) : V[n].recs[j] = c
      BY <2>2 DEF Holds
    <3>2. CASE j < i
      <4>1. j \in 1..Size(W, n)
        BY <3>2, <1>1, <1>3
      <4> QED BY <4>1, <3>1, <3>2, <1>3 DEF Holds
    <3>3. CASE j > i
      <4>1. j - 1 \in 1..Size(W, n) /\ ~(j - 1 < i) /\ (j - 1) + 1 = j
        BY <3>3, <1>1, <1>3
      <4> QED BY <4>1, <3>1, <1>3 DEF Holds
    <3>4. j # i
      BY <2>2, <3>1
    <3> QED BY <3>2, <3>3, <3>4, <1>1
  <2> QED BY <2>1, <2>2
<1>8. \A x \in Live(V) : x # n => \A c : Holds(W, x, c) <=> Holds(V, x, c)
  BY DEF Holds, Size
<1>9. \A x \in Live(V) : x # n => ~Holds(V, x, k)
  OBVIOUS
<1>10. Contents(W) = Contents(V) \ {k}
  BY <1>7, <1>8, <1>9 DEF Contents
<1> QED BY <1>6, <1>10

-----------------------------------------------------------------------------
(* A record goes from one neighbour to the other *)

\* The bounds of two neighbours: the record between them is one of each.
LEMMA Between ==
    ASSUME NEW N, NEW top, NEW q, NEW p, NEW l, NEW r, NEW lo, NEW hi, Beside(N, top, q, p, l, r),
           Ordered(N, top, lo, hi), NEW s, s = N[q].recs[p + 1]
    PROVE  /\ s \in Nat \ {0} /\ hi[l] = s /\ lo[r] = s /\ lo[l] < s /\ (hi[r] = 0 \/ s < hi[r])
           /\ lo[l] = Low(N, lo, q, p) /\ hi[r] = High(N, hi, q, p + 1)
           /\ lo[l] \in Nat /\ hi[r] \in Nat
<1>1. /\ N \in Memory /\ q \in Live(N) /\ l \in Live(N) /\ r \in Live(N) /\ p \in Nat
      /\ p + 1 \in 1..Size(N, q) /\ Size(N, q) \in Nat /\ Width(N, q) = Size(N, q) + 1
      /\ N[q].branches[p + 1] = l /\ N[q].branches[p + 2] = r
  BY BesideProps
<1>2. /\ lo[q] \in Nat /\ hi[q] \in Nat
      /\ \A i \in 1..Size(N, q) : /\ N[q].recs[i] \in Nat \ {0} /\ lo[q] < N[q].recs[i]
                                  /\ hi[q] = 0 \/ N[q].recs[i] < hi[q]
      /\ \A i, j \in 1..Size(N, q) : i < j => N[q].recs[i] < N[q].recs[j]
  BY <1>1, NodeOrder
<1>3. /\ lo[l] = Low(N, lo, q, p) /\ hi[l] = High(N, hi, q, p)
      /\ lo[r] = Low(N, lo, q, p + 1) /\ hi[r] = High(N, hi, q, p + 1)
  <2>1. p + 1 \in 1..Width(N, q) /\ p + 2 \in 1..Width(N, q) /\ (p + 1) - 1 = p /\ (p + 2) - 1 = p + 1
    BY <1>1
  <2>2. \A i \in 1..Width(N, q) : /\ lo[N[q].branches[i]] = Low(N, lo, q, i - 1)
                                  /\ hi[N[q].branches[i]] = High(N, hi, q, i - 1)
    BY <1>1 DEF Ordered, InOrder
  <2>3. lo[l] = Low(N, lo, q, p) /\ hi[l] = High(N, hi, q, p)
    BY <2>1, <2>2, <1>1
  <2>4. lo[r] = Low(N, lo, q, p + 1) /\ hi[r] = High(N, hi, q, p + 1)
    BY <2>1, <2>2, <1>1
  <2> QED BY <2>3, <2>4
<1>4. hi[l] = s /\ lo[r] = s /\ s \in Nat \ {0}
  <2>1. p # Size(N, q) /\ p + 1 # 0
    BY <1>1
  <2> QED BY <2>1, <1>1, <1>2, <1>3 DEF Low, High
<1>5. lo[l] < s /\ lo[l] \in Nat
  <2>1. CASE p = 0
    BY <2>1, <1>1, <1>2, <1>3 DEF Low
  <2>2. CASE p # 0
    <3>1. p \in 1..Size(N, q) /\ p < p + 1
      BY <2>2, <1>1
    <3> QED BY <2>2, <3>1, <1>1, <1>2, <1>3 DEF Low
  <2> QED BY <2>1, <2>2
<1>6. (hi[r] = 0 \/ s < hi[r]) /\ hi[r] \in Nat
  <2>1. CASE p + 1 = Size(N, q)
    BY <2>1, <1>1, <1>2, <1>3 DEF High
  <2>2. CASE p + 1 # Size(N, q)
    <3>1. (p + 1) + 1 \in 1..Size(N, q) /\ p + 1 < (p + 1) + 1
      BY <2>2, <1>1
    <3> QED BY <2>2, <3>1, <1>1, <1>2, <1>3 DEF High
  <2> QED BY <2>1, <2>2
<1> QED BY <1>3, <1>4, <1>5, <1>6

\* Only the low bound of r and the high bound of l are other ones.
Rebound(lo, hi, lo2, hi2, l, r) ==
    /\ lo2 \in [Node -> Nat] /\ hi2 \in [Node -> Nat]
    /\ \A x \in Node : x # r => lo2[x] = lo[x]
    /\ \A x \in Node : x # l => hi2[x] = hi[x]

\* The branches of a node other than l and r have the bounds they had.
LEMMA BranchBounds ==
    ASSUME NEW N, NEW top, NEW q, NEW p, NEW l, NEW r, NEW lo, NEW hi, Beside(N, top, q, p, l, r),
           Ordered(N, top, lo, hi), NEW lo2, NEW hi2, Rebound(lo, hi, lo2, hi2, l, r),
           NEW n \in Live(N), NEW i \in 1..Width(N, n)
    PROVE  /\ n # q \/ i # p + 2 => lo2[N[n].branches[i]] = Low(N, lo, n, i - 1)
           /\ n # q \/ i # p + 1 => hi2[N[n].branches[i]] = High(N, hi, n, i - 1)
<1> DEFINE b == N[n].branches[i]
<1>1. /\ Linked(N, top) /\ p \in Nat /\ N[l].parent = q /\ N[l].pos = p /\ N[r].parent = q /\ N[r].pos = p + 1
  <2>1. Linked(N, top)
    BY DEF Beside
  <2> QED BY <2>1, BesideProps
<1>2. b \in Live(N) /\ N[b].parent = n /\ N[b].pos = i - 1 /\ b \in Node /\ Width(N, n) \in Nat
  <2>1. N \in Memory
    BY <1>1 DEF Linked
  <2> QED BY <2>1, <1>1, LinkDown, NodeTypes
<1>3. lo[b] = Low(N, lo, n, i - 1) /\ hi[b] = High(N, hi, n, i - 1)
  BY DEF Ordered, InOrder
<1> HIDE DEF b
<1>4. n # q \/ i # p + 2 => b # r
  BY <1>1, <1>2
<1>5. n # q \/ i # p + 1 => b # l
  BY <1>1, <1>2
<1>6. (b # r => lo2[b] = lo[b]) /\ (b # l => hi2[b] = hi[b])
  BY <1>2 DEF Rebound
<1> QED BY <1>3, <1>4, <1>5, <1>6 DEF b

\* A node that is none of the three stays in order.
LEMMA Aside ==
    ASSUME NEW N, NEW top, NEW q, NEW p, NEW l, NEW r, NEW lo, NEW hi, Beside(N, top, q, p, l, r),
           Ordered(N, top, lo, hi), NEW lo2, NEW hi2, Rebound(lo, hi, lo2, hi2, l, r),
           NEW n \in Live(N), n # q, n # l, n # r, NEW W, W[n].recs = N[n].recs, W[n].branches = N[n].branches
    PROVE  InOrder(W, lo2, hi2, n)
<1>1. lo2[n] = lo[n] /\ hi2[n] = hi[n]
  BY DEF Rebound, Live
<1>2. InOrder(N, lo, hi, n)
  BY DEF Ordered
<1>3. \A i \in 1..Width(N, n) : /\ lo2[N[n].branches[i]] = Low(N, lo, n, i - 1)
                                /\ hi2[N[n].branches[i]] = High(N, hi, n, i - 1)
  BY BranchBounds
<1>4. \A i : Low(N, lo, n, i) = Low(W, lo2, n, i) /\ High(N, hi, n, i) = High(W, hi2, n, i)
  BY <1>1 DEF Low, High, Size
<1> QED BY <1>1, <1>2, <1>3, <1>4 DEF InOrder, Size, Width

\* The parent has u for the record between.
LEMMA Reseparated ==
    ASSUME NEW N, NEW top, NEW q, NEW p, NEW l, NEW r, NEW lo, NEW hi, Beside(N, top, q, p, l, r),
           Ordered(N, top, lo, hi), NEW lo2, NEW hi2, Rebound(lo, hi, lo2, hi2, l, r), NEW u \in Nat \ {0},
           lo2[r] = u, hi2[l] = u, Within(u, lo[l], hi[r]),
           NEW W, Size(W, q) = Size(N, q), W[q].branches = N[q].branches, W[q].recs[p + 1] = u,
           \A i \in 1..Size(N, q) : i # p + 1 => W[q].recs[i] = N[q].recs[i]
    PROVE  InOrder(W, lo2, hi2, q)
<1>1. /\ N \in Memory /\ q \in Live(N) /\ p \in Nat /\ l # q /\ r # q
      /\ p + 1 \in 1..Size(N, q) /\ Size(N, q) \in Nat /\ Width(N, q) = Size(N, q) + 1
      /\ N[q].branches[p + 1] = l /\ N[q].branches[p + 2] = r
  BY BesideProps
<1>2. /\ lo[q] \in Nat /\ hi[q] \in Nat
      /\ \A i \in 1..Size(N, q) : /\ N[q].recs[i] \in Nat \ {0} /\ lo[q] < N[q].recs[i]
                                  /\ hi[q] = 0 \/ N[q].recs[i] < hi[q]
      /\ \A i, j \in 1..Size(N, q) : i < j => N[q].recs[i] < N[q].recs[j]
  BY <1>1, NodeOrder
<1>3. lo[l] = Low(N, lo, q, p) /\ hi[r] = High(N, hi, q, p + 1)
  BY Between
<1>4. lo2[q] = lo[q] /\ hi2[q] = hi[q]
  BY <1>1 DEF Rebound, Live
<1>5. \A i \in 1..p : i \in 1..Size(N, q) /\ N[q].recs[i] < u
  <2>1. ASSUME NEW i \in 1..p PROVE N[q].recs[i] < u
    <3>1. p \in 1..Size(N, q) /\ i \in 1..Size(N, q) /\ N[q].recs[p] < u
      BY <1>1, <1>3 DEF Within, Low
    <3> QED BY <3>1, <1>1, <1>2
  <2> QED BY <2>1, <1>1
<1>6. \A i \in (p + 2)..Size(N, q) : i \in 1..Size(N, q) /\ u < N[q].recs[i]
  <2>1. ASSUME NEW i \in (p + 2)..Size(N, q) PROVE u < N[q].recs[i]
    <3>1. p + 1 # Size(N, q) /\ p + 2 \in 1..Size(N, q) /\ i \in 1..Size(N, q) /\ (p + 1) + 1 = p + 2
      BY <1>1
    <3>2. u < N[q].recs[p + 2]
      BY <3>1, <1>2, <1>3 DEF Within, High
    <3> QED BY <3>1, <3>2, <1>1, <1>2
  <2> QED BY <2>1, <1>1
<1>7. lo[q] < u /\ (hi[q] = 0 \/ u < hi[q])
  <2>1. lo[q] < u
    <3>1. CASE p = 0
      BY <3>1, <1>3 DEF Within, Low
    <3>2. CASE p # 0
      <4>1. p \in 1..p /\ p \in 1..Size(N, q)
        BY <3>2, <1>1
      <4> QED BY <4>1, <1>2, <1>5
    <3> QED BY <3>1, <3>2
  <2>2. hi[q] = 0 \/ u < hi[q]
    <3>1. CASE p + 1 = Size(N, q)
      BY <3>1, <1>3 DEF Within, High
    <3>2. CASE p + 1 # Size(N, q)
      <4>1. p + 2 \in (p + 2)..Size(N, q)
        BY <3>2, <1>1
      <4> QED BY <4>1, <1>2, <1>6
    <3> QED BY <3>1, <3>2
  <2> QED BY <2>1, <2>2
<1>8. ASSUME NEW i \in 1..Size(W, q)
      PROVE  \/ i = p + 1 /\ W[q].recs[i] = u
             \/ i \in 1..p /\ W[q].recs[i] = N[q].recs[i]
             \/ i \in (p + 2)..Size(N, q) /\ W[q].recs[i] = N[q].recs[i]
  BY <1>1
<1>9. \A i \in 1..Size(W, q) : Within(W[q].recs[i], lo2[q], hi2[q])
  BY <1>1, <1>2, <1>4, <1>7, <1>8 DEF Within
<1>10. ASSUME NEW i \in 1..Size(W, q), NEW j \in 1..Size(W, q), i < j PROVE W[q].recs[i] < W[q].recs[j]
  <2>1. CASE i = p + 1
    <3>1. j \in (p + 2)..Size(N, q)
      BY <2>1, <1>10, <1>1
    <3> QED BY <2>1, <3>1, <1>1, <1>6
  <2>2. CASE j = p + 1
    <3>1. i \in 1..p
      BY <2>2, <1>10, <1>1
    <3> QED BY <2>2, <3>1, <1>1, <1>5
  <2>3. CASE i # p + 1 /\ j # p + 1
    BY <2>3, <1>10, <1>2
  <2> QED BY <2>1, <2>2, <2>3
<1>11. ASSUME NEW i \in 1..Width(N, q)
       PROVE  /\ lo2[N[q].branches[i]] = Low(W, lo2, q, i - 1)
              /\ hi2[N[q].branches[i]] = High(W, hi2, q, i - 1)
  <2>1. /\ i # p + 2 => lo2[N[q].branches[i]] = Low(N, lo, q, i - 1)
        /\ i # p + 1 => hi2[N[q].branches[i]] = High(N, hi, q, i - 1)
    BY <1>1, BranchBounds
  <2>2. lo2[N[q].branches[i]] = Low(W, lo2, q, i - 1)
    <3>1. CASE i = p + 2
      <4>1. i - 1 = p + 1 /\ p + 1 # 0
        BY <3>1, <1>1
      <4> QED BY <3>1, <4>1, <1>1 DEF Low
    <3>2. CASE i # p + 2
      <4>1. i - 1 = 0 \/ (i - 1 \in 1..Size(N, q) /\ i - 1 # p + 1)
        BY <3>2, <1>1
      <4>2. Low(N, lo, q, i - 1) = Low(W, lo2, q, i - 1)
        BY <4>1, <1>4 DEF Low
      <4> QED BY <4>2, <3>2, <2>1
    <3> QED BY <3>1, <3>2
  <2>3. hi2[N[q].branches[i]] = High(W, hi2, q, i - 1)
    <3>1. CASE i = p + 1
      <4>1. i - 1 = p /\ p # Size(W, q) /\ (i - 1) + 1 = p + 1
        BY <3>1, <1>1
      <4> QED BY <3>1, <4>1, <1>1 DEF High
    <3>2. CASE i # p + 1
      <4>1. i - 1 = Size(N, q) \/ ((i - 1) + 1 \in 1..Size(N, q) /\ (i - 1) + 1 # p + 1)
        BY <3>2, <1>1
      <4>2. High(N, hi, q, i - 1) = High(W, hi2, q, i - 1)
        BY <4>1, <1>4 DEF High
      <4> QED BY <4>2, <3>2, <2>1
    <3> QED BY <3>1, <3>2
  <2> QED BY <2>2, <2>3
<1> QED BY <1>9, <1>10, <1>11 DEF InOrder, Width

\* The bounds after u has become the record between l and r.
Shifted(lo, hi, lo2, hi2, l, r, u) == lo2 = [lo EXCEPT ![r] = u] /\ hi2 = [hi EXCEPT ![l] = u]

\* What the three nodes hold together, and the others, is what the tree holds.
LEMMA SameContents ==
    ASSUME NEW N, NEW W, NEW q, NEW l, NEW r, q \in Live(N), l \in Live(N), r \in Live(N), Live(W) = Live(N),
           \A x \in Live(N) : x # l /\ x # r /\ x # q => W[x].recs = N[x].recs,
           \A c : Holds(W, l, c) \/ Holds(W, r, c) \/ Holds(W, q, c)
                  <=> Holds(N, l, c) \/ Holds(N, r, c) \/ Holds(N, q, c)
    PROVE  Contents(W) = Contents(N)
<1>1. \A x \in Live(N) : x # l /\ x # r /\ x # q => \A c : Holds(W, x, c) <=> Holds(N, x, c)
  BY DEF Holds, Size
<1> QED BY <1>1 DEF Contents

\* The record between two neighbours goes down to the right one, and the last of
\* the left one takes its place.
LEMMA MoveRightOrdered ==
    ASSUME NEW N, NEW W, NEW top, NEW q, NEW p, NEW l, NEW r, NEW lo, NEW hi, Beside(N, top, q, p, l, r),
           Ordered(N, top, lo, hi), IsMoveRight(N, W, q, p, l, r), Size(N, l) > 0,
           NEW u, u = N[l].recs[Size(N, l)],
           NEW lo2, NEW hi2, Shifted(lo, hi, lo2, hi2, l, r, u)
    PROVE  Ordered(W, top, lo2, hi2)
<1>1. /\ N \in Memory /\ q \in Live(N) /\ l \in Live(N) /\ r \in Live(N) /\ l # r /\ l # q /\ r # q
      /\ l # top /\ r # top /\ l \in Node /\ r \in Node /\ top \in Node
      /\ Size(N, l) \in Nat /\ Size(N, r) \in Nat /\ Size(N, l) > 0
      /\ Width(N, l) = (IF N[l].depth = 0 THEN 0 ELSE Size(N, l) + 1)
      /\ Width(N, r) = (IF N[l].depth = 0 THEN 0 ELSE Size(N, r) + 1)
  <2>1. top \in Live(N)
    BY DEF Beside, Linked
  <2> QED BY <2>1, BesideProps DEF Live
<1> DEFINE m == Size(N, l) - 1
           s == N[q].recs[p + 1]
<1>2. m \in Nat /\ Size(N, l) = m + 1
  BY <1>1
<1> HIDE DEF m
<1>3. /\ Live(W) = Live(N) /\ Size(W, l) = m /\ \A i \in 1..m : W[l].recs[i] = N[l].recs[i]
      /\ Size(W, r) = Size(N, r) + 1 /\ W[r].recs[1] = s
      /\ \A i \in 1..Size(N, r) : W[r].recs[i + 1] = N[r].recs[i]
      /\ Width(W, l) = (IF N[l].depth = 0 THEN 0 ELSE m + 1)
      /\ \A i \in 1..Width(W, l) : W[l].branches[i] = N[l].branches[i]
      /\ Width(W, r) = (IF N[l].depth = 0 THEN 0 ELSE Size(N, r) + 2)
      /\ N[l].depth # 0 => W[r].branches[1] = N[l].branches[m + 2]
      /\ \A i \in 1..Width(N, r) : W[r].branches[i + 1] = N[r].branches[i]
  <2>1. Size(W, l) + 1 = m + 1 /\ Size(W, l) \in Nat
    <3>1. W \in Memory /\ l \in Live(W)
      BY <1>1 DEF IsMoveRight
    <3> QED BY <3>1, <1>2, NodeTypes DEF IsMoveRight
  <2>2. Size(W, l) = m /\ (m + 1) + 1 = m + 2
    BY <2>1, <1>2
  <2> QED BY <2>2, <1>2 DEF IsMoveRight, s
<1>4. /\ Size(W, q) = Size(N, q) /\ W[q].branches = N[q].branches /\ W[q].recs[p + 1] = u
      /\ \A i \in 1..Size(N, q) : i # p + 1 => W[q].recs[i] = N[q].recs[i]
      /\ \A x \in Live(N) : x # l /\ x # r /\ x # q => W[x].recs = N[x].recs /\ W[x].branches = N[x].branches
  BY DEF IsMoveRight
<1>5. /\ s \in Nat \ {0} /\ hi[l] = s /\ lo[r] = s /\ (hi[r] = 0 \/ s < hi[r])
      /\ lo[l] \in Nat /\ hi[r] \in Nat
  BY Between DEF s
<1> HIDE DEF s
<1>6. /\ \A i \in 1..(m + 1) : N[l].recs[i] \in Nat \ {0} /\ lo[l] < N[l].recs[i] /\ N[l].recs[i] < s
      /\ \A i, j \in 1..(m + 1) : i < j => N[l].recs[i] < N[l].recs[j]
  <2>1. /\ \A i \in 1..Size(N, l) : /\ N[l].recs[i] \in Nat \ {0} /\ lo[l] < N[l].recs[i]
                                    /\ hi[l] = 0 \/ N[l].recs[i] < hi[l]
        /\ \A i, j \in 1..Size(N, l) : i < j => N[l].recs[i] < N[l].recs[j]
    BY <1>1, NodeOrder
  <2> QED BY <2>1, <1>2, <1>5
<1>7. /\ \A i \in 1..Size(N, r) : /\ N[r].recs[i] \in Nat \ {0} /\ s < N[r].recs[i]
                                  /\ hi[r] = 0 \/ N[r].recs[i] < hi[r]
      /\ \A i, j \in 1..Size(N, r) : i < j => N[r].recs[i] < N[r].recs[j]
  BY <1>1, <1>5, NodeOrder
<1>8. u = N[l].recs[m + 1] /\ u \in Nat \ {0} /\ lo[l] < u /\ u < s /\ \A i \in 1..m : N[l].recs[i] < u
  BY <1>2, <1>6
<1>9. lo2[r] = u /\ hi2[l] = u /\ lo2[l] = lo[l] /\ hi2[r] = hi[r] /\ Rebound(lo, hi, lo2, hi2, l, r)
      /\ lo2[top] = 0 /\ hi2[top] = 0
  BY <1>1, <1>8 DEF Ordered, Rebound, Shifted
<1>10. ASSUME NEW x \in Live(N), x # l, x # r PROVE InOrder(W, lo2, hi2, x)
  <2>1. CASE x = q
    <3>1. Within(u, lo[l], hi[r])
      BY <1>5, <1>8 DEF Within
    <3> QED BY <2>1, <3>1, <1>4, <1>8, <1>9, Reseparated
  <2>2. CASE x # q
    BY <2>2, <1>4, <1>9, <1>10, Aside
  <2> QED BY <2>1, <2>2
<1>11. InOrder(W, lo2, hi2, l)
  <2>1. \A i \in 1..Size(W, l) : Within(W[l].recs[i], lo2[l], hi2[l])
    BY <1>2, <1>3, <1>6, <1>8, <1>9 DEF Within
  <2>2. \A i, j \in 1..Size(W, l) : i < j => W[l].recs[i] < W[l].recs[j]
    BY <1>2, <1>3, <1>6
  <2>3. ASSUME NEW i \in 1..Width(W, l)
        PROVE  lo2[W[l].branches[i]] = Low(W, lo2, l, i - 1) /\ hi2[W[l].branches[i]] = High(W, hi2, l, i - 1)
    <3>1. i \in 1..(m + 1) /\ i \in 1..Width(N, l) /\ W[l].branches[i] = N[l].branches[i]
      BY <1>1, <1>2, <1>3
    <3>2. lo2[N[l].branches[i]] = Low(N, lo, l, i - 1) /\ hi2[N[l].branches[i]] = High(N, hi, l, i - 1)
      BY <3>1, <1>1, <1>9, BranchBounds
    <3>3. Low(N, lo, l, i - 1) = Low(W, lo2, l, i - 1)
      <4>1. i - 1 = 0 \/ i - 1 \in 1..m
        BY <3>1, <1>2
      <4> QED BY <4>1, <1>3, <1>9 DEF Low
    <3>4. High(N, hi, l, i - 1) = High(W, hi2, l, i - 1)
      <4>1. i - 1 # Size(N, l) /\ (i - 1) + 1 = i
        BY <3>1, <1>2
      <4>2. CASE i - 1 = m
        <5>1. i = m + 1 /\ m # Size(N, l)
          BY <4>2, <3>1, <1>2
        <5>2. High(N, hi, l, i - 1) = u
          BY <4>1, <5>1, <1>8 DEF High
        <5>3. High(W, hi2, l, i - 1) = u
          BY <4>2, <1>3, <1>9 DEF High
        <5> QED BY <5>2, <5>3
      <4>3. CASE i - 1 # m
        <5>1. i \in 1..m
          BY <4>3, <3>1, <1>2
        <5> QED BY <4>1, <4>3, <5>1, <1>3 DEF High
      <4> QED BY <4>2, <4>3
    <3> QED BY <3>1, <3>2, <3>3, <3>4
  <2> QED BY <2>1, <2>2, <2>3 DEF InOrder
<1>12. InOrder(W, lo2, hi2, r)
  <2>1. ASSUME NEW i \in 1..Size(W, r), i # 1 PROVE i - 1 \in 1..Size(N, r) /\ W[r].recs[i] = N[r].recs[i - 1]
    <3>1. i - 1 \in 1..Size(N, r) /\ (i - 1) + 1 = i
      BY <2>1, <1>1, <1>3
    <3> QED BY <3>1, <1>3
  <2>2. ASSUME NEW i \in 1..Size(W, r) PROVE Within(W[r].recs[i], lo2[r], hi2[r])
    <3>1. CASE i = 1
      BY <3>1, <1>3, <1>5, <1>8, <1>9 DEF Within
    <3>2. CASE i # 1
      <4>1. /\ N[r].recs[i - 1] \in Nat /\ s < N[r].recs[i - 1]
            /\ hi[r] = 0 \/ N[r].recs[i - 1] < hi[r]
        BY <3>2, <2>1, <1>7
      <4> QED BY <3>2, <4>1, <2>1, <1>5, <1>8, <1>9 DEF Within
    <3> QED BY <3>1, <3>2
  <2>3. ASSUME NEW i \in 1..Size(W, r), NEW j \in 1..Size(W, r), i < j PROVE W[r].recs[i] < W[r].recs[j]
    <3>1. j # 1
      BY <2>3, <1>1, <1>3
    <3>2. CASE i = 1
      BY <3>1, <3>2, <2>1, <1>3, <1>7
    <3>3. CASE i # 1
      <4>1. i - 1 < j - 1
        BY <2>3, <1>1, <1>3
      <4> QED BY <3>1, <3>3, <4>1, <2>1, <1>7
    <3> QED BY <3>2, <3>3
  <2>4. ASSUME NEW i \in 1..Width(W, r)
        PROVE  lo2[W[r].branches[i]] = Low(W, lo2, r, i - 1) /\ hi2[W[r].branches[i]] = High(W, hi2, r, i - 1)
    <3>1. CASE i = 1
      <4>1. N[l].depth # 0 /\ m + 2 \in 1..Width(N, l) /\ W[r].branches[i] = N[l].branches[m + 2]
            /\ (m + 2) - 1 = m + 1 /\ m + 1 # 0
        BY <3>1, <1>1, <1>2, <1>3
      <4>2. lo2[N[l].branches[m + 2]] = Low(N, lo, l, (m + 2) - 1)
            /\ hi2[N[l].branches[m + 2]] = High(N, hi, l, (m + 2) - 1)
        BY <4>1, <1>1, <1>9, BranchBounds
      <4>3. Low(N, lo, l, m + 1) = u /\ High(N, hi, l, m + 1) = s
        BY <4>1, <1>2, <1>5, <1>8 DEF Low, High
      <4>4. Low(W, lo2, r, i - 1) = u /\ High(W, hi2, r, i - 1) = s
        <5>1. i - 1 = 0 /\ 0 # Size(W, r) /\ (i - 1) + 1 = 1
          BY <3>1, <1>1, <1>3
        <5> QED BY <5>1, <1>3, <1>9 DEF Low, High
      <4> QED BY <4>1, <4>2, <4>3, <4>4
    <3>2. CASE i # 1
      <4> DEFINE j == i - 1
      <4>1. j \in 1..Width(N, r) /\ j \in 1..(Size(N, r) + 1) /\ j + 1 = i /\ W[r].branches[i] = N[r].branches[j]
        <5>1. j \in 1..Width(N, r) /\ j \in 1..(Size(N, r) + 1) /\ j + 1 = i
          BY <3>2, <1>1, <1>3
        <5> HIDE DEF j
        <5> QED BY <5>1, <1>3
      <4>2. i - 1 = j
        OBVIOUS
      <4> HIDE DEF j
      <4>3. lo2[N[r].branches[j]] = Low(N, lo, r, j - 1) /\ hi2[N[r].branches[j]] = High(N, hi, r, j - 1)
        BY <4>1, <1>1, <1>9, BranchBounds
      <4>4. Low(N, lo, r, j - 1) = Low(W, lo2, r, j)
        <5>1. CASE j = 1
          BY <5>1, <1>3, <1>5 DEF Low
        <5>2. CASE j # 1
          <6>1. j - 1 \in 1..Size(N, r) /\ (j - 1) + 1 = j /\ j - 1 # 0 /\ j # 0
            BY <5>2, <4>1, <1>1
          <6>2. W[r].recs[j] = N[r].recs[j - 1]
            BY <6>1, <1>3
          <6> QED BY <6>1, <6>2 DEF Low
        <5> QED BY <5>1, <5>2
      <4>5. High(N, hi, r, j - 1) = High(W, hi2, r, j)
        <5>1. CASE j = Size(N, r) + 1
          BY <5>1, <4>1, <1>1, <1>3, <1>9 DEF High
        <5>2. CASE j # Size(N, r) + 1
          <6>1. j \in 1..Size(N, r) /\ j - 1 # Size(N, r) /\ j # Size(W, r) /\ (j - 1) + 1 = j
            BY <5>2, <4>1, <1>1, <1>3
          <6> QED BY <6>1, <1>3 DEF High
        <5> QED BY <5>1, <5>2
      <4> QED BY <4>1, <4>2, <4>3, <4>4, <4>5
    <3> QED BY <3>1, <3>2
  <2> QED BY <2>2, <2>3, <2>4 DEF InOrder
<1> QED BY <1>1, <1>3, <1>9, <1>10, <1>11, <1>12 DEF Ordered, Rebound

\* No key is lost by that.
LEMMA MoveRightContents ==
    ASSUME NEW N, NEW W, NEW top, NEW q, NEW p, NEW l, NEW r, Beside(N, top, q, p, l, r),
           IsMoveRight(N, W, q, p, l, r), Size(N, l) > 0
    PROVE  Contents(W) = Contents(N)
<1>1. /\ q \in Live(N) /\ l \in Live(N) /\ r \in Live(N) /\ Size(N, l) \in Nat /\ Size(N, r) \in Nat
      /\ Size(N, q) \in Nat /\ p + 1 \in 1..Size(N, q) /\ p \in Nat
  BY BesideProps
<1>2. /\ Live(W) = Live(N) /\ Size(W, l) + 1 = Size(N, l) /\ \A i \in 1..Size(W, l) : W[l].recs[i] = N[l].recs[i]
      /\ Size(W, r) = Size(N, r) + 1 /\ W[r].recs[1] = N[q].recs[p + 1]
      /\ \A i \in 1..Size(N, r) : W[r].recs[i + 1] = N[r].recs[i]
      /\ Size(W, q) = Size(N, q) /\ W[q].recs[p + 1] = N[l].recs[Size(N, l)]
      /\ \A i \in 1..Size(N, q) : i # p + 1 => W[q].recs[i] = N[q].recs[i]
      /\ \A x \in Live(N) : x # l /\ x # r /\ x # q => W[x].recs = N[x].recs
  BY DEF IsMoveRight
<1>3. Size(W, l) \in Nat
  BY <1>1, NodeTypes DEF IsMoveRight
<1>4. ASSUME NEW c
      PROVE  Holds(W, l, c) \/ Holds(W, r, c) \/ Holds(W, q, c)
             <=> Holds(N, l, c) \/ Holds(N, r, c) \/ Holds(N, q, c)
  <2>1. Holds(N, l, c) <=> Holds(W, l, c) \/ W[q].recs[p + 1] = c
    <3>1. \A i \in 1..Size(N, l) : i \in 1..Size(W, l) \/ i = Size(N, l)
      BY <1>1, <1>2, <1>3
    <3>2. \A i \in 1..Size(W, l) : i \in 1..Size(N, l)
      BY <1>1, <1>2, <1>3
    <3>3. Size(N, l) \in 1..Size(N, l)
      BY <1>1
    <3> QED BY <3>1, <3>2, <3>3, <1>2 DEF Holds
  <2>2. Holds(W, r, c) <=> Holds(N, r, c) \/ N[q].recs[p + 1] = c
    <3>1. \A i \in 1..Size(W, r) : i = 1 \/ (i - 1 \in 1..Size(N, r) /\ W[r].recs[i] = N[r].recs[i - 1])
      <4> SUFFICES ASSUME NEW i \in 1..Size(W, r), i # 1
                   PROVE  i - 1 \in 1..Size(N, r) /\ W[r].recs[i] = N[r].recs[i - 1]
        OBVIOUS
      <4>1. i - 1 \in 1..Size(N, r) /\ (i - 1) + 1 = i
        BY <1>1, <1>2
      <4> QED BY <4>1, <1>2
    <3>2. 1 \in 1..Size(W, r) /\ \A i \in 1..Size(N, r) : i + 1 \in 1..Size(W, r)
      BY <1>1, <1>2
    <3> QED BY <3>1, <3>2, <1>2 DEF Holds
  <2>3. ASSUME c # W[q].recs[p + 1] PROVE Holds(W, q, c) => Holds(N, q, c)
    BY <2>3, <1>2 DEF Holds
  <2>4. ASSUME c # N[q].recs[p + 1] PROVE Holds(N, q, c) => Holds(W, q, c)
    BY <2>4, <1>2 DEF Holds
  <2>5. (W[q].recs[p + 1] = c => Holds(W, q, c)) /\ (N[q].recs[p + 1] = c => Holds(N, q, c))
    BY <1>1, <1>2 DEF Holds
  <2> QED BY <2>1, <2>2, <2>3, <2>4, <2>5
<1> QED BY <1>1, <1>2, <1>4, SameContents

\* The same to the left.
LEMMA MoveLeftOrdered ==
    ASSUME NEW N, NEW W, NEW top, NEW q, NEW p, NEW l, NEW r, NEW lo, NEW hi, Beside(N, top, q, p, l, r),
           Ordered(N, top, lo, hi), IsMoveLeft(N, W, q, p, l, r), Size(N, r) > 0,
           NEW u, u = N[r].recs[1],
           NEW lo2, NEW hi2, Shifted(lo, hi, lo2, hi2, l, r, u)
    PROVE  Ordered(W, top, lo2, hi2)
<1>1. /\ N \in Memory /\ q \in Live(N) /\ l \in Live(N) /\ r \in Live(N) /\ l # r /\ l # q /\ r # q
      /\ l # top /\ r # top /\ l \in Node /\ r \in Node /\ top \in Node
      /\ Size(N, l) \in Nat /\ Size(N, r) \in Nat /\ Size(N, r) > 0
      /\ Width(N, l) = (IF N[l].depth = 0 THEN 0 ELSE Size(N, l) + 1)
      /\ Width(N, r) = (IF N[l].depth = 0 THEN 0 ELSE Size(N, r) + 1)
  <2>1. top \in Live(N)
    BY DEF Beside, Linked
  <2> QED BY <2>1, BesideProps DEF Live
<1> DEFINE m == Size(N, r) - 1
           t == Size(N, l)
           s == N[q].recs[p + 1]
<1>2. m \in Nat /\ Size(N, r) = m + 1 /\ t \in Nat /\ Size(N, l) = t
  BY <1>1
<1> HIDE DEF m, t
<1>3. /\ Live(W) = Live(N) /\ Size(W, r) = m /\ \A i \in 1..m : W[r].recs[i] = N[r].recs[i + 1]
      /\ Size(W, l) = t + 1 /\ W[l].recs[t + 1] = s
      /\ \A i \in 1..t : W[l].recs[i] = N[l].recs[i]
      /\ Width(W, r) = (IF N[l].depth = 0 THEN 0 ELSE m + 1)
      /\ \A i \in 1..Width(W, r) : W[r].branches[i] = N[r].branches[i + 1]
      /\ Width(W, l) = (IF N[l].depth = 0 THEN 0 ELSE t + 2)
      /\ N[l].depth # 0 => W[l].branches[t + 2] = N[r].branches[1]
      /\ \A i \in 1..Width(N, l) : W[l].branches[i] = N[l].branches[i]
  <2>1. Size(W, r) + 1 = m + 1 /\ Size(W, r) \in Nat
    <3>1. W \in Memory /\ r \in Live(W)
      BY <1>1 DEF IsMoveLeft
    <3> QED BY <3>1, <1>2, NodeTypes DEF IsMoveLeft
  <2>2. Size(W, r) = m
    BY <2>1, <1>2
  <2> QED BY <2>2, <1>2 DEF IsMoveLeft, s
<1>4. /\ Size(W, q) = Size(N, q) /\ W[q].branches = N[q].branches /\ W[q].recs[p + 1] = u
      /\ \A i \in 1..Size(N, q) : i # p + 1 => W[q].recs[i] = N[q].recs[i]
      /\ \A x \in Live(N) : x # l /\ x # r /\ x # q => W[x].recs = N[x].recs /\ W[x].branches = N[x].branches
  BY DEF IsMoveLeft
<1>5. /\ s \in Nat \ {0} /\ hi[l] = s /\ lo[r] = s /\ lo[l] < s
      /\ lo[l] \in Nat /\ hi[r] \in Nat
  BY Between DEF s
<1> HIDE DEF s
<1>6. /\ \A i \in 1..t : N[l].recs[i] \in Nat \ {0} /\ lo[l] < N[l].recs[i] /\ N[l].recs[i] < s
      /\ \A i, j \in 1..t : i < j => N[l].recs[i] < N[l].recs[j]
  <2>1. /\ \A i \in 1..Size(N, l) : /\ N[l].recs[i] \in Nat \ {0} /\ lo[l] < N[l].recs[i]
                                    /\ hi[l] = 0 \/ N[l].recs[i] < hi[l]
        /\ \A i, j \in 1..Size(N, l) : i < j => N[l].recs[i] < N[l].recs[j]
    BY <1>1, NodeOrder
  <2> QED BY <2>1, <1>2, <1>5
<1>7. /\ \A i \in 1..(m + 1) : /\ N[r].recs[i] \in Nat \ {0} /\ s < N[r].recs[i]
                               /\ hi[r] = 0 \/ N[r].recs[i] < hi[r]
      /\ \A i, j \in 1..(m + 1) : i < j => N[r].recs[i] < N[r].recs[j]
  BY <1>1, <1>2, <1>5, NodeOrder
<1>8. /\ u \in Nat \ {0} /\ s < u /\ (hi[r] = 0 \/ u < hi[r])
      /\ \A i \in 1..m : i + 1 \in 1..(m + 1) /\ u < N[r].recs[i + 1]
  <2>1. 1 \in 1..(m + 1) /\ \A i \in 1..m : i + 1 \in 1..(m + 1) /\ 1 < i + 1
    BY <1>2
  <2> QED BY <2>1, <1>7
<1>9. lo2[r] = u /\ hi2[l] = u /\ lo2[l] = lo[l] /\ hi2[r] = hi[r] /\ Rebound(lo, hi, lo2, hi2, l, r)
      /\ lo2[top] = 0 /\ hi2[top] = 0
  BY <1>1, <1>8 DEF Ordered, Rebound, Shifted
<1>10. ASSUME NEW x \in Live(N), x # l, x # r PROVE InOrder(W, lo2, hi2, x)
  <2>1. CASE x = q
    <3>1. Within(u, lo[l], hi[r])
      BY <1>5, <1>8 DEF Within
    <3> QED BY <2>1, <3>1, <1>4, <1>8, <1>9, Reseparated
  <2>2. CASE x # q
    BY <2>2, <1>4, <1>9, <1>10, Aside
  <2> QED BY <2>1, <2>2
<1>11. InOrder(W, lo2, hi2, r)
  <2>1. \A i \in 1..Size(W, r) : Within(W[r].recs[i], lo2[r], hi2[r])
    BY <1>2, <1>3, <1>7, <1>8, <1>9 DEF Within
  <2>2. ASSUME NEW i \in 1..Size(W, r), NEW j \in 1..Size(W, r), i < j PROVE W[r].recs[i] < W[r].recs[j]
    <3>1. i + 1 < j + 1 /\ i \in 1..m /\ j \in 1..m
      BY <2>2, <1>2, <1>3
    <3> QED BY <3>1, <1>3, <1>7, <1>8
  <2>3. ASSUME NEW i \in 1..Width(W, r)
        PROVE  lo2[W[r].branches[i]] = Low(W, lo2, r, i - 1) /\ hi2[W[r].branches[i]] = High(W, hi2, r, i - 1)
    <3>1. i \in 1..(m + 1) /\ i + 1 \in 1..Width(N, r) /\ W[r].branches[i] = N[r].branches[i + 1]
          /\ (i + 1) - 1 = i
      BY <1>1, <1>2, <1>3
    <3>2. lo2[N[r].branches[i + 1]] = Low(N, lo, r, i) /\ hi2[N[r].branches[i + 1]] = High(N, hi, r, i)
      <4>1. /\ lo2[N[r].branches[i + 1]] = Low(N, lo, r, (i + 1) - 1)
            /\ hi2[N[r].branches[i + 1]] = High(N, hi, r, (i + 1) - 1)
        BY <3>1, <1>1, <1>9, BranchBounds
      <4> QED BY <3>1, <4>1
    <3>3. Low(N, lo, r, i) = Low(W, lo2, r, i - 1)
      <4>1. CASE i = 1
        BY <4>1, <1>9 DEF Low
      <4>2. CASE i # 1
        <5>1. i - 1 \in 1..m /\ (i - 1) + 1 = i /\ i - 1 # 0 /\ i # 0
          BY <4>2, <3>1, <1>2
        <5>2. W[r].recs[i - 1] = N[r].recs[i]
          BY <5>1, <1>3
        <5> QED BY <5>1, <5>2 DEF Low
      <4> QED BY <4>1, <4>2
    <3>4. High(N, hi, r, i) = High(W, hi2, r, i - 1)
      <4>1. CASE i = m + 1
        <5>1. i = Size(N, r) /\ i - 1 = Size(W, r)
          BY <4>1, <1>2, <1>3
        <5> QED BY <5>1, <1>9 DEF High
      <4>2. CASE i # m + 1
        <5>1. i \in 1..m /\ i # Size(N, r) /\ i - 1 # Size(W, r) /\ (i - 1) + 1 = i
          BY <4>2, <3>1, <1>2, <1>3
        <5> QED BY <5>1, <1>3 DEF High
      <4> QED BY <4>1, <4>2
    <3> QED BY <3>1, <3>2, <3>3, <3>4
  <2> QED BY <2>1, <2>2, <2>3 DEF InOrder
<1>12. InOrder(W, lo2, hi2, l)
  <2>1. \A i \in 1..Size(W, l) : i = t + 1 \/ (i \in 1..t /\ i < t + 1)
    BY <1>2, <1>3
  <2>2. ASSUME NEW i \in 1..Size(W, l) PROVE Within(W[l].recs[i], lo2[l], hi2[l])
    <3>1. CASE i = t + 1
      BY <3>1, <1>3, <1>5, <1>8, <1>9 DEF Within
    <3>2. CASE i # t + 1
      <4>1. /\ N[l].recs[i] \in Nat /\ lo[l] < N[l].recs[i] /\ N[l].recs[i] < s /\ W[l].recs[i] = N[l].recs[i]
        BY <3>2, <2>1, <1>3, <1>6
      <4> QED BY <4>1, <1>5, <1>8, <1>9 DEF Within
    <3> QED BY <3>1, <3>2
  <2>3. ASSUME NEW i \in 1..Size(W, l), NEW j \in 1..Size(W, l), i < j PROVE W[l].recs[i] < W[l].recs[j]
    <3>1. i \in 1..t
      BY <2>3, <1>2, <1>3
    <3>2. CASE j = t + 1
      BY <3>1, <3>2, <1>3, <1>6
    <3>3. CASE j # t + 1
      BY <3>1, <3>3, <2>1, <2>3, <1>3, <1>6
    <3> QED BY <3>2, <3>3
  <2>4. ASSUME NEW i \in 1..Width(W, l)
        PROVE  lo2[W[l].branches[i]] = Low(W, lo2, l, i - 1) /\ hi2[W[l].branches[i]] = High(W, hi2, l, i - 1)
    <3>1. CASE i = t + 2
      <4>1. N[l].depth # 0 /\ 1 \in 1..Width(N, r) /\ W[l].branches[i] = N[r].branches[1] /\ 1 - 1 = 0
        BY <3>1, <1>1, <1>2, <1>3
      <4>2. lo2[N[r].branches[1]] = Low(N, lo, r, 1 - 1) /\ hi2[N[r].branches[1]] = High(N, hi, r, 1 - 1)
        BY <4>1, <1>1, <1>9, BranchBounds
      <4>3. Low(N, lo, r, 0) = s /\ High(N, hi, r, 0) = u
        <5>1. 0 # Size(N, r) /\ 0 + 1 = 1
          BY <1>1
        <5> QED BY <5>1, <1>5 DEF Low, High
      <4>4. Low(W, lo2, l, i - 1) = s /\ High(W, hi2, l, i - 1) = u
        <5>1. i - 1 = t + 1 /\ t + 1 # 0
          BY <3>1, <1>2
        <5> QED BY <5>1, <1>3, <1>9 DEF Low, High
      <4> QED BY <4>1, <4>2, <4>3, <4>4
    <3>2. CASE i # t + 2
      <4>1. i \in 1..Width(N, l) /\ i \in 1..(t + 1) /\ W[l].branches[i] = N[l].branches[i]
        BY <3>2, <1>1, <1>2, <1>3
      <4>2. lo2[N[l].branches[i]] = Low(N, lo, l, i - 1) /\ hi2[N[l].branches[i]] = High(N, hi, l, i - 1)
        BY <4>1, <1>1, <1>9, BranchBounds
      <4>3. Low(N, lo, l, i - 1) = Low(W, lo2, l, i - 1)
        <5>1. i - 1 = 0 \/ i - 1 \in 1..t
          BY <4>1, <1>2
        <5> QED BY <5>1, <1>3, <1>9 DEF Low
      <4>4. High(N, hi, l, i - 1) = High(W, hi2, l, i - 1)
        <5>1. i - 1 # Size(W, l) /\ (i - 1) + 1 = i
          BY <4>1, <1>2, <1>3
        <5>2. CASE i = t + 1
          <6>1. i - 1 = Size(N, l)
            BY <5>2, <1>2
          <6> QED BY <5>1, <5>2, <6>1, <1>3, <1>5 DEF High
        <5>3. CASE i # t + 1
          <6>1. i - 1 # Size(N, l) /\ i \in 1..t
            BY <5>3, <4>1, <1>2
          <6> QED BY <5>1, <6>1, <1>3 DEF High
        <5> QED BY <5>2, <5>3
      <4> QED BY <4>1, <4>2, <4>3, <4>4
    <3> QED BY <3>1, <3>2
  <2> QED BY <2>2, <2>3, <2>4 DEF InOrder
<1> QED BY <1>1, <1>3, <1>9, <1>10, <1>11, <1>12 DEF Ordered, Rebound

\* No key is lost by that either.
LEMMA MoveLeftContents ==
    ASSUME NEW N, NEW W, NEW top, NEW q, NEW p, NEW l, NEW r, Beside(N, top, q, p, l, r),
           IsMoveLeft(N, W, q, p, l, r), Size(N, r) > 0
    PROVE  Contents(W) = Contents(N)
<1>1. /\ q \in Live(N) /\ l \in Live(N) /\ r \in Live(N) /\ Size(N, l) \in Nat /\ Size(N, r) \in Nat
      /\ Size(N, q) \in Nat /\ p + 1 \in 1..Size(N, q) /\ p \in Nat
  BY BesideProps
<1>2. /\ Live(W) = Live(N) /\ Size(W, r) + 1 = Size(N, r) /\ \A i \in 1..Size(W, r) : W[r].recs[i] = N[r].recs[i + 1]
      /\ Size(W, l) = Size(N, l) + 1 /\ W[l].recs[Size(N, l) + 1] = N[q].recs[p + 1]
      /\ \A i \in 1..Size(N, l) : W[l].recs[i] = N[l].recs[i]
      /\ Size(W, q) = Size(N, q) /\ W[q].recs[p + 1] = N[r].recs[1]
      /\ \A i \in 1..Size(N, q) : i # p + 1 => W[q].recs[i] = N[q].recs[i]
      /\ \A x \in Live(N) : x # l /\ x # r /\ x # q => W[x].recs = N[x].recs
  BY DEF IsMoveLeft
<1>3. Size(W, r) \in Nat
  BY <1>1, NodeTypes DEF IsMoveLeft
<1>4. ASSUME NEW c
      PROVE  Holds(W, l, c) \/ Holds(W, r, c) \/ Holds(W, q, c)
             <=> Holds(N, l, c) \/ Holds(N, r, c) \/ Holds(N, q, c)
  <2>1. Holds(N, r, c) <=> Holds(W, r, c) \/ W[q].recs[p + 1] = c
    <3>1. \A i \in 1..Size(N, r) : i = 1 \/ (i - 1 \in 1..Size(W, r) /\ W[r].recs[i - 1] = N[r].recs[i])
      <4> SUFFICES ASSUME NEW i \in 1..Size(N, r), i # 1
                   PROVE  i - 1 \in 1..Size(W, r) /\ W[r].recs[i - 1] = N[r].recs[i]
        OBVIOUS
      <4>1. i - 1 \in 1..Size(W, r) /\ (i - 1) + 1 = i
        BY <1>1, <1>2, <1>3
      <4> QED BY <4>1, <1>2
    <3>2. 1 \in 1..Size(N, r) /\ \A i \in 1..Size(W, r) : i + 1 \in 1..Size(N, r)
      BY <1>1, <1>2, <1>3
    <3> QED BY <3>1, <3>2, <1>2 DEF Holds
  <2>2. Holds(W, l, c) <=> Holds(N, l, c) \/ N[q].recs[p + 1] = c
    <3>1. \A i \in 1..Size(W, l) : i = Size(N, l) + 1 \/ i \in 1..Size(N, l)
      BY <1>1, <1>2
    <3>2. Size(N, l) + 1 \in 1..Size(W, l) /\ \A i \in 1..Size(N, l) : i \in 1..Size(W, l)
      BY <1>1, <1>2
    <3> QED BY <3>1, <3>2, <1>2 DEF Holds
  <2>3. ASSUME c # W[q].recs[p + 1] PROVE Holds(W, q, c) => Holds(N, q, c)
    BY <2>3, <1>2 DEF Holds
  <2>4. ASSUME c # N[q].recs[p + 1] PROVE Holds(N, q, c) => Holds(W, q, c)
    BY <2>4, <1>2 DEF Holds
  <2>5. (W[q].recs[p + 1] = c => Holds(W, q, c)) /\ (N[q].recs[p + 1] = c => Holds(N, q, c))
    BY <1>1, <1>2 DEF Holds
  <2> QED BY <2>1, <2>2, <2>3, <2>4, <2>5
<1> QED BY <1>1, <1>2, <1>4, SameContents

\* The bounds after l has taken what r had.
Widened(hi, hi2, l, r) == hi2 = [hi EXCEPT ![l] = hi[r]]

\* The left of two neighbours takes what is between them and what is right of it.
LEMMA CombineOrdered ==
    ASSUME NEW N, NEW W, NEW top, NEW q, NEW p, NEW l, NEW r, NEW lo, NEW hi, Beside(N, top, q, p, l, r),
           Ordered(N, top, lo, hi), IsCombine(N, W, q, p, l, r),
           NEW hi2, Widened(hi, hi2, l, r)
    PROVE  Ordered(W, top, lo, hi2)
<1>1. /\ N \in Memory /\ q \in Live(N) /\ l \in Live(N) /\ r \in Live(N) /\ l # r /\ l # q /\ r # q
      /\ l # top /\ r # top /\ l \in Node /\ r \in Node /\ q \in Node /\ top \in Node
      /\ Size(N, l) \in Nat /\ Size(N, q) \in Nat /\ p \in Nat /\ p + 1 \in 1..Size(N, q)
      /\ Width(N, l) = (IF N[l].depth = 0 THEN 0 ELSE Size(N, l) + 1)
      /\ Width(N, r) = (IF N[l].depth = 0 THEN 0 ELSE Size(N, r) + 1)
      /\ Width(N, q) = Size(N, q) + 1 /\ N[q].branches[p + 1] = l
  <2>1. top \in Live(N)
    BY DEF Beside, Linked
  <2> QED BY <2>1, BesideProps DEF Live
<1> DEFINE t == Size(N, l)
           z == Size(N, q) - 1
           s == N[q].recs[p + 1]
<1>2. t \in Nat /\ Size(N, l) = t /\ z \in Nat /\ Size(N, q) = z + 1 /\ p <= z
  BY <1>1
<1> HIDE DEF t, z
<1>3. /\ Live(W) = Live(N) \ {r} /\ Size(N, r) = 0
      /\ Size(W, l) = t + 1 /\ W[l].recs[t + 1] = s
      /\ \A i \in 1..t : W[l].recs[i] = N[l].recs[i]
      /\ Width(W, l) = (IF N[l].depth = 0 THEN 0 ELSE t + 2)
      /\ N[l].depth # 0 => W[l].branches[t + 2] = N[r].branches[1]
      /\ \A i \in 1..Width(N, l) : W[l].branches[i] = N[l].branches[i]
  BY <1>2 DEF IsCombine, s
<1>4. /\ Size(W, q) = z /\ Width(W, q) = z + 1
      /\ \A i \in 1..z : W[q].recs[i] = IF i < p + 1 THEN N[q].recs[i] ELSE N[q].recs[i + 1]
      /\ \A i \in 1..(z + 1) : W[q].branches[i] = IF i < p + 2 THEN N[q].branches[i] ELSE N[q].branches[i + 1]
  <2>1. Size(W, q) + 1 = z + 1 /\ Size(W, q) \in Nat
    <3>1. W \in Memory /\ q \in Live(W)
      BY <1>1 DEF IsCombine
    <3> QED BY <3>1, <1>2, NodeTypes DEF IsCombine
  <2>2. Size(W, q) = z
    BY <2>1, <1>2
  <2> QED BY <2>2, <1>2 DEF IsCombine
<1>5. /\ s \in Nat \ {0} /\ hi[l] = s /\ lo[r] = s /\ lo[l] < s /\ (hi[r] = 0 \/ s < hi[r])
      /\ hi[r] = High(N, hi, q, p + 1) /\ lo[l] \in Nat /\ hi[r] \in Nat
  BY Between DEF s
<1> HIDE DEF s
<1>6. /\ \A i \in 1..t : N[l].recs[i] \in Nat \ {0} /\ lo[l] < N[l].recs[i] /\ N[l].recs[i] < s
      /\ \A i, j \in 1..t : i < j => N[l].recs[i] < N[l].recs[j]
  <2>1. /\ \A i \in 1..Size(N, l) : /\ N[l].recs[i] \in Nat \ {0} /\ lo[l] < N[l].recs[i]
                                    /\ hi[l] = 0 \/ N[l].recs[i] < hi[l]
        /\ \A i, j \in 1..Size(N, l) : i < j => N[l].recs[i] < N[l].recs[j]
    BY <1>1, NodeOrder
  <2> QED BY <2>1, <1>2, <1>5
<1>7. /\ lo[q] \in Nat /\ hi[q] \in Nat
      /\ \A i \in 1..(z + 1) : /\ N[q].recs[i] \in Nat \ {0} /\ lo[q] < N[q].recs[i]
                               /\ hi[q] = 0 \/ N[q].recs[i] < hi[q]
      /\ \A i, j \in 1..(z + 1) : i < j => N[q].recs[i] < N[q].recs[j]
  BY <1>1, <1>2, NodeOrder
<1>8. hi2[l] = hi[r] /\ Rebound(lo, hi, lo, hi2, l, r) /\ lo[top] = 0 /\ hi2[top] = 0 /\ hi2[q] = hi[q]
  BY <1>1, <1>5 DEF Ordered, Rebound, Widened
<1>9. ASSUME NEW x \in Live(W), x # l, x # q PROVE InOrder(W, lo, hi2, x)
  <2>1. x \in Live(N) /\ x # r /\ W[x].recs = N[x].recs /\ W[x].branches = N[x].branches
    BY <1>3, <1>9 DEF IsCombine
  <2> QED BY <2>1, <1>8, <1>9, Aside
<1>10. InOrder(W, lo, hi2, l)
  <2>1. \A i \in 1..Size(W, l) : i = t + 1 \/ (i \in 1..t /\ i < t + 1)
    BY <1>2, <1>3
  <2>2. ASSUME NEW i \in 1..Size(W, l) PROVE Within(W[l].recs[i], lo[l], hi2[l])
    <3>1. CASE i = t + 1
      BY <3>1, <1>3, <1>5, <1>8 DEF Within
    <3>2. CASE i # t + 1
      <4>1. /\ N[l].recs[i] \in Nat /\ lo[l] < N[l].recs[i] /\ N[l].recs[i] < s /\ W[l].recs[i] = N[l].recs[i]
        BY <3>2, <2>1, <1>3, <1>6
      <4> QED BY <4>1, <1>5, <1>8 DEF Within
    <3> QED BY <3>1, <3>2
  <2>3. ASSUME NEW i \in 1..Size(W, l), NEW j \in 1..Size(W, l), i < j PROVE W[l].recs[i] < W[l].recs[j]
    <3>1. i \in 1..t
      BY <2>3, <1>2, <1>3
    <3>2. CASE j = t + 1
      BY <3>1, <3>2, <1>3, <1>6
    <3>3. CASE j # t + 1
      BY <3>1, <3>3, <2>1, <2>3, <1>3, <1>6
    <3> QED BY <3>2, <3>3
  <2>4. ASSUME NEW i \in 1..Width(W, l)
        PROVE  lo[W[l].branches[i]] = Low(W, lo, l, i - 1) /\ hi2[W[l].branches[i]] = High(W, hi2, l, i - 1)
    <3>1. CASE i = t + 2
      <4>1. N[l].depth # 0 /\ 1 \in 1..Width(N, r) /\ W[l].branches[i] = N[r].branches[1] /\ 1 - 1 = 0
        BY <3>1, <1>1, <1>2, <1>3
      <4>2. lo[N[r].branches[1]] = Low(N, lo, r, 1 - 1) /\ hi2[N[r].branches[1]] = High(N, hi, r, 1 - 1)
        BY <4>1, <1>1, <1>8, BranchBounds
      <4>3. Low(N, lo, r, 0) = s /\ High(N, hi, r, 0) = hi[r]
        BY <1>3, <1>5 DEF Low, High
      <4>4. Low(W, lo, l, i - 1) = s /\ High(W, hi2, l, i - 1) = hi[r]
        <5>1. i - 1 = t + 1 /\ t + 1 # 0
          BY <3>1, <1>2
        <5> QED BY <5>1, <1>3, <1>8 DEF Low, High
      <4> QED BY <4>1, <4>2, <4>3, <4>4
    <3>2. CASE i # t + 2
      <4>1. i \in 1..Width(N, l) /\ i \in 1..(t + 1) /\ W[l].branches[i] = N[l].branches[i]
        BY <3>2, <1>1, <1>2, <1>3
      <4>2. lo[N[l].branches[i]] = Low(N, lo, l, i - 1) /\ hi2[N[l].branches[i]] = High(N, hi, l, i - 1)
        BY <4>1, <1>1, <1>8, BranchBounds
      <4>3. Low(N, lo, l, i - 1) = Low(W, lo, l, i - 1)
        <5>1. i - 1 = 0 \/ i - 1 \in 1..t
          BY <4>1, <1>2
        <5> QED BY <5>1, <1>3 DEF Low
      <4>4. High(N, hi, l, i - 1) = High(W, hi2, l, i - 1)
        <5>1. i - 1 # Size(W, l) /\ (i - 1) + 1 = i
          BY <4>1, <1>2, <1>3
        <5>2. CASE i = t + 1
          <6>1. i - 1 = Size(N, l)
            BY <5>2, <1>2
          <6> QED BY <5>1, <5>2, <6>1, <1>3, <1>5 DEF High
        <5>3. CASE i # t + 1
          <6>1. i - 1 # Size(N, l) /\ i \in 1..t
            BY <5>3, <4>1, <1>2
          <6> QED BY <5>1, <6>1, <1>3 DEF High
        <5> QED BY <5>2, <5>3
      <4> QED BY <4>1, <4>2, <4>3, <4>4
    <3> QED BY <3>1, <3>2
  <2> QED BY <2>2, <2>3, <2>4 DEF InOrder
<1>11. InOrder(W, lo, hi2, q)
  <2> DEFINE o(i) == IF i < p + 1 THEN i ELSE i + 1
  <2>1. \A i \in 1..z : /\ o(i) \in 1..(z + 1) /\ W[q].recs[i] = N[q].recs[o(i)]
                        /\ \A j \in 1..z : i < j => o(i) < o(j)
    BY <1>1, <1>2, <1>4
  <2> HIDE DEF o
  <2>2. \A i \in 1..Size(W, q) : Within(W[q].recs[i], lo[q], hi2[q])
    BY <2>1, <1>4, <1>7, <1>8 DEF Within
  <2>3. \A i, j \in 1..Size(W, q) : i < j => W[q].recs[i] < W[q].recs[j]
    BY <2>1, <1>4, <1>7
  <2>4. ASSUME NEW i \in 1..Width(W, q)
        PROVE  lo[W[q].branches[i]] = Low(W, lo, q, i - 1) /\ hi2[W[q].branches[i]] = High(W, hi2, q, i - 1)
    <3>1. i \in 1..(z + 1)
      BY <1>4
    <3>2. CASE i <= p
      <4>1. W[q].branches[i] = N[q].branches[i] /\ i \in 1..Width(N, q) /\ i # p + 1 /\ i # p + 2
        BY <3>1, <3>2, <1>1, <1>2, <1>4
      <4>2. lo[N[q].branches[i]] = Low(N, lo, q, i - 1) /\ hi2[N[q].branches[i]] = High(N, hi, q, i - 1)
        BY <4>1, <1>1, <1>8, BranchBounds
      <4>3. Low(N, lo, q, i - 1) = Low(W, lo, q, i - 1)
        <5>1. i - 1 = 0 \/ (i - 1 \in 1..z /\ i - 1 < p + 1)
          BY <3>1, <3>2, <1>1, <1>2
        <5> QED BY <5>1, <1>4 DEF Low
      <4>4. High(N, hi, q, i - 1) = High(W, hi2, q, i - 1)
        <5>1. i - 1 # z /\ i - 1 # z + 1 /\ (i - 1) + 1 = i /\ i \in 1..z /\ i < p + 1
          BY <3>1, <3>2, <1>1, <1>2
        <5> QED BY <5>1, <1>2, <1>4 DEF High
      <4> QED BY <4>1, <4>2, <4>3, <4>4
    <3>3. CASE i = p + 1
      <4>1. W[q].branches[i] = l /\ i \in 1..Width(N, q) /\ i # p + 2 /\ i - 1 = p /\ N[q].branches[i] = l
        BY <3>1, <3>3, <1>1, <1>2, <1>4
      <4>2. lo[N[q].branches[i]] = Low(N, lo, q, i - 1)
        BY <4>1, <1>1, <1>8, BranchBounds
      <4>3. Low(N, lo, q, p) = Low(W, lo, q, p)
        <5>1. p = 0 \/ (p \in 1..z /\ p < p + 1)
          BY <1>1, <1>2
        <5> QED BY <5>1, <1>4 DEF Low
      <4>4. High(N, hi, q, p + 1) = High(W, hi2, q, p)
        <5>1. CASE p = z
          <6>1. p + 1 = Size(N, q) /\ p = Size(W, q)
            BY <5>1, <1>2, <1>4
          <6> QED BY <6>1, <1>8 DEF High
        <5>2. CASE p # z
          <6>1. p + 1 # Size(N, q) /\ p # Size(W, q) /\ p + 1 \in 1..z /\ ~(p + 1 < p + 1)
            BY <5>2, <1>1, <1>2, <1>4
          <6>2. W[q].recs[p + 1] = N[q].recs[(p + 1) + 1]
            BY <6>1, <1>4
          <6> QED BY <6>1, <6>2 DEF High
        <5> QED BY <5>1, <5>2
      <4> QED BY <4>1, <4>2, <4>3, <4>4, <1>5, <1>8
    <3>4. CASE i > p + 1
      <4> DEFINE j == i + 1
      <4>1. j \in 1..Width(N, q) /\ j # p + 1 /\ j # p + 2 /\ W[q].branches[i] = N[q].branches[j]
            /\ j - 1 = i
        BY <3>1, <3>4, <1>1, <1>2, <1>4
      <4> HIDE DEF j
      <4>2. lo[N[q].branches[j]] = Low(N, lo, q, j - 1) /\ hi2[N[q].branches[j]] = High(N, hi, q, j - 1)
        BY <4>1, <1>1, <1>8, BranchBounds
      <4>3. Low(N, lo, q, i) = Low(W, lo, q, i - 1)
        <5>1. i - 1 \in 1..z /\ ~(i - 1 < p + 1) /\ i # 0 /\ i - 1 # 0 /\ (i - 1) + 1 = i
          BY <3>1, <3>4, <1>1, <1>2
        <5>2. W[q].recs[i - 1] = N[q].recs[i]
          BY <5>1, <1>4
        <5> QED BY <5>1, <5>2 DEF Low
      <4>4. High(N, hi, q, i) = High(W, hi2, q, i - 1)
        <5>1. CASE i = z + 1
          <6>1. i = Size(N, q) /\ i - 1 = Size(W, q)
            BY <5>1, <1>2, <1>4
          <6> QED BY <6>1, <1>8 DEF High
        <5>2. CASE i # z + 1
          <6>1. i # Size(N, q) /\ i - 1 # Size(W, q) /\ i \in 1..z /\ ~(i < p + 1) /\ (i - 1) + 1 = i
            BY <5>2, <3>1, <3>4, <1>1, <1>2, <1>4
          <6> QED BY <6>1, <1>4 DEF High
        <5> QED BY <5>1, <5>2
      <4> QED BY <4>1, <4>2, <4>3, <4>4
    <3> QED BY <3>1, <3>2, <3>3, <3>4, <1>1, <1>2
  <2> QED BY <2>2, <2>3, <2>4 DEF InOrder
<1>12. \A x \in Live(W) : InOrder(W, lo, hi2, x)
  BY <1>9, <1>10, <1>11
<1> QED BY <1>8, <1>12 DEF Ordered, Rebound

\* The node that is left has all the keys of both and the record between them.
LEMMA CombineContents ==
    ASSUME NEW N, NEW W, NEW top, NEW q, NEW p, NEW l, NEW r, Beside(N, top, q, p, l, r),
           IsCombine(N, W, q, p, l, r)
    PROVE  Contents(W) = Contents(N)
<1>1. /\ q \in Live(N) /\ l \in Live(N) /\ r \in Live(N) /\ l # r /\ r # q
      /\ Size(N, l) \in Nat /\ Size(N, q) \in Nat /\ p + 1 \in 1..Size(N, q) /\ p \in Nat
  BY BesideProps
<1>2. /\ Live(W) = Live(N) \ {r} /\ Size(N, r) = 0
      /\ Size(W, l) = Size(N, l) + 1 /\ W[l].recs[Size(N, l) + 1] = N[q].recs[p + 1]
      /\ \A i \in 1..Size(N, l) : W[l].recs[i] = N[l].recs[i]
      /\ Size(W, q) + 1 = Size(N, q)
      /\ \A i \in 1..Size(W, q) : W[q].recs[i] = IF i < p + 1 THEN N[q].recs[i] ELSE N[q].recs[i + 1]
      /\ \A x \in Live(W) : x # l /\ x # q => W[x].recs = N[x].recs
  BY DEF IsCombine
<1>3. Size(W, q) \in Nat
  BY <1>1, NodeTypes DEF IsCombine
<1>4. ASSUME NEW c
      PROVE  Holds(W, l, c) \/ Holds(W, q, c) <=> Holds(N, l, c) \/ Holds(N, q, c)
  <2>1. Holds(W, l, c) <=> Holds(N, l, c) \/ N[q].recs[p + 1] = c
    <3>1. \A i \in 1..Size(W, l) : i = Size(N, l) + 1 \/ i \in 1..Size(N, l)
      BY <1>1, <1>2
    <3>2. Size(N, l) + 1 \in 1..Size(W, l) /\ \A i \in 1..Size(N, l) : i \in 1..Size(W, l)
      BY <1>1, <1>2
    <3> QED BY <3>1, <3>2, <1>2 DEF Holds
  <2>2. Holds(N, q, c) <=> Holds(W, q, c) \/ N[q].recs[p + 1] = c
    <3>1. ASSUME NEW i \in 1..Size(N, q), i # p + 1 PROVE \E j \in 1..Size(W, q) : W[q].recs[j] = N[q].recs[i]
      <4>1. CASE i < p + 1
        <5>1. i \in 1..Size(W, q)
          BY <4>1, <1>1, <1>2, <1>3
        <5> QED BY <4>1, <5>1, <1>2
      <4>2. CASE i > p + 1
        <5>1. i - 1 \in 1..Size(W, q) /\ ~(i - 1 < p + 1) /\ (i - 1) + 1 = i
          BY <4>2, <1>1, <1>2, <1>3
        <5>2. W[q].recs[i - 1] = N[q].recs[i]
          BY <5>1, <1>2
        <5> QED BY <5>1, <5>2
      <4> QED BY <4>1, <4>2, <3>1, <1>1
    <3>2. \A i \in 1..Size(W, q) : i \in 1..Size(N, q) /\ i + 1 \in 1..Size(N, q)
      BY <1>1, <1>2, <1>3
    <3>3. Holds(W, q, c) => Holds(N, q, c)
      BY <3>2, <1>2 DEF Holds
    <3>4. N[q].recs[p + 1] = c => Holds(N, q, c)
      BY <1>1 DEF Holds
    <3>5. Holds(N, q, c) /\ N[q].recs[p + 1] # c => Holds(W, q, c)
      BY <3>1 DEF Holds
    <3> QED BY <3>3, <3>4, <3>5
  <2> QED BY <2>1, <2>2
<1>5. ASSUME NEW x \in Live(W), x # l, x # q, NEW c PROVE Holds(W, x, c) <=> Holds(N, x, c)
  BY <1>2, <1>5 DEF Holds, Size
<1>6. \A c : ~Holds(N, r, c)
  BY <1>2 DEF Holds
<1>7. ASSUME NEW c PROVE (\E x \in Live(W) : Holds(W, x, c)) <=> (\E x \in Live(N) : Holds(N, x, c))
  BY <1>1, <1>2, <1>4, <1>5, <1>6
<1> QED BY <1>7 DEF Contents


-----------------------------------------------------------------------------
(* A root over the root *)

\* There are bounds that fit.
Sorted(ns, top) == \E lo, hi : Ordered(ns, top, lo, hi)

\* A new root without a record is above all keys.
LEMMA PlantedSorted ==
    ASSUME NEW V, NEW G, NEW a, NEW g, IsPlanted(V, G, a, g), Linked(V, a), Sorted(V, a)
    PROVE  Sorted(G, g) /\ Contents(G) = Contents(V)
<1>1. PICK lo, hi : Ordered(V, a, lo, hi)
  BY DEF Sorted
<1>2. /\ g \in Node /\ g \notin Live(V) /\ a \in Live(V) /\ Live(G) = Live(V) \cup {g}
      /\ Size(G, g) = 0 /\ Width(G, g) = 1 /\ G[g].branches[1] = a
      /\ \A x \in Live(V) : G[x].recs = V[x].recs /\ G[x].branches = V[x].branches
  BY DEF IsPlanted, IsCrowned, Size, Width
<1>3. /\ lo \in [Node -> Nat] /\ hi \in [Node -> Nat] /\ lo[a] = 0 /\ hi[a] = 0
      /\ \A n \in Live(V) : InOrder(V, lo, hi, n)
  BY <1>1 DEF Ordered
<1> DEFINE lo2 == [lo EXCEPT ![g] = 0]
           hi2 == [hi EXCEPT ![g] = 0]
<1>4. /\ lo2 \in [Node -> Nat] /\ hi2 \in [Node -> Nat] /\ lo2[g] = 0 /\ hi2[g] = 0
      /\ \A x \in Live(V) : lo2[x] = lo[x] /\ hi2[x] = hi[x]
  BY <1>2, <1>3 DEF Live
<1> HIDE DEF lo2, hi2
<1>5. ASSUME NEW n \in Live(V) PROVE InOrder(G, lo2, hi2, n)
  <2>1. InOrder(V, lo, hi, n) /\ lo2[n] = lo[n] /\ hi2[n] = hi[n]
    BY <1>3, <1>4
  <2>2. \A i \in 1..Width(V, n) : V[n].branches[i] \in Live(V)
    BY LinkDown
  <2>3. InOrder(V, lo2, hi2, n)
    BY <2>1, <2>2, <1>4 DEF InOrder, Low, High
  <2> QED BY <2>3, <1>2, SameOrder
<1>6. InOrder(G, lo2, hi2, g)
  <2>1. \A i \in 1..Width(G, g) : i = 1 /\ i - 1 = 0
    BY <1>2
  <2>2. lo2[a] = 0 /\ hi2[a] = 0
    BY <1>2, <1>3, <1>4
  <2>3. \A i \in 1..Size(G, g) : FALSE
    BY <1>2
  <2> QED BY <2>1, <2>2, <2>3, <1>2, <1>4 DEF InOrder, Low, High
<1>7. Ordered(G, g, lo2, hi2)
  BY <1>2, <1>4, <1>5, <1>6 DEF Ordered
<1>8. \A c : ~Holds(G, g, c)
  BY <1>2 DEF Holds
<1>9. \A n \in Live(V) : \A c : Holds(G, n, c) <=> Holds(V, n, c)
  BY <1>2 DEF Holds, Size
<1> QED BY <1>2, <1>7, <1>8, <1>9 DEF Sorted, Contents

\* And it can be taken away again.
LEMMA UnplantedSorted ==
    ASSUME NEW V, V \in Memory, NEW G, NEW a, NEW g, IsCrowned(V, G, a, g), Linked(G, g), Sorted(G, g)
    PROVE  Sorted(V, a) /\ Contents(V) = Contents(G)
<1>1. PICK lo, hi : Ordered(G, g, lo, hi)
  BY DEF Sorted
<1>2. /\ g \in Node /\ g \notin Live(V) /\ a \in Live(V) /\ Live(G) = Live(V) \cup {g}
      /\ Size(G, g) = 0 /\ Width(G, g) = 1 /\ G[g].branches[1] = a
      /\ \A x \in Live(V) : G[x].recs = V[x].recs /\ G[x].branches = V[x].branches
  BY DEF IsCrowned, Size, Width
<1>3. /\ lo \in [Node -> Nat] /\ hi \in [Node -> Nat] /\ lo[g] = 0 /\ hi[g] = 0
      /\ \A n \in Live(G) : InOrder(G, lo, hi, n)
  BY <1>1 DEF Ordered
<1>4. lo[a] = 0 /\ hi[a] = 0
  <2>1. 1 \in 1..Width(G, g) /\ 1 - 1 = 0
    BY <1>2
  <2>2. InOrder(G, lo, hi, g)
    BY <1>2, <1>3
  <2>3. lo[a] = Low(G, lo, g, 0) /\ hi[a] = High(G, hi, g, 0)
    BY <2>1, <2>2, <1>2 DEF InOrder
  <2> QED BY <2>3, <1>2, <1>3 DEF Low, High
<1>5. ASSUME NEW n \in Live(V) PROVE InOrder(V, lo, hi, n)
  <2>1. InOrder(G, lo, hi, n) /\ V[n].recs = G[n].recs /\ V[n].branches = G[n].branches
    BY <1>2, <1>3
  <2> QED BY <2>1, SameOrder
<1>6. Ordered(V, a, lo, hi)
  BY <1>3, <1>4, <1>5 DEF Ordered
<1>8. \A c : ~Holds(G, g, c)
  BY <1>2 DEF Holds
<1>9. \A n \in Live(V) : \A c : Holds(G, n, c) <=> Holds(V, n, c)
  BY <1>2 DEF Holds, Size
<1> QED BY <1>2, <1>6, <1>8, <1>9 DEF Sorted, Contents

-----------------------------------------------------------------------------
(* What a search finds in a node *)

Rising(recs) == \A i, j \in 1..Len(recs) : i < j => recs[i] < recs[j]

\* The first position whose record is not less than k.
LEMMA SearchExact ==
    ASSUME NEW recs \in Seq(Nat), NEW k \in Nat, Rising(recs)
    PROVE  /\ Search(recs, k) \in 0..Len(recs)
           /\ \A i \in 1..Search(recs, k) : recs[i] < k
           /\ \A i \in (Search(recs, k) + 1)..Len(recs) : k <= recs[i]
<1>1. PICK f : SearchIs(recs, k, f) /\ Search(recs, k) = f[<<0, Len(recs)>>]
  BY SearchGoes
<1>0. Len(recs) \in Nat /\ \A i \in 1..Len(recs) : recs[i] \in Nat
  OBVIOUS
<1> DEFINE Less(w) == \A i \in 1..w : recs[i] < k
           More(w) == \A i \in (w + 1)..Len(recs) : k <= recs[i]
           Fits(s, c) == s \in Nat /\ c \in Nat /\ s + c <= Len(recs) /\ Less(s) /\ More(s + c)
           Fine(w) == w \in 0..Len(recs) /\ Less(w) /\ More(w)
           Bad == {x \in Nat \X Nat : Fits(x[1], x[2]) /\ ~Fine(f[x])}
           S == {x[2] : x \in Bad}
<1>2. ASSUME Bad # {} PROVE FALSE
  <2>1. S \in SUBSET Nat /\ S # {}
    BY <1>2
  <2>2. PICK x \in Bad : \A y \in Bad : x[2] <= y[2]
    <3> HIDE DEF Bad
    <3>1. PICK s \in S : \A t \in S : s <= t
      <4> HIDE DEF S
      <4> QED BY <2>1, LeastNatural
    <3> QED BY <3>1
  <2> DEFINE s == x[1]
             c == x[2]
             m == c \div 2
  <2>3. s \in Nat /\ c \in Nat /\ x \in Nat \X Nat /\ Fits(s, c) /\ ~Fine(f[x])
    <3> HIDE DEF Fits, Fine
    <3> QED OBVIOUS
  <2>4. f[x] = IF c = 0 THEN s ELSE IF k > recs[s + m + 1] THEN f[<<s + m + 1, c - m - 1>>] ELSE f[<<s, m>>]
    BY <1>1, <2>3 DEF SearchIs
  <2>5. c # 0
    <3>1. c = 0 => f[x] = s
      BY <2>4
    <3> HIDE DEF s, c, Less, More
    <3>2. c = 0 => Fine(s)
      <4>1. c = 0 => s + c = s
        BY <2>3
      <4> QED BY <4>1, <2>3, <1>0
    <3> HIDE DEF Fine
    <3> QED BY <2>3, <3>1, <3>2
  <2>6. m \in Nat /\ m < c
    <3> HIDE DEF c
    <3> QED BY <2>3, <2>5
  <2> HIDE DEF m, s, c
  <2> DEFINE y == <<s + m + 1, c - m - 1>>
             z == <<s, m>>
  <2>7. /\ y \in Nat \X Nat /\ y[1] = s + m + 1 /\ y[2] = c - m - 1 /\ y[2] < c
        /\ z \in Nat \X Nat /\ z[1] = s /\ z[2] = m
    BY SMTT(60), <2>3, <2>6
  <2>8. s + m + 1 \in 1..Len(recs) /\ recs[s + m + 1] \in Nat /\ s + c <= Len(recs)
    <3>1. s + c <= Len(recs)
      <4> HIDE DEF Less, More
      <4> QED BY <2>3
    <3>2. s + m + 1 \in 1..Len(recs)
      <4> HIDE DEF Less, More, Fits
      <4> QED BY SMTT(60), <3>1, <1>0, <2>3, <2>6
    <3> HIDE DEF Fits
    <3> QED BY <3>1, <3>2, <1>0
  <2>9. CASE k > recs[s + m + 1]
    <3>1. Less(s + m + 1)
      <4>1. ASSUME NEW i \in 1..(s + m + 1) PROVE recs[i] < k
        <5>1. i \in 1..Len(recs) /\ recs[i] \in Nat
          BY SMTT(60), <2>8, <1>0
        <5>2. i = s + m + 1 \/ recs[i] < recs[s + m + 1]
          BY SMTT(60), <5>1, <2>8 DEF Rising
        <5> QED BY SMTT(60), <5>1, <5>2, <2>8, <2>9
      <4> QED BY <4>1
    <3>2. More((s + m + 1) + (c - m - 1)) /\ (s + m + 1) + (c - m - 1) = s + c
      <4>1. (s + m + 1) + (c - m - 1) = s + c
        BY <2>3, <2>6
      <4> HIDE DEF More
      <4> QED BY <4>1, <2>3
    <3>3. Fits(y[1], y[2])
      <4> HIDE DEF Less, More, y
      <4> QED BY <3>1, <3>2, <2>3, <2>6, <2>7, <2>8
    <3>4. y \notin Bad
      <4>1. x[2] = c
        BY DEF c
      <4> HIDE DEF Bad, y
      <4> QED BY <2>2, <2>3, <2>6, <2>7, <4>1
    <3>5. f[x] = f[y]
      BY <2>4, <2>5, <2>9
    <3> HIDE DEF Fits, Fine, y
    <3> QED BY <3>3, <3>4, <3>5, <2>3, <2>7
  <2>10. CASE ~(k > recs[s + m + 1])
    <3>1. More(s + m)
      <4>1. ASSUME NEW i \in (s + m + 1)..Len(recs) PROVE k <= recs[i]
        <5>1. i \in 1..Len(recs) /\ recs[i] \in Nat
          BY <2>8, <1>0
        <5>2. i = s + m + 1 \/ recs[s + m + 1] < recs[i]
          BY <5>1, <2>8 DEF Rising
        <5> QED BY SMTT(60), <5>1, <5>2, <2>8, <2>10
      <4> QED BY <4>1
    <3>2. Fits(z[1], z[2])
      <4> HIDE DEF Less, More, z
      <4> QED BY <3>1, <2>3, <2>6, <2>7, <2>8
    <3>4. z \notin Bad
      <4>1. x[2] = c
        BY DEF c
      <4> HIDE DEF Bad, z
      <4> QED BY <2>2, <2>3, <2>6, <2>7, <4>1
    <3>5. f[x] = f[z]
      BY <2>4, <2>5, <2>10
    <3> HIDE DEF Fits, Fine, z
    <3> QED BY <3>2, <3>4, <3>5, <2>3, <2>7
  <2> QED BY <2>9, <2>10
<1> DEFINE w == <<0, Len(recs)>>
<1>3. w \in Nat \X Nat /\ w[1] = 0 /\ w[2] = Len(recs)
  BY <1>0
<1>4. Fits(0, Len(recs))
  BY <1>0
<1>5. Fine(f[w])
  <2> HIDE DEF w, Fits, Fine
  <2> QED BY <1>2, <1>3, <1>4
<1> QED BY <1>1, <1>5

-----------------------------------------------------------------------------
(* The way to a key *)

\* The root is above every other node.
LEMMA TopHighest ==
    ASSUME NEW V, NEW top, Linked(V, top), NEW x \in Live(V)
    PROVE  V[x].depth \in Nat /\ V[top].depth \in Nat /\ V[x].depth <= V[top].depth
           /\ (x # top => V[x].depth < V[top].depth)
<1>0. V \in Memory /\ top \in Live(V) /\ \A n \in Live(V) : V[n].depth \in Nat
  BY NodeTypes DEF Linked
<1>1. PICK b \in Nat : \A n \in Live(V) : V[n].depth <= b
  BY <1>0, DepthBound
<1> DEFINE S == {b - V[n].depth : n \in Live(V)}
<1>2. S \in SUBSET Nat /\ S # {}
  BY <1>0, <1>1
<1>3. PICK n \in Live(V) : \A y \in Live(V) : V[y].depth <= V[n].depth
  <2>1. PICK s \in S : \A t \in S : s <= t
    <3> HIDE DEF S
    <3> QED BY <1>2, LeastNatural
  <2>2. PICK n \in Live(V) : s = b - V[n].depth
    OBVIOUS
  <2>3. ASSUME NEW y \in Live(V) PROVE V[y].depth <= V[n].depth
    <3>1. b - V[n].depth <= b - V[y].depth
      BY <2>1, <2>2
    <3> QED BY <3>1, <1>0
  <2> QED BY <2>3
<1>4. ASSUME NEW y \in Live(V), y # top PROVE V[y].depth < V[n].depth
  <2>1. V[y].parent \in Live(V) /\ V[V[y].parent].depth = V[y].depth + 1
    BY <1>4, LinkUp
  <2> QED BY <2>1, <1>0, <1>3
<1>5. n = top
  BY <1>4, <1>0
<1> QED BY <1>0, <1>3, <1>4, <1>5

\* The nodes that may have k under them.
About(V, lo, hi, k) == {n \in Live(V) : Within(k, lo[n], hi[n])}

\* A node that holds a key is one of them.
LEMMA HolderAbout ==
    ASSUME NEW V \in Memory, NEW top, NEW lo, NEW hi, Ordered(V, top, lo, hi), NEW k, NEW n \in Live(V),
           Holds(V, n, k)
    PROVE  n \in About(V, lo, hi, k) /\ k \in Keys
<1>1. PICK i \in 1..Size(V, n) : V[n].recs[i] = k
  BY DEF Holds
<1>2. k \in Keys
  BY <1>1, NodeTypes
<1>3. InOrder(V, lo, hi, n)
  BY DEF Ordered
<1> QED BY <1>1, <1>2, <1>3 DEF InOrder, About

\* Its parent is one too, and has records on both sides of k only.
LEMMA AboutUp ==
    ASSUME NEW V, NEW top, NEW lo, NEW hi, Tree(V, top, lo, hi), NEW k \in Nat,
           NEW n \in About(V, lo, hi, k), n # top
    PROVE  LET q == V[n].parent
               o == V[n].pos
           IN  /\ q \in About(V, lo, hi, k) /\ q \in Live(V) /\ V[q].depth = V[n].depth + 1
               /\ o \in 0..Size(V, q) /\ Size(V, q) \in Nat /\ V[q].branches[o + 1] = n
               /\ \A i \in 1..o : V[q].recs[i] < k
               /\ \A i \in (o + 1)..Size(V, q) : k < V[q].recs[i]
<1> DEFINE q == V[n].parent
           o == V[n].pos
<1>1. Linked(V, top) /\ Ordered(V, top, lo, hi) /\ V \in Memory /\ n \in Live(V) /\ Within(k, lo[n], hi[n])
  BY DEF Tree, Linked, About
<1>2. /\ q \in Live(V) /\ o \in Nat /\ o + 1 \in 1..Width(V, q) /\ V[q].branches[o + 1] = n
      /\ V[q].depth = V[n].depth + 1 /\ Width(V, q) = Size(V, q) + 1
  BY <1>1, LinkUp
<1>3. /\ lo[q] \in Nat /\ hi[q] \in Nat /\ Size(V, q) \in Nat
      /\ \A i \in 1..Size(V, q) : /\ V[q].recs[i] \in Nat \ {0} /\ lo[q] < V[q].recs[i]
                                  /\ hi[q] = 0 \/ V[q].recs[i] < hi[q]
      /\ \A i, j \in 1..Size(V, q) : i < j => V[q].recs[i] < V[q].recs[j]
  BY <1>1, <1>2, NodeOrder, NodeTypes
<1>4. lo[n] = Low(V, lo, q, o) /\ hi[n] = High(V, hi, q, o)
  <2>1. InOrder(V, lo, hi, q) /\ (o + 1) - 1 = o
    BY <1>1, <1>2 DEF Ordered
  <2> QED BY <2>1, <1>2 DEF InOrder
<1>5. o \in 0..Size(V, q)
  BY <1>2, <1>3
<1> HIDE DEF q, o
<1>6. lo[q] < k /\ \A i \in 1..o : V[q].recs[i] < k
  <2>1. CASE o = 0
    BY <2>1, <1>1, <1>4 DEF Within, Low
  <2>2. CASE o # 0
    <3>1. o \in 1..Size(V, q) /\ V[q].recs[o] < k
      BY <2>2, <1>1, <1>4, <1>5 DEF Within, Low
    <3>2. lo[q] < k
      BY <3>1, <1>3
    <3>3. \A i \in 1..o : V[q].recs[i] < k
      <4>1. \A i \in 1..o : i \in 1..Size(V, q) /\ (i = o \/ i < o)
        BY <1>3, <1>5
      <4> QED BY <4>1, <3>1, <1>3
    <3> QED BY <3>2, <3>3
  <2> QED BY <2>1, <2>2
<1>7. (hi[q] = 0 \/ k < hi[q]) /\ \A i \in (o + 1)..Size(V, q) : k < V[q].recs[i]
  <2>1. CASE o = Size(V, q)
    BY <2>1, <1>1, <1>3, <1>4 DEF Within, High
  <2>2. CASE o # Size(V, q)
    <3>1. o + 1 \in 1..Size(V, q) /\ hi[n] = V[q].recs[o + 1]
      BY <2>2, <1>3, <1>4, <1>5 DEF High
    <3>4. k < V[q].recs[o + 1]
      BY <3>1, <1>1, <1>3 DEF Within
    <3>2. hi[q] = 0 \/ k < hi[q]
      BY <3>1, <3>4, <1>3
    <3>3. \A i \in (o + 1)..Size(V, q) : k < V[q].recs[i]
      <4>1. \A i \in (o + 1)..Size(V, q) : i \in 1..Size(V, q) /\ (i = o + 1 \/ o + 1 < i)
        BY <1>3, <1>5
      <4> QED BY <4>1, <3>1, <3>4, <1>3
    <3> QED BY <3>2, <3>3
  <2> QED BY <2>1, <2>2
<1>8. q \in About(V, lo, hi, k)
  BY <1>2, <1>6, <1>7 DEF About, Within, q
<1> QED BY <1>2, <1>3, <1>5, <1>6, <1>7, <1>8 DEF q, o

\* There is one at each height at most.
LEMMA AboutOne ==
    ASSUME NEW V, NEW top, NEW lo, NEW hi, Tree(V, top, lo, hi), NEW k \in Nat
    PROVE  \A x, y \in About(V, lo, hi, k) : V[x].depth = V[y].depth => x = y
<1>0. Linked(V, top) /\ About(V, lo, hi, k) \subseteq Live(V) /\ V[top].depth \in Nat
      /\ \A x \in Live(V) : V[x].depth \in Nat /\ V[x].depth <= V[top].depth
                            /\ (x # top => V[x].depth < V[top].depth)
  <2>1. Linked(V, top) /\ top \in Live(V)
    BY DEF Tree, Linked
  <2> QED BY <2>1, TopHighest DEF About
<1> DEFINE T == About(V, lo, hi, k)
           b == V[top].depth
           Bad == {x \in T : \E y \in T : V[x].depth = V[y].depth /\ x # y}
           S == {b - V[x].depth : x \in Bad}
<1>1. SUFFICES ASSUME Bad # {} PROVE FALSE
  OBVIOUS
<1> HIDE DEF T
<1>2. S \in SUBSET Nat /\ S # {}
  BY <1>0, <1>1 DEF T
<1>3. PICK x \in Bad : \A z \in Bad : V[z].depth <= V[x].depth
  <2>1. PICK s \in S : \A t \in S : s <= t
    <3> HIDE DEF S
    <3> QED BY <1>2, LeastNatural
  <2>2. PICK x \in Bad : s = b - V[x].depth
    BY <2>1
  <2>3. ASSUME NEW z \in Bad PROVE V[z].depth <= V[x].depth
    <3>1. b - V[x].depth <= b - V[z].depth
      BY <2>1, <2>2
    <3>2. x \in Live(V) /\ z \in Live(V)
      BY <1>0 DEF T
    <3> HIDE DEF Bad, S
    <3> QED BY <3>1, <3>2, <1>0
  <2> QED BY <2>3
<1>4. PICK y \in T : V[x].depth = V[y].depth /\ x # y
  OBVIOUS
<1>5. x \in T /\ x \in Live(V) /\ y \in Live(V) /\ V[x].depth \in Nat
  BY <1>0 DEF T
<1>6. x # top /\ y # top
  BY <1>0, <1>4, <1>5
<1> DEFINE q == V[x].parent
           r == V[y].parent
           i == V[x].pos
           j == V[y].pos
<1>7. /\ q \in T /\ V[q].depth = V[x].depth + 1 /\ i \in 0..Size(V, q) /\ Size(V, q) \in Nat
      /\ V[q].branches[i + 1] = x
      /\ \A l \in 1..i : V[q].recs[l] < k
      /\ \A l \in (i + 1)..Size(V, q) : k < V[q].recs[l]
  BY <1>5, <1>6, AboutUp DEF T
<1>8. /\ r \in T /\ V[r].depth = V[y].depth + 1 /\ j \in 0..Size(V, r) /\ Size(V, r) \in Nat
      /\ V[r].branches[j + 1] = y
      /\ \A l \in 1..j : V[r].recs[l] < k
      /\ \A l \in (j + 1)..Size(V, r) : k < V[r].recs[l]
  BY <1>4, <1>6, AboutUp DEF T
<1> HIDE DEF q, r, i, j, b
<1>9. q = r
  <2>1. q # r => q \in Bad
    BY <1>4, <1>7, <1>8
  <2> HIDE DEF Bad
  <2> QED BY <2>1, <1>3, <1>5, <1>7
<1>10. i # j
  BY <1>4, <1>7, <1>8, <1>9
<1>13. \A l \in 1..Size(V, q) : V[q].recs[l] \in Nat
  <2>1. V \in Memory /\ q \in Live(V)
    BY <1>0, <1>7 DEF T, Linked
  <2> QED BY <2>1, NodeTypes
<1>11. CASE i < j
  <2>1. j \in 1..j /\ j \in (i + 1)..Size(V, q) /\ j \in 1..Size(V, q)
    BY <1>7, <1>8, <1>9, <1>11
  <2>2. V[q].recs[j] < k /\ k < V[q].recs[j]
    BY <2>1, <1>7, <1>8, <1>9
  <2>3. V[q].recs[j] \in Nat
    BY <2>1, <1>7, <1>13
  <2> QED BY <2>2, <2>3
<1>12. CASE j < i
  <2>1. i \in 1..i /\ i \in (j + 1)..Size(V, q) /\ i \in 1..Size(V, q)
    BY <1>7, <1>8, <1>9, <1>12
  <2>2. V[q].recs[i] < k /\ k < V[q].recs[i]
    BY <2>1, <1>7, <1>8, <1>9
  <2>3. V[q].recs[i] \in Nat
    BY <2>1, <1>7, <1>13
  <2> QED BY <2>2, <2>3
<1> QED BY <1>7, <1>8, <1>9, <1>10, <1>11, <1>12

\* None below the holder of a key is.
LEMMA HolderLowest ==
    ASSUME NEW V, NEW top, NEW lo, NEW hi, Tree(V, top, lo, hi), NEW k, NEW q \in Live(V), Holds(V, q, k)
    PROVE  \A x \in About(V, lo, hi, k) : V[q].depth <= V[x].depth
<1>0. Linked(V, top) /\ About(V, lo, hi, k) \subseteq Live(V) /\ V[top].depth \in Nat /\ V \in Memory
      /\ Ordered(V, top, lo, hi)
      /\ \A x \in Live(V) : V[x].depth \in Nat /\ V[x].depth <= V[top].depth
                            /\ (x # top => V[x].depth < V[top].depth)
  <2>1. Linked(V, top) /\ top \in Live(V) /\ V \in Memory /\ Ordered(V, top, lo, hi)
    BY DEF Tree, Linked
  <2> QED BY <2>1, TopHighest DEF About
<1>10. k \in Nat /\ q \in About(V, lo, hi, k)
  BY <1>0, HolderAbout, KeysOrdered
<1> DEFINE T == About(V, lo, hi, k)
           b == V[top].depth
           Bad == {x \in T : V[x].depth < V[q].depth}
           S == {b - V[x].depth : x \in Bad}
<1>1. SUFFICES ASSUME Bad # {} PROVE FALSE
  BY <1>0
<1> HIDE DEF T
<1>2. S \in SUBSET Nat /\ S # {}
  BY <1>0, <1>1 DEF T
<1>3. PICK x \in Bad : \A z \in Bad : V[z].depth <= V[x].depth
  <2>1. PICK s \in S : \A t \in S : s <= t
    <3> HIDE DEF S
    <3> QED BY <1>2, LeastNatural
  <2>2. PICK x \in Bad : s = b - V[x].depth
    BY <2>1
  <2>3. ASSUME NEW z \in Bad PROVE V[z].depth <= V[x].depth
    <3>1. b - V[x].depth <= b - V[z].depth
      BY <2>1, <2>2
    <3>2. x \in Live(V) /\ z \in Live(V)
      BY <1>0 DEF T
    <3> HIDE DEF Bad, S
    <3> QED BY <3>1, <3>2, <1>0
  <2> QED BY <2>3
<1>4. x \in T /\ x \in Live(V) /\ V[x].depth \in Nat /\ V[x].depth < V[q].depth
  BY <1>0 DEF T
<1>5. x # top
  BY <1>0, <1>4
<1> DEFINE p == V[x].parent
           o == V[x].pos
<1>6. /\ p \in T /\ V[p].depth = V[x].depth + 1 /\ o \in 0..Size(V, p) /\ Size(V, p) \in Nat
      /\ \A l \in 1..o : V[p].recs[l] < k
      /\ \A l \in (o + 1)..Size(V, p) : k < V[p].recs[l]
  BY <1>4, <1>5, <1>10, AboutUp DEF T
<1> HIDE DEF p, o, b
<1>7. V[p].depth = V[q].depth
  <2>1. V[p].depth < V[q].depth => p \in Bad
    BY <1>6
  <2> HIDE DEF Bad
  <2> QED BY <2>1, <1>0, <1>3, <1>4, <1>6
<1>8. p = q
  BY <1>6, <1>7, <1>10, AboutOne DEF T
<1>9. PICK l \in 1..Size(V, q) : V[q].recs[l] = k
  BY DEF Holds
<1>11. l \in 1..o \/ l \in (o + 1)..Size(V, p)
  BY <1>6, <1>8, <1>9
<1> QED BY <1>6, <1>8, <1>9, <1>10, <1>11

\* A key is in one node.
LEMMA OneHolder ==
    ASSUME NEW V, NEW top, NEW lo, NEW hi, Tree(V, top, lo, hi), NEW k,
           NEW x \in Live(V), NEW y \in Live(V), Holds(V, x, k), Holds(V, y, k)
    PROVE  x = y
<1>1. V \in Memory /\ Ordered(V, top, lo, hi)
  BY DEF Tree, Linked
<1>2. x \in About(V, lo, hi, k) /\ y \in About(V, lo, hi, k) /\ k \in Nat
  BY <1>1, HolderAbout, KeysOrdered
<1>3. V[x].depth <= V[y].depth /\ V[y].depth <= V[x].depth
  BY <1>2, HolderLowest
<1>4. V[x].depth = V[y].depth
  BY <1>1, <1>3, NodeTypes
<1> QED BY <1>2, <1>4, AboutOne

-----------------------------------------------------------------------------
(* What a search finds in the tree *)

\* The search of the node stops at the key.
Here(n, k) == Way(n, k) < Count(n) /\ nodes[n].recs[Way(n, k) + 1] = k

\* What the search of a node does in a tree that is in order.
LEMMA InNode ==
    ASSUME NEW lo, NEW hi, Tree(nodes, root, lo, hi), NEW k \in Nat, NEW n \in Live(nodes)
    PROVE  /\ Way(n, k) \in 0..Count(n) /\ Count(n) = Size(nodes, n) /\ Count(n) \in Nat
           /\ \A i \in 1..Way(n, k) : nodes[n].recs[i] < k
           /\ \A i \in (Way(n, k) + 1)..Count(n) : k <= nodes[n].recs[i]
           /\ Here(n, k) <=> Holds(nodes, n, k)
<1>1. nodes \in Memory /\ Ordered(nodes, root, lo, hi)
  BY DEF Tree, Linked
<1> DEFINE recs == nodes[n].recs
           p == Way(n, k)
<1>2. /\ recs \in Seq(Keys) /\ Size(nodes, n) \in Nat /\ Count(n) = Size(nodes, n) /\ Len(recs) = Count(n)
      /\ \A i \in 1..Count(n) : recs[i] \in Nat
  BY <1>1, NodeTypes DEF Count, Size
<1>3. recs \in Seq(Nat)
  <2>1. Keys \subseteq Nat
    BY KeysOrdered
  <2> HIDE DEF recs
  <2> QED BY <2>1, <1>2, SeqWiden
<1>4. \A i, j \in 1..Count(n) : i < j => recs[i] < recs[j]
  BY <1>1, <1>2, NodeOrder
<1>5. Rising(recs)
  BY <1>2, <1>4 DEF Rising
<1>6. p \in 0..Count(n) /\ (\A i \in 1..p : recs[i] < k) /\ \A i \in (p + 1)..Count(n) : k <= recs[i]
  <2> HIDE DEF recs
  <2>1. /\ Search(recs, k) \in 0..Len(recs)
        /\ \A i \in 1..Search(recs, k) : recs[i] < k
        /\ \A i \in (Search(recs, k) + 1)..Len(recs) : k <= recs[i]
    BY <1>3, <1>5, SearchExact
  <2>2. p = Search(recs, k)
    BY DEF Way, recs
  <2> QED BY <2>1, <2>2, <1>2
<1> HIDE DEF recs, p
<1>7. Holds(nodes, n, k) => p < Count(n) /\ recs[p + 1] = k
  <2> SUFFICES ASSUME NEW i \in 1..Count(n), recs[i] = k PROVE p < Count(n) /\ recs[p + 1] = k
    BY <1>2 DEF Holds, recs
  <2>1. i \notin 1..p
    BY <1>2, <1>6
  <2>2. i = p + 1 \/ p + 1 < i
    BY <2>1, <1>2, <1>6
  <2>3. p < Count(n) /\ p + 1 \in 1..Count(n) /\ k <= recs[p + 1] /\ recs[p + 1] \in Nat
    BY <2>1, <1>2, <1>6
  <2>4. p + 1 < i => recs[p + 1] < k
    BY <2>3, <1>4
  <2> QED BY <2>2, <2>3, <2>4
<1>8. p < Count(n) /\ recs[p + 1] = k => Holds(nodes, n, k)
  <2>1. p < Count(n) => p + 1 \in 1..Count(n)
    BY <1>2, <1>6
  <2> QED BY <2>1, <1>2 DEF Holds, recs
<1>9. Here(n, k) = (p < Count(n) /\ recs[p + 1] = k)
  BY DEF Here, p, recs
<1> QED BY <1>2, <1>6, <1>7, <1>8, <1>9 DEF p, recs

\* The branch that the search takes, when the key is not in the node.
LEMMA TakesBranch ==
    ASSUME NEW lo, NEW hi, Tree(nodes, root, lo, hi), NEW k \in Nat, NEW n \in Live(nodes),
           lo[n] < k
    PROVE  LET p == Way(n, k)
               b == nodes[n].branches[p + 1]
           IN  /\ Low(nodes, lo, n, p) < k
               /\ ~Here(n, k) /\ n \in About(nodes, lo, hi, k) => Within(k, Low(nodes, lo, n, p), High(nodes, hi, n, p))
               /\ Here(n, k) => High(nodes, hi, n, p) = k
               /\ hi[n] = k => p = Count(n)
               /\ nodes[n].depth # 0 =>
                     /\ b \in Live(nodes) /\ nodes[b].depth \in Nat /\ nodes[n].depth \in Nat
                     /\ nodes[b].depth < nodes[n].depth /\ nodes[b].depth + 1 = nodes[n].depth
                     /\ nodes[b].parent = n /\ nodes[b].pos = p
                     /\ lo[b] = Low(nodes, lo, n, p) /\ hi[b] = High(nodes, hi, n, p)
<1> DEFINE p == Way(n, k)
           b == nodes[n].branches[p + 1]
<1>1. Linked(nodes, root) /\ nodes \in Memory /\ InOrder(nodes, lo, hi, n) /\ Ordered(nodes, root, lo, hi)
  BY DEF Tree, Linked, Ordered
<1>2. /\ p \in 0..Count(n) /\ Count(n) = Size(nodes, n) /\ Count(n) \in Nat
      /\ \A i \in 1..p : nodes[n].recs[i] < k
      /\ \A i \in (p + 1)..Count(n) : k <= nodes[n].recs[i]
  BY InNode
<1>3. \A i \in 1..Count(n) : nodes[n].recs[i] \in Nat /\ (hi[n] = 0 \/ nodes[n].recs[i] < hi[n])
  BY <1>1, <1>2, NodeOrder
<1>4. nodes[n].depth # 0 =>
         b \in Live(nodes) /\ nodes[b].depth \in Nat /\ nodes[b].depth < nodes[n].depth
         /\ nodes[b].parent = n /\ nodes[b].pos = p
  BY <1>1, GoesDown
<1>5. nodes[n].depth # 0 => /\ p + 1 \in 1..Width(nodes, n) /\ (p + 1) - 1 = p
                            /\ nodes[b].depth + 1 = nodes[n].depth /\ nodes[n].depth \in Nat
  <2>1. nodes[n].depth # 0 => Width(nodes, n) = Size(nodes, n) + 1
    BY <1>1, LinkDown
  <2>2. nodes[n].depth # 0 => p + 1 \in 1..Width(nodes, n)
    BY <2>1, <1>2
  <2> QED BY SMTT(60), <2>2, <1>1, <1>2, LinkDown, NodeTypes
<1>6. nodes[n].depth # 0 => lo[b] = Low(nodes, lo, n, p) /\ hi[b] = High(nodes, hi, n, p)
  BY <1>1, <1>5 DEF InOrder
<1>10. Here(n, k) <=> p < Count(n) /\ nodes[n].recs[p + 1] = k
  BY DEF Here
<1> HIDE DEF b, p
<1>7. Low(nodes, lo, n, p) < k
  <2>1. p = 0 \/ p \in 1..p
    BY <1>2
  <2> QED BY <2>1, <1>2 DEF Low
<1>8. hi[n] = k => p = Count(n)
  <2> SUFFICES ASSUME hi[n] = k, p # Count(n) PROVE FALSE
    OBVIOUS
  <2>1. p + 1 \in (p + 1)..Count(n) /\ p + 1 \in 1..Count(n)
    BY <1>2
  <2>2. hi[n] \in Nat /\ lo[n] \in Nat
    BY <1>1, NodeOrder
  <2> QED BY <2>1, <2>2, <1>2, <1>3
<1>9. ASSUME ~Here(n, k), n \in About(nodes, lo, hi, k)
      PROVE  High(nodes, hi, n, p) = 0 \/ k < High(nodes, hi, n, p)
  <2>1. CASE p = Size(nodes, n)
    BY <2>1, <1>9 DEF High, About, Within
  <2>2. CASE p # Size(nodes, n)
    <3>1. p < Count(n) /\ p + 1 \in (p + 1)..Count(n) /\ p + 1 \in 1..Count(n)
      BY <2>2, <1>2
    <3>2. nodes[n].recs[p + 1] # k /\ k <= nodes[n].recs[p + 1] /\ nodes[n].recs[p + 1] \in Nat
      BY <3>1, <1>2, <1>3, <1>9, <1>10
    <3> QED BY <3>2, <2>2 DEF High
  <2> QED BY <2>1, <2>2
<1>11. Here(n, k) => High(nodes, hi, n, p) = k
  BY <1>2, <1>10 DEF High
<1> QED BY <1>4, <1>5, <1>6, <1>7, <1>8, <1>9, <1>11 DEF b, p, Within

\* The answer of a search comes from the node that has the key, or from the leaf.
LEMMA HereGoes ==
    ASSUME NEW k, NEW h, FoundIs(k, h), NEW n \in Live(nodes)
    PROVE  /\ Here(n, k) => h[n]
           /\ ~Here(n, k) /\ nodes[n].depth = 0 => ~h[n]
           /\ ~Here(n, k) /\ nodes[n].depth # 0 => h[n] = h[nodes[n].branches[Way(n, k) + 1]]
<1>1. h[n] = (IF Here(n, k) \/ nodes[n].depth = 0 THEN Here(n, k)
              ELSE h[nodes[n].branches[Way(n, k) + 1]])
  BY UsedLive DEF FoundIs, Here, Way
<1> QED BY <1>1

\* From a node that may have it under it, the search meets the key if it is there.
LEMMA MetBelow ==
    ASSUME NEW lo, NEW hi, Tree(nodes, root, lo, hi), NEW k \in Nat, NEW h, FoundIs(k, h)
    PROVE  \A n \in About(nodes, lo, hi, k) :
              h[n] <=> \E y \in Live(nodes) : Holds(nodes, y, k) /\ nodes[y].depth <= nodes[n].depth
<1> DEFINE M(n) == \E y \in Live(nodes) : Holds(nodes, y, k) /\ nodes[y].depth <= nodes[n].depth
           Bad == {n \in About(nodes, lo, hi, k) : ~(h[n] <=> M(n))}
           S == {nodes[n].depth : n \in Bad}
<1>0. nodes \in Memory /\ (\A n \in Live(nodes) : nodes[n].depth \in Nat) /\ Ordered(nodes, root, lo, hi)
  BY NodeTypes DEF Tree, Linked
<1>1. SUFFICES ASSUME Bad # {} PROVE FALSE
  OBVIOUS
<1>2. Bad \subseteq Live(nodes)
  BY DEF About
<1>3. PICK n \in Bad : \A x \in Bad : nodes[n].depth <= nodes[x].depth
  <2> HIDE DEF Bad
  <2>1. S \in SUBSET Nat /\ S # {}
    BY <1>0, <1>1, <1>2
  <2>2. PICK s \in S : \A t \in S : s <= t
    <3> HIDE DEF S
    <3> QED BY <2>1, LeastNatural
  <2> QED BY <2>2
<1>4. n \in About(nodes, lo, hi, k) /\ ~(h[n] <=> M(n)) /\ n \in Live(nodes)
  BY <1>2
<1>5. Within(k, lo[n], hi[n])
  BY <1>4 DEF About
<1>6. Here(n, k) <=> Holds(nodes, n, k)
  BY <1>4, InNode
<1>7. ~Here(n, k)
  <2>1. Here(n, k) => h[n]
    BY <1>4, HereGoes
  <2>2. Here(n, k) => M(n)
    BY <1>4, <1>6, <1>0
  <2> HIDE DEF M
  <2> QED BY <2>1, <2>2, <1>4
<1>8. ASSUME NEW y \in Live(nodes), Holds(nodes, y, k) PROVE nodes[y].depth # nodes[n].depth
  <2>1. y \in About(nodes, lo, hi, k)
    BY <1>0, <1>8, HolderAbout
  <2>2. y # n
    BY <1>6, <1>7, <1>8
  <2> QED BY <2>1, <2>2, <1>4, AboutOne
<1>9. nodes[n].depth # 0
  <2> SUFFICES ASSUME nodes[n].depth = 0 PROVE FALSE
    OBVIOUS
  <2>1. ~h[n]
    BY <1>4, <1>7, HereGoes
  <2>2. ~M(n)
    BY <1>0, <1>8
  <2> HIDE DEF M
  <2> QED BY <2>1, <2>2, <1>4
<1> DEFINE b == nodes[n].branches[Way(n, k) + 1]
<1>10. /\ b \in Live(nodes) /\ nodes[b].depth \in Nat /\ nodes[n].depth \in Nat
       /\ nodes[b].depth + 1 = nodes[n].depth /\ Within(k, lo[b], hi[b])
  BY <1>4, <1>5, <1>7, <1>9, TakesBranch DEF Within
<1>11. h[n] = h[b]
  BY <1>4, <1>7, <1>9, HereGoes
<1> HIDE DEF b
<1>12. b \in About(nodes, lo, hi, k)
  BY <1>10 DEF About
<1>13. h[b] <=> M(b)
  <2>1. b \notin Bad
    <3> HIDE DEF Bad
    <3> QED BY <1>3, <1>10
  <2> HIDE DEF M
  <2> QED BY <2>1, <1>12
<1>14. M(b) <=> M(n)
  BY <1>0, <1>8, <1>10
<1> HIDE DEF M
<1> QED BY <1>4, <1>11, <1>13, <1>14

\* Found says whether the tree has the key.
LEMMA FoundHolds ==
    ASSUME Linked(nodes, root), Sorted(nodes, root), NEW k \in Keys
    PROVE  Found(k) <=> k \in Contents(nodes)
<1>1. PICK lo, hi : Tree(nodes, root, lo, hi)
  BY DEF Sorted, Tree
<1>2. PICK h : FoundIs(k, h) /\ Found(k) = h[root]
  BY FoundGoes
<1>3. root \in Live(nodes) /\ lo[root] = 0 /\ hi[root] = 0
  BY <1>1 DEF Tree, Linked, Ordered
<1>4. k \in Nat /\ 0 < k
  BY KeysOrdered
<1>5. root \in About(nodes, lo, hi, k)
  BY <1>3, <1>4 DEF About, Within
<1>6. Found(k) <=> \E y \in Live(nodes) : Holds(nodes, y, k) /\ nodes[y].depth <= nodes[root].depth
  BY <1>1, <1>2, <1>4, <1>5, MetBelow
<1>7. \A y \in Live(nodes) : nodes[y].depth <= nodes[root].depth
  BY TopHighest
<1> QED BY <1>6, <1>7 DEF Contents

\* Where the search ends, when it did not meet the key, is the key's place.
LEMMA EndsBetween ==
    ASSUME NEW lo, NEW hi, Tree(nodes, root, lo, hi), NEW k \in Nat,
           NEW f, NEW h, FindIs(k, f), FoundIs(k, h)
    PROVE  \A n \in About(nodes, lo, hi, k) :
              ~h[n] => Within(k, Low(nodes, lo, f[n][1], f[n][2]), High(nodes, hi, f[n][1], f[n][2]))
<1> DEFINE C(n) == Within(k, Low(nodes, lo, f[n][1], f[n][2]), High(nodes, hi, f[n][1], f[n][2]))
           Bad == {n \in About(nodes, lo, hi, k) : ~h[n] /\ ~C(n)}
           S == {nodes[n].depth : n \in Bad}
<1>0. nodes \in Memory /\ (\A n \in Live(nodes) : nodes[n].depth \in Nat) /\ Ordered(nodes, root, lo, hi)
  BY NodeTypes DEF Tree, Linked
<1>1. SUFFICES ASSUME Bad # {} PROVE FALSE
  OBVIOUS
<1>2. Bad \subseteq Live(nodes)
  BY DEF About
<1>3. PICK n \in Bad : \A x \in Bad : nodes[n].depth <= nodes[x].depth
  <2> HIDE DEF Bad
  <2>1. S \in SUBSET Nat /\ S # {}
    BY <1>0, <1>1, <1>2
  <2>2. PICK s \in S : \A t \in S : s <= t
    <3> HIDE DEF S
    <3> QED BY <2>1, LeastNatural
  <2> QED BY <2>2
<1>4. n \in About(nodes, lo, hi, k) /\ ~h[n] /\ ~C(n) /\ n \in Live(nodes) /\ lo[n] < k
  BY <1>2 DEF About, Within
<1>5. ~Here(n, k)
  BY <1>4, HereGoes
<1> DEFINE p == Way(n, k)
           b == nodes[n].branches[p + 1]
<1>6. f[n] = IF nodes[n].depth = 0 THEN <<n, p>> ELSE f[b]
  BY <1>4, UsedLive DEF FindIs, Way
<1>7. /\ Within(k, Low(nodes, lo, n, p), High(nodes, hi, n, p))
      /\ nodes[n].depth # 0 => /\ b \in Live(nodes) /\ nodes[b].depth < nodes[n].depth
                               /\ nodes[b].depth \in Nat
                               /\ lo[b] = Low(nodes, lo, n, p) /\ hi[b] = High(nodes, hi, n, p)
  BY <1>4, <1>5, TakesBranch
<1>8. nodes[n].depth # 0
  <2>1. nodes[n].depth = 0 => f[n][1] = n /\ f[n][2] = p
    BY <1>6
  <2>2. nodes[n].depth = 0 => C(n)
    BY <2>1, <1>7
  <2> HIDE DEF C
  <2> QED BY <2>2, <1>4
<1>9. ~h[b]
  BY <1>4, <1>5, <1>8, HereGoes
<1> HIDE DEF p, b
<1>10. b \in About(nodes, lo, hi, k)
  BY <1>7, <1>8 DEF About
<1>11. b \notin Bad
  <2>1. nodes[b].depth < nodes[n].depth /\ nodes[b].depth \in Nat /\ nodes[n].depth \in Nat
    BY <1>0, <1>4, <1>7, <1>8
  <2> HIDE DEF Bad
  <2> QED BY <2>1, <1>3
<1>12. C(b)
  <2> HIDE DEF C
  <2> QED BY <1>9, <1>10, <1>11
<1>13. C(n) = C(b)
  BY <1>6, <1>8
<1> HIDE DEF C
<1> QED BY <1>4, <1>12, <1>13

\* The place at which a key is inserted that is not in the tree is where it fits.
LEMMA FindBetween ==
    ASSUME NEW lo, NEW hi, Tree(nodes, root, lo, hi), NEW k \in Keys, ~Found(k),
           NEW n, NEW p, n = Find(k)[1], p = Find(k)[2]
    PROVE  Within(k, Low(nodes, lo, n, p), High(nodes, hi, n, p))
<1>0. Linked(nodes, root)
  BY DEF Tree
<1>1. PICK f : FindIs(k, f) /\ Find(k) = f[root]
  BY <1>0, FindGoes
<1>2. PICK h : FoundIs(k, h) /\ Found(k) = h[root]
  BY <1>0, FoundGoes
<1>3. root \in Live(nodes) /\ lo[root] = 0 /\ hi[root] = 0
  BY DEF Tree, Linked, Ordered
<1>4. k \in Nat /\ 0 < k
  BY KeysOrdered
<1>5. root \in About(nodes, lo, hi, k)
  BY <1>3, <1>4 DEF About, Within
<1>6. Within(k, Low(nodes, lo, f[root][1], f[root][2]), High(nodes, hi, f[root][1], f[root][2]))
  BY <1>1, <1>2, <1>4, <1>5, EndsBetween
<1> QED BY <1>1, <1>6

-----------------------------------------------------------------------------
(* Where a removal takes place *)

\* From the end of a node the iterator climbs to the record after it.
LEMMA DerefStep ==
    ASSUME NEW c, DerefIs(c), NEW n \in Live(nodes), NEW i \in Nat
    PROVE  /\ i < Count(n) => c[<<n, i>>] = <<n, i>>
           /\ ~(i < Count(n)) /\ nodes[n].parent # NoNode
              => c[<<n, i>>] = c[<<nodes[n].parent, nodes[n].pos>>]
<1> DEFINE it == <<n, i>>
<1>1. it \in Used \X Nat /\ it[1] = n /\ it[2] = i
  BY UsedLive
<1> HIDE DEF it
<1>2. c[it] = IF i < Count(n) THEN it
              ELSE IF nodes[n].parent = NoNode THEN <<NoNode, 0>>
              ELSE c[<<nodes[n].parent, nodes[n].pos>>]
  BY <1>1 DEF DerefIs
<1> QED BY <1>2 DEF it

\* Left of the record k the search goes to the end of the branch.
LEMMA EndsLeft ==
    ASSUME NEW lo, NEW hi, Tree(nodes, root, lo, hi), NEW k \in Nat, NEW f, NEW c, FindIs(k, f), DerefIs(c)
    PROVE  \A n \in Live(nodes) : lo[n] < k /\ hi[n] = k => c[f[n]] = c[<<n, Count(n)>>]
<1> DEFINE C(n) == c[f[n]] = c[<<n, Count(n)>>]
           Bad == {n \in Live(nodes) : lo[n] < k /\ hi[n] = k /\ ~C(n)}
           S == {nodes[n].depth : n \in Bad}
<1>0. nodes \in Memory /\ (\A n \in Live(nodes) : nodes[n].depth \in Nat /\ n # NoNode)
  BY NodeTypes DEF Tree, Linked
<1>1. SUFFICES ASSUME Bad # {} PROVE FALSE
  OBVIOUS
<1>3. PICK n \in Bad : \A x \in Bad : nodes[n].depth <= nodes[x].depth
  <2>0. Bad \subseteq Live(nodes)
    OBVIOUS
  <2> HIDE DEF Bad
  <2>1. S \in SUBSET Nat /\ S # {}
    BY <1>0, <1>1, <2>0
  <2>2. PICK s \in S : \A t \in S : s <= t
    <3> HIDE DEF S
    <3> QED BY <2>1, LeastNatural
  <2> QED BY <2>2
<1>4. n \in Live(nodes) /\ lo[n] < k /\ hi[n] = k /\ ~C(n)
  OBVIOUS
<1> DEFINE p == Way(n, k)
           b == nodes[n].branches[p + 1]
<1>6. f[n] = IF nodes[n].depth = 0 THEN <<n, p>> ELSE f[b]
  BY <1>4, UsedLive DEF FindIs, Way
<1>7. /\ Low(nodes, lo, n, p) < k /\ p = Count(n)
      /\ nodes[n].depth # 0 => /\ b \in Live(nodes) /\ nodes[b].depth < nodes[n].depth
                               /\ nodes[b].depth \in Nat /\ nodes[b].parent = n /\ nodes[b].pos = p
                               /\ lo[b] = Low(nodes, lo, n, p) /\ hi[b] = High(nodes, hi, n, p)
  BY SMTT(60), <1>4, TakesBranch
<1>13. High(nodes, hi, n, p) = k
  <2>1. Count(n) = Size(nodes, n)
    BY DEF Count, Size
  <2> QED BY <1>4, <1>7, <2>1 DEF High
<1>8. nodes[n].depth # 0
  <2>1. nodes[n].depth = 0 => C(n)
    BY <1>6, <1>7
  <2> HIDE DEF C
  <2> QED BY <2>1, <1>4
<1> HIDE DEF p, b
<1>10. C(b)
  <2>1. nodes[b].depth < nodes[n].depth /\ nodes[b].depth \in Nat /\ nodes[n].depth \in Nat
    BY <1>0, <1>4, <1>7, <1>8
  <2>2. b \notin Bad
    <3> HIDE DEF Bad
    <3> QED BY <2>1, <1>3
  <2> HIDE DEF C
  <2> QED BY <2>2, <1>4, <1>7, <1>8, <1>13
<1>11. c[<<b, Count(b)>>] = c[<<n, p>>]
  <2>1. Count(b) \in Nat /\ ~(Count(b) < Count(b))
    BY <1>7, <1>8, InNode
  <2>2. nodes[b].parent = n /\ nodes[b].pos = p /\ n # NoNode /\ b \in Live(nodes)
    BY <1>0, <1>4, <1>7, <1>8
  <2> QED BY <2>1, <2>2, DerefStep
<1>12. C(n)
  BY <1>6, <1>7, <1>8, <1>10, <1>11
<1> HIDE DEF C
<1> QED BY <1>4, <1>12

\* i is at the record k.
AtKey(i, k) == AtRecord(i) /\ nodes[i[1]].recs[i[2] + 1] = k

\* From every node on the way to a key that is in the tree, going down and then
\* climbing ends at the key.
LEMMA EndsAt ==
    ASSUME NEW lo, NEW hi, Tree(nodes, root, lo, hi), NEW k \in Nat,
           NEW f, NEW h, NEW c, FindIs(k, f), FoundIs(k, h), DerefIs(c)
    PROVE  \A n \in About(nodes, lo, hi, k) : h[n] => AtKey(c[f[n]], k)
<1> DEFINE C(n) == AtKey(c[f[n]], k)
           Bad == {n \in About(nodes, lo, hi, k) : h[n] /\ ~C(n)}
           S == {nodes[n].depth : n \in Bad}
<1>0. nodes \in Memory /\ (\A n \in Live(nodes) : nodes[n].depth \in Nat /\ n # NoNode)
  BY NodeTypes DEF Tree, Linked
<1>1. SUFFICES ASSUME Bad # {} PROVE FALSE
  OBVIOUS
<1>2. Bad \subseteq Live(nodes)
  BY DEF About
<1>3. PICK n \in Bad : \A x \in Bad : nodes[n].depth <= nodes[x].depth
  <2> HIDE DEF Bad
  <2>1. S \in SUBSET Nat /\ S # {}
    BY <1>0, <1>1, <1>2
  <2>2. PICK s \in S : \A t \in S : s <= t
    <3> HIDE DEF S
    <3> QED BY <2>1, LeastNatural
  <2> QED BY <2>2
<1>4. n \in About(nodes, lo, hi, k) /\ h[n] /\ ~C(n) /\ n \in Live(nodes) /\ lo[n] < k
  BY <1>2 DEF About, Within
<1> DEFINE p == Way(n, k)
           b == nodes[n].branches[p + 1]
<1>6. f[n] = IF nodes[n].depth = 0 THEN <<n, p>> ELSE f[b]
  BY <1>4, UsedLive DEF FindIs, Way
<1>7. /\ Low(nodes, lo, n, p) < k
      /\ ~Here(n, k) => Within(k, Low(nodes, lo, n, p), High(nodes, hi, n, p))
      /\ Here(n, k) => High(nodes, hi, n, p) = k
      /\ nodes[n].depth # 0 => /\ b \in Live(nodes) /\ nodes[b].depth < nodes[n].depth
                               /\ nodes[b].depth \in Nat /\ nodes[b].parent = n /\ nodes[b].pos = p
                               /\ lo[b] = Low(nodes, lo, n, p) /\ hi[b] = High(nodes, hi, n, p)
  BY <1>4, TakesBranch
<1>8. p \in Nat
  <2>1. p \in 0..Count(n) /\ Count(n) \in Nat
    BY <1>4, InNode
  <2> HIDE DEF p
  <2> QED BY <2>1
<1>9. CASE Here(n, k)
  <2>1. p < Count(n) /\ nodes[n].recs[p + 1] = k
    BY <1>9 DEF Here
  <2> DEFINE i == <<n, p>>
  <2>2. c[i] = i
    <3> HIDE DEF p
    <3> QED BY <2>1, <1>4, <1>8, DerefStep
  <2>3. i \in Live(nodes) \X Nat /\ i[1] = n /\ i[2] = p
    BY <1>4, <1>8
  <2> HIDE DEF i
  <2>4. AtKey(c[i], k)
    BY <2>1, <2>2, <2>3 DEF AtKey, AtRecord
  <2>5. c[f[n]] = c[i]
    <3>1. CASE nodes[n].depth = 0
      BY <3>1, <1>6 DEF i
    <3>2. CASE nodes[n].depth # 0
      <4> HIDE DEF p, b
      <4>1. c[f[b]] = c[<<b, Count(b)>>]
        BY <1>7, <1>9, <3>2, EndsLeft
      <4>2. Count(b) \in Nat /\ ~(Count(b) < Count(b))
        BY <1>7, <3>2, InNode
      <4>3. nodes[b].parent = n /\ nodes[b].pos = p /\ n # NoNode /\ b \in Live(nodes)
        BY <1>0, <1>4, <1>7, <3>2
      <4>4. c[<<b, Count(b)>>] = c[<<n, p>>]
        BY <4>2, <4>3, DerefStep
      <4> QED BY <4>1, <4>4, <1>6, <3>2 DEF i
    <3> QED BY <3>1, <3>2
  <2> QED BY <2>4, <2>5, <1>4
<1>10. CASE ~Here(n, k)
  <2>1. nodes[n].depth # 0 /\ h[b]
    BY <1>4, <1>10, HereGoes
  <2> HIDE DEF p, b
  <2>2. b \in About(nodes, lo, hi, k)
    BY <1>7, <1>10, <2>1 DEF About
  <2>3. b \notin Bad
    <3>1. nodes[b].depth < nodes[n].depth /\ nodes[b].depth \in Nat /\ nodes[n].depth \in Nat
      BY <1>0, <1>4, <1>7, <2>1
    <3> HIDE DEF Bad
    <3> QED BY <3>1, <1>3
  <2>4. C(b)
    <3> HIDE DEF C
    <3> QED BY <2>1, <2>2, <2>3
  <2>5. C(n) = C(b)
    BY <1>6, <2>1
  <2> HIDE DEF C
  <2> QED BY <2>4, <2>5, <1>4
<1> QED BY <1>9, <1>10

\* The iterator of memtree_find stands at the key, if the tree has it.
LEMMA DerefAt ==
    ASSUME NEW lo, NEW hi, Tree(nodes, root, lo, hi), NEW k \in Keys, Found(k)
    PROVE  AtKey(Deref(Find(k)), k)
<1>0. Linked(nodes, root)
  BY DEF Tree
<1>1. PICK f : FindIs(k, f) /\ Find(k) = f[root]
  BY <1>0, FindGoes
<1>2. PICK h : FoundIs(k, h) /\ Found(k) = h[root]
  BY <1>0, FoundGoes
<1>3. PICK c : DerefIs(c) /\ Deref(Find(k)) = c[Find(k)]
  BY <1>0, DerefGoes
<1>4. root \in Live(nodes) /\ lo[root] = 0 /\ hi[root] = 0
  BY DEF Tree, Linked, Ordered
<1>5. k \in Nat /\ 0 < k
  BY KeysOrdered
<1>6. root \in About(nodes, lo, hi, k)
  BY <1>4, <1>5 DEF About, Within
<1>7. AtKey(c[f[root]], k)
  BY <1>1, <1>2, <1>3, <1>5, <1>6, EndsAt
<1> QED BY <1>1, <1>3, <1>7

-----------------------------------------------------------------------------
(* Every step leaves the keys in order *)

\* The four changes of more than a leaf, without their bounds: a split ...
LEMMA SplitSorted ==
    ASSUME NEW V, NEW W, NEW top, NEW a, NEW f, NEW q, NEW o, NEW m,
           Linked(V, top), Sorted(V, top), IsSplit(V, W, a, f, q, o, m)
    PROVE  Sorted(W, top) /\ Contents(W) = Contents(V)
<1>1. PICK lo, hi : Tree(V, top, lo, hi)
  BY DEF Sorted, Tree
<1> DEFINE lo2 == [lo EXCEPT ![f] = V[a].recs[m + 1]]
           hi2 == [hi EXCEPT ![a] = V[a].recs[m + 1], ![f] = hi[a]]
<1>2. Ordered(W, top, lo2, hi2)
  BY <1>1, SplitOrdered
<1>3. Contents(W) = Contents(V)
  BY <1>1, SplitContents
<1> QED BY <1>2, <1>3 DEF Sorted

\* ... a record that goes to the right neighbour ...
LEMMA MoveRightSorted ==
    ASSUME NEW N, NEW W, NEW top, NEW q, NEW p, NEW l, NEW r, Beside(N, top, q, p, l, r), Sorted(N, top),
           IsMoveRight(N, W, q, p, l, r), Size(N, l) > 0
    PROVE  Sorted(W, top) /\ Contents(W) = Contents(N)
<1>1. PICK lo, hi : Ordered(N, top, lo, hi)
  BY DEF Sorted
<1> DEFINE u == N[l].recs[Size(N, l)]
           lo2 == [lo EXCEPT ![r] = u]
           hi2 == [hi EXCEPT ![l] = u]
<1>2. Shifted(lo, hi, lo2, hi2, l, r, u)
  BY DEF Shifted
<1> HIDE DEF lo2, hi2
<1>3. Ordered(W, top, lo2, hi2)
  BY <1>1, <1>2, MoveRightOrdered
<1>4. Contents(W) = Contents(N)
  BY MoveRightContents
<1> QED BY <1>3, <1>4 DEF Sorted

\* ... or to the left one ...
LEMMA MoveLeftSorted ==
    ASSUME NEW N, NEW W, NEW top, NEW q, NEW p, NEW l, NEW r, Beside(N, top, q, p, l, r), Sorted(N, top),
           IsMoveLeft(N, W, q, p, l, r), Size(N, r) > 0
    PROVE  Sorted(W, top) /\ Contents(W) = Contents(N)
<1>1. PICK lo, hi : Ordered(N, top, lo, hi)
  BY DEF Sorted
<1> DEFINE u == N[r].recs[1]
           lo2 == [lo EXCEPT ![r] = u]
           hi2 == [hi EXCEPT ![l] = u]
<1>2. Shifted(lo, hi, lo2, hi2, l, r, u)
  BY DEF Shifted
<1> HIDE DEF lo2, hi2
<1>3. Ordered(W, top, lo2, hi2)
  BY <1>1, <1>2, MoveLeftOrdered
<1>4. Contents(W) = Contents(N)
  BY MoveLeftContents
<1> QED BY <1>3, <1>4 DEF Sorted

\* ... and two neighbours that become one.
LEMMA CombineSorted ==
    ASSUME NEW N, NEW W, NEW top, NEW q, NEW p, NEW l, NEW r, Beside(N, top, q, p, l, r), Sorted(N, top),
           IsCombine(N, W, q, p, l, r)
    PROVE  Sorted(W, top) /\ Contents(W) = Contents(N)
<1>1. PICK lo, hi : Ordered(N, top, lo, hi)
  BY DEF Sorted
<1> DEFINE hi2 == [hi EXCEPT ![l] = hi[r]]
<1>2. Widened(hi, hi2, l, r)
  BY DEF Widened
<1> HIDE DEF hi2
<1>3. Ordered(W, top, lo, hi2)
  BY <1>1, <1>2, CombineOrdered
<1>4. Contents(W) = Contents(N)
  BY CombineContents
<1> QED BY <1>3, <1>4 DEF Sorted

\* The tree a call is about to make is a search tree, and has the keys that were
\* inserted and not removed.
Content == sound => Sorted(View, Top) /\ Contents(View) = held

\* memtree_insert of a new key, as far as its leaf: the key fits there.
LEMMA InsertKeeps ==
    ASSUME Shape, Content, NEW k \in Keys, Insert(k) PROVE Content'
<1> DEFINE it == Find(k)
           n == it[1]
           p == it[2]
           V == NodeInsert(nodes, n, NoNode, k, p)
<1>1. /\ pc = "idle" /\ sound /\ ~Found(k) /\ held' = held \cup {k} /\ root' = root
      /\ IF Count(n) < MaxElements THEN nodes' = V /\ pc' = pc
         ELSE pc' = "split" /\ at' = it /\ up' = <<NoNode, k>> /\ nodes' = nodes
  BY DEF Insert
<1>2. nodes \in Memory /\ Linked(nodes, root) /\ View = nodes /\ Top = root
  BY <1>1, Rests DEF View, Top
<1>3. n \in Live(nodes) /\ nodes[n].depth = 0 /\ p \in 0..Size(nodes, n)
  BY <1>2, FindLeaf
<1> HIDE DEF it
<1>4. Takes(nodes, n, NoNode, k, p)
  <2>1. Width(nodes, n) = 0
    BY <1>2, <1>3, LinkDown
  <2> QED BY <2>1, <1>2, <1>3 DEF Takes
<1>5. PICK lo, hi : Ordered(nodes, root, lo, hi)
  BY <1>1, <1>2 DEF Content, Sorted
<1>6. Within(k, Low(nodes, lo, n, p), High(nodes, hi, n, p))
  <2>1. Tree(nodes, root, lo, hi) /\ n = Find(k)[1] /\ p = Find(k)[2]
    BY <1>2, <1>5 DEF Tree, it
  <2> HIDE DEF n, p
  <2> QED BY <2>1, <1>1, FindBetween
<1> HIDE DEF n, p
<1>7. IsInsert(nodes, V, n, NoNode, k, p)
  BY <1>4, InsertIsInsert
<1> HIDE DEF V
<1>8. Ordered(V, root, lo, hi) /\ Contents(V) = Contents(nodes) \cup {k}
  <2>1. /\ Live(V) = Live(nodes) /\ Inserted(nodes[n].recs, p + 1, k, V[n].recs)
        /\ V[n].branches = nodes[n].branches
        /\ \A x \in Live(nodes) : x # n => V[x].recs = nodes[x].recs /\ V[x].branches = nodes[x].branches
    BY <1>3, <1>7 DEF IsInsert
  <2> QED BY <2>1, <1>2, <1>3, <1>5, <1>6, LeafGrows
<1>9. View' = V /\ Top' = root
  <2>1. CASE Count(n) < MaxElements
    BY <2>1, <1>1 DEF View, Top
  <2>2. CASE ~(Count(n) < MaxElements)
    <3>1. pc' = "split" /\ nodes' = nodes /\ at' = it /\ up' = <<NoNode, k>>
      BY <1>1, <2>2
    <3>2. at'[1] = n /\ at'[2] = p /\ up'[1] = NoNode /\ up'[2] = k
      BY <3>1 DEF n, p
    <3> QED BY <3>1, <3>2, <1>1 DEF View, Top, V
  <2> QED BY <2>1, <2>2
<1>10. Contents(V) = held'
  BY <1>1, <1>2, <1>8 DEF Content
<1> QED BY <1>8, <1>9, <1>10 DEF Content, Sorted

\* memtree_remove, as far as the leaf: no other node has the key.
LEMMA RemoveKeeps ==
    ASSUME Shape, Content, NEW k \in Keys, RemoveKey(k) PROVE Content'
<1> DEFINE it == Deref(Find(k))
           n == it[1]
           i == it[2] + 1
           V == [nodes EXCEPT ![n].recs = RemoveAt(@, i)]
<1>1. /\ pc = "idle" /\ sound /\ Found(k) /\ held' = held \ {k} /\ root' = root
      /\ nodes[n].depth = 0 => nodes' = V /\ pc' = IF nodes[n].parent = NoNode THEN "idle" ELSE "restore"
      /\ nodes[n].depth # 0 => sound' = FALSE
  BY DEF RemoveKey
<1>2. nodes \in Memory /\ Linked(nodes, root) /\ View = nodes /\ Top = root
  BY <1>1, Rests DEF View, Top
<1>5. PICK lo, hi : Tree(nodes, root, lo, hi)
  BY <1>1, <1>2 DEF Content, Sorted, Tree
<1>3. n \in Live(nodes) /\ i \in 1..Size(nodes, n) /\ nodes[n].recs[i] = k
  <2>1. AtKey(it, k)
    BY <1>1, <1>5, DerefAt
  <2> HIDE DEF it
  <2>2. n \in Live(nodes) /\ it[2] \in Nat /\ it[2] < Size(nodes, n) /\ nodes[n].recs[i] = k
    BY <2>1 DEF AtKey, AtRecord, Count, Size
  <2>3. Size(nodes, n) \in Nat
    BY <2>2, <1>2, NodeTypes
  <2> QED BY <2>2, <2>3
<1> HIDE DEF it, i, n
<1>4. CASE nodes[n].depth # 0
  BY <1>1, <1>4 DEF Content
<1>6. CASE nodes[n].depth = 0
  <2>1. nodes' = V /\ pc' \in {"idle", "restore"}
    BY <1>1, <1>6
  <2>2. /\ Live(V) = Live(nodes) /\ V[n].recs = RemoveAt(nodes[n].recs, i) /\ V[n].branches = nodes[n].branches
        /\ \A x \in Live(nodes) : x # n => V[x].recs = nodes[x].recs /\ V[x].branches = nodes[x].branches
    <3>1. n \in Node /\ nodes[n] \in NodeRec /\ V[n] = [nodes[n] EXCEPT !.recs = RemoveAt(@, i)]
      BY <1>2, <1>3, NodeTypes DEF Memory
    <3>2. \A x \in Node : x # n => V[x] = nodes[x]
      BY <1>2 DEF Memory
    <3>3. V[n].recs = RemoveAt(nodes[n].recs, i) /\ V[n].branches = nodes[n].branches
      BY <3>1 DEF NodeRec
    <3>4. Beyond(nodes, V, n, root)
      <4>1. V = [nodes EXCEPT ![n].recs = RemoveAt(@, i)]
        OBVIOUS
      <4> HIDE DEF V
      <4> QED BY <4>1, <1>2, <1>3, <1>6, LeafLoses
    <3> QED BY <3>2, <3>3, <3>4 DEF Beyond, Live
  <2> HIDE DEF V
  <2>3. \A x \in Live(nodes) : Holds(nodes, x, k) => x = n
    <3>1. Holds(nodes, n, k)
      BY <1>3 DEF Holds
    <3> QED BY <3>1, <1>3, <1>5, OneHolder
  <2>4. Ordered(V, root, lo, hi) /\ Contents(V) = Contents(nodes) \ {k}
    BY <2>2, <2>3, <1>2, <1>3, <1>5, <1>6, LeafShrinks DEF Tree
  <2>5. View' = V /\ Top' = root
    BY <2>1, <1>1 DEF View, Top
  <2>6. Contents(V) = held'
    BY <2>4, <1>1, <1>2 DEF Content
  <2> QED BY <2>4, <2>5, <2>6 DEF Content, Sorted
<1> QED BY <1>4, <1>6

\* What a split hands to the parent is counted as there already.
LEMMA InsertUpKeeps ==
    ASSUME Content, sound, InsertUp PROVE Content'
<1>1. pc = "insert" /\ nodes' = View /\ pc' = "idle" /\ root' = root /\ held' = held
  BY DEF InsertUp, View
<1>2. Top = root /\ Top' = root /\ View' = View
  BY <1>1 DEF Top, View
<1>3. Sorted(View', Top') /\ Contents(View') = held'
  BY <1>1, <1>2 DEF Content
<1> QED BY <1>3 DEF Content

\* So is the new root.
LEMMA NewRootKeeps ==
    ASSUME Content, sound, NewRoot PROVE Content'
<1>1. pc = "root" /\ nodes' = View /\ pc' = "idle" /\ root' = Fresh /\ held' = held
  BY DEF NewRoot, View, Rooted
<1>2. Top = Fresh /\ Top' = Fresh /\ View' = View
  BY <1>1 DEF Top, View
<1>3. Sorted(View', Top') /\ Contents(View') = held'
  BY <1>1, <1>2 DEF Content
<1> QED BY <1>3 DEF Content

\* A turn of the loop that splits.
LEMMA SplitKeeps ==
    ASSUME Shape, Content, sound, Split PROVE Content'
<1> DEFINE V == View
           a == at[1]
           f == FreshIn(nodes)
           S == NodeSplit(nodes, a, f, up[1], up[2], at[2])
           T == S.ns
           e == V[a].recs[MinElements + 1]
           q == nodes[a].parent
           o == nodes[a].pos
           g == FreshIn(T)
<1>1. MaxElements \in Orders /\ pc = "split" /\ Top = root
  BY DEF Shape, Split, Top
<1>2. /\ V \in Memory /\ a \in Live(V) /\ Linked(V, root) /\ f \in Node /\ f \notin Live(V)
      /\ Size(V, a) = MaxElements + 1 /\ IsCut(V, T, a, f, MinElements)
      /\ V[a].parent = q /\ V[a].pos = o /\ S.median = e /\ Live(T) # Node
  BY SplitStarts
<1>3. /\ nodes' = T /\ up' = <<f, S.median>> /\ at' = (IF q = NoNode THEN at ELSE <<q, o>>)
      /\ pc' = (IF q = NoNode THEN "root" ELSE IF Count(q) < MaxElements THEN "insert" ELSE "split")
      /\ root' = root /\ held' = held /\ sound' = sound
  BY DEF Split, Fresh, FreshIn
<1>4. Sorted(V, root) /\ Contents(V) = held
  BY <1>1 DEF Content
<1> HIDE DEF V, a, f, S, T, e, q, o, g
<1>5. MinElements \in Nat \ {0} /\ Size(V, a) = 2 * MinElements + 1
  BY <1>1, <1>2, Halved
<1>6. T \in Memory /\ Live(T) = Live(V) \cup {f}
  BY <1>2 DEF IsCut
<1>7. CASE q = NoNode
  <2>1. a = root
    <3>1. V[a].parent = NoNode
      BY <1>2, <1>7
    <3>2. V[a].parent # NoNode \/ a = root
      <4>1. a # root => V[a].parent \in Live(V)
        BY <1>2, LinkUp
      <4> QED BY <4>1, <1>2, NodeTypes
    <3> QED BY <3>1, <3>2
  <2> DEFINE W == Rooted(T, root, f, e, g)
  <2>2. pc' = "root" /\ at' = at /\ up' = <<f, e>>
    BY <1>2, <1>3, <1>7
  <2>3. Fresh' = g
    BY <1>3 DEF Fresh, FreshIn, g
  <2>4. View' = W /\ Top' = g
    BY <1>3, <2>2, <2>3 DEF View, Top
  <2>5. g \in Node /\ g \notin Live(T) /\ g \notin Live(V)
    BY <1>2, <1>6, FreshIs DEF g
  <2>6. PICK G : IsPlanted(V, G, root, g)
    BY <1>2, <2>1, <2>5, Planted
  <2>7. IsSplit(G, W, root, f, g, 0, MinElements)
    BY <1>2, <1>5, <2>1, <2>5, <2>6, RootSplits DEF Rooted, e
  <2> HIDE DEF W
  <2>8. Linked(G, g) /\ Sorted(G, g) /\ Contents(G) = Contents(V)
    BY <1>2, <1>4, <2>6, PlantedLinked, PlantedSorted
  <2>9. Sorted(W, g) /\ Contents(W) = Contents(G)
    BY <2>7, <2>8, SplitSorted
  <2> QED BY <1>3, <1>4, <2>4, <2>8, <2>9 DEF Content
<1>8. CASE q # NoNode
  <2> DEFINE W == NodeInsert(T, q, f, e, o)
  <2>1. a # root
    <3>1. V[root].parent = NoNode
      BY <1>2 DEF Linked
    <3> QED BY <3>1, <1>2, <1>8
  <2>3. IsSplit(V, W, a, f, q, o, MinElements)
    <3>1. IsSplit(V, NodeInsert(T, V[a].parent, f, e, V[a].pos), a, f, V[a].parent, V[a].pos, MinElements)
      BY <1>2, <1>5, <2>1, CutSplits DEF e
    <3> QED BY <3>1, <1>2
  <2>4. pc' \in {"insert", "split"} /\ at' = <<q, o>> /\ up' = <<f, e>>
    BY <1>2, <1>3, <1>8
  <2>5. at'[1] = q /\ at'[2] = o /\ up'[1] = f /\ up'[2] = e
    BY <2>4
  <2>6. View' = W /\ Top' = root
    BY <1>3, <2>4, <2>5 DEF View, Top
  <2> HIDE DEF W
  <2>7. Sorted(W, root) /\ Contents(W) = Contents(V)
    BY <1>2, <1>4, <2>3, SplitSorted
  <2> QED BY <1>3, <1>4, <2>6, <2>7 DEF Content
<1> QED BY <1>7, <1>8

\* A turn of the loop that restores a node: it borrows, or is combined.
LEMMA RestoreKeeps ==
    ASSUME Shape, Content, sound, Restore PROVE Content'
<1> DEFINE n == at[1]
           q == nodes[n].parent
           p == nodes[n].pos
           m == MinElements
           branches == nodes[q].branches
           lends(i) == i \in 0..Count(q) /\ Count(branches[i + 1]) > m
           join == IF p = 0 THEN 0 ELSE p - 1
           R == NodeRestore(q, p)
<1>1. /\ pc = "restore" /\ q # NoNode /\ nodes' = R.ns /\ sound' = (sound /\ R.right)
      /\ pc' = pc /\ root' = root /\ held' = held
  BY DEF Restore
<1>2. /\ MaxElements \in Orders /\ nodes \in Memory /\ Linked(nodes, root)
      /\ Filled(nodes, root, NoNode, n) /\ n \in Live(nodes)
  BY <1>1, Lacks
<1>3. m \in Nat \ {0}
  BY <1>2, Halved
<1>4. View = nodes /\ Top = root /\ View' = nodes' /\ Top' = root
  BY <1>1 DEF View, Top
<1>5. Sorted(nodes, root) /\ Contents(nodes) = held
  BY <1>4 DEF Content
<1>6. n # root
  BY <1>1, <1>2 DEF Linked
<1>7. /\ q \in Live(nodes) /\ p \in Nat /\ p + 1 \in 1..Width(nodes, q)
      /\ Width(nodes, q) = Size(nodes, q) + 1 /\ nodes[q].depth # 0 /\ q # n
  BY <1>2, <1>6, LinkUp
<1>8. Size(nodes, q) \in Nat /\ nodes[q].depth \in Nat /\ Count(q) = Size(nodes, q) /\ q # NoNode
  BY <1>2, <1>7, NodeTypes DEF Count, Size
<1>9. Size(nodes, q) >= 1
  <2>1. (q # root => Size(nodes, q) >= m) /\ (q = root => Size(nodes, q) >= 1)
    BY <1>2, <1>7, <1>8 DEF Filled
  <2> HIDE DEF q, m
  <2> QED BY <2>1, <1>3, <1>8
<1>10. ASSUME NEW i \in Nat, i + 1 \in 1..Size(nodes, q)
       PROVE  Beside(nodes, root, q, i, branches[i + 1], branches[i + 2])
  BY <1>2, <1>7, <1>10 DEF Beside
<1>11. ASSUME Sorted(nodes', root) /\ Contents(nodes') = Contents(nodes) PROVE Content'
  BY <1>1, <1>4, <1>5, <1>11 DEF Content
<1> HIDE DEF m
<1>12. CASE p > 0 /\ lends(p - 1)
  <2> DEFINE i == p - 1
             l == branches[i + 1]
             r == branches[i + 2]
  <2>1. R = [ns |-> NodeMoveRight(q, i), right |-> TRUE]
    BY <1>12 DEF NodeRestore, m
  <2>2. R.ns = NodeMoveRight(q, i)
    BY <2>1
  <2>3. i \in Nat /\ i + 1 \in 1..Size(nodes, q) /\ Count(l) > m
    BY <1>7, <1>8, <1>12
  <2> HIDE DEF i
  <2>4. Beside(nodes, root, q, i, l, r)
    BY <2>3, <1>10
  <2> HIDE DEF l, r
  <2>5. Count(l) = Size(nodes, l) /\ Count(l) > 0
    <3>1. Size(nodes, l) \in Nat
      BY <2>4, BesideProps
    <3>2. Count(l) = Size(nodes, l)
      BY DEF Count, Size
    <3> QED BY <3>1, <3>2, <2>3, <1>3
  <2>6. IsMoveRight(nodes, nodes', q, i, l, r)
    BY <2>2, <2>4, <2>5, <1>1, MoveRightIs
  <2>7. Sorted(nodes', root) /\ Contents(nodes') = Contents(nodes)
    BY <2>4, <2>5, <2>6, <1>5, MoveRightSorted
  <2> QED BY <2>7, <1>11
<1>13. CASE ~(p > 0 /\ lends(p - 1)) /\ lends(p + 1)
  <2> DEFINE l == branches[p + 1]
             r == branches[p + 2]
  <2>1. R = [ns |-> NodeMoveLeft(q, p), right |-> TRUE]
    BY <1>13 DEF NodeRestore, m
  <2>2. R.ns = NodeMoveLeft(q, p)
    BY <2>1
  <2>3. p + 1 \in 1..Size(nodes, q) /\ Count(r) > m
    <3>1. p + 1 \in 0..Count(q) /\ Count(branches[(p + 1) + 1]) > m /\ (p + 1) + 1 = p + 2
      BY <1>7, <1>13
    <3> HIDE DEF q, p
    <3> QED BY <3>1, <1>7, <1>8
  <2>4. Beside(nodes, root, q, p, l, r)
    BY <2>3, <1>7, <1>10
  <2> HIDE DEF l, r
  <2>5. Count(r) = Size(nodes, r) /\ Count(r) > 0
    <3>1. Size(nodes, r) \in Nat
      BY <2>4, BesideProps
    <3>2. Count(r) = Size(nodes, r)
      BY DEF Count, Size
    <3> QED BY <3>1, <3>2, <2>3, <1>3
  <2>6. IsMoveLeft(nodes, nodes', q, p, l, r)
    BY <2>2, <2>4, <2>5, <1>1, MoveLeftIs
  <2>7. Sorted(nodes', root) /\ Contents(nodes') = Contents(nodes)
    BY <2>4, <2>5, <2>6, <1>5, MoveLeftSorted
  <2> QED BY <2>7, <1>11
<1>14. CASE ~(p > 0 /\ lends(p - 1)) /\ ~lends(p + 1)
  <2>1. R = [ns |-> NodeCombine(q, join), right |-> Count(branches[join + 2]) = 0]
    BY <1>14 DEF NodeRestore, m
  <2>2. R.ns = NodeCombine(q, join) /\ R.right = (Count(branches[join + 2]) = 0)
    BY <2>1
  <2>3. CASE Count(branches[join + 2]) # 0
    BY <2>2, <2>3, <1>1 DEF Content
  <2>4. CASE Count(branches[join + 2]) = 0
    <3> DEFINE l == branches[join + 1]
               r == branches[join + 2]
    <3>1. join \in Nat /\ join + 1 \in 1..Size(nodes, q)
      BY <1>7, <1>8, <1>9
    <3> HIDE DEF join
    <3>2. Beside(nodes, root, q, join, l, r)
      BY <3>1, <1>10
    <3> HIDE DEF l
    <3>3. Count(r) = 0 /\ nodes' = NodeCombine(q, join)
      BY <2>2, <2>4, <1>1
    <3> HIDE DEF r
    <3>4. IsCombine(nodes, nodes', q, join, l, r)
      BY <3>2, <3>3, CombineIs
    <3>5. Sorted(nodes', root) /\ Contents(nodes') = Contents(nodes)
      BY <3>2, <3>4, <1>5, CombineSorted
    <3> QED BY <3>5, <1>11
  <2> QED BY <2>3, <2>4
<1> QED BY <1>12, <1>13, <1>14

\* The end of that loop, where the root may be found empty.
LEMMA RestoredKeeps ==
    ASSUME Shape, Content, sound, Restored PROVE Content'
<1> DEFINE n == at[1]
           a == nodes[n].branches[1]
<1>1. /\ pc = "restore" /\ (Count(n) >= MinElements \/ nodes[n].parent = NoNode)
      /\ IF Count(n) = 0
         THEN nodes' = [nodes EXCEPT ![n] = Unused, ![a].parent = NoNode] /\ root' = a
         ELSE nodes' = nodes /\ root' = root
      /\ pc' = "idle" /\ held' = held
  BY DEF Restored
<1>2. /\ MaxElements \in Orders /\ nodes \in Memory /\ Linked(nodes, root)
      /\ n \in Live(nodes) /\ (n = root => nodes[root].depth > 0)
  BY <1>1, Lacks
<1>3. View = nodes /\ Top = root /\ View' = nodes' /\ Top' = root'
  BY <1>1 DEF View, Top
<1>4. Sorted(nodes, root) /\ Contents(nodes) = held
  BY <1>3 DEF Content
<1>5. Count(n) \in Nat /\ nodes[n].depth \in Nat /\ MinElements \in Nat \ {0}
  BY <1>2, Halved, NodeTypes DEF Count, Size
<1>6. n # root => Count(n) >= MinElements
  <2>1. n # root => nodes[n].parent \in Live(nodes)
    BY <1>2, LinkUp
  <2> QED BY <2>1, <1>1, <1>2, NodeTypes
<1> HIDE DEF n, a
<1>7. CASE Count(n) = 0
  <2>1. n = root
    BY <1>5, <1>6, <1>7
  <2>2. nodes[n].depth # 0
    BY <2>1, <1>2, <1>5
  <2>3. IsCrowned(nodes', nodes, a, n) /\ nodes' \in Memory
    BY <2>1, <2>2, <1>1, <1>2, <1>7, Uncrowned DEF a
  <2>4. Sorted(nodes', a) /\ Contents(nodes') = Contents(nodes)
    BY <2>1, <2>3, <1>2, <1>4, UnplantedSorted
  <2> QED BY <2>4, <1>1, <1>3, <1>4, <1>7 DEF Content
<1>8. CASE Count(n) # 0
  BY <1>1, <1>3, <1>4, <1>8 DEF Content
<1> QED BY <1>7, <1>8

\* memtree_new makes an empty leaf.
LEMMA NothingHeld == ASSUME Init PROVE Content
<1>1. /\ nodes = [n \in Node |-> IF n = 1 THEN Leaf ELSE Unused]
      /\ root = 1 /\ pc = "idle" /\ held = {}
  BY DEF Init
<1>2. View = nodes /\ Top = 1
  BY <1>1 DEF View, Top
<1>3. 1 \in Node /\ nodes[1] = Leaf /\ Live(nodes) \subseteq {1}
  <2>1. 1 \in Node
    BY MaxNodesAssumption DEF Node
  <2> QED BY <2>1, <1>1 DEF Live
<1>4. Size(nodes, 1) = 0 /\ Width(nodes, 1) = 0
  BY <1>3 DEF Leaf, Size, Width
<1> DEFINE lo == [n \in Node |-> 0]
<1>5. Ordered(nodes, 1, lo, lo)
  <2>1. lo \in [Node -> Nat] /\ lo[1] = 0
    BY <1>3
  <2>2. InOrder(nodes, lo, lo, 1)
    BY <1>4 DEF InOrder
  <2> QED BY <2>1, <2>2, <1>3 DEF Ordered
<1>6. Contents(nodes) = {}
  BY <1>3, <1>4 DEF Contents, Holds
<1> QED BY <1>1, <1>2, <1>5, <1>6 DEF Content, Sorted

\* So every step keeps Content.
LEMMA ContentSteps == ASSUME Shape, Content, [Next]_vars PROVE Content'
<1>1. CASE vars' = vars
  <2>1. /\ nodes' = nodes /\ root' = root /\ pc' = pc /\ at' = at /\ up' = up
        /\ held' = held /\ sound' = sound
    BY <1>1 DEF vars
  <2>2. View' = View /\ Top' = Top
    BY <2>1 DEF View, Top, Fresh
  <2> QED BY <2>1, <2>2 DEF Content
<1>2. CASE Next /\ ~sound
  <2>1. sound' = FALSE
    BY <1>2 DEF Shape, Next, Insert, RemoveKey, Split, InsertUp, NewRoot, Restore, Restored
  <2> QED BY <2>1 DEF Content
<1>3. CASE Next /\ sound
  <2>1. CASE \E k \in Keys : Insert(k) \/ RemoveKey(k)
    BY <2>1, InsertKeeps, RemoveKeeps
  <2>2. CASE Split
    BY <2>2, <1>3, SplitKeeps
  <2>3. CASE InsertUp
    BY <2>3, <1>3, InsertUpKeeps
  <2>4. CASE NewRoot
    BY <2>4, <1>3, NewRootKeeps
  <2>5. CASE Restore
    BY <2>5, <1>3, RestoreKeeps
  <2>6. CASE Restored
    BY <2>6, <1>3, RestoredKeeps
  <2> QED BY <2>1, <2>2, <2>3, <2>4, <2>5, <2>6, <1>3 DEF Next
<1> QED BY <1>1, <1>2, <1>3

-----------------------------------------------------------------------------
(* What a walk gives *)

\* s has the members of S, smallest first.
Lists(s, S) == s \in Seq(Keys) /\ Rising(s) /\ ToSet(s) = S

\* Two lists one after the other.
LEMMA ListsConcat ==
    ASSUME NEW a, NEW A, NEW b, NEW B, Lists(a, A), Lists(b, B), \A x \in A, y \in B : x < y
    PROVE  Lists(a \o b, A \cup B)
<1>1. /\ a \in Seq(Keys) /\ b \in Seq(Keys) /\ Len(a) \in Nat /\ Len(b) \in Nat
      /\ Rising(a) /\ Rising(b) /\ ToSet(a) = A /\ ToSet(b) = B
  BY DEF Lists
<1> DEFINE c == a \o b
<1>2. /\ c \in Seq(Keys) /\ Len(c) = Len(a) + Len(b)
      /\ \A i \in 1..Len(a) : c[i] = a[i]
      /\ \A i \in 1..Len(b) : c[Len(a) + i] = b[i]
  BY <1>1, ConcatProps
<1> HIDE DEF c
<1>3. (\A i \in 1..Len(a) : a[i] \in A) /\ (\A i \in 1..Len(b) : b[i] \in B)
  BY <1>1 DEF ToSet
<1>4. ASSUME NEW j \in 1..Len(c), j \notin 1..Len(a)
      PROVE  j - Len(a) \in 1..Len(b) /\ c[j] = b[j - Len(a)]
  <2>1. j - Len(a) \in 1..Len(b) /\ Len(a) + (j - Len(a)) = j
    BY <1>1, <1>2, <1>4
  <2> QED BY <2>1, <1>2
<1>5. ASSUME NEW i \in 1..Len(c), NEW j \in 1..Len(c), i < j PROVE c[i] < c[j]
  <2>1. CASE j \in 1..Len(a)
    <3>1. i \in 1..Len(a)
      BY <2>1, <1>1, <1>2, <1>5
    <3> QED BY <2>1, <3>1, <1>1, <1>2, <1>5 DEF Rising
  <2>2. CASE j \notin 1..Len(a) /\ i \in 1..Len(a)
    BY <2>2, <1>2, <1>3, <1>4
  <2>3. CASE j \notin 1..Len(a) /\ i \notin 1..Len(a)
    <3>1. j - Len(a) \in 1..Len(b) /\ c[j] = b[j - Len(a)] /\ i - Len(a) \in 1..Len(b) /\ c[i] = b[i - Len(a)]
      BY <2>3, <1>4
    <3>2. i - Len(a) < j - Len(a)
      BY <1>1, <1>2, <1>5
    <3> QED BY <3>1, <3>2, <1>1 DEF Rising
  <2> QED BY <2>1, <2>2, <2>3
<1>6. ToSet(c) = A \cup B
  <2>1. DOMAIN c = 1..Len(c) /\ DOMAIN a = 1..Len(a) /\ DOMAIN b = 1..Len(b)
    BY <1>1, <1>2
  <2>2. ASSUME NEW x \in ToSet(c) PROVE x \in A \cup B
    <3>1. PICK i \in 1..Len(c) : x = c[i]
      BY <2>1 DEF ToSet
    <3> QED BY <3>1, <1>2, <1>3, <1>4
  <2>3. ASSUME NEW x \in A PROVE x \in ToSet(c)
    <3>1. PICK i \in 1..Len(a) : x = a[i]
      BY <2>1, <1>1 DEF ToSet
    <3>2. i \in 1..Len(c) /\ c[i] = x
      BY <3>1, <1>1, <1>2
    <3> QED BY <3>2, <2>1 DEF ToSet
  <2>4. ASSUME NEW x \in B PROVE x \in ToSet(c)
    <3>1. PICK i \in 1..Len(b) : x = b[i]
      BY <2>1, <1>1 DEF ToSet
    <3>2. Len(a) + i \in 1..Len(c) /\ c[Len(a) + i] = x
      BY <3>1, <1>1, <1>2
    <3> QED BY <3>2, <2>1 DEF ToSet
  <2> QED BY <2>2, <2>3, <2>4
<1> QED BY <1>2, <1>5, <1>6 DEF Lists, Rising, c

\* A list and a later key.
LEMMA ListsAppend ==
    ASSUME NEW a, NEW A, Lists(a, A), NEW r \in Keys, \A x \in A : x < r
    PROVE  Lists(Append(a, r), A \cup {r})
<1>1. Lists(<<r>>, {r})
  <2>1. <<r>> \in Seq(Keys) /\ Len(<<r>>) = 1 /\ DOMAIN <<r>> = 1..1 /\ <<r>>[1] = r
    OBVIOUS
  <2>2. ToSet(<<r>>) = {r}
    BY <2>1 DEF ToSet
  <2>3. Rising(<<r>>)
    BY <2>1 DEF Rising
  <2> QED BY <2>1, <2>2, <2>3 DEF Lists
<1>2. Append(a, r) = a \o <<r>>
  <2>1. a \in Seq(Keys)
    BY DEF Lists
  <2> QED BY <2>1
<1>3. Lists(a \o <<r>>, A \cup {r})
  BY <1>1, ListsConcat
<1> QED BY <1>2, <1>3

\* The recursion of FlattenSeq, up to m.
FlattenIs(s, m, f) == f = [i \in 1..m |-> IF i = 1 THEN s[i] ELSE f[i - 1] \o s[i]]

\* FlattenSeq is the last of a function that is its own next step.
LEMMA FlattenGoes ==
    ASSUME NEW s, Len(s) \in Nat, Len(s) # 0
    PROVE  \E f : FlattenIs(s, Len(s), f) /\ FlattenSeq(s) = f[Len(s)]
<1> DEFINE Bad == {m \in Nat : ~\E f : FlattenIs(s, m, f)}
<1>1. ASSUME Bad # {} PROVE FALSE
  <2>1. PICK m \in Bad : \A j \in Bad : m <= j
    <3>1. Bad \in SUBSET Nat
      OBVIOUS
    <3> HIDE DEF Bad
    <3> QED BY <1>1, <3>1, LeastNatural
  <2>2. m \in Nat /\ ~\E f : FlattenIs(s, m, f)
    OBVIOUS
  <2>3. m # 0
    <3> SUFFICES ASSUME m = 0 PROVE FALSE
      OBVIOUS
    <3> DEFINE f == [i \in {} |-> s[i]]
    <3>1. 1..m = {} /\ f = [i \in {} |-> IF i = 1 THEN s[i] ELSE f[i - 1] \o s[i]]
      OBVIOUS
    <3>2. FlattenIs(s, m, f)
      BY <3>1 DEF FlattenIs
    <3> QED BY <3>2, <2>2
  <2> DEFINE j == m - 1
  <2>4. j \in Nat /\ j < m /\ j + 1 = m
    BY <2>2, <2>3
  <2>5. PICK f : FlattenIs(s, j, f)
    BY <2>1, <2>4
  <2> HIDE DEF j
  <2> DEFINE h == [i \in 1..m |-> IF i = 1 THEN s[i] ELSE f[i - 1] \o s[i]]
  <2>6. ASSUME NEW i \in 1..m, i # 1 PROVE h[i - 1] = f[i - 1]
    <3>1. i - 1 \in 1..m /\ i - 1 \in 1..j
      BY <2>4, <2>6
    <3>2. f[i - 1] = IF i - 1 = 1 THEN s[i - 1] ELSE f[(i - 1) - 1] \o s[i - 1]
      BY <3>1, <2>5 DEF FlattenIs
    <3> QED BY <3>1, <3>2
  <2>7. h = [i \in 1..m |-> IF i = 1 THEN s[i] ELSE h[i - 1] \o s[i]]
    BY <2>6
  <2> HIDE DEF h
  <2>8. FlattenIs(s, m, h)
    BY <2>7 DEF FlattenIs
  <2> QED BY <2>2, <2>8
<1>2. \E f : FlattenIs(s, Len(s), f)
  BY <1>1
<1>3. FlattenSeq(s) = (CHOOSE f : FlattenIs(s, Len(s), f))[Len(s)]
  BY DEF FlattenSeq, FlattenIs
<1>4. FlattenIs(s, Len(s), CHOOSE f : FlattenIs(s, Len(s), f))
  BY <1>2
<1> QED BY <1>3, <1>4

\* The walk, over the nodes in U.
Walked(f, n) ==
    IF nodes[n].depth = 0 THEN nodes[n].recs
    ELSE FlattenSeq([i \in 1..Count(n) |-> Append(f[nodes[n].branches[i]], nodes[n].recs[i])])
           \o f[nodes[n].branches[Count(n) + 1]]
WalkIs(U, f) == f = [n \in U |-> Walked(f, n)]

\* WalkForward is what a function that is its own walk says of the root.
LEMMA WalkGoes ==
    ASSUME Linked(nodes, root)
    PROVE  \E f : WalkIs(Used, f) /\ WalkForward = f[root]
<1>0. nodes \in Memory /\ \A n \in Used : nodes[n].depth \in Nat
  BY NodeTypes, UsedLive DEF Linked
<1>1. PICK b \in Nat : \A n \in Used : nodes[n].depth <= b
  BY <1>0, DepthBound, UsedLive
<1> DEFINE U(m) == {n \in Used : nodes[n].depth < m}
           Bad == {m \in Nat : ~\E f : WalkIs(U(m), f)}
<1>2. ASSUME Bad # {} PROVE FALSE
  <2>1. PICK m \in Bad : \A j \in Bad : m <= j
    <3>1. Bad \in SUBSET Nat
      OBVIOUS
    <3> HIDE DEF Bad
    <3> QED BY <1>2, <3>1, LeastNatural
  <2>2. m \in Nat /\ ~\E f : WalkIs(U(m), f)
    OBVIOUS
  <2>3. m # 0
    <3> SUFFICES ASSUME m = 0 PROVE FALSE
      OBVIOUS
    <3>0. U(m) = {}
      BY <1>0
    <3> DEFINE f == [n \in {} |-> n]
    <3>1. f = [n \in {} |-> Walked(f, n)]
      OBVIOUS
    <3>2. WalkIs(U(m), f)
      BY <3>0, <3>1 DEF WalkIs
    <3> QED BY <3>2, <2>2
  <2> DEFINE j == m - 1
  <2>4. j \in Nat /\ j < m /\ j + 1 = m
    BY <2>2, <2>3
  <2>5. PICK f : WalkIs(U(j), f)
    <3> HIDE DEF U, j
    <3> QED BY <2>1, <2>4
  <2> HIDE DEF j
  <2> DEFINE h == [n \in U(m) |-> Walked(f, n)]
  <2>6. ASSUME NEW n \in U(m), nodes[n].depth # 0, NEW i \in 1..(Count(n) + 1)
        PROVE  h[nodes[n].branches[i]] = f[nodes[n].branches[i]]
    <3>1. n \in Live(nodes) /\ i \in 1..Width(nodes, n) /\ nodes[n].depth \in Nat /\ nodes[n].depth < m
      BY <2>6, <1>0, LinkDown, UsedLive DEF Count, Size
    <3> DEFINE x == nodes[n].branches[i]
    <3>2. x \in Used /\ nodes[x].depth + 1 = nodes[n].depth
      BY <3>1, LinkDown, UsedLive
    <3> HIDE DEF x
    <3>3. x \in U(m) /\ x \in U(j)
      BY <3>1, <3>2, <1>0, <2>4
    <3>4. f[x] = Walked(f, x)
      BY <3>3, <2>5 DEF WalkIs
    <3> QED BY <3>3, <3>4 DEF x
  <2>7. ASSUME NEW n \in U(m) PROVE Walked(f, n) = Walked(h, n)
    <3>1. CASE nodes[n].depth = 0
      BY <3>1 DEF Walked
    <3>2. CASE nodes[n].depth # 0
      <4>1. Count(n) \in Nat
        BY <1>0, NodeTypes, UsedLive DEF Count, Size
      <4>2. \A i \in 1..Count(n) : h[nodes[n].branches[i]] = f[nodes[n].branches[i]]
        BY <3>2, <4>1, <2>6
      <4>3. h[nodes[n].branches[Count(n) + 1]] = f[nodes[n].branches[Count(n) + 1]]
        BY <3>2, <4>1, <2>6
      <4> HIDE DEF h
      <4>4. [i \in 1..Count(n) |-> Append(f[nodes[n].branches[i]], nodes[n].recs[i])]
            = [i \in 1..Count(n) |-> Append(h[nodes[n].branches[i]], nodes[n].recs[i])]
        BY <4>2
      <4> QED BY <4>3, <4>4 DEF Walked
    <3> QED BY <3>1, <3>2
  <2>8. h = [n \in U(m) |-> Walked(h, n)]
    BY <2>7
  <2> HIDE DEF h, U
  <2>9. WalkIs(U(m), h)
    BY <2>8 DEF WalkIs
  <2> QED BY <2>2, <2>9
<1>3. \E f : WalkIs(Used, f)
  <2>1. U(b + 1) = Used /\ b + 1 \in Nat
    BY <1>0, <1>1
  <2> HIDE DEF U
  <2> QED BY <2>1, <1>2
<1>4. WalkForward = (CHOOSE f : WalkIs(Used, f))[root]
  BY DEF WalkForward, WalkIs, Walked
<1>5. WalkIs(Used, CHOOSE f : WalkIs(Used, f))
  BY <1>3
<1> QED BY <1>4, <1>5

\* The keys of the tree between two bounds.
Under(l, h) == {c \in Contents(nodes) : Within(c, l, h)}

\* What is under a node are keys, and numbers.
LEMMA UnderKeys == \A l, h : Under(l, h) \subseteq Keys /\ Under(l, h) \subseteq Nat
BY KeysOrdered DEF Under, Contents

\* The keys on both sides of one, and that.
LEMMA UnderJoins ==
    ASSUME NEW l \in Nat, NEW h \in Nat, NEW r \in Contents(nodes), l < r, h = 0 \/ r < h
    PROVE  Under(l, h) = (Under(l, r) \cup {r}) \cup Under(r, h)
<1>1. r \in Nat \ {0} /\ \A c \in Contents(nodes) : c \in Nat \ {0}
  BY KeysOrdered DEF Contents
<1>2. ASSUME NEW c \in Contents(nodes)
      PROVE  Within(c, l, h) <=> Within(c, l, r) \/ c = r \/ Within(c, r, h)
  <2>1. c \in Nat \ {0}
    BY <1>1
  <2> QED BY <2>1, <1>1 DEF Within
<1> QED BY <1>2, <1>1 DEF Under, Within

\* A leaf has all that is between its bounds.
LEMMA LeafUnder ==
    ASSUME NEW lo, NEW hi, Tree(nodes, root, lo, hi), NEW n \in Live(nodes), nodes[n].depth = 0
    PROVE  Lists(nodes[n].recs, Under(lo[n], hi[n]))
<1>1. nodes \in Memory /\ Ordered(nodes, root, lo, hi) /\ InOrder(nodes, lo, hi, n)
  BY DEF Tree, Linked, Ordered
<1>2. nodes[n].recs \in Seq(Keys) /\ Size(nodes, n) = Len(nodes[n].recs) /\ Size(nodes, n) \in Nat
  BY <1>1, NodeTypes DEF Size
<1>3. Rising(nodes[n].recs)
  BY <1>1, <1>2 DEF InOrder, Rising
<1>4. ToSet(nodes[n].recs) = {c \in Keys : Holds(nodes, n, c)}
  <2>1. DOMAIN nodes[n].recs = 1..Size(nodes, n) /\ \A i \in 1..Size(nodes, n) : nodes[n].recs[i] \in Keys
    BY <1>1, <1>2, NodeTypes
  <2> QED BY <2>1 DEF ToSet, Holds
<1>5. ASSUME NEW c \in Keys, Holds(nodes, n, c) PROVE c \in Under(lo[n], hi[n])
  <2>1. n \in About(nodes, lo, hi, c)
    BY <1>1, <1>5, HolderAbout
  <2> QED BY <2>1, <1>5 DEF About, Under, Contents
<1>6. ASSUME NEW c \in Under(lo[n], hi[n]) PROVE c \in Keys /\ Holds(nodes, n, c)
  <2>1. PICK y \in Live(nodes) : Holds(nodes, y, c)
    BY DEF Under, Contents
  <2>2. n \in About(nodes, lo, hi, c) /\ c \in Keys /\ c \in Nat
    BY KeysOrdered DEF About, Under, Contents
  <2>3. nodes[y].depth <= nodes[n].depth /\ y \in About(nodes, lo, hi, c) /\ nodes[y].depth \in Nat
    BY <1>1, <2>1, <2>2, HolderLowest, HolderAbout, NodeTypes
  <2>4. nodes[y].depth = nodes[n].depth
    BY <2>3
  <2>5. y = n
    BY <2>2, <2>3, <2>4, AboutOne
  <2> QED BY <2>1, <2>2, <2>5
<1>7. ToSet(nodes[n].recs) = Under(lo[n], hi[n])
  BY <1>4, <1>5, <1>6, UnderKeys
<1> QED BY <1>2, <1>3, <1>7 DEF Lists

\* The walk over a node's branches gives what is between its bounds.
LEMMA NodeWalk ==
    ASSUME NEW lo, NEW hi, Tree(nodes, root, lo, hi), NEW n \in Live(nodes), nodes[n].depth # 0,
           Count(n) # 0, NEW f,
           \A i \in 1..Width(nodes, n) :
              LET b == nodes[n].branches[i] IN Lists(f[b], Under(lo[b], hi[b]))
    PROVE  Lists(Walked(f, n), Under(lo[n], hi[n]))
<1> DEFINE m == Count(n)
           recs == nodes[n].recs
           w(i) == f[nodes[n].branches[i]]
           s == [i \in 1..m |-> Append(w(i), recs[i])]
           L == lo[n]
           H == hi[n]
<1>1. Linked(nodes, root) /\ nodes \in Memory /\ Ordered(nodes, root, lo, hi) /\ InOrder(nodes, lo, hi, n)
  BY DEF Tree, Linked, Ordered
<1>2. /\ m \in Nat /\ m # 0 /\ m = Size(nodes, n) /\ Width(nodes, n) = m + 1 /\ L \in Nat /\ H \in Nat
      /\ \A i \in 1..m : recs[i] \in Keys /\ recs[i] \in Nat /\ L < recs[i] /\ (H = 0 \/ recs[i] < H)
      /\ \A i, j \in 1..m : i < j => recs[i] < recs[j]
  <2>1. /\ m \in Nat /\ m = Size(nodes, n) /\ Width(nodes, n) = m + 1
        /\ \A i \in 1..m : recs[i] \in Keys
    BY <1>1, LinkDown, NodeTypes DEF Count, Size
  <2>2. /\ lo[n] \in Nat /\ hi[n] \in Nat
        /\ \A i \in 1..Size(nodes, n) : /\ recs[i] \in Nat \ {0} /\ lo[n] < recs[i]
                                        /\ hi[n] = 0 \/ recs[i] < hi[n]
        /\ \A i, j \in 1..Size(nodes, n) : i < j => recs[i] < recs[j]
    BY <1>1, NodeOrder
  <2> HIDE DEF m, recs
  <2>3. m # 0
    BY DEF m
  <2> QED BY <2>1, <2>2, <2>3
<1>3. \A i \in 1..m : recs[i] \in Contents(nodes)
  BY <1>2 DEF Contents, Holds
<1>4. ASSUME NEW i \in 1..(m + 1)
      PROVE  Lists(w(i), Under(IF i = 1 THEN L ELSE recs[i - 1], IF i = m + 1 THEN H ELSE recs[i]))
  <2>1. i \in 1..Width(nodes, n) /\ (i - 1 = 0 <=> i = 1) /\ (i - 1 = m <=> i = m + 1) /\ (i - 1) + 1 = i
    BY <1>2
  <2>2. /\ lo[nodes[n].branches[i]] = Low(nodes, lo, n, i - 1)
        /\ hi[nodes[n].branches[i]] = High(nodes, hi, n, i - 1)
    BY <1>1, <2>1 DEF InOrder
  <2>3. Low(nodes, lo, n, i - 1) = IF i = 1 THEN L ELSE recs[i - 1]
    BY <2>1 DEF Low
  <2>4. High(nodes, hi, n, i - 1) = IF i = m + 1 THEN H ELSE recs[i]
    <3>1. High(nodes, hi, n, i - 1) = IF i - 1 = m THEN H ELSE recs[(i - 1) + 1]
      BY <1>2 DEF High
    <3> HIDE DEF m, recs, L, H
    <3> QED BY <3>1, <2>1
  <2>5. Lists(w(i), Under(lo[nodes[n].branches[i]], hi[nodes[n].branches[i]]))
    BY <2>1
  <2> HIDE DEF m, recs, L, H, w
  <2> QED BY <2>2, <2>3, <2>4, <2>5
<1> HIDE DEF m, recs, w, L, H
<1>5. ASSUME NEW i \in 1..m
      PROVE  LET l == IF i = 1 THEN L ELSE recs[i - 1]
             IN  s[i] \in Seq(Keys) /\ l \in Nat /\ l < recs[i] /\ Lists(s[i], Under(l, recs[i]) \cup {recs[i]})
  <2> DEFINE l == IF i = 1 THEN L ELSE recs[i - 1]
  <2>1. Lists(w(i), Under(l, recs[i]))
    <3>1. i \in 1..(m + 1) /\ i # m + 1
      BY <1>2
    <3> QED BY <3>1, <1>4
  <2>2. \A x \in Under(l, recs[i]) : x < recs[i]
    <3>1. recs[i] # 0
      BY <1>2
    <3> QED BY <3>1 DEF Under, Within
  <2>3. l \in Nat /\ l < recs[i]
    <3>1. i # 1 => i - 1 \in 1..m /\ i - 1 < i
      BY <1>2
    <3> QED BY <3>1, <1>2
  <2> HIDE DEF l
  <2>4. Lists(Append(w(i), recs[i]), Under(l, recs[i]) \cup {recs[i]})
    BY <1>2, <2>1, <2>2, ListsAppend
  <2>5. s[i] = Append(w(i), recs[i])
    OBVIOUS
  <2> HIDE DEF s
  <2>6. s[i] \in Seq(Keys)
    BY <2>4, <2>5 DEF Lists
  <2> QED BY <2>3, <2>4, <2>5, <2>6 DEF l
<1>6. Len(s) = m
  <2>1. s = [i \in 1..m |-> s[i]] /\ \A i \in 1..m : s[i] \in Seq(Keys)
    BY <1>5
  <2> HIDE DEF s
  <2>2. s \in [1..m -> Seq(Keys)]
    BY <2>1
  <2> QED BY <2>2, <1>2
<1>7. Walked(f, n) = FlattenSeq(s) \o w(m + 1)
  BY DEF Walked, s, w, m, recs
<1> HIDE DEF s
<1>8. PICK g : FlattenIs(s, m, g) /\ FlattenSeq(s) = g[m]
  BY <1>2, <1>6, FlattenGoes
<1> DEFINE G(i) == Lists(g[i], Under(L, recs[i]) \cup {recs[i]})
           Bad == {i \in 1..m : ~G(i)}
<1>9. ASSUME Bad # {} PROVE FALSE
  <2>1. PICK i \in Bad : \A j \in Bad : i <= j
    <3>1. Bad \in SUBSET Nat
      OBVIOUS
    <3> HIDE DEF Bad
    <3> QED BY <1>9, <3>1, LeastNatural
  <2>2. i \in 1..m /\ ~G(i)
    OBVIOUS
  <2>3. g[i] = IF i = 1 THEN s[i] ELSE g[i - 1] \o s[i]
    BY <2>2, <1>8 DEF FlattenIs
  <2>4. i # 1
    <3>1. i = 1 => G(i)
      BY <2>2, <2>3, <1>5
    <3> HIDE DEF G
    <3> QED BY <3>1, <2>2
  <2> DEFINE j == i - 1
  <2>5. j \in 1..m /\ j < i
    BY <2>2, <2>4, <1>2
  <2>6. j \notin Bad
    <3> HIDE DEF Bad, j
    <3> QED BY <2>1, <2>2, <2>5
  <2>7. Lists(g[j], Under(L, recs[j]) \cup {recs[j]})
    BY <2>5, <2>6
  <2>8. Lists(s[i], Under(recs[j], recs[i]) \cup {recs[i]}) /\ g[i] = g[j] \o s[i]
    BY <2>2, <2>3, <2>4, <1>5
  <2> HIDE DEF j
  <2>9. \A x \in Under(L, recs[j]) \cup {recs[j]}, y \in Under(recs[j], recs[i]) \cup {recs[i]} : x < y
    <3>1. recs[j] \in Nat \ {0} /\ recs[i] \in Nat /\ recs[j] < recs[i]
      <4>1. recs[j] \in Nat /\ L \in Nat /\ L < recs[j] /\ recs[i] \in Nat /\ recs[j] < recs[i]
        BY <2>2, <2>5, <1>2
      <4> QED BY <4>1
    <3>2. \A x \in Under(L, recs[j]) : x \in Nat /\ x < recs[j]
      BY <3>1, UnderKeys DEF Under, Within
    <3>3. \A y \in Under(recs[j], recs[i]) : y \in Nat /\ recs[j] < y
      BY UnderKeys DEF Under, Within
    <3> QED BY <3>1, <3>2, <3>3
  <2>10. Lists(g[i], (Under(L, recs[j]) \cup {recs[j]}) \cup (Under(recs[j], recs[i]) \cup {recs[i]}))
    BY <2>7, <2>8, <2>9, ListsConcat
  <2>11. Under(L, recs[i]) = (Under(L, recs[j]) \cup {recs[j]}) \cup Under(recs[j], recs[i])
    <3>1. L \in Nat /\ recs[i] \in Nat /\ L < recs[j] /\ recs[j] < recs[i] /\ recs[j] \in Contents(nodes)
      BY <2>2, <2>5, <1>2, <1>3
    <3> QED BY <3>1, UnderJoins
  <2>12. (Under(L, recs[j]) \cup {recs[j]}) \cup (Under(recs[j], recs[i]) \cup {recs[i]})
         = Under(L, recs[i]) \cup {recs[i]}
    BY <2>11
  <2>13. G(i)
    BY <2>10, <2>12
  <2> HIDE DEF G
  <2> QED BY <2>2, <2>13
<1>10. m \in 1..m
  BY <1>2
<1>11. Lists(g[m], Under(L, recs[m]) \cup {recs[m]})
  BY <1>9, <1>10
<1>12. Lists(w(m + 1), Under(recs[m], H))
  <2>1. m + 1 \in 1..(m + 1) /\ m + 1 # 1 /\ (m + 1) - 1 = m
    BY <1>2
  <2> QED BY <2>1, <1>4
<1>13. recs[m] \in Nat /\ recs[m] # 0 /\ L < recs[m] /\ (H = 0 \/ recs[m] < H) /\ recs[m] \in Contents(nodes)
  BY <1>2, <1>3, <1>10
<1>14. \A x \in Under(L, recs[m]) \cup {recs[m]}, y \in Under(recs[m], H) : x < y
  <2>2. \A x \in Under(L, recs[m]) : x \in Nat /\ x < recs[m]
    BY <1>13, UnderKeys DEF Under, Within
  <2>3. \A y \in Under(recs[m], H) : y \in Nat /\ recs[m] < y
    BY UnderKeys DEF Under, Within
  <2> QED BY <1>13, <2>2, <2>3
<1>15. Lists(g[m] \o w(m + 1), (Under(L, recs[m]) \cup {recs[m]}) \cup Under(recs[m], H))
  BY <1>11, <1>12, <1>14, ListsConcat
<1>16. Under(L, H) = (Under(L, recs[m]) \cup {recs[m]}) \cup Under(recs[m], H)
  BY <1>2, <1>13, UnderJoins
<1>17. Lists(Walked(f, n), Under(L, H))
  BY <1>7, <1>8, <1>15, <1>16
<1> QED BY <1>17 DEF L, H

\* The walk lists the keys of the tree: else there is a least deep node for which
\* it does not.
LEMMA WalkLists ==
    ASSUME Linked(nodes, root), Sorted(nodes, root),
           \A n \in Live(nodes) : nodes[n].depth # 0 => Count(n) # 0
    PROVE  Lists(WalkForward, Contents(nodes))
<1>1. PICK lo, hi : Tree(nodes, root, lo, hi)
  BY DEF Sorted, Tree
<1>2. PICK f : WalkIs(Used, f) /\ WalkForward = f[root]
  BY WalkGoes
<1>3. nodes \in Memory /\ root \in Live(nodes) /\ (\A n \in Live(nodes) : nodes[n].depth \in Nat)
      /\ lo[root] = 0 /\ hi[root] = 0
  BY <1>1, NodeTypes DEF Tree, Linked, Ordered
<1> DEFINE C(n) == Lists(f[n], Under(lo[n], hi[n]))
           Bad == {n \in Live(nodes) : ~C(n)}
           S == {nodes[n].depth : n \in Bad}
<1>4. ASSUME Bad # {} PROVE FALSE
  <2>1. PICK n \in Bad : \A x \in Bad : nodes[n].depth <= nodes[x].depth
    <3>0. Bad \subseteq Live(nodes)
      OBVIOUS
    <3> HIDE DEF Bad
    <3>1. S \in SUBSET Nat /\ S # {}
      BY <1>3, <1>4, <3>0
    <3>2. PICK s \in S : \A t \in S : s <= t
      <4> HIDE DEF S
      <4> QED BY <3>1, LeastNatural
    <3> QED BY <3>2
  <2>2. n \in Live(nodes) /\ ~C(n) /\ f[n] = Walked(f, n)
    BY <1>2, UsedLive DEF WalkIs
  <2>3. CASE nodes[n].depth = 0
    <3>1. f[n] = nodes[n].recs
      BY <2>2, <2>3 DEF Walked
    <3>2. C(n)
      BY <3>1, <2>2, <2>3, <1>1, LeafUnder
    <3> HIDE DEF C
    <3> QED BY <3>2, <2>2
  <2>4. CASE nodes[n].depth # 0
    <3>1. ASSUME NEW i \in 1..Width(nodes, n)
          PROVE  LET b == nodes[n].branches[i] IN Lists(f[b], Under(lo[b], hi[b]))
      <4> DEFINE b == nodes[n].branches[i]
      <4>1. b \in Live(nodes) /\ nodes[b].depth + 1 = nodes[n].depth
        BY <2>2, LinkDown
      <4> HIDE DEF b
      <4>2. b \notin Bad
        <5>1. ~(nodes[n].depth <= nodes[b].depth)
          BY <4>1, <2>2, <1>3
        <5> HIDE DEF Bad
        <5> QED BY <5>1, <2>1
      <4> QED BY <4>1, <4>2 DEF b
    <3>2. Count(n) # 0
      BY <2>2, <2>4
    <3>3. Lists(Walked(f, n), Under(lo[n], hi[n]))
      BY <3>1, <3>2, <2>2, <2>4, <1>1, NodeWalk
    <3> QED BY <3>3, <2>2
  <2> QED BY <2>3, <2>4
<1>5. Lists(f[root], Under(lo[root], hi[root]))
  BY <1>3, <1>4
<1>6. Under(0, 0) = Contents(nodes)
  <2>1. \A c \in Contents(nodes) : 0 < c
    BY KeysOrdered DEF Contents
  <2> QED BY <2>1 DEF Under, Within
<1> QED BY <1>2, <1>3, <1>5, <1>6

\* What TreeHolds says follows from the two invariants.
LEMMA ContentHolds == ASSUME Shape, Content PROVE TreeHolds
<1> SUFFICES ASSUME pc = "idle", sound
             PROVE  /\ ToSet(WalkForward) = held
                    /\ \A i \in 2..Len(WalkForward) : WalkForward[i - 1] < WalkForward[i]
                    /\ \A k \in Keys : Found(k) <=> k \in held
  BY DEF TreeHolds, Quiet
<1>1. /\ MaxElements \in Orders /\ Linked(nodes, root)
      /\ \A x \in Live(nodes) : FilledAt(nodes, root, NoNode, NoNode, x) /\ x # NoNode /\ Size(nodes, x) \in Nat
  BY Rests
<1>2. Sorted(nodes, root) /\ Contents(nodes) = held
  BY DEF Content, View, Top
<1>3. ASSUME NEW n \in Live(nodes), nodes[n].depth # 0 PROVE Count(n) # 0
  <2>1. MinElements \in Nat \ {0} /\ nodes[n].depth \in Nat
    BY <1>1, Halved, NodeTypes DEF Linked
  <2>2. (n # root => Size(nodes, n) >= MinElements) /\ (n = root => Size(nodes, n) >= 1)
    BY <1>1, <1>3, <2>1 DEF FilledAt
  <2> QED BY <2>1, <2>2 DEF Count, Size
<1>4. Lists(WalkForward, held)
  BY <1>1, <1>2, <1>3, WalkLists
<1> HIDE DEF TreeHolds
<1>5. WalkForward \in Seq(Keys) /\ Rising(WalkForward) /\ ToSet(WalkForward) = held
  BY <1>4 DEF Lists
<1>6. ASSUME NEW i \in 2..Len(WalkForward) PROVE WalkForward[i - 1] < WalkForward[i]
  <2>1. Len(WalkForward) \in Nat
    BY <1>5
  <2>2. i - 1 \in 1..Len(WalkForward) /\ i \in 1..Len(WalkForward) /\ i - 1 < i
    BY <2>1
  <2> QED BY <2>2, <1>5 DEF Rising
<1>7. \A k \in Keys : Found(k) <=> k \in held
  BY <1>1, <1>2, FoundHolds
<1> QED BY <1>5, <1>6, <1>7

-----------------------------------------------------------------------------
(* What is beside a cursor *)

\* A place of a node, which may be its end; a cursor waits at one of a leaf.
IsPlace(i) == i \in Live(nodes) \X Nat /\ i[2] <= Count(i[1])
InLeaf(i) == IsPlace(i) /\ nodes[i[1]].depth = 0

\* The keys on both sides of a place, 0 if there is none.
Before(lo, i) == Low(nodes, lo, i[1], i[2])
After(hi, i) == High(nodes, hi, i[1], i[2])

\* Only the root may be empty.
Stocked == \A n \in Live(nodes) : n # root => Count(n) # 0

\* A node other than the root has the bounds of its place in its parent.
LEMMA BoundsUp ==
    ASSUME NEW lo, NEW hi, Tree(nodes, root, lo, hi), NEW n \in Live(nodes), n # root
    PROVE  LET q == nodes[n].parent
               o == nodes[n].pos
           IN  /\ q \in Live(nodes) /\ q # NoNode /\ o \in 0..Count(q) /\ Count(q) = Size(nodes, q)
               /\ Count(q) \in Nat /\ nodes[q].depth = nodes[n].depth + 1
               /\ lo[n] = Low(nodes, lo, q, o) /\ hi[n] = High(nodes, hi, q, o)
<1> DEFINE q == nodes[n].parent
           o == nodes[n].pos
<1>1. Linked(nodes, root) /\ Ordered(nodes, root, lo, hi) /\ nodes \in Memory
  BY DEF Tree, Linked
<1>2. /\ q \in Live(nodes) /\ o \in Nat /\ o + 1 \in 1..Width(nodes, q) /\ nodes[q].branches[o + 1] = n
      /\ nodes[q].depth = nodes[n].depth + 1 /\ Width(nodes, q) = Size(nodes, q) + 1
  BY <1>1, LinkUp
<1>3. Size(nodes, q) \in Nat /\ Count(q) = Size(nodes, q) /\ q # NoNode
  BY <1>1, <1>2, NodeTypes DEF Count, Size
<1>4. lo[n] = Low(nodes, lo, q, o) /\ hi[n] = High(nodes, hi, q, o)
  <2>1. InOrder(nodes, lo, hi, q) /\ (o + 1) - 1 = o
    BY <1>1, <1>2 DEF Ordered
  <2> QED BY <2>1, <1>2 DEF InOrder
<1>5. o \in 0..Count(q)
  BY <1>2, <1>3
<1> QED BY <1>2, <1>3, <1>4, <1>5

\* In any set of nodes there is one that none of the others is above.
LEMMA Highest ==
    ASSUME Linked(nodes, root), NEW Bad \in SUBSET Live(nodes), Bad # {}
    PROVE  \E n \in Bad : \A x \in Bad : nodes[x].depth <= nodes[n].depth
<1>0. nodes[root].depth \in Nat /\ \A x \in Live(nodes) : nodes[x].depth \in Nat /\ nodes[x].depth <= nodes[root].depth
  <2>1. root \in Live(nodes)
    BY DEF Linked
  <2> QED BY <2>1, TopHighest
<1> DEFINE b == nodes[root].depth
           S == {b - nodes[x].depth : x \in Bad}
<1>1. S \in SUBSET Nat /\ S # {}
  BY <1>0
<1>2. PICK s \in S : \A t \in S : s <= t
  <2> HIDE DEF S
  <2> QED BY <1>1, LeastNatural
<1>3. PICK n \in Bad : s = b - nodes[n].depth
  BY <1>2
<1>4. ASSUME NEW x \in Bad PROVE nodes[x].depth <= nodes[n].depth
  <2>1. b - nodes[n].depth <= b - nodes[x].depth
    BY <1>2, <1>3
  <2>2. x \in Live(nodes) /\ n \in Live(nodes)
    OBVIOUS
  <2> HIDE DEF S
  <2> QED BY <2>1, <2>2, <1>0
<1> QED BY <1>4

\* A bound that is not 0 is a key of the tree.
LEMMA BoundsHeld ==
    ASSUME NEW lo, NEW hi, Tree(nodes, root, lo, hi)
    PROVE  \A n \in Live(nodes) : /\ lo[n] = 0 \/ lo[n] \in Contents(nodes)
                                  /\ hi[n] = 0 \/ hi[n] \in Contents(nodes)
<1> DEFINE C(n) == (lo[n] = 0 \/ lo[n] \in Contents(nodes)) /\ (hi[n] = 0 \/ hi[n] \in Contents(nodes))
           Bad == {n \in Live(nodes) : ~C(n)}
<1>1. nodes \in Memory /\ Linked(nodes, root) /\ lo[root] = 0 /\ hi[root] = 0
  BY DEF Tree, Linked, Ordered
<1>2. SUFFICES ASSUME Bad # {} PROVE FALSE
  OBVIOUS
<1>3. PICK n \in Bad : \A x \in Bad : nodes[x].depth <= nodes[n].depth
  <2>1. Bad \in SUBSET Live(nodes)
    OBVIOUS
  <2> HIDE DEF Bad
  <2> QED BY <2>1, <1>1, <1>2, Highest
<1>4. n \in Live(nodes) /\ ~C(n) /\ n # root
  BY <1>1
<1> DEFINE q == nodes[n].parent
           o == nodes[n].pos
<1>5. /\ q \in Live(nodes) /\ o \in 0..Count(q) /\ Count(q) = Size(nodes, q) /\ Count(q) \in Nat
      /\ nodes[q].depth = nodes[n].depth + 1
      /\ lo[n] = Low(nodes, lo, q, o) /\ hi[n] = High(nodes, hi, q, o)
  BY <1>4, BoundsUp
<1> HIDE DEF q, o
<1>6. C(q)
  <2>1. nodes[n].depth \in Nat
    BY <1>1, <1>4, NodeTypes
  <2>2. q \notin Bad
    <3> HIDE DEF Bad
    <3> QED BY <2>1, <1>3, <1>5
  <2> QED BY <2>2, <1>5
<1>7. \A i \in 1..Size(nodes, q) : nodes[q].recs[i] \in Contents(nodes)
  BY <1>1, <1>5, NodeTypes DEF Contents, Holds
<1>8. lo[n] = 0 \/ lo[n] \in Contents(nodes)
  <2>1. o = 0 \/ o \in 1..Size(nodes, q)
    BY <1>5
  <2> QED BY <2>1, <1>5, <1>6, <1>7 DEF Low
<1>9. hi[n] = 0 \/ hi[n] \in Contents(nodes)
  <2>1. o = Size(nodes, q) \/ o + 1 \in 1..Size(nodes, q)
    BY <1>5
  <2> QED BY <2>1, <1>5, <1>6, <1>7 DEF High
<1> QED BY <1>4, <1>8, <1>9

\* No key of the tree is between those beside a place of a leaf.
LEMMA LeafGap ==
    ASSUME NEW lo, NEW hi, Tree(nodes, root, lo, hi), Stocked, NEW i, InLeaf(i)
    PROVE  /\ Before(lo, i) \in Nat /\ After(hi, i) \in Nat
           /\ Before(lo, i) = 0 \/ Before(lo, i) \in Contents(nodes)
           /\ After(hi, i) = 0 \/ (After(hi, i) \in Contents(nodes) /\ Before(lo, i) < After(hi, i))
           /\ \A c \in Contents(nodes) : c <= Before(lo, i) \/ (After(hi, i) # 0 /\ After(hi, i) <= c)
<1> DEFINE n == i[1]
           p == i[2]
           recs == nodes[n].recs
           B == Before(lo, i)
           A == After(hi, i)
<1>1. n \in Live(nodes) /\ p \in Nat /\ p <= Count(n) /\ nodes[n].depth = 0
  BY DEF InLeaf, IsPlace
<1>2. Ordered(nodes, root, lo, hi) /\ nodes \in Memory
  BY DEF Tree, Linked
<1>3. /\ lo[n] \in Nat /\ hi[n] \in Nat /\ Size(nodes, n) \in Nat /\ Count(n) = Size(nodes, n)
      /\ \A j \in 1..Size(nodes, n) : /\ recs[j] \in Nat \ {0} /\ recs[j] \in Keys /\ lo[n] < recs[j]
                                      /\ hi[n] = 0 \/ recs[j] < hi[n]
      /\ \A j, l \in 1..Size(nodes, n) : j < l => recs[j] < recs[l]
  BY <1>1, <1>2, NodeOrder, NodeTypes DEF Count, Size
<1>4. \A j \in 1..Size(nodes, n) : recs[j] \in Contents(nodes)
  BY <1>1, <1>3 DEF Contents, Holds
<1>5. (lo[n] = 0 \/ lo[n] \in Contents(nodes)) /\ (hi[n] = 0 \/ hi[n] \in Contents(nodes))
  BY <1>1, BoundsHeld
<1>6. ToSet(recs) = Under(lo[n], hi[n]) /\ DOMAIN recs = 1..Size(nodes, n)
  <2>1. recs \in Seq(Keys)
    BY <1>1, <1>2, NodeTypes
  <2> QED BY <2>1, <1>1, LeafUnder DEF Lists, Size
<1>7. B = (IF p = 0 THEN lo[n] ELSE recs[p]) /\ A = (IF p = Size(nodes, n) THEN hi[n] ELSE recs[p + 1])
  BY DEF Before, After, Low, High
<1> HIDE DEF n, p, recs, A, B
<1>8. p # 0 => p \in 1..Size(nodes, n)
  BY <1>1, <1>3
<1>9. p # Size(nodes, n) => p + 1 \in 1..Size(nodes, n)
  BY <1>1, <1>3
<1>10. B \in Nat /\ (B = 0 \/ B \in Contents(nodes)) /\ lo[n] <= B
  BY <1>3, <1>4, <1>5, <1>7, <1>8
<1>11. A \in Nat /\ (A = 0 \/ A \in Contents(nodes)) /\ (hi[n] = 0 \/ (A # 0 /\ A <= hi[n]))
  BY <1>3, <1>4, <1>5, <1>7, <1>9
<1>12. A = 0 \/ B < A
  <2>1. CASE p = 0 /\ p = Size(nodes, n)
    <3>1. n = root /\ hi[root] = 0
      BY <2>1, <1>1, <1>2, <1>3 DEF Stocked, Ordered
    <3> QED BY <2>1, <3>1, <1>7
  <2>2. CASE p = 0 /\ p # Size(nodes, n)
    BY <2>2, <1>3, <1>7, <1>9
  <2>3. CASE p # 0 /\ p = Size(nodes, n)
    BY <2>3, <1>3, <1>7, <1>8
  <2>4. CASE p # 0 /\ p # Size(nodes, n)
    <3>1. p < p + 1
      BY <1>1
    <3> QED BY <2>4, <3>1, <1>3, <1>7, <1>8, <1>9
  <2> QED BY <2>1, <2>2, <2>3, <2>4
<1>13. ASSUME NEW c \in Contents(nodes), B < c, A = 0 \/ c < A PROVE FALSE
  <2>1. c \in Nat
    BY KeysOrdered DEF Contents
  <2>2. Within(c, lo[n], hi[n])
    BY <2>1, <1>3, <1>10, <1>11, <1>13 DEF Within
  <2>3. PICK j \in 1..Size(nodes, n) : c = recs[j]
    BY <2>2, <1>6, <1>13 DEF Under, ToSet
  <2>4. ~(j <= p)
    <3>1. j <= p => p # 0 /\ (j = p \/ j < p)
      BY <1>1, <1>3
    <3>2. j <= p => c <= B
      BY <3>1, <2>1, <2>3, <1>3, <1>7, <1>8
    <3> QED BY <3>2, <2>1, <1>10, <1>13
  <2>5. p # Size(nodes, n) /\ (p + 1 = j \/ p + 1 < j)
    BY <2>4, <1>1, <1>3
  <2>6. A <= c /\ A # 0
    BY <2>1, <2>3, <2>5, <1>3, <1>7, <1>9
  <2> QED BY <2>1, <2>6, <1>11, <1>13
<1>14. ASSUME NEW c \in Contents(nodes) PROVE c <= B \/ (A # 0 /\ A <= c)
  <2>1. c \in Nat
    BY KeysOrdered DEF Contents
  <2> QED BY <2>1, <1>10, <1>11, <1>13
<1> QED BY <1>10, <1>11, <1>12, <1>14 DEF A, B

\* The record after a place is the one the iterator climbs to, if there is one.
LEMMA DerefFinds ==
    ASSUME NEW lo, NEW hi, Tree(nodes, root, lo, hi), NEW i, IsPlace(i)
    PROVE  IF After(hi, i) = 0 THEN Deref(i) = <<NoNode, 0>> ELSE AtKey(Deref(i), After(hi, i))
<1>0. nodes \in Memory /\ Linked(nodes, root) /\ hi[root] = 0 /\ nodes[root].parent = NoNode
  BY DEF Tree, Linked, Ordered
<1>1. PICK c : DerefIs(c) /\ Deref(i) = c[i]
  BY <1>0, DerefGoes
<1> DEFINE Right(p) == IF After(hi, p) = 0 THEN c[p] = <<NoNode, 0>> ELSE AtKey(c[p], After(hi, p))
           C(n) == \A p \in 0..Count(n) : Right(<<n, p>>)
           Bad == {n \in Live(nodes) : ~C(n)}
<1>2. ASSUME Bad # {} PROVE FALSE
  <2>1. PICK n \in Bad : \A x \in Bad : nodes[x].depth <= nodes[n].depth
    <3>1. Bad \in SUBSET Live(nodes)
      OBVIOUS
    <3> HIDE DEF Bad
    <3> QED BY <3>1, <1>0, <1>2, Highest
  <2>2. n \in Live(nodes) /\ ~C(n)
    OBVIOUS
  <2>3. PICK p \in 0..Count(n) : ~Right(<<n, p>>)
    BY <2>2
  <2>4. Count(n) \in Nat /\ Count(n) = Size(nodes, n) /\ n # NoNode /\ nodes[n].depth \in Nat
        /\ \A j \in 1..Size(nodes, n) : nodes[n].recs[j] \in Nat \ {0}
    BY <1>0, <2>2, NodeTypes DEF Count, Size
  <2> DEFINE it == <<n, p>>
  <2>5. it \in Live(nodes) \X Nat /\ it[1] = n /\ it[2] = p /\ p \in Nat
    BY <2>2, <2>4
  <2>6. After(hi, it) = High(nodes, hi, n, p)
    BY <2>5 DEF After
  <2>7. CASE p < Count(n)
    <3>1. c[it] = it
      BY <2>2, <2>5, <2>7, <1>1, DerefStep
    <3>2. p + 1 \in 1..Size(nodes, n) /\ After(hi, it) = nodes[n].recs[p + 1]
      BY <2>4, <2>5, <2>6, <2>7 DEF High
    <3> HIDE DEF it
    <3>3. AtKey(c[it], After(hi, it)) /\ After(hi, it) # 0
      BY <3>1, <3>2, <2>4, <2>5, <2>7 DEF AtKey, AtRecord
    <3> QED BY <3>3, <2>3 DEF it
  <2>8. CASE p = Count(n) /\ n = root
    <3>1. After(hi, it) = 0
      BY <2>4, <2>6, <2>8, <1>0 DEF High
    <3>2. c[it] = IF it[2] < Count(it[1]) THEN it
                  ELSE IF nodes[it[1]].parent = NoNode THEN <<NoNode, 0>>
                  ELSE c[<<nodes[it[1]].parent, nodes[it[1]].pos>>]
      BY <2>5, <1>1, UsedLive DEF DerefIs
    <3>3. ~(it[2] < Count(it[1])) /\ nodes[it[1]].parent = NoNode
      BY <2>4, <2>5, <2>8, <1>0
    <3>4. c[it] = <<NoNode, 0>>
      BY <3>2, <3>3
    <3> HIDE DEF it
    <3>5. Right(it)
      BY <3>1, <3>4
    <3> QED BY <3>5, <2>3 DEF it
  <2>9. CASE p = Count(n) /\ n # root
    <3> DEFINE q == nodes[n].parent
               o == nodes[n].pos
               up1 == <<q, o>>
    <3>1. /\ q \in Live(nodes) /\ q # NoNode /\ o \in 0..Count(q) /\ nodes[q].depth = nodes[n].depth + 1
          /\ hi[n] = High(nodes, hi, q, o)
      BY <2>2, <2>9, BoundsUp
    <3>2. c[it] = c[up1]
      BY <2>2, <2>5, <2>4, <2>9, <3>1, <1>1, DerefStep
    <3>3. After(hi, it) = hi[n]
      BY <2>4, <2>6, <2>9 DEF High
    <3>4. up1[1] = q /\ up1[2] = o
      OBVIOUS
    <3> HIDE DEF q, o
    <3>5. After(hi, up1) = hi[n]
      BY <3>1, <3>4 DEF After
    <3>6. C(q)
      <4>1. q \notin Bad
        <5> HIDE DEF Bad
        <5> QED BY <2>1, <2>4, <3>1
      <4> QED BY <4>1, <3>1
    <3>7. Right(up1)
      BY <3>1, <3>6
    <3> HIDE DEF it, up1
    <3>8. Right(it)
      BY <3>2, <3>3, <3>5, <3>7
    <3> QED BY <3>8, <2>3 DEF it
  <2> QED BY <2>3, <2>4, <2>7, <2>8, <2>9
<1>3. i[1] \in Live(nodes) /\ i[2] \in 0..Count(i[1]) /\ i = <<i[1], i[2]>>
  <2>1. i[1] \in Live(nodes) /\ i[2] \in Nat /\ i[2] <= Count(i[1]) /\ i = <<i[1], i[2]>>
    BY DEF IsPlace
  <2>2. Count(i[1]) \in Nat
    BY <2>1, <1>0, NodeTypes DEF Count, Size
  <2> QED BY <2>1, <2>2
<1>4. Right(i)
  <2>1. C(i[1])
    BY <1>2, <1>3
  <2>2. Right(<<i[1], i[2]>>)
    BY <2>1, <1>3
  <2> HIDE DEF Right
  <2> QED BY <2>2, <1>3
<1> QED BY <1>1, <1>4

-----------------------------------------------------------------------------
(* The ends of a branch *)

BeginIs(f) == f = [n \in Used |-> IF nodes[n].depth = 0 THEN <<n, 0>> ELSE f[nodes[n].branches[1]]]
EndIs(f) == f = [n \in Used |-> IF nodes[n].depth = 0 THEN <<n, Count(n)>>
                                ELSE f[nodes[n].branches[Count(n) + 1]]]

\* The first and the last branch of a node.
LEMMA OuterBranches ==
    ASSUME NEW lo, NEW hi, Tree(nodes, root, lo, hi), NEW n \in Live(nodes), nodes[n].depth # 0
    PROVE  LET a == nodes[n].branches[1]
               z == nodes[n].branches[Count(n) + 1]
           IN  /\ a \in Live(nodes) /\ nodes[a].depth + 1 = nodes[n].depth /\ lo[a] = lo[n]
               /\ z \in Live(nodes) /\ nodes[z].depth + 1 = nodes[n].depth /\ hi[z] = hi[n]
               /\ nodes[a].depth \in Nat /\ nodes[z].depth \in Nat /\ nodes[n].depth \in Nat
<1>1. nodes \in Memory /\ Linked(nodes, root) /\ InOrder(nodes, lo, hi, n)
  BY DEF Tree, Linked, Ordered
<1>2. Count(n) \in Nat /\ Count(n) = Size(nodes, n) /\ Width(nodes, n) = Size(nodes, n) + 1
  BY <1>1, NodeTypes, LinkDown DEF Count, Size
<1> DEFINE i == Count(n) + 1
<1>3. 1 \in 1..Width(nodes, n) /\ i \in 1..Width(nodes, n) /\ i - 1 = Count(n) /\ 1 - 1 = 0
  BY <1>2
<1> HIDE DEF i
<1>4. /\ lo[nodes[n].branches[1]] = Low(nodes, lo, n, 0)
      /\ hi[nodes[n].branches[i]] = High(nodes, hi, n, Count(n))
  BY <1>1, <1>3 DEF InOrder
<1>5. Low(nodes, lo, n, 0) = lo[n] /\ High(nodes, hi, n, Count(n)) = hi[n]
  BY <1>2 DEF Low, High
<1>6. \A j \in 1..Width(nodes, n) : nodes[n].branches[j] \in Live(nodes) /\ nodes[nodes[n].branches[j]].depth + 1 = nodes[n].depth
  BY <1>1, LinkDown
<1>7. \A x \in Live(nodes) : nodes[x].depth \in Nat
  BY <1>1, NodeTypes
<1> QED BY <1>3, <1>4, <1>5, <1>6, <1>7 DEF i

\* branch_begin is defined: it goes down.
LEMMA BeginGoes ==
    ASSUME NEW lo, NEW hi, Tree(nodes, root, lo, hi), NEW b
    PROVE  \E f : BeginIs(f) /\ BranchBegin(b) = f[b]
<1> DEFINE U == Used
           B == {n \in U : nodes[n].depth = 0}
           v == [n \in U |-> <<n, 0>>]
           g == [n \in U |-> nodes[n].branches[1]]
           r == [n \in U |-> nodes[n].depth]
<1>1. Shrinks(U, B, g, r)
  <2>1. ASSUME NEW n \in U, n \notin B PROVE g[n] \in U /\ r[g[n]] < r[n]
    BY <2>1, OuterBranches, UsedLive
  <2>2. r \in [U -> Nat]
    BY NodeTypes, UsedLive DEF Tree, Linked
  <2> QED BY <2>1, <2>2 DEF Shrinks
<1>2. PICK f : Goes(U, B, v, g, f)
  <2> HIDE DEF U, B, v, g, r
  <2> QED BY <1>1, GoesOn
<1>3. BeginIs(f)
  BY <1>2 DEF BeginIs, Goes
<1>4. BranchBegin(b) = (CHOOSE h : BeginIs(h))[b]
  BY DEF BranchBegin, BeginIs
<1>5. BeginIs(CHOOSE h : BeginIs(h))
  BY <1>3
<1> QED BY <1>4, <1>5

\* So is branch_end.
LEMMA EndGoes ==
    ASSUME NEW lo, NEW hi, Tree(nodes, root, lo, hi), NEW b
    PROVE  \E f : EndIs(f) /\ BranchEnd(b) = f[b]
<1> DEFINE U == Used
           B == {n \in U : nodes[n].depth = 0}
           v == [n \in U |-> <<n, Count(n)>>]
           g == [n \in U |-> nodes[n].branches[Count(n) + 1]]
           r == [n \in U |-> nodes[n].depth]
<1>1. Shrinks(U, B, g, r)
  <2>1. ASSUME NEW n \in U, n \notin B PROVE g[n] \in U /\ r[g[n]] < r[n]
    BY <2>1, OuterBranches, UsedLive
  <2>2. r \in [U -> Nat]
    BY NodeTypes, UsedLive DEF Tree, Linked
  <2> QED BY <2>1, <2>2 DEF Shrinks
<1>2. PICK f : Goes(U, B, v, g, f)
  <2> HIDE DEF U, B, v, g, r
  <2> QED BY <1>1, GoesOn
<1>3. EndIs(f)
  BY <1>2 DEF EndIs, Goes
<1>4. BranchEnd(b) = (CHOOSE h : EndIs(h))[b]
  BY DEF BranchEnd, EndIs
<1>5. EndIs(CHOOSE h : EndIs(h))
  BY <1>3
<1> QED BY <1>4, <1>5

\* The first place of a branch is in a leaf with the low bound of the branch.
LEMMA BeginIn ==
    ASSUME NEW lo, NEW hi, Tree(nodes, root, lo, hi), NEW b \in Live(nodes)
    PROVE  InLeaf(BranchBegin(b)) /\ Before(lo, BranchBegin(b)) = lo[b]
<1>1. PICK f : BeginIs(f) /\ BranchBegin(b) = f[b]
  BY BeginGoes
<1>2. \A n \in Live(nodes) : nodes[n].depth \in Nat /\ Count(n) \in Nat
  BY NodeTypes DEF Tree, Linked, Count, Size
<1> DEFINE C(n) == InLeaf(f[n]) /\ Before(lo, f[n]) = lo[n]
           Bad == {n \in Live(nodes) : ~C(n)}
           S == {nodes[n].depth : n \in Bad}
<1>3. ASSUME Bad # {} PROVE FALSE
  <2>1. PICK n \in Bad : \A x \in Bad : nodes[n].depth <= nodes[x].depth
    <3>0. Bad \subseteq Live(nodes)
      OBVIOUS
    <3> HIDE DEF Bad
    <3>1. S \in SUBSET Nat /\ S # {}
      BY <1>2, <1>3, <3>0
    <3>2. PICK s \in S : \A t \in S : s <= t
      <4> HIDE DEF S
      <4> QED BY <3>1, LeastNatural
    <3> QED BY <3>2
  <2>2. n \in Live(nodes) /\ ~C(n)
    OBVIOUS
  <2>3. f[n] = IF nodes[n].depth = 0 THEN <<n, 0>> ELSE f[nodes[n].branches[1]]
    BY <2>2, <1>1, UsedLive DEF BeginIs
  <2>4. CASE nodes[n].depth = 0
    <3> DEFINE i == <<n, 0>>
    <3>1. i \in Live(nodes) \X Nat /\ i[1] = n /\ i[2] = 0 /\ 0 <= Count(n) /\ f[n] = i
      BY <2>2, <2>3, <2>4, <1>2
    <3> HIDE DEF i
    <3>2. C(n)
      BY <3>1, <2>4 DEF InLeaf, IsPlace, Before, Low
    <3> QED BY <3>2, <2>2
  <2>5. CASE nodes[n].depth # 0
    <3> DEFINE a == nodes[n].branches[1]
    <3>1. /\ a \in Live(nodes) /\ nodes[a].depth + 1 = nodes[n].depth /\ lo[a] = lo[n]
          /\ nodes[a].depth \in Nat /\ nodes[n].depth \in Nat
      BY <2>2, <2>5, OuterBranches
    <3> HIDE DEF a
    <3>2. a \notin Bad
      <4>1. ~(nodes[n].depth <= nodes[a].depth)
        BY <3>1
      <4> HIDE DEF Bad
      <4> QED BY <4>1, <2>1
    <3>3. C(a) /\ f[n] = f[a]
      BY <3>1, <3>2, <2>3, <2>5 DEF a
    <3>4. C(n)
      BY <3>1, <3>3
    <3> QED BY <3>4, <2>2
  <2> QED BY <2>4, <2>5
<1>4. C(b)
  BY <1>3
<1> QED BY <1>1, <1>4

\* The last place of a branch is the end of a leaf with its high bound.
LEMMA EndIn ==
    ASSUME NEW lo, NEW hi, Tree(nodes, root, lo, hi), NEW b \in Live(nodes)
    PROVE  LET e == BranchEnd(b)
           IN  InLeaf(e) /\ e[2] = Count(e[1]) /\ After(hi, e) = hi[b] /\ (b # root => e[1] # root)
<1>1. PICK f : EndIs(f) /\ BranchEnd(b) = f[b]
  BY EndGoes
<1>0. nodes \in Memory /\ Linked(nodes, root)
  BY DEF Tree, Linked
<1>2. \A n \in Live(nodes) : nodes[n].depth \in Nat /\ Count(n) \in Nat /\ Count(n) = Size(nodes, n)
  BY <1>0, NodeTypes DEF Count, Size
<1> DEFINE C(n) == /\ InLeaf(f[n]) /\ f[n][2] = Count(f[n][1]) /\ After(hi, f[n]) = hi[n]
                   /\ n # root => f[n][1] # root
           Bad == {n \in Live(nodes) : ~C(n)}
           S == {nodes[n].depth : n \in Bad}
<1>3. ASSUME Bad # {} PROVE FALSE
  <2>1. PICK n \in Bad : \A x \in Bad : nodes[n].depth <= nodes[x].depth
    <3>0. Bad \subseteq Live(nodes)
      OBVIOUS
    <3> HIDE DEF Bad
    <3>1. S \in SUBSET Nat /\ S # {}
      BY <1>2, <1>3, <3>0
    <3>2. PICK s \in S : \A t \in S : s <= t
      <4> HIDE DEF S
      <4> QED BY <3>1, LeastNatural
    <3> QED BY <3>2
  <2>2. n \in Live(nodes) /\ ~C(n)
    OBVIOUS
  <2>3. f[n] = IF nodes[n].depth = 0 THEN <<n, Count(n)>> ELSE f[nodes[n].branches[Count(n) + 1]]
    BY <2>2, <1>1, UsedLive DEF EndIs
  <2>4. CASE nodes[n].depth = 0
    <3> DEFINE i == <<n, Count(n)>>
    <3>1. i \in Live(nodes) \X Nat /\ i[1] = n /\ i[2] = Count(n) /\ Count(n) <= Count(n) /\ f[n] = i
          /\ Count(n) = Size(nodes, n)
      BY <2>2, <2>3, <2>4, <1>2
    <3> HIDE DEF i
    <3>2. C(n)
      BY <3>1, <2>4 DEF InLeaf, IsPlace, After, High
    <3> QED BY <3>2, <2>2
  <2>5. CASE nodes[n].depth # 0
    <3> DEFINE z == nodes[n].branches[Count(n) + 1]
    <3>1. /\ z \in Live(nodes) /\ nodes[z].depth + 1 = nodes[n].depth /\ hi[z] = hi[n]
          /\ nodes[z].depth \in Nat /\ nodes[n].depth \in Nat
      BY <2>2, <2>5, OuterBranches
    <3>5. z # root
      <4>1. nodes[n].depth <= nodes[root].depth
        BY <2>2, <1>0, TopHighest
      <4> HIDE DEF z
      <4> QED BY <4>1, <3>1
    <3> HIDE DEF z
    <3>2. z \notin Bad
      <4>1. ~(nodes[n].depth <= nodes[z].depth)
        BY <3>1
      <4> HIDE DEF Bad
      <4> QED BY <4>1, <2>1
    <3>3. C(z) /\ f[n] = f[z]
      BY <3>1, <3>2, <2>3, <2>5 DEF z
    <3>4. C(n)
      BY <3>1, <3>3, <3>5
    <3> QED BY <3>4, <2>2
  <2> QED BY <2>4, <2>5
<1>4. C(b)
  BY <1>3
<1> QED BY <1>1, <1>4

-----------------------------------------------------------------------------
(* The record before a place *)

\* The climb of memtree_prev.
RiseIs(f) ==
    f = [i \in Used \X Nat |-> IF i[2] > 0 THEN i
                               ELSE IF nodes[i[1]].parent = NoNode THEN <<NoNode, 0>>
                               ELSE f[<<nodes[i[1]].parent, nodes[i[1]].pos>>]]

\* What memtree_prev makes of the place behind a record.
BackFrom(e) == IF e[1] = NoNode THEN [it |-> e, key |-> 0]
             ELSE [it |-> <<e[1], e[2] - 1>>, key |-> nodes[e[1]].recs[e[2]]]

\* It is defined: it goes up.
LEMMA RiseGoes ==
    ASSUME Linked(nodes, root), NEW it
    PROVE  \E f : /\ RiseIs(f)
                  /\ PrevOf(it) = BackFrom(IF nodes[it[1]].depth > 0
                                         THEN BranchEnd(nodes[it[1]].branches[it[2] + 1]) ELSE f[it])
<1>0. nodes \in Memory
  BY DEF Linked
<1>1. PICK b \in Nat : \A n \in Live(nodes) : nodes[n].depth <= b
  BY <1>0, DepthBound
<1> DEFINE U == Used \X Nat
           B == {i \in U : i[2] > 0 \/ nodes[i[1]].parent = NoNode}
           v == [i \in U |-> IF i[2] > 0 THEN i ELSE <<NoNode, 0>>]
           g == [i \in U |-> <<nodes[i[1]].parent, nodes[i[1]].pos>>]
           r == [i \in U |-> b - nodes[i[1]].depth]
<1>2. Shrinks(U, B, g, r)
  <2>1. ASSUME NEW i \in U PROVE r[i] \in Nat
    <3>1. i[1] \in Live(nodes)
      BY UsedLive
    <3>2. nodes[i[1]].depth \in Nat /\ nodes[i[1]].depth <= b
      BY <1>0, <1>1, <3>1, NodeTypes
    <3> QED BY <3>2
  <2>2. ASSUME NEW i \in U, i \notin B PROVE g[i] \in U /\ r[g[i]] < r[i]
    <3> DEFINE n == i[1]
               q == nodes[n].parent
    <3>1. n \in Live(nodes) /\ q # NoNode
      BY <2>2, UsedLive
    <3>2. n # root
      BY <3>1 DEF Linked
    <3>3. q \in Live(nodes) /\ nodes[n].pos \in Nat /\ nodes[q].depth = nodes[n].depth + 1
      BY <3>1, <3>2, LinkUp
    <3>4. g[i] \in U /\ g[i][1] = q
      BY <3>3, UsedLive
    <3>5. nodes[n].depth \in Nat /\ nodes[q].depth \in Nat
      BY <3>1, <3>3, <1>0, NodeTypes
    <3>6. r[g[i]] = b - nodes[q].depth /\ r[i] = b - nodes[n].depth
      BY <3>4
    <3> QED BY <3>3, <3>4, <3>5, <3>6
  <2> QED BY <2>1, <2>2 DEF Shrinks
<1>3. PICK f : Goes(U, B, v, g, f)
  <2> HIDE DEF U, B, v, g, r
  <2> QED BY <1>2, GoesOn
<1>4. RiseIs(f)
  BY <1>3 DEF RiseIs, Goes
<1> DEFINE h == CHOOSE j : RiseIs(j)
<1>5. RiseIs(h)
  BY <1>4
<1>6. PrevOf(it) = BackFrom(IF nodes[it[1]].depth > 0
                          THEN BranchEnd(nodes[it[1]].branches[it[2] + 1]) ELSE h[it])
  BY DEF PrevOf, BackFrom, RiseIs
<1> HIDE DEF h
<1> QED BY <1>5, <1>6

\* The climb ends behind the record that is before the place, if there is one.
LEMMA RiseFinds ==
    ASSUME NEW lo, NEW hi, Tree(nodes, root, lo, hi), NEW c, RiseIs(c), NEW i, IsPlace(i)
    PROVE  IF Before(lo, i) = 0 THEN c[i] = <<NoNode, 0>>
           ELSE IsPlace(c[i]) /\ c[i][2] # 0 /\ nodes[c[i][1]].recs[c[i][2]] = Before(lo, i)
<1>0. nodes \in Memory /\ Linked(nodes, root) /\ lo[root] = 0 /\ nodes[root].parent = NoNode
  BY DEF Tree, Linked, Ordered
<1> DEFINE Back(p) == IF Before(lo, p) = 0 THEN c[p] = <<NoNode, 0>>
                      ELSE IsPlace(c[p]) /\ c[p][2] # 0 /\ nodes[c[p][1]].recs[c[p][2]] = Before(lo, p)
           C(n) == \A p \in 0..Count(n) : Back(<<n, p>>)
           Bad == {n \in Live(nodes) : ~C(n)}
<1>2. ASSUME Bad # {} PROVE FALSE
  <2>1. PICK n \in Bad : \A x \in Bad : nodes[x].depth <= nodes[n].depth
    <3>1. Bad \in SUBSET Live(nodes)
      OBVIOUS
    <3> HIDE DEF Bad
    <3> QED BY <3>1, <1>0, <1>2, Highest
  <2>2. n \in Live(nodes) /\ ~C(n)
    OBVIOUS
  <2>3. PICK p \in 0..Count(n) : ~Back(<<n, p>>)
    BY <2>2
  <2>4. Count(n) \in Nat /\ Count(n) = Size(nodes, n) /\ n # NoNode /\ nodes[n].depth \in Nat
        /\ \A j \in 1..Size(nodes, n) : nodes[n].recs[j] \in Nat \ {0}
    BY <1>0, <2>2, NodeTypes DEF Count, Size
  <2> DEFINE it == <<n, p>>
  <2>5. it \in Live(nodes) \X Nat /\ it[1] = n /\ it[2] = p /\ p \in Nat
    BY SMTT(60), <2>2, <2>4
  <2>6. Before(lo, it) = Low(nodes, lo, n, p)
    BY <2>5 DEF Before
  <2>7. c[it] = IF it[2] > 0 THEN it
                ELSE IF nodes[it[1]].parent = NoNode THEN <<NoNode, 0>>
                ELSE c[<<nodes[it[1]].parent, nodes[it[1]].pos>>]
    BY <2>5, RiseIs(c), UsedLive DEF RiseIs
  <2>8. CASE p # 0
    <3>1. c[it] = it
      BY <2>5, <2>7, <2>8
    <3>2. p \in 1..Size(nodes, n) /\ Before(lo, it) = nodes[n].recs[p]
      BY <2>4, <2>5, <2>6, <2>8 DEF Low
    <3> HIDE DEF it
    <3>3. Back(it)
      BY <3>1, <3>2, <2>4, <2>5, <2>8 DEF IsPlace
    <3> QED BY <3>3, <2>3 DEF it
  <2>9. CASE p = 0 /\ n = root
    <3>1. Before(lo, it) = 0
      BY <2>6, <2>9, <1>0 DEF Low
    <3>2. ~(it[2] > 0) /\ nodes[it[1]].parent = NoNode
      BY <2>5, <2>9, <1>0
    <3>3. c[it] = <<NoNode, 0>>
      BY <2>7, <3>2
    <3> HIDE DEF it
    <3>4. Back(it)
      BY <3>1, <3>3
    <3> QED BY <3>4, <2>3 DEF it
  <2>10. CASE p = 0 /\ n # root
    <3> DEFINE q == nodes[n].parent
               o == nodes[n].pos
               up1 == <<q, o>>
    <3>1. /\ q \in Live(nodes) /\ q # NoNode /\ o \in 0..Count(q) /\ nodes[q].depth = nodes[n].depth + 1
          /\ lo[n] = Low(nodes, lo, q, o)
      BY <2>2, <2>10, BoundsUp
    <3>2. c[it] = c[up1]
      BY <2>5, <2>7, <2>10, <3>1
    <3>3. Before(lo, it) = lo[n]
      BY <2>6, <2>10 DEF Low
    <3>4. up1[1] = q /\ up1[2] = o
      OBVIOUS
    <3> HIDE DEF q, o
    <3>5. Before(lo, up1) = lo[n]
      BY <3>1, <3>4 DEF Before
    <3>6. C(q)
      <4>1. q \notin Bad
        <5> HIDE DEF Bad
        <5> QED BY <2>1, <2>4, <3>1
      <4> QED BY <4>1, <3>1
    <3>7. Back(up1)
      BY <3>1, <3>6
    <3> HIDE DEF it, up1
    <3>8. Back(it)
      BY <3>2, <3>3, <3>5, <3>7
    <3> QED BY <3>8, <2>3 DEF it
  <2> QED BY <2>8, <2>9, <2>10
<1>3. i[1] \in Live(nodes) /\ i[2] \in 0..Count(i[1]) /\ i = <<i[1], i[2]>>
  <2>1. i[1] \in Live(nodes) /\ i[2] \in Nat /\ i[2] <= Count(i[1]) /\ i = <<i[1], i[2]>>
    BY DEF IsPlace
  <2>2. Count(i[1]) \in Nat
    BY <2>1, <1>0, NodeTypes DEF Count, Size
  <2> QED BY <2>1, <2>2
<1>4. Back(i)
  <2>1. C(i[1])
    BY <1>2, <1>3
  <2>2. Back(<<i[1], i[2]>>)
    BY <2>1, <1>3
  <2> HIDE DEF Back
  <2> QED BY <2>2, <1>3
<1> QED BY <1>4

-----------------------------------------------------------------------------
(* One step of a cursor *)

\* memtree_find puts the cursor between the keys less than k and the others.
LEMMA FindIn ==
    ASSUME NEW lo, NEW hi, Tree(nodes, root, lo, hi), Stocked, NEW k \in Keys
    PROVE  /\ InLeaf(Find(k))
           /\ \A c \in Contents(nodes) : c <= Before(lo, Find(k)) <=> c < k
<1>0. Linked(nodes, root) /\ nodes \in Memory
  BY DEF Tree, Linked
<1> DEFINE i == Find(k)
           B == Before(lo, i)
           A == After(hi, i)
<1>1. InLeaf(i)
  <2>1. i[1] \in Live(nodes) /\ nodes[i[1]].depth = 0 /\ i[2] \in 0..Size(nodes, i[1])
    BY <1>0, FindLeaf
  <2>2. PICK f : FindIs(k, f) /\ i = f[root]
    BY <1>0, FindGoes
  <2>3. PICK h : FoundIs(k, h)
    BY <1>0, FoundGoes
  <2>4. PICK d : DerefIs(d)
    BY <1>0, DerefGoes
  <2>5. f[root] \in Live(nodes) \X Nat
    <3>1. root \in Live(nodes)
      BY <1>0 DEF Linked
    <3> QED BY <3>1, <1>0, <2>2, <2>3, <2>4, PathDown
  <2>6. i \in Live(nodes) \X Nat
    BY <2>2, <2>5
  <2> HIDE DEF i
  <2>7. Size(nodes, i[1]) \in Nat /\ Count(i[1]) = Size(nodes, i[1])
    BY <2>1, <1>0, NodeTypes DEF Count, Size
  <2> QED BY <2>1, <2>6, <2>7 DEF InLeaf, IsPlace
<1>2. k \in Nat /\ \A c \in Contents(nodes) : c \in Nat
  BY KeysOrdered DEF Contents
<1>3. B \in Nat /\ A \in Nat /\ (A = 0 \/ B < A)
      /\ \A c \in Contents(nodes) : c <= B \/ (A # 0 /\ A <= c)
  <2> HIDE DEF i
  <2> QED BY <1>1, LeafGap
<1>4. B < k /\ (A = 0 \/ k <= A)
  <2>1. CASE ~Found(k)
    <3>1. Within(k, Low(nodes, lo, i[1], i[2]), High(nodes, hi, i[1], i[2]))
      BY <2>1, FindBetween
    <3>2. Within(k, B, A)
      BY <3>1 DEF Before, After
    <3> HIDE DEF A, B
    <3> QED BY <3>2, <1>2, <1>3 DEF Within
  <2>2. CASE Found(k)
    <3>1. AtKey(Deref(i), k)
      BY <2>2, DerefAt
    <3>2. IF A = 0 THEN Deref(i) = <<NoNode, 0>> ELSE AtKey(Deref(i), A)
      <4>1. IsPlace(i)
        BY <1>1 DEF InLeaf
      <4> HIDE DEF i
      <4> QED BY <4>1, DerefFinds
    <3> HIDE DEF i, A, B
    <3>3. A # 0
      <4> SUFFICES ASSUME A = 0 PROVE FALSE
        OBVIOUS
      <4>1. Deref(i) \in Live(nodes) \X Nat /\ Deref(i) = <<NoNode, 0>>
        BY <3>1, <3>2 DEF AtKey, AtRecord
      <4>2. NoNode \in Live(nodes)
        BY <4>1
      <4> QED BY <4>2, <1>0, NodeTypes
    <3>4. A = k
      BY <3>1, <3>2, <3>3 DEF AtKey
    <3> QED BY <3>3, <3>4, <1>2, <1>3
  <2> QED BY <2>1, <2>2
<1> HIDE DEF A, B, i
<1>5. ASSUME NEW c \in Contents(nodes) PROVE c <= B <=> c < k
  BY <1>2, <1>3, <1>4
<1> QED BY <1>1, <1>5 DEF i, B

\* memtree_next gives the key after the cursor and takes the cursor behind it.
LEMMA NextStep ==
    ASSUME NEW lo, NEW hi, Tree(nodes, root, lo, hi), NEW i, InLeaf(i)
    PROVE  /\ NextOf(i).key = After(hi, i)
           /\ After(hi, i) # 0 => InLeaf(NextOf(i).it) /\ Before(lo, NextOf(i).it) = After(hi, i)
<1>0. Linked(nodes, root) /\ nodes \in Memory /\ \A n \in Live(nodes) : InOrder(nodes, lo, hi, n)
  BY DEF Tree, Linked, Ordered
<1> DEFINE A == After(hi, i)
           d == Deref(i)
           n == d[1]
           p == d[2]
<1>1. IF A = 0 THEN d = <<NoNode, 0>> ELSE AtKey(d, A)
  <2>1. IsPlace(i)
    BY DEF InLeaf
  <2> QED BY <2>1, DerefFinds
<1>2. NextOf(i) = IF n = NoNode THEN [it |-> d, key |-> 0]
                  ELSE [it |-> IF nodes[n].depth = 0 THEN <<n, p + 1>>
                               ELSE BranchBegin(nodes[n].branches[p + 2]),
                        key |-> nodes[n].recs[p + 1]]
  BY DEF NextOf
<1> HIDE DEF A, d
<1>3. CASE A = 0
  BY <1>1, <1>2, <1>3 DEF A
<1>4. CASE A # 0
  <2>1. /\ n \in Live(nodes) /\ p \in Nat /\ p < Count(n) /\ nodes[n].recs[p + 1] = A
    BY <1>1, <1>4 DEF AtKey, AtRecord
  <2>2. n # NoNode /\ Count(n) \in Nat /\ Count(n) = Size(nodes, n)
    BY <2>1, <1>0, NodeTypes DEF Count, Size
  <2> HIDE DEF n, p
  <2>3. p + 1 \in Nat /\ p + 1 <= Count(n) /\ p + 1 # 0 /\ (p + 2) - 1 = p + 1
    BY <2>1, <2>2
  <2>4. NextOf(i).key = A
    BY <2>1, <2>2, <1>2
  <2>5. CASE nodes[n].depth = 0
    <3> DEFINE e == <<n, p + 1>>
    <3>1. e \in Live(nodes) \X Nat /\ e[1] = n /\ e[2] = p + 1
      BY <2>1, <2>3
    <3>2. NextOf(i).it = e
      BY <2>2, <2>5, <1>2
    <3> HIDE DEF e
    <3>3. InLeaf(e) /\ Before(lo, e) = A
      BY <3>1, <2>1, <2>3, <2>5 DEF InLeaf, IsPlace, Before, Low
    <3> QED BY <3>2, <3>3, <2>4 DEF A
  <2>6. CASE nodes[n].depth # 0
    <3> DEFINE b == nodes[n].branches[p + 2]
    <3>1. NextOf(i).it = BranchBegin(b)
      BY <2>2, <2>6, <1>2
    <3>2. p + 2 \in 1..Width(nodes, n)
      <4>1. Width(nodes, n) = Size(nodes, n) + 1
        BY <2>1, <2>6, <1>0, LinkDown
      <4> QED BY <4>1, <2>1, <2>2
    <3>3. b \in Live(nodes) /\ lo[b] = Low(nodes, lo, n, p + 1)
      BY <3>2, <2>1, <2>3, <1>0, LinkDown DEF InOrder
    <3> HIDE DEF b
    <3>4. lo[b] = A
      BY <3>3, <2>1, <2>3 DEF Low
    <3>5. InLeaf(BranchBegin(b)) /\ Before(lo, BranchBegin(b)) = A
      BY <3>3, <3>4, BeginIn
    <3> QED BY <3>1, <3>5, <2>4 DEF A
  <2> QED BY <2>5, <2>6
<1> QED BY <1>3, <1>4

\* The keys that are before a place.
Earlier(hi, i) == {c \in Contents(nodes) : After(hi, i) = 0 \/ c < After(hi, i)}

\* memtree_prev gives the last key before the cursor and takes the cursor to it.
LEMMA PrevStep ==
    ASSUME NEW lo, NEW hi, Tree(nodes, root, lo, hi), Stocked, NEW i, IsPlace(i)
    PROVE  LET b == PrevOf(i).key
               e == PrevOf(i).it
           IN  /\ b = 0 => Earlier(hi, i) = {}
               /\ b # 0 => /\ IsPlace(e) /\ After(hi, e) = b
                           /\ b \in Earlier(hi, i) /\ \A c \in Earlier(hi, i) : c <= b
<1>0. Linked(nodes, root) /\ nodes \in Memory /\ \A n \in Live(nodes) : InOrder(nodes, lo, hi, n)
  BY DEF Tree, Linked, Ordered
<1>1. PICK c : /\ RiseIs(c)
               /\ PrevOf(i) = BackFrom(IF nodes[i[1]].depth > 0
                                       THEN BranchEnd(nodes[i[1]].branches[i[2] + 1]) ELSE c[i])
  BY <1>0, RiseGoes
<1>2. i[1] \in Live(nodes) /\ i[2] \in Nat /\ i[2] <= Count(i[1]) /\ nodes[i[1]].depth \in Nat
      /\ Count(i[1]) \in Nat /\ Count(i[1]) = Size(nodes, i[1])
  <2>1. i[1] \in Live(nodes) /\ i[2] \in Nat /\ i[2] <= Count(i[1])
    BY DEF IsPlace
  <2> QED BY <2>1, <1>0, NodeTypes DEF Count, Size
<1>3. \A k \in Contents(nodes) : k \in Nat /\ k # 0
  BY KeysOrdered DEF Contents
\* The leaf place j stands before the same key, and the step goes back from e.
<1> DEFINE Same(j, e) == /\ InLeaf(j) /\ After(hi, j) = After(hi, i) /\ PrevOf(i) = BackFrom(e)
                         /\ IF Before(lo, j) = 0 THEN e = <<NoNode, 0>>
                            ELSE /\ IsPlace(e) /\ e[2] # 0
                                 /\ nodes[e[1]].recs[e[2]] = Before(lo, j)
<1>4. \E j, e : Same(j, e)
  <2>1. CASE nodes[i[1]].depth = 0
    <3>1. InLeaf(i) /\ PrevOf(i) = BackFrom(c[i])
      BY <2>1, <1>1, <1>2 DEF InLeaf
    <3>2. IF Before(lo, i) = 0 THEN c[i] = <<NoNode, 0>>
          ELSE IsPlace(c[i]) /\ c[i][2] # 0 /\ nodes[c[i][1]].recs[c[i][2]] = Before(lo, i)
      BY <1>1, RiseFinds
    <3>3. Same(i, c[i])
      BY <3>1, <3>2
    <3> HIDE DEF Same
    <3> QED BY <3>3
  <2>2. CASE nodes[i[1]].depth # 0
    <3> DEFINE n == i[1]
               p == i[2]
               z == nodes[n].branches[p + 1]
               e == BranchEnd(z)
    <3>1. PrevOf(i) = BackFrom(e)
      BY <2>2, <1>1, <1>2
    <3>2. p + 1 \in 1..Width(nodes, n) /\ (p + 1) - 1 = p
      <4>1. Width(nodes, n) = Size(nodes, n) + 1
        BY <2>2, <1>0, <1>2, LinkDown
      <4> QED BY <4>1, <1>2
    <3>3. z \in Live(nodes) /\ z # root /\ hi[z] = High(nodes, hi, n, p)
      BY <3>2, <1>0, <1>2, LinkDown DEF InOrder
    <3>4. hi[z] = After(hi, i)
      BY <3>3 DEF After
    <3> HIDE DEF z
    <3>5. InLeaf(e) /\ e[2] = Count(e[1]) /\ After(hi, e) = After(hi, i) /\ e[1] # root
      BY <3>3, <3>4, EndIn
    <3> HIDE DEF e, n, p
    <3>6. e[1] \in Live(nodes) /\ IsPlace(e)
      BY <3>5 DEF InLeaf, IsPlace
    <3>7. e[2] # 0 /\ e[2] \in Nat /\ e[2] = Size(nodes, e[1])
      BY <3>5, <3>6, <1>0, NodeTypes DEF Stocked, Count, Size
    <3>8. Before(lo, e) = nodes[e[1]].recs[e[2]]
      BY <3>7 DEF Before, Low
    <3>9. Before(lo, e) # 0
      <4>1. e[2] \in 1..Size(nodes, e[1])
        BY <3>7
      <4> QED BY <4>1, <3>6, <3>8, <1>0, NodeTypes
    <3>10. Same(e, e)
      BY <3>1, <3>5, <3>6, <3>7, <3>8, <3>9
    <3> HIDE DEF Same
    <3> QED BY <3>10
  <2> QED BY <2>1, <2>2
<1>5. PICK j, e : Same(j, e)
  BY <1>4
<1> DEFINE B == Before(lo, j)
           A == After(hi, i)
<1>6. /\ B \in Nat /\ A \in Nat /\ (B = 0 \/ B \in Contents(nodes)) /\ (A = 0 \/ B < A)
      /\ \A k \in Contents(nodes) : k <= B \/ (A # 0 /\ A <= k)
  <2>1. InLeaf(j) /\ After(hi, j) = A
    BY <1>5
  <2> HIDE DEF A, Same
  <2>2. /\ B \in Nat /\ After(hi, j) \in Nat /\ (B = 0 \/ B \in Contents(nodes))
        /\ (After(hi, j) = 0 \/ B < After(hi, j))
        /\ \A k \in Contents(nodes) : k <= B \/ (After(hi, j) # 0 /\ After(hi, j) <= k)
    BY <2>1, LeafGap
  <2> QED BY <2>1, <2>2
<1>7. PrevOf(i) = BackFrom(e)
      /\ (B = 0 => e = <<NoNode, 0>>)
      /\ (B # 0 => IsPlace(e) /\ e[2] # 0 /\ nodes[e[1]].recs[e[2]] = B)
  BY <1>5
<1> HIDE DEF Same, A, B
<1>8. CASE B = 0
  <2>1. PrevOf(i).key = 0
    BY <1>7, <1>8 DEF BackFrom
  <2>2. Earlier(hi, i) = {}
    BY <1>3, <1>6, <1>8 DEF Earlier, A
  <2> QED BY <2>1, <2>2
<1>9. CASE B # 0
  <2>1. e[1] \in Live(nodes) /\ e[2] \in Nat /\ e[2] <= Count(e[1]) /\ e[2] # 0
    BY <1>7, <1>9 DEF IsPlace
  <2>2. e[1] # NoNode /\ Count(e[1]) \in Nat /\ Count(e[1]) = Size(nodes, e[1])
    BY <2>1, <1>0, NodeTypes DEF Count, Size
  <2> DEFINE f == <<e[1], e[2] - 1>>
  <2>3. PrevOf(i).key = B /\ PrevOf(i).it = f
    BY <2>2, <1>7, <1>9 DEF BackFrom
  <2>4. e[2] - 1 \in Nat /\ e[2] - 1 <= Count(e[1]) /\ (e[2] - 1) + 1 = e[2] /\ e[2] - 1 # Size(nodes, e[1])
    BY <2>1, <2>2
  <2>5. f \in Live(nodes) \X Nat /\ f[1] = e[1] /\ f[2] = e[2] - 1
    BY <2>1, <2>4
  <2> HIDE DEF f
  <2>6. IsPlace(f) /\ After(hi, f) = B
    BY <2>4, <2>5, <1>7, <1>9 DEF IsPlace, After, High
  <2>7. B \in Earlier(hi, i)
    BY <1>6, <1>9 DEF Earlier, A
  <2>8. ASSUME NEW k \in Earlier(hi, i) PROVE k <= B
    <3>1. k \in Contents(nodes) /\ k \in Nat /\ (A = 0 \/ k < A)
      BY <2>8, <1>3 DEF Earlier, A
    <3> QED BY <3>1, <1>6
  <2> QED BY <2>3, <2>6, <2>7, <2>8, <1>9
<1> QED BY <1>8, <1>9

-----------------------------------------------------------------------------
(* Keys by rank *)

\* In a finite set only a has as many numbers before it as a has.
LEMMA RankUp ==
    ASSUME NEW S \in SUBSET Nat, IsFiniteSet(S), NEW a \in S
    PROVE  {j \in S : Cardinality({l \in S : l < j}) = Cardinality({l \in S : l < a})} = {a}
<1>1. ASSUME NEW x \in S, NEW y \in S, x < y
      PROVE  Cardinality({l \in S : l < x}) # Cardinality({l \in S : l < y})
  <2> DEFINE X == {l \in S : l < x}
             Y == {l \in S : l < y}
  <2>0. ~(x < x) /\ \A l \in S : l < x => l < y
    BY <1>1
  <2>1. X \cup {x} \in SUBSET Y /\ X \in SUBSET S /\ Y \in SUBSET S /\ x \notin X
    BY <1>1, <2>0, Zenon
  <2>2. X # Y
    BY <2>1
  <2>3. X \in SUBSET Y
    BY <2>1
  <2> HIDE DEF X, Y
  <2>4. IsFiniteSet(Y)
    BY <2>1, FS_Subset
  <2> QED BY <2>2, <2>3, <2>4, FS_Subset DEF X, Y
<1>2. ASSUME NEW j \in S, j # a PROVE Cardinality({l \in S : l < j}) # Cardinality({l \in S : l < a})
  <2>1. j < a \/ a < j
    BY <1>2
  <2> QED BY <2>1, <1>1
<1> QED BY <1>2

\* And only a has as many after it.
LEMMA RankDown ==
    ASSUME NEW S \in SUBSET Nat, IsFiniteSet(S), NEW a \in S
    PROVE  {j \in S : Cardinality({l \in S : l > j}) = Cardinality({l \in S : l > a})} = {a}
<1>1. ASSUME NEW x \in S, NEW y \in S, x < y
      PROVE  Cardinality({l \in S : l > x}) # Cardinality({l \in S : l > y})
  <2> DEFINE X == {l \in S : l > x}
             Y == {l \in S : l > y}
  <2>0. ~(y > y) /\ y > x /\ \A l \in S : l > y => l > x
    BY <1>1
  <2>1. Y \cup {y} \in SUBSET X /\ X \in SUBSET S /\ Y \in SUBSET S /\ y \notin Y
    BY <2>0, Zenon
  <2>2. X # Y
    BY <2>1
  <2>3. Y \in SUBSET X
    BY <2>1
  <2> HIDE DEF X, Y
  <2>4. IsFiniteSet(X)
    BY <2>1, FS_Subset
  <2> QED BY <2>2, <2>3, <2>4, FS_Subset DEF X, Y
<1>2. ASSUME NEW j \in S, j # a PROVE Cardinality({l \in S : l > j}) # Cardinality({l \in S : l > a})
  <2>1. j < a \/ a < j
    BY <1>2
  <2> QED BY <2>1, <1>1
<1> QED BY <1>2

\* The first number of a set after b is the one with all up to b before it.
LEMMA NextRank ==
    ASSUME NEW S \in SUBSET Nat, IsFiniteSet(S), NEW b \in Nat, NEW a \in S, b < a,
           \A c \in S : c <= b \/ a <= c
    PROVE  LET T == {l \in S : l <= b}
           IN  /\ Cardinality({l \in S : l <= a}) = Cardinality(T) + 1
               /\ Min({j \in S : Cardinality({l \in S : l < j}) = Cardinality(T)}) = a
<1> DEFINE T == {l \in S : l <= b}
<1>0. ~(a <= b) /\ \A l \in S : (l < a <=> l <= b) /\ (l <= a <=> (l <= b \/ l = a))
  OBVIOUS
<1>1. /\ {l \in S : l < a} = T /\ {l \in S : l <= a} = T \cup {a} /\ a \notin T /\ T \in SUBSET S
  BY <1>0, Zenon
<1>2. {j \in S : Cardinality({l \in S : l < j}) = Cardinality({l \in S : l < a})} = {a}
  BY RankUp
<1>3. Min({a}) = a
  <2>1. a \in Nat
    OBVIOUS
  <2> QED BY <2>1 DEF Min
<1> HIDE DEF T
<1>4. Cardinality(T \cup {a}) = Cardinality(T) + 1
  <2>1. IsFiniteSet(T)
    BY <1>1, FS_Subset
  <2> QED BY <1>1, <2>1, FS_AddElement
<1>5. Min({j \in S : Cardinality({l \in S : l < j}) = Cardinality(T)}) = a
  BY <1>1, <1>2, <1>3
<1> QED BY <1>1, <1>4, <1>5 DEF T

\* And the last one before h, if there is a number h, the one with all from h on after it.
LEMMA PrevRank ==
    ASSUME NEW S \in SUBSET Nat, IsFiniteSet(S), NEW h \in Nat, NEW a \in S, h = 0 \/ a < h,
           \A c \in S : c <= a \/ (h # 0 /\ h <= c)
    PROVE  LET T == {l \in S : h # 0 /\ h <= l}
           IN  /\ Cardinality({l \in S : a <= l}) = Cardinality(T) + 1
               /\ Max({j \in S : Cardinality({l \in S : l > j}) = Cardinality(T)}) = a
<1> DEFINE T == {l \in S : h # 0 /\ h <= l}
<1>0. /\ ~(h # 0 /\ h <= a)
      /\ \A l \in S : (l > a <=> (h # 0 /\ h <= l)) /\ (a <= l <=> ((h # 0 /\ h <= l) \/ l = a))
  OBVIOUS
<1>1. /\ {l \in S : l > a} = T /\ {l \in S : a <= l} = T \cup {a} /\ a \notin T /\ T \in SUBSET S
  BY <1>0, Zenon
<1>2. {j \in S : Cardinality({l \in S : l > j}) = Cardinality({l \in S : l > a})} = {a}
  BY RankDown
<1>3. Max({a}) = a
  <2>1. a \in Nat
    OBVIOUS
  <2> QED BY <2>1 DEF Max
<1> HIDE DEF T
<1>4. Cardinality(T \cup {a}) = Cardinality(T) + 1
  <2>1. IsFiniteSet(T)
    BY <1>1, FS_Subset
  <2> QED BY <1>1, <2>1, FS_AddElement
<1>5. Max({j \in S : Cardinality({l \in S : l > j}) = Cardinality(T)}) = a
  BY <1>1, <1>2, <1>3
<1> QED BY <1>1, <1>4, <1>5 DEF T

-----------------------------------------------------------------------------
(* A cursor goes over all keys *)

\* The cursor that memtree_find leaves, and the first m steps from there on ...
Start(k) == [it |-> Find(k), key |-> 0]
OnIs(k, m, f) == f = [i \in 0..m |-> IF i = 0 THEN Start(k) ELSE NextOf(f[i - 1].it)]

\* ... and back.
BackIs(k, m, f) == f = [i \in 0..m |-> IF i = 0 THEN Start(k) ELSE PrevOf(f[i - 1].it)]

\* The steps on are defined.
LEMMA OnGoes == ASSUME NEW k, NEW m \in Nat PROVE \E f : OnIs(k, m, f)
<1> DEFINE Bad == {n \in Nat : ~\E f : OnIs(k, n, f)}
<1>1. ASSUME Bad # {} PROVE FALSE
  <2>1. PICK n \in Bad : \A j \in Bad : n <= j
    <3>1. Bad \in SUBSET Nat
      OBVIOUS
    <3> HIDE DEF Bad
    <3> QED BY <1>1, <3>1, LeastNatural
  <2>2. n \in Nat /\ ~\E f : OnIs(k, n, f)
    OBVIOUS
  <2>3. n # 0
    <3> SUFFICES ASSUME n = 0 PROVE FALSE
      OBVIOUS
    <3> DEFINE f == [i \in 0..n |-> Start(k)]
    <3>1. \A i \in 0..n : i = 0
      OBVIOUS
    <3>2. f = [i \in 0..n |-> IF i = 0 THEN Start(k) ELSE NextOf(f[i - 1].it)]
      BY <3>1
    <3> HIDE DEF f
    <3>3. OnIs(k, n, f)
      BY <3>2 DEF OnIs
    <3> QED BY <3>3, <2>2
  <2> DEFINE j == n - 1
  <2>4. j \in Nat /\ j < n /\ j + 1 = n
    BY <2>2, <2>3
  <2>5. PICK f : OnIs(k, j, f)
    BY <2>1, <2>4
  <2> HIDE DEF j
  <2> DEFINE h == [i \in 0..n |-> IF i = 0 THEN Start(k) ELSE NextOf(f[i - 1].it)]
  <2>6. ASSUME NEW i \in 0..n, i # 0 PROVE h[i - 1] = f[i - 1]
    <3>1. i - 1 \in 0..n /\ i - 1 \in 0..j
      BY <2>4, <2>6
    <3>2. f[i - 1] = IF i - 1 = 0 THEN Start(k) ELSE NextOf(f[(i - 1) - 1].it)
      BY <3>1, <2>5 DEF OnIs
    <3> QED BY <3>1, <3>2
  <2>7. h = [i \in 0..n |-> IF i = 0 THEN Start(k) ELSE NextOf(h[i - 1].it)]
    BY <2>6
  <2> HIDE DEF h
  <2>8. OnIs(k, n, h)
    BY <2>7 DEF OnIs
  <2> QED BY <2>2, <2>8
<1> QED BY <1>1

\* So are the steps back.
LEMMA BackGoes == ASSUME NEW k, NEW m \in Nat PROVE \E f : BackIs(k, m, f)
<1> DEFINE Bad == {n \in Nat : ~\E f : BackIs(k, n, f)}
<1>1. ASSUME Bad # {} PROVE FALSE
  <2>1. PICK n \in Bad : \A j \in Bad : n <= j
    <3>1. Bad \in SUBSET Nat
      OBVIOUS
    <3> HIDE DEF Bad
    <3> QED BY <1>1, <3>1, LeastNatural
  <2>2. n \in Nat /\ ~\E f : BackIs(k, n, f)
    OBVIOUS
  <2>3. n # 0
    <3> SUFFICES ASSUME n = 0 PROVE FALSE
      OBVIOUS
    <3> DEFINE f == [i \in 0..n |-> Start(k)]
    <3>1. \A i \in 0..n : i = 0
      OBVIOUS
    <3>2. f = [i \in 0..n |-> IF i = 0 THEN Start(k) ELSE PrevOf(f[i - 1].it)]
      BY <3>1
    <3> HIDE DEF f
    <3>3. BackIs(k, n, f)
      BY <3>2 DEF BackIs
    <3> QED BY <3>3, <2>2
  <2> DEFINE j == n - 1
  <2>4. j \in Nat /\ j < n /\ j + 1 = n
    BY <2>2, <2>3
  <2>5. PICK f : BackIs(k, j, f)
    BY <2>1, <2>4
  <2> HIDE DEF j
  <2> DEFINE h == [i \in 0..n |-> IF i = 0 THEN Start(k) ELSE PrevOf(f[i - 1].it)]
  <2>6. ASSUME NEW i \in 0..n, i # 0 PROVE h[i - 1] = f[i - 1]
    <3>1. i - 1 \in 0..n /\ i - 1 \in 0..j
      BY <2>4, <2>6
    <3>2. f[i - 1] = IF i - 1 = 0 THEN Start(k) ELSE PrevOf(f[(i - 1) - 1].it)
      BY <3>1, <2>5 DEF BackIs
    <3> QED BY <3>1, <3>2
  <2>7. h = [i \in 0..n |-> IF i = 0 THEN Start(k) ELSE PrevOf(h[i - 1].it)]
    BY <2>6
  <2> HIDE DEF h
  <2>8. BackIs(k, n, h)
    BY <2>7 DEF BackIs
  <2> QED BY <2>2, <2>8
<1> QED BY <1>1

\* The keys from k on, and those before.
From(k) == {j \in Contents(nodes) : j >= k}
Less(k) == {j \in Contents(nodes) : j < k}

\* They are finitely many, and no more than there are keys.
LEMMA FewKeys ==
    ASSUME NEW k \in Keys, NEW S, S = From(k) \/ S = Less(k)
    PROVE  /\ S \in SUBSET Nat /\ IsFiniteSet(S) /\ k \in Nat
           /\ Cardinality(S) \in Nat /\ Cardinality(Keys) \in Nat
           /\ Cardinality(S) <= Cardinality(Keys)
<1>1. S \in SUBSET Keys
  BY DEF From, Less, Contents
<1>2. IsFiniteSet(Keys) /\ Keys \subseteq Nat
  BY KeysOrdered
<1>3. IsFiniteSet(S) /\ Cardinality(S) <= Cardinality(Keys)
  BY <1>1, <1>2, FS_Subset
<1>4. Cardinality(S) \in Nat /\ Cardinality(Keys) \in Nat
  BY <1>2, <1>3, FS_CardinalityType
<1> QED BY <1>1, <1>2, <1>3, <1>4

\* After i steps on, the cursor has the i first keys from k on behind it.
LEMMA Onward ==
    ASSUME NEW lo, NEW hi, Tree(nodes, root, lo, hi), Stocked, NEW k \in Keys,
           NEW f, OnIs(k, Cardinality(Keys), f)
    PROVE  LET S == From(k)
           IN  /\ \A i \in 1..Cardinality(S) :
                     f[i].key = Min({j \in S : Cardinality({l \in S : l < j}) = i - 1})
               /\ NextOf(f[Cardinality(S)].it).key = 0
<1> DEFINE S == From(k)
           m == Cardinality(S)
           M == Cardinality(Keys)
<1>1. S \in SUBSET Nat /\ IsFiniteSet(S) /\ k \in Nat /\ m \in Nat /\ M \in Nat /\ m <= M
  BY FewKeys
<1>2. \A c \in Contents(nodes) : c \in Nat
  BY KeysOrdered DEF Contents
<1>3. \A c : c \in S <=> c \in Contents(nodes) /\ k <= c
  BY <1>1, <1>2 DEF From
<1>4. f[0] = Start(k) /\ \A i \in 1..m : f[i] = NextOf(f[i - 1].it)
  <2>1. 0 \in 0..M /\ \A i \in 1..m : i \in 0..M /\ i # 0
    BY <1>1
  <2> QED BY <2>1 DEF OnIs
<1> HIDE DEF S, m, M
<1> DEFINE T(b) == {l \in S : l <= b}
           Passed(it, i) == /\ InLeaf(it) /\ Cardinality(T(Before(lo, it))) = i
                            /\ \A c \in Contents(nodes) : c < k => c <= Before(lo, it)
           C(i) == Passed(f[i].it, i)
           Bad == {i \in 0..m : ~C(i)}
<1>5. Passed(Find(k), 0)
  <2>1. InLeaf(Find(k)) /\ \A c \in Contents(nodes) : c <= Before(lo, Find(k)) <=> c < k
    BY FindIn
  <2>2. T(Before(lo, Find(k))) = {}
    BY <2>1, <1>1, <1>2, <1>3
  <2> QED BY <2>1, <2>2, FS_EmptySet
\* One step: either nothing is left or the next key has rank i.
<1>6. ASSUME NEW it, NEW i \in Nat, Passed(it, i)
      PROVE  LET r == NextOf(it)
             IN  /\ i < m => /\ Passed(r.it, i + 1)
                             /\ r.key = Min({j \in S : Cardinality({l \in S : l < j}) = i})
                 /\ i = m => r.key = 0
  <2> DEFINE B == Before(lo, it)
             A == After(hi, it)
             r == NextOf(it)
  <2>1. /\ B \in Nat /\ A \in Nat /\ (A = 0 \/ (A \in Contents(nodes) /\ B < A))
        /\ \A c \in Contents(nodes) : c <= B \/ (A # 0 /\ A <= c)
    BY <1>6, LeafGap
  <2>2. r.key = A /\ (A # 0 => InLeaf(r.it) /\ Before(lo, r.it) = A)
    BY <1>6, NextStep
  <2>3. Cardinality(T(B)) = i /\ \A c \in Contents(nodes) : c < k => c <= B
    BY <1>6
  <2> HIDE DEF A, B, r, Passed
  <2>4. T(B) \in SUBSET S
    OBVIOUS
  <2>5. CASE A = 0
    <3>1. T(B) = S
      BY <2>1, <2>5, <1>3
    <3>2. i = m
      BY <3>1, <2>3 DEF m
    <3> QED BY <3>2, <2>2, <2>5, <1>1 DEF r
  <2>6. CASE A # 0
    <3>1. A \in S
      <4>1. ~(A < k)
        BY <2>1, <2>3, <2>6
      <4> QED BY <4>1, <2>1, <2>6, <1>1, <1>3
    <3>2. i # m
      <4>1. A \notin T(B)
        BY <2>1, <2>6
      <4>2. T(B) # S
        BY <4>1, <3>1
      <4> HIDE DEF T
      <4> QED BY <4>2, <2>3, <2>4, <1>1, FS_Subset DEF m
    <3>3. B < A /\ \A c \in S : c <= B \/ A <= c
      BY <2>1, <2>6, <1>3
    <3>4. /\ Cardinality({l \in S : l <= A}) = Cardinality(T(B)) + 1
          /\ Min({j \in S : Cardinality({l \in S : l < j}) = Cardinality(T(B))}) = A
      BY <3>1, <3>3, <2>1, <1>1, NextRank
    <3>5. \A c \in Contents(nodes) : c < k => c <= A
      BY <2>1, <2>3, <3>3, <1>2
    <3>6. Passed(r.it, i + 1)
      BY <3>4, <3>5, <2>2, <2>3, <2>6 DEF Passed
    <3>7. r.key = Min({j \in S : Cardinality({l \in S : l < j}) = i})
      BY <3>4, <2>2, <2>3
    <3> QED BY <3>2, <3>6, <3>7 DEF r
  <2> QED BY <2>5, <2>6
<1> HIDE DEF Passed
<1>7. ASSUME Bad # {} PROVE FALSE
  <2>1. PICK i \in Bad : \A j \in Bad : i <= j
    <3>1. Bad \in SUBSET Nat
      BY <1>1
    <3> HIDE DEF Bad
    <3> QED BY <1>7, <3>1, LeastNatural
  <2>2. i \in 0..m /\ ~Passed(f[i].it, i)
    OBVIOUS
  <2>3. i # 0
    BY <2>2, <1>4, <1>5 DEF Start
  <2> DEFINE j == i - 1
  <2>4. j \in 0..m /\ j \in Nat /\ j < m /\ j + 1 = i /\ ~(i <= j) /\ i \in 1..m
    BY <2>2, <2>3, <1>1
  <2>5. j \notin Bad
    <3> HIDE DEF Bad, j
    <3> QED BY <2>1, <2>4
  <2>6. Passed(f[j].it, j)
    BY <2>4, <2>5
  <2>7. f[i] = NextOf(f[j].it)
    BY <2>4, <1>4
  <2> HIDE DEF j, Bad
  <2>8. Passed(NextOf(f[j].it).it, j + 1)
    BY <2>4, <2>6, <1>6
  <2> QED BY <2>2, <2>4, <2>7, <2>8
<1>8. ASSUME NEW i \in 1..m PROVE f[i].key = Min({j \in S : Cardinality({l \in S : l < j}) = i - 1})
  <2>1. i - 1 \in 0..m /\ i - 1 \in Nat /\ i - 1 < m
    BY <1>1
  <2>2. Passed(f[i - 1].it, i - 1)
    BY <2>1, <1>7
  <2>3. f[i] = NextOf(f[i - 1].it)
    BY <1>4
  <2> QED BY <2>1, <2>2, <2>3, <1>6
<1>9. NextOf(f[m].it).key = 0
  <2>1. m \in 0..m
    BY <1>1
  <2>2. Passed(f[m].it, m)
    BY <2>1, <1>7
  <2> QED BY <2>2, <1>1, <1>6
<1> QED BY <1>8, <1>9 DEF S, m

\* After i steps back, the cursor has the i last keys before k ahead of it.
LEMMA Backward ==
    ASSUME NEW lo, NEW hi, Tree(nodes, root, lo, hi), Stocked, NEW k \in Keys,
           NEW f, BackIs(k, Cardinality(Keys), f)
    PROVE  LET S == Less(k)
           IN  /\ \A i \in 1..Cardinality(S) :
                     f[i].key = Max({j \in S : Cardinality({l \in S : l > j}) = i - 1})
               /\ PrevOf(f[Cardinality(S)].it).key = 0
<1> DEFINE S == Less(k)
           m == Cardinality(S)
           M == Cardinality(Keys)
<1>1. S \in SUBSET Nat /\ IsFiniteSet(S) /\ k \in Nat /\ m \in Nat /\ M \in Nat /\ m <= M
  BY FewKeys
<1>2. \A c \in Contents(nodes) : c \in Nat
  BY KeysOrdered DEF Contents
<1>3. \A c : c \in S <=> c \in Contents(nodes) /\ c < k
  BY DEF Less
<1>4. f[0] = Start(k) /\ \A i \in 1..m : f[i] = PrevOf(f[i - 1].it)
  <2>1. 0 \in 0..M /\ \A i \in 1..m : i \in 0..M /\ i # 0
    BY <1>1
  <2> QED BY <2>1 DEF BackIs
<1> HIDE DEF S, m, M
<1> DEFINE T(h) == {l \in S : h # 0 /\ h <= l}
           Passed(it, i) == /\ IsPlace(it) /\ Cardinality(T(After(hi, it))) = i
                            /\ After(hi, it) \in Nat
                            /\ Earlier(hi, it) \in SUBSET S
           C(i) == Passed(f[i].it, i)
           Bad == {i \in 0..m : ~C(i)}
<1>5. Passed(Find(k), 0)
  <2> DEFINE B == Before(lo, Find(k))
             A == After(hi, Find(k))
  <2>1. InLeaf(Find(k)) /\ \A c \in Contents(nodes) : c <= B <=> c < k
    BY FindIn
  <2>2. /\ B \in Nat /\ A \in Nat /\ (A = 0 \/ B < A)
        /\ \A c \in Contents(nodes) : c <= B \/ (A # 0 /\ A <= c)
    BY <2>1, LeafGap
  <2>3. IsPlace(Find(k))
    BY <2>1 DEF InLeaf
  <2>4. Earlier(hi, Find(k)) = {c \in Contents(nodes) : A = 0 \/ c < A}
    BY DEF Earlier
  <2> HIDE DEF A, B
  <2>5. T(A) = {}
    BY <2>1, <2>2, <1>1, <1>2, <1>3
  <2>6. \A c \in Contents(nodes) : A = 0 \/ c < A => c < k
    BY <2>1, <2>2, <1>2
  <2>7. Earlier(hi, Find(k)) \in SUBSET S
    BY <2>4, <2>6, <1>3
  <2> QED BY <2>2, <2>3, <2>5, <2>7, FS_EmptySet DEF A
\* One step: either nothing is left or the key before has rank i.
<1>6. ASSUME NEW it, NEW i \in Nat, Passed(it, i)
      PROVE  LET r == PrevOf(it)
             IN  /\ i < m => /\ Passed(r.it, i + 1)
                             /\ r.key = Max({j \in S : Cardinality({l \in S : l > j}) = i})
                 /\ i = m => r.key = 0
  <2> DEFINE A == After(hi, it)
             E == Earlier(hi, it)
             r == PrevOf(it)
             b == r.key
  <2>1. /\ IsPlace(it) /\ Cardinality(T(A)) = i /\ A \in Nat /\ E \in SUBSET S
    BY <1>6
  <2>2. /\ b = 0 => E = {}
        /\ b # 0 => /\ IsPlace(r.it) /\ After(hi, r.it) = b
                    /\ b \in E /\ \A c \in E : c <= b
    BY <2>1, PrevStep
  <2>3. \A c : c \in E <=> c \in Contents(nodes) /\ (A = 0 \/ c < A)
    BY DEF Earlier
  <2>4. Earlier(hi, r.it) = {c \in Contents(nodes) : After(hi, r.it) = 0 \/ c < After(hi, r.it)}
    BY DEF Earlier
  <2> HIDE DEF A, E, r, Passed
  <2>5. T(A) \in SUBSET S
    OBVIOUS
  <2>6. CASE b = 0
    <3>1. T(A) = S
      BY <2>1, <2>2, <2>3, <2>6, <1>2, <1>3
    <3>2. i = m
      BY <3>1, <2>1 DEF m
    <3> QED BY <3>2, <2>6, <1>1 DEF r
  <2>7. CASE b # 0
    <3>1. b \in S /\ b \in Nat /\ (A = 0 \/ b < A)
      <4>1. b \in E
        BY <2>2, <2>7
      <4> HIDE DEF b
      <4> QED BY <4>1, <2>1, <2>3, <1>1
    <3>2. i # m
      <4>1. b \notin T(A)
        <5> HIDE DEF b
        <5> QED BY <3>1, <2>1
      <4>2. T(A) # S
        BY <4>1, <3>1
      <4> HIDE DEF T
      <4> QED BY <4>2, <2>1, <2>5, <1>1, FS_Subset DEF m
    <3>3. \A c \in S : c <= b \/ (A # 0 /\ A <= c)
      <4>1. \A c \in E : c <= b
        BY <2>2, <2>7
      <4> HIDE DEF b
      <4> QED BY <4>1, <2>1, <2>3, <1>1, <1>3
    <3>4. /\ Cardinality({l \in S : b <= l}) = Cardinality(T(A)) + 1
          /\ Max({j \in S : Cardinality({l \in S : l > j}) = Cardinality(T(A))}) = b
      <4> HIDE DEF b
      <4> QED BY <3>1, <3>3, <2>1, <1>1, PrevRank
    <3>5. After(hi, r.it) = b /\ IsPlace(r.it)
      BY <2>2, <2>7
    <3>6. Earlier(hi, r.it) \in SUBSET S
      <4>1. \A c \in Contents(nodes) : c < b => c < k
        <5>1. b < k /\ b \in Nat
          BY <3>1, <1>3
        <5> HIDE DEF b
        <5> QED BY <5>1, <1>1, <1>2
      <4> QED BY <4>1, <3>5, <2>4, <2>7, <1>3
    <3>7. T(b) = {l \in S : b <= l}
      BY <2>7
    <3>8. Passed(r.it, i + 1)
      BY <3>1, <3>4, <3>5, <3>6, <3>7, <2>1 DEF Passed
    <3>9. b = Max({j \in S : Cardinality({l \in S : l > j}) = i})
      BY <3>4, <2>1
    <3> QED BY <3>2, <3>8, <3>9 DEF r
  <2> QED BY <2>6, <2>7
<1> HIDE DEF Passed
<1>7. ASSUME Bad # {} PROVE FALSE
  <2>1. PICK i \in Bad : \A j \in Bad : i <= j
    <3>1. Bad \in SUBSET Nat
      BY <1>1
    <3> HIDE DEF Bad
    <3> QED BY <1>7, <3>1, LeastNatural
  <2>2. i \in 0..m /\ ~Passed(f[i].it, i)
    OBVIOUS
  <2>3. i # 0
    BY <2>2, <1>4, <1>5 DEF Start
  <2> DEFINE j == i - 1
  <2>4. j \in 0..m /\ j \in Nat /\ j < m /\ j + 1 = i /\ ~(i <= j) /\ i \in 1..m
    BY <2>2, <2>3, <1>1
  <2>5. j \notin Bad
    <3> HIDE DEF Bad, j
    <3> QED BY <2>1, <2>4
  <2>6. Passed(f[j].it, j)
    BY <2>4, <2>5
  <2>7. f[i] = PrevOf(f[j].it)
    BY <2>4, <1>4
  <2> HIDE DEF j, Bad
  <2>8. Passed(PrevOf(f[j].it).it, j + 1)
    BY <2>4, <2>6, <1>6
  <2> QED BY <2>2, <2>4, <2>7, <2>8
<1>8. ASSUME NEW i \in 1..m PROVE f[i].key = Max({j \in S : Cardinality({l \in S : l > j}) = i - 1})
  <2>1. i - 1 \in 0..m /\ i - 1 \in Nat /\ i - 1 < m
    BY <1>1
  <2>2. Passed(f[i - 1].it, i - 1)
    BY <2>1, <1>7
  <2>3. f[i] = PrevOf(f[i - 1].it)
    BY <1>4
  <2> QED BY <2>1, <2>2, <2>3, <1>6
<1>9. PrevOf(f[m].it).key = 0
  <2>1. m \in 0..m
    BY <1>1
  <2>2. Passed(f[m].it, m)
    BY <2>1, <1>7
  <2> QED BY <2>2, <1>1, <1>6
<1> QED BY <1>8, <1>9 DEF S, m

\* Between calls the cursors go over the keys that are held, from any key.
LEMMA CursorsGo == ASSUME Shape, Content PROVE CursorsVisitAll
<1>1. ASSUME pc = "idle", sound, NEW k \in Keys
      PROVE  LET n == Cardinality(Keys)
                 on == CHOOSE f : OnIs(k, n, f)
                 back == CHOOSE f : BackIs(k, n, f)
                 above == {j \in held : j >= k}
                 below == {j \in held : j < k}
             IN  /\ \A i \in 1..Cardinality(above) :
                       on[i].key = Min({j \in above : Cardinality({l \in above : l < j}) = i - 1})
                 /\ NextOf(on[Cardinality(above)].it).key = 0
                 /\ \A i \in 1..Cardinality(below) :
                       back[i].key = Max({j \in below : Cardinality({l \in below : l > j}) = i - 1})
                 /\ PrevOf(back[Cardinality(below)].it).key = 0
  <2>1. /\ MaxElements \in Orders /\ Linked(nodes, root)
        /\ \A x \in Live(nodes) : FilledAt(nodes, root, NoNode, NoNode, x) /\ x # NoNode /\ Size(nodes, x) \in Nat
    BY <1>1, Rests
  <2>2. Sorted(nodes, root) /\ Contents(nodes) = held
    BY <1>1 DEF Content, View, Top
  <2>3. PICK lo, hi : Tree(nodes, root, lo, hi)
    BY <2>1, <2>2 DEF Sorted, Tree
  <2>4. Stocked
    <3>1. ASSUME NEW x \in Live(nodes), x # root PROVE Count(x) # 0
      <4>1. MinElements \in Nat \ {0}
        BY <2>1, Halved
      <4>2. Size(nodes, x) >= MinElements
        BY <2>1, <3>1 DEF FilledAt
      <4>3. Size(nodes, x) \in Nat
        BY <2>1, NodeTypes DEF Linked
      <4> QED BY <4>1, <4>2, <4>3 DEF Count, Size
    <3> QED BY <3>1 DEF Stocked
  <2> DEFINE n == Cardinality(Keys)
             on == CHOOSE f : OnIs(k, n, f)
             back == CHOOSE f : BackIs(k, n, f)
             above == {j \in held : j >= k}
             below == {j \in held : j < k}
  <2>5. n \in Nat
    BY KeysOrdered, FS_CardinalityType
  <2>6. OnIs(k, n, on) /\ BackIs(k, n, back)
    <3>1. (\E f : OnIs(k, n, f)) /\ (\E f : BackIs(k, n, f))
      BY <2>5, OnGoes, BackGoes
    <3> QED BY <3>1
  <2>7. above = From(k) /\ below = Less(k)
    BY <2>2 DEF From, Less
  <2> HIDE DEF on, back, above, below
  <2>8. /\ \A i \in 1..Cardinality(above) :
              on[i].key = Min({j \in above : Cardinality({l \in above : l < j}) = i - 1})
        /\ NextOf(on[Cardinality(above)].it).key = 0
    BY <2>3, <2>4, <2>6, <2>7, Onward
  <2>9. /\ \A i \in 1..Cardinality(below) :
              back[i].key = Max({j \in below : Cardinality({l \in below : l > j}) = i - 1})
        /\ PrevOf(back[Cardinality(below)].it).key = 0
    BY <2>3, <2>4, <2>6, <2>7, Backward
  <2> QED BY <2>8, <2>9 DEF on, back, above, below
<1> QED BY <1>1 DEF CursorsVisitAll, Quiet, OnIs, BackIs, Start

-----------------------------------------------------------------------------
(* The theorems *)

\* As long as no removal has kept a wrong record (`sound`), every turn of every
\* call of memtree.c leaves a search tree of the keys inserted and not removed,
\* whatever it has split and moved; joined, only a node that was left empty.
THEOREM Contained == Spec => []Content
<1>1. Init => Content
  BY NothingHeld
<1>2. Shape /\ Content /\ [Next]_vars => Content'
  BY ContentSteps
<1> QED BY <1>1, <1>2, Invariant, PTL DEF Spec

\* Between calls, and as long as no removal has kept a wrong record, a walk over
\* the tree gives the keys inserted and not removed, in order, and a search finds
\* these and no others: for any keys, order and memory.
THEOREM Held == Spec => []TreeHolds
<1>1. Shape /\ Content => TreeHolds
  BY ContentHolds
<1> QED BY <1>1, Invariant, Contained, PTL

\* In such a tree a cursor set on any key, there or not, goes over all that follow,
\* and over all that precede, in order and once, and then stops.
THEOREM Visited == Spec => []CursorsVisitAll
<1>1. Spec => [](Shape /\ Content)
  BY Invariant, Contained, PTL
<1>2. Shape /\ Content => CursorsVisitAll
  BY CursorsGo
<1> QED BY <1>1, <1>2, PTL
=============================================================================
