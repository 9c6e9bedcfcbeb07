--------------------------- MODULE MemtreeProofs ----------------------------
(***************************************************************************)
(* The B-tree for any order, any keys and any number of nodes: its nodes   *)
(* are linked and filled as they should be after every order of inserts,   *)
(* and of removals that keep no wrong record.  Each part says, of one      *)
(* function of memtree.c, which node has which records, branches, parent   *)
(* and position afterwards (IsInsert, IsCut, IsMoveRight, IsCombine...),   *)
(* shows that the function does that, and from there that parents and      *)
(* children still agree.                                                   *)
(***************************************************************************)
EXTENDS Memtree, FiniteSetTheorems, WellFoundedInduction, TLAPS

-----------------------------------------------------------------------------
(* Trees in a memory ns, with the root top *)

NodeRec == [recs : Seq(Keys), branches : Seq(Node), parent : Node \cup {NoNode},
            pos : Nat, depth : Nat]
Memory == [Node -> NodeRec \cup {Unused}]
Live(ns) == {n \in Node : ns[n] # Unused}
Size(ns, n) == Len(ns[n].recs)
Width(ns, n) == Len(ns[n].branches)

\* An inner node has a branch on both sides of each record, and each branch knows
\* where it is.
Down(ns, top, n) ==
    /\ Width(ns, n) = IF ns[n].depth = 0 THEN 0 ELSE Size(ns, n) + 1
    /\ \A i \in 1..Width(ns, n) :
          LET b == ns[n].branches[i]
          IN  b \in Live(ns) /\ b # top /\ ns[b].parent = n /\ ns[b].pos = i - 1
              /\ ns[b].depth + 1 = ns[n].depth

\* A node other than the root is where it says.
Up(ns, n) ==
    LET q == ns[n].parent
    IN  /\ q \in Live(ns) /\ ns[n].pos + 1 \in 1..Width(ns, q)
        /\ ns[q].branches[ns[n].pos + 1] = n

Linked(ns, top) ==
    /\ ns \in Memory /\ top \in Live(ns) /\ ns[top].parent = NoNode
    /\ \A n \in Live(ns) : Down(ns, top, n)
    /\ \A n \in Live(ns) : n # top => Up(ns, n)

\* The nodes are filled as they should be, but for one that has a record too many
\* and one that lacks one.
Filled(ns, top, over, low) ==
    \A n \in Live(ns) :
        /\ Size(ns, n) <= IF n = over THEN MaxElements + 1 ELSE MaxElements
        /\ n # top /\ n # low => Size(ns, n) >= MinElements
        /\ n # top /\ n = low => Size(ns, n) + 1 >= MinElements
        /\ n = top /\ n # low /\ ns[n].depth > 0 => Size(ns, n) >= 1

\* The node n of N can take the record r at p, with the branch b on its right.
Takes(N, n, b, r, p) ==
    /\ N \in Memory /\ n \in Live(N) /\ r \in Keys /\ p \in 0..Size(N, n)
    /\ Width(N, n) = IF N[n].depth = 0 THEN 0 ELSE Size(N, n) + 1
    /\ \A i \in 1..Width(N, n) : N[n].branches[i] \in Live(N)
    /\ N[n].depth # 0 => b \in Live(N)

\* The tree that an insertion is about to make.
Rooted(ns, top, branch, rec, new) ==
    Place([ns EXCEPT ![new] = [Leaf EXCEPT !.recs = <<rec>>, !.branches = <<top, branch>>,
                                           !.depth = ns[top].depth + 1]], new, 1)
View == IF pc \in {"split", "insert"} THEN NodeInsert(nodes, at[1], up[1], up[2], at[2])
        ELSE IF pc = "root" THEN Rooted(nodes, root, up[1], up[2], Fresh)
        ELSE nodes
Top == IF pc = "root" THEN Fresh ELSE root

\* Where the call is.
Working ==
    /\ pc \in {"idle", "split", "insert", "root", "restore"}
    /\ nodes \in Memory /\ root \in Live(nodes) /\ held \subseteq Keys
    /\ pc \in {"split", "insert"} =>
          /\ Takes(nodes, at[1], up[1], up[2], at[2])
          /\ IF pc = "split" THEN Count(at[1]) = MaxElements ELSE Count(at[1]) < MaxElements
    /\ pc = "root" => Live(nodes) # Node /\ up[1] \in Live(nodes) /\ up[2] \in Keys
    /\ pc = "restore" => at[1] \in Live(nodes) /\ (at[1] = root => nodes[root].depth > 0)
Over == IF pc = "split" THEN at[1] ELSE NoNode
Lacking == IF pc = "restore" THEN at[1] ELSE NoNode

Shape ==
    /\ MaxElements \in Orders /\ sound \in BOOLEAN
    /\ sound => Working /\ Linked(View, Top) /\ Filled(View, Top, Over, Lacking)

-----------------------------------------------------------------------------
(* Sequences, place by place *)

LEMMA ConcatProps ==
    ASSUME NEW S, NEW a \in Seq(S), NEW b \in Seq(S)
    PROVE  /\ a \o b \in Seq(S) /\ Len(a \o b) = Len(a) + Len(b)
           /\ \A i \in 1..Len(a) : (a \o b)[i] = a[i]
           /\ \A i \in 1..Len(b) : (a \o b)[Len(a) + i] = b[i]
OBVIOUS

\* t is s with e put in at i.
Inserted(s, i, e, t) ==
    /\ Len(t) = Len(s) + 1 /\ t[i] = e
    /\ \A j \in 1..(i - 1) : t[j] = s[j]
    /\ \A j \in i..Len(s) : t[j + 1] = s[j]

LEMMA InsertIs ==
    ASSUME NEW S, NEW s \in Seq(S), NEW e \in S, NEW i \in 1..(Len(s) + 1),
           NEW t, t = InsertAt(s, i, e)
    PROVE  t \in Seq(S) /\ Inserted(s, i, e, t)
<1> DEFINE a == SubSeq(s, 1, i - 1)
           b == SubSeq(s, i, Len(s))
<1>1. a \in Seq(S) /\ Len(a) = i - 1 /\ \A j \in 1..(i - 1) : a[j] = s[j]
  OBVIOUS
<1>2. b \in Seq(S) /\ Len(b) = Len(s) + 1 - i /\ \A j \in 1..(Len(s) + 1 - i) : b[j] = s[i + j - 1]
  OBVIOUS
<1>3. t = (a \o <<e>>) \o b
  BY DEF InsertAt
<1> HIDE DEF a, b
<1> DEFINE c == a \o <<e>>
<1>6. c \in Seq(S) /\ Len(c) = i /\ c[i] = e /\ \A l \in 1..(i - 1) : c[l] = s[l]
  BY SMTT(60), <1>1
<1> HIDE DEF c
<1>7. c \o b \in Seq(S) /\ Len(c \o b) = i + (Len(s) + 1 - i)
  <2>1. Len(c \o b) = Len(c) + Len(b) /\ c \o b \in Seq(S)
    BY <1>6, <1>2, ConcatProps
  <2> QED BY <2>1, <1>6, <1>2
<1>4. t \in Seq(S) /\ Len(t) = Len(s) + 1
  BY <1>7, <1>3 DEF c
<1>5. ASSUME NEW j \in 1..(Len(s) + 1)
      PROVE  t[j] = IF j < i THEN s[j] ELSE IF j = i THEN e ELSE s[j - 1]
  <2>1. c \in Seq(S) /\ Len(c) = i /\ c[i] = e /\ \A l \in 1..(i - 1) : c[l] = s[l]
    BY <1>6
  <2>2. CASE j <= i
    <3>1. (c \o b)[j] = c[j]
      BY <2>1, <2>2, <1>2, ConcatProps
    <3>2. t[j] = c[j]
      BY <3>1, <1>3 DEF c
    <3>3. c[j] = IF j < i THEN s[j] ELSE e
      BY <2>1, <2>2
    <3> QED BY <3>2, <3>3, <2>2
  <2>3. CASE j > i
    <3>1. (c \o b)[j] = b[j - i]
      BY <2>1, <2>3, <1>2
    <3>2. j - i \in 1..(Len(s) + 1 - i) /\ i + (j - i) - 1 = j - 1
      BY <2>3
    <3>3. b[j - i] = s[j - 1]
      BY <3>2, <1>2
    <3>4. t[j] = (c \o b)[j]
      BY <1>3 DEF c
    <3>5. ~(j < i) /\ j # i
      BY <2>3
    <3> QED BY <3>1, <3>3, <3>4, <3>5, Zenon
  <2> QED BY <2>2, <2>3
<1>8. t[i] = e /\ \A j \in 1..(i - 1) : t[j] = s[j]
  BY <1>5
<1>9. ASSUME NEW j \in i..Len(s) PROVE t[j + 1] = s[j]
  <2>1. j + 1 \in 1..(Len(s) + 1) /\ ~(j + 1 < i) /\ j + 1 # i /\ (j + 1) - 1 = j
    OBVIOUS
  <2> QED BY <2>1, <1>5
<1> QED BY <1>4, <1>8, <1>9 DEF Inserted

LEMMA RemoveProps ==
    ASSUME NEW S, NEW s \in Seq(S), NEW i \in 1..Len(s)
    PROVE  /\ RemoveAt(s, i) \in Seq(S) /\ Len(RemoveAt(s, i)) = Len(s) - 1
           /\ \A j \in 1..(Len(s) - 1) :
                 RemoveAt(s, i)[j] = IF j < i THEN s[j] ELSE s[j + 1]
<1> DEFINE a == SubSeq(s, 1, i - 1)
           b == SubSeq(s, i + 1, Len(s))
<1>1. a \in Seq(S) /\ Len(a) = i - 1 /\ \A j \in 1..(i - 1) : a[j] = s[j]
  OBVIOUS
<1>2. b \in Seq(S) /\ Len(b) = Len(s) - i /\ \A j \in 1..(Len(s) - i) : b[j] = s[i + j]
  OBVIOUS
<1>3. RemoveAt(s, i) = a \o b
  BY DEF RemoveAt
<1> HIDE DEF a, b
<1>4. RemoveAt(s, i) \in Seq(S) /\ Len(RemoveAt(s, i)) = Len(s) - 1
  BY <1>1, <1>2, <1>3
<1>5. ASSUME NEW j \in 1..(Len(s) - 1) PROVE RemoveAt(s, i)[j] = IF j < i THEN s[j] ELSE s[j + 1]
  <2>1. CASE j < i
    <3>1. j \in 1..Len(a)
      BY <2>1, <1>1
    <3>2. (a \o b)[j] = a[j]
      BY <3>1, <1>1, <1>2, ConcatProps
    <3>3. a[j] = s[j]
      BY <2>1, <1>1
    <3> QED BY <2>1, <3>2, <3>3, <1>3
  <2>2. CASE j >= i
    <3>1. (a \o b)[j] = b[j - (i - 1)]
      BY <2>2, <1>1, <1>2
    <3>2. j - (i - 1) \in 1..(Len(s) - i) /\ i + (j - (i - 1)) = j + 1
      BY <2>2
    <3>3. b[j - (i - 1)] = s[j + 1]
      BY <3>2, <1>2
    <3>4. ~(j < i)
      BY <2>2
    <3> QED BY <3>1, <3>3, <3>4, <1>3, Zenon
  <2> QED BY <2>1, <2>2
<1> QED BY <1>4, <1>5

LEMMA SeqWiden ==
    ASSUME NEW S, NEW T, S \subseteq T, NEW s \in Seq(S) PROVE s \in Seq(T)
OBVIOUS

LEMMA SeqAt ==
    ASSUME NEW S, NEW s \in Seq(S) PROVE \A i \in 1..Len(s) : s[i] \in S
OBVIOUS

LEMMA CutProps ==
    ASSUME NEW S, NEW s \in Seq(S), NEW i \in 1..(Len(s) + 1), NEW j \in Nat, j <= Len(s), i <= j + 1
    PROVE  /\ SubSeq(s, i, j) \in Seq(S) /\ Len(SubSeq(s, i, j)) = j + 1 - i
           /\ \A l \in 1..(j + 1 - i) : SubSeq(s, i, j)[l] = s[i + l - 1]
OBVIOUS

\* A sequence with one more, and with one less.
LEMMA AddProps ==
    ASSUME NEW S, NEW s \in Seq(S), NEW e \in S
    PROVE  /\ Append(s, e) \in Seq(S) /\ Len(Append(s, e)) = Len(s) + 1
           /\ Append(s, e)[Len(s) + 1] = e /\ \A i \in 1..Len(s) : Append(s, e)[i] = s[i]
           /\ <<e>> \o s \in Seq(S) /\ Len(<<e>> \o s) = Len(s) + 1
           /\ (<<e>> \o s)[1] = e /\ \A i \in 1..Len(s) : (<<e>> \o s)[i + 1] = s[i]
OBVIOUS

LEMMA EndProps ==
    ASSUME NEW S, NEW s \in Seq(S), s # <<>>
    PROVE  /\ Len(s) > 0 /\ Head(s) = s[1] /\ Last(s) = s[Len(s)] /\ Head(s) \in S /\ Last(s) \in S
           /\ Tail(s) \in Seq(S) /\ Len(Tail(s)) = Len(s) - 1
           /\ \A i \in 1..(Len(s) - 1) : Tail(s)[i] = s[i + 1]
           /\ Front(s) \in Seq(S) /\ Len(Front(s)) = Len(s) - 1
           /\ \A i \in 1..(Len(s) - 1) : Front(s)[i] = s[i]
<1>1. Len(s) > 0 /\ Len(s) \in Nat /\ Len(s) \in 1..Len(s) /\ 1 \in 1..Len(s)
  OBVIOUS
<1>2. Head(s) = s[1] /\ Last(s) = s[Len(s)] /\ Head(s) \in S /\ Last(s) \in S
  BY <1>1 DEF Last
<1>3. /\ Tail(s) \in Seq(S) /\ Len(Tail(s)) = Len(s) - 1
      /\ \A i \in 1..(Len(s) - 1) : Tail(s)[i] = s[i + 1]
  BY <1>1
<1>4. /\ Front(s) \in Seq(S) /\ Len(Front(s)) = Len(s) - 1
      /\ \A i \in 1..(Len(s) - 1) : Front(s)[i] = s[i]
  <2> DEFINE j == Len(s) - 1
  <2>1. 1 \in 1..(Len(s) + 1) /\ j \in Nat /\ j <= Len(s) /\ 1 <= j + 1 /\ (j + 1) - 1 = j
        /\ \A l \in 1..j : (1 + l) - 1 = l
    BY <1>1
  <2>2. Front(s) = SubSeq(s, 1, j)
    BY DEF Front
  <2> HIDE DEF j
  <2>3. SubSeq(s, 1, j) \in Seq(S) /\ Len(SubSeq(s, 1, j)) = j /\ \A l \in 1..j : SubSeq(s, 1, j)[l] = s[l]
    BY <2>1, CutProps
  <2> QED BY <2>2, <2>3 DEF j
<1> QED BY <1>1, <1>2, <1>3, <1>4

\* A set of naturals that is not empty has a least element.
LEMMA LeastNatural ==
    ASSUME NEW S \in SUBSET Nat, S # {}
    PROVE  \E x \in S : \A y \in S : x <= y
<1> DEFINE R == {ss \in Nat \X Nat : ss[1] < ss[2]}
<1>1. IsWellFoundedOn(R, Nat)
  BY NatLessThanWellFounded DEF OpToRel
<1>2. PICK x \in S : \A y \in S : ~(<<y, x>> \in R)
  <2> HIDE DEF R
  <2> QED BY <1>1, WFMin
<1>3. ASSUME NEW y \in S PROVE x <= y
  <2>1. <<y, x>> \in Nat \X Nat /\ <<y, x>>[1] = y /\ <<y, x>>[2] = x
    OBVIOUS
  <2>2. ~(y < x)
    BY <1>2, <2>1, Zenon
  <2> QED BY <2>2, SMT
<1> QED BY <1>3

LEMMA MinProps ==
    ASSUME NEW S \in SUBSET Nat, S # {}
    PROVE  Min(S) \in S /\ \A y \in S : Min(S) <= y
BY LeastNatural DEF Min

-----------------------------------------------------------------------------
(* Nodes *)

LEMMA NodeTypes ==
    ASSUME NEW ns \in Memory, NEW n \in Live(ns)
    PROVE  /\ n \in Node /\ n # NoNode /\ ns[n] \in NodeRec
           /\ ns[n].recs \in Seq(Keys) /\ ns[n].branches \in Seq(Node)
           /\ ns[n].parent \in Node \cup {NoNode} /\ ns[n].pos \in Nat /\ ns[n].depth \in Nat
           /\ Size(ns, n) \in Nat /\ Width(ns, n) \in Nat
           /\ \A i \in 1..Size(ns, n) : ns[n].recs[i] \in Keys /\ ns[n].recs[i] \in Nat \ {0}
           /\ \A i \in 1..Width(ns, n) : ns[n].branches[i] \in Node
<1>1. n \in Node /\ ns[n] \in NodeRec
  BY DEF Memory, Live
<1>2. n # NoNode
  BY <1>1 DEF Node, NoNode
<1>3. ns[n].recs \in Seq(Keys) /\ ns[n].branches \in Seq(Node)
  BY <1>1 DEF NodeRec
<1>4. \A i \in 1..Size(ns, n) : ns[n].recs[i] \in Keys
  BY <1>3, SeqAt DEF Size
<1>5. \A i \in 1..Width(ns, n) : ns[n].branches[i] \in Node
  BY <1>3, SeqAt DEF Width
<1>6. \A k \in Keys : k \in Nat \ {0}
  BY KeysOrdered
<1> QED BY <1>1, <1>2, <1>3, <1>4, <1>5, <1>6 DEF NodeRec, Size, Width

LEMMA Allocated ==
    ASSUME NEW r \in NodeRec PROVE r # Unused
<1>1. Keys \subseteq Nat /\ Node \subseteq Nat /\ NoNode \in Nat
  BY KeysOrdered, MaxNodesAssumption DEF Node, NoNode
<1>2. r \in [recs : Seq(Nat), branches : Seq(Nat), parent : Nat, pos : Nat, depth : Nat]
  <2>1. r = [recs |-> r.recs, branches |-> r.branches, parent |-> r.parent, pos |-> r.pos,
             depth |-> r.depth]
    BY DEF NodeRec
  <2>2. r.recs \in Seq(Keys) /\ r.branches \in Seq(Node) /\ r.parent \in Node \cup {NoNode}
        /\ r.pos \in Nat /\ r.depth \in Nat
    BY DEF NodeRec
  <2>3. r.recs \in Seq(Nat) /\ r.branches \in Seq(Nat) /\ r.parent \in Nat
    BY <1>1, <2>2, SeqWiden
  <2> QED BY <2>1, <2>2, <2>3
<1> QED BY <1>2, UnusedAssumption

\* W is ns with r for its node n.
IsWrite(ns, n, r, W) ==
    /\ W \in Memory /\ Live(W) = Live(ns) \cup {n} /\ W[n] = r
    /\ \A x \in Node : x # n => W[x] = ns[x]

LEMMA Written ==
    ASSUME NEW ns \in Memory, NEW n \in Node, NEW r \in NodeRec
    PROVE  IsWrite(ns, n, r, [ns EXCEPT ![n] = r])
<1> DEFINE W == [ns EXCEPT ![n] = r]
<1>1. W[n] = r /\ \A x \in Node : x # n => W[x] = ns[x]
  BY DEF Memory
<1>2. W \in Memory
  BY DEF Memory
<1> HIDE DEF W
<1>3. IsWrite(ns, n, r, W)
  BY <1>1, <1>2, Allocated DEF IsWrite, Live
<1> QED BY <1>3 DEF W

LEMMA FieldRecs ==
    ASSUME NEW r \in NodeRec, NEW recs \in Seq(Keys)
    PROVE  /\ [r EXCEPT !.recs = recs] \in NodeRec /\ [r EXCEPT !.recs = recs].recs = recs
           /\ [r EXCEPT !.recs = recs].branches = r.branches
           /\ [r EXCEPT !.recs = recs].parent = r.parent /\ [r EXCEPT !.recs = recs].pos = r.pos
           /\ [r EXCEPT !.recs = recs].depth = r.depth
BY DEF NodeRec

LEMMA FieldBranches ==
    ASSUME NEW r \in NodeRec, NEW branches \in Seq(Node)
    PROVE  /\ [r EXCEPT !.branches = branches] \in NodeRec
           /\ [r EXCEPT !.branches = branches].branches = branches
           /\ [r EXCEPT !.branches = branches].recs = r.recs
           /\ [r EXCEPT !.branches = branches].parent = r.parent
           /\ [r EXCEPT !.branches = branches].pos = r.pos
           /\ [r EXCEPT !.branches = branches].depth = r.depth
BY DEF NodeRec

\* Place changes where nodes say they are, and nothing else.
LEMMA PlaceKeeps ==
    ASSUME NEW ns \in Memory, NEW n \in Live(ns), NEW from \in Nat \ {0},
           \A i \in from..Width(ns, n) : ns[n].branches[i] \in Live(ns)
    PROVE  /\ Place(ns, n, from) \in Memory /\ Live(Place(ns, n, from)) = Live(ns)
           /\ \A x \in Live(ns) : /\ Place(ns, n, from)[x].recs = ns[x].recs
                                  /\ Place(ns, n, from)[x].branches = ns[x].branches
                                  /\ Place(ns, n, from)[x].depth = ns[x].depth
           /\ \A i \in from..Width(ns, n) : \E j \in from..Width(ns, n) :
                 /\ ns[n].branches[j] = ns[n].branches[i]
                 /\ Place(ns, n, from)[ns[n].branches[i]].parent = n
                 /\ Place(ns, n, from)[ns[n].branches[i]].pos = j - 1
           /\ \A x \in Node : (\A i \in from..Width(ns, n) : ns[n].branches[i] # x)
                              => Place(ns, n, from)[x] = ns[x]
<1> DEFINE is(x) == {i \in from..Width(ns, n) : ns[n].branches[i] = x}
           P == Place(ns, n, from)
<1>0. P = [x \in Node |-> IF is(x) = {} THEN ns[x]
                          ELSE [ns[x] EXCEPT !.parent = n, !.pos = Min(is(x)) - 1]]
  BY DEF Place, Width
<1>1. n \in Node /\ Width(ns, n) \in Nat
  BY NodeTypes
<1>2. ASSUME NEW x \in Node, is(x) # {}
      PROVE  \E i \in from..Width(ns, n) :
                ns[n].branches[i] = x /\ P[x] = [ns[x] EXCEPT !.parent = n, !.pos = i - 1]
  <2>1. is(x) \in SUBSET Nat
    BY <1>1
  <2>2. Min(is(x)) \in is(x)
    <3> HIDE DEF is
    <3> QED BY <2>1, <1>2, MinProps
  <2>3. P[x] = [ns[x] EXCEPT !.parent = n, !.pos = Min(is(x)) - 1]
    BY <1>0, <1>2
  <2> QED BY <2>2, <2>3
<1>3. ASSUME NEW x \in Node, is(x) = {} PROVE P[x] = ns[x]
  BY <1>0, <1>3
<1>4. ASSUME NEW x \in Node, is(x) # {}
      PROVE  /\ x \in Live(ns) /\ P[x] \in NodeRec /\ P[x].recs = ns[x].recs
             /\ P[x].branches = ns[x].branches /\ P[x].depth = ns[x].depth
             /\ \E i \in from..Width(ns, n) : ns[n].branches[i] = x /\ P[x].parent = n /\ P[x].pos = i - 1
  <2>1. PICK i \in from..Width(ns, n) :
                ns[n].branches[i] = x /\ P[x] = [ns[x] EXCEPT !.parent = n, !.pos = i - 1]
    BY <1>2, <1>4
  <2>2. x \in Live(ns) /\ ns[x] \in NodeRec
    BY <2>1, NodeTypes
  <2>3. i - 1 \in Nat
    BY <1>1
  <2> HIDE DEF P, is
  <2> QED BY <2>1, <2>2, <2>3, <1>1 DEF NodeRec
<1> HIDE DEF P
<1>5. P \in Memory
  <2>1. \A x \in Node : P[x] \in NodeRec \cup {Unused}
    BY <1>3, <1>4 DEF Memory
  <2> HIDE DEF is
  <2> QED BY <1>0, <2>1 DEF Memory
<1>6. Live(P) = Live(ns)
  <2>1. ASSUME NEW x \in Node PROVE P[x] = Unused <=> ns[x] = Unused
    BY <1>3, <1>4, Allocated DEF Live
  <2> QED BY <2>1 DEF Live
<1>7. ASSUME NEW x \in Live(ns)
      PROVE  P[x].recs = ns[x].recs /\ P[x].branches = ns[x].branches /\ P[x].depth = ns[x].depth
  BY <1>3, <1>4, <1>7 DEF Live
<1>8. ASSUME NEW i \in from..Width(ns, n)
      PROVE  \E j \in from..Width(ns, n) : /\ ns[n].branches[j] = ns[n].branches[i]
                                           /\ P[ns[n].branches[i]].parent = n
                                           /\ P[ns[n].branches[i]].pos = j - 1
  <2>1. ns[n].branches[i] \in Node /\ is(ns[n].branches[i]) # {}
    BY DEF Live
  <2> QED BY <2>1, <1>4
<1>9. ASSUME NEW x \in Node, \A i \in from..Width(ns, n) : ns[n].branches[i] # x PROVE P[x] = ns[x]
  BY <1>3, <1>9
<1> QED BY <1>5, <1>6, <1>7, <1>8, <1>9 DEF P

\* What stands once in the branches is placed there.
LEMMA PlaceProps ==
    ASSUME NEW ns \in Memory, NEW n \in Live(ns), NEW from \in Nat \ {0},
           \A i \in from..Width(ns, n) : ns[n].branches[i] \in Live(ns),
           \A i, j \in from..Width(ns, n) : ns[n].branches[i] = ns[n].branches[j] => i = j
    PROVE  \A i \in from..Width(ns, n) :
                 /\ Place(ns, n, from)[ns[n].branches[i]].parent = n
                 /\ Place(ns, n, from)[ns[n].branches[i]].pos = i - 1
<1> SUFFICES ASSUME NEW i \in from..Width(ns, n)
             PROVE  /\ Place(ns, n, from)[ns[n].branches[i]].parent = n
                    /\ Place(ns, n, from)[ns[n].branches[i]].pos = i - 1
  OBVIOUS
<1>1. PICK j \in from..Width(ns, n) :
                 /\ ns[n].branches[j] = ns[n].branches[i]
                 /\ Place(ns, n, from)[ns[n].branches[i]].parent = n
                 /\ Place(ns, n, from)[ns[n].branches[i]].pos = j - 1
  BY PlaceKeeps
<1> QED BY <1>1

-----------------------------------------------------------------------------
(* What Linked says *)

LEMMA LinkDown ==
    ASSUME NEW V, NEW top, Linked(V, top), NEW n \in Live(V)
    PROVE  /\ Width(V, n) = IF V[n].depth = 0 THEN 0 ELSE Size(V, n) + 1
           /\ \A i \in 1..Width(V, n) : /\ V[n].branches[i] \in Live(V) /\ V[n].branches[i] # top
                                        /\ V[V[n].branches[i]].parent = n
                                        /\ V[V[n].branches[i]].pos = i - 1
                                        /\ V[V[n].branches[i]].depth + 1 = V[n].depth
           /\ \A i, j \in 1..Width(V, n) : V[n].branches[i] = V[n].branches[j] => i = j
<1>1. Down(V, top, n)
  BY DEF Linked
<1>2. ASSUME NEW i \in 1..Width(V, n)
      PROVE  /\ V[n].branches[i] \in Live(V) /\ V[n].branches[i] # top
             /\ V[V[n].branches[i]].parent = n
             /\ V[V[n].branches[i]].pos = i - 1
             /\ V[V[n].branches[i]].depth + 1 = V[n].depth
  BY <1>1 DEF Down
<1>3. ASSUME NEW i \in 1..Width(V, n), NEW j \in 1..Width(V, n), V[n].branches[i] = V[n].branches[j]
      PROVE  i = j
  <2>1. i - 1 = j - 1
    BY <1>2, <1>3
  <2> QED BY <2>1
<1>4. Width(V, n) = IF V[n].depth = 0 THEN 0 ELSE Size(V, n) + 1
  BY <1>1 DEF Down
<1> QED BY <1>2, <1>3, <1>4

LEMMA LinkUp ==
    ASSUME NEW V, NEW top, Linked(V, top), NEW x \in Live(V), x # top
    PROVE  /\ V[x].parent \in Live(V) /\ V[x].pos \in Nat
           /\ V[x].pos + 1 \in 1..Width(V, V[x].parent)
           /\ V[V[x].parent].branches[V[x].pos + 1] = x
           /\ V[V[x].parent].depth = V[x].depth + 1
           /\ Width(V, V[x].parent) = Size(V, V[x].parent) + 1
           /\ V[V[x].parent].depth # 0 /\ V[x].parent # x
<1>1. Up(V, x) /\ V \in Memory
  BY DEF Linked
<1>2. V[x].parent \in Live(V) /\ V[x].pos + 1 \in 1..Width(V, V[x].parent)
      /\ V[V[x].parent].branches[V[x].pos + 1] = x
  BY <1>1 DEF Up
<1>3. V[x].depth + 1 = V[V[x].parent].depth
  BY <1>2, LinkDown
<1>4. V[x].depth \in Nat /\ V[x].pos \in Nat /\ V[V[x].parent].depth \in Nat
  BY <1>1, <1>2, NodeTypes
<1>5. V[V[x].parent].depth # 0
  BY <1>3, <1>4
<1>6. Width(V, V[x].parent) = Size(V, V[x].parent) + 1
  BY <1>2, <1>5, LinkDown
<1>7. V[x].parent # x
  BY <1>3, <1>4
<1> QED BY <1>2, <1>3, <1>4, <1>5, <1>6, <1>7

-----------------------------------------------------------------------------
(* A record more or less in a leaf *)

LEMMA LinksKept ==
    ASSUME NEW V, NEW W \in Memory, NEW top, Linked(V, top), Live(W) = Live(V),
           \A x \in Live(V) : /\ W[x].branches = V[x].branches /\ W[x].parent = V[x].parent
                              /\ W[x].pos = V[x].pos /\ W[x].depth = V[x].depth
                              /\ V[x].depth = 0 \/ Size(W, x) = Size(V, x)
    PROVE  Linked(W, top)
<1>1. \A x \in Live(V) : Width(W, x) = Width(V, x)
  BY DEF Width
<1>2. ASSUME NEW n \in Live(V) PROVE Down(W, top, n)
  <2>1. Down(V, top, n)
    BY DEF Linked
  <2>2. Width(W, n) = IF W[n].depth = 0 THEN 0 ELSE Size(W, n) + 1
    BY <1>1, <2>1 DEF Down
  <2>3. ASSUME NEW i \in 1..Width(W, n)
        PROVE  LET b == W[n].branches[i]
               IN  b \in Live(W) /\ b # top /\ W[b].parent = n /\ W[b].pos = i - 1
                   /\ W[b].depth + 1 = W[n].depth
    <3>1. W[n].branches[i] = V[n].branches[i] /\ i \in 1..Width(V, n)
      BY <1>1
    <3> QED BY <2>1, <3>1 DEF Down
  <2> QED BY <2>2, <2>3 DEF Down
<1>3. ASSUME NEW n \in Live(V), n # top PROVE Up(W, n)
  <2>1. Up(V, n)
    BY <1>3 DEF Linked
  <2> QED BY <1>1, <2>1 DEF Up
<1> QED BY <1>2, <1>3 DEF Linked

-----------------------------------------------------------------------------
(* A node is split *)

\* W is V with the node a cut behind m records: the next goes up to its parent q,
\* behind its place o there, and the others to the new node f.
IsSplit(V, W, a, f, q, o, m) ==
    /\ a \in Live(V) /\ q \in Live(V) /\ V[a].parent = q /\ V[a].pos = o
    /\ m \in Nat /\ m < Size(V, a)
    /\ f \in Node /\ f \notin Live(V) /\ W \in Memory /\ Live(W) = Live(V) \cup {f}
    /\ Size(W, a) = m /\ \A i \in 1..m : W[a].recs[i] = V[a].recs[i]
    /\ Size(W, f) = Size(V, a) - m - 1
    /\ \A i \in 1..(Size(V, a) - m - 1) : W[f].recs[i] = V[a].recs[m + 1 + i]
    /\ Size(W, q) = Size(V, q) + 1
    /\ \A i \in 1..o : W[q].recs[i] = V[q].recs[i]
    /\ W[q].recs[o + 1] = V[a].recs[m + 1]
    /\ \A i \in (o + 1)..Size(V, q) : W[q].recs[i + 1] = V[q].recs[i]
    /\ Width(W, a) = IF V[a].depth = 0 THEN 0 ELSE m + 1
    /\ \A i \in 1..Width(W, a) : W[a].branches[i] = V[a].branches[i]
    /\ Width(W, f) = IF V[a].depth = 0 THEN 0 ELSE Size(V, a) - m
    /\ \A i \in 1..Width(W, f) : W[f].branches[i] = V[a].branches[m + 1 + i]
    /\ Width(W, q) = Width(V, q) + 1
    /\ \A i \in 1..(o + 1) : W[q].branches[i] = V[q].branches[i]
    /\ W[q].branches[o + 2] = f
    /\ \A i \in (o + 2)..Width(V, q) : W[q].branches[i + 1] = V[q].branches[i]
    /\ \A x \in Live(V) : x # a /\ x # q => W[x].recs = V[x].recs /\ W[x].branches = V[x].branches
    /\ \A x \in Live(V) :
          /\ W[x].depth = V[x].depth
          /\ W[x].parent = IF V[x].parent = a /\ V[x].pos > m THEN f ELSE V[x].parent
          /\ W[x].pos = IF V[x].parent = a /\ V[x].pos > m THEN V[x].pos - (m + 1)
                        ELSE IF V[x].parent = q /\ V[x].pos > o THEN V[x].pos + 1
                        ELSE V[x].pos
    /\ W[f].depth = V[a].depth /\ W[f].parent = q /\ W[f].pos = o + 1

\* What IsSplit means for a and q.
LEMMA SplitPlaces ==
    ASSUME NEW V, NEW W, NEW top, NEW a, NEW f, NEW q, NEW o, NEW m,
           Linked(V, top), IsSplit(V, W, a, f, q, o, m)
    PROVE  /\ V \in Memory /\ a # top /\ a # q /\ f # a /\ f # q /\ o \in Nat /\ q # NoNode
           /\ o + 1 \in 1..Width(V, q) /\ V[q].branches[o + 1] = a
           /\ V[q].depth = V[a].depth + 1 /\ V[q].depth # 0 /\ Width(V, q) = Size(V, q) + 1
           /\ Size(V, q) \in Nat /\ Size(V, a) \in Nat
           /\ Width(V, a) = IF V[a].depth = 0 THEN 0 ELSE Size(V, a) + 1
<1>1. V \in Memory /\ a \in Live(V) /\ q \in Live(V) /\ V[a].parent = q /\ V[a].pos = o
      /\ f \notin Live(V) /\ V[top].parent = NoNode
  BY DEF IsSplit, Linked
<1>2. q # NoNode /\ V[a].depth \in Nat /\ V[q].depth \in Nat /\ o \in Nat
      /\ Size(V, q) \in Nat /\ Size(V, a) \in Nat
  BY <1>1, NodeTypes
<1>3. a # top
  BY <1>1, <1>2
<1>4. Up(V, a)
  BY <1>1, <1>3 DEF Linked
<1>5. Down(V, top, q) /\ Down(V, top, a)
  BY <1>1 DEF Linked
<1>6. o + 1 \in 1..Width(V, q) /\ V[q].branches[o + 1] = a
  BY <1>1, <1>4 DEF Up
<1>7. V[a].depth + 1 = V[q].depth
  BY <1>5, <1>6 DEF Down
<1>8. V[q].depth # 0 /\ a # q
  BY <1>2, <1>7
<1> QED BY <1>1, <1>2, <1>3, <1>5, <1>6, <1>7, <1>8 DEF Down

LEMMA SplitLinked ==
    ASSUME NEW V, NEW W, NEW top, NEW a, NEW f, NEW q, NEW o, NEW m,
           Linked(V, top), IsSplit(V, W, a, f, q, o, m)
    PROVE  Linked(W, top)
<1>1. /\ V \in Memory /\ a # top /\ a # q /\ f # a /\ f # q /\ o \in Nat /\ q # NoNode
      /\ o + 1 \in 1..Width(V, q) /\ V[q].branches[o + 1] = a
      /\ V[q].depth = V[a].depth + 1 /\ V[q].depth # 0 /\ Width(V, q) = Size(V, q) + 1
      /\ Size(V, q) \in Nat /\ Size(V, a) \in Nat
      /\ Width(V, a) = IF V[a].depth = 0 THEN 0 ELSE Size(V, a) + 1
  BY SplitPlaces
<1>2. a \in Live(V) /\ q \in Live(V) /\ W \in Memory /\ Live(W) = Live(V) \cup {f} /\ f \notin Live(V)
      /\ m \in Nat /\ m < Size(V, a) /\ V[a].parent = q /\ V[a].pos = o
  BY DEF IsSplit
<1>3. ASSUME NEW n \in Live(V), NEW i \in 1..Width(V, n)
      PROVE  LET b == V[n].branches[i]
             IN  b \in Live(V) /\ b # top /\ V[b].parent = n /\ V[b].pos = i - 1
                 /\ V[b].depth + 1 = V[n].depth
  BY DEF Linked, Down
<1>4. ASSUME NEW x \in Live(V)
      PROVE  /\ W[x].depth = V[x].depth
             /\ W[x].parent = IF V[x].parent = a /\ V[x].pos > m THEN f ELSE V[x].parent
             /\ W[x].pos = IF V[x].parent = a /\ V[x].pos > m THEN V[x].pos - (m + 1)
                           ELSE IF V[x].parent = q /\ V[x].pos > o THEN V[x].pos + 1
                           ELSE V[x].pos
  BY DEF IsSplit
<1>5. W[f].depth = V[a].depth /\ W[f].parent = q /\ W[f].pos = o + 1
  BY DEF IsSplit
<1>6. Down(W, top, a)
  <2>1. Size(W, a) = m /\ Width(W, a) = (IF V[a].depth = 0 THEN 0 ELSE m + 1)
        /\ \A i \in 1..Width(W, a) : W[a].branches[i] = V[a].branches[i]
    BY DEF IsSplit
  <2>2. ASSUME NEW i \in 1..Width(W, a)
        PROVE  LET b == W[a].branches[i]
               IN  b \in Live(W) /\ b # top /\ W[b].parent = a /\ W[b].pos = i - 1
                   /\ W[b].depth + 1 = W[a].depth
    <3>1. i \in 1..Width(V, a) /\ i - 1 <= m /\ W[a].branches[i] = V[a].branches[i]
      BY <1>1, <1>2, <2>1
    <3>2. PICK b \in Live(V) : b = V[a].branches[i] /\ b # top /\ V[b].parent = a /\ V[b].pos = i - 1
                               /\ V[b].depth + 1 = V[a].depth
      BY <1>2, <1>3, <3>1
    <3>3. W[b].parent = a /\ W[b].pos = i - 1 /\ W[b].depth + 1 = W[a].depth
      BY <1>1, <1>2, <1>4, <3>1, <3>2
    <3> QED BY <1>2, <3>1, <3>2, <3>3
  <2>3. Width(W, a) = IF W[a].depth = 0 THEN 0 ELSE Size(W, a) + 1
    BY <2>1, <1>4, <1>2
  <2> QED BY <2>2, <2>3 DEF Down
<1>7. Down(W, top, f)
  <2>1. Size(W, f) = Size(V, a) - m - 1 /\ Width(W, f) = (IF V[a].depth = 0 THEN 0 ELSE Size(V, a) - m)
        /\ \A i \in 1..Width(W, f) : W[f].branches[i] = V[a].branches[m + 1 + i]
    BY DEF IsSplit
  <2>2. ASSUME NEW i \in 1..Width(W, f)
        PROVE  LET b == W[f].branches[i]
               IN  b \in Live(W) /\ b # top /\ W[b].parent = f /\ W[b].pos = i - 1
                   /\ W[b].depth + 1 = W[f].depth
    <3>1. m + 1 + i \in 1..Width(V, a) /\ (m + 1 + i) - 1 > m /\ W[f].branches[i] = V[a].branches[m + 1 + i]
          /\ ((m + 1 + i) - 1) - (m + 1) = i - 1
      BY <1>1, <1>2, <2>1
    <3>2. PICK b \in Live(V) : b = V[a].branches[m + 1 + i] /\ b # top /\ V[b].parent = a
                               /\ V[b].pos = (m + 1 + i) - 1 /\ V[b].depth + 1 = V[a].depth
      BY <1>2, <1>3, <3>1
    <3>3. W[b].parent = f /\ W[b].pos = i - 1 /\ W[b].depth + 1 = W[f].depth
      BY <1>1, <1>2, <1>4, <1>5, <3>1, <3>2
    <3> QED BY <1>2, <3>1, <3>2, <3>3
  <2>3. Width(W, f) = IF W[f].depth = 0 THEN 0 ELSE Size(W, f) + 1
    BY <2>1, <1>5, <1>1, <1>2
  <2> QED BY <2>2, <2>3 DEF Down
<1>8. Down(W, top, q)
  <2>1. Size(W, q) = Size(V, q) + 1 /\ Width(W, q) = Width(V, q) + 1
        /\ (\A i \in 1..(o + 1) : W[q].branches[i] = V[q].branches[i])
        /\ W[q].branches[o + 2] = f
        /\ \A i \in (o + 2)..Width(V, q) : W[q].branches[i + 1] = V[q].branches[i]
    BY DEF IsSplit
  <2>2. ASSUME NEW i \in 1..Width(W, q)
        PROVE  LET b == W[q].branches[i]
               IN  b \in Live(W) /\ b # top /\ W[b].parent = q /\ W[b].pos = i - 1
                   /\ W[b].depth + 1 = W[q].depth
    <3>1. CASE i <= o + 1
      <4>1. i \in 1..Width(V, q) /\ ~(i - 1 > o) /\ W[q].branches[i] = V[q].branches[i]
        BY <1>1, <2>1, <3>1
      <4>2. PICK b \in Live(V) : b = V[q].branches[i] /\ b # top /\ V[b].parent = q
                                 /\ V[b].pos = i - 1 /\ V[b].depth + 1 = V[q].depth
        BY <1>2, <1>3, <4>1
      <4>3. W[b].parent = q /\ W[b].pos = i - 1 /\ W[b].depth + 1 = W[q].depth
        BY <1>1, <1>2, <1>4, <4>1, <4>2
      <4> QED BY <1>2, <4>1, <4>2, <4>3
    <3>2. CASE i = o + 2
      <4>1. f # top
        BY <1>2 DEF Linked
      <4> QED BY <1>1, <1>2, <1>4, <1>5, <2>1, <3>2, <4>1
    <3>3. CASE i > o + 2
      <4>1. i - 1 \in (o + 2)..Width(V, q) /\ i - 1 \in 1..Width(V, q) /\ (i - 1) + 1 = i
        BY <1>1, <2>1, <3>3
      <4>2. W[q].branches[i] = V[q].branches[i - 1]
        BY <2>1, <4>1
      <4>3. PICK b \in Live(V) : b = V[q].branches[i - 1] /\ b # top /\ V[b].parent = q
                                 /\ V[b].pos = (i - 1) - 1 /\ V[b].depth + 1 = V[q].depth
        BY <1>2, <1>3, <4>1
      <4>4. W[b].parent = q /\ W[b].pos = i - 1 /\ W[b].depth + 1 = W[q].depth
        BY <1>1, <1>2, <1>4, <4>1, <4>3, <3>3
      <4> QED BY <1>2, <4>2, <4>3, <4>4
    <3> QED BY <3>1, <3>2, <3>3, <1>1
  <2>3. Width(W, q) = IF W[q].depth = 0 THEN 0 ELSE Size(W, q) + 1
    BY <2>1, <1>4, <1>1, <1>2
  <2> QED BY <2>2, <2>3 DEF Down
<1>9. ASSUME NEW n \in Live(V), n # a, n # q PROVE Down(W, top, n)
  <2>1. W[n].recs = V[n].recs /\ W[n].branches = V[n].branches /\ W[n].depth = V[n].depth
    BY <1>9 DEF IsSplit
  <2>2. Down(V, top, n)
    BY DEF Linked
  <2>3. ASSUME NEW i \in 1..Width(W, n)
        PROVE  LET b == W[n].branches[i]
               IN  b \in Live(W) /\ b # top /\ W[b].parent = n /\ W[b].pos = i - 1
                   /\ W[b].depth + 1 = W[n].depth
    <3>1. i \in 1..Width(V, n)
      BY <2>1 DEF Width
    <3>2. PICK b \in Live(V) : b = V[n].branches[i] /\ b # top /\ V[b].parent = n
                               /\ V[b].pos = i - 1 /\ V[b].depth + 1 = V[n].depth
      BY <1>3, <3>1
    <3>3. W[b].parent = n /\ W[b].pos = i - 1 /\ W[b].depth + 1 = W[n].depth
      BY <1>9, <1>4, <2>1, <3>2
    <3> QED BY <1>2, <2>1, <3>2, <3>3
  <2> QED BY <2>1, <2>2, <2>3 DEF Down, Width, Size
<1>10. Up(W, f)
  <2>1. Width(W, q) = Width(V, q) + 1 /\ W[q].branches[o + 2] = f
    BY DEF IsSplit
  <2>2. (o + 1) + 1 \in 1..Width(W, q) /\ (o + 1) + 1 = o + 2
    BY <1>1, <2>1
  <2> QED BY <1>2, <1>5, <2>1, <2>2 DEF Up
<1>11. ASSUME NEW n \in Live(V), n # top PROVE Up(W, n)
  <2> DEFINE r == V[n].parent
             i == V[n].pos + 1
  <2>1. r \in Live(V) /\ i \in 1..Width(V, r) /\ V[r].branches[i] = n
    BY <1>11 DEF Linked, Up
  <2>2. V[n].pos \in Nat /\ i - 1 = V[n].pos /\ i \in Nat
    BY <1>1, NodeTypes
  <2>3. CASE r = a /\ i - 1 > m
    <3>1. Width(W, f) = (IF V[a].depth = 0 THEN 0 ELSE Size(V, a) - m)
          /\ \A j \in 1..Width(W, f) : W[f].branches[j] = V[a].branches[m + 1 + j]
      BY DEF IsSplit
    <3>2. W[n].parent = f /\ W[n].pos + 1 = i - (m + 1)
      BY <1>2, <1>4, <2>2, <2>3
    <3> HIDE DEF r, i
    <3>3. i - (m + 1) \in 1..Width(W, f) /\ m + 1 + (i - (m + 1)) = i
      BY <1>1, <1>2, <2>1, <2>2, <2>3, <3>1
    <3>4. W[f].branches[i - (m + 1)] = n
      BY <3>1, <3>3, <2>1, <2>3
    <3> QED BY <1>2, <3>2, <3>3, <3>4 DEF Up
  <2>4. CASE r = a /\ ~(i - 1 > m)
    <3>1. Width(W, a) = (IF V[a].depth = 0 THEN 0 ELSE m + 1)
          /\ \A j \in 1..Width(W, a) : W[a].branches[j] = V[a].branches[j]
      BY DEF IsSplit
    <3>2. W[n].parent = a /\ W[n].pos + 1 = i
      BY <1>1, <1>4, <2>2, <2>4
    <3> HIDE DEF r, i
    <3>3. i \in 1..Width(W, a)
      BY <1>1, <1>2, <2>1, <2>2, <2>4, <3>1
    <3> QED BY <1>2, <3>1, <3>2, <3>3, <2>1, <2>4 DEF Up
  <2>5. CASE r = q /\ i - 1 > o
    <3>1. Width(W, q) = Width(V, q) + 1
          /\ \A j \in (o + 2)..Width(V, q) : W[q].branches[j + 1] = V[q].branches[j]
      BY DEF IsSplit
    <3>2. W[n].parent = q /\ W[n].pos + 1 = i + 1
      BY <1>1, <1>4, <2>2, <2>5
    <3> HIDE DEF r, i
    <3>3. i + 1 \in 1..Width(W, q) /\ i \in (o + 2)..Width(V, q)
      BY <1>1, <2>1, <2>2, <2>5, <3>1
    <3> QED BY <1>2, <3>1, <3>2, <3>3, <2>1, <2>5 DEF Up
  <2>6. CASE r = q /\ ~(i - 1 > o)
    <3>1. Width(W, q) = Width(V, q) + 1
          /\ \A j \in 1..(o + 1) : W[q].branches[j] = V[q].branches[j]
      BY DEF IsSplit
    <3>2. W[n].parent = q /\ W[n].pos + 1 = i
      BY <1>1, <1>4, <2>2, <2>6
    <3> HIDE DEF r, i
    <3>3. i \in 1..Width(W, q) /\ i \in 1..(o + 1)
      BY <1>1, <2>1, <2>2, <2>6, <3>1
    <3> QED BY <1>2, <3>1, <3>2, <3>3, <2>1, <2>6 DEF Up
  <2>7. CASE r # a /\ r # q
    <3>1. W[r].branches = V[r].branches
      BY <2>1, <2>7 DEF IsSplit
    <3>2. W[n].parent = r /\ W[n].pos = V[n].pos
      BY <1>4, <2>7
    <3> QED BY <1>2, <2>1, <3>1, <3>2 DEF Up, Width
  <2> QED BY <2>3, <2>4, <2>5, <2>6, <2>7
<1>12. top \in Live(W) /\ W[top].parent = NoNode
  <2>1. top \in Live(V) /\ V[top].parent = NoNode
    BY DEF Linked
  <2>2. a # NoNode
    BY <1>1, <1>2, NodeTypes
  <2> QED BY <2>1, <2>2, <1>2, <1>4
<1>13. \A n \in Live(W) : Down(W, top, n)
  BY <1>2, <1>6, <1>7, <1>8, <1>9
<1>14. \A n \in Live(W) : n # top => Up(W, n)
  BY <1>2, <1>10, <1>11
<1> QED BY <1>2, <1>12, <1>13, <1>14 DEF Linked

-----------------------------------------------------------------------------
(* node_insert *)

\* V is N with the record r put into n at p, and the branch b on its right; of
\* the other nodes only places have changed.
IsInsert(N, V, n, b, r, p) ==
    /\ V \in Memory /\ Live(V) = Live(N)
    /\ Inserted(N[n].recs, p + 1, r, V[n].recs)
    /\ IF N[n].depth = 0 THEN V[n].branches = N[n].branches
       ELSE Inserted(N[n].branches, p + 2, b, V[n].branches)
    /\ \A x \in Live(N) : V[x].depth = N[x].depth
    /\ \A x \in Live(N) : x # n => V[x].recs = N[x].recs /\ V[x].branches = N[x].branches
    /\ \A x \in Live(N) : (\A i \in (p + 2)..Width(V, n) : V[n].branches[i] # x)
                          => V[x].parent = N[x].parent /\ V[x].pos = N[x].pos
    /\ (\A i, j \in (p + 2)..Width(V, n) : V[n].branches[i] = V[n].branches[j] => i = j)
       => \A i \in (p + 2)..Width(V, n) : /\ V[V[n].branches[i]].parent = n
                                          /\ V[V[n].branches[i]].pos = i - 1

LEMMA InsertIsInsert ==
    ASSUME NEW N, NEW n, NEW b, NEW r, NEW p, Takes(N, n, b, r, p)
    PROVE  IsInsert(N, NodeInsert(N, n, b, r, p), n, b, r, p)
<1>1. N \in Memory /\ n \in Live(N) /\ r \in Keys /\ p \in 0..Size(N, n)
      /\ (\A i \in 1..Width(N, n) : N[n].branches[i] \in Live(N))
      /\ (N[n].depth # 0 => b \in Live(N))
      /\ Width(N, n) = IF N[n].depth = 0 THEN 0 ELSE Size(N, n) + 1
  BY DEF Takes
<1>2. n \in Node /\ N[n] \in NodeRec /\ N[n].recs \in Seq(Keys) /\ N[n].branches \in Seq(Node)
      /\ Len(N[n].recs) = Size(N, n) /\ Len(N[n].branches) = Width(N, n)
      /\ Size(N, n) \in Nat /\ Width(N, n) \in Nat /\ N[n].depth \in Nat
  BY <1>1, NodeTypes DEF Size, Width
<1> DEFINE R == InsertAt(N[n].recs, p + 1, r)
           B == IF N[n].depth = 0 THEN N[n].branches ELSE InsertAt(N[n].branches, p + 2, b)
           in == [N EXCEPT ![n].recs = R, ![n].branches = B]
           V == NodeInsert(N, n, b, r, p)
<1>3. V = Place(in, n, p + 2)
  BY <1>1 DEF NodeInsert
<1>4. R \in Seq(Keys) /\ Inserted(N[n].recs, p + 1, r, R)
  <2> DEFINE s == N[n].recs
             i == p + 1
  <2>1. s \in Seq(Keys) /\ i \in 1..(Len(s) + 1)
    BY <1>1, <1>2
  <2>2. R = InsertAt(s, i, r)
    OBVIOUS
  <2> HIDE DEF R, s, i
  <2>3. R \in Seq(Keys) /\ Inserted(s, i, r, R)
    BY <1>1, <2>1, <2>2, InsertIs
  <2> QED BY <2>3 DEF s, i
<1>5. /\ B \in Seq(Node)
      /\ IF N[n].depth = 0 THEN B = N[n].branches ELSE Inserted(N[n].branches, p + 2, b, B)
  <2>1. CASE N[n].depth = 0
    BY <2>1, <1>2
  <2>2. CASE N[n].depth # 0
    <3> DEFINE s == N[n].branches
               i == p + 2
    <3>1. s \in Seq(Node) /\ i \in 1..(Len(s) + 1) /\ b \in Node
      BY <1>1, <1>2, <2>2 DEF Live
    <3>2. B = InsertAt(s, i, b)
      BY <2>2
    <3> HIDE DEF B, s, i
    <3>3. B \in Seq(Node) /\ Inserted(s, i, b, B)
      BY <1>1, <3>1, <3>2, InsertIs
    <3> QED BY <3>3, <2>2 DEF s, i
  <2> QED BY <2>1, <2>2
<1> HIDE DEF R, B
<1>6. /\ in \in Memory /\ Live(in) = Live(N) /\ in[n].recs = R /\ in[n].branches = B
      /\ in[n].parent = N[n].parent /\ in[n].pos = N[n].pos /\ in[n].depth = N[n].depth
      /\ \A x \in Live(N) : x # n => in[x] = N[x]
  <2> DEFINE u == [N[n] EXCEPT !.recs = R]
             w == [u EXCEPT !.branches = B]
  <2>1. in = [N EXCEPT ![n] = w]
    BY <1>1, <1>2 DEF Memory, NodeRec
  <2>2. u \in NodeRec /\ u.recs = R /\ u.branches = N[n].branches /\ u.parent = N[n].parent
        /\ u.pos = N[n].pos /\ u.depth = N[n].depth
    BY <1>2, <1>4, FieldRecs
  <2> HIDE DEF u
  <2>3. w \in NodeRec /\ w.recs = R /\ w.branches = B /\ w.parent = N[n].parent
        /\ w.pos = N[n].pos /\ w.depth = N[n].depth
    BY <2>2, <1>5, FieldBranches
  <2> HIDE DEF in, w
  <2>4. in \in Memory /\ Live(in) = Live(N) \cup {n} /\ in[n] = w /\ \A x \in Node : x # n => in[x] = N[x]
    <3>1. N \in Memory /\ n \in Node /\ w \in NodeRec
      BY <2>3, <1>1, <1>2
    <3>2. IsWrite(N, n, w, in)
      BY <3>1, <2>1, Written
    <3> QED BY <3>2 DEF IsWrite
  <2>5. \A x \in Live(N) : x # n => in[x] = N[x]
    BY <2>4 DEF Live
  <2>6. Live(in) = Live(N)
    BY <2>4, <1>1
  <2> QED BY <2>3, <2>4, <2>5, <2>6
<1> HIDE DEF in
<1>7. Width(in, n) = Len(B) /\ \A i \in 1..Width(in, n) : in[n].branches[i] \in Live(in)
  <2>1. Width(in, n) = Len(B) /\ in[n].branches = B
    BY <1>6 DEF Width
  <2>2. CASE N[n].depth = 0
    BY <2>1, <2>2, <1>1, <1>2, <1>5, <1>6
  <2>3. CASE N[n].depth # 0
    <3>1. Len(B) = Width(N, n) + 1 /\ B[p + 2] = b /\ (\A j \in 1..(p + 1) : B[j] = N[n].branches[j])
          /\ \A j \in (p + 2)..Width(N, n) : B[j + 1] = N[n].branches[j]
      <4>1. (p + 2) - 1 = p + 1
        BY <1>1
      <4> QED BY <4>1, <2>3, <1>2, <1>5 DEF Inserted
    <3>2. p + 1 <= Width(N, n) /\ p \in Nat
      BY <1>1, <1>2, <2>3
    <3>3. ASSUME NEW i \in 1..Width(in, n) PROVE B[i] \in Live(N)
      <4>1. CASE i <= p + 1
        <5>1. i \in 1..(p + 1) /\ i \in 1..Width(N, n)
          BY <4>1, <3>2, <1>2
        <5>2. B[i] = N[n].branches[i]
          BY <5>1, <3>1
        <5> QED BY <5>1, <5>2, <1>1
      <4>2. CASE i = p + 2
        BY <4>2, <3>1, <1>1, <2>3
      <4>3. CASE i > p + 2
        <5>1. i - 1 \in (p + 2)..Width(N, n) /\ i - 1 \in 1..Width(N, n) /\ (i - 1) + 1 = i
          BY <4>3, <3>1, <3>2, <2>1, <1>2
        <5>2. B[i] = N[n].branches[i - 1]
          BY <5>1, <3>1
        <5> QED BY <5>1, <5>2, <1>1
      <4> QED BY <4>1, <4>2, <4>3, <3>2, <3>1, <2>1, <1>2
    <3> QED BY <3>3, <2>1, <1>6
  <2> QED BY <2>2, <2>3
<1>8. p + 2 \in Nat \ {0} /\ \A i \in (p + 2)..Width(in, n) : i \in 1..Width(in, n)
  <2>1. Width(in, n) \in Nat
    BY <1>1, <1>6, NodeTypes
  <2> QED BY <2>1, <1>1, <1>2
<1> DEFINE P == Place(in, n, p + 2)
<1>9. /\ P \in Memory /\ Live(P) = Live(in)
      /\ \A x \in Live(in) : /\ P[x].recs = in[x].recs /\ P[x].branches = in[x].branches
                             /\ P[x].depth = in[x].depth
      /\ \A x \in Node : (\A i \in (p + 2)..Width(in, n) : in[n].branches[i] # x) => P[x] = in[x]
  BY <1>1, <1>6, <1>7, <1>8, PlaceKeeps
<1>10. (\A i, j \in (p + 2)..Width(in, n) : in[n].branches[i] = in[n].branches[j] => i = j)
       => \A i \in (p + 2)..Width(in, n) : P[in[n].branches[i]].parent = n /\ P[in[n].branches[i]].pos = i - 1
  <2> DEFINE from == p + 2
  <2>1. SUFFICES ASSUME \A i, j \in from..Width(in, n) : in[n].branches[i] = in[n].branches[j] => i = j
                 PROVE  \A i \in from..Width(in, n) : /\ Place(in, n, from)[in[n].branches[i]].parent = n
                                                       /\ Place(in, n, from)[in[n].branches[i]].pos = i - 1
    OBVIOUS
  <2>2. in \in Memory /\ n \in Live(in) /\ from \in Nat \ {0}
        /\ \A i \in from..Width(in, n) : in[n].branches[i] \in Live(in)
    BY <1>1, <1>6, <1>7, <1>8
  <2> HIDE DEF from
  <2> QED BY <2>1, <2>2, PlaceProps
<1> HIDE DEF P
<1>11. V = P
  BY <1>3 DEF P
<1> HIDE DEF V
<1>12. V[n].recs = R /\ V[n].branches = B /\ Width(V, n) = Width(in, n) /\ in[n].branches = V[n].branches
  BY <1>1, <1>6, <1>9, <1>11 DEF Width
<1>13. V \in Memory /\ Live(V) = Live(N)
  BY <1>6, <1>9, <1>11
<1>14. \A x \in Live(N) : V[x].depth = N[x].depth
  BY <1>6, <1>9, <1>11
<1>15. \A x \in Live(N) : x # n => V[x].recs = N[x].recs /\ V[x].branches = N[x].branches
  BY <1>6, <1>9, <1>11
<1>16. ASSUME NEW x \in Live(N), \A i \in (p + 2)..Width(V, n) : V[n].branches[i] # x
       PROVE  V[x].parent = N[x].parent /\ V[x].pos = N[x].pos
  <2>1. V[x] = in[x]
    BY <1>16, <1>9, <1>11, <1>12 DEF Live
  <2> QED BY <2>1, <1>6
<1>17. (\A i, j \in (p + 2)..Width(V, n) : V[n].branches[i] = V[n].branches[j] => i = j)
       => \A i \in (p + 2)..Width(V, n) : V[V[n].branches[i]].parent = n /\ V[V[n].branches[i]].pos = i - 1
  BY <1>10, <1>11, <1>12
<1>18. IsInsert(N, V, n, b, r, p)
  BY <1>4, <1>5, <1>12, <1>13, <1>14, <1>15, <1>16, <1>17 DEF IsInsert
<1> QED BY <1>18 DEF V

-----------------------------------------------------------------------------
(* node_split *)

\* l is the h of s that follow d.
Part(l, s, d, h) == Len(l) = h /\ \A i \in 1..h : l[i] = s[d + i]

\* A sequence cut at h before e is put in: the part that takes e, and the other.
LEMMA LeftTakes ==
    ASSUME NEW s, Len(s) \in Nat, NEW h \in 0..Len(s), NEW p \in 1..(h + 1), NEW e, NEW t, NEW l, NEW u,
           Part(l, s, 0, h), Inserted(s, p, e, t), Inserted(l, p, e, u)
    PROVE  /\ Len(u) = h + 1 /\ \A i \in 1..(h + 1) : u[i] = t[i]
           /\ \A i \in (h + 1)..Len(s) : t[i + 1] = s[i]
<1>1. Len(s) \in Nat /\ h \in Nat /\ p \in Nat \ {0} /\ p <= h + 1 /\ h <= Len(s)
  OBVIOUS
<1>2. Len(l) = h /\ \A i \in 1..h : l[i] = s[i]
  BY <1>1 DEF Part
<1>3. /\ Len(u) = h + 1 /\ u[p] = e /\ t[p] = e
      /\ (\A i \in 1..(p - 1) : u[i] = l[i]) /\ (\A i \in 1..(p - 1) : t[i] = s[i])
      /\ (\A i \in p..h : u[i + 1] = l[i]) /\ (\A i \in p..Len(s) : t[i + 1] = s[i])
  BY <1>1, <1>2 DEF Inserted
<1>4. ASSUME NEW i \in 1..(h + 1) PROVE u[i] = t[i]
  <2>1. CASE i < p
    <3>1. i \in 1..(p - 1) /\ i \in 1..h
      BY <2>1, <1>1
    <3> QED BY <3>1, <1>2, <1>3
  <2>2. CASE i = p
    BY <2>2, <1>3
  <2>3. CASE i > p
    <3>1. i - 1 \in p..h /\ i - 1 \in p..Len(s) /\ i - 1 \in 1..h /\ (i - 1) + 1 = i
      BY <2>3, <1>1
    <3>2. u[i] = l[i - 1] /\ t[i] = s[i - 1] /\ l[i - 1] = s[i - 1]
      BY <3>1, <1>2, <1>3
    <3> QED BY <3>2
  <2> QED BY <2>1, <2>2, <2>3, <1>1
<1> QED BY <1>1, <1>3, <1>4

Behind(s, h, c, p, q, e, g, t, u) ==
    /\ Len(s) \in Nat /\ h \in 0..Len(s) /\ c = Len(s) - h /\ q \in 1..(c + 1) /\ p = h + q
    /\ Part(g, s, h, c) /\ Inserted(s, p, e, t) /\ Inserted(g, q, e, u)

LEMMA RightTakes ==
    ASSUME NEW s, NEW h, NEW c, NEW p, NEW q, NEW e, NEW g, NEW t, NEW u,
           Behind(s, h, c, p, q, e, g, t, u)
    PROVE  /\ Len(u) = c + 1 /\ \A i \in 1..(c + 1) : u[i] = t[h + i]
           /\ \A i \in 1..(p - 1) : t[i] = s[i]
           /\ \A i \in p..Len(s) : t[i + 1] = s[i]
<1>1. Len(s) \in Nat /\ h \in Nat /\ c \in Nat /\ Len(s) = h + c /\ q \in Nat \ {0} /\ q <= c + 1
      /\ p \in Nat /\ p = h + q
  BY DEF Behind
<1>2. Len(g) = c /\ \A i \in 1..c : g[i] = s[h + i]
  BY DEF Behind, Part
<1>3. /\ Len(u) = c + 1 /\ u[q] = e /\ t[p] = e
      /\ (\A i \in 1..(q - 1) : u[i] = g[i]) /\ (\A i \in 1..(p - 1) : t[i] = s[i])
      /\ (\A i \in q..c : u[i + 1] = g[i]) /\ (\A i \in p..Len(s) : t[i + 1] = s[i])
  BY <1>1, <1>2 DEF Behind, Inserted
<1>4. ASSUME NEW i \in 1..(c + 1) PROVE u[i] = t[h + i]
  <2>1. CASE i < q
    <3>1. i \in 1..(q - 1) /\ i \in 1..c /\ h + i \in 1..(p - 1)
      BY <2>1, <1>1
    <3>2. u[i] = g[i] /\ g[i] = s[h + i] /\ t[h + i] = s[h + i]
      BY <3>1, <1>2, <1>3
    <3> QED BY <3>2
  <2>2. CASE i = q
    BY <2>2, <1>1, <1>3
  <2>3. CASE i > q
    <3> DEFINE d == i - 1
               x == h + d
    <3>1. d \in q..c /\ d \in 1..c /\ d + 1 = i /\ x \in p..Len(s) /\ x + 1 = h + i
      BY <2>3, <1>1
    <3>2. g[d] = s[x]
      BY <3>1, <1>2
    <3> HIDE DEF d, x
    <3>3. u[d + 1] = g[d] /\ t[x + 1] = s[x]
      BY <3>1, <1>3
    <3> QED BY <3>1, <3>2, <3>3
  <2> QED BY <2>1, <2>2, <2>3, <1>1
<1> QED BY <1>1, <1>3, <1>4

\* A node's record with other records and branches.
IsWith(r, R, B, w) ==
    /\ w \in NodeRec /\ w.recs = R /\ w.branches = B
    /\ w.parent = r.parent /\ w.pos = r.pos /\ w.depth = r.depth

LEMMA With ==
    ASSUME NEW r \in NodeRec, NEW R \in Seq(Keys), NEW B \in Seq(Node)
    PROVE  IsWith(r, R, B, [r EXCEPT !.recs = R, !.branches = B])
<1> DEFINE u == [r EXCEPT !.recs = R]
           w == [u EXCEPT !.branches = B]
<1>1. [r EXCEPT !.recs = R, !.branches = B] = w
  BY DEF NodeRec
<1>2. u \in NodeRec /\ u.recs = R /\ u.branches = r.branches /\ u.parent = r.parent
      /\ u.pos = r.pos /\ u.depth = r.depth
  BY FieldRecs
<1> HIDE DEF u
<1>3. w \in NodeRec /\ w.recs = R /\ w.branches = B /\ w.parent = r.parent
      /\ w.pos = r.pos /\ w.depth = r.depth
  BY <1>2, FieldBranches
<1> HIDE DEF w
<1> QED BY <1>1, <1>3 DEF IsWith

\* The node a is full, and f is the next to be allocated.
Full(N, a, f) ==
    /\ N \in Memory /\ a \in Live(N) /\ f \in Node /\ f \notin Live(N)
    /\ MinElements \in Nat \ {0} /\ MaxElements = 2 * MinElements
    /\ Size(N, a) = MaxElements /\ Width(N, a) = IF N[a].depth = 0 THEN 0 ELSE MaxElements + 1
    /\ \A i \in 1..Width(N, a) : N[a].branches[i] \in Live(N)

CutAt(ns, left, right, h) ==
    Place([ns EXCEPT
              ![left].recs = SubSeq(@, 1, h),
              ![left].branches = IF @ = <<>> THEN @ ELSE SubSeq(@, 1, h + 1),
              ![right] = [ns[left] EXCEPT !.recs = SubSeq(@, h + 1, MaxElements),
                                          !.branches = IF @ = <<>> THEN @
                                                       ELSE SubSeq(@, h + 1, MaxElements + 1)]],
          right, 2)

\* C is N with what a has behind h records moved to f.
IsCutAt(N, C, a, f, h) ==
    /\ C \in Memory /\ Live(C) = Live(N) \cup {f}
    /\ C[a].recs \in Seq(Keys) /\ Len(C[a].recs) = h
    /\ \A i \in 1..h : C[a].recs[i] = N[a].recs[i]
    /\ C[f].recs \in Seq(Keys) /\ Len(C[f].recs) = MaxElements - h
    /\ \A i \in 1..(MaxElements - h) : C[f].recs[i] = N[a].recs[h + i]
    /\ Len(C[a].branches) = IF N[a].depth = 0 THEN 0 ELSE h + 1
    /\ \A i \in 1..Len(C[a].branches) : C[a].branches[i] = N[a].branches[i]
    /\ Len(C[f].branches) = IF N[a].depth = 0 THEN 0 ELSE (MaxElements - h) + 1
    /\ \A i \in 1..Len(C[f].branches) : C[f].branches[i] = N[a].branches[h + i]
    /\ C[f].depth = N[a].depth
    /\ \A x \in Live(N) : C[x].depth = N[x].depth
    /\ \A x \in Live(N) : x # a => C[x].recs = N[x].recs /\ C[x].branches = N[x].branches
    /\ \A x \in Live(N) : (\A i \in 2..Len(C[f].branches) : C[f].branches[i] # x)
                          => C[x].parent = N[x].parent /\ C[x].pos = N[x].pos

LEMMA CutAtIs ==
    ASSUME NEW N, NEW a, NEW f, Full(N, a, f), NEW h \in Nat, h <= MaxElements
    PROVE  IsCutAt(N, CutAt(N, a, f, h), a, f, h)
<1>1. N \in Memory /\ a \in Live(N) /\ f \in Node /\ f \notin Live(N) /\ a # f
      /\ MaxElements \in Nat /\ Size(N, a) = MaxElements
      /\ Width(N, a) = (IF N[a].depth = 0 THEN 0 ELSE MaxElements + 1)
      /\ \A i \in 1..Width(N, a) : N[a].branches[i] \in Live(N)
  BY DEF Full
<1>2. a \in Node /\ N[a] \in NodeRec /\ N[a].recs \in Seq(Keys) /\ N[a].branches \in Seq(Node)
      /\ Len(N[a].recs) = MaxElements /\ Len(N[a].branches) = Width(N, a) /\ N[a].depth \in Nat
  BY <1>1, NodeTypes DEF Size, Width
<1> DEFINE rs == N[a].recs
           bs == N[a].branches
           R1 == SubSeq(rs, 1, h)
           R2 == SubSeq(rs, h + 1, MaxElements)
           B1 == IF bs = <<>> THEN bs ELSE SubSeq(bs, 1, h + 1)
           B2 == IF bs = <<>> THEN bs ELSE SubSeq(bs, h + 1, MaxElements + 1)
           w == [N[a] EXCEPT !.recs = R1, !.branches = B1]
           v == [N[a] EXCEPT !.recs = R2, !.branches = B2]
           A == [N EXCEPT ![a] = w]
           C0 == [A EXCEPT ![f] = v]
           P == Place(C0, f, 2)
<1>3. CutAt(N, a, f, h) = P
  BY <1>1, <1>2 DEF CutAt, Memory, NodeRec
<1>4. /\ R1 \in Seq(Keys) /\ Len(R1) = h /\ \A i \in 1..h : R1[i] = rs[i]
      /\ R2 \in Seq(Keys) /\ Len(R2) = MaxElements - h
      /\ \A i \in 1..(MaxElements - h) : R2[i] = rs[h + i]
  <2> HIDE DEF rs
  <2>1. rs \in Seq(Keys) /\ Len(rs) = MaxElements
    BY <1>2 DEF rs
  <2> QED BY <2>1, <1>1
<1>5. /\ B1 \in Seq(Node) /\ Len(B1) = (IF N[a].depth = 0 THEN 0 ELSE h + 1)
      /\ \A i \in 1..Len(B1) : B1[i] = bs[i]
      /\ B2 \in Seq(Node) /\ Len(B2) = (IF N[a].depth = 0 THEN 0 ELSE (MaxElements - h) + 1)
      /\ \A i \in 1..Len(B2) : B2[i] = bs[h + i]
  <2>1. bs \in Seq(Node) /\ Len(bs) = (IF N[a].depth = 0 THEN 0 ELSE MaxElements + 1)
    BY <1>1, <1>2
  <2> HIDE DEF bs
  <2>2. CASE N[a].depth = 0
    BY <2>1, <2>2, <1>1
  <2>3. CASE N[a].depth # 0
    <3>1. bs # <<>> /\ Len(bs) = MaxElements + 1
      BY <2>1, <2>3, <1>1
    <3> QED BY <2>1, <3>1, <2>3, <1>1
  <2> QED BY <2>2, <2>3
<1> HIDE DEF R1, R2, B1, B2
<1>6. IsWith(N[a], R1, B1, w) /\ IsWith(N[a], R2, B2, v)
  BY <1>2, <1>4, <1>5, With
<1> HIDE DEF w, v
<1>7. IsWrite(N, a, w, A)
  BY <1>1, <1>2, <1>6, Written DEF IsWith
<1> HIDE DEF A
<1>8. IsWrite(A, f, v, C0)
  <2>1. A \in Memory /\ v \in NodeRec
    BY <1>6, <1>7 DEF IsWith, IsWrite
  <2> QED BY <2>1, <1>1, Written
<1> HIDE DEF C0
<1>9. /\ C0 \in Memory /\ Live(C0) = Live(N) \cup {f} /\ C0[a] = w /\ C0[f] = v
      /\ \A x \in Live(N) : x # a => C0[x] = N[x]
  <2>1. C0 \in Memory /\ Live(C0) = Live(A) \cup {f} /\ C0[f] = v /\ \A x \in Node : x # f => C0[x] = A[x]
    BY <1>8 DEF IsWrite
  <2>2. Live(A) = Live(N) \cup {a} /\ A[a] = w /\ \A x \in Node : x # a => A[x] = N[x]
    BY <1>7 DEF IsWrite
  <2>3. \A x \in Live(N) : x \in Node /\ x # f
    BY <1>1 DEF Live
  <2> QED BY <2>1, <2>2, <2>3, <1>1, <1>2
<1>10. /\ C0[f].branches = B2 /\ Width(C0, f) = Len(B2)
       /\ \A i \in 2..Width(C0, f) : C0[f].branches[i] \in Live(C0)
  <2>1. C0[f].branches = B2 /\ Width(C0, f) = Len(B2)
    BY <1>9, <1>6 DEF IsWith, Width
  <2>2. ASSUME NEW i \in 1..Len(B2) PROVE B2[i] \in Live(N)
    <3>1. N[a].depth # 0 /\ h + i \in 1..Width(N, a)
      BY <1>1, <1>5
    <3> QED BY <3>1, <1>1, <1>5
  <2> QED BY <2>1, <2>2, <1>9, <1>5
<1>11. /\ P \in Memory /\ Live(P) = Live(C0)
       /\ \A x \in Live(C0) : /\ P[x].recs = C0[x].recs /\ P[x].branches = C0[x].branches
                              /\ P[x].depth = C0[x].depth
       /\ \A x \in Node : (\A i \in 2..Width(C0, f) : C0[f].branches[i] # x) => P[x] = C0[x]
  <2> DEFINE from == 2
  <2>1. C0 \in Memory /\ f \in Live(C0) /\ from \in Nat \ {0}
        /\ \A i \in from..Width(C0, f) : C0[f].branches[i] \in Live(C0)
    BY <1>9, <1>10
  <2>2. P = Place(C0, f, from)
    OBVIOUS
  <2> HIDE DEF from, P
  <2>3. /\ P \in Memory /\ Live(P) = Live(C0)
        /\ \A x \in Live(C0) : /\ P[x].recs = C0[x].recs /\ P[x].branches = C0[x].branches
                               /\ P[x].depth = C0[x].depth
        /\ \A x \in Node : (\A i \in from..Width(C0, f) : C0[f].branches[i] # x) => P[x] = C0[x]
    BY <2>1, <2>2, PlaceKeeps
  <2> QED BY <2>3 DEF from
<1> HIDE DEF P
<1>12. /\ P[a].recs = R1 /\ P[a].branches = B1 /\ P[f].recs = R2 /\ P[f].branches = B2
       /\ P[f].depth = N[a].depth /\ P[a].depth = N[a].depth
  BY <1>1, <1>6, <1>9, <1>11 DEF IsWith
<1>13. \A x \in Live(N) : x # a => P[x].recs = N[x].recs /\ P[x].branches = N[x].branches /\ P[x].depth = N[x].depth
  BY <1>9, <1>11
<1>14. ASSUME NEW x \in Live(N), \A i \in 2..Len(P[f].branches) : P[f].branches[i] # x
       PROVE  P[x].parent = N[x].parent /\ P[x].pos = N[x].pos
  <2>1. x \in Node
    BY DEF Live
  <2>2. P[x] = C0[x]
    BY <2>1, <1>14, <1>10, <1>11, <1>12
  <2>3. C0[x].parent = N[x].parent /\ C0[x].pos = N[x].pos
    BY <1>6, <1>9 DEF IsWith
  <2> QED BY <2>2, <2>3
<1>15. IsCutAt(N, P, a, f, h)
  BY <1>4, <1>5, <1>9, <1>11, <1>12, <1>13, <1>14 DEF IsCutAt
<1> QED BY <1>3, <1>15

\* V is the tree with the record put into the full node a; I has its parts in a, the
\* median still with them, and f, which may have another first branch.
IsHalves(V, I, a, f, m) ==
    /\ I \in Memory /\ Live(I) = Live(V) \cup {f}
    /\ Len(I[a].recs) = m + 1 /\ \A i \in 1..(m + 1) : I[a].recs[i] = V[a].recs[i]
    /\ Len(I[f].recs) = m /\ \A i \in 1..m : I[f].recs[i] = V[a].recs[m + 1 + i]
    /\ Len(I[a].branches) = IF V[a].depth = 0 THEN 0 ELSE m + 2
    /\ \A i \in 1..Len(I[a].branches) : I[a].branches[i] = V[a].branches[i]
    /\ Len(I[f].branches) = IF V[a].depth = 0 THEN 0 ELSE m + 1
    /\ \A i \in 2..Len(I[f].branches) : I[f].branches[i] = V[a].branches[m + 1 + i]
    /\ I[f].depth = V[a].depth
    /\ \A x \in Live(V) : I[x].depth = V[x].depth
    /\ \A x \in Live(V) : x # a => I[x].recs = V[x].recs /\ I[x].branches = V[x].branches
    /\ \A x \in Live(V) : (\A i \in (m + 2)..Width(V, a) : V[a].branches[i] # x)
                          => I[x].parent = V[x].parent /\ I[x].pos = V[x].pos

\* What IsInsert says of the tree with the record in a.
LEMMA FullInsert ==
    ASSUME NEW N, NEW V, NEW a, NEW f, NEW b, NEW r, NEW p,
           Full(N, a, f), Takes(N, a, b, r, p), IsInsert(N, V, a, b, r, p)
    PROVE  /\ N \in Memory /\ V \in Memory /\ Live(V) = Live(N) /\ a \in Live(N) /\ f \notin Live(N)
           /\ f \in Node /\ a # f /\ MinElements \in Nat \ {0} /\ MaxElements = 2 * MinElements
           /\ p \in 0..MaxElements /\ r \in Keys /\ N[a].depth \in Nat /\ V[a].depth = N[a].depth
           /\ (N[a].depth # 0 => b \in Live(N))
           /\ N[a].recs \in Seq(Keys) /\ Len(N[a].recs) = MaxElements
           /\ N[a].branches \in Seq(Node)
           /\ Len(N[a].branches) = IF N[a].depth = 0 THEN 0 ELSE MaxElements + 1
           /\ \A i \in 1..Len(N[a].branches) : N[a].branches[i] \in Live(N)
           /\ Inserted(N[a].recs, p + 1, r, V[a].recs)
           /\ N[a].depth = 0 => V[a].branches = N[a].branches
           /\ N[a].depth # 0 => Inserted(N[a].branches, p + 2, b, V[a].branches)
           /\ Width(V, a) = IF N[a].depth = 0 THEN 0 ELSE MaxElements + 2
<1>1. /\ N \in Memory /\ V \in Memory /\ Live(V) = Live(N) /\ a \in Live(N) /\ f \notin Live(N)
      /\ f \in Node /\ MinElements \in Nat \ {0} /\ MaxElements = 2 * MinElements
      /\ Len(N[a].recs) = MaxElements
      /\ Len(N[a].branches) = (IF N[a].depth = 0 THEN 0 ELSE MaxElements + 1)
      /\ \A i \in 1..Len(N[a].branches) : N[a].branches[i] \in Live(N)
  BY DEF Full, IsInsert, Size, Width
<1>2. p \in 0..MaxElements /\ r \in Keys /\ (N[a].depth # 0 => b \in Live(N))
  BY <1>1 DEF Takes, Size
<1>3. /\ Inserted(N[a].recs, p + 1, r, V[a].recs) /\ V[a].depth = N[a].depth
      /\ N[a].depth = 0 => V[a].branches = N[a].branches
      /\ N[a].depth # 0 => Inserted(N[a].branches, p + 2, b, V[a].branches)
  BY <1>1 DEF IsInsert
<1>4. N[a].recs \in Seq(Keys) /\ N[a].branches \in Seq(Node) /\ N[a].depth \in Nat
  BY <1>1, NodeTypes
<1>5. Width(V, a) = IF N[a].depth = 0 THEN 0 ELSE MaxElements + 2
  <2>1. CASE N[a].depth = 0
    BY <2>1, <1>1, <1>3 DEF Width
  <2>2. CASE N[a].depth # 0
    <3>1. Len(V[a].branches) = Len(N[a].branches) + 1
      BY <2>2, <1>3 DEF Inserted
    <3> QED BY <3>1, <2>2, <1>1 DEF Width
  <2> QED BY <2>1, <2>2
<1>6. a # f
  BY <1>1
<1> QED BY <1>1, <1>2, <1>3, <1>4, <1>5, <1>6

LEMMA HalvesLeft ==
    ASSUME NEW N, NEW V, NEW a, NEW f, NEW b, NEW r, NEW p,
           Full(N, a, f), Takes(N, a, b, r, p), IsInsert(N, V, a, b, r, p),
           \A i, j \in 1..Width(V, a) : V[a].branches[i] = V[a].branches[j] => i = j,
           p <= MinElements
    PROVE  IsHalves(V, NodeInsert(CutAt(N, a, f, MinElements), a, b, r, p), a, f, MinElements)
<1> DEFINE m == MinElements
           C == CutAt(N, a, f, m)
           I == NodeInsert(C, a, b, r, p)
<1>1. /\ N \in Memory /\ V \in Memory /\ Live(V) = Live(N) /\ a \in Live(N) /\ f \notin Live(N)
      /\ f \in Node /\ a # f /\ m \in Nat \ {0} /\ MaxElements = 2 * m
      /\ p \in 0..m /\ r \in Keys /\ N[a].depth \in Nat /\ V[a].depth = N[a].depth
      /\ (N[a].depth # 0 => b \in Live(N))
  BY FullInsert
<1>2. /\ N[a].recs \in Seq(Keys) /\ Len(N[a].recs) = 2 * m
      /\ N[a].branches \in Seq(Node)
      /\ Len(N[a].branches) = (IF N[a].depth = 0 THEN 0 ELSE 2 * m + 1)
      /\ \A i \in 1..Len(N[a].branches) : N[a].branches[i] \in Live(N)
  BY FullInsert
<1>3. /\ Inserted(N[a].recs, p + 1, r, V[a].recs)
      /\ N[a].depth = 0 => V[a].branches = N[a].branches
      /\ N[a].depth # 0 => Inserted(N[a].branches, p + 2, b, V[a].branches)
      /\ Width(V, a) = IF N[a].depth = 0 THEN 0 ELSE 2 * m + 2
  BY FullInsert
<1>4. IsCutAt(N, C, a, f, m)
  BY <1>1, CutAtIs
<1> HIDE DEF C, m
<1>5. /\ C \in Memory /\ Live(C) = Live(N) \cup {f} /\ Len(C[a].recs) = m
      /\ \A i \in 1..m : C[a].recs[i] = N[a].recs[i]
      /\ Len(C[f].recs) = m /\ \A i \in 1..m : C[f].recs[i] = N[a].recs[m + i]
      /\ Len(C[a].branches) = (IF N[a].depth = 0 THEN 0 ELSE m + 1)
      /\ \A i \in 1..Len(C[a].branches) : C[a].branches[i] = N[a].branches[i]
      /\ Len(C[f].branches) = (IF N[a].depth = 0 THEN 0 ELSE m + 1)
      /\ \A i \in 1..Len(C[f].branches) : C[f].branches[i] = N[a].branches[m + i]
      /\ C[f].depth = N[a].depth
  <2>1. MaxElements - m = m
    BY <1>1
  <2> QED BY <1>4, <2>1 DEF IsCutAt
<1>6. /\ \A x \in Live(N) : C[x].depth = N[x].depth
      /\ \A x \in Live(N) : x # a => C[x].recs = N[x].recs /\ C[x].branches = N[x].branches
      /\ \A x \in Live(N) : (\A i \in 2..Len(C[f].branches) : C[f].branches[i] # x)
                            => C[x].parent = N[x].parent /\ C[x].pos = N[x].pos
  BY <1>4 DEF IsCutAt
<1>7. Takes(C, a, b, r, p)
  <2>1. a \in Live(C) /\ C[a].depth = N[a].depth /\ (C[a].depth # 0 => b \in Live(C))
    BY <1>1, <1>5, <1>6
  <2>2. Len(C[a].branches) = IF C[a].depth = 0 THEN 0 ELSE Len(C[a].recs) + 1
    BY <1>5, <2>1
  <2>3. \A i \in 1..Len(C[a].branches) : C[a].branches[i] \in Live(C)
    <3>1. \A i \in 1..Len(C[a].branches) : i \in 1..Len(N[a].branches)
      BY <1>1, <1>2, <1>5
    <3> QED BY <3>1, <1>2, <1>5
  <2> QED BY <2>1, <2>2, <2>3, <1>1, <1>5 DEF Takes, Size, Width
<1>8. IsInsert(C, I, a, b, r, p)
  BY <1>7, InsertIsInsert
<1> HIDE DEF I
<1>9. /\ I \in Memory /\ Live(I) = Live(N) \cup {f}
      /\ Inserted(C[a].recs, p + 1, r, I[a].recs)
      /\ N[a].depth = 0 => I[a].branches = C[a].branches
      /\ N[a].depth # 0 => Inserted(C[a].branches, p + 2, b, I[a].branches)
  <2>1. C[a].depth = N[a].depth
    BY <1>1, <1>6
  <2> QED BY <1>8, <1>5, <2>1 DEF IsInsert
<1>10. /\ \A x \in Live(N) \cup {f} : I[x].depth = C[x].depth
       /\ \A x \in Live(N) \cup {f} : x # a => I[x].recs = C[x].recs /\ I[x].branches = C[x].branches
       /\ \A x \in Live(N) : (\A i \in (p + 2)..Width(I, a) : I[a].branches[i] # x)
                             => I[x].parent = C[x].parent /\ I[x].pos = C[x].pos
       /\ (\A i, j \in (p + 2)..Width(I, a) : I[a].branches[i] = I[a].branches[j] => i = j)
          => \A i \in (p + 2)..Width(I, a) : /\ I[I[a].branches[i]].parent = a
                                             /\ I[I[a].branches[i]].pos = i - 1
  BY <1>8, <1>5 DEF IsInsert
<1>11. /\ Len(I[a].recs) = m + 1 /\ \A i \in 1..(m + 1) : I[a].recs[i] = V[a].recs[i]
       /\ \A i \in (m + 1)..(2 * m) : V[a].recs[i + 1] = N[a].recs[i]
  <2> DEFINE s == N[a].recs
             l == C[a].recs
             t == V[a].recs
             u == I[a].recs
             P == p + 1
             c == m
  <2>1. Len(s) \in Nat /\ Len(s) = 2 * m /\ c \in 0..Len(s) /\ P \in 1..(c + 1)
    BY <1>1, <1>2
  <2>2. Part(l, s, 0, c)
    <3>1. \A i \in 1..m : 0 + i = i
      BY <1>1
    <3> QED BY <3>1, <1>5 DEF Part
  <2>3. Inserted(s, P, r, t) /\ Inserted(l, P, r, u)
    BY <1>3, <1>9
  <2> HIDE DEF s, l, t, u, P, c
  <2>4. /\ Len(u) = c + 1 /\ \A i \in 1..(c + 1) : u[i] = t[i]
        /\ \A i \in (c + 1)..Len(s) : t[i + 1] = s[i]
    BY <2>1, <2>2, <2>3, LeftTakes
  <2> QED BY <2>1, <2>4 DEF s, l, t, u, c
<1>12. ASSUME N[a].depth # 0
       PROVE  /\ Len(I[a].branches) = m + 2 /\ \A i \in 1..(m + 2) : I[a].branches[i] = V[a].branches[i]
              /\ \A i \in (m + 2)..(2 * m + 1) : V[a].branches[i + 1] = N[a].branches[i]
  <2> DEFINE s == N[a].branches
             l == C[a].branches
             t == V[a].branches
             u == I[a].branches
             h == m + 1
             P == p + 2
  <2>1. Len(s) \in Nat /\ Len(s) = 2 * m + 1 /\ h \in 0..Len(s) /\ P \in 1..(h + 1)
    BY <1>1, <1>2, <1>12
  <2>2. Part(l, s, 0, h)
    <3>1. \A i \in 1..h : 0 + i = i
      BY <1>1
    <3> QED BY <3>1, <1>5, <1>12 DEF Part
  <2>3. Inserted(s, P, b, t) /\ Inserted(l, P, b, u)
    BY <1>3, <1>9, <1>12
  <2> HIDE DEF s, l, t, u, h, P
  <2>4. /\ Len(u) = h + 1 /\ \A i \in 1..(h + 1) : u[i] = t[i]
        /\ \A i \in (h + 1)..Len(s) : t[i + 1] = s[i]
    BY <2>1, <2>2, <2>3, LeftTakes
  <2>5. h + 1 = m + 2
    BY <1>1 DEF h
  <2> QED BY <2>1, <2>4, <2>5 DEF s, l, t, u
<1>13. Len(I[f].recs) = m /\ \A i \in 1..m : I[f].recs[i] = V[a].recs[m + 1 + i]
  <2>1. I[f].recs = C[f].recs
    BY <1>1, <1>10
  <2>2. ASSUME NEW i \in 1..m PROVE C[f].recs[i] = V[a].recs[m + 1 + i]
    <3>1. m + i \in (m + 1)..(2 * m) /\ (m + i) + 1 = m + 1 + i
      BY <1>1
    <3> QED BY ZenonT(60), <3>1, <1>5, <1>11
  <2> QED BY <2>1, <2>2, <1>5
<1>14. /\ Len(I[a].branches) = IF N[a].depth = 0 THEN 0 ELSE m + 2
       /\ \A i \in 1..Len(I[a].branches) : I[a].branches[i] = V[a].branches[i]
  <2>1. CASE N[a].depth = 0
    <3>1. Len(I[a].branches) = 0
      BY <2>1, <1>9, <1>5
    <3> QED BY <2>1, <3>1
  <2>2. CASE N[a].depth # 0
    <3>1. Len(I[a].branches) = m + 2 /\ \A i \in 1..(m + 2) : I[a].branches[i] = V[a].branches[i]
      BY <2>2, <1>12
    <3> QED BY <2>2, <3>1
  <2> QED BY <2>1, <2>2
<1>15. /\ I[f].branches = C[f].branches
       /\ Len(I[f].branches) = IF N[a].depth = 0 THEN 0 ELSE m + 1
       /\ \A i \in 2..Len(I[f].branches) : I[f].branches[i] = V[a].branches[m + 1 + i]
  <2>1. I[f].branches = C[f].branches
    BY <1>1, <1>10
  <2>2. ASSUME NEW i \in 2..Len(C[f].branches) PROVE C[f].branches[i] = V[a].branches[m + 1 + i]
    <3>1. N[a].depth # 0 /\ i \in 2..(m + 1) /\ i \in 1..Len(C[f].branches)
      BY <1>1, <1>5
    <3>2. m + i \in (m + 2)..(2 * m + 1) /\ (m + i) + 1 = m + 1 + i
      BY <1>1, <3>1
    <3> QED BY <3>1, <3>2, <1>5, <1>12
  <2> QED BY <2>1, <2>2, <1>5
<1>16. ASSUME NEW x \in Live(N), \A i \in (m + 2)..Width(V, a) : V[a].branches[i] # x
       PROVE  I[x].parent = V[x].parent /\ I[x].pos = V[x].pos
  <2>0. /\ \A y \in Live(N) : (\A i \in (p + 2)..Width(V, a) : V[a].branches[i] # y)
                            => V[y].parent = N[y].parent /\ V[y].pos = N[y].pos
        /\ (\A i, j \in (p + 2)..Width(V, a) : V[a].branches[i] = V[a].branches[j] => i = j)
           => \A i \in (p + 2)..Width(V, a) : V[V[a].branches[i]].parent = a /\ V[V[a].branches[i]].pos = i - 1
    BY DEF IsInsert
  <2>1. C[x].parent = N[x].parent /\ C[x].pos = N[x].pos
    <3>1. ASSUME NEW i \in 2..Len(C[f].branches) PROVE C[f].branches[i] # x
      <4>1. C[f].branches[i] = V[a].branches[m + 1 + i]
        BY <1>15
      <4>2. N[a].depth # 0 /\ i \in 2..(m + 1)
        BY <1>1, <1>5
      <4>3. m + 1 + i \in (m + 2)..Width(V, a)
        BY <4>2, <1>1, <1>3
      <4> QED BY <4>1, <4>3, <1>16
    <3> QED BY <3>1, <1>6
  <2>2. CASE \E j \in (p + 2)..Width(I, a) : I[a].branches[j] = x
    <3>1. PICK j \in (p + 2)..Width(I, a) : I[a].branches[j] = x
      BY <2>2
    <3>2. N[a].depth # 0 /\ Width(I, a) = m + 2
      BY <3>1, <1>1, <1>14 DEF Width
    <3>3. \A i \in (p + 2)..(m + 2) : /\ i \in 1..(m + 2) /\ i \in 1..Width(V, a)
                                      /\ i \in (p + 2)..Width(V, a) /\ I[a].branches[i] = V[a].branches[i]
      BY <3>2, <1>1, <1>3, <1>12
    <3>4. I[x].parent = a /\ I[x].pos = j - 1
      <4>1. \A i, l \in (p + 2)..Width(I, a) : I[a].branches[i] = I[a].branches[l] => i = l
        BY <3>2, <3>3
      <4> QED BY <4>1, <3>1, <1>10
    <3>5. V[x].parent = a /\ V[x].pos = j - 1
      <4>1. \A i \in (p + 2)..Width(V, a) : i \in 1..Width(V, a)
        BY <1>1, <1>3, <3>2
      <4>2. j \in (p + 2)..Width(V, a) /\ V[a].branches[j] = x
        BY <3>1, <3>2, <3>3
      <4>3. \A i, l \in (p + 2)..Width(V, a) : V[a].branches[i] = V[a].branches[l] => i = l
        BY <4>1
      <4> QED BY <4>2, <4>3, <2>0
    <3> QED BY <3>4, <3>5
  <2>3. CASE \A j \in (p + 2)..Width(I, a) : I[a].branches[j] # x
    <3>1. ASSUME NEW i \in (p + 2)..Width(V, a) PROVE V[a].branches[i] # x
      <4>1. N[a].depth # 0 /\ Width(V, a) = 2 * m + 2 /\ Width(I, a) = m + 2
        BY <1>1, <1>3, <1>14 DEF Width
      <4>2. CASE i <= m + 2
        <5>1. i \in (p + 2)..Width(I, a) /\ i \in 1..(m + 2)
          BY <4>1, <4>2, <1>1
        <5> QED BY <5>1, <4>1, <2>3, <1>12
      <4>3. CASE i > m + 2
        <5>1. i \in (m + 2)..Width(V, a)
          BY <4>1, <4>3, <1>1
        <5> QED BY <5>1, <1>16
      <4> QED BY <4>2, <4>3, <4>1, <1>1
    <3>2. V[x].parent = N[x].parent /\ V[x].pos = N[x].pos
      BY <3>1, <2>0
    <3>3. I[x].parent = C[x].parent /\ I[x].pos = C[x].pos
      BY <2>3, <1>10
    <3> QED BY <3>2, <3>3, <2>1
  <2> QED BY <2>2, <2>3
<1>17. /\ I[f].depth = V[a].depth /\ \A x \in Live(N) : I[x].depth = V[x].depth
       /\ \A x \in Live(N) : x # a => I[x].recs = V[x].recs /\ I[x].branches = V[x].branches
  <2>1. /\ \A x \in Live(N) : V[x].depth = N[x].depth
        /\ \A x \in Live(N) : x # a => V[x].recs = N[x].recs /\ V[x].branches = N[x].branches
    BY DEF IsInsert
  <2> QED BY <2>1, <1>1, <1>5, <1>6, <1>10
<1>18. IsHalves(V, I, a, f, m)
  BY <1>1, <1>9, <1>11, <1>13, <1>14, <1>15, <1>16, <1>17 DEF IsHalves
<1> QED BY <1>18 DEF C, I, m

LEMMA HalvesRight ==
    ASSUME NEW N, NEW V, NEW a, NEW f, NEW b, NEW r, NEW p,
           Full(N, a, f), Takes(N, a, b, r, p), IsInsert(N, V, a, b, r, p), p > MinElements
    PROVE  IsHalves(V, NodeInsert(CutAt(N, a, f, MinElements + 1), f, b, r, p - (MinElements + 1)),
                    a, f, MinElements)
<1> DEFINE m == MinElements
           h == m + 1
           o == p - h
           C == CutAt(N, a, f, h)
           I == NodeInsert(C, f, b, r, o)
<1>1. /\ N \in Memory /\ V \in Memory /\ Live(V) = Live(N) /\ a \in Live(N) /\ f \notin Live(N)
      /\ f \in Node /\ a # f /\ m \in Nat \ {0} /\ MaxElements = 2 * m
      /\ r \in Keys /\ N[a].depth \in Nat /\ V[a].depth = N[a].depth
      /\ (N[a].depth # 0 => b \in Live(N))
  BY FullInsert
<1>0. p \in 0..(2 * m) /\ p > m /\ h \in Nat /\ h <= MaxElements /\ h = m + 1 /\ o \in 0..(m - 1) /\ o = p - h
      /\ MaxElements - h = m - 1 /\ (MaxElements - h) + 1 = m
  BY FullInsert, <1>1
<1>2. /\ N[a].recs \in Seq(Keys) /\ Len(N[a].recs) = 2 * m
      /\ N[a].branches \in Seq(Node)
      /\ Len(N[a].branches) = (IF N[a].depth = 0 THEN 0 ELSE 2 * m + 1)
      /\ \A i \in 1..Len(N[a].branches) : N[a].branches[i] \in Live(N)
  BY FullInsert
<1>3. /\ Inserted(N[a].recs, p + 1, r, V[a].recs)
      /\ N[a].depth = 0 => V[a].branches = N[a].branches
      /\ N[a].depth # 0 => Inserted(N[a].branches, p + 2, b, V[a].branches)
      /\ Width(V, a) = IF N[a].depth = 0 THEN 0 ELSE 2 * m + 2
  BY FullInsert
<1>4. IsCutAt(N, C, a, f, h)
  BY <1>0, CutAtIs
<1> HIDE DEF C, m, h, o
<1>5. /\ C \in Memory /\ Live(C) = Live(N) \cup {f} /\ Len(C[a].recs) = h
      /\ \A i \in 1..h : C[a].recs[i] = N[a].recs[i]
      /\ Len(C[f].recs) = m - 1 /\ \A i \in 1..(m - 1) : C[f].recs[i] = N[a].recs[h + i]
      /\ Len(C[a].branches) = (IF N[a].depth = 0 THEN 0 ELSE h + 1)
      /\ \A i \in 1..Len(C[a].branches) : C[a].branches[i] = N[a].branches[i]
      /\ Len(C[f].branches) = (IF N[a].depth = 0 THEN 0 ELSE m)
      /\ \A i \in 1..Len(C[f].branches) : C[f].branches[i] = N[a].branches[h + i]
      /\ C[f].depth = N[a].depth
  BY <1>4, <1>0 DEF IsCutAt
<1>6. /\ \A x \in Live(N) : C[x].depth = N[x].depth
      /\ \A x \in Live(N) : x # a => C[x].recs = N[x].recs /\ C[x].branches = N[x].branches
      /\ \A x \in Live(N) : (\A i \in 2..Len(C[f].branches) : C[f].branches[i] # x)
                            => C[x].parent = N[x].parent /\ C[x].pos = N[x].pos
  BY <1>4 DEF IsCutAt
<1>7. Takes(C, f, b, r, o)
  <2>1. f \in Live(C) /\ (C[f].depth # 0 => b \in Live(C))
    BY <1>1, <1>5
  <2>2. Len(C[f].branches) = IF C[f].depth = 0 THEN 0 ELSE Len(C[f].recs) + 1
    BY <1>5, <1>1
  <2>3. \A i \in 1..Len(C[f].branches) : C[f].branches[i] \in Live(C)
    <3>1. \A i \in 1..Len(C[f].branches) : h + i \in 1..Len(N[a].branches)
      BY <1>0, <1>1, <1>2, <1>5
    <3> QED BY <3>1, <1>2, <1>5
  <2>4. o \in 0..Len(C[f].recs)
    BY <1>0, <1>5
  <2> QED BY <2>1, <2>2, <2>3, <2>4, <1>1, <1>5 DEF Takes, Size, Width
<1>8. IsInsert(C, I, f, b, r, o)
  BY <1>7, InsertIsInsert
<1> HIDE DEF I
<1>9. /\ I \in Memory /\ Live(I) = Live(N) \cup {f}
      /\ Inserted(C[f].recs, o + 1, r, I[f].recs)
      /\ N[a].depth = 0 => I[f].branches = C[f].branches
      /\ N[a].depth # 0 => Inserted(C[f].branches, o + 2, b, I[f].branches)
  BY <1>8, <1>5 DEF IsInsert
<1>10. /\ \A x \in Live(N) \cup {f} : I[x].depth = C[x].depth
       /\ \A x \in Live(N) : I[x].recs = C[x].recs /\ I[x].branches = C[x].branches
       /\ \A x \in Live(N) : (\A i \in (o + 2)..Width(I, f) : I[f].branches[i] # x)
                             => I[x].parent = C[x].parent /\ I[x].pos = C[x].pos
  <2>1. \A x \in Live(N) : x # f
    BY <1>1
  <2> QED BY <1>8, <1>5, <2>1 DEF IsInsert
<1>11. /\ Len(I[f].recs) = m /\ \A i \in 1..m : I[f].recs[i] = V[a].recs[m + 1 + i]
       /\ \A i \in 1..(m + 1) : V[a].recs[i] = N[a].recs[i]
  <2> DEFINE s == N[a].recs
             g == C[f].recs
             t == V[a].recs
             u == I[f].recs
             c == m - 1
             q == o + 1
             P == p + 1
  <2>1. Len(s) \in Nat /\ h \in 0..Len(s) /\ c = Len(s) - h /\ q \in 1..(c + 1) /\ P = h + q
        /\ c + 1 = m /\ P - 1 = p
    BY <1>0, <1>1, <1>2
  <2>2. Part(g, s, h, c)
    BY <1>5 DEF Part
  <2>3. Inserted(s, P, r, t) /\ Inserted(g, q, r, u)
    BY <1>3, <1>9
  <2> HIDE DEF s, g, t, u, P, q, c
  <2>7. Behind(s, h, c, P, q, r, g, t, u)
    BY <2>1, <2>2, <2>3 DEF Behind
  <2>4. /\ Len(u) = c + 1 /\ \A i \in 1..(c + 1) : u[i] = t[h + i]
        /\ \A i \in 1..(P - 1) : t[i] = s[i]
    BY <2>7, RightTakes
  <2>5. \A i \in 1..(m + 1) : i \in 1..p
    BY <1>0, <1>1
  <2>6. (\A i \in 1..m : u[i] = t[m + 1 + i]) /\ \A i \in 1..(m + 1) : t[i] = s[i]
    BY <2>1, <2>4, <2>5, <1>0
  <2> QED BY <2>1, <2>4, <2>6 DEF s, t, u
<1>12. ASSUME N[a].depth # 0
       PROVE  /\ Len(I[f].branches) = m + 1 /\ \A i \in 1..(m + 1) : I[f].branches[i] = V[a].branches[m + 1 + i]
              /\ \A i \in 1..(p + 1) : V[a].branches[i] = N[a].branches[i]
              /\ \A i \in (p + 2)..(2 * m + 1) : V[a].branches[i + 1] = N[a].branches[i]
  <2> DEFINE s == N[a].branches
             g == C[f].branches
             t == V[a].branches
             u == I[f].branches
             q == o + 2
             P == p + 2
             c == m
  <2>1. Len(s) \in Nat /\ h \in 0..Len(s) /\ c = Len(s) - h /\ q \in 1..(c + 1) /\ P = h + q
        /\ P - 1 = p + 1 /\ Len(s) = 2 * m + 1
    BY <1>0, <1>1, <1>2, <1>12
  <2>2. Part(g, s, h, c)
    BY <1>5, <1>12 DEF Part
  <2>3. Inserted(s, P, b, t) /\ Inserted(g, q, b, u)
    BY <1>3, <1>9, <1>12
  <2> HIDE DEF s, g, t, u, P, q, c
  <2>7. Behind(s, h, c, P, q, b, g, t, u)
    BY <2>1, <2>2, <2>3 DEF Behind
  <2>4. /\ Len(u) = c + 1 /\ \A i \in 1..(c + 1) : u[i] = t[h + i]
        /\ \A i \in 1..(P - 1) : t[i] = s[i]
        /\ \A i \in P..Len(s) : t[i + 1] = s[i]
    BY <2>7, RightTakes
  <2>6. (\A i \in 1..(c + 1) : u[i] = t[m + 1 + i]) /\ (\A i \in 1..(p + 1) : t[i] = s[i])
        /\ \A i \in P..(2 * m + 1) : t[i + 1] = s[i]
    BY <2>1, <2>4, <1>0
  <2> QED BY <2>4, <2>6 DEF s, t, u, c, P
<1>13. Len(I[a].recs) = m + 1 /\ \A i \in 1..(m + 1) : I[a].recs[i] = V[a].recs[i]
  <2>1. I[a].recs = C[a].recs
    BY <1>1, <1>10
  <2> QED BY <2>1, <1>0, <1>5, <1>11
<1>14. /\ Len(I[a].branches) = IF N[a].depth = 0 THEN 0 ELSE m + 2
       /\ \A i \in 1..Len(I[a].branches) : I[a].branches[i] = V[a].branches[i]
  <2>1. I[a].branches = C[a].branches
    BY <1>1, <1>10
  <2>2. CASE N[a].depth = 0
    BY <2>1, <2>2, <1>5
  <2>3. CASE N[a].depth # 0
    <3>1. \A i \in 1..(h + 1) : i \in 1..(p + 1)
      BY <1>0, <1>1
    <3>2. h + 1 = m + 2
      BY <1>0, <1>1
    <3> QED BY <3>1, <3>2, <2>1, <2>3, <1>5, <1>12
  <2> QED BY <2>2, <2>3
<1>15. /\ Len(I[f].branches) = IF N[a].depth = 0 THEN 0 ELSE m + 1
       /\ \A i \in 2..Len(I[f].branches) : I[f].branches[i] = V[a].branches[m + 1 + i]
  <2>1. CASE N[a].depth = 0
    BY <2>1, <1>9, <1>5
  <2>2. CASE N[a].depth # 0
    <3>1. \A i \in 2..(m + 1) : i \in 1..(m + 1)
      BY <1>1
    <3> QED BY <3>1, <2>2, <1>12
  <2> QED BY <2>1, <2>2
<1>16. ASSUME NEW x \in Live(N), \A i \in (m + 2)..Width(V, a) : V[a].branches[i] # x
       PROVE  I[x].parent = V[x].parent /\ I[x].pos = V[x].pos
  <2>1. C[x].parent = N[x].parent /\ C[x].pos = N[x].pos
    <3>1. ASSUME NEW i \in 2..Len(C[f].branches) PROVE C[f].branches[i] # x
      <4> DEFINE j == h + i
      <4>1. N[a].depth # 0 /\ i \in 2..m /\ i \in 1..Len(C[f].branches)
        BY <1>1, <1>5
      <4>2. C[f].branches[i] = N[a].branches[j]
        BY <4>1, <1>5
      <4>3. j \in (m + 2)..(2 * m + 1)
        <5>1. h = m + 1
          BY <1>0
        <5>2. m \in Nat
          BY <1>1
        <5> QED BY <4>1, <5>1, <5>2
      <4> HIDE DEF j
      <4>4. CASE j <= p + 1
        <5>0. m \in Nat /\ p \in Nat /\ Width(V, a) = 2 * m + 2
          BY <4>1, <1>0, <1>1, <1>3
        <5>1. j \in 1..(p + 1) /\ j \in (m + 2)..Width(V, a)
          BY <4>3, <4>4, <5>0
        <5> QED BY <5>1, <4>1, <4>2, <1>12, <1>16
      <4>5. CASE j > p + 1
        <5>1. j \in (p + 2)..(2 * m + 1) /\ j + 1 \in (m + 2)..Width(V, a)
          BY <4>1, <4>3, <4>5, <1>0, <1>1, <1>3
        <5>2. V[a].branches[j + 1] = N[a].branches[j]
          BY <5>1, <4>1, <1>12
        <5> QED BY <5>1, <5>2, <4>2, <1>16
      <4> QED BY <4>3, <4>4, <4>5, <1>0, <1>1
    <3> QED BY <3>1, <1>6
  <2>2. I[x].parent = C[x].parent /\ I[x].pos = C[x].pos
    <3>1. ASSUME NEW i \in (o + 2)..Width(I, f) PROVE I[f].branches[i] # x
      <4>1. N[a].depth # 0 /\ i \in 2..Len(I[f].branches) /\ i \in 2..(m + 1)
        BY <1>0, <1>1, <1>15 DEF Width
      <4>2. I[f].branches[i] = V[a].branches[m + 1 + i]
        BY <4>1, <1>15
      <4>3. m + 1 + i \in (m + 2)..Width(V, a)
        BY <4>1, <1>1, <1>3
      <4> QED BY <4>2, <4>3, <1>16
    <3> QED BY <3>1, <1>10
  <2>3. V[x].parent = N[x].parent /\ V[x].pos = N[x].pos
    <3>1. \A i \in (p + 2)..Width(V, a) : i \in (m + 2)..Width(V, a)
      BY <1>0, <1>1, <1>3
    <3>2. \A i \in (p + 2)..Width(V, a) : V[a].branches[i] # x
      BY <3>1, <1>16
    <3> QED BY <3>2 DEF IsInsert
  <2> QED BY <2>1, <2>2, <2>3
<1>17. /\ I[f].depth = V[a].depth /\ \A x \in Live(N) : I[x].depth = V[x].depth
       /\ \A x \in Live(N) : x # a => I[x].recs = V[x].recs /\ I[x].branches = V[x].branches
  <2>1. /\ \A x \in Live(N) : V[x].depth = N[x].depth
        /\ \A x \in Live(N) : x # a => V[x].recs = N[x].recs /\ V[x].branches = N[x].branches
    BY DEF IsInsert
  <2> QED BY <2>1, <1>1, <1>5, <1>6, <1>10
<1>18. IsHalves(V, I, a, f, m)
  BY <1>1, <1>9, <1>11, <1>13, <1>14, <1>15, <1>16, <1>17 DEF IsHalves
<1> QED BY <1>18 DEF C, I, m, h, o

\* T is V with what a has behind its m + 1 first records in f, and the record
\* between left out.
IsCut(V, T, a, f, m) ==
    /\ T \in Memory /\ Live(T) = Live(V) \cup {f}
    /\ Size(T, a) = m /\ \A i \in 1..m : T[a].recs[i] = V[a].recs[i]
    /\ Size(T, f) = m /\ \A i \in 1..m : T[f].recs[i] = V[a].recs[m + 1 + i]
    /\ Width(T, a) = IF V[a].depth = 0 THEN 0 ELSE m + 1
    /\ \A i \in 1..Width(T, a) : T[a].branches[i] = V[a].branches[i]
    /\ Width(T, f) = IF V[a].depth = 0 THEN 0 ELSE m + 1
    /\ \A i \in 1..Width(T, f) : T[f].branches[i] = V[a].branches[m + 1 + i]
    /\ T[f].depth = V[a].depth
    /\ \A x \in Live(V) : T[x].depth = V[x].depth
    /\ \A x \in Live(V) : x # a => T[x].recs = V[x].recs /\ T[x].branches = V[x].branches
    /\ \A x \in Live(V) : (\A i \in 1..Width(T, f) : T[f].branches[i] # x)
                          => T[x].parent = V[x].parent /\ T[x].pos = V[x].pos
    /\ \A i \in 1..Width(T, f) : T[T[f].branches[i]].parent = f /\ T[T[f].branches[i]].pos = i - 1

Trimmed(ns, left, right) ==
    [ns EXCEPT ![left].recs = Front(@),
               ![left].branches = IF @ = <<>> THEN @ ELSE Front(@),
               ![right].branches = IF @ = <<>> THEN @
                                   ELSE <<Last(ns[left].branches)>> \o Tail(@)]

LEMMA TrimmedIs ==
    ASSUME NEW V \in Memory, NEW I, NEW a \in Live(V), NEW f \in Node, f \notin Live(V),
           NEW m \in Nat \ {0}, IsHalves(V, I, a, f, m),
           Width(V, a) = (IF V[a].depth = 0 THEN 0 ELSE 2 * m + 2),
           \A i \in 1..Width(V, a) : V[a].branches[i] \in Live(V),
           \A i, j \in 1..Width(V, a) : V[a].branches[i] = V[a].branches[j] => i = j
    PROVE  /\ IsCut(V, IF V[a].depth = 0 THEN Trimmed(I, a, f) ELSE Place(Trimmed(I, a, f), f, 1), a, f, m)
           /\ Last(I[a].recs) = V[a].recs[m + 1]
<1>1. /\ I \in Memory /\ Live(I) = Live(V) \cup {f}
      /\ Len(I[a].recs) = m + 1 /\ (\A i \in 1..(m + 1) : I[a].recs[i] = V[a].recs[i])
      /\ Len(I[f].recs) = m /\ (\A i \in 1..m : I[f].recs[i] = V[a].recs[m + 1 + i])
      /\ Len(I[a].branches) = (IF V[a].depth = 0 THEN 0 ELSE m + 2)
      /\ (\A i \in 1..Len(I[a].branches) : I[a].branches[i] = V[a].branches[i])
      /\ Len(I[f].branches) = (IF V[a].depth = 0 THEN 0 ELSE m + 1)
      /\ (\A i \in 2..Len(I[f].branches) : I[f].branches[i] = V[a].branches[m + 1 + i])
  BY DEF IsHalves
<1>2. /\ I[f].depth = V[a].depth
      /\ \A x \in Live(V) : I[x].depth = V[x].depth
      /\ \A x \in Live(V) : x # a => I[x].recs = V[x].recs /\ I[x].branches = V[x].branches
      /\ \A x \in Live(V) : (\A i \in (m + 2)..Width(V, a) : V[a].branches[i] # x)
                            => I[x].parent = V[x].parent /\ I[x].pos = V[x].pos
  BY DEF IsHalves
<1>3. a \in Live(I) /\ f \in Live(I) /\ a # f /\ a \in Node /\ m \in Nat /\ m > 0
  BY <1>1, NodeTypes
<1>4. /\ I[a] \in NodeRec /\ I[a].recs \in Seq(Keys) /\ I[a].branches \in Seq(Node)
      /\ I[f] \in NodeRec /\ I[f].recs \in Seq(Keys) /\ I[f].branches \in Seq(Node) /\ V[a].depth \in Nat
  BY <1>1, <1>3, NodeTypes
<1> DEFINE R1 == Front(I[a].recs)
           B1 == IF I[a].branches = <<>> THEN I[a].branches ELSE Front(I[a].branches)
           R2 == I[f].recs
           B2 == IF I[f].branches = <<>> THEN I[f].branches
                 ELSE <<Last(I[a].branches)>> \o Tail(I[f].branches)
           w == [I[a] EXCEPT !.recs = R1, !.branches = B1]
           v == [I[f] EXCEPT !.recs = R2, !.branches = B2]
           A == [I EXCEPT ![a] = w]
           L == [A EXCEPT ![f] = v]
           T == IF V[a].depth = 0 THEN L ELSE Place(L, f, 1)
<1>5. Trimmed(I, a, f) = L
  <2>1. [I[f] EXCEPT !.branches = B2] = v
    BY <1>4 DEF NodeRec
  <2>2. Trimmed(I, a, f) = [A EXCEPT ![f] = [I[f] EXCEPT !.branches = B2]]
    BY <1>1, <1>3, <1>4 DEF Trimmed, Memory, NodeRec
  <2> HIDE DEF v, A, B2
  <2> QED BY <2>1, <2>2
<1>6. /\ R1 \in Seq(Keys) /\ Len(R1) = m /\ (\A i \in 1..m : R1[i] = V[a].recs[i])
      /\ Last(I[a].recs) = V[a].recs[m + 1]
  <2> DEFINE s == I[a].recs
  <2>1. s \in Seq(Keys) /\ Len(s) = m + 1 /\ s # <<>>
    BY <1>1, <1>3, <1>4
  <2> HIDE DEF s
  <2>2. Front(s) \in Seq(Keys) /\ Len(Front(s)) = m /\ Last(s) = s[m + 1]
        /\ \A i \in 1..m : Front(s)[i] = s[i]
    <3>1. (m + 1) - 1 = m
      BY <1>3
    <3>2. Front(s) \in Seq(Keys) /\ Len(Front(s)) = Len(s) - 1 /\ Last(s) = s[Len(s)]
          /\ \A i \in 1..(Len(s) - 1) : Front(s)[i] = s[i]
      BY <2>1, EndProps
    <3> QED BY <2>1, <3>1, <3>2
  <2> QED BY <2>2, <1>1, <1>3 DEF s
<1>7. /\ B1 \in Seq(Node) /\ Len(B1) = (IF V[a].depth = 0 THEN 0 ELSE m + 1)
      /\ \A i \in 1..Len(B1) : B1[i] = V[a].branches[i]
  <2>1. CASE V[a].depth = 0
    BY <2>1, <1>1, <1>4
  <2>2. CASE V[a].depth # 0
    <3> DEFINE s == I[a].branches
    <3>1. s \in Seq(Node) /\ Len(s) = m + 2 /\ s # <<>> /\ (\A i \in 1..(m + 2) : s[i] = V[a].branches[i])
      BY <1>1, <1>3, <1>4, <2>2
    <3>2. B1 = Front(s)
      BY <3>1
    <3> HIDE DEF s, B1
    <3>3. Front(s) \in Seq(Node) /\ Len(Front(s)) = m + 1 /\ \A i \in 1..(m + 1) : Front(s)[i] = s[i]
      <4>1. (m + 2) - 1 = m + 1
        BY <1>3
      <4>2. Front(s) \in Seq(Node) /\ Len(Front(s)) = Len(s) - 1
            /\ \A i \in 1..(Len(s) - 1) : Front(s)[i] = s[i]
        BY <3>1, EndProps
      <4> QED BY <3>1, <4>1, <4>2
    <3> QED BY <3>1, <3>2, <3>3, <2>2, <1>3
  <2> QED BY <2>1, <2>2
<1>8. /\ B2 \in Seq(Node) /\ Len(B2) = (IF V[a].depth = 0 THEN 0 ELSE m + 1)
      /\ \A i \in 1..Len(B2) : B2[i] = V[a].branches[m + 1 + i]
  <2>1. CASE V[a].depth = 0
    BY <2>1, <1>1, <1>4
  <2>2. CASE V[a].depth # 0
    <3> DEFINE s == I[a].branches
               g == I[f].branches
               e == Last(s)
               z == Tail(g)
    <3>1. s \in Seq(Node) /\ Len(s) = m + 2 /\ s # <<>> /\ s[m + 2] = V[a].branches[m + 2]
      BY <1>1, <1>3, <1>4, <2>2
    <3>2. g \in Seq(Node) /\ Len(g) = m + 1 /\ g # <<>> /\ \A i \in 2..(m + 1) : g[i] = V[a].branches[m + 1 + i]
      BY <1>1, <1>3, <1>4, <2>2
    <3>3. B2 = <<e>> \o z
      BY <3>2
    <3> HIDE DEF s, g, B2
    <3>4. e \in Node /\ e = V[a].branches[m + 2]
      BY <3>1, <1>3, EndProps
    <3>5. z \in Seq(Node) /\ Len(z) = m /\ \A i \in 1..m : z[i] = V[a].branches[m + 1 + (i + 1)]
      <4>1. z \in Seq(Node) /\ Len(z) = Len(g) - 1 /\ \A i \in 1..(Len(g) - 1) : z[i] = g[i + 1]
        BY <3>2, <1>3, EndProps
      <4>2. \A i \in 1..m : i + 1 \in 2..(m + 1)
        BY <1>3
      <4> QED BY <4>1, <4>2, <3>2, <1>3
    <3> HIDE DEF e, z
    <3>6. B2 \in Seq(Node) /\ Len(B2) = Len(z) + 1 /\ B2[1] = e /\ \A i \in 1..Len(z) : B2[i + 1] = z[i]
      BY <3>3, <3>4, <3>5, AddProps
    <3>7. ASSUME NEW i \in 1..(m + 1) PROVE B2[i] = V[a].branches[m + 1 + i]
      <4>1. CASE i = 1
        <5>1. m + 1 + i = m + 2
          BY <4>1, <1>3
        <5> QED BY <5>1, <4>1, <3>6, <3>4
      <4>2. CASE i > 1
        <5> DEFINE j == i - 1
        <5>1. j \in 1..m /\ j + 1 = i
          BY <4>2, <1>3
        <5> HIDE DEF j
        <5>2. B2[j + 1] = z[j] /\ z[j] = V[a].branches[m + 1 + (j + 1)]
          BY <5>1, <3>5, <3>6
        <5> QED BY <5>1, <5>2
      <4> QED BY <4>1, <4>2, <1>3
    <3> QED BY <3>5, <3>6, <3>7, <2>2
  <2> QED BY <2>1, <2>2
<1> HIDE DEF R1, B1, B2
<1>9. IsWith(I[a], R1, B1, w) /\ IsWith(I[f], R2, B2, v)
  BY <1>4, <1>6, <1>7, <1>8, With
<1> HIDE DEF w, v
<1>10. IsWrite(I, a, w, A)
  BY <1>1, <1>3, <1>9, Written DEF IsWith
<1> HIDE DEF A
<1>11. IsWrite(A, f, v, L)
  <2>1. A \in Memory /\ v \in NodeRec
    BY <1>9, <1>10 DEF IsWith, IsWrite
  <2> QED BY <2>1, Written
<1> HIDE DEF L
<1>12. /\ L \in Memory /\ Live(L) = Live(V) \cup {f} /\ L[a] = w /\ L[f] = v
       /\ \A x \in Live(V) : x # a => L[x] = I[x]
  <2>1. L \in Memory /\ Live(L) = Live(A) \cup {f} /\ L[f] = v /\ \A x \in Node : x # f => L[x] = A[x]
    BY <1>11 DEF IsWrite
  <2>2. Live(A) = Live(I) \cup {a} /\ A[a] = w /\ \A x \in Node : x # a => A[x] = I[x]
    BY <1>10 DEF IsWrite
  <2>3. \A x \in Live(V) : x \in Node /\ x # f
    BY DEF Live
  <2> QED BY <2>1, <2>2, <2>3, <1>1, <1>3
<1>13. /\ L[a].recs = R1 /\ L[a].branches = B1 /\ L[f].recs = I[f].recs /\ L[f].branches = B2
       /\ Width(L, f) = Len(B2) /\ Width(L, a) = Len(B1) /\ Size(L, a) = m /\ Size(L, f) = m
       /\ L[a].depth = V[a].depth /\ L[f].depth = V[a].depth
       /\ L[a].parent = I[a].parent /\ L[a].pos = I[a].pos
  BY <1>12, <1>9, <1>6, <1>2, <1>1 DEF IsWith, Width, Size
<1>14. /\ T \in Memory /\ Live(T) = Live(L)
       /\ \A x \in Live(L) : /\ T[x].recs = L[x].recs /\ T[x].branches = L[x].branches
                             /\ T[x].depth = L[x].depth
       /\ \A x \in Node : (\A i \in 1..Width(L, f) : L[f].branches[i] # x) => T[x] = L[x]
       /\ \A i \in 1..Width(L, f) : T[L[f].branches[i]].parent = f /\ T[L[f].branches[i]].pos = i - 1
  <2>1. CASE V[a].depth = 0
    <3>1. Width(L, f) = 0
      BY <2>1, <1>13, <1>8
    <3>2. T = L
      BY <2>1
    <3> QED BY <3>1, <3>2, <1>12
  <2>2. CASE V[a].depth # 0
    <3> DEFINE from == 1
               P == Place(L, f, from)
    <3>1. Width(L, f) = m + 1 /\ \A i \in 1..(m + 1) : /\ L[f].branches[i] = V[a].branches[m + 1 + i]
                                                      /\ m + 1 + i \in 1..Width(V, a)
      BY <2>2, <1>13, <1>8, <1>3
    <3>2. \A i \in 1..(m + 1) : L[f].branches[i] \in Live(L)
      BY <3>1, <1>12
    <3>3. \A i, j \in 1..(m + 1) : L[f].branches[i] = L[f].branches[j] => i = j
      <4> TAKE i, j \in 1..(m + 1)
      <4> HAVE L[f].branches[i] = L[f].branches[j]
      <4>1. m + 1 + i = m + 1 + j
        BY <3>1
      <4> QED BY <4>1, <1>3
    <3>4. L \in Memory /\ f \in Live(L) /\ from \in Nat \ {0}
          /\ (\A i \in from..Width(L, f) : L[f].branches[i] \in Live(L))
          /\ \A i, j \in from..Width(L, f) : L[f].branches[i] = L[f].branches[j] => i = j
      BY <1>12, <3>1, <3>2, <3>3
    <3> HIDE DEF from
    <3>5. /\ P \in Memory /\ Live(P) = Live(L)
          /\ \A x \in Live(L) : /\ P[x].recs = L[x].recs /\ P[x].branches = L[x].branches
                                /\ P[x].depth = L[x].depth
          /\ \A x \in Node : (\A i \in from..Width(L, f) : L[f].branches[i] # x) => P[x] = L[x]
      BY <3>4, PlaceKeeps
    <3>6. \A i \in from..Width(L, f) : P[L[f].branches[i]].parent = f /\ P[L[f].branches[i]].pos = i - 1
      BY <3>4, PlaceProps
    <3> HIDE DEF P
    <3>7. T = P
      BY <2>2 DEF P, from
    <3> HIDE DEF T
    <3> QED BY <3>5, <3>6, <3>7 DEF from
  <2> QED BY <2>1, <2>2
<1> HIDE DEF T
<1>15. /\ T[a].recs = R1 /\ T[a].branches = B1 /\ T[f].recs = I[f].recs /\ T[f].branches = B2
       /\ T[a].depth = V[a].depth /\ T[f].depth = V[a].depth
  BY <1>12, <1>13, <1>14
<1>16. /\ Size(T, a) = m /\ (\A i \in 1..m : T[a].recs[i] = V[a].recs[i])
       /\ Size(T, f) = m /\ (\A i \in 1..m : T[f].recs[i] = V[a].recs[m + 1 + i])
       /\ Width(T, a) = (IF V[a].depth = 0 THEN 0 ELSE m + 1)
       /\ (\A i \in 1..Width(T, a) : T[a].branches[i] = V[a].branches[i])
       /\ Width(T, f) = (IF V[a].depth = 0 THEN 0 ELSE m + 1)
       /\ (\A i \in 1..Width(T, f) : T[f].branches[i] = V[a].branches[m + 1 + i])
       /\ Width(T, f) = Width(L, f)
  BY <1>15, <1>1, <1>6, <1>7, <1>8, <1>13 DEF Size, Width
<1>17. /\ \A x \in Live(V) : T[x].depth = V[x].depth
       /\ \A x \in Live(V) : x # a => T[x].recs = V[x].recs /\ T[x].branches = V[x].branches
  BY <1>15, <1>12, <1>14, <1>2
<1>18. ASSUME NEW x \in Live(V), \A i \in 1..Width(T, f) : T[f].branches[i] # x
       PROVE  T[x].parent = V[x].parent /\ T[x].pos = V[x].pos
  <2>1. T[x] = L[x]
    <3>1. x \in Node
      BY DEF Live
    <3> QED BY <3>1, <1>18, <1>13, <1>14, <1>15, <1>16
  <2>2. L[x].parent = I[x].parent /\ L[x].pos = I[x].pos
    BY <1>12, <1>13
  <2>3. ASSUME NEW i \in (m + 2)..Width(V, a) PROVE V[a].branches[i] # x
    <3> DEFINE j == i - (m + 1)
    <3>1. V[a].depth # 0 /\ Width(V, a) = 2 * m + 2
      BY <1>3
    <3>2. j \in 1..(m + 1) /\ m + 1 + j = i
      BY <3>1, <1>3
    <3> HIDE DEF j
    <3>3. T[f].branches[j] = V[a].branches[i] /\ T[f].branches[j] # x
      BY <3>1, <3>2, <1>16, <1>18
    <3> QED BY <3>3
  <2> QED BY <2>1, <2>2, <2>3, <1>2
<1>19. \A i \in 1..Width(T, f) : T[T[f].branches[i]].parent = f /\ T[T[f].branches[i]].pos = i - 1
  BY <1>13, <1>14, <1>15, <1>16
<1>20. IsCut(V, T, a, f, m)
  BY <1>12, <1>14, <1>15, <1>16, <1>17, <1>18, <1>19 DEF IsCut
<1> QED BY <1>5, <1>6, <1>20 DEF T

LEMMA NodeSplitIs ==
    ASSUME NEW N, NEW V, NEW a, NEW f, NEW b, NEW r, NEW p,
           Full(N, a, f), Takes(N, a, b, r, p), IsInsert(N, V, a, b, r, p),
           \A i \in 1..Width(V, a) : V[a].branches[i] \in Live(V),
           \A i, j \in 1..Width(V, a) : V[a].branches[i] = V[a].branches[j] => i = j
    PROVE  /\ IsCut(V, NodeSplit(N, a, f, b, r, p).ns, a, f, MinElements)
           /\ NodeSplit(N, a, f, b, r, p).median = V[a].recs[MinElements + 1]
<1> DEFINE m == MinElements
           I == IF p <= m THEN NodeInsert(CutAt(N, a, f, m), a, b, r, p)
                ELSE NodeInsert(CutAt(N, a, f, m + 1), f, b, r, p - (m + 1))
           T == IF V[a].depth = 0 THEN Trimmed(I, a, f) ELSE Place(Trimmed(I, a, f), f, 1)
<1>1. /\ V \in Memory /\ Live(V) = Live(N) /\ a \in Live(N) /\ f \notin Live(N) /\ f \in Node
      /\ m \in Nat \ {0} /\ p \in Nat /\ V[a].depth = N[a].depth
      /\ Width(V, a) = IF V[a].depth = 0 THEN 0 ELSE 2 * m + 2
  BY FullInsert
<1>2. NodeSplit(N, a, f, b, r, p) = [ns |-> T, median |-> Last(I[a].recs)]
  <2> DEFINE h == m + (IF p <= m THEN 0 ELSE 1)
             J == IF p <= m THEN NodeInsert(CutAt(N, a, f, h), a, b, r, p)
                  ELSE NodeInsert(CutAt(N, a, f, h), f, b, r, p - h)
  <2>1. NodeSplit(N, a, f, b, r, p)
           = [ns |-> IF N[a].depth = 0 THEN Trimmed(J, a, f) ELSE Place(Trimmed(J, a, f), f, 1),
              median |-> Last(J[a].recs)]
    BY DEF NodeSplit, CutAt, Trimmed
  <2>2. h = IF p <= m THEN m ELSE m + 1
    BY <1>1
  <2>3. J = I
    <3> HIDE DEF h
    <3> QED BY <2>2
  <2> HIDE DEF I, J
  <2> QED BY <2>1, <2>3, <1>1
<1>3. IsHalves(V, I, a, f, m)
  <2>1. CASE p <= m
    BY <2>1, HalvesLeft
  <2>2. CASE ~(p <= m)
    <3>1. p > m
      BY <2>2, <1>1
    <3> QED BY <3>1, <2>2, HalvesRight
  <2> QED BY <2>1, <2>2
<1> HIDE DEF I, m
<1>4. IsCut(V, T, a, f, m) /\ Last(I[a].recs) = V[a].recs[m + 1]
  BY <1>1, <1>3, TrimmedIs
<1> HIDE DEF T
<1> QED BY <1>2, <1>4 DEF m

\* The parent takes the median and the new node: with it, the node is split.
LEMMA CutSplits ==
    ASSUME NEW V, NEW top, Linked(V, top), NEW a \in Live(V), a # top, NEW f \in Node, f \notin Live(V),
           NEW m \in Nat \ {0}, Size(V, a) = 2 * m + 1, NEW T, IsCut(V, T, a, f, m), NEW e, e = V[a].recs[m + 1]
    PROVE  /\ Takes(T, V[a].parent, f, e, V[a].pos)
           /\ IsSplit(V, NodeInsert(T, V[a].parent, f, e, V[a].pos), a, f, V[a].parent, V[a].pos, m)
<1> DEFINE q == V[a].parent
           o == V[a].pos
           W == NodeInsert(T, q, f, e, o)
<1>1. /\ V \in Memory /\ q \in Live(V) /\ o \in Nat /\ o + 1 \in 1..Width(V, q)
      /\ V[q].branches[o + 1] = a /\ V[q].depth = V[a].depth + 1 /\ V[q].depth # 0
      /\ Width(V, q) = Size(V, q) + 1 /\ q # a /\ V[a].parent = q /\ V[a].pos = o
  <2>1. V \in Memory
    BY DEF Linked
  <2> QED BY <2>1, LinkUp
<1> HIDE DEF q, o
<1>2. q # f /\ a # f /\ q \in Node /\ Size(V, q) \in Nat /\ Width(V, q) \in Nat /\ V[q].depth \in Nat
      /\ V[a].depth \in Nat
  BY <1>1, NodeTypes
<1>3. /\ T \in Memory /\ Live(T) = Live(V) \cup {f}
      /\ Size(T, a) = m /\ (\A i \in 1..m : T[a].recs[i] = V[a].recs[i])
      /\ Size(T, f) = m /\ (\A i \in 1..m : T[f].recs[i] = V[a].recs[m + 1 + i])
      /\ Width(T, a) = (IF V[a].depth = 0 THEN 0 ELSE m + 1)
      /\ (\A i \in 1..Width(T, a) : T[a].branches[i] = V[a].branches[i])
      /\ Width(T, f) = (IF V[a].depth = 0 THEN 0 ELSE m + 1)
      /\ (\A i \in 1..Width(T, f) : T[f].branches[i] = V[a].branches[m + 1 + i])
      /\ T[f].depth = V[a].depth
  BY DEF IsCut
<1>4. /\ \A x \in Live(V) : T[x].depth = V[x].depth
      /\ \A x \in Live(V) : x # a => T[x].recs = V[x].recs /\ T[x].branches = V[x].branches
      /\ \A x \in Live(V) : (\A i \in 1..Width(T, f) : T[f].branches[i] # x)
                            => T[x].parent = V[x].parent /\ T[x].pos = V[x].pos
      /\ \A i \in 1..Width(T, f) : T[T[f].branches[i]].parent = f /\ T[T[f].branches[i]].pos = i - 1
  BY DEF IsCut
<1>5. T[q].recs = V[q].recs /\ T[q].branches = V[q].branches /\ T[q].depth = V[q].depth
      /\ Size(T, q) = Size(V, q) /\ Width(T, q) = Width(V, q)
      /\ Len(V[q].recs) = Size(V, q) /\ Len(V[q].branches) = Width(V, q)
  BY <1>1, <1>4 DEF Size, Width
<1>6. ASSUME NEW n \in Live(V), NEW i \in 1..Width(V, n)
      PROVE  /\ V[n].branches[i] \in Live(V)
             /\ V[V[n].branches[i]].parent = n /\ V[V[n].branches[i]].pos = i - 1
  BY LinkDown
<1>7. e \in Keys
  <2>1. m + 1 \in 1..Size(V, a)
    OBVIOUS
  <2> QED BY <2>1, <1>1, NodeTypes
<1>8. Takes(T, q, f, e, o)
  <2>1. o \in 0..Size(T, q) /\ f \in Live(T) /\ q \in Live(T)
    BY <1>1, <1>2, <1>3, <1>5
  <2>2. \A i \in 1..Width(T, q) : T[q].branches[i] \in Live(T)
    BY <1>1, <1>3, <1>5, <1>6
  <2> QED BY <2>1, <2>2, <1>1, <1>3, <1>5, <1>7 DEF Takes
<1>9. IsInsert(T, W, q, f, e, o)
  BY <1>8, InsertIsInsert
<1> HIDE DEF W
<1>10. /\ W \in Memory /\ Live(W) = Live(V) \cup {f}
       /\ Inserted(V[q].recs, o + 1, e, W[q].recs)
       /\ Inserted(V[q].branches, o + 2, f, W[q].branches)
       /\ \A x \in Live(V) \cup {f} : W[x].depth = T[x].depth
       /\ \A x \in Live(V) \cup {f} : x # q => W[x].recs = T[x].recs /\ W[x].branches = T[x].branches
  BY <1>1, <1>3, <1>5, <1>9 DEF IsInsert
<1>11. /\ \A x \in Live(V) \cup {f} : (\A i \in (o + 2)..Width(W, q) : W[q].branches[i] # x)
                                      => W[x].parent = T[x].parent /\ W[x].pos = T[x].pos
       /\ (\A i, j \in (o + 2)..Width(W, q) : W[q].branches[i] = W[q].branches[j] => i = j)
          => \A i \in (o + 2)..Width(W, q) : W[W[q].branches[i]].parent = q /\ W[W[q].branches[i]].pos = i - 1
  BY <1>3, <1>9 DEF IsInsert
<1>12. /\ Size(W, q) = Size(V, q) + 1 /\ W[q].recs[o + 1] = e
       /\ (\A i \in 1..o : W[q].recs[i] = V[q].recs[i])
       /\ \A i \in (o + 1)..Size(V, q) : W[q].recs[i + 1] = V[q].recs[i]
  <2>1. (o + 1) - 1 = o
    BY <1>1
  <2> QED BY <2>1, <1>5, <1>10 DEF Inserted, Size
<1>13. /\ Width(W, q) = Width(V, q) + 1 /\ W[q].branches[o + 2] = f
       /\ (\A i \in 1..(o + 1) : W[q].branches[i] = V[q].branches[i])
       /\ \A i \in (o + 2)..Width(V, q) : W[q].branches[i + 1] = V[q].branches[i]
  <2>1. (o + 2) - 1 = o + 1
    BY <1>1
  <2> QED BY <2>1, <1>5, <1>10 DEF Inserted, Width
<1>14. ASSUME NEW i \in (o + 2)..Width(W, q), i # o + 2
       PROVE  /\ i - 1 \in 1..Width(V, q) /\ i - 1 > o + 1 /\ W[q].branches[i] = V[q].branches[i - 1]
              /\ W[q].branches[i] \in Live(V) /\ V[W[q].branches[i]].parent = q
              /\ V[W[q].branches[i]].pos = i - 2
  <2> DEFINE j == i - 1
  <2>1. j \in (o + 2)..Width(V, q) /\ j \in 1..Width(V, q) /\ j + 1 = i /\ j > o + 1 /\ j - 1 = i - 2
    BY <1>14, <1>1, <1>2, <1>13
  <2> HIDE DEF j
  <2>2. W[q].branches[j + 1] = V[q].branches[j]
    BY <2>1, <1>13
  <2>3. V[q].branches[j] \in Live(V) /\ V[V[q].branches[j]].parent = q /\ V[V[q].branches[j]].pos = j - 1
    BY <2>1, <1>1, <1>6
  <2> QED BY <2>1, <2>2, <2>3 DEF j
<1>15. \A i, j \in (o + 2)..Width(W, q) : W[q].branches[i] = W[q].branches[j] => i = j
  <2> SUFFICES ASSUME NEW i \in (o + 2)..Width(W, q), NEW j \in (o + 2)..Width(W, q),
                      W[q].branches[i] = W[q].branches[j]
               PROVE  i = j
    OBVIOUS
  <2>1. CASE i # o + 2 /\ j # o + 2
    <3>1. i - 2 = j - 2
      BY <2>1, <1>14
    <3> QED BY <3>1, <1>1
  <2>2. CASE i = o + 2 \/ j = o + 2
    <3>1. W[q].branches[i] = f /\ W[q].branches[j] = f
      BY <2>2, <1>13
    <3> QED BY <3>1, <1>14
  <2> QED BY <2>1, <2>2
<1>16. \A i \in (o + 2)..Width(W, q) : W[W[q].branches[i]].parent = q /\ W[W[q].branches[i]].pos = i - 1
  BY <1>11, <1>15
<1>17. W[f].parent = q /\ W[f].pos = o + 1
  <2>1. o + 2 \in (o + 2)..Width(W, q) /\ (o + 2) - 1 = o + 1
    BY <1>1, <1>2, <1>13
  <2> QED BY <2>1, <1>13, <1>16
<1>18. ASSUME NEW x \in Live(V)
       PROVE  /\ W[x].parent = IF V[x].parent = a /\ V[x].pos > m THEN f ELSE V[x].parent
              /\ W[x].pos = IF V[x].parent = a /\ V[x].pos > m THEN V[x].pos - (m + 1)
                            ELSE IF V[x].parent = q /\ V[x].pos > o THEN V[x].pos + 1
                            ELSE V[x].pos
  <2>1. V[x].pos \in Nat /\ V[x].parent \in Node \cup {NoNode}
    BY <1>1, NodeTypes
  <2>2. CASE V[x].parent = a /\ V[x].pos > m
    <3>1. x # top
      <4>1. V[top].parent = NoNode /\ a # NoNode
        BY <1>1, NodeTypes DEF Linked
      <4> QED BY <4>1, <2>2
    <3> DEFINE i == V[x].pos - m
    <3>2. V[x].pos + 1 \in 1..Width(V, a) /\ V[a].branches[V[x].pos + 1] = x /\ V[a].depth # 0
      BY <2>2, <3>1, LinkUp
    <3>3. Width(V, a) = 2 * m + 2
      BY <3>2, LinkDown
    <3>4. i \in 1..Width(T, f) /\ m + 1 + i = V[x].pos + 1 /\ i - 1 = V[x].pos - (m + 1)
      BY <3>2, <3>3, <2>1, <2>2, <1>3
    <3> HIDE DEF i
    <3>5. T[f].branches[i] = x
      BY <3>2, <3>4, <1>3
    <3>6. T[x].parent = f /\ T[x].pos = i - 1
      BY <3>4, <3>5, <1>4
    <3>7. ASSUME NEW j \in (o + 2)..Width(W, q) PROVE W[q].branches[j] # x
      BY <1>14, <1>13, <2>2, <1>1
    <3>8. W[x].parent = f /\ W[x].pos = i - 1
      BY <3>6, <3>7, <1>11
    <3> QED BY <3>4, <3>8, <2>2
  <2>3. CASE V[x].parent = q /\ V[x].pos > o
    <3>1. x # top
      <4>1. V[top].parent = NoNode /\ q # NoNode
        BY <1>1, NodeTypes DEF Linked
      <4> QED BY <4>1, <2>3
    <3> DEFINE i == V[x].pos + 1
    <3>2. i \in 1..Width(V, q) /\ V[q].branches[i] = x
      BY <2>3, <3>1, LinkUp
    <3>3. i \in (o + 2)..Width(V, q) /\ i + 1 \in (o + 2)..Width(W, q) /\ (i + 1) - 1 = V[x].pos + 1
      BY <3>2, <2>1, <2>3, <1>1, <1>2, <1>13
    <3> HIDE DEF i
    <3>4. W[q].branches[i + 1] = x
      BY <3>2, <3>3, <1>13
    <3>5. W[x].parent = q /\ W[x].pos = V[x].pos + 1
      BY <3>3, <3>4, <1>16
    <3> QED BY <3>5, <2>3, <1>1
  <2>4. CASE ~(V[x].parent = a /\ V[x].pos > m) /\ ~(V[x].parent = q /\ V[x].pos > o)
    <3>1. ASSUME NEW i \in 1..Width(T, f) PROVE T[f].branches[i] # x
      <4>1. V[a].depth # 0 /\ Width(V, a) = 2 * m + 2 /\ Width(T, f) = m + 1
        BY <1>3, LinkDown
      <4>2. m + 1 + i \in 1..Width(V, a) /\ (m + 1 + i) - 1 > m
        BY <4>1
      <4>3. V[V[a].branches[m + 1 + i]].parent = a /\ V[V[a].branches[m + 1 + i]].pos > m
        BY <4>2, <1>6
      <4> QED BY <4>3, <1>3, <2>4
    <3>2. T[x].parent = V[x].parent /\ T[x].pos = V[x].pos
      BY <3>1, <1>4
    <3>3. ASSUME NEW i \in (o + 2)..Width(W, q) PROVE W[q].branches[i] # x
      <4>1. CASE i = o + 2
        BY <4>1, <1>13
      <4>2. CASE i # o + 2
        <5>1. V[W[q].branches[i]].parent = q /\ V[W[q].branches[i]].pos = i - 2 /\ i - 1 > o + 1
          BY <4>2, <1>14
        <5>2. i - 2 > o
          BY <5>1, <1>1
        <5> QED BY <5>1, <5>2, <2>4
      <4> QED BY <4>1, <4>2
    <3>4. W[x].parent = V[x].parent /\ W[x].pos = V[x].pos
      BY <3>2, <3>3, <1>11
    <3> QED BY <3>4, <2>4
  <2> QED BY <2>2, <2>3, <2>4
<1>19. /\ \A x \in Live(V) : W[x].depth = V[x].depth
       /\ \A x \in Live(V) : x # a /\ x # q => W[x].recs = V[x].recs /\ W[x].branches = V[x].branches
       /\ W[f].depth = V[a].depth
  BY <1>3, <1>4, <1>10
<1>20. /\ W[a].recs = T[a].recs /\ W[a].branches = T[a].branches
       /\ W[f].recs = T[f].recs /\ W[f].branches = T[f].branches
  BY <1>1, <1>2, <1>10
<1>21. Size(V, a) - m - 1 = m /\ Size(V, a) - m = m + 1 /\ m < Size(V, a) /\ m \in Nat
  OBVIOUS
<1>22. /\ Size(W, a) = m /\ (\A i \in 1..m : W[a].recs[i] = V[a].recs[i])
       /\ Size(W, f) = m /\ (\A i \in 1..m : W[f].recs[i] = V[a].recs[m + 1 + i])
       /\ Width(W, a) = (IF V[a].depth = 0 THEN 0 ELSE m + 1)
       /\ (\A i \in 1..Width(W, a) : W[a].branches[i] = V[a].branches[i])
       /\ Width(W, f) = (IF V[a].depth = 0 THEN 0 ELSE m + 1)
       /\ (\A i \in 1..Width(W, f) : W[f].branches[i] = V[a].branches[m + 1 + i])
  BY <1>3, <1>20 DEF Size, Width
<1>23. IsSplit(V, W, a, f, q, o, m)
  BY <1>1, <1>10, <1>12, <1>13, <1>17, <1>18, <1>19, <1>21, <1>22 DEF IsSplit
<1> QED BY <1>8, <1>23 DEF q, o, W

-----------------------------------------------------------------------------
(* A root above the root, and its end *)

\* G is V with the node g, that has no records, above the root a.
IsCrowned(V, G, a, g) ==
    /\ g \in Node /\ g \notin Live(V) /\ a \in Live(V)
    /\ G \in Memory /\ Live(G) = Live(V) \cup {g}
    /\ G[g].recs = <<>> /\ G[g].branches = <<a>> /\ G[g].parent = NoNode
    /\ G[g].depth = V[a].depth + 1
    /\ \A x \in Live(V) : /\ G[x].recs = V[x].recs /\ G[x].branches = V[x].branches
                          /\ G[x].depth = V[x].depth
    /\ \A x \in Live(V) : x # a => G[x].parent = V[x].parent /\ G[x].pos = V[x].pos
    /\ G[a].parent = g /\ G[a].pos = 0
IsPlanted(V, G, a, g) == IsCrowned(V, G, a, g) /\ G[g].pos = 0

LEMMA Planted ==
    ASSUME NEW V \in Memory, NEW a \in Live(V), NEW g \in Node, g \notin Live(V)
    PROVE  \E G : IsPlanted(V, G, a, g)
<1> DEFINE r == [recs |-> <<>>, branches |-> <<a>>, parent |-> NoNode, pos |-> 0, depth |-> V[a].depth + 1]
           w == [recs |-> V[a].recs, branches |-> V[a].branches, parent |-> g, pos |-> 0,
                 depth |-> V[a].depth]
           A == [V EXCEPT ![g] = r]
           G == [A EXCEPT ![a] = w]
<1>1. a \in Node /\ V[a].recs \in Seq(Keys) /\ V[a].branches \in Seq(Node) /\ V[a].depth \in Nat /\ a # g
  BY NodeTypes
<1>2. r \in NodeRec
  BY <1>1 DEF NodeRec
<1>3. w \in NodeRec
  BY <1>1 DEF NodeRec
<1>4. IsWrite(V, g, r, A)
  BY <1>2, Written
<1> HIDE DEF A
<1>5. IsWrite(A, a, w, G)
  <2>1. A \in Memory
    BY <1>4 DEF IsWrite
  <2> QED BY <1>1, <1>3, <2>1, Written
<1> HIDE DEF G
<1>6. /\ G \in Memory /\ Live(G) = Live(V) \cup {g} /\ G[a] = w /\ G[g] = r
      /\ \A x \in Live(V) : x # a => G[x] = V[x]
  <2>1. G \in Memory /\ Live(G) = Live(A) \cup {a} /\ G[a] = w /\ \A x \in Node : x # a => G[x] = A[x]
    BY <1>5 DEF IsWrite
  <2>2. Live(A) = Live(V) \cup {g} /\ A[g] = r /\ \A x \in Node : x # g => A[x] = V[x]
    BY <1>4 DEF IsWrite
  <2>3. \A x \in Live(V) : x \in Node /\ x # g
    BY DEF Live
  <2> QED BY <2>1, <2>2, <2>3, <1>1
<1>7. IsPlanted(V, G, a, g)
  BY <1>1, <1>6 DEF IsPlanted, IsCrowned
<1> QED BY <1>7

LEMMA PlantedLinked ==
    ASSUME NEW V, NEW G, NEW a, NEW g, IsPlanted(V, G, a, g), Linked(V, a)
    PROVE  Linked(G, g)
<1>1. /\ g \notin Live(V) /\ a \in Live(V) /\ G \in Memory /\ Live(G) = Live(V) \cup {g}
      /\ G[g].recs = <<>> /\ G[g].branches = <<a>> /\ G[g].parent = NoNode
      /\ G[g].depth = V[a].depth + 1 /\ G[a].parent = g /\ G[a].pos = 0 /\ a # g
      /\ V \in Memory
  BY DEF IsPlanted, IsCrowned, Linked
<1>2. \A x \in Live(V) : /\ Size(G, x) = Size(V, x) /\ Width(G, x) = Width(V, x)
                         /\ G[x].branches = V[x].branches /\ G[x].depth = V[x].depth
                         /\ (x # a => G[x].parent = V[x].parent /\ G[x].pos = V[x].pos)
  BY DEF IsPlanted, IsCrowned, Size, Width
<1>3. V[a].depth \in Nat
  BY <1>1, NodeTypes
<1>4. Down(G, g, g)
  <2>1. Width(G, g) = 1 /\ Size(G, g) = 0 /\ G[g].branches[1] = a
    BY <1>1 DEF Width, Size
  <2> QED BY <2>1, <1>1, <1>2, <1>3 DEF Down
<1>5. ASSUME NEW n \in Live(V) PROVE Down(G, g, n)
  <2>1. ASSUME NEW i \in 1..Width(V, n)
        PROVE  LET b == V[n].branches[i]
               IN  b \in Live(V) /\ b # a /\ b # g /\ V[b].parent = n /\ V[b].pos = i - 1
                   /\ V[b].depth + 1 = V[n].depth
    BY <1>1, LinkDown
  <2>2. Width(V, n) = IF V[n].depth = 0 THEN 0 ELSE Size(V, n) + 1
    BY LinkDown
  <2> QED BY <1>1, <1>2, <2>1, <2>2 DEF Down
<1>6. Up(G, a)
  <2>1. Width(G, g) = 1 /\ G[g].branches[1] = a
    BY <1>1 DEF Width
  <2> QED BY <1>1, <2>1 DEF Up
<1>7. ASSUME NEW n \in Live(V), n # a PROVE Up(G, n)
  <2>1. Up(V, n)
    BY <1>7 DEF Linked
  <2> QED BY <2>1, <1>1, <1>2, <1>7 DEF Up
<1> QED BY <1>1, <1>4, <1>5, <1>6, <1>7 DEF Linked

LEMMA UnplantedLinked ==
    ASSUME NEW V, V \in Memory, NEW G, NEW a, NEW g, IsCrowned(V, G, a, g), Linked(G, g),
           V[a].parent = NoNode
    PROVE  Linked(V, a)
<1>1. /\ g \notin Live(V) /\ a \in Live(V) /\ Live(G) = Live(V) \cup {g}
      /\ G[g].branches = <<a>> /\ G[a].parent = g /\ a # g /\ g # NoNode
  <2>1. g # NoNode
    BY NodeTypes DEF IsCrowned
  <2> QED BY <2>1 DEF IsCrowned
<1>2. \A x \in Live(V) : /\ Size(G, x) = Size(V, x) /\ Width(G, x) = Width(V, x)
                         /\ G[x].branches = V[x].branches /\ G[x].depth = V[x].depth
                         /\ (x # a => G[x].parent = V[x].parent /\ G[x].pos = V[x].pos)
  BY DEF IsCrowned, Size, Width
<1>3. ASSUME NEW n \in Live(V) PROVE Down(V, a, n)
  <2>1. ASSUME NEW i \in 1..Width(V, n)
        PROVE  LET b == V[n].branches[i]
               IN  b \in Live(V) /\ b # a /\ V[b].parent = n /\ V[b].pos = i - 1
                   /\ V[b].depth + 1 = V[n].depth
    <3> DEFINE b == V[n].branches[i]
    <3>1. b \in Live(G) /\ b # g /\ G[b].parent = n /\ G[b].pos = i - 1 /\ G[b].depth + 1 = G[n].depth
      BY <1>1, <1>2, LinkDown
    <3> HIDE DEF b
    <3>2. b # a /\ b \in Live(V)
      BY <3>1, <1>1
    <3>3. V[b].parent = n /\ V[b].pos = i - 1 /\ V[b].depth + 1 = V[n].depth
      BY <3>1, <3>2, <1>2
    <3> QED BY <3>2, <3>3 DEF b
  <2>2. Width(G, n) = IF G[n].depth = 0 THEN 0 ELSE Size(G, n) + 1
    BY <1>1, LinkDown
  <2> QED BY <1>2, <2>1, <2>2 DEF Down
<1>4. ASSUME NEW n \in Live(V), n # a PROVE Up(V, n)
  <2>1. Up(G, n)
    BY <1>1, <1>4 DEF Linked
  <2>2. V[n].parent # g
    <3>1. CASE V[n].parent = g
      <4>1. G[n].parent = g /\ G[n].pos + 1 \in 1..Width(G, g) /\ G[g].branches[G[n].pos + 1] = n
        BY <3>1, <2>1, <1>2, <1>4 DEF Up
      <4>2. Width(G, g) = 1 /\ G[g].branches[1] = a
        BY <1>1 DEF Width
      <4>3. G[n].pos + 1 = 1
        BY <4>1, <4>2
      <4> QED BY <4>1, <4>2, <4>3, <1>4
    <3> QED BY <3>1
  <2> QED BY <2>1, <2>2, <1>1, <1>2, <1>4 DEF Up
<1> QED BY <1>1, <1>3, <1>4 DEF Linked

\* The tree that the new root makes, with the root's parts.
LEMMA RootSplits ==
    ASSUME NEW V, NEW a, Linked(V, a), NEW f \in Node, f \notin Live(V), NEW m \in Nat \ {0},
           Size(V, a) = 2 * m + 1, NEW T, IsCut(V, T, a, f, m), NEW e, e = V[a].recs[m + 1],
           NEW g \in Node, g \notin Live(T), NEW G, IsPlanted(V, G, a, g)
    PROVE  IsSplit(G, Place([T EXCEPT ![g] = [Leaf EXCEPT !.recs = <<e>>, !.branches = <<a, f>>,
                                                          !.depth = T[a].depth + 1]], g, 1),
                   a, f, g, 0, m)
<1>1. /\ V \in Memory /\ a \in Live(V) /\ a \in Node /\ a # f /\ g # a /\ g # f /\ V[a].depth \in Nat
      /\ g # NoNode /\ a # NoNode /\ V[a].parent = NoNode
  <2>1. V \in Memory /\ a \in Live(V) /\ V[a].parent = NoNode
    BY DEF Linked
  <2>2. g # a /\ g # f
    BY <2>1 DEF IsCut
  <2>3. g # NoNode
    BY DEF Node, NoNode
  <2> QED BY <2>1, <2>2, <2>3, NodeTypes
<1>2. /\ T \in Memory /\ Live(T) = Live(V) \cup {f}
      /\ Size(T, a) = m /\ (\A i \in 1..m : T[a].recs[i] = V[a].recs[i])
      /\ Size(T, f) = m /\ (\A i \in 1..m : T[f].recs[i] = V[a].recs[m + 1 + i])
      /\ Width(T, a) = (IF V[a].depth = 0 THEN 0 ELSE m + 1)
      /\ (\A i \in 1..Width(T, a) : T[a].branches[i] = V[a].branches[i])
      /\ Width(T, f) = (IF V[a].depth = 0 THEN 0 ELSE m + 1)
      /\ (\A i \in 1..Width(T, f) : T[f].branches[i] = V[a].branches[m + 1 + i])
      /\ T[f].depth = V[a].depth
  BY DEF IsCut
<1>3. /\ \A x \in Live(V) : T[x].depth = V[x].depth
      /\ \A x \in Live(V) : x # a => T[x].recs = V[x].recs /\ T[x].branches = V[x].branches
      /\ \A x \in Live(V) : (\A i \in 1..Width(T, f) : T[f].branches[i] # x)
                            => T[x].parent = V[x].parent /\ T[x].pos = V[x].pos
      /\ \A i \in 1..Width(T, f) : T[T[f].branches[i]].parent = f /\ T[T[f].branches[i]].pos = i - 1
  BY DEF IsCut
<1>4. /\ g \notin Live(V) /\ G \in Memory /\ Live(G) = Live(V) \cup {g}
      /\ Size(G, g) = 0 /\ Width(G, g) = 1 /\ G[g].branches[1] = a /\ G[g].parent = NoNode /\ G[g].pos = 0
      /\ G[g].depth = V[a].depth + 1 /\ G[a].parent = g /\ G[a].pos = 0
  BY DEF IsPlanted, IsCrowned, Size, Width
<1>5. /\ \A x \in Live(V) : /\ G[x].recs = V[x].recs /\ G[x].branches = V[x].branches
                            /\ G[x].depth = V[x].depth
                            /\ Size(G, x) = Size(V, x) /\ Width(G, x) = Width(V, x)
      /\ \A x \in Live(V) : x # a => G[x].parent = V[x].parent /\ G[x].pos = V[x].pos
  BY DEF IsPlanted, IsCrowned, Size, Width
<1> DEFINE r == [Leaf EXCEPT !.recs = <<e>>, !.branches = <<a, f>>, !.depth = T[a].depth + 1]
           R == [T EXCEPT ![g] = r]
           W == Place(R, g, 1)
<1>6. /\ r \in NodeRec /\ r.recs = <<e>> /\ r.branches = <<a, f>> /\ r.parent = NoNode /\ r.pos = 0
      /\ r.depth = V[a].depth + 1
  <2>1. e \in Keys
    <3>1. m + 1 \in 1..Size(V, a)
      OBVIOUS
    <3> QED BY <3>1, <1>1, NodeTypes
  <2>2. T[a].depth = V[a].depth
    BY <1>1, <1>3
  <2> DEFINE l == Leaf
             u == [l EXCEPT !.recs = <<e>>, !.branches = <<a, f>>]
             d == T[a].depth + 1
             v == [u EXCEPT !.depth = d]
  <2>3. l \in NodeRec /\ l.parent = NoNode /\ l.pos = 0
    BY DEF NodeRec, Leaf
  <2>4. <<e>> \in Seq(Keys) /\ <<a, f>> \in Seq(Node) /\ d \in Nat /\ d = V[a].depth + 1
    BY <2>1, <2>2, <1>1
  <2> HIDE DEF l, d
  <2>5. IsWith(l, <<e>>, <<a, f>>, u)
    BY <2>3, <2>4, With
  <2>6. [l EXCEPT !.recs = <<e>>, !.branches = <<a, f>>, !.depth = d] = v
    BY <2>3 DEF NodeRec
  <2> HIDE DEF u
  <2>7. v \in NodeRec /\ v.recs = u.recs /\ v.branches = u.branches /\ v.parent = u.parent
        /\ v.pos = u.pos /\ v.depth = d
    BY <2>4, <2>5 DEF NodeRec, IsWith
  <2> HIDE DEF v
  <2>8. r = v
    BY <2>6 DEF l, d
  <2> QED BY <2>3, <2>4, <2>5, <2>7, <2>8 DEF IsWith
<1> HIDE DEF r
<1>7. IsWrite(T, g, r, R)
  BY <1>2, <1>6, Written
<1> HIDE DEF R
<1>8. /\ R \in Memory /\ Live(R) = Live(V) \cup {f, g} /\ R[g] = r
      /\ \A x \in Live(V) \cup {f} : R[x] = T[x]
  <2>1. \A x \in Live(V) \cup {f} : x \in Node /\ x # g
    BY <1>1, <1>4 DEF Live
  <2> QED BY <2>1, <1>7, <1>2 DEF IsWrite
<1>9. Width(R, g) = 2 /\ R[g].branches[1] = a /\ R[g].branches[2] = f
  <2>1. R[g].branches = <<a, f>>
    BY <1>6, <1>8
  <2> QED BY <2>1 DEF Width
<1>10. /\ W \in Memory /\ Live(W) = Live(R)
       /\ \A x \in Live(R) : /\ W[x].recs = R[x].recs /\ W[x].branches = R[x].branches
                             /\ W[x].depth = R[x].depth
       /\ \A x \in Node : (\A i \in 1..Width(R, g) : R[g].branches[i] # x) => W[x] = R[x]
       /\ \A i \in 1..Width(R, g) : W[R[g].branches[i]].parent = g /\ W[R[g].branches[i]].pos = i - 1
  <2> DEFINE from == 1
             P == Place(R, g, from)
  <2>1. R \in Memory /\ g \in Live(R) /\ from \in Nat \ {0}
        /\ (\A i \in from..Width(R, g) : R[g].branches[i] \in Live(R))
        /\ \A i, j \in from..Width(R, g) : R[g].branches[i] = R[g].branches[j] => i = j
    BY <1>1, <1>8, <1>9
  <2> HIDE DEF from
  <2>2. /\ P \in Memory /\ Live(P) = Live(R)
        /\ \A x \in Live(R) : /\ P[x].recs = R[x].recs /\ P[x].branches = R[x].branches
                              /\ P[x].depth = R[x].depth
        /\ \A x \in Node : (\A i \in from..Width(R, g) : R[g].branches[i] # x) => P[x] = R[x]
    BY <2>1, PlaceKeeps
  <2>3. \A i \in from..Width(R, g) : P[R[g].branches[i]].parent = g /\ P[R[g].branches[i]].pos = i - 1
    BY <2>1, PlaceProps
  <2> HIDE DEF P
  <2>4. W = P
    BY DEF P, from
  <2> HIDE DEF W
  <2> QED BY <2>2, <2>3, <2>4 DEF from
<1> HIDE DEF W
<1>11. /\ W[a].parent = g /\ W[a].pos = 0 /\ W[f].parent = g /\ W[f].pos = 1
  <2>1. 1 \in 1..Width(R, g) /\ 2 \in 1..Width(R, g) /\ 1 - 1 = 0 /\ 2 - 1 = 1
    BY <1>9
  <2> QED BY <2>1, <1>9, <1>10
<1>12. \A x \in Live(V) : x # a => W[x] = T[x]
  <2>1. ASSUME NEW x \in Live(V), x # a PROVE W[x] = T[x]
    <3>1. \A i \in 1..Width(R, g) : R[g].branches[i] # x
      BY <1>9, <2>1
    <3>2. x \in Node
      BY DEF Live
    <3> QED BY <3>1, <3>2, <1>8, <1>10
  <2> QED BY <2>1
<1>13. W[g].recs = <<e>> /\ W[g].branches = <<a, f>> /\ W[g].depth = V[a].depth + 1
       /\ W[g].parent = NoNode /\ W[g].pos = 0
  <2>1. \A i \in 1..Width(R, g) : R[g].branches[i] # g
    BY <1>1, <1>9
  <2> QED BY <2>1, <1>6, <1>8, <1>10
<1>14. /\ \A x \in Live(V) \cup {f} : W[x].recs = T[x].recs /\ W[x].branches = T[x].branches
                                       /\ W[x].depth = T[x].depth
  BY <1>8, <1>10
<1>15. ASSUME NEW x \in Live(G)
       PROVE  /\ W[x].depth = G[x].depth
              /\ W[x].parent = IF G[x].parent = a /\ G[x].pos > m THEN f ELSE G[x].parent
              /\ W[x].pos = IF G[x].parent = a /\ G[x].pos > m THEN G[x].pos - (m + 1)
                            ELSE IF G[x].parent = g /\ G[x].pos > 0 THEN G[x].pos + 1
                            ELSE G[x].pos
  <2>1. CASE x = g
    BY <2>1, <1>1, <1>4, <1>13
  <2>2. CASE x = a
    <3>1. ~(0 > 0)
      OBVIOUS
    <3> QED BY <2>2, <3>1, <1>1, <1>3, <1>4, <1>5, <1>11, <1>14
  <2>3. CASE x \in Live(V) /\ x # a
    <3>1. G[x].parent = V[x].parent /\ G[x].pos = V[x].pos /\ G[x].depth = V[x].depth /\ W[x] = T[x]
          /\ T[x].depth = V[x].depth
      BY <2>3, <1>3, <1>5, <1>12
    <3>2. V[x].parent # g /\ V[x].pos \in Nat
      BY <2>3, <1>4, LinkUp
    <3>3. CASE V[x].parent = a /\ V[x].pos > m
      <4> DEFINE i == V[x].pos - m
      <4>1. V[x].pos + 1 \in 1..Width(V, a) /\ V[a].branches[V[x].pos + 1] = x /\ V[a].depth # 0
        BY <2>3, <3>3, LinkUp
      <4>2. Width(V, a) = 2 * m + 2
        BY <4>1, <1>1, LinkDown
      <4>3. i \in 1..Width(T, f) /\ m + 1 + i = V[x].pos + 1 /\ i - 1 = V[x].pos - (m + 1)
        BY <4>1, <4>2, <3>2, <3>3, <1>2
      <4> HIDE DEF i
      <4>4. T[f].branches[i] = x
        BY <4>1, <4>3, <1>2
      <4>5. T[x].parent = f /\ T[x].pos = i - 1
        BY <4>3, <4>4, <1>3
      <4> QED BY <4>3, <4>5, <3>1, <3>3
    <3>4. CASE ~(V[x].parent = a /\ V[x].pos > m)
      <4>1. ASSUME NEW i \in 1..Width(T, f) PROVE T[f].branches[i] # x
        <5>1. V[a].depth # 0 /\ Width(V, a) = 2 * m + 2 /\ Width(T, f) = m + 1
          BY <1>1, <1>2, LinkDown
        <5>2. m + 1 + i \in 1..Width(V, a) /\ (m + 1 + i) - 1 > m
          BY <5>1
        <5>3. V[V[a].branches[m + 1 + i]].parent = a /\ V[V[a].branches[m + 1 + i]].pos > m
          BY <5>2, <1>1, LinkDown
        <5> QED BY <5>3, <1>2, <3>4
      <4>2. T[x].parent = V[x].parent /\ T[x].pos = V[x].pos
        BY <4>1, <2>3, <1>3
      <4> QED BY <4>2, <3>1, <3>2, <3>4
    <3> QED BY <3>3, <3>4
  <2> QED BY <2>1, <2>2, <2>3, <1>4
<1>16. /\ Size(W, a) = m /\ (\A i \in 1..m : W[a].recs[i] = G[a].recs[i])
       /\ Size(W, f) = m /\ (\A i \in 1..m : W[f].recs[i] = G[a].recs[m + 1 + i])
       /\ Width(W, a) = (IF G[a].depth = 0 THEN 0 ELSE m + 1)
       /\ (\A i \in 1..Width(W, a) : W[a].branches[i] = G[a].branches[i])
       /\ Width(W, f) = (IF G[a].depth = 0 THEN 0 ELSE m + 1)
       /\ (\A i \in 1..Width(W, f) : W[f].branches[i] = G[a].branches[m + 1 + i])
       /\ Size(G, a) = 2 * m + 1 /\ W[f].depth = G[a].depth
  <2>1. /\ W[a].recs = T[a].recs /\ W[a].branches = T[a].branches
        /\ W[f].recs = T[f].recs /\ W[f].branches = T[f].branches /\ W[f].depth = T[f].depth
    BY <1>1, <1>14
  <2>2. /\ G[a].recs = V[a].recs /\ G[a].branches = V[a].branches /\ G[a].depth = V[a].depth
        /\ Size(G, a) = 2 * m + 1
    BY <1>1, <1>5
  <2>3. Size(W, a) = Size(T, a) /\ Size(W, f) = Size(T, f) /\ Width(W, a) = Width(T, a) /\ Width(W, f) = Width(T, f)
    BY <2>1 DEF Size, Width
  <2> QED BY <2>1, <2>2, <2>3, <1>2
<1>17. /\ Size(W, g) = 0 + 1 /\ W[g].recs[0 + 1] = e /\ Width(W, g) = 1 + 1
       /\ W[g].branches[1] = a /\ W[g].branches[2] = f
  BY <1>13 DEF Size, Width
<1>18. \A x \in Live(G) : x # a /\ x # g => W[x].recs = G[x].recs /\ W[x].branches = G[x].branches
  BY <1>3, <1>4, <1>5, <1>14
<1>19. (2 * m + 1) - m - 1 = m /\ (2 * m + 1) - m = m + 1 /\ m < 2 * m + 1 /\ m \in Nat
  OBVIOUS
<1>20. /\ a \in Live(G) /\ g \in Live(G) /\ f \notin Live(G) /\ Live(W) = Live(G) \cup {f} /\ W \in Memory
       /\ e = G[a].recs[m + 1]
  BY <1>1, <1>4, <1>5, <1>8, <1>10
<1>21. /\ \A i \in 1..0 : W[g].recs[i] = G[g].recs[i]
       /\ \A i \in (0 + 1)..0 : W[g].recs[i + 1] = G[g].recs[i]
       /\ \A i \in 1..(0 + 1) : W[g].branches[i] = G[g].branches[i]
       /\ W[g].branches[0 + 2] = f
       /\ \A i \in (0 + 2)..1 : W[g].branches[i + 1] = G[g].branches[i]
  BY <1>4, <1>17
<1>22. IsSplit(G, W, a, f, g, 0, m)
  BY <1>4, <1>11, <1>15, <1>16, <1>17, <1>18, <1>19, <1>20, <1>21 DEF IsSplit
<1> QED BY <1>22 DEF W, R, r

-----------------------------------------------------------------------------
(* How the nodes are filled *)

LEMMA Halved ==
    ASSUME MaxElements \in Orders
    PROVE  MaxElements \in Nat \ {0} /\ MinElements \in Nat \ {0} /\ MaxElements = 2 * MinElements
<1>1. MaxElements \in Nat \ {0} /\ MaxElements % 2 = 0
  BY OrdersAssumption
<1> DEFINE x == MaxElements
<1>2. x \in Nat \ {0} /\ x % 2 = 0
  BY <1>1
<1> HIDE DEF x
<1>3. x = 2 * (x \div 2) + (x % 2) /\ x \div 2 \in Nat
  BY <1>2
<1>4. x \div 2 # 0 /\ x = 2 * (x \div 2)
  BY <1>2, <1>3
<1> QED BY <1>2, <1>3, <1>4 DEF x, MinElements

\* What Filled says of one node.
FilledAt(ns, top, over, low, n) ==
    /\ Size(ns, n) <= IF n = over THEN MaxElements + 1 ELSE MaxElements
    /\ n # top /\ n # low => Size(ns, n) >= MinElements
    /\ n # top /\ n = low => Size(ns, n) + 1 >= MinElements
    /\ n = top /\ n # low /\ ns[n].depth > 0 => Size(ns, n) >= 1

LEMMA FilledSame ==
    ASSUME NEW V, NEW W, NEW top, NEW over, NEW low, NEW n, FilledAt(V, top, over, low, n),
           Size(W, n) = Size(V, n), W[n].depth = V[n].depth
    PROVE  FilledAt(W, top, over, low, n)
BY DEF FilledAt

LEMMA SplitFilled ==
    ASSUME MaxElements \in Orders,
           NEW V, NEW W, NEW top, NEW a, NEW f, NEW q, NEW o, NEW low, Linked(V, top),
           IsSplit(V, W, a, f, q, o, MinElements), Size(V, a) = MaxElements + 1,
           Filled(V, top, a, low), low = NoNode \/ (low = top /\ q = top)
    PROVE  /\ Filled(W, top, q, NoNode)
           /\ Size(V, q) < MaxElements => Filled(W, top, NoNode, NoNode)
<1> DEFINE m == MinElements
<1>1. MaxElements \in Nat /\ m \in Nat \ {0} /\ MaxElements = 2 * m
  BY Halved
<1>2. /\ V \in Memory /\ a # top /\ a # q /\ f # a /\ f # q /\ V[q].depth # 0 /\ q # NoNode
      /\ Size(V, q) \in Nat /\ V[q].depth \in Nat /\ a \in Live(V) /\ q \in Live(V)
      /\ a # NoNode /\ f # NoNode /\ f # top /\ top # NoNode /\ top \in Live(V)
  <2>1. V \in Memory /\ a # top /\ a # q /\ f # a /\ f # q /\ V[q].depth # 0 /\ q # NoNode
        /\ Size(V, q) \in Nat
    BY SplitPlaces
  <2>2. a \in Live(V) /\ q \in Live(V) /\ f \in Node /\ f \notin Live(V)
    BY DEF IsSplit
  <2>3. top \in Live(V)
    BY DEF Linked
  <2>4. f # NoNode
    BY <2>2 DEF Node, NoNode
  <2> QED BY <2>1, <2>2, <2>3, <2>4, NodeTypes
<1> HIDE DEF m
<1>3. /\ Live(W) = Live(V) \cup {f} /\ Size(W, a) = m /\ Size(W, q) = Size(V, q) + 1
      /\ \A x \in Live(V) : W[x].depth = V[x].depth
      /\ \A x \in Live(V) : x # a /\ x # q => Size(W, x) = Size(V, x)
  BY DEF IsSplit, Size, m
<1>4. Size(W, f) = m
  <2>1. Size(W, f) = Size(V, a) - m - 1
    BY DEF IsSplit, m
  <2>2. (MaxElements + 1) - m - 1 = m
    BY <1>1
  <2> QED BY <2>1, <2>2
<1>5. \A x \in Live(V) : FilledAt(V, top, a, low, x)
  BY DEF Filled, FilledAt
<1>6. FilledAt(W, top, q, NoNode, a) /\ FilledAt(W, top, NoNode, NoNode, a)
  BY <1>1, <1>2, <1>3 DEF FilledAt, m
<1>7. FilledAt(W, top, q, NoNode, f) /\ FilledAt(W, top, NoNode, NoNode, f)
  BY <1>1, <1>2, <1>4 DEF FilledAt, m
<1>8. FilledAt(V, top, a, low, q)
  BY <1>2, <1>5
<1>9. /\ FilledAt(W, top, q, NoNode, q)
      /\ Size(V, q) < MaxElements => FilledAt(W, top, NoNode, NoNode, q)
  <2>1. Size(V, q) <= MaxElements /\ (q # top => Size(V, q) >= m)
    BY <1>2, <1>8 DEF FilledAt, m
  <2>2. Size(W, q) <= MaxElements + 1 /\ Size(W, q) >= 1 /\ (q # top => Size(W, q) >= m)
        /\ (Size(V, q) < MaxElements => Size(W, q) <= MaxElements)
    BY <2>1, <1>1, <1>2, <1>3
  <2> QED BY <2>2, <1>2 DEF FilledAt, m
<1>10. ASSUME NEW x \in Live(V), x # a, x # q
       PROVE  FilledAt(W, top, q, NoNode, x) /\ FilledAt(W, top, NoNode, NoNode, x)
  <2>1. FilledAt(V, top, a, low, x) /\ Size(W, x) = Size(V, x) /\ W[x].depth = V[x].depth
    BY <1>3, <1>5, <1>10
  <2>2. x # low /\ x # NoNode
    BY <1>10, <1>2, NodeTypes
  <2> QED BY <2>1, <2>2, <1>10 DEF FilledAt
<1>11. \A x \in Live(W) : FilledAt(W, top, q, NoNode, x)
  BY <1>3, <1>6, <1>7, <1>9, <1>10
<1>12. Size(V, q) < MaxElements => \A x \in Live(W) : FilledAt(W, top, NoNode, NoNode, x)
  BY <1>3, <1>6, <1>7, <1>9, <1>10
<1> QED BY <1>11, <1>12 DEF Filled, FilledAt

LEMMA PlantedFilled ==
    ASSUME MaxElements \in Orders, NEW V, NEW G, NEW a, NEW g, IsPlanted(V, G, a, g),
           NEW over, Filled(V, a, over, NoNode), Size(V, a) >= MinElements, V \in Memory
    PROVE  Filled(G, g, over, g)
<1>1. MaxElements \in Nat /\ MinElements \in Nat
  BY Halved
<1>2. /\ Live(G) = Live(V) \cup {g} /\ Size(G, g) = 0 /\ g \notin Live(V)
      /\ \A x \in Live(V) : Size(G, x) = Size(V, x) /\ G[x].depth = V[x].depth
  BY DEF IsPlanted, IsCrowned, Size
<1>3. \A x \in Live(V) : FilledAt(V, a, over, NoNode, x)
  BY DEF Filled, FilledAt
<1>4. FilledAt(G, g, over, g, g)
  BY <1>1, <1>2 DEF FilledAt
<1>5. ASSUME NEW x \in Live(V) PROVE FilledAt(G, g, over, g, x)
  <2>1. FilledAt(V, a, over, NoNode, x) /\ Size(G, x) = Size(V, x) /\ G[x].depth = V[x].depth
    BY <1>2, <1>3
  <2>2. x # NoNode /\ x # g
    BY <1>2, NodeTypes
  <2>3. Size(V, x) >= MinElements
    BY <2>1, <2>2 DEF FilledAt
  <2> QED BY <2>1, <2>2, <2>3 DEF FilledAt
<1>6. \A x \in Live(G) : FilledAt(G, g, over, g, x)
  BY <1>2, <1>4, <1>5
<1> QED BY <1>6 DEF Filled, FilledAt

LEMMA UnplantedFilled ==
    ASSUME MaxElements \in Orders, NEW V, NEW G, NEW a, NEW g, IsCrowned(V, G, a, g),
           Filled(G, g, NoNode, g), V \in Memory
    PROVE  Filled(V, a, NoNode, NoNode)
<1>1. MaxElements \in Nat /\ MinElements \in Nat \ {0}
  BY Halved
<1>2. /\ Live(G) = Live(V) \cup {g} /\ g \notin Live(V)
      /\ \A x \in Live(V) : Size(G, x) = Size(V, x) /\ G[x].depth = V[x].depth
  BY DEF IsCrowned, Size
<1>3. \A x \in Live(G) : FilledAt(G, g, NoNode, g, x)
  BY DEF Filled, FilledAt
<1>5. ASSUME NEW x \in Live(V) PROVE FilledAt(V, a, NoNode, NoNode, x)
  <2>1. FilledAt(G, g, NoNode, g, x) /\ Size(G, x) = Size(V, x) /\ G[x].depth = V[x].depth
    BY <1>2, <1>3
  <2>2. x # NoNode /\ x # g /\ Size(V, x) \in Nat
    BY <1>2, NodeTypes
  <2>3. Size(V, x) >= MinElements /\ Size(V, x) <= MaxElements
    BY <2>1, <2>2 DEF FilledAt
  <2>4. Size(V, x) >= 1
    BY <2>2, <2>3, <1>1
  <2> QED BY <2>2, <2>3, <2>4 DEF FilledAt
<1> QED BY <1>5 DEF Filled, FilledAt

-----------------------------------------------------------------------------
(* The steps of an insertion *)

FreshIn(ns) == Min({n \in Node : ns[n] = Unused})

LEMMA FreshIs ==
    ASSUME NEW ns, Live(ns) # Node
    PROVE  FreshIn(ns) \in Node /\ FreshIn(ns) \notin Live(ns)
<1> DEFINE S == {n \in Node : ns[n] = Unused}
<1>1. S \in SUBSET Nat /\ S # {}
  BY DEF Live, Node
<1>2. Min(S) \in S
  <2> HIDE DEF S
  <2> QED BY <1>1, MinProps
<1> QED BY <1>2 DEF FreshIn, Live

LEMMA TwoFree ==
    ASSUME NEW ns, Cardinality({n \in Node : ns[n] = Unused}) > 1, NEW f
    PROVE  Live(ns) # Node /\ Live(ns) \cup {f} # Node
<1> DEFINE S == {n \in Node : ns[n] = Unused}
<1>1. IsFiniteSet(S)
  <2>1. IsFiniteSet(Node)
    <3>1. MaxNodes \in Nat
      BY MaxNodesAssumption
    <3> QED BY <3>1, FS_Interval DEF Node
  <2>2. S \subseteq Node
    OBVIOUS
  <2> QED BY <2>1, <2>2, FS_Subset
<1>2. Cardinality(S) > 1
  OBVIOUS
<1> HIDE DEF S
<1>3. S # {}
  BY <1>2, FS_EmptySet
<1>4. S \ {f} # {}
  <2>1. CASE f \in S
    <3>1. Cardinality(S \ {f}) = Cardinality(S) - 1 /\ IsFiniteSet(S \ {f})
      BY <2>1, <1>1, FS_RemoveElement
    <3>2. Cardinality(S \ {f}) # 0
      BY <3>1, <1>2, <1>1, FS_CardinalityType
    <3> QED BY <3>1, <3>2, FS_EmptySet
  <2>2. CASE f \notin S
    BY <2>2, <1>3
  <2> QED BY <2>1, <2>2
<1> QED BY <1>3, <1>4 DEF S, Live

\* An insertion changes neither the place of the node nor its depth.
LEMMA InsertKeepsNode ==
    ASSUME NEW N, NEW V, NEW n, NEW b, NEW r, NEW p, NEW top, Takes(N, n, b, r, p),
           IsInsert(N, V, n, b, r, p), Linked(V, top)
    PROVE  /\ V[n].parent = N[n].parent /\ V[n].pos = N[n].pos /\ V[n].depth = N[n].depth
           /\ Size(V, n) = Size(N, n) + 1 /\ n \in Live(V) /\ Live(V) = Live(N) /\ N \in Memory
           /\ \A x \in Live(N) : x # n => Size(V, x) = Size(N, x) /\ V[x].recs = N[x].recs
<1>1. n \in Live(V) /\ Live(V) = Live(N) /\ N \in Memory /\ V \in Memory /\ p \in Nat
  <2>1. Size(N, n) \in Nat
    BY NodeTypes DEF Takes
  <2> QED BY <2>1 DEF Takes, IsInsert
<1>2. V[n].depth = N[n].depth
  BY <1>1 DEF IsInsert
<1>3. ASSUME NEW i \in (p + 2)..Width(V, n) PROVE V[n].branches[i] # n
  <2>1. Width(V, n) \in Nat /\ V[n].depth \in Nat
    BY <1>1, NodeTypes
  <2>2. i \in 1..Width(V, n)
    BY <2>1, <1>1
  <2>3. V[V[n].branches[i]].depth + 1 = V[n].depth
    BY <2>2, <1>1, LinkDown
  <2> QED BY <2>1, <2>3
<1>4. V[n].parent = N[n].parent /\ V[n].pos = N[n].pos
  BY <1>1, <1>3 DEF IsInsert
<1>5. Size(V, n) = Size(N, n) + 1
  <2>1. Inserted(N[n].recs, p + 1, r, V[n].recs)
    BY DEF IsInsert
  <2> QED BY <2>1 DEF Inserted, Size
<1>6. \A x \in Live(N) : x # n => Size(V, x) = Size(N, x) /\ V[x].recs = N[x].recs
  BY DEF IsInsert, Size
<1> QED BY <1>1, <1>2, <1>4, <1>5, <1>6

LEMMA InsertUpShapes ==
    ASSUME Shape, sound, InsertUp PROVE Shape'
<1>1. /\ MaxElements \in Orders /\ Working /\ Linked(View, Top) /\ Filled(View, Top, Over, Lacking)
  BY DEF Shape
<1>2. /\ pc = "insert" /\ nodes' = View /\ pc' = "idle" /\ root' = root /\ held' = held /\ sound' = sound
      /\ MaxElements' = MaxElements
  BY DEF InsertUp, View
<1>3. Top = root /\ Over = NoNode /\ Lacking = NoNode /\ Top' = root' /\ Over' = NoNode /\ Lacking' = NoNode
      /\ View' = nodes'
  BY <1>2 DEF Top, Over, Lacking, View
<1>4. Working'
  <2>1. nodes' \in Memory /\ root' \in Live(nodes') /\ held' \subseteq Keys
    BY <1>1, <1>2, <1>3 DEF Linked, Working
  <2> QED BY <2>1, <1>2 DEF Working
<1>5. Linked(nodes', root') /\ Filled(nodes', root', NoNode, NoNode)
  BY <1>1, <1>2, <1>3
<1>6. Filled(View, Top, Over, Lacking)'
  BY <1>2, <1>3, <1>5 DEF Filled, MinElements
<1> QED BY <1>1, <1>2, <1>3, <1>4, <1>5, <1>6 DEF Shape

LEMMA NewRootShapes ==
    ASSUME Shape, sound, NewRoot PROVE Shape'
<1>1. /\ MaxElements \in Orders /\ Working /\ Linked(View, Top) /\ Filled(View, Top, Over, Lacking)
  BY DEF Shape
<1>2. /\ pc = "root" /\ nodes' = View /\ pc' = "idle" /\ root' = Fresh /\ held' = held /\ sound' = sound
      /\ MaxElements' = MaxElements
  BY DEF NewRoot, View, Rooted
<1>3. Top = Fresh /\ Over = NoNode /\ Lacking = NoNode /\ Top' = root' /\ Over' = NoNode /\ Lacking' = NoNode
      /\ View' = nodes'
  BY <1>2 DEF Top, Over, Lacking, View
<1>4. Working'
  <2>1. nodes' \in Memory /\ root' \in Live(nodes') /\ held' \subseteq Keys
    BY <1>1, <1>2, <1>3 DEF Linked, Working
  <2> QED BY <2>1, <1>2 DEF Working
<1>5. Linked(nodes', root') /\ Filled(nodes', root', NoNode, NoNode)
  BY <1>1, <1>2, <1>3
<1>6. Filled(View, Top, Over, Lacking)'
  BY <1>2, <1>3, <1>5 DEF Filled, MinElements
<1> QED BY <1>1, <1>2, <1>3, <1>4, <1>5, <1>6 DEF Shape

\* What a split starts from: V is the tree with the record in the full node.
LEMMA SplitStarts ==
    ASSUME Shape, sound, Split, NEW V, V = View
    PROVE  LET a == at[1]
               f == FreshIn(nodes)
               T == NodeSplit(nodes, a, f, up[1], up[2], at[2]).ns
           IN  /\ V \in Memory /\ a \in Live(V) /\ Linked(V, root) /\ f \in Node /\ f \notin Live(V)
               /\ Size(V, a) = MaxElements + 1 /\ IsCut(V, T, a, f, MinElements)
               /\ V[a].parent = nodes[a].parent /\ V[a].pos = nodes[a].pos
               /\ NodeSplit(nodes, a, f, up[1], up[2], at[2]).median = V[a].recs[MinElements + 1]
               /\ Filled(V, root, a, NoNode) /\ Live(T) # Node
               /\ \A x \in Live(V) : x # a => Size(V, x) = Count(x)
<1> DEFINE a == at[1]
           f == FreshIn(nodes)
           b == up[1]
           r == up[2]
           p == at[2]
           T == NodeSplit(nodes, a, f, b, r, p).ns
<1>1. /\ MaxElements \in Orders /\ Working /\ Linked(View, Top) /\ Filled(View, Top, Over, Lacking)
      /\ pc = "split" /\ Cardinality({n \in Node : nodes[n] = Unused}) > 1
  BY DEF Shape, Split
<1>2. Top = root /\ Over = a /\ Lacking = NoNode /\ V = NodeInsert(nodes, a, b, r, p)
  BY <1>1 DEF Top, Over, Lacking, View
<1>3. Takes(nodes, a, b, r, p) /\ Count(a) = MaxElements /\ nodes \in Memory
  BY <1>1 DEF Working
<1>4. Linked(V, root) /\ Filled(V, root, a, NoNode)
  BY <1>1, <1>2
<1>5. f \in Node /\ f \notin Live(nodes)
  <2>1. Live(nodes) # Node
    BY <1>1, TwoFree
  <2> QED BY <2>1, FreshIs
<1> HIDE DEF a, f, b, r, p
<1>6. IsInsert(nodes, V, a, b, r, p)
  BY <1>2, <1>3, InsertIsInsert
<1>7. /\ V[a].parent = nodes[a].parent /\ V[a].pos = nodes[a].pos /\ Size(V, a) = Size(nodes, a) + 1
      /\ a \in Live(V) /\ Live(V) = Live(nodes)
      /\ \A x \in Live(nodes) : x # a => Size(V, x) = Size(nodes, x)
  BY <1>3, <1>4, <1>6, InsertKeepsNode
<1>8. Full(nodes, a, f)
  <2>1. Size(nodes, a) = MaxElements
    BY <1>3 DEF Size, Count
  <2> QED BY <1>1, <1>3, <1>5, <2>1, Halved DEF Full, Takes
<1>9. /\ \A i \in 1..Width(V, a) : V[a].branches[i] \in Live(V)
      /\ \A i, j \in 1..Width(V, a) : V[a].branches[i] = V[a].branches[j] => i = j
  BY <1>4, <1>7, LinkDown
<1>10. IsCut(V, T, a, f, MinElements) /\ NodeSplit(nodes, a, f, b, r, p).median = V[a].recs[MinElements + 1]
  BY <1>3, <1>6, <1>8, <1>9, NodeSplitIs
<1> HIDE DEF T
<1>11. Live(T) # Node
  <2>1. Live(T) = Live(nodes) \cup {f}
    BY <1>7, <1>10 DEF IsCut
  <2> QED BY <2>1, <1>1, TwoFree
<1>12. V \in Memory /\ f \notin Live(V) /\ Size(V, a) = MaxElements + 1
       /\ \A x \in Live(V) : x # a => Size(V, x) = Count(x)
  <2>1. V \in Memory
    BY <1>4 DEF Linked
  <2> QED BY <2>1, <1>3, <1>5, <1>7 DEF Size, Count
<1> QED BY <1>4, <1>5, <1>7, <1>10, <1>11, <1>12 DEF a, f, b, r, p, T

LEMMA SplitShapes ==
    ASSUME Shape, sound, Split PROVE Shape'
<1> DEFINE V == View
           a == at[1]
           f == FreshIn(nodes)
           S == NodeSplit(nodes, a, f, up[1], up[2], at[2])
           T == S.ns
           e == V[a].recs[MinElements + 1]
           q == nodes[a].parent
           o == nodes[a].pos
           g == FreshIn(T)
<1>1. /\ MaxElements \in Orders /\ Working /\ sound \in BOOLEAN
      /\ pc = "split"
  BY DEF Shape, Split
<1>2. /\ V \in Memory /\ a \in Live(V) /\ Linked(V, root) /\ f \in Node /\ f \notin Live(V)
      /\ Size(V, a) = MaxElements + 1 /\ IsCut(V, T, a, f, MinElements)
      /\ V[a].parent = q /\ V[a].pos = o /\ S.median = e
      /\ Filled(V, root, a, NoNode) /\ Live(T) # Node
      /\ \A x \in Live(V) : x # a => Size(V, x) = Count(x)
  BY SplitStarts
<1>3. /\ nodes' = T /\ up' = <<f, S.median>> /\ at' = (IF q = NoNode THEN at ELSE <<q, o>>)
      /\ pc' = (IF q = NoNode THEN "root" ELSE IF Count(q) < MaxElements THEN "insert" ELSE "split")
      /\ root' = root /\ held' = held /\ sound' = sound /\ MaxElements' = MaxElements
  BY DEF Split, Fresh, FreshIn
<1>4. at[1] = a
  OBVIOUS
<1> HIDE DEF V, a, f, S, T, e, q, o, g
<1>5. MaxElements \in Nat \ {0} /\ MinElements \in Nat \ {0} /\ MaxElements = 2 * MinElements
      /\ Size(V, a) = 2 * MinElements + 1
  BY <1>1, <1>2, Halved
<1>6. e \in Keys /\ T \in Memory /\ Live(T) = Live(V) \cup {f} /\ root \in Live(V) /\ held \subseteq Keys
  <2>1. MinElements + 1 \in 1..Size(V, a)
    BY <1>5
  <2>2. e \in Keys
    BY <1>2, <2>1, NodeTypes DEF e
  <2> QED BY <2>2, <1>1, <1>2 DEF IsCut, Linked, Working
<1>7. CASE q = NoNode
  <2>1. a = root
    <3>1. V[a].parent = NoNode
      BY <1>2, <1>7
    <3>2. V[a].parent # NoNode \/ a = root
      <4>1. a # root => V[a].parent \in Live(V)
        BY <1>2, LinkUp
      <4> QED BY <4>1, <1>2, NodeTypes
    <3> QED BY <3>1, <3>2
  <2> DEFINE W == Rooted(T, root, f, e, g)
  <2>2. pc' = "root" /\ at' = at /\ up' = <<f, e>>
    BY <1>2, <1>3, <1>7
  <2>3. Fresh' = g
    BY <1>3 DEF Fresh, FreshIn, g
  <2>4. View' = W /\ Top' = g /\ Over' = NoNode /\ Lacking' = NoNode
    BY <1>3, <2>2, <2>3 DEF View, Top, Over, Lacking
  <2>5. g \in Node /\ g \notin Live(T) /\ g \notin Live(V)
    BY <1>2, <1>6, FreshIs DEF g
  <2>6. PICK G : IsPlanted(V, G, root, g)
    BY <1>2, <1>6, <2>5, Planted
  <2>7. IsSplit(G, W, root, f, g, 0, MinElements)
    BY <1>2, <1>5, <2>1, <2>5, <2>6, RootSplits DEF Rooted, e
  <2> HIDE DEF W
  <2>8. Linked(G, g) /\ Linked(W, g)
    <3>1. Linked(G, g)
      BY <1>2, <2>6, PlantedLinked
    <3> QED BY <3>1, <2>7, SplitLinked
  <2>9. Filled(W, g, NoNode, NoNode)
    <3>1. Size(V, root) >= MinElements
      BY <1>5, <2>1
    <3>2. Filled(G, g, root, g)
      BY <1>1, <1>2, <2>1, <2>6, <3>1, PlantedFilled
    <3>3. Size(G, root) = MaxElements + 1 /\ Size(G, g) < MaxElements
      <4>1. Size(G, root) = Size(V, root) /\ Size(G, g) = 0
        BY <1>6, <2>6 DEF IsPlanted, IsCrowned, Size
      <4> QED BY <4>1, <1>2, <1>5, <2>1
    <3> QED BY <1>1, <2>7, <2>8, <3>2, <3>3, SplitFilled
  <2>10. Working'
    <3>1. f \in Live(T) /\ root \in Live(T)
      BY <1>6
    <3>2. up'[1] = f /\ up'[2] = e
      BY <2>2
    <3> QED BY <1>2, <1>3, <1>6, <2>2, <3>1, <3>2 DEF Working
  <2>11. Filled(View, Top, Over, Lacking)'
    BY <1>3, <2>4, <2>9 DEF Filled, MinElements
  <2> QED BY <1>1, <1>3, <2>4, <2>8, <2>10, <2>11 DEF Shape
<1>8. CASE q # NoNode
  <2> DEFINE W == NodeInsert(T, q, f, e, o)
  <2>1. a # root
    <3>1. V[root].parent = NoNode
      BY <1>2 DEF Linked
    <3> QED BY <3>1, <1>2, <1>8
  <2>2. q \in Live(V) /\ q # a
    BY <1>2, <2>1, LinkUp
  <2>3. Takes(T, q, f, e, o) /\ IsSplit(V, W, a, f, q, o, MinElements)
    <3>1. Takes(T, V[a].parent, f, e, V[a].pos)
          /\ IsSplit(V, NodeInsert(T, V[a].parent, f, e, V[a].pos), a, f, V[a].parent, V[a].pos, MinElements)
      BY <1>2, <1>5, <2>1, CutSplits DEF e
    <3> QED BY <3>1, <1>2
  <2>4. pc' \in {"insert", "split"} /\ at' = <<q, o>> /\ up' = <<f, e>>
        /\ pc' = IF Count(q) < MaxElements THEN "insert" ELSE "split"
    BY <1>2, <1>3, <1>8
  <2>5. at'[1] = q /\ at'[2] = o /\ up'[1] = f /\ up'[2] = e
    BY <2>4
  <2>6. View' = W /\ Top' = root /\ Over' = (IF pc' = "split" THEN q ELSE NoNode) /\ Lacking' = NoNode
    BY <1>3, <2>4, <2>5 DEF View, Top, Over, Lacking
  <2> HIDE DEF W
  <2>7. Linked(W, root)
    BY <1>2, <2>3, SplitLinked
  <2>8. Len(nodes'[q].recs) = Count(q) /\ Size(V, q) = Count(q) /\ Count(q) \in Nat
    <3>1. T[q].recs = V[q].recs
      BY <1>2, <2>2 DEF IsCut
    <3>2. Size(V, q) = Count(q) /\ Size(V, q) \in Nat
      BY <1>2, <2>2, NodeTypes
    <3> QED BY <3>1, <3>2, <1>3 DEF Count, Size
  <2>9. Filled(W, root, q, NoNode) /\ (Count(q) < MaxElements => Filled(W, root, NoNode, NoNode))
        /\ Count(q) <= MaxElements
    <3>1. Filled(W, root, q, NoNode) /\ (Size(V, q) < MaxElements => Filled(W, root, NoNode, NoNode))
      BY <1>1, <1>2, <2>3, SplitFilled
    <3>2. Size(V, q) <= MaxElements
      BY <1>2, <2>2 DEF Filled
    <3> QED BY <3>1, <3>2, <2>8
  <2>10. Filled(W, root, IF pc' = "split" THEN q ELSE NoNode, NoNode)
    BY <2>4, <2>9
  <2>11. Working'
    <3>1. root \in Live(T)
      BY <1>6
    <3>2. Count(at[1])' = Count(q)
      BY <2>5, <2>8 DEF Count
    <3>3. IF pc' = "split" THEN Count(q) = MaxElements ELSE Count(q) < MaxElements
      BY <2>4, <2>8, <2>9, <1>5
    <3> QED BY <1>3, <1>6, <2>3, <2>4, <2>5, <3>1, <3>2, <3>3 DEF Working
  <2>12. Filled(View, Top, Over, Lacking)'
    BY <1>3, <2>6, <2>10 DEF Filled, MinElements
  <2> QED BY <1>1, <1>3, <2>6, <2>7, <2>11, <2>12 DEF Shape
<1> QED BY <1>7, <1>8

-----------------------------------------------------------------------------
(* A record goes round by the parent, from l to its neighbour r *)

\* Two branches of q, at p and behind it.
Beside(N, top, q, p, l, r) ==
    /\ Linked(N, top) /\ q \in Live(N) /\ p \in Nat /\ p + 1 \in 1..Size(N, q) /\ N[q].depth # 0
    /\ l = N[q].branches[p + 1] /\ r = N[q].branches[p + 2]

LEMMA BesideProps ==
    ASSUME NEW N, NEW top, NEW q, NEW p, NEW l, NEW r, Beside(N, top, q, p, l, r)
    PROVE  /\ N \in Memory /\ q \in Live(N) /\ l \in Live(N) /\ r \in Live(N) /\ l # r /\ l # q /\ r # q
           /\ l # top /\ r # top /\ p \in Nat /\ p + 1 \in 1..Size(N, q) /\ Size(N, q) \in Nat
           /\ N[l].parent = q /\ N[l].pos = p /\ N[r].parent = q /\ N[r].pos = p + 1
           /\ N[l].depth = N[r].depth /\ N[l].depth \in Nat /\ N[q].depth = N[l].depth + 1
           /\ Width(N, q) = Size(N, q) + 1 /\ Size(N, l) \in Nat /\ Size(N, r) \in Nat
           /\ Width(N, l) = (IF N[l].depth = 0 THEN 0 ELSE Size(N, l) + 1)
           /\ Width(N, r) = (IF N[l].depth = 0 THEN 0 ELSE Size(N, r) + 1)
           /\ l # NoNode /\ r # NoNode /\ q # NoNode
           /\ N[q].branches[p + 1] = l /\ N[q].branches[p + 2] = r
<1>1. Linked(N, top) /\ q \in Live(N) /\ p \in Nat /\ p + 1 \in 1..Size(N, q) /\ N[q].depth # 0
      /\ l = N[q].branches[p + 1] /\ r = N[q].branches[p + 2] /\ N \in Memory
  BY DEF Beside, Linked
<1>2. Size(N, q) \in Nat /\ N[q].depth \in Nat
  BY <1>1, NodeTypes
<1>3. Width(N, q) = Size(N, q) + 1
  BY <1>1, LinkDown
<1>4. p + 1 \in 1..Width(N, q) /\ p + 2 \in 1..Width(N, q) /\ p + 1 # p + 2 /\ (p + 1) - 1 = p /\ (p + 2) - 1 = p + 1
  BY <1>1, <1>2, <1>3
<1>5. l \in Live(N) /\ l # top /\ N[l].parent = q /\ N[l].pos = p /\ N[l].depth + 1 = N[q].depth
  BY <1>1, <1>4, LinkDown
<1>6. r \in Live(N) /\ r # top /\ N[r].parent = q /\ N[r].pos = p + 1 /\ N[r].depth + 1 = N[q].depth
  BY <1>1, <1>4, LinkDown
<1>7. l # r
  BY <1>5, <1>6, <1>1
<1>8. N[l].depth \in Nat /\ N[r].depth \in Nat /\ Size(N, l) \in Nat /\ Size(N, r) \in Nat
      /\ l # NoNode /\ r # NoNode /\ q # NoNode
  BY <1>1, <1>5, <1>6, NodeTypes
<1>9. N[l].depth = N[r].depth /\ N[q].depth = N[l].depth + 1 /\ l # q /\ r # q
  BY <1>2, <1>5, <1>6, <1>8
<1>10. /\ Width(N, l) = (IF N[l].depth = 0 THEN 0 ELSE Size(N, l) + 1)
       /\ Width(N, r) = (IF N[l].depth = 0 THEN 0 ELSE Size(N, r) + 1)
  BY SMTT(60), <1>1, <1>5, <1>6, <1>9, LinkDown
<1> QED BY <1>1, <1>2, <1>3, <1>5, <1>6, <1>7, <1>8, <1>9, <1>10

\* The last record of l goes up, that between goes to r, and the last branch with it.
IsMoveRight(N, W, q, p, l, r) ==
    /\ W \in Memory /\ Live(W) = Live(N)
    /\ Size(W, l) + 1 = Size(N, l) /\ \A i \in 1..Size(W, l) : W[l].recs[i] = N[l].recs[i]
    /\ Size(W, r) = Size(N, r) + 1 /\ W[r].recs[1] = N[q].recs[p + 1]
    /\ \A i \in 1..Size(N, r) : W[r].recs[i + 1] = N[r].recs[i]
    /\ Size(W, q) = Size(N, q) /\ W[q].recs[p + 1] = N[l].recs[Size(N, l)]
    /\ \A i \in 1..Size(N, q) : i # p + 1 => W[q].recs[i] = N[q].recs[i]
    /\ Width(W, l) = (IF N[l].depth = 0 THEN 0 ELSE Size(N, l))
    /\ \A i \in 1..Width(W, l) : W[l].branches[i] = N[l].branches[i]
    /\ Width(W, r) = (IF N[l].depth = 0 THEN 0 ELSE Size(N, r) + 2)
    /\ N[l].depth # 0 => W[r].branches[1] = N[l].branches[Size(N, l) + 1]
    /\ \A i \in 1..Width(N, r) : W[r].branches[i + 1] = N[r].branches[i]
    /\ W[q].branches = N[q].branches
    /\ \A x \in Live(N) : x # l /\ x # r /\ x # q => W[x].recs = N[x].recs /\ W[x].branches = N[x].branches
    /\ \A x \in Live(N) :
          /\ W[x].depth = N[x].depth
          /\ W[x].parent = IF N[x].parent = l /\ N[x].pos = Size(N, l) THEN r ELSE N[x].parent
          /\ W[x].pos = IF N[x].parent = l /\ N[x].pos = Size(N, l) THEN 0
                        ELSE IF N[x].parent = r THEN N[x].pos + 1 ELSE N[x].pos

\* The other way: the first record of r goes up, that between goes to l.
IsMoveLeft(N, W, q, p, l, r) ==
    /\ W \in Memory /\ Live(W) = Live(N)
    /\ Size(W, r) + 1 = Size(N, r) /\ \A i \in 1..Size(W, r) : W[r].recs[i] = N[r].recs[i + 1]
    /\ Size(W, l) = Size(N, l) + 1 /\ W[l].recs[Size(N, l) + 1] = N[q].recs[p + 1]
    /\ \A i \in 1..Size(N, l) : W[l].recs[i] = N[l].recs[i]
    /\ Size(W, q) = Size(N, q) /\ W[q].recs[p + 1] = N[r].recs[1]
    /\ \A i \in 1..Size(N, q) : i # p + 1 => W[q].recs[i] = N[q].recs[i]
    /\ Width(W, r) = (IF N[l].depth = 0 THEN 0 ELSE Size(N, r))
    /\ \A i \in 1..Width(W, r) : W[r].branches[i] = N[r].branches[i + 1]
    /\ Width(W, l) = (IF N[l].depth = 0 THEN 0 ELSE Size(N, l) + 2)
    /\ N[l].depth # 0 => W[l].branches[Size(N, l) + 2] = N[r].branches[1]
    /\ \A i \in 1..Width(N, l) : W[l].branches[i] = N[l].branches[i]
    /\ W[q].branches = N[q].branches
    /\ \A x \in Live(N) : x # l /\ x # r /\ x # q => W[x].recs = N[x].recs /\ W[x].branches = N[x].branches
    /\ \A x \in Live(N) :
          /\ W[x].depth = N[x].depth
          /\ W[x].parent = IF N[x].parent = r /\ N[x].pos = 0 THEN l ELSE N[x].parent
          /\ W[x].pos = IF N[x].parent = r /\ N[x].pos = 0 THEN Size(N, l) + 1
                        ELSE IF N[x].parent = r THEN N[x].pos - 1 ELSE N[x].pos

LEMMA MoveRightLinked ==
    ASSUME NEW N, NEW W, NEW top, NEW q, NEW p, NEW l, NEW r, Beside(N, top, q, p, l, r),
           IsMoveRight(N, W, q, p, l, r)
    PROVE  Linked(W, top)
<1>1. /\ N \in Memory /\ q \in Live(N) /\ l \in Live(N) /\ r \in Live(N) /\ l # r /\ l # q /\ r # q
      /\ l # NoNode /\ r # NoNode /\ N[l].depth = N[r].depth /\ Size(N, l) \in Nat /\ Size(N, r) \in Nat
      /\ Width(N, l) = (IF N[l].depth = 0 THEN 0 ELSE Size(N, l) + 1)
      /\ Width(N, r) = (IF N[l].depth = 0 THEN 0 ELSE Size(N, r) + 1) /\ Linked(N, top)
      /\ N[l].parent = q /\ N[r].parent = q
  <2>1. Linked(N, top)
    BY DEF Beside
  <2> QED BY <2>1, BesideProps
<1>2. ASSUME NEW n \in Live(N), NEW i \in 1..Width(N, n)
      PROVE  LET b == N[n].branches[i]
             IN  b \in Live(N) /\ b # top /\ N[b].parent = n /\ N[b].pos = i - 1
                 /\ N[b].depth + 1 = N[n].depth
  BY <1>1, LinkDown
<1>3. ASSUME NEW x \in Live(N)
      PROVE  /\ W[x].depth = N[x].depth
             /\ W[x].parent = IF N[x].parent = l /\ N[x].pos = Size(N, l) THEN r ELSE N[x].parent
             /\ W[x].pos = IF N[x].parent = l /\ N[x].pos = Size(N, l) THEN 0
                           ELSE IF N[x].parent = r THEN N[x].pos + 1 ELSE N[x].pos
  BY DEF IsMoveRight
<1>4. /\ W \in Memory /\ Live(W) = Live(N) /\ Size(W, l) + 1 = Size(N, l) /\ Size(W, r) = Size(N, r) + 1
      /\ Size(W, q) = Size(N, q) /\ Width(W, q) = Width(N, q) /\ W[q].branches = N[q].branches
      /\ Width(W, l) = (IF N[l].depth = 0 THEN 0 ELSE Size(N, l))
      /\ (\A i \in 1..Width(W, l) : W[l].branches[i] = N[l].branches[i])
      /\ Width(W, r) = (IF N[l].depth = 0 THEN 0 ELSE Size(N, r) + 2)
      /\ (N[l].depth # 0 => W[r].branches[1] = N[l].branches[Size(N, l) + 1])
      /\ (\A i \in 1..Width(N, r) : W[r].branches[i + 1] = N[r].branches[i])
      /\ \A x \in Live(N) : x # l /\ x # r /\ x # q =>
            Size(W, x) = Size(N, x) /\ Width(W, x) = Width(N, x) /\ W[x].branches = N[x].branches
  BY DEF IsMoveRight, Size, Width
<1>5. Down(W, top, l)
  <2>1. ASSUME NEW i \in 1..Width(W, l)
        PROVE  LET b == W[l].branches[i]
               IN  b \in Live(W) /\ b # top /\ W[b].parent = l /\ W[b].pos = i - 1
                   /\ W[b].depth + 1 = W[l].depth
    <3>1. i \in 1..Width(N, l) /\ i - 1 # Size(N, l) /\ W[l].branches[i] = N[l].branches[i]
      BY <1>1, <1>4
    <3>2. PICK b \in Live(N) : b = N[l].branches[i] /\ b # top /\ N[b].parent = l /\ N[b].pos = i - 1
                               /\ N[b].depth + 1 = N[l].depth
      BY <1>1, <1>2, <3>1
    <3>3. W[b].parent = l /\ W[b].pos = i - 1 /\ W[b].depth + 1 = W[l].depth
      BY <1>1, <1>3, <3>1, <3>2
    <3> QED BY <1>4, <3>1, <3>2, <3>3
  <2>2. Width(W, l) = IF W[l].depth = 0 THEN 0 ELSE Size(W, l) + 1
    BY <1>1, <1>3, <1>4
  <2> QED BY <2>1, <2>2 DEF Down
<1>6. Down(W, top, r)
  <2>1. ASSUME NEW i \in 1..Width(W, r)
        PROVE  LET b == W[r].branches[i]
               IN  b \in Live(W) /\ b # top /\ W[b].parent = r /\ W[b].pos = i - 1
                   /\ W[b].depth + 1 = W[r].depth
    <3>0. N[l].depth # 0
      BY <1>1, <1>4
    <3>1. CASE i = 1
      <4>1. Size(N, l) + 1 \in 1..Width(N, l) /\ (Size(N, l) + 1) - 1 = Size(N, l)
        BY <3>0, <1>1
      <4>2. PICK b \in Live(N) : b = N[l].branches[Size(N, l) + 1] /\ b # top /\ N[b].parent = l
                                 /\ N[b].pos = Size(N, l) /\ N[b].depth + 1 = N[l].depth
        BY <1>1, <1>2, <4>1
      <4>3. W[b].parent = r /\ W[b].pos = 0 /\ W[b].depth + 1 = W[r].depth
        BY <1>1, <1>3, <4>2
      <4> QED BY <1>4, <3>0, <3>1, <4>2, <4>3
    <3>2. CASE i > 1
      <4> DEFINE j == i - 1
      <4>1. j \in 1..Width(N, r) /\ j + 1 = i /\ (j - 1) + 1 = i - 1
        BY <3>0, <3>2, <1>1, <1>4
      <4> HIDE DEF j
      <4>2. W[r].branches[j + 1] = N[r].branches[j]
        BY <4>1, <1>4
      <4>3. PICK b \in Live(N) : b = N[r].branches[j] /\ b # top /\ N[b].parent = r
                                 /\ N[b].pos = j - 1 /\ N[b].depth + 1 = N[r].depth
        BY <1>1, <1>2, <4>1
      <4>4. W[b].parent = r /\ W[b].pos = i - 1 /\ W[b].depth + 1 = W[r].depth
        BY <1>1, <1>3, <4>1, <4>3
      <4> QED BY <1>4, <4>1, <4>2, <4>3, <4>4
    <3> QED BY <3>1, <3>2, <3>0, <1>1, <1>4
  <2>2. Width(W, r) = IF W[r].depth = 0 THEN 0 ELSE Size(W, r) + 1
    BY <1>1, <1>3, <1>4
  <2> QED BY <2>1, <2>2 DEF Down
<1>7. ASSUME NEW n \in Live(N), n # l, n # r PROVE Down(W, top, n)
  <2>1. Size(W, n) = Size(N, n) /\ Width(W, n) = Width(N, n) /\ W[n].branches = N[n].branches
    BY <1>4, <1>7
  <2>2. ASSUME NEW i \in 1..Width(N, n)
        PROVE  LET b == N[n].branches[i]
               IN  b \in Live(W) /\ b # top /\ W[b].parent = n /\ W[b].pos = i - 1
                   /\ W[b].depth + 1 = W[n].depth
    <3>1. PICK b \in Live(N) : b = N[n].branches[i] /\ b # top /\ N[b].parent = n /\ N[b].pos = i - 1
                               /\ N[b].depth + 1 = N[n].depth
      BY <1>2
    <3>2. W[b].parent = n /\ W[b].pos = i - 1 /\ W[b].depth + 1 = W[n].depth
      BY <1>3, <1>7, <3>1
    <3> QED BY <1>4, <3>1, <3>2
  <2>3. Width(N, n) = IF N[n].depth = 0 THEN 0 ELSE Size(N, n) + 1
    BY <1>1, LinkDown
  <2> QED BY <1>3, <2>1, <2>2, <2>3 DEF Down
<1>8. ASSUME NEW n \in Live(N), n # top PROVE Up(W, n)
  <2> DEFINE s == N[n].parent
             i == N[n].pos + 1
  <2>1. s \in Live(N) /\ i \in 1..Width(N, s) /\ N[s].branches[i] = n
    BY <1>1, <1>8, LinkUp
  <2>0. N[n].pos \in Nat
    BY <1>1, NodeTypes
  <2>2. N[n].pos \in Nat /\ i - 1 = N[n].pos /\ i \in Nat
    BY <2>0
  <2>3. CASE s = l /\ N[n].pos = Size(N, l)
    <3>1. N[l].depth # 0 /\ i = Size(N, l) + 1
      BY <2>1, <2>2, <2>3, <1>1
    <3>2. W[n].parent = r /\ W[n].pos + 1 = 1
      BY <1>3, <2>3
    <3>3. 1 \in 1..Width(W, r) /\ W[r].branches[1] = n
      BY <3>1, <2>1, <2>3, <1>1, <1>4
    <3> QED BY <1>1, <1>4, <3>2, <3>3 DEF Up
  <2>4. CASE s = l /\ N[n].pos # Size(N, l)
    <3>1. W[n].parent = l /\ W[n].pos + 1 = i
      BY <1>1, <1>3, <2>4
    <3> HIDE DEF s, i
    <3>2. i \in 1..Width(W, l)
      BY <2>1, <2>2, <2>4, <1>1, <1>4
    <3> QED BY <1>1, <1>4, <2>1, <2>4, <3>1, <3>2 DEF Up
  <2>5. CASE s = r
    <3>1. W[n].parent = r /\ W[n].pos + 1 = i + 1
      BY <1>1, <1>3, <2>2, <2>5
    <3> HIDE DEF s, i
    <3>2. i + 1 \in 1..Width(W, r)
      BY <2>1, <2>2, <2>5, <1>1, <1>4
    <3> QED BY <1>1, <1>4, <2>1, <2>5, <3>1, <3>2 DEF Up
  <2>6. CASE s # l /\ s # r
    <3>1. Width(W, s) = Width(N, s) /\ W[s].branches = N[s].branches
      BY <1>4, <2>1, <2>6
    <3>2. W[n].parent = s /\ W[n].pos = N[n].pos
      BY <1>3, <2>6
    <3> QED BY <1>4, <2>1, <3>1, <3>2 DEF Up
  <2> QED BY <2>3, <2>4, <2>5, <2>6
<1>9. top \in Live(W) /\ W[top].parent = NoNode
  <2>1. top \in Live(N) /\ N[top].parent = NoNode
    BY <1>1 DEF Linked
  <2> QED BY <2>1, <1>1, <1>3, <1>4
<1> QED BY <1>4, <1>5, <1>6, <1>7, <1>8, <1>9 DEF Linked

LEMMA MoveLeftLinked ==
    ASSUME NEW N, NEW W, NEW top, NEW q, NEW p, NEW l, NEW r, Beside(N, top, q, p, l, r),
           IsMoveLeft(N, W, q, p, l, r)
    PROVE  Linked(W, top)
<1>1. /\ N \in Memory /\ q \in Live(N) /\ l \in Live(N) /\ r \in Live(N) /\ l # r /\ l # q /\ r # q
      /\ l # NoNode /\ r # NoNode /\ N[l].depth = N[r].depth /\ Size(N, l) \in Nat /\ Size(N, r) \in Nat
      /\ Width(N, l) = (IF N[l].depth = 0 THEN 0 ELSE Size(N, l) + 1)
      /\ Width(N, r) = (IF N[l].depth = 0 THEN 0 ELSE Size(N, r) + 1) /\ Linked(N, top)
      /\ N[l].parent = q /\ N[r].parent = q
  <2>1. Linked(N, top)
    BY DEF Beside
  <2> QED BY <2>1, BesideProps
<1>2. ASSUME NEW n \in Live(N), NEW i \in 1..Width(N, n)
      PROVE  LET b == N[n].branches[i]
             IN  b \in Live(N) /\ b # top /\ N[b].parent = n /\ N[b].pos = i - 1
                 /\ N[b].depth + 1 = N[n].depth
  BY <1>1, LinkDown
<1>3. ASSUME NEW x \in Live(N)
      PROVE  /\ W[x].depth = N[x].depth
             /\ W[x].parent = IF N[x].parent = r /\ N[x].pos = 0 THEN l ELSE N[x].parent
             /\ W[x].pos = IF N[x].parent = r /\ N[x].pos = 0 THEN Size(N, l) + 1
                           ELSE IF N[x].parent = r THEN N[x].pos - 1 ELSE N[x].pos
  BY DEF IsMoveLeft
<1>4. /\ W \in Memory /\ Live(W) = Live(N) /\ Size(W, r) + 1 = Size(N, r) /\ Size(W, l) = Size(N, l) + 1
      /\ Size(W, q) = Size(N, q) /\ Width(W, q) = Width(N, q) /\ W[q].branches = N[q].branches
      /\ Width(W, r) = (IF N[l].depth = 0 THEN 0 ELSE Size(N, r))
      /\ (\A i \in 1..Width(W, r) : W[r].branches[i] = N[r].branches[i + 1])
      /\ Width(W, l) = (IF N[l].depth = 0 THEN 0 ELSE Size(N, l) + 2)
      /\ (N[l].depth # 0 => W[l].branches[Size(N, l) + 2] = N[r].branches[1])
      /\ (\A i \in 1..Width(N, l) : W[l].branches[i] = N[l].branches[i])
      /\ \A x \in Live(N) : x # l /\ x # r /\ x # q =>
            Size(W, x) = Size(N, x) /\ Width(W, x) = Width(N, x) /\ W[x].branches = N[x].branches
  BY DEF IsMoveLeft, Size, Width
<1>5. Down(W, top, r)
  <2>1. ASSUME NEW i \in 1..Width(W, r)
        PROVE  LET b == W[r].branches[i]
               IN  b \in Live(W) /\ b # top /\ W[b].parent = r /\ W[b].pos = i - 1
                   /\ W[b].depth + 1 = W[r].depth
    <3> DEFINE j == i + 1
    <3>1. j \in 1..Width(N, r) /\ j - 1 # 0 /\ W[r].branches[i] = N[r].branches[j] /\ (j - 1) - 1 = i - 1
      BY <1>1, <1>4
    <3> HIDE DEF j
    <3>2. PICK b \in Live(N) : b = N[r].branches[j] /\ b # top /\ N[b].parent = r /\ N[b].pos = j - 1
                               /\ N[b].depth + 1 = N[r].depth
      BY <1>1, <1>2, <3>1
    <3>3. W[b].parent = r /\ W[b].pos = i - 1 /\ W[b].depth + 1 = W[r].depth
      BY <1>1, <1>3, <3>1, <3>2
    <3> QED BY <1>4, <3>1, <3>2, <3>3
  <2>2. Width(W, r) = IF W[r].depth = 0 THEN 0 ELSE Size(W, r) + 1
    BY <1>1, <1>3, <1>4
  <2> QED BY <2>1, <2>2 DEF Down
<1>6. Down(W, top, l)
  <2>1. ASSUME NEW i \in 1..Width(W, l)
        PROVE  LET b == W[l].branches[i]
               IN  b \in Live(W) /\ b # top /\ W[b].parent = l /\ W[b].pos = i - 1
                   /\ W[b].depth + 1 = W[l].depth
    <3>0. N[l].depth # 0 /\ i \in 1..(Size(N, l) + 2)
      BY <1>1, <1>4
    <3>1. CASE i = Size(N, l) + 2
      <4>1. 1 \in 1..Width(N, r) /\ 1 - 1 = 0 /\ i - 1 = Size(N, l) + 1
        BY <3>0, <3>1, <1>1
      <4>2. PICK b \in Live(N) : b = N[r].branches[1] /\ b # top /\ N[b].parent = r
                                 /\ N[b].pos = 0 /\ N[b].depth + 1 = N[r].depth
        BY <1>1, <1>2, <4>1
      <4>3. W[b].parent = l /\ W[b].pos = i - 1 /\ W[b].depth + 1 = W[l].depth
        BY <1>1, <1>3, <4>1, <4>2
      <4> QED BY <1>4, <3>0, <3>1, <4>2, <4>3
    <3>2. CASE i < Size(N, l) + 2
      <4>1. i \in 1..Width(N, l)
        BY <3>0, <3>2, <1>1
      <4>2. W[l].branches[i] = N[l].branches[i]
        BY <4>1, <1>4
      <4>3. PICK b \in Live(N) : b = N[l].branches[i] /\ b # top /\ N[b].parent = l
                                 /\ N[b].pos = i - 1 /\ N[b].depth + 1 = N[l].depth
        BY <1>1, <1>2, <4>1
      <4>4. W[b].parent = l /\ W[b].pos = i - 1 /\ W[b].depth + 1 = W[l].depth
        BY <1>1, <1>3, <4>3
      <4> QED BY <1>4, <4>2, <4>3, <4>4
    <3> QED BY <3>0, <3>1, <3>2, <1>1
  <2>2. Width(W, l) = IF W[l].depth = 0 THEN 0 ELSE Size(W, l) + 1
    BY <1>1, <1>3, <1>4
  <2> QED BY <2>1, <2>2 DEF Down
<1>7. ASSUME NEW n \in Live(N), n # l, n # r PROVE Down(W, top, n)
  <2>1. Size(W, n) = Size(N, n) /\ Width(W, n) = Width(N, n) /\ W[n].branches = N[n].branches
    BY <1>4, <1>7
  <2>2. ASSUME NEW i \in 1..Width(N, n)
        PROVE  LET b == N[n].branches[i]
               IN  b \in Live(W) /\ b # top /\ W[b].parent = n /\ W[b].pos = i - 1
                   /\ W[b].depth + 1 = W[n].depth
    <3>1. PICK b \in Live(N) : b = N[n].branches[i] /\ b # top /\ N[b].parent = n /\ N[b].pos = i - 1
                               /\ N[b].depth + 1 = N[n].depth
      BY <1>2
    <3>2. W[b].parent = n /\ W[b].pos = i - 1 /\ W[b].depth + 1 = W[n].depth
      BY <1>3, <1>7, <3>1
    <3> QED BY <1>4, <3>1, <3>2
  <2>3. Width(N, n) = IF N[n].depth = 0 THEN 0 ELSE Size(N, n) + 1
    BY <1>1, LinkDown
  <2> QED BY <1>3, <2>1, <2>2, <2>3 DEF Down
<1>8. ASSUME NEW n \in Live(N), n # top PROVE Up(W, n)
  <2> DEFINE s == N[n].parent
             i == N[n].pos + 1
  <2>1. s \in Live(N) /\ i \in 1..Width(N, s) /\ N[s].branches[i] = n
    BY <1>1, <1>8, LinkUp
  <2>0. N[n].pos \in Nat
    BY <1>1, NodeTypes
  <2>2. N[n].pos \in Nat /\ i - 1 = N[n].pos /\ i \in Nat
    BY <2>0
  <2>3. CASE s = r /\ N[n].pos = 0
    <3>1. N[l].depth # 0 /\ i = 1
      BY <2>1, <2>2, <2>3, <1>1
    <3>2. W[n].parent = l /\ W[n].pos + 1 = Size(N, l) + 2
      BY <1>1, <1>3, <2>3
    <3>3. Size(N, l) + 2 \in 1..Width(W, l) /\ W[l].branches[Size(N, l) + 2] = n
      BY <3>1, <2>1, <2>3, <1>1, <1>4
    <3> QED BY <1>1, <1>4, <3>2, <3>3 DEF Up
  <2>4. CASE s = r /\ N[n].pos # 0
    <3> DEFINE j == i - 1
    <3>1. W[n].parent = r /\ W[n].pos + 1 = j
      BY <1>1, <1>3, <2>2, <2>4
    <3>2. j + 1 = i /\ i # 1
      BY <2>2, <2>4
    <3> HIDE DEF s, i
    <3>3. j \in 1..Width(W, r)
      BY <2>1, <2>2, <2>4, <3>2, <1>1, <1>4
    <3> HIDE DEF j
    <3>4. W[r].branches[j] = N[r].branches[j + 1]
      BY <3>3, <1>4
    <3> QED BY <1>1, <1>4, <2>1, <2>4, <3>1, <3>2, <3>3, <3>4 DEF Up
  <2>5. CASE s = l
    <3>1. W[n].parent = l /\ W[n].pos + 1 = i
      BY <1>1, <1>3, <2>2, <2>5
    <3> HIDE DEF s, i
    <3>2. i \in 1..Width(W, l)
      BY <2>1, <2>2, <2>5, <1>1, <1>4
    <3> QED BY <1>1, <1>4, <2>1, <2>5, <3>1, <3>2 DEF Up
  <2>6. CASE s # l /\ s # r
    <3>1. Width(W, s) = Width(N, s) /\ W[s].branches = N[s].branches
      BY <1>4, <2>1, <2>6
    <3>2. W[n].parent = s /\ W[n].pos = N[n].pos
      BY <1>3, <2>6
    <3> QED BY <1>4, <2>1, <3>1, <3>2 DEF Up
  <2> QED BY <2>3, <2>4, <2>5, <2>6
<1>9. top \in Live(W) /\ W[top].parent = NoNode
  <2>1. top \in Live(N) /\ N[top].parent = NoNode
    BY <1>1 DEF Linked
  <2> QED BY <2>1, <1>1, <1>3, <1>4
<1> QED BY <1>4, <1>5, <1>6, <1>7, <1>8, <1>9 DEF Linked

-----------------------------------------------------------------------------
(* A branch without records joins its neighbour *)

\* That between goes to l, and the only branch of r with it.
IsCombine(N, W, q, p, l, r) ==
    /\ W \in Memory /\ Live(W) = Live(N) \ {r} /\ Size(N, r) = 0
    /\ Size(W, l) = Size(N, l) + 1 /\ W[l].recs[Size(N, l) + 1] = N[q].recs[p + 1]
    /\ \A i \in 1..Size(N, l) : W[l].recs[i] = N[l].recs[i]
    /\ Size(W, q) + 1 = Size(N, q)
    /\ \A i \in 1..Size(W, q) : W[q].recs[i] = IF i < p + 1 THEN N[q].recs[i] ELSE N[q].recs[i + 1]
    /\ Width(W, l) = (IF N[l].depth = 0 THEN 0 ELSE Size(N, l) + 2)
    /\ N[l].depth # 0 => W[l].branches[Size(N, l) + 2] = N[r].branches[1]
    /\ \A i \in 1..Width(N, l) : W[l].branches[i] = N[l].branches[i]
    /\ Width(W, q) = Size(N, q)
    /\ \A i \in 1..Width(W, q) :
          W[q].branches[i] = IF i < p + 2 THEN N[q].branches[i] ELSE N[q].branches[i + 1]
    /\ \A x \in Live(W) : x # l /\ x # q => W[x].recs = N[x].recs /\ W[x].branches = N[x].branches
    /\ \A x \in Live(W) :
          /\ W[x].depth = N[x].depth
          /\ W[x].parent = IF N[x].parent = r THEN l ELSE N[x].parent
          /\ W[x].pos = IF N[x].parent = r THEN Size(N, l) + 1
                        ELSE IF N[x].parent = q /\ N[x].pos > p + 1 THEN N[x].pos - 1 ELSE N[x].pos

LEMMA CombineLinked ==
    ASSUME NEW N, NEW W, NEW top, NEW q, NEW p, NEW l, NEW r, Beside(N, top, q, p, l, r),
           IsCombine(N, W, q, p, l, r)
    PROVE  Linked(W, top)
<1>1. /\ N \in Memory /\ q \in Live(N) /\ l \in Live(N) /\ r \in Live(N) /\ l # r /\ l # q /\ r # q
      /\ l # NoNode /\ r # NoNode /\ N[l].depth = N[r].depth /\ N[l].depth \in Nat /\ N[q].depth = N[l].depth + 1
      /\ Size(N, l) \in Nat /\ Size(N, q) \in Nat /\ p \in Nat /\ p + 1 \in 1..Size(N, q)
      /\ Width(N, q) = Size(N, q) + 1 /\ r # top /\ q # NoNode
      /\ Width(N, l) = (IF N[l].depth = 0 THEN 0 ELSE Size(N, l) + 1) /\ Linked(N, top)
      /\ N[l].parent = q /\ N[r].parent = q /\ N[r].pos = p + 1
  <2>1. Linked(N, top)
    BY DEF Beside
  <2> QED BY <2>1, BesideProps
<1>2. Width(N, r) = (IF N[l].depth = 0 THEN 0 ELSE 1)
  <2>1. Width(N, r) = (IF N[l].depth = 0 THEN 0 ELSE Size(N, r) + 1)
    BY BesideProps
  <2>2. Size(N, r) = 0
    BY DEF IsCombine
  <2> QED BY <2>1, <2>2
<1>3. ASSUME NEW n \in Live(N), NEW i \in 1..Width(N, n)
      PROVE  LET b == N[n].branches[i]
             IN  b \in Live(N) /\ b # top /\ N[b].parent = n /\ N[b].pos = i - 1
                 /\ N[b].depth + 1 = N[n].depth
  BY <1>1, LinkDown
<1>4. ASSUME NEW x \in Live(W)
      PROVE  /\ W[x].depth = N[x].depth
             /\ W[x].parent = IF N[x].parent = r THEN l ELSE N[x].parent
             /\ W[x].pos = IF N[x].parent = r THEN Size(N, l) + 1
                           ELSE IF N[x].parent = q /\ N[x].pos > p + 1 THEN N[x].pos - 1 ELSE N[x].pos
  BY DEF IsCombine
<1>5. /\ W \in Memory /\ Live(W) = Live(N) \ {r} /\ Size(W, l) = Size(N, l) + 1
      /\ Size(W, q) + 1 = Size(N, q) /\ Width(W, q) = Size(N, q)
      /\ (\A i \in 1..Width(W, q) :
             W[q].branches[i] = IF i < p + 2 THEN N[q].branches[i] ELSE N[q].branches[i + 1])
      /\ Width(W, l) = (IF N[l].depth = 0 THEN 0 ELSE Size(N, l) + 2)
      /\ (N[l].depth # 0 => W[l].branches[Size(N, l) + 2] = N[r].branches[1])
      /\ (\A i \in 1..Width(N, l) : W[l].branches[i] = N[l].branches[i])
      /\ \A x \in Live(W) : x # l /\ x # q =>
            Size(W, x) = Size(N, x) /\ Width(W, x) = Width(N, x) /\ W[x].branches = N[x].branches
  BY DEF IsCombine, Size, Width
<1>6. Down(W, top, l)
  <2>1. ASSUME NEW i \in 1..Width(W, l)
        PROVE  LET b == W[l].branches[i]
               IN  b \in Live(W) /\ b # top /\ W[b].parent = l /\ W[b].pos = i - 1
                   /\ W[b].depth + 1 = W[l].depth
    <3>0. N[l].depth # 0 /\ i \in 1..(Size(N, l) + 2)
      BY <1>1, <1>5
    <3>1. CASE i = Size(N, l) + 2
      <4>1. 1 \in 1..Width(N, r) /\ 1 - 1 = 0 /\ i - 1 = Size(N, l) + 1
        BY <3>0, <3>1, <1>1, <1>2
      <4>2. PICK b \in Live(N) : b = N[r].branches[1] /\ b # top /\ N[b].parent = r
                                 /\ N[b].pos = 0 /\ N[b].depth + 1 = N[r].depth
        BY <1>1, <1>3, <4>1
      <4>3. b \in Live(W)
        BY <4>2, <1>1, <1>5
      <4>4. W[b].parent = l /\ W[b].pos = i - 1 /\ W[b].depth + 1 = W[l].depth
        BY <1>1, <1>4, <1>5, <4>1, <4>2, <4>3
      <4> QED BY <1>5, <3>0, <3>1, <4>2, <4>3, <4>4
    <3>2. CASE i < Size(N, l) + 2
      <4>1. i \in 1..Width(N, l)
        BY <3>0, <3>2, <1>1
      <4>2. W[l].branches[i] = N[l].branches[i]
        BY <4>1, <1>5
      <4>3. PICK b \in Live(N) : b = N[l].branches[i] /\ b # top /\ N[b].parent = l
                                 /\ N[b].pos = i - 1 /\ N[b].depth + 1 = N[l].depth
        BY <1>1, <1>3, <4>1
      <4>4. b \in Live(W)
        BY <4>3, <1>1, <1>5
      <4>5. W[b].parent = l /\ W[b].pos = i - 1 /\ W[b].depth + 1 = W[l].depth
        BY <1>1, <1>4, <1>5, <4>3, <4>4
      <4> QED BY <4>2, <4>3, <4>4, <4>5
    <3> QED BY <3>0, <3>1, <3>2, <1>1
  <2>2. Width(W, l) = IF W[l].depth = 0 THEN 0 ELSE Size(W, l) + 1
    BY <1>1, <1>4, <1>5
  <2> QED BY <2>1, <2>2 DEF Down
<1>7. Down(W, top, q)
  <2>1. ASSUME NEW i \in 1..Width(W, q)
        PROVE  LET b == W[q].branches[i]
               IN  b \in Live(W) /\ b # top /\ W[b].parent = q /\ W[b].pos = i - 1
                   /\ W[b].depth + 1 = W[q].depth
    <3> DEFINE j == IF i < p + 2 THEN i ELSE i + 1
    <3>1. /\ j \in 1..Width(N, q) /\ j - 1 # p + 1
          /\ i - 1 = IF j - 1 > p + 1 THEN (j - 1) - 1 ELSE j - 1
      BY <1>1, <1>5
    <3>2. W[q].branches[i] = N[q].branches[j]
      BY <1>5
    <3> HIDE DEF j
    <3>3. PICK b \in Live(N) : b = N[q].branches[j] /\ b # top /\ N[b].parent = q
                               /\ N[b].pos = j - 1 /\ N[b].depth + 1 = N[q].depth
      BY <1>1, <1>3, <3>1
    <3>4. b \in Live(W)
      BY <3>1, <3>3, <1>1, <1>5
    <3>5. W[b].parent = q /\ W[b].pos = i - 1 /\ W[b].depth + 1 = W[q].depth
      BY <1>1, <1>4, <1>5, <3>1, <3>3, <3>4
    <3> QED BY <3>2, <3>3, <3>4, <3>5
  <2>2. Width(W, q) = IF W[q].depth = 0 THEN 0 ELSE Size(W, q) + 1
    BY <1>1, <1>4, <1>5
  <2> QED BY <2>1, <2>2 DEF Down
<1>8. ASSUME NEW n \in Live(W), n # l, n # q PROVE Down(W, top, n)
  <2>1. Size(W, n) = Size(N, n) /\ Width(W, n) = Width(N, n) /\ W[n].branches = N[n].branches
        /\ n \in Live(N) /\ n # r
    BY <1>5, <1>8
  <2>2. ASSUME NEW i \in 1..Width(N, n)
        PROVE  LET b == N[n].branches[i]
               IN  b \in Live(W) /\ b # top /\ W[b].parent = n /\ W[b].pos = i - 1
                   /\ W[b].depth + 1 = W[n].depth
    <3>1. PICK b \in Live(N) : b = N[n].branches[i] /\ b # top /\ N[b].parent = n /\ N[b].pos = i - 1
                               /\ N[b].depth + 1 = N[n].depth
      BY <1>3, <2>1
    <3>2. b \in Live(W)
      BY <3>1, <1>8, <1>1, <1>5
    <3>3. W[b].parent = n /\ W[b].pos = i - 1 /\ W[b].depth + 1 = W[n].depth
      BY <1>4, <1>8, <2>1, <3>1, <3>2
    <3> QED BY <3>1, <3>2, <3>3
  <2>3. Width(N, n) = IF N[n].depth = 0 THEN 0 ELSE Size(N, n) + 1
    BY <1>1, <2>1, LinkDown
  <2> QED BY <1>4, <2>1, <2>2, <2>3 DEF Down
<1>9. ASSUME NEW n \in Live(W), n # top PROVE Up(W, n)
  <2> DEFINE s == N[n].parent
             i == N[n].pos + 1
  <2>1. n \in Live(N) /\ n # r
    BY <1>5
  <2>2. s \in Live(N) /\ i \in 1..Width(N, s) /\ N[s].branches[i] = n
    BY <1>1, <1>9, <2>1, LinkUp
  <2>3. N[n].pos \in Nat
    BY <1>1, <2>1, NodeTypes
  <2>4. i - 1 = N[n].pos /\ i \in Nat
    BY <2>3
  <2>5. CASE s = r
    <3>1. N[l].depth # 0 /\ i = 1
      BY <2>2, <2>4, <2>5, <1>1, <1>2
    <3>2. W[n].parent = l /\ W[n].pos + 1 = Size(N, l) + 2
      BY <1>1, <1>4, <2>5
    <3>3. Size(N, l) + 2 \in 1..Width(W, l) /\ W[l].branches[Size(N, l) + 2] = n
      BY <3>1, <2>2, <2>5, <1>1, <1>5
    <3> QED BY <1>1, <1>5, <3>2, <3>3 DEF Up
  <2>6. CASE s = l
    <3>1. W[n].parent = l /\ W[n].pos + 1 = i
      BY <1>1, <1>4, <2>6
    <3> HIDE DEF s, i
    <3>2. i \in 1..Width(W, l)
      BY <2>2, <2>4, <2>6, <1>1, <1>5
    <3> QED BY <1>1, <1>5, <2>2, <2>6, <3>1, <3>2 DEF Up
  <2>7. CASE s = q
    <3>0. i # p + 2
      BY <2>1, <2>2, <2>7, BesideProps
    <3> DEFINE j == IF N[n].pos > p + 1 THEN i - 1 ELSE i
    <3>1. W[n].parent = q /\ W[n].pos + 1 = j
      BY <1>1, <1>4, <2>3, <2>7
    <3>2. j \in 1..Width(W, q) /\ i = IF j < p + 2 THEN j ELSE j + 1
      <4> HIDE DEF s
      <4>1. i \in 1..(Size(N, q) + 1)
        BY <2>2, <2>7, <1>1
      <4>2. Width(W, q) = Size(N, q)
        BY <1>5
      <4> QED BY <4>1, <4>2, <3>0, <1>1, <2>3
    <3> HIDE DEF s, i, j
    <3>3. W[q].branches[j] = N[q].branches[i]
      BY <3>2, <1>5
    <3> QED BY <1>1, <1>5, <2>2, <2>7, <3>1, <3>2, <3>3 DEF Up
  <2>8. CASE s # l /\ s # r /\ s # q
    <3>1. Width(W, s) = Width(N, s) /\ W[s].branches = N[s].branches /\ s \in Live(W)
      BY <1>5, <2>2, <2>8
    <3>2. W[n].parent = s /\ W[n].pos = N[n].pos
      BY <1>4, <2>8
    <3> QED BY <2>2, <3>1, <3>2 DEF Up
  <2> QED BY <2>5, <2>6, <2>7, <2>8
<1>10. top \in Live(W) /\ W[top].parent = NoNode
  <2>1. top \in Live(N) /\ N[top].parent = NoNode
    BY <1>1 DEF Linked
  <2>2. top \in Live(W)
    BY <2>1, <1>1, <1>5
  <2> QED BY <2>1, <2>2, <1>1, <1>4
<1> QED BY <1>5, <1>6, <1>7, <1>8, <1>9, <1>10 DEF Linked

-----------------------------------------------------------------------------
(* node_move_right, node_move_left and node_combine *)

\* M is N with other contents for three of its nodes.
Rewritten(N, M, l, x, r, y, q, z) ==
    /\ M \in Memory /\ Live(M) = Live(N) /\ M[l] = x /\ M[r] = y /\ M[q] = z
    /\ \A n \in Live(N) : n # l /\ n # r /\ n # q => M[n] = N[n]

LEMMA Rewrite ==
    ASSUME NEW N \in Memory, NEW l \in Live(N), NEW r \in Live(N), NEW q \in Live(N),
           l # r, l # q, r # q, NEW x \in NodeRec, NEW y \in NodeRec, NEW z \in NodeRec
    PROVE  Rewritten(N, [[[N EXCEPT ![l] = x] EXCEPT ![r] = y] EXCEPT ![q] = z], l, x, r, y, q, z)
<1> DEFINE A == [N EXCEPT ![l] = x]
           B == [A EXCEPT ![r] = y]
           C == [B EXCEPT ![q] = z]
<1>1. l \in Node /\ r \in Node /\ q \in Node
  BY DEF Live
<1>2. IsWrite(N, l, x, A)
  BY <1>1, Written
<1> HIDE DEF A
<1>3. IsWrite(A, r, y, B)
  <2>1. A \in Memory
    BY <1>2 DEF IsWrite
  <2> QED BY <1>1, <2>1, Written
<1> HIDE DEF B
<1>4. IsWrite(B, q, z, C)
  <2>1. B \in Memory
    BY <1>3 DEF IsWrite
  <2> QED BY <1>1, <2>1, Written
<1> HIDE DEF C
<1>5. C \in Memory /\ Live(C) = Live(N)
  BY <1>2, <1>3, <1>4 DEF IsWrite
<1>6. C[l] = x /\ C[r] = y /\ C[q] = z
  BY <1>1, <1>2, <1>3, <1>4 DEF IsWrite
<1>7. \A n \in Node : n # l /\ n # r /\ n # q => C[n] = N[n]
  BY <1>2, <1>3, <1>4 DEF IsWrite
<1>8. \A n \in Live(N) : n \in Node
  BY DEF Live
<1>9. Rewritten(N, C, l, x, r, y, q, z)
  BY <1>5, <1>6, <1>7, <1>8 DEF Rewritten
<1> QED BY <1>9 DEF A, B, C

\* The branches of n, from the from-th on, are nodes and stand there once.
Placeable(M, n, from) ==
    /\ M \in Memory /\ n \in Live(M) /\ from \in Nat \ {0}
    /\ \A i \in from..Width(M, n) : M[n].branches[i] \in Live(M)
    /\ \A i, j \in from..Width(M, n) : M[n].branches[i] = M[n].branches[j] => i = j

\* They have been told.
Placed(M, P, n, from) ==
    /\ P \in Memory /\ Live(P) = Live(M)
    /\ \A x \in Live(M) : P[x].recs = M[x].recs /\ P[x].branches = M[x].branches /\ P[x].depth = M[x].depth
    /\ \A i \in from..Width(M, n) : P[M[n].branches[i]].parent = n /\ P[M[n].branches[i]].pos = i - 1
    /\ \A x \in Live(M) : (\A i \in from..Width(M, n) : M[n].branches[i] # x)
                          => P[x].parent = M[x].parent /\ P[x].pos = M[x].pos

LEMMA PlaceIs ==
    ASSUME NEW M, NEW n, NEW from, Placeable(M, n, from)
    PROVE  Placed(M, Place(M, n, from), n, from)
<1> DEFINE P == Place(M, n, from)
<1>1. /\ M \in Memory /\ n \in Live(M) /\ from \in Nat \ {0}
      /\ \A i \in from..Width(M, n) : M[n].branches[i] \in Live(M)
      /\ \A i, j \in from..Width(M, n) : M[n].branches[i] = M[n].branches[j] => i = j
  BY DEF Placeable
<1>2. \A i \in from..Width(M, n) : P[M[n].branches[i]].parent = n /\ P[M[n].branches[i]].pos = i - 1
  BY <1>1, PlaceProps
<1>3. /\ P \in Memory /\ Live(P) = Live(M)
      /\ \A x \in Live(M) : P[x].recs = M[x].recs /\ P[x].branches = M[x].branches /\ P[x].depth = M[x].depth
      /\ \A x \in Node : (\A i \in from..Width(M, n) : M[n].branches[i] # x) => P[x] = M[x]
  BY <1>1, PlaceKeeps
<1> HIDE DEF P
<1>4. \A x \in Live(M) : x \in Node
  BY DEF Live
<1>5. Placed(M, P, n, from)
  BY <1>2, <1>3, <1>4 DEF Placed
<1> QED BY <1>5 DEF P

\* A sequence is empty exactly if it has no places.
LEMMA EmptyLen ==
    ASSUME NEW S, NEW s \in Seq(S) PROVE s = <<>> <=> Len(s) = 0
OBVIOUS

\* The branches of two neighbours are different nodes.
LEMMA BesideBranches ==
    ASSUME NEW N, NEW top, NEW q, NEW p, NEW l, NEW r, Beside(N, top, q, p, l, r)
    PROVE  /\ \A i \in 1..Width(N, l) : /\ N[l].branches[i] \in Live(N)
                                        /\ N[N[l].branches[i]].parent = l /\ N[N[l].branches[i]].pos = i - 1
           /\ \A i \in 1..Width(N, r) : /\ N[r].branches[i] \in Live(N)
                                        /\ N[N[r].branches[i]].parent = r /\ N[N[r].branches[i]].pos = i - 1
           /\ \A x \in Live(N) : N[x].parent = l =>
                 /\ N[x].pos + 1 \in 1..Width(N, l) /\ N[l].branches[N[x].pos + 1] = x /\ N[x].pos \in Nat
           /\ \A x \in Live(N) : N[x].parent = r =>
                 /\ N[x].pos + 1 \in 1..Width(N, r) /\ N[r].branches[N[x].pos + 1] = x /\ N[x].pos \in Nat
<1>1. Linked(N, top) /\ l \in Live(N) /\ r \in Live(N) /\ l # NoNode /\ r # NoNode
  <2>1. Linked(N, top)
    BY DEF Beside
  <2> QED BY <2>1, BesideProps
<1>2. N[top].parent = NoNode
  BY <1>1 DEF Linked
<1>3. /\ \A i \in 1..Width(N, l) : /\ N[l].branches[i] \in Live(N)
                                   /\ N[N[l].branches[i]].parent = l /\ N[N[l].branches[i]].pos = i - 1
      /\ \A i \in 1..Width(N, r) : /\ N[r].branches[i] \in Live(N)
                                   /\ N[N[r].branches[i]].parent = r /\ N[N[r].branches[i]].pos = i - 1
  BY <1>1, LinkDown
<1>4. ASSUME NEW x \in Live(N), N[x].parent = l
      PROVE  N[x].pos + 1 \in 1..Width(N, l) /\ N[l].branches[N[x].pos + 1] = x /\ N[x].pos \in Nat
  <2>1. x # top
    BY <1>1, <1>2, <1>4
  <2> QED BY <2>1, <1>1, <1>4, LinkUp
<1>5. ASSUME NEW x \in Live(N), N[x].parent = r
      PROVE  N[x].pos + 1 \in 1..Width(N, r) /\ N[r].branches[N[x].pos + 1] = x /\ N[x].pos \in Nat
  <2>1. x # top
    BY <1>1, <1>2, <1>5
  <2> QED BY <2>1, <1>1, <1>5, LinkUp
<1> QED BY <1>3, <1>4, <1>5

LEMMA MoveRightIs ==
    ASSUME NEW top, NEW q, NEW p, NEW l, NEW r, Beside(nodes, top, q, p, l, r), Count(l) > 0
    PROVE  IsMoveRight(nodes, NodeMoveRight(q, p), q, p, l, r)
<1>1. /\ nodes \in Memory /\ q \in Live(nodes) /\ l \in Live(nodes) /\ r \in Live(nodes)
      /\ l # r /\ l # q /\ r # q /\ p \in Nat /\ p + 1 \in 1..Size(nodes, q)
      /\ nodes[l].depth = nodes[r].depth /\ nodes[l].depth \in Nat
      /\ Size(nodes, l) \in Nat /\ Size(nodes, r) \in Nat /\ Size(nodes, q) \in Nat
      /\ Width(nodes, l) = (IF nodes[l].depth = 0 THEN 0 ELSE Size(nodes, l) + 1)
      /\ Width(nodes, r) = (IF nodes[l].depth = 0 THEN 0 ELSE Size(nodes, r) + 1)
      /\ nodes[q].branches[p + 1] = l /\ nodes[q].branches[p + 2] = r
      /\ l # NoNode /\ r # NoNode
  BY BesideProps
<1> DEFINE sl == nodes[l].recs
           sr == nodes[r].recs
           sq == nodes[q].recs
           bl == nodes[l].branches
           br == nodes[r].branches
           e == sq[p + 1]
           u == Last(sl)
           b == Last(bl)
           Rl == Front(sl)
           Rr == <<e>> \o sr
           Rq == [sq EXCEPT ![p + 1] = u]
           Bl == IF bl = <<>> THEN bl ELSE Front(bl)
           Br == IF br = <<>> THEN br ELSE <<b>> \o br
           x == [nodes[l] EXCEPT !.recs = Rl, !.branches = Bl]
           y == [nodes[r] EXCEPT !.recs = Rr, !.branches = Br]
           z == [nodes[q] EXCEPT !.recs = Rq]
           M == [[[nodes EXCEPT ![l] = x] EXCEPT ![r] = y] EXCEPT ![q] = z]
           P == Place(M, r, 1)
<1>2. /\ l \in Node /\ r \in Node /\ q \in Node
      /\ nodes[l] \in NodeRec /\ nodes[r] \in NodeRec /\ nodes[q] \in NodeRec
      /\ sl \in Seq(Keys) /\ sr \in Seq(Keys) /\ sq \in Seq(Keys) /\ bl \in Seq(Node) /\ br \in Seq(Node)
      /\ Len(sl) = Size(nodes, l) /\ Len(sr) = Size(nodes, r) /\ Len(sq) = Size(nodes, q)
      /\ Len(bl) = Width(nodes, l) /\ Len(br) = Width(nodes, r) /\ Len(sl) > 0
  BY <1>1, NodeTypes DEF Size, Width, Count
<1>3. NodeMoveRight(q, p) = P
  <2> DEFINE K == [nodes EXCEPT ![r].recs = <<e>> \o @, ![q].recs = [@ EXCEPT ![p + 1] = u],
                                ![l].recs = Front(@),
                                ![r].branches = IF @ = <<>> THEN @ ELSE <<b>> \o @,
                                ![l].branches = IF @ = <<>> THEN @ ELSE Front(@)]
  <2>1. NodeMoveRight(q, p) = Place(K, r, 1)
    BY <1>1 DEF NodeMoveRight
  <2>2. K = M
    <3> HIDE DEF u, b, e
    <3>1. nodes \in Memory /\ l \in Node /\ r \in Node /\ q \in Node /\ l # r /\ l # q /\ r # q
          /\ nodes[l] \in NodeRec /\ nodes[r] \in NodeRec /\ nodes[q] \in NodeRec
      BY <1>1, <1>2
    <3> QED BY <3>1 DEF Memory, NodeRec
  <2> QED BY <2>1, <2>2
<1>4. /\ e \in Keys /\ u \in Keys /\ u = sl[Len(sl)]
      /\ Rl \in Seq(Keys) /\ Len(Rl) = Len(sl) - 1 /\ \A i \in 1..(Len(sl) - 1) : Rl[i] = sl[i]
  <2>1. e \in Keys
    BY <1>1, NodeTypes
  <2>2. sl # <<>>
    BY <1>2, EmptyLen
  <2> QED BY <1>2, <2>1, <2>2, EndProps
<1>5. Rr \in Seq(Keys) /\ Len(Rr) = Len(sr) + 1 /\ Rr[1] = e /\ \A i \in 1..Len(sr) : Rr[i + 1] = sr[i]
  <2> HIDE DEF e, sr
  <2> QED BY <1>2, <1>4, AddProps
<1>6. Rq \in Seq(Keys) /\ Len(Rq) = Len(sq) /\ Rq[p + 1] = u /\ \A i \in 1..Len(sq) : i # p + 1 => Rq[i] = sq[i]
  <2> HIDE DEF u, sq
  <2> QED BY <1>1, <1>2, <1>4
<1>7. /\ Bl \in Seq(Node) /\ Len(Bl) = (IF nodes[l].depth = 0 THEN 0 ELSE Len(sl))
      /\ \A i \in 1..Len(Bl) : Bl[i] = bl[i]
  <2> HIDE DEF bl
  <2>1. CASE nodes[l].depth = 0
    BY <2>1, <1>1, <1>2, EmptyLen
  <2>2. CASE nodes[l].depth # 0
    <3>1. bl # <<>>
      BY <2>2, <1>1, <1>2, EmptyLen
    <3>2. Front(bl) \in Seq(Node) /\ Len(Front(bl)) = Len(bl) - 1
          /\ \A i \in 1..(Len(bl) - 1) : Front(bl)[i] = bl[i]
      BY <3>1, <1>2, EndProps
    <3> QED BY <3>1, <3>2, <2>2, <1>1, <1>2
  <2> QED BY <2>1, <2>2
<1>8. /\ Br \in Seq(Node) /\ Len(Br) = (IF nodes[l].depth = 0 THEN 0 ELSE Len(sr) + 2)
      /\ nodes[l].depth # 0 => Br[1] = bl[Len(sl) + 1]
      /\ \A i \in 1..Len(br) : Br[i + 1] = br[i]
  <2>1. CASE nodes[l].depth = 0
    <3> HIDE DEF br
    <3>1. br = <<>> /\ Len(br) = 0
      BY <2>1, <1>1, <1>2, EmptyLen
    <3> QED BY <3>1, <2>1, <1>2
  <2>2. CASE nodes[l].depth # 0
    <3> HIDE DEF bl, br
    <3>1. bl # <<>> /\ br # <<>>
      BY <2>2, <1>1, <1>2, EmptyLen
    <3>2. b = bl[Len(bl)] /\ b \in Node
      BY <3>1, <1>2, EndProps
    <3> HIDE DEF b
    <3>3. /\ <<b>> \o br \in Seq(Node) /\ Len(<<b>> \o br) = Len(br) + 1
          /\ (<<b>> \o br)[1] = b /\ \A i \in 1..Len(br) : (<<b>> \o br)[i + 1] = br[i]
      BY <3>2, <1>2, AddProps
    <3> QED BY <3>1, <3>2, <3>3, <2>2, <1>1, <1>2
  <2> QED BY <2>1, <2>2
<1> HIDE DEF Rl, Rr, Rq, Bl, Br
<1>9. /\ IsWith(nodes[l], Rl, Bl, x) /\ IsWith(nodes[r], Rr, Br, y)
  BY <1>2, <1>4, <1>5, <1>7, <1>8, With
<1>10. IsWith(nodes[q], Rq, nodes[q].branches, z)
  BY <1>2, <1>6, FieldRecs DEF IsWith
<1> HIDE DEF x, y, z
<1>11. Rewritten(nodes, M, l, x, r, y, q, z)
  BY <1>1, <1>9, <1>10, Rewrite DEF IsWith
<1> HIDE DEF M
<1>12. /\ M \in Memory /\ Live(M) = Live(nodes) /\ M[r].branches = Br /\ Width(M, r) = Len(Br)
       /\ \A n \in Live(nodes) : M[n].parent = nodes[n].parent /\ M[n].pos = nodes[n].pos
                                 /\ M[n].depth = nodes[n].depth
  BY <1>9, <1>10, <1>11 DEF Rewritten, IsWith, Width
<1>13. /\ \A i \in 1..Len(Br) : Br[i] \in Live(nodes)
       /\ \A i \in 1..Len(Br) : IF i = 1 THEN nodes[Br[i]].parent = l /\ nodes[Br[i]].pos = Len(sl)
                                ELSE nodes[Br[i]].parent = r /\ nodes[Br[i]].pos = i - 2
  <2> SUFFICES ASSUME NEW i \in 1..Len(Br)
               PROVE  /\ Br[i] \in Live(nodes)
                      /\ IF i = 1 THEN nodes[Br[i]].parent = l /\ nodes[Br[i]].pos = Len(sl)
                         ELSE nodes[Br[i]].parent = r /\ nodes[Br[i]].pos = i - 2
    OBVIOUS
  <2>0. nodes[l].depth # 0
    BY <1>8
  <2>1. CASE i = 1
    <3> DEFINE j == Len(sl) + 1
    <3>1. j \in 1..Width(nodes, l) /\ j - 1 = Len(sl) /\ Br[i] = bl[j]
      BY SMTT(60), <2>0, <2>1, <1>1, <1>2, <1>8
    <3> HIDE DEF j
    <3> QED BY SMTT(60), <2>1, <3>1, BesideBranches
  <2>2. CASE i # 1
    <3> DEFINE j == i - 1
    <3>1. j \in 1..Width(nodes, r) /\ j - 1 = i - 2 /\ j + 1 = i
      BY <2>0, <2>2, <1>1, <1>2, <1>8
    <3> HIDE DEF j
    <3>2. Br[i] = br[j]
      BY <3>1, <1>2, <1>8
    <3> QED BY <2>2, <3>1, <3>2, BesideBranches
  <2> QED BY <2>1, <2>2
<1>14. Placeable(M, r, 1)
  <2>1. ASSUME NEW i \in 1..Len(Br), NEW j \in 1..Len(Br), Br[i] = Br[j] PROVE i = j
    <3>1. i - 2 \in Int /\ j - 2 \in Int /\ i \in Nat /\ j \in Nat
      BY <1>8
    <3>2. (i = 1 <=> nodes[Br[i]].parent = l) /\ (j = 1 <=> nodes[Br[j]].parent = l)
      BY <1>1, <1>13
    <3>3. i # 1 /\ j # 1 => i - 2 = j - 2
      BY <1>13, <2>1
    <3> QED BY <3>1, <3>2, <3>3, <2>1
  <2> QED BY <2>1, <1>1, <1>12, <1>13 DEF Placeable
<1>15. Placed(M, P, r, 1)
  <2> DEFINE from == 1
  <2>1. Placeable(M, r, from) /\ P = Place(M, r, from)
    BY <1>14
  <2> HIDE DEF from, P
  <2>2. Placed(M, P, r, from)
    BY <2>1, PlaceIs
  <2> QED BY <2>2 DEF from
<1> HIDE DEF P
<1>16. /\ P \in Memory /\ Live(P) = Live(nodes)
       /\ \A n \in Live(nodes) : P[n].recs = M[n].recs /\ P[n].branches = M[n].branches /\ P[n].depth = nodes[n].depth
       /\ \A i \in 1..Len(Br) : P[Br[i]].parent = r /\ P[Br[i]].pos = i - 1
       /\ \A n \in Live(nodes) : (\A i \in 1..Len(Br) : Br[i] # n)
                                 => P[n].parent = nodes[n].parent /\ P[n].pos = nodes[n].pos
  BY <1>12, <1>15 DEF Placed
<1>17. ASSUME NEW n \in Live(nodes)
       PROVE  /\ P[n].parent = IF nodes[n].parent = l /\ nodes[n].pos = Len(sl) THEN r ELSE nodes[n].parent
              /\ P[n].pos = IF nodes[n].parent = l /\ nodes[n].pos = Len(sl) THEN 0
                            ELSE IF nodes[n].parent = r THEN nodes[n].pos + 1 ELSE nodes[n].pos
  <2>1. CASE nodes[n].parent = l /\ nodes[n].pos = Len(sl)
    <3>1. Len(sl) + 1 \in 1..Width(nodes, l) /\ bl[Len(sl) + 1] = n
      BY <2>1, BesideBranches
    <3>2. nodes[l].depth # 0
      BY <3>1, <1>1
    <3>3. 1 \in 1..Len(Br) /\ Br[1] = n
      BY <3>1, <3>2, <1>2, <1>8
    <3> QED BY <3>3, <2>1, <1>16
  <2>2. CASE nodes[n].parent = r
    <3> DEFINE i == nodes[n].pos + 1
    <3>1. i \in 1..Width(nodes, r) /\ br[i] = n /\ nodes[n].pos \in Nat
      BY <2>2, BesideBranches
    <3>5. nodes[l].depth # 0
      BY <3>1, <1>1
    <3>2. i + 1 \in 1..Len(Br) /\ (i + 1) - 1 = nodes[n].pos + 1
      <4>1. Len(Br) = Width(nodes, r) + 1 /\ Width(nodes, r) \in Nat
        BY <3>5, <1>1, <1>2, <1>8
      <4> QED BY <4>1, <3>1
    <3>3. Br[i + 1] = n
      BY <3>1, <1>2, <1>8
    <3> HIDE DEF i
    <3>4. P[n].parent = r /\ P[n].pos = nodes[n].pos + 1
      BY <3>2, <3>3, <1>16
    <3> QED BY <3>4, <2>2, <1>1
  <2>3. CASE ~(nodes[n].parent = l /\ nodes[n].pos = Len(sl)) /\ nodes[n].parent # r
    <3>1. \A i \in 1..Len(Br) : Br[i] # n
      BY <2>3, <1>13
    <3> QED BY <2>3, <3>1, <1>16
  <2> QED BY <2>1, <2>2, <2>3
<1>18. /\ P[l].recs = Rl /\ P[l].branches = Bl /\ P[r].recs = Rr /\ P[r].branches = Br
       /\ P[q].recs = Rq /\ P[q].branches = nodes[q].branches
  BY <1>1, <1>9, <1>10, <1>11, <1>16 DEF Rewritten, IsWith
<1>19. \A n \in Live(nodes) : n # l /\ n # r /\ n # q => P[n].recs = nodes[n].recs /\ P[n].branches = nodes[n].branches
  BY <1>11, <1>16 DEF Rewritten
<1>20. /\ Size(P, l) = Len(Rl) /\ Size(P, r) = Len(Rr) /\ Size(P, q) = Len(Rq)
       /\ Width(P, l) = Len(Bl) /\ Width(P, r) = Len(Br)
  BY <1>18 DEF Size, Width
<1>21. /\ Size(P, l) + 1 = Size(nodes, l) /\ \A i \in 1..Size(P, l) : P[l].recs[i] = nodes[l].recs[i]
       /\ Size(P, r) = Size(nodes, r) + 1 /\ P[r].recs[1] = nodes[q].recs[p + 1]
       /\ \A i \in 1..Size(nodes, r) : P[r].recs[i + 1] = nodes[r].recs[i]
  <2> HIDE DEF sl, sr
  <2>1. Size(P, l) + 1 = Len(sl) /\ \A i \in 1..Size(P, l) : P[l].recs[i] = sl[i]
    BY <1>1, <1>2, <1>4, <1>18, <1>20
  <2>2. Size(P, r) = Len(sr) + 1 /\ P[r].recs[1] = e /\ \A i \in 1..Len(sr) : P[r].recs[i + 1] = sr[i]
    BY <1>5, <1>18, <1>20
  <2> QED BY <2>1, <2>2, <1>2 DEF sl, sr
<1>22. /\ Size(P, q) = Size(nodes, q) /\ P[q].recs[p + 1] = nodes[l].recs[Size(nodes, l)]
       /\ \A i \in 1..Size(nodes, q) : i # p + 1 => P[q].recs[i] = nodes[q].recs[i]
  BY <1>2, <1>4, <1>6, <1>18, <1>20
<1>23. /\ Width(P, l) = (IF nodes[l].depth = 0 THEN 0 ELSE Size(nodes, l))
       /\ \A i \in 1..Width(P, l) : P[l].branches[i] = nodes[l].branches[i]
       /\ Width(P, r) = (IF nodes[l].depth = 0 THEN 0 ELSE Size(nodes, r) + 2)
       /\ nodes[l].depth # 0 => P[r].branches[1] = nodes[l].branches[Size(nodes, l) + 1]
       /\ \A i \in 1..Width(nodes, r) : P[r].branches[i + 1] = nodes[r].branches[i]
  BY <1>2, <1>7, <1>8, <1>18, <1>20
<1>24. \A n \in Live(nodes) :
          /\ P[n].depth = nodes[n].depth
          /\ P[n].parent = IF nodes[n].parent = l /\ nodes[n].pos = Size(nodes, l) THEN r ELSE nodes[n].parent
          /\ P[n].pos = IF nodes[n].parent = l /\ nodes[n].pos = Size(nodes, l) THEN 0
                        ELSE IF nodes[n].parent = r THEN nodes[n].pos + 1 ELSE nodes[n].pos
  BY <1>2, <1>16, <1>17
<1>25. IsMoveRight(nodes, P, q, p, l, r)
  BY <1>16, <1>18, <1>19, <1>21, <1>22, <1>23, <1>24 DEF IsMoveRight
<1> QED BY <1>3, <1>25

LEMMA MoveLeftIs ==
    ASSUME NEW top, NEW q, NEW p, NEW l, NEW r, Beside(nodes, top, q, p, l, r), Count(r) > 0
    PROVE  IsMoveLeft(nodes, NodeMoveLeft(q, p), q, p, l, r)
<1>1. /\ nodes \in Memory /\ q \in Live(nodes) /\ l \in Live(nodes) /\ r \in Live(nodes)
      /\ l # r /\ l # q /\ r # q /\ p \in Nat /\ p + 1 \in 1..Size(nodes, q)
      /\ nodes[l].depth = nodes[r].depth /\ nodes[l].depth \in Nat
      /\ Size(nodes, l) \in Nat /\ Size(nodes, r) \in Nat /\ Size(nodes, q) \in Nat
      /\ Width(nodes, l) = (IF nodes[l].depth = 0 THEN 0 ELSE Size(nodes, l) + 1)
      /\ Width(nodes, r) = (IF nodes[l].depth = 0 THEN 0 ELSE Size(nodes, r) + 1)
      /\ nodes[q].branches[p + 1] = l /\ nodes[q].branches[p + 2] = r
      /\ l # NoNode /\ r # NoNode
  BY BesideProps
<1> DEFINE sl == nodes[l].recs
           sr == nodes[r].recs
           sq == nodes[q].recs
           bl == nodes[l].branches
           br == nodes[r].branches
           e == sq[p + 1]
           u == Head(sr)
           b == Head(br)
           Rl == Append(sl, e)
           Rr == Tail(sr)
           Rq == [sq EXCEPT ![p + 1] = u]
           Bl == IF bl = <<>> THEN bl ELSE Append(bl, b)
           Br == IF br = <<>> THEN br ELSE Tail(br)
           x == [nodes[l] EXCEPT !.recs = Rl, !.branches = Bl]
           y == [nodes[r] EXCEPT !.recs = Rr, !.branches = Br]
           z == [nodes[q] EXCEPT !.recs = Rq]
           M == [[[nodes EXCEPT ![l] = x] EXCEPT ![r] = y] EXCEPT ![q] = z]
           w == Count(l) + 2
           O == Place(M, l, w)
           P == Place(O, r, 1)
<1>2. /\ l \in Node /\ r \in Node /\ q \in Node
      /\ nodes[l] \in NodeRec /\ nodes[r] \in NodeRec /\ nodes[q] \in NodeRec
      /\ sl \in Seq(Keys) /\ sr \in Seq(Keys) /\ sq \in Seq(Keys) /\ bl \in Seq(Node) /\ br \in Seq(Node)
      /\ Len(sl) = Size(nodes, l) /\ Len(sr) = Size(nodes, r) /\ Len(sq) = Size(nodes, q)
      /\ Len(bl) = Width(nodes, l) /\ Len(br) = Width(nodes, r) /\ Len(sr) > 0 /\ w = Len(sl) + 2
  BY <1>1, NodeTypes DEF Size, Width, Count
<1>3. NodeMoveLeft(q, p) = P
  <2> DEFINE K == [nodes EXCEPT ![l].recs = Append(@, e), ![q].recs = [@ EXCEPT ![p + 1] = u],
                                ![r].recs = Tail(@),
                                ![l].branches = IF @ = <<>> THEN @ ELSE Append(@, b),
                                ![r].branches = IF @ = <<>> THEN @ ELSE Tail(@)]
  <2>1. NodeMoveLeft(q, p) = Place(Place(K, l, w), r, 1)
    BY <1>1 DEF NodeMoveLeft
  <2>2. K = M
    <3> HIDE DEF u, b, e
    <3>1. nodes \in Memory /\ l \in Node /\ r \in Node /\ q \in Node /\ l # r /\ l # q /\ r # q
          /\ nodes[l] \in NodeRec /\ nodes[r] \in NodeRec /\ nodes[q] \in NodeRec
      BY <1>1, <1>2
    <3> QED BY <3>1 DEF Memory, NodeRec
  <2> QED BY <2>1, <2>2
<1> HIDE DEF w
<1>4. /\ e \in Keys /\ u \in Keys /\ u = sr[1]
      /\ Rr \in Seq(Keys) /\ Len(Rr) = Len(sr) - 1 /\ \A i \in 1..(Len(sr) - 1) : Rr[i] = sr[i + 1]
  <2>1. e \in Keys
    BY <1>1, NodeTypes
  <2>2. sr # <<>>
    BY <1>2, EmptyLen
  <2> QED BY <1>2, <2>1, <2>2, EndProps
<1>5. Rl \in Seq(Keys) /\ Len(Rl) = Len(sl) + 1 /\ Rl[Len(sl) + 1] = e /\ \A i \in 1..Len(sl) : Rl[i] = sl[i]
  <2> HIDE DEF e, sl
  <2> QED BY <1>2, <1>4, AddProps
<1>6. Rq \in Seq(Keys) /\ Len(Rq) = Len(sq) /\ Rq[p + 1] = u /\ \A i \in 1..Len(sq) : i # p + 1 => Rq[i] = sq[i]
  <2> HIDE DEF u, sq
  <2> QED BY <1>1, <1>2, <1>4
<1>7. /\ Br \in Seq(Node) /\ Len(Br) = (IF nodes[l].depth = 0 THEN 0 ELSE Len(sr))
      /\ \A i \in 1..Len(Br) : Br[i] = br[i + 1]
  <2> HIDE DEF br
  <2>1. CASE nodes[l].depth = 0
    <3>1. br = <<>> /\ Len(br) = 0
      BY <2>1, <1>1, <1>2, EmptyLen
    <3> QED BY <3>1, <2>1, <1>2
  <2>2. CASE nodes[l].depth # 0
    <3>1. br # <<>>
      BY <2>2, <1>1, <1>2, EmptyLen
    <3>2. Tail(br) \in Seq(Node) /\ Len(Tail(br)) = Len(br) - 1
          /\ \A i \in 1..(Len(br) - 1) : Tail(br)[i] = br[i + 1]
      BY <3>1, <1>2, EndProps
    <3> QED BY <3>1, <3>2, <2>2, <1>1, <1>2
  <2> QED BY <2>1, <2>2
<1>8. /\ Bl \in Seq(Node) /\ Len(Bl) = (IF nodes[l].depth = 0 THEN 0 ELSE Len(sl) + 2)
      /\ nodes[l].depth # 0 => Bl[Len(sl) + 2] = br[1]
      /\ \A i \in 1..Len(bl) : Bl[i] = bl[i]
  <2>1. CASE nodes[l].depth = 0
    <3> HIDE DEF bl
    <3>1. bl = <<>> /\ Len(bl) = 0
      BY <2>1, <1>1, <1>2, EmptyLen
    <3> QED BY <3>1, <2>1, <1>2
  <2>2. CASE nodes[l].depth # 0
    <3> HIDE DEF bl, br
    <3>1. bl # <<>> /\ br # <<>>
      BY <2>2, <1>1, <1>2, EmptyLen
    <3>2. b = br[1] /\ b \in Node
      BY <3>1, <1>2, EndProps
    <3> HIDE DEF b
    <3>3. /\ Append(bl, b) \in Seq(Node) /\ Len(Append(bl, b)) = Len(bl) + 1
          /\ Append(bl, b)[Len(bl) + 1] = b /\ \A i \in 1..Len(bl) : Append(bl, b)[i] = bl[i]
      BY <3>2, <1>2, AddProps
    <3>4. Len(bl) + 1 = Len(sl) + 2
      BY <2>2, <1>1, <1>2
    <3> QED BY <3>1, <3>2, <3>3, <3>4, <2>2, <1>1, <1>2
  <2> QED BY <2>1, <2>2
<1> HIDE DEF Rl, Rr, Rq, Bl, Br
<1>9. /\ IsWith(nodes[l], Rl, Bl, x) /\ IsWith(nodes[r], Rr, Br, y)
  BY <1>2, <1>4, <1>5, <1>7, <1>8, With
<1>10. IsWith(nodes[q], Rq, nodes[q].branches, z)
  BY <1>2, <1>6, FieldRecs DEF IsWith
<1> HIDE DEF x, y, z
<1>11. Rewritten(nodes, M, l, x, r, y, q, z)
  BY <1>1, <1>9, <1>10, Rewrite DEF IsWith
<1> HIDE DEF M
<1>12. /\ M \in Memory /\ Live(M) = Live(nodes) /\ M[l].branches = Bl /\ Width(M, l) = Len(Bl)
       /\ M[r].branches = Br
       /\ \A n \in Live(nodes) : M[n].parent = nodes[n].parent /\ M[n].pos = nodes[n].pos
                                 /\ M[n].depth = nodes[n].depth
  BY <1>9, <1>10, <1>11 DEF Rewritten, IsWith, Width
<1>13. nodes[l].depth # 0 => br[1] \in Live(nodes) /\ nodes[br[1]].parent = r /\ nodes[br[1]].pos = 0
  <2>1. nodes[l].depth # 0 => 1 \in 1..Width(nodes, r) /\ 1 - 1 = 0
    BY <1>1
  <2> QED BY <2>1, BesideBranches
<1>14. \A i \in w..Len(Bl) : i = w /\ nodes[l].depth # 0 /\ Bl[i] = br[1]
  BY <1>2, <1>8
<1>15. Placed(M, O, l, w)
  <2>1. Placeable(M, l, w)
    <3>1. w \in Nat \ {0}
      BY SMTT(60), <1>1, <1>2
    <3>2. \A i \in w..Width(M, l) : M[l].branches[i] \in Live(M)
      BY <1>12, <1>13, <1>14
    <3>3. \A i, j \in w..Width(M, l) : i = j
      BY <1>12, <1>14
    <3> QED BY <3>1, <3>2, <3>3, <1>1, <1>12 DEF Placeable
  <2> HIDE DEF O
  <2> QED BY <2>1, PlaceIs DEF O
<1> HIDE DEF O
<1>16. /\ O \in Memory /\ Live(O) = Live(nodes)
       /\ \A n \in Live(nodes) : O[n].recs = M[n].recs /\ O[n].branches = M[n].branches /\ O[n].depth = nodes[n].depth
       /\ \A n \in Live(nodes) : (nodes[l].depth = 0 \/ br[1] # n) => O[n].parent = nodes[n].parent /\ O[n].pos = nodes[n].pos
       /\ nodes[l].depth # 0 => O[br[1]].parent = l /\ O[br[1]].pos = Len(sl) + 1
  <2>1. /\ O \in Memory /\ Live(O) = Live(M)
        /\ (\A n \in Live(M) : O[n].recs = M[n].recs /\ O[n].branches = M[n].branches /\ O[n].depth = M[n].depth)
        /\ (\A i \in w..Len(Bl) : O[Bl[i]].parent = l /\ O[Bl[i]].pos = i - 1)
        /\ \A n \in Live(M) : (\A i \in w..Len(Bl) : Bl[i] # n)
                              => O[n].parent = M[n].parent /\ O[n].pos = M[n].pos
    BY <1>12, <1>15 DEF Placed
  <2>2. nodes[l].depth # 0 => O[br[1]].parent = l /\ O[br[1]].pos = Len(sl) + 1
    <3>1. nodes[l].depth # 0 => w \in w..Len(Bl) /\ w - 1 = Len(sl) + 1 /\ Bl[w] = br[1]
      BY <1>2, <1>8
    <3> QED BY <3>1, <2>1
  <2>3. ASSUME NEW n \in Live(nodes), nodes[l].depth = 0 \/ br[1] # n
        PROVE  O[n].parent = nodes[n].parent /\ O[n].pos = nodes[n].pos
    <3>1. \A i \in w..Len(Bl) : Bl[i] # n
      BY <1>14, <2>3
    <3> QED BY <3>1, <2>1, <1>12
  <2> QED BY <2>1, <2>2, <2>3, <1>12
<1>17. \A i \in 1..Len(Br) : Br[i] \in Live(nodes) /\ nodes[Br[i]].parent = r /\ nodes[Br[i]].pos = i
  <2> SUFFICES ASSUME NEW i \in 1..Len(Br)
               PROVE  Br[i] \in Live(nodes) /\ nodes[Br[i]].parent = r /\ nodes[Br[i]].pos = i
    OBVIOUS
  <2> DEFINE j == i + 1
  <2>1. j \in 1..Width(nodes, r) /\ j - 1 = i /\ Br[i] = br[j]
    BY <1>1, <1>2, <1>7
  <2> HIDE DEF j
  <2> QED BY <2>1, BesideBranches
<1>18. O[r].branches = Br /\ Width(O, r) = Len(Br)
  BY <1>1, <1>12, <1>16 DEF Width
<1>19. Placeable(O, r, 1)
  BY <1>1, <1>16, <1>17, <1>18 DEF Placeable
<1>20. Placed(O, P, r, 1)
  <2> DEFINE from == 1
  <2>1. Placeable(O, r, from) /\ P = Place(O, r, from)
    BY <1>19
  <2> HIDE DEF from, P
  <2>2. Placed(O, P, r, from)
    BY <2>1, PlaceIs
  <2> QED BY <2>2 DEF from
<1> HIDE DEF P
<1>21. /\ P \in Memory /\ Live(P) = Live(nodes)
       /\ \A n \in Live(nodes) : P[n].recs = M[n].recs /\ P[n].branches = M[n].branches /\ P[n].depth = nodes[n].depth
       /\ \A i \in 1..Len(Br) : P[Br[i]].parent = r /\ P[Br[i]].pos = i - 1
       /\ \A n \in Live(nodes) : (\A i \in 1..Len(Br) : Br[i] # n)
                                 => P[n].parent = O[n].parent /\ P[n].pos = O[n].pos
  BY <1>16, <1>18, <1>20 DEF Placed
<1>22. ASSUME NEW n \in Live(nodes)
       PROVE  /\ P[n].parent = IF nodes[n].parent = r /\ nodes[n].pos = 0 THEN l ELSE nodes[n].parent
              /\ P[n].pos = IF nodes[n].parent = r /\ nodes[n].pos = 0 THEN Len(sl) + 1
                            ELSE IF nodes[n].parent = r THEN nodes[n].pos - 1 ELSE nodes[n].pos
  <2>1. CASE nodes[n].parent = r /\ nodes[n].pos = 0
    <3>1. 1 \in 1..Width(nodes, r) /\ br[1] = n
      BY <2>1, BesideBranches
    <3>2. nodes[l].depth # 0
      BY <3>1, <1>1
    <3>3. \A i \in 1..Len(Br) : Br[i] # n
      BY <2>1, <1>17
    <3> QED BY <3>1, <3>2, <3>3, <2>1, <1>16, <1>21
  <2>2. CASE nodes[n].parent = r /\ nodes[n].pos # 0
    <3> DEFINE i == nodes[n].pos
    <3>1. i + 1 \in 1..Width(nodes, r) /\ br[i + 1] = n /\ i \in Nat /\ i # 0
      BY <2>2, BesideBranches
    <3> HIDE DEF i
    <3>2. nodes[l].depth # 0
      BY <3>1, <1>1
    <3>3. i \in 1..Len(Br)
      BY <3>1, <3>2, <1>1, <1>2, <1>7
    <3>4. Br[i] = n
      BY <3>1, <3>3, <1>7
    <3>5. P[n].parent = r /\ P[n].pos = i - 1
      BY <3>3, <3>4, <1>21
    <3> QED BY <3>5, <2>2 DEF i
  <2>3. CASE nodes[n].parent # r
    <3>1. \A i \in 1..Len(Br) : Br[i] # n
      BY <2>3, <1>17
    <3>2. nodes[l].depth = 0 \/ br[1] # n
      BY <2>3, <1>13
    <3> QED BY <2>3, <3>1, <3>2, <1>16, <1>21
  <2> QED BY <2>1, <2>2, <2>3
<1>23. /\ P[l].recs = Rl /\ P[l].branches = Bl /\ P[r].recs = Rr /\ P[r].branches = Br
       /\ P[q].recs = Rq /\ P[q].branches = nodes[q].branches
  BY <1>1, <1>9, <1>10, <1>11, <1>21 DEF Rewritten, IsWith
<1>24. \A n \in Live(nodes) : n # l /\ n # r /\ n # q => P[n].recs = nodes[n].recs /\ P[n].branches = nodes[n].branches
  BY <1>11, <1>21 DEF Rewritten
<1>25. /\ Size(P, l) = Len(Rl) /\ Size(P, r) = Len(Rr) /\ Size(P, q) = Len(Rq)
       /\ Width(P, l) = Len(Bl) /\ Width(P, r) = Len(Br)
  BY <1>23 DEF Size, Width
<1>26. /\ Size(P, r) + 1 = Size(nodes, r) /\ \A i \in 1..Size(P, r) : P[r].recs[i] = nodes[r].recs[i + 1]
       /\ Size(P, l) = Size(nodes, l) + 1 /\ P[l].recs[Size(nodes, l) + 1] = nodes[q].recs[p + 1]
       /\ \A i \in 1..Size(nodes, l) : P[l].recs[i] = nodes[l].recs[i]
  <2> HIDE DEF sl, sr
  <2>1. Size(P, r) + 1 = Len(sr) /\ \A i \in 1..Size(P, r) : P[r].recs[i] = sr[i + 1]
    BY <1>1, <1>2, <1>4, <1>23, <1>25
  <2>2. Size(P, l) = Len(sl) + 1 /\ P[l].recs[Len(sl) + 1] = e /\ \A i \in 1..Len(sl) : P[l].recs[i] = sl[i]
    BY <1>5, <1>23, <1>25
  <2> QED BY <2>1, <2>2, <1>2 DEF sl, sr
<1>27. /\ Size(P, q) = Size(nodes, q) /\ P[q].recs[p + 1] = nodes[r].recs[1]
       /\ \A i \in 1..Size(nodes, q) : i # p + 1 => P[q].recs[i] = nodes[q].recs[i]
  BY <1>2, <1>4, <1>6, <1>23, <1>25
<1>28. /\ Width(P, r) = (IF nodes[l].depth = 0 THEN 0 ELSE Size(nodes, r))
       /\ \A i \in 1..Width(P, r) : P[r].branches[i] = nodes[r].branches[i + 1]
       /\ Width(P, l) = (IF nodes[l].depth = 0 THEN 0 ELSE Size(nodes, l) + 2)
       /\ nodes[l].depth # 0 => P[l].branches[Size(nodes, l) + 2] = nodes[r].branches[1]
       /\ \A i \in 1..Width(nodes, l) : P[l].branches[i] = nodes[l].branches[i]
  BY <1>2, <1>7, <1>8, <1>23, <1>25
<1>29. \A n \in Live(nodes) :
          /\ P[n].depth = nodes[n].depth
          /\ P[n].parent = IF nodes[n].parent = r /\ nodes[n].pos = 0 THEN l ELSE nodes[n].parent
          /\ P[n].pos = IF nodes[n].parent = r /\ nodes[n].pos = 0 THEN Size(nodes, l) + 1
                        ELSE IF nodes[n].parent = r THEN nodes[n].pos - 1 ELSE nodes[n].pos
  BY <1>2, <1>21, <1>22
<1>30. IsMoveLeft(nodes, P, q, p, l, r)
  BY <1>21, <1>23, <1>24, <1>26, <1>27, <1>28, <1>29 DEF IsMoveLeft
<1> QED BY <1>3, <1>30

\* Memory that a node has given back.
Free(M, r) == [M EXCEPT ![r] = Unused]

LEMMA Freed ==
    ASSUME NEW M \in Memory, NEW r \in Live(M)
    PROVE  /\ Free(M, r) \in Memory /\ Live(Free(M, r)) = Live(M) \ {r}
           /\ \A n \in Live(M) : n # r => Free(M, r)[n] = M[n]
BY DEF Free, Memory, Live

\* A record and no other go behind those of a node.
LEMMA AppendNone ==
    ASSUME NEW s \in Seq(Keys), NEW e \in Keys, NEW none, none \in [1..0 -> Nat]
    PROVE  /\ Append(s, e) \o none \in Seq(Keys) /\ Len(Append(s, e) \o none) = Len(s) + 1
           /\ (Append(s, e) \o none)[Len(s) + 1] = e
           /\ \A i \in 1..Len(s) : (Append(s, e) \o none)[i] = s[i]
<1>1. none \in Seq(Keys) /\ Len(none) = 0
  <2>1. none \in [1..0 -> Keys]
    OBVIOUS
  <2> QED BY <2>1
<1> DEFINE t == Append(s, e)
<1>2. t \in Seq(Keys) /\ Len(t) = Len(s) + 1 /\ t[Len(s) + 1] = e /\ \A i \in 1..Len(s) : t[i] = s[i]
  BY AddProps
<1> HIDE DEF t
<1>3. t \o none \in Seq(Keys) /\ Len(t \o none) = Len(t) + 0 /\ \A i \in 1..Len(t) : (t \o none)[i] = t[i]
  BY <1>1, <1>2, ConcatProps
<1>4. t \o none \in Seq(Keys) /\ Len(t \o none) = Len(s) + 1 /\ (t \o none)[Len(s) + 1] = e
      /\ \A i \in 1..Len(s) : (t \o none)[i] = s[i]
  BY <1>2, <1>3
<1> QED BY <1>4 DEF t

LEMMA CombineIs ==
    ASSUME NEW top, NEW q, NEW p, NEW l, NEW r, Beside(nodes, top, q, p, l, r), Count(r) = 0
    PROVE  IsCombine(nodes, NodeCombine(q, p), q, p, l, r)
<1>1. /\ nodes \in Memory /\ q \in Live(nodes) /\ l \in Live(nodes) /\ r \in Live(nodes)
      /\ l # r /\ l # q /\ r # q /\ p \in Nat /\ p + 1 \in 1..Size(nodes, q)
      /\ nodes[l].depth = nodes[r].depth /\ nodes[l].depth \in Nat /\ nodes[q].depth = nodes[l].depth + 1
      /\ Size(nodes, l) \in Nat /\ Size(nodes, r) = 0 /\ Size(nodes, q) \in Nat
      /\ Width(nodes, l) = (IF nodes[l].depth = 0 THEN 0 ELSE Size(nodes, l) + 1)
      /\ Width(nodes, r) = (IF nodes[l].depth = 0 THEN 0 ELSE Size(nodes, r) + 1)
      /\ Width(nodes, q) = Size(nodes, q) + 1
      /\ nodes[q].branches[p + 1] = l /\ nodes[q].branches[p + 2] = r
      /\ l # NoNode /\ r # NoNode /\ q # NoNode
  BY BesideProps DEF Count, Size
<1> DEFINE sl == nodes[l].recs
           sq == nodes[q].recs
           bl == nodes[l].branches
           br == nodes[r].branches
           bq == nodes[q].branches
           e == sq[p + 1]
           none == [i \in 1..Count(r) |-> IF i <= Count(q) THEN nodes[q].recs[i] ELSE 0]
           Rl == Append(sl, e) \o none
           Rq == RemoveAt(sq, p + 1)
           Bl == bl \o br
           Bq == RemoveAt(bq, p + 2)
           x == [nodes[l] EXCEPT !.recs = Rl, !.branches = Bl]
           y == nodes[r]
           z == [nodes[q] EXCEPT !.recs = Rq, !.branches = Bq]
           M == [[[nodes EXCEPT ![l] = x] EXCEPT ![r] = y] EXCEPT ![q] = z]
           C == [M EXCEPT ![r] = Unused]
           w == Count(l) + 2
           v == p + 2
           O == Place(C, l, w)
           P == Place(O, q, v)
<1>2. /\ l \in Node /\ r \in Node /\ q \in Node
      /\ nodes[l] \in NodeRec /\ nodes[r] \in NodeRec /\ nodes[q] \in NodeRec
      /\ sl \in Seq(Keys) /\ sq \in Seq(Keys) /\ bl \in Seq(Node) /\ br \in Seq(Node) /\ bq \in Seq(Node)
      /\ Len(sl) = Size(nodes, l) /\ Len(sq) = Size(nodes, q)
      /\ Len(bl) = Width(nodes, l) /\ Len(br) = Width(nodes, r) /\ Len(bq) = Width(nodes, q)
      /\ w = Len(sl) + 2
  BY <1>1, NodeTypes DEF Size, Width, Count
<1>3. NodeCombine(q, p) = P
  <2> DEFINE K == [nodes EXCEPT ![l].recs = Append(@, e) \o none, ![l].branches = @ \o br,
                                ![q].recs = RemoveAt(@, p + 1), ![q].branches = RemoveAt(@, p + 2),
                                ![r] = Unused]
  <2>1. NodeCombine(q, p) = Place(Place(K, l, w), q, v)
    BY <1>1 DEF NodeCombine
  <2>2. K = C
    <3> HIDE DEF e, br, none
    <3> QED BY <1>1, <1>2 DEF Memory, NodeRec
  <2> QED BY <2>1, <2>2
<1>4. /\ e \in Keys /\ Rl \in Seq(Keys) /\ Len(Rl) = Len(sl) + 1 /\ Rl[Len(sl) + 1] = e
      /\ \A i \in 1..Len(sl) : Rl[i] = sl[i]
  <2>1. e \in Keys
    BY <1>1, NodeTypes
  <2>2. none \in [1..0 -> Nat]
    BY <1>1 DEF Count, Size
  <2> HIDE DEF e, none, sl
  <2> QED BY <2>1, <2>2, <1>2, AppendNone
<1>5. /\ Rq \in Seq(Keys) /\ Len(Rq) = Len(sq) - 1
      /\ \A i \in 1..(Len(sq) - 1) : Rq[i] = IF i < p + 1 THEN sq[i] ELSE sq[i + 1]
  <2> DEFINE a == p + 1
  <2>1. a \in 1..Len(sq)
    BY <1>1, <1>2
  <2> HIDE DEF a, sq
  <2>2. /\ RemoveAt(sq, a) \in Seq(Keys) /\ Len(RemoveAt(sq, a)) = Len(sq) - 1
        /\ \A i \in 1..(Len(sq) - 1) : RemoveAt(sq, a)[i] = IF i < a THEN sq[i] ELSE sq[i + 1]
    BY <2>1, <1>2, RemoveProps
  <2> QED BY <2>2 DEF a
<1>6. /\ Bq \in Seq(Node) /\ Len(Bq) = Len(sq)
      /\ \A i \in 1..Len(sq) : Bq[i] = IF i < p + 2 THEN bq[i] ELSE bq[i + 1]
  <2>1. v \in 1..Len(bq) /\ Len(bq) - 1 = Len(sq)
    <3>1. Len(bq) = Size(nodes, q) + 1 /\ Len(sq) = Size(nodes, q)
      BY <1>1, <1>2
    <3> HIDE DEF bq, sq
    <3> QED BY <3>1, <1>1
  <2> HIDE DEF v, bq, sq
  <2>2. /\ RemoveAt(bq, v) \in Seq(Node) /\ Len(RemoveAt(bq, v)) = Len(bq) - 1
        /\ \A i \in 1..(Len(bq) - 1) : RemoveAt(bq, v)[i] = IF i < v THEN bq[i] ELSE bq[i + 1]
    BY <2>1, <1>2, RemoveProps
  <2> QED BY <2>1, <2>2 DEF v
<1>7. /\ Bl \in Seq(Node) /\ Len(Bl) = (IF nodes[l].depth = 0 THEN 0 ELSE Len(sl) + 2)
      /\ nodes[l].depth # 0 => Bl[Len(sl) + 2] = br[1]
      /\ \A i \in 1..Len(bl) : Bl[i] = bl[i]
  <2>1. /\ Bl \in Seq(Node) /\ Len(Bl) = Len(bl) + Len(br)
        /\ \A i \in 1..Len(bl) : Bl[i] = bl[i]
        /\ \A i \in 1..Len(br) : Bl[Len(bl) + i] = br[i]
    <3> HIDE DEF bl, br
    <3>1. /\ bl \o br \in Seq(Node) /\ Len(bl \o br) = Len(bl) + Len(br)
          /\ \A i \in 1..Len(bl) : (bl \o br)[i] = bl[i]
          /\ \A i \in 1..Len(br) : (bl \o br)[Len(bl) + i] = br[i]
      <4>1. bl \in Seq(Node) /\ br \in Seq(Node)
        BY <1>2
      <4> QED BY <4>1, ConcatProps
    <3> QED BY <3>1
  <2>2. nodes[l].depth # 0 => Len(bl) = Len(sl) + 1 /\ Len(br) = 1
    BY <1>1, <1>2
  <2>3. nodes[l].depth = 0 => Len(bl) = 0 /\ Len(br) = 0
    BY <1>1, <1>2
  <2>4. nodes[l].depth # 0 => Bl[Len(sl) + 2] = br[1]
    <3>1. nodes[l].depth # 0 => Len(bl) + 1 = Len(sl) + 2 /\ 1 \in 1..Len(br)
      BY <2>2, <1>1, <1>2
    <3> HIDE DEF Bl
    <3> QED BY <3>1, <2>1
  <2> HIDE DEF Bl, bl, br, sl
  <2>5. Len(Bl) = (IF nodes[l].depth = 0 THEN 0 ELSE Len(sl) + 2)
    BY <2>1, <2>2, <2>3, <1>1, <1>2
  <2> QED BY <2>1, <2>4, <2>5
<1> HIDE DEF Rl, Rq, Bl, Bq
<1>9. IsWith(nodes[l], Rl, Bl, x) /\ IsWith(nodes[q], Rq, Bq, z)
  BY <1>2, <1>4, <1>5, <1>6, <1>7, With
<1> HIDE DEF x, y, z
<1>10. Rewritten(nodes, M, l, x, r, y, q, z)
  BY <1>1, <1>2, <1>9, Rewrite DEF IsWith, y
<1> HIDE DEF M
<1>11. /\ C \in Memory /\ Live(C) = Live(nodes) \ {r}
       /\ \A n \in Live(nodes) : n # r => C[n] = M[n]
  <2>1. M \in Memory /\ Live(M) = Live(nodes)
    BY <1>10 DEF Rewritten
  <2>2. r \in Live(M) /\ C = Free(M, r)
    BY <2>1, <1>1 DEF Free
  <2> HIDE DEF C
  <2>3. C \in Memory /\ Live(C) = Live(M) \ {r} /\ \A n \in Live(M) : n # r => C[n] = M[n]
    BY <2>1, <2>2, Freed
  <2> QED BY <2>1, <2>3
<1> HIDE DEF C
<1>12. /\ C[l] = x /\ C[q] = z /\ \A n \in Live(C) : n # l /\ n # q => C[n] = nodes[n]
  BY <1>1, <1>10, <1>11 DEF Rewritten
<1>13. /\ C[l].branches = Bl /\ Width(C, l) = Len(Bl) /\ C[q].branches = Bq /\ l \in Live(C) /\ q \in Live(C)
       /\ \A n \in Live(C) : C[n].parent = nodes[n].parent /\ C[n].pos = nodes[n].pos
                             /\ C[n].depth = nodes[n].depth
  BY <1>1, <1>9, <1>11, <1>12 DEF IsWith, Width
<1>14. nodes[l].depth # 0 => br[1] \in Live(C) /\ nodes[br[1]].parent = r /\ nodes[br[1]].pos = 0
  <2>1. nodes[l].depth # 0 => 1 \in 1..Width(nodes, r) /\ 1 - 1 = 0
    BY <1>1
  <2>2. nodes[r].parent # r
    BY <1>1, BesideProps
  <2>3. nodes[l].depth # 0 => br[1] \in Live(nodes) /\ nodes[br[1]].parent = r /\ nodes[br[1]].pos = 0
    BY <2>1, BesideBranches
  <2> QED BY <2>2, <2>3, <1>11
<1>15. \A i \in w..Len(Bl) : i = w /\ nodes[l].depth # 0 /\ Bl[i] = br[1]
  BY <1>2, <1>7
<1> HIDE DEF w
<1>16. Placed(C, O, l, w)
  <2>1. Placeable(C, l, w)
    <3>1. w \in Nat \ {0}
      <4>1. w = Size(nodes, l) + 2 /\ Size(nodes, l) \in Nat
        BY <1>1, <1>2
      <4> QED BY <4>1
    <3>2. \A i \in w..Width(C, l) : C[l].branches[i] \in Live(C)
      BY <1>13, <1>14, <1>15
    <3>3. \A i, j \in w..Width(C, l) : i = j
      BY <1>13, <1>15
    <3> QED BY <3>1, <3>2, <3>3, <1>11, <1>13 DEF Placeable
  <2> HIDE DEF O
  <2> QED BY <2>1, PlaceIs DEF O
<1> HIDE DEF O
<1>17. /\ O \in Memory /\ Live(O) = Live(C)
       /\ \A n \in Live(C) : O[n].recs = C[n].recs /\ O[n].branches = C[n].branches /\ O[n].depth = nodes[n].depth
       /\ \A n \in Live(C) : (nodes[l].depth = 0 \/ br[1] # n) => O[n].parent = nodes[n].parent /\ O[n].pos = nodes[n].pos
       /\ nodes[l].depth # 0 => O[br[1]].parent = l /\ O[br[1]].pos = Len(sl) + 1
  <2>1. /\ O \in Memory /\ Live(O) = Live(C)
        /\ (\A n \in Live(C) : O[n].recs = C[n].recs /\ O[n].branches = C[n].branches /\ O[n].depth = C[n].depth)
        /\ (\A i \in w..Len(Bl) : O[Bl[i]].parent = l /\ O[Bl[i]].pos = i - 1)
        /\ \A n \in Live(C) : (\A i \in w..Len(Bl) : Bl[i] # n)
                              => O[n].parent = C[n].parent /\ O[n].pos = C[n].pos
    BY <1>13, <1>16 DEF Placed
  <2>2. nodes[l].depth # 0 => O[br[1]].parent = l /\ O[br[1]].pos = Len(sl) + 1
    <3>1. nodes[l].depth # 0 => w \in w..Len(Bl) /\ w - 1 = Len(sl) + 1 /\ Bl[w] = br[1]
      BY <1>2, <1>7
    <3> QED BY <3>1, <2>1
  <2>3. ASSUME NEW n \in Live(C), nodes[l].depth = 0 \/ br[1] # n
        PROVE  O[n].parent = nodes[n].parent /\ O[n].pos = nodes[n].pos
    <3>1. \A i \in w..Len(Bl) : Bl[i] # n
      BY <1>15, <2>3
    <3> QED BY <3>1, <2>1, <1>13
  <2> QED BY <2>1, <2>2, <2>3, <1>13
<1>18. /\ \A i \in 1..Width(nodes, q) : bq[i] \in Live(nodes) /\ nodes[bq[i]].parent = q /\ nodes[bq[i]].pos = i - 1
       /\ \A n \in Live(nodes) : nodes[n].parent = q =>
             nodes[n].pos + 1 \in 1..Width(nodes, q) /\ bq[nodes[n].pos + 1] = n /\ nodes[n].pos \in Nat
  <2>1. Linked(nodes, top)
    BY DEF Beside
  <2>2. ASSUME NEW n \in Live(nodes), nodes[n].parent = q
        PROVE  nodes[n].pos + 1 \in 1..Width(nodes, q) /\ bq[nodes[n].pos + 1] = n /\ nodes[n].pos \in Nat
    <3>1. nodes[top].parent = NoNode
      BY <2>1 DEF Linked
    <3>2. n # top
      BY <3>1, <2>2, <1>1
    <3> QED BY <3>2, <2>1, <2>2, LinkUp
  <2> QED BY <2>1, <2>2, <1>1, LinkDown
<1>19. \A i \in v..Len(Bq) : Bq[i] = bq[i + 1] /\ Bq[i] \in Live(C) /\ nodes[Bq[i]].parent = q /\ nodes[Bq[i]].pos = i
  <2> SUFFICES ASSUME NEW i \in v..Len(Bq)
               PROVE  Bq[i] = bq[i + 1] /\ Bq[i] \in Live(C) /\ nodes[Bq[i]].parent = q /\ nodes[Bq[i]].pos = i
    OBVIOUS
  <2> DEFINE j == i + 1
  <2>1. j \in 1..Width(nodes, q) /\ j - 1 = i /\ i \in 1..Len(sq) /\ ~(i < p + 2) /\ i # p + 1
    BY <1>1, <1>2, <1>6
  <2>2. Bq[i] = bq[j]
    BY <2>1, <1>6
  <2> HIDE DEF j
  <2>3. bq[j] \in Live(nodes) /\ nodes[bq[j]].parent = q /\ nodes[bq[j]].pos = i
    BY <2>1, <1>18
  <2>4. nodes[r].pos = p + 1
    BY BesideProps
  <2>5. Bq[i] \in Live(C)
    BY <2>1, <2>2, <2>3, <2>4, <1>11
  <2> QED BY <2>2, <2>3, <2>5 DEF j
<1>20. O[q].branches = Bq /\ Width(O, q) = Len(Bq)
  BY <1>13, <1>17 DEF Width
<1>21. Placeable(O, q, v)
  <2>1. v \in Nat \ {0}
    BY <1>1
  <2> HIDE DEF v
  <2> QED BY <2>1, <1>13, <1>17, <1>19, <1>20 DEF Placeable
<1> HIDE DEF v
<1>22. Placed(O, P, q, v)
  <2> HIDE DEF P
  <2> QED BY <1>21, PlaceIs DEF P
<1> HIDE DEF P
<1>23. /\ P \in Memory /\ Live(P) = Live(C)
       /\ \A n \in Live(C) : P[n].recs = C[n].recs /\ P[n].branches = C[n].branches /\ P[n].depth = nodes[n].depth
       /\ \A i \in v..Len(Bq) : P[Bq[i]].parent = q /\ P[Bq[i]].pos = i - 1
       /\ \A n \in Live(C) : (\A i \in v..Len(Bq) : Bq[i] # n)
                                 => P[n].parent = O[n].parent /\ P[n].pos = O[n].pos
  BY <1>17, <1>20, <1>22 DEF Placed
<1>24. ASSUME NEW n \in Live(C)
       PROVE  /\ P[n].parent = IF nodes[n].parent = r THEN l ELSE nodes[n].parent
              /\ P[n].pos = IF nodes[n].parent = r THEN Len(sl) + 1
                            ELSE IF nodes[n].parent = q /\ nodes[n].pos > p + 1 THEN nodes[n].pos - 1
                            ELSE nodes[n].pos
  <2>0. n \in Live(nodes) /\ n # r
    BY <1>11
  <2>1. CASE nodes[n].parent = r
    <3>1. nodes[n].pos + 1 \in 1..Width(nodes, r) /\ br[nodes[n].pos + 1] = n /\ nodes[n].pos \in Nat
      BY <2>0, <2>1, BesideBranches
    <3>2. nodes[l].depth # 0 /\ nodes[n].pos + 1 = 1
      BY <3>1, <1>1
    <3>3. \A i \in v..Len(Bq) : Bq[i] # n
      BY <2>1, <1>1, <1>19
    <3>4. br[1] = n
      BY <3>1, <3>2
    <3>5. P[n].parent = l /\ P[n].pos = Len(sl) + 1
      BY <3>2, <3>3, <3>4, <1>17, <1>23
    <3> QED BY <3>5, <2>1
  <2>2. CASE nodes[n].parent = q /\ nodes[n].pos > p + 1
    <3> DEFINE i == nodes[n].pos
    <3>1. i + 1 \in 1..Width(nodes, q) /\ bq[i + 1] = n /\ i \in Nat /\ i > p + 1
      BY <2>0, <2>2, <1>18
    <3> HIDE DEF i
    <3>2. i \in v..Len(Bq)
      <4>1. Len(Bq) = Size(nodes, q) /\ Width(nodes, q) = Size(nodes, q) + 1 /\ Size(nodes, q) \in Nat /\ p \in Nat
        BY <1>1, <1>2, <1>6
      <4> QED BY <4>1, <3>1 DEF v
    <3>3. Bq[i] = n
      BY <3>1, <3>2, <1>19
    <3>4. P[n].parent = q /\ P[n].pos = i - 1
      BY <3>2, <3>3, <1>23
    <3> QED BY <3>4, <2>2, <1>1 DEF i
  <2>3. CASE nodes[n].parent # r /\ ~(nodes[n].parent = q /\ nodes[n].pos > p + 1)
    <3>1. \A i \in v..Len(Bq) : Bq[i] # n
      <4>1. \A i \in v..Len(Bq) : i > p + 1
        BY <1>1, <1>6 DEF v
      <4> QED BY <4>1, <2>3, <1>19
    <3>2. nodes[l].depth = 0 \/ br[1] # n
      BY <2>3, <1>14
    <3> QED BY <2>3, <3>1, <3>2, <1>17, <1>23
  <2> QED BY <2>1, <2>2, <2>3
<1>25. /\ P[l].recs = Rl /\ P[l].branches = Bl /\ P[q].recs = Rq /\ P[q].branches = Bq
       /\ Size(P, l) = Len(Rl) /\ Size(P, q) = Len(Rq) /\ Width(P, l) = Len(Bl) /\ Width(P, q) = Len(Bq)
  BY <1>9, <1>12, <1>13, <1>23 DEF IsWith, Size, Width
<1>26. \A n \in Live(P) : n # l /\ n # q => P[n].recs = nodes[n].recs /\ P[n].branches = nodes[n].branches
  BY <1>12, <1>23
<1>27. /\ Size(P, l) = Size(nodes, l) + 1 /\ P[l].recs[Size(nodes, l) + 1] = nodes[q].recs[p + 1]
       /\ \A i \in 1..Size(nodes, l) : P[l].recs[i] = nodes[l].recs[i]
  BY <1>2, <1>4, <1>25
<1>28. /\ Size(P, q) + 1 = Size(nodes, q)
       /\ \A i \in 1..Size(P, q) : P[q].recs[i] = IF i < p + 1 THEN nodes[q].recs[i] ELSE nodes[q].recs[i + 1]
  <2> HIDE DEF sq
  <2>1. Size(P, q) + 1 = Len(sq) /\ \A i \in 1..Size(P, q) : P[q].recs[i] = IF i < p + 1 THEN sq[i] ELSE sq[i + 1]
    BY <1>1, <1>2, <1>5, <1>25
  <2> QED BY <2>1, <1>2 DEF sq
<1>29. /\ Width(P, l) = (IF nodes[l].depth = 0 THEN 0 ELSE Size(nodes, l) + 2)
       /\ nodes[l].depth # 0 => P[l].branches[Size(nodes, l) + 2] = nodes[r].branches[1]
       /\ \A i \in 1..Width(nodes, l) : P[l].branches[i] = nodes[l].branches[i]
  BY <1>2, <1>7, <1>25
<1>30. /\ Width(P, q) = Size(nodes, q)
       /\ \A i \in 1..Width(P, q) :
             P[q].branches[i] = IF i < p + 2 THEN nodes[q].branches[i] ELSE nodes[q].branches[i + 1]
  BY <1>2, <1>6, <1>25
<1>31. \A n \in Live(P) :
          /\ P[n].depth = nodes[n].depth
          /\ P[n].parent = IF nodes[n].parent = r THEN l ELSE nodes[n].parent
          /\ P[n].pos = IF nodes[n].parent = r THEN Size(nodes, l) + 1
                        ELSE IF nodes[n].parent = q /\ nodes[n].pos > p + 1 THEN nodes[n].pos - 1 ELSE nodes[n].pos
  BY <1>2, <1>23, <1>24
<1>32. IsCombine(nodes, P, q, p, l, r)
  BY <1>1, <1>11, <1>23, <1>26, <1>27, <1>28, <1>29, <1>30, <1>31 DEF IsCombine
<1> QED BY <1>3, <1>32

-----------------------------------------------------------------------------
(* The steps of a removal *)

\* Two branches of q have been filled, and q may lack a record now.
LEMMA Refilled ==
    ASSUME MaxElements \in Orders, NEW N \in Memory, NEW W, NEW top, NEW low, NEW q \in Live(N), NEW l, NEW r,
           Filled(N, top, NoNode, low), Live(W) \subseteq Live(N), low \in {l, r}, q # l, q # r,
           l # top, r # top, Size(W, q) \in Nat,
           \A x \in Live(W) : W[x].depth = N[x].depth,
           \A x \in Live(W) : x # l /\ x # r /\ x # q => Size(W, x) = Size(N, x),
           \A x \in Live(W) : x \in {l, r} => Size(W, x) \in MinElements..MaxElements,
           Size(W, q) <= Size(N, q), Size(N, q) <= Size(W, q) + 1
    PROVE  Filled(W, top, NoNode, q)
<1>1. MaxElements \in Nat /\ MinElements \in Nat
  BY Halved
<1>2. \A x \in Live(N) : FilledAt(N, top, NoNode, low, x)
  BY DEF Filled, FilledAt
<1>3. ASSUME NEW x \in Live(W) PROVE FilledAt(W, top, NoNode, q, x)
  <2>0. x \in Live(N) /\ x # NoNode
    BY NodeTypes
  <2>1. CASE x = q
    <3>1. Size(N, q) \in Nat /\ q # low
      BY NodeTypes
    <3>2. Size(N, q) <= MaxElements /\ (q # top => Size(N, q) >= MinElements)
      BY <2>0, <2>1, <3>1, <1>2 DEF FilledAt
    <3>3. Size(W, q) <= MaxElements /\ (q # top => Size(W, q) + 1 >= MinElements)
      BY <3>1, <3>2, <1>1
    <3> QED BY <2>0, <2>1, <3>3 DEF FilledAt
  <2>2. CASE x \in {l, r}
    BY <2>0, <2>2, <1>1 DEF FilledAt
  <2>3. CASE x # q /\ x \notin {l, r}
    <3>1. Size(W, x) = Size(N, x) /\ W[x].depth = N[x].depth /\ FilledAt(N, top, NoNode, low, x) /\ x # low
      BY <2>0, <2>3, <1>2
    <3> QED BY <2>3, <3>1 DEF FilledAt
  <2> QED BY <2>1, <2>2, <2>3
<1> QED BY <1>3 DEF Filled, FilledAt

\* What is known of the call between two of its turns.
LEMMA Lacks ==
    ASSUME Shape, sound, pc = "restore"
    PROVE  /\ MaxElements \in Orders /\ nodes \in Memory /\ held \subseteq Keys
           /\ Linked(nodes, root) /\ Filled(nodes, root, NoNode, at[1]) /\ at[1] \in Live(nodes)
           /\ at[1] = root => nodes[root].depth > 0
<1>1. MaxElements \in Orders /\ Working /\ Linked(View, Top) /\ Filled(View, Top, Over, Lacking)
  BY DEF Shape
<1>2. View = nodes /\ Top = root /\ Over = NoNode /\ Lacking = at[1]
  BY DEF View, Top, Over, Lacking
<1> QED BY <1>1, <1>2 DEF Working

\* A turn leads to Shape if it makes a tree whose node q may lack a record.
LEMMA TurnShapes ==
    ASSUME Shape, sound, Restore, NEW q, q = nodes[at[1]].parent, q \in Live(nodes'), nodes'[q].depth > 0,
           Linked(nodes', root), Filled(nodes', root, NoNode, q)
    PROVE  Shape'
<1>1. MaxElements \in Orders /\ held \subseteq Keys
  BY Lacks DEF Restore
<1>2. pc' = "restore" /\ root' = root /\ held' = held /\ MaxElements' = MaxElements
      /\ at' = <<q, nodes[at[1]].pos>> /\ sound' \in BOOLEAN
  BY DEF Restore
<1>3. at'[1] = q
  BY <1>2
<1>4. View' = nodes' /\ Top' = root /\ Over' = NoNode /\ Lacking' = q
  BY <1>2, <1>3 DEF View, Top, Over, Lacking
<1>5. Working'
  <2>1. nodes' \in Memory /\ root' \in Live(nodes')
    BY <1>2 DEF Linked
  <2> QED BY <2>1, <1>1, <1>2, <1>3 DEF Working
<1>6. Linked(View, Top)'
  BY <1>4
<1>7. Filled(View, Top, Over, Lacking)'
  <2>1. Filled(nodes', root, NoNode, q)
    OBVIOUS
  <2> QED BY <2>1, <1>2, <1>4 DEF Filled, MinElements
<1> QED BY <1>1, <1>2, <1>5, <1>6, <1>7 DEF Shape

LEMMA RestoreShapes ==
    ASSUME Shape, sound, Restore PROVE Shape'
<1> DEFINE n == at[1]
           q == nodes[n].parent
           p == nodes[n].pos
           m == MinElements
           branches == nodes[q].branches
           lends(i) == i \in 0..Count(q) /\ Count(branches[i + 1]) > m
           join == IF p = 0 THEN 0 ELSE p - 1
           R == NodeRestore(q, p)
<1>1. /\ pc = "restore" /\ Count(n) < m /\ q # NoNode /\ nodes' = R.ns /\ sound' = (sound /\ R.right)
      /\ MaxElements' = MaxElements
  BY DEF Restore
<1>2. /\ MaxElements \in Orders /\ nodes \in Memory /\ Linked(nodes, root)
      /\ Filled(nodes, root, NoNode, n) /\ n \in Live(nodes)
  BY <1>1, Lacks
<1>3. MaxElements \in Nat /\ m \in Nat \ {0} /\ MaxElements = 2 * m
  BY <1>2, Halved
<1>4. n # root /\ nodes[root].parent = NoNode
  BY <1>1, <1>2 DEF Linked
<1>5. /\ q \in Live(nodes) /\ p \in Nat /\ p + 1 \in 1..Width(nodes, q) /\ branches[p + 1] = n
      /\ Width(nodes, q) = Size(nodes, q) + 1 /\ nodes[q].depth # 0 /\ q # n
  BY <1>2, <1>4, LinkUp
<1>6. Size(nodes, n) \in Nat /\ Size(nodes, q) \in Nat /\ nodes[q].depth \in Nat /\ n # NoNode
      /\ Count(n) = Size(nodes, n) /\ Count(q) = Size(nodes, q)
  BY <1>2, <1>5, NodeTypes DEF Count, Size
<1>7. \A x \in Live(nodes) : FilledAt(nodes, root, NoNode, n, x) /\ x # NoNode /\ Size(nodes, x) \in Nat
  BY <1>2, NodeTypes DEF Filled, FilledAt
<1>8. Size(nodes, n) + 1 = m
  <2>1. Size(nodes, n) + 1 >= m
    BY <1>2, <1>4, <1>7 DEF FilledAt
  <2> HIDE DEF n, m
  <2> QED BY <2>1, <1>1, <1>3, <1>6
<1>9. Size(nodes, q) >= 1
  <2>1. (q # root => Size(nodes, q) >= m) /\ (q = root => Size(nodes, q) >= 1)
    BY <1>5, <1>6, <1>7 DEF FilledAt
  <2> HIDE DEF q, m
  <2> QED BY <2>1, <1>3, <1>6
<1>10. ASSUME NEW x \in Live(nodes), x # n, x # root
       PROVE  Size(nodes, x) >= m /\ Size(nodes, x) <= MaxElements
  BY <1>7, <1>10 DEF FilledAt
<1>11. ASSUME NEW i \in Nat, i + 1 \in 1..Size(nodes, q)
       PROVE  Beside(nodes, root, q, i, branches[i + 1], branches[i + 2])
  BY <1>2, <1>5, <1>11 DEF Beside
<1> HIDE DEF m
<1>12. CASE p > 0 /\ lends(p - 1)
  <2> DEFINE i == p - 1
             l == branches[i + 1]
  <2>1. R = [ns |-> NodeMoveRight(q, i), right |-> TRUE]
    BY <1>12 DEF NodeRestore, m
  <2>2. R.ns = NodeMoveRight(q, i)
    BY <2>1
  <2>3. i \in Nat /\ i + 1 \in 1..Size(nodes, q) /\ i + 2 = p + 1 /\ Count(l) > m
    BY <1>5, <1>6, <1>12
  <2> HIDE DEF i
  <2>4. Beside(nodes, root, q, i, l, n)
    BY <2>3, <1>5, <1>11
  <2> HIDE DEF l
  <2>5. /\ l \in Live(nodes) /\ l # n /\ l # q /\ l # root /\ Size(nodes, l) \in Nat
        /\ Count(l) = Size(nodes, l) /\ Count(l) > 0
    <3>1. l \in Live(nodes) /\ l # n /\ l # q /\ l # root /\ Size(nodes, l) \in Nat
      BY <2>4, BesideProps
    <3>2. Count(l) = Size(nodes, l)
      BY DEF Count, Size
    <3> QED BY <3>1, <3>2, <2>3, <1>3
  <2>6. IsMoveRight(nodes, nodes', q, i, l, n)
    BY <2>2, <2>4, <2>5, <1>1, MoveRightIs
  <2>7. Linked(nodes', root)
    BY <2>4, <2>6, MoveRightLinked
  <2>8. /\ Live(nodes') = Live(nodes) /\ Size(nodes', l) + 1 = Size(nodes, l)
        /\ Size(nodes', n) = Size(nodes, n) + 1 /\ Size(nodes', q) = Size(nodes, q)
        /\ \A x \in Live(nodes) : nodes'[x].depth = nodes[x].depth
        /\ \A x \in Live(nodes) : x # l /\ x # n /\ x # q => Size(nodes', x) = Size(nodes, x)
    BY <2>6 DEF IsMoveRight, Size
  <2>9. Size(nodes', l) \in m..MaxElements /\ Size(nodes', n) \in m..MaxElements
    <3>1. Size(nodes, l) <= MaxElements
      BY <2>5, <1>10
    <3>2. Size(nodes', l) \in Nat
      <4>1. nodes' \in Memory
        BY <2>6 DEF IsMoveRight
      <4> QED BY <4>1, <2>5, <2>8, NodeTypes
    <3> QED BY <3>1, <3>2, <2>3, <2>5, <2>8, <1>3, <1>8
  <2>10. Filled(nodes', root, NoNode, q)
    <3> HIDE DEF n, q
    <3>1. Size(nodes', q) \in Nat /\ Size(nodes', q) <= Size(nodes, q) /\ Size(nodes, q) <= Size(nodes', q) + 1
      BY <2>8, <1>6
    <3> QED BY SMTT(60), <3>1, <2>5, <2>8, <2>9, <1>2, <1>4, <1>5, Refilled DEF m
  <2> QED BY <2>7, <2>8, <2>10, <1>5, <1>6, TurnShapes
<1>13. CASE ~(p > 0 /\ lends(p - 1)) /\ lends(p + 1)
  <2> DEFINE r == branches[p + 2]
  <2>1. R = [ns |-> NodeMoveLeft(q, p), right |-> TRUE]
    BY <1>13 DEF NodeRestore, m
  <2>2. R.ns = NodeMoveLeft(q, p)
    BY <2>1
  <2>3. p + 1 \in 1..Size(nodes, q) /\ Count(r) > m
    <3>1. p + 1 \in 0..Count(q) /\ Count(branches[(p + 1) + 1]) > m /\ (p + 1) + 1 = p + 2
      BY <1>5, <1>13
    <3> HIDE DEF q, p
    <3> QED BY <3>1, <1>5, <1>6
  <2>4. Beside(nodes, root, q, p, n, r)
    BY <2>3, <1>5, <1>11
  <2> HIDE DEF r
  <2>5. /\ r \in Live(nodes) /\ r # n /\ r # q /\ r # root /\ Size(nodes, r) \in Nat
        /\ Count(r) = Size(nodes, r) /\ Count(r) > 0
    <3>1. r \in Live(nodes) /\ r # n /\ r # q /\ r # root /\ Size(nodes, r) \in Nat
      BY <2>4, BesideProps
    <3>2. Count(r) = Size(nodes, r)
      BY DEF Count, Size
    <3> QED BY <3>1, <3>2, <2>3, <1>3
  <2>6. IsMoveLeft(nodes, nodes', q, p, n, r)
    BY <2>2, <2>4, <2>5, <1>1, MoveLeftIs
  <2>7. Linked(nodes', root)
    BY <2>4, <2>6, MoveLeftLinked
  <2>8. /\ Live(nodes') = Live(nodes) /\ Size(nodes', r) + 1 = Size(nodes, r)
        /\ Size(nodes', n) = Size(nodes, n) + 1 /\ Size(nodes', q) = Size(nodes, q)
        /\ \A x \in Live(nodes) : nodes'[x].depth = nodes[x].depth
        /\ \A x \in Live(nodes) : x # n /\ x # r /\ x # q => Size(nodes', x) = Size(nodes, x)
    BY <2>6 DEF IsMoveLeft, Size
  <2>9. Size(nodes', r) \in m..MaxElements /\ Size(nodes', n) \in m..MaxElements
    <3>1. Size(nodes, r) <= MaxElements
      BY <2>5, <1>10
    <3>2. Size(nodes', r) \in Nat
      <4>1. nodes' \in Memory
        BY <2>6 DEF IsMoveLeft
      <4> QED BY <4>1, <2>5, <2>8, NodeTypes
    <3> QED BY <3>1, <3>2, <2>3, <2>5, <2>8, <1>3, <1>8
  <2>10. Filled(nodes', root, NoNode, q)
    <3> HIDE DEF n, q
    <3>1. Size(nodes', q) \in Nat /\ Size(nodes', q) <= Size(nodes, q) /\ Size(nodes, q) <= Size(nodes', q) + 1
      BY <2>8, <1>6
    <3> QED BY <3>1, <2>5, <2>8, <2>9, <1>2, <1>4, <1>5, Refilled DEF m
  <2> QED BY <2>7, <2>8, <2>10, <1>5, <1>6, TurnShapes
<1>14. CASE ~(p > 0 /\ lends(p - 1)) /\ ~lends(p + 1)
  <2>1. R = [ns |-> NodeCombine(q, join), right |-> Count(branches[join + 2]) = 0]
    BY <1>14 DEF NodeRestore, m
  <2>2. R.ns = NodeCombine(q, join) /\ R.right = (Count(branches[join + 2]) = 0)
    BY <2>1
  <2>3. CASE Count(branches[join + 2]) # 0
    <3>1. sound' = FALSE
      BY <2>2, <2>3, <1>1
    <3> QED BY <3>1, <1>1, <1>2 DEF Shape
  <2>4. CASE Count(branches[join + 2]) = 0
    <3>1. p # 0
      <4> SUFFICES ASSUME p = 0 PROVE FALSE
        OBVIOUS
      <4> DEFINE r == branches[2]
      <4>1. Count(r) = 0 /\ branches[1] = n
        BY <2>4, <1>5
      <4>2. Beside(nodes, root, q, 0, n, r)
        <5> DEFINE i == p
        <5>1. i \in Nat /\ i + 1 \in 1..Size(nodes, q) /\ i = 0 /\ i + 1 = 1 /\ i + 2 = 2
          BY <1>6, <1>9
        <5> HIDE DEF i
        <5>2. Beside(nodes, root, q, i, branches[i + 1], branches[i + 2])
          BY <5>1, <1>11
        <5> QED BY <5>1, <5>2, <4>1
      <4> HIDE DEF r
      <4>3. r \in Live(nodes) /\ r # n /\ r # root
        BY <4>2, BesideProps
      <4>4. Size(nodes, r) >= m /\ Size(nodes, r) = 0
        BY <4>1, <4>3, <1>10 DEF Count, Size
      <4> QED BY <4>4, <1>3
    <3> DEFINE i == p - 1
               l == branches[i + 1]
    <3>2. i \in Nat /\ i + 1 \in 1..Size(nodes, q) /\ i + 1 = p /\ i + 2 = p + 1 /\ join = i /\ i \in 0..Count(q)
      BY <3>1, <1>5, <1>6
    <3>3. Count(l) <= m
      <4>1. l \in Live(nodes)
        <5>1. i + 1 \in 1..Width(nodes, q)
          <6> HIDE DEF q, i
          <6> QED BY <3>2, <1>5, <1>6
        <5> QED BY <5>1, <1>2, <1>5, LinkDown
      <4>2. Count(l) \in Nat
        BY <4>1, <1>7 DEF Count, Size
      <4>3. ~(Count(l) > m)
        BY <3>1, <3>2, <1>5, <1>14
      <4> QED BY <4>2, <4>3, <1>3
    <3> HIDE DEF i, join
    <3>4. Beside(nodes, root, q, i, l, n)
      BY <3>2, <1>5, <1>11
    <3> HIDE DEF l
    <3>5. /\ l \in Live(nodes) /\ l # n /\ l # q /\ l # root /\ Size(nodes, l) \in Nat
          /\ Count(l) = Size(nodes, l) /\ n # root /\ n # q
      <4>1. l \in Live(nodes) /\ l # n /\ l # q /\ l # root /\ Size(nodes, l) \in Nat
        BY <3>4, BesideProps
      <4>2. Count(l) = Size(nodes, l)
        BY DEF Count, Size
      <4> QED BY <4>1, <4>2, <1>4, <1>5
    <3>6. Count(n) = 0 /\ nodes' = NodeCombine(q, i)
      BY <3>2, <2>2, <2>4, <1>1, <1>5
    <3>7. IsCombine(nodes, nodes', q, i, l, n)
      BY <3>4, <3>6, CombineIs
    <3>8. Linked(nodes', root)
      BY <3>4, <3>7, CombineLinked
    <3>9. /\ Live(nodes') = Live(nodes) \ {n} /\ Size(nodes', l) = Size(nodes, l) + 1
          /\ Size(nodes', q) + 1 = Size(nodes, q) /\ nodes' \in Memory
          /\ \A x \in Live(nodes') : nodes'[x].depth = nodes[x].depth
          /\ \A x \in Live(nodes') : x # l /\ x # q => Size(nodes', x) = Size(nodes, x)
      BY <3>7 DEF IsCombine, Size
    <3>10. q \in Live(nodes') /\ l \in Live(nodes') /\ n \notin Live(nodes')
      BY <3>5, <3>9, <1>5
    <3>11. Size(nodes', l) \in m..MaxElements /\ Size(nodes', q) \in Nat
      <4>1. Size(nodes', l) \in Nat /\ Size(nodes', q) \in Nat
        BY <3>9, <3>10, NodeTypes
      <4>2. m = 1 /\ Size(nodes, l) >= 1 /\ Size(nodes, l) <= 1
        <5>1. m = 1
          BY <3>6, <1>3, <1>6, <1>8
        <5>2. Size(nodes, l) >= m
          BY <3>5, <1>10
        <5> QED BY <5>1, <5>2, <3>3, <3>5
      <4> QED BY <4>1, <4>2, <3>5, <3>9, <1>3
    <3>12. Filled(nodes', root, NoNode, q)
      <4> HIDE DEF n, q
      <4>1. Size(nodes', q) <= Size(nodes, q) /\ Size(nodes, q) <= Size(nodes', q) + 1
        BY <3>9, <3>11, <1>6
      <4>2. Live(nodes') \subseteq Live(nodes)
        BY <3>9
      <4>3. \A x \in Live(nodes') : x \in {l, n} => Size(nodes', x) \in m..MaxElements
        BY <3>10, <3>11
      <4> QED BY SMTT(60), <4>1, <4>2, <4>3, <3>5, <3>9, <3>10, <3>11, <1>2, <1>4, <1>5, Refilled DEF m
    <3> QED BY <3>8, <3>9, <3>10, <3>12, <1>5, <1>6, TurnShapes
  <2> QED BY <2>3, <2>4
<1> QED BY <1>12, <1>13, <1>14

\* A root without records gives way to its branch.
LEMMA Uncrowned ==
    ASSUME NEW n, Linked(nodes, n), nodes[n].depth # 0, Count(n) = 0, NEW a, a = nodes[n].branches[1],
           NEW V, V = [nodes EXCEPT ![n] = Unused, ![a].parent = NoNode]
    PROVE  IsCrowned(V, nodes, a, n) /\ V[a].parent = NoNode /\ V \in Memory
<1>1. nodes \in Memory /\ n \in Live(nodes) /\ nodes[n].parent = NoNode
  BY DEF Linked
<1>2. /\ n \in Node /\ nodes[n] \in NodeRec /\ nodes[n].recs \in Seq(Keys) /\ nodes[n].branches \in Seq(Node)
      /\ nodes[n].depth \in Nat /\ Size(nodes, n) = 0
  BY <1>1, NodeTypes DEF Count, Size
<1>3. Width(nodes, n) = 1 /\ 1 \in 1..Width(nodes, n) /\ 1 - 1 = 0
  BY <1>1, <1>2, LinkDown
<1>4. a \in Live(nodes) /\ a # n /\ nodes[a].parent = n /\ nodes[a].pos = 0 /\ nodes[a].depth + 1 = nodes[n].depth
  BY <1>1, <1>3, LinkDown
<1>5. a \in Node /\ nodes[a] \in NodeRec
  BY <1>1, <1>4, NodeTypes
<1>6. nodes[n].recs = <<>> /\ nodes[n].branches = <<a>>
  <2>1. nodes[n].recs = <<>>
    BY <1>2, EmptyLen DEF Size
  <2>2. Len(nodes[n].branches) = 1
    BY <1>3 DEF Width
  <2> QED BY <2>1, <2>2, <1>2
<1> DEFINE w == [nodes[a] EXCEPT !.parent = NoNode]
           A == Free(nodes, n)
           B == [A EXCEPT ![a] = w]
<1>7. /\ w \in NodeRec /\ w.recs = nodes[a].recs /\ w.branches = nodes[a].branches /\ w.parent = NoNode
      /\ w.pos = nodes[a].pos /\ w.depth = nodes[a].depth
  BY <1>5 DEF NodeRec
<1>8. V = B
  BY <1>1, <1>2, <1>4, <1>5 DEF Free, Memory
<1> HIDE DEF w
<1>9. A \in Memory /\ Live(A) = Live(nodes) \ {n} /\ \A x \in Live(nodes) : x # n => A[x] = nodes[x]
  BY <1>1, Freed
<1> HIDE DEF A
<1>10. IsWrite(A, a, w, B)
  BY <1>5, <1>7, <1>9, Written
<1> HIDE DEF B
<1>11. /\ V \in Memory /\ Live(V) = Live(nodes) \ {n} /\ V[a] = w
       /\ \A x \in Live(V) : x # a => V[x] = nodes[x]
  <2>1. B \in Memory /\ Live(B) = Live(A) \cup {a} /\ B[a] = w /\ \A x \in Node : x # a => B[x] = A[x]
    BY <1>10 DEF IsWrite
  <2>2. Live(B) = Live(nodes) \ {n}
    BY <2>1, <1>4, <1>9
  <2>3. \A x \in Live(nodes) : x \in Node
    BY DEF Live
  <2>4. \A x \in Live(B) : x # a => B[x] = nodes[x]
    BY <2>1, <2>2, <2>3, <1>9
  <2> QED BY <1>8, <2>1, <2>2, <2>4
<1>12. n \notin Live(V) /\ a \in Live(V) /\ Live(nodes) = Live(V) \cup {n}
  BY <1>1, <1>4, <1>11
<1>13. V[a].depth = nodes[a].depth /\ nodes[n].depth = V[a].depth + 1
  BY <1>2, <1>4, <1>7, <1>11
<1>14. \A x \in Live(V) : /\ nodes[x].recs = V[x].recs /\ nodes[x].branches = V[x].branches
                          /\ nodes[x].depth = V[x].depth
                          /\ (x # a => nodes[x].parent = V[x].parent /\ nodes[x].pos = V[x].pos)
  BY <1>7, <1>11
<1> QED BY <1>1, <1>2, <1>4, <1>6, <1>7, <1>11, <1>12, <1>13, <1>14 DEF IsCrowned

\* A call ends with a tree that lacks nothing.
LEMMA EndShapes ==
    ASSUME MaxElements \in Orders, MaxElements' = MaxElements, sound' \in BOOLEAN, pc' = "idle", held' \subseteq Keys,
           Linked(nodes', root'), Filled(nodes', root', NoNode, NoNode)
    PROVE  Shape'
<1>1. View' = nodes' /\ Top' = root' /\ Over' = NoNode /\ Lacking' = NoNode
  BY DEF View, Top, Over, Lacking
<1>2. nodes' \in Memory /\ root' \in Live(nodes')
  BY DEF Linked
<1>3. Working'
  BY <1>2 DEF Working
<1>4. Filled(View, Top, Over, Lacking)'
  BY <1>1 DEF Filled, MinElements
<1> QED BY <1>1, <1>3, <1>4 DEF Shape

LEMMA RestoredShapes ==
    ASSUME Shape, sound, Restored PROVE Shape'
<1> DEFINE n == at[1]
           a == nodes[n].branches[1]
<1>1. /\ pc = "restore" /\ (Count(n) >= MinElements \/ nodes[n].parent = NoNode)
      /\ IF Count(n) = 0
         THEN nodes' = [nodes EXCEPT ![n] = Unused, ![a].parent = NoNode] /\ root' = a
         ELSE nodes' = nodes /\ root' = root
      /\ pc' = "idle" /\ MaxElements' = MaxElements /\ held' = held /\ sound' = sound
  BY DEF Restored
<1>2. /\ MaxElements \in Orders /\ nodes \in Memory /\ Linked(nodes, root) /\ held \subseteq Keys
      /\ Filled(nodes, root, NoNode, n) /\ n \in Live(nodes) /\ (n = root => nodes[root].depth > 0)
  BY <1>1, Lacks
<1>3. sound' \in BOOLEAN /\ held' \subseteq Keys
  BY <1>1, <1>2
<1>4. MinElements \in Nat \ {0}
  BY <1>2, Halved
<1>5. Count(n) \in Nat /\ Count(n) = Size(nodes, n) /\ nodes[n].depth \in Nat
  BY <1>2, NodeTypes DEF Count, Size
<1>6. n # root => Count(n) >= MinElements
  <2>1. n # root => nodes[n].parent \in Live(nodes)
    BY <1>2, LinkUp
  <2> QED BY <2>1, <1>1, <1>2, NodeTypes
<1> HIDE DEF n, a
<1>7. CASE Count(n) = 0
  <2>1. n = root
    BY <1>4, <1>5, <1>6, <1>7
  <2>2. nodes[n].depth # 0
    BY <2>1, <1>2, <1>5
  <2>3. IsCrowned(nodes', nodes, a, n) /\ nodes'[a].parent = NoNode /\ nodes' \in Memory
    BY <2>1, <2>2, <1>1, <1>2, <1>7, Uncrowned DEF a
  <2>4. Linked(nodes', a) /\ Filled(nodes', a, NoNode, NoNode)
    BY <2>1, <2>3, <1>2, UnplantedLinked, UnplantedFilled
  <2> QED BY <2>4, <1>1, <1>2, <1>3, <1>7, EndShapes
<1>8. CASE Count(n) # 0
  <2>1. ASSUME NEW x \in Live(nodes) PROVE FilledAt(nodes, root, NoNode, NoNode, x)
    <3>1. FilledAt(nodes, root, NoNode, n, x) /\ x # NoNode /\ Size(nodes, x) \in Nat
      BY <1>2, NodeTypes DEF Filled, FilledAt
    <3>2. x = n => Size(nodes, x) >= 1 /\ (x # root => Size(nodes, x) >= MinElements)
      BY <1>5, <1>6, <1>8
    <3> QED BY <3>1, <3>2 DEF FilledAt
  <2>2. Filled(nodes, root, NoNode, NoNode)
    BY <2>1 DEF Filled, FilledAt
  <2> QED BY <2>2, <1>1, <1>2, <1>3, <1>8, EndShapes
<1> QED BY <1>7, <1>8

-----------------------------------------------------------------------------
(* Recursion: a function that goes from place to place until it ends *)

\* f goes by g until it is in B, where its value is that of v.
Goes(U, B, v, g, f) == f = [x \in U |-> IF x \in B THEN v[x] ELSE f[g[x]]]

\* Each step leads to a smaller r.
Shrinks(U, B, g, r) ==
    /\ r \in [U -> Nat]
    /\ \A x \in U : x \notin B => g[x] \in U /\ r[g[x]] < r[x]

Below(U, r, m) == {x \in U : r[x] < m}

\* What it does with less than m steps is determined.
LEMMA GoesOneWay ==
    ASSUME NEW U, NEW B, NEW v, NEW g, NEW r, Shrinks(U, B, g, r),
           NEW i \in Nat, NEW j \in Nat, NEW f, NEW h,
           Goes(Below(U, r, i), B, v, g, f), Goes(Below(U, r, j), B, v, g, h)
    PROVE  \A x \in Below(U, r, i) \cap Below(U, r, j) : f[x] = h[x]
<1> DEFINE Bad == {x \in Below(U, r, i) \cap Below(U, r, j) : f[x] # h[x]}
           S == {r[x] : x \in Bad}
<1>1. SUFFICES ASSUME Bad # {} PROVE FALSE
  OBVIOUS
<1>2. /\ r \in [U -> Nat] /\ \A x \in U : x \notin B => g[x] \in U /\ r[g[x]] < r[x]
  BY DEF Shrinks
<1>3. Bad \subseteq U
  BY DEF Below
<1>4. S \in SUBSET Nat /\ S # {}
  BY <1>1, <1>2, <1>3
<1>5. PICK x \in Bad : \A y \in Bad : r[x] <= r[y]
  <2> HIDE DEF Bad
  <2>1. PICK s \in S : \A t \in S : s <= t
    <3> HIDE DEF S
    <3> QED BY <1>4, LeastNatural
  <2> QED BY <2>1
<1>6. /\ x \in U /\ r[x] < i /\ r[x] < j /\ r[x] \in Nat /\ f[x] # h[x]
  BY <1>2, <1>3 DEF Below
<1>7. /\ f[x] = (IF x \in B THEN v[x] ELSE f[g[x]])
      /\ h[x] = (IF x \in B THEN v[x] ELSE h[g[x]])
  BY <1>6 DEF Goes, Below
<1>8. x \notin B /\ f[g[x]] # h[g[x]]
  BY <1>6, <1>7
<1>9. g[x] \in U /\ r[g[x]] < r[x] /\ r[g[x]] \in Nat
  BY <1>2, <1>6, <1>8
<1>10. g[x] \in Bad
  BY <1>6, <1>8, <1>9 DEF Below
<1> HIDE DEF Bad
<1> QED BY <1>5, <1>6, <1>9, <1>10

LEMMA GoesSome ==
    ASSUME NEW U, NEW B, NEW v, NEW g, NEW r, Shrinks(U, B, g, r)
    PROVE  \A m \in Nat : \E f : Goes(Below(U, r, m), B, v, g, f)
<1> DEFINE Bad == {m \in Nat : ~\E f : Goes(Below(U, r, m), B, v, g, f)}
<1>1. SUFFICES ASSUME Bad # {} PROVE FALSE
  OBVIOUS
<1>2. /\ r \in [U -> Nat] /\ \A x \in U : x \notin B => g[x] \in U /\ r[g[x]] < r[x]
  BY DEF Shrinks
<1>3. PICK m \in Bad : \A j \in Bad : m <= j
  <2>1. Bad \in SUBSET Nat
    OBVIOUS
  <2> HIDE DEF Bad
  <2> QED BY <1>1, <2>1, LeastNatural
<1>4. m \in Nat /\ ~\E f : Goes(Below(U, r, m), B, v, g, f)
  OBVIOUS
<1>5. m # 0
  <2> SUFFICES ASSUME m = 0 PROVE FALSE
    OBVIOUS
  <2>1. Below(U, r, m) = {}
    BY <1>2 DEF Below
  <2> DEFINE f == [x \in {} |-> v[x]]
  <2>2. f = [x \in {} |-> IF x \in B THEN v[x] ELSE f[g[x]]]
    OBVIOUS
  <2>3. Goes(Below(U, r, m), B, v, g, f)
    BY <2>1, <2>2 DEF Goes
  <2> QED BY <2>3, <1>4
<1> DEFINE i == m - 1
<1>6. i \in Nat /\ i < m /\ i + 1 = m
  BY <1>4, <1>5
<1>7. PICK f : Goes(Below(U, r, i), B, v, g, f)
  BY <1>3, <1>6
<1> HIDE DEF i
<1> DEFINE h == [x \in Below(U, r, m) |-> IF x \in B THEN v[x] ELSE f[g[x]]]
<1>8. ASSUME NEW x \in Below(U, r, m), x \notin B PROVE h[g[x]] = f[g[x]]
  <2>1. x \in U /\ r[x] < m /\ r[x] \in Nat
    BY <1>2 DEF Below
  <2>2. g[x] \in U /\ r[g[x]] < i /\ r[g[x]] < m
    <3>1. g[x] \in U /\ r[g[x]] < r[x] /\ r[g[x]] \in Nat
      BY <2>1, <1>2, <1>8
    <3> QED BY <3>1, <2>1, <1>4, <1>6
  <2>3. g[x] \in Below(U, r, i) /\ g[x] \in Below(U, r, m)
    BY <2>2 DEF Below
  <2>4. f[g[x]] = IF g[x] \in B THEN v[g[x]] ELSE f[g[g[x]]]
    BY <2>3, <1>7 DEF Goes
  <2> QED BY <2>3, <2>4
<1>9. h = [x \in Below(U, r, m) |-> IF x \in B THEN v[x] ELSE h[g[x]]]
  BY <1>8
<1> HIDE DEF h
<1>10. Goes(Below(U, r, m), B, v, g, h)
  BY <1>9 DEF Goes
<1> QED BY <1>4, <1>10

LEMMA GoesOn ==
    ASSUME NEW U, NEW B, NEW v, NEW g, NEW r, Shrinks(U, B, g, r)
    PROVE  \E f : Goes(U, B, v, g, f)
<1> DEFINE F == [m \in Nat |-> CHOOSE f : Goes(Below(U, r, m), B, v, g, f)]
           f == [x \in U |-> F[r[x] + 1][x]]
<1>1. /\ r \in [U -> Nat] /\ \A x \in U : x \notin B => g[x] \in U /\ r[g[x]] < r[x]
  BY DEF Shrinks
<1>2. ASSUME NEW m \in Nat PROVE Goes(Below(U, r, m), B, v, g, F[m])
  <2>1. \E h : Goes(Below(U, r, m), B, v, g, h)
    BY GoesSome
  <2>2. F[m] = CHOOSE h : Goes(Below(U, r, m), B, v, g, h)
    OBVIOUS
  <2> QED BY <2>1, <2>2
<1> HIDE DEF F
<1>3. ASSUME NEW x \in U PROVE f[x] = IF x \in B THEN v[x] ELSE f[g[x]]
  <2> DEFINE i == r[x] + 1
  <2>1. i \in Nat /\ r[x] \in Nat /\ x \in Below(U, r, i) /\ f[x] = F[i][x]
    BY <1>1 DEF Below
  <2> HIDE DEF i
  <2>2. F[i][x] = IF x \in B THEN v[x] ELSE F[i][g[x]]
    BY ZenonT(60), <2>1, <1>2 DEF Goes
  <2>3. ASSUME x \notin B PROVE F[i][g[x]] = f[g[x]]
    <3> DEFINE y == g[x]
               j == r[y] + 1
    <3>1. y \in U /\ r[y] \in Nat /\ r[y] < r[x]
      BY <1>1, <2>3
    <3>2. j \in Nat /\ y \in Below(U, r, j) /\ y \in Below(U, r, i) /\ f[y] = F[j][y]
      BY <3>1, <2>1 DEF Below, i
    <3> HIDE DEF y, j, f
    <3>3. \A z \in Below(U, r, i) \cap Below(U, r, j) : F[i][z] = F[j][z]
      BY <2>1, <3>2, <1>2, GoesOneWay
    <3> QED BY <3>2, <3>3 DEF y
  <2> HIDE DEF f
  <2> QED BY <2>1, <2>2, <2>3
<1>4. f = [x \in U |-> IF x \in B THEN v[x] ELSE f[g[x]]]
  BY <1>3
<1> HIDE DEF f
<1>5. Goes(U, B, v, g, f)
  BY <1>4 DEF Goes
<1> QED BY <1>5

\* The binary search, as such a function.
SearchIs(recs, k, f) ==
    f = [range \in Nat \X Nat |->
          LET start == range[1]
              middle == range[2] \div 2
          IN  IF range[2] = 0 THEN start
              ELSE IF k > recs[start + middle + 1]
              THEN f[<<start + middle + 1, range[2] - middle - 1>>]
              ELSE f[<<start, middle>>]]

LEMMA SearchGoes ==
    ASSUME NEW recs, NEW k
    PROVE  \E f : SearchIs(recs, k, f) /\ Search(recs, k) = f[<<0, Len(recs)>>]
<1> DEFINE U == Nat \X Nat
           B == {x \in U : x[2] = 0}
           v == [x \in U |-> x[1]]
           half(x) == x[2] \div 2
           g == [x \in U |-> IF k > recs[x[1] + half(x) + 1]
                             THEN <<x[1] + half(x) + 1, x[2] - half(x) - 1>> ELSE <<x[1], half(x)>>]
           r == [x \in U |-> x[2]]
<1>1. Shrinks(U, B, g, r)
  <2>1. ASSUME NEW x \in U, x \notin B PROVE g[x] \in U /\ r[g[x]] < r[x]
    <3>1. x[1] \in Nat /\ x[2] \in Nat /\ x[2] # 0
      BY <2>1
    <3>2. half(x) \in Nat /\ half(x) < x[2]
      BY <3>1
    <3> QED BY <3>1, <3>2
  <2>2. r \in [U -> Nat]
    OBVIOUS
  <2> QED BY <2>1, <2>2 DEF Shrinks
<1>2. PICK f : Goes(U, B, v, g, f)
  <2> HIDE DEF U, B, v, g, r
  <2> QED BY <1>1, GoesOn
<1>3. SearchIs(recs, k, f)
  BY <1>2 DEF SearchIs, Goes
<1>4. Search(recs, k) = (CHOOSE h : SearchIs(recs, k, h))[<<0, Len(recs)>>]
  BY DEF Search, SearchIs
<1>5. SearchIs(recs, k, CHOOSE h : SearchIs(recs, k, h))
  BY <1>3
<1> QED BY <1>4, <1>5

\* The position it finds is one of the node's, its end included.
LEMMA SearchEnds ==
    ASSUME NEW recs, NEW k, Len(recs) \in Nat
    PROVE  Search(recs, k) \in 0..Len(recs)
<1>1. PICK f : SearchIs(recs, k, f) /\ Search(recs, k) = f[<<0, Len(recs)>>]
  BY SearchGoes
<1> DEFINE Bad == {x \in Nat \X Nat : f[x] \notin x[1]..(x[1] + x[2])}
           S == {x[2] : x \in Bad}
<1>2. ASSUME Bad # {} PROVE FALSE
  <2>1. S \in SUBSET Nat /\ S # {}
    BY <1>2
  <2>2. PICK x \in Bad : \A y \in Bad : x[2] <= y[2]
    <3> HIDE DEF Bad
    <3>1. PICK s \in S : \A t \in S : s <= t
      <4> HIDE DEF S
      <4> QED BY <2>1, LeastNatural
    <3> QED BY <3>1
  <2> DEFINE s == x[1]
             c == x[2]
             m == c \div 2
  <2>3. s \in Nat /\ c \in Nat /\ x \in Nat \X Nat /\ f[x] \notin s..(s + c)
    OBVIOUS
  <2>4. f[x] = IF c = 0 THEN s ELSE IF k > recs[s + m + 1] THEN f[<<s + m + 1, c - m - 1>>] ELSE f[<<s, m>>]
    BY <1>1, <2>3 DEF SearchIs
  <2>5. c # 0
    <3>1. c = 0 => f[x] = s
      BY <2>4
    <3> HIDE DEF s, c
    <3> QED BY <2>3, <3>1
  <2>6. m \in Nat /\ m < c
    <3> HIDE DEF c
    <3> QED BY <2>3, <2>5
  <2> HIDE DEF m, s, c
  <2> DEFINE y == <<s + m + 1, c - m - 1>>
             z == <<s, m>>
  <2>7. /\ y \in Nat \X Nat /\ y[1] = s + m + 1 /\ y[2] = c - m - 1 /\ y[2] < c
        /\ z \in Nat \X Nat /\ z[1] = s /\ z[2] = m
    BY <2>3, <2>6
  <2> HIDE DEF y, z
  <2>8. y \notin Bad /\ z \notin Bad
    <3>1. x[2] = c
      BY DEF c
    <3> HIDE DEF Bad
    <3> QED BY <2>2, <2>3, <2>6, <2>7, <3>1
  <2>9. f[y] \in y[1]..(y[1] + y[2]) /\ f[z] \in z[1]..(z[1] + z[2])
    BY <2>7, <2>8
  <2>10. f[y] \in s..(s + c) /\ f[z] \in s..(s + c)
    <3> HIDE DEF Bad
    <3> QED BY <2>3, <2>6, <2>7, <2>9
  <2>11. f[x] = f[y] \/ f[x] = f[z]
    BY <2>4, <2>5 DEF y, z
  <2> QED BY <2>3, <2>10, <2>11
<1> DEFINE w == <<0, Len(recs)>>
<1>3. w \in Nat \X Nat /\ w[1] = 0 /\ w[2] = Len(recs)
  OBVIOUS
<1>4. f[w] \in w[1]..(w[1] + w[2])
  <2> HIDE DEF w
  <2> QED BY <1>2, <1>3
<1> QED BY <1>1, <1>3, <1>4

-----------------------------------------------------------------------------
(* Where a search ends *)

Way(n, k) == Search(nodes[n].recs, k)

FindIs(k, f) ==
    f = [n \in Used |-> LET p == Search(nodes[n].recs, k)
                        IN  IF nodes[n].depth = 0 THEN <<n, p>> ELSE f[nodes[n].branches[p + 1]]]
FoundIs(k, f) ==
    f = [n \in Used |-> LET p == Search(nodes[n].recs, k)
                            here == p < Count(n) /\ nodes[n].recs[p + 1] = k
                        IN  IF here \/ nodes[n].depth = 0 THEN here ELSE f[nodes[n].branches[p + 1]]]
DerefIs(f) ==
    f = [i \in Used \X Nat |-> LET n == nodes[i[1]]
                               IN  IF i[2] < Count(i[1]) THEN i
                                   ELSE IF n.parent = NoNode THEN <<NoNode, 0>>
                                   ELSE f[<<n.parent, n.pos>>]]

\* The branch that the search goes down to.
LEMMA GoesDown ==
    ASSUME Linked(nodes, root), NEW k, NEW n \in Live(nodes)
    PROVE  /\ Way(n, k) \in 0..Count(n) /\ Way(n, k) \in Nat /\ Count(n) \in Nat /\ nodes[n].depth \in Nat
           /\ nodes[n].depth # 0 =>
                 LET b == nodes[n].branches[Way(n, k) + 1]
                 IN  /\ b \in Live(nodes) /\ nodes[b].depth \in Nat /\ nodes[b].depth < nodes[n].depth
                     /\ nodes[b].parent = n /\ nodes[b].pos = Way(n, k)
<1>1. nodes \in Memory
  BY DEF Linked
<1>2. Size(nodes, n) \in Nat /\ Size(nodes, n) = Count(n) /\ nodes[n].depth \in Nat
  BY <1>1, NodeTypes DEF Size, Count
<1>3. Way(n, k) \in 0..Count(n)
  <2>1. Len(nodes[n].recs) \in Nat
    BY <1>2 DEF Count
  <2> QED BY <2>1, SearchEnds DEF Way, Count
<1> DEFINE i == Way(n, k) + 1
           b == nodes[n].branches[i]
<1>4. i - 1 = Way(n, k) /\ (nodes[n].depth # 0 => i \in 1..Width(nodes, n))
  <2>1. nodes[n].depth # 0 => Width(nodes, n) = Count(n) + 1
    BY <1>2, LinkDown
  <2> QED BY <1>2, <1>3, <2>1
<1> HIDE DEF i
<1>5. nodes[n].depth # 0 =>
         b \in Live(nodes) /\ nodes[b].parent = n /\ nodes[b].pos = i - 1 /\ nodes[b].depth + 1 = nodes[n].depth
  BY <1>4, LinkDown
<1>6. b \in Live(nodes) => nodes[b].depth \in Nat
  BY <1>1, NodeTypes
<1>7. nodes[n].depth # 0 => nodes[b].depth < nodes[n].depth
  BY <1>2, <1>5, <1>6
<1> QED BY <1>2, <1>3, <1>4, <1>5, <1>6, <1>7 DEF i

LEMMA UsedLive == Used = Live(nodes)
BY DEF Used, Live

LEMMA FindGoes ==
    ASSUME Linked(nodes, root), NEW k
    PROVE  \E f : FindIs(k, f) /\ Find(k) = f[root]
<1> DEFINE U == Used
           B == {n \in U : nodes[n].depth = 0}
           v == [n \in U |-> <<n, Way(n, k)>>]
           g == [n \in U |-> nodes[n].branches[Way(n, k) + 1]]
           r == [n \in U |-> nodes[n].depth]
<1>1. Shrinks(U, B, g, r)
  <2>1. ASSUME NEW n \in U, n \notin B PROVE g[n] \in U /\ r[g[n]] < r[n]
    BY <2>1, GoesDown, UsedLive
  <2>2. r \in [U -> Nat]
    BY GoesDown, UsedLive
  <2> QED BY <2>1, <2>2 DEF Shrinks
<1>2. PICK f : Goes(U, B, v, g, f)
  <2> HIDE DEF U, B, v, g, r
  <2> QED BY <1>1, GoesOn
<1>3. FindIs(k, f)
  BY <1>2 DEF FindIs, Goes, Way
<1>4. Find(k) = (CHOOSE h : FindIs(k, h))[root]
  BY DEF Find, FindIs
<1>5. FindIs(k, CHOOSE h : FindIs(k, h))
  BY <1>3
<1> QED BY <1>4, <1>5

LEMMA FoundGoes ==
    ASSUME Linked(nodes, root), NEW k
    PROVE  \E f : FoundIs(k, f) /\ Found(k) = f[root]
<1> DEFINE U == Used
           here(n) == Way(n, k) < Count(n) /\ nodes[n].recs[Way(n, k) + 1] = k
           B == {n \in U : here(n) \/ nodes[n].depth = 0}
           v == [n \in U |-> here(n)]
           g == [n \in U |-> nodes[n].branches[Way(n, k) + 1]]
           r == [n \in U |-> nodes[n].depth]
<1>1. Shrinks(U, B, g, r)
  <2>1. ASSUME NEW n \in U, n \notin B PROVE g[n] \in U /\ r[g[n]] < r[n]
    BY <2>1, GoesDown, UsedLive
  <2>2. r \in [U -> Nat]
    BY GoesDown, UsedLive
  <2> QED BY <2>1, <2>2 DEF Shrinks
<1>2. PICK f : Goes(U, B, v, g, f)
  <2> HIDE DEF U, B, v, g, r
  <2> QED BY <1>1, GoesOn
<1>3. FoundIs(k, f)
  BY <1>2 DEF FoundIs, Goes, Way
<1>4. Found(k) = (CHOOSE h : FoundIs(k, h))[root]
  BY DEF Found, FoundIs
<1>5. FoundIs(k, CHOOSE h : FoundIs(k, h))
  BY <1>3
<1> QED BY <1>4, <1>5

\* No node is deeper than some number.
LEMMA DepthBound ==
    ASSUME NEW ns \in Memory
    PROVE  \E b \in Nat : \A n \in Live(ns) : ns[n].depth <= b
<1> DEFINE Ok(m) == \E b \in Nat : \A n \in Live(ns) : n <= m => ns[n].depth <= b
           Bad == {m \in Nat : ~Ok(m)}
<1>0. \A n \in Live(ns) : n \in Nat /\ n # 0 /\ n <= MaxNodes /\ ns[n].depth \in Nat
  <2>1. \A n \in Live(ns) : n \in Node /\ ns[n].depth \in Nat
    BY NodeTypes
  <2> QED BY <2>1, MaxNodesAssumption DEF Node
<1>1. ASSUME Bad # {} PROVE FALSE
  <2>1. Bad \in SUBSET Nat
    OBVIOUS
  <2>2. PICK m \in Bad : \A j \in Bad : m <= j
    <3> HIDE DEF Bad
    <3> QED BY <1>1, <2>1, LeastNatural
  <2>3. m \in Nat /\ ~Ok(m)
    OBVIOUS
  <2>4. m # 0
    <3>1. Ok(0)
      BY <1>0
    <3> HIDE DEF Ok
    <3> QED BY <2>3, <3>1
  <2> DEFINE i == m - 1
  <2>5. i \in Nat /\ i < m /\ \A n \in Nat : n <= m => n <= i \/ n = m
    BY <2>3, <2>4
  <2>6. Ok(i)
    <3> HIDE DEF Ok
    <3> QED BY <2>2, <2>5
  <2> HIDE DEF i
  <2>7. PICK b \in Nat : \A n \in Live(ns) : n <= i => ns[n].depth <= b
    BY <2>6
  <2>8. CASE m \in Live(ns)
    <3> DEFINE c == b + ns[m].depth
    <3>1. c \in Nat /\ ns[m].depth \in Nat /\ b <= c /\ ns[m].depth <= c
      BY <1>0, <2>8
    <3> HIDE DEF c
    <3>2. ASSUME NEW n \in Live(ns), n <= m PROVE ns[n].depth <= c
      <4>1. n <= i \/ n = m
        BY <1>0, <2>5, <3>2
      <4> QED BY <1>0, <2>7, <3>1, <4>1
    <3> QED BY <2>3, <3>1, <3>2
  <2>9. CASE m \notin Live(ns)
    <3>1. \A n \in Live(ns) : n <= m => ns[n].depth <= b
      BY <1>0, <2>5, <2>7, <2>9
    <3> QED BY <2>3, <3>1
  <2> QED BY <2>8, <2>9
<1>2. Ok(MaxNodes)
  <2> HIDE DEF Ok
  <2> QED BY <1>1, MaxNodesAssumption
<1> QED BY <1>0, <1>2

LEMMA DerefGoes ==
    ASSUME Linked(nodes, root), NEW it
    PROVE  \E f : DerefIs(f) /\ Deref(it) = f[it]
<1>0. nodes \in Memory
  BY DEF Linked
<1>1. PICK b \in Nat : \A n \in Live(nodes) : nodes[n].depth <= b
  BY <1>0, DepthBound
<1> DEFINE U == Used \X Nat
           B == {i \in U : i[2] < Count(i[1]) \/ nodes[i[1]].parent = NoNode}
           v == [i \in U |-> IF i[2] < Count(i[1]) THEN i ELSE <<NoNode, 0>>]
           g == [i \in U |-> <<nodes[i[1]].parent, nodes[i[1]].pos>>]
           r == [i \in U |-> b - nodes[i[1]].depth]
<1>2. Shrinks(U, B, g, r)
  <2>1. ASSUME NEW i \in U PROVE r[i] \in Nat
    <3>1. i[1] \in Live(nodes)
      BY UsedLive
    <3>2. nodes[i[1]].depth \in Nat /\ nodes[i[1]].depth <= b
      BY <1>0, <1>1, <3>1, NodeTypes
    <3> QED BY <3>2
  <2>2. ASSUME NEW i \in U, i \notin B PROVE g[i] \in U /\ r[g[i]] < r[i]
    <3> DEFINE n == i[1]
               q == nodes[n].parent
    <3>1. n \in Live(nodes) /\ q # NoNode
      BY <2>2, UsedLive
    <3>2. n # root
      BY <3>1 DEF Linked
    <3>3. q \in Live(nodes) /\ nodes[n].pos \in Nat /\ nodes[q].depth = nodes[n].depth + 1
      BY <3>1, <3>2, LinkUp
    <3>4. g[i] \in U /\ g[i][1] = q
      BY <3>3, UsedLive
    <3>5. nodes[n].depth \in Nat /\ nodes[q].depth \in Nat
      BY <3>1, <3>3, <1>0, NodeTypes
    <3>6. r[g[i]] = b - nodes[q].depth /\ r[i] = b - nodes[n].depth
      BY <3>4
    <3> HIDE DEF r, g, q, n
    <3> QED BY <3>3, <3>4, <3>5, <3>6
  <2>3. r \in [U -> Nat]
    BY <2>1
  <2> HIDE DEF U, B, g, r
  <2> QED BY <2>2, <2>3 DEF Shrinks
<1>3. PICK f : Goes(U, B, v, g, f)
  <2> HIDE DEF U, B, v, g, r
  <2> QED BY <1>2, GoesOn
<1>4. DerefIs(f)
  BY <1>3 DEF DerefIs, Goes
<1>5. Deref(it) = (CHOOSE h : DerefIs(h))[it]
  BY DEF Deref, DerefIs
<1>6. DerefIs(CHOOSE h : DerefIs(h))
  BY <1>4
<1> QED BY <1>5, <1>6

\* A record is at the iterator.
AtRecord(i) == i \in Live(nodes) \X Nat /\ i[2] < Count(i[1])

\* From a node on, the search ends in a leaf; going up from there leads to a
\* record on the way, if the node was left at one or the key was met.
LEMMA PathDown ==
    ASSUME Linked(nodes, root), NEW k, NEW f, NEW h, NEW c, FindIs(k, f), FoundIs(k, h), DerefIs(c)
    PROVE  \A n \in Live(nodes) :
              /\ f[n] \in Live(nodes) \X Nat /\ nodes[f[n][1]].depth = 0 /\ f[n][2] <= Count(f[n][1])
              /\ AtRecord(c[f[n]]) \/ c[f[n]] = c[<<n, Way(n, k)>>]
              /\ h[n] => AtRecord(c[f[n]])
<1> DEFINE C(n) == /\ f[n] \in Live(nodes) \X Nat /\ nodes[f[n][1]].depth = 0 /\ f[n][2] <= Count(f[n][1])
                   /\ AtRecord(c[f[n]]) \/ c[f[n]] = c[<<n, Way(n, k)>>]
                   /\ h[n] => AtRecord(c[f[n]])
           Bad == {n \in Live(nodes) : ~C(n)}
           S == {nodes[n].depth : n \in Bad}
<1>1. ASSUME Bad # {} PROVE FALSE
  <2>1. S \in SUBSET Nat /\ S # {}
    <3>1. \A n \in Live(nodes) : nodes[n].depth \in Nat
      BY GoesDown
    <3> HIDE DEF C
    <3> QED BY <1>1, <3>1
  <2>2. PICK n \in Bad : \A x \in Bad : nodes[n].depth <= nodes[x].depth
    <3> HIDE DEF Bad
    <3>1. PICK s \in S : \A t \in S : s <= t
      <4> HIDE DEF S
      <4> QED BY <2>1, LeastNatural
    <3> QED BY <3>1
  <2>3. n \in Live(nodes) /\ ~C(n) /\ n \in Used
    <3> HIDE DEF C
    <3> QED BY UsedLive
  <2> DEFINE p == Way(n, k)
             b == nodes[n].branches[p + 1]
             here == p < Count(n) /\ nodes[n].recs[p + 1] = k
  <2>4. /\ p \in 0..Count(n) /\ p \in Nat /\ Count(n) \in Nat /\ nodes[n].depth \in Nat
        /\ nodes[n].depth # 0 => /\ b \in Live(nodes) /\ nodes[b].depth \in Nat /\ nodes[b].depth < nodes[n].depth
                                 /\ nodes[b].parent = n /\ nodes[b].pos = p
    BY <2>3, GoesDown
  <2>5. f[n] = IF nodes[n].depth = 0 THEN <<n, p>> ELSE f[b]
    BY <2>3 DEF FindIs, Way
  <2>6. h[n] = IF here \/ nodes[n].depth = 0 THEN here ELSE h[b]
    BY <2>3 DEF FoundIs, Way
  <2>7. p < Count(n) => AtRecord(c[<<n, p>>])
    <3> DEFINE i == <<n, p>>
    <3>1. i \in Used \X Nat /\ i[1] = n /\ i[2] = p /\ i \in Live(nodes) \X Nat
      BY <2>3, <2>4
    <3> HIDE DEF i, p
    <3>2. p < Count(n) => c[i] = i
      BY <3>1 DEF DerefIs
    <3> QED BY <3>1, <3>2 DEF AtRecord, i
  <2> HIDE DEF p, b
  <2>8. CASE nodes[n].depth = 0
    <3>0. f[n] = <<n, p>> /\ f[n][1] = n /\ f[n][2] = p
      BY <2>5, <2>8
    <3>1. h[n] = here
      BY <2>6, <2>8
    <3>3. h[n] => AtRecord(c[f[n]])
      BY <2>7, <3>0, <3>1
    <3>4. AtRecord(c[f[n]]) \/ c[f[n]] = c[<<n, Way(n, k)>>]
      BY <3>0 DEF p
    <3>5. f[n] \in Live(nodes) \X Nat /\ nodes[f[n][1]].depth = 0 /\ f[n][2] <= Count(f[n][1])
      BY <3>0, <2>3, <2>4, <2>8
    <3>2. C(n)
      BY <3>3, <3>4, <3>5
    <3> QED BY <2>3, <3>2
  <2>9. CASE nodes[n].depth # 0
    <3>1. C(b)
      <4> HIDE DEF C
      <4>1. b \notin Bad
        <5> HIDE DEF Bad
        <5> QED BY <2>2, <2>4, <2>9
      <4> QED BY <4>1, <2>4, <2>9
    <3>2. f[n] = f[b]
      BY <2>5, <2>9
    <3>3. AtRecord(c[f[n]]) \/ c[f[n]] = c[<<n, p>>]
      <4> DEFINE j == Way(b, k)
                 i == <<b, j>>
      <4>1. AtRecord(c[f[b]]) \/ c[f[b]] = c[i]
        BY <3>1
      <4>2. j \in Nat /\ Count(b) \in Nat /\ j <= Count(b)
        <5>1. b \in Live(nodes)
          BY <2>4, <2>9
        <5>2. j \in 0..Count(b) /\ j \in Nat /\ Count(b) \in Nat
          BY <5>1, GoesDown
        <5> HIDE DEF j
        <5> QED BY <5>2
      <4>3. i \in Used \X Nat /\ i[1] = b /\ i[2] = j /\ i \in Live(nodes) \X Nat
        BY <2>4, <2>9, <4>2, UsedLive
      <4> HIDE DEF i, j, C
      <4>4. n # NoNode
        <5>1. nodes \in Memory
          BY DEF Linked
        <5> QED BY <5>1, <2>3, NodeTypes
      <4>5. c[i] = IF j < Count(b) THEN i ELSE c[<<n, p>>]
        BY <2>4, <2>9, <4>3, <4>4 DEF DerefIs
      <4>6. j < Count(b) => AtRecord(i)
        BY <4>3 DEF AtRecord
      <4> QED BY <3>2, <4>1, <4>5, <4>6
    <3>4. h[n] => AtRecord(c[f[n]])
      <4>1. CASE here
        BY <2>7, <3>3, <4>1
      <4>2. CASE ~here
        <5>1. h[n] = h[b]
          BY <2>6, <2>9, <4>2
        <5>2. h[b] => AtRecord(c[f[b]])
          BY <3>1
        <5> QED BY <5>1, <5>2, <3>2
      <4> QED BY <4>1, <4>2
    <3>5. f[n] \in Live(nodes) \X Nat /\ nodes[f[n][1]].depth = 0 /\ f[n][2] <= Count(f[n][1])
      BY <3>1, <3>2
    <3>6. C(n)
      BY <3>3, <3>4, <3>5 DEF p
    <3> QED BY <2>3, <3>6
  <2> QED BY <2>8, <2>9
<1> HIDE DEF C
<1>2. \A n \in Live(nodes) : C(n)
  BY <1>1
<1> QED BY <1>2 DEF C

LEMMA FindLeaf ==
    ASSUME Linked(nodes, root), NEW k
    PROVE  /\ Find(k)[1] \in Live(nodes) /\ nodes[Find(k)[1]].depth = 0
           /\ Find(k)[2] \in 0..Size(nodes, Find(k)[1])
           /\ Found(k) => AtRecord(Deref(Find(k)))
<1>1. PICK f : FindIs(k, f) /\ Find(k) = f[root]
  BY FindGoes
<1>2. PICK h : FoundIs(k, h) /\ Found(k) = h[root]
  BY FoundGoes
<1>3. PICK c : DerefIs(c) /\ Deref(Find(k)) = c[Find(k)]
  BY DerefGoes
<1>4. root \in Live(nodes) /\ nodes \in Memory
  BY DEF Linked
<1>5. /\ f[root] \in Live(nodes) \X Nat /\ nodes[f[root][1]].depth = 0 /\ f[root][2] <= Count(f[root][1])
      /\ h[root] => AtRecord(c[f[root]])
  <2>1. FindIs(k, f) /\ FoundIs(k, h) /\ DerefIs(c)
    BY <1>1, <1>2, <1>3
  <2>2. \A n \in Live(nodes) :
              /\ f[n] \in Live(nodes) \X Nat /\ nodes[f[n][1]].depth = 0 /\ f[n][2] <= Count(f[n][1])
              /\ AtRecord(c[f[n]]) \/ c[f[n]] = c[<<n, Way(n, k)>>]
              /\ h[n] => AtRecord(c[f[n]])
    BY <2>1, PathDown
  <2> QED BY <1>4, <2>2
<1> DEFINE it == Find(k)
<1>6. it \in Live(nodes) \X Nat /\ nodes[it[1]].depth = 0 /\ it[2] <= Count(it[1])
  BY <1>1, <1>5
<1>7. Found(k) => AtRecord(Deref(it))
  BY <1>1, <1>2, <1>3, <1>5
<1> HIDE DEF it
<1>8. it[1] \in Live(nodes) /\ it[2] \in Nat /\ Count(it[1]) = Size(nodes, it[1]) /\ Size(nodes, it[1]) \in Nat
  <2>1. it[1] \in Live(nodes) /\ it[2] \in Nat
    BY <1>6
  <2> QED BY <2>1, <1>4, NodeTypes DEF Count, Size
<1> QED BY <1>6, <1>7, <1>8 DEF it

-----------------------------------------------------------------------------
(* Every step leaves the tree as it should be *)

\* V is the tree N but for the records of the node n.
Beyond(N, V, n, top) ==
    /\ Linked(V, top) /\ n \in Live(V) /\ Live(V) = Live(N)
    /\ \A x \in Live(N) : V[x].depth = N[x].depth /\ (x # n => Size(V, x) = Size(N, x))

\* A leaf that takes a record stays where it is.
LEMMA LeafTakes ==
    ASSUME NEW N, NEW n, NEW r, NEW p, NEW top, Linked(N, top), Takes(N, n, NoNode, r, p), N[n].depth = 0,
           NEW V, V = NodeInsert(N, n, NoNode, r, p)
    PROVE  Beyond(N, V, n, top) /\ Size(V, n) = Size(N, n) + 1
<1>1. IsInsert(N, V, n, NoNode, r, p)
  BY InsertIsInsert
<1>2. N \in Memory /\ n \in Live(N) /\ p \in Nat /\ Width(N, n) = 0
  <2>1. N \in Memory /\ n \in Live(N) /\ p \in 0..Size(N, n) /\ Width(N, n) = 0
    BY DEF Takes
  <2>2. Size(N, n) \in Nat
    BY <2>1, NodeTypes
  <2> QED BY <2>1, <2>2
<1>3. V \in Memory /\ Live(V) = Live(N) /\ V[n].branches = N[n].branches /\ Width(V, n) = 0
  BY <1>1, <1>2 DEF IsInsert, Width
<1>4. \A i \in (p + 2)..Width(V, n) : FALSE
  BY <1>2, <1>3
<1>5. \A x \in Live(N) : V[x].parent = N[x].parent /\ V[x].pos = N[x].pos /\ V[x].depth = N[x].depth
  BY <1>1, <1>4 DEF IsInsert
<1>6. \A x \in Live(N) : x # n => Size(V, x) = Size(N, x) /\ V[x].branches = N[x].branches
  BY <1>1 DEF IsInsert, Size
<1>7. Size(V, n) = Size(N, n) + 1
  <2>1. Inserted(N[n].recs, p + 1, r, V[n].recs)
    BY <1>1 DEF IsInsert
  <2> QED BY <2>1 DEF Inserted, Size
<1>8. Linked(V, top)
  <2>1. \A x \in Live(N) : /\ V[x].branches = N[x].branches /\ V[x].parent = N[x].parent
                           /\ V[x].pos = N[x].pos /\ V[x].depth = N[x].depth
                           /\ N[x].depth = 0 \/ Size(V, x) = Size(N, x)
    BY <1>3, <1>5, <1>6
  <2> QED BY <2>1, <1>3, LinksKept
<1> QED BY <1>2, <1>3, <1>5, <1>6, <1>7, <1>8 DEF Beyond

\* Between two calls.
LEMMA Rests ==
    ASSUME Shape, sound, pc = "idle"
    PROVE  /\ MaxElements \in Orders /\ nodes \in Memory /\ held \subseteq Keys /\ root \in Live(nodes)
           /\ Linked(nodes, root)
           /\ \A x \in Live(nodes) : FilledAt(nodes, root, NoNode, NoNode, x) /\ x # NoNode /\ Size(nodes, x) \in Nat
<1>1. MaxElements \in Orders /\ Working /\ Linked(View, Top) /\ Filled(View, Top, Over, Lacking)
  BY DEF Shape
<1>2. View = nodes /\ Top = root /\ Over = NoNode /\ Lacking = NoNode
  BY DEF View, Top, Over, Lacking
<1>3. nodes \in Memory /\ root \in Live(nodes) /\ held \subseteq Keys
  BY <1>1 DEF Working
<1>4. \A x \in Live(nodes) : FilledAt(nodes, root, NoNode, NoNode, x)
  BY <1>1, <1>2 DEF Filled, FilledAt
<1> QED BY <1>1, <1>2, <1>3, <1>4, NodeTypes

LEMMA InsertShapes ==
    ASSUME Shape, NEW k \in Keys, Insert(k) PROVE Shape'
<1> DEFINE it == Find(k)
           n == it[1]
           p == it[2]
           V == NodeInsert(nodes, n, NoNode, k, p)
<1>1. /\ pc = "idle" /\ sound /\ held' = held \cup {k} /\ MaxElements' = MaxElements /\ root' = root
      /\ sound' = sound
      /\ IF Count(n) < MaxElements THEN nodes' = V /\ pc' = pc
         ELSE pc' = "split" /\ at' = it /\ up' = <<NoNode, k>> /\ nodes' = nodes
  BY DEF Insert
<1>2. /\ MaxElements \in Orders /\ nodes \in Memory /\ held' \subseteq Keys /\ root \in Live(nodes)
      /\ Linked(nodes, root)
      /\ \A x \in Live(nodes) : FilledAt(nodes, root, NoNode, NoNode, x) /\ x # NoNode /\ Size(nodes, x) \in Nat
  BY <1>1, Rests
<1>3. n \in Live(nodes) /\ nodes[n].depth = 0 /\ p \in 0..Size(nodes, n)
  BY <1>2, FindLeaf
<1> HIDE DEF it
<1>4. Takes(nodes, n, NoNode, k, p)
  <2>1. Width(nodes, n) = 0
    BY <1>2, <1>3, LinkDown
  <2> QED BY <2>1, <1>2, <1>3 DEF Takes
<1>5. /\ Linked(V, root) /\ V \in Memory /\ n \in Live(V) /\ Live(V) = Live(nodes)
      /\ Size(V, n) = Size(nodes, n) + 1
      /\ \A x \in Live(nodes) : V[x].depth = nodes[x].depth /\ (x # n => Size(V, x) = Size(nodes, x))
  <2>1. V = NodeInsert(nodes, n, NoNode, k, p)
    OBVIOUS
  <2> HIDE DEF V, n, p
  <2>2. Linked(nodes, root) /\ nodes[n].depth = 0
    BY <1>2, <1>3
  <2>3. Beyond(nodes, V, n, root) /\ Size(V, n) = Size(nodes, n) + 1
    BY <1>4, <2>1, <2>2, LeafTakes
  <2> QED BY <2>3 DEF Beyond, Linked
<1>6. MaxElements \in Nat /\ MinElements \in Nat
  BY <1>2, Halved
<1>7. Size(nodes, n) \in Nat /\ Count(n) = Size(nodes, n) /\ n # NoNode /\ Size(nodes, n) <= MaxElements
      /\ (n # root => Size(nodes, n) >= MinElements)
  BY <1>2, <1>3 DEF FilledAt, Count, Size
<1> HIDE DEF V, n, p
<1>8. \A x \in Live(V) : x # n => FilledAt(V, root, NoNode, NoNode, x) /\ FilledAt(V, root, n, NoNode, x)
  <2>1. \A x \in Live(nodes) : x # n => FilledAt(V, root, NoNode, NoNode, x)
    BY <1>2, <1>5, FilledSame
  <2> QED BY <2>1, <1>2, <1>5 DEF FilledAt
<1>9. FilledAt(V, root, n, NoNode, n) /\ (Count(n) < MaxElements => FilledAt(V, root, NoNode, NoNode, n))
  <2>1. V[n].depth = 0
    BY <1>3, <1>5
  <2> QED BY <2>1, <1>5, <1>6, <1>7 DEF FilledAt
<1>10. CASE Count(n) < MaxElements
  <2>1. nodes' = V /\ pc' = "idle"
    BY <1>1, <1>10
  <2>2. Filled(V, root, NoNode, NoNode)
    BY <1>8, <1>9, <1>10 DEF Filled, FilledAt
  <2> QED BY <2>1, <2>2, <1>1, <1>2, <1>5, EndShapes
<1>11. CASE ~(Count(n) < MaxElements)
  <2>1. pc' = "split" /\ nodes' = nodes /\ at' = it /\ up' = <<NoNode, k>>
    BY <1>1, <1>11
  <2>2. at'[1] = n /\ at'[2] = p /\ up'[1] = NoNode /\ up'[2] = k
    BY <2>1 DEF n, p
  <2>3. View' = V /\ Top' = root /\ Over' = n /\ Lacking' = NoNode
    BY <2>1, <2>2, <1>1 DEF View, Top, Over, Lacking, V
  <2>4. Working'
    <3>1. Count(n) = MaxElements
      BY <1>6, <1>7, <1>11
    <3> QED BY <3>1, <2>1, <2>2, <1>1, <1>2, <1>4 DEF Working, Count
  <2>5. Filled(V, root, n, NoNode)
    BY <1>8, <1>9 DEF Filled, FilledAt
  <2>6. Filled(View, Top, Over, Lacking)'
    BY <2>3, <2>5, <1>1 DEF Filled, MinElements
  <2> QED BY <2>3, <2>4, <2>6, <1>1, <1>2, <1>5 DEF Shape
<1> QED BY <1>10, <1>11

\* A leaf that loses a record stays where it is.
LEMMA LeafLoses ==
    ASSUME NEW N, NEW n, NEW i, NEW top, Linked(N, top), n \in Live(N), N[n].depth = 0, i \in 1..Size(N, n),
           NEW V, V = [N EXCEPT ![n].recs = RemoveAt(@, i)]
    PROVE  Beyond(N, V, n, top) /\ Size(V, n) \in Nat /\ Size(V, n) + 1 = Size(N, n)
<1>1. N \in Memory /\ n \in Node /\ N[n] \in NodeRec /\ N[n].recs \in Seq(Keys) /\ Size(N, n) \in Nat
      /\ Len(N[n].recs) = Size(N, n)
  BY NodeTypes DEF Linked, Size
<1> DEFINE s == N[n].recs
           R == RemoveAt(s, i)
           w == [N[n] EXCEPT !.recs = R]
<1>2. R \in Seq(Keys) /\ Len(R) = Size(N, n) - 1
  <2>1. s \in Seq(Keys) /\ i \in 1..Len(s) /\ Len(s) = Size(N, n)
    BY <1>1
  <2> HIDE DEF s
  <2> QED BY <2>1, RemoveProps
<1>3. V = [N EXCEPT ![n] = w]
  BY <1>1 DEF Memory, NodeRec
<1> HIDE DEF R
<1>4. /\ w \in NodeRec /\ w.recs = R /\ w.branches = N[n].branches /\ w.parent = N[n].parent
      /\ w.pos = N[n].pos /\ w.depth = N[n].depth
  BY <1>1, <1>2, FieldRecs
<1> HIDE DEF w
<1>5. IsWrite(N, n, w, V)
  <2>1. N \in Memory /\ n \in Node /\ w \in NodeRec
    BY <1>1, <1>4
  <2>2. IsWrite(N, n, w, [N EXCEPT ![n] = w])
    BY <2>1, Written
  <2> QED BY <1>3, <2>2
<1>6. V \in Memory /\ Live(V) = Live(N) /\ V[n] = w /\ \A x \in Live(N) : x # n => V[x] = N[x]
  <2>1. \A x \in Live(N) : x \in Node
    BY DEF Live
  <2> QED BY <2>1, <1>5 DEF IsWrite
<1>7. Size(V, n) = Len(R)
  BY <1>4, <1>6 DEF Size
<1>8. \A x \in Live(N) : x # n => Size(V, x) = Size(N, x)
  BY <1>6 DEF Size
<1>9. \A x \in Live(N) : /\ V[x].branches = N[x].branches /\ V[x].parent = N[x].parent
                         /\ V[x].pos = N[x].pos /\ V[x].depth = N[x].depth
                         /\ N[x].depth = 0 \/ Size(V, x) = Size(N, x)
  BY <1>4, <1>6, <1>8
<1>10. Linked(V, top)
  BY <1>6, <1>9, LinksKept
<1>11. Size(V, n) \in Nat /\ Size(V, n) + 1 = Size(N, n)
  BY <1>1, <1>2, <1>7
<1> QED BY <1>6, <1>8, <1>9, <1>10, <1>11 DEF Beyond

LEMMA RemoveShapes ==
    ASSUME Shape, NEW k \in Keys, RemoveKey(k) PROVE Shape'
<1> DEFINE it == Deref(Find(k))
           n == it[1]
           i == it[2] + 1
           V == [nodes EXCEPT ![n].recs = RemoveAt(@, i)]
<1>1. /\ pc = "idle" /\ sound /\ Found(k) /\ held' = held \ {k} /\ MaxElements' = MaxElements /\ root' = root
      /\ nodes[n].depth = 0 => /\ nodes' = V /\ at' = it /\ sound' = sound
                               /\ pc' = IF nodes[n].parent = NoNode THEN "idle" ELSE "restore"
      /\ nodes[n].depth # 0 => sound' = FALSE
  BY DEF RemoveKey
<1>2. /\ MaxElements \in Orders /\ nodes \in Memory /\ held' \subseteq Keys /\ root \in Live(nodes)
      /\ Linked(nodes, root)
      /\ \A x \in Live(nodes) : FilledAt(nodes, root, NoNode, NoNode, x) /\ x # NoNode /\ Size(nodes, x) \in Nat
  BY <1>1, Rests
<1>3. n \in Live(nodes) /\ i \in 1..Size(nodes, n)
  <2>1. AtRecord(it)
    BY <1>1, <1>2, FindLeaf
  <2> HIDE DEF it
  <2>2. n \in Live(nodes) /\ it[2] \in Nat /\ it[2] < Size(nodes, n)
    BY <2>1 DEF AtRecord, Count, Size
  <2> QED BY <2>2, <1>2
<1> HIDE DEF it
<1>4. CASE nodes[n].depth # 0
  <2>1. sound' = FALSE
    BY <1>1, <1>4
  <2> QED BY <2>1, <1>1, <1>2 DEF Shape
<1>5. CASE nodes[n].depth = 0
  <2>1. /\ nodes' = V /\ at' = it /\ sound' = sound
        /\ pc' = IF nodes[n].parent = NoNode THEN "idle" ELSE "restore"
    BY <1>1, <1>5
  <2> HIDE DEF i
  <2>2. /\ Linked(V, root) /\ n \in Live(V) /\ Live(V) = Live(nodes)
        /\ Size(V, n) \in Nat /\ Size(V, n) + 1 = Size(nodes, n)
        /\ \A x \in Live(nodes) : V[x].depth = nodes[x].depth /\ (x # n => Size(V, x) = Size(nodes, x))
    <3>1. V = [nodes EXCEPT ![n].recs = RemoveAt(@, i)]
      OBVIOUS
    <3> HIDE DEF V, n
    <3>2. Linked(nodes, root) /\ n \in Live(nodes) /\ i \in 1..Size(nodes, n)
      BY <1>2, <1>3
    <3>3. Beyond(nodes, V, n, root) /\ Size(V, n) \in Nat /\ Size(V, n) + 1 = Size(nodes, n)
      BY <3>1, <3>2, <1>5, LeafLoses
    <3> QED BY <3>3 DEF Beyond
  <2>3. at'[1] = n
    BY <2>1
  <2> HIDE DEF V, n
  <2>4. MaxElements \in Nat /\ MinElements \in Nat
    BY <1>2, Halved
  <2>5. \A x \in Live(V) : x # n => FilledAt(V, root, NoNode, NoNode, x) /\ FilledAt(V, root, NoNode, n, x)
    <3>1. ASSUME NEW x \in Live(nodes), x # n
          PROVE  FilledAt(V, root, NoNode, NoNode, x) /\ FilledAt(V, root, NoNode, n, x)
      <4>1. FilledAt(nodes, root, NoNode, NoNode, x) /\ Size(V, x) = Size(nodes, x) /\ V[x].depth = nodes[x].depth
            /\ x # NoNode
        BY <3>1, <1>2, <2>2
      <4>2. FilledAt(V, root, NoNode, NoNode, x)
        BY <4>1, FilledSame
      <4> QED BY <3>1, <4>1, <4>2 DEF FilledAt
    <3> QED BY <3>1, <2>2
  <2>6. n # NoNode /\ V[n].depth = 0 /\ Size(V, n) <= MaxElements /\ (n # root => Size(V, n) + 1 >= MinElements)
    <3>1. n # NoNode /\ Size(nodes, n) <= MaxElements /\ (n # root => Size(nodes, n) >= MinElements)
      BY <1>2, <1>3 DEF FilledAt
    <3> QED BY <3>1, <2>2, <2>4, <1>3, <1>5
  <2>7. nodes[n].parent = NoNode <=> n = root
    <3>1. nodes[root].parent = NoNode /\ NoNode \notin Live(nodes)
      BY <1>2 DEF Linked
    <3>2. n # root => nodes[n].parent \in Live(nodes)
      BY <1>2, <1>3, LinkUp
    <3> QED BY <3>1, <3>2
  <2>8. CASE n = root
    <3>1. FilledAt(V, root, NoNode, NoNode, n)
      BY <2>6, <2>8 DEF FilledAt
    <3>2. Filled(V, root, NoNode, NoNode)
      BY <3>1, <2>5 DEF Filled, FilledAt
    <3>3. pc' = "idle"
      BY <2>1, <2>7, <2>8
    <3> QED BY <3>2, <3>3, <2>1, <2>2, <1>1, <1>2, EndShapes
  <2>9. CASE n # root
    <3>1. FilledAt(V, root, NoNode, n, n)
      BY <2>6, <2>9 DEF FilledAt
    <3>2. Filled(V, root, NoNode, n)
      BY <3>1, <2>5 DEF Filled, FilledAt
    <3>3. pc' = "restore"
      BY <2>1, <2>7, <2>9
    <3>4. View' = V /\ Top' = root /\ Over' = NoNode /\ Lacking' = n
      BY <3>3, <2>1, <2>3, <1>1 DEF View, Top, Over, Lacking
    <3>5. Working'
      <4>1. V \in Memory /\ root \in Live(V)
        BY <2>2 DEF Linked
      <4> QED BY <4>1, <3>3, <2>1, <2>2, <2>3, <2>9, <1>1, <1>2 DEF Working
    <3>6. Filled(View, Top, Over, Lacking)'
      BY <3>2, <3>4, <1>1 DEF Filled, MinElements
    <3> QED BY <3>4, <3>5, <3>6, <2>1, <2>2, <1>1, <1>2 DEF Shape
  <2> QED BY <2>8, <2>9
<1> QED BY <1>4, <1>5

LEMMA Starts == ASSUME Init PROVE Shape
<1>1. /\ MaxElements \in Orders /\ nodes = [n \in Node |-> IF n = 1 THEN Leaf ELSE Unused]
      /\ root = 1 /\ pc = "idle" /\ held = {} /\ sound = TRUE
  BY DEF Init
<1>2. 1 \in Node /\ NoNode \notin Node
  BY MaxNodesAssumption DEF Node, NoNode
<1>3. Leaf \in NodeRec /\ Leaf # Unused
  <2>1. Leaf \in NodeRec
    BY DEF Leaf, NodeRec, NoNode
  <2> QED BY <2>1, Allocated
<1>4. nodes \in Memory /\ Live(nodes) = {1} /\ nodes[1] = Leaf
  BY <1>1, <1>2, <1>3 DEF Memory, Live
<1>5. Width(nodes, 1) = 0 /\ Size(nodes, 1) = 0 /\ nodes[1].depth = 0 /\ nodes[1].parent = NoNode
  BY <1>4 DEF Leaf, Width, Size
<1>6. Linked(nodes, 1)
  <2>1. Down(nodes, 1, 1)
    BY <1>5 DEF Down
  <2> QED BY <2>1, <1>4, <1>5 DEF Linked
<1>7. Filled(nodes, 1, NoNode, NoNode)
  <2>1. MaxElements \in Nat
    BY <1>1, Halved
  <2>2. 1 # NoNode
    BY <1>2
  <2> QED BY <2>1, <2>2, <1>4, <1>5 DEF Filled
<1>8. View = nodes /\ Top = 1 /\ Over = NoNode /\ Lacking = NoNode
  BY <1>1 DEF View, Top, Over, Lacking
<1>9. Working
  BY <1>1, <1>4 DEF Working
<1> QED BY <1>1, <1>6, <1>7, <1>8, <1>9 DEF Shape

LEMMA Steps == ASSUME Shape, [Next]_vars PROVE Shape'
<1>1. CASE vars' = vars
  <2>1. /\ MaxElements' = MaxElements /\ nodes' = nodes /\ root' = root /\ pc' = pc /\ at' = at /\ up' = up
        /\ held' = held /\ sound' = sound
    BY <1>1 DEF vars
  <2>2. View' = View /\ Top' = Top /\ Over' = Over /\ Lacking' = Lacking
    BY <2>1 DEF View, Top, Over, Lacking, Fresh
  <2>3. Working' = Working
    BY <2>1 DEF Working, Count
  <2>4. Filled(View, Top, Over, Lacking)' = Filled(View, Top, Over, Lacking)
    BY <2>1, <2>2 DEF Filled, MinElements
  <2> QED BY <2>1, <2>2, <2>3, <2>4 DEF Shape
<1>2. CASE Next /\ ~sound
  <2>1. MaxElements' = MaxElements /\ sound' = FALSE
    BY <1>2 DEF Shape, Next, Insert, RemoveKey, Split, InsertUp, NewRoot, Restore, Restored
  <2> QED BY <2>1 DEF Shape
<1>3. CASE Next /\ sound
  <2>1. CASE \E k \in Keys : Insert(k) \/ RemoveKey(k)
    BY <2>1, InsertShapes, RemoveShapes
  <2>2. CASE Split
    BY <2>2, <1>3, SplitShapes
  <2>3. CASE InsertUp
    BY <2>3, <1>3, InsertUpShapes
  <2>4. CASE NewRoot
    BY <2>4, <1>3, NewRootShapes
  <2>5. CASE Restore
    BY <2>5, <1>3, RestoreShapes
  <2>6. CASE Restored
    BY <2>6, <1>3, RestoredShapes
  <2> QED BY <2>1, <2>2, <2>3, <2>4, <2>5, <2>6, <1>3 DEF Next
<1> QED BY <1>1, <1>2, <1>3

LEMMA ShapeIsShapely == ASSUME Shape PROVE Shapely
<1> SUFFICES ASSUME Quiet
             PROVE  /\ nodes[root].parent = NoNode
                    /\ \A n \in Used : n # root =>
                           /\ nodes[n].parent \in Used
                           /\ nodes[nodes[n].parent].depth = nodes[n].depth + 1
                           /\ nodes[nodes[n].parent].branches[nodes[n].pos + 1] = n
                           /\ Count(n) \in MinElements..MaxElements
                    /\ \A n \in Used :
                           /\ Count(n) <= MaxElements
                           /\ Len(nodes[n].branches) = (IF nodes[n].depth = 0 THEN 0 ELSE Count(n) + 1)
  BY DEF Shapely
<1>1. /\ MaxElements \in Orders /\ Linked(nodes, root) /\ nodes[root].parent = NoNode
      /\ \A x \in Live(nodes) : FilledAt(nodes, root, NoNode, NoNode, x) /\ x # NoNode /\ Size(nodes, x) \in Nat
  BY Rests DEF Quiet, Linked
<1>2. MaxElements \in Nat /\ MinElements \in Nat
  BY <1>1, Halved
<1>3. ASSUME NEW n \in Used, n # root
      PROVE  /\ nodes[n].parent \in Used
             /\ nodes[nodes[n].parent].depth = nodes[n].depth + 1
             /\ nodes[nodes[n].parent].branches[nodes[n].pos + 1] = n
             /\ Count(n) \in MinElements..MaxElements
  <2>1. n \in Live(nodes)
    BY UsedLive
  <2>2. Count(n) \in MinElements..MaxElements
    <3>1. Count(n) \in Nat /\ Count(n) >= MinElements /\ Count(n) <= MaxElements
      BY <1>1, <1>3, <2>1 DEF FilledAt, Count, Size
    <3> QED BY <3>1, <1>2
  <2> QED BY <2>1, <2>2, <1>1, <1>3, LinkUp, UsedLive
<1>4. ASSUME NEW n \in Used
      PROVE  /\ Count(n) <= MaxElements
             /\ Len(nodes[n].branches) = (IF nodes[n].depth = 0 THEN 0 ELSE Count(n) + 1)
  <2>1. n \in Live(nodes)
    BY UsedLive
  <2>2. Count(n) <= MaxElements
    BY <1>1, <2>1 DEF FilledAt, Count, Size
  <2> QED BY <2>1, <2>2, <1>1, LinkDown DEF Count, Size, Width
<1> QED BY <1>1, <1>3, <1>4

-----------------------------------------------------------------------------
(* The theorems *)

\* The memory is one tree at every point, but for what the call at work is
\* about to do to it.
THEOREM Invariant == Spec => []Shape
<1>1. Init => Shape
  BY Starts
<1>2. Shape /\ [Next]_vars => Shape'
  BY Steps
<1> QED BY <1>1, <1>2, PTL DEF Spec

\* memtree.c keeps a balanced tree of nodes half full at least, in every order it
\* can be built with, whatever is inserted, and removed as long as no removal was
\* of a record of an inner node, or has combined two nodes of which the right one
\* has records left: then the code keeps wrong records (`sound` is FALSE).
THEOREM Balanced == Spec => []Shapely
<1>1. Shape => Shapely
  BY ShapeIsShapely
<1> QED BY <1>1, Invariant, PTL
=============================================================================
