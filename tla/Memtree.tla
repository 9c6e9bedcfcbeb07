------------------------------ MODULE Memtree -------------------------------
(***************************************************************************)
(* memtree.c: the B-tree that holds what the active file, and what the     *)
(* finalised files, contain.  Nodes lead to their children and back: each  *)
(* has a pointer to its parent and its position there, which the cursors   *)
(* and the insertion climb by.                                             *)
(*                                                                         *)
(* A record is named by its key; memtree_replace changes a record that is  *)
(* there in its place and leaves the tree alone.  recs and branches hold   *)
(* what counts of the arrays; positions are those of the code, from 0.     *)
(***************************************************************************)
EXTENDS Naturals, Sequences, FiniteSets, FiniteSetsExt, SequencesExt

CONSTANTS Keys,          \* the keys
          Orders,        \* values of MEMTREE_MAX_ELEMENTS
          MaxNodes,      \* bound of Split: the nodes there is memory for
          Unused         \* memory no node is in

ASSUME KeysOrdered == Keys \subseteq Nat \ {0} /\ IsFiniteSet(Keys)
ASSUME OrdersAssumption == \A m \in Orders : m \in Nat \ {0} /\ m % 2 = 0
ASSUME MaxNodesAssumption == MaxNodes \in Nat \ {0}

Node == 1..MaxNodes
NoNode == 0

ASSUME UnusedAssumption ==
    Unused \notin [recs : Seq(Nat), branches : Seq(Nat), parent : Nat, pos : Nat, depth : Nat]

VARIABLES MaxElements,   \* MEMTREE_MAX_ELEMENTS: fixed when the program is built
          nodes,         \* the memory: the nodes, some unused
          root,
          pc,            \* "idle", or where a call is: "split", "insert", "root", "restore"
          at,            \* the call's iterator: a node and a position
          up,            \* what a split hands to the parent: a branch and a record
          held,          \* the keys inserted and not removed
          sound          \* no removal has left a freed or a wrong record behind

vars == <<MaxElements, nodes, root, pc, at, up, held, sound>>

MinElements == MaxElements \div 2
Leaf == [recs |-> <<>>, branches |-> <<>>, parent |-> NoNode, pos |-> 0, depth |-> 0]

\* memtree_new
Init == /\ MaxElements \in Orders
        /\ nodes = [n \in Node |-> IF n = 1 THEN Leaf ELSE Unused]
        /\ root = 1 /\ pc = "idle"
        /\ at = <<NoNode, 0>> /\ up = <<NoNode, 0>> /\ held = {} /\ sound = TRUE

Count(n) == Len(nodes[n].recs)
Used == {n \in Node : nodes[n] # Unused}
Fresh == Min({n \in Node : nodes[n] = Unused})    \* memtree_node_alloc

-----------------------------------------------------------------------------
(* Looking and walking *)

\* memtree_memcmp_natural and memtree_memcmp_raw: the first position whose
\* key is not less than k.
Search(recs, k) ==
    LET search[range \in Nat \X Nat] ==     \* where it starts, and how many
          LET start == range[1]
              middle == range[2] \div 2
          IN  IF range[2] = 0 THEN start
              ELSE IF k > recs[start + middle + 1]
              THEN search[<<start + middle + 1, range[2] - middle - 1>>]
              ELSE search[<<start, middle>>]
    IN  search[<<0, Len(recs)>>]

\* memtree_find goes down to a leaf even when an inner node has the key: the
\* iterator is then at the end of the branch on its left.
Find(k) ==
    LET down[n \in Used] ==
          LET p == Search(nodes[n].recs, k)
          IN  IF nodes[n].depth = 0 THEN <<n, p>> ELSE down[nodes[n].branches[p + 1]]
    IN  down[root]

\* What it returns: the key was met on the way.
Found(k) ==
    LET met[n \in Used] ==
          LET p == Search(nodes[n].recs, k)
              here == p < Count(n) /\ nodes[n].recs[p + 1] = k
          IN  IF here \/ nodes[n].depth = 0 THEN here ELSE met[nodes[n].branches[p + 1]]
    IN  met[root]

\* The first and the last position in a branch: branch_begin, branch_end.
BranchBegin(b) ==
    LET down[n \in Used] == IF nodes[n].depth = 0 THEN <<n, 0>> ELSE down[nodes[n].branches[1]]
    IN  down[b]
BranchEnd(b) ==
    LET down[n \in Used] == IF nodes[n].depth = 0 THEN <<n, Count(n)>>
                            ELSE down[nodes[n].branches[Count(n) + 1]]
    IN  down[b]

\* Mutant: one step up at most.
DerefOnce(it) ==
    IF it[2] < Count(it[1]) THEN it
    ELSE LET n == nodes[it[1]]
         IN  IF n.parent = NoNode \/ n.pos >= Count(n.parent) THEN <<NoNode, 0>>
             ELSE <<n.parent, n.pos>>

\* memtree_deref: from the end of a node up to where a record follows;
\* NoNode when none does.
Deref(it) ==
    LET climb[i \in Used \X Nat] ==
          LET n == nodes[i[1]]
          IN  IF i[2] < Count(i[1]) THEN i
              ELSE IF n.parent = NoNode THEN <<NoNode, 0>>
              ELSE climb[<<n.parent, n.pos>>]
    IN  climb[it]

\* memtree_next and memtree_prev: the iterator and the key of its record.
NextOf(it) ==
    LET d == Deref(it)
        n == nodes[d[1]]
    IN  IF d[1] = NoNode THEN [it |-> d, key |-> 0]
        ELSE [it |-> IF n.depth = 0 THEN <<d[1], d[2] + 1>> ELSE BranchBegin(n.branches[d[2] + 2]),
              key |-> n.recs[d[2] + 1]]

PrevOf(it) ==
    LET climb[i \in Used \X Nat] ==
          LET n == nodes[i[1]]
          IN  IF i[2] > 0 THEN i
              ELSE IF n.parent = NoNode THEN <<NoNode, 0>>
              ELSE climb[<<n.parent, n.pos>>]
        e == IF nodes[it[1]].depth > 0 THEN BranchEnd(nodes[it[1]].branches[it[2] + 1])
             ELSE climb[it]
    IN  IF e[1] = NoNode THEN [it |-> e, key |-> 0]
        ELSE [it |-> <<e[1], e[2] - 1>>, key |-> nodes[e[1]].recs[e[2]]]

\* node_walk_forward
WalkForward ==
    LET walk[n \in Used] ==
          IF nodes[n].depth = 0 THEN nodes[n].recs
          ELSE FlattenSeq([i \in 1..Count(n) |-> Append(walk[nodes[n].branches[i]], nodes[n].recs[i])])
                 \o walk[nodes[n].branches[Count(n) + 1]]
    IN  walk[root]

-----------------------------------------------------------------------------
(* Insertion *)

\* Mutant: the branches on the right of the new one keep their positions.
PlaceOne(ns, n, from) ==
    [x \in Node |-> IF Len(ns[n].branches) >= from /\ ns[n].branches[from] = x
                    THEN [ns[x] EXCEPT !.parent = n, !.pos = from - 1] ELSE ns[x]]

\* Tells the branches of n, from the from-th on, where they are.
Place(ns, n, from) ==
    [x \in Node |->
       LET is == {i \in from..Len(ns[n].branches) : ns[n].branches[i] = x}
       IN  IF is = {} THEN ns[x] ELSE [ns[x] EXCEPT !.parent = n, !.pos = Min(is) - 1]]

\* node_insert: rec at p, and branch on its right.
NodeInsert(ns, n, branch, rec, p) ==
    LET in == [ns EXCEPT ![n].recs = InsertAt(@, p + 1, rec),
                         ![n].branches = IF ns[n].depth = 0 THEN @ ELSE InsertAt(@, p + 2, branch)]
    IN  Place(in, n, p + 2)

\* node_split: the upper part of left goes to right, which then takes, or
\* left takes, rec and branch; the last record of left is the median, and the
\* branch behind it becomes the first of right.
NodeSplit(ns, left, right, branch, rec, p) ==
    LET split == MinElements + (IF p <= MinElements THEN 0 ELSE 1)
        node == ns[left]
        cut == Place([ns EXCEPT
                 ![left].recs = SubSeq(@, 1, split),
                 ![left].branches = IF @ = <<>> THEN @ ELSE SubSeq(@, 1, split + 1),
                 ![right] = [node EXCEPT !.recs = SubSeq(@, split + 1, MaxElements),
                                         !.branches = IF @ = <<>> THEN @
                                                      ELSE SubSeq(@, split + 1, MaxElements + 1)]],
               right, 2)
        in == IF p <= MinElements THEN NodeInsert(cut, left, branch, rec, p)
              ELSE NodeInsert(cut, right, branch, rec, p - split)
        last == [in EXCEPT ![left].recs = Front(@),
                           ![left].branches = IF @ = <<>> THEN @ ELSE Front(@),
                           ![right].branches = IF @ = <<>> THEN @
                                               ELSE <<Last(in[left].branches)>> \o Tail(@)]
    IN  [ns |-> IF node.depth = 0 THEN last ELSE Place(last, right, 1),
         median |-> Last(in[left].recs)]

\* memtree_insert_opt with a key that is not there, and memtree_insert_at.
Insert(k) ==
    LET it == Find(k)
    IN  /\ pc = "idle" /\ sound /\ ~Found(k)
        /\ held' = held \cup {k}
        /\ IF Count(it[1]) < MaxElements
           THEN nodes' = NodeInsert(nodes, it[1], NoNode, k, it[2]) /\ UNCHANGED <<pc, at, up>>
           ELSE pc' = "split" /\ at' = it /\ up' = <<NoNode, k>> /\ UNCHANGED nodes
        /\ UNCHANGED <<MaxElements, root, sound>>

\* One turn of its loop: memtree_ascend, and again if the parent is full too.
\* MaxNodes bounds it: there must be a node for the split and one for a root.
Split == /\ pc = "split"
         /\ Cardinality({n \in Node : nodes[n] = Unused}) > 1
         /\ LET s == NodeSplit(nodes, at[1], Fresh, up[1], up[2], at[2])
                n == nodes[at[1]]
            IN  /\ nodes' = s.ns /\ up' = <<Fresh, s.median>>
                /\ at' = IF n.parent = NoNode THEN at ELSE <<n.parent, n.pos>>
                /\ pc' = IF n.parent = NoNode THEN "root"
                         ELSE IF Count(n.parent) < MaxElements THEN "insert" ELSE "split"
         /\ UNCHANGED <<MaxElements, root, held, sound>>

InsertUp == /\ pc = "insert"
            /\ nodes' = NodeInsert(nodes, at[1], up[1], up[2], at[2])
            /\ pc' = "idle" /\ at' = <<NoNode, 0>> /\ up' = <<NoNode, 0>>
            /\ UNCHANGED <<MaxElements, root, held, sound>>

NewRoot == /\ pc = "root"
           /\ nodes' = Place([nodes EXCEPT ![Fresh] =
                                [Leaf EXCEPT !.recs = <<up[2]>>, !.branches = <<root, up[1]>>,
                                             !.depth = nodes[root].depth + 1]], Fresh, 1)
           /\ root' = Fresh
           /\ pc' = "idle" /\ at' = <<NoNode, 0>> /\ up' = <<NoNode, 0>>
           /\ UNCHANGED <<MaxElements, held, sound>>

-----------------------------------------------------------------------------
(* Removal, which nothing but a user of the library's header calls *)

\* node_move_left: a record of the branch at p + 1 goes round to that at p.
NodeMoveLeft(n, p) ==
    LET l == nodes[n].branches[p + 1]
        r == nodes[n].branches[p + 2]
        moved == [nodes EXCEPT
                    ![l].recs = Append(@, nodes[n].recs[p + 1]),
                    ![n].recs = [@ EXCEPT ![p + 1] = Head(nodes[r].recs)],
                    ![r].recs = Tail(@),
                    ![l].branches = IF @ = <<>> THEN @ ELSE Append(@, Head(nodes[r].branches)),
                    ![r].branches = IF @ = <<>> THEN @ ELSE Tail(@)]
    IN  Place(Place(moved, l, Count(l) + 2), r, 1)

\* Mutant: the record between is not the one replaced.
NodeMoveRightOff(n, p) ==
    LET l == nodes[n].branches[p + 1]
        r == nodes[n].branches[p + 2]
        moved == [nodes EXCEPT
                    ![r].recs = <<Last(nodes[l].recs)>> \o @,
                    ![l].recs = Front(@),
                    ![r].branches = IF @ = <<>> THEN @ ELSE <<Last(nodes[l].branches)>> \o @,
                    ![l].branches = IF @ = <<>> THEN @ ELSE Front(@)]
    IN  Place(moved, r, 1)

NodeMoveRight(n, p) ==
    LET l == nodes[n].branches[p + 1]
        r == nodes[n].branches[p + 2]
        moved == [nodes EXCEPT
                    ![r].recs = <<nodes[n].recs[p + 1]>> \o @,
                    ![n].recs = [@ EXCEPT ![p + 1] = Last(nodes[l].recs)],
                    ![l].recs = Front(@),
                    ![r].branches = IF @ = <<>> THEN @ ELSE <<Last(nodes[l].branches)>> \o @,
                    ![l].branches = IF @ = <<>> THEN @ ELSE Front(@)]
    IN  Place(moved, r, 1)

\* node_combine, which fetches the records of the right branch from the
\* parent: 0 is what it finds behind those the parent has.
NodeCombine(n, p) ==
    LET l == nodes[n].branches[p + 1]
        r == nodes[n].branches[p + 2]
        copied == [i \in 1..Count(r) |-> IF i <= Count(n) THEN nodes[n].recs[i] ELSE 0]
        moved == [nodes EXCEPT
                    ![l].recs = Append(@, nodes[n].recs[p + 1]) \o copied,
                    ![l].branches = @ \o nodes[r].branches,
                    ![n].recs = RemoveAt(@, p + 1),
                    ![n].branches = RemoveAt(@, p + 2),
                    ![r] = Unused]
    IN  Place(Place(moved, l, Count(l) + 2), n, p + 2)

\* node_restore: what is done about the branch at p, and whether it is right.
NodeRestore(n, p) ==
    LET branches == nodes[n].branches
        lends(i) == i \in 0..Count(n) /\ Count(branches[i + 1]) > MinElements
        join == IF p = 0 THEN 0 ELSE p - 1
    IN  IF p > 0 /\ lends(p - 1) THEN [ns |-> NodeMoveRight(n, p - 1), right |-> TRUE]
        ELSE IF lends(p + 1) THEN [ns |-> NodeMoveLeft(n, p), right |-> TRUE]
        ELSE [ns |-> NodeCombine(n, join), right |-> Count(branches[join + 2]) = 0]

\* memtree_remove and memtree_remove_at.  The record of an inner node is
\* replaced by its successor, which is then freed.
RemoveKey(k) ==
    LET it == Deref(Find(k))
        n == it[1]
        next == BranchBegin(nodes[n].branches[it[2] + 2])[1]
    IN  /\ pc = "idle" /\ sound /\ Found(k)
        /\ held' = held \ {k}
        /\ IF nodes[n].depth = 0
           THEN /\ nodes' = [nodes EXCEPT ![n].recs = RemoveAt(@, it[2] + 1)]
                /\ at' = it /\ UNCHANGED sound
                /\ pc' = IF nodes[n].parent = NoNode THEN "idle" ELSE "restore"
           ELSE /\ nodes' = [nodes EXCEPT ![n].recs = [@ EXCEPT ![it[2] + 1] = Head(nodes[next].recs)],
                                          ![next].recs = Tail(@)]
                /\ at' = <<next, 0>> /\ sound' = FALSE
                /\ pc' = "restore"
        /\ UNCHANGED <<MaxElements, root, up>>

\* One turn of its loop, while a node has too few records.
Restore == /\ pc = "restore"
           /\ LET n == at[1]
                  parent == nodes[n].parent
                  r == NodeRestore(parent, nodes[n].pos)
              IN  /\ Count(n) < MinElements /\ parent # NoNode
                  /\ nodes' = r.ns /\ at' = <<parent, nodes[n].pos>>
                  /\ sound' = (sound /\ r.right)
           /\ UNCHANGED <<MaxElements, root, pc, up, held>>

\* Its end: a root without records gives way to its only branch.
Restored == /\ pc = "restore"
            /\ LET n == at[1]
                   only == nodes[n].branches[1]
               IN  /\ Count(n) >= MinElements \/ nodes[n].parent = NoNode
                   /\ IF Count(n) = 0
                      THEN nodes' = [nodes EXCEPT ![n] = Unused, ![only].parent = NoNode] /\ root' = only
                      ELSE UNCHANGED <<nodes, root>>
            /\ pc' = "idle" /\ at' = <<NoNode, 0>>
            /\ UNCHANGED <<MaxElements, up, held, sound>>

Next == \/ \E k \in Keys : Insert(k) \/ RemoveKey(k)
        \/ Split \/ InsertUp \/ NewRoot \/ Restore \/ Restored

Spec == Init /\ [][Next]_vars

-----------------------------------------------------------------------------
(* Properties: of the tree between calls *)

Quiet == pc = "idle" /\ sound

\* A walk over the tree gives the keys inserted, in order, each once, and a
\* search finds these keys and no other.
TreeHolds == Quiet => /\ ToSet(WalkForward) = held
                      /\ \A i \in 2..Len(WalkForward) : WalkForward[i - 1] < WalkForward[i]
                      /\ \A k \in Keys : Found(k) <=> k \in held

\* The tree is balanced, its nodes but the root are half full at least, each
\* knows its place in its parent, and none is leaked.
Shapely ==
    Quiet => /\ nodes[root].parent = NoNode
             /\ \A n \in Used : n # root =>
                    /\ nodes[n].parent \in Used
                    /\ nodes[nodes[n].parent].depth = nodes[n].depth + 1
                    /\ nodes[nodes[n].parent].branches[nodes[n].pos + 1] = n
                    /\ Count(n) \in MinElements..MaxElements
             /\ \A n \in Used :
                    /\ Count(n) <= MaxElements
                    /\ Len(nodes[n].branches) = (IF nodes[n].depth = 0 THEN 0 ELSE Count(n) + 1)

\* A cursor set on any key, there or not, goes by memtree_next over every key
\* from there on and by memtree_prev over every key before, in order.
CursorsVisitAll ==
    Quiet => \A k \in Keys :
        LET on[i \in 0..Cardinality(Keys)] == IF i = 0 THEN [it |-> Find(k), key |-> 0]
                                              ELSE NextOf(on[i - 1].it)
            back[i \in 0..Cardinality(Keys)] == IF i = 0 THEN [it |-> Find(k), key |-> 0]
                                                ELSE PrevOf(back[i - 1].it)
            above == {j \in held : j >= k}
            below == {j \in held : j < k}
        IN  /\ \A i \in 1..Cardinality(above) :
                  on[i].key = Min({j \in above : Cardinality({l \in above : l < j}) = i - 1})
            /\ NextOf(on[Cardinality(above)].it).key = 0
            /\ \A i \in 1..Cardinality(below) :
                  back[i].key = Max({j \in below : Cardinality({l \in below : l > j}) = i - 1})
            /\ PrevOf(back[Cardinality(below)].it).key = 0
=============================================================================
