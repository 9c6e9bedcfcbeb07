------------------------------ MODULE Iterator -----------------------------
(***************************************************************************)
(* The iterator behind zsdb_foreach, zsdb_fetchnext, zsdb_forone and the   *)
(* merge of packed files: one cursor a source, a table from the keys the   *)
(* cursors wait at to the cursors, and a heap of these keys.  zsdb_foreach *)
(* starts a new iterator when the handle has written since its last commit *)
(* (dbdirty), be it before the call or in a callback.                      *)
(*                                                                         *)
(* A source is named by its priority.  The trees of the active and the     *)
(* finalised files are taken to be small enough for one node (see Memtree).*)
(***************************************************************************)
EXTENDS Packed, PQueue

CONSTANTS NPacked,    \* the number of packed files
          Sources,    \* what the packed files and the two trees may contain
          MaxWrites   \* bound: the writes by callbacks

Source == 1..(NPacked + 2)
PackedSrc == 1..NPacked       \* in the order of pflist, so 1 is the newest
Fin == NPacked + 1            \* the tree of the finalised files
Act == NPacked + 2            \* the tree of the active file

ASSUME NPackedAssumption == NPacked \in Nat /\ NPacked >= 2
ASSUME KeysPositive == 0 \notin Keys
ASSUME SourcesAssumption == Sources \subseteq [Source -> [Keys -> Cell]]
ASSUME MaxWritesAssumption == MaxWrites \in Nat

VARIABLES src,      \* the contents of the sources
          empty,    \* the packed files, and Fin, that are there without a record:
                    \* those of an active file finalised before any write
          op,       \* "none", "scan", "from", "next", "one", "merge"
          start,    \* the key the caller starts at, 0 for the beginning
          at,       \* the key the iterator, perhaps a later one, starts at
          upto,     \* zsdb_foreach: the last key that has the prefix
          pc,       \* "idle", "add", "get", "got", "move", "more", "end", "crashed"
          skip,     \* the next record obtained is not for the caller
          setup,    \* the sources still to be given a cursor
          adv,      \* the cursor zsdb_iter_data_next is to move, or 0
          cur,      \* the cursor zs_iterator_get has returned, or 0
          pos,      \* of each cursor: its key, 0 when it has none or is done
          deleted,  \* of each cursor: its flag "deleted"
          ht,       \* the table: for each key its cursor, or 0
          pq,       \* the heap
          out,      \* what the caller was given: keys with their sources
          touched,  \* the keys written by callbacks
          dbdirty   \* of the handle; a callback that writes sets it, a restart clears it

cursors == <<adv, pos, deleted, ht, pq>>
caller == <<empty, op, start, upto>>
written == <<touched, dbdirty>>
control == <<caller, at, pc, skip, setup, cur>>
vars == <<src, control, cursors, out, written>>

NoCursors == [c \in Source |-> 0]
Recs(c) == Records(src[c])
After(c, k) == {j \in Recs(c) : j > k}
From(c, k) == {j \in Recs(c) : j >= k}

Init == /\ src \in Sources
        /\ empty \in SUBSET {c \in PackedSrc \cup {Fin} : Recs(c) = {}}
        /\ op = "none" /\ start = 0 /\ at = 0 /\ upto = 0 /\ pc = "idle" /\ skip = FALSE
        /\ setup = <<>> /\ adv = 0 /\ cur = 0
        /\ pos = NoCursors /\ deleted = [c \in Source |-> FALSE]
        /\ ht = [k \in Keys |-> 0] /\ pq = <<>>
        /\ out = <<>> /\ touched = {} /\ dbdirty \in BOOLEAN

-----------------------------------------------------------------------------
(* The cursors *)

\* Mutant: an equal or lower priority takes the key over.
ProcessAny(c, k) ==
    /\ pos' = [pos EXCEPT ![c] = k]
    /\ ht' = [ht EXCEPT ![k] = c]
    /\ adv' = ht[k]
    /\ pq' = IF ht[k] = 0 THEN Put(pq, k) ELSE pq

\* zsdb_iter_data_process: c has come to k.  Of two cursors at a key the one
\* with the higher priority stays and the other is moved on.  Entries never
\* leave the table: iter_htable_remove looks for the empty key.
Process(c, k) ==
    /\ pos' = [pos EXCEPT ![c] = k]
    /\ ht' = [ht EXCEPT ![k] = IF c > @ THEN c ELSE @]
    /\ adv' = IF c > ht[k] THEN ht[k] ELSE c
    /\ pq' = IF ht[k] = 0 THEN Put(pq, k) ELSE pq

\* zsdb_iter_data_next.  The flag is set to what the record says in a tree;
\* in a packed file it is set by a tombstone, and never reset.
Advance ==
    /\ adv # 0
    /\ LET later == After(adv, pos[adv])
           k == Min(later)
       IN  IF later = {} THEN /\ pos' = [pos EXCEPT ![adv] = 0]
                              /\ adv' = 0
                              /\ UNCHANGED <<deleted, ht, pq>>
           ELSE /\ deleted' = [deleted EXCEPT ![adv] =
                                  (adv \in PackedSrc /\ @) \/ src[adv][k] = Tomb]
                /\ Process(adv, k)
    /\ UNCHANGED <<src, control, out, written>>

-----------------------------------------------------------------------------
(* The beginning: zs_iterator_begin, _begin_at_key, _begin_for_packed_files *)

\* Mutant: nobody asks whether a tree or a file has any records.
AllEvenEmpty(s) == [c \in Source |-> c]

\* The sources in the order they get their cursors: every packed file, the
\* finalised tree when there are finalised files, and the active tree when it
\* has records.
ByPriority == {cd \in Source \X Source : cd[1] < cd[2]}
AllSources(s) == Sorted({c \in Source : Records(s[c]) # {} \/ c \in empty}, ByPriority)

Begin(o, s, u, list) ==
    /\ pc = "idle"
    /\ op' = o /\ start' = s /\ at' = s /\ upto' = u /\ pc' = "add" /\ setup' = list
    /\ UNCHANGED <<src, empty, skip, cur, cursors, out, written>>

MaxKey == Max(Keys)
Scan == Begin("scan", 0, MaxKey, AllSources(src))
FromKey == \E s \in Keys : \E u \in {k \in Keys : k >= s} : Begin("from", s, u, AllSources(src))
FetchNext == \E s \in Keys : Begin("next", s, MaxKey, AllSources(src))
ForOne == \E s \in Keys : Begin("one", s, s, AllSources(src))
MergeTwo == /\ {1, 2} \subseteq ToSet(AllSources(src))   \* the two newest, by repack
            /\ Begin("merge", 0, MaxKey, <<2, 1>>)

\* Is the record there when the iterator is set on key?
Found(key) == \E c \in Source : key \in Recs(c)

\* Only zs_iterator_begin looks whether the first record is a tombstone.
Add == /\ pc = "add" /\ adv = 0 /\ setup # <<>>
       /\ LET c == Head(setup)
              k == Min(From(c, at))
          IN  /\ From(c, at) # {}
              /\ deleted' = [deleted EXCEPT ![c] = at = 0 /\ op = "scan" /\ src[c][k] = Tomb]
              /\ Process(c, k)
       /\ setup' = Tail(setup)
       /\ UNCHANGED <<src, caller, at, pc, skip, cur, out, written>>

\* No key from at on in a tree: if it is empty, or if memtree_find, which has
\* read the record behind the last one, has found it NULL, it gets no cursor.
AddNone == /\ pc = "add" /\ adv = 0 /\ setup # <<>> /\ at # 0
           /\ Head(setup) \notin PackedSrc /\ From(Head(setup), at) = {}
           /\ setup' = Tail(setup)
           /\ UNCHANGED <<src, caller, at, pc, skip, cur, cursors, out, written>>

\* If it is not NULL it is used as a record; in a packed file the offset behind
\* the last one is used; and zs_iterator_begin uses the first record of the
\* finalised tree without a test whether there is one.
AddCrash == /\ pc = "add" /\ adv = 0 /\ setup # <<>>
            /\ From(Head(setup), at) = {}
            /\ Head(setup) \in PackedSrc \/ at = 0 \/ Recs(Head(setup)) # {}
            /\ pc' = "crashed"
            /\ UNCHANGED <<src, caller, at, skip, setup, cur, cursors, out, written>>

\* zsdb_fetchnext passes over the key it was given; zsdb_forone needs it.
Added == /\ pc = "add" /\ adv = 0 /\ setup = <<>>
         /\ pc' = IF op = "one" /\ ~Found(start) THEN "end" ELSE "get"
         /\ skip' = (skip \/ (op = "next" /\ Found(start)))
         /\ UNCHANGED <<src, caller, at, setup, cur, cursors, out, written>>

-----------------------------------------------------------------------------
(* The loops of the callers *)

Goto(l) == /\ pc' = l
           /\ UNCHANGED <<src, caller, at, setup, cursors, written>>

\* Mutant: zsdb_foreach goes on after NULL.
GetNullAgain == /\ pc = "get" /\ pq = <<>>
                /\ Goto(IF op = "next" THEN "crashed" ELSE "get")
                /\ UNCHANGED <<skip, cur, out>>

\* zs_iterator_get.  zsdb_foreach ends on NULL, zsdb_fetchnext uses it.
GetNull == /\ pc = "get" /\ pq = <<>>
           /\ Goto(IF op = "next" THEN "crashed" ELSE "end")
           /\ UNCHANGED <<skip, cur, out>>

GetKey == /\ pc = "get" /\ pq # <<>>
          /\ cur' = ht[Head(pq)]
          /\ pq' = Get(pq)
          /\ pc' = "got"
          /\ UNCHANGED <<src, caller, at, skip, setup, adv, pos, deleted, ht, out, written>>

PassOver == /\ pc = "got"
            /\ skip \/ (op \in {"scan", "from", "merge"} /\ deleted[cur])
            /\ skip' = FALSE
            /\ Goto("move")
            /\ UNCHANGED <<cur, out>>

Given == ~skip /\ (op \in {"next", "one"} \/ ~deleted[cur])

PrefixEnds == /\ pc = "got" /\ Given /\ pos[cur] > upto
              /\ Goto("end")
              /\ UNCHANGED <<skip, cur, out>>

\* The callback of zsdb_foreach or zsdb_forone, the result of zsdb_fetchnext,
\* the record written to the merged file.
Report == /\ pc = "got" /\ Given /\ pos[cur] <= upto
          /\ ~(dbdirty /\ op \in {"scan", "from"})
          /\ out' = Append(out, <<pos[cur], cur>>)
          /\ Goto(IF op \in {"next", "one"} THEN "end" ELSE "move")
          /\ UNCHANGED <<skip, cur>>

\* zs_iterator_end, and a new iterator set on k; it obtains k again, and the
\* loop passes it over.
Restart(k) == /\ out' = Append(out, <<pos[cur], cur>>)
              /\ at' = k /\ skip' = TRUE
              /\ setup' = AllSources(src') /\ pc' = "add"
              /\ pos' = NoCursors /\ ht' = [j \in Keys |-> 0] /\ pq' = <<>> /\ cur' = 0
              /\ dbdirty' = FALSE
              /\ UNCHANGED <<caller, adv, deleted>>

\* The handle had written before zsdb_foreach was called.
ReportDirty == /\ pc = "got" /\ Given /\ pos[cur] <= upto
               /\ op \in {"scan", "from"} /\ dbdirty
               /\ UNCHANGED <<src, touched>>
               /\ Restart(pos[cur])

\* Mutant: the new iterator is set behind the key and passes over one more.
ReportAndWriteBehind(k, c) ==
    /\ pc = "got" /\ Given /\ pos[cur] <= upto
    /\ op \in {"scan", "from"} /\ Cardinality(touched) < MaxWrites
    /\ src' = [src EXCEPT ![Act][k] = c]
    /\ touched' = touched \cup {k}
    /\ Restart(pos[cur] + 1)

\* The callback adds or removes a key, which sets dbdirty.
ReportAndWrite(k, c) ==
    /\ pc = "got" /\ Given /\ pos[cur] <= upto
    /\ op \in {"scan", "from"} /\ Cardinality(touched) < MaxWrites
    /\ src' = [src EXCEPT ![Act][k] = c]
    /\ touched' = touched \cup {k}
    /\ Restart(pos[cur])

\* zs_iterator_next.
Move == /\ pc = "move"
        /\ adv' = cur /\ cur' = 0 /\ pc' = "more"
        /\ UNCHANGED <<src, caller, at, skip, setup, pos, deleted, ht, pq, out, written>>

More == /\ pc = "more" /\ adv = 0
        /\ Goto(IF pq = <<>> THEN "end" ELSE "get")
        /\ UNCHANGED <<skip, cur, out>>

Next == \/ Scan \/ FromKey \/ FetchNext \/ ForOne \/ MergeTwo
        \/ Add \/ AddNone \/ AddCrash \/ Added \/ Advance
        \/ GetNull \/ GetKey \/ PassOver \/ PrefixEnds \/ Report \/ ReportDirty \/ Move \/ More
        \/ \E k \in Keys, c \in Values \cup {Tomb} : ReportAndWrite(k, c)

\* The caller's thread runs.
Spec == Init /\ [][Next]_vars /\ WF_vars(Next)

-----------------------------------------------------------------------------
(* Properties *)

\* No cursor is lost and none waits twice: when no cursor is on the move, the
\* heap is ordered and holds exactly the keys the cursors wait at, each once,
\* and the table leads from each of these keys to its cursor.
Waiting == {c \in Source : pos[c] # 0 /\ c # cur}
CursorsQueued ==
    adv = 0 /\ pc \in {"add", "get", "got", "more"} =>
        /\ \A i \in 2..Len(pq) : pq[i \div 2] < pq[i]
        /\ Cardinality(ToSet(pq)) = Len(pq)
        /\ ToSet(pq) = {pos[c] : c \in Waiting}
        /\ \A c \in Waiting : ht[pos[c]] = c

\* The source that counts for k: the highest priority that has a record.
Winner(k) == Max({c \in Source : k \in Recs(c)} \cup {0})

\* The keys whose record in c is not given to the caller of a full scan.
Hidden(c) == IF c \in PackedSrc THEN {k \in Recs(c) : \E t \in Recs(c) : t <= k /\ src[c][t] = Tomb}
             ELSE {k \in Recs(c) : src[c][k] = Tomb}

\* A caller is given each key at most once and in order.
Ascending == \A i \in 2..Len(out) : out[i - 1][1] < out[i][1]

\* A scan gives each key that some source holds once, in order, with the
\* record of the highest priority, unless that source hides it; and the
\* iterator of zsdb_repack gives what Packed says a merge writes.  A scan that
\* was restarted (at # 0) may give more, since the flag of a cursor that starts
\* behind a tombstone is not set.
IterationIsMerge ==
    pc = "end" /\ op \in {"scan", "merge"} /\ at = 0 =>
        /\ Ascending
        /\ ToSet(out) =
              IF op = "scan"
              THEN {<<k, Winner(k)>> : k \in {k \in Keys : Winner(k) # 0 /\ k \notin Hidden(Winner(k))}}
              ELSE {<<k, IF src[2][k] # Absent THEN 2 ELSE 1>> :
                       k \in {k \in Keys : Merge(<<src[1], src[2]>>)[k] # Absent}}

\* A restart does not make zsdb_foreach repeat or miss a key: each key in its
\* range which no callback wrote, and which counts as there all along,
\* has been reported with its record.
WritesMissNothing ==
    pc = "end" /\ op \in {"scan", "from"} =>
        /\ Ascending
        /\ \A k \in Keys \ touched :
            (start <= k /\ k <= upto /\ Winner(k) # 0 /\ k \notin Hidden(Winner(k)))
               => <<k, Winner(k)>> \in ToSet(out)

\* What crashes: zsdb_fetchnext when there is no next key; to set an iterator
\* on a key beyond the end of a packed file or of a tree; and a file that was
\* finalised without a record.  Where there is no such file, a merge and a scan
\* that is not restarted do not crash.
CrashPastEnd ==
    pc = "crashed" =>
        /\ \/ op = "next"
           \/ \E c \in Source : Recs(c) # {} /\ From(c, at) = {}
           \/ \E c \in empty : c \in PackedSrc \/ at = 0
        /\ at = 0 => empty # {}

\* zsdb_fetch finds a key in the packed files wherever it stands in them, and
\* the newest record first, if each of them has a first record to look at.
FetchFindsNewest ==
    pc = "idle" /\ empty \cap PackedSrc = {} =>
        \A k \in Keys :
            LET pflist == Sorted({c \in PackedSrc : Recs(c) # {}}, ByPriority)
                with == {c \in PackedSrc : k \in Recs(c)}
            IN  FetchPacked([i \in DOMAIN pflist |-> src[pflist[i]]], k) =
                   IF with = {} THEN Absent ELSE src[Min(with)][k]

\* Every iteration ends, though callbacks write.
Ends == <>(pc \in {"end", "crashed"})
=============================================================================
