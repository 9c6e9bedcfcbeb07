------------------------------- MODULE Repack ------------------------------
(***************************************************************************)
(* zsdb_repack on a directory to which a writer goes on adding finalised   *)
(* files, one action per system call that changes a name, and a zsdb_open  *)
(* that scans the directory meanwhile.  The active file and .zsdb are left *)
(* to modules Zeroskip and DotZsdb.  The one packer holds the pack lock    *)
(* from its first call to its death, which leaves the lock on disk.        *)
(***************************************************************************)
EXTENDS Packed

CONSTANTS MaxIdx,   \* bound: the highest index of a finalised file
          Batches,  \* what a finalised file may contain
          Lone,     \* TRUE: repack is also called with just one finalised file
          MayDie    \* TRUE: the packer may be killed

ASSUME MaxIdxAssumption == MaxIdx \in Nat
ASSUME BatchAssumption == Batches \subseteq [Keys -> Cell] \ {NoCells}
ASSUME FlagAssumption == Lone \in BOOLEAN /\ MayDie \in BOOLEAN

VARIABLES dir,     \* what each name <<startidx, endidx>> leads to
          top,     \* the files 0..top - 1 have been finalised so far
          said,    \* what these files said, the later over the earlier
          spoilt,  \* the keys a merge cannot be trusted with (see Contested)
          pc,      \* where the packer is
          job,     \* the names it packs and has not unlinked
          out,     \* the name it packs into
          ost,     \* where the opener is
          todo,    \* the names it has listed and not opened
          gone,    \* those which were gone when it came to stat them
          got,     \* the names it has opened
          asof     \* top when it listed the directory

packer == <<spoilt, pc, job, out>>
opener == <<ost, todo, gone, got, asof>>
vars == <<dir, top, said, packer, opener>>

Name == {n \in (0..MaxIdx) \X (0..MaxIdx) : n[1] <= n[2]}
File == [fmt : {"none", "torn", "log", "packed"}, m : [Keys -> Cell]]
NoFile == [fmt |-> "none", m |-> NoCells]
Torn == [fmt |-> "torn", m |-> NoCells]

\* interpret_db_filename: what a name is taken for.
KindOf(n) == IF n[1] = n[2] THEN "log" ELSE "packed"

Names == {n \in Name : dir[n] # NoFile}
Readable(n) == dir[n].fmt = KindOf(n)

\* The lists of a handle: dbfname_cmp puts the name with the highest numbers
\* first.
Newer == {ab \in Name \X Name : \/ ab[1][1] > ab[2][1]
                                \/ ab[1][1] = ab[2][1] /\ ab[1][2] > ab[2][2]}
NewestFirst(names) == Sorted(names, Newer)
Those(kind) == {n \in Names : KindOf(n) = kind}
fflist == NewestFirst(Those("log"))
pflist == NewestFirst(Those("packed"))

With(list, k) == {i \in 1..Len(list) : dir[list[i]].m[k] # Absent}

\* Mutant: the files are loaded newest first.
LoadBackwards(list) ==
    [k \in Keys |-> IF With(list, k) = {} THEN Absent ELSE dir[list[Max(With(list, k))]].m[k]]

\* The finalised files read into one tree, from the end of the list, the
\* oldest, to its head: of the records of a key the tree keeps the last read.
LoadFinalised(list) ==
    [k \in Keys |-> IF With(list, k) = {} THEN Absent ELSE dir[list[Min(With(list, k))]].m[k]]

\* What zsdb_fetch finds in a directory just opened.
View == LET packed == pflist
        IN  Overlay(LoadFinalised(fflist),
                    [k \in Keys |-> FetchPacked([i \in DOMAIN packed |-> dir[packed[i]].m], k)])

Init == /\ dir = [n \in Name |-> NoFile] /\ top = 0 /\ said = NoCells
        /\ spoilt = {} /\ pc = "idle" /\ job = <<>> /\ out = <<0, 0>>
        /\ ost = "idle" /\ todo = {} /\ gone = {} /\ got = {} /\ asof = 0

-----------------------------------------------------------------------------
(* The writer *)

\* zsdb_finalise, or zsdb_add on a full file.
Finalise(m) == /\ top <= MaxIdx
               /\ dir' = [dir EXCEPT ![<<top, top>>] = [fmt |-> "log", m |-> m]]
               /\ top' = top + 1
               /\ said' = Overlay(m, said)
               /\ UNCHANGED <<packer, opener>>

-----------------------------------------------------------------------------
(* The packer *)

\* Mutant: the range ends at the active file.
RangeOneMore(names) == <<Min({n[1] : n \in names}), Min({MaxIdx, Max({n[2] : n \in names}) + 1})>>

\* zs_find_index_range_for_files.
IndexRange(names) == <<Min({n[1] : n \in names}), Max({n[2] : n \in names})>>

\* The keys of which a merge does not keep the newest record: those on which
\* the files differ, and those it leaves out.
Contested(old, new) == {k \in Keys : Absent # old[k] /\ old[k] # new[k] /\ new[k] # Absent}
                       \cup LeftOut(old) \cup LeftOut(new)

\* zsdb_repack has reloaded the directory and packs what it found then;
\* nothing is written in this step.
Start(list) == /\ job' = list
               /\ out' = IndexRange(ToSet(list))
               /\ pc' = "create"
               /\ UNCHANGED <<dir, top, said, spoilt, opener>>

\* Finalised files first, all of them.
PackFinalised == /\ pc = "idle" /\ Those("log") # {}
                 /\ Lone \/ Cardinality(Those("log")) > 1
                 /\ Start(fflist)

\* Mutant: two packed files are left as they are.
PackThree == /\ pc = "idle" /\ Those("log") = {} /\ Cardinality(Those("packed")) > 2
             /\ Start(<<pflist[2], pflist[1]>>)

\* Else the first two of the list of packed files, the newest two.
PackPacked == /\ pc = "idle" /\ Those("log") = {} /\ Cardinality(Those("packed")) > 1
              /\ Start(<<pflist[2], pflist[1]>>)

\* mfile_open with MFILE_RW_CR, which does not truncate a file that is there.
Create == /\ pc = "create"
          /\ dir' = [dir EXCEPT ![out] = Torn]
          /\ pc' = "write"
          /\ UNCHANGED <<top, said, spoilt, job, out, opener>>

\* Mutant: the last commit record is not written.
WriteUncommitted == /\ pc = "write"
                    /\ pc' = "unlink"
                    /\ UNCHANGED <<dir, top, said, spoilt, job, out, opener>>

\* The records, the index and the two commits; without the last of these the
\* file does not open.  Packed files are merged by an iterator on handles
\* whose priorities are their places in the list.
Write == /\ pc = "write"
         /\ LET merging == KindOf(Head(job)) = "packed"
                old == dir[job[1]].m
                new == dir[job[2]].m
                body == IF merging THEN Merge(<<new, old>>) ELSE LoadFinalised(job)
            IN  /\ dir' = [dir EXCEPT ![out] = [fmt |-> "packed", m |-> body]]
                /\ spoilt' = IF merging THEN spoilt \cup Contested(old, new) ELSE spoilt
         /\ pc' = "unlink"
         /\ UNCHANGED <<top, said, job, out, opener>>

\* xunlink, in the order of the list.
Unlink == /\ pc = "unlink"
          /\ dir' = [dir EXCEPT ![Head(job)] = NoFile]
          /\ job' = Tail(job)
          /\ pc' = IF Len(job) > 1 THEN "unlink" ELSE "idle"
          /\ UNCHANGED <<top, said, spoilt, out, opener>>

Die == /\ MayDie /\ pc \notin {"idle", "dead"}
       /\ pc' = "dead"
       /\ UNCHANGED <<dir, top, said, spoilt, job, out, opener>>

Pack == PackFinalised \/ PackPacked \/ Create \/ Write \/ Unlink

-----------------------------------------------------------------------------
(* zsdb_open: process_files_in_dbdir *)

\* fts_read reads the whole directory first, and then stats each name.
List == /\ ost = "idle"
        /\ ost' = "stat" /\ todo' = Names /\ asof' = top
        /\ UNCHANGED <<dir, top, said, packer, gone, got>>

Stat == /\ ost = "stat"
        /\ ost' = "open" /\ gone' = todo \ Names
        /\ UNCHANGED <<dir, top, said, packer, todo, got, asof>>

\* Mutant: a file that cannot be opened is skipped.
OpenOrSkip(n) == /\ ost = "open" /\ n \in todo \ gone
                 /\ got' = IF Readable(n) THEN got \cup {n} ELSE got
                 /\ todo' = todo \ {n}
                 /\ UNCHANGED <<dir, top, said, packer, ost, gone, asof>>

\* The files come in the order of the directory, that is in any order.
OpenFile(n) == /\ ost = "open" /\ n \in todo \ gone
               /\ \/ Readable(n) /\ got' = got \cup {n} /\ UNCHANGED ost
                  \/ ~Readable(n) /\ ost' = "failed" /\ UNCHANGED got
               /\ todo' = todo \ {n}
               /\ UNCHANGED <<dir, top, said, packer, gone, asof>>

\* All is read, or a name that was gone ends the loop: its error is kept in
\* err, which is then set to ret.
Opened == /\ ost = "open"
          /\ (todo = {} \/ gone # {})
          /\ ost' = "ok"
          /\ UNCHANGED <<dir, top, said, packer, todo, gone, got, asof>>

Retry == /\ ost \in {"failed", "ok"}
         /\ ost' = "idle" /\ todo' = {} /\ gone' = {} /\ got' = {} /\ asof' = 0
         /\ UNCHANGED <<dir, top, said, packer>>

Open == List \/ Stat \/ Opened \/ Retry \/ \E n \in Name : OpenFile(n)

Next == \/ \E m \in Batches : Finalise(m)
        \/ Pack \/ Die
        \/ Open

\* The packer is called again and again, and its calls go on to their end.
Spec == Init /\ [][Next]_vars /\ WF_vars(Pack)

-----------------------------------------------------------------------------
(* Properties *)

\* At every step, and wherever the packer dies, each file ever finalised is
\* still there or is within the range of a packed file that opens: nothing is
\* unlinked before what replaces it can be read.
EveryFileCovered == \A i \in 0..(top - 1) :
                        \E n \in Names : Readable(n) /\ n[1] <= i /\ i <= n[2]

\* Between two calls of zsdb_repack a reader finds what was written, a key
\* whose last record deletes it being as good as absent - but for the keys
\* on which merged files disagreed or which a merge left out.
Shown(c) == IF c = Tomb THEN Absent ELSE c
RestKeepsView ==
    pc = "idle" => LET view == View
                   IN  \A k \in Keys \ spoilt : Shown(view[k]) = Shown(said[k])

\* The ranges in the names are disjoint when no call is under way, and during
\* one only its inputs lie within its output: the order of the names is the
\* order of their contents.
RangesApart == \A a, b \in Names : \/ a = b \/ a[2] < b[1] \/ b[2] < a[1]
                                   \/ pc # "idle" /\ out = a /\ a[1] <= b[1] /\ b[2] <= a[2]
                                   \/ pc # "idle" /\ out = b /\ b[1] <= a[1] /\ a[2] <= b[2]

\* A directory that is opened while it is packed is opened whole or not at
\* all - unless a name vanishes between the listing and its stat.
OpenedWhole == ost = "ok" /\ gone = {} =>
                  \A i \in 0..(asof - 1) : \E n \in got : n[1] <= i /\ i <= n[2]

\* Called often enough, zsdb_repack leaves one packed file and at most one
\* finalised file, or dies.
PackedDown == <>[](pc = "dead" \/ Cardinality(Those("log")) = 1
                              \/ (Those("log") = {} /\ Cardinality(Those("packed")) <= 1))
=============================================================================
