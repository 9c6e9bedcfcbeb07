------------------------------ MODULE Zeroskip ------------------------------
(***************************************************************************)
(* Handles of several processes on one database directory: the log files,  *)
(* .zsdb, the write lock and what each handle caches of them.  One action  *)
(* is one API call, run to its end; the steps inside the lock file and the *)
(* .zsdb protocols are the subject of FileLock and DotZsdb.                *)
(*                                                                         *)
(* A log file is named by its index; "-<index>" is added to the name when  *)
(* the file is finalised, which no open descriptor notices, so the index   *)
(* also stands for the inode.  An offset counts records; 0 is the offset   *)
(* just after the file header.  Packed files are not modelled here.        *)
(***************************************************************************)
EXTENDS Naturals, Sequences, Cells

CONSTANTS Handles,      \* struct zsdb's, one per process
          Free,         \* the write lock file does not exist
          Stale,        \* it was left behind by a process that died
          MaxIdx,       \* bound: the highest file index
          MaxLen,       \* bound: records in a file before a write is refused
          FinaliseLen,  \* the file size (TWOMB) at which add finalises
          Calls,        \* the optional calls the clients make
          Strict        \* TRUE: clients commit before they release the write
                        \* lock or close, and commit only under the lock

AllCalls == {"remove", "fetch", "finalise", "abort", "crash"}

ASSUME LockAssumption == Free \notin Handles /\ Stale \notin Handles /\ Free # Stale
ASSUME BoundAssumption == MaxIdx \in Nat /\ MaxLen \in Nat /\ FinaliseLen \in 1..MaxLen
ASSUME ClientAssumption == Calls \subseteq AllCalls /\ Strict \in BOOLEAN

VARIABLES file,   \* the log files: what their name says they are, and their records
          dot,    \* the contents of .zsdb: current index and committed offset
          wlock,  \* zsdbw.lock
          hs,     \* struct zsdb_priv of each handle
          fresh   \* the handles whose cached stat of .zsdb is the file's

vars == <<file, dot, wlock, hs, fresh>>

-----------------------------------------------------------------------------
(* Records and files *)

Idx == 0..MaxIdx

KeyRec(k, c) == [t |-> "key", k |-> k, c |-> c]    \* c = Tomb: a delete record
CommitRec == [t |-> "commit", k |-> CHOOSE k \in Keys : TRUE, c |-> Absent]
Hole == [CommitRec EXCEPT !.t = "hole"]            \* zero bytes
Rec == [t : {"key"}, k : Keys, c : Values \cup {Tomb}] \cup {CommitRec, Hole}

FileState == [st : {"none", "active", "final"}, recs : Seq(Rec)]
NoFile == [st |-> "none", recs |-> <<>>]
NewActive == [st |-> "active", recs |-> <<>>]

\* Mutant: what ftruncate adds is not cleared.
TruncateGarbage(recs, len) ==
    [n \in 1..len |-> IF n <= Len(recs) THEN recs[n] ELSE Absent]

\* ftruncate: shorter loses the tail, longer fills with zero bytes.
Truncate(recs, len) ==
    [n \in 1..len |-> IF n <= Len(recs) THEN recs[n] ELSE Hole]

\* mfile_write at the cached offset, which is also the cached size: the file
\* is first resized to end just after the record, whatever is in it by now.
WriteAt(recs, off, r) == Append(Truncate(recs, off), r)

HasRec(recs, k, n) == recs[n].t = "key" /\ recs[n].k = k
LastRec(recs, k, n) == /\ HasRec(recs, k, n)
                       /\ \A m \in DOMAIN recs : m > n => ~HasRec(recs, k, m)

\* A log replayed into a memtree: the last record of each key, be it followed
\* by a commit record or not.
Load(recs) ==
    [k \in Keys |-> IF \E n \in DOMAIN recs : LastRec(recs, k, n)
                    THEN recs[CHOOSE n \in DOMAIN recs : LastRec(recs, k, n)].c
                    ELSE Absent]

\* The finalised files, each replayed; a newer one hides the older ones.
FinalMaps(f) == [i \in Idx |-> IF f[i].st = "final" THEN Load(f[i].recs) ELSE NoCells]
NewestWith(maps, k, i) == /\ maps[i][k] # Absent
                          /\ \A j \in Idx : j > i => maps[j][k] = Absent

\* The finalised files replayed oldest first into one memtree.
LoadFinal(f) ==
    LET maps == FinalMaps(f) IN
    [k \in Keys |-> IF \E i \in Idx : NewestWith(maps, k, i)
                    THEN maps[CHOOSE i \in Idx : NewestWith(maps, k, i)][k]
                    ELSE Absent]

\* The reader makes no progress on a zero type byte.
HasHole(f) == \E i \in Idx : /\ f[i].st # "none"
                             /\ \E n \in DOMAIN f[i].recs : f[i].recs[n].t = "hole"

-----------------------------------------------------------------------------
(* Handles *)

\* open: usable; closing: zsdb_close has released its locks but not yet
\* closed the active file; broken: the active file is not open any more;
\* hung: replaying a log for ever; asserted: the process died in an assert.
Handle == [st : {"closed", "open", "closing", "broken", "hung", "asserted"},
           cur : Idx,        \* dotzsdb.curidx, and the file the descriptor is of
           offset : Nat,     \* dotzsdb.offset
           off : Nat,        \* mf->offset = mf->size
           dirty : BOOLEAN,  \* factive.dirty
           mem : [Keys -> Cell], fmem : [Keys -> Cell]]  \* memtree, fmemtree

ClosedHandle == [st |-> "closed", cur |-> 0, offset |-> 0, off |-> 0,
                 dirty |-> FALSE, mem |-> NoCells, fmem |-> NoCells]

\* Mutant: the descriptor is left at the start of the file.
ReopenedAtStart(H, f) ==
    [H EXCEPT !.off = 0, !.dirty = FALSE,
              !.mem = Load(f[H.cur].recs), !.fmem = LoadFinal(f)]

\* Mutant: the memtree is not emptied before the log is replayed into it.
ReopenedOnTop(H, f) ==
    [H EXCEPT !.off = Len(f[H.cur].recs), !.dirty = FALSE,
              !.mem = Overlay(Load(f[H.cur].recs), @), !.fmem = LoadFinal(f)]

\* H after it has opened the active file H.cur of f and replayed all logs of f.
Reopened(H, f) ==
    [H EXCEPT !.off = Len(f[H.cur].recs), !.dirty = FALSE,
              !.mem = Load(f[H.cur].recs), !.fmem = LoadFinal(f)]

\* The files after H's next write.
Written(f, H, r) == [f EXCEPT ![H.cur].recs = WriteAt(@, H.off, r)]

\* H after it has written a record of k.
Wrote(H, k, c) == [H EXCEPT !.off = @ + 1, !.dirty = TRUE, !.mem[k] = c]

\* The files after zs_active_file_close: an uncommitted log gets a commit.
ClosedFile(f, H) == IF H.dirty THEN Written(f, H, CommitRec) ELSE f

\* The only file with an active name must be the one .zsdb named to H.
FindsActive(f, H) == f[H.cur].st = "active"

(* zsdb_reload, when the stat of .zsdb differs.  The cached index is kept. *)
SyncedFile(h) == IF h \in fresh THEN file ELSE ClosedFile(file, hs[h])

\* Mutant: the new stat is noted, nothing is reloaded.
SyncedInName(h) == hs[h]

SyncedHandle(h) == IF h \in fresh THEN hs[h] ELSE Reopened(hs[h], SyncedFile(h))
Syncs(h) == \/ h \in fresh
            \/ FindsActive(SyncedFile(h), hs[h]) /\ ~HasHole(SyncedFile(h))

ReloadFails(h) ==
    /\ ~Syncs(h)
    /\ file' = SyncedFile(h)
    /\ fresh' = fresh \cup {h}
    /\ \/ /\ FindsActive(SyncedFile(h), hs[h])
          /\ hs' = [hs EXCEPT ![h].st = "hung"]
          /\ UNCHANGED wlock
       \/ /\ ~FindsActive(SyncedFile(h), hs[h])
          /\ hs' = [hs EXCEPT ![h].st = "broken", ![h].dirty = FALSE]
          /\ wlock' = Free
    /\ UNCHANGED dot

\* Mutant: the finalised file keeps its active name.
FinalisedUnrenamed(f, H) == [Written(f, H, CommitRec) EXCEPT ![H.cur + 1] = NewActive]

(* zs_active_file_finalise and zs_active_file_new *)
Finalised(f, H) == [Written(f, H, CommitRec) EXCEPT ![H.cur].st = "final",
                                                    ![H.cur + 1] = NewActive]

\* Mutants: the descriptor's offset, the committed offset or the records in
\* memory are not carried over as they should be.
NextActiveKeepsOff(H) == [H EXCEPT !.cur = @ + 1, !.offset = 0]
NextActiveKeepsOffset(H) == [H EXCEPT !.cur = @ + 1, !.off = 0]
NextActiveDropsMem(H) ==
    [H EXCEPT !.cur = @ + 1, !.offset = 0, !.off = 0, !.mem = NoCells]

NextActive(H) == [H EXCEPT !.cur = @ + 1, !.offset = 0, !.off = 0]

\* The rename finds no active file of that name: someone finalised it before.
\* The descriptor has been closed by then.
RenameFails(h, f, H) ==
    /\ ~FindsActive(f, H)
    /\ file' = Written(f, H, CommitRec)
    /\ hs' = [hs EXCEPT ![h] = [H EXCEPT !.st = "broken"]]
    /\ fresh' = fresh \cup {h}
    /\ UNCHANGED <<dot, wlock>>

DotOf(H) == [cur |-> H.cur, offset |-> H.offset]
IsOpen(h) == hs[h].st = "open"
Holds(h) == IsOpen(h) /\ wlock = h
Disciplined(h) == Strict => ~hs[h].dirty

-----------------------------------------------------------------------------
(* The calls *)

\* zsdb_create: an empty active file 0 that .zsdb names; nobody has it open.
Init == /\ file = [i \in Idx |-> IF i = 0 THEN NewActive ELSE NoFile]
        /\ dot = [cur |-> 0, offset |-> 0]
        /\ wlock = Free
        /\ hs = [h \in Handles |-> ClosedHandle]
        /\ fresh = {}

\* zsdb_open of an existing directory; when it fails the handle stays closed.
Open(h) ==
    /\ hs[h].st = "closed"
    /\ LET H == [ClosedHandle EXCEPT !.cur = dot.cur, !.offset = dot.offset] IN
       /\ FindsActive(file, H)
       /\ hs' = [hs EXCEPT ![h] = IF HasHole(file)
                                  THEN [H EXCEPT !.st = "hung"]
                                  ELSE [Reopened(H, file) EXCEPT !.st = "open"]]
    /\ fresh' = fresh \cup {h}
    /\ UNCHANGED <<file, dot, wlock>>

\* zsdb_write_lock_acquire by a handle that does not hold the lock.
Acquire(h) == /\ IsOpen(h)
              /\ wlock = Free
              /\ wlock' = h
              /\ UNCHANGED <<file, dot, hs, fresh>>

Release(h) == /\ Holds(h)
              /\ Disciplined(h)
              /\ wlock' = Free
              /\ UNCHANGED <<file, dot, hs, fresh>>

AddHere(h, k, v) ==
    LET f == SyncedFile(h)  H == SyncedHandle(h) IN
    /\ H.off < FinaliseLen
    /\ file' = Written(f, H, KeyRec(k, v))
    /\ hs' = [hs EXCEPT ![h] = Wrote(H, k, v)]
    /\ fresh' = fresh \cup {h}
    /\ UNCHANGED <<dot, wlock>>

\* The active file is full: it is finalised, with what is in it of the
\* current transaction, and the record goes to the next one.
AddToNext(h, k, v) ==
    LET f == SyncedFile(h)  H == SyncedHandle(h)  N == NextActive(H) IN
    /\ H.off >= FinaliseLen
    /\ \/ RenameFails(h, f, H)
       \/ /\ FindsActive(f, H)
          /\ H.cur < MaxIdx
          /\ file' = Written(Finalised(f, H), N, KeyRec(k, v))
          /\ hs' = [hs EXCEPT ![h] = Wrote(N, k, v)]
          /\ dot' = DotOf(N)
          /\ fresh' = {h}
          /\ UNCHANGED wlock

Add(h, k, v) == /\ Holds(h)
                /\ \/ ReloadFails(h)
                   \/ Syncs(h) /\ (AddHere(h, k, v) \/ AddToNext(h, k, v))

\* zsdb_remove does not look at .zsdb.
Remove(h, k) == /\ "remove" \in Calls
                /\ Holds(h)
                /\ hs[h].off < MaxLen
                /\ file' = Written(file, hs[h], KeyRec(k, Tomb))
                /\ hs' = [hs EXCEPT ![h] = Wrote(@, k, Tomb)]
                /\ UNCHANGED <<dot, wlock, fresh>>

\* zsdb_commit looks neither at the lock nor at .zsdb, which it overwrites.
Commit(h) ==
    LET H == [hs[h] EXCEPT !.off = @ + 1, !.offset = hs[h].off + 1, !.dirty = FALSE] IN
    /\ IsOpen(h)
    /\ Strict => wlock = h
    /\ hs[h].dirty
    /\ file' = Written(file, hs[h], CommitRec)
    /\ hs' = [hs EXCEPT ![h] = H]
    /\ dot' = DotOf(H)
    /\ fresh' = {h}
    /\ UNCHANGED wlock

\* After a rename that failed is_open is still set: nothing can be written, and
\* the offset is that of no file, but .zsdb is overwritten, as often as it is called.
CommitBroken(h) ==
    LET H == [hs[h] EXCEPT !.offset = 0] IN
    /\ hs[h].st = "broken"
    /\ Strict => wlock = h
    /\ hs[h].dirty
    /\ hs' = [hs EXCEPT ![h] = H]
    /\ dot' = DotOf(H)
    /\ fresh' = {h}
    /\ UNCHANGED <<file, wlock>>

\* zsdb_fetch notes the new stat of .zsdb, and does nothing about it.
Fetch(h) == /\ "fetch" \in Calls
            /\ IsOpen(h)
            /\ fresh' = fresh \cup {h}
            /\ UNCHANGED <<file, dot, wlock, hs>>

\* What zsdb_fetch returns for k: a deleted record of the active memtree is
\* passed over; one of the finalised memtree is found, with an empty value.
FetchOf(H, k) == IF H.mem[k] \in Values THEN H.mem[k] ELSE H.fmem[k]

\* zsdb_abort cuts the log first, and takes the lock (assert) to reload.
Abort(h) ==
    LET H == [hs[h] EXCEPT !.dirty = FALSE]
        f == [file EXCEPT ![H.cur].recs = Truncate(@, H.offset)]
    IN
    /\ "abort" \in Calls
    /\ IsOpen(h)
    /\ file' = f
    /\ \/ /\ wlock # Free
          /\ hs' = [hs EXCEPT ![h] = [ClosedHandle EXCEPT !.st = "asserted"]]
          /\ wlock' = IF wlock = h THEN Stale ELSE wlock
       \/ /\ wlock = Free /\ FindsActive(f, H) /\ ~HasHole(f)
          /\ hs' = [hs EXCEPT ![h] = Reopened(H, f)]
          /\ UNCHANGED wlock
       \/ /\ wlock = Free /\ FindsActive(f, H) /\ HasHole(f)
          /\ hs' = [hs EXCEPT ![h] = [H EXCEPT !.st = "hung"]]
          /\ wlock' = h
       \/ /\ wlock = Free /\ ~FindsActive(f, H)
          /\ hs' = [hs EXCEPT ![h] = [H EXCEPT !.st = "broken"]]
          /\ UNCHANGED wlock
    /\ UNCHANGED <<dot, fresh>>

FinaliseNow(h) ==
    LET f == SyncedFile(h)  H == SyncedHandle(h) IN
    \/ RenameFails(h, f, H)
    \/ /\ FindsActive(f, H)
       /\ H.cur < MaxIdx
       /\ file' = Finalised(f, H)
       /\ hs' = [hs EXCEPT ![h] = NextActive(H)]
       /\ dot' = DotOf(NextActive(H))
       /\ fresh' = {h}
       /\ UNCHANGED wlock

Finalise(h) == /\ "finalise" \in Calls
               /\ Holds(h)
               /\ ReloadFails(h) \/ (Syncs(h) /\ FinaliseNow(h))

\* zsdb_close: the locks go first, then the active file is closed.
CloseRelease(h) ==
    /\ hs[h].st \in {"open", "broken"}
    /\ Disciplined(h)
    /\ wlock' = IF wlock = h THEN Free ELSE wlock
    /\ IF IsOpen(h) /\ hs[h].dirty
       THEN hs' = [hs EXCEPT ![h].st = "closing"] /\ UNCHANGED fresh
       ELSE hs' = [hs EXCEPT ![h] = ClosedHandle] /\ fresh' = fresh \ {h}
    /\ UNCHANGED <<file, dot>>

CloseCommit(h) == /\ hs[h].st = "closing"
                  /\ file' = ClosedFile(file, hs[h])
                  /\ hs' = [hs EXCEPT ![h] = ClosedHandle]
                  /\ fresh' = fresh \ {h}
                  /\ UNCHANGED <<dot, wlock>>

\* The process dies between two calls: its writes are in the page cache, its
\* lock file stays.
Crash(h) == /\ "crash" \in Calls
            /\ hs[h].st # "closed"
            /\ wlock' = IF wlock = h THEN Stale ELSE wlock
            /\ hs' = [hs EXCEPT ![h] = ClosedHandle]
            /\ fresh' = fresh \ {h}
            /\ UNCHANGED <<file, dot>>

Step(h) == \/ Open(h) \/ Acquire(h) \/ Release(h)
           \/ \E k \in Keys, v \in Values : Add(h, k, v)
           \/ \E k \in Keys : Remove(h, k)
           \/ Commit(h) \/ CommitBroken(h) \/ Fetch(h) \/ Abort(h) \/ Finalise(h)
           \/ CloseRelease(h) \/ CloseCommit(h) \/ Crash(h)

Next == \E h \in Handles : Step(h)
Spec == Init /\ [][Next]_vars

-----------------------------------------------------------------------------
(* Properties *)

TypeOK == /\ file \in [Idx -> FileState]
          /\ dot \in [cur : Idx, offset : Nat]
          /\ wlock \in Handles \cup {Free, Stale}
          /\ hs \in [Handles -> Handle]
          /\ fresh \subseteq Handles

\* "There is only one 'active' file at any point in time", .zsdb names it, and
\* the files below it are finalised: what zsdb_open needs to find.
DirShape ==
    \A i \in Idx : file[i].st = IF i < dot.cur THEN "final"
                                ELSE IF i = dot.cur THEN "active" ELSE "none"

\* However the handles misuse each other, there is one active file above all the
\* finalised ones; .zsdb may fall behind it, but never names a file to come.
OneActiveFile ==
    \E top \in Idx :
        /\ dot.cur <= top
        /\ \A i \in Idx : file[i].st = IF i < top THEN "final"
                                       ELSE IF i = top THEN "active" ELSE "none"

\* A writer whose .zsdb has not changed appends: its offset is the end of the
\* active file, though nothing but the stat of another file tells it so.
WriterAppends ==
    \A h \in fresh : Holds(h) => /\ hs[h].cur = dot.cur
                                 /\ hs[h].off = Len(file[dot.cur].recs)

\* The records of file i that a commit or a finalisation has acknowledged.
Acked(i) == IF file[i].st = "final" THEN file[i].recs
            ELSE IF i = dot.cur THEN Truncate(file[i].recs, dot.offset) ELSE <<>>

\* The database is append-only: no call of any handle changes or drops an
\* acknowledged record.
AckedOnlyGrows ==
    [][\A i \in Idx : \A n \in DOMAIN Acked(i) :
            n \in DOMAIN Acked(i)' /\ Acked(i)'[n] = Acked(i)[n]]_vars

\* What a process that opened the directory now would hold in memory.
DiskView == Overlay(Load(file[dot.cur].recs), LoadFinal(file))
View(H) == Overlay(H.mem, H.fmem)

\* The memtrees of a handle that has no change of .zsdb to notice agree with a
\* replay of the directory, although in the process that finalises neither
\* memtree is rebuilt.  Records of another handle's transaction, or of one a
\* dead process left behind, may be missing.
MemoryIsDisk ==
    \A h \in fresh :
        /\ IsOpen(h)
        /\ wlock # Stale
        /\ \A g \in Handles \ {h} : ~hs[g].dirty
        => View(hs[h]) = DiskView

\* How a handle that is alone on the directory can fail: not by the loss of its
\* active file nor in a replay, whatever it calls; only by the assertion of an
\* abort while the write lock is held (its own, or a dead process's), which
\* leaves the log cut to what .zsdb acknowledges, and the lock for good.
SoleHandleFailures ==
    \A h \in Handles :
        /\ hs[h].st \notin {"broken", "hung"}
        /\ hs[h].st = "asserted" => /\ wlock = Stale
                                   /\ Len(file[dot.cur].recs) = dot.offset

\* The directory implements the store: CommittedView is what .zsdb and the
\* finalised files acknowledge, PendingView what follows in the active file.
CommittedView ==
    Overlay(Load(Truncate(file[dot.cur].recs, dot.offset)), LoadFinal(file))
PendingView ==
    Load(SubSeq(file[dot.cur].recs, dot.offset + 1, Len(file[dot.cur].recs)))
KV == INSTANCE KVStore WITH committed <- CommittedView, pending <- PendingView
ImplementsKVStore == KV!Spec
============================================================================
