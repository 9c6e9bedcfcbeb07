------------------------------ MODULE DotZsdb ------------------------------
(***************************************************************************)
(* How .zsdb is replaced and read: zs_dotzsdb_update_begin and _end around *)
(* the callers that change it (commit, finalise, repack), and zsdb_open    *)
(* with zs_dotzsdb_validate, one action per system call.  A writer opens   *)
(* without a lock, and looks at the stat of .zsdb again when it has got    *)
(* the write lock and adds.  The packer has the pack lock; the two kinds   *)
(* meet only in ".zsdb.lock", whose acquisition nobody checks.             *)
(*                                                                         *)
(* A log file is as long as the commits in it: what a writer adds, it      *)
(* commits before it releases the lock, and it calls no fetch or abort     *)
(* meanwhile (Zeroskip shows what happens otherwise).                      *)
(***************************************************************************)
EXTENDS Naturals

CONSTANTS Writers, Packers,  \* the processes, by what they do
          None,        \* no process, no file
          MaxIdx,      \* bound: the highest index of a log file
          MaxOff,      \* bound: the commits in one log file
          MaxIno,      \* bound: the inodes that .zsdb and its lock file use up
          MayDie       \* TRUE: processes may be killed

Procs == Writers \cup Packers
Ino == 0..MaxIno

ASSUME BoundAssumption == MaxIdx \in Nat /\ MaxOff \in Nat /\ MaxIno \in Nat
ASSUME NoneAssumption == None \notin Procs \cup Ino \cup 0..MaxIdx
ASSUME RolesAssumption == Writers \cap Packers = {}
ASSUME DieAssumption == MayDie \in BOOLEAN

VARIABLES zsdb,    \* the inode named .zsdb
          lockf,   \* the inode named .zsdb.lock, or None
          data,    \* what each inode contains
          used,    \* the inodes used so far are 0..used - 1
          wl,      \* who holds the write lock
          pl,      \* who holds the pack lock
          top,     \* the index of the newest log file with an active name
          exists,  \* that file exists: it has not just been renamed
          end,     \* how long each log file is
          pc, lk,  \* of each process: where it is, and the inode its descriptor
                   \* of .zsdb or .zsdb.lock leads to
          cached,  \* priv->dotzsdb
          pos,     \* the offset of its active file, where it appends
          new,     \* what its caller asked to be written
          seen     \* the inode in priv->dotzsdb_st

vars == <<zsdb, lockf, data, used, wl, pl, top, exists, end, pc, lk, cached, pos, new, seen>>
disk == <<zsdb, lockf, data, used>>
logs == <<top, exists, end>>
locks == <<wl, pl>>

Dot == [idx : 0..MaxIdx, off : 0..MaxOff]
Dot0 == [idx |-> 0, off |-> 0]
Empty == [idx |-> None, off |-> None]     \* a file shorter than DOTZSDB_SIZE

Init == /\ zsdb = 0 /\ lockf = None /\ used = 1
        /\ data = [i \in Ino |-> IF i = 0 THEN Dot0 ELSE Empty]
        /\ wl = None /\ pl = None
        /\ top = 0 /\ exists = TRUE /\ end = [i \in 0..MaxIdx |-> 0]
        /\ pc = [p \in Procs |-> "idle"]
        /\ lk = [p \in Procs |-> None]
        /\ cached = [p \in Procs |-> Dot0]
        /\ pos = [p \in Procs |-> 0]
        /\ new = [p \in Procs |-> Dot0]
        /\ seen = [p \in Procs |-> 0]

Goto(p, l) == pc' = [pc EXCEPT ![p] = l]
Openable == data[zsdb] # Empty /\ exists /\ data[zsdb].idx = top

-----------------------------------------------------------------------------
(* zsdb_open: zs_dotzsdb_validate opens .zsdb, takes its stat by name, and   *)
(* reads what it has opened; then the active file is opened.                 *)

OpenDot(p) == /\ pc[p] = "idle"
              /\ lk' = [lk EXCEPT ![p] = zsdb]
              /\ Goto(p, "ostat")
              /\ UNCHANGED <<disk, locks, logs, cached, pos, new, seen>>

StatDot(p) == /\ pc[p] = "ostat"
              /\ seen' = [seen EXCEPT ![p] = zsdb]
              /\ Goto(p, "oread")
              /\ UNCHANGED <<disk, locks, logs, lk, cached, pos, new>>

ReadDot(p) == /\ pc[p] = "oread"
              /\ \/ data[lk[p]] # Empty /\ Goto(p, "olog")
                    /\ cached' = [cached EXCEPT ![p] = data[lk[p]]]
                 \/ data[lk[p]] = Empty /\ Goto(p, "idle") /\ UNCHANGED cached
              /\ lk' = [lk EXCEPT ![p] = None]
              /\ UNCHANGED <<disk, locks, logs, pos, new, seen>>

\* The one file with an active name is the one .zsdb named to p.
FindsActive(p) == exists /\ cached[p].idx = top

\* Mutant: the offset stays behind the header.
OpenLogAtStart(p) == /\ pc[p] = "olog"
                     /\ IF FindsActive(p) THEN Goto(p, "ready") ELSE Goto(p, "idle")
                     /\ UNCHANGED <<disk, locks, logs, lk, cached, pos, new, seen>>

\* The active file is opened and replayed, and the offset set to its end.
OpenLog(p) == /\ pc[p] = "olog"
              /\ \/ FindsActive(p) /\ Goto(p, "ready") /\ pos' = [pos EXCEPT ![p] = end[top]]
                 \/ ~FindsActive(p) /\ Goto(p, "idle") /\ UNCHANGED pos
              /\ UNCHANGED <<disk, locks, logs, lk, cached, new, seen>>

\* zsdb_close, without the write lock.
Close(p) == /\ pc[p] = "ready"
            /\ Goto(p, "idle")
            /\ UNCHANGED <<disk, locks, logs, lk, cached, pos, new, seen>>

-----------------------------------------------------------------------------
(* The callers *)

Acquire(p) == /\ pc[p] = "ready" /\ wl = None
              /\ wl' = p
              /\ Goto(p, "open")
              /\ UNCHANGED <<disk, pl, logs, lk, cached, pos, new, seen>>

Release(p) == /\ pc[p] = "open"
              /\ wl' = None
              /\ Goto(p, "ready")
              /\ UNCHANGED <<disk, pl, logs, lk, cached, pos, new, seen>>

\* Where p appends after zs_dotzsdb_check_stat, and zsdb_reload if it is due.
Offset(p) == IF seen[p] = zsdb THEN pos[p] ELSE end[top]
Syncs(p) == seen[p] = zsdb \/ FindsActive(p)

\* Mutant: the new position is reckoned from the one that is cached.
CommitFromCached(p) ==
    /\ pc[p] = "open" /\ Syncs(p) /\ Offset(p) < MaxOff /\ cached[p].off < MaxOff
    /\ seen' = [seen EXCEPT ![p] = zsdb]
    /\ pos' = [pos EXCEPT ![p] = Offset(p) + 1]
    /\ end' = [end EXCEPT ![cached[p].idx] = Offset(p) + 1]
    /\ new' = [new EXCEPT ![p] = [cached[p] EXCEPT !.off = @ + 1]]
    /\ Goto(p, "read")
    /\ UNCHANGED <<disk, locks, top, exists, lk, cached>>

\* zsdb_add, which may reload, and zsdb_commit, which has written its commit
\* record (a write cuts off what is behind it) and updates the offset.
Commit(p) ==
    /\ pc[p] = "open" /\ Syncs(p) /\ Offset(p) < MaxOff
    /\ seen' = [seen EXCEPT ![p] = zsdb]
    /\ pos' = [pos EXCEPT ![p] = Offset(p) + 1]
    /\ end' = [end EXCEPT ![cached[p].idx] = Offset(p) + 1]
    /\ new' = [new EXCEPT ![p] = [idx |-> cached[p].idx, off |-> Offset(p) + 1]]
    /\ Goto(p, "read")
    /\ UNCHANGED <<disk, locks, top, exists, lk, cached>>

\* zs_active_file_finalise renames the active file; zs_active_file_new first
\* updates the index.
FinaliseRename(p) ==
    /\ pc[p] = "open" /\ FindsActive(p) /\ cached[p].idx < MaxIdx
    /\ exists' = FALSE
    /\ seen' = [seen EXCEPT ![p] = zsdb]
    /\ new' = [new EXCEPT ![p] = [idx |-> cached[p].idx + 1, off |-> 0]]
    /\ Goto(p, "read")
    /\ UNCHANGED <<disk, locks, top, end, lk, cached, pos>>

\* A reload does not find the file of the cached index, or the rename of a
\* finalisation does not: the handle is of no use, and is closed.
Fail(p) == /\ pc[p] = "open" /\ ~FindsActive(p)
           /\ wl' = None
           /\ Goto(p, "idle")
           /\ UNCHANGED <<disk, pl, logs, lk, cached, pos, new, seen>>

\* Mutant: the new file gets the name of the old one.
FinaliseRecreate(p) == /\ pc[p] = "done" /\ wl = p /\ ~exists
                       /\ exists' = TRUE
                       /\ end' = [end EXCEPT ![cached[p].idx] = 0]
                       /\ pos' = [pos EXCEPT ![p] = 0]
                       /\ Goto(p, "open")
                       /\ UNCHANGED <<disk, locks, top, lk, cached, new, seen>>

\* Then it creates the active file with the index that is cached by now.
FinaliseCreate(p) == /\ pc[p] = "done" /\ wl = p /\ ~exists
                     /\ top' = cached[p].idx
                     /\ exists' = TRUE
                     /\ end' = [end EXCEPT ![cached[p].idx] = 0]
                     /\ pos' = [pos EXCEPT ![p] = 0]
                     /\ Goto(p, "open")
                     /\ UNCHANGED <<disk, locks, lk, cached, new, seen>>

\* Mutant: zs_active_file_new returns without having created the file.
ReturnsEarly(p) == /\ pc[p] = "done" /\ wl = p
                   /\ Goto(p, "open")
                   /\ UNCHANGED <<disk, locks, logs, lk, cached, pos, new, seen>>

CommitReturns(p) == /\ pc[p] = "done" /\ wl = p /\ exists
                    /\ Goto(p, "open")
                    /\ UNCHANGED <<disk, locks, logs, lk, cached, pos, new, seen>>

\* zsdb_repack: it writes back what update_begin reads.
PackBegins(p) == /\ pc[p] = "idle" /\ pl = None
                 /\ pl' = p
                 /\ Goto(p, "read")
                 /\ UNCHANGED <<disk, wl, logs, lk, cached, pos, new, seen>>

PackReturns(p) == /\ pc[p] \in {"pack", "done"} /\ pl = p
                  /\ pc[p] = "pack" => lk[p] = None
                  /\ pl' = None
                  /\ Goto(p, "idle")
                  /\ UNCHANGED <<disk, wl, logs, lk, cached, pos, new, seen>>

-----------------------------------------------------------------------------
(* zs_dotzsdb_update_begin *)

\* A file that is too short makes it fail; its caller carries on without.
Read(p) == /\ pc[p] = "read"
           /\ \/ /\ data[zsdb] # Empty
                 /\ cached' = [cached EXCEPT ![p] = data[zsdb]]
                 /\ Goto(p, "lock")
              \/ /\ data[zsdb] = Empty
                 /\ UNCHANGED cached
                 /\ Goto(p, "done")
           /\ UNCHANGED <<disk, locks, logs, lk, pos, new, seen>>

\* file_lock_acquire, whose result is ignored: update_begin returns 1, and
\* the caller sets the new index and offset.
Lock(p) == /\ pc[p] = "lock"
           /\ \/ /\ lockf = None /\ used <= MaxIno
                 /\ lockf' = used
                 /\ lk' = [lk EXCEPT ![p] = used]
                 /\ used' = used + 1
              \/ lockf # None /\ UNCHANGED <<lockf, lk, used>>
           /\ cached' = IF p \in Writers THEN [cached EXCEPT ![p] = new[p]] ELSE cached
           /\ Goto(p, IF p \in Packers THEN "pack" ELSE "end")
           /\ UNCHANGED <<zsdb, data, locks, logs, pos, new, seen>>

(* zs_dotzsdb_update_end *)

\* Without the lock it does nothing and reports failure, to no effect.
EndUnlocked(p) == /\ pc[p] = "end" /\ lk[p] = None
                  /\ Goto(p, "done")
                  /\ UNCHANGED <<disk, locks, logs, lk, cached, pos, new, seen>>

\* Mutant: the lock file goes to the rename unwritten.
RenameUnwritten(p) == /\ pc[p] \in {"end", "pack"} /\ lk[p] # None
                      /\ Goto(p, "rename")
                      /\ UNCHANGED <<disk, locks, logs, lk, cached, pos, new, seen>>

Write(p) == /\ pc[p] \in {"end", "pack"} /\ lk[p] # None
            /\ data' = [data EXCEPT ![lk[p]] = cached[p]]
            /\ Goto(p, "rename")
            /\ UNCHANGED <<zsdb, lockf, used, locks, logs, lk, cached, pos, new, seen>>

\* Mutant: rename() is taken to succeed.
RenameUnchecked(p) == /\ pc[p] = "rename"
                      /\ zsdb' = lockf
                      /\ lockf' = None
                      /\ Goto(p, "unlink")
                      /\ UNCHANGED <<data, used, locks, logs, lk, cached, pos, new, seen>>

\* rename() takes the file that has the lock's name now.
Rename(p) == /\ pc[p] = "rename"
             /\ \/ lockf # None /\ zsdb' = lockf /\ Goto(p, "unlink")
                \/ lockf = None /\ UNCHANGED zsdb /\ Goto(p, "unlinkfail")
             /\ lockf' = None
             /\ UNCHANGED <<data, used, locks, logs, lk, cached, pos, new, seen>>

\* cleanup_lockfile: file_lock_release unlinks the name again.
Unlink(p) == /\ pc[p] \in {"unlink", "unlinkfail"}
             /\ lockf' = None
             /\ lk' = [lk EXCEPT ![p] = None]
             /\ Goto(p, IF pc[p] = "unlink" /\ p \in Writers THEN "stat" ELSE "done")
             /\ UNCHANGED <<zsdb, data, used, locks, logs, cached, pos, new, seen>>

\* zs_dotzsdb_update_stat
Stat(p) == /\ pc[p] = "stat"
           /\ seen' = [seen EXCEPT ![p] = zsdb]
           /\ Goto(p, "done")
           /\ UNCHANGED <<disk, locks, logs, lk, cached, pos, new>>

-----------------------------------------------------------------------------

\* The process is killed: no atexit handler runs, its lock files stay.
Die(p) == /\ MayDie
          /\ pc[p] \notin {"dead", "idle"}
          /\ Goto(p, "dead")
          /\ UNCHANGED <<disk, locks, logs, lk, cached, pos, new, seen>>

Opening(p) == OpenDot(p) \/ StatDot(p) \/ ReadDot(p) \/ OpenLog(p) \/ Close(p)
Writing(p) == \/ Acquire(p) \/ Release(p) \/ Commit(p) \/ CommitReturns(p)
              \/ FinaliseRename(p) \/ FinaliseCreate(p) \/ Fail(p)
Packing(p) == PackBegins(p) \/ PackReturns(p)
Update(p) == \/ Read(p) \/ Lock(p) \/ EndUnlocked(p) \/ Write(p) \/ Rename(p)
             \/ Unlink(p) \/ Stat(p)

Next == \/ \E p \in Writers : Opening(p) \/ Writing(p)
        \/ \E p \in Packers : Packing(p)
        \/ \E p \in Procs : Update(p) \/ Die(p)
Spec == Init /\ [][Next]_vars

-----------------------------------------------------------------------------
(* Properties *)

TypeOK == /\ zsdb \in Ino /\ lockf \in Ino \cup {None} /\ used \in 1..MaxIno + 1
          /\ data \in [Ino -> Dot \cup {Empty}]
          /\ wl \in Writers \cup {None} /\ pl \in Packers \cup {None}
          /\ top \in 0..MaxIdx /\ exists \in BOOLEAN /\ end \in [0..MaxIdx -> 0..MaxOff]
          /\ pc \in [Procs -> {"idle", "ostat", "oread", "olog", "ready", "open", "read",
                               "lock", "pack", "end", "rename", "unlink", "unlinkfail",
                               "stat", "done", "dead"}]
          /\ lk \in [Procs -> Ino \cup {None}]
          /\ cached \in [Procs -> Dot] /\ new \in [Procs -> Dot]
          /\ pos \in [Procs -> 0..MaxOff] /\ seen \in [Procs -> Ino]

\* .zsdb is never seen half-written: "This should *never* happen here" of the
\* size check in update_begin, at whatever step another process is or dies.
DotComplete == data[zsdb] # Empty

\* Between two writers the directory can be opened: .zsdb names the active
\* file and the lock file of the last update is gone.
OpenableAtRest == wl = None => Openable /\ (pl = None => lockf = None)

\* A writer that gets the lock and finds the stat of .zsdb unchanged, so that it
\* will not reload, stands at the end of the active file, although it opened
\* without the lock, while others committed, finalised or died, and may have
\* read another .zsdb than the one it took the stat of.
WriterAtEnd ==
    \A p \in Writers : pc[p] = "open" /\ seen[p] = zsdb =>
                          exists /\ cached[p].idx = top /\ pos[p] = end[top]

\* The committed position never moves back.
DotAdvances ==
    [][\/ data[zsdb]'.idx > data[zsdb].idx
       \/ /\ data[zsdb]'.idx = data[zsdb].idx
          /\ data[zsdb]'.off >= data[zsdb].off]_vars

\* Whatever a packer does to .zsdb under a sole writer's feet, between its calls
\* the writer is in the one active file, whether its stat is current or not.
WriterKeepsFile ==
    \A p \in Writers : pc[p] = "open" => exists /\ cached[p].idx = top

\* .zsdb may fall behind the active file, or be empty, but is ahead of it only
\* by the one file that a writer is about to create (or died before it did):
\* then, and not later, an open fails because it is sent to a file to come.
NeverAhead == DotComplete => \/ data[zsdb].idx <= top
                             \/ ~exists /\ wl # None /\ data[zsdb].idx = top + 1
=============================================================================
