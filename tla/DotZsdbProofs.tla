---------------------------- MODULE DotZsdbProofs ---------------------------
(***************************************************************************)
(* The opening and replacement of .zsdb, for any number of writers,        *)
(* packers, commits and inodes, with deaths at any system call: how far    *)
(* .zsdb can be ahead, what a sole writer keeps although packers take away *)
(* its lock file, and, as long as nobody packs, that .zsdb is complete and *)
(* never moves back, and that its stat tells a writer whether it stands at *)
(* the end of the log, although it opened without the lock.                *)
(***************************************************************************)
EXTENDS DotZsdb, TLAPS

-----------------------------------------------------------------------------
(* Whatever writers and packers do *)

\* Where a writer is outside the write lock, and after update_begin.
Outside == {"idle", "ostat", "oread", "olog", "ready"}
Began == {"end", "rename", "unlink", "unlinkfail", "stat", "done"}

\* Who is to read .zsdb has a file open (the fd of zs_dotzsdb_validate).
Held == \A p \in Writers : pc[p] \in {"ostat", "oread"} => lk[p] # None

\* A writer changes something only while it has the write lock, with which it
\* may have died.
Serial == \A p \in Writers :
             /\ pc[p] \in Outside => wl # p
             /\ pc[p] \in {"open", "read", "lock"} \cup Began => wl = p
             /\ pc[p] \in Outside \cup {"open", "read", "lock", "dead"} \cup Began

\* The active file's name is missing only in the middle of a finalisation.
Gap == ~exists => wl # None /\ pc[wl] \in {"read", "lock", "dead"} \cup Began

\* The index a writer asks for or has cached while it is about to write one: of
\* an active file there is, or, after the renaming, of the next.
Coming == IF exists THEN top ELSE top + 1
Steady == \A p \in Writers :
             /\ pc[p] \in {"read", "lock"} => new[p].idx <= Coming
             /\ ~exists /\ pc[p] \in {"read", "lock"} => new[p].idx = top + 1
             /\ ~exists /\ pc[p] = "read" => cached[p].idx = top
             /\ ~exists /\ pc[p] \in Began => cached[p].idx \in {top, top + 1}

\* The index the active file has, or will have when the writer creates it: it
\* bounds what any file that is or may become .zsdb says, so that a packer
\* that writes back what it read sends nobody ahead.
Limit == IF exists \/ pc[wl] \in {"read", "lock"} THEN top
         ELSE IF pc[wl] = "dead" THEN top + 1 ELSE cached[wl].idx
Bounded == /\ \A i \in Ino : data[i] # Empty => data[i].idx <= Limit
           /\ \A p \in Procs : cached[p].idx <= Limit

Inv == TypeOK /\ Held /\ Serial /\ Gap /\ Steady /\ Bounded

-----------------------------------------------------------------------------
(* When there is one writer *)

\* What it has cached, and what it asks to be written, names the active file
\* there is or, when it has renamed that one, the next.
Keeps == \A p \in Writers :
            /\ pc[p] \in {"ready", "open"} => exists /\ cached[p].idx = top
            /\ pc[p] = "read" => cached[p].idx = top
            /\ pc[p] \in {"read", "lock"} => new[p].idx = Coming
            /\ exists /\ pc[p] \in Began => cached[p].idx = top

-----------------------------------------------------------------------------
(* When nobody packs *)

\* Later(d, e): the position e is past d.
Later(d, e) == e.idx > d.idx \/ (e.idx = d.idx /\ e.off > d.off)

\* Ends(d): d is the end of the active file, or the start of the next.
Ends(d) == d.idx = Coming /\ d.off = IF exists THEN end[top] ELSE 0

\* Step by step what a writer asks for, what it has cached, and which inode the
\* lock's name leads to.
Current == \A p \in Writers :
              /\ pc[p] \in {"read", "lock", "end", "rename"} =>
                    Ends(new[p]) /\ Later(data[zsdb], new[p])
              /\ pc[p] \in {"end", "rename"} => cached[p] = new[p] /\ lk[p] = lockf /\ lockf # None
              /\ pc[p] = "rename" => data[lockf] = new[p]
              /\ pc[p] \in {"unlink", "stat", "done"} => cached[p] = data[zsdb] /\ Ends(cached[p])
              /\ pc[p] = "done" => seen[p] = zsdb
              /\ exists /\ pc[p] \in {"read", "lock"} \cup Began => pos[p] = end[top]
              /\ pc[p] # "unlinkfail"

\* The lock's name leads to a file of its own, which nobody has taken the stat of
\* as .zsdb, and only while a writer is about to rename it or has died.
OwnFile == /\ zsdb < used
           /\ \A p \in Writers : seen[p] < used
           /\ lockf # None => /\ lockf # zsdb /\ lockf < used
                              /\ \A p \in Writers : seen[p] # lockf
                              /\ wl # None /\ pc[wl] \in {"end", "rename", "dead"}

\* .zsdb is complete at every step, and at rest it is the end of the active file.
Rest == /\ data[zsdb] # Empty
        /\ wl = None \/ pc[wl] = "open" => exists /\ Ends(data[zsdb])

\* Unless a writer has changed the log and not yet .zsdb, an unchanged stat
\* means that the log is where it was left.
Quiet == wl = None \/ pc[wl] \in {"open", "unlink", "stat", "done"}
Synced == \A p \in Writers : pc[p] \in {"ready", "open"} /\ seen[p] = zsdb /\ Quiet =>
                                exists /\ cached[p].idx = top /\ pos[p] = end[top]

Inv1 == Inv /\ Current /\ OwnFile /\ Rest /\ Synced

-----------------------------------------------------------------------------
(* The types *)

\* What zs_dotzsdb_update_end finds to write is of the type of .zsdb.
LEMMA DotIsNotEmpty == Empty \notin Dot
BY NoneAssumption DEF Dot, Empty

\* Every system call keeps the types, also at the bounds.
LEMMA TypeNext ==
    ASSUME TypeOK, Held, [Next]_vars
    PROVE  TypeOK'
<1> USE BoundAssumption DEF TypeOK, Goto, disk, logs, locks, Procs
<1>1. CASE UNCHANGED vars
  BY <1>1 DEF vars, disk, logs, locks
<1>2. ASSUME NEW p \in Writers, OpenDot(p) PROVE TypeOK'
  BY <1>2 DEF OpenDot, TypeOK, disk, logs, locks, Goto, Procs
<1>3. ASSUME NEW p \in Writers, StatDot(p) PROVE TypeOK'
  BY <1>3 DEF StatDot, TypeOK, disk, logs, locks, Goto, Procs
<1>4. ASSUME NEW p \in Writers, ReadDot(p) PROVE TypeOK'
  <2>1. lk[p] \in Ino
    BY <1>4 DEF ReadDot, Held
  <2>2. data[lk[p]] # Empty => data[lk[p]] \in Dot
    BY <2>1
  <2> QED BY <1>4, <2>2 DEF ReadDot
<1>5. ASSUME NEW p \in Writers, OpenLog(p) PROVE TypeOK'
  BY <1>5 DEF OpenLog, TypeOK, disk, logs, locks, Goto, Procs
<1>6. ASSUME NEW p \in Writers, Close(p) PROVE TypeOK'
  BY <1>6 DEF Close, TypeOK, disk, logs, locks, Goto, Procs
<1>7. ASSUME NEW p \in Writers, Acquire(p) PROVE TypeOK'
  BY <1>7 DEF Acquire, TypeOK, disk, logs, locks, Goto, Procs
<1>8. ASSUME NEW p \in Writers, Release(p) PROVE TypeOK'
  BY <1>8 DEF Release, TypeOK, disk, logs, locks, Goto, Procs
<1>9. ASSUME NEW p \in Writers, Commit(p) PROVE TypeOK'
  <2>1. cached[p].idx \in 0..MaxIdx
    BY DEF Dot
  <2>2. Offset(p) \in 0..MaxOff
    BY DEF Offset
  <2>3. Offset(p) + 1 \in 0..MaxOff
    BY <1>9, <2>2 DEF Commit
  <2>4. [idx |-> cached[p].idx, off |-> Offset(p) + 1] \in Dot
    BY <2>1, <2>3 DEF Dot
  <2> QED BY <1>9, <2>1, <2>3, <2>4 DEF Commit
<1>10. ASSUME NEW p \in Writers, CommitReturns(p) PROVE TypeOK'
  BY <1>10 DEF CommitReturns, TypeOK, disk, logs, locks, Goto, Procs
<1>11. ASSUME NEW p \in Writers, FinaliseRename(p) PROVE TypeOK'
  <2>1. cached[p].idx \in 0..MaxIdx
    BY DEF Dot
  <2>2. cached[p].idx + 1 \in 0..MaxIdx /\ 0 \in 0..MaxOff
    BY <1>11, <2>1 DEF FinaliseRename
  <2>3. [idx |-> cached[p].idx + 1, off |-> 0] \in Dot
    BY <2>2 DEF Dot
  <2> QED BY <1>11, <2>3 DEF FinaliseRename
<1>12. ASSUME NEW p \in Writers, FinaliseCreate(p) PROVE TypeOK'
  <2>1. cached[p].idx \in 0..MaxIdx
    BY DEF Dot
  <2> QED BY <1>12, <2>1 DEF FinaliseCreate
<1>13. ASSUME NEW p \in Writers, Fail(p) PROVE TypeOK'
  BY <1>13 DEF Fail, TypeOK, disk, logs, locks, Goto, Procs
<1>14. ASSUME NEW p \in Packers, PackBegins(p) PROVE TypeOK'
  BY <1>14 DEF PackBegins, TypeOK, disk, logs, locks, Goto, Procs
<1>15. ASSUME NEW p \in Packers, PackReturns(p) PROVE TypeOK'
  BY <1>15 DEF PackReturns, TypeOK, disk, logs, locks, Goto, Procs
<1>16. ASSUME NEW p \in Procs, Read(p) PROVE TypeOK'
  BY <1>16 DEF Read, TypeOK, disk, logs, locks, Goto, Procs
<1>17. ASSUME NEW p \in Procs, Lock(p) PROVE TypeOK'
  <2>1. used <= MaxIno => used \in Ino /\ used + 1 \in 1..MaxIno + 1
    BY DEF Ino
  <2> QED BY <1>17, <2>1 DEF Lock
<1>18. ASSUME NEW p \in Procs, EndUnlocked(p) PROVE TypeOK'
  BY <1>18 DEF EndUnlocked, TypeOK, disk, logs, locks, Goto, Procs
<1>19. ASSUME NEW p \in Procs, Write(p) PROVE TypeOK'
  BY <1>19 DEF Write, TypeOK, disk, logs, locks, Goto, Procs
<1>20. ASSUME NEW p \in Procs, Rename(p) PROVE TypeOK'
  BY <1>20 DEF Rename, TypeOK, disk, logs, locks, Goto, Procs
<1>21. ASSUME NEW p \in Procs, Unlink(p) PROVE TypeOK'
  BY <1>21 DEF Unlink, TypeOK, disk, logs, locks, Goto, Procs
<1>22. ASSUME NEW p \in Procs, Stat(p) PROVE TypeOK'
  BY <1>22 DEF Stat, TypeOK, disk, logs, locks, Goto, Procs
<1>23. ASSUME NEW p \in Procs, Die(p) PROVE TypeOK'
  BY <1>23 DEF Die, TypeOK, disk, logs, locks, Goto, Procs
<1> QED BY <1>1, <1>2, <1>3, <1>4, <1>5, <1>6, <1>7, <1>8, <1>9, <1>10, <1>11, <1>12, <1>13,
          <1>14, <1>15, <1>16, <1>17, <1>18, <1>19, <1>20, <1>21, <1>22, <1>23
       DEF Next, Opening, Writing, Packing, Update

\* A lemma a clause: the descriptor of a writer that opens.
LEMMA HeldNext ==
    ASSUME TypeOK, Held, [Next]_vars
    PROVE  Held'
<1> USE NoneAssumption, RolesAssumption DEF Held
<1>1. CASE UNCHANGED vars
  BY <1>1 DEF vars, disk, logs, locks
<1>2. ASSUME NEW p \in Writers, OpenDot(p) PROVE Held'
  BY <1>2 DEF OpenDot, TypeOK, disk, logs, locks, Goto, Procs
<1>3. ASSUME NEW p \in Writers, StatDot(p) PROVE Held'
  BY <1>3 DEF StatDot, TypeOK, disk, logs, locks, Goto, Procs
<1>4. ASSUME NEW p \in Writers, ReadDot(p) PROVE Held'
  BY <1>4 DEF ReadDot, TypeOK, disk, logs, locks, Goto, Procs
<1>5. ASSUME NEW p \in Writers, OpenLog(p) PROVE Held'
  BY <1>5 DEF OpenLog, TypeOK, disk, logs, locks, Goto, Procs
<1>6. ASSUME NEW p \in Writers, Close(p) PROVE Held'
  BY <1>6 DEF Close, TypeOK, disk, logs, locks, Goto, Procs
<1>7. ASSUME NEW p \in Writers, Acquire(p) PROVE Held'
  BY <1>7 DEF Acquire, TypeOK, disk, logs, locks, Goto, Procs
<1>8. ASSUME NEW p \in Writers, Release(p) PROVE Held'
  BY <1>8 DEF Release, TypeOK, disk, logs, locks, Goto, Procs
<1>9. ASSUME NEW p \in Writers, Commit(p) PROVE Held'
  BY <1>9 DEF Commit, TypeOK, disk, logs, locks, Goto, Procs
<1>10. ASSUME NEW p \in Writers, CommitReturns(p) PROVE Held'
  BY <1>10 DEF CommitReturns, TypeOK, disk, logs, locks, Goto, Procs
<1>11. ASSUME NEW p \in Writers, FinaliseRename(p) PROVE Held'
  BY <1>11 DEF FinaliseRename, TypeOK, disk, logs, locks, Goto, Procs
<1>12. ASSUME NEW p \in Writers, FinaliseCreate(p) PROVE Held'
  BY <1>12 DEF FinaliseCreate, TypeOK, disk, logs, locks, Goto, Procs
<1>13. ASSUME NEW p \in Writers, Fail(p) PROVE Held'
  BY <1>13 DEF Fail, TypeOK, disk, logs, locks, Goto, Procs
<1>14. ASSUME NEW p \in Packers, PackBegins(p) PROVE Held'
  BY <1>14 DEF PackBegins, TypeOK, disk, logs, locks, Goto, Procs
<1>15. ASSUME NEW p \in Packers, PackReturns(p) PROVE Held'
  BY <1>15 DEF PackReturns, TypeOK, disk, logs, locks, Goto, Procs
<1>16. ASSUME NEW p \in Procs, Read(p) PROVE Held'
  BY <1>16 DEF Read, TypeOK, disk, logs, locks, Goto, Procs
<1>17. ASSUME NEW p \in Procs, Lock(p) PROVE Held'
  BY <1>17 DEF Lock, TypeOK, disk, logs, locks, Goto, Procs
<1>18. ASSUME NEW p \in Procs, EndUnlocked(p) PROVE Held'
  BY <1>18 DEF EndUnlocked, TypeOK, disk, logs, locks, Goto, Procs
<1>19. ASSUME NEW p \in Procs, Write(p) PROVE Held'
  BY <1>19 DEF Write, TypeOK, disk, logs, locks, Goto, Procs
<1>20. ASSUME NEW p \in Procs, Rename(p) PROVE Held'
  BY <1>20 DEF Rename, TypeOK, disk, logs, locks, Goto, Procs
<1>21. ASSUME NEW p \in Procs, Unlink(p) PROVE Held'
  BY <1>21 DEF Unlink, TypeOK, disk, logs, locks, Goto, Procs
<1>22. ASSUME NEW p \in Procs, Stat(p) PROVE Held'
  BY <1>22 DEF Stat, TypeOK, disk, logs, locks, Goto, Procs
<1>23. ASSUME NEW p \in Procs, Die(p) PROVE Held'
  BY <1>23 DEF Die, TypeOK, disk, logs, locks, Goto, Procs
<1> QED BY <1>1, <1>2, <1>3, <1>4, <1>5, <1>6, <1>7, <1>8, <1>9, <1>10, <1>11, <1>12, <1>13,
          <1>14, <1>15, <1>16, <1>17, <1>18, <1>19, <1>20, <1>21, <1>22, <1>23
       DEF Next, Opening, Writing, Packing, Update

\* Only the holder of the write lock gets beyond opening.
LEMMA SerialNext ==
    ASSUME TypeOK, Serial, [Next]_vars
    PROVE  Serial'
<1> USE NoneAssumption, RolesAssumption DEF Serial, Outside, Began
<1>1. CASE UNCHANGED vars
  BY <1>1 DEF vars, disk, logs, locks
<1>2. ASSUME NEW p \in Writers, OpenDot(p) PROVE Serial'
  BY <1>2 DEF OpenDot, TypeOK, disk, logs, locks, Goto, Procs
<1>3. ASSUME NEW p \in Writers, StatDot(p) PROVE Serial'
  BY <1>3 DEF StatDot, TypeOK, disk, logs, locks, Goto, Procs
<1>4. ASSUME NEW p \in Writers, ReadDot(p) PROVE Serial'
  BY <1>4 DEF ReadDot, TypeOK, disk, logs, locks, Goto, Procs
<1>5. ASSUME NEW p \in Writers, OpenLog(p) PROVE Serial'
  BY <1>5 DEF OpenLog, TypeOK, disk, logs, locks, Goto, Procs
<1>6. ASSUME NEW p \in Writers, Close(p) PROVE Serial'
  BY <1>6 DEF Close, TypeOK, disk, logs, locks, Goto, Procs
<1>7. ASSUME NEW p \in Writers, Acquire(p) PROVE Serial'
  BY <1>7 DEF Acquire, TypeOK, disk, logs, locks, Goto, Procs
<1>8. ASSUME NEW p \in Writers, Release(p) PROVE Serial'
  BY <1>8 DEF Release, TypeOK, disk, logs, locks, Goto, Procs
<1>9. ASSUME NEW p \in Writers, Commit(p) PROVE Serial'
  BY <1>9 DEF Commit, TypeOK, disk, logs, locks, Goto, Procs
<1>10. ASSUME NEW p \in Writers, CommitReturns(p) PROVE Serial'
  BY <1>10 DEF CommitReturns, TypeOK, disk, logs, locks, Goto, Procs
<1>11. ASSUME NEW p \in Writers, FinaliseRename(p) PROVE Serial'
  BY <1>11 DEF FinaliseRename, TypeOK, disk, logs, locks, Goto, Procs
<1>12. ASSUME NEW p \in Writers, FinaliseCreate(p) PROVE Serial'
  BY <1>12 DEF FinaliseCreate, TypeOK, disk, logs, locks, Goto, Procs
<1>13. ASSUME NEW p \in Writers, Fail(p) PROVE Serial'
  BY <1>13 DEF Fail, TypeOK, disk, logs, locks, Goto, Procs
<1>14. ASSUME NEW p \in Packers, PackBegins(p) PROVE Serial'
  BY <1>14 DEF PackBegins, TypeOK, disk, logs, locks, Goto, Procs
<1>15. ASSUME NEW p \in Packers, PackReturns(p) PROVE Serial'
  BY <1>15 DEF PackReturns, TypeOK, disk, logs, locks, Goto, Procs
<1>16. ASSUME NEW p \in Procs, Read(p) PROVE Serial'
  BY <1>16 DEF Read, TypeOK, disk, logs, locks, Goto, Procs
<1>17. ASSUME NEW p \in Procs, Lock(p) PROVE Serial'
  BY <1>17 DEF Lock, TypeOK, disk, logs, locks, Goto, Procs
<1>18. ASSUME NEW p \in Procs, EndUnlocked(p) PROVE Serial'
  BY <1>18 DEF EndUnlocked, TypeOK, disk, logs, locks, Goto, Procs
<1>19. ASSUME NEW p \in Procs, Write(p) PROVE Serial'
  BY <1>19 DEF Write, TypeOK, disk, logs, locks, Goto, Procs
<1>20. ASSUME NEW p \in Procs, Rename(p) PROVE Serial'
  BY <1>20 DEF Rename, TypeOK, disk, logs, locks, Goto, Procs
<1>21. ASSUME NEW p \in Procs, Unlink(p) PROVE Serial'
  BY <1>21 DEF Unlink, TypeOK, disk, logs, locks, Goto, Procs
<1>22. ASSUME NEW p \in Procs, Stat(p) PROVE Serial'
  BY <1>22 DEF Stat, TypeOK, disk, logs, locks, Goto, Procs
<1>23. ASSUME NEW p \in Procs, Die(p) PROVE Serial'
  BY <1>23 DEF Die, TypeOK, disk, logs, locks, Goto, Procs
<1> QED BY <1>1, <1>2, <1>3, <1>4, <1>5, <1>6, <1>7, <1>8, <1>9, <1>10, <1>11, <1>12, <1>13,
          <1>14, <1>15, <1>16, <1>17, <1>18, <1>19, <1>20, <1>21, <1>22, <1>23
       DEF Next, Opening, Writing, Packing, Update

\* Who renames the active file away has the write lock until it is created.
LEMMA GapNext ==
    ASSUME TypeOK, Serial, Gap, [Next]_vars
    PROVE  Gap'
<1> USE NoneAssumption, RolesAssumption DEF Serial, Gap, Outside, Began, FindsActive
<1>1. CASE UNCHANGED vars
  BY <1>1 DEF vars, disk, logs, locks
<1>2. ASSUME NEW p \in Writers, OpenDot(p) PROVE Gap'
  BY <1>2 DEF OpenDot, TypeOK, disk, logs, locks, Goto, Procs
<1>3. ASSUME NEW p \in Writers, StatDot(p) PROVE Gap'
  BY <1>3 DEF StatDot, TypeOK, disk, logs, locks, Goto, Procs
<1>4. ASSUME NEW p \in Writers, ReadDot(p) PROVE Gap'
  BY <1>4 DEF ReadDot, TypeOK, disk, logs, locks, Goto, Procs
<1>5. ASSUME NEW p \in Writers, OpenLog(p) PROVE Gap'
  BY <1>5 DEF OpenLog, TypeOK, disk, logs, locks, Goto, Procs
<1>6. ASSUME NEW p \in Writers, Close(p) PROVE Gap'
  BY <1>6 DEF Close, TypeOK, disk, logs, locks, Goto, Procs
<1>7. ASSUME NEW p \in Writers, Acquire(p) PROVE Gap'
  BY <1>7 DEF Acquire, TypeOK, disk, logs, locks, Goto, Procs
<1>8. ASSUME NEW p \in Writers, Release(p) PROVE Gap'
  BY <1>8 DEF Release, TypeOK, disk, logs, locks, Goto, Procs
<1>9. ASSUME NEW p \in Writers, Commit(p) PROVE Gap'
  BY <1>9 DEF Commit, TypeOK, disk, logs, locks, Goto, Procs
<1>10. ASSUME NEW p \in Writers, CommitReturns(p) PROVE Gap'
  BY <1>10 DEF CommitReturns, TypeOK, disk, logs, locks, Goto, Procs
<1>11. ASSUME NEW p \in Writers, FinaliseRename(p) PROVE Gap'
  BY <1>11 DEF FinaliseRename, TypeOK, disk, logs, locks, Goto, Procs
<1>12. ASSUME NEW p \in Writers, FinaliseCreate(p) PROVE Gap'
  BY <1>12 DEF FinaliseCreate, TypeOK, disk, logs, locks, Goto, Procs
<1>13. ASSUME NEW p \in Writers, Fail(p) PROVE Gap'
  BY <1>13 DEF Fail, TypeOK, disk, logs, locks, Goto, Procs
<1>14. ASSUME NEW p \in Packers, PackBegins(p) PROVE Gap'
  BY <1>14 DEF PackBegins, TypeOK, disk, logs, locks, Goto, Procs
<1>15. ASSUME NEW p \in Packers, PackReturns(p) PROVE Gap'
  BY <1>15 DEF PackReturns, TypeOK, disk, logs, locks, Goto, Procs
<1>16. ASSUME NEW p \in Procs, Read(p) PROVE Gap'
  BY <1>16 DEF Read, TypeOK, disk, logs, locks, Goto, Procs
<1>17. ASSUME NEW p \in Procs, Lock(p) PROVE Gap'
  BY <1>17 DEF Lock, TypeOK, disk, logs, locks, Goto, Procs
<1>18. ASSUME NEW p \in Procs, EndUnlocked(p) PROVE Gap'
  BY <1>18 DEF EndUnlocked, TypeOK, disk, logs, locks, Goto, Procs
<1>19. ASSUME NEW p \in Procs, Write(p) PROVE Gap'
  BY <1>19 DEF Write, TypeOK, disk, logs, locks, Goto, Procs
<1>20. ASSUME NEW p \in Procs, Rename(p) PROVE Gap'
  BY <1>20 DEF Rename, TypeOK, disk, logs, locks, Goto, Procs
<1>21. ASSUME NEW p \in Procs, Unlink(p) PROVE Gap'
  BY <1>21 DEF Unlink, TypeOK, disk, logs, locks, Goto, Procs
<1>22. ASSUME NEW p \in Procs, Stat(p) PROVE Gap'
  BY <1>22 DEF Stat, TypeOK, disk, logs, locks, Goto, Procs
<1>23. ASSUME NEW p \in Procs, Die(p) PROVE Gap'
  BY <1>23 DEF Die, TypeOK, disk, logs, locks, Goto, Procs
<1> QED BY <1>1, <1>2, <1>3, <1>4, <1>5, <1>6, <1>7, <1>8, <1>9, <1>10, <1>11, <1>12, <1>13,
          <1>14, <1>15, <1>16, <1>17, <1>18, <1>19, <1>20, <1>21, <1>22, <1>23
       DEF Next, Opening, Writing, Packing, Update

-----------------------------------------------------------------------------
(* What the calls that read or lock change, point by point *)

\* zs_dotzsdb_validate changes only what p has open and what it has cached.
DotRead(p) ==
    /\ UNCHANGED <<zsdb, lockf, data, used, wl, top, exists, end, pos, new, seen>>
    /\ pc[p] = "oread" /\ pc'[p] \in {"olog", "idle"}
    /\ cached'[p] = cached[p] \/ \E i \in Ino : data[i] # Empty /\ cached'[p] = data[i]
    /\ \A o \in Procs : o # p => pc'[o] = pc[o] /\ cached'[o] = cached[o] /\ lk'[o] = lk[o]

LEMMA ReadsDot == TypeOK /\ Held => \A p \in Writers : ReadDot(p) => DotRead(p)
<1> SUFFICES ASSUME TypeOK, Held, NEW p \in Writers, ReadDot(p) PROVE DotRead(p)
  OBVIOUS
<1>1. lk[p] \in Ino
  BY DEF TypeOK, Held, ReadDot, Procs
<1> QED BY <1>1 DEF TypeOK, DotRead, ReadDot, Procs, disk, logs, locks, Goto

\* process_files_in_dbdir sets the offset to the end of the file it finds.
LogOpened(p) ==
    /\ UNCHANGED <<zsdb, lockf, data, used, wl, top, exists, end, cached, new, seen, lk>>
    /\ pc[p] = "olog"
    /\ \/ exists /\ cached[p].idx = top /\ pc'[p] = "ready" /\ pos'[p] = end[top]
       \/ pc'[p] = "idle" /\ pos'[p] = pos[p]
    /\ \A o \in Procs : o # p => pc'[o] = pc[o] /\ pos'[o] = pos[o]

LEMMA OpensLog == TypeOK => \A p \in Writers : OpenLog(p) => LogOpened(p)
BY DEF TypeOK, LogOpened, OpenLog, FindsActive, Procs, disk, logs, locks, Goto

\* zs_dotzsdb_update_begin up to the lock.
HasRead(p) ==
    /\ UNCHANGED <<zsdb, lockf, data, used, wl, top, exists, end, pos, new, seen, lk>>
    /\ pc[p] = "read"
    /\ \/ data[zsdb] # Empty /\ cached'[p] = data[zsdb] /\ pc'[p] = "lock"
       \/ data[zsdb] = Empty /\ cached'[p] = cached[p] /\ pc'[p] = "done"
    /\ \A o \in Procs : o # p => pc'[o] = pc[o] /\ cached'[o] = cached[o]

LEMMA Reads == TypeOK => \A p \in Procs : Read(p) => HasRead(p)
BY DEF TypeOK, HasRead, Read, Procs, disk, logs, locks, Goto

\* Its acquisition of the lock, and what its caller sets.
HasLocked(p) ==
    /\ UNCHANGED <<zsdb, data, wl, top, exists, end, pos, new, seen>>
    /\ pc[p] = "lock"
    /\ \/ /\ lockf = None /\ used \in Ino /\ used # None
          /\ lockf' = used /\ lk'[p] = used /\ used' = used + 1
       \/ lockf # None /\ lockf' = lockf /\ lk'[p] = lk[p] /\ used' = used
    /\ p \in Writers => pc'[p] = "end" /\ cached'[p] = new[p]
    /\ p \in Packers => pc'[p] = "pack" /\ cached'[p] = cached[p]
    /\ \A o \in Procs : o # p => pc'[o] = pc[o] /\ cached'[o] = cached[o] /\ lk'[o] = lk[o]

LEMMA Locks == TypeOK => \A p \in Procs : Lock(p) => HasLocked(p)
<1>1. TypeOK /\ used <= MaxIno => used \in Ino /\ used # None
  BY BoundAssumption, NoneAssumption DEF TypeOK, Ino
<1> QED BY <1>1, RolesAssumption DEF TypeOK, HasLocked, Lock, Procs, disk, logs, locks, Goto

\* The numbers in the state.
Numbers ==
    /\ wl # None => wl \in Writers
    /\ top \in Nat /\ zsdb \in Ino /\ used \in Nat
    /\ \A p \in Procs : /\ cached[p].idx \in Nat /\ cached[p].off \in Nat
                        /\ new[p].idx \in Nat /\ new[p].off \in Nat
                        /\ pos[p] \in Nat /\ seen[p] \in Nat
    /\ \A i \in 0..MaxIdx : end[i] \in Nat
    /\ end[top] \in Nat
    /\ \A i \in Ino : i \in Nat /\ (data[i] # Empty => data[i].idx \in Nat /\ data[i].off \in Nat)

LEMMA TypesNumbers == TypeOK => Numbers
<1> SUFFICES ASSUME TypeOK PROVE Numbers
  OBVIOUS
<1> USE BoundAssumption DEF TypeOK
<1>1. \A d \in Dot : d.idx \in Nat /\ d.off \in Nat
  BY DEF Dot
<1>2. zsdb \in Ino /\ used \in Nat /\ \A i \in Ino : i \in Nat
  BY DEF Ino
<1>3. \A p \in Procs : pos[p] \in Nat /\ seen[p] \in Nat
  BY DEF Ino
<1>4. top \in Nat /\ \A i \in 0..MaxIdx : end[i] \in Nat
  OBVIOUS
<1> QED BY <1>1, <1>2, <1>3, <1>4 DEF Numbers

\* The indices a writer handles are of the file there is or of the next.
LEMMA SteadyNext ==
    ASSUME TypeOK, Held, Serial, Gap, Steady, Bounded, [Next]_vars
    PROVE  Steady'
<1> USE NoneAssumption, RolesAssumption, BoundAssumption DEF Serial, Gap, Steady, Bounded, Limit,
       Coming, Outside, Began, FindsActive
<1> USE DEF Numbers
<1>0. Numbers
  BY TypesNumbers
<1> USE <1>0
<1>1. CASE UNCHANGED vars
  BY <1>1 DEF vars, disk, logs, locks
<1>2. ASSUME NEW p \in Writers, OpenDot(p) PROVE Steady'
  BY <1>2 DEF OpenDot, TypeOK, disk, logs, locks, Goto, Procs
<1>3. ASSUME NEW p \in Writers, StatDot(p) PROVE Steady'
  BY <1>3 DEF StatDot, TypeOK, disk, logs, locks, Goto, Procs
<1>4. ASSUME NEW p \in Writers, ReadDot(p) PROVE Steady'
  <2>1. DotRead(p)
    BY <1>4, ReadsDot
  <2> QED BY <2>1 DEF DotRead, Procs
<1>5. ASSUME NEW p \in Writers, OpenLog(p) PROVE Steady'
  BY SMTT(60), <1>5 DEF OpenLog, TypeOK, disk, logs, locks, Goto, Procs
<1>6. ASSUME NEW p \in Writers, Close(p) PROVE Steady'
  BY <1>6 DEF Close, TypeOK, disk, logs, locks, Goto, Procs
<1>7. ASSUME NEW p \in Writers, Acquire(p) PROVE Steady'
  BY <1>7 DEF Acquire, TypeOK, disk, logs, locks, Goto, Procs
<1>8. ASSUME NEW p \in Writers, Release(p) PROVE Steady'
  BY <1>8 DEF Release, TypeOK, disk, logs, locks, Goto, Procs
<1>9. ASSUME NEW p \in Writers, Commit(p) PROVE Steady'
  BY <1>9 DEF Commit, TypeOK, disk, logs, locks, Goto, Procs
<1>10. ASSUME NEW p \in Writers, CommitReturns(p) PROVE Steady'
  BY <1>10 DEF CommitReturns, TypeOK, disk, logs, locks, Goto, Procs
<1>11. ASSUME NEW p \in Writers, FinaliseRename(p) PROVE Steady'
  <2>1. top \in Nat /\ exists /\ cached[p].idx = top
    BY <1>11 DEF FinaliseRename
  <2> QED BY <1>11, <2>1 DEF FinaliseRename, TypeOK, disk, locks, Goto, Procs
<1>12. ASSUME NEW p \in Writers, FinaliseCreate(p) PROVE Steady'
  BY <1>12 DEF FinaliseCreate, TypeOK, disk, logs, locks, Goto, Procs
<1>13. ASSUME NEW p \in Writers, Fail(p) PROVE Steady'
  BY <1>13 DEF Fail, TypeOK, disk, logs, locks, Goto, Procs
<1>14. ASSUME NEW p \in Packers, PackBegins(p) PROVE Steady'
  BY <1>14 DEF PackBegins, TypeOK, disk, logs, locks, Goto, Procs
<1>15. ASSUME NEW p \in Packers, PackReturns(p) PROVE Steady'
  BY <1>15 DEF PackReturns, TypeOK, disk, logs, locks, Goto, Procs
<1>16. ASSUME NEW p \in Procs, Read(p) PROVE Steady'
  <2>1. HasRead(p)
    BY <1>16, Reads
  <2> QED BY <2>1 DEF HasRead, Procs
<1>17. ASSUME NEW p \in Procs, Lock(p) PROVE Steady'
  <2>1. HasLocked(p)
    BY <1>17, Locks
  <2> QED BY <2>1 DEF HasLocked, Procs
<1>18. ASSUME NEW p \in Procs, EndUnlocked(p) PROVE Steady'
  BY <1>18 DEF EndUnlocked, TypeOK, disk, logs, locks, Goto, Procs
<1>19. ASSUME NEW p \in Procs, Write(p) PROVE Steady'
  BY <1>19 DEF Write, TypeOK, disk, logs, locks, Goto, Procs
<1>20. ASSUME NEW p \in Procs, Rename(p) PROVE Steady'
  BY <1>20 DEF Rename, TypeOK, disk, logs, locks, Goto, Procs
<1>21. ASSUME NEW p \in Procs, Unlink(p) PROVE Steady'
  BY <1>21 DEF Unlink, TypeOK, disk, logs, locks, Goto, Procs
<1>22. ASSUME NEW p \in Procs, Stat(p) PROVE Steady'
  BY <1>22 DEF Stat, TypeOK, disk, logs, locks, Goto, Procs
<1>23. ASSUME NEW p \in Procs, Die(p) PROVE Steady'
  BY <1>23 DEF Die, TypeOK, disk, logs, locks, Goto, Procs
<1> QED BY <1>1, <1>2, <1>3, <1>4, <1>5, <1>6, <1>7, <1>8, <1>9, <1>10, <1>11, <1>12, <1>13,
          <1>14, <1>15, <1>16, <1>17, <1>18, <1>19, <1>20, <1>21, <1>22, <1>23
       DEF Next, Opening, Writing, Packing, Update

\* No copy of a position is of a file beyond.
LEMMA BoundedNext ==
    ASSUME TypeOK, Held, Serial, Gap, Steady, Bounded, [Next]_vars
    PROVE  Bounded'
<1> USE NoneAssumption, RolesAssumption, BoundAssumption DEF Serial, Gap, Steady, Bounded, Limit,
       Coming, Outside, Began, FindsActive
<1> USE DEF Numbers
<1>0. Numbers
  BY TypesNumbers
<1> USE <1>0
<1>1. CASE UNCHANGED vars
  BY <1>1 DEF vars, disk, logs, locks
<1>2. ASSUME NEW p \in Writers, OpenDot(p) PROVE Bounded'
  BY <1>2 DEF OpenDot, TypeOK, disk, logs, locks, Goto, Procs
<1>3. ASSUME NEW p \in Writers, StatDot(p) PROVE Bounded'
  BY <1>3 DEF StatDot, TypeOK, disk, logs, locks, Goto, Procs
<1>4. ASSUME NEW p \in Writers, ReadDot(p) PROVE Bounded'
  <2>1. DotRead(p)
    BY <1>4, ReadsDot
  <2> QED BY <2>1 DEF DotRead, Procs
<1>5. ASSUME NEW p \in Writers, OpenLog(p) PROVE Bounded'
  BY <1>5 DEF OpenLog, TypeOK, disk, logs, locks, Goto, Procs
<1>6. ASSUME NEW p \in Writers, Close(p) PROVE Bounded'
  BY <1>6 DEF Close, TypeOK, disk, logs, locks, Goto, Procs
<1>7. ASSUME NEW p \in Writers, Acquire(p) PROVE Bounded'
  BY <1>7 DEF Acquire, TypeOK, disk, logs, locks, Goto, Procs
<1>8. ASSUME NEW p \in Writers, Release(p) PROVE Bounded'
  BY <1>8 DEF Release, TypeOK, disk, logs, locks, Goto, Procs
<1>9. ASSUME NEW p \in Writers, Commit(p) PROVE Bounded'
  BY <1>9 DEF Commit, TypeOK, disk, logs, locks, Goto, Procs
<1>10. ASSUME NEW p \in Writers, CommitReturns(p) PROVE Bounded'
  BY <1>10 DEF CommitReturns, TypeOK, disk, logs, locks, Goto, Procs
<1>11. ASSUME NEW p \in Writers, FinaliseRename(p) PROVE Bounded'
  BY <1>11 DEF FinaliseRename, TypeOK, disk, logs, locks, Goto, Procs
<1>12. ASSUME NEW p \in Writers, FinaliseCreate(p) PROVE Bounded'
  BY <1>12 DEF FinaliseCreate, TypeOK, disk, logs, locks, Goto, Procs
<1>13. ASSUME NEW p \in Writers, Fail(p) PROVE Bounded'
  BY <1>13 DEF Fail, TypeOK, disk, logs, locks, Goto, Procs
<1>14. ASSUME NEW p \in Packers, PackBegins(p) PROVE Bounded'
  BY <1>14 DEF PackBegins, TypeOK, disk, logs, locks, Goto, Procs
<1>15. ASSUME NEW p \in Packers, PackReturns(p) PROVE Bounded'
  BY <1>15 DEF PackReturns, TypeOK, disk, logs, locks, Goto, Procs
<1>16. ASSUME NEW p \in Procs, Read(p) PROVE Bounded'
  <2>1. HasRead(p)
    BY <1>16, Reads
  <2>2. wl = p => p \in Writers
    BY DEF Procs
  <2>3. Limit' = Limit
    BY <2>1, <2>2 DEF HasRead, Procs
  <2>4. cached'[p].idx <= Limit
    BY <2>1 DEF HasRead
  <2> QED BY <2>1, <2>3, <2>4 DEF HasRead
<1>17. ASSUME NEW p \in Procs, Lock(p) PROVE Bounded'
  <2>1. HasLocked(p)
    BY <1>17, Locks
  <2>2. wl = p => p \in Writers /\ p \notin Packers
    BY DEF Procs
  <2>3. Limit <= Limit' /\ Limit \in Nat /\ Limit' \in Nat
    BY <2>1, <2>2 DEF HasLocked, Procs
  <2>4. p \in Writers => wl = p /\ Limit' = IF exists THEN top ELSE new[p].idx
    BY <2>1 DEF HasLocked
  <2>5. cached'[p].idx <= Limit'
    BY <2>1, <2>3, <2>4 DEF HasLocked, Procs
  <2> HIDE DEF Limit
  <2>6. \A i \in Ino : data'[i] # Empty => data'[i].idx <= Limit'
    BY <2>1, <2>3 DEF HasLocked
  <2>7. \A o \in Procs : cached'[o].idx <= Limit'
    BY <2>1, <2>3, <2>5 DEF HasLocked
  <2> QED BY <2>6, <2>7
<1>18. ASSUME NEW p \in Procs, EndUnlocked(p) PROVE Bounded'
  BY <1>18 DEF EndUnlocked, TypeOK, disk, logs, locks, Goto, Procs
<1>19. ASSUME NEW p \in Procs, Write(p) PROVE Bounded'
  BY <1>19 DEF Write, TypeOK, disk, logs, locks, Goto, Procs
<1>20. ASSUME NEW p \in Procs, Rename(p) PROVE Bounded'
  BY ZenonT(60), <1>20 DEF Rename, TypeOK, disk, logs, locks, Goto, Procs
<1>21. ASSUME NEW p \in Procs, Unlink(p) PROVE Bounded'
  BY <1>21 DEF Unlink, TypeOK, disk, logs, locks, Goto, Procs
<1>22. ASSUME NEW p \in Procs, Stat(p) PROVE Bounded'
  BY <1>22 DEF Stat, TypeOK, disk, logs, locks, Goto, Procs
<1>23. ASSUME NEW p \in Procs, Die(p) PROVE Bounded'
  <2>1. pc'[p] = "dead" /\ \A o \in Procs : o # p => pc'[o] = pc[o]
    BY <1>23 DEF Die, TypeOK, Goto
  <2>2. UNCHANGED <<data, wl, top, exists, cached>>
    BY <1>23 DEF Die, disk, logs, locks
  <2>3. wl # None => wl \in Procs
    BY DEF Procs
  <2>4. Limit <= Limit' /\ Limit \in Nat /\ Limit' \in Nat
    BY <2>1, <2>2, <2>3
  <2> HIDE DEF Limit
  <2>5. \A i \in Ino : data'[i] # Empty => data'[i].idx <= Limit'
    BY <2>2, <2>4
  <2>6. \A o \in Procs : cached'[o].idx <= Limit'
    BY <2>2, <2>4
  <2> QED BY <2>5, <2>6
<1> QED BY <1>1, <1>2, <1>3, <1>4, <1>5, <1>6, <1>7, <1>8, <1>9, <1>10, <1>11, <1>12, <1>13,
          <1>14, <1>15, <1>16, <1>17, <1>18, <1>19, <1>20, <1>21, <1>22, <1>23
       DEF Next, Opening, Writing, Packing, Update

-----------------------------------------------------------------------------
(* With one writer *)

\* Only the writer itself changes which file is the active one.
LEMMA KeepsNext ==
    ASSUME NEW w, Writers = {w}, TypeOK, Serial, Gap, Keeps, [Next]_vars
    PROVE  Keeps'
<1> USE NoneAssumption, RolesAssumption DEF Serial, Gap, Keeps, Coming, Outside, Began, FindsActive
<1> USE DEF Numbers
<1>0. Numbers
  BY TypesNumbers
<1> USE <1>0
<1>1. CASE UNCHANGED vars
  BY <1>1 DEF vars, disk, logs, locks
<1>2. ASSUME NEW p \in Writers, OpenDot(p) PROVE Keeps'
  BY <1>2 DEF OpenDot, TypeOK, disk, logs, locks, Goto, Procs
<1>3. ASSUME NEW p \in Writers, StatDot(p) PROVE Keeps'
  BY <1>3 DEF StatDot, TypeOK, disk, logs, locks, Goto, Procs
<1>4. ASSUME NEW p \in Writers, ReadDot(p) PROVE Keeps'
  BY <1>4 DEF ReadDot, TypeOK, disk, logs, locks, Goto, Procs
<1>5. ASSUME NEW p \in Writers, OpenLog(p) PROVE Keeps'
  BY <1>5 DEF OpenLog, TypeOK, disk, logs, locks, Goto, Procs
<1>6. ASSUME NEW p \in Writers, Close(p) PROVE Keeps'
  BY <1>6 DEF Close, TypeOK, disk, logs, locks, Goto, Procs
<1>7. ASSUME NEW p \in Writers, Acquire(p) PROVE Keeps'
  BY <1>7 DEF Acquire, TypeOK, disk, logs, locks, Goto, Procs
<1>8. ASSUME NEW p \in Writers, Release(p) PROVE Keeps'
  BY <1>8 DEF Release, TypeOK, disk, logs, locks, Goto, Procs
<1>9. ASSUME NEW p \in Writers, Commit(p) PROVE Keeps'
  BY <1>9 DEF Commit, TypeOK, disk, logs, locks, Goto, Procs
<1>10. ASSUME NEW p \in Writers, CommitReturns(p) PROVE Keeps'
  BY <1>10 DEF CommitReturns, TypeOK, disk, logs, locks, Goto, Procs
<1>11. ASSUME NEW p \in Writers, FinaliseRename(p) PROVE Keeps'
  BY <1>11 DEF FinaliseRename, TypeOK, disk, logs, locks, Goto, Procs
<1>12. ASSUME NEW p \in Writers, FinaliseCreate(p) PROVE Keeps'
  BY <1>12 DEF FinaliseCreate, TypeOK, disk, logs, locks, Goto, Procs
<1>13. ASSUME NEW p \in Writers, Fail(p) PROVE Keeps'
  BY <1>13 DEF Fail, TypeOK, disk, logs, locks, Goto, Procs
<1>14. ASSUME NEW p \in Packers, PackBegins(p) PROVE Keeps'
  BY <1>14 DEF PackBegins, TypeOK, disk, logs, locks, Goto, Procs
<1>15. ASSUME NEW p \in Packers, PackReturns(p) PROVE Keeps'
  BY <1>15 DEF PackReturns, TypeOK, disk, logs, locks, Goto, Procs
<1>16. ASSUME NEW p \in Procs, Read(p) PROVE Keeps'
  BY <1>16 DEF Read, TypeOK, disk, logs, locks, Goto, Procs
<1>17. ASSUME NEW p \in Procs, Lock(p) PROVE Keeps'
  BY <1>17 DEF Lock, TypeOK, disk, logs, locks, Goto, Procs
<1>18. ASSUME NEW p \in Procs, EndUnlocked(p) PROVE Keeps'
  BY <1>18 DEF EndUnlocked, TypeOK, disk, logs, locks, Goto, Procs
<1>19. ASSUME NEW p \in Procs, Write(p) PROVE Keeps'
  BY <1>19 DEF Write, TypeOK, disk, logs, locks, Goto, Procs
<1>20. ASSUME NEW p \in Procs, Rename(p) PROVE Keeps'
  BY <1>20 DEF Rename, TypeOK, disk, logs, locks, Goto, Procs
<1>21. ASSUME NEW p \in Procs, Unlink(p) PROVE Keeps'
  BY <1>21 DEF Unlink, TypeOK, disk, logs, locks, Goto, Procs
<1>22. ASSUME NEW p \in Procs, Stat(p) PROVE Keeps'
  BY <1>22 DEF Stat, TypeOK, disk, logs, locks, Goto, Procs
<1>23. ASSUME NEW p \in Procs, Die(p) PROVE Keeps'
  BY <1>23 DEF Die, TypeOK, disk, logs, locks, Goto, Procs
<1> QED BY <1>1, <1>2, <1>3, <1>4, <1>5, <1>6, <1>7, <1>8, <1>9, <1>10, <1>11, <1>12, <1>13,
          <1>14, <1>15, <1>16, <1>17, <1>18, <1>19, <1>20, <1>21, <1>22, <1>23
       DEF Next, Opening, Writing, Packing, Update

-----------------------------------------------------------------------------
(* Without packers *)

\* What a writer asks for is the end of the log, and the lock file is its own.
LEMMA CurrentNext ==
    ASSUME Packers = {}, TypeOK, Held, Serial, Gap, Current, OwnFile, Rest, Synced, [Next]_vars
    PROVE  Current'
<1> USE NoneAssumption, RolesAssumption, BoundAssumption, DotIsNotEmpty DEF Serial, Gap, Current,
       OwnFile, Rest, Synced, Quiet, Later, Ends, Coming, Outside, Began, FindsActive, Offset,
       Syncs
<1> USE DEF Numbers
<1>0. Numbers
  BY TypesNumbers
<1> USE <1>0
<1>1. CASE UNCHANGED vars
  BY <1>1 DEF vars, disk, logs, locks
<1>2. ASSUME NEW p \in Writers, OpenDot(p) PROVE Current'
  BY <1>2 DEF OpenDot, TypeOK, disk, logs, locks, Goto, Procs
<1>3. ASSUME NEW p \in Writers, StatDot(p) PROVE Current'
  BY <1>3 DEF StatDot, TypeOK, disk, logs, locks, Goto, Procs
<1>4. ASSUME NEW p \in Writers, ReadDot(p) PROVE Current'
  <2>1. DotRead(p)
    BY <1>4, ReadsDot
  <2> QED BY <2>1 DEF DotRead, Procs
<1>5. ASSUME NEW p \in Writers, OpenLog(p) PROVE Current'
  <2>1. LogOpened(p)
    BY <1>5, OpensLog
  <2> QED BY <2>1 DEF LogOpened, Procs
<1>6. ASSUME NEW p \in Writers, Close(p) PROVE Current'
  BY <1>6 DEF Close, TypeOK, disk, logs, locks, Goto, Procs
<1>7. ASSUME NEW p \in Writers, Acquire(p) PROVE Current'
  BY <1>7 DEF Acquire, TypeOK, disk, logs, locks, Goto, Procs
<1>8. ASSUME NEW p \in Writers, Release(p) PROVE Current'
  BY <1>8 DEF Release, TypeOK, disk, logs, locks, Goto, Procs
<1>9. ASSUME NEW p \in Writers, Commit(p) PROVE Current'
  BY <1>9 DEF Commit, TypeOK, disk, logs, locks, Goto, Procs
<1>10. ASSUME NEW p \in Writers, CommitReturns(p) PROVE Current'
  BY <1>10 DEF CommitReturns, TypeOK, disk, logs, locks, Goto, Procs
<1>11. ASSUME NEW p \in Writers, FinaliseRename(p) PROVE Current'
  BY <1>11 DEF FinaliseRename, TypeOK, disk, logs, locks, Goto, Procs
<1>12. ASSUME NEW p \in Writers, FinaliseCreate(p) PROVE Current'
  BY <1>12 DEF FinaliseCreate, TypeOK, disk, logs, locks, Goto, Procs
<1>13. ASSUME NEW p \in Writers, Fail(p) PROVE Current'
  BY <1>13 DEF Fail, TypeOK, disk, logs, locks, Goto, Procs
<1>14. ASSUME NEW p \in Packers, PackBegins(p) PROVE Current'
  BY <1>14 DEF PackBegins, TypeOK, disk, logs, locks, Goto, Procs
<1>15. ASSUME NEW p \in Packers, PackReturns(p) PROVE Current'
  BY <1>15 DEF PackReturns, TypeOK, disk, logs, locks, Goto, Procs
<1>16. ASSUME NEW p \in Procs, Read(p) PROVE Current'
  <2>1. HasRead(p)
    BY <1>16, Reads
  <2> QED BY <2>1 DEF HasRead, Procs
<1>17. ASSUME NEW p \in Procs, Lock(p) PROVE Current'
  <2>1. HasLocked(p)
    BY <1>17, Locks
  <2> QED BY <2>1 DEF HasLocked, Procs
<1>18. ASSUME NEW p \in Procs, EndUnlocked(p) PROVE Current'
  BY <1>18 DEF EndUnlocked, TypeOK, disk, logs, locks, Goto, Procs
<1>19. ASSUME NEW p \in Procs, Write(p) PROVE Current'
  <2>1. wl = p /\ pc[p] = "end" /\ pc'[p] = "rename" /\ lk[p] = lockf /\ lockf # None
    BY <1>19 DEF Write, TypeOK, Goto, Procs
  <2>2. lockf # zsdb /\ lockf \in Ino /\ data'[lockf] = cached[p] /\ data'[zsdb] = data[zsdb]
    BY <1>19, <2>1 DEF Write, TypeOK
  <2>3. \A o \in Writers : o # p => pc'[o] = pc[o] /\ pc[o] \in Outside \cup {"dead"}
    BY <1>19, <2>1 DEF Write, TypeOK, Goto, Procs
  <2>4. UNCHANGED <<zsdb, lockf, wl, top, exists, end, lk, cached, pos, new, seen>>
    BY <1>19 DEF Write, logs, locks
  <2> QED BY <2>1, <2>2, <2>3, <2>4 DEF Procs
<1>20. ASSUME NEW p \in Procs, Rename(p) PROVE Current'
  BY SMTT(60), <1>20 DEF Rename, TypeOK, disk, logs, locks, Goto, Procs
<1>21. ASSUME NEW p \in Procs, Unlink(p) PROVE Current'
  BY <1>21 DEF Unlink, TypeOK, disk, logs, locks, Goto, Procs
<1>22. ASSUME NEW p \in Procs, Stat(p) PROVE Current'
  BY <1>22 DEF Stat, TypeOK, disk, logs, locks, Goto, Procs
<1>23. ASSUME NEW p \in Procs, Die(p) PROVE Current'
  BY <1>23 DEF Die, TypeOK, disk, logs, locks, Goto, Procs
<1> QED BY <1>1, <1>2, <1>3, <1>4, <1>5, <1>6, <1>7, <1>8, <1>9, <1>10, <1>11, <1>12, <1>13,
          <1>14, <1>15, <1>16, <1>17, <1>18, <1>19, <1>20, <1>21, <1>22, <1>23
       DEF Next, Opening, Writing, Packing, Update

\* The lock's name leads to a new file or nowhere.
LEMMA OwnFileNext ==
    ASSUME Packers = {}, TypeOK, Held, Serial, Gap, Current, OwnFile, Rest, Synced, [Next]_vars
    PROVE  OwnFile'
<1> USE NoneAssumption, RolesAssumption, BoundAssumption, DotIsNotEmpty DEF Serial, Gap, Current,
       OwnFile, Rest, Synced, Quiet, Later, Ends, Coming, Outside, Began, FindsActive, Offset,
       Syncs
<1> USE DEF Numbers
<1>0. Numbers
  BY TypesNumbers
<1> USE <1>0
<1>1. CASE UNCHANGED vars
  BY <1>1 DEF vars, disk, logs, locks
<1>2. ASSUME NEW p \in Writers, OpenDot(p) PROVE OwnFile'
  BY <1>2 DEF OpenDot, TypeOK, disk, logs, locks, Goto, Procs
<1>3. ASSUME NEW p \in Writers, StatDot(p) PROVE OwnFile'
  BY <1>3 DEF StatDot, TypeOK, disk, logs, locks, Goto, Procs
<1>4. ASSUME NEW p \in Writers, ReadDot(p) PROVE OwnFile'
  <2>1. DotRead(p)
    BY <1>4, ReadsDot
  <2> QED BY <2>1 DEF DotRead, Procs
<1>5. ASSUME NEW p \in Writers, OpenLog(p) PROVE OwnFile'
  <2>1. LogOpened(p)
    BY <1>5, OpensLog
  <2> QED BY <2>1 DEF LogOpened, Procs
<1>6. ASSUME NEW p \in Writers, Close(p) PROVE OwnFile'
  BY <1>6 DEF Close, TypeOK, disk, logs, locks, Goto, Procs
<1>7. ASSUME NEW p \in Writers, Acquire(p) PROVE OwnFile'
  BY <1>7 DEF Acquire, TypeOK, disk, logs, locks, Goto, Procs
<1>8. ASSUME NEW p \in Writers, Release(p) PROVE OwnFile'
  BY <1>8 DEF Release, TypeOK, disk, logs, locks, Goto, Procs
<1>9. ASSUME NEW p \in Writers, Commit(p) PROVE OwnFile'
  BY <1>9 DEF Commit, TypeOK, disk, logs, locks, Goto, Procs
<1>10. ASSUME NEW p \in Writers, CommitReturns(p) PROVE OwnFile'
  BY <1>10 DEF CommitReturns, TypeOK, disk, logs, locks, Goto, Procs
<1>11. ASSUME NEW p \in Writers, FinaliseRename(p) PROVE OwnFile'
  BY <1>11 DEF FinaliseRename, TypeOK, disk, logs, locks, Goto, Procs
<1>12. ASSUME NEW p \in Writers, FinaliseCreate(p) PROVE OwnFile'
  BY <1>12 DEF FinaliseCreate, TypeOK, disk, logs, locks, Goto, Procs
<1>13. ASSUME NEW p \in Writers, Fail(p) PROVE OwnFile'
  BY <1>13 DEF Fail, TypeOK, disk, logs, locks, Goto, Procs
<1>14. ASSUME NEW p \in Packers, PackBegins(p) PROVE OwnFile'
  BY <1>14 DEF PackBegins, TypeOK, disk, logs, locks, Goto, Procs
<1>15. ASSUME NEW p \in Packers, PackReturns(p) PROVE OwnFile'
  BY <1>15 DEF PackReturns, TypeOK, disk, logs, locks, Goto, Procs
<1>16. ASSUME NEW p \in Procs, Read(p) PROVE OwnFile'
  <2>1. HasRead(p)
    BY <1>16, Reads
  <2> QED BY <2>1 DEF HasRead, Procs
<1>17. ASSUME NEW p \in Procs, Lock(p) PROVE OwnFile'
  <2>1. HasLocked(p)
    BY <1>17, Locks
  <2> QED BY <2>1 DEF HasLocked, Procs
<1>18. ASSUME NEW p \in Procs, EndUnlocked(p) PROVE OwnFile'
  BY <1>18 DEF EndUnlocked, TypeOK, disk, logs, locks, Goto, Procs
<1>19. ASSUME NEW p \in Procs, Write(p) PROVE OwnFile'
  BY <1>19 DEF Write, TypeOK, disk, logs, locks, Goto, Procs
<1>20. ASSUME NEW p \in Procs, Rename(p) PROVE OwnFile'
  BY <1>20 DEF Rename, TypeOK, disk, logs, locks, Goto, Procs
<1>21. ASSUME NEW p \in Procs, Unlink(p) PROVE OwnFile'
  BY <1>21 DEF Unlink, TypeOK, disk, logs, locks, Goto, Procs
<1>22. ASSUME NEW p \in Procs, Stat(p) PROVE OwnFile'
  BY <1>22 DEF Stat, TypeOK, disk, logs, locks, Goto, Procs
<1>23. ASSUME NEW p \in Procs, Die(p) PROVE OwnFile'
  BY <1>23 DEF Die, TypeOK, disk, logs, locks, Goto, Procs
<1> QED BY <1>1, <1>2, <1>3, <1>4, <1>5, <1>6, <1>7, <1>8, <1>9, <1>10, <1>11, <1>12, <1>13,
          <1>14, <1>15, <1>16, <1>17, <1>18, <1>19, <1>20, <1>21, <1>22, <1>23
       DEF Next, Opening, Writing, Packing, Update

\* .zsdb is complete, and between two writers it is the end of the log.
LEMMA RestNext ==
    ASSUME Packers = {}, TypeOK, Held, Serial, Gap, Current, OwnFile, Rest, Synced, [Next]_vars
    PROVE  Rest'
<1> USE NoneAssumption, RolesAssumption, BoundAssumption, DotIsNotEmpty DEF Serial, Gap, Current,
       OwnFile, Rest, Synced, Quiet, Later, Ends, Coming, Outside, Began, FindsActive, Offset,
       Syncs
<1> USE DEF Numbers
<1>0. Numbers
  BY TypesNumbers
<1> USE <1>0
<1>1. CASE UNCHANGED vars
  BY <1>1 DEF vars, disk, logs, locks
<1>2. ASSUME NEW p \in Writers, OpenDot(p) PROVE Rest'
  BY <1>2 DEF OpenDot, TypeOK, disk, logs, locks, Goto, Procs
<1>3. ASSUME NEW p \in Writers, StatDot(p) PROVE Rest'
  BY <1>3 DEF StatDot, TypeOK, disk, logs, locks, Goto, Procs
<1>4. ASSUME NEW p \in Writers, ReadDot(p) PROVE Rest'
  <2>1. DotRead(p)
    BY <1>4, ReadsDot
  <2> QED BY <2>1 DEF DotRead, Procs
<1>5. ASSUME NEW p \in Writers, OpenLog(p) PROVE Rest'
  <2>1. LogOpened(p)
    BY <1>5, OpensLog
  <2> QED BY <2>1 DEF LogOpened, Procs
<1>6. ASSUME NEW p \in Writers, Close(p) PROVE Rest'
  BY <1>6 DEF Close, TypeOK, disk, logs, locks, Goto, Procs
<1>7. ASSUME NEW p \in Writers, Acquire(p) PROVE Rest'
  BY <1>7 DEF Acquire, TypeOK, disk, logs, locks, Goto, Procs
<1>8. ASSUME NEW p \in Writers, Release(p) PROVE Rest'
  BY <1>8 DEF Release, TypeOK, disk, logs, locks, Goto, Procs
<1>9. ASSUME NEW p \in Writers, Commit(p) PROVE Rest'
  BY <1>9 DEF Commit, TypeOK, disk, logs, locks, Goto, Procs
<1>10. ASSUME NEW p \in Writers, CommitReturns(p) PROVE Rest'
  BY <1>10 DEF CommitReturns, TypeOK, disk, logs, locks, Goto, Procs
<1>11. ASSUME NEW p \in Writers, FinaliseRename(p) PROVE Rest'
  <2>1. wl = p /\ pc'[p] = "read" /\ UNCHANGED <<wl, zsdb, data>>
    BY <1>11 DEF FinaliseRename, TypeOK, disk, locks, Goto, Procs
  <2> QED BY <2>1 DEF Procs
<1>12. ASSUME NEW p \in Writers, FinaliseCreate(p) PROVE Rest'
  <2>1. pc[p] = "done" /\ wl = p /\ ~exists /\ exists' /\ top' = cached[p].idx
    BY <1>12 DEF FinaliseCreate
  <2>2. top' \in 0..MaxIdx
    BY <2>1 DEF TypeOK, Dot, Procs
  <2>3. end'[top'] = 0 /\ pos'[p] = 0
    BY <1>12, <2>1, <2>2 DEF FinaliseCreate, TypeOK, Procs
  <2>4. \A o \in Writers : o # p => pc'[o] = pc[o]
    BY <1>12 DEF FinaliseCreate, Goto
  <2>5. UNCHANGED <<zsdb, data, wl, cached, seen>>
    BY <1>12 DEF FinaliseCreate, disk, locks
  <2> QED BY <2>1, <2>2, <2>3, <2>4, <2>5 DEF Procs
<1>13. ASSUME NEW p \in Writers, Fail(p) PROVE Rest'
  BY <1>13 DEF Fail, TypeOK, disk, logs, locks, Goto, Procs
<1>14. ASSUME NEW p \in Packers, PackBegins(p) PROVE Rest'
  BY <1>14 DEF PackBegins, TypeOK, disk, logs, locks, Goto, Procs
<1>15. ASSUME NEW p \in Packers, PackReturns(p) PROVE Rest'
  BY <1>15 DEF PackReturns, TypeOK, disk, logs, locks, Goto, Procs
<1>16. ASSUME NEW p \in Procs, Read(p) PROVE Rest'
  <2>1. HasRead(p)
    BY <1>16, Reads
  <2> QED BY <2>1 DEF HasRead, Procs
<1>17. ASSUME NEW p \in Procs, Lock(p) PROVE Rest'
  <2>1. HasLocked(p)
    BY <1>17, Locks
  <2> QED BY <2>1 DEF HasLocked, Procs
<1>18. ASSUME NEW p \in Procs, EndUnlocked(p) PROVE Rest'
  BY <1>18 DEF EndUnlocked, TypeOK, disk, logs, locks, Goto, Procs
<1>19. ASSUME NEW p \in Procs, Write(p) PROVE Rest'
  BY <1>19 DEF Write, TypeOK, disk, logs, locks, Goto, Procs
<1>20. ASSUME NEW p \in Procs, Rename(p) PROVE Rest'
  BY <1>20 DEF Rename, TypeOK, disk, logs, locks, Goto, Procs
<1>21. ASSUME NEW p \in Procs, Unlink(p) PROVE Rest'
  BY <1>21 DEF Unlink, TypeOK, disk, logs, locks, Goto, Procs
<1>22. ASSUME NEW p \in Procs, Stat(p) PROVE Rest'
  BY <1>22 DEF Stat, TypeOK, disk, logs, locks, Goto, Procs
<1>23. ASSUME NEW p \in Procs, Die(p) PROVE Rest'
  BY <1>23 DEF Die, TypeOK, disk, logs, locks, Goto, Procs
<1> QED BY <1>1, <1>2, <1>3, <1>4, <1>5, <1>6, <1>7, <1>8, <1>9, <1>10, <1>11, <1>12, <1>13,
          <1>14, <1>15, <1>16, <1>17, <1>18, <1>19, <1>20, <1>21, <1>22, <1>23
       DEF Next, Opening, Writing, Packing, Update

\* An unchanged stat means an unchanged log.
LEMMA SyncedNext ==
    ASSUME Packers = {}, TypeOK, Held, Serial, Gap, Current, OwnFile, Rest, Synced, [Next]_vars
    PROVE  Synced'
<1> USE NoneAssumption, RolesAssumption, BoundAssumption, DotIsNotEmpty DEF Serial, Gap, Current,
       OwnFile, Rest, Synced, Quiet, Later, Ends, Coming, Outside, Began, FindsActive, Offset,
       Syncs
<1> USE DEF Numbers
<1>0. Numbers
  BY TypesNumbers
<1> USE <1>0
<1>1. CASE UNCHANGED vars
  BY <1>1 DEF vars, disk, logs, locks
<1>2. ASSUME NEW p \in Writers, OpenDot(p) PROVE Synced'
  BY <1>2 DEF OpenDot, TypeOK, disk, logs, locks, Goto, Procs
<1>3. ASSUME NEW p \in Writers, StatDot(p) PROVE Synced'
  BY <1>3 DEF StatDot, TypeOK, disk, logs, locks, Goto, Procs
<1>4. ASSUME NEW p \in Writers, ReadDot(p) PROVE Synced'
  <2>1. DotRead(p)
    BY <1>4, ReadsDot
  <2> QED BY <2>1 DEF DotRead, Procs
<1>5. ASSUME NEW p \in Writers, OpenLog(p) PROVE Synced'
  <2>1. LogOpened(p)
    BY <1>5, OpensLog
  <2> QED BY <2>1 DEF LogOpened, Procs
<1>6. ASSUME NEW p \in Writers, Close(p) PROVE Synced'
  BY <1>6 DEF Close, TypeOK, disk, logs, locks, Goto, Procs
<1>7. ASSUME NEW p \in Writers, Acquire(p) PROVE Synced'
  BY <1>7 DEF Acquire, TypeOK, disk, logs, locks, Goto, Procs
<1>8. ASSUME NEW p \in Writers, Release(p) PROVE Synced'
  BY <1>8 DEF Release, TypeOK, disk, logs, locks, Goto, Procs
<1>9. ASSUME NEW p \in Writers, Commit(p) PROVE Synced'
  BY <1>9 DEF Commit, TypeOK, disk, logs, locks, Goto, Procs
<1>10. ASSUME NEW p \in Writers, CommitReturns(p) PROVE Synced'
  BY <1>10 DEF CommitReturns, TypeOK, disk, logs, locks, Goto, Procs
<1>11. ASSUME NEW p \in Writers, FinaliseRename(p) PROVE Synced'
  <2>1. wl = p /\ pc'[p] = "read" /\ UNCHANGED <<wl, zsdb, data>>
    BY <1>11 DEF FinaliseRename, TypeOK, disk, locks, Goto, Procs
  <2> QED BY <2>1 DEF Procs
<1>12. ASSUME NEW p \in Writers, FinaliseCreate(p) PROVE Synced'
  <2>1. pc[p] = "done" /\ wl = p /\ ~exists /\ exists' /\ top' = cached[p].idx
    BY <1>12 DEF FinaliseCreate
  <2>2. top' \in 0..MaxIdx
    BY <2>1 DEF TypeOK, Dot, Procs
  <2>3. end'[top'] = 0 /\ pos'[p] = 0
    BY <1>12, <2>1, <2>2 DEF FinaliseCreate, TypeOK, Procs
  <2>4. \A o \in Writers : o # p => pc'[o] = pc[o]
    BY <1>12 DEF FinaliseCreate, Goto
  <2>5. UNCHANGED <<zsdb, data, wl, cached, seen>>
    BY <1>12 DEF FinaliseCreate, disk, locks
  <2> QED BY <2>1, <2>2, <2>3, <2>4, <2>5 DEF Procs
<1>13. ASSUME NEW p \in Writers, Fail(p) PROVE Synced'
  BY <1>13 DEF Fail, TypeOK, disk, logs, locks, Goto, Procs
<1>14. ASSUME NEW p \in Packers, PackBegins(p) PROVE Synced'
  BY <1>14 DEF PackBegins, TypeOK, disk, logs, locks, Goto, Procs
<1>15. ASSUME NEW p \in Packers, PackReturns(p) PROVE Synced'
  BY <1>15 DEF PackReturns, TypeOK, disk, logs, locks, Goto, Procs
<1>16. ASSUME NEW p \in Procs, Read(p) PROVE Synced'
  <2>1. HasRead(p)
    BY <1>16, Reads
  <2> QED BY <2>1 DEF HasRead, Procs
<1>17. ASSUME NEW p \in Procs, Lock(p) PROVE Synced'
  <2>1. HasLocked(p)
    BY <1>17, Locks
  <2> QED BY <2>1 DEF HasLocked, Procs
<1>18. ASSUME NEW p \in Procs, EndUnlocked(p) PROVE Synced'
  BY <1>18 DEF EndUnlocked, TypeOK, disk, logs, locks, Goto, Procs
<1>19. ASSUME NEW p \in Procs, Write(p) PROVE Synced'
  BY <1>19 DEF Write, TypeOK, disk, logs, locks, Goto, Procs
<1>20. ASSUME NEW p \in Procs, Rename(p) PROVE Synced'
  BY <1>20 DEF Rename, TypeOK, disk, logs, locks, Goto, Procs
<1>21. ASSUME NEW p \in Procs, Unlink(p) PROVE Synced'
  BY <1>21 DEF Unlink, TypeOK, disk, logs, locks, Goto, Procs
<1>22. ASSUME NEW p \in Procs, Stat(p) PROVE Synced'
  BY <1>22 DEF Stat, TypeOK, disk, logs, locks, Goto, Procs
<1>23. ASSUME NEW p \in Procs, Die(p) PROVE Synced'
  BY <1>23 DEF Die, TypeOK, disk, logs, locks, Goto, Procs
<1> QED BY <1>1, <1>2, <1>3, <1>4, <1>5, <1>6, <1>7, <1>8, <1>9, <1>10, <1>11, <1>12, <1>13,
          <1>14, <1>15, <1>16, <1>17, <1>18, <1>19, <1>20, <1>21, <1>22, <1>23
       DEF Next, Opening, Writing, Packing, Update

-----------------------------------------------------------------------------
(* The theorems *)

\* The start: nobody has the directory open and .zsdb names the first file.
LEMMA InvInit == Init => Inv1 /\ Keeps
<1> SUFFICES ASSUME Init PROVE Inv1 /\ Keeps
  OBVIOUS
<1> USE BoundAssumption, NoneAssumption DEF Init, Procs, Ino
<1>1. TypeOK
  BY DEF TypeOK, Dot, Dot0
<1>2. Held /\ Serial /\ Gap /\ Steady /\ Keeps
  BY DEF Held, Serial, Gap, Steady, Keeps, Outside, Began
<1>3. Bounded
  <2>1. Limit = 0
    BY DEF Limit
  <2>2. \A i \in Ino : data[i] # Empty => data[i].idx = 0
    BY DEF Dot0
  <2> QED BY <2>1, <2>2 DEF Bounded, Dot0
<1>4. data[zsdb] = Dot0 /\ Dot0 \in Dot /\ Dot0.idx = 0 /\ Dot0.off = 0
  BY DEF Dot0, Dot
<1>5. Current /\ OwnFile /\ Synced
  BY <1>4 DEF Current, OwnFile, Synced, Began
<1>6. Rest
  BY <1>4, DotIsNotEmpty DEF Rest, Ends, Coming
<1> QED BY <1>1, <1>2, <1>3, <1>5, <1>6 DEF Inv, Inv1

\* The invariant, whatever writers and packers do.
LEMMA InvAlways == Spec => []Inv
<1>1. Inv /\ [Next]_vars => Inv'
  BY TypeNext, HeldNext, SerialNext, GapNext, SteadyNext, BoundedNext DEF Inv
<1>2. Init => Inv
  BY InvInit DEF Inv1
<1> QED BY <1>1, <1>2, PTL DEF Spec

\* Every reachable state is well typed: no process writes into, or reads from,
\* a lock file it does not have.
THEOREM TypeCorrect == Spec => []TypeOK
BY InvAlways, PTL DEF Inv

\* Whichever of the updates of any writers and packers is lost, .zsdb names no
\* file beyond the active one, except the one that a writer which has renamed
\* the active file is about to create, or died before it did.
THEOREM NotAhead == Spec => []NeverAhead
<1>1. Inv => NeverAhead
  <2> SUFFICES ASSUME Inv, DotComplete
               PROVE  data[zsdb].idx <= top \/ (~exists /\ wl # None /\ data[zsdb].idx = top + 1)
    BY DEF NeverAhead
  <2>1. data[zsdb].idx <= Limit /\ data[zsdb].idx \in Nat /\ top \in Nat
    BY TypesNumbers DEF Inv, Bounded, Numbers, DotComplete
  <2>2. Limit = top \/ (~exists /\ Limit = top + 1)
    <3>1. wl # None => wl \in Writers
      BY DEF Inv, TypeOK
    <3> QED BY <3>1 DEF Inv, Limit, Gap, Steady
  <2>3. ~exists => wl # None
    BY DEF Inv, Gap
  <2> QED BY <2>1, <2>2, <2>3
<1> QED BY <1>1, InvAlways, PTL

\* Whatever packers do to .zsdb under a sole writer's feet, between its calls
\* the writer is in the one active file that exists.
THEOREM KeepsFile ==
    ASSUME NEW w, Writers = {w}
    PROVE  Spec => []WriterKeepsFile
<1>1. Inv /\ Keeps /\ [Next]_vars => Keeps'
  BY KeepsNext DEF Inv
<1>2. Keeps => WriterKeepsFile
  BY DEF Keeps, WriterKeepsFile
<1>3. Init => Keeps
  BY InvInit
<1> QED BY <1>1, <1>2, <1>3, InvAlways, PTL DEF Spec

\* The stronger invariant, for writers alone.
LEMMA Inv1Next ==
    ASSUME Packers = {}, Inv1, [Next]_vars
    PROVE  Inv1'
BY TypeNext, HeldNext, SerialNext, GapNext, SteadyNext, BoundedNext, CurrentNext, OwnFileNext,
   RestNext, SyncedNext
   DEF Inv, Inv1

\* It holds in every behaviour without packers.
LEMMA Inv1Always ==
    ASSUME Packers = {}
    PROVE  Spec => []Inv1
<1>1. Inv1 /\ [Next]_vars => Inv1'
  BY Inv1Next
<1>2. Init => Inv1
  BY InvInit
<1> QED BY <1>1, <1>2, PTL DEF Spec

\* The steps of rename-into-place hide a half-written file at every moment,
\* wherever a writer dies: update_begin's "this should *never* happen here".
THEOREM CompleteDot ==
    ASSUME Packers = {}
    PROVE  Spec => []DotComplete
<1>1. Inv1 => DotComplete
  BY DEF Inv1, Rest, DotComplete
<1> QED BY <1>1, Inv1Always, PTL

\* Between two writers zsdb_open finds the active file .zsdb names, and no
\* lock file of an update.
THEOREM OpensAtRest ==
    ASSUME Packers = {}
    PROVE  Spec => []OpenableAtRest
<1>1. Inv1 => OpenableAtRest
  BY DEF Inv1, Rest, Ends, Coming, OwnFile, OpenableAtRest, Openable
<1> QED BY <1>1, Inv1Always, PTL

\* However the opens of writers interleave with the others' commits,
\* finalisations and deaths, a writer that finds its stat unchanged under the
\* write lock appends at the end of the active file.
THEOREM AtEnd ==
    ASSUME Packers = {}
    PROVE  Spec => []WriterAtEnd
<1>1. Inv1 => WriterAtEnd
  <2> SUFFICES ASSUME Inv1, NEW p \in Writers, pc[p] = "open", seen[p] = zsdb
               PROVE  exists /\ cached[p].idx = top /\ pos[p] = end[top]
    BY DEF WriterAtEnd
  <2>1. Quiet
    BY DEF Inv1, Inv, Serial, Quiet
  <2> QED BY <2>1 DEF Inv1, Synced
<1> QED BY <1>1, Inv1Always, PTL

\* A step moves the committed position in .zsdb on, or leaves it.
LEMMA Advances ==
    ASSUME Packers = {}, Inv1, [Next]_vars
    PROVE  data[zsdb]' = data[zsdb] \/ Later(data[zsdb], data[zsdb]')
<1> DEFINE Moves == data[zsdb]' = data[zsdb] \/ Later(data[zsdb], data[zsdb]')
<1> USE NoneAssumption DEF Inv1, Inv, TypeOK, Serial, Current, OwnFile, Began, Outside, Procs
<1>1. ASSUME NEW p \in Procs, Write(p) PROVE Moves
  BY <1>1 DEF Write
<1>2. ASSUME NEW p \in Procs, Rename(p) PROVE Moves
  BY <1>2 DEF Rename
<1>3. ASSUME UNCHANGED <<zsdb, data>> PROVE Moves
  BY <1>3
<1>4. ASSUME NEW p \in Procs, \/ Read(p) \/ Lock(p) \/ EndUnlocked(p) \/ Unlink(p)
                              \/ Stat(p) \/ Die(p)
      PROVE  UNCHANGED <<zsdb, data>>
  BY <1>4 DEF Read, Lock, EndUnlocked, Unlink, Stat, Die, disk
<1>5. ASSUME NEW p \in Writers, Opening(p) PROVE UNCHANGED <<zsdb, data>>
  BY <1>5 DEF Opening, OpenDot, StatDot, ReadDot, OpenLog, Close, disk
<1>6. ASSUME NEW p \in Writers, Writing(p) PROVE UNCHANGED <<zsdb, data>>
  BY <1>6 DEF Writing, Acquire, Release, Commit, CommitReturns, FinaliseRename, FinaliseCreate,
              Fail, disk
<1>7. UNCHANGED vars => UNCHANGED <<zsdb, data>>
  BY DEF vars
<1>8. ASSUME Next PROVE Moves
  <2> HIDE DEF Moves
  <2> QED BY <1>1, <1>2, <1>3, <1>4, <1>5, <1>6, <1>8 DEF Next, Update
<1> QED BY <1>3, <1>7, <1>8

\* The committed position never moves back, however the writers' opens, updates
\* and deaths interleave.
THEOREM Advance ==
    ASSUME Packers = {}
    PROVE  Spec => DotAdvances
<1>1. Inv1 /\ [Next]_vars => [\/ data[zsdb]'.idx > data[zsdb].idx
                              \/ /\ data[zsdb]'.idx = data[zsdb].idx
                                 /\ data[zsdb]'.off >= data[zsdb].off]_vars
  <2> SUFFICES ASSUME Inv1, [Next]_vars
               PROVE  \/ data[zsdb]'.idx > data[zsdb].idx
                      \/ data[zsdb]'.idx = data[zsdb].idx /\ data[zsdb]'.off >= data[zsdb].off
    OBVIOUS
  <2>1. data[zsdb] \in Dot /\ data[zsdb]' \in Dot
    BY Inv1Next DEF Inv1, Inv, TypeOK, Rest
  <2>2. data[zsdb].off \in Nat /\ data[zsdb]'.off \in Nat
    BY <2>1, BoundAssumption DEF Dot
  <2> QED BY <2>2, Advances DEF Later
<1> QED BY <1>1, Inv1Always, PTL DEF Spec, DotAdvances
=============================================================================
