--------------------------- MODULE ZeroskipProofs ---------------------------
(***************************************************************************)
(* What holds of the handles on a directory for any number of them, any    *)
(* keys, values and bounds.  Type correctness holds whatever they do, and  *)
(* so does that there is one active file above the finalised ones.  For    *)
(* disciplined writers that add, commit, finalise and may die, the         *)
(* inductive invariant WriterInv gives the shape of the directory, that    *)
(* writers append, and that acknowledged records stay.                     *)
(*                                                                         *)
(* The second half is about what a replay of the log files yields: the     *)
(* memory of a disciplined writer is what a replay of the directory would  *)
(* give, and the directory implements KVStore.  The same holds of a handle *)
(* that is alone on the directory and makes every call in any order:       *)
(* commits and aborts without the lock, closes or dies in the middle of a  *)
(* transaction; and it is never left unusable.                             *)
(***************************************************************************)
EXTENDS Zeroskip, SequenceTheorems, WellFoundedInduction, TLAPS

-----------------------------------------------------------------------------
(* Records and logs *)

\* The records the calls write are records.
LEMMA RecTypes == /\ CommitRec \in Rec
                  /\ Hole \in Rec
                  /\ \A k \in Keys, c \in Values \cup {Tomb} : KeyRec(k, c) \in Rec
                  /\ \A r \in Rec : r.k \in Keys /\ r.c \in Cell
<1>1. (CHOOSE k \in Keys : TRUE) \in Keys
  BY KeysAssumption
<1>2. /\ CommitRec.t = "commit" /\ CommitRec.k \in Keys /\ CommitRec.c = Absent
      /\ Hole.t = "hole" /\ Hole.k \in Keys /\ Hole.c = Absent
  BY <1>1 DEF CommitRec, Hole
<1>3. \A k \in Keys, c \in Values \cup {Tomb} : KeyRec(k, c) \in Rec
  BY DEF KeyRec, Rec
<1>4. ASSUME NEW r \in Rec PROVE r.k \in Keys /\ r.c \in Cell
  BY <1>2 DEF Rec, Cell
<1> QED
  BY <1>3, <1>4 DEF Rec

\* ftruncate gives a log of the length asked for that agrees with the old one
\* as far as that one went.
LEMMA TruncateProps ==
    ASSUME NEW recs \in Seq(Rec), NEW len \in Nat
    PROVE  /\ Truncate(recs, len) \in Seq(Rec)
           /\ Len(Truncate(recs, len)) = len
           /\ \A n \in 1..len : n <= Len(recs) => Truncate(recs, len)[n] = recs[n]
<1>1. \A n \in 1..len : n <= Len(recs) => recs[n] \in Rec
  BY LenProperties
<1>2. Truncate(recs, len) \in [1..len -> Rec]
  BY <1>1, RecTypes DEF Truncate
<1>3. Truncate(recs, len) \in Seq(Rec)
  BY <1>2, SeqDef
<1>4. Len(Truncate(recs, len)) = len
  BY <1>2, <1>3, LenProperties DEF Truncate
<1> QED
  BY <1>3, <1>4 DEF Truncate

\* A write leaves the records before its offset and ends the log.
LEMMA WriteAtProps ==
    ASSUME NEW recs \in Seq(Rec), NEW off \in Nat, NEW r \in Rec
    PROVE  /\ WriteAt(recs, off, r) \in Seq(Rec)
           /\ Len(WriteAt(recs, off, r)) = off + 1
           /\ \A n \in 1..off : n <= Len(recs) => WriteAt(recs, off, r)[n] = recs[n]
<1> DEFINE t == Truncate(recs, off)
<1>1. t \in Seq(Rec) /\ Len(t) = off /\ \A n \in 1..off : n <= Len(recs) => t[n] = recs[n]
  BY TruncateProps
<1> HIDE DEF t
<1>2. Append(t, r) \in Seq(Rec) /\ Len(Append(t, r)) = off + 1
      /\ \A n \in 1..off : Append(t, r)[n] = t[n]
  BY <1>1
<1> QED
  BY <1>1, <1>2 DEF WriteAt, t

\* A replay gives every key a cell.
LEMMA LoadType == ASSUME NEW recs \in Seq(Rec) PROVE Load(recs) \in [Keys -> Cell]
<1> SUFFICES ASSUME NEW k \in Keys, \E n \in DOMAIN recs : LastRec(recs, k, n)
             PROVE  recs[CHOOSE n \in DOMAIN recs : LastRec(recs, k, n)].c \in Cell
  BY DEF Load, Cell
<1>1. (CHOOSE n \in DOMAIN recs : LastRec(recs, k, n)) \in DOMAIN recs
  OBVIOUS
<1>2. \A n \in DOMAIN recs : recs[n] \in Rec
  BY LenProperties
<1> QED
  BY <1>1, <1>2, RecTypes

\* So do the replays of the finalised files,
LEMMA FinalMapsType ==
    ASSUME NEW f \in [Idx -> FileState] PROVE FinalMaps(f) \in [Idx -> [Keys -> Cell]]
<1>1. NoCells \in [Keys -> Cell]
  BY DEF NoCells, Cell
<1>2. \A i \in Idx : f[i].recs \in Seq(Rec)
  BY DEF FileState
<1> QED
  BY <1>1, <1>2, LoadType DEF FinalMaps

\* and the one memtree they go into.
LEMMA LoadFinalType ==
    ASSUME NEW f \in [Idx -> FileState] PROVE LoadFinal(f) \in [Keys -> Cell]
<1> DEFINE maps == FinalMaps(f)
<1>1. maps \in [Idx -> [Keys -> Cell]]
  BY FinalMapsType
<1> HIDE DEF maps
<1>2. ASSUME NEW k \in Keys, \E i \in Idx : NewestWith(maps, k, i)
      PROVE  maps[CHOOSE i \in Idx : NewestWith(maps, k, i)][k] \in Cell
  <2>1. (CHOOSE i \in Idx : NewestWith(maps, k, i)) \in Idx
    BY <1>2
  <2> QED
    BY <1>1, <2>1
<1>3. LoadFinal(f) = [k \in Keys |-> IF \E i \in Idx : NewestWith(maps, k, i)
                                     THEN maps[CHOOSE i \in Idx : NewestWith(maps, k, i)][k]
                                     ELSE Absent]
  BY DEF LoadFinal, maps
<1>4. Absent \in Cell
  BY DEF Cell
<1> QED
  BY <1>2, <1>3, <1>4

-----------------------------------------------------------------------------
(* Handles *)

Files == [Idx -> FileState]

\* A write touches the records of the writer's file and nothing else.
LEMMA WrittenType ==
    ASSUME NEW f \in Files, NEW H \in Handle, NEW r \in Rec
    PROVE  /\ Written(f, H, r) \in Files
           /\ \A i \in Idx : Written(f, H, r)[i].st = f[i].st
           /\ \A i \in Idx : i # H.cur => Written(f, H, r)[i] = f[i]
           /\ Written(f, H, r)[H.cur].recs = WriteAt(f[H.cur].recs, H.off, r)
<1>1. H.cur \in Idx /\ H.off \in Nat
  BY DEF Handle
<1>2. f[H.cur].recs \in Seq(Rec)
  BY <1>1 DEF Files, FileState
<1>3. WriteAt(f[H.cur].recs, H.off, r) \in Seq(Rec)
  BY <1>1, <1>2, WriteAtProps
<1> QED
  BY <1>1, <1>3 DEF Written, Files, FileState

\* Reopening leaves a handle clean, at the end of its file.
LEMMA ReopenedType ==
    ASSUME NEW f \in Files, NEW H \in Handle
    PROVE  /\ Reopened(H, f) \in Handle
           /\ Reopened(H, f).st = H.st
           /\ Reopened(H, f).cur = H.cur
           /\ Reopened(H, f).off = Len(f[H.cur].recs)
           /\ ~Reopened(H, f).dirty
<1>1. H.cur \in Idx /\ f[H.cur].recs \in Seq(Rec)
  BY DEF Handle, Files, FileState
<1>2. Len(f[H.cur].recs) \in Nat /\ Load(f[H.cur].recs) \in [Keys -> Cell]
  BY <1>1, LoadType, LenProperties
<1>3. LoadFinal(f) \in [Keys -> Cell]
  BY LoadFinalType DEF Files
<1> QED
  BY <1>2, <1>3 DEF Reopened, Handle

\* Having written moves a handle one record on and makes it dirty.
LEMMA WroteType ==
    ASSUME NEW H \in Handle, NEW k \in Keys, NEW c \in Cell
    PROVE  /\ Wrote(H, k, c) \in Handle
           /\ Wrote(H, k, c).st = H.st
           /\ Wrote(H, k, c).cur = H.cur
           /\ Wrote(H, k, c).off = H.off + 1
           /\ Wrote(H, k, c).offset = H.offset
           /\ Wrote(H, k, c).dirty
<1> DEFINE m == [H.mem EXCEPT ![k] = c]
<1>1. m \in [Keys -> Cell]
  BY DEF Handle
<1> HIDE DEF m
<1>2. Wrote(H, k, c) = [H EXCEPT !.off = H.off + 1, !.dirty = TRUE, !.mem = m]
  BY DEF Wrote, Handle, m
<1>3. H.off + 1 \in Nat
  BY DEF Handle
<1> QED
  BY <1>1, <1>2, <1>3 DEF Handle

\* A closed handle is a clean one.
LEMMA ClosedHandleType == ClosedHandle \in Handle /\ ~ClosedHandle.dirty
<1>1. NoCells \in [Keys -> Cell] /\ 0 \in Idx
  BY BoundAssumption DEF NoCells, Cell, Idx
<1> QED
  BY <1>1 DEF ClosedHandle, Handle

\* What a call works on once it has looked at .zsdb is typed.
LEMMA SyncedType ==
    ASSUME TypeOK, NEW h \in Handles
    PROVE  SyncedFile(h) \in Files /\ SyncedHandle(h) \in Handle
<1>1. hs[h] \in Handle /\ file \in Files
  BY DEF TypeOK, Files
<1>2. ClosedFile(file, hs[h]) \in Files
  BY <1>1, WrittenType, RecTypes DEF ClosedFile
<1>3. SyncedFile(h) \in Files
  BY <1>1, <1>2 DEF SyncedFile
<1> QED
  BY <1>1, <1>3, ReopenedType DEF SyncedHandle

\* What finalising does to the two files concerned and to the handle.
LEMMA FinalisedType ==
    ASSUME NEW f \in Files, NEW H \in Handle, H.cur < MaxIdx
    PROVE  /\ Finalised(f, H) \in Files
           /\ NextActive(H) \in Handle
           /\ NextActive(H).cur = H.cur + 1 /\ NextActive(H).cur \in Idx
           /\ NextActive(H).off = 0 /\ NextActive(H).offset = 0
           /\ NextActive(H).st = H.st /\ NextActive(H).dirty = H.dirty
           /\ Finalised(f, H)[H.cur].st = "final"
           /\ Finalised(f, H)[H.cur].recs = WriteAt(f[H.cur].recs, H.off, CommitRec)
           /\ Finalised(f, H)[H.cur + 1] = NewActive
           /\ \A i \in Idx \ {H.cur, H.cur + 1} : Finalised(f, H)[i] = f[i]
<1> DEFINE w == Written(f, H, CommitRec)
<1>1. /\ w \in Files
      /\ \A i \in Idx : i # H.cur => w[i] = f[i]
      /\ w[H.cur].recs = WriteAt(f[H.cur].recs, H.off, CommitRec)
  BY WrittenType, RecTypes
<1> HIDE DEF w
<1>2. H.cur \in Idx /\ H.cur + 1 \in Idx /\ H.cur # H.cur + 1
  BY BoundAssumption DEF Handle, Idx
<1>3. NewActive \in FileState
  BY EmptySeq DEF NewActive, FileState
<1>4. Finalised(f, H) = [w EXCEPT ![H.cur].st = "final", ![H.cur + 1] = NewActive]
  BY DEF Finalised, w
<1>5. Finalised(f, H) \in Files
  BY ZenonT(60), <1>1, <1>2, <1>3, <1>4 DEF Files, FileState
<1>6. NextActive(H) \in Handle
  BY <1>2 DEF NextActive, Handle
<1>7. Finalised(f, H)[H.cur] = [w[H.cur] EXCEPT !.st = "final"]
  BY <1>1, <1>2, <1>4 DEF Files
<1>8. /\ Finalised(f, H)[H.cur].st = "final"
      /\ Finalised(f, H)[H.cur].recs = WriteAt(f[H.cur].recs, H.off, CommitRec)
  BY <1>1, <1>2, <1>7 DEF Files, FileState
<1>9. /\ Finalised(f, H)[H.cur + 1] = NewActive
      /\ \A i \in Idx \ {H.cur, H.cur + 1} : Finalised(f, H)[i] = f[i]
  BY <1>1, <1>2, <1>4 DEF Files
<1> QED
  BY <1>2, <1>5, <1>6, <1>8, <1>9 DEF NextActive, Handle

-----------------------------------------------------------------------------
(* Type correctness, whatever the handles do *)

\* zsdb_create makes a typed directory.
LEMMA InitType == Init => TypeOK
<1> SUFFICES ASSUME Init PROVE TypeOK
  OBVIOUS
<1>1. NewActive \in FileState /\ NoFile \in FileState /\ 0 \in Idx
  BY EmptySeq, BoundAssumption DEF NewActive, NoFile, FileState, Idx
<1> QED
  BY <1>1, ClosedHandleType DEF Init, TypeOK

\* Assigning a well-typed handle keeps hs well typed.
LEMMA HandleUpdate ==
    ASSUME TypeOK, NEW h \in Handles, NEW H \in Handle, hs' = [hs EXCEPT ![h] = H]
    PROVE  hs' \in [Handles -> Handle]
BY DEF TypeOK

\* Setting only the status of a handle keeps hs typed.
LEMMA StatusUpdate ==
    ASSUME NEW H \in Handle,
           NEW s \in {"closed", "open", "closing", "broken", "hung", "asserted"}
    PROVE  /\ [H EXCEPT !.st = s] \in Handle
           /\ [H EXCEPT !.dirty = FALSE] \in Handle
           /\ [H EXCEPT !.st = s, !.dirty = FALSE] \in Handle
BY DEF Handle

\* A reload that fails keeps the types.
LEMMA ReloadFailsType == ASSUME TypeOK, NEW h \in Handles, ReloadFails(h) PROVE TypeOK'
<1>1. hs[h] \in Handle /\ SyncedFile(h) \in Files
  BY SyncedType DEF TypeOK
<1>2. file' \in [Idx -> FileState]
  BY <1>1 DEF ReloadFails, Files
<1>3. hs' \in [Handles -> Handle]
  <2>1. CASE hs' = [hs EXCEPT ![h].st = "hung"]
    <3>1. hs' = [hs EXCEPT ![h] = [hs[h] EXCEPT !.st = "hung"]]
      BY <2>1
    <3> QED
      BY <1>1, <3>1, StatusUpdate, HandleUpdate
  <2>2. CASE hs' = [hs EXCEPT ![h].st = "broken", ![h].dirty = FALSE]
    <3>1. hs' = [hs EXCEPT ![h] = [hs[h] EXCEPT !.st = "broken", !.dirty = FALSE]]
      BY <2>2 DEF TypeOK
    <3> QED
      BY <1>1, <3>1, StatusUpdate, HandleUpdate
  <2> QED
    BY <2>1, <2>2 DEF ReloadFails
<1> QED
  BY <1>2, <1>3 DEF ReloadFails, TypeOK

\* A finalise whose rename fails keeps the types.
LEMMA RenameFailsType ==
    ASSUME TypeOK, NEW h \in Handles, NEW f \in Files, NEW H \in Handle, RenameFails(h, f, H)
    PROVE  TypeOK'
<1>1. file' \in [Idx -> FileState]
  BY WrittenType, RecTypes DEF RenameFails, Files
<1>2. hs' \in [Handles -> Handle]
  BY StatusUpdate, HandleUpdate DEF RenameFails
<1> QED
  BY <1>1, <1>2 DEF RenameFails, TypeOK

\* zsdb_open keeps the types.
LEMMA OpenType == ASSUME TypeOK, NEW h \in Handles, Open(h) PROVE TypeOK'
<1> DEFINE H == [ClosedHandle EXCEPT !.cur = dot.cur, !.offset = dot.offset]
<1>1. H \in Handle /\ file \in Files
  BY ClosedHandleType DEF Handle, TypeOK, Files
<1>2. /\ [H EXCEPT !.st = "hung"] \in Handle
      /\ [Reopened(H, file) EXCEPT !.st = "open"] \in Handle
  BY <1>1, ReopenedType, StatusUpdate
<1>3. hs' = [hs EXCEPT ![h] = IF HasHole(file)
                              THEN [H EXCEPT !.st = "hung"]
                              ELSE [Reopened(H, file) EXCEPT !.st = "open"]]
  BY DEF Open
<1> HIDE DEF H
<1>4. hs' \in [Handles -> Handle]
  BY <1>2, <1>3, HandleUpdate
<1> QED
  BY <1>4 DEF Open, TypeOK

\* zsdb_add keeps the types.
LEMMA AddType ==
    ASSUME TypeOK, NEW h \in Handles, NEW k \in Keys, NEW v \in Values, Add(h, k, v)
    PROVE  TypeOK'
<1> DEFINE f == SyncedFile(h)
           H == SyncedHandle(h)
           N == NextActive(H)
<1>1. f \in Files /\ H \in Handle
  BY SyncedType
<1>2. v \in Cell /\ KeyRec(k, v) \in Rec
  BY RecTypes DEF Cell
<1>3. CASE ReloadFails(h)
  BY <1>3, ReloadFailsType
<1>4. CASE AddHere(h, k, v)
  <2>1. file' \in [Idx -> FileState]
    BY <1>1, <1>2, <1>4, WrittenType DEF AddHere, Files
  <2>2. hs' \in [Handles -> Handle]
    BY <1>1, <1>2, <1>4, WroteType, HandleUpdate DEF AddHere
  <2> QED
    BY <1>4, <2>1, <2>2 DEF AddHere, TypeOK
<1>5. CASE AddToNext(h, k, v) /\ RenameFails(h, f, H)
  BY <1>1, <1>5, RenameFailsType
<1>6. CASE AddToNext(h, k, v) /\ ~RenameFails(h, f, H)
  <2>1. /\ H.cur < MaxIdx
        /\ file' = Written(Finalised(f, H), N, KeyRec(k, v))
        /\ hs' = [hs EXCEPT ![h] = Wrote(N, k, v)]
        /\ dot' = DotOf(N)
        /\ fresh' = {h}
        /\ UNCHANGED wlock
    BY <1>6 DEF AddToNext
  <2>2. Finalised(f, H) \in Files /\ N \in Handle
    BY <1>1, <2>1, FinalisedType
  <2> HIDE DEF f, H, N
  <2>3. file' \in [Idx -> FileState]
    BY <1>2, <2>1, <2>2, WrittenType DEF Files
  <2>4. hs' \in [Handles -> Handle]
    BY <1>2, <2>1, <2>2, WroteType, HandleUpdate
  <2>5. dot' \in [cur : Idx, offset : Nat]
    BY <2>1, <2>2 DEF DotOf, Handle
  <2> QED
    BY <2>1, <2>3, <2>4, <2>5 DEF TypeOK
<1> QED
  BY <1>3, <1>4, <1>5, <1>6 DEF Add

\* zsdb_remove keeps the types.
LEMMA RemoveType ==
    ASSUME TypeOK, NEW h \in Handles, NEW k \in Keys, Remove(h, k) PROVE TypeOK'
<1>1. hs[h] \in Handle /\ file \in Files /\ Tomb \in Cell /\ KeyRec(k, Tomb) \in Rec
  BY RecTypes DEF TypeOK, Files, Cell
<1>2. file' \in [Idx -> FileState]
  BY <1>1, WrittenType DEF Remove, Files
<1>3. hs' \in [Handles -> Handle]
  <2>1. hs' = [hs EXCEPT ![h] = Wrote(hs[h], k, Tomb)]
    BY DEF Remove
  <2> QED
    BY <1>1, <2>1, WroteType, HandleUpdate
<1> QED
  BY <1>2, <1>3 DEF Remove, TypeOK

\* zsdb_commit keeps the types.
LEMMA CommitType == ASSUME TypeOK, NEW h \in Handles, Commit(h) PROVE TypeOK'
<1> DEFINE H == [hs[h] EXCEPT !.off = @ + 1, !.offset = hs[h].off + 1, !.dirty = FALSE]
<1>1. hs[h] \in Handle /\ file \in Files
  BY DEF TypeOK, Files
<1>2. hs[h].off + 1 \in Nat
  BY <1>1 DEF Handle
<1>3. H \in Handle
  BY <1>1, <1>2 DEF Handle
<1>4. hs' = [hs EXCEPT ![h] = H] /\ dot' = DotOf(H)
  BY DEF Commit
<1> HIDE DEF H
<1>5. hs' \in [Handles -> Handle] /\ dot' \in [cur : Idx, offset : Nat]
  BY <1>3, <1>4, HandleUpdate DEF DotOf, Handle
<1>6. file' \in [Idx -> FileState]
  BY <1>1, WrittenType, RecTypes DEF Commit, Files
<1> QED
  BY <1>5, <1>6 DEF Commit, TypeOK

\* A commit by a handle without a file keeps the types.
LEMMA CommitBrokenType == ASSUME TypeOK, NEW h \in Handles, CommitBroken(h) PROVE TypeOK'
<1> DEFINE H == [hs[h] EXCEPT !.offset = 0]
<1>1. H \in Handle
  BY DEF TypeOK, Handle
<1>2. hs' = [hs EXCEPT ![h] = H] /\ dot' = DotOf(H)
  BY DEF CommitBroken
<1> HIDE DEF H
<1>3. hs' \in [Handles -> Handle] /\ dot' \in [cur : Idx, offset : Nat]
  BY <1>1, <1>2, HandleUpdate DEF DotOf, Handle
<1> QED
  BY <1>3 DEF CommitBroken, TypeOK

\* zsdb_abort keeps the types.
LEMMA AbortType == ASSUME TypeOK, NEW h \in Handles, Abort(h) PROVE TypeOK'
<1> DEFINE H == [hs[h] EXCEPT !.dirty = FALSE]
           f == [file EXCEPT ![H.cur].recs = Truncate(@, H.offset)]
<1>1. H \in Handle
  BY StatusUpdate DEF TypeOK
<1>2. H.cur \in Idx /\ H.offset \in Nat /\ file[H.cur].recs \in Seq(Rec)
  BY <1>1 DEF TypeOK, Handle, FileState
<1>3. Truncate(file[H.cur].recs, H.offset) \in Seq(Rec)
  BY <1>2, TruncateProps
<1>4. f \in Files
  BY <1>2, <1>3 DEF TypeOK, FileState, Files
<1>5. /\ file' = f
      /\ \/ /\ hs' = [hs EXCEPT ![h] = [ClosedHandle EXCEPT !.st = "asserted"]]
            /\ wlock' = IF wlock = h THEN Stale ELSE wlock
         \/ hs' = [hs EXCEPT ![h] = Reopened(H, f)] /\ UNCHANGED wlock
         \/ hs' = [hs EXCEPT ![h] = [H EXCEPT !.st = "hung"]] /\ wlock' = h
         \/ hs' = [hs EXCEPT ![h] = [H EXCEPT !.st = "broken"]] /\ UNCHANGED wlock
      /\ UNCHANGED <<dot, fresh>>
  BY DEF Abort
<1> HIDE DEF f, H
<1>6. /\ [ClosedHandle EXCEPT !.st = "asserted"] \in Handle
      /\ Reopened(H, f) \in Handle
      /\ [H EXCEPT !.st = "hung"] \in Handle
      /\ [H EXCEPT !.st = "broken"] \in Handle
  BY <1>1, <1>4, ClosedHandleType, ReopenedType, StatusUpdate
<1>7. hs' \in [Handles -> Handle]
  BY <1>5, <1>6, HandleUpdate
<1>8. wlock' \in Handles \cup {Free, Stale}
  BY <1>5 DEF TypeOK
<1> QED
  BY <1>4, <1>5, <1>7, <1>8 DEF TypeOK, Files

\* zsdb_finalise keeps the types.
LEMMA FinaliseType == ASSUME TypeOK, NEW h \in Handles, Finalise(h) PROVE TypeOK'
<1> DEFINE f == SyncedFile(h)
           H == SyncedHandle(h)
<1>1. f \in Files /\ H \in Handle
  BY SyncedType
<1>2. CASE ReloadFails(h)
  BY <1>2, ReloadFailsType
<1>3. CASE FinaliseNow(h) /\ RenameFails(h, f, H)
  BY <1>1, <1>3, RenameFailsType
<1>4. CASE FinaliseNow(h) /\ ~RenameFails(h, f, H)
  <2>1. /\ H.cur < MaxIdx
        /\ file' = Finalised(f, H)
        /\ hs' = [hs EXCEPT ![h] = NextActive(H)]
        /\ dot' = DotOf(NextActive(H))
        /\ fresh' = {h}
        /\ UNCHANGED wlock
    BY <1>4 DEF FinaliseNow
  <2> HIDE DEF f, H
  <2>2. Finalised(f, H) \in Files /\ NextActive(H) \in Handle
    BY <1>1, <2>1, FinalisedType
  <2>3. hs' \in [Handles -> Handle]
    BY <2>1, <2>2, HandleUpdate
  <2>4. dot' \in [cur : Idx, offset : Nat]
    BY <2>1, <2>2 DEF DotOf, Handle
  <2> QED
    BY <2>1, <2>2, <2>3, <2>4 DEF TypeOK, Files
<1> QED
  BY <1>2, <1>3, <1>4 DEF Finalise

\* The first half of zsdb_close keeps the types,
LEMMA CloseReleaseType == ASSUME TypeOK, NEW h \in Handles, CloseRelease(h) PROVE TypeOK'
<1>1. hs' \in [Handles -> Handle]
  <2>1. CASE hs' = [hs EXCEPT ![h].st = "closing"]
    <3>1. hs' = [hs EXCEPT ![h] = [hs[h] EXCEPT !.st = "closing"]] /\ hs[h] \in Handle
      BY <2>1 DEF TypeOK
    <3> QED
      BY <3>1, StatusUpdate, HandleUpdate
  <2>2. CASE hs' = [hs EXCEPT ![h] = ClosedHandle]
    BY <2>2, ClosedHandleType, HandleUpdate
  <2> QED
    BY <2>1, <2>2 DEF CloseRelease
<1>2. wlock' \in Handles \cup {Free, Stale}
  BY DEF CloseRelease, TypeOK
<1>3. fresh' \subseteq Handles
  BY DEF CloseRelease, TypeOK
<1> QED
  BY <1>1, <1>2, <1>3 DEF CloseRelease, TypeOK

\* and the second.
LEMMA CloseCommitType == ASSUME TypeOK, NEW h \in Handles, CloseCommit(h) PROVE TypeOK'
<1>1. hs' \in [Handles -> Handle]
  BY ClosedHandleType, HandleUpdate DEF CloseCommit
<1>2. hs[h] \in Handle /\ file \in Files
  BY DEF TypeOK, Files
<1>3. file' \in [Idx -> FileState]
  BY <1>2, WrittenType, RecTypes DEF CloseCommit, ClosedFile, Files
<1> QED
  BY <1>1, <1>3 DEF CloseCommit, TypeOK

\* The death of a process keeps the types.
LEMMA CrashType == ASSUME TypeOK, NEW h \in Handles, Crash(h) PROVE TypeOK'
<1>1. hs' \in [Handles -> Handle]
  BY ClosedHandleType, HandleUpdate DEF Crash
<1> QED
  BY <1>1 DEF Crash, TypeOK

\* Whatever calls any number of handles make, disciplined or not, and whatever
\* they lose of each other's: the files stay logs of records, every offset and
\* index stays in range, and no cache holds what is not a cell.
THEOREM TypeCorrect == Spec => []TypeOK
<1>1. TypeOK /\ [Next]_vars => TypeOK'
  <2> SUFFICES ASSUME TypeOK, [Next]_vars PROVE TypeOK'
    OBVIOUS
  <2>1. CASE UNCHANGED vars
    BY <2>1 DEF vars, TypeOK
  <2>2. ASSUME NEW h \in Handles, Step(h) PROVE TypeOK'
    <3>1. CASE Acquire(h) \/ Release(h) \/ Fetch(h)
      BY <3>1 DEF Acquire, Release, Fetch, TypeOK
    <3> QED
      BY <2>2, <3>1, OpenType, AddType, RemoveType, CommitType, CommitBrokenType, AbortType,
         FinaliseType, CloseReleaseType, CloseCommitType, CrashType DEF Step
  <2> QED
    BY <2>1, <2>2 DEF Next
<1> QED
  BY <1>1, InitType, PTL DEF Spec

-----------------------------------------------------------------------------
(* One active file, whatever the handles do *)

\* The active file is file t, and no handle is ahead of it.
ActiveIs(t) == /\ dot.cur <= t
               /\ \A i \in Idx : file[i].st = IF i < t THEN "final"
                                              ELSE IF i = t THEN "active" ELSE "none"
               /\ \A h \in Handles : hs[h].cur <= t
ChaosInv == \E t \in Idx : ActiveIs(t)

\* A look at .zsdb, with the close and the reopening it may lead to, renames
\* no file and keeps the index.
LEMMA SyncedSame ==
    ASSUME TypeOK, NEW h \in Handles
    PROVE  /\ SyncedFile(h) \in Files /\ SyncedHandle(h) \in Handle
           /\ \A i \in Idx : SyncedFile(h)[i].st = file[i].st
           /\ SyncedHandle(h).cur = hs[h].cur
<1>1. hs[h] \in Handle /\ file \in Files
  BY DEF TypeOK, Files
<1>2. \A i \in Idx : ClosedFile(file, hs[h])[i].st = file[i].st
  BY <1>1, WrittenType, RecTypes DEF ClosedFile
<1>3. SyncedFile(h) \in Files /\ SyncedHandle(h) \in Handle
  BY SyncedType
<1>4. SyncedHandle(h).cur = hs[h].cur
  BY <1>1, <1>3, ReopenedType DEF SyncedHandle
<1> QED BY <1>2, <1>3, <1>4 DEF SyncedFile

\* A call that renames nothing and leaves its handle in a file there is.
LEMMA SameActive ==
    ASSUME TypeOK, NEW t \in Idx, ActiveIs(t), NEW h \in Handles, NEW H \in Handle,
           hs' = [hs EXCEPT ![h] = H], H.cur <= t,
           \A i \in Idx : file'[i].st = file[i].st,
           dot' = dot \/ dot' = DotOf(H)
    PROVE  ActiveIs(t)'
BY DEF TypeOK, ActiveIs, DotOf

\* The active file is finalised and the next one made.
LEMMA NextActiveIs ==
    ASSUME TypeOK, NEW t \in Idx, ActiveIs(t), NEW h \in Handles,
           NEW f \in Files, \A i \in Idx : f[i].st = file[i].st,
           NEW H \in Handle, H.cur < MaxIdx, FindsActive(f, H),
           NEW N \in Handle, N.cur = H.cur + 1, hs' = [hs EXCEPT ![h] = N], dot'.cur = N.cur,
           \A i \in Idx : file'[i].st = Finalised(f, H)[i].st
    PROVE  ChaosInv'
<1>1. H.cur \in Idx /\ t \in Nat /\ \A i \in Idx : i \in Nat
  BY BoundAssumption DEF Handle, Idx
<1>2. H.cur = t
  BY <1>1 DEF FindsActive, ActiveIs
<1>3. t + 1 \in Idx
  BY <1>1, <1>2, BoundAssumption DEF Idx
<1>4. /\ Finalised(f, H)[t].st = "final"
      /\ Finalised(f, H)[t + 1].st = "active"
      /\ \A i \in Idx \ {t, t + 1} : Finalised(f, H)[i] = f[i]
  BY <1>2, FinalisedType DEF NewActive
<1>5. \A i \in Idx : file'[i].st = IF i < t + 1 THEN "final"
                                   ELSE IF i = t + 1 THEN "active" ELSE "none"
  <2> TAKE i \in Idx
  <2>1. f[i].st = IF i < t THEN "final" ELSE IF i = t THEN "active" ELSE "none"
    BY DEF ActiveIs
  <2>2. i = t \/ i = t + 1 \/ Finalised(f, H)[i].st = f[i].st
    BY <1>4
  <2>3. i \in Nat
    BY <1>1
  <2> QED BY <1>1, <1>4, <2>1, <2>2, <2>3
<1>6. \A g \in Handles : hs'[g].cur <= t + 1
  <2>1. \A g \in Handles : hs[g].cur \in Nat
    BY BoundAssumption DEF TypeOK, Handle, Idx
  <2> QED BY <1>1, <1>2, <2>1 DEF TypeOK, ActiveIs
<1>7. dot'.cur <= t + 1
  BY <1>1, <1>2
<1> QED BY <1>3, <1>5, <1>6, <1>7 DEF ChaosInv, ActiveIs

\* A reload that fails leaves the active file where it is.
LEMMA ReloadFailsActive ==
    ASSUME TypeOK, NEW t \in Idx, ActiveIs(t), NEW h \in Handles, ReloadFails(h)
    PROVE  ActiveIs(t)'
<1>1. PICK s \in {"hung", "broken"}, d \in BOOLEAN :
         hs' = [hs EXCEPT ![h] = [hs[h] EXCEPT !.st = s, !.dirty = d]]
  <2>1. CASE hs' = [hs EXCEPT ![h].st = "hung"]
    <3>1. hs' = [hs EXCEPT ![h] = [hs[h] EXCEPT !.st = "hung", !.dirty = hs[h].dirty]]
      BY <2>1 DEF TypeOK, Handle
    <3>2. hs[h].dirty \in BOOLEAN
      BY DEF TypeOK, Handle
    <3> QED BY <3>1, <3>2
  <2>2. CASE hs' = [hs EXCEPT ![h].st = "broken", ![h].dirty = FALSE]
    <3>1. hs' = [hs EXCEPT ![h] = [hs[h] EXCEPT !.st = "broken", !.dirty = FALSE]]
      BY <2>2 DEF TypeOK
    <3> QED BY <3>1
  <2> QED BY <2>1, <2>2 DEF ReloadFails
<1>2. [hs[h] EXCEPT !.st = s, !.dirty = d] \in Handle /\ [hs[h] EXCEPT !.st = s, !.dirty = d].cur = hs[h].cur
  BY DEF TypeOK, Handle
<1> DEFINE H == [hs[h] EXCEPT !.st = s, !.dirty = d]
<1> HIDE DEF H
<1>3. hs[h].cur <= t
  BY DEF ActiveIs
<1> QED BY <1>1, <1>2, <1>3, SyncedSame, SameActive DEF ReloadFails, H

\* So does a finalise whose rename fails.
LEMMA RenameFailsActive ==
    ASSUME TypeOK, NEW t \in Idx, ActiveIs(t), NEW h \in Handles,
           RenameFails(h, SyncedFile(h), SyncedHandle(h))
    PROVE  ActiveIs(t)'
<1> DEFINE f == SyncedFile(h)
           H == SyncedHandle(h)
           B == [H EXCEPT !.st = "broken"]
<1>1. f \in Files /\ H \in Handle /\ H.cur = hs[h].cur /\ \A i \in Idx : f[i].st = file[i].st
  BY SyncedSame
<1>2. hs' = [hs EXCEPT ![h] = B] /\ file' = Written(f, H, CommitRec) /\ dot' = dot
  BY DEF RenameFails
<1> HIDE DEF f, H
<1>3. B \in Handle /\ B.cur = hs[h].cur
  BY <1>1 DEF Handle
<1> HIDE DEF B
<1>4. \A i \in Idx : file'[i].st = file[i].st
  BY <1>1, <1>2, WrittenType, RecTypes
<1> QED BY <1>2, <1>3, <1>4, SameActive DEF ActiveIs

\* zsdb_add leaves it or moves it up by one.
LEMMA AddActive ==
    ASSUME TypeOK, NEW t \in Idx, ActiveIs(t), NEW h \in Handles,
           NEW k \in Keys, NEW v \in Values, Add(h, k, v)
    PROVE  ChaosInv'
<1> DEFINE f == SyncedFile(h)
           H == SyncedHandle(h)
           N == NextActive(H)
<1>1. f \in Files /\ H \in Handle /\ H.cur = hs[h].cur /\ \A i \in Idx : f[i].st = file[i].st
  BY SyncedSame
<1>2. v \in Cell /\ KeyRec(k, v) \in Rec
  BY RecTypes DEF Cell
<1>3. CASE ReloadFails(h)
  BY <1>3, ReloadFailsActive DEF ChaosInv
<1>4. CASE AddHere(h, k, v)
  <2>1. /\ file' = Written(f, H, KeyRec(k, v)) /\ hs' = [hs EXCEPT ![h] = Wrote(H, k, v)] /\ dot' = dot
    BY <1>4 DEF AddHere
  <2> HIDE DEF f, H
  <2>2. Wrote(H, k, v) \in Handle /\ Wrote(H, k, v).cur = hs[h].cur
    BY <1>1, <1>2, WroteType
  <2>3. \A i \in Idx : file'[i].st = file[i].st
    BY <1>1, <1>2, <2>1, WrittenType
  <2>4. Wrote(H, k, v).cur <= t
    BY <2>2 DEF ActiveIs
  <2>5. ActiveIs(t)'
    BY <2>1, <2>2, <2>3, <2>4, SameActive
  <2> QED BY <2>5 DEF ChaosInv
<1>5. CASE AddToNext(h, k, v) /\ RenameFails(h, f, H)
  BY <1>5, RenameFailsActive DEF ChaosInv
<1>6. CASE AddToNext(h, k, v) /\ ~RenameFails(h, f, H)
  <2>1. /\ FindsActive(f, H) /\ H.cur < MaxIdx
        /\ file' = Written(Finalised(f, H), N, KeyRec(k, v))
        /\ hs' = [hs EXCEPT ![h] = Wrote(N, k, v)]
        /\ dot' = DotOf(N)
    BY <1>6 DEF AddToNext
  <2> HIDE DEF f, H
  <2>2. Finalised(f, H) \in Files /\ N \in Handle /\ N.cur = H.cur + 1
    BY <1>1, <2>1, FinalisedType
  <2> HIDE DEF N
  <2>3. Wrote(N, k, v) \in Handle /\ Wrote(N, k, v).cur = H.cur + 1
    BY <1>2, <2>2, WroteType
  <2>4. \A i \in Idx : file'[i].st = Finalised(f, H)[i].st
    BY <1>2, <2>1, <2>2, WrittenType
  <2>5. dot'.cur = Wrote(N, k, v).cur
    BY <2>1, <2>2, <2>3 DEF DotOf
  <2> QED BY <1>1, <2>1, <2>3, <2>4, <2>5, NextActiveIs
<1> QED BY <1>3, <1>4, <1>5, <1>6 DEF Add

\* zsdb_finalise moves it up by one or leaves it.
LEMMA FinaliseActive ==
    ASSUME TypeOK, NEW t \in Idx, ActiveIs(t), NEW h \in Handles, Finalise(h)
    PROVE  ChaosInv'
<1> DEFINE f == SyncedFile(h)
           H == SyncedHandle(h)
           N == NextActive(H)
<1>1. f \in Files /\ H \in Handle /\ H.cur = hs[h].cur /\ \A i \in Idx : f[i].st = file[i].st
  BY SyncedSame
<1>2. CASE ReloadFails(h)
  BY <1>2, ReloadFailsActive DEF ChaosInv
<1>3. CASE RenameFails(h, f, H)
  BY <1>3, RenameFailsActive DEF ChaosInv
<1>4. CASE FinaliseNow(h) /\ ~RenameFails(h, f, H)
  <2>1. /\ FindsActive(f, H) /\ H.cur < MaxIdx
        /\ file' = Finalised(f, H) /\ hs' = [hs EXCEPT ![h] = N] /\ dot' = DotOf(N)
    BY <1>4 DEF FinaliseNow
  <2> HIDE DEF f, H
  <2>2. Finalised(f, H) \in Files /\ N \in Handle /\ N.cur = H.cur + 1
    BY <1>1, <2>1, FinalisedType
  <2> HIDE DEF N
  <2>3. dot'.cur = N.cur
    BY <2>1 DEF DotOf
  <2> QED BY <1>1, <2>1, <2>2, <2>3, NextActiveIs
<1> QED BY <1>2, <1>3, <1>4 DEF Finalise

\* zsdb_remove and zsdb_commit write to a file, or not, without renaming any.
LEMMA WriteActive ==
    ASSUME TypeOK, NEW t \in Idx, ActiveIs(t), NEW h \in Handles,
           Commit(h) \/ CommitBroken(h) \/ CloseCommit(h) \/ \E k \in Keys : Remove(h, k)
    PROVE  ActiveIs(t)'
<1>1. hs[h] \in Handle /\ file \in Files /\ hs[h].cur <= t /\ hs[h].off \in Nat
  BY DEF TypeOK, Files, ActiveIs, Handle
<1>2. \A r \in Rec : \A i \in Idx : Written(file, hs[h], r)[i].st = file[i].st
  BY <1>1, WrittenType
<1>3. CASE Commit(h)
  <2> DEFINE H == [hs[h] EXCEPT !.off = @ + 1, !.offset = hs[h].off + 1, !.dirty = FALSE]
  <2>1. hs' = [hs EXCEPT ![h] = H] /\ dot' = DotOf(H) /\ file' = Written(file, hs[h], CommitRec)
    BY <1>3 DEF Commit
  <2>2. H \in Handle /\ H.cur = hs[h].cur
    <3>1. hs[h].off + 1 \in Nat
      BY <1>1
    <3> QED BY <1>1, <3>1 DEF Handle
  <2> HIDE DEF H
  <2> QED BY <1>1, <1>2, <2>1, <2>2, RecTypes, SameActive
<1>4. CASE CloseCommit(h)
  <2>1. ClosedHandle \in Handle /\ ClosedHandle.cur <= t
    BY ClosedHandleType, BoundAssumption DEF ClosedHandle, Idx
  <2>2. \A i \in Idx : file'[i].st = file[i].st
    BY <1>2, <1>4, RecTypes DEF CloseCommit, ClosedFile
  <2> QED BY <1>4, <2>1, <2>2, SameActive DEF CloseCommit
<1>5. ASSUME NEW k \in Keys, Remove(h, k) PROVE ActiveIs(t)'
  <2>1. Tomb \in Cell /\ KeyRec(k, Tomb) \in Rec
    BY RecTypes DEF Cell
  <2>2. hs' = [hs EXCEPT ![h] = Wrote(hs[h], k, Tomb)] /\ file' = Written(file, hs[h], KeyRec(k, Tomb)) /\ dot' = dot
    BY <1>5 DEF Remove
  <2>3. Wrote(hs[h], k, Tomb) \in Handle /\ Wrote(hs[h], k, Tomb).cur = hs[h].cur
    BY <1>1, <2>1, WroteType
  <2> QED BY <1>1, <1>2, <2>1, <2>2, <2>3, SameActive
<1>6. CASE CommitBroken(h)
  <2> DEFINE H == [hs[h] EXCEPT !.offset = 0]
  <2>1. hs' = [hs EXCEPT ![h] = H] /\ dot' = DotOf(H) /\ file' = file
    BY <1>6 DEF CommitBroken
  <2>2. H \in Handle /\ H.cur = hs[h].cur
    BY <1>1 DEF Handle
  <2> HIDE DEF H
  <2> QED BY <1>1, <2>1, <2>2, SameActive
<1> QED BY <1>3, <1>4, <1>5, <1>6

\* zsdb_abort cuts a file, and renames none.
LEMMA AbortActive ==
    ASSUME TypeOK, NEW t \in Idx, ActiveIs(t), NEW h \in Handles, Abort(h)
    PROVE  ActiveIs(t)'
<1> DEFINE H == [hs[h] EXCEPT !.dirty = FALSE]
           f == [file EXCEPT ![H.cur].recs = Truncate(@, H.offset)]
<1>1. H \in Handle /\ H.cur = hs[h].cur /\ H.cur \in Idx /\ H.offset \in Nat
  BY DEF TypeOK, Handle
<1>2. f \in Files /\ \A i \in Idx : f[i].st = file[i].st
  <2>1. file[H.cur].recs \in Seq(Rec)
    BY <1>1 DEF TypeOK, FileState
  <2>2. Truncate(file[H.cur].recs, H.offset) \in Seq(Rec)
    BY <1>1, <2>1, TruncateProps
  <2> QED BY <1>1, <2>2 DEF TypeOK, FileState, Files
<1>3. /\ file' = f /\ dot' = dot
      /\ \/ hs' = [hs EXCEPT ![h] = [ClosedHandle EXCEPT !.st = "asserted"]]
         \/ hs' = [hs EXCEPT ![h] = Reopened(H, f)]
         \/ hs' = [hs EXCEPT ![h] = [H EXCEPT !.st = "hung"]]
         \/ hs' = [hs EXCEPT ![h] = [H EXCEPT !.st = "broken"]]
  BY DEF Abort
<1> HIDE DEF f, H
<1>4. /\ [ClosedHandle EXCEPT !.st = "asserted"] \in Handle /\ [ClosedHandle EXCEPT !.st = "asserted"].cur = 0
      /\ Reopened(H, f) \in Handle /\ Reopened(H, f).cur = H.cur
      /\ [H EXCEPT !.st = "hung"] \in Handle /\ [H EXCEPT !.st = "hung"].cur = H.cur
      /\ [H EXCEPT !.st = "broken"] \in Handle /\ [H EXCEPT !.st = "broken"].cur = H.cur
  <2>1. [ClosedHandle EXCEPT !.st = "asserted"] \in Handle /\ [ClosedHandle EXCEPT !.st = "asserted"].cur = 0
    <3>1. ClosedHandle \in Handle /\ ClosedHandle.cur = 0
      BY ClosedHandleType DEF ClosedHandle
    <3> QED BY <3>1 DEF Handle
  <2> QED BY <1>1, <1>2, <2>1, ReopenedType DEF Handle
<1>5. PICK G \in Handle : hs' = [hs EXCEPT ![h] = G] /\ (G.cur = 0 \/ G.cur = hs[h].cur)
  BY <1>1, <1>3, <1>4
<1>6. G.cur <= t
  BY <1>5, BoundAssumption DEF ActiveIs, Idx
<1> QED BY <1>2, <1>3, <1>5, <1>6, SameActive

\* A successful zsdb_open changes no file.
LEMMA OpenActive ==
    ASSUME TypeOK, NEW t \in Idx, ActiveIs(t), NEW h \in Handles, Open(h)
    PROVE  ActiveIs(t)'
<1> DEFINE H == [ClosedHandle EXCEPT !.cur = dot.cur, !.offset = dot.offset]
           G == IF HasHole(file) THEN [H EXCEPT !.st = "hung"] ELSE [Reopened(H, file) EXCEPT !.st = "open"]
<1>1. H \in Handle /\ H.cur = dot.cur /\ file \in Files
  <2>1. ClosedHandle \in Handle /\ dot.cur \in Idx /\ dot.offset \in Nat
    BY ClosedHandleType DEF TypeOK
  <2> QED BY <2>1 DEF Handle, TypeOK, Files
<1>2. hs' = [hs EXCEPT ![h] = G] /\ UNCHANGED <<file, dot>>
  BY DEF Open
<1> HIDE DEF H
<1>3. Reopened(H, file) \in Handle /\ Reopened(H, file).cur = dot.cur
  BY <1>1, ReopenedType
<1>4. G \in Handle /\ G.cur = dot.cur
  BY <1>1, <1>3 DEF Handle
<1> HIDE DEF G
<1> QED BY <1>2, <1>4, SameActive DEF ActiveIs

\* Closing and dying rename no file.
LEMMA LeaveActive ==
    ASSUME TypeOK, NEW t \in Idx, ActiveIs(t), NEW h \in Handles, CloseRelease(h) \/ Crash(h)
    PROVE  ActiveIs(t)'
<1>1. ClosedHandle \in Handle /\ ClosedHandle.cur <= t
  BY ClosedHandleType, BoundAssumption DEF ClosedHandle, Idx
<1>2. UNCHANGED <<file, dot>>
  BY DEF CloseRelease, Crash
<1>3. CASE hs' = [hs EXCEPT ![h] = ClosedHandle]
  BY <1>1, <1>2, <1>3, SameActive
<1>4. CASE hs' = [hs EXCEPT ![h].st = "closing"]
  BY <1>2, <1>4 DEF TypeOK, Handle, ActiveIs
<1> QED BY <1>3, <1>4 DEF CloseRelease, Crash

\* However the handles misuse each other - commits without the lock, aborts
\* and removes on a stale .zsdb, deaths in a transaction - there is one active
\* file above the finalised ones, and .zsdb names no file to come.
THEOREM OneActive == Spec => []OneActiveFile
<1>1. Init => ChaosInv
  <2> SUFFICES ASSUME Init PROVE ActiveIs(0)
    BY BoundAssumption DEF ChaosInv, Idx
  <2>1. \A i \in Idx : i \in Nat /\ ~(i < 0)
    BY BoundAssumption DEF Idx
  <2> QED BY <2>1 DEF Init, ActiveIs, NewActive, NoFile, ClosedHandle
<1>2. TypeOK /\ ChaosInv /\ [Next]_vars => ChaosInv'
  <2> SUFFICES ASSUME TypeOK, NEW t \in Idx, ActiveIs(t), [Next]_vars PROVE ChaosInv'
    BY DEF ChaosInv
  <2>1. CASE UNCHANGED vars
    BY <2>1 DEF vars, ActiveIs, ChaosInv
  <2>2. ASSUME NEW h \in Handles, Step(h) PROVE ChaosInv'
    <3>1. CASE Acquire(h) \/ Release(h) \/ Fetch(h)
      BY <3>1 DEF Acquire, Release, Fetch, ActiveIs, ChaosInv
    <3>2. ActiveIs(t)' => ChaosInv'
      BY DEF ChaosInv
    <3> QED
      BY <2>2, <3>1, <3>2, OpenActive, AddActive, WriteActive, AbortActive, FinaliseActive, LeaveActive DEF Step
  <2> QED BY <2>1, <2>2 DEF Next
<1>3. ChaosInv => OneActiveFile
  BY DEF ChaosInv, ActiveIs, OneActiveFile
<1> QED BY <1>1, <1>2, <1>3, TypeCorrect, PTL DEF Spec

-----------------------------------------------------------------------------
(* Disciplined writers that neither remove, fetch nor abort *)

Orderly == Strict /\ Calls \cap {"remove", "fetch", "abort"} = {}

\* A transaction belongs to the handle with the lock, which has seen the last
\* .zsdb; every handle that has seen it has the file it names open, and stands
\* at the end of it unless someone else's transaction is in it or died in it.
WriterInv ==
    /\ DirShape
    /\ dot.offset <= Len(file[dot.cur].recs)
    /\ \A h \in Handles : hs[h].dirty => IsOpen(h) /\ wlock = h /\ h \in fresh
    /\ \A h \in fresh : IsOpen(h) => hs[h].cur = dot.cur
    /\ \A h \in fresh :
          (IsOpen(h) /\ wlock # Stale /\ \A g \in Handles \ {h} : ~hs[g].dirty)
            => hs[h].off = Len(file[dot.cur].recs)

\* A new directory satisfies it.
LEMMA InitWriterInv == Init => WriterInv
<1> SUFFICES ASSUME Init PROVE WriterInv
  OBVIOUS
<1>1. 0 \in Idx /\ \A i \in Idx : i \in Nat
  BY BoundAssumption DEF Idx
<1>2. DirShape /\ dot.offset <= Len(file[dot.cur].recs)
  BY <1>1 DEF Init, DirShape, NewActive, NoFile
<1> QED
  BY <1>2 DEF Init, WriterInv, ClosedHandle

\* What a writer acts on once it has looked at .zsdb: the files as they are,
\* the active file, and the end of it.
LEMMA SyncedProps ==
    ASSUME TypeOK, WriterInv, NEW h \in Handles, Holds(h), Syncs(h)
    PROVE  /\ SyncedFile(h) = file
           /\ SyncedHandle(h) \in Handle
           /\ SyncedHandle(h).st = "open"
           /\ SyncedHandle(h).cur = dot.cur
           /\ SyncedHandle(h).off = Len(file[dot.cur].recs)
           /\ FindsActive(file, SyncedHandle(h))
           /\ \A g \in Handles \ {h} : ~hs[g].dirty
           /\ wlock = h /\ wlock # Stale
<1> DEFINE H == SyncedHandle(h)
<1>1. H \in Handle /\ hs[h] \in Handle /\ file \in Files
  BY SyncedType DEF TypeOK, Files
<1>2. wlock = h /\ wlock # Stale /\ IsOpen(h) /\ \A g \in Handles \ {h} : ~hs[g].dirty
  BY LockAssumption DEF Holds, WriterInv
<1>3. dot.cur \in Idx /\ file[dot.cur].st = "active"
  BY BoundAssumption DEF TypeOK, WriterInv, DirShape, Idx
<1>4. SyncedFile(h) = file /\ H.st = "open" /\ H.cur = dot.cur
      /\ H.off = Len(file[dot.cur].recs)
  <2>1. CASE h \in fresh
    BY <1>2, <2>1 DEF SyncedFile, SyncedHandle, WriterInv, IsOpen
  <2>2. CASE h \notin fresh
    <3>1. SyncedFile(h) = file
      BY <2>2 DEF SyncedFile, ClosedFile, WriterInv
    <3>2. H = Reopened(hs[h], file) /\ file[hs[h].cur].st = "active"
      BY <2>2, <3>1 DEF SyncedHandle, Syncs, FindsActive
    <3>3. hs[h].cur \in Idx
      BY <1>1 DEF Handle
    <3>4. hs[h].cur = dot.cur
      BY <3>2, <3>3 DEF WriterInv, DirShape
    <3> QED
      BY <1>1, <1>2, <3>1, <3>2, <3>4, ReopenedType DEF IsOpen
  <2> QED
    BY <2>1, <2>2
<1> QED
  BY <1>1, <1>2, <1>3, <1>4 DEF FindsActive

\* A transaction's writer is at the end of the active file.
LEMMA DirtyProps ==
    ASSUME TypeOK, WriterInv, NEW h \in Handles, hs[h].dirty
    PROVE  /\ IsOpen(h) /\ wlock = h /\ wlock # Stale /\ h \in fresh
           /\ hs[h].cur = dot.cur
           /\ hs[h].off = Len(file[dot.cur].recs)
           /\ \A g \in Handles \ {h} : ~hs[g].dirty
BY LockAssumption DEF WriterInv

\* A write at the end of a log.
LEMMA AppendAtEnd ==
    ASSUME NEW recs \in Seq(Rec), NEW r \in Rec
    PROVE  /\ WriteAt(recs, Len(recs), r) \in Seq(Rec)
           /\ Len(WriteAt(recs, Len(recs), r)) = Len(recs) + 1
           /\ \A n \in 1..Len(recs) : WriteAt(recs, Len(recs), r)[n] = recs[n]
<1>1. Len(recs) \in Nat
  BY LenProperties
<1>2. \A n \in 1..Len(recs) : n <= Len(recs)
  BY <1>1
<1> QED
  BY <1>1, <1>2, WriteAtProps

\* What an append to the active file does to the directory.
LEMMA AppendProps ==
    ASSUME TypeOK, WriterInv, NEW H \in Handle, NEW r \in Rec,
           H.cur = dot.cur, H.off = Len(file[dot.cur].recs)
    PROVE  /\ \A i \in Idx : Written(file, H, r)[i].st = file[i].st
           /\ \A i \in Idx : i # dot.cur => Written(file, H, r)[i] = file[i]
           /\ Written(file, H, r)[dot.cur].recs \in Seq(Rec)
           /\ Len(Written(file, H, r)[dot.cur].recs) = Len(file[dot.cur].recs) + 1
           /\ \A n \in 1..Len(file[dot.cur].recs) :
                 Written(file, H, r)[dot.cur].recs[n] = file[dot.cur].recs[n]
<1>1. file \in Files /\ dot.cur \in Idx /\ file[dot.cur].recs \in Seq(Rec)
  BY DEF TypeOK, Files, FileState
<1>2. Written(file, H, r)[dot.cur].recs
        = WriteAt(file[dot.cur].recs, Len(file[dot.cur].recs), r)
  BY <1>1, WrittenType
<1>3. /\ \A i \in Idx : Written(file, H, r)[i].st = file[i].st
      /\ \A i \in Idx : i # dot.cur => Written(file, H, r)[i] = file[i]
  BY <1>1, WrittenType
<1> DEFINE A == file[dot.cur].recs
           w == Written(file, H, r)[dot.cur].recs
<1>4. A \in Seq(Rec) /\ w = WriteAt(A, Len(A), r)
  BY <1>1, <1>2
<1> HIDE DEF A, w
<1>5. w \in Seq(Rec) /\ Len(w) = Len(A) + 1 /\ \A n \in 1..Len(A) : w[n] = A[n]
  BY <1>4, AppendAtEnd, Zenon
<1> QED
  BY <1>3, <1>5, Zenon DEF A, w

\* What finalising the active file does to the directory.
LEMMA FinaliseProps ==
    ASSUME TypeOK, WriterInv, NEW H \in Handle, H.cur < MaxIdx,
           H.cur = dot.cur, H.off = Len(file[dot.cur].recs)
    PROVE  LET g == Finalised(file, H)  N == NextActive(H) IN
           /\ g \in Files /\ N \in Handle
           /\ N.cur = dot.cur + 1 /\ N.cur \in Idx /\ N.off = 0 /\ N.offset = 0
           /\ N.st = H.st /\ N.dirty = H.dirty
           /\ \A i \in Idx : g[i].st = IF i < N.cur THEN "final"
                                        ELSE IF i = N.cur THEN "active" ELSE "none"
           /\ \A i \in Idx \ {dot.cur, N.cur} : g[i] = file[i]
           /\ g[N.cur].recs = <<>>
           /\ Len(g[dot.cur].recs) = Len(file[dot.cur].recs) + 1
           /\ \A n \in 1..Len(file[dot.cur].recs) :
                 g[dot.cur].recs[n] = file[dot.cur].recs[n]
<1> DEFINE g == Finalised(file, H)
           N == NextActive(H)
<1>1. file \in Files /\ dot.cur \in Idx /\ file[dot.cur].recs \in Seq(Rec)
  BY DEF TypeOK, Files, FileState
<1>2. /\ g \in Files /\ N \in Handle
      /\ N.cur = dot.cur + 1 /\ N.cur \in Idx /\ N.off = 0 /\ N.offset = 0
      /\ N.st = H.st /\ N.dirty = H.dirty
      /\ g[dot.cur].st = "final"
      /\ g[dot.cur].recs = WriteAt(file[dot.cur].recs, Len(file[dot.cur].recs), CommitRec)
      /\ g[N.cur] = NewActive
      /\ \A i \in Idx \ {dot.cur, N.cur} : g[i] = file[i]
  BY <1>1, FinalisedType
<1> HIDE DEF g, N
<1>3. \A i \in Idx : g[i].st = IF i < N.cur THEN "final"
                               ELSE IF i = N.cur THEN "active" ELSE "none"
  <2> TAKE i \in Idx
  <2>1. file[i].st = IF i < dot.cur THEN "final"
                     ELSE IF i = dot.cur THEN "active" ELSE "none"
    BY DEF WriterInv, DirShape
  <2>2. i \in Nat /\ dot.cur \in Nat
    BY <1>1 DEF Idx
  <2> QED
    BY <1>2, <2>1, <2>2 DEF NewActive
<1>4. /\ Len(g[dot.cur].recs) = Len(file[dot.cur].recs) + 1
      /\ \A n \in 1..Len(file[dot.cur].recs) :
            g[dot.cur].recs[n] = file[dot.cur].recs[n]
  <2> DEFINE A == file[dot.cur].recs
             w == g[dot.cur].recs
  <2>1. A \in Seq(Rec) /\ CommitRec \in Rec /\ w = WriteAt(A, Len(A), CommitRec)
    BY <1>1, <1>2, RecTypes
  <2> HIDE DEF A, w
  <2>2. Len(w) = Len(A) + 1 /\ \A n \in 1..Len(A) : w[n] = A[n]
    BY <2>1, AppendAtEnd, Zenon
  <2> QED
    BY <2>2, Zenon DEF A, w
<1>5. g[N.cur].recs = <<>>
  BY <1>2 DEF NewActive
<1> QED
  BY <1>2, <1>3, <1>4, <1>5 DEF g, N

-----------------------------------------------------------------------------
(* The inductive step, one lemma per kind of call *)

\* A handle whose stat is old has no transaction, so a reload that fails writes
\* nothing; the handle is of no more use.
LEMMA ReloadFailsInv ==
    ASSUME TypeOK, WriterInv, NEW h \in Handles, Holds(h), ReloadFails(h)
    PROVE  WriterInv' /\ UNCHANGED <<file, dot>>
<1>1. h \notin fresh /\ ~hs[h].dirty /\ file' = file /\ dot' = dot
  BY DEF ReloadFails, Syncs, SyncedFile, ClosedFile, WriterInv
<1>2. /\ ~IsOpen(h)' /\ ~hs'[h].dirty
      /\ \A g \in Handles \ {h} : hs'[g] = hs[g] /\ (IsOpen(g)' <=> IsOpen(g))
  BY <1>1 DEF ReloadFails, IsOpen, TypeOK, Handle
<1>3. fresh' = fresh \cup {h}
  BY DEF ReloadFails
<1>4. \A g \in Handles \ {h} : ~hs[g].dirty
  BY DEF Holds, WriterInv
<1>5. wlock = h /\ wlock # Stale
  BY LockAssumption DEF Holds
<1>6. \A g \in fresh \ {h} : IsOpen(g) =>
         hs[g].cur = dot.cur /\ hs[g].off = Len(file[dot.cur].recs)
  BY <1>1, <1>4, <1>5 DEF WriterInv, TypeOK
<1>7. DirShape'
  BY <1>1 DEF WriterInv, DirShape
<1> QED
  BY <1>1, <1>2, <1>3, <1>4, <1>6, <1>7 DEF WriterInv, TypeOK

\* A record appended by the writer keeps the invariant: the others stay where
\* they were, behind a transaction that is not theirs.
LEMMA AddHereInv ==
    ASSUME TypeOK, WriterInv, NEW h \in Handles, NEW k \in Keys, NEW v \in Values,
           Holds(h), Syncs(h), AddHere(h, k, v)
    PROVE  WriterInv'
<1> DEFINE H == SyncedHandle(h)
           r == KeyRec(k, v)
<1>1. /\ H \in Handle /\ H.st = "open" /\ H.cur = dot.cur
      /\ H.off = Len(file[dot.cur].recs)
      /\ \A g \in Handles \ {h} : ~hs[g].dirty
      /\ wlock = h /\ wlock # Stale
      /\ SyncedFile(h) = file
  BY SyncedProps
<1>2. v \in Cell /\ r \in Rec
  BY RecTypes DEF Cell
<1>3. /\ file' = Written(file, H, r)
      /\ hs' = [hs EXCEPT ![h] = Wrote(H, k, v)]
      /\ fresh' = fresh \cup {h}
      /\ dot' = dot /\ wlock' = wlock
  BY <1>1 DEF AddHere
<1> HIDE DEF H, r
<1>4. dot.cur \in Idx /\ dot.offset \in Nat /\ Len(file[dot.cur].recs) \in Nat
  BY LenProperties DEF TypeOK, FileState
<1>5. /\ \A i \in Idx : file'[i].st = file[i].st
      /\ Len(file'[dot.cur].recs) = Len(file[dot.cur].recs) + 1
  BY <1>1, <1>2, <1>3, AppendProps, Zenon
<1>6. /\ hs'[h].st = "open" /\ hs'[h].cur = dot.cur /\ hs'[h].dirty
      /\ hs'[h].off = Len(file[dot.cur].recs) + 1
      /\ \A g \in Handles \ {h} : hs'[g] = hs[g]
  BY <1>1, <1>2, <1>3, WroteType DEF TypeOK
<1>7. DirShape'
  BY <1>3, <1>5 DEF WriterInv, DirShape
<1>8. (dot.offset <= Len(file[dot.cur].recs))'
  BY <1>3, <1>4, <1>5 DEF WriterInv
<1>9. \A g \in Handles : hs'[g].dirty => IsOpen(g)' /\ wlock' = g /\ g \in fresh'
  BY <1>1, <1>3, <1>6 DEF IsOpen
<1>10. \A g \in fresh' : IsOpen(g)' => hs'[g].cur = dot'.cur
  BY <1>3, <1>6 DEF WriterInv, IsOpen, TypeOK
<1>11. ASSUME NEW g \in fresh', (IsOpen(g) /\ wlock # Stale)',
              (\A q \in Handles \ {g} : ~hs[q].dirty)'
       PROVE  (hs[g].off = Len(file[dot.cur].recs))'
  <2>1. g = h
    BY <1>6, <1>11
  <2> QED
    BY <1>3, <1>5, <1>6, <2>1
<1> QED
  BY <1>7, <1>8, <1>9, <1>10, <1>11 DEF WriterInv

\* A finalised file with its successor, whose writer is the only handle that
\* has seen the new .zsdb.
LEMMA FinalisedInv ==
    ASSUME TypeOK, WriterInv, NEW h \in Handles, NEW N \in Handle,
           wlock = h, wlock' = wlock, fresh' = {h},
           N.st = "open", dot' = DotOf(N), N.cur \in Idx, N.offset = 0,
           \A g \in Handles \ {h} : ~hs[g].dirty,
           hs' = [hs EXCEPT ![h] = N],
           \A i \in Idx : file'[i].st = IF i < N.cur THEN "final"
                                        ELSE IF i = N.cur THEN "active" ELSE "none",
           Len(file'[N.cur].recs) = N.off
    PROVE  WriterInv'
<1>1. dot'.cur = N.cur /\ dot'.offset = 0 /\ N.off \in Nat
  BY DEF DotOf, Handle
<1>2. hs'[h] = N /\ \A g \in Handles \ {h} : hs'[g] = hs[g]
  BY DEF TypeOK
<1>3. DirShape'
  BY <1>1 DEF DirShape
<1>4. (dot.offset <= Len(file[dot.cur].recs))'
  BY <1>1
<1>5. \A g \in Handles : hs'[g].dirty => IsOpen(g)' /\ wlock' = g /\ g \in fresh'
  BY <1>2 DEF IsOpen
<1>6. \A g \in fresh' : hs'[g].cur = dot'.cur /\ hs'[g].off = Len(file'[dot'.cur].recs)
  BY <1>1, <1>2
<1> QED
  BY <1>3, <1>4, <1>5, <1>6 DEF WriterInv

\* An add that fills the active file keeps it.
LEMMA AddToNextInv ==
    ASSUME TypeOK, WriterInv, NEW h \in Handles, NEW k \in Keys, NEW v \in Values,
           Holds(h), Syncs(h), AddToNext(h, k, v)
    PROVE  WriterInv'
<1> DEFINE H == SyncedHandle(h)
           N == NextActive(H)
           r == KeyRec(k, v)
           g == Finalised(file, H)
           M == Wrote(N, k, v)
<1>1. /\ H \in Handle /\ H.st = "open" /\ H.cur = dot.cur
      /\ H.off = Len(file[dot.cur].recs)
      /\ FindsActive(file, H)
      /\ \A q \in Handles \ {h} : ~hs[q].dirty
      /\ wlock = h
      /\ SyncedFile(h) = file
  BY SyncedProps
<1>2. v \in Cell /\ r \in Rec
  BY RecTypes DEF Cell
<1>3. /\ H.cur < MaxIdx
      /\ file' = Written(g, N, r)
      /\ hs' = [hs EXCEPT ![h] = M]
      /\ dot' = DotOf(N)
      /\ fresh' = {h}
      /\ wlock' = wlock
  BY <1>1 DEF AddToNext, RenameFails
<1> HIDE DEF H, r
<1>4. /\ g \in Files /\ N \in Handle
      /\ N.cur \in Idx /\ N.off = 0 /\ N.offset = 0 /\ N.st = H.st
      /\ \A i \in Idx : g[i].st = IF i < N.cur THEN "final"
                                   ELSE IF i = N.cur THEN "active" ELSE "none"
      /\ g[N.cur].recs = <<>>
  BY <1>1, <1>3, FinaliseProps
<1> HIDE DEF g, N
<1>5. /\ \A i \in Idx : file'[i].st = g[i].st
      /\ file'[N.cur].recs = WriteAt(<<>>, 0, r)
  BY <1>2, <1>3, <1>4, WrittenType
<1>6. Len(file'[N.cur].recs) = 1
  <2>1. <<>> \in Seq(Rec) /\ 0 \in Nat
    BY EmptySeq
  <2>2. Len(WriteAt(<<>>, 0, r)) = 0 + 1
    BY <1>2, <2>1, WriteAtProps, Zenon
  <2> QED
    BY <1>5, <2>2
<1>7. /\ M \in Handle /\ M.st = "open" /\ M.cur = N.cur /\ M.off = 1 /\ M.offset = 0
      /\ DotOf(M) = DotOf(N)
  <2>1. M \in Handle /\ M.st = N.st /\ M.cur = N.cur /\ M.off = N.off + 1
    BY <1>2, <1>4, WroteType
  <2>2. M.offset = N.offset
    BY <1>4 DEF Wrote, Handle
  <2> QED
    BY <1>1, <1>4, <2>1, <2>2 DEF DotOf
<1> HIDE DEF M
<1>8. \A i \in Idx : file'[i].st = IF i < M.cur THEN "final"
                                   ELSE IF i = M.cur THEN "active" ELSE "none"
  BY <1>4, <1>5, <1>7
<1>9. Len(file'[M.cur].recs) = M.off
  BY <1>6, <1>7
<1>10. dot' = DotOf(M) /\ M.cur \in Idx
  BY <1>3, <1>4, <1>7
<1> QED
  BY <1>1, <1>3, <1>7, <1>8, <1>9, <1>10, FinalisedInv

\* A finalise keeps it.
LEMMA FinaliseNowInv ==
    ASSUME TypeOK, WriterInv, NEW h \in Handles, Holds(h), Syncs(h), FinaliseNow(h)
    PROVE  WriterInv'
<1> DEFINE H == SyncedHandle(h)
           N == NextActive(H)
<1>1. /\ H \in Handle /\ H.st = "open" /\ H.cur = dot.cur
      /\ H.off = Len(file[dot.cur].recs)
      /\ FindsActive(file, H)
      /\ \A q \in Handles \ {h} : ~hs[q].dirty
      /\ wlock = h
      /\ SyncedFile(h) = file
  BY SyncedProps
<1>2. /\ H.cur < MaxIdx
      /\ file' = Finalised(file, H)
      /\ hs' = [hs EXCEPT ![h] = N]
      /\ dot' = DotOf(N)
      /\ fresh' = {h}
      /\ wlock' = wlock
  BY <1>1 DEF FinaliseNow, RenameFails
<1> HIDE DEF H
<1>3. /\ N \in Handle
      /\ N.cur \in Idx /\ N.off = 0 /\ N.offset = 0 /\ N.st = H.st
      /\ \A i \in Idx : file'[i].st = IF i < N.cur THEN "final"
                                       ELSE IF i = N.cur THEN "active" ELSE "none"
      /\ file'[N.cur].recs = <<>>
  BY <1>1, <1>2, FinaliseProps
<1> HIDE DEF N
<1>4. Len(file'[N.cur].recs) = N.off
  BY <1>3
<1> QED
  BY <1>1, <1>2, <1>3, <1>4, FinalisedInv

\* The commit record ends the active file and .zsdb says so; every other
\* handle has now an old stat.
LEMMA CommitInv ==
    ASSUME TypeOK, WriterInv, NEW h \in Handles, Commit(h)
    PROVE  /\ WriterInv'
           /\ wlock' = wlock
           /\ file' = Written(file, hs[h], CommitRec)
           /\ hs[h] \in Handle /\ hs[h].cur = dot.cur
           /\ hs[h].off = Len(file[dot.cur].recs)
           /\ dot'.cur = dot.cur /\ dot'.offset = Len(file[dot.cur].recs) + 1
<1> DEFINE H == [hs[h] EXCEPT !.off = @ + 1, !.offset = hs[h].off + 1, !.dirty = FALSE]
<1>1. /\ IsOpen(h) /\ wlock = h /\ hs[h] \in Handle
      /\ hs[h].cur = dot.cur /\ hs[h].off = Len(file[dot.cur].recs)
      /\ \A g \in Handles \ {h} : ~hs[g].dirty
  BY DirtyProps DEF Commit, TypeOK
<1>2. /\ file' = Written(file, hs[h], CommitRec)
      /\ hs' = [hs EXCEPT ![h] = H]
      /\ dot' = DotOf(H) /\ fresh' = {h} /\ wlock' = wlock
  BY DEF Commit
<1>3. /\ H.st = "open" /\ H.cur = dot.cur /\ ~H.dirty
      /\ H.off = Len(file[dot.cur].recs) + 1
      /\ H.offset = Len(file[dot.cur].recs) + 1
  BY <1>1 DEF Handle, IsOpen
<1> HIDE DEF H
<1>4. dot'.cur = dot.cur /\ dot'.offset = Len(file[dot.cur].recs) + 1
  BY <1>2, <1>3 DEF DotOf
<1>5. /\ \A i \in Idx : file'[i].st = file[i].st
      /\ Len(file'[dot.cur].recs) = Len(file[dot.cur].recs) + 1
  BY <1>1, <1>2, RecTypes, AppendProps, Zenon
<1>6. hs'[h] = H /\ \A g \in Handles \ {h} : hs'[g] = hs[g]
  BY <1>2 DEF TypeOK
<1>7. DirShape'
  BY <1>4, <1>5 DEF WriterInv, DirShape
<1>8. Len(file[dot.cur].recs) \in Nat
  BY LenProperties DEF TypeOK, FileState
<1>9. (dot.offset <= Len(file[dot.cur].recs))'
  BY <1>4, <1>5, <1>8
<1>10. \A g \in Handles : ~hs'[g].dirty
  BY <1>1, <1>3, <1>6
<1>11. \A g \in fresh' : hs'[g].cur = dot'.cur /\ hs'[g].off = Len(file'[dot'.cur].recs)
  BY <1>2, <1>3, <1>4, <1>5, <1>6
<1> QED
  BY <1>1, <1>2, <1>4, <1>7, <1>9, <1>10, <1>11 DEF WriterInv

\* A new handle replays the active file, so it stands at its end.
LEMMA OpenInv ==
    ASSUME TypeOK, WriterInv, NEW h \in Handles, Open(h)
    PROVE  WriterInv'
<1> DEFINE H == [ClosedHandle EXCEPT !.cur = dot.cur, !.offset = dot.offset]
<1>1. /\ H \in Handle /\ file \in Files /\ ~H.dirty /\ H.st = "closed"
      /\ H.cur = dot.cur
  BY ClosedHandleType DEF Handle, TypeOK, Files, ClosedHandle
<1>2. /\ hs' = [hs EXCEPT ![h] = IF HasHole(file)
                                THEN [H EXCEPT !.st = "hung"]
                                ELSE [Reopened(H, file) EXCEPT !.st = "open"]]
      /\ fresh' = fresh \cup {h}
      /\ file' = file /\ dot' = dot /\ wlock' = wlock
  BY DEF Open
<1> HIDE DEF H
<1>3. \A g \in Handles \ {h} : hs'[g] = hs[g]
  BY <1>2 DEF TypeOK
<1>4. hs'[h] = IF HasHole(file) THEN [H EXCEPT !.st = "hung"]
               ELSE [Reopened(H, file) EXCEPT !.st = "open"]
  BY <1>2 DEF TypeOK
<1>5. /\ ~hs'[h].dirty
      /\ IsOpen(h)' => hs'[h].cur = dot.cur /\ hs'[h].off = Len(file[dot.cur].recs)
  <2>1. CASE HasHole(file)
    BY <1>1, <1>4, <2>1 DEF Handle, IsOpen
  <2>2. CASE ~HasHole(file)
    <3> DEFINE R == Reopened(H, file)
    <3>1. /\ R \in Handle /\ R.cur = dot.cur /\ ~R.dirty
          /\ R.off = Len(file[dot.cur].recs)
      BY <1>1, ReopenedType
    <3> HIDE DEF R
    <3>2. hs'[h] = [R EXCEPT !.st = "open"]
      BY <1>4, <2>2 DEF R
    <3> QED
      BY <3>1, <3>2 DEF Handle
  <2> QED
    BY <2>1, <2>2
<1>6. ~hs[h].dirty
  BY DEF Open, WriterInv, IsOpen
<1>7. \A g \in Handles : hs'[g].dirty <=> hs[g].dirty
  BY <1>3, <1>5, <1>6
<1>8. DirShape'
  BY <1>2 DEF WriterInv, DirShape
<1>9. ASSUME NEW g \in fresh', IsOpen(g)'
      PROVE  /\ hs'[g].cur = dot'.cur
             /\ (wlock # Stale /\ \A q \in Handles \ {g} : ~hs[q].dirty)'
                  => hs'[g].off = Len(file'[dot'.cur].recs)
  <2>1. CASE g = h
    BY <1>2, <1>5, <1>9, <2>1
  <2>2. CASE g # h
    <3>1. g \in fresh /\ hs'[g] = hs[g] /\ g \in Handles
      BY <1>2, <1>3, <2>2 DEF TypeOK
    <3> QED
      BY <1>2, <1>7, <1>9, <3>1 DEF WriterInv, IsOpen
  <2> QED
    BY <2>1, <2>2
<1>10. \A g \in Handles : hs'[g].dirty => IsOpen(g)' /\ wlock' = g /\ g \in fresh'
  BY <1>2, <1>3, <1>6, <1>7 DEF WriterInv, IsOpen
<1> QED
  BY <1>2, <1>8, <1>9, <1>10 DEF WriterInv

\* A handle that goes, by a close or a death, takes its stat with it; if it had
\* a transaction the lock is stale from now on, and nobody writes any more.
LEMMA LeaveInv ==
    ASSUME TypeOK, WriterInv, NEW h \in Handles,
           hs' = [hs EXCEPT ![h] = ClosedHandle],
           fresh' = fresh \ {h},
           file' = file, dot' = dot,
           wlock' = wlock \/ (wlock = h /\ wlock' = Stale)
             \/ (wlock = h /\ wlock' = Free /\ ~hs[h].dirty),
           hs[h].dirty => wlock' = Stale
    PROVE  WriterInv'
<1>1. /\ ~hs'[h].dirty
      /\ \A g \in Handles \ {h} : hs'[g] = hs[g]
  BY ClosedHandleType DEF TypeOK
<1>2. DirShape'
  BY DEF WriterInv, DirShape
<1>3. \A g \in Handles : hs'[g].dirty => IsOpen(g)' /\ wlock' = g /\ g \in fresh'
  BY <1>1 DEF WriterInv, IsOpen
<1>4. ASSUME NEW g \in fresh', IsOpen(g)'
      PROVE  /\ hs'[g].cur = dot'.cur
             /\ (wlock # Stale /\ \A q \in Handles \ {g} : ~hs[q].dirty)'
                  => hs'[g].off = Len(file'[dot'.cur].recs)
  <2>1. g \in fresh /\ g \in Handles /\ g # h /\ hs'[g] = hs[g] /\ IsOpen(g)
    BY <1>1, <1>4 DEF TypeOK, IsOpen
  <2>2. hs'[g].cur = dot'.cur
    BY <2>1 DEF WriterInv
  <2>3. ASSUME wlock' # Stale, \A q \in Handles \ {g} : ~hs'[q].dirty
        PROVE  hs'[g].off = Len(file'[dot'.cur].recs)
    <3>1. \A q \in Handles \ {g} : ~hs[q].dirty
      BY <1>1, <2>3
    <3>2. wlock # Stale
      BY <2>3, LockAssumption
    <3> QED
      BY <2>1, <3>1, <3>2 DEF WriterInv
  <2> QED
    BY <2>2, <2>3
<1> QED
  BY <1>2, <1>3, <1>4 DEF WriterInv

\* Every call of a disciplined writer keeps it.
LEMMA StepWriterInv ==
    ASSUME TypeOK, WriterInv, Orderly, NEW h \in Handles, Step(h)
    PROVE  WriterInv'
<1>1. CASE Open(h)
  BY <1>1, OpenInv
<1>2. CASE Acquire(h)
  BY <1>2, LockAssumption DEF Acquire, WriterInv, DirShape, IsOpen
<1>3. CASE Release(h)
  BY <1>3, LockAssumption DEF Release, Disciplined, Orderly, WriterInv, DirShape, IsOpen, Holds
<1>4. ASSUME NEW k \in Keys, NEW v \in Values, Add(h, k, v) PROVE WriterInv'
  BY <1>4, ReloadFailsInv, AddHereInv, AddToNextInv DEF Add
<1>5. ~\E k \in Keys : Remove(h, k)
  BY DEF Remove, Orderly
<1>6. CASE Commit(h)
  BY <1>6, CommitInv
<1>7. ~Fetch(h) /\ ~Abort(h)
  BY DEF Fetch, Abort, Orderly
<1>8. CASE Finalise(h)
  BY <1>8, ReloadFailsInv, FinaliseNowInv DEF Finalise
<1>9. CASE CloseRelease(h)
  <2>1. ~hs[h].dirty
    BY <1>9 DEF CloseRelease, Disciplined, Orderly
  <2> QED
    BY <1>9, <2>1, LeaveInv DEF CloseRelease
<1>10. CASE CloseCommit(h)
  <2>1. ~hs[h].dirty
    BY <1>10 DEF CloseCommit, WriterInv, IsOpen
  <2> QED
    BY <1>10, <2>1, LeaveInv DEF CloseCommit, ClosedFile
<1>11. CASE Crash(h)
  <2>1. hs[h].dirty => wlock = h
    BY DEF WriterInv
  <2> QED
    BY <1>11, <2>1, LeaveInv DEF Crash
<1>12. ~CommitBroken(h)
  BY DEF CommitBroken, WriterInv, IsOpen
<1> QED
  BY <1>1, <1>2, <1>3, <1>4, <1>5, <1>6, <1>7, <1>8, <1>9, <1>10, <1>11, <1>12 DEF Step

\* The invariant of disciplined writers, for any number of them, any keys, any
\* values and any bounds.
THEOREM WriterInvariance == ASSUME Orderly PROVE Spec => [](TypeOK /\ WriterInv)
<1>1. TypeOK /\ WriterInv /\ [Next]_vars => WriterInv'
  <2> SUFFICES ASSUME TypeOK, WriterInv, [Next]_vars PROVE WriterInv'
    OBVIOUS
  <2>1. CASE UNCHANGED vars
    BY <2>1 DEF vars, WriterInv, DirShape, IsOpen
  <2> QED
    BY <2>1, StepWriterInv DEF Next
<1> QED
  BY <1>1, InitWriterInv, TypeCorrect, PTL DEF Spec

\* One active file, named by .zsdb, above the finalised ones: what the next
\* zsdb_open needs, after any calls and deaths of disciplined writers.
THEOREM Shape == ASSUME Orderly PROVE Spec => []DirShape
<1>1. WriterInv => DirShape
  BY DEF WriterInv
<1> QED
  BY <1>1, WriterInvariance, PTL

\* The stat of .zsdb is enough for a writer to know that its cached offset is
\* the end of the active file.
THEOREM Appends == ASSUME Orderly PROVE Spec => []WriterAppends
<1>1. TypeOK /\ WriterInv => WriterAppends
  BY LockAssumption DEF TypeOK, WriterInv, WriterAppends, Holds
<1> QED
  BY <1>1, WriterInvariance, PTL

-----------------------------------------------------------------------------
(* Acknowledged records *)

\* A log that only grows, of which no less is acknowledged than before, keeps
\* its acknowledged records.
LEMMA AckedStays ==
    ASSUME TypeOK, TypeOK', NEW i \in Idx,
           dot.offset <= Len(file[dot.cur].recs),
           (file[i].st = "final" \/ i = dot.cur) =>
              \A n \in 1..Len(file[i].recs) :
                 n \in 1..Len(file'[i].recs) /\ file'[i].recs[n] = file[i].recs[n],
           file[i].st = "final" => file'[i].st = "final",
           (file[i].st # "final" /\ i = dot.cur) =>
              \/ file'[i].st = "final"
              \/ i = dot'.cur /\ dot.offset <= dot'.offset
    PROVE  \A n \in DOMAIN Acked(i) : n \in DOMAIN Acked(i)' /\ Acked(i)'[n] = Acked(i)[n]
<1> DEFINE r == file[i].recs
           s == file'[i].recs
<1>1. r \in Seq(Rec) /\ s \in Seq(Rec) /\ dot.offset \in Nat /\ dot'.offset \in Nat
  BY DEF TypeOK, FileState
<1>2. DOMAIN r = 1..Len(r) /\ DOMAIN s = 1..Len(s) /\ Len(r) \in Nat /\ Len(s) \in Nat
  BY <1>1, LenProperties
<1>3. (file[i].st = "final" \/ i = dot.cur) =>
         \A n \in 1..Len(r) : n \in 1..Len(s) /\ s[n] = r[n]
  OBVIOUS
<1>4. \A len \in Nat : /\ DOMAIN Truncate(r, len) = 1..len
                       /\ DOMAIN Truncate(s, len) = 1..len
                       /\ \A n \in 1..len : n <= Len(r) => Truncate(r, len)[n] = r[n]
                       /\ \A n \in 1..len : n <= Len(s) => Truncate(s, len)[n] = s[n]
  BY DEF Truncate
<1>5. CASE file[i].st = "final"
  <2>1. Acked(i) = r /\ Acked(i)' = s
    BY <1>5 DEF Acked
  <2> QED
    BY <1>2, <1>3, <1>5, <2>1
<1>6. CASE file[i].st # "final" /\ i = dot.cur
  <2>1. Acked(i) = Truncate(r, dot.offset) /\ dot.offset <= Len(r)
    BY <1>6 DEF Acked
  <2>2. CASE file'[i].st = "final"
    <3>1. Acked(i)' = s
      BY <2>2 DEF Acked
    <3> HIDE DEF r, s
    <3>2. /\ DOMAIN Acked(i) = 1..dot.offset
          /\ \A n \in 1..dot.offset : n <= Len(r) => Acked(i)[n] = r[n]
      BY <1>1, <1>4, <2>1
    <3>3. \A n \in 1..dot.offset : n <= Len(r) /\ n \in 1..Len(r)
      BY <1>1, <1>2, <2>1
    <3> QED
      BY <1>2, <1>3, <1>6, <3>1, <3>2, <3>3, Zenon
  <2>3. CASE file'[i].st # "final"
    <3>1. Acked(i)' = Truncate(s, dot'.offset) /\ dot.offset <= dot'.offset
      BY <1>6, <2>3 DEF Acked
    <3> HIDE DEF r, s
    <3>2. ASSUME NEW n \in 1..dot.offset
          PROVE  n \in 1..dot'.offset /\ n \in 1..Len(r) /\ n <= Len(s)
      BY <1>1, <1>2, <1>3, <1>6, <2>1, <3>1
    <3>3. /\ DOMAIN Acked(i) = 1..dot.offset /\ DOMAIN Acked(i)' = 1..dot'.offset
          /\ \A n \in 1..dot.offset : n <= Len(r) => Acked(i)[n] = r[n]
          /\ \A n \in 1..dot'.offset : n <= Len(s) => Acked(i)'[n] = s[n]
      BY <1>1, <1>4, <2>1, <3>1
    <3>4. \A n \in 1..Len(r) : n <= Len(r)
      BY <1>2
    <3> QED
      BY <1>3, <1>6, <3>2, <3>3, <3>4, Zenon
  <2> QED
    BY <2>2, <2>3
<1>7. CASE file[i].st # "final" /\ i # dot.cur
  <2>1. Acked(i) = <<>>
    BY <1>7 DEF Acked
  <2> QED
    BY <2>1
<1> QED
  BY <1>5, <1>6, <1>7

\* Every step of disciplined writers leaves the old records of every log where
\* they are, and moves .zsdb only forward or to the successor of its file.
LEMMA StepAcked ==
    ASSUME TypeOK, WriterInv, TypeOK', Orderly, NEW h \in Handles, Step(h)
    PROVE  \A i \in Idx : \A n \in DOMAIN Acked(i) :
              n \in DOMAIN Acked(i)' /\ Acked(i)'[n] = Acked(i)[n]
<1> TAKE i \in Idx
<1>1. /\ file \in Files /\ dot.cur \in Idx
      /\ dot.offset \in Nat /\ dot.offset <= Len(file[dot.cur].recs)
      /\ file[dot.cur].st = "active" /\ Len(file[dot.cur].recs) \in Nat
  BY LenProperties, BoundAssumption
  DEF TypeOK, Files, FileState, WriterInv, DirShape, Idx
<1> DEFINE Same(j) == \A n \in 1..Len(file[j].recs) :
                         n \in 1..Len(file'[j].recs) /\ file'[j].recs[n] = file[j].recs[n]
<1>2. CASE file' = file /\ dot' = dot
  BY <1>2 DEF Acked
<1>3. ASSUME NEW H \in Handle, NEW r \in Rec, H.cur = dot.cur,
             H.off = Len(file[dot.cur].recs), file' = Written(file, H, r),
             dot'.cur = dot.cur, dot.offset <= dot'.offset
      PROVE  \A n \in DOMAIN Acked(i) : n \in DOMAIN Acked(i)' /\ Acked(i)'[n] = Acked(i)[n]
  <2>1. /\ \A j \in Idx : file'[j].st = file[j].st
        /\ \A j \in Idx : j # dot.cur => file'[j] = file[j]
        /\ Len(file'[dot.cur].recs) = Len(file[dot.cur].recs) + 1
        /\ \A n \in 1..Len(file[dot.cur].recs) :
              file'[dot.cur].recs[n] = file[dot.cur].recs[n]
    BY <1>3, AppendProps, Zenon
  <2>2. CASE i = dot.cur
    <3>1. \A n \in 1..Len(file[i].recs) : n \in 1..Len(file'[i].recs)
      BY <1>1, <2>1, <2>2
    <3> QED
      BY <1>1, <1>3, <2>1, <2>2, <3>1, AckedStays
  <2>3. CASE i # dot.cur
    <3>1. file'[i] = file[i]
      BY <2>1, <2>3
    <3>2. Same(i)
      BY <3>1
    <3> QED
      BY <1>1, <2>3, <3>1, <3>2, AckedStays
  <2> QED
    BY <2>2, <2>3
<1>4. ASSUME NEW H \in Handle, H.cur < MaxIdx, H.cur = dot.cur,
             H.off = Len(file[dot.cur].recs),
             \A j \in Idx \ {dot.cur + 1} : file'[j] = Finalised(file, H)[j],
             dot' = DotOf(NextActive(H))
      PROVE  \A n \in DOMAIN Acked(i) : n \in DOMAIN Acked(i)' /\ Acked(i)'[n] = Acked(i)[n]
  <2> DEFINE g == Finalised(file, H)
  <2>1. /\ NextActive(H).cur = dot.cur + 1
        /\ g[dot.cur].st = "final"
        /\ \A j \in Idx \ {dot.cur, dot.cur + 1} : g[j] = file[j]
        /\ Len(g[dot.cur].recs) = Len(file[dot.cur].recs) + 1
        /\ \A n \in 1..Len(file[dot.cur].recs) :
              g[dot.cur].recs[n] = file[dot.cur].recs[n]
    BY <1>1, <1>4, FinaliseProps, FinalisedType
  <2> HIDE DEF g
  <2>2. dot.cur \in Nat /\ file[dot.cur + 1].st = "none" /\ dot.cur # dot.cur + 1
    BY <1>1, <1>4, BoundAssumption DEF Idx, WriterInv, DirShape
  <2>3. (file[i].st = "final" \/ i = dot.cur) => i \in Idx \ {dot.cur + 1}
    BY <2>2
  <2>4. (file[i].st = "final" \/ i = dot.cur) => file'[i] = g[i]
    BY <1>4, <2>3 DEF g
  <2>5. (file[i].st = "final" \/ i = dot.cur) => Same(i)
    BY <1>1, <2>1, <2>2, <2>3, <2>4, LenProperties DEF Files, FileState
  <2>6. (file[i].st = "final" \/ i = dot.cur) => file'[i].st = "final"
    BY <2>1, <2>3, <2>4
  <2> QED
    BY <1>1, <2>5, <2>6, AckedStays
<1>5. CASE file' # file \/ dot' # dot
  <2>1. CASE Commit(h)
    <3>1. Len(file[dot.cur].recs) + 1 >= dot.offset
      BY <1>1
    <3> QED
      BY <1>3, <2>1, <3>1, CommitInv, RecTypes
  <2>2. ASSUME NEW k \in Keys, NEW v \in Values, Add(h, k, v)
        PROVE  \A n \in DOMAIN Acked(i) : n \in DOMAIN Acked(i)' /\ Acked(i)'[n] = Acked(i)[n]
    <3> DEFINE H == SyncedHandle(h)
    <3>1. Holds(h) /\ Syncs(h)
      BY <1>5, <2>2, ReloadFailsInv DEF Add
    <3>2. /\ SyncedFile(h) = file /\ H \in Handle /\ H.cur = dot.cur
          /\ H.off = Len(file[dot.cur].recs) /\ FindsActive(file, H)
      BY <3>1, SyncedProps
    <3>3. v \in Cell /\ KeyRec(k, v) \in Rec
      BY RecTypes DEF Cell
    <3>4. CASE AddHere(h, k, v)
      BY <1>1, <1>3, <3>2, <3>3, <3>4 DEF AddHere
    <3>5. CASE AddToNext(h, k, v)
      <4>1. /\ H.cur < MaxIdx
            /\ file' = Written(Finalised(file, H), NextActive(H), KeyRec(k, v))
            /\ dot' = DotOf(NextActive(H))
        BY <3>2, <3>5 DEF AddToNext, RenameFails
      <4> HIDE DEF H
      <4>2. \A j \in Idx \ {dot.cur + 1} : file'[j] = Finalised(file, H)[j]
        <5>1. /\ Finalised(file, H) \in Files /\ NextActive(H) \in Handle
              /\ NextActive(H).cur = dot.cur + 1
          BY <1>1, <3>2, <4>1, FinalisedType
        <5>2. \A j \in Idx : j # NextActive(H).cur => file'[j] = Finalised(file, H)[j]
          BY <3>3, <4>1, <5>1, WrittenType, Zenon
        <5> QED
          BY <5>1, <5>2
      <4> QED
        BY <1>4, <3>2, <4>1, <4>2
    <3> QED
      BY <1>5, <2>2, <3>1, <3>4, <3>5, ReloadFailsInv DEF Add
  <2>3. CASE Finalise(h)
    <3> DEFINE H == SyncedHandle(h)
    <3>1. Holds(h) /\ Syncs(h) /\ FinaliseNow(h)
      BY <1>5, <2>3, ReloadFailsInv DEF Finalise
    <3>2. /\ SyncedFile(h) = file /\ H \in Handle /\ H.cur = dot.cur
          /\ H.off = Len(file[dot.cur].recs) /\ FindsActive(file, H)
      BY <3>1, SyncedProps
    <3>3. /\ H.cur < MaxIdx
          /\ file' = Finalised(file, H)
          /\ dot' = DotOf(NextActive(H))
      BY <3>1, <3>2 DEF FinaliseNow, RenameFails
    <3> HIDE DEF H
    <3> QED
      BY <1>4, <3>2, <3>3
  <2>4. ~(CloseCommit(h) /\ hs[h].dirty) /\ ~CommitBroken(h)
    BY DEF CloseCommit, CommitBroken, WriterInv, IsOpen
  <2> QED
    BY <1>5, <2>1, <2>2, <2>3, <2>4
    DEF Step, Open, Acquire, Release, Remove, Fetch, Abort, CloseRelease, CloseCommit,
        ClosedFile, Crash, Orderly
<1> QED
  BY <1>2, <1>5

\* No acknowledged record of any file is ever changed or dropped, whatever
\* disciplined writers call and wherever they die.
THEOREM Durability == ASSUME Orderly PROVE Spec => AckedOnlyGrows
<1> DEFINE Kept == \A i \in Idx : \A n \in DOMAIN Acked(i) :
                     n \in DOMAIN Acked(i)' /\ Acked(i)'[n] = Acked(i)[n]
<1>1. TypeOK /\ WriterInv /\ TypeOK' /\ [Next]_vars => [Kept]_vars
  BY StepAcked DEF Next
<1>2. Spec => [](TypeOK /\ WriterInv) /\ []TypeOK
  BY WriterInvariance, TypeCorrect
<1> QED
  BY <1>1, <1>2, PTL DEF Spec, AckedOnlyGrows

-----------------------------------------------------------------------------
(* The replay of one log *)

\* A key record has a value or a tombstone.
LEMMA KeyCell == ASSUME NEW r \in Rec, r.t = "key" PROVE r.c \in Cell \ {Absent}
<1>1. CommitRec.t = "commit" /\ Hole.t = "hole"
  BY DEF CommitRec, Hole
<1> QED
  BY <1>1, CellAssumption DEF Rec, Cell

\* If a log has a record of a key it has a last one: WFMin, on the distance to
\* the end of the log.
LEMMA LastExists ==
    ASSUME NEW recs \in Seq(Rec), NEW k, NEW n \in DOMAIN recs, HasRec(recs, k, n)
    PROVE  \E m \in DOMAIN recs : LastRec(recs, k, m)
<1> DEFINE S == {d \in Nat : \E m \in DOMAIN recs : d = Len(recs) - m /\ HasRec(recs, k, m)}
           R == {ss \in Nat \X Nat : ss[1] < ss[2]}
<1>1. Len(recs) \in Nat /\ DOMAIN recs = 1..Len(recs)
  BY LenProperties
<1>2. Len(recs) - n \in S
  BY <1>1
<1>3. IsWellFoundedOn(R, Nat)
  BY NatLessThanWellFounded DEF OpToRel
<1>4. PICK x \in S : \A y \in S : ~(<<y, x>> \in R)
  <2> HIDE DEF R
  <2>1. S \subseteq Nat /\ S # {}
    BY <1>2
  <2> HIDE DEF S
  <2> QED
    BY <1>3, <2>1, WFMin
<1>5. PICK m \in DOMAIN recs : x = Len(recs) - m /\ HasRec(recs, k, m)
  BY <1>4
<1>6. ASSUME NEW p \in DOMAIN recs, p > m, HasRec(recs, k, p) PROVE FALSE
  <2>1. Len(recs) - p \in S /\ Len(recs) - p < x /\ x \in Nat
    BY <1>1, <1>4, <1>5, <1>6
  <2>2. <<Len(recs) - p, x>> \in R
    BY <2>1, <1>4
  <2> QED
    BY <1>4, <2>1, <2>2
<1> QED
  BY <1>5, <1>6 DEF LastRec

\* There is only one.
LEMMA LastUnique ==
    ASSUME NEW recs \in Seq(Rec), NEW k, NEW m \in DOMAIN recs, NEW n \in DOMAIN recs,
           LastRec(recs, k, m), LastRec(recs, k, n)
    PROVE  m = n
<1>1. m \in Nat /\ n \in Nat
  BY LenProperties
<1> QED
  BY <1>1 DEF LastRec

\* The replay gives a key the cell of its last record,
LEMMA LoadLast ==
    ASSUME NEW recs \in Seq(Rec), NEW k \in Keys, NEW n \in DOMAIN recs, LastRec(recs, k, n)
    PROVE  Load(recs)[k] = recs[n].c
<1> DEFINE m == CHOOSE q \in DOMAIN recs : LastRec(recs, k, q)
<1>1. m \in DOMAIN recs /\ LastRec(recs, k, m)
  OBVIOUS
<1>2. Load(recs)[k] = recs[m].c
  BY DEF Load
<1> HIDE DEF m
<1> QED
  BY <1>1, <1>2, LastUnique

\* and nothing to a key without a record.
LEMMA LoadNone ==
    ASSUME NEW recs \in Seq(Rec), NEW k \in Keys, \A n \in DOMAIN recs : ~HasRec(recs, k, n)
    PROVE  Load(recs)[k] = Absent
BY DEF Load, LastRec

\* An empty log gives nothing.
LEMMA LoadEmpty == Load(<<>>) = NoCells
<1>1. <<>> \in Seq(Rec) /\ DOMAIN <<>> = {}
  BY EmptySeq, LenProperties
<1>2. \A k \in Keys : Load(<<>>)[k] = Absent
  BY <1>1, LoadNone
<1> QED
  BY <1>2 DEF Load, NoCells

\* A log and a longer one that has no more records of a key give it the same
\* cell.
LEMMA LoadAgree ==
    ASSUME NEW s \in Seq(Rec), NEW t \in Seq(Rec), NEW k \in Keys,
           \A n \in DOMAIN s : n \in DOMAIN t /\ t[n] = s[n],
           \A n \in DOMAIN t \ DOMAIN s : ~HasRec(t, k, n)
    PROVE  Load(t)[k] = Load(s)[k]
<1>1. DOMAIN s = 1..Len(s) /\ DOMAIN t = 1..Len(t) /\ Len(s) \in Nat /\ Len(t) \in Nat
  BY LenProperties
<1>2. \A n \in DOMAIN s : HasRec(s, k, n) <=> HasRec(t, k, n)
  BY DEF HasRec
<1>3. CASE \E n \in DOMAIN s : HasRec(s, k, n)
  <2>1. PICK n \in DOMAIN s : LastRec(s, k, n)
    BY <1>3, LastExists
  <2>2. LastRec(t, k, n)
    BY <1>2, <2>1 DEF LastRec
  <2> QED
    BY <2>1, <2>2, LoadLast
<1>4. CASE \A n \in DOMAIN s : ~HasRec(s, k, n)
  <2>1. \A n \in DOMAIN t : ~HasRec(t, k, n)
    BY <1>2, <1>4
  <2> QED
    BY <1>4, <2>1, LoadNone
<1> QED
  BY <1>3, <1>4

\* One more record: a key record overrides what the log had for its key, any
\* other record is passed over.
LEMMA LoadAppend ==
    ASSUME NEW recs \in Seq(Rec), NEW r \in Rec
    PROVE  Load(Append(recs, r)) = IF r.t = "key" THEN [Load(recs) EXCEPT ![r.k] = r.c]
                                                  ELSE Load(recs)
<1> DEFINE t == Append(recs, r)
<1>1. t \in Seq(Rec) /\ Len(t) = Len(recs) + 1 /\ t[Len(recs) + 1] = r
      /\ \A n \in 1..Len(recs) : t[n] = recs[n]
  BY AppendProperties
<1>2. DOMAIN recs = 1..Len(recs) /\ DOMAIN t = 1..(Len(recs) + 1) /\ Len(recs) \in Nat
  BY <1>1, LenProperties
<1> HIDE DEF t
<1>3. ASSUME NEW k \in Keys, r.t # "key" \/ r.k # k
      PROVE  Load(t)[k] = Load(recs)[k]
  <2>1. \A n \in DOMAIN recs : n \in DOMAIN t /\ t[n] = recs[n]
    BY <1>1, <1>2
  <2>2. \A n \in DOMAIN t \ DOMAIN recs : ~HasRec(t, k, n)
    BY <1>1, <1>2, <1>3 DEF HasRec
  <2> QED
    BY <1>1, <2>1, <2>2, LoadAgree
<1>4. ASSUME NEW k \in Keys, r.t = "key", r.k = k
      PROVE  Load(t)[k] = r.c
  <2>1. Len(recs) + 1 \in DOMAIN t /\ LastRec(t, k, Len(recs) + 1)
    BY <1>1, <1>2, <1>4 DEF LastRec, HasRec
  <2> QED
    BY <1>1, <2>1, LoadLast
<1>5. Load(t) \in [Keys -> Cell] /\ Load(recs) \in [Keys -> Cell] /\ r.k \in Keys
  BY <1>1, LoadType, RecTypes
<1> QED
  BY <1>3, <1>4, <1>5 DEF t

\* The end of a log.
LEMMA RestProps ==
    ASSUME NEW recs \in Seq(Rec), NEW o \in Nat, o <= Len(recs)
    PROVE  LET b == SubSeq(recs, o + 1, Len(recs)) IN
           /\ b \in Seq(Rec) /\ DOMAIN b = 1..(Len(recs) - o)
           /\ \A n \in 1..(Len(recs) - o) : b[n] = recs[o + n]
<1> DEFINE len == Len(recs)
           b == SubSeq(recs, o + 1, len)
<1>1. len \in Nat /\ DOMAIN recs = 1..len /\ o <= len
  BY LenProperties
<1>2. \A n \in 1..len : recs[n] \in Rec
  BY LenProperties
<1> HIDE DEF len
<1>3. PICK m \in Int : m = o + 1
  OBVIOUS
<1>4. len \in Int /\ \A n \in m..len : recs[n] \in Rec
  BY <1>1, <1>2, <1>3
<1>5. /\ SubSeq(recs, m, len) \in Seq(Rec)
      /\ Len(SubSeq(recs, m, len)) = IF m <= len THEN len - m + 1 ELSE 0
      /\ \A n \in 1..(len - m + 1) : SubSeq(recs, m, len)[n] = recs[m + n - 1]
  BY <1>4, SubSeqProperties
<1> DEFINE c == SubSeq(recs, m, len)
<1> HIDE DEF c
<1>6. c \in Seq(Rec) /\ Len(c) = len - o /\ \A n \in 1..(len - o) : c[n] = recs[o + n]
  <2>1. Len(c) = len - o
    BY <1>1, <1>3, <1>5 DEF c
  <2>2. ASSUME NEW n \in 1..(len - o) PROVE c[n] = recs[o + n]
    <3>1. m + n - 1 = o + n /\ n \in 1..(len - m + 1)
      BY <1>1, <1>3
    <3>2. c[n] = recs[m + n - 1]
      BY <1>5, <3>1, Zenon DEF c
    <3> QED
      BY <3>1, <3>2
  <2> QED
    BY <1>5, <2>1, <2>2, Zenon DEF c
<1>7. b = c
  BY <1>3 DEF c
<1>8. DOMAIN c = 1..(len - o)
  BY <1>6, LenProperties
<1> QED
  BY <1>6, <1>7, <1>8, Zenon DEF b, len

\* A log is its beginning with its end on top.
LEMMA LoadSplit ==
    ASSUME NEW recs \in Seq(Rec), NEW o \in Nat, o <= Len(recs)
    PROVE  Load(recs) = Overlay(Load(SubSeq(recs, o + 1, Len(recs))), Load(Truncate(recs, o)))
<1> DEFINE a == Truncate(recs, o)
           b == SubSeq(recs, o + 1, Len(recs))
<1>1. Len(recs) \in Nat /\ DOMAIN recs = 1..Len(recs)
  BY LenProperties
<1>2. a \in Seq(Rec) /\ DOMAIN a = 1..o /\ \A n \in 1..o : a[n] = recs[n]
  <2>1. a \in Seq(Rec) /\ Len(a) = o /\ \A n \in 1..o : n <= Len(recs) => a[n] = recs[n]
    BY TruncateProps
  <2> HIDE DEF a
  <2> QED
    BY <1>1, <2>1, LenProperties
<1>3. b \in Seq(Rec) /\ DOMAIN b = 1..(Len(recs) - o)
      /\ \A n \in 1..(Len(recs) - o) : b[n] = recs[o + n]
  BY RestProps
<1> HIDE DEF a, b
<1>4. ASSUME NEW k \in Keys
      PROVE  Load(recs)[k] = IF Load(b)[k] # Absent THEN Load(b)[k] ELSE Load(a)[k]
  <2>1. CASE \E n \in DOMAIN b : HasRec(b, k, n)
    <3>1. PICK n \in DOMAIN b : LastRec(b, k, n)
      BY <1>3, <2>1, LastExists
    <3>2. o + n \in DOMAIN recs /\ LastRec(recs, k, o + n)
      <4>1. n \in 1..(Len(recs) - o) /\ o + n \in DOMAIN recs /\ HasRec(recs, k, o + n)
        BY <1>1, <1>3, <3>1 DEF LastRec, HasRec
      <4>2. ASSUME NEW m \in DOMAIN recs, m > o + n, HasRec(recs, k, m) PROVE FALSE
        <5>1. m - o \in DOMAIN b /\ m - o > n /\ o + (m - o) = m
          BY <1>1, <1>3, <4>1, <4>2
        <5>2. b[m - o] = recs[m]
          BY <1>3, <5>1
        <5> QED
          BY <3>1, <4>2, <5>1, <5>2 DEF LastRec, HasRec
      <4> QED
        BY <4>1, <4>2 DEF LastRec
    <3>3. Load(b)[k] = b[n].c /\ Load(recs)[k] = recs[o + n].c /\ b[n] = recs[o + n]
      BY <1>3, <3>1, <3>2, LoadLast
    <3>4. b[n] \in Rec /\ b[n].t = "key"
      BY <1>3, <3>1, LenProperties DEF LastRec, HasRec
    <3> QED
      BY <3>3, <3>4, KeyCell
  <2>2. CASE \A n \in DOMAIN b : ~HasRec(b, k, n)
    <3>1. \A n \in DOMAIN a : n \in DOMAIN recs /\ recs[n] = a[n]
      BY <1>1, <1>2
    <3>2. ASSUME NEW n \in DOMAIN recs \ DOMAIN a, HasRec(recs, k, n) PROVE FALSE
      <4>1. n - o \in DOMAIN b /\ o + (n - o) = n
        BY <1>1, <1>2, <1>3
      <4>2. b[n - o] = recs[n]
        BY <1>3, <4>1
      <4> QED
        BY <2>2, <3>2, <4>1, <4>2 DEF HasRec
    <3>3. Load(recs)[k] = Load(a)[k]
      BY <1>2, <3>1, <3>2, LoadAgree
    <3>4. Load(b)[k] = Absent
      BY <1>3, <2>2, LoadNone
    <3> QED
      BY <3>3, <3>4
  <2> QED
    BY <2>1, <2>2
<1>5. Load(recs) \in [Keys -> Cell]
  BY LoadType
<1> QED
  BY <1>4, <1>5 DEF Overlay, a, b

-----------------------------------------------------------------------------
(* Cutting and extending a log *)

\* A log resized to its size is the log.
LEMMA TruncateWhole == ASSUME NEW recs \in Seq(Rec) PROVE Truncate(recs, Len(recs)) = recs
<1>1. Len(recs) \in Nat /\ recs \in [1..Len(recs) -> Rec]
  BY LenProperties
<1> QED
  BY <1>1 DEF Truncate

\* So a write at the end of a log appends.
LEMMA WriteAppends ==
    ASSUME NEW recs \in Seq(Rec), NEW r
    PROVE  WriteAt(recs, Len(recs), r) = Append(recs, r)
BY TruncateWhole DEF WriteAt

\* The part before an offset does not see an append after it.
LEMMA TruncateAppend ==
    ASSUME NEW recs \in Seq(Rec), NEW r \in Rec, NEW o \in Nat, o <= Len(recs)
    PROVE  Truncate(Append(recs, r), o) = Truncate(recs, o)
<1>1. Len(recs) \in Nat
  BY LenProperties
<1>2. /\ Len(Append(recs, r)) = Len(recs) + 1
      /\ \A n \in 1..Len(recs) : Append(recs, r)[n] = recs[n]
  BY AppendProperties
<1>3. \A n \in 1..o : n <= Len(recs) /\ n <= Len(recs) + 1 /\ n \in 1..Len(recs)
  BY <1>1
<1> QED
  BY <1>2, <1>3 DEF Truncate

\* The part after it gets the record.
LEMMA RestAppend ==
    ASSUME NEW recs \in Seq(Rec), NEW r \in Rec, NEW o \in Nat, o <= Len(recs)
    PROVE  SubSeq(Append(recs, r), o + 1, Len(Append(recs, r)))
             = Append(SubSeq(recs, o + 1, Len(recs)), r)
<1> DEFINE t == Append(recs, r)
           a == SubSeq(recs, o + 1, Len(recs))
           b == SubSeq(t, o + 1, Len(t))
<1>1. Len(recs) \in Nat
  BY LenProperties
<1>2. /\ t \in Seq(Rec) /\ Len(t) = Len(recs) + 1 /\ t[Len(recs) + 1] = r
      /\ \A n \in 1..Len(recs) : t[n] = recs[n]
  BY AppendProperties
<1> HIDE DEF t
<1>3. /\ a \in Seq(Rec) /\ DOMAIN a = 1..(Len(recs) - o)
      /\ \A n \in 1..(Len(recs) - o) : a[n] = recs[o + n]
  BY RestProps
<1>4. o <= Len(t)
  BY <1>1, <1>2
<1>5. /\ b \in Seq(Rec) /\ DOMAIN b = 1..(Len(t) - o)
      /\ \A n \in 1..(Len(t) - o) : b[n] = t[o + n]
  BY <1>2, <1>4, RestProps
<1> HIDE DEF a, b
<1>6. Len(a) = Len(recs) - o /\ Len(b) = Len(recs) + 1 - o
  BY <1>1, <1>2, <1>3, <1>5, LenProperties
<1>7. /\ Append(a, r) \in Seq(Rec) /\ Len(Append(a, r)) = Len(a) + 1
      /\ Append(a, r)[Len(a) + 1] = r
      /\ \A n \in 1..Len(a) : Append(a, r)[n] = a[n]
  BY <1>3, AppendProperties
<1>8. ASSUME NEW n \in 1..Len(b) PROVE b[n] = Append(a, r)[n]
  <2>1. CASE n <= Len(recs) - o
    <3>1. n \in 1..(Len(recs) - o) /\ n \in 1..Len(a) /\ o + n \in 1..Len(recs)
          /\ n \in 1..(Len(t) - o)
      BY <1>1, <1>2, <1>6, <2>1
    <3> QED
      BY <1>2, <1>3, <1>5, <1>7, <3>1
  <2>2. CASE n > Len(recs) - o
    <3>1. n = Len(a) + 1 /\ o + n = Len(recs) + 1 /\ n \in 1..(Len(t) - o)
      BY <1>1, <1>2, <1>6, <2>2
    <3>2. b[n] = t[o + n] /\ t[o + n] = r
      BY <1>2, <1>5, <3>1
    <3>3. Append(a, r)[n] = r
      BY <1>7, <3>1
    <3> QED
      BY <3>2, <3>3
  <2> QED
    BY <1>1, <1>6, <2>1, <2>2
<1>9. b = Append(a, r)
  <2> DEFINE c == Append(a, r)
  <2>1. c \in Seq(Rec) /\ Len(c) = Len(b) /\ \A n \in 1..Len(b) : b[n] = c[n]
    BY <1>1, <1>6, <1>7, <1>8
  <2> HIDE DEF c
  <2>2. DOMAIN c = 1..Len(c) /\ DOMAIN b = 1..Len(b) /\ c \in [1..Len(c) -> Rec]
        /\ b \in [1..Len(b) -> Rec]
    BY <1>5, <2>1, LenProperties
  <2> QED
    BY <2>1, <2>2 DEF c
<1> QED
  BY <1>9 DEF a, b, t

\* Nothing follows the end of a log.
LEMMA RestNone ==
    ASSUME NEW recs \in Seq(Rec) PROVE SubSeq(recs, Len(recs) + 1, Len(recs)) = <<>>
<1>1. Len(recs) \in Int /\ Len(recs) + 1 \in Int /\ Len(recs) < Len(recs) + 1
  BY LenProperties
<1> QED
  BY <1>1, SubSeqEmpty

-----------------------------------------------------------------------------
(* Overlays *)

\* An empty layer changes nothing.
LEMMA OverlayNone ==
    ASSUME NEW m \in [Keys -> Cell] PROVE Overlay(NoCells, m) = m
BY DEF Overlay, NoCells

\* Layers can be joined from either end.
LEMMA OverlayAssoc ==
    ASSUME NEW a \in [Keys -> Cell], NEW b \in [Keys -> Cell], NEW c \in [Keys -> Cell]
    PROVE  Overlay(Overlay(a, b), c) = Overlay(a, Overlay(b, c))
<1>1. \A k \in Keys : Overlay(Overlay(a, b), c)[k] = Overlay(a, Overlay(b, c))[k]
  BY DEF Overlay
<1> QED
  BY <1>1 DEF Overlay

\* A cell put into the upper layer shows.
LEMMA OverlayPut ==
    ASSUME NEW a \in [Keys -> Cell], NEW b \in [Keys -> Cell],
           NEW k \in Keys, NEW c \in Cell \ {Absent}
    PROVE  Overlay([a EXCEPT ![k] = c], b) = [Overlay(a, b) EXCEPT ![k] = c]
BY DEF Overlay

\* Overlays are maps.
LEMMA OverlayType ==
    ASSUME NEW a \in [Keys -> Cell], NEW b \in [Keys -> Cell]
    PROVE  Overlay(a, b) \in [Keys -> Cell]
BY DEF Overlay

-----------------------------------------------------------------------------
(* The replay of the finalised files *)

\* It depends on the finalised files only.
LEMMA LoadFinalSame ==
    ASSUME NEW f \in Files, NEW g \in Files,
           \A i \in Idx : g[i].st = "final" <=> f[i].st = "final",
           \A i \in Idx : f[i].st = "final" => g[i].recs = f[i].recs
    PROVE  LoadFinal(g) = LoadFinal(f)
<1>1. FinalMaps(g) = FinalMaps(f)
  BY DEF FinalMaps
<1> QED
  BY <1>1 DEF LoadFinal

\* What it gives a key is what the newest file with the key gives it,
LEMMA LoadFinalNewest ==
    ASSUME NEW f \in Files, NEW k \in Keys, NEW i \in Idx, NewestWith(FinalMaps(f), k, i)
    PROVE  LoadFinal(f)[k] = FinalMaps(f)[i][k]
<1> DEFINE maps == FinalMaps(f)
           j == CHOOSE q \in Idx : NewestWith(maps, k, q)
<1>1. j \in Idx /\ NewestWith(maps, k, j)
  OBVIOUS
<1>2. LoadFinal(f)[k] = maps[j][k]
  BY DEF LoadFinal
<1> HIDE DEF maps, j
<1>3. i = j
  <2>1. i \in Nat /\ j \in Nat
    BY <1>1, BoundAssumption DEF Idx
  <2> QED
    BY <1>1, <2>1 DEF NewestWith, maps
<1> QED
  BY <1>2, <1>3 DEF maps

\* and nothing if no file has it.
LEMMA LoadFinalNone ==
    ASSUME NEW f \in Files, NEW k \in Keys, \A i \in Idx : ~NewestWith(FinalMaps(f), k, i)
    PROVE  LoadFinal(f)[k] = Absent
BY DEF LoadFinal

\* A file that is finalised above all others lies on top of them.
LEMMA LoadFinalNext ==
    ASSUME NEW f \in Files, NEW g \in Files, NEW t \in Idx,
           f[t].st # "final", g[t].st = "final",
           \A i \in Idx \ {t} : g[i].st = "final" <=> f[i].st = "final",
           \A i \in Idx : f[i].st = "final" => g[i].recs = f[i].recs /\ i < t
    PROVE  LoadFinal(g) = Overlay(Load(g[t].recs), LoadFinal(f))
<1> DEFINE F == FinalMaps(f)
           G == FinalMaps(g)
           L == Load(g[t].recs)
<1>1. F \in [Idx -> [Keys -> Cell]] /\ G \in [Idx -> [Keys -> Cell]]
  BY FinalMapsType DEF Files
<1>2. G[t] = L /\ F[t] = NoCells /\ \A i \in Idx \ {t} : G[i] = F[i]
  BY DEF FinalMaps
<1>3. \A i \in Idx : i > t => F[i] = NoCells
  BY BoundAssumption DEF FinalMaps, Idx
<1>4. L \in [Keys -> Cell]
  BY <1>1, <1>2
<1> HIDE DEF F, G, L
<1>5. ASSUME NEW k \in Keys
      PROVE  LoadFinal(g)[k] = IF L[k] # Absent THEN L[k] ELSE LoadFinal(f)[k]
  <2>1. F[t][k] = Absent /\ \A i \in Idx : i > t => F[i][k] = Absent
    BY <1>2, <1>3 DEF NoCells
  <2>2. \A i \in Idx : i > t => G[i][k] = Absent
    BY <1>2, <2>1, BoundAssumption DEF Idx
  <2>3. CASE L[k] # Absent
    <3>1. NewestWith(G, k, t)
      BY <1>2, <2>2, <2>3 DEF NewestWith
    <3>2. LoadFinal(g)[k] = G[t][k]
      BY <3>1, LoadFinalNewest DEF G
    <3> QED
      BY <1>2, <2>3, <3>2
  <2>4. CASE L[k] = Absent
    <3>1. \A i \in Idx : G[i][k] = F[i][k]
      BY <1>2, <2>1, <2>4
    <3>2. \A i \in Idx : NewestWith(G, k, i) <=> NewestWith(F, k, i)
      BY <3>1 DEF NewestWith
    <3>3. CASE \E i \in Idx : NewestWith(F, k, i)
      <4>1. PICK i \in Idx : NewestWith(F, k, i)
        BY <3>3
      <4>2. LoadFinal(g)[k] = G[i][k]
        BY <3>2, <4>1, LoadFinalNewest DEF G
      <4>3. LoadFinal(f)[k] = F[i][k]
        BY <4>1, LoadFinalNewest DEF F
      <4> QED
        BY <2>4, <3>1, <4>2, <4>3
    <3>4. CASE \A i \in Idx : ~NewestWith(F, k, i)
      <4>1. LoadFinal(f)[k] = Absent
        BY <3>4, LoadFinalNone DEF F
      <4>2. LoadFinal(g)[k] = Absent
        BY <3>2, <3>4, LoadFinalNone DEF G
      <4> QED
        BY <2>4, <4>1, <4>2
    <3> QED
      BY <3>3, <3>4
  <2> QED
    BY <2>3, <2>4
<1>6. LoadFinal(g) \in [Keys -> Cell]
  BY LoadFinalType DEF Files
<1> QED
  BY <1>5, <1>6 DEF Overlay, L

-----------------------------------------------------------------------------
(* What the calls do to the directory *)

\* The active file is the one .zsdb names, and .zsdb acknowledges no more of
\* it than there is.
Dir == DirShape /\ dot.offset <= Len(file[dot.cur].recs)

\* H is at the end of the active file.
AtEnd(H) == H.cur = dot.cur /\ H.off = Len(file[dot.cur].recs)

\* The active file gets a record more.
Appended(r) ==
    /\ \A i \in Idx : file'[i].st = file[i].st
    /\ \A i \in Idx : i # dot.cur => file'[i] = file[i]
    /\ file'[dot.cur].recs = Append(file[dot.cur].recs, r)

\* The active file is finalised, with a commit record; recs is its successor.
Finished(recs) ==
    /\ dot.cur + 1 \in Idx
    /\ file'[dot.cur].st = "final"
    /\ file'[dot.cur].recs = Append(file[dot.cur].recs, CommitRec)
    /\ file'[dot.cur + 1].st = "active"
    /\ file'[dot.cur + 1].recs = recs
    /\ \A i \in Idx : i \notin {dot.cur, dot.cur + 1} => file'[i] = file[i]
    /\ dot' = [cur |-> dot.cur + 1, offset |-> 0]

\* What is acknowledged and what is not are together what a replay gives.
LEMMA DiskIsBoth ==
    ASSUME TypeOK, Dir
    PROVE  /\ DiskView = Overlay(PendingView, CommittedView)
           /\ DiskView \in [Keys -> Cell]
           /\ PendingView \in [Keys -> Cell] /\ CommittedView \in [Keys -> Cell]
<1> DEFINE recs == file[dot.cur].recs
           a == Load(Truncate(recs, dot.offset))
           b == PendingView
           c == LoadFinal(file)
<1>1. recs \in Seq(Rec) /\ dot.offset \in Nat /\ dot.offset <= Len(recs) /\ file \in Files
  BY DEF TypeOK, FileState, Dir, Files
<1> HIDE DEF recs
<1>2. Truncate(recs, dot.offset) \in Seq(Rec)
      /\ SubSeq(recs, dot.offset + 1, Len(recs)) \in Seq(Rec)
  BY <1>1, TruncateProps, RestProps
<1>3. a \in [Keys -> Cell] /\ b \in [Keys -> Cell] /\ c \in [Keys -> Cell]
  BY <1>1, <1>2, LoadType, LoadFinalType DEF PendingView, Files, recs
<1>4. Load(recs) = Overlay(b, a)
  BY <1>1, LoadSplit DEF PendingView, recs
<1>5. DiskView = Overlay(Load(recs), c) /\ CommittedView = Overlay(a, c)
  BY DEF DiskView, CommittedView, recs
<1> HIDE DEF a, b, c
<1>6. DiskView = Overlay(b, Overlay(a, c))
  BY <1>3, <1>4, <1>5, OverlayAssoc
<1>7. Overlay(a, c) \in [Keys -> Cell] /\ Overlay(b, Overlay(a, c)) \in [Keys -> Cell]
  BY <1>3, OverlayType
<1> QED
  BY <1>3, <1>5, <1>6, <1>7 DEF b

\* A write by a handle that is at the end of the active file appends.
LEMMA WrittenAppends ==
    ASSUME TypeOK, NEW H \in Handle, AtEnd(H), NEW r \in Rec, file' = Written(file, H, r)
    PROVE  Appended(r)
<1>1. file \in Files /\ file[dot.cur].recs \in Seq(Rec)
  BY DEF TypeOK, Files, FileState
<1>2. /\ \A i \in Idx : file'[i].st = file[i].st
      /\ \A i \in Idx : i # H.cur => file'[i] = file[i]
      /\ file'[H.cur].recs = WriteAt(file[H.cur].recs, H.off, r)
  BY <1>1, WrittenType
<1> QED
  BY <1>1, <1>2, WriteAppends DEF Appended, AtEnd

\* A finalise by such a handle makes a new empty active file.
LEMMA FinalisedFinishes ==
    ASSUME TypeOK, NEW H \in Handle, AtEnd(H), H.cur < MaxIdx,
           file' = Finalised(file, H), dot' = DotOf(NextActive(H))
    PROVE  Finished(<<>>)
<1>1. file \in Files /\ file[dot.cur].recs \in Seq(Rec)
  BY DEF TypeOK, Files, FileState
<1>2. /\ NextActive(H).cur = H.cur + 1 /\ NextActive(H).cur \in Idx
      /\ NextActive(H).offset = 0
      /\ file'[H.cur].st = "final"
      /\ file'[H.cur].recs = WriteAt(file[H.cur].recs, H.off, CommitRec)
      /\ file'[H.cur + 1] = NewActive
      /\ \A i \in Idx \ {H.cur, H.cur + 1} : file'[i] = file[i]
  BY <1>1, FinalisedType
<1> QED
  BY <1>1, <1>2, WriteAppends DEF Finished, AtEnd, DotOf, NewActive

\* An add that finds the active file full puts its record into the new one.
LEMMA FullFinishes ==
    ASSUME TypeOK, NEW H \in Handle, AtEnd(H), H.cur < MaxIdx, NEW r \in Rec,
           file' = Written(Finalised(file, H), NextActive(H), r),
           dot' = DotOf(NextActive(H))
    PROVE  Finished(Append(<<>>, r))
<1> DEFINE g == Finalised(file, H)
           N == NextActive(H)
<1>1. file \in Files /\ file[dot.cur].recs \in Seq(Rec) /\ dot.cur \in Nat
  BY DEF TypeOK, Files, FileState, Idx
<1>2. /\ g \in Files /\ N \in Handle
      /\ N.cur = H.cur + 1 /\ N.cur \in Idx
      /\ N.off = 0 /\ N.offset = 0
      /\ g[H.cur].st = "final"
      /\ g[H.cur].recs = WriteAt(file[H.cur].recs, H.off, CommitRec)
      /\ g[H.cur + 1] = NewActive
      /\ \A i \in Idx \ {H.cur, H.cur + 1} : g[i] = file[i]
  BY <1>1, FinalisedType
<1> HIDE DEF g, N
<1>3. file' = Written(g, N, r) /\ dot' = DotOf(N)
  BY DEF g, N
<1>4. /\ \A i \in Idx : file'[i].st = g[i].st
      /\ \A i \in Idx : i # N.cur => file'[i] = g[i]
      /\ file'[N.cur].recs = WriteAt(g[N.cur].recs, N.off, r)
  BY <1>2, <1>3, WrittenType
<1>5. WriteAt(<<>>, 0, r) = Append(<<>>, r)
  BY EmptySeq, WriteAppends
<1>6. H.cur \in Idx /\ H.cur # N.cur /\ g[N.cur] = NewActive
  BY <1>1, <1>2 DEF AtEnd, Handle
<1>7. file'[H.cur].st = "final"
      /\ file'[H.cur].recs = Append(file[dot.cur].recs, CommitRec)
  BY <1>1, <1>2, <1>4, <1>6, WriteAppends DEF AtEnd
<1>8. file'[N.cur].st = "active" /\ file'[N.cur].recs = Append(<<>>, r)
  BY <1>2, <1>4, <1>5, <1>6 DEF NewActive
<1>9. \A i \in Idx : i \notin {H.cur, N.cur} => file'[i] = file[i]
  BY <1>2, <1>4
<1> QED
  BY <1>2, <1>3, <1>7, <1>8, <1>9 DEF Finished, AtEnd, DotOf

-----------------------------------------------------------------------------
(* What that makes of the store *)

\* A key record joins the transaction; another record changes nothing.
LEMMA AppendedViews ==
    ASSUME TypeOK, TypeOK', Dir, NEW r \in Rec, Appended(r), dot' = dot
    PROVE  /\ CommittedView' = CommittedView
           /\ PendingView' = IF r.t = "key" THEN [PendingView EXCEPT ![r.k] = r.c]
                                            ELSE PendingView
           /\ DiskView' = IF r.t = "key" THEN [DiskView EXCEPT ![r.k] = r.c]
                                         ELSE DiskView
<1> DEFINE recs == file[dot.cur].recs
           o == dot.offset
           rest == SubSeq(recs, o + 1, Len(recs))
<1>1. recs \in Seq(Rec) /\ o \in Nat /\ o <= Len(recs) /\ dot.cur \in Idx
      /\ file \in Files /\ file' \in Files
  BY DEF TypeOK, FileState, Dir, Files
<1>2. file[dot.cur].st = "active" /\ file'[dot'.cur].recs = Append(recs, r)
  BY <1>1, BoundAssumption DEF Dir, DirShape, Appended, Idx
<1>3. LoadFinal(file') = LoadFinal(file)
  <2>1. \A i \in Idx : file'[i].st = "final" <=> file[i].st = "final"
    BY DEF Appended
  <2>2. \A i \in Idx : file[i].st = "final" => file'[i].recs = file[i].recs
    BY <1>2 DEF Appended
  <2> QED
    BY <1>1, <2>1, <2>2, LoadFinalSame
<1> HIDE DEF recs, o
<1>4. Load(Append(recs, r)) = IF r.t = "key" THEN [Load(recs) EXCEPT ![r.k] = r.c]
                                             ELSE Load(recs)
  BY <1>1, LoadAppend
<1>5. rest \in Seq(Rec)
  BY <1>1, RestProps
<1>6. SubSeq(Append(recs, r), o + 1, Len(Append(recs, r))) = Append(rest, r)
  BY <1>1, RestAppend
<1> HIDE DEF rest
<1>7. Load(Append(rest, r)) = IF r.t = "key" THEN [Load(rest) EXCEPT ![r.k] = r.c]
                                             ELSE Load(rest)
  BY <1>5, LoadAppend
<1>8. Truncate(Append(recs, r), o) = Truncate(recs, o)
  BY <1>1, TruncateAppend
<1>9. CommittedView' = CommittedView
  BY <1>2, <1>3, <1>8 DEF CommittedView, recs, o
<1>10. PendingView' = Load(Append(rest, r)) /\ PendingView = Load(rest)
  BY <1>2, <1>6 DEF PendingView, recs, o, rest
<1>11. DiskView' = Overlay(Load(Append(recs, r)), LoadFinal(file))
       /\ DiskView = Overlay(Load(recs), LoadFinal(file))
  BY <1>2, <1>3 DEF DiskView, recs
<1>12. r.t = "key" => DiskView' = [DiskView EXCEPT ![r.k] = r.c]
  <2> SUFFICES ASSUME r.t = "key" PROVE DiskView' = [DiskView EXCEPT ![r.k] = r.c]
    OBVIOUS
  <2>1. r.k \in Keys /\ r.c \in Cell \ {Absent}
    BY RecTypes, KeyCell
  <2>2. Load(recs) \in [Keys -> Cell] /\ LoadFinal(file) \in [Keys -> Cell]
    BY <1>1, LoadType, LoadFinalType DEF Files
  <2> DEFINE a == Load(recs)
             b == LoadFinal(file)
  <2> HIDE DEF a, b
  <2>3. \A k \in Keys, c \in Cell \ {Absent} :
           Overlay([a EXCEPT ![k] = c], b) = [Overlay(a, b) EXCEPT ![k] = c]
    BY <2>2, OverlayPut DEF a, b
  <2>4. Overlay([a EXCEPT ![r.k] = r.c], b) = [Overlay(a, b) EXCEPT ![r.k] = r.c]
    BY <2>1, <2>3
  <2> QED
    BY <1>4, <1>11, <2>4 DEF a, b
<1> QED
  BY <1>4, <1>7, <1>9, <1>10, <1>11, <1>12

\* A commit acknowledges all there is and changes nothing else.
LEMMA CommittedViews ==
    ASSUME TypeOK, TypeOK', Dir, Appended(CommitRec),
           dot'.cur = dot.cur, dot'.offset = Len(file[dot.cur].recs) + 1
    PROVE  /\ CommittedView' = DiskView
           /\ PendingView' = NoCells
           /\ DiskView' = DiskView
<1> DEFINE recs == file[dot.cur].recs
           new == Append(recs, CommitRec)
<1>1. recs \in Seq(Rec) /\ dot.cur \in Idx /\ file \in Files /\ file' \in Files
  BY DEF TypeOK, FileState, Files
<1>2. file[dot.cur].st = "active" /\ file'[dot'.cur].recs = new
  BY <1>1, BoundAssumption DEF Dir, DirShape, Appended, Idx
<1>3. LoadFinal(file') = LoadFinal(file)
  <2>1. \A i \in Idx : file'[i].st = "final" <=> file[i].st = "final"
    BY DEF Appended
  <2>2. \A i \in Idx : file[i].st = "final" => file'[i].recs = file[i].recs
    BY <1>2 DEF Appended
  <2> QED
    BY <1>1, <2>1, <2>2, LoadFinalSame
<1> HIDE DEF recs
<1>4. new \in Seq(Rec) /\ Len(new) = Len(recs) + 1
  BY <1>1, RecTypes, AppendProperties
<1>5. Load(new) = Load(recs)
  BY <1>1, RecTypes, LoadAppend DEF CommitRec
<1>6. dot'.offset = Len(new)
  BY <1>4 DEF recs
<1>7. Truncate(new, Len(new)) = new
  BY <1>4, TruncateWhole
<1>8. SubSeq(new, Len(new) + 1, Len(new)) = <<>>
  BY <1>4, RestNone
<1> HIDE DEF new
<1>9. CommittedView' = Overlay(Load(new), LoadFinal(file))
  BY <1>2, <1>3, <1>6, <1>7 DEF CommittedView
<1>10. PendingView' = Load(<<>>)
  BY <1>2, <1>6, <1>8 DEF PendingView
<1>11. DiskView' = Overlay(Load(new), LoadFinal(file))
  BY <1>2, <1>3 DEF DiskView
<1>12. DiskView = Overlay(Load(recs), LoadFinal(file))
  BY DEF DiskView, recs
<1> QED
  BY <1>5, <1>9, <1>10, <1>11, <1>12, LoadEmpty

\* A finalise acknowledges all there is; the new active file lies on top.
LEMMA FinishedViews ==
    ASSUME TypeOK, TypeOK', Dir, NEW recs \in Seq(Rec), Finished(recs)
    PROVE  /\ CommittedView' = DiskView
           /\ PendingView' = Load(recs)
           /\ DiskView' = Overlay(Load(recs), DiskView)
<1> DEFINE old == file[dot.cur].recs
           n == dot.cur + 1
<1>1. old \in Seq(Rec) /\ dot.cur \in Idx /\ n \in Idx /\ file \in Files /\ file' \in Files
  BY DEF TypeOK, FileState, Files, Finished
<1>2. \A i \in Idx : i \in Nat
  BY BoundAssumption DEF Idx
<1>3. /\ file[dot.cur].st = "active" /\ file[n].st = "none"
      /\ \A i \in Idx : file[i].st = "final" => i < dot.cur
  BY <1>1, <1>2 DEF Dir, DirShape
<1>4. /\ file'[dot.cur].st = "final" /\ file'[dot.cur].recs = Append(old, CommitRec)
      /\ file'[n].st = "active" /\ file'[n].recs = recs
      /\ \A i \in Idx : i \notin {dot.cur, n} => file'[i] = file[i]
      /\ dot'.cur = n /\ dot'.offset = 0
  BY DEF Finished
<1>5. LoadFinal(file') = Overlay(Load(Append(old, CommitRec)), LoadFinal(file))
  <2>1. \A i \in Idx \ {dot.cur} : file'[i].st = "final" <=> file[i].st = "final"
    BY <1>3, <1>4
  <2>2. \A i \in Idx : file[i].st = "final" => file'[i].recs = file[i].recs /\ i < dot.cur
    BY <1>1, <1>2, <1>3, <1>4
  <2>3. file[dot.cur].st # "final"
    BY <1>3
  <2> QED
    BY <1>1, <1>4, <2>1, <2>2, <2>3, LoadFinalNext
<1> HIDE DEF old
<1>6. Load(Append(old, CommitRec)) = Load(old)
  BY <1>1, RecTypes, LoadAppend DEF CommitRec
<1>7. LoadFinal(file') = DiskView
  BY <1>5, <1>6 DEF DiskView, old
<1>8. DiskView' = Overlay(Load(recs), LoadFinal(file'))
  BY <1>4 DEF DiskView
<1>9. Load(Truncate(recs, 0)) = NoCells
  <2>1. Truncate(recs, 0) \in Seq(Rec) /\ Len(Truncate(recs, 0)) = 0
    BY TruncateProps
  <2>2. Truncate(recs, 0) = <<>>
    BY <2>1, EmptySeq
  <2> QED
    BY <2>2, LoadEmpty
<1>10. CommittedView' = Overlay(NoCells, LoadFinal(file'))
  BY <1>4, <1>9 DEF CommittedView
<1>11. LoadFinal(file') \in [Keys -> Cell]
  BY <1>1, LoadFinalType DEF Files
<1>12. SubSeq(recs, 0 + 1, Len(recs)) = recs
  BY SubSeqFull
<1>13. PendingView' = Load(recs)
  BY <1>4, <1>12 DEF PendingView
<1> QED
  BY <1>7, <1>8, <1>10, <1>11, <1>13, OverlayNone

-----------------------------------------------------------------------------
(* What it makes of the memory of the handles *)

\* A handle that has replayed the directory holds what a replay yields.
LEMMA ReopenedView ==
    ASSUME NEW H \in Handle, H.cur = dot.cur
    PROVE  /\ View(Reopened(H, file)) = DiskView
           /\ View([Reopened(H, file) EXCEPT !.st = "open"]) = DiskView
<1>1. /\ Reopened(H, file).mem = Load(file[H.cur].recs)
      /\ Reopened(H, file).fmem = LoadFinal(file)
      /\ [Reopened(H, file) EXCEPT !.st = "open"].mem = Load(file[H.cur].recs)
      /\ [Reopened(H, file) EXCEPT !.st = "open"].fmem = LoadFinal(file)
  BY DEF Reopened, Handle
<1> QED
  BY <1>1 DEF View, DiskView

\* One that has written a record sees it.
LEMMA WroteView ==
    ASSUME NEW H \in Handle, NEW k \in Keys, NEW c \in Cell \ {Absent}
    PROVE  View(Wrote(H, k, c)) = [View(H) EXCEPT ![k] = c]
<1>1. H.mem \in [Keys -> Cell] /\ H.fmem \in [Keys -> Cell]
  BY DEF Handle
<1>2. Wrote(H, k, c).mem = [H.mem EXCEPT ![k] = c] /\ Wrote(H, k, c).fmem = H.fmem
  BY DEF Wrote, Handle
<1> QED
  BY SMTT(60), <1>1, <1>2, OverlayPut DEF View

\* Going on to the next file keeps the memory.
LEMMA NextActiveView == ASSUME NEW H \in Handle PROVE View(NextActive(H)) = View(H)
<1>1. NextActive(H).mem = H.mem /\ NextActive(H).fmem = H.fmem
  BY DEF NextActive, Handle
<1> QED
  BY <1>1 DEF View

\* A writer that has looked at .zsdb holds what a replay yields.
LEMMA SyncedView ==
    ASSUME TypeOK, WriterInv, MemoryIsDisk, NEW h \in Handles, Holds(h), Syncs(h)
    PROVE  View(SyncedHandle(h)) = DiskView
<1>1. /\ SyncedFile(h) = file /\ SyncedHandle(h).cur = dot.cur
      /\ \A g \in Handles \ {h} : ~hs[g].dirty
      /\ wlock # Stale /\ IsOpen(h)
  BY SyncedProps DEF Holds
<1>2. CASE h \in fresh
  BY <1>1, <1>2 DEF SyncedHandle, MemoryIsDisk
<1>3. CASE h \notin fresh
  <2>1. hs[h] \in Handle /\ file \in Files /\ SyncedHandle(h) = Reopened(hs[h], file)
    BY <1>1, <1>3 DEF TypeOK, Files, SyncedHandle
  <2>2. hs[h].cur = dot.cur
    BY <1>1, <2>1, ReopenedType
  <2> QED
    BY <2>1, <2>2, ReopenedView
<1> QED
  BY <1>2, <1>3

\* A call that changes neither the files nor .zsdb keeps the agreement, if h
\* does not end a transaction by it and still agrees itself.
LEMMA QuietMemory ==
    ASSUME MemoryIsDisk, NEW h \in Handles, TypeOK, TypeOK',
           file' = file, dot' = dot,
           \A g \in Handles \ {h} : hs'[g] = hs[g],
           fresh' \subseteq fresh \cup {h},
           wlock = Stale => wlock' = Stale,
           hs[h].dirty => hs'[h].dirty \/ wlock' = Stale,
           \/ h \in fresh' => ~IsOpen(h)'
           \/ View(hs'[h]) = DiskView
           \/ h \in fresh /\ IsOpen(h) /\ View(hs'[h]) = View(hs[h])
    PROVE  MemoryIsDisk'
<1>1. DiskView' = DiskView
  BY DEF DiskView
<1>2. ASSUME NEW g \in fresh', IsOpen(g)', wlock' # Stale,
             \A q \in Handles \ {g} : ~hs'[q].dirty
      PROVE  View(hs'[g]) = DiskView'
  <2>1. CASE g = h
    <3>1. \A q \in Handles \ {h} : ~hs[q].dirty
      BY <1>2, <2>1
    <3>2. wlock # Stale
      BY <1>2
    <3> QED
      BY <1>1, <1>2, <2>1, <3>1, <3>2 DEF MemoryIsDisk
  <2>2. CASE g # h
    <3>1. g \in fresh /\ g \in Handles /\ hs'[g] = hs[g] /\ IsOpen(g) /\ wlock # Stale
      BY <1>2, <2>2 DEF TypeOK, IsOpen
    <3>2. \A q \in Handles \ {g} : ~hs[q].dirty
      BY <1>2, <2>2
    <3> QED
      BY <1>1, <3>1, <3>2 DEF MemoryIsDisk
  <2> QED
    BY <2>1, <2>2
<1> QED
  BY <1>2 DEF MemoryIsDisk, IsOpen, View, DiskView

\* A call of a writer keeps it, if the writer agrees with what it has written
\* and the others can tell that they may not: by the stat of .zsdb, or because
\* the writer is in a transaction.
LEMMA OwnMemory ==
    ASSUME TypeOK', NEW h \in Handles, hs'[h].dirty \/ fresh' = {h},
           View(hs'[h]) = DiskView'
    PROVE  MemoryIsDisk'
<1>1. ASSUME NEW g \in fresh', \A q \in Handles \ {g} : ~hs'[q].dirty
      PROVE  g = h
  BY <1>1
<1>2. ASSUME NEW g \in fresh', (\A q \in Handles \ {g} : ~hs[q].dirty)'
      PROVE  View(hs'[g]) = DiskView'
  BY <1>1, <1>2
<1> QED
  BY <1>2 DEF MemoryIsDisk, View, DiskView

-----------------------------------------------------------------------------
(* The steps of the store *)

\* A step of KVStore, or none.
Stored == [KV!Next]_<<CommittedView, PendingView>>

\* Without a change to the files and .zsdb the store does not change.
LEMMA QuietStores == ASSUME file' = file, dot' = dot PROVE Stored
BY DEF Stored, CommittedView, PendingView

\* A key record that joins the transaction is a Put.
LEMMA PutStores ==
    ASSUME TypeOK, TypeOK', Dir, NEW k \in Keys, NEW c \in Values \cup {Tomb},
           Appended(KeyRec(k, c)), dot' = dot
    PROVE  Stored /\ DiskView' = [DiskView EXCEPT ![k] = c]
<1> DEFINE r == KeyRec(k, c)
<1>1. r \in Rec /\ r.t = "key" /\ r.k = k /\ r.c = c
  BY RecTypes DEF KeyRec
<1> HIDE DEF r
<1>2. /\ CommittedView' = CommittedView
      /\ PendingView' = [PendingView EXCEPT ![r.k] = r.c]
      /\ DiskView' = [DiskView EXCEPT ![r.k] = r.c]
  BY <1>1, AppendedViews DEF r
<1>3. KV!Put(k, c)
  BY <1>1, <1>2 DEF KV!Put
<1> QED
  BY <1>1, <1>2, <1>3 DEF Stored, KV!Next, KV!Put1

\* A commit record that .zsdb acknowledges is a Commit.
LEMMA CommitStores ==
    ASSUME TypeOK, TypeOK', Dir, Appended(CommitRec),
           dot'.cur = dot.cur, dot'.offset = Len(file[dot.cur].recs) + 1
    PROVE  Stored /\ DiskView' = DiskView
<1>1. CommittedView' = DiskView /\ PendingView' = NoCells /\ DiskView' = DiskView
  BY CommittedViews
<1>2. DiskView = Overlay(PendingView, CommittedView)
  BY DiskIsBoth
<1>3. KV!Commit
  BY <1>1, <1>2 DEF KV!Commit, KV!Overlay, Overlay, KV!NoCells, NoCells
<1> QED
  BY <1>1, <1>3 DEF Stored, KV!Next

\* So is a finalise.
LEMMA FinishStores ==
    ASSUME TypeOK, TypeOK', Dir, Finished(<<>>)
    PROVE  Stored /\ DiskView' = DiskView
<1>1. /\ CommittedView' = DiskView /\ PendingView' = NoCells
      /\ DiskView' = Overlay(NoCells, DiskView)
  BY FinishedViews, LoadEmpty, EmptySeq
<1>2. DiskView = Overlay(PendingView, CommittedView) /\ DiskView \in [Keys -> Cell]
  BY DiskIsBoth
<1>3. KV!Commit
  BY <1>1, <1>2 DEF KV!Commit, KV!Overlay, Overlay, KV!NoCells, NoCells
<1> QED
  BY <1>1, <1>2, <1>3, OverlayNone DEF Stored, KV!Next

\* An add that finalises is a Commit and a Put at once.
LEMMA FullStores ==
    ASSUME TypeOK, TypeOK', Dir, NEW k \in Keys, NEW c \in Values \cup {Tomb},
           Finished(Append(<<>>, KeyRec(k, c)))
    PROVE  Stored /\ DiskView' = [DiskView EXCEPT ![k] = c]
<1> DEFINE r == KeyRec(k, c)
           recs == Append(<<>>, r)
<1>1. r \in Rec /\ r.t = "key" /\ r.k = k /\ r.c = c
  BY RecTypes DEF KeyRec
<1> HIDE DEF r
<1>2. recs \in Seq(Rec)
  BY <1>1, EmptySeq, AppendProperties
<1>3. Load(recs) = [NoCells EXCEPT ![k] = c]
  <2>1. <<>> \in Seq(Rec)
    BY EmptySeq
  <2> QED
    BY <1>1, <2>1, LoadAppend, LoadEmpty
<1> HIDE DEF recs
<1>4. /\ CommittedView' = DiskView /\ PendingView' = Load(recs)
      /\ DiskView' = Overlay(Load(recs), DiskView)
  BY <1>2, FinishedViews DEF recs, r
<1>5. DiskView = Overlay(PendingView, CommittedView) /\ DiskView \in [Keys -> Cell]
  BY DiskIsBoth
<1>6. KV!CommitThenPut(k, c)
  BY <1>3, <1>4, <1>5 DEF KV!CommitThenPut, KV!Overlay, Overlay, KV!NoCells, NoCells
<1>7. DiskView' = [DiskView EXCEPT ![k] = c]
  <2> DEFINE D == DiskView
  <2>1. D \in [Keys -> Cell] /\ c \in Cell \ {Absent} /\ NoCells \in [Keys -> Cell]
    BY <1>5, CellAssumption DEF Cell, NoCells
  <2> HIDE DEF D
  <2>2. Overlay([NoCells EXCEPT ![k] = c], D) = [Overlay(NoCells, D) EXCEPT ![k] = c]
    <3> DEFINE E == NoCells
    <3> HIDE DEF E
    <3>1. E \in [Keys -> Cell]
      BY <2>1 DEF E
    <3>2. \A x \in Cell \ {Absent} : Overlay([E EXCEPT ![k] = x], D) = [Overlay(E, D) EXCEPT ![k] = x]
      BY ZenonT(60), <2>1, <3>1, OverlayPut
    <3> QED
      BY <2>1, <3>2 DEF E
  <2>3. Overlay(NoCells, D) = D
    BY <2>1, OverlayNone
  <2> QED
    BY <1>3, <1>4, <2>2, <2>3 DEF D
<1> QED
  BY <1>6, <1>7 DEF Stored, KV!Next, KV!Split

-----------------------------------------------------------------------------
(* Disciplined writers *)

\* What the writers rely on of the directory.
LEMMA WriterDir == ASSUME WriterInv PROVE Dir
BY DEF WriterInv, Dir

\* zsdb_add
LEMMA AddMemory ==
    ASSUME TypeOK, TypeOK', WriterInv, MemoryIsDisk,
           NEW h \in Handles, NEW k \in Keys, NEW v \in Values, Add(h, k, v)
    PROVE  MemoryIsDisk' /\ Stored
<1> DEFINE H == SyncedHandle(h)
<1>1. Holds(h)
  BY DEF Add
<1>2. CASE ReloadFails(h)
  <2>1. file' = file /\ dot' = dot
    BY <1>1, <1>2, ReloadFailsInv
  <2>2. /\ \A g \in Handles \ {h} : hs'[g] = hs[g]
        /\ ~IsOpen(h)' /\ fresh' = fresh \cup {h}
    BY <1>2 DEF ReloadFails, IsOpen, TypeOK, Handle
  <2>3. wlock # Stale /\ ~hs[h].dirty
    BY <1>1, <1>2, LockAssumption DEF Holds, ReloadFails, Syncs, WriterInv
  <2> QED
    BY <2>1, <2>2, <2>3, QuietMemory, QuietStores
<1>3. CASE Syncs(h)
  <2>1. /\ SyncedFile(h) = file /\ H \in Handle /\ AtEnd(H) /\ H.cur = dot.cur
        /\ FindsActive(file, H) /\ View(H) = DiskView
    BY <1>1, <1>3, SyncedProps, SyncedView DEF AtEnd
  <2>2. Dir /\ v \in Cell \ {Absent} /\ KeyRec(k, v) \in Rec /\ h \in DOMAIN hs
    BY WriterDir, RecTypes, CellAssumption DEF Cell, TypeOK
  <2>3. CASE AddHere(h, k, v)
    <3>1. /\ file' = Written(file, H, KeyRec(k, v)) /\ dot' = dot
          /\ hs'[h] = Wrote(H, k, v)
      BY <2>1, <2>2, <2>3 DEF AddHere
    <3> HIDE DEF H
    <3>2. Stored /\ DiskView' = [DiskView EXCEPT ![k] = v]
      BY <2>1, <2>2, <3>1, WrittenAppends, PutStores
    <3>3. hs'[h].dirty /\ View(hs'[h]) = DiskView'
      BY <2>1, <2>2, <3>1, <3>2, WroteView, WroteType
    <3> QED
      BY <3>2, <3>3, OwnMemory
  <2>4. CASE AddToNext(h, k, v)
    <3> DEFINE N == NextActive(H)
    <3>1. /\ H.cur < MaxIdx
          /\ file' = Written(Finalised(file, H), N, KeyRec(k, v)) /\ dot' = DotOf(N)
          /\ hs'[h] = Wrote(N, k, v)
      BY <2>1, <2>2, <2>4 DEF AddToNext, RenameFails
    <3> HIDE DEF H
    <3>2. Stored /\ DiskView' = [DiskView EXCEPT ![k] = v]
      BY <2>1, <2>2, <3>1, FullFinishes, FullStores
    <3>3. N \in Handle /\ View(N) = DiskView
      BY <2>1, <3>1, FinalisedType, NextActiveView DEF TypeOK, Files
    <3> HIDE DEF N
    <3>4. hs'[h].dirty /\ View(hs'[h]) = DiskView'
      BY <2>2, <3>1, <3>2, <3>3, WroteView, WroteType
    <3> QED
      BY <3>2, <3>4, OwnMemory
  <2> QED
    BY <1>2, <1>3, <2>3, <2>4 DEF Add, ReloadFails
<1> QED
  BY <1>2, <1>3 DEF Add

\* zsdb_finalise
LEMMA FinaliseMemory ==
    ASSUME TypeOK, TypeOK', WriterInv, MemoryIsDisk, NEW h \in Handles, Finalise(h)
    PROVE  MemoryIsDisk' /\ Stored
<1> DEFINE H == SyncedHandle(h)
           N == NextActive(H)
<1>1. Holds(h)
  BY DEF Finalise
<1>2. CASE ReloadFails(h)
  <2>1. file' = file /\ dot' = dot
    BY <1>1, <1>2, ReloadFailsInv
  <2>2. /\ \A g \in Handles \ {h} : hs'[g] = hs[g]
        /\ ~IsOpen(h)' /\ fresh' = fresh \cup {h}
    BY <1>2 DEF ReloadFails, IsOpen, TypeOK, Handle
  <2>3. wlock # Stale /\ ~hs[h].dirty
    BY <1>1, <1>2, LockAssumption DEF Holds, ReloadFails, Syncs, WriterInv
  <2> QED
    BY <2>1, <2>2, <2>3, QuietMemory, QuietStores
<1>3. CASE Syncs(h) /\ FinaliseNow(h)
  <2>1. /\ SyncedFile(h) = file /\ H \in Handle /\ AtEnd(H) /\ H.cur = dot.cur
        /\ FindsActive(file, H) /\ View(H) = DiskView
    BY <1>1, <1>3, SyncedProps, SyncedView DEF AtEnd
  <2>2. Dir /\ h \in DOMAIN hs
    BY WriterDir DEF TypeOK
  <2>3. /\ H.cur < MaxIdx
        /\ file' = Finalised(file, H) /\ dot' = DotOf(N)
        /\ hs'[h] = N /\ fresh' = {h}
    BY <1>3, <2>1, <2>2 DEF FinaliseNow, RenameFails
  <2> HIDE DEF H
  <2>4. Stored /\ DiskView' = DiskView
    BY <2>1, <2>2, <2>3, FinalisedFinishes, FinishStores
  <2>5. View(hs'[h]) = DiskView'
    BY <2>1, <2>3, <2>4, NextActiveView
  <2> QED
    BY <2>3, <2>4, <2>5, OwnMemory
<1> QED
  BY <1>2, <1>3 DEF Finalise

\* zsdb_commit
LEMMA CommitMemory ==
    ASSUME TypeOK, TypeOK', WriterInv, MemoryIsDisk, NEW h \in Handles, Commit(h)
    PROVE  MemoryIsDisk' /\ Stored
<1>1. /\ hs[h] \in Handle /\ AtEnd(hs[h])
      /\ file' = Written(file, hs[h], CommitRec)
      /\ dot'.cur = dot.cur /\ dot'.offset = Len(file[dot.cur].recs) + 1
  BY CommitInv DEF AtEnd
<1>2. Stored /\ DiskView' = DiskView
  BY <1>1, RecTypes, WrittenAppends, WriterDir, CommitStores
<1>3. View(hs[h]) = DiskView
  BY DirtyProps DEF Commit, MemoryIsDisk
<1>4. fresh' = {h} /\ hs'[h].mem = hs[h].mem /\ hs'[h].fmem = hs[h].fmem
  BY <1>1 DEF Commit, TypeOK, Handle
<1>5. View(hs'[h]) = DiskView'
  BY <1>2, <1>3, <1>4 DEF View
<1> QED
  BY <1>2, <1>4, <1>5, OwnMemory

\* zsdb_open
LEMMA OpenMemory ==
    ASSUME TypeOK, TypeOK', WriterInv, MemoryIsDisk, NEW h \in Handles, Open(h)
    PROVE  MemoryIsDisk' /\ Stored
<1> DEFINE H == [ClosedHandle EXCEPT !.cur = dot.cur, !.offset = dot.offset]
<1>1. H \in Handle /\ H.cur = dot.cur /\ H.st = "closed"
  BY ClosedHandleType DEF Handle, TypeOK, ClosedHandle
<1>2. /\ hs' = [hs EXCEPT ![h] = IF HasHole(file) THEN [H EXCEPT !.st = "hung"]
                                 ELSE [Reopened(H, file) EXCEPT !.st = "open"]]
      /\ fresh' = fresh \cup {h} /\ file' = file /\ dot' = dot /\ wlock' = wlock
  BY DEF Open
<1> HIDE DEF H
<1>3. ~hs[h].dirty
  BY DEF Open, WriterInv, IsOpen
<1>4. \A g \in Handles \ {h} : hs'[g] = hs[g]
  BY <1>2 DEF TypeOK
<1>5. ~IsOpen(h)' \/ View(hs'[h]) = DiskView
  <2>1. CASE HasHole(file)
    BY <1>1, <1>2, <2>1 DEF IsOpen, TypeOK, Handle
  <2>2. CASE ~HasHole(file)
    <3>1. hs'[h] = [Reopened(H, file) EXCEPT !.st = "open"]
      BY <1>2, <2>2 DEF TypeOK
    <3> QED
      BY <1>1, <3>1, ReopenedView
  <2> QED
    BY <2>1, <2>2
<1> QED
  BY <1>2, <1>3, <1>4, <1>5, QuietMemory, QuietStores

\* zsdb_close and death
LEMMA LeaveMemory ==
    ASSUME TypeOK, TypeOK', MemoryIsDisk, NEW h \in Handles,
           hs' = [hs EXCEPT ![h] = ClosedHandle], fresh' = fresh \ {h},
           file' = file, dot' = dot,
           wlock = Stale => wlock' = Stale, hs[h].dirty => wlock' = Stale
    PROVE  MemoryIsDisk' /\ Stored
<1>1. \A g \in Handles \ {h} : hs'[g] = hs[g]
  BY DEF TypeOK
<1>2. h \notin fresh'
  OBVIOUS
<1> QED
  BY <1>1, <1>2, QuietMemory, QuietStores

\* A step of a disciplined writer is a step of the store, or none, and keeps
\* what the handles remember in agreement with the directory.
LEMMA StepMemory ==
    ASSUME TypeOK, TypeOK', WriterInv, MemoryIsDisk, Orderly, NEW h \in Handles, Step(h)
    PROVE  MemoryIsDisk' /\ Stored
<1>1. CASE Open(h)
  BY <1>1, OpenMemory
<1>2. CASE Acquire(h)
  BY <1>2, LockAssumption, QuietStores
  DEF Acquire, MemoryIsDisk, View, DiskView, IsOpen
<1>3. CASE Release(h)
  <2>1. wlock # Stale
    BY <1>3, LockAssumption DEF Release, Holds
  <2> QED
    BY <1>3, <2>1, QuietStores
    DEF Release, Holds, MemoryIsDisk, View, DiskView, IsOpen
<1>4. ASSUME NEW k \in Keys, NEW v \in Values, Add(h, k, v)
      PROVE  MemoryIsDisk' /\ Stored
  BY <1>4, AddMemory
<1>5. ~\E k \in Keys : Remove(h, k)
  BY DEF Remove, Orderly
<1>6. CASE Commit(h)
  BY <1>6, CommitMemory
<1>7. ~Fetch(h) /\ ~Abort(h)
  BY DEF Fetch, Abort, Orderly
<1>8. CASE Finalise(h)
  BY <1>8, FinaliseMemory
<1>9. CASE CloseRelease(h)
  <2>1. ~hs[h].dirty
    BY <1>9 DEF CloseRelease, Disciplined, Orderly
  <2>2. /\ hs' = [hs EXCEPT ![h] = ClosedHandle] /\ fresh' = fresh \ {h}
        /\ file' = file /\ dot' = dot /\ (wlock = Stale => wlock' = Stale)
    BY <1>9, <2>1, LockAssumption DEF CloseRelease
  <2> QED
    BY <2>1, <2>2, LeaveMemory
<1>10. CASE CloseCommit(h)
  <2>1. ~hs[h].dirty
    BY <1>10 DEF CloseCommit, WriterInv, IsOpen
  <2>2. /\ hs' = [hs EXCEPT ![h] = ClosedHandle] /\ fresh' = fresh \ {h}
        /\ file' = file /\ dot' = dot /\ wlock' = wlock
    BY <1>10, <2>1 DEF CloseCommit, ClosedFile
  <2> QED
    BY <2>1, <2>2, LeaveMemory
<1>11. CASE Crash(h)
  <2>1. hs[h].dirty => wlock = h
    BY DEF WriterInv
  <2>2. /\ hs' = [hs EXCEPT ![h] = ClosedHandle] /\ fresh' = fresh \ {h}
        /\ file' = file /\ dot' = dot /\ wlock' = IF wlock = h THEN Stale ELSE wlock
    BY <1>11 DEF Crash
  <2> QED
    BY <2>1, <2>2, LeaveMemory
<1>12. ~CommitBroken(h)
  BY DEF CommitBroken, WriterInv, IsOpen
<1> QED
  BY <1>1, <1>2, <1>3, <1>4, <1>5, <1>6, <1>7, <1>8, <1>9, <1>10, <1>11, <1>12 DEF Step

\* Every step, stuttering included.
LEMMA NextMemory ==
    ASSUME TypeOK, TypeOK', WriterInv, MemoryIsDisk, Orderly, [Next]_vars
    PROVE  MemoryIsDisk' /\ Stored
<1>1. CASE UNCHANGED vars
  BY <1>1, QuietStores DEF vars, MemoryIsDisk, View, DiskView, IsOpen
<1> QED
  BY <1>1, StepMemory DEF Next

\* A new directory is an empty store, and nobody has anything in memory.
LEMMA InitStore == ASSUME Init PROVE MemoryIsDisk /\ KV!Init
<1>1. MemoryIsDisk
  BY DEF Init, MemoryIsDisk
<1>2. 0 \in Idx /\ file[0] = NewActive /\ dot.cur = 0 /\ dot.offset = 0
  BY BoundAssumption DEF Init, Idx
<1>3. Load(<<>>) = NoCells /\ <<>> \in Seq(Rec) /\ Len(<<>>) = 0
  BY LoadEmpty, EmptySeq
<1> DEFINE recs == file[dot.cur].recs
<1>4. recs = <<>>
  BY <1>2 DEF NewActive
<1> HIDE DEF recs
<1>5. Truncate(recs, 0) = recs /\ PendingView = NoCells
  <2>0. recs \in Seq(Rec) /\ Len(recs) = 0
    BY <1>3, <1>4
  <2>1. SubSeq(recs, 0 + 1, Len(recs)) = recs
    BY <2>0, SubSeqFull
  <2>2. PendingView = Load(recs)
    BY <1>2, <2>1 DEF PendingView, recs
  <2>3. Truncate(recs, Len(recs)) = recs
    BY <2>0, TruncateWhole
  <2> QED
    BY <1>3, <1>4, <2>0, <2>2, <2>3
<1>6. LoadFinal(file) = NoCells
  <2>1. \A i \in Idx : file[i].st # "final"
    BY DEF Init, NewActive, NoFile
  <2>2. \A i \in Idx : FinalMaps(file)[i] = NoCells
    BY <2>1 DEF FinalMaps
  <2>3. \A k \in Keys, i \in Idx : ~NewestWith(FinalMaps(file), k, i)
    BY <2>2 DEF NewestWith, NoCells
  <2> QED
    BY <2>3 DEF LoadFinal, NoCells
<1>7. CommittedView = NoCells
  <2>1. NoCells \in [Keys -> Cell]
    BY DEF NoCells, Cell
  <2> QED
    BY <1>2, <1>3, <1>4, <1>5, <1>6, <2>1, OverlayNone DEF CommittedView, recs
<1> QED
  BY <1>1, <1>5, <1>7 DEF KV!Init, KV!NoCells, NoCells

\* The memory of a disciplined writer with the last stat of .zsdb is what a
\* replay of the directory gives, whatever the others did or die of.
THEOREM Memory == ASSUME Orderly PROVE Spec => []MemoryIsDisk
<1>1. TypeOK /\ TypeOK' /\ WriterInv /\ MemoryIsDisk /\ [Next]_vars => MemoryIsDisk'
  BY NextMemory
<1> QED
  BY <1>1, InitStore, WriterInvariance, TypeCorrect, PTL DEF Spec

\* The directory of disciplined writers is a store: whatever they call and
\* wherever they die, what .zsdb acknowledges changes by commits of the one
\* transaction in progress.
THEOREM Store == ASSUME Orderly PROVE Spec => ImplementsKVStore
<1>1. TypeOK /\ TypeOK' /\ WriterInv /\ MemoryIsDisk /\ [Next]_vars
        => [KV!Next]_<<CommittedView, PendingView>>
  BY NextMemory DEF Stored
<1>2. Init => KV!Init
  BY InitStore
<1> QED
  BY <1>1, <1>2, Memory, WriterInvariance, TypeCorrect, PTL
  DEF Spec, ImplementsKVStore, KV!Spec, KV!kvvars

-----------------------------------------------------------------------------
(* A handle that is alone *)

\* One handle at a time: processes that open the directory one after another.
Sole == \A g, h \in Handles : g = h

\* The handle stands at the end of the active file with the offset of .zsdb,
\* and no log has a hole in it for a replay to hang on.
SoleInv ==
    /\ Dir
    /\ ~HasHole(file)
    /\ \A h \in Handles :
          /\ hs[h].st \notin {"broken", "hung"}
          /\ hs[h].st \in {"open", "closing"} =>
                AtEnd(hs[h]) /\ hs[h].offset = dot.offset
          /\ IsOpen(h) => h \in fresh /\ View(hs[h]) = DiskView
          /\ hs[h].st = "asserted" =>
                wlock = Stale /\ Len(file[dot.cur].recs) = dot.offset

-----------------------------------------------------------------------------
(* What the writes leave of the shape of the directory *)

\* An append acknowledged at most as far as it goes.
LEMMA AppendedDir ==
    ASSUME TypeOK, TypeOK', Dir, ~HasHole(file), NEW r \in Rec, r.t # "hole",
           Appended(r), dot'.cur = dot.cur,
           dot'.offset = dot.offset \/ dot'.offset = Len(file[dot.cur].recs) + 1
    PROVE  /\ Dir' /\ ~HasHole(file')
           /\ Len(file'[dot'.cur].recs) = Len(file[dot.cur].recs) + 1
<1> DEFINE recs == file[dot.cur].recs
           new == file'[dot.cur].recs
<1>1. recs \in Seq(Rec) /\ dot.cur \in Idx /\ dot.offset \in Nat /\ dot.offset <= Len(recs)
  BY DEF TypeOK, FileState, Dir
<1>2. file[dot.cur].st = "active"
  BY <1>1, BoundAssumption DEF Dir, DirShape, Idx
<1>3. new = Append(recs, r)
  BY DEF Appended
<1>4. \A n \in DOMAIN recs : recs[n].t # "hole"
  BY <1>1, <1>2 DEF HasHole
<1> HIDE DEF recs, new
<1>5. /\ new \in Seq(Rec) /\ Len(new) = Len(recs) + 1 /\ new[Len(recs) + 1] = r
      /\ \A n \in 1..Len(recs) : new[n] = recs[n]
  BY <1>1, <1>3, AppendProperties
<1>6. DOMAIN recs = 1..Len(recs) /\ DOMAIN new = 1..(Len(recs) + 1) /\ Len(recs) \in Nat
  BY <1>1, <1>5, LenProperties
<1>7. \A n \in DOMAIN new : new[n].t # "hole"
  BY <1>4, <1>5, <1>6
<1>8. ~HasHole(file')
  BY <1>7 DEF HasHole, Appended, new
<1>9. DirShape'
  BY DEF Dir, DirShape, Appended
<1>10. dot'.offset <= Len(new)
  BY <1>1, <1>5, <1>6 DEF recs
<1> QED
  BY <1>5, <1>8, <1>9, <1>10 DEF Dir, recs, new

\* A finalise.
LEMMA FinishedDir ==
    ASSUME TypeOK, TypeOK', Dir, ~HasHole(file), NEW recs \in Seq(Rec), Finished(recs),
           \A n \in DOMAIN recs : recs[n].t # "hole"
    PROVE  Dir' /\ ~HasHole(file')
<1> DEFINE old == file[dot.cur].recs
           new == file'[dot.cur].recs
           m == dot.cur + 1
<1>1. old \in Seq(Rec) /\ dot.cur \in Idx /\ m \in Idx /\ \A i \in Idx : i \in Nat
  BY BoundAssumption DEF TypeOK, FileState, Finished, Idx
<1>2. file[dot.cur].st = "active"
  BY <1>1 DEF Dir, DirShape
<1>3. new = Append(old, CommitRec) /\ CommitRec \in Rec /\ CommitRec.t # "hole"
  BY RecTypes DEF Finished, CommitRec
<1>4. \A n \in DOMAIN old : old[n].t # "hole"
  BY <1>1, <1>2 DEF HasHole
<1> HIDE DEF old, new
<1>5. /\ new \in Seq(Rec) /\ Len(new) = Len(old) + 1 /\ new[Len(old) + 1] = CommitRec
      /\ \A n \in 1..Len(old) : new[n] = old[n]
  BY <1>1, <1>3, AppendProperties
<1>6. DOMAIN old = 1..Len(old) /\ DOMAIN new = 1..(Len(old) + 1) /\ Len(old) \in Nat
  BY <1>1, <1>5, LenProperties
<1>7. \A n \in DOMAIN new : new[n].t # "hole"
  BY <1>3, <1>4, <1>5, <1>6
<1>8. ~HasHole(file')
  BY <1>7 DEF HasHole, Finished, new
<1>9. DirShape'
  <2> SUFFICES ASSUME NEW i \in Idx
               PROVE  file'[i].st = IF i < m THEN "final"
                                    ELSE IF i = m THEN "active" ELSE "none"
    BY DEF DirShape, Finished
  <2>1. file[i].st = IF i < dot.cur THEN "final"
                     ELSE IF i = dot.cur THEN "active" ELSE "none"
    BY DEF Dir, DirShape
  <2> QED
    BY <1>1, <2>1 DEF Finished
<1>10. (dot.offset <= Len(file[dot.cur].recs))'
  BY LenProperties DEF Finished
<1> QED
  BY <1>8, <1>9, <1>10 DEF Dir

\* zsdb_abort cuts the active file where .zsdb acknowledges it to.
CutBack == /\ file' = [file EXCEPT ![dot.cur].recs = Truncate(@, dot.offset)]
           /\ dot' = dot

LEMMA CutDir ==
    ASSUME TypeOK, TypeOK', Dir, ~HasHole(file), CutBack
    PROVE  /\ Dir' /\ ~HasHole(file')
           /\ Len(file'[dot'.cur].recs) = dot.offset
<1> DEFINE recs == file[dot.cur].recs
           new == file'[dot.cur].recs
<1>1. recs \in Seq(Rec) /\ dot.cur \in Idx /\ dot.offset \in Nat /\ dot.offset <= Len(recs)
  BY DEF TypeOK, FileState, Dir
<1>2. file[dot.cur].st = "active"
  BY <1>1, BoundAssumption DEF Dir, DirShape, Idx
<1>3. /\ new = Truncate(recs, dot.offset)
      /\ \A i \in Idx : file'[i].st = file[i].st
      /\ \A i \in Idx : i # dot.cur => file'[i] = file[i]
  BY <1>1 DEF CutBack, TypeOK, FileState
<1>4. \A n \in DOMAIN recs : recs[n].t # "hole"
  BY <1>1, <1>2 DEF HasHole
<1> HIDE DEF recs, new
<1>5. /\ new \in Seq(Rec) /\ Len(new) = dot.offset
      /\ \A n \in 1..dot.offset : n <= Len(recs) => new[n] = recs[n]
  BY <1>1, <1>3, TruncateProps
<1>6. DOMAIN recs = 1..Len(recs) /\ DOMAIN new = 1..dot.offset /\ Len(recs) \in Nat
  BY <1>1, <1>5, LenProperties
<1>7. \A n \in DOMAIN new : new[n].t # "hole"
  BY <1>1, <1>4, <1>5, <1>6
<1>8. ~HasHole(file')
  BY <1>3, <1>7 DEF HasHole, new
<1>9. DirShape'
  BY <1>3 DEF Dir, DirShape, CutBack
<1> QED
  BY <1>1, <1>5, <1>8, <1>9 DEF Dir, CutBack, new

\* What it cuts off is the transaction.
LEMMA CutStores ==
    ASSUME TypeOK, TypeOK', Dir, CutBack
    PROVE  Stored
<1> DEFINE recs == file[dot.cur].recs
           o == dot.offset
           new == Truncate(recs, o)
<1>1. recs \in Seq(Rec) /\ dot.cur \in Idx /\ o \in Nat /\ o <= Len(recs)
      /\ file \in Files /\ file' \in Files
  BY DEF TypeOK, FileState, Dir, Files
<1>2. file[dot.cur].st = "active"
  BY <1>1, BoundAssumption DEF Dir, DirShape, Idx
<1>3. /\ file'[dot'.cur].recs = new /\ dot' = dot
      /\ \A i \in Idx : file'[i].st = file[i].st
      /\ \A i \in Idx : i # dot.cur => file'[i] = file[i]
  BY <1>1 DEF CutBack, TypeOK, FileState
<1>4. LoadFinal(file') = LoadFinal(file)
  <2>1. \A i \in Idx : file[i].st = "final" => file'[i].recs = file[i].recs
    BY <1>2, <1>3
  <2> QED
    BY <1>1, <1>3, <2>1, LoadFinalSame
<1>5. new \in Seq(Rec) /\ Len(new) = o
  BY <1>1, TruncateProps
<1> HIDE DEF recs, new
<1>6. Truncate(new, o) = new
  BY <1>5, TruncateWhole
<1>7. SubSeq(new, o + 1, Len(new)) = <<>>
  BY <1>5, RestNone
<1>8. CommittedView' = CommittedView
  BY <1>3, <1>4, <1>6 DEF CommittedView, recs, new
<1>9. PendingView' = NoCells
  BY <1>3, <1>7, LoadEmpty DEF PendingView
<1> QED
  BY <1>8, <1>9 DEF Stored, KV!Next, KV!Discard, KV!NoCells, NoCells

-----------------------------------------------------------------------------
(* The calls of the handle *)

\* What the handle can rely on in a call.
LEMMA SoleProps ==
    ASSUME TypeOK, SoleInv, NEW h \in Handles, hs[h].st \in {"open", "closing"}
    PROVE  /\ hs[h] \in Handle /\ AtEnd(hs[h]) /\ hs[h].cur = dot.cur
           /\ hs[h].offset = dot.offset
           /\ FindsActive(file, hs[h])
           /\ IsOpen(h) => /\ h \in fresh /\ View(hs[h]) = DiskView
                           /\ SyncedFile(h) = file /\ SyncedHandle(h) = hs[h]
                           /\ Syncs(h)
<1>1. hs[h] \in Handle /\ dot.cur \in Idx
  BY DEF TypeOK
<1>2. AtEnd(hs[h]) /\ hs[h].offset = dot.offset /\ hs[h].cur = dot.cur
  BY DEF SoleInv, AtEnd
<1>3. FindsActive(file, hs[h])
  BY <1>1, <1>2, BoundAssumption DEF SoleInv, Dir, DirShape, FindsActive, Idx
<1> QED
  BY <1>1, <1>2, <1>3 DEF SoleInv, IsOpen, SyncedFile, SyncedHandle, Syncs

\* What remains to be shown of a call.
LEMMA SoleStep ==
    ASSUME Sole, NEW h \in Handles, Dir', ~HasHole(file'),
           hs'[h].st \notin {"broken", "hung"},
           hs'[h].st \in {"open", "closing"} =>
              /\ hs'[h].cur = dot'.cur /\ hs'[h].off = Len(file'[dot'.cur].recs)
              /\ hs'[h].offset = dot'.offset,
           hs'[h].st = "open" => h \in fresh' /\ View(hs'[h]) = DiskView',
           hs'[h].st = "asserted" =>
              wlock' = Stale /\ Len(file'[dot'.cur].recs) = dot'.offset
    PROVE  SoleInv'
<1>1. \A g \in Handles : g = h
  BY DEF Sole
<1> QED
  BY <1>1 DEF SoleInv, AtEnd, IsOpen, View, DiskView, HasHole

\* A call that touches neither the files nor .zsdb, and closes the handle or
\* leaves it as it is.
LEMMA SoleQuiet ==
    ASSUME Sole, TypeOK, SoleInv, NEW h \in Handles, file' = file, dot' = dot,
           \/ hs'[h].st = "closed"
           \/ hs'[h] = hs[h] /\ (h \in fresh => h \in fresh') /\ IsOpen(h)
           \/ IsOpen(h) /\ hs'[h] = [hs[h] EXCEPT !.st = "closing"]
    PROVE  SoleInv' /\ Stored
<1>1. Dir' /\ ~HasHole(file') /\ DiskView' = DiskView
  BY DEF SoleInv, Dir, DirShape, DiskView
<1>2. CASE hs'[h].st = "closed"
  BY <1>1, <1>2, SoleStep, QuietStores
<1>3. CASE hs'[h] = hs[h] /\ (h \in fresh => h \in fresh') /\ IsOpen(h)
  BY <1>1, <1>3, SoleStep, QuietStores DEF SoleInv, AtEnd, IsOpen
<1>4. CASE IsOpen(h) /\ hs'[h] = [hs[h] EXCEPT !.st = "closing"]
  <2>1. hs[h] \in Handle
    BY DEF TypeOK
  <2>2. /\ hs'[h].st = "closing" /\ hs'[h].cur = hs[h].cur /\ hs'[h].off = hs[h].off
        /\ hs'[h].offset = hs[h].offset
    BY <1>4, <2>1 DEF Handle
  <2> QED
    BY <1>1, <1>4, <2>2, SoleStep, QuietStores DEF SoleInv, AtEnd, IsOpen
<1> QED
  BY <1>2, <1>3, <1>4

\* A record written: zsdb_remove, and zsdb_add into a file that is not full.
LEMMA SolePut ==
    ASSUME Sole, TypeOK, TypeOK', SoleInv, NEW h \in Handles, IsOpen(h),
           NEW k \in Keys, NEW c \in Values \cup {Tomb},
           file' = Written(file, hs[h], KeyRec(k, c)), dot' = dot,
           hs' = [hs EXCEPT ![h] = Wrote(hs[h], k, c)], h \in fresh'
    PROVE  SoleInv' /\ Stored
<1> DEFINE H == hs[h]
           r == KeyRec(k, c)
<1>1. /\ H \in Handle /\ AtEnd(H) /\ H.cur = dot.cur /\ H.offset = dot.offset
      /\ View(H) = DiskView /\ H.st = "open"
  BY SoleProps DEF IsOpen
<1>2. r \in Rec /\ r.t # "hole" /\ c \in Cell \ {Absent} /\ Dir /\ ~HasHole(file)
  BY RecTypes, CellAssumption DEF Cell, KeyRec, SoleInv
<1>3. hs'[h] = Wrote(H, k, c)
  BY DEF TypeOK
<1>4. Appended(r)
  BY <1>1, <1>2, WrittenAppends
<1>5. Stored /\ DiskView' = [DiskView EXCEPT ![k] = c]
  BY <1>2, <1>4, PutStores
<1> HIDE DEF H, r
<1>6. Dir' /\ ~HasHole(file') /\ Len(file'[dot'.cur].recs) = Len(file[dot.cur].recs) + 1
  BY <1>2, <1>4, AppendedDir
<1>7. /\ hs'[h].st = "open" /\ hs'[h].cur = H.cur /\ hs'[h].off = H.off + 1
      /\ hs'[h].offset = H.offset
  BY <1>1, <1>2, <1>3, WroteType
<1>8. View(hs'[h]) = DiskView'
  <2>1. View(Wrote(H, k, c)) = [View(H) EXCEPT ![k] = c]
    BY <1>1, <1>2, WroteView
  <2> QED
    BY <1>1, <1>3, <1>5, <2>1
<1> QED
  BY <1>1, <1>5, <1>6, <1>7, <1>8, SoleStep DEF AtEnd

\* zsdb_add into a full file.
LEMMA SoleFull ==
    ASSUME Sole, TypeOK, TypeOK', SoleInv, NEW h \in Handles, IsOpen(h),
           NEW k \in Keys, NEW v \in Values, hs[h].cur < MaxIdx,
           file' = Written(Finalised(file, hs[h]), NextActive(hs[h]), KeyRec(k, v)),
           hs' = [hs EXCEPT ![h] = Wrote(NextActive(hs[h]), k, v)],
           dot' = DotOf(NextActive(hs[h])), fresh' = {h}
    PROVE  SoleInv' /\ Stored
<1> DEFINE H == hs[h]
           N == NextActive(H)
           r == KeyRec(k, v)
           recs == Append(<<>>, r)
<1>1. /\ H \in Handle /\ AtEnd(H) /\ View(H) = DiskView /\ H.st = "open"
  BY SoleProps DEF IsOpen
<1>2. r \in Rec /\ r.t # "hole" /\ v \in Cell \ {Absent} /\ Dir /\ ~HasHole(file)
  BY RecTypes, CellAssumption DEF Cell, KeyRec, SoleInv
<1>3. hs'[h] = Wrote(N, k, v)
  BY DEF TypeOK
<1>4. Finished(recs)
  BY <1>1, <1>2, FullFinishes
<1>5. Stored /\ DiskView' = [DiskView EXCEPT ![k] = v]
  BY <1>2, <1>4, FullStores
<1>6. /\ N \in Handle /\ N.st = "open" /\ N.off = 0 /\ N.offset = 0 /\ View(N) = DiskView
  BY <1>1, FinalisedType, NextActiveView DEF TypeOK, Files
<1>7. dot'.cur = N.cur /\ dot'.offset = N.offset
  BY DEF DotOf
<1> HIDE DEF H, N, r
<1>8. /\ recs \in Seq(Rec) /\ Len(recs) = 1 /\ \A n \in DOMAIN recs : recs[n].t # "hole"
  <2>1. <<>> \in Seq(Rec) /\ Len(<<>>) = 0
    BY EmptySeq
  <2>2. recs \in Seq(Rec) /\ Len(recs) = Len(<<>>) + 1 /\ recs[Len(<<>>) + 1] = r
    BY <1>2, <2>1, AppendProperties
  <2>3. DOMAIN recs = 1..Len(recs)
    BY <2>2, LenProperties
  <2> HIDE DEF recs
  <2> QED
    BY <1>2, <2>1, <2>2, <2>3
<1> HIDE DEF recs
<1>9. Dir' /\ ~HasHole(file') /\ file'[dot'.cur].recs = recs
  BY <1>2, <1>4, <1>8, FinishedDir DEF Finished
<1>10. hs'[h].st = "open" /\ hs'[h].cur = N.cur /\ hs'[h].off = N.off + 1
       /\ hs'[h].offset = N.offset
  BY <1>2, <1>3, <1>6, WroteType
<1>11. View(hs'[h]) = DiskView'
  <2>1. View(Wrote(N, k, v)) = [View(N) EXCEPT ![k] = v]
    BY <1>2, <1>6, WroteView
  <2> QED
    BY <1>3, <1>5, <1>6, <2>1
<1>12. hs'[h].off = Len(file'[dot'.cur].recs) /\ h \in fresh'
  BY <1>6, <1>8, <1>9, <1>10
<1> QED
  BY <1>5, <1>7, <1>9, <1>10, <1>11, <1>12, SoleStep

\* zsdb_finalise
LEMMA SoleFinish ==
    ASSUME Sole, TypeOK, TypeOK', SoleInv, NEW h \in Handles, IsOpen(h),
           hs[h].cur < MaxIdx,
           file' = Finalised(file, hs[h]), hs' = [hs EXCEPT ![h] = NextActive(hs[h])],
           dot' = DotOf(NextActive(hs[h])), fresh' = {h}
    PROVE  SoleInv' /\ Stored
<1> DEFINE H == hs[h]
           N == NextActive(H)
<1>1. /\ H \in Handle /\ AtEnd(H) /\ View(H) = DiskView /\ H.st = "open"
  BY SoleProps DEF IsOpen
<1>2. Dir /\ ~HasHole(file)
  BY DEF SoleInv
<1>3. hs'[h] = N
  BY DEF TypeOK
<1>4. Finished(<<>>)
  BY <1>1, FinalisedFinishes
<1>5. Stored /\ DiskView' = DiskView
  BY <1>2, <1>4, FinishStores
<1>6. /\ N \in Handle /\ N.st = "open" /\ N.off = 0 /\ N.offset = 0 /\ View(N) = DiskView
  BY <1>1, FinalisedType, NextActiveView DEF TypeOK, Files
<1>7. dot'.cur = N.cur /\ dot'.offset = N.offset
  BY DEF DotOf
<1> HIDE DEF H, N
<1>8. <<>> \in Seq(Rec) /\ Len(<<>>) = 0 /\ \A n \in DOMAIN <<>> : <<>>[n].t # "hole"
  <2>1. <<>> \in Seq(Rec) /\ Len(<<>>) = 0
    BY EmptySeq
  <2>2. DOMAIN <<>> = 1..0
    BY <2>1, LenProperties
  <2>3. 1..0 = {}
    OBVIOUS
  <2> QED
    BY <2>1, <2>2, <2>3, Zenon
<1>9. Dir' /\ ~HasHole(file') /\ file'[dot'.cur].recs = <<>>
  <2>1. Dir' /\ ~HasHole(file')
    BY <1>2, <1>4, <1>8, FinishedDir
  <2>2. file'[dot'.cur].recs = <<>>
    BY <1>4 DEF Finished
  <2> QED
    BY <2>1, <2>2
<1> QED
  BY <1>3, <1>5, <1>6, <1>7, <1>8, <1>9, SoleStep

\* zsdb_commit, under the lock or not.
LEMMA SoleCommit ==
    ASSUME Sole, TypeOK, TypeOK', SoleInv, NEW h \in Handles, Commit(h)
    PROVE  SoleInv' /\ Stored
<1> DEFINE H == hs[h]
           N == [hs[h] EXCEPT !.off = @ + 1, !.offset = hs[h].off + 1, !.dirty = FALSE]
<1>1. /\ H \in Handle /\ AtEnd(H) /\ H.cur = dot.cur /\ View(H) = DiskView
      /\ H.st = "open" /\ H.off \in Nat
  BY SoleProps DEF IsOpen, Commit, Handle
<1>2. Dir /\ ~HasHole(file) /\ CommitRec \in Rec /\ CommitRec.t # "hole"
  BY RecTypes DEF SoleInv, CommitRec
<1>3. hs'[h] = N /\ file' = Written(file, H, CommitRec) /\ dot' = DotOf(N) /\ fresh' = {h}
  BY DEF Commit, TypeOK
<1>4. /\ N.st = "open" /\ N.cur = H.cur /\ N.off = H.off + 1 /\ N.offset = H.off + 1
      /\ N.mem = H.mem /\ N.fmem = H.fmem
  BY <1>1 DEF Handle
<1> HIDE DEF H, N
<1>5. dot'.cur = N.cur /\ dot'.offset = N.offset
  BY <1>3 DEF DotOf
<1>6. Appended(CommitRec)
  BY <1>1, <1>2, <1>3, WrittenAppends
<1>7. Stored /\ DiskView' = DiskView
  BY <1>1, <1>2, <1>4, <1>5, <1>6, CommitStores DEF AtEnd
<1>8. Dir' /\ ~HasHole(file') /\ Len(file'[dot'.cur].recs) = Len(file[dot.cur].recs) + 1
  BY <1>1, <1>2, <1>4, <1>5, <1>6, AppendedDir DEF AtEnd
<1>9. View(hs'[h]) = DiskView'
  BY <1>1, <1>3, <1>4, <1>7 DEF View
<1> QED
  BY <1>1, <1>3, <1>4, <1>5, <1>7, <1>8, <1>9, SoleStep DEF AtEnd

\* The commit record that zsdb_close puts at the end of a transaction is not
\* acknowledged by .zsdb; what it ends stays as it is.
LEMMA SoleClose ==
    ASSUME Sole, TypeOK, TypeOK', SoleInv, NEW h \in Handles, CloseCommit(h)
    PROVE  SoleInv' /\ Stored
<1>1. hs' = [hs EXCEPT ![h] = ClosedHandle] /\ dot' = dot /\ hs[h].st = "closing"
      /\ file' = ClosedFile(file, hs[h])
  BY DEF CloseCommit
<1>2. hs'[h].st = "closed"
  BY <1>1 DEF ClosedHandle, TypeOK
<1>3. CASE ~hs[h].dirty
  BY <1>1, <1>2, <1>3, SoleQuiet DEF ClosedFile
<1>4. CASE hs[h].dirty
  <2>1. CommitRec \in Rec /\ CommitRec.t = "commit" /\ Dir /\ ~HasHole(file)
    BY RecTypes DEF CommitRec, SoleInv
  <2>2. Appended(CommitRec)
    BY <1>1, <1>4, <2>1, SoleProps, WrittenAppends DEF ClosedFile
  <2>3. CommittedView' = CommittedView /\ PendingView' = PendingView
    BY <1>1, <2>1, <2>2, AppendedViews
  <2>4. Dir' /\ ~HasHole(file')
    BY <1>1, <2>1, <2>2, AppendedDir
  <2> QED
    BY <1>2, <2>3, <2>4, SoleStep DEF Stored
<1> QED
  BY <1>3, <1>4

\* zsdb_abort cuts the log, and then fails the assert or replays the rest.
LEMMA SoleAbort ==
    ASSUME Sole, TypeOK, TypeOK', SoleInv, NEW h \in Handles, Abort(h)
    PROVE  SoleInv' /\ Stored
<1> DEFINE H == [hs[h] EXCEPT !.dirty = FALSE]
<1>1. /\ hs[h] \in Handle /\ hs[h].cur = dot.cur /\ hs[h].offset = dot.offset
      /\ hs[h].st = "open" /\ h \in fresh /\ Dir /\ ~HasHole(file)
  BY SoleProps DEF Abort, IsOpen, SoleInv
<1>2. H \in Handle /\ H.cur = dot.cur /\ H.offset = dot.offset /\ H.st = "open"
  BY <1>1 DEF Handle
<1>3. CutBack /\ fresh' = fresh
  BY <1>2 DEF Abort, CutBack
<1>4. Dir' /\ ~HasHole(file') /\ Len(file'[dot'.cur].recs) = dot.offset /\ Stored
  BY <1>1, <1>3, CutDir, CutStores
<1>5. file'[dot.cur].st = "active" /\ dot' = dot
  BY <1>3, <1>4, BoundAssumption DEF Dir, DirShape, CutBack, TypeOK, Idx
<1>6. \/ hs'[h].st = "asserted"
      \/ hs' = [hs EXCEPT ![h] = Reopened(H, file')]
  <2>1. file' = [file EXCEPT ![H.cur].recs = Truncate(@, H.offset)]
    BY DEF Abort
  <2>2. FindsActive(file', H)
    BY <1>2, <1>5 DEF FindsActive
  <2> HIDE DEF H
  <2>3. \/ hs' = [hs EXCEPT ![h] = [ClosedHandle EXCEPT !.st = "asserted"]]
        \/ hs' = [hs EXCEPT ![h] = Reopened(H, file')]
    BY <1>4, <2>1, <2>2 DEF Abort, H
  <2> QED
    BY <2>3 DEF TypeOK, ClosedHandle
<1>7. CASE hs'[h].st = "asserted"
  <2>1. \/ wlock # Free /\ wlock' = IF wlock = h THEN Stale ELSE wlock
        \/ hs' = [hs EXCEPT ![h] = Reopened(H, file')]
        \/ hs' = [hs EXCEPT ![h] = [H EXCEPT !.st = "hung"]]
        \/ hs' = [hs EXCEPT ![h] = [H EXCEPT !.st = "broken"]]
    BY DEF Abort
  <2> HIDE DEF H
  <2>2. DOMAIN hs = Handles
    BY DEF TypeOK
  <2>3. \A G : hs' = [hs EXCEPT ![h] = G] => G.st = "asserted"
    BY <1>7, <2>2
  <2>4. /\ Reopened(H, file').st # "asserted"
        /\ [H EXCEPT !.st = "hung"].st # "asserted"
        /\ [H EXCEPT !.st = "broken"].st # "asserted"
    BY <1>2 DEF Reopened, Handle
  <2>5. wlock # Free /\ wlock' = IF wlock = h THEN Stale ELSE wlock
    BY <2>1, <2>3, <2>4
  <2>6. wlock \in {h, Free, Stale}
    BY DEF Sole, TypeOK
  <2>7. wlock' = Stale
    BY <2>5, <2>6
  <2> QED BY <1>4, <1>5, <1>7, <2>7, SoleStep
<1>8. CASE hs' = [hs EXCEPT ![h] = Reopened(H, file')]
  <2>1. hs'[h] = Reopened(H, file') /\ file' \in Files
    BY <1>8 DEF TypeOK, Files
  <2> HIDE DEF H
  <2>2. /\ hs'[h].st = "open" /\ hs'[h].cur = dot.cur
        /\ hs'[h].off = Len(file'[dot.cur].recs)
        /\ hs'[h].offset = dot.offset
        /\ hs'[h].mem = Load(file'[dot.cur].recs) /\ hs'[h].fmem = LoadFinal(file')
    BY <1>2, <2>1 DEF Reopened, Handle
  <2>3. View(hs'[h]) = DiskView'
    BY <1>5, <2>2 DEF View, DiskView
  <2> QED
    BY <1>1, <1>3, <1>4, <1>5, <2>2, <2>3, SoleStep
<1> QED
  BY <1>6, <1>7, <1>8

\* zsdb_open
LEMMA SoleOpen ==
    ASSUME Sole, TypeOK, TypeOK', SoleInv, NEW h \in Handles, Open(h)
    PROVE  SoleInv' /\ Stored
<1> DEFINE H == [ClosedHandle EXCEPT !.cur = dot.cur, !.offset = dot.offset]
<1>1. H \in Handle /\ H.cur = dot.cur /\ H.offset = dot.offset
  BY ClosedHandleType DEF Handle, TypeOK, ClosedHandle
<1>2. /\ hs'[h] = [Reopened(H, file) EXCEPT !.st = "open"]
      /\ h \in fresh' /\ file' = file /\ dot' = dot
  BY DEF Open, SoleInv, TypeOK
<1> HIDE DEF H
<1>3. Dir' /\ ~HasHole(file') /\ DiskView' = DiskView
  BY <1>2 DEF SoleInv, Dir, DirShape, DiskView
<1>4. /\ hs'[h].st = "open" /\ hs'[h].cur = dot.cur
      /\ hs'[h].off = Len(file[dot.cur].recs) /\ hs'[h].offset = dot.offset
  BY <1>1, <1>2 DEF Reopened, Handle
<1>5. View(hs'[h]) = DiskView
  BY <1>1, <1>2, ReopenedView
<1> QED
  BY <1>2, <1>3, <1>4, <1>5, SoleStep, QuietStores

\* zsdb_add: nobody else can have changed .zsdb or renamed the active file.
LEMMA SoleAdd ==
    ASSUME Sole, TypeOK, TypeOK', SoleInv, NEW h \in Handles,
           NEW k \in Keys, NEW v \in Values, Add(h, k, v)
    PROVE  SoleInv' /\ Stored
<1>1. IsOpen(h)
  BY DEF Add, Holds
<1>2. /\ SyncedFile(h) = file /\ SyncedHandle(h) = hs[h] /\ Syncs(h)
      /\ FindsActive(file, hs[h]) /\ h \in fresh
  BY <1>1, SoleProps DEF IsOpen
<1>3. CASE AddHere(h, k, v)
  <2>1. /\ file' = Written(file, hs[h], KeyRec(k, v)) /\ dot' = dot
        /\ hs' = [hs EXCEPT ![h] = Wrote(hs[h], k, v)] /\ h \in fresh'
    BY <1>2, <1>3 DEF AddHere
  <2> QED
    BY <1>1, <2>1, SolePut
<1>4. CASE AddToNext(h, k, v)
  <2>1. /\ hs[h].cur < MaxIdx
        /\ file' = Written(Finalised(file, hs[h]), NextActive(hs[h]), KeyRec(k, v))
        /\ hs' = [hs EXCEPT ![h] = Wrote(NextActive(hs[h]), k, v)]
        /\ dot' = DotOf(NextActive(hs[h])) /\ fresh' = {h}
    BY <1>2, <1>4 DEF AddToNext, RenameFails
  <2> QED
    BY <1>1, <2>1, SoleFull
<1> QED
  BY <1>2, <1>3, <1>4 DEF Add, ReloadFails

\* A step of the handle keeps the invariant, and is a step of the store or none.
LEMMA StepSole ==
    ASSUME Sole, TypeOK, TypeOK', SoleInv, NEW h \in Handles, Step(h)
    PROVE  SoleInv' /\ Stored
<1>1. CASE Open(h)
  BY <1>1, SoleOpen
<1>2. CASE Acquire(h) \/ Release(h) \/ Fetch(h)
  BY <1>2, SoleQuiet DEF Acquire, Release, Fetch, Holds
<1>3. ASSUME NEW k \in Keys, NEW v \in Values, Add(h, k, v)
      PROVE  SoleInv' /\ Stored
  BY <1>3, SoleAdd
<1>4. ASSUME NEW k \in Keys, Remove(h, k) PROVE SoleInv' /\ Stored
  <2>1. /\ IsOpen(h) /\ file' = Written(file, hs[h], KeyRec(k, Tomb)) /\ dot' = dot
        /\ hs' = [hs EXCEPT ![h] = Wrote(hs[h], k, Tomb)] /\ fresh' = fresh
    BY <1>4 DEF Remove, Holds
  <2>2. h \in fresh'
    BY <2>1 DEF SoleInv
  <2> QED
    BY <2>1, <2>2, SolePut
<1>5. CASE Commit(h)
  BY <1>5, SoleCommit
<1>6. CASE Abort(h)
  BY <1>6, SoleAbort
<1>7. CASE Finalise(h)
  <2>1. IsOpen(h)
    BY <1>7 DEF Finalise, Holds
  <2>2. /\ SyncedFile(h) = file /\ SyncedHandle(h) = hs[h] /\ Syncs(h)
        /\ FindsActive(file, hs[h])
    BY <2>1, SoleProps DEF IsOpen
  <2>3. /\ hs[h].cur < MaxIdx
        /\ file' = Finalised(file, hs[h])
        /\ hs' = [hs EXCEPT ![h] = NextActive(hs[h])]
        /\ dot' = DotOf(NextActive(hs[h])) /\ fresh' = {h}
    BY <1>7, <2>2 DEF Finalise, ReloadFails, FinaliseNow, RenameFails
  <2> QED
    BY <2>1, <2>3, SoleFinish
<1>8. CASE CloseRelease(h)
  <2>1. /\ file' = file /\ dot' = dot
        /\ \/ IsOpen(h) /\ hs' = [hs EXCEPT ![h].st = "closing"]
           \/ hs' = [hs EXCEPT ![h] = ClosedHandle]
    BY <1>8 DEF CloseRelease
  <2>2. \/ IsOpen(h) /\ hs'[h] = [hs[h] EXCEPT !.st = "closing"]
        \/ hs'[h].st = "closed"
    BY <2>1 DEF TypeOK, ClosedHandle
  <2> QED
    BY <2>1, <2>2, SoleQuiet
<1>9. CASE CloseCommit(h)
  BY <1>9, SoleClose
<1>10. CASE Crash(h)
  <2>1. file' = file /\ dot' = dot /\ hs'[h].st = "closed"
    BY <1>10 DEF Crash, TypeOK, ClosedHandle
  <2> QED
    BY <2>1, SoleQuiet
<1>11. ~CommitBroken(h)
  BY DEF CommitBroken, SoleInv
<1> QED
  BY <1>1, <1>2, <1>3, <1>4, <1>5, <1>6, <1>7, <1>8, <1>9, <1>10, <1>11 DEF Step

\* A new directory has no holes, and its handle is closed.
LEMMA InitSole == ASSUME Init PROVE SoleInv
<1>1. Dir
  BY InitWriterInv, WriterDir
<1>2. ~HasHole(file)
  <2>1. \A i \in Idx : file[i].recs = <<>>
    BY DEF Init, NewActive, NoFile
  <2>2. DOMAIN <<>> = {}
    BY EmptySeq, LenProperties
  <2> QED
    BY <2>1, <2>2 DEF HasHole
<1> QED
  BY <1>1, <1>2 DEF Init, SoleInv, ClosedHandle, IsOpen

\* The invariant of a handle that is alone, for any keys, values and bounds and
\* whatever it calls.
THEOREM SoleInvariance == ASSUME Sole PROVE Spec => [](TypeOK /\ SoleInv)
<1>1. TypeOK /\ TypeOK' /\ SoleInv /\ [Next]_vars => SoleInv'
  <2> SUFFICES ASSUME TypeOK, TypeOK', SoleInv, [Next]_vars PROVE SoleInv'
    OBVIOUS
  <2>1. CASE UNCHANGED vars
    BY <2>1 DEF vars, SoleInv, Dir, DirShape, HasHole, AtEnd, IsOpen, View, DiskView
  <2> QED
    BY <2>1, StepSole DEF Next
<1> QED
  BY <1>1, InitSole, TypeCorrect, PTL DEF Spec

\* A handle that is alone never loses its active file and never reads a log for
\* ever, in whatever order it makes its calls; it can only fail the assertion of
\* zsdb_abort, when the log is cut to what .zsdb acknowledges, and the write lock
\* stays behind for the next process.
THEOREM SoleFailures == ASSUME Sole PROVE Spec => []SoleHandleFailures
<1>1. SoleInv => SoleHandleFailures
  BY DEF SoleInv, SoleHandleFailures
<1> QED
  BY <1>1, SoleInvariance, PTL

\* Its memory is what a replay of the directory gives, in a transaction or not.
THEOREM SoleMemory == ASSUME Sole PROVE Spec => []MemoryIsDisk
<1>1. TypeOK /\ SoleInv => MemoryIsDisk
  BY DEF TypeOK, SoleInv, MemoryIsDisk
<1> QED
  BY <1>1, SoleInvariance, PTL

\* The directory it works on is a store, although its commits need no lock, its
\* aborts may end in an assert and its close commits behind the lock.
THEOREM SoleStore == ASSUME Sole PROVE Spec => ImplementsKVStore
<1>1. TypeOK /\ TypeOK' /\ SoleInv /\ [Next]_vars
        => [KV!Next]_<<CommittedView, PendingView>>
  <2> SUFFICES ASSUME TypeOK, TypeOK', SoleInv, [Next]_vars PROVE Stored
    BY DEF Stored
  <2>1. CASE UNCHANGED vars
    BY <2>1, QuietStores DEF vars
  <2> QED
    BY <2>1, StepSole DEF Next
<1>2. Init => KV!Init
  BY InitStore
<1> QED
  BY <1>1, <1>2, SoleInvariance, TypeCorrect, PTL
  DEF Spec, ImplementsKVStore, KV!Spec, KV!kvvars
============================================================================
