----------------------------- MODULE CommitLog -----------------------------
(***************************************************************************)
(* How an active file grows record by record under mfile_write and its     *)
(* running CRC, and how a packed file is written; a process may be killed  *)
(* anywhere, and the next one that opens the active file replays it.       *)
(*                                                                         *)
(* mfile_write extends the file, with zeros, before it copies the buffer   *)
(* into the mapping.  What another process would read of the file at any   *)
(* moment is Replay(file) or OpenPacked(file).                             *)
(***************************************************************************)
EXTENDS LogFile

CONSTANTS KeyLens, ValLens,   \* the lengths of keys and values
          MaxRecs,            \* bound: the records written
          MaxReopens          \* bound: the times the active file is opened again

ASSUME LenAssumption == KeyLens \subseteq Nat \ {0} /\ ValLens \subseteq Nat
ASSUME BoundsAssumption == MaxRecs \in Nat /\ MaxReopens \in Nat

VARIABLES kind,     \* "log" or "packed"
          file,     \* the words behind the header
          pc,       \* "idle", "write", "index", "close", "final"; "dead" when nobody
                    \* has the active file open
          queue,    \* the buffers to be written, the first in part copied
          copied,   \* how much of it is; -1: the file is not extended yet
          then,     \* where the call goes when all is written: "none" if in no call
          mf,       \* of the mapped file: compute_crc, begin offset, crc32_data_len, crc32
          dirty,    \* factive.dirty
          offset,   \* the offset in .zsdb
          logged,   \* the records written so far
          acked,    \* those a commit has returned for
          index,    \* packed: the offsets of the records
          count,    \* the records begun
          reopens,  \* the times the file was opened again
          intact    \* no record has been written that the readers cannot read

vars == <<kind, file, pc, queue, copied, then, mf, dirty, offset, logged, acked,
          index, count, reopens, intact>>

Fresh == [compute |-> FALSE, begin |-> 0, len |-> 0, crc |-> <<>>]

Init == /\ kind \in {"log", "packed"}
        /\ file = <<>> /\ pc = "idle" /\ queue = <<>> /\ copied = -1 /\ then = "none"
        /\ mf = IF kind = "log" THEN Fresh ELSE [Fresh EXCEPT !.compute = TRUE]
        /\ dirty = FALSE /\ offset = 0 /\ logged = <<>> /\ acked = <<>>
        /\ index = <<>> /\ count = 0 /\ reopens = 0 /\ intact = TRUE

-----------------------------------------------------------------------------
(* mfile.c *)

\* crc32_begin
Crc32Begin == [compute |-> TRUE, begin |-> Len(file), len |-> 0, crc |-> <<>>]

\* Mutant: the length covered is not reset.
Crc32KeepsLen == IF mf.compute
                 THEN [mf EXCEPT !.compute = FALSE, !.crc = SubSeq(file, mf.begin + 1, Len(file))]
                 ELSE mf

\* crc32_end: mf->crc32 stays as it was when none is being computed.
Crc32End == IF mf.compute
            THEN [mf EXCEPT !.compute = FALSE, !.len = 0,
                            !.crc = SubSeq(file, mf.begin + 1, Len(file))]
            ELSE mf

\* mfile_write: ftruncate and mmap, ...
Extend == /\ pc = "write" /\ copied = -1
          /\ file' = file \o Zeros(Len(Head(queue)))
          /\ copied' = 0
          /\ UNCHANGED <<kind, pc, queue, then, mf, dirty, offset, logged, acked, index, count, reopens, intact>>

\* ... then the memcpy, a word at a time, ...
Copy == /\ pc = "write" /\ copied >= 0 /\ copied < Len(Head(queue))
        /\ file' = [file EXCEPT ![Len(file) - Len(Head(queue)) + copied + 1] =
                                    Head(queue)[copied + 1]]
        /\ copied' = copied + 1
        /\ UNCHANGED <<kind, pc, queue, then, mf, dirty, offset, logged, acked, index, count, reopens, intact>>

\* ... and the count of what the CRC is to cover.
Copied == /\ pc = "write" /\ copied = Len(Head(queue)) /\ Len(queue) > 1
          /\ mf' = IF mf.compute THEN [mf EXCEPT !.len = @ + copied] ELSE mf
          /\ queue' = Tail(queue) /\ copied' = -1
          /\ UNCHANGED <<kind, file, pc, then, dirty, offset, logged, acked, index, count, reopens, intact>>

\* The last buffer: the call returns.
Returns == /\ pc = "write" /\ copied = Len(Head(queue)) /\ Len(queue) = 1
           /\ mf' = IF mf.compute THEN [mf EXCEPT !.len = @ + copied] ELSE mf
           /\ queue' = <<>> /\ copied' = -1 /\ then' = "none"
           /\ pc' = IF then \in {"record", "commit"} THEN "idle" ELSE then
           /\ dirty' = (then = "record")
           /\ IF then = "record" \/ kind = "packed"
              THEN UNCHANGED <<offset, acked>>
              ELSE offset' = Len(file) /\ acked' = logged
           /\ UNCHANGED <<kind, file, logged, index, count, reopens, intact>>

Write(bufs, what) == /\ pc' = "write" /\ queue' = bufs /\ copied' = -1 /\ then' = what
                     /\ UNCHANGED <<kind, file, dirty, offset, acked, reopens>>

-----------------------------------------------------------------------------
(* The active file *)

\* zsdb_add
Add(klen, vlen) ==
    /\ kind = "log" /\ pc = "idle" /\ count < MaxRecs
    /\ mf' = IF mf.compute THEN mf ELSE Crc32Begin
    /\ logged' = Append(logged, <<"add", Data(count, klen), Data(count, vlen)>>)
    /\ count' = count + 1
    /\ Write(<<KeyBuf(count, klen), ValBuf(count, vlen)>>, "record")
    /\ UNCHANGED <<index, intact>>

\* zsdb_remove, which begins the CRC anew whatever it has covered.
Remove(klen) ==
    /\ kind = "log" /\ pc = "idle" /\ count < MaxRecs
    /\ mf' = Crc32Begin
    /\ logged' = Append(logged, <<"remove", Data(count, klen), <<>>>>)
    /\ count' = count + 1
    /\ intact' = (intact /\ klen <= MaxShortKey)
    /\ Write(<<DeleteBuf(count, klen)>>, "record")
    /\ UNCHANGED index

WriteCommit(what, final) ==
    /\ mf' = Crc32End
    /\ intact' = (intact /\ (final \/ mf.len <= MaxShortVal))
    /\ Write(<<CommitBuf(mf'.crc, mf.len, final)>>, what)

\* zsdb_commit.  A commit with nothing to commit returns at once.
Commit == /\ kind = "log" /\ pc = "idle" /\ (mf.len > 0 \/ dirty)
          /\ WriteCommit("commit", FALSE)
          /\ UNCHANGED <<logged, index, count>>

\* zs_active_file_finalise writes a commit in any case.
Finalise == /\ kind = "log" /\ pc = "idle"
            /\ WriteCommit("final", FALSE)
            /\ UNCHANGED <<logged, index, count>>

\* zsdb_abort: the truncation, after which the file is not written any more.
\* With the write lock free zsdb_reload opens it again (Reopen); with the lock
\* held the assertion ends the process.
Abort == /\ kind = "log" /\ pc = "idle"
         /\ file' = SubSeq(file, 1, offset) /\ logged' = acked
         /\ pc' = "dead"
         /\ UNCHANGED <<kind, queue, copied, then, mf, dirty, offset, acked, index, count, reopens, intact>>

Die == /\ kind = "log" /\ pc \in {"idle", "write"}
       /\ pc' = "dead"
       /\ UNCHANGED <<kind, file, queue, copied, then, mf, dirty, offset, logged, acked,
                      index, count, reopens, intact>>

\* zsdb_open by a later process, or zsdb_reload at the end of zsdb_abort; both
\* fail if the active file cannot be replayed to its end.
Reopen == /\ pc = "dead" /\ reopens < MaxReopens /\ Replay(file).res = "ok"
          /\ logged' = Replay(file).recs
          /\ pc' = "idle" /\ queue' = <<>> /\ copied' = -1 /\ then' = "none"
          /\ mf' = Fresh /\ dirty' = FALSE /\ reopens' = reopens + 1
          /\ UNCHANGED <<kind, file, offset, acked, index, count, intact>>

-----------------------------------------------------------------------------
(* The packed file: zs_packed_file_new_from_memtree *)

PackRecord(klen, vlen) ==
    /\ kind = "packed" /\ pc = "idle" /\ count < MaxRecs
    /\ index' = Append(index, Len(file))
    /\ count' = count + 1
    /\ logged' = Append(logged, <<"add", Data(count, klen), Data(count, vlen)>>)
    /\ Write(<<KeyBuf(count, klen), ValBuf(count, vlen)>>, "record")
    /\ UNCHANGED <<mf, intact>>

\* The commit that ends the records.
PackCommit == /\ kind = "packed" /\ pc = "idle" /\ logged # <<>>
              /\ WriteCommit("index", FALSE)
              /\ UNCHANGED <<logged, index, count>>

PointerBufs == <<<<Num(Len(index))>>>> \o [i \in 1..Len(index) |-> <<Num(index[i])>>]

\* Mutant: the CRC does not begin anew for the index.
PackIndexSameCrc == /\ pc = "index"
                    /\ mf' = [mf EXCEPT !.compute = TRUE]
                    /\ Write(PointerBufs, "close")
                    /\ UNCHANGED <<logged, index, count, intact>>

\* The count, and the offsets one by one.
PackIndex == /\ pc = "index"
             /\ mf' = Crc32Begin
             /\ Write(PointerBufs, "close")
             /\ UNCHANGED <<logged, index, count, intact>>

PackFinal == /\ pc = "close"
             /\ WriteCommit("final", TRUE)
             /\ UNCHANGED <<logged, index, count>>

Next == \/ Extend \/ Copy \/ Copied \/ Returns
        \/ \E k \in KeyLens, v \in ValLens : Add(k, v) \/ PackRecord(k, v)
        \/ \E k \in KeyLens : Remove(k)
        \/ Commit \/ Finalise \/ Abort \/ Die \/ Reopen
        \/ PackCommit \/ PackIndex \/ PackFinal

Spec == Init /\ [][Next]_vars

-----------------------------------------------------------------------------
(* Properties *)

\* Whatever is written behind them and wherever a process is killed, whoever
\* reads the file next is given the committed records, in order, before the
\* reading can go wrong - unless a long commit or a long delete is among them.
CommittedFirst ==
    kind = "log" /\ intact => LET given == Replay(file).recs
                              IN  /\ Len(given) >= Len(acked)
                                  /\ SubSeq(given, 1, Len(acked)) = acked

\* Between calls the active file can be opened, and gives what was written.
\* A finalised file gives it too, its last commit apart.
QuietOpens ==
    kind = "log" /\ intact /\ pc \in {"idle", "final"} =>
        /\ Replay(file).recs = logged
        /\ pc = "idle" => Replay(file).res = "ok"

\* A packed file opens when it is complete and not before, and its index then
\* leads to its records.
PackedWhole ==
    kind = "packed" =>
        LET p == OpenPacked(file)
        IN  /\ p.ok <=> (pc = "final" \/ (then = "final" /\ copied = Len(queue[1])))
            /\ p.ok => /\ p.index = index
                       /\ \A i \in 1..Len(index) :
                              ReadRecord(file, index[i] + 1).rec = <<logged[i]>>
=============================================================================
