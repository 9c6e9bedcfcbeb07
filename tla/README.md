# Zeroskip: specification, model checking and proofs

Zeroskip is a C library for an append-only key-value database. A database is
a directory of log files that several processes open, read and append to
without a server: what they know of one another is in file names, in the
small file `.zsdb`, and in lock files. These modules specify what the
library does with them; paths below are relative to the repository.

## Inventory

| Component | State | Operations | Hard behaviour |
|---|---|---|---|
| Handles: `src/zeroskip.c`, `zeroskip-priv.h` | `struct zsdb_priv`: open flag, cached `.zsdb` and its stat, active file, lists of finalised and packed files, two memtrees, two locks | open, close, add, remove, commit, fetch, fetchnext, foreach, abort, finalise, repack, lock calls | every handle acts on cached offsets, indices and memtrees that other processes make stale; only the stat of `.zsdb` says so, and only some calls look at it |
| Active file: `zeroskip-active.c`, `zeroskip-file.c` | mapped file, offset, dirty flag, running CRC | append records, commit, close (implicit commit), finalise, create | writes at a cached offset after resizing the file to end there; transactions cross the size limit; death between rename and creation |
| Finalised files: `zeroskip-finalised.c` | immutable logs | replay into a memtree | order of replay, tombstones |
| Packed files: `zeroskip-packed.c` | sorted records and offsets | create from the finalised tree, create by merge, open, binary search | the output may have an input's name; inputs are unlinked one by one; opens meanwhile; tombstones; priorities |
| `.zsdb`: `zeroskip-dotzsdb.c` | index, offset, CRC; process-global `dblock` | create, validate, update_begin, update_end, stat | replaced by rename under a lock nobody checks; stat and open by name |
| Lock files: `file-lock.c` | name, descriptor, flags | acquire with timeout, release, rename | unlink by name; death leaves the file; acquiring twice |
| Mapped files: `mfile.c` | mapping, offset, size, CRC range | open, write, seek, truncate, flush, CRC | cached size against the real one |
| Records: `zeroskip-record.c` | none | read, verify commit | torn tails, zero bytes, short and long forms |
| Iterator: `zeroskip-iterator.c`, `pqueue.c`, `htable.c` | one cursor per source, a heap, a table of keys | begin (all, at a key, some packed files), get, next, end | cursors displace one another; a restart when a callback writes; keys past the end of a source |
| Transactions: `zeroskip-transaction.c` | an iterator | begin, end | none of its own |
| Memtree: `memtree.c` | B-tree | insert, replace, find, cursors forward and back; remove (called by nothing in the library or its tests) | splits up to a new root, parent pointers, combine, rotation |
| Containers, CRC32C, logging, tool, tests | - | - | none that outlives a call |

How they interact: a call of the API runs in the caller's thread. It looks at
the write lock (a file), perhaps compares the stat of `.zsdb` with the cached
one and reloads, writes to the mapped active file, updates a memtree, and at a
commit or a change of the active file replaces `.zsdb`. Processes share
nothing else. There are no threads and no callbacks with state, apart from
those of foreach.

What makes each part correct: an acknowledged record stays (handles, active
file); the memtrees agree with a replay of the files (handles, finalised
files); one active file, the one `.zsdb` names (`.zsdb`, active file); one
owner of a lock (lock files); a merge returns each key once with its newest
value (iterator, packed files); a commit covers what it says (records);
sorted-map behaviour (memtree). `PROJECT.json` lists the hazards, each at its
line, with the properties that would catch it.

## Modules

| Module | Content |
|---|---|
| `Cells` | what a map holds for a key: a value, a tombstone, nothing; one map laid over another |
| `KVStore` | abstract: committed map, pending transaction; put, commit, discard, and the split a full file causes |
| `Zeroskip` | handles on a directory; one action per API call; implements `KVStore` |
| `WriteLock` | abstract: free, held, or left behind by a dead process |
| `FileLock` | `file-lock.c`, one action per system call; implements `WriteLock` |
| `DotZsdb` | replacing and reading `.zsdb`, one action per system call |
| `Packed` | packed files as data: index, binary search, what a merge keeps |
| `Repack` | `zsdb_repack` one system call at a time, beside a writer that finalises and a process that opens the directory |
| `PQueue` | `pqueue.c` as two operators on a sequence |
| `Iterator` | cursors, table and heap, and the loops of foreach, forone, fetchnext and merge |
| `LogFile` | what is in a file, in 64-bit words: encoders and decoders of records, commits and the index |
| `CommitLog` | an active or packed file that grows buffer by buffer, with the running CRC, and a death at any word |
| `Memtree` | `memtree.c`, with one action per turn of its loops |
| `MC...` | symmetry sets and input sets for the model checker |
| `FileLockProofs`, `ZeroskipProofs`, `DotZsdbProofs`, `RepackProofs`, `IteratorProofs`, `CommitLogProofs`, `MemtreeProofs`, `MemtreeSearchProofs` | theorems |

The layers fit as follows. `FileLock` implements `WriteLock`, whose three
states are the values of `wlock` in `Zeroskip`, so there a lock call is one
step. `DotZsdb` splits the update and the reading of `.zsdb` which `Zeroskip`
takes in one step each; among writers that do not abort nothing is lost by that
(run `Dot`), with a packer, or for an abort, something is (see below). `CommitLog` splits
the write of a record, which is one step in `Zeroskip`: what a death in the
middle leaves is not a record, and `Zeroskip` leaves it out. `Repack` and
`Iterator` share `Packed`, so the merge that `Repack` performs in one step is
the one that `Iterator` performs cursor by cursor (`IterationIsMerge`). `Memtree`
shows what `Zeroskip` and `Iterator` take for granted, that a tree is a sorted
map with cursors.

Operators named after what goes wrong in them and marked "Mutant" (for example
`NextActiveKeepsOff`) take no part in the specifications. Each is a plausible
error in the definition after it, and putting it in that definition's place
makes a property fail, which shows that the property is not vacuous.

### Zeroskip

- `file[i]` is the log file with index `i`. `st` says what its name says:
  `none`, `active` (`zeroskip-<uuid>-<i>`), `final` (`...-<i>-<i>`). A rename
  does not change what a descriptor writes to, so the index also stands for the
  inode. `recs` is a sequence of whole records: key records (a tombstone is a
  key record with `Tomb`), commit records, and `hole`, the zero bytes that an
  extension of a file leaves.
- `dot` is `.zsdb`; `wlock` is `zsdbw.lock`; `hs[h]` is the `zsdb_priv` of `h`;
  `fresh` is the set of handles whose cached stat of `.zsdb` is the current one
  (`check_stat` returns 0). An offset counts records from the end of the header.
- `WriteAt` is `mfile_write`: the file is resized to end after the record at the
  *cached* offset, which drops whatever others have appended. This one line
  decides most of the findings.
- `SyncedFile`, `SyncedHandle`, `Syncs` and `ReloadFails` are the stat check and
  `zsdb_reload`, which first closes the active file (with an implicit commit
  when dirty) and then looks for the active file of the *cached* index.
- `Add` includes the finalisation of a full file. `Abort` cuts the file first,
  then takes the lock (an assertion), then reloads. `CloseRelease` and
  `CloseCommit` are `zsdb_close`, in two steps since the locks are gone before
  the implicit commit is written. `Crash` keeps the files and the lock file: a
  process that dies with the write lock leaves it `Stale` for ever, as the code
  does, so no writer continues after such a death until somebody removes the
  file by hand. After a death without it (`Solo`) the next writer continues.
- A handle that stops being usable says why: `broken` (its active file not open,
  or closed by a finalisation whose rename failed), `hung` (replaying zero bytes
  for ever), `asserted`. In the second case of `broken`, `is_open` is still set, and
  commits of a dirty handle go on overwriting `.zsdb` (`CommitBroken`).
- `Strict` describes clients: they commit before they release or close, and
  commit only under the lock. `Calls` is the set of optional calls they use.

### FileLock

`pc` is where a process is inside acquire (`try`, `sleep`) or release
(`unlink`). `path` is the creator of the file that has the lock's name. `fd`
and `locked` are the fields of `struct file_lock`; `fd` starts as TRUE because
the structure is zeroed and 0 is a descriptor. `left` is `remaining_ms`, which a
back-off may overdraw; `slept` records that the first back-off (the only one
that may round to zero) is over. `Owner` is the refinement mapping.

### DotZsdb

`zsdb` and `lockf` are the inodes that the names `.zsdb` and `.zsdb.lock` lead
to, and `data` what each inode contains (`Empty`: shorter than the structure).
`Read`, `Lock` are `update_begin`; `EndUnlocked`, `Write`, `Rename`, `Unlink`,
`Stat` are `update_end` and the stat that its caller takes. A writer opens without
a lock: `OpenDot`, `StatDot`, `ReadDot` are `zs_dotzsdb_validate`, and `OpenLog` the
replay of the active file, at whose end it will append (`pos`; `end` is how long
each log file is, in commits). Later it takes the write lock (`Acquire`), which
reads nothing, and commits and finalises: only if the inode of `.zsdb` is not the
one in its cached stat (`seen`) does it reload. A packer holds the pack lock and,
in `pack`, `.zsdb.lock`. Any process may be killed at any step (`Die`). `check_stat`
compares more than the inode, but a lock file that becomes `.zsdb` is a new one,
and the model never uses an inode again.

### Packed and Repack

- A packed file is a map of cells; `Index` is the order of its offsets.
  `BsearchIndex`, `FetchOne`, `FetchPacked` are `zs_packed_file_bsearch_index`
  and the part of `zsdb_fetch` that uses it. `Merge` is what the merge of packed
  files writes: of the files with a record of a key the one with the highest
  priority counts, and it is left out when the `deleted` flag of its cursor,
  which a tombstone sets and nothing resets, is on (`LeftOut`).
- `dir` maps a name, a pair of indices, to what it leads to: nothing, a log, a
  packed file, or one begun (`torn`). What a file *is* and what its name is *taken
  for* (`KindOf`) are two things: that is how a lone finalised file gets lost.
- The packer goes through `Start` (choice of files and of the output's name),
  `Create`, `Write` and one `Unlink` per input, and may be killed before each.
  Each call packs what a directory scan finds at its beginning: `update_end`
  replaces `.zsdb` without taking its stat, so the next call reloads (or fails,
  as the reload of any handle does after a finalisation, and a new handle is
  opened). The pack lock stays with its holder.
- An opener lists the directory, stats the names and opens them in any order
  (`List`, `Stat`, `OpenFile`, `Opened`), which is `process_files_in_dbdir`.
- `said` is what the finalised files said; `spoilt` the keys on which merged
  files disagreed, or which a merge left out.

### Iterator and PQueue

- `src[c]` is what a source contains; sources are numbered by priority, packed
  files first with the *newest lowest*, as `zsdb_open` numbers them. `pos`, `deleted`,
  `ht`, `pq` are the cursors, their flags, the table and the heap.
- The recursion between `zsdb_iter_data_process` and `zsdb_iter_data_next` is the
  variable `adv`: the cursor still to be moved (`Advance`, `Process`).
- `empty` are the packed files, and the finalised tree, that are there without a
  record, as after a finalisation without writes: the code gives them a cursor
  and uses its first record, which crashes (`AddCrash`).
- `Begin` and `Add` are the three functions that begin an iterator; `at` is the
  key it is set on. `AddNone` and `AddCrash` are the two outcomes of a start
  beyond the last key of a source, where the code uses what is behind the last
  record: in a tree this may be NULL, in which case the source is dropped.
- `GetNull` to `More` are the loops of the callers. `ReportDirty` and
  `ReportAndWrite` are the restart of foreach by `dbdirty`, set before the call or
  by a callback. A callback that ends the loop is left out.
- `Put` and `Get` name the path an element takes through the heap instead of
  swapping along it.

### LogFile and CommitLog

- A file is a sequence of 64-bit words behind the header. A word has the type in
  its first byte, a length, an offset; data words carry the number of their
  record, so a reader that loses its place is noticed. A CRC is the sequence of
  words it was computed over: it matches when these are unchanged.
- The decoders say how a read ends: a record and the next offset, `invalid` (a
  CRC that does not match), `stuck` (a type over which the loop makes no
  progress, the zero byte above all), `wild` (memory outside the file).
- `Extend`, `Copy`, `Copied`, `Returns` are `mfile_write`: the file grows with
  zeros, then words are copied, then the count of covered words grows. `mf` is
  the CRC state of the mapped file. `Die` may come between any two, and `Reopen`
  is the open that replays what is left and goes on behind it.
- `Abort` cuts the file to the offset of `.zsdb`. Afterwards nobody has the file open:
  with the lock held the assertion has ended the process; with the lock free
  `zsdb_reload` opens the file again, which is `Reopen`.
- `kind = "packed"` is `zs_packed_file_new_from_memtree`: records, commit, index, final
  commit. The branch of `FinalAt` for a long final commit, which needs an index
  of more than 16 MB, is not reached.
- `intact` says that no long commit and no long delete was written. Readers
  cannot read either (below), so the properties are about logs without them.

### Memtree

Nodes have numbers, `nodes` is the memory. A record is named by its key, and
positions are those of the code. `Insert`, then `Split` (one turn of the loop of
`memtree_insert_at`), `InsertUp` or `NewRoot`; `RemoveKey`, then `Restore` and `Restored`.
`MaxElements` is a variable that never changes, so that one run covers two
values of `MEMTREE_MAX_ELEMENTS`; the code's is 10. All halve and combine by the
same arithmetic, and small nodes reach three levels with nine keys. `NodeCombine`
copies what the code copies, the parent's records; from then on, and after the
removal from an inner node, which keeps a freed record, `sound` is FALSE and the
model makes no more calls.

## Runs that pass

| Run | Question | Bounds | Why they are enough |
|---|---|---|---|
| `Shared` | May two disciplined writers share a directory, dying at any call? | 2 handles, 1 key, 2 values, 2 files of 3 records | both finalisations (explicit and by size), a reload, an overwritten transaction of a dead writer, and old against new value of a key all occur |
| `Solo` | May one process at a time make any call in any order? | 1 handle, 3 files of 2 records, every call, no discipline | commits and aborts after a release, implicit commits, abandoned transactions, two finalised files below the active one |
| `Chaos` | What is left of the structure when two handles do anything? | 2 handles, 2 files of 1 record, every call | each handle can be behind by a commit, an abort and a finalisation |
| `Lock` | Is the lock exclusive, call by call, and does a timed acquire return? | 2 processes, waits of up to 3 units | every pair of system calls interleaves; a back-off can be zero, exact or overdrawn. Any number of processes: theorems |
| `Dot` | Is `.zsdb` always whole and up to date, and does a writer that opens without the lock append where it should? | 2 writers, 3 indices, 3 commits in a file, 7 inodes, deaths | every step of an open lies between every two of an update; a writer is behind by commits and by files; one dies at each system call and another tries to go on |
| `DotPack` | What still holds with a packer about? | 1 writer, 1 packer, 3 indices, 1 commit in a file, 6 inodes, deaths | writer and packer remove and rename each other's lock file, through two finalisations |
| `Repack` | Does packing two files or more lose anything, to a death, a reader, or for ever? | 4 finalised files, 3 keys, two contents (old and new values; a tombstone between records), deaths, 1 opener | two packed files of two files each, and their merge; a third one beside; the opener sees each intermediate directory |
| `Iterate` | Do scans, lookups and merges return what priorities say, and end? | 3 packed files of 4, 3 and 2 contents and 2 trees of 2, each file without records there or not there; 4 keys, 1 write by a callback, `dbdirty` set or not at first | three cursors displace one another at a key; heaps of up to 4 keys; every key is a start, a last key, or beyond |
| `Log` | What is read of a file whose writer was killed? | 3 records, short and long keys and values, 1 reopen | commits over two records, and over more words than a short commit can say; torn records followed by new ones |
| `Memtree` | Is the tree a sorted map with cursors after every order of calls? | 9 keys, orders 2 and 4, 10 nodes | three levels, splits that go two levels up, every rotation. `MaxNodes` is never exhausted: `Split` waits for two free nodes, one for the split and one for a root, and the run always has them |

The properties:

- `DirShape`: one active file, the one `.zsdb` names, and finalised ones below
  it. `OneActiveFile`: what remains of it without discipline; `.zsdb` may then
  be behind.
- `WriterAppends`: the lock holder with a fresh stat stands at the end of the
  active file. Nothing in the code compares the two.
- `AckedOnlyGrows` (action property): no call changes or drops a record that a
  commit in `.zsdb` or a finalisation has acknowledged.
- `MemoryIsDisk`: memtrees of a fresh handle agree with a replay of the
  directory. The process that finalises rebuilds neither memtree, so this is
  about the order of two lookups.
- `ImplementsKVStore`: every step is a step of the abstract store or invisible
  to it. `Split` is there because the code has it.
- `SoleHandleFailures`: a process alone never loses its active file nor hangs in a
  replay. It can fail, by the assertion of an abort while the write lock is
  held, its own or one left by a dead process; the log is
  then cut to what `.zsdb` acknowledges.
- `MutualExclusion`, `UnlinksOwn`, `ImplementsWriteLock`, `TimedReturns`: of the
  lock. `NoOrphan`: no failed acquire and no release leaves a lock file, but for
  an owner whose second acquire failed, and which has lost the descriptor to
  release with.
- `DotComplete`, `OpenableAtRest`, `DotAdvances`: of `.zsdb` among writers.
  `WriterAtEnd`: a writer that gets the lock and finds its stat unchanged, so that
  it does not reload, stands at the end of the active file, although its open
  had no lock and may have read another `.zsdb` than the one it took the stat of.
- `WriterKeepsFile`, `NeverAhead`: what a packer cannot spoil. A sole writer is
  between its calls in the one active file, and `.zsdb` is ahead of that file only
  by the one about to be created. Until it is created an open fails.
- `EveryFileCovered`: wherever the packer stands or died, each file ever
  finalised is there or within the range of a packed file that opens.
  `RangesApart`: ranges overlap only while their owner is being packed.
  `OpenedWhole`: an open during a repack is whole or fails, unless a name it has
  listed vanishes before its stat (`gone`): then it may succeed on a part of
  the files. `RestKeepsView`: a reader finds what was written, but for the keys in
  `spoilt`. None of this is about the repack of one finalised file (`RepackLone`).
- `PackedDown` (liveness): repeated calls come down to one packed file.
- `CursorsQueued`: between moves of cursors, heap and table hold exactly the
  keys at which cursors wait. `IterationIsMerge`, `WritesMissNothing`: what the
  caller is given. `CrashPastEnd`: what crashes is a start beyond the end of a
  source, a file without records, and fetchnext without a next key. `FetchFindsNewest`: of the search.
  `Ends` (liveness): every iteration does.
- `CommittedFirst`: a replay gives the committed records, in order, before it
  can go wrong. `QuietOpens`: between calls it gives all records. `PackedWhole`: a
  packed file opens just when it is complete, and its index is right.
- `TreeHolds`, `Shapely`, `CursorsVisitAll`: contents, links and balance, and
  both directions of the cursors, from every key, there or not; all three as
  long as no removal has kept a wrong record (`sound`).

Deadlock is checked in `Shared` and `Solo`. It is not in the others, where an
operation ends, a file is complete, all processes may be dead, or a bound is
reached; nor in `Chaos`, where a stale commit can name a finalised file so that no
open succeeds any more. Symmetry is used only where no
liveness property is checked, over handles, values, or writers, which the
actions treat alike.

Fairness appears in three places. `FileLock!FairSpec`: weak fairness of the steps
inside a call (`Waiting`: the next `open` or the end of a sleep; `ReleaseUnlink`). The
operating system schedules a process that is not killed; nothing is assumed
about callers, who may keep a lock for ever, and `TimedReturns` says nothing of
an acquire without timeout. `Repack!Spec`: weak fairness of the packer's steps;
that `PackFinalised` and `PackPacked` are among them assumes somebody who calls
`zsdb_repack` again and again, as a cron job would, and `PackedDown` is what
such a caller may expect. `Iterator!Spec`: weak fairness of `Next`, since an
iteration is one thread inside one call.

## Runs that find a disagreement

| Run | Violated | What happens |
|---|---|---|
| `FetchLoses` | `AckedOnlyGrows` | `h1` and `h2` open; `h1` locks, adds, commits, releases; `h2` fetches, which records the new stat without reloading; `h2` locks and adds at its old offset: the committed record is cut off. `zsdb_remove` and `zsdb_abort` cut at the old offset even without the fetch, as they never look at `.zsdb` |
| `RepackLone` | `EveryFileCovered` | one finalised file `i`: its range is `i` to `i`, so the packed file gets its very name, replaces it, and is then unlinked as an input: all records of the file are gone |

Visible in the models, without a run of their own:

- `Zeroskip`: after another handle has finalised the active file, a reload looks
  for the old index as an active file, finds none, and leaves the handle
  unusable (`broken`), although `zeroskip.c:903` says "We need to reload the DB".
  A tombstone in a finalised file makes fetch return `ZS_OK` with an empty value;
  one in the active memtree is passed over, and an older finalised value is
  returned (`FetchOf`). Abort while anyone has the write lock, the caller included, as
  it has in the middle of its transaction, fails `assert(ret == ZS_OK)`
  (`zeroskip.c:1383`) after the file was cut, and leaves the lock file
  (`asserted`). A close in the middle of a transaction commits it, after the
  lock was released (`CloseCommit`; `zeroskip-active.c:89` says "just ignore"). A
  transaction that outgrows the file is committed in part (`KVStore!Split`).
- `FileLock`: an owner that acquires again fails, which stores -1 as its descriptor;
  its release then returns 0 and leaves the file (`ReleaseNothing`).
- `DotZsdb`: a commit while `zsdb_repack` holds `.zsdb.lock` does not reach `.zsdb`,
  since the result of `file_lock_acquire` is ignored. Another writer, open since
  before, then sees the stat it knows and writes over the commit: with a packer
  and two writers `WriterAtEnd` fails. After a finalisation meanwhile no open finds
  the active file. Two updates, of a writer and a packer, can leave `.zsdb` empty.
  An open that opens the old `.zsdb` and stats the new one by name has the old
  offset under a current stat; it appends where it should (`WriterAtEnd`), but an
  abort would cut the log at the old offset. Between the rename and the creation
  of a finalisation there is no active file, for ever when the process dies
  there (`exists`), though `.zsdb` may name it.
- `Packed`, `Repack`: of two packed files with an old and a new value of a key,
  fetch returns the new one (`FetchPacked`), foreach the old one (`Iterator!Winner`),
  and their merge keeps the old one for good (`Contested`). All records of a
  packed file behind a tombstone that is not its first record are left out of a
  merge (`LeftOut`). "Pack the 2 oldest files" (`zeroskip.c:1522`) takes the newest
  two. A name that vanishes between the listing and its stat ends the scan, and
  the open succeeds on a part of the files (`gone`).
- `Iterator`: a scan crashes at a packed file without records, and when the finalised
  files have none (`AddCrash`). A start beyond the last key of a packed file or of a
  tree uses memory behind it. zsdb_fetchnext after the last key reads through NULL
  (`GetNull`), and with forone it reports tombstones. A scan hides all keys of a
  packed file behind a tombstone (`Hidden`); after a restart it may show them.
- `LogFile`: of a long commit the reader passes the length to the CRC as an
  address. The first word of a long delete, with its type, is never written, so a
  reader meets a zero byte. A torn record is followed by a read that does not end or
  leaves the mapping (`stuck`, `wild`).
- `Memtree`: `node_combine` copies the parent's records, removal from an inner node
  leaves a record that is freed later, and nobody calls either.

`FetchLoses`, the first three of `Zeroskip`, the one of `FileLock` and the first of
`Iterator` were also reproduced with programs linked against the library.

## Theorems

All are checked by TLAPS and hold for any sets and bounds that satisfy the
modules' `ASSUME`s: names are distinct from `Free`, `Stale` and `None`; there is
a key, keys are positive naturals and finitely many; cells are distinct from
values; bounds are naturals. Each invariant below was a run's invariant before
it was proved.

`FileLockProofs`, for any number of processes:

- `TypeCorrect`, and `Invariance` of an inductive invariant: a process that
  has the lock's `locked` flag, or is about to unlink, is the creator of the
  file the name leads to. `MutualExclusion` alone is not inductive: a release
  unlinks by name, so one must know whose file it is.
- `Exclusion`, `UnlinkSafe` follow from it, `OrphanFree` (with its exception, the owner
  whose second acquire failed), and `Refinement`:
  `Spec => ImplementsWriteLock`, where create, unlink and death are the abstract
  steps and everything else stutters.

`ZeroskipProofs`, for any number of handles:

- `TypeCorrect`: for every client behaviour, all calls. It rests on lemmas about
  `Truncate`, `WriteAt`, `Load` and `LoadFinal`.
- `OneActive`: `OneActiveFile`, also for every client behaviour. Its
  invariant `ChaosInv` names the active file and adds that neither `.zsdb` nor
  any handle is ahead of it.
- `Shape`, `Appends`, `Durability`: `DirShape`, `WriterAppends` and
  `AckedOnlyGrows`, assuming `Orderly`: clients are `Strict` and use none of
  remove, fetch and abort (the runs above show why). Deaths are included. The
  inductive invariant `WriterInv` adds to `DirShape` that the committed offset
  is within the file, that a transaction belongs to the lock holder, which is
  fresh, and that every fresh handle has the current file open and, unless
  somebody's transaction is in it or died in it, stands at its end.
  `WriterAppends` alone is not inductive: a handle that does not hold the
  lock now must be known to stand at the end for when it acquires it.

`ZeroskipProofs`, its second half, for any number of keys, values, files and handles:

- Lemmas on replay: what a log says of a key is its last record (which exists by
  well-founded induction on the distance to the end), what appending and
  cutting change, and what one more finalised file does to the whole.
- `Memory` and `Store`: for `Orderly` clients, `MemoryIsDisk` and `Spec =>
  ImplementsKVStore`. `MemoryIsDisk` is inductive together with `WriterInv`; a
  commit is the abstract commit, an add the abstract put, a finalisation in the
  middle of a transaction the abstract split, and a death drops the transaction.
- `SoleFailures`, `SoleMemory`, `SoleStore`: for one handle and *any* calls, aborts,
  removals and commits without the lock included. `SoleInv` says where the
  handle stands in each of its states and after a death.

`DotZsdbProofs`, for any number of processes, updates and inodes:

- With packers: `TypeCorrect` and `NotAhead` for any writers, `KeepsFile` for a sole
  one (two are not safe, see above). The invariant names the
  index that the active file has or will have (`Limit`), since a packer writes
  back what it has read, and that must bound every file that is or may become
  `.zsdb`, whoever created it.
- Without packers (`Packers = {}`): `CompleteDot`, `OpensAtRest`, `AtEnd`, and
  `Advance`, the action property. The invariant follows a writer through its
  update: which inode the lock's name leads to, what is in it, and that the
  next position is later than `.zsdb`. Of the writers that are open it says that
  one whose stat is that of `.zsdb` stands at the end of the newest log file,
  unless an update is half done (`Synced`). A packer breaks all four (see above), so
  the assumption cannot go.

`RepackProofs`, its first part, for indices and lists of any length (`IteratorProofs`
begins with the same lemmas: each has variables of its own and cannot extend the
other):

- `BsearchExact`: the search, a recursive function, finds a key just when it is
  there and else says where the next greater one is. The induction is on the
  length of the range, by way of a least counterexample.
- `LookupExact`, `FetchPackedFirst`: what a lookup in one file and in a list of
  files returns. The rest is about `Sorted` (it lists a finite set in the order it
  is given), `Index` and the merge of two files.

`RepackProofs`, its second part, for any number of files and any contents:

- `Coverage`, `ApartRanges`, `WholeOpen`, `ViewKept`: the four invariants of run
  `Repack`, when `Lone` is FALSE: packing a lone file does lose it (`RepackLone`).
  `WholeOpen` has the exception of `OpenedWhole`, a name that vanishes before its stat.
- The inductive invariant says how the ranges lie (`Ranges`: packed files below
  logs, all apart, the packer's inputs within its output), in which order the
  packer has them (`Job`), that every file but an unfinished output opens
  (`Whole`), and that the files that count, without the output while it is
  incomplete and without the inputs after, have a place for each file ever
  finalised (`AllStand`) and agree with what was written for all keys not in
  `spoilt` (`Agreement`). `EveryFileCovered` alone is not inductive: an input may be
  unlinked only because its range lies within an output that opens.

`IteratorProofs`, for any number of packed files, any contents, any number of
writes by callbacks:

- `Queues`: `CursorsQueued`. The inductive part is that keys which remain in the
  table after they were returned (nothing is ever removed from it) are behind
  every cursor, so that no cursor is displaced by one that has left.
- `Returned`: what `zs_iterator_get` returns is the record of the highest priority
  for the least key not yet returned. It needs `Cover`: a key a cursor has left
  behind was returned, or a cursor of a higher priority waits at it.
- `Merges`, `WritesMissNone`, `Crashes`: `IterationIsMerge`, `WritesMissNothing`,
  `CrashPastEnd`. The invariant says what has been given so far (`Exact`,
  `NoneMissed`), that it lies behind (`Behind`), what the flags of the cursors tell
  (`Flags`), and that after a restart the one record passed over is that of the
  key just given (`Skipping`). `Crashes` includes files without records.
- `FetchesNewest`: `FetchFindsNewest`, from `FetchPackedFirst`, where packed files have
  records.
- `PutHeap` and `GetHeap`, for a heap of any size: `pqueue_put` and `pqueue_get`
  keep it a heap and add, or take out, exactly one key, the least one. The path an
  element takes is a fixed point of the step from a place to its parent or lesser
  child; a place that breaks the order would be a first one on it.

`CommitLogProofs`, for keys and values of any length and any number of records:

- The replay is a recursive function over the offsets (`Reading`). It exists
  because every record read leads further on (a least offset without a value
  would contradict that). `Reaches(f, q, recs)` says without recursion that a
  replay comes to offset `q` having given `recs`; it is kept by whatever is
  written behind `q`, and then `Replay` begins with `recs`.
- `Invariant`: the inductive invariant. `Writing`: in a call the first buffer of
  the queue is in the file as far as it is copied, and zeros follow. `Covered`:
  the CRC covers what was written since it was begun, so a commit verifies what
  is before it. `Sanely`: what is written behind a file leads no reader astray,
  cut off anywhere and filled up with zeros; this is what a death and the next
  open need, and the reason why the three properties are not inductive.
  `Replayed`: a replay comes to the end of what is written, and on its way there
  to the end of what is committed. `Packing`: the index leads to the records, and
  no word is a final commit before the last.
- `Committed`, `Quiet`, `Whole`: `CommittedFirst`, `QuietOpens`, `PackedWhole`. A
  process may be killed at every word, and the file opened again any number of
  times.

`MemtreeProofs`, for B-trees of any order and any size:

- What each function does, as a predicate on the memory before and after:
  `IsInsert` (`node_insert`), `IsCut` (`node_split`), `IsMoveRight`, `IsMoveLeft`,
  `IsCombine`, and `IsCrowned` for a root that comes or goes. One lemma says that
  the function does that (`InsertIsInsert`, `NodeSplitIs`, `MoveRightIs`,
  `MoveLeftIs`, `CombineIs`), another that then parents and children still agree.
- Where a search ends (`FindLeaf`): `Find` and `Deref` are recursive functions over
  the nodes. They are defined because each turn goes to a node of less depth,
  or of more, and the depths of the nodes in use are bounded.
- `Invariant`: the inductive invariant `Shape`. Between two turns of an insertion
  the memory is not a tree yet: the record and the branch that a split hands up
  are in no node. `Shape` speaks of the tree there would be if the record were
  put where it is about to go (`View`), in which one node may have a record too many
  (`Over`); during a removal one may lack one (`Lacking`). Of that tree it says
  that parents and children agree (`Linked`), which makes it one tree of equally deep
  leaves, and how full its nodes are (`Filled`).
- `Balanced`: `Shapely`, which is `Shape` when no call is at work. Like the theorems
  of `MemtreeSearchProofs` it speaks of runs in which `sound` is TRUE so far: no
  removal was from an inner node, or combined a right node with records left,
  which with the code's order every combination does.

`MemtreeSearchProofs`, which extends it:

- `Contained`: the inductive invariant `Content`, of the same tree as `Shape`: to each
  node belong a lower and an upper bound, those of a branch being the records
  beside it; all records of a node are in order between its bounds (`Ordered`); and
  the records of all nodes are the keys inserted and not removed. For each
  change of the memory one lemma gives the bounds afterwards (`SplitOrdered`,
  `LeafGrows`, `MoveRightOrdered`, `CombineOrdered`...) and one says that no key is lost.
- The nodes between whose bounds a key lies are a chain, each the branch of the
  one above (`AboutOne`), and only the lowest can have it (`HolderLowest`). So
  `Found` is exact (`FoundHolds`), the leaf where `Find` ends is where the key
  fits (`FindBetween`), and what `memtree_remove` takes from a leaf is the only
  record of the key (`OneHolder`).
- `Held`: `TreeHolds`. The walk, concatenation by concatenation, lists what is between
  the bounds of each node (`NodeWalk`, `WalkLists`).
- `Visited`: `CursorsVisitAll`. One step of a cursor goes to the record next in order,
  be it in the same leaf, in a branch below, or in a node above; `n` steps then
  give the next `n` keys, since a number of steps for which that fails would
  have a least one (`Onward`, `Backward`).

Only model-checked: liveness (`TimedReturns`, `PackedDown`, `Ends`), since the prover
has no ENABLED.

## Not modelled

- I/O errors and full disks, among them two that matter: a failed write of
  `.zsdb.lock` is followed by the rename all the same, and a repack that could
  not make its output goes on with an unset pointer and unlinks the inputs.
- A loss of power. Data written by a process survives its death (page cache); the
  flush of a commit guards against nothing else.
- Transactions that keep an iterator from one call to the next, while the trees
  and files it points into change; callbacks that finalise or end a loop; two
  handles in one process, which would share `dblock` and the heaps of
  `process_files_in_dbdir`.
- Packed and finalised files without records, outside `Iterator`: in `Repack` every
  file contains something, and `FetchFindsNewest` is about files that do. The
  code's search reads a first offset without asking whether there is one.
- Two handles that remove or abort: `FetchLoses` shows what a stale offset does.
  In `Chaos` they do, and only the structure of the directory is claimed.
- The order of what foreach reports from trees of more than one node: a cursor
  set by `memtree_find` on the end of a leaf has a record that is not the next
  one (`zeroskip-iterator.c:508` takes it for that). `Memtree` shows that its
  position is right.
- The buckets of `htable.c`: `htable_put` compares the count with `shrink_mark`,
  which is 0, so the table never grows and long chains are slow, no more.
- Headers, UUIDs, syntax of names, CRC arithmetic, the containers, info, dump, the
  command line tool.

## Plan

1. Done: `Zeroskip` with `KVStore`, `FileLock` with `WriteLock`, `DotZsdb`, `Packed`
   and `Repack`, `Iterator` with `PQueue`, `LogFile` and `CommitLog`, `Memtree`.
2. Done: theorems for all safety properties of `Zeroskip`, `FileLock`, `DotZsdb`,
   `Repack`, `Iterator`, `CommitLog` and `Memtree`, and the two refinements.
3. If anything is left: failing writes in `DotZsdb` and `Repack`, and iterators that
   a transaction keeps from one call to the next.
