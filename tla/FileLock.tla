------------------------------ MODULE FileLock ------------------------------
(***************************************************************************)
(* file-lock.c: a lock is a file created with O_CREAT | O_EXCL and removed *)
(* by its name.  One action is one system call and the code around it, so  *)
(* the processes interleave inside file_lock_acquire and file_lock_release.*)
(* A process has one struct file_lock, as a zsdb_priv has one for writing. *)
(***************************************************************************)
EXTENDS Integers

CONSTANTS Procs,     \* the processes that share the directory
          Free,      \* the lock file does not exist
          Stale,     \* in the lock WriteLock sees: held by a dead process
          MaxWait,   \* bound: a timeout, and one back-off, in units of time
          Reacquire, \* TRUE: a process may acquire the lock it holds
          MayDie     \* TRUE: processes may die

ASSUME ProcsAssumption == Free \notin Procs /\ Stale \notin Procs /\ Free # Stale
ASSUME WaitAssumption == MaxWait \in Nat \ {0}
ASSUME FlagAssumption == Reacquire \in BOOLEAN /\ MayDie \in BOOLEAN

VARIABLES path,    \* who created the file the lock's name leads to, or Free
          pc,      \* where each process is in the functions of file-lock.c
          fd,      \* TRUE: lk->fd is a descriptor; FALSE: it is -1
          locked,  \* lk->locked
          mode,    \* the kind of timeout of the acquire in progress
          left,    \* remaining_ms of it, when it is timed
          slept,   \* it has been through the back-off (n > 1)
          ret      \* what the last call of a process returned to it

vars == <<path, pc, fd, locked, mode, left, slept, ret>>

Modes == {"once", "timed", "forever"}   \* timeout_ms = 0, > 0, < 0
Rets == {"none", "acquired", "failed", "released"}

Init == /\ path = Free
        /\ pc = [p \in Procs |-> "idle"]
        /\ fd = [p \in Procs |-> TRUE]      \* zero, from xcalloc
        /\ locked = [p \in Procs |-> FALSE]
        /\ mode = [p \in Procs |-> "once"]
        /\ left = [p \in Procs |-> 0]
        /\ slept = [p \in Procs |-> FALSE]
        /\ ret = [p \in Procs |-> "none"]

\* file_lock_acquire is called with a timeout.
Acquire(p, m) ==
    /\ pc[p] = "idle"
    /\ locked[p] => Reacquire
    /\ pc' = [pc EXCEPT ![p] = "try"]
    /\ mode' = [mode EXCEPT ![p] = m]
    /\ left' = [left EXCEPT ![p] = IF m = "timed" THEN MaxWait ELSE 0]
    /\ slept' = [slept EXCEPT ![p] = FALSE]
    /\ UNCHANGED <<path, fd, locked, ret>>

\* Mutant: O_EXCL is forgotten.
CanCreateAnyway(p) == TRUE

\* open() with O_CREAT | O_EXCL succeeds only if the name is free.
CanCreate(p) == path = Free

\* open() creates the file.
TryCreates(p) == /\ pc[p] = "try"
                 /\ CanCreate(p)
                 /\ path' = p
                 /\ fd' = [fd EXCEPT ![p] = TRUE]
                 /\ locked' = [locked EXCEPT ![p] = TRUE]
                 /\ pc' = [pc EXCEPT ![p] = "idle"]
                 /\ ret' = [ret EXCEPT ![p] = "acquired"]
                 /\ UNCHANGED <<mode, left, slept>>

\* Mutant: remaining_ms is counted down and never looked at.
GivesUpOnce(p) == mode[p] = "once"

GivesUp(p) == mode[p] = "once" \/ (mode[p] = "timed" /\ left[p] <= 0)

\* open() fails with EEXIST; lk->fd has been overwritten with -1.
TryExists(p) ==
    /\ pc[p] = "try"
    /\ path # Free
    /\ fd' = [fd EXCEPT ![p] = FALSE]
    /\ IF GivesUp(p)
       THEN /\ pc' = [pc EXCEPT ![p] = "idle"]
            /\ ret' = [ret EXCEPT ![p] = "failed"]
       ELSE pc' = [pc EXCEPT ![p] = "sleep"] /\ UNCHANGED ret
    /\ UNCHANGED <<path, locked, mode, left, slept>>

\* open() fails otherwise (EMFILE, EACCES, ...): no retry.
TryFails(p) == /\ pc[p] = "try"
               /\ fd' = [fd EXCEPT ![p] = FALSE]
               /\ pc' = [pc EXCEPT ![p] = "idle"]
               /\ ret' = [ret EXCEPT ![p] = "failed"]
               /\ UNCHANGED <<path, locked, mode, left, slept>>

\* Mutant: the wait is not taken off what remains.
SleepUncounted(p) ==
    /\ pc[p] = "sleep"
    /\ pc' = [pc EXCEPT ![p] = "try"]
    /\ slept' = [slept EXCEPT ![p] = TRUE]
    /\ UNCHANGED <<path, fd, locked, mode, left, ret>>

\* sleep_ms: the first back-off may round to zero, the later ones do not, and
\* none is cut down to what remains of the timeout.
Sleep(p) ==
    /\ pc[p] = "sleep"
    /\ pc' = [pc EXCEPT ![p] = "try"]
    /\ slept' = [slept EXCEPT ![p] = TRUE]
    /\ \E wait \in 0..MaxWait :
          /\ slept[p] => wait > 0
          /\ left' = [left EXCEPT ![p] = IF mode[p] = "timed" THEN @ - wait ELSE @]
    /\ UNCHANGED <<path, fd, locked, mode, ret>>

\* Mutant: only the descriptor is looked at.
HasDescriptor(p) == fd[p]

\* What file_lock_release looks at before it does anything.
HasLock(p) == fd[p] /\ locked[p]

\* file_lock_release of a lock that is not ours, or has lost its descriptor.
ReleaseNothing(p) == /\ pc[p] = "idle"
                     /\ ~HasLock(p)
                     /\ ret' = [ret EXCEPT ![p] = "released"]
                     /\ UNCHANGED <<path, pc, fd, locked, mode, left, slept>>

\* file_lock_release closes the descriptor ...
ReleaseClose(p) == /\ pc[p] = "idle"
                   /\ HasLock(p)
                   /\ pc' = [pc EXCEPT ![p] = "unlink"]
                   /\ UNCHANGED <<path, fd, locked, mode, left, slept, ret>>

\* Mutant: the descriptor is closed and the file stays.
ReleaseForgets(p) == /\ pc[p] = "unlink"
                     /\ locked' = [locked EXCEPT ![p] = FALSE]
                     /\ pc' = [pc EXCEPT ![p] = "idle"]
                     /\ ret' = [ret EXCEPT ![p] = "released"]
                     /\ UNCHANGED <<path, fd, mode, left, slept>>

\* ... and removes whatever file has the lock's name.
ReleaseUnlink(p) == /\ pc[p] = "unlink"
                    /\ path' = Free
                    /\ locked' = [locked EXCEPT ![p] = FALSE]
                    /\ pc' = [pc EXCEPT ![p] = "idle"]
                    /\ ret' = [ret EXCEPT ![p] = "released"]
                    /\ UNCHANGED <<fd, mode, left, slept>>

\* The process is killed; the file stays.
Die(p) == /\ MayDie
          /\ pc[p] # "dead"
          /\ pc' = [pc EXCEPT ![p] = "dead"]
          /\ locked' = [locked EXCEPT ![p] = FALSE]
          /\ UNCHANGED <<path, fd, mode, left, slept, ret>>

Waiting(p) == TryCreates(p) \/ TryExists(p) \/ TryFails(p) \/ Sleep(p)
Step(p) == \/ \E m \in Modes : Acquire(p, m)
           \/ Waiting(p)
           \/ ReleaseNothing(p) \/ ReleaseClose(p) \/ ReleaseUnlink(p)
           \/ Die(p)

Next == \E p \in Procs : Step(p)
Spec == Init /\ [][Next]_vars

\* A process that is inside a call and not killed goes on; whether it ever
\* calls or releases again is its own affair.
FairSpec == Spec /\ \A p \in Procs : WF_vars(Waiting(p)) /\ WF_vars(ReleaseUnlink(p))

-----------------------------------------------------------------------------
(* Properties *)

\* The time that remains is overdrawn by less than one back-off.
TypeOK == /\ path \in Procs \cup {Free}
          /\ pc \in [Procs -> {"idle", "try", "sleep", "unlink", "dead"}]
          /\ fd \in [Procs -> BOOLEAN]
          /\ locked \in [Procs -> BOOLEAN]
          /\ mode \in [Procs -> Modes]
          /\ left \in [Procs -> (1 - MaxWait)..MaxWait]
          /\ \A p \in Procs : (pc[p] = "sleep" /\ mode[p] = "timed") => left[p] > 0
          /\ slept \in [Procs -> BOOLEAN]
          /\ ret \in [Procs -> Rets]

\* At most one process believes it has the lock, whatever the order of its
\* and the others' system calls, also when a process acquires twice or dies.
MutualExclusion ==
    \A p, q \in Procs : (locked[p] /\ locked[q]) => p = q

\* A release removes no other process's lock: the name still leads to the
\* file this process created when it unlinks it.
UnlinksOwn == \A p \in Procs : pc[p] = "unlink" => path = p

\* What an acquire that failed, or a release, leaves behind: nothing, except
\* that an owner whose second acquire failed has lost its descriptor, and with
\* it the way to release; its file then stays, and it still counts as locked.
NoOrphan ==
    \A p \in Procs : (path = p /\ pc[p] # "dead" /\ ret[p] # "acquired") => locked[p] /\ ~fd[p]

\* The lock implements WriteLock, with the process that is told so as owner.
Owner == IF path = Free THEN Free ELSE IF locked[path] THEN path ELSE Stale
WL == INSTANCE WriteLock WITH owner <- Owner
ImplementsWriteLock == WL!Spec

\* An acquire with a timeout returns: the back-off cannot go on for ever.
TimedReturns ==
    \A p \in Procs : (pc[p] = "try" /\ mode[p] # "forever") ~> (pc[p] \in {"idle", "dead"})
=============================================================================
