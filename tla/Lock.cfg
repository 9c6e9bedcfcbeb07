\* Two processes that acquire in every way, twice in a row too, release and may
\* die, under the scheduler's fairness.
SPECIFICATION FairSpec
CONSTANTS
    Procs = {p1, p2}
    Free = Free
    Stale = Stale
    MaxWait = 3
    Reacquire = TRUE
    MayDie = TRUE
INVARIANTS TypeOK MutualExclusion UnlinksOwn NoOrphan
PROPERTIES ImplementsWriteLock TimedReturns
\* All processes may be dead.
CHECK_DEADLOCK FALSE
