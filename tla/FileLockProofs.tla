--------------------------- MODULE FileLockProofs ---------------------------
(***************************************************************************)
(* The safety of file-lock.c for any set of processes, any timeout, with   *)
(* repeated acquires and deaths at any system call.  The inductive         *)
(* invariant says that the lock's name leads to the file of the one        *)
(* process that has been told so, through every step of a release.         *)
(***************************************************************************)
EXTENDS FileLock, TLAPS

\* What a process believes and what the directory says of the lock agree.
Agreement ==
    /\ \A p \in Procs : locked[p] => path = p
    /\ \A p \in Procs : pc[p] = "unlink" => locked[p]
    /\ \A p \in Procs : (path = p /\ pc[p] # "dead") => locked[p]
    /\ \A p \in Procs : pc[p] = "dead" => ~locked[p]
    /\ \A p \in Procs : (path = p /\ pc[p] # "dead" /\ fd[p]) => ret[p] = "acquired"

IInv == TypeOK /\ Agreement

\* Every reachable state is well typed: in particular a timed acquire goes to
\* sleep only while time remains, and overdraws it by less than one back-off.
THEOREM TypeCorrect == Spec => []TypeOK
<1>1. Init => TypeOK
  BY ProcsAssumption, WaitAssumption DEF Init, TypeOK, Modes, Rets
<1>2. TypeOK /\ [Next]_vars => TypeOK'
  <2> SUFFICES ASSUME TypeOK, [Next]_vars PROVE TypeOK'
    OBVIOUS
  <2> USE ProcsAssumption, WaitAssumption DEF TypeOK, Modes, Rets
  <2>1. CASE UNCHANGED vars
    BY <2>1 DEF vars
  <2>2. ASSUME NEW p \in Procs, NEW m \in Modes, Acquire(p, m) PROVE TypeOK'
    BY <2>2 DEF Acquire
  <2>3. ASSUME NEW p \in Procs, TryCreates(p) PROVE TypeOK'
    BY <2>3 DEF TryCreates, CanCreate
  <2>4. ASSUME NEW p \in Procs, TryExists(p) PROVE TypeOK'
    BY <2>4 DEF TryExists, GivesUp
  <2>5. ASSUME NEW p \in Procs, TryFails(p) PROVE TypeOK'
    BY <2>5 DEF TryFails
  <2>6. ASSUME NEW p \in Procs, Sleep(p) PROVE TypeOK'
    <3>1. PICK wait \in 0..MaxWait :
            left' = [left EXCEPT ![p] = IF mode[p] = "timed" THEN @ - wait ELSE @]
      BY <2>6 DEF Sleep
    <3>2. mode[p] = "timed" => left[p] - wait \in (1 - MaxWait)..MaxWait
      BY <2>6, <3>1 DEF Sleep
    <3>3. left' \in [Procs -> (1 - MaxWait)..MaxWait]
      BY <3>1, <3>2
    <3> QED
      BY <2>6, <3>3 DEF Sleep
  <2>7. ASSUME NEW p \in Procs, ReleaseNothing(p) PROVE TypeOK'
    BY <2>7 DEF ReleaseNothing, HasLock
  <2>8. ASSUME NEW p \in Procs, ReleaseClose(p) PROVE TypeOK'
    BY <2>8 DEF ReleaseClose, HasLock
  <2>9. ASSUME NEW p \in Procs, ReleaseUnlink(p) PROVE TypeOK'
    BY <2>9 DEF ReleaseUnlink
  <2>10. ASSUME NEW p \in Procs, Die(p) PROVE TypeOK'
    BY <2>10 DEF Die
  <2> QED
    BY <2>1, <2>2, <2>3, <2>4, <2>5, <2>6, <2>7, <2>8, <2>9, <2>10 DEF Next, Step, Waiting
<1> QED
  BY <1>1, <1>2, PTL DEF Spec

-----------------------------------------------------------------------------

LEMMA InitAgreement == Init => Agreement
  BY ProcsAssumption DEF Init, Agreement

\* The one agreement step per system call.
LEMMA StepAgreement == TypeOK /\ Agreement /\ [Next]_vars => Agreement'
<1> SUFFICES ASSUME TypeOK, Agreement, [Next]_vars PROVE Agreement'
  OBVIOUS
<1> USE ProcsAssumption DEF TypeOK, Agreement
<1>1. CASE UNCHANGED vars
  BY <1>1 DEF vars
<1>2. ASSUME NEW p \in Procs, NEW m \in Modes, Acquire(p, m) PROVE Agreement'
  BY <1>2 DEF Acquire
<1>3. ASSUME NEW p \in Procs, TryCreates(p) PROVE Agreement'
  BY <1>3 DEF TryCreates, CanCreate
<1>4. ASSUME NEW p \in Procs, TryExists(p) PROVE Agreement'
  BY <1>4 DEF TryExists
<1>5. ASSUME NEW p \in Procs, TryFails(p) PROVE Agreement'
  BY <1>5 DEF TryFails
<1>6. ASSUME NEW p \in Procs, Sleep(p) PROVE Agreement'
  BY <1>6 DEF Sleep
<1>7. ASSUME NEW p \in Procs, ReleaseNothing(p) PROVE Agreement'
  BY <1>7 DEF ReleaseNothing, HasLock
<1>8. ASSUME NEW p \in Procs, ReleaseClose(p) PROVE Agreement'
  BY <1>8 DEF ReleaseClose, HasLock
<1>9. ASSUME NEW p \in Procs, ReleaseUnlink(p) PROVE Agreement'
  \* The releaser created the file it unlinks, so no other process has it.
  <2>1. path = p /\ path' = Free
    BY <1>9 DEF ReleaseUnlink
  <2>2. \A q \in Procs : ~locked'[q]
    BY <1>9, <2>1 DEF ReleaseUnlink
  <2>3. \A q \in Procs : pc'[q] # "unlink"
    BY <1>9, <2>1 DEF ReleaseUnlink
  <2> QED
    BY <2>1, <2>2, <2>3
<1>10. ASSUME NEW p \in Procs, Die(p) PROVE Agreement'
  BY <1>10 DEF Die
<1> QED
  BY <1>1, <1>2, <1>3, <1>4, <1>5, <1>6, <1>7, <1>8, <1>9, <1>10 DEF Next, Step, Waiting

\* The inductive invariant holds in every behaviour.
THEOREM Invariance == Spec => []IInv
<1>1. Init => Agreement
  BY InitAgreement
<1>2. TypeOK /\ Agreement /\ [Next]_vars => Agreement'
  BY StepAgreement
<1> QED
  BY <1>1, <1>2, TypeCorrect, PTL DEF Spec, IInv

\* Never do two processes both believe that they have the lock, for any number
\* of processes, with repeated acquires and deaths.
THEOREM Exclusion == Spec => []MutualExclusion
<1>1. IInv => MutualExclusion
  BY DEF IInv, Agreement, MutualExclusion
<1> QED
  BY <1>1, Invariance, PTL

\* The unlink in file_lock_release, which goes by name, removes the releaser's
\* own file.
THEOREM UnlinkSafe == Spec => []UnlinksOwn
<1>1. IInv => UnlinksOwn
  BY DEF IInv, Agreement, UnlinksOwn
<1> QED
  BY <1>1, Invariance, PTL

\* An acquire that failed and a release leave no lock file behind, unless the
\* process had the lock already and lost its descriptor in a second acquire.
THEOREM OrphanFree == Spec => []NoOrphan
<1>1. IInv => NoOrphan
  BY DEF IInv, Agreement, NoOrphan
<1> QED
  BY <1>1, Invariance, PTL

-----------------------------------------------------------------------------

LEMMA InitRefines == Init => WL!Init
  BY DEF Init, WL!Init, Owner

\* Three kinds of step matter to the handles: the creation, the unlink and the
\* death of the owner; every other system call is invisible.
LEMMA StepRefines == IInv /\ [Next]_vars => [WL!Next]_Owner
<1> SUFFICES ASSUME IInv, [Next]_vars PROVE [WL!Next]_Owner
  OBVIOUS
<1> USE ProcsAssumption DEF IInv, TypeOK, Agreement
<1>1. CASE UNCHANGED vars
  BY <1>1 DEF vars, Owner
<1>2. ASSUME NEW p \in Procs, NEW m \in Modes, Acquire(p, m) PROVE Owner' = Owner
  BY <1>2 DEF Acquire, Owner
<1>3. ASSUME NEW p \in Procs, TryCreates(p) PROVE WL!Acquire(p)
  BY <1>3 DEF TryCreates, CanCreate, Owner, WL!Acquire
<1>4. ASSUME NEW p \in Procs, TryExists(p) PROVE Owner' = Owner
  BY <1>4 DEF TryExists, Owner
<1>5. ASSUME NEW p \in Procs, TryFails(p) PROVE Owner' = Owner
  BY <1>5 DEF TryFails, Owner
<1>6. ASSUME NEW p \in Procs, Sleep(p) PROVE Owner' = Owner
  BY <1>6 DEF Sleep, Owner
<1>7. ASSUME NEW p \in Procs, ReleaseNothing(p) PROVE Owner' = Owner
  BY <1>7 DEF ReleaseNothing, HasLock, Owner
<1>8. ASSUME NEW p \in Procs, ReleaseClose(p) PROVE Owner' = Owner
  BY <1>8 DEF ReleaseClose, HasLock, Owner
<1>9. ASSUME NEW p \in Procs, ReleaseUnlink(p) PROVE WL!Release(p)
  BY <1>9 DEF ReleaseUnlink, Owner, WL!Release
<1>10. ASSUME NEW p \in Procs, Die(p) PROVE WL!Die(p) \/ Owner' = Owner
  <2>1. CASE path = p /\ locked[p]
    BY <1>10, <2>1 DEF Die, Owner, WL!Die
  <2>2. CASE path # p \/ ~locked[p]
    BY <1>10, <2>2 DEF Die, Owner
  <2> QED
    BY <2>1, <2>2
<1> QED
  BY <1>1, <1>2, <1>3, <1>4, <1>5, <1>6, <1>7, <1>8, <1>9, <1>10
  DEF Next, Step, Waiting, WL!Next

\* The lock of file-lock.c is the lock the rest of the system is modelled with:
\* free, held by one process, or stale after its owner's death.
THEOREM Refinement == Spec => ImplementsWriteLock
<1>1. Init => WL!Init
  BY InitRefines
<1>2. IInv /\ [Next]_vars => [WL!Next]_Owner
  BY StepRefines
<1> QED
  BY <1>1, <1>2, Invariance, PTL DEF Spec, WL!Spec, ImplementsWriteLock
=============================================================================
