-------------------------- MODULE WriterLockProofs --------------------------
(***************************************************************************)
(* The writer lock excludes, for any number of processes and files, until  *)
(* a guard is dropped.                                                     *)
(***************************************************************************)
EXTENDS WriterLock, TLAPS

(***************************************************************************)
(* flock is kept per file, so two processes exclude each other only when   *)
(* they opened the same file.  That is so while nobody has removed one:    *)
(* every open descriptor is of the file the path still names.              *)
(***************************************************************************)

OwnsItsFile == \A p \in Locking : pc[p] \in Held => fd[p] # NoFile /\ owner[fd[p]] = p
OpensAFile == \A p \in Procs : fd[p] = NoFile <=> At(p, "out") \/ p \in Disabled
OptedOut == \A p \in Disabled : pc[p] \in {"out", "acquired", "open"}
OneFile == ~exited => \A p \in Procs : fd[p] \in {NoFile, path} /\ ~At(p, "unlinking")
StaleIsOpen == \A p \in Procs : stale[p] # {} => At(p, "open")

IInv ==
    /\ TypeOK
    /\ LeftoverNeverBlocks
    /\ OwnsItsFile
    /\ OpensAFile
    /\ OptedOut
    /\ OneFile
    /\ StaleIsOpen
    /\ FreshUntilExit
    /\ RecordNamesHolder

LEMMA Excludes == IInv => ExclusiveUntilExit
BY DEF IInv, ExclusiveUntilExit, MutualExclusion, OwnsItsFile, OneFile, Locking

LEMMA InitHolds == Init => IInv
<1> SUFFICES ASSUME Init PROVE IInv
  OBVIOUS
<1>1. stale \in [Procs -> SUBSET Procs] /\ \A p \in Procs : stale[p] = {}
  BY DEF Init
<1>2. StaleIsOpen /\ FreshUntilExit
  BY <1>1 DEF StaleIsOpen, FreshUntilExit, Locking
<1>3. TypeOK
  BY WriterLockAssumption, <1>1 DEF Init, TypeOK, At, Steps
<1>4. LeftoverNeverBlocks /\ OwnsItsFile /\ OpensAFile /\ OptedOut /\ OneFile /\ RecordNamesHolder
  BY WriterLockAssumption
     DEF Init, LeftoverNeverBlocks, OwnsItsFile, OpensAFile, OptedOut, OneFile, RecordNamesHolder, At, Held, Locking
<1>5. QED BY <1>2, <1>3, <1>4 DEF IInv

LEMMA StepHolds == IInv /\ [Next]_vars => IInv'
<1> SUFFICES ASSUME IInv, [Next]_vars PROVE IInv'
  OBVIOUS
<1> USE WriterLockAssumption
    DEF IInv, TypeOK, LeftoverNeverBlocks, OwnsItsFile, OpensAFile, OptedOut, OneFile,
        StaleIsOpen, FreshUntilExit, RecordNamesHolder, At, Goto, Steps, Held, Locking
<1>1. ASSUME NEW p \in Procs, Skip(p) PROVE IInv'
  BY <1>1 DEF Skip
<1>2. ASSUME NEW p \in Procs, OpenFile(p) PROVE IInv'
  <2>1. CASE path # NoFile
    BY <1>2, <2>1 DEF OpenFile
  <2>2. CASE path = NoFile
    <3>1. PICK i \in Inodes :
            Free(i) /\ path' = i /\ fd' = [fd EXCEPT ![p] = i] /\ record' = [record EXCEPT ![i] = NoProc]
      BY <1>2, <2>2 DEF OpenFile
    <3>2. QED BY <1>2, <2>2, <3>1 DEF OpenFile, Free
  <2>3. QED BY <2>1, <2>2
<1>3. ASSUME NEW p \in Procs, TryLock(p) PROVE IInv'
  BY <1>3 DEF TryLock, Lockable
<1>4. ASSUME NEW p \in Procs, Refused(p) PROVE IInv'
  BY <1>4 DEF Refused, Closed
<1>5. ASSUME NEW p \in Procs, WriteRecord(p) PROVE IInv'
  BY <1>5 DEF WriteRecord
<1>6. ASSUME NEW p \in Procs, Hydrate(p) PROVE IInv'
  BY <1>6 DEF Hydrate, MayHydrate, Fresh
<1>7. ASSUME NEW p \in Procs, Commit(p) PROVE IInv'
  <2>1. ~exited /\ p \in Locking => \A q \in Locking \ {p} : ~At(q, "open")
    BY <1>7, Excludes DEF Commit, ExclusiveUntilExit, MutualExclusion
  <2>2. QED BY <1>7, <2>1 DEF Commit
<1>8. ASSUME NEW p \in Procs, Unlock(p) PROVE IInv'
  BY <1>8 DEF Unlock, Unlocked, Fresh
<1>9. ASSUME NEW p \in Procs, Unlink(p) PROVE IInv'
  BY <1>9 DEF Unlink, Closed
<1>10. ASSUME NEW p \in Procs, Kill(p) PROVE IInv'
  BY <1>10 DEF Kill, Killed, Unlocked, Closed, Fresh
<1>11. CASE UNCHANGED vars
  BY <1>11 DEF vars
<1>12. QED
  BY <1>1, <1>2, <1>3, <1>4, <1>5, <1>6, <1>7, <1>8, <1>9, <1>10, <1>11 DEF Next

\* Every step keeps the variables in their types.
THEOREM WriterTypes == Spec => []TypeOK
<1>1. Spec => []IInv
  BY InitHolds, StepHolds, PTL DEF Spec
<1>2. IInv => TypeOK
  BY DEF IInv
<1>3. QED BY <1>1, <1>2, PTL

\* However many processes are started and killed on a database file, at most
\* one that uses the lock is behind it, until a guard is dropped.
THEOREM WriterExclusion == Spec => []ExclusiveUntilExit
<1>1. Spec => []IInv
  BY InitHolds, StepHolds, PTL DEF Spec
<1>2. QED BY <1>1, Excludes, PTL

\* Nor does one of them ever hold a graph that misses a write of another that
\* uses the lock.
THEOREM WriterFreshness == Spec => []FreshUntilExit
<1>1. Spec => []IInv
  BY InitHolds, StepHolds, PTL DEF Spec
<1>2. IInv => FreshUntilExit
  BY DEF IInv
<1>3. QED BY <1>1, <1>2, PTL

\* The lock file names the process behind the lock, as long as every other one
\* was refused or killed.
THEOREM WriterRecorded == Spec => []RecordNamesHolder
<1>1. Spec => []IInv
  BY InitHolds, StepHolds, PTL DEF Spec
<1>2. IInv => RecordNamesHolder
  BY DEF IInv
<1>3. QED BY <1>1, <1>2, PTL

\* A lock file without a living owner never refuses an acquire.
THEOREM WriterProgress == Spec => []LeftoverNeverBlocks
<1>1. Spec => []IInv
  BY InitHolds, StepHolds, PTL DEF Spec
<1>2. IInv => LeftoverNeverBlocks
  BY DEF IInv
<1>3. QED BY <1>1, <1>2, PTL
=============================================================================
