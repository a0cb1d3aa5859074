----------------------------- MODULE WriterLock -----------------------------
(***************************************************************************)
(* WriterGuard: the advisory lock that keeps a second front end (REPL or   *)
(* IRC) off a database file, because each process hydrates a graph of its  *)
(* own and writes it back.                                                 *)
(*                                                                         *)
(* acquire opens or creates the lock file, tries flock on what it opened,  *)
(* and writes who it is into it; dropping the guard unlocks and then       *)
(* removes whatever file has that name.  flock belongs to the file that    *)
(* was opened, not to the name, and the kernel drops it when a process     *)
(* dies.  Every action is one system call.                                 *)
(***************************************************************************)
EXTENDS Naturals, FiniteSets

CONSTANTS
    Procs,     \* front-end processes started on one DATABASE_URL
    Disabled,  \* those with MUDL_SINGLE_WRITER_ENABLED=0
    Inodes,    \* files the lock path may name; a freed one is used again
    NoFile,    \* the path names no file, or no file is open
    NoProc     \* nobody

ASSUME WriterLockAssumption ==
    /\ Disabled \subseteq Procs
    /\ NoFile \notin Inodes
    /\ NoProc \notin Procs

VARIABLES
    path,    \* the file the lock path names
    fd,      \* the lock file each process has open
    owner,   \* who has each file flocked
    record,  \* the WriterLockRecord in each file: who wrote it
    pc,      \* where each process is
    stale,   \* the processes whose writes each one's graph misses
    exited   \* history: some guard was dropped

vars == <<path, fd, owner, record, pc, stale, exited>>

Steps == {"out", "opened", "locked", "acquired", "open", "unlinking"}

\* flock is held from try_lock_exclusive to unlock.
Held == {"locked", "acquired", "open"}

Init ==
    /\ path = NoFile
    /\ fd = [p \in Procs |-> NoFile]
    /\ owner = [i \in Inodes |-> NoProc]
    /\ record = [i \in Inodes |-> NoProc]
    /\ pc = [p \in Procs |-> "out"]
    /\ stale = [p \in Procs |-> {}]
    /\ exited = FALSE

At(p, step) == pc[p] = step
Goto(p, step) == pc' = [pc EXCEPT ![p] = step]

Closed(p) == [fd EXCEPT ![p] = NoFile]

Free(i) == path # i /\ \A p \in Procs : fd[p] # i

(***************************************************************************)
(* WriterGuard::acquire                                                    *)
(***************************************************************************)

\* noop(): neither a file nor a lock.
Skip(p) ==
    /\ p \in Disabled /\ At(p, "out")
    /\ Goto(p, "acquired")
    /\ UNCHANGED <<path, fd, owner, record, stale, exited>>

OpenFile(p) ==
    /\ p \notin Disabled /\ At(p, "out")
    /\ IF path # NoFile
       THEN /\ fd' = [fd EXCEPT ![p] = path]
            /\ UNCHANGED <<path, record>>
       ELSE \E i \in Inodes :
              /\ Free(i)
              /\ path' = i
              /\ fd' = [fd EXCEPT ![p] = i]
              /\ record' = [record EXCEPT ![i] = NoProc]
    /\ Goto(p, "opened")
    /\ UNCHANGED <<owner, stale, exited>>

\* Mutant: a shared lock.
Shared(i) == TRUE
Lockable(i) == owner[i] = NoProc

TryLock(p) ==
    /\ At(p, "opened") /\ Lockable(fd[p])
    /\ owner' = [owner EXCEPT ![fd[p]] = p]
    /\ Goto(p, "locked")
    /\ UNCHANGED <<path, fd, record, stale, exited>>

\* WriterLockError: the process stops.
Refused(p) ==
    /\ At(p, "opened") /\ ~Lockable(fd[p])
    /\ fd' = Closed(p)
    /\ Goto(p, "out")
    /\ UNCHANGED <<path, owner, record, stale, exited>>

WriteRecord(p) ==
    /\ At(p, "locked")
    /\ record' = [record EXCEPT ![fd[p]] = p]
    /\ Goto(p, "acquired")
    /\ UNCHANGED <<path, fd, owner, stale, exited>>

(***************************************************************************)
(* The process opens the database behind the guard, hydrates, and writes.  *)
(***************************************************************************)

\* A graph that is new, or gone, misses nothing.
Fresh(p) == [stale EXCEPT ![p] = {}]

\* Mutant: the world is opened before the lock is granted.
BeforeLock(p) == pc[p] \in {"opened", "acquired"}
MayHydrate(p) == At(p, "acquired")

Hydrate(p) ==
    /\ MayHydrate(p)
    /\ stale' = Fresh(p)
    /\ Goto(p, "open")
    /\ UNCHANGED <<path, fd, owner, record, exited>>

Commit(p) ==
    /\ At(p, "open")
    /\ stale' = [q \in Procs |-> IF q # p /\ At(q, "open") THEN stale[q] \cup {p} ELSE stale[q]]
    /\ UNCHANGED <<path, fd, owner, record, pc, exited>>

(***************************************************************************)
(* Drop for WriterGuard, at the end of main or on its error returns, and   *)
(* the end of a process that runs no destructor.                           *)
(***************************************************************************)

Unlocked(p) == [i \in Inodes |-> IF owner[i] = p THEN NoProc ELSE owner[i]]

Unlock(p) ==
    /\ pc[p] \in {"acquired", "open"} /\ p \notin Disabled
    /\ owner' = Unlocked(p)
    /\ stale' = Fresh(p)
    /\ exited' = TRUE
    /\ Goto(p, "unlinking")
    /\ UNCHANGED <<path, fd, record>>

Unlink(p) ==
    /\ At(p, "unlinking")
    /\ path' = NoFile
    /\ fd' = Closed(p)
    /\ Goto(p, "out")
    /\ UNCHANGED <<owner, record, stale, exited>>

\* Mutant: like a lock that is only a file, it outlives its process.
KeepLock(p) == owner
Killed(p) == Unlocked(p)

Kill(p) ==
    /\ ~At(p, "out")
    /\ owner' = Killed(p)
    /\ fd' = Closed(p)
    /\ stale' = Fresh(p)
    /\ Goto(p, "out")
    /\ UNCHANGED <<path, record, exited>>

Next == \E p \in Procs :
    \/ Skip(p) \/ OpenFile(p) \/ TryLock(p) \/ Refused(p) \/ WriteRecord(p)
    \/ Hydrate(p) \/ Commit(p)
    \/ Unlock(p) \/ Unlink(p) \/ Kill(p)

Spec == Init /\ [][Next]_vars

(***************************************************************************)
(* Properties.                                                             *)
(***************************************************************************)

\* Every variable has its type, and a process that is out has closed its file.
TypeOK ==
    /\ path \in Inodes \cup {NoFile}
    /\ fd \in [Procs -> Inodes \cup {NoFile}]
    /\ owner \in [Inodes -> Procs \cup {NoProc}]
    /\ record \in [Inodes -> Procs \cup {NoProc}]
    /\ pc \in [Procs -> Steps]
    /\ stale \in [Procs -> SUBSET Procs]
    /\ exited \in BOOLEAN
    /\ \A p \in Procs : At(p, "out") => fd[p] = NoFile

Locking == Procs \ Disabled

\* Only one of REPL or IRC may use the same DATABASE_URL at a time (SEC-23).
MutualExclusion ==
    \A p, q \in Locking : pc[p] \in Held /\ pc[q] \in Held => p = q

\* As long as every process died without running the guard's destructor,
\* whatever files they left behind, two never hold the database together.
ExclusiveUntilExit == ~exited => MutualExclusion

\* And a process that took the lock has every write of the others in its
\* graph, but for the writes of those that opted out: it hydrates after the
\* last of them, behind the lock.
FreshUntilExit ==
    ~exited => \A p \in Locking : stale[p] \subseteq Disabled

\* A file left behind by a dead process does not keep the next one out: what
\* is locked is locked by a live process that is past its acquire.
LeftoverNeverBlocks ==
    \A i \in Inodes : owner[i] # NoProc => fd[owner[i]] = i /\ pc[owner[i]] \in Held

\* The operator who asks who holds the database finds the holder, once it
\* wrote its record.
RecordNamesHolder ==
    ~exited =>
        \A p \in Locking : pc[p] \in {"acquired", "open"} => path # NoFile /\ record[path] = p
====
