----------------------------- MODULE WorldStore -----------------------------
(***************************************************************************)
(* The shared world graph and its write-back to SQLite.                    *)
(*                                                                         *)
(* SharedWorld is one mutex around a map of objects and a DirtyTracker.    *)
(* Commands change objects under the mutex and mark them dirty; a task     *)
(* that persists takes the dirty set, releases the mutex, and writes a     *)
(* snapshot to SQLite in one transaction whose rows are guarded by a       *)
(* revision compare-and-swap.  Every step below is what one task does      *)
(* between two points where it awaits the mutex or the database.           *)
(*                                                                         *)
(* An object is abstracted to the number of its last modification (ver),   *)
(* the units a stackable item holds (qty) and its optimistic-lock revision *)
(* (rev).  ver is what tells an old content from a new one.                *)
(***************************************************************************)
EXTENDS Naturals, Sequences, FiniteSetsExt

CONSTANTS
    Objects,      \* object ids
    Tasks,        \* tasks that hold a clone of the SharedWorld handle
    Absent,       \* no entry in the graph, or no row in the table
    NoTask,       \* nobody holds the mutex across an await
    InitRows,     \* objects stored when the process first starts
    Deleted,      \* those of them that are soft-deleted
    Resaved,      \* those of them that were stored twice before
    InitQty,      \* units every stored object holds at the start
    Ops,          \* the graph operations in play
    Faults,       \* the database calls that may fail
    Retries,      \* DEFAULT_SAVE_RETRIES
    MaxVer,       \* bound: modifications of one object
    MaxFailures,  \* bound: failing database calls
    MaxCrashes    \* bound: crashes of the process

OpKinds == {"touch", "transfer", "spawn", "split", "merge", "persist_all", "ensure"}
FaultKinds == {"batch", "reload", "single", "load"}

ASSUME WorldStoreAssumption ==
    /\ IsFiniteSet(Objects)
    /\ Absent \notin [ver : Nat, qty : Nat, rev : Nat]
    /\ NoTask \notin Tasks
    /\ Deleted \subseteq InitRows
    /\ Resaved \subseteq InitRows
    /\ InitRows \subseteq Objects
    /\ InitQty \in Nat
    /\ Ops \subseteq OpKinds
    /\ Faults \subseteq FaultKinds
    /\ Retries \in Nat \ {0}
    /\ MaxVer \in Nat
    /\ MaxFailures \in Nat
    /\ MaxCrashes \in Nat

VARIABLES
    graph,     \* WorldState.objects
    dirty,     \* WorldState.dirty
    db,        \* the rows of the objects table
    holder,    \* the task inside flush_dirty, which keeps the mutex across I/O
    task,      \* what each task is in the middle of
    last,      \* history: number of the last modification of each object
    dropped,   \* history: ids an error return left unmarked and unsaved
    failures,  \* failing database calls so far
    crashes    \* crashes so far

vars == <<graph, dirty, db, holder, task, last, dropped, failures, crashes>>

Entry == [ver : Nat, qty : Nat, rev : Nat]
Slot == Entry \cup {Absent}

Steps == {"idle", "persist", "snap", "save", "apply", "remark", "reload", "refresh", "giveup",
          "fsave", "freload", "single", "sinsert", "sreload", "fullsave", "fullapply",
          "load", "cache"}

\* What a task keeps in its locals: the ids it is saving, in the order of its
\* Vec, the clones it writes, the revision zip() pairs with each id (0: none),
\* the failed attempts of its retry loop, the id of a conflict or of an
\* ensure_object, the row it loaded, its position in a one-by-one save.
NoSnap == [o \in Objects |-> Absent]
NoMetas == [o \in Objects |-> 0]
Idle == [pc |-> "idle", pending |-> <<>>, snap |-> NoSnap, metas |-> NoMetas,
         tries |-> 0, id |-> Absent, row |-> Absent, at |-> 1]

InitTable == [o \in Objects |->
    IF o \in InitRows
    THEN [ver |-> 1, qty |-> InitQty, rev |-> IF o \in Resaved THEN 2 ELSE 1]
    ELSE Absent]

\* list_objects(false): soft-deleted rows stay out of the graph.
Hydrate(table) == [o \in Objects |-> IF o \in Deleted THEN Absent ELSE table[o]]

Init ==
    /\ db = InitTable
    /\ graph = Hydrate(InitTable)
    /\ dirty = {}
    /\ holder = NoTask
    /\ task = [t \in Tasks |-> Idle]
    /\ last = [o \in Objects |-> IF o \in InitRows THEN 1 ELSE 0]
    /\ dropped = {}
    /\ failures = 0
    /\ crashes = 0

(***************************************************************************)
(* Mutations of the graph, each under one hold of the mutex.  The task     *)
(* that runs the command persists after it (IrcBot::deliver).              *)
(***************************************************************************)

Unheld == holder = NoTask
Present(o) == graph[o] # Absent
Fresh(o) == last[o] + 1

At(t, step) == task[t].pc = step
Become(t, r) == task' = [task EXCEPT ![t] = r]
Finish(t) == Become(t, Idle)

\* DirtyTracker::mark, which upsert_object and object_mut call, and mark_many.
\* (Mutant: the marks are forgotten.)
NoMark(S) == dirty
Mark(S) == dirty \cup S
MarkMany(S) == dirty \cup S

\* The objects of S get new contents c and are marked.
Mutate(t, S, c) ==
    /\ Unheld
    /\ At(t, "idle") \/ At(t, "persist")
    /\ \A o \in S : last[o] < MaxVer
    /\ graph' = [o \in Objects |-> IF o \in S THEN c[o] ELSE graph[o]]
    /\ last' = [o \in Objects |-> IF o \in S THEN Fresh(o) ELSE last[o]]
    /\ dirty' = Mark(S)
    /\ dropped' = dropped \ S
    /\ Become(t, [task[t] EXCEPT !.pc = "persist"])
    /\ UNCHANGED <<db, holder, failures, crashes>>

\* object_mut: the caller changes something of one object.
Touch(t, o) ==
    /\ "touch" \in Ops
    /\ Present(o)
    /\ Mutate(t, {o}, [x \in {o} |-> [graph[x] EXCEPT !.ver = Fresh(x)]])

\* merge_stack_units with units left behind: one unit goes from s to d.
Transfer(t, s, d) ==
    /\ "transfer" \in Ops
    /\ s # d /\ Present(s) /\ Present(d)
    /\ graph[s].qty > 1 /\ graph[d].qty > 0
    /\ Mutate(t, {s, d}, [x \in {s, d} |->
           [graph[x] EXCEPT !.ver = Fresh(x), !.qty = IF x = s THEN @ - 1 ELSE @ + 1]])

\* upsert_object of a new object: object_persistence_defaults has revision 0.
Spawn(t, n) ==
    /\ "spawn" \in Ops
    /\ ~Present(n) /\ db[n] = Absent
    /\ Mutate(t, {n}, [x \in {n} |-> [ver |-> Fresh(x), qty |-> InitQty, rev |-> 0]])

\* partial_stack_transfer: the new stack is a clone of its source, with the
\* source's revision, under an id split_stack_id finds free in the graph.
Split(t, s, n) ==
    /\ "split" \in Ops
    /\ Present(s) /\ ~Present(n)
    /\ graph[s].qty > 1
    /\ Mutate(t, {s, n}, [x \in {s, n} |->
           [ver |-> Fresh(x), qty |-> IF x = s THEN graph[s].qty - 1 ELSE 1,
            rev |-> graph[s].rev]])

\* merge_stack_units of the whole stack: the source leaves the map, yet
\* move_object marks it dirty with the rest of what it touched.
Merge(t, s, d) ==
    /\ "merge" \in Ops
    /\ s # d /\ Present(s) /\ Present(d)
    /\ graph[s].qty > 0 /\ graph[d].qty > 0
    /\ Mutate(t, {s, d}, [x \in {s, d} |->
           IF x = s THEN Absent
           ELSE [graph[d] EXCEPT !.ver = Fresh(d), !.qty = @ + graph[s].qty]])

(***************************************************************************)
(* The database calls.                                                     *)
(***************************************************************************)

Ids(q) == {q[i] : i \in DOMAIN q}
Pend(t) == Ids(task[t].pending)

\* The orders a HashSet of ids may be iterated in.
Orders(S) == {q \in [1..Cardinality(S) -> S] : Ids(q) = S}

\* save_objects_batch of the clones s of the ids q: absent ids are filtered out.
Written(q, s) == {i \in DOMAIN q : s[q[i]] # Absent}

\* Mutant: the UPDATE loses its revision guard.
StaleNever(o, s) == FALSE

\* A row that exists is updated only WHERE revision = expected.
Stale(o, s) == db[o] # Absent /\ db[o].rev # s[o].rev
Conflicts(q, s) == {i \in Written(q, s) : Stale(q[i], s)}
NewRev(o, s) == IF db[o] = Absent THEN 1 ELSE s[o].rev + 1

\* Mutant: the first row is written outside a transaction.
CommitFirst(q, s) ==
    db' = [o \in Objects |->
        IF o = q[1] /\ s[o] # Absent
        THEN [s[o] EXCEPT !.rev = NewRev(o, s)]
        ELSE db[o]]

\* The transaction commits every row or none.
Commit(q, s) ==
    db' = [o \in Objects |->
        IF o \in Ids(q) /\ s[o] # Absent
        THEN [s[o] EXCEPT !.rev = NewRev(o, s)]
        ELSE db[o]]

\* pending.iter().zip(metas): the k-th id gets the revision of the k-th row
\* that was written, which is not its own when an earlier id was filtered out.
Paired(q, s, i, k) ==
    i \in Written(q, s) /\ Cardinality({j \in 1..i : s[q[j]] # Absent}) = k
Zipped(q, s) == [o \in Objects |->
    IF \E i, k \in DOMAIN q : q[k] = o /\ Paired(q, s, i, k)
    THEN LET i == CHOOSE i \in DOMAIN q : \E k \in DOMAIN q : q[k] = o /\ Paired(q, s, i, k)
         IN NewRev(q[i], s)
    ELSE 0]

\* apply_save_metadata for every pair.
WithMetas(m) == [o \in Objects |->
    IF m[o] # 0 /\ Present(o) THEN [graph[o] EXCEPT !.rev = m[o]] ELSE graph[o]]

Clones(q) == [o \in Objects |-> IF o \in Ids(q) THEN graph[o] ELSE Absent]

\* The call returns an error that is not a revision conflict.
Fails(kind) ==
    /\ kind \in Faults
    /\ failures < MaxFailures
    /\ failures' = failures + 1

(***************************************************************************)
(* SharedWorld::persist_changes: the mutex is free during the I/O.         *)
(***************************************************************************)

Take(t) ==
    /\ Unheld /\ At(t, "persist")
    /\ IF dirty = {}
       THEN Finish(t)
       ELSE \E q \in Orders(dirty) :
              Become(t, [task[t] EXCEPT !.pc = "snap", !.pending = q])
    /\ dirty' = {}
    /\ UNCHANGED <<graph, db, holder, last, dropped, failures, crashes>>

\* Ids no longer in the graph are skipped; with none left it returns Ok(0).
Snapshot(t) ==
    /\ Unheld /\ At(t, "snap")
    /\ LET s == Clones(task[t].pending) IN
         IF Written(task[t].pending, s) = {}
         THEN Finish(t)
         ELSE Become(t, [task[t] EXCEPT !.pc = "save", !.snap = s])
    /\ UNCHANGED <<graph, dirty, db, holder, last, dropped, failures, crashes>>

Save(t) ==
    /\ At(t, "save")
    /\ LET q == task[t].pending
           s == task[t].snap
       IN \/ /\ Conflicts(q, s) = {}
             /\ Commit(q, s)
             /\ Become(t, [task[t] EXCEPT !.pc = "apply", !.metas = Zipped(q, s)])
          \/ \E i \in Conflicts(q, s) :
               /\ \A j \in Conflicts(q, s) : i <= j
               /\ Become(t, [task[t] EXCEPT !.pc = "reload", !.id = q[i]])
               /\ UNCHANGED db
    /\ UNCHANGED <<graph, dirty, holder, last, dropped, failures, crashes>>

SaveFails(t) ==
    /\ At(t, "save") /\ Fails("batch")
    /\ Become(t, [task[t] EXCEPT !.pc = "remark"])
    /\ UNCHANGED <<graph, dirty, db, holder, last, dropped, crashes>>

Apply(t) ==
    /\ Unheld /\ At(t, "apply")
    /\ graph' = WithMetas(task[t].metas)
    /\ Finish(t)
    /\ UNCHANGED <<dirty, db, holder, last, dropped, failures, crashes>>

Remark(t) ==
    /\ Unheld /\ At(t, "remark")
    /\ dirty' = MarkMany(Pend(t))
    /\ Finish(t)
    /\ UNCHANGED <<graph, db, holder, last, dropped, failures, crashes>>

Reload(t) ==
    /\ At(t, "reload")
    /\ Become(t, [task[t] EXCEPT !.pc = "refresh", !.row = db[task[t].id]])
    /\ UNCHANGED <<graph, dirty, db, holder, last, dropped, failures, crashes>>

\* load_object(id).await? returns at once: what was taken is not marked again.
ReloadFails(t) ==
    /\ At(t, "reload") /\ Fails("reload")
    /\ dropped' = dropped \cup Pend(t)
    /\ Finish(t)
    /\ UNCHANGED <<graph, dirty, db, holder, last, crashes>>

\* object_mut marks the id, then refresh_revision_from_db: local content wins.
Refresh(t) ==
    /\ Unheld /\ At(t, "refresh")
    /\ LET o == task[t].id IN
         /\ dirty' = Mark({o})
         /\ graph' = IF Present(o) THEN [graph EXCEPT ![o].rev = task[t].row.rev] ELSE graph
    /\ Become(t, [task[t] EXCEPT
         !.pc = IF task[t].tries + 1 < Retries THEN "snap" ELSE "giveup",
         !.tries = @ + 1, !.id = Absent, !.row = Absent, !.snap = NoSnap])
    /\ UNCHANGED <<db, holder, last, dropped, failures, crashes>>

(***************************************************************************)
(* After the retries: mark everything again and flush_dirty without        *)
(* letting go of the mutex.                                                *)
(***************************************************************************)

GiveUp(t) ==
    /\ Unheld /\ At(t, "giveup")
    /\ \E q \in Orders(MarkMany(Pend(t))) :
         LET s == Clones(q) IN
           IF Written(q, s) = {}
           THEN Finish(t) /\ UNCHANGED holder
           ELSE /\ holder' = t
                /\ Become(t,
                     [Idle EXCEPT !.pc = "fsave", !.pending = q, !.snap = s])
    /\ dirty' = {}
    /\ UNCHANGED <<graph, db, last, dropped, failures, crashes>>

\* The guard is dropped. (Mutant: it is not.)
Keep(t) == UNCHANGED holder /\ Finish(t)
Release(t) == holder' = NoTask /\ Finish(t)

FlushSave(t) ==
    /\ At(t, "fsave")
    /\ LET q == task[t].pending
           s == task[t].snap
       IN \/ /\ Conflicts(q, s) = {}
             /\ Commit(q, s)
             /\ graph' = WithMetas(Zipped(q, s))
             /\ Release(t)
          \/ \E i \in Conflicts(q, s) :
               /\ \A j \in Conflicts(q, s) : i <= j
               /\ Become(t, [task[t] EXCEPT !.pc = "freload", !.id = q[i]])
               /\ UNCHANGED <<graph, db, holder>>
    /\ UNCHANGED <<dirty, last, dropped, failures, crashes>>

FlushSaveFails(t) ==
    /\ At(t, "fsave") /\ Fails("batch")
    /\ dirty' = MarkMany(Pend(t))
    /\ Release(t)
    /\ UNCHANGED <<graph, db, last, dropped, crashes>>

FlushReload(t) ==
    /\ At(t, "freload")
    /\ LET o == task[t].id
           g == [graph EXCEPT ![o].rev = db[o].rev]
           n == task[t].tries + 1
       IN /\ graph' = g
          /\ Become(t, [task[t] EXCEPT
               !.pc = IF n < Retries THEN "fsave" ELSE "single",
               !.tries = IF n < Retries THEN n ELSE 0,
               !.id = Absent,
               !.snap = [@ EXCEPT ![o] = g[o]]])
    /\ UNCHANGED <<dirty, db, holder, last, dropped, failures, crashes>>

FlushReloadFails(t) ==
    /\ At(t, "freload") /\ Fails("reload")
    /\ dropped' = dropped \cup Pend(t)
    /\ Release(t)
    /\ UNCHANGED <<graph, dirty, db, last, crashes>>

(***************************************************************************)
(* persist_dirty's last resort: save_object_with_retry for one id after    *)
(* the other.  An error leaves the rest of the ids unmarked.               *)
(***************************************************************************)

Cur(t) == task[t].pending[task[t].at]
Rest(t) == {task[t].pending[i] : i \in {j \in DOMAIN task[t].pending : j >= task[t].at}}

\* (Mutants: the loop runs one id too far, or ends one id too early.)
BeforeLastId(t) == task[t].at + 1 >= Len(task[t].pending)
PastLastId(t) == task[t].at > Len(task[t].pending)
LastId(t) == task[t].at = Len(task[t].pending)
NextId(t) ==
    IF LastId(t)
    THEN Release(t)
    ELSE /\ Become(t, [task[t] EXCEPT !.pc = "single", !.at = @ + 1, !.tries = 0])
         /\ UNCHANGED holder

Drop(t) ==
    /\ dropped' = dropped \cup Rest(t)
    /\ Release(t)
    /\ UNCHANGED <<graph, dirty, db, last, crashes>>

SkipMissing(t) ==
    /\ At(t, "single") /\ ~Present(Cur(t))
    /\ NextId(t)
    /\ UNCHANGED <<graph, dirty, db, last, dropped, failures, crashes>>

\* The row changes and the revision of the object with it.
Stored(t) ==
    LET o == Cur(t)
        e == [graph[o] EXCEPT !.rev = NewRev(o, graph)]
    IN /\ db' = [db EXCEPT ![o] = e]
       /\ graph' = [graph EXCEPT ![o] = e]
       /\ NextId(t)
       /\ UNCHANGED <<dirty, last, dropped, failures, crashes>>

\* read_revision, then UPDATE ... WHERE revision = expected when there is a row.
SaveOne(t) ==
    /\ At(t, "single") /\ Present(Cur(t))
    /\ \/ db[Cur(t)] # Absent /\ ~Stale(Cur(t), graph) /\ Stored(t)
       \/ /\ db[Cur(t)] = Absent \/ Stale(Cur(t), graph)
          /\ Become(t, [task[t] EXCEPT !.pc = IF db[Cur(t)] = Absent THEN "sinsert" ELSE "sreload"])
          /\ UNCHANGED <<graph, dirty, db, holder, last, dropped, failures, crashes>>

\* INSERT: a row another task put there meanwhile is a constraint error.
InsertOne(t) ==
    /\ At(t, "sinsert")
    /\ \/ db[Cur(t)] = Absent /\ Stored(t)
       \/ db[Cur(t)] # Absent /\ Drop(t) /\ UNCHANGED failures

ReloadOne(t) ==
    /\ At(t, "sreload")
    /\ IF task[t].tries + 1 < Retries
       THEN /\ graph' = [graph EXCEPT ![Cur(t)].rev = db[Cur(t)].rev]
            /\ Become(t, [task[t] EXCEPT !.pc = "single", !.tries = @ + 1])
            /\ UNCHANGED <<dirty, db, holder, last, dropped, failures, crashes>>
       ELSE /\ graph' = [graph EXCEPT ![Cur(t)].rev = db[Cur(t)].rev]
            /\ dropped' = dropped \cup Rest(t)
            /\ Release(t)
            /\ UNCHANGED <<dirty, db, last, failures, crashes>>

SaveOneFails(t) ==
    /\ At(t, "single") \/ At(t, "sinsert") \/ At(t, "sreload")
    /\ Fails("single")
    /\ Drop(t)

(***************************************************************************)
(* SharedWorld::persist_all and SharedWorld::ensure_object.                *)
(***************************************************************************)

FullSnapshot(t) ==
    /\ "persist_all" \in Ops
    /\ Unheld /\ At(t, "persist")
    /\ \E q \in Orders({o \in Objects : Present(o)}) :
         /\ q # <<>>
         /\ Become(t, [task[t] EXCEPT !.pc = "fullsave", !.pending = q, !.snap = Clones(q)])
    /\ UNCHANGED <<graph, dirty, db, holder, last, dropped, failures, crashes>>

\* A conflict is returned to the caller like any other error.
FullSave(t) ==
    /\ At(t, "fullsave")
    /\ LET q == task[t].pending
           s == task[t].snap
       IN IF Conflicts(q, s) = {}
          THEN /\ Commit(q, s)
               /\ Become(t, [task[t] EXCEPT !.pc = "fullapply", !.metas = Zipped(q, s)])
          ELSE Finish(t) /\ UNCHANGED db
    /\ UNCHANGED <<graph, dirty, holder, last, dropped, failures, crashes>>

FullSaveFails(t) ==
    /\ At(t, "fullsave") /\ Fails("batch")
    /\ Finish(t)
    /\ UNCHANGED <<graph, dirty, db, holder, last, dropped, crashes>>

\* dirty_mut().clear() also forgets what was marked during the I/O.
FullApply(t) ==
    /\ Unheld /\ At(t, "fullapply")
    /\ graph' = WithMetas(task[t].metas)
    /\ dirty' = {}
    /\ Finish(t)
    /\ UNCHANGED <<db, holder, last, dropped, failures, crashes>>

Ensure(t, o) ==
    /\ "ensure" \in Ops
    /\ Unheld /\ At(t, "idle") /\ ~Present(o)
    /\ Become(t, [task[t] EXCEPT !.pc = "load", !.id = o])
    /\ UNCHANGED <<graph, dirty, db, holder, last, dropped, failures, crashes>>

Load(t) ==
    /\ At(t, "load")
    /\ IF db[task[t].id] = Absent
       THEN Finish(t)
       ELSE Become(t, [task[t] EXCEPT !.pc = "cache", !.row = db[task[t].id]])
    /\ UNCHANGED <<graph, dirty, db, holder, last, dropped, failures, crashes>>

LoadFails(t) ==
    /\ At(t, "load") /\ Fails("load")
    /\ Finish(t)
    /\ UNCHANGED <<graph, dirty, db, holder, last, dropped, crashes>>

\* cache_object, unless somebody put the object there during the read.
MayCache(o) == ~Present(o)
Cache(t) ==
    /\ Unheld /\ At(t, "cache")
    /\ graph' = IF MayCache(task[t].id)
                THEN [graph EXCEPT ![task[t].id] = task[t].row]
                ELSE graph
    /\ Finish(t)
    /\ UNCHANGED <<dirty, db, holder, last, dropped, failures, crashes>>

\* The process dies; the next one hydrates the graph from the active rows.
Crash ==
    /\ crashes < MaxCrashes
    /\ crashes' = crashes + 1
    /\ graph' = Hydrate(db)
    /\ dirty' = {}
    /\ holder' = NoTask
    /\ task' = [t \in Tasks |-> Idle]
    /\ dropped' = {}
    /\ UNCHANGED <<db, last, failures>>

Command(t) ==
    \/ \E o \in Objects : Touch(t, o) \/ Spawn(t, o)
    \/ \E s, d \in Objects : Transfer(t, s, d) \/ Split(t, s, d) \/ Merge(t, s, d)

PersistChanges(t) ==
    \/ Take(t) \/ Snapshot(t) \/ Save(t) \/ SaveFails(t) \/ Apply(t) \/ Remark(t)
    \/ Reload(t) \/ ReloadFails(t) \/ Refresh(t) \/ GiveUp(t)

FlushDirty(t) ==
    \/ FlushSave(t) \/ FlushSaveFails(t) \/ FlushReload(t) \/ FlushReloadFails(t)
    \/ SkipMissing(t) \/ SaveOne(t) \/ InsertOne(t) \/ ReloadOne(t) \/ SaveOneFails(t)

PersistAll(t) == FullSnapshot(t) \/ FullSave(t) \/ FullSaveFails(t) \/ FullApply(t)

EnsureObject(t) == (\E o \in Objects : Ensure(t, o)) \/ Load(t) \/ LoadFails(t) \/ Cache(t)

Next ==
    \/ \E t \in Tasks :
         Command(t) \/ PersistChanges(t) \/ FlushDirty(t) \/ PersistAll(t) \/ EnsureObject(t)
    \/ Crash

Spec == Init /\ [][Next]_vars

\* A task that began goes on: no await in it waits for anything but the mutex
\* and the database, and both are released or answered.
Fairness == \A t \in Tasks :
    WF_vars(PersistChanges(t) \/ FlushDirty(t) \/ FullSave(t) \/ FullApply(t)
            \/ Load(t) \/ Cache(t))
FairSpec == Spec /\ Fairness

(***************************************************************************)
(* Properties.                                                             *)
(***************************************************************************)

TakenSteps == {"snap", "save", "remark", "reload", "refresh", "giveup", "fsave", "freload"}
SingleSteps == {"single", "sinsert", "sreload"}

TaskState ==
    [pc : Steps, pending : Seq(Objects), snap : [Objects -> Slot], metas : [Objects -> Nat],
     tries : Nat, id : Objects \cup {Absent}, row : Slot, at : Nat]

\* Every variable has its type, failures and crashes stay within their bounds,
\* and a row-by-row save (save_objects_batch_with_retry) is at one of its ids.
TypeOK ==
    /\ graph \in [Objects -> Slot]
    /\ db \in [Objects -> Slot]
    /\ dirty \subseteq Objects
    /\ dropped \subseteq Objects
    /\ holder \in Tasks \cup {NoTask}
    /\ task \in [Tasks -> TaskState]
    /\ \A t \in Tasks : task[t].pc \in SingleSteps => task[t].at \in DOMAIN task[t].pending
    /\ last \in [Objects -> Nat]
    /\ failures \in 0..MaxFailures
    /\ crashes \in 0..MaxCrashes

\* The graph holds a modification of o the table does not have.
Unsaved(o) == Present(o) /\ (db[o] = Absent \/ db[o].ver # graph[o].ver)

\* Task t took o from the tracker and has not written it yet.
InFlight(t, o) ==
    \/ task[t].pc \in TakenSteps /\ o \in Pend(t)
    \/ task[t].pc \in SingleSteps /\ o \in Rest(t)

Tracked(o) == o \in dirty \/ \E t \in Tasks : InFlight(t, o)

\* DirtyTracker "tracks which objects have been modified since the last
\* persist": a modification that is not in the table is marked, or some task
\* is about to write it, unless a database call failed: it is forgotten only
\* by an error return that leaves its ids unmarked.
OnlyErrorsForget == \A o \in Objects : Unsaved(o) => Tracked(o) \/ o \in dropped

\* What is in memory and in the table, told apart by the last modification.
Version(e) == IF e = Absent THEN 0 ELSE e.ver
InMemory == [o \in Objects |-> Version(graph[o])]
OnDisk == [o \in Objects |-> Version(db[o])]

\* persist_changes, flush_dirty, persist_all and ensure_object together are a
\* write-behind store: concurrent saves lose no update (the revision guard
\* never lets a row go back to an older content), what is written was in
\* memory, nothing in memory is replaced by something older, and what is
\* loaded, or hydrated after a crash, is what the table has at that moment.
WB == INSTANCE WriteBehind WITH mem <- InMemory, disk <- OnDisk
WritesBehind == WB!Spec

AtRest == dirty = {} /\ \A t \in Tasks : At(t, "idle")

SameContent(x, y) ==
    IF x = Absent \/ y = Absent THEN x = y ELSE x.ver = y.ver /\ x.qty = y.qty

\* Persist and reload give the same graph: with nothing dirty and no task
\* working, hydrate_world would find exactly the active objects in memory.
ReloadIdentical ==
    AtRest /\ dropped = {} =>
        \A o \in Objects \ Deleted : SameContent(graph[o], db[o])

\* The units in the rows of the table, or in the graph.
Units(table) == [o \in Objects |-> IF table[o] = Absent THEN 0 ELSE table[o].qty]
UnitsIn(table) == MapThenSumSet(LAMBDA o : Units(table)[o], Objects)

\* Goods move between objects and a save never leaves some of them out: when a
\* transaction of persist_changes, flush_dirty or persist_all went through, a
\* crash finds at least the units in the rows that are in memory (the row of a
\* merged stack may hold them again).  Not so once an error left changed ids
\* unmarked, nor between the ids that are saved one by one as the last resort.
InOneTransaction == \A t \in Tasks : task[t].pc \notin SingleSteps
GoodsNeverLost ==
    [][db' # db /\ dropped = {} /\ InOneTransaction => UnitsIn(db') >= UnitsIn(graph)]_vars

\* While no database call fails, nothing modified stays unsaved for ever.
EventuallySaved == [](failures = 0) => <>[](\A o \in Objects : ~Unsaved(o))
====
