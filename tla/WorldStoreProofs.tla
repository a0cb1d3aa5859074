-------------------------- MODULE WorldStoreProofs --------------------------
(***************************************************************************)
(* What the write-back of the shared world guarantees for any number of    *)
(* objects, tasks, retries, failures and crashes.                          *)
(***************************************************************************)
EXTENDS WorldStore, FiniteSetTheorems, WellFoundedInduction, TLAPS

(***************************************************************************)
(* Type correctness needs to know where tasks are: a task that refers to a *)
(* row has seen one, and only the holder of the mutex is inside a flush.   *)
(***************************************************************************)

LockedSteps == {"fsave", "freload"} \cup SingleSteps

Located(t) ==
    /\ task[t].pc \in LockedSteps <=> holder = t
    /\ task[t].pc \in {"reload", "refresh", "freload", "load", "cache"} => task[t].id \in Objects
    /\ task[t].pc \in {"reload", "freload"} => db[task[t].id] # Absent
    /\ task[t].pc = "freload" => graph[task[t].id] # Absent
    /\ task[t].pc \in LockedSteps => task[t].at \in DOMAIN task[t].pending
    /\ task[t].pc \in {"fsave", "freload"} =>
         \A o \in Objects : task[t].snap[o] # Absent => graph[o] # Absent
    /\ task[t].pc \in {"refresh", "cache"} => task[t].row # Absent
    /\ task[t].pc \in {"sinsert", "sreload"} => graph[Cur(t)] # Absent
    /\ task[t].pc = "sreload" => db[Cur(t)] # Absent

TypeInv == TypeOK /\ \A t \in Tasks : Located(t)

LEMMA OrdersType ==
    ASSUME NEW S \in SUBSET Objects, NEW q \in Orders(S)
    PROVE  /\ q \in Seq(Objects)
           /\ Ids(q) = S
           /\ DOMAIN q = 1..Cardinality(S)
           /\ Cardinality(S) \in Nat
<1>1. IsFiniteSet(S) /\ Cardinality(S) \in Nat
  BY FS_Subset, FS_CardinalityType, WorldStoreAssumption
<1>2. q \in [1..Cardinality(S) -> S] /\ Ids(q) = S
  BY DEF Orders
<1>3. QED BY <1>1, <1>2

LEMMA IdleType == Idle \in TaskState
<1>1. NoSnap \in [Objects -> Slot] /\ NoMetas \in [Objects -> Nat] /\ "idle" \in Steps /\ Absent \in Slot
  BY DEF NoSnap, NoMetas, Steps, Slot
<1>2. QED BY <1>1 DEF Idle, TaskState

LEMMA InitType == Init => TypeInv
<1> SUFFICES ASSUME Init PROVE TypeInv
  OBVIOUS
<1> USE WorldStoreAssumption
<1>1. InitTable \in [Objects -> Slot] /\ Hydrate(InitTable) \in [Objects -> Slot]
  BY DEF InitTable, Hydrate, Slot, Entry
<1>2. TypeOK
  BY <1>1, IdleType DEF Init, TypeOK, Idle, SingleSteps
<1>3. ASSUME NEW t \in Tasks PROVE Located(t)
  BY DEF Init, Located, Idle, LockedSteps, SingleSteps
<1>4. QED BY <1>2, <1>3 DEF TypeInv

LEMMA TaskType ==
    ASSUME TypeInv, NEW t \in Tasks
    PROVE  /\ task[t] \in TaskState
           /\ Pend(t) \subseteq Objects
           /\ task[t].pc \in SingleSteps => Cur(t) \in Objects /\ Rest(t) \subseteq Objects
<1>1. task[t] \in TaskState /\ (task[t].pc \in SingleSteps => task[t].at \in DOMAIN task[t].pending)
  BY DEF TypeInv, TypeOK
<1>2. task[t].pending \in Seq(Objects)
  BY ONLY <1>1 DEF TaskState
<1>3. QED BY <1>1, <1>2 DEF Pend, Ids, Cur, Rest

LEMMA StepType ==
    ASSUME TypeInv, NEW t \in Tasks, NEW r \in TaskState, Become(t, r),
           graph' \in [Objects -> Slot], db' \in [Objects -> Slot],
           dirty' \subseteq Objects, dropped' \subseteq Objects,
           last' \in [Objects -> Nat], failures' \in 0..MaxFailures, crashes' = crashes,
           r.pc \in SingleSteps => r.at \in DOMAIN r.pending,
           \A o \in Objects : db[o] # Absent => db'[o] # Absent,
           holder \notin {NoTask, t} => graph' = graph,
           holder' = IF r.pc \in LockedSteps THEN t ELSE IF holder = t THEN NoTask ELSE holder,
           r.pc \in LockedSteps => holder \in {NoTask, t},
           Located(t)'
    PROVE  TypeInv'
<1> USE WorldStoreAssumption
<1>1. /\ task' \in [Tasks -> TaskState]
      /\ task'[t] = r
      /\ \A u \in Tasks : u # t => task'[u] = task[u]
  BY DEF Become, TypeInv, TypeOK
<1>2. TypeOK'
  <2>1. holder' \in Tasks \cup {NoTask}
    BY DEF TypeInv, TypeOK
  <2>2. \A u \in Tasks : task'[u].pc \in SingleSteps => task'[u].at \in DOMAIN task'[u].pending
    BY <1>1 DEF TypeInv, TypeOK
  <2>3. QED BY <1>1, <2>1, <2>2 DEF TypeInv, TypeOK
<1>3. ASSUME NEW u \in Tasks, u # t PROVE Located(u)'
  <2>1. task'[u] = task[u]
    BY <1>1, <1>3
  <2>2. Located(u)
    BY DEF TypeInv
  <2>3. task[u].pc \in LockedSteps <=> holder' = u
    BY <2>2, <1>3 DEF Located, TypeInv, TypeOK
  <2>4. task[u].pc \in LockedSteps => graph' = graph
    BY <2>2, <1>3 DEF Located
  <2>6. Cur(u)' = Cur(u)
    BY <2>1 DEF Cur
  <2>7. task[u].pc \in SingleSteps => Cur(u) \in Objects
    BY TaskType
  <2>8. QED
    BY <2>1, <2>2, <2>3, <2>4, <2>6, <2>7 DEF Located, LockedSteps, SingleSteps
<1>4. QED BY <1>2, <1>3 DEF TypeInv

LEMMA BecomeValue ==
    ASSUME TypeInv, NEW t \in Tasks, NEW r, Become(t, r)
    PROVE  task'[t] = r
BY DEF Become, TypeInv, TypeOK

LEMMA ClonesType ==
    ASSUME TypeInv, NEW q
    PROVE  Clones(q) \in [Objects -> Slot]
BY DEF Clones, TypeInv, TypeOK, Slot

LEMMA CommitType ==
    ASSUME TypeInv, NEW q, NEW s \in [Objects -> Slot], Commit(q, s)
    PROVE  /\ db' \in [Objects -> Slot]
           /\ \A o \in Objects : db[o] # Absent => db'[o] # Absent
BY WorldStoreAssumption DEF Commit, NewRev, TypeInv, TypeOK, Slot, Entry

LEMMA ZippedType ==
    ASSUME TypeInv, NEW q \in Seq(Objects), NEW s \in [Objects -> Slot]
    PROVE  Zipped(q, s) \in [Objects -> Nat]
<1> SUFFICES ASSUME NEW o \in Objects, \E i, k \in DOMAIN q : q[k] = o /\ Paired(q, s, i, k)
             PROVE  Zipped(q, s)[o] \in Nat
  BY DEF Zipped
<1> DEFINE i == CHOOSE i \in DOMAIN q : \E k \in DOMAIN q : q[k] = o /\ Paired(q, s, i, k)
<1>1. i \in DOMAIN q /\ s[q[i]] # Absent
  BY DEF Paired, Written
<1>2. q[i] \in Objects
  BY <1>1
<1>3. NewRev(q[i], s) \in Nat
  BY <1>1, <1>2 DEF NewRev, Slot, Entry
<1>4. QED BY <1>3 DEF Zipped

LEMMA MetasSet ==
    ASSUME NEW r \in TaskState, NEW p \in Steps, NEW m \in [Objects -> Nat]
    PROVE  /\ [r EXCEPT !.pc = p, !.metas = m] \in TaskState
           /\ [r EXCEPT !.pc = p, !.metas = m].pc = p
<1> DEFINE F == [Objects -> Nat]
           G == [Objects -> Slot]
           n == [r EXCEPT !.pc = p, !.metas = m]
<1>1. r \in [pc : Steps, pending : Seq(Objects), snap : G, metas : F,
             tries : Nat, id : Objects \cup {Absent}, row : Slot, at : Nat]
  BY DEF TaskState
<1>2. m \in F
  OBVIOUS
<1>3. SUFFICES n \in [pc : Steps, pending : Seq(Objects), snap : G, metas : F,
                      tries : Nat, id : Objects \cup {Absent}, row : Slot, at : Nat]
               /\ n.pc = p
  BY DEF TaskState
<1> HIDE DEF F, G
<1>4. QED BY <1>1, <1>2

LEMMA MetasType ==
    ASSUME TypeInv, NEW m \in [Objects -> Nat], graph' = WithMetas(m)
    PROVE  /\ graph' \in [Objects -> Slot]
           /\ \A o \in Objects : graph'[o] = Absent <=> graph[o] = Absent
BY WorldStoreAssumption DEF WithMetas, Present, TypeInv, TypeOK, Slot, Entry

LEMMA MutateType ==
    ASSUME TypeInv, NEW t \in Tasks, NEW S \in SUBSET Objects, NEW c,
           \A o \in S : c[o] \in Slot, Mutate(t, S, c)
    PROVE  TypeInv'
<1> USE WorldStoreAssumption DEF Mutate, Mark, Fresh, Unheld, At
<1> DEFINE r == [task[t] EXCEPT !.pc = "persist"]
<1>1. r \in TaskState /\ r.pc = "persist"
  <2>1. task[t] \in TaskState /\ "persist" \in Steps
    BY TaskType DEF Steps
  <2>2. QED BY ONLY <2>1 DEF TaskState
<1>2. graph' \in [Objects -> Slot] /\ last' \in [Objects -> Nat]
  BY DEF TypeInv, TypeOK
<1>3. task'[t] = r
  BY BecomeValue
<1>4. Located(t)'
  BY <1>1, <1>3 DEF Located, LockedSteps, SingleSteps, TypeInv, TypeOK
<1>5. ~(r.pc \in LockedSteps) /\ ~(r.pc \in SingleSteps)
  BY <1>1 DEF LockedSteps, SingleSteps
<1>6. Become(t, r)
  OBVIOUS
<1>7. QED
  <2> HIDE DEF r
  <2> QED BY <1>1, <1>2, <1>4, <1>5, <1>6, StepType DEF TypeInv, TypeOK

LEMMA FinishType ==
    ASSUME TypeInv, NEW t \in Tasks, Finish(t),
           graph' \in [Objects -> Slot], db' \in [Objects -> Slot],
           dirty' \subseteq Objects, dropped' \subseteq Objects,
           last' = last, failures' \in 0..MaxFailures, crashes' = crashes,
           \A o \in Objects : db[o] # Absent => db'[o] # Absent,
           holder \notin {NoTask, t} => graph' = graph,
           holder' = IF holder = t THEN NoTask ELSE holder
    PROVE  TypeInv'
<1>1. Idle.pc = "idle" /\ ~(Idle.pc \in LockedSteps) /\ ~(Idle.pc \in SingleSteps)
  BY DEF Idle, LockedSteps, SingleSteps
<1>2. task'[t] = Idle
  BY BecomeValue DEF Finish
<1>3. Located(t)'
  BY <1>1, <1>2, WorldStoreAssumption DEF Located, TypeInv, TypeOK
<1>4. last' \in [Objects -> Nat]
  BY DEF TypeInv, TypeOK
<1>5. QED
  BY <1>1, <1>3, <1>4, IdleType, StepType DEF Finish

\* A step of a task that stays outside the mutex and leaves the table alone.
LEMMA MoveType ==
    ASSUME TypeInv, NEW t \in Tasks, NEW r \in TaskState, Become(t, r),
           task[t].pc \notin LockedSteps, r.pc \notin LockedSteps,
           r.pc \in {"reload", "refresh", "load", "cache"} => r.id \in Objects,
           r.pc = "reload" => db[r.id] # Absent,
           r.pc \in {"refresh", "cache"} => r.row # Absent,
           graph' \in [Objects -> Slot], db' \in [Objects -> Slot], dirty' \subseteq Objects,
           \A o \in Objects : db[o] # Absent => db'[o] # Absent,
           holder # NoTask => graph' = graph,
           UNCHANGED <<holder, last, dropped, failures, crashes>>
    PROVE  TypeInv'
<1>1. holder # t
  BY DEF TypeInv, Located
<1>2. task'[t] = r
  BY BecomeValue
<1>3. Located(t)'
  BY <1>1, <1>2 DEF Located, LockedSteps, SingleSteps
<1>4. r.pc \notin SingleSteps
  BY DEF LockedSteps
<1>5. QED
  BY <1>1, <1>3, <1>4, StepType DEF TypeInv, TypeOK

\* Where a task stands decides whether it holds the mutex.
LEMMA Holding ==
    ASSUME TypeInv, NEW t \in Tasks
    PROVE  /\ task[t].pc \in {"fsave", "freload", "single", "sinsert", "sreload"} <=> holder = t
           /\ task[t].pc \notin LockedSteps <=> holder # t
BY DEF TypeInv, Located, LockedSteps, SingleSteps

LEMMA CommandType ==
    ASSUME TypeInv, NEW t \in Tasks, Command(t)
    PROVE  TypeInv'
<1> USE WorldStoreAssumption
<1>1. ASSUME NEW o \in Objects, Touch(t, o) PROVE TypeInv'
  <2> DEFINE c == [x \in {o} |-> [graph[x] EXCEPT !.ver = Fresh(x)]]
  <2>1. \A x \in {o} : c[x] \in Slot
    BY <1>1 DEF Touch, Present, Fresh, TypeInv, TypeOK, Slot, Entry
  <2>2. Mutate(t, {o}, c)
    BY <1>1 DEF Touch
  <2>3. QED
    <3> HIDE DEF c
    <3> QED BY <2>1, <2>2, MutateType
<1>2. ASSUME NEW n \in Objects, Spawn(t, n) PROVE TypeInv'
  <2> DEFINE c == [x \in {n} |-> [ver |-> Fresh(x), qty |-> InitQty, rev |-> 0]]
  <2>1. \A x \in {n} : c[x] \in Slot
    BY DEF Fresh, TypeInv, TypeOK, Slot, Entry
  <2>2. Mutate(t, {n}, c)
    BY <1>2 DEF Spawn
  <2>3. QED
    <3> HIDE DEF c
    <3> QED BY <2>1, <2>2, MutateType
<1>3. ASSUME NEW s \in Objects, NEW d \in Objects, Transfer(t, s, d) PROVE TypeInv'
  <2> DEFINE c == [x \in {s, d} |->
           [graph[x] EXCEPT !.ver = Fresh(x), !.qty = IF x = s THEN @ - 1 ELSE @ + 1]]
  <2>1. graph[s] \in Entry /\ graph[d] \in Entry /\ graph[s].qty > 1
    BY <1>3 DEF Transfer, Present, TypeInv, TypeOK, Slot
  <2>2. \A x \in Objects : Fresh(x) \in Nat
    BY DEF Fresh, TypeInv, TypeOK
  <2>3. c[s] \in Entry /\ c[d] \in Entry
    <3>1. graph[s].qty - 1 \in Nat /\ graph[d].qty + 1 \in Nat /\ s # d
      BY <1>3, <2>1 DEF Entry, Transfer
    <3>2. c[s] = [graph[s] EXCEPT !.ver = Fresh(s), !.qty = graph[s].qty - 1]
      OBVIOUS
    <3>3. c[d] = [graph[d] EXCEPT !.ver = Fresh(d), !.qty = graph[d].qty + 1]
      BY <3>1
    <3> HIDE DEF c
    <3>4. c[s] \in Entry
      BY <2>1, <2>2, <3>1, <3>2 DEF Entry
    <3>5. c[d] \in Entry
      BY <2>1, <2>2, <3>1, <3>3 DEF Entry
    <3>6. QED BY <3>4, <3>5
  <2>4. \A x \in {s, d} : c[x] \in Slot
    BY <2>3 DEF Slot
  <2>5. Mutate(t, {s, d}, c)
    BY <1>3 DEF Transfer
  <2>6. QED
    <3> HIDE DEF c
    <3> QED BY <2>4, <2>5, MutateType
<1>4. ASSUME NEW s \in Objects, NEW n \in Objects, Split(t, s, n) PROVE TypeInv'
  <2> DEFINE c == [x \in {s, n} |->
           [ver |-> Fresh(x), qty |-> IF x = s THEN graph[s].qty - 1 ELSE 1,
            rev |-> graph[s].rev]]
  <2>1. graph[s] \in Entry /\ graph[s].qty > 1
    BY <1>4 DEF Split, Present, TypeInv, TypeOK, Slot
  <2>2. \A x \in {s, n} : c[x] \in Slot
    <3>1. \A x \in Objects : Fresh(x) \in Nat
      BY DEF Fresh, TypeInv, TypeOK
    <3>2. graph[s].qty - 1 \in Nat /\ 1 \in Nat /\ graph[s].rev \in Nat
      BY <2>1 DEF Entry
    <3>3. ASSUME NEW x \in {s, n} PROVE c[x] \in Slot
      <4> DEFINE k == IF x = s THEN graph[s].qty - 1 ELSE 1
      <4>1. k \in Nat
        BY <3>2
      <4>2. c[x] = [ver |-> Fresh(x), qty |-> k, rev |-> graph[s].rev]
        OBVIOUS
      <4> HIDE DEF k, c
      <4>3. QED BY <3>1, <3>2, <4>1, <4>2 DEF Slot, Entry
    <3>4. QED BY <3>3
  <2>3. Mutate(t, {s, n}, c)
    BY <1>4 DEF Split
  <2>4. QED
    <3> HIDE DEF c
    <3> QED BY <2>2, <2>3, MutateType
<1>5. ASSUME NEW s \in Objects, NEW d \in Objects, Merge(t, s, d) PROVE TypeInv'
  <2> DEFINE c == [x \in {s, d} |->
           IF x = s THEN Absent
           ELSE [graph[d] EXCEPT !.ver = Fresh(d), !.qty = @ + graph[s].qty]]
  <2>1. graph[s] \in Entry /\ graph[d] \in Entry
    BY <1>5 DEF Merge, Present, TypeInv, TypeOK, Slot
  <2>2. \A x \in {s, d} : c[x] \in Slot
    <3>1. Fresh(d) \in Nat /\ graph[d].qty + graph[s].qty \in Nat
      BY <2>1 DEF Fresh, TypeInv, TypeOK, Entry
    <3>2. [graph[d] EXCEPT !.ver = Fresh(d), !.qty = graph[d].qty + graph[s].qty] \in Entry
      BY <2>1, <3>1 DEF Entry
    <3>3. QED BY <3>2 DEF Slot
  <2>3. Mutate(t, {s, d}, c)
    BY <1>5 DEF Merge
  <2>4. QED
    <3> HIDE DEF c
    <3> QED BY <2>2, <2>3, MutateType
<1>6. QED BY <1>1, <1>2, <1>3, <1>4, <1>5 DEF Command

LEMMA PersistChangesType ==
    ASSUME TypeInv, NEW t \in Tasks, PersistChanges(t)
    PROVE  TypeInv'
<1> USE WorldStoreAssumption, TaskType, Holding
<1>1. CASE Take(t)
  <2>1. CASE dirty = {}
    BY <1>1, <2>1, FinishType DEF Take, Unheld, At, TypeInv, TypeOK
  <2>2. CASE dirty # {}
    <3>1. PICK q \in Orders(dirty) : Become(t, [task[t] EXCEPT !.pc = "snap", !.pending = q])
      BY <1>1, <2>2 DEF Take
    <3> DEFINE r == [task[t] EXCEPT !.pc = "snap", !.pending = q]
    <3>2. q \in Seq(Objects)
      BY OrdersType DEF TypeInv, TypeOK
    <3>3. r \in TaskState /\ r.pc = "snap"
      <4>1. task[t] \in TaskState /\ "snap" \in Steps
        BY DEF Steps
      <4>2. QED BY ONLY <4>1, <3>2 DEF TaskState
    <3>4. QED
      <4> HIDE DEF r
      <4> QED BY <1>1, <3>1, <3>3, MoveType DEF r, Take, Unheld, At, TypeInv, TypeOK, LockedSteps, SingleSteps
  <2>3. QED BY <2>1, <2>2
<1>2. CASE Snapshot(t)
  <2> DEFINE s == Clones(task[t].pending)
             r == [task[t] EXCEPT !.pc = "save", !.snap = s]
  <2>1. CASE Finish(t)
    BY <1>2, <2>1, FinishType DEF Snapshot, Unheld, At, TypeInv, TypeOK
  <2>2. CASE Become(t, r)
    <3>1. r \in TaskState /\ r.pc = "save"
      <4>1. task[t] \in TaskState /\ "save" \in Steps /\ s \in [Objects -> Slot]
        BY ClonesType DEF Steps
      <4> HIDE DEF s
      <4>2. QED BY ONLY <4>1 DEF TaskState
    <3>2. QED
      <4> HIDE DEF r
      <4> QED BY <1>2, <2>2, <3>1, MoveType DEF Snapshot, Unheld, At, TypeInv, TypeOK, LockedSteps, SingleSteps
  <2>3. QED BY <1>2, <2>1, <2>2 DEF Snapshot
<1>3. CASE Save(t)
  <2> DEFINE q == task[t].pending
             s == task[t].snap
  <2>1. q \in Seq(Objects) /\ s \in [Objects -> Slot]
    BY DEF TaskState
  <2>2. CASE Commit(q, s) /\ Become(t, [task[t] EXCEPT !.pc = "apply", !.metas = Zipped(q, s)])
    <3> DEFINE r == [task[t] EXCEPT !.pc = "apply", !.metas = Zipped(q, s)]
    <3>1. r \in TaskState /\ r.pc = "apply"
      <4> DEFINE z == Zipped(q, s)
      <4>1. z \in [Objects -> Nat]
        BY <2>1, ZippedType
      <4>2. r = [task[t] EXCEPT !.pc = "apply", !.metas = z]
        OBVIOUS
      <4> HIDE DEF z, r
      <4>3. task[t] \in TaskState /\ "apply" \in Steps
        BY DEF Steps
      <4> QED BY ONLY <4>1, <4>2, <4>3, MetasSet
    <3>2. Become(t, r)
      BY <2>2
    <3>3. QED
      <4> HIDE DEF r
      <4> QED BY <1>3, <2>1, <2>2, <3>1, <3>2, CommitType, MoveType DEF Save, At, TypeInv, TypeOK, LockedSteps, SingleSteps
  <2>3. CASE \E i \in Conflicts(q, s) :
               Become(t, [task[t] EXCEPT !.pc = "reload", !.id = q[i]]) /\ UNCHANGED db
    <3>1. PICK i \in Conflicts(q, s) :
               Become(t, [task[t] EXCEPT !.pc = "reload", !.id = q[i]]) /\ UNCHANGED db
      BY <2>3
    <3> DEFINE r == [task[t] EXCEPT !.pc = "reload", !.id = q[i]]
    <3>2. q[i] \in Objects /\ db[q[i]] # Absent
      BY <2>1 DEF Conflicts, Written, Stale
    <3>3. r \in TaskState /\ r.pc = "reload" /\ r.id = q[i]
      <4>1. task[t] \in TaskState /\ "reload" \in Steps
        BY DEF Steps
      <4>2. QED BY ONLY <4>1, <3>2 DEF TaskState
    <3>4. Become(t, r)
      BY <3>1
    <3>5. QED
      <4> HIDE DEF r
      <4> QED BY <1>3, <3>1, <3>2, <3>3, <3>4, MoveType DEF Save, At, TypeInv, TypeOK, LockedSteps, SingleSteps
  <2>4. QED BY <1>3, <2>2, <2>3 DEF Save
<1>4. CASE SaveFails(t)
  <2> DEFINE r == [task[t] EXCEPT !.pc = "remark"]
  <2>1. r \in TaskState /\ r.pc = "remark" /\ Become(t, r)
    <3>1. task[t] \in TaskState /\ "remark" \in Steps
      BY DEF Steps
    <3>2. r \in TaskState /\ r.pc = "remark"
      BY ONLY <3>1 DEF TaskState
    <3>3. QED BY <1>4, <3>2 DEF SaveFails
  <2>2. failures' \in 0..MaxFailures
    BY <1>4 DEF SaveFails, Fails, TypeInv, TypeOK
  <2>3. r.pc \notin LockedSteps /\ r.pc \notin SingleSteps /\ holder # t
    BY <1>4, <2>1 DEF LockedSteps, SingleSteps, SaveFails, At
  <2>4. Located(t)'
    BY <2>1, <2>3, BecomeValue, <1>4 DEF Located, LockedSteps, SingleSteps, SaveFails
  <2>5. QED
    <3> HIDE DEF r
    <3> QED BY <1>4, <2>1, <2>2, <2>3, <2>4, StepType DEF SaveFails, TypeInv, TypeOK
<1>5. CASE Apply(t)
  <2>1. task[t].metas \in [Objects -> Nat]
    BY DEF TaskState
  <2>2. QED
    BY <1>5, <2>1, MetasType, FinishType DEF Apply, Unheld, At, TypeInv, TypeOK
<1>6. CASE Remark(t)
  BY <1>6, FinishType DEF Remark, MarkMany, Unheld, TypeInv, TypeOK
<1>7. CASE Reload(t)
  <2> DEFINE r == [task[t] EXCEPT !.pc = "refresh", !.row = db[task[t].id]]
  <2>1. task[t].id \in Objects /\ db[task[t].id] # Absent
    BY <1>7 DEF Reload, At, TypeInv, Located
  <2>2. r \in TaskState /\ r.pc = "refresh" /\ r.id \in Objects /\ r.row # Absent /\ Become(t, r)
    <3>1. db[task[t].id] \in Slot
      BY <2>1 DEF TypeInv, TypeOK
    <3> DEFINE e == db[task[t].id]
    <3>2. r = [task[t] EXCEPT !.pc = "refresh", !.row = e] /\ e \in Slot /\ e # Absent
      BY <2>1, <3>1
    <3> HIDE DEF e
    <3>3. r \in TaskState /\ r.pc = "refresh" /\ r.id = task[t].id /\ r.row = e
      <4> HIDE DEF r
      <4>1. task[t] \in TaskState /\ "refresh" \in Steps
        BY DEF Steps
      <4> QED BY ONLY <3>2, <4>1 DEF TaskState
    <3>4. Become(t, r)
      BY <1>7 DEF Reload
    <3> HIDE DEF r
    <3>5. QED BY <2>1, <3>2, <3>3, <3>4
  <2>3. QED
    <3> HIDE DEF r
    <3> QED BY <1>7, <2>2, MoveType DEF Reload, At, TypeInv, TypeOK, LockedSteps, SingleSteps
<1>8. CASE ReloadFails(t)
  BY <1>8, FinishType DEF ReloadFails, Fails, At, TypeInv, TypeOK
<1>9. CASE Refresh(t)
  <2> DEFINE r == [task[t] EXCEPT
         !.pc = IF task[t].tries + 1 < Retries THEN "snap" ELSE "giveup",
         !.tries = @ + 1, !.id = Absent, !.row = Absent, !.snap = NoSnap]
  <2>1. task[t].id \in Objects /\ task[t].row \in Entry
    BY <1>9 DEF Refresh, At, TypeInv, Located, TaskState, Slot
  <2>2. NoSnap \in [Objects -> Slot]
    BY DEF NoSnap, Slot
  <2>3. r \in TaskState /\ r.pc \in {"snap", "giveup"}
    <3> DEFINE pc == IF task[t].tries + 1 < Retries THEN "snap" ELSE "giveup"
    <3>1. pc \in {"snap", "giveup"} /\ pc \in Steps
      BY DEF Steps
    <3>2. task[t].tries + 1 \in Nat /\ Absent \in Slot
      BY DEF TaskState, Slot
    <3>3. r = [task[t] EXCEPT !.pc = pc,
         !.tries = @ + 1, !.id = Absent, !.row = Absent, !.snap = NoSnap]
      OBVIOUS
    <3> HIDE DEF pc
    <3>4. task[t] \in TaskState
      OBVIOUS
    <3>5. r \in TaskState /\ r.pc = pc
      <4> HIDE DEF r
      <4> QED BY ONLY <2>2, <3>1, <3>2, <3>3, <3>4 DEF TaskState
    <3>6. QED BY <3>1, <3>5
  <2>4. graph' \in [Objects -> Slot] /\ dirty' \subseteq Objects
    BY <1>9, <2>1 DEF Refresh, Mark, Present, TypeInv, TypeOK, Slot, Entry
  <2>5. Become(t, r)
    BY <1>9 DEF Refresh
  <2>6. QED
    <3> HIDE DEF r
    <3> QED BY <1>9, <2>3, <2>4, <2>5, MoveType DEF Refresh, At, Unheld, TypeInv, TypeOK, LockedSteps, SingleSteps
<1>10. CASE GiveUp(t)
  <2>1. dirty \cup Pend(t) \in SUBSET Objects
    BY DEF TypeInv, TypeOK
  <2>2. PICK q \in Orders(MarkMany(Pend(t))) :
          \/ Finish(t) /\ UNCHANGED holder
          \/ /\ holder' = t /\ Written(q, Clones(q)) # {}
             /\ Become(t, [Idle EXCEPT !.pc = "fsave", !.pending = q, !.snap = Clones(q)])
    BY <1>10 DEF GiveUp
  <2>3. CASE Finish(t) /\ UNCHANGED holder
    BY <1>10, <2>3, FinishType DEF GiveUp, At, Unheld, TypeInv, TypeOK
  <2>4. CASE /\ holder' = t /\ Written(q, Clones(q)) # {}
             /\ Become(t, [Idle EXCEPT !.pc = "fsave", !.pending = q, !.snap = Clones(q)])
    <3> DEFINE r == [Idle EXCEPT !.pc = "fsave", !.pending = q, !.snap = Clones(q)]
    <3>1. q \in Seq(Objects) /\ 1 \in DOMAIN q
      BY <2>1, <2>4, OrdersType DEF MarkMany, Written
    <3>2. r \in TaskState /\ r.pc = "fsave" /\ Become(t, r)
      BY <2>4, <3>1, ClonesType, IdleType DEF TaskState, Steps
    <3>6. \A o \in Objects : r.snap[o] # Absent => graph'[o] # Absent
      BY <1>10 DEF GiveUp, Clones
    <3>3. Located(t)'
      <4>1. r.at = 1 /\ r.pending = q
        BY DEF Idle
      <4> HIDE DEF r
      <4> QED BY <2>4, <3>1, <3>2, <3>6, <4>1, BecomeValue DEF Located, LockedSteps, SingleSteps
    <3>4. r.pc \in LockedSteps /\ r.pc \notin SingleSteps /\ holder = NoTask
      BY <1>10, <3>2 DEF LockedSteps, SingleSteps, GiveUp, Unheld
    <3>5. QED
      <4> HIDE DEF r
      <4> QED BY <1>10, <2>4, <3>2, <3>3, <3>4, StepType DEF GiveUp, TypeInv, TypeOK
  <2>5. QED BY <2>2, <2>3, <2>4
<1>11. QED
  BY <1>1, <1>2, <1>3, <1>4, <1>5, <1>6, <1>7, <1>8, <1>9, <1>10 DEF PersistChanges

\* The one-by-one save goes on to the next id or lets the mutex go.
LEMMA NextIdType ==
    ASSUME TypeInv, NEW t \in Tasks, NextId(t), holder = t, task[t].pc \in SingleSteps,
           graph' \in [Objects -> Slot], db' \in [Objects -> Slot],
           \A o \in Objects : db[o] # Absent => db'[o] # Absent,
           UNCHANGED <<dirty, last, dropped, failures, crashes>>
    PROVE  TypeInv'
<1> USE WorldStoreAssumption, TaskType
<1>1. CASE LastId(t)
  BY <1>1, FinishType DEF NextId, Release, TypeInv, TypeOK
<1>2. CASE ~LastId(t)
  <2> DEFINE r == [task[t] EXCEPT !.pc = "single", !.at = @ + 1, !.tries = 0]
  <2>1. Become(t, r) /\ UNCHANGED holder
    BY <1>2 DEF NextId
  <2>2. task[t].at \in DOMAIN task[t].pending /\ task[t].pending \in Seq(Objects)
    BY DEF TypeInv, TypeOK, TaskState
  <2>3. task[t].at + 1 \in DOMAIN task[t].pending
    BY <1>2, <2>2 DEF LastId
  <2>4. r \in TaskState
    <3>1. task[t] \in TaskState /\ task[t].at + 1 \in Nat /\ "single" \in Steps
      BY <2>2 DEF Steps
    <3>2. QED BY ONLY <3>1 DEF TaskState
  <2>5. r.pc = "single" /\ r.at \in DOMAIN r.pending
    <3>1. task[t] \in TaskState
      OBVIOUS
    <3>2. r.pc = "single" /\ r.at = task[t].at + 1 /\ r.pending = task[t].pending
      BY ONLY <3>1 DEF TaskState
    <3>3. QED BY <2>3, <3>2
  <2>6. r.pc \in LockedSteps
    BY <2>5 DEF LockedSteps, SingleSteps
  <2> HIDE DEF r
  <2>7. Located(t)'
    BY <2>1, <2>5, <2>6, BecomeValue DEF Located
  <2>8. QED BY <2>1, <2>4, <2>5, <2>6, <2>7, StepType DEF TypeInv, TypeOK
<1>3. QED BY <1>1, <1>2

LEMMA StoredType ==
    ASSUME TypeInv, NEW t \in Tasks, Stored(t), holder = t, task[t].pc \in SingleSteps,
           Cur(t) \in Objects, graph[Cur(t)] # Absent
    PROVE  TypeInv'
<1> USE WorldStoreAssumption
<1> DEFINE o == Cur(t)
           e == [graph[o] EXCEPT !.rev = NewRev(o, graph)]
<1>1. graph[o] \in Entry
  BY DEF TypeInv, TypeOK, Slot
<1>2. NewRev(o, graph) \in Nat
  BY <1>1 DEF NewRev, Entry
<1>3. e \in Entry
  BY <1>1, <1>2 DEF Entry
<1>4. db' = [db EXCEPT ![o] = e] /\ graph' = [graph EXCEPT ![o] = e] /\ NextId(t)
  BY DEF Stored
<1>5. UNCHANGED <<dirty, last, dropped, failures, crashes>>
  BY DEF Stored
<1> HIDE DEF e, o
<1>6. /\ graph' \in [Objects -> Slot] /\ db' \in [Objects -> Slot]
      /\ \A x \in Objects : db[x] # Absent => db'[x] # Absent
  BY <1>3, <1>4 DEF TypeInv, TypeOK, Slot, Entry
<1>7. QED BY <1>4, <1>5, <1>6, NextIdType

LEMMA FlushDirtyType ==
    ASSUME TypeInv, NEW t \in Tasks, FlushDirty(t)
    PROVE  TypeInv'
<1> USE WorldStoreAssumption, TaskType, Holding
<1>0. task[t].pc \in LockedSteps /\ holder = t
  BY DEF FlushDirty, FlushSave, FlushSaveFails, FlushReload, FlushReloadFails, SkipMissing,
         SaveOne, InsertOne, ReloadOne, SaveOneFails, At
<1>1. CASE FlushSave(t)
  <2> DEFINE q == task[t].pending
             s == task[t].snap
  <2>1. q \in Seq(Objects) /\ s \in [Objects -> Slot]
    BY DEF TaskState
  <2>2. CASE Commit(q, s) /\ graph' = WithMetas(Zipped(q, s)) /\ Release(t)
    <3>1. graph' \in [Objects -> Slot]
      BY <2>1, <2>2, ZippedType, MetasType
    <3>2. QED
      BY <1>0, <1>1, <2>1, <2>2, <3>1, CommitType, FinishType DEF FlushSave, Release, TypeInv, TypeOK
  <2>3. CASE \E i \in Conflicts(q, s) :
               /\ Become(t, [task[t] EXCEPT !.pc = "freload", !.id = q[i]])
               /\ UNCHANGED <<graph, db, holder>>
    <3>1. PICK i \in Conflicts(q, s) : Become(t, [task[t] EXCEPT !.pc = "freload", !.id = q[i]])
      BY <2>3
    <3> DEFINE r == [task[t] EXCEPT !.pc = "freload", !.id = q[i]]
    <3>2. q[i] \in Objects /\ db[q[i]] # Absent
      BY <2>1 DEF Conflicts, Written, Stale
    <3>3. r \in TaskState /\ r.pc = "freload" /\ r.id = q[i]
      <4>1. task[t] \in TaskState /\ "freload" \in Steps
        BY DEF Steps
      <4>2. QED BY ONLY <4>1, <3>2 DEF TaskState
    <3>4. Become(t, r) /\ graph[q[i]] # Absent
      BY <1>1, <3>1, <3>2 DEF Conflicts, Written, FlushSave, At, TypeInv, Located
    <3>5. r.snap = s /\ r.at = task[t].at /\ r.pending = task[t].pending
      BY DEF TaskState
    <3>6. r.pc \in LockedSteps /\ r.pc \notin SingleSteps
      BY <3>3 DEF LockedSteps, SingleSteps
    <3>7. Located(t)'
      <4> HIDE DEF r, q, s
      <4>1. r.at \in DOMAIN r.pending
        BY <1>0, <3>5 DEF TypeInv, Located
      <4>2. \A o \in Objects : r.snap[o] # Absent => graph[o] # Absent
        BY <1>1, <3>5 DEF TypeInv, Located, FlushSave, At, s
      <4>3. task'[t] = r /\ graph' = graph /\ db' = db /\ holder' = t
        BY <1>0, <2>3, <3>4, BecomeValue
      <4>4. QED BY <3>2, <3>3, <3>4, <3>6, <4>1, <4>2, <4>3 DEF Located
    <3>8. QED
      <4> HIDE DEF r
      <4> QED BY <1>0, <1>1, <2>3, <3>3, <3>4, <3>6, <3>7, StepType DEF FlushSave, TypeInv, TypeOK
  <2>4. QED BY <1>1, <2>2, <2>3 DEF FlushSave
<1>2. CASE FlushSaveFails(t)
  BY <1>0, <1>2, FinishType DEF FlushSaveFails, Fails, MarkMany, Release, TypeInv, TypeOK
<1>3. CASE FlushReload(t)
  <2> DEFINE o == task[t].id
             n == task[t].tries + 1
             pc == IF n < Retries THEN "fsave" ELSE "single"
             k == IF n < Retries THEN n ELSE 0
             g == [graph EXCEPT ![o].rev = db[o].rev]
             sn == [task[t].snap EXCEPT ![o] = g[o]]
             r == [task[t] EXCEPT !.pc = pc, !.tries = k, !.id = Absent, !.snap = sn]
  <2>1. o \in Objects /\ db[o] \in Entry /\ graph[o] \in Entry
    BY <1>3 DEF FlushReload, At, TypeInv, TypeOK, Located, Slot
  <2>2. g \in [Objects -> Slot] /\ g[o] \in Entry
    BY <2>1 DEF Slot, Entry, TypeInv, TypeOK
  <2>3. pc \in Steps /\ k \in Nat
    BY DEF Steps, TaskState
  <2>4. sn \in [Objects -> Slot]
    <3>1. task[t].snap \in [Objects -> Slot] /\ g[o] \in Slot
      BY <2>2 DEF TaskState, Slot
    <3> HIDE DEF g
    <3>2. QED BY <2>1, <3>1
  <2>5. Absent \in Objects \cup {Absent}
    OBVIOUS
  <2>6. graph' = g /\ Become(t, r)
    BY <1>3 DEF FlushReload
  <2>7. pc \in {"fsave", "single"} /\ pc \in LockedSteps
    BY DEF LockedSteps, SingleSteps
  <2>8. \A x \in Objects : sn[x] # Absent => g[x] # Absent
    BY <1>3, <2>1, <2>2 DEF FlushReload, At, TypeInv, TypeOK, Located, TaskState
  <2>9. QED
    <3> HIDE DEF pc, k, g, sn
    <3>1. r \in TaskState /\ r.pc = pc /\ r.snap = sn /\ r.at = task[t].at /\ r.pending = task[t].pending
      <4>1. task[t] \in TaskState
        OBVIOUS
      <4>2. QED BY ONLY <4>1, <2>3, <2>4 DEF TaskState
    <3>5. r.at \in DOMAIN r.pending
      BY <1>0, <3>1 DEF TypeInv, Located
    <3> HIDE DEF r
    <3>2. Located(t)'
      BY <1>0, <1>3, <2>6, <2>7, <2>8, <3>1, <3>5, BecomeValue DEF Located, FlushReload, LockedSteps, SingleSteps
    <3>3. /\ graph' \in [Objects -> Slot] /\ db' = db /\ dirty' = dirty /\ dropped' = dropped
          /\ last' = last /\ failures' = failures /\ crashes' = crashes /\ holder' = holder
      BY <1>3, <2>2, <2>6 DEF FlushReload
    <3>4. /\ db \in [Objects -> Slot] /\ dirty \subseteq Objects /\ dropped \subseteq Objects
          /\ last \in [Objects -> Nat] /\ failures \in 0..MaxFailures
      BY DEF TypeInv, TypeOK
    <3>6. Become(t, r) /\ r \in TaskState /\ r.pc \in LockedSteps /\ holder = t
      BY <1>0, <2>6, <2>7, <3>1
    <3>7. QED
      BY ONLY TypeInv, t \in Tasks, <3>2, <3>3, <3>4, <3>5, <3>6, StepType
<1>4. CASE FlushReloadFails(t)
  BY <1>0, <1>4, FinishType DEF FlushReloadFails, Fails, Release, TypeInv, TypeOK
<1>5. CASE SkipMissing(t)
  <2>1. NextId(t) /\ UNCHANGED <<graph, dirty, db, last, dropped, failures, crashes>>
    BY <1>5 DEF SkipMissing
  <2>2. task[t].pc \in SingleSteps
    BY <1>5 DEF SkipMissing, At, SingleSteps
  <2>3. QED BY <1>0, <2>1, <2>2, NextIdType DEF TypeInv, TypeOK
<1>6. CASE SaveOne(t)
  <2>1. task[t].pc \in SingleSteps /\ Cur(t) \in Objects /\ graph[Cur(t)] # Absent
    BY <1>6 DEF SaveOne, At, SingleSteps, Present
  <2>2. CASE Stored(t)
    BY <1>0, <2>1, <2>2, StoredType
  <2>3. CASE ~Stored(t)
    <3> DEFINE pc == IF db[Cur(t)] = Absent THEN "sinsert" ELSE "sreload"
               r == [task[t] EXCEPT !.pc = pc]
    <3>1. Become(t, r) /\ UNCHANGED <<graph, dirty, db, holder, last, dropped, failures, crashes>>
      BY <1>6, <2>3 DEF SaveOne
    <3>2. pc \in {"sinsert", "sreload"} /\ pc \in Steps /\ pc \in LockedSteps
      BY DEF Steps, LockedSteps, SingleSteps
    <3>3. pc = "sreload" => db[Cur(t)] # Absent
      OBVIOUS
    <3> HIDE DEF pc
    <3>4. r \in TaskState /\ r.pc = pc /\ r.at = task[t].at /\ r.pending = task[t].pending
      BY <3>2 DEF TaskState
    <3>5. r.at \in DOMAIN r.pending
      BY <1>0, <3>4 DEF TypeInv, Located
    <3> HIDE DEF r
    <3>6. task'[t] = r
      BY <3>1, BecomeValue
    <3>7. Cur(t)' = Cur(t)
      BY <3>4, <3>6 DEF Cur
    <3>8. Located(t)'
      BY <1>0, <2>1, <3>1, <3>2, <3>3, <3>4, <3>5, <3>6, <3>7 DEF Located
    <3>9. QED
      BY <1>0, <3>1, <3>2, <3>4, <3>5, <3>8, StepType DEF TypeInv, TypeOK
  <2>4. QED BY <2>2, <2>3
<1>7. CASE InsertOne(t)
  <2>1. task[t].pc \in SingleSteps /\ Cur(t) \in Objects /\ graph[Cur(t)] # Absent
    BY <1>7 DEF InsertOne, At, SingleSteps, TypeInv, Located
  <2>2. CASE Stored(t)
    BY <1>0, <2>1, <2>2, StoredType
  <2>3. CASE Drop(t) /\ UNCHANGED failures
    BY <1>0, <2>1, <2>3, FinishType DEF Drop, Release, TypeInv, TypeOK
  <2>4. QED BY <1>7, <2>2, <2>3 DEF InsertOne
<1>8. CASE ReloadOne(t)
  <2>1. Cur(t) \in Objects /\ Rest(t) \subseteq Objects /\ db[Cur(t)] \in Entry /\ graph[Cur(t)] \in Entry
    BY <1>8 DEF ReloadOne, At, SingleSteps, TypeInv, TypeOK, Located, Slot
  <2>2. graph' = [graph EXCEPT ![Cur(t)].rev = db[Cur(t)].rev]
    BY <1>8 DEF ReloadOne
  <2>3. graph' \in [Objects -> Slot] /\ graph'[Cur(t)] # Absent
    BY <2>1, <2>2 DEF TypeInv, TypeOK, Slot, Entry
  <2>4. CASE task[t].tries + 1 < Retries
    <3> DEFINE r == [task[t] EXCEPT !.pc = "single", !.tries = @ + 1]
    <3>1. /\ Become(t, r)
          /\ UNCHANGED <<dirty, db, holder, last, dropped, failures, crashes>>
      BY <1>8, <2>4 DEF ReloadOne
    <3>2. r \in TaskState /\ r.pc = "single" /\ r.at = task[t].at /\ r.pending = task[t].pending
      <4>1. task[t] \in TaskState /\ task[t].tries + 1 \in Nat /\ "single" \in Steps
        BY DEF Steps, TaskState
      <4>2. QED BY ONLY <4>1 DEF TaskState
    <3>3. r.at \in DOMAIN r.pending
      BY <1>0, <3>2 DEF TypeInv, Located
    <3> HIDE DEF r
    <3>4. task'[t] = r
      BY <3>1, BecomeValue
    <3>5. Located(t)'
      BY <1>0, <3>1, <3>2, <3>3, <3>4 DEF Located, LockedSteps, SingleSteps
    <3>6. r.pc \in LockedSteps
      BY <3>2 DEF LockedSteps, SingleSteps
    <3>7. QED
      BY <1>0, <2>3, <3>1, <3>2, <3>3, <3>5, <3>6, StepType DEF TypeInv, TypeOK
  <2>5. CASE ~(task[t].tries + 1 < Retries)
    BY <1>0, <1>8, <2>1, <2>3, <2>5, FinishType DEF ReloadOne, Release, TypeInv, TypeOK
  <2>6. QED BY <2>4, <2>5
<1>9. CASE SaveOneFails(t)
  <2>1. Rest(t) \subseteq Objects
    BY <1>9 DEF SaveOneFails, At, SingleSteps
  <2>2. QED
    BY <1>0, <1>9, <2>1, FinishType DEF SaveOneFails, Fails, Drop, Release, TypeInv, TypeOK
<1>10. QED
  BY <1>1, <1>2, <1>3, <1>4, <1>5, <1>6, <1>7, <1>8, <1>9 DEF FlushDirty

LEMMA PersistAllType ==
    ASSUME TypeInv, NEW t \in Tasks, PersistAll(t)
    PROVE  TypeInv'
<1> USE WorldStoreAssumption, TaskType, Holding
<1>1. CASE FullSnapshot(t)
  <2>1. PICK q \in Orders({o \in Objects : Present(o)}) :
          Become(t, [task[t] EXCEPT !.pc = "fullsave", !.pending = q, !.snap = Clones(q)])
    BY <1>1 DEF FullSnapshot
  <2> DEFINE r == [task[t] EXCEPT !.pc = "fullsave", !.pending = q, !.snap = Clones(q)]
  <2>2. q \in Seq(Objects)
    BY OrdersType
  <2>3. r \in TaskState /\ r.pc = "fullsave"
    <3> DEFINE s == Clones(q)
    <3>1. task[t] \in TaskState /\ "fullsave" \in Steps /\ s \in [Objects -> Slot]
      BY ClonesType DEF Steps
    <3>2. r = [task[t] EXCEPT !.pc = "fullsave", !.pending = q, !.snap = s]
      OBVIOUS
    <3> HIDE DEF s, r
    <3>3. QED BY ONLY <2>2, <3>1, <3>2 DEF TaskState
  <2>4. Become(t, r)
    BY <2>1
  <2>5. QED
    <3> HIDE DEF r
    <3> QED BY <1>1, <2>3, <2>4, MoveType DEF FullSnapshot, At, Unheld, TypeInv, TypeOK, LockedSteps, SingleSteps
<1>2. CASE FullSave(t)
  <2> DEFINE q == task[t].pending
             s == task[t].snap
             r == [task[t] EXCEPT !.pc = "fullapply", !.metas = Zipped(q, s)]
  <2>1. q \in Seq(Objects) /\ s \in [Objects -> Slot]
    BY DEF TaskState
  <2>2. CASE Commit(q, s) /\ Become(t, r)
    <3>1. r \in TaskState /\ r.pc = "fullapply"
      <4> DEFINE z == Zipped(q, s)
      <4>1. z \in [Objects -> Nat]
        BY <2>1, ZippedType
      <4>2. r = [task[t] EXCEPT !.pc = "fullapply", !.metas = z]
        OBVIOUS
      <4> HIDE DEF z, r
      <4>3. task[t] \in TaskState /\ "fullapply" \in Steps
        BY DEF Steps
      <4> QED BY ONLY <4>1, <4>2, <4>3, MetasSet
    <3>2. Become(t, r)
      BY <2>2
    <3>3. QED
      <4> HIDE DEF r
      <4> QED BY <1>2, <2>1, <2>2, <3>1, <3>2, CommitType, MoveType
              DEF FullSave, At, TypeInv, TypeOK, LockedSteps, SingleSteps
  <2>3. CASE Finish(t) /\ UNCHANGED db
    BY <1>2, <2>3, FinishType DEF FullSave, At, TypeInv, TypeOK
  <2>4. QED BY <1>2, <2>2, <2>3 DEF FullSave
<1>3. CASE FullSaveFails(t)
  BY <1>3, FinishType DEF FullSaveFails, Fails, At, TypeInv, TypeOK
<1>4. CASE FullApply(t)
  <2>1. task[t].metas \in [Objects -> Nat]
    BY DEF TaskState
  <2>2. QED
    BY <1>4, <2>1, MetasType, FinishType DEF FullApply, Unheld, At, TypeInv, TypeOK
<1>5. QED BY <1>1, <1>2, <1>3, <1>4 DEF PersistAll

LEMMA EnsureObjectType ==
    ASSUME TypeInv, NEW t \in Tasks, EnsureObject(t)
    PROVE  TypeInv'
<1> USE WorldStoreAssumption, TaskType, Holding
<1>1. ASSUME NEW o \in Objects, Ensure(t, o) PROVE TypeInv'
  <2> DEFINE r == [task[t] EXCEPT !.pc = "load", !.id = o]
  <2>1. r \in TaskState /\ r.pc = "load" /\ r.id = o
    <3>1. task[t] \in TaskState /\ "load" \in Steps
      BY DEF Steps
    <3>2. QED BY ONLY <3>1 DEF TaskState
  <2>2. Become(t, r)
    BY <1>1 DEF Ensure
  <2>3. QED
    <3> HIDE DEF r
    <3> QED BY <1>1, <2>1, <2>2, MoveType DEF Ensure, At, Unheld, TypeInv, TypeOK, LockedSteps, SingleSteps
<1>2. CASE Load(t)
  <2> DEFINE r == [task[t] EXCEPT !.pc = "cache", !.row = db[task[t].id]]
  <2>1. CASE db[task[t].id] = Absent
    BY <1>2, <2>1, FinishType DEF Load, At, TypeInv, TypeOK
  <2>2. CASE db[task[t].id] # Absent
    <3>1. task[t].id \in Objects /\ db[task[t].id] \in Slot
      BY <1>2 DEF Load, At, TypeInv, TypeOK, Located
    <3>2. r \in TaskState /\ r.pc = "cache" /\ r.id = task[t].id /\ r.row = db[task[t].id]
      <4>1. task[t] \in TaskState /\ "cache" \in Steps
        BY DEF Steps
      <4>2. QED BY ONLY <3>1, <4>1 DEF TaskState
    <3>3. Become(t, r)
      BY <1>2, <2>2 DEF Load
    <3>4. QED
      <4> HIDE DEF r
      <4> QED BY <1>2, <2>2, <3>1, <3>2, <3>3, MoveType DEF Load, At, TypeInv, TypeOK, LockedSteps, SingleSteps
  <2>3. QED BY <2>1, <2>2
<1>3. CASE LoadFails(t)
  BY <1>3, FinishType DEF LoadFails, Fails, At, TypeInv, TypeOK
<1>4. CASE Cache(t)
  <2>1. task[t].row \in Slot
    BY DEF TaskState
  <2>2. graph' \in [Objects -> Slot]
    BY <1>4, <2>1 DEF Cache, TypeInv, TypeOK
  <2>3. QED BY <1>4, <2>2, FinishType DEF Cache, At, Unheld, TypeInv, TypeOK
<1>5. QED BY <1>1, <1>2, <1>3, <1>4 DEF EnsureObject

LEMMA CrashType ==
    ASSUME TypeInv, Crash
    PROVE  TypeInv'
<1>1. Idle.pc = "idle"
  BY DEF Idle
<1>2. TypeOK'
  BY <1>1, IdleType, WorldStoreAssumption DEF Crash, Hydrate, TypeInv, TypeOK, SingleSteps, Slot
<1>3. ASSUME NEW t \in Tasks PROVE Located(t)'
  BY <1>1, WorldStoreAssumption DEF Crash, Located, LockedSteps, SingleSteps
<1>4. QED BY <1>2, <1>3 DEF TypeInv

LEMMA NextType == TypeInv /\ [Next]_vars => TypeInv'
<1> SUFFICES ASSUME TypeInv, [Next]_vars PROVE TypeInv'
  OBVIOUS
<1>1. ASSUME NEW t \in Tasks, Command(t) \/ PersistChanges(t) \/ FlushDirty(t) \/ PersistAll(t) \/ EnsureObject(t)
      PROVE  TypeInv'
  BY <1>1, CommandType, PersistChangesType, FlushDirtyType, PersistAllType, EnsureObjectType
<1>2. CASE Crash
  BY <1>2, CrashType
<1>3. CASE UNCHANGED vars
  BY <1>3 DEF vars, TypeInv, TypeOK, Located, Cur
<1>4. QED BY <1>1, <1>2, <1>3 DEF Next

\* Every step keeps the graph, the table, the tracker and the locals of the
\* tasks well formed: a retry never reads past the ids it took, and a task
\* that reloads a row finds one.
THEOREM TypeCorrect == Spec => []TypeOK
<1>1. Spec => []TypeInv
  BY InitType, NextType, PTL DEF Spec
<1>2. TypeInv => TypeOK
  BY DEF TypeInv
<1>3. QED BY <1>1, <1>2, PTL

(***************************************************************************)
(* The store implements WriteBehind, for any number of objects, tasks,     *)
(* retries, failures and crashes, as long as no command splits or merges   *)
(* stacks: a split gives a new object the revision of an old one, and a    *)
(* merge takes an object out of the graph and leaves its row.              *)
(***************************************************************************)

\* What the commands must not do.
NoStacks == "split" \notin Ops /\ "merge" \notin Ops

\* The revision of a row, 0 where there is none.
RowRev(o) == IF db[o] = Absent THEN 0 ELSE db[o].rev

\* Nothing in memory is older than its row, and no revision in memory is ahead
\* of its row's.
GraphAhead ==
    \A o \in Objects : Present(o) => OnDisk[o] <= graph[o].ver /\ graph[o].rev <= RowRev(o)

\* No version was ever given out that is above `last`.
Counted == \A o \in Objects : InMemory[o] <= last[o] /\ OnDisk[o] <= last[o]

\* What is marked is in the graph.
MarksPresent == \A o \in dirty : Present(o)

WritingSteps == {"save", "fullsave", "fsave", "freload"}

\* A clone that is about to be written is of an object in memory and no newer;
\* if it has the revision of the row, it is no older than the row.
CloneSound(t, o) ==
    LET s == task[t].snap[o] IN
    s # Absent =>
        /\ Present(o)
        /\ s.ver <= graph[o].ver
        /\ s.rev <= RowRev(o)
        /\ s.rev = RowRev(o) => OnDisk[o] <= s.ver

\* What a task holds in its locals between two steps.
Sound(t) ==
    /\ task[t].pc \in TakenSteps \cup SingleSteps \cup {"fullsave"} =>
         \A o \in Pend(t) : Present(o)
    /\ task[t].pc \in WritingSteps =>
         /\ \A o \in Objects : CloneSound(t, o)
         /\ \A o \in Pend(t) : task[t].snap[o] # Absent
    /\ task[t].pc \in {"apply", "fullapply"} => \A o \in Objects : task[t].metas[o] <= RowRev(o)
    /\ task[t].pc \in {"reload", "refresh"} => task[t].id \in Pend(t)
    /\ task[t].pc = "refresh" => task[t].row.rev <= RowRev(task[t].id)
    /\ task[t].pc = "cache" /\ ~Present(task[t].id) => task[t].row = db[task[t].id]

WBInv == GraphAhead /\ Counted /\ MarksPresent /\ \A t \in Tasks : Sound(t)

(***************************************************************************)
(* What every step of a task may do to the graph and to the table.         *)
(***************************************************************************)

\* Nothing leaves the graph or gets older there.
GraphGrows ==
    \A o \in Objects : Present(o) => graph'[o] # Absent /\ graph[o].ver <= graph'[o].ver

\* A row that changes is one of an object in the graph, and gets a newer
\* revision, and a version that is no older and not ahead of memory.
TableGrows ==
    \A o \in Objects :
        \/ db'[o] = db[o]
        \/ /\ Present(o)
           /\ db'[o] # Absent
           /\ db'[o].rev = RowRev(o) + 1
           /\ OnDisk[o] <= db'[o].ver
           /\ db'[o].ver <= graph[o].ver

\* Versions in memory stay, and a revision that changes is that of a row.
VersionsStay ==
    \A o \in Objects :
        /\ graph'[o] = Absent <=> graph[o] = Absent
        /\ graph[o] # Absent =>
             /\ graph'[o].ver = graph[o].ver
             /\ graph'[o].rev = graph[o].rev \/ graph'[o].rev <= RowRev(o)'

\* What is in memory and on disk are entries or nothing, and what InMemory and
\* OnDisk make of them.
LEMMA EntryType ==
    ASSUME TypeInv, NEW o \in Objects
    PROVE  /\ Absent \notin Entry
           /\ graph[o] \in Entry \cup {Absent} /\ db[o] \in Entry \cup {Absent}
           /\ last[o] \in Nat
           /\ InMemory[o] \in Nat /\ OnDisk[o] \in Nat /\ RowRev(o) \in Nat
           /\ InMemory[o] = IF graph[o] = Absent THEN 0 ELSE graph[o].ver
           /\ OnDisk[o] = IF db[o] = Absent THEN 0 ELSE db[o].ver
<1>1. Absent \notin Entry /\ graph[o] \in Slot /\ db[o] \in Slot /\ last[o] \in Nat
  BY WorldStoreAssumption DEF TypeInv, TypeOK, Slot, Entry
<1>2. QED BY <1>1 DEF Slot, Entry, InMemory, OnDisk, Version, RowRev

\* A row gets newer, and a newer one has one revision more.
LEMMA RowGrows ==
    ASSUME TypeInv, TypeInv', TableGrows, NEW o \in Objects
    PROVE  /\ RowRev(o) <= RowRev(o)' /\ OnDisk[o] <= OnDisk'[o]
           /\ db'[o] # db[o] => Present(o) /\ RowRev(o)' = RowRev(o) + 1 /\ OnDisk'[o] <= graph[o].ver
<1>1. /\ Absent \notin Entry
      /\ db[o] \in Entry \cup {Absent} /\ RowRev(o) \in Nat /\ OnDisk[o] \in Nat
  BY EntryType
<1>2. /\ db'[o] \in Entry \cup {Absent} /\ OnDisk'[o] \in Nat
      /\ OnDisk'[o] = IF db'[o] = Absent THEN 0 ELSE db'[o].ver
  <2>1. db' \in [Objects -> Slot]
    BY DEF TypeInv, TypeOK
  <2>2. OnDisk'[o] = Version(db'[o])
    BY DEF OnDisk
  <2>3. QED BY <1>1, <2>1, <2>2 DEF Version, Slot, Entry
<1>3. RowRev(o)' = IF db'[o] = Absent THEN 0 ELSE db'[o].rev
  BY DEF RowRev
<1>4. db'[o] = db[o] => RowRev(o)' = RowRev(o) /\ OnDisk'[o] = OnDisk[o]
  BY <1>2, <1>3, EntryType DEF RowRev
<1>5. CASE db'[o] = db[o]
  BY <1>1, <1>4, <1>5
<1>6. CASE db'[o] # db[o]
  BY <1>1, <1>2, <1>3, <1>6 DEF TableGrows
<1>7. QED BY <1>5, <1>6

\* What a task holds stays sound while others work.
LEMMA OthersSound ==
    ASSUME TypeInv, TypeInv', GraphGrows, TableGrows, NEW u \in Tasks, task'[u] = task[u], Sound(u)
    PROVE  Sound(u)'
<1>1. ASSUME NEW o \in Objects, Present(o) PROVE Present(o)'
  BY <1>1 DEF GraphGrows, Present
<1>2. Pend(u)' = Pend(u) /\ Pend(u) \subseteq Objects
  BY TaskType DEF Pend
<1>3. task[u] \in TaskState
  BY TaskType
<1>4. ASSUME task[u].pc \in TakenSteps \cup SingleSteps \cup {"fullsave"}
      PROVE  \A o \in Pend(u) : Present(o)'
  BY <1>1, <1>2, <1>4 DEF Sound
<1>5. ASSUME task[u].pc \in WritingSteps, NEW o \in Objects, task[u].snap[o] # Absent
      PROVE  CloneSound(u, o)'
  <2> DEFINE s == task[u].snap[o]
  <2>1. s \in Entry
    BY <1>3, <1>5 DEF TaskState, Slot
  <2>2. Present(o) /\ s.ver <= graph[o].ver /\ s.rev <= RowRev(o) /\ (s.rev = RowRev(o) => OnDisk[o] <= s.ver)
    BY <1>5 DEF Sound, CloneSound
  <2>3. /\ RowRev(o) \in Nat /\ RowRev(o)' \in Nat /\ s.rev \in Nat /\ s.ver \in Nat
        /\ graph[o] \in Entry /\ graph'[o] \in Entry /\ OnDisk'[o] \in Nat
    <3>1. graph[o] \in Entry /\ RowRev(o) \in Nat
      BY <2>2, EntryType DEF Present
    <3>2. graph'[o] \in Slot /\ db'[o] \in Slot
      BY DEF TypeInv, TypeOK
    <3>3. graph'[o] \in Entry
      BY <2>2, <3>2 DEF GraphGrows, Slot
    <3>4. RowRev(o)' \in Nat /\ OnDisk'[o] \in Nat
      BY <3>2 DEF RowRev, OnDisk, Version, Slot, Entry
    <3>5. QED BY <2>1, <3>1, <3>3, <3>4 DEF Entry
  <2>4. s.ver <= graph'[o].ver
    BY <2>2, <2>3 DEF GraphGrows, Entry
  <2>5. s.rev <= RowRev(o)'
    BY <2>2, <2>3, RowGrows
  <2>6. s.rev = RowRev(o)' => OnDisk'[o] <= s.ver
    <3>1. CASE db'[o] = db[o]
      BY <2>2, <3>1 DEF RowRev, OnDisk, Version
    <3>2. CASE db'[o] # db[o]
      BY <2>2, <2>3, <3>2, RowGrows
    <3>3. QED BY <3>1, <3>2
  <2>7. s' = s /\ Present(o)'
    BY <1>1, <2>2
  <2>8. QED BY <2>4, <2>5, <2>6, <2>7 DEF CloneSound
<1>6. ASSUME task[u].pc \in WritingSteps, NEW o \in Objects
      PROVE  CloneSound(u, o)'
  BY <1>5, <1>6 DEF CloneSound
<1>7. ASSUME task[u].pc \in {"apply", "fullapply"}, NEW o \in Objects
      PROVE  task[u].metas[o] <= RowRev(o)'
  <2>1. task[u].metas[o] \in Nat
    BY <1>3 DEF TaskState
  <2>2. RowRev(o) \in Nat /\ RowRev(o)' \in Nat
    <3>1. db'[o] \in Slot
      BY DEF TypeInv, TypeOK
    <3>2. QED BY <3>1, EntryType DEF RowRev, Slot, Entry
  <2>3. QED BY <1>7, <2>1, <2>2, RowGrows DEF Sound
<1>8. ASSUME task[u].pc = "refresh" PROVE task[u].row.rev <= RowRev(task[u].id)'
  <2> DEFINE o == task[u].id
  <2>1. o \in Objects /\ task[u].row \in Entry
    BY <1>3, <1>8 DEF TypeInv, Located, TaskState, Slot
  <2>2. RowRev(o) \in Nat /\ (RowRev(o))' \in Nat /\ task[u].row.rev \in Nat
    <3>1. db'[o] \in Slot /\ o' = o
      BY <2>1 DEF TypeInv, TypeOK
    <3>2. QED BY <2>1, <3>1, EntryType DEF RowRev, Slot, Entry
  <2>3. task[u].row.rev <= RowRev(o)
    BY <1>8 DEF Sound
  <2>4. RowRev(o) <= IF db'[o] = Absent THEN 0 ELSE db'[o].rev
    BY <2>1, RowGrows DEF RowRev
  <2>5. QED BY <2>1, <2>2, <2>3, <2>4 DEF RowRev
<1>9. ASSUME task[u].pc = "cache", graph'[task[u].id] = Absent PROVE task[u].row = db'[task[u].id]
  <2>1. task[u].id \in Objects
    BY <1>9 DEF TypeInv, Located
  <2>2. ~Present(task[u].id)
    BY <1>9, <2>1 DEF GraphGrows
  <2>3. QED BY <1>9, <2>1, <2>2 DEF Sound, TableGrows
<1>10. task[u].pc \in {"reload", "refresh"} => task[u].id \in Pend(u)
  BY DEF Sound
<1>11. QED
  BY <1>2, <1>4, <1>6, <1>7, <1>8, <1>9, <1>10 DEF Sound, Present

(***************************************************************************)
(* A step that saves: it writes to the disk of WriteBehind, or nothing.    *)
(***************************************************************************)

AbstractStep == [WB!Next]_<<InMemory, OnDisk>>

\* A step of one task that leaves the graph but for revisions and lets the
\* table grow is a step of WriteBehind, if its own locals stay sound.
LEMMA SaveStep ==
    ASSUME TypeInv, TypeInv', WBInv, NEW t \in Tasks, NEW r, Become(t, r),
           VersionsStay, TableGrows, UNCHANGED last,
           \A o \in dirty' : Present(o)', Sound(t)'
    PROVE  WBInv' /\ AbstractStep
<1>1. ASSUME NEW o \in Objects
      PROVE  /\ Absent \notin Entry
             /\ graph[o] \in Entry \cup {Absent} /\ graph'[o] \in Entry \cup {Absent}
             /\ OnDisk[o] \in Nat /\ OnDisk'[o] \in Nat /\ RowRev(o) \in Nat /\ RowRev(o)' \in Nat
             /\ InMemory'[o] = InMemory[o] /\ InMemory[o] \in Nat /\ last[o] \in Nat
             /\ InMemory[o] = IF graph[o] = Absent THEN 0 ELSE graph[o].ver
  <2>1. graph'[o] \in Slot /\ db'[o] \in Slot
    BY DEF TypeInv, TypeOK
  <2>2. OnDisk'[o] \in Nat /\ RowRev(o)' \in Nat
    BY <2>1 DEF OnDisk, Version, RowRev, Slot, Entry
  <2>3. InMemory'[o] = InMemory[o]
    BY DEF InMemory, Version, VersionsStay
  <2>4. QED BY <2>1, <2>2, <2>3, EntryType DEF Slot
<1>2. GraphGrows
  <2> SUFFICES ASSUME NEW o \in Objects, Present(o)
               PROVE  graph'[o] # Absent /\ graph[o].ver <= graph'[o].ver
    BY DEF GraphGrows
  <2>1. graph[o] \in Entry /\ graph'[o] # Absent /\ graph'[o].ver = graph[o].ver
    BY <1>1 DEF Present, VersionsStay
  <2>2. QED BY <2>1 DEF Entry
<1>3. ASSUME NEW o \in Objects, Present(o)'
      PROVE  OnDisk'[o] <= graph'[o].ver /\ graph'[o].rev <= RowRev(o)'
  <2>1. /\ Present(o) /\ graph[o] \in Entry /\ graph'[o] \in Entry
        /\ graph'[o].ver = graph[o].ver
        /\ graph'[o].rev = graph[o].rev \/ graph'[o].rev <= RowRev(o)'
    BY <1>1, <1>3 DEF Present, VersionsStay
  <2>2. OnDisk[o] <= graph[o].ver /\ graph[o].rev <= RowRev(o)
    BY <2>1 DEF WBInv, GraphAhead
  <2>3. graph[o].ver \in Nat /\ graph[o].rev \in Nat
    BY <2>1 DEF Entry
  <2>4. /\ RowRev(o) <= RowRev(o)'
        /\ db'[o] # db[o] => OnDisk'[o] <= graph[o].ver
        /\ db'[o] = db[o] => OnDisk'[o] = OnDisk[o]
    BY RowGrows DEF OnDisk
  <2>5. QED BY <1>1, <2>1, <2>2, <2>3, <2>4
<1>4. ASSUME NEW o \in Objects PROVE InMemory'[o] <= last[o] /\ OnDisk'[o] <= last[o]
  <2>1. InMemory[o] <= last[o] /\ OnDisk[o] <= last[o]
    BY DEF WBInv, Counted
  <2>2. /\ db'[o] # db[o] => Present(o) /\ OnDisk'[o] <= graph[o].ver
        /\ db'[o] = db[o] => OnDisk'[o] = OnDisk[o]
    BY RowGrows DEF OnDisk
  <2>3. QED BY <1>1, <2>1, <2>2 DEF Present
<1>5. ASSUME NEW u \in Tasks PROVE Sound(u)'
  <2>1. CASE u = t
    BY <2>1
  <2>2. CASE u # t
    BY <1>2, <2>2, OthersSound DEF Become, TypeInv, TypeOK, WBInv
  <2>3. QED BY <2>1, <2>2
<1>6. WBInv'
  BY <1>3, <1>4, <1>5 DEF WBInv, GraphAhead, Counted, MarksPresent
<1>7. AbstractStep
  <2> DEFINE S == {o \in Objects : OnDisk'[o] # OnDisk[o]}
  <2>1. \A o \in S : OnDisk[o] < OnDisk'[o] /\ OnDisk'[o] <= InMemory[o]
    <3> SUFFICES ASSUME NEW o \in S PROVE OnDisk[o] < OnDisk'[o] /\ OnDisk'[o] <= InMemory[o]
      OBVIOUS
    <3>1. OnDisk[o] <= OnDisk'[o]
      BY RowGrows
    <3>2. db'[o] # db[o]
      BY DEF OnDisk
    <3>3. Present(o) /\ OnDisk'[o] <= graph[o].ver
      BY <3>2, RowGrows
    <3>4. QED BY <1>1, <3>1, <3>3 DEF Present
  <2>2. OnDisk' = [o \in Objects |-> IF o \in S THEN OnDisk'[o] ELSE OnDisk[o]]
    BY DEF OnDisk
  <2>3. InMemory' = InMemory
    BY <1>1 DEF InMemory
  <2>4. WB!Write(S)
    BY <2>1, <2>2, <2>3 DEF WB!Write
  <2>5. QED BY <2>4 DEF AbstractStep, WB!Next
<1>8. QED BY <1>6, <1>7

\* A step that ends what a task does.
LEMMA FinishSound ==
    ASSUME TypeInv, NEW t \in Tasks, Finish(t)
    PROVE  Sound(t)'
<1>1. task'[t] = Idle
  BY BecomeValue DEF Finish
<1>2. Idle.pc = "idle"
  BY DEF Idle
<1>3. QED
  BY <1>1, <1>2 DEF Sound, TakenSteps, SingleSteps, WritingSteps

\* Neither graph nor table change.
LEMMA Quiet ==
    ASSUME TypeInv, graph' = graph
    PROVE  /\ VersionsStay
           /\ db' = db => TableGrows
           /\ \A o : Present(o)' <=> Present(o)
BY DEF VersionsStay, TableGrows, Present

\* The ids a task took are in the graph: a clone of each is made.
LEMMA ClonesSound ==
    ASSUME TypeInv, WBInv, NEW q, \A o \in Ids(q) : o \in Objects /\ Present(o)
    PROVE  /\ \A o \in Ids(q) : Clones(q)[o] # Absent
           /\ \A o \in Objects : Clones(q)[o] # Absent =>
                /\ Present(o)
                /\ Clones(q)[o].ver <= graph[o].ver
                /\ Clones(q)[o].rev <= RowRev(o)
                /\ OnDisk[o] <= Clones(q)[o].ver
<1>1. \A o \in Ids(q) : Clones(q)[o] # Absent
  BY DEF Clones, Present
<1>2. ASSUME NEW o \in Objects, Clones(q)[o] # Absent
      PROVE  /\ Present(o)
             /\ Clones(q)[o].ver <= graph[o].ver
             /\ Clones(q)[o].rev <= RowRev(o)
             /\ OnDisk[o] <= Clones(q)[o].ver
  <2>1. Clones(q)[o] = graph[o] /\ Present(o)
    BY <1>2 DEF Clones, Present
  <2>2. graph[o] \in Entry
    BY <2>1, EntryType DEF Present
  <2>3. QED BY <2>1, <2>2 DEF Entry, WBInv, GraphAhead
<1>3. QED BY <1>1, <1>2

\* A batch that meets no conflict.
LEMMA CommitGrows ==
    ASSUME TypeInv, TypeInv', WBInv, NEW t \in Tasks, task[t].pc \in WritingSteps,
           Conflicts(task[t].pending, task[t].snap) = {}, Commit(task[t].pending, task[t].snap)
    PROVE  /\ TableGrows
           /\ \A o \in Pend(t) : RowRev(o)' = NewRev(o, task[t].snap)
<1> DEFINE q == task[t].pending
           s == task[t].snap
<1>1. q \in Seq(Objects) /\ s \in [Objects -> Slot] /\ Pend(t) \subseteq Objects
  BY TaskType DEF TaskState
<1>2. ASSUME NEW o \in Pend(t)
      PROVE  /\ s[o] \in Entry /\ Present(o)
             /\ db[o] # Absent => db[o].rev = s[o].rev
             /\ db'[o] = [s[o] EXCEPT !.rev = NewRev(o, s)]
  <2>1. s[o] # Absent /\ CloneSound(t, o)
    BY <1>1 DEF WBInv, Sound
  <2>2. PICK i \in DOMAIN q : q[i] = o
    BY DEF Pend, Ids
  <2>3. i \in Written(q, s)
    BY <2>1, <2>2 DEF Written
  <2>4. ~Stale(o, s)
    BY <2>2, <2>3 DEF Conflicts
  <2>5. db'[o] = [s[o] EXCEPT !.rev = NewRev(o, s)]
    BY <1>1, <2>1 DEF Commit, Pend
  <2>6. QED BY <1>1, <2>1, <2>4, <2>5 DEF Stale, CloneSound, Slot
<1>3. ASSUME NEW o \in Pend(t)
      PROVE  /\ db'[o] # Absent /\ db'[o].rev = NewRev(o, s) /\ NewRev(o, s) = RowRev(o) + 1
             /\ OnDisk[o] <= db'[o].ver /\ db'[o].ver <= graph[o].ver
  <2>1. o \in Objects /\ s[o] \in Entry /\ CloneSound(t, o)
    BY <1>1, <1>2 DEF WBInv, Sound
  <2>2. NewRev(o, s) \in Nat /\ NewRev(o, s) = RowRev(o) + 1
    <3>1. s[o].rev \in Nat
      BY <2>1 DEF Entry
    <3>2. CASE db[o] = Absent
      BY <3>2 DEF NewRev, RowRev
    <3>3. CASE db[o] # Absent
      <4>1. db[o].rev = s[o].rev
        BY <1>2, <3>3
      <4>2. NewRev(o, s) = s[o].rev + 1 /\ RowRev(o) = db[o].rev
        BY <3>3 DEF NewRev, RowRev
      <4>3. QED BY <3>1, <4>1, <4>2
    <3>4. QED BY <3>2, <3>3
  <2>3. db'[o] \in Entry /\ db'[o].rev = NewRev(o, s) /\ db'[o].ver = s[o].ver
    BY <1>2, <2>1, <2>2 DEF Entry
  <2>4. OnDisk[o] <= s[o].ver
    <3>1. CASE db[o] = Absent
      BY <2>1, <3>1 DEF OnDisk, Version, Entry
    <3>2. CASE db[o] # Absent
      BY <1>2, <2>1, <3>2, WorldStoreAssumption DEF RowRev, CloneSound, Entry
    <3>3. QED BY <3>1, <3>2
  <2>5. QED BY <2>1, <2>2, <2>3, <2>4, WorldStoreAssumption DEF CloneSound, Entry
<1>4. ASSUME NEW o \in Objects, o \notin Pend(t) PROVE db'[o] = db[o]
  BY <1>4 DEF Commit, Pend
<1>5. TableGrows
  BY <1>2, <1>3, <1>4 DEF TableGrows
<1>6. \A o \in Pend(t) : RowRev(o)' = NewRev(o, s)
  BY <1>3 DEF RowRev
<1>7. QED BY <1>5, <1>6

\* Where no id was filtered out zip() pairs every id with its own revision.
LEMMA ZippedAligned ==
    ASSUME TypeInv, NEW q \in Seq(Objects), NEW s \in [Objects -> Slot],
           \A o \in Ids(q) : s[o] # Absent, NEW o \in Objects
    PROVE  Zipped(q, s)[o] = 0 \/ (o \in Ids(q) /\ Zipped(q, s)[o] = NewRev(o, s))
<1>1. ASSUME NEW i \in DOMAIN q, NEW k \in DOMAIN q, Paired(q, s, i, k) PROVE i = k
  <2>1. i \in Nat /\ k \in Nat /\ i <= Len(q)
    OBVIOUS
  <2>2. {j \in 1..i : s[q[j]] # Absent} = 1..i
    BY <2>1 DEF Ids
  <2>3. Cardinality(1..i) = i
    BY <2>1, FS_Interval
  <2>4. QED BY <1>1, <2>2, <2>3 DEF Paired
<1>2. SUFFICES ASSUME \E i, k \in DOMAIN q : q[k] = o /\ Paired(q, s, i, k)
               PROVE  o \in Ids(q) /\ Zipped(q, s)[o] = NewRev(o, s)
  BY DEF Zipped
<1> DEFINE i == CHOOSE i \in DOMAIN q : \E k \in DOMAIN q : q[k] = o /\ Paired(q, s, i, k)
<1>3. PICK k \in DOMAIN q : i \in DOMAIN q /\ q[k] = o /\ Paired(q, s, i, k)
  BY <1>2
<1>4. q[i] = o
  BY <1>1, <1>3
<1>5. o \in Ids(q)
  BY <1>3 DEF Ids
<1>6. Zipped(q, s)[o] = NewRev(q[i], s)
  BY <1>2 DEF Zipped
<1>7. QED BY <1>4, <1>5, <1>6

LEMMA MetasBounded ==
    ASSUME TypeInv, TypeInv', WBInv, NEW t \in Tasks, task[t].pc \in WritingSteps,
           Conflicts(task[t].pending, task[t].snap) = {}, Commit(task[t].pending, task[t].snap),
           NEW o \in Objects
    PROVE  Zipped(task[t].pending, task[t].snap)[o] <= RowRev(o)'
<1>1. task[t].pending \in Seq(Objects) /\ task[t].snap \in [Objects -> Slot]
  BY TaskType DEF TaskState
<1>2. \A x \in Ids(task[t].pending) : task[t].snap[x] # Absent
  BY DEF WBInv, Sound, Pend
<1>3. RowRev(o)' \in Nat
  <2>1. db'[o] \in Slot
    BY DEF TypeInv, TypeOK
  <2>2. QED BY <2>1 DEF RowRev, Slot, Entry
<1>4. CASE Zipped(task[t].pending, task[t].snap)[o] = 0
  BY <1>3, <1>4
<1>5. CASE o \in Pend(t) /\ Zipped(task[t].pending, task[t].snap)[o] = NewRev(o, task[t].snap)
  <2>1. RowRev(o)' = NewRev(o, task[t].snap)
    BY <1>5, CommitGrows
  <2>2. QED BY <1>3, <1>5, <2>1
<1>6. QED BY <1>1, <1>2, <1>4, <1>5, ZippedAligned DEF Pend

\* apply_save_metadata changes revisions only.
LEMMA MetasStay ==
    ASSUME TypeInv, NEW m \in [Objects -> Nat], graph' = WithMetas(m),
           \A o \in Objects : m[o] <= RowRev(o)'
    PROVE  VersionsStay
<1> SUFFICES ASSUME NEW o \in Objects
             PROVE  /\ graph'[o] = Absent <=> graph[o] = Absent
                    /\ graph[o] # Absent =>
                         /\ graph'[o].ver = graph[o].ver
                         /\ graph'[o].rev = graph[o].rev \/ graph'[o].rev <= RowRev(o)'
  BY DEF VersionsStay
<1>1. graph'[o] = IF m[o] # 0 /\ graph[o] # Absent THEN [graph[o] EXCEPT !.rev = m[o]] ELSE graph[o]
  BY DEF WithMetas, Present
<1>2. CASE m[o] # 0 /\ graph[o] # Absent
  <2>1. graph[o] \in Entry
    BY <1>2, EntryType
  <2>2. /\ graph'[o] \in Entry /\ graph'[o].ver = graph[o].ver /\ graph'[o].rev = m[o]
    BY <1>1, <1>2, <2>1 DEF Entry
  <2>3. QED BY <1>2, <2>2, EntryType
<1>3. CASE ~(m[o] # 0 /\ graph[o] # Absent)
  BY <1>1, <1>3
<1>4. QED BY <1>2, <1>3

\* One revision is that of the row now.
LEMMA RevisionStays ==
    ASSUME TypeInv, NEW o \in Objects, NEW n \in Nat, graph[o] # Absent,
           graph' = [graph EXCEPT ![o].rev = n], n <= RowRev(o), db' = db
    PROVE  VersionsStay
<1>1. graph[o] \in Entry /\ graph \in [Objects -> Slot]
  BY EntryType DEF TypeInv, TypeOK
<1>2. /\ graph'[o] = [graph[o] EXCEPT !.rev = n]
      /\ \A x \in Objects : x # o => graph'[x] = graph[x]
  BY <1>1
<1>3. graph'[o] \in Entry /\ graph'[o].ver = graph[o].ver /\ graph'[o].rev = n
  BY <1>1, <1>2 DEF Entry
<1>4. RowRev(o)' = RowRev(o)
  BY DEF RowRev
<1>5. QED BY <1>2, <1>3, <1>4, EntryType DEF VersionsStay

(***************************************************************************)
(* Commands.                                                               *)
(***************************************************************************)

\* A command that changes the graph alone makes newer versions in memory.
LEMMA MutateStep ==
    ASSUME TypeInv, TypeInv', WBInv, NEW t \in Tasks, NEW S \in SUBSET Objects, NEW c,
           \A o \in S : c[o] \in Entry /\ c[o].ver = Fresh(o) /\ c[o].rev <= RowRev(o),
           Mutate(t, S, c)
    PROVE  WBInv' /\ AbstractStep
<1>1. /\ graph' = [o \in Objects |-> IF o \in S THEN c[o] ELSE graph[o]]
      /\ last' = [o \in Objects |-> IF o \in S THEN Fresh(o) ELSE last[o]]
      /\ dirty' = dirty \cup S
      /\ db' = db
      /\ task' = [task EXCEPT ![t] = [task[t] EXCEPT !.pc = "persist"]]
  BY DEF Mutate, Mark, Become
<1>2. ASSUME NEW o \in S
      PROVE  /\ graph'[o] \in Entry /\ graph'[o].ver = last[o] + 1 /\ graph'[o].rev <= RowRev(o)
             /\ last'[o] = last[o] + 1 /\ last[o] \in Nat /\ Absent \notin Entry
             /\ InMemory[o] <= last[o] /\ OnDisk[o] <= last[o] /\ InMemory[o] \in Nat /\ OnDisk[o] \in Nat
             /\ Present(o) => InMemory[o] = graph[o].ver
  BY <1>1, EntryType DEF Fresh, WBInv, Counted, Present
<1>3. ASSUME NEW o \in Objects, o \notin S PROVE graph'[o] = graph[o] /\ last'[o] = last[o]
  BY <1>1, <1>3
<1>4. GraphGrows
  <2> SUFFICES ASSUME NEW o \in Objects, Present(o)
               PROVE  graph'[o] # Absent /\ graph[o].ver <= graph'[o].ver
    BY DEF GraphGrows
  <2>1. graph[o] \in Entry
    BY EntryType DEF Present
  <2>2. CASE o \in S
    BY <1>2, <2>2
  <2>3. CASE o \notin S
    BY <1>3, <2>1, <2>3 DEF Present, Entry
  <2>4. QED BY <2>2, <2>3
<1>5. TableGrows
  BY <1>1 DEF TableGrows
<1>6. \A o \in Objects : RowRev(o)' = RowRev(o) /\ OnDisk'[o] = OnDisk[o]
  BY <1>1 DEF RowRev, OnDisk
<1>7. GraphAhead'
  <2> SUFFICES ASSUME NEW o \in Objects, Present(o)'
               PROVE  OnDisk'[o] <= graph'[o].ver /\ graph'[o].rev <= RowRev(o)'
    BY DEF GraphAhead
  <2>1. CASE o \in S
    BY <1>2, <1>6, <2>1
  <2>2. CASE o \notin S
    BY <1>3, <1>6, <2>2 DEF WBInv, GraphAhead, Present
  <2>3. QED BY <2>1, <2>2
<1>8. Counted'
  <2> SUFFICES ASSUME NEW o \in Objects PROVE InMemory'[o] <= last'[o] /\ OnDisk'[o] <= last'[o]
    BY DEF Counted
  <2>1. CASE o \in S
    <3>1. InMemory'[o] = last[o] + 1
      BY <1>2, <2>1 DEF InMemory, Version
    <3>2. QED BY <1>2, <1>6, <2>1, <3>1
  <2>2. CASE o \notin S
    BY <1>3, <1>6, <2>2 DEF WBInv, Counted, InMemory
  <2>3. QED BY <2>1, <2>2
<1>9. MarksPresent'
  <2> SUFFICES ASSUME NEW o \in dirty' PROVE graph'[o] # Absent
    BY DEF MarksPresent, Present
  <2>1. CASE o \in S
    BY <1>2, <2>1
  <2>2. CASE o \notin S
    BY <1>1, <1>3, <2>2 DEF WBInv, MarksPresent, Present, TypeInv, TypeOK
  <2>3. QED BY <2>1, <2>2
<1>10. ASSUME NEW u \in Tasks PROVE Sound(u)'
  <2>1. CASE u = t
    <3>1. task'[t].pc = "persist"
      BY <1>1, TaskType DEF TaskState, TypeInv, TypeOK
    <3>2. QED BY <2>1, <3>1 DEF Sound, TakenSteps, SingleSteps, WritingSteps
  <2>2. CASE u # t
    BY <1>1, <1>4, <1>5, <2>2, OthersSound DEF TypeInv, TypeOK, WBInv
  <2>3. QED BY <2>1, <2>2
<1>11. AbstractStep
  <2>1. \A o \in S : InMemory'[o] > InMemory[o] /\ InMemory'[o] > OnDisk[o]
    <3> SUFFICES ASSUME NEW o \in S PROVE InMemory'[o] > InMemory[o] /\ InMemory'[o] > OnDisk[o]
      OBVIOUS
    <3>1. InMemory'[o] = last[o] + 1
      BY <1>2 DEF InMemory, Version
    <3>2. QED BY <1>2, <3>1
  <2>2. InMemory' = [o \in Objects |-> IF o \in S THEN InMemory'[o] ELSE InMemory[o]]
    BY <1>3 DEF InMemory
  <2>3. OnDisk' = OnDisk
    BY <1>1 DEF OnDisk
  <2>4. WB!Change(S)
    BY <2>1, <2>2, <2>3 DEF WB!Change
  <2>5. QED BY <2>4 DEF AbstractStep, WB!Next
<1>12. QED BY <1>7, <1>8, <1>9, <1>10, <1>11 DEF WBInv

\* The commands but for splits and merges.
LEMMA CommandStep ==
    ASSUME NoStacks, TypeInv, TypeInv', WBInv, NEW t \in Tasks, Command(t)
    PROVE  WBInv' /\ AbstractStep
<1>1. ASSUME NEW o \in Objects, Touch(t, o) PROVE WBInv' /\ AbstractStep
  <2> DEFINE c == [x \in {o} |-> [graph[x] EXCEPT !.ver = Fresh(x)]]
  <2>1. graph[o] \in Entry /\ Fresh(o) \in Nat /\ graph[o].rev <= RowRev(o)
    BY <1>1, EntryType DEF Touch, Present, Fresh, WBInv, GraphAhead
  <2>2. c[o] \in Entry /\ c[o].ver = Fresh(o) /\ c[o].rev <= RowRev(o)
    BY <2>1 DEF Entry
  <2>3. Mutate(t, {o}, c)
    BY <1>1 DEF Touch
  <2>4. QED
    <3> HIDE DEF c
    <3> QED BY <2>2, <2>3, MutateStep
<1>2. ASSUME NEW n \in Objects, Spawn(t, n) PROVE WBInv' /\ AbstractStep
  <2> DEFINE c == [x \in {n} |-> [ver |-> Fresh(x), qty |-> InitQty, rev |-> 0]]
  <2>1. Fresh(n) \in Nat /\ RowRev(n) \in Nat /\ InitQty \in Nat
    BY EntryType, WorldStoreAssumption DEF Fresh
  <2>2. c[n] \in Entry /\ c[n].ver = Fresh(n) /\ c[n].rev <= RowRev(n)
    BY <2>1 DEF Entry
  <2>3. Mutate(t, {n}, c)
    BY <1>2 DEF Spawn
  <2>4. QED
    <3> HIDE DEF c
    <3> QED BY <2>2, <2>3, MutateStep
<1>3. ASSUME NEW s \in Objects, NEW d \in Objects, Transfer(t, s, d) PROVE WBInv' /\ AbstractStep
  <2> DEFINE c == [x \in {s, d} |->
           [graph[x] EXCEPT !.ver = Fresh(x), !.qty = IF x = s THEN @ - 1 ELSE @ + 1]]
  <2>1. /\ graph[s] \in Entry /\ graph[d] \in Entry /\ graph[s].qty > 1 /\ s # d
        /\ graph[s].rev <= RowRev(s) /\ graph[d].rev <= RowRev(d)
        /\ Fresh(s) \in Nat /\ Fresh(d) \in Nat
    BY <1>3, EntryType DEF Transfer, Present, Fresh, WBInv, GraphAhead
  <2>2. graph[s].qty - 1 \in Nat /\ graph[d].qty + 1 \in Nat
    BY <2>1 DEF Entry
  <2>3. /\ c[s] = [graph[s] EXCEPT !.ver = Fresh(s), !.qty = graph[s].qty - 1]
        /\ c[d] = [graph[d] EXCEPT !.ver = Fresh(d), !.qty = graph[d].qty + 1]
    BY <2>1
  <2>4. Mutate(t, {s, d}, c)
    BY <1>3 DEF Transfer
  <2> HIDE DEF c
  <2>5. c[s] \in Entry /\ c[s].ver = Fresh(s) /\ c[s].rev <= RowRev(s)
    BY <2>1, <2>2, <2>3 DEF Entry
  <2>6. c[d] \in Entry /\ c[d].ver = Fresh(d) /\ c[d].rev <= RowRev(d)
    BY <2>1, <2>2, <2>3 DEF Entry
  <2>7. QED BY <2>4, <2>5, <2>6, MutateStep
<1>4. QED BY <1>1, <1>2, <1>3 DEF Command, Split, Merge, NoStacks

(***************************************************************************)
(* persist_changes.                                                        *)
(***************************************************************************)

\* persist_changes takes the marks.
LEMMA TakeStep ==
    ASSUME TypeInv, TypeInv', WBInv, NEW t \in Tasks, Take(t)
    PROVE  WBInv' /\ AbstractStep
<1>1. graph' = graph /\ db' = db /\ UNCHANGED last /\ dirty' = {}
  BY DEF Take
<1>2. CASE Finish(t)
  BY <1>1, <1>2, FinishSound, Quiet, SaveStep DEF Finish
<1>3. CASE ~Finish(t)
  <2>1. PICK q \in Orders(dirty) : Become(t, [task[t] EXCEPT !.pc = "snap", !.pending = q])
    BY <1>3 DEF Take
  <2> DEFINE r == [task[t] EXCEPT !.pc = "snap", !.pending = q]
  <2>2. r.pc = "snap" /\ r.pending = q
    BY TaskType DEF TaskState
  <2>3. Become(t, r)
    BY <2>1
  <2> HIDE DEF r
  <2>4. task'[t] = r
    BY <2>3, BecomeValue
  <2>5. \A o \in Ids(q) : Present(o)
    BY DEF Orders, WBInv, MarksPresent
  <2>6. Sound(t)'
    BY <1>1, <2>2, <2>4, <2>5 DEF Sound, Pend, Present, WritingSteps
  <2>7. QED BY <1>1, <2>3, <2>6, Quiet, SaveStep
<1>4. QED BY <1>2, <1>3

\* It clones what it took.
LEMMA SnapshotStep ==
    ASSUME TypeInv, TypeInv', WBInv, NEW t \in Tasks, Snapshot(t)
    PROVE  WBInv' /\ AbstractStep
<1>1. graph' = graph /\ db' = db /\ UNCHANGED <<last, dirty>> /\ task[t].pc = "snap"
  BY DEF Snapshot, At
<1>2. \A o \in dirty' : Present(o)'
  BY <1>1 DEF WBInv, MarksPresent, Present
<1>3. CASE Finish(t)
  BY <1>1, <1>2, <1>3, FinishSound, Quiet, SaveStep DEF Finish
<1>4. CASE ~Finish(t)
  <2> DEFINE s == Clones(task[t].pending)
             r == [task[t] EXCEPT !.pc = "save", !.snap = s]
  <2>1. Become(t, r)
    BY <1>4 DEF Snapshot
  <2>2. r.pc = "save" /\ r.pending = task[t].pending /\ r.snap = s
    BY TaskType DEF TaskState
  <2> HIDE DEF r
  <2>3. task'[t] = r
    BY <2>1, BecomeValue
  <2>4. \A o \in Pend(t) : o \in Objects /\ Present(o)
    BY <1>1, TaskType DEF WBInv, Sound, TakenSteps
  <2>5. /\ \A o \in Pend(t) : s[o] # Absent
        /\ \A o \in Objects : s[o] # Absent =>
             /\ Present(o) /\ s[o].ver <= graph[o].ver /\ s[o].rev <= RowRev(o) /\ OnDisk[o] <= s[o].ver
    BY <2>4, ClonesSound DEF Pend
  <2> HIDE DEF s
  <2>6. \A o \in Objects : CloneSound(t, o)'
    BY <1>1, <2>2, <2>3, <2>5 DEF CloneSound, Present, RowRev, OnDisk
  <2>7. Pend(t)' = Pend(t)
    BY <2>2, <2>3 DEF Pend
  <2>8. Sound(t)'
    BY <1>1, <2>2, <2>3, <2>4, <2>5, <2>6, <2>7 DEF Sound, Present
  <2>9. QED BY <1>1, <1>2, <2>1, <2>8, Quiet, SaveStep
<1>5. QED BY <1>3, <1>4

\* It writes the clones, or fails to.
LEMMA SaveBatchStep ==
    ASSUME TypeInv, TypeInv', WBInv, NEW t \in Tasks, Save(t)
    PROVE  WBInv' /\ AbstractStep
<1> DEFINE q == task[t].pending
           s == task[t].snap
<1>1. graph' = graph /\ UNCHANGED <<last, dirty>> /\ task[t].pc = "save" /\ task[t].pc \in WritingSteps
  BY DEF Save, At, WritingSteps
<1>2. \A o \in dirty' : Present(o)'
  BY <1>1 DEF WBInv, MarksPresent, Present
<1>3. \A o \in Pend(t) : o \in Objects /\ Present(o)
  BY <1>1, TaskType DEF WBInv, Sound, TakenSteps
<1>4. CASE Conflicts(q, s) = {} /\ Commit(q, s)
           /\ Become(t, [task[t] EXCEPT !.pc = "apply", !.metas = Zipped(q, s)])
  <2> DEFINE m == Zipped(q, s)
             r == [task[t] EXCEPT !.pc = "apply", !.metas = m]
  <2>1. \A o \in Objects : m[o] <= RowRev(o)'
    BY <1>1, <1>4, MetasBounded
  <2>2. TableGrows
    BY <1>1, <1>4, CommitGrows
  <2> HIDE DEF m
  <2>3. r.pc = "apply" /\ r.metas = m
    BY TaskType DEF TaskState
  <2>4. Become(t, r)
    BY <1>4 DEF m
  <2> HIDE DEF r
  <2>5. task'[t] = r
    BY <2>4, BecomeValue
  <2>6. Sound(t)'
    BY <2>1, <2>3, <2>5 DEF Sound, TakenSteps, SingleSteps, WritingSteps
  <2>7. QED BY <1>1, <1>2, <2>2, <2>4, <2>6, Quiet, SaveStep
<1>5. CASE \E i \in Conflicts(q, s) :
             Become(t, [task[t] EXCEPT !.pc = "reload", !.id = q[i]]) /\ UNCHANGED db
  <2>1. PICK i \in Conflicts(q, s) :
             Become(t, [task[t] EXCEPT !.pc = "reload", !.id = q[i]]) /\ UNCHANGED db
    BY <1>5
  <2> DEFINE r == [task[t] EXCEPT !.pc = "reload", !.id = q[i]]
  <2>2. r.pc = "reload" /\ r.pending = q /\ r.id = q[i]
    BY TaskType DEF TaskState
  <2>3. Become(t, r)
    BY <2>1
  <2> HIDE DEF r
  <2>4. task'[t] = r
    BY <2>3, BecomeValue
  <2>5. Pend(t)' = Pend(t) /\ q[i] \in Pend(t)
    BY <2>2, <2>4 DEF Pend, Ids, Conflicts, Written
  <2>6. Sound(t)'
    BY <1>1, <1>3, <2>2, <2>4, <2>5 DEF Sound, Present, WritingSteps
  <2>7. QED BY <1>1, <1>2, <2>1, <2>3, <2>6, Quiet, SaveStep
<1>6. QED BY <1>4, <1>5 DEF Save

\* It marks again what it took.
LEMMA RemarkStep ==
    ASSUME TypeInv, TypeInv', WBInv, NEW t \in Tasks,
           SaveFails(t) \/ Remark(t) \/ ReloadFails(t)
    PROVE  WBInv' /\ AbstractStep
<1>1. graph' = graph /\ db' = db /\ UNCHANGED last
  BY DEF SaveFails, Remark, ReloadFails
<1>2. CASE SaveFails(t)
  <2> DEFINE r == [task[t] EXCEPT !.pc = "remark"]
  <2>1. r.pc = "remark" /\ r.pending = task[t].pending
    BY TaskType DEF TaskState
  <2>2. Become(t, r)
    BY <1>2 DEF SaveFails
  <2> HIDE DEF r
  <2>3. task'[t] = r
    BY <2>2, BecomeValue
  <2>4. Pend(t)' = Pend(t) /\ \A o \in Pend(t) : Present(o)
    BY <1>2, <2>1, <2>3 DEF Pend, SaveFails, At, WBInv, Sound, TakenSteps
  <2>5. Sound(t)'
    BY <1>1, <2>1, <2>3, <2>4 DEF Sound, Present, WritingSteps
  <2>6. \A o \in dirty' : Present(o)'
    BY <1>1, <1>2 DEF SaveFails, WBInv, MarksPresent, Present
  <2>7. QED BY <1>1, <2>2, <2>5, <2>6, Quiet, SaveStep
<1>3. CASE Remark(t)
  <2>1. \A o \in dirty' : Present(o)'
    BY <1>1, <1>3 DEF Remark, MarkMany, At, WBInv, MarksPresent, Sound, TakenSteps, Present
  <2>2. Finish(t)
    BY <1>3 DEF Remark
  <2>3. QED BY <1>1, <2>1, <2>2, FinishSound, Quiet, SaveStep DEF Finish
<1>4. CASE ReloadFails(t)
  <2>1. \A o \in dirty' : Present(o)'
    BY <1>1, <1>4 DEF ReloadFails, WBInv, MarksPresent, Present
  <2>2. Finish(t)
    BY <1>4 DEF ReloadFails
  <2>3. QED BY <1>1, <2>1, <2>2, FinishSound, Quiet, SaveStep DEF Finish
<1>5. QED BY <1>2, <1>3, <1>4

\* It takes the new revisions over.
LEMMA ApplyStep ==
    ASSUME TypeInv, TypeInv', WBInv, NEW t \in Tasks, Apply(t) \/ FullApply(t)
    PROVE  WBInv' /\ AbstractStep
<1>1. /\ graph' = WithMetas(task[t].metas) /\ db' = db /\ Finish(t) /\ UNCHANGED last
      /\ dirty' \subseteq dirty /\ task[t].pc \in {"apply", "fullapply"}
  BY DEF Apply, FullApply, At
<1>2. task[t].metas \in [Objects -> Nat]
  BY TaskType DEF TaskState
<1>3. \A o \in Objects : task[t].metas[o] <= RowRev(o)'
  BY <1>1 DEF WBInv, Sound, RowRev
<1>4. VersionsStay
  BY <1>1, <1>2, <1>3, MetasStay
<1>5. TableGrows
  BY <1>1 DEF TableGrows
<1>6. \A o \in dirty' : Present(o)'
  BY <1>1, <1>4 DEF VersionsStay, WBInv, MarksPresent, Present, TypeInv, TypeOK
<1>7. QED BY <1>1, <1>4, <1>5, <1>6, FinishSound, SaveStep DEF Finish

\* It reads the row it was in conflict with.
LEMMA ReloadStep ==
    ASSUME TypeInv, TypeInv', WBInv, NEW t \in Tasks, Reload(t)
    PROVE  WBInv' /\ AbstractStep
<1> DEFINE row == db[task[t].id]
           r == [task[t] EXCEPT !.pc = "refresh", !.row = row]
<1>1. graph' = graph /\ db' = db /\ UNCHANGED <<last, dirty>> /\ task[t].pc = "reload" /\ Become(t, r)
  BY DEF Reload, At
<1>2. r.pc = "refresh" /\ r.pending = task[t].pending /\ r.row = row /\ r.id = task[t].id
  BY TaskType DEF TaskState
<1> HIDE DEF r
<1>3. task'[t] = r
  BY <1>1, BecomeValue
<1>4. task[t].id \in Objects /\ db[task[t].id] # Absent
  BY <1>1 DEF TypeInv, Located
<1>5. r.row.rev <= RowRev(r.id)
  <2>1. RowRev(task[t].id) = row.rev /\ RowRev(task[t].id) \in Nat
    BY <1>4, EntryType DEF RowRev
  <2>2. QED BY <1>2, <2>1
<1>6. Pend(t)' = Pend(t) /\ task[t].id \in Pend(t) /\ \A o \in Pend(t) : Present(o)
  BY <1>1, <1>2, <1>3 DEF Pend, WBInv, Sound, TakenSteps
<1>7. Sound(t)'
  BY <1>1, <1>2, <1>3, <1>5, <1>6 DEF Sound, Present, WritingSteps, RowRev
<1>8. \A o \in dirty' : Present(o)'
  BY <1>1 DEF WBInv, MarksPresent, Present
<1>9. QED BY <1>1, <1>7, <1>8, Quiet, SaveStep

\* It takes the revision of that row over.
LEMMA RefreshStep ==
    ASSUME TypeInv, TypeInv', WBInv, NEW t \in Tasks, Refresh(t)
    PROVE  WBInv' /\ AbstractStep
<1> DEFINE o == task[t].id
           n == task[t].row.rev
           pc == IF task[t].tries + 1 < Retries THEN "snap" ELSE "giveup"
           k == task[t].tries + 1
           r == [task[t] EXCEPT !.pc = pc, !.tries = k, !.id = Absent, !.row = Absent, !.snap = NoSnap]
<1>1. task[t].pc = "refresh" /\ db' = db /\ UNCHANGED last /\ Become(t, r) /\ dirty' = dirty \cup {o}
  BY DEF Refresh, At, Mark
<1>2. o \in Objects /\ o \in Pend(t) /\ Present(o) /\ n \in Nat /\ n <= RowRev(o)
  <2>1. o \in Pend(t) /\ Present(o) /\ n <= RowRev(o)
    BY <1>1 DEF WBInv, Sound, TakenSteps
  <2>2. o \in Objects /\ task[t].row # Absent
    BY <1>1 DEF TypeInv, Located
  <2>3. task[t].row \in Entry
    BY <2>2, TaskType DEF TaskState, Slot
  <2>4. QED BY <2>1, <2>2, <2>3 DEF Entry
<1>3. graph' = [graph EXCEPT ![o].rev = n]
  BY <1>2 DEF Refresh
<1>4. VersionsStay
  BY <1>1, <1>2, <1>3, RevisionStays DEF Present
<1>5. pc \in {"snap", "giveup"}
  OBVIOUS
<1> HIDE DEF pc, k
<1>6. r.pc = pc /\ r.pending = task[t].pending
  BY TaskType DEF TaskState
<1> HIDE DEF r
<1>7. task'[t] = r
  BY <1>1, BecomeValue
<1>8. Pend(t)' = Pend(t) /\ \A x \in Pend(t) : x \in Objects /\ Present(x)
  BY <1>1, <1>6, <1>7, TaskType DEF Pend, WBInv, Sound, TakenSteps
<1>9. \A x \in Objects : Present(x) => Present(x)'
  BY <1>4 DEF VersionsStay, Present
<1>10. Sound(t)'
  BY <1>5, <1>6, <1>7, <1>8, <1>9 DEF Sound, WritingSteps
<1>11. \A x \in dirty' : Present(x)'
  BY <1>1, <1>2, <1>9 DEF WBInv, MarksPresent, TypeInv, TypeOK
<1>12. TableGrows
  BY <1>1 DEF TableGrows
<1>13. QED BY <1>1, <1>4, <1>10, <1>11, <1>12, SaveStep

\* It goes on to flush_dirty.
LEMMA GiveUpStep ==
    ASSUME TypeInv, TypeInv', WBInv, NEW t \in Tasks, GiveUp(t)
    PROVE  WBInv' /\ AbstractStep
<1>1. graph' = graph /\ db' = db /\ UNCHANGED last /\ dirty' = {} /\ task[t].pc = "giveup"
  BY DEF GiveUp, At
<1>2. CASE Finish(t)
  BY <1>1, <1>2, FinishSound, Quiet, SaveStep DEF Finish
<1>3. CASE ~Finish(t)
  <2>1. PICK q \in Orders(MarkMany(Pend(t))) :
          Become(t, [Idle EXCEPT !.pc = "fsave", !.pending = q, !.snap = Clones(q)])
    BY <1>3 DEF GiveUp
  <2> DEFINE s == Clones(q)
             r == [Idle EXCEPT !.pc = "fsave", !.pending = q, !.snap = s]
  <2>2. r.pc = "fsave" /\ r.pending = q /\ r.snap = s
    BY DEF Idle
  <2>3. Become(t, r)
    BY <2>1
  <2> HIDE DEF r
  <2>4. task'[t] = r
    BY <2>3, BecomeValue
  <2>5. \A o \in Ids(q) : o \in Objects /\ Present(o)
    <3>1. Ids(q) = dirty \cup Pend(t)
      BY DEF Orders, MarkMany
    <3>2. QED BY <1>1, <3>1, TaskType DEF WBInv, MarksPresent, Sound, TakenSteps, TypeInv, TypeOK
  <2>6. /\ \A o \in Ids(q) : s[o] # Absent
        /\ \A o \in Objects : s[o] # Absent =>
             /\ Present(o) /\ s[o].ver <= graph[o].ver /\ s[o].rev <= RowRev(o) /\ OnDisk[o] <= s[o].ver
    BY <2>5, ClonesSound
  <2> HIDE DEF s
  <2>7. \A o \in Objects : CloneSound(t, o)'
    BY <1>1, <2>2, <2>4, <2>6 DEF CloneSound, Present, RowRev, OnDisk
  <2>8. Pend(t)' = Ids(q)
    BY <2>2, <2>4 DEF Pend
  <2>9. Sound(t)'
    BY <1>1, <2>2, <2>4, <2>5, <2>6, <2>7, <2>8 DEF Sound, Present
  <2>10. QED BY <1>1, <2>3, <2>9, Quiet, SaveStep
<1>4. QED BY <1>2, <1>3

(***************************************************************************)
(* flush_dirty.                                                            *)
(***************************************************************************)

\* flush_dirty writes all marks at once.
LEMMA FlushSaveStep ==
    ASSUME TypeInv, TypeInv', WBInv, NEW t \in Tasks, FlushSave(t)
    PROVE  WBInv' /\ AbstractStep
<1> DEFINE q == task[t].pending
           s == task[t].snap
<1>1. UNCHANGED <<last, dirty>> /\ task[t].pc = "fsave" /\ task[t].pc \in WritingSteps
  BY DEF FlushSave, At, WritingSteps
<1>2. CASE Conflicts(q, s) = {} /\ Commit(q, s) /\ graph' = WithMetas(Zipped(q, s)) /\ Release(t)
  <2>1. \A o \in Objects : Zipped(q, s)[o] <= RowRev(o)'
    BY <1>1, <1>2, MetasBounded
  <2>2. TableGrows
    BY <1>1, <1>2, CommitGrows
  <2>3. Zipped(q, s) \in [Objects -> Nat]
    BY ZippedType, TaskType DEF TaskState
  <2>4. VersionsStay
    BY <1>2, <2>1, <2>3, MetasStay
  <2>5. \A o \in dirty' : Present(o)'
    BY <1>1, <2>4 DEF VersionsStay, WBInv, MarksPresent, Present, TypeInv, TypeOK
  <2>6. Finish(t)
    BY <1>2 DEF Release
  <2>7. QED BY <1>1, <2>2, <2>4, <2>5, <2>6, FinishSound, SaveStep DEF Finish
<1>3. CASE \E i \in Conflicts(q, s) :
             Become(t, [task[t] EXCEPT !.pc = "freload", !.id = q[i]]) /\ UNCHANGED <<graph, db, holder>>
  <2>1. PICK i \in Conflicts(q, s) :
             Become(t, [task[t] EXCEPT !.pc = "freload", !.id = q[i]]) /\ UNCHANGED <<graph, db, holder>>
    BY <1>3
  <2> DEFINE r == [task[t] EXCEPT !.pc = "freload", !.id = q[i]]
  <2>2. r.pc = "freload" /\ r.pending = q /\ r.snap = s
    BY TaskType DEF TaskState
  <2>3. Become(t, r)
    BY <2>1
  <2> HIDE DEF r
  <2>4. task'[t] = r
    BY <2>3, BecomeValue
  <2>5. /\ \A o \in Pend(t) : Present(o) /\ s[o] # Absent
        /\ \A o \in Objects : CloneSound(t, o)
    BY <1>1 DEF WBInv, Sound, TakenSteps
  <2>6. Pend(t)' = Pend(t)
    BY <2>2, <2>4 DEF Pend
  <2>7. \A o \in Objects : CloneSound(t, o)'
    BY <2>1, <2>2, <2>4, <2>5 DEF CloneSound, Present, RowRev, OnDisk
  <2>8. Sound(t)'
    BY <2>1, <2>2, <2>4, <2>5, <2>6, <2>7 DEF Sound, Present
  <2>9. \A o \in dirty' : Present(o)'
    BY <1>1, <2>1 DEF WBInv, MarksPresent, Present
  <2>10. QED BY <1>1, <2>1, <2>3, <2>8, <2>9, Quiet, SaveStep
<1>4. QED BY <1>2, <1>3 DEF FlushSave

\* It fails for another reason than a conflict.
LEMMA FlushErrorStep ==
    ASSUME TypeInv, TypeInv', WBInv, NEW t \in Tasks,
           FlushSaveFails(t) \/ FlushReloadFails(t) \/ SaveOneFails(t)
    PROVE  WBInv' /\ AbstractStep
<1>1. graph' = graph /\ db' = db /\ UNCHANGED last /\ Finish(t)
  BY DEF FlushSaveFails, FlushReloadFails, SaveOneFails, Drop, Release
<1>2. \A o \in dirty : Present(o)
  BY DEF WBInv, MarksPresent
<1>3. CASE FlushSaveFails(t)
  <2>1. \A o \in Pend(t) : Present(o)
    BY <1>3 DEF FlushSaveFails, At, WBInv, Sound, TakenSteps
  <2>2. \A o \in dirty' : Present(o)'
    BY <1>1, <1>2, <1>3, <2>1 DEF FlushSaveFails, MarkMany, Present
  <2>3. QED BY <1>1, <2>2, FinishSound, Quiet, SaveStep DEF Finish
<1>4. CASE ~FlushSaveFails(t)
  <2>1. dirty' = dirty
    BY <1>4 DEF FlushReloadFails, SaveOneFails, Drop
  <2>2. \A o \in dirty' : Present(o)'
    BY <1>1, <1>2, <2>1 DEF Present
  <2>3. QED BY <1>1, <2>2, FinishSound, Quiet, SaveStep DEF Finish
<1>5. QED BY <1>3, <1>4

\* It takes the revision of the row it was in conflict with, and tries again
\* with a new clone or row by row.
LEMMA FlushReloadStep ==
    ASSUME TypeInv, TypeInv', WBInv, NEW t \in Tasks, FlushReload(t)
    PROVE  WBInv' /\ AbstractStep
<1> DEFINE o == task[t].id
           n == task[t].tries + 1
           m == db[o].rev
           g == [graph EXCEPT ![o].rev = m]
           pc == IF n < Retries THEN "fsave" ELSE "single"
           k == IF n < Retries THEN n ELSE 0
           sn == [task[t].snap EXCEPT ![o] = g[o]]
           r == [task[t] EXCEPT !.pc = pc, !.tries = k, !.id = Absent, !.snap = sn]
<1>1. task[t].pc = "freload" /\ db' = db /\ UNCHANGED <<last, dirty>> /\ graph' = g /\ Become(t, r)
  BY DEF FlushReload, At
<1>2. /\ o \in Objects /\ Present(o) /\ db[o] # Absent
      /\ graph[o] \in Entry /\ db[o] \in Entry /\ graph \in [Objects -> Slot]
      /\ task[t].snap \in [Objects -> Slot]
  <2>1. o \in Objects /\ graph[o] # Absent /\ db[o] # Absent
    BY <1>1 DEF TypeInv, Located
  <2>2. task[t].snap \in [Objects -> Slot]
    BY TaskType DEF TaskState
  <2>3. graph \in [Objects -> Slot]
    BY DEF TypeInv, TypeOK
  <2>4. graph[o] \in Entry /\ db[o] \in Entry
    BY <2>1, EntryType
  <2>5. QED BY <2>1, <2>2, <2>3, <2>4 DEF Present
<1>3. m \in Nat /\ m = RowRev(o) /\ OnDisk[o] <= graph[o].ver
  BY <1>2 DEF RowRev, Entry, WBInv, GraphAhead
<1>4. VersionsStay
  <2>1. graph' = [graph EXCEPT ![o].rev = m] /\ db' = db
    BY <1>1
  <2>2. o \in Objects /\ m \in Nat /\ graph[o] # Absent /\ m <= RowRev(o)
    BY <1>2, <1>3 DEF Present
  <2> HIDE DEF o, m
  <2>3. QED BY <2>1, <2>2, RevisionStays
<1>5. g[o] \in Entry /\ g[o].ver = graph[o].ver /\ g[o].rev = m /\ sn[o] = g[o]
      /\ \A x \in Objects : x # o => g[x] = graph[x] /\ sn[x] = task[t].snap[x]
  <2>1. /\ g[o] = [graph[o] EXCEPT !.rev = m]
        /\ \A x \in Objects : x # o => g[x] = graph[x]
    BY <1>2
  <2>2. g[o] \in Entry /\ g[o].ver = graph[o].ver /\ g[o].rev = m
    BY <1>2, <1>3, <2>1 DEF Entry
  <2> HIDE DEF g
  <2>3. sn[o] = g[o] /\ \A x \in Objects : x # o => sn[x] = task[t].snap[x]
    BY <1>2
  <2>4. QED BY <2>1, <2>2, <2>3
<1>6. pc \in {"fsave", "single"}
  OBVIOUS
<1> HIDE DEF g, sn, pc, k
<1>7. r.pc = pc /\ r.pending = task[t].pending /\ r.snap = sn
  BY TaskType DEF TaskState
<1> HIDE DEF r
<1>8. task'[t] = r
  BY <1>1, BecomeValue
<1>9. \A x \in Objects : Present(x) => Present(x)'
  BY <1>4 DEF VersionsStay, Present
<1>10. /\ \A x \in Pend(t) : x \in Objects /\ Present(x) /\ task[t].snap[x] # Absent
       /\ \A x \in Objects : CloneSound(t, x)
  BY <1>1, TaskType DEF WBInv, Sound, TakenSteps, WritingSteps
<1>11. Pend(t)' = Pend(t)
  BY <1>7, <1>8 DEF Pend
<1>12. ASSUME NEW x \in Objects PROVE CloneSound(t, x)'
  <2>1. CASE x = o
    <3>1. /\ graph'[x] = g[x] /\ task'[t].snap[x] = g[x] /\ graph'[x] # Absent
          /\ RowRev(x)' = m /\ OnDisk'[x] <= g[x].ver /\ g[x].ver \in Nat
      <4>1. RowRev(x)' = RowRev(x) /\ OnDisk'[x] = OnDisk[x]
        BY <1>1 DEF RowRev, OnDisk
      <4>2. RowRev(x) = m /\ OnDisk[x] <= g[x].ver
        BY <1>3, <1>5, <2>1
      <4>3. g[x] \in Entry
        BY <1>5, <2>1
      <4>4. QED BY <1>1, <1>5, <1>7, <1>8, <2>1, <4>1, <4>2, <4>3, EntryType DEF Entry
    <3>2. QED BY <1>3, <1>5, <2>1, <3>1 DEF CloneSound, Present
  <2>2. CASE x # o
    <3>1. graph'[x] = graph[x] /\ task'[t].snap[x] = task[t].snap[x]
      BY <1>1, <1>5, <1>7, <1>8, <2>2
    <3>2. RowRev(x)' = RowRev(x) /\ OnDisk'[x] = OnDisk[x]
      BY <1>1 DEF RowRev, OnDisk
    <3>3. QED BY <1>10, <3>1, <3>2 DEF CloneSound, Present
  <2>3. QED BY <2>1, <2>2
<1>13. \A x \in Pend(t) : task'[t].snap[x] # Absent
  BY <1>2, <1>5, <1>7, <1>8, <1>10, EntryType
<1>14. Sound(t)'
  BY <1>6, <1>7, <1>8, <1>9, <1>10, <1>11, <1>12, <1>13 DEF Sound
<1>15. \A x \in dirty' : Present(x)'
  BY <1>1, <1>9 DEF WBInv, MarksPresent, TypeInv, TypeOK
<1>16. TableGrows
  BY <1>1 DEF TableGrows
<1>17. QED BY <1>1, <1>4, <1>14, <1>15, <1>16, SaveStep

\* Where the row-by-row save goes after an id.
LEMMA NextIdSound ==
    ASSUME TypeInv, WBInv, NEW t \in Tasks, NextId(t), task[t].pc \in SingleSteps,
           \A o \in Objects : Present(o) => Present(o)'
    PROVE  Sound(t)' /\ \E r : Become(t, r)
<1>1. CASE LastId(t)
  BY <1>1, FinishSound DEF NextId, Release, Finish
<1>2. CASE ~LastId(t)
  <2> DEFINE r == [task[t] EXCEPT !.pc = "single", !.at = @ + 1, !.tries = 0]
  <2>1. Become(t, r)
    BY <1>2 DEF NextId
  <2>2. r.pc = "single" /\ r.pending = task[t].pending
    <3>1. task[t] \in TaskState
      BY TaskType
    <3>2. QED BY ONLY <3>1 DEF TaskState
  <2> HIDE DEF r
  <2>3. task'[t] = r
    BY <2>1, BecomeValue
  <2>4. Pend(t)' = Pend(t) /\ \A o \in Pend(t) : o \in Objects /\ Present(o)
    BY <2>2, <2>3, TaskType DEF Pend, WBInv, Sound
  <2>5. Sound(t)'
    BY <2>2, <2>3, <2>4 DEF Sound, WritingSteps
  <2>6. QED BY <2>1, <2>5
<1>3. QED BY <1>1, <1>2

\* A version that comes back from the table with a new revision is the same.
LEMMA StoredStays ==
    ASSUME NEW o \in Objects, NEW e, e # Absent, e.rev \in Nat, graph[o] # Absent, e.ver = graph[o].ver,
           graph'[o] = e, db'[o] = e, \A x \in Objects : x # o => graph'[x] = graph[x]
    PROVE  VersionsStay
<1>1. RowRev(o)' = e.rev
  BY DEF RowRev
<1>2. QED BY <1>1 DEF VersionsStay

\* One id that is saved on its own.
LEMMA StoredStep ==
    ASSUME TypeInv, TypeInv', WBInv, NEW t \in Tasks, Stored(t), task[t].pc \in SingleSteps,
           Present(Cur(t)), db[Cur(t)] = Absent \/ ~Stale(Cur(t), graph)
    PROVE  WBInv' /\ AbstractStep
<1> DEFINE o == Cur(t)
           n == NewRev(o, graph)
           e == [graph[o] EXCEPT !.rev = n]
<1>1. db' = [db EXCEPT ![o] = e] /\ graph' = [graph EXCEPT ![o] = e] /\ NextId(t) /\ UNCHANGED <<last, dirty>>
  BY DEF Stored
<1>2. /\ o \in Objects /\ graph[o] \in Entry /\ graph[o] # Absent
      /\ graph \in [Objects -> Slot] /\ db \in [Objects -> Slot]
      /\ RowRev(o) \in Nat /\ OnDisk[o] <= graph[o].ver
  <2>1. o \in Objects /\ graph[o] # Absent
    BY TaskType DEF Present
  <2>2. QED BY <2>1, EntryType DEF TypeInv, TypeOK, WBInv, GraphAhead, Present
<1>3. n \in Nat /\ n = RowRev(o) + 1
  <2>1. graph[o].rev \in Nat
    BY <1>2 DEF Entry
  <2>2. CASE db[o] = Absent
    BY <2>2 DEF NewRev, RowRev
  <2>3. CASE db[o] # Absent
    <3>1. db[o].rev = graph[o].rev
      BY <2>3 DEF Stale
    <3>2. NewRev(o, graph) = graph[o].rev + 1 /\ RowRev(o) = db[o].rev
      BY <2>3 DEF NewRev, RowRev
    <3>3. QED BY <2>1, <3>1, <3>2
  <2>4. QED BY <2>2, <2>3
<1> HIDE DEF n
<1>4. e \in Entry /\ e.ver = graph[o].ver /\ e.rev = n
  BY <1>2, <1>3 DEF Entry
<1> HIDE DEF e, o
<1>5. /\ db'[o] = e /\ graph'[o] = e /\ e # Absent
      /\ \A x \in Objects : x # o => db'[x] = db[x] /\ graph'[x] = graph[x]
  BY <1>1, <1>2, <1>4, EntryType
<1>6. TableGrows
  <2>1. /\ Present(o) /\ db'[o] # Absent /\ db'[o].rev = RowRev(o) + 1
        /\ OnDisk[o] <= db'[o].ver /\ db'[o].ver <= graph[o].ver
    BY <1>2, <1>3, <1>4, <1>5 DEF Present, Entry
  <2>2. QED BY <1>5, <2>1 DEF TableGrows
<1>7. e.rev \in Nat /\ e.ver = graph[o].ver
  BY <1>3, <1>4
<1>8. VersionsStay
  BY <1>2, <1>5, <1>7, StoredStays
<1>9. \A x \in Objects : Present(x) => Present(x)'
  BY <1>8 DEF VersionsStay, Present
<1>10. \A x \in dirty' : Present(x)'
  BY <1>1, <1>9 DEF WBInv, MarksPresent, TypeInv, TypeOK
<1>11. QED BY <1>1, <1>6, <1>8, <1>9, <1>10, NextIdSound, SaveStep

\* An id without an object is passed over.
LEMMA SkipMissingStep ==
    ASSUME TypeInv, TypeInv', WBInv, NEW t \in Tasks, SkipMissing(t)
    PROVE  WBInv' /\ AbstractStep
<1>1. /\ graph' = graph /\ db' = db /\ UNCHANGED <<last, dirty>> /\ NextId(t)
      /\ task[t].pc \in SingleSteps
  BY DEF SkipMissing, At, SingleSteps
<1>2. \A o \in Objects : Present(o) => Present(o)'
  BY <1>1 DEF Present
<1>3. \A o \in dirty' : Present(o)'
  BY <1>1 DEF WBInv, MarksPresent, Present
<1>4. Sound(t)' /\ \E r : Become(t, r)
  BY <1>1, <1>2, NextIdSound
<1>5. QED BY <1>1, <1>3, <1>4, Quiet, SaveStep

\* A row that has the expected revision is written.
LEMMA SaveOneStep ==
    ASSUME TypeInv, TypeInv', WBInv, NEW t \in Tasks, SaveOne(t)
    PROVE  WBInv' /\ AbstractStep
<1>1. task[t].pc \in SingleSteps /\ Present(Cur(t))
  BY DEF SaveOne, At, SingleSteps
<1>2. CASE db[Cur(t)] # Absent /\ ~Stale(Cur(t), graph) /\ Stored(t)
  BY <1>1, <1>2, StoredStep
<1>3. CASE ~(db[Cur(t)] # Absent /\ ~Stale(Cur(t), graph) /\ Stored(t))
  <2> DEFINE pc == IF db[Cur(t)] = Absent THEN "sinsert" ELSE "sreload"
             r == [task[t] EXCEPT !.pc = pc]
  <2>1. graph' = graph /\ db' = db /\ UNCHANGED <<last, dirty>> /\ Become(t, r)
    BY <1>3 DEF SaveOne
  <2>2. pc \in {"sinsert", "sreload"}
    OBVIOUS
  <2> HIDE DEF pc
  <2>3. r.pc = pc /\ r.pending = task[t].pending
    BY TaskType DEF TaskState
  <2> HIDE DEF r
  <2>4. task'[t] = r
    BY <2>1, BecomeValue
  <2>5. Pend(t)' = Pend(t) /\ \A o \in Pend(t) : Present(o)
    BY <1>1, <2>3, <2>4 DEF Pend, WBInv, Sound
  <2>6. Sound(t)'
    BY <2>1, <2>2, <2>3, <2>4, <2>5 DEF Sound, WritingSteps, Present
  <2>7. \A o \in dirty' : Present(o)'
    BY <2>1 DEF WBInv, MarksPresent, Present
  <2>8. QED BY <2>1, <2>6, <2>7, Quiet, SaveStep
<1>4. QED BY <1>2, <1>3

\* A row that is not there is inserted.
LEMMA InsertOneStep ==
    ASSUME TypeInv, TypeInv', WBInv, NEW t \in Tasks, InsertOne(t)
    PROVE  WBInv' /\ AbstractStep
<1>1. task[t].pc \in SingleSteps /\ Present(Cur(t))
  BY DEF InsertOne, At, SingleSteps, TypeInv, Located, Present
<1>2. CASE db[Cur(t)] = Absent /\ Stored(t)
  BY <1>1, <1>2, StoredStep
<1>3. CASE Drop(t)
  <2>1. graph' = graph /\ db' = db /\ UNCHANGED <<last, dirty>> /\ Finish(t)
    BY <1>3 DEF Drop, Release
  <2>2. \A o \in dirty' : Present(o)'
    BY <2>1 DEF WBInv, MarksPresent, Present
  <2>3. QED BY <2>1, <2>2, FinishSound, Quiet, SaveStep DEF Finish
<1>4. QED BY <1>2, <1>3 DEF InsertOne

\* A conflict makes the save of one id read its row.
LEMMA ReloadOneStep ==
    ASSUME TypeInv, TypeInv', WBInv, NEW t \in Tasks, ReloadOne(t)
    PROVE  WBInv' /\ AbstractStep
<1> DEFINE o == Cur(t)
           n == db[o].rev
<1>1. /\ task[t].pc = "sreload" /\ task[t].pc \in SingleSteps
      /\ graph' = [graph EXCEPT ![o].rev = n] /\ db' = db /\ UNCHANGED <<last, dirty>>
  BY DEF ReloadOne, At, SingleSteps
<1>2. o \in Objects /\ graph[o] # Absent /\ n \in Nat /\ n <= RowRev(o)
  <2>1. o \in Objects /\ graph[o] # Absent /\ db[o] # Absent
    BY <1>1, TaskType DEF TypeInv, Located
  <2>2. db[o] \in Entry /\ RowRev(o) = n
    BY <2>1, EntryType DEF RowRev
  <2>3. QED BY <2>1, <2>2 DEF Entry
<1> HIDE DEF n, o
<1>3. VersionsStay
  BY <1>1, <1>2, RevisionStays
<1>4. \A x \in Objects : Present(x) => Present(x)'
  BY <1>3 DEF VersionsStay, Present
<1>5. \A x \in dirty' : Present(x)'
  BY <1>1, <1>4 DEF WBInv, MarksPresent, TypeInv, TypeOK
<1>6. TableGrows
  BY <1>1 DEF TableGrows
<1>7. CASE Finish(t)
  BY <1>1, <1>3, <1>5, <1>6, <1>7, FinishSound, SaveStep DEF Finish
<1>8. CASE ~Finish(t)
  <2> DEFINE k == task[t].tries + 1
             r == [task[t] EXCEPT !.pc = "single", !.tries = k]
  <2>1. Become(t, r)
    BY <1>8 DEF ReloadOne, Release
  <2> HIDE DEF k
  <2>2. r.pc = "single" /\ r.pending = task[t].pending
    BY TaskType DEF TaskState
  <2> HIDE DEF r
  <2>3. task'[t] = r
    BY <2>1, BecomeValue
  <2>4. Pend(t)' = Pend(t) /\ \A x \in Pend(t) : x \in Objects /\ Present(x)
    BY <1>1, <2>2, <2>3, TaskType DEF Pend, WBInv, Sound
  <2>5. Sound(t)'
    BY <1>4, <2>2, <2>3, <2>4 DEF Sound, WritingSteps
  <2>6. QED BY <1>1, <1>3, <1>5, <1>6, <2>1, <2>5, SaveStep
<1>9. QED BY <1>7, <1>8

(***************************************************************************)
(* persist_all and ensure_object.                                          *)
(***************************************************************************)

\* persist_all clones the whole graph.
LEMMA FullSnapshotStep ==
    ASSUME TypeInv, TypeInv', WBInv, NEW t \in Tasks, FullSnapshot(t)
    PROVE  WBInv' /\ AbstractStep
<1>1. graph' = graph /\ db' = db /\ UNCHANGED <<last, dirty>>
  BY DEF FullSnapshot
<1>2. PICK q \in Orders({o \in Objects : Present(o)}) :
        Become(t, [task[t] EXCEPT !.pc = "fullsave", !.pending = q, !.snap = Clones(q)])
  BY DEF FullSnapshot
<1> DEFINE s == Clones(q)
           r == [task[t] EXCEPT !.pc = "fullsave", !.pending = q, !.snap = s]
<1>3. r.pc = "fullsave" /\ r.pending = q /\ r.snap = s
  BY TaskType DEF TaskState
<1>4. Become(t, r)
  BY <1>2
<1> HIDE DEF r
<1>5. task'[t] = r
  BY <1>4, BecomeValue
<1>6. \A o \in Ids(q) : o \in Objects /\ Present(o)
  BY DEF Orders
<1>7. /\ \A o \in Ids(q) : s[o] # Absent
      /\ \A o \in Objects : s[o] # Absent =>
           /\ Present(o) /\ s[o].ver <= graph[o].ver /\ s[o].rev <= RowRev(o) /\ OnDisk[o] <= s[o].ver
  BY <1>6, ClonesSound
<1> HIDE DEF s
<1>8. \A o \in Objects : CloneSound(t, o)'
  BY <1>1, <1>3, <1>5, <1>7 DEF CloneSound, Present, RowRev, OnDisk
<1>9. Pend(t)' = Ids(q)
  BY <1>3, <1>5 DEF Pend
<1>10. Sound(t)'
  BY <1>1, <1>3, <1>5, <1>6, <1>7, <1>8, <1>9 DEF Sound, Present
<1>11. \A o \in dirty' : Present(o)'
  BY <1>1 DEF WBInv, MarksPresent, Present
<1>12. QED BY <1>1, <1>4, <1>10, <1>11, Quiet, SaveStep

\* And writes it.
LEMMA FullSaveStep ==
    ASSUME TypeInv, TypeInv', WBInv, NEW t \in Tasks, FullSave(t) \/ FullSaveFails(t)
    PROVE  WBInv' /\ AbstractStep
<1> DEFINE q == task[t].pending
           s == task[t].snap
           m == Zipped(q, s)
           r == [task[t] EXCEPT !.pc = "fullapply", !.metas = m]
<1>1. graph' = graph /\ UNCHANGED <<last, dirty>> /\ task[t].pc \in WritingSteps
  BY DEF FullSave, FullSaveFails, At, WritingSteps
<1>2. \A o \in dirty' : Present(o)'
  BY <1>1 DEF WBInv, MarksPresent, Present
<1>3. CASE Finish(t) /\ db' = db
  BY <1>1, <1>2, <1>3, FinishSound, Quiet, SaveStep DEF Finish
<1>4. CASE Conflicts(q, s) = {} /\ Commit(q, s) /\ Become(t, r)
  <2>1. \A o \in Objects : m[o] <= RowRev(o)'
    BY <1>1, <1>4, MetasBounded
  <2>2. TableGrows
    BY <1>1, <1>4, CommitGrows
  <2> HIDE DEF m
  <2>3. r.pc = "fullapply" /\ r.metas = m
    BY TaskType DEF TaskState
  <2>4. Become(t, r)
    BY <1>4
  <2> HIDE DEF r
  <2>5. task'[t] = r
    BY <2>4, BecomeValue
  <2>6. Sound(t)'
    BY <2>1, <2>3, <2>5 DEF Sound, TakenSteps, SingleSteps, WritingSteps
  <2>7. QED BY <1>1, <1>2, <2>2, <2>4, <2>6, Quiet, SaveStep
<1>5. QED BY <1>3, <1>4 DEF FullSave, FullSaveFails

\* ensure_object reads a row.
LEMMA LoadStep ==
    ASSUME TypeInv, TypeInv', WBInv, NEW t \in Tasks,
           (\E o \in Objects : Ensure(t, o)) \/ Load(t) \/ LoadFails(t)
    PROVE  WBInv' /\ AbstractStep
<1>1. graph' = graph /\ db' = db /\ UNCHANGED <<last, dirty>>
  BY DEF Ensure, Load, LoadFails
<1>2. \A o \in dirty' : Present(o)'
  BY <1>1 DEF WBInv, MarksPresent, Present
<1>3. CASE Finish(t)
  BY <1>1, <1>2, <1>3, FinishSound, Quiet, SaveStep DEF Finish
<1>4. ASSUME NEW o \in Objects, Ensure(t, o) PROVE WBInv' /\ AbstractStep
  <2> DEFINE r == [task[t] EXCEPT !.pc = "load", !.id = o]
  <2>1. Become(t, r)
    BY <1>4 DEF Ensure
  <2>2. r.pc = "load"
    BY TaskType DEF TaskState
  <2> HIDE DEF r
  <2>3. Sound(t)'
    BY <2>1, <2>2, BecomeValue DEF Sound, TakenSteps, SingleSteps, WritingSteps
  <2>4. QED BY <1>1, <1>2, <2>1, <2>3, Quiet, SaveStep
<1>5. CASE Load(t) /\ ~Finish(t)
  <2> DEFINE row == db[task[t].id]
             r == [task[t] EXCEPT !.pc = "cache", !.row = row]
  <2>1. Become(t, r)
    BY <1>5 DEF Load
  <2>2. r.pc = "cache" /\ r.row = row /\ r.id = task[t].id
    BY TaskType DEF TaskState
  <2> HIDE DEF r
  <2>3. task'[t] = r
    BY <2>1, BecomeValue
  <2>4. Sound(t)'
    BY <1>1, <2>2, <2>3 DEF Sound, TakenSteps, SingleSteps, WritingSteps
  <2>5. QED BY <1>1, <1>2, <2>1, <2>4, Quiet, SaveStep
<1>6. QED BY <1>3, <1>4, <1>5 DEF LoadFails

\* What was loaded is still what the table has, unless somebody else was first.
LEMMA CacheStep ==
    ASSUME TypeInv, TypeInv', WBInv, NEW t \in Tasks, Cache(t)
    PROVE  WBInv' /\ AbstractStep
<1> DEFINE o == task[t].id
<1>1. db' = db /\ UNCHANGED <<last, dirty>> /\ Finish(t) /\ o \in Objects /\ task[t].pc = "cache"
  BY DEF Cache, At, TypeInv, Located
<1>2. CASE Present(o)
  <2>1. graph' = graph
    BY <1>2 DEF Cache, MayCache
  <2>2. \A x \in dirty' : Present(x)'
    BY <1>1, <2>1 DEF WBInv, MarksPresent, Present
  <2>3. QED BY <1>1, <2>1, <2>2, FinishSound, Quiet, SaveStep DEF Finish
<1>3. CASE ~Present(o)
  <2> DEFINE e == db[o]
  <2>1. graph' = [graph EXCEPT ![o] = e] /\ e # Absent /\ graph[o] = Absent
    <3>1. task[t].row = e /\ task[t].row # Absent
      BY <1>1, <1>3 DEF WBInv, Sound, TypeInv, Located
    <3>2. graph' = [graph EXCEPT ![o] = task[t].row]
      BY <1>3 DEF Cache, MayCache
    <3>3. QED BY <1>3, <3>1, <3>2 DEF Present
  <2>2. graph \in [Objects -> Slot] /\ e \in Entry
    BY <1>1, <2>1, EntryType DEF TypeInv, TypeOK
  <2>3. graph'[o] = e /\ \A x \in Objects : x # o => graph'[x] = graph[x]
    BY <1>1, <2>1, <2>2
  <2>4. \A x \in Objects : OnDisk'[x] = OnDisk[x] /\ RowRev(x)' = RowRev(x)
    BY <1>1 DEF OnDisk, RowRev
  <2>5. /\ OnDisk[o] = e.ver /\ RowRev(o) = e.rev /\ e.ver \in Nat /\ e.rev \in Nat
        /\ InMemory'[o] = OnDisk[o] /\ InMemory[o] = 0
        /\ \A x \in Objects : x # o => InMemory'[x] = InMemory[x]
    BY <1>1, <2>1, <2>2, <2>3 DEF OnDisk, RowRev, InMemory, Version, Entry
  <2> HIDE DEF e, o
  <2>6. GraphGrows
    <3> SUFFICES ASSUME NEW x \in Objects, Present(x)
                 PROVE  graph'[x] # Absent /\ graph[x].ver <= graph'[x].ver
      BY DEF GraphGrows
    <3>1. x # o
      BY <2>1 DEF Present
    <3>2. graph'[x] = graph[x] /\ graph[x] # Absent /\ graph[x] \in Entry
      BY <2>3, <3>1, EntryType DEF Present
    <3>3. QED BY <3>2 DEF Entry
  <2>7. TableGrows
    BY <1>1 DEF TableGrows
  <2>8. GraphAhead'
    <3> SUFFICES ASSUME NEW x \in Objects, Present(x)'
                 PROVE  OnDisk'[x] <= graph'[x].ver /\ graph'[x].rev <= RowRev(x)'
      BY DEF GraphAhead
    <3>1. CASE x = o
      BY <2>3, <2>4, <2>5, <3>1
    <3>2. CASE x # o
      BY <2>3, <2>4, <3>2 DEF WBInv, GraphAhead, Present
    <3>3. QED BY <3>1, <3>2
  <2>9. Counted'
    BY <1>1, <2>4, <2>5 DEF WBInv, Counted
  <2>10. MarksPresent'
    BY <1>1, <2>1, <2>3 DEF WBInv, MarksPresent, Present, TypeInv, TypeOK
  <2>11. ASSUME NEW u \in Tasks PROVE Sound(u)'
    <3>1. CASE u = t
      BY <1>1, <3>1, FinishSound
    <3>2. CASE u # t
      BY <1>1, <2>6, <2>7, <3>2, OthersSound DEF Finish, Become, TypeInv, TypeOK, WBInv
    <3>3. QED BY <3>1, <3>2
  <2>12. AbstractStep
    <3>1. InMemory' = [InMemory EXCEPT ![o] = OnDisk[o]]
      BY <1>1, <2>5 DEF InMemory
    <3>2. OnDisk' = OnDisk
      BY <1>1 DEF OnDisk
    <3>3. WB!Load(o)
      BY <2>5, <3>1, <3>2 DEF WB!Load
    <3>4. QED BY <1>1, <3>3 DEF AbstractStep, WB!Next
  <2>13. QED BY <2>8, <2>9, <2>10, <2>11, <2>12 DEF WBInv
<1>4. QED BY <1>2, <1>3

(***************************************************************************)
(* Start, crash and the whole.                                             *)
(***************************************************************************)

\* A graph hydrated from the table, and nobody at work.
LEMMA Hydrated ==
    ASSUME TypeInv, graph = Hydrate(db), \A o \in Objects : OnDisk[o] <= last[o],
           dirty = {}, \A t \in Tasks : task[t].pc = "idle"
    PROVE  WBInv /\ InMemory = [o \in Objects |-> IF o \in Deleted THEN 0 ELSE OnDisk[o]]
<1>1. ASSUME NEW o \in Objects
      PROVE  /\ InMemory[o] = IF o \in Deleted THEN 0 ELSE OnDisk[o]
             /\ Present(o) => graph[o] = db[o]
             /\ last[o] \in Nat /\ OnDisk[o] \in Nat
  BY EntryType DEF Hydrate, InMemory, OnDisk, Version, Present
<1>2. GraphAhead
  <2> SUFFICES ASSUME NEW o \in Objects, Present(o)
               PROVE  OnDisk[o] <= graph[o].ver /\ graph[o].rev <= RowRev(o)
    BY DEF GraphAhead
  <2>1. graph[o] = db[o] /\ graph[o] # Absent /\ graph[o] \in Entry
    BY <1>1, EntryType DEF Present
  <2>2. OnDisk[o] = graph[o].ver /\ RowRev(o) = graph[o].rev
    BY <2>1 DEF OnDisk, Version, RowRev
  <2>3. QED BY <2>1, <2>2 DEF Entry
<1>3. Counted
  BY <1>1 DEF Counted
<1>4. MarksPresent
  BY DEF MarksPresent
<1>5. \A t \in Tasks : Sound(t)
  BY DEF Sound, TakenSteps, SingleSteps, WritingSteps
<1>6. InMemory = [o \in Objects |-> IF o \in Deleted THEN 0 ELSE OnDisk[o]]
  BY <1>1 DEF InMemory
<1>7. QED BY <1>2, <1>3, <1>4, <1>5, <1>6 DEF WBInv

\* The start hydrates what the table has.
LEMMA InitSound == Init => WBInv /\ WB!Init
<1> SUFFICES ASSUME Init PROVE WBInv /\ WB!Init
  OBVIOUS
<1>1. TypeInv
  BY InitType
<1>2. graph = Hydrate(db) /\ dirty = {} /\ \A t \in Tasks : task[t].pc = "idle"
  BY DEF Init, Idle
<1>3. \A o \in Objects : OnDisk[o] <= last[o]
  <2> SUFFICES ASSUME NEW o \in Objects PROVE OnDisk[o] <= last[o]
    OBVIOUS
  <2>1. CASE o \in InitRows
    <3>1. db[o] \in Entry /\ db[o] # Absent /\ db[o].ver = 1 /\ last[o] = 1
      BY <2>1, WorldStoreAssumption DEF Init, InitTable, Entry
    <3>2. QED BY <3>1 DEF OnDisk, Version
  <2>2. CASE o \notin InitRows
    BY <2>2 DEF Init, InitTable, OnDisk, Version
  <2>3. QED BY <2>1, <2>2
<1>4. OnDisk \in [Objects -> Nat]
  BY <1>1, EntryType DEF OnDisk
<1>5. QED BY <1>1, <1>2, <1>3, <1>4, Hydrated DEF WB!Init

\* So does a start after a crash.
LEMMA CrashStep ==
    ASSUME TypeInv, TypeInv', WBInv, Crash
    PROVE  WBInv' /\ AbstractStep
<1>1. /\ graph' = Hydrate(db) /\ db' = db /\ last' = last /\ dirty' = {}
      /\ \A t \in Tasks : task'[t] = Idle
  BY DEF Crash
<1>2. Hydrate(db)' = Hydrate(db) /\ OnDisk' = OnDisk
  BY <1>1 DEF Hydrate, OnDisk
<1>3. \A o \in Objects : OnDisk'[o] <= last'[o]
  BY <1>1, <1>2 DEF WBInv, Counted
<1>4. \A t \in Tasks : task'[t].pc = "idle"
  BY <1>1 DEF Idle
<1>5. ASSUME NEW o \in Objects
      PROVE  /\ InMemory'[o] = IF o \in Deleted THEN 0 ELSE OnDisk'[o]
             /\ Present(o)' => graph'[o] = db'[o]
             /\ last'[o] \in Nat /\ OnDisk'[o] \in Nat
  BY <1>1, EntryType DEF Hydrate, InMemory, OnDisk, Version, Present, TypeInv, TypeOK
<1>6. GraphAhead'
  <2> SUFFICES ASSUME NEW o \in Objects, Present(o)'
               PROVE  OnDisk'[o] <= graph'[o].ver /\ graph'[o].rev <= RowRev(o)'
    BY DEF GraphAhead
  <2>1. graph'[o] = db'[o] /\ graph'[o] # Absent /\ graph'[o] \in Entry
    <3>1. db'[o] = db[o] /\ db[o] \in Entry \cup {Absent} /\ Absent \notin Entry
      BY <1>1, EntryType
    <3>2. graph'[o] # Absent /\ graph'[o] = db'[o]
      BY <1>5 DEF Present
    <3>3. QED BY <3>1, <3>2
  <2>2. OnDisk'[o] = graph'[o].ver
    BY <2>1 DEF OnDisk, Version
  <2>3. RowRev(o)' = graph'[o].rev
    BY <2>1 DEF RowRev
  <2>4. QED BY <2>1, <2>2, <2>3 DEF Entry
<1>7. Counted'
  BY <1>3, <1>5 DEF Counted
<1>8. MarksPresent' /\ \A t \in Tasks : Sound(t)'
  BY <1>1, <1>4 DEF MarksPresent, Sound, TakenSteps, SingleSteps, WritingSteps
<1>9. InMemory' = [o \in Objects |-> IF o \in Deleted THEN 0 ELSE OnDisk'[o]]
  BY <1>5 DEF InMemory
<1>10. WBInv'
  BY <1>6, <1>7, <1>8 DEF WBInv
<1>11. AbstractStep
  BY <1>2, <1>9 DEF AbstractStep, WB!Next, WB!Restart
<1>12. QED BY <1>10, <1>11

\* Nothing happens.
LEMMA StutterStep ==
    ASSUME TypeInv, WBInv, UNCHANGED vars
    PROVE  WBInv' /\ AbstractStep
<1>1. InMemory' = InMemory /\ OnDisk' = OnDisk
  BY DEF vars, InMemory, OnDisk
<1>2. \A o \in Objects : RowRev(o)' = RowRev(o) /\ (Present(o)' <=> Present(o))
  BY DEF vars, RowRev, Present
<1>3. GraphAhead' /\ Counted' /\ MarksPresent'
  BY <1>1, <1>2 DEF vars, WBInv, GraphAhead, Counted, MarksPresent, TypeInv, TypeOK
<1>4. ASSUME NEW t \in Tasks PROVE Sound(t)'
  <2>1. task'[t] = task[t] /\ graph' = graph /\ db' = db
    BY DEF vars
  <2>2. \A o \in Objects : CloneSound(t, o)' <=> CloneSound(t, o)
    BY <1>1, <1>2, <2>1 DEF CloneSound
  <2>3. Pend(t)' = Pend(t) /\ Sound(t)
    BY <2>1 DEF Pend, WBInv
  <2>4. QED BY <2>1, <2>2, <2>3 DEF Sound, Present, RowRev
<1>5. QED BY <1>1, <1>3, <1>4 DEF WBInv, AbstractStep

\* Every step keeps the invariant and is one of WriteBehind, or none.
LEMMA NextStep ==
    ASSUME NoStacks, TypeInv, TypeInv', WBInv, [Next]_vars
    PROVE  WBInv' /\ AbstractStep
<1>1. ASSUME NEW t \in Tasks, Command(t) PROVE WBInv' /\ AbstractStep
  BY <1>1, CommandStep
<1>2. ASSUME NEW t \in Tasks, PersistChanges(t) PROVE WBInv' /\ AbstractStep
  BY <1>2, TakeStep, SnapshotStep, SaveBatchStep, RemarkStep, ApplyStep, ReloadStep, RefreshStep, GiveUpStep
     DEF PersistChanges
<1>3. ASSUME NEW t \in Tasks, FlushDirty(t) PROVE WBInv' /\ AbstractStep
  BY <1>3, FlushSaveStep, FlushErrorStep, FlushReloadStep, SkipMissingStep, SaveOneStep, InsertOneStep,
     ReloadOneStep
     DEF FlushDirty
<1>4. ASSUME NEW t \in Tasks, PersistAll(t) PROVE WBInv' /\ AbstractStep
  BY <1>4, FullSnapshotStep, FullSaveStep, ApplyStep DEF PersistAll
<1>5. ASSUME NEW t \in Tasks, EnsureObject(t) PROVE WBInv' /\ AbstractStep
  BY <1>5, LoadStep, CacheStep DEF EnsureObject
<1>6. QED BY <1>1, <1>2, <1>3, <1>4, <1>5, CrashStep, StutterStep DEF Next

\* Concurrent saves of any number of tasks, with any calls failing and the
\* process dying anywhere, are a write-behind store: persist_changes,
\* flush_dirty and persist_all write only what was in memory and never
\* anything older than the row, whatever conflicts they meet; what
\* ensure_object caches and a start hydrates is what the table has.  It holds
\* where no command splits or merges stacks.
THEOREM StoreWritesBehind ==
    ASSUME NoStacks
    PROVE  Spec => WritesBehind
<1>1. Init => TypeInv /\ WBInv /\ WB!Init
  BY InitType, InitSound
<1>2. TypeInv /\ WBInv /\ [Next]_vars => TypeInv' /\ WBInv' /\ [WB!Next]_<<InMemory, OnDisk>>
  BY NextType, NextStep DEF AbstractStep
<1>3. QED BY <1>1, <1>2, PTL DEF Spec, WritesBehind, WB!Spec

(***************************************************************************)
(* What was changed is written, and what was written is what a start finds *)
(* again, under the same hypotheses.                                       *)
(*                                                                         *)
(* Two tasks may carry the same id at once: one took its mark, wrote an    *)
(* old clone, and a command marked it again meanwhile.  So no task can     *)
(* promise that its own write settles an id.  What holds is that a clone   *)
(* the table would still accept (it has the revision of the row) is        *)
(* current, or somebody else has the id in hand.                           *)
(***************************************************************************)

\* persist_all clears every mark when its write is done, the marks made while
\* it wrote included: it is covered where no other task runs.
PersistAllAlone == "persist_all" \in Ops => \A t, u \in Tasks : t = u

\* Marked, or forgotten by an error that said so.
Noted(o) == o \in dirty \cup dropped

\* A clone the revision guard would let pass is as new as memory, or o is
\* marked or carried by another task.
Current(t, o) ==
    task[t].snap[o] # Absent /\ task[t].snap[o].rev = RowRev(o) =>
        \/ task[t].snap[o].ver = graph[o].ver
        \/ Noted(o)
        \/ \E u \in Tasks \ {t} : InFlight(u, o)

\* The number of a modification tells its content.
Faithful(e, o) == e # Absent /\ Present(o) /\ e.ver = graph[o].ver => e.qty = graph[o].qty

FullSteps == {"fullsave", "fullapply"}

\* What a task that writes may rely on.
Kept(t) ==
    /\ task[t].pc \in WritingSteps =>
         \A o \in Objects : Current(t, o) /\ Faithful(task[t].snap[o], o)
    /\ task[t].pc \in {"fsave", "freload"} => task[t].at = 1
    /\ task[t].pc \in FullSteps => Tasks = {t}
    /\ task[t].pc = "fullsave" =>
         \A o \in Objects : Present(o) => o \in Pend(t) /\ task[t].snap[o].ver = graph[o].ver
    /\ task[t].pc = "fullapply" => \A o \in Objects : ~Unsaved(o)

\* Every active row is in the graph.
Loaded == \A o \in Objects \ Deleted : db[o] # Absent => Present(o)

TrackInv ==
    /\ OnlyErrorsForget
    /\ Loaded
    /\ \A o \in Objects : Faithful(db[o], o)
    /\ \A t \in Tasks : Kept(t)

\* A step that is no command leaves the contents in memory alone; what it adds
\* to the graph is a row.
ContentStays ==
    \A o \in Objects :
        \/ graph[o] = Absent /\ graph'[o] = Absent
        \/ /\ graph[o] # Absent /\ graph'[o] # Absent
           /\ graph'[o].ver = graph[o].ver /\ graph'[o].qty = graph[o].qty
        \/ graph[o] = Absent /\ graph'[o] # Absent /\ graph'[o] = db'[o] /\ db'[o] = db[o]

\* What is noted, or in the hands of t, stays so, or nothing of it is left to do.
HandsOver(t) ==
    \A o \in Objects :
        (Noted(o) \/ InFlight(t, o)) /\ db'[o] = db[o] =>
            Noted(o)' \/ InFlight(t, o)' \/ (Tasks = {t} /\ ~Unsaved(o)')

\* A row t wrote has the content of memory, or somebody has yet to write it.
Settles(t) ==
    \A o \in Objects : db'[o] # db[o] =>
        /\ ~Unsaved(o)' \/ Noted(o)' \/ InFlight(t, o)' \/ \E u \in Tasks \ {t} : InFlight(u, o)
        /\ Faithful(db[o], o)'

(***************************************************************************)
(* One step of a task that is no command.                                  *)
(***************************************************************************)

\* What the other tasks hold is theirs still.
LEMMA OthersFly ==
    ASSUME TypeInv, NEW t \in Tasks, NEW r, Become(t, r), NEW u \in Tasks \ {t}, NEW o
    PROVE  /\ task'[u] = task[u]
           /\ Pend(u)' = Pend(u)
           /\ InFlight(u, o)' <=> InFlight(u, o)
<1>1. task'[u] = task[u]
  BY DEF Become, TypeInv, TypeOK
<1>2. QED BY <1>1 DEF InFlight, Pend, Rest

\* The general step.
LEMMA TrackStep ==
    ASSUME TypeInv, TypeInv', WBInv, TrackInv, NEW t \in Tasks, NEW r, Become(t, r),
           ContentStays, TableGrows, HandsOver(t), Settles(t), Kept(t)'
    PROVE  TrackInv'
<1>1. ASSUME NEW o \in Objects
      PROVE  /\ RowRev(o) \in Nat /\ RowRev(o)' \in Nat
             /\ db'[o] # db[o] => Present(o) /\ RowRev(o)' = RowRev(o) + 1
             /\ db'[o] = db[o] => RowRev(o)' = RowRev(o)
             /\ Absent \notin Entry
             /\ graph[o] \in Entry \cup {Absent}
  BY RowGrows, EntryType DEF RowRev
<1>2. OnlyErrorsForget'
  <2> SUFFICES ASSUME NEW o \in Objects, Unsaved(o)' PROVE Tracked(o)' \/ o \in dropped'
    BY DEF OnlyErrorsForget
  <2>1. CASE db'[o] = db[o]
    <3>1. Unsaved(o)
      BY <2>1, <1>1 DEF Unsaved, Present, ContentStays
    <3>2. Noted(o) \/ \E u \in Tasks : InFlight(u, o)
      BY <3>1 DEF TrackInv, OnlyErrorsForget, Tracked, Noted
    <3>3. Noted(o)' \/ \E u \in Tasks : InFlight(u, o)'
      BY <2>1, <3>2, OthersFly DEF HandsOver
    <3>4. QED BY <3>3 DEF Noted, Tracked
  <2>2. CASE db'[o] # db[o]
    <3>1. Noted(o)' \/ \E u \in Tasks : InFlight(u, o)'
      BY <2>2, OthersFly DEF Settles
    <3>2. QED BY <3>1 DEF Noted, Tracked
  <2>3. QED BY <2>1, <2>2
<1>3. Loaded'
  <2> SUFFICES ASSUME NEW o \in Objects \ Deleted, db'[o] # Absent PROVE graph'[o] # Absent
    BY DEF Loaded, Present
  <2>1. Present(o)
    BY <1>1 DEF TrackInv, Loaded
  <2>2. QED BY <2>1 DEF ContentStays, Present
<1>4. ASSUME NEW o \in Objects PROVE Faithful(db[o], o)'
  <2>1. CASE db'[o] # db[o]
    BY <2>1 DEF Settles
  <2>2. CASE db'[o] = db[o]
    <3>1. Faithful(db[o], o)
      BY DEF TrackInv
    <3>2. QED BY <2>2, <3>1 DEF Faithful, ContentStays, Present
  <2>3. QED BY <2>1, <2>2
<1>5. ASSUME NEW u \in Tasks \ {t} PROVE Kept(u)'
  <2>1. task'[u] = task[u]
    BY OthersFly
  <2>2. task[u].pc \notin FullSteps
    BY DEF TrackInv, Kept
  <2>3. ASSUME NEW o \in Objects, task[u].pc \in WritingSteps, task[u].snap[o] # Absent
        PROVE  Current(u, o)' /\ Faithful(task[u].snap[o], o)'
    <3> DEFINE s == task[u].snap[o]
    <3>1. s \in Entry
      <4>1. task[u].snap \in [Objects -> Slot]
        BY TaskType DEF TaskState
      <4>2. QED BY <2>3, <4>1 DEF Slot
    <3>2. Present(o) /\ s.rev <= RowRev(o) /\ s.rev \in Nat
      BY <2>3, <3>1 DEF WBInv, Sound, CloneSound, Entry
    <3>3. graph'[o] # Absent /\ graph'[o].ver = graph[o].ver /\ graph'[o].qty = graph[o].qty
      BY <3>2 DEF ContentStays, Present
    <3>4. Current(u, o) /\ Faithful(s, o)
      BY <2>3 DEF TrackInv, Kept
    <3>5. Faithful(s, o)'
      BY <2>1, <3>2, <3>3, <3>4 DEF Faithful, Present
    <3>6. ASSUME s.rev = RowRev(o)', s.ver # graph'[o].ver
          PROVE  Noted(o)' \/ \E v \in Tasks \ {u} : InFlight(v, o)'
      <4>1. db'[o] = db[o]
        BY <1>1, <3>2, <3>6
      <4>2. s.rev = RowRev(o)
        BY <1>1, <3>6, <4>1
      <4>3. Noted(o) \/ \E v \in Tasks \ {u} : InFlight(v, o)
        BY <2>3, <3>3, <3>4, <3>6, <4>2 DEF Current
      <4>4. CASE Noted(o) \/ InFlight(t, o)
        <5>1. Noted(o)' \/ InFlight(t, o)'
          BY <4>1, <4>4 DEF HandsOver
        <5>2. QED BY <5>1
      <4>5. CASE \E v \in Tasks \ {u, t} : InFlight(v, o)
        BY <4>5, OthersFly
      <4>6. QED BY <4>3, <4>4, <4>5
    <3>7. Current(u, o)'
      BY <2>1, <3>6 DEF Current
    <3>8. QED BY <3>5, <3>7
  <2>4. \A o \in Objects : task[u].snap[o] = Absent => Current(u, o)' /\ Faithful(task[u].snap[o], o)'
    BY <2>1 DEF Current, Faithful
  <2>5. task[u].pc \in WritingSteps => \A o \in Objects : Current(u, o)' /\ Faithful(task[u].snap[o], o)'
    BY <2>3, <2>4
  <2>6. task[u].pc \in {"fsave", "freload"} => task[u].at = 1
    BY DEF TrackInv, Kept
  <2>7. QED BY <2>1, <2>2, <2>5, <2>6 DEF Kept, FullSteps, Faithful
<1>6. \A u \in Tasks : Kept(u)'
  BY <1>5
<1>7. QED BY <1>2, <1>3, <1>4, <1>6 DEF TrackInv

\* A step that touches neither the graph nor the table.
LEMMA QuietTrack ==
    ASSUME TypeInv, TypeInv', WBInv, TrackInv, NEW t \in Tasks, NEW r, Become(t, r),
           graph' = graph, db' = db, Kept(t)',
           \A o \in Objects : Noted(o) \/ InFlight(t, o) => Noted(o)' \/ InFlight(t, o)'
    PROVE  TrackInv'
<1>1. TableGrows
  BY DEF TableGrows
<1>2. ContentStays
  BY DEF ContentStays
<1>3. HandsOver(t) /\ Settles(t)
  BY DEF HandsOver, Settles
<1>4. QED BY <1>1, <1>2, <1>3, TrackStep

\* A task that is not about to write relies on nothing.
LEMMA NothingKept ==
    ASSUME NEW t \in Tasks, task'[t].pc \notin WritingSteps \cup FullSteps
    PROVE  Kept(t)'
BY DEF Kept, FullSteps, WritingSteps

\* A task that finishes and keeps what it held noted.
LEMMA FinishTrack ==
    ASSUME TypeInv, TypeInv', WBInv, TrackInv, NEW t \in Tasks, Finish(t), graph' = graph, db' = db,
           \A o \in Objects : Noted(o) \/ InFlight(t, o) => Noted(o)'
    PROVE  TrackInv'
<1>1. task'[t] = Idle
  BY BecomeValue DEF Finish
<1>2. Kept(t)'
  BY <1>1, NothingKept DEF Idle, WritingSteps, FullSteps
<1>3. QED BY <1>2, QuietTrack DEF Finish

\* Clones of the objects as they are.
LEMMA ClonesKept ==
    ASSUME TypeInv, NEW t \in Tasks, NEW q, task'[t].snap = Clones(q), graph' = graph,
           task'[t].pc \in WritingSteps, task'[t].pc \notin FullSteps, task'[t].pc # "save" => task'[t].at = 1
    PROVE  Kept(t)'
<1>1. ASSUME NEW o \in Objects PROVE Current(t, o)' /\ Faithful(task[t].snap[o], o)'
  <2>1. task'[t].snap[o] = Absent \/ task'[t].snap[o] = graph'[o]
    BY DEF Clones
  <2>2. QED BY <2>1 DEF Current, Faithful
<1>2. QED BY <1>1 DEF Kept, FullSteps, WritingSteps

(***************************************************************************)
(* persist_changes.                                                        *)
(***************************************************************************)

\* The marks change hands.
LEMMA TakeTrack ==
    ASSUME TypeInv, TypeInv', WBInv, TrackInv, NEW t \in Tasks, Take(t)
    PROVE  TrackInv'
<1>1. /\ task[t].pc = "persist" /\ graph' = graph /\ db' = db /\ dropped' = dropped /\ dirty' = {}
      /\ \A o : ~InFlight(t, o)
  BY DEF Take, At, InFlight, TakenSteps, SingleSteps
<1>2. CASE dirty = {}
  <2>1. Finish(t)
    BY <1>2 DEF Take
  <2>2. QED BY <1>1, <1>2, <2>1, FinishTrack DEF Noted
<1>3. CASE dirty # {}
  <2>1. PICK q \in Orders(dirty) : Become(t, [task[t] EXCEPT !.pc = "snap", !.pending = q])
    BY <1>3 DEF Take
  <2> DEFINE r == [task[t] EXCEPT !.pc = "snap", !.pending = q]
  <2>2. r.pc = "snap" /\ r.pending = q
    BY TaskType DEF TaskState
  <2>3. Become(t, r)
    BY <2>1
  <2> HIDE DEF r
  <2>4. task'[t] = r
    BY <2>3, BecomeValue
  <2>5. \A o \in dirty : InFlight(t, o)'
    BY <2>2, <2>4 DEF Orders, InFlight, Pend, TakenSteps
  <2>6. Kept(t)'
    BY <2>2, <2>4, NothingKept DEF WritingSteps, FullSteps
  <2>7. QED BY <1>1, <2>3, <2>5, <2>6, QuietTrack DEF Noted
<1>4. QED BY <1>2, <1>3

\* A task that goes on with the ids it took.
LEMMA GoesOn ==
    ASSUME TypeInv, TypeInv', WBInv, TrackInv, NEW t \in Tasks, NEW r, Become(t, r),
           task[t].pc \in TakenSteps, r.pc \in TakenSteps, r.pending = task[t].pending,
           graph' = graph, db' = db, dirty' = dirty, dropped' = dropped, Kept(t)'
    PROVE  TrackInv'
<1>1. task'[t] = r
  BY BecomeValue
<1>2. \A o : InFlight(t, o) => InFlight(t, o)'
  BY <1>1 DEF InFlight, Pend, TakenSteps, SingleSteps
<1>3. QED BY <1>2, QuietTrack DEF Noted

\* It clones them.
LEMMA SnapshotTrack ==
    ASSUME TypeInv, TypeInv', WBInv, TrackInv, NEW t \in Tasks, Snapshot(t)
    PROVE  TrackInv'
<1> DEFINE s == Clones(task[t].pending)
           r == [task[t] EXCEPT !.pc = "save", !.snap = s]
<1>1. /\ task[t].pc = "snap" /\ graph' = graph /\ db' = db /\ dropped' = dropped /\ dirty' = dirty
      /\ task[t].pc \in TakenSteps
  BY DEF Snapshot, At, TakenSteps
<1>2. CASE Written(task[t].pending, s) = {}
  <2>1. Finish(t)
    BY <1>2 DEF Snapshot
  <2>2. ASSUME NEW o \in Pend(t) PROVE FALSE
    <3>1. o \in Objects /\ Present(o)
      BY <1>1, TaskType DEF WBInv, Sound
    <3>2. s[o] # Absent
      BY <3>1 DEF Clones, Pend, Present
    <3>3. PICK i \in DOMAIN task[t].pending : task[t].pending[i] = o
      BY DEF Pend, Ids
    <3>4. i \in Written(task[t].pending, s)
      BY <3>2, <3>3 DEF Written
    <3>5. QED BY <1>2, <3>4
  <2>3. \A o : ~InFlight(t, o)
    BY <1>1, <2>2 DEF InFlight, SingleSteps
  <2>4. QED BY <1>1, <2>1, <2>3, FinishTrack DEF Noted
<1>3. CASE Written(task[t].pending, s) # {}
  <2>1. Become(t, r)
    BY <1>3 DEF Snapshot
  <2>2. r.pc = "save" /\ r.pending = task[t].pending /\ r.snap = s
    BY TaskType DEF TaskState
  <2> HIDE DEF r
  <2>3. task'[t] = r
    BY <2>1, BecomeValue
  <2>4. Kept(t)'
    BY <1>1, <2>2, <2>3, ClonesKept DEF WritingSteps, FullSteps
  <2>5. r.pc \in TakenSteps
    BY <2>2 DEF TakenSteps
  <2>6. QED BY <1>1, <2>1, <2>2, <2>4, <2>5, GoesOn
<1>4. QED BY <1>2, <1>3

\* A batch that meets no conflict settles its ids, but for those a newer
\* modification of which is marked or carried by another task.
LEMMA CommitSettles ==
    ASSUME TypeInv, TypeInv', WBInv, TrackInv, NEW t \in Tasks, task[t].pc \in WritingSteps,
           Conflicts(task[t].pending, task[t].snap) = {}, Commit(task[t].pending, task[t].snap),
           ContentStays, dirty' = dirty, dropped' = dropped
    PROVE  /\ Settles(t)
           /\ \A o \in Pend(t) : db'[o] # db[o]
           /\ \A o \in Pend(t) : db'[o].ver = task[t].snap[o].ver
<1> DEFINE q == task[t].pending
           s == task[t].snap
<1>1. s \in [Objects -> Slot] /\ Pend(t) \subseteq Objects
  BY TaskType DEF TaskState
<1>2. ASSUME NEW o \in Pend(t)
      PROVE  /\ s[o] \in Entry /\ s[o] # Absent /\ Present(o) /\ graph[o] \in Entry
             /\ s[o].rev = RowRev(o)
             /\ db'[o].ver = s[o].ver /\ db'[o].qty = s[o].qty
             /\ db'[o].rev = RowRev(o) + 1 /\ db'[o] # Absent
  <2>1. /\ o \in Objects /\ s[o] # Absent /\ s[o] \in Entry
        /\ CloneSound(t, o) /\ Present(o) /\ graph[o] \in Entry /\ RowRev(o) \in Nat
    BY <1>1, EntryType DEF WBInv, Sound, CloneSound, Slot, Present
  <2>2. PICK i \in DOMAIN q : q[i] = o
    BY DEF Pend, Ids
  <2>3. ~Stale(o, s)
    BY <2>1, <2>2 DEF Conflicts, Written
  <2>4. s[o].rev = RowRev(o)
    <3>1. CASE db[o] = Absent
      <4>1. s[o].rev <= 0 /\ s[o].rev \in Nat
        BY <2>1, <3>1 DEF CloneSound, RowRev, Entry
      <4>2. QED BY <3>1, <4>1 DEF RowRev
    <3>2. CASE db[o] # Absent
      BY <2>3, <3>2 DEF Stale, RowRev
    <3>3. QED BY <3>1, <3>2
  <2>5. NewRev(o, s) = RowRev(o) + 1 /\ NewRev(o, s) \in Nat
    BY <2>1, <2>4 DEF NewRev, RowRev
  <2>6. db'[o] = [s[o] EXCEPT !.rev = NewRev(o, s)]
    BY <2>1 DEF Commit, Pend
  <2>7. /\ db'[o] \in Entry /\ db'[o].ver = s[o].ver /\ db'[o].qty = s[o].qty
        /\ db'[o].rev = NewRev(o, s)
    BY ONLY <2>1, <2>5, <2>6 DEF Entry
  <2>8. QED BY <2>1, <2>4, <2>5, <2>7, EntryType
<1>3. ASSUME NEW o \in Objects, o \notin Pend(t) PROVE db'[o] = db[o]
  BY <1>3 DEF Commit, Pend
<1>4. ASSUME NEW o \in Pend(t) PROVE db'[o] # db[o]
  BY <1>2, <1>1, EntryType DEF RowRev
<1>5. ASSUME NEW o \in Pend(t)
      PROVE  /\ ~Unsaved(o)' \/ Noted(o)' \/ \E u \in Tasks \ {t} : InFlight(u, o)
             /\ Faithful(db[o], o)'
  <2>1. o \in Objects /\ Present(o)
    BY <1>1, <1>2
  <2>2. graph'[o] # Absent /\ graph'[o].ver = graph[o].ver /\ graph'[o].qty = graph[o].qty
    BY <2>1 DEF ContentStays, Present
  <2>3. Current(t, o) /\ Faithful(s[o], o)
    BY <2>1 DEF TrackInv, Kept
  <2>4. s[o].ver = graph[o].ver \/ Noted(o) \/ \E u \in Tasks \ {t} : InFlight(u, o)
    BY <1>2, <2>3, EntryType DEF Current
  <2>5. Noted(o)' <=> Noted(o)
    BY DEF Noted
  <2>6. s[o].ver = graph[o].ver => ~Unsaved(o)'
    BY <1>2, <2>2 DEF Unsaved, Present
  <2>7. Faithful(db[o], o)'
    BY <1>2, <2>1, <2>2, <2>3, EntryType DEF Faithful, Present
  <2>8. QED BY <2>4, <2>5, <2>6, <2>7
<1>6. Settles(t)
  BY <1>3, <1>5 DEF Settles
<1>7. QED BY <1>2, <1>4, <1>6

\* apply_save_metadata leaves the contents alone.
LEMMA MetasContent ==
    ASSUME TypeInv, NEW m \in [Objects -> Nat], graph' = WithMetas(m)
    PROVE  ContentStays
<1> SUFFICES ASSUME NEW o \in Objects, graph[o] # Absent
             PROVE  /\ graph'[o] # Absent
                    /\ graph'[o].ver = graph[o].ver /\ graph'[o].qty = graph[o].qty
  <2>1. ASSUME NEW o \in Objects, graph[o] = Absent PROVE graph'[o] = Absent
    BY <2>1 DEF WithMetas, Present
  <2>2. QED BY <2>1 DEF ContentStays
<1>1. graph[o] \in Entry /\ m[o] \in Nat /\ Absent \notin Entry
  BY EntryType
<1>2. graph'[o] = graph[o] \/ graph'[o] = [graph[o] EXCEPT !.rev = m[o]]
  BY DEF WithMetas
<1>3. QED BY ONLY <1>1, <1>2 DEF Entry

\* Nor does a revision taken over from a row.
LEMMA RevisionContent ==
    ASSUME TypeInv, NEW o \in Objects, NEW n \in Nat, graph[o] # Absent, graph' = [graph EXCEPT ![o].rev = n]
    PROVE  ContentStays
<1>1. graph[o] \in Entry /\ graph \in [Objects -> Slot] /\ Absent \notin Entry
  BY EntryType DEF TypeInv, TypeOK
<1>2. graph'[o] = [graph[o] EXCEPT !.rev = n] /\ \A x \in Objects : x # o => graph'[x] = graph[x]
  BY <1>1
<1>3. graph'[o] \in Entry /\ graph'[o].ver = graph[o].ver /\ graph'[o].qty = graph[o].qty
  BY ONLY <1>1, <1>2 DEF Entry
<1>4. QED BY <1>1, <1>2, <1>3 DEF ContentStays

\* It writes the clones, or fails to.
LEMMA SaveTrack ==
    ASSUME TypeInv, TypeInv', WBInv, TrackInv, NEW t \in Tasks, Save(t) \/ SaveFails(t)
    PROVE  TrackInv'
<1> DEFINE q == task[t].pending
           s == task[t].snap
<1>1. /\ graph' = graph /\ dirty' = dirty /\ dropped' = dropped /\ task[t].pc = "save"
      /\ task[t].pc \in WritingSteps /\ task[t].pc \in TakenSteps /\ task[t].pc \notin SingleSteps
  BY DEF Save, SaveFails, At, WritingSteps, TakenSteps, SingleSteps
<1>2. CASE SaveFails(t)
  <2> DEFINE r == [task[t] EXCEPT !.pc = "remark"]
  <2>1. Become(t, r) /\ db' = db
    BY <1>2 DEF SaveFails
  <2>2. r.pc = "remark" /\ r.pending = q
    BY TaskType DEF TaskState
  <2> HIDE DEF r
  <2>3. Kept(t)' /\ r.pc \in TakenSteps
    BY <2>1, <2>2, BecomeValue, NothingKept DEF WritingSteps, FullSteps, TakenSteps
  <2>4. QED BY <1>1, <2>1, <2>2, <2>3, GoesOn
<1>3. CASE \E i \in Conflicts(q, s) :
             Become(t, [task[t] EXCEPT !.pc = "reload", !.id = q[i]]) /\ UNCHANGED db
  <2>1. PICK i \in Conflicts(q, s) :
             Become(t, [task[t] EXCEPT !.pc = "reload", !.id = q[i]]) /\ UNCHANGED db
    BY <1>3
  <2> DEFINE r == [task[t] EXCEPT !.pc = "reload", !.id = q[i]]
  <2>2. Become(t, r) /\ db' = db
    BY <2>1
  <2>3. r.pc = "reload" /\ r.pending = q
    BY TaskType DEF TaskState
  <2> HIDE DEF r
  <2>4. Kept(t)' /\ r.pc \in TakenSteps
    BY <2>2, <2>3, BecomeValue, NothingKept DEF WritingSteps, FullSteps, TakenSteps
  <2>5. QED BY <1>1, <2>2, <2>3, <2>4, GoesOn
<1>4. CASE Conflicts(q, s) = {} /\ Commit(q, s)
           /\ Become(t, [task[t] EXCEPT !.pc = "apply", !.metas = Zipped(q, s)])
  <2> DEFINE m == Zipped(q, s)
             r == [task[t] EXCEPT !.pc = "apply", !.metas = m]
  <2>1. Become(t, r)
    BY <1>4
  <2> HIDE DEF m
  <2>2. r.pc = "apply"
    BY TaskType DEF TaskState
  <2> HIDE DEF r
  <2>3. Kept(t)'
    BY <2>1, <2>2, BecomeValue, NothingKept DEF WritingSteps, FullSteps
  <2>4. ContentStays
    BY <1>1 DEF ContentStays
  <2>5. TableGrows
    BY <1>1, <1>4, CommitGrows
  <2>6. Settles(t) /\ \A o \in Pend(t) : db'[o] # db[o]
    BY <1>1, <1>4, <2>4, CommitSettles
  <2>7. HandsOver(t)
    BY <1>1, <2>6 DEF HandsOver, InFlight, Noted
  <2>8. QED BY <2>1, <2>3, <2>4, <2>5, <2>6, <2>7, TrackStep
<1>5. QED BY <1>2, <1>3, <1>4 DEF Save

\* It takes the new revisions over.
LEMMA ApplyTrack ==
    ASSUME TypeInv, TypeInv', WBInv, TrackInv, NEW t \in Tasks, Apply(t) \/ FullApply(t)
    PROVE  TrackInv'
<1>1. graph' = WithMetas(task[t].metas) /\ db' = db /\ Finish(t) /\ dropped' = dropped
  BY DEF Apply, FullApply
<1>2. task[t].metas \in [Objects -> Nat]
  BY TaskType DEF TaskState
<1>3. ContentStays
  BY <1>1, <1>2, MetasContent
<1>4. TableGrows /\ Settles(t)
  BY <1>1 DEF TableGrows, Settles
<1>5. Kept(t)'
  BY <1>1, BecomeValue, NothingKept DEF Finish, Idle, WritingSteps, FullSteps
<1>6. HandsOver(t)
  <2>1. CASE Apply(t)
    BY <2>1 DEF Apply, At, HandsOver, InFlight, TakenSteps, SingleSteps, Noted
  <2>2. CASE FullApply(t)
    <3>1. Tasks = {t} /\ \A o \in Objects : ~Unsaved(o)
      BY <2>2 DEF FullApply, At, TrackInv, Kept, FullSteps
    <3>2. \A o \in Objects : ~Unsaved(o)'
      BY <1>1, <1>3, <3>1 DEF ContentStays, Unsaved, Present
    <3>3. QED BY <3>1, <3>2 DEF HandsOver
  <2>3. QED BY <2>1, <2>2
<1>7. QED BY <1>1, <1>3, <1>4, <1>5, <1>6, TrackStep DEF Finish

\* It marks again what it could not write, or reports an error.
LEMMA RemarkTrack ==
    ASSUME TypeInv, TypeInv', WBInv, TrackInv, NEW t \in Tasks, Remark(t) \/ ReloadFails(t)
    PROVE  TrackInv'
<1>1. /\ graph' = graph /\ db' = db /\ Finish(t) /\ task[t].pc \notin SingleSteps
      /\ dirty \subseteq dirty' /\ dropped \subseteq dropped' /\ Pend(t) \subseteq dirty' \cup dropped'
  BY DEF Remark, ReloadFails, At, MarkMany, SingleSteps
<1>2. QED BY <1>1, FinishTrack DEF Noted, InFlight

\* It reads the row it was in conflict with.
LEMMA ReloadTrack ==
    ASSUME TypeInv, TypeInv', WBInv, TrackInv, NEW t \in Tasks, Reload(t)
    PROVE  TrackInv'
<1> DEFINE row == db[task[t].id]
           r == [task[t] EXCEPT !.pc = "refresh", !.row = row]
<1>1. /\ graph' = graph /\ db' = db /\ dirty' = dirty /\ dropped' = dropped
      /\ task[t].pc \in TakenSteps /\ Become(t, r)
  BY DEF Reload, At, TakenSteps
<1>2. r.pc = "refresh" /\ r.pending = task[t].pending
  BY TaskType DEF TaskState
<1> HIDE DEF r
<1>3. Kept(t)' /\ r.pc \in TakenSteps
  BY <1>1, <1>2, BecomeValue, NothingKept DEF WritingSteps, FullSteps, TakenSteps
<1>4. QED BY <1>1, <1>2, <1>3, GoesOn

\* It takes the revision of that row over.
LEMMA RefreshTrack ==
    ASSUME TypeInv, TypeInv', WBInv, TrackInv, NEW t \in Tasks, Refresh(t)
    PROVE  TrackInv'
<1> DEFINE o == task[t].id
           n == task[t].row.rev
           pc == IF task[t].tries + 1 < Retries THEN "snap" ELSE "giveup"
           k == task[t].tries + 1
           r == [task[t] EXCEPT !.pc = pc, !.tries = k, !.id = Absent, !.row = Absent, !.snap = NoSnap]
<1>1. /\ task[t].pc = "refresh" /\ db' = db /\ Become(t, r)
      /\ dirty \subseteq dirty' /\ dropped' = dropped
  BY DEF Refresh, At, Mark
<1>2. ContentStays
  <2>1. CASE Present(o)
    <3>1. o \in Objects /\ task[t].row \in Entry
      BY <1>1, TaskType DEF TypeInv, Located, TaskState, Slot
    <3>2. graph' = [graph EXCEPT ![o].rev = n]
      BY <2>1 DEF Refresh
    <3>3. QED BY <2>1, <3>1, <3>2, RevisionContent DEF Present, Entry
  <2>2. CASE ~Present(o)
    BY <2>2 DEF Refresh, ContentStays
  <2>3. QED BY <2>1, <2>2
<1>3. pc \in TakenSteps \ WritingSteps /\ pc \notin FullSteps
  BY DEF TakenSteps, WritingSteps, FullSteps
<1> HIDE DEF pc, k
<1>4. r.pc = pc /\ r.pending = task[t].pending
  BY TaskType DEF TaskState
<1> HIDE DEF r
<1>5. task'[t] = r
  BY <1>1, BecomeValue
<1>6. Kept(t)'
  BY <1>3, <1>4, <1>5, NothingKept
<1>7. HandsOver(t)
  <2>1. \A x : InFlight(t, x) => InFlight(t, x)'
    BY <1>1, <1>3, <1>4, <1>5 DEF InFlight, Pend, SingleSteps
  <2>2. QED BY <1>1, <2>1 DEF HandsOver, Noted
<1>8. TableGrows /\ Settles(t)
  BY <1>1 DEF TableGrows, Settles
<1>9. QED BY <1>1, <1>2, <1>6, <1>7, <1>8, TrackStep

\* It goes on to flush_dirty.
LEMMA GiveUpTrack ==
    ASSUME TypeInv, TypeInv', WBInv, TrackInv, NEW t \in Tasks, GiveUp(t)
    PROVE  TrackInv'
<1>1. /\ graph' = graph /\ db' = db /\ dropped' = dropped /\ task[t].pc = "giveup"
      /\ task[t].pc \in TakenSteps /\ task[t].pc \notin SingleSteps
  BY DEF GiveUp, At, TakenSteps, SingleSteps
<1>2. PICK q \in Orders(MarkMany(Pend(t))) :
        IF Written(q, Clones(q)) = {} THEN Finish(t)
        ELSE Become(t, [Idle EXCEPT !.pc = "fsave", !.pending = q, !.snap = Clones(q)])
  BY DEF GiveUp
<1>3. Ids(q) = dirty \cup Pend(t)
  BY DEF Orders, MarkMany
<1>4. \A o \in Ids(q) : o \in Objects /\ Present(o)
  BY <1>1, <1>3, TaskType DEF WBInv, MarksPresent, Sound, TypeInv, TypeOK
<1> DEFINE s == Clones(q)
<1>5. CASE Written(q, s) = {}
  <2>1. ASSUME NEW o \in Ids(q) PROVE FALSE
    <3>1. s[o] # Absent
      BY <1>4 DEF Clones, Present
    <3>2. PICK i \in DOMAIN q : q[i] = o
      BY DEF Ids
    <3>3. i \in Written(q, s)
      BY <3>1, <3>2 DEF Written
    <3>4. QED BY <1>5, <3>3
  <2>2. QED BY <1>1, <1>2, <1>3, <1>5, <2>1, FinishTrack DEF Noted, InFlight
<1>6. CASE Written(q, s) # {}
  <2> DEFINE r == [Idle EXCEPT !.pc = "fsave", !.pending = q, !.snap = s]
  <2>1. Become(t, r)
    BY <1>2, <1>6
  <2>2. r.pc = "fsave" /\ r.pending = q /\ r.snap = s /\ r.at = 1
    BY DEF Idle
  <2> HIDE DEF r
  <2>3. task'[t] = r
    BY <2>1, BecomeValue
  <2>4. Kept(t)'
    BY <1>1, <2>2, <2>3, ClonesKept DEF WritingSteps, FullSteps
  <2>5. \A o : Noted(o) \/ InFlight(t, o) => Noted(o)' \/ InFlight(t, o)'
    BY <1>1, <1>3, <2>2, <2>3 DEF InFlight, Noted, Pend, TakenSteps
  <2>6. QED BY <1>1, <2>1, <2>4, <2>5, QuietTrack
<1>7. QED BY <1>5, <1>6

(***************************************************************************)
(* flush_dirty.                                                            *)
(***************************************************************************)

\* flush_dirty writes all marks at once.
LEMMA FlushSaveTrack ==
    ASSUME TypeInv, TypeInv', WBInv, TrackInv, NEW t \in Tasks, FlushSave(t)
    PROVE  TrackInv'
<1> DEFINE q == task[t].pending
           s == task[t].snap
<1>1. /\ dirty' = dirty /\ dropped' = dropped /\ task[t].pc = "fsave"
      /\ task[t].pc \in WritingSteps /\ task[t].pc \in TakenSteps /\ task[t].pc \notin SingleSteps
  BY DEF FlushSave, At, WritingSteps, TakenSteps, SingleSteps
<1>2. CASE Conflicts(q, s) = {} /\ Commit(q, s) /\ graph' = WithMetas(Zipped(q, s)) /\ Release(t)
  <2>1. ContentStays
    <3>1. Zipped(q, s) \in [Objects -> Nat]
      BY ZippedType, TaskType DEF TaskState
    <3>2. QED BY <1>2, <3>1, MetasContent
  <2>2. TableGrows
    BY <1>1, <1>2, CommitGrows
  <2>3. Settles(t) /\ \A o \in Pend(t) : db'[o] # db[o]
    BY <1>1, <1>2, <2>1, CommitSettles
  <2>4. HandsOver(t)
    BY <1>1, <2>3 DEF HandsOver, InFlight, Noted
  <2>5. Finish(t) /\ Kept(t)'
    BY <1>2, BecomeValue, NothingKept DEF Release, Finish, Idle, WritingSteps, FullSteps
  <2>6. QED BY <2>1, <2>2, <2>3, <2>4, <2>5, TrackStep DEF Finish
<1>3. CASE \E i \in Conflicts(q, s) :
             Become(t, [task[t] EXCEPT !.pc = "freload", !.id = q[i]]) /\ UNCHANGED <<graph, db, holder>>
  <2>1. PICK i \in Conflicts(q, s) :
             Become(t, [task[t] EXCEPT !.pc = "freload", !.id = q[i]]) /\ UNCHANGED <<graph, db, holder>>
    BY <1>3
  <2> DEFINE r == [task[t] EXCEPT !.pc = "freload", !.id = q[i]]
  <2>2. r.pc = "freload" /\ r.pending = q /\ r.snap = s /\ r.at = task[t].at
    BY TaskType DEF TaskState
  <2>3. Become(t, r) /\ graph' = graph /\ db' = db
    BY <2>1
  <2> HIDE DEF r
  <2>4. task'[t] = r
    BY <2>3, BecomeValue
  <2>5. ASSUME NEW o \in Objects PROVE Current(t, o)' /\ Faithful(task[t].snap[o], o)'
    <3>1. Current(t, o) /\ Faithful(s[o], o)
      BY <1>1 DEF TrackInv, Kept
    <3>2. \A u \in Tasks \ {t} : InFlight(u, o)' <=> InFlight(u, o)
      BY <2>3, OthersFly
    <3>3. QED BY <1>1, <2>2, <2>3, <2>4, <3>1, <3>2 DEF Current, Faithful, Noted, RowRev, Present
  <2>6. Kept(t)'
    <3>1. task[t].at = 1
      BY <1>1 DEF TrackInv, Kept
    <3>2. QED BY <2>2, <2>4, <2>5, <3>1 DEF Kept, FullSteps
  <2>7. r.pc \in TakenSteps
    BY <2>2 DEF TakenSteps
  <2>8. QED BY <1>1, <2>2, <2>3, <2>6, <2>7, GoesOn
<1>4. QED BY <1>2, <1>3 DEF FlushSave

\* It fails for another reason than a conflict.
LEMMA FlushErrorTrack ==
    ASSUME TypeInv, TypeInv', WBInv, TrackInv, NEW t \in Tasks,
           FlushSaveFails(t) \/ FlushReloadFails(t) \/ SaveOneFails(t)
    PROVE  TrackInv'
<1>1. graph' = graph /\ db' = db /\ Finish(t) /\ dirty \subseteq dirty' /\ dropped \subseteq dropped'
  BY DEF FlushSaveFails, FlushReloadFails, SaveOneFails, Drop, Release, MarkMany
<1>2. CASE FlushSaveFails(t) \/ FlushReloadFails(t)
  <2>1. Pend(t) \subseteq dirty' \cup dropped' /\ task[t].pc \notin SingleSteps
    BY <1>2 DEF FlushSaveFails, FlushReloadFails, At, MarkMany, SingleSteps
  <2>2. QED BY <1>1, <2>1, FinishTrack DEF Noted, InFlight
<1>3. CASE SaveOneFails(t)
  <2>1. Rest(t) \subseteq dropped' /\ task[t].pc \notin TakenSteps
    BY <1>3 DEF SaveOneFails, Drop, At, TakenSteps
  <2>2. QED BY <1>1, <2>1, FinishTrack DEF Noted, InFlight
<1>4. QED BY <1>2, <1>3

\* It takes the revision of the row it was in conflict with, and clones again.
LEMMA FlushReloadTrack ==
    ASSUME TypeInv, TypeInv', WBInv, WBInv', TrackInv, NEW t \in Tasks, FlushReload(t)
    PROVE  TrackInv'
<1> DEFINE o == task[t].id
           n == task[t].tries + 1
           m == db[o].rev
           g == [graph EXCEPT ![o].rev = m]
           pc == IF n < Retries THEN "fsave" ELSE "single"
           k == IF n < Retries THEN n ELSE 0
           sn == [task[t].snap EXCEPT ![o] = g[o]]
           r == [task[t] EXCEPT !.pc = pc, !.tries = k, !.id = Absent, !.snap = sn]
<1>1. /\ task[t].pc = "freload" /\ db' = db /\ dirty' = dirty /\ dropped' = dropped
      /\ graph' = g /\ Become(t, r)
      /\ task[t].pc \in TakenSteps \cap WritingSteps /\ task[t].pc \notin SingleSteps
  BY DEF FlushReload, At, TakenSteps, WritingSteps, SingleSteps
<1>2. /\ o \in Objects /\ graph[o] # Absent /\ m \in Nat /\ task[t].snap \in [Objects -> Slot]
  <2>1. o \in Objects /\ graph[o] # Absent /\ db[o] # Absent
    BY <1>1 DEF TypeInv, Located
  <2>2. db[o] \in Entry
    BY <2>1, EntryType
  <2>3. QED BY <2>1, <2>2, TaskType DEF TaskState, Entry
<1>3. ContentStays
  <2> HIDE DEF o, m
  <2>1. QED BY <1>1, <1>2, RevisionContent
<1>4. sn[o] = g[o] /\ \A x \in Objects : x # o => sn[x] = task[t].snap[x] /\ g[x] = graph[x]
  <2>1. graph \in [Objects -> Slot]
    BY DEF TypeInv, TypeOK
  <2>2. \A x \in Objects : x # o => g[x] = graph[x]
    BY <2>1
  <2> HIDE DEF g
  <2>3. QED BY <1>2, <2>2
<1>5. pc \in {"fsave", "single"}
  OBVIOUS
<1>6. k = IF pc = "fsave" THEN n ELSE 0
  OBVIOUS
<1> HIDE DEF g, sn, pc, k
<1>7. r.pc = pc /\ r.pending = task[t].pending /\ r.snap = sn /\ r.at = task[t].at
  BY TaskType DEF TaskState
<1> HIDE DEF r
<1>8. task'[t] = r
  BY <1>1, BecomeValue
<1>9. ASSUME NEW x \in Objects PROVE Current(t, x)' /\ Faithful(task[t].snap[x], x)'
  <2>1. CASE x = o
    BY <1>1, <1>4, <1>7, <1>8, <2>1 DEF Current, Faithful
  <2>2. CASE x # o
    <3>1. Current(t, x) /\ Faithful(task[t].snap[x], x)
      BY <1>1 DEF TrackInv, Kept
    <3>2. \A u \in Tasks \ {t} : InFlight(u, x)' <=> InFlight(u, x)
      BY <1>1, OthersFly
    <3>3. graph'[x] = graph[x] /\ task'[t].snap[x] = task[t].snap[x]
      BY <1>1, <1>4, <1>7, <1>8, <2>2
    <3>4. QED BY <1>1, <3>1, <3>2, <3>3 DEF Current, Faithful, Noted, RowRev, Present
  <2>3. QED BY <2>1, <2>2
<1>10. task[t].at = 1
  BY <1>1 DEF TrackInv, Kept
<1>11. Kept(t)'
  BY <1>5, <1>7, <1>8, <1>9, <1>10 DEF Kept, FullSteps
<1>12. ASSUME NEW x, InFlight(t, x) PROVE InFlight(t, x)'
  <2>1. task[t].pending \in Seq(Objects) /\ x \in Pend(t)
    BY <1>1, <1>12, TaskType DEF InFlight, TaskState
  <2>2. PICK i \in DOMAIN task[t].pending : task[t].pending[i] = x
    BY <2>1 DEF Pend, Ids
  <2>3. i >= 1
    BY <2>1, <2>2
  <2>4. x \in Pend(t)' /\ x \in Rest(t)'
    BY <1>7, <1>8, <1>10, <2>2, <2>3 DEF Pend, Ids, Rest
  <2>5. QED BY <1>5, <1>7, <1>8, <2>4 DEF InFlight, TakenSteps, SingleSteps
<1>13. HandsOver(t)
  BY <1>1, <1>12 DEF HandsOver, Noted
<1>14. TableGrows /\ Settles(t)
  BY <1>1 DEF TableGrows, Settles
<1>15. QED BY <1>1, <1>3, <1>11, <1>13, <1>14, TrackStep

(***************************************************************************)
(* The save row by row.                                                    *)
(***************************************************************************)

\* One id is done: the task has the others still.
LEMMA NextIdTrack ==
    ASSUME TypeInv, NEW t \in Tasks, NextId(t), task[t].pc \in SingleSteps
    PROVE  /\ \E r : Become(t, r)
           /\ Kept(t)'
           /\ \A o : InFlight(t, o) /\ o # Cur(t) => InFlight(t, o)'
<1>1. /\ task[t] \in TaskState /\ task[t].at \in DOMAIN task[t].pending
      /\ task[t].pc \notin TakenSteps
  BY TaskType DEF TypeInv, TypeOK, SingleSteps, TakenSteps
<1>2. task[t].pending \in Seq(Objects)
  BY <1>1 DEF TaskState
<1>3. CASE LastId(t)
  <2>1. Finish(t)
    BY <1>3 DEF NextId, Release
  <2>2. Kept(t)'
    BY <2>1, BecomeValue, NothingKept DEF Finish, Idle, WritingSteps, FullSteps
  <2>3. ASSUME NEW o, InFlight(t, o) PROVE o = Cur(t)
    <3>1. PICK i \in DOMAIN task[t].pending : i >= task[t].at /\ task[t].pending[i] = o
      BY <1>1, <2>3 DEF InFlight, Rest
    <3>2. i = task[t].at
      BY <1>1, <1>2, <1>3, <3>1 DEF LastId
    <3>3. QED BY <3>1, <3>2 DEF Cur
  <2>4. QED BY <2>1, <2>2, <2>3 DEF Finish
<1>4. CASE ~LastId(t)
  <2> DEFINE k == task[t].at + 1
             r == [task[t] EXCEPT !.pc = "single", !.at = k, !.tries = 0]
  <2>1. Become(t, r)
    BY <1>4 DEF NextId
  <2>2. k = task[t].at + 1
    OBVIOUS
  <2> HIDE DEF k
  <2>3. r.pc = "single" /\ r.pending = task[t].pending /\ r.at = k
    BY ONLY <1>1 DEF TaskState
  <2> HIDE DEF r
  <2>4. task'[t] = r
    BY <2>1, BecomeValue
  <2>5. Kept(t)'
    BY <2>3, <2>4, NothingKept DEF WritingSteps, FullSteps
  <2>6. ASSUME NEW o, InFlight(t, o), o # Cur(t) PROVE InFlight(t, o)'
    <3>1. PICK i \in DOMAIN task[t].pending : i >= task[t].at /\ task[t].pending[i] = o
      BY <1>1, <2>6 DEF InFlight, Rest
    <3>2. i # task[t].at
      BY <2>6, <3>1 DEF Cur
    <3>3. i >= k
      BY <1>1, <1>2, <2>2, <3>1, <3>2
    <3>4. o \in Rest(t)'
      BY <2>3, <2>4, <3>1, <3>3 DEF Rest
    <3>5. QED BY <2>3, <2>4, <3>4 DEF InFlight, SingleSteps
  <2>7. QED BY <2>1, <2>5, <2>6
<1>5. QED BY <1>3, <1>4

\* The task stays at its id.
LEMMA SameIdTrack ==
    ASSUME TypeInv, TypeInv', WBInv, TrackInv, NEW t \in Tasks, NEW r, Become(t, r),
           task[t].pc \in SingleSteps, r.pc \in SingleSteps,
           r.pending = task[t].pending, r.at = task[t].at,
           ContentStays, db' = db, dirty' = dirty, dropped' = dropped
    PROVE  TrackInv'
<1>1. task'[t] = r
  BY BecomeValue
<1>2. Kept(t)'
  BY <1>1, NothingKept DEF WritingSteps, FullSteps, SingleSteps
<1>3. \A o : InFlight(t, o) => InFlight(t, o)'
  BY <1>1 DEF InFlight, Pend, Rest, TakenSteps, SingleSteps
<1>4. HandsOver(t) /\ TableGrows /\ Settles(t)
  BY <1>3 DEF HandsOver, Noted, TableGrows, Settles
<1>5. QED BY <1>2, <1>4, TrackStep

\* One id that is saved on its own.
LEMMA StoredTrack ==
    ASSUME TypeInv, TypeInv', WBInv, TrackInv, NEW t \in Tasks, Stored(t), task[t].pc \in SingleSteps,
           Present(Cur(t)), db[Cur(t)] = Absent \/ ~Stale(Cur(t), graph)
    PROVE  TrackInv'
<1> DEFINE o == Cur(t)
           n == NewRev(o, graph)
           e == [graph[o] EXCEPT !.rev = n]
<1>1. /\ db' = [db EXCEPT ![o] = e] /\ graph' = [graph EXCEPT ![o] = e] /\ NextId(t)
      /\ dirty' = dirty /\ dropped' = dropped
  BY DEF Stored
<1>2. /\ o \in Objects /\ graph[o] \in Entry /\ graph[o] # Absent /\ Absent \notin Entry
      /\ graph \in [Objects -> Slot] /\ db \in [Objects -> Slot]
      /\ RowRev(o) \in Nat /\ OnDisk[o] <= graph[o].ver
  <2>1. o \in Objects /\ graph[o] # Absent
    BY TaskType DEF Present
  <2>2. QED BY <2>1, EntryType DEF TypeInv, TypeOK, WBInv, GraphAhead, Present
<1>3. n \in Nat /\ n = RowRev(o) + 1
  <2>1. graph[o].rev \in Nat
    BY <1>2 DEF Entry
  <2>2. CASE db[o] = Absent
    BY <2>2 DEF NewRev, RowRev
  <2>3. CASE db[o] # Absent
    <3>1. db[o].rev = graph[o].rev
      BY <2>3 DEF Stale
    <3>2. NewRev(o, graph) = graph[o].rev + 1 /\ RowRev(o) = db[o].rev
      BY <2>3 DEF NewRev, RowRev
    <3>3. QED BY <2>1, <3>1, <3>2
  <2>4. QED BY <2>2, <2>3
<1> HIDE DEF n
<1>4. e \in Entry /\ e.ver = graph[o].ver /\ e.qty = graph[o].qty /\ e.rev = n
  BY ONLY <1>2, <1>3 DEF Entry
<1> HIDE DEF e, o
<1>5. /\ db'[o] = e /\ graph'[o] = e /\ e # Absent /\ e # db[o]
      /\ \A x \in Objects : x # o => db'[x] = db[x] /\ graph'[x] = graph[x]
  BY <1>1, <1>2, <1>3, <1>4, EntryType DEF RowRev
<1>6. ContentStays
  BY <1>2, <1>4, <1>5 DEF ContentStays
<1>7. TableGrows
  <2>1. /\ Present(o) /\ db'[o] # Absent /\ db'[o].rev = RowRev(o) + 1
        /\ OnDisk[o] <= db'[o].ver /\ db'[o].ver <= graph[o].ver
    BY <1>2, <1>3, <1>4, <1>5 DEF Present, Entry
  <2>2. QED BY <1>5, <2>1 DEF TableGrows
<1>8. Settles(t)
  <2> SUFFICES ASSUME NEW x \in Objects, db'[x] # db[x]
               PROVE  ~Unsaved(x)' /\ Faithful(db[x], x)'
    BY DEF Settles
  <2>1. graph'[x] = db'[x]
    BY <1>5
  <2>2. QED BY <2>1 DEF Unsaved, Faithful, Present
<1>9. HandsOver(t)
  <2>1. \A x : InFlight(t, x) /\ x # o => InFlight(t, x)'
    BY <1>1, NextIdTrack DEF o
  <2>2. QED BY <1>1, <1>5, <2>1 DEF HandsOver, Noted
<1>10. QED BY <1>1, <1>6, <1>7, <1>8, <1>9, NextIdTrack, TrackStep

\* The steps of save_object_with_retry.
LEMMA SingleTrack ==
    ASSUME TypeInv, TypeInv', WBInv, TrackInv, NEW t \in Tasks,
           SkipMissing(t) \/ SaveOne(t) \/ InsertOne(t) \/ ReloadOne(t)
    PROVE  TrackInv'
<1>1. task[t].pc \in SingleSteps /\ task[t].pc \notin TakenSteps
  BY DEF SkipMissing, SaveOne, InsertOne, ReloadOne, At, SingleSteps, TakenSteps
<1>2. task[t] \in TaskState /\ Cur(t) \in Objects /\ Cur(t) \in Pend(t)
  BY <1>1, TaskType DEF TypeInv, TypeOK, Cur, Pend, Ids
<1>3. Present(Cur(t))
  BY <1>1, <1>2 DEF WBInv, Sound
<1>4. CASE Stored(t) /\ (db[Cur(t)] = Absent \/ ~Stale(Cur(t), graph))
  BY <1>1, <1>3, <1>4, StoredTrack
<1>5. CASE /\ Become(t, [task[t] EXCEPT !.pc = IF db[Cur(t)] = Absent THEN "sinsert" ELSE "sreload"])
           /\ UNCHANGED <<graph, dirty, db, dropped>>
  <2> DEFINE pc == IF db[Cur(t)] = Absent THEN "sinsert" ELSE "sreload"
             r == [task[t] EXCEPT !.pc = pc]
  <2>1. Become(t, r) /\ graph' = graph /\ db' = db /\ dirty' = dirty /\ dropped' = dropped
    BY <1>5
  <2>2. pc \in SingleSteps
    BY DEF SingleSteps
  <2> HIDE DEF pc
  <2>3. r.pc = pc /\ r.pending = task[t].pending /\ r.at = task[t].at
    BY <1>2 DEF TaskState
  <2> HIDE DEF r
  <2>4. ContentStays
    BY <2>1 DEF ContentStays
  <2>5. QED BY <1>1, <2>1, <2>2, <2>3, <2>4, SameIdTrack
<1>6. CASE Drop(t) /\ db' = db
  <2>1. /\ Finish(t) /\ graph' = graph /\ db' = db /\ dirty' = dirty
        /\ dropped' = dropped \cup Rest(t)
    BY <1>6 DEF Drop, Release
  <2>2. QED BY <1>1, <2>1, FinishTrack DEF Noted, InFlight
<1>7. CASE ReloadOne(t)
  <2> DEFINE o == Cur(t)
             m == db[o].rev
  <2>1. graph' = [graph EXCEPT ![o].rev = m] /\ db' = db /\ dirty' = dirty
    BY <1>7 DEF ReloadOne
  <2>2. m \in Nat /\ o \in Objects /\ graph[o] # Absent
    <3>1. db[o] # Absent
      BY <1>7 DEF ReloadOne, At, TypeInv, Located
    <3>2. db[o] \in Entry
      BY <1>2, <3>1, EntryType
    <3>3. QED BY <1>2, <1>3, <3>2 DEF Entry, Present
  <2>3. ContentStays
    <3> HIDE DEF o, m
    <3>1. QED BY <2>1, <2>2, RevisionContent
  <2>4. CASE task[t].tries + 1 < Retries
    <3> DEFINE k == task[t].tries + 1
               r == [task[t] EXCEPT !.pc = "single", !.tries = k]
    <3>1. Become(t, r) /\ dropped' = dropped
      BY <1>7, <2>4 DEF ReloadOne
    <3> HIDE DEF k
    <3>2. r.pc = "single" /\ r.pending = task[t].pending /\ r.at = task[t].at
      BY <1>2 DEF TaskState
    <3> HIDE DEF r
    <3>3. r.pc \in SingleSteps
      BY <3>2 DEF SingleSteps
    <3>4. QED BY <1>1, <2>1, <2>3, <3>1, <3>2, <3>3, SameIdTrack
  <2>5. CASE ~(task[t].tries + 1 < Retries)
    <3>1. Finish(t) /\ dropped' = dropped \cup Rest(t)
      BY <1>7, <2>5 DEF ReloadOne, Release
    <3>2. Kept(t)'
      BY <3>1, BecomeValue, NothingKept DEF Finish, Idle, WritingSteps, FullSteps
    <3>3. HandsOver(t) /\ TableGrows /\ Settles(t)
      BY <1>1, <2>1, <3>1 DEF HandsOver, InFlight, Noted, TableGrows, Settles
    <3>4. QED BY <2>3, <3>1, <3>2, <3>3, TrackStep DEF Finish
  <2>6. QED BY <2>4, <2>5
<1>8. CASE SkipMissing(t)
  BY <1>3, <1>8 DEF SkipMissing
<1>9. CASE SaveOne(t)
  BY <1>4, <1>5, <1>9 DEF SaveOne
<1>10. CASE InsertOne(t)
  BY <1>4, <1>6, <1>10 DEF InsertOne, Drop
<1>11. QED BY <1>7, <1>8, <1>9, <1>10

(***************************************************************************)
(* persist_all and ensure_object.                                          *)
(***************************************************************************)

\* persist_all clones the whole graph, while nobody else is there.
LEMMA FullSnapshotTrack ==
    ASSUME PersistAllAlone, TypeInv, TypeInv', WBInv, TrackInv, NEW t \in Tasks, FullSnapshot(t)
    PROVE  TrackInv'
<1>1. /\ graph' = graph /\ db' = db /\ dirty' = dirty /\ dropped' = dropped
      /\ Tasks = {t} /\ \A o : ~InFlight(t, o)
  BY DEF FullSnapshot, At, PersistAllAlone, InFlight, TakenSteps, SingleSteps
<1>2. PICK q \in Orders({o \in Objects : Present(o)}) :
        Become(t, [task[t] EXCEPT !.pc = "fullsave", !.pending = q, !.snap = Clones(q)])
  BY DEF FullSnapshot
<1> DEFINE s == Clones(q)
           r == [task[t] EXCEPT !.pc = "fullsave", !.pending = q, !.snap = s]
<1>3. Become(t, r)
  BY <1>2
<1>4. r.pc = "fullsave" /\ r.pending = q /\ r.snap = s
  BY TaskType DEF TaskState
<1> HIDE DEF r
<1>5. task'[t] = r
  BY <1>3, BecomeValue
<1>6. \A o \in Objects : Present(o) => o \in Ids(q) /\ s[o] = graph[o]
  BY DEF Orders, Clones
<1>7. \A o \in Objects : s[o] = Absent \/ s[o] = graph[o]
  BY DEF Clones
<1> HIDE DEF s
<1>8. Pend(t)' = Ids(q)
  BY <1>4, <1>5 DEF Pend
<1>9. Kept(t)'
  <2>1. \A o \in Objects : Current(t, o)' /\ Faithful(task[t].snap[o], o)'
    BY <1>1, <1>4, <1>5, <1>7 DEF Current, Faithful
  <2>2. \A o \in Objects : Present(o)' => o \in Pend(t)' /\ task'[t].snap[o].ver = graph'[o].ver
    BY <1>1, <1>4, <1>5, <1>6, <1>8 DEF Present
  <2>3. QED BY <1>1, <1>4, <1>5, <2>1, <2>2 DEF Kept
<1>10. QED BY <1>1, <1>3, <1>9, QuietTrack DEF Noted

\* And writes it.
LEMMA FullSaveTrack ==
    ASSUME TypeInv, TypeInv', WBInv, TrackInv, NEW t \in Tasks, FullSave(t) \/ FullSaveFails(t)
    PROVE  TrackInv'
<1> DEFINE q == task[t].pending
           s == task[t].snap
           m == Zipped(q, s)
           r == [task[t] EXCEPT !.pc = "fullapply", !.metas = m]
<1>1. /\ graph' = graph /\ dirty' = dirty /\ dropped' = dropped
      /\ task[t].pc = "fullsave" /\ task[t].pc \in WritingSteps \cap FullSteps
      /\ \A o : ~InFlight(t, o)
  BY DEF FullSave, FullSaveFails, At, WritingSteps, FullSteps, InFlight, TakenSteps, SingleSteps
<1>2. CASE Finish(t) /\ db' = db
  BY <1>1, <1>2, FinishTrack DEF Noted
<1>3. CASE Conflicts(q, s) = {} /\ Commit(q, s) /\ Become(t, r)
  <2>1. Become(t, r)
    BY <1>3
  <2> HIDE DEF m
  <2>2. r.pc = "fullapply"
    BY TaskType DEF TaskState
  <2> HIDE DEF r
  <2>3. task'[t] = r
    BY <2>1, BecomeValue
  <2>4. ContentStays
    BY <1>1 DEF ContentStays
  <2>5. TableGrows
    BY <1>1, <1>3, CommitGrows
  <2>6. Settles(t) /\ \A o \in Pend(t) : db'[o] # db[o] /\ db'[o].ver = s[o].ver
    BY <1>1, <1>3, <2>4, CommitSettles
  <2>7. ASSUME NEW o \in Objects PROVE ~Unsaved(o)'
    <3>1. CASE Present(o)
      <4>1. o \in Pend(t) /\ s[o].ver = graph[o].ver
        BY <1>1, <3>1 DEF TrackInv, Kept
      <4>2. db'[o] # Absent
        BY <2>5, <2>6, <4>1 DEF TableGrows
      <4>3. QED BY <1>1, <2>6, <4>1, <4>2 DEF Unsaved
    <3>2. CASE ~Present(o)
      BY <1>1, <3>2 DEF Unsaved, Present
    <3>3. QED BY <3>1, <3>2
  <2>8. Tasks = {t}
    BY <1>1 DEF TrackInv, Kept
  <2>9. Kept(t)'
    BY <2>2, <2>3, <2>7, <2>8 DEF Kept, WritingSteps
  <2>10. HandsOver(t)
    BY <1>1 DEF HandsOver, Noted
  <2>11. QED BY <2>1, <2>4, <2>5, <2>6, <2>9, <2>10, TrackStep
<1>4. QED BY <1>2, <1>3 DEF FullSave, FullSaveFails

\* ensure_object reads a row.
LEMMA LoadTrack ==
    ASSUME TypeInv, TypeInv', WBInv, TrackInv, NEW t \in Tasks,
           (\E o \in Objects : Ensure(t, o)) \/ Load(t) \/ LoadFails(t)
    PROVE  TrackInv'
<1>1. /\ graph' = graph /\ db' = db /\ dirty' = dirty /\ dropped' = dropped
      /\ \A o : ~InFlight(t, o)
  BY DEF Ensure, Load, LoadFails, At, InFlight, TakenSteps, SingleSteps
<1>2. ASSUME NEW r, Become(t, r), r.pc \in {"load", "cache"} PROVE TrackInv'
  <2>1. Kept(t)'
    BY <1>2, BecomeValue, NothingKept DEF WritingSteps, FullSteps
  <2>2. QED BY <1>1, <1>2, <2>1, QuietTrack DEF Noted
<1>3. ASSUME NEW o \in Objects, Ensure(t, o) PROVE TrackInv'
  <2> DEFINE r == [task[t] EXCEPT !.pc = "load", !.id = o]
  <2>1. Become(t, r) /\ r.pc = "load"
    BY <1>3, TaskType DEF Ensure, TaskState
  <2> HIDE DEF r
  <2>2. QED BY <1>2, <2>1
<1>4. CASE Finish(t)
  BY <1>1, <1>4, FinishTrack DEF Noted
<1>5. CASE Load(t) /\ ~Finish(t)
  <2> DEFINE row == db[task[t].id]
             r == [task[t] EXCEPT !.pc = "cache", !.row = row]
  <2>1. Become(t, r) /\ r.pc = "cache"
    BY <1>5, TaskType DEF Load, TaskState
  <2> HIDE DEF r
  <2>2. QED BY <1>2, <2>1
<1>6. QED BY <1>3, <1>4, <1>5 DEF LoadFails

\* What it caches is the row.
LEMMA CacheTrack ==
    ASSUME TypeInv, TypeInv', WBInv, TrackInv, NEW t \in Tasks, Cache(t)
    PROVE  TrackInv'
<1> DEFINE o == task[t].id
<1>1. /\ db' = db /\ dirty' = dirty /\ dropped' = dropped /\ Finish(t)
      /\ task[t].pc = "cache" /\ o \in Objects /\ \A x : ~InFlight(t, x)
  BY DEF Cache, At, TypeInv, Located, InFlight, TakenSteps, SingleSteps
<1>2. ContentStays
  <2>1. CASE Present(o)
    BY <2>1 DEF Cache, MayCache, ContentStays
  <2>2. CASE ~Present(o)
    <3>1. graph' = [graph EXCEPT ![o] = task[t].row] /\ task[t].row = db[o]
      BY <1>1, <2>2 DEF Cache, MayCache, WBInv, Sound
    <3>2. graph \in [Objects -> Slot] /\ graph[o] = Absent
      BY <2>2 DEF TypeInv, TypeOK, Present
    <3>3. graph'[o] = db[o] /\ \A x \in Objects : x # o => graph'[x] = graph[x]
      BY <1>1, <3>1, <3>2
    <3> HIDE DEF o
    <3>4. QED BY <1>1, <3>2, <3>3 DEF ContentStays
  <2>3. QED BY <2>1, <2>2
<1>3. Kept(t)'
  BY <1>1, BecomeValue, NothingKept DEF Finish, Idle, WritingSteps, FullSteps
<1>4. HandsOver(t) /\ TableGrows /\ Settles(t)
  BY <1>1 DEF HandsOver, Noted, TableGrows, Settles
<1>5. QED BY <1>1, <1>2, <1>3, <1>4, TrackStep DEF Finish

(***************************************************************************)
(* Commands, start and crash.                                              *)
(***************************************************************************)

\* A command marks what it changes, and the new number is nobody else's.
LEMMA MutateTrack ==
    ASSUME TypeInv, TypeInv', WBInv, WBInv', TrackInv, NEW t \in Tasks, NEW S \in SUBSET Objects, NEW c,
           \A o \in S : c[o] \in Entry /\ c[o].ver = Fresh(o),
           Mutate(t, S, c)
    PROVE  TrackInv'
<1>1. /\ graph' = [o \in Objects |-> IF o \in S THEN c[o] ELSE graph[o]]
      /\ dirty' = dirty \cup S /\ dropped' = dropped \ S /\ db' = db
      /\ Become(t, [task[t] EXCEPT !.pc = "persist"])
      /\ task[t].pc \in {"idle", "persist"}
  BY DEF Mutate, Mark, At
<1> DEFINE r == [task[t] EXCEPT !.pc = "persist"]
<1>2. Become(t, r) /\ r.pc = "persist"
  BY <1>1, TaskType DEF TaskState
<1> HIDE DEF r
<1>3. task'[t].pc = "persist" /\ \A o : ~InFlight(t, o) /\ ~InFlight(t, o)'
  BY <1>1, <1>2, BecomeValue DEF InFlight, TakenSteps, SingleSteps
<1>4. ASSUME NEW o \in S
      PROVE  /\ graph'[o] \in Entry /\ graph'[o].ver = last[o] + 1 /\ last[o] \in Nat
             /\ OnDisk[o] <= last[o] /\ InMemory[o] <= last[o] /\ Absent \notin Entry
             /\ InMemory[o] = IF graph[o] = Absent THEN 0 ELSE graph[o].ver
             /\ OnDisk[o] = IF db[o] = Absent THEN 0 ELSE db[o].ver
  BY <1>1, EntryType DEF Fresh, WBInv, Counted
<1>5. ASSUME NEW o \in Objects, o \notin S PROVE graph'[o] = graph[o]
  BY <1>1, <1>5
<1>6. ASSUME NEW o \in Objects
      PROVE  /\ Noted(o) => Noted(o)'
             /\ \A u \in Tasks : InFlight(u, o) <=> InFlight(u, o)'
             /\ o \in S => Noted(o)'
  <2>1. \A u \in Tasks : InFlight(u, o) <=> InFlight(u, o)'
    BY <1>2, <1>3, OthersFly
  <2>2. QED BY <1>1, <2>1 DEF Noted
<1>7. OnlyErrorsForget'
  <2> SUFFICES ASSUME NEW o \in Objects, Unsaved(o)', o \notin S PROVE Tracked(o)' \/ o \in dropped'
    BY <1>6 DEF OnlyErrorsForget, Noted, Tracked
  <2>1. Unsaved(o)
    BY <1>1, <1>5 DEF Unsaved, Present
  <2>2. Noted(o) \/ \E u \in Tasks : InFlight(u, o)
    BY <2>1 DEF TrackInv, OnlyErrorsForget, Tracked, Noted
  <2>3. QED BY <1>6, <2>2 DEF Noted, Tracked
<1>8. Loaded'
  <2> SUFFICES ASSUME NEW o \in Objects \ Deleted, db[o] # Absent PROVE graph'[o] # Absent
    BY <1>1 DEF Loaded, Present
  <2>1. Present(o)
    BY DEF TrackInv, Loaded
  <2>2. QED BY <1>4, <1>5, <2>1 DEF Present
<1>9. ASSUME NEW o \in Objects PROVE Faithful(db[o], o)'
  <2>1. CASE o \in S
    <3>1. db[o] # Absent => db[o].ver # graph'[o].ver
      BY <1>4, <2>1, EntryType DEF Entry
    <3>2. QED BY <1>1, <3>1 DEF Faithful
  <2>2. CASE o \notin S
    <3>1. Faithful(db[o], o)
      BY DEF TrackInv
    <3>2. QED BY <1>1, <1>5, <2>2, <3>1 DEF Faithful, Present
  <2>3. QED BY <2>1, <2>2
<1>10. ASSUME NEW u \in Tasks, u # t PROVE Kept(u)'
  <2>1. task'[u] = task[u]
    BY <1>2, <1>10, OthersFly
  <2>2. task[u].pc \notin FullSteps
    BY <1>10 DEF TrackInv, Kept
  <2>3. ASSUME NEW o \in Objects, task[u].pc \in WritingSteps, task[u].snap[o] # Absent
        PROVE  Current(u, o)' /\ Faithful(task[u].snap[o], o)'
    <3> DEFINE s == task[u].snap[o]
    <3>1. CASE o \in S
      <4>1. s \in Entry /\ Present(o) /\ s.ver <= graph[o].ver /\ graph[o] \in Entry
        <5>1. task[u].snap \in [Objects -> Slot]
          BY TaskType DEF TaskState
        <5>2. QED BY <2>3, <5>1, EntryType DEF WBInv, Sound, CloneSound, Slot, Present
      <4>2. s.ver # graph'[o].ver
        BY <1>4, <3>1, <4>1 DEF Entry, Present
      <4>3. QED BY <1>6, <2>1, <3>1, <4>2 DEF Faithful, Current
    <3>2. CASE o \notin S
      <4>1. Current(u, o) /\ Faithful(s, o)
        BY <2>3 DEF TrackInv, Kept
      <4>2. RowRev(o)' = RowRev(o) /\ graph'[o] = graph[o]
        BY <1>1, <1>5, <3>2 DEF RowRev
      <4>3. QED BY <1>6, <2>1, <4>1, <4>2 DEF Faithful, Current, Present
    <3>3. QED BY <3>1, <3>2
  <2>4. \A o \in Objects : task[u].snap[o] = Absent => Current(u, o)' /\ Faithful(task[u].snap[o], o)'
    BY <2>1 DEF Current, Faithful
  <2>5. task[u].pc \in WritingSteps => \A o \in Objects : Current(u, o)' /\ Faithful(task[u].snap[o], o)'
    BY <2>3, <2>4
  <2>6. task[u].pc \in {"fsave", "freload"} => task[u].at = 1
    BY DEF TrackInv, Kept
  <2>7. QED BY <2>1, <2>2, <2>5, <2>6 DEF Kept, FullSteps
<1>11. Kept(t)'
  BY <1>3, NothingKept DEF WritingSteps, FullSteps
<1>12. \A u \in Tasks : Kept(u)'
  BY <1>10, <1>11
<1>13. QED BY <1>7, <1>8, <1>9, <1>12 DEF TrackInv

\* The commands but for splits and merges.
LEMMA CommandTrack ==
    ASSUME NoStacks, TypeInv, TypeInv', WBInv, WBInv', TrackInv, NEW t \in Tasks, Command(t)
    PROVE  TrackInv'
<1>1. ASSUME NEW o \in Objects, Touch(t, o) PROVE TrackInv'
  <2> DEFINE c == [x \in {o} |-> [graph[x] EXCEPT !.ver = Fresh(x)]]
  <2>1. graph[o] \in Entry /\ Fresh(o) \in Nat
    BY <1>1, EntryType DEF Touch, Present, Fresh
  <2>2. c[o] \in Entry /\ c[o].ver = Fresh(o)
    BY <2>1 DEF Entry
  <2>3. Mutate(t, {o}, c)
    BY <1>1 DEF Touch
  <2> HIDE DEF c
  <2>4. QED BY <2>2, <2>3, MutateTrack
<1>2. ASSUME NEW n \in Objects, Spawn(t, n) PROVE TrackInv'
  <2> DEFINE c == [x \in {n} |-> [ver |-> Fresh(x), qty |-> InitQty, rev |-> 0]]
  <2>1. Fresh(n) \in Nat /\ InitQty \in Nat
    BY EntryType, WorldStoreAssumption DEF Fresh
  <2>2. c[n] \in Entry /\ c[n].ver = Fresh(n)
    BY <2>1 DEF Entry
  <2>3. Mutate(t, {n}, c)
    BY <1>2 DEF Spawn
  <2> HIDE DEF c
  <2>4. QED BY <2>2, <2>3, MutateTrack
<1>3. ASSUME NEW s \in Objects, NEW d \in Objects, Transfer(t, s, d) PROVE TrackInv'
  <2> DEFINE c == [x \in {s, d} |->
           [graph[x] EXCEPT !.ver = Fresh(x), !.qty = IF x = s THEN @ - 1 ELSE @ + 1]]
  <2>1. /\ graph[s] \in Entry /\ graph[d] \in Entry /\ graph[s].qty > 1 /\ s # d
        /\ Fresh(s) \in Nat /\ Fresh(d) \in Nat
    BY <1>3, EntryType DEF Transfer, Present, Fresh
  <2>2. graph[s].qty - 1 \in Nat /\ graph[d].qty + 1 \in Nat
    BY <2>1 DEF Entry
  <2>3. /\ c[s] = [graph[s] EXCEPT !.ver = Fresh(s), !.qty = graph[s].qty - 1]
        /\ c[d] = [graph[d] EXCEPT !.ver = Fresh(d), !.qty = graph[d].qty + 1]
    BY <2>1
  <2>4. Mutate(t, {s, d}, c)
    BY <1>3 DEF Transfer
  <2> HIDE DEF c
  <2>5. c[s] \in Entry /\ c[s].ver = Fresh(s) /\ c[d] \in Entry /\ c[d].ver = Fresh(d)
    BY <2>1, <2>2, <2>3 DEF Entry
  <2>6. QED BY <2>4, <2>5, MutateTrack
<1>4. QED BY <1>1, <1>2, <1>3 DEF Command, Split, Merge, NoStacks

\* The start hydrates what the table has.
LEMMA InitTrack == Init => TrackInv
<1> SUFFICES ASSUME Init PROVE TrackInv
  OBVIOUS
<1>1. graph = Hydrate(db) /\ \A t \in Tasks : task[t].pc = "idle"
  BY DEF Init, Idle
<1>2. ASSUME NEW o \in Objects
      PROVE  graph[o] = Absent \/ graph[o] = db[o]
  BY <1>1 DEF Hydrate
<1>3. OnlyErrorsForget /\ \A o \in Objects : Faithful(db[o], o)
  BY <1>2 DEF OnlyErrorsForget, Unsaved, Present, Faithful
<1>4. Loaded
  BY <1>1 DEF Loaded, Hydrate, Present
<1>5. \A t \in Tasks : Kept(t)
  BY <1>1 DEF Kept, WritingSteps, FullSteps
<1>6. QED BY <1>3, <1>4, <1>5 DEF TrackInv

\* So does a start after a crash.
LEMMA CrashTrack ==
    ASSUME TypeInv, Crash
    PROVE  TrackInv'
<1>1. graph' = Hydrate(db) /\ db' = db /\ \A t \in Tasks : task'[t].pc = "idle"
  BY DEF Crash, Idle
<1>2. ASSUME NEW o \in Objects
      PROVE  graph'[o] = Absent \/ graph'[o] = db'[o]
  BY <1>1 DEF Hydrate
<1>3. OnlyErrorsForget' /\ \A o \in Objects : Faithful(db[o], o)'
  BY <1>2 DEF OnlyErrorsForget, Unsaved, Present, Faithful
<1>4. Loaded'
  BY <1>1 DEF Loaded, Hydrate, Present
<1>5. \A t \in Tasks : Kept(t)'
  BY <1>1 DEF Kept, WritingSteps, FullSteps
<1>6. QED BY <1>3, <1>4, <1>5 DEF TrackInv

\* Every step keeps track.
LEMMA NextTrack ==
    ASSUME NoStacks, PersistAllAlone, TypeInv, TypeInv', WBInv, WBInv', TrackInv, [Next]_vars
    PROVE  TrackInv'
<1>1. ASSUME NEW t \in Tasks, Command(t) PROVE TrackInv'
  BY <1>1, CommandTrack
<1>2. ASSUME NEW t \in Tasks, PersistChanges(t) PROVE TrackInv'
  BY <1>2, TakeTrack, SnapshotTrack, SaveTrack, ApplyTrack, RemarkTrack, ReloadTrack, RefreshTrack, GiveUpTrack
     DEF PersistChanges
<1>3. ASSUME NEW t \in Tasks, FlushDirty(t) PROVE TrackInv'
  BY <1>3, FlushSaveTrack, FlushErrorTrack, FlushReloadTrack, SingleTrack DEF FlushDirty
<1>4. ASSUME NEW t \in Tasks, PersistAll(t) PROVE TrackInv'
  BY <1>4, FullSnapshotTrack, FullSaveTrack, ApplyTrack DEF PersistAll
<1>5. ASSUME NEW t \in Tasks, EnsureObject(t) PROVE TrackInv'
  BY <1>5, LoadTrack, CacheTrack DEF EnsureObject
<1>6. CASE UNCHANGED vars
  <2>1. UNCHANGED <<graph, dirty, db, task, dropped>>
    BY <1>6 DEF vars
  <2>2. \A o : /\ Unsaved(o)' <=> Unsaved(o)
               /\ Noted(o)' <=> Noted(o)
               /\ Present(o)' <=> Present(o)
    BY <2>1 DEF Unsaved, Noted, Present
  <2>3. \A t, o : InFlight(t, o)' <=> InFlight(t, o)
    BY <2>1 DEF InFlight, Pend, Rest
  <2>4. \A t, o : Current(t, o)' <=> Current(t, o)
    BY <2>1, <2>2, <2>3 DEF Current, RowRev
  <2>5. \A t \in Tasks : Kept(t)'
    BY <2>1, <2>2, <2>4 DEF TrackInv, Kept, Faithful, Pend
  <2>6. OnlyErrorsForget'
    BY <2>1, <2>2, <2>3 DEF TrackInv, OnlyErrorsForget, Tracked
  <2>7. QED BY <2>1, <2>2, <2>5, <2>6 DEF TrackInv, Loaded, Faithful
<1>7. QED BY <1>1, <1>2, <1>3, <1>4, <1>5, <1>6, CrashTrack DEF Next

\* The three invariants together.
LEMMA Tracks ==
    ASSUME NoStacks, PersistAllAlone
    PROVE  Spec => [](TypeInv /\ WBInv /\ TrackInv)
<1>1. Init => TypeInv /\ WBInv /\ TrackInv
  BY InitType, InitSound, InitTrack
<1>2. TypeInv /\ WBInv /\ TrackInv /\ [Next]_vars => (TypeInv /\ WBInv /\ TrackInv)'
  BY NextType, NextStep, NextTrack
<1>3. QED BY <1>1, <1>2, PTL DEF Spec

\* DirtyTracker loses no change: however the saves of any number of tasks
\* interleave, whatever they conflict over, and wherever the process dies, a
\* modification that is not in the table is marked, or in the hands of a task
\* that has yet to write it, or was given up by an error return.
THEOREM NothingForgotten ==
    ASSUME NoStacks, PersistAllAlone
    PROVE  Spec => []OnlyErrorsForget
<1>1. TrackInv => OnlyErrorsForget
  BY DEF TrackInv
<1>2. QED BY <1>1, Tracks, PTL

\* What a start would hydrate once every save is done is what is in memory,
\* content for content, if no error gave anything up.
THEOREM ReloadsTheSame ==
    ASSUME NoStacks, PersistAllAlone
    PROVE  Spec => []ReloadIdentical
<1>1. ASSUME TypeInv, TrackInv PROVE ReloadIdentical
  <2> SUFFICES ASSUME AtRest, dropped = {}, NEW o \in Objects \ Deleted
               PROVE  SameContent(graph[o], db[o])
    BY DEF ReloadIdentical
  <2>1. ~Tracked(o)
    BY DEF AtRest, At, Tracked, InFlight, TakenSteps, SingleSteps
  <2>2. ~Unsaved(o)
    BY <1>1, <2>1 DEF TrackInv, OnlyErrorsForget
  <2>3. Faithful(db[o], o) /\ (db[o] # Absent => Present(o))
    BY <1>1 DEF TrackInv, Loaded
  <2>4. QED BY <2>2, <2>3 DEF SameContent, Unsaved, Present, Faithful
<1>2. TypeInv /\ TrackInv => ReloadIdentical
  BY <1>1
<1>3. QED BY <1>2, Tracks, PTL

(***************************************************************************)
(* A task that runs alone may split and merge stacks as well, which        *)
(* persist_changes writes with revisions that zip() pairs with the wrong   *)
(* ids: what is not written is marked, noted as given up, or in the hands  *)
(* of the task, and the clones it writes are what is in memory.            *)
(***************************************************************************)

OneTask == \A t, u \in Tasks : t = u

\* Memory has a content of o that the table does not have.
Behind(o) ==
    /\ Present(o)
    /\ db[o] = Absent \/ db[o].ver # graph[o].ver \/ db[o].qty # graph[o].qty

\* What a task that runs alone may rely on.
Handled(t) ==
    /\ task[t].pc \in TakenSteps => dirty \subseteq Pend(t)
    /\ task[t].pc \in {"reload", "refresh", "freload"} => task[t].id \in Pend(t)
    /\ task[t].pc \in {"save", "fsave", "freload", "fullsave"} => task[t].snap = Clones(task[t].pending)
    /\ task[t].pc \in {"fsave", "freload"} => task[t].at = 1
    /\ task[t].pc = "fullsave" => \A o \in Objects : Present(o) => o \in Pend(t)
    /\ task[t].pc = "fullapply" => \A o \in Objects : ~Behind(o)
    /\ task[t].pc = "cache" => task[t].row = db[task[t].id]

AloneInv ==
    /\ \A o \in Objects : Behind(o) => Noted(o) \/ \E t \in Tasks : InFlight(t, o)
    /\ \A t \in Tasks : Handled(t)

\* The general step.
LEMMA AloneStep ==
    ASSUME AloneInv, NEW t, Tasks = {t}, ContentStays, Handled(t)',
           \A o \in Objects : db'[o] = db[o] \/ ~Behind(o)',
           \A o \in Objects : Behind(o) /\ (Noted(o) \/ InFlight(t, o)) =>
               Noted(o)' \/ InFlight(t, o)' \/ ~Behind(o)'
    PROVE  AloneInv'
<1>1. ASSUME NEW o \in Objects, Behind(o)' PROVE Noted(o)' \/ InFlight(t, o)'
  <2>1. db'[o] = db[o]
    BY <1>1
  <2>2. Behind(o)
    BY <1>1, <2>1 DEF Behind, Present, ContentStays
  <2>3. Noted(o) \/ InFlight(t, o)
    BY <2>2 DEF AloneInv
  <2>4. QED BY <1>1, <2>2, <2>3
<1>2. QED BY <1>1 DEF AloneInv

\* A step that leaves contents and rows alone.
LEMMA QuietAlone ==
    ASSUME AloneInv, NEW t, Tasks = {t}, ContentStays, db' = db, Handled(t)',
           \A o \in Objects : Behind(o) /\ (Noted(o) \/ InFlight(t, o)) => Noted(o)' \/ InFlight(t, o)'
    PROVE  AloneInv'
BY AloneStep

LEMMA GraphStays == ASSUME graph' = graph PROVE ContentStays
BY DEF ContentStays

\* A task between two saves relies on nothing.
LEMMA NothingHandled ==
    ASSUME NEW t, task'[t].pc \in {"idle", "persist", "apply", "load", "single", "sinsert", "sreload"}
    PROVE  Handled(t)'
BY DEF Handled, TakenSteps

\* A task that finishes has nothing in hand.
LEMMA FinishAlone ==
    ASSUME TypeInv, AloneInv, NEW t, Tasks = {t}, Finish(t), ContentStays, db' = db,
           \A o \in Objects : Behind(o) /\ (Noted(o) \/ InFlight(t, o)) => Noted(o)'
    PROVE  AloneInv'
<1>1. task'[t].pc = "idle"
  BY BecomeValue DEF Finish, Idle
<1>2. QED BY <1>1, NothingHandled, QuietAlone

\* Clones of what is not in the graph are filtered out.
LEMMA NoneWritten ==
    ASSUME NEW q, Written(q, Clones(q)) = {}, NEW o \in Objects, o \in Ids(q)
    PROVE  ~Present(o)
<1>1. PICK i \in DOMAIN q : q[i] = o
  BY DEF Ids
<1>2. Clones(q)[o] = Absent
  BY <1>1 DEF Written
<1>3. QED BY <1>2 DEF Clones, Present

\* A transaction that writes the clones of what is in memory.
LEMMA CommitCatchesUp ==
    ASSUME TypeInv, NEW q, Commit(q, Clones(q))
    PROVE  /\ \A o \in Objects : o \notin Ids(q) => db'[o] = db[o]
           /\ \A o \in Objects : o \in Ids(q) /\ Present(o) =>
                db'[o] # Absent /\ db'[o].ver = graph[o].ver /\ db'[o].qty = graph[o].qty
           /\ \A o \in Objects : ~Present(o) => db'[o] = db[o]
<1> DEFINE s == Clones(q)
<1>1. ASSUME NEW o \in Objects, o \notin Ids(q) \/ ~Present(o) PROVE db'[o] = db[o]
  BY <1>1 DEF Commit, Clones, Present
<1>2. ASSUME NEW o \in Objects, o \in Ids(q), Present(o)
      PROVE  db'[o] # Absent /\ db'[o].ver = graph[o].ver /\ db'[o].qty = graph[o].qty
  <2>1. s[o] = graph[o] /\ s[o] # Absent /\ s[o] \in Entry /\ Absent \notin Entry
    BY <1>2, EntryType DEF Clones, Present
  <2>2. db'[o] = [s[o] EXCEPT !.rev = NewRev(o, s)]
    BY <1>2, <2>1 DEF Commit
  <2>3. NewRev(o, s) \in Nat
    BY <2>1 DEF NewRev, Entry
  <2> HIDE DEF s
  <2>4. db'[o] \in Entry /\ db'[o].ver = s[o].ver /\ db'[o].qty = s[o].qty
    BY ONLY <2>1, <2>2, <2>3 DEF Entry
  <2>5. QED BY <2>1, <2>4
<1>3. QED BY <1>1, <1>2

\* What it wrote is not behind.
LEMMA CaughtUp ==
    ASSUME TypeInv, NEW q, Commit(q, Clones(q)), ContentStays
    PROVE  \A o \in Objects : /\ o \in Ids(q) => ~Behind(o)'
                              /\ db'[o] = db[o] \/ ~Behind(o)'
<1>1. ASSUME NEW o \in Objects, o \in Ids(q) PROVE ~Behind(o)'
  <2>1. CASE Present(o)
    <3>1. db'[o] # Absent /\ db'[o].ver = graph[o].ver /\ db'[o].qty = graph[o].qty
      BY <1>1, <2>1, CommitCatchesUp
    <3>2. graph'[o].ver = graph[o].ver /\ graph'[o].qty = graph[o].qty
      BY <2>1 DEF ContentStays, Present
    <3>3. QED BY <3>1, <3>2 DEF Behind
  <2>2. CASE ~Present(o)
    BY <2>2 DEF ContentStays, Present, Behind
  <2>3. QED BY <2>1, <2>2
<1>2. QED BY <1>1, CommitCatchesUp

(***************************************************************************)
(* One lemma per step of the task.                                         *)
(***************************************************************************)

\* A command marks what it changes.
LEMMA MutateAlone ==
    ASSUME TypeInv, AloneInv, NEW t, Tasks = {t}, NEW S, NEW c, Mutate(t, S, c)
    PROVE  AloneInv'
<1>1. /\ graph' = [o \in Objects |-> IF o \in S THEN c[o] ELSE graph[o]]
      /\ dirty' = dirty \cup S /\ dropped' = dropped \ S /\ db' = db
      /\ Become(t, [task[t] EXCEPT !.pc = "persist"])
      /\ task[t].pc \in {"idle", "persist"}
  BY DEF Mutate, Mark, At
<1>2. task'[t].pc = "persist"
  <2>1. [task[t] EXCEPT !.pc = "persist"].pc = "persist"
    BY TaskType DEF TaskState
  <2>2. QED BY <1>1, <2>1, BecomeValue
<1>3. ASSUME NEW o \in Objects, Behind(o)' PROVE Noted(o)'
  <2>1. CASE o \in S
    BY <1>1, <2>1 DEF Noted
  <2>2. CASE o \notin S
    <3>1. Behind(o)
      BY <1>1, <1>3, <2>2 DEF Behind, Present
    <3>2. Noted(o)
      BY <1>1, <3>1 DEF AloneInv, InFlight, TakenSteps, SingleSteps
    <3>3. QED BY <1>1, <2>2, <3>2 DEF Noted
  <2>3. QED BY <2>1, <2>2
<1>4. Handled(t)'
  BY <1>2, NothingHandled
<1>5. QED BY <1>3, <1>4 DEF AloneInv

LEMMA CommandAlone ==
    ASSUME TypeInv, AloneInv, NEW t, Tasks = {t}, Command(t)
    PROVE  AloneInv'
BY MutateAlone DEF Command, Touch, Spawn, Transfer, Split, Merge

\* The marks change hands.
LEMMA TakeAlone ==
    ASSUME TypeInv, AloneInv, NEW t, Tasks = {t}, Take(t)
    PROVE  AloneInv'
<1>1. /\ task[t].pc = "persist" /\ ContentStays /\ db' = db /\ dropped' = dropped /\ dirty' = {}
      /\ \A o : ~InFlight(t, o)
  BY GraphStays DEF Take, At, InFlight, TakenSteps, SingleSteps
<1>2. CASE dirty = {}
  <2>1. Finish(t)
    BY <1>2 DEF Take
  <2>2. QED BY <1>1, <1>2, <2>1, FinishAlone DEF Noted
<1>3. CASE dirty # {}
  <2>1. PICK q \in Orders(dirty) : Become(t, [task[t] EXCEPT !.pc = "snap", !.pending = q])
    BY <1>3 DEF Take
  <2> DEFINE r == [task[t] EXCEPT !.pc = "snap", !.pending = q]
  <2>2. r.pc = "snap" /\ r.pending = q
    BY TaskType DEF TaskState
  <2>3. Become(t, r)
    BY <2>1
  <2> HIDE DEF r
  <2>4. task'[t] = r
    BY <2>3, BecomeValue
  <2>5. \A o \in dirty : InFlight(t, o)'
    BY <2>2, <2>4 DEF Orders, InFlight, Pend, TakenSteps
  <2>6. Handled(t)'
    BY <1>1, <2>2, <2>4 DEF Handled
  <2>7. QED BY <1>1, <2>5, <2>6, QuietAlone DEF Noted
<1>4. QED BY <1>2, <1>3

\* It clones what it took.
LEMMA SnapshotAlone ==
    ASSUME TypeInv, AloneInv, NEW t, Tasks = {t}, Snapshot(t)
    PROVE  AloneInv'
<1> DEFINE q == task[t].pending
           s == Clones(q)
           r == [task[t] EXCEPT !.pc = "save", !.snap = s]
<1>1. /\ task[t].pc = "snap" /\ graph' = graph /\ ContentStays
      /\ db' = db /\ dropped' = dropped /\ dirty' = dirty
      /\ task[t].pc \in TakenSteps /\ task[t].pc \notin SingleSteps
  BY GraphStays DEF Snapshot, At, TakenSteps, SingleSteps
<1>2. CASE Written(q, s) = {}
  <2>1. Finish(t)
    BY <1>2 DEF Snapshot
  <2>2. \A o \in Objects : InFlight(t, o) => ~Behind(o)
    BY <1>1, <1>2, NoneWritten DEF InFlight, Pend, Behind
  <2>3. QED BY <1>1, <2>1, <2>2, FinishAlone DEF Noted
<1>3. CASE Written(q, s) # {}
  <2>1. Become(t, r)
    BY <1>3 DEF Snapshot
  <2>2. r.pc = "save" /\ r.pending = q /\ r.snap = s
    BY TaskType DEF TaskState
  <2> HIDE DEF r
  <2>3. task'[t] = r
    BY <2>1, BecomeValue
  <2>4. dirty' \subseteq Pend(t)'
    BY <1>1, <2>2, <2>3 DEF AloneInv, Handled, Pend
  <2>5. task'[t].snap = Clones(task[t].pending)'
    BY <1>1, <2>2, <2>3 DEF Clones
  <2>6. Handled(t)'
    BY <2>2, <2>3, <2>4, <2>5 DEF Handled
  <2>7. \A o : InFlight(t, o) => InFlight(t, o)'
    BY <1>1, <2>2, <2>3 DEF InFlight, Pend, TakenSteps
  <2>8. QED BY <1>1, <2>6, <2>7, QuietAlone DEF Noted
<1>4. QED BY <1>2, <1>3

\* A task that goes on with the ids it took, and the clones it made of them.
LEMMA CarriesOn ==
    ASSUME TypeInv, AloneInv, NEW t, Tasks = {t}, NEW r, Become(t, r),
           task[t].pc \in TakenSteps, r.pc \in TakenSteps, r.pc # "save", r.pc # "fsave",
           r.pc \in {"reload", "refresh", "freload"} => r.id \in Pend(t),
           r.pending = task[t].pending, r.at = task[t].at,
           r.pc = "freload" => task[t].pc = "fsave" /\ r.snap = task[t].snap,
           graph' = graph, db' = db, dirty' = dirty, dropped' = dropped
    PROVE  AloneInv'
<1>1. task'[t] = r
  BY BecomeValue
<1>2. Pend(t)' = Pend(t)
  BY <1>1 DEF Pend
<1>3. \A o : InFlight(t, o) => InFlight(t, o)'
  BY <1>1, <1>2 DEF InFlight, TakenSteps, SingleSteps
<1>4. /\ dirty' \subseteq Pend(t)'
      /\ r.pc = "freload" => r.snap = Clones(r.pending) /\ r.at = 1
  BY <1>2 DEF AloneInv, Handled
<1>5. r.pc = "freload" => task'[t].snap = Clones(task[t].pending)'
  BY <1>1, <1>4 DEF Clones
<1>6. r.pc \notin {"fullsave", "fullapply", "cache"}
  BY DEF TakenSteps
<1>7. Handled(t)'
  BY <1>1, <1>2, <1>4, <1>5, <1>6 DEF Handled
<1>8. QED BY <1>3, <1>7, QuietAlone, GraphStays DEF Noted

\* The transaction of persist_changes, or its conflict.
LEMMA SaveAlone ==
    ASSUME TypeInv, AloneInv, NEW t, Tasks = {t}, Save(t)
    PROVE  AloneInv'
<1> DEFINE q == task[t].pending
           s == task[t].snap
<1>1. /\ task[t].pc = "save" /\ graph' = graph /\ ContentStays /\ dropped' = dropped /\ dirty' = dirty
      /\ task[t].pc \in TakenSteps /\ task[t].pc \notin SingleSteps
  BY GraphStays DEF Save, At, TakenSteps, SingleSteps
<1>2. s = Clones(q) /\ dirty \subseteq Pend(t)
  BY <1>1 DEF AloneInv, Handled
<1>3. CASE Commit(q, s) /\ Become(t, [task[t] EXCEPT !.pc = "apply", !.metas = Zipped(q, s)])
  <2> DEFINE m == Zipped(q, s)
             r == [task[t] EXCEPT !.pc = "apply", !.metas = m]
  <2>1. task'[t] = r
    BY <1>3, BecomeValue
  <2> HIDE DEF m
  <2>2. r.pc = "apply"
    BY TaskType DEF TaskState
  <2> HIDE DEF r
  <2>3. Handled(t)'
    BY <2>1, <2>2, NothingHandled
  <2>4. Commit(q, Clones(q))
    BY <1>2, <1>3
  <2>5. \A o \in Objects : /\ o \in Pend(t) => ~Behind(o)'
                           /\ db'[o] = db[o] \/ ~Behind(o)'
    BY <1>1, <2>4, CaughtUp DEF Pend
  <2>6. \A o \in Objects : Noted(o) \/ InFlight(t, o) => Noted(o)' \/ ~Behind(o)'
    BY <1>1, <2>5 DEF Noted, InFlight
  <2>7. QED BY <1>1, <2>3, <2>5, <2>6, AloneStep
<1>4. CASE \E i \in Conflicts(q, s) :
             Become(t, [task[t] EXCEPT !.pc = "reload", !.id = q[i]]) /\ UNCHANGED db
  <2>1. PICK i \in Conflicts(q, s) :
             Become(t, [task[t] EXCEPT !.pc = "reload", !.id = q[i]]) /\ UNCHANGED db
    BY <1>4
  <2> DEFINE o == q[i]
             r == [task[t] EXCEPT !.pc = "reload", !.id = o]
  <2>2. o \in Pend(t)
    BY DEF Conflicts, Written, Pend, Ids
  <2>3. Become(t, r) /\ db' = db
    BY <2>1
  <2> HIDE DEF o
  <2>4. r.pc = "reload" /\ r.id = o /\ r.pending = q /\ r.at = task[t].at
    BY TaskType DEF TaskState
  <2> HIDE DEF r
  <2>5. r.pc \in TakenSteps
    BY <2>4 DEF TakenSteps
  <2>6. QED BY <1>1, <2>2, <2>3, <2>4, <2>5, CarriesOn
<1>5. QED BY <1>3, <1>4 DEF Save

\* An error before anything is written: to be marked again.
LEMMA SaveFailsAlone ==
    ASSUME TypeInv, AloneInv, NEW t, Tasks = {t}, SaveFails(t)
    PROVE  AloneInv'
<1> DEFINE r == [task[t] EXCEPT !.pc = "remark"]
<1>1. /\ task[t].pc \in TakenSteps /\ Become(t, r)
      /\ graph' = graph /\ db' = db /\ dirty' = dirty /\ dropped' = dropped
  BY DEF SaveFails, At, TakenSteps
<1>2. r.pc = "remark" /\ r.pending = task[t].pending /\ r.at = task[t].at
  BY TaskType DEF TaskState
<1> HIDE DEF r
<1>3. r.pc \in TakenSteps
  BY <1>2 DEF TakenSteps
<1>4. QED BY <1>1, <1>2, <1>3, CarriesOn

\* Revisions come back, to wherever zip() sends them.
LEMMA ApplyAlone ==
    ASSUME TypeInv, AloneInv, NEW t, Tasks = {t}, Apply(t) \/ FullApply(t)
    PROVE  AloneInv'
<1>1. /\ graph' = WithMetas(task[t].metas) /\ Finish(t) /\ db' = db /\ dropped' = dropped
      /\ task[t].pc \notin TakenSteps /\ task[t].pc \notin SingleSteps
      /\ \A o : ~InFlight(t, o)
  BY DEF Apply, FullApply, At, TakenSteps, SingleSteps, InFlight
<1>2. ContentStays
  <2>1. task[t].metas \in [Objects -> Nat]
    BY TaskType DEF TaskState
  <2>2. QED BY <1>1, <2>1, MetasContent
<1>3. CASE Apply(t)
  <2>1. dirty' = dirty
    BY <1>3 DEF Apply
  <2>2. QED BY <1>1, <1>2, <2>1, FinishAlone DEF Noted
<1>4. CASE FullApply(t)
  <2>1. \A o \in Objects : ~Behind(o)
    BY <1>4 DEF FullApply, At, AloneInv, Handled
  <2>2. QED BY <1>1, <1>2, <2>1, FinishAlone
<1>5. QED BY <1>3, <1>4

\* Errors that leave everything marked, or noted as given up.
LEMMA ErrorAlone ==
    ASSUME TypeInv, AloneInv, NEW t, Tasks = {t},
           Remark(t) \/ ReloadFails(t) \/ FlushSaveFails(t) \/ FlushReloadFails(t)
    PROVE  AloneInv'
<1>1. /\ graph' = graph /\ ContentStays /\ db' = db /\ Finish(t) /\ task[t].pc \notin SingleSteps
      /\ dirty \subseteq dirty' /\ dropped \subseteq dropped' /\ Pend(t) \subseteq dirty' \cup dropped'
  BY GraphStays DEF Remark, ReloadFails, FlushSaveFails, FlushReloadFails, Release, MarkMany, At, SingleSteps
<1>2. QED BY <1>1, FinishAlone DEF Noted, InFlight

\* The row of the conflict is read.
LEMMA ReloadAlone ==
    ASSUME TypeInv, AloneInv, NEW t, Tasks = {t}, Reload(t)
    PROVE  AloneInv'
<1> DEFINE w == db[task[t].id]
           r == [task[t] EXCEPT !.pc = "refresh", !.row = w]
<1>1. /\ task[t].pc = "reload" /\ task[t].pc \in TakenSteps /\ Become(t, r)
      /\ graph' = graph /\ db' = db /\ dirty' = dirty /\ dropped' = dropped
  BY DEF Reload, At, TakenSteps
<1> HIDE DEF w
<1>2. r.pc = "refresh" /\ r.pending = task[t].pending /\ r.at = task[t].at /\ r.id = task[t].id
  BY TaskType DEF TaskState
<1> HIDE DEF r
<1>3. r.pc \in TakenSteps
  BY <1>2 DEF TakenSteps
<1>4. task[t].id \in Pend(t)
  BY <1>1 DEF AloneInv, Handled
<1>5. QED BY <1>1, <1>2, <1>3, <1>4, CarriesOn

\* Its revision is taken over, and its id marked, though the task has it in hand.
LEMMA RefreshAlone ==
    ASSUME TypeInv, AloneInv, NEW t, Tasks = {t}, Refresh(t)
    PROVE  AloneInv'
<1> DEFINE o == task[t].id
           n == task[t].tries + 1
           pc == IF n < Retries THEN "snap" ELSE "giveup"
           r == [task[t] EXCEPT !.pc = pc, !.tries = n, !.id = Absent, !.row = Absent, !.snap = NoSnap]
<1>1. /\ task[t].pc = "refresh" /\ task[t].pc \in TakenSteps /\ task[t].pc \notin SingleSteps
      /\ db' = db /\ dirty' = dirty \cup {o} /\ dropped' = dropped /\ Become(t, r)
      /\ graph' = IF Present(o) THEN [graph EXCEPT ![o].rev = task[t].row.rev] ELSE graph
  BY DEF Refresh, At, TakenSteps, SingleSteps, Mark
<1>2. o \in Objects /\ task[t].row.rev \in Nat
  <2>1. o \in Objects /\ task[t].row # Absent /\ task[t].row \in Slot
    BY <1>1, TaskType DEF TypeInv, Located, TaskState
  <2>2. QED BY <2>1 DEF Slot, Entry
<1>3. ContentStays
  <2> HIDE DEF o
  <2>1. QED BY <1>1, <1>2, RevisionContent, GraphStays DEF Present
<1>4. pc \in {"snap", "giveup"}
  OBVIOUS
<1> HIDE DEF pc, n
<1>5. r.pc = pc /\ r.pending = task[t].pending
  BY TaskType DEF TaskState
<1> HIDE DEF r
<1>6. task'[t] = r
  BY <1>1, BecomeValue
<1>7. Pend(t)' = Pend(t) /\ dirty' \subseteq Pend(t)
  BY <1>1, <1>5, <1>6 DEF Pend, AloneInv, Handled
<1>8. Handled(t)'
  BY <1>4, <1>5, <1>6, <1>7 DEF Handled
<1>9. \A x : InFlight(t, x) => InFlight(t, x)'
  BY <1>1, <1>4, <1>5, <1>6, <1>7 DEF InFlight, TakenSteps
<1>10. QED BY <1>1, <1>3, <1>8, <1>9, QuietAlone DEF Noted

\* The flush takes what is marked besides, and clones it.
LEMMA GiveUpAlone ==
    ASSUME TypeInv, AloneInv, NEW t, Tasks = {t}, GiveUp(t)
    PROVE  AloneInv'
<1>1. /\ graph' = graph /\ ContentStays /\ db' = db /\ dropped' = dropped /\ dirty' = {}
      /\ task[t].pc = "giveup" /\ task[t].pc \notin SingleSteps
  BY GraphStays DEF GiveUp, At, SingleSteps
<1>2. PICK q \in Orders(MarkMany(Pend(t))) :
        IF Written(q, Clones(q)) = {} THEN Finish(t)
        ELSE Become(t, [Idle EXCEPT !.pc = "fsave", !.pending = q, !.snap = Clones(q)])
  BY DEF GiveUp
<1>3. Ids(q) = dirty \cup Pend(t)
  BY DEF Orders, MarkMany
<1> DEFINE s == Clones(q)
<1>4. CASE Written(q, s) = {}
  <2>1. Finish(t)
    BY <1>2, <1>4
  <2>2. \A o \in Objects : o \in dirty \cup Pend(t) => ~Behind(o)
    BY <1>3, <1>4, NoneWritten DEF Behind
  <2>3. QED BY <1>1, <2>1, <2>2, FinishAlone DEF Noted, InFlight
<1>5. CASE Written(q, s) # {}
  <2> DEFINE r == [Idle EXCEPT !.pc = "fsave", !.pending = q, !.snap = s]
  <2>1. Become(t, r)
    BY <1>2, <1>5
  <2>2. r.pc = "fsave" /\ r.pending = q /\ r.snap = s /\ r.at = 1
    BY DEF Idle
  <2> HIDE DEF r
  <2>3. task'[t] = r
    BY <2>1, BecomeValue
  <2>4. task'[t].snap = Clones(task[t].pending)'
    BY <1>1, <2>2, <2>3 DEF Clones
  <2>5. Handled(t)'
    BY <1>1, <2>2, <2>3, <2>4 DEF Handled
  <2>6. \A o : Noted(o) \/ InFlight(t, o) => Noted(o)' \/ InFlight(t, o)'
    BY <1>1, <1>3, <2>2, <2>3 DEF InFlight, Noted, Pend, TakenSteps
  <2>7. QED BY <1>1, <2>5, <2>6, QuietAlone
<1>6. QED BY <1>4, <1>5

\* The flush writes all it took, or meets a conflict.
LEMMA FlushSaveAlone ==
    ASSUME TypeInv, AloneInv, NEW t, Tasks = {t}, FlushSave(t)
    PROVE  AloneInv'
<1> DEFINE q == task[t].pending
           s == task[t].snap
<1>1. /\ task[t].pc = "fsave" /\ dropped' = dropped /\ dirty' = dirty
      /\ task[t].pc \in TakenSteps /\ task[t].pc \notin SingleSteps
  BY DEF FlushSave, At, TakenSteps, SingleSteps
<1>2. s = Clones(q)
  BY <1>1 DEF AloneInv, Handled
<1>3. CASE Commit(q, s) /\ graph' = WithMetas(Zipped(q, s)) /\ Release(t)
  <2>1. ContentStays
    <3>1. Zipped(q, s) \in [Objects -> Nat]
      BY ZippedType, TaskType DEF TaskState
    <3>2. QED BY <1>3, <3>1, MetasContent
  <2>2. Handled(t)'
    <3>1. task'[t].pc = "idle"
      BY <1>3, BecomeValue DEF Release, Finish, Idle
    <3>2. QED BY <3>1, NothingHandled
  <2>3. Commit(q, Clones(q))
    BY <1>2, <1>3
  <2>4. \A o \in Objects : /\ o \in Pend(t) => ~Behind(o)'
                           /\ db'[o] = db[o] \/ ~Behind(o)'
    BY <2>1, <2>3, CaughtUp DEF Pend
  <2>5. \A o \in Objects : Noted(o) \/ InFlight(t, o) => Noted(o)' \/ ~Behind(o)'
    BY <1>1, <2>4 DEF Noted, InFlight
  <2>6. QED BY <2>1, <2>2, <2>4, <2>5, AloneStep
<1>4. CASE \E i \in Conflicts(q, s) :
             Become(t, [task[t] EXCEPT !.pc = "freload", !.id = q[i]]) /\ UNCHANGED <<graph, db, holder>>
  <2>1. PICK i \in Conflicts(q, s) :
             Become(t, [task[t] EXCEPT !.pc = "freload", !.id = q[i]]) /\ UNCHANGED <<graph, db, holder>>
    BY <1>4
  <2> DEFINE o == q[i]
             r == [task[t] EXCEPT !.pc = "freload", !.id = o]
  <2>2. o \in Pend(t)
    BY DEF Conflicts, Written, Pend, Ids
  <2>3. Become(t, r) /\ db' = db /\ graph' = graph
    BY <2>1
  <2> HIDE DEF o
  <2>4. r.pc = "freload" /\ r.id = o /\ r.pending = q /\ r.at = task[t].at /\ r.snap = s
    BY TaskType DEF TaskState
  <2> HIDE DEF r
  <2>5. r.pc \in TakenSteps
    BY <2>4 DEF TakenSteps
  <2>6. QED BY <1>1, <2>2, <2>3, <2>4, <2>5, CarriesOn
<1>5. QED BY <1>3, <1>4 DEF FlushSave

\* It takes the revision over and clones the object again.
LEMMA FlushReloadAlone ==
    ASSUME TypeInv, AloneInv, NEW t, Tasks = {t}, FlushReload(t)
    PROVE  AloneInv'
<1> DEFINE o == task[t].id
           n == task[t].tries + 1
           m == db[o].rev
           g == [graph EXCEPT ![o].rev = m]
           pc == IF n < Retries THEN "fsave" ELSE "single"
           k == IF n < Retries THEN n ELSE 0
           sn == [task[t].snap EXCEPT ![o] = g[o]]
           r == [task[t] EXCEPT !.pc = pc, !.tries = k, !.id = Absent, !.snap = sn]
<1>1. /\ task[t].pc = "freload" /\ db' = db /\ dirty' = dirty /\ dropped' = dropped
      /\ graph' = g /\ Become(t, r)
      /\ task[t].pc \in TakenSteps /\ task[t].pc \notin SingleSteps
  BY DEF FlushReload, At, TakenSteps, SingleSteps
<1>2. /\ o \in Objects /\ graph[o] # Absent /\ m \in Nat /\ task[t].snap \in [Objects -> Slot]
  <2>1. o \in Objects /\ graph[o] # Absent /\ db[o] # Absent
    BY <1>1 DEF TypeInv, Located
  <2>2. db[o] \in Entry
    BY <2>1, EntryType
  <2>3. QED BY <2>1, <2>2, TaskType DEF TaskState, Entry
<1>3. ContentStays
  <2> HIDE DEF o, m
  <2>1. QED BY <1>1, <1>2, RevisionContent
<1>4. task[t].snap = Clones(task[t].pending) /\ o \in Pend(t) /\ dirty \subseteq Pend(t) /\ task[t].at = 1
  BY <1>1 DEF AloneInv, Handled
<1>5. sn = [x \in Objects |-> IF x \in Pend(t) THEN g[x] ELSE Absent]
  <2>1. graph \in [Objects -> Slot]
    BY DEF TypeInv, TypeOK
  <2>2. \A x \in Objects : x # o => g[x] = graph[x]
    BY <2>1
  <2>3. sn = [x \in Objects |-> IF x = o THEN g[o] ELSE task[t].snap[x]]
    BY <1>2
  <2> HIDE DEF g
  <2>4. \A x \in Objects : task[t].snap[x] = IF x \in Pend(t) THEN graph[x] ELSE Absent
    BY <1>4 DEF Clones, Pend
  <2> HIDE DEF sn
  <2>5. QED BY <1>2, <1>4, <2>2, <2>3, <2>4
<1>6. pc \in {"fsave", "single"}
  OBVIOUS
<1> HIDE DEF g, sn, pc, k
<1>7. r.pc = pc /\ r.pending = task[t].pending /\ r.snap = sn /\ r.at = task[t].at
  BY TaskType DEF TaskState
<1> HIDE DEF r
<1>8. task'[t] = r
  BY <1>1, BecomeValue
<1>9. Pend(t)' = Pend(t)
  BY <1>7, <1>8 DEF Pend
<1>10. task'[t].snap = Clones(task[t].pending)'
  <2>1. Clones(task[t].pending)' = [x \in Objects |-> IF x \in Pend(t)' THEN g[x] ELSE Absent]
    BY <1>1 DEF Clones, Pend
  <2>2. QED BY <1>5, <1>7, <1>8, <1>9, <2>1
<1>11. Handled(t)'
  BY <1>1, <1>4, <1>6, <1>7, <1>8, <1>9, <1>10 DEF Handled, TakenSteps
<1>12. ASSUME NEW x, InFlight(t, x) PROVE InFlight(t, x)'
  <2>1. task[t].pending \in Seq(Objects) /\ x \in Pend(t)
    BY <1>1, <1>12, TaskType DEF InFlight, TaskState
  <2>2. PICK i \in DOMAIN task[t].pending : task[t].pending[i] = x
    BY <2>1 DEF Pend, Ids
  <2>3. i >= 1
    BY <2>1, <2>2
  <2>4. x \in Pend(t)' /\ x \in Rest(t)'
    BY <1>4, <1>7, <1>8, <2>2, <2>3 DEF Pend, Ids, Rest
  <2>5. QED BY <1>6, <1>7, <1>8, <2>4 DEF InFlight, TakenSteps, SingleSteps
<1>13. QED BY <1>1, <1>3, <1>11, <1>12, QuietAlone DEF Noted

\* One id of a save row by row is done: the task has the others still.
LEMMA NextIdAlone ==
    ASSUME TypeInv, NEW t, Tasks = {t}, NextId(t), task[t].pc \in SingleSteps
    PROVE  /\ Handled(t)'
           /\ \A o : InFlight(t, o) /\ o # Cur(t) => InFlight(t, o)'
<1>1. \A o : InFlight(t, o) /\ o # Cur(t) => InFlight(t, o)'
  BY NextIdTrack
<1>2. task'[t].pc \in {"idle", "single"}
  <2>1. CASE LastId(t)
    BY <2>1, BecomeValue DEF NextId, Release, Finish, Idle
  <2>2. CASE ~LastId(t)
    <3> DEFINE k == task[t].at + 1
               r == [task[t] EXCEPT !.pc = "single", !.at = k, !.tries = 0]
    <3>1. task'[t] = r
      BY <2>2, BecomeValue DEF NextId
    <3> HIDE DEF k
    <3>2. r.pc = "single"
      BY TaskType DEF TaskState
    <3>3. QED BY <3>1, <3>2
  <2>3. QED BY <2>1, <2>2
<1>3. QED BY <1>1, <1>2, NothingHandled

\* A row that is saved on its own.
LEMMA StoredAlone ==
    ASSUME TypeInv, AloneInv, NEW t, Tasks = {t}, Stored(t), task[t].pc \in SingleSteps, Present(Cur(t))
    PROVE  AloneInv'
<1> DEFINE o == Cur(t)
           n == NewRev(o, graph)
           e == [graph[o] EXCEPT !.rev = n]
<1>1. /\ db' = [db EXCEPT ![o] = e] /\ graph' = [graph EXCEPT ![o] = e] /\ NextId(t)
      /\ dirty' = dirty /\ dropped' = dropped
  BY DEF Stored
<1>2. /\ o \in Objects /\ graph[o] \in Entry /\ graph[o] # Absent /\ Absent \notin Entry
      /\ graph \in [Objects -> Slot] /\ db \in [Objects -> Slot]
  <2>1. o \in Objects /\ graph[o] # Absent
    BY TaskType DEF Present
  <2>2. QED BY <2>1, EntryType DEF TypeInv, TypeOK
<1>3. n \in Nat
  BY <1>2 DEF NewRev, Entry
<1> HIDE DEF n
<1>4. e \in Entry /\ e.ver = graph[o].ver /\ e.qty = graph[o].qty
  BY ONLY <1>2, <1>3 DEF Entry
<1> HIDE DEF e, o
<1>5. /\ db'[o] = e /\ graph'[o] = e /\ e # Absent
      /\ \A x \in Objects : x # o => db'[x] = db[x] /\ graph'[x] = graph[x]
  BY <1>1, <1>2, <1>4
<1>6. ContentStays
  BY <1>2, <1>4, <1>5 DEF ContentStays
<1>7. \A x \in Objects : (x = o => ~Behind(x)') /\ (db'[x] = db[x] \/ ~Behind(x)')
  BY <1>5 DEF Behind
<1>8. Handled(t)' /\ \A x : InFlight(t, x) /\ x # o => InFlight(t, x)'
  BY <1>1, NextIdAlone DEF o
<1>9. QED BY <1>1, <1>6, <1>7, <1>8, AloneStep DEF Noted

\* The task stays at its id.
LEMMA SameIdAlone ==
    ASSUME TypeInv, AloneInv, NEW t, Tasks = {t}, NEW r, Become(t, r),
           task[t].pc \in SingleSteps, r.pc \in SingleSteps,
           r.pending = task[t].pending, r.at = task[t].at,
           ContentStays, db' = db, dirty' = dirty, dropped' = dropped
    PROVE  AloneInv'
<1>1. task'[t] = r
  BY BecomeValue
<1>2. Handled(t)'
  BY <1>1, NothingHandled DEF SingleSteps
<1>3. \A o : InFlight(t, o) => InFlight(t, o)'
  BY <1>1 DEF InFlight, Pend, Rest, TakenSteps, SingleSteps
<1>4. QED BY <1>2, <1>3, QuietAlone DEF Noted

\* An error notes all that is left.
LEMMA DropAlone ==
    ASSUME TypeInv, AloneInv, NEW t, Tasks = {t}, task[t].pc \in SingleSteps, Finish(t), ContentStays,
           db' = db, dirty' = dirty, dropped' = dropped \cup Rest(t)
    PROVE  AloneInv'
<1>1. \A o : InFlight(t, o) => o \in Rest(t)
  BY DEF InFlight, TakenSteps, SingleSteps
<1>2. QED BY <1>1, FinishAlone DEF Noted

\* The steps of save_object_with_retry.
LEMMA SingleAlone ==
    ASSUME TypeInv, AloneInv, NEW t, Tasks = {t},
           SkipMissing(t) \/ SaveOne(t) \/ InsertOne(t) \/ ReloadOne(t) \/ SaveOneFails(t)
    PROVE  AloneInv'
<1>1. task[t].pc \in SingleSteps
  BY DEF SkipMissing, SaveOne, InsertOne, ReloadOne, SaveOneFails, At, SingleSteps
<1>2. task[t] \in TaskState /\ Cur(t) \in Objects
  BY <1>1, TaskType
<1>3. CASE Stored(t) /\ Present(Cur(t))
  BY <1>1, <1>3, StoredAlone
<1>4. CASE /\ Become(t, [task[t] EXCEPT !.pc = IF db[Cur(t)] = Absent THEN "sinsert" ELSE "sreload"])
           /\ UNCHANGED <<graph, dirty, db, dropped>>
  <2> DEFINE pc == IF db[Cur(t)] = Absent THEN "sinsert" ELSE "sreload"
             r == [task[t] EXCEPT !.pc = pc]
  <2>1. Become(t, r) /\ ContentStays /\ db' = db /\ dirty' = dirty /\ dropped' = dropped
    BY <1>4, GraphStays
  <2>2. pc \in SingleSteps
    BY DEF SingleSteps
  <2> HIDE DEF pc
  <2>3. r.pc = pc /\ r.pending = task[t].pending /\ r.at = task[t].at
    BY <1>2 DEF TaskState
  <2> HIDE DEF r
  <2>4. QED BY <1>1, <2>1, <2>2, <2>3, SameIdAlone
<1>5. CASE Drop(t) /\ db' = db
  <2>1. /\ Finish(t) /\ ContentStays /\ db' = db /\ dirty' = dirty
        /\ dropped' = dropped \cup Rest(t)
    BY <1>5, GraphStays DEF Drop, Release
  <2>2. QED BY <1>1, <2>1, DropAlone
<1>6. CASE ReloadOne(t)
  <2> DEFINE o == Cur(t)
             m == db[o].rev
  <2>1. graph' = [graph EXCEPT ![o].rev = m] /\ db' = db /\ dirty' = dirty
    BY <1>6 DEF ReloadOne
  <2>2. m \in Nat /\ o \in Objects /\ graph[o] # Absent
    <3>1. db[o] # Absent /\ graph[o] # Absent
      BY <1>6 DEF ReloadOne, At, TypeInv, Located
    <3>2. db[o] \in Entry
      BY <1>2, <3>1, EntryType
    <3>3. QED BY <1>2, <3>1, <3>2 DEF Entry
  <2>3. ContentStays
    <3> HIDE DEF o, m
    <3>1. QED BY <2>1, <2>2, RevisionContent
  <2>4. CASE task[t].tries + 1 < Retries
    <3> DEFINE k == task[t].tries + 1
               r == [task[t] EXCEPT !.pc = "single", !.tries = k]
    <3>1. Become(t, r) /\ dropped' = dropped
      BY <1>6, <2>4 DEF ReloadOne
    <3> HIDE DEF k
    <3>2. r.pc = "single" /\ r.pending = task[t].pending /\ r.at = task[t].at
      BY <1>2 DEF TaskState
    <3> HIDE DEF r
    <3>3. r.pc \in SingleSteps
      BY <3>2 DEF SingleSteps
    <3>4. QED BY <1>1, <2>1, <2>3, <3>1, <3>2, <3>3, SameIdAlone
  <2>5. CASE ~(task[t].tries + 1 < Retries)
    <3>1. Finish(t) /\ dropped' = dropped \cup Rest(t)
      BY <1>6, <2>5 DEF ReloadOne, Release
    <3>2. QED BY <1>1, <2>1, <2>3, <3>1, DropAlone
  <2>6. QED BY <2>4, <2>5
<1>7. CASE SkipMissing(t)
  <2>1. /\ ContentStays /\ db' = db /\ dirty' = dirty /\ dropped' = dropped
        /\ NextId(t) /\ ~Present(Cur(t))
    BY <1>7, GraphStays DEF SkipMissing
  <2>2. Handled(t)' /\ \A o : InFlight(t, o) /\ Behind(o) => InFlight(t, o)'
    BY <1>1, <2>1, NextIdAlone DEF Behind
  <2>3. QED BY <2>1, <2>2, QuietAlone DEF Noted
<1>8. CASE SaveOne(t)
  BY <1>3, <1>4, <1>8 DEF SaveOne
<1>9. CASE InsertOne(t)
  <2>1. Present(Cur(t))
    BY <1>9 DEF InsertOne, At, TypeInv, Located, Present
  <2>2. QED BY <1>3, <1>5, <1>9, <2>1 DEF InsertOne, Drop
<1>10. CASE SaveOneFails(t)
  BY <1>5, <1>10 DEF SaveOneFails, Drop
<1>11. QED BY <1>6, <1>7, <1>8, <1>9, <1>10

\* persist_all clones everything there is.
LEMMA FullSnapshotAlone ==
    ASSUME TypeInv, AloneInv, NEW t, Tasks = {t}, FullSnapshot(t)
    PROVE  AloneInv'
<1>1. /\ graph' = graph /\ ContentStays /\ db' = db /\ dirty' = dirty /\ dropped' = dropped
      /\ \A o : ~InFlight(t, o)
  BY GraphStays DEF FullSnapshot, At, InFlight, TakenSteps, SingleSteps
<1>2. PICK q \in Orders({o \in Objects : Present(o)}) :
        Become(t, [task[t] EXCEPT !.pc = "fullsave", !.pending = q, !.snap = Clones(q)])
  BY DEF FullSnapshot
<1> DEFINE s == Clones(q)
           r == [task[t] EXCEPT !.pc = "fullsave", !.pending = q, !.snap = s]
<1>3. Become(t, r)
  BY <1>2
<1>4. r.pc = "fullsave" /\ r.pending = q /\ r.snap = s
  BY TaskType DEF TaskState
<1> HIDE DEF r
<1>5. task'[t] = r
  BY <1>3, BecomeValue
<1>6. \A o \in Objects : Present(o)' => o \in Pend(t)'
  BY <1>1, <1>4, <1>5 DEF Orders, Pend, Present
<1>7. task'[t].snap = Clones(task[t].pending)'
  BY <1>1, <1>4, <1>5 DEF Clones
<1>8. Handled(t)'
  BY <1>4, <1>5, <1>6, <1>7 DEF Handled, TakenSteps
<1>9. QED BY <1>1, <1>8, QuietAlone DEF Noted

\* And writes it, or gives up.
LEMMA FullSaveAlone ==
    ASSUME TypeInv, AloneInv, NEW t, Tasks = {t}, FullSave(t) \/ FullSaveFails(t)
    PROVE  AloneInv'
<1> DEFINE q == task[t].pending
           s == task[t].snap
<1>1. /\ task[t].pc = "fullsave" /\ ContentStays /\ graph' = graph /\ dirty' = dirty /\ dropped' = dropped
      /\ \A o : ~InFlight(t, o)
  BY GraphStays DEF FullSave, FullSaveFails, At, InFlight, TakenSteps, SingleSteps
<1>2. CASE Finish(t) /\ db' = db
  BY <1>1, <1>2, FinishAlone DEF Noted
<1>3. CASE Commit(q, s) /\ Become(t, [task[t] EXCEPT !.pc = "fullapply", !.metas = Zipped(q, s)])
  <2> DEFINE m == Zipped(q, s)
             r == [task[t] EXCEPT !.pc = "fullapply", !.metas = m]
  <2>1. task'[t] = r
    BY <1>3, BecomeValue
  <2> HIDE DEF m
  <2>2. r.pc = "fullapply"
    BY TaskType DEF TaskState
  <2> HIDE DEF r
  <2>3. Commit(q, Clones(q)) /\ \A o \in Objects : Present(o) => o \in Pend(t)
    BY <1>1, <1>3 DEF AloneInv, Handled
  <2>4. \A o \in Objects : ~Behind(o)'
    <3>1. \A o \in Objects : o \in Pend(t) => ~Behind(o)'
      BY <1>1, <2>3, CaughtUp DEF Pend
    <3>2. \A o \in Objects : ~Present(o) => ~Behind(o)'
      BY <1>1 DEF Behind, Present
    <3>3. QED BY <2>3, <3>1, <3>2
  <2>5. Handled(t)'
    BY <2>1, <2>2, <2>4 DEF Handled, TakenSteps
  <2>6. QED BY <1>1, <2>4, <2>5, AloneStep
<1>4. QED BY <1>2, <1>3 DEF FullSave, FullSaveFails

\* ensure_object reads a row that nobody else writes meanwhile.
LEMMA EnsureAlone ==
    ASSUME TypeInv, AloneInv, NEW t, Tasks = {t}, EnsureObject(t)
    PROVE  AloneInv'
<1>1. /\ db' = db /\ dirty' = dirty /\ dropped' = dropped
      /\ \A o : ~InFlight(t, o)
  BY DEF EnsureObject, Ensure, Load, LoadFails, Cache, At, InFlight, TakenSteps, SingleSteps
<1>2. CASE graph' = graph /\ Finish(t)
  BY <1>1, <1>2, GraphStays, FinishAlone DEF Noted
<1>3. ASSUME NEW o \in Objects, Ensure(t, o) PROVE AloneInv'
  <2> DEFINE r == [task[t] EXCEPT !.pc = "load", !.id = o]
  <2>1. graph' = graph /\ task'[t] = r
    BY <1>3, BecomeValue DEF Ensure
  <2>2. r.pc = "load"
    BY TaskType DEF TaskState
  <2> HIDE DEF r
  <2>3. Handled(t)'
    BY <2>1, <2>2, NothingHandled
  <2>4. QED BY <1>1, <2>1, <2>3, GraphStays, QuietAlone DEF Noted
<1>4. CASE graph' = graph /\ Become(t, [task[t] EXCEPT !.pc = "cache", !.row = db[task[t].id]])
  <2> DEFINE w == db[task[t].id]
             r == [task[t] EXCEPT !.pc = "cache", !.row = w]
  <2>1. task'[t] = r
    BY <1>4, BecomeValue
  <2>2. w = db[task[t].id]
    OBVIOUS
  <2> HIDE DEF w
  <2>3. r.pc = "cache" /\ r.row = w /\ r.id = task[t].id
    BY TaskType DEF TaskState
  <2> HIDE DEF r
  <2>4. task'[t].row = db'[task'[t].id]
    BY <1>1, <2>1, <2>2, <2>3
  <2>5. Handled(t)'
    BY <2>1, <2>3, <2>4 DEF Handled, TakenSteps
  <2>6. QED BY <1>1, <1>4, <2>5, GraphStays, QuietAlone DEF Noted
<1>5. CASE Cache(t)
  <2> DEFINE o == task[t].id
  <2>1. Finish(t) /\ task[t].pc = "cache" /\ o \in Objects /\ graph \in [Objects -> Slot]
    BY <1>5 DEF Cache, At, TypeInv, Located, TypeOK
  <2>2. task[t].row = db[o]
    BY <2>1 DEF AloneInv, Handled
  <2>3. ContentStays
    <3>1. CASE Present(o)
      BY <1>5, <3>1, GraphStays DEF Cache, MayCache
    <3>2. CASE ~Present(o)
      <4>1. graph' = [graph EXCEPT ![o] = db[o]] /\ graph[o] = Absent
        BY <1>5, <2>2, <3>2 DEF Cache, MayCache, Present
      <4> HIDE DEF o
      <4>2. graph'[o] = db[o] /\ \A x \in Objects : x # o => graph'[x] = graph[x]
        BY <2>1, <4>1
      <4>3. QED BY <1>1, <4>1, <4>2 DEF ContentStays
    <3>3. QED BY <3>1, <3>2
  <2>4. QED BY <1>1, <2>1, <2>3, FinishAlone DEF Noted
<1>6. QED BY <1>2, <1>3, <1>4, <1>5 DEF EnsureObject, Load, LoadFails

\* What was hydrated is not behind.
LEMMA HydratedAlone ==
    ASSUME NEW t, Tasks = {t}
    PROVE  /\ Init => AloneInv
           /\ Crash => AloneInv'
<1>1. ASSUME Init PROVE AloneInv
  <2>1. graph = Hydrate(db) /\ task[t].pc = "idle"
    BY <1>1 DEF Init, Idle
  <2>2. \A o \in Objects : ~Behind(o)
    BY <2>1 DEF Hydrate, Behind, Present
  <2>3. Handled(t)
    BY <2>1 DEF Handled, TakenSteps
  <2>4. QED BY <2>2, <2>3 DEF AloneInv
<1>2. ASSUME Crash PROVE AloneInv'
  <2>1. graph' = Hydrate(db) /\ db' = db /\ task'[t].pc = "idle"
    BY <1>2 DEF Crash, Idle
  <2>2. \A o \in Objects : ~Behind(o)'
    BY <2>1 DEF Hydrate, Behind, Present
  <2>3. Handled(t)'
    BY <2>1, NothingHandled
  <2>4. QED BY <2>2, <2>3 DEF AloneInv
<1>3. QED BY <1>1, <1>2

\* Every step of a task that runs alone.
LEMMA NextAlone ==
    ASSUME TypeInv, AloneInv, NEW t, Tasks = {t}, [Next]_vars
    PROVE  AloneInv'
<1>1. CASE Command(t)
  BY <1>1, CommandAlone
<1>2. CASE PersistChanges(t)
  BY <1>2, TakeAlone, SnapshotAlone, SaveAlone, SaveFailsAlone, ApplyAlone, ErrorAlone, ReloadAlone,
     RefreshAlone, GiveUpAlone DEF PersistChanges
<1>3. CASE FlushDirty(t)
  BY <1>3, FlushSaveAlone, ErrorAlone, FlushReloadAlone, SingleAlone DEF FlushDirty
<1>4. CASE PersistAll(t)
  BY <1>4, FullSnapshotAlone, FullSaveAlone, ApplyAlone DEF PersistAll
<1>5. CASE EnsureObject(t)
  BY <1>5, EnsureAlone
<1>6. CASE UNCHANGED vars
  <2>1. UNCHANGED <<graph, dirty, db, task, dropped>>
    BY <1>6 DEF vars
  <2>2. \A o : (Behind(o)' <=> Behind(o)) /\ (Noted(o)' <=> Noted(o)) /\ (Present(o)' <=> Present(o))
    BY <2>1 DEF Behind, Noted, Present
  <2>3. Pend(t)' = Pend(t) /\ Clones(task[t].pending)' = Clones(task[t].pending)
    BY <2>1 DEF Pend, Clones
  <2>4. \A o : InFlight(t, o)' <=> InFlight(t, o)
    BY <2>1, <2>3 DEF InFlight, Rest
  <2>5. Handled(t)'
    BY <2>1, <2>2, <2>3 DEF AloneInv, Handled
  <2>6. QED BY <2>2, <2>4, <2>5 DEF AloneInv
<1>7. QED BY <1>1, <1>2, <1>3, <1>4, <1>5, <1>6, HydratedAlone DEF Next

\* One task at a time: DirtyTracker loses no change, with stacks that split and
\* merge too, and though zip() pairs the revisions of the rows that were
\* written with ids that were filtered out.  persist_all may clear every mark:
\* nothing was marked while it wrote.
THEOREM LoneTaskForgetsNothing ==
    ASSUME OneTask
    PROVE  Spec => []OnlyErrorsForget
<1>1. CASE Tasks = {}
  <2>1. Init => OnlyErrorsForget
    <3>1. Init => \A o \in Objects : graph[o] = Absent \/ graph[o] = db[o]
      BY DEF Init, Hydrate
    <3>2. QED BY <3>1 DEF OnlyErrorsForget, Unsaved, Present
  <2>2. OnlyErrorsForget /\ [Next]_vars => OnlyErrorsForget'
    <3> SUFFICES ASSUME OnlyErrorsForget, [Next]_vars PROVE OnlyErrorsForget'
      OBVIOUS
    <3>1. CASE Crash
      <4>1. \A o \in Objects : graph'[o] = Absent \/ graph'[o] = db'[o]
        BY <3>1 DEF Crash, Hydrate
      <4>2. QED BY <4>1 DEF OnlyErrorsForget, Unsaved, Present
    <3>2. CASE UNCHANGED vars
      BY <1>1, <3>2 DEF vars, OnlyErrorsForget, Unsaved, Present, Tracked
    <3>3. QED BY <1>1, <3>1, <3>2 DEF Next
  <2>3. QED BY <2>1, <2>2, PTL DEF Spec
<1>2. CASE Tasks # {}
  <2>1. PICK t : Tasks = {t}
    BY <1>2 DEF OneTask
  <2>2. Init => TypeInv /\ AloneInv
    BY <2>1, InitType, HydratedAlone
  <2>3. TypeInv /\ AloneInv /\ [Next]_vars => (TypeInv /\ AloneInv)'
    BY <2>1, NextType, NextAlone
  <2>4. AloneInv => OnlyErrorsForget
    <3> SUFFICES ASSUME AloneInv, NEW o \in Objects, Unsaved(o) PROVE Tracked(o) \/ o \in dropped
      BY DEF OnlyErrorsForget
    <3>1. Behind(o)
      BY DEF Unsaved, Behind
    <3>2. QED BY <3>1 DEF AloneInv, Noted, Tracked
  <2>5. QED BY <2>2, <2>3, <2>4, PTL DEF Spec
<1>3. QED BY <1>1, <1>2

(***************************************************************************)
(* Units.  A sum is defined by recursion on a finite set; what holds of it *)
(* is shown by a smallest counterexample.                                  *)
(***************************************************************************)

\* Of a family of subsets of a finite set one has none of the others inside.
LEMMA SmallestSet ==
    ASSUME NEW S, IsFiniteSet(S), NEW F, F \subseteq SUBSET S, F # {}
    PROVE  \E T \in F : \A U \in F : U \subseteq T => U = T
<1>1. \E T \in F : \A U \in F : ~ (<<U, T>> \in StrictSubsetOrdering(S))
  <2>1. FiniteSubsetsOf(S) = SUBSET S
    BY FS_FiniteSubsetsOfFinite
  <2> QED
    BY <2>1, FS_StrictSubsetOrderingWellFounded, WFMin
<1>2. PICK T \in F : \A U \in F : ~ (<<U, T>> \in StrictSubsetOrdering(S))
  BY <1>1
<1>3. ASSUME NEW U \in F, U \subseteq T, U # T
      PROVE  FALSE
  <2>1. <<U, T>> \in (SUBSET S) \X (SUBSET S) /\ <<U, T>>[1] = U /\ <<U, T>>[2] = T
    OBVIOUS
  <2> QED
    BY <1>2, <1>3, <2>1 DEF StrictSubsetOrdering
<1> QED
  BY <1>2, <1>3

\* The sum of f over S, and the element that it takes first.
Total(f, S) == MapThenSumSet(LAMBDA x : f[x], S)
One(s) == CHOOSE x \in s : TRUE

\* The equation of the fold.
IsFold(f, S, g) == g = [s \in SUBSET S |-> IF s = {} THEN 0 ELSE f[One(s)] + g[s \ {One(s)}]]

\* The sum, as MapThenSumSet defines it.
LEMMA TotalIs ==
    ASSUME NEW f, NEW S
    PROVE  Total(f, S) = (CHOOSE g : IsFold(f, S, g))[S]
BY DEF Total, MapThenSumSet, MapThenFoldSet, IsFold, One

\* The chosen element is one of the set.
LEMMA OneIn == ASSUME NEW s, s # {} PROVE One(s) \in s
BY DEF One

\* A fold of a set folds its subsets.
LEMMA FoldsPart ==
    ASSUME NEW f, NEW T, NEW h, IsFold(f, T, h), NEW U \in SUBSET T
    PROVE  IsFold(f, U, [s \in SUBSET U |-> h[s]])
<1> DEFINE k == [s \in SUBSET U |-> h[s]]
<1>1. ASSUME NEW s \in SUBSET U
      PROVE  k[s] = IF s = {} THEN 0 ELSE f[One(s)] + k[s \ {One(s)}]
  <2>1. s \in SUBSET T /\ s \ {One(s)} \in SUBSET U
    OBVIOUS
  <2>2. h[s] = IF s = {} THEN 0 ELSE f[One(s)] + h[s \ {One(s)}]
    BY <2>1 DEF IsFold
  <2> QED
    BY <2>1, <2>2
<1> QED
  BY <1>1 DEF IsFold

\* There is one fold and no other.
OneFold(f, T) == \E g : IsFold(f, T, g) /\ \A h : IsFold(f, T, h) => h = g

\* That one gives the sum.
LEMMA FoldIsTotal ==
    ASSUME NEW f, NEW T, OneFold(f, T), NEW h, IsFold(f, T, h)
    PROVE  h[T] = Total(f, T)
BY TotalIs DEF OneFold

\* Finite sets have one.
LEMMA TotalExists ==
    ASSUME NEW f, NEW S, IsFiniteSet(S)
    PROVE  OneFold(f, S)
<1> DEFINE Bad == {T \in SUBSET S : ~OneFold(f, T)}
<1>1. SUFFICES ASSUME Bad # {} PROVE FALSE
  OBVIOUS
<1>2. PICK T \in Bad : \A U \in Bad : U \subseteq T => U = T
  <2>1. Bad \subseteq SUBSET S
    OBVIOUS
  <2> HIDE DEF Bad
  <2>2. \E T \in Bad : \A U \in Bad : U \subseteq T => U = T
    BY <1>1, <2>1, SmallestSet
  <2> QED
    BY <2>2
<1>3. ASSUME NEW U \in SUBSET T, U # T PROVE OneFold(f, U)
  BY <1>2, <1>3
<1> DEFINE g == [s \in SUBSET T |-> IF s = {} THEN 0 ELSE f[One(s)] + Total(f, s \ {One(s)})]
<1>4. ASSUME NEW s \in SUBSET T, s # {}, NEW h, IsFold(f, T, h)
      PROVE  h[s \ {One(s)}] = Total(f, s \ {One(s)})
  <2> DEFINE u == s \ {One(s)}
  <2>1. u \in SUBSET T /\ u # T
    BY <1>4, OneIn
  <2>2. IsFold(f, u, [r \in SUBSET u |-> h[r]])
    BY <2>1, <1>4, FoldsPart
  <2>3. [r \in SUBSET u |-> h[r]][u] = Total(f, u)
    BY <2>1, <2>2, <1>3, FoldIsTotal
  <2> QED
    BY <2>3
<1>5. ASSUME NEW h, IsFold(f, T, h) PROVE h = g
  BY <1>4, <1>5 DEF IsFold
<1>6. ASSUME NEW u \in SUBSET T, u # T PROVE g[u] = Total(f, u)
  <2>1. PICK h : IsFold(f, u, h)
    BY <1>3, <1>6 DEF OneFold
  <2>2. h[u] = Total(f, u)
    BY <2>1, <1>3, <1>6, FoldIsTotal
  <2>3. h[u] = IF u = {} THEN 0 ELSE f[One(u)] + h[u \ {One(u)}]
    BY <2>1 DEF IsFold
  <2>4. CASE u = {}
    BY <2>2, <2>3, <2>4
  <2>5. CASE u # {}
    <3> DEFINE v == u \ {One(u)}
    <3>1. v \in SUBSET u /\ v \in SUBSET T /\ v # T
      BY <1>6, <2>5, OneIn
    <3>2. IsFold(f, v, [r \in SUBSET v |-> h[r]])
      BY <2>1, <3>1, FoldsPart
    <3>3. [r \in SUBSET v |-> h[r]][v] = Total(f, v)
      BY <3>1, <3>2, <1>3, FoldIsTotal
    <3> QED
      BY <2>2, <2>3, <2>5, <3>3
  <2> QED
    BY <2>4, <2>5
<1>7. IsFold(f, T, g)
  <2>1. ASSUME NEW s \in SUBSET T, s # {} PROVE g[s \ {One(s)}] = Total(f, s \ {One(s)})
    BY <1>6, <2>1, OneIn
  <2> QED
    BY <2>1 DEF IsFold
<1> QED
  BY <1>2, <1>5, <1>7 DEF OneFold

\* The sum of nothing.
LEMMA TotalOfNone == ASSUME NEW f PROVE Total(f, {}) = 0
<1>1. IsFiniteSet({})
  BY FS_EmptySet
<1>2. PICK g : IsFold(f, {}, g)
  BY <1>1, TotalExists DEF OneFold
<1>3. g[{}] = Total(f, {})
  BY <1>1, <1>2, TotalExists, FoldIsTotal
<1> QED
  BY <1>2, <1>3 DEF IsFold

\* One element at a time.
LEMMA TotalStep ==
    ASSUME NEW f, NEW S, IsFiniteSet(S), S # {}
    PROVE  One(S) \in S /\ Total(f, S) = f[One(S)] + Total(f, S \ {One(S)})
<1> DEFINE u == S \ {One(S)}
<1>1. PICK g : IsFold(f, S, g)
  BY TotalExists DEF OneFold
<1>2. g[S] = Total(f, S)
  BY <1>1, TotalExists, FoldIsTotal
<1>3. IsFold(f, u, [r \in SUBSET u |-> g[r]])
  BY <1>1, FoldsPart
<1>4. IsFiniteSet(u)
  BY FS_RemoveElement
<1>5. [r \in SUBSET u |-> g[r]][u] = Total(f, u)
  BY <1>3, <1>4, TotalExists, FoldIsTotal
<1>6. g[S] = f[One(S)] + g[u]
  BY <1>1 DEF IsFold
<1> QED
  BY <1>2, <1>5, <1>6, OneIn

\* Sums of numbers are numbers, and do not depend on how elements are chosen.
LEMMA TotalNat ==
    ASSUME NEW S, IsFiniteSet(S), NEW f, \A x \in S : f[x] \in Nat
    PROVE  Total(f, S) \in Nat
<1> DEFINE Bad == {T \in SUBSET S : Total(f, T) \notin Nat}
<1>1. SUFFICES ASSUME Bad # {} PROVE FALSE
  OBVIOUS
<1>2. PICK T \in Bad : \A U \in Bad : U \subseteq T => U = T
  <2>1. Bad \subseteq SUBSET S
    OBVIOUS
  <2> HIDE DEF Bad
  <2>2. \E T \in Bad : \A U \in Bad : U \subseteq T => U = T
    BY <1>1, <2>1, SmallestSet
  <2> QED
    BY <2>2
<1>3. T # {}
  <2>1. Total(f, {}) \in Nat /\ Total(f, T) \notin Nat
    BY <1>2, TotalOfNone
  <2> QED
    BY <2>1
<1>4. IsFiniteSet(T)
  BY FS_Subset
<1>5. One(T) \in T /\ Total(f, T) = f[One(T)] + Total(f, T \ {One(T)})
  BY <1>3, <1>4, TotalStep
<1>6. T \ {One(T)} \notin Bad
  BY <1>2, <1>5
<1> QED
  BY <1>2, <1>5, <1>6

\* A sum of greater numbers is greater.
LEMMA TotalGrows ==
    ASSUME NEW S, IsFiniteSet(S), NEW f, NEW g,
           \A x \in S : f[x] \in Nat /\ g[x] \in Nat /\ f[x] <= g[x]
    PROVE  Total(f, S) <= Total(g, S)
<1> DEFINE Bad == {T \in SUBSET S : ~(Total(f, T) <= Total(g, T))}
<1>1. SUFFICES ASSUME Bad # {} PROVE FALSE
  OBVIOUS
<1>2. PICK T \in Bad : \A U \in Bad : U \subseteq T => U = T
  <2>1. Bad \subseteq SUBSET S
    OBVIOUS
  <2> HIDE DEF Bad
  <2>2. \E T \in Bad : \A U \in Bad : U \subseteq T => U = T
    BY <1>1, <2>1, SmallestSet
  <2> QED
    BY <2>2
<1>3. T # {}
  <2>1. Total(f, {}) <= Total(g, {})
    BY TotalOfNone
  <2> QED
    BY <1>2, <2>1
<1>4. IsFiniteSet(T)
  BY FS_Subset
<1> DEFINE o == One(T)
           R == T \ {o}
<1>5. o \in T /\ Total(f, T) = f[o] + Total(f, R) /\ Total(g, T) = g[o] + Total(g, R)
  BY <1>3, <1>4, TotalStep
<1>6. Total(f, R) <= Total(g, R)
  <2>1. R \notin Bad /\ R \in SUBSET S
    BY <1>2, <1>5
  <2> QED
    BY <2>1
<1>7. IsFiniteSet(R) /\ R \subseteq S /\ o \in S
  BY <1>4, <1>5, FS_Subset
<1>8. Total(f, R) \in Nat /\ Total(g, R) \in Nat
  <2> HIDE DEF R
  <2> QED
    BY <1>7, TotalNat
<1>9. ~(Total(f, T) <= Total(g, T))
  BY <1>2
<1> HIDE DEF o, R
<1> QED
  BY <1>5, <1>6, <1>7, <1>8, <1>9

(***************************************************************************)
(* The transactions of a task that runs alone.                             *)
(***************************************************************************)

\* What changes rows is a transaction, or the save of one row.
LEMMA RowsChange ==
    ASSUME NEW t, Tasks = {t}, [Next]_vars, db' # db, InOneTransaction
    PROVE  /\ task[t].pc \in {"save", "fsave", "fullsave"}
           /\ Commit(task[t].pending, task[t].snap)
<1>1. ~Command(t) /\ ~EnsureObject(t) /\ ~Crash
  BY DEF Command, Touch, Spawn, Transfer, Split, Merge, Mutate, EnsureObject, Ensure, Load, LoadFails,
         Cache, Crash
<1>2. PersistChanges(t) => Save(t)
  BY DEF PersistChanges, Take, Snapshot, SaveFails, Apply, Remark, Reload, ReloadFails, Refresh, GiveUp
<1>3. FlushDirty(t) => FlushSave(t)
  <2>1. task[t].pc \notin SingleSteps
    BY DEF InOneTransaction
  <2>2. QED BY <2>1 DEF FlushDirty, FlushSaveFails, FlushReload, FlushReloadFails, SkipMissing, SaveOne,
                     InsertOne, ReloadOne, SaveOneFails, At, SingleSteps
<1>4. PersistAll(t) => FullSave(t)
  BY DEF PersistAll, FullSnapshot, FullSaveFails, FullApply
<1>5. Save(t) \/ FlushSave(t) \/ FullSave(t)
  BY <1>1, <1>2, <1>3, <1>4 DEF Next, vars
<1>6. QED BY <1>5 DEF Save, FlushSave, FullSave, At

\* Row by row, it stores what is in memory.
LEMMA RowsHoldUnits ==
    ASSUME TypeInv, TypeInv', AloneInv, NEW t, Tasks = {t}, [Next]_vars,
           db' # db, dropped = {}, InOneTransaction
    PROVE  \A o \in Objects : /\ Units(graph)[o] \in Nat /\ Units(db')[o] \in Nat
                              /\ Units(graph)[o] <= Units(db')[o]
<1> SUFFICES ASSUME NEW o \in Objects
             PROVE  /\ Units(graph)[o] \in Nat /\ Units(db')[o] \in Nat
                    /\ Units(graph)[o] <= Units(db')[o]
  OBVIOUS
<1> DEFINE q == task[t].pending
<1>1. task[t].pc \in {"save", "fsave", "fullsave"} /\ Commit(q, task[t].snap)
  BY RowsChange
<1>2. Commit(q, Clones(q))
  BY <1>1 DEF AloneInv, Handled
<1>3. /\ graph[o] \in Entry \/ graph[o] = Absent
      /\ db'[o] \in Entry \/ db'[o] = Absent
  BY DEF TypeInv, TypeOK, Slot
<1>4. Units(graph)[o] \in Nat /\ Units(db')[o] \in Nat
  BY <1>3 DEF Units, Entry
<1>5. CASE ~Present(o)
  BY <1>4, <1>5 DEF Units, Present
<1>6. CASE Present(o) /\ o \in Pend(t)
  <2>1. db'[o] # Absent /\ db'[o].qty = graph[o].qty
    BY <1>2, <1>6, CommitCatchesUp DEF Pend
  <2>2. Units(db')[o] = Units(graph)[o]
    BY <1>6, <2>1 DEF Units, Present
  <2>3. QED BY <1>4, <2>2
<1>7. CASE Present(o) /\ o \notin Pend(t)
  <2>1. db'[o] = db[o]
    BY <1>2, <1>7, CommitCatchesUp DEF Pend
  <2>2. task[t].pc # "fullsave" /\ dirty \subseteq Pend(t)
    BY <1>1, <1>7 DEF AloneInv, Handled, TakenSteps
  <2>3. ~Noted(o) /\ ~InFlight(t, o)
    BY <1>1, <1>7, <2>2 DEF Noted, InFlight, SingleSteps
  <2>4. ~Behind(o)
    BY <2>3 DEF AloneInv
  <2>5. db[o] # Absent /\ db[o].qty = graph[o].qty
    BY <1>7, <2>4 DEF Behind
  <2>6. Units(db')[o] = Units(graph)[o]
    BY <1>7, <2>1, <2>5 DEF Units, Present
  <2>7. QED BY <1>4, <2>6
<1>8. QED BY <1>5, <1>6, <1>7

\* One task at a time: a transaction that goes through leaves at least the
\* units in the table that are in memory, whatever was split, merged, moved,
\* made or loaded, and however often saves met conflicts or the process died
\* before, as long as no error gave up what is still in memory only.
THEOREM GoodsNeverLostHolds ==
    ASSUME OneTask
    PROVE  Spec => GoodsNeverLost
<1> DEFINE Keeps == db' # db /\ dropped = {} /\ InOneTransaction => UnitsIn(db') >= UnitsIn(graph)
<1>1. CASE Tasks = {}
  <2>1. [Next]_vars => [Keeps]_vars
    BY <1>1 DEF Next, Crash, vars
  <2>2. QED BY <2>1, PTL DEF Spec, GoodsNeverLost
<1>2. CASE Tasks # {}
  <2>1. PICK t : Tasks = {t}
    BY <1>2 DEF OneTask
  <2>2. Init => TypeInv /\ AloneInv
    BY <2>1, InitType, HydratedAlone
  <2>3. TypeInv /\ AloneInv /\ [Next]_vars => (TypeInv /\ AloneInv)'
    BY <2>1, NextType, NextAlone
  <2>4. TypeInv /\ TypeInv' /\ AloneInv /\ [Next]_vars => [Keeps]_vars
    <3> SUFFICES ASSUME TypeInv, TypeInv', AloneInv, [Next]_vars,
                        db' # db, dropped = {}, InOneTransaction
                 PROVE  UnitsIn(db') >= UnitsIn(graph)
      OBVIOUS
    <3> DEFINE f == Units(graph)
               g == Units(db')
    <3>1. \A o \in Objects : f[o] \in Nat /\ g[o] \in Nat /\ f[o] <= g[o]
      BY <2>1, RowsHoldUnits
    <3>2. UnitsIn(graph) = Total(f, Objects) /\ UnitsIn(db') = Total(g, Objects)
      BY DEF UnitsIn, Total
    <3>3. IsFiniteSet(Objects)
      BY WorldStoreAssumption
    <3> HIDE DEF f, g
    <3>4. Total(f, Objects) <= Total(g, Objects)
      BY <3>1, <3>3, TotalGrows
    <3>5. Total(f, Objects) \in Nat /\ Total(g, Objects) \in Nat
      BY <3>1, <3>3, TotalNat
    <3>6. QED BY <3>2, <3>4, <3>5
  <2>5. QED BY <2>2, <2>3, <2>4, PTL DEF Spec, GoodsNeverLost
<1>3. QED BY <1>1, <1>2
=============================================================================
