-------------------------------- MODULE Building --------------------------------
(***************************************************************************)
(* A wizard at the REPL (src/src/bin/repl.rs): walks, opens and locks,      *)
(* digs, links, deletes, edits. Each command is one step, for the REPL      *)
(* reads a line, runs it and saves before it reads the next. The object      *)
(* graph lives in memory (`graph`), its rows in the database (`rows`); a    *)
(* command saves what it `marked`, or writes its rows itself, in stages one *)
(* of which may fail; quitting saves nothing.                                *)
(***************************************************************************)
EXTENDS Places

CONSTANTS
    Me,          \* the wizard's object
    Start,       \* the world at first: id -> object
    Home,        \* the world's starting location
    Wanted,      \* the place types asked for (NoDir: the default)
    Codes,       \* the scripts a trigger may be given
    Edited,      \* bound: the objects @set location and @trigger are used on
    MaxEdits,    \* bound: edits of the world
    MaxFaults,   \* bound: saves that fail
    MaxId        \* bound: ids given out

ASSUME BuildingAssumption ==
    /\ MaxEdits \in Nat /\ MaxFaults \in Nat /\ MaxId \in Nat
    /\ \E n \in 0 .. MaxId : DOMAIN Start = 1 .. n
    /\ \A i \in DOMAIN Start : IsObject(Start[i])
    /\ Me \in DOMAIN Start /\ Home \in DOMAIN Start
    /\ Start[Me].kind = "player" /\ Start[Me].active /\ Start[Me].at \in DOMAIN Start \cup {Nil}
    /\ Wanted \subseteq PlaceKinds \cup {NoDir}

VARIABLES
    graph,       \* WorldState.objects: id -> object
    rows,        \* the objects table
    marked,      \* WorldState.dirty
    stale,       \* ids whose revision in the graph is behind the row's
    counter,     \* the id counter
    here,        \* PlayerSession.current_location
    edits, faults

vars == <<graph, rows, marked, stale, counter, here, edits, faults>>
bounds == <<edits, faults>>

Init ==
    /\ graph = Start
    /\ rows = Start
    /\ marked = {}
    /\ stale = {}
    /\ counter = Cardinality(DOMAIN Start) + 1
    /\ here = Start[Me].at
    /\ edits = 0
    /\ faults = 0

Edit == edits < MaxEdits /\ edits' = edits + 1

\* mark_dirty, then persist_session: what is marked is saved, with retries.
Persist(g, ids) ==
    LET dirty == marked \cup ids
    IN  /\ graph' = g
        /\ rows' = [i \in DOMAIN rows \cup dirty |-> IF i \in dirty THEN g[i] ELSE rows[i]]
        /\ marked' = {}
        /\ stale' = stale \ dirty

\* upsert_object: into the graph and marked, for a later command to save.
Upsert(g, ids) == graph' = g /\ marked' = marked \cup ids

\* persist_object: saved with retries and put back without a mark.
PersistObject(i, obj) ==
    /\ graph' = With(graph, i, obj)
    /\ rows' = With(rows, i, obj)
    /\ stale' = stale \ {i}
    /\ UNCHANGED marked

(***************************************************************************)
(* Walking through exits and gates.                                        *)
(***************************************************************************)
\* (Mutant: a locked door is pushed open.)
PushedOpen(gate) == {[g |-> OpenGate(graph, gate), ids |-> {gate}]}

\* prepare_gate_for_passage: unlock with the one key carried that fits, then open. No outcome is
\* a refusal: no key fits, or several do.
PrepareGate(gate) ==
    IF ~IsLocked(graph[gate]) THEN {[g |-> OpenGate(graph, gate), ids |-> {gate}]}
    ELSE LET keys == KeysHeld(graph, Me, gate)
         IN  {[g |-> OpenGate(UnlockWith(graph, gate, k), gate), ids |-> UnlockMarks(graph, gate, k)] :
                 k \in IF Cardinality(keys) = 1 THEN keys ELSE {}}

\* The ways through the exit: past the portal that is found there, if it is in the way. A window
\* that is found hides the door beside it.
Passages(dir, to) ==
    LET portals == PortalsFor(graph, here, dir)
        free == {[g |-> graph, ids |-> {}]}
    IN  IF portals = {} THEN free
        ELSE UNION {IF Permits(graph[p], to) /\ Blocks(graph[p]) THEN PrepareGate(p) ELSE free : p \in portals}

\* go_impl: the door is dealt with before the load is weighed.
Go(word) ==
    /\ IsLocation(graph, here)
    /\ LET dir == Resolve(graph, here, word)
       IN  /\ dir # NoDir
           /\ CanTraverse(graph, here, dir)
           /\ \E p \in Passages(dir, graph[here].exits[dir]) :
                LET to == Destination(graph, here, dir)
                IN  IF Overloaded(p.g, Me)
                      THEN Upsert(p.g, p.ids) /\ UNCHANGED <<rows, stale, here>>
                      ELSE /\ here' = to
                           /\ Persist([p.g EXCEPT ![Me].at = to], p.ids \cup {Me})
    /\ UNCHANGED <<counter, bounds>>

\* resolve_gate_target: a gate on the ground here.
GatesHere == {i \in DOMAIN graph : graph[i].kind \in GateKinds /\ graph[i].active /\ graph[i].at = here}

Open(gate) ==
    /\ gate \in GatesHere
    /\ ~graph[gate].open
    /\ \E p \in PrepareGate(gate) : Persist(p.g, p.ids)
    /\ UNCHANGED <<counter, here, bounds>>

\* close_container and lock_container mark nothing.
Close(gate) ==
    /\ gate \in GatesHere
    /\ graph[gate].open
    /\ Persist([graph EXCEPT ![gate].open = FALSE], {})
    /\ UNCHANGED <<counter, here, bounds>>

Lock(gate) ==
    /\ gate \in GatesHere
    /\ HasLock(graph[gate]) /\ ~IsLocked(graph[gate])
    /\ Persist([graph EXCEPT ![gate].open = FALSE, ![gate].locked = TRUE], {})
    /\ UNCHANGED <<counter, here, bounds>>

\* unlock_container: a key named may lie on the ground; unnamed, the one key carried that fits.
Unlock(gate, key) ==
    /\ gate \in GatesHere
    /\ IsLocked(graph[gate])
    /\ Active(graph, key) /\ Unlocks(graph[key], graph[gate])
    /\ key \in graph[Me].held \/ graph[key].at = here
    /\ Persist(UnlockWith(graph, gate, key), UnlockMarks(graph, gate, key))
    /\ UNCHANGED <<counter, here, bounds>>

\* Of the inventory's moves (MoveManager), only picking up a key.
Take(key) ==
    /\ Active(graph, key) /\ graph[key].kind = "key" /\ graph[key].at = here
    /\ key \notin graph[Me].held
    /\ Persist([graph EXCEPT ![Me].held = @ \cup {key}, ![key].at = Me], {Me, key})
    /\ UNCHANGED <<counter, here, bounds>>

(***************************************************************************)
(* Making objects: the counter first, then the rows in stages.              *)
(***************************************************************************)
\* A pipeline of `of` saves goes through, or stops after `k` of them while faults are left.
Reached(k, of) ==
    \/ k = of /\ faults' = faults
    \/ k < of /\ faults < MaxFaults /\ faults' = faults + 1

\* (Mutant: the counter moves when the object is complete.)
CountedAtLast(k, of) == counter <= MaxId /\ counter' = IF k = of THEN counter + 1 ELSE counter

\* allocate_named: the counter moves before the empty shell is saved, whatever fails afterwards.
Allocate(k, of) == counter <= MaxId /\ counter' = counter + 1

Shell(kind) ==
    CASE kind \in PlaceKinds -> [kind |-> kind, active |-> TRUE, at |-> Nil, scripts |-> <<>>,
                                 exits |-> <<>>, returns |-> <<>>]
      [] OTHER -> [kind |-> "item", active |-> TRUE, at |-> Nil, scripts |-> <<>>]
Key(lock, at) ==
    [kind |-> "key", active |-> TRUE, at |-> at, scripts |-> <<>>, lock |-> lock, once |-> FALSE]

\* The row of the new object after `k` saves of the states it goes through.
Written(states, k) == IF k = 0 THEN rows ELSE With(rows, counter, states[k])

\* dig_place_impl over dig_place: shell, place, the place dug from, the new one again. A save of
\* the place dug from is not retried; a place that fails its checks is already a row.
Dig(dir, wanted, reciprocal, return) ==
    /\ Edit
    /\ IsLocation(graph, here)
    /\ dir \notin DOMAIN graph[here].exits
    /\ LET from == graph[here]
           kind == PlaceKind(from, wanted)
           n == counter
           new == NewPlace(kind, here)
           o == With(graph, n, new)
           lk == LinkPlaces(o, here, from, n, new, dir, reciprocal, return)
           saves == IF HierarchyValid(o, n) /\ lk.ok /\ here \notin stale THEN 4 ELSE 2
           dug == Written(<<Shell(kind), new, new>>, 3)
       IN  \E k \in 0 .. saves :
             /\ Reached(k, saves)
             /\ Allocate(k, saves)
             /\ CASE k = 4 -> Persist(With(With(graph, here, lk.from), n, lk.to), {here, n})
                  [] k = 3 -> /\ rows' = With(dug, here, lk.from)
                              /\ stale' = stale \cup {here}
                              /\ UNCHANGED <<graph, marked>>
                  [] OTHER -> /\ rows' = Written(<<Shell(kind), new>>, k)
                              /\ UNCHANGED <<graph, marked, stale>>
    /\ UNCHANGED here

\* @create of a room or a key, where the wizard stands: saved in stages, then upserted.
Create(states) ==
    /\ Edit
    /\ \E k \in 0 .. Len(states) :
         /\ Reached(k, Len(states))
         /\ Allocate(k, Len(states))
         /\ rows' = Written(states, k)
         /\ IF k = Len(states) THEN Upsert(With(graph, counter, states[k]), {counter})
            ELSE UNCHANGED <<graph, marked>>
    /\ UNCHANGED <<here, stale>>

RoomStates == <<Shell("room"), [Shell("room") EXCEPT !.at = here]>>
KeyStates(lock) == <<Shell("item"), Key(lock, Nil), Key(lock, here)>>
CreateSomething ==
    \/ Create(RoomStates)
    \/ \E gate \in GatesHere : HasLock(graph[gate]) /\ Create(KeyStates(graph[gate].lock))

\* create_key_for_container: the chest is given a lock and saved first, without a retry.
KeyFor(chest) ==
    /\ Edit
    /\ chest \in GatesHere /\ graph[chest].kind = "chest"
    /\ LET lock == IF HasLock(graph[chest]) THEN graph[chest].lock ELSE chest
           locked == [graph[chest] EXCEPT !.lock = lock]
           saves == IF chest \in stale THEN 0 ELSE 4
       IN  \E k \in 0 .. saves :
             /\ Reached(k, saves)
             /\ IF k = 0 THEN UNCHANGED <<counter, rows>>
                ELSE /\ Allocate(k, saves)
                     /\ rows' = With(Written(KeyStates(lock), k - 1), chest, locked)
             /\ IF k = 4
                  THEN /\ Upsert(With(With(graph, chest, locked), counter, Key(lock, here)), {chest, counter})
                       /\ UNCHANGED stale
                  ELSE /\ stale' = IF k = 0 THEN stale ELSE stale \cup {chest}
                       /\ UNCHANGED <<graph, marked>>
    /\ UNCHANGED here

(***************************************************************************)
(* Editing what there is.                                                   *)
(***************************************************************************)
\* link_exit_impl: the target is put back last, so a place linked to itself loses the exit.
Link(from, dir, to, reciprocal, return) ==
    /\ Edit
    /\ IsLocation(graph, from) /\ IsLocation(graph, to)
    /\ LET lk == LinkPlaces(graph, from, graph[from], to, graph[to], dir, reciprocal, return)
       IN  /\ lk.ok
           /\ Persist(With(With(graph, from, lk.from), to, lk.to), {from, to})
    /\ UNCHANGED <<counter, here, faults>>

\* (Mutant: the place that lost its exit is not marked.)
UnlinkUnmarked(from, dir) ==
    /\ Edit
    /\ IsLocation(graph, from) /\ dir \in DOMAIN graph[from].exits
    /\ Persist([graph EXCEPT ![from].exits = Without(@, dir)], {})
    /\ UNCHANGED <<counter, here, faults>>

\* unlink_exit_impl: the entry in exit_returns stays.
Unlink(from, dir) ==
    /\ Edit
    /\ IsLocation(graph, from) /\ dir \in DOMAIN graph[from].exits
    /\ Persist([graph EXCEPT ![from].exits = Without(@, dir)], {from})
    /\ UNCHANGED <<counter, here, faults>>

\* @delete and @undelete load the row, change and save it, and upsert what was loaded: what the
\* graph held unsaved of the object is gone.
FromRow(i, active) ==
    LET obj == [rows[i] EXCEPT !.active = active]
    IN  /\ Upsert(With(graph, i, obj), {i})
        /\ rows' = With(rows, i, obj)
        /\ stale' = stale \ {i}

Delete(i) ==
    /\ Edit
    /\ i \in DOMAIN graph
    /\ FromRow(i, FALSE)
    /\ UNCHANGED <<counter, here, faults>>

Undelete(i) ==
    /\ Edit
    /\ i \in DOMAIN rows /\ ~rows[i].active
    /\ FromRow(i, TRUE)
    /\ UNCHANGED <<counter, here, faults>>

\* @set location and @unset location: the session's own location is not told.
SetLocation(i, to) ==
    /\ Edit
    /\ i \in DOMAIN graph /\ to \in DOMAIN graph \cup {Nil}
    /\ PersistObject(i, [graph[i] EXCEPT !.at = to])
    /\ UNCHANGED <<counter, here, faults>>

\* apply_trigger_add, _remove (the last when no index is given), _set and _clear
TriggerEdits(scripts) ==
       {Append(scripts, code) : code \in Codes}
    \cup {[x \in 1 .. Len(scripts) - 1 |-> scripts[IF x < k THEN x ELSE x + 1]] : k \in DOMAIN scripts}
    \cup {[scripts EXCEPT ![k] = code] : k \in DOMAIN scripts, code \in Codes}
    \cup {<<>>}

Trigger(i) ==
    /\ Edit
    /\ i \in DOMAIN graph
    /\ \E scripts \in TriggerEdits(graph[i].scripts) : PersistObject(i, [graph[i] EXCEPT !.scripts = scripts])
    /\ UNCHANGED <<counter, here, faults>>

(***************************************************************************)
(* Loading, saving, and starting again.                                     *)
(***************************************************************************)
\* Loading or saving what is the same in both changes nothing.
Differs(i) == i \in DOMAIN graph \ stale => graph[i] # rows[i]

\* load: the row replaces what the graph holds, whatever was unsaved of it.
Load(i) ==
    /\ i \in DOMAIN rows /\ Differs(i)
    /\ graph' = With(graph, i, rows[i])
    /\ stale' = stale \ {i}
    /\ UNCHANGED <<rows, marked, counter, here, bounds>>

Save(i) ==
    /\ i \in DOMAIN graph /\ Differs(i)
    /\ PersistObject(i, graph[i])
    /\ UNCHANGED <<counter, here, bounds>>

\* Any command that changes nothing of its own and saves what was left marked.
SaveMarked ==
    /\ marked # {}
    /\ Persist(graph, {})
    /\ UNCHANGED <<counter, here, bounds>>

\* quit (or a kill), and a REPL started again: the rows of what is not deleted are read back.
Restart ==
    LET o == [i \in {x \in DOMAIN rows : rows[x].active} |-> rows[i]]
    IN  /\ graph' = o
        /\ marked' = {}
        /\ stale' = {}
        /\ here' = IF Me \notin DOMAIN o \/ o[Me].at \notin DOMAIN o THEN Nil
                   ELSE IF IsPlace(o, o[Me].at) THEN o[Me].at ELSE Home
        /\ UNCHANGED <<rows, counter, bounds>>

Ids == 1 .. MaxId
Return == Dirs \cup {NoDir}

Walk == \E word \in Dirs \cup UNION {DOMAIN Aliases[i] : i \in DOMAIN Aliases} : Go(word)
OpenOrClose == \E gate \in Ids : Open(gate) \/ Close(gate)
LocksAndKeys == \E gate \in Ids : Lock(gate) \/ KeyFor(gate) \/ \E key \in Ids : Unlock(gate, key)
DigOrLink ==
    \/ \E dir \in Dirs, wanted \in Wanted, reciprocal \in BOOLEAN, return \in Return :
         Dig(dir, wanted, reciprocal, return)
    \/ \E from \in Ids, to \in Ids, dir \in Dirs, reciprocal \in BOOLEAN, return \in Return :
         Link(from, dir, to, reciprocal, return)
    \/ \E from \in Ids, dir \in Dirs : Unlink(from, dir)
DeleteOrUndelete == \E i \in Ids \ {Me} : Delete(i) \/ Undelete(i)
SetOrUnset == \E i \in Edited, to \in Ids \cup {Nil} : SetLocation(i, to)
LoadOrSave == \E i \in Ids : Load(i) \/ Save(i)

\* The REPL's loop: one command after another.
Next ==
    \/ Walk
    \/ OpenOrClose
    \/ LocksAndKeys
    \/ \E key \in Ids : Take(key)
    \/ DigOrLink
    \/ CreateSomething
    \/ DeleteOrUndelete
    \/ SetOrUnset
    \/ \E i \in Edited : Trigger(i)
    \/ LoadOrSave
    \/ SaveMarked
    \/ Restart

Spec == Init /\ [][Next]_vars

(***************************************************************************)
(* Properties.                                                             *)
(***************************************************************************)
\* The graph, the rows and the session speak of objects that were given out: every object of the
\* graph has a row, whatever is marked is in the graph, and no row stands where the next id will.
TypeOK ==
    /\ DOMAIN graph \subseteq DOMAIN rows
    /\ DOMAIN rows \subseteq 1 .. (counter - 1)
    /\ marked \subseteq DOMAIN graph /\ stale \subseteq DOMAIN graph
    /\ here \in DOMAIN rows \cup {Nil}
    /\ \A i \in DOMAIN graph : graph[i].kind \in Kinds

\* What a command did not mark it has saved, so that quitting loses nothing: an object that is not
\* marked is in the graph as in its row. (Two commands break this, and are let off here: closing and
\* locking mark nothing. So is an object whose row a half-failed command wrote.)
AsSaved(x, row) ==
    \/ x = row
    \/ x.kind \in GateKinds /\ x = [row EXCEPT !.open = x.open, !.locked = x.locked]
UnsavedIsMarked ==
    \A i \in DOMAIN graph \ (marked \cup stale) : AsSaved(graph[i], rows[i])

\* However places are dug, linked, unlinked and edited, a command takes away or redirects at most
\* one exit that was there: a link's way back never replaces an exit of that name.
Lost(i) ==
    IF graph'[i] = graph[i] \/ ~IsPlace(graph, i) \/ ~IsPlace(graph', i) THEN {}
    ELSE {<<i, d>> : d \in {d \in DOMAIN graph[i].exits :
              d \notin DOMAIN graph'[i].exits \/ graph'[i].exits[d] # graph[i].exits[d]}}
WaysKept ==
    [][Cardinality(UNION {Lost(i) : i \in DOMAIN graph \cap DOMAIN graph'}) <= 1]_graph

\* A lock opens only to a key that fits, carried or at hand, and a key that works once is gone from
\* the world and from the hand; the other way a lock opens is that its row, where it never was
\* locked, is read back. And who walks through an exit where only closed doors stand leaves one open
\* (where a window stands too, nothing holds them: WindowsIgnored).
OpensWithKey(gate) ==
    \E k \in DOMAIN graph :
        /\ Active(graph, k) /\ Unlocks(graph[k], graph[gate])
        /\ k \in graph[Me].held \/ graph[k].at = here
        /\ graph[k].once => ~graph'[k].active /\ k \notin graph'[Me].held
ReadBack(gate) == ~IsLocked(rows[gate])
Doors(dir) == {d \in PortalsFor(graph, here, dir) : Passable(graph[d])}
Closed(dir) ==
    Doors(dir) # {} /\ \A d \in Doors(dir) : Permits(graph[d], graph[here].exits[dir]) /\ Blocks(graph[d])
Walked == graph'[Me].at # graph[Me].at /\ here' = graph'[Me].at /\ here' # here
Through == {dir \in DOMAIN graph[here].exits : Destination(graph, here, dir) = here'}
LeftOpen == \E dir \in Through : \E d \in Doors(dir) : ~Blocks(graph'[d])
LocksHold ==
    [][/\ \A gate \in DOMAIN graph \cap DOMAIN graph' :
            graph[gate].kind \in GateKinds /\ IsLocked(graph[gate]) /\ ~IsLocked(graph'[gate])
                => OpensWithKey(gate) \/ ReadBack(gate)
       /\ Walked /\ (\A dir \in Through : Closed(dir) /\ PortalsFor(graph, here, dir) = Doors(dir)) => LeftOpen]_vars

(***************************************************************************)
(* What a comment says and the code does not keep (README, "Disagreements"). *)
(***************************************************************************)
\* Windows are ignored, "so map exits and scenic portals can share a direction label": a closed door
\* stops who walks its way, whatever else stands there.
WindowsIgnored == [][Walked /\ (\A dir \in Through : Closed(dir)) => LeftOpen]_vars
================================================================================
