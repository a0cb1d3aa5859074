------------------------------ MODULE Spawning ------------------------------
(***************************************************************************)
(* Creature, loot and resource spawners, and the scripts that spawn.       *)
(*                                                                         *)
(* An event on a room or on an object in it (its host) first runs the      *)
(* spawners that subscribe to it and then the scripts of the host.  A      *)
(* spawner names what it spawns by its base and the number of its spawns;  *)
(* a script by a count of what is still there.  Objects, spawners and the  *)
(* ticks of the rooms are saved with whatever else is marked, in one       *)
(* transaction, and hydrated again after a crash.                          *)
(*                                                                         *)
(* An event runs under the mutex of the world; it is several steps here    *)
(* only because its spawners run one after the other.  Whether a chance    *)
(* comes up, and which template is picked, is any choice.                  *)
(***************************************************************************)
EXTENDS Naturals, FiniteSets

CONSTANTS
    Rooms, Spawners,
    Hosts,        \* objects that can be opened, broken, killed or harvested
    HostRoom,     \* the room each of them is in
    HostEvent,    \* the event each of them knows
    Containers,   \* those of them that are containers
    Def,          \* what @spawner, @loot-spawner, @resource-spawner declare
    Protos,       \* item prototypes that scripts name
    ScriptBase,   \* id base of their spawns
    JobInterval,  \* entries between the jobs that @schedule declares for a room
    Bases,        \* id bases, after generate_object_id cut them
    Away, Absent, None,
    Ops,          \* the inputs in play
    MaxIndex,     \* bound: the index in an id
    MaxBorn,      \* bound: spawns
    MaxTick,      \* bound: entries into one room
    MaxCrashes    \* bound: crashes of the process

OpKinds == {"stop", "script_item", "script_npc", "break", "flee", "take", "drop", "use", "kill"}
Kinds == {"creature", "loot", "resource"}
Triggers ==
    [creature |-> {"on_enter", "timer"},
     loot |-> {"on_enter", "on_open", "on_break", "on_kill", "timer"},
     resource |-> {"on_enter", "on_harvest", "timer"}]
Events == {"on_enter", "on_open", "on_break", "on_kill", "on_harvest", "on_discovered"}
Ids == Bases \X (1..MaxIndex)
Places == Rooms \cup Containers \cup {Away}

\* A spawned object: who spawned it, where it is, is_active, and which it is.
Object == [by : Spawners \cup Hosts \cup Rooms, at : Places, active : BOOLEAN, who : Nat]

\* What a spawner is declared with.
SpawnerDef ==
    [kind : Kinds, trigger : Events \cup {"timer"}, target : Rooms \cup Hosts,
     base : Bases, max : Nat, interval : Nat \ {0}, once : BOOLEAN]

ASSUME SpawningAssumption ==
    /\ Rooms \cap Hosts = {} /\ Rooms \cap Spawners = {} /\ Hosts \cap Spawners = {}
    /\ HostRoom \in [Hosts -> Rooms]
    /\ HostEvent \in [Hosts -> Events \ {"on_enter"}]
    /\ Containers \subseteq Hosts
    /\ Def \in [Spawners -> SpawnerDef]
    /\ \A s \in Spawners : Def[s].trigger \in Triggers[Def[s].kind]
    /\ \A s \in Spawners : Def[s].kind = "creature" => ~Def[s].once
    /\ IsFiniteSet(Bases) /\ ScriptBase \in [Protos -> Bases]
    /\ JobInterval \in Nat \ {0}
    /\ Ids \cap (Rooms \cup Hosts \cup Spawners) = {}
    /\ Away \notin Rooms \cup Hosts
    /\ Absent \notin Object
    /\ None \notin Rooms \cup Hosts
    /\ Ops \subseteq OpKinds
    /\ MaxIndex \in Nat /\ MaxBorn \in Nat /\ MaxTick \in Nat /\ MaxCrashes \in Nat

VARIABLES
    objs,     \* the spawned objects in the graph
    spawner,  \* spawn_count, fired and whether the spawner is active
    tick,     \* scheduler_tick_on_enter of each room
    intact,   \* the hosts that are active
    dirty,    \* DirtyTracker
    rows,     \* what the table has of the first four
    now,      \* the event in progress
    born,     \* history: spawns so far, and so the number of the next one
    crashes   \* crashes so far

vars == <<objs, spawner, tick, intact, dirty, rows, now, born, crashes>>

Slot == Object \cup {Absent}
Idle == [host |-> None, event |-> "on_enter", phase |-> "idle", todo |-> {}]

Init ==
    /\ objs = [i \in Ids |-> Absent]
    /\ spawner = [s \in Spawners |-> [count |-> 0, fired |-> FALSE, active |-> TRUE]]
    /\ tick = [r \in Rooms |-> 0]
    /\ intact = Hosts
    /\ dirty = {}
    /\ rows = [objs |-> objs, spawner |-> spawner, tick |-> tick, intact |-> intact]
    /\ now = Idle
    /\ born = 0
    /\ crashes = 0

(***************************************************************************)
(* Who subscribes to an event                                              *)
(***************************************************************************)

Active(i) == objs[i] # Absent /\ objs[i].active
RoomOf(x) == IF x \in Rooms THEN x ELSE HostRoom[x]

\* spawners_for_target and spawners_in_room: a creature spawner is in the room
\* it names, or in the room of the object it names while that is there.
CreatureSpawnersOf(h) == {s \in Spawners : Def[s].kind = "creature" /\ Def[s].target = h /\ spawner[s].active}
CreatureSpawnersIn(r) ==
    CreatureSpawnersOf(r) \cup UNION {CreatureSpawnersOf(h) : h \in {x \in intact : HostRoom[x] = r}}

\* loot_spawners_for_target, resource_spawners_for_target.
LootSpawnersOf(h) == {s \in Spawners : Def[s].kind = "loot" /\ Def[s].target = h /\ spawner[s].active}
ResourceSpawnersOf(h) == {s \in Spawners : Def[s].kind = "resource" /\ Def[s].target = h /\ spawner[s].active}

\* Creature spawners run on entries only; the others of the host have their
\* turn at any event and look at what it is.
CreaturesOn(h, e) == IF e = "on_enter" THEN CreatureSpawnersIn(h) ELSE {}
Subscribed(h, e) == CreaturesOn(h, e) \cup LootSpawnersOf(h) \cup ResourceSpawnersOf(h)

\* Creatures first, then loot, then resources; timers after the rest of their kind.
Turn(s) ==
    (CASE Def[s].kind = "creature" -> 0 [] Def[s].kind = "loot" -> 2 [] Def[s].kind = "resource" -> 4)
    + (IF Def[s].kind # "creature" /\ Def[s].trigger = "timer" THEN 1 ELSE 0)

\* spawner_room_id, placement_for_target, room_for_target: only loot goes
\* into the container it is declared for.
CreaturePlace(s) == RoomOf(Def[s].target)
LootPlace(s) == IF Def[s].target \in Containers THEN Def[s].target ELSE RoomOf(Def[s].target)
ResourcePlace(s) == RoomOf(Def[s].target)

\* count_active_spawns, count_active_loot, count_active_resources: only what
\* is still where the spawner puts it.
By(s, place) == {i \in Ids : Active(i) /\ objs[i].by = s /\ objs[i].at = place}
CreaturesThere(s) == By(s, CreaturePlace(s))
LootThere(s) == By(s, LootPlace(s))
ResourcesThere(s) == By(s, ResourcePlace(s))
There(s) ==
    CASE Def[s].kind = "creature" -> CreaturesThere(s)
      [] Def[s].kind = "loot" -> LootThere(s)
      [] Def[s].kind = "resource" -> ResourcesThere(s)

\* periodic_fires, and trigger_fires of each kind: a timer goes with entries.
PeriodicFires(t, interval) == t > 0 /\ t % interval = 0
OnTime(s) == Def[s].trigger = "timer" => PeriodicFires(tick[RoomOf(Def[s].target)], Def[s].interval)

LootTriggers(e) == IF e = "on_enter" THEN {"on_enter", "timer"} ELSE {e}
ResourceTriggers(e) == IF e = "on_enter" THEN {"on_enter", "timer"} ELSE {e}

CreatureFires(s) == OnTime(s)
LootFires(s) == Def[s].trigger \in LootTriggers(now.event) /\ OnTime(s)
ResourceFires(s) == Def[s].trigger \in ResourceTriggers(now.event) /\ OnTime(s)

(***************************************************************************)
(* Running a spawner                                                       *)
(***************************************************************************)

\* (Mutant: max_active is the last count that spawns.)
OneMore(s, there) == Cardinality(there) <= Def[s].max
BelowMax(s, there) == Cardinality(there) < Def[s].max

\* One more than the spawns so far.  (Mutant: one more than the active ones.)
ByCount(s) == Cardinality(There(s)) + 1
SpawnIndex(s) == spawner[s].count + 1

New(by, at) == [by |-> by, at |-> at, active |-> TRUE, who |-> born]
Insert(i, o) == born < MaxBorn /\ objs' = [objs EXCEPT ![i] = o] /\ born' = born + 1

\* (Mutants: the count goes up twice; fired is not set.)
With(s, count, fired) == [spawner EXCEPT ![s] = [count |-> count, fired |-> fired, active |-> @.active]]
Twice(s) == With(s, SpawnIndex(s) + 1, spawner[s].fired \/ Def[s].once)
Counted(s) == With(s, SpawnIndex(s), spawner[s].fired)
Fired(s) == With(s, SpawnIndex(s), spawner[s].fired \/ Def[s].once)

\* The object and the spawner are marked.  (Mutant: the spawner is not.)
MarkObject(s, i) == dirty \cup {i}
MarkSpawn(s, i) == dirty \cup {i, s}

Spawn(s, place) ==
    /\ SpawnIndex(s) <= MaxIndex
    /\ LET i == <<Def[s].base, SpawnIndex(s)>> IN
         /\ Insert(i, New(s, place))
         /\ dirty' = MarkSpawn(s, i)

\* run_on_enter_spawners, spawn_creature: creatures know no once.
FireCreature(s) ==
    /\ Def[s].kind = "creature"
    /\ CreatureFires(s) /\ BelowMax(s, CreaturesThere(s))
    /\ Spawn(s, CreaturePlace(s))
    /\ spawner' = Counted(s)

\* run_loot_spawners, spawn_loot_item, place_loot_item.
FireLoot(s) ==
    /\ Def[s].kind = "loot"
    /\ ~(Def[s].once /\ spawner[s].fired)
    /\ LootFires(s) /\ BelowMax(s, LootThere(s))
    /\ Spawn(s, LootPlace(s))
    /\ spawner' = Fired(s)

\* run_resource_spawners, spawn_resource_item.
FireResource(s) ==
    /\ Def[s].kind = "resource"
    /\ ~(Def[s].once /\ spawner[s].fired)
    /\ ResourceFires(s) /\ BelowMax(s, ResourcesThere(s))
    /\ Spawn(s, ResourcePlace(s))
    /\ spawner' = Fired(s)

Fire(s) == FireCreature(s) \/ FireLoot(s) \/ FireResource(s)

\* Its chance did not come up, the prototype is not there, or it may not
\* fire: it is marked all the same.
Pass(s) == dirty' = dirty \cup {s} /\ UNCHANGED <<objs, born, spawner>>

Run(s) ==
    /\ s \in now.todo
    /\ \A r \in now.todo : Turn(s) <= Turn(r)
    /\ now' = [now EXCEPT !.phase = "run", !.todo = @ \ {s}]
    /\ Fire(s) \/ Pass(s)
    /\ UNCHANGED <<tick, intact, rows, crashes>>

(***************************************************************************)
(* Events                                                                  *)
(***************************************************************************)

\* advance_tick, and the room is marked.  (Mutant: it is not.)
AdvanceTick(r) == [tick EXCEPT ![r] = @ + 1]
TickUnmarked(r) == dirty
MarkTick(r) == dirty \cup {r}

\* due_schedule_jobs: the jobs of the room, every so many entries.
JobsDue == now.phase = "jobs" /\ PeriodicFires(tick[now.host], JobInterval)

\* go: first the jobs of the room, then its spawners.
Enter(r) ==
    /\ now = Idle /\ tick[r] < MaxTick
    /\ tick' = AdvanceTick(r)
    /\ dirty' = MarkTick(r)
    /\ now' = [host |-> r, event |-> "on_enter", phase |-> "jobs", todo |-> Subscribed(r, "on_enter")]
    /\ UNCHANGED <<objs, spawner, intact, rows, born, crashes>>

\* A script of a job that is due stops the event.
Stop ==
    /\ "stop" \in Ops /\ JobsDue
    /\ now' = [now EXCEPT !.phase = "stopped", !.todo = {}]
    /\ UNCHANGED <<objs, spawner, tick, intact, dirty, rows, born, crashes>>

\* open_gate, break_item, harvest_item, the death of a creature and the
\* discovery of a hidden thing.
Happen(h) ==
    /\ now = Idle /\ h \in intact
    /\ HostEvent[h] = "on_break" => "break" \in Ops
    /\ now' = [host |-> h, event |-> HostEvent[h], phase |-> "run", todo |-> Subscribed(h, HostEvent[h])]
    /\ UNCHANGED <<objs, spawner, tick, intact, dirty, rows, born, crashes>>

\* Scripts run in the jobs of an entry and after the spawners of any event.
Scripting == JobsDue \/ (now.phase = "run" /\ now.todo = {})

\* spawn_item_from_prototype: the index counts the active spawns of the host,
\* the id does not name it.
SpawnItem(p) ==
    /\ "script_item" \in Ops /\ Scripting
    /\ LET n == Cardinality({i \in Ids : Active(i) /\ objs[i].by = now.host}) + 1
           i == <<ScriptBase[p], n>>
       IN /\ n <= MaxIndex
          /\ Insert(i, New(now.host, RoomOf(now.host)))
          /\ dirty' = dirty \cup {i}
    /\ UNCHANGED <<spawner, tick, intact, rows, now, crashes>>

\* spawn_creature_from_template: some spawner that has the template, and all
\* have all; its spawn_count stays.
SpawnNpc(s) ==
    /\ "script_npc" \in Ops /\ Scripting
    /\ Def[s].kind = "creature" /\ spawner[s].active
    /\ LET n == Cardinality({i \in Ids : Active(i) /\ objs[i].by = s}) + 1
           i == <<Def[s].base, n>>
       IN /\ n <= MaxIndex
          /\ Insert(i, New(s, RoomOf(now.host)))
          /\ dirty' = dirty \cup {i}
    /\ UNCHANGED <<spawner, tick, intact, rows, now, crashes>>

\* The spawn actions of execute_script: what is spawned is marked.
Script == (\E p \in Protos : SpawnItem(p)) \/ (\E s \in Spawners : SpawnNpc(s))

\* The creatures that run away when a player comes in.
Flee(r) == {i \in Ids : Active(i) /\ objs[i].at = r /\ objs[i].by \in Spawners /\ Def[objs[i].by].kind = "creature"}

Done == now # Idle /\ now.todo = {}

LeaveRoom ==
    /\ Done /\ now.event = "on_enter"
    /\ \E fled \in SUBSET (IF "flee" \in Ops THEN Flee(now.host) ELSE {}) :
         /\ objs' = [i \in Ids |-> IF i \in fled THEN [objs[i] EXCEPT !.at = Away] ELSE objs[i]]
         /\ dirty' = dirty \cup fled
    /\ now' = Idle
    /\ UNCHANGED <<spawner, tick, intact, rows, born, crashes>>

\* A creature that is killed is soft-deleted; a thing that is opened,
\* harvested or discovered stays.
LeaveHost ==
    /\ Done /\ now.event \in {"on_open", "on_harvest", "on_discovered", "on_kill"}
    /\ intact' = IF now.event = "on_kill" THEN intact \ {now.host} ELSE intact
    /\ dirty' = IF now.event = "on_kill" THEN dirty \cup {now.host} ELSE dirty
    /\ now' = Idle
    /\ UNCHANGED <<objs, spawner, tick, rows, born, crashes>>

\* despawn_creatures_from_spawner: wherever they are by now.
SpawnsOf(gone) == {i \in Ids : Active(i) /\ objs[i].by \in gone}

\* destroy_spawners_for_target: the spawners and what is broken are marked,
\* the creatures that go with them are not.
BreakHost ==
    /\ Done /\ now.event = "on_break"
    /\ LET gone == CreatureSpawnersOf(now.host) IN
         /\ objs' = [i \in Ids |-> IF i \in SpawnsOf(gone) THEN [objs[i] EXCEPT !.active = FALSE] ELSE objs[i]]
         /\ spawner' = [s \in Spawners |-> IF s \in gone THEN [spawner[s] EXCEPT !.active = FALSE] ELSE spawner[s]]
         /\ dirty' = dirty \cup gone \cup {now.host}
    /\ intact' = intact \ {now.host}
    /\ now' = Idle
    /\ UNCHANGED <<tick, rows, born, crashes>>

(***************************************************************************)
(* What else happens to spawned things                                     *)
(***************************************************************************)

Become(i, o) ==
    /\ now = Idle
    /\ objs' = [objs EXCEPT ![i] = o]
    /\ dirty' = dirty \cup {i}
    /\ UNCHANGED <<spawner, tick, intact, rows, now, born, crashes>>

IsCreature(i) == objs[i].by \in Spawners /\ Def[objs[i].by].kind = "creature"

\* take, use and drop of an item, the death of a creature.
Take(i) == "take" \in Ops /\ Active(i) /\ ~IsCreature(i) /\ objs[i].at # Away /\ Become(i, [objs[i] EXCEPT !.at = Away])
DropIn(i, r) == "drop" \in Ops /\ Active(i) /\ ~IsCreature(i) /\ objs[i].at = Away /\ Become(i, [objs[i] EXCEPT !.at = r])
Use(i) == "use" \in Ops /\ Active(i) /\ ~IsCreature(i) /\ objs[i].at = Away /\ Become(i, [objs[i] EXCEPT !.active = FALSE])
Kill(i) == "kill" \in Ops /\ Active(i) /\ IsCreature(i) /\ Become(i, [objs[i] EXCEPT !.active = FALSE])

\* The batch of everything marked; what a save that fails does is in WorldStore.
Save ==
    /\ now = Idle
    /\ rows' = [objs |-> [i \in Ids |-> IF i \in dirty THEN objs[i] ELSE rows.objs[i]],
                spawner |-> [s \in Spawners |-> IF s \in dirty THEN spawner[s] ELSE rows.spawner[s]],
                tick |-> [r \in Rooms |-> IF r \in dirty THEN tick[r] ELSE rows.tick[r]],
                intact |-> {h \in Hosts : IF h \in dirty THEN h \in intact ELSE h \in rows.intact}]
    /\ dirty' = {}
    /\ UNCHANGED <<objs, spawner, tick, intact, now, born, crashes>>

\* bootstrap_world_spawners finds the rows of all spawners, deleted or not,
\* and makes none anew.  (Mutant: it does not find the deleted ones.)
Remade(s) == IF rows.spawner[s].active THEN rows.spawner[s] ELSE [count |-> 0, fired |-> FALSE, active |-> TRUE]
Bootstrapped(s) == rows.spawner[s]

Crash ==
    /\ crashes < MaxCrashes
    /\ crashes' = crashes + 1
    /\ objs' = [i \in Ids |-> IF rows.objs[i] # Absent /\ rows.objs[i].active THEN rows.objs[i] ELSE Absent]
    /\ spawner' = [s \in Spawners |-> Bootstrapped(s)]
    /\ tick' = rows.tick
    /\ intact' = rows.intact
    /\ dirty' = {}
    /\ now' = Idle
    /\ UNCHANGED <<rows, born>>

Next ==
    \/ \E r \in Rooms : Enter(r)
    \/ \E h \in Hosts : Happen(h)
    \/ Stop
    \/ \E s \in Spawners : Run(s)
    \/ Script
    \/ LeaveRoom \/ LeaveHost \/ BreakHost
    \/ \E i \in Ids : Take(i) \/ Use(i) \/ Kill(i) \/ (\E r \in Rooms : DropIn(i, r))
    \/ Save \/ Crash

Spec == Init /\ [][Next]_vars

(***************************************************************************)
(* Properties.                                                             *)
(***************************************************************************)

Happening == [host : Rooms \cup Hosts, event : Events, phase : {"jobs", "run", "stopped"}, todo : SUBSET Spawners]
SpawnerState == [count : 0..MaxIndex, fired : BOOLEAN, active : BOOLEAN]

\* Every variable has its type; the rows have the type of what they save.
TypeOK ==
    /\ objs \in [Ids -> Slot]
    /\ spawner \in [Spawners -> SpawnerState]
    /\ tick \in [Rooms -> Nat]
    /\ intact \subseteq Hosts
    /\ dirty \subseteq Ids \cup Spawners \cup Rooms \cup Hosts
    /\ rows \in [objs : [Ids -> Slot], spawner : [Spawners -> SpawnerState],
                tick : [Rooms -> Nat], intact : SUBSET Hosts]
    /\ now \in Happening \cup {Idle}
    /\ born \in 0..MaxBorn
    /\ crashes \in 0..MaxCrashes

\* Nothing is ever inserted under the id of an object that is in the graph and
\* active, ...
IdsStay == \A i \in Ids : Active(i) /\ objs'[i] # Absent => objs'[i].who = objs[i].who

\* ... and no row of the table becomes another object's.
RowsStay ==
    \A i \in Ids : rows.objs[i] # Absent =>
        rows'.objs[i] # Absent /\ rows'.objs[i].who = rows.objs[i].who

\* Every object has a stable, unique identity (generate_object_id over the
\* saved spawn counts), in the graph and in the table, through crashes.
IdentityKept == [][IdsStay /\ RowsStay]_vars

\* Where a spawner puts its spawns there are never more than max_active.
MaxActiveThere == \A s \in Spawners : Cardinality(There(s)) <= Def[s].max

\* A spawner that fires once has one spawn in the graph and one in the table
\* at most, whatever was taken, used up or lost in a crash.
OnceIsOnce ==
    \A s \in Spawners : Def[s].once =>
        /\ Cardinality({i \in Ids : objs[i] # Absent /\ objs[i].by = s}) <= 1
        /\ Cardinality({i \in Ids : rows.objs[i] # Absent /\ rows.objs[i].by = s}) <= 1

\* The limits a spawner is declared with hold, max_active in the graph and
\* once through crashes too.
LimitsKept == MaxActiveThere /\ OnceIsOnce

\* A timer spawns once per interval of entries at most, counted over all runs
\* of the process: the spawns and the ticks in the table belong together.
TimersKeepTime ==
    \A s \in Spawners : Def[s].trigger = "timer" =>
        /\ spawner[s].count * Def[s].interval <= tick[RoomOf(Def[s].target)]
        /\ rows.spawner[s].count * Def[s].interval <= rows.tick[RoomOf(Def[s].target)]

\* A spawner destroyed with what it was attached to does not come back.
DestroyedForGood == \A s \in Spawners : ~rows.spawner[s].active => ~spawner[s].active

\* Between events, whatever differs from its row is marked for the next save.
ChangesMarked ==
    now = Idle =>
        /\ \A i \in Ids \ dirty : objs[i] # Absent => objs[i] = rows.objs[i]
        /\ \A s \in Spawners \ dirty : spawner[s] = rows.spawner[s]
        /\ \A r \in Rooms \ dirty : tick[r] = rows.tick[r]
        /\ \A h \in Hosts \ dirty : h \in intact <=> h \in rows.intact
====
