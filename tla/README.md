# mudl in TLA+

mudl is a text world in Rust: objects with stable ids, persisted in SQLite,
played by people on IRC and edited by a builder on a local REPL. The modules in
this directory model the parts of it whose correctness depends on the order of
steps: what is saved when, who holds which lock, where a thing is written down,
which ids are used twice, what a blow or a script leaves behind, and what a
start makes of a module's text. TLC checks them on small instances, TLAPS
proves some of their properties for all.

Paths below are relative to `src/src/` unless they name a document, which is
relative to `src/`.

## 1. The system

A message from IRC goes through these layers:

    IrcBot::handle_message
      -> dispatch (rate limit; SessionManager mutex, briefly; Arc<Mutex<Session>> of the nick)
        -> CommandDispatcher
          -> SharedWorld mutex: WorldState = objects + DirtyTracker
        <- DispatchOutcome: lines, channel_sync, persist
      -> IrcBot::deliver: PART, JOIN, persist_changes

The order of the locks is manager, session, world (`ARCHITECTURE.md`).
`bin/irc.rs` awaits one message before it takes the next; `SharedWorld` and
`SessionManager` are built, and tested, for handlers that run at the same time,
and that is how they are modelled. A command under the world's mutex is atomic,
so the modules of commands (MoveManager, Spawning, Encounter, Building) take one
command, or one event in it, as a step, and what they share with WorldStore is
the set of marked ids.

### Inventory

"What is hard" names the behaviours a unit test hardly reaches. The lines are
in `PROJECT.json` under `hazards`.

| component | state it keeps | operations | talks to | what is hard | what makes it correct | module |
|---|---|---|---|---|---|---|
| World graph and persistence (`world/world_state.rs`, `world/dirty.rs`, `persistence/`) | map of objects, set of marks, rows with revisions | object_mut, upsert, cache_object; persist_changes, flush_dirty, persist_all, ensure_object; batch and single saves with retry | every command; SQLite | the mutex is released during I/O; conflicts, retries, errors, crashes | it is a write-behind store: nothing changed is forgotten, no update is lost, reload gives the graph | WriteBehind, WorldStore |
| Writer lock (`persistence/writer_lock.rs`) | lock file, flock, record of the holder | acquire, drop | both binaries, at start and end | unlock before unlink; killed processes | one process writes one database | WriterLock |
| Gateway (`gateway/session_manager.rs`, `registry.rs`, `persistence.rs`, `repl/player_session.rs`) | nick to actor, nick to session, cached place | login, connect, release, logout, reclaim | dispatch above, world below | logout whose save fails, handler that outlives the logout, two nicks for an actor | one connection per actor, registry and map agree | Gateway |
| IRC bot and dispatch (`irc/bot.rs`, `irc/dispatch.rs`, `irc/visibility.rs`) | channels joined | handle_message, dispatch_command, deliver | gateway, world | locks of several sessions; part and join for many players | every message is answered; what is heard | Gateway |
| Authentication, roles, rate limits (`gateway/login_auth.rs`, `rbac.rs`, `rate_limit.rs`) | bindings, tokens, buckets per nick and kind | verify_login, authorize, check, forget_identity | dispatch | modes and defaults, refill at limits, reconnects | who is in has proven it; a rate is bounded over any interval | Access, Roles |
| Inventory and moves (`world/move_manager.rs`, `stack_transfer.rs`, `possession.rs`, `object/weight.rs`, `inventory/`) | location, contents, body_slots, carried_slot, stack_count | take, drop, put, remove, wield, wear, open, close | graph, marks | four records of one fact; partial transfers at limits of hands, bags, stacks and weight; failures half-way | the records agree, units are conserved, limits hold, changes are marked | MoveManager |
| Name lookup (`display/resolve.rs`, `inventory/mod.rs`) | none | resolve_object, resolve_carried_item, resolve_ground_item | moves | two walks of the same records, down and up | what is named can be had | Names |
| Spawners and scheduler (`creature/spawner.rs`, `loot/`, `resource/`, `world/scheduler.rs`, `event_subscribers.rs`) | spawn_count, fired, room ticks, spawned objects | run on enter, open, break, kill, harvest, timer; destroy | events, marks, rows | ids from counts, limits, once, restarts | ids unique, limits, timers keep time | Spawning |
| Event scripts (`world/event_script.rs`, `events.rs`) | none of their own | conditions; stop, spawn, teleport, damage, heal, effects, properties, react | spawners, sessions, combat | run inside a command, may cancel it | effects are saved like a command's | EventScript |
| Combat, conditions, vitality (`creature/combat.rs`, `conditions.rs`, `effects.rs`, `vitality.rs`, `tactics.rs`) | health, effects and countdowns, corpses | attack, tick, death, cure, flee | scripts, inventory | death on several paths, corpses and their ids | the dead do not act, gear is somewhere, derived values follow | Creature, Combat |
| Creature behaviour, discovery (`creature/behavior.rs`, `world/discovery.rs`) | awareness, discovered | behaviours on enter, discovery on look | scripts, combat | each acts on what the one before it left | - | Encounter |
| Exits, doors, places, @dig (`world/exits.rs`, `exit_index.rs`, `portal.rs`, `door.rs`, `place_builder.rs`, `bin/repl.rs`) | exits of both places, gates, keys, the builder's session | go, open, close, lock, unlock, dig, link, unlink, delete, undelete, @set, @trigger, load, save | graph, factory | two-sided edits, two saves per edit, one-time keys | ways are kept, locks hold, what is not marked is saved | Places, Building |
| Object factory (`object/factory.rs`) | counters per kind and name | create, clone, save_object | SQLite | read, then increment; shell saved first | ids unique, no half-made object is named | Building, Bootstrap |
| MUDL parsers and loader (`mudl/`) | none between files | parse, include, import | bootstrap | one state through blocks, files and worlds | blocks come out as written | Mudl, Loader |
| Bootstrap (`world/bootstrap.rs`, `object/roles.rs`) | the objects of a module | a first start and a later one | graph, factory | a crash at any write; a second start | nothing refers to nothing, a world stays as written | Roles, Bootstrap |
| Dispatch guard (`world/dispatch_guard.rs`) | stack of nested events | enter, leave | scripts | cycles and depth, error returns | empty after every event | - |
| IRC connection and text (`irc/connect.rs`, `capability.rs`, `social.rs`, ...) | registration state | connect, parse, format | server | - | by fixtures | - |
| Display, command parser, help, editor text | none | parse, format | - | - | by fixtures | - |

### Shared state, in one place

* The graph and its marks are behind one mutex. `persist_changes` lets go of it
  three times: after taking the marks, after cloning the objects, and while the
  transaction runs. `flush_dirty` and the last resort of the retry loop do not.
* The rows are shared by all tasks through revisions that a batch compares.
* A session is behind a mutex of its own; logout takes it while it holds the
  manager.
* The lock file is shared with other processes.
* The id counters are rows of their own, read and incremented in two calls.

## 2. Plan

The modules, in the order they were written:

| # | module | models | composed with |
|---|---|---|---|
| 1 | `WorldStore`, `WriteBehind` | write-back of the graph to SQLite, and what it promises | WorldStore implements WriteBehind |
| 2 | `WriterLock` | one writing process per database | hydration of WorldStore, as one step |
| 3 | `Gateway` | sessions, handlers, channels, logout | saves of WorldStore, as one step |
| 4 | `MoveManager`, `Names` | moves, stacks, weights; what a name means | marks of WorldStore, as a set; Names extends MoveManager |
| 5 | `Spawning` | spawners, ticks, spawn scripts | saves and hydration, as one step each |
| 6 | `Creature`, `EventScript`, `Combat`, `Encounter` | numbers of a creature, scripts, blows and deaths, commands | each extends the one before |
| 7 | `Places`, `Building` | exits and gates; the builder's REPL | Building extends Places |
| 8 | `Mudl`, `Roles`, `Loader`, `Bootstrap`, `Access`, `Service` | a server from its module's text to its logins | each extends the one before; Service composes Bootstrap and Access |

Left, with what each would need: `lock_blocking` (the workers of the runtime
beside WorldStore's mutex); the dispatch guard (worth a module once a script
action raises an event); CAP negotiation; `give` and `use` in MoveManager. What no theorem
states is liveness or needs induction over data (section 6).

## 3. Modules

Each module names its bounds in the comments of its CONSTANTS. `MC*` modules
give constants to TLC and hold what only TLC needs. Definitions that a comment
calls a mutant are plausible bugs: putting one in the place of its neighbour
makes the property named in `PROJECT.json` fail.

### WorldStore, WriteBehind

State: `graph` is `WorldState.objects`, `dirty` the tracker, `db` the rows,
`holder` the task inside `flush_dirty` (which keeps the mutex across I/O),
`task` the locals of each task, `failures` and `crashes` count. An object is the
number of its last change, its units and its revision; other contents are told
apart by the number only. `InitQty` is what a stack holds at first.

| actions | code |
|---|---|
| `Touch`, `Spawn`, `Transfer`, `Split`, `Merge` | object_mut, upsert_object, merge_stack_units, partial_stack_transfer: under one hold of the mutex, marks included |
| `Take`, `Snapshot`, `Save`/`SaveFails`, `Apply`, `Remark`, `Reload`/`ReloadFails`, `Refresh`, `GiveUp` | `SharedWorld::persist_changes`, one action between two awaits |
| `FlushSave` ... `SaveOneFails` | `persist_dirty` and `save_objects_batch_with_retry` under the mutex, row by row at the end |
| `FullSnapshot`, `FullSave`, `FullApply` | `persist_all` |
| `Ensure`, `Load`, `Cache` | `ensure_object` |
| `Crash` | the process dies and the next hydrates the active rows |

A batch is one transaction: its rows change together or not at all. The pairing
of ids and metadata by `zip()` is modelled with its misalignment. `dropped` and
`last` are history: which ids an error return left unmarked, and how far each
object has come.

`WriteBehind` is what all this is for, in two variables and five actions: a
version of each object in memory and one on disk, changes to the first, writes
of versions the second lacks, loads, restarts. `WritesBehind` is
`WB!Spec` with `mem` the versions in `graph` and `disk` those in `db`: every
step of the retries, reloads and flushes is one of its steps or none.

`GoodsNeverLost` compares the units in the rows after a transaction with those in
memory before it. It asks for nothing in between the ids of a save row by row, nor
where an error has left changed ids unmarked (`dropped`). It does not compare the rows
with the world the process started from: a save that gave objects up row by row may
leave their units out of the rows until they are changed, and so marked, again.

### WriterLock

Every action is one system call of `WriterGuard::acquire` or of its `Drop`, or
a process hydrating, writing or being killed. `path` is the file the name
stands for, `fd` what each process opened, `owner` the flock of a file (which
belongs to the file and not to the name), `record` who wrote into it, `stale`
whose writes each process's graph misses, `exited` whether any guard has been
dropped. Processes with `MUDL_SINGLE_WRITER_ENABLED=0` are `Disabled`.

### Gateway

`bound`, `sessions` and `owned` are the registry, the map of the manager and the
sessions `connect()` gave away; `player` the `PlayerSession`s; `manager` and
`lock` the mutexes; `place`, `row` and `dirty` what the world knows of actors;
`channels` where the bot is. A handler (`task`) goes through lookup, lock,
command, audience, delivery; every wait for a mutex and every save is a step of
its own. `Login` and `Connect` are one step because they hold the manager from
beginning to end and await nothing that can change meanwhile. Verbs stand for
parsed messages: `go` is a move, `warp` a move into a script that teleports,
`attack` a blow that brings down a player, the attacker or another one in the
room, a body left behind by a logout included; whoever goes down
wakes up at home, if the player has one, and the session of the attacker is
given that place (`dispatcher.rs:264`). `say` reads the sessions of others,
`drop` is the loss of a connection, `quit` a command.

A save that fails leaves its marks or, where the reload after a conflict fails
as well, loses them (`world_state.rs:162`), for the ids it had taken and may not
have written; `lost` is history, the actors whose mark went that way. Logout's
flush (`dirty.rs`) writes row by row and loses marks the same way.
`SavedAtRest` says what is left: at rest, a place that is not in its row is
marked, or its mark was lost with an error, which the bot drops
(`bot.rs:201`).

### MoveManager, Names

A command runs under the world's mutex, so it is one action, and its error
returns half-way are outcomes of that action (`Become` with what was changed
until then). The records of where a thing is are four variables: `loc`,
`contents`, `slots`, `carried`. `count` is `stack_count`; `marked` what the
command marked. Commands apply their scope checks (`Accessible`, `Possesses`,
`Reachable`) to the records, stale ones included. Each thing has a weight, a
stack a weight per unit; strength, bonuses of bags and what a bag may hold are
checked where the code checks them, for the units it checks them for.

`Names` adds what a typed word means: an id or a name, in the singular or the
plural, looked up in hands and open bags, or in the room. Lookup walks down
from hands and rooms, `take` and `put` check by walking up along locations;
`NamesReach` compares the two walks in every state.

### Spawning

An event runs its spawners one after the other (`Enter` or `Happen`, then `Run`
for each in its turn), then the scripts of its host (`Script`: `SpawnItem`,
`SpawnNpc`), unless a script stops it (`Stop`). `Save` writes what is marked,
`Crash` hydrates; both are between events only, because an event holds the
mutex. `rows` is the table. Chances and templates are any choice. `who` numbers
objects, so that an overwritten object is seen.

### Creature, EventScript, Combat, Encounter

The first three are functions on the map of objects; `EventScript` has one
variable, `flight`, the exit that whoever flees in the next command will draw.
The code takes it from a list that a new hash map of exits yields, so it is
drawn again with every command. `Creature` is what a creature's numbers are made
of: stats and skills with the modifiers of effects and gear, gaining and losing
an effect, ticks and their countdowns, health and its limits, experience,
stealth and perception. `EventScript` runs the scripts of an event: conditions,
then actions on the actor, the host or the place, with what each reports as
changed and whether it stops the event. `Combat` is one attack from the order of
blows to the death of either side, corpse and gear included.

`Encounter` has the state: `obj` is the map, `session` the place each session
caches (commands go by it, creatures by the location of the object), `marked`
what the last command marked. Its actions are commands (`Go`, `Look`, `Attack`,
`Take`, and the builders' `Damage` and `Mend`), the end of a looted corpse and a
restart; a command is one step because it holds the world. What varies within it
is a choice: the order in which a hash map yields the creatures of a room, the
exit a flight takes, and the seeds of the dice. `EncounterProofs` follows a
command through all of these layers.

### Places, Building

`Places` has exits, aliases, loops and scatter, hierarchy, gates and keys, as
operators on a map of objects. Doors and windows are portals; the one a walk
finds in a direction is any of them (`PortalsFor`: a hash map is searched), and
only then it is asked whether one can pass it (`Passable`) and what it blocks.
Portals of the kind teleport nothing in the repository makes. `Building` is the
wizard at the REPL of `bin/repl.rs`. `graph` and `rows` are memory and table,
`marked` the tracker, `stale` whose revision in memory is behind its row,
`counter` the id counter, `here` the place the session caches. One line of input
is one step (the REPL reads, runs and saves before it reads the next), but
commands save in different ways: by marks and `persist_session` (walking), with
`persist_object` (most edits), or with two or three saves after each other (dig,
link) of which one may fail, which leaves what was done before it. `Restart`
starts over from the rows: leaving the REPL saves nothing.

### Mudl, Roles, Loader, Bootstrap, Access, Service

Each extends the one before, and `Service` composes them into a server.

* `Mudl` has no variables. A line is its tag, its first word and its value;
  every parser is a machine over lines (`FoldLeft`), and they all are given
  every file, so only a block that is open keeps the lines of one from another.
  Values have their spellings, defaults, least and greatest as in the code.
* `Roles` is what the definitions are made into: an object's properties, roles
  laid over those of its prototype, read back later; and permission tiers.
* `Loader` reads one file per step: `text` is the files, `wanted` MUDL_WORLD,
  `loading` how far `load_universe` is, with the stack of open includes.
* `Bootstrap` makes a world, or finds it. One write to the database is one step
  (the counter, the shell, each commit, the way back into its container), and
  the process may stop between any two. `rows` and `counters` are tables,
  `boot` the phase, what it holds and the maps from names to ids; `whole` is
  history: some start that nothing had stopped before came to its end.
* `Access` is who may come in (`policy`, `seat`, `shown`, `account`) and how often
  a nick is heard (`buckets`, in parts of `1/Window` of a token, `clock`;
  `accepted` is history).
* `Service.Serve` is the moment the world is ready: from there on only the
  players are kept, since what they do to the world is said elsewhere.

## 4. Runs

Each takes three minutes, or less, with 2 workers.

| run | question | instance |
|---|---|---|
| `write_back` | Are concurrent saves a write-behind store, whatever call fails and wherever the process dies? Does every change get saved when no call fails? | 2 tasks, 2 objects (one soft-deleted and loaded on demand), 3 changes each, 1 failure, 1 crash, 1 attempt before the flush |
| `stacks` | Do splits, merges and full flushes by one task lose a mark, or does a transaction leave goods out of the rows? | 3 objects, 2 stored with 2 units at unequal revisions, 4 changes, 1 failing batch, reload or single save |
| `writer_lock` | Do two processes ever write one database before a guard is dropped? | 3 processes and 1 that opted out, 4 files |
| `gateway` | Do login, commands, teleports, deaths, quits and lost connections of two nicks with a common actor keep sessions, registry and rows together? | 2 nicks that share an actor of the 2 (which has a home, the other has none), 2 places, 2 sessions, 2 tasks, 1 failing save |
| `answers` | Does every handler end, or do they wait in a circle? | 2 nicks, 2 actors, 2 sessions, 2 tasks, 1 place, callers of connect, release and forget beside them, 1 failing save |
| `moves` | Do the records of location agree, do names find what may be taken, are units conserved, limits kept, changes marked? | 2 players, 2 hands each, 1 bag for 2 things, 2 stacks of at most 2 and a split of each, everybody carries at most 3 |
| `rough` | Does a bag stay within its capacity when everything is allowed: nested bags, full bags dropped, self-merges? | 1 player, 1 hand, 2 bags for 1 thing each, no weights |
| `spawns` | Are ids unique through crashes, limits kept, `once` once, changes marked? | 1 room, 1 chest, a creature and a loot spawner, 6 spawns, 3 entries, 1 crash |
| `timers` | Do timers keep time over restarts and do destroyed spawners stay destroyed, with scripts that stop and spawn? | 1 room, 1 object that breaks, a resource timer and a creature spawner, 4 entries, 1 crash |
| `encounter` | Are gear, effects, marks and deaths complete after any sequence of commands? | 1 player, a goblin that lurks, poisons and wears a sword, a rat that flees, a hidden ring; 2 rooms with scripts, an exit that leads back into its room, dice of 2 seeds, 2 draws of a flight's exit, 1 corpse, restarts |
| `building` | Is what is not marked saved, are exits kept but for the one that was named, do locks hold? | 7 objects (2 places, a door with a one-time key and a window for the same direction, a chest), 2 edits, 1 save that fails, 8 ids |
| `service` | Do blocks come out as written, does a row ever refer to nothing, does a later start change a world, who gets in and how often? | a module of 5 files and 9 variants with one line wrong, 3 values of MUDL_WORLD, 2 stops, 2 nicks, 4 policies, 3 seconds, 3 lines |

What they show, beyond the list: the revision check makes overlapping saves
safe (no row and no object ever goes back), although it does not keep the
revisions aligned; a misaligned revision is repaired by the conflict path before
a change is lost; a logout with a failing save leaves the nick bound and its
session in the map; handlers that wait for sessions while they hold the manager
are no deadlock because no handler waits for the manager inside a session; two
walks over four records find the same things as long as no full bag is dropped
open; a start that stops anywhere leaves rows that refer to rows, though not
the world that was written.

### Why the bounds are enough

Races of `persist_changes` are between two tasks and one object; a second object
separates "this one" from "the batch". Three changes are needed for one to be
in a row, one in flight and one in memory. One attempt before the flush reaches
the same code as five (`DEFAULT_SAVE_RETRIES`), with fewer rounds. Rows of
unequal revisions in `stacks` make the revisions that zip() misplaces conflict in
the save and again in the flush, which is what the row-by-row save takes. A
third process is what makes the lock's file be removed and created while
another one still has it open, and four inodes allow a fresh one at any time.
One nick with two handlers and two nicks with one actor are the two kinds of
conflicts in the gateway. Limits of 1, 2 and 3 put hands, stacks, bags and
strength at their limits within a few commands. Indices go one over
`max_active`, and entries to twice the timers' interval, so that each refuses as
well as it fires. In `encounter` each script and effect is there for one path
(poison by a room and by a blow, a boon by a killing and by gear, damage by a
death), health is 1 to 4 and blows are 1 to 3, so every way to die occurs within
a few steps; one corpse is enough for one to be looted while another creature
lives. Two edits in `building` make one command meet what a failed one left. Two
stops in `service` are a crash of the first start and of its repair; each variant of
the module turns one line into one that is refused, skipped or leaks.

Not all bounds are harmless. Where a property is broken by one operation, the
run leaves that operation out, and the disagreement is listed below: `stacks`
has one task (GoodsNeverLost, OnlyErrorsForget); `LocksHold` asks no door to
stop a walk that may find a window; `moves` leaves out dropping full bags,
wield, close and nesting (taking things out of bags and opening them are in
`rough`); `spawns` leaves out scripts and breaking; `UnsavedIsMarked` lets off
close and lock; `encounter` deletes corpses before a restart (`Tidy`). That it
has one player is for its size: the theorems of section 6 are for any number.

### Fairness

* `WorldStore`: weak fairness of each task's next step. The runtime polls every
  task; a database call returns; the mutex is free again after finitely many
  steps of its holder. Commands, crashes and failures are never forced.
  `EventuallySaved` is stated for behaviours without failing calls, since a
  failed save waits for the next command.
* `Gateway`: strong fairness of each handler's next step. tokio's mutexes are
  first come, first served, so a handler that waits is not passed over for ever;
  messages are never forced to arrive, saves never to fail.

Symmetry is used in safety runs only. Deadlock is checked in `WriterLock`; the
other systems stop at their bounds.

## 5. Disagreements

No run of the project expects a violation. What follows was met while modelling:
the code does one thing, and a document, a comment or another part of the code
expects another. Where a definition is named, it is in the modules, and to see
the code break it, check it with the constants given, the rest as in the run
that is named. The others follow from reading, most of them by way of a
counterexample to a property that was then stated without the operation.

### Saves, locks, sessions

| code | what happens | seen with |
|---|---|---|
| `world/world_state.rs:205` | persist_all clears marks made during its I/O | `OnlyErrorsForget`, `stacks`: 2 tasks, Ops touch, persist_all |
| `world/world_state.rs:162` | a failing reload in the conflict path returns with the marks taken; the error is all that is left of them | `dropped` of WorldStore |
| `world/world_state.rs:129` | ids are taken before a transfer, objects cloned after it: half of it is saved | `GoodsNeverLost`, `stacks`: 2 tasks, Ops touch, transfer |
| `world/world_state.rs:145` | metadata of two saves is applied in the other order: revisions and rows fall apart until the next conflict | - |
| `world/world_state.rs:79` | lock_blocking spins in async context; a holder that awaits on the same single worker never runs again | - |
| `world/move_manager.rs:329` | a split carries its source's revision into its first insert, and an older snapshot passes the check | `WritesBehind`, `stacks`: 2 tasks, InitRows {a}, Ops touch, split |
| `world/move_manager.rs:284` | a merged stack leaves the graph, its row stays, and a restart brings it back next to the units it was merged into | `ReloadIdentical`, `stacks` |
| `persistence/writer_lock.rs:204` | drop unlocks, then removes by name: a third process locks a new file | `MutualExclusion`, `writer_lock`: Disabled {} |
| `world/event_script.rs:842` | a teleport moves the object, not the session's place, which logout writes back | `CacheInSync`, `gateway`: Accounts Mine, Verbs login, warp |
| `irc/dispatch.rs:401` | one player's quit takes the bot out of the world channel | `WorldChannelHeld`, `gateway`: Accounts Mine, Verbs login, quit |
| `irc/dispatch.rs:232` | one player's move takes the bot out of a room where another one is | `RoomChannelsHeld`, `gateway`: Accounts Mine, Verbs login, go |
| `gateway/session_manager.rs:308` | a login reclaims a nick whose `connect()` session is alive; its release then unbinds the login, and a second nick gets the actor | `NickReserved`, `gateway`: Verbs login, connect, release |
| `gateway/rate_limit.rs:171` | quit and login give a nick full buckets again; of the verbs that move, `go` alone costs a movement | `Admission` counts since the bucket is there |
| `bin/irc.rs:54` | the server also serves after a bootstrap that failed | `Service.Serve` |

### Things and their places

| code | what happens | seen with |
|---|---|---|
| `inventory/mod.rs:579` | a dropped bag still lists what was spilled | `RecordsAgree`, `moves`: Ops take, drop, drop_bag, wear |
| `world/move_manager.rs:729` | bags end inside each other, in no room | `rough`: 2 hands, Capacity 2 |
| `inventory/mod.rs:1280` | close and lock mark nothing | `MarksCoverChanges`, `moves`: Ops take, open, close |
| `inventory/mod.rs:1599`, `world/stack_transfer.rs:172` | the stack found to merge with may be the one that moves; it is merged with itself, erased, and wield unwraps its lookup | `rough`: Ops wield |
| `inventory/mod.rs:1566` | use_item clears the slot of what was consumed without marking the player | - |
| `inventory/mod.rs` | wield and wear weigh again what is carried already, and refuse it or split it | `moves` with wield |
| `display/resolve.rs` | an id finds things in a closed bag that is carried, and none in an open bag on the ground | `NamesReach` is about names there |
| `world/stack_transfer.rs` | stacks are merged whatever they weigh a unit | - |

### Spawners and scripts

| code | what happens | seen with |
|---|---|---|
| `world/event_script.rs:566` | scripts of two hosts that spawn the same prototype use one id, and the first item is overwritten (`OBJECT_MODEL.md:301`: ids are unique) | `IdentityKept`, `timers`: Spawners {}, Ops script_item |
| `creature/spawner.rs:583` | a script numbers creatures by the active ones, the spawner by all | `IdentityKept`, `spawns`: Spawners {lair}, Ops script_npc |
| `creature/spawner.rs:96` | creatures that fled are not counted in max_active | `LimitsKept` is about where they are put |
| `creature/spawner.rs:648` | creatures despawned with a broken spawner are not marked | `ChangesMarked`, `timers`: Spawners {brood}, Protos {}, Ops break |
| `creature/spawner.rs:295` | `react` of a `@behavior` line of a spawn template is dropped (`LANGUAGE.md:155` has it) | `ParsedAsWritten` says what is left |

### Fights

| code | what happens |
|---|---|
| `creature/combat.rs:322` | after a restart the index of a corpse may be that of a deleted one, whose row it takes; `Tidy` and `MaxCorpses` keep `encounter` off it |
| `world/event_script.rs:665` | damage by scripts, `@damage` and ticks bring an NPC to no health without a death: it stands, and strikes (`LANGUAGE.md:465`) |
| `creature/conditions.rs` | an effect with a duration but no damage or healing never counts down (`LANGUAGE.md:348`) |
| `creature/vitality.rs` | healing somebody above the maximum, lowers health to it |
| `creature/combat.rs` | a player who kills another is taken to the victim's home |
| `world/event_script.rs` | `damage host` without an amount hits the actor |
| `world/discovery.rs` | one player's entry makes a creature undiscovered for all; the surprise of one lurker counts for another |

### Building

| code | what happens |
|---|---|
| `world/portal.rs:23`, `:50` | the first portal of a direction that a hash map yields is asked whether one can pass it; where that is a window, the walk goes past a locked door beside it (`:28-29`: windows "are ignored so map exits and scenic portals can share a direction label"). `WindowsIgnored` says so, with `building` as it is |
| `repl/session.rs:727` | linking a place to itself says "Linked" and loses the exit |
| `world/place_builder.rs:125` | a link replaces an exit of that name, without a word (the way back does not: `:133-141` skip it where an exit answers to its name) |
| `world/place_builder.rs:216`, `object/factory.rs:445` | a dig that fails leaves the row of a place that is nowhere, and after the second of its saves a revision in memory behind the row's |
| `world/place_builder.rs` | an exit to a deleted place refuses every dig and link that would use its name |
| `repl/session.rs:540` | walking spends a key that works once and is then refused for overload |
| `command/mod.rs:479` | `load` and `@delete` put the row into memory and with it discard what was not saved |
| `inventory/mod.rs` | whoever carries a thing unlocks it with its key; locking asks for no key |
| `repl/session.rs` | `@set location` of the builder moves the object, not the session |

### Modules of text

| code | what happens |
|---|---|
| `object/roles.rs:263` | weight and volume limits of a container are parsed and not used (`poisonous_swamp.mudl:168` has them) |
| `mudl/` | items, prototypes, NPCs and creatures whose block is not ended are dropped without a word |
| `mudl/loader.rs` | a file included on two ways is an error, as if it included itself |
| `world/bootstrap.rs:487` | a first start that stopped half-way is taken for complete by the next one (`ARCHITECTURE.md:109`: idempotent) |
| `object/factory.rs:419` | a stop between counter and shell gives the start place number 2, by which no later start finds it: the world is made again; likewise the admin, whose id the configuration has as number 1 |
| `world/bootstrap.rs:96` | an item that has the base name of a place or of an item before it is skipped |
| `world/bootstrap.rs` | a starting place whose name is not its slug, or no starting place, makes every start make the world again |
| `object/roles.rs` | `consumable = true` of items and prototypes is lost; an item's weight resets what else its prototype says of wearing; `stack_count` is not inherited |

## 6. Proofs

| theorem | for every | argument |
|---|---|---|
| `WorldStoreProofs!TypeCorrect`: `Spec => []TypeOK` | set of objects, tasks, faults and bounds allowed by `WorldStoreAssumption` | `TypeOK` alone is not inductive: a row-by-row save indexes its list, and rows and revisions are read through ids kept in locals. `TypeInv` adds `Located`: at each step a task's locals name objects that are there. One lemma per group of steps, one step per action. |
| `WorldStoreProofs!StoreWritesBehind`: `Spec => WritesBehind` | the same, with `NoStacks`: no command splits or merges | `WBInv`: no version in memory is older than its row and no revision ahead of it (`GraphAhead`), versions given out are counted (`Counted`), what is marked is there (`MarksPresent`), and what each task holds in its locals is sound (`Sound`): a clone that is about to be written is of an object in memory and, *if it has the revision of the row*, no older than the row. That is the optimistic check: it makes a write that passes it one of WriteBehind. The lemma `OthersSound` says that what others do keeps it so, for a row that changes gets a new revision. One lemma per action; those that write share `SaveStep`, which asks of them that versions in memory stay (`VersionsStay`) and rows grow (`TableGrows`). |
| `WriterLockProofs!WriterExclusion`, `WriterFreshness`, `WriterProgress`, `WriterRecorded`, `WriterTypes` | set of processes and files | `IInv`: who is past its acquire owns the file it has open (`OwnsItsFile`), and until a guard is dropped that is the file the path names (`OneFile`); so two of them would own one file. `RecordNamesHolder` follows a record from its writing to the drop. Freshness follows, as nobody writes beside a process that is open. |
| `SpawningProofs!SpawningTypes` | declarations and scripts allowed by `SpawningAssumption` | no strengthening needed; the lemma `FireShape` says what a spawner that fires may change. |
| `SpawningProofs!Identity` | the same with `Distinct`: id bases of spawners differ and no script spawns | `UInv`: above a spawner's count there is no object in the graph (`Ahead`) nor in the table (`RowsAhead`), what is not marked has the same count in both (`CountsAgree`), an object and its row are the same one (`SameObjects`), and what is marked is there (`MarkedExist`). A spawner inserts at its count plus one, so at a free id; a save keeps the table behind the counts because count and spawn are marked together. |
| `SpawningProofs!ChangesAreMarked`: `Spec => []ChangesMarked` | the same as for types, with `NoNestBreaks`: no creature spawner is attached to a thing that can be broken | `BooksMarked` (spawners, ticks and broken things) and `ObjectsMarked` drop the property's "between events": each turn of a spawner and each script marks what it changes, so it holds within an event too. `ObjectsMarked` says of an id that is free in the graph that its row is absent or deleted: a start skips what is soft-deleted. `EventKnown` ties the event in progress to its host. |
| `SpawningProofs!DestroyedStays`: `Spec => []DestroyedForGood` | declarations and scripts | inductive as it stands, given types: no action sets a spawner active again, and a start takes the rows'. |
| `SpawningProofs!TimersOnTime`: `Spec => []TimersKeepTime` | declarations and scripts | `Paced` and `RowsPaced` are the property for graph and table; `Waiting` adds that a timer which is still to have its turn in this entry has been counted for an earlier one at most, and that ticks and counts are marked together (`BooksMarked`), so no save separates them. The arithmetic is one lemma on quotients. |
| `SpawningProofs!LimitsHold`: `Spec => []LimitsKept` | declarations, with `Unaided`: `NoNestBreaks`, no script spawns a creature and nothing is brought back to where it spawned | `OnceInv`: all spawns of a spawner that fires once have its first id, and it has fired when it has one, in the graph and in the table. `RowsBelowMax` is the limit as a start would find it; a save keeps it because it writes a graph within the limit. |
| `WorldStoreProofs!NothingForgotten`: `Spec => []OnlyErrorsForget` | objects, tasks, faults and bounds, with `NoStacks` and `PersistAllAlone` | `TrackInv`. Two tasks may carry one id, the older with an outdated clone, so no task can promise that its write settles the id. `Current` is what holds: a clone that the revision guard would still accept is as new as memory, or the id is marked, dropped by an error, or carried by another task. `Loaded` and `Faithful` tie rows and clones to the contents in memory. |
| `WorldStoreProofs!ReloadsTheSame`: `Spec => []ReloadIdentical` | the same | from `TrackInv`: with no task at work and nothing dropped, what is unmarked is as in its row. |
| `WorldStoreProofs!LoneTaskForgetsNothing`: `Spec => []OnlyErrorsForget` | objects, faults and bounds, all operations, with `OneTask` | `AloneInv`, which does not need the versions of WriteBehind and so has room for stacks: whatever is `Behind` in the table is marked, dropped or in the task's hands, and `Handled` says what the task may rely on, step by step: its clones are what is in memory, and what it took is all that is marked. Revisions, which `zip()` may send to the wrong ids, occur in neither; a conflict only leads to another step that keeps both. |
| `WorldStoreProofs!GoodsNeverLostHolds`: `Spec => GoodsNeverLost` | the same | from `AloneInv`, row by row: a transaction writes the units in memory of what it took, and what it did not take is in its row already (`RowsHoldUnits`). A sum of numbers that are no smaller is no smaller (`TotalGrows`). |
| `MoveManagerProofs!CapacityHolds`: `Spec => []CapacityBound` | players, bags, stacks, hands, weights and limits allowed by `MoveAssumption`, all commands | `World \in WorldType /\ Fits(World)`. Of a plan only what `PlanMoves` says is used: it is for numbers, within the units there are, and has units for a new stack in a bag only where the bag has room. Everything else takes out of bags (`Within`), half-way failures included. |
| `MoveManagerProofs!RecordsAgreeHolds`, `UnitsConservedHolds` | the same, with `Plain` | `Agree`, of which `AgreeBut(w, X)` is what holds in the middle of a move, when the things X are out of their holder and not yet in the next: there is nothing to prune then, so the hands that the plan counted on are free, what is detached arrives (`Arrived`), and no move fails half-way. Splits and merges move units between two ids, which leaves a sum as it is (`TotalTransfer`). |
| `MoveManagerProofs!MarksCoverChangesHolds`: `Spec => MarksCoverChanges` | the same, without `close` | `Carried`: a move changes the thing, the holders it is between and what is at the destination afterwards; these are the ids it marks. |
| `MoveManagerProofs!OneHolderChangesHolds`: `Spec => OneHolderChanges` | the same, with `Plain` | Possession is a walk through slots and bags, one round for each thing there is. It is closed when it ends, because a walk that grows in every round would have more members than there are things; and the walks of two players are disjoint, for a thing that both had would have one location on two ways. So a command on holders that are one player's or nobody's leaves the walks of all others alone (`OthersDo`). |
| `MoveManagerProofs!CarryLimitsHold`: `Spec => CarryLimits` | the same, with no `nest` and `SameWeight` | A ledger of units: what is at a holder weighs its units times one weight, and with no bag in a bag what a player carries is the sum over slots and worn bags. Each command is a plan whose units `Bearable` has weighed, against the limit with the bonus of the bags that are worn afterwards. |
| `MoveManagerProofs!NamesReachHolds`: `Spec => []NamesReach` | the same, with `Plain` and `NamesAreNames` | The open bags that the resolver looks into are those of the walk that decides what is accessible, so the tiers of a lookup and the guards of take and drop are about one set of things; matches are listed without repetition, so one match is unambiguous. |
| `EncounterProofs!GearAgreesHolds`: `Spec => []GearAgrees`, `EffectsInStepHolds`: `Spec => []EffectsInStep` | players, NPCs, things, rooms, effects, templates and dice allowed by the assumptions of `Creature`, `EventScript`, `Combat` and `Encounter`, any commands, with `TameScripts`, `Bootstrapped`, `Tidy` and whole numbers as `Amounts` | `Inv`: the map has its type and each creature is in step with its effects (`Sane`), holders and things agree (`Holding`), what has left the world holds nothing (`Spent`), and corpses have different numbers that are not above their count (`Numbered`), so the next index is free. A command is followed from the bottom: each fold of the model is a run (`RunSteps`), each change of a creature's effects refreshes what is derived from them, each script, behaviour and blow has an outcome that `Follows` (nobody died) or `Falls` (one was buried in between), and both keep `Inv`. |
| `EncounterProofs!ChangesMarkedHolds`: `Spec => ChangesMarked` | the same | `Follows` says of an outcome that what is not as before is marked, and `Buries` marks corpse, gear and body; outcomes one after the other add up (`FollowsThen`). |
| `EncounterProofs!DeathsSettleHolds`: `Spec => DeathsSettle` | the same | `Follows` only lets those that are about (`About`) change, so the dead are left alone; only in `Falls` does anybody leave the world, with a corpse that has its gear; and only who gives a blow gains experience (`X` of `Follows`), after whose blow its target is up or out of the world (`BlowToTargetTurns`). |
| `BuildingProofs!BuildingTypesHold`, `UnsavedIsMarkedHolds` | worlds allowed by `BuildingAssumption` (every object has the fields of its kind, ids are 1 to n, the wizard is there), any bounds | `Sound`: an object and its row are of one kind, a row has all the exits its object has (`Leads`: a half-failed dig leaves it with one more), and the wizard is active and where its row says. Commands write in five ways (`PersistKeeps`, `PutKeeps`, `RowKeeps`, `HalfKeeps` and the marks of a walk that is refused), and each command is a case of one. `Ranked` says that a scatter picks a candidate. |
| `BuildingProofs!WaysKeptHolds`: `Spec => WaysKept` | the same | `Leads` is what makes reading back safe: a row never has fewer exits. All steps but linking and unlinking are `Mild`. |
| `BuildingProofs!LocksHoldAlways`: `Spec => LocksHold` | the same | `Handled`: what `PrepareGate` and unlocking do to the graph, with the key that turned (`Turned`). That the wizard is where its row says leaves walking as the only step that takes wizard and session to another place. Whichever portal of a direction a walk finds, where only doors stand it finds a door, and what it finds it unlocks and opens or is stopped by. |
| `ServiceProofs!AdmissionHolds`: `Spec => []Admission` (Spec of Service) | nicks, tokens, accounts, policies, modules, bursts and windows allowed by `AccessAssumption`; any number of seconds and lines | `Limits` ties what a bucket keeps, a level and a time, to the lines it let through: the level and the lines since any one of them never add up to more than a burst and the refill since (`Spent`), and the level is a full one or all the refill since the last line (`Kept`). `Refill` and a line let through preserve both (`RefillAgrees`, `TakeAgrees`); a nick without a bucket has no lines. `Seated` adds to `Proven` that nobody is in before there is a policy, and `Admitted` that there is one only when the loader is done, so the players and their tokens are not exchanged under those who are in. |
| `ServiceProofs!NothingDanglesHolds`: `Spec => []NothingDangles`, `TypeOKHolds`: `Spec => []TypeOK` (Spec of Service) | files of a module, whatever is written in them, worlds asked for, crashes and failing writes between any two steps; residents allowed by `BootstrapAssumption`: those who are there already refer to each other only | `NothingDangles` alone is not inductive: what a row is about to refer to is held outside the table. `RowsFine` says of each row what it may refer to (`Grounded`); `NamesFine` that every name the start remembers is of a row that is there; `StageFine` that what is being made has its number, and from its shell on its row, which is why an item may be in its container's contents before it is finished; `PassedFine` that the places and creatures passed in their lists are among these names, so the links of a later phase find them; `NumbersFine` that a number in use was taken. Nothing that Roles makes of a definition refers to anything (`Bare`, one lemma per role), so references come from the steps of Bootstrap alone, one lemma each. A crash keeps the table and forgets the names, and `Starting` remembers none. `FilesFine` does the same for the reading of the module, and `SeatsFine` for the login. |
| `GatewayProofs!GatewayTypeCorrect`: `Spec => []TypeOK` | nicks, actors, handlers, accounts and verbs | `TypeInv` adds the types of a handler's locals (`TaskState`), that from its first look on it has the nick and the session its step uses (`Shape`), and that every session somebody can reach is a player's (`Standing`). |
| `GatewayProofs!SavesAtRest`: `Spec => []SavedAtRest` | the same, in any order of messages and with library callers | `RowsKnown`: a row that is behind its actor belongs to a marked one or one whose mark an error lost, and `Promised`: where anything is marked a handler is on its way to save it, or a save has failed. Each action keeps it in one of four ways, which are lemmas: it touches nothing, it moves and promises, it saves, it fails. |
| `GatewayProofs!RegistryHolds`: `Spec => []RegistryAgrees` | the same, with `BotOnly`: the bot is the only caller, messages of a nick are handled in order | `RegInv`: `OneAtATime` (no two handlers of one nick), so a handler past its lookup has the session that is still stored (`Registered`), and a logout, which takes the session out of the map, is the one that holds the manager. |
| `GatewayProofs!OnlyConnectedMove`: `Spec => CommandsNeedLogin` | the same | from `RegInv`: whoever moves an actor has the stored session of a bound nick, or is the logout that still has it bound; a blow moves who is in that session's room (`Strikes`), bound or not. |

A hypothesis is named where the code needs it and does not have it. What breaks
without it is among the disagreements of section 5, and TLC shows it on the run
named there:

| hypothesis | without it |
|---|---|
| `NoStacks` | a merge takes an object out of the graph and leaves its row, which no action of WriteBehind does; a split gives a new object the revision of an old one. With both, `OnlyErrorsForget` is proved for one task (`LoneTaskForgetsNothing`). |
| `PersistAllAlone` | a mark made while another task's persist_all writes is cleared with the rest |
| `OneTask` | a transfer between the taking of the ids and their cloning is saved by half (`world/world_state.rs:129`), which `GoodsNeverLost` forbids; `LoneTaskForgetsNothing` without it is `NothingForgotten`, for what that covers |
| `BotOnly` | a nick with two handlers at once is logged out under the first one's hands (`gateway` with InOrder FALSE); a session that `connect()` gave away is released under a login that reclaimed it |
| `Distinct` | the id of `world/event_script.rs:566` is used twice |
| `NoNestBreaks` | creatures that go with a broken spawner are deleted and not marked |
| `Plain`: no bag is dropped, nothing is wielded | a dropped bag lists what it spilled; a wielded stack is merged with itself and lost, as is whatever a failure half-way leaves (section 5) |
| no `close` in `MarksCoverChangesHolds` | closing marks nothing |
| no `nest` in `CarryLimitsHold` | what is put into a bag in a bag is weighed against the inner bag only |
| `SameWeight` | stacks of one key are merged whatever they weigh a unit (`world/stack_transfer.rs:75-84`), so a merge can make units heavier |
| `NamesAreNames` | "me", "here" and ids are understood before names (`display/resolve.rs:540-565`): a thing called so is not found by its name |
| `Unaided` | scripts and players put more there than the spawner may |
| `TameScripts`: scripts write values of a property's kind, only creatures attack, none makes anybody more skilled in combat | a script may `set` any property to anything (`world/event_script.rs`), and what is read from it then is a default; experience by a script looks like that of a blow in `DeathsSettle` |
| `Tidy` | the index of `creature/combat.rs:322` is used twice after a restart (section 5) |
| `Bootstrapped`: a world as bootstrap leaves it | gear that nobody wears, or derived values of effects that are not there, stay as they are |

The assumptions on constants are evaluated by TLC in the runs of each module.

Model-checked only:

* `EventuallySaved`, `EveryMessageAnswered`: liveness under fairness and ENABLED
  are beyond the proof system.
* `ParsedAsWritten` and `WorldAsWritten` say what the folds over lines and definitions
  come to, which takes induction over data; they are checked for the inputs of the runs.

The library's induction theorems take an operator, which the provers at hand cannot
instantiate. Where a proof needs induction over data (the walks and sums of
`MoveManagerProofs`, the sums of `WorldStoreProofs`, the folds of `EncounterProofs`), it takes the least
counterexample from a set of numbers instead.

No module declares a RECURSIVE operator: sums are folds, and chains of containers
are functions of the number of steps.

## 7. Not modelled

Listed with reasons in `PROJECT.json`, `components`.

* The dispatch guard: a depth counter and a stack of names in a thread-local.
  No script action raises another event today, so it never refuses.
* The connection to IRC: registration and CAP are a straight line of requests to
  a server outside of this repository, without a reconnect; NICK is ignored.
* Text: the cutting of lines, parsing of commands, maps, help, editors, listing,
  narration, the wording and splitting of IRC messages. They turn text into text
  without state, and have fixtures.
* Library roots, module bundles, the anatomy file.
* In parts that are modelled: `lock_blocking` in WorldStore (it depends on the
  runtime's workers); `give`, `use` and coins in MoveManager; which template a
  spawner picks; encumbrance as a modifier of skills; the editor's properties
  other than locations and triggers.

## 8. Running

    tlc -workers 2 -config WriteBack.cfg MCWorldStore
    tlc -workers 2 -config Service.cfg MCService
    tlapm WriterLockProofs.tla

`PROJECT.json` lists module and configuration of each run, the mutant of each
property, the source lines of each definition, hazards and theorems.
