--------------------------- MODULE SpawningProofs ---------------------------
(***************************************************************************)
(* Spawning for any rooms, spawners and hosts, through any saves and       *)
(* crashes: spawned objects keep their identity, what changes is marked,   *)
(* limits and timers hold, and what was destroyed stays so.  What each     *)
(* theorem asks of a module is named where it is used.                     *)
(***************************************************************************)
EXTENDS Spawning, FiniteSetTheorems, TLAPS

\* What the proofs ask of a module: shorter ids than generate_object_id cuts,
\* and no scripts that spawn.
Distinct ==
    /\ \A s, t \in Spawners : Def[s].base = Def[t].base => s = t
    /\ Ops \cap {"script_item", "script_npc"} = {}

(***************************************************************************)
(* The inductive invariant                                                 *)
(***************************************************************************)

\* spawn_count is ahead of every index in use: in the graph, ...
Ahead == \A s \in Spawners, n \in 1..MaxIndex :
    objs[<<Def[s].base, n>>] # Absent => n <= spawner[s].count

\* ... and in the table.
RowsAhead == \A s \in Spawners, n \in 1..MaxIndex :
    rows.objs[<<Def[s].base, n>>] # Absent => n <= rows.spawner[s].count

\* The table is never ahead of the graph, and even when the spawner is not marked.
CountsAgree == \A s \in Spawners :
    /\ rows.spawner[s].count <= spawner[s].count
    /\ s \notin dirty => rows.spawner[s].count = spawner[s].count

\* An object and the row of its id are the same one.
SameObjects == \A i \in Ids :
    objs[i] # Absent /\ rows.objs[i] # Absent => objs[i].who = rows.objs[i].who

\* Nothing is marked that is not in the graph.
MarkedExist == \A i \in Ids : i \in dirty => objs[i] # Absent

UInv == Ahead /\ RowsAhead /\ CountsAgree /\ SameObjects /\ MarkedExist

(***************************************************************************)
(* Types                                                                   *)
(***************************************************************************)

LEMMA IndexType == \A s \in Spawners, n \in 1..MaxIndex : <<Def[s].base, n>> \in Ids
BY SpawningAssumption DEF Ids, SpawnerDef

LEMMA PlaceType ==
    \A s \in Spawners : CreaturePlace(s) \in Places /\ LootPlace(s) \in Places /\ ResourcePlace(s) \in Places
BY SpawningAssumption DEF CreaturePlace, LootPlace, ResourcePlace, RoomOf, Places, SpawnerDef

\* Whatever its kind, a spawner that fires puts one object under its next id
\* and counts it.
LEMMA FireCases ==
    ASSUME TypeOK, NEW s \in Spawners, Fire(s)
    PROVE  \E place \in Places, fired \in BOOLEAN :
             /\ Spawn(s, place)
             /\ spawner' = With(s, SpawnIndex(s), fired)
<1>1. spawner[s].fired \in BOOLEAN /\ (spawner[s].fired \/ Def[s].once) \in BOOLEAN
  BY DEF TypeOK, SpawnerState
<1>2. CASE FireCreature(s)
  BY <1>1, <1>2, PlaceType DEF FireCreature, Counted
<1>3. CASE FireLoot(s)
  BY <1>1, <1>3, PlaceType DEF FireLoot, Fired
<1>4. CASE FireResource(s)
  BY <1>1, <1>4, PlaceType DEF FireResource, Fired
<1> QED BY <1>2, <1>3, <1>4 DEF Fire

\* What Fire does to the graph and to the spawners.
LEMMA FireShape ==
    ASSUME TypeOK, NEW s \in Spawners, Fire(s)
    PROVE  /\ spawner[s].count + 1 \in 1..MaxIndex
           /\ born \in Nat /\ born + 1 \in 0..MaxBorn /\ born' = born + 1
           /\ <<Def[s].base, spawner[s].count + 1>> \in Ids
           /\ \E o \in Object : objs' = [objs EXCEPT ![<<Def[s].base, spawner[s].count + 1>>] = o]
           /\ dirty' = dirty \cup {<<Def[s].base, spawner[s].count + 1>>, s}
           /\ spawner' \in [Spawners -> SpawnerState]
           /\ spawner'[s].count = spawner[s].count + 1
           /\ \A t \in Spawners \ {s} : spawner'[t] = spawner[t]
<1> PICK place \in Places, fired \in BOOLEAN : Spawn(s, place) /\ spawner' = With(s, SpawnIndex(s), fired)
  BY FireCases
<1>1. spawner[s].count + 1 \in 1..MaxIndex
  BY SpawningAssumption DEF TypeOK, SpawnerState, Spawn, SpawnIndex
<1>2. <<Def[s].base, spawner[s].count + 1>> \in Ids
  BY <1>1, IndexType
<1>3. born \in Nat /\ born + 1 \in 0..MaxBorn /\ born' = born + 1
  BY SpawningAssumption DEF TypeOK, Spawn, Insert
<1>4. New(s, place) \in Object
  BY <1>3 DEF New, Object
<1>5. objs' = [objs EXCEPT ![<<Def[s].base, spawner[s].count + 1>>] = New(s, place)]
      /\ dirty' = dirty \cup {<<Def[s].base, spawner[s].count + 1>>, s}
  BY DEF Spawn, SpawnIndex, Insert, MarkSpawn
<1>7. spawner' = [spawner EXCEPT ![s] = [count |-> spawner[s].count + 1, fired |-> fired,
                                         active |-> spawner[s].active]]
  BY DEF With, SpawnIndex, TypeOK
<1>8. spawner[s].active \in BOOLEAN /\ spawner \in [Spawners -> SpawnerState]
  BY DEF TypeOK, SpawnerState
<1>9. [count |-> spawner[s].count + 1, fired |-> fired, active |-> spawner[s].active] \in SpawnerState
  BY <1>1, <1>8 DEF SpawnerState
<1>10. /\ spawner' \in [Spawners -> SpawnerState]
       /\ spawner'[s].count = spawner[s].count + 1
       /\ \A t \in Spawners \ {s} : spawner'[t] = spawner[t]
  BY <1>7, <1>8, <1>9
<1> QED BY <1>1, <1>2, <1>3, <1>4, <1>5, <1>10

\* The objects, the spawners and the rows have their types.
LEMMA TypeCore ==
    ASSUME TypeOK
    PROVE  /\ objs \in [Ids -> Slot] /\ rows.objs \in [Ids -> Slot]
           /\ \A s \in Spawners : spawner[s].count \in Nat /\ rows.spawner[s].count \in Nat
           /\ \A i \in Ids : objs[i] # Absent => objs[i] \in Object
           /\ \A i \in Ids : rows.objs[i] # Absent => rows.objs[i] \in Object
BY SpawningAssumption DEF TypeOK, SpawnerState, Slot

LEMMA InitType == Init => TypeOK
<1> SUFFICES ASSUME Init PROVE TypeOK OBVIOUS
<1>1. objs \in [Ids -> Slot]
  BY DEF Init, Slot
<1>2. spawner \in [Spawners -> SpawnerState]
  BY SpawningAssumption DEF Init, SpawnerState
<1>3. tick \in [Rooms -> Nat]
  BY DEF Init
<1>4. now \in Happening \cup {Idle}
  BY DEF Init
<1> QED BY <1>1, <1>2, <1>3, <1>4, SpawningAssumption DEF Init, TypeOK

\* Steps that insert nothing: what they touch keeps its number.
Quiet ==
    /\ objs' \in [Ids -> Slot]
    /\ \A i \in Ids : objs'[i] = objs[i]
                   \/ (objs[i] # Absent /\ objs'[i] # Absent /\ objs'[i].who = objs[i].who)
    /\ spawner' \in [Spawners -> SpawnerState]
    /\ \A s \in Spawners : spawner'[s].count = spawner[s].count
    /\ rows' = rows
    /\ dirty \subseteq dirty'
    /\ \A i \in Ids : i \in dirty' \ dirty => objs[i] # Absent
    /\ UNCHANGED <<born, crashes>>

LEMMA QuietChange ==
    ASSUME TypeOK, NEW touched \in SUBSET {i \in Ids : Active(i)}, NEW place \in Places,
           objs' = [i \in Ids |-> IF i \in touched THEN [objs[i] EXCEPT !.at = place] ELSE objs[i]]
    PROVE  /\ objs' \in [Ids -> Slot]
           /\ \A i \in Ids : objs'[i] = objs[i]
                   \/ (objs[i] # Absent /\ objs'[i] # Absent /\ objs'[i].who = objs[i].who)
<1> DEFINE After(i) == [objs[i] EXCEPT !.at = place]
<1>1. ASSUME NEW i \in touched
      PROVE  After(i) \in Object /\ After(i).who = objs[i].who /\ objs[i] # Absent
  <2>1. objs[i] # Absent /\ objs[i] \in Object
    BY TypeCore DEF Active
  <2> QED BY <2>1 DEF Object
<1>2. Absent \notin Object
  BY SpawningAssumption
<1>3. objs' = [i \in Ids |-> IF i \in touched THEN After(i) ELSE objs[i]]
  OBVIOUS
<1> HIDE DEF After
<1>4. ASSUME NEW i \in Ids
      PROVE  /\ objs'[i] \in Slot
             /\ objs'[i] = objs[i] \/ (objs[i] # Absent /\ objs'[i] # Absent /\ objs'[i].who = objs[i].who)
  <2>1. CASE i \in touched
    <3>1. objs'[i] = After(i)
      BY <1>3, <2>1
    <3> QED BY <1>1, <1>2, <2>1, <3>1 DEF Slot
  <2>2. CASE i \notin touched
    BY <1>3, <2>2, TypeCore
  <2> QED BY <2>1, <2>2
<1> QED BY <1>3, <1>4

LEMMA QuietEnd ==
    ASSUME TypeOK, NEW touched \in SUBSET {i \in Ids : Active(i)},
           objs' = [i \in Ids |-> IF i \in touched THEN [objs[i] EXCEPT !.active = FALSE] ELSE objs[i]]
    PROVE  /\ objs' \in [Ids -> Slot]
           /\ \A i \in Ids : objs'[i] = objs[i]
                   \/ (objs[i] # Absent /\ objs'[i] # Absent /\ objs'[i].who = objs[i].who)
<1> DEFINE After(i) == [objs[i] EXCEPT !.active = FALSE]
<1>1. ASSUME NEW i \in touched
      PROVE  After(i) \in Object /\ After(i).who = objs[i].who /\ objs[i] # Absent
  <2>1. objs[i] # Absent /\ objs[i] \in Object
    BY TypeCore DEF Active
  <2> QED BY <2>1 DEF Object
<1>2. Absent \notin Object
  BY SpawningAssumption
<1>3. objs' = [i \in Ids |-> IF i \in touched THEN After(i) ELSE objs[i]]
  OBVIOUS
<1> HIDE DEF After
<1>4. ASSUME NEW i \in Ids
      PROVE  /\ objs'[i] \in Slot
             /\ objs'[i] = objs[i] \/ (objs[i] # Absent /\ objs'[i] # Absent /\ objs'[i].who = objs[i].who)
  <2>1. CASE i \in touched
    <3>1. objs'[i] = After(i)
      BY <1>3, <2>1
    <3> QED BY <1>1, <1>2, <2>1, <3>1 DEF Slot
  <2>2. CASE i \notin touched
    BY <1>3, <2>2, TypeCore
  <2> QED BY <2>1, <2>2
<1> QED BY <1>3, <1>4

\* One object that keeps its number.
LEMMA QuietOne ==
    ASSUME TypeOK, NEW i \in Ids, Active(i), NEW o \in Object, o.who = objs[i].who, Become(i, o)
    PROVE  Quiet
<1>1. objs[i] # Absent /\ objs \in [Ids -> Slot] /\ o \in Slot /\ o # Absent
  BY TypeCore, SpawningAssumption DEF Active, Slot
<1>2. objs' = [objs EXCEPT ![i] = o] /\ dirty' = dirty \cup {i} /\ rows' = rows /\ spawner' = spawner
      /\ born' = born /\ crashes' = crashes
  BY DEF Become
<1>3. /\ objs' \in [Ids -> Slot]
      /\ \A j \in Ids : objs'[j] = objs[j] \/ (objs[j] # Absent /\ objs'[j] # Absent /\ objs'[j].who = objs[j].who)
  BY <1>1, <1>2
<1> QED BY <1>1, <1>2, <1>3 DEF Quiet, TypeOK

LEMMA QuietTypes ==
    ASSUME TypeOK, Quiet,
           tick' \in [Rooms -> Nat], intact' \subseteq Hosts,
           dirty' \subseteq Ids \cup Spawners \cup Rooms \cup Hosts,
           now' \in Happening \cup {Idle}
    PROVE  TypeOK'
BY DEF TypeOK, Quiet

\* A person or a creature changes one object: each of the four is quiet.
LEMMA OneQuiet ==
    ASSUME TypeOK, NEW i \in Ids,
           Take(i) \/ Use(i) \/ Kill(i) \/ (\E r \in Rooms : DropIn(i, r))
    PROVE  Quiet /\ TypeOK'
<1>1. Active(i) /\ objs[i] \in Object
  BY TypeCore DEF Take, Use, Kill, DropIn, Active
<1>2. ASSUME NEW p \in Places
      PROVE  [objs[i] EXCEPT !.at = p] \in Object /\ [objs[i] EXCEPT !.at = p].who = objs[i].who
  BY <1>1 DEF Object
<1>3. [objs[i] EXCEPT !.active = FALSE] \in Object /\ [objs[i] EXCEPT !.active = FALSE].who = objs[i].who
  BY <1>1 DEF Object
<1>4. PICK o \in Object : o.who = objs[i].who /\ Become(i, o)
  <2>1. CASE Take(i)
    <3>1. Away \in Places /\ Become(i, [objs[i] EXCEPT !.at = Away])
      BY <2>1 DEF Take, Places
    <3> QED BY <1>2, <3>1
  <2>2. CASE \E r \in Rooms : DropIn(i, r)
    <3>1. PICK r \in Rooms : Become(i, [objs[i] EXCEPT !.at = r])
      BY <2>2 DEF DropIn
    <3>2. r \in Places
      BY DEF Places
    <3> QED BY <1>2, <3>1, <3>2
  <2>3. CASE Use(i) \/ Kill(i)
    <3>1. Become(i, [objs[i] EXCEPT !.active = FALSE])
      BY <2>3 DEF Use, Kill
    <3> QED BY <1>3, <3>1
  <2> QED BY <2>1, <2>2, <2>3
<1>5. Quiet
  BY <1>1, <1>4, QuietOne
<1>6. tick' = tick /\ intact' = intact /\ now' = now /\ dirty' = dirty \cup {i}
  BY <1>4 DEF Become
<1>7. TypeOK'
  BY <1>5, <1>6, QuietTypes DEF TypeOK
<1> QED BY <1>5, <1>7

LEMMA SubscribersType == \A h, e : Subscribed(h, e) \subseteq Spawners
BY DEF Subscribed, CreaturesOn, CreatureSpawnersIn, CreatureSpawnersOf, LootSpawnersOf, ResourceSpawnersOf

\* Events that begin or stop move nothing.
LEMMA StartQuiet ==
    ASSUME TypeOK, (\E r \in Rooms : Enter(r)) \/ (\E h \in Hosts : Happen(h)) \/ Stop
    PROVE  Quiet /\ TypeOK'
<1>1. CASE \E r \in Rooms : Enter(r)
  <2>1. PICK r \in Rooms : Enter(r)
    BY <1>1
  <2>2. Quiet
    BY <2>1, SpawningAssumption, TypeCore DEF Enter, Quiet, TypeOK, MarkTick
  <2>3. now' \in Happening \cup {Idle}
    BY <2>1, SubscribersType DEF Enter, Events, Happening
  <2> QED BY <2>1, <2>2, <2>3, QuietTypes DEF Enter, AdvanceTick, MarkTick, TypeOK
<1>2. CASE \E h \in Hosts : Happen(h)
  <2>1. PICK h \in Hosts : Happen(h)
    BY <1>2
  <2>2. Quiet
    BY <2>1, TypeCore DEF Happen, Quiet, TypeOK
  <2>3. HostEvent[h] \in Events
    BY SpawningAssumption
  <2>4. now' \in Happening \cup {Idle}
    BY <2>1, <2>3, SubscribersType DEF Happen, Happening
  <2> QED BY <2>1, <2>2, <2>4, QuietTypes DEF Happen, TypeOK
<1>3. CASE Stop
  <2>1. Quiet
    BY <1>3, TypeCore DEF Stop, Quiet, TypeOK
  <2>2. now' \in Happening \cup {Idle}
    <3>1. now \in Happening
      BY <1>3 DEF Stop, JobsDue, TypeOK, Idle
    <3> QED BY <1>3, <3>1 DEF Stop, Happening
  <2> QED BY <1>3, <2>1, <2>2, QuietTypes DEF Stop, TypeOK
<1> QED BY <1>1, <1>2, <1>3

LEMMA EndQuiet ==
    ASSUME TypeOK, LeaveRoom \/ LeaveHost \/ BreakHost
    PROVE  Quiet /\ TypeOK'
<1>1. now.host \in Rooms \cup Hosts
  BY DEF LeaveRoom, LeaveHost, BreakHost, Done, TypeOK, Happening
<1>2. CASE LeaveRoom
  <2>1. PICK fled \in SUBSET (IF "flee" \in Ops THEN Flee(now.host) ELSE {}) :
          /\ objs' = [i \in Ids |-> IF i \in fled THEN [objs[i] EXCEPT !.at = Away] ELSE objs[i]]
          /\ dirty' = dirty \cup fled
    BY <1>2 DEF LeaveRoom
  <2>2. fled \in SUBSET {i \in Ids : Active(i)}
    BY <2>1 DEF Flee
  <2>3. Away \in Places
    BY DEF Places
  <2>4. /\ objs' \in [Ids -> Slot]
        /\ \A i \in Ids : objs'[i] = objs[i] \/ (objs[i] # Absent /\ objs'[i] # Absent /\ objs'[i].who = objs[i].who)
    BY <2>1, <2>2, <2>3, QuietChange
  <2>5. Quiet
    BY <1>2, <2>1, <2>2, <2>4 DEF LeaveRoom, Quiet, TypeOK, Active
  <2> QED BY <1>1, <1>2, <2>1, <2>2, <2>5, QuietTypes DEF LeaveRoom, TypeOK
<1>3. CASE LeaveHost
  <2>1. Quiet
    BY <1>1, <1>3, SpawningAssumption, TypeCore DEF LeaveHost, Quiet, TypeOK
  <2> QED BY <1>1, <1>3, <2>1, QuietTypes DEF LeaveHost, TypeOK
<1>4. CASE BreakHost
  <2> DEFINE gone == CreatureSpawnersOf(now.host)
             ended == SpawnsOf(gone)
  <2>1. objs' = [i \in Ids |-> IF i \in ended THEN [objs[i] EXCEPT !.active = FALSE] ELSE objs[i]]
    BY <1>4 DEF BreakHost
  <2>2. /\ spawner' = [s \in Spawners |-> IF s \in gone THEN [spawner[s] EXCEPT !.active = FALSE] ELSE spawner[s]]
        /\ dirty' = dirty \cup gone \cup {now.host}
        /\ intact' = intact \ {now.host} /\ now' = Idle /\ UNCHANGED <<tick, rows, born, crashes>>
    BY <1>4 DEF BreakHost
  <2>3. ended \in SUBSET {i \in Ids : Active(i)} /\ gone \subseteq Spawners
    BY DEF SpawnsOf, CreatureSpawnersOf
  <2> HIDE DEF ended, gone
  <2>4. /\ objs' \in [Ids -> Slot]
        /\ \A i \in Ids : objs'[i] = objs[i] \/ (objs[i] # Absent /\ objs'[i] # Absent /\ objs'[i].who = objs[i].who)
    BY <2>1, <2>3, QuietEnd
  <2>5. \A s \in Spawners : spawner[s] \in SpawnerState
    BY DEF TypeOK
  <2>6. \A s \in Spawners : /\ [spawner[s] EXCEPT !.active = FALSE] \in SpawnerState
                            /\ [spawner[s] EXCEPT !.active = FALSE].count = spawner[s].count
    BY <2>5 DEF SpawnerState
  <2>7. spawner' \in [Spawners -> SpawnerState] /\ \A s \in Spawners : spawner'[s].count = spawner[s].count
    BY <2>2, <2>5, <2>6
  <2>9. Quiet
    BY <2>2, <2>3, <2>4, <2>7, <1>1, SpawningAssumption DEF Quiet
  <2> QED BY <1>1, <2>2, <2>3, <2>9, QuietTypes DEF TypeOK
<1> QED BY <1>2, <1>3, <1>4

LEMMA SaveType == TypeOK /\ Save => TypeOK'
<1> SUFFICES ASSUME TypeOK, Save PROVE TypeOK'
  OBVIOUS
<1>1. rows' \in [objs : [Ids -> Slot], spawner : [Spawners -> SpawnerState],
                 tick : [Rooms -> Nat], intact : SUBSET Hosts]
  <2>1. [i \in Ids |-> IF i \in dirty THEN objs[i] ELSE rows.objs[i]] \in [Ids -> Slot]
    BY DEF TypeOK
  <2>2. [s \in Spawners |-> IF s \in dirty THEN spawner[s] ELSE rows.spawner[s]] \in [Spawners -> SpawnerState]
    BY DEF TypeOK
  <2>3. [r \in Rooms |-> IF r \in dirty THEN tick[r] ELSE rows.tick[r]] \in [Rooms -> Nat]
    BY DEF TypeOK
  <2> QED BY <2>1, <2>2, <2>3 DEF Save
<1> QED BY <1>1 DEF Save, TypeOK

LEMMA CrashType == TypeOK /\ Crash => TypeOK'
<1> SUFFICES ASSUME TypeOK, Crash PROVE TypeOK'
  OBVIOUS
<1>1. objs' \in [Ids -> Slot]
  BY DEF TypeOK, Crash, Slot
<1>2. spawner' \in [Spawners -> SpawnerState]
  BY DEF TypeOK, Crash, Bootstrapped
<1>3. crashes' \in 0..MaxCrashes
  BY SpawningAssumption DEF TypeOK, Crash
<1> QED BY <1>1, <1>2, <1>3 DEF TypeOK, Crash

LEMMA RunType ==
    ASSUME TypeOK, NEW s \in Spawners, Run(s)
    PROVE  TypeOK'
<1>1. now' \in Happening \cup {Idle}
  <2>1. now \in Happening
    BY DEF Run, TypeOK, Idle
  <2> QED BY <2>1 DEF Run, Happening
<1>2. CASE Fire(s)
  <2>1. objs' \in [Ids -> Slot] /\ dirty' \subseteq Ids \cup Spawners \cup Rooms \cup Hosts
        /\ spawner' \in [Spawners -> SpawnerState] /\ born' \in 0..MaxBorn
    <3>1. objs' \in [Ids -> Slot]
      <4>1. PICK o \in Object : objs' = [objs EXCEPT ![<<Def[s].base, spawner[s].count + 1>>] = o]
        BY <1>2, FireShape
      <4> QED BY <1>2, <4>1, FireShape, TypeCore DEF Slot
    <3>2. dirty \subseteq Ids \cup Spawners \cup Rooms \cup Hosts
      BY DEF TypeOK
    <3>3. dirty' \subseteq Ids \cup Spawners \cup Rooms \cup Hosts
      <4> DEFINE id == <<Def[s].base, spawner[s].count + 1>>
      <4>1. id \in Ids /\ dirty' = dirty \cup {id, s}
        BY <1>2, FireShape
      <4> HIDE DEF id
      <4> QED BY <3>2, <4>1
    <3> QED BY <1>2, <3>1, <3>3, FireShape
  <2>2. UNCHANGED <<tick, intact, rows, crashes>>
    BY DEF Run
  <2> QED BY <1>1, <2>1, <2>2 DEF TypeOK
<1>3. CASE Pass(s)
  BY <1>1, <1>3 DEF Run, Pass, TypeOK
<1> QED BY <1>2, <1>3 DEF Run

\* What a script inserts has its type too.
LEMMA ScriptShape ==
    ASSUME TypeOK, NEW b \in Bases, NEW by \in Spawners \cup Hosts \cup Rooms, NEW room \in Rooms,
           NEW some \in SUBSET Ids,
           Cardinality(some) + 1 <= MaxIndex,
           Insert(<<b, Cardinality(some) + 1>>, New(by, room)),
           dirty' = dirty \cup {<<b, Cardinality(some) + 1>>},
           UNCHANGED <<spawner, tick, intact, rows, now, crashes>>
    PROVE  TypeOK'
<1>1. IsFiniteSet(Ids)
  <2>1. IsFiniteSet(1..MaxIndex)
    BY SpawningAssumption, FS_Interval, 1 \in Int, MaxIndex \in Int
  <2> QED BY <2>1, SpawningAssumption, FS_Product DEF Ids
<1>2. Cardinality(some) \in Nat
  BY <1>1, FS_Subset, FS_CardinalityType
<1>3. <<b, Cardinality(some) + 1>> \in Ids
  BY <1>2, SpawningAssumption DEF Ids
<1>4. born \in Nat /\ born' \in 0..MaxBorn
  BY SpawningAssumption DEF TypeOK, Insert
<1>5. New(by, room) \in Slot
  <2>1. room \in Places /\ TRUE \in BOOLEAN
    BY DEF Places
  <2> QED BY <1>4, <2>1 DEF New, Object, Slot
<1>6. objs' \in [Ids -> Slot]
  BY <1>3, <1>5, TypeCore DEF Insert
<1> QED BY <1>3, <1>4, <1>6 DEF TypeOK

LEMMA RoomOfHost == \A x \in Rooms \cup Hosts : RoomOf(x) \in Rooms
BY SpawningAssumption DEF RoomOf

LEMMA ScriptType ==
    ASSUME TypeOK, (\E p \in Protos : SpawnItem(p)) \/ (\E s \in Spawners : SpawnNpc(s))
    PROVE  TypeOK'
<1>1. now.host \in Rooms \cup Hosts
  <2>1. now \in Happening
    <3>1. now.phase = "jobs" \/ now.phase = "run"
      BY DEF SpawnItem, SpawnNpc, Scripting, JobsDue
    <3>2. Idle.phase = "idle"
      BY DEF Idle
    <3> QED BY <3>1, <3>2 DEF TypeOK
  <2> QED BY <2>1 DEF Happening
<1>2. RoomOf(now.host) \in Rooms
  BY <1>1, RoomOfHost
<1>3. CASE \E p \in Protos : SpawnItem(p)
  <2>1. PICK p \in Protos : SpawnItem(p)
    BY <1>3
  <2> DEFINE some == {i \in Ids : Active(i) /\ objs[i].by = now.host}
  <2>2. /\ Cardinality(some) + 1 <= MaxIndex
        /\ Insert(<<ScriptBase[p], Cardinality(some) + 1>>, New(now.host, RoomOf(now.host)))
        /\ dirty' = dirty \cup {<<ScriptBase[p], Cardinality(some) + 1>>}
        /\ UNCHANGED <<spawner, tick, intact, rows, now, crashes>>
    BY <2>1 DEF SpawnItem
  <2>3. ScriptBase[p] \in Bases /\ some \in SUBSET Ids
    BY SpawningAssumption
  <2> HIDE DEF some
  <2> QED BY <1>1, <1>2, <2>2, <2>3, ScriptShape
<1>4. CASE \E s \in Spawners : SpawnNpc(s)
  <2>1. PICK s \in Spawners : SpawnNpc(s)
    BY <1>4
  <2> DEFINE some == {i \in Ids : Active(i) /\ objs[i].by = s}
  <2>2. /\ Cardinality(some) + 1 <= MaxIndex
        /\ Insert(<<Def[s].base, Cardinality(some) + 1>>, New(s, RoomOf(now.host)))
        /\ dirty' = dirty \cup {<<Def[s].base, Cardinality(some) + 1>>}
        /\ UNCHANGED <<spawner, tick, intact, rows, now, crashes>>
    BY <2>1 DEF SpawnNpc
  <2>3. Def[s].base \in Bases /\ some \in SUBSET Ids
    BY SpawningAssumption DEF SpawnerDef
  <2> HIDE DEF some
  <2> QED BY <1>2, <2>2, <2>3, ScriptShape
<1> QED BY <1>3, <1>4

\* Every step is one of these kinds.
LEMMA StepCases ==
    ASSUME TypeOK, Next
    PROVE  \/ Quiet /\ TypeOK'
           \/ \E s \in Spawners : Run(s)
           \/ (\E p \in Protos : SpawnItem(p)) \/ (\E s \in Spawners : SpawnNpc(s))
           \/ Save \/ Crash
BY OneQuiet, StartQuiet, EndQuiet DEF Next, Script

LEMMA TypeNext == TypeOK /\ [Next]_vars => TypeOK'
<1> SUFFICES ASSUME TypeOK, [Next]_vars PROVE TypeOK'
  OBVIOUS
<1>1. CASE Next
  BY <1>1, StepCases, RunType, ScriptType, SaveType, CrashType
<1>2. CASE UNCHANGED vars
  BY <1>2 DEF vars, TypeOK
<1> QED BY <1>1, <1>2

\* Type correctness, for whatever a module declares and whatever its scripts do.
THEOREM SpawningTypes == Spec => []TypeOK
<1>1. Init => TypeOK
  BY InitType
<1>2. TypeOK /\ [Next]_vars => TypeOK'
  BY TypeNext
<1> QED BY <1>1, <1>2, PTL DEF Spec

(***************************************************************************)
(* Identity                                                                *)
(***************************************************************************)

LEMMA InitU == Init => UInv
<1> SUFFICES ASSUME Init PROVE UInv
  OBVIOUS
<1>1. \A i \in Ids : objs[i] = Absent /\ rows.objs[i] = Absent
  BY DEF Init
<1>2. \A s \in Spawners : spawner[s].count = 0 /\ rows.spawner[s].count = 0
  BY DEF Init
<1>3. dirty = {}
  BY DEF Init
<1> QED BY <1>1, <1>2, <1>3, IndexType DEF UInv, Ahead, RowsAhead, CountsAgree, SameObjects, MarkedExist

LEMMA QuietU ==
    ASSUME TypeOK, UInv, Quiet
    PROVE  UInv'
<1>1. \A i \in Ids : objs'[i] # Absent <=> objs[i] # Absent
  BY DEF Quiet
<1>2. Ahead'
  BY <1>1, IndexType DEF UInv, Ahead, Quiet
<1>3. RowsAhead'
  BY DEF UInv, RowsAhead, Quiet
<1>4. CountsAgree'
  BY DEF UInv, CountsAgree, Quiet
<1>5. SameObjects'
  BY <1>1 DEF UInv, SameObjects, Quiet
<1>6. MarkedExist'
  BY <1>1 DEF UInv, MarkedExist, Quiet
<1> QED BY <1>2, <1>3, <1>4, <1>5, <1>6 DEF UInv

\* The id a spawner takes is free, in the graph and in the table.
LEMMA FreshId ==
    ASSUME TypeOK, UInv, NEW s \in Spawners, spawner[s].count + 1 \in 1..MaxIndex
    PROVE  LET i == <<Def[s].base, spawner[s].count + 1>> IN objs[i] = Absent /\ rows.objs[i] = Absent
BY TypeCore DEF UInv, Ahead, RowsAhead, CountsAgree

LEMMA RunU ==
    ASSUME Distinct, TypeOK, UInv, NEW s \in Spawners, Run(s)
    PROVE  UInv'
<1>1. CASE Pass(s)
  <2>1. rows' = rows /\ objs' = objs /\ spawner' = spawner /\ dirty' = dirty \cup {s}
    BY <1>1 DEF Run, Pass
  <2>2. \A i \in Ids : i \in dirty' => i \in dirty
    BY <2>1, SpawningAssumption
  <2> QED BY <2>1, <2>2 DEF UInv, Ahead, RowsAhead, CountsAgree, SameObjects, MarkedExist
<1>2. CASE Fire(s)
  <2> DEFINE n == spawner[s].count + 1
             i == <<Def[s].base, n>>
  <2>0. PICK o \in Object : objs' = [objs EXCEPT ![i] = o]
    BY <1>2, FireShape
  <2>1. /\ n \in 1..MaxIndex /\ i \in Ids
        /\ dirty' = dirty \cup {i, s}
        /\ spawner'[s].count = n /\ \A t \in Spawners \ {s} : spawner'[t] = spawner[t]
        /\ objs' = [objs EXCEPT ![i] = o]
    BY <1>2, <2>0, FireShape
  <2>2. objs[i] = Absent /\ rows.objs[i] = Absent
    BY <2>1, FreshId
  <2>3. rows' = rows
    BY DEF Run
  <2>4. objs'[i] # Absent /\ \A j \in Ids \ {i} : objs'[j] = objs[j]
    BY <2>1, TypeCore, SpawningAssumption
  <2>5. ASSUME NEW t \in Spawners, NEW k \in 1..MaxIndex, objs'[<<Def[t].base, k>>] # Absent
        PROVE  k <= spawner'[t].count
    <3>1. CASE t = s
      <4>1. CASE k = n
        BY <2>1, <3>1, <4>1, TypeCore
      <4>2. CASE k # n
        <5>1. <<Def[t].base, k>> # i /\ <<Def[t].base, k>> \in Ids
          BY <3>1, <4>2, IndexType
        <5>2. k <= spawner[s].count
          BY <2>4, <2>5, <3>1, <5>1 DEF UInv, Ahead
        <5> QED BY <2>1, <3>1, <5>2, TypeCore
      <4> QED BY <4>1, <4>2
    <3>2. CASE t # s
      <4>1. <<Def[t].base, k>> # i /\ <<Def[t].base, k>> \in Ids
        BY <3>2, IndexType DEF Distinct
      <4> QED BY <2>1, <2>4, <2>5, <3>2, <4>1 DEF UInv, Ahead
    <3> QED BY <3>1, <3>2
  <2>6. Ahead'
    BY <2>5 DEF Ahead
  <2>7. RowsAhead'
    BY <2>3 DEF UInv, RowsAhead
  <2>8. CountsAgree'
    <3>1. ASSUME NEW t \in Spawners
          PROVE  rows'.spawner[t].count <= spawner'[t].count
                 /\ (t \notin dirty' => rows'.spawner[t].count = spawner'[t].count)
      <4>1. CASE t = s
        BY <2>1, <2>3, <4>1, TypeCore DEF UInv, CountsAgree
      <4>2. CASE t # s
        BY <2>1, <2>3, <4>2 DEF UInv, CountsAgree
      <4> QED BY <4>1, <4>2
    <3> QED BY <3>1 DEF CountsAgree
  <2>9. SameObjects'
    BY <2>2, <2>3, <2>4 DEF UInv, SameObjects
  <2>10. MarkedExist'
    BY <2>1, <2>4, SpawningAssumption DEF UInv, MarkedExist
  <2> QED BY <2>6, <2>7, <2>8, <2>9, <2>10 DEF UInv
<1> QED BY <1>1, <1>2 DEF Run

LEMMA SaveU ==
    ASSUME TypeOK, UInv, Save
    PROVE  UInv'
<1>1. objs' = objs /\ spawner' = spawner /\ dirty' = {}
  BY DEF Save
<1>2. \A i \in Ids : rows'.objs[i] = IF i \in dirty THEN objs[i] ELSE rows.objs[i]
  BY DEF Save
<1>3. \A s \in Spawners : rows'.spawner[s].count = spawner[s].count
  BY DEF Save, UInv, CountsAgree
<1>4. Ahead'
  BY <1>1 DEF UInv, Ahead
<1>5. ASSUME NEW s \in Spawners, NEW n \in 1..MaxIndex, rows'.objs[<<Def[s].base, n>>] # Absent
      PROVE  n <= rows'.spawner[s].count
  <2>1. <<Def[s].base, n>> \in Ids
    BY IndexType
  <2>2. n <= spawner[s].count
    BY <1>2, <1>5, <2>1, TypeCore DEF UInv, Ahead, RowsAhead, CountsAgree
  <2> QED BY <1>3, <2>2
<1>6. RowsAhead'
  BY <1>5 DEF RowsAhead
<1>7. CountsAgree'
  BY <1>1, <1>3, TypeCore DEF CountsAgree
<1>8. SameObjects'
  BY <1>1, <1>2 DEF UInv, SameObjects
<1>9. MarkedExist'
  BY <1>1 DEF MarkedExist
<1> QED BY <1>4, <1>6, <1>7, <1>8, <1>9 DEF UInv

LEMMA CrashU ==
    ASSUME TypeOK, UInv, Crash
    PROVE  UInv'
<1>1. rows' = rows /\ dirty' = {} /\ \A s \in Spawners : spawner'[s] = rows.spawner[s]
  BY DEF Crash, Bootstrapped
<1>2. \A i \in Ids : objs'[i] # Absent => objs'[i] = rows.objs[i]
  BY DEF Crash
<1> QED BY <1>1, <1>2, TypeCore, IndexType DEF UInv, Ahead, RowsAhead, CountsAgree, SameObjects, MarkedExist

LEMMA NoScripts == Distinct => ~(\E p \in Protos : SpawnItem(p)) /\ ~(\E s \in Spawners : SpawnNpc(s))
BY DEF Distinct, SpawnItem, SpawnNpc

LEMMA NextU == Distinct /\ TypeOK /\ UInv /\ [Next]_vars => UInv'
<1> SUFFICES ASSUME Distinct, TypeOK, UInv, [Next]_vars PROVE UInv'
  OBVIOUS
<1>1. CASE Next
  BY <1>1, StepCases, NoScripts, QuietU, RunU, SaveU, CrashU
<1>2. CASE UNCHANGED vars
  BY <1>2 DEF vars, UInv, Ahead, RowsAhead, CountsAgree, SameObjects, MarkedExist
<1> QED BY <1>1, <1>2

\* In the graph: only a spawner inserts, and it takes a fresh id.
LEMMA GraphStep ==
    ASSUME Distinct, TypeOK, UInv, [Next]_vars,
           NEW i \in Ids, Active(i), objs'[i] # Absent
    PROVE  objs'[i].who = objs[i].who
<1>1. objs[i] # Absent
  BY DEF Active
<1>2. CASE UNCHANGED objs
  BY <1>2
<1>3. CASE Quiet
  BY <1>3 DEF Quiet
<1>4. ASSUME NEW s \in Spawners, Run(s) PROVE objs'[i].who = objs[i].who
  <2>1. CASE Pass(s)
    BY <2>1 DEF Pass
  <2>2. CASE Fire(s)
    <3> DEFINE j == <<Def[s].base, spawner[s].count + 1>>
    <3>1. objs[j] = Absent /\ j \in Ids /\ \E o \in Object : objs' = [objs EXCEPT ![j] = o]
      BY <2>2, FireShape, FreshId
    <3>2. i # j
      BY <1>1, <3>1
    <3> HIDE DEF j
    <3> QED BY <3>1, <3>2, TypeCore
  <2> QED BY <1>4, <2>1, <2>2 DEF Run
<1>5. CASE Save
  BY <1>5 DEF Save
<1>6. CASE Crash
  <2>1. objs'[i] = rows.objs[i] /\ rows.objs[i] # Absent
    BY <1>6 DEF Crash
  <2> QED BY <1>1, <2>1 DEF UInv, SameObjects
<1> QED BY <1>2, <1>3, <1>4, <1>5, <1>6, StepCases, NoScripts DEF vars

\* In the table: a batch writes over a row only what became of its object.
LEMMA TableStep ==
    ASSUME Distinct, TypeOK, UInv, [Next]_vars,
           NEW i \in Ids, rows.objs[i] # Absent
    PROVE  rows'.objs[i] # Absent /\ rows'.objs[i].who = rows.objs[i].who
<1>1. CASE rows' = rows
  BY <1>1
<1>2. CASE Save
  <2>1. rows'.objs[i] = IF i \in dirty THEN objs[i] ELSE rows.objs[i]
    BY <1>2 DEF Save
  <2> QED BY <2>1 DEF UInv, SameObjects, MarkedExist
<1>3. rows' = rows \/ Save
  BY StepCases, NoScripts DEF vars, Quiet, Run, Crash
<1> QED BY <1>1, <1>2, <1>3

\* With distinct bases and no script that spawns, nothing is ever inserted
\* under the id of a living object, and no row of the table ever becomes
\* another object's, through any saves and crashes.
THEOREM Identity == ASSUME Distinct PROVE Spec => IdentityKept
<1>1. Init => TypeOK /\ UInv
  BY InitType, InitU
<1>2. (TypeOK /\ UInv) /\ [Next]_vars => (TypeOK /\ UInv)'
  BY TypeNext, NextU
<1>3. (TypeOK /\ UInv) /\ [Next]_vars => [IdsStay /\ RowsStay]_vars
  BY GraphStep, TableStep DEF IdsStay, RowsStay
<1> QED BY <1>1, <1>2, <1>3, PTL DEF Spec, IdentityKept

(***************************************************************************)
(* What is saved                                                           *)
(***************************************************************************)

\* The event in progress is one that its host knows.
EventKnown ==
    now.event # "on_enter" =>
        /\ now.host \in Hosts /\ HostEvent[now.host] = now.event
        /\ now.event = "on_break" => "break" \in Ops

SpawnersMarked == \A s \in Spawners \ dirty : spawner[s] = rows.spawner[s]
TicksMarked == \A r \in Rooms \ dirty : tick[r] = rows.tick[r]
HostsMarked == \A h \in Hosts \ dirty : h \in intact <=> h \in rows.intact

BooksMarked == EventKnown /\ SpawnersMarked /\ TicksMarked /\ HostsMarked

\* An object that is not marked is as in its row, or was left behind by a
\* start, which skips what is soft-deleted.
ObjectsMarked == \A i \in Ids \ dirty :
    IF objs[i] = Absent THEN rows.objs[i] # Absent => ~rows.objs[i].active ELSE objs[i] = rows.objs[i]

\* What a step between saves leaves unmarked it leaves alone: the books, ...
BooksKept ==
    /\ rows' = rows
    /\ \A x \in dirty : x \in dirty'
    /\ \A s \in Spawners : s \notin dirty' => spawner'[s] = spawner[s]
    /\ \A r \in Rooms : r \notin dirty' => tick'[r] = tick[r]
    /\ \A h \in Hosts : h \notin dirty' => (h \in intact' <=> h \in intact)

\* ... and the objects.
ObjectsKept == \A i \in Ids : i \notin dirty' => objs'[i] = objs[i]

\* No creature spawner is attached to a thing that can be broken.  Where one
\* is, the creatures that go with it are deleted and not marked (README,
\* "Disagreements").
NoNestBreaks ==
    \A s \in Spawners :
        Def[s].kind = "creature" /\ Def[s].target \in Hosts /\ "break" \in Ops =>
            HostEvent[Def[s].target] # "on_break"

\* A spawner's turn.
LEMMA RunMarks ==
    ASSUME TypeOK, NEW s \in Spawners, Run(s)
    PROVE  BooksKept /\ ObjectsKept /\ now'.event = now.event /\ now'.host = now.host
<1>1. /\ UNCHANGED <<tick, intact, rows>> /\ now'.event = now.event /\ now'.host = now.host
  <2>1. now \in Happening
    BY DEF Run, TypeOK, Idle
  <2>2. QED BY <2>1 DEF Run, Happening
<1>2. CASE Pass(s)
  BY <1>1, <1>2 DEF Pass, BooksKept, ObjectsKept
<1>3. CASE Fire(s)
  <2> DEFINE i == <<Def[s].base, spawner[s].count + 1>>
  <2>1. /\ i \in Ids /\ dirty' = dirty \cup {i, s}
        /\ \A t \in Spawners \ {s} : spawner'[t] = spawner[t]
        /\ \E o \in Object : objs' = [objs EXCEPT ![i] = o]
    BY <1>3, FireShape
  <2> HIDE DEF i
  <2>2. \A j \in Ids : j # i => objs'[j] = objs[j]
    BY <2>1, TypeCore
  <2>3. QED BY <1>1, <2>1, <2>2 DEF BooksKept, ObjectsKept
<1>4. QED BY <1>2, <1>3 DEF Run

\* What a script spawns.
LEMMA ScriptMarks ==
    ASSUME TypeOK, Script
    PROVE  BooksKept /\ ObjectsKept /\ now' = now
<1>1. /\ UNCHANGED <<spawner, tick, intact, rows, now>>
      /\ \E i, o : objs' = [objs EXCEPT ![i] = o] /\ dirty' = dirty \cup {i}
  BY DEF Script, SpawnItem, SpawnNpc, Insert
<1>2. PICK i, o : objs' = [objs EXCEPT ![i] = o] /\ dirty' = dirty \cup {i}
  BY <1>1
<1>3. \A j \in Ids : j # i => objs'[j] = objs[j]
  BY <1>2, TypeCore
<1>4. QED BY <1>1, <1>2, <1>3 DEF BooksKept, ObjectsKept

\* Take, drop, use and kill.
LEMMA BecomeMarks ==
    ASSUME TypeOK, NEW i \in Ids, NEW o, Become(i, o)
    PROVE  BooksKept /\ ObjectsKept /\ now' = now
<1>1. \A j \in Ids : j # i => objs'[j] = objs[j]
  BY TypeCore DEF Become
<1>2. QED BY <1>1 DEF Become, BooksKept, ObjectsKept

\* The start of an event.
LEMMA StartMarks ==
    ASSUME TypeOK, (\E r \in Rooms : Enter(r)) \/ (\E h \in Hosts : Happen(h)) \/ Stop
    PROVE  BooksKept /\ ObjectsKept /\ (EventKnown => EventKnown')
<1>1. ASSUME NEW r \in Rooms, Enter(r) PROVE BooksKept /\ ObjectsKept /\ EventKnown'
  <2>1. \A q \in Rooms : q # r => tick'[q] = tick[q]
    BY <1>1 DEF Enter, AdvanceTick, TypeOK
  <2>2. QED BY <1>1, <2>1 DEF Enter, MarkTick, BooksKept, ObjectsKept, EventKnown
<1>2. ASSUME NEW h \in Hosts, Happen(h) PROVE BooksKept /\ ObjectsKept /\ EventKnown'
  BY <1>2 DEF Happen, BooksKept, ObjectsKept, EventKnown
<1>3. ASSUME Stop PROVE BooksKept /\ ObjectsKept /\ (EventKnown => EventKnown')
  <2>1. now \in Happening
    BY <1>3 DEF Stop, JobsDue, TypeOK, Idle
  <2>2. now'.event = now.event /\ now'.host = now.host
    BY <1>3, <2>1 DEF Stop, Happening
  <2>3. QED BY <1>3, <2>2 DEF Stop, BooksKept, ObjectsKept, EventKnown
<1>4. QED BY <1>1, <1>2, <1>3

\* The end of an event.
LEMMA EndMarks ==
    ASSUME TypeOK, EventKnown, LeaveRoom \/ LeaveHost \/ BreakHost
    PROVE  BooksKept /\ EventKnown' /\ (NoNestBreaks => ObjectsKept)
<1>1. EventKnown' /\ rows' = rows
  BY DEF LeaveRoom, LeaveHost, BreakHost, EventKnown, Idle
<1>2. CASE LeaveRoom
  BY <1>1, <1>2, TypeCore DEF LeaveRoom, BooksKept, ObjectsKept
<1>3. CASE LeaveHost
  BY <1>1, <1>3 DEF LeaveHost, BooksKept, ObjectsKept
<1>4. CASE BreakHost
  <2> DEFINE gone == CreatureSpawnersOf(now.host)
  <2>1. /\ objs' = [i \in Ids |-> IF i \in SpawnsOf(gone) THEN [objs[i] EXCEPT !.active = FALSE] ELSE objs[i]]
        /\ spawner' = [s \in Spawners |-> IF s \in gone THEN [spawner[s] EXCEPT !.active = FALSE] ELSE spawner[s]]
        /\ dirty' = dirty \cup gone \cup {now.host} /\ intact' = intact \ {now.host} /\ tick' = tick
    BY <1>4 DEF BreakHost
  <2>2. ASSUME NoNestBreaks PROVE SpawnsOf(gone) = {}
    <3>1. now.host \in Hosts /\ HostEvent[now.host] = "on_break" /\ "break" \in Ops
      BY <1>4 DEF BreakHost, EventKnown
    <3>2. gone = {}
      BY <2>2, <3>1 DEF NoNestBreaks, CreatureSpawnersOf
    <3>3. QED BY <3>2 DEF SpawnsOf
  <2> HIDE DEF gone
  <2>3. QED BY <1>1, <2>1, <2>2 DEF BooksKept, ObjectsKept
<1>5. QED BY <1>2, <1>3, <1>4

\* A step of a process that runs marks what it changes.
LEMMA StepMarks ==
    ASSUME TypeOK, EventKnown, Next
    PROVE  \/ BooksKept /\ EventKnown' /\ (NoNestBreaks => ObjectsKept)
           \/ Save
           \/ Crash
<1>1. ASSUME NEW i \in Ids, Take(i) \/ Use(i) \/ Kill(i) \/ (\E r \in Rooms : DropIn(i, r))
      PROVE  BooksKept /\ ObjectsKept /\ now' = now
  <2>1. \E o : Become(i, o)
    BY <1>1 DEF Take, Use, Kill, DropIn
  <2>2. QED BY <2>1, BecomeMarks
<1>2. now' = now => EventKnown'
  BY DEF EventKnown
<1>3. ASSUME NEW s \in Spawners, Run(s) PROVE BooksKept /\ ObjectsKept /\ EventKnown'
  BY <1>3, RunMarks DEF EventKnown
<1>4. QED BY <1>1, <1>2, <1>3, StartMarks, EndMarks, ScriptMarks DEF Next

\* The rows after a save, and the graph after a start.
LEMMA SavedRows ==
    ASSUME TypeOK, Save
    PROVE  /\ \A i \in Ids : rows'.objs[i] = IF i \in dirty THEN objs[i] ELSE rows.objs[i]
           /\ \A s \in Spawners : rows'.spawner[s] = IF s \in dirty THEN spawner[s] ELSE rows.spawner[s]
           /\ \A r \in Rooms : rows'.tick[r] = IF r \in dirty THEN tick[r] ELSE rows.tick[r]
           /\ \A h \in Hosts : h \in rows'.intact <=> IF h \in dirty THEN h \in intact ELSE h \in rows.intact
           /\ dirty' = {} /\ UNCHANGED <<objs, spawner, tick, intact, now>>
           /\ now = Idle
BY DEF Save

\* The books are marked whatever happens.
LEMMA BooksNext == TypeOK /\ BooksMarked /\ [Next]_vars => BooksMarked'
<1> SUFFICES ASSUME TypeOK, BooksMarked, [Next]_vars PROVE BooksMarked'
  OBVIOUS
<1>1. CASE BooksKept /\ EventKnown'
  BY <1>1 DEF BooksMarked, BooksKept, SpawnersMarked, TicksMarked, HostsMarked
<1>2. CASE Save
  <2>1. EventKnown'
    BY <1>2, SavedRows DEF EventKnown, BooksMarked
  <2>2. QED BY <1>2, <2>1, SavedRows DEF BooksMarked, SpawnersMarked, TicksMarked, HostsMarked
<1>3. CASE Crash
  BY <1>3 DEF Crash, Bootstrapped, Idle, BooksMarked, EventKnown, SpawnersMarked, TicksMarked, HostsMarked
<1>4. CASE UNCHANGED vars
  BY <1>4 DEF vars, BooksMarked, EventKnown, SpawnersMarked, TicksMarked, HostsMarked
<1>5. QED BY <1>1, <1>2, <1>3, <1>4, StepMarks DEF BooksMarked

\* The objects are marked where no nest of creatures is broken.
LEMMA ObjectsNext ==
    ASSUME NoNestBreaks
    PROVE  TypeOK /\ BooksMarked /\ ObjectsMarked /\ [Next]_vars => ObjectsMarked'
<1> SUFFICES ASSUME TypeOK, BooksMarked, ObjectsMarked, [Next]_vars PROVE ObjectsMarked'
  OBVIOUS
<1>1. CASE BooksKept /\ ObjectsKept
  BY <1>1 DEF ObjectsMarked, BooksKept, ObjectsKept
<1>2. CASE Save
  BY <1>2, SavedRows DEF ObjectsMarked
<1>3. CASE Crash
  BY <1>3 DEF Crash, ObjectsMarked
<1>4. CASE UNCHANGED vars
  BY <1>4 DEF vars, ObjectsMarked
<1>5. QED BY <1>1, <1>2, <1>3, <1>4, StepMarks DEF BooksMarked

\* A new module is saved as it is.
LEMMA MarkedInit == Init => BooksMarked /\ ObjectsMarked
BY DEF Init, Idle, BooksMarked, EventKnown, SpawnersMarked, TicksMarked, HostsMarked, ObjectsMarked

\* Between events and within them, whatever differs from its row is marked
\* for the next save, through any saves and crashes: objects, spawn counts,
\* ticks, and what was broken or killed.
THEOREM ChangesAreMarked ==
    ASSUME NoNestBreaks
    PROVE  Spec => []ChangesMarked
<1>1. BooksMarked /\ ObjectsMarked => ChangesMarked
  BY DEF BooksMarked, SpawnersMarked, TicksMarked, HostsMarked, ObjectsMarked, ChangesMarked
<1>2. QED BY <1>1, InitType, TypeNext, MarkedInit, BooksNext, ObjectsNext, PTL DEF Spec

(***************************************************************************)
(* Spawners that are gone, and timers                                      *)
(***************************************************************************)

\* Only a spawner's turn and the end of what it is attached to change spawners.
LEMMA SpawnerChanges ==
    ASSUME [Next]_vars, ~Crash
    PROVE  spawner' = spawner \/ (\E t \in Spawners : Run(t) /\ Fire(t)) \/ BreakHost
<1>1. ASSUME NEW t \in Spawners, Run(t), Pass(t) PROVE spawner' = spawner
  BY <1>1 DEF Pass
<1>2. (\E r \in Rooms : Enter(r)) \/ (\E h \in Hosts : Happen(h)) \/ Stop \/ Script \/ LeaveRoom \/ LeaveHost \/ Save
        => spawner' = spawner
  BY DEF Enter, Happen, Stop, Script, SpawnItem, SpawnNpc, LeaveRoom, LeaveHost, Save
<1>3. (\E i \in Ids : Take(i) \/ Use(i) \/ Kill(i) \/ (\E r \in Rooms : DropIn(i, r))) => spawner' = spawner
  BY DEF Take, Use, Kill, DropIn, Become
<1>4. CASE UNCHANGED vars
  BY <1>4 DEF vars
<1>5. CASE \E t \in Spawners : Run(t)
  BY <1>1, <1>5 DEF Run
<1>6. CASE Next /\ ~(\E t \in Spawners : Run(t))
  BY <1>2, <1>3, <1>6 DEF Next
<1>7. QED BY <1>4, <1>5, <1>6

\* Nothing but a start activates a spawner, and counts come from firing.
LEMMA SpawnerSteps ==
    ASSUME TypeOK, [Next]_vars, ~Crash, NEW s \in Spawners
    PROVE  /\ spawner'[s].active => spawner[s].active
           /\ spawner'[s].count = spawner[s].count \/ (Run(s) /\ Fire(s))
<1>1. \A t \in Spawners : spawner[t] \in SpawnerState
  BY DEF TypeOK
<1>2. CASE spawner' = spawner
  BY <1>2
<1>3. ASSUME NEW t \in Spawners, Run(t), Fire(t)
      PROVE  /\ spawner'[s].active => spawner[s].active
             /\ spawner'[s].count = spawner[s].count \/ (Run(s) /\ Fire(s))
  <2>1. PICK fired \in BOOLEAN : spawner' = With(t, SpawnIndex(t), fired)
    BY <1>3, FireCases
  <2>2. s # t => spawner'[s] = spawner[s]
    BY <2>1 DEF With, TypeOK
  <2>3. s = t => spawner'[s].active = spawner[s].active
    BY <2>1 DEF With, TypeOK
  <2>4. QED BY <1>3, <2>2, <2>3
<1>4. CASE BreakHost
  <2> DEFINE gone == CreatureSpawnersOf(now.host)
  <2>1. spawner'[s] = IF s \in gone THEN [spawner[s] EXCEPT !.active = FALSE] ELSE spawner[s]
    BY <1>4 DEF BreakHost
  <2>2. [spawner[s] EXCEPT !.active = FALSE].count = spawner[s].count
        /\ ~[spawner[s] EXCEPT !.active = FALSE].active
    BY <1>1 DEF SpawnerState
  <2> HIDE DEF gone
  <2>3. QED BY <2>1, <2>2
<1>5. QED BY <1>2, <1>3, <1>4, SpawnerChanges

\* A spawner whose end was saved stays gone, through every start: hydration
\* finds its row, deleted as it is, and bootstrap makes none anew.
THEOREM DestroyedStays == Spec => []DestroyedForGood
<1>1. Init => DestroyedForGood
  BY DEF Init, DestroyedForGood
<1>2. TypeOK /\ DestroyedForGood /\ [Next]_vars => DestroyedForGood'
  <2> SUFFICES ASSUME TypeOK, DestroyedForGood, [Next]_vars, NEW s \in Spawners, ~rows'.spawner[s].active
               PROVE  ~spawner'[s].active
    BY DEF DestroyedForGood
  <2>1. CASE Crash
    BY <2>1 DEF Crash, Bootstrapped
  <2>2. CASE Save
    BY <2>2, SavedRows DEF DestroyedForGood
  <2>3. CASE ~Crash /\ ~Save
    <3>1. rows' = rows
      BY <2>3 DEF vars, Next, Enter, Happen, Stop, Run, Script, SpawnItem, SpawnNpc, LeaveRoom, LeaveHost, BreakHost,
                  Take, Use, Kill, DropIn, Become
    <3>2. QED BY <2>3, <3>1, SpawnerSteps DEF DestroyedForGood
  <2>4. QED BY <2>1, <2>2, <2>3
<1>3. QED BY <1>1, <1>2, InitType, TypeNext, PTL DEF Spec

\* An interval is over: the next spawn is still within the entries.
LEMMA IntervalOver ==
    ASSUME NEW c \in Nat, NEW t \in Nat, NEW i \in Nat \ {0}, c * i < t, t % i = 0
    PROVE  (c + 1) * i <= t
<1>1. \A m \in Nat : \A k \in Nat \ {0} : m % k = 0 => \E q \in Nat : m = k * q
  BY ONLY SMTT(30)
<1> PICK q \in Nat : t = i * q
  BY <1>1
<1>2. c < q
  <2>1. CASE q <= c
    <3>1. i * q <= i * c
      BY <2>1
    <3>2. QED BY <3>1
  <2>2. QED BY <2>1
<1>3. c + 1 <= q
  BY <1>2
<1>4. i * (c + 1) <= i * q
  BY <1>3
<1>5. QED BY <1>4

Room(s) == RoomOf(Def[s].target)
Timer(s) == Def[s].trigger = "timer"

\* A timer that has yet to have its turn has not had it for this entry.
Waiting ==
    \A s \in Spawners :
        /\ s \in now.todo /\ Def[s].kind = "creature" => now.event = "on_enter"
        /\ s \in now.todo /\ now.event = "on_enter" /\ Timer(s) => spawner[s].count * Def[s].interval < tick[Room(s)]

Paced == \A s \in Spawners : Timer(s) => spawner[s].count * Def[s].interval <= tick[Room(s)]
RowsPaced == \A s \in Spawners : Timer(s) => rows.spawner[s].count * Def[s].interval <= rows.tick[Room(s)]

\* The types of what a timer counts with.
LEMMA TimerTypes ==
    ASSUME TypeOK, NEW s \in Spawners
    PROVE  /\ Room(s) \in Rooms /\ Def[s].interval \in Nat \ {0}
           /\ Def[s].kind \in Kinds
           /\ spawner[s].count \in Nat /\ rows.spawner[s].count \in Nat
           /\ tick[Room(s)] \in Nat /\ rows.tick[Room(s)] \in Nat
<1>1. Room(s) \in Rooms /\ Def[s].interval \in Nat \ {0} /\ Def[s].kind \in Kinds
  BY SpawningAssumption, RoomOfHost DEF SpawnerDef, Room
<1>2. tick \in [Rooms -> Nat] /\ rows.tick \in [Rooms -> Nat]
  BY DEF TypeOK
<1>3. QED BY <1>1, <1>2, TypeCore

\* A timer that fires is due in this entry.
LEMMA FiresOnTime ==
    ASSUME TypeOK, Waiting, NEW s \in Spawners, Timer(s), Run(s), Fire(s)
    PROVE  spawner'[s].count * Def[s].interval <= tick[Room(s)]
<1>1. s \in now.todo /\ now.event \in Events
  <2>1. now \in Happening
    BY DEF Run, TypeOK, Idle
  <2>2. QED BY <2>1 DEF Run, Happening
<1>2. now.event = "on_enter"
  <2>1. CASE Def[s].kind = "creature"
    BY <1>1, <2>1 DEF Waiting
  <2>2. CASE Def[s].kind # "creature"
    BY <1>1, <2>2 DEF Fire, FireCreature, FireLoot, FireResource, LootFires, ResourceFires, LootTriggers,
       ResourceTriggers, Timer, Events
  <2>3. QED BY <2>1, <2>2
<1>3. tick[Room(s)] % Def[s].interval = 0
  BY DEF Fire, FireCreature, FireLoot, FireResource, CreatureFires, LootFires, ResourceFires, OnTime, Timer,
     PeriodicFires, Room
<1>4. spawner[s].count * Def[s].interval < tick[Room(s)]
  BY <1>1, <1>2 DEF Waiting
<1>5. spawner'[s].count = spawner[s].count + 1
  BY FireShape
<1> DEFINE c == spawner[s].count
           i == Def[s].interval
           t == tick[Room(s)]
<1>6. c \in Nat /\ i \in Nat \ {0} /\ t \in Nat
  BY TimerTypes
<1> HIDE DEF c, i, t
<1>7. c * i < t /\ t % i = 0
  BY <1>3, <1>4 DEF c, i, t
<1>8. (c + 1) * i <= t
  BY <1>6, <1>7, IntervalOver
<1>9. QED BY <1>5, <1>8 DEF c, i, t

\* Who is told of an entry is in that room.
LEMMA ToldInRoom ==
    ASSUME TypeOK, NEW r \in Rooms, NEW s \in Subscribed(r, "on_enter")
    PROVE  Room(s) = r
<1>1. CASE Def[s].target = r
  BY <1>1 DEF Room, RoomOf
<1>2. CASE \E h \in intact : HostRoom[h] = r /\ s \in CreatureSpawnersOf(h)
  <2>1. PICK h \in intact : HostRoom[h] = r /\ Def[s].target = h
    BY <1>2 DEF CreatureSpawnersOf
  <2>2. s \in Spawners /\ Def[s].target \in Rooms \cup Hosts
    BY SpawningAssumption, SubscribersType DEF SpawnerDef
  <2>3. QED BY <1>1, <2>1, <2>2, SpawningAssumption DEF Room, RoomOf, TypeOK
<1>3. QED BY <1>1, <1>2 DEF Subscribed, CreaturesOn, CreatureSpawnersIn, CreatureSpawnersOf, LootSpawnersOf,
      ResourceSpawnersOf

\* An entry gives the timers of the room their turn.
LEMMA EnterPaced ==
    ASSUME TypeOK, Paced, NEW r \in Rooms, Enter(r)
    PROVE  Waiting' /\ Paced'
<1>1. /\ spawner' = spawner /\ now'.event = "on_enter" /\ now'.todo = Subscribed(r, "on_enter")
      /\ tick'[r] = tick[r] + 1 /\ \A q \in Rooms : q # r => tick'[q] = tick[q]
  BY DEF Enter, AdvanceTick, TypeOK
<1>2. ASSUME NEW s \in Spawners, Timer(s)
      PROVE  /\ spawner'[s].count * Def[s].interval <= tick'[Room(s)]
             /\ s \in now'.todo => spawner'[s].count * Def[s].interval < tick'[Room(s)]
  <2> DEFINE m == spawner[s].count * Def[s].interval
  <2>1. m \in Nat /\ m <= tick[Room(s)]
    BY <1>2, TimerTypes DEF Paced
  <2>2. spawner'[s].count * Def[s].interval = m
    BY <1>1
  <2>3. tick[Room(s)] \in Nat /\ Room(s) \in Rooms
    BY TimerTypes
  <2> HIDE DEF m
  <2>4. s \in now'.todo => Room(s) = r
    BY <1>1, ToldInRoom
  <2>5. QED BY <1>1, <2>1, <2>2, <2>3, <2>4
<1>3. QED BY <1>1, <1>2 DEF Waiting, Paced

\* An event of a host has no timers and no creatures.
LEMMA HappenWaiting ==
    ASSUME NEW h \in Hosts, Happen(h)
    PROVE  Waiting'
<1>1. now'.event # "on_enter" /\ now'.todo = Subscribed(h, HostEvent[h]) /\ now'.event = HostEvent[h]
  BY SpawningAssumption DEF Happen, Events
<1>2. \A s \in now'.todo : Def[s].kind # "creature"
  BY <1>1 DEF Subscribed, CreaturesOn, LootSpawnersOf, ResourceSpawnersOf
<1>3. QED BY <1>1, <1>2 DEF Waiting

\* A spawner's turn keeps the pace.
LEMMA RunPaced ==
    ASSUME TypeOK, Waiting, Paced, NEW s \in Spawners, Run(s)
    PROVE  Waiting' /\ Paced'
<1>1. /\ tick' = tick /\ now'.event = now.event /\ now'.todo = now.todo \ {s}
      /\ \A t \in Spawners : t # s => spawner'[t].count = spawner[t].count
      /\ spawner'[s].count = spawner[s].count \/ Fire(s)
  <2>1. now \in Happening
    BY DEF Run, TypeOK, Idle
  <2>2. now'.event = now.event /\ now'.todo = now.todo \ {s} /\ tick' = tick
    BY <2>1 DEF Run, Happening
  <2>3. CASE Fire(s)
    BY <2>2, <2>3, FireShape
  <2>4. CASE Pass(s)
    BY <2>2, <2>4 DEF Pass
  <2>5. QED BY <2>3, <2>4 DEF Run
<1>2. ASSUME NEW t \in Spawners, Timer(t) PROVE spawner'[t].count * Def[t].interval <= tick[Room(t)]
  <2>1. CASE t = s /\ Fire(s)
    BY <1>2, <2>1, FiresOnTime
  <2>2. CASE spawner'[t].count = spawner[t].count
    BY <1>2, <2>2 DEF Paced
  <2>3. QED BY <1>1, <2>1, <2>2
<1>3. QED BY <1>1, <1>2 DEF Waiting, Paced

\* What saves and starts do to the pace.
LEMMA SavePaced ==
    ASSUME TypeOK, BooksMarked, Paced, RowsPaced, Save \/ Crash
    PROVE  Waiting' /\ Paced' /\ RowsPaced'
<1>1. CASE Crash
  BY <1>1 DEF Crash, Bootstrapped, Idle, Waiting, Paced, RowsPaced
<1>2. CASE Save
  <2>1. Waiting' /\ Paced'
    BY <1>2, SavedRows DEF Waiting, Paced, Idle
  <2>2. ASSUME NEW s \in Spawners, Timer(s)
        PROVE  rows'.spawner[s].count * Def[s].interval <= rows'.tick[Room(s)]
    <3>1. rows'.spawner[s] = spawner[s]
      BY <1>2, SavedRows DEF BooksMarked, SpawnersMarked
    <3>2. rows'.tick[Room(s)] = tick[Room(s)]
      BY <1>2, SavedRows, TimerTypes DEF BooksMarked, TicksMarked
    <3>3. QED BY <2>2, <3>1, <3>2 DEF Paced
  <2>3. QED BY <2>1, <2>2 DEF RowsPaced
<1>3. QED BY <1>1, <1>2

\* Every step keeps the pace.
LEMMA PaceNext ==
    TypeOK /\ BooksMarked /\ Waiting /\ Paced /\ RowsPaced /\ [Next]_vars => (Waiting /\ Paced /\ RowsPaced)'
<1> SUFFICES ASSUME TypeOK, BooksMarked, Waiting, Paced, RowsPaced, [Next]_vars
             PROVE  Waiting' /\ Paced' /\ RowsPaced'
  OBVIOUS
<1>1. ASSUME UNCHANGED <<spawner, tick>>, now' = now \/ now'.todo = {} PROVE Waiting' /\ Paced'
  BY <1>1 DEF Waiting, Paced
<1>2. CASE UNCHANGED vars
  BY <1>1, <1>2 DEF vars, RowsPaced
<1>3. CASE Save \/ Crash
  BY <1>3, SavePaced
<1>4. ASSUME Next, ~Save, ~Crash PROVE RowsPaced'
  <2>1. rows' = rows
    BY <1>4, StepMarks DEF BooksMarked, BooksKept
  <2>2. QED BY <2>1 DEF RowsPaced
<1>5. ASSUME Stop \/ Script \/ LeaveRoom \/ LeaveHost PROVE Waiting' /\ Paced'
  <2>1. CASE Stop
    <3>1. UNCHANGED <<spawner, tick>> /\ now'.todo = {}
      <4>1. now \in Happening
        BY <2>1 DEF Stop, JobsDue, TypeOK, Idle
      <4>2. QED BY <2>1, <4>1 DEF Stop, Happening
    <3>2. QED BY <1>1, <3>1
  <2>2. CASE Script
    BY <1>1, <2>2 DEF Script, SpawnItem, SpawnNpc
  <2>3. CASE LeaveRoom \/ LeaveHost
    BY <1>1, <2>3 DEF LeaveRoom, LeaveHost, Idle
  <2>4. QED BY <1>5, <2>1, <2>2, <2>3
<1>6. ASSUME BreakHost PROVE Waiting' /\ Paced'
  <2>1. tick' = tick /\ now'.todo = {}
    BY <1>6 DEF BreakHost, Idle
  <2>2. ASSUME NEW s \in Spawners PROVE spawner'[s].count = spawner[s].count
    <3>1. spawner[s] \in SpawnerState
      BY DEF TypeOK
    <3>2. QED BY <1>6, <3>1 DEF BreakHost, SpawnerState
  <2>3. QED BY <2>1, <2>2 DEF Waiting, Paced
<1>7. ASSUME NEW i \in Ids, Take(i) \/ Use(i) \/ Kill(i) \/ (\E r \in Rooms : DropIn(i, r))
      PROVE  Waiting' /\ Paced'
  BY <1>1, <1>7 DEF Take, Use, Kill, DropIn, Become
<1>8. ASSUME NEW h \in Hosts, Happen(h) PROVE Waiting' /\ Paced'
  BY <1>8, HappenWaiting DEF Happen, Paced
<1>9. QED BY <1>2, <1>3, <1>4, <1>5, <1>6, <1>7, <1>8, EnterPaced, RunPaced DEF Next

\* A timer spawns once per interval of entries at most, over all runs of the
\* process: the spawn counts and the ticks in the table belong together,
\* because an entry and the spawns that it causes are marked together.
THEOREM TimersOnTime == Spec => []TimersKeepTime
<1>1. Init => Waiting /\ Paced /\ RowsPaced
  <2> SUFFICES ASSUME Init PROVE Waiting /\ Paced /\ RowsPaced
    OBVIOUS
  <2>1. now.todo = {}
    BY DEF Init, Idle
  <2>2. ASSUME NEW s \in Spawners
        PROVE  /\ spawner[s].count * Def[s].interval <= tick[Room(s)]
               /\ rows.spawner[s].count * Def[s].interval <= rows.tick[Room(s)]
    <3>1. TypeOK
      BY InitType
    <3>2. spawner[s].count = 0 /\ tick[Room(s)] = 0 /\ rows.spawner[s].count = 0 /\ rows.tick[Room(s)] = 0
      BY <3>1, TimerTypes DEF Init
    <3>3. QED BY <3>1, <3>2, TimerTypes
  <2>3. QED BY <2>1, <2>2 DEF Waiting, Paced, RowsPaced
<1>2. Paced /\ RowsPaced => TimersKeepTime
  BY DEF Paced, RowsPaced, TimersKeepTime, Timer, Room
<1>3. QED BY <1>1, <1>2, InitType, TypeNext, MarkedInit, BooksNext, PaceNext, PTL DEF Spec

(***************************************************************************)
(* Limits                                                                  *)
(***************************************************************************)

\* An object that is there after a step was there before and is the same
\* spawner's, or is a new spawn of that spawner, or of a script.
Same(i) ==
    /\ objs[i] # Absent /\ objs'[i].by = objs[i].by
    /\ objs'[i].active => objs[i].active
    /\ objs'[i].at \in {objs[i].at, Away} \/ "drop" \in Ops

SpawnedBy(s, i) ==
    Run(s) /\ Fire(s) /\ i = <<Def[s].base, spawner[s].count + 1>> /\ objs'[i].by = s

Scripted(i) ==
    \/ objs'[i].by \in Rooms \cup Hosts
    \/ "script_npc" \in Ops /\ objs'[i].by \in Spawners /\ Def[objs'[i].by].kind = "creature"

\* A spawner's turn leaves objects alone but for the one it spawns.
LEMMA RunObjects ==
    ASSUME TypeOK, NEW s \in Spawners, Run(s), NEW i \in Ids, objs'[i] # Absent
    PROVE  Same(i) \/ SpawnedBy(s, i)
<1>1. CASE Pass(s)
  BY <1>1 DEF Pass, Same
<1>2. CASE Fire(s)
  <2> DEFINE j == <<Def[s].base, spawner[s].count + 1>>
  <2>1. PICK place \in Places : Spawn(s, place)
    BY <1>2, FireCases
  <2>2. objs' = [objs EXCEPT ![j] = New(s, place)]
    BY <2>1 DEF Spawn, SpawnIndex, Insert
  <2> HIDE DEF j
  <2>3. CASE i = j
    <3>1. objs'[i].by = s
      BY <2>2, <2>3, TypeCore DEF New
    <3>2. QED BY <1>2, <2>3, <3>1 DEF SpawnedBy, j
  <2>4. CASE i # j
    BY <2>2, <2>4, TypeCore DEF Same
  <2>5. QED BY <2>3, <2>4
<1>3. QED BY <1>1, <1>2 DEF Run

\* What a script spawns is the host's, or a creature of a spawner.
LEMMA ScriptObjects ==
    ASSUME TypeOK, Script, NEW i \in Ids, objs'[i] # Absent
    PROVE  Same(i) \/ Scripted(i)
<1>1. now.host \in Rooms \cup Hosts
  <2>1. now.phase \in {"jobs", "run"}
    BY DEF Script, SpawnItem, SpawnNpc, Scripting, JobsDue
  <2>2. now \in Happening
    BY <2>1 DEF TypeOK, Idle
  <2>3. QED BY <2>2 DEF Happening
<1>2. ASSUME NEW j, NEW by, NEW at, Insert(j, New(by, at)) PROVE Same(i) \/ objs'[i].by = by
  <2>1. CASE i = j
    BY <1>2, <2>1, TypeCore DEF Insert, New
  <2>2. CASE i # j
    BY <1>2, <2>2, TypeCore DEF Insert, Same
  <2>3. QED BY <2>1, <2>2
<1>3. ASSUME NEW p \in Protos, SpawnItem(p) PROVE Same(i) \/ Scripted(i)
  <2>1. \E j, at : Insert(j, New(now.host, at))
    BY <1>3 DEF SpawnItem
  <2>2. QED BY <1>1, <1>2, <2>1 DEF Scripted
<1>4. ASSUME NEW s \in Spawners, SpawnNpc(s) PROVE Same(i) \/ Scripted(i)
  <2>1. \E j, at : Insert(j, New(s, at))
    BY <1>4 DEF SpawnNpc
  <2>2. Def[s].kind = "creature" /\ "script_npc" \in Ops
    BY <1>4 DEF SpawnNpc
  <2>3. QED BY <1>2, <2>1, <2>2 DEF Scripted
<1>5. QED BY <1>3, <1>4 DEF Script

\* What takes, uses, kills, lets flee and breaks keeps the rest.
LEMMA UsedObjects ==
    ASSUME TypeOK, NEW i \in Ids, objs'[i] # Absent,
           \/ \E j \in Ids : Take(j) \/ Use(j) \/ Kill(j) \/ (\E r \in Rooms : DropIn(j, r))
           \/ LeaveRoom \/ BreakHost
    PROVE  Same(i)
<1>1. objs[i] # Absent => objs[i] \in Object
  BY TypeCore
<1>2. ASSUME NEW j \in Ids, Take(j) \/ Use(j) \/ Kill(j) \/ (\E r \in Rooms : DropIn(j, r)) PROVE Same(i)
  <2>1. CASE i = j
    <3>1. objs[i] # Absent
      BY <1>2, <2>1 DEF Take, Use, Kill, DropIn, Active
    <3>2. CASE Take(j)
      BY <1>1, <2>1, <3>1, <3>2, TypeCore DEF Take, Become, Object, Same
    <3>3. CASE Use(j) \/ Kill(j)
      BY <1>1, <2>1, <3>1, <3>3, TypeCore DEF Use, Kill, Become, Object, Same
    <3>4. ASSUME NEW r \in Rooms, DropIn(j, r) PROVE Same(i)
      BY <1>1, <2>1, <3>1, <3>4, TypeCore DEF DropIn, Become, Object, Same
    <3>5. QED BY <1>2, <3>2, <3>3, <3>4
  <2>2. CASE i # j
    BY <1>2, <2>2, TypeCore DEF Take, Use, Kill, DropIn, Become, Same
  <2>3. QED BY <2>1, <2>2
<1>3. CASE LeaveRoom
  <2>1. PICK fled \in SUBSET Ids : objs' = [j \in Ids |-> IF j \in fled THEN [objs[j] EXCEPT !.at = Away] ELSE objs[j]]
                     /\ \A j \in fled : Active(j)
    BY <1>3 DEF LeaveRoom, Flee
  <2>2. CASE i \in fled
    BY <1>1, <2>1, <2>2 DEF Active, Object, Same
  <2>3. CASE i \notin fled
    BY <2>1, <2>3 DEF Same
  <2>4. QED BY <2>2, <2>3
<1>4. CASE BreakHost
  <2> DEFINE ended == SpawnsOf(CreatureSpawnersOf(now.host))
  <2>1. objs'[i] = IF i \in ended THEN [objs[i] EXCEPT !.active = FALSE] ELSE objs[i]
    BY <1>4 DEF BreakHost
  <2>2. i \in ended => objs[i] # Absent
    BY DEF SpawnsOf, Active
  <2> HIDE DEF ended
  <2>3. QED BY <1>1, <2>1, <2>2 DEF Object, Same
<1>5. QED BY <1>2, <1>3, <1>4

\* Where an object comes from, whatever the step.
LEMMA StepObjects ==
    ASSUME TypeOK, Next, ~Save, ~Crash, NEW i \in Ids, objs'[i] # Absent
    PROVE  Same(i) \/ Scripted(i) \/ \E s \in Spawners : SpawnedBy(s, i)
<1>1. (\E r \in Rooms : Enter(r)) \/ (\E h \in Hosts : Happen(h)) \/ Stop \/ LeaveHost => objs' = objs
  BY DEF Enter, Happen, Stop, LeaveHost
<1>2. objs' = objs => Same(i)
  BY DEF Same
<1>3. QED BY <1>1, <1>2, RunObjects, ScriptObjects, UsedObjects DEF Next

\* A spawner that fires once has one spawn, under its first id.
First(s) == <<Def[s].base, 1>>
OnceGraph(s) ==
    /\ \A i \in Ids : objs[i] # Absent /\ objs[i].by = s => i = First(s)
    /\ spawner[s].count > 0 => spawner[s].fired
OnceTable(s) ==
    /\ \A i \in Ids : rows.objs[i] # Absent /\ rows.objs[i].by = s => i = First(s)
    /\ rows.spawner[s].count > 0 => rows.spawner[s].fired
OnceInv == \A s \in Spawners : Def[s].once => OnceGraph(s) /\ OnceTable(s)

\* It has fired when it has a spawn.
LEMMA OnceFires ==
    ASSUME TypeOK, NEW s \in Spawners, Def[s].once, Run(s), Fire(s), OnceGraph(s)
    PROVE  spawner[s].count = 0 /\ spawner'[s].fired
<1>1. Def[s].kind # "creature"
  BY SpawningAssumption
<1>2. ~spawner[s].fired /\ spawner' = Fired(s)
  BY <1>1 DEF Fire, FireCreature, FireLoot, FireResource
<1>3. spawner[s].count = 0
  BY <1>2, TypeCore DEF OnceGraph
<1>4. spawner'[s].fired
  BY <1>2 DEF Fired, With, TypeOK
<1>5. QED BY <1>3, <1>4

\* Only firing sets the count, and nothing takes fired back.
LEMMA FiredStays ==
    ASSUME TypeOK, [Next]_vars, ~Crash, NEW s \in Spawners, spawner[s].fired
    PROVE  spawner'[s].fired
<1>1. \A t \in Spawners : spawner[t] \in SpawnerState
  BY DEF TypeOK
<1>2. CASE spawner' = spawner
  BY <1>2
<1>3. ASSUME NEW t \in Spawners, Run(t), Fire(t) PROVE spawner'[s].fired
  <2>1. PICK f \in BOOLEAN : spawner' = With(t, SpawnIndex(t), f) /\ (spawner[t].fired => f)
    <3>1. spawner' \in {Counted(t), Fired(t)}
      BY <1>3 DEF Fire, FireCreature, FireLoot, FireResource
    <3>2. spawner[t].fired \in BOOLEAN /\ (spawner[t].fired \/ Def[t].once) \in BOOLEAN
      BY <1>1 DEF SpawnerState
    <3>3. QED BY <3>1, <3>2 DEF Counted, Fired
  <2>2. s = t => spawner'[s].fired = f
    BY <2>1 DEF With, TypeOK
  <2>3. s # t => spawner'[s] = spawner[s]
    BY <2>1 DEF With, TypeOK
  <2>4. QED BY <2>1, <2>2, <2>3
<1>4. CASE BreakHost
  <2> DEFINE gone == CreatureSpawnersOf(now.host)
  <2>1. spawner'[s] = IF s \in gone THEN [spawner[s] EXCEPT !.active = FALSE] ELSE spawner[s]
    BY <1>4 DEF BreakHost
  <2> HIDE DEF gone
  <2>2. QED BY <1>1, <2>1 DEF SpawnerState
<1>5. QED BY <1>2, <1>3, <1>4, SpawnerChanges

\* Every step keeps once.
LEMMA OnceNext == TypeOK /\ BooksMarked /\ OnceInv /\ [Next]_vars => OnceInv'
<1> SUFFICES ASSUME TypeOK, BooksMarked, OnceInv, [Next]_vars, NEW s \in Spawners, Def[s].once
             PROVE  OnceGraph(s)' /\ OnceTable(s)'
  BY DEF OnceInv
<1>1. OnceGraph(s) /\ OnceTable(s)
  BY DEF OnceInv
<1>2. CASE UNCHANGED vars
  BY <1>1, <1>2 DEF vars, OnceGraph, OnceTable
<1>3. CASE Crash
  BY <1>1, <1>3 DEF Crash, Bootstrapped, OnceGraph, OnceTable
<1>4. CASE Save
  <2>1. OnceGraph(s)'
    BY <1>1, <1>4, SavedRows DEF OnceGraph
  <2>2. OnceTable(s)'
    BY <1>1, <1>4, SavedRows DEF OnceGraph, OnceTable
  <2>3. QED BY <2>1, <2>2
<1>5. CASE Next /\ ~Save /\ ~Crash
  <2>1. OnceTable(s)'
    <3>1. rows' = rows
      BY <1>5, StepMarks DEF BooksMarked, BooksKept
    <3>2. QED BY <1>1, <3>1 DEF OnceTable
  <2>2. spawner'[s].count > 0 => spawner'[s].fired
    <3>1. CASE Run(s) /\ Fire(s)
      BY <1>1, <3>1, OnceFires
    <3>2. CASE spawner'[s].count = spawner[s].count
      BY <1>1, <1>5, <3>2, FiredStays DEF OnceGraph
    <3>3. QED BY <1>5, <3>1, <3>2, SpawnerSteps
  <2>3. ASSUME NEW i \in Ids, objs'[i] # Absent, objs'[i].by = s PROVE i = First(s)
    <3>1. CASE Same(i)
      BY <1>1, <2>3, <3>1 DEF Same, OnceGraph
    <3>2. ~Scripted(i)
      <4>1. s \notin Rooms \cup Hosts /\ Def[s].kind # "creature"
        BY SpawningAssumption
      <4>2. QED BY <2>3, <4>1 DEF Scripted
    <3>3. ASSUME NEW t \in Spawners, SpawnedBy(t, i) PROVE i = First(s)
      <4>1. t = s /\ Run(s) /\ Fire(s) /\ i = <<Def[s].base, spawner[s].count + 1>>
        BY <2>3, <3>3 DEF SpawnedBy
      <4>2. spawner[s].count = 0
        BY <1>1, <4>1, OnceFires
      <4>3. QED BY <4>1, <4>2 DEF First
    <3>4. QED BY <1>5, <2>3, <3>1, <3>2, <3>3, StepObjects
  <2>4. QED BY <2>1, <2>2, <2>3 DEF OnceGraph
<1>6. QED BY <1>2, <1>3, <1>4, <1>5

\* One id is one spawn.
LEMMA OneOf ==
    ASSUME NEW S, NEW x, \A y \in S : y = x
    PROVE  Cardinality(S) <= 1
<1>1. CASE S = {}
  BY <1>1, FS_EmptySet
<1>2. CASE S # {}
  <2>1. S = {x}
    BY <1>2
  <2>2. QED BY <2>1, FS_Singleton
<1>3. QED BY <1>1, <1>2

\* What a module must do without for max_active to hold where a spawner puts
\* its spawns: scripts spawn creatures of a spawner unasked, and what was
\* carried away can be brought back.
Unaided == NoNestBreaks /\ Ops \cap {"drop", "script_npc"} = {}

PlaceOf(s) ==
    CASE Def[s].kind = "creature" -> CreaturePlace(s)
      [] Def[s].kind = "loot" -> LootPlace(s)
      [] Def[s].kind = "resource" -> ResourcePlace(s)

\* There(s) as a start would find it in the rows.
RowsThere(s) ==
    {i \in Ids : rows.objs[i] # Absent /\ rows.objs[i].active /\ rows.objs[i].by = s /\ rows.objs[i].at = PlaceOf(s)}

RowsBelowMax == \A s \in Spawners : Cardinality(RowsThere(s)) <= Def[s].max

\* What There(s) counts.
LEMMA ThereIs ==
    ASSUME NEW s \in Spawners
    PROVE  /\ There(s) = By(s, PlaceOf(s)) /\ PlaceOf(s) # Away
           /\ IsFiniteSet(Ids) /\ Def[s].max \in Nat
           /\ s \notin Rooms \cup Hosts
<1>1. Def[s].kind \in Kinds /\ Def[s].max \in Nat /\ Def[s].target \in Rooms \cup Hosts
  BY SpawningAssumption DEF SpawnerDef
<1>2. IsFiniteSet(Ids)
  <2>1. IsFiniteSet(1..MaxIndex)
    BY SpawningAssumption, FS_Interval, 1 \in Int, MaxIndex \in Int
  <2>2. QED BY <2>1, SpawningAssumption, FS_Product DEF Ids
<1>3. There(s) = By(s, PlaceOf(s))
  BY <1>1 DEF There, PlaceOf, CreaturesThere, LootThere, ResourcesThere, Kinds
<1>4. PlaceOf(s) # Away
  BY <1>1, RoomOfHost, SpawningAssumption DEF PlaceOf, CreaturePlace, LootPlace, ResourcePlace, Kinds
<1>5. QED BY <1>1, <1>2, <1>3, <1>4, SpawningAssumption

\* A spawner that fires is below its limit.
LEMMA FiresBelowMax ==
    ASSUME NEW s \in Spawners, Fire(s)
    PROVE  Cardinality(There(s)) < Def[s].max
BY DEF Fire, FireCreature, FireLoot, FireResource, BelowMax, There

\* Every step keeps max_active: only a spawner that fires adds to what it counts, and
\* what a save writes and a start finds was counted before.
LEMMA MaxNext ==
    ASSUME Unaided
    PROVE  TypeOK /\ BooksMarked /\ ObjectsMarked /\ MaxActiveThere /\ RowsBelowMax /\ [Next]_vars
             => MaxActiveThere' /\ RowsBelowMax'
<1> SUFFICES ASSUME TypeOK, BooksMarked, ObjectsMarked, MaxActiveThere, RowsBelowMax, [Next]_vars, NEW s \in Spawners
             PROVE  Cardinality(There(s)') <= Def[s].max /\ Cardinality(RowsThere(s)') <= Def[s].max
  BY DEF MaxActiveThere, RowsBelowMax
<1>1. /\ IsFiniteSet(There(s)) /\ IsFiniteSet(RowsThere(s)) /\ Def[s].max \in Nat
      /\ Cardinality(There(s)) \in Nat /\ Cardinality(RowsThere(s)) \in Nat
      /\ Cardinality(There(s)) <= Def[s].max /\ Cardinality(RowsThere(s)) <= Def[s].max
  <2>1. There(s) \subseteq Ids /\ RowsThere(s) \subseteq Ids
    BY ThereIs DEF By, RowsThere
  <2>2. QED BY <2>1, ThereIs, FS_Subset, FS_CardinalityType DEF MaxActiveThere, RowsBelowMax
<1>2. ASSUME NEW S, S \subseteq There(s) \/ S \subseteq RowsThere(s) PROVE Cardinality(S) <= Def[s].max
  <2>1. Cardinality(S) \in Nat
    BY <1>1, <1>2, FS_Subset, FS_CardinalityType
  <2>2. Cardinality(S) <= Cardinality(There(s)) \/ Cardinality(S) <= Cardinality(RowsThere(s))
    BY <1>1, <1>2, FS_Subset
  <2>3. QED BY <1>1, <2>1, <2>2
<1>3. There(s)' = {i \in Ids : objs'[i] # Absent /\ objs'[i].active /\ objs'[i].by = s /\ objs'[i].at = PlaceOf(s)}
  <2>1. Def[s].kind \in Kinds
    BY SpawningAssumption DEF SpawnerDef
  <2>2. CASE Def[s].kind = "creature"
    BY <2>2 DEF By, Active, There, CreaturesThere, PlaceOf, CreaturePlace, RoomOf
  <2>3. CASE Def[s].kind = "loot"
    BY <2>3 DEF By, Active, There, LootThere, PlaceOf, LootPlace, RoomOf
  <2>4. CASE Def[s].kind = "resource"
    BY <2>4 DEF By, Active, There, ResourcesThere, PlaceOf, ResourcePlace, RoomOf
  <2>5. QED BY <2>1, <2>2, <2>3, <2>4 DEF Kinds
<1>4. RowsThere(s)' = {i \in Ids : rows'.objs[i] # Absent /\ rows'.objs[i].active /\ rows'.objs[i].by = s
                                   /\ rows'.objs[i].at = PlaceOf(s)}
  BY DEF RowsThere, PlaceOf, CreaturePlace, LootPlace, ResourcePlace, RoomOf
<1>5. There(s) = {i \in Ids : objs[i] # Absent /\ objs[i].active /\ objs[i].by = s /\ objs[i].at = PlaceOf(s)}
  BY ThereIs DEF By, Active
<1>6. CASE UNCHANGED vars
  <2>1. There(s)' = There(s) /\ RowsThere(s)' = RowsThere(s)
    BY <1>3, <1>4, <1>5, <1>6 DEF vars, RowsThere
  <2>2. QED BY <1>1, <2>1
<1>7. CASE Crash
  <2>1. There(s)' \subseteq RowsThere(s) /\ RowsThere(s)' = RowsThere(s)
    BY <1>3, <1>4, <1>7 DEF Crash, RowsThere
  <2>2. QED BY <1>1, <1>2, <2>1
<1>8. CASE Save
  <2>1. There(s)' = There(s)
    BY <1>3, <1>5, <1>8, SavedRows
  <2>2. ASSUME NEW i \in RowsThere(s)' PROVE i \in There(s)
    <3>1. /\ i \in Ids /\ rows'.objs[i] # Absent /\ rows'.objs[i].active /\ rows'.objs[i].by = s
          /\ rows'.objs[i].at = PlaceOf(s)
      BY <1>4, <2>2
    <3>2. rows'.objs[i] = objs[i]
      BY <1>8, <3>1, SavedRows DEF ObjectsMarked
    <3>3. QED BY <1>5, <3>1, <3>2
  <2>3. QED BY <1>1, <1>2, <2>1, <2>2
<1>9. CASE Next /\ ~Save /\ ~Crash
  <2>1. RowsThere(s)' = RowsThere(s)
    <3>1. rows' = rows
      BY <1>9, StepMarks DEF BooksMarked, BooksKept
    <3>2. QED BY <1>4, <3>1 DEF RowsThere
  <2>2. ASSUME NEW i \in There(s)' PROVE i \in There(s) \/ SpawnedBy(s, i)
    <3>1. /\ i \in Ids /\ objs'[i] # Absent /\ objs'[i].active /\ objs'[i].by = s /\ objs'[i].at = PlaceOf(s)
      BY <1>3, <2>2
    <3>2. ~Scripted(i)
      BY <3>1, ThereIs DEF Scripted, Unaided
    <3>3. Same(i) => i \in There(s)
      BY <1>5, <3>1, ThereIs DEF Same, Unaided
    <3>4. \A t \in Spawners : SpawnedBy(t, i) => t = s
      BY <3>1 DEF SpawnedBy
    <3>5. QED BY <1>9, <3>1, <3>2, <3>3, <3>4, StepObjects
  <2>3. CASE \A i : ~SpawnedBy(s, i)
    BY <1>1, <1>2, <2>1, <2>2, <2>3
  <2>4. CASE \E i : SpawnedBy(s, i)
    <3> DEFINE j == <<Def[s].base, spawner[s].count + 1>>
    <3>1. Fire(s) /\ \A i : SpawnedBy(s, i) => i = j
      BY <2>4 DEF SpawnedBy
    <3> HIDE DEF j
    <3>2. There(s)' \subseteq There(s) \cup {j}
      BY <2>2, <3>1
    <3>3. IsFiniteSet(There(s) \cup {j}) /\ Cardinality(There(s) \cup {j}) \in Nat
          /\ Cardinality(There(s) \cup {j}) <= Cardinality(There(s)) + 1
      <4>1. /\ IsFiniteSet(There(s) \cup {j})
            /\ Cardinality(There(s) \cup {j}) = IF j \in There(s) THEN Cardinality(There(s)) ELSE Cardinality(There(s)) + 1
        BY <1>1, FS_AddElement
      <4>2. QED BY <1>1, <4>1
    <3>4. Cardinality(There(s)') \in Nat /\ Cardinality(There(s)') <= Cardinality(There(s) \cup {j})
      BY <3>2, <3>3, FS_Subset, FS_CardinalityType
    <3>5. Cardinality(There(s)) + 1 <= Def[s].max
      BY <1>1, <3>1, FiresBelowMax
    <3>6. QED BY <1>1, <2>1, <3>3, <3>4, <3>5
  <2>5. QED BY <2>3, <2>4
<1>10. QED BY <1>6, <1>7, <1>8, <1>9

\* The limits that a spawner is declared with: never more than max_active where
\* it puts its spawns, after any saves and crashes too; and a spawner that
\* fires once has one spawn in the graph and one in the table, whatever was
\* taken, used up or lost.
THEOREM LimitsHold ==
    ASSUME Unaided
    PROVE  Spec => []LimitsKept
<1>1. Init => OnceInv /\ MaxActiveThere /\ RowsBelowMax
  <2> SUFFICES ASSUME Init PROVE OnceInv /\ MaxActiveThere /\ RowsBelowMax
    OBVIOUS
  <2>1. \A i \in Ids : objs[i] = Absent /\ rows.objs[i] = Absent
    BY DEF Init
  <2>2. \A s \in Spawners : spawner[s].count = 0 /\ rows.spawner[s].count = 0
    BY DEF Init
  <2>3. OnceInv
    BY <2>1, <2>2 DEF OnceInv, OnceGraph, OnceTable
  <2>4. ASSUME NEW s \in Spawners PROVE There(s) = {} /\ RowsThere(s) = {} /\ Def[s].max \in Nat
    <3>1. RowsThere(s) = {}
      BY <2>1 DEF RowsThere
    <3>2. \A p : By(s, p) = {}
      BY <2>1 DEF By, Active
    <3>3. There(s) = By(s, PlaceOf(s)) /\ Def[s].max \in Nat
      BY ThereIs
    <3>4. QED BY <3>1, <3>2, <3>3
  <2>5. Cardinality({}) = 0
    BY FS_EmptySet
  <2>6. \A s \in Spawners : Cardinality(There(s)) <= Def[s].max /\ Cardinality(RowsThere(s)) <= Def[s].max
    BY <2>4, <2>5
  <2>7. QED BY <2>3, <2>6 DEF MaxActiveThere, RowsBelowMax
<1>2. OnceInv => OnceIsOnce
  <2> SUFFICES ASSUME OnceInv, NEW s \in Spawners, Def[s].once
               PROVE  /\ Cardinality({i \in Ids : objs[i] # Absent /\ objs[i].by = s}) <= 1
                      /\ Cardinality({i \in Ids : rows.objs[i] # Absent /\ rows.objs[i].by = s}) <= 1
    BY DEF OnceIsOnce
  <2> DEFINE S == {i \in Ids : objs[i] # Absent /\ objs[i].by = s}
             R == {i \in Ids : rows.objs[i] # Absent /\ rows.objs[i].by = s}
  <2>1. (\A i \in S : i = First(s)) /\ (\A i \in R : i = First(s))
    BY DEF OnceInv, OnceGraph, OnceTable
  <2> HIDE DEF S, R
  <2>2. Cardinality(S) <= 1
    BY <2>1, OneOf
  <2>3. Cardinality(R) <= 1
    BY <2>1, OneOf
  <2>4. QED BY <2>2, <2>3 DEF S, R
<1>3. NoNestBreaks
  BY DEF Unaided
<1>4. QED BY <1>1, <1>2, <1>3, InitType, TypeNext, MarkedInit, BooksNext, ObjectsNext, OnceNext, MaxNext, PTL
          DEF Spec, LimitsKept

====
