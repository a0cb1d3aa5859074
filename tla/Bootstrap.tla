------------------------------ MODULE Bootstrap ------------------------------
(***************************************************************************)
(* bootstrap_world: the first start of a world turns its definitions into  *)
(* objects, a later one finds them.  Each write to the database is a step, *)
(* between two of which the process may end; what an object becomes is     *)
(* said by Roles.  Nothing else writes while a world is made.              *)
(*                                                                         *)
(* An id is <<type, base name, number>>.  A row is what an object has at,  *)
(* under its location, its prototype, its triggers and its properties,     *)
(* exits and contents among them.                                          *)
(***************************************************************************)
EXTENDS Loader

CONSTANTS
    Owner,     \* default_player: who owns the world
    Residents, \* the players there are already, and their rows
    MaxStops   \* bound: crashes and failing writes

Nil == <<>>

VARIABLES
    rows,      \* the objects table
    counters,  \* the next number of a type and a base name
    boot,      \* where bootstrap_world is, and what it holds
    stops,     \* crashes so far
    whole      \* a start made the world and came to its end

bootVars == <<rows, counters, boot, stops, whole>>

\* The phases in their order, and which of them allocate ids.
Phases == <<"places", "links", "check", "prototypes", "items", "npcs", "spawners", "loot",
            "resources", "schedules", "admin", "done">>
After(phase) == Phases[1 + CHOOSE i \in DOMAIN Phases : Phases[i] = phase]

\* names is name_to_id; placed is placements, and later loot_targets.
Starting ==
    [at |-> "start", i |-> 1, stage |-> "number", held |-> Nil, names |-> Empty,
     protos |-> Empty, placed |-> Empty, pending |-> <<>>, rest |-> <<>>, moved |-> FALSE]

\* What a row refers to.
Links == {"door_destination", "target", "home_location", "loop_to", "scatter_to"}
Refs(row) ==
    LET exits == Get(row.props, "exits", Empty) IN
    {row.at, row.proto} \cup ToSet(Get(row.props, "contents", <<>>))
    \cup {Get(row.props, k, Nil) : k \in Links} \cup {exits[d] : d \in DOMAIN exits}

\* Those who are there already refer to each other only.
ASSUME BootstrapAssumption ==
    /\ MaxStops \in Nat
    /\ \A id \in DOMAIN Residents :
         /\ DOMAIN Residents[id] = {"at", "proto", "triggers", "props"}
         /\ Get(Residents[id].props, "contents", <<>>) \in Seq(DOMAIN Residents)
         /\ Refs(Residents[id]) \subseteq DOMAIN Residents \cup {Nil}

BootInit ==
    /\ rows = Residents
    /\ counters = Empty
    /\ boot = Starting
    /\ stops = 0
    /\ whole = FALSE

(***************************************************************************)
(* The definitions of the world that was loaded.                           *)
(***************************************************************************)

Made == loading.chosen
Places == Made.places
Prototypes == Kind(Made, "item", "prototype")
Items == Kind(Made, "item", "item")
Npcs == Kind(Made, "npc", "npc")
Spawners == Kind(Made, "spawner", "spawner")
LootSpawners == Kind(Made, "loot", "loot-spawner")
ResourceSpawners == Kind(Made, "resource", "resource-spawner")
Behaviors == TemplateDefs(Made.blocks["behavior"])

First(id) == <<id[1], id[2], 1>>
Named(defs, name) == SelectSeq(defs, LAMBDA d : d.name = name)
Start == Named(Places, Made.start)
LocationId(place) == <<place.kind, place.name, 1>>

(***************************************************************************)
(* Rows.                                                                   *)
(***************************************************************************)

Row(at, proto, triggers, props) == [at |-> at, proto |-> proto, triggers |-> triggers, props |-> props]
Shell == Row(Nil, Nil, <<>>, Empty)

PlaceProps(place) ==
    When("description" \in DOMAIN place.fields, [description |-> Field(place, "description", "")])

\* Mutant: ids are made up as location_id does for areas.
LinkedUnseen(place, names) == [d \in DOMAIN place.exits |-> <<"area", place.exits[d], 1>>]
\* add_exit for each: an exit whose place is not there ends the start.
Linked(place, names) == [d \in DOMAIN place.exits |-> names[place.exits[d]]]

LinkedPlace(place, row, names) ==
    Row(IF "location" \in DOMAIN place.fields THEN names[place.fields["location"]] ELSE row.at,
        Nil, Notes(place, "trigger"),
        Set(row.props,
            [exits |-> Linked(place, names), exit_aliases |-> place.exit_aliases,
             exit_returns |-> place.exit_returns]
            ++ When(Field(place, "scatter_to", "") \in DOMAIN names,
                    [scatter_to |-> names[Field(place, "scatter_to", "")],
                     scatter_direction |-> Field(place, "scatter_direction", "")])
            ++ When(Field(place, "loop_to", "") \in DOMAIN names,
                    [loop_to |-> names[Field(place, "loop_to", "")]])))

\* validate_world_places: of the places that were made, the exits lead to
\* places, a room is in a place, an area in nothing but an area, and where an
\* exit names its way back, that one leads here.
PlaceIds(names) == {names[n] : n \in DOMAIN names}
ExitsOf(id) == Get(rows[id].props, "exits", Empty)
ReturnsOf(id) == Get(rows[id].props, "exit_returns", Empty)
Resolve(id, word) ==
    LET aliases == Get(rows[id].props, "exit_aliases", Empty) IN
      IF word \in DOMAIN aliases /\ aliases[word] \in DOMAIN ExitsOf(id) THEN aliases[word] ELSE word
ValidPlaces(ids) ==
    \A id \in ids :
      /\ IF id[1] = "room" THEN rows[id].at \in ids
         ELSE rows[id].at \in ids => rows[id].at[1] = "area"
      /\ \A d \in DOMAIN ExitsOf(id) :
           /\ ExitsOf(id)[d] \in ids
           /\ d \in DOMAIN ReturnsOf(id) =>
                LET to == ExitsOf(id)[d]
                    back == Resolve(to, ReturnsOf(id)[d])
                IN back \in DOMAIN ExitsOf(to) => ExitsOf(to)[back] = id

\* What create_from_mudl_spec leaves of a prototype and of an instance.
PrototypeRow(b) == Row(Nil, Nil, <<>>, CreatedFromSpec(Empty, b, Field(b, "description", "")))
ProtoDef(b) == Named(Prototypes, Field(b, "prototype", ""))
ItemRow(b) ==
    LET proto == Get(boot.protos, Field(b, "prototype", ""), Nil)
        said == IF ProtoDef(b) = <<>> THEN "" ELSE Field(ProtoDef(b)[1], "description", "")
    IN Row(Nil, proto, <<>>,
           CreatedFromSpec(IF proto = Nil THEN Empty ELSE rows[proto].props, b,
                           Field(b, "description", said)))
ItemTriggers(b) ==
    (IF ProtoDef(b) = <<>> THEN <<>> ELSE Notes(ProtoDef(b)[1], "trigger")) \o Notes(b, "trigger")

\* Mutant: the parent is taken as it was when it was made.
WithOnlyContent(row, id) == [row EXCEPT !.props = Set(@, [contents |-> <<id>>])]
\* add_to_list_property.
WithContent(row, id) ==
    [row EXCEPT !.props = Set(@, [contents |-> Append(Get(@, "contents", <<>>), id)])]

NpcId(b) == <<"npc", b.name, 1>>
Uses(b) == [i \in DOMAIN Notes(b, "use") |-> Notes(b, "use")[i].key]
NpcRow(b) ==
    LET scripts == Notes(b, "behavior") IN
    Row(Get(boot.names, Field(b, "location", ""), Nil), Nil,
        CollectTriggers(scripts, Uses(b), Behaviors) \o Notes(b, "trigger"),
        WithBehaviors(InitCreature(Field(b, "creature", "human"), Made.blocks["anatomy"]),
                      scripts, Uses(b), Behaviors))

\* A spawner is at its location only if it has no target.
SpawnerRow(b) ==
    LET targeted == Field(b, "target", "") # ""
        on == boot.placed[IF targeted THEN Field(b, "target", "") ELSE Field(b, "location", "")]
    IN Row(IF targeted THEN Nil ELSE on, Nil, <<>>,
           ApplyCreatureSpawnerDef(b)
           ++ When(targeted, [target |-> on])
           ++ [spawn_templates |-> SpawnTemplates(Kind(Made, "spawner", "spawn-template")),
               behavior_templates |-> BehaviorTemplates(Behaviors)])
LootRow(b) == Row(Nil, Nil, <<>>, ApplyLootSpawnerDef(b)
    ++ [target |-> boot.placed[Field(b, "target", "")],
        loot_templates |-> LootTemplates(Kind(Made, "loot", "loot-template"))])
ResourceRow(b) == Row(Nil, Nil, <<>>, ApplyResourceSpawnerDef(b)
    ++ [target |-> boot.placed[Field(b, "target", "")],
        resource_templates |-> ResourceTemplates(Kind(Made, "resource", "resource-template"))])

(***************************************************************************)
(* Steps.  One definition is at boot.i of the list of the phase.           *)
(***************************************************************************)

Definitions ==
    CASE boot.at \in {"places", "links"} -> Places
      [] boot.at = "prototypes" -> Prototypes
      [] boot.at = "items" -> boot.pending
      [] boot.at = "npcs" -> Npcs
      [] boot.at = "spawners" -> Spawners
      [] boot.at = "loot" -> LootSpawners
      [] boot.at = "resources" -> ResourceSpawners
      [] boot.at = "schedules" -> Made.blocks["schedule"]
      [] OTHER -> <<>>
On(phase) == loading.at = "loaded" /\ boot.at = phase /\ boot.i \in DOMAIN Definitions
\* Each has had its turn.
AllDone == DOMAIN Definitions \subseteq 1 .. boot.i - 1
Def == Definitions[boot.i]

NextDef == [boot EXCEPT !.i = @ + 1, !.stage = "number", !.held = Nil]
Skip == boot' = NextDef /\ UNCHANGED <<rows, counters, stops, whole>>
Write(id, row) == rows' = Only(id, row) ++ rows /\ UNCHANGED <<counters, stops, whole>>

\* An error is logged, and what there is of the world is served.
GiveUp == boot' = [boot EXCEPT !.at = "ready"] /\ UNCHANGED <<rows, counters, stops, whole>>

\* The world is there if the row of its start is.
Begin ==
    /\ loading.at = "loaded" /\ boot.at = "start"
    /\ boot' = [boot EXCEPT !.at =
         IF (Start # <<>> /\ LocationId(Start[1]) \in DOMAIN rows) \/ Places = <<>> THEN "ready" ELSE "places"]
    /\ UNCHANGED <<rows, counters, stops, whole>>

\* allocate_named: the number is taken, and then a shell is written.
TypeOf == IF boot.at = "places" THEN Def.kind ELSE "item"
NumberOf(type, base) == Get(counters, <<type, base>>, 1)
\* Mutant: next_id reads the number and leaves it.
Read(type, base) == counters
Taken(type, base) == Set(counters, Only(<<type, base>>, NumberOf(type, base) + 1))

Due ==
    CASE boot.at = "prototypes" -> Def.name \notin DOMAIN boot.protos
      [] boot.at = "items" -> Field(Def, "location", "") \in DOMAIN boot.placed
                              /\ Def.name \notin DOMAIN boot.placed
      [] OTHER -> boot.at = "places"

TakeNumber ==
    /\ loading.at = "loaded" /\ boot.stage = "number"
    /\ \/ /\ On(boot.at) /\ Due
          /\ counters' = Taken(TypeOf, Def.name)
          /\ boot' = [boot EXCEPT !.stage = "shell", !.held = <<TypeOf, Def.name, NumberOf(TypeOf, Def.name)>>]
       \/ /\ boot.at = "admin" /\ Owner \notin DOMAIN rows
          /\ counters' = Taken("player", "admin")
          /\ boot' = [boot EXCEPT !.stage = "shell", !.held = <<"player", "admin", NumberOf("player", "admin")>>]
    /\ UNCHANGED <<rows, stops, whole>>

WriteShell ==
    /\ loading.at = "loaded" /\ boot.stage = "shell"
    /\ Write(boot.held, Shell)
    /\ boot' = [boot EXCEPT !.stage = "commit"]

SavePlace ==
    /\ On("places") /\ boot.stage = "commit"
    /\ Write(boot.held, Row(Nil, Nil, <<>>, PlaceProps(Def)))
    /\ boot' = [NextDef EXCEPT !.names = Set(@, Only(Def.name, boot.held))]

LinkPlace ==
    /\ On("links")
    /\ LET places == DOMAIN boot.names
           named == {Def.exits[d] : d \in DOMAIN Def.exits}
                    \cup (IF "location" \in DOMAIN Def.fields THEN {Def.fields["location"]} ELSE {})
           id == boot.names[Def.name]
       IN IF named \subseteq places
          THEN Write(id, LinkedPlace(Def, rows[id], boot.names)) /\ boot' = NextDef
          ELSE GiveUp

CheckPlaces ==
    /\ loading.at = "loaded" /\ boot.at = "check"
    /\ IF ValidPlaces(PlaceIds(boot.names))
       THEN /\ boot' = [boot EXCEPT !.at = "prototypes", !.i = 1, !.placed = boot.names, !.pending = Items]
            /\ UNCHANGED <<rows, counters, stops, whole>>
       ELSE GiveUp

CommitPrototype ==
    /\ On("prototypes") /\ boot.stage = "commit"
    /\ Write(boot.held, PrototypeRow(Def))
    /\ boot' = [boot EXCEPT !.stage = "finish"]
FinishPrototype ==
    /\ On("prototypes") /\ boot.stage = "finish"
    /\ Write(boot.held, [rows[boot.held] EXCEPT !.triggers = Notes(Def, "trigger")])
    /\ boot' = [NextDef EXCEPT !.protos = Set(@, Only(Def.name, boot.held))]

CommitItem ==
    /\ On("items") /\ boot.stage = "commit"
    /\ Write(boot.held, ItemRow(Def))
    /\ boot' = [boot EXCEPT !.stage = "hang"]

\* The container is saved before the item that it holds.
HangItem ==
    /\ On("items") /\ boot.stage = "hang"
    /\ LET parent == boot.placed[Field(Def, "location", "")] IN
         IF IsContainer(rows[parent].props)
         THEN Write(parent, WithContent(rows[parent], boot.held))
         ELSE UNCHANGED <<rows, counters, stops, whole>>
    /\ boot' = [boot EXCEPT !.stage = "finish"]
FinishItem ==
    /\ On("items") /\ boot.stage = "finish"
    /\ LET row == rows[boot.held]
           leads == IF IsPortal(row.props) THEN Get(row.props, "door_destination_base", "") ELSE ""
       IN IF leads # "" /\ leads \notin DOMAIN boot.placed THEN GiveUp
          ELSE /\ Write(boot.held,
                    Row(boot.placed[Field(Def, "location", "")], row.proto, ItemTriggers(Def),
                        Set(row.props, When(leads # "", [door_destination |-> boot.placed[leads]]))))
               /\ boot' = [NextDef EXCEPT !.moved = TRUE, !.placed = Set(@, Only(Def.name, boot.held))]

\* What is in something that is not there yet waits for the next round.
PostponeItem ==
    /\ On("items") /\ boot.stage = "number" /\ ~Due
    /\ boot' = IF Field(Def, "location", "") \in DOMAIN boot.placed
               THEN [NextDef EXCEPT !.moved = TRUE]
               ELSE [NextDef EXCEPT !.rest = Append(@, Def)]
    /\ UNCHANGED <<rows, counters, stops, whole>>
SkipPrototype ==
    /\ On("prototypes") /\ boot.stage = "number" /\ ~Due
    /\ Skip

\* create_npc: under the number 1, without taking it; a place that is not
\* known is none.
MakeNpc ==
    /\ On("npcs")
    /\ CASE boot.stage = "number" ->
              IF Field(Def, "location", "") = "" THEN GiveUp
              ELSE IF NpcId(Def) \in DOMAIN rows THEN Skip
              ELSE Write(NpcId(Def), Shell) /\ boot' = [boot EXCEPT !.stage = "commit"]
         [] OTHER -> Write(NpcId(Def), NpcRow(Def)) /\ boot' = NextDef

\* The name of what a spawner is on; one that is there already is left alone.
KnownTarget(b) ==
    IF boot.at = "spawners" /\ Field(b, "target", "") = ""
    THEN Field(b, "location", "") \in DOMAIN boot.placed
    ELSE Field(b, "target", "") \in DOMAIN boot.placed
MakeSpawner(phase, type, templates, row) ==
    /\ On(phase)
    /\ CASE <<type, Def.name, 1>> \in DOMAIN rows -> Skip
         [] ~(KnownTarget(Def) /\ EntriesKnown(Def, templates)) -> GiveUp
         [] OTHER -> Write(<<type, Def.name, 1>>, row) /\ boot' = NextDef
MakeSpawners ==
    \/ MakeSpawner("spawners", "spawner", Kind(Made, "spawner", "spawn-template"), SpawnerRow(Def))
    \/ MakeSpawner("loot", "loot-spawner", Kind(Made, "loot", "loot-template"), LootRow(Def))
    \/ MakeSpawner("resources", "resource-spawner", Kind(Made, "resource", "resource-template"), ResourceRow(Def))

MakeSchedule ==
    /\ On("schedules")
    /\ LET on == Get(boot.placed, Field(Def, "target", ""), Nil) IN
         IF on \notin DOMAIN rows \/ Field(Def, "event", "") = "" THEN GiveUp
         ELSE /\ Write(on, [rows[on] EXCEPT !.props = Set(@,
                    [schedule_jobs |-> RegisterJob(Get(@, "schedule_jobs", <<>>), Def, on)])])
              /\ boot' = NextDef

\* create_player, and the start as its home; the owner is a wizard.
CommitAdmin ==
    /\ boot.at = "admin" /\ boot.stage = "commit"
    /\ Write(boot.held, Row(Nil, Nil, <<>>, InitCreature("human", Made.blocks["anatomy"])))
    /\ boot' = [boot EXCEPT !.stage = "finish"]
FinishAdmin ==
    /\ loading.at = "loaded" /\ boot.at = "admin"
    /\ LET made == boot.stage = "finish"
           id == IF made THEN boot.held ELSE Owner
           home == IF made THEN Get(boot.names, Made.start, Nil) ELSE Nil
       IN /\ made \/ (Owner \in DOMAIN rows /\ boot.stage = "number")
          /\ rows' = Only(id, Row(IF home # Nil THEN home ELSE rows[id].at, rows[id].proto, rows[id].triggers,
                         Set(rows[id].props, [permissions |-> WizardRole]
                                             ++ When(home # Nil, [home_location |-> home])))) ++ rows
    /\ boot' = [boot EXCEPT !.at = "ready"]
    /\ whole' = (whole \/ stops = 0)
    /\ UNCHANGED <<counters, stops>>

\* A list is done.  After the items and before the loot spawners the names
\* of what can be a target grow.
Round ==
    /\ loading.at = "loaded" /\ boot.at = "items" /\ AllDone
    /\ CASE boot.rest = <<>> -> boot' = [boot EXCEPT !.at = After(@), !.i = 1]
         [] boot.rest # <<>> /\ boot.moved ->
              boot' = [boot EXCEPT !.i = 1, !.pending = boot.rest, !.rest = <<>>, !.moved = FALSE]
         [] OTHER -> boot' = [boot EXCEPT !.at = "ready"]
    /\ UNCHANGED <<rows, counters, stops, whole>>
NextPhase ==
    /\ loading.at = "loaded" /\ boot.at \in {"places", "links", "prototypes", "npcs", "spawners", "loot",
                                             "resources", "schedules"}
    /\ AllDone
    /\ boot' = [boot EXCEPT !.at = After(@), !.i = 1,
         !.placed = IF boot.at = "spawners"
                    THEN Set(@, [n \in {Npcs[i].name : i \in DOMAIN Npcs} |-> <<"npc", n, 1>>]) ELSE @]
    /\ UNCHANGED <<rows, counters, stops, whole>>

\* The process ends, for whatever reason, and is started again.
Stop ==
    /\ boot.at # "start" /\ stops < MaxStops
    /\ boot' = Starting
    /\ stops' = stops + 1
    /\ UNCHANGED <<rows, counters, whole>>

BootNext ==
    \/ Begin \/ TakeNumber \/ WriteShell \/ SavePlace \/ LinkPlace \/ CheckPlaces
    \/ CommitPrototype \/ FinishPrototype \/ SkipPrototype
    \/ CommitItem \/ HangItem \/ FinishItem \/ PostponeItem \/ Round
    \/ MakeNpc \/ MakeSpawners \/ MakeSchedule \/ CommitAdmin \/ FinishAdmin
    \/ NextPhase \/ Stop

(***************************************************************************)
(* What is promised.                                                       *)
(***************************************************************************)

\* What is there, it is: at no moment, also after a crash, is an exit, a
\* location, a content or a target of nothing.
NothingDangles == \A id \in DOMAIN rows : Refs(rows[id]) \ {Nil} \subseteq DOMAIN rows

\* The object that was made of a name.
PlaceOf(name) == LocationId(Named(Places, name)[1])
ItemOf(b) == CHOOSE id \in DOMAIN rows : id[2] = b.name /\ id[1] = "item" /\ rows[id].at # Nil
InPlace(id, name) == id[2] = name /\ id \in DOMAIN rows

PlacesMade == \A i \in DOMAIN Places :
    LET place == Places[i]
        row == rows[LocationId(place)]
    IN /\ LocationId(place) \in DOMAIN rows
       /\ DOMAIN row.props["exits"] = DOMAIN place.exits
       /\ \A d \in DOMAIN place.exits : row.props["exits"][d] = PlaceOf(place.exits[d])
       /\ row.triggers = Notes(place, "trigger")

\* An item is where it was written, a container says so too; a key fits the
\* locks that are written for it, a door leads where it is written to lead,
\* and what only the prototype says holds as well.
ItemsMade == \A i \in DOMAIN Items :
    LET b == Items[i]
        id == ItemOf(b)
        row == rows[id]
    IN /\ \E x \in DOMAIN rows : x[1] = "item" /\ x[2] = b.name /\ rows[x].at # Nil
       /\ InPlace(row.at, Field(b, "location", ""))
       /\ IsContainer(rows[row.at].props) =>
            Cardinality({n \in DOMAIN rows[row.at].props["contents"] :
                           rows[row.at].props["contents"][n] = id}) = 1
       /\ "door_destination" \in DOMAIN b.fields =>
            row.props["door_destination"] = PlaceOf(b.fields["door_destination"])
       /\ "prototype" \in DOMAIN b.fields =>
            /\ row.proto[2] = b.fields["prototype"]
            /\ \A k \in {"capacity", "lock_id"} :
                 k \in DOMAIN ProtoDef(b)[1].fields /\ k \notin DOMAIN b.fields =>
                   Get(row.props, k, "") = ProtoDef(b)[1].fields[k]
       /\ \A j \in DOMAIN Items :
            /\ Field(b, "is_key", "false") = "true" /\ "lock_id" \in DOMAIN b.fields
            /\ Field(Items[j], "lock_id", "") = Field(b, "lock_id", "") /\ "locked" \in DOMAIN Items[j].fields
            => KeyUnlocksGate(row.props, rows[ItemOf(Items[j])].props)

\* A spawner knows when and how often to spawn as it was written; whatever it
\* draws is one of its entries, each of them drawn as often as its weight says
\* and found among the templates stored with it; and a creature it makes of
\* one takes part in as many encounters as one made by @npc.
ReadAsWritten(b, read, most) ==
    /\ \A k \in {"trigger", "max_active", "chance", "interval"} \cap DOMAIN b.fields : read[k] = b.fields[k]
    /\ "max_active" \notin DOMAIN b.fields => read.max_active = most
DrawnAsWritten(b, o, Template(_)) ==
    \A i \in DOMAIN Notes(b, "entry") :
      LET e == Stored(Notes(b, "entry"))[i]
          seeds == 0 .. TotalWeight(ReadEntries(o)) - 1
      IN /\ Template(e.template) # Nothing
         /\ Cardinality({s \in seeds : PickWeighted(ReadEntries(o), s) = e}) = e.weight
SpawnersMade ==
    /\ \A i \in DOMAIN Spawners :
         LET b == Spawners[i]
             o == rows[<<"spawner", b.name, 1>>].props
         IN /\ ReadAsWritten(b, ReadCreatureSpawner(o), 1)
            /\ DrawnAsWritten(b, o, LAMBDA name : ResolveSpawnTemplate(o, name))
            /\ \A n \in DOMAIN Notes(b, "entry") :
                 LET t == ResolveSpawnTemplate(o, Notes(b, "entry")[n].key)
                     made == Spawned(o, t, Made.blocks["anatomy"])
                 IN /\ made.creature = Field(TemplateNamed(Kind(Made, "spawner", "spawn-template"), t.base_name),
                                             "creature", "human")
                    /\ ReadBehaviors(made) = BehaviorEntries(<<>>, t.use_behaviors, Behaviors)
    /\ \A i \in DOMAIN LootSpawners :
         LET b == LootSpawners[i]
             o == rows[<<"loot-spawner", b.name, 1>>].props
         IN /\ ReadAsWritten(b, ReadLootSpawner(o), 4)
            /\ DrawnAsWritten(b, o, LAMBDA name : ResolveLootTemplate(o, name))
    /\ \A i \in DOMAIN ResourceSpawners :
         LET b == ResourceSpawners[i]
             o == rows[<<"resource-spawner", b.name, 1>>].props
         IN /\ ReadAsWritten(b, ReadResourceSpawner(o), 4)
            /\ DrawnAsWritten(b, o, LAMBDA name : ResolveResourceTemplate(o, name))

\* An @npc is where it was written and behaves as its lines say, the reactions
\* of the templates it uses first; creatures of older versions keep theirs.
NpcsMade ==
    /\ \A i \in DOMAIN Npcs :
         LET row == rows[NpcId(Npcs[i])] IN
           /\ InPlace(row.at, Field(Npcs[i], "location", ""))
           /\ ReadBehaviors(row.props) = BehaviorEntries(Notes(Npcs[i], "behavior"), Uses(Npcs[i]), Behaviors)
           /\ \A n \in DOMAIN Notes(Npcs[i], "use") :
                \E m \in DOMAIN ReadBehaviors(row.props) :
                  Get(ReadBehaviors(row.props)[m], "template", "") = Notes(Npcs[i], "use")[n].key
    /\ \A id \in DOMAIN Residents :
         Len(ReadBehaviors(rows[id].props)) = Len(Get(Residents[id].props, "npc_behaviors", <<>>))

JobsMade == \A i \in DOMAIN Made.blocks["schedule"] :
    LET b == Made.blocks["schedule"][i] IN
      \E id \in DOMAIN rows :
        /\ id[2] = Field(b, "target", "")
        /\ Cardinality({n \in DOMAIN Get(rows[id].props, "schedule_jobs", <<>>) :
                          rows[id].props["schedule_jobs"][n].id = b.name}) = 1

\* Whom the world belongs to may do everything in it, and nobody else more
\* than play; yet everybody may play.
OneWizard ==
    \A id \in DOMAIN rows, verb \in {"examine", "set", "reload", "save", "look"} :
      /\ AuthorizeMeta(rows[id].props, verb) <=> id = Owner
      /\ AuthorizePlain(rows[id].props, IF verb = "reload" THEN "module" ELSE verb, verb)
           <=> id = Owner \/ verb \notin {"reload", "save"}

\* Once a start has come to its end, and ever after, however often the server
\* is started again, the world is there as it was written.
WorldAsWritten ==
    whole =>
      /\ PlacesMade /\ ItemsMade /\ SpawnersMade /\ NpcsMade /\ JobsMade
      /\ Owner \in DOMAIN rows
      /\ OneWizard
      /\ Owner \notin DOMAIN Residents => rows[Owner].at = PlaceOf(Made.start)
=============================================================================
