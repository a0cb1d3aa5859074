-------------------------------- MODULE Roles --------------------------------
(***************************************************************************)
(* What objects are made of: roles laid over a map of properties, from the *)
(* definitions the parsers of Mudl return, and read back from that map     *)
(* later.  An object is given here by its properties alone; flags are      *)
(* "true" and "false", as the parsers leave them.                          *)
(***************************************************************************)
EXTENDS Mudl

Has(o, k) == k \in DOMAIN o
Get(o, k, default) == IF Has(o, k) THEN o[k] ELSE default
Is(o, k) == Get(o, k, "false") = "true"

\* set_property_*, and the same only where nothing is set yet.
Set(o, r) == r ++ o
Unset(o, r) == o ++ r
When(c, r) == IF c THEN r ELSE Empty

\* The keys of r that were written in b, under their names on an object.
Copied(b, names) ==
    [k \in {names[f] : f \in DOMAIN names \cap DOMAIN b.fields} |->
        b.fields[CHOOSE f \in DOMAIN names : names[f] = k /\ f \in DOMAIN b.fields]]

(***************************************************************************)
(* What an actor may do: tiers of permission flags.                        *)
(***************************************************************************)

WizardRole == {"owner", "builder", "wizard"}
Permissions(o) == Get(o, "permissions", {"everyone"})
ActorTier(flags) ==
    CASE "wizard" \in flags -> 2
      [] {"builder", "wizard"} \cap flags = {"builder"} -> 1
      [] OTHER -> 0

\* Verbs after an @, and without one.
RequiredForMeta(verb) == IF verb \in {"look", "examine", "dump"} THEN 1 ELSE 2
RequiredForPlain(cmd, sub) ==
    CASE cmd \in {"load", "save"} -> 1
      [] cmd = "module" /\ sub \in {"reload", "bundle"} -> 2
      [] OTHER -> 0
AuthorizeMeta(o, verb) == ActorTier(Permissions(o)) >= RequiredForMeta(verb)
AuthorizePlain(o, cmd, sub) == ActorTier(Permissions(o)) >= RequiredForPlain(cmd, sub)

(***************************************************************************)
(* Portals, containers, keys.                                              *)
(***************************************************************************)

\* PortalKind::parse; "" is no kind.
ParseKind(v) ==
    CASE v \in {"door", "window"} -> v
      [] v \in {"teleport", "portal"} -> "teleport"
      [] OTHER -> ""
PortalKind(o) ==
    CASE ParseKind(Get(o, "portal_kind", "")) # "" -> ParseKind(o["portal_kind"])
      [] Is(o, "is_window") -> "window"
      [] Is(o, "is_door") -> "door"
      [] OTHER -> ""
IsPortal(o) == PortalKind(o) # ""
IsContainer(o) == Is(o, "is_container")

HasLock(o) == Get(o, "lock_id", "") # ""
GateIsLocked(o) == HasLock(o) /\ Is(o, "is_locked")
GateIsOpen(o) ==
    CASE IsPortal(o) -> Is(o, "is_open")
      [] IsContainer(o) -> Get(o, "is_open", "true") = "true"
      [] OTHER -> TRUE
Passable(o) == Get(o, "portal_passable", IF PortalKind(o) \in {"door", "teleport"} THEN "true" ELSE "false")
KeyUnlocksGate(key, gate) ==
    /\ Is(key, "is_key") /\ HasLock(gate)
    /\ Get(key, "lock_id", "") = gate["lock_id"]

\* What a role brings along when it comes with a lock.
Lock(lock_id, locked, consumable) ==
    IF lock_id = "" THEN Empty
    ELSE [lock_id |-> lock_id, is_locked |-> locked]
         ++ When(consumable = "true", [lock_consumable |-> "true"])

ApplyPortalRole(o, kind, b) ==
    LET own(f, k, d) == Field(b, f, Get(o, k, d)) IN
      Unset(Set(o,
        [is_portal |-> "true", portal_kind |-> kind,
         door_direction |-> own("door_direction", "door_direction", "in"),
         door_destination_base |-> own("door_destination", "door_destination_base", ""),
         is_open |-> own("is_open", "is_open", "false"),
         portal_passable |-> Field(b, "portal_passable", IF kind = "window" THEN "false" ELSE "true"),
         portal_transparent |-> Field(b, "portal_transparent", IF kind = "window" THEN "true" ELSE "false"),
         is_pocketable |-> "false"]
        ++ When(kind = "door", [is_door |-> "true"])
        ++ When(kind = "window", [is_window |-> "true"])
        ++ Lock(own("lock_id", "lock_id", ""), own("locked", "is_locked", "false"),
                own("lock_consumable", "lock_consumable", "false"))),
        CASE kind = "window" -> [weight |-> 2, volume |-> 1]
          [] kind = "door" -> [weight |-> 5, volume |-> 4]
          [] OTHER -> [weight |-> 1, volume |-> 1])

ApplyContainerRole(o, b) ==
    Unset(Set(o,
      [is_container |-> "true", capacity |-> Field(b, "capacity", 10), contents |-> <<>>,
       is_wearable |-> Field(b, "is_wearable", "false"), is_pocketable |-> "false",
       is_open |-> Field(b, "is_open", "true")]
      ++ When(Field(b, "is_wearable", "false") = "true", [wear_slot |-> Field(b, "wear_slot", "torso")])
      ++ Lock(Field(b, "lock_id", ""), Field(b, "locked", "false"), Field(b, "lock_consumable", "false"))
      ++ Copied(b, [max_weight |-> "max_weight", max_volume |-> "max_volume",
                    allowed_types |-> "allowed_types"])),
      [weight |-> 1, volume |-> 1])

\* apply_item_phys: whatever was said of a prototype's pocketability is lost.
ApplyItemPhys(o, b) ==
    LET p == Set(o, [weight |-> Field(b, "weight", 1), volume |-> Field(b, "volume", 1),
                     is_pocketable |-> Field(b, "pocketable", "true")])
    IN Set(p, When(~IsContainer(p), [is_container |-> "false"])
              ++ When(~Is(p, "is_wearable"), [is_wearable |-> "false"]))

\* apply_carry_modifiers and apply_equipment_mods: what changes something.
ApplyGear(o, b) ==
    LET grants == Notes(b, "grant")
        mods == Notes(b, "mod-stat") \o Notes(b, "mod-skill")
    IN Set(o, When(Field(b, "mod_max_weight", 0) # 0, [mod_max_weight |-> Field(b, "mod_max_weight", 0)])
              ++ When(Field(b, "mod_encumbrance", 100) # 100,
                      [mod_encumbrance |-> Field(b, "mod_encumbrance", 100)])
              ++ When(Field(b, "mod_max_health", 0) # 0, [mod_max_health |-> Field(b, "mod_max_health", 0)])
              ++ When(grants # <<>>, [grant_effects |-> grants])
              ++ When(mods # <<>>, [mods |-> mods]))

ApplyWearableRole(o, b) ==
    ApplyGear(Set(o, [is_wearable |-> "true", wear_slot |-> Field(b, "wear_slot", "torso"),
                      weight |-> Field(b, "weight", 1), volume |-> Field(b, "volume", 1)]), b)

ApplyStackableRole(o, b) ==
    Set(o, [stackable |-> "true", stack_count |-> Field(b, "stack_count", 1),
            max_stack |-> Field(b, "max_stack", 99)])

\* A key without a lock_id is no key.
ApplyKeyRole(o, b) ==
    IF Field(b, "is_key", "false") # "true" \/ "lock_id" \notin DOMAIN b.fields THEN o
    ELSE Unset(Set(o, [is_key |-> "true", lock_id |-> b.fields["lock_id"], is_pocketable |-> "true"]
                      ++ When(Field(b, "key_consumable", "false") = "true", [key_consumable |-> "true"])),
               [weight |-> 1, volume |-> 1])

\* Readable, writable, breakable and the flags that are copied as they are.
ApplyTexts(o, b) ==
    Set(o, When(Field(b, "readable", "false") = "true" \/ "read_text" \in DOMAIN b.fields,
                [is_readable |-> "true", read_text |-> Field(b, "read_text", ""),
                 is_writable |-> Field(b, "writable", "false")])
           ++ When(Field(b, "breakable", "false") = "true",
                   [is_breakable |-> "true"] ++ Copied(b, [break_text |-> "break_text"]))
           ++ Copied(b, [write_text |-> "write_text", hand_slot |-> "hand_slot",
                         harvestable |-> "harvestable",
                         hidden_until_discovered |-> "hidden_until_discovered",
                         discovery_stealth |-> "discovery_stealth"]))

SaysPortal(b) ==
    \/ Field(b, "is_door", "false") = "true" \/ Field(b, "is_window", "false") = "true"
    \/ {"portal_kind", "door_direction", "door_destination"} \cap DOMAIN b.fields # {}
KindSaid(o, b) ==
    CASE ParseKind(Field(b, "portal_kind", "")) # "" -> ParseKind(b.fields["portal_kind"])
      [] Field(b, "is_window", "false") = "true" -> "window"
      [] Field(b, "is_door", "false") = "true" -> "door"
      [] IsPortal(o) -> PortalKind(o)
      [] OTHER -> "door"

\* MudlRoleProps::apply_to.
ApplyTo(o, b) ==
    LET has(f) == f \in DOMAIN b.fields
        says(f) == Field(b, f, "false") = "true"
        body == CASE SaysPortal(b) -> Set(ApplyPortalRole(o, KindSaid(o, b), b),
                                          Copied(b, [weight |-> "weight", volume |-> "volume"]))
                  [] says("is_container") -> ApplyContainerRole(o, b)
                  [] has("weight") \/ has("volume") -> ApplyItemPhys(o, b)
                  [] OTHER -> o
        worn == IF says("is_wearable") /\ ~says("is_container") THEN ApplyWearableRole(body, b)
                ELSE ApplyGear(body, b)
        piled == IF says("stackable") THEN ApplyStackableRole(worn, b) ELSE worn
    IN ApplyKeyRole(ApplyTexts(piled, b), b)

\* apply_prototype_defaults copies these; stack_count and contents are not
\* among them.
Inherited ==
    {"weight", "volume", "is_container", "is_open", "is_wearable", "is_pocketable", "capacity",
     "max_weight", "max_volume", "wear_slot", "hand_slot", "stackable", "max_stack", "description",
     "is_readable", "read_text", "is_writable", "write_text", "lock_id", "is_locked",
     "lock_consumable", "is_key", "key_consumable", "is_portal", "is_door", "is_window",
     "portal_kind", "portal_passable", "portal_transparent", "mod_max_weight", "mod_encumbrance",
     "mod_max_health", "mods", "grant_effects", "door_direction", "door_destination_base",
     "allowed_types", "is_breakable", "break_text", "harvestable", "hidden_until_discovered",
     "discovery_stealth"}
ApplyPrototypeDefaults(o, proto) == Set(o, [k \in DOMAIN proto \cap Inherited |-> proto[k]])

\* init_item_defaults_if_unset.
FillItemDefaults(o, pocketable) ==
    Unset(o, [weight |-> 1, volume |-> 1, is_pocketable |-> pocketable,
              is_container |-> "false", is_wearable |-> "false"])

\* create_from_mudl_spec, from the shell that was saved; proto is the stored
\* prototype, or Empty.
CreatedFromSpec(proto, b, description) ==
    LET pocketable == Field(b, "pocketable", IF Field(b, "is_container", "false") = "true" THEN "false" ELSE "true")
    IN Set(FillItemDefaults(ApplyTo(ApplyPrototypeDefaults(Empty, proto), b), pocketable),
           When(description # "", [description |-> description]))

(***************************************************************************)
(* Creatures: what an @npc block becomes.                                  *)
(***************************************************************************)

\* init_creature_role, init_creature_vitality with the @creature's numbers.
InitCreature(creature, defs) ==
    LET known == {i \in DOMAIN defs : defs[i].kind = "creature" /\ defs[i].name = creature}
        def == defs[CHOOSE i \in known : \A j \in known : j <= i]
        health == Field(def, "max_health", 100)
    IN [creature |-> creature, body_slots |-> Empty, max_weight |-> 100]
       ++ When(known # {}, [health |-> health, max_health |-> health, active_effects |-> <<>>])

\* A map of base names, filled in order: the last of a name is in it.
TemplateNamed(templates, name) ==
    LET known == {i \in DOMAIN templates : templates[i].name = name} IN
      IF known = {} THEN Nothing ELSE templates[CHOOSE i \in known : \A j \in known : j <= i]
Used(uses, templates) ==
    SelectSeq([i \in DOMAIN uses |-> TemplateNamed(templates, uses[i])], LAMBDA t : t # Nothing)

\* A @behavior-template as a record: what is optional is there or not.
TemplateDef(b) ==
    [name |-> b.name, react |-> Field(b, "react", "ignore"),
     wander_interval |-> Field(b, "wander_interval", 3), attack_damage |-> Field(b, "attack_damage", 8)]
    ++ Copied(b, [on_enter |-> "on_enter", on_discovered |-> "on_discovered",
                  on_discovered_react |-> "on_discovered_react", awareness_check |-> "awareness_check",
                  perception |-> "perception", on_hit |-> "on_hit"])
TemplateDefs(blocks) == [i \in DOMAIN blocks |-> TemplateDef(blocks[i])]

\* collect_behavior_triggers: the scripts of the templates used, in the order
\* of their use, then the creature's own scripts, and then its triggers.
Trigger(event, code) == [tag |-> "trigger", key |-> event, value |-> code]
TemplateTriggers(t) ==
    SelectSeq(<<Trigger("on_enter", Get(t, "on_enter", "")),
                Trigger("on_discovered", Get(t, "on_discovered", ""))>>,
              LAMBDA n : n.value # "")
CollectTriggers(scripts, uses, templates) ==
    FlattenSeq([i \in DOMAIN Used(uses, templates) |-> TemplateTriggers(Used(uses, templates)[i])])
    \o LET own == SelectSeq(scripts, LAMBDA n : n.react = "") IN
         [i \in DOMAIN own |-> Trigger(own[i].key, own[i].text)]

\* build_creature_behavior_entries: each template used gives an entry for
\* on_enter, and one for on_discovered if it says how it reacts to that; a
\* script that reacts is an entry of its own.
Entry(t) ==
    [type |-> "template", template |-> t.name, event |-> "on_enter", react |-> t.react,
     wander_interval |-> t.wander_interval, attack_damage |-> t.attack_damage]
    ++ [k \in DOMAIN t \cap {"awareness_check", "perception", "on_hit"} |-> t[k]]
DiscoveredEntry(t) ==
    IF ~Has(t, "on_discovered_react") THEN <<>>
    ELSE <<[type |-> "template", template |-> t.name, event |-> "on_discovered",
            react |-> t.on_discovered_react, attack_damage |-> t.attack_damage]
           ++ [k \in DOMAIN t \cap {"on_hit"} |-> t[k]]>>
ScriptEntry(n) == [type |-> "script", event |-> n.key, react |-> n.react]
BehaviorEntries(scripts, uses, templates) ==
    FlattenSeq([i \in DOMAIN Used(uses, templates) |->
        <<Entry(Used(uses, templates)[i])>> \o DiscoveredEntry(Used(uses, templates)[i])])
    \o LET own == SelectSeq(scripts, LAMBDA n : n.react # "") IN
         [i \in DOMAIN own |-> ScriptEntry(own[i])]

\* bootstrap_creature_behavior_system: behavior_entry_map writes of an entry
\* what it has.
EntryFields == {"type", "template", "event", "action", "text", "react", "wander_interval",
                "attack_damage", "awareness_check", "perception", "on_hit"}
EntryMap(e) == [k \in DOMAIN e \cap EntryFields |-> e[k]]
WithBehaviors(props, scripts, uses, templates) ==
    LET entries == BehaviorEntries(scripts, uses, templates) IN
      Set(props, When(entries # <<>>,
        [creature_behaviors |-> [i \in DOMAIN entries |-> EntryMap(entries[i])]]))

\* entry_from_map: without a type it is no entry; reactions are parsed again.
EntryFromMap(m) == [k \in DOMAIN m |->
    CASE k = "react" -> React(m[k])
      [] k = "wander_interval" -> AtLeast(m[k], 1, 1)
      [] OTHER -> m[k]]
EntriesRead(maps) ==
    LET typed == SelectSeq(maps, LAMBDA m : Has(m, "type")) IN
      [i \in DOMAIN typed |-> EntryFromMap(typed[i])]

\* npc_behaviors, as earlier versions stored them: a reaction, or a script
\* with both its words.
LegacyEntry(m) ==
    [type |-> "script", event |-> m.event]
    ++ IF Has(m, "react") THEN [react |-> React(m.react)] ELSE [action |-> m.action, text |-> m.text]
LegacyBehaviors(o) ==
    LET whole == SelectSeq(Get(o, "npc_behaviors", <<>>),
                   LAMBDA m : Has(m, "event") /\ (Has(m, "react") \/ {"action", "text"} \subseteq DOMAIN m))
    IN [i \in DOMAIN whole |-> LegacyEntry(whole[i])]
ReadBehaviors(o) ==
    LET entries == EntriesRead(Get(o, "creature_behaviors", <<>>)) IN
      IF entries = <<>> THEN LegacyBehaviors(o) ELSE entries

(***************************************************************************)
(* Spawners: what is stored on their objects.                              *)
(***************************************************************************)

Stored(entries) == [i \in DOMAIN entries |->
    [template |-> entries[i].key, weight |-> AtLeast(entries[i].value, 1, 1)]]
EntriesKnown(b, templates) ==
    \A i \in DOMAIN Notes(b, "entry") : TemplateNamed(templates, Notes(b, "entry")[i].key) # Nothing

ApplySpawnerDef(b, trigger, most) ==
    [spawner_base |-> b.name, trigger |-> Field(b, "trigger", trigger),
     interval |-> Field(b, "interval", 5), chance |-> Field(b, "chance", 100),
     max_active |-> Field(b, "max_active", most), spawn_count |-> 0,
     entries |-> Stored(Notes(b, "entry"))]
Fires(b) == [once |-> Field(b, "once", "false"), fired |-> "false"]
ApplyCreatureSpawnerDef(b) == ApplySpawnerDef(b, "on_enter", 1)
ApplyLootSpawnerDef(b) == ApplySpawnerDef(b, "on_open", 4) ++ Fires(b)
ApplyResourceSpawnerDef(b) == ApplySpawnerDef(b, "on_harvest", 4) ++ Fires(b)

\* spawn_templates_to_property leaves the react of a @behavior line out, which
\* resolve_spawn_template looks for.
SpawnTemplates(templates) == [i \in DOMAIN templates |->
    [base_name |-> templates[i].name, name |-> Field(templates[i], "name", templates[i].name),
     creature |-> Field(templates[i], "creature", "human"),
     behaviors |-> [j \in DOMAIN Notes(templates[i], "behavior") |->
                      [Notes(templates[i], "behavior")[j] EXCEPT !.react = ""]],
     use_behaviors |-> [j \in DOMAIN Notes(templates[i], "use") |-> Notes(templates[i], "use")[j].key],
     triggers |-> Notes(templates[i], "trigger")]]
LootTemplates(templates) == [i \in DOMAIN templates |->
    [base_name |-> templates[i].name, prototype |-> Field(templates[i], "prototype", ""),
     count |-> AtLeast(Field(templates[i], "count", 1), 1, 1)]]
ResourceTemplates(templates) == LootTemplates(templates)
BehaviorTemplates(defs) == [i \in DOMAIN defs |->
    [k \in DOMAIN defs[i] \ {"name"} |-> defs[i][k]] ++ [base_name |-> defs[i].name]]

(***************************************************************************)
(* Spawners: what is read back when an event runs them.                    *)
(***************************************************************************)

\* spawner_trigger and its like: of what is not stored, the default.
ReadNumbers(o, most) ==
    [chance |-> Percent(Get(o, "chance", 100)), max_active |-> AtLeast(Get(o, "max_active", most), 0, 0),
     interval |-> AtLeast(Get(o, "interval", 5), 1, 1), spawn_count |-> AtLeast(Get(o, "spawn_count", 0), 0, 0)]
ReadCreatureSpawner(o) == ReadNumbers(o, 1) ++ [trigger |-> CreatureTrigger(Get(o, "trigger", "on_enter"))]
ReadLootSpawner(o) ==
    ReadNumbers(o, 4) ++ [trigger |-> LootTrigger(Get(o, "trigger", "on_open")), once |-> Is(o, "once")]
ReadResourceSpawner(o) ==
    ReadNumbers(o, 4) ++ [trigger |-> ResourceTrigger(Get(o, "trigger", "on_enter")), once |-> Is(o, "once")]

\* spawner_entries: a weight that is not there is 1.
ReadEntries(o) ==
    LET named == SelectSeq(Get(o, "entries", <<>>), LAMBDA m : Has(m, "template")) IN
      [i \in DOMAIN named |-> [template |-> named[i].template, weight |-> Get(named[i], "weight", 1)]]

\* pick_weighted_entry: the seed, cut to the sum of the weights, falls into
\* the share of an entry.
UpTo(entries, i) == FoldLeft(LAMBDA sum, e : sum + AtLeast(e.weight, 1, 1), 0, SubSeq(entries, 1, i))
TotalWeight(entries) == UpTo(entries, Len(entries))
PickWeighted(entries, seed) ==
    LET roll == seed % TotalWeight(entries) IN
      entries[CHOOSE i \in DOMAIN entries : roll < UpTo(entries, i) /\ UpTo(entries, i - 1) <= roll]

\* The first that has the name.
Resolved(stored, name) ==
    LET known == {i \in DOMAIN stored : stored[i].base_name = name} IN
      IF known = {} THEN Nothing ELSE stored[CHOOSE i \in known : \A j \in known : i <= j]
ResolveSpawnTemplate(o, name) == Resolved(Get(o, "spawn_templates", <<>>), name)
ResolveLootTemplate(o, name) == Resolved(Get(o, "loot_templates", <<>>), name)
ResolveResourceTemplate(o, name) == Resolved(Get(o, "resource_templates", <<>>), name)

\* resolve_behavior_templates: reactions are parsed and numbers bounded again.
ResolveBehaviorTemplates(o) ==
    LET stored == Get(o, "behavior_templates", <<>>) IN
      [i \in DOMAIN stored |->
        [k \in DOMAIN stored[i] \ {"base_name"} |->
           CASE k \in {"react", "on_discovered_react"} -> React(stored[i][k])
             [] k = "wander_interval" -> AtLeast(stored[i][k], 3, 1)
             [] OTHER -> stored[i][k]]
        ++ [name |-> stored[i].base_name]]

\* spawn_creature: what no @creature describes is given the usual health here.
Spawned(o, t, defs) ==
    WithBehaviors(Unset(InitCreature(t.creature, defs), [health |-> 100, max_health |-> 100]),
                  t.behaviors, t.use_behaviors, ResolveBehaviorTemplates(o))

\* register_schedule_job: a job whose id is there already is not added.
RegisterJob(jobs, b, host) ==
    IF \E i \in DOMAIN jobs : jobs[i].id = b.name THEN jobs
    ELSE Append(jobs, [id |-> b.name, event |-> Field(b, "event", ""),
                       interval |-> Field(b, "interval", 1), host |-> host])
=============================================================================
