-------------------------------- MODULE Mudl --------------------------------
(***************************************************************************)
(* The parsers of MUDL files.  Every file is given to all of them, line by *)
(* line: each knows its own blocks and skips what it does not know, so     *)
(* what keeps the definitions of one file apart is only which parser has a *)
(* block open when a line comes by.                                        *)
(*                                                                         *)
(* A line is its tag, its first word and its value.  Numbers are given as  *)
(* numbers, Unparsable stands for text where a number was expected, and    *)
(* chances are percents.                                                   *)
(***************************************************************************)
EXTENDS Integers, Sequences, SequencesExt

CONSTANT Unparsable   \* a number less than 0: what u32::from_str refuses

Nothing == [kind |-> "none"]
Empty == [k \in {} |-> ""]
\* What two maps say, the first of them where both do; and a map of one key.
a ++ b == [k \in DOMAIN a \cup DOMAIN b |-> IF k \in DOMAIN a THEN a[k] ELSE b[k]]
Only(key, v) == [k \in {key} |-> v]

\* A block that was opened: the values of its keys, last one wins, and the
\* lines of the kinds it collects, in order.
Block(kind, name) == [kind |-> kind, name |-> name, fields |-> Empty, notes |-> <<>>]

With(b, field, v) == [b EXCEPT !.fields = Only(field, v) ++ @]
Field(b, field, default) == IF field \in DOMAIN b.fields THEN b.fields[field] ELSE default
Without(b, field) == [b EXCEPT !.fields = [k \in DOMAIN @ \ {field} |-> @[k]]]
Noted(b, l) == [b EXCEPT !.notes = Append(@, l)]
NotedOnce(b, l) == IF Contains(b.notes, l) THEN b ELSE Noted(b, l)
Notes(b, tag) == SelectSeq(b.notes, LAMBDA l : l.tag = tag)

(***************************************************************************)
(* Keys.  One thing has several spellings; a number that does not parse    *)
(* leaves a default, or is as if it were not written.                      *)
(***************************************************************************)

\* value.parse().unwrap_or(default).max(least) for an unsigned number.
AtLeast(v, default, least) ==
    LET n == IF v < 0 THEN default ELSE v IN IF n < least THEN least ELSE n
\* ... for a signed one, which may be negative.
Signed(v, default, least) ==
    LET n == IF v = Unparsable THEN default ELSE v IN IF n < least THEN least ELSE n
\* chance: clamp(0.0, 1.0).
Percent(v) ==
    LET n == IF v = Unparsable THEN 100 ELSE v IN
      IF n < 0 THEN 0 ELSE IF n > 100 THEN 100 ELSE n

\* CreatureReact::parse, SpawnerTrigger::parse, LootSpawnerTrigger::parse and
\* ResourceSpawnerTrigger::parse: what is not understood is the default.
React(v) ==
    CASE v \in {"warn", "guard"} -> "warn"
      [] v \in {"attack", "aggressive"} -> "attack"
      [] v \in {"flee", "coward", "passive_flee"} -> "flee"
      [] v \in {"wander", "roam"} -> "wander"
      [] v \in {"greet", "hello", "welcome"} -> "greet"
      [] OTHER -> "ignore"
CreatureTrigger(v) == IF v = "periodic" THEN v ELSE "on_enter"
LootTrigger(v) ==
    CASE v \in {"on_open", "open"} -> "on_open"
      [] v \in {"on_kill", "kill"} -> "on_kill"
      [] v \in {"on_break", "break"} -> "on_break"
      [] v \in {"timer", "periodic"} -> "timer"
      [] OTHER -> "on_enter"
ResourceTrigger(v) ==
    CASE v \in {"on_harvest", "harvest"} -> "on_harvest"
      [] v \in {"timer", "periodic"} -> "timer"
      [] OTHER -> "on_enter"

\* MudlRoleProps::from_pairs: the property a key stands for.
Property(k) ==
    CASE k \in {"open"} -> "is_open"
      [] k \in {"is_pocketable"} -> "pocketable"
      [] k \in {"is_readable"} -> "readable"
      [] k \in {"text"} -> "read_text"
      [] k \in {"is_writable"} -> "writable"
      [] k \in {"is_locked"} -> "locked"
      [] k \in {"key"} -> "is_key"
      [] k \in {"consumable_key"} -> "key_consumable"
      [] k \in {"consumable_lock"} -> "lock_consumable"
      [] k \in {"door"} -> "is_door"
      [] k \in {"window"} -> "is_window"
      [] k \in {"portal"} -> "portal_kind"
      [] k \in {"portal_direction", "direction"} -> "door_direction"
      [] k \in {"portal_destination", "destination"} -> "door_destination"
      [] k \in {"passable"} -> "portal_passable"
      [] k \in {"transparent"} -> "portal_transparent"
      [] k \in {"carry_bonus", "max_weight_bonus"} -> "mod_max_weight"
      [] k \in {"encumbrance_factor", "encumbrance_reduction"} -> "mod_encumbrance"
      [] k \in {"mod_health", "health_bonus"} -> "mod_max_health"
      [] k \in {"is_breakable"} -> "breakable"
      [] k \in {"on_break"} -> "break_text"
      [] k \in {"is_harvestable"} -> "harvestable"
      [] k \in {"hidden"} -> "hidden_until_discovered"
      [] k \in {"stealth"} -> "discovery_stealth"
      [] OTHER -> k

Numbers == {"capacity", "max_weight", "max_volume", "weight", "volume", "stack_count",
            "max_stack", "mod_max_weight", "mod_encumbrance", "mod_max_health",
            "discovery_stealth"}
Texts == {"wear_slot", "hand_slot", "read_text", "write_text", "lock_id", "allowed_types",
          "portal_kind", "door_direction", "door_destination", "break_text"}
Flags == {"is_container", "is_open", "is_wearable", "pocketable", "stackable", "readable",
          "writable", "locked", "is_key", "key_consumable", "lock_consumable", "is_door",
          "is_window", "portal_passable", "portal_transparent", "breakable", "harvestable",
          "hidden_until_discovered"}

\* merge_props: what was written wins over what was there.  It has no line
\* for consumable, which from_pairs does read.
MergeProps(b, k, v) ==
    LET p == Property(k) IN
      CASE p \in Numbers -> IF v = Unparsable THEN b ELSE With(b, p, v)
        [] p \in Texts -> With(b, p, v)
        [] p \in Flags -> With(b, p, IF v = "true" THEN "true" ELSE "false")
        [] p \in {"grant_effect", "effect"} -> NotedOnce(b, [tag |-> "grant", key |-> v, value |-> ""])
        [] OTHER -> b

\* apply_kv: an alias is added; of a prototype, location and prototype are
\* read into variables nobody looks at.
ApplyKv(b, k, v) ==
    CASE k \in {"name", "description"} -> With(b, k, v)
      [] k \in {"location", "prototype"} -> IF b.kind = "item" THEN With(b, k, v) ELSE b
      [] k = "alias" -> Noted(b, [tag |-> "alias", key |-> v, value |-> ""])
      [] OTHER -> MergeProps(b, k, v)

(***************************************************************************)
(* What an open block takes from a line.                                   *)
(***************************************************************************)

\* parse_behavior_line: a react directive, its shorthand, or a script; a
\* script without text is dropped.
BehaviorLine(l) ==
    CASE l.action = "react" /\ l.text # "" -> <<[l EXCEPT !.action = "", !.text = "", !.react = React(l.text)]>>
      [] l.text = "" /\ l.key \in {"on_enter", "on_discovered"} ->
           IF React(l.action) # "ignore" \/ l.action = "ignore"
           THEN <<[l EXCEPT !.action = "", !.react = React(l.action)]>>
           ELSE <<>>
      [] l.text = "" -> <<>>
      [] OTHER -> <<l>>

Behaved(b, l) == IF BehaviorLine(l) = <<>> THEN b ELSE Noted(b, BehaviorLine(l)[1])

\* @trigger, @mod-stat, @mod-skill, @grant-effect and key = value.
ItemTakes(b, l) ==
    CASE l.tag = "trigger" -> Noted(b, l)
      [] l.tag \in {"mod-stat", "mod-skill"} /\ l.value # Unparsable ->
           [b EXCEPT !.notes = Append(SelectSeq(@, LAMBDA n : n.tag # l.tag \/ n.key # l.key), l)]
      [] l.tag = "grant" -> NotedOnce(b, l)
      [] l.tag = "set" -> ApplyKv(b, l.key, l.value)
      [] OTHER -> b

NpcTakes(b, l) ==
    CASE l.tag = "trigger" -> Noted(b, l)
      [] l.tag = "use" -> NotedOnce(b, l)
      [] l.tag = "behavior" -> Behaved(b, l)
      [] l.tag = "set" /\ l.key \in {"name", "creature", "location"} -> With(b, l.key, l.value)
      [] OTHER -> b

\* @stat and @skill belong to creatures; templates and effects have keys, of
\* which those that begin with mod_stat_ and mod_skill_ are one each here.
EffectKey(k) ==
    CASE k \in {"mod_health"} -> "mod_max_health"
      [] k = "regen" -> "regen_on_enter"
      [] k \in {"cure_tag", "cures"} -> "cure_tags"
      [] k \in {"condition", "kind"} -> "condition_type"
      [] k \in {"dot", "damage_per_tick"} -> "damage_on_tick"
      [] k \in {"hot", "heal_per_tick", "regen_per_tick"} -> "heal_on_tick"
      [] k = "tick_event" -> "tick_on"
      [] k \in {"duration", "ticks"} -> "duration_ticks"
      [] OTHER -> k
EffectTakes(b, l) ==
    LET k == EffectKey(l.key) IN
      CASE k \in {"damage_on_tick", "heal_on_tick", "duration_ticks"} -> With(b, k, Signed(l.value, 0, 0))
        [] k \in {"mod_max_health", "mod_max_weight", "regen_on_enter"} ->
             With(b, k, IF l.value = Unparsable THEN 0 ELSE l.value)
        [] k = "mod_encumbrance" -> With(b, k, IF l.value = Unparsable THEN 100 ELSE l.value)
        [] k \in {"mod_stat", "mod_skill"} -> IF l.value = Unparsable THEN b ELSE With(b, k, l.value)
        [] k \in {"condition_type", "tick_on", "cure_tags"} -> With(b, k, l.value)
        [] OTHER -> b
CreatureTakes(b, l) ==
    CASE l.tag = "slot" /\ b.kind = "creature" -> Noted(b, l)
      [] l.tag \in {"stat", "skill"} /\ b.kind = "creature" ->
           IF l.value = Unparsable THEN b ELSE With(b, l.key, l.value)
      [] l.tag = "set" /\ b.kind = "creature" /\ l.key = "max_health" ->
           With(b, "max_health", IF l.value = Unparsable THEN 100 ELSE l.value)
      [] l.tag = "set" /\ b.kind = "creature" /\ l.key = "base_max_weight" ->
           IF l.value = Unparsable THEN Without(b, l.key) ELSE With(b, l.key, l.value)
      [] l.tag = "set" /\ b.kind = "player-template" /\ l.key \in {"creature", "body_plan"} ->
           With(b, "creature", l.value)
      [] l.tag = "set" /\ b.kind = "player-template" /\ l.key = "gender" -> With(b, "gender", l.value)
      [] l.tag = "set" /\ b.kind = "effect" -> EffectTakes(b, l)
      [] OTHER -> b

\* @entry: a weight that does not parse is 1.
Entered(b, l) == Noted(b, [l EXCEPT !.value = IF @ < 0 THEN 1 ELSE @])

SpawnerTakes(b, l) ==
    IF b.kind = "spawn-template"
    THEN IF l.tag = "set" /\ l.key = "location" THEN b ELSE NpcTakes(b, l)
    ELSE CASE l.tag = "entry" -> Entered(b, l)
           [] l.tag # "set" -> b
           [] l.key = "location" -> With(b, "location", l.value)
           [] l.key \in {"target", "attach"} -> With(b, "target", l.value)
           [] l.key = "trigger" -> With(b, "trigger", CreatureTrigger(l.value))
           [] l.key = "periodic_interval" -> With(b, "interval", AtLeast(l.value, 5, 1))
           [] l.key = "chance" -> With(b, "chance", Percent(l.value))
           [] l.key = "max_active" -> With(b, "max_active", AtLeast(l.value, 1, 0))
           [] OTHER -> b

TemplateTakes(b, l) ==
    CASE l.tag = "set" /\ l.key = "prototype" -> With(b, "prototype", l.value)
      [] l.tag = "set" /\ l.key = "count" -> With(b, "count", AtLeast(l.value, 1, 1))
      [] OTHER -> b

DropTakes(b, l, trigger) ==
    CASE l.tag = "entry" -> Entered(b, l)
      [] l.tag # "set" -> b
      [] l.key \in {"target", "location", "attach"} -> With(b, "target", l.value)
      [] l.key = "trigger" -> With(b, "trigger", trigger)
      [] l.key \in {"periodic_interval", "interval"} -> With(b, "interval", AtLeast(l.value, 5, 1))
      [] l.key = "chance" -> With(b, "chance", Percent(l.value))
      [] l.key = "max_active" -> With(b, "max_active", AtLeast(l.value, 4, 0))
      [] l.key = "once" -> With(b, "once", IF l.value = "true" THEN "true" ELSE "false")
      [] OTHER -> b
LootTakes(b, l) ==
    IF b.kind = "loot-template" THEN TemplateTakes(b, l) ELSE DropTakes(b, l, LootTrigger(l.value))
ResourceTakes(b, l) ==
    IF b.kind = "resource-template" THEN TemplateTakes(b, l) ELSE DropTakes(b, l, ResourceTrigger(l.value))

ScheduleTakes(b, l) ==
    CASE l.tag # "set" -> b
      [] l.key \in {"target", "location", "attach"} -> With(b, "target", l.value)
      [] l.key \in {"interval", "every", "periodic_interval"} -> With(b, "interval", AtLeast(l.value, 1, 1))
      [] l.key \in {"event", "on_tick", "trigger"} -> With(b, "event", l.value)
      [] OTHER -> b

BehaviorTakes(b, l) ==
    CASE l.tag # "set" -> b
      [] l.key = "react" -> With(b, "react", React(l.value))
      [] l.key \in {"on_discovered_react", "discovered_react"} -> With(b, "on_discovered_react", React(l.value))
      [] l.key \in {"on_enter", "on_discovered"} -> With(b, l.key, l.value)
      [] l.key \in {"wander_interval", "interval"} -> With(b, "wander_interval", AtLeast(l.value, 3, 1))
      [] l.key \in {"attack_damage", "damage"} -> With(b, "attack_damage", Signed(l.value, 8, 0))
      [] l.key \in {"awareness_check", "awareness"} ->
           With(b, "awareness_check", IF l.value \in {"true", "yes", "1"} THEN "true" ELSE "false")
      [] l.key = "perception" -> IF l.value = Unparsable THEN Without(b, l.key) ELSE With(b, l.key, l.value)
      [] l.key \in {"grant_effect_on_hit", "on_hit_effect", "venom"} -> With(b, "on_hit", l.value)
      [] OTHER -> b

(***************************************************************************)
(* The parsers of @ blocks: the block that is open and those that are done.*)
(***************************************************************************)

Fresh == [open |-> Nothing, done |-> <<>>]
Push(st) == IF st.open = Nothing THEN st.done ELSE Append(st.done, st.open)

\* One line for a parser of the blocks kinds, whose open block becomes taken.
\* Opening a block while another one is open keeps or drops that one.
BlockLine(st, l, kinds, closes, keeps, taken) ==
    CASE closes -> [open |-> Nothing, done |-> Push(st)]
      [] l.tag = "open" /\ l.key \in kinds ->
           [open |-> Block(l.key, l.value),
            done |-> IF st.open # Nothing /\ keeps THEN Push(st) ELSE st.done]
      [] st.open # Nothing -> [st EXCEPT !.open = taken]
      [] OTHER -> st

\* Mutant: a block is closed by a blank line as well.
EndOrBlank(l) == l.tag \in {"end", "blank"}
End(l) == l.tag = "end"
EndOrBrace(l) == l.tag \in {"end", "brace"}

ItemLine(st, l) == BlockLine(st, l, {"prototype", "item"}, End(l), st.open.kind = l.key, ItemTakes(st.open, l))
NpcLine(st, l) == BlockLine(st, l, {"npc"}, End(l), FALSE, NpcTakes(st.open, l))
AnatomyLine(st, l) ==
    BlockLine(st, l, {"creature", "effect", "player-template"}, EndOrBrace(l), FALSE, CreatureTakes(st.open, l))
SpawnerLine(st, l) == BlockLine(st, l, {"spawn-template", "spawner"}, End(l), TRUE, SpawnerTakes(st.open, l))
LootLine(st, l) == BlockLine(st, l, {"loot-template", "loot-spawner"}, End(l), TRUE, LootTakes(st.open, l))
ResourceLine(st, l) ==
    BlockLine(st, l, {"resource-template", "resource-spawner"}, End(l), TRUE, ResourceTakes(st.open, l))
ScheduleLine(st, l) == BlockLine(st, l, {"schedule"}, End(l), TRUE, ScheduleTakes(st.open, l))
BehaviorFileLine(st, l) == BlockLine(st, l, {"behavior-template"}, End(l), TRUE, BehaviorTakes(st.open, l))

(***************************************************************************)
(* parse_world_file: places are paragraphs of "key: value" lines.          *)
(***************************************************************************)

Unknown == "unknown"
NoPlace == [kind |-> "room", name |-> Unknown, fields |-> Empty,
            exits |-> Empty, exit_aliases |-> Empty, exit_returns |-> Empty, notes |-> <<>>]
Sections == {"exits", "exit_aliases", "exit_returns"}
FreshMap == [place |-> NoPlace, section |-> "", places |-> <<>>, start |-> ""]

\* A paragraph ends: a config block gives the start of the world, which is
\* forgotten again when a later one has none.  What has no base_name goes on.
EndOfPlace(st) ==
    CASE st.place.name = Unknown -> st
      [] st.place.kind = "config" ->
           [st EXCEPT !.start = Field(st.place, "starting_location", ""), !.place = NoPlace, !.section = ""]
      [] OTHER -> [st EXCEPT !.places = Append(@, st.place), !.place = NoPlace, !.section = ""]

\* Lines of other parsers' blocks are skipped, but not their @trigger lines:
\* those are added to the place that is being read, or that comes next.
Lasting == {"scatter_to", "scatter_direction", "loop_to"}
PlaceLine(st, l) ==
    CASE l.tag = "blank" -> EndOfPlace(st)
      [] l.tag = "trigger" -> [st EXCEPT !.section = "", !.place = Noted(@, l)]
      [] l.tag = "section" -> [st EXCEPT !.section = l.key]
      [] l.tag # "colon" -> st
      [] l.key \in Lasting -> [st EXCEPT !.section = "", !.place = With(@, l.key, l.value)]
      [] st.section # "" ->
           [st EXCEPT !.place[st.section] =
              [k \in DOMAIN @ \cup {l.key} |-> IF k = l.key THEN l.value ELSE @[k]]]
      [] l.key = "type" -> [st EXCEPT !.place.kind = l.value]
      [] l.key = "base_name" -> [st EXCEPT !.place.name = l.value]
      [] l.key \in {"name", "description", "location", "starting_location"} ->
           [st EXCEPT !.place = With(@, l.key, l.value)]
      [] OTHER -> st

(***************************************************************************)
(* A file, read by all of them.                                            *)
(***************************************************************************)

Parsers == {"item", "npc", "anatomy", "spawner", "loot", "resource", "schedule", "behavior"}
FreshFile == [p \in Parsers |-> Fresh]

FileLine(st, l) == [p \in Parsers |->
    CASE p = "item" -> ItemLine(st[p], l)
      [] p = "npc" -> NpcLine(st[p], l)
      [] p = "anatomy" -> AnatomyLine(st[p], l)
      [] p = "spawner" -> SpawnerLine(st[p], l)
      [] p = "loot" -> LootLine(st[p], l)
      [] p = "resource" -> ResourceLine(st[p], l)
      [] p = "schedule" -> ScheduleLine(st[p], l)
      [] OTHER -> BehaviorFileLine(st[p], l)]

\* At the end of a file the parsers of @npc and of creatures forget a block
\* that has no @end; the others keep it.
Forgetful == {"npc", "anatomy"}
FileEnds(st) == [p \in Parsers |-> IF p \in Forgetful THEN st[p].done ELSE Push(st[p])]
=============================================================================
