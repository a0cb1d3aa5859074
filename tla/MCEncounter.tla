------------------------------ MODULE MCEncounter ------------------------------
(***************************************************************************)
(* A player, a lurking goblin and a timid rat in a hall and a cave that *)
(* poisons; a sword that is worn and a ring that is hidden in the cave.    *)
(***************************************************************************)
EXTENDS Encounter, TLC

CONSTANTS ann, bob, goblin, rat, sword, ring, hall, cave

Named == (ann :> "ann") @@ (bob :> "bob") @@ (goblin :> "goblin") @@ (rat :> "rat")
Names == [c \in Creatures |-> Named[c]]

Effect(type, duration, damage, heal, stats) ==
    [type |-> type, cures |-> {}, on |-> "on_enter", duration |-> duration, damage |-> damage,
     heal |-> heal, regen |-> 0, max_health |-> 0, stats |-> stats, skills |-> NoSkills]

EffectDefs ==
       ("venom" :> Effect("poison", 2, 1, 0, [NoStats EXCEPT !["strength"] = -2]))
    @@ ("might" :> Effect("boon", 2, 0, 1, [NoStats EXCEPT !["strength"] = 3]))

Worn(max, strength, grants) ==
    [max_health |-> max, stats |-> [NoStats EXCEPT !["strength"] = strength],
     skills |-> NoSkills, grants |-> grants]

Things == (sword :> Worn(0, 2, <<>>)) @@ (ring :> Worn(2, 0, <<"might">>))
GearDefs == [i \in Items |-> Things[i]]

TemplateDefs ==
    "lurker" :> [react |-> "attack", attack_damage |-> 2, awareness_check |-> "none", perception |-> 1,
                 on_discovered_react |-> "flee", grant_effect_on_hit |-> "venom"]

Used == [n \in Npcs |-> IF n = goblin THEN <<"lurker">> ELSE <<>>]
Inline == [n \in Npcs |-> IF n = rat THEN <<[event |-> "on_enter", react |-> "warn"]>> ELSE <<>>]

Do(act, who, name, value) == [act |-> act, who |-> who, name |-> name, value |-> value]
Always(do) == [when |-> <<>>, do |-> do]
When(cond, do) == [when |-> <<cond>>, do |-> do]
If(kind, who, name, op, value, not) ==
    [kind |-> kind, who |-> who, name |-> name, op |-> op, value |-> value, not |-> not]

Quiet == [e \in Events |-> <<>>]
Scripts ==
    [h \in Creatures \cup Items \cup Rooms |->
        CASE h = cave -> [Quiet EXCEPT
                !["on_enter"] = <<When(If("effect", "actor", "venom", "equals", 0, TRUE),
                                       Do("grant_effect", "actor", "venom", 0))>>,
                !["on_leave"] = <<When(If("health", "actor", "", "at_most", 2, FALSE),
                                       Do("cure_tag", "actor", "poison", 0))>>]
          [] h = goblin -> [Quiet EXCEPT
                !["on_death"] = <<Always(Do("grant_effect", "actor", "might", 0))>>]
          [] h = rat -> [Quiet EXCEPT
                !["on_enter"] = <<When(If("stat", "actor", "strength", "at_least", 1, FALSE),
                                       Do("react", "host", "flee", 0)),
                                  Always(Do("stop", "host", "", 0))>>,
                !["on_death"] = <<Always(Do("damage", "actor", "", 1))>>]
          [] h = ring -> [Quiet EXCEPT
                !["on_discovered"] = <<Always(Do("heal", "actor", "", 2))>>]
          [] OTHER -> Quiet]

Around == [r \in Rooms |-> IF r = cave THEN Rooms ELSE {cave}]
Onward == [r \in Rooms |-> CHOOSE x \in Rooms : x # r]
InCircles == [Onward EXCEPT ![cave] = cave]
\* The goblin may come upon the exit of the cave that leads into the cave.
Drawn == {[h \in Creatures \cup Items \cup Rooms |-> IF h = goblin THEN way ELSE Onward] :
              way \in {Onward, InCircles}}
NoChances == {}
Seed == [ids \in (Creatures \X Creatures \X Rooms) |-> 1]

Creature(id, kind, room, health, uses, worn, tough) ==
    [id |-> id, kind |-> kind, active |-> TRUE, location |-> room, owner |-> id,
     home |-> IF kind = "player" THEN hall ELSE Nobody,
     health |-> health, max_health |-> health,
     stats |-> [NoStats EXCEPT !["strength"] = 1, !["dexterity"] = 2, !["constitution"] = tough],
     skills |-> NoSkills, skill_xp |-> NoSkills,
     active_effects |-> <<>>, condition_ticks |-> [x \in {} |-> 0],
     stat_mods |-> NoStats, skill_mods |-> NoSkills, body |-> worn,
     creature_aware |-> ~uses, player_aware |-> TRUE, player_discovered |-> FALSE,
     uses_awareness_check |-> uses, perception |-> IF uses THEN 1 ELSE 0]

Thing(where, hidden) ==
    [active |-> TRUE, location |-> where, hidden |-> hidden, player_discovered |-> FALSE]

World ==
       (ann :> Creature(ann, "player", hall, 3, FALSE, {}, 0))
    @@ (bob :> Creature(bob, "player", cave, 4, FALSE, {}, 0))
    @@ (goblin :> Creature(goblin, "npc", cave, 2, TRUE, {sword}, 9))
    @@ (rat :> Creature(rat, "npc", hall, 1, FALSE, {}, 0))
    @@ (sword :> Thing(goblin, FALSE))
    @@ (ring :> Thing(cave, TRUE))
    @@ [r \in Rooms |-> [active |-> TRUE]]

Begin == [id \in Creatures \cup Items \cup Rooms |-> World[id]]
Hiding == [i \in Items |-> 2]

\* What a command marked matters only to the step that did.
Graph == <<obj, session, flight>>
================================================================================
