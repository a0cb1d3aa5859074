------------------------------ MODULE Creature ------------------------------
(***************************************************************************)
(* What a creature is and how its numbers change: health, effects with a   *)
(* duration, what worn gear adds, skill ranks, awareness scores, and the   *)
(* behaviours a module gives it.                                           *)
(*                                                                         *)
(* Everything here is a function of the object map o, as in the code; the  *)
(* modules that extend this one say when it is applied.  Weights and       *)
(* encumbrance factors are left out, and so are all texts.                 *)
(***************************************************************************)
EXTENDS Integers, FiniteSetsExt, SequencesExt, Functions

CONSTANTS
    Players, Npcs, Items, Rooms,
    Name,         \* the slug of each creature's name
    Effects,      \* @effect definitions, by name
    Gear,         \* what each item adds while it is worn
    Templates,    \* @behavior-template definitions, by name
    UseBehaviors, \* the templates of each NPC, in order
    Scripted,     \* its inline @behavior reactions, in order
    Nobody        \* where no object is meant

Creatures == Players \cup Npcs
Stats == {"strength", "constitution", "dexterity", "wisdom", "speed"}
Skills == {"combat", "stealth", "survival"}
Reacts == {"ignore", "greet", "warn", "attack", "flee", "wander"}

NoStats == [s \in Stats |-> 0]
NoSkills == [k \in Skills |-> 0]

DefaultAttackDamage == 8
SurpriseDamageBonus == 3
SkillXpPerRank == 5

\* EffectDef: what one effect does while it is active and on each tick.
EffectDef ==
    [type : STRING, cures : SUBSET STRING, on : STRING, duration : Nat,
     damage : Nat, heal : Nat, regen : Nat, max_health : Int,
     stats : [Stats -> Int], skills : [Skills -> Int]]

ASSUME EffectsAssumption == \A e \in DOMAIN Effects : Effects[e] \in EffectDef

\* No object is of two kinds, and what gear adds are numbers.
ASSUME KindsAssumption ==
    /\ Players \cap Npcs = {} /\ Creatures \cap (Items \cup Rooms) = {} /\ Items \cap Rooms = {}
    /\ Nobody \notin Creatures \cup Items \cup Rooms
    /\ IsFiniteSet(Creatures) /\ IsFiniteSet(Items)
    /\ Gear \in [Items -> [max_health : Int, stats : [Stats -> Int], skills : [Skills -> Int], grants : Seq(STRING)]]

AtLeast(low, n) == IF n < low THEN low ELSE n
AtMost(high, n) == IF n > high THEN high ELSE n

(***************************************************************************)
(* Effects                                                                 *)
(***************************************************************************)

\* collect_active_effect_modifiers: effects the registry does not know add nothing.
ActiveModifiers(c) ==
    LET known == {i \in DOMAIN c.active_effects : c.active_effects[i] \in DOMAIN Effects}
    IN  [i \in known |-> Effects[c.active_effects[i]]]

\* EquipmentModifiers::merge, for one stat, one skill and for health.
SumOfStats(mods, s) == MapThenSumSet(LAMBDA m : mods[m].stats[s], DOMAIN mods)
SumOfSkills(mods, k) == MapThenSumSet(LAMBDA m : mods[m].skills[k], DOMAIN mods)
SumOfMaxHealth(mods) == MapThenSumSet(LAMBDA m : mods[m].max_health, DOMAIN mods)

StatMods(c) == [s \in Stats |-> SumOfStats(ActiveModifiers(c), s)]
SkillMods(c) == [k \in Skills |-> SumOfSkills(ActiveModifiers(c), k)]

\* refresh_effect_derived_properties
Refreshed(c) == [c EXCEPT !.stat_mods = StatMods(c), !.skill_mods = SkillMods(c)]

\* set_effect_duration
WithDuration(ticks, e, n) ==
    IF n > 0
    THEN [x \in DOMAIN ticks \cup {e} |-> IF x = e THEN n ELSE ticks[x]]
    ELSE Restrict(ticks, DOMAIN ticks \ {e})

\* A second dose of an active effect only starts its duration again.
ApplyCondition(c, e) ==
    IF e \notin DOMAIN Effects THEN c
    ELSE Refreshed([c EXCEPT
            !.active_effects = IF Contains(@, e) THEN @ ELSE Append(@, e),
            !.condition_ticks = IF Effects[e].duration > 0
                                THEN WithDuration(@, e, Effects[e].duration) ELSE @])

\* remove_effect.  What stays is gathered one by one (as a fold, which can be
\* reasoned about).
Without(s, e) == FoldLeft(LAMBDA left, x : IF x = e THEN left ELSE Append(left, x), <<>>, s)
RemoveEffect(c, e) == Refreshed([c EXCEPT !.active_effects = Without(@, e)])

\* (Mutant: its duration stays.)
KeepTicks(c, e) == RemoveEffect(c, e)
RemoveCondition(c, e) ==
    [RemoveEffect(c, e) EXCEPT !.condition_ticks = WithDuration(@, e, 0)]

EffectMatchesTag(e, tag) == Effects[e].type = tag \/ tag \in Effects[e].cures

HasConditionTag(c, tag) ==
    \E i \in DOMAIN ActiveModifiers(c) : EffectMatchesTag(c.active_effects[i], tag)

Cured(c, tag) ==
    FoldLeft(LAMBDA found, e : IF e \in DOMAIN Effects /\ EffectMatchesTag(e, tag) THEN Append(found, e) ELSE found,
             <<>>, c.active_effects)

CureByTag(c, tag) == FoldLeft(RemoveCondition, c, Cured(c, tag))

(***************************************************************************)
(* Health                                                                  *)
(***************************************************************************)

CreatureHealth(c) == AtLeast(0, c.health)
IsDefeated(c) == CreatureHealth(c) = 0

\* With the base and the active effects, without what is worn.
CreatureMaxHealth(c) ==
    AtLeast(1, AtLeast(1, c.max_health) + SumOfMaxHealth(ActiveModifiers(c)))

\* apply_damage and heal_creature.
ApplyDamage(c, n) == [c EXCEPT !.health = AtLeast(0, CreatureHealth(c) - AtLeast(0, n))]
Heal(c, n) == [c EXCEPT !.health = AtMost(CreatureMaxHealth(c), CreatureHealth(c) + AtLeast(0, n))]

\* One active effect of tick_conditions; expired ones are dropped by the caller.
TickEffect(event, t, e) ==
    LET def == Effects[e]
        hurt == IF def.damage > 0 /\ ~IsDefeated(t.c) THEN ApplyDamage(t.c, def.damage) ELSE t.c
        mended == IF def.heal > 0 /\ ~IsDefeated(hurt) THEN Heal(hurt, def.heal) ELSE hurt
        counted == def.duration > 0 /\ e \in DOMAIN t.ticks
    IN  IF e \notin DOMAIN Effects \/ def.on # event THEN t
        ELSE [c |-> mended,
              ticks |-> IF counted THEN [t.ticks EXCEPT ![e] = @ - 1] ELSE t.ticks,
              expired |-> IF counted /\ t.ticks[e] <= 1 THEN Append(t.expired, e) ELSE t.expired,
              dirty |-> \/ t.dirty
                        \/ def.damage > 0 /\ ~IsDefeated(t.c)
                        \/ def.heal > 0 /\ ~IsDefeated(hurt)]

\* What expired on a tick is taken away.  The outcome is dirty when health was
\* touched or an effect ended; a count that merely went down is not reported.
Settled(t) ==
    LET left == Restrict(t.ticks, DOMAIN t.ticks \ ToSet(t.expired))
        done == FoldLeft(RemoveCondition, [t.c EXCEPT !.condition_ticks = left], t.expired)
        dirty == t.dirty \/ t.expired # <<>>
    IN  [c |-> IF dirty THEN Refreshed(done) ELSE done, dirty |-> dirty]

TickConditions(c, event) ==
    LET start == [c |-> c, ticks |-> c.condition_ticks, expired |-> <<>>, dirty |-> FALSE]
    IN  Settled(FoldLeft(LAMBDA acc, e : TickEffect(event, acc, e), start, c.active_effects))

(***************************************************************************)
(* Gear                                                                    *)
(***************************************************************************)

WornActive(c, o) == {i \in c.body : i \in DOMAIN o /\ o[i].active}

\* collect_equipment_modifiers: the effects that the items grant, by item and
\* index, and the items themselves, at index 0; only effects regenerate.
GrantedModifiers(c, o) ==
    LET granted == {g \in UNION {{<<i, n>> : n \in DOMAIN Gear[i].grants} : i \in WornActive(c, o)} :
                      Gear[g[1]].grants[g[2]] \in DOMAIN Effects}
    IN  [g \in granted |-> Effects[Gear[g[1]].grants[g[2]]]]

EquipmentModifiers(c, o) ==
    LET granted == GrantedModifiers(c, o)
    IN  [g \in DOMAIN granted \cup (WornActive(c, o) \X {0}) |-> IF g[2] = 0 THEN Gear[g[1]] ELSE granted[g]]

EquipmentRegen(c, o) ==
    LET mods == GrantedModifiers(c, o) IN MapThenSumSet(LAMBDA g : mods[g].regen, DOMAIN mods)

\* creature_has_effect: active, or granted by anything in a slot.
HasEffect(c, e, o) ==
    \/ Contains(c.active_effects, e)
    \/ \E i \in c.body : i \in DOMAIN o /\ Contains(Gear[i].grants, e)

\* creature_stat, creature_skill: with the active effects, without what is worn.
CreatureStat(c, s) == c.stats[s] + c.stat_mods[s]
CreatureSkill(c, k) == c.skills[k] + c.skill_mods[k]

EffectiveStat(c, s, o) == CreatureStat(c, s) + SumOfStats(EquipmentModifiers(c, o), s)
EffectiveSkill(c, k, o) == CreatureSkill(c, k) + SumOfSkills(EquipmentModifiers(c, o), k)
EffectiveMaxHealth(c, o) == AtLeast(1, CreatureMaxHealth(c) + SumOfMaxHealth(EquipmentModifiers(c, o)))

\* apply_equipment_regen_on_enter
Regenerated(c, o) ==
    LET next == AtMost(EffectiveMaxHealth(c, o), CreatureHealth(c) + EquipmentRegen(c, o))
    IN  IF EquipmentRegen(c, o) > 0 /\ next > CreatureHealth(c)
        THEN [c EXCEPT !.health = next] ELSE c

\* award_skill_xp: one rank at most, and what is left over is lost.
AwardSkillXp(c, k, xp) ==
    LET total == c.skill_xp[k] + xp
    IN  IF total < (c.skills[k] + 1) * SkillXpPerRank
        THEN [c EXCEPT !.skill_xp[k] = total]
        ELSE [c EXCEPT !.skills[k] = @ + 1, !.skill_xp[k] = 0]

(***************************************************************************)
(* Awareness and initiative; the two dice are the digits of a seed         *)
(***************************************************************************)

Seeds == 0..24
Die(seed) == seed % 5
OtherDie(seed) == (seed \div 5) % 5

PerceptionScore(n, o) ==
    EffectiveStat(n, "dexterity", o) + (EffectiveStat(n, "wisdom", o) \div 2)
    + CreatureSkill(n, "survival") + n.perception

StealthCheckSucceeds(p, n, o, seed) ==
    2 * EffectiveSkill(p, "stealth", o) + EffectiveStat(p, "dexterity", o)
      + (EffectiveStat(p, "wisdom", o) \div 4) + Die(seed)
    > PerceptionScore(n, o) + OtherDie(seed)

PlayerPerception(p, o) ==
    EffectiveSkill(p, "survival", o) + (EffectiveStat(p, "wisdom", o) \div 2)
    + (EffectiveStat(p, "dexterity", o) \div 4)

PlayerNoticesCreature(p, n, o, seed) ==
    PlayerPerception(p, o) + Die(seed)
    > EffectiveStat(n, "dexterity", o) + CreatureSkill(n, "survival")
      + n.perception + OtherDie(seed)

\* initiative_score
Initiative(c, o) ==
    LET dexterity == EffectiveStat(c, "dexterity", o)
        speed == EffectiveStat(c, "speed", o)
    IN  dexterity + (IF speed > 0 THEN speed ELSE dexterity \div 3)
        + (EffectiveSkill(c, "combat", o) \div 4)

\* A tie goes to the one who attacks.
TargetIsFaster(actor, target, o) == Initiative(target, o) > Initiative(actor, o)

\* is_creature_hidden_from_player
IsHidden(n) == n.active /\ n.kind = "npc" /\ n.uses_awareness_check /\ ~n.player_discovered

(***************************************************************************)
(* Behaviours                                                              *)
(***************************************************************************)

Entry(event, react, damage, check, perception, effect) ==
    [event |-> event, react |-> react, attack_damage |-> damage, awareness_check |-> check,
     perception |-> perception, grant_effect_on_hit |-> effect]

\* template_to_entry and template_to_discovered_entry; the second has no check
\* and no perception of its own, and tactics then fall back to the template's.
TemplateEntries(t) ==
    <<Entry("on_enter", t.react, t.attack_damage, t.awareness_check, t.perception, t.grant_effect_on_hit)>>
    \o (IF t.on_discovered_react = "none" THEN <<>>
        ELSE <<Entry("on_discovered", t.on_discovered_react, t.attack_damage,
                     t.awareness_check, t.perception, t.grant_effect_on_hit)>>)

\* script_to_entry: an entry without a damage and without an effect, "none".
NoDamage == -1
ScriptEntry(s) == Entry(s.event, s.react, NoDamage, "none", 0, "none")

\* build_creature_behavior_entries: templates nobody defined are passed over.
Behaviors(n) ==
    FoldLeft(LAMBDA acc, t : IF t \in DOMAIN Templates THEN acc \o TemplateEntries(Templates[t]) ELSE acc,
             <<>>, UseBehaviors[n])
    \o [i \in DOMAIN Scripted[n] |-> ScriptEntry(Scripted[n][i])]

\* What parse_behavior_templates keeps of a template; without a line of its own
\* it attacks with DefaultAttackDamage, and an absence is "none".
Template ==
    [react : Reacts, on_discovered_react : Reacts \cup {"none"}, attack_damage : Nat,
     awareness_check : {"none", "yes", "no"}, perception : Int, grant_effect_on_hit : STRING]

ASSUME TemplatesAssumption ==
    /\ \A t \in DOMAIN Templates : Templates[t] \in Template
    /\ UseBehaviors \in [Npcs -> Seq(STRING)]
    /\ Scripted \in [Npcs -> Seq([event : STRING, react : Reacts])]

\* creature_attack_damage: a damage of 0 that is given counts, and is raised to 1.
AttackDamage(n) ==
    LET given == {Behaviors(n)[i].attack_damage : i \in DOMAIN Behaviors(n)} \ {NoDamage}
    IN  IF given = {} THEN DefaultAttackDamage ELSE AtLeast(1, Max(given))

\* creature_grant_effect_on_hit: the first entry that names one.
EffectsOnHit(n) == SelectSeq([i \in DOMAIN Behaviors(n) |-> Behaviors(n)[i].grant_effect_on_hit],
                             LAMBDA e : e # "none")

ReactsOn(n, event) ==
    {Behaviors(n)[i].react : i \in {j \in DOMAIN Behaviors(n) : Behaviors(n)[j].event = event}}

\* default_awareness_check
Checks(e) ==
    /\ e.react \in {"attack", "warn"}
    /\ IF e.awareness_check = "none" THEN e.react = "attack" ELSE e.awareness_check = "yes"

\* apply_tactics_from_behaviors, on a creature that is being made.
WithTactics(c, n) ==
    LET all == ToSet(Behaviors(n))
        uses == \E e \in all : Checks(e)
    IN  IF Behaviors(n) = <<>> THEN c
        ELSE [c EXCEPT !.uses_awareness_check = uses,
                       !.perception = Max({e.perception : e \in all} \cup {0}),
                       !.creature_aware = ~uses]
=============================================================================
