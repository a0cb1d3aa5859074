------------------------------- MODULE Combat -------------------------------
(***************************************************************************)
(* The attack command: who strikes first, what a strike does, and what     *)
(* becomes of a creature that is brought down; and the wizards' @damage    *)
(* and @heal.                                                              *)
(***************************************************************************)
EXTENDS EventScript

CONSTANTS
    CombatSeed,   \* combat_exchange_seed of attacker, defender and room, modulo 15
    MaxCorpses    \* bound: the index in the id of a corpse

ASSUME CombatAssumption == CombatSeed \in [Creatures \X Creatures \X Rooms -> Nat] /\ MaxCorpses \in Nat

CriticalDamageBonus == 2

Corpses == {Name[c] : c \in Creatures} \X (1..MaxCorpses)
IsCorpse(id) == id \notin Creatures \cup Items \cup Rooms

\* The id of a corpse is nothing else's.
ASSUME CorpsesAssumption == Corpses \cap (Creatures \cup Items \cup Rooms \cup {Nobody}) = {}

(***************************************************************************)
(* One strike                                                              *)
(***************************************************************************)

\* compute_combat_damage, without its surprise
BaseDamage(a, d, o) ==
    LET power == AtLeast(3, EffectiveStat(a, "strength", o) + 2 + (EffectiveSkill(a, "combat", o) \div 2))
        defense == (EffectiveStat(d, "constitution", o) \div 3) + (EffectiveStat(d, "dexterity", o) \div 4)
    IN  AtLeast(1, power - defense)

Variance(seed) == (seed % 3) - 1

\* resolve_combat_hit; the critical blow of a skilled fighter needs a lucky seed.
CombatHit(a, d, seed, surprise, o) ==
    LET bonus == IF surprise THEN SurpriseDamageBonus
                 ELSE IF EffectiveSkill(a, "combat", o) >= 4 /\ seed % 15 = 7 THEN CriticalDamageBonus
                 ELSE 0
    IN  AtLeast(1, BaseDamage(a, d, o) + Variance(seed) + bonus)

\* npc_retaliation_hit: a creature that reacts by attacking has a damage of its own.
RetaliationHit(npc, a, d, seed, surprise, o) ==
    IF \E i \in DOMAIN Behaviors(npc) : Behaviors(npc)[i].react = "attack"
    THEN AtLeast(1, AttackDamage(npc) + Variance(seed) + (IF surprise THEN SurpriseDamageBonus ELSE 0))
    ELSE CombatHit(a, d, seed, surprise, o)

(***************************************************************************)
(* Death                                                                   *)
(***************************************************************************)

\* next_corpse_index counts the corpses in the graph, whoever they were.
CorpseIndex(o) == 1 + Cardinality({id \in DOMAIN o : IsCorpse(id)})

\* create_creature_corpse, of the victim as it was: move_item_into_container
\* moves what it wore and skips what the graph does not have.  (Mutant: what
\* was moved is not reported.)
Laid(o, victim, room, owner) ==
    LET id == <<Name[victim.id], CorpseIndex(o)>>
        gear == victim.body \cap DOMAIN o
        corpse == [active |-> TRUE, location |-> room, owner |-> owner,
                   corpse_of |-> victim.id, contents |-> gear]
        put == [x \in DOMAIN o \cup {id} |->
                    IF x = id THEN corpse
                    ELSE IF x \in gear THEN [o[x] EXCEPT !.location = id]
                    ELSE o[x]]
    IN  [o |-> put, id |-> id]

CorpseOnly(o, victim, room, owner) ==
    Outcome(Laid(o, victim, room, owner).o, {Laid(o, victim, room, owner).id})
WithCorpse(o, victim, room, owner) ==
    Outcome(Laid(o, victim, room, owner).o, {Laid(o, victim, room, owner).id} \cup victim.body)

\* strip_creature_gear.  (Mutant: it keeps wearing it.)
KeepGear(out, id) == out
Stripped(out, id) ==
    Appended(out, Changed(out.o, id, [out.o[id] EXCEPT !.body = {}]))

\* A corpse after all that makes up an outcome, and the mark of deletion.
Interred(out, victim, room, owner) == Appended(out, WithCorpse(out.o, victim, room, owner))
Deleted(out, victim) == Appended(out, Changed(out.o, victim, [out.o[victim] EXCEPT !.active = FALSE]))

\* handle_npc_death: the scripts run first, but the corpse gets what the victim
\* wore before them.  (Mutant: it is not deleted.)
NotDeleted(out, victim, killer, room, owner) ==
    Stripped(Interred(ExecuteKillEvents(out, victim, killer, room), out.o[victim], room, owner), victim)
NpcDeath(out, victim, killer, room, owner) ==
    LET killed == ExecuteKillEvents(out, victim, killer, room)
    IN  Deleted(Stripped(Interred(killed, out.o[victim], room, owner), victim), victim)

\* handle_player_death: the player wakes at home, or where it is without one.
Woken(out, victim, home) ==
    Appended(out, Changed(out.o, victim,
        [out.o[victim] EXCEPT !.location = home, !.health = EffectiveMaxHealth(out.o[victim], out.o)]))
PlayerDeath(out, victim, room) ==
    LET c == out.o[victim]
        home == IF c.home # Nobody THEN c.home ELSE c.location
    IN  Woken(Stripped(Interred(out, c, room, c.owner), victim), victim, home)

(***************************************************************************)
(* attack_creature                                                         *)
(***************************************************************************)

\* resolve_room_creature_target and the checks behind it: alive, in the room
\* of the session, and not lurking.
MayAttack(o, actor, room, target) ==
    /\ actor \in DOMAIN o /\ target \in DOMAIN o \ {actor}
    /\ target \in Creatures
    /\ ~IsDefeated(o[actor]) /\ ~IsDefeated(o[target])
    /\ o[target].active /\ o[target].location = room
    /\ ~IsHidden(o[target])

\* Surprise decides the order before initiative does.
TargetFirst(o, actor, target) ==
    /\ o[target].creature_aware
    /\ ~o[actor].player_aware \/ TargetIsFaster(o[actor], o[target], o)

\* An exchange: the outcome so far, whether it is over, and who has to wake
\* up elsewhere (respawn_location) or Nobody.
Exchange(out, over, woke) == [out |-> out, over |-> over, woke |-> woke]

\* What comes after a blow: who is down dies of it.
AfterBlowToActor(out, actor, room) ==
    IF IsDefeated(out.o[actor]) THEN Exchange(PlayerDeath(out, actor, room), TRUE, actor)
    ELSE Exchange(out, FALSE, Nobody)

AfterBlowToTarget(out, actor, target, room, owner) ==
    CASE ~IsDefeated(out.o[target]) -> Exchange(out, FALSE, Nobody)
      [] IsDefeated(out.o[target]) /\ target \in Npcs ->
           Exchange(NpcDeath(out, target, actor, room, owner), TRUE, Nobody)
      [] IsDefeated(out.o[target]) /\ target \notin Npcs ->
           Exchange(PlayerDeath(out, target, room), TRUE, target)

\* A blow to the player who attacks.  It is computed from the player before
\* the exchange; the first one makes the player aware.
BlowToActor(out, actor, npc, before, room, first) ==
    LET surprise == first /\ ~before.player_aware
        n == RetaliationHit(npc, out.o[npc], before, CombatSeed[npc, actor, room], surprise, out.o)
        hurt == [ApplyDamage(out.o[actor], n) EXCEPT !.player_aware = @ \/ first]
    IN  AfterBlowToActor(Appended(out, Changed(out.o, actor, hurt)), actor, room)

\* The blow of the player who attacks, and the experience it brings.
BlowToTarget(out, actor, target, before, room) ==
    LET o == out.o
        surprise == ~before[target].creature_aware
        n == CombatHit(before[actor], before[target], CombatSeed[actor, target, room], surprise, o)
        hurt == [ApplyDamage(o[target], n) EXCEPT !.creature_aware = TRUE, !.player_discovered = TRUE]
        xp == IF IsDefeated(hurt) THEN 5 ELSE 1
        struck == Outcome([o EXCEPT ![target] = hurt, ![actor] = AwardSkillXp(o[actor], "combat", xp)],
                          {actor, target})
    IN  AfterBlowToTarget(Appended(out, struck), actor, target, room, before[actor].owner)

\* Only NPCs strike back, and not after they have struck first.
Opened(o, actor, room, target) ==
    IF TargetFirst(o, actor, target) /\ target \in Npcs
    THEN BlowToActor(Outcome(o, {}), actor, target, o[actor], room, TRUE)
    ELSE Exchange(Outcome(o, {}), FALSE, Nobody)
Hit(x, actor, target, before, room) ==
    IF x.over THEN x ELSE BlowToTarget(x.out, actor, target, before, room)
Answered(x, actor, target, before, room) ==
    IF \/ x.over
       \/ TargetFirst(before, actor, target) \/ target \notin Npcs
       \/ ~before[actor].player_aware
    THEN x
    ELSE BlowToActor(x.out, actor, target, before[actor], room, FALSE)

AttackCreature(o, actor, room, target) ==
    Answered(Hit(Opened(o, actor, room, target), actor, target, o, room), actor, target, o, room)

(***************************************************************************)
(* @damage and @heal                                                       *)
(***************************************************************************)

\* damage_creature: nobody dies of it.
DamageCreature(o, target, n) == Changed(o, target, ApplyDamage(o[target], n))

\* heal_creature leaves who is at the maximum without gear, or above, alone.
HealCreature(o, target, n) ==
    IF CreatureHealth(o[target]) >= CreatureMaxHealth(o[target]) THEN Outcome(o, {})
    ELSE Changed(o, target, Heal(o[target], n))
=============================================================================
