----------------------------- MODULE EventScript -----------------------------
(***************************************************************************)
(* The scripts @trigger attaches to rooms, creatures and things, and how   *)
(* one event runs them.  A script is one action behind any number of       *)
(* when-conditions; a host has a sequence of them for each event.          *)
(*                                                                         *)
(* An outcome is the object map a script leaves, the ids it reports as     *)
(* dirty, and whether it said stop.  Lines and errors are left out, and so *)
(* are the spawn actions and the subscribers of an event, which are in     *)
(* module Spawning.                                                        *)
(***************************************************************************)
EXTENDS Creature

VARIABLE
    flight      \* where whoever flees in the next command will flee to, by room

CONSTANTS
    Handlers,   \* event_handlers: the scripts of each host for each event
    Exits,      \* the rooms the exits of each room lead to
    Chances     \* the <<actor, host, room, percent>> for which chance comes up

Events == {"on_enter", "on_leave", "on_death", "on_kill", "on_discovered"}

Context(actor, host, room, target) ==
    [actor |-> actor, host |-> host, room |-> room, target |-> target]

Outcome(o, dirty) == [o |-> o, dirty |-> dirty, cancelled |-> FALSE]

\* EventOutcome::append
Appended(out, next) ==
    [o |-> next.o, dirty |-> out.dirty \cup next.dirty, cancelled |-> out.cancelled \/ next.cancelled]

\* resolve_target_id
TargetOf(who, ctx) ==
    CASE who = "actor" -> ctx.actor
      [] who = "host" -> ctx.host
      [] who = "target" -> ctx.target

IsCreature(o, id) == id \in DOMAIN o /\ id \in Creatures
IsRoom(o, id) == id \in DOMAIN o /\ id \in Rooms /\ o[id].active

(***************************************************************************)
(* What the parser yields                                                  *)
(***************************************************************************)

Whos == {"actor", "host", "target"}
Comparisons == {"below", "above", "at_most", "at_least", "equals"}
Vitals == {"damage", "heal"}
Modifiers == {"mod_stat", "mod_skill", "set_property"}
EffectActs == {"grant_effect", "remove_effect", "cure_tag"}

\* parse_condition: a comparison needs an operator and a number, everything else
\* a name; chance is at most 100, and any condition can be negated.
ParsedCondition(cond) ==
    /\ cond.not \in BOOLEAN /\ cond.who \in Whos
    /\ \/ cond.kind \in {"effect", "tag", "property"}
       \/ cond.kind = "chance" /\ cond.value \in 0..100
       \/ cond.kind \in {"health", "stat", "skill"} /\ cond.op \in Comparisons /\ cond.value \in Int

\* parse_script: an amount is looked for behind the target only.
ParsedAction(a) ==
    /\ a.who \in Whos
    /\ \/ a.act \in {"narrate", "stop", "teleport"} \cup EffectActs
       \/ a.act = "react" /\ a.name \in Reacts
       \/ a.act \in Vitals /\ a.value \in Int
       \/ a.act \in Modifiers /\ a.name \in STRING

ASSUME HandlersAssumption ==
    \A h \in Creatures \cup Items \cup Rooms : \A e \in Events :
        /\ Handlers[h][e] \in Seq(ToSet(Handlers[h][e]))
        /\ \A i \in DOMAIN Handlers[h][e] :
            LET s == Handlers[h][e][i]
            IN  (\A j \in DOMAIN s.when : ParsedCondition(s.when[j])) /\ ParsedAction(s.do)

(***************************************************************************)
(* Conditions                                                              *)
(***************************************************************************)

\* CompareOp::compare
Compare(op, left, right) ==
    CASE op = "below" -> left < right
      [] op = "above" -> left > right
      [] op = "at_most" -> left <= right
      [] op = "at_least" -> left >= right
      [] op = "equals" -> left = right

\* What a condition reads of an object that has none of a creature's properties.
Blank ==
    [health |-> 0, max_health |-> 0, stats |-> NoStats, skills |-> NoSkills,
     active_effects |-> <<>>, body |-> {}, creature_aware |-> FALSE, player_aware |-> FALSE,
     player_discovered |-> FALSE]

\* Stats and skills are compared without what effects and gear add.
Fulfilled(cond, ctx, o) ==
    LET id == TargetOf(cond.who, ctx)
        subject == IF id \in Creatures THEN o[id] ELSE Blank
    IN  \/ /\ cond.kind = "chance"
           /\ <<ctx.actor, ctx.host, ctx.room, cond.value>> \in Chances
        \/ /\ cond.kind # "chance"
           /\ id \in DOMAIN o
           /\ CASE cond.kind = "effect" -> HasEffect(subject, cond.name, o)
                [] cond.kind = "tag" -> HasConditionTag(subject, cond.name)
                [] cond.kind = "health" -> Compare(cond.op, CreatureHealth(subject), cond.value)
                [] cond.kind = "stat" -> Compare(cond.op, subject.stats[cond.name], cond.value)
                [] cond.kind = "skill" -> Compare(cond.op, subject.skills[cond.name], cond.value)
                [] cond.kind = "property" -> subject[cond.name] = cond.value

\* evaluate_condition; a condition on something that is not there is false,
\* and so its negation is true.
Holds(cond, ctx, o) == Fulfilled(cond, ctx, o) # cond.not

(***************************************************************************)
(* Actions                                                                 *)
(***************************************************************************)

Changed(o, id, c) == Outcome([o EXCEPT ![id] = c], {id})

\* Actions on a creature do nothing to anything else (and report an error).
ChangedCreature(o, id, c) == IF IsCreature(o, id) THEN Changed(o, id, c) ELSE Outcome(o, {})

\* Properties can be set on anything; only those of creatures are modelled.
ChangedObject(o, id, c) ==
    IF IsCreature(o, id) THEN Changed(o, id, c) ELSE Outcome(o, {id} \cap DOMAIN o)

\* flee_npc: by an exit of the room of the event, wherever the creature is, that
\* leads to a live room; without one it stays.  The exits are listed from a hash
\* map that is made anew each time, so what the ids draw from the list is any of
\* them.
Flee(o, npc, room) ==
    LET ways == {r \in Exits[room] : IsRoom(o, r)}
        drawn == flight[npc][room]
    IN  IF IsRoom(o, room) /\ npc \in DOMAIN o /\ ways # {}
        THEN Changed(o, npc, [o[npc] EXCEPT !.location =
                                 IF drawn \in ways THEN drawn ELSE CHOOSE r \in ways : TRUE])
        ELSE Outcome(o, {})

\* npc_attack_player: the only strike that passes on grant_effect_on_hit.
NpcAttackPlayer(o, npc, player, damage) ==
    LET struck == [ApplyDamage(o[player], damage) EXCEPT !.player_aware = TRUE]
        effect == EffectsOnHit(npc)
    IN  IF npc \notin DOMAIN o \/ ~IsCreature(o, player) \/ IsDefeated(o[player])
        THEN Outcome(o, {})
        ELSE Outcome([o EXCEPT ![npc].player_discovered = TRUE,
                               ![player] = IF effect = <<>> THEN struck
                                           ELSE ApplyCondition(struck, effect[1])],
                     {npc, player})

ExecuteReact(react, ctx, o) ==
    CASE react = "flee" -> Flee(o, ctx.host, ctx.room)
      [] react = "attack" -> NpcAttackPlayer(o, ctx.host, ctx.actor, AttackDamage(ctx.host))
      [] react \in Reacts \ {"flee", "attack"} -> Outcome(o, {})

\* resolve_place_id finds live places only.
Teleport(o, id, place) ==
    IF IsRoom(o, place) /\ id \in DOMAIN o
    THEN Changed(o, id, [o[id] EXCEPT !.location = place])
    ELSE Outcome(o, {})

\* What hurts or mends.
Vital(a, o, id) ==
    CASE a.act = "damage" -> ChangedCreature(o, id, ApplyDamage(o[id], a.value))
      [] a.act = "heal" -> ChangedCreature(o, id, Heal(o[id], a.value))

\* What sets or shifts a number.
Modify(a, o, id) ==
    CASE a.act = "mod_stat" -> ChangedObject(o, id, [o[id] EXCEPT !.stats[a.name] = @ + a.value])
      [] a.act = "mod_skill" -> ChangedObject(o, id, [o[id] EXCEPT !.skills[a.name] = @ + a.value])
      [] a.act = "set_property" -> ChangedObject(o, id, [o[id] EXCEPT ![a.name] = a.value])

\* What grants or lifts an effect.
Affect(a, o, id) ==
    CASE a.act = "grant_effect" ->
            IF a.name \in DOMAIN Effects
            THEN ChangedCreature(o, id, ApplyCondition(o[id], a.name)) ELSE Outcome(o, {})
      [] a.act = "remove_effect" -> ChangedCreature(o, id, RemoveCondition(o[id], a.name))
      [] a.act = "cure_tag" ->
            IF IsCreature(o, id) /\ Cured(o[id], a.name) # <<>>
            THEN Changed(o, id, CureByTag(o[id], a.name)) ELSE Outcome(o, {})

\* execute_script
Perform(a, ctx, o) ==
    LET id == TargetOf(a.who, ctx)
    IN  CASE a.act \in Vitals -> Vital(a, o, id)
          [] a.act \in Modifiers -> Modify(a, o, id)
          [] a.act \in EffectActs -> Affect(a, o, id)
          [] a.act = "react" -> ExecuteReact(a.name, ctx, o)
          [] a.act = "teleport" -> Teleport(o, id, a.name)
          [] a.act = "stop" -> [Outcome(o, {}) EXCEPT !.cancelled = TRUE]
          [] a.act = "narrate" -> Outcome(o, {})

ExecuteScript(s, ctx, o) ==
    IF \A i \in DOMAIN s.when : Holds(s.when[i], ctx, o) THEN Perform(s.do, ctx, o) ELSE Outcome(o, {})

(***************************************************************************)
(* Events                                                                  *)
(***************************************************************************)

\* The scripts are read before the first of them runs; stop skips the rest.
ExecuteHostEvent(event, ctx, o) ==
    FoldLeft(LAMBDA out, s : IF out.cancelled THEN out ELSE Appended(out, ExecuteScript(s, ctx, out.o)),
             Outcome(o, {}), Handlers[ctx.host][event])

\* execute_event, without its subscribers.  No script leads to another event,
\* so the stack of events in flight is empty here and its guard lets all pass.
ExecuteEvent(event, ctx, o) ==
    IF ctx.host \in DOMAIN o /\ o[ctx.host].active
    THEN ExecuteHostEvent(event, ctx, o)
    ELSE Outcome(o, {})

\* An event after all that makes up an outcome.
Followed(out, event, ctx) == Appended(out, ExecuteEvent(event, ctx, out.o))

\* execute_kill_events: the victim's scripts act on the killer, the killer's
\* on the victim; a stop ends only its own event.
ExecuteKillEvents(out, victim, killer, room) ==
    LET mine == Context(killer, victim, room, killer)
        kill == Followed(Followed(out, "on_death", mine), "on_kill", mine)
    IN  IF killer = victim THEN kill
        ELSE Followed(kill, "on_kill", Context(victim, killer, room, victim))
=============================================================================
