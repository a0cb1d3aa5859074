------------------------------- MODULE Encounter -------------------------------
(***************************************************************************)
(* Players walk, look, fight and loot among the creatures of a module.     *)
(* Every action is one command of the dispatcher, carried out under the    *)
(* world's mutex, so a command is one step; what varies is the order in    *)
(* which hash maps yield the creatures of a room and, to whoever flees,    *)
(* its exits, and the dice.                                                *)
(*                                                                         *)
(* The session of a player caches a room of its own; commands go by the    *)
(* cache and the creatures by the location of the player's object.         *)
(***************************************************************************)
EXTENDS Combat

CONSTANTS
    Start,        \* the object map after bootstrap
    Dice,         \* the seeds that occur, a subset of Seeds
    Flights,      \* where those who flee may come out, each from each room
    Stealth,      \* discovery_stealth of each item
    Amounts,      \* the amounts wizards give to @damage and @heal
    Tidy,         \* bound: corpses are deleted when empty, the last ones before a restart
    MaxXp         \* bound: nobody attacks who has as much experience in combat

VARIABLES
    obj,          \* WorldState::objects: a partial map from ids to objects
    session,      \* PlayerSession::current_location of each player
    marked        \* the ids the last command marked as dirty

vars == <<obj, session, marked, flight>>

Ids == Creatures \cup Items \cup Rooms \cup Corpses

ASSUME DiceAssumption == Dice \subseteq Seeds /\ Dice # {}
ASSUME RoomAssumption ==
    /\ \A r \in Rooms : Exits[r] \subseteq Rooms
    /\ Flights \subseteq [Creatures \cup Items \cup Rooms -> [Rooms -> Rooms]] /\ Flights # {}

\* The outcome a command leaves behind.
Commit(out) == obj' = out.o /\ marked' = out.dirty /\ flight' \in Flights

\* npcs_in_room.  (Mutant: also those that are deleted.)
AnyInRoom(o, r) == {n \in Npcs \cap DOMAIN o : o[n].location = r}
NpcsInRoom(o, r) == {n \in Npcs \cap DOMAIN o : o[n].active /\ o[n].location = r}

(***************************************************************************)
(* Behaviours of the creatures in a room                                   *)
(***************************************************************************)

\* resolve_encounter_awareness_on_enter and what is made of it.
Awareness(out, n, p, seed) ==
    LET o == out.o
        spotted == ~StealthCheckSucceeds(o[p], o[n], o, seed)
        noticed == PlayerNoticesCreature(o[p], o[n], o, (seed + 17) % 25)
    IN  Appended(out, Outcome([o EXCEPT ![n].creature_aware = spotted,
                                        ![n].player_discovered = @ \/ noticed,
                                        ![p].player_aware = @ /\ noticed],
                              {n} \cup (IF noticed THEN {} ELSE {p})))

\* The attack of a creature on whoever comes in or finds it.
Ambush(out, n, p, event) ==
    LET surprise == IF event = "on_enter" /\ ~out.o[p].player_aware THEN SurpriseDamageBonus ELSE 0
        struck == [ApplyDamage(out.o[p], AttackDamage(n) + surprise) EXCEPT !.player_aware = TRUE]
    IN  IF IsDefeated(out.o[p]) THEN out
        ELSE Appended(out, Outcome([out.o EXCEPT ![p] = struck, ![n].player_discovered = TRUE], {n, p}))

\* What a creature that is aware of the player or not does after its scripts.
Reacted(out, n, p, r, event, reacts, aware) ==
    CASE "flee" \in reacts -> Appended(out, Flee(out.o, n, r))
      [] "flee" \notin reacts /\ "attack" \in reacts /\ (aware \/ event = "on_discovered") ->
           Ambush(out, n, p, event)
      [] OTHER -> out

\* Its scripts; one that lost sight of the player does not react.
Told(out, n, p, r, event) ==
    LET told == Appended(out, ExecuteHostEvent(event, Context(p, n, r, Nobody), out.o))
    IN  [told EXCEPT !.dirty = @ \cup (IF event = "on_enter" THEN {n} ELSE {}), !.cancelled = FALSE]
Met(out, n, p, r, event, aware) ==
    LET blind == event = "on_enter" /\ ~aware /\ out.o[n].uses_awareness_check
    IN  Reacted(Told(out, n, p, r, event), n, p, r, event, IF blind THEN {} ELSE ReactsOn(n, event), aware)

\* One creature of run_creature_behaviors_filtered.  Its record is read at the
\* start of its turn, and after the contest of wits.
Contest(out, n, p, seed) == Awareness([out EXCEPT !.o[n].player_discovered = FALSE], n, p, seed)
AfterContest(out, n, p, r, event) == Met(out, n, p, r, event, out.o[n].creature_aware)
Behave(out, n, p, r, event, seed) ==
    AfterContest(IF event = "on_enter" /\ out.o[n].uses_awareness_check
                 THEN Contest(out, n, p, seed) ELSE out,
                 n, p, r, event)

\* run_creature_behaviors: the creatures are listed before the first of them acts.
BehaveAll(o, order, p, r, dice) ==
    FoldLeft(LAMBDA out, n : Behave(out, n, p, r, "on_enter", dice[n]),
             Outcome([o EXCEPT ![p].player_aware = TRUE], {p}), order)

(***************************************************************************)
(* go                                                                      *)
(***************************************************************************)

\* The last lines of go: what worn gear mends and what effects do; stored only
\* when one of them reports a change.
Ticked(out, p, c, t) ==
    IF c # out.o[p] \/ t.dirty THEN Appended(out, Changed(out.o, p, t.c)) ELSE out
Arrived(out, p) ==
    LET c == Regenerated(out.o[p], out.o) IN Ticked(out, p, c, TickConditions(c, "on_enter"))

\* The place that is left and the one that is entered come first.
Moved(out, p, to) == Appended(out, Changed(out.o, p, [out.o[p] EXCEPT !.location = to]))
Entered(p, from, to) ==
    LET left == Followed(Outcome(obj, {}), "on_leave", Context(p, from, from, to))
    IN  Followed(Moved(left, p, to), "on_enter", Context(p, to, to, Nobody))

Go(p, to) ==
    /\ session[p] \in DOMAIN obj /\ to \in Exits[session[p]]
    /\ session' = [session EXCEPT ![p] = to]
    /\ \E entered \in {Entered(p, session[p], to)} :
         LET there == NpcsInRoom(entered.o, to) IN
         \E order \in SetToSeqs(there), dice \in [there -> Dice] :
             Commit(Arrived(Appended(entered, BehaveAll(entered.o, order, p, to, dice)), p))

(***************************************************************************)
(* look                                                                    *)
(***************************************************************************)

\* run_perception_discovery_on_look, one creature; found by the player as it
\* was when the look began.
Notice(out, n, p, r, before, seed) ==
    LET found == Outcome([out.o EXCEPT ![n].player_discovered = TRUE, ![p].player_aware = TRUE], {n, p})
    IN  IF ~PlayerNoticesCreature(before, out.o[n], out.o, seed) THEN out
        ELSE IF n \in NpcsInRoom(out.o, r) THEN Behave(Appended(out, found), n, p, r, "on_discovered", seed)
        ELSE Appended(out, found)

\* run_object_discovery_on_look, one thing.
Uncover(out, i, p, r, before, seed) ==
    IF PlayerPerception(before, out.o) + Die(seed) <= Stealth[i] THEN out
    ELSE LET found == Appended(out, Outcome([out.o EXCEPT ![i].player_discovered = TRUE], {i}))
         IN  Followed(found, "on_discovered", Context(p, i, r, Nobody))

\* Those that lurk, and the things that are hidden, in the player's room.
Lurking(r) == {n \in NpcsInRoom(obj, r) : IsHidden(obj[n])}
HiddenThings(o, r) ==
    {i \in Items \cap DOMAIN o : o[i].active /\ o[i].location = r /\ o[i].hidden /\ ~o[i].player_discovered}

\* Each is looked for in turn; that anything was looked for marks the player,
\* who counts the looks.
NoticeAll(p, order, dice) ==
    FoldLeft(LAMBDA out, n : Notice(out, n, p, session[p], obj[p], dice[n]),
             Outcome(obj, IF order = <<>> THEN {} ELSE {p}), order)
UncoverAll(out, p, order, dice) ==
    FoldLeft(LAMBDA acc, i : Uncover(acc, i, p, session[p], out.o[p], dice[i]),
             Appended(out, Outcome(out.o, IF order = <<>> THEN {} ELSE {p})), order)

\* run_discovery_on_look.  Things are listed after the creatures have reacted.
Look(p) ==
    LET r == session[p] IN
    /\ r \in DOMAIN obj
    /\ \E order \in SetToSeqs(Lurking(r)), dice \in [Lurking(r) -> Dice] :
           \E met \in {NoticeAll(p, order, dice)} :
               \E things \in SetToSeqs(HiddenThings(met.o, r)), more \in [HiddenThings(met.o, r) -> Dice] :
                   Commit(UncoverAll(met, p, things, more))
    /\ UNCHANGED session

(***************************************************************************)
(* attack, @damage, @heal                                                  *)
(***************************************************************************)

HasRoomForCorpse == Cardinality({id \in DOMAIN obj : IsCorpse(id)}) < MaxCorpses

Experience(p) == obj[p].skills["combat"] * SkillXpPerRank + obj[p].skill_xp["combat"]

\* attack_async: when somebody had to wake up elsewhere, the session of the
\* player who gave the command moves there, and its object with it.
Attack(p, t) ==
    /\ HasRoomForCorpse /\ Experience(p) < MaxXp
    /\ MayAttack(obj, p, session[p], t)
    /\ \E x \in {AttackCreature(obj, p, session[p], t)} :
         LET to == x.out.o[x.woke].location IN
         /\ Commit(IF x.woke = Nobody THEN x.out ELSE Moved(x.out, p, to))
         /\ session' = IF x.woke = Nobody THEN session ELSE [session EXCEPT ![p] = to]

\* resolve_creature_target knows every live creature by its id.
Damage(t, n) ==
    /\ t \in DOMAIN obj /\ obj[t].active
    /\ Commit(DamageCreature(obj, t, n))
    /\ UNCHANGED session

Mend(t, n) ==
    /\ t \in DOMAIN obj /\ obj[t].active
    /\ Commit(HealCreature(obj, t, n))
    /\ UNCHANGED session

(***************************************************************************)
(* take, @delete and a restart                                             *)
(***************************************************************************)

\* take_item, from a corpse in the room or from its floor.
Take(p, i) ==
    LET from == obj[i].location
        emptied == [obj EXCEPT ![from].contents = @ \ {i}]
        base == IF IsCorpse(from) THEN emptied ELSE obj
    IN  /\ i \in DOMAIN obj /\ obj[i].active
        /\ \/ from = session[p]
           \/ /\ IsCorpse(from) /\ from \in DOMAIN obj
              /\ obj[from].active /\ obj[from].location = session[p]
        /\ Commit(Outcome([base EXCEPT ![i].location = p, ![p].body = @ \cup {i}],
                          {i, p} \cup (IF IsCorpse(from) THEN {from} ELSE {})))
        /\ UNCHANGED session

\* @delete: the object is marked as deleted and stays in the graph.
DeleteCorpse(c) ==
    /\ IsCorpse(c) /\ obj[c].active
    /\ Tidy => obj[c].contents = {}
    /\ Commit(Changed(obj, c, [obj[c] EXCEPT !.active = FALSE]))
    /\ UNCHANGED session

\* A restart after everything was saved: hydration leaves deleted objects out,
\* and every session starts at its player's location.
Restart ==
    /\ \E id \in DOMAIN obj : ~obj[id].active
    /\ Tidy => \A c, d \in {id \in DOMAIN obj : IsCorpse(id)} :
                   ~obj[c].active /\ obj[d].active => d[2] < c[2]
    /\ obj' = Restrict(obj, {id \in DOMAIN obj : obj[id].active})
    /\ session' = [p \in Players |-> obj[p].location]
    /\ marked' = {}
    /\ flight' \in Flights

Init ==
    /\ obj = Start
    /\ session = [p \in Players |-> Start[p].location]
    /\ marked = {}
    /\ flight \in Flights

Next ==
    \/ \E p \in Players, r \in Rooms : Go(p, r)
    \/ \E p \in Players : Look(p)
    \/ \E p \in Players, t \in Creatures : Attack(p, t)
    \/ \E t \in Creatures, n \in Amounts : Damage(t, n) \/ Mend(t, n)
    \/ \E p \in Players, i \in Items : Take(p, i)
    \/ \E c \in DOMAIN obj : DeleteCorpse(c)
    \/ Restart

Spec == Init /\ [][Next]_vars

(***************************************************************************)
(* Properties                                                              *)
(***************************************************************************)

CreatureThere == Creatures \cap DOMAIN obj
CorpseThere == {id \in DOMAIN obj : IsCorpse(id)}

\* Players and rooms stay, creatures are somewhere with a health that is never
\* below zero, and every reference is to an object of its kind.
TypeOK ==
    /\ DOMAIN obj \subseteq Ids
    /\ Players \cup Rooms \subseteq DOMAIN obj
    /\ \A c \in CreatureThere :
        /\ obj[c].location \in Rooms /\ obj[c].health \in Nat
        /\ obj[c].body \subseteq Items
        /\ {obj[c].active, obj[c].creature_aware, obj[c].player_aware, obj[c].player_discovered} \subseteq BOOLEAN
    /\ \A k \in CorpseThere : obj[k].contents \subseteq Items /\ obj[k].corpse_of \in Creatures
    /\ session \in [Players -> Rooms]
    /\ marked \subseteq Ids

\* Where an item is listed, and only there, is where it says it is: a death moves
\* gear from the victim's slots to the corpse (create_creature_corpse and
\* strip_creature_gear), and no corpse is made in the place of another one.
GearAgrees ==
    \A i \in Items \cap DOMAIN obj :
        LET holders == {c \in CreatureThere : i \in obj[c].body}
                       \cup {k \in CorpseThere : i \in obj[k].contents}
        IN  /\ \A h \in holders : obj[i].location = h
            /\ obj[i].location \in DOMAIN obj \ Rooms => obj[i].location \in holders

\* The durations and the derived modifiers follow the active effects: nothing
\* counts down for an effect that has ended, and what effects add to stats and
\* skills is what the effects that are active now add (conditions.rs); no blow,
\* tick or cure takes health below zero.
EffectsInStep ==
    TypeOK /\ \A c \in CreatureThere :
        LET active == ToSet(obj[c].active_effects)
            ticks == obj[c].condition_ticks
        IN  /\ IsInjective(obj[c].active_effects)
            /\ DOMAIN ticks \subseteq {e \in active : Effects[e].duration > 0}
            /\ \A e \in DOMAIN ticks : ticks[e] \in 1..Effects[e].duration
            /\ obj[c].stat_mods = StatMods(obj[c])
            /\ obj[c].skill_mods = SkillMods(obj[c])

\* A command marks everything it changes, so that the save after it writes it:
\* through behaviours, scripts, deaths and what a corpse takes over.
ChangesMarked ==
    [][DOMAIN obj \subseteq DOMAIN obj' => \A id \in DOMAIN obj' :
           (id \in DOMAIN obj => obj[id] # obj'[id]) => id \in marked']_vars

\* A creature that is taken out of the world wears nothing any more and leaves a
\* new corpse in its killer's room with all it wore in it.
Buried(n) ==
    (obj[n].active /\ n \in DOMAIN obj' /\ ~obj'[n].active) =>
        /\ obj'[n].body = {}
        /\ \E k \in DOMAIN obj' \ DOMAIN obj :
               /\ obj'[k].corpse_of = n
               /\ obj'[k].contents = obj[n].body
               /\ \E p \in Players : obj'[k].location = session[p]

\* Nothing acts on it until a restart leaves it out.
AtRest(n) == (~obj[n].active /\ n \in DOMAIN obj') => obj'[n] = obj[n]

\* After an exchange, which shows in the experience of who gave the blow, nobody
\* else is down and still about (what scripts do to the killer is outside of this).
Final(p) ==
    Experience(p)' > Experience(p) =>
        \A c \in CreatureThere \ {p} :
            obj[c].health > 0 /\ obj'[c].health = 0 => ~obj'[c].active

\* A death is complete and for good: a blow that brings a creature down takes it
\* out of the world, it leaves all it wore in a new corpse, and neither
\* behaviours nor scripts nor looks act on it afterwards (handle_npc_death).
DeathsSettle ==
    [][/\ \A n \in CreatureThere : Buried(n) /\ AtRest(n)
       /\ \A p \in Players : Final(p)]_vars

\* A player's session is where its object is (player_session.rs).
SessionInSync == \A p \in Players : session[p] = obj[p].location
=============================================================================
