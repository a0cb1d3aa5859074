--------------------------------- MODULE Places ---------------------------------
(***************************************************************************)
(* Places, their exits, and the doors, windows, chests and keys found there. *)
(*                                                                         *)
(* The operators read and change a map `o` from ids to objects, as the      *)
(* functions of src/src/world/exits.rs, portal.rs, place_builder.rs and the *)
(* gates of src/src/inventory/mod.rs do. An object is a record: every kind  *)
(* has `kind`, `active` (not soft-deleted), `at` (its location) and         *)
(* `scripts` (what is attached to one event); a place also has `exits` and  *)
(* `returns`, a gate (a portal, a chest) `open`, `locked`, `lock` and       *)
(* `spends`, a portal `dir` and `dest` too, a key `lock` and `once`, the    *)
(* player `held`. A door is a portal one can walk through, a window one     *)
(* that one cannot.                                                        *)
(***************************************************************************)
EXTENDS Integers, Sequences, FiniteSets, TLC

CONSTANTS
    Dirs,        \* normalised exit labels
    Aliases,     \* exit_aliases: id -> [alias -> exit]
    Loops,       \* loop_to: id -> id
    Scatter,     \* scatter_direction and scatter_to: id -> [dir, to: a sequence of ids]
    Hash,        \* what the player's and the place's id hash to
    Burden       \* carrying more than this is being overloaded

Nil == 0                     \* no object, no lock, no label: None
NoDir == "none"

PlaceKinds == {"area", "room"}
PortalKinds == {"door", "window"}
GateKinds == PortalKinds \cup {"chest"}

ASSUME PlacesAssumption ==
    /\ NoDir \notin Dirs
    /\ \A i \in DOMAIN Scatter : Scatter[i].to \in Seq(Nat)
    /\ Hash \in Nat /\ Burden \in Nat

\* What an object of a kind has.
Kinds == PlaceKinds \cup GateKinds \cup {"player", "key", "item"}
Fields(kind) == {"kind", "active", "at", "scripts"} \cup
    CASE kind \in PlaceKinds -> {"exits", "returns"}
      [] kind \in PortalKinds -> {"open", "locked", "lock", "spends", "dir", "dest"}
      [] kind = "chest" -> {"open", "locked", "lock", "spends"}
      [] kind = "player" -> {"held"}
      [] kind = "key" -> {"lock", "once"}
      [] OTHER -> {}
IsObject(x) ==
    /\ x = [f \in Fields(x.kind) |-> x[f]]
    /\ x.kind \in Kinds /\ x.active \in BOOLEAN
    /\ x.kind \in PlaceKinds => NoDir \notin DOMAIN x.exits

(***************************************************************************)
(* Exits.                                                                  *)
(***************************************************************************)
Active(o, i) == i \in DOMAIN o /\ o[i].active
IsLocation(o, i) == i \in DOMAIN o /\ o[i].kind \in PlaceKinds
IsPlace(o, i) == Active(o, i) /\ IsLocation(o, i)

With(f, k, v) == [x \in DOMAIN f \cup {k} |-> IF x = k THEN v ELSE f[x]]
Without(f, k) == [x \in DOMAIN f \ {k} |-> f[x]]

\* ExitIndex::from_place: an alias of an exit that exists hides the exit of that very name.
Resolve(o, i, word) ==
    LET aliases == IF i \in DOMAIN Aliases THEN Aliases[i] ELSE <<>>
        names == DOMAIN o[i].exits
    IN  IF word \in DOMAIN aliases /\ aliases[word] \in names THEN aliases[word]
        ELSE IF word \in names THEN word ELSE NoDir

\* can_traverse_exit
CanTraverse(o, from, dir) == IsPlace(o, from) /\ IsPlace(o, o[from].exits[dir])

\* apply_loop_entry
LoopEntry(o, to) == IF to \in DOMAIN Loops /\ IsPlace(o, Loops[to]) THEN Loops[to] ELSE to

\* pick_scatter_destination: of the candidates that still exist, the one the hash picks.
PickScatter(o, from, otherwise) ==
    LET to == Scatter[from].to
        there == {x \in DOMAIN to : IsPlace(o, to[x])}
        before(x) == {y \in there : y < x}
    IN  IF there = {} THEN otherwise
        ELSE to[CHOOSE x \in there : Cardinality(before(x)) = Hash % Cardinality(there)]

\* apply_scatter_exit
ScatterExit(o, from, dir, to) ==
    IF from \in DOMAIN Scatter /\ Scatter[from].dir = dir THEN PickScatter(o, from, to) ELSE to

Destination(o, from, dir) == ScatterExit(o, from, dir, LoopEntry(o, o[from].exits[dir]))

\* parent_place, and validate_place_hierarchy of a place.
Parent(o, i) == IF IsPlace(o, o[i].at) THEN o[i].at ELSE Nil
HierarchyValid(o, i) ==
    IF o[i].kind = "room" THEN Parent(o, i) # Nil
    ELSE Parent(o, i) = Nil \/ o[Parent(o, i)].kind = "area"

\* validate_place_exits: where the exits of `place` lead is looked up in `o`.
ExitsValid(o, place) == \A d \in DOMAIN place.exits : IsPlace(o, place.exits[d])

(***************************************************************************)
(* Building. An edit returns [ok, from, to]: the two places as they come out. *)
(***************************************************************************)
\* The return exit a reciprocal link is given, or has by exit_returns.
Reverse(from, dir, return) ==
    IF return # NoDir THEN return
    ELSE IF dir \in DOMAIN from.returns THEN from.returns[dir] ELSE NoDir

\* link_exit: the exit is there, whatever it led to before; then every exit of the place is checked.
CanLink(o, there, to) == to.active /\ to.kind \in PlaceKinds /\ ExitsValid(o, there)

\* (Mutant: the way back takes the place of an exit of that name.)
Overriding(o, f, from, t, to, dir, reciprocal, return) ==
    LET there == [from EXCEPT !.exits = With(@, dir, t)]
        reverse == Reverse(from, dir, return)
    IN  IF ~reciprocal \/ reverse = NoDir
          THEN [ok |-> CanLink(o, there, to), from |-> there, to |-> to]
          ELSE [ok |-> CanLink(o, there, to),
                from |-> [there EXCEPT !.returns = With(@, dir, reverse)],
                to |-> [to EXCEPT !.exits = With(@, reverse, f)]]

\* link_places: a way back is only added where no exit answers to its name.
LinkPlaces(o, f, from, t, to, dir, reciprocal, return) ==
    LET there == [from EXCEPT !.exits = With(@, dir, t)]
        reverse == Reverse(from, dir, return)
        back == [to EXCEPT !.exits = With(@, reverse, f)]
    IN  IF ~reciprocal \/ reverse = NoDir \/ Resolve([i \in {t} |-> to], t, reverse) # NoDir
          THEN [ok |-> CanLink(o, there, to), from |-> there, to |-> to]
          ELSE [ok |-> CanLink(o, there, to) /\ ExitsValid(o, back),
                from |-> [there EXCEPT !.returns = With(@, dir, reverse)],
                to |-> back]

\* default_place_type and parent_for_new_room: a room is dug inside the place it is dug from.
PlaceKind(from, wanted) ==
    IF wanted # NoDir THEN wanted ELSE IF from.kind = "room" THEN "room" ELSE "area"
NewPlace(kind, f) ==
    [kind |-> kind, active |-> TRUE, at |-> IF kind = "room" THEN f ELSE Nil,
     scripts |-> <<>>, exits |-> <<>>, returns |-> <<>>]

(***************************************************************************)
(* Gates and keys.                                                         *)
(***************************************************************************)
\* gate_has_lock and gate_is_locked: without a lock id the flag counts for nothing.
HasLock(gate) == gate.lock # Nil
IsLocked(gate) == HasLock(gate) /\ gate.locked
Unlocks(key, gate) == key.kind = "key" /\ HasLock(gate) /\ key.lock = gate.lock

\* portal_for_direction finds one of these, the first in the order of a HashMap.
PortalsFor(o, room, dir) ==
    {i \in DOMAIN o : o[i].kind \in PortalKinds /\ o[i].active /\ o[i].at = room /\ o[i].dir = dir}

\* portal_permits_exit and portal_passage_block
Passable(portal) == portal.kind = "door"
Permits(portal, to) == portal.dest \in {Nil, to}
Blocks(portal) == Passable(portal) /\ (IsLocked(portal) \/ ~portal.open)

\* find_matching_keys_in_possession: what the player's slots reach (carried open bags included).
KeysHeld(o, player, gate) ==
    {k \in o[player].held : Active(o, k) /\ Unlocks(o[k], o[gate])}

Players(o) == {i \in DOMAIN o : o[i].kind = "player" /\ o[i].active}

\* consume_key: deleted, and out of every slot.
ConsumeKey(o, k) ==
    [i \in DOMAIN o |->
        CASE i = k -> [o[i] EXCEPT !.active = FALSE]
          [] i \in Players(o) -> [o[i] EXCEPT !.held = @ \ {k}]
          [] OTHER -> o[i]]

\* unlock_gate with key `k`: a one-time key crumbles, a one-time lock dissolves.
UnlockWith(o, gate, k) ==
    LET opened == [o EXCEPT ![gate].locked = FALSE,
                            ![gate].lock = IF o[gate].spends THEN Nil ELSE @,
                            ![gate].spends = FALSE]
    IN  IF o[k].once THEN ConsumeKey(opened, k) ELSE opened

OpenGate(o, gate) == [o EXCEPT ![gate].open = TRUE]

\* What unlocking marks for saving: the gate; with a one-time key, the key and every creature too.
UnlockMarks(o, gate, k) == {gate} \cup (IF o[k].once THEN {k} \cup Players(o) ELSE {})

\* player_encumbrance_level_with_anatomy against the threshold
Overloaded(o, player) == Cardinality(o[player].held) > Burden
================================================================================
