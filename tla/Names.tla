-------------------------------- MODULE Names --------------------------------
(***************************************************************************)
(* What a player means by a word: resolve_object and the lookups the       *)
(* inventory commands make with it, in the world of MoveManager.           *)
(*                                                                         *)
(* A word is an id or a name.  Names are given by what they match; nothing *)
(* here is hidden.  A match is a thing and where it was come upon, for one *)
(* thing may be come upon in several places.                               *)
(***************************************************************************)
EXTENDS MoveManager

CONSTANTS
    Words,     \* what may be typed for a thing
    Called,    \* the words each thing answers to, by its name or an alias
    Singular,  \* singularize_item_name and pluralize_item_name
    Plural

ASSUME NamesAssumption ==
    /\ Called \in [Things -> SUBSET Words]
    /\ Singular \in [Words -> Words] /\ Plural \in [Words -> Words]

Scopes == {"possession", "room", "either", "general"}

\* TargetResolution.
Found(x) == [is |-> "found", id |-> x]
NotFound == [is |-> "not found"]
Ambiguous(matches) == [is |-> "ambiguous", among |-> matches]
Single(matches) ==
    CASE matches = {} -> NotFound
      [] Cardinality(matches) = 1 -> Found((CHOOSE m \in matches : TRUE).id)
      [] OTHER -> Ambiguous(matches)

Match(x, in) == [id |-> x, in |-> in]
OrElse(matches, others) == IF matches # {} THEN matches ELSE others

\* name_matches, of objects that are in the graph.
NameMatches(word, x) == Present(World, x) /\ word \in Called[x]

\* The open bags that a walk down the contents of the open ones in S comes
\* by.  (Mutant: it does not ask whether the inner ones, or any, are open.)
ClosedToo(S) == {b \in Bags : \E c \in S \cap Bags : b = c \/ b \in contents[c]}
OpenBags(S) ==
    LET Open1 == {b \in Bags : Present(World, b) /\ open[b]}
        Walk[n \in 0..Cardinality(Bags)] ==
          IF n = 0 THEN S \cap Open1
          ELSE Walk[n - 1] \cup UNION {contents[b] \cap Open1 : b \in Walk[n - 1]}
    IN Walk[Cardinality(Bags)]
Inside(S, word) ==
    UNION {{Match(x, b) : x \in {y \in contents[b] : NameMatches(word, y)}} : b \in OpenBags(S)}

\* collect_possession_matches: in the hands and on the body, or else in what
\* is carried open.
Immediate(p, word) == {Match(x, p) : x \in {y \in Worn(World, p) : NameMatches(word, y)}}
Nested(p, word) == Inside(Worn(World, p), word)
PossessionMatches(p, word) == OrElse(Immediate(p, word), Nested(p, word))

\* collect_room_matches: on the ground and in each open bag there, or else,
\* the player's own only where there are any.
OnGround(p) == {x \in Things : loc[x] = Room /\ ~Possesses(World, p, x)}
Around(p, word) ==
    {Match(x, Room) : x \in {y \in OnGround(p) : NameMatches(word, y)}}
    \cup UNION {{[id |-> m.id, in |-> m.in, from |-> b] : m \in Inside({b}, word)} : b \in OnGround(p) \cap Bags}
OwnFirst(matches, own) == OrElse({m \in matches : m.id \in own}, matches)
RoomMatches(p, word, own) == OwnFirst(Around(p, word), own)

GlobalMatches(word) == {Match(x, None) : x \in {y \in Things : NameMatches(word, y)}}

\* resolve_by_name: tier by tier; what one finds, be it too much, ends it.
FirstTier(tiers) ==
    LET some == {i \in DOMAIN tiers : tiers[i] # {}}
    IN IF some = {} THEN NotFound ELSE Single(tiers[Min(some)])
ByName(p, word, scope, own) ==
    FirstTier(<<IF scope # "room" THEN PossessionMatches(p, word) ELSE {},
                IF scope # "possession" THEN RoomMatches(p, word, own) ELSE {},
                IF scope = "general" THEN GlobalMatches(word) ELSE {}>>)

\* resolve_by_object_id: an id is found or not, and never taken for a name.
InScope(p, x, scope) ==
    /\ Present(World, x)
    /\ CASE scope = "possession" -> Possesses(World, p, x)
         [] scope = "room" -> Accessible(World, p, x)
         [] scope = "either" -> Possesses(World, p, x) \/ loc[x] = Room
         [] scope = "general" -> TRUE
ById(p, x, scope) == IF InScope(p, x, scope) THEN Found(x) ELSE NotFound

\* resolve_object; own is what the player owns.
ResolveObject(p, word, scope, own) ==
    CASE word = "me" -> Found(p)
      [] word = "here" -> Found(Room)
      [] word \in Things -> ById(p, word, scope)
      [] OTHER -> ByName(p, word, scope, own)

(***************************************************************************)
(* The lookups of the inventory commands.                                  *)
(***************************************************************************)

\* target_visible_on_ground, target_carried_by_player.
VisibleOnGround(p, word, own) == ResolveObject(p, word, "room", own).is # "not found"
CarriedByPlayer(p, word, own) == ResolveObject(p, word, "possession", own).is = "found"

\* item_lookup_variants, and the first of them that comes to anything.
LookupVariants(word) ==
    IF word \notin Words THEN <<word>>
    ELSE <<word>> \o (IF Singular[word] # word THEN <<Singular[word]>> ELSE <<>>)
                  \o (IF Plural[word] \notin {word, Singular[word]} THEN <<Plural[word]>> ELSE <<>>)
FirstFound(tried) ==
    LET some == {i \in DOMAIN tried : tried[i].is # "not found"}
    IN IF some = {} THEN NotFound ELSE tried[Min(some)]

\* resolve_carried_item, for drop and put.
CarriedOr(r, p, name, own) ==
    IF r = NotFound /\ VisibleOnGround(p, name, own) THEN [is |-> "on ground"] ELSE r
ResolveCarriedItem(p, word, own) ==
    LET names == LookupVariants(word) IN
      FirstFound([i \in DOMAIN names |->
                    CarriedOr(ResolveObject(p, names[i], "possession", own), p, names[i], own)])

\* resolve_ground_item, for take.
ResolveGroundItem(p, word, own) ==
    LET names == LookupVariants(word) IN
      IF ~VisibleOnGround(p, word, own) /\ CarriedByPlayer(p, word, own) THEN [is |-> "holding"]
      ELSE FirstFound([i \in DOMAIN names |-> ResolveObject(p, names[i], "room", own)])

(***************************************************************************)
(* Properties.                                                             *)
(***************************************************************************)

Answers(word) == {x \in Things : Present(World, x) /\ Called[x] \cap ToSet(LookupVariants(word)) # {}}
Distinct(r) == r.is = "ambiguous" => Cardinality({m.id : m \in r.among}) > 1

\* Names are looked up by walking down the contents of bags, and what a
\* command may do is decided by walking up from the thing (display/resolve.rs).
\* They never disagree: what take finds by a word, take_item may take and not
\* find NotInRoom; what it does not find is not there; nobody is asked which
\* of one thing is meant; and an id finds whatever a name finds.
TakeFinds(p, word, own, r) ==
    LET near == {x \in Answers(word) : Accessible(World, p, x)}
    IN /\ r.is = "found" => /\ r.id \in near /\ ~Possesses(World, p, r.id)
                            /\ Resolved(World, r.id).kind \in {"room", "bag"}
                            /\ ResolveGroundItem(p, r.id, own) = r
       /\ r.is = "not found" => near = {}
       /\ r.is = "holding" => \E x \in Answers(word) : Possesses(World, p, x)
       /\ Distinct(r)

\* And what drop and put find is in the player's possession, in nobody else's,
\* and where resolve_location says it is.
DropFinds(p, word, own, r) ==
    LET reach == {x \in Answers(word) : x \in Worn(World, p)
                    \/ \E b \in OpenBags(Worn(World, p)) : loc[x] = b}
    IN /\ r.is = "found" => /\ r.id \in reach
                            /\ \A o \in Players \ {p} : ~Possesses(World, o, r.id)
                            /\ ResolveCarriedItem(p, r.id, own) = r
       /\ r.is = "not found" => reach = {}
       /\ r.is = "on ground" => \E x \in Answers(word) : Accessible(World, p, x)
       /\ Distinct(r)

NamesReach ==
    \A p \in Players, word \in Words, own \in {{}, DOMAIN Amounts} :
        /\ TakeFinds(p, word, own, ResolveGroundItem(p, word, own))
        /\ DropFinds(p, word, own, ResolveCarriedItem(p, word, own))
=============================================================================
