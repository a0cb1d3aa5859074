---------------------------- MODULE MoveManager ----------------------------
(***************************************************************************)
(* Taking, dropping, putting and wearing: move_object and the inventory    *)
(* commands above it, in one room.                                         *)
(*                                                                         *)
(* Where a thing is, is written down up to four times: its own location,   *)
(* its carried_slot, the contents of the container it is in and the        *)
(* body_slots of the creature that holds it.  A command runs under the     *)
(* mutex of the world, so it is one step, but it may fail half-way.        *)
(*                                                                         *)
(* All stackables here merge with each other, every item takes one hand,   *)
(* no volume limit is set, bags take everything and nothing is locked.     *)
(* Scripts that on_take and on_drop run are left out.                      *)
(***************************************************************************)
EXTENDS Integers, FiniteSetsExt, SequencesExt

CONSTANTS
    Players,    \* creatures with hands and a back
    Bags,       \* wearable containers
    Stacks,     \* ids of stackables, of splits yet to come too
    Splits,     \* bound: the ids split_stack_id has for splits of a stack
    Hands,      \* the grasp slots, in order of preference
    Back,       \* the wear slot of a bag
    Room, Gone, None,
    MaxStack,   \* max_stack of the stackables
    Capacity,   \* capacity of a bag
    Weight,     \* weight of a bag, or of one unit of a stack
    MaxWeight,  \* max_weight of players and bags; below 0 there is no limit
    Bonus,      \* mod_max_weight of bags
    Amounts,    \* initial stacks and their counts
    Ops         \* the inputs in play

OpKinds == {"take", "drop", "drop_bag", "put", "nest", "remove", "wield", "wear", "open", "close"}
BodySlots == ToSet(Hands) \cup {Back}
Things == Bags \cup Stacks

\* Ids are unique, and there are finitely many of them.
ASSUME MoveAssumption ==
    /\ IsFiniteSet(Things) /\ Bags \cap Stacks = {}
    /\ Players \cap (Things \cup {Room, Gone, None}) = {}
    /\ Things \cap {Room, Gone, None} = {}
    /\ Room # Gone /\ Room # None /\ Gone # None
    /\ Hands \in Seq(ToSet(Hands)) /\ Back \notin ToSet(Hands) /\ None \notin BodySlots
    /\ MaxStack \in Nat \ {0} /\ Capacity \in Nat
    /\ Weight \in [Things -> Nat] /\ Bonus \in [Bags -> Nat]
    /\ MaxWeight \in [Players \cup Bags -> Int]
    /\ Splits \in [Stacks -> SUBSET Stacks]
    /\ DOMAIN Amounts \subseteq Stacks /\ \A s \in DOMAIN Amounts : Amounts[s] \in 1..MaxStack
    /\ Ops \subseteq OpKinds

VARIABLES
    loc,       \* location of a thing; Gone when it is not in the graph
    contents,  \* contents of each bag
    slots,     \* body_slots of each player
    carried,   \* carried_slot of a thing
    count,     \* stack_count
    open,      \* is_open of each bag
    marked     \* what the last command marked dirty

vars == <<loc, contents, slots, carried, count, open, marked>>

Init ==
    /\ \E at \in [DOMAIN Amounts -> Bags \cup {Room}] :
         /\ loc = [x \in Things |-> IF x \in Bags THEN Room
                                    ELSE IF x \in DOMAIN Amounts THEN at[x] ELSE Gone]
         /\ contents = [b \in Bags |-> {x \in DOMAIN Amounts : at[x] = b}]
    /\ \A b \in Bags : Cardinality(contents[b]) <= Capacity
    /\ slots = [p \in Players |-> [s \in BodySlots |-> None]]
    /\ carried = [x \in Things |-> None]
    /\ count = [x \in Stacks |-> IF x \in DOMAIN Amounts THEN Amounts[x] ELSE 0]
    /\ open \in [Bags -> BOOLEAN]
    /\ marked = {}

(***************************************************************************)
(* The objects as a record, which move_object changes step by step.        *)
(***************************************************************************)

World == [loc |-> loc, contents |-> contents, slots |-> slots, carried |-> carried, count |-> count]

Present(w, x) == w.loc[x] # Gone
Units(w, x) == IF x \in Stacks THEN w.count[x] ELSE 1
Worn(w, p) == {w.slots[p][s] : s \in BodySlots} \ {None}
Held(w, p) == {w.slots[p][s] : s \in ToSet(Hands)} \ {None}

\* The locations above x, as far as bags go.
Above(w, x) ==
    LET Up[n \in 0..Cardinality(Bags)] ==
          IF n = 0 THEN {w.loc[x]} ELSE Up[n - 1] \cup {w.loc[b] : b \in Up[n - 1] \cap Bags}
    IN Up[Cardinality(Bags)]

\* is_in_player_possession: follows contents, open or not.
Possesses(w, p, x) ==
    LET In[n \in 0..Cardinality(Bags)] ==
          IF n = 0 THEN Worn(w, p)
          ELSE In[n - 1] \cup UNION {w.contents[b] : b \in In[n - 1] \cap Bags}
    IN x \in In[Cardinality(Bags)]

\* body_slot_item_valid, prune_creature_body_slots, clear_creature_slots_for_item.
ValidInSlot(w, p, x) == Present(w, x) /\ Above(w, x) \cap ({p} \cup Worn(w, p)) # {}

Pruned(w, p) ==
    [w EXCEPT !.slots[p] = [s \in BodySlots |->
        IF w.slots[p][s] # None /\ ~ValidInSlot(w, p, w.slots[p][s]) THEN None ELSE w.slots[p][s]]]

Cleared(w, p, x) ==
    [w EXCEPT !.slots[p] = [s \in BodySlots |-> IF w.slots[p][s] = x THEN None ELSE w.slots[p][s]]]

\* LocationRef.
InRoom(r) == [kind |-> "room", of |-> r]
InBag(b) == [kind |-> "bag", of |-> b]
OnBody(p) == [kind |-> "slot", of |-> p]
Carrying(p) == [kind |-> "inventory", of |-> p]

\* resolve_location.
Resolved(w, x) ==
    LET l == w.loc[x] IN
    CASE l \in Bags /\ (w.carried[x] # None \/ x \in w.contents[l]) -> InBag(l)
      [] l \in Players /\ (w.carried[x] # None \/ x \in Worn(w, l)) -> OnBody(l)
      [] l \in Players /\ w.carried[x] = None /\ x \notin Worn(w, l) -> Carrying(l)
      [] OTHER -> InRoom(l)

\* verify_at_source: a body slot is as good as the inventory.
AtSource(w, x, src) ==
    LET at == Resolved(w, x) IN
    \/ at = src
    \/ at.kind = "slot" /\ src = Carrying(at.of)

\* is_accessible_in_room: on the ground, or in open bags on the ground.
\* (Mutant: or in any open bag.)
AnyOpenBag(w, p, x) == w.loc[x] = Room \/ (w.loc[x] \in Bags /\ open[w.loc[x]])
Accessible(w, p, x) ==
    LET Ground == {y \in Things : w.loc[y] = Room /\ ~Possesses(w, p, y)}
        Near[n \in 0..Cardinality(Bags)] ==
          IF n = 0 THEN Ground
          ELSE Near[n - 1] \cup {y \in Things : \E b \in Near[n - 1] \cap Bags :
                                   w.loc[y] = b /\ y \in w.contents[b] /\ open[b]}
    IN x \in Near[Cardinality(Bags)]

(***************************************************************************)
(* Hands                                                                   *)
(***************************************************************************)

\* grasp_slot_free and select_grasp_slots.
FreeHands(w, p, x) ==
    {i \in 1..Len(Hands) : LET y == w.slots[p][Hands[i]] IN
        y = None \/ y = x \/ ~ValidInSlot(w, p, y)}

Ok(w) == [ok |-> TRUE, w |-> w]
Err(w) == [ok |-> FALSE, w |-> w]

\* place_in_grasp_slots.
Grasp(w0, p, x) ==
    LET w == Pruned(w0, p)
        hand == Hands[Min(FreeHands(w, p, x))]
    IN IF FreeHands(w, p, x) = {} THEN Err(w)
       ELSE Ok([w EXCEPT !.slots[p][hand] = x, !.loc[x] = p, !.carried[x] = hand])

(***************************************************************************)
(* Weight                                                                  *)
(***************************************************************************)

\* total_weight: of a thing and all that is in it, each counted once;
\* contents_weight, player_carried_weight.
TotalWeight(w, x) ==
    LET In[n \in 0..Cardinality(Bags)] ==
          IF n = 0 THEN {x} ELSE In[n - 1] \cup UNION {w.contents[b] : b \in In[n - 1] \cap Bags}
    IN MapThenSumSet(LAMBDA y : Weight[y] * Units(w, y), In[Cardinality(Bags)])
ContentsWeight(w, b) == MapThenSumSet(LAMBDA x : TotalWeight(w, x), w.contents[b])
CarriedWeight(w, p) == MapThenSumSet(LAMBDA x : TotalWeight(w, x), Worn(w, p))
TransferWeight(w, x, units) == IF x \in Stacks THEN Weight[x] * units ELSE TotalWeight(w, x)

\* player_effective_max_weight: a bag in the hand helps like one on the back.
EffectiveMaxWeight(w, p) ==
    IF MaxWeight[p] < 0 THEN MaxWeight[p]
    ELSE MaxWeight[p] + MapThenSumSet(LAMBDA b : Bonus[b], Worn(w, p) \cap Bags)

\* max_carry_units_for_weight, and the same in a bag.
UnitsWithin(limit, load, x) ==
    CASE limit < 0 \/ Weight[x] = 0 -> MaxStack
      [] limit >= 0 /\ Weight[x] > 0 /\ load > limit -> 0
      [] limit >= 0 /\ Weight[x] > 0 /\ load <= limit -> (limit - load) \div Weight[x]

\* player_weight_bearer, owner_player_of_container.
Bearers(w, dst) ==
    CASE dst.kind \in {"slot", "inventory"} -> {dst.of}
      [] dst.kind = "bag" -> Above(w, dst.of) \cap Players
      [] dst.kind = "room" -> {}

(***************************************************************************)
(* The plan of a transfer: units that merge, units that need a new stack.  *)
(***************************************************************************)

\* merge_room_in_stack.  (Mutant: the unit that is already there is ignored.)
OneTooMany(w, m) == IF m = None THEN 0 ELSE MaxStack + 1 - w.count[m]
MergeRoom(w, m) == IF m = None THEN 0 ELSE MaxStack - w.count[m]

\* find_mergeable_stack_in_*: in the room the smallest, elsewhere whichever
\* comes first.  Only the room leaves out the stack that moves.
MergeTargets(w, x, dst) ==
    LET Room1 == {y \in Stacks \ {x} : w.loc[y] = dst.of /\ w.count[y] < MaxStack}
        Filling(S) == {y \in S \cap Stacks : Present(w, y) /\ w.count[y] < MaxStack}
    IN CASE x \in Bags \/ dst.kind = "slot" -> {}
         [] x \in Stacks /\ dst.kind = "room" -> {y \in Room1 : \A z \in Room1 : w.count[y] <= w.count[z]}
         [] x \in Stacks /\ dst.kind = "bag" -> Filling(w.contents[dst.of])
         [] x \in Stacks /\ dst.kind = "inventory" -> Filling(Held(w, dst.of))

Least(i, j) == IF i < j THEN i ELSE j

\* slots_free.  (Mutant: one over the capacity.)
RoomForOneMore(w, b) == Cardinality(w.contents[b]) <= Capacity
HasRoom(w, b) == Cardinality(w.contents[b]) < Capacity

\* What may move of q units of x, and into m as much as goes in there.
Requested(w, x, q) == Least(q, Units(w, x))
RoomPlan(w, x, q, m) ==
    LET merge == Least(Requested(w, x, q), MergeRoom(w, m)) IN
      [merge |-> merge, new |-> Requested(w, x, q) - merge]
BodySlotPlan(w, x, p, q) ==
    [merge |-> 0, new |-> IF w.slots[p][Back] = None THEN Least(Requested(w, x, q), MaxStack) ELSE 0]
ContainerPlan(w, x, b, q, m) ==
    LET spare == CASE m # None -> MergeRoom(w, m)
                   [] m = None /\ HasRoom(w, b) -> MaxStack
                   [] OTHER -> 0
        units == Least(Least(Requested(w, x, q), spare), UnitsWithin(MaxWeight[b], ContentsWeight(w, b), x))
    IN IF m = None THEN [merge |-> 0, new |-> units] ELSE [merge |-> units, new |-> 0]
InventoryPlan(w, x, p, q, m) ==
    LET merge == Least(Requested(w, x, q), MergeRoom(w, m)) IN
      [merge |-> merge,
       new |-> IF FreeHands(w, p, x) # {} THEN Least(Requested(w, x, q) - merge, MaxStack) ELSE 0]

\* cap_stack_transfer_plan_to_weight: what merges goes first.
Capped(plan, most) ==
    LET merge == Least(plan.merge, most) IN
      [merge |-> merge, new |-> Least(plan.new, most - merge)]

\* compute_stack_transfer_plan.  Whether x is carried already is not looked
\* at when it goes into the hands.
Plan(w, x, dst, q, m) ==
    CASE dst.kind = "room" -> RoomPlan(w, x, q, m)
      [] dst.kind = "bag" -> ContainerPlan(w, x, dst.of, q, m)
      [] dst.kind = "inventory" ->
           Capped(InventoryPlan(w, x, dst.of, q, m),
                  UnitsWithin(EffectiveMaxWeight(w, dst.of), CarriedWeight(w, dst.of), x))
      [] dst.kind = "slot" -> BodySlotPlan(w, x, dst.of, q)

\* validate_player_carry_weight.  (Mutant: it is not asked.)
NotWeighed(w, x, dst, units) == TRUE
Bearable(w, x, dst, units) ==
    \A p \in Bearers(w, dst) :
      ~Possesses(w, p, x) /\ MaxWeight[p] >= 0 =>
        CarriedWeight(w, p) + TransferWeight(w, x, units) <= EffectiveMaxWeight(w, p)

(***************************************************************************)
(* Carrying it out                                                         *)
(***************************************************************************)

\* detach_from_source of a whole stack.  (Mutant: the container keeps its
\* id.)
StillListed(w, x, src) == IF src.kind \in {"slot", "inventory"} THEN Cleared(w, src.of, x) ELSE w
Detached(w, x, src) ==
    CASE src.kind = "bag" -> [w EXCEPT !.contents[src.of] = @ \ {x}]
      [] src.kind \in {"slot", "inventory"} -> Cleared(w, src.of, x)
      [] src.kind = "room" -> w

Erased(w, x) == [w EXCEPT !.loc[x] = Gone, !.count[x] = 0, !.carried[x] = None]

\* merge_stack_units.  The remainder is computed from a clone of the source
\* made before the target grew.
Merged(w, x, src, m, units) ==
    LET grown == [w EXCEPT !.count[m] = @ + units] IN
    IF units >= Units(w, x) THEN Erased(Detached(grown, x, src), x)
    ELSE [grown EXCEPT !.count[x] = Units(w, x) - units]

\* The new stack n takes units of x and all else from it.
Split(w, x, n, units) ==
    [w EXCEPT !.count[n] = units, !.loc[n] = w.loc[x], !.carried[n] = w.carried[x],
              !.count[x] = Units(w, x) - units]

Packed(w, x, b) == [w EXCEPT !.contents[b] = @ \cup {x}, !.loc[x] = b, !.carried[x] = None]
Dropped(w, x, r) == [w EXCEPT !.loc[x] = r, !.carried[x] = None]

\* remove_from_source fails where the holder does not know the item.
Listed(w, x, src) ==
    /\ src.kind = "slot" => x \in Worn(w, src.of)
    /\ src.kind = "bag" => x \in w.contents[src.of]

\* apply_destination of a whole object.
Applied(w, x, dst) ==
    CASE dst.kind = "room" ->
           Ok([Dropped(w, x, dst.of) EXCEPT !.slots = [p \in Players |-> Cleared(w, p, x).slots[p]]])
      [] dst.kind = "slot" ->
           IF w.slots[dst.of][Back] # None THEN Err(w)
           ELSE Ok([w EXCEPT !.slots[dst.of][Back] = x, !.loc[x] = dst.of, !.carried[x] = Back])
      [] dst.kind = "inventory" -> Grasp(w, dst.of, x)

\* place_new_stack: a whole object moves, a part becomes the stack n.
Placed(w, x, src, dst, units, n) ==
    CASE ~Present(w, x) -> Ok(w)
      [] Present(w, x) /\ dst.kind = "bag" ->
           Ok(IF units >= Units(w, x) THEN Packed(Detached(w, x, src), x, dst.of)
              ELSE Packed(Split(w, x, n, units), n, dst.of))
      [] Present(w, x) /\ dst.kind # "bag" /\ units >= Units(w, x) ->
           IF Listed(w, x, src) THEN Applied(Detached(w, x, src), x, dst) ELSE Err(w)
      [] Present(w, x) /\ dst.kind = "room" /\ units < Units(w, x) ->
           Ok(Dropped(Split(w, x, n, units), n, dst.of))
      [] Present(w, x) /\ dst.kind = "inventory" /\ units < Units(w, x) ->
           Grasp(Split(w, x, n, units), dst.of, n)

\* execute_stack_transfer_plan.
Executed(w, x, src, dst, plan, m, n) ==
    LET w1 == IF plan.merge > 0 THEN Merged(w, x, src, m, plan.merge) ELSE w
    IN IF plan.new > 0 THEN Placed(w1, x, src, dst, plan.new, n) ELSE Ok(w1)

\* The id execute_stack_transfer_plan returns for where the units ended.
Primary(w, x, dst, plan, m, n) ==
    LET merge == plan.merge
        new == plan.new
        part == merge + new < Units(w, x)
    IN CASE new = 0 \/ (merge > 0 /\ (part \/ dst.kind = "bag")) -> m
         [] new > 0 /\ merge = 0 /\ part -> n
         [] new > 0 /\ ~part /\ (merge = 0 \/ dst.kind # "bag") -> x

\* What is located at h.  The players are in the room.
At(w, h) == {y \in Things : w.loc[y] = h} \cup IF h = Room THEN Players ELSE {}

\* The ids move_object marks: the object, the stack that its units ended in,
\* both holders and everything that now is at the destination.  (Mutant: the
\* holders are forgotten.)
OnlyItems(w, x, src, dst, to) ==
    ({x, to} \cup At(w, dst.of)) \ {None}
Touched(w, x, src, dst, to) ==
    ({x, to, src.of, dst.of} \cup At(w, dst.of)) \ {None}

PrunedAll(w, ids) ==
    [w EXCEPT !.slots = [p \in Players |-> IF p \in ids THEN Pruned(w, p).slots[p] ELSE w.slots[p]]]

MayMove(w, x, src, dst) ==
    /\ dst # InBag(x)
    /\ src.kind = "bag" => src # dst /\ open[src.of]
    /\ dst.kind = "bag" => open[dst.of]
    /\ AtSource(w, x, src)

\* The split ids that are free; no id is taken while none is needed.
FreeIds(w, x, plan) ==
    IF plan.new \in {0, Units(w, x) - plan.merge} THEN {None} ELSE {n \in Splits[x] : ~Present(w, n)}
OrNone(S) == IF S = {} THEN {None} ELSE S

Become(w, ids) ==
    /\ loc' = w.loc /\ contents' = w.contents /\ slots' = w.slots
    /\ carried' = w.carried /\ count' = w.count
    /\ marked' = ids

\* What was done is marked and its holders are pruned; an error leaves what
\* was changed, unmarked.
Settle(w, ids) == Become(PrunedAll(w, ids), ids)
Finish(r, x, src, dst, to) ==
    IF r.ok THEN Settle(r.w, Touched(r.w, x, src, dst, to)) ELSE Become(r.w, {})
Transfer(w, x, src, dst, plan, m) ==
    \/ /\ plan.merge + plan.new = 0 \/ ~Bearable(w, x, dst, plan.merge + plan.new)
       /\ Become(w, {})
    \/ /\ plan.merge + plan.new > 0 /\ Bearable(w, x, dst, plan.merge + plan.new)
       /\ \E n \in FreeIds(w, x, plan) :
            Finish(Executed(w, x, src, dst, plan, m, n), x, src, dst, Primary(w, x, dst, plan, m, n))

\* move_object in the objects w0 that the command has changed so far, which
\* are w once both holders are pruned.
MoveIn(w, w0, x, src, dst, q) ==
    \/ /\ ~MayMove(w0, x, src, dst)
       /\ Become(w0, {})
    \/ /\ MayMove(w0, x, src, dst)
       /\ \E m \in OrNone(MergeTargets(w, x, dst)) :
            Transfer(w, x, src, dst, Plan(w, x, dst, q, m), m)
Move(w0, x, src, dst, q) == MoveIn(PrunedAll(w0, {src.of, dst.of}), w0, x, src, dst, q)

\* From wherever it is.
MoveToRoom(w, x, r, q) == Move(w, x, Resolved(w, x), InRoom(r), q)
MoveToGrasp(w, x, p, q) == Move(w, x, Resolved(w, x), Carrying(p), q)
MoveToContainer(w, x, b, q) == Move(w, x, Resolved(w, x), InBag(b), q)

(***************************************************************************)
(* The commands.  An item is one the command's scope finds by its id.      *)
(***************************************************************************)

Requests == 1..MaxStack

\* take_item: from the ground or an open bag there.
Take(p, x, q) ==
    /\ "take" \in Ops
    /\ Present(World, x) /\ Accessible(World, p, x) /\ ~Possesses(World, p, x)
    /\ LET src == Resolved(World, x) IN
         /\ src = InRoom(Room) \/ src.kind = "bag"
         /\ Move(World, x, src, Carrying(p), q)
    /\ UNCHANGED open

\* drop_item: what is in a bag lands in the room first, and stays in its
\* contents.
Spilled(x) ==
    IF x \notin Bags THEN World
    ELSE [World EXCEPT
            !.loc = [y \in Things |-> IF y \in contents[x] /\ Present(World, y) THEN Room ELSE loc[y]],
            !.carried = [y \in Things |-> IF y \in contents[x] THEN None ELSE carried[y]]]

Drop(p, x, q) ==
    /\ (IF x \in Bags THEN "drop_bag" ELSE "drop") \in Ops
    /\ Present(World, x) /\ Possesses(World, p, x)
    /\ MoveToRoom(Spilled(x), x, Room, q)
    /\ UNCHANGED open

Reachable(p, b) == Possesses(World, p, b) \/ loc[b] = Room

\* put_item.
Put(p, x, b, q) ==
    /\ (IF x \in Bags THEN "nest" ELSE "put") \in Ops
    /\ Present(World, x) /\ Possesses(World, p, x)
    /\ x # b /\ Reachable(p, b) /\ open[b]
    /\ MoveToContainer(World, x, b, q)
    /\ UNCHANGED open

\* remove_item.
RemoveFrom(p, x, b) ==
    /\ "remove" \in Ops
    /\ Possesses(World, p, b) /\ open[b]
    /\ Present(World, x) /\ x \in contents[b]
    /\ Move(World, x, InBag(b), Carrying(p), MaxStack)
    /\ UNCHANGED open

\* wield_item: bags have no hand_slot and are refused.
Wield(p, x) ==
    /\ "wield" \in Ops
    /\ x \in Stacks /\ Present(World, x) /\ Possesses(World, p, x)
    /\ MoveToGrasp(World, x, p, MaxStack)
    /\ UNCHANGED open

\* wear_item.
Wear(p, b) ==
    /\ "wear" \in Ops
    /\ Reachable(p, b)
    /\ Move(World, b, IF Possesses(World, p, b) THEN Resolved(World, b) ELSE InRoom(Room), OnBody(p), 1)
    /\ UNCHANGED open

\* open_gate marks what it opens, close_container does not.
Open(p, b) ==
    /\ "open" \in Ops
    /\ Reachable(p, b) /\ ~open[b]
    /\ open' = [open EXCEPT ![b] = TRUE]
    /\ Become(World, {b})

Close(p, b) ==
    /\ "close" \in Ops
    /\ Reachable(p, b) /\ open[b]
    /\ open' = [open EXCEPT ![b] = FALSE]
    /\ Become(World, {})

Next ==
    \E p \in Players :
        \/ \E x \in Things, q \in Requests : Take(p, x, q) \/ Drop(p, x, q)
        \/ \E x \in Things, b \in Bags, q \in Requests : Put(p, x, b, q)
        \/ \E x \in Things, b \in Bags : RemoveFrom(p, x, b)
        \/ \E x \in Stacks : Wield(p, x)
        \/ \E b \in Bags : Wear(p, b) \/ Open(p, b) \/ Close(p, b)

Spec == Init /\ [][Next]_vars

(***************************************************************************)
(* Properties.                                                             *)
(***************************************************************************)

\* Every variable has its type.
TypeOK ==
    /\ loc \in [Things -> Players \cup Bags \cup {Room, Gone}]
    /\ contents \in [Bags -> SUBSET Things]
    /\ slots \in [Players -> [BodySlots -> Things \cup {None}]]
    /\ carried \in [Things -> BodySlots \cup {None}]
    /\ count \in [Stacks -> Nat]
    /\ open \in [Bags -> BOOLEAN]
    /\ marked \subseteq Things \cup Players \cup {Room}

\* Splitting, merging and moving neither make nor lose a unit; no stack
\* outgrows max_stack, and an id without units is not in the graph.
UnitsConserved ==
    /\ MapThenSumSet(LAMBDA x : count[x], Stacks) = MapThenSumSet(LAMBDA x : Amounts[x], DOMAIN Amounts)
    /\ \A x \in Stacks : count[x] \in 0..MaxStack /\ (Present(World, x) <=> count[x] > 0)

\* A bag holds at most capacity things.
CapacityBound == \A b \in Bags : Cardinality(contents[b]) <= Capacity

\* The contents of a bag and the locations of things are the same relation.
ContentsAgree == \A b \in Bags, x \in Things : x \in contents[b] <=> loc[x] = b

\* So are the body slots and the things located at a player, and each such
\* thing knows one of its slots; nobody holds what another one holds.
SlotsAgree ==
    \A p \in Players, x \in Things :
        /\ x \in Worn(World, p) <=> loc[x] = p
        /\ loc[x] = p => carried[x] # None /\ slots[p][carried[x]] = x

\* Contents and body slots name objects that are in the graph.
ReferencesResolve ==
    \A x \in Things :
        (\E b \in Bags : x \in contents[b]) \/ (\E p \in Players : x \in Worn(World, p)) => Present(World, x)

\* So a thing is in one place, whichever of the four records one asks: its own
\* location and slot, the contents of bags, the body slots of creatures.
RecordsAgree == TypeOK /\ ContentsAgree /\ SlotsAgree /\ ReferencesResolve

\* What a command changes it marks for the next save.
MarksCoverChanges ==
    [][/\ \A x \in Things : loc'[x] # loc[x] \/ carried'[x] # carried[x] => x \in marked'
       /\ \A x \in Stacks : count'[x] # count[x] => x \in marked'
       /\ \A b \in Bags : contents'[b] # contents[b] \/ open'[b] # open[b] => b \in marked'
       /\ \A p \in Players : slots'[p] # slots[p] => p \in marked']_vars

\* A command changes what one player possesses at the most.
Possession(p) == {x \in Things : Possesses(World, p, x)}
OneHolderChanges ==
    [][\A p, r \in Players : p # r => Possession(p)' = Possession(p) \/ Possession(r)' = Possession(r)]_vars

\* Nobody comes to carry more than they can, and no bag to hold more, by what
\* they take, put or wear, however the plan of a transfer is made up; to be
\* over the limit already, after letting go of a bag that helped, is no error.
CarryLimits ==
    [][/\ \A p \in Players :
            MaxWeight[p] >= 0 /\ CarriedWeight(World, p)' > CarriedWeight(World, p) =>
              CarriedWeight(World, p)' <= EffectiveMaxWeight(World, p)'
       /\ \A b \in Bags :
            MaxWeight[b] >= 0 /\ ContentsWeight(World, b)' > ContentsWeight(World, b) =>
              ContentsWeight(World, b)' <= MaxWeight[b]]_vars
====
