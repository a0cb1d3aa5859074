------------------------------ MODULE MCService ------------------------------
(***************************************************************************)
(* A small module: a hall and a cell behind a door, a chest with a key in  *)
(* it, a guard, one spawner of each sort and a job, in four files; and what *)
(* goes wrong when one line of it is another.                              *)
(***************************************************************************)
EXTENDS Service

L(tag, key, value) == [tag |-> tag, key |-> key, value |-> value]
Open(kind, name) == L("open", kind, name)
Says(key, value) == L("set", key, value)
Is0(key, value) == L("colon", key, value)
End0 == L("end", "", "")
Blank == L("blank", "", "")
Behavior(event, action, said) ==
    [tag |-> "behavior", key |-> event, value |-> "", action |-> action, text |-> said, react |-> ""]

UniverseLines == <<Open("universe", "small"), Says("default_world", "keep"), End0,
                   L("include_world", "keep", "")>>
WorldLines == <<Open("world", "keep"), Says("starting_location", "hall"), End0,
                L("include", "map", ""), L("import", "things", ""), L("include", "life", "")>>
MapLines ==
    <<Is0("type", "area"), Is0("base_name", "hall"), L("section", "exits", ""), Is0("north", "cell"),
      L("section", "exit_returns", ""), Is0("north", "south"), Blank,
      Is0("base_name", "cell"), Is0("location", "hall"),
      L("section", "exits", ""), Is0("south", "hall"), Blank>>
ThingLines ==
    <<Open("item", "key"), Says("location", "chest"), Says("is_key", "true"), Says("lock_id", "iron"),
      L("trigger", "on_take", "click"), End0,
      Open("prototype", "box"), Says("is_container", "true"), Says("capacity", 3),
      Says("weight", 4), End0,
      Open("item", "chest"), Says("prototype", "box"), Blank, Says("location", "hall"), End0,
      Open("item", "lamp"), Says("location", "chest"), Says("weight", Unparsable), End0,
      Open("item", "gate"), Says("location", "hall"), Says("door", "true"),
      Says("destination", "cell"), Says("lock_id", "iron"), Says("locked", "true"), End0>>
LifeLines ==
    <<Open("creature", "human"), Says("max_health", 20), L("stat", "str", 3), End0,
      Open("behavior-template", "watch"), Says("react", "guard"), Says("discovered_react", "flee"), End0,
      Open("npc", "guard"), Says("location", "cell"), L("use", "watch", ""),
      Behavior("on_enter", "greet", ""), Behavior("on_enter", "say", "halt"), End0,
      Open("spawn-template", "rat"), Says("creature", "rodent"), Says("location", "hall"),
      L("use", "watch", ""), Behavior("on_enter", "say", "squeak"), End0,
      Open("spawn-template", "bat"), End0,
      Open("spawner", "nest"), Says("location", "hall"), Says("max_active", 2), L("entry", "rat", 0),
      L("entry", "bat", 2), End0,
      Open("loot-template", "coin"), Says("prototype", "box"), Says("count", 0), End0,
      Open("loot-spawner", "hoard"), Says("attach", "guard"), Says("trigger", "kill"),
      L("entry", "coin", Unparsable), End0,
      Open("resource-template", "herb"), Says("prototype", "box"), End0,
      Open("resource-spawner", "bed"), Says("target", "hall"), Says("once", "true"), L("entry", "herb", 3), End0,
      Open("schedule", "bell"), Says("target", "hall"), Says("every", 0), Says("event", "on_ring"), End0>>

Small == (<<UniverseRoot, "universe">> :> UniverseLines) @@ (<<"keep", "world">> :> WorldLines)
         @@ (<<"keep", "map">> :> MapLines) @@ (<<UniverseRoot, "things">> :> ThingLines)
         @@ (<<"keep", "life">> :> LifeLines)

\* One line is another one.
But(file, line, l) == [Small EXCEPT ![file][line] = l]
Variants ==
    {Small,
     But(<<"keep", "life">>, 24, Says("location", "moon")),
     But(<<"keep", "life">>, 47, Says("target", "moon")),
     But(<<"keep", "map">>, 4, Is0("north", "moon")),
     But(<<"keep", "map">>, 11, Is0("south", "cell")),
     But(<<UniverseRoot, "things">>, 15, Says("location", "moon")),
     But(<<UniverseRoot, "things">>, 24, Says("destination", "moon")),
     But(<<"keep", "world">>, 6, L("include", "map", "")),
     But(<<"keep", "world">>, 5, L("import", "tales", "")),
     But(<<"keep", "map">>, 10, End0)}
AnyWorld == {"", "keep", "moon"}

NoNumber == -1000
Admin == <<"player", "admin", 1>>

\* Two players were there before this world; alice's token is a property, the
\* other one has none unless the operator gives one.
Alice == <<"player", "alice", 1>>
Guest == <<"player", "guest", 1>>
Two == (Alice :> Row(Nil, Nil, <<>>, [name |-> "alice", login_token |-> "sesame"]))
       @@ (<<"npc", "ghost", 1>> :> Row(Nil, Nil, <<>>, [npc_behaviors |->
             <<[event |-> "on_enter", react |-> "guard"], [event |-> "on_enter", action |-> "say", text |-> "boo"]>>]))
       @@ (Guest :> Row(Nil, Nil, <<>>, [name |-> "bob"]))

Policy(require, bindings, env, tag, accounts) ==
    [require_auth |-> require, identity_bindings |-> bindings, env_tokens |-> env,
     require_account_tag |-> tag, account_bindings |-> accounts]
Given ==
    {Policy(FALSE, Empty, Empty, FALSE, Empty), Policy(TRUE, Empty, Empty, TRUE, Empty),
     Policy(TRUE, "bob" :> Guest, (Guest :> "mellon") @@ (Admin :> "mellon"), FALSE, "alice" :> "smith"),
     Policy(TRUE, "alice" :> Guest, Guest :> "sesame", FALSE, Empty)}
Bursts == [k \in RateLimitKinds |-> IF k = "command" THEN 2 ELSE 1]
Windows == [k \in RateLimitKinds |-> IF k = "command" THEN 3 ELSE 2]
==============================================================================
