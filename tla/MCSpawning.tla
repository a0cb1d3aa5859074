----------------------------- MODULE MCSpawning -----------------------------
(***************************************************************************)
(* Spawning in one room with one thing in it.                              *)
(***************************************************************************)
EXTENDS Spawning, TLC

CONSTANTS hall, pod, lair, cache, brood, nest, herb, A, B, C, D, E, S, hoard

At(kind, trigger, target, base, max, interval, once) ==
    [kind |-> kind, trigger |-> trigger, target |-> target, base |-> base,
     max |-> max, interval |-> interval, once |-> once]

Declared ==
       (lair :> At("creature", "on_enter", hall, A, 2, 1, FALSE))
    @@ (brood :> At("creature", "on_enter", pod, B, 1, 1, FALSE))
    @@ (nest :> At("creature", "timer", hall, C, 2, 2, FALSE))
    @@ (cache :> At("loot", "on_open", pod, D, 2, 1, TRUE))
    @@ (herb :> At("resource", "timer", hall, E, 1, 2, FALSE))

Defs == [s \in Spawners |-> Declared[s]]
InHall == pod :> hall
Opened == pod :> "on_open"
Broken == pod :> "on_break"
Found == pod :> "on_discovered"
ScriptBases == [p \in Protos |-> S]
====
