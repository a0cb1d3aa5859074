----------------------------- MODULE MCGateway -----------------------------
(***************************************************************************)
(* Gateway with every nick's credentials opening every actor, or its own.  *)
(***************************************************************************)
EXTENDS Gateway, TLC

CONSTANTS Alice, Bob, Hero, Rogue, Void, Hall

\* Alice and Bob share the hero; Bob has an actor of his own too.
Shared == (Alice :> {Hero}) @@ (Bob :> {Hero, Rogue})
Mine == (Alice :> {Hero}) @@ (Bob :> {Rogue})

\* The hero has a home, the rogue has none.
Homes == (Hero :> Void) @@ (Rogue :> None)

Symmetry == Permutations(Handles) \cup Permutations(Tasks)
====
