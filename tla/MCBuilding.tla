------------------------------- MODULE MCBuilding -------------------------------
(***************************************************************************)
(* A yard and a hall in it, between them a locked door that opens once and  *)
(* a window that nobody has a key of, a chest without a lock, and a wizard  *)
(* with the key of the door.                                                *)
(***************************************************************************)
EXTENDS Building

Place(kind, at, exits, returns) ==
    [kind |-> kind, active |-> TRUE, at |-> at, scripts |-> <<>>, exits |-> exits, returns |-> returns]

World ==
    << [kind |-> "player", active |-> TRUE, at |-> 2, scripts |-> <<>>, held |-> {5}],
       Place("area", Nil, "in" :> 3, "in" :> "out"),
       Place("room", 2, "out" :> 2, <<>>),
       [kind |-> "door", active |-> TRUE, at |-> 2, scripts |-> <<>>, dir |-> "in", dest |-> 3,
        open |-> FALSE, locked |-> TRUE, lock |-> 4, spends |-> FALSE],
       [kind |-> "key", active |-> TRUE, at |-> 1, scripts |-> <<>>, lock |-> 4, once |-> TRUE],
       [kind |-> "chest", active |-> TRUE, at |-> 3, scripts |-> <<>>,
        open |-> FALSE, locked |-> FALSE, lock |-> Nil, spends |-> FALSE],
       [kind |-> "window", active |-> TRUE, at |-> 2, scripts |-> <<>>, dir |-> "in", dest |-> Nil,
        open |-> FALSE, locked |-> TRUE, lock |-> 9, spends |-> FALSE] >>

Spoken == 2 :> ("inside" :> "in")
Maze == 8 :> 2
Scattered == 3 :> [dir |-> "out", to |-> <<2, 3>>]
================================================================================
