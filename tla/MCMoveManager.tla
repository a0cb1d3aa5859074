--------------------------- MODULE MCMoveManager ---------------------------
(***************************************************************************)
(* MoveManager with two stacks, of which each can be split once.           *)
(***************************************************************************)
EXTENDS Names, TLC

CONSTANTS Coins, Gold, CoinsSplit, GoldSplit, RightHand, LeftHand

TwoHands == <<RightHand, LeftHand>>
OneHand == <<RightHand>>
SplitIds == (Coins :> {CoinsSplit}) @@ (Gold :> {GoldSplit}) @@ (CoinsSplit :> {}) @@ (GoldSplit :> {})
TwoEach == (Coins :> 2) @@ (Gold :> 2)
OneAndTwo == (Coins :> 1) @@ (Gold :> 2)
OneStack == Coins :> 2

\* A bag weighs as much as two units, and lets one carry one more.  Three are
\* as many as anybody can carry, and one too many for a bag.
Heaviness == [x \in Things |-> IF x \in Bags THEN 2 ELSE 1]
OneMore == [b \in Bags |-> 1]
Limits == [h \in Players \cup Bags |-> IF h \in Bags THEN 2 ELSE 3]
NoLimits == [h \in Players \cup Bags |-> -1]

\* "o" is in every name; a word in the plural is looked up in the singular too.
SomeWords == {"coin", "coins", "gold", "o", "bag"}
CalledSo == [x \in Things |->
    CASE x \in {Coins, CoinsSplit} -> {"coin", "o"}
      [] x \in {Gold, GoldSplit} -> {"gold", "o"}
      [] OTHER -> {"bag"}]
OneOf == [w \in SomeWords |-> IF w = "coins" THEN "coin" ELSE w]
ManyOf == [w \in SomeWords |-> IF w = "coin" THEN "coins" ELSE w]

Symmetry == Permutations(Players) \cup Permutations(Bags)
====
