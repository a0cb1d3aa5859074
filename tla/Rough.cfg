CONSTANTS
  Coins = Coins
  Gold = Gold
  CoinsSplit = CoinsSplit
  GoldSplit = GoldSplit
  RightHand = RightHand
  LeftHand = LeftHand
  Players = {p1}
  Bags = {b1, b2}
  Stacks = {Coins, Gold, CoinsSplit, GoldSplit}
  Splits <- SplitIds
  Hands <- OneHand
  Back = Back
  Room = Room
  Gone = Gone
  None = None
  Amounts <- OneStack
  Words <- SomeWords
  Called <- CalledSo
  Singular <- OneOf
  Plural <- ManyOf
  MaxStack = 2
  Weight <- Heaviness
  MaxWeight <- NoLimits
  Bonus <- OneMore
  Capacity = 1
  Ops = {"take", "drop", "drop_bag", "put", "nest", "remove", "wield", "wear", "open", "close"}
SPECIFICATION Spec
CHECK_DEADLOCK FALSE
SYMMETRY Symmetry
INVARIANTS CapacityBound
