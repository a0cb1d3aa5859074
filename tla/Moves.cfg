CONSTANTS
  Coins = Coins
  Gold = Gold
  CoinsSplit = CoinsSplit
  GoldSplit = GoldSplit
  RightHand = RightHand
  LeftHand = LeftHand
  Players = {p1, p2}
  Bags = {b1}
  Stacks = {Coins, Gold, CoinsSplit, GoldSplit}
  Splits <- SplitIds
  Hands <- TwoHands
  Back = Back
  Room = Room
  Gone = Gone
  None = None
  Amounts <- OneAndTwo
  Words <- SomeWords
  Called <- CalledSo
  Singular <- OneOf
  Plural <- ManyOf
  MaxStack = 2
  Weight <- Heaviness
  MaxWeight <- Limits
  Bonus <- OneMore
  Capacity = 2
  Ops = {"take", "drop", "put", "wear"}
SPECIFICATION Spec
CHECK_DEADLOCK FALSE
SYMMETRY Symmetry
INVARIANTS NamesReach RecordsAgree UnitsConserved
PROPERTIES MarksCoverChanges OneHolderChanges CarryLimits
