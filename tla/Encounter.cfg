CONSTANTS
  ann = ann
  bob = bob
  goblin = goblin
  rat = rat
  sword = sword
  ring = ring
  hall = hall
  cave = cave
  Players = {ann}
  Npcs = {goblin, rat}
  Items = {sword, ring}
  Rooms = {hall, cave}
  Name <- Names
  Effects <- EffectDefs
  Gear <- GearDefs
  Templates <- TemplateDefs
  UseBehaviors <- Used
  Scripted <- Inline
  Handlers <- Scripts
  Exits <- Around
  Flights <- Drawn
  Chances <- NoChances
  CombatSeed <- Seed
  Nobody = Nobody
  Start <- Begin
  Dice = {4, 20}
  Stealth <- Hiding
  Amounts = {3}
  Tidy = TRUE
  MaxCorpses = 1
  MaxXp = 2
SPECIFICATION Spec
CHECK_DEADLOCK FALSE
VIEW Graph
INVARIANTS GearAgrees EffectsInStep
PROPERTIES ChangesMarked DeathsSettle
