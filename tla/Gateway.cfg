CONSTANTS
  Alice = Alice
  Bob = Bob
  Hero = Hero
  Rogue = Rogue
  Void = Void
  Hall = Hall
  Nicks = {Alice, Bob}
  Actors = {Hero, Rogue}
  Places = {Void, Hall}
  Home <- Homes
  World = World
  Handles = {h1, h2}
  Tasks = {t1, t2}
  None = None
  Accounts <- Shared
  Verbs = {"login", "go", "warp", "attack", "quit", "drop"}
  InOrder = TRUE
  MaxFailures = 1
SPECIFICATION Spec
CHECK_DEADLOCK FALSE
SYMMETRY Symmetry
INVARIANTS TypeOK SavedAtRest RegistryAgrees
PROPERTIES CommandsNeedLogin
