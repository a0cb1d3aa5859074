CONSTANTS
  Alice = Alice
  Bob = Bob
  Hero = Hero
  Rogue = Rogue
  Void = Hall
  Hall = Hall
  Nicks = {Alice, Bob}
  Actors = {Hero, Rogue}
  Places = {Hall}
  Home <- Homes
  World = World
  Handles = {h1, h2}
  Tasks = {t1, t2}
  None = None
  Accounts <- Mine
  Verbs = {"login", "say", "quit", "drop", "connect", "release", "forget"}
  InOrder = TRUE
  MaxFailures = 1
SPECIFICATION FairSpec
CHECK_DEADLOCK FALSE
PROPERTIES EveryMessageAnswered
