CONSTANTS
  hall = hall
  pod = pod
  lair = lair
  brood = brood
  nest = nest
  cache = cache
  herb = herb
  A = A
  B = B
  C = C
  D = D
  E = E
  S = S
  hoard = hoard
  Rooms = {hall}
  Spawners = {lair, cache}
  Hosts = {pod}
  HostRoom <- InHall
  HostEvent <- Opened
  Containers = {pod}
  Def <- Defs
  Protos = {}
  ScriptBase <- ScriptBases
  JobInterval = 2
  Bases = {A, B, C, D, E, S}
  Away = Away
  Absent = Absent
  None = None
  Ops = {"flee", "take", "kill"}
  MaxIndex = 3
  MaxBorn = 6
  MaxTick = 3
  MaxCrashes = 1
SPECIFICATION Spec
CHECK_DEADLOCK FALSE
INVARIANTS TypeOK LimitsKept ChangesMarked
PROPERTIES IdentityKept
