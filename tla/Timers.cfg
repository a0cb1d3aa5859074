CONSTANTS
  hall = hall
  pod = pod
  lair = lair
  brood = brood
  nest = nest
  cache = cache
  herb = herb
  A = A
  B = B
  C = C
  D = D
  E = E
  S = S
  hoard = hoard
  Rooms = {hall}
  Spawners = {herb, brood}
  Hosts = {pod}
  HostRoom <- InHall
  HostEvent <- Broken
  Containers = {}
  Def <- Defs
  Protos = {hoard}
  ScriptBase <- ScriptBases
  JobInterval = 2
  Bases = {A, B, C, D, E, S}
  Away = Away
  Absent = Absent
  None = None
  Ops = {"stop", "script_item", "script_npc", "break", "take", "drop", "use"}
  MaxIndex = 2
  MaxBorn = 3
  MaxTick = 4
  MaxCrashes = 1
SPECIFICATION Spec
CHECK_DEADLOCK FALSE
INVARIANTS TimersKeepTime DestroyedForGood
