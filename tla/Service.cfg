CONSTANTS
  Unparsable <- NoNumber
  UniverseRoot = "root"
  Remote = "remote"
  LinesMost = 60
  Owner <- Admin
  Residents <- Two
  MaxStops = 2
  Nicks = {"alice", "bob"}
  Secrets = {"sesame", "mellon"}
  Accounts = {"smith"}
  Policies <- Given
  Burst <- Bursts
  Window <- Windows
  MaxClock = 3
  MaxLines = 3
  Nobody = Nobody
  Modules <- Variants
  WorldNames <- AnyWorld
SPECIFICATION Spec
CHECK_DEADLOCK FALSE
INVARIANTS TypeOK ParsedAsWritten NothingDangles WorldAsWritten Admission
