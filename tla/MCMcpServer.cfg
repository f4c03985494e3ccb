SPECIFICATION MCSpec
CONSTANTS
  Stores = {"memory", "secret"}
  Processes = {p1, p2}
  Calls = {c1, c2, c3}
  Events = {c1, c2, c3}
  MaxKills = 1
  MaxFaults = 1
  MaxVaultCalls = 3
  Providers = {"memory", "env", "hashicorp"}
  SecretTtl = 1
  FlightTime = 1
  MaxVaultTime = 2
  MaxVersions = 3
SYMMETRY MCSymmetry
CHECK_DEADLOCK FALSE
INVARIANTS
  LogIsDurable
  NeverUnprepared
  ReadNoStalerThanTtl
  OwnWritesVisible
