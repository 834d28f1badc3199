SPECIFICATION FairSpec
CONSTANTS
  Repositories = {1, 2}
  MappingCount = 1
  Day = 1
  DueAfter = 1
  MaxRequests = 2
  FreshFor = 1
  VeryStaleAfter = 2
  MaxClock = 2
  MaxVersions = 2
  MaxFaults = 1
  Faults = {"crash", "slow", "transient", "error", "rate_limit", "budget", "bad_payload"}
INVARIANTS  SnapshotIsCurrent EtagNamesNewest
PROPERTIES HonestVerdict EventuallyObserved
