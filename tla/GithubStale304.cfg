SPECIFICATION Spec
CONSTANTS
  Repositories = {1}
  MappingCount = 1
  Day = 6
  DueAfter = 5
  MaxRequests = 2
  MaxClock = 6
  MaxVersions = 2
  MaxFaults = 0
  Faults = {}
INVARIANT SnapshotIsCurrent
