SPECIFICATION FairSpec
CONSTANTS
  a1 = a1
  a2 = a2
  a3 = a3
  Runs = {worker}
  MappingCount = 2
  Articles = {a1, a2, a3}
  Submitted <- Dates
  Visible <- Delayed
  Overlap = 2
  Minute = 1
  Threshold = 2
  MinPartition = 1
  PageSize = 1
  MaxRequests = 3
  MaxClock = 3
  MaxFaults = 2
  Faults = {"crash", "slow", "transient", "error", "forbidden", "empty_page"}
INVARIANTS TypeOK NoGap PartitionCovers
PROPERTIES ChildrenStayDone UnfinishedIsResumed HonestVerdict EventuallyCollected
