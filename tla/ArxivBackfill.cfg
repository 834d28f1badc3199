SPECIFICATION FairSpec
CONSTANTS
  a1 = a1
  a2 = a2
  a3 = a3
  a4 = a4
  Runs = {cli}
  MappingCount = 2
  Articles = {a1, a2, a3, a4}
  Submitted <- Dates
  Minute = 1
  Threshold = 2
  MinPartition = 2
  PageSize = 1
  MaxRequests = 3
  Ranges <- Apart
  WindowDays = 4
  MaxFaults = 1
  Faults = {"crash", "limit", "transient", "error", "garbled", "forbidden", "empty_page", "disable"}
INVARIANTS WindowsHaveNoGap ResumesWithoutLoss ClaimsAreHonest HonestBackfill
PROPERTY EventuallyBackfilled
