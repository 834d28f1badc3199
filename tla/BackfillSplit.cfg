SPECIFICATION Spec
CONSTANTS
  a1 = a1
  a2 = a2
  a3 = a3
  a4 = a4
  Runs = {cli}
  MappingCount = 1
  Articles = {a1, a2, a3, a4}
  Submitted <- Dates
  Minute = 1
  Threshold = 2
  MinPartition = 2
  PageSize = 1
  MaxRequests = 6
  Ranges <- OnlyWhole
  WindowDays = 4
  MaxFaults = 0
  Faults = {}
INVARIANT SucceededRangeIsComplete
