SPECIFICATION Spec
CONSTANTS
  a1 = a1
  a2 = a2
  a3 = a3
  Runs = {worker, cli}
  MappingCount = 1
  Articles = {a1, a2, a3}
  Submitted <- Dates
  Visible <- Delayed
  Overlap = 2
  Minute = 1
  Threshold = 3
  MinPartition = 1
  PageSize = 1
  MaxRequests = 4
  MaxClock = 3
  MaxFaults = 0
  Faults = {}
INVARIANT NoGap
