SPECIFICATION Spec
CONSTANTS
  daily = daily
  weekly = weekly
  NoHost = NoHost
  Hosts = {h1, h2}
  Jobs = {daily, weekly}
  Source <- RunSource
  Period <- RunPeriod
  Offset <- RunOffset
  Contract = {daily}
  MaxClock = 2
  MaxFaults = 1
  Faults = {"crash"}
  Threshold = 0
  Qualifying = 2
  Continuing = 2
INVARIANTS SourceExclusion StartupSettled RunningIsExecuted
PROPERTIES ImplementsLifeCycle PassedIsFinal FailureIsOutlived
