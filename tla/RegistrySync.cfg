SPECIFICATION Spec
CONSTANTS
  Texts <- Spellings
  Fold <- Lower
  Syncs = {cli, cli2}
  Contents <- Edits
  SlugOrder <- Order
  MaxVersions = 3
  MaxFaults = 1
  Faults = {"crash", "error"}
INVARIANTS HistoryReplays LatestVersionHolds DeprecationIsRemembered ResyncIsNoop AliasMeansOneTopic
SYMMETRY Symmetry
