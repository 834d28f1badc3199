SPECIFICATION Spec
CONSTANTS
  Keys = {k1, k2, k3}
  Temporaries = {t1, t2, t3, t4}
  Writers = {w1, w2}
  MaxFaults = 1
  Faults = {"crash", "io_error"}
  MaxBackups = 1
  NoDirectory = NoDirectory
INVARIANTS PublishedWhole RowsHaveRaw PublishedCovers
PROPERTY PublishedForever
SYMMETRY Symmetry
