SPECIFICATION Spec
CONSTANTS
  r1 = r1
  r2 = r2
  Records = {r1, r2}
  Backups = {b1, b2}
  Manifests <- MCManifests
  Operators = {p1, p2}
  Active = active
  Targets = {active, target}
  Drills = {d1}
  MaxFaults = 1
SYMMETRY Symmetry
INVARIANTS PassIsProof NeverMixed DrillsCleanUp
 
