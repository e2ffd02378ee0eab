SPECIFICATION Spec
CONSTANTS
  c1 = c1
  c2 = c2
  w1 = w1
  w2 = w2
  All = All
  Cores = {c1, c2}
  Workers = {w1, w2}
  Configs <- EveryConfig
  Reading <- Readings
  MaxRuns = 2
SYMMETRY Symmetry
INVARIANTS
  TypeOK
  OwnRowsSummed
  OnlyQueryFails
  ComputedAsNamed
