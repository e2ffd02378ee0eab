SPECIFICATION Spec
CONSTANTS
  core = core
  state = state
  t1 = t1
  t2 = t2
  w1 = w1
  w2 = w2
  AllTags = {core, t1, t2}
  Own <- Labelled
  Workers = {w1, w2}
  MaxFetches = 2
SYMMETRY Symmetry
INVARIANTS
  TypeOK
  Aligned
  TagsAllOrNone
  OwnLabels
