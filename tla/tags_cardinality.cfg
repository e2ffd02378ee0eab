SPECIFICATION Spec
CONSTANTS
  core = core
  state = state
  t1 = t1
  w1 = w1
  w2 = w2
  AllTags = {t1}
  Own <- Labelled
  Workers = {w1, w2}
  MaxFetches = 2
INVARIANT TagsCanBeAdded
