SPECIFICATION Spec
CONSTANTS
  net = net
  os = os
  tcpu = tcpu
  a = a
  b = b
  lost = lost
  s1 = s1
  s2 = s2
  Nobody = Nobody
  Scrapes = {s1, s2}
  Collectors = {net, os}
  Kind <- PlainKind
  Customs = {{}}
  Labelled = {}
  Rows = {a, b, lost}
  Skipped = {lost}
  Label <- Together
  ChanCap = 1
  MayTag = FALSE
SYMMETRY Symmetry
INVARIANTS
  TypeOK
  WaitGroupExact
  NoSendAfterClose
  ResponseComplete
  OwnRunsReported
  FailsOnlyOnCollision
  RunsCounted
