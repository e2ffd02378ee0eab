SPECIFICATION FairSpec
CONSTANTS
  net = net
  os = os
  tcpu = tcpu
  a = a
  b = b
  lost = lost
  s1 = s1
  s2 = s2
  Nobody = Nobody
  Scrapes = {s1, s2}
  Collectors = {tcpu}
  Kind <- JustTemplate
  Customs = {{}, {tcpu}}
  Labelled = {tcpu}
  Rows = {a, b}
  Skipped = {}
  Label <- Apart
  ChanCap = 1
  MayTag = TRUE
PROPERTY ScrapeEnds
INVARIANT OwnRunsReported
