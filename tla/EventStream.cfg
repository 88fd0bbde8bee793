SPECIFICATION FairSpec
CONSTANTS
  c1 = c1
  c2 = c2
  Layers <- MCThreeLayers
  Client <- MCOneTab
  MaxVisits = 2
  MaxDrops = 1
INVARIANTS
  ShownIsPrefix
  NothingLost
PROPERTIES
  ViewSettles
\* the run and its views end
CHECK_DEADLOCK FALSE
