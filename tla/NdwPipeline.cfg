SPECIFICATION FairSpec
CONSTANTS
  Road <- MCRoad
  Feed <- MCFeed
  TILE = 3
  PAD_M = 3
  SEARCH_RADIUS_M = 2
  MaxVersion = 2
  REFRESH_INTERVAL_S = 1
  STALE_AFTER_S = 2
INVARIANTS
  TypeOK
PROPERTIES
  CompleteMatch
  NeverBackwards
  Recovers
