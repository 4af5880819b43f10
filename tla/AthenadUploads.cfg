SPECIFICATION FairSpec
CONSTANTS
  NoItem = NoItem
  Handlers = {h1, h2}
  Callers = {c1, c2}
  Urls = {u}
  MAX_RETRY_COUNT = 2
  MaxRequests = 1
  MaxRestarts = 1
INVARIANTS
  UploadsTypeOK
  Accounted
PROPERTIES
  CancelHolds
  Settles
CHECK_DEADLOCK FALSE
