SPECIFICATION FairSpec
CONSTANTS
  Main = main
  Threads = {main, t2}
  MaxVersion = 2
  REFRESH_INTERVAL = 2
  TIMEOUT = 1
  MaxRestarts = 1
INVARIANTS
  TypeOK
  FetchedAnswersAreCurrent
PROPERTY Converges
