SPECIFICATION Spec
CONSTANTS
  MaxVersion = 3
  MaxCrashes = 2
  s1 = s1
  s2 = s2
  Systems = {s1, s2}
  Os <- MCOs
  Absent = Absent
  Partial = Partial
INVARIANT TypeOK
INVARIANT ConsistentIsComplete
INVARIANT NothingLost
INVARIANT AvailableIsInstallable
PROPERTY Installs
