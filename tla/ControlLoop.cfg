SPECIFICATION Spec
CONSTANTS
  Alive = 2
  SendLimit = 2
  Period = 2
  MismatchLimit = 2
  HeartbeatLimit = 4
  DisengagedLimit = 2
  MaxStops = 2
INVARIANT TypeOK
 
 
