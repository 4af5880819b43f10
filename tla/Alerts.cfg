SPECIFICATION AlertsSpec
CONSTANTS
  SoftDisableFrames = 2
  TakeoverDuration = 4
  TakeoverFrames = 2
  PermanentDelay = 1
  Events <- MCEvents
  Duration <- MCDuration
INVARIANTS
  AlertsTypeOK
  
  DisengagementIsAnnounced
  
