SPECIFICATION Spec
CONSTANTS
  SoftDisableFrames = 2
  MismatchLimit = 3
  CruiseMismatchLimit = 1
  InitFrames = 1
  CarEvents = {}
  DeviceEvents = {"processNotRunning"}
INVARIANTS
  TypeOK
  BrakeDisengages
  SoftDisableDeadline
  FailedChecksDisable
