SPECIFICATION DriveSpec
CONSTANTS
  MaxDrives = 3
  MaxRequests = 2
  MaxRestarts = 1
  Prompt = TRUE
INVARIANT DriveTypeOK
 
 
 
