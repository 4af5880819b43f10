SPECIFICATION Spec
CONSTANTS
  MaxRoutes = 2
  MaxFailures = 1
  PRESERVE_COUNT = 1
  Prompt = TRUE
  None = None
INVARIANT TypeOK
 
 
CHECK_DEADLOCK FALSE
