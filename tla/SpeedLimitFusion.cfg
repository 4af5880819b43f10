SPECIFICATION Spec
CONSTANTS
  Limits = {80, 100}
  RSA_HOLD_S = 1
  Faults = TRUE
  Payloads <- MCPayloads
INVARIANTS
  TypeOK
  
