\* The last attempt of the restaurant commits and its handler still fails.
SPECIFICATION Spec

CONSTANTS
  Orders = {o1}
  MaxRetries = 2
  NoMessage = NoMessage
  Workers <- OnePerRole
  Role <- SingleRole
  Declining = {"restaurant"}
  FaultKinds = {"db"}
  MaxFaults = 1

INVARIANTS
  ExhaustedOrdersFail
