\* Two payment workers and two coordinators, one fault of any kind.
SPECIFICATION Spec

CONSTANTS
  Orders = {o1}
  MaxRetries = 2
  NoMessage = NoMessage
  Workers <- Scaled
  Role <- ScaledRole
  Declining = {"payment"}
  FaultKinds = {"apicrash", "crash", "disconnect", "publish", "db"}
  MaxFaults = 1

INVARIANTS
  CompensatedIffFailed
  MessagesTruthful
  NeverSilentlyLost
  FailureReachesCustomer

PROPERTIES
  StatusOnlyAdvances
  ImplementsSaga
