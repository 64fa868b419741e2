\* One process per role, one fault of any kind, two roles that may decline, no second attempt.
SPECIFICATION Spec

CONSTANTS
  Orders = {o1}
  MaxRetries = 1
  NoMessage = NoMessage
  Workers <- OnePerRole
  Role <- SingleRole
  Declining = {"payment", "restaurant"}
  FaultKinds = {"apicrash", "crash", "disconnect", "publish", "db"}
  MaxFaults = 1

INVARIANTS
  TypeOK
  CompensatedIffFailed
  SuccessIsGated
  StatusAgrees
  MessagesTruthful
  NeverSilentlyLost
  FailureReachesCustomer
  RejectedOrdersFail
  CompletedOrdersAlike

PROPERTIES
  StatusOnlyAdvances
  NothingSucceedsAfterFailure
  ImplementsSaga
