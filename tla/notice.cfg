\* A failure meets a join whose order.ready is out and not yet marked.
SPECIFICATION Spec

CONSTANTS
  Orders = {o1}
  MaxRetries = 1
  NoMessage = NoMessage
  Workers <- TwoCoordinator
  Role <- TwoCoordinatorRole
  Declining = {}
  FaultKinds = {"crash", "publish"}
  MaxFaults = 2

INVARIANTS
  FailureReachesCustomer
