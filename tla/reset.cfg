\* A reset at any moment, with one process per role and two roles that may decline.
SPECIFICATION FairResetSpec

CONSTANTS
  Orders = {o1}
  MaxRetries = 2
  NoMessage = NoMessage
  Workers <- OnePerRole
  Role <- SingleRole
  Declining = {"payment", "restaurant"}
  FaultKinds = {}
  MaxFaults = 0

INVARIANTS
  ResetStrandsNobody

PROPERTIES
  WipedOrdersStayGone
  ResidueDrains
