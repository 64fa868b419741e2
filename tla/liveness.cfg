\* Every accepted order ends, whatever single crash or lost connection it meets.
SPECIFICATION FairSpec

CONSTANTS
  Orders = {o1}
  MaxRetries = 2
  NoMessage = NoMessage
  Workers <- OnePerRole
  Role <- SingleRole
  Declining = {"payment"}
  FaultKinds = {"crash", "disconnect"}
  MaxFaults = 1

PROPERTIES
  AcceptedOrdersEnd
  CustomersHearTheEnd
