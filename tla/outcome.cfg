\* Both tries of the API to publish order.created get no confirm.
SPECIFICATION Spec

CONSTANTS
  Orders = {o1}
  MaxRetries = 2
  NoMessage = NoMessage
  Workers <- OnePerRole
  Role <- SingleRole
  Declining = {}
  FaultKinds = {"publish"}
  MaxFaults = 2

PROPERTIES
  OutcomeStands
