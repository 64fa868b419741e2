\* Two restaurant workers handle one delivery after a lost connection.
SPECIFICATION Spec

CONSTANTS
  Orders = {o1}
  MaxRetries = 2
  NoMessage = NoMessage
  Workers <- TwoRestaurant
  Role <- TwoRestaurantRole
  Declining = {}
  FaultKinds = {"disconnect"}
  MaxFaults = 1

INVARIANTS
  NeverSilentlyLost
