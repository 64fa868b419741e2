\* Three submissions or refreshes of two orders.
SPECIFICATION FairSpec

CONSTANTS
  Orders = {o1, o2}
  NoOrder = NoOrder
  MaxToken = 4

INVARIANTS
  TimelineCoversStatus
  RefreshOnlyWhenPaused

PROPERTIES
  ShownOnlyAdvances
  LaneCatchesUp
