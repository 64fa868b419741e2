\* Two request threads and two broker or database faults.
SPECIFICATION FairSpec

CONSTANTS
  Threads = {t1, t2}
  Nobody = Nobody
  MaxFaults = 2

INVARIANTS
  ChannelKeptForSender
  PoolOpensInTheEnd

PROPERTIES
  CalmCallsSucceed
  LockIsReleased
  ImplementsPublishCall
