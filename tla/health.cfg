\* A broker that goes away for good.
SPECIFICATION FairSpec

CONSTANTS
  Threads = {t1}
  Nobody = Nobody
  MaxFaults = 1

PROPERTIES
  HealthTellsReadiness
