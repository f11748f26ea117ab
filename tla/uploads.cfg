SPECIFICATION TrackSpec
CONSTANTS
  Jobs = {1, 2}
  BusQueue = 1
  MaxTries = 2
  Retries = 1
  Ingested = {2}
  NoJob = 0
INVARIANTS
  ShownIsCommitted
PROPERTIES
  FollowedJobsSettle
  DrainReachesAll
CHECK_DEADLOCK FALSE
