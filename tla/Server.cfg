CONSTANTS
  Events = {1, 2, 3}
  Causes <- AccountLife
  Workers = {w1}
  Null = Null
  MaxCount = 0
  Deployments <- AllDeployments
  Created = 1
  Deleted = 3
  Emails = {e1, e2}
  Usernames = {n1}
SPECIFICATION ServerFairSpec
INVARIANTS NoTrafficOnceShutDown GoneIsFinal
PROPERTIES QueuedEventsLeave StopsInTime OneReplicaKeepsOrder
CHECK_DEADLOCK FALSE
