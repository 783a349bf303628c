SPECIFICATION Spec
CONSTANTS
  MaxId = 2
  PoolSize = 1
  MaxFaults = 2
  MaxCrashes = 1
INVARIANT ServersAreHandedOnce
PROPERTIES GamesKeepServers OrphansGo PoolRefills
