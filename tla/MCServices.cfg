SPECIFICATION ServicesSpec
CONSTANTS
  t1 = t1
  t2 = t2
  Services = {"capsule", "provisioner", "warm", "control", "vs", "match loop"}
  CapThreads = {t1, t2}
  MaxOpens = 2
  MaxAsked = 3
  MaxId = 1
  PoolSize = 1
  MaxFaults = 1
  MaxCrashes = 1
  PvCallers = {t1, t2}
  PvSidecars <- TwoSides
  PvScenes <- Scenes
  PvVolumeList <- OneVolume
  PvMounts <- Mounts
  NoWorld = NoWorld
  WmClients = {t1, t2}
  WmAsks = 4
  WmFaults = 1
  WmCrashes = 1
  ScThreads = {t1, t2}
  ScBodies <- Bodies
  ScBounds <- ConfigBounds
  VsPlayers = {"a", "b", "c"}
  Required = 2
  VsFaults = 2
  VsRounds = 2
  MlMaxHp = 2
  MlRounds = 3
  MlFaults = 2
CHECK_DEADLOCK FALSE
INVARIANTS
  AnswersAreTrue
  CapsuleHoldsServer
  WarmIsHandedOver
  ConfigTakesEffect
  GateOpensForTwo
  LoopTellsTheGame
PROPERTIES
  RollbackSparesOthers
  RequestsEnd
  RecyclingEnds
  DeathIsAnswered
