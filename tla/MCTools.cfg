SPECIFICATION ToolsSpec
CONSTANTS
  Tools = {"router", "updater", "collector", "cycle", "scheduler", "recorder", "announcer"}
  Clients <- Addresses
  RtBackends = {"b0", "b1", "b2"}
  HomeOf <- Homes
  Unnamed = "none"
  FirstTarget = "b0"
  HoldMax = 2
  WatchMax = 2
  RtScenes <- Scenes
  MuFiles = {"manifest", "lua"}
  MuRuns = 2
  MuFaults = 2
  Code <- Functions6
  Selected = {"game", "second"}
  SyDumps <- Dumps
  MaxFrames = 4
  ScanCap = 2
  SyDepth = 8
  NwWarmup = 1
  NwMaxLevel = 3
  NwSettings <- Settings
  NwPersona <- Persona2
  NwEventLevels = {2, 3}
  NwEnd = 6
  NwChanges = 1
  NwBuys = 1
  NwRounds = 1
  WsSends = {11, 12}
  StartLevel = 1
  MaxLevel = 4
  WsDelay = 1
  WsInterval <- Intervals
  TimeToNext <- ToNext
  WsEnd = 7
  RcBounds <- RecorderBounds
  AnThresholds <- Thresholds
  AnLength <- Lengths
  AnRounds = 2
  AnAttacks = 1
  AnFaults = 1
CHECK_DEADLOCK FALSE
INVARIANTS
  DatagramsLeadHome
  ModIsKept
  CrashIsTold
  TimersTell
  ScheduleTells
  RecorderKeepsLines
  ChatTellsOnce
PROPERTIES
  FlowsStay
  WaitingEnds
