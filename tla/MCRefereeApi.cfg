SPECIFICATION ApiSpec
CONSTANTS
  p1 = p1
  p2 = p2
  c1 = c1
  c2 = c2
  ApiBounds <- Handlers
  Players = {p1, p2}
  Mirror = "MIRROR"
  None = None
  MatchIds = {}
  HqStart = 1
  AutoGo = TRUE
  MaxRound = 2
  MaxSends = 4
  MaxRematches = 1
  Calls = {c1, c2}
  OneReport = TRUE
  Losses = TRUE
  Fanouts = {c1, c2}
  OneOperator = TRUE
  GoLosses = FALSE
  MaxMatches = 2
  MaxFinished = 2
  MaxRestarts = 1
CHECK_DEADLOCK FALSE
INVARIANTS
  PushesAreRight
  RecordsTellMatches
PROPERTY
  FanoutReachesBoth
