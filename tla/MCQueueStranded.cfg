SPECIFICATION QueueSpec
CONSTANTS
  p1 = p1
  p2 = p2
  Players = {p1, p2}
  Mirror = MIRROR
  None = None
  MatchIds = {1, 2}
  HqStart = 1
  AutoGo = TRUE
  MaxRound = 0
  MaxSends = 0
  MaxRematches = 2
  Alone = TRUE
  OtherIds = {None, 1}
  Results = {"A"}
  MaxMatches = 2
  MaxFaults = 1
  MaxCrashes = 1
CHECK_DEADLOCK FALSE
INVARIANT FailedIsNotRunning
