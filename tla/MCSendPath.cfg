SPECIFICATION PathSpec
CONSTANTS
  Players = {p1, p2}
  p1 = p1
  p2 = p2
  Waves <- TheLines
  Deployments <- SomeDeployments
  MaxEpoch <- Epochs
  MaxStarts = 1
  MaxRestarts = 1
  MaxLine = 2
  MaxCuts = 1
  MaxPending = 1
INVARIANTS
  StartsAreAsked
  LinesBecomeWaves
CHECK_DEADLOCK FALSE
PROPERTIES
  SignalsAreHeard
