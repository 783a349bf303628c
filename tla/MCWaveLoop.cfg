SPECIFICATION LoopSpec
CONSTANTS
  Worlds = {"A"}
  MaxWave = 2
  Levels <- LevelRange
  MaxCmd = 8
  None = None
  Deployments <- SomeDeployments
  MaxRounds = 2
  MaxLevel = 2
CHECK_DEADLOCK FALSE
INVARIANTS
  CommandsRunOnce
PROPERTIES RefereeKeepsBooks WavesGoOn
