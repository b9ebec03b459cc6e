SPECIFICATION Spec
CONSTANTS
  Envs <- MCEnvs
  MaxTicks = 6
INVARIANTS
  ExclusiveSums
  SameWindow
  NoUpdateLost
  TraceMatchesCounts
  EpisodesCoverStalls
  OwnOutcome
  Verdicts
CHECK_DEADLOCK FALSE
