CONSTANTS
  Prog <- MCProg
  mtvec = 10
  TValues = 3
  MaxIntr = 2
  NR_WP = 4
  NULL = NULL
  WordBits = 8
  cpu_gpr <- Gpr
  Memory <- Mem
  Steps = {1, 2}
  Watched <- MCWatched
  MaxPrints = 3
  Asked <- MCAsked
SPECIFICATION FairSpec
INVARIANTS NoFalseAlarm GoodMeansRight WatchpointsKept ValuePrinted
PROPERTIES BatchEnds
CHECK_DEADLOCK FALSE
