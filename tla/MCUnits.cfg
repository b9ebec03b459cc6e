CONSTANTS
  W = 4
  Words <- AllWords
  WForms = {TRUE, FALSE}
  MulBits = 6
  MaxStores = 2
  ClintBits = 3
  SatDepth = 3
  RasBits = 2
  Targets = {t1, t2}
SPECIFICATION UnitsSpec
INVARIANTS
  DivisionRight DivInv SignedWordRight
  ProductRight LastStoreLoaded TimerOnTime TwoOutcomesDecide TopIsLastCall
