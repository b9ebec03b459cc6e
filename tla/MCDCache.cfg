CONSTANTS
  WatchTag = w
  OtherTags = {a, b, c, d}
  WatchBank = 1
  OtherBank = 2
  Tags <- MCTags
  Idxs <- MCIdxs
  Lanes = {0, 1}
  Bytes = {0, 1}
  ZeroTag = w
  ZeroByte = 0
  Reqs <- MCReqs
  MemInits <- MCMemInits
  RamInits <- MCRamInits
  NoReq = NoReq
  NoMiss = NoMiss
SPECIFICATION FairSpec
INVARIANTS IInv
PROPERTIES ImplementsAtomicMemory MissAnswered

