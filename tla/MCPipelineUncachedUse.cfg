CONSTANTS
  LastPc = 3
  Regs = {1}
  Vals = {0, 1}
  Mtvec = 2
  AddrOr <- MCOr
  NoInst <- MCNop
  Insts <- UncachedUseInsts
  Situations = {"uncached_use"}
SPECIFICATION Spec
INVARIANT ControlFlow
