CONSTANTS
  LastPc = 3
  Regs = {1}
  Vals = {0, 1}
  Mtvec = 2
  AddrOr <- MCOr
  NoInst <- MCNop
  Insts <- MulHitInsts
  Situations = {"mul_hit"}
SPECIFICATION Spec
INVARIANT OperandsFresh
