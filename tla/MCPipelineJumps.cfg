CONSTANTS
  LastPc = 4
  Regs = {1}
  Vals = {0, 1}
  Mtvec = 2
  AddrOr <- MCOr
  NoInst <- MCNop
  Insts <- JumpInsts
  Situations = {}
SPECIFICATION Spec
INVARIANTS ControlFlow OperandsFresh DeliversWanted
