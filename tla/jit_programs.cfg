CONSTANTS
  ByteBits = 2
  Regs = {0, 1, 2, 8, 30}
  VRegs = {0, 1}
  PageBits = 4
  ZvaBytes = 8
  MaxInsts = 3
  Decode <- MCDecode
  Images <- ProgramImages
  Contexts <- ProgramContexts
SPECIFICATION JitFairSpec
INVARIANTS JitTypeOK HostCodeCurrent
PROPERTIES ImplementsInterpreter Terminates
\* The program exits.
CHECK_DEADLOCK FALSE
