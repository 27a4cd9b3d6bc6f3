CONSTANTS
  ByteBits = 2
  Regs = {0, 1, 2, 8, 19, 30}
  VRegs = {0, 1, 2}
  PageBits = 4
  ZvaBytes = 8
  MaxSteps = 7
  Thunks <- ThunkAddresses
  ThunkCall <- MCThunkCall
  Decode <- MCDecode
  Images <- MCImages
  Contexts <- MCContexts
SPECIFICATION DriverFairSpec
INVARIANT ProgramsCorrect
PROPERTY Terminates
\* The program exits.
CHECK_DEADLOCK FALSE
