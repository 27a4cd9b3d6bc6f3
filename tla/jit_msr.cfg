CONSTANTS
  ByteBits = 2
  Regs = {0, 1, 2, 8, 30}
  VRegs = {0, 1}
  PageBits = 4
  ZvaBytes = 8
  MaxInsts = 3
  Decode <- MCDecode
  Images <- OpImages
  Contexts <- OpContexts
SPECIFICATION JitFairSpec
PROPERTY ThreadPointerKept
\* The run ends at the fetch of the unmapped word.
CHECK_DEADLOCK FALSE
