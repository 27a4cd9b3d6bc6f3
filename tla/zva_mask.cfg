CONSTANTS
  ByteBits = 2
  Regs = {0, 1, 2, 8, 30}
  VRegs = {0, 1, 2}
  PageBits = 4
  ZvaBytes = 8
  Decode <- MCDecode
  Images <- SystemImages
  Contexts <- MCContexts
SPECIFICATION Spec
PROPERTY OnlyZvaClears
\* The run ends at the fetch of the unmapped word.
CHECK_DEADLOCK FALSE
