CONSTANTS
  ByteBits = 2
  Regs = {0, 1, 2, 8, 30}
  VRegs = {0, 1, 2}
  PageBits = 4
  ZvaBytes = 8
  Decode <- MCDecode
  Images <- MCImages
  Contexts <- MCContexts
SPECIFICATION Spec
INVARIANT TypeOK
PROPERTIES ComparisonsDecide BitsPlaced DivisionExact ProductsExact
           FaultsPrecise StoresConfined LoadsExtend BranchesLand LanesExact VectorsLoaded
\* The run ends at the fetch of the unmapped word.
CHECK_DEADLOCK FALSE
