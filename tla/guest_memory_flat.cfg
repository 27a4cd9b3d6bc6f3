SPECIFICATION DisciplinedSpec
CONSTANTS
  PAGE_SIZE = 2
  HostSize = 12
  HostOwned <- MCHostOwned
  DirectBase = 6
  AddrTop = 30
  AllocMax = 4
  Byte = {0, 1}
  MapAddrs <- MCMapAddrs
  Sizes <- MCSizes
  BrkArgs <- MCBrkArgs
  BrkBases <- MCBrkBases
  Protect <- MCProtect
  Accesses <- MCAccesses
  MaxSegments = 3
  MaxAddr = 12
PROPERTIES ImplementsFlatMemory
\* A fault kills the emulator: the behaviour ends there.
CHECK_DEADLOCK FALSE
