SPECIFICATION Spec
CONSTANTS
  PAGE_SIZE = 2
  HostSize = 12
  HostOwned <- MCHostOwned
  DirectBase = 6
  AddrTop = 30
  AllocMax = 3
  Byte = {0, 1}
  MapAddrs <- MCMapAddrs
  Sizes <- MCSizes
  BrkArgs <- MCBrkArgs
  BrkBases <- MCBrkBases
  Protect <- MCProtect
  Accesses <- MCAccesses
  MaxSegments = 2
INVARIANTS TypeOK HeapBacked SegmentsIsolated
PROPERTIES TranslationStable ReadAfterWrite FailedCallsHarmless
\* A fault kills the emulator: the behaviour ends there.
CHECK_DEADLOCK FALSE
