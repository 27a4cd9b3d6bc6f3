SPECIFICATION ApiSpec
CONSTANTS
  PAGE_SIZE = 2
  HostSize = 8
  HostOwned <- MCHostOwned
  DirectBase = 6
  AddrTop = 30
  AllocMax = 4
  Byte = {0}
  MapAddrs <- MCMapAddrs
  Sizes <- MCSizes
  BrkArgs <- MCBrkArgs
  BrkBases <- MCBrkBases
  Protect <- MCProtect
  Accesses <- MCAccesses
  MaxSegments = 2
PROPERTIES IsolationKept
\* A fault kills the emulator: the behaviour ends there.
CHECK_DEADLOCK FALSE
