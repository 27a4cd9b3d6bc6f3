SPECIFICATION SysSpec
CONSTANTS
  PAGE_SIZE = 4
  HostSize = 24
  HostOwned <- MCHostOwned
  DirectBase = 16
  AddrTop = 65532
  AllocMax = 64
  ByteBits = 2
  Byte = {0, 1, 2, 3}
  MapAddrs <- None
  Sizes <- None
  BrkArgs <- None
  BrkBases <- None
  Protect <- None
  Accesses <- None
  MaxSegments = 4
  TargetOses = {"Linux", "Darwin"}
  Calls <- MCCalls
  Stores <- MCStores
  ImageAddr = 4
  ImageSize = 4
  StackAddr = 16
  StackSize = 4
  MmapDefault = 12
  StatfsBytes <- MCStatfs
  HostRets <- MCHostRets
  HostData <- MCHostData
  Pid = 8
  NotUtf8 = {3}
INVARIANTS SysTypeOK
PROPERTIES MappingHonest BreakHonest OutputDelivered EndsJustified CallsConfined
\* The run ends: at an exit, an error or a fault.
CHECK_DEADLOCK FALSE
