SPECIFICATION LoaderSpec
CONSTANTS
  PAGE_SIZE = 16
  HostSize = 512
  HostOwned <- MCHostOwned
  DirectBase = 256
  AddrTop = 65520
  AllocMax = 64
  ByteBits = 8
  Byte <- MCByte
  MapAddrs <- None
  Sizes <- None
  BrkArgs <- None
  BrkBases <- None
  Protect <- None
  Accesses <- None
  MaxSegments = 8
  PtrBytes = 2
  ThunkBase = 128
  ThunkSize = 32
  TlsBase = 160
  TlsSize = 16
  StackTop = 512
  StackSize = 144
  StackGap = 16
  ElfBias = 32
  MachOBias = 64
  DataSymbols <- MCDataSymbols
  ElfEnv <- MCElfEnv
  MachOEnv <- MCMachOEnv
  Platform <- MCPlatform
  RandomBytes <- MCRandom
  PfRandom <- MCPfRandom
  Loads <- MCLoads
INVARIANTS StackAligned
\* The load ends.
CHECK_DEADLOCK FALSE
