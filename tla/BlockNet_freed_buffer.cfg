CONSTANTS
  BlockSize = 2
  SectorsPerCluster = 2
  NbBlocks = 2
  CacheMax = 1
  Prefetch <- NoPrefetch
  PrefetchGroupLen = 2
  MaxLen = 2
  ClientKeepsBuffer = FALSE
SPECIFICATION Spec
INVARIANT WriteStoresData
