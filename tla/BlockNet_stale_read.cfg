CONSTANTS
  BlockSize = 4
  SectorsPerCluster = 2
  NbBlocks = 2
  CacheMax = 1
  Prefetch <- NoPrefetch
  PrefetchGroupLen = 2
  MaxLen = 2
  ClientKeepsBuffer = TRUE
SPECIFICATION Spec
INVARIANT ReadSeesDisk
