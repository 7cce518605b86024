CONSTANTS
  BlockSize = 2
  SectorsPerCluster = 2
  NbBlocks = 3
  CacheMax = 1
  Prefetch <- TwoGroups
  PrefetchGroupLen = 2
  MaxLen = 2
  ClientKeepsBuffer = TRUE
SPECIFICATION Spec
INVARIANTS
  NoSpuriousResume
PROPERTIES
  RefinesAsyncDisk
  EveryRequestEnds
