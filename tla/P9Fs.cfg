SPECIFICATION Spec
CONSTANTS
  Inodes = {1,2,3,4,5,6,7,8}
  Fids = {1,2,3}
  MountFid = 1
  OpenInfos = {1,2,3,4,5}
  Names = {"m1","m2","new"}
  FileList <- MCFileList
  ServerData <- MCServerData
  Preload <- MCPreload
  Archive <- MCArchive
  KernelFiles <- MCKernelFiles
  CacheLimit = 2
  MaxBlocks = 16
  UrlIds = {"M1","E"}
  Kept = {"A","M2"}
  MaxQueued = 2
  MaxChanges = 2
  MaxRequests = 6
INVARIANT ReferencesExact LoadingExact OpenHasContent AssertionsHold

PROPERTY EveryRequestAnswered
CHECK_DEADLOCK FALSE
