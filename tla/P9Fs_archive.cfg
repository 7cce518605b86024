SPECIFICATION Spec
CONSTANTS
  Inodes = {1,2,3,4,5,6,7,8}
  Fids = {1,2,3}
  MountFid = 1
  OpenInfos = {1,2,3,4,5}
  Names = {"arc","m1"}
  FileList <- MCFileList
  ServerData <- MCServerData
  Preload <- MCPreload
  Archive <- MCArchive
  KernelFiles <- MCKernelFiles
  CacheLimit = 2
  MaxBlocks = 16
  UrlIds = {"M1"}
  Kept = {"M1","M2"}
  MaxQueued = 2
  MaxChanges = 1
  MaxRequests = 6
INVARIANT AssertionsHold

CHECK_DEADLOCK FALSE
