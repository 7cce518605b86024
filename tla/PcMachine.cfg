SPECIFICATION Spec
CONSTANTS
  QueueSize = 4
  EventRoom = 1
  FifoSize = 5
  Counts = {2}
  Periods = {0, 2}
  BootPeriod = 1
  MaxLag = 2
  CountMod = 4
  MaxMult = 2
  Radix = 4
  CylMod = 2
  Heads = 2
  Sectors = 3
  DiskSectors = 7
  Menus = {"pic", "kbd", "timer", "ide", "os"}
  MaxOps <- MCMaxOps
  MaxEvents = 2
INVARIANT DataIsAnnounced
INVARIANT IdeTransferExact
PROPERTY InputIsRead
CHECK_DEADLOCK FALSE
