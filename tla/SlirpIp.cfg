SPECIFICATION Spec
CONSTANTS
  Mbufs = {1,2,3,4,5,6,7,8,9,10,11}
  MbufThresh = 3
  Sockets = {1,2,3}
  Mtu = 2
  IpFragTtl = 1
  HogQueued = 2
  HogSent = 1
  SessionLimit = 1
  NbBootpClients = 2
  MaxRoom = 2
  Menus <- MCMenus
  Arps <- MCArps
  Answers = {0,1,3}
  MaxFrames = 3
  MaxAnswers = 2
INVARIANT MbufsAccounted ReassemblyExact SessionOrder
CHECK_DEADLOCK FALSE
