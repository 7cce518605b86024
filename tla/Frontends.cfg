CONSTANTS
  RxMax = 2
  Data <- Lines
  Chars = {"a", "b"}
  FifoSize = 4
  BufSize = 3
  KeyBuffers = 10
  TextChars = {"a", "A", " "}
  ButtonKeys = {"a", "Shift", "Ctrl"}
  ListMax = 3
  TermChars = {"^A", "x", "h"}
  TypeMax = 3
  ReadMax = 2
  Packets = {2, 3}
  PacketMax = 2
  NetBuf = 2
  TermRxMax = 1
  ResizeMax = 1
SPECIFICATION FrontSpec
CONSTRAINT UpToFirstLoss
CHECK_DEADLOCK FALSE
INVARIANTS
  CharsKept
  TypedArrives
  InputIntact
  NoPacketDropped
PROPERTIES
  ReadsInOrder
  ResizeArrives
