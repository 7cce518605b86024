CONSTANTS
  Queues = {0}
  Heads = {h1, h2}
  QNum = 2
  IdxMod = 4
  Transports = {"mmio", "pci"}
  ResetInFlight = FALSE
  EventBuffers = 5
  RxData = {"d1", "d2"}
  InputTypes = {"keyboard", "mouse"}
  KeyCodes = {1, 2}
  Buttons = 2
SPECIFICATION DevicesSpec
INVARIANTS
  CompletionsAnnounced
  ChainsConserved
  ProgressFlagMatchesBackend
  NoStrandedRequest
  ViewsAgree
PROPERTIES
  EveryChainReturns
  RefinesRxQueue
