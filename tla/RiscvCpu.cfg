CONSTANTS
  Lines = {1, 2}
  Half = 4
  TimeMax = 4
  SoftIrq = {}
  GuestCsr = {"mie", "timecmp"}
SPECIFICATION CpuSpec
INVARIANTS
  NoLostWakeup
  ExternalMatchesPlic
  TimerNotEarly
  ReturnUndoesTrap
  ArithmeticIsExact
  ComparisonsAgree
  ConversionsRoundOnce
PROPERTIES
  InterruptsRespectPrivilege
  TimerFires
CHECK_DEADLOCK FALSE
