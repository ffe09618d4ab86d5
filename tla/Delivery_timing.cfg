\* One send with a deadline of several poll intervals and a late loop.
SPECIFICATION Spec
CONSTANTS
  Sends = {s1}
  s1 = s1
  AckTimeout = 6
  PollInterval = 2
  Latency = 1
INVARIANTS
  TimelyAnswerIsReported
  ConcludesInTime
PROPERTIES
  EverySendReturns
  ContractSpec
\* Every call has returned and the radio is disconnected.
CHECK_DEADLOCK FALSE
