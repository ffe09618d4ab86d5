\* One send and its answers suffice.
SPECIFICATION Spec
CONSTANTS
  Sends = {s1}
  s1 = s1
  AckTimeout = 2
  PollInterval = 1
  Latency = 0
INVARIANT ReturnedSendLeavesNoEntry
CHECK_DEADLOCK FALSE
