\* Two concurrent sends with short timers: every interleaving of two
\* coroutines, their executor jobs, the reader thread and disconnect().
SPECIFICATION Spec
CONSTANTS
  Sends = {s1, s2}
  s1 = s1
  s2 = s2
  AckTimeout = 2
  PollInterval = 1
  Latency = 0
SYMMETRY Symmetry
INVARIANTS
  TypeOK
  ReportsAreEarned
  EntriesHaveWaiters
\* Every call has returned and the radio is disconnected.
CHECK_DEADLOCK FALSE
