\* One mistake at a time; times in units that keep the order of 2 s (a poll),
\* 5 s (the agent) and 8 s (verify_bridge.sh).
SPECIFICATION Spec
CONSTANTS
  Settings <- MCSettings
  CheckTimeout = 2
  VerifyPatience = 4
  PollPatience = 1
  Polls = 2
  Lateness = 1
  Fresh = 2
  MaxPackets = 2
INVARIANTS
  TypeOK
  CheckPredictsTheStart
  ReportsAgree
  VerificationIsAnswered
PROPERTIES
  RestartsUntilItRuns
  VerdictIsTrue
  SnifferIsRight
