\* A correct configuration; three polls instead of thirty, no packets.
SPECIFICATION Spec
CONSTANTS
  Settings <- MCRunning
  CheckTimeout = 2
  VerifyPatience = 4
  PollPatience = 1
  Polls = 3
  Lateness = 1
  Fresh = 2
  MaxPackets = 0
PROPERTIES
  InstallerFindsTheBridge
