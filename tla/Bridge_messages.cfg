\* Two messages, from an allowed node, a stranger or an echo.
SPECIFICATION Spec
CONSTANTS
  Nodes = {5, 171}
  Me = 200
  IdDigits = 2
  Allowlists <- MCSpellings
  Broadcast = Broadcast
  Msgs = {m1, m2}
  m1 = m1
  m2 = m2
  Posts = {}
  MaxPackets = 2
SYMMETRY Symmetry
INVARIANTS
  TypeOK
  RepliesAreSolicited
  DropsAreJustified
  EachSendIsOneTransmission
\* The process has exited.
CHECK_DEADLOCK FALSE
