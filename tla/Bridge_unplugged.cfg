\* One message and one request; the node may be unplugged.
SPECIFICATION Spec
CONSTANTS
  Nodes = {171}
  Me = 200
  IdDigits = 2
  Allowlists <- MCListedOrNot
  Broadcast = Broadcast
  Msgs = {m1}
  m1 = m1
  Posts = {p1}
  p1 = p1
  MaxPackets = 1
PROPERTY LostLinkShows
\* The process has exited.
CHECK_DEADLOCK FALSE
