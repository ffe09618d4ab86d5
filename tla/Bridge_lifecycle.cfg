\* One message and one request around start and stop; no symmetry.
SPECIFICATION Spec
CONSTANTS
  Nodes = {171}
  Me = 200
  IdDigits = 2
  Allowlists <- MCListedOrNot
  Broadcast = Broadcast
  Msgs = {m1}
  m1 = m1
  Posts = {p1}
  p1 = p1
  MaxPackets = 2
INVARIANTS
  AgentNeverAnswersItself
  RequestsFindTheRadio
  OthersAreCounted
PROPERTIES
  EveryMessageConcludes
  PipelineSpec
  SignalEndsTheProcess
\* The process has exited.
CHECK_DEADLOCK FALSE
