\* Two asks share a backoff that reaches its cap; replies just within and just
\* over the budget. No symmetry, for the temporal property.
SPECIFICATION Spec
CONSTANTS
  Asks = {a1, a2}
  a1 = a1
  a2 = a2
  Budget = 2
  Sizes = {2, 3}
  MaxRetries = 1
  Timeout = 2
  BaseDelay = 1
  MaxDelay = 2
INVARIANTS
  TypeOK
  FirstReplyIsNotLost
  AnswerFits
  AnsweredInTime
  NothingIsAskedTwice
PROPERTIES
  EveryAskReturns
\* Every ask has returned and the client is stopped.
CHECK_DEADLOCK FALSE
