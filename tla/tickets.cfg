SPECIFICATION FairSpec
CONSTANTS
  Creators = {c1, c2}
  Exchanges = {x1, x2}
  Limits = {1, 2}
  TTL = 1
  MaxTime = 2
  None = None
INVARIANTS OutstandingBounded TicketUsedOnce
PROPERTIES TicketsSurvive EveryoneAnswered
CHECK_DEADLOCK FALSE
