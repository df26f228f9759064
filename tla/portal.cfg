SPECIFICATION FairSpec
CONSTANTS
  Students = {"alice", "bob"}
  Keys = {"laptop"}
  Owner <- OneDevice
  Browsers = {b1}
  Requests = {"first", "again", "web", "end"}
  Signed <- Commands
  SessionTTL = 2
  TicketTTL = 1
  None = None
INVARIANTS NonceAdmitsOnce
PROPERTIES RevocationIsFinal RevocationTakesHold WritesNeedAKey
CHECK_DEADLOCK FALSE
