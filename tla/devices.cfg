SPECIFICATION FairSpec
CONSTANTS
  Students = {alice, bob}
  Machines = {laptop}
  Servers = {course}
  Runs = {r1, r2}
  Callbacks = {c1, c2}
  Legacy = legacy
  None = None
INVARIANTS BoundForOneStudent
PROPERTIES KeyRowsAreHistory PollingEnds
CHECK_DEADLOCK FALSE
