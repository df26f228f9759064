SPECIFICATION FairSpec
CONSTANTS
  Raw <- LabTomls
  Lab = "os"
  Instructors = {i1, i2}
  Students = {alice}
  Uploads <- Sent
  LastTime = 1
  Workers = {w1}
  Outputs <- Printed
  None = None
INVARIANTS TracksAreMetrics AcceptedIsStageable ScoresMatchBoard NothingLeftBehind VerdictIsEarned
PROPERTIES EveryRunEnds ImplementsJudging
CHECK_DEADLOCK FALSE
