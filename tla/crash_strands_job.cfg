SPECIFICATION FaultySpec
CONSTANTS
  Users = {alice}
  Contents = {upload}
  Workers = {w1}
  MaxTx = 1
  LastDay = 0
  Daily = 1
  FreeVerdicts = {"build_failed"}
  Deltas = {1}
  MaxBonus = 0
  NoRow = NoRow
  NoWorker = NoWorker
PROPERTIES JobsSurviveCrashes
CHECK_DEADLOCK FALSE
