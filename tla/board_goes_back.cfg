SPECIFICATION Spec
CONSTANTS
  Users = {alice}
  Contents = {upload}
  Workers = {w1, w2}
  MaxTx = 2
  LastDay = 0
  Daily = 2
  FreeVerdicts = {"build_failed"}
  Deltas = {1}
  MaxBonus = 0
  NoRow = NoRow
  NoWorker = NoWorker
SYMMETRY AnyWorker
INVARIANTS BoardShowsLatest
CHECK_DEADLOCK FALSE
