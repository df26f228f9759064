SPECIFICATION SmoothSpec
CONSTANTS
  Users = {alice}
  Contents = {upload}
  Requests = {r1}
  Nonces = {n1, n2}
  Workers = {}
  MaxTx = 2
  LastDay = 0
  Daily = 2
  FreeVerdicts = {}
  Deltas = {1}
  MaxBonus = 0
  NoRow = NoRow
  NoWorker = NoWorker
INVARIANTS ArtifactKept
CHECK_DEADLOCK FALSE
