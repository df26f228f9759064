SPECIFICATION Spec
CONSTANTS
  Users = {alice}
  Contents = {upload}
  Requests = {r1, r2}
  Nonces = {n1, n2}
  Workers = {w1}
  MaxTx = 2
  LastDay = 1
  Daily = 1
  FreeVerdicts = {}
  Deltas = {1}
  MaxBonus = 1
  NoRow = NoRow
  NoWorker = NoWorker
SYMMETRY Interchangeable
INVARIANTS CreditHeld
PROPERTIES ImplementsPipeline NonceUsedOnce
CHECK_DEADLOCK FALSE
