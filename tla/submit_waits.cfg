SPECIFICATION CliSpec
CONSTANTS
  Users = {alice}
  Contents = {upload}
  Requests = {r1, r2}
  Nonces = {n1, n2}
  Workers = {w1}
  MaxTx = 2
  LastDay = 0
  Daily = 1
  FreeVerdicts = {}
  Deltas = {1}
  MaxBonus = 1
  NoRow = NoRow
  NoWorker = NoWorker
INVARIANTS ReportIsFinal
PROPERTIES ProgressOnlyForward WaitEnds RequestsAnswered EverySubmissionSettles
CHECK_DEADLOCK FALSE
