SPECIFICATION Spec
CONSTANTS
  Users = {alice, bob}
  Contents = {upload}
  Workers = {w1, w2}
  MaxTx = 2
  LastDay = 1
  Daily = 1
  FreeVerdicts = {"build_failed"}
  Deltas <- GrantOrRevoke
  MaxBonus = 1
  NoRow = NoRow
  NoWorker = NoWorker
SYMMETRY Interchangeable
INVARIANTS ClaimedOnce JobTellsVerdict VerdictDecidesCost BoardShowsScored BonusConserved DailyRespected
PROPERTIES VerdictIsFinal CostIsSettledOnce
CHECK_DEADLOCK FALSE
