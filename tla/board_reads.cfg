SPECIFICATION Spec
CONSTANTS
  Users = {1, 2}
  Metrics = {"latency", "throughput"}
  SortOf <- BothDirections
  RankBy = "throughput"
  Pick = TRUE
  RankAll = FALSE
  Values = {1, 2}
  Times = {1, 2}
  MaxScored = 2
  None = None
INVARIANTS QuietReadIsExact
PROPERTIES NobodyDropsOff
CHECK_DEADLOCK FALSE
