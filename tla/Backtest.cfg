SPECIFICATION Spec
CONSTANTS
  Unit = 2
  Denom = 10
  FixedBps = 2
  ImpactRate = 1
  FeeRate = 1
  ExitFeeRate = 1
  Universe <- SomeTickers
  Lengths <- SomeLengths
  Bars <- SomeBars
  Distances = {1, 2}
  RiskCapital = 3
  Capital = 10
  TrainWindow = 3
  TestWindow = 2
  WindowStep = 2
  Horizon = 9
  Params = {"k", "r"}
  Picks <- SomePicks
  Scores <- SomeScores
  LeastMetric <- Start
  Precision = 10
INVARIANTS
  LedgerIsSound
  FillsNeverBeatTheirOrder
  ReportAgrees
PROPERTIES
  ExitIsPessimistic
CHECK_DEADLOCK FALSE
