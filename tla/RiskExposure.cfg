SPECIFICATION Spec
CONSTANTS
  Callers = {bot, job}
  Job = job
  Bot = bot
  Tickers = {"btc", "eth"}
  Ttl = 1
  Proposals <- SomeProposals
  MaxSignals = 2
  Groups <- SomeGroups
  RiskPct = 10
  TickerPct = 35
  PositionPct = 25
  DrawdownPct = 5
  ModifierPct = 50
  MinNotional = 300
  AiModifiers = {150}
  UseAi = FALSE
  Live = TRUE
  StaleAfter = 1
  Day = 3
  Deposit = 4000
  Levels <- SomeLevels
  EarlierPnl <- SomeLoss
  MaxMoves = 2
  Horizon = 2
INVARIANTS
  SizeWithinLimits
  EveryApprovalSawHeadroom
PROPERTIES
  BreachEndsTheDay
  CacheNeverGoesBack
CHECK_DEADLOCK FALSE
