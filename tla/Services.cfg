SPECIFICATION Spec
CONSTANTS
  Asks = {ask}
  Others = {single}
  Configured = {"nvidia", "gemini"}
  DailyLimit <- SomeLimits
  Resends = 1
  Workers = 1
  Midnights = 1
  Callers = {user, probe}
  Probe = probe
  KeyOf <- SomeKeys
  Ttl = 1
  Lag = 1
  MaxCalls = 1
  Period = 2
  MaxRetries = 2
  SlowAfter = 1
  ProbeCap = 2
  Alerts <- SomeAlerts
  Prices = {1, 2}
  Watched <- SomeWatched
  Snapshots <- SomeSnapshots
  Urls = {"x", "y"}
  Sentiments = {"bullish", "neutral"}
  Window = 2
  MaxFaults = 1
INVARIANTS
  OvershootIsBounded
  ServedIsRecent
  RateIsBounded
  AlertEndsDelivered
PROPERTIES
  RepeatsNeedALostRun
  EveryRequestIsAnswered
  EveryDueAlertIsSent
CHECK_DEADLOCK FALSE
