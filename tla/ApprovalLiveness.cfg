SPECIFICATION FairSpec
CONSTANTS
  Signals = {s1, s2}
  NoSignal = NoSignal
  Cap = 2
  RateCap = 1
  StaleAfter = 1
  Hour = 1
  Ttl = 1
  Executive = TRUE
  KillWindows = {0}
  Horizon = 2
  MaxFaults = 0
  MaxCrashes = 1
PROPERTIES
  PendingEnds
  ApprovedIsExecuted
