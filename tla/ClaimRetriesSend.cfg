SPECIFICATION Spec
CONSTANTS
  Signals = {s1}
  Polled = {s1}
  Passes = {job}
  Lot = 1
  StopAttempts = 2
  MaxPolls = 1
  MaxFaults = 0
  MaxCrashes = 0
CHECK_DEADLOCK FALSE
INVARIANTS
  RetriesReachExchange
