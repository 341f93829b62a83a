SPECIFICATION FairSpec
CONSTANTS
  Signals = {s1}
  Polled = {s1}
  Passes = {job, operator}
  Lot = 1
  StopAttempts = 2
  MaxPolls = 1
  MaxFaults = 1
  MaxCrashes = 1
INVARIANTS
  IInv
PROPERTIES
  PendingResolves
  SubmittedRowsConverge
