SPECIFICATION Spec
CONSTANTS
  Signals = {s1, s2}
  NoSignal = NoSignal
  Cap = 1
  RateCap = 2
  StaleAfter = 1
  Hour = 1
  Ttl = 2
  Executive = TRUE
  KillWindows = {0}
  Horizon = 3
  MaxFaults = 1
  MaxCrashes = 1
SYMMETRY Symmetry
INVARIANTS
  CapsHeldAtDecision
  LateApprovalRefused
PROPERTIES
  OfferedIsVetted
  RefinesOutcome
