SPECIFICATION PanicSpec
CONSTANTS
  Signals = {s1}
  Polled = {s1}
  Passes = {job}
  Lot = 2
  StopAttempts = 3
  MaxPolls = 2
  MaxFaults = 1
  MaxCrashes = 1
  MaxPanics = 1
INVARIANTS
  OpenTradeIsProtected
  LedgerAgrees
  AtMostOneLiveStop
  ResentOnlyAfterFault
  UncoveredFillIsReported
  PanicIsHonest
PROPERTIES
  RewritesOnlyCorrect
  RefinesContract
