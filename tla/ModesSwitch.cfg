SPECIFICATION Spec
CONSTANTS
  Actors = {a1}
  NoActor = NoActor
  Day = 2
  MinStay <- ShortStays
  MinTrades = 1
  MinStreak = 1
  ForceWindow = 2
  ConfirmDelay = 1
  CodeTtl = 2
  MaxAttempts = 1
  PanicDays = 2
  Horizon = 5
  MaxRows = 2
  MaxPendings = 2
  MaxTrades = 1
  MaxStops = 2
  Incidents = {}
  MaxAborts = 1
SYMMETRY Symmetry
INVARIANTS
  OperatingInv
  PanicHolds
PROPERTIES
  EnabledByCode
