SPECIFICATION Spec
CONSTANTS
  Actors = {a1, a2}
  NoActor = NoActor
  Day = 2
  MinStay <- ShortStays
  MinTrades = 1
  MinStreak = 1
  ForceWindow = 2
  ConfirmDelay = 1
  CodeTtl = 2
  MaxAttempts = 1
  PanicDays = 2
  Horizon = 4
  MaxRows = 4
  MaxPendings = 0
  MaxTrades = 1
  MaxStops = 0
  Incidents = {2}
  MaxAborts = 1
SYMMETRY Symmetry
PROPERTIES
  LadderRespected
  PaperIsEarned
