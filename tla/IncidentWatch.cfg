SPECIFICATION Spec
CONSTANTS
  Breakers = {b1, b2}
  Threshold = 2
  OpenThreshold = 1
  HeartbeatAge = 1
  Day = 1
  Stale = 3
  Horizon = 3
  MaxRows = 2
  MaxFaults = 2
  MaxCrashes = 1
SYMMETRY Symmetry
CONSTRAINT OneWatcher
INVARIANTS
  OutagesAreTold
  OneIncidentPerOpening
PROPERTIES
  ResetNeverMovesBack
