\* An alert whose rule the operator excluded from investigations.
SPECIFICATION MCSpec
CONSTANTS
  Scenarios <- Exclusions
  TableStates <- TwoTables
  RoutingWorkers = {w1}
  Cooldown = 1
  Reminder = 2
  FlapWindow = 1
  MinTransitions = 2
  DigestTicks = 1
  MaxRoutingTime = 1
  MaxEvents = 2
  NoiseWorkers = {w1}
  Kinds <- NoiseKinds
  Unmanaged = 0
  NoiseWindow = 1
  Limit = 2
  MinConfidence = 700
  RelatedMin = 350
  SuppressDerived = TRUE
  MinCorrections = 2
  Lookback = 1
  MaxAlerts = 3
  MaxCorrections = 2
  MaxNoiseFaults = 0
CHECK_DEADLOCK FALSE
PROPERTY ExcludedNotInvestigated
