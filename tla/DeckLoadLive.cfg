\* Two operations and one disturbance, with fairness.
SPECIFICATION LiveSpec
CONSTANTS
  MaxOperations = 2
  MaxEvents = 1
  MaxLoads = 2
  MaxSessions = 2
  Targets = {0}
  Duration = 5
  StatusCapacity = 1
  ViewCapacity = 1
PROPERTIES
  SlotDecided
  OutcomeShown
  LateResult
