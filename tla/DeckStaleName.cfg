\* One load, a restart of the player and a load of another client.
SPECIFICATION Spec
CONSTANTS
  MaxOperations = 1
  MaxEvents = 2
  MaxLoads = 1
  MaxSessions = 2
  Targets = {0}
  Duration = 5
  StatusCapacity = 1
  ViewCapacity = 1
INVARIANTS
  NameOfTrack
