\* Two operations and two disturbances (a restart, a fault, another client).
\* Two targets, one of which is where a track starts.  A queue of one status and
\* one view is full as soon as the other thread pauses.
SPECIFICATION Spec
CONSTANTS
  MaxOperations = 2
  MaxEvents = 2
  MaxLoads = 2
  MaxSessions = 2
  Targets = {0, 3}
  Duration = 5
  StatusCapacity = 1
  ViewCapacity = 1
INVARIANTS
  OutcomeReal
  OneOutstanding
  NameUnlessRestarted
PROPERTIES
  SeekReal
