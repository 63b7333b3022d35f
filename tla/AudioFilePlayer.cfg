\* Two load IDs; three commands, lifecycle callbacks and seek intents in all.
SPECIFICATION LiveSpec
CONSTANTS
  MaxRequest = 2
  MaxCalls = 3
  Commands = {"Load", "Seek", "Unload"}
  Lifecycle = {"Enable", "Disable", "Stop"}
  ProtectLoads = TRUE
INVARIANTS
  HandoffSlots
  RetiredSlotUnused
  NoForeignTrack
PROPERTIES
  OneOutcome
  LoadStatusForward
  LoadsSettle
  DisableEmptiesDeck
