\* Two slots, two generations, chunks of one frame starting at frame 0 or 1.
SPECIFICATION Spec
CONSTANTS
  ChunkCount = 2
  MaxGeneration = 1
  MaxFrame = 1
  MaxFrames = 1
INVARIANTS
  ExclusiveAudio
  PublishedWhole
  ResidentExact
PROPERTIES
  LeaseFrozen
  Store
