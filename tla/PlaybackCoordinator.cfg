SPECIFICATION AudioSpec
CONSTANTS
  ChunkCount = 2
  MaxGeneration = 2
  MaxFrame = 3
  MaxFrames = 2
  Tracks = {3}
  SeekTargets = {1, 3, 4}
  ChunkFrames = 2
  HighWatermark = 2
  Quantum = 1
  DecodeFaults = {"Error", "Invalid"}
  MaxVersion = 4
INVARIANTS
  ReadsAreWhole
  OneGeneration
  NoOverlap
  NoHoleUnlessRefused
PROPERTIES
  RenderReturns
  PlaysOn
