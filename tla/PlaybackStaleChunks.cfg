\* An accepted seek only; nothing is refused and no read fails.
SPECIFICATION AudioSpec
CONSTANTS
  ChunkCount = 2
  MaxGeneration = 2
  MaxFrame = 2
  MaxFrames = 1
  Tracks = {2}
  SeekTargets = {1}
  ChunkFrames = 1
  HighWatermark = 2
  Quantum = 1
  DecodeFaults = {}
  MaxVersion = 4
PROPERTY PlaysOnAfterSeek
