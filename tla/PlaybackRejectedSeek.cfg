\* A seek past the end of a three-chunk track while the deck plays.
SPECIFICATION PlaySpec
CONSTANTS
  ChunkCount = 2
  MaxGeneration = 2
  MaxFrame = 3
  MaxFrames = 1
  Tracks = {3}
  SeekTargets = {4}
  ChunkFrames = 1
  HighWatermark = 2
  Quantum = 1
  DecodeFaults = {}
  MaxVersion = 4
INVARIANT NoHole
