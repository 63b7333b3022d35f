SPECIFICATION SignalSpec
CONSTANTS
  MaxBlock = 3
  Phase = 2
  PeriodFrames = 1
  DeviceBuffer = 10
  MaxFrames = 14
  MaxOpens = 1
  Packet = 2
  ChunkFrames = 3
  MaxMediaOps = 4
  Media <- SmallMedia
  WordSize = 8
  HeaderRest = 3
  LargestBlock = 3
  MaxBlocks = 4
  Capacity = 3
  MaxPush = 4
  Top = 2
  ControlQueue = 2
  ParameterMax = 1
  UpdateQueue = 1
  MaxMoves = 2
  EventRoom = 2
  BlockFrames = 2
  FrameTicks = 2
  BeatTicks = 3
  BarBeats = 2
  TrackFrames = 3
  Ticks = 2
  Rates = {1, 2, 5}
  RampFrames = 3
  PeakLevel = 36
  ApplicationSize = 3
  Bindings <- SmallBindings
INVARIANTS
  WindowIntact
  FramesAsLabelled
  RecordingPlaysBack
  ResultsInOrderUnlessFull
PROPERTIES
  PlaybackStarts
  LoopSettles
  AdvancedAsSent
CHECK_DEADLOCK FALSE
