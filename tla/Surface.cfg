SPECIFICATION SurfaceSpec
CONSTANTS
  Tree <- SmallTree
  Catalog <- SmallCatalog
  Library = "lib"
  PageRows = 1
  ScanLimit = 2
  MaxBrowse = 4
  MaxFileChanges = 1
  WavePaths = {1, 2}
  Length <- TrackLengths
  MaxWaveSubmits = 2
  MaxVersion = 3
  Duration = 2
  BlockEvents = 2
  MaxTouches = 2
  MaxTroubles = 1
  TrackFrames <- SeekTracks
  Pixels = 2
  DragPixels = 2
  Spans = {1, 2}
  MaxGestures = 1
  MaxElsewhere = 1
  Slots = {0, 1}
  Semitones = {0}
  Octaves = {4, 5}
  KernelBuffer = 2
  NoteQueue = 1
  Voices = 2
  MaxContacts = 2
  MaxLifecycles = 1
  Projects = {1, 2}
  Editors = {1, 2}
  Documents = {1, 2}
  MaxRequests = 3
  MaxAccidents = 1
  UpdateRoom = 2
  BindingRoom = 3
  BeatUnits = 12
  CueRoom = 3
  SegmentRoom = 3
  FrameRate = 1500
  ArtistRoom = 2
  TrackRoom = 2
  RowRoom = 4
INVARIANTS
  HandsOffWhatIsShown
  OverviewOfOneAsset
  NoOrphanPreview
  SeeksWhatWasTouched
  NoHangingNote
  SavedIsNotLost
PROPERTIES
  WaveOfLatestRequest
  FinderServes
CHECK_DEADLOCK FALSE
