\* Two unprotected loads; the transport follower asks for a seek on the first track.
SPECIFICATION PlayerSpec
CONSTANTS
  MaxRequest = 2
  MaxCalls = 3
  Commands = {"Load"}
  Lifecycle = {}
  ProtectLoads = FALSE
INVARIANT IntentForItsTrack
