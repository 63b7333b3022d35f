\* Load, unload, a seek or unload of the empty deck, load again; loads are protected.
SPECIFICATION PlayerSpec
CONSTANTS
  MaxRequest = 2
  MaxCalls = 4
  Commands = {"Load", "Seek", "Unload"}
  Lifecycle = {}
  ProtectLoads = TRUE
INVARIANT ProtectedOnlyIfLoaded
