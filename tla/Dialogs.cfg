SPECIFICATION DialogsSpec
CONSTANTS
  a = a
  b = b
  r1 = r1
  Torrents <- MCTorrents
  Results <- MCResults
  NoCapable <- MCNone
  MaxRequests = 2
  MaxActs = 5
  MaxFaults = 1
  Rules = {1}
  Contents = {"pause", "delete"}
  Destructive = {"delete"}
  Deletes = {"delete"}
  MaxGestures = 4
  MaxLive = 1
  MaxMishaps = 1
  PathSupported = TRUE
  Domains = {"x", "y"}
  Customizations = {{"x", "y"}}
  Combinable = {"speedLimits", "shareLimits", "tag", "category", "move", "externalProgram"}
  Amounts = {0, 1}
  MaxEdits = 2
INVARIANTS DialogsTypeOK ReopenKeeps FormFits NoSilentActivation LivePreviewCurrent
PROPERTIES FilteringEnds KeepsPromise
CHECK_DEADLOCK FALSE
