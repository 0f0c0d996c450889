SPECIFICATION Spec
CONSTANTS
  Dirs = {"a", "b", "a/d", "a/d/BDMV", "b/d"}
  Files = {"a/w", "a/d/z", "a/d/BDMV/y", "b/d/z"}
  Up <- MCUp
  Above <- MCAbove
  Markers = {"a/d/BDMV"}
  Instances = {"me", "they"}
  Me = "me"
  Torrents = {"moved", "other"}
  Owner <- MCOwner
  Save <- MCSave
  Payload <- MCPayload
  Content <- MCContent
  Claims <- MCClaims
  Ignorable = {"a/d/BDMV"}
  Cap = 2
  MaxChanges = 2
INVARIANTS
  TypeOK
  SteadyFilesSafe
  OwnListedSafe
  IgnoredSafe
CHECK_DEADLOCK FALSE
