SPECIFICATION EditorSpec
CONSTANTS
  Rules = {1}
  Contents = {"pause", "delete"}
  Destructive = {"delete"}
  Deletes = {"delete"}
  MaxGestures = 4
  MaxLive = 2
  MaxMishaps = 1
INVARIANT ConfirmMatchesPreview
CHECK_DEADLOCK FALSE
