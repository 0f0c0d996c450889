SPECIFICATION FormSpec
CONSTANTS
  PathSupported = TRUE
  Domains = {"x", "y"}
  Customizations = {{"x", "y"}}
  Combinable = {"autoManagement"}
  Amounts = {0}
  MaxEdits = 1
INVARIANT SourceKeptOffWindows
CHECK_DEADLOCK FALSE
