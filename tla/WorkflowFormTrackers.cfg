SPECIFICATION FormSpec
CONSTANTS
  PathSupported = FALSE
  Domains = {"x", "y"}
  Customizations = {{"x", "y"}}
  Combinable = {"autoManagement"}
  Amounts = {0}
  MaxEdits = 1
INVARIANT ReopenKeepsAll
CHECK_DEADLOCK FALSE
