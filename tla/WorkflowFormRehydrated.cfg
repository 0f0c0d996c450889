SPECIFICATION FormSpec
CONSTANTS
  PathSupported = TRUE
  Domains = {"x", "y"}
  Customizations = {{"x", "y"}}
  Combinable = {"autoManagement"}
  Amounts = {0}
  MaxEdits = 1
PROPERTY EditsKept
CHECK_DEADLOCK FALSE
