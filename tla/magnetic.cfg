SPECIFICATION Spec
CONSTANTS
  ID_SIZE = 2
  Symbols <- MCSymbols
  MaxChars = 5
  MaxCards = 2
  MaxResets = 2
INVARIANTS
  ValidIsWellFormed
PROPERTIES
  DriverKeepsContract
CHECK_DEADLOCK FALSE
