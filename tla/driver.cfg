CONSTANTS
  Ports = {"3.18", "4.6"}
  MaxUrbs = 4
  DefaultUrbs = 2
  AskedUrbs <- MCAskedUrbs
  Ignore = 2
  MaxCommands = 3
  SMP = FALSE
  Quick = TRUE
SPECIFICATION Spec
INVARIANTS
  CopySafe
  FreshData
  StreamLives
  AllFreed
