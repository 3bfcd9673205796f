CONSTANTS
  Ports = {"3.18", "4.6"}
  Settings <- MCSettings
  OtherPeriods = {100, 2000}
  DataPeriods = {333}
  Raw <- MCRaw
  MaxData = 3
  MaxCommands = 2
SPECIFICATION Spec
INVARIANTS RangeAgrees
