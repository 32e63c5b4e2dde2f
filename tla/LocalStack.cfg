SPECIFICATION StackSpec
CONSTANTS
  Programs = {"demo", "verify"}
  MaxDeaths = 1
  MaxForeign = 1
\* The script ends.
CHECK_DEADLOCK FALSE
INVARIANTS
  StopsCleanly
  ReadyServes
PROPERTIES
  Settles
