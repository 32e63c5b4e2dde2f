SPECIFICATION HistorySpec
CONSTANTS
  Limit = 2
  MaxSettled = 5
  MaxRewinds = 1
  Slots = 3
INVARIANTS
  ListIsSound
PROPERTIES
  Recovers
