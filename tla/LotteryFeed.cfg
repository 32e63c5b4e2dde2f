SPECIFICATION FeedSpec
CONSTANTS
  a = a
  b = b
  dao = dao
  lottery = lottery
  none = none
  nil = nil
  r0 = r0
  r1 = r1
  r2 = r2
  Wallets <- DaoAndTwo
  DAO = dao
  Lottery = lottery
  NoOne = none
  NoDraw = nil
  Requests <- Requests2
  NoRequest = r0
  Words <- WrappingWords
  TicketPrice = 10
  MinimumParticipants = 3
  MaxParticipants = 3
  Numbers = 4
  Duration = 1
  MaxDraws = 3
  MaxTime = 3
  Funds = 20
  MaxDonated = 0
SYMMETRY SameUsers
\* The bounds on rounds and time stop the system.
CHECK_DEADLOCK FALSE
INVARIANTS
  ExactBacking
  BucketsMatchRounds
  RoundsAreSeparate
  BalancesExplained
  TicketBoardConsistent
  WinnerTakesPool
  NothingRefused
  ReadModelAgrees
PROPERTIES
  OutcomeFinal
  PaysEachClaimOnce
  TicketsFixedOnceDrawable
  KeepsRounds
