SPECIFICATION Spec
CONSTANTS
  a = a
  b = b
  dao = dao
  lotteryContract = lotteryContract
  strayContract = strayContract
  none = none
  r0 = r0
  r1 = r1
  r2 = r2
  Wallets <- AllThree
  DAO = dao
  Lottery = lotteryContract
  OtherContract = strayContract
  NoOne = none
  Requests <- TwoRequests
  NoRequest = r0
  Words <- TwoWords
  TicketPrice = 10
  MinimumParticipants = 2
  MaxParticipants = 3
  Numbers = 4
  Duration = 1
  MaxDraws = 2
  MaxTime = 2
  Funds = 20
  MaxDonated = 1
\* The bounds on rounds and time stop the system.
CHECK_DEADLOCK FALSE
INVARIANTS
  DeliveredMeansSettled
PROPERTIES
  DrawingIsSettled
  EveryClaimIsPaid
  KeepsPromise
