SPECIFICATION Spec
CONSTANTS
  a = a
  b = b
  NoAccount = NoAccount
  Nobody = Nobody
  Players = {a, b}
  MaxRounds = 1
  Minimum = 2
  Maximum = 2
  AccountLists <- TwoAccounts
  Openings <- AnyStage
  Offers = {"start", "buy", "draw", "finalize", "prize", "refund", "view", "menu", "connect"}
  OtherCalls = {"start", "buy", "draw", "finalize", "prize", "refund", "approve"}
  Grant = 1
  Purse = 1
  MaxClicks = 1
  MaxChanges = 1
  MaxOthers = 1
  MaxMail = 3
INVARIANTS
  NoticeIsTrue
  BalanceOfSelected
  PurchaseIsApproved
