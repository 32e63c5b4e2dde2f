SPECIFICATION LiveSpec
CONSTANTS
  a = a
  b = b
  NoAccount = NoAccount
  Nobody = Nobody
  Players = {a, b}
  MaxRounds = 1
  Minimum = 2
  Maximum = 2
  AccountLists <- NeverNone
  Openings <- OnSale
  Offers = {"buy", "connect"}
  OtherCalls = {"start", "buy", "draw", "finalize", "prize", "refund"}
  Grant = 1
  Purse = 1
  MaxClicks = 1
  MaxChanges = 1
  MaxOthers = 1
  MaxMail = 2
PROPERTIES
  Converges
  NeverStuck
