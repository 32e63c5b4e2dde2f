SPECIFICATION Spec
CONSTANTS
  o = o
  a = a
  x = x
  Players <- Accounts
  Nobody = nobody
  MaxRounds = 2
  Minimum = 2
  Maximum = 2
  Owner = o
  Wallets <- TwoWallets
  Examiners <- OneExaminer
  MaxMishaps = 2
\* The script ends with its report.
CHECK_DEADLOCK FALSE
INVARIANTS
  TellsTheTruth
  SentOnce
PROPERTY Completes
