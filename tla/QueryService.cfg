SPECIFICATION QSpec
CONSTANTS
  p1 = p1
  nobody = nobody
  quiet = quiet
  busy = busy
  NoHash = NoHash
  Nobody = nobody
  Payloads <- AnyPayload
  Logged <- BusyPayload
  Procs <- OneProcess
  Start = 1
  Confirmations = 1
  PassLimit = 1
  LocksDie = TRUE
  MaxFaults = 1
  MaxHeight = 3
  ReorgDepth = 3
  MaxReorgs = 1
INVARIANT PassesAreSound
PROPERTIES
  Converges
  SyncedAnswers
  ReadyAgain
