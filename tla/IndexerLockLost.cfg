SPECIFICATION Spec
CONSTANTS
  p1 = p1
  p2 = p2
  nobody = nobody
  quiet = quiet
  busy = busy
  NoHash = NoHash
  Nobody = nobody
  Payloads <- AnyPayload
  Logged <- BusyPayload
  Procs <- TwoProcesses
  Start = 1
  Confirmations = 0
  PassLimit = 1
  LocksDie = TRUE
  MaxFaults = 1
  MaxHeight = 1
  ReorgDepth = 1
  MaxReorgs = 0
PROPERTIES
  OneWriter
