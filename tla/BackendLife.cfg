SPECIFICATION LifeSpec
CONSTANTS
  Procs = {p1, p2}
  Requests = {r1, r2}
  Nobody = Nobody
INVARIANTS
  ReplacesCleanly
PROPERTY Exits
