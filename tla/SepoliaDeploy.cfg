SPECIFICATION Spec
CONSTANTS
  MaxTxs = 11
  MaxCrashes = 2
  MaxFailures = 1
\* The script ends when the manifest is written.
CHECK_DEADLOCK FALSE
INVARIANTS
  ManifestWorks
  SentOnce
PROPERTIES
  Finishes
