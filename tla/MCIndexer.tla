------------------------------- MODULE MCIndexer -------------------------------
(* Indexer on small instances.                                             *)
EXTENDS Indexer

CONSTANTS p1, p2, nobody, quiet, busy

TwoProcesses == {p1, p2}
AnyPayload == {quiet, busy}
BusyPayload == {busy}
===============================================================================
