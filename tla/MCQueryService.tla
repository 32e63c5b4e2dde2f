---------------------------- MODULE MCQueryService ----------------------------
(* QueryService with one process.                                          *)
EXTENDS QueryService

CONSTANTS p1, nobody, quiet, busy

OneProcess == {p1}
AnyPayload == {quiet, busy}
BusyPayload == {busy}
===============================================================================
