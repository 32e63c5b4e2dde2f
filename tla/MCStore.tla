-------------------------------- MODULE MCStore --------------------------------
(* Store over every chain of three payloads up to a bounded height.         *)
EXTENDS Store

CONSTANTS MaxHeight, quiet, busy, other

Paths == UNION {[1..n -> {quiet, busy, other}] : n \in Start..MaxHeight}

Numbered(path, index) == [number |-> Len(path), hash |-> path, index |-> index]

BlocksOfPaths ==
  {[ number |-> Len(p), hash |-> p, parent |-> Front(p),
     logs |-> IF Last(p) = quiet THEN <<>> ELSE <<Numbered(p, 0), Numbered(p, 1)>> ] : p \in Paths}
===============================================================================
