--------------------------------- MODULE Chain ---------------------------------
(***************************************************************************)
(* The Ethereum node behind the RPC endpoint, which is not part of the     *)
(* repository.  The canonical chain is a sequence of payloads; the hash of *)
(* a block commits to its whole past, so the hash of block n is the first  *)
(* n payloads and the parent's hash is that without the last one.          *)
(***************************************************************************)
EXTENDS Integers, Sequences, SequencesExt

CONSTANTS
  Payloads,
  Logged,        \* the payloads with lottery transactions: two logs each
  MaxHeight,     \* bound on the chain's length
  ReorgDepth,    \* blocks this far below the highest head never change
  MaxReorgs      \* bound on reorganisations

VARIABLES
  chain,         \* payloads of blocks 1, 2, ...
  highest,       \* the highest head there has been
  reorgs

vars == <<chain, highest, reorgs>>

Init == chain = <<>> /\ highest = 0 /\ reorgs = 0

HashAt(n) == SubSeq(chain, 1, n)

Log(hash, index) == [number |-> Len(hash), hash |-> hash, index |-> index]

BlockOf(hash) ==
  [ number |-> Len(hash), hash |-> hash, parent |-> Front(hash),
    logs   |-> IF Last(hash) \in Logged THEN <<Log(hash, 0), Log(hash, 1)>> ELSE <<>> ]

Extend(payload) ==
  /\ Len(chain) < MaxHeight
  /\ chain' = Append(chain, payload)
  /\ highest' = IF Len(chain') > highest THEN Len(chain') ELSE highest
  /\ UNCHANGED reorgs

\* The head falls back to an older block, from where another fork may grow.
Reorg(length) ==
  /\ reorgs < MaxReorgs
  /\ length < Len(chain) /\ length >= highest - ReorgDepth
  /\ chain' = SubSeq(chain, 1, length)
  /\ reorgs' = reorgs + 1
  /\ UNCHANGED highest

Next ==
  \/ \E payload \in Payloads : Extend(payload)
  \/ \E length \in 0..MaxHeight : Reorg(length)
===============================================================================
