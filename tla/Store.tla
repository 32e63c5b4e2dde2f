--------------------------------- MODULE Store ---------------------------------
(***************************************************************************)
(* The tables of backend/internal/store and the two transactions that      *)
(* write them.  Both lock the deployment's row first (FOR UPDATE), so they *)
(* are atomic and run one after another whoever calls them.  A transaction *)
(* that returns an error changes nothing: no action is enabled for it.     *)
(*                                                                         *)
(* "draws" stands for the draws, tickets and claims tables: the events     *)
(* applied to them since they were last empty, in the order they were      *)
(* applied.                                                                *)
(***************************************************************************)
EXTENDS Integers, FiniteSets, Sequences, SequencesExt

CONSTANTS
  Start,        \* the deployment block
  Blocks,       \* every block the chain may have, with its logs
  NoHash        \* the empty cursor_hash

\* A hash identifies its block.  A log carries its block's number and hash, and
\* Sync sorts the logs of a block by their index before it commits them.
ASSUME StoreAssumption ==
  /\ Start \in Nat \ {0}
  /\ \A b \in Blocks : b.number \in Nat /\ b.number >= Start /\ b.hash # NoHash
  /\ \A b \in Blocks : b.logs \in Seq([number : {b.number}, hash : {b.hash}, index : Nat])
  /\ \A b \in Blocks : \A i, j \in DOMAIN b.logs : i < j => b.logs[i].index < b.logs[j].index
  /\ \A b, c \in Blocks : b.hash = c.hash => b = c

VARIABLES
  cursor, cursorHash,   \* the row of deployments
  blocks,               \* number -> header
  events,               \* rows, one for each log
  draws

vars == <<cursor, cursorHash, blocks, events, draws>>

Hashes == {b.hash : b \in Blocks}
Logs   == UNION {ToSet(b.logs) : b \in Blocks}

\* Open: the row is inserted once, just below the first block.
Init ==
  /\ cursor = Start - 1
  /\ cursorHash = NoHash
  /\ blocks = <<>>
  /\ events = {}
  /\ draws = <<>>

Before(e, f) == e.number < f.number \/ (e.number = f.number /\ e.index < f.index)

\* Events in the order they are replayed.
Replay(rows) ==
  [k \in 1..Cardinality(rows) |->
     CHOOSE e \in rows : Cardinality({f \in rows : Before(f, e)}) = k - 1]

-----------------------------------------------------------------------------

\* Altered: any block of the right height is appended.
ExtendsHeight(b) == b.number = cursor + 1

Extends(b) ==
  /\ b.number = cursor + 1
  /\ cursorHash # NoHash => cursorHash = b.parent

\* Altered: a repeated log is applied again.
EveryLog(logs) == logs

\* A log already in the table is not applied again.
NewLogs(logs) ==
  LET applied[k \in 0..Len(logs)] ==
        IF k = 0 THEN <<>>
        ELSE IF logs[k] \in events \union {logs[j] : j \in 1..(k - 1)} THEN applied[k - 1]
        ELSE Append(applied[k - 1], logs[k])
  IN  applied[Len(logs)]

CommitBlock(b, logs) ==
  /\ Extends(b)
  /\ b.number \notin DOMAIN blocks
  /\ \A k \in DOMAIN logs : logs[k].number = b.number /\ logs[k].hash = b.hash
  /\ blocks' = [n \in DOMAIN blocks \union {b.number} |->
                  IF n = b.number THEN [hash |-> b.hash, parent |-> b.parent] ELSE blocks[n]]
  /\ events' = events \union ToSet(logs)
  /\ draws' = draws \o NewLogs(logs)
  /\ cursor' = b.number
  /\ cursorHash' = b.hash

\* A block at or below the cursor is accepted if it is the one stored there.
CommittedBefore(b) ==
  /\ b.number <= cursor
  /\ b.number \in DOMAIN blocks
  /\ blocks[b.number].hash = b.hash

CommitAgain(b) == CommittedBefore(b) /\ UNCHANGED vars

RetainedEvents(ancestor) == {e \in events : e.number <= ancestor}

RetainedHeaders(ancestor) == {n \in DOMAIN blocks : n <= ancestor}

\* Removes what is above the ancestor and rebuilds the projections from what is
\* left; fails if the ancestor itself is not stored.
Rewind(ancestor) ==
  /\ ancestor >= Start => ancestor \in DOMAIN blocks
  /\ events' = RetainedEvents(ancestor)
  /\ blocks' = [n \in RetainedHeaders(ancestor) |-> blocks[n]]
  /\ draws' = Replay(events')
  /\ cursor' = ancestor
  /\ cursorHash' = IF ancestor >= Start THEN blocks[ancestor].hash ELSE NoHash

\* The logs of a block, each delivered once, or one of them twice in a row.
Deliveries(logs) ==
  {logs} \union {SubSeq(logs, 1, k) \o SubSeq(logs, k, Len(logs)) : k \in DOMAIN logs}

Next ==
  \/ \E b \in Blocks : \E logs \in Deliveries(b.logs) : CommitBlock(b, logs)
  \/ \E b \in Blocks : CommitAgain(b)
  \/ \E ancestor \in {Start - 1} \union {b.number : b \in Blocks} : Rewind(ancestor)

Spec == Init /\ [][Next]_vars

-----------------------------------------------------------------------------
(* Properties, for any number of writers calling in any order               *)

\* Types of the tables.
TypeOK ==
  /\ cursor \in Nat /\ cursor >= Start - 1
  /\ cursorHash \in Hashes \union {NoHash}
  /\ DOMAIN blocks = Start..cursor
  /\ \A n \in DOMAIN blocks : \E b \in Blocks :
       b.number = n /\ blocks[n] = [hash |-> b.hash, parent |-> b.parent]
  /\ events \subseteq Logs

\* The stored blocks are one parent-linked chain without a gap, from the
\* deployment block to the cursor, and the cursor carries the hash of its tip:
\* blocks of two forks never meet in the tables.
StoredChain ==
  /\ DOMAIN blocks = Start..cursor
  /\ \A n \in DOMAIN blocks : n > Start => blocks[n].parent = blocks[n - 1].hash
  /\ cursorHash = IF cursor >= Start THEN blocks[cursor].hash ELSE NoHash

\* The events table holds the logs of the stored blocks and of no others.
EventsMatchBlocks ==
  events = UNION {ToSet(b.logs) : b \in {c \in Blocks :
             c.number \in DOMAIN blocks /\ blocks[c.number].hash = c.hash}}

\* The tables hold one history: one chain, and its events.
OneHistory == StoredChain /\ EventsMatchBlocks

\* The projections are what replaying the stored events from nothing gives:
\* each event was applied once and in chain order, whatever was delivered
\* twice, committed again or rolled back.
ProjectionIsReplay == draws = Replay(events)
===============================================================================
