-------------------------------- MODULE Indexer --------------------------------
(***************************************************************************)
(* backend/internal/indexer: Sync, one step for each call it makes to the  *)
(* RPC endpoint (Chain) or to the database (Store), and the life of the    *)
(* processes that run it: start with the advisory lock, crash, loss of the *)
(* lock's connection.  Between two steps the chain may reorganise and      *)
(* another process may write.  Any call may fail or run into the pass's    *)
(* time limit; the pass then ends with an error and the next one starts    *)
(* from the durable cursor.                                                *)
(*                                                                         *)
(* The logs of a block are fetched by its hash, so they are a function of  *)
(* the header that was read.  Metrics and the retry delay are left out.    *)
(***************************************************************************)
EXTENDS Integers, FiniteSets, Sequences, SequencesExt

CONSTANTS
  Procs,           \* processes of this deployment
  Nobody,
  Confirmations,
  PassLimit,       \* blocks per pass
  LocksDie,        \* whether the connection that holds the lock can die
  MaxFaults,       \* bound on failed calls, crashes and dead connections
  Start, NoHash,
  Payloads, Logged, MaxHeight, ReorgDepth, MaxReorgs

ASSUME IndexerAssumption ==
  /\ Nobody \notin Procs
  /\ Confirmations \in Nat
  /\ PassLimit \in Nat \ {0}
  /\ LocksDie \in BOOLEAN
  /\ Start \in Nat \ {0} /\ MaxHeight \in Nat
  /\ NoHash \notin Seq(Payloads)
  /\ Logged \subseteq Payloads

VARIABLES
  chain, highest, reorgs,
  cursor, cursorHash, blocks, events, draws,
  lock,            \* the process whose session holds the advisory lock
  at,              \* where each process is in Sync
  local,           \* the variables of each process's Sync
  state,           \* the state each process shows to its HTTP handlers
  undisturbed,     \* history: no reorganisation since this pass read the head
  faults

chainVars == <<chain, highest, reorgs>>
storeVars == <<cursor, cursorHash, blocks, events, draws>>
vars == <<chainVars, storeVars, lock, at, local, state, undisturbed, faults>>

C == INSTANCE Chain
AllBlocks == {C!BlockOf(hash) : hash \in UNION {[1..n -> Payloads] : n \in Start..MaxHeight}}
S == INSTANCE Store WITH Blocks <- AllBlocks

NoLocals == [head |-> 0, cursor |-> 0, hash |-> NoHash, ancestor |-> 0, header |-> NoHash, processed |-> 0]
NoState  == [safeHead |-> 0, recovering |-> FALSE, synced |-> FALSE]

Init ==
  /\ C!Init /\ S!Init
  /\ lock = Nobody
  /\ at = [p \in Procs |-> "stopped"]
  /\ local = [p \in Procs |-> NoLocals]
  /\ state = [p \in Procs |-> NoState]
  /\ undisturbed = [p \in Procs |-> FALSE]
  /\ faults = 0

-----------------------------------------------------------------------------
(* The steps of Sync                                                       *)

Goto(p, place) == at' = [at EXCEPT ![p] = place]

\* The pass returns an error.
Abort(p) ==
  /\ Goto(p, "idle")
  /\ local' = [local EXCEPT ![p] = NoLocals]
  /\ state' = [state EXCEPT ![p].synced = FALSE]
  /\ UNCHANGED undisturbed

SafeHead(head) == head - Confirmations

\* The poll timer fires; a pass needs the connection that took the lock.
CheckLock(p) ==
  /\ at[p] = "idle"
  /\ IF lock = p
     THEN Goto(p, "head") /\ UNCHANGED <<local, state, undisturbed>>
     ELSE Abort(p)
  /\ UNCHANGED <<chainVars, storeVars, lock, faults>>

ReadHead(p) ==
  /\ at[p] = "head"
  /\ Goto(p, "cursor")
  /\ local' = [local EXCEPT ![p].head = Len(chain)]
  /\ state' = [state EXCEPT ![p].safeHead = SafeHead(Len(chain)), ![p].synced = FALSE]
  /\ undisturbed' = [undisturbed EXCEPT ![p] = TRUE]
  /\ UNCHANGED <<chainVars, storeVars, lock, faults>>

\* Altered: the walk starts at the cursor whatever the head is.
WalkFromCursor(head, stored) == stored

WalkFrom(head, stored) == IF stored > head THEN head ELSE stored

\* The walk is over and ancestor is the last common block.
EndWalk(p, ancestor, stored) ==
  IF ancestor < stored
  THEN /\ Goto(p, "rewind")
       /\ state' = [state EXCEPT ![p].recovering = TRUE]
  ELSE /\ Goto(p, "scan")
       /\ state' = [state EXCEPT ![p].recovering = FALSE]

\* Where the walk goes on: at a stored block, or below them all.
WalkAt(p, ancestor, stored) ==
  IF ancestor >= Start
  THEN Goto(p, "walk") /\ UNCHANGED state
  ELSE EndWalk(p, Start - 1, stored)

Lowest(ancestor) == IF ancestor >= Start THEN ancestor ELSE Start - 1

ReadCursor(p) ==
  LET from == WalkFrom(local[p].head, cursor) IN
  /\ at[p] = "cursor"
  /\ local' = [local EXCEPT ![p].cursor = cursor, ![p].hash = cursorHash,
                            ![p].ancestor = Lowest(from)]
  /\ IF cursor >= Start THEN WalkAt(p, from, cursor) ELSE EndWalk(p, cursor, cursor)
  /\ UNCHANGED <<chainVars, storeVars, lock, undisturbed, faults>>

\* Reads the canonical header at the ancestor; there may be none any more.
WalkHeader(p) ==
  /\ at[p] = "walk"
  /\ IF local[p].ancestor <= Len(chain)
     THEN /\ Goto(p, "compare")
          /\ local' = [local EXCEPT ![p].header = C!HashAt(local[p].ancestor)]
          /\ UNCHANGED <<state, undisturbed>>
     ELSE Abort(p)
  /\ UNCHANGED <<chainVars, storeVars, lock, faults>>

\* Altered: the walk skips a block.
OlderByTwo(ancestor) == ancestor - 2

Older(ancestor) == ancestor - 1

SameBlock(p) == blocks[local[p].ancestor].hash = local[p].header

\* Reads the stored block at the ancestor; another writer may have removed it.
WalkBlock(p) ==
  LET ancestor == local[p].ancestor IN
  /\ at[p] = "compare"
  /\ IF ancestor \notin DOMAIN blocks THEN Abort(p)
     ELSE /\ UNCHANGED undisturbed
          /\ IF SameBlock(p)
             THEN /\ EndWalk(p, ancestor, local[p].cursor)
                  /\ UNCHANGED local
             ELSE /\ WalkAt(p, Older(ancestor), local[p].cursor)
                  /\ local' = [local EXCEPT ![p].ancestor = Lowest(Older(ancestor))]
  /\ UNCHANGED <<chainVars, storeVars, lock, faults>>

Rewind(p) ==
  LET ancestor == local[p].ancestor IN
  /\ at[p] = "rewind"
  /\ IF ancestor >= Start => ancestor \in DOMAIN blocks
     THEN /\ S!Rewind(ancestor)
          /\ Goto(p, "reread") /\ UNCHANGED <<local, state, undisturbed>>
     ELSE Abort(p) /\ UNCHANGED storeVars
  /\ UNCHANGED <<chainVars, lock, faults>>

RereadCursor(p) ==
  /\ at[p] = "reread"
  /\ Goto(p, "scan")
  /\ local' = [local EXCEPT ![p].cursor = cursor, ![p].hash = cursorHash]
  /\ state' = [state EXCEPT ![p].recovering = FALSE]
  /\ UNCHANGED <<chainVars, storeVars, lock, undisturbed, faults>>

MoreToScan(p) ==
  /\ local[p].cursor < state[p].safeHead
  /\ local[p].processed < PassLimit

\* Reads the next header; it must exist and continue the block before it.
ScanHeader(p) ==
  LET next == local[p].cursor + 1 IN
  /\ at[p] = "scan" /\ MoreToScan(p)
  /\ IF /\ next <= Len(chain)
        /\ local[p].hash # NoHash => C!HashAt(next - 1) = local[p].hash
     THEN /\ Goto(p, "recheck")
          /\ local' = [local EXCEPT ![p].header = C!HashAt(next)]
          /\ UNCHANGED <<state, undisturbed>>
     ELSE Abort(p)
  /\ UNCHANGED <<chainVars, storeVars, lock, faults>>

\* The logs have been fetched; is the block still canonical?
Recheck(p) ==
  LET next == local[p].cursor + 1 IN
  /\ at[p] = "recheck"
  /\ IF next <= Len(chain) /\ C!HashAt(next) = local[p].header
     THEN Goto(p, "commit") /\ UNCHANGED <<local, state, undisturbed>>
     ELSE Abort(p)
  /\ UNCHANGED <<chainVars, storeVars, lock, faults>>

CommitBlock(p) ==
  LET block == C!BlockOf(local[p].header) IN
  /\ at[p] = "commit"
  /\ IF S!Extends(block) \/ S!CommittedBefore(block)
     THEN /\ IF S!Extends(block) THEN S!CommitBlock(block, block.logs) ELSE S!CommitAgain(block)
          /\ Goto(p, "scan")
          /\ local' = [local EXCEPT ![p].cursor = block.number, ![p].hash = block.hash,
                                    ![p].header = NoHash,
                                    ![p].processed = local[p].processed + 1]
          /\ UNCHANGED <<state, undisturbed>>
     ELSE Abort(p) /\ UNCHANGED storeVars
  /\ UNCHANGED <<chainVars, lock, faults>>

ReachedSafeHead(p) == local[p].cursor >= state[p].safeHead

FinishPass(p) ==
  /\ at[p] = "scan" /\ ~MoreToScan(p)
  /\ Goto(p, "idle")
  /\ local' = [local EXCEPT ![p] = NoLocals]
  /\ state' = [state EXCEPT ![p].synced = ReachedSafeHead(p)]
  /\ UNCHANGED <<chainVars, storeVars, lock, undisturbed, faults>>

Sync(p) ==
  \/ CheckLock(p) \/ ReadHead(p) \/ ReadCursor(p)
  \/ WalkHeader(p) \/ WalkBlock(p) \/ Rewind(p) \/ RereadCursor(p)
  \/ ScanHeader(p) \/ Recheck(p) \/ CommitBlock(p) \/ FinishPass(p)

-----------------------------------------------------------------------------
(* Processes, faults and the chain                                         *)

\* A process that does not get the lock exits at once: it never starts.
Launch(p) ==
  /\ at[p] = "stopped"
  /\ lock = Nobody
  /\ lock' = p
  /\ Goto(p, "idle")
  /\ UNCHANGED <<chainVars, storeVars, local, state, undisturbed, faults>>

\* A call fails or the pass times out; a transaction that was being committed
\* is either not begun or done (Fault after the step).
Fault(p) ==
  /\ at[p] \notin {"stopped", "idle"}
  /\ faults < MaxFaults
  /\ faults' = faults + 1
  /\ Abort(p)
  /\ UNCHANGED <<chainVars, storeVars, lock>>

\* A crash, or a shutdown that cancels the pass; the database drops the session.
Crash(p) ==
  /\ at[p] # "stopped"
  /\ faults < MaxFaults
  /\ faults' = faults + 1
  /\ Goto(p, "stopped")
  /\ lock' = IF lock = p THEN Nobody ELSE lock
  /\ local' = [local EXCEPT ![p] = NoLocals]
  /\ state' = [state EXCEPT ![p] = NoState]
  /\ undisturbed' = [undisturbed EXCEPT ![p] = FALSE]
  /\ UNCHANGED <<chainVars, storeVars>>

\* The connection that holds the lock dies; its process does not notice yet.
LoseLock ==
  /\ LocksDie /\ lock # Nobody
  /\ faults < MaxFaults
  /\ faults' = faults + 1
  /\ lock' = Nobody
  /\ UNCHANGED <<chainVars, storeVars, at, local, state, undisturbed>>

ChainStep ==
  /\ \/ /\ \E payload \in Payloads : C!Extend(payload)
        /\ UNCHANGED undisturbed
     \/ /\ \E length \in 0..MaxHeight : C!Reorg(length)
        /\ undisturbed' = [p \in Procs |-> FALSE]
  /\ UNCHANGED <<storeVars, lock, at, local, state, faults>>

Next ==
  \/ \E p \in Procs : Sync(p) \/ Launch(p) \/ Fault(p) \/ Crash(p)
  \/ LoseLock
  \/ ChainStep

\* A process that runs keeps polling and its calls return.
Fairness == \A p \in Procs : WF_vars(Sync(p))

Spec == Init /\ [][Next]_vars /\ Fairness

-----------------------------------------------------------------------------
(* Properties                                                              *)

Canonical(n) == n <= Len(chain) /\ blocks[n].hash = C!HashAt(n)

StoredIsCanonical == \A n \in DOMAIN blocks : Canonical(n)

\* A process that says it is synced, with no reorganisation since its pass read
\* the head, has nothing but canonical blocks in the database, up to the safe
\* head it shows: neither the walk nor the pass limit makes the flag lie.
SyncedMeansCanonical ==
  \A p \in Procs :
    state[p].synced /\ undisturbed[p] => StoredIsCanonical /\ cursor >= state[p].safeHead

\* A rewind removes the orphans and nothing else: every block it keeps is
\* canonical, and the lowest one it removes is not, or is above the head.
RemovesExactlyOrphans ==
  \A p \in Procs :
    at[p] = "rewind" /\ undisturbed[p] =>
      LET kept == local[p].ancestor IN
      /\ \A n \in Start..kept : Canonical(n)
      /\ kept + 1 > local[p].head \/ ~Canonical(kept + 1)

\* What a pass removes and what it claims, whatever the chain did before it.
PassesAreSound == SyncedMeansCanonical /\ RemovesExactlyOrphans

\* Once the chain is quiet and the deployment keeps a process that holds the
\* lock, the database catches up with the canonical chain, from any fork, and
\* stays there.
CaughtUp == StoredIsCanonical /\ cursor >= Len(chain) - Confirmations
Converges == <>[](lock # Nobody) => <>[]CaughtUp

\* "A held PostgreSQL advisory lock permits only one writer per deployment":
\* a step of Sync that changes the tables is a step of the lock's holder.
OneWriter ==
  [][\A p \in Procs : at'[p] # at[p] /\ storeVars' # storeVars => lock = p]_vars
===============================================================================
