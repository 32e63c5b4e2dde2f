--------------------------- MODULE QueryServiceProofs ---------------------------
(***************************************************************************)
(* Proofs about Indexer and QueryService, for any number of processes and  *)
(* any chain.  Whoever holds the lock, what the processes write are steps  *)
(* of Store, so what StoreProofs shows of the tables holds.  While at most *)
(* one process runs, a pass removes orphans only, and what is called       *)
(* synced is canonical, in the tables and in the answers.                  *)
(***************************************************************************)
EXTENDS QueryService, SequenceTheorems, TLAPS

SP == INSTANCE StoreProofs WITH Blocks <- AllBlocks

Hash == Seq(Payloads)

\* The hashes of the blocks there may be.
BlockHashes == UNION {[1..n -> Payloads] : n \in Start..MaxHeight}

LEMMA BlockHash ==
  ASSUME NEW hash \in Hash, Len(hash) >= Start, Len(hash) <= MaxHeight
  PROVE  hash \in BlockHashes /\ C!BlockOf(hash) \in AllBlocks
<1>1. Len(hash) \in Start..MaxHeight /\ hash \in [1..Len(hash) -> Payloads]
  BY IndexerAssumption DEF Hash
<1>2. hash \in BlockHashes
  BY <1>1 DEF BlockHashes
<1> QED BY <1>2 DEF AllBlocks, BlockHashes

LEMMA HashOfBlock ==
  ASSUME NEW hash \in BlockHashes
  PROVE  hash \in Hash /\ Len(hash) \in Nat /\ Len(hash) >= Start /\ hash # NoHash
<1>1. PICK n \in Start..MaxHeight : hash \in [1..n -> Payloads]
  BY DEF BlockHashes
<1>2. n \in Nat /\ n >= Start
  BY IndexerAssumption
<1>3. hash \in Hash /\ Len(hash) = n
  BY <1>1, <1>2 DEF Hash
<1> QED BY <1>2, <1>3, IndexerAssumption DEF Hash

LEMMA ABlock ==
  ASSUME NEW b \in AllBlocks
  PROVE  \E hash \in BlockHashes : b = C!BlockOf(hash)
BY DEF AllBlocks, BlockHashes

\* Logs carry the number and the hash of their block.
LEMMA BlockFields ==
  ASSUME NEW hash \in BlockHashes
  PROVE  /\ C!BlockOf(hash).number = Len(hash) /\ C!BlockOf(hash).hash = hash
         /\ C!BlockOf(hash).parent = SubSeq(hash, 1, Len(hash) - 1)
         /\ C!BlockOf(hash).logs \in Seq([number : {Len(hash)}, hash : {hash}, index : Nat])
<1> DEFINE OfBlock == [number : {Len(hash)}, hash : {hash}, index : Nat]
<1>1. C!Log(hash, 0) \in OfBlock /\ C!Log(hash, 1) \in OfBlock
  BY DEF C!Log
<1> HIDE DEF OfBlock
<1>2. <<C!Log(hash, 0), C!Log(hash, 1)>> \in Seq(OfBlock) /\ << >> \in Seq(OfBlock)
  BY <1>1
<1>3. C!BlockOf(hash).logs \in Seq(OfBlock)
  <2>1. C!BlockOf(hash).logs = IF C!Last(hash) \in Logged
                               THEN <<C!Log(hash, 0), C!Log(hash, 1)>> ELSE << >>
    BY DEF C!BlockOf
  <2> QED BY <1>2, <2>1
<1> QED BY <1>3 DEF C!BlockOf, OfBlock, C!Front

\* The logs of a block are in the order of their index.
LEMMA LogsInOrder ==
  ASSUME NEW hash, NEW i \in DOMAIN C!BlockOf(hash).logs, NEW j \in DOMAIN C!BlockOf(hash).logs,
         i < j
  PROVE  C!BlockOf(hash).logs[i].index < C!BlockOf(hash).logs[j].index
<1> DEFINE logs == C!BlockOf(hash).logs
<1>1. logs = IF C!Last(hash) \in Logged THEN <<C!Log(hash, 0), C!Log(hash, 1)>> ELSE << >>
  BY DEF C!BlockOf
<1>2. CASE logs = << >>
  BY <1>2
<1>3. CASE logs = <<C!Log(hash, 0), C!Log(hash, 1)>>
  <2>1. DOMAIN logs = {1, 2}
    BY <1>3
  <2>2. i = 1 /\ j = 2
    BY <2>1
  <2>3. logs[1].index = 0 /\ logs[2].index = 1
    BY <1>3 DEF C!Log
  <2> QED BY <2>2, <2>3
<1> QED BY <1>1, <1>2, <1>3

LEMMA ChainBlocks == SP!StoreAssumption
<1>1. Start \in Nat \ {0}
  BY IndexerAssumption
<1>2. ASSUME NEW b \in AllBlocks
      PROVE  /\ b.number \in Nat /\ b.number >= Start /\ b.hash # NoHash
             /\ b.logs \in Seq([number : {b.number}, hash : {b.hash}, index : Nat])
             /\ b.hash \in BlockHashes /\ b = C!BlockOf(b.hash)
  <2>1. PICK hash \in BlockHashes : b = C!BlockOf(hash)
    BY ABlock
  <2>2. b.number = Len(hash) /\ b.hash = hash
    BY <2>1, BlockFields
  <2> QED BY <2>1, <2>2, BlockFields, HashOfBlock
<1>3. \A b, c \in AllBlocks : b.hash = c.hash => b = c
  BY <1>2
<1>4. ASSUME NEW b \in AllBlocks, NEW i \in DOMAIN b.logs, NEW j \in DOMAIN b.logs, i < j
      PROVE  b.logs[i].index < b.logs[j].index
  BY <1>2, <1>4, LogsInOrder
<1> QED BY <1>1, <1>2, <1>3, <1>4 DEF SP!StoreAssumption

-----------------------------------------------------------------------------
(* S and SP are the same module, once without and once with its proofs.    *)

LEMMA SameStoreInit == S!Init => SP!Init
BY DEF S!Init, SP!Init

LEMMA SameStoreStep == [S!Next]_(S!vars) => [SP!Next]_(SP!vars)
<1>1. ASSUME NEW b, NEW logs, S!CommitBlock(b, logs) PROVE SP!CommitBlock(b, logs)
  <2>1. S!NewLogs(logs) = SP!NewLogs(logs)
    BY Zenon DEF S!NewLogs, SP!NewLogs
  <2>2. S!ToSet(logs) = SP!ToSet(logs)
    BY DEF S!ToSet, SP!ToSet
  <2> QED BY <1>1, <2>1, <2>2 DEF S!CommitBlock, SP!CommitBlock, S!Extends, SP!Extends
<1>2. ASSUME NEW b, S!CommitAgain(b) PROVE SP!CommitAgain(b)
  BY <1>2 DEF S!CommitAgain, SP!CommitAgain, S!CommittedBefore, SP!CommittedBefore, S!vars, SP!vars
<1>3. ASSUME NEW ancestor, S!Rewind(ancestor) PROVE SP!Rewind(ancestor)
  <2>1. ASSUME NEW rows PROVE S!Replay(rows) = SP!Replay(rows)
    BY Zenon DEF S!Replay, SP!Replay, S!Before, SP!Before, S!Cardinality, SP!Cardinality
  <2>2. S!RetainedEvents(ancestor) = SP!RetainedEvents(ancestor)
        /\ S!RetainedHeaders(ancestor) = SP!RetainedHeaders(ancestor)
    BY DEF S!RetainedEvents, SP!RetainedEvents, S!RetainedHeaders, SP!RetainedHeaders
  <2> QED BY <1>3, <2>1, <2>2 DEF S!Rewind, SP!Rewind
<1>4. ASSUME NEW logs PROVE S!Deliveries(logs) = SP!Deliveries(logs)
  BY DEF S!Deliveries, SP!Deliveries
<1>5. UNCHANGED S!vars => UNCHANGED SP!vars
  BY DEF S!vars, SP!vars
<1> QED BY <1>1, <1>2, <1>3, <1>4, <1>5 DEF S!Next, SP!Next

LEMMA SameHistory == SP!IInv => S!OneHistory
BY Zenon DEF SP!IInv, SP!StoredChain, SP!EventsMatchBlocks, S!OneHistory, S!StoredChain,
   S!EventsMatchBlocks, S!ToSet, SP!ToSet

-----------------------------------------------------------------------------
(* Whatever the processes do, they write the tables as Store's writers do   *)

Places == {"stopped", "idle", "head", "cursor", "walk", "compare", "rewind", "reread", "scan",
           "recheck", "commit"}

AnyHash == Hash \union {NoHash}
Locals  == [head : Nat, cursor : Nat, hash : AnyHash, ancestor : Nat, header : AnyHash,
            processed : Nat]
States  == [safeHead : Int, recovering : BOOLEAN, synced : BOOLEAN]

Types ==
  /\ chain \in Hash /\ Len(chain) <= MaxHeight
  /\ at \in [Procs -> Places]
  /\ local \in [Procs -> Locals]
  /\ state \in [Procs -> States]
  /\ undisturbed \in [Procs -> BOOLEAN]

\* What a process is about to write is a block, or a height, that may be written.
WritesInRange ==
  \A p \in Procs :
    /\ at[p] \in {"walk", "compare", "rewind", "scan", "recheck", "commit"} => local[p].cursor >= Start - 1
    /\ at[p] \in {"walk", "compare"} => local[p].ancestor >= Start
    /\ at[p] = "rewind" => local[p].ancestor >= Start - 1
    /\ at[p] \in {"recheck", "commit"} =>
         /\ local[p].header \in Hash
         /\ Len(local[p].header) = local[p].cursor + 1
         /\ Len(local[p].header) <= MaxHeight

WriterInv == SP!IInv /\ Types /\ WritesInRange

\* What SP!IInv says of the cursor and of the stored blocks.
LEMMA TableFacts ==
  ASSUME SP!IInv
  PROVE  /\ Start \in Nat \ {0} /\ cursor \in Nat /\ cursor >= Start - 1
         /\ DOMAIN blocks = Start..cursor
         /\ cursorHash \in Hash \union {NoHash}
         /\ cursorHash = IF cursor >= Start THEN blocks[cursor].hash ELSE NoHash
         /\ \A n \in DOMAIN blocks : /\ blocks[n].hash \in Hash /\ Len(blocks[n].hash) = n
                                     /\ blocks[n].parent = SubSeq(blocks[n].hash, 1, n - 1)
<1>1. /\ Start \in Nat \ {0} /\ cursor \in Nat /\ cursor >= Start - 1
      /\ DOMAIN blocks = Start..cursor
      /\ cursorHash = IF cursor >= Start THEN blocks[cursor].hash ELSE NoHash
  BY IndexerAssumption DEF SP!IInv, SP!TypeOK, SP!StoredChain
<1>2. ASSUME NEW n \in DOMAIN blocks
      PROVE  /\ blocks[n].hash \in Hash /\ Len(blocks[n].hash) = n
             /\ blocks[n].parent = SubSeq(blocks[n].hash, 1, n - 1)
  <2>1. PICK b \in AllBlocks : b.number = n /\ blocks[n] = [hash |-> b.hash, parent |-> b.parent]
    BY DEF SP!IInv, SP!TypeOK
  <2>2. PICK hash \in BlockHashes : b = C!BlockOf(hash)
    BY ABlock
  <2>3. blocks[n].hash = b.hash /\ blocks[n].parent = b.parent
    BY <2>1
  <2>4. b.number = Len(hash) /\ b.hash = hash /\ b.parent = SubSeq(hash, 1, Len(hash) - 1)
    BY <2>2, BlockFields
  <2>5. hash \in Hash
    BY HashOfBlock
  <2> QED BY <2>1, <2>3, <2>4, <2>5
<1>3. cursorHash \in Hash \union {NoHash}
  BY <1>1, <1>2
<1> QED BY <1>1, <1>2, <1>3

\* The assignments to a process's variables and to its shown state.
HeadSet(f, p, n)        == [f EXCEPT ![p].head = n]
HeaderSet(f, p, h)      == [f EXCEPT ![p].header = h]
AncestorSet(f, p, n)    == [f EXCEPT ![p].ancestor = n]
CursorSet(f, p, n, h)   == [f EXCEPT ![p].cursor = n, ![p].hash = h]
WalkSet(f, p, n, h, m)  == [f EXCEPT ![p].cursor = n, ![p].hash = h, ![p].ancestor = m]
BlockSet(f, p, n, h, m) == [f EXCEPT ![p].cursor = n, ![p].hash = h, ![p].header = NoHash,
                                     ![p].processed = m]
SyncedSet(f, p, b)      == [f EXCEPT ![p].synced = b]
RecoveringSet(f, p, b)  == [f EXCEPT ![p].recovering = b]
SafeHeadSet(f, p, n, b) == [f EXCEPT ![p].safeHead = n, ![p].synced = b]

SameElsewhere(g, f, p) == \A q \in Procs : q # p => g[q] = f[q]

LEMMA HeadSetFacts ==
  ASSUME NEW f \in [Procs -> Locals], NEW p \in Procs, NEW n \in Nat
  PROVE  LET g == HeadSet(f, p, n) IN
         /\ g \in [Procs -> Locals] /\ SameElsewhere(g, f, p)
         /\ g[p].head = n /\ g[p].cursor = f[p].cursor /\ g[p].ancestor = f[p].ancestor
         /\ g[p].header = f[p].header
<1>1. HeadSet(f, p, n) \in [Procs -> Locals]
  BY DEF Locals, HeadSet
<1> QED BY <1>1 DEF Locals, HeadSet, SameElsewhere

LEMMA HeaderSetFacts ==
  ASSUME NEW f \in [Procs -> Locals], NEW p \in Procs, NEW h \in AnyHash
  PROVE  LET g == HeaderSet(f, p, h) IN
         /\ g \in [Procs -> Locals] /\ SameElsewhere(g, f, p)
         /\ g[p].header = h /\ g[p].cursor = f[p].cursor /\ g[p].ancestor = f[p].ancestor
         /\ g[p].head = f[p].head
<1>1. HeaderSet(f, p, h) \in [Procs -> Locals]
  BY DEF Locals, HeaderSet
<1> QED BY <1>1 DEF Locals, HeaderSet, SameElsewhere

LEMMA AncestorSetFacts ==
  ASSUME NEW f \in [Procs -> Locals], NEW p \in Procs, NEW n \in Nat
  PROVE  LET g == AncestorSet(f, p, n) IN
         /\ g \in [Procs -> Locals] /\ SameElsewhere(g, f, p)
         /\ g[p].ancestor = n /\ g[p].cursor = f[p].cursor /\ g[p].head = f[p].head
         /\ g[p].header = f[p].header
<1>1. AncestorSet(f, p, n) \in [Procs -> Locals]
  BY DEF Locals, AncestorSet
<1> QED BY <1>1 DEF Locals, AncestorSet, SameElsewhere

LEMMA CursorSetFacts ==
  ASSUME NEW f \in [Procs -> Locals], NEW p \in Procs, NEW n \in Nat, NEW h \in AnyHash
  PROVE  LET g == CursorSet(f, p, n, h) IN
         /\ g \in [Procs -> Locals] /\ SameElsewhere(g, f, p)
         /\ g[p].cursor = n /\ g[p].head = f[p].head /\ g[p].ancestor = f[p].ancestor
         /\ g[p].header = f[p].header
<1>1. CursorSet(f, p, n, h) \in [Procs -> Locals]
  BY DEF Locals, CursorSet
<1> QED BY <1>1 DEF Locals, CursorSet, SameElsewhere

LEMMA WalkSetFacts ==
  ASSUME NEW f \in [Procs -> Locals], NEW p \in Procs, NEW n \in Nat, NEW h \in AnyHash,
         NEW m \in Nat
  PROVE  LET g == WalkSet(f, p, n, h, m) IN
         /\ g \in [Procs -> Locals] /\ SameElsewhere(g, f, p)
         /\ g[p].cursor = n /\ g[p].ancestor = m /\ g[p].head = f[p].head
         /\ g[p].header = f[p].header
<1> DEFINE k == CursorSet(f, p, n, h)
<1>1. /\ k \in [Procs -> Locals] /\ SameElsewhere(k, f, p)
      /\ k[p].cursor = n /\ k[p].head = f[p].head /\ k[p].header = f[p].header
  BY CursorSetFacts
<1>2. WalkSet(f, p, n, h, m) = AncestorSet(k, p, m)
  BY Zenon DEF WalkSet, AncestorSet, CursorSet
<1> HIDE DEF k
<1>3. LET g == AncestorSet(k, p, m) IN
      /\ g \in [Procs -> Locals] /\ SameElsewhere(g, k, p)
      /\ g[p].ancestor = m /\ g[p].cursor = k[p].cursor /\ g[p].head = k[p].head
      /\ g[p].header = k[p].header
  BY <1>1, AncestorSetFacts
<1> QED BY <1>1, <1>2, <1>3 DEF SameElsewhere

LEMMA BlockSetFacts ==
  ASSUME NEW f \in [Procs -> Locals], NEW p \in Procs, NEW n \in Nat, NEW h \in AnyHash,
         NEW m \in Nat
  PROVE  LET g == BlockSet(f, p, n, h, m) IN
         /\ g \in [Procs -> Locals] /\ SameElsewhere(g, f, p)
         /\ g[p].cursor = n /\ g[p].head = f[p].head /\ g[p].ancestor = f[p].ancestor
<1> DEFINE k == CursorSet(f, p, n, h)
           l == HeaderSet(k, p, NoHash)
<1>1. /\ k \in [Procs -> Locals] /\ SameElsewhere(k, f, p)
      /\ k[p].cursor = n /\ k[p].head = f[p].head /\ k[p].ancestor = f[p].ancestor
  BY CursorSetFacts
<1>2. NoHash \in AnyHash
  BY DEF AnyHash
<1>3. BlockSet(f, p, n, h, m) = [l EXCEPT ![p].processed = m]
  BY Zenon DEF BlockSet, HeaderSet, CursorSet
<1> HIDE DEF k
<1>4. /\ l \in [Procs -> Locals] /\ SameElsewhere(l, k, p)
      /\ l[p].cursor = k[p].cursor /\ l[p].head = k[p].head /\ l[p].ancestor = k[p].ancestor
  BY <1>1, <1>2, HeaderSetFacts
<1> HIDE DEF l
<1>5. [l EXCEPT ![p].processed = m] \in [Procs -> Locals]
  BY <1>4 DEF Locals
<1> QED BY <1>1, <1>3, <1>4, <1>5 DEF SameElsewhere, Locals

LEMMA ClearFacts ==
  ASSUME NEW f \in [Procs -> Locals], NEW p \in Procs
  PROVE  LET g == [f EXCEPT ![p] = NoLocals] IN
         g \in [Procs -> Locals] /\ SameElsewhere(g, f, p)
BY DEF Locals, NoLocals, AnyHash, SameElsewhere

LEMMA SyncedSetFacts ==
  ASSUME NEW f \in [Procs -> States], NEW p \in Procs, NEW b \in BOOLEAN
  PROVE  LET g == SyncedSet(f, p, b) IN
         /\ g \in [Procs -> States] /\ SameElsewhere(g, f, p)
         /\ g[p].synced = b /\ g[p].safeHead = f[p].safeHead
<1>1. SyncedSet(f, p, b) \in [Procs -> States]
  BY DEF States, SyncedSet
<1> QED BY <1>1 DEF States, SyncedSet, SameElsewhere

LEMMA RecoveringSetFacts ==
  ASSUME NEW f \in [Procs -> States], NEW p \in Procs, NEW b \in BOOLEAN
  PROVE  LET g == RecoveringSet(f, p, b) IN
         /\ g \in [Procs -> States] /\ SameElsewhere(g, f, p)
         /\ g[p].synced = f[p].synced /\ g[p].safeHead = f[p].safeHead
<1>1. RecoveringSet(f, p, b) \in [Procs -> States]
  BY DEF States, RecoveringSet
<1> QED BY <1>1 DEF States, RecoveringSet, SameElsewhere

LEMMA SafeHeadSetFacts ==
  ASSUME NEW f \in [Procs -> States], NEW p \in Procs, NEW n \in Int, NEW b \in BOOLEAN
  PROVE  LET g == SafeHeadSet(f, p, n, b) IN
         /\ g \in [Procs -> States] /\ SameElsewhere(g, f, p)
         /\ g[p].synced = b /\ g[p].safeHead = n
<1>1. SafeHeadSet(f, p, n, b) \in [Procs -> States]
  BY DEF States, SafeHeadSet
<1> QED BY <1>1 DEF States, SafeHeadSet, SameElsewhere

LEMMA StateClearFacts ==
  ASSUME NEW f \in [Procs -> States], NEW p \in Procs
  PROVE  LET g == [f EXCEPT ![p] = NoState] IN
         g \in [Procs -> States] /\ SameElsewhere(g, f, p) /\ g[p].synced = FALSE
<1>1. NoState \in States
  BY DEF NoState, States
<1>2. NoState.synced = FALSE
  BY DEF NoState
<1> HIDE DEF NoState
<1> QED BY <1>1, <1>2 DEF SameElsewhere

-----------------------------------------------------------------------------
(* What each step does, field by field                                     *)

Moves(p, place) ==
  /\ at' \in [Procs -> Places] /\ at'[p] = place /\ SameElsewhere(at', at, p)
LocalStep(p) == local' \in [Procs -> Locals] /\ SameElsewhere(local', local, p)
StateStep(p) == state' \in [Procs -> States] /\ SameElsewhere(state', state, p)

\* The part of the types that is about the chain and the processes.
StepTypes(p) ==
  /\ at' \in [Procs -> Places] /\ SameElsewhere(at', at, p)
  /\ LocalStep(p) /\ StateStep(p)
  /\ undisturbed' \in [Procs -> BOOLEAN]

LEMMA GotoMoves ==
  ASSUME Types, NEW p \in Procs, NEW place \in Places, Goto(p, place)
  PROVE  Moves(p, place)
BY DEF Types, Goto, Moves, SameElsewhere

LEMMA NoStep ==
  ASSUME Types, NEW p \in Procs
  PROVE  /\ UNCHANGED local => LocalStep(p)
         /\ UNCHANGED state => StateStep(p)
BY DEF Types, LocalStep, StateStep, SameElsewhere

LEMMA AbortDoes ==
  ASSUME Types, NEW p \in Procs, Abort(p)
  PROVE  /\ Moves(p, "idle") /\ LocalStep(p) /\ StateStep(p)
         /\ ~state'[p].synced /\ undisturbed' = undisturbed
<1>1. Moves(p, "idle")
  BY GotoMoves DEF Abort, Places
<1>2. LocalStep(p)
  BY ClearFacts DEF Abort, LocalStep, Types
<1>3. state' = SyncedSet(state, p, FALSE)
  BY DEF Abort, SyncedSet
<1>4. StateStep(p) /\ state'[p].synced = FALSE
  BY <1>3, SyncedSetFacts DEF StateStep, Types
<1> QED BY <1>1, <1>2, <1>4 DEF Abort

LEMMA EndWalkDoes ==
  ASSUME Types, NEW p \in Procs, NEW a, NEW stored, EndWalk(p, a, stored)
  PROVE  /\ a < stored => Moves(p, "rewind")
         /\ ~(a < stored) => Moves(p, "scan")
         /\ StateStep(p) /\ state'[p].synced = state[p].synced
         /\ state'[p].safeHead = state[p].safeHead
<1>0. state' = RecoveringSet(state, p, TRUE) \/ state' = RecoveringSet(state, p, FALSE)
  BY DEF EndWalk, RecoveringSet
<1>1. PICK b \in BOOLEAN : state' = RecoveringSet(state, p, b)
  BY <1>0
<1>2. /\ StateStep(p) /\ state'[p].synced = state[p].synced
      /\ state'[p].safeHead = state[p].safeHead
  BY <1>1, RecoveringSetFacts DEF StateStep, Types
<1>3. (a < stored => Moves(p, "rewind")) /\ (~(a < stored) => Moves(p, "scan"))
  BY GotoMoves DEF EndWalk, Places
<1> QED BY <1>2, <1>3

\* A step of p leaves the other processes alone.
LEMMA OthersInRange ==
  ASSUME WritesInRange, NEW p \in Procs, SameElsewhere(at', at, p), LocalStep(p),
         /\ at'[p] \in {"walk", "compare", "rewind", "scan", "recheck", "commit"} =>
              local'[p].cursor >= Start - 1
         /\ at'[p] \in {"walk", "compare"} => local'[p].ancestor >= Start
         /\ at'[p] = "rewind" => local'[p].ancestor >= Start - 1
         /\ at'[p] \in {"recheck", "commit"} =>
              /\ local'[p].header \in Hash
              /\ Len(local'[p].header) = local'[p].cursor + 1
              /\ Len(local'[p].header) <= MaxHeight
  PROVE  WritesInRange'
BY DEF WritesInRange, SameElsewhere, LocalStep

\* The hash of a canonical block.
LEMMA HashAtFacts ==
  ASSUME Types, NEW n \in Nat, n <= Len(chain)
  PROVE  /\ C!HashAt(n) \in Hash /\ Len(C!HashAt(n)) = n
         /\ \A i \in 1..n : C!HashAt(n)[i] = chain[i]
<1>1. chain \in Seq(Payloads) /\ Len(chain) \in Nat
  BY DEF Types, Hash
<1>2. \A i \in 1..n : chain[i] \in Payloads
  BY <1>1
<1>3. /\ SubSeq(chain, 1, n) \in Seq(Payloads)
      /\ Len(SubSeq(chain, 1, n)) = IF 1 <= n THEN n - 1 + 1 ELSE 0
      /\ \A i \in 1..n - 1 + 1 : SubSeq(chain, 1, n)[i] = chain[1 + i - 1]
  BY <1>2, SubSeqProperties
<1>4. Len(SubSeq(chain, 1, n)) = n
  BY <1>3
<1>5. \A i \in 1..n : SubSeq(chain, 1, n)[i] = chain[i]
  BY <1>3
<1> QED BY <1>3, <1>4, <1>5 DEF C!HashAt, Hash

\* Sync, step by step.
LEMMA CheckLockDoes ==
  ASSUME Types, NEW p \in Procs, CheckLock(p)
  PROVE  /\ at[p] = "idle" /\ UNCHANGED <<chainVars, storeVars, lock>> /\ StepTypes(p)
         /\ \/ lock = p /\ Moves(p, "head") /\ UNCHANGED <<local, state, undisturbed>>
            \/ Moves(p, "idle") /\ ~state'[p].synced /\ UNCHANGED undisturbed
<1>1. CASE lock = p
  <2>1. Moves(p, "head") /\ UNCHANGED <<local, state, undisturbed>>
    BY <1>1, GotoMoves DEF CheckLock, Places
  <2> QED BY <1>1, <2>1, NoStep DEF CheckLock, StepTypes, Moves, Types
<1>2. CASE lock # p
  <2>1. Abort(p)
    BY <1>2 DEF CheckLock
  <2> QED BY <2>1, AbortDoes DEF CheckLock, StepTypes, Moves, Types
<1> QED BY <1>1, <1>2

LEMMA ReadHeadDoes ==
  ASSUME Types, NEW p \in Procs, ReadHead(p)
  PROVE  /\ at[p] = "head" /\ UNCHANGED <<chainVars, storeVars, lock>> /\ StepTypes(p)
         /\ Moves(p, "cursor") /\ local'[p].head = Len(chain) /\ ~state'[p].synced
<1>1. Len(chain) \in Nat /\ SafeHead(Len(chain)) \in Int
  BY IndexerAssumption DEF Types, Hash, SafeHead
<1>2. local' = HeadSet(local, p, Len(chain)) /\ state' = SafeHeadSet(state, p, SafeHead(Len(chain)), FALSE)
  BY DEF ReadHead, HeadSet, SafeHeadSet
<1>3. LocalStep(p) /\ local'[p].head = Len(chain)
  BY <1>1, <1>2, HeadSetFacts DEF LocalStep, Types
<1>4. StateStep(p) /\ state'[p].synced = FALSE
  <2>1. PICK b \in BOOLEAN, n \in Int : b = FALSE /\ n = SafeHead(Len(chain))
    BY <1>1
  <2>2. state' = SafeHeadSet(state, p, n, b) /\ state \in [Procs -> States]
    BY <1>2, <2>1 DEF Types
  <2>3. StateStep(p) /\ state'[p].synced = b
    BY <2>2, SafeHeadSetFacts DEF StateStep
  <2> QED BY <2>1, <2>3
<1>5. Moves(p, "cursor")
  BY GotoMoves DEF ReadHead, Places
<1>6. undisturbed' \in [Procs -> BOOLEAN]
  BY DEF ReadHead, Types
<1> QED BY <1>3, <1>4, <1>5, <1>6 DEF ReadHead, StepTypes, Moves

\* How ReadCursor and WalkBlock go on from an ancestor at or above Start - 1.
LEMMA WalkAtDoes ==
  ASSUME Types, NEW p \in Procs, NEW a \in Int, NEW stored, WalkAt(p, a, stored)
  PROVE  /\ a >= Start => Moves(p, "walk")
         /\ a < Start /\ Start - 1 < stored => Moves(p, "rewind")
         /\ a < Start /\ ~(Start - 1 < stored) => Moves(p, "scan")
         /\ StateStep(p) /\ state'[p].synced = state[p].synced
         /\ state'[p].safeHead = state[p].safeHead
<1>1. Start \in Nat
  BY IndexerAssumption
<1>2. CASE a >= Start
  BY <1>1, <1>2, GotoMoves, NoStep DEF WalkAt, Places
<1>3. CASE a < Start
  <2>1. EndWalk(p, Start - 1, stored)
    BY <1>1, <1>3 DEF WalkAt
  <2> QED BY <1>1, <1>3, <2>1, EndWalkDoes
<1> QED BY <1>1, <1>2, <1>3

LEMMA ReadCursorDoes ==
  ASSUME Types, SP!IInv, NEW p \in Procs, ReadCursor(p)
  PROVE  LET from == WalkFrom(local[p].head, cursor) IN
         /\ at[p] = "cursor" /\ UNCHANGED <<chainVars, storeVars, lock, undisturbed>>
         /\ StepTypes(p)
         /\ local'[p].cursor = cursor /\ local'[p].ancestor = Lowest(from)
         /\ local'[p].head = local[p].head
         /\ state'[p].synced = state[p].synced /\ state'[p].safeHead = state[p].safeHead
         /\ from \in Int /\ from <= cursor /\ from <= local[p].head
         /\ cursor < Start => at'[p] = "scan"
         /\ cursor >= Start => /\ from >= Start => at'[p] = "walk"
                               /\ from < Start => at'[p] = "rewind"
<1> DEFINE from == WalkFrom(local[p].head, cursor)
<1>1. local[p].head \in Nat /\ cursor \in Nat /\ Start \in Nat \ {0} /\ cursorHash \in AnyHash
  BY TableFacts DEF Types, Locals, AnyHash
<1>2. from \in Int /\ from <= cursor /\ from <= local[p].head
  BY <1>1 DEF WalkFrom
<1>3. Lowest(from) \in Nat
  BY <1>1, <1>2 DEF Lowest
<1>4. local' = WalkSet(local, p, cursor, cursorHash, Lowest(from))
  BY DEF ReadCursor, WalkSet
<1> HIDE DEF from
<1>5. /\ LocalStep(p) /\ local'[p].cursor = cursor /\ local'[p].ancestor = Lowest(from)
      /\ local'[p].head = local[p].head
  <2>1. local \in [Procs -> Locals] /\ cursor \in Nat /\ cursorHash \in AnyHash /\ Lowest(from) \in Nat
    BY <1>1, <1>3 DEF Types
  <2>2. LET g == WalkSet(local, p, cursor, cursorHash, Lowest(from)) IN
        /\ g \in [Procs -> Locals] /\ SameElsewhere(g, local, p)
        /\ g[p].cursor = cursor /\ g[p].ancestor = Lowest(from) /\ g[p].head = local[p].head
        /\ g[p].header = local[p].header
    BY <2>1, WalkSetFacts
  <2> QED BY <1>4, <2>2 DEF LocalStep
<1>6. CASE cursor >= Start
  <2>1. WalkAt(p, from, cursor)
    BY <1>6 DEF ReadCursor, from
  <2>2. Start - 1 < cursor
    BY <1>1, <1>6
  <2>3. /\ from >= Start => Moves(p, "walk")
        /\ from < Start => Moves(p, "rewind")
        /\ StateStep(p) /\ state'[p].synced = state[p].synced
        /\ state'[p].safeHead = state[p].safeHead
    BY <1>2, <2>1, <2>2, WalkAtDoes
  <2>4. from >= Start \/ from < Start
    BY <1>1, <1>2
  <2> QED BY <1>1, <1>2, <1>5, <1>6, <2>3, <2>4 DEF ReadCursor, StepTypes, Moves, Types, from
<1>7. CASE cursor < Start
  <2>1. EndWalk(p, cursor, cursor) /\ ~(cursor < cursor)
    BY <1>1, <1>7 DEF ReadCursor
  <2>2. /\ Moves(p, "scan") /\ StateStep(p) /\ state'[p].synced = state[p].synced
        /\ state'[p].safeHead = state[p].safeHead
    BY <2>1, EndWalkDoes
  <2>3. at[p] = "cursor" /\ UNCHANGED <<chainVars, storeVars, lock, undisturbed>>
    BY DEF ReadCursor
  <2>4. StepTypes(p) /\ at'[p] = "scan"
    BY <1>5, <2>2, <2>3 DEF StepTypes, Moves, Types
  <2>5. ~(cursor >= Start)
    BY <1>1, <1>7
  <2> QED BY <1>2, <1>5, <2>2, <2>3, <2>4, <2>5 DEF from
<1> QED BY <1>1, <1>6, <1>7

LEMMA WalkHeaderDoes ==
  ASSUME Types, WritesInRange, NEW p \in Procs, WalkHeader(p)
  PROVE  /\ at[p] = "walk" /\ UNCHANGED <<chainVars, storeVars, lock, undisturbed>>
         /\ StepTypes(p)
         /\ \/ /\ Moves(p, "compare") /\ state' = state
               /\ local[p].ancestor <= Len(chain)
               /\ local'[p].header = C!HashAt(local[p].ancestor)
               /\ local'[p].cursor = local[p].cursor /\ local'[p].ancestor = local[p].ancestor
               /\ local'[p].head = local[p].head
            \/ Moves(p, "idle") /\ ~state'[p].synced
<1>1. CASE local[p].ancestor <= Len(chain)
  <2>1. local[p].ancestor \in Nat
    BY DEF Types, Locals
  <2>2. C!HashAt(local[p].ancestor) \in AnyHash
    BY <1>1, <2>1, HashAtFacts DEF AnyHash
  <2>3. local' = HeaderSet(local, p, C!HashAt(local[p].ancestor))
    BY <1>1 DEF WalkHeader, HeaderSet
  <2>4. /\ LocalStep(p) /\ local'[p].header = C!HashAt(local[p].ancestor)
        /\ local'[p].cursor = local[p].cursor /\ local'[p].ancestor = local[p].ancestor
        /\ local'[p].head = local[p].head
    BY <2>2, <2>3, HeaderSetFacts DEF LocalStep, Types
  <2>5. Moves(p, "compare") /\ UNCHANGED <<state, undisturbed>>
    BY <1>1, GotoMoves DEF WalkHeader, Places
  <2> QED BY <1>1, <2>4, <2>5, NoStep DEF WalkHeader, StepTypes, Moves, Types
<1>2. CASE ~(local[p].ancestor <= Len(chain))
  <2>1. Abort(p)
    BY <1>2 DEF WalkHeader
  <2> QED BY <2>1, AbortDoes DEF WalkHeader, StepTypes, Moves, Types
<1> QED BY <1>1, <1>2

LEMMA WalkBlockDoes ==
  ASSUME Types, SP!IInv, WritesInRange, NEW p \in Procs, WalkBlock(p)
  PROVE  LET a == local[p].ancestor IN
         /\ at[p] = "compare" /\ UNCHANGED <<chainVars, storeVars, lock, undisturbed>>
         /\ StepTypes(p)
         /\ \/ /\ a \in DOMAIN blocks /\ SameBlock(p)
               /\ a < local[p].cursor => at'[p] = "rewind"
               /\ ~(a < local[p].cursor) => at'[p] = "scan"
               /\ local' = local
               /\ state'[p].synced = state[p].synced /\ state'[p].safeHead = state[p].safeHead
            \/ /\ a \in DOMAIN blocks /\ ~SameBlock(p)
               /\ a - 1 >= Start => at'[p] = "walk"
               /\ a - 1 < Start /\ Start - 1 < local[p].cursor => at'[p] = "rewind"
               /\ a - 1 < Start /\ ~(Start - 1 < local[p].cursor) => at'[p] = "scan"
               /\ local'[p].cursor = local[p].cursor /\ local'[p].ancestor = a - 1
               /\ local'[p].head = local[p].head
               /\ state'[p].synced = state[p].synced /\ state'[p].safeHead = state[p].safeHead
            \/ Moves(p, "idle") /\ ~state'[p].synced
<1> DEFINE a == local[p].ancestor
<1>1. a \in Nat /\ Start \in Nat \ {0} /\ a >= Start /\ local[p].cursor \in Nat
  BY IndexerAssumption DEF Types, Locals, WritesInRange, WalkBlock
<1>2. CASE a \notin DOMAIN blocks
  <2>1. Abort(p)
    BY <1>2 DEF WalkBlock
  <2> QED BY <2>1, AbortDoes DEF WalkBlock, StepTypes, Moves, Types
<1>3. CASE a \in DOMAIN blocks /\ SameBlock(p)
  <2>1. EndWalk(p, a, local[p].cursor) /\ UNCHANGED <<local, undisturbed>>
    BY <1>3 DEF WalkBlock
  <2>2. /\ a < local[p].cursor => Moves(p, "rewind")
        /\ ~(a < local[p].cursor) => Moves(p, "scan")
        /\ StateStep(p) /\ state'[p].synced = state[p].synced
        /\ state'[p].safeHead = state[p].safeHead
    BY <2>1, EndWalkDoes
  <2> QED BY <1>3, <2>1, <2>2, NoStep DEF WalkBlock, StepTypes, Moves, Types
<1>4. CASE a \in DOMAIN blocks /\ ~SameBlock(p)
  <2>1. /\ WalkAt(p, a - 1, local[p].cursor) /\ UNCHANGED undisturbed
        /\ local' = AncestorSet(local, p, Lowest(a - 1))
    BY <1>4 DEF WalkBlock, Older, AncestorSet
  <2>2. Lowest(a - 1) = a - 1 /\ a - 1 \in Nat
    BY <1>1 DEF Lowest
  <2>3. /\ LocalStep(p) /\ local'[p].cursor = local[p].cursor /\ local'[p].ancestor = a - 1
        /\ local'[p].head = local[p].head
    BY <2>1, <2>2, AncestorSetFacts DEF LocalStep, Types
  <2>4. /\ a - 1 >= Start => Moves(p, "walk")
        /\ a - 1 < Start /\ Start - 1 < local[p].cursor => Moves(p, "rewind")
        /\ a - 1 < Start /\ ~(Start - 1 < local[p].cursor) => Moves(p, "scan")
        /\ StateStep(p) /\ state'[p].synced = state[p].synced
        /\ state'[p].safeHead = state[p].safeHead
    BY <2>1, <2>2, WalkAtDoes
  <2>5. a - 1 >= Start \/ a - 1 < Start
    BY <1>1
  <2> QED BY <1>4, <2>1, <2>3, <2>4, <2>5 DEF WalkBlock, StepTypes, Moves, Types
<1> QED BY <1>2, <1>3, <1>4

\* A rewind is one that Store allows.
LEMMA RewindDoes ==
  ASSUME Types, SP!IInv, WritesInRange, NEW p \in Procs, Rewind(p)
  PROVE  /\ at[p] = "rewind" /\ UNCHANGED <<chainVars, lock, undisturbed>> /\ StepTypes(p)
         /\ \/ /\ S!Rewind(local[p].ancestor)
               /\ local[p].ancestor \in {Start - 1} \union {b.number : b \in AllBlocks}
               /\ Moves(p, "reread") /\ UNCHANGED <<local, state>>
            \/ Moves(p, "idle") /\ ~state'[p].synced /\ UNCHANGED storeVars
<1> DEFINE a == local[p].ancestor
<1>1. a \in Nat /\ Start \in Nat \ {0} /\ a >= Start - 1
  BY IndexerAssumption DEF Types, Locals, WritesInRange, Rewind
<1>2. CASE a >= Start => a \in DOMAIN blocks
  <2>1. S!Rewind(a) /\ UNCHANGED <<local, state, undisturbed>>
    BY <1>2 DEF Rewind
  <2>2. Moves(p, "reread")
    BY <1>2, GotoMoves DEF Rewind, Places
  <2>3. a \in {Start - 1} \union {b.number : b \in AllBlocks}
    <3>1. CASE a >= Start
      <4>1. PICK b \in AllBlocks : b.number = a
        BY <1>2, <3>1 DEF SP!IInv, SP!TypeOK
      <4> QED BY <4>1
    <3>2. CASE ~(a >= Start)
      BY <1>1, <3>2
    <3> QED BY <3>1, <3>2
  <2> QED BY <2>1, <2>2, <2>3, NoStep DEF Rewind, StepTypes, Moves, Types
<1>3. CASE ~(a >= Start => a \in DOMAIN blocks)
  <2>1. Abort(p) /\ UNCHANGED storeVars
    BY <1>3 DEF Rewind
  <2> QED BY <2>1, AbortDoes DEF Rewind, StepTypes, Moves, Types
<1> QED BY <1>2, <1>3

LEMMA RereadCursorDoes ==
  ASSUME Types, SP!IInv, NEW p \in Procs, RereadCursor(p)
  PROVE  /\ at[p] = "reread" /\ UNCHANGED <<chainVars, storeVars, lock, undisturbed>>
         /\ StepTypes(p) /\ Moves(p, "scan") /\ local'[p].cursor = cursor
         /\ state'[p].synced = state[p].synced
<1>1. cursor \in Nat /\ cursorHash \in AnyHash
  BY TableFacts DEF AnyHash
<1>2. local' = CursorSet(local, p, cursor, cursorHash)
  BY DEF RereadCursor, CursorSet
<1>3. LocalStep(p) /\ local'[p].cursor = cursor
  BY <1>1, <1>2, CursorSetFacts DEF LocalStep, Types
<1>4. PICK b \in BOOLEAN : b = FALSE
  OBVIOUS
<1>5. state' = RecoveringSet(state, p, b)
  BY <1>4 DEF RereadCursor, RecoveringSet
<1>6. StateStep(p) /\ state'[p].synced = state[p].synced
  BY <1>5, RecoveringSetFacts DEF StateStep, Types
<1>7. Moves(p, "scan")
  BY GotoMoves DEF RereadCursor, Places
<1> QED BY <1>3, <1>6, <1>7 DEF RereadCursor, StepTypes, Moves, Types

LEMMA ScanHeaderDoes ==
  ASSUME Types, NEW p \in Procs, ScanHeader(p)
  PROVE  /\ at[p] = "scan" /\ UNCHANGED <<chainVars, storeVars, lock, undisturbed>>
         /\ StepTypes(p)
         /\ \/ /\ Moves(p, "recheck") /\ state' = state
               /\ local[p].cursor + 1 <= Len(chain)
               /\ local'[p].header = C!HashAt(local[p].cursor + 1)
               /\ local'[p].cursor = local[p].cursor
            \/ Moves(p, "idle") /\ ~state'[p].synced
<1> DEFINE next == local[p].cursor + 1
           exists == next <= Len(chain) /\ (local[p].hash # NoHash => C!HashAt(next - 1) = local[p].hash)
<1>1. CASE exists
  <2>1. next \in Nat /\ next <= Len(chain)
    BY <1>1 DEF Types, Locals
  <2>2. C!HashAt(next) \in AnyHash
    BY <2>1, HashAtFacts DEF AnyHash
  <2>3. local' = HeaderSet(local, p, C!HashAt(next))
    BY <1>1 DEF ScanHeader, HeaderSet
  <2>4. /\ LocalStep(p) /\ local'[p].header = C!HashAt(next) /\ local'[p].cursor = local[p].cursor
    BY <2>2, <2>3, HeaderSetFacts DEF LocalStep, Types
  <2>5. Moves(p, "recheck") /\ UNCHANGED <<state, undisturbed>>
    BY <1>1, GotoMoves DEF ScanHeader, Places
  <2> QED BY <2>1, <2>4, <2>5, NoStep DEF ScanHeader, StepTypes, Moves, Types
<1>2. CASE ~exists
  <2>1. Abort(p)
    BY <1>2 DEF ScanHeader
  <2> QED BY <2>1, AbortDoes DEF ScanHeader, StepTypes, Moves, Types
<1> QED BY <1>1, <1>2

LEMMA RecheckDoes ==
  ASSUME Types, NEW p \in Procs, Recheck(p)
  PROVE  /\ at[p] = "recheck" /\ UNCHANGED <<chainVars, storeVars, lock, undisturbed>>
         /\ StepTypes(p)
         /\ \/ Moves(p, "commit") /\ UNCHANGED <<local, state>>
            \/ Moves(p, "idle") /\ ~state'[p].synced
<1>1. (Moves(p, "commit") /\ UNCHANGED <<local, state, undisturbed>>) \/ Abort(p)
  BY GotoMoves DEF Recheck, Places
<1> QED BY <1>1, AbortDoes, NoStep DEF Recheck, StepTypes, Moves, Types

LEMMA CommitBlockDoes ==
  ASSUME Types, WritesInRange, NEW p \in Procs, CommitBlock(p)
  PROVE  LET block == C!BlockOf(local[p].header) IN
         /\ at[p] = "commit" /\ UNCHANGED <<chainVars, lock, undisturbed>> /\ StepTypes(p)
         /\ block \in AllBlocks /\ block.number = local[p].cursor + 1
         /\ block.hash = local[p].header
         /\ \/ /\ Moves(p, "scan") /\ state' = state /\ local'[p].cursor = local[p].cursor + 1
               /\ \/ S!CommitBlock(block, block.logs)
                  \/ ~S!Extends(block) /\ S!CommitAgain(block)
            \/ Moves(p, "idle") /\ ~state'[p].synced /\ UNCHANGED storeVars
<1> DEFINE hash == local[p].header
           block == C!BlockOf(hash)
<1>1. /\ hash \in Hash /\ Len(hash) = local[p].cursor + 1 /\ Len(hash) <= MaxHeight
      /\ local[p].cursor \in Nat /\ local[p].processed \in Nat /\ local[p].cursor >= Start - 1
  BY DEF WritesInRange, CommitBlock, Types, Locals
<1>2. Start \in Nat \ {0} /\ Len(hash) >= Start
  BY <1>1, IndexerAssumption
<1>3. hash \in BlockHashes /\ block \in AllBlocks
  BY <1>1, <1>2, BlockHash
<1>4. block.number = local[p].cursor + 1 /\ block.hash = hash
  BY <1>1, <1>3, BlockFields
<1>5. at[p] = "commit" /\ UNCHANGED <<chainVars, lock>>
  BY DEF CommitBlock
<1>6. CASE S!Extends(block) \/ S!CommittedBefore(block)
  <2>1. /\ S!CommitBlock(block, block.logs) \/ (~S!Extends(block) /\ S!CommitAgain(block))
        /\ Goto(p, "scan") /\ UNCHANGED <<state, undisturbed>>
        /\ local' = BlockSet(local, p, block.number, block.hash, local[p].processed + 1)
    BY <1>6 DEF CommitBlock, BlockSet
  <2>2. Moves(p, "scan")
    BY <2>1, GotoMoves DEF Places
  <2>3. PICK n \in Nat, h \in AnyHash, m \in Nat :
          n = block.number /\ h = block.hash /\ m = local[p].processed + 1
    BY <1>1, <1>4 DEF AnyHash
  <2>4. local' = BlockSet(local, p, n, h, m) /\ local \in [Procs -> Locals]
    BY <2>1, <2>3 DEF Types
  <2>5. LocalStep(p) /\ local'[p].cursor = n
    BY <2>4, BlockSetFacts DEF LocalStep
  <2> QED BY <1>3, <1>4, <1>5, <2>1, <2>2, <2>3, <2>5, NoStep DEF StepTypes, Moves, Types
<1>7. CASE ~(S!Extends(block) \/ S!CommittedBefore(block))
  <2>1. Abort(p) /\ UNCHANGED storeVars
    BY <1>7 DEF CommitBlock
  <2> QED BY <1>3, <1>4, <1>5, <2>1, AbortDoes DEF StepTypes, Moves, Types
<1> QED BY <1>6, <1>7

LEMMA FinishPassDoes ==
  ASSUME Types, NEW p \in Procs, FinishPass(p)
  PROVE  /\ at[p] = "scan" /\ UNCHANGED <<chainVars, storeVars, lock, undisturbed>>
         /\ StepTypes(p) /\ Moves(p, "idle")
         /\ state'[p].safeHead = state[p].safeHead
         /\ state'[p].synced => ReachedSafeHead(p)
<1>1. LocalStep(p)
  BY ClearFacts DEF FinishPass, LocalStep, Types
<1>2. PICK b \in BOOLEAN : b = ReachedSafeHead(p)
  <2>1. local[p].cursor \in Nat /\ state[p].safeHead \in Int
    BY DEF Types, Locals, States
  <2>2. (local[p].cursor >= state[p].safeHead) \in BOOLEAN
    BY <2>1
  <2> QED BY <2>2 DEF ReachedSafeHead
<1>3. state' = SyncedSet(state, p, b)
  BY <1>2 DEF FinishPass, SyncedSet
<1>4. StateStep(p) /\ state'[p].synced = b /\ state'[p].safeHead = state[p].safeHead
  BY <1>3, SyncedSetFacts DEF StateStep, Types
<1>5. Moves(p, "idle")
  BY GotoMoves DEF FinishPass, Places
<1> QED BY <1>1, <1>2, <1>4, <1>5 DEF FinishPass, StepTypes, Moves, Types

\* The other steps of a process.
LEMMA LaunchDoes ==
  ASSUME Types, NEW p \in Procs, Launch(p)
  PROVE  /\ at[p] = "stopped" /\ lock = Nobody /\ lock' = p
         /\ UNCHANGED <<chainVars, storeVars, local, state, undisturbed>>
         /\ StepTypes(p) /\ Moves(p, "idle")
<1>1. Moves(p, "idle")
  BY GotoMoves DEF Launch, Places
<1> QED BY <1>1, NoStep DEF Launch, StepTypes, Moves, Types

LEMMA FaultDoes ==
  ASSUME Types, NEW p \in Procs, Fault(p)
  PROVE  /\ at[p] \notin {"stopped", "idle"} /\ UNCHANGED <<chainVars, storeVars, lock, undisturbed>>
         /\ StepTypes(p) /\ Moves(p, "idle") /\ ~state'[p].synced
BY AbortDoes DEF Fault, StepTypes, Moves, Types

LEMMA CrashDoes ==
  ASSUME Types, NEW p \in Procs, Crash(p)
  PROVE  /\ at[p] # "stopped" /\ UNCHANGED <<chainVars, storeVars>>
         /\ lock' = IF lock = p THEN Nobody ELSE lock
         /\ StepTypes(p) /\ Moves(p, "stopped") /\ ~state'[p].synced
         /\ SameElsewhere(undisturbed', undisturbed, p)
<1>1. Moves(p, "stopped")
  BY GotoMoves DEF Crash, Places
<1>2. LocalStep(p)
  BY ClearFacts DEF Crash, LocalStep, Types
<1>3. StateStep(p) /\ state'[p].synced = FALSE
  BY StateClearFacts DEF Crash, StateStep, Types
<1>4. undisturbed' \in [Procs -> BOOLEAN] /\ SameElsewhere(undisturbed', undisturbed, p)
  BY DEF Crash, Types, SameElsewhere
<1> QED BY <1>1, <1>2, <1>3, <1>4 DEF Crash, StepTypes, Moves

\* The chain grows by a block, or loses its last ones.
LEMMA ChainStepDoes ==
  ASSUME Types, ChainStep
  PROVE  /\ UNCHANGED <<storeVars, lock, at, local, state>>
         /\ chain' \in Hash /\ Len(chain') <= MaxHeight
         /\ undisturbed' \in [Procs -> BOOLEAN]
         /\ \/ /\ UNCHANGED undisturbed /\ Len(chain) <= Len(chain')
               /\ \A n \in Nat : n <= Len(chain) => (C!HashAt(n))' = C!HashAt(n)
            \/ \A p \in Procs : ~undisturbed'[p]
<1>0. chain \in Seq(Payloads) /\ Len(chain) \in Nat /\ Len(chain) <= MaxHeight /\ MaxHeight \in Nat
  BY IndexerAssumption DEF Types, Hash
<1>1. UNCHANGED <<storeVars, lock, at, local, state>>
  BY DEF ChainStep
<1>2. ASSUME NEW payload \in Payloads, C!Extend(payload), UNCHANGED undisturbed
      PROVE  /\ chain' \in Hash /\ Len(chain') <= MaxHeight /\ Len(chain) <= Len(chain')
             /\ \A n \in Nat : n <= Len(chain) => (C!HashAt(n))' = C!HashAt(n)
  <2>1. chain' = Append(chain, payload) /\ Len(chain) < MaxHeight
    BY <1>2 DEF C!Extend
  <2>2. /\ chain' \in Seq(Payloads) /\ Len(chain') = Len(chain) + 1
        /\ \A i \in 1..Len(chain) : chain'[i] = chain[i]
    BY <1>0, <2>1, AppendProperties
  <2>3. ASSUME NEW n \in Nat, n <= Len(chain)
        PROVE  SubSeq(chain', 1, n) = SubSeq(chain, 1, n)
    <3>1. /\ \A i \in 1..n : chain[i] \in Payloads
          /\ \A i \in 1..n : chain'[i] \in Payloads
      BY <1>0, <2>2, <2>3
    <3>2. \A i \in 1..n : chain'[i] = chain[i]
      BY <1>0, <2>2, <2>3
    <3>3. SubSeq(chain', 1, n) = [i \in 1..n |-> chain'[i]]
      BY <1>0, <2>2, <2>3
    <3>4. SubSeq(chain, 1, n) = [i \in 1..n |-> chain[i]]
      BY <1>0, <2>3
    <3> QED BY <3>2, <3>3, <3>4
  <2> QED BY <1>0, <2>1, <2>2, <2>3 DEF Hash, C!HashAt
<1>3. ASSUME NEW length \in 0..MaxHeight, C!Reorg(length), undisturbed' = [p \in Procs |-> FALSE]
      PROVE  chain' \in Hash /\ Len(chain') <= MaxHeight /\ \A p \in Procs : ~undisturbed'[p]
  <2>1. length \in Nat /\ length < Len(chain) /\ chain' = SubSeq(chain, 1, length)
    BY <1>0, <1>3 DEF C!Reorg
  <2>2. C!HashAt(length) \in Hash /\ Len(C!HashAt(length)) = length
    BY <1>0, <2>1, HashAtFacts
  <2>3. \A p \in Procs : undisturbed'[p] = FALSE
    BY <1>3
  <2> QED BY <1>0, <2>1, <2>2, <2>3 DEF C!HashAt
<1>4. undisturbed' \in [Procs -> BOOLEAN]
  BY DEF ChainStep, Types
<1> QED BY <1>1, <1>2, <1>3, <1>4 DEF ChainStep

\* A step of the indexer writes the tables as a writer of Store does.
LEMMA TablesStep ==
  ASSUME WriterInv, [Next]_vars
  PROVE  [S!Next]_(S!vars)
<1>1. ASSUME UNCHANGED storeVars PROVE UNCHANGED S!vars
  BY <1>1 DEF storeVars, S!vars
<1>2. Types /\ SP!IInv /\ WritesInRange
  BY DEF WriterInv
<1>3. ASSUME NEW p \in Procs, Rewind(p) PROVE [S!Next]_(S!vars)
  BY <1>1, <1>2, <1>3, RewindDoes DEF S!Next
<1>4. ASSUME NEW p \in Procs, CommitBlock(p) PROVE [S!Next]_(S!vars)
  <2> DEFINE block == C!BlockOf(local[p].header)
  <2>1. block \in AllBlocks /\ (S!CommitBlock(block, block.logs) \/ S!CommitAgain(block)
                                \/ UNCHANGED storeVars)
    BY <1>2, <1>4, CommitBlockDoes
  <2>2. block.logs \in S!Deliveries(block.logs)
    BY DEF S!Deliveries
  <2> HIDE DEF block
  <2> QED BY <1>1, <2>1, <2>2 DEF S!Next
<1>5. CASE UNCHANGED vars
  BY <1>1, <1>5 DEF vars
<1>6. ASSUME NEW p \in Procs, Sync(p) PROVE [S!Next]_(S!vars)
  <2>1. Rewind(p) \/ CommitBlock(p) \/ UNCHANGED storeVars
    BY <1>6 DEF Sync, CheckLock, ReadHead, ReadCursor, WalkHeader, WalkBlock, RereadCursor,
       ScanHeader, Recheck, FinishPass
  <2> QED BY <1>1, <1>3, <1>4, <2>1
<1>7. ASSUME NEW p \in Procs, Launch(p) \/ Fault(p) \/ Crash(p) PROVE UNCHANGED storeVars
  BY <1>7 DEF Launch, Fault, Crash
<1>8. LoseLock \/ ChainStep => UNCHANGED storeVars
  BY DEF LoseLock, ChainStep
<1> QED BY <1>1, <1>5, <1>6, <1>7, <1>8 DEF Next

LEMMA InitWriterInv == Init => WriterInv
<1> SUFFICES ASSUME Init PROVE WriterInv
  OBVIOUS
<1>1. SP!IInv
  BY ChainBlocks, SameStoreInit, SP!InitIInv DEF Init
<1>2. NoLocals \in Locals /\ NoState \in States
  BY DEF NoLocals, NoState, Locals, States, AnyHash
<1>3. Types
  BY <1>2, IndexerAssumption DEF Init, Types, C!Init, Hash, Places
<1>4. WritesInRange
  BY DEF Init, WritesInRange
<1> QED BY <1>1, <1>3, <1>4 DEF WriterInv

\* Every step of Sync keeps what will be written in range.
LEMMA SyncWrites ==
  ASSUME WriterInv, NEW p \in Procs, Sync(p)
  PROVE  StepTypes(p) /\ UNCHANGED chain /\ WritesInRange'
<1>1. Types /\ SP!IInv /\ WritesInRange
  BY DEF WriterInv
<1>2. /\ Start \in Nat \ {0} /\ cursor \in Nat /\ cursor >= Start - 1
  BY <1>1, TableFacts
<1>3. /\ at[p] \in {"walk", "compare", "rewind", "scan", "recheck", "commit"} => local[p].cursor >= Start - 1
      /\ at[p] \in {"walk", "compare"} => local[p].ancestor >= Start
      /\ at[p] = "rewind" => local[p].ancestor >= Start - 1
      /\ at[p] \in {"recheck", "commit"} =>
           /\ local[p].header \in Hash
           /\ Len(local[p].header) = local[p].cursor + 1
           /\ Len(local[p].header) <= MaxHeight
  BY <1>1 DEF WritesInRange
<1>4. local[p].cursor \in Nat /\ local[p].ancestor \in Nat /\ local[p].head \in Nat
  BY <1>1 DEF Types, Locals
<1>5. Len(chain) \in Nat /\ Len(chain) <= MaxHeight /\ MaxHeight \in Nat
  BY <1>1, IndexerAssumption DEF Types, Hash
<1> DEFINE After ==
      /\ at'[p] \in {"walk", "compare", "rewind", "scan", "recheck", "commit"} =>
           local'[p].cursor >= Start - 1
      /\ at'[p] \in {"walk", "compare"} => local'[p].ancestor >= Start
      /\ at'[p] = "rewind" => local'[p].ancestor >= Start - 1
      /\ at'[p] \in {"recheck", "commit"} =>
           /\ local'[p].header \in Hash
           /\ Len(local'[p].header) = local'[p].cursor + 1
           /\ Len(local'[p].header) <= MaxHeight
<1> SUFFICES StepTypes(p) /\ UNCHANGED chain /\ After
  BY <1>1, OthersInRange DEF StepTypes
<1>6. CASE CheckLock(p)
  BY <1>1, <1>6, CheckLockDoes DEF Moves, chainVars
<1>7. CASE ReadHead(p)
  BY <1>1, <1>7, ReadHeadDoes DEF Moves, chainVars
<1>8. CASE ReadCursor(p)
  <2> DEFINE from == WalkFrom(local[p].head, cursor)
  <2>1. /\ UNCHANGED chain /\ StepTypes(p)
        /\ local'[p].cursor = cursor /\ local'[p].ancestor = Lowest(from)
        /\ from \in Int
        /\ cursor < Start => at'[p] = "scan"
        /\ cursor >= Start => /\ from >= Start => at'[p] = "walk"
                              /\ from < Start => at'[p] = "rewind"
    BY <1>1, <1>8, ReadCursorDoes DEF chainVars
  <2> HIDE DEF from
  <2>2. Lowest(from) >= Start - 1 /\ (from >= Start => Lowest(from) >= Start)
    BY <1>2, <2>1 DEF Lowest
  <2>3. (at'[p] \in {"scan", "rewind"}) \/ (from >= Start /\ at'[p] = "walk")
    BY <1>2, <2>1
  <2> QED BY <1>2, <2>1, <2>2, <2>3
<1>9. CASE WalkHeader(p)
  <2>1. /\ UNCHANGED chain /\ StepTypes(p) /\ at[p] = "walk"
        /\ \/ /\ at'[p] = "compare" /\ local'[p].cursor = local[p].cursor
              /\ local'[p].ancestor = local[p].ancestor
           \/ at'[p] = "idle"
    BY <1>1, <1>9, WalkHeaderDoes DEF Moves, chainVars
  <2> QED BY <1>3, <2>1
<1>10. CASE WalkBlock(p)
  <2> DEFINE a == local[p].ancestor
  <2>1. /\ UNCHANGED chain /\ StepTypes(p) /\ at[p] = "compare"
        /\ \/ at'[p] \in {"rewind", "scan"} /\ local' = local
           \/ /\ local'[p].cursor = local[p].cursor /\ local'[p].ancestor = a - 1
              /\ (at'[p] \in {"rewind", "scan"}) \/ (at'[p] = "walk" /\ a - 1 >= Start)
           \/ at'[p] = "idle"
    BY <1>1, <1>2, <1>4, <1>10, WalkBlockDoes DEF Moves, chainVars
  <2> QED BY <1>2, <1>3, <1>4, <2>1
<1>11. CASE Rewind(p)
  <2>1. /\ UNCHANGED chain /\ StepTypes(p) /\ at'[p] \in {"reread", "idle"}
    BY <1>1, <1>11, RewindDoes DEF Moves, chainVars
  <2> QED BY <2>1
<1>12. CASE RereadCursor(p)
  BY <1>1, <1>2, <1>12, RereadCursorDoes DEF Moves, chainVars
<1>13. CASE ScanHeader(p)
  <2>1. /\ UNCHANGED chain /\ StepTypes(p) /\ at[p] = "scan"
        /\ \/ /\ at'[p] = "recheck" /\ local'[p].cursor = local[p].cursor
              /\ local[p].cursor + 1 <= Len(chain)
              /\ local'[p].header = C!HashAt(local[p].cursor + 1)
           \/ at'[p] = "idle"
    BY <1>1, <1>13, ScanHeaderDoes DEF Moves, chainVars
  <2>2. local[p].cursor + 1 <= Len(chain) =>
          /\ C!HashAt(local[p].cursor + 1) \in Hash
          /\ Len(C!HashAt(local[p].cursor + 1)) = local[p].cursor + 1
    BY <1>1, <1>4, HashAtFacts
  <2> QED BY <1>3, <1>4, <1>5, <2>1, <2>2
<1>14. CASE Recheck(p)
  <2>1. /\ UNCHANGED chain /\ StepTypes(p) /\ at[p] = "recheck"
        /\ (at'[p] = "commit" /\ local' = local) \/ at'[p] = "idle"
    BY <1>1, <1>14, RecheckDoes DEF Moves, chainVars
  <2> QED BY <1>3, <2>1
<1>15. CASE CommitBlock(p)
  <2>1. /\ UNCHANGED chain /\ StepTypes(p) /\ at[p] = "commit"
        /\ (at'[p] = "scan" /\ local'[p].cursor = local[p].cursor + 1) \/ at'[p] = "idle"
    BY <1>1, <1>15, CommitBlockDoes DEF Moves, chainVars
  <2> QED BY <1>2, <1>3, <1>4, <2>1
<1>16. CASE FinishPass(p)
  BY <1>1, <1>16, FinishPassDoes DEF Moves, chainVars
<1> QED BY <1>6, <1>7, <1>8, <1>9, <1>10, <1>11, <1>12, <1>13, <1>14, <1>15, <1>16 DEF Sync

LEMMA StopWrites ==
  ASSUME WriterInv, NEW p \in Procs, Launch(p) \/ Fault(p) \/ Crash(p)
  PROVE  StepTypes(p) /\ UNCHANGED chain /\ WritesInRange'
<1>1. Types /\ WritesInRange
  BY DEF WriterInv
<1>2. StepTypes(p) /\ UNCHANGED chain /\ at'[p] \in {"idle", "stopped"}
  BY <1>1, LaunchDoes, FaultDoes, CrashDoes DEF Moves, chainVars
<1> QED BY <1>1, <1>2, OthersInRange DEF StepTypes

LEMMA NextWriterInv == WriterInv /\ [Next]_vars => WriterInv'
<1> SUFFICES ASSUME WriterInv, [Next]_vars PROVE WriterInv'
  OBVIOUS
<1>1. SP!IInv'
  <2>1. [SP!Next]_(SP!vars)
    BY TablesStep, SameStoreStep
  <2> QED BY <2>1, ChainBlocks, SP!NextIInv DEF WriterInv
<1>2. ASSUME NEW p \in Procs, StepTypes(p), UNCHANGED chain PROVE Types'
  BY <1>2 DEF WriterInv, Types, StepTypes, LocalStep, StateStep
<1>3. ASSUME NEW p \in Procs, Sync(p) \/ Launch(p) \/ Fault(p) \/ Crash(p)
      PROVE  Types' /\ WritesInRange'
  BY <1>2, <1>3, SyncWrites, StopWrites
<1>4. ASSUME at' = at, local' = local, state' = state, chain' \in Hash, Len(chain') <= MaxHeight,
             undisturbed' \in [Procs -> BOOLEAN]
      PROVE  WriterInv'
  <2>1. Types'
    BY <1>4 DEF WriterInv, Types
  <2>2. at' = at /\ local' = local /\ WritesInRange
    BY <1>4 DEF WriterInv
  <2>3. WritesInRange'
    BY <2>2 DEF WritesInRange
  <2> QED BY <1>1, <2>1, <2>3 DEF WriterInv
<1>5. CASE ChainStep
  <2>1. /\ at' = at /\ local' = local /\ state' = state /\ chain' \in Hash /\ Len(chain') <= MaxHeight
        /\ undisturbed' \in [Procs -> BOOLEAN]
    BY <1>5, ChainStepDoes DEF WriterInv
  <2> QED BY <1>4, <2>1
<1>6. CASE LoseLock \/ UNCHANGED vars
  <2>1. at' = at /\ local' = local /\ state' = state /\ chain' = chain /\ undisturbed' = undisturbed
    BY <1>6 DEF LoseLock, vars, chainVars
  <2>2. chain' \in Hash /\ Len(chain') <= MaxHeight /\ undisturbed' \in [Procs -> BOOLEAN]
    BY <2>1 DEF WriterInv, Types
  <2> QED BY <1>4, <2>1, <2>2
<1> QED BY <1>1, <1>3, <1>5, <1>6 DEF Next, WriterInv

\* However many processes run Sync, and whoever of them holds the lock, the
\* indexer implements Store: each of its steps commits a block of the chain,
\* commits one again, rewinds to a stored block, or leaves the tables alone.
THEOREM IndexerIsAWriter == Init /\ [][Next]_vars => S!Spec
<1>1. Init => S!Init
  BY DEF Init
<1> QED BY <1>1, InitWriterInv, NextWriterInv, TablesStep, PTL DEF S!Spec

\* The tables that the processes write hold one parent-linked chain of blocks
\* and the events of those blocks, with any number of processes.
THEOREM ProcessesKeepOneHistory == Spec => []S!OneHistory
<1>1. WriterInv => S!OneHistory
  BY SameHistory DEF WriterInv
<1> QED BY <1>1, InitWriterInv, NextWriterInv, PTL DEF Spec

\* The projections that the processes keep are the replay of the events table,
\* although a process may die between two passes, or rewind what another one
\* has committed.
THEOREM ProcessesKeepProjections == Spec => []S!ProjectionIsReplay
<1>1. Init => SP!Projected
  BY ChainBlocks, SP!NoRows DEF Init, S!Init, SP!Projected
<1>2. WriterInv /\ SP!Projected /\ [Next]_vars => SP!Projected'
  BY TablesStep, SameStoreStep, ChainBlocks, SP!ProjectedKept DEF WriterInv
<1>3. SP!Projected => S!ProjectionIsReplay
  <2> SUFFICES ASSUME SP!Projected PROVE S!ProjectionIsReplay
    OBVIOUS
  <2>1. SP!Replay(events) = draws
    BY ChainBlocks, SP!ReplayIs DEF SP!Projected
  <2>2. S!Replay(events) = SP!Replay(events)
    BY Zenon DEF S!Replay, SP!Replay, S!Before, SP!Before, S!Cardinality, SP!Cardinality
  <2> QED BY <2>1, <2>2 DEF S!ProjectionIsReplay
<1> QED BY <1>1, <1>2, <1>3, InitWriterInv, NextWriterInv, PTL DEF Spec

-----------------------------------------------------------------------------
(* What a pass removes and what it claims, while at most one process runs   *)

\* Only a lock whose connection dies lets two processes run at a time.
Undisputed == LocksDie => \A p, q \in Procs : p = q

OneRunning == \A p, q \in Procs : at[p] # "stopped" /\ at[q] # "stopped" => p = q

RunsWithLock == ~LocksDie => \A p \in Procs : at[p] # "stopped" <=> lock = p

\* The synced flag is down from the head's reading to the end of the pass.
StoppedIsSilent == \A p \in Procs : state[p].synced => at[p] \in {"idle", "head"}

\* The hash of a stored block contains those of the blocks below it.
PastInHash ==
  \A m, n \in DOMAIN blocks : m <= n => \A i \in 1..m : blocks[m].hash[i] = blocks[n].hash[i]

\* A pass works on the cursor that is in the tables.  Here, and below: a process
\* at place with the variables l and the shown state s; u tells whether the chain
\* has only grown since it read the head.
CursorIsLocal(place, l) ==
  place \in {"walk", "compare", "rewind", "scan", "recheck", "commit"} => l.cursor = cursor

HeadIsBelow(place, l) ==
  place \in {"cursor", "walk", "compare", "rewind"} => l.head <= Len(chain)

OrphanAbove(l) == l.ancestor + 1 > l.head \/ ~Canonical(l.ancestor + 1)

\* The walk goes down from the cursor or the head, past orphans only.
WalkInOrder(place, l, u) ==
  /\ place \in {"walk", "compare"} =>
       /\ l.ancestor <= cursor /\ l.ancestor <= l.head
       /\ u /\ l.ancestor < cursor => OrphanAbove(l)
  /\ place = "compare" /\ u => l.header = C!HashAt(l.ancestor)
  /\ place = "rewind" =>
       /\ l.ancestor < cursor
       /\ u => (\A n \in Start..l.ancestor : Canonical(n)) /\ OrphanAbove(l)

\* The scan starts from canonical blocks and adds canonical blocks.
ScanInOrder(place, l, s) ==
  /\ place \in {"reread", "scan", "recheck", "commit"} => StoredIsCanonical
  /\ place \in {"recheck", "commit"} =>
       l.cursor < Len(chain) /\ l.header = C!HashAt(l.cursor + 1)
  /\ s.synced => StoredIsCanonical /\ cursor >= s.safeHead

PassAt(place, l, s, u) ==
  /\ CursorIsLocal(place, l) /\ WalkInOrder(place, l, u)
  /\ u => HeadIsBelow(place, l) /\ ScanInOrder(place, l, s)

PassOf(p) == PassAt(at[p], local[p], state[p], undisturbed[p])

PassInv ==
  /\ WriterInv /\ PastInHash /\ OneRunning /\ RunsWithLock /\ StoppedIsSilent
  /\ \A p \in Procs : PassOf(p)

LEMMA PassSound == PassInv => PassesAreSound
<1> SUFFICES ASSUME PassInv PROVE PassesAreSound
  OBVIOUS
<1>1. SyncedMeansCanonical
  BY DEF PassInv, PassOf, PassAt, ScanInOrder, SyncedMeansCanonical
<1>2. RemovesExactlyOrphans
  BY DEF PassInv, PassOf, PassAt, WalkInOrder, OrphanAbove, RemovesExactlyOrphans
<1> QED BY <1>1, <1>2 DEF PassesAreSound

\* Two hashes of the same height that agree everywhere are the same hash.
LEMMA SameHash ==
  ASSUME NEW n \in Nat, NEW g \in Hash, NEW h \in Hash, Len(g) = n, Len(h) = n,
         \A i \in 1..n : g[i] = h[i]
  PROVE  g = h
BY DEF Hash

\* Below a canonical block all blocks are canonical.
LEMMA CanonicalBelow ==
  ASSUME SP!IInv, Types, PastInHash, NEW a \in DOMAIN blocks, Canonical(a)
  PROVE  \A n \in Start..a : n \in DOMAIN blocks /\ Canonical(n)
<1> SUFFICES ASSUME NEW n \in Start..a PROVE n \in DOMAIN blocks /\ Canonical(n)
  OBVIOUS
<1>1. /\ Start \in Nat \ {0} /\ cursor \in Nat /\ DOMAIN blocks = Start..cursor
      /\ \A m \in DOMAIN blocks : blocks[m].hash \in Hash /\ Len(blocks[m].hash) = m
  BY TableFacts
<1>2. n \in DOMAIN blocks /\ n \in Nat /\ a \in Nat /\ n <= a
  BY <1>1
<1>3. Len(chain) \in Nat /\ a <= Len(chain) /\ blocks[a].hash = C!HashAt(a)
  BY DEF Canonical, Types, Hash
<1>4. n <= Len(chain)
  BY <1>2, <1>3
<1>5. /\ \A i \in 1..a : blocks[a].hash[i] = chain[i]
      /\ C!HashAt(n) \in Hash /\ Len(C!HashAt(n)) = n
      /\ \A i \in 1..n : C!HashAt(n)[i] = chain[i]
  BY <1>2, <1>3, <1>4, HashAtFacts
<1>6. \A i \in 1..n : blocks[n].hash[i] = blocks[a].hash[i]
  BY <1>2 DEF PastInHash
<1>7. \A i \in 1..n : i \in 1..a
  BY <1>2
<1>8. \A i \in 1..n : blocks[n].hash[i] = C!HashAt(n)[i]
  BY <1>5, <1>6, <1>7
<1>9. blocks[n].hash = C!HashAt(n)
  BY <1>1, <1>2, <1>5, <1>8, SameHash
<1> QED BY <1>2, <1>4, <1>9 DEF Canonical

\* A block is committed on top of its parent, so it contains the past.
LEMMA PastKept ==
  ASSUME SP!IInv, PastInHash, [S!Next]_(S!vars)
  PROVE  PastInHash'
<1>1. /\ Start \in Nat \ {0} /\ cursor \in Nat /\ cursor >= Start - 1
      /\ DOMAIN blocks = Start..cursor
      /\ cursorHash = IF cursor >= Start THEN blocks[cursor].hash ELSE NoHash
      /\ \A n \in DOMAIN blocks : blocks[n].hash \in Hash /\ Len(blocks[n].hash) = n
  BY TableFacts
<1>2. ASSUME NEW b \in AllBlocks, NEW logs, S!CommitBlock(b, logs) PROVE PastInHash'
  <2>1. PICK hash \in BlockHashes : b = C!BlockOf(hash)
    BY ABlock
  <2>2. /\ b.number = Len(hash) /\ b.hash = hash /\ b.parent = SubSeq(hash, 1, Len(hash) - 1)
        /\ hash \in Hash /\ Len(hash) \in Nat
    BY <2>1, BlockFields, HashOfBlock
  <2>3. /\ Len(hash) = cursor + 1 /\ (cursorHash # NoHash => cursorHash = b.parent)
        /\ DOMAIN blocks' = DOMAIN blocks \union {cursor + 1}
        /\ blocks'[cursor + 1].hash = hash
        /\ \A n \in DOMAIN blocks : blocks'[n] = blocks[n]
    <3>1. b.number = cursor + 1 /\ (cursorHash # NoHash => cursorHash = b.parent)
      BY <1>2 DEF S!CommitBlock, S!Extends
    <3>2. cursor + 1 \notin DOMAIN blocks
      BY <1>1
    <3>3. blocks' = [n \in DOMAIN blocks \union {cursor + 1} |->
                       IF n = cursor + 1 THEN [hash |-> b.hash, parent |-> b.parent] ELSE blocks[n]]
      BY <1>2, <3>1 DEF S!CommitBlock
    <3> QED BY <2>2, <3>1, <3>2, <3>3
  <2>4. ASSUME NEW m \in DOMAIN blocks, NEW i \in 1..m
        PROVE  blocks[m].hash[i] = hash[i]
    <3>1. cursor >= Start /\ m \in Nat /\ m <= cursor /\ cursor \in DOMAIN blocks
      BY <1>1
    <3>2. cursorHash = blocks[cursor].hash /\ cursorHash # NoHash
      BY <1>1, <3>1, IndexerAssumption DEF Hash
    <3>3. blocks[cursor].hash = SubSeq(hash, 1, cursor)
      BY <1>1, <2>2, <2>3, <3>2
    <3>4. hash \in Seq(Payloads) /\ i \in 1..cursor /\ cursor <= Len(hash)
      BY <1>1, <2>2, <2>3, <3>1 DEF Hash
    <3>5. SubSeq(hash, 1, cursor)[i] = hash[i]
      BY <1>1, <3>4
    <3>6. blocks[m].hash[i] = blocks[cursor].hash[i]
      BY <3>1 DEF PastInHash
    <3> QED BY <3>3, <3>5, <3>6
  <2>5. ASSUME NEW m \in DOMAIN blocks', NEW n \in DOMAIN blocks', m <= n, NEW i \in 1..m
        PROVE  blocks'[m].hash[i] = blocks'[n].hash[i]
    <3>1. CASE n \in DOMAIN blocks
      <4>1. m \in DOMAIN blocks
        BY <1>1, <2>3, <2>5, <3>1
      <4> QED BY <2>3, <2>5, <3>1, <4>1 DEF PastInHash
    <3>2. CASE n = cursor + 1 /\ m \in DOMAIN blocks
      BY <2>3, <2>4, <2>5, <3>2
    <3>3. CASE n = cursor + 1 /\ m = cursor + 1
      BY <3>3
    <3> QED BY <2>3, <3>1, <3>2, <3>3
  <2> QED BY <2>5 DEF PastInHash
<1>3. ASSUME NEW a, S!Rewind(a) PROVE PastInHash'
  <2>1. DOMAIN blocks' \subseteq DOMAIN blocks /\ \A n \in DOMAIN blocks' : blocks'[n] = blocks[n]
    BY <1>3 DEF S!Rewind, S!RetainedHeaders
  <2> QED BY <2>1 DEF PastInHash
<1>4. CASE UNCHANGED S!vars
  BY <1>4 DEF S!vars, PastInHash
<1>5. ASSUME NEW b, S!CommitAgain(b) PROVE UNCHANGED S!vars
  BY <1>5 DEF S!CommitAgain
<1> QED BY <1>2, <1>3, <1>4, <1>5 DEF S!Next

\* A step that leaves chain and tables alone is judged by the variables it sets.
LEMMA QuietPass ==
  ASSUME NEW p \in Procs, chain' = chain, UNCHANGED storeVars,
         PassAt(at'[p], local'[p], state'[p], undisturbed'[p])
  PROVE  PassOf(p)'
<1>1. cursor' = cursor /\ blocks' = blocks
  BY DEF storeVars
<1> DEFINE place == at'[p]
           l == local'[p]
           s == state'[p]
           u == undisturbed'[p]
<1>2. CursorIsLocal(place, l) /\ WalkInOrder(place, l, u)
      /\ (u => HeadIsBelow(place, l) /\ ScanInOrder(place, l, s))
  BY DEF PassAt
<1> HIDE DEF place, l, s, u
<1>3. /\ place \in {"walk", "compare", "rewind", "scan", "recheck", "commit"} => l.cursor = cursor'
      /\ u => (place \in {"cursor", "walk", "compare", "rewind"} => l.head <= Len(chain'))
  BY <1>1, <1>2 DEF CursorIsLocal, HeadIsBelow
<1>4. \A n : n <= Len(chain') /\ blocks'[n].hash = SubSeq(chain', 1, n) <=> Canonical(n)
  BY <1>1 DEF Canonical, C!HashAt
<1> QED BY <1>1, <1>2, <1>3, <1>4
        DEF PassOf, PassAt, CursorIsLocal, HeadIsBelow, WalkInOrder, ScanInOrder, OrphanAbove,
            StoredIsCanonical, Canonical, C!HashAt, place, l, s, u

LEMMA ReadsPass ==
  ASSUME PassInv, NEW p \in Procs, CheckLock(p) \/ ReadHead(p) \/ ReadCursor(p)
  PROVE  PassOf(p)'
<1>1. Types /\ SP!IInv /\ PassAt(at[p], local[p], state[p], undisturbed[p])
      /\ (state[p].synced => at[p] \in {"idle", "head"})
  BY DEF PassInv, WriterInv, PassOf, StoppedIsSilent
<1>2. /\ Start \in Nat \ {0} /\ cursor \in Nat /\ cursor >= Start - 1 /\ DOMAIN blocks = Start..cursor
      /\ Len(chain) \in Nat /\ local[p].head \in Nat
  BY <1>1, TableFacts DEF Types, Hash, Locals
<1>3. CASE CheckLock(p)
  <2>1. /\ chain' = chain /\ UNCHANGED <<storeVars, undisturbed>> /\ at[p] = "idle"
        /\ \/ at'[p] = "head" /\ UNCHANGED <<local, state>>
           \/ at'[p] = "idle" /\ ~state'[p].synced
    BY <1>1, <1>3, CheckLockDoes DEF Moves, chainVars
  <2>2. PassAt(at'[p], local'[p], state'[p], undisturbed'[p])
    BY <1>1, <2>1 DEF PassAt, CursorIsLocal, HeadIsBelow, WalkInOrder, ScanInOrder
  <2> QED BY <2>1, <2>2, QuietPass
<1>4. CASE ReadHead(p)
  <2>1. /\ chain' = chain /\ UNCHANGED storeVars
        /\ at'[p] = "cursor" /\ ~state'[p].synced /\ local'[p].head = Len(chain)
    BY <1>1, <1>4, ReadHeadDoes DEF Moves, chainVars
  <2>2. PassAt(at'[p], local'[p], state'[p], undisturbed'[p])
    BY <1>1, <1>2, <2>1 DEF PassAt, CursorIsLocal, HeadIsBelow, WalkInOrder, ScanInOrder
  <2> QED BY <2>1, <2>2, QuietPass
<1>5. CASE ReadCursor(p)
  <2> DEFINE from == WalkFrom(local[p].head, cursor)
  <2>1. /\ chain' = chain /\ UNCHANGED <<storeVars, undisturbed>> /\ at[p] = "cursor"
        /\ local'[p].cursor = cursor /\ local'[p].ancestor = Lowest(from)
        /\ local'[p].head = local[p].head
        /\ state'[p].synced = state[p].synced
        /\ from \in Int /\ from <= cursor /\ from <= local[p].head
        /\ cursor < Start => at'[p] = "scan"
        /\ cursor >= Start => /\ from >= Start => at'[p] = "walk"
                              /\ from < Start => at'[p] = "rewind"
    BY <1>1, <1>5, ReadCursorDoes DEF chainVars
  <2>2. from = cursor \/ from = local[p].head
    BY DEF WalkFrom
  <2>3. ~state'[p].synced /\ (undisturbed[p] => local[p].head <= Len(chain))
    BY <1>1, <2>1 DEF PassAt, HeadIsBelow
  <2> HIDE DEF from
  <2>4. CASE cursor < Start
    <3>1. StoredIsCanonical
      BY <1>2, <2>4 DEF StoredIsCanonical
    <3> QED BY <2>1, <2>3, <2>4, <3>1, QuietPass
            DEF PassAt, CursorIsLocal, HeadIsBelow, WalkInOrder, ScanInOrder
  <2>5. CASE cursor >= Start /\ from >= Start
    <3>1. local'[p].ancestor = from /\ (from < cursor => from = local[p].head)
      BY <1>2, <2>1, <2>2, <2>5 DEF Lowest
    <3>2. local'[p].ancestor < cursor => OrphanAbove(local'[p])
      BY <1>2, <2>1, <3>1 DEF OrphanAbove
    <3> QED BY <2>1, <2>3, <2>5, <3>1, <3>2, QuietPass
            DEF PassAt, CursorIsLocal, HeadIsBelow, WalkInOrder, ScanInOrder
  <2>6. CASE cursor >= Start /\ from < Start
    <3>1. local'[p].ancestor = Start - 1 /\ from = local[p].head
      BY <1>2, <2>1, <2>2, <2>6 DEF Lowest
    <3>2. OrphanAbove(local'[p])
      BY <1>2, <2>1, <2>6, <3>1 DEF OrphanAbove
    <3>3. local'[p].ancestor < cursor /\ Start..local'[p].ancestor = {}
      BY <1>2, <2>6, <3>1
    <3> QED BY <2>1, <2>3, <2>6, <3>2, <3>3, QuietPass
            DEF PassAt, CursorIsLocal, HeadIsBelow, WalkInOrder, ScanInOrder
  <2> QED BY <1>2, <2>1, <2>4, <2>5, <2>6
<1> QED BY <1>3, <1>4, <1>5

LEMMA WalkPass ==
  ASSUME PassInv, NEW p \in Procs, WalkHeader(p) \/ WalkBlock(p)
  PROVE  PassOf(p)'
<1>1. Types /\ SP!IInv /\ WritesInRange /\ PastInHash /\ PassAt(at[p], local[p], state[p], undisturbed[p])
      /\ (state[p].synced => at[p] \in {"idle", "head"})
  BY DEF PassInv, WriterInv, PassOf, StoppedIsSilent
<1> DEFINE a == local[p].ancestor
<1>2. /\ Start \in Nat \ {0} /\ cursor \in Nat /\ DOMAIN blocks = Start..cursor
      /\ Len(chain) \in Nat /\ local[p].head \in Nat /\ a \in Nat
  BY <1>1, TableFacts DEF Types, Hash, Locals
<1>3. CASE WalkHeader(p)
  <2>1. /\ at[p] = "walk" /\ chain' = chain /\ UNCHANGED <<storeVars, undisturbed>>
        /\ \/ /\ at'[p] = "compare" /\ state' = state /\ local'[p].header = C!HashAt(a)
              /\ local'[p].cursor = local[p].cursor /\ local'[p].ancestor = a
              /\ local'[p].head = local[p].head
           \/ at'[p] = "idle" /\ ~state'[p].synced
    BY <1>1, <1>3, WalkHeaderDoes DEF Moves, chainVars
  <2>2. PassAt(at'[p], local'[p], state'[p], undisturbed'[p])
    BY <1>1, <2>1 DEF PassAt, CursorIsLocal, HeadIsBelow, WalkInOrder, ScanInOrder, OrphanAbove
  <2> QED BY <2>1, <2>2, QuietPass
<1>4. CASE WalkBlock(p)
  <2>1. /\ at[p] = "compare" /\ chain' = chain /\ UNCHANGED <<storeVars, undisturbed>>
        /\ \/ /\ a \in DOMAIN blocks /\ SameBlock(p)
              /\ a < local[p].cursor => at'[p] = "rewind"
              /\ ~(a < local[p].cursor) => at'[p] = "scan"
              /\ local' = local /\ state'[p].synced = state[p].synced
           \/ /\ a \in DOMAIN blocks /\ ~SameBlock(p)
              /\ a - 1 >= Start => at'[p] = "walk"
              /\ a - 1 < Start /\ Start - 1 < local[p].cursor => at'[p] = "rewind"
              /\ local'[p].cursor = local[p].cursor /\ local'[p].ancestor = a - 1
              /\ local'[p].head = local[p].head
              /\ state'[p].synced = state[p].synced
           \/ at'[p] = "idle" /\ ~state'[p].synced
    BY <1>1, <1>4, WalkBlockDoes DEF Moves, chainVars
  <2>2. /\ local[p].cursor = cursor /\ a <= cursor /\ a <= local[p].head /\ a >= Start
        /\ undisturbed[p] => /\ local[p].header = C!HashAt(a) /\ local[p].head <= Len(chain)
                             /\ a < cursor => OrphanAbove(local[p])
        /\ ~state[p].synced
    BY <1>1, <2>1 DEF PassAt, CursorIsLocal, HeadIsBelow, WalkInOrder, WritesInRange
  <2>3. CASE at'[p] = "idle" /\ ~state'[p].synced
    BY <2>1, <2>3, QuietPass DEF PassAt, CursorIsLocal, HeadIsBelow, WalkInOrder, ScanInOrder
  <2>4. CASE a \in DOMAIN blocks /\ SameBlock(p) /\ local' = local /\ state'[p].synced = state[p].synced
             /\ (a < local[p].cursor => at'[p] = "rewind") /\ (~(a < local[p].cursor) => at'[p] = "scan")
    <3>1. undisturbed[p] => Canonical(a)
      BY <1>2, <2>2, <2>4 DEF SameBlock, Canonical
    <3>2. undisturbed[p] => \A n \in Start..a : Canonical(n)
      BY <1>1, <2>4, <3>1, CanonicalBelow
    <3>3. CASE a < cursor
      <4>1. at'[p] = "rewind"
        BY <2>2, <2>4, <3>3
      <4> QED BY <2>1, <2>2, <2>4, <3>2, <3>3, <4>1, QuietPass
              DEF PassAt, CursorIsLocal, HeadIsBelow, WalkInOrder, ScanInOrder
    <3>4. CASE a = cursor
      <4>1. at'[p] = "scan"
        BY <1>2, <2>2, <2>4, <3>4
      <4>2. undisturbed[p] => StoredIsCanonical
        BY <1>2, <3>2, <3>4 DEF StoredIsCanonical
      <4> QED BY <2>1, <2>2, <2>4, <4>1, <4>2, QuietPass
              DEF PassAt, CursorIsLocal, HeadIsBelow, WalkInOrder, ScanInOrder
    <3> QED BY <1>2, <2>2, <3>3, <3>4
  <2>5. CASE /\ a \in DOMAIN blocks /\ ~SameBlock(p) /\ state'[p].synced = state[p].synced
             /\ a - 1 >= Start => at'[p] = "walk"
             /\ a - 1 < Start /\ Start - 1 < local[p].cursor => at'[p] = "rewind"
             /\ local'[p].cursor = local[p].cursor /\ local'[p].ancestor = a - 1
             /\ local'[p].head = local[p].head
    <3>1. local'[p].ancestor + 1 = a
      BY <1>2, <2>5
    <3>2. undisturbed[p] => OrphanAbove(local'[p])
      BY <2>2, <2>5, <3>1 DEF SameBlock, OrphanAbove, Canonical
    <3>3. CASE a - 1 >= Start
      <4>1. a - 1 <= cursor /\ a - 1 <= local[p].head
        BY <1>2, <2>2
      <4> QED BY <2>1, <2>2, <2>5, <3>2, <3>3, <4>1, QuietPass
              DEF PassAt, CursorIsLocal, HeadIsBelow, WalkInOrder, ScanInOrder
    <3>4. CASE a - 1 < Start
      <4>1. at'[p] = "rewind" /\ a - 1 < cursor
        BY <1>2, <2>2, <2>5, <3>4
      <4>2. \A n \in Start..local'[p].ancestor : FALSE
        BY <1>2, <2>5, <3>4
      <4> QED BY <2>1, <2>2, <2>5, <3>2, <4>1, <4>2, QuietPass
              DEF PassAt, CursorIsLocal, HeadIsBelow, WalkInOrder, ScanInOrder
    <3> QED BY <1>2, <3>3, <3>4
  <2> QED BY <2>1, <2>3, <2>4, <2>5
<1> QED BY <1>3, <1>4

LEMMA ScanPass ==
  ASSUME PassInv, NEW p \in Procs,
         RereadCursor(p) \/ ScanHeader(p) \/ Recheck(p) \/ FinishPass(p)
  PROVE  PassOf(p)'
<1>1. Types /\ SP!IInv /\ PassAt(at[p], local[p], state[p], undisturbed[p])
      /\ (state[p].synced => at[p] \in {"idle", "head"})
  BY DEF PassInv, WriterInv, PassOf, StoppedIsSilent
<1>2. cursor \in Nat /\ Len(chain) \in Nat
  BY <1>1, TableFacts DEF Types, Hash
<1>3. CASE RereadCursor(p)
  <2>1. /\ at[p] = "reread" /\ chain' = chain /\ UNCHANGED <<storeVars, undisturbed>>
        /\ at'[p] = "scan" /\ local'[p].cursor = cursor /\ state'[p].synced = state[p].synced
    BY <1>1, <1>3, RereadCursorDoes DEF Moves, chainVars
  <2>2. PassAt(at'[p], local'[p], state'[p], undisturbed'[p])
    BY <1>1, <2>1 DEF PassAt, CursorIsLocal, HeadIsBelow, WalkInOrder, ScanInOrder
  <2> QED BY <2>1, <2>2, QuietPass
<1>4. CASE ScanHeader(p)
  <2>1. /\ at[p] = "scan" /\ chain' = chain /\ UNCHANGED <<storeVars, undisturbed>>
        /\ \/ /\ at'[p] = "recheck" /\ state' = state
              /\ local[p].cursor + 1 <= Len(chain)
              /\ local'[p].header = C!HashAt(local[p].cursor + 1)
              /\ local'[p].cursor = local[p].cursor
           \/ at'[p] = "idle" /\ ~state'[p].synced
    BY <1>1, <1>4, ScanHeaderDoes DEF Moves, chainVars
  <2>2. local[p].cursor = cursor
    BY <1>1, <2>1 DEF PassAt, CursorIsLocal
  <2>3. cursor + 1 <= Len(chain) => cursor < Len(chain)
    BY <1>2
  <2>4. PassAt(at'[p], local'[p], state'[p], undisturbed'[p])
    BY <1>1, <2>1, <2>2, <2>3 DEF PassAt, CursorIsLocal, HeadIsBelow, WalkInOrder, ScanInOrder
  <2> QED BY <2>1, <2>4, QuietPass
<1>5. CASE Recheck(p)
  <2>1. /\ at[p] = "recheck" /\ chain' = chain /\ UNCHANGED <<storeVars, undisturbed>>
        /\ \/ at'[p] = "commit" /\ UNCHANGED <<local, state>>
           \/ at'[p] = "idle" /\ ~state'[p].synced
    BY <1>1, <1>5, RecheckDoes DEF Moves, chainVars
  <2>2. PassAt(at'[p], local'[p], state'[p], undisturbed'[p])
    BY <1>1, <2>1 DEF PassAt, CursorIsLocal, HeadIsBelow, WalkInOrder, ScanInOrder
  <2> QED BY <2>1, <2>2, QuietPass
<1>6. CASE FinishPass(p)
  <2>1. /\ at[p] = "scan" /\ chain' = chain /\ UNCHANGED <<storeVars, undisturbed>>
        /\ at'[p] = "idle" /\ state'[p].safeHead = state[p].safeHead
        /\ state'[p].synced => local[p].cursor >= state[p].safeHead
    BY <1>1, <1>6, FinishPassDoes DEF Moves, chainVars, ReachedSafeHead
  <2>2. PassAt(at'[p], local'[p], state'[p], undisturbed'[p])
    BY <1>1, <2>1 DEF PassAt, CursorIsLocal, HeadIsBelow, WalkInOrder, ScanInOrder
  <2> QED BY <2>1, <2>2, QuietPass
<1> QED BY <1>3, <1>4, <1>5, <1>6

\* The rewind keeps the canonical blocks, which are then all there are.
LEMMA RewindPass ==
  ASSUME PassInv, NEW p \in Procs, Rewind(p)
  PROVE  PassOf(p)'
<1>1. Types /\ SP!IInv /\ WritesInRange /\ PassAt(at[p], local[p], state[p], undisturbed[p])
      /\ (state[p].synced => at[p] \in {"idle", "head"})
  BY DEF PassInv, WriterInv, PassOf, StoppedIsSilent
<1> DEFINE a == local[p].ancestor
<1>2. /\ at[p] = "rewind" /\ chain' = chain /\ undisturbed' = undisturbed
      /\ \/ S!Rewind(a) /\ at'[p] = "reread" /\ UNCHANGED <<local, state>>
         \/ at'[p] = "idle" /\ ~state'[p].synced /\ UNCHANGED storeVars
  BY <1>1, RewindDoes DEF Moves, chainVars
<1>3. CASE at'[p] = "idle" /\ ~state'[p].synced /\ UNCHANGED storeVars
  BY <1>2, <1>3, QuietPass DEF PassAt, CursorIsLocal, HeadIsBelow, WalkInOrder, ScanInOrder
<1>4. CASE S!Rewind(a) /\ at'[p] = "reread" /\ UNCHANGED <<local, state>>
  <2>1. Start \in Nat /\ DOMAIN blocks = Start..cursor /\ cursor \in Nat /\ a \in Nat
    BY <1>1, TableFacts DEF Types, Locals
  <2>2. /\ \A n \in DOMAIN blocks' : n \in DOMAIN blocks /\ n <= a /\ blocks'[n] = blocks[n]
    BY <1>4 DEF S!Rewind, S!RetainedHeaders
  <2>3. undisturbed[p] => \A n \in Start..a : Canonical(n)
    BY <1>1, <1>2 DEF PassAt, WalkInOrder
  <2>4. \A n \in DOMAIN blocks' : n \in Start..a
    BY <2>1, <2>2
  <2>5. undisturbed[p] => StoredIsCanonical'
    BY <1>2, <2>2, <2>3, <2>4 DEF StoredIsCanonical, Canonical, C!HashAt
  <2>6. state'[p] = state[p] /\ ~state[p].synced
    BY <1>1, <1>2, <1>4
  <2> QED BY <1>2, <1>4, <2>5, <2>6
          DEF PassOf, PassAt, CursorIsLocal, HeadIsBelow, WalkInOrder, ScanInOrder
<1> QED BY <1>2, <1>3, <1>4

\* A commit adds a canonical block.
LEMMA CommitPass ==
  ASSUME PassInv, NEW p \in Procs, CommitBlock(p)
  PROVE  PassOf(p)'
<1>1. Types /\ SP!IInv /\ WritesInRange /\ PassAt(at[p], local[p], state[p], undisturbed[p])
      /\ (state[p].synced => at[p] \in {"idle", "head"})
  BY DEF PassInv, WriterInv, PassOf, StoppedIsSilent
<1> DEFINE block == C!BlockOf(local[p].header)
<1>2. /\ at[p] = "commit" /\ chain' = chain /\ undisturbed' = undisturbed
      /\ block.number = local[p].cursor + 1 /\ block.hash = local[p].header
      /\ \/ /\ at'[p] = "scan" /\ state' = state /\ local'[p].cursor = local[p].cursor + 1
            /\ S!CommitBlock(block, block.logs) \/ (~S!Extends(block) /\ S!CommitAgain(block))
         \/ at'[p] = "idle" /\ ~state'[p].synced /\ UNCHANGED storeVars
  BY <1>1, CommitBlockDoes DEF Moves, chainVars
<1>3. /\ local[p].cursor = cursor /\ cursor \in Nat /\ Len(chain) \in Nat
      /\ undisturbed[p] => /\ StoredIsCanonical /\ cursor < Len(chain)
                           /\ local[p].header = C!HashAt(cursor + 1)
  BY <1>1, <1>2, TableFacts DEF PassAt, CursorIsLocal, ScanInOrder, Types, Hash
<1> HIDE DEF block
<1>4. CASE at'[p] = "idle" /\ ~state'[p].synced /\ UNCHANGED storeVars
  BY <1>2, <1>4, QuietPass DEF PassAt, CursorIsLocal, HeadIsBelow, WalkInOrder, ScanInOrder
<1>5. CASE ~S!Extends(block) /\ S!CommitAgain(block)
  <2>1. block.number <= cursor
    BY <1>5 DEF S!CommitAgain, S!CommittedBefore
  <2> QED BY <1>2, <1>3, <2>1
<1>6. CASE /\ at'[p] = "scan" /\ state' = state /\ local'[p].cursor = local[p].cursor + 1
           /\ S!CommitBlock(block, block.logs)
  <2>1. /\ cursor' = cursor + 1 /\ DOMAIN blocks' = DOMAIN blocks \union {cursor + 1}
        /\ blocks'[cursor + 1].hash = local[p].header
        /\ \A n \in DOMAIN blocks : blocks'[n] = blocks[n]
    <3>1. /\ cursor' = block.number /\ block.number = cursor + 1 /\ cursor + 1 \notin DOMAIN blocks
          /\ blocks' = [n \in DOMAIN blocks \union {block.number} |->
                         IF n = block.number THEN [hash |-> block.hash, parent |-> block.parent]
                         ELSE blocks[n]]
      BY <1>2, <1>3, <1>6 DEF S!CommitBlock
    <3> QED BY <1>2, <3>1
  <2>2. cursor < Len(chain) => cursor + 1 <= Len(chain)
    BY <1>3
  <2>3. undisturbed[p] => StoredIsCanonical'
    BY <1>2, <1>3, <2>1, <2>2 DEF StoredIsCanonical, Canonical, C!HashAt
  <2>4. state'[p] = state[p] /\ ~state[p].synced /\ local'[p].cursor = cursor'
    BY <1>1, <1>2, <1>3, <1>6, <2>1
  <2> QED BY <1>2, <1>6, <2>3, <2>4
          DEF PassOf, PassAt, CursorIsLocal, HeadIsBelow, WalkInOrder, ScanInOrder
<1> QED BY <1>2, <1>4, <1>5, <1>6

LEMMA StopPass ==
  ASSUME PassInv, NEW p \in Procs, Launch(p) \/ Fault(p) \/ Crash(p)
  PROVE  PassOf(p)'
<1>1. Types /\ (state[p].synced => at[p] \in {"idle", "head"})
  BY DEF PassInv, WriterInv, StoppedIsSilent
<1>2. /\ chain' = chain /\ UNCHANGED storeVars
      /\ at'[p] \in {"idle", "stopped"} /\ ~state'[p].synced
  BY <1>1, LaunchDoes, FaultDoes, CrashDoes DEF Moves, chainVars
<1>3. PassAt(at'[p], local'[p], state'[p], undisturbed'[p])
  BY <1>2 DEF PassAt, CursorIsLocal, HeadIsBelow, WalkInOrder, ScanInOrder
<1> QED BY <1>2, <1>3, QuietPass

\* A growing chain keeps the blocks of which a pass knows something.
LEMMA ChainPass ==
  ASSUME PassInv, ChainStep, NEW p \in Procs
  PROVE  PassOf(p)'
<1>1. Types /\ SP!IInv /\ WritesInRange /\ PassAt(at[p], local[p], state[p], undisturbed[p])
  BY DEF PassInv, WriterInv, PassOf
<1> DEFINE l == local[p]
           place == at[p]
<1>2. /\ cursor' = cursor /\ blocks' = blocks /\ at'[p] = place /\ local'[p] = l
      /\ state'[p] = state[p]
      /\ \/ /\ undisturbed' = undisturbed /\ Len(chain) <= Len(chain')
            /\ \A n \in Nat : n <= Len(chain) => (C!HashAt(n))' = C!HashAt(n)
         \/ ~undisturbed'[p]
  BY <1>1, ChainStepDoes DEF storeVars
<1>3. /\ Start \in Nat /\ cursor \in Nat /\ DOMAIN blocks = Start..cursor
      /\ Len(chain) \in Nat /\ Len(chain') \in Nat
      /\ l.cursor \in Nat /\ l.ancestor \in Nat /\ l.head \in Nat
  BY <1>1, TableFacts, ChainStepDoes DEF Types, Hash, Locals
<1> HIDE DEF l, place
<1>4. CASE ~undisturbed'[p]
  BY <1>1, <1>2, <1>4 DEF PassOf, PassAt, CursorIsLocal, WalkInOrder, l, place
<1>5. CASE /\ undisturbed' = undisturbed /\ undisturbed[p] /\ Len(chain) <= Len(chain')
           /\ \A n \in Nat : n <= Len(chain) => (C!HashAt(n))' = C!HashAt(n)
  <2>1. /\ CursorIsLocal(place, l) /\ WalkInOrder(place, l, TRUE) /\ HeadIsBelow(place, l)
        /\ ScanInOrder(place, l, state[p])
    BY <1>1, <1>5 DEF PassAt, WalkInOrder, l, place
  <2>2. \A n \in Nat : n <= Len(chain) => n <= Len(chain') /\ SubSeq(chain', 1, n) = SubSeq(chain, 1, n)
    BY <1>3, <1>5 DEF C!HashAt
  <2>3. \A n \in Nat : Canonical(n) => Canonical(n)'
    BY <1>2, <2>2 DEF Canonical, C!HashAt
  <2>4. StoredIsCanonical => StoredIsCanonical'
    <3>1. \A n \in DOMAIN blocks : n \in Nat
      BY <1>3
    <3> QED BY <1>2, <2>3, <3>1 DEF StoredIsCanonical
  <2>5. place \in {"walk", "compare", "rewind"} /\ OrphanAbove(l) => OrphanAbove(l)'
    <3> SUFFICES ASSUME place \in {"walk", "compare", "rewind"}, OrphanAbove(l),
                        ~(l.ancestor + 1 > l.head)
                 PROVE  ~Canonical(l.ancestor + 1)'
      BY <1>2 DEF OrphanAbove, l
    <3>1. l.ancestor + 1 \in Nat /\ l.ancestor + 1 <= Len(chain)
      BY <1>3, <2>1 DEF HeadIsBelow
    <3>2. blocks[l.ancestor + 1].hash # SubSeq(chain, 1, l.ancestor + 1)
      BY <3>1 DEF OrphanAbove, Canonical, C!HashAt
    <3>3. blocks[l.ancestor + 1].hash # SubSeq(chain', 1, l.ancestor + 1)
      BY <2>2, <3>1, <3>2
    <3> QED BY <1>2, <3>3 DEF Canonical, C!HashAt, l
  <2>6. CursorIsLocal(place, l)' /\ HeadIsBelow(place, l)'
    BY <1>2, <1>3, <1>5, <2>1 DEF CursorIsLocal, HeadIsBelow, l, place
  <2>7. ScanInOrder(place, l, state[p])'
    <3>1. place \in {"recheck", "commit"} =>
            l.cursor < Len(chain') /\ l.header = SubSeq(chain', 1, l.cursor + 1)
      <4>1. place \in {"recheck", "commit"} =>
              l.cursor < Len(chain) /\ l.header = SubSeq(chain, 1, l.cursor + 1)
        BY <2>1 DEF ScanInOrder, C!HashAt
      <4>2. l.cursor + 1 \in Nat /\ (l.cursor < Len(chain) => l.cursor + 1 <= Len(chain))
        BY <1>3
      <4> QED BY <1>3, <1>5, <2>2, <4>1, <4>2
    <3>2. /\ place \in {"reread", "scan", "recheck", "commit"} => StoredIsCanonical'
          /\ state[p].synced => StoredIsCanonical' /\ cursor >= state[p].safeHead
      BY <2>1, <2>4 DEF ScanInOrder
    <3> QED BY <1>2, <3>1, <3>2 DEF ScanInOrder, C!HashAt, l, place
  <2>8. WalkInOrder(place, l, undisturbed[p])'
    <3>1. place \in {"walk", "compare"} =>
            /\ l.ancestor <= cursor /\ l.ancestor <= l.head
            /\ l.ancestor < cursor => OrphanAbove(l)'
      BY <2>1, <2>5 DEF WalkInOrder
    <3>2. place = "compare" => l.header = SubSeq(chain', 1, l.ancestor)
      <4>1. place = "compare" => l.header = SubSeq(chain, 1, l.ancestor) /\ l.ancestor <= Len(chain)
        BY <1>3, <2>1 DEF WalkInOrder, HeadIsBelow, C!HashAt
      <4> QED BY <1>3, <2>2, <4>1
    <3>3. place = "rewind" => /\ l.ancestor < cursor /\ OrphanAbove(l)'
                              /\ \A n \in Start..l.ancestor : Canonical(n)'
      <4>1. \A n \in Start..l.ancestor : n \in Nat
        BY <1>3
      <4> QED BY <2>1, <2>3, <2>5, <4>1 DEF WalkInOrder
    <3> QED BY <1>2, <3>1, <3>2, <3>3 DEF WalkInOrder, C!HashAt, l, place
  <2> QED BY <1>2, <2>6, <2>7, <2>8 DEF PassOf, PassAt, l, place
<1> QED BY <1>2, <1>4, <1>5

\* A process that is stopped has no pass.
LEMMA StoppedPass ==
  ASSUME NEW q \in Procs, at'[q] = "stopped", ~state'[q].synced
  PROVE  PassOf(q)'
BY DEF PassOf, PassAt, CursorIsLocal, HeadIsBelow, WalkInOrder, ScanInOrder

\* What a step of p does to who runs and who says it is synced.
LEMMA RunStep ==
  ASSUME PassInv, Undisputed, NEW p \in Procs, Sync(p) \/ Launch(p) \/ Fault(p) \/ Crash(p)
  PROVE  /\ OneRunning' /\ RunsWithLock' /\ StoppedIsSilent'
         /\ \A q \in Procs : q # p => at'[q] = "stopped" /\ ~state'[q].synced
<1>1. Types /\ SP!IInv /\ WritesInRange /\ WriterInv /\ OneRunning /\ RunsWithLock /\ StoppedIsSilent
  BY DEF PassInv, WriterInv
<1>2. StepTypes(p)
  BY <1>1, SyncWrites, StopWrites
<1>3. \A q \in Procs : q # p => at'[q] = at[q] /\ state'[q] = state[q]
  BY <1>2 DEF StepTypes, StateStep, SameElsewhere
<1>4. Nobody \notin Procs
  BY IndexerAssumption
<1>5. \A q \in Procs : q # p => at[q] = "stopped"
  <2>1. CASE Launch(p)
    <3>1. lock = Nobody
      BY <2>1 DEF Launch
    <3> QED BY <1>1, <1>4, <3>1 DEF RunsWithLock, Undisputed
  <2>2. CASE Sync(p) \/ Fault(p) \/ Crash(p)
    <3>1. at[p] # "stopped"
      BY <2>2 DEF Sync, CheckLock, ReadHead, ReadCursor, WalkHeader, WalkBlock, Rewind,
         RereadCursor, ScanHeader, Recheck, CommitBlock, FinishPass, Fault, Crash
    <3> QED BY <1>1, <3>1 DEF OneRunning
  <2> QED BY <2>1, <2>2
<1>6. \A q \in Procs : q # p => at'[q] = "stopped" /\ ~state'[q].synced
  BY <1>1, <1>3, <1>5 DEF StoppedIsSilent
<1>7. OneRunning'
  BY <1>6 DEF OneRunning
<1>8. /\ lock' = IF at'[p] = "stopped" /\ lock = p THEN Nobody ELSE IF at[p] = "stopped" THEN p ELSE lock
      /\ at[p] = "stopped" => at'[p] # "stopped"
      /\ state'[p].synced => at'[p] \in {"idle", "head"}
  <2>1. CASE Launch(p)
    BY <1>1, <2>1, LaunchDoes DEF Moves, StoppedIsSilent
  <2>2. CASE Fault(p)
    BY <1>1, <2>2, FaultDoes DEF Moves
  <2>3. CASE Crash(p)
    BY <1>1, <2>3, CrashDoes DEF Moves
  <2>4. ASSUME Sync(p)
        PROVE  /\ lock' = lock /\ at[p] # "stopped" /\ at'[p] # "stopped"
               /\ state'[p].synced => at'[p] \in {"idle", "head"}
    <3> DEFINE Done == /\ lock' = lock /\ at[p] # "stopped" /\ at'[p] # "stopped"
                       /\ state'[p].synced => at'[p] \in {"idle", "head"}
    <3>1. CASE CheckLock(p)
      BY <1>1, <3>1, CheckLockDoes DEF Moves
    <3>2. CASE ReadHead(p)
      BY <1>1, <3>2, ReadHeadDoes DEF Moves
    <3>3. CASE ReadCursor(p)
      <4> DEFINE from == WalkFrom(local[p].head, cursor)
      <4>1. /\ at[p] = "cursor" /\ lock' = lock /\ state'[p].synced = state[p].synced
            /\ from \in Int
            /\ cursor < Start => at'[p] = "scan"
            /\ cursor >= Start => /\ from >= Start => at'[p] = "walk"
                                  /\ from < Start => at'[p] = "rewind"
        BY <1>1, <3>3, ReadCursorDoes
      <4>2. Start \in Nat /\ cursor \in Nat
        BY <1>1, TableFacts
      <4> HIDE DEF from
      <4>3. at'[p] \in {"scan", "walk", "rewind"}
        BY <4>1, <4>2
      <4> QED BY <1>1, <4>1, <4>3 DEF StoppedIsSilent
    <3>4. CASE WalkHeader(p)
      <4>1. /\ at[p] = "walk" /\ lock' = lock
            /\ (at'[p] = "compare" /\ state' = state) \/ (at'[p] = "idle" /\ ~state'[p].synced)
        BY <1>1, <3>4, WalkHeaderDoes DEF Moves
      <4> QED BY <1>1, <4>1 DEF StoppedIsSilent
    <3>5. CASE WalkBlock(p)
      <4>1. Start \in Nat /\ local[p].cursor \in Nat /\ local[p].ancestor \in Nat
        BY <1>1, TableFacts DEF Types, Locals
      <4>2. /\ at[p] = "compare" /\ lock' = lock
            /\ \/ at'[p] \in {"rewind", "scan", "walk"} /\ state'[p].synced = state[p].synced
               \/ at'[p] = "idle" /\ ~state'[p].synced
        BY <1>1, <3>5, <4>1, WalkBlockDoes DEF Moves
      <4> QED BY <1>1, <4>2 DEF StoppedIsSilent
    <3>6. CASE Rewind(p)
      <4>1. /\ at[p] = "rewind" /\ lock' = lock
            /\ (at'[p] = "reread" /\ state' = state) \/ (at'[p] = "idle" /\ ~state'[p].synced)
        BY <1>1, <3>6, RewindDoes DEF Moves
      <4> QED BY <1>1, <4>1 DEF StoppedIsSilent
    <3>7. CASE RereadCursor(p)
      <4>1. at[p] = "reread" /\ lock' = lock /\ at'[p] = "scan" /\ state'[p].synced = state[p].synced
        BY <1>1, <3>7, RereadCursorDoes DEF Moves
      <4> QED BY <1>1, <4>1 DEF StoppedIsSilent
    <3>8. CASE ScanHeader(p)
      <4>1. /\ at[p] = "scan" /\ lock' = lock
            /\ (at'[p] = "recheck" /\ state' = state) \/ (at'[p] = "idle" /\ ~state'[p].synced)
        BY <1>1, <3>8, ScanHeaderDoes DEF Moves
      <4> QED BY <1>1, <4>1 DEF StoppedIsSilent
    <3>9. CASE Recheck(p)
      <4>1. /\ at[p] = "recheck" /\ lock' = lock
            /\ (at'[p] = "commit" /\ state' = state) \/ (at'[p] = "idle" /\ ~state'[p].synced)
        BY <1>1, <3>9, RecheckDoes DEF Moves
      <4> QED BY <1>1, <4>1 DEF StoppedIsSilent
    <3>10. CASE CommitBlock(p)
      <4>1. /\ at[p] = "commit" /\ lock' = lock
            /\ (at'[p] = "scan" /\ state' = state) \/ (at'[p] = "idle" /\ ~state'[p].synced)
        BY <1>1, <3>10, CommitBlockDoes DEF Moves
      <4> QED BY <1>1, <4>1 DEF StoppedIsSilent
    <3>11. CASE FinishPass(p)
      BY <1>1, <3>11, FinishPassDoes DEF Moves
    <3> HIDE DEF Done
    <3>12. Done
      BY <2>4, <3>1, <3>2, <3>3, <3>4, <3>5, <3>6, <3>7, <3>8, <3>9, <3>10, <3>11 DEF Sync, Done
    <3> QED BY <3>12 DEF Done
  <2> QED BY <2>1, <2>2, <2>3, <2>4
<1>9. StoppedIsSilent'
  BY <1>6, <1>8 DEF StoppedIsSilent
<1>10. RunsWithLock'
  <2> SUFFICES ASSUME ~LocksDie, NEW q \in Procs PROVE at'[q] # "stopped" <=> lock' = q
    BY DEF RunsWithLock
  <2>1. \A r \in Procs : at[r] # "stopped" <=> lock = r
    BY <1>1 DEF RunsWithLock
  <2>2. CASE q = p
    BY <1>4, <1>8, <2>1, <2>2
  <2>3. CASE q # p
    BY <1>4, <1>5, <1>6, <1>8, <2>1, <2>3
  <2> QED BY <2>2, <2>3
<1> QED BY <1>6, <1>7, <1>9, <1>10

LEMMA NextPassInv ==
  ASSUME PassInv, Undisputed, [Next]_vars
  PROVE  PassInv'
<1>1. WriterInv'
  BY NextWriterInv DEF PassInv
<1>2. PastInHash'
  BY TablesStep, PastKept DEF PassInv, WriterInv
<1>3. ASSUME NEW p \in Procs, Sync(p) \/ Launch(p) \/ Fault(p) \/ Crash(p)
      PROVE  PassInv'
  <2>1. PassOf(p)'
    BY <1>3, ReadsPass, WalkPass, RewindPass, ScanPass, CommitPass, StopPass DEF Sync
  <2>2. /\ OneRunning' /\ RunsWithLock' /\ StoppedIsSilent'
        /\ \A q \in Procs : q # p => at'[q] = "stopped" /\ ~state'[q].synced
    BY <1>3, RunStep
  <2>3. \A q \in Procs : PassOf(q)'
    BY <2>1, <2>2, StoppedPass
  <2> QED BY <1>1, <1>2, <2>2, <2>3 DEF PassInv
<1>4. CASE ChainStep
  <2>1. \A q \in Procs : PassOf(q)'
    BY <1>4, ChainPass
  <2>2. lock' = lock /\ at' = at /\ state' = state
    BY <1>4 DEF ChainStep
  <2> QED BY <1>1, <1>2, <2>1, <2>2 DEF PassInv, OneRunning, RunsWithLock, StoppedIsSilent
<1>5. CASE LoseLock \/ UNCHANGED vars
  <2>1. chain' = chain /\ UNCHANGED storeVars /\ at' = at /\ local' = local /\ state' = state
        /\ undisturbed' = undisturbed /\ (lock' = lock \/ LocksDie)
    BY <1>5 DEF LoseLock, vars, chainVars
  <2>2. \A q \in Procs : PassOf(q)'
    BY <2>1, QuietPass DEF PassInv, PassOf
  <2> QED BY <1>1, <1>2, <2>1, <2>2 DEF PassInv, OneRunning, RunsWithLock, StoppedIsSilent
<1> QED BY <1>3, <1>4, <1>5 DEF Next

LEMMA InitPassInv == Init => PassInv
<1> SUFFICES ASSUME Init PROVE PassInv
  OBVIOUS
<1>1. WriterInv
  BY InitWriterInv
<1>2. \A p \in Procs : at[p] = "stopped" /\ ~state[p].synced
  BY DEF Init, NoState
<1>3. lock = Nobody /\ Nobody \notin Procs /\ DOMAIN blocks = {}
  BY IndexerAssumption DEF Init, S!Init
<1>4. \A p \in Procs : PassOf(p)
  BY <1>2 DEF PassOf, PassAt, CursorIsLocal, HeadIsBelow, WalkInOrder, ScanInOrder
<1> QED BY <1>1, <1>2, <1>3, <1>4 DEF PassInv, PastInHash, OneRunning, RunsWithLock, StoppedIsSilent

\* While no second process runs beside it, a pass removes orphans and nothing
\* else, and a process says it is synced only when all stored blocks are
\* canonical up to its safe head, unless the chain changed under the pass.
THEOREM PassesTellTheTruth == Undisputed /\ Spec => []PassesAreSound
<1>1. Undisputed /\ PassInv /\ [Next]_vars => PassInv' /\ Undisputed'
  BY NextPassInv DEF Undisputed
<1> QED BY <1>1, InitPassInv, PassSound, PTL DEF Spec

LEMMA WriterHoldsLock ==
  ASSUME PassInv, ~LocksDie, [Next]_vars, NEW p \in Procs, at'[p] # at[p], storeVars' # storeVars
  PROVE  lock = p
<1>1. Types /\ SP!IInv /\ WritesInRange /\ RunsWithLock
  BY DEF PassInv, WriterInv
<1>2. PICK q \in Procs : Rewind(q) \/ CommitBlock(q)
  BY DEF Next, Sync, CheckLock, ReadHead, ReadCursor, WalkHeader, WalkBlock, RereadCursor,
     ScanHeader, Recheck, FinishPass, Launch, Fault, Crash, LoseLock, ChainStep, vars
<1>3. StepTypes(q) /\ at[q] # "stopped"
  BY <1>1, <1>2, RewindDoes, CommitBlockDoes
<1>4. p = q
  BY <1>3 DEF StepTypes, SameElsewhere
<1> QED BY <1>1, <1>3, <1>4 DEF RunsWithLock

\* As long as the connections that hold the lock do not die, the tables change
\* only by a step of the process that holds it.
THEOREM LockHolderWrites == ~LocksDie /\ Spec => OneWriter
<1>1. ~LocksDie => Undisputed
  BY DEF Undisputed
<1>2. ~LocksDie /\ PassInv /\ [Next]_vars => PassInv' /\ ~LocksDie'
  BY <1>1, NextPassInv
<1>3. ~LocksDie /\ PassInv /\ [Next]_vars =>
        [\A p \in Procs : at'[p] # at[p] /\ storeVars' # storeVars => lock = p]_vars
  BY WriterHoldsLock
<1> QED BY <1>2, <1>3, InitPassInv, PTL DEF Spec, OneWriter

-----------------------------------------------------------------------------
(* What a process answers                                                  *)

Requests == [step : {"", "asked", "read", "stated", "answered"}, cursor : Nat, hash : AnyHash,
             safeHead : Int, synced : BOOLEAN]

RequestTypes ==
  /\ recent \in [Procs -> BOOLEAN]
  /\ request \in [Procs -> Requests]
  /\ rewound \in [Procs -> {"no", "running", "over"}]

\* Until the tables are rolled back, what a snapshot read is still in them.
SnapshotOf(p) ==
  request[p].step \in {"read", "stated"} /\ rewound[p] = "no" =>
    /\ request[p].cursor <= cursor
    /\ request[p].hash # NoHash =>
         request[p].cursor \in DOMAIN blocks /\ blocks[request[p].cursor].hash = request[p].hash

AnswerInv == RequestTypes /\ \A p \in Procs : SnapshotOf(p)

\* The assignments to a request.
SnapshotSet(f, p, n, h) == [f EXCEPT ![p].step = "read", ![p].cursor = n, ![p].hash = h]
StatedSet(f, p, n)      == [f EXCEPT ![p].step = "stated", ![p].safeHead = n]
AnsweredSet(f, p, b)    == [f EXCEPT ![p].step = "answered", ![p].synced = b]

LEMMA StepSetFacts ==
  ASSUME NEW f \in [Procs -> Requests], NEW p \in Procs,
         NEW step \in {"read", "stated", "answered"}
  PROVE  LET g == [f EXCEPT ![p].step = step] IN
         /\ g \in [Procs -> Requests] /\ SameElsewhere(g, f, p)
         /\ g[p].step = step /\ g[p].cursor = f[p].cursor /\ g[p].hash = f[p].hash
<1> DEFINE r == [f[p] EXCEPT !.step = step]
<1>1. f[p] \in Requests
  OBVIOUS
<1>2. r \in Requests /\ r.step = step /\ r.cursor = f[p].cursor /\ r.hash = f[p].hash
  BY <1>1 DEF Requests
<1>3. [f EXCEPT ![p].step = step] = [f EXCEPT ![p] = r]
  OBVIOUS
<1> HIDE DEF r
<1> QED BY <1>2, <1>3 DEF SameElsewhere

LEMMA SnapshotSetFacts ==
  ASSUME NEW f \in [Procs -> Requests], NEW p \in Procs, NEW n \in Nat, NEW h \in AnyHash
  PROVE  LET g == SnapshotSet(f, p, n, h) IN
         /\ g \in [Procs -> Requests] /\ SameElsewhere(g, f, p)
         /\ g[p].step = "read" /\ g[p].cursor = n /\ g[p].hash = h
<1> DEFINE k == [f EXCEPT ![p].step = "read"]
           r == [k[p] EXCEPT !.cursor = n]
           t == [r EXCEPT !.hash = h]
<1>1. k \in [Procs -> Requests] /\ SameElsewhere(k, f, p) /\ k[p].step = "read"
  BY StepSetFacts
<1>2. SnapshotSet(f, p, n, h) = [k EXCEPT ![p] = t]
  BY <1>1 DEF SnapshotSet
<1> HIDE DEF k
<1>3. k[p] \in Requests
  BY <1>1
<1>4. r \in Requests /\ r.step = k[p].step /\ r.cursor = n
  BY <1>3 DEF Requests
<1> HIDE DEF r
<1>5. t \in Requests /\ t.step = r.step /\ t.cursor = r.cursor /\ t.hash = h
  BY <1>4 DEF Requests
<1> HIDE DEF t
<1> QED BY <1>1, <1>2, <1>4, <1>5 DEF SameElsewhere

LEMMA StatedSetFacts ==
  ASSUME NEW f \in [Procs -> Requests], NEW p \in Procs, NEW n \in Int
  PROVE  LET g == StatedSet(f, p, n) IN
         /\ g \in [Procs -> Requests] /\ SameElsewhere(g, f, p)
         /\ g[p].step = "stated" /\ g[p].cursor = f[p].cursor /\ g[p].hash = f[p].hash
<1> DEFINE k == [f EXCEPT ![p].step = "stated"]
           r == [k[p] EXCEPT !.safeHead = n]
<1>1. /\ k \in [Procs -> Requests] /\ SameElsewhere(k, f, p)
      /\ k[p].step = "stated" /\ k[p].cursor = f[p].cursor /\ k[p].hash = f[p].hash
  BY StepSetFacts
<1>2. StatedSet(f, p, n) = [k EXCEPT ![p] = r]
  BY <1>1 DEF StatedSet
<1> HIDE DEF k
<1>3. k[p] \in Requests
  BY <1>1
<1>4. r \in Requests /\ r.step = k[p].step /\ r.cursor = k[p].cursor /\ r.hash = k[p].hash
  BY <1>3 DEF Requests
<1> HIDE DEF r
<1> QED BY <1>1, <1>2, <1>4 DEF SameElsewhere

LEMMA AnsweredSetFacts ==
  ASSUME NEW f \in [Procs -> Requests], NEW p \in Procs, NEW b \in BOOLEAN
  PROVE  LET g == AnsweredSet(f, p, b) IN
         /\ g \in [Procs -> Requests] /\ SameElsewhere(g, f, p)
         /\ g[p].step = "answered" /\ g[p].synced = b
<1> DEFINE k == [f EXCEPT ![p].step = "answered"]
           r == [k[p] EXCEPT !.synced = b]
<1>1. k \in [Procs -> Requests] /\ SameElsewhere(k, f, p) /\ k[p].step = "answered"
  BY StepSetFacts
<1>2. AnsweredSet(f, p, b) = [k EXCEPT ![p] = r]
  BY <1>1 DEF AnsweredSet
<1> HIDE DEF k
<1>3. k[p] \in Requests
  BY <1>1
<1>4. r \in Requests /\ r.step = k[p].step /\ r.synced = b
  BY <1>3 DEF Requests
<1> HIDE DEF r
<1> QED BY <1>1, <1>2, <1>4 DEF SameElsewhere

LEMMA NoRequestFacts ==
  /\ NoRequest \in Requests /\ NoRequest.step = ""
  /\ [NoRequest EXCEPT !.step = "asked"] \in Requests
  /\ [NoRequest EXCEPT !.step = "asked"].step = "asked"
<1>1. PICK b \in BOOLEAN : b = FALSE
  OBVIOUS
<1>2. NoHash \in AnyHash /\ 0 \in Nat /\ 0 \in Int
  BY DEF AnyHash
<1>3. NoRequest = [step |-> "", cursor |-> 0, hash |-> NoHash, safeHead |-> 0, synced |-> b]
  BY <1>1 DEF NoRequest
<1>4. NoRequest \in Requests
  BY <1>2, <1>3 DEF Requests
<1>5. NoRequest.step = ""
  BY <1>3
<1> HIDE DEF NoRequest
<1>6. [NoRequest EXCEPT !.step = "asked"] \in Requests
  BY <1>4 DEF Requests
<1>7. [NoRequest EXCEPT !.step = "asked"].step = "asked"
  BY <1>4 DEF Requests
<1> QED BY <1>4, <1>5, <1>6, <1>7

\* Every step of the backend is one of the indexer or leaves it alone.
LEMMA BackendStep == [QNext]_all => [Next]_vars
BY DEF QNext, all, Others, Handle, Ask, ReadSnapshot, ReadState, Answer, Index, Age, Stop, Next

\* Only a rewind below the cursor takes blocks away.
LEMMA TablesGrow ==
  ASSUME SP!IInv, [S!Next]_(S!vars), ~(cursor' < cursor)
  PROVE  /\ cursor <= cursor'
         /\ \A n \in DOMAIN blocks : n \in DOMAIN blocks' /\ blocks'[n] = blocks[n]
<1>1. /\ Start \in Nat \ {0} /\ cursor \in Nat /\ DOMAIN blocks = Start..cursor
      /\ \A n \in DOMAIN blocks : n \in Nat /\ n <= cursor
  BY TableFacts
<1>2. ASSUME NEW b \in AllBlocks, NEW logs, S!CommitBlock(b, logs)
      PROVE  cursor <= cursor' /\ \A n \in DOMAIN blocks : n \in DOMAIN blocks' /\ blocks'[n] = blocks[n]
  <2>1. cursor' = cursor + 1
    BY <1>2 DEF S!CommitBlock, S!Extends
  <2>2. \A n \in DOMAIN blocks : n \in DOMAIN blocks' /\ blocks'[n] = blocks[n]
    BY <1>2 DEF S!CommitBlock
  <2> QED BY <1>1, <2>1, <2>2
<1>3. ASSUME NEW a \in {Start - 1} \union {b.number : b \in AllBlocks}, S!Rewind(a)
      PROVE  cursor <= cursor' /\ \A n \in DOMAIN blocks : n \in DOMAIN blocks' /\ blocks'[n] = blocks[n]
  <2>1. cursor' = a /\ a \in Nat
    <3>1. CASE a = Start - 1
      BY <1>1, <1>3, <3>1 DEF S!Rewind
    <3>2. ASSUME NEW b \in AllBlocks, a = b.number PROVE a \in Nat
      BY <3>2, ChainBlocks DEF SP!StoreAssumption
    <3> QED BY <1>3, <3>1, <3>2 DEF S!Rewind
  <2>2. cursor <= a
    BY <1>1, <2>1
  <2>3. \A n \in DOMAIN blocks : n <= a
    BY <1>1, <2>1, <2>2
  <2> QED BY <1>3, <2>1, <2>2, <2>3 DEF S!Rewind, S!RetainedHeaders
<1>4. CASE UNCHANGED S!vars
  BY <1>1, <1>4 DEF S!vars
<1>5. ASSUME NEW b, S!CommitAgain(b) PROVE UNCHANGED S!vars
  BY <1>5 DEF S!CommitAgain
<1> QED BY <1>2, <1>3, <1>4, <1>5 DEF S!Next

\* A step that leaves the tables and the requests alone, or only starts another.
LEMMA SnapshotStays ==
  ASSUME NEW q \in Procs, SnapshotOf(q), request'[q] = request[q], rewound'[q] = rewound[q],
         UNCHANGED storeVars
  PROVE  SnapshotOf(q)'
BY DEF SnapshotOf, storeVars

LEMMA NextAnswerInv ==
  ASSUME AnswerInv, WriterInv, [QNext]_all
  PROVE  AnswerInv'
<1>1. RequestTypes /\ Types /\ SP!IInv /\ \A q \in Procs : SnapshotOf(q)
  BY DEF AnswerInv, WriterInv
<1>2. cursor \in Nat /\ cursorHash \in AnyHash
      /\ cursorHash = (IF cursor >= Start THEN blocks[cursor].hash ELSE NoHash)
      /\ DOMAIN blocks = Start..cursor /\ Start \in Nat
  BY <1>1, TableFacts DEF AnyHash
<1>3. ASSUME NEW p \in Procs, Ask(p) PROVE AnswerInv'
  <2>1. /\ request' = [request EXCEPT ![p] = [NoRequest EXCEPT !.step = "asked"]]
        /\ UNCHANGED <<storeVars, recent, rewound>>
    BY <1>3 DEF Ask, vars
  <2>2. RequestTypes' /\ request'[p].step = "asked" /\ \A q \in Procs : q # p => request'[q] = request[q]
    BY <1>1, <2>1, NoRequestFacts DEF RequestTypes
  <2>3. SnapshotOf(p)'
    BY <2>2 DEF SnapshotOf
  <2> QED BY <1>1, <2>1, <2>2, <2>3, SnapshotStays DEF AnswerInv
<1>4. ASSUME NEW p \in Procs, ReadSnapshot(p) PROVE AnswerInv'
  <2>1. /\ request' = SnapshotSet(request, p, cursor, cursorHash)
        /\ rewound' = [rewound EXCEPT ![p] = "no"] /\ UNCHANGED <<storeVars, recent>>
    BY <1>4 DEF ReadSnapshot, SnapshotSet, Tip, vars
  <2>2. /\ request' \in [Procs -> Requests] /\ SameElsewhere(request', request, p)
        /\ request'[p].step = "read" /\ request'[p].cursor = cursor /\ request'[p].hash = cursorHash
    BY <1>1, <1>2, <2>1, SnapshotSetFacts DEF RequestTypes
  <2>3. RequestTypes' /\ \A q \in Procs : q # p => request'[q] = request[q] /\ rewound'[q] = rewound[q]
    BY <1>1, <2>1, <2>2 DEF RequestTypes, SameElsewhere
  <2>4. cursorHash # NoHash => cursor \in DOMAIN blocks /\ blocks[cursor].hash = cursorHash
    BY <1>2
  <2>5. SnapshotOf(p)'
    BY <1>2, <2>1, <2>2, <2>4 DEF SnapshotOf, storeVars
  <2> QED BY <1>1, <2>1, <2>3, <2>5, SnapshotStays DEF AnswerInv
<1>5. ASSUME NEW p \in Procs, ReadState(p) PROVE AnswerInv'
  <2>1. /\ request' = StatedSet(request, p, state[p].safeHead) /\ request[p].step = "read"
        /\ UNCHANGED <<storeVars, recent, rewound>> /\ state[p].safeHead \in Int
    BY <1>1, <1>5 DEF ReadState, StatedSet, vars, Types, States
  <2>2. /\ request' \in [Procs -> Requests] /\ SameElsewhere(request', request, p)
        /\ request'[p].cursor = request[p].cursor /\ request'[p].hash = request[p].hash
    BY <1>1, <2>1, StatedSetFacts DEF RequestTypes
  <2>3. RequestTypes' /\ \A q \in Procs : q # p => request'[q] = request[q]
    BY <1>1, <2>1, <2>2 DEF RequestTypes, SameElsewhere
  <2>4. SnapshotOf(p)'
    BY <1>1, <2>1, <2>2 DEF SnapshotOf, storeVars
  <2> QED BY <1>1, <2>1, <2>3, <2>4, SnapshotStays DEF AnswerInv
<1>6. ASSUME NEW p \in Procs, Answer(p) PROVE AnswerInv'
  <2>1. UNCHANGED <<storeVars, recent, rewound>> /\ \E b \in BOOLEAN : request' = AnsweredSet(request, p, b)
    BY <1>6 DEF Answer, AnsweredSet, vars, Current
  <2>2. /\ request' \in [Procs -> Requests] /\ SameElsewhere(request', request, p)
        /\ request'[p].step = "answered"
    BY <1>1, <2>1, AnsweredSetFacts DEF RequestTypes
  <2>3. RequestTypes' /\ \A q \in Procs : q # p => request'[q] = request[q]
    BY <1>1, <2>1, <2>2 DEF RequestTypes, SameElsewhere
  <2>4. SnapshotOf(p)'
    BY <2>2 DEF SnapshotOf
  <2> QED BY <1>1, <2>1, <2>3, <2>4, SnapshotStays DEF AnswerInv
<1>7. ASSUME NEW p \in Procs, Index(p) PROVE AnswerInv'
  <2>1. /\ request' = request /\ recent' = [recent EXCEPT ![p] = Succeeded(p)]
        /\ rewound' = Rewound(p)
    BY <1>7 DEF Index
  <2>2. Succeeded(p) \in BOOLEAN
    BY <1>1 DEF Succeeded, RequestTypes
  <2>0. /\ rewound' \in [Procs -> {"no", "running", "over"}]
        /\ \A q \in Procs : rewound'[q] = "no" => ~(cursor' < cursor) /\ rewound[q] = "no"
    BY <1>1, <2>1 DEF Rewound, RequestTypes
  <2>3. RequestTypes'
    BY <1>1, <2>0, <2>1, <2>2 DEF RequestTypes
  <2>4. [S!Next]_(S!vars)
    BY BackendStep, TablesStep
  <2>5. ASSUME NEW q \in Procs PROVE SnapshotOf(q)'
    <3>1. CASE rewound'[q] # "no"
      BY <3>1 DEF SnapshotOf
    <3>2. CASE rewound'[q] = "no"
      <4>1. /\ cursor <= cursor' /\ cursor' \in Nat
            /\ \A n \in DOMAIN blocks : n \in DOMAIN blocks' /\ blocks'[n] = blocks[n]
        <5>1. WriterInv'
          BY BackendStep, NextWriterInv
        <5>2. cursor' \in Nat
          BY <5>1 DEF WriterInv, SP!IInv, SP!TypeOK
        <5>3. ~(cursor' < cursor)
          BY <2>0, <3>2
        <5> QED BY <1>1, <2>4, <5>2, <5>3, TablesGrow
      <4>2. request[q].cursor \in Nat /\ request'[q] = request[q] /\ rewound[q] = "no"
        BY <1>1, <2>0, <2>1, <3>2 DEF RequestTypes, Requests
      <4>3. SnapshotOf(q)
        BY <1>1
      <4> QED BY <1>2, <4>1, <4>2, <4>3 DEF SnapshotOf
    <3> QED BY <3>1, <3>2
  <2> QED BY <2>3, <2>5 DEF AnswerInv
<1>8. ASSUME NEW p \in Procs, Age(p) PROVE AnswerInv'
  <2>1. recent' = [recent EXCEPT ![p] = FALSE] /\ UNCHANGED <<storeVars, request, rewound>>
    BY <1>8 DEF Age, vars
  <2>2. RequestTypes'
    BY <1>1, <2>1 DEF RequestTypes
  <2> QED BY <1>1, <2>1, <2>2, SnapshotStays DEF AnswerInv
<1>9. ASSUME NEW p \in Procs, Stop(p) PROVE AnswerInv'
  <2>1. /\ recent' = [recent EXCEPT ![p] = FALSE] /\ request' = [request EXCEPT ![p] = NoRequest]
        /\ UNCHANGED <<storeVars, rewound>>
    BY <1>9 DEF Stop, Crash
  <2>2. RequestTypes' /\ request'[p].step = "" /\ \A q \in Procs : q # p => request'[q] = request[q]
    BY <1>1, <2>1, NoRequestFacts DEF RequestTypes
  <2>3. SnapshotOf(p)'
    BY <2>2 DEF SnapshotOf
  <2> QED BY <1>1, <2>1, <2>2, <2>3, SnapshotStays DEF AnswerInv
<1>10. CASE Others \/ UNCHANGED all
  <2>1. UNCHANGED <<storeVars, recent, request, rewound>>
    BY <1>10 DEF Others, all, vars, Launch, Fault, LoseLock, ChainStep
  <2>2. RequestTypes'
    BY <1>1, <2>1 DEF RequestTypes
  <2> QED BY <1>1, <2>1, <2>2, SnapshotStays DEF AnswerInv
<1> QED BY <1>3, <1>4, <1>5, <1>6, <1>7, <1>8, <1>9, <1>10 DEF QNext, Handle

LEMMA InitAnswerInv == QInit => AnswerInv
<1> SUFFICES ASSUME QInit PROVE AnswerInv
  OBVIOUS
<1>1. RequestTypes
  BY NoRequestFacts DEF QInit, RequestTypes
<1>2. \A p \in Procs : request[p].step = ""
  BY NoRequestFacts DEF QInit
<1> QED BY <1>1, <1>2 DEF AnswerInv, SnapshotOf

\* While a recovery runs, nobody says it is synced.
SilentInRecovery == \A p \in Procs : rewound[p] = "running" => ~state[p].synced

LEMMA IndexSilent ==
  ASSUME PassInv, Undisputed, AnswerInv, SilentInRecovery, NEW p \in Procs, Index(p)
  PROVE  SilentInRecovery'
<1>1. Sync(p) /\ rewound' = Rewound(p) /\ RequestTypes
  BY DEF Index, AnswerInv
<1>2. /\ StoppedIsSilent' /\ \A q \in Procs : q # p => ~state'[q].synced
  BY <1>1, RunStep
<1>3. CASE cursor' < cursor
  <2>0. cursor \in Nat
    BY TableFacts DEF PassInv, WriterInv
  <2>1. storeVars' # storeVars
    BY <1>3, <2>0 DEF storeVars
  <2>2. Rewind(p) \/ CommitBlock(p)
    BY <1>1, <2>1 DEF Sync, CheckLock, ReadHead, ReadCursor, WalkHeader, WalkBlock, RereadCursor,
       ScanHeader, Recheck, FinishPass
  <2>3. at'[p] \in {"reread", "scan"}
    BY <2>1, <2>2, RewindDoes, CommitBlockDoes DEF PassInv, WriterInv, Moves
  <2>4. ~state'[p].synced
    BY <1>2, <2>3 DEF StoppedIsSilent
  <2> QED BY <1>2, <2>4 DEF SilentInRecovery
<1>4. CASE ~(cursor' < cursor)
  <2>1. rewound'[p] = "running" => ~state'[p].synced
    BY <1>1, <1>4 DEF Rewound, RequestTypes
  <2> QED BY <1>2, <2>1 DEF SilentInRecovery
<1> QED BY <1>3, <1>4

LEMMA NextSilent ==
  ASSUME PassInv, Undisputed, AnswerInv, SilentInRecovery, [QNext]_all
  PROVE  SilentInRecovery'
<1>0. RequestTypes /\ Types
  BY DEF AnswerInv, PassInv, WriterInv
<1>1. ASSUME NEW p \in Procs, Index(p) PROVE SilentInRecovery'
  BY <1>1, IndexSilent
<1>2. ASSUME NEW p \in Procs, Handle(p) \/ Age(p) PROVE SilentInRecovery'
  <2>1. UNCHANGED state /\ rewound' \in {rewound, [rewound EXCEPT ![p] = "no"]}
    BY <1>2 DEF Handle, Ask, ReadSnapshot, ReadState, Answer, Age, vars
  <2> QED BY <1>0, <2>1 DEF SilentInRecovery, RequestTypes
<1>3. ASSUME NEW p \in Procs, Stop(p) PROVE SilentInRecovery'
  <2>1. Crash(p) /\ UNCHANGED rewound
    BY <1>3 DEF Stop
  <2>2. \A q \in Procs : q # p => ~state'[q].synced
    BY <2>1, RunStep
  <2>3. ~state'[p].synced
    <3>1. state'[p] = NoState
      BY <1>0, <2>1 DEF Crash, Types
    <3> QED BY <3>1 DEF NoState
  <2> QED BY <2>1, <2>2, <2>3 DEF SilentInRecovery
<1>4. ASSUME NEW p \in Procs, Launch(p) \/ Fault(p), UNCHANGED rewound PROVE SilentInRecovery'
  <2>1. \A q \in Procs : q # p => ~state'[q].synced
    BY <1>4, RunStep
  <2>2. state'[p] = state[p] \/ ~state'[p].synced
    <3>1. CASE Launch(p)
      BY <3>1 DEF Launch
    <3>2. CASE Fault(p)
      BY <1>0, <3>2, FaultDoes
    <3> QED BY <1>4, <3>1, <3>2
  <2> QED BY <1>4, <2>1, <2>2 DEF SilentInRecovery
<1>5. CASE (LoseLock \/ ChainStep \/ UNCHANGED all) /\ UNCHANGED rewound
  <2>1. UNCHANGED state
    BY <1>5 DEF LoseLock, ChainStep, all, vars
  <2> QED BY <1>5, <2>1 DEF SilentInRecovery
<1> QED BY <1>1, <1>2, <1>3, <1>4, <1>5 DEF QNext, Others, all

\* An answer is called synced on the state of a pass whose blocks are canonical,
\* and its snapshot is among them, or a recovery has come and gone since.
LEMMA AnswerIsCanonical ==
  ASSUME PassInv, AnswerInv, SilentInRecovery, [QNext]_all, NEW p \in Procs,
         Answering(p), undisturbed[p]
  PROVE  /\ request[p].cursor >= request[p].safeHead
         /\ ShowsCanonical(p) \/ Overtaken(p)
<1>1. RequestTypes /\ SnapshotOf(p) /\ SyncedMeansCanonical
  BY PassSound DEF AnswerInv, PassesAreSound
<1>2. request'[p] # request[p] /\ request[p].step = "stated" /\ request'[p].step = "answered"
      /\ request'[p].synced
  BY DEF Answering
<1>3. Answer(p)
  <2>1. ASSUME NEW q \in Procs, Ask(q) PROVE FALSE
    <3>1. request' = [request EXCEPT ![q] = [NoRequest EXCEPT !.step = "asked"]]
      BY <2>1 DEF Ask
    <3>2. CASE q = p
      BY <1>1, <1>2, <3>1, <3>2, NoRequestFacts DEF RequestTypes
    <3>3. CASE q # p
      BY <1>1, <1>2, <3>1, <3>3 DEF RequestTypes
    <3> QED BY <3>2, <3>3
  <2>2. ASSUME NEW q \in Procs, ReadSnapshot(q) PROVE FALSE
    <3>1. q # p
      BY <1>2, <2>2 DEF ReadSnapshot
    <3>2. request'[p] = request[p]
      BY <1>1, <2>2, <3>1 DEF ReadSnapshot, RequestTypes
    <3> QED BY <1>2, <3>2
  <2>3. ASSUME NEW q \in Procs, ReadState(q) PROVE FALSE
    <3>1. q # p
      BY <1>2, <2>3 DEF ReadState
    <3>2. request'[p] = request[p]
      BY <1>1, <2>3, <3>1 DEF ReadState, RequestTypes
    <3> QED BY <1>2, <3>2
  <2>4. ASSUME NEW q \in Procs, Answer(q), q # p PROVE FALSE
    <3>1. request'[p] = request[p]
      BY <1>1, <2>4 DEF Answer, RequestTypes
    <3> QED BY <1>2, <3>1
  <2>5. ASSUME NEW q \in Procs, Stop(q) PROVE FALSE
    <3>1. request' = [request EXCEPT ![q] = NoRequest]
      BY <2>5 DEF Stop
    <3>2. CASE q = p
      BY <1>1, <1>2, <3>1, <3>2, NoRequestFacts DEF RequestTypes
    <3>3. CASE q # p
      BY <1>1, <1>2, <3>1, <3>3 DEF RequestTypes
    <3> QED BY <3>2, <3>3
  <2>6. ASSUME NEW q \in Procs, Index(q) \/ Age(q) PROVE FALSE
    BY <1>2, <2>6 DEF Index, Age
  <2>7. CASE Others \/ UNCHANGED all
    BY <1>2, <2>7 DEF Others, all
  <2> QED BY <2>1, <2>2, <2>3, <2>4, <2>5, <2>6, <2>7 DEF QNext, Handle
<1>4. Current(p)
  <2>1. \E b \in BOOLEAN : b = Current(p) /\ request' = AnsweredSet(request, p, b)
    BY <1>3 DEF Answer, AnsweredSet, Current
  <2>2. request'[p].synced = Current(p)
    BY <1>1, <2>1, AnsweredSetFacts DEF RequestTypes
  <2> QED BY <1>2, <2>2
<1>5. StoredIsCanonical /\ request[p].cursor >= request[p].safeHead
  BY <1>1, <1>4 DEF Current, Healthy, SyncedMeansCanonical
<1>6. rewound[p] \in {"no", "over"}
  BY <1>1, <1>4 DEF Current, Healthy, SilentInRecovery, RequestTypes
<1>7. CASE StillStored(p)
  BY <1>5, <1>7 DEF StillStored, ShowsCanonical, StoredIsCanonical, Canonical
<1>8. CASE ~StillStored(p)
  <2>1. rewound[p] # "no"
    BY <1>1, <1>2, <1>8 DEF SnapshotOf, StillStored
  <2> QED BY <1>5, <1>6, <1>8, <2>1 DEF Overtaken
<1> QED BY <1>7, <1>8, <1>5

\* While no second process runs beside it, a process answers synced only with
\* the blocks up to the safe head it names and a canonical block to show,
\* whatever its indexer does between the reads of the answer: commits, a rollback
\* that is under way, failed and repeated passes.  The exception is named: after
\* a whole recovery between the reads, the block on display may be one that the
\* recovery took away (http.go respond reads the state after the snapshot).
THEOREM AnswersTellTheTruth == Undisputed /\ QSpec => SyncedAnswers
<1> DEFINE Inv == PassInv /\ AnswerInv /\ SilentInRecovery
<1>1. Undisputed /\ Inv /\ [QNext]_all => Inv' /\ Undisputed'
  BY BackendStep, NextPassInv, NextAnswerInv, NextSilent DEF PassInv, Undisputed
<1>2. QInit => Inv
  <2>1. QInit => SilentInRecovery
    BY DEF QInit, SilentInRecovery
  <2> QED BY <2>1, InitPassInv, InitAnswerInv DEF QInit
<1>3. Inv /\ [QNext]_all =>
        [\A p \in Procs : Answering(p) /\ undisturbed[p] =>
           /\ request[p].cursor >= request[p].safeHead
           /\ ShowsCanonical(p) \/ Overtaken(p)]_all
  BY AnswerIsCanonical
<1> QED BY <1>1, <1>2, <1>3, PTL DEF QSpec, SyncedAnswers
===============================================================================
