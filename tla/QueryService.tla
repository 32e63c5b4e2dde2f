------------------------------ MODULE QueryService ------------------------------
(***************************************************************************)
(* backend/internal/service: what a process answers while its indexer      *)
(* works.  An answer is put together from three reads, a snapshot of the   *)
(* tables, the indexer's state, and that state again for its health, with  *)
(* any number of the indexer's steps in between.  One request per process; what it asks for  *)
(* (the current draw, one draw, a page of the history) does not matter,    *)
(* the snapshot stands for its tip.                                        *)
(***************************************************************************)
EXTENDS Indexer

VARIABLES
  recent,    \* the last successful pass is less than 60 s old
  request,   \* per process: the request it handles
  rewound    \* history: whether the tables were rolled back since the request's
             \* snapshot was read, and are caught up again

all == <<vars, recent, request, rewound>>

NoRequest == [step |-> "", cursor |-> 0, hash |-> NoHash, safeHead |-> 0, synced |-> FALSE]

QInit ==
  /\ Init
  /\ recent = [p \in Procs |-> FALSE]
  /\ request = [p \in Procs |-> NoRequest]
  /\ rewound = [p \in Procs |-> "no"]

-----------------------------------------------------------------------------
(* The handlers                                                            *)

Healthy(p) == state[p].synced /\ ~state[p].recovering /\ recent[p]

Running(p) == at[p] # "stopped"

\* A request is refused while the tables are rolled back.
Ask(p) ==
  /\ Running(p) /\ request[p].step \in {"", "answered"} /\ ~state[p].recovering
  /\ request' = [request EXCEPT ![p] = [NoRequest EXCEPT !.step = "asked"]]
  /\ UNCHANGED <<vars, recent, rewound>>

Tip == cursorHash

\* store.Read: one repeatable-read transaction.
ReadSnapshot(p) ==
  /\ request[p].step = "asked"
  /\ request' = [request EXCEPT ![p].step = "read", ![p].cursor = cursor, ![p].hash = Tip]
  /\ rewound' = [rewound EXCEPT ![p] = "no"]
  /\ UNCHANGED <<vars, recent>>

\* The state that goes into the answer.
ReadState(p) ==
  /\ request[p].step = "read"
  /\ request' = [request EXCEPT ![p].step = "stated", ![p].safeHead = state[p].safeHead]
  /\ UNCHANGED <<vars, recent, rewound>>

\* Altered: only the height of the snapshot is looked at.
CurrentByHeight(p) == request[p].cursor >= request[p].safeHead

Current(p) == Healthy(p) /\ request[p].cursor >= request[p].safeHead

Answer(p) ==
  /\ request[p].step = "stated"
  /\ request' = [request EXCEPT ![p].step = "answered", ![p].synced = Current(p)]
  /\ UNCHANGED <<vars, recent, rewound>>

Handle(p) == Ask(p) \/ ReadSnapshot(p) \/ ReadState(p) \/ Answer(p)

-----------------------------------------------------------------------------
(* The rest of the backend                                                 *)

\* Altered: a pass does not note when it succeeded.
SucceededNever(p) == recent[p]

Succeeded(p) == recent[p] \/ (at[p] = "scan" /\ ~MoreToScan(p))

\* history: a rewind begins, and is over when a pass says it is synced again.
Rewound(p) ==
  IF cursor' < cursor THEN [q \in Procs |-> "running"]
  ELSE IF rewound[p] = "running" /\ state'[p].synced THEN [rewound EXCEPT ![p] = "over"]
  ELSE rewound

Index(p) ==
  /\ Sync(p)
  /\ recent' = [recent EXCEPT ![p] = Succeeded(p)]
  /\ rewound' = Rewound(p)
  /\ UNCHANGED request

\* Sixty seconds without a successful pass: the next one hangs or keeps failing.
Age(p) ==
  /\ recent[p] /\ recent' = [recent EXCEPT ![p] = FALSE]
  /\ UNCHANGED <<vars, request, rewound>>

Stop(p) ==
  /\ Crash(p)
  /\ recent' = [recent EXCEPT ![p] = FALSE]
  /\ request' = [request EXCEPT ![p] = NoRequest]
  /\ UNCHANGED rewound

Others ==
  /\ (\E p \in Procs : Launch(p) \/ Fault(p)) \/ LoseLock \/ ChainStep
  /\ UNCHANGED <<recent, request, rewound>>

QNext == Others \/ \E p \in Procs : Handle(p) \/ Index(p) \/ Age(p) \/ Stop(p)

QSpec ==
  /\ QInit /\ [][QNext]_all
  /\ \A p \in Procs : WF_all(Index(p)) /\ WF_all(ReadSnapshot(p) \/ ReadState(p) \/ Answer(p))

-----------------------------------------------------------------------------
(* Properties                                                              *)

Answering(p) == request[p].step = "stated" /\ request'[p].step = "answered" /\ request'[p].synced

ShowsCanonical(p) ==
  LET r == request[p] IN r.hash # NoHash => r.cursor <= Len(chain) /\ r.hash = C!HashAt(r.cursor)

\* What the snapshot showed is still in the tables.
StillStored(p) ==
  LET r == request[p] IN
  r.hash # NoHash => r.cursor \in DOMAIN blocks /\ blocks[r.cursor].hash = r.hash

\* A whole recovery fits between the first and the last read of the answer: the
\* tables were rolled back below the block it shows, and caught up again.
Overtaken(p) == rewound[p] = "over" /\ ~StillStored(p)

\* An answer marked synced reaches the safe head it names and shows a canonical
\* block, if the chain has not changed since the last pass began: although the
\* indexer commits, rolls back and recovers between the reads.  A rollback that
\* is under way never shows.  The one exception is an answer that a whole
\* recovery has overtaken, with a block that the recovery took away.
SyncedAnswers ==
  [][\A p \in Procs : Answering(p) /\ undisturbed[p] =>
       /\ request[p].cursor >= request[p].safeHead
       /\ ShowsCanonical(p) \/ Overtaken(p)]_all

\* A deployment whose process keeps the lock reports ready again and again, after
\* any reorganisation, failure or pause.
ReadyAgain ==
  <>[](lock # Nobody) => []<>(\E p \in Procs : Healthy(p))
===============================================================================
