------------------------------ MODULE BackendLife ------------------------------
(***************************************************************************)
(* cmd/server/main.go: the life of a backend process, from the connection  *)
(* to the database to its exit, with the three goroutines that share the   *)
(* pool: main, the indexer's worker, and the handlers of requests.  A      *)
(* supervisor starts processes at any time, several of them at once when   *)
(* one replaces another; the database grants the writer lock to one.       *)
(***************************************************************************)
CONSTANTS
  Procs,      \* the processes of a deployment
  Requests,   \* bound: requests one process handles at a time
  Nobody      \* no process: the lock is free

ASSUME BackendLifeAssumption == Nobody \notin Procs

VARIABLES
  main,       \* per process: where run() is
  cancelled,  \* the context that the signals and stop() cancel
  listener,   \* "up", "failed" or "closed"
  worker,     \* the indexer: "none", "waiting", "passing", "writing", "done"
  handler,    \* per process and request: "idle", "begun", "reading" or "failed"
  lock,       \* who holds the advisory lock
  gaveUp      \* history: the ten seconds of the shutdown ran out

lifeVars == <<main, cancelled, listener, worker, handler, lock, gaveUp>>

AllIdle == [r \in Requests |-> "idle"]

LifeInit ==
  /\ main = [p \in Procs |-> "exited"]
  /\ cancelled = [p \in Procs |-> FALSE]
  /\ listener = [p \in Procs |-> "closed"]
  /\ worker = [p \in Procs |-> "none"]
  /\ handler = [p \in Procs |-> AllIdle]
  /\ lock = Nobody
  /\ gaveUp = [p \in Procs |-> FALSE]

PoolOpen(p) == main[p] \in {"opened", "serving", "draining", "joining"}

Busy(p) == worker[p] = "writing" \/ \E r \in Requests : handler[p][r] = "reading"

-----------------------------------------------------------------------------
(* main                                                                    *)

StartProcess(p) ==
  /\ main[p] = "exited"
  /\ main' = [main EXCEPT ![p] = "opened"]
  /\ cancelled' = [cancelled EXCEPT ![p] = FALSE]
  /\ gaveUp' = [gaveUp EXCEPT ![p] = FALSE]
  /\ handler' = [handler EXCEPT ![p] = AllIdle]
  /\ UNCHANGED <<listener, worker, lock>>

\* With the lock, the worker and the listener are started together.
TakeLock(p) ==
  /\ main[p] = "opened" /\ lock = Nobody /\ ~cancelled[p]
  /\ lock' = p
  /\ main' = [main EXCEPT ![p] = "serving"]
  /\ worker' = [worker EXCEPT ![p] = "waiting"]
  /\ \E l \in {"up", "failed"} : listener' = [listener EXCEPT ![p] = l]
  /\ UNCHANGED <<cancelled, handler, gaveUp>>

\* The deferred db.Close() of a process that did not get the lock.
LockRefused(p) ==
  /\ main[p] = "opened" /\ (lock # Nobody \/ cancelled[p])
  /\ main' = [main EXCEPT ![p] = "closing"]
  /\ UNCHANGED <<cancelled, listener, worker, handler, lock, gaveUp>>

AfterShutdown(p) == "closed"

\* The select: a signal, or a listener that could not start or failed.
\* Shutdown closes the listener before it waits.
BeginShutdown(p) ==
  /\ main[p] = "serving" /\ (cancelled[p] \/ listener[p] = "failed")
  /\ main' = [main EXCEPT ![p] = "draining"]
  /\ cancelled' = [cancelled EXCEPT ![p] = @ \/ listener[p] = "failed"]
  /\ listener' = [listener EXCEPT ![p] = AfterShutdown(p)]
  /\ UNCHANGED <<worker, handler, lock, gaveUp>>

Drained(p) == \A r \in Requests : handler[p][r] \in {"idle", "failed"}

EndShutdown(p) ==
  /\ main[p] = "draining"
  /\ \/ Drained(p) /\ UNCHANGED gaveUp
     \/ ~Drained(p) /\ gaveUp' = [gaveUp EXCEPT ![p] = TRUE]
  /\ main' = [main EXCEPT ![p] = "joining"]
  /\ cancelled' = [cancelled EXCEPT ![p] = TRUE]
  /\ UNCHANGED <<listener, worker, handler, lock>>

\* Altered: main does not wait for the channel that the worker closes.
JoinedAtOnce(p) == TRUE

Joined(p) == worker[p] = "done"

\* The deferred db.Close(): the lock is released, then the pool is closed.
Release(p) ==
  /\ main[p] = "joining" /\ Joined(p)
  /\ lock' = IF lock = p THEN Nobody ELSE lock
  /\ main' = [main EXCEPT ![p] = "closing"]
  /\ UNCHANGED <<cancelled, listener, worker, handler, gaveUp>>

\* The pool waits for the connections in use.
Exit(p) ==
  /\ main[p] = "closing" /\ ~Busy(p)
  /\ main' = [main EXCEPT ![p] = "exited"]
  /\ worker' = [worker EXCEPT ![p] = "none"]
  /\ UNCHANGED <<cancelled, listener, handler, lock, gaveUp>>

RunMain(p) ==
  TakeLock(p) \/ LockRefused(p) \/ BeginShutdown(p) \/ EndShutdown(p) \/ Release(p) \/ Exit(p)

-----------------------------------------------------------------------------
(* The worker                                                              *)

BecomeWorker(p, from, to) ==
  /\ worker[p] = from
  /\ worker' = [worker EXCEPT ![p] = to]
  /\ UNCHANGED <<main, cancelled, listener, handler, lock, gaveUp>>

\* The timer may win against a context that is cancelled already.
BeginPass(p) == BecomeWorker(p, "waiting", "passing")

\* A call on a cancelled context returns an error and changes nothing.
BeginWrite(p) == ~cancelled[p] /\ BecomeWorker(p, "passing", "writing")

EndWrite(p) == BecomeWorker(p, "writing", "passing")

EndPass(p) == BecomeWorker(p, "passing", "waiting")

\* Altered: the worker's loop does not look at the context.
SeesCancelNever(p) == FALSE

SeesCancel(p) == cancelled[p]

EndWorker(p) == SeesCancel(p) /\ BecomeWorker(p, "waiting", "done")

Work(p) == BeginPass(p) \/ BeginWrite(p) \/ EndWrite(p) \/ EndPass(p) \/ EndWorker(p)

-----------------------------------------------------------------------------
(* The handlers                                                            *)

BecomeHandler(p, r, from, to) ==
  /\ handler[p][r] = from
  /\ handler' = [handler EXCEPT ![p][r] = to]
  /\ UNCHANGED <<main, cancelled, listener, worker, lock, gaveUp>>

Receive(p, r) == listener[p] = "up" /\ BecomeHandler(p, r, "idle", "begun")

Read(p, r) == PoolOpen(p) /\ BecomeHandler(p, r, "begun", "reading")

ReadRefused(p, r) == ~PoolOpen(p) /\ main[p] # "exited" /\ BecomeHandler(p, r, "begun", "failed")

Reply(p, r) == BecomeHandler(p, r, "reading", "idle")

Handle(p) == \E r \in Requests : Read(p, r) \/ ReadRefused(p, r) \/ Reply(p, r)

-----------------------------------------------------------------------------
(* What happens to a process                                               *)

Signal(p) ==
  /\ main[p] \in {"opened", "serving", "draining"} /\ ~cancelled[p]
  /\ cancelled' = [cancelled EXCEPT ![p] = TRUE]
  /\ UNCHANGED <<main, listener, worker, handler, lock, gaveUp>>

ListenerFails(p) ==
  /\ main[p] = "serving" /\ listener[p] = "up"
  /\ listener' = [listener EXCEPT ![p] = "failed"]
  /\ UNCHANGED <<main, cancelled, worker, handler, lock, gaveUp>>

\* Killed, also by a second signal after stop(): the database ends its sessions.
KillProcess(p) ==
  /\ main[p] # "exited"
  /\ main' = [main EXCEPT ![p] = "exited"]
  /\ listener' = [listener EXCEPT ![p] = "closed"]
  /\ worker' = [worker EXCEPT ![p] = "none"]
  /\ handler' = [handler EXCEPT ![p] = AllIdle]
  /\ lock' = IF lock = p THEN Nobody ELSE lock
  /\ UNCHANGED <<cancelled, gaveUp>>

LifeNext ==
  \E p \in Procs :
    \/ StartProcess(p) \/ RunMain(p) \/ Work(p) \/ Handle(p)
    \/ Signal(p) \/ ListenerFails(p) \/ KillProcess(p)
    \/ \E r \in Requests : Receive(p, r)

\* Calls return, and a goroutine that can go on does.  The worker's select is
\* random when both its timer and the context are ready, so it sees the
\* cancellation sooner or later.
LifeFairness ==
  \A p \in Procs :
    /\ WF_lifeVars(RunMain(p)) /\ WF_lifeVars(Work(p)) /\ SF_lifeVars(EndWorker(p))
    /\ WF_lifeVars(Handle(p))

LifeSpec == LifeInit /\ [][LifeNext]_lifeVars /\ LifeFairness

-----------------------------------------------------------------------------
(* Properties                                                              *)

\* Types, and a process that exited left no worker, listener or lock behind.
TypeOK ==
  /\ main \in [Procs -> {"opened", "serving", "draining", "joining", "closing", "exited"}]
  /\ cancelled \in [Procs -> BOOLEAN] /\ gaveUp \in [Procs -> BOOLEAN]
  /\ listener \in [Procs -> {"up", "failed", "closed"}]
  /\ worker \in [Procs -> {"none", "waiting", "passing", "writing", "done"}]
  /\ handler \in [Procs -> [Requests -> {"idle", "begun", "reading", "failed"}]]
  /\ lock \in Procs \cup {Nobody}
  /\ \A p \in Procs :
       main[p] = "exited" => worker[p] = "none" /\ listener[p] = "closed" /\ lock # p

\* A worker that writes belongs to the process with the lock, however processes
\* replace each other: the lock is released after the worker's last call.
WriterHoldsLock == \A p \in Procs : worker[p] \in {"passing", "writing"} => lock = p

\* A request that was received is answered from an open pool, although the
\* process is told to stop; only after ten seconds of waiting is it given up.
NoneCutOff == \A p \in Procs : \A r \in Requests : handler[p][r] = "failed" => gaveUp[p]

\* What a shutdown, a crash or a replacement never breaks.
ReplacesCleanly == WriterHoldsLock /\ NoneCutOff

\* A process that is told to stop, or whose listener fails, exits: main, worker,
\* handlers and the pool do not wait for each other in a circle.
Exits ==
  \A p \in Procs :
    main[p] # "exited" /\ (cancelled[p] \/ listener[p] = "failed") ~> main[p] = "exited"
===============================================================================
