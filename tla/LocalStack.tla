------------------------------ MODULE LocalStack ------------------------------
(***************************************************************************)
(* scripts/stack.mjs and processes.mjs: the local services of a demo       *)
(* (local.mjs) or of an acceptance run (verify.mjs), started one after the *)
(* other and stopped in the opposite order.  Every child runs detached, in *)
(* a process group of its own: a Ctrl+C in the terminal reaches the script *)
(* and no child.                                                           *)
(*                                                                         *)
(* A process is its position in procs.  A service is named for its port;   *)
(* the port is held from the moment the process listens until it is gone.  *)
(* SIGKILL takes effect at once.  Programs that the script runs and waits  *)
(* for (npm, the deployment, go build, the tests) succeed or fail.         *)
(***************************************************************************)
EXTENDS Integers, Sequences, SequencesExt

CONSTANTS
  Programs,     \* "demo": local.mjs, "verify": verify.mjs
  MaxDeaths,    \* bound: services that die by themselves
  MaxForeign    \* bound: ports other programs take

ASSUME LocalStackAssumption ==
  Programs \subseteq {"demo", "verify"} /\ MaxDeaths \in Nat /\ MaxForeign \in Nat

Services == <<"db", "chain", "backend", "web">>
Ports    == {Services[i] : i \in 1..Len(Services)}
Free     == 0
Foreign  == -1
End      == <<"gone", "">>

VARIABLES
  program,
  place,        \* the script: "ports", <<"spawn", s>>, <<"wait", s>>, "ready", ...
  children,     \* its list of child processes
  procs,        \* every process it spawned: service and state
  port,         \* who holds each port
  toStop,       \* processes left to stop, the one being stopped first
  afterwards,   \* where the script goes when all are stopped
  restarted,    \* restartBackend was called
  interrupted,  \* history: a signal ended the script
  deaths, foreigns

stackVars == <<program, place, children, procs, port, toStop, afterwards, restarted, interrupted,
               deaths, foreigns>>
world == <<program, restarted, interrupted, deaths, foreigns>>

StackInit ==
  /\ program \in Programs
  /\ place = <<"ports", "">>
  /\ children = <<>> /\ procs = <<>> /\ toStop = <<>> /\ afterwards = End
  /\ port = [s \in Ports |-> Free]
  /\ restarted = FALSE /\ interrupted = FALSE /\ deaths = 0 /\ foreigns = 0

Alive(p) == procs[p].state # "gone"

-----------------------------------------------------------------------------
(* The services                                                            *)

Gone(p) ==
  /\ procs' = [procs EXCEPT ![p].state = "gone"]
  /\ port'  = [s \in Ports |-> IF port[s] = p THEN Free ELSE port[s]]

\* It listens, or leaves because the port is taken.
Listen(p) ==
  /\ procs[p].state = "starting"
  /\ IF port[procs[p].service] = Free
     THEN /\ procs' = [procs EXCEPT ![p].state = "serving"]
          /\ port' = [port EXCEPT ![procs[p].service] = p]
     ELSE Gone(p)
  /\ UNCHANGED <<place, children, toStop, afterwards, world>>

Die(p) ==
  /\ Alive(p)
  /\ IF procs[p].state = "stopping" THEN UNCHANGED deaths
     ELSE deaths < MaxDeaths /\ deaths' = deaths + 1
  /\ Gone(p)
  /\ UNCHANGED <<place, children, toStop, afterwards, program, restarted, interrupted, foreigns>>

TakePort(s) ==
  /\ port[s] = Free /\ foreigns < MaxForeign /\ foreigns' = foreigns + 1
  /\ port' = [port EXCEPT ![s] = Foreign]
  /\ UNCHANGED <<place, children, procs, toStop, afterwards, program, restarted, interrupted, deaths>>

-----------------------------------------------------------------------------
(* Stopping                                                                *)

Stopping == toStop # <<>>

\* stop is called for each process in turn; then the script goes to next.
StopEach(list, next) ==
  IF list = <<>> THEN place' = next /\ UNCHANGED <<toStop, afterwards>>
  ELSE toStop' = list /\ afterwards' = next /\ UNCHANGED place

Order(list) == Reverse(list)

Shutdown == StopEach(Order(children), End)

StopNext ==
  /\ toStop' = Tail(toStop)
  /\ IF Len(toStop) = 1 THEN place' = afterwards ELSE UNCHANGED place
  /\ UNCHANGED <<children, afterwards, world>>

\* SIGTERM to the group of a process that has not exited.
Terminate ==
  /\ Stopping
  /\ procs[Head(toStop)].state \in {"starting", "serving"}
  /\ procs' = [procs EXCEPT ![Head(toStop)].state = "stopping"]
  /\ UNCHANGED <<place, children, port, toStop, afterwards, world>>

Exited == Stopping /\ ~Alive(Head(toStop)) /\ StopNext /\ UNCHANGED <<procs, port>>

\* Altered: stop waits for the exit as long as it takes.
PatienceEndless(p) == FALSE

\* Seven seconds after the SIGTERM.
PatienceEnds(p) == procs[p].state = "stopping"

Kill == Stopping /\ PatienceEnds(Head(toStop)) /\ Gone(Head(toStop)) /\ StopNext

-----------------------------------------------------------------------------
(* startStack                                                              *)

\* freePort for the chain, the backend and the page.
CheckPorts ==
  /\ place[1] = "ports" /\ ~Stopping
  /\ place' = IF \E s \in Ports \ {"db"} : port[s] # Free THEN End ELSE <<"spawn", "db">>
  /\ UNCHANGED <<children, procs, port, toStop, afterwards, world>>

Spawned(s) == Append(procs, [service |-> s, state |-> "starting"])

\* Altered: the new backend is not added to the children.
RegisteredOnce(list, p) == IF restarted THEN list ELSE Append(list, p)

Registered(list, p) == Append(list, p)

\* postgres checks its port itself, and hands over the process once it answers.
SpawnDb ==
  /\ place = <<"spawn", "db">> /\ ~Stopping
  /\ IF port["db"] # Free THEN place' = End /\ UNCHANGED procs
     ELSE place' = <<"wait", "db">> /\ procs' = Spawned("db")
  /\ UNCHANGED <<children, port, toStop, afterwards, world>>

Spawn(s) ==
  /\ s # "db" /\ place = <<"spawn", s>> /\ ~Stopping
  /\ procs' = Spawned(s)
  /\ children' = Registered(children, Len(procs) + 1)
  /\ place' = <<"wait", s>>
  /\ UNCHANGED <<port, toStop, afterwards, world>>

\* What follows once the service answers; the deployment and the build of the
\* server are run in between.
Following(s) ==
  CASE s = "db"      -> <<"spawn", "chain">>
    [] s = "chain"   -> <<"run", "backend">>
    [] s = "backend" -> IF restarted THEN <<"ready", "">> ELSE <<"spawn", "web">>
    [] s = "web"     -> <<"ready", "">>

\* Altered: waitFor returns on any outcome.
AnswersAnyway(s) == TRUE

Answers(s) == port[s] # Free

\* The port is answered, by whomever, in the expected way.
Answered(s) ==
  /\ place = <<"wait", s>> /\ ~Stopping /\ Answers(s)
  /\ place' = Following(s)
  /\ children' = IF s = "db" THEN Append(children, Len(procs)) ELSE children
  /\ UNCHANGED <<procs, port, toStop, afterwards, world>>

\* No answer, or the wrong one, within the time allowed.
TimedOut(s) ==
  /\ place = <<"wait", s>> /\ ~Stopping
  /\ IF s = "db" THEN StopEach(<<Len(procs)>>, End) ELSE Shutdown
  /\ UNCHANGED <<children, procs, port, world>>

Run ==
  /\ place = <<"run", "backend">> /\ ~Stopping
  /\ \/ place' = <<"spawn", "backend">> /\ UNCHANGED <<toStop, afterwards>>
     \/ Shutdown
  /\ UNCHANGED <<children, procs, port, world>>

-----------------------------------------------------------------------------
(* local.mjs and verify.mjs                                                *)

Ready == place = <<"ready", "">> /\ ~Stopping

\* The end-to-end test restarts the backend the stack was started with.
RestartBackend ==
  /\ program = "verify" /\ Ready /\ ~restarted /\ restarted' = TRUE
  /\ LET backend == CHOOSE p \in 1..Len(procs) : procs[p].service = "backend" IN
     StopEach(<<backend>>, <<"spawn", "backend">>)
  /\ UNCHANGED <<children, procs, port, program, interrupted, deaths, foreigns>>

\* The tests passed or failed.
Finish ==
  /\ program = "verify" /\ Ready /\ Shutdown
  /\ UNCHANGED <<children, procs, port, world>>

\* A signal.  local.mjs handles it once its services are up, and again only
\* the first one; at any other time it ends the script.
Handled == program = "demo" /\ place = <<"ready", "">>

Interrupt ==
  /\ place # End
  /\ IF Handled
     THEN ~Stopping /\ Shutdown /\ UNCHANGED interrupted
     ELSE place' = End /\ toStop' = <<>> /\ interrupted' = TRUE /\ UNCHANGED afterwards
  /\ UNCHANGED <<children, procs, port, program, restarted, deaths, foreigns>>

-----------------------------------------------------------------------------
Script ==
  \/ CheckPorts \/ SpawnDb \/ Run \/ \E s \in Ports : Spawn(s) \/ Answered(s) \/ TimedOut(s)
  \/ Terminate \/ Exited \/ Kill
  \/ RestartBackend \/ Finish

StackNext ==
  \/ Script \/ Interrupt
  \/ \E p \in 1..Len(procs) : Listen(p) \/ Die(p)
  \/ \E s \in Ports : TakePort(s)

\* Nothing is assumed of the services: they may never listen and ignore SIGTERM.
StackSpec == StackInit /\ [][StackNext]_stackVars /\ WF_stackVars(Script)

-----------------------------------------------------------------------------
(* Properties                                                              *)

\* A script that ended by itself, at whichever step it failed, after whichever
\* services died, leaves no process behind.
NothingLeft == place = End /\ ~interrupted => \A p \in 1..Len(procs) : ~Alive(p)

\* The database and the chain are not asked to stop while a backend that uses
\* them runs.
DependentsFirst ==
  \A p, q \in 1..Len(procs) :
    procs[p].service \in {"db", "chain"} /\ procs[p].state = "stopping"
      => ~(procs[q].service = "backend" /\ procs[q].state \in {"starting", "serving"})

\* How the services stop: all of them, and those that others need last.
StopsCleanly == NothingLeft /\ DependentsFirst

\* Reported ready, or restarted, the stack has its own four services listening,
\* unless one has died since or another program took a port.
ReadyServes ==
  Ready /\ deaths = 0 /\ foreigns = 0 =>
    \A s \in Ports : port[s] \in 1..Len(procs) /\ procs[port[s]].service = s

\* A script that was started is ready or has ended in the end, and one that has
\* begun to stop its services ends, even if they ignore it.
Settles == <>[](place = End \/ Ready)
===============================================================================
