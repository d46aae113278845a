-------------------------- MODULE ActionScheduler --------------------------
(***************************************************************************)
(* pkg/goanalysis/action_scheduler.go: one actionGraphExecutor per package *)
(* and the actionWorkerPool they share.                                    *)
(*                                                                         *)
(* Each package's goroutine runs runActionGraph: it hands ready actions to *)
(* idle workers over the unbuffered channel `tasks`, receives results from *)
(* its own buffered channel `completedCh`, and stops launching as soon as  *)
(* its run context is done.  e.ready and completedCh are sets here: the    *)
(* slice order of e.actions comes from iterating a map (runner.go, maps.   *)
(* Values) and the order of results is a race between workers.  The pool's *)
(* goroutines are interchangeable, so a worker is not named: the pool is   *)
(* the number of goroutines that are neither executing, sending nor gone.  *)
(***************************************************************************)
EXTENDS Naturals, FiniteSets

CONSTANTS
    Pkgs,      \* packages whose graphs run concurrently
    Actions,   \* all actions
    PkgOf,     \* action.Package
    Deps,      \* action.Deps, as a set: may cross packages and may be cyclic
    PoolSize   \* actionWorkersPerProcessor * GOMAXPROCS

ASSUME SchedulerAssumption ==
    /\ IsFiniteSet(Actions)
    /\ PkgOf \in [Actions -> Pkgs]
    /\ Deps \in [Actions -> SUBSET Actions]
    /\ PoolSize \in Nat \ {0}

VARIABLES
    pc,             \* where each package's goroutine is in run()
    ready,          \* e.ready
    remainingDeps,  \* e.remainingDeps, of every executor
    completedCh,    \* results waiting in e.completedCh
    running,        \* e.running
    completed,      \* e.completed
    firstErr,       \* e.firstErr # nil
    stopped,        \* e.stopped
    stop,           \* e.stop() was called: runCtx is done
    ctxDone,        \* the parent context is done
    status,         \* what became of each action; "err" is act.Err # nil
    outcome,        \* what runActionGraph returned
    sending,        \* actions whose worker is at task.completedCh <- ...
    tasksClosed,    \* close(p.tasks)
    exited          \* worker goroutines that left runWorker

evars == <<ready, remainingDeps, completedCh, running, completed, firstErr, stopped, stop>>
wvars == <<sending, tasksClosed, exited>>
vars  == <<pc, evars, ctxDone, status, outcome, wvars>>

ActionsOf(p) == {a \in Actions : PkgOf[a] = p}

\* buildGraph skips a dependency on an action of another package.
HDeps(a) == {d \in Deps[a] : PkgOf[d] = PkgOf[a]}

\* e.runCtx.Err() # nil: derived from the parent context and from e.stop.
RunDone(p) == ctxDone \/ stop[p]

Executing == {a \in Actions : status[a] = "running"}

IdleWorkers == PoolSize - (Cardinality(Executing) + Cardinality(sending) + exited)

Init ==
    /\ pc = [p \in Pkgs |-> "idle"]
    /\ ready = [p \in Pkgs |-> {}]
    /\ remainingDeps = [a \in Actions |-> 0]
    /\ completedCh = [p \in Pkgs |-> {}]
    /\ running = [p \in Pkgs |-> 0]
    /\ completed = [p \in Pkgs |-> 0]
    /\ firstErr = [p \in Pkgs |-> FALSE]
    /\ stopped = [p \in Pkgs |-> FALSE]
    /\ stop = [p \in Pkgs |-> FALSE]
    /\ ctxDone = FALSE
    /\ status = [a \in Actions |-> "pending"]
    /\ outcome = [p \in Pkgs |-> "none"]
    /\ sending = {}
    /\ tasksClosed = FALSE
    /\ exited = 0

Goto(p, from, to) == pc[p] = from /\ pc' = [pc EXCEPT ![p] = to]

\* runActionGraph: nothing to do for a package without actions.
BeginEmpty(p) ==
    /\ Goto(p, "idle", "done")
    /\ ActionsOf(p) = {}
    /\ outcome' = [outcome EXCEPT ![p] = "ok"]
    /\ UNCHANGED <<evars, ctxDone, status, wvars>>

\* newActionGraphExecutor and buildGraph.
Begin(p) ==
    /\ Goto(p, "idle", "loop")
    /\ ActionsOf(p) # {}
    /\ remainingDeps' = [a \in Actions |->
            IF PkgOf[a] = p THEN Cardinality(HDeps(a)) ELSE remainingDeps[a]]
    /\ ready' = [ready EXCEPT ![p] = {a \in ActionsOf(p) : HDeps(a) = {}}]
    /\ UNCHANGED <<completedCh, running, completed, firstErr, stopped, stop,
                   ctxDone, status, outcome, wvars>>

\* The condition of the loop in run().
Loop(p) ==
    /\ IF ready[p] # {} \/ running[p] > 0
       THEN Goto(p, "loop", "launch")
       ELSE Goto(p, "loop", "result")
    /\ UNCHANGED <<evars, ctxDone, status, outcome, wvars>>

\* The head of launchReady's loop: leave it, or look at the run context and
\* enter the select.
LaunchCheck(p) ==
    /\ IF ~stopped[p] /\ ready[p] # {} /\ ~RunDone(p)
       THEN Goto(p, "launch", "select")
       ELSE Goto(p, "launch", "await")
    /\ stopped' = [stopped EXCEPT ![p] = @ \/ (ready[p] # {} /\ RunDone(p))]
    /\ UNCHANGED <<ready, remainingDeps, completedCh, running, completed, firstErr, stop,
                   ctxDone, status, outcome, wvars>>

\* case e.workers.tasks <- ...: a rendezvous with an idle worker.
Launch(p, a) ==
    /\ Goto(p, "select", "launch")
    /\ a \in ready[p]
    /\ IdleWorkers > 0
    /\ ready' = [ready EXCEPT ![p] = @ \ {a}]
    /\ running' = [running EXCEPT ![p] = @ + 1]
    /\ status' = [status EXCEPT ![a] = "running"]
    /\ UNCHANGED <<remainingDeps, completedCh, completed, firstErr, stopped, stop,
                   ctxDone, outcome, wvars>>

\* case <-e.runCtx.Done().
SelectDone(p) ==
    /\ Goto(p, "select", "launch")
    /\ RunDone(p)
    /\ stopped' = [stopped EXCEPT ![p] = TRUE]
    /\ UNCHANGED <<ready, remainingDeps, completedCh, running, completed, firstErr, stop,
                   ctxDone, status, outcome, wvars>>

\* if result.err != nil && e.firstErr == nil { ...; e.stop() }
MutNeverStops(p, failed) == FALSE
StopsRun(p, failed) == failed /\ ~firstErr[p]

\* The last missing dependency of d has completed.
MutAnyDep(d) == remainingDeps[d] >= 1
LastDep(d) == remainingDeps[d] = 1

\* complete(result): the first error stops the run, and a stopped run
\* releases no dependent.
Complete(p, a) ==
    LET failed   == status[a] = "err"
        released == {d \in ActionsOf(p) : a \in HDeps(d) /\ ~RunDone(p) /\ ~failed}
    IN  /\ a \in completedCh[p]
        /\ completedCh' = [completedCh EXCEPT ![p] = @ \ {a}]
        /\ running' = [running EXCEPT ![p] = @ - 1]
        /\ completed' = [completed EXCEPT ![p] = @ + 1]
        /\ firstErr' = [firstErr EXCEPT ![p] = @ \/ failed]
        /\ stop' = [stop EXCEPT ![p] = @ \/ StopsRun(p, failed)]
        /\ remainingDeps' = [d \in Actions |->
                IF d \in released THEN remainingDeps[d] - 1 ELSE remainingDeps[d]]
        /\ ready' = [ready EXCEPT ![p] =
                @ \cup {d \in released : LastDep(d)}]
        /\ UNCHANGED <<ctxDone, status, outcome, wvars>>

\* case result := <-e.completedCh in launchReady.
SelectReceive(p, a) ==
    /\ Goto(p, "select", "launch")
    /\ Complete(p, a)
    /\ UNCHANGED stopped

\* if e.running == 0 { break }
MutDrained(p) == running[p] = 0 \/ stopped[p]
Drained(p) == running[p] = 0

\* The tail of run()'s loop: nothing runs, leave the loop ...
MutAwaitNone(p) ==
    /\ Goto(p, "await", IF ready[p] = {} THEN "result" ELSE "loop")
    /\ Drained(p)
    /\ UNCHANGED <<evars, ctxDone, status, outcome, wvars>>
AwaitNone(p) ==
    /\ Goto(p, "await", "result")
    /\ Drained(p)
    /\ UNCHANGED <<evars, ctxDone, status, outcome, wvars>>

\* ... or block for one result.
AwaitReceive(p, a) ==
    /\ Goto(p, "await", "loop")
    /\ ~Drained(p)
    /\ Complete(p, a)
    /\ stopped' = [stopped EXCEPT ![p] = @ \/ ctxDone \/ stop'[p]]

\* result() finds nothing to complain about.
MutFinishedAlways(p) == TRUE
MutFinishedNoCtx(p) == completed[p] = Cardinality(ActionsOf(p))
Finished(p) == ctxDone \/ completed[p] = Cardinality(ActionsOf(p))

\* result(), and the deferred executor.stop().
Result(p) ==
    /\ Goto(p, "result", "done")
    /\ stop' = [stop EXCEPT ![p] = TRUE]
    /\ \/ /\ firstErr[p]
          /\ outcome' = [outcome EXCEPT ![p] = "failed"]
          /\ UNCHANGED status
       \/ /\ ~firstErr[p]
          /\ Finished(p)
          /\ outcome' = [outcome EXCEPT ![p] = "ok"]
          /\ UNCHANGED status
       \/ /\ ~firstErr[p]
          /\ ~Finished(p)
          /\ outcome' = [outcome EXCEPT ![p] = "unschedulable"]
          /\ LET blocked == {a \in ActionsOf(p) : remainingDeps[a] > 0}
             IN  \/ \E a \in blocked : status' = [status EXCEPT ![a] = "err"]
                 \/ blocked = {} /\ UNCHANGED status
    /\ UNCHANGED <<ready, remainingDeps, completedCh, running, completed, firstErr, stopped,
                   ctxDone, wvars>>

\* runWorker: task.execute(task.action) ends, with or without an error.
Execute(a) ==
    /\ status[a] = "running"
    /\ \E r \in {"ok", "err"} : status' = [status EXCEPT ![a] = r]
    /\ sending' = sending \cup {a}
    /\ UNCHANGED <<pc, evars, ctxDone, outcome, tasksClosed, exited>>

\* runWorker: task.completedCh <- ..., a channel of capacity len(actions).
SendResult(a) ==
    LET p == PkgOf[a]
    IN  /\ a \in sending
        /\ Cardinality(completedCh[p]) < Cardinality(ActionsOf(p))
        /\ sending' = sending \ {a}
        /\ completedCh' = [completedCh EXCEPT ![p] = @ \cup {a}]
        /\ UNCHANGED <<pc, ready, remainingDeps, running, completed, firstErr, stopped, stop,
                       ctxDone, status, outcome, tasksClosed, exited>>

\* The context comes from the caller, which may cancel it at any moment.
Cancel ==
    /\ ~ctxDone
    /\ ctxDone' = TRUE
    /\ UNCHANGED <<pc, evars, status, outcome, wvars>>

\* actionWorkerPool.close, called by runner.analyze after wg.Wait().
ClosePool ==
    /\ ~tasksClosed
    /\ \A p \in Pkgs : pc[p] = "done"
    /\ tasksClosed' = TRUE
    /\ UNCHANGED <<pc, evars, ctxDone, status, outcome, sending, exited>>

\* The range over p.tasks ends for an idle worker.
WorkerExit ==
    /\ tasksClosed
    /\ IdleWorkers > 0
    /\ exited' = exited + 1
    /\ UNCHANGED <<pc, evars, ctxDone, status, outcome, sending, tasksClosed>>

\* p.wg.Wait() returned: the analysis is over.
Terminated == exited = PoolSize /\ UNCHANGED vars

Executor(p) ==
    \/ BeginEmpty(p) \/ Begin(p) \/ Loop(p) \/ LaunchCheck(p) \/ SelectDone(p)
    \/ AwaitNone(p) \/ Result(p)
    \/ \E a \in Actions : Launch(p, a) \/ SelectReceive(p, a) \/ AwaitReceive(p, a)

Worker(a) == Execute(a) \/ SendResult(a)

Next ==
    \/ \E p \in Pkgs : Executor(p)
    \/ \E a \in Actions : Worker(a)
    \/ Cancel \/ ClosePool \/ WorkerExit \/ Terminated

Spec == Init /\ [][Next]_vars

\* The Go runtime runs every goroutine that can run; analyzers terminate.
\* Nobody has to cancel.
Fairness ==
    /\ \A p \in Pkgs : WF_vars(Executor(p))
    /\ \A a \in Actions : WF_vars(Worker(a))
    /\ WF_vars(ClosePool) /\ WF_vars(WorkerExit)

FairSpec == Spec /\ Fairness
-----------------------------------------------------------------------------
\* Counters never go below zero (complete's e.running-- and the decrement of
\* remainingDeps included), and every variable keeps its type.
TypeOK ==
    /\ pc \in [Pkgs -> {"idle", "loop", "launch", "select", "await", "result", "done"}]
    /\ ready \in [Pkgs -> SUBSET Actions]
    /\ remainingDeps \in [Actions -> Nat]
    /\ completedCh \in [Pkgs -> SUBSET Actions]
    /\ running \in [Pkgs -> Nat]
    /\ completed \in [Pkgs -> Nat]
    /\ firstErr \in [Pkgs -> BOOLEAN]
    /\ stopped \in [Pkgs -> BOOLEAN]
    /\ stop \in [Pkgs -> BOOLEAN]
    /\ ctxDone \in BOOLEAN
    /\ status \in [Actions -> {"pending", "running", "ok", "err"}]
    /\ outcome \in [Pkgs -> {"none", "ok", "failed", "unschedulable"}]
    /\ sending \in SUBSET Actions
    /\ tasksClosed \in BOOLEAN
    /\ exited \in Nat

\* An executor launches as long as it has not seen the context done; in the
\* select it may launch once more.
live == {p \in Pkgs : pc[p] \notin {"idle", "done"} /\ (pc[p] = "select" \/ ~ctxDone)}

\* The contract: whatever the interleaving of executors, workers and
\* cancellation, runActionGraph does what ActionGraph says.
G == INSTANCE ActionGraph
ImplementsActionGraph == G!GSpec

\* When runActionGraph has returned, no worker still executes or reports an
\* action of that package: loadingPackage.analyze goes on to persist the
\* facts and to free the passes (decUse), which would race with it.
NothingOutlivesTheCall ==
    \A p \in Pkgs : pc[p] = "done" =>
        \A a \in ActionsOf(p) :
            status[a] # "running" /\ a \notin sending /\ a \notin completedCh[p]

\* The error "unschedulable nodes" is returned only for a graph with a
\* cycle: a set of actions that never ran and all wait for one another.
UnschedulableMeansCycle ==
    \A p \in Pkgs : outcome[p] = "unschedulable" =>
        \E S \in SUBSET {a \in ActionsOf(p) : status[a] \in {"pending", "err"}} :
            S # {} /\ \A a \in S : HDeps(a) \cap S # {}

\* A call that returned nil left an action out only because the context was
\* cancelled.
OkMeansComplete ==
    \A p \in Pkgs : outcome[p] = "ok" /\ ~ctxDone =>
        \A a \in ActionsOf(p) : status[a] = "ok"

\* e.running counts exactly the actions that are with a worker or whose
\* result has not been received; nobody waits for a result that never comes.
RunningCountsInFlight ==
    \A p \in Pkgs :
        running[p] = Cardinality({a \in ActionsOf(p) :
                        status[a] = "running" \/ a \in sending \/ a \in completedCh[p]})

\* Once an executor has received an error it launches nothing any more.
NoLaunchAfterFirstError ==
    [][\A p \in Pkgs : firstErr[p] =>
          \A a \in ActionsOf(p) : status'[a] = "running" => status[a] = "running"]_vars

\* Every call returns and every worker goroutine leaves the pool.
PoolDrains == <>(exited = PoolSize)
=============================================================================
