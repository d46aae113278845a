----------------------- MODULE ActionSchedulerProofs -----------------------
(***************************************************************************)
(* The inductive invariant of ActionScheduler and what follows from it for *)
(* every set of packages, every action graph (cyclic ones included) and    *)
(* every pool size.                                                        *)
(***************************************************************************)
EXTENDS ActionScheduler, FiniteSetTheorems, TLAPS

Open(p) == pc[p] \notin {"idle", "done"}

\* Actions with a worker, or whose result the executor has not received.
InFlight(p) == {a \in ActionsOf(p) :
    status[a] = "running" \/ a \in sending \/ a \in completedCh[p]}

\* Actions whose result the executor has received.
Processed(p) == {a \in ActionsOf(p) :
    status[a] \in {"ok", "err"} /\ a \notin sending /\ a \notin completedCh[p]}

\* What a still waits for.
Waiting(a) == HDeps(a) \ Processed(PkgOf[a])

ResultsInv ==
    /\ \A a \in sending : status[a] \in {"ok", "err"}
    /\ \A p \in Pkgs : \A a \in completedCh[p] :
          PkgOf[a] = p /\ status[a] \in {"ok", "err"} /\ a \notin sending

\* The counters of an executor count what they should.
CountInv ==
    \A p \in Pkgs :
        /\ running[p] = Cardinality(InFlight(p))
        /\ pc[p] # "done" => completed[p] = Cardinality(Processed(p))

IdleInv ==
    \A p \in Pkgs :
        /\ ~Open(p) => InFlight(p) = {}
        /\ pc[p] = "idle" => \A a \in ActionsOf(p) : status[a] = "pending"
        /\ pc[p] = "idle" => ready[p] = {}
        /\ outcome[p] = "none" <=> pc[p] # "done"

ErrInv ==
    \A p \in Pkgs :
        /\ pc[p] # "done" => (firstErr[p] <=> \E a \in Processed(p) : status[a] = "err")
        /\ pc[p] # "done" => (stop[p] <=> firstErr[p])
        /\ stopped[p] => RunDone(p)

\* A ready or started action has everything it requires.
StartedInv ==
    \A p \in Pkgs : Open(p) =>
        /\ ready[p] \subseteq {a \in ActionsOf(p) : status[a] = "pending"}
        /\ \A a \in ActionsOf(p) : status[a] # "pending" \/ a \in ready[p] =>
              \A d \in HDeps(a) : d \in Processed(p) /\ status[d] = "ok"

\* remainingDeps never falls behind what an action waits for, and is exact
\* until the run is stopped.
RemainingInv ==
    \A p \in Pkgs : Open(p) =>
        \A a \in ActionsOf(p) :
            /\ remainingDeps[a] >= Cardinality(Waiting(a))
            /\ ~RunDone(p) => /\ remainingDeps[a] = Cardinality(Waiting(a))
                              /\ status[a] = "pending" => a \in ready[p] \/ Waiting(a) # {}

\* What each point of run() and launchReady() may rely on.
PcInv ==
    \A p \in Pkgs :
        /\ pc[p] = "select" => ~firstErr[p]
        /\ pc[p] = "await" => stopped[p] \/ ready[p] = {}
        /\ pc[p] = "result" => running[p] = 0 /\ (ready[p] = {} \/ RunDone(p))

IInv == TypeOK /\ ResultsInv /\ CountInv /\ IdleInv /\ ErrInv /\ StartedInv
        /\ RemainingInv /\ PcInv
-----------------------------------------------------------------------------
USE SchedulerAssumption

\* Sets of actions are finite, so their cardinalities are natural numbers.
LEMMA ActionSets ==
    ASSUME NEW S \in SUBSET Actions
    PROVE  IsFiniteSet(S) /\ Cardinality(S) \in Nat /\ (Cardinality(S) = 0 <=> S = {})
<1>1. IsFiniteSet(S)
    BY FS_Subset
<1> QED
    BY <1>1, FS_CardinalityType, FS_EmptySet

\* Counting a set of actions with one action more.
LEMMA AddAction ==
    ASSUME NEW S \in SUBSET Actions, NEW a \in Actions, a \notin S
    PROVE  Cardinality(S \cup {a}) = Cardinality(S) + 1
BY ActionSets, FS_AddElement

\* Counting a set of actions with one action less.
LEMMA RemoveAction ==
    ASSUME NEW S \in SUBSET Actions, NEW a \in S
    PROVE  Cardinality(S \ {a}) = Cardinality(S) - 1 /\ Cardinality(S) > 0
<1>1. S # {}
    OBVIOUS
<1>2. IsFiniteSet(S) /\ Cardinality(S) \in Nat /\ Cardinality(S) # 0
    BY <1>1, ActionSets
<1>3. Cardinality(S \ {a}) = Cardinality(S) - 1
    BY <1>2, FS_RemoveElement
<1> QED
    BY <1>2, <1>3

\* The initial state satisfies the invariant.
LEMMA InitIInv == Init => IInv
<1> SUFFICES ASSUME Init PROVE IInv
    OBVIOUS
<1>1. TypeOK
    BY DEF Init, TypeOK
<1>2. \A p \in Pkgs : InFlight(p) = {} /\ Processed(p) = {}
    BY DEF Init, InFlight, Processed, ActionsOf
<1>3. CountInv
    BY <1>2, FS_EmptySet DEF Init, CountInv
<1>4. ResultsInv /\ StartedInv /\ RemainingInv /\ PcInv
    BY DEF Init, ResultsInv, StartedInv, RemainingInv, PcInv, Open
<1>5. IdleInv
    BY <1>2 DEF Init, IdleInv, Open, ActionsOf
<1>6. ErrInv
    BY <1>2 DEF Init, ErrInv
<1> QED
    BY <1>1, <1>3, <1>4, <1>5, <1>6 DEF IInv

\* Steps that move an executor through its loop without touching actions.
LEMMA QuietStep ==
    ASSUME IInv, NEW p \in Pkgs,
           Loop(p) \/ LaunchCheck(p) \/ SelectDone(p) \/ AwaitNone(p)
    PROVE  IInv'
<1> USE DEF IInv
<1>1. /\ UNCHANGED <<ready, remainingDeps, completedCh, running, completed, firstErr, stop,
                     ctxDone, status, outcome, wvars>>
      /\ \E to \in {"launch", "select", "await", "result"} : pc' = [pc EXCEPT ![p] = to]
      /\ pc[p] \in {"loop", "launch", "select", "await"}
    BY DEF Loop, LaunchCheck, SelectDone, AwaitNone, Goto, evars, TypeOK
<1>2. stopped' \in [Pkgs -> BOOLEAN] /\ \A q \in Pkgs : stopped'[q] => stopped[q] \/ RunDone(q)
    BY DEF Loop, LaunchCheck, SelectDone, AwaitNone, Goto, evars, TypeOK
<1>3. TypeOK'
    BY <1>1, <1>2 DEF TypeOK, wvars
<1>4. \A q \in Pkgs : /\ InFlight(q)' = InFlight(q) /\ Processed(q)' = Processed(q)
                      /\ Open(q)' = Open(q) /\ RunDone(q)' = RunDone(q)
    BY <1>1 DEF InFlight, Processed, ActionsOf, wvars, Open, RunDone, TypeOK
<1>5. \A a \in Actions : Waiting(a)' = Waiting(a)
    BY <1>4 DEF Waiting, HDeps
<1>6. ResultsInv' /\ CountInv'
    BY <1>1, <1>4 DEF ResultsInv, CountInv, wvars, TypeOK
<1>7. IdleInv' /\ ErrInv'
    BY <1>1, <1>2, <1>4 DEF IdleInv, ErrInv, TypeOK
<1>8. StartedInv' /\ RemainingInv'
    BY <1>1, <1>4, <1>5 DEF StartedInv, RemainingInv, ActionsOf, HDeps
<1>9. PcInv'
    <2>1. ASSUME NEW q \in Pkgs, pc'[q] = "await" PROVE stopped'[q] \/ ready'[q] = {}
        BY <2>1 DEF PcInv, Loop, LaunchCheck, SelectDone, AwaitNone, Goto, evars, TypeOK
    <2>2. ASSUME NEW q \in Pkgs, pc'[q] = "result"
          PROVE  running'[q] = 0 /\ (ready'[q] = {} \/ RunDone(q)')
        BY <2>2, <1>1, <1>4 DEF PcInv, ErrInv, Loop, LaunchCheck, SelectDone, AwaitNone, Drained,
                          Goto, evars, TypeOK
    <2>3. ASSUME NEW q \in Pkgs, pc'[q] = "select" PROVE ~firstErr'[q]
        BY <2>3, <1>1 DEF PcInv, ErrInv, RunDone, Loop, LaunchCheck, SelectDone, AwaitNone,
                          Goto, TypeOK
    <2> QED
        BY <2>1, <2>2, <2>3 DEF PcInv
<1> QED
    BY <1>3, <1>6, <1>7, <1>8, <1>9

\* A package without actions is done at once.
LEMMA BeginEmptyStep == ASSUME IInv, NEW p \in Pkgs, BeginEmpty(p) PROVE IInv'
<1> USE DEF IInv
<1>1. /\ UNCHANGED <<evars, ctxDone, status, wvars>> /\ ActionsOf(p) = {}
      /\ pc[p] = "idle" /\ pc' = [pc EXCEPT ![p] = "done"]
      /\ outcome' = [outcome EXCEPT ![p] = "ok"]
    BY DEF BeginEmpty, Goto
<1>2. TypeOK'
    BY <1>1 DEF TypeOK, evars, wvars
<1>3. \A q \in Pkgs : /\ InFlight(q)' = InFlight(q) /\ Processed(q)' = Processed(q)
                      /\ Open(q)' = Open(q) /\ RunDone(q)' = RunDone(q)
    BY <1>1 DEF InFlight, Processed, ActionsOf, evars, wvars, Open, RunDone, TypeOK
<1>4. \A a \in Actions : Waiting(a)' = Waiting(a)
    BY <1>3 DEF Waiting, HDeps
<1>5. ResultsInv' /\ CountInv'
    BY <1>1, <1>3 DEF ResultsInv, CountInv, evars, wvars, TypeOK
<1>6. IdleInv' /\ ErrInv'
    BY <1>1, <1>3 DEF IdleInv, ErrInv, TypeOK, evars, Open
<1>7. StartedInv' /\ RemainingInv' /\ PcInv'
    BY <1>1, <1>3, <1>4 DEF StartedInv, RemainingInv, PcInv, ActionsOf, HDeps, TypeOK, evars
<1> QED
    BY <1>2, <1>5, <1>6, <1>7

\* buildGraph: at first an action waits for all its horizontal dependencies.
LEMMA BeginStep == ASSUME IInv, NEW p \in Pkgs, Begin(p) PROVE IInv'
<1> USE DEF IInv
<1>1. /\ UNCHANGED <<completedCh, running, completed, firstErr, stopped, stop, ctxDone,
                     status, outcome, wvars>>
      /\ pc[p] = "idle" /\ pc' = [pc EXCEPT ![p] = "loop"]
      /\ remainingDeps' = [a \in Actions |->
            IF PkgOf[a] = p THEN Cardinality(HDeps(a)) ELSE remainingDeps[a]]
      /\ ready' = [ready EXCEPT ![p] = {a \in ActionsOf(p) : HDeps(a) = {}}]
    BY DEF Begin, Goto
<1>2. \A a \in Actions : HDeps(a) \in SUBSET Actions /\ Cardinality(HDeps(a)) \in Nat
    BY ActionSets DEF HDeps
<1>3. TypeOK'
    BY <1>1, <1>2 DEF TypeOK, wvars, ActionsOf
<1>4. \A q \in Pkgs : /\ InFlight(q)' = InFlight(q) /\ Processed(q)' = Processed(q)
                      /\ RunDone(q)' = RunDone(q)
                      /\ q # p => Open(q)' = Open(q)
    BY <1>1 DEF InFlight, Processed, ActionsOf, wvars, Open, RunDone, TypeOK
<1>5. InFlight(p) = {} /\ Processed(p) = {} /\ \A a \in ActionsOf(p) : status[a] = "pending"
    BY <1>1 DEF IdleInv, Open, Processed
<1>6. \A a \in Actions : Waiting(a)' = Waiting(a) /\ (PkgOf[a] = p => Waiting(a) = HDeps(a))
    BY <1>4, <1>5 DEF Waiting, HDeps
<1>7. ResultsInv' /\ CountInv'
    BY <1>1, <1>4 DEF ResultsInv, CountInv, wvars, TypeOK
<1>8. IdleInv' /\ ErrInv'
    BY <1>1, <1>4, <1>5 DEF IdleInv, ErrInv, TypeOK, Open
<1>9. StartedInv'
    BY <1>1, <1>4, <1>5 DEF StartedInv, ActionsOf, HDeps, TypeOK
<1>10. RemainingInv'
    BY <1>1, <1>2, <1>4, <1>5, <1>6 DEF RemainingInv, ActionsOf, TypeOK
<1>11. PcInv'
    BY <1>1, <1>4 DEF PcInv, TypeOK
<1> QED
    BY <1>3, <1>7, <1>8, <1>9, <1>10, <1>11

\* Handing an action to a worker.
LEMMA LaunchStep ==
    ASSUME IInv, NEW p \in Pkgs, NEW b \in Actions, Launch(p, b) PROVE IInv'
<1> USE DEF IInv
<1>1. /\ UNCHANGED <<remainingDeps, completedCh, completed, firstErr, stopped, stop,
                     ctxDone, outcome, wvars>>
      /\ pc[p] = "select" /\ pc' = [pc EXCEPT ![p] = "launch"]
      /\ b \in ready[p] /\ ready' = [ready EXCEPT ![p] = @ \ {b}]
      /\ running' = [running EXCEPT ![p] = @ + 1]
      /\ status' = [status EXCEPT ![b] = "running"]
    BY DEF Launch, Goto
<1>2. TypeOK'
    BY <1>1 DEF TypeOK, wvars
<1>3. Open(p) /\ b \in ActionsOf(p) /\ status[b] = "pending" /\ PkgOf[b] = p
    BY <1>1 DEF StartedInv, Open, ActionsOf
<1>4. b \notin sending /\ \A q \in Pkgs : b \notin completedCh[q]
    BY <1>3 DEF ResultsInv
<1>5. /\ \A q \in Pkgs : /\ Processed(q)' = Processed(q) /\ RunDone(q)' = RunDone(q)
                         /\ Open(q)' = Open(q) /\ b \notin Processed(q)
                         /\ q # p => InFlight(q)' = InFlight(q)
      /\ InFlight(p)' = InFlight(p) \cup {b} /\ b \notin InFlight(p)
    BY <1>1, <1>3, <1>4 DEF InFlight, Processed, ActionsOf, wvars, Open, RunDone, TypeOK
<1>6. \A a \in Actions : Waiting(a)' = Waiting(a)
    BY <1>5 DEF Waiting, HDeps
<1>7. ResultsInv'
    BY <1>1, <1>3, <1>4 DEF ResultsInv, wvars, TypeOK
<1>8. CountInv'
    <2>1. Cardinality(InFlight(p)') = Cardinality(InFlight(p)) + 1
        BY <1>5, AddAction DEF InFlight, ActionsOf
    <2> QED
        BY <1>1, <1>5, <2>1 DEF CountInv, TypeOK
<1>9. IdleInv' /\ ErrInv'
    <2>1. \A q \in Pkgs : \A a \in Processed(q) : status'[a] = status[a]
        BY <1>1, <1>5 DEF Processed, ActionsOf, TypeOK
    <2>2. \A q \in Pkgs : (pc'[q] = "done" <=> pc[q] = "done") /\ (pc'[q] = "idle" <=> pc[q] = "idle")
        BY <1>1 DEF TypeOK
    <2>3. ErrInv'
        BY <1>1, <1>5, <2>1, <2>2 DEF ErrInv
    <2>4. IdleInv'
        BY <1>1, <1>3, <1>5, <2>2 DEF IdleInv, Open, ActionsOf, TypeOK
    <2> QED
        BY <2>3, <2>4
<1>10. StartedInv'
    BY <1>1, <1>3, <1>5 DEF StartedInv, Processed, ActionsOf, HDeps, TypeOK
<1>11. RemainingInv'
    BY <1>1, <1>3, <1>5, <1>6 DEF RemainingInv, ActionsOf, TypeOK
<1>12. PcInv'
    BY <1>1, <1>5 DEF PcInv, TypeOK
<1> QED
    BY <1>2, <1>7, <1>8, <1>9, <1>10, <1>11, <1>12

\* A worker finishes an action: its result is now to be sent.
LEMMA ExecuteStep == ASSUME IInv, NEW b \in Actions, Execute(b) PROVE IInv'
<1> USE DEF IInv
<1>1. /\ UNCHANGED <<pc, evars, ctxDone, outcome, tasksClosed, exited>>
      /\ status[b] = "running" /\ sending' = sending \cup {b}
    BY DEF Execute
<1>2. PICK r \in {"ok", "err"} : status' = [status EXCEPT ![b] = r]
    BY DEF Execute
<1>3. TypeOK'
    BY <1>1, <1>2 DEF TypeOK, evars
<1>4. b \notin sending /\ \A q \in Pkgs : b \notin completedCh[q]
    BY <1>1 DEF ResultsInv
<1>5. \A q \in Pkgs : /\ InFlight(q)' = InFlight(q) /\ Processed(q)' = Processed(q)
                      /\ Open(q)' = Open(q) /\ RunDone(q)' = RunDone(q) /\ b \notin Processed(q)
    BY <1>1, <1>2, <1>4 DEF InFlight, Processed, ActionsOf, evars, Open, RunDone, TypeOK
<1>6. \A a \in Actions : Waiting(a)' = Waiting(a)
    BY <1>5 DEF Waiting, HDeps
<1>7. ResultsInv'
    BY <1>1, <1>2, <1>4 DEF ResultsInv, evars, TypeOK
<1>8. CountInv'
    BY <1>1, <1>5 DEF CountInv, evars
<1>9. IdleInv'
    <2>1. Open(PkgOf[b])
        BY <1>1 DEF IdleInv, InFlight, ActionsOf
    <2> QED
        BY <1>1, <1>2, <1>5, <2>1 DEF IdleInv, evars, Open, ActionsOf, TypeOK
<1>10. ErrInv'
    <2>1. \A q \in Pkgs : \A a \in Processed(q) : status'[a] = status[a]
        BY <1>2, <1>5 DEF Processed, ActionsOf, TypeOK
    <2> QED
        BY <1>1, <1>5, <2>1 DEF ErrInv, evars
<1>11. StartedInv'
    BY <1>1, <1>2, <1>5 DEF StartedInv, Processed, ActionsOf, HDeps, evars, TypeOK
<1>12. RemainingInv' /\ PcInv'
    BY <1>1, <1>2, <1>5, <1>6 DEF RemainingInv, PcInv, ActionsOf, evars, TypeOK
<1> QED
    BY <1>3, <1>7, <1>8, <1>9, <1>10, <1>11, <1>12

\* A worker sends a result to the executor of the action's package.
LEMMA SendResultStep == ASSUME IInv, NEW b \in Actions, SendResult(b) PROVE IInv'
<1> USE DEF IInv
<1>1. /\ UNCHANGED <<pc, ready, remainingDeps, running, completed, firstErr, stopped, stop,
                     ctxDone, status, outcome, tasksClosed, exited>>
      /\ b \in sending /\ sending' = sending \ {b}
      /\ completedCh' = [completedCh EXCEPT ![PkgOf[b]] = @ \cup {b}]
    BY DEF SendResult
<1>2. TypeOK'
    BY <1>1 DEF TypeOK
<1>3. \A q \in Pkgs : /\ InFlight(q)' = InFlight(q) /\ Processed(q)' = Processed(q)
                      /\ Open(q)' = Open(q) /\ RunDone(q)' = RunDone(q)
    BY <1>1 DEF InFlight, Processed, ActionsOf, Open, RunDone, TypeOK
<1>4. \A a \in Actions : Waiting(a)' = Waiting(a)
    BY <1>3 DEF Waiting, HDeps
<1>5. ResultsInv'
    BY <1>1 DEF ResultsInv, TypeOK
<1>6. CountInv' /\ IdleInv' /\ ErrInv'
    BY <1>1, <1>3 DEF CountInv, IdleInv, ErrInv
<1>7. StartedInv' /\ RemainingInv' /\ PcInv'
    BY <1>1, <1>3, <1>4 DEF StartedInv, RemainingInv, PcInv, ActionsOf, HDeps
<1> QED
    BY <1>2, <1>5, <1>6, <1>7

\* complete(result): the executor receives the result of b.
LEMMA CompleteStep ==
    ASSUME IInv, NEW p \in Pkgs, NEW b \in Actions, Complete(p, b),
           NEW to \in {"launch", "loop"},
           pc[p] \in {"select", "await"}, pc' = [pc EXCEPT ![p] = to],
           stopped' \in [Pkgs -> BOOLEAN],
           \A q \in Pkgs : (stopped'[q] => stopped[q] \/ RunDone(q)') /\ (stopped[q] => stopped'[q])
    PROVE  IInv'
<1> USE DEF IInv
<1> DEFINE failed == status[b] = "err"
           released == {d \in ActionsOf(p) : b \in HDeps(d) /\ ~RunDone(p) /\ ~failed}
<1>1. /\ UNCHANGED <<ctxDone, status, outcome, wvars>>
      /\ b \in completedCh[p] /\ completedCh' = [completedCh EXCEPT ![p] = @ \ {b}]
      /\ running' = [running EXCEPT ![p] = @ - 1]
      /\ completed' = [completed EXCEPT ![p] = @ + 1]
      /\ firstErr' = [firstErr EXCEPT ![p] = @ \/ failed]
      /\ stop' = [stop EXCEPT ![p] = @ \/ StopsRun(p, failed)]
      /\ remainingDeps' = [d \in Actions |->
            IF d \in released THEN remainingDeps[d] - 1 ELSE remainingDeps[d]]
      /\ ready' = [ready EXCEPT ![p] = @ \cup {d \in released : LastDep(d)}]
    BY DEF Complete
<1>2. b \in ActionsOf(p) /\ status[b] \in {"ok", "err"} /\ b \notin sending /\ Open(p)
    BY <1>1 DEF ResultsInv, ActionsOf, Open
<1>3. /\ \A q \in Pkgs : /\ Open(q)' = Open(q)
                         /\ q # p => /\ InFlight(q)' = InFlight(q)
                                     /\ Processed(q)' = Processed(q)
                                     /\ RunDone(q)' = RunDone(q)
      /\ InFlight(p)' = InFlight(p) \ {b} /\ b \in InFlight(p)
      /\ Processed(p)' = Processed(p) \cup {b} /\ b \notin Processed(p)
    BY <1>1, <1>2 DEF InFlight, Processed, ActionsOf, wvars, Open, RunDone, TypeOK
<1>4. /\ firstErr'[p] = (firstErr[p] \/ failed) /\ stop'[p] = (stop[p] \/ failed)
      /\ stop[p] = firstErr[p] /\ RunDone(p)' = (RunDone(p) \/ failed)
    <2>1. stop[p] \in BOOLEAN /\ firstErr[p] \in BOOLEAN /\ ctxDone \in BOOLEAN /\ ctxDone' = ctxDone
        BY <1>1 DEF TypeOK
    <2>2. stop[p] = firstErr[p]
        BY <1>2, <2>1 DEF ErrInv, Open
    <2>3. firstErr'[p] = (firstErr[p] \/ failed) /\ stop'[p] = (stop[p] \/ (failed /\ ~firstErr[p]))
        BY <1>1 DEF StopsRun, TypeOK
    <2>4. stop'[p] = (stop[p] \/ failed)
        BY <2>1, <2>2, <2>3
    <2> QED
        BY <2>1, <2>2, <2>3, <2>4 DEF RunDone
<1>5. /\ Cardinality(InFlight(p)') = Cardinality(InFlight(p)) - 1
      /\ Cardinality(InFlight(p)) > 0
      /\ Cardinality(Processed(p)') = Cardinality(Processed(p)) + 1
    BY <1>3, AddAction, RemoveAction DEF InFlight, Processed, ActionsOf
<1>6. \A d \in Actions :
        /\ Waiting(d) \in SUBSET Actions
        /\ Cardinality(Waiting(d)) \in Nat
        /\ Waiting(d)' = IF PkgOf[d] = p THEN Waiting(d) \ {b} ELSE Waiting(d)
    <2>1. \A d \in Actions : Waiting(d) \in SUBSET Actions
        BY DEF Waiting, HDeps
    <2> QED
        BY <2>1, <1>3, ActionSets DEF Waiting, HDeps
<1>7. \A d \in ActionsOf(p) : b \in HDeps(d) => b \in Waiting(d) /\ status[d] = "pending" /\ d \notin ready[p]
    BY <1>2, <1>3 DEF Waiting, StartedInv, ActionsOf
<1>8. \A d \in released : /\ remainingDeps[d] = Cardinality(Waiting(d))
                          /\ Cardinality(Waiting(d)) > 0
                          /\ Cardinality(Waiting(d)') = Cardinality(Waiting(d)) - 1
    BY <1>2, <1>6, <1>7, RemoveAction DEF RemainingInv, ActionsOf
<1>9. TypeOK'
    <2>1. remainingDeps' \in [Actions -> Nat]
        BY <1>1, <1>6, <1>8 DEF TypeOK
    <2>2. running' \in [Pkgs -> Nat] /\ completed' \in [Pkgs -> Nat]
        BY <1>1, <1>5 DEF TypeOK, CountInv
    <2>3. firstErr' \in [Pkgs -> BOOLEAN] /\ stop' \in [Pkgs -> BOOLEAN]
        BY <1>1, <1>4 DEF TypeOK
    <2>4. /\ pc' \in [Pkgs -> {"idle", "loop", "launch", "select", "await", "result", "done"}]
          /\ ready' \in [Pkgs -> SUBSET Actions] /\ completedCh' \in [Pkgs -> SUBSET Actions]
        BY <1>1 DEF TypeOK, ActionsOf
    <2> QED
        BY <1>1, <2>1, <2>2, <2>3, <2>4 DEF TypeOK, wvars
<1>10. ResultsInv'
    BY <1>1 DEF ResultsInv, wvars, TypeOK
<1>11. \A q \in Pkgs : (pc'[q] = "done" <=> pc[q] = "done") /\ (pc'[q] = "idle" <=> pc[q] = "idle")
    BY DEF TypeOK
<1>12. CountInv'
    <2>1. ASSUME NEW q \in Pkgs, q # p
          PROVE  running'[q] = Cardinality(InFlight(q)') /\ completed'[q] = completed[q]
        BY <2>1, <1>1, <1>3 DEF CountInv, TypeOK
    <2>2. running'[p] = Cardinality(InFlight(p)') /\ completed'[p] = Cardinality(Processed(p)')
        BY <1>1, <1>2, <1>5 DEF CountInv, TypeOK, Open
    <2> QED
        BY <2>1, <2>2, <1>3, <1>11 DEF CountInv
<1>13. IdleInv'
    BY <1>1, <1>2, <1>3, <1>11 DEF IdleInv, Open, ActionsOf, TypeOK
<1>14. ErrInv'
    <2>1. ASSUME NEW q \in Pkgs, q # p
          PROVE  firstErr'[q] = firstErr[q] /\ stop'[q] = stop[q]
        BY <2>1, <1>1 DEF TypeOK
    <2>2. firstErr'[p] <=> \E a \in Processed(p)' : status'[a] = "err"
        BY <1>1, <1>2, <1>3, <1>4 DEF ErrInv, Open
    <2>3. stop'[p] <=> firstErr'[p]
        BY <1>4
    <2>4. \A q \in Pkgs : stopped'[q] => RunDone(q)'
        BY <1>3, <1>4 DEF ErrInv
    <2> QED
        BY <1>1, <1>3, <1>11, <2>1, <2>2, <2>3, <2>4 DEF ErrInv
<1>15. ASSUME NEW d \in released, LastDep(d)
       PROVE  \A e \in HDeps(d) : e \in Processed(p)' /\ status[e] = "ok"
    <2>1. Waiting(d)' = {}
        BY <1>6, <1>8, <1>15, ActionSets DEF LastDep, ActionsOf
    <2>2. \A e \in HDeps(d) : e \in Processed(p)'
        BY <2>1 DEF Waiting, HDeps, ActionsOf
    <2>3. \A e \in Processed(p)' : status[e] = "ok"
        BY <1>2, <1>3, <1>4, <1>15 DEF ErrInv, RunDone, Open, Processed
    <2> QED
        BY <2>2, <2>3
<1>16. StartedInv'
    <2>1. ASSUME NEW q \in Pkgs, q # p, Open(q)'
          PROVE  /\ ready'[q] \subseteq {a \in ActionsOf(q) : status'[a] = "pending"}
                 /\ \A a \in ActionsOf(q) : status'[a] # "pending" \/ a \in ready'[q] =>
                       \A d \in HDeps(a) : d \in Processed(q)' /\ status'[d] = "ok"
        BY <2>1, <1>1, <1>3 DEF StartedInv, TypeOK
    <2>2. ready'[p] \subseteq {a \in ActionsOf(p) : status'[a] = "pending"}
        BY <1>1, <1>2, <1>7 DEF StartedInv, TypeOK
    <2>3. ASSUME NEW a \in ActionsOf(p), status'[a] # "pending" \/ a \in ready'[p]
          PROVE  \A d \in HDeps(a) : d \in Processed(p)' /\ status'[d] = "ok"
        <3>1. CASE status[a] # "pending" \/ a \in ready[p]
            BY <3>1, <1>1, <1>2, <1>3 DEF StartedInv
        <3>2. CASE a \in released /\ LastDep(a)
            BY <3>2, <1>1, <1>15
        <3> QED
            BY <2>3, <3>1, <3>2, <1>1 DEF TypeOK
    <2> QED
        BY <2>1, <2>2, <2>3 DEF StartedInv, ActionsOf, HDeps
<1>17. RemainingInv'
    <2>1. ASSUME NEW q \in Pkgs, q # p, Open(q)', NEW a \in ActionsOf(q)
          PROVE  /\ remainingDeps'[a] >= Cardinality(Waiting(a)')
                 /\ ~RunDone(q)' => /\ remainingDeps'[a] = Cardinality(Waiting(a)')
                                    /\ status'[a] = "pending" => a \in ready'[q] \/ Waiting(a)' # {}
        BY <2>1, <1>1, <1>3, <1>6 DEF RemainingInv, ActionsOf, TypeOK
    <2>2. ASSUME NEW a \in ActionsOf(p)
          PROVE  /\ remainingDeps'[a] >= Cardinality(Waiting(a)')
                 /\ ~RunDone(p)' => /\ remainingDeps'[a] = Cardinality(Waiting(a)')
                                    /\ status'[a] = "pending" => a \in ready'[p] \/ Waiting(a)' # {}
        <3>1. CASE a \in released
            <4>1. /\ remainingDeps'[a] = remainingDeps[a] - 1
                  /\ remainingDeps'[a] = Cardinality(Waiting(a)')
                  /\ Cardinality(Waiting(a)') \in Nat
                BY <3>1, <1>1, <1>6, <1>8 DEF ActionsOf
            <4>2. ASSUME Waiting(a)' = {} PROVE a \in ready'[p]
                <5>1. Cardinality(Waiting(a)') = 0
                    BY <4>2, FS_EmptySet
                <5>2. remainingDeps[a] = 1
                    BY <5>1, <3>1, <1>6, <1>8 DEF ActionsOf
                <5> QED
                    BY <5>2, <3>1, <1>1 DEF LastDep, TypeOK
            <4> QED
                BY <4>1, <4>2
        <3>2. CASE a \notin released /\ b \notin HDeps(a)
            <4>1. Waiting(a)' = Waiting(a) /\ remainingDeps'[a] = remainingDeps[a]
                BY <3>2, <1>1, <1>6 DEF Waiting, ActionsOf
            <4> QED
                BY <4>1, <1>1, <1>2, <1>4 DEF RemainingInv, TypeOK
        <3>3. CASE a \notin released /\ b \in HDeps(a)
            <4>1. RunDone(p)' /\ remainingDeps'[a] = remainingDeps[a]
                BY <3>3, <1>1, <1>4 DEF ActionsOf
            <4>2. Cardinality(Waiting(a)') = Cardinality(Waiting(a)) - 1 /\ Cardinality(Waiting(a)) \in Nat
                BY <3>3, <1>6, <1>7, RemoveAction DEF ActionsOf
            <4>3. remainingDeps[a] >= Cardinality(Waiting(a)) /\ remainingDeps[a] \in Nat
                BY <1>2 DEF RemainingInv, ActionsOf, TypeOK
            <4> QED
                BY <4>1, <4>2, <4>3
        <3> QED
            BY <3>1, <3>2, <3>3
    <2> QED
        BY <2>1, <2>2 DEF RemainingInv, ActionsOf
<1>18. PcInv'
    <2>1. ASSUME NEW q \in Pkgs, q # p
          PROVE  /\ running'[q] = running[q] /\ ready'[q] = ready[q]
                 /\ pc'[q] = pc[q] /\ RunDone(q)' = RunDone(q) /\ firstErr'[q] = firstErr[q]
        BY <2>1, <1>1, <1>3 DEF TypeOK
    <2>2. pc'[p] = to
        BY DEF TypeOK
    <2> QED
        BY <2>1, <2>2 DEF PcInv
<1> QED
    BY <1>9, <1>10, <1>12, <1>13, <1>14, <1>16, <1>17, <1>18

\* The two places where an executor receives a result.
LEMMA ReceiveStep ==
    ASSUME IInv, NEW p \in Pkgs, NEW b \in Actions, SelectReceive(p, b) \/ AwaitReceive(p, b)
    PROVE  IInv'
<1>1. CASE SelectReceive(p, b)
    <2>1. /\ Complete(p, b) /\ pc[p] = "select" /\ pc' = [pc EXCEPT ![p] = "launch"]
          /\ stopped' = stopped /\ stopped \in [Pkgs -> BOOLEAN]
        BY <1>1 DEF SelectReceive, Goto, IInv, TypeOK
    <2> QED
        BY <2>1, CompleteStep
<1>2. CASE AwaitReceive(p, b)
    <2>1. /\ Complete(p, b) /\ pc[p] = "await" /\ pc' = [pc EXCEPT ![p] = "loop"]
          /\ stopped' = [stopped EXCEPT ![p] = @ \/ ctxDone \/ stop'[p]]
          /\ stopped \in [Pkgs -> BOOLEAN] /\ ctxDone' = ctxDone /\ ctxDone \in BOOLEAN
          /\ stop' = [stop EXCEPT ![p] = @ \/ StopsRun(p, status[b] = "err")]
          /\ stop \in [Pkgs -> BOOLEAN]
        BY <1>2 DEF AwaitReceive, Complete, Goto, IInv, TypeOK
    <2>2. stopped'[p] = (stopped[p] \/ RunDone(p)') /\ stopped' \in [Pkgs -> BOOLEAN]
        BY <2>1 DEF RunDone
    <2>3. \A q \in Pkgs : (stopped'[q] => stopped[q] \/ RunDone(q)') /\ (stopped[q] => stopped'[q])
        BY <2>1, <2>2
    <2> QED
        BY <2>1, <2>2, <2>3, CompleteStep
<1> QED
    BY <1>1, <1>2

\* What the executor knows when it calls result(): nothing is in flight, and
\* if it neither failed nor was cancelled then what never ran waits for
\* something that never ran.
LEMMA AtResult ==
    ASSUME IInv, NEW p \in Pkgs, pc[p] = "result"
    PROVE  /\ InFlight(p) = {}
           /\ \A a \in ActionsOf(p) : status[a] = "pending" \/ a \in Processed(p)
           /\ firstErr[p] <=> \E a \in ActionsOf(p) : status[a] = "err"
           /\ completed[p] = Cardinality(ActionsOf(p)) <=> Processed(p) = ActionsOf(p)
           /\ ~firstErr[p] /\ ~ctxDone =>
                \A a \in ActionsOf(p) :
                    /\ remainingDeps[a] > 0 <=> status[a] = "pending"
                    /\ status[a] = "pending" => \E d \in HDeps(a) : status[d] = "pending"
<1> USE DEF IInv
<1>1. InFlight(p) = {}
    <2>1. InFlight(p) \in SUBSET Actions /\ Cardinality(InFlight(p)) = 0
        BY DEF PcInv, CountInv, InFlight, ActionsOf
    <2> QED
        BY <2>1, ActionSets
<1>2. \A a \in ActionsOf(p) : status[a] = "pending" \/ a \in Processed(p)
    BY <1>1 DEF InFlight, Processed, ActionsOf, TypeOK
<1>3. firstErr[p] <=> \E a \in ActionsOf(p) : status[a] = "err"
    BY <1>2 DEF ErrInv, Processed
<1>4. completed[p] = Cardinality(ActionsOf(p)) <=> Processed(p) = ActionsOf(p)
    <2>1. completed[p] = Cardinality(Processed(p))
        BY DEF CountInv
    <2>2. Processed(p) \in SUBSET ActionsOf(p) /\ IsFiniteSet(ActionsOf(p))
        BY ActionSets DEF Processed, ActionsOf
    <2> QED
        BY <2>1, <2>2, FS_Subset
<1>5. ASSUME ~firstErr[p], ~ctxDone, NEW a \in ActionsOf(p)
      PROVE  /\ remainingDeps[a] > 0 <=> status[a] = "pending"
             /\ status[a] = "pending" => \E d \in HDeps(a) : status[d] = "pending"
    <2>1. Open(p) /\ ~RunDone(p) /\ a \notin ready[p]
        BY <1>5 DEF Open, RunDone, ErrInv, PcInv
    <2>2. Waiting(a) \in SUBSET Actions /\ remainingDeps[a] = Cardinality(Waiting(a))
        BY <2>1 DEF RemainingInv, Waiting, HDeps, ActionsOf
    <2>3. remainingDeps[a] > 0 <=> Waiting(a) # {}
        BY <2>2, ActionSets
    <2>4. status[a] = "pending" => Waiting(a) # {}
        BY <2>1 DEF RemainingInv
    <2>5. status[a] # "pending" => Waiting(a) = {}
        BY <2>1 DEF StartedInv, Waiting, ActionsOf
    <2>6. \A d \in Waiting(a) : d \in HDeps(a) /\ status[d] = "pending"
        BY <1>2 DEF Waiting, HDeps, ActionsOf
    <2> QED
        BY <2>3, <2>4, <2>5, <2>6
<1> QED
    BY <1>1, <1>2, <1>3, <1>4, <1>5

\* result() and the deferred stop(): only an action that never ran can be
\* given the error.
LEMMA ResultStep == ASSUME IInv, NEW p \in Pkgs, Result(p) PROVE IInv'
<1> USE DEF IInv
<1>1. /\ UNCHANGED <<ready, remainingDeps, completedCh, running, completed, firstErr, stopped,
                     ctxDone, wvars>>
      /\ pc[p] = "result" /\ pc' = [pc EXCEPT ![p] = "done"]
      /\ stop' = [stop EXCEPT ![p] = TRUE]
    BY DEF Result, Goto
<1>2. \E r \in {"ok", "failed", "unschedulable"} : outcome' = [outcome EXCEPT ![p] = r]
    BY DEF Result
<1>3. \/ UNCHANGED status
      \/ \E a \in ActionsOf(p) : status[a] = "pending" /\ status' = [status EXCEPT ![a] = "err"]
    BY <1>1, AtResult DEF Result, Finished
<1>4. \A a \in Actions : PkgOf[a] # p => status'[a] = status[a]
    BY <1>3 DEF ActionsOf, TypeOK
<1>5. TypeOK'
    <2>1. status' \in [Actions -> {"pending", "running", "ok", "err"}]
        BY <1>3 DEF TypeOK, ActionsOf
    <2> QED
        BY <1>1, <1>2, <2>1 DEF TypeOK, wvars
<1>6. InFlight(p) = {}
    BY <1>1, AtResult
<1>7. \A a \in ActionsOf(p) : a \notin sending /\ a \notin completedCh[p] /\ status'[a] # "running"
    BY <1>3, <1>6 DEF InFlight, ActionsOf, TypeOK
<1>8. InFlight(p)' = {}
    BY <1>1, <1>7 DEF InFlight, ActionsOf, wvars
<1>9. \A q \in Pkgs : q # p => /\ InFlight(q)' = InFlight(q) /\ Processed(q)' = Processed(q)
                               /\ Open(q)' = Open(q) /\ RunDone(q)' = RunDone(q)
                               /\ pc'[q] = pc[q] /\ outcome'[q] = outcome[q] /\ stop'[q] = stop[q]
    BY <1>1, <1>2, <1>4 DEF InFlight, Processed, ActionsOf, wvars, Open, RunDone, TypeOK
<1>10. \A a \in Actions : PkgOf[a] # p => Waiting(a)' = Waiting(a)
    BY <1>9 DEF Waiting, HDeps
<1>11. pc'[p] = "done" /\ ~Open(p)' /\ outcome'[p] # "none" /\ stop'[p]
    BY <1>1, <1>2 DEF TypeOK, Open
<1>12. ResultsInv'
    BY <1>1, <1>3, <1>4, <1>7 DEF ResultsInv, ActionsOf, wvars, TypeOK
<1>13. CountInv'
    <2>1. running[p] = Cardinality(InFlight(p)')
        BY <1>6, <1>8 DEF CountInv
    <2>2. \A q \in Pkgs : running[q] = Cardinality(InFlight(q)')
        BY <1>9, <2>1 DEF CountInv
    <2> QED
        BY <1>1, <1>9, <1>11, <2>2 DEF CountInv
<1>14. IdleInv'
    BY <1>1, <1>4, <1>8, <1>9, <1>11 DEF IdleInv, ActionsOf
<1>15. ErrInv'
    <2>1. RunDone(p)'
        BY <1>11 DEF RunDone
    <2>2. \A q \in Pkgs : q # p => \A a \in Processed(q) : status'[a] = status[a]
        BY <1>4 DEF Processed, ActionsOf
    <2> QED
        BY <1>1, <1>9, <1>11, <2>1, <2>2 DEF ErrInv
<1>16. StartedInv'
    BY <1>1, <1>4, <1>9, <1>11 DEF StartedInv, ActionsOf, HDeps
<1>17. RemainingInv'
    BY <1>1, <1>4, <1>9, <1>10, <1>11 DEF RemainingInv, ActionsOf
<1>18. PcInv'
    BY <1>1, <1>9, <1>11 DEF PcInv
<1> QED
    BY <1>5, <1>12, <1>13, <1>14, <1>15, <1>16, <1>17, <1>18

\* Steps of the caller and of the pool: they touch no executor.
LEMMA OutsideStep ==
    ASSUME IInv, Cancel \/ ClosePool \/ WorkerExit \/ UNCHANGED vars
    PROVE  IInv'
<1> USE DEF IInv
<1>1. /\ UNCHANGED <<pc, evars, status, outcome, sending>>
      /\ ctxDone' \in BOOLEAN /\ (ctxDone => ctxDone')
      /\ tasksClosed' \in BOOLEAN /\ exited' \in Nat
    <2>1. CASE Cancel
        BY <2>1 DEF Cancel, wvars, TypeOK
    <2>2. CASE ClosePool
        BY <2>2 DEF ClosePool, TypeOK
    <2>3. CASE WorkerExit
        BY <2>3 DEF WorkerExit, TypeOK
    <2>4. CASE UNCHANGED vars
        BY <2>4 DEF vars, wvars, TypeOK
    <2> QED
        BY <2>1, <2>2, <2>3, <2>4
<1>2. TypeOK'
    BY <1>1 DEF TypeOK, evars
<1>3. \A q \in Pkgs : /\ InFlight(q)' = InFlight(q) /\ Processed(q)' = Processed(q)
                      /\ Open(q)' = Open(q) /\ (RunDone(q) => RunDone(q)')
    BY <1>1 DEF InFlight, Processed, ActionsOf, evars, Open, RunDone
<1>4. \A a \in Actions : Waiting(a)' = Waiting(a)
    BY <1>3 DEF Waiting, HDeps
<1>5. ResultsInv' /\ CountInv' /\ IdleInv'
    BY <1>1, <1>3 DEF ResultsInv, CountInv, IdleInv, evars, ActionsOf
<1>6. ErrInv' /\ PcInv'
    BY <1>1, <1>3 DEF ErrInv, PcInv, evars
<1>7. StartedInv' /\ RemainingInv'
    BY <1>1, <1>3, <1>4 DEF StartedInv, RemainingInv, ActionsOf, HDeps, evars
<1> QED
    BY <1>2, <1>5, <1>6, <1>7

\* Every step preserves the invariant.
LEMMA NextIInv == ASSUME IInv, [Next]_vars PROVE IInv'
<1>1. ASSUME NEW p \in Pkgs, Executor(p) PROVE IInv'
    BY <1>1, BeginEmptyStep, BeginStep, QuietStep, ResultStep, LaunchStep, ReceiveStep DEF Executor
<1>2. ASSUME NEW a \in Actions, Worker(a) PROVE IInv'
    BY <1>2, ExecuteStep, SendResultStep DEF Worker
<1>3. CASE Cancel \/ ClosePool \/ WorkerExit \/ Terminated \/ UNCHANGED vars
    BY <1>3, OutsideStep DEF Terminated
<1> QED
    BY <1>1, <1>2, <1>3 DEF Next

\* The inductive invariant holds in every reachable state.
THEOREM Invariance == Spec => []IInv
<1>1. Init => IInv
    BY InitIInv
<1>2. IInv /\ [Next]_vars => IInv'
    BY NextIInv
<1> QED
    BY <1>1, <1>2, PTL DEF Spec

\* The variables of every executor and of the pool have their types: no
\* counter of action_scheduler.go falls below zero.
THEOREM TypeCorrect == Spec => []TypeOK
<1>1. IInv => TypeOK
    BY DEF IInv
<1> QED
    BY <1>1, Invariance, PTL

\* After runActionGraph has returned no worker touches the package's actions.
THEOREM CallsAreClosed == Spec => []NothingOutlivesTheCall
<1>1. IInv => NothingOutlivesTheCall
    BY DEF IInv, IdleInv, Open, InFlight, NothingOutlivesTheCall
<1> QED
    BY <1>1, Invariance, PTL

\* e.running is the number of results the executor still has to receive.
THEOREM RunningIsExact == Spec => []RunningCountsInFlight
<1>1. IInv => RunningCountsInFlight
    BY DEF IInv, CountInv, InFlight, RunningCountsInFlight
<1> QED
    BY <1>1, Invariance, PTL

\* How each step changes the status of actions and the outcome of calls.
LEMMA StatusStep ==
    ASSUME IInv, [Next]_vars
    PROVE  \/ status' = status /\ outcome' = outcome
           \/ \E p \in Pkgs : BeginEmpty(p) \/ Result(p)
           \/ \E p \in Pkgs : \E a \in Actions : Launch(p, a)
           \/ \E a \in Actions : Execute(a) /\ outcome' = outcome
<1>1. ASSUME NEW p \in Pkgs, Executor(p)
      PROVE  \/ status' = status /\ outcome' = outcome
             \/ BeginEmpty(p) \/ Result(p) \/ \E a \in Actions : Launch(p, a)
    BY <1>1 DEF Executor, Begin, Loop, LaunchCheck, SelectDone, AwaitNone, SelectReceive,
                AwaitReceive, Complete
<1>2. ASSUME NEW a \in Actions, Worker(a)
      PROVE  (Execute(a) /\ outcome' = outcome) \/ (status' = status /\ outcome' = outcome)
    BY <1>2 DEF Worker, Execute, SendResult
<1>3. CASE Cancel \/ ClosePool \/ WorkerExit \/ Terminated \/ UNCHANGED vars
    BY <1>3 DEF Cancel, ClosePool, WorkerExit, Terminated, vars
<1> QED
    BY <1>1, <1>2, <1>3 DEF Next

\* An executor that has received an error hands no action to a worker.
THEOREM NoLateLaunch == Spec => NoLaunchAfterFirstError
<1>1. ASSUME IInv, [Next]_vars, NEW q \in Pkgs, firstErr[q], NEW b \in ActionsOf(q),
             status'[b] = "running"
      PROVE  status[b] = "running"
    <2> USE DEF IInv
    <2>1. CASE \E p \in Pkgs : BeginEmpty(p) \/ Result(p)
        <3>1. UNCHANGED status \/ \E a \in Actions : status' = [status EXCEPT ![a] = "err"]
            BY <2>1 DEF BeginEmpty, Result, ActionsOf
        <3> QED
            BY <1>1, <3>1 DEF TypeOK, ActionsOf
    <2>2. ASSUME NEW p \in Pkgs, NEW a \in Actions, Launch(p, a) PROVE status[b] = "running"
        <3>1. ~firstErr[p] /\ PkgOf[a] = p /\ status' = [status EXCEPT ![a] = "running"]
            BY <1>1, <2>2 DEF Launch, Goto, PcInv, StartedInv, Open, ActionsOf
        <3> QED
            BY <1>1, <3>1 DEF TypeOK, ActionsOf
    <2>3. ASSUME NEW a \in Actions, Execute(a) PROVE status[b] = "running"
        BY <1>1, <2>3 DEF Execute, TypeOK, ActionsOf
    <2> QED
        BY <1>1, <2>1, <2>2, <2>3, StatusStep
<1>2. IInv /\ [Next]_vars =>
        [\A p \in Pkgs : firstErr[p] =>
            \A a \in ActionsOf(p) : status'[a] = "running" => status[a] = "running"]_vars
    BY <1>1
<1> QED
    BY <1>2, Invariance, PTL DEF Spec, NoLaunchAfterFirstError

\* The status of a package's actions and the outcome of its call are final
\* once the call has returned, and a cancelled context stays cancelled.
LEMMA DoneIsFinal ==
    ASSUME IInv, [Next]_vars, NEW q \in Pkgs, outcome[q] # "none"
    PROVE  outcome'[q] = outcome[q] /\ \A b \in ActionsOf(q) : status'[b] = status[b]
<1> USE DEF IInv
<1>1. pc[q] = "done" /\ \A b \in ActionsOf(q) : status[b] # "running"
    BY DEF IdleInv, Open, InFlight
<1>2. ASSUME NEW p \in Pkgs, BeginEmpty(p)
      PROVE  outcome'[q] = outcome[q] /\ \A b \in ActionsOf(q) : status'[b] = status[b]
    BY <1>1, <1>2 DEF BeginEmpty, Goto, TypeOK
<1>3. ASSUME NEW p \in Pkgs, Result(p)
      PROVE  outcome'[q] = outcome[q] /\ \A b \in ActionsOf(q) : status'[b] = status[b]
    <2>1. p # q
        BY <1>1, <1>3 DEF Result, Goto
    <2>2. \/ UNCHANGED status
          \/ \E a \in ActionsOf(p) : status' = [status EXCEPT ![a] = "err"]
        BY <1>3 DEF Result
    <2>3. outcome'[q] = outcome[q]
        BY <1>3, <2>1 DEF Result, TypeOK
    <2> QED
        BY <2>1, <2>2, <2>3 DEF ActionsOf, TypeOK
<1>4. ASSUME NEW p \in Pkgs, NEW a \in Actions, Launch(p, a)
      PROVE  outcome'[q] = outcome[q] /\ \A b \in ActionsOf(q) : status'[b] = status[b]
    <2>1. p # q /\ PkgOf[a] = p
        BY <1>1, <1>4 DEF Launch, Goto, StartedInv, Open, ActionsOf
    <2> QED
        BY <1>4, <2>1 DEF Launch, ActionsOf, TypeOK
<1>5. ASSUME NEW a \in Actions, Execute(a)
      PROVE  outcome'[q] = outcome[q] /\ \A b \in ActionsOf(q) : status'[b] = status[b]
    BY <1>1, <1>5 DEF Execute, ActionsOf, TypeOK
<1> QED
    BY <1>2, <1>3, <1>4, <1>5, StatusStep

\* runActionGraph returns nil only for a graph every action of which ran
\* without an error, unless its context was cancelled.
THEOREM OkIsComplete == Spec => []OkMeansComplete
<1>1. Init => OkMeansComplete
    BY DEF Init, OkMeansComplete
<1>2. ASSUME IInv, OkMeansComplete, [Next]_vars PROVE OkMeansComplete'
    <2> SUFFICES ASSUME NEW q \in Pkgs, outcome'[q] = "ok", ~ctxDone'
                 PROVE  \A b \in ActionsOf(q) : status'[b] = "ok"
        BY DEF OkMeansComplete, ActionsOf
    <2> USE DEF IInv
    <2>1. CASE outcome[q] # "none"
        <3>1. ~ctxDone
            BY <1>2 DEF Next, Executor, Worker, Cancel, ClosePool, WorkerExit, Terminated, vars,
                BeginEmpty, Begin, Loop, LaunchCheck, SelectDone, AwaitNone, Result, Launch,
                SelectReceive, AwaitReceive, Complete, Execute, SendResult
        <3> QED
            BY <1>2, <2>1, <3>1, DoneIsFinal DEF OkMeansComplete
    <2>2. CASE outcome[q] = "none"
        <3>1. PICK p \in Pkgs : BeginEmpty(p) \/ Result(p)
            BY <1>2, <2>2, StatusStep DEF Launch
        <3>2. p = q
            BY <1>2, <2>2, <3>1 DEF BeginEmpty, Result, TypeOK
        <3>3. CASE BeginEmpty(p)
            BY <3>2, <3>3 DEF BeginEmpty
        <3>4. CASE Result(p)
            <4>1. /\ ctxDone' = ctxDone /\ pc[q] = "result" /\ ~firstErr[q]
                  /\ Finished(q) /\ status' = status
                BY <1>2, <3>2, <3>4 DEF Result, Goto, TypeOK
            <4>2. Processed(q) = ActionsOf(q) /\ \A b \in ActionsOf(q) : status[b] # "err"
                BY <1>2, <4>1, AtResult DEF Finished
            <4> QED
                BY <4>1, <4>2 DEF Processed
        <3> QED
            BY <3>1, <3>3, <3>4
    <2> QED
        BY <2>1, <2>2
<1> QED
    BY <1>1, <1>2, Invariance, PTL DEF Spec

\* "unschedulable nodes" is reported only for a graph with a cycle.
THEOREM UnschedulableIsCyclic == Spec => []UnschedulableMeansCycle
<1> DEFINE Never(q) == {a \in ActionsOf(q) : status[a] \in {"pending", "err"}}
<1>1. Init => UnschedulableMeansCycle
    BY DEF Init, UnschedulableMeansCycle
<1>2. ASSUME IInv, UnschedulableMeansCycle, [Next]_vars PROVE UnschedulableMeansCycle'
    <2> SUFFICES ASSUME NEW q \in Pkgs, outcome'[q] = "unschedulable"
                 PROVE  \E S \in SUBSET {a \in ActionsOf(q) : status'[a] \in {"pending", "err"}} :
                            S # {} /\ \A a \in S : HDeps(a) \cap S # {}
        BY DEF UnschedulableMeansCycle, ActionsOf, HDeps
    <2> USE DEF IInv
    <2>1. CASE outcome[q] # "none"
        <3>1. outcome[q] = "unschedulable" /\ \A b \in ActionsOf(q) : status'[b] = status[b]
            BY <1>2, <2>1, DoneIsFinal
        <3> QED
            BY <1>2, <3>1 DEF UnschedulableMeansCycle
    <2>2. CASE outcome[q] = "none"
        <3>1. PICK p \in Pkgs : BeginEmpty(p) \/ Result(p)
            BY <1>2, <2>2, StatusStep DEF Launch
        <3>2. p = q /\ Result(q)
            BY <1>2, <2>2, <3>1 DEF BeginEmpty, Result, TypeOK
        <3>3. pc[q] = "result" /\ ~firstErr[q] /\ ~Finished(q)
            BY <1>2, <3>2 DEF Result, Goto, TypeOK
        <3>4. \A a \in ActionsOf(q) : status[a] = "pending" => status'[a] \in {"pending", "err"}
            BY <1>2, <3>2 DEF Result, ActionsOf, TypeOK
        <3> DEFINE S == {a \in ActionsOf(q) : status[a] = "pending"}
        <3>5. S # {}
            <4>1. Processed(q) # ActionsOf(q)
                BY <1>2, <3>3, AtResult DEF Finished
            <4> QED
                BY <1>2, <3>3, <4>1, AtResult DEF Processed
        <3>6. \A a \in S : HDeps(a) \cap S # {}
            <4>1. \A a \in S : \E d \in HDeps(a) : status[d] = "pending"
                BY <1>2, <3>3, AtResult DEF Finished
            <4> QED
                BY <4>1 DEF HDeps, ActionsOf
        <3>7. S \in SUBSET {a \in ActionsOf(q) : status'[a] \in {"pending", "err"}}
            BY <3>4
        <3> QED
            BY <3>5, <3>6, <3>7
    <2> QED
        BY <2>1, <2>2
<1> QED
    BY <1>1, <1>2, Invariance, PTL DEF Spec

\* The executors and the worker pool implement the contract ActionGraph: each
\* of their steps is one of its steps or invisible to the caller.
THEOREM Refinement == Spec => ImplementsActionGraph
<1>1. Init => G!GInit
    BY DEF Init, G!GInit, live
<1>2. ASSUME IInv, [Next]_vars PROVE [G!GNext]_<<status, ctxDone, live, outcome>>
    <2> USE DEF IInv
    <2>1. ASSUME NEW p \in Pkgs, BeginEmpty(p) PROVE G!Return(p)
        <3>1. ActionsOf(p) = {} /\ outcome[p] = "none"
            BY <1>2, <2>1 DEF BeginEmpty, Goto, IdleInv
        <3>2. live' = live \ {p}
            BY <1>2, <2>1 DEF BeginEmpty, Goto, live, TypeOK
        <3> QED
            BY <2>1, <3>1, <3>2 DEF BeginEmpty, G!Return, G!ActionsOf, ActionsOf, G!Failed
    <2>2. ASSUME NEW p \in Pkgs, Result(p) PROVE G!Return(p)
        <3>1. pc[p] = "result" /\ outcome[p] = "none" /\ ctxDone' = ctxDone
            BY <1>2, <2>2 DEF Result, Goto, IdleInv
        <3>0. live' = live \ {p}
            BY <1>2, <2>2 DEF Result, Goto, live, TypeOK
        <3>2. G!ActionsOf(p) = ActionsOf(p) /\ \A a \in ActionsOf(p) : status[a] # "running"
            BY <1>2, <3>1, AtResult DEF G!ActionsOf, ActionsOf, Processed
        <3>3. G!Failed(p) <=> firstErr[p]
            BY <1>2, <3>1, <3>2, AtResult DEF G!Failed
        <3>4. CASE firstErr[p]
            BY <2>2, <3>0, <3>1, <3>2, <3>3, <3>4 DEF Result, G!Return
        <3>5. CASE ~firstErr[p] /\ Finished(p)
            <4>1. ctxDone \/ \A a \in ActionsOf(p) : status[a] = "ok"
                BY <1>2, <3>1, <3>5, AtResult DEF Finished, Processed
            <4> QED
                BY <2>2, <3>0, <3>1, <3>2, <3>3, <3>5, <4>1 DEF Result, G!Return
        <3>6. CASE ~firstErr[p] /\ ~Finished(p)
            <4>1. /\ ~ctxDone
                  /\ \A a \in ActionsOf(p) :
                        /\ remainingDeps[a] > 0 <=> status[a] = "pending"
                        /\ status[a] = "pending" => \E d \in HDeps(a) : status[d] = "pending"
                BY <1>2, <3>1, <3>6, AtResult DEF Finished
            <4>2. \A a \in ActionsOf(p) : ~G!Runnable(a)
                BY <4>1 DEF G!Runnable, G!HDeps, HDeps
            <4>3. \E a \in ActionsOf(p) : status[a] = "pending"
                <5>1. Processed(p) # ActionsOf(p)
                    BY <1>2, <3>1, <3>6, AtResult DEF Finished
                <5> QED
                    BY <1>2, <3>1, <5>1, AtResult DEF Processed
            <4>4. \E a \in ActionsOf(p) : status[a] = "pending" /\ status' = [status EXCEPT ![a] = "err"]
                BY <2>2, <3>6, <4>1, <4>3 DEF Result
            <4>5. outcome' = [outcome EXCEPT ![p] = "unschedulable"]
                BY <2>2, <3>6 DEF Result
            <4> QED
                BY <3>0, <3>1, <3>2, <3>3, <3>6, <4>1, <4>2, <4>4, <4>5 DEF G!Return
        <3> QED
            BY <3>4, <3>5, <3>6
    <2>3. ASSUME NEW p \in Pkgs, NEW a \in Actions, Launch(p, a) PROVE G!Start(a)
        <3>1. /\ Open(p) /\ PkgOf[a] = p /\ status[a] = "pending"
              /\ \A d \in HDeps(a) : status[d] = "ok"
            BY <1>2, <2>3 DEF Launch, Goto, Open, StartedInv, ActionsOf
        <3>2. outcome[p] = "none"
            BY <1>2, <3>1 DEF IdleInv, Open
        <3>3. p \in live /\ live' = IF ctxDone THEN live \ {p} ELSE live
            BY <1>2, <2>3 DEF Launch, Goto, live, TypeOK
        <3> QED
            BY <2>3, <3>1, <3>2, <3>3 DEF Launch, G!Start, G!Runnable, G!HDeps, HDeps
    <2>4. ASSUME NEW a \in Actions, Execute(a) PROVE G!Finish(a)
        BY <2>4 DEF Execute, G!Finish, live
    <2>5. ASSUME NEW p \in Pkgs, Begin(p)
          PROVE  UNCHANGED <<status, ctxDone, live, outcome>> \/ G!Call(p)
        <3>1. /\ UNCHANGED <<status, ctxDone, outcome>> /\ outcome[p] = "none"
              /\ live' = IF ctxDone THEN live ELSE live \cup {p}
            BY <1>2, <2>5 DEF Begin, Goto, IdleInv, live, TypeOK
        <3> QED
            BY <3>1 DEF G!Call
    <2>6. ASSUME NEW p \in Pkgs,
                 \/ Loop(p) \/ LaunchCheck(p) \/ SelectDone(p) \/ AwaitNone(p)
                 \/ \E a \in Actions : SelectReceive(p, a) \/ AwaitReceive(p, a)
          PROVE  UNCHANGED <<status, ctxDone, live, outcome>> \/ G!Notice(p)
        <3>1. UNCHANGED <<status, ctxDone, outcome>>
            BY <2>6 DEF Loop, LaunchCheck, SelectDone, AwaitNone, SelectReceive, AwaitReceive,
                        Complete
        <3>2. \E from, to \in {"loop", "launch", "select", "await", "result"} :
                 /\ pc[p] = from /\ pc' = [pc EXCEPT ![p] = to]
                 /\ to = "select" => ~ctxDone
            BY <2>6 DEF Loop, LaunchCheck, SelectDone, AwaitNone, SelectReceive, AwaitReceive,
                        Goto, RunDone
        <3>3. live' = IF ctxDone THEN live \ {p} ELSE live
            BY <1>2, <3>1, <3>2 DEF live, TypeOK
        <3> QED
            BY <3>1, <3>3 DEF G!Notice
    <2>7. ASSUME NEW p \in Pkgs, Executor(p)
          PROVE  \/ UNCHANGED <<status, ctxDone, live, outcome>>
                 \/ G!Call(p) \/ G!Notice(p) \/ G!Return(p) \/ \E a \in Actions : G!Start(a)
        BY <2>7, <2>1, <2>2, <2>3, <2>5, <2>6 DEF Executor
    <2>8. ASSUME NEW a \in Actions, Worker(a)
          PROVE  UNCHANGED <<status, ctxDone, live, outcome>> \/ G!Finish(a)
        BY <2>8, <2>4 DEF Worker, SendResult, live
    <2>9. CASE Cancel
        <3>1. live' \in SUBSET live
            BY <2>9 DEF Cancel, live
        <3> QED
            BY <2>9, <3>1 DEF Cancel, G!Cancel, G!GNext
    <2>10. CASE ClosePool \/ WorkerExit \/ Terminated \/ UNCHANGED vars
        BY <2>10 DEF ClosePool, WorkerExit, Terminated, vars, live
    <2> QED
        BY <1>2, <2>7, <2>8, <2>9, <2>10 DEF Next, G!GNext
<1> QED
    BY <1>1, <1>2, Invariance, PTL DEF Spec, ImplementsActionGraph, G!GSpec, G!gvars
=============================================================================
