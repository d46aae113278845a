---------------------------- MODULE ActionGraph ----------------------------
(***************************************************************************)
(* What runActionGraph (pkg/goanalysis/action_scheduler.go) promises to    *)
(* its caller loadingPackage.analyze, whatever the order in which the      *)
(* workers of the shared pool take, finish and report the actions.         *)
(*                                                                         *)
(* An action is one analyzer applied to one package.  Only the horizontal  *)
(* dependencies (same package) order the actions of one graph.             *)
(***************************************************************************)
EXTENDS FiniteSets

CONSTANTS
    Pkgs,     \* loaded packages, one action graph each
    Actions,  \* all actions of all packages
    PkgOf,    \* action.Package
    Deps      \* action.Deps, as a set

VARIABLES
    status,   \* "pending" | "running" | "ok" | "err": err is act.Err # nil
    ctxDone,  \* the context the callers pass is cancelled
    live,     \* packages whose call may still start actions
    outcome   \* what each call returned: "none" before it returns

gvars == <<status, ctxDone, live, outcome>>

ActionsOf(p) == {a \in Actions : PkgOf[a] = p}

HDeps(a) == {d \in Deps[a] : PkgOf[d] = PkgOf[a]}

\* Every horizontal dependency of a has finished without error.
Runnable(a) == status[a] = "pending" /\ \A d \in HDeps(a) : status[d] = "ok"

Failed(p) == \E a \in ActionsOf(p) : status[a] = "err"

GInit ==
    /\ status = [a \in Actions |-> "pending"]
    /\ ctxDone = FALSE
    /\ live = {}
    /\ outcome = [p \in Pkgs |-> "none"]

\* A call that is made after the cancellation starts nothing.
Call(p) ==
    /\ outcome[p] = "none"
    /\ ~ctxDone
    /\ live' = live \cup {p}
    /\ UNCHANGED <<status, ctxDone, outcome>>

\* An action starts only while its package's call is open, and only when
\* everything it requires has a result.  The select of launchReady may still
\* choose the worker when the context is done, but only once.
Start(a) ==
    /\ outcome[PkgOf[a]] = "none"
    /\ PkgOf[a] \in live
    /\ Runnable(a)
    /\ status' = [status EXCEPT ![a] = "running"]
    /\ live' = IF ctxDone THEN live \ {PkgOf[a]} ELSE live
    /\ UNCHANGED <<ctxDone, outcome>>

Finish(a) ==
    /\ status[a] = "running"
    /\ \E r \in {"ok", "err"} : status' = [status EXCEPT ![a] = r]
    /\ UNCHANGED <<ctxDone, live, outcome>>

\* The calls notice the cancellation at once or a little later.
Cancel ==
    /\ ctxDone' = TRUE
    /\ live' \in SUBSET live
    /\ UNCHANGED <<status, outcome>>

Notice(p) ==
    /\ ctxDone
    /\ live' = live \ {p}
    /\ UNCHANGED <<status, ctxDone, outcome>>

\* The call returns when nothing of its package runs any more: with the
\* first error, with nil after a cancellation or a complete graph, and with
\* an error recorded on a blocked action when the graph has a cycle.
Return(p) ==
    /\ outcome[p] = "none"
    /\ \A a \in ActionsOf(p) : status[a] # "running"
    /\ \/ /\ Failed(p)
          /\ outcome' = [outcome EXCEPT ![p] = "failed"]
          /\ UNCHANGED status
       \/ /\ ~Failed(p)
          /\ ctxDone \/ \A a \in ActionsOf(p) : status[a] = "ok"
          /\ outcome' = [outcome EXCEPT ![p] = "ok"]
          /\ UNCHANGED status
       \/ /\ ~Failed(p) /\ ~ctxDone
          /\ \A a \in ActionsOf(p) : ~Runnable(a)
          /\ outcome' = [outcome EXCEPT ![p] = "unschedulable"]
          /\ \E a \in ActionsOf(p) :
                /\ status[a] = "pending"
                /\ status' = [status EXCEPT ![a] = "err"]
    /\ live' = live \ {p}
    /\ UNCHANGED ctxDone

GNext ==
    \/ \E a \in Actions : Start(a) \/ Finish(a)
    \/ Cancel
    \/ \E p \in Pkgs : Call(p) \/ Notice(p) \/ Return(p)

GSpec == GInit /\ [][GNext]_gvars

=============================================================================
