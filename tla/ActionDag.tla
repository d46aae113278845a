----------------------------- MODULE ActionDag -----------------------------
(***************************************************************************)
(* The graph runner.prepareAnalysis builds (pkg/goanalysis/runner.go): one *)
(* action per analyzer and package, horizontal edges to the analyzers it   *)
(* requires on the same package, vertical edges to the same analyzer on    *)
(* the imported packages when it uses facts; and the packages that         *)
(* runner.analyze loads for it.                                            *)
(***************************************************************************)
EXTENDS Reachability

CONSTANTS
    Pkgs,        \* packages the driver knows
    Imports,     \* packages.Package.Imports, acyclic
    Initial,     \* the packages to analyze
    Analyzers,   \* all analyzers
    Configured,  \* the analyzers asked for
    Requires,    \* analysis.Analyzer.Requires, acyclic
    FactUsers    \* analyzers with FactTypes

ASSUME DagAssumption ==
    /\ IsFiniteSet(Pkgs) /\ IsFiniteSet(Analyzers)
    /\ Imports \in [Pkgs -> SUBSET Pkgs]
    /\ Initial \subseteq Pkgs
    /\ Configured \subseteq Analyzers /\ Configured # {}
    /\ Requires \in [Analyzers -> SUBSET Analyzers]
    /\ FactUsers \subseteq Analyzers
    /\ Acyclic(Imports) /\ Acyclic(Requires)

Keys == Analyzers \X Pkgs

Roots == Configured \X Initial

HorizontalDeps(k) == {<<r, k[2]>> : r \in Requires[k[1]]}

\* buildActionFactDeps
VerticalDeps(k) == IF k[1] \in FactUsers THEN {<<k[1], q>> : q \in Imports[k[2]]} ELSE {}

DepsOf(k) == HorizontalDeps(k) \cup VerticalDeps(k)

\* markAllActions and makeAction visit what the roots reach.
Actions == Reachable(Roots, [k \in Keys |-> DepsOf(k)])

PkgOf == [k \in Actions |-> k[2]]

Deps == [k \in Actions |-> DepsOf(k)]

\* dfs in runner.analyze: the packages of all actions and what they import.
LoadingPackages == Reachable({k[2] : k \in Actions}, Imports)

Importers(p) == {r \in LoadingPackages : p \in Imports[r]}

UsesFacts(k) == k[1] \in FactUsers
=============================================================================
