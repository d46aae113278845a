---------------------------- MODULE Reachability ----------------------------
(***************************************************************************)
(* The recursive visits of pkg/goanalysis: markAllActions and makeAction,  *)
(* the dfs of runner.analyze, markDepsForAnalyzingSource and visitAll of   *)
(* extractDiagnostics each find what their start reaches in a graph, in    *)
(* whatever order they walk.                                               *)
(***************************************************************************)
EXTENDS Naturals, FiniteSets

\* What a visit has found after n levels of calls; next[x] is whom x leads to.
Levels(start, next) ==
    LET Level[n \in Nat] ==
            IF n = 0 THEN start
            ELSE LET found == Level[n - 1] IN found \cup UNION {next[x] : x \in found}
    IN  Level

\* All that it finds: no way without a repetition is longer.
Reachable(start, next) == Levels(start, next)[Cardinality(DOMAIN next)]

\* Every set of nodes has one that leads to none of the set.
Acyclic(next) == \A S \in SUBSET DOMAIN next : S # {} => \E x \in S : next[x] \cap S = {}
=============================================================================
