-------------------------- MODULE MCPackageAnalysis --------------------------
(* Small import graphs, an analyzer with facts, a linter without, and the   *)
(* analyzer that both require.                                              *)
EXTENDS PackageAnalysis, TLC

CONSTANTS m, n, r, s, t, F, L, Insp

MCPkgs == {m, n, r, s, t}
MCTwoChains == (m :> {r}) @@ (n :> {t}) @@ (r :> {s}) @@ (s :> {}) @@ (t :> {})
MCFork == (m :> {r}) @@ (n :> {r}) @@ (r :> {s}) @@ (s :> {}) @@ (t :> {})
MCChain == (m :> {r}) @@ (n :> {}) @@ (r :> {s}) @@ (s :> {}) @@ (t :> {})
\* F requires no other analyzer: it gets a pass of
\* its own in a package that does not compile.
MCFreeRequires == (F :> {}) @@ (L :> {Insp}) @@ (Insp :> {})
MCRequires == (F :> {Insp}) @@ (L :> {Insp}) @@ (Insp :> {})
=============================================================================
