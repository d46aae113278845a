----------------------- MODULE PackageAnalysisProofs -----------------------
(***************************************************************************)
(* What runner.analyze guarantees for every import graph without cycles,   *)
(* any analyzers and requirements, and any number of slots: whom an        *)
(* analyzer runs on top of, when decUse frees a package, what is there     *)
(* while an analyzer runs, and what a report without errors means.  And    *)
(* what the cache of issues around it guarantees: that no issue is stale.  *)
(***************************************************************************)
EXTENDS PackageAnalysis, ResultCache, ReachabilityProofs

\* A package before its graph; one that holds a slot of loadSem.
Before == {"idle", "wait", "select", "load"}
Holding == {"load", "graph", "persist", "dec"}

\* The types of the packages' variables and of the actions' variables.
ProcType ==
    /\ gp \in [LoadingPackages -> Before \cup {"graph", "persist", "dec", "done"}]
    /\ calls \in [LoadingPackages -> SUBSET (LoadingPackages \X LoadingPackages)]
    /\ dependents \in [LoadingPackages -> Nat]
    /\ types \in [LoadingPackages -> {"nil", "export", "source"}]
    /\ illTyped \in [LoadingPackages -> BOOLEAN]
    /\ live \subseteq LoadingPackages
    /\ outcome \in [LoadingPackages -> {"none", "ok", "failed"}]

ActionType ==
    /\ status \in [Actions -> {"pending", "running", "ok", "err"}]
    /\ err \in [Actions -> {"none", "plain", "wrapped", "panic"}]
    /\ needSource \subseteq Actions
    /\ pass \subseteq Actions /\ ran \subseteq Actions /\ hasDeps \subseteq Actions

\* Where a package is decides what its graph and its actions can be.
PlaceInv ==
    /\ \A p \in LoadingPackages : gp[p] \notin {"idle", "wait"} => ImportsDone(p)
    /\ \A p \in LoadingPackages : calls[p] # {} => gp[p] = "dec"
    /\ \A p \in live : gp[p] = "graph"
    /\ \A k \in Actions : status[k] = "running" => gp[k[2]] = "graph"
    /\ \A k \in Actions : gp[k[2]] \in Before => status[k] = "pending"
    /\ \A p \in LoadingPackages : gp[p] \in Before \cup {"graph"} => outcome[p] = "none"
    /\ sem = Cardinality({p \in LoadingPackages : gp[p] \in Holding}) /\ sem <= LoadSlots

\* The actions of which action.analyze has made a pass, whatever is left of it.
Called == pass \cup ran \cup (Actions \ hasDeps)

\* What has become of an action, and what that says of its dependencies.
ActionInv ==
    /\ \A k \in Actions : k[2] \in Initial => k \in needSource
    /\ \A k \in needSource : HorizontalDeps(k) \subseteq needSource
    /\ \A k \in ran : k \in needSource /\ ~illTyped[k[2]]
    /\ \A k \in Actions : status[k] = "ok" => err[k] = "none" /\ (k \in needSource => k \in ran)
    /\ \A k \in Actions : status[k] = "err" => err[k] # "none"
    /\ \A k \in Actions : status[k] # "pending" => \A d \in HorizontalDeps(k) : status[d] = "ok"
    /\ \A k \in Called : status[k] # "pending" /\ \A d \in Deps[k] : status[d] = "ok"
    /\ \A k \in ran : status[k] = "ok" /\ gp[k[2]] = "graph" => k \in result
    /\ \A k \in Actions : status[k] = "pending" /\ err[k] = "wrapped" => SourceFails(k[2])

\* Nothing failed in the package, or it could not be loaded at all.
Settled(q) ==
    \/ \A k \in ActionsOf(q) : status[k] = "ok"
    \/ \A k \in ActionsOf(q) : status[k] = "pending" /\ err[k] = "wrapped"

\* An action of the package may start or has started.
Entered(p) == p \in live \/ \E k \in ActionsOf(p) : status[k] # "pending"

\* The packages below one that is analyzed are all done and settled: a failure
\* cancels the context before the package is done.
OrderInv ==
    /\ \A q \in LoadingPackages : ~ctxDone /\ gp[q] \in {"dec", "done"} => Settled(q)
    /\ \A q \in LoadingPackages : gp[q] = "persist" /\ ~Cancels(q) => ctxDone \/ Settled(q)
    /\ \A p \in LoadingPackages : Entered(p) =>
            \A q \in AllImports(p) : gp[q] = "done" /\ Settled(q)
    /\ \A p \in LoadingPackages : outcome[p] = "failed" => \E k \in ActionsOf(p) : status[k] = "err"
    /\ ctxDone => \E k \in Actions : status[k] = "err"

\* Who still has to call decUse on q.
Users(q) == {r \in LoadingPackages :
    IF r = q THEN gp[q] \in Before \cup {"graph", "persist"} \/ <<q, q>> \in calls[q]
    ELSE q \in Imports[r] /\ (dependents[r] > 0 \/ \E g \in LoadingPackages : <<r, q>> \in calls[g])}

\* The count is that of the users, and one more for a package that was skipped.
CountInv ==
    /\ \A q \in LoadingPackages :
          \/ dependents[q] = Cardinality(Users(q))
          \/ dependents[q] = Cardinality(Users(q)) + 1 /\ gp[q] = "done" /\ ctxDone
    /\ \A g, r, q \in LoadingPackages : <<r, q>> \in calls[g] =>
          \/ r = q /\ g = q
          \/ r # q /\ q \in Imports[r] /\ dependents[r] = 0
    /\ \A g, h, r, q \in LoadingPackages : <<r, q>> \in calls[g] \cap calls[h] => g = h
    /\ \A q \in LoadingPackages : dependents[q] = 0 => types[q] = "nil"
    /\ \A k \in pass : gp[k[2]] \in {"graph", "persist"} \/ <<k[2], k[2]>> \in calls[k[2]]

\* A package whose types are not there was freed, skipped or does not parse.
TypesInv ==
    /\ \A p \in Preloaded \cap LoadingPackages : gp[p] \in Before => types[p] # "nil"
    /\ \A q \in LoadingPackages :
          gp[q] \notin Before /\ types[q] = "nil" /\ dependents[q] > 0 =>
            \/ Untyped(q) /\ illTyped[q]
            \/ gp[q] = "done" /\ ctxDone
    /\ \A p \in LoadingPackages : gp[p] = "graph" /\ Entered(p) =>
            \A q \in Imports[p] : types[q] # "nil"

\* runner.run reports only when every package is done.
ReportInv ==
    /\ CleanReportMeansAnalyzed
    /\ report # "none" => \A p \in LoadingPackages : gp[p] = "done"

IInv == ProcType /\ ActionType /\ PlaceInv /\ ActionInv /\ OrderInv /\ CountInv /\ TypesInv /\ ReportInv

\* The facts that an action passes on, when it has all.
Complete(k) == {k[2]} \cup AllImports(k[2]) \subseteq facts[k]

\* Whoever may still be asked for facts has them all.
FactInv ==
    /\ runs = 1 /\ cache \in [Actions -> {"none", "whole", "partial"}]
    /\ facts \in [Actions -> SUBSET LoadingPackages]
    /\ \A k \in Actions : gp[k[2]] \in Before => cache[k] # "partial"
    /\ \A k \in Actions : UsesFacts(k) /\ k \notin needSource /\ (k[2] \in live \/ status[k] = "running") => Complete(k)
    /\ \A k \in Actions : UsesFacts(k) /\ Analyzing(k) => AllImports(k[2]) \subseteq facts[k]
    /\ \A k \in Actions : UsesFacts(k) /\ status[k] = "ok" /\ dependents[k[2]] > 0 => Complete(k)
-----------------------------------------------------------------------------
USE DagAssumption, AnalysisAssumption

\* The graph: its actions have their dependencies and their packages, the
\* packages have their imports, and everything is below the initial packages.
LEMMA ActionsClosed ==
    /\ Actions \in SUBSET Keys /\ Roots \subseteq Actions
    /\ \A k \in Actions : DepsOf(k) \subseteq Actions
    /\ \A X : Roots \subseteq X /\ (\A k \in X \cap Keys : DepsOf(k) \subseteq X) => Actions \subseteq X
<1>1. IsFiniteSet(Keys)
    BY FS_Product DEF Keys
<1>2. PICK next : next = [k \in Keys |-> DepsOf(k)]
    OBVIOUS
<1>3. \A k \in Keys : DepsOf(k) \in SUBSET Keys
    BY DEF DepsOf, HorizontalDeps, VerticalDeps, Keys
<1>4. next \in [Keys -> SUBSET Keys] /\ \A k \in Keys : next[k] = DepsOf(k)
    BY <1>2, <1>3
<1>5. Roots \in SUBSET Keys
    BY DEF Roots, Keys
<1>6. /\ Reachable(Roots, next) \in SUBSET Keys
      /\ Roots \subseteq Reachable(Roots, next)
      /\ \A k \in Reachable(Roots, next) : next[k] \subseteq Reachable(Roots, next)
      /\ \A X : Roots \subseteq X /\ (\A k \in X \cap Keys : next[k] \subseteq X) => Reachable(Roots, next) \subseteq X
    BY <1>1, <1>4, <1>5, ReachableClosed
<1>7. Actions = Reachable(Roots, next)
    BY <1>2 DEF Actions
<1> HIDE DEF Actions
<1>8. ASSUME NEW X, Roots \subseteq X, \A k \in X \cap Keys : DepsOf(k) \subseteq X PROVE Actions \subseteq X
    BY <1>4, <1>6, <1>7, <1>8
<1> QED
    BY <1>4, <1>6, <1>7, <1>8

\* dfs in runner.analyze finds the packages of all actions and whatever they
\* import, and nothing that no initial package leads to.
LEMMA PackagesClosed ==
    /\ LoadingPackages \in SUBSET Pkgs
    /\ \A k \in Actions : k[2] \in LoadingPackages
    /\ \A p \in LoadingPackages : Imports[p] \subseteq LoadingPackages
    /\ Initial \subseteq LoadingPackages
    /\ \A X : Initial \subseteq X /\ (\A p \in X \cap LoadingPackages : Imports[p] \subseteq X) => LoadingPackages \subseteq X
<1>1. PICK start : start = {k[2] : k \in Actions}
    OBVIOUS
<1>2. start \in SUBSET Pkgs
    BY <1>1, ActionsClosed DEF Keys
<1>3. /\ Reachable(start, Imports) \in SUBSET Pkgs
      /\ start \subseteq Reachable(start, Imports)
      /\ \A p \in Reachable(start, Imports) : Imports[p] \subseteq Reachable(start, Imports)
      /\ \A X : start \subseteq X /\ (\A p \in X \cap Pkgs : Imports[p] \subseteq X) => Reachable(start, Imports) \subseteq X
    BY <1>2, ReachableClosed
<1>4. LoadingPackages = Reachable(start, Imports)
    BY <1>1 DEF LoadingPackages
<1>5. Initial \subseteq LoadingPackages
    <2>1. PICK a : a \in Configured
        OBVIOUS
    <2>2. ASSUME NEW p \in Initial PROVE p \in start
        <3>1. <<a, p>> \in Actions
            BY <2>1, ActionsClosed DEF Roots
        <3>2. <<a, p>>[2] = p
            OBVIOUS
        <3> QED
            BY <1>1, <3>1, <3>2
    <2> QED
        BY <1>3, <1>4, <2>2
<1>6. \A k \in Actions : k[2] \in LoadingPackages
    BY <1>1, <1>3, <1>4
<1>7. ASSUME NEW X, Initial \subseteq X, \A p \in X \cap LoadingPackages : Imports[p] \subseteq X
      PROVE  LoadingPackages \subseteq X
    <2>1. PICK Y : Y = X \cap LoadingPackages
        OBVIOUS
    <2>2. Y \subseteq LoadingPackages /\ Initial \subseteq Y /\ \A p \in Y : Imports[p] \subseteq Y
        BY <1>3, <1>4, <1>5, <1>7, <2>1
    <2>3. PICK Z : Z = {k \in Keys : k[2] \in Y}
        OBVIOUS
    <2>4. Roots \subseteq Z
        BY <2>2, <2>3 DEF Roots, Keys
    <2>5. \A k \in Z \cap Keys : DepsOf(k) \subseteq Z
        BY <2>2, <2>3 DEF DepsOf, HorizontalDeps, VerticalDeps, Keys
    <2>6. Actions \subseteq Z
        BY <2>4, <2>5, ActionsClosed
    <2>7. start \subseteq Y
        BY <1>1, <2>3, <2>6
    <2>8. LoadingPackages \subseteq Y
        BY <1>3, <1>4, <2>2, <2>7
    <2> QED
        BY <2>1, <2>8
<1> QED
    BY <1>3, <1>4, <1>5, <1>6, <1>7

\* AllImports(p) is the least set with the imports of p that is closed.
LEMMA AllImportsClosed ==
    ASSUME NEW p \in LoadingPackages
    PROVE  /\ AllImports(p) \subseteq LoadingPackages
           /\ Imports[p] \subseteq AllImports(p)
           /\ \A q \in AllImports(p) : Imports[q] \subseteq AllImports(p)
           /\ \A X : Imports[p] \subseteq X /\ (\A q \in X \cap LoadingPackages : Imports[q] \subseteq X) => AllImports(p) \subseteq X
<1>1. p \in Pkgs /\ Imports[p] \in SUBSET Pkgs
    BY PackagesClosed
<1>2. PICK start : start = Imports[p]
    OBVIOUS
<1>3. /\ Reachable(start, Imports) \in SUBSET Pkgs
      /\ start \subseteq Reachable(start, Imports)
      /\ \A q \in Reachable(start, Imports) : Imports[q] \subseteq Reachable(start, Imports)
      /\ \A X : start \subseteq X /\ (\A q \in X \cap Pkgs : Imports[q] \subseteq X) => Reachable(start, Imports) \subseteq X
    BY <1>1, <1>2, ReachableClosed
<1>4. AllImports(p) = Reachable(start, Imports)
    BY <1>2 DEF AllImports
<1>5. ASSUME NEW X, Imports[p] \subseteq X, \A q \in X \cap LoadingPackages : Imports[q] \subseteq X
      PROVE  AllImports(p) \subseteq X
    <2>1. PICK Y : Y = X \cap LoadingPackages
        OBVIOUS
    <2>2. start \subseteq Y /\ \A q \in Y \cap Pkgs : Imports[q] \subseteq Y
        BY <1>2, <1>5, <2>1, PackagesClosed
    <2> QED
        BY <1>3, <1>4, <2>1, <2>2
<1>6. AllImports(p) \subseteq LoadingPackages
    BY <1>5, PackagesClosed
<1> QED
    BY <1>2, <1>3, <1>4, <1>5, <1>6

\* Import closures nest, and are made up of those of the direct imports.
LEMMA AllImportsNest ==
    ASSUME NEW p \in LoadingPackages, NEW q \in Imports[p]
    PROVE  q \in LoadingPackages /\ q \in AllImports(p) /\ AllImports(q) \subseteq AllImports(p)
<1>1. q \in LoadingPackages /\ q \in AllImports(p)
    BY PackagesClosed, AllImportsClosed
<1> QED
    BY <1>1, AllImportsClosed

\* A package sees below it only its imports and what they see.
LEMMA AllImportsParts ==
    ASSUME NEW p \in LoadingPackages
    PROVE  AllImports(p) \subseteq UNION {{q} \cup AllImports(q) : q \in Imports[p]}
<1>1. PICK X : X = UNION {{q} \cup AllImports(q) : q \in Imports[p]}
    OBVIOUS
<1>2. Imports[p] \subseteq X
    BY <1>1
<1>3. ASSUME NEW r \in X \cap LoadingPackages PROVE Imports[r] \subseteq X
    <2>1. PICK q \in Imports[p] : r = q \/ r \in AllImports(q)
        BY <1>1
    <2>2. q \in LoadingPackages
        BY PackagesClosed
    <2>3. Imports[r] \subseteq AllImports(q)
        BY <2>1, <2>2, AllImportsClosed
    <2> QED
        BY <1>1, <2>3
<1>4. AllImports(p) \subseteq X
    BY <1>2, <1>3, AllImportsClosed
<1> QED
    BY <1>1, <1>4

\* No package imports itself; the dependencies of an action in its own package
\* are those that its analyzer requires.
LEMMA Irreflexive == \A p \in Pkgs : p \notin Imports[p]
<1> SUFFICES ASSUME NEW p \in Pkgs, p \in Imports[p] PROVE FALSE
    OBVIOUS
<1>1. {p} \in SUBSET DOMAIN Imports /\ {p} # {}
    OBVIOUS
<1>2. \E x \in {p} : Imports[x] \cap {p} = {}
    BY <1>1 DEF Acyclic
<1> QED
    BY <1>2

\* The shape of an action and of its dependencies.
LEMMA DepsFacts ==
    ASSUME NEW k \in Actions
    PROVE  /\ k \in Keys /\ k[1] \in Analyzers /\ k[2] \in LoadingPackages /\ k = <<k[1], k[2]>>
           /\ Deps[k] = HorizontalDeps(k) \cup VerticalDeps(k) /\ Deps[k] \subseteq Actions
           /\ PkgOf[k] = k[2]
           /\ \A d \in HorizontalDeps(k) : d \in Actions /\ d[2] = k[2]
           /\ \A d \in VerticalDeps(k) : d \in Actions /\ d[1] = k[1] /\ d[2] \in Imports[k[2]]
           /\ G!HDeps(k) = HorizontalDeps(k)
<1>1. k \in Keys /\ DepsOf(k) \subseteq Actions
    BY ActionsClosed
<1>2. k[1] \in Analyzers /\ k[2] \in Pkgs /\ k = <<k[1], k[2]>>
    BY <1>1 DEF Keys
<1>3. Deps[k] = DepsOf(k) /\ \A d \in Actions : PkgOf[d] = d[2]
    BY DEF Deps, PkgOf
<1>4. \A d \in HorizontalDeps(k) : d[2] = k[2]
    BY DEF HorizontalDeps
<1>5. \A d \in VerticalDeps(k) : d[1] = k[1] /\ d[2] \in Imports[k[2]]
    BY DEF VerticalDeps
<1>6. k[2] \notin Imports[k[2]]
    BY <1>2, Irreflexive
<1>7. G!HDeps(k) = HorizontalDeps(k)
    BY <1>1, <1>3, <1>4, <1>5, <1>6 DEF G!HDeps, DepsOf
<1> QED
    BY <1>1, <1>2, <1>3, <1>4, <1>5, <1>7, PackagesClosed DEF DepsOf

\* markDepsForAnalyzingSource reaches what the actions it begins with require.
LEMMA MarkedFacts ==
    ASSUME NEW p \in LoadingPackages
    PROVE  /\ Missing(p) \subseteq Marked(p) /\ Marked(p) \subseteq ActionsOf(p)
           /\ \A k \in Marked(p) : HorizontalDeps(k) \subseteq Marked(p)
<1>1. PICK start, next : start = Missing(p) /\ next = [k \in ActionsOf(p) |-> HorizontalDeps(k)]
    OBVIOUS
<1>2. IsFiniteSet(ActionsOf(p))
    <2>1. IsFiniteSet(Keys)
        BY FS_Product DEF Keys
    <2>2. ActionsOf(p) \in SUBSET Keys
        BY ActionsClosed DEF ActionsOf
    <2> QED
        BY <2>1, <2>2, FS_Subset
<1>3. start \in SUBSET ActionsOf(p)
    BY <1>1 DEF Missing
<1>4. next \in [ActionsOf(p) -> SUBSET ActionsOf(p)] /\ \A k \in ActionsOf(p) : next[k] = HorizontalDeps(k)
    BY <1>1, DepsFacts DEF ActionsOf
<1>5. PICK S : S = ActionsOf(p)
    OBVIOUS
<1>6. /\ Reachable(start, next) \in SUBSET S
      /\ start \subseteq Reachable(start, next)
      /\ \A k \in Reachable(start, next) : next[k] \subseteq Reachable(start, next)
    BY <1>2, <1>3, <1>4, <1>5, ReachableClosed
<1>7. Marked(p) = Reachable(start, next)
    BY <1>1 DEF Marked
<1> QED
    BY <1>1, <1>4, <1>5, <1>6, <1>7

\* loadWithFacts.
Loads(p) == LoadPreloaded(p) \/ LoadInitial(p) \/ LoadImported(p)

\* What loadWithFacts does, whichever way the package comes: it is analyzed next
\* or, when it cannot be loaded, all its actions carry the error.
LEMMA LoadFacts ==
    ASSUME ProcType, ActionType, ActionInv, TypesInv, NEW p \in LoadingPackages, Loads(p)
    PROVE  /\ gp[p] = "load" /\ gp' = [gp EXCEPT ![p] = gp'[p]] /\ gp'[p] \in {"graph", "dec"}
           /\ UNCHANGED <<status, ctxDone, outcome, sem, dependents, pass, ran, result, hasDeps, cache, report, runs>>
           /\ needSource \subseteq needSource' /\ needSource' \subseteq needSource \cup ActionsOf(p)
           /\ \A k \in needSource' : HorizontalDeps(k) \subseteq needSource'
           /\ types' \in [LoadingPackages -> {"nil", "export", "source"}]
           /\ illTyped' \in [LoadingPackages -> BOOLEAN]
           /\ \A q \in LoadingPackages : q # p => types'[q] = types[q] /\ illTyped'[q] = illTyped[q]
           /\ gp'[p] = "graph" =>
                /\ live' = IF ctxDone THEN live ELSE live \cup {p}
                /\ UNCHANGED <<calls, err>>
                /\ types'[p] = "nil" => Untyped(p) /\ illTyped'[p]
           /\ gp'[p] = "dec" =>
                /\ UNCHANGED live
                /\ calls' = [calls EXCEPT ![p] = {<<p, p>>}]
                /\ types'[p] # "nil" /\ SourceFails(p)
                /\ err' = [k \in Actions |-> IF k[2] = p THEN "wrapped" ELSE err[k]]
<1> DEFINE Same == UNCHANGED <<status, ctxDone, outcome, sem, dependents, pass, ran, result, hasDeps, cache, report, runs>>
           Graph == /\ gp[p] = "load" /\ gp' = [gp EXCEPT ![p] = "graph"] /\ gp'[p] = "graph"
                    /\ live' = IF ctxDone THEN live ELSE live \cup {p}
                    /\ UNCHANGED <<calls, err>>
           Dec   == /\ gp[p] = "load" /\ gp' = [gp EXCEPT ![p] = "dec"] /\ gp'[p] = "dec"
                    /\ UNCHANGED live
                    /\ calls' = [calls EXCEPT ![p] = {<<p, p>>}]
                    /\ types'[p] # "nil" /\ SourceFails(p)
                    /\ err' = [k \in Actions |-> IF k[2] = p THEN "wrapped" ELSE err[k]]
           Needs == /\ needSource \subseteq needSource' /\ needSource' \subseteq needSource \cup ActionsOf(p)
                    /\ \A k \in needSource' : HorizontalDeps(k) \subseteq needSource'
           Typed == /\ types' \in [LoadingPackages -> {"nil", "export", "source"}]
                    /\ illTyped' \in [LoadingPackages -> BOOLEAN]
                    /\ \A q \in LoadingPackages : q # p => types'[q] = types[q] /\ illTyped'[q] = illTyped[q]
           Nil   == types'[p] = "nil" => Untyped(p) /\ illTyped'[p]
<1>1. ASSUME CallGraph(p) PROVE gp[p] = "load" /\ gp' = [gp EXCEPT ![p] = "graph"] /\ gp'[p] = "graph"
                                /\ live' = IF ctxDone THEN live ELSE live \cup {p}
    BY <1>1 DEF CallGraph, Goto, ProcType
<1>2. ASSUME NEW from, LoadFails(p, from) PROVE Dec /\ Typed
    <2>1. gp[p] = "load" /\ gp' = [gp EXCEPT ![p] = "dec"] /\ gp'[p] = "dec"
        BY <1>2 DEF LoadFails, Goto, ProcType
    <2>2. types' = [types EXCEPT ![p] = "source"] /\ illTyped' = [illTyped EXCEPT ![p] = TRUE]
        BY <1>2 DEF LoadFails
    <2>3. types'[p] = "source" /\ Typed
        BY <2>2 DEF ProcType
    <2> QED
        BY <1>2, <2>1, <2>3 DEF LoadFails
<1>3. ASSUME NEW extra, FromSource(p, extra) PROVE Typed /\ Nil
    <2>1. types' = IF Untyped(p) THEN types ELSE [types EXCEPT ![p] = "source"]
        BY <1>3 DEF FromSource
    <2>2. PICK b \in BOOLEAN : b = (CompileErrors(p) \/ \E q \in Imports[p] : illTyped[q])
        OBVIOUS
    <2>3. illTyped' = [illTyped EXCEPT ![p] = b]
        BY <1>3, <2>2 DEF FromSource
    <2>4. Untyped(p) => p \in Initial /\ p \in Broken
        BY DEF Untyped
    <2>5. p \in Broken => b
        BY <2>2 DEF CompileErrors
    <2>6. illTyped'[p] = b /\ illTyped' \in [LoadingPackages -> BOOLEAN] /\ \A q \in LoadingPackages : q # p => illTyped'[q] = illTyped[q]
        BY <2>3 DEF ProcType
    <2>7. /\ types' \in [LoadingPackages -> {"nil", "export", "source"}]
          /\ \A q \in LoadingPackages : q # p => types'[q] = types[q]
          /\ types'[p] = "nil" => Untyped(p)
        BY <2>1 DEF ProcType
    <2> QED
        BY <2>4, <2>5, <2>6, <2>7
<1>4. UNCHANGED needSource \/ needSource' = needSource \cup Marked(p) => Needs
    BY MarkedFacts DEF ActionInv
<1>5. CASE LoadPreloaded(p)
    <2>1. Same /\ Graph /\ UNCHANGED <<types, illTyped>> /\ needSource' = needSource \cup Marked(p)
        BY <1>1, <1>5 DEF LoadPreloaded, pvars, avars, out
    <2>2. types[p] # "nil"
        BY <1>5, <2>1 DEF LoadPreloaded, TypesInv, Before
    <2> QED
        BY <1>4, <2>1, <2>2 DEF ProcType
<1>6. CASE LoadInitial(p)
    <2>1. Same /\ UNCHANGED needSource
        BY <1>6 DEF LoadInitial, out
    <2>2. CASE LoadFails(p, "source")
        BY <1>2, <1>4, <2>1, <2>2
    <2>3. CASE CallGraph(p) /\ FromSource(p, FALSE) /\ UNCHANGED <<calls, err, facts>>
        <3>1. Typed /\ Nil
            BY <1>3, <2>3
        <3> QED
            BY <1>1, <1>4, <2>1, <2>3, <3>1
    <2> QED
        BY <1>6, <2>2, <2>3 DEF LoadInitial
<1>7. CASE LoadImported(p)
    <2>1. Same /\ needSource' = needSource \cup Marked(p)
        BY <1>7 DEF LoadImported, out
    <2>2. ASSUME NEW from, LoadFails(p, from) PROVE Same /\ Dec /\ Typed /\ Needs
        BY <1>2, <1>4, <2>1, <2>2
    <2>3. CASE CallGraph(p) /\ UNCHANGED <<calls, err>> /\ \E extra : FromSource(p, extra)
        <3>1. Typed /\ Nil
            BY <1>3, <2>3
        <3> QED
            BY <1>1, <1>4, <2>1, <2>3, <3>1
    <2>4. CASE /\ CallGraph(p) /\ UNCHANGED <<calls, err>>
               /\ types' = [types EXCEPT ![p] = "export"] /\ UNCHANGED illTyped
        <3>1. types'[p] = "export" /\ Typed
            BY <2>4 DEF ProcType
        <3> QED
            BY <1>1, <1>4, <2>1, <2>4, <3>1
    <2>5. \/ \E from : LoadFails(p, from)
          \/ /\ CallGraph(p) /\ UNCHANGED <<calls, err>>
             /\ \/ \E extra : FromSource(p, extra)
                \/ types' = [types EXCEPT ![p] = "export"] /\ UNCHANGED illTyped
        BY <1>7 DEF LoadImported
    <2> QED
        BY <2>2, <2>3, <2>4, <2>5
<1> QED
    BY <1>5, <1>6, <1>7 DEF Loads

\* There are finitely many packages to load.
LEMMA PackagesFinite == IsFiniteSet(LoadingPackages) /\ \A S \in SUBSET LoadingPackages : IsFiniteSet(S) /\ Cardinality(S) \in Nat
<1>1. IsFiniteSet(LoadingPackages)
    BY PackagesClosed, FS_Subset
<1> QED
    BY <1>1, FS_Subset, FS_CardinalityType

\* A process begins.
Fresh ==
    /\ status = [k \in Actions |-> "pending"] /\ ctxDone = FALSE /\ live = {}
    /\ outcome = [p \in LoadingPackages |-> "none"]
    /\ gp = [p \in LoadingPackages |-> "idle"] /\ sem = 0
    /\ types = StartTypes /\ illTyped = StartIllTyped
    /\ dependents = StartCounts /\ calls = NoCalls
    /\ needSource = {k \in Actions : k[2] \in Initial}
    /\ pass = {} /\ ran = {} /\ hasDeps = Actions
    /\ err = [k \in Actions |-> "none"]
    /\ report = "none"

\* A process begins with the invariant.
LEMMA FreshInv == Fresh => IInv
<1> SUFFICES ASSUME Fresh PROVE IInv
    OBVIOUS
<1>1. \A p \in LoadingPackages : gp[p] = "idle" /\ outcome[p] = "none" /\ calls[p] = {}
    BY DEF Fresh, NoCalls
<1>2. \A k \in Actions : status[k] = "pending" /\ err[k] = "none"
    BY DEF Fresh
<1>3. \A p \in LoadingPackages : Importers(p) \in SUBSET LoadingPackages /\ p \notin Importers(p)
    BY PackagesClosed, Irreflexive DEF Importers
<1>4. \A p \in LoadingPackages : dependents[p] = 1 + Cardinality(Importers(p)) /\ Cardinality(Importers(p)) \in Nat
    BY <1>3, PackagesFinite DEF Fresh, StartCounts
<1>5. ProcType
    <2>1. illTyped \in [LoadingPackages -> BOOLEAN]
        BY DEF Fresh, StartIllTyped
    <2>2. types \in [LoadingPackages -> {"nil", "export", "source"}]
        BY DEF Fresh, StartTypes
    <2>3. dependents \in [LoadingPackages -> Nat]
        <3>1. \A p \in LoadingPackages : 1 + Cardinality(Importers(p)) \in Nat
            BY <1>4
        <3> QED
            BY <3>1 DEF Fresh, StartCounts
    <2> QED
        BY <2>1, <2>2, <2>3 DEF ProcType, Fresh, Before, NoCalls
<1>6. ActionType
    BY DEF ActionType, Fresh
<1>7. PlaceInv
    <2>1. {p \in LoadingPackages : gp[p] \in Holding} = {}
        BY <1>1 DEF Holding
    <2>2. Cardinality({p \in LoadingPackages : gp[p] \in Holding}) = 0
        BY <2>1, FS_EmptySet
    <2>3. sem = 0 /\ sem <= LoadSlots
        BY DEF Fresh
    <2> QED
        BY <1>1, <1>2, <2>2, <2>3, PackagesClosed DEF PlaceInv, Fresh
<1>8. ActionInv
    BY <1>2, DepsFacts DEF ActionInv, Fresh, Called
<1>9. OrderInv
    BY <1>1, <1>2 DEF OrderInv, Fresh, Entered, ActionsOf
<1>10. CountInv
    <2>1. ASSUME NEW q \in LoadingPackages PROVE Users(q) = {q} \cup Importers(q)
        <3>1. \A r \in LoadingPackages : dependents[r] > 0
            BY <1>4
        <3> QED
            BY <1>1, <1>3, <2>1, <3>1 DEF Users, Importers, Before
    <2>2. ASSUME NEW q \in LoadingPackages PROVE dependents[q] = Cardinality(Users(q)) /\ dependents[q] # 0
        <3>1. IsFiniteSet(Importers(q)) /\ q \notin Importers(q)
            BY <1>3, PackagesFinite
        <3>2. Cardinality(Importers(q) \cup {q}) = Cardinality(Importers(q)) + 1
            BY <3>1, FS_AddElement
        <3>3. Users(q) = Importers(q) \cup {q}
            BY <2>1
        <3> QED
            BY <1>4, <3>2, <3>3
    <2> QED
        BY <1>1, <2>2 DEF CountInv, Fresh
<1>11. TypesInv
    <2>1. \A p \in Preloaded \cap LoadingPackages : types[p] # "nil"
        BY DEF Fresh, StartTypes
    <2> QED
        BY <1>1, <2>1 DEF TypesInv, Before
<1>12. ReportInv
    BY DEF ReportInv, CleanReportMeansAnalyzed, Fresh
<1> QED
    BY <1>5, <1>6, <1>7, <1>8, <1>9, <1>10, <1>11, <1>12 DEF IInv

\* The first process begins fresh, whatever the facts cache holds.
LEMMA InitInv == Init => IInv
<1>1. ASSUME Init PROVE Fresh
    BY <1>1 DEF Init, Fresh, G!GInit
<1> QED
    BY <1>1, FreshInv

\* So does every later one: only the facts cache survives a process.
LEMMA AgainInv ==
    ASSUME Again
    PROVE  IInv'
<1>1. Fresh'
    BY DEF Again, Fresh, StartTypes, StartIllTyped, StartCounts, NoCalls
<1>2. Fresh' => IInv'
    BY FreshInv, PTL
<1> QED
    BY <1>1, <1>2

\* A package that somebody still uses has not been counted down to zero.
LEMMA UsedCounts ==
    ASSUME ProcType, CountInv, NEW q \in LoadingPackages, NEW r \in Users(q)
    PROVE  dependents[q] > 0
<1>1. Users(q) \in SUBSET LoadingPackages
    BY DEF Users
<1>2. PICK U \in SUBSET LoadingPackages : U = Users(q)
    BY <1>1
<1>3. IsFiniteSet(U) /\ Cardinality(U) \in Nat
    BY PackagesFinite
<1>4. Cardinality(U) # 0
    BY <1>2, <1>3, FS_EmptySet
<1> QED
    BY <1>2, <1>3, <1>4 DEF CountInv

\* A package whose imports are done has only done packages below it.
LEMMA BelowDone ==
    ASSUME ProcType, PlaceInv, NEW p \in LoadingPackages, ImportsDone(p)
    PROVE  \A q \in AllImports(p) : q \in LoadingPackages /\ gp[q] = "done"
<1>1. PICK X : X = {q \in LoadingPackages : gp[q] = "done"}
    OBVIOUS
<1>2. Imports[p] \subseteq X
    BY <1>1, PackagesClosed DEF ImportsDone
<1>3. \A q \in X \cap LoadingPackages : Imports[q] \subseteq X
    BY <1>1, PackagesClosed DEF ImportsDone, PlaceInv
<1>4. AllImports(p) \subseteq X
    BY <1>2, <1>3, AllImportsClosed
<1> QED
    BY <1>1, <1>4

\* The holders of a slot when one package moves on.
LEMMA HoldersMove ==
    ASSUME NEW S \in SUBSET LoadingPackages, NEW p \in LoadingPackages
    PROVE  /\ Cardinality(S) \in Nat
           /\ p \notin S => Cardinality(S \cup {p}) = Cardinality(S) + 1
           /\ p \in S => Cardinality(S \ {p}) = Cardinality(S) - 1 /\ Cardinality(S) > 0
<1>1. IsFiniteSet(S) /\ Cardinality(S) \in Nat
    BY PackagesFinite
<1>2. p \notin S => Cardinality(S \cup {p}) = Cardinality(S) + 1
    BY <1>1, FS_AddElement
<1>3. p \in S => Cardinality(S \ {p}) = Cardinality(S) - 1
    BY <1>1, FS_RemoveElement
<1>4. p \in S => Cardinality(S) # 0
    BY <1>1, FS_EmptySet
<1> QED
    BY <1>1, <1>2, <1>3, <1>4

\* The places between which a goroutine moves without touching anything else.
Moves == {<<"idle", "wait">>, <<"wait", "select">>, <<"select", "done">>, <<"select", "load">>, <<"dec", "done">>}

\* The steps that only take a goroutine further: Enter, Join, Skip, Acquire
\* and Release.
LEMMA MoveInv ==
    ASSUME IInv, NEW p \in LoadingPackages, NEW from, NEW to, <<from, to>> \in Moves, Goto(p, from, to),
           to = "select" => ImportsDone(p),
           from = "select" /\ to = "done" => ctxDone,
           from = "dec" => calls[p] = {} /\ sem' = sem - 1,
           to = "load" => sem < LoadSlots /\ sem' = sem + 1,
           from # "dec" /\ to # "load" => UNCHANGED sem,
           UNCHANGED <<gvars, pvars, dependents, calls, needSource, avars, facts, cache, out>>
    PROVE  IInv'
<1> USE DEF gvars, pvars, avars, out
<1>0. ProcType /\ ActionType /\ PlaceInv /\ ActionInv /\ OrderInv /\ CountInv /\ TypesInv /\ ReportInv
    BY DEF IInv
<1>1. /\ gp[p] = from /\ gp'[p] = to /\ gp' = [gp EXCEPT ![p] = to]
      /\ \A q \in LoadingPackages : q # p => gp'[q] = gp[q]
      /\ from \in Before \cup {"dec"} /\ to \in {"wait", "select", "load", "done"}
      /\ gp' \in [LoadingPackages -> Before \cup {"graph", "persist", "dec", "done"}]
    BY <1>0 DEF Moves, Goto, ProcType, Before
<1>2. \A q \in LoadingPackages : gp[q] = "done" => gp'[q] = "done"
    BY <1>1 DEF Before
<1>3. /\ \A q \in LoadingPackages : gp'[q] = "graph" <=> gp[q] = "graph"
      /\ \A q \in LoadingPackages : gp'[q] = "persist" <=> gp[q] = "persist"
      /\ \A q \in LoadingPackages : gp'[q] = "dec" => gp[q] = "dec"
      /\ \A q \in LoadingPackages : gp'[q] \in Before => gp[q] \in Before
      /\ \A q \in LoadingPackages : gp'[q] \in {"dec", "done"} => gp[q] \in {"dec", "done"} \/ ctxDone
    BY <1>1 DEF Before, Moves
<1>4. ProcType'
    BY <1>0, <1>1 DEF ProcType
<1>5. ActionType'
    BY <1>0 DEF ActionType
<1>6. PlaceInv'
    <2>1. ASSUME NEW q \in LoadingPackages, gp'[q] \notin {"idle", "wait"} PROVE ImportsDone(q)'
        <3>1. ImportsDone(q)
            BY <1>0, <1>1, <2>1 DEF PlaceInv, Moves
        <3> QED
            BY <1>2, <3>1, PackagesClosed DEF ImportsDone
    <2>2. ASSUME NEW q \in LoadingPackages, calls'[q] # {} PROVE gp'[q] = "dec"
        BY <1>0, <1>1, <2>2 DEF PlaceInv, Moves
    <2>3. /\ \A q \in live' : gp'[q] = "graph"
          /\ \A k \in Actions : status'[k] = "running" => gp'[k[2]] = "graph"
          /\ \A k \in Actions : gp'[k[2]] \in Before => status'[k] = "pending"
          /\ \A q \in LoadingPackages : gp'[q] \in Before \cup {"graph"} => outcome'[q] = "none"
        BY <1>0, <1>3, PackagesClosed DEF PlaceInv, ProcType
    <2>4. sem' = Cardinality({q \in LoadingPackages : gp'[q] \in Holding}) /\ sem' <= LoadSlots
        <3>1. PICK S \in SUBSET LoadingPackages : S = {q \in LoadingPackages : gp[q] \in Holding}
            OBVIOUS
        <3>2. PICK T \in SUBSET LoadingPackages : T = {q \in LoadingPackages : gp'[q] \in Holding}
            OBVIOUS
        <3>3. sem = Cardinality(S) /\ sem \in Nat /\ sem <= LoadSlots
            BY <1>0, <3>1, HoldersMove DEF PlaceInv
        <3>4. CASE from = "dec"
            <4>1. p \in S /\ T = S \ {p} /\ sem' = sem - 1
                BY <1>1, <3>1, <3>2, <3>4 DEF Holding, Moves
            <4> QED
                BY <3>2, <3>3, <4>1, HoldersMove
        <3>5. CASE to = "load"
            <4>1. p \notin S /\ T = S \cup {p}
                BY <1>1, <3>1, <3>2, <3>5 DEF Holding, Moves
            <4>2. sem' = sem + 1 /\ sem < LoadSlots
                BY <3>5
            <4> QED
                BY <3>2, <3>3, <4>1, <4>2, HoldersMove
        <3>6. CASE from # "dec" /\ to # "load"
            <4>1. T = S /\ sem' = sem
                BY <1>1, <3>1, <3>2, <3>6 DEF Holding, Moves
            <4> QED
                BY <3>2, <3>3, <4>1
        <3> QED
            BY <3>4, <3>5, <3>6
    <2> QED
        BY <2>1, <2>2, <2>3, <2>4 DEF PlaceInv
<1>7. ActionInv'
    <2>1. Called' = Called
        BY DEF Called
    <2>2. \A k \in Actions : gp'[k[2]] = "graph" => gp[k[2]] = "graph"
        BY <1>3, PackagesClosed
    <2>3. \A k \in ran : k \in needSource' /\ ~illTyped'[k[2]]
        BY <1>0 DEF ActionInv
    <2> QED
        BY <1>0, <2>1, <2>2, <2>3 DEF ActionInv, ActionType
<1>8. OrderInv'
    <2>1. \A q : (Settled(q)' <=> Settled(q)) /\ (Entered(q)' <=> Entered(q)) /\ (Cancels(q)' <=> Cancels(q))
        BY DEF Settled, Entered, Cancels
    <2>2. \A q \in LoadingPackages : \A r \in AllImports(q) : r \in LoadingPackages
        BY AllImportsClosed
    <2>3. (\A q \in LoadingPackages : ~ctxDone /\ gp[q] \in {"dec", "done"} => Settled(q))'
        BY <1>0, <1>3, <2>1 DEF OrderInv
    <2>4. (\A q \in LoadingPackages : gp[q] = "persist" /\ ~Cancels(q) => ctxDone \/ Settled(q))'
        BY <1>0, <1>3, <2>1 DEF OrderInv
    <2>5. ASSUME NEW q \in LoadingPackages, Entered(q)'
          PROVE  \A r \in AllImports(q) : gp'[r] = "done" /\ Settled(r)'
        BY <1>0, <1>2, <2>1, <2>2, <2>5 DEF OrderInv
    <2> QED
        BY <1>0, <2>3, <2>4, <2>5 DEF OrderInv
<1>9. CountInv'
    <2>1. ASSUME NEW q \in LoadingPackages, q # p \/ from # "select" \/ to # "done" PROVE Users(q)' = Users(q)
        <3>1. /\ gp[q] \in Before \cup {"graph", "persist"} \/ <<q, q>> \in calls[q]
              <=> gp'[q] \in Before \cup {"graph", "persist"} \/ <<q, q>> \in calls[q]
            BY <1>0, <1>1, <2>1 DEF Moves, Before
        <3> QED
            BY <3>1 DEF Users
    <2>2. ASSUME NEW q \in LoadingPackages, q = p, from = "select", to = "done"
          PROVE  /\ Users(q)' = Users(q) \ {q} /\ q \in Users(q)
        <3>1. calls[q] = {} /\ gp[q] = "select" /\ gp'[q] = "done"
            BY <1>0, <1>1, <2>2 DEF PlaceInv
        <3> QED
            BY <3>1 DEF Users, Before
    <2>3. ASSUME NEW q \in LoadingPackages
          PROVE  \/ dependents'[q] = Cardinality(Users(q)')
                 \/ dependents'[q] = Cardinality(Users(q)') + 1 /\ gp'[q] = "done" /\ ctxDone'
        <3>1. CASE q # p \/ from # "select" \/ to # "done"
            BY <1>0, <1>2, <2>1, <3>1 DEF CountInv
        <3>2. CASE q = p /\ from = "select" /\ to = "done"
            <4>1. PICK S \in SUBSET LoadingPackages : S = Users(q)
                BY DEF Users
            <4>2. Cardinality(S \ {q}) = Cardinality(S) - 1 /\ Cardinality(S) \in Nat
                BY <2>2, <3>2, <4>1, HoldersMove
            <4>3. dependents[q] = Cardinality(S) /\ gp'[q] = "done" /\ ctxDone /\ Users(q)' = S \ {q}
                BY <1>0, <1>1, <2>2, <3>2, <4>1 DEF CountInv
            <4> QED
                BY <4>2, <4>3
        <3> QED
            BY <3>1, <3>2
    <2>4. \A k \in pass : k \in Actions /\ k[2] \in LoadingPackages
        BY <1>0, PackagesClosed DEF ActionType
    <2>5. \A k \in pass : gp'[k[2]] \in {"graph", "persist"} \/ <<k[2], k[2]>> \in calls[k[2]]
        BY <1>0, <1>3, <2>4 DEF CountInv
    <2> QED
        BY <1>0, <2>3, <2>5 DEF CountInv
<1>10. TypesInv'
    <2>1. \A q : Entered(q)' <=> Entered(q)
        BY DEF Entered
    <2>2. ASSUME NEW q \in LoadingPackages, gp'[q] \notin Before, types[q] = "nil", dependents[q] > 0
          PROVE  (Untyped(q) /\ illTyped'[q]) \/ (gp'[q] = "done" /\ ctxDone)
        <3>1. CASE gp[q] \in Before
            BY <1>1, <2>2, <3>1 DEF Moves, Before
        <3>2. CASE gp[q] \notin Before
            <4>1. (Untyped(q) /\ illTyped[q]) \/ (gp[q] = "done" /\ ctxDone)
                BY <1>0, <2>2, <3>2, Zenon DEF TypesInv
            <4>2. UNCHANGED illTyped
                OBVIOUS
            <4> QED
                BY <1>2, <4>1, <4>2
        <3> QED
            BY <3>1, <3>2
    <2>3. (\A q \in Preloaded \cap LoadingPackages : gp[q] \in Before => types[q] # "nil")'
        BY <1>0, <1>3 DEF TypesInv
    <2>4. ASSUME NEW q \in LoadingPackages, gp'[q] = "graph", Entered(q)' PROVE \A r \in Imports[q] : types[r] # "nil"
        BY <1>0, <1>3, <2>1, <2>4 DEF TypesInv
    <2> QED
        BY <2>2, <2>3, <2>4 DEF TypesInv, Untyped
<1>11. ReportInv'
    BY <1>0, <1>1 DEF ReportInv, CleanReportMeansAnalyzed, Before
<1> QED
    BY <1>4, <1>5, <1>6, <1>7, <1>8, <1>9, <1>10, <1>11 DEF IInv

\* What a package imports has types when it is loaded, unless the analysis is
\* cancelled: an initial package that does not parse has failed by then.
LEMMA ImportsTyped ==
    ASSUME ProcType, PlaceInv, ActionInv, OrderInv, CountInv, TypesInv,
           NEW p \in LoadingPackages, gp[p] = "load", ~ctxDone, NEW r \in Imports[p]
    PROVE  types[r] # "nil"
<1>0. r \in LoadingPackages /\ r # p
    BY PackagesClosed, Irreflexive
<1>1. gp[r] = "done" /\ Settled(r)
    BY <1>0 DEF PlaceInv, ImportsDone, OrderInv
<1>2. p \in Users(p)
    BY DEF Users, Before
<1>3. dependents[p] > 0
    BY <1>2, UsedCounts
<1>4. p \in Users(r)
    BY <1>0, <1>3 DEF Users
<1>5. dependents[r] > 0
    BY <1>0, <1>4, UsedCounts
<1> SUFFICES ASSUME types[r] = "nil" PROVE FALSE
    OBVIOUS
<1>6. gp[r] \notin Before
    BY <1>1 DEF Before
<1>7. Untyped(r) /\ illTyped[r]
    BY <1>0, <1>5, <1>6, Zenon DEF TypesInv
<1>8. r \in Initial /\ ~SourceFails(r)
    BY <1>7 DEF Untyped, SourceFails
<1>9. PICK a : a \in Configured
    OBVIOUS
<1>10. <<a, r>> \in Actions /\ <<a, r>>[2] = r
    BY <1>8, <1>9, ActionsClosed DEF Roots
<1>11. PICK k \in Actions : k[2] = r /\ k \in needSource
    BY <1>8, <1>10 DEF ActionInv
<1>12. ~(k \in ran)
    BY <1>7, <1>11 DEF ActionInv
<1>13. status[k] # "ok"
    BY <1>11, <1>12 DEF ActionInv
<1>14. status[k] = "pending" /\ err[k] = "wrapped"
    BY <1>1, <1>11, <1>13 DEF Settled, ActionsOf
<1> QED
    BY <1>8, <1>11, <1>14 DEF ActionInv

\* Loading a package keeps the invariant: it is loaded only when everything below
\* is done, so its graph opens only on settled packages.
LEMMA LoadsInv ==
    ASSUME IInv, NEW p \in LoadingPackages, Loads(p)
    PROVE  IInv'
<1>0. ProcType /\ ActionType /\ PlaceInv /\ ActionInv /\ OrderInv /\ CountInv /\ TypesInv /\ ReportInv
    BY DEF IInv
<1>1. /\ gp[p] = "load" /\ gp' = [gp EXCEPT ![p] = gp'[p]] /\ gp'[p] \in {"graph", "dec"}
      /\ UNCHANGED <<status, ctxDone, outcome, sem, dependents, pass, ran, result, hasDeps, cache, report, runs>>
      /\ needSource \subseteq needSource' /\ needSource' \subseteq needSource \cup ActionsOf(p)
      /\ \A k \in needSource' : HorizontalDeps(k) \subseteq needSource'
      /\ types' \in [LoadingPackages -> {"nil", "export", "source"}]
      /\ illTyped' \in [LoadingPackages -> BOOLEAN]
    BY <1>0, LoadFacts
<1>2. \A q \in LoadingPackages : q # p => types'[q] = types[q] /\ illTyped'[q] = illTyped[q]
    BY <1>0, LoadFacts
<1>3. ASSUME gp'[p] = "graph"
      PROVE  /\ live' = IF ctxDone THEN live ELSE live \cup {p}
             /\ UNCHANGED <<calls, err>>
             /\ types'[p] = "nil" => Untyped(p) /\ illTyped'[p]
    BY <1>0, <1>3, LoadFacts
<1>4. ASSUME gp'[p] = "dec"
      PROVE  /\ UNCHANGED live
             /\ calls' = [calls EXCEPT ![p] = {<<p, p>>}]
             /\ types'[p] # "nil" /\ SourceFails(p)
             /\ err' = [k \in Actions |-> IF k[2] = p THEN "wrapped" ELSE err[k]]
    BY <1>0, <1>4, LoadFacts
<1>5. /\ \A q \in LoadingPackages : q # p => gp'[q] = gp[q]
      /\ \A q \in LoadingPackages : gp[q] = "done" => gp'[q] = "done" /\ q # p
    BY <1>0, <1>1 DEF ProcType
<1>6. ImportsDone(p) /\ calls[p] = {} /\ outcome[p] = "none" /\ p \notin live
    BY <1>0, <1>1 DEF PlaceInv, Before
<1>7. \A k \in Actions : k[2] = p => status[k] = "pending"
    BY <1>0, <1>1 DEF PlaceInv, Before
<1>8. /\ \A q \in LoadingPackages : q # p => calls'[q] = calls[q]
      /\ (calls'[p] = {} /\ gp'[p] = "graph") \/ (calls'[p] = {<<p, p>>} /\ gp'[p] = "dec")
      /\ \A k \in Actions : k[2] # p => err'[k] = err[k]
      /\ live' = live \/ (live' = live \cup {p} /\ gp'[p] = "graph" /\ ~ctxDone)
    <2>1. CASE gp'[p] = "graph"
        <3>1. live' = live \/ (live' = live \cup {p} /\ ~ctxDone)
            BY <1>3, <2>1
        <3> QED
            BY <1>3, <1>6, <2>1, <3>1
    <2>2. CASE gp'[p] = "dec"
        BY <1>0, <1>4, <2>2 DEF ProcType, ActionType
    <2> QED
        BY <1>1, <2>1, <2>2
<1>9. ProcType'
    BY <1>0, <1>1, <1>3, <1>4, <1>8 DEF ProcType, Before
<1>10. ActionType'
    BY <1>0, <1>1, <1>3, <1>4 DEF ActionType, ActionsOf
<1>11. PlaceInv'
    <2>1. ASSUME NEW q \in LoadingPackages, gp'[q] \notin {"idle", "wait"} PROVE ImportsDone(q)'
        <3>1. ImportsDone(q)
            BY <1>0, <1>5, <1>6, <2>1 DEF PlaceInv
        <3> QED
            BY <1>5, <3>1, PackagesClosed DEF ImportsDone
    <2>2. ASSUME NEW q \in LoadingPackages, calls'[q] # {} PROVE gp'[q] = "dec"
        BY <1>0, <1>5, <1>8, <2>2 DEF PlaceInv
    <2>3. \A q \in live' : gp'[q] = "graph"
        BY <1>0, <1>5, <1>6, <1>8 DEF PlaceInv, ProcType
    <2>4. /\ \A k \in Actions : status'[k] = "running" => gp'[k[2]] = "graph"
          /\ \A k \in Actions : gp'[k[2]] \in Before => status'[k] = "pending"
          /\ \A q \in LoadingPackages : gp'[q] \in Before \cup {"graph"} => outcome'[q] = "none"
        BY <1>0, <1>1, <1>5, <1>6, <1>7, PackagesClosed DEF PlaceInv
    <2>5. {q \in LoadingPackages : gp'[q] \in Holding} = {q \in LoadingPackages : gp[q] \in Holding}
        BY <1>1, <1>5 DEF Holding
    <2> QED
        BY <1>0, <1>1, <2>1, <2>2, <2>3, <2>4, <2>5 DEF PlaceInv
<1>12. ActionInv'
    <2>1. Called' = Called /\ Called \subseteq Actions
        BY <1>0, <1>1 DEF Called, ActionType
    <2>2. \A k \in Called : status[k] # "pending" /\ k[2] # p /\ k[2] \in LoadingPackages
        BY <1>0, <1>7, <2>1, PackagesClosed DEF ActionInv
    <2>3. \A k \in Actions : k[2] # p => (k \in needSource' <=> k \in needSource)
        BY <1>1 DEF ActionsOf
    <2>4. \A k \in ran' : k \in needSource' /\ ~illTyped'[k[2]]
        <3>1. \A k \in ran : ~illTyped[k[2]] /\ k \in needSource /\ k[2] # p /\ k[2] \in LoadingPackages
            BY <1>0, <2>2 DEF ActionInv, Called
        <3> QED
            BY <1>1, <1>2, <3>1
    <2>5. \A k \in Actions : status'[k] = "ok" => err'[k] = "none" /\ (k \in needSource' => k \in ran')
        BY <1>0, <1>1, <1>7, <1>8, <2>3 DEF ActionInv
    <2>6. \A k \in Actions : status'[k] = "err" => err'[k] # "none"
        BY <1>0, <1>1, <1>7, <1>8 DEF ActionInv
    <2>7. \A k \in ran' : status'[k] = "ok" /\ gp'[k[2]] = "graph" => k \in result'
        BY <1>0, <1>1, <1>5, <2>2 DEF ActionInv, Called
    <2>8. \A k \in Actions : status'[k] = "pending" /\ err'[k] = "wrapped" => SourceFails(k[2])
        BY <1>0, <1>1, <1>3, <1>4, <1>8 DEF ActionInv
    <2>9. /\ \A k \in Actions : status'[k] # "pending" => \A d \in HorizontalDeps(k) : status'[d] = "ok"
          /\ \A k \in Called' : status'[k] # "pending" /\ \A d \in Deps[k] : status'[d] = "ok"
        BY <1>0, <1>1, <2>1 DEF ActionInv
    <2>10. \A k \in Actions : k[2] \in Initial => k \in needSource'
        BY <1>0, <1>1 DEF ActionInv
    <2> QED
        BY <1>1, <2>4, <2>5, <2>6, <2>7, <2>8, <2>9, <2>10 DEF ActionInv, SourceFails
<1>13. OrderInv'
    <2>1. ASSUME NEW q \in LoadingPackages, q # p
          PROVE  (Settled(q)' <=> Settled(q)) /\ (Cancels(q)' <=> Cancels(q)) /\ (Entered(q)' <=> Entered(q))
        BY <1>1, <1>8, <2>1 DEF Settled, Cancels, Entered, ActionsOf
    <2>2. ~ctxDone => \A q \in AllImports(p) : gp'[q] = "done" /\ q # p /\ Settled(q)'
        BY <1>0, <1>5, <1>6, <2>1, BelowDone DEF OrderInv
    <2>3. \A q \in LoadingPackages : ~ctxDone' /\ gp'[q] \in {"dec", "done"} => Settled(q)'
        <3>1. ASSUME gp'[p] = "dec" PROVE Settled(p)'
            BY <1>1, <1>4, <1>7, <3>1 DEF Settled, ActionsOf
        <3> QED
            BY <1>0, <1>1, <1>5, <2>1, <3>1 DEF OrderInv
    <2>4. \A q \in LoadingPackages : gp'[q] = "persist" /\ ~Cancels(q)' => ctxDone' \/ Settled(q)'
        BY <1>0, <1>1, <1>5, <2>1 DEF OrderInv
    <2>5. ASSUME NEW q \in LoadingPackages, Entered(q)' PROVE \A r \in AllImports(q) : gp'[r] = "done" /\ Settled(r)'
        <3>1. CASE q = p
            <4>1. ~ctxDone
                BY <1>1, <1>6, <1>7, <1>8, <2>5, <3>1 DEF Entered, ActionsOf
            <4> QED
                BY <2>2, <3>1, <4>1
        <3>2. CASE q # p
            <4>1. \A r \in AllImports(q) : r \in LoadingPackages /\ gp[r] = "done" /\ Settled(r)
                BY <1>0, <2>1, <2>5, <3>2, AllImportsClosed DEF OrderInv
            <4> QED
                BY <1>5, <2>1, <4>1
        <3> QED
            BY <3>1, <3>2
    <2> QED
        BY <1>0, <1>1, <2>3, <2>4, <2>5 DEF OrderInv, ActionsOf
<1>14. CountInv'
    <2>1. \A g, r, q \in LoadingPackages : r # q => (<<r, q>> \in calls'[g] <=> <<r, q>> \in calls[g])
        BY <1>6, <1>8
    <2>2. \A g, q \in LoadingPackages : <<q, q>> \in calls'[g] => <<q, q>> \in calls[g] \/ (g = p /\ q = p)
        BY <1>6, <1>8
    <2>3. ASSUME NEW q \in LoadingPackages PROVE Users(q)' = Users(q)
        <3>1. (gp[q] \in Before \cup {"graph", "persist"} \/ <<q, q>> \in calls[q])
              <=> (gp'[q] \in Before \cup {"graph", "persist"} \/ <<q, q>> \in calls'[q])
            BY <1>1, <1>5, <1>8 DEF Before
        <3> QED
            BY <1>1, <2>1, <3>1 DEF Users
    <2>4. ASSUME NEW q \in LoadingPackages
          PROVE  \/ dependents'[q] = Cardinality(Users(q)')
                 \/ dependents'[q] = Cardinality(Users(q)') + 1 /\ gp'[q] = "done" /\ ctxDone'
        BY <1>0, <1>1, <1>5, <2>3 DEF CountInv
    <2>5. \A g, r, q \in LoadingPackages : <<r, q>> \in calls'[g] =>
            (r = q /\ g = q) \/ (r # q /\ q \in Imports[r] /\ dependents'[r] = 0)
        BY <1>0, <1>1, <2>1, <2>2 DEF CountInv
    <2>6. \A g, h, r, q \in LoadingPackages : <<r, q>> \in calls'[g] \cap calls'[h] => g = h
        BY <1>0, <2>1, <2>5 DEF CountInv
    <2>7. p \in Users(p)
        BY <1>1 DEF Users, Before
    <2>8. dependents[p] > 0
        BY <1>0, <2>7, UsedCounts
    <2>9. \A q \in LoadingPackages : dependents'[q] = 0 => types'[q] = "nil"
        BY <1>0, <1>1, <1>2, <2>8 DEF CountInv
    <2>10. \A k \in pass' : k \in Actions /\ k[2] \in LoadingPackages /\ k[2] # p
        BY <1>0, <1>1, <1>7, PackagesClosed DEF ActionType, ActionInv, Called
    <2>11. \A k \in pass' : gp'[k[2]] \in {"graph", "persist"} \/ <<k[2], k[2]>> \in calls'[k[2]]
        BY <1>0, <1>1, <1>5, <1>8, <2>10 DEF CountInv
    <2> QED
        BY <2>4, <2>5, <2>6, <2>9, <2>11 DEF CountInv
<1>15. TypesInv'
    <2>1. \A q \in Preloaded \cap LoadingPackages : gp'[q] \in Before => types'[q] # "nil"
        BY <1>0, <1>1, <1>2, <1>5 DEF TypesInv, Before
    <2>2. ASSUME NEW q \in LoadingPackages, gp'[q] \notin Before, types'[q] = "nil", dependents'[q] > 0
          PROVE  (Untyped(q) /\ illTyped'[q]) \/ (gp'[q] = "done" /\ ctxDone')
        <3>1. CASE q = p
            BY <1>1, <1>3, <1>4, <2>2, <3>1
        <3>2. CASE q # p
            <4>1. gp[q] \notin Before /\ types[q] = "nil" /\ dependents[q] > 0
                BY <1>1, <1>2, <1>5, <2>2, <3>2
            <4>2. (Untyped(q) /\ illTyped[q]) \/ (gp[q] = "done" /\ ctxDone)
                BY <1>0, <4>1, Zenon DEF TypesInv
            <4> QED
                BY <1>1, <1>2, <1>5, <3>2, <4>2
        <3> QED
            BY <3>1, <3>2
    <2>3. ASSUME NEW q \in LoadingPackages, gp'[q] = "graph", Entered(q)', NEW r \in Imports[q] PROVE types'[r] # "nil"
        <3>0. r \in LoadingPackages /\ r # q
            BY PackagesClosed, Irreflexive
        <3>1. CASE q # p
            <4>1. gp[q] = "graph" /\ Entered(q)
                BY <1>1, <1>5, <1>8, <2>3, <3>1 DEF Entered, ActionsOf
            <4>2. types[r] # "nil" /\ gp[r] = "done"
                BY <1>0, <4>1 DEF TypesInv, PlaceInv, ImportsDone
            <4> QED
                BY <1>1, <1>2, <3>0, <4>2
        <3>2. CASE q = p
            <4>1. ~ctxDone
                BY <1>1, <1>6, <1>7, <1>8, <2>3, <3>2 DEF Entered, ActionsOf
            <4>2. types[r] # "nil"
                BY <1>0, <1>1, <3>2, <4>1, ImportsTyped
            <4> QED
                BY <1>2, <3>0, <3>2, <4>2
        <3> QED
            BY <3>1, <3>2
    <2> QED
        BY <2>1, <2>2, <2>3 DEF TypesInv, Untyped
<1>16. ReportInv'
    BY <1>0, <1>1 DEF ReportInv, CleanReportMeansAnalyzed
<1> QED
    BY <1>9, <1>10, <1>11, <1>12, <1>13, <1>14, <1>15, <1>16 DEF IInv

\* Starting an action keeps the invariant: the order of the graphs stands in for
\* the errors that action.analyze overlooks.
LEMMA StartInv ==
    ASSUME IInv, NEW k \in Actions, StartAction(k)
    PROVE  IInv'
<1>0. ProcType /\ ActionType /\ PlaceInv /\ ActionInv /\ OrderInv /\ CountInv /\ TypesInv /\ ReportInv
    BY DEF IInv
<1> DEFINE called == k \in needSource /\ ~FailedPrerequisites(k)
<1>1. /\ k[2] \in LoadingPackages /\ Deps[k] \subseteq Actions /\ Deps[k] = HorizontalDeps(k) \cup VerticalDeps(k)
      /\ PkgOf[k] = k[2] /\ G!HDeps(k) = HorizontalDeps(k)
      /\ \A d \in VerticalDeps(k) : d \in Actions /\ d[2] \in Imports[k[2]] /\ d[2] \in AllImports(k[2])
    BY DepsFacts, AllImportsClosed
<1>2. /\ gp[k[2]] = "graph" /\ k[2] \in live /\ status[k] = "pending" /\ \A d \in HorizontalDeps(k) : status[d] = "ok"
      /\ status' = [status EXCEPT ![k] = "running"] /\ live' \subseteq live /\ UNCHANGED <<ctxDone, outcome>>
    BY <1>1 DEF StartAction, G!Start, G!Runnable
<1>3. /\ pass' = IF called THEN pass \cup {k} ELSE pass
      /\ ran' = IF called /\ ~illTyped[k[2]] THEN ran \cup {k} ELSE ran
      /\ UNCHANGED <<gp, sem, types, illTyped, dependents, calls, needSource, err, result, hasDeps, report>>
    BY DEF StartAction, pvars, out
<1>4. status'[k] = "running" /\ \A d \in Actions : d # k => status'[d] = status[d]
    BY <1>0, <1>2 DEF ActionType
<1>5. called => \A d \in Deps[k] : status[d] = "ok"
    <2> SUFFICES ASSUME called, NEW d \in VerticalDeps(k) PROVE status[d] = "ok"
        BY <1>1, <1>2
    <2>1. d \in ActionsOf(d[2]) /\ Settled(d[2])
        BY <1>0, <1>1, <1>2 DEF OrderInv, Entered, ActionsOf
    <2>2. err[d] # "wrapped"
        BY <1>1 DEF FailedPrerequisites
    <2> QED
        BY <2>1, <2>2 DEF Settled
<1>6. /\ pass \subseteq pass' /\ pass' \subseteq pass \cup {k} /\ ran \subseteq ran' /\ ran' \subseteq ran \cup {k}
      /\ (k \in pass' /\ k \notin pass) \/ (k \in ran' /\ k \notin ran) => called
      /\ k \in ran' /\ k \notin ran => ~illTyped[k[2]]
    <2>1. CASE called /\ ~illTyped[k[2]]
        BY <1>3, <2>1
    <2>2. CASE called /\ illTyped[k[2]]
        BY <1>3, <2>2
    <2>3. CASE ~called
        BY <1>3, <2>3
    <2> QED
        BY <2>1, <2>2, <2>3
<1>7. k \notin Called
    BY <1>0, <1>2 DEF ActionInv
<1> HIDE DEF called
<1>8. ProcType'
    BY <1>0, <1>2, <1>3 DEF ProcType
<1>9. ActionType'
    BY <1>0, <1>2, <1>3, <1>6 DEF ActionType
<1>10. PlaceInv'
    <2>1. \A q : ImportsDone(q)' <=> ImportsDone(q)
        BY <1>3 DEF ImportsDone
    <2>2. /\ \A q \in live' : gp'[q] = "graph"
          /\ \A a \in Actions : status'[a] = "running" => gp'[a[2]] = "graph"
          /\ \A a \in Actions : gp'[a[2]] \in Before => status'[a] = "pending"
        BY <1>0, <1>2, <1>3, <1>4 DEF PlaceInv, Before
    <2> QED
        BY <1>0, <1>2, <1>3, <2>1, <2>2 DEF PlaceInv
<1>11. ActionInv'
    <2>1. Called' \subseteq Called \cup {k} /\ (k \in Called' => called)
        BY <1>3, <1>6, <1>7 DEF Called
    <2>2. \A d \in Actions : status[d] = "ok" => status'[d] = "ok"
        BY <1>2, <1>4
    <2>3. \A a \in ran' : a \in needSource' /\ ~illTyped'[a[2]]
        <3>1. \A a \in ran : a \in needSource /\ ~illTyped[a[2]]
            BY <1>0 DEF ActionInv
        <3>2. UNCHANGED <<needSource, illTyped>>
            BY <1>3
        <3>3. called => k \in needSource
            BY DEF called
        <3> QED
            BY <1>6, <3>1, <3>2, <3>3
    <2>4. \A a \in Actions : status'[a] # "pending" => \A d \in HorizontalDeps(a) : status'[d] = "ok"
        BY <1>0, <1>2, <1>4, <2>2, DepsFacts DEF ActionInv
    <2>5. \A a \in Called' : status'[a] # "pending" /\ \A d \in Deps[a] : status'[d] = "ok"
        <3>1. \A a \in Called : a \in Actions
            BY <1>0 DEF Called, ActionType
        <3> QED
            BY <1>0, <1>4, <1>5, <2>1, <2>2, <3>1, DepsFacts DEF ActionInv
    <2>6. \A a \in Actions : status'[a] = "ok" => err'[a] = "none" /\ (a \in needSource' => a \in ran')
        BY <1>0, <1>3, <1>4, <1>6 DEF ActionInv
    <2>7. \A a \in ran' : status'[a] = "ok" /\ gp'[a[2]] = "graph" => a \in result'
        BY <1>0, <1>3, <1>4, <1>6 DEF ActionInv, ActionType
    <2>8. /\ \A a \in Actions : status'[a] = "err" => err'[a] # "none"
          /\ \A a \in Actions : status'[a] = "pending" /\ err'[a] = "wrapped" => SourceFails(a[2])
        BY <1>0, <1>3, <1>4 DEF ActionInv
    <2> QED
        BY <1>0, <1>3, <2>3, <2>4, <2>5, <2>6, <2>7, <2>8 DEF ActionInv, SourceFails
<1>12. OrderInv'
    <2>1. ASSUME NEW q \in LoadingPackages, gp[q] # "graph" PROVE Settled(q)' <=> Settled(q)
        <3>1. \A a \in ActionsOf(q) : status'[a] = status[a] /\ err'[a] = err[a]
            BY <1>2, <1>3, <1>4, <2>1 DEF ActionsOf
        <3> QED
            BY <3>1 DEF Settled, ActionsOf
    <2>2. \A q \in LoadingPackages : Cancels(q)' <=> Cancels(q)
        BY <1>2 DEF Cancels
    <2>3. \A q \in LoadingPackages : Entered(q)' => Entered(q)
        BY <1>2, <1>4 DEF Entered, ActionsOf
    <2>4. ASSUME NEW q \in LoadingPackages, Entered(q)' PROVE \A r \in AllImports(q) : gp'[r] = "done" /\ Settled(r)'
        BY <1>0, <1>3, <2>1, <2>3, <2>4, AllImportsClosed DEF OrderInv
    <2>5. /\ \A q \in LoadingPackages : ~ctxDone' /\ gp'[q] \in {"dec", "done"} => Settled(q)'
          /\ \A q \in LoadingPackages : gp'[q] = "persist" /\ ~Cancels(q)' => ctxDone' \/ Settled(q)'
        BY <1>0, <1>2, <1>3, <2>1, <2>2 DEF OrderInv
    <2>6. \A a \in Actions : status[a] = "err" => status'[a] = "err"
        BY <1>2, <1>4
    <2>7. \A q \in LoadingPackages : outcome'[q] = "failed" => \E a \in ActionsOf(q) : status'[a] = "err"
        BY <1>0, <1>2, <2>6 DEF OrderInv, ActionsOf
    <2>8. ctxDone' => \E a \in Actions : status'[a] = "err"
        BY <1>0, <1>2, <2>6 DEF OrderInv
    <2> QED
        BY <2>4, <2>5, <2>7, <2>8 DEF OrderInv, ActionsOf
<1>13. CountInv'
    <2>1. \A q : Users(q)' = Users(q)
        BY <1>3 DEF Users
    <2>2. \A a \in pass' : gp'[a[2]] \in {"graph", "persist"} \/ <<a[2], a[2]>> \in calls'[a[2]]
        BY <1>0, <1>2, <1>3, <1>6 DEF CountInv
    <2> QED
        BY <1>0, <1>2, <1>3, <2>1, <2>2 DEF CountInv
<1>14. TypesInv'
    <2>1. \A q \in LoadingPackages : Entered(q)' => Entered(q)
        BY <1>2, <1>4 DEF Entered, ActionsOf
    <2>2. UNCHANGED <<gp, types, dependents, illTyped, ctxDone>>
        BY <1>2, <1>3
    <2> QED
        BY <1>0, <2>1, <2>2 DEF TypesInv, Untyped
<1>15. ReportInv'
    <2>1. report' = report /\ gp' = gp /\ ran \subseteq ran'
        BY <1>3, <1>6
    <2> QED
        BY <1>0, <2>1 DEF ReportInv, CleanReportMeansAnalyzed
<1> QED
    BY <1>8, <1>9, <1>10, <1>11, <1>12, <1>13, <1>14, <1>15 DEF IInv

\* Finishing an action keeps the invariant.
LEMMA FinishInv ==
    ASSUME IInv, NEW k \in Actions, FinishAction(k)
    PROVE  IInv'
<1>0. ProcType /\ ActionType /\ PlaceInv /\ ActionInv /\ OrderInv /\ CountInv /\ TypesInv /\ ReportInv
    BY DEF IInv
<1>1. /\ status[k] = "running" /\ UNCHANGED <<ctxDone, live, outcome>>
      /\ UNCHANGED <<gp, sem, types, illTyped, dependents, calls, needSource, pass, ran, hasDeps, report>>
      /\ \E r \in {"ok", "err"} : status' = [status EXCEPT ![k] = r]
    BY DEF FinishAction, G!Finish, pvars, out
<1>2. PICK e \in Ends(k) :
          /\ err' = [err EXCEPT ![k] = e]
          /\ status'[k] = (IF e = "none" THEN "ok" ELSE "err")
          /\ result' = IF k \in ran /\ e = "none" THEN result \cup {k} ELSE result
    BY DEF FinishAction
<1>3. /\ k[2] \in LoadingPackages /\ gp[k[2]] = "graph"
      /\ \A d \in HorizontalDeps(k) : status[d] = "ok"
    BY <1>0, <1>1, DepsFacts DEF PlaceInv, ActionInv
<1>4. /\ status' = [status EXCEPT ![k] = status'[k]] /\ \A d \in Actions : d # k => status'[d] = status[d]
      /\ err'[k] = e /\ \A d \in Actions : d # k => err'[d] = err[d]
      /\ status'[k] \in {"ok", "err"}
    BY <1>0, <1>1, <1>2 DEF ActionType
<1>5. /\ e \in {"none", "plain", "wrapped", "panic"}
      /\ e = "none" /\ k \in needSource => k \in ran
    BY DEF Ends
<1>6. result \subseteq result' /\ (k \in ran /\ status'[k] = "ok" => k \in result')
    BY <1>2
<1>7. ProcType'
    BY <1>0, <1>1 DEF ProcType
<1>8. ActionType'
    BY <1>0, <1>1, <1>2, <1>4, <1>5 DEF ActionType
<1>9. PlaceInv'
    <2>1. \A q : ImportsDone(q)' <=> ImportsDone(q)
        BY <1>1 DEF ImportsDone
    <2>2. /\ \A a \in Actions : status'[a] = "running" => gp'[a[2]] = "graph"
          /\ \A a \in Actions : gp'[a[2]] \in Before => status'[a] = "pending"
        BY <1>0, <1>1, <1>3, <1>4 DEF PlaceInv, Before
    <2> QED
        BY <1>0, <1>1, <2>1, <2>2 DEF PlaceInv
<1>10. \A d \in Actions : status[d] = "ok" => status'[d] = "ok"
    BY <1>1, <1>4
<1>11. ActionInv'
    <2>1. Called' = Called /\ Called \subseteq Actions
        BY <1>0, <1>1 DEF Called, ActionType
    <2>2. \A a \in ran' : a \in needSource' /\ ~illTyped'[a[2]]
        <3>1. UNCHANGED <<ran, needSource, illTyped>>
            BY <1>1
        <3> QED
            BY <1>0, <3>1 DEF ActionInv
    <2>3. \A a \in Actions : status'[a] # "pending" => \A d \in HorizontalDeps(a) : status'[d] = "ok"
        BY <1>0, <1>3, <1>4, <1>10, DepsFacts DEF ActionInv
    <2>4. \A a \in Called' : status'[a] # "pending" /\ \A d \in Deps[a] : status'[d] = "ok"
        BY <1>0, <1>4, <1>10, <2>1, DepsFacts DEF ActionInv
    <2>5. \A a \in Actions : status'[a] = "ok" => err'[a] = "none" /\ (a \in needSource' => a \in ran')
        BY <1>0, <1>1, <1>2, <1>4, <1>5 DEF ActionInv
    <2>6. \A a \in ran' : status'[a] = "ok" /\ gp'[a[2]] = "graph" => a \in result'
        BY <1>0, <1>1, <1>4, <1>6 DEF ActionInv, ActionType
    <2>7. /\ \A a \in Actions : status'[a] = "err" => err'[a] # "none"
          /\ \A a \in Actions : status'[a] = "pending" /\ err'[a] = "wrapped" => SourceFails(a[2])
        BY <1>0, <1>1, <1>2, <1>4 DEF ActionInv
    <2> QED
        BY <1>0, <1>1, <2>2, <2>3, <2>4, <2>5, <2>6, <2>7 DEF ActionInv, SourceFails
<1>12. \A q \in LoadingPackages : Entered(q)' => Entered(q)
    BY <1>1, <1>4 DEF Entered, ActionsOf
<1>13. OrderInv'
    <2>1. ASSUME NEW q \in LoadingPackages, gp[q] # "graph" PROVE Settled(q)' <=> Settled(q)
        <3>1. \A a \in ActionsOf(q) : status'[a] = status[a] /\ err'[a] = err[a]
            BY <1>3, <1>4, <2>1 DEF ActionsOf
        <3> QED
            BY <3>1 DEF Settled, ActionsOf
    <2>2. \A q \in LoadingPackages : Cancels(q)' <=> Cancels(q)
        BY <1>1 DEF Cancels
    <2>3. ASSUME NEW q \in LoadingPackages, Entered(q)' PROVE \A r \in AllImports(q) : gp'[r] = "done" /\ Settled(r)'
        BY <1>0, <1>1, <1>12, <2>1, <2>3, AllImportsClosed DEF OrderInv
    <2>4. /\ \A q \in LoadingPackages : ~ctxDone' /\ gp'[q] \in {"dec", "done"} => Settled(q)'
          /\ \A q \in LoadingPackages : gp'[q] = "persist" /\ ~Cancels(q)' => ctxDone' \/ Settled(q)'
        BY <1>0, <1>1, <2>1, <2>2 DEF OrderInv
    <2>5. \A a \in Actions : status[a] = "err" => status'[a] = "err"
        BY <1>1, <1>4
    <2>6. \A q \in LoadingPackages : outcome'[q] = "failed" => \E a \in ActionsOf(q) : status'[a] = "err"
        BY <1>0, <1>1, <2>5 DEF OrderInv, ActionsOf
    <2>7. ctxDone' => \E a \in Actions : status'[a] = "err"
        BY <1>0, <1>1, <2>5 DEF OrderInv
    <2> QED
        BY <2>3, <2>4, <2>6, <2>7 DEF OrderInv, ActionsOf
<1>14. CountInv'
    <2>1. \A q : Users(q)' = Users(q)
        BY <1>1 DEF Users
    <2> QED
        BY <1>0, <1>1, <2>1 DEF CountInv
<1>15. TypesInv'
    <2>1. UNCHANGED <<gp, types, dependents, illTyped, ctxDone>>
        BY <1>1
    <2> QED
        BY <1>0, <1>12, <2>1 DEF TypesInv, Untyped
<1>16. ReportInv'
    <2>1. report' = report /\ gp' = gp /\ ran' = ran
        BY <1>1
    <2> QED
        BY <1>0, <2>1 DEF ReportInv, CleanReportMeansAnalyzed
<1> QED
    BY <1>7, <1>8, <1>9, <1>11, <1>13, <1>14, <1>15, <1>16 DEF IInv

\* A graph whose analyzers do not require each other in a circle never comes to
\* a stop with a blocked action: runActionGraph does not report a cycle.
LEMMA NeverUnschedulable ==
    ASSUME ProcType, ActionType, PlaceInv, NEW p \in LoadingPackages, ReturnGraph(p)
    PROVE  /\ gp[p] = "graph" /\ gp' = [gp EXCEPT ![p] = "persist"] /\ outcome[p] = "none"
           /\ UNCHANGED <<status, ctxDone, sem, types, illTyped, dependents, calls, needSource, pass, ran, err, result, hasDeps, facts, cache, report, runs>>
           /\ live' = live \ {p}
           /\ \/ /\ outcome' = [outcome EXCEPT ![p] = "failed"]
                 /\ \E k \in ActionsOf(p) : status[k] = "err"
              \/ /\ outcome' = [outcome EXCEPT ![p] = "ok"]
                 /\ ctxDone \/ \A k \in ActionsOf(p) : status[k] = "ok"
<1>1. G!ActionsOf(p) = ActionsOf(p)
    BY DepsFacts DEF G!ActionsOf, ActionsOf
<1>2. /\ gp[p] = "graph" /\ gp' = [gp EXCEPT ![p] = "persist"] /\ outcome[p] = "none"
      /\ UNCHANGED <<ctxDone, sem, types, illTyped, dependents, calls, needSource, pass, ran, err, result, hasDeps, facts, cache, report, runs>>
      /\ live' = live \ {p}
      /\ \A k \in ActionsOf(p) : status[k] # "running"
    BY <1>1 DEF ReturnGraph, Goto, G!Return, pvars, avars, out
<1>3. ASSUME ~G!Failed(p), \A a \in ActionsOf(p) : ~G!Runnable(a), NEW b \in ActionsOf(p), status[b] = "pending"
      PROVE  FALSE
    <2>1. PICK S : S = {a \in Analyzers : <<a, p>> \in Actions /\ status[<<a, p>>] = "pending"}
        OBVIOUS
    <2>2. b[1] \in S
        BY <1>3, <2>1, DepsFacts DEF ActionsOf
    <2>3. S \in SUBSET DOMAIN Requires /\ S # {}
        BY <2>1, <2>2
    <2>4. PICK a \in S : Requires[a] \cap S = {}
        BY <2>3 DEF Acyclic
    <2>5. <<a, p>> \in ActionsOf(p) /\ status[<<a, p>>] = "pending" /\ <<a, p>>[1] = a /\ <<a, p>>[2] = p
        BY <2>1 DEF ActionsOf
    <2>6. PICK k \in Actions : k = <<a, p>> /\ k[1] = a /\ k[2] = p
        BY <2>5 DEF ActionsOf
    <2>7. ASSUME NEW d \in HorizontalDeps(k) PROVE status[d] = "ok"
        <3>1. PICK r \in Requires[a] : d = <<r, p>>
            BY <2>6, <2>7 DEF HorizontalDeps
        <3>2. d \in Actions /\ d[2] = p /\ r \in Analyzers /\ r \notin S
            BY <2>1, <2>4, <2>6, <2>7, <3>1, DepsFacts
        <3>3. d \in ActionsOf(p) /\ status[d] # "pending"
            BY <2>1, <3>1, <3>2 DEF ActionsOf
        <3>4. status[d] # "err"
            BY <1>1, <1>3, <3>3 DEF G!Failed
        <3> QED
            BY <1>2, <3>3, <3>4, <3>2 DEF ActionType
    <2>8. G!Runnable(k)
        BY <2>5, <2>6, <2>7, DepsFacts DEF G!Runnable
    <2> QED
        BY <1>3, <2>5, <2>6, <2>8
<1>4. \/ /\ outcome' = [outcome EXCEPT ![p] = "failed"] /\ UNCHANGED status
         /\ \E k \in ActionsOf(p) : status[k] = "err"
      \/ /\ outcome' = [outcome EXCEPT ![p] = "ok"] /\ UNCHANGED status
         /\ ctxDone \/ \A k \in ActionsOf(p) : status[k] = "ok"
      \/ /\ ~G!Failed(p) /\ \A a \in ActionsOf(p) : ~G!Runnable(a)
         /\ \E a \in ActionsOf(p) : status[a] = "pending"
    BY <1>1 DEF ReturnGraph, G!Return, G!Failed
<1> QED
    BY <1>2, <1>3, <1>4

\* The return of a graph keeps the invariant.
LEMMA ReturnInv ==
    ASSUME IInv, NEW p \in LoadingPackages, ReturnGraph(p)
    PROVE  IInv'
<1>0. ProcType /\ ActionType /\ PlaceInv /\ ActionInv /\ OrderInv /\ CountInv /\ TypesInv /\ ReportInv
    BY DEF IInv
<1>1. /\ gp[p] = "graph" /\ gp' = [gp EXCEPT ![p] = "persist"] /\ outcome[p] = "none"
      /\ UNCHANGED <<status, ctxDone, sem, types, illTyped, dependents, calls, needSource, pass, ran, err, result, hasDeps, facts, cache, report, runs>>
      /\ live' = live \ {p}
    BY <1>0, NeverUnschedulable
<1>2. \/ outcome' = [outcome EXCEPT ![p] = "failed"] /\ \E k \in ActionsOf(p) : status[k] = "err"
      \/ outcome' = [outcome EXCEPT ![p] = "ok"] /\ (ctxDone \/ \A k \in ActionsOf(p) : status[k] = "ok")
    BY <1>0, NeverUnschedulable
<1>3. /\ gp'[p] = "persist" /\ \A q \in LoadingPackages : q # p => gp'[q] = gp[q] /\ outcome'[q] = outcome[q]
      /\ \A q \in LoadingPackages : gp[q] = "done" => gp'[q] = "done"
      /\ outcome'[p] \in {"ok", "failed"}
    BY <1>0, <1>1, <1>2 DEF ProcType
<1>4. ProcType'
    BY <1>0, <1>1, <1>2 DEF ProcType
<1>5. ActionType'
    BY <1>0, <1>1 DEF ActionType
<1>6. PlaceInv'
    <2>1. ASSUME NEW q \in LoadingPackages, gp'[q] \notin {"idle", "wait"} PROVE ImportsDone(q)'
        <3>1. ImportsDone(q)
            BY <1>0, <1>1, <1>3, <2>1 DEF PlaceInv
        <3> QED
            BY <1>3, <3>1, PackagesClosed DEF ImportsDone
    <2>2. \A q \in LoadingPackages : calls'[q] # {} => gp'[q] = "dec"
        BY <1>0, <1>1, <1>3 DEF PlaceInv
    <2>3. \A k \in Actions : status'[k] = "running" => gp'[k[2]] = "graph"
        <3>1. \A k \in ActionsOf(p) : status[k] # "running"
            BY DepsFacts DEF ReturnGraph, G!Return, G!ActionsOf, ActionsOf
        <3> QED
            BY <1>0, <1>1, <1>3, <3>1, PackagesClosed DEF PlaceInv, ActionsOf
    <2>4. /\ \A q \in live' : gp'[q] = "graph"
          /\ \A k \in Actions : gp'[k[2]] \in Before => status'[k] = "pending"
          /\ \A q \in LoadingPackages : gp'[q] \in Before \cup {"graph"} => outcome'[q] = "none"
        BY <1>0, <1>1, <1>3, PackagesClosed DEF PlaceInv, Before, ProcType
    <2>5. {q \in LoadingPackages : gp'[q] \in Holding} = {q \in LoadingPackages : gp[q] \in Holding}
        BY <1>1, <1>3 DEF Holding
    <2> QED
        BY <1>0, <1>1, <2>1, <2>2, <2>3, <2>4, <2>5 DEF PlaceInv
<1>7. ActionInv'
    <2>1. Called' = Called
        BY <1>1 DEF Called
    <2>2. \A k \in Actions : gp'[k[2]] = "graph" => gp[k[2]] = "graph"
        BY <1>1, <1>3, PackagesClosed
    <2>3. \A k \in ran' : k \in needSource' /\ ~illTyped'[k[2]]
        <3>1. UNCHANGED <<ran, needSource, illTyped>>
            BY <1>1
        <3> QED
            BY <1>0, <3>1 DEF ActionInv
    <2> QED
        BY <1>0, <1>1, <2>1, <2>2, <2>3 DEF ActionInv, ActionType, SourceFails
<1>8. OrderInv'
    <2>1. \A q : (Settled(q)' <=> Settled(q)) /\ (Entered(q)' => Entered(q))
        BY <1>1 DEF Settled, Entered
    <2>2. \A q \in LoadingPackages : q # p => (Cancels(q)' <=> Cancels(q))
        BY <1>3 DEF Cancels
    <2>3. ~Cancels(p)' => ctxDone \/ Settled(p)
        BY <1>0, <1>2 DEF Cancels, Settled, ProcType
    <2>4. ASSUME NEW q \in LoadingPackages, Entered(q)' PROVE \A r \in AllImports(q) : gp'[r] = "done" /\ Settled(r)'
        BY <1>0, <1>3, <2>1, <2>4, AllImportsClosed DEF OrderInv
    <2>5. \A q \in LoadingPackages : ~ctxDone' /\ gp'[q] \in {"dec", "done"} => Settled(q)'
        BY <1>0, <1>1, <1>3, <2>1 DEF OrderInv
    <2>6. \A q \in LoadingPackages : gp'[q] = "persist" /\ ~Cancels(q)' => ctxDone' \/ Settled(q)'
        BY <1>0, <1>1, <1>3, <2>1, <2>2, <2>3 DEF OrderInv
    <2>7. \A q \in LoadingPackages : outcome'[q] = "failed" => \E a \in ActionsOf(q) : status'[a] = "err"
        BY <1>0, <1>1, <1>2, <1>3 DEF OrderInv, ProcType
    <2> QED
        BY <1>0, <1>1, <2>4, <2>5, <2>6, <2>7 DEF OrderInv, ActionsOf
<1>9. CountInv'
    <2>1. ASSUME NEW q \in LoadingPackages PROVE Users(q)' = Users(q)
        <3>1. (gp[q] \in Before \cup {"graph", "persist"}) <=> (gp'[q] \in Before \cup {"graph", "persist"})
            BY <1>1, <1>3
        <3> QED
            BY <1>1, <3>1 DEF Users
    <2>2. \A k \in pass' : k \in Actions /\ k[2] \in LoadingPackages
        BY <1>0, <1>1, PackagesClosed DEF ActionType
    <2>3. \A k \in pass' : gp'[k[2]] \in {"graph", "persist"} \/ <<k[2], k[2]>> \in calls'[k[2]]
        BY <1>0, <1>1, <1>3, <2>2 DEF CountInv
    <2>4. \A q \in LoadingPackages : \/ dependents'[q] = Cardinality(Users(q)')
                                     \/ dependents'[q] = Cardinality(Users(q)') + 1 /\ gp'[q] = "done" /\ ctxDone'
        BY <1>0, <1>1, <1>3, <2>1 DEF CountInv
    <2> QED
        BY <1>0, <1>1, <2>3, <2>4 DEF CountInv
<1>10. TypesInv'
    <2>1. UNCHANGED <<types, dependents, illTyped, ctxDone>> /\ \A q : Entered(q)' => Entered(q)
        BY <1>1 DEF Entered
    <2>2. \A q \in LoadingPackages : /\ gp'[q] \in Before <=> gp[q] \in Before
                                     /\ gp[q] = "done" => gp'[q] = "done"
                                     /\ gp'[q] = "graph" => gp[q] = "graph"
        BY <1>1, <1>3 DEF Before
    <2>3. ASSUME NEW q \in LoadingPackages, gp'[q] \notin Before, types'[q] = "nil", dependents'[q] > 0
          PROVE  (Untyped(q) /\ illTyped'[q]) \/ (gp'[q] = "done" /\ ctxDone')
        <3>1. (Untyped(q) /\ illTyped[q]) \/ (gp[q] = "done" /\ ctxDone)
            BY <1>0, <2>1, <2>2, <2>3, Zenon DEF TypesInv
        <3> QED
            BY <2>1, <2>2, <3>1
    <2> QED
        BY <1>0, <2>1, <2>2, <2>3 DEF TypesInv, Untyped
<1>11. ReportInv'
    <2>1. report' = "none"
        BY <1>0, <1>1 DEF ReportInv
    <2> QED
        BY <2>1 DEF ReportInv, CleanReportMeansAnalyzed
<1> QED
    BY <1>4, <1>5, <1>6, <1>7, <1>8, <1>9, <1>10, <1>11 DEF IInv

\* Persisting the facts keeps the invariant: a failed package has cancelled the
\* context before it counts as done.
LEMMA PersistInv ==
    ASSUME IInv, NEW p \in LoadingPackages, Persist(p)
    PROVE  IInv'
<1>0. ProcType /\ ActionType /\ PlaceInv /\ ActionInv /\ OrderInv /\ CountInv /\ TypesInv /\ ReportInv
    BY DEF IInv
<1>1. /\ gp[p] = "persist" /\ gp' = [gp EXCEPT ![p] = "dec"]
      /\ calls' = [calls EXCEPT ![p] = {<<p, p>>}]
      /\ UNCHANGED <<sem, types, illTyped, dependents, needSource, pass, ran, err, result, hasDeps, facts, report, runs>>
    BY DEF Persist, Goto, pvars, avars, out
<1>2. /\ UNCHANGED <<status, outcome>> /\ live' \subseteq live
      /\ Cancels(p) => ctxDone' = TRUE
      /\ ~Cancels(p) => ctxDone' = ctxDone
    BY DEF Persist, G!Cancel, gvars
<1>3. /\ gp'[p] = "dec" /\ calls'[p] = {<<p, p>>} /\ calls[p] = {}
      /\ \A q \in LoadingPackages : q # p => gp'[q] = gp[q] /\ calls'[q] = calls[q]
      /\ \A q \in LoadingPackages : gp[q] = "done" => gp'[q] = "done"
    BY <1>0, <1>1 DEF ProcType, PlaceInv
<1>4. ctxDone => ctxDone'
    BY <1>2
<1>5. ProcType'
    BY <1>0, <1>1, <1>2 DEF ProcType
<1>6. ActionType'
    BY <1>0, <1>1, <1>2 DEF ActionType
<1>7. PlaceInv'
    <2>1. ASSUME NEW q \in LoadingPackages, gp'[q] \notin {"idle", "wait"} PROVE ImportsDone(q)'
        <3>1. ImportsDone(q)
            BY <1>0, <1>1, <1>3, <2>1 DEF PlaceInv
        <3> QED
            BY <1>3, <3>1, PackagesClosed DEF ImportsDone
    <2>2. \A q \in LoadingPackages : calls'[q] # {} => gp'[q] = "dec"
        BY <1>0, <1>1, <1>3 DEF PlaceInv
    <2>3. /\ \A q \in live' : gp'[q] = "graph"
          /\ \A k \in Actions : status'[k] = "running" => gp'[k[2]] = "graph"
          /\ \A k \in Actions : gp'[k[2]] \in Before => status'[k] = "pending"
          /\ \A q \in LoadingPackages : gp'[q] \in Before \cup {"graph"} => outcome'[q] = "none"
        BY <1>0, <1>1, <1>2, <1>3, PackagesClosed DEF PlaceInv, Before, ProcType
    <2>4. {q \in LoadingPackages : gp'[q] \in Holding} = {q \in LoadingPackages : gp[q] \in Holding}
        BY <1>1, <1>3 DEF Holding
    <2> QED
        BY <1>0, <1>1, <2>1, <2>2, <2>3, <2>4 DEF PlaceInv
<1>8. ActionInv'
    <2>1. Called' = Called
        BY <1>1 DEF Called
    <2>2. \A k \in Actions : gp'[k[2]] = "graph" => gp[k[2]] = "graph"
        BY <1>1, <1>3, PackagesClosed
    <2>3. \A k \in ran' : k \in needSource' /\ ~illTyped'[k[2]]
        <3>1. UNCHANGED <<ran, needSource, illTyped>>
            BY <1>1
        <3> QED
            BY <1>0, <3>1 DEF ActionInv
    <2> QED
        BY <1>0, <1>1, <1>2, <2>1, <2>2, <2>3 DEF ActionInv, ActionType, SourceFails
<1>9. \A q : Entered(q)' => Entered(q)
    BY <1>2 DEF Entered
<1>10. OrderInv'
    <2>1. \A q : (Settled(q)' <=> Settled(q)) /\ (Cancels(q)' <=> Cancels(q))
        BY <1>1, <1>2 DEF Settled, Cancels
    <2>2. ASSUME NEW q \in LoadingPackages, Entered(q)' PROVE \A r \in AllImports(q) : gp'[r] = "done" /\ Settled(r)'
        BY <1>0, <1>3, <1>9, <2>1, <2>2, AllImportsClosed DEF OrderInv
    <2>3. \A q \in LoadingPackages : ~ctxDone' /\ gp'[q] \in {"dec", "done"} => Settled(q)'
        BY <1>0, <1>1, <1>2, <1>3, <2>1 DEF OrderInv
    <2>4. \A q \in LoadingPackages : gp'[q] = "persist" /\ ~Cancels(q)' => ctxDone' \/ Settled(q)'
        BY <1>0, <1>3, <1>4, <2>1 DEF OrderInv
    <2>5. \A q \in LoadingPackages : outcome'[q] = "failed" => \E a \in ActionsOf(q) : status'[a] = "err"
        BY <1>0, <1>2 DEF OrderInv
    <2>6. ctxDone' => \E a \in Actions : status'[a] = "err"
        BY <1>0, <1>2 DEF OrderInv, Cancels, ProcType, ActionsOf
    <2> QED
        BY <2>2, <2>3, <2>4, <2>5, <2>6 DEF OrderInv, ActionsOf
<1>11. CountInv'
    <2>1. \A g, r, q \in LoadingPackages : r # q => (<<r, q>> \in calls'[g] <=> <<r, q>> \in calls[g])
        BY <1>3
    <2>2. \A g, q \in LoadingPackages : <<q, q>> \in calls'[g] => <<q, q>> \in calls[g] \/ (g = p /\ q = p)
        BY <1>3
    <2>3. ASSUME NEW q \in LoadingPackages PROVE Users(q)' = Users(q)
        <3>1. (gp[q] \in Before \cup {"graph", "persist"} \/ <<q, q>> \in calls[q])
              <=> (gp'[q] \in Before \cup {"graph", "persist"} \/ <<q, q>> \in calls'[q])
            BY <1>1, <1>3
        <3> QED
            BY <1>1, <2>1, <3>1 DEF Users
    <2>4. ASSUME NEW q \in LoadingPackages
          PROVE  \/ dependents'[q] = Cardinality(Users(q)')
                 \/ dependents'[q] = Cardinality(Users(q)') + 1 /\ gp'[q] = "done" /\ ctxDone'
        BY <1>0, <1>1, <1>3, <1>4, <2>3 DEF CountInv
    <2>5. \A g, r, q \in LoadingPackages : <<r, q>> \in calls'[g] =>
            (r = q /\ g = q) \/ (r # q /\ q \in Imports[r] /\ dependents'[r] = 0)
        BY <1>0, <1>1, <2>1, <2>2 DEF CountInv
    <2>6. \A g, h, r, q \in LoadingPackages : <<r, q>> \in calls'[g] \cap calls'[h] => g = h
        BY <1>0, <2>1, <2>5 DEF CountInv
    <2>7. \A k \in pass' : k \in Actions /\ k[2] \in LoadingPackages
        BY <1>0, <1>1, PackagesClosed DEF ActionType
    <2>8. \A k \in pass' : gp'[k[2]] \in {"graph", "persist"} \/ <<k[2], k[2]>> \in calls'[k[2]]
        <3> TAKE k \in pass'
        <3>1. k[2] = p => <<k[2], k[2]>> \in calls'[k[2]]
            BY <1>3
        <3>2. k[2] # p => gp'[k[2]] = gp[k[2]] /\ calls'[k[2]] = calls[k[2]]
            BY <1>3, <2>7
        <3>3. gp[k[2]] \in {"graph", "persist"} \/ <<k[2], k[2]>> \in calls[k[2]]
            BY <1>0, <1>1 DEF CountInv
        <3> QED
            BY <3>1, <3>2, <3>3
    <2> QED
        BY <1>0, <1>1, <2>4, <2>5, <2>6, <2>8 DEF CountInv
<1>12. TypesInv'
    <2>1. UNCHANGED <<types, dependents, illTyped>>
        BY <1>1
    <2>2. \A q \in LoadingPackages : /\ gp'[q] \in Before <=> gp[q] \in Before
                                     /\ gp[q] = "done" => gp'[q] = "done"
                                     /\ gp'[q] = "graph" => gp[q] = "graph"
        BY <1>1, <1>3 DEF Before
    <2>3. ASSUME NEW q \in LoadingPackages, gp'[q] \notin Before, types'[q] = "nil", dependents'[q] > 0
          PROVE  (Untyped(q) /\ illTyped'[q]) \/ (gp'[q] = "done" /\ ctxDone')
        <3>1. (Untyped(q) /\ illTyped[q]) \/ (gp[q] = "done" /\ ctxDone)
            BY <1>0, <2>1, <2>2, <2>3, Zenon DEF TypesInv
        <3> QED
            BY <1>4, <2>1, <2>2, <3>1
    <2> QED
        BY <1>0, <1>9, <2>1, <2>2, <2>3 DEF TypesInv, Untyped
<1>13. ReportInv'
    <2>1. report' = "none"
        BY <1>0, <1>1 DEF ReportInv
    <2> QED
        BY <2>1 DEF ReportInv, CleanReportMeansAnalyzed
<1> QED
    BY <1>5, <1>6, <1>7, <1>8, <1>10, <1>11, <1>12, <1>13 DEF IInv

\* decUse takes the caller out of the users of the package it is called on and
\* leaves the users of all others as they are: a package that is freed now
\* still owes the calls on its imports.
LEMMA DecFacts ==
    ASSUME ProcType, PlaceInv, CountInv, NEW p \in LoadingPackages, NEW q \in LoadingPackages, DecUse(p, q)
    PROVE  \E r \in LoadingPackages :
              /\ <<r, q>> \in calls[p] /\ r \in Users(q) /\ (r # q => dependents[r] = 0)
              /\ calls' = [calls EXCEPT ![p] = (@ \ {<<r, q>>}) \cup (IF dependents[q] = 1 THEN {q} \X Imports[q] ELSE {})]
              /\ dependents[q] > 0 /\ gp[q] \in {"dec", "done"}
              /\ Users(q)' = Users(q) \ {r}
              /\ \A x \in LoadingPackages : x # q => Users(x)' = Users(x)
<1>1. /\ gp[p] = "dec" /\ dependents' = [dependents EXCEPT ![q] = @ - 1] /\ UNCHANGED gp
    BY DEF DecUse
<1>2. PICK r \in LoadingPackages :
          /\ <<r, q>> \in calls[p]
          /\ calls' = [calls EXCEPT ![p] = (@ \ {<<r, q>>}) \cup (IF dependents[q] = 1 THEN {q} \X Imports[q] ELSE {})]
    BY DEF DecUse, LastUse, Unused
<1>3. (r = q /\ p = q) \/ (r # q /\ q \in Imports[r] /\ dependents[r] = 0)
    BY <1>2 DEF CountInv
<1>4. r \in Users(q)
    BY <1>2, <1>3 DEF Users
<1>5. dependents[q] > 0 /\ dependents[q] \in Nat
    BY <1>4, UsedCounts DEF ProcType
<1>6. gp[q] \in {"dec", "done"}
    <2>1. CASE r = q
        BY <1>1, <1>3, <2>1
    <2>2. CASE r # q
        <3>1. r \notin Users(r)
            BY <1>3, <2>2, UsedCounts
        <3>2. gp[r] \notin Before \cup {"graph", "persist"}
            BY <3>1 DEF Users
        <3>3. ImportsDone(r)
            BY <3>2 DEF PlaceInv, Before
        <3> QED
            BY <1>3, <2>2, <3>3 DEF ImportsDone
    <2> QED
        BY <2>1, <2>2
<1>7. /\ dependents'[q] = dependents[q] - 1 /\ \A x \in LoadingPackages : x # q => dependents'[x] = dependents[x]
      /\ dependents'[q] > 0 <=> dependents[q] # 1
    BY <1>1, <1>5 DEF ProcType
<1>8. q \notin Imports[q]
    BY PackagesClosed, Irreflexive
<1>9. ASSUME NEW g \in LoadingPackages, NEW s \in LoadingPackages, NEW x \in LoadingPackages
      PROVE  <<s, x>> \in calls'[g] <=>
                \/ <<s, x>> \in calls[g] /\ ~(g = p /\ s = r /\ x = q)
                \/ g = p /\ dependents[q] = 1 /\ s = q /\ x \in Imports[q]
    <2>1. CASE g # p
        BY <1>2, <2>1 DEF ProcType
    <2>2. CASE g = p
        <3>1. calls'[g] = (calls[p] \ {<<r, q>>}) \cup (IF dependents[q] = 1 THEN {q} \X Imports[q] ELSE {})
            BY <1>2, <2>2 DEF ProcType
        <3>2. <<s, x>> \in (IF dependents[q] = 1 THEN {q} \X Imports[q] ELSE {}) <=> dependents[q] = 1 /\ s = q /\ x \in Imports[q]
            OBVIOUS
        <3>3. <<s, x>> = <<r, q>> <=> s = r /\ x = q
            OBVIOUS
        <3> QED
            BY <2>2, <3>1, <3>2, <3>3
    <2> QED
        BY <2>1, <2>2
<1>10. \A g \in LoadingPackages : <<r, q>> \in calls[g] => g = p
    BY <1>2 DEF CountInv
<1>11. Users(q)' = Users(q) \ {r}
    <2>1. ASSUME NEW s \in LoadingPackages PROVE s \in Users(q)' <=> s \in Users(q) /\ s # r
        <3>1. CASE s = q
            <4>1. s \in Users(q)' <=> gp[q] \in Before \cup {"graph", "persist"} \/ <<q, q>> \in calls'[q]
                BY <1>1, <3>1 DEF Users
            <4>2. s \in Users(q) <=> gp[q] \in Before \cup {"graph", "persist"} \/ <<q, q>> \in calls[q]
                BY <3>1 DEF Users
            <4>3. gp[q] \notin Before \cup {"graph", "persist"}
                BY <1>6 DEF Before
            <4>4. <<q, q>> \in calls'[q] <=> <<q, q>> \in calls[q] /\ r # q
                BY <1>3, <1>8, <1>9
            <4> QED
                BY <3>1, <4>1, <4>2, <4>3, <4>4
        <3>2. CASE s # q
            <4>1. s \in Users(q)' <=> q \in Imports[s] /\ (dependents[s] > 0 \/ \E g \in LoadingPackages : <<s, q>> \in calls'[g])
                BY <1>7, <3>2 DEF Users
            <4>2. s \in Users(q) <=> q \in Imports[s] /\ (dependents[s] > 0 \/ \E g \in LoadingPackages : <<s, q>> \in calls[g])
                BY <3>2 DEF Users
            <4>3. \A g \in LoadingPackages : <<s, q>> \in calls'[g] <=> <<s, q>> \in calls[g] /\ ~(g = p /\ s = r)
                BY <1>9, <3>2
            <4>4. s = r => dependents[s] = 0 /\ \A g \in LoadingPackages : <<s, q>> \notin calls'[g]
                BY <1>3, <1>10, <3>2, <4>3
            <4> QED
                BY <4>1, <4>2, <4>3, <4>4
        <3> QED
            BY <3>1, <3>2
    <2> QED
        BY <2>1 DEF Users
<1>12. ASSUME NEW x \in LoadingPackages, x # q PROVE Users(x)' = Users(x)
    <2>1. ASSUME NEW s \in LoadingPackages PROVE s \in Users(x)' <=> s \in Users(x)
        <3>1. CASE s = x
            <4>1. <<x, x>> \in calls'[x] <=> <<x, x>> \in calls[x]
                BY <1>9, <1>12
            <4> QED
                BY <1>1, <3>1, <4>1 DEF Users
        <3>2. CASE s # x /\ s # q
            <4>1. \A g \in LoadingPackages : <<s, x>> \in calls'[g] <=> <<s, x>> \in calls[g]
                BY <1>9, <1>12, <3>2
            <4> QED
                BY <1>7, <3>2, <4>1 DEF Users
        <3>3. CASE s = q
            <4>1. s \in Users(x) <=> x \in Imports[q]
                BY <1>5, <1>12, <3>3 DEF Users
            <4>2. s \in Users(x)' <=> x \in Imports[q] /\ (dependents'[q] > 0 \/ \E g \in LoadingPackages : <<q, x>> \in calls'[g])
                BY <1>12, <3>3 DEF Users
            <4>3. dependents[q] = 1 /\ x \in Imports[q] => <<q, x>> \in calls'[p]
                BY <1>9
            <4> QED
                BY <1>7, <4>1, <4>2, <4>3
        <3> QED
            BY <3>1, <3>2, <3>3
    <2> QED
        BY <2>1 DEF Users
<1> QED
    BY <1>2, <1>3, <1>4, <1>5, <1>6, <1>11, <1>12

\* A call of decUse keeps the invariant: the count follows the users, so the
\* last call is the one that frees the package.
LEMMA DecInv ==
    ASSUME IInv, NEW p \in LoadingPackages, NEW q \in LoadingPackages, DecUse(p, q)
    PROVE  IInv'
<1>0. ProcType /\ ActionType /\ PlaceInv /\ ActionInv /\ OrderInv /\ CountInv /\ TypesInv /\ ReportInv
    BY DEF IInv
<1>1. /\ gp[p] = "dec" /\ dependents' = [dependents EXCEPT ![q] = @ - 1]
      /\ pass' = pass \ Spent(q) /\ hasDeps' = hasDeps \ Spent(q) /\ result' = result \ Spent(q)
      /\ types' = IF dependents[q] = 1 THEN [types EXCEPT ![q] = "nil"] ELSE types
      /\ UNCHANGED <<status, ctxDone, live, outcome, gp, sem, illTyped, needSource, ran, err, cache, report, runs>>
    BY DEF DecUse, LastUse, gvars, out
<1>2. PICK r \in LoadingPackages :
              /\ <<r, q>> \in calls[p] /\ r \in Users(q) /\ (r # q => dependents[r] = 0)
              /\ calls' = [calls EXCEPT ![p] = (@ \ {<<r, q>>}) \cup (IF dependents[q] = 1 THEN {q} \X Imports[q] ELSE {})]
              /\ dependents[q] > 0 /\ gp[q] \in {"dec", "done"}
              /\ Users(q)' = Users(q) \ {r}
              /\ \A x \in LoadingPackages : x # q => Users(x)' = Users(x)
    BY <1>0, DecFacts
<1>3. /\ dependents'[q] = dependents[q] - 1 /\ dependents[q] \in Nat /\ dependents'[q] \in Nat
      /\ \A x \in LoadingPackages : x # q => dependents'[x] = dependents[x] /\ types'[x] = types[x]
      /\ dependents[q] = 1 => types'[q] = "nil"
      /\ dependents[q] # 1 => types'[q] = types[q]
    BY <1>0, <1>1, <1>2 DEF ProcType
<1>4. Imports[q] \subseteq LoadingPackages /\ q \notin Imports[q]
    BY PackagesClosed, Irreflexive
<1>5. /\ \A g \in LoadingPackages : g # p => calls'[g] = calls[g]
      /\ \A c \in calls'[p] : c \in calls[p] \/ (dependents[q] = 1 /\ \E x \in Imports[q] : c = <<q, x>>)
      /\ calls[p] \ {<<r, q>>} \subseteq calls'[p]
    BY <1>0, <1>2 DEF ProcType
<1>6. Spent(q) \subseteq pass /\ (\A k \in Spent(q) : k[2] = q) /\ (\A k \in pass' : k \in pass /\ k \in Actions /\ k[2] # q)
    BY <1>0, <1>1 DEF Spent, ActionsOf, ActionType
<1>7. ProcType'
    <2>1. dependents' \in [LoadingPackages -> Nat]
        BY <1>0, <1>1, <1>2 DEF ProcType
    <2>2. types' \in [LoadingPackages -> {"nil", "export", "source"}]
        BY <1>0, <1>1 DEF ProcType
    <2>3. calls' \in [LoadingPackages -> SUBSET (LoadingPackages \X LoadingPackages)]
        BY <1>0, <1>2, <1>4 DEF ProcType
    <2>4. illTyped' \in [LoadingPackages -> BOOLEAN]
        BY <1>0, <1>1 DEF ProcType
    <2> QED
        BY <1>0, <1>1, <2>1, <2>2, <2>3, <2>4 DEF ProcType
<1>8. ActionType'
    BY <1>0, <1>1 DEF ActionType
<1>9. PlaceInv'
    <2>1. \A x : ImportsDone(x)' <=> ImportsDone(x)
        BY <1>1 DEF ImportsDone
    <2>2. \A x \in LoadingPackages : calls'[x] # {} => gp'[x] = "dec"
        BY <1>0, <1>1, <1>5 DEF PlaceInv
    <2> QED
        BY <1>0, <1>1, <2>1, <2>2 DEF PlaceInv
<1>10. ActionInv'
    <2>1. Called' \subseteq Called
        BY <1>1, <1>6 DEF Called
    <2>2. \A k \in ran' : k \in needSource' /\ ~illTyped'[k[2]]
        <3>1. UNCHANGED <<ran, needSource, illTyped>>
            BY <1>1
        <3> QED
            BY <1>0, <3>1 DEF ActionInv
    <2>3. \A k \in ran' : status'[k] = "ok" /\ gp'[k[2]] = "graph" => k \in result'
        BY <1>0, <1>1, <1>2, <1>6 DEF ActionInv
    <2> QED
        BY <1>0, <1>1, <2>1, <2>2, <2>3 DEF ActionInv, SourceFails
<1>11. \A x : Entered(x)' <=> Entered(x)
    BY <1>1 DEF Entered
<1>12. OrderInv'
    <2>1. \A x : (Settled(x)' <=> Settled(x)) /\ (Cancels(x)' <=> Cancels(x))
        BY <1>1 DEF Settled, Cancels
    <2> QED
        BY <1>0, <1>1, <1>11, <2>1 DEF OrderInv
<1>13. CountInv'
    <2>1. ASSUME NEW x \in LoadingPackages
          PROVE  \/ dependents'[x] = Cardinality(Users(x)')
                 \/ dependents'[x] = Cardinality(Users(x)') + 1 /\ gp'[x] = "done" /\ ctxDone'
        <3>1. CASE x # q
            BY <1>0, <1>1, <1>2, <1>3, <3>1 DEF CountInv
        <3>2. CASE x = q
            <4>1. PICK U \in SUBSET LoadingPackages : U = Users(q)
                BY DEF Users
            <4>2. Users(x)' = U \ {r} /\ r \in U
                BY <1>2, <3>2, <4>1
            <4>3. Cardinality(U \ {r}) = Cardinality(U) - 1 /\ Cardinality(U) \in Nat
                BY <4>2, HoldersMove
            <4>4. dependents[q] = Cardinality(U) \/ (dependents[q] = Cardinality(U) + 1 /\ gp[q] = "done" /\ ctxDone)
                BY <1>0, <4>1 DEF CountInv
            <4>5. dependents'[x] = Cardinality(U \ {r}) \/ (dependents'[x] = Cardinality(U \ {r}) + 1 /\ gp'[x] = "done" /\ ctxDone')
                BY <1>1, <1>3, <3>2, <4>3, <4>4
            <4> QED
                BY <4>2, <4>5
        <3> QED
            BY <3>1, <3>2
    <2>2. \A g, s, x \in LoadingPackages : <<s, x>> \in calls[g] => (s = x /\ g = x) \/ (s # x /\ x \in Imports[s] /\ dependents[s] = 0)
        BY <1>0 DEF CountInv
    <2>3. \A g, x \in LoadingPackages : x \in Imports[q] => <<q, x>> \notin calls[g]
        BY <1>2, <1>4, <2>2
    <2>4. \A g, s, x \in LoadingPackages : <<s, x>> \in calls'[g] =>
              <<s, x>> \in calls[g] \/ (g = p /\ s = q /\ x \in Imports[q] /\ dependents[q] = 1)
        BY <1>5
    <2>5. ASSUME NEW g \in LoadingPackages, NEW s \in LoadingPackages, NEW x \in LoadingPackages, <<s, x>> \in calls'[g]
          PROVE  (s = x /\ g = x) \/ (s # x /\ x \in Imports[s] /\ dependents'[s] = 0)
        <3>1. CASE <<s, x>> \in calls[g]
            BY <1>2, <1>3, <2>2, <3>1
        <3>2. CASE s = q /\ x \in Imports[q] /\ dependents[q] = 1
            BY <1>3, <1>4, <3>2
        <3> QED
            BY <2>4, <2>5, <3>1, <3>2
    <2>6. ASSUME NEW g \in LoadingPackages, NEW h \in LoadingPackages, NEW s \in LoadingPackages, NEW x \in LoadingPackages,
                 <<s, x>> \in calls'[g] \cap calls'[h]
          PROVE  g = h
        BY <1>0, <2>3, <2>4, <2>6 DEF CountInv
    <2>7. \A x \in LoadingPackages : dependents'[x] = 0 => types'[x] = "nil"
        BY <1>0, <1>3 DEF CountInv
    <2>8. ASSUME NEW k \in pass' PROVE gp'[k[2]] \in {"graph", "persist"} \/ <<k[2], k[2]>> \in calls'[k[2]]
        <3>1. gp[k[2]] \in {"graph", "persist"} \/ <<k[2], k[2]>> \in calls[k[2]]
            BY <1>0, <1>6 DEF CountInv
        <3>2. k[2] # q /\ k[2] \in LoadingPackages
            BY <1>6, PackagesClosed
        <3>3. <<k[2], k[2]>> \in calls[k[2]] => <<k[2], k[2]>> \in calls'[k[2]]
            BY <1>5, <3>2
        <3> QED
            BY <1>1, <3>1, <3>3
    <2> QED
        BY <2>1, <2>5, <2>6, <2>7, <2>8 DEF CountInv
<1>14. TypesInv'
    <2>1. \A x \in Preloaded \cap LoadingPackages : gp'[x] \in Before => types'[x] # "nil"
        BY <1>0, <1>1, <1>2, <1>3 DEF TypesInv, Before
    <2>2. ASSUME NEW x \in LoadingPackages, gp'[x] \notin Before, types'[x] = "nil", dependents'[x] > 0
          PROVE  (Untyped(x) /\ illTyped'[x]) \/ (gp'[x] = "done" /\ ctxDone')
        <3>1. gp[x] \notin Before /\ types[x] = "nil" /\ dependents[x] > 0
            BY <1>1, <1>2, <1>3, <2>2
        <3>2. (Untyped(x) /\ illTyped[x]) \/ (gp[x] = "done" /\ ctxDone)
            BY <1>0, <3>1, Zenon DEF TypesInv
        <3>3. UNCHANGED <<illTyped, gp, ctxDone>>
            BY <1>1
        <3> QED
            BY <3>2, <3>3
    <2>3. ASSUME NEW x \in LoadingPackages, gp'[x] = "graph", Entered(x)', NEW y \in Imports[x] PROVE types'[y] # "nil"
        <3>1. y \in LoadingPackages /\ types[y] # "nil" /\ y # x
            BY <1>0, <1>1, <1>11, <2>3, PackagesClosed, Irreflexive DEF TypesInv
        <3>2. x \in Users(x) /\ x # q
            BY <1>1, <1>2, <2>3 DEF Users
        <3>3. dependents[x] > 0 /\ dependents'[x] > 0
            BY <1>0, <1>3, <3>2, UsedCounts
        <3>4. x \in Users(y)'
            BY <3>1, <3>3 DEF Users
        <3>5. dependents'[y] # 0
            <4>1. PICK U \in SUBSET LoadingPackages : U = Users(y)'
                BY DEF Users
            <4>2. Cardinality(U) > 0 /\ Cardinality(U) \in Nat
                <5>1. x \in U
                    BY <3>4, <4>1
                <5> QED
                    BY <5>1, HoldersMove
            <4>3. dependents'[y] = Cardinality(U) \/ dependents'[y] = Cardinality(U) + 1
                BY <1>13, <3>1, <4>1 DEF CountInv
            <4> QED
                BY <4>2, <4>3
        <3> QED
            BY <1>3, <3>1, <3>5
    <2> QED
        BY <2>1, <2>2, <2>3 DEF TypesInv, Untyped
<1>15. ReportInv'
    <2>1. UNCHANGED <<report, gp, ran>>
        BY <1>1
    <2> QED
        BY <1>0, <2>1 DEF ReportInv, CleanReportMeansAnalyzed
<1> QED
    BY <1>7, <1>8, <1>9, <1>10, <1>12, <1>13, <1>14, <1>15 DEF IInv

\* What extractDiagnostics visits: the roots, and what they reach through the
\* dependencies that decUse has left.
LEMMA ExtractedFacts ==
    ASSUME ActionType
    PROVE  /\ Extracted \subseteq Actions /\ Roots \subseteq Extracted
           /\ \A k \in Extracted \cap hasDeps : Deps[k] \subseteq Extracted
<1>1. PICK next : next = [k \in Actions |-> IF k \in hasDeps THEN Deps[k] ELSE {}]
    OBVIOUS
<1>2. \A k \in Actions : Deps[k] \subseteq Actions
    BY DepsFacts
<1>3. next \in [Actions -> SUBSET Actions] /\ \A k \in Actions : k \in hasDeps => next[k] = Deps[k]
    BY <1>1, <1>2
<1>4. IsFiniteSet(Actions) /\ Roots \in SUBSET Actions
    <2>1. IsFiniteSet(Keys)
        BY FS_Product DEF Keys
    <2> QED
        BY <2>1, ActionsClosed, FS_Subset
<1>5. /\ Reachable(Roots, next) \in SUBSET Actions
      /\ Roots \subseteq Reachable(Roots, next)
      /\ \A k \in Reachable(Roots, next) : next[k] \subseteq Reachable(Roots, next)
    BY <1>3, <1>4, ReachableClosed
<1>6. Extracted = Reachable(Roots, next)
    BY <1>1 DEF Extracted
<1> QED
    BY <1>3, <1>5, <1>6

\* When the initial packages are done, all are.
LEMMA AllDone ==
    ASSUME ProcType, PlaceInv, \A p \in Initial : gp[p] = "done"
    PROVE  \A p \in LoadingPackages : gp[p] = "done"
<1>1. PICK X : X = {p \in LoadingPackages : gp[p] = "done"}
    OBVIOUS
<1>2. Initial \subseteq X
    BY <1>1, PackagesClosed
<1>3. \A p \in X \cap LoadingPackages : Imports[p] \subseteq X
    BY <1>1, PackagesClosed DEF PlaceInv, ImportsDone
<1>4. LoadingPackages \subseteq X
    BY <1>2, <1>3, PackagesClosed
<1> QED
    BY <1>1, <1>4

\* No package below p has a failed action.
CleanBelow(p) == \A q \in AllImports(p) : \A k \in ActionsOf(q) : status[k] # "err"

\* The action is above every failure, or beside it.
Safe(k) == CleanBelow(k[2]) /\ (status[k] = "ok" \/ \A d \in ActionsOf(k[2]) : status[d] # "err")

\* decUse cuts the dependencies of an action only when the action was called,
\* and then nothing below it has failed: whatever failed is still extracted.
LEMMA FailuresExtracted ==
    ASSUME ProcType, ActionType, ActionInv, OrderInv, NEW f \in Actions, status[f] = "err"
    PROVE  f \in Extracted
<1>1. PICK X : X = Extracted \cup {k \in Actions : Safe(k)}
    OBVIOUS
<1>2. Roots \subseteq X /\ X \subseteq Actions
    BY <1>1, ExtractedFacts
<1>3. ASSUME NEW k \in Actions, CleanBelow(k[2]), NEW d \in VerticalDeps(k) PROVE d \in X
    <2>1. d \in Actions /\ d[2] \in Imports[k[2]] /\ k[2] \in LoadingPackages
        BY DepsFacts
    <2>2. d[2] \in AllImports(k[2]) /\ AllImports(d[2]) \subseteq AllImports(k[2])
        BY <2>1, AllImportsNest
    <2>3. Safe(d)
        BY <1>3, <2>2 DEF Safe, CleanBelow
    <2> QED
        BY <1>1, <2>1, <2>3
<1>4. ASSUME NEW k \in X PROVE DepsOf(k) \subseteq X
    <2>0. k \in Actions /\ DepsOf(k) = Deps[k] /\ Deps[k] = HorizontalDeps(k) \cup VerticalDeps(k)
        BY <1>2, DepsFacts DEF DepsOf
    <2>1. CASE k \in Extracted /\ k \in hasDeps
        BY <1>1, <2>0, <2>1, ExtractedFacts
    <2>2. CASE k \notin hasDeps
        <3>1. status[k] # "pending" /\ \A d \in Deps[k] : status[d] = "ok"
            BY <2>0, <2>2 DEF ActionInv, Called
        <3>2. k[2] \in LoadingPackages /\ Entered(k[2])
            BY <2>0, <3>1, DepsFacts DEF Entered, ActionsOf
        <3>3. CleanBelow(k[2])
            BY <3>2 DEF OrderInv, Settled, CleanBelow
        <3>4. ASSUME NEW d \in HorizontalDeps(k) PROVE d \in X
            <4>1. d \in Actions /\ d[2] = k[2] /\ status[d] = "ok"
                BY <2>0, <3>1, DepsFacts
            <4>2. Safe(d)
                BY <3>3, <4>1 DEF Safe
            <4> QED
                BY <1>1, <4>1, <4>2
        <3> QED
            BY <1>3, <2>0, <3>3, <3>4
    <2>3. CASE Safe(k)
        <3>1. CleanBelow(k[2])
            BY <2>3 DEF Safe
        <3>2. ASSUME NEW d \in HorizontalDeps(k) PROVE d \in X
            <4>1. d \in Actions /\ d[2] = k[2]
                BY <2>0, DepsFacts
            <4>2. status[k] = "ok" => status[d] = "ok"
                BY <2>0 DEF ActionInv
            <4>3. Safe(d)
                BY <2>3, <4>1, <4>2 DEF Safe
            <4> QED
                BY <1>1, <4>1, <4>3
        <3> QED
            BY <1>3, <2>0, <3>1, <3>2
    <2> QED
        BY <1>1, <2>1, <2>2, <2>3
<1>5. Actions \subseteq X
    BY <1>2, <1>4, ActionsClosed
<1>6. ~Safe(f)
    BY DEF Safe, ActionsOf
<1> QED
    BY <1>1, <1>5, <1>6

\* extractDiagnostics keeps the invariant: its report is clean only when nothing
\* failed and every root ran.
LEMMA ExtractInv ==
    ASSUME IInv, Extract
    PROVE  IInv'
<1>0. ProcType /\ ActionType /\ PlaceInv /\ ActionInv /\ OrderInv /\ CountInv /\ TypesInv /\ ReportInv
    BY DEF IInv
<1>1. UNCHANGED <<status, ctxDone, live, outcome, gp, sem, types, illTyped, dependents, calls, needSource, pass, ran, err, result, hasDeps>>
    BY DEF Extract, gvars, pvars, avars
<1>2. \A p \in LoadingPackages : gp[p] = "done"
    BY <1>0, AllDone DEF Extract
<1>3. ASSUME report' = "diagnostics" PROVE Roots \subseteq ran
    <2>1. \A k \in Extracted : err[k] = "none"
        BY <1>3 DEF Extract
    <2>2. ASSUME NEW f \in Actions, status[f] = "err" PROVE FALSE
        BY <1>0, <2>1, <2>2, FailuresExtracted DEF ActionInv
    <2>3. ~ctxDone
        BY <1>0, <2>2 DEF OrderInv
    <2>4. ASSUME NEW k \in Roots PROVE k \in ran
        <3>1. k \in Actions /\ k \in Extracted /\ k[2] \in LoadingPackages
            BY <1>0, ActionsClosed, ExtractedFacts, PackagesClosed
        <3>2. k[2] \in Initial
            BY DEF Roots
        <3>3. Settled(k[2])
            BY <1>0, <1>2, <2>3, <3>1 DEF OrderInv
        <3>4. status[k] = "ok"
            BY <2>1, <3>1, <3>3 DEF Settled, ActionsOf
        <3> QED
            BY <1>0, <3>1, <3>2, <3>4 DEF ActionInv
    <2> QED
        BY <2>4
<1>4. ProcType' /\ ActionType'
    BY <1>0, <1>1 DEF ProcType, ActionType
<1>5. PlaceInv'
    BY <1>0, <1>1 DEF PlaceInv, ImportsDone
<1>6. ActionInv'
    BY <1>0, <1>1 DEF ActionInv, Called, SourceFails
<1>7. OrderInv'
    BY <1>0, <1>1 DEF OrderInv, Settled, Entered, Cancels, ActionsOf
<1>8. CountInv' /\ TypesInv'
    <2>1. \A q : Users(q)' = Users(q) /\ (Entered(q)' <=> Entered(q))
        BY <1>1 DEF Users, Entered
    <2> QED
        BY <1>0, <1>1, <2>1 DEF CountInv, TypesInv, Untyped
<1>9. ReportInv'
    BY <1>1, <1>2, <1>3 DEF ReportInv, CleanReportMeansAnalyzed
<1> QED
    BY <1>4, <1>5, <1>6, <1>7, <1>8, <1>9 DEF IInv

\* A step that changes nothing keeps the invariant.
LEMMA StutterInv ==
    ASSUME IInv, UNCHANGED vars
    PROVE  IInv'
<1>0. ProcType /\ ActionType /\ PlaceInv /\ ActionInv /\ OrderInv /\ CountInv /\ TypesInv /\ ReportInv
    BY DEF IInv
<1>1. UNCHANGED <<status, ctxDone, live, outcome, gp, sem, types, illTyped, dependents, calls, needSource, pass, ran, err, result, hasDeps, report>>
    BY DEF vars, gvars, pvars, avars, out
<1>2. ProcType' /\ ActionType' /\ PlaceInv'
    BY <1>0, <1>1 DEF ProcType, ActionType, PlaceInv, ImportsDone
<1>3. ActionInv'
    BY <1>0, <1>1 DEF ActionInv, Called, SourceFails
<1>4. OrderInv'
    BY <1>0, <1>1 DEF OrderInv, Settled, Entered, Cancels, ActionsOf
<1>5. CountInv' /\ TypesInv'
    <2>1. \A q : Users(q)' = Users(q) /\ (Entered(q)' <=> Entered(q))
        BY <1>1 DEF Users, Entered
    <2> QED
        BY <1>0, <1>1, <2>1 DEF CountInv, TypesInv, Untyped
<1>6. ReportInv'
    BY <1>0, <1>1 DEF ReportInv, CleanReportMeansAnalyzed
<1> QED
    BY <1>2, <1>3, <1>4, <1>5, <1>6 DEF IInv

\* Every step keeps the invariant.
LEMMA StepInv ==
    ASSUME IInv, [Next]_vars
    PROVE  IInv'
<1>1. ASSUME NEW p \in LoadingPackages, Goroutine(p) PROVE IInv'
    <2>1. CASE Enter(p)
        <3>1. <<"idle", "wait">> \in Moves
            BY DEF Moves
        <3> QED
            BY <2>1, <3>1, MoveInv DEF Enter
    <2>2. CASE Join(p)
        <3>1. <<"wait", "select">> \in Moves
            BY DEF Moves
        <3> QED
            BY <2>2, <3>1, MoveInv DEF Join
    <2>3. CASE Skip(p)
        <3>1. <<"select", "done">> \in Moves
            BY DEF Moves
        <3> QED
            BY <2>3, <3>1, MoveInv DEF Skip
    <2>4. CASE Acquire(p)
        <3>1. <<"select", "load">> \in Moves
            BY DEF Moves
        <3> QED
            BY <2>4, <3>1, MoveInv DEF Acquire
    <2>5. CASE Release(p)
        <3>1. <<"dec", "done">> \in Moves
            BY DEF Moves
        <3> QED
            BY <2>5, <3>1, MoveInv DEF Release
    <2>6. CASE LoadPreloaded(p) \/ LoadInitial(p) \/ LoadImported(p)
        BY <2>6, LoadsInv DEF Loads
    <2>7. CASE ReturnGraph(p)
        BY <2>7, ReturnInv
    <2>8. CASE Persist(p)
        BY <2>8, PersistInv
    <2>9. CASE \E q \in LoadingPackages : DecUse(p, q)
        BY <2>9, DecInv
    <2> QED
        BY <1>1, <2>1, <2>2, <2>3, <2>4, <2>5, <2>6, <2>7, <2>8, <2>9 DEF Goroutine
<1>2. ASSUME NEW k \in Actions, StartAction(k) \/ FinishAction(k) PROVE IInv'
    BY <1>2, StartInv, FinishInv
<1>3. CASE Extract
    BY <1>3, ExtractInv
<1>4. CASE Again
    BY <1>4, AgainInv
<1>5. CASE Finished \/ UNCHANGED vars
    BY <1>5, StutterInv DEF Finished
<1> QED
    BY <1>1, <1>2, <1>3, <1>4, <1>5 DEF Next

\* The invariant holds in every reachable state.
LEMMA Inductive == Spec => []IInv
<1>1. IInv /\ [Next]_vars => IInv'
    BY StepInv
<1> QED
    BY <1>1, InitInv, PTL DEF Spec
-----------------------------------------------------------------------------
\* runner.analyze never runs an analyzer on top of one that failed.
THEOREM GoodDeps == Spec => []RunsOnGoodDeps
<1>1. ASSUME IInv PROVE RunsOnGoodDeps
    <2>1. ActionInv /\ ActionType
        BY <1>1 DEF IInv
    <2> QED
        BY <2>1, DepsFacts DEF ActionInv, Called, RunsOnGoodDeps, Analyzing
<1> QED
    BY <1>1, Inductive, PTL

\* decUse frees the types and facts of a package after their last use, and the
\* end of an undisturbed analysis finds everything freed.
THEOREM FreedInTime == Spec => []FreedAfterLastUse
<1>1. ASSUME IInv PROVE NoUseAfterFree
    <2>0. ProcType /\ ActionType /\ PlaceInv /\ ActionInv /\ CountInv /\ TypesInv
        BY <1>1 DEF IInv
    <2> SUFFICES ASSUME NEW k \in Actions, status[k] = "running", k \in ran, NEW q \in Imports[k[2]] \cup {k[2]}
                 PROVE  types[q] # "nil" /\ dependents[q] > 0
        BY DEF NoUseAfterFree, Analyzing
    <2>1. k[2] \in LoadingPackages /\ gp[k[2]] = "graph" /\ Entered(k[2])
        BY <2>0, PackagesClosed DEF PlaceInv, Entered, ActionsOf
    <2>2. k[2] \in Users(k[2])
        BY <2>1 DEF Users
    <2>3. dependents[k[2]] > 0
        BY <2>0, <2>1, <2>2, UsedCounts
    <2>4. CASE q = k[2]
        <3>1. ~illTyped[k[2]] /\ gp[k[2]] \notin Before
            BY <2>0, <2>1 DEF ActionInv, Before
        <3>2. ASSUME types[k[2]] = "nil" PROVE FALSE
            <4>1. (Untyped(k[2]) /\ illTyped[k[2]]) \/ (gp[k[2]] = "done" /\ ctxDone)
                BY <2>0, <2>1, <2>3, <3>1, <3>2, Zenon DEF TypesInv
            <4> QED
                BY <2>1, <3>1, <4>1
        <3> QED
            BY <2>3, <2>4, <3>2
    <2>5. CASE q \in Imports[k[2]]
        <3>1. q \in LoadingPackages /\ q # k[2]
            BY <2>1, <2>5, PackagesClosed, Irreflexive
        <3>2. k[2] \in Users(q)
            BY <2>1, <2>3, <2>5, <3>1 DEF Users
        <3>3. dependents[q] > 0
            BY <2>0, <3>1, <3>2, UsedCounts
        <3>4. types[q] # "nil"
            BY <2>0, <2>1, <2>5 DEF TypesInv
        <3> QED
            BY <3>3, <3>4
    <2> QED
        BY <2>4, <2>5
<1>2. ASSUME IInv PROVE EverythingFreed
    <2>0. ProcType /\ ActionType /\ PlaceInv /\ CountInv /\ ReportInv
        BY <1>2 DEF IInv
    <2> SUFFICES ASSUME report # "none", ~ctxDone
                 PROVE  sem = 0 /\ pass = {} /\ \A p \in LoadingPackages : dependents[p] = 0 /\ types[p] = "nil"
        BY DEF EverythingFreed
    <2>1. \A p \in LoadingPackages : gp[p] = "done" /\ calls[p] = {}
        BY <2>0 DEF ReportInv, PlaceInv
    <2>2. sem = 0
        <3>1. {p \in LoadingPackages : gp[p] \in Holding} = {}
            BY <2>1 DEF Holding
        <3> QED
            BY <2>0, <3>1, FS_EmptySet DEF PlaceInv
    <2>3. pass = {}
        <3> SUFFICES ASSUME NEW k \in pass PROVE FALSE
            OBVIOUS
        <3>1. k[2] \in LoadingPackages
            BY <2>0, PackagesClosed DEF ActionType
        <3>2. gp[k[2]] \in {"graph", "persist"} \/ <<k[2], k[2]>> \in calls[k[2]]
            BY <2>0 DEF CountInv
        <3> QED
            BY <2>1, <3>1, <3>2
    <2>4. PICK T : T = {q \in LoadingPackages : dependents[q] > 0}
        OBVIOUS
    <2>5. ASSUME T # {} PROVE FALSE
        <3>1. T \in SUBSET Pkgs
            BY <2>4, PackagesClosed
        <3>2. PICK x \in T : \A y \in T : x \notin Imports[y]
            BY <2>5, <3>1, AcyclicTop
        <3>3. Users(x) = {}
            BY <2>1, <2>4, <3>2 DEF Users, Before
        <3>4. x \in LoadingPackages /\ dependents[x] > 0 /\ dependents[x] = Cardinality(Users(x))
            BY <2>0, <2>4, <3>2 DEF CountInv
        <3> QED
            BY <3>3, <3>4, FS_EmptySet
    <2>6. \A p \in LoadingPackages : dependents[p] = 0
        BY <2>0, <2>4, <2>5 DEF ProcType
    <2> QED
        BY <2>0, <2>2, <2>3, <2>6 DEF CountInv
<1>3. IInv => FreedAfterLastUse
    BY <1>1, <1>2 DEF FreedAfterLastUse
<1> QED
    BY <1>3, Inductive, PTL

\* A report without errors means that every configured analyzer ran on every
\* initial package.
THEOREM CleanReport == Spec => []CleanReportMeansAnalyzed
<1>1. IInv => CleanReportMeansAnalyzed
    BY DEF IInv, ReportInv
<1> QED
    BY <1>1, Inductive, PTL

-----------------------------------------------------------------------------
\* The facts that the imports of a package pass on describe everything below it.
LEMMA InheritedComplete ==
    ASSUME IInv, FactInv, NoVersion = {}, NEW k \in Actions, UsesFacts(k), dependents[k[2]] > 0,
           \A q \in AllImports(k[2]) : Settled(q)
    PROVE  AllImports(k[2]) \subseteq Inherited(k)
<1>0. ProcType /\ ActionInv /\ CountInv
    BY DEF IInv
<1>1. k[2] \in LoadingPackages /\ k = <<k[1], k[2]>>
    BY DepsFacts
<1>2. ASSUME NEW q \in Imports[k[2]] PROVE {q} \cup AllImports(q) \subseteq Inherited(k)
    <2>1. q \in LoadingPackages /\ q # k[2] /\ q \in AllImports(k[2])
        BY <1>1, <1>2, PackagesClosed, Irreflexive, AllImportsNest
    <2>2. \E d : d = <<k[1], q>> /\ d[1] = k[1] /\ d[2] = q
        <3>1. <<k[1], q>>[1] = k[1] /\ <<k[1], q>>[2] = q
            OBVIOUS
        <3> QED
            BY <3>1
    <2> PICK d : d = <<k[1], q>> /\ d[1] = k[1] /\ d[2] = q
        BY <2>2
    <2>3. d \in VerticalDeps(k)
        BY <1>2, <2>2 DEF VerticalDeps, UsesFacts
    <2>4. d \in Actions /\ UsesFacts(d)
        BY <2>2, <2>3, DepsFacts DEF UsesFacts
    <2>5. status[d] = "ok"
        <3>1. ~SourceFails(q)
            BY DEF SourceFails
        <3> QED
            BY <1>0, <2>1, <2>2, <2>4, <3>1 DEF Settled, ActionsOf, ActionInv
    <2>6. k[2] \in Users(q)
        BY <1>1, <1>2, <2>1 DEF Users
    <2>7. dependents[q] > 0
        BY <1>0, <2>1, <2>6, UsedCounts
    <2>8. Complete(d)
        BY <2>2, <2>4, <2>5, <2>7 DEF FactInv
    <2> QED
        BY <2>2, <2>3, <2>8 DEF Complete, Inherited
<1> QED
    BY <1>1, <1>2, AllImportsParts

\* Inherited facts describe packages of this analysis.
LEMMA InheritedType ==
    ASSUME facts \in [Actions -> SUBSET LoadingPackages], NEW k \in Actions
    PROVE  Inherited(k) \subseteq LoadingPackages
<1>1. \A d \in VerticalDeps(k) : d \in Actions
    BY DepsFacts
<1> QED
    BY <1>1 DEF Inherited

\* What loadWithFacts does to the facts when all export data can be read and
\* nobody has cancelled the analysis.
LEMMA LoadedFacts ==
    ASSUME IInv, FactInv, BadExport = {}, NoVersion = {}, NEW p \in LoadingPackages, Loads(p)
    PROVE  /\ gp'[p] = "graph" /\ facts' \in [Actions -> SUBSET LoadingPackages]
           /\ \A k \in Actions : k[2] # p => facts'[k] = facts[k]
           /\ \A k \in ActionsOf(p) : ~ctxDone /\ UsesFacts(k) /\ k \notin needSource' =>
                 facts'[k] = Inherited(k) \cup {p}
<1>0. ProcType /\ ActionType /\ PlaceInv /\ ActionInv /\ OrderInv /\ CountInv /\ TypesInv
    BY DEF IInv
<1>1. gp[p] = "load" /\ gp'[p] = "graph"
    BY <1>0, LoadFacts DEF SourceFails
<1>2. ~ctxDone => ExportReadable(p)
    BY <1>0, <1>1, ImportsTyped DEF ExportReadable
<1>3. \A k \in ActionsOf(p) : k \in Actions /\ k[2] = p /\ (p \notin Initial \/ k \in needSource)
    BY <1>0 DEF ActionsOf, ActionInv
<1>4. ASSUME NEW k \in ActionsOf(p), UsesFacts(k), k \notin Missing(p), p \notin Initial PROVE {q \in {p} : cache[k] = "whole"} = {p}
    <2>1. cache[k] # "none" /\ cache[k] # "partial"
        BY <1>1, <1>3, <1>4 DEF Missing, FactInv, Before
    <2>2. cache[k] = "whole"
        BY <1>3, <2>1 DEF FactInv
    <2> QED
        BY <2>2
<1>5. ASSUME NEW kept, kept \subseteq ActionsOf(p), ApplyCachedFacts(p, kept), UNCHANGED cache
      PROVE  /\ facts' \in [Actions -> SUBSET LoadingPackages]
             /\ \A k \in Actions : k[2] # p => facts'[k] = facts[k]
             /\ \A k \in kept : UsesFacts(k) /\ k \notin Missing(p) /\ p \notin Initial => facts'[k] = Inherited(k) \cup {p}
    <2>1. \A k \in Actions : facts'[k] = IF k \in kept /\ UsesFacts(k)
                                         THEN Inherited(k) \cup {q \in {p} : cache[k] = "whole"} ELSE facts[k]
        BY <1>5 DEF ApplyCachedFacts
    <2>2. \A k \in kept : k \in Actions /\ k[2] = p
        BY <1>3, <1>5
    <2>3. ASSUME NEW k \in kept, UsesFacts(k), k \notin Missing(p), p \notin Initial PROVE facts'[k] = Inherited(k) \cup {p}
        <3>1. {q \in {p} : cache[k] = "whole"} = {p}
            BY <1>4, <1>5, <2>3
        <3> QED
            BY <2>1, <2>2, <2>3, <3>1
    <2>4. \A k \in Actions : Inherited(k) \subseteq LoadingPackages /\ facts[k] \subseteq LoadingPackages
        BY InheritedType DEF FactInv
    <2>5. facts' \in [Actions -> SUBSET LoadingPackages]
        BY <1>5, <2>4 DEF ApplyCachedFacts
    <2> QED
        BY <2>1, <2>2, <2>3, <2>5
<1>6. Missing(p) \subseteq Marked(p)
    BY MarkedFacts
<1>7. CASE LoadPreloaded(p)
    <2>1. PICK kept : kept = {k \in ActionsOf(p) : p \notin Initial /\ k \notin Missing(p)}
        OBVIOUS
    <2>2. ApplyCachedFacts(p, kept) /\ UNCHANGED cache /\ needSource' = needSource \cup Marked(p)
        BY <1>7, <2>1 DEF LoadPreloaded
    <2>3. \A k \in ActionsOf(p) : k \notin needSource' => k \in kept /\ k \notin Missing(p) /\ p \notin Initial
        BY <1>3, <1>6, <2>1, <2>2
    <2>4. kept \subseteq ActionsOf(p)
        BY <2>1
    <2> QED
        BY <1>1, <1>5, <2>2, <2>3, <2>4
<1>8. CASE LoadInitial(p)
    <2>1. UNCHANGED <<facts, needSource>> /\ p \in Initial
        BY <1>8 DEF LoadInitial, LoadFails
    <2> QED
        BY <1>1, <1>3, <2>1 DEF FactInv
<1>9. CASE LoadImported(p)
    <2>1. PICK kept : kept = ActionsOf(p) \ (needSource \cup Marked(p))
        OBVIOUS
    <2>2. UNCHANGED cache /\ needSource' = needSource \cup Marked(p) /\ p \notin Initial
        BY <1>9 DEF LoadImported
    <2>3. \A k \in ActionsOf(p) : k \notin needSource' => k \in kept /\ k \notin Missing(p)
        BY <1>6, <2>1, <2>2
    <2>4. ApplyCachedFacts(p, kept) \/ (UNCHANGED facts /\ ~ExportReadable(p))
        BY <1>9, <2>1 DEF LoadImported, LoadFails, SourceFails
    <2>5. CASE ApplyCachedFacts(p, kept)
        <3>1. kept \subseteq ActionsOf(p)
            BY <2>1
        <3> QED
            BY <1>1, <1>5, <2>2, <2>3, <2>5, <3>1
    <2>6. CASE UNCHANGED facts /\ ~ExportReadable(p)
        BY <1>1, <1>2, <2>6 DEF FactInv
    <2> QED
        BY <2>4, <2>5, <2>6
<1> QED
    BY <1>7, <1>8, <1>9 DEF Loads

\* Steps that leave the facts and the analysis alone.
LEMMA FactFrame ==
    ASSUME IInv, FactInv, UNCHANGED <<facts, status, ran, needSource, runs, dependents>>, live' \subseteq live,
           \A p \in LoadingPackages : gp'[p] \in Before => gp[p] \in Before,
           cache' \in [Actions -> {"none", "whole", "partial"}],
           \A k \in Actions : cache'[k] = cache[k] \/ gp'[k[2]] \notin Before
    PROVE  FactInv'
<1>1. \A k \in Actions : (Complete(k)' <=> Complete(k)) /\ (Analyzing(k)' <=> Analyzing(k))
    BY DEF Complete, Analyzing
<1>2. \A k \in Actions : gp'[k[2]] \in Before => cache'[k] # "partial"
    BY PackagesClosed DEF FactInv
<1>3. \A k \in Actions : UsesFacts(k) /\ k \notin needSource' /\ (k[2] \in live' \/ status'[k] = "running") => Complete(k)'
    BY <1>1 DEF FactInv
<1>4. /\ \A k \in Actions : UsesFacts(k) /\ Analyzing(k)' => AllImports(k[2]) \subseteq facts'[k]
      /\ \A k \in Actions : UsesFacts(k) /\ status'[k] = "ok" /\ dependents'[k[2]] > 0 => Complete(k)'
    BY <1>1 DEF FactInv
<1> QED
    BY <1>2, <1>3, <1>4 DEF FactInv, UsesFacts

\* Every step keeps the facts complete that somebody may still inherit.
LEMMA FactStep ==
    ASSUME BadExport = {}, NoVersion = {}, MaxRuns = 1, IInv, FactInv, [Next]_vars
    PROVE  FactInv'
<1>0. ProcType /\ ActionType /\ PlaceInv /\ ActionInv /\ OrderInv /\ CountInv /\ TypesInv /\ ReportInv
    BY DEF IInv
<1>1. ASSUME NEW p \in LoadingPackages, Enter(p) \/ Join(p) \/ Skip(p) \/ Acquire(p) \/ Release(p) PROVE FactInv'
    <2>1. UNCHANGED <<facts, status, ran, needSource, runs, dependents, live, cache>>
        BY <1>1 DEF Enter, Join, Skip, Acquire, Release, gvars, avars, out
    <2>2. \A q \in LoadingPackages : gp'[q] \in Before => gp[q] \in Before
        BY <1>0, <1>1 DEF Enter, Join, Skip, Acquire, Release, Goto, ProcType, Before
    <2>3. cache' \in [Actions -> {"none", "whole", "partial"}]
        BY <2>1 DEF FactInv
    <2> QED
        BY <2>1, <2>2, <2>3, FactFrame
<1>2. ASSUME NEW p \in LoadingPackages, Loads(p) PROVE FactInv'
    <2>1. /\ gp[p] = "load" /\ gp' = [gp EXCEPT ![p] = "graph"] /\ gp'[p] = "graph"
          /\ UNCHANGED <<status, dependents, ran, cache, runs>>
          /\ live' = IF ctxDone THEN live ELSE live \cup {p}
          /\ needSource \subseteq needSource' /\ needSource' \subseteq needSource \cup ActionsOf(p)
        BY <1>0, <1>2, LoadFacts, LoadedFacts
    <2>2. /\ facts' \in [Actions -> SUBSET LoadingPackages]
          /\ \A k \in Actions : k[2] # p => facts'[k] = facts[k]
          /\ \A k \in ActionsOf(p) : ~ctxDone /\ UsesFacts(k) /\ k \notin needSource' =>
                 facts'[k] = Inherited(k) \cup {p}
        BY <1>2, LoadedFacts
    <2>3. \A k \in Actions : k[2] = p => status[k] = "pending"
        BY <1>0, <2>1 DEF PlaceInv, Before
    <2>4. \A k \in Actions : k[2] # p => (k[2] \in live' <=> k[2] \in live) /\ (k \in needSource' <=> k \in needSource)
        BY <2>1 DEF ActionsOf
    <2>5. p \in live' => ~ctxDone
        BY <1>0, <2>1 DEF PlaceInv
    <2>6. \A k \in Actions : gp'[k[2]] \in Before => cache'[k] # "partial"
        BY <1>0, <2>1, PackagesClosed DEF FactInv, ProcType, Before
    <2>7. ASSUME NEW k \in Actions, UsesFacts(k), k \notin needSource', k[2] \in live' \/ status'[k] = "running" PROVE Complete(k)'
        <3>1. CASE k[2] # p
            BY <2>1, <2>2, <2>4, <2>7, <3>1 DEF FactInv, Complete
        <3>2. CASE k[2] = p
            <4>1. ~ctxDone /\ k \in ActionsOf(p)
                BY <2>1, <2>3, <2>5, <2>7, <3>2 DEF ActionsOf
            <4>2. facts'[k] = Inherited(k) \cup {p}
                BY <2>2, <2>7, <4>1
            <4>3. \A q \in AllImports(p) : Settled(q)
                <5>1. ImportsDone(p)
                    BY <1>0, <2>1 DEF PlaceInv
                <5> QED
                    BY <1>0, <4>1, <5>1, BelowDone DEF OrderInv
            <4>4. p \in Users(p)
                BY <2>1 DEF Users, Before
            <4>5. dependents[p] > 0
                BY <1>0, <4>4, UsedCounts
            <4>6. AllImports(p) \subseteq Inherited(k)
                BY <2>7, <3>2, <4>3, <4>5, InheritedComplete
            <4> QED
                BY <3>2, <4>2, <4>6 DEF Complete
        <3> QED
            BY <3>1, <3>2
    <2>8. ASSUME NEW k \in Actions, UsesFacts(k), Analyzing(k)' PROVE AllImports(k[2]) \subseteq facts'[k]
        BY <2>1, <2>2, <2>3, <2>8 DEF FactInv, Analyzing
    <2>9. ASSUME NEW k \in Actions, UsesFacts(k), status'[k] = "ok", dependents'[k[2]] > 0 PROVE Complete(k)'
        BY <2>1, <2>2, <2>3, <2>9 DEF FactInv, Complete
    <2> QED
        BY <2>1, <2>2, <2>6, <2>7, <2>8, <2>9 DEF FactInv, UsesFacts
<1>3. ASSUME NEW k \in Actions, StartAction(k) PROVE FactInv'
    <2>1. /\ gp[k[2]] = "graph" /\ k[2] \in live /\ status[k] = "pending"
          /\ status' = [status EXCEPT ![k] = "running"] /\ live' \subseteq live
          /\ UNCHANGED <<gp, needSource, dependents, cache, runs>>
        BY <1>3, DepsFacts DEF StartAction, G!Start, G!Runnable, out
    <2>2. status'[k] = "running" /\ \A a \in Actions : a # k => status'[a] = status[a]
        BY <1>0, <2>1 DEF ActionType
    <2>3. k[2] \in LoadingPackages /\ k \notin ran
        BY <1>0, <2>1, DepsFacts DEF ActionInv, Called
    <2>4. \A a \in Actions : a # k => facts'[a] = facts[a] /\ (a \in ran' <=> a \in ran)
        BY <1>3 DEF StartAction, FactInv
    <2>5. \/ k \in needSource /\ facts'[k] = Inherited(k)
          \/ k \notin ran' /\ facts'[k] = facts[k]
        BY <1>3, <2>3 DEF StartAction, FactInv
    <2>10. facts' \in [Actions -> SUBSET LoadingPackages]
        BY <1>3, InheritedType DEF StartAction, FactInv
    <2>6. UsesFacts(k) => AllImports(k[2]) \subseteq Inherited(k)
        <3>1. Entered(k[2])
            BY <2>1 DEF Entered
        <3>2. \A q \in AllImports(k[2]) : Settled(q)
            BY <1>0, <2>3, <3>1 DEF OrderInv
        <3>3. k[2] \in Users(k[2])
            BY <2>1, <2>3 DEF Users
        <3>4. dependents[k[2]] > 0
            BY <1>0, <2>3, <3>3, UsedCounts
        <3> QED
            BY <3>2, <3>4, InheritedComplete
    <2>7. ASSUME NEW a \in Actions, UsesFacts(a), a \notin needSource', a[2] \in live' \/ status'[a] = "running" PROVE Complete(a)'
        <3>1. a[2] \in live \/ status[a] = "running"
            BY <2>1, <2>2, <2>7
        <3>2. Complete(a)
            BY <2>1, <2>7, <3>1 DEF FactInv
        <3>3. facts'[a] = facts[a]
            BY <2>1, <2>4, <2>5, <2>7
        <3> QED
            BY <3>2, <3>3 DEF Complete
    <2>8. ASSUME NEW a \in Actions, UsesFacts(a), Analyzing(a)' PROVE AllImports(a[2]) \subseteq facts'[a]
        <3>1. CASE a = k
            BY <2>5, <2>6, <2>8, <3>1 DEF Analyzing
        <3>2. CASE a # k
            BY <2>2, <2>4, <2>8, <3>2 DEF Analyzing, FactInv
        <3> QED
            BY <3>1, <3>2
    <2>9. ASSUME NEW a \in Actions, UsesFacts(a), status'[a] = "ok", dependents'[a[2]] > 0 PROVE Complete(a)'
        BY <2>1, <2>2, <2>4, <2>9 DEF FactInv, Complete
    <2> QED
        BY <2>1, <2>7, <2>8, <2>9, <2>10 DEF FactInv, UsesFacts
<1>4. ASSUME NEW k \in Actions, FinishAction(k) PROVE FactInv'
    <2>1. /\ status[k] = "running" /\ UNCHANGED <<gp, live, needSource, dependents, cache, runs, ran>>
          /\ \E r \in {"ok", "err"} : status' = [status EXCEPT ![k] = r]
        BY <1>4 DEF FinishAction, G!Finish, out
    <2>2. PICK e \in Ends(k) :
              /\ status'[k] = (IF e = "none" THEN "ok" ELSE "err")
              /\ facts' = IF k \in ran /\ e = "none" /\ UsesFacts(k) THEN [facts EXCEPT ![k] = @ \cup {k[2]}] ELSE facts
        BY <1>4 DEF FinishAction
    <2>3. \A a \in Actions : a # k => facts'[a] = facts[a] /\ status'[a] = status[a]
        BY <2>1, <2>2
    <2>4. status'[k] \in {"ok", "err"} /\ (status'[k] = "ok" => e = "none" /\ (k \in ran \/ k \notin needSource))
        BY <2>2 DEF Ends
    <2>5. facts' \in [Actions -> SUBSET LoadingPackages] /\ facts[k] \subseteq facts'[k]
        BY <2>2, DepsFacts DEF FactInv
    <2>6. k \in ran /\ e = "none" /\ UsesFacts(k) => k[2] \in facts'[k]
        BY <2>2 DEF FactInv
    <2>7. ASSUME NEW a \in Actions, UsesFacts(a), a \notin needSource', a[2] \in live' \/ status'[a] = "running" PROVE Complete(a)'
        <3>1. Complete(a) /\ facts[a] \subseteq facts'[a]
            BY <2>1, <2>3, <2>4, <2>5, <2>7 DEF FactInv
        <3> QED
            BY <3>1 DEF Complete
    <2>8. ASSUME NEW a \in Actions, UsesFacts(a), Analyzing(a)' PROVE AllImports(a[2]) \subseteq facts'[a]
        BY <2>1, <2>3, <2>4, <2>8 DEF Analyzing, FactInv
    <2>9. ASSUME NEW a \in Actions, UsesFacts(a), status'[a] = "ok", dependents'[a[2]] > 0 PROVE Complete(a)'
        <3>1. CASE a # k
            BY <2>1, <2>3, <2>9, <3>1 DEF FactInv, Complete
        <3>2. CASE a = k /\ k \in ran
            <4>1. AllImports(k[2]) \subseteq facts[k]
                BY <2>1, <2>9, <3>2 DEF FactInv, Analyzing
            <4> QED
                BY <2>4, <2>5, <2>6, <2>9, <3>2, <4>1 DEF Complete
        <3>3. CASE a = k /\ k \notin ran
            <4>1. Complete(k)
                BY <2>1, <2>4, <2>9, <3>3 DEF FactInv
            <4> QED
                BY <2>5, <3>3, <4>1 DEF Complete
        <3> QED
            BY <3>1, <3>2, <3>3
    <2> QED
        BY <2>1, <2>5, <2>7, <2>8, <2>9 DEF FactInv, UsesFacts
<1>5. ASSUME NEW p \in LoadingPackages, ReturnGraph(p) PROVE FactInv'
    <2>1. /\ gp[p] = "graph" /\ gp' = [gp EXCEPT ![p] = "persist"]
          /\ UNCHANGED <<facts, status, ran, needSource, runs, dependents, cache>> /\ live' = live \ {p}
        BY <1>0, <1>5, NeverUnschedulable
    <2>2. \A q \in LoadingPackages : gp'[q] \in Before => gp[q] \in Before
        BY <1>0, <2>1 DEF ProcType, Before
    <2>3. cache' \in [Actions -> {"none", "whole", "partial"}]
        BY <2>1 DEF FactInv
    <2> QED
        BY <2>1, <2>2, <2>3, FactFrame
<1>6. ASSUME NEW p \in LoadingPackages, Persist(p) PROVE FactInv'
    <2>1. /\ gp[p] = "persist" /\ gp' = [gp EXCEPT ![p] = "dec"]
          /\ UNCHANGED <<facts, status, ran, needSource, runs, dependents>> /\ live' \subseteq live
        BY <1>6 DEF Persist, Goto, G!Cancel, gvars, avars, out
    <2>2. /\ gp'[p] = "dec" /\ \A q \in LoadingPackages : q # p => gp'[q] = gp[q]
          /\ \A q \in LoadingPackages : gp'[q] \in Before => gp[q] \in Before
        BY <1>0, <2>1 DEF ProcType, Before
    <2>3. PICK analyzed : /\ analyzed = {k \in ActionsOf(p) : UsesFacts(k) /\ k \in needSource}
                          /\ cache' = [k \in Actions |->
                                CASE k \notin analyzed -> cache[k]
                                  [] k \in analyzed \ pass -> "none"
                                  [] k \in analyzed \cap pass -> IF err[k] = "none" THEN "whole" ELSE "partial"]
        BY <1>6 DEF Persist
    <2>4. ASSUME NEW k \in Actions
          PROVE  cache'[k] \in {"none", "whole", "partial"} /\ (cache'[k] = cache[k] \/ gp'[k[2]] \notin Before)
        <3>1. CASE k \notin analyzed
            BY <2>3, <3>1 DEF FactInv
        <3>2. CASE k \in analyzed
            <4>1. k[2] = p
                BY <2>3, <3>2 DEF ActionsOf
            <4>2. cache'[k] \in {"none", "whole", "partial"}
                BY <2>3, <3>2
            <4> QED
                BY <2>2, <4>1, <4>2 DEF Before
        <3> QED
            BY <3>1, <3>2
    <2>5. cache' \in [Actions -> {"none", "whole", "partial"}]
        <3>1. cache' = [k \in Actions |-> cache'[k]]
            BY <2>3, Zenon
        <3>2. \A k \in Actions : cache'[k] \in {"none", "whole", "partial"}
            BY <2>4
        <3> QED
            BY <3>1, <3>2
    <2> QED
        BY <2>1, <2>2, <2>4, <2>5, FactFrame
<1>7. ASSUME NEW p \in LoadingPackages, NEW q \in LoadingPackages, DecUse(p, q) PROVE FactInv'
    <2>1. /\ UNCHANGED <<gp, status, live, ran, needSource, runs, cache>>
          /\ dependents' = [dependents EXCEPT ![q] = @ - 1]
          /\ facts' = [k \in Actions |-> IF dependents[q] = 1 /\ k[2] = q THEN {} ELSE facts[k]]
        BY <1>7 DEF DecUse, LastUse, gvars, out
    <2>2. gp[q] \in {"dec", "done"} /\ dependents[q] \in Nat /\ dependents[q] > 0
        BY <1>0, <1>7, DecFacts DEF ProcType
    <2>3. facts' \in [Actions -> SUBSET LoadingPackages]
        BY <2>1 DEF FactInv
    <2>4. /\ \A k \in Actions : k[2] # q => facts'[k] = facts[k] /\ dependents'[k[2]] = dependents[k[2]]
          /\ dependents[q] # 1 => \A k \in Actions : facts'[k] = facts[k]
          /\ dependents[q] = 1 => dependents'[q] = 0
        BY <1>0, <2>1, PackagesClosed DEF ProcType
    <2>5. \A k \in Actions : k[2] = q => status[k] # "running" /\ q \notin live
        BY <1>0, <2>2 DEF PlaceInv
    <2>6. ASSUME NEW k \in Actions, UsesFacts(k), k \notin needSource', k[2] \in live' \/ status'[k] = "running" PROVE Complete(k)'
        BY <2>1, <2>4, <2>5, <2>6 DEF FactInv, Complete
    <2>7. ASSUME NEW k \in Actions, UsesFacts(k), Analyzing(k)' PROVE AllImports(k[2]) \subseteq facts'[k]
        BY <2>1, <2>4, <2>5, <2>7 DEF FactInv, Analyzing
    <2>8. ASSUME NEW k \in Actions, UsesFacts(k), status'[k] = "ok", dependents'[k[2]] > 0 PROVE Complete(k)'
        <3>1. facts'[k] = facts[k] /\ dependents[k[2]] > 0
            BY <2>2, <2>4, <2>8
        <3> QED
            BY <2>1, <2>8, <3>1 DEF FactInv, Complete
    <2> QED
        BY <2>1, <2>3, <2>6, <2>7, <2>8 DEF FactInv, UsesFacts
<1>8. CASE Extract \/ Finished \/ UNCHANGED vars
    <2>1. UNCHANGED <<gp, facts, status, ran, needSource, runs, dependents, live, cache>>
        BY <1>8 DEF Extract, Finished, vars, gvars, avars, out
    <2>2. cache' \in [Actions -> {"none", "whole", "partial"}]
        BY <2>1 DEF FactInv
    <2> QED
        BY <2>1, <2>2, FactFrame
<1>9. ~Again
    BY DEF Again, FactInv
<1> QED
    BY <1>1, <1>2, <1>3, <1>4, <1>5, <1>6, <1>7, <1>8, <1>9 DEF Next, Goroutine, Loads

\* An analyzer has all its inputs when it runs: the results of what it requires
\* and the facts of every package below.  The facts are complete only when all
\* export data can be read, every package below can be loaded, and the cache
\* was not filled by a run that failed: loadImportedPackageWithFacts drops the
\* cached facts of a package without export data, and applyCachedFacts takes
\* whatever is below as it is.
THEOREM InputsThere ==
    ASSUME BadExport = {}, NoVersion = {}, MaxRuns = 1
    PROVE  Spec => []InputsComplete
<1>1. Init => FactInv
    <2> SUFFICES ASSUME Init PROVE FactInv
        OBVIOUS
    <2>1. /\ \A k \in Actions : status[k] = "pending"
          /\ runs = 1 /\ facts \in [Actions -> SUBSET LoadingPackages] /\ live = {}
        BY DEF Init, G!GInit
    <2>2. cache \in [Actions -> {"none", "whole", "partial"}] /\ \A k \in Actions : cache[k] # "partial"
        BY DEF Init
    <2> QED
        BY <2>1, <2>2 DEF FactInv, Analyzing
<1>2. IInv /\ FactInv /\ [Next]_vars => FactInv'
    BY FactStep
<1>3. ASSUME IInv, FactInv PROVE InputsComplete
    <2>0. ActionInv /\ PlaceInv
        BY <1>3 DEF IInv
    <2> SUFFICES ASSUME NEW k \in Actions, Analyzing(k)
                 PROVE  HorizontalDeps(k) \subseteq result /\ (UsesFacts(k) => AllImports(k[2]) \subseteq facts[k])
        BY DEF InputsComplete
    <2>1. status[k] = "running" /\ k \in ran /\ k \in needSource /\ gp[k[2]] = "graph"
        BY <2>0 DEF Analyzing, ActionInv, PlaceInv
    <2>2. ASSUME NEW d \in HorizontalDeps(k) PROVE d \in result
        <3>1. d \in Actions /\ d[2] = k[2] /\ status[d] = "ok" /\ d \in needSource
            BY <2>0, <2>1, DepsFacts DEF ActionInv
        <3>2. d \in ran
            BY <2>0, <3>1 DEF ActionInv
        <3> QED
            BY <2>0, <2>1, <3>1, <3>2 DEF ActionInv
    <2> QED
        BY <1>3, <2>2 DEF FactInv
<1> QED
    BY <1>1, <1>2, <1>3, Inductive, PTL DEF Spec

-----------------------------------------------------------------------------
\* The types of what the invariant has not needed so far.
RestType ==
    /\ pkgErrors \in [LoadingPackages -> BOOLEAN]
    /\ ctxDone \in BOOLEAN
    /\ cache \in [Actions -> {"none", "whole", "partial"}]
    /\ facts \in [Actions -> SUBSET LoadingPackages]
    /\ result \subseteq Actions
    /\ runs \in 1 .. MaxRuns
    /\ report \in {"none", "diagnostics", "errors", "panic"}

\* The types of what loadWithFacts sets.
LEMMA LoadTypes ==
    ASSUME RestType, NEW p \in LoadingPackages, Loads(p)
    PROVE  pkgErrors' \in [LoadingPackages -> BOOLEAN] /\ facts' \in [Actions -> SUBSET LoadingPackages]
<1> DEFINE Errs == pkgErrors' \in [LoadingPackages -> BOOLEAN]
           Facts == facts' \in [Actions -> SUBSET LoadingPackages]
<1>1. UNCHANGED pkgErrors => Errs
    BY DEF RestType
<1>2. UNCHANGED facts => Facts
    BY DEF RestType
<1>3. ASSUME NEW extra, FromSource(p, extra) PROVE Errs
    <2>1. PICK b \in BOOLEAN : b = (CompileErrors(p) \/ extra)
        OBVIOUS
    <2>2. pkgErrors' = [pkgErrors EXCEPT ![p] = b]
        BY <1>3, <2>1 DEF FromSource
    <2> QED
        BY <2>2 DEF RestType
<1>4. ASSUME NEW kept, ApplyCachedFacts(p, kept) PROVE Facts
    <2>1. \A k \in Actions : Inherited(k) \subseteq LoadingPackages /\ facts[k] \subseteq LoadingPackages
        BY InheritedType DEF RestType
    <2> QED
        BY <1>4, <2>1 DEF ApplyCachedFacts
<1>5. ASSUME NEW from, LoadFails(p, from) PROVE Errs /\ Facts
    <2>1. UNCHANGED <<pkgErrors, facts>>
        BY <1>5 DEF LoadFails
    <2> QED
        BY <1>1, <1>2, <2>1
<1>6. CASE LoadPreloaded(p)
    <2>1. UNCHANGED pkgErrors /\ \E kept : ApplyCachedFacts(p, kept)
        BY <1>6 DEF LoadPreloaded, pvars
    <2> QED
        BY <1>1, <1>4, <2>1
<1>7. CASE LoadInitial(p)
    <2>1. LoadFails(p, "source") \/ (FromSource(p, FALSE) /\ UNCHANGED facts)
        BY <1>7 DEF LoadInitial
    <2> QED
        BY <1>2, <1>3, <1>5, <2>1
<1>8. CASE LoadImported(p)
    <2>1. \/ \E from : LoadFails(p, from)
          \/ (\E extra : FromSource(p, extra)) /\ ((\E kept : ApplyCachedFacts(p, kept)) \/ UNCHANGED facts)
          \/ UNCHANGED pkgErrors /\ \E kept : ApplyCachedFacts(p, kept)
        BY <1>8 DEF LoadImported
    <2> QED
        BY <1>1, <1>2, <1>3, <1>4, <1>5, <2>1
<1> QED
    BY <1>6, <1>7, <1>8 DEF Loads

\* Every step keeps the types of the rest.
LEMMA RestStep ==
    ASSUME IInv, RestType, [Next]_vars
    PROVE  RestType'
<1>0. ProcType /\ ActionType /\ PlaceInv
    BY DEF IInv
<1>1. ASSUME NEW p \in LoadingPackages, Enter(p) \/ Join(p) \/ Skip(p) \/ Acquire(p) \/ Release(p) \/ ReturnGraph(p) PROVE RestType'
    <2>1. UNCHANGED <<pkgErrors, ctxDone, cache, facts, result, runs, report>>
        BY <1>1 DEF Enter, Join, Skip, Acquire, Release, ReturnGraph, G!Return, gvars, pvars, avars, out
    <2> QED
        BY <2>1 DEF RestType
<1>2. ASSUME NEW p \in LoadingPackages, Loads(p) PROVE RestType'
    <2>1. UNCHANGED <<ctxDone, cache, result, runs, report>>
        BY <1>2 DEF Loads, LoadPreloaded, LoadInitial, LoadImported, avars, out
    <2> QED
        BY <1>2, <2>1, LoadTypes DEF RestType
<1>3. ASSUME NEW k \in Actions, StartAction(k) PROVE RestType'
    <2>1. UNCHANGED <<pkgErrors, ctxDone, cache, result, runs, report>>
        BY <1>3 DEF StartAction, G!Start, pvars, out
    <2>2. facts' \in [Actions -> SUBSET LoadingPackages]
        BY <1>3, InheritedType DEF StartAction, RestType
    <2> QED
        BY <2>1, <2>2 DEF RestType
<1>4. ASSUME NEW k \in Actions, FinishAction(k) PROVE RestType'
    <2>1. UNCHANGED <<pkgErrors, ctxDone, cache, runs, report>>
        BY <1>4 DEF FinishAction, G!Finish, pvars, out
    <2>2. facts' \in [Actions -> SUBSET LoadingPackages] /\ result' \subseteq Actions
        BY <1>4, DepsFacts DEF FinishAction, RestType
    <2> QED
        BY <2>1, <2>2 DEF RestType
<1>5. ASSUME NEW p \in LoadingPackages, Persist(p) PROVE RestType'
    <2>1. UNCHANGED <<pkgErrors, facts, result, runs, report>> /\ (ctxDone' = TRUE \/ ctxDone' = ctxDone)
        BY <1>5 DEF Persist, G!Cancel, gvars, pvars, avars, out
    <2>2. PICK analyzed : /\ analyzed = {k \in ActionsOf(p) : UsesFacts(k) /\ k \in needSource}
                          /\ cache' = [k \in Actions |->
                                CASE k \notin analyzed -> cache[k]
                                  [] k \in analyzed \ pass -> "none"
                                  [] k \in analyzed \cap pass -> IF err[k] = "none" THEN "whole" ELSE "partial"]
        BY <1>5 DEF Persist
    <2>3. ASSUME NEW k \in Actions PROVE cache'[k] \in {"none", "whole", "partial"}
        <3>1. CASE k \notin analyzed
            BY <2>2, <3>1 DEF RestType
        <3>2. CASE k \in analyzed
            BY <2>2, <3>2
        <3> QED
            BY <3>1, <3>2
    <2>4. cache' = [k \in Actions |-> cache'[k]]
        BY <2>2, Zenon
    <2>5. cache' \in [Actions -> {"none", "whole", "partial"}]
        BY <2>3, <2>4
    <2> QED
        BY <2>1, <2>5 DEF RestType
<1>6. ASSUME NEW p \in LoadingPackages, NEW q \in LoadingPackages, DecUse(p, q) PROVE RestType'
    <2>1. UNCHANGED <<pkgErrors, ctxDone, cache, runs, report>> /\ result' = result \ Spent(q)
        BY <1>6 DEF DecUse, gvars, out
    <2>2. facts' \in [Actions -> SUBSET LoadingPackages]
        BY <1>6 DEF DecUse, RestType
    <2> QED
        BY <2>1, <2>2 DEF RestType
<1>7. CASE Extract
    <2>1. UNCHANGED <<pkgErrors, ctxDone, cache, facts, result, runs>> /\ report' \in {"panic", "errors", "diagnostics"}
        BY <1>7 DEF Extract, gvars, pvars, avars
    <2> QED
        BY <2>1 DEF RestType
<1>8. CASE Again
    <2>1. pkgErrors' \in [LoadingPackages -> BOOLEAN]
        BY <1>8 DEF Again, StartIllTyped
    <2>2. runs' \in 1 .. MaxRuns
        BY <1>8 DEF Again, RestType
    <2> QED
        BY <1>8, <2>1, <2>2 DEF Again, RestType
<1>9. CASE Finished \/ UNCHANGED vars
    <2>1. UNCHANGED <<pkgErrors, ctxDone, cache, facts, result, runs, report>>
        BY <1>9 DEF Finished, vars, gvars, pvars, avars, out
    <2> QED
        BY <2>1 DEF RestType
<1> QED
    BY <1>1, <1>2, <1>3, <1>4, <1>5, <1>6, <1>7, <1>8, <1>9 DEF Next, Goroutine, Loads

\* Every variable keeps its type, for any number of runs: decUse never counts
\* the users of a package below zero, and no slot of loadSem is given back that
\* was not taken.
THEOREM TypeCorrect == Spec => []TypeOK
<1>1. Init => RestType
    <2> SUFFICES ASSUME Init PROVE RestType
        OBVIOUS
    <2>1. pkgErrors \in [LoadingPackages -> BOOLEAN] /\ ctxDone \in BOOLEAN
        <3>1. pkgErrors = StartIllTyped /\ ctxDone = FALSE
            BY DEF Init, G!GInit
        <3>2. StartIllTyped \in [LoadingPackages -> BOOLEAN]
            BY DEF StartIllTyped
        <3> QED
            BY <3>1, <3>2
    <2>2. cache \in [Actions -> {"none", "whole", "partial"}] /\ facts \in [Actions -> SUBSET LoadingPackages]
        BY DEF Init
    <2> QED
        BY <2>1, <2>2 DEF Init, RestType
<1>2. IInv /\ RestType /\ [Next]_vars => RestType'
    BY RestStep
<1>3. ASSUME IInv, RestType PROVE TypeOK
    <2>1. ProcType /\ ActionType
        BY <1>3 DEF IInv
    <2>2. sem \in 0 .. LoadSlots
        <3>1. PICK S \in SUBSET LoadingPackages : S = {p \in LoadingPackages : gp[p] \in Holding}
            OBVIOUS
        <3>2. sem = Cardinality(S) /\ sem <= LoadSlots
            BY <1>3, <3>1 DEF IInv, PlaceInv
        <3> QED
            BY <3>2, PackagesFinite
    <2>3. illTyped \in [LoadingPackages -> BOOLEAN] /\ pkgErrors \in [LoadingPackages -> BOOLEAN] /\ ctxDone \in BOOLEAN
        BY <1>3, <2>1 DEF ProcType, RestType
    <2> QED
        BY <1>3, <2>1, <2>2, <2>3 DEF ProcType, ActionType, RestType, TypeOK, Before
<1> QED
    BY <1>1, <1>2, <1>3, Inductive, PTL DEF Spec

-----------------------------------------------------------------------------
\* Facts on disk that are not whole belong to an action that has failed, in the
\* run that left them, and a clean report excludes every failure.
FailInv ==
    /\ runs = 1
    /\ \A k \in Actions : cache[k] = "partial" => status[k] = "err"
    /\ report = "diagnostics" => \A k \in Actions : status[k] # "err"

\* Every step of the first run keeps the failures and the facts cache in line.
LEMMA FailStep ==
    ASSUME MaxRuns = 1, IInv, FailInv, [Next]_vars
    PROVE  FailInv'
<1>0. ProcType /\ ActionType /\ PlaceInv /\ ActionInv /\ OrderInv /\ ReportInv
    BY DEF IInv
<1>1. ASSUME NEW p \in LoadingPackages, Enter(p) \/ Join(p) \/ Skip(p) \/ Acquire(p) \/ Release(p) \/ Loads(p) PROVE FailInv'
    <2>1. UNCHANGED <<status, cache, runs, report>>
        BY <1>1 DEF Enter, Join, Skip, Acquire, Release, Loads, LoadPreloaded, LoadInitial, LoadImported, gvars, out
    <2> QED
        BY <2>1 DEF FailInv
<1>2. ASSUME NEW p \in LoadingPackages, ReturnGraph(p) PROVE FailInv'
    <2>1. UNCHANGED <<status, cache, runs, report>>
        BY <1>0, <1>2, NeverUnschedulable
    <2> QED
        BY <2>1 DEF FailInv
<1>3. ASSUME NEW p \in LoadingPackages, NEW q \in LoadingPackages, DecUse(p, q) PROVE FailInv'
    <2>1. UNCHANGED <<status, cache, runs, report>>
        BY <1>3 DEF DecUse, gvars, out
    <2> QED
        BY <2>1 DEF FailInv
<1>4. ASSUME NEW k \in Actions, StartAction(k) \/ FinishAction(k) PROVE FailInv'
    <2>1. UNCHANGED <<cache, runs, report>> /\ \A a \in Actions : status[a] = "err" => status'[a] = "err"
        <3>1. UNCHANGED <<cache, runs, report>> /\ status[k] # "err" /\ \E r : status' = [status EXCEPT ![k] = r]
            BY <1>4 DEF StartAction, FinishAction, G!Start, G!Runnable, G!Finish, out
        <3> QED
            BY <1>0, <3>1 DEF ActionType
    <2>2. k[2] \in LoadingPackages /\ gp[k[2]] = "graph"
        BY <1>0, <1>4, PackagesClosed DEF StartAction, FinishAction, G!Finish, PlaceInv
    <2>3. report = "none"
        BY <1>0, <2>2 DEF ReportInv
    <2> QED
        BY <2>1, <2>3 DEF FailInv
<1>5. ASSUME NEW p \in LoadingPackages, Persist(p) PROVE FailInv'
    <2>1. UNCHANGED <<status, runs, report>> /\ gp[p] = "persist"
        BY <1>5 DEF Persist, Goto, G!Cancel, gvars, out
    <2>2. ASSUME NEW k \in Actions, cache'[k] = "partial" PROVE status[k] = "err"
        <3>1. cache[k] = "partial" \/ (k \in ActionsOf(p) /\ k \in pass /\ err[k] # "none")
            BY <1>5, <2>2 DEF Persist
        <3>2. CASE k \in ActionsOf(p) /\ k \in pass /\ err[k] # "none"
            <4>1. status[k] # "pending" /\ status[k] # "ok"
                BY <1>0, <3>2 DEF ActionInv, Called
            <4>2. status[k] # "running"
                BY <1>0, <2>1, <3>2 DEF PlaceInv, ActionsOf
            <4> QED
                BY <1>0, <4>1, <4>2 DEF ActionType
        <3> QED
            BY <3>1, <3>2 DEF FailInv
    <2> QED
        BY <2>1, <2>2 DEF FailInv
<1>6. CASE Extract
    <2>1. UNCHANGED <<status, cache, runs>>
        BY <1>6 DEF Extract, gvars
    <2>2. ASSUME report' = "diagnostics", NEW k \in Actions, status[k] = "err" PROVE FALSE
        <3>1. k \in Extracted /\ err[k] # "none"
            BY <1>0, <2>2, FailuresExtracted DEF ActionInv
        <3> QED
            BY <1>6, <2>2, <3>1 DEF Extract
    <2> QED
        BY <2>1, <2>2 DEF FailInv
<1>7. ~Again
    BY DEF Again, FailInv
<1>8. CASE Finished \/ UNCHANGED vars
    <2>1. UNCHANGED <<status, cache, runs, report>>
        BY <1>8 DEF Finished, vars, gvars, out
    <2> QED
        BY <2>1 DEF FailInv
<1> QED
    BY <1>1, <1>2, <1>3, <1>4, <1>5, <1>6, <1>7, <1>8 DEF Next, Goroutine, Loads

\* A first run that reports no error leaves no facts of a failed analyzer behind
\* for the next; package_analysis_repeated shows that a second run may.
THEOREM FirstRunErrorsShow ==
    ASSUME MaxRuns = 1
    PROVE  Spec => []ErrorsShowOnRepeatedRuns
<1>1. Init => FailInv
    <2> SUFFICES ASSUME Init PROVE FailInv
        OBVIOUS
    <2>1. \A k \in Actions : cache[k] # "partial"
        BY DEF Init
    <2> QED
        BY <2>1 DEF Init, FailInv
<1>2. IInv /\ FailInv /\ [Next]_vars => FailInv'
    BY FailStep
<1>3. FailInv => ErrorsShowOnRepeatedRuns
    BY DEF FailInv, ErrorsShowOnRepeatedRuns
<1> QED
    BY <1>1, <1>2, <1>3, Inductive, PTL DEF Spec
-----------------------------------------------------------------------------
(***************************************************************************)
(* The cache of issues.  What runAnalyzers takes from it is what an        *)
(* analysis would find now, for any packages, imports and history: the key *)
(* tells apart whatever the issues depend on.                              *)
(***************************************************************************)

\* What the key of a package is made from, for sources `src` and settings `st`.
Imported(p) == ImportsOf[p] \ {"unsafe"}
RelativeFile(p) == IF p \in Outside THEN <<"elsewhere", p>> ELSE <<"relative", p>>
SourceHash(src, p) == IF p \in External THEN <<"buildid", src[p]>> ELSE <<"file", RelativeFile(p), src[p]>>
SelfHash(src, st, p) == <<st, p, SourceHash(src, p)>>

\* `h` holds the hashes of all packages in the mode HashModeNeedAllDeps.
IsHash(h, src, st) ==
    h = [p \in AllPackages |->
            <<SelfHash(src, st, p), {<<i, SelfHash(src, st, i)>> : i \in Imported(p)}, {<<i, h[i]>> : i \in Imported(p)}>>]

\* What is stored under a key was found in sources with that key.
Entry(key) ==
    \E p \in Linted, src \in [AllPackages -> Versions] : \E st, an, h :
        /\ key = <<st, p, h[p], an>> /\ IsHash(h, src, st)
        /\ stored[key] = [of |-> [q \in Closure(p) |-> src[q]], setup |-> st, by |-> an, file |-> RelativeFile(p)]
        /\ \A q \in Closure(p) : src[q] # "bad"

\* A process that has read the cache holds fresh issues only.
CacheInv ==
    /\ sources \in [AllPackages -> Versions] /\ home \in {"here", "there"}
    /\ \A key \in DOMAIN stored : Entry(key)
    /\ cachePc = "analyze" =>
          \E D \in SUBSET (Linted \ IllTyped) : found = [p \in D |-> FreshIssues(p)]
    /\ cachePc = "save" => unsaved \subseteq DOMAIN found
    /\ CachedIssuesAreFresh
-----------------------------------------------------------------------------
USE CacheAssumption

\* The closure of a package is the least closed set with it.
LEMMA ClosureFacts ==
    ASSUME NEW p \in AllPackages
    PROVE  /\ Closure(p) \subseteq AllPackages /\ p \in Closure(p)
           /\ \A X : p \in X /\ (\A q \in X \cap AllPackages : Imported(q) \subseteq X) => Closure(p) \subseteq X
<1>1. PICK next : next = [q \in AllPackages |-> ImportsOf[q] \cap AllPackages]
    OBVIOUS
<1>2. next \in [AllPackages -> SUBSET AllPackages] /\ \A q \in AllPackages : next[q] = Imported(q)
    BY <1>1 DEF Imported
<1>3. PICK start \in SUBSET AllPackages : start = {p}
    OBVIOUS
<1>4. PICK A : A = AllPackages /\ IsFiniteSet(A)
    OBVIOUS
<1>5. /\ Reachable(start, next) \in SUBSET A
      /\ start \subseteq Reachable(start, next)
      /\ \A X : start \subseteq X /\ (\A x \in X \cap A : next[x] \subseteq X) => Reachable(start, next) \subseteq X
    BY <1>2, <1>4, ReachableClosed
<1>6. Closure(p) = Reachable(start, next)
    BY <1>1, <1>3 DEF Closure
<1>7. ASSUME NEW X, p \in X, \A q \in X \cap AllPackages : Imported(q) \subseteq X PROVE Closure(p) \subseteq X
    <2>1. start \subseteq X /\ \A x \in X \cap A : next[x] \subseteq X
        BY <1>2, <1>3, <1>4, <1>7
    <2> QED
        BY <1>5, <1>6, <2>1
<1>8. Closure(p) \subseteq AllPackages /\ p \in Closure(p)
    BY <1>3, <1>4, <1>5, <1>6
<1> QED
    BY <1>7, <1>8

\* The hash of all dependencies is defined, since imports form no cycle.
LEMMA HashExists ==
    ASSUME NEW src, NEW st
    PROVE  \E h : IsHash(h, src, st)
<1> DEFINE Parts(g, p) == <<SelfHash(src, st, p), {<<i, SelfHash(src, st, i)>> : i \in Imported(p)}, {<<i, g[i]>> : i \in Imported(p)}>>
           Good(D) == /\ D \subseteq AllPackages /\ \A p \in D : Imported(p) \subseteq D
                      /\ \E g : g = [p \in D |-> g[p]] /\ \A p \in D : g[p] = Parts(g, p)
           Sizes == {n \in Nat : \E D : Good(D) /\ n = Cardinality(AllPackages \ D)}
<1>1. \A D : IsFiniteSet(AllPackages \ D) /\ Cardinality(AllPackages \ D) \in Nat
    BY FS_Subset, FS_CardinalityType
<1>2. Good({})
    <2>1. \E g : g = [p \in {} |-> g[p]]
        <3>1. PICK g : g = [p \in {} |-> p]
            OBVIOUS
        <3>2. g = [p \in {} |-> g[p]]
            BY <3>1
        <3> QED
            BY <3>2
    <2> QED
        BY <2>1
<1>3. Sizes \in SUBSET Nat /\ Sizes # {}
    <2> HIDE DEF Good
    <2>1. Cardinality(AllPackages \ {}) \in Sizes
        BY <1>1, <1>2
    <2> QED
        BY <2>1
<1>4. PICK n \in Sizes : \A k \in Sizes : n <= k
    <2> HIDE DEF Sizes
    <2> QED
        BY <1>3, LeastNatural
<1>5. PICK D : Good(D) /\ n = Cardinality(AllPackages \ D)
    OBVIOUS
<1>6. ASSUME NEW x \in AllPackages \ D, Imported(x) \subseteq D PROVE FALSE
    <2>1. PICK E : E = D \cup {x}
        OBVIOUS
    <2>2. PICK g : g = [p \in D |-> g[p]] /\ \A p \in D : g[p] = Parts(g, p)
        BY <1>5
    <2>3. PICK v : v = Parts(g, x)
        OBVIOUS
    <2>4. PICK h : h = [p \in E |-> IF p = x THEN v ELSE g[p]]
        OBVIOUS
    <2>5. h = [p \in E |-> h[p]] /\ h[x] = v /\ \A p \in D : h[p] = g[p]
        BY <1>6, <2>1, <2>4
    <2>6. ASSUME NEW p \in E PROVE h[p] = Parts(h, p)
        <3>1. Imported(p) \subseteq D
            BY <1>5, <1>6, <2>1, <2>6
        <3>2. {<<i, h[i]>> : i \in Imported(p)} = {<<i, g[i]>> : i \in Imported(p)}
            BY <2>5, <3>1
        <3>3. CASE p = x
            BY <2>3, <2>5, <3>2, <3>3
        <3>4. CASE p \in D
            BY <2>2, <2>5, <3>2, <3>4
        <3> QED
            BY <2>1, <2>6, <3>3, <3>4
    <2>7. E \subseteq AllPackages /\ \A p \in E : Imported(p) \subseteq E
        BY <1>5, <1>6, <2>1
    <2> HIDE DEF Parts
    <2>8. Good(E)
        BY <2>5, <2>6, <2>7
    <2> HIDE DEF Good
    <2>9. AllPackages \ E = (AllPackages \ D) \ {x}
        BY <2>1
    <2>10. Cardinality(AllPackages \ E) = Cardinality(AllPackages \ D) - 1
        <3>1. PICK T : T = AllPackages \ D
            OBVIOUS
        <3>2. IsFiniteSet(T) /\ x \in T
            BY <1>6, <3>1, SubsetSize
        <3>3. Cardinality(T \ {x}) = Cardinality(T) - 1
            BY ONLY <3>2, FS_RemoveElement
        <3> QED
            BY <2>9, <3>1, <3>3
    <2>11. Cardinality(AllPackages \ E) \in Sizes
        BY <1>1, <2>8
    <2>12. n <= Cardinality(AllPackages \ E) /\ n \in Nat
        BY <1>4, <2>11
    <2> HIDE DEF Sizes
    <2> QED
        BY <1>5, <2>10, <2>12
<1>7. D = AllPackages
    <2> SUFFICES ASSUME D # AllPackages PROVE FALSE
        OBVIOUS
    <2>1. PICK next : next = [p \in AllPackages |-> ImportsOf[p] \ {"unsafe"}]
        OBVIOUS
    <2>2. AllPackages \ D \in SUBSET DOMAIN next /\ AllPackages \ D # {}
        BY <1>5, <2>1
    <2>3. PICK x \in AllPackages \ D : next[x] \cap (AllPackages \ D) = {}
        BY <2>1, <2>2 DEF Acyclic
    <2>4. Imported(x) \subseteq D
        BY <2>1, <2>3 DEF Imported
    <2> QED
        BY <1>6, <2>4
<1>8. PICK g : g = [p \in AllPackages |-> g[p]] /\ \A p \in AllPackages : g[p] = Parts(g, p)
    BY <1>5, <1>7
<1> HIDE DEF Parts
<1>9. g = [p \in AllPackages |-> Parts(g, p)]
    BY <1>8
<1> QED
    BY <1>9 DEF IsHash, Parts

\* Equal hashes come from equal sources, of the package and of everything below.
LEMMA HashTellsApart ==
    ASSUME NEW h, NEW g, NEW src, NEW other, NEW st,
           IsHash(h, src, st), IsHash(g, other, st)
    PROVE  \A p \in AllPackages : h[p] = g[p] => \A q \in Closure(p) : src[q] = other[q]
<1> SUFFICES ASSUME NEW p \in AllPackages, h[p] = g[p] PROVE \A q \in Closure(p) : src[q] = other[q]
    OBVIOUS
<1>1. PICK X : X = {q \in AllPackages : h[q] = g[q]}
    OBVIOUS
<1>2. \A q \in AllPackages :
        /\ h[q] = <<SelfHash(src, st, q), {<<i, SelfHash(src, st, i)>> : i \in Imported(q)}, {<<i, h[i]>> : i \in Imported(q)}>>
        /\ g[q] = <<SelfHash(other, st, q), {<<i, SelfHash(other, st, i)>> : i \in Imported(q)}, {<<i, g[i]>> : i \in Imported(q)}>>
    BY DEF IsHash
<1>3. ASSUME NEW q \in X
      PROVE  SelfHash(src, st, q) = SelfHash(other, st, q) /\ {<<i, h[i]>> : i \in Imported(q)} = {<<i, g[i]>> : i \in Imported(q)}
    <2>1. q \in AllPackages /\ h[q] = g[q]
        BY <1>1
    <2> QED
        BY <1>2, <2>1
<1>4. ASSUME NEW q \in X, NEW i \in Imported(q) PROVE i \in X
    <2>1. <<i, h[i]>> \in {<<j, g[j]>> : j \in Imported(q)}
        <3>1. <<i, h[i]>> \in {<<j, h[j]>> : j \in Imported(q)}
            OBVIOUS
        <3>2. {<<j, h[j]>> : j \in Imported(q)} = {<<j, g[j]>> : j \in Imported(q)}
            BY <1>3
        <3> QED
            BY <3>1, <3>2
    <2>2. PICK j \in Imported(q) : <<i, h[i]>> = <<j, g[j]>>
        BY <2>1
    <2>3. h[i] = g[i]
        BY <2>2
    <2>4. i \in AllPackages
        BY <1>1 DEF Imported
    <2> QED
        BY <1>1, <2>3, <2>4
<1>5. Closure(p) \subseteq X
    BY <1>1, <1>4, ClosureFacts
<1>6. ASSUME NEW q \in X PROVE src[q] = other[q]
    <2>1. SourceHash(src, q) = SourceHash(other, q)
        BY <1>3 DEF SelfHash
    <2> QED
        BY <2>1 DEF SourceHash
<1> QED
    BY <1>5, <1>6

\* In a reachable state the key has the form that Entry speaks of.
LEMMA KeyForm ==
    ASSUME CacheInv
    PROVE  \E h : IsHash(h, sources, setup) /\ \A p \in Linted : IssuesKey(p) = <<setup, p, h[p], analyzers>>
<1>1. \A p \in AllPackages : ToRelativePath(p, FileOf(p)) = RelativeFile(p)
    BY DEF CacheInv, ToRelativePath, FileOf, RelativeFile
<1>2. \A p \in AllPackages : OnlySelf(p) = SelfHash(sources, setup, p)
    BY <1>1 DEF OnlySelf, HashSalt, HashSources, SelfHash, SourceHash
<1> DEFINE Good(H) == H = [q \in AllPackages |->
                <<OnlySelf(q), {<<i, OnlySelf(i)>> : i \in ImportsOf[q] \ {"unsafe"}}, {<<i, H[i]>> : i \in ImportsOf[q] \ {"unsafe"}}>>]
<1>3. \A H : Good(H) <=> IsHash(H, sources, setup)
    <2> SUFFICES ASSUME NEW H PROVE Good(H) <=> IsHash(H, sources, setup)
        OBVIOUS
    <2>1. \A q \in AllPackages : Imported(q) \subseteq AllPackages /\ Imported(q) = ImportsOf[q] \ {"unsafe"}
        BY DEF Imported
    <2>2. \A q \in AllPackages : {<<i, OnlySelf(i)>> : i \in Imported(q)} = {<<i, SelfHash(sources, setup, i)>> : i \in Imported(q)}
        BY <1>2, <2>1
    <2> QED
        BY <1>2, <2>1, <2>2 DEF IsHash
<1>4. \E H : Good(H)
    BY <1>3, HashExists
<1>5. PICK h : h = CHOOSE H : Good(H)
    OBVIOUS
<1>6. Good(h)
    <2> HIDE DEF Good
    <2>1. Good(CHOOSE H : Good(H))
        BY <1>4
    <2> QED
        BY <1>5, <2>1
<1>7. \A p : AllDeps(p) = h[p]
    BY <1>5 DEF AllDeps
<1>8. \A p \in Linted : IssuesKey(p) = <<setup, p, h[p], analyzers>>
    BY <1>7 DEF IssuesKey, HashSalt
<1> QED
    BY <1>3, <1>6, <1>8

\* A hit is what an analysis would find, and the package compiles.
LEMMA HitIsFresh ==
    ASSUME CacheInv, NEW p \in Linted, IssuesKey(p) \in DOMAIN stored
    PROVE  /\ [stored[IssuesKey(p)] EXCEPT !.file = ToAbsolutePath(@)] = FreshIssues(p)
           /\ p \notin IllTyped
<1>1. PICK h : IsHash(h, sources, setup) /\ IssuesKey(p) = <<setup, p, h[p], analyzers>>
    BY KeyForm
<1>2. PICK key : key = IssuesKey(p) /\ key \in DOMAIN stored
    OBVIOUS
<1>3. PICK q \in Linted, src \in [AllPackages -> Versions] : \E st, an, g :
        /\ key = <<st, q, g[q], an>> /\ IsHash(g, src, st)
        /\ stored[key] = [of |-> [r \in Closure(q) |-> src[r]], setup |-> st, by |-> an, file |-> RelativeFile(q)]
        /\ \A r \in Closure(q) : src[r] # "bad"
    BY <1>2 DEF CacheInv, Entry
<1>4. PICK st, an, g :
        /\ key = <<st, q, g[q], an>> /\ IsHash(g, src, st)
        /\ stored[key] = [of |-> [r \in Closure(q) |-> src[r]], setup |-> st, by |-> an, file |-> RelativeFile(q)]
        /\ \A r \in Closure(q) : src[r] # "bad"
    BY <1>3
<1>5. st = setup /\ q = p /\ g[q] = h[p] /\ an = analyzers
    BY <1>1, <1>2, <1>4
<1>6. p \in AllPackages
    BY DEF AllPackages
<1>7. \A r \in Closure(p) : sources[r] = src[r]
    <2>1. PICK now, cur : now = sources /\ cur = setup
        OBVIOUS
    <2>2. IsHash(h, now, cur)
        BY <1>1, <2>1
    <2>3. IsHash(g, src, cur) /\ h[p] = g[p]
        BY <1>4, <1>5, <2>1
    <2>4. \A r \in Closure(p) : now[r] = src[r]
        <3>1. IsHash(g, src, cur)
            BY <2>3
        <3>2. h[p] = g[p]
            BY <2>3
        <3> QED
            BY <1>6, <2>2, <3>1, <3>2, HashTellsApart
    <2> QED
        BY <2>1, <2>4
<1>8. [r \in Closure(p) |-> src[r]] = [r \in Closure(p) |-> sources[r]]
    BY <1>7
<1>9. stored[key] = [of |-> [r \in Closure(p) |-> sources[r]], setup |-> setup, by |-> analyzers, file |-> RelativeFile(p)]
    BY <1>4, <1>5, <1>8
<1>10. ToAbsolutePath(RelativeFile(p)) = FileOf(p)
    BY DEF ToAbsolutePath, RelativeFile, FileOf
<1>11. [stored[key] EXCEPT !.file = ToAbsolutePath(@)] = FreshIssues(p)
    BY <1>9, <1>10 DEF FreshIssues
<1>12. p \notin IllTyped
    BY <1>4, <1>5, <1>7 DEF IllTyped
<1> QED
    BY <1>2, <1>11, <1>12

\* What is saved is stored under the key of the sources it was found in.
LEMMA SavedEntry ==
    ASSUME CacheInv, NEW p \in Linted, SaveIssuesToCache(p)
    PROVE  \A key \in DOMAIN stored' : Entry(key)'
<1>1. PICK h : IsHash(h, sources, setup) /\ IssuesKey(p) = <<setup, p, h[p], analyzers>>
    BY KeyForm
<1>2. PICK new : new = IssuesKey(p)
    OBVIOUS
<1>3. stored' = [k \in DOMAIN stored \cup {new} |->
                    IF k = new THEN [found[p] EXCEPT !.file = ToRelativePath(p, @)] ELSE stored[k]]
    BY <1>2 DEF SaveIssuesToCache
<1>4. DOMAIN stored' = DOMAIN stored \cup {new} /\ \A k \in DOMAIN stored : k # new => stored'[k] = stored[k]
    BY <1>3
<1>5. found[p] = FreshIssues(p) /\ p \notin IllTyped
    BY DEF SaveIssuesToCache, CacheInv, CachedIssuesAreFresh
<1>6. ToRelativePath(p, FileOf(p)) = RelativeFile(p)
    BY DEF CacheInv, ToRelativePath, FileOf, RelativeFile
<1>7. stored'[new] = [of |-> [q \in Closure(p) |-> sources[q]], setup |-> setup, by |-> analyzers, file |-> RelativeFile(p)]
    BY <1>3, <1>5, <1>6 DEF FreshIssues
<1>8. \A q \in Closure(p) : sources[q] # "bad"
    BY <1>5 DEF IllTyped
<1>9. ASSUME NEW key \in DOMAIN stored' PROVE Entry(key)'
    <2>1. CASE key = new
        <3>1. sources \in [AllPackages -> Versions]
            BY DEF CacheInv
        <3> QED
            BY <1>1, <1>2, <1>7, <1>8, <2>1, <3>1 DEF Entry
    <2>2. CASE key # new
        <3>1. key \in DOMAIN stored /\ stored'[key] = stored[key] /\ Entry(key)
            BY <1>4, <1>9, <2>2 DEF CacheInv
        <3> QED
            BY <3>1 DEF Entry
    <2> QED
        BY <2>1, <2>2
<1> QED
    BY <1>9

\* Every step keeps the invariant.
LEMMA CacheStep ==
    ASSUME CacheInv, [CacheNext]_cacheVars
    PROVE  CacheInv'
<1> DEFINE Same == UNCHANGED <<sources, home, setup, analyzers>>
<1>0. ASSUME Same PROVE IllTyped' = IllTyped /\ \A p : FreshIssues(p)' = FreshIssues(p)
    BY <1>0 DEF IllTyped, FreshIssues, FileOf
<1>1. ASSUME UNCHANGED stored PROVE \A key \in DOMAIN stored' : Entry(key)'
    <2> SUFFICES ASSUME NEW key \in DOMAIN stored' PROVE Entry(key)'
        OBVIOUS
    <2>1. Entry(key) /\ stored'[key] = stored[key]
        BY <1>1 DEF CacheInv
    <2> QED
        BY <2>1 DEF Entry
<1>2. IllTyped \subseteq Linted
    BY DEF IllTyped
<1>3. CASE LoadIssuesFromCache
    <2>1. Same /\ UNCHANGED stored /\ cachePc' = "analyze"
        BY <1>3 DEF LoadIssuesFromCache, workspace
    <2>2. PICK D : D = {q \in Linted : IssuesKey(q) \in DOMAIN stored}
        OBVIOUS
    <2>3. found' = [p \in D |-> [stored[IssuesKey(p)] EXCEPT !.file = ToAbsolutePath(@)]]
        BY <1>3, <2>2 DEF LoadIssuesFromCache
    <2>4. \A p \in D : [stored[IssuesKey(p)] EXCEPT !.file = ToAbsolutePath(@)] = FreshIssues(p) /\ p \in Linted \ IllTyped
        BY <2>2, HitIsFresh
    <2>5. found' = [p \in D |-> FreshIssues(p)]
        BY <2>3, <2>4
    <2>6. D \in SUBSET (Linted \ IllTyped')
        BY <1>0, <2>1, <2>4
    <2>7. found' = [p \in D |-> FreshIssues(p)']
        BY <1>0, <2>1, <2>5
    <2> QED
        BY <1>1, <2>1, <2>6, <2>7 DEF CacheInv, CachedIssuesAreFresh
<1>4. CASE RunAnalyzers
    <2>1. Same /\ UNCHANGED stored /\ cachePc = "analyze" /\ cachePc' = "save"
        BY <1>4 DEF RunAnalyzers, workspace
    <2>2. PICK D \in SUBSET (Linted \ IllTyped) : found = [p \in D |-> FreshIssues(p)]
        BY <2>1 DEF CacheInv
    <2>3. DOMAIN found = D
        BY <2>2
    <2>4. PICK done \in SUBSET ((Linted \ D) \ IllTyped) :
            /\ errs' = {} => done = Linted \ D
            /\ found' = [p \in D \cup done |-> IF p \in done THEN FreshIssues(p) ELSE found[p]]
        BY <1>4, <2>3 DEF RunAnalyzers
    <2>5. errs' \subseteq IllTyped /\ unsaved' = IF errs' = {} THEN Linted \ D ELSE {}
        BY <1>4, <2>3 DEF RunAnalyzers
    <2>6. \A p \in D \cup done : (IF p \in done THEN FreshIssues(p) ELSE found[p]) = FreshIssues(p)
        BY <2>2
    <2>7. found' = [p \in D \cup done |-> FreshIssues(p)]
        BY <2>4, <2>6
    <2>8. found' = [p \in D \cup done |-> FreshIssues(p)'] /\ DOMAIN found' = D \cup done
        BY <1>0, <2>1, <2>7
    <2>9. /\ D \cup done \subseteq Linted \ IllTyped' /\ errs' \subseteq IllTyped'
          /\ errs' = {} => D \cup done = Linted
        BY <1>0, <2>1, <2>4, <2>5
    <2>10. unsaved' \subseteq D \cup done
        BY <2>5, <2>9
    <2>11. CachedIssuesAreFresh'
        BY <2>8, <2>9 DEF CachedIssuesAreFresh
    <2> QED
        BY <1>1, <2>1, <2>8, <2>10, <2>11 DEF CacheInv
<1>5. ASSUME NEW p \in Linted, SaveIssuesToCache(p) \/ SaveFails(p) PROVE CacheInv'
    <2>1. Same /\ UNCHANGED <<found, errs, cachePc>> /\ cachePc = "save" /\ unsaved' \subseteq unsaved
        BY <1>5 DEF SaveIssuesToCache, SaveFails, workspace
    <2>2. \A key \in DOMAIN stored' : Entry(key)'
        <3>1. CASE SaveIssuesToCache(p)
            BY <3>1, SavedEntry
        <3>2. CASE SaveFails(p)
            BY <1>1, <3>2 DEF SaveFails
        <3> QED
            BY <1>5, <3>1, <3>2
    <2>3. CachedIssuesAreFresh'
        BY <1>0, <2>1 DEF CacheInv, CachedIssuesAreFresh
    <2> QED
        BY <2>1, <2>2, <2>3 DEF CacheInv
<1>6. CASE AnalysisFails \/ ReturnIssues \/ KilledWhileSaving
    <2>1. Same /\ UNCHANGED stored /\ cachePc' = "idle"
        BY <1>6 DEF AnalysisFails, ReturnIssues, KilledWhileSaving, workspace
    <2> QED
        BY <1>1, <2>1 DEF CacheInv, CachedIssuesAreFresh
<1>7. CASE ChangeSomething
    <2>1. UNCHANGED stored /\ cachePc' = "idle"
        BY <1>7 DEF ChangeSomething
    <2>2. sources' \in [AllPackages -> Versions] /\ home' \in {"here", "there"}
        BY <1>7 DEF ChangeSomething, CacheInv
    <2> QED
        BY <1>1, <2>1, <2>2 DEF CacheInv, CachedIssuesAreFresh
<1>8. CASE UNCHANGED cacheVars
    <2>1. Same /\ UNCHANGED <<stored, cachePc, found, errs, unsaved>>
        BY <1>8 DEF cacheVars, workspace, pending
    <2>2. CachedIssuesAreFresh'
        BY <1>0, <2>1 DEF CacheInv, CachedIssuesAreFresh
    <2>3. cachePc' = "analyze" => \E D \in SUBSET (Linted \ IllTyped') : found' = [p \in D |-> FreshIssues(p)']
        BY <1>0, <2>1 DEF CacheInv
    <2> QED
        BY <1>1, <2>1, <2>2, <2>3 DEF CacheInv
<1> QED
    BY <1>3, <1>4, <1>5, <1>6, <1>7, <1>8 DEF CacheNext

\* Whatever was changed, moved, changed back, killed or failed before, a run
\* answers as one without a cache would, for any packages, contents and number
\* of runs.
THEOREM IssuesFresh == CacheSpec => []CachedIssuesAreFresh
<1>1. CacheInit => CacheInv
    BY DEF CacheInit, CacheStart, CacheInv, CachedIssuesAreFresh
<1>2. CacheInv /\ [CacheNext]_cacheVars => CacheInv'
    BY CacheStep
<1>3. CacheInv => CachedIssuesAreFresh
    BY DEF CacheInv
<1> QED
    BY <1>1, <1>2, <1>3, PTL DEF CacheSpec
=============================================================================
