--------------------------- MODULE LinterCatalog ---------------------------
(***************************************************************************)
(* The linters database, pkg/lint/lintersdb, over the catalog of linters   *)
(* that LinterBuilder.Build declares.  Of a linter the model keeps its     *)
(* name and the options of its declaration that decide when it runs:       *)
(*   "analysis"  WithLoadForGoAnalysis     "slow"  ConsiderSlow            *)
(*   "standard"  WithGroups(GroupStandard) "fix"   WithAutoFix             *)
(*   "types"     WithChangeTypes           "warn"  DeprecatedWarning       *)
(*   "go122"     WithNoopFallback for old versions of Go                   *)
(*   "internal"  WithInternal: typecheck                                   *)
(* No linter of the catalog has an alternative name or is deprecated       *)
(* beyond a warning, so a name stands for one linter.                      *)
(***************************************************************************)
EXTENDS Naturals, FiniteSets

\* The linters called names, each declared with the options opts.
With(opts, names) == {[name |-> n, opts |-> opts] : n \in names}

Build1 == \* arangolint to funcorder
    With({"analysis"}, {"arangolint", "asasalint", "bodyclose",
           "clickhouselint", "containedctx", "contextcheck", "durationcheck",
           "errchkjson", "errname", "exhaustive", "exhaustruct_v5",
           "forbidigo", "forcetypeassert"})
    \cup With({}, {"asciicheck", "bidichk", "cyclop", "decorder", "depguard",
           "dogsled", "dupl", "embeddedstructfieldcheck", "funcorder"})
    \cup With({"analysis", "fix"}, {"canonicalheader", "errorlint",
           "exptostd"})
    \cup With({"fix", "go122"}, {"copyloopvar"})
    \cup With({"fix"}, {"dupword"})
    \cup With({"analysis", "standard"}, {"errcheck"})
    \cup With({"analysis", "warn"}, {"exhaustruct"})

Build2 == \* fatcontext to grouper
    With({"analysis", "fix"}, {"fatcontext", "ginkgolinter", "gocritic",
           "err113", "modernize"})
    \cup With({}, {"funlen", "gocheckcompilerdirectives", "gochecknoinits",
           "gocognit", "gocyclo", "godoclint", "godox", "mnd",
           "gomoddirectives", "gomodguard_v2", "goprintffuncname", "grouper"})
    \cup With({"fix"}, {"gci", "godot", "gofmt", "gofumpt", "golines",
           "goheader", "goimports"})
    \cup With({"analysis"}, {"gochecknoglobals", "gochecksumtype", "goconst",
           "gosec", "gosmopolitan"})
    \cup With({"warn"}, {"gomodguard"})
    \cup With({"analysis", "fix", "standard"}, {"govet"})

Build3 == \* iface to promlinter
    With({"analysis", "fix"}, {"iface", "importas", "mirror", "noinlineerr",
           "perfsprint"})
    \cup With({}, {"inamedparam", "interfacebloat", "iotamixing", "lll",
           "maintidx", "nestif", "nosprintfhostport", "predeclared",
           "promlinter"})
    \cup With({"standard"}, {"ineffassign"})
    \cup With({"analysis", "fix", "go122"}, {"intrange"})
    \cup With({"analysis"}, {"ireturn", "loggercheck", "makezero", "musttag",
           "nilerr", "nilnesserr", "nilnil", "noctx", "nonamedreturns",
           "paralleltest", "prealloc"})
    \cup With({"fix"}, {"misspell", "nakedret", "nlreturn"})

Build4 == \* protogetter to wrapcheck
    With({"analysis", "fix"}, {"protogetter", "sloglint", "testifylint",
           "usetesting"})
    \cup With({"analysis"}, {"reassign", "recvcheck", "rowserrcheck",
           "sqlclosecheck", "spancheck", "tagliatelle", "thelper",
           "tparallel", "unconvert", "unparam", "varnamelen", "wastedassign",
           "wrapcheck"})
    \cup With({"fix", "slow"}, {"revive"})
    \cup With({"analysis", "fix", "standard"}, {"staticcheck"})
    \cup With({"fix"}, {"swaggo", "tagalign", "usestdlibvars", "whitespace"})
    \cup With({}, {"testableexamples", "testpackage", "unqueryvet"})
    \cup With({"internal"}, {"typecheck"})
    \cup With({"analysis", "slow", "standard", "types"}, {"unused"})

Build5 == \* wsl to nolintlint
    With({"fix", "warn"}, {"wsl"})
    \cup With({"analysis", "fix"}, {"wsl_v5"})
    \cup With({"analysis"}, {"zerologlint"})
    \cup With({"fix"}, {"nolintlint"})

Catalog == Build1 \cup Build2 \cup Build3 \cup Build4 \cup Build5

\* A linter of a plugin is in the standard group; whether it loads types is
\* up to the plugin.
PluginLinter(name, loadsTypes) ==
    [name |-> name, opts |-> {"standard"} \cup (IF loadsTypes THEN {"analysis"} ELSE {})]

Formatters == {"gci", "gofmt", "gofumpt", "goimports", "golines", "swaggo"}

NamesOf(lcs) == {lc.name : lc \in lcs}

IsSlowLinter(lc) == lc.opts \cap {"analysis", "slow"} # {}

FromGroup(lc) == "standard" \in lc.opts

\* linterConfigsToMap: a group never selects a formatter.
Selected(lcs) == {lc \in lcs : lc.name \notin Formatters}

\* Any other name of a group is an error.
KnownGroup(group) == group \in {"none", "all", "fast", "", "standard"}

GroupLinters(known, group) ==
    CASE group = "none" -> {}
      [] group = "all" -> Selected(known)
      [] group = "fast" -> Selected({lc \in known : ~IsSlowLinter(lc)})
      [] group \in {"", "standard"} -> Selected({lc \in known : FromGroup(lc)})

\* validateLintersNames: every enabled or disabled name is known.
NamesAreKnown(known, linters) == linters.enable \cup linters.disable \subseteq NamesOf(known)

\* build: the group, then enable and the formatters, then disable, then
\* fast-only; typecheck is always there.
BuildLinters(known, linters, formatters) ==
    LET enabled == linters.enable \cup formatters
        chosen == GroupLinters(known, linters.group) \cup {lc \in known : lc.name \in enabled}
        kept == {lc \in chosen : lc.name \notin linters.disable}
        fast == {lc \in kept : linters.fastOnly => ~IsSlowLinter(lc)}
    IN fast \cup {lc \in known : lc.name = "typecheck"}

\* WithNoopFallback: with an old Go the linter only logs why it does nothing.
Noop(lc, oldGo) == oldGo /\ "go122" \in lc.opts

\* combineGoAnalysisLinters: what the runner gets to run.  No linter of the
\* catalog wants the whole program, so all that are not noops become one.
OptimizedLinters(lcs, oldGo) ==
    LET combined == {lc \in lcs : ~Noop(lc, oldGo)}
        rest == {{lc.name} : lc \in lcs \ combined}
    IN IF Cardinality(combined) <= 1 THEN {{lc.name} : lc \in lcs}
       ELSE rest \cup {NamesOf(combined)}
=============================================================================
