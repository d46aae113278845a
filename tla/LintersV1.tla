------------------------------ MODULE LintersV1 ------------------------------
(***************************************************************************)
(* The names of linters in the migration of a version 1 configuration,     *)
(* migrate_linter_names.go: allLinters lists the linters of version 1 with *)
(* their presets, and the filters compute from a version 1 selection the   *)
(* names that version 2 must enable and disable.  The order of the names   *)
(* and their repetition are left out: all lists pass through Unique.       *)
(***************************************************************************)
EXTENDS FiniteSets

LinterInfo(name, presets, slow, default, alts) ==
    [name |-> name, presets |-> presets, slow |-> slow, default |-> default, alts |-> alts]

Slow(presets, names) == {LinterInfo(n, presets, TRUE, FALSE, {}) : n \in names}

Fast(presets, names) == {LinterInfo(n, presets, FALSE, FALSE, {}) : n \in names}

AllLinters1 == \* asasalint to gochecksumtype
    Slow({"bugs"}, {"asasalint", "contextcheck", "durationcheck",
           "errchkjson", "exhaustive", "gochecksumtype"})
    \cup Fast({"bugs", "style"}, {"asciicheck"})
    \cup Fast({"bugs"}, {"bidichk", "gocheckcompilerdirectives"})
    \cup Slow({"bugs", "performance"}, {"bodyclose"})
    \cup Slow({"style"}, {"canonicalheader", "containedctx", "errname",
           "exptostd", "forbidigo", "forcetypeassert", "ginkgolinter",
           "gochecknoglobals"})
    \cup Fast({"style"}, {"copyloopvar", "decorder", "dogsled", "dupl",
           "gochecknoinits"})
    \cup Fast({"complexity"}, {"cyclop", "funlen"})
    \cup Fast({"import", "module", "style"}, {"depguard"})
    \cup Fast({"comment"}, {"dupword"})
    \cup Slow({"bugs", "error"}, {"errorlint"})
    \cup Slow({"style", "test"}, {"exhaustruct"})
    \cup Slow({"performance"}, {"fatcontext"})
    \cup Fast({"format", "import"}, {"gci"})
    \cup {LinterInfo("errcheck", {"bugs", "error"}, TRUE, TRUE, {})}

AllLinters2 == \* gocognit to mirror
    Fast({"complexity"}, {"gocognit", "gocyclo", "maintidx"})
    \cup Fast({"style"}, {"goconst", "goheader", "goprintffuncname",
           "grouper", "inamedparam", "interfacebloat", "lll"})
    \cup Slow({"metalinter", "style"}, {"gocritic"})
    \cup Fast({"comment", "style"}, {"godot", "godox"})
    \cup Fast({"format"}, {"gofmt", "gofumpt"})
    \cup Fast({"format", "import"}, {"goimports"})
    \cup Fast({"module", "style"}, {"gomoddirectives"})
    \cup Fast({"import", "module", "style"}, {"gomodguard"})
    \cup Slow({"bugs"}, {"gosmopolitan"})
    \cup Slow({"style"}, {"iface", "importas", "intrange", "ireturn",
           "mirror"})
    \cup Slow({"bugs", "style"}, {"makezero"})
    \cup {LinterInfo("err113", {"style", "error"}, TRUE, FALSE, {"goerr113"}),
          LinterInfo("mnd", {"style"}, FALSE, FALSE, {"gomnd"}),
          LinterInfo("gosec", {"bugs"}, TRUE, FALSE, {"gas"}),
          LinterInfo("gosimple", {"style"}, TRUE, TRUE, {"megacheck"}),
          LinterInfo("govet", {"bugs", "metalinter"}, TRUE, TRUE, {"vet", "vetshadow"}),
          LinterInfo("ineffassign", {"unused"}, FALSE, TRUE, {}),
          LinterInfo("loggercheck", {"style", "bugs"}, TRUE, FALSE, {"logrlint"})}

AllLinters3 == \* misspell to testpackage
    Fast({"comment", "style"}, {"misspell"})
    \cup Slow({"bugs", "style"}, {"musttag"})
    \cup Fast({"style"}, {"nakedret", "nlreturn", "nosprintfhostport",
           "predeclared", "promlinter", "tagalign"})
    \cup Fast({"complexity"}, {"nestif"})
    \cup Slow({"bugs"}, {"nilerr", "nilnesserr", "protogetter", "reassign",
           "recvcheck", "spancheck"})
    \cup Slow({"style"}, {"nilnil", "nonamedreturns", "sloglint",
           "stylecheck", "tagliatelle"})
    \cup Slow({"bugs", "performance"}, {"noctx"})
    \cup Slow({"style", "test"}, {"paralleltest"})
    \cup Slow({"performance"}, {"perfsprint"})
    \cup Fast({"performance"}, {"prealloc"})
    \cup Slow({"metalinter", "style"}, {"revive"})
    \cup Slow({"bugs", "sql"}, {"rowserrcheck", "sqlclosecheck"})
    \cup Fast({"test"}, {"testableexamples"})
    \cup Slow({"bugs", "test"}, {"testifylint"})
    \cup Fast({"style", "test"}, {"testpackage"})
    \cup {LinterInfo("staticcheck", {"bugs", "metalinter"}, TRUE, TRUE, {"megacheck"})}

AllLinters4 == \* thelper to nolintlint
    Slow({"test"}, {"thelper", "usetesting"})
    \cup Slow({"style", "test"}, {"tparallel"})
    \cup Slow({"style"}, {"unconvert", "varnamelen", "wastedassign"})
    \cup Slow({"unused"}, {"unparam"})
    \cup Fast({"style"}, {"usestdlibvars", "whitespace", "wsl", "nolintlint"})
    \cup Slow({"error", "style"}, {"wrapcheck"})
    \cup Slow({"bugs"}, {"zerologlint"})
    \cup {LinterInfo("unused", {"unused"}, TRUE, TRUE, {"megacheck"})}

AllLinters == AllLinters1 \cup AllLinters2 \cup AllLinters3 \cup AllLinters4

ToNames(infos) == {i.name : i \in infos}

\* The linters that a list of names means, by name or alternative name.
Named(names) == {i \in AllLinters : ({i.name} \cup i.alts) \cap names # {}}

OnlyPresets(old) == {i \in AllLinters : i.presets \cap old.presets # {}}

KeepFast(old, infos) == {i \in infos : old.fast => ~i.slow}

KeepSlow(old, infos) == {i \in infos : old.fast /\ i.slow}

Default == {i \in AllLinters : i.default}

deprecatedLinters ==
    {"deadcode", "execinquery", "exhaustivestruct", "exportloopref", "golint",
     "ifshort", "interfacer", "maligned", "nosnakecase", "scopelint",
     "structcheck", "tenv", "typecheck", "varcheck"}

\* Names that are none of allLinters are kept, the removed linters are not.
UnknownLinterNames(names) ==
    {n \in names : Named({n}) = {} /\ n \notin deprecatedLinters}

DisableAllFilter(old) ==
    ToNames(KeepFast(old, OnlyPresets(old)) \cup Named(old.enable))
    \cup UnknownLinterNames(old.enable)

EnableAllFilter(old) ==
    ToNames((KeepSlow(old, AllLinters) \ Named(old.enable)) \cup Named(old.disable))
    \cup UnknownLinterNames(old.disable)

MutDisableFilter(old) == KeepSlow(old, Default) \cup Named(old.disable)

DefaultLintersDisableFilter(old) ==
    (KeepSlow(old, Default) \ Named(old.enable)) \cup Named(old.disable)

DefaultLintersEnableFilter(old) ==
    ((KeepFast(old, OnlyPresets(old)) \cup Named(old.enable)) \ Default)
    \ DefaultLintersDisableFilter(old)

\* ProcessEffectiveLinters: the names to enable and to disable in version 2.
EffectiveLinters(old) ==
    CASE old.mode = "disable-all" -> [enable |-> DisableAllFilter(old), disable |-> {}]
      [] old.mode = "enable-all" -> [enable |-> {}, disable |-> EnableAllFilter(old)]
      [] old.mode = "default" ->
            [enable |-> ToNames(DefaultLintersEnableFilter(old))
                        \cup UnknownLinterNames(old.enable),
             disable |-> ToNames(DefaultLintersDisableFilter(old))
                         \cup UnknownLinterNames(old.disable)]

FormatterNames == {"gci", "gofmt", "gofumpt", "goimports"}

EffectiveFormatters(old) ==
    IF old.mode = "enable-all" THEN FormatterNames \ EffectiveLinters(old).disable
    ELSE EffectiveLinters(old).enable \cap FormatterNames

OnlyLinterNames(names) == names \ FormatterNames

\* stylecheck and gosimple became parts of staticcheck.
Merged == {"stylecheck", "gosimple"}

ConvertStaticcheckLinterNames(names) ==
    {IF n \in Merged THEN "staticcheck" ELSE n : n \in names}

\* staticcheck is disabled by its own name; disabled parts are forgotten.
ConvertDisabledStaticcheckLinterNames(names) == names \ Merged

AltNames ==
    [gas |-> "gosec", goerr113 |-> "err113", gomnd |-> "mnd", logrlint |-> "loggercheck",
     megacheck |-> "staticcheck", vet |-> "govet", vetshadow |-> "govet"]

ConvertAlternativeNames(names) ==
    {IF n \in DOMAIN AltNames THEN AltNames[n] ELSE n : n \in names \ {"typecheck"}}
=============================================================================
