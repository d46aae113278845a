--------------------------- MODULE SettingsTables ---------------------------
(***************************************************************************)
(* The settings of linters and formatters, as three tables from the Go     *)
(* type (without its suffix "Settings") to the keys a file may give it:    *)
(*   V1      what a version 1 file may say (versionone),                   *)
(*   V2      what the migration can write (versiontwo, the yaml keys),     *)
(*   Config  what the loader of version 2 reads (pkg/config).              *)
(* Moves is the migration between the first two: the rows                  *)
(* <<type, key in version 1, key in version 2>> that the to...Settings     *)
(* functions copy.  Whole(types) copies every key of these types and       *)
(* AllBut(type, keys) all except some.  The types of version 1 that have   *)
(* no name, and WSL, stand under their name of version 2.  The values and  *)
(* their Go types are left out.                                            *)
(***************************************************************************)
EXTENDS TLC

V1Settings1 == \* LintersSettings to Decorder
    [LintersSettings |-> {"asasalint", "bidichk", "copyloopvar", "cyclop",
        "decorder", "depguard", "dogsled", "dupl", "dupword", "errcheck",
        "errchkjson", "errorlint", "exhaustive", "exhaustruct", "fatcontext",
        "forbidigo", "funlen", "ginkgolinter", "gocognit", "gochecksumtype",
        "goconst", "gocritic", "gocyclo", "godot", "godox", "goheader",
        "gomoddirectives", "gomodguard", "gosec", "gosimple", "gosmopolitan",
        "govet", "grouper", "iface", "importas", "inamedparam",
        "interfacebloat", "ireturn", "lll", "loggercheck", "maintidx",
        "makezero", "misspell", "mnd", "musttag", "nakedret", "nestif",
        "nilnil", "nlreturn", "nolintlint", "nonamedreturns", "paralleltest",
        "perfsprint", "prealloc", "predeclared", "promlinter", "protogetter",
        "reassign", "recvcheck", "revive", "rowserrcheck", "sloglint",
        "spancheck", "staticcheck", "stylecheck", "tagalign", "tagliatelle",
        "tenv", "testifylint", "testpackage", "thelper", "unconvert",
        "unparam", "unused", "usestdlibvars", "usetesting", "varnamelen",
        "whitespace", "wrapcheck", "wsl", "custom", "gci", "gofmt", "gofumpt",
        "goimports"}, Asasalint |-> {"exclude", "use-builtin-exclusions",
        "ignore-test"}, BiDiChk |-> {"left-to-right-embedding",
        "right-to-left-embedding", "pop-directional-formatting",
        "left-to-right-override", "right-to-left-override",
        "left-to-right-isolate", "right-to-left-isolate",
        "first-strong-isolate", "pop-directional-isolate"},
        CopyLoopVar |-> {"check-alias", "ignore-alias"},
        Cyclop |-> {"max-complexity", "package-average", "skip-tests"},
        DepGuard |-> {"rules"}, DepGuardList |-> {"list-mode", "files",
        "allow", "deny"}, DepGuardDeny |-> {"pkg", "desc"},
        Decorder |-> {"dec-order", "ignore-underscore-vars",
        "disable-dec-num-check", "disable-type-dec-num-check",
        "disable-const-dec-num-check", "disable-var-dec-num-check",
        "disable-dec-order-check", "disable-init-func-first-check"}]

V1Settings2 == \* Dogsled to GoConst
    [Dogsled |-> {"max-blank-identifiers"}, Dupl |-> {"threshold"},
        DupWord |-> {"keywords", "ignore"},
        Errcheck |-> {"disable-default-exclusions", "check-type-assertions",
        "check-blank", "exclude-functions", "exclude", "ignore"},
        ErrChkJSON |-> {"check-error-free-encoding", "report-no-exported"},
        ErrorLint |-> {"errorf", "errorf-multi", "asserts", "comparison",
        "allowed-errors", "allowed-errors-wildcard"},
        ErrorLintAllowPair |-> {"err", "fun"}, Exhaustive |-> {"check",
        "check-generated", "default-signifies-exhaustive",
        "ignore-enum-members", "ignore-enum-types", "package-scope-only",
        "explicit-exhaustive-map", "explicit-exhaustive-switch",
        "default-case-required"}, Exhaustruct |-> {"include", "exclude"},
        Fatcontext |-> {"check-struct-pointers"}, Forbidigo |-> {"forbid",
        "exclude-godoc-examples", "analyze-types"}, ForbidigoPattern |-> {"p",
        "pkg", "msg"}, Funlen |-> {"lines", "statements", "ignore-comments"},
        GinkgoLinter |-> {"suppress-len-assertion", "suppress-nil-assertion",
        "suppress-err-assertion", "suppress-compare-assertion",
        "suppress-async-assertion", "suppress-type-compare-assertion",
        "forbid-focus-container", "allow-havelen-zero", "force-expect-to",
        "validate-async-intervals", "forbid-spec-pollution", "force-succeed"},
        GoChecksumType |-> {"default-signifies-exhaustive",
        "include-shared-interfaces"}, Gocognit |-> {"min-complexity"},
        GoConst |-> {"ignore-strings", "ignore-tests", "match-constant",
        "min-len", "min-occurrences", "numbers", "min", "max", "ignore-calls"}]

V1Settings3 == \* GoCritic to Lll
    [GoCritic |-> {"disable-all", "enabled-checks", "enable-all",
        "disabled-checks", "enabled-tags", "disabled-tags", "settings"},
        GoCyclo |-> {"min-complexity"}, Godot |-> {"scope", "exclude",
        "capital", "period", "check-all"}, Godox |-> {"keywords"},
        GoHeader |-> {"values", "template", "template-path"},
        GoModDirectives |-> {"replace-allow-list", "replace-local",
        "exclude-forbidden", "retract-allow-no-explanation",
        "toolchain-forbidden", "toolchain-pattern", "tool-forbidden",
        "go-debug-forbidden", "go-version-pattern"}, GoModGuard |-> {"allowed",
        "blocked"}, GoModGuardAllowed |-> {"modules", "domains"},
        GoModGuardBlocked |-> {"modules", "versions",
        "local_replace_directives"}, GoModGuardModule |-> {"recommendations",
        "reason"}, GoModGuardVersion |-> {"version", "reason"},
        GoSec |-> {"includes", "excludes", "severity", "confidence",
        "exclude-generated", "config", "concurrency"},
        Gosmopolitan |-> {"allow-time-local", "escape-hatches", "ignore-tests",
        "watch-for-scripts"}, Govet |-> {"enable", "disable", "enable-all",
        "disable-all", "settings", "check-shadowing"},
        Grouper |-> {"const-require-single-const", "const-require-grouping",
        "import-require-single-import", "import-require-grouping",
        "type-require-single-type", "type-require-grouping",
        "var-require-single-var", "var-require-grouping"}, Iface |-> {"enable",
        "settings"}, ImportAs |-> {"alias", "no-unaliased",
        "no-extra-aliases"}, ImportAsAlias |-> {"pkg", "alias"},
        INamedParam |-> {"skip-single-param"}, InterfaceBloat |-> {"max"},
        Ireturn |-> {"allow", "reject"}, Lll |-> {"line-length", "tab-width"}]

V1Settings4 == \* LoggerCheck to ReviveDirective
    [LoggerCheck |-> {"kitlog", "klog", "logr", "slog", "zap",
        "require-string-key", "no-printf-like", "rules"},
        MaintIdx |-> {"under"}, Makezero |-> {"always"}, Misspell |-> {"mode",
        "locale", "extra-words", "ignore-words"},
        MisspellExtraWords |-> {"typo", "correction"},
        MustTag |-> {"functions"}, MustTagFunction |-> {"name", "tag",
        "arg-pos"}, Nakedret |-> {"max-func-lines"},
        Nestif |-> {"min-complexity"}, NilNil |-> {"detect-opposite",
        "checked-types"}, Nlreturn |-> {"block-size"}, Mnd |-> {"checks",
        "ignored-numbers", "ignored-files", "ignored-functions"},
        NoLintLint |-> {"require-explanation", "require-specific",
        "allow-no-explanation", "allow-unused"},
        NoNamedReturns |-> {"report-error-in-defer"},
        ParallelTest |-> {"ignore-missing", "ignore-missing-subtests"},
        PerfSprint |-> {"integer-format", "int-conversion", "error-format",
        "err-error", "errorf", "string-format", "sprintf1", "strconcat",
        "bool-format", "hex-format"}, Prealloc |-> {"simple", "range-loops",
        "for-loops"}, Predeclared |-> {"ignore", "q"},
        Promlinter |-> {"strict", "disabled-linters"},
        ProtoGetter |-> {"skip-generated-by", "skip-files",
        "skip-any-generated", "replace-first-arg-in-append"},
        Reassign |-> {"patterns"}, Recvcheck |-> {"disable-builtin",
        "exclusions"}, Revive |-> {"max-open-files", "ignore-generated-header",
        "confidence", "severity", "enable-all-rules", "rules", "error-code",
        "warning-code", "directives"}, ReviveRule |-> {"name", "arguments",
        "severity", "disabled", "exclude"}, ReviveDirective |-> {"name",
        "severity"}]

V1Settings5 == \* RowsErrCheck to UseTesting
    [RowsErrCheck |-> {"packages"}, SlogLint |-> {"no-mixed-args", "kv-only",
        "attr-only", "no-global", "context", "static-msg", "no-raw-keys",
        "key-naming-case", "forbidden-keys", "args-on-sep-lines"},
        Spancheck |-> {"checks", "ignore-check-signatures",
        "extra-start-span-signatures"}, StaticCheck |-> {"checks",
        "initialisms", "dot-import-whitelist", "http-status-code-whitelist"},
        TagAlign |-> {"align", "sort", "order", "strict"},
        Tagliatelle |-> {"case"}, TagliatelleCase |-> {"overrides"},
        TagliatelleOverrides |-> {"pkg", "ignore"},
        TagliatelleBase |-> {"rules", "extended-rules", "use-field-name",
        "ignored-fields"}, TagliatelleExtendedRule |-> {"case",
        "extra-initialisms", "initialism-overrides"},
        Testifylint |-> {"enable-all", "disable-all", "enable", "disable",
        "bool-compare", "expected-actual", "formatter", "go-require",
        "require-error", "suite-extra-assert-call"},
        TestifylintBoolCompare |-> {"ignore-custom-types"},
        TestifylintExpectedActual |-> {"pattern"},
        TestifylintFormatter |-> {"check-format-string", "require-f-funcs"},
        TestifylintGoRequire |-> {"ignore-http-handlers"},
        TestifylintRequireError |-> {"fn-pattern"},
        TestifylintSuiteExtraAssertCall |-> {"mode"},
        Testpackage |-> {"skip-regexp", "allow-packages"}, Thelper |-> {"test",
        "fuzz", "benchmark", "tb"}, ThelperOptions |-> {"first", "name",
        "begin"}, Tenv |-> {"all"}, UseStdlibVars |-> {"http-method",
        "http-status-code", "time-weekday", "time-month", "time-layout",
        "crypto-hash", "default-rpc-path", "sql-isolation-level",
        "tls-signature-scheme", "constant-kind", "os-dev-null",
        "syslog-priority"}, UseTesting |-> {"context-background",
        "context-todo", "os-chdir", "os-mkdir-temp", "os-setenv",
        "os-temp-dir", "os-create-temp"}]

V1Settings6 == \* Unconvert to GoImports
    [Unconvert |-> {"fast-math", "safe"}, Unparam |-> {"check-exported",
        "algo"}, Unused |-> {"field-writes-are-uses",
        "post-statements-are-reads", "exported-fields-are-used",
        "parameters-are-used", "local-variables-are-used", "generated-is-used",
        "exported-is-used"}, Varnamelen |-> {"max-distance", "min-name-length",
        "check-receiver", "check-return", "check-type-param", "ignore-names",
        "ignore-type-assert-ok", "ignore-map-index-ok", "ignore-chan-recv-ok",
        "ignore-decls"}, Whitespace |-> {"multi-if", "multi-func"},
        Wrapcheck |-> {"extra-ignore-sigs", "ignoreSigs", "ignoreSigRegexps",
        "ignorePackageGlobs", "ignoreInterfaceRegexps"},
        WSLv4 |-> {"strict-append", "allow-assign-and-call",
        "allow-assign-and-anything", "allow-multiline-assign",
        "force-case-trailing-whitespace", "allow-trailing-comment",
        "allow-separated-leading-comment", "allow-cuddle-declarations",
        "allow-cuddle-with-calls", "allow-cuddle-with-rhs",
        "force-err-cuddling", "error-variable-names",
        "force-short-decl-cuddling"}, CustomLinter |-> {"type", "path",
        "description", "original-url", "settings"}, Gci |-> {"sections",
        "no-inline-comments", "no-prefix-comments", "skip-generated",
        "custom-order", "no-lex-order", "local-prefixes"},
        GoFmt |-> {"simplify", "rewrite-rules"},
        GoFmtRewriteRule |-> {"pattern", "replacement"},
        GoFumpt |-> {"module-path", "extra-rules", "lang-version"},
        GoImports |-> {"local-prefixes"}]

V1 ==
    V1Settings1 @@ V1Settings2 @@ V1Settings3 @@ V1Settings4 @@ V1Settings5
    @@ V1Settings6

V2Settings1 == \* LintersSettings to Dupl
    [LintersSettings |-> {"asasalint", "bidichk", "copyloopvar", "cyclop",
        "decorder", "depguard", "dogsled", "dupl", "dupword",
        "embeddedstructfieldcheck", "errcheck", "errchkjson", "errorlint",
        "exhaustive", "exhaustruct", "fatcontext", "forbidigo", "funcorder",
        "funlen", "ginkgolinter", "gocognit", "gochecksumtype", "goconst",
        "gocritic", "gocyclo", "godot", "godox", "goheader", "gomoddirectives",
        "gomodguard", "gosec", "gosmopolitan", "govet", "grouper", "iface",
        "importas", "inamedparam", "interfacebloat", "ireturn", "lll",
        "loggercheck", "maintidx", "makezero", "misspell", "mnd", "musttag",
        "nakedret", "nestif", "nilnil", "nlreturn", "nolintlint",
        "nonamedreturns", "paralleltest", "perfsprint", "prealloc",
        "predeclared", "promlinter", "protogetter", "reassign", "recvcheck",
        "revive", "rowserrcheck", "sloglint", "spancheck", "staticcheck",
        "tagalign", "tagliatelle", "testifylint", "testpackage", "thelper",
        "unconvert", "unparam", "unused", "usestdlibvars", "usetesting",
        "varnamelen", "whitespace", "wrapcheck", "wsl", "wsl_v5", "custom"},
        Asasalint |-> {"exclude", "use-builtin-exclusions"},
        BiDiChk |-> {"left-to-right-embedding", "right-to-left-embedding",
        "pop-directional-formatting", "left-to-right-override",
        "right-to-left-override", "left-to-right-isolate",
        "right-to-left-isolate", "first-strong-isolate",
        "pop-directional-isolate"}, CopyLoopVar |-> {"check-alias"},
        Cyclop |-> {"max-complexity", "package-average"},
        DepGuard |-> {"rules"}, DepGuardList |-> {"list-mode", "files",
        "allow", "deny"}, DepGuardDeny |-> {"pkg", "desc"},
        Decorder |-> {"dec-order", "ignore-underscore-vars",
        "disable-dec-num-check", "disable-type-dec-num-check",
        "disable-const-dec-num-check", "disable-var-dec-num-check",
        "disable-dec-order-check", "disable-init-func-first-check"},
        Dogsled |-> {"max-blank-identifiers"}, Dupl |-> {"threshold"}]

V2Settings2 == \* DupWord to Godox
    [DupWord |-> {"keywords", "ignore"},
        EmbeddedStructFieldCheck |-> {"forbid-mutex"},
        Errcheck |-> {"disable-default-exclusions", "check-type-assertions",
        "check-blank", "exclude-functions", "verbose"},
        ErrChkJSON |-> {"check-error-free-encoding", "report-no-exported"},
        ErrorLint |-> {"errorf", "errorf-multi", "asserts", "comparison",
        "allowed-errors", "allowed-errors-wildcard"},
        ErrorLintAllowPair |-> {"err", "fun"}, Exhaustive |-> {"check",
        "default-signifies-exhaustive", "ignore-enum-members",
        "ignore-enum-types", "package-scope-only", "explicit-exhaustive-map",
        "explicit-exhaustive-switch", "default-case-required"},
        Exhaustruct |-> {"include", "exclude"},
        Fatcontext |-> {"check-struct-pointers"}, Forbidigo |-> {"forbid",
        "exclude-godoc-examples", "analyze-types"},
        ForbidigoPattern |-> {"pattern", "pkg", "msg"},
        FuncOrder |-> {"constructor", "struct-method", "alphabetical"},
        Funlen |-> {"lines", "statements", "ignore-comments"},
        GinkgoLinter |-> {"suppress-len-assertion", "suppress-nil-assertion",
        "suppress-err-assertion", "suppress-compare-assertion",
        "suppress-async-assertion", "suppress-type-compare-assertion",
        "forbid-focus-container", "allow-havelen-zero", "force-expect-to",
        "validate-async-intervals", "forbid-spec-pollution", "force-succeed"},
        GoChecksumType |-> {"default-signifies-exhaustive",
        "include-shared-interfaces"}, Gocognit |-> {"min-complexity"},
        GoConst |-> {"ignore-string-values", "match-constant", "min-len",
        "min-occurrences", "numbers", "min", "max", "ignore-calls",
        "find-duplicates", "eval-const-expressions", "ignore-strings"},
        GoCritic |-> {"disable-all", "enabled-checks", "enable-all",
        "disabled-checks", "enabled-tags", "disabled-tags", "settings"},
        GoCyclo |-> {"min-complexity"}, Godot |-> {"scope", "exclude",
        "capital", "period"}, Godox |-> {"keywords"}]

V2Settings3 == \* GoHeader to MustTag
    [GoHeader |-> {"values", "template", "template-path"},
        GoModDirectives |-> {"replace-allow-list", "replace-local",
        "exclude-forbidden", "retract-allow-no-explanation",
        "toolchain-forbidden", "toolchain-pattern", "tool-forbidden",
        "go-debug-forbidden", "go-version-pattern"}, GoModGuard |-> {"allowed",
        "blocked"}, GoModGuardAllowed |-> {"modules", "domains"},
        GoModGuardBlocked |-> {"modules", "versions",
        "local-replace-directives"}, GoModGuardModule |-> {"recommendations",
        "reason"}, GoModGuardVersion |-> {"version", "reason"},
        GoSec |-> {"includes", "excludes", "severity", "confidence", "config",
        "concurrency"}, Gosmopolitan |-> {"allow-time-local", "escape-hatches",
        "watch-for-scripts"}, Govet |-> {"enable", "disable", "enable-all",
        "disable-all", "settings"}, Grouper |-> {"const-require-single-const",
        "const-require-grouping", "import-require-single-import",
        "import-require-grouping", "type-require-single-type",
        "type-require-grouping", "var-require-single-var",
        "var-require-grouping"}, Iface |-> {"enable", "settings"},
        ImportAs |-> {"alias", "no-unaliased", "no-extra-aliases"},
        ImportAsAlias |-> {"pkg", "alias"},
        INamedParam |-> {"skip-single-param"}, InterfaceBloat |-> {"max"},
        Ireturn |-> {"allow", "reject"}, Lll |-> {"line-length", "tab-width"},
        LoggerCheck |-> {"kitlog", "klog", "logr", "slog", "zap",
        "require-string-key", "no-printf-like", "rules"},
        MaintIdx |-> {"under"}, Makezero |-> {"always"}, Misspell |-> {"mode",
        "locale", "extra-words", "ignore-rules"},
        MisspellExtraWords |-> {"typo", "correction"},
        MustTag |-> {"functions"}]

V2Settings4 == \* MustTagFunction to Spancheck
    [MustTagFunction |-> {"name", "tag", "arg-pos"},
        Nakedret |-> {"max-func-lines"}, Nestif |-> {"min-complexity"},
        NilNil |-> {"only-two", "detect-opposite", "checked-types"},
        Nlreturn |-> {"block-size"}, Mnd |-> {"checks", "ignored-numbers",
        "ignored-files", "ignored-functions"},
        NoLintLint |-> {"require-explanation", "require-specific",
        "allow-no-explanation", "allow-unused"},
        NoNamedReturns |-> {"report-error-in-defer"},
        ParallelTest |-> {"ignore-missing", "ignore-missing-subtests"},
        PerfSprint |-> {"integer-format", "int-conversion", "error-format",
        "err-error", "errorf", "string-format", "sprintf1", "strconcat",
        "bool-format", "hex-format"}, Prealloc |-> {"simple", "range-loops",
        "for-loops"}, Predeclared |-> {"ignore", "qualified-name"},
        Promlinter |-> {"strict", "disabled-linters"},
        ProtoGetter |-> {"skip-generated-by", "skip-files",
        "skip-any-generated", "replace-first-arg-in-append"},
        Reassign |-> {"patterns"}, Recvcheck |-> {"disable-builtin",
        "exclusions"}, Revive |-> {"max-open-files", "confidence", "severity",
        "enable-all-rules", "rules", "error-code", "warning-code",
        "directives"}, ReviveRule |-> {"name", "arguments", "severity",
        "disabled", "exclude"}, ReviveDirective |-> {"name", "severity"},
        RowsErrCheck |-> {"packages"}, SlogLint |-> {"no-mixed-args",
        "kv-only", "attr-only", "no-global", "context", "static-msg",
        "msg-style", "no-raw-keys", "key-naming-case", "forbidden-keys",
        "args-on-sep-lines"}, Spancheck |-> {"checks",
        "ignore-check-signatures", "extra-start-span-signatures"}]

V2Settings5 == \* StaticCheck to Unused
    [StaticCheck |-> {"checks", "initialisms", "dot-import-whitelist",
        "http-status-code-whitelist"}, TagAlign |-> {"align", "sort", "order",
        "strict"}, Tagliatelle |-> {"case"}, TagliatelleCase |-> {"overrides"},
        TagliatelleOverrides |-> {"pkg", "ignore"},
        TagliatelleBase |-> {"rules", "extended-rules", "use-field-name",
        "ignored-fields"}, TagliatelleExtendedRule |-> {"case",
        "extra-initialisms", "initialism-overrides"},
        Testifylint |-> {"enable-all", "disable-all", "enable", "disable",
        "bool-compare", "expected-actual", "formatter", "go-require",
        "require-error", "suite-extra-assert-call"},
        TestifylintBoolCompare |-> {"ignore-custom-types"},
        TestifylintExpectedActual |-> {"pattern"},
        TestifylintFormatter |-> {"check-format-string", "require-f-funcs",
        "require-string-msg"},
        TestifylintGoRequire |-> {"ignore-http-handlers"},
        TestifylintRequireError |-> {"fn-pattern"},
        TestifylintSuiteExtraAssertCall |-> {"mode"},
        Testpackage |-> {"skip-regexp", "allow-packages"}, Thelper |-> {"test",
        "fuzz", "benchmark", "tb"}, ThelperOptions |-> {"first", "name",
        "begin"}, UseStdlibVars |-> {"http-method", "http-status-code",
        "time-weekday", "time-month", "time-layout", "crypto-hash",
        "default-rpc-path", "sql-isolation-level", "tls-signature-scheme",
        "constant-kind", "time-date-month"},
        UseTesting |-> {"context-background", "context-todo", "os-chdir",
        "os-mkdir-temp", "os-setenv", "os-temp-dir", "os-create-temp"},
        Unconvert |-> {"fast-math", "safe"}, Unparam |-> {"check-exported"},
        Unused |-> {"field-writes-are-uses", "post-statements-are-reads",
        "exported-fields-are-used", "parameters-are-used",
        "local-variables-are-used", "generated-is-used"}]

V2Settings6 == \* Varnamelen to CustomLinter
    [Varnamelen |-> {"max-distance", "min-name-length", "check-receiver",
        "check-return", "check-type-param", "ignore-names",
        "ignore-type-assert-ok", "ignore-map-index-ok", "ignore-chan-recv-ok",
        "ignore-decls"}, Whitespace |-> {"multi-if", "multi-func"},
        Wrapcheck |-> {"extra-ignore-sigs", "ignore-sigs",
        "ignore-sig-regexps", "ignore-package-globs",
        "ignore-interface-regexps", "report-internal-errors"},
        WSLv4 |-> {"strict-append", "allow-assign-and-call",
        "allow-assign-and-anything", "allow-multiline-assign",
        "force-case-trailing-whitespace", "allow-trailing-comment",
        "allow-separated-leading-comment", "allow-cuddle-declarations",
        "allow-cuddle-with-calls", "allow-cuddle-with-rhs",
        "allow-cuddle-used-in-block", "force-err-cuddling",
        "error-variable-names", "force-short-decl-cuddling"},
        WSLv5 |-> {"allow-first-in-block", "allow-whole-block",
        "branch-max-lines", "case-max-lines", "default", "enable", "disable"},
        CustomLinter |-> {"type", "path", "description", "original-url",
        "settings"}]

V2Formatters == \* FormatterSettings to GoLines
    [FormatterSettings |-> {"gci", "gofmt", "gofumpt", "goimports", "golines"},
        Gci |-> {"sections", "no-inline-comments", "no-prefix-comments",
        "custom-order", "no-lex-order"}, GoFmt |-> {"simplify",
        "rewrite-rules"}, GoFmtRewriteRule |-> {"pattern", "replacement"},
        GoFumpt |-> {"module-path", "extra-rules"},
        GoImports |-> {"local-prefixes"}, GoLines |-> {"max-len", "tab-len",
        "shorten-comments", "reformat-tags", "chain-split-dots"}]

V2 ==
    V2Settings1 @@ V2Settings2 @@ V2Settings3 @@ V2Settings4 @@ V2Settings5
    @@ V2Settings6 @@ V2Formatters

ConfigSettings1 == \* LintersSettings to DepGuard
    [LintersSettings |-> {"asasalint", "bidichk", "bodyclose",
        "canonicalheader", "copyloopvar", "cyclop", "decorder", "depguard",
        "dogsled", "dupl", "dupword", "embeddedstructfieldcheck", "errcheck",
        "errchkjson", "errorlint", "exhaustive", "exhaustruct",
        "exhaustruct_v5", "fatcontext", "forbidigo", "funcorder", "funlen",
        "ginkgolinter", "gocognit", "gochecksumtype", "goconst", "gocritic",
        "gocyclo", "godoclint", "godot", "godox", "goheader",
        "gomoddirectives", "gomodguard", "gomodguard_v2", "gosec",
        "gosmopolitan", "unqueryvet", "govet", "grouper", "iface", "importas",
        "inamedparam", "ineffassign", "interfacebloat", "iotamixing",
        "ireturn", "lll", "loggercheck", "maintidx", "makezero", "misspell",
        "mnd", "modernize", "musttag", "nakedret", "nestif", "nilnil",
        "nlreturn", "nolintlint", "nonamedreturns", "paralleltest",
        "perfsprint", "prealloc", "predeclared", "promlinter", "protogetter",
        "reassign", "recvcheck", "revive", "rowserrcheck", "sloglint",
        "spancheck", "staticcheck", "tagalign", "tagliatelle", "testifylint",
        "testpackage", "thelper", "unconvert", "unparam", "unused",
        "usestdlibvars", "usetesting", "varnamelen", "whitespace", "wrapcheck",
        "wsl", "wsl_v5", "custom"}, Asasalint |-> {"exclude",
        "use-builtin-exclusions"}, BiDiChk |-> {"left-to-right-embedding",
        "right-to-left-embedding", "pop-directional-formatting",
        "left-to-right-override", "right-to-left-override",
        "left-to-right-isolate", "right-to-left-isolate",
        "first-strong-isolate", "pop-directional-isolate"},
        BodyClose |-> {"check-consumption"}, CanonicalHeader |-> {"exclusions",
        "use-default-exclusions"}, CopyLoopVar |-> {"check-alias"},
        Cyclop |-> {"max-complexity", "package-average"},
        DepGuard |-> {"rules"}]

ConfigSettings2 == \* DepGuardList to GinkgoLinter
    [DepGuardList |-> {"list-mode", "files", "allow", "deny"},
        DepGuardDeny |-> {"pkg", "desc"}, Decorder |-> {"dec-order",
        "ignore-underscore-vars", "disable-dec-num-check",
        "disable-type-dec-num-check", "disable-const-dec-num-check",
        "disable-var-dec-num-check", "disable-dec-order-check",
        "disable-init-func-first-check"},
        Dogsled |-> {"max-blank-identifiers"}, Dupl |-> {"threshold"},
        DupWord |-> {"keywords", "ignore", "comments-only",
        "skip-raw-strings"}, EmbeddedStructFieldCheck |-> {"forbid-mutex",
        "empty-line"}, Errcheck |-> {"disable-default-exclusions",
        "check-type-assertions", "check-blank", "exclude-functions",
        "verbose"}, ErrChkJSON |-> {"check-error-free-encoding",
        "report-no-exported"}, ErrorLint |-> {"errorf", "errorf-multi",
        "asserts", "comparison", "allowed-errors", "allowed-errors-wildcard"},
        ErrorLintAllowPair |-> {"err", "fun"}, Exhaustive |-> {"check",
        "default-signifies-exhaustive", "ignore-enum-members",
        "ignore-enum-types", "package-scope-only", "explicit-exhaustive-map",
        "explicit-exhaustive-switch", "default-case-required"},
        Exhaustruct |-> {"include", "exclude", "allow-empty", "allow-empty-rx",
        "allow-empty-returns", "allow-empty-declarations"},
        ExhaustructV5 |-> {"enforce-patterns", "ignore-patterns",
        "optional-patterns", "allow-empty", "allow-empty-patterns",
        "allow-empty-returns", "allow-empty-declarations",
        "allow-empty-blank-assignments", "explicit-mode"},
        Fatcontext |-> {"check-struct-pointers", "check-loops",
        "check-function-literals"}, Forbidigo |-> {"forbid",
        "exclude-godoc-examples", "analyze-types"},
        ForbidigoPattern |-> {"pattern", "pkg", "msg"},
        FuncOrder |-> {"constructor", "struct-method", "alphabetical",
        "function"}, Funlen |-> {"lines", "statements", "ignore-comments"},
        GinkgoLinter |-> {"suppress-len-assertion", "suppress-nil-assertion",
        "suppress-err-assertion", "suppress-compare-assertion",
        "suppress-async-assertion", "suppress-type-compare-assertion",
        "forbid-focus-container", "allow-havelen-zero", "force-expect-to",
        "validate-async-intervals", "forbid-spec-pollution", "force-succeed",
        "force-assertion-description", "force-tonot"}]

ConfigSettings3 == \* GoChecksumType to GoModGuardVersion
    [GoChecksumType |-> {"default-signifies-exhaustive",
        "include-shared-interfaces"}, Gocognit |-> {"min-complexity"},
        GoConst |-> {"ignore-string-values", "match-constant", "min-len",
        "min-occurrences", "numbers", "min", "max", "exclude-types",
        "find-duplicates", "eval-const-expressions", "ignore-functions",
        "ignore-map-keys", "ignore-tests", "ignore-calls", "ignore-strings"},
        GoCritic |-> {"disable-all", "enabled-checks", "enable-all",
        "disabled-checks", "enabled-tags", "disabled-tags", "settings"},
        GoCyclo |-> {"min-complexity"}, Godoclint |-> {"default", "enable",
        "disable", "options"}, Godoclint_Options |-> {"max-len", "require-doc",
        "start-with-name"}, Godoclint_Options_MaxLen |-> {"length"},
        Godoclint_Options_RequireDoc |-> {"ignore-exported",
        "ignore-unexported"},
        Godoclint_Options_StartWithName |-> {"include-unexported"},
        Godot |-> {"scope", "exclude", "capital", "period"},
        Godox |-> {"keywords"}, GoHeader |-> {"values", "template",
        "template-path"}, GoModDirectives |-> {"replace-allow-list",
        "replace-local", "replace-allow-all", "exclude-forbidden",
        "ignore-forbidden", "retract-allow-no-explanation",
        "toolchain-forbidden", "toolchain-pattern", "tool-forbidden",
        "go-debug-forbidden", "go-version-pattern", "check-module-path"},
        GoModGuardv2 |-> {"allowed", "blocked", "local-replace-directives"},
        GoModGuardv2Base |-> {"module", "version", "match-type"},
        GoModGuardv2Blocked |-> {"recommendations", "reason"},
        GoModGuard |-> {"allowed", "blocked"},
        GoModGuardAllowed |-> {"modules", "domains"},
        GoModGuardBlocked |-> {"modules", "versions",
        "local-replace-directives"}, GoModGuardModule |-> {"recommendations",
        "reason"}, GoModGuardVersion |-> {"version", "reason"}]

ConfigSettings4 == \* GoSec to Nlreturn
    [GoSec |-> {"includes", "excludes", "severity", "confidence", "config",
        "concurrency"}, Gosmopolitan |-> {"allow-time-local", "escape-hatches",
        "watch-for-scripts"}, Govet |-> {"enable", "disable", "enable-all",
        "disable-all", "settings"}, Grouper |-> {"const-require-single-const",
        "const-require-grouping", "import-require-single-import",
        "import-require-grouping", "type-require-single-type",
        "type-require-grouping", "var-require-single-var",
        "var-require-grouping"}, Iface |-> {"enable", "settings"},
        ImportAs |-> {"alias", "no-unaliased", "no-extra-aliases"},
        ImportAsAlias |-> {"pkg", "alias"},
        INamedParam |-> {"skip-single-param"},
        Ineffassign |-> {"check-escaping-errors"}, InterfaceBloat |-> {"max"},
        IotaMixing |-> {"report-individual"}, Ireturn |-> {"allow", "reject"},
        Lll |-> {"line-length", "tab-width"}, LoggerCheck |-> {"kitlog",
        "klog", "logr", "slog", "zap", "require-string-key", "no-printf-like",
        "rules"}, MaintIdx |-> {"under"}, Makezero |-> {"always"},
        Misspell |-> {"mode", "locale", "extra-words", "ignore-rules"},
        MisspellExtraWords |-> {"typo", "correction"},
        MustTag |-> {"functions"}, MustTagFunction |-> {"name", "tag",
        "arg-pos"}, Nakedret |-> {"max-func-lines"},
        Nestif |-> {"min-complexity"}, NilNil |-> {"only-two",
        "detect-opposite", "checked-types"}, Nlreturn |-> {"block-size"}]

ConfigSettings5 == \* Mnd to StaticCheck
    [Mnd |-> {"checks", "ignored-numbers", "ignored-files",
        "ignored-functions"}, Modernize |-> {"disable"},
        NoLintLint |-> {"require-explanation", "require-specific",
        "allow-no-explanation", "allow-unused"},
        NoNamedReturns |-> {"report-error-in-defer",
        "allow-unused-named-returns"}, ParallelTest |-> {"ignore-missing",
        "ignore-missing-subtests", "check-cleanup"},
        PerfSprint |-> {"integer-format", "int-conversion", "error-format",
        "err-error", "errorf", "string-format", "sprintf1", "strconcat",
        "bool-format", "hex-format", "concat-loop", "loop-other-ops"},
        Prealloc |-> {"simple", "range-loops", "for-loops"},
        Predeclared |-> {"ignore", "qualified-name"}, Promlinter |-> {"strict",
        "disabled-linters"}, ProtoGetter |-> {"skip-generated-by",
        "skip-files", "skip-any-generated", "replace-first-arg-in-append"},
        Reassign |-> {"patterns"}, Recvcheck |-> {"disable-builtin",
        "exclusions"}, Revive |-> {"max-open-files", "confidence", "severity",
        "enable-all-rules", "enable-default-rules", "rules", "error-code",
        "warning-code", "directives"}, ReviveRule |-> {"name", "arguments",
        "severity", "disabled", "exclude"}, ReviveDirective |-> {"name",
        "severity"}, RowsErrCheck |-> {"packages"}, SlogLint |-> {"no-global",
        "context", "static-msg", "msg-style", "no-mixed-args", "kv-only",
        "attr-only", "args-on-sep-lines", "no-raw-keys", "allowed-keys",
        "forbidden-keys", "key-naming-case", "custom-funcs"},
        SloglintCustomFunc |-> {"name", "msg-pos", "args-pos"},
        Spancheck |-> {"checks", "ignore-check-signatures",
        "extra-start-span-signatures"}, StaticCheck |-> {"checks",
        "initialisms", "dot-import-whitelist", "http-status-code-whitelist"}]

ConfigSettings6 == \* TagAlign to Unqueryvet
    [TagAlign |-> {"align", "sort", "order", "strict"},
        Tagliatelle |-> {"case"}, TagliatelleCase |-> {"overrides"},
        TagliatelleOverrides |-> {"pkg", "ignore"},
        TagliatelleBase |-> {"rules", "extended-rules", "use-field-name",
        "ignored-fields"}, TagliatelleExtendedRule |-> {"case",
        "extra-initialisms", "initialism-overrides"},
        Testifylint |-> {"enable-all", "disable-all", "enable", "disable",
        "bool-compare", "expected-actual", "formatter", "go-require",
        "require-error", "suite-extra-assert-call"},
        TestifylintBoolCompare |-> {"ignore-custom-types"},
        TestifylintExpectedActual |-> {"pattern"},
        TestifylintFormatter |-> {"check-format-string", "require-f-funcs",
        "require-string-msg"},
        TestifylintGoRequire |-> {"ignore-http-handlers"},
        TestifylintRequireError |-> {"fn-pattern"},
        TestifylintSuiteExtraAssertCall |-> {"mode"},
        Testpackage |-> {"skip-regexp", "allow-packages"}, Thelper |-> {"test",
        "fuzz", "benchmark", "tb"}, ThelperOptions |-> {"first", "name",
        "begin"}, UseStdlibVars |-> {"http-method", "http-status-code",
        "time-weekday", "time-month", "time-layout", "crypto-hash",
        "default-rpc-path", "sql-isolation-level", "tls-signature-scheme",
        "constant-kind", "time-date-month"},
        UseTesting |-> {"context-background", "context-todo", "os-chdir",
        "os-mkdir-temp", "os-setenv", "os-temp-dir", "os-create-temp"},
        Unconvert |-> {"fast-math", "safe"}, Unparam |-> {"check-exported"},
        Unqueryvet |-> {"check-sql-builders", "allowed-patterns",
        "ignored-functions", "check-aliased-wildcard", "check-string-concat",
        "check-format-strings", "check-string-builder", "check-subqueries",
        "check-n1", "check-sql-injection", "check-tx-leaks", "sql-builders",
        "allow", "custom-rules"}]

ConfigSettings7 == \* UnqueryvetSQLBuilders to CustomLinter
    [UnqueryvetSQLBuilders |-> {"squirrel", "gorm", "sqlx", "ent", "pgx",
        "bun", "sqlboiler", "jet"}, UnqueryvetCustomRule |-> {"id", "pattern",
        "patterns", "when", "message", "action"},
        Unused |-> {"field-writes-are-uses", "post-statements-are-reads",
        "exported-fields-are-used", "parameters-are-used",
        "local-variables-are-used", "generated-is-used"},
        Varnamelen |-> {"max-distance", "min-name-length", "check-receiver",
        "check-return", "check-type-param", "ignore-names",
        "ignore-type-assert-ok", "ignore-map-index-ok", "ignore-chan-recv-ok",
        "ignore-decls"}, Whitespace |-> {"multi-if", "multi-func"},
        Wrapcheck |-> {"extra-ignore-sigs", "ignore-sigs",
        "ignore-sig-regexps", "ignore-package-globs",
        "ignore-interface-regexps", "report-internal-errors"},
        WSLv4 |-> {"strict-append", "allow-assign-and-call",
        "allow-assign-and-anything", "allow-multiline-assign",
        "force-case-trailing-whitespace", "allow-trailing-comment",
        "allow-separated-leading-comment", "allow-cuddle-declarations",
        "allow-cuddle-with-calls", "allow-cuddle-with-rhs",
        "allow-cuddle-used-in-block", "force-err-cuddling",
        "error-variable-names", "force-short-decl-cuddling"},
        WSLv5 |-> {"allow-first-in-block", "allow-whole-block",
        "branch-max-lines", "case-max-lines", "cuddle-max-statements",
        "default", "enable", "disable"}, CustomLinter |-> {"type", "path",
        "description", "original-url", "settings"}]

ConfigFormatters == \* FormatterSettings to GoLines
    [FormatterSettings |-> {"gci", "gofmt", "gofumpt", "goimports", "golines"},
        Gci |-> {"sections", "no-inline-comments", "no-prefix-comments",
        "custom-order", "no-lex-order"}, GoFmt |-> {"simplify",
        "rewrite-rules"}, GoFmtRewriteRule |-> {"pattern", "replacement"},
        GoFumpt |-> {"module-path", "extra", "extra-rules"},
        GoFumptExtra |-> {"group-params", "clothe-returns", "balance-calls"},
        GoImports |-> {"local-prefixes"}, GoLines |-> {"max-len", "tab-len",
        "shorten-comments", "reformat-tags", "chain-split-dots"}]

Config ==
    ConfigSettings1 @@ ConfigSettings2 @@ ConfigSettings3 @@ ConfigSettings4
    @@ ConfigSettings5 @@ ConfigSettings6 @@ ConfigSettings7 @@
    ConfigFormatters

Whole(types) == UNION {{<<t, k, k>> : k \in V1[t]} : t \in types}

AllBut(type, keys) == {<<type, k, k>> : k \in V1[type] \ keys}

ToLinterSettings1 ==
    Whole({"BiDiChk", "Decorder"})
    \cup AllBut("LintersSettings", {"gosimple", "stylecheck", "tenv", "gci",
        "gofmt", "gofumpt", "goimports"})
    \cup AllBut("Asasalint", {"ignore-test"})
    \cup AllBut("CopyLoopVar", {"ignore-alias"})
    \cup AllBut("Cyclop", {"skip-tests"})

ToLinterSettings2 ==
    Whole({"DepGuard", "DepGuardDeny", "DepGuardList", "Dogsled", "Dupl",
        "DupWord", "ErrChkJSON", "ErrorLint", "ErrorLintAllowPair",
        "Exhaustruct", "Fatcontext", "Forbidigo", "Funlen"})
    \cup AllBut("Errcheck", {"exclude", "ignore"})
    \cup AllBut("Exhaustive", {"check-generated"})
    \cup AllBut("ForbidigoPattern", {"p"})
    \cup {<<"ForbidigoPattern", "p", "pattern">>}

ToLinterSettings3 ==
    Whole({"GinkgoLinter", "Gocognit", "GoChecksumType", "GoCritic", "GoCyclo",
        "Godox", "GoHeader", "GoModDirectives"})
    \cup AllBut("GoConst", {"ignore-tests"})
    \cup AllBut("Godot", {"check-all"})

ToLinterSettings4 ==
    Whole({"GoModGuard", "GoModGuardAllowed", "GoModGuardModule",
        "GoModGuardVersion", "Grouper", "Iface", "ImportAs", "ImportAsAlias",
        "INamedParam", "InterfaceBloat", "Ireturn", "Lll", "LoggerCheck",
        "MaintIdx"})
    \cup AllBut("GoModGuardBlocked", {"local_replace_directives"})
    \cup {<<"GoModGuardBlocked", "local_replace_directives",
        "local-replace-directives">>}
    \cup AllBut("GoSec", {"exclude-generated"})
    \cup AllBut("Gosmopolitan", {"ignore-tests"})
    \cup AllBut("Govet", {"check-shadowing"})

ToLinterSettings5 ==
    Whole({"Makezero", "MisspellExtraWords", "Mnd", "MustTag",
        "MustTagFunction", "Nakedret", "Nestif", "NilNil", "Nlreturn",
        "NoLintLint", "NoNamedReturns", "ParallelTest", "PerfSprint",
        "Prealloc", "Promlinter", "ProtoGetter", "Reassign"})
    \cup AllBut("Misspell", {"ignore-words"})
    \cup {<<"Misspell", "ignore-words", "ignore-rules">>}
    \cup AllBut("Predeclared", {"q"})
    \cup {<<"Predeclared", "q", "qualified-name">>}

ToLinterSettings6 ==
    Whole({"Recvcheck", "ReviveDirective", "ReviveRule", "RowsErrCheck",
        "SlogLint", "Spancheck", "StaticCheck", "TagAlign", "Tagliatelle",
        "TagliatelleBase", "TagliatelleExtendedRule"})
    \cup AllBut("Revive", {"ignore-generated-header"})
    \cup AllBut("TagliatelleCase", {"overrides"})

MutSettings7 == Whole({"Wrapcheck"})

ToLinterSettings7 ==
    Whole({"Testifylint", "TestifylintBoolCompare",
        "TestifylintExpectedActual", "TestifylintFormatter",
        "TestifylintGoRequire", "TestifylintRequireError",
        "TestifylintSuiteExtraAssertCall", "Testpackage", "Thelper",
        "ThelperOptions", "Unconvert", "UseTesting", "Varnamelen",
        "Whitespace"})
    \cup AllBut("Unparam", {"algo"})
    \cup AllBut("Unused", {"exported-is-used"})
    \cup AllBut("UseStdlibVars", {"os-dev-null", "syslog-priority"})
    \cup AllBut("Wrapcheck", {"ignoreSigs", "ignoreSigRegexps",
        "ignorePackageGlobs", "ignoreInterfaceRegexps"})
    \cup {<<"Wrapcheck", "ignoreInterfaceRegexps",
        "ignore-interface-regexps">>}
    \cup {<<"Wrapcheck", "ignorePackageGlobs", "ignore-package-globs">>}
    \cup {<<"Wrapcheck", "ignoreSigRegexps", "ignore-sig-regexps">>}
    \cup {<<"Wrapcheck", "ignoreSigs", "ignore-sigs">>}

ToLinterSettings8 ==
    Whole({"WSLv4", "CustomLinter"})

ToFormatterSettings ==
    Whole({"GoFmt", "GoFmtRewriteRule", "GoImports"})
    \cup AllBut("Gci", {"skip-generated", "local-prefixes"})
    \cup AllBut("GoFumpt", {"lang-version"})

Moves ==
    ToLinterSettings1 \cup ToLinterSettings2 \cup ToLinterSettings3 \cup
    ToLinterSettings4 \cup ToLinterSettings5 \cup ToLinterSettings6 \cup
    ToLinterSettings7 \cup ToLinterSettings8 \cup ToFormatterSettings

\* The keys of version 2 that a key of version 1 becomes: none or one.
Moved(type, key) == {m[3] : m \in {m \in Moves : m[1] = type /\ m[2] = key}}

\* The keys that are in the written file and that the loader knows.
Received(type, key) ==
    IF type \notin DOMAIN V2 \cap DOMAIN Config THEN {}
    ELSE Moved(type, key) \cap V2[type] \cap Config[type]
=============================================================================
