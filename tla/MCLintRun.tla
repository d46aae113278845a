----------------------------- MODULE MCLintRun -----------------------------
(* Source trees, configurations and flags for `golangci-lint run`.         *)
EXTENDS LintRun

Issue(linter, file, line, text) ==
    [linter |-> linter, file |-> file, line |-> line, text |-> text, source |-> "src", edits |-> <<>>,
     expect |-> "", severity |-> "", path |-> "relative"]
Unused(line, linter) == [Issue("nolintlint", "a.go", line, "unused directive") EXCEPT !.expect = linter]
Edit(from, to, new) == [from |-> from, to |-> to, new |-> new]
Fixed(linter, line, edits) == [Issue(linter, "a.go", line, "fix me") EXCEPT !.edits = edits]
Directive(from, last, linters) == [from |-> from, to |-> from, last |-> last, linters |-> linters]

File(kind) ==
    [kind |-> kind, clause |-> kind = "go", parses |-> kind = "go", generated |-> "no", dirs |-> {},
     changed |-> {}, directives |-> <<>>, claims |-> "", shift |-> 0, writable |-> TRUE]
Tree ==
    [f \in {"a.go", "a_test.go", "b.go", "c.go"} |-> File("go")]
    @@ ("go.mod" :> File("mod")) @@ ("page.qtpl" :> File("other")) @@ ("_cgo_gotypes.go" :> File("cgo"))

Pkg(id, path, variantOf, files, imports) ==
    [id |-> id, path |-> path, variantOf |-> variantOf, files |-> files, imports |-> imports,
     testMain |-> FALSE, error |-> ""]
Pkgs ==
    <<Pkg("a", "a", "", {"a.go"}, {}), Pkg("a [a.test]", "a", "a", {"a.go", "a_test.go"}, {"b"}),
      Pkg("b", "b", "", {"b.go", "_cgo_gotypes.go"}, {"d"}), Pkg("c", "c", "", {"c.go"}, {"b"}),
      [Pkg("a.test", "a.test", "", {}, {"a [a.test]"}) EXCEPT !.testMain = TRUE]>>

RunConfig == [NewDefault EXCEPT !.version = "2", !.group = "none", !.enable = {"errcheck", "lll", "nolintlint"}]
PlainRun ==
    [cfg |-> RunConfig, flags |-> [enable |-> {}, disable |-> {}, only |-> {}],
     opts |-> [noConfig |-> FALSE, config |-> ""], used |-> "./", limits |-> [uniq |-> TRUE, same |-> 3, linter |-> 50],
     fix |-> FALSE, diff |-> "off", issuesCode |-> 1, parallel |-> TRUE, serial |-> FALSE, timeout |-> FALSE,
     failOnWarnings |-> FALSE, oldGo |-> FALSE, narrow |-> TRUE, pkgs |-> Pkgs,
     deps |-> {Pkg("d", "d", "", {}, {})}, files |-> Tree,
     found |-> <<Issue("lll", "c.go", 2, "long"), Issue("errcheck", "b.go", 2, "EXC0001")>>,
     names |-> <<"", "_cgo_gotypes.go", "a.go", "a_test.go", "b.go", "c.go", "errcheck", "go.mod", "godot", "gofmt", "gomoddirectives", "lll",
                 "misspell", "nolintlint", "page.qtpl", "typecheck">>,
     severityRules |-> <<>>, faults |-> FALSE]

\* Changes: which file changed, what does not compile, which linters run.
Failing(input, where) ==
    CASE where = "none" -> input
      [] where = "d" -> [input EXCEPT !.deps = {[d EXCEPT !.error = "compile"] : d \in @}]
      [] where = "c" -> [input EXCEPT !.pkgs[4].error = "compile"]
Changes ==
    {Failing([PlainRun EXCEPT !.diff = d, !.narrow = n, !.files[f].changed = {2}, !.cfg.enable = e,
                           !.cfg.presets = x, !.limits.same = s,
                           !.found = @ \o <<Issue("lll", "a_test.go", 2, "long"), Issue("lll", "c.go", 2, "long"),
                                            Issue("gomoddirectives", "go.mod", 2, "replace")>>], w) :
        d \in {"on", "broken"}, n \in BOOLEAN, f \in {"a.go", "a_test.go", "c.go", "go.mod"},
        e \in {{"errcheck", "lll"}, {"lll"}, {"errcheck", "lll", "gomoddirectives"}},
        x \in {{}, {"std-error-handling"}}, s \in {0, 1}, w \in {"none", "c", "d"}}

\* Directives, in every order of what is found.
Directives ==
    {<<>>, <<Directive(2, 0, {"lll"})>>, <<Directive(2, 0, {})>>, <<Directive(2, 5, {"lll"}), Directive(4, 0, {"lll"})>>,
     <<Directive(2, 5, {}), Directive(4, 0, {"errcheck", "lll"})>>, <<Directive(2, 5, {"nolintlint"}), Directive(4, 0, {"lll"})>>}
Reports(ds) ==
    UNION {{Unused(ds[n].from, l) : l \in IF ds[n].linters = {} THEN {"any"} ELSE ds[n].linters} : n \in DOMAIN ds}
Nolints ==
    UNION {{[PlainRun EXCEPT !.files["a.go"].directives = ds, !.found = s, !.cfg.enable = e] :
        s \in SetToSeqs({Issue("lll", "a.go", n, "long"), Issue("errcheck", "a.go", 4, "m")} \cup Reports(ds)),
        e \in {{"errcheck", "lll", "nolintlint"}, {"errcheck", "nolintlint"}}} : ds \in Directives, n \in {2, 4, 6}}

\* Exclusions, generated and preprocessed files, the order of what is shown.
Messages ==
    <<Issue("lll", "page.qtpl", 3, "long"), Issue("errcheck", "b.go", 2, "EXC0001"), Issue("lll", "_cgo_gotypes.go", 2, "long"),
      Issue("gofmt", "c.go", 2, "format"), Issue("gofmt", "c.go", 4, "format"), Issue("lll", "c.go", 0, "long")>>
Exclusions ==
    {[PlainRun EXCEPT !.found = Messages, !.files["b.go"].generated = g, !.cfg.generated = m, !.files["a.go"].claims = "page.qtpl",
                   !.files["a.go"].shift = 1, !.files["b.go"].clause = k, !.files["c.go"].dirs = {"pc"}, !.cfg.formatters = {"gofmt"},
                   !.cfg.rules = r, !.cfg.paths = q, !.cfg.pathsExcept = x, !.cfg.sortOrder = o, !.cfg.severity = v,
                   !.severityRules = <<[base |-> Rule({"lll"}, "", "", "", ""), severity |-> "error"]>>] :
        g \in {"no", "lax", "strict"}, m \in {"", "lax", "disable"}, k \in BOOLEAN,
        r \in {{}, {Rule({"lll"}, "pc", "", "", "")}, {Rule({"errcheck"}, "", "pc", "EXC0001", "src")}},
        q \in {{}, {"pc"}}, x \in {{}, {"pc"}}, o \in {<<>>, <<"severity", "file">>}, v \in {"@linter", "low"}}

\* Fixes.
Fixes ==
    {[PlainRun EXCEPT !.fix = TRUE, !.found = <<Fixed("godot", 2, a), Fixed("lll", 2, b), Fixed("misspell", 2, <<Edit(2, 4, "z")>>),
                                             Issue("gofmt", "b.go", 2, "format"), Issue("errcheck", "a.go", 4, "m")>>,
                   !.cfg.enable = @ \cup {"misspell", "godot"}, !.cfg.formatters = {"gofmt"}, !.files["a.go"].writable = w] :
        a \in {<<>>, <<Edit(1, 3, "x")>>, <<Edit(1, 3, "x"), Edit(2, 4, "y")>>, <<Edit(3, 1, "x")>>},
        b \in {<<>>, <<Edit(1, 3, "x")>>, <<Edit(3, 5, "y")>>}, w \in BOOLEAN}

\* Failures, the timeout, and what the loader or the database refuse.
Endings ==
    {[PlainRun EXCEPT !.faults = f, !.timeout = t, !.failOnWarnings = w, !.issuesCode = c, !.oldGo = o, !.found = s,
                   !.cfg.enable = @ \cup {"copyloopvar"}] :
        f \in BOOLEAN, t \in BOOLEAN, w \in BOOLEAN, c \in {0, 1}, o \in BOOLEAN, s \in {<<>>, PlainRun.found}}
    \cup {[PlainRun EXCEPT !.cfg.enable = e] : e \in {{}, {"typecheck"}, {"nonsense"}}}
    \cup {[PlainRun EXCEPT !.cfg.group = "nonsense"]}
    \cup {[PlainRun EXCEPT !.pkgs[4].error = e] : e \in {"no Go files", "cannot find", "compile"}}
    \cup {[PlainRun EXCEPT !.pkgs = <<>>], [PlainRun EXCEPT !.flags.only = {"lll"}], [PlainRun EXCEPT !.cfg.version = ""]}

\* Two runners and the lock.
Locks == [PlainRun EXCEPT !.parallel = FALSE]
First == {[Locks EXCEPT !.faults = TRUE, !.serial = s] : s \in BOOLEAN}
Second == {[Locks EXCEPT !.serial = s] : s \in BOOLEAN}

MCInputs == [{"p"} -> Changes \cup Nolints \cup Exclusions \cup Fixes \cup Endings] \cup [p : First, q : Second]
=============================================================================
