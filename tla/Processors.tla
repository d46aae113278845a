----------------------------- MODULE Processors -----------------------------
(***************************************************************************)
(* The result processors, pkg/result/processors: what becomes of the       *)
(* issues between the linters and the printer.  All of them run in one     *)
(* goroutine, one after the other, so each is a function on the sequence   *)
(* of issues; the counters that a processor keeps start empty in every run *)
(* and live for one call of Process, which is what the functions compute.  *)
(*                                                                         *)
(* An issue is a record: linter, file, line, text, source (the text of its *)
(* line), edits (those of its suggested fixes), expect ("" or, for the     *)
(* report of nolintlint on a possibly unused directive, the linter that    *)
(* the directive is for, or "any"), severity and path (the form of its     *)
(* file name).  A file is a record: kind, clause and parses (its package   *)
(* clause, all of it is well formed), generated (the strictest mode that   *)
(* takes it for generated, or "no"), dirs (the path patterns that match),  *)
(* changed (the lines that are new), directives, and for a file with a     *)
(* //line directive the file and the lines it claims to be.                *)
(***************************************************************************)
EXTENDS ConfigLoader, Loops, TLC

IsTypecheck(issue) == issue.linter = "typecheck"

\* filterIssues and filterIssuesErr never hide a compile error.
FilterIssues(issues, Pass(_)) ==
    Filter(issues, LAMBDA i : IsTypecheck(i) \/ Pass(i))

TransformIssues(issues, Transform(_)) ==
    <<>> \o [n \in DOMAIN issues |-> Transform(issues[n])]

-----------------------------------------------------------------------------
(***************************************************************************)
(* Paths.                                                                  *)
(***************************************************************************)
PathAbsoluter(issues) ==
    TransformIssues(issues, LAMBDA i : [i EXCEPT !.path = "absolute"])

Cgo(files, issues) == FilterIssues(issues, LAMBDA i : files[i.file].kind # "cgo")

\* The mappers come from the files of the analysed packages that parse.
FilenameUnadjuster(files, analysed, issues) ==
    LET claims == {f \in analysed : files[f].parses /\ files[f].claims # ""}
        Real(name) == CHOOSE f \in claims : files[f].claims = name
    IN TransformIssues(issues, LAMBDA i :
          IF \E f \in claims : files[f].claims = i.file
          THEN [i EXCEPT !.file = Real(i.file), !.line = @ + files[Real(i.file)].shift]
          ELSE i)

\* With a compile error nothing else is worth reporting; otherwise an issue
\* needs a Go file or go.mod.
InvalidIssue(files, issues) ==
    LET compile == Filter(issues, IsTypecheck)
    IN IF compile # <<>> THEN compile
       ELSE Filter(issues, LAMBDA i : files[i.file].kind \in {"go", "mod"})

PathRelativity(issues) == TransformIssues(issues, LAMBDA i : [i EXCEPT !.path = "both"])

PathPrettifier(cfg, issues) ==
    IF cfg.pathMode = "abs" THEN issues
    ELSE TransformIssues(issues, LAMBDA i : [i EXCEPT !.path = "relative"])

-----------------------------------------------------------------------------
(***************************************************************************)
(* Exclusions.                                                             *)
(***************************************************************************)
ExclusionPaths(cfg, files, issues) ==
    FilterIssues(issues, LAMBDA i :
        /\ files[i.file].dirs \cap cfg.paths = {}
        /\ cfg.pathsExcept # {} => files[i.file].dirs \cap cfg.pathsExcept # {})

IsGeneratedFile(cfg, file) ==
    file.generated \in (IF cfg.generated = "strict" THEN {"strict"} ELSE {"strict", "lax"})

\* A file without a package clause is an error.
GeneratedFilterFails(cfg, files, issues) ==
    /\ cfg.generated # "disable"
    /\ \E i \in ToSet(issues) : ~IsTypecheck(i) /\ files[i.file].kind # "mod" /\ ~files[i.file].clause

\* After an error the runner goes on with the issues it had.
GeneratedFileFilter(cfg, files, issues) ==
    IF cfg.generated = "disable" \/ GeneratedFilterFails(cfg, files, issues) THEN issues
    ELSE FilterIssues(issues, LAMBDA i : files[i.file].kind = "mod" \/ ~IsGeneratedFile(cfg, files[i.file]))

RuleMatches(rule, files, i) ==
    /\ rule # Rule({}, "", "", "", "")
    /\ rule.text # "" => rule.text = i.text
    /\ rule.path # "" => rule.path \in files[i.file].dirs
    /\ rule.except # "" => rule.except \notin files[i.file].dirs
    /\ rule.linters # {} => i.linter \in rule.linters
    /\ rule.source # "" => rule.source = i.source

\* Each exclusion of a preset is for the messages its reference stands for.
PresetRules(preset) ==
    LET Excludes(linter, references) == {Rule({linter}, "", "", r, "") : r \in references}
    IN CASE preset = "comments" ->
              Excludes("staticcheck", {"EXC0011"})
              \cup Excludes("revive", {"EXC0012", "EXC0013", "EXC0014", "EXC0015"})
         [] preset = "std-error-handling" -> Excludes("errcheck", {"EXC0001"})
         [] preset = "common-false-positives" -> Excludes("gosec", {"EXC0006", "EXC0007", "EXC0010"})
         [] preset = "legacy" ->
              Excludes("govet", {"EXC0004"}) \cup Excludes("staticcheck", {"EXC0005"})
              \cup Excludes("gosec", {"EXC0008", "EXC0009"})

ExclusionRules(cfg, files, issues) ==
    LET rules == cfg.rules \cup UNION {PresetRules(p) : p \in cfg.presets}
    IN FilterIssues(issues, LAMBDA i : ~ \E r \in rules : RuleMatches(r, files, i))

-----------------------------------------------------------------------------
(***************************************************************************)
(* nolint directives.  A directive covers the lines from..to, and up to    *)
(* the line last of the node below it when the two begin in one column.    *)
(* The copy that is expanded shares the map of matched linters.            *)
(***************************************************************************)
\* buildIgnoredRangesForFile: as written, then as expanded.
IgnoredRanges(file) ==
    LET ds == file.directives
        inline == [n \in DOMAIN ds |-> [d |-> n, from |-> ds[n].from, to |-> ds[n].to]]
        nodes == Filter(Upto(Len(ds)), LAMBDA n : ds[n].last # 0)
        Longer(a, b) == IF a < b THEN b ELSE a
        expanded == [k \in DOMAIN nodes |->
            [d |-> nodes[k], from |-> ds[nodes[k]].from, to |-> Longer(ds[nodes[k]].to, ds[nodes[k]].last)]]
    IN IF file.parses THEN inline \o expanded ELSE <<>>

\* matched are the pairs of a directive and a linter it has hidden.
DoesMatch(file, range, matched, i) ==
    LET linters == file.directives[range.d].linters
        Hid(linter) == <<range.d, linter>> \in matched
    IN /\ range.from <= i.line /\ i.line <= range.to
       /\ \/ linters = {} /\ i.linter # "nolintlint"
          \/ i.linter \in linters
          \/ i.linter = "nolintlint" /\ i.expect = "any" /\ \E p \in matched : p[1] = range.d
          \/ i.linter = "nolintlint" /\ i.expect # "" /\ Hid(i.expect)

MutNolintlintLast(issues) == issues
NolintlintLast(issues) ==
    Filter(issues, LAMBDA i : i.linter # "nolintlint") \o Filter(issues, LAMBDA i : i.linter = "nolintlint")

\* Reports on directives come last: by then it is known what was hidden.  A
\* directive for a linter that is not enabled is never called unused.  The
\* first range that matches notes it.
NolintFilter(files, enabled, issues) ==
    LET sorted == NolintlintLast(issues)
        Foreign(i) == i.linter = "nolintlint" /\ i.expect \notin {"", "any"} \cup enabled
        Filtered(acc, i) ==
            LET ranges == IgnoredRanges(files[i.file])
                matched == {<<m[2], m[3]>> : m \in {m \in acc.matched : m[1] = i.file}}
                hits == {k \in DOMAIN ranges : DoesMatch(files[i.file], ranges[k], matched, i)}
                first == CHOOSE k \in hits : \A j \in hits : k <= j
            IN IF Foreign(i) THEN acc
               ELSE IF IsTypecheck(i) \/ hits = {} THEN [acc EXCEPT !.out = Append(@, i)]
               ELSE [acc EXCEPT !.matched = @ \cup {<<i.file, ranges[first].d, i.linter>>}]
        after[n \in 0..Len(sorted)] ==
            IF n = 0 THEN [matched |-> {}, out |-> <<>>]
            ELSE LET before == after[n - 1] IN Filtered(before, sorted[n])
    IN after[Len(sorted)].out

-----------------------------------------------------------------------------
(***************************************************************************)
(* Changes, limits and order.                                              *)
(***************************************************************************)
MutDiff(diff, files, issues) ==
    IF diff # "on" THEN issues ELSE Filter(issues, LAMBDA i : i.line \in files[i.file].changed)

\* PrepareDiff runs once: package selection and this filter see one diff.  If
\* it failed the processor fails, and the issues stay.
Diff(diff, files, issues) ==
    IF diff # "on" THEN issues
    ELSE FilterIssues(issues, LAMBDA i : i.line \in files[i.file].changed)

\* The first issues of each key, up to its limit.
AtMost(Limit(_), Key(_), issues) ==
    Picked(issues, {n \in 1..Len(issues) :
        Cardinality({m \in 1..n : Key(issues[m]) = Key(issues[n])}) <= Limit(issues[n])})

UniqByLine(limits, issues) ==
    IF limits.uniq THEN AtMost(LAMBDA i : 1, LAMBDA i : <<i.file, i.line>>, issues) ELSE issues

MaxPerFileFromLinter(fix, issues) ==
    AtMost(LAMBDA i : IF ~fix /\ i.linter \in AllFormatterNames THEN 1 ELSE Len(issues),
           LAMBDA i : <<i.file, i.linter>>, issues)

MaxSameIssues(limits, issues) ==
    IF limits.same = 0 THEN issues ELSE AtMost(LAMBDA i : limits.same, LAMBDA i : i.text, issues)

MaxFromLinter(limits, issues) ==
    IF limits.linter = 0 THEN issues ELSE AtMost(LAMBDA i : limits.linter, LAMBDA i : i.linter, issues)

\* The first rule that matches; "@linter" keeps what the linter has said.
Severity(default, rules, files, issues) ==
    LET Matching(i) == {n \in DOMAIN rules : RuleMatches(rules[n].base, files, i)}
        First(i) == rules[CHOOSE n \in Matching(i) : \A m \in Matching(i) : n <= m].severity
        Level(i) == IF Matching(i) # {} /\ First(i) # "" THEN First(i) ELSE default
    IN IF rules = <<>> /\ default = "" THEN issues
       ELSE TransformIssues(issues, LAMBDA i :
                IF Level(i) = "@linter" THEN i ELSE [i EXCEPT !.severity = Level(i)])

\* names has the names of linters and files as strings.Compare orders them.
Rank(names, name) == CHOOSE n \in DOMAIN names : names[n] = name

Compare(a, b) == IF a < b THEN -1 ELSE IF a > b THEN 1 ELSE 0

\* A line of zero or less compares equal to every other.
NumericCompare(a, b) == IF a <= 0 \/ b <= 0 THEN 0 ELSE Compare(a, b)

SeverityCompare(names, a, b) ==
    LET classic == <<"low", "medium", "high", "warning", "error">>
        Known(s) == s \in ToSet(classic)
    IN CASE Known(a) /\ Known(b) -> Compare(Rank(classic, a), Rank(classic, b))
         [] Known(a) /\ ~Known(b) -> 1
         [] ~Known(a) /\ Known(b) -> -1
         [] OTHER -> Compare(Rank(names, a), Rank(names, b))

\* The comparators of each order, one after the other; columns are left out.
SortResults(cfg, names, issues) ==
    LET orders == IF cfg.sortOrder = <<>> THEN <<"linter", "file">> ELSE cfg.sortOrder
        By(order, a, b) ==
            CASE order = "linter" -> Compare(Rank(names, a.linter), Rank(names, b.linter))
              [] order = "severity" -> SeverityCompare(names, a.severity, b.severity)
              [] order = "file" ->
                   IF a.file # b.file THEN Compare(Rank(names, a.file), Rank(names, b.file))
                   ELSE NumericCompare(a.line, b.line)
        Less(a, b) == \E n \in DOMAIN orders :
                          By(orders[n], a, b) = -1 /\ \A m \in 1..(n - 1) : By(orders[m], a, b) = 0
        places == SortSeq(Upto(Len(issues)), LAMBDA m, n : Less(issues[m], issues[n]))
    IN [n \in 1..Len(issues) |-> issues[places[n]]]

-----------------------------------------------------------------------------
(***************************************************************************)
(* The fixer.  An edit replaces the bytes from..to by new.                 *)
(***************************************************************************)
SortEdits(edits) == SortSeq(edits, LAMBDA a, b : a.from < b.from \/ (a.from = b.from /\ a.to < b.to))

\* validateEdits: equal edits are one, neighbours must not overlap.
Conflict(edits) ==
    LET sorted == SortEdits(edits)
    IN \E n \in 1..(Len(sorted) - 1) :
         sorted[n] # sorted[n + 1] /\ sorted[n].to > sorted[n + 1].from

\* The linters whose edits of a file are given up: those at odds with
\* themselves, then of each pair at odds the one that sorts first, in the
\* order in which the map of linters happens to be walked.
ExcludedLinters(names, edits, walk) ==
    LET own == {l \in DOMAIN edits : Conflict(edits[l])}
        pairs == SetToSortSeq({p \in (DOMAIN walk) \X (DOMAIN walk) : p[2] < p[1]},
                              LAMBDA a, b : a[1] < b[1] \/ (a[1] = b[1] /\ a[2] < b[2]))
        AtOdds(x, y) == Conflict(edits[x] \o edits[y])
        First(x, y) == IF Rank(names, x) < Rank(names, y) THEN x ELSE y
        out[n \in 0..Len(pairs)] ==
            IF n = 0 THEN own
            ELSE LET before == out[n - 1] x == walk[pairs[n][1]] y == walk[pairs[n][2]]
                 IN IF {x, y} \cap before # {} \/ ~AtOdds(x, y) THEN before ELSE before \cup {First(x, y)}
    IN out[Len(pairs)]

Fixable(i) == i.linter \notin AllFormatterNames /\ i.edits # <<>>

NotFixable(issues) == Filter(issues, LAMBDA i : i.linter \notin AllFormatterNames /\ i.edits = <<>>)

\* The linters that are given up in each of the files to be edited.
ExcludedChoices(names, issues) ==
    LET all == ToSet(issues)
        paths == {i.file : i \in {j \in all : Fixable(j)}}
        Linters(f) == {i.linter : i \in {j \in all : Fixable(j) /\ j.file = f}}
        EditsOf(f) == [l \in Linters(f) |->
            LET own == Filter(issues, LAMBDA i : Fixable(i) /\ i.file = f /\ i.linter = l)
            IN FlattenSeq([n \in DOMAIN own |-> own[n].edits])]
        excluded(f) == {ExcludedLinters(names, EditsOf(f), walk) : walk \in SetToSeqs(Linters(f))}
    IN {c \in [paths -> UNION {excluded(f) : f \in paths}] : \A f \in paths : c[f] \in excluded(f)}

\* The outcomes of Fixer.Process: the issues passed on, the issues whose edits
\* were written, the files written.  An edit that ends before it begins stops
\* it before anything is written, and no issue is passed on.
FixerOutcomes(fix, files, names, issues) ==
    LET all == ToSet(issues)
        touched == {i.file : i \in {j \in all : Fixable(j) \/ j.linter \in AllFormatterNames}}
    IN IF ~fix THEN {[issues |-> issues, fixed |-> {}, written |-> {}]}
       ELSE IF \E i \in all : Fixable(i) /\ \E n \in DOMAIN i.edits : i.edits[n].from > i.edits[n].to
       THEN {[issues |-> <<>>, fixed |-> {}, written |-> {}]}
       ELSE {[issues |-> NotFixable(issues),
              fixed |-> {i \in all : Fixable(i) /\ i.linter \notin c[i.file] /\ files[i.file].writable},
              written |-> {f \in touched : files[f].writable}] : c \in ExcludedChoices(names, issues)}
=============================================================================
