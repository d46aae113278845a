---------------------------- MODULE ConfigLoader ----------------------------
(***************************************************************************)
(* The loader of a version 2 configuration, pkg/config: where the file is  *)
(* searched, what the flags add, what is filled in, and what is refused.   *)
(* A configuration is a record; a rule has the linters it is for and four  *)
(* strings, "" when unset.  The string "[" stands for a regular expression *)
(* that does not compile.                                                  *)
(***************************************************************************)
EXTENDS Naturals, Sequences, FiniteSets, SequencesExt

Rule(linters, path, except, text, source) ==
    [linters |-> linters, path |-> path, except |-> except, text |-> text, source |-> source]

NewDefault ==
    [version |-> "", group |-> "", enable |-> {}, disable |-> {}, fastOnly |-> FALSE,
     formatters |-> {}, generated |-> "", presets |-> {}, rules |-> {}, paths |-> {}, pathsExcept |-> {},
     formatterPaths |-> {}, severity |-> "", severityRules |-> {}, sortOrder |-> <<>>,
     pathMode |-> "", modules |-> "", relative |-> "", custom |-> {}]

\* --config and --no-config exclude each other.
OptionsClash(opts) == opts.noConfig /\ opts.config # ""

\* The directories searched: the working directory, that of the first
\* argument with its parents, and the home directory unless it was among them.
SearchPaths(ancestors, home) ==
    LET up == <<"./">> \o ancestors
    IN IF Contains(up, home) THEN up ELSE Append(up, home)

\* The file that is read: the one asked for or the first one found, or none.
UsedFile(opts, paths, dirsWithFile) ==
    LET found == SelectSeq(paths, LAMBDA d : d \in dirsWithFile)
    IN IF opts.noConfig THEN "none"
       ELSE IF opts.config # "" THEN opts.config
       ELSE IF found = <<>> THEN "none" ELSE Head(found)

ApplyStringSliceHack(cfg, flags) ==
    [cfg EXCEPT !.enable = @ \cup flags.enable, !.disable = @ \cup flags.disable]

DefaultGenerated(cfg) == IF cfg.generated = "" THEN [cfg EXCEPT !.generated = "strict"] ELSE cfg

\* The paths excluded for the formatters become rules for the enabled ones.
HandleFormatters(cfg) ==
    IF cfg.formatters = {} THEN cfg
    ELSE [cfg EXCEPT !.rules = @ \cup {Rule(cfg.formatters, p, "", "", "") : p \in cfg.formatterPaths}]

\* --enable-only replaces what the file and the other flags have selected.
HandleEnableOnly(cfg, flags) ==
    IF flags.only = {} THEN cfg
    ELSE [cfg EXCEPT !.group = "none", !.enable = flags.only, !.disable = {},
                     !.fastOnly = FALSE, !.formatters = {}, !.formatterPaths = {}]

Loaded(cfg, flags) ==
    HandleEnableOnly(HandleFormatters(DefaultGenerated(ApplyStringSliceHack(cfg, flags))), flags)

\* A file needs version 2; flags alone need none.
VersionOk(cfg, used) == used # "none" => cfg.version = "2"

\* Checked before --enable-only takes effect.
NoTypecheck(cfg, flags) == "typecheck" \notin cfg.enable \cup cfg.disable \cup flags.enable \cup flags.disable

Conditions(rule) ==
    Cardinality({f \in {"linters", "path", "text", "source"} :
        CASE f = "linters" -> rule.linters # {}
          [] f = "path" -> rule.path # "" \/ rule.except # ""
          [] f = "text" -> rule.text # ""
          [] f = "source" -> rule.source # ""})

RuleOk(rule, min) ==
    /\ "[" \notin {rule.path, rule.except, rule.text, rule.source}
    /\ ~ (rule.path # "" /\ rule.except # "")
    /\ Conditions(rule) >= min

AllPresets == {"comments", "std-error-handling", "common-false-positives", "legacy"}

AllFormatterNames == {"gci", "gofmt", "gofumpt", "goimports", "golines", "swaggo"}

LintersOk(cfg) ==
    /\ \A r \in cfg.rules : RuleOk(r, 2)
    /\ cfg.presets \subseteq AllPresets
    /\ (cfg.enable \cup cfg.disable) \cap AllFormatterNames = {}

FormattersOk(cfg) == cfg.formatters \subseteq AllFormatterNames

SeverityOk(cfg) ==
    /\ cfg.severityRules # {} => cfg.severity # ""
    /\ \A r \in cfg.severityRules : r.severity # "" /\ RuleOk(r.base, 1)

OutputOk(cfg) ==
    /\ IsInjective(cfg.sortOrder)
    /\ ToSet(cfg.sortOrder) \subseteq {"linter", "file", "severity"}
    /\ cfg.pathMode \in {"", "abs"}

RunOk(cfg) ==
    /\ cfg.modules \in {"", "mod", "readonly", "vendor"}
    /\ cfg.relative \in {"", "gomod", "gitroot", "cfg", "wd"}

Valid(cfg) == RunOk(cfg) /\ OutputOk(cfg) /\ LintersOk(cfg) /\ FormattersOk(cfg) /\ SeverityOk(cfg)

\* Load succeeds: nothing on the way returned an error.
LoadOk(cfg, flags, opts, used) ==
    /\ ~ OptionsClash(opts)
    /\ VersionOk(cfg, used)
    /\ NoTypecheck(cfg, flags)
    /\ Valid(Loaded(cfg, flags))
=============================================================================
