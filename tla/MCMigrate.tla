------------------------------ MODULE MCMigrate ------------------------------
(* Version 1 configurations for `golangci-lint migrate`.                      *)
EXTENDS Migrate

Names == {"megacheck", "gosimple", "errcheck", "dupl", "bodyclose", "gofmt", "vet", "tenv", "mine"}
AtMostOne == {{}} \cup {{n} : n \in Names}
Selections == AtMostOne \cup {{"gosimple", "stylecheck"}, {"staticcheck", "stylecheck", "gosimple"}, {"gci", "unused"}}

\* The selections that version 1 accepts.
V1Linters ==
    {l \in [mode : {"default", "enable-all", "disable-all"}, fast : BOOLEAN,
            presets : {{}, {"bugs"}, {"format", "unused"}},
            enable : Selections, disable : Selections] :
        /\ l.enable \cap l.disable = {}
        /\ l.mode = "disable-all" => l.disable = {}
        /\ l.mode = "enable-all" => l.enable = {} \/ l.fast}

Plain == [NewConfig EXCEPT !.custom = {"mine"}]

SelectionConfigs == {[Plain EXCEPT !.linters = l] : l \in V1Linters}

V1Rules ==
    {Rule({"gosimple", "typecheck"}, "p", "", "", ""), Rule({"typecheck"}, "", "p", "", ""),
     Rule({"gofmt"}, "p", "", "", ""), Rule({"vet", "gci"}, "p", "", "re", ""), Rule({}, "p", "", "", "re")}
IssueConfigs ==
    {[Plain EXCEPT !.issues = i, !.linters.enable = e, !.ignoreTests = t, !.severity = "error",
                   !.severityRules = {[base |-> r, severity |-> "info"] : r \in i.rules},
                   !.sortOrder = <<"file", "linter">>, !.relative = "cfg"] :
        i \in [include : {{}, {"EXC0011"}, {"EXC0001", "EXC0010"}}, useDefault : {"", "false"},
               generated : {"", "strict"}, caseSensitive : BOOLEAN,
               rules : {{}} \cup {{r} : r \in V1Rules}, patterns : {{}, {"re"}},
               excludes : {{"gen"}}, defaultDirs : {"", "false"}],
        e \in {{}, {"gofmt"}}, t \in {{}, {"cyclop", "goconst"}}}

SettingConfigs ==
    UNION {{[Plain EXCEPT !.setting = <<t, k>>] : k \in V1[t]} : t \in DOMAIN V1}

Straight == [format |-> "same", skip |-> FALSE, ext |-> [src |-> "yml", dst |-> "toml"], faults |-> FALSE]

\* Either of two files is found first; each format is read and written.
Extensions ==
    {[src |-> "yml", dst |-> "toml"], [src |-> "toml", dst |-> "yaml"], [src |-> "toml", dst |-> "json"],
     [src |-> "json", dst |-> "yml"]}

\* Flags and failures for one configuration, the straight way for the others.
MCWorlds ==
    [old : SelectionConfigs \cup IssueConfigs \cup SettingConfigs, opts : {Straight}]
    \cup [old : {Plain, [Plain EXCEPT !.valid = FALSE]},
          opts : [format : {"same", "other", "bad"}, skip : BOOLEAN, ext : Extensions, faults : {TRUE}]]
=============================================================================
