------------------------------- MODULE Migrate -------------------------------
(***************************************************************************)
(* The command `golangci-lint migrate`: it reads a version 1 file, saves a *)
(* copy of it, converts it and writes the version 2 file, in the same or   *)
(* in another format.  Every system call may fail and the process may die  *)
(* between two of them; the user may then run the command again.  At last  *)
(* a run of golangci-lint loads what was written.                          *)
(*                                                                         *)
(* A version 1 configuration old has the selection of linters (LintersV1), *)
(* the exclusions, the rules of severity, the linters told to ignore test  *)
(* files, and one key of the settings (SettingsTables).                    *)
(***************************************************************************)
EXTENDS ConfigLoader, LinterCatalog, LintersV1, SettingsTables

CONSTANTS Worlds,       \* the version 1 configurations, each with the flags:
                        \* --format ("same" extension, "other" or "bad") and
                        \* --skip-validation; the extensions of the source
                        \* and the destination; and whether anything fails
          MaxMigrations \* how often the command is run, at most

VARIABLES mpc,     \* the next step of the command, "idle" when there is none
          msrc,    \* the configuration file in use
          mread,   \* what that file held when it was read into c.cfg
          old,     \* the configuration in the version 1 file
          mopts,   \* the flags
          files,   \* what the source, the destination and the backup of
                   \* either hold; "bare" is a version 2 file without any of old
          newCfg,  \* what toConfig has made of old
          mruns,   \* how often the command was started
          loaded   \* what a later run of golangci-lint gets from the new file

migrateVars == <<mpc, msrc, mread, old, mopts, files, newCfg, mruns, loaded>>

NoResult == [ok |-> FALSE, used |-> "none", linters |-> {}, keys |-> {}]

-----------------------------------------------------------------------------
(***************************************************************************)
(* The conversion.                                                         *)
(***************************************************************************)
\* migrate_linters_exclusions.go: InternalReferences of LinterExclusionPresets.
LinterExclusionPresets ==
    [comments |-> {"EXC0011", "EXC0012", "EXC0013", "EXC0014", "EXC0015"}]
    @@ ("std-error-handling" :> {"EXC0001"})
    @@ ("common-false-positives" :> {"EXC0006", "EXC0007", "EXC0010"})
    @@ ("legacy" :> {"EXC0004", "EXC0005", "EXC0008", "EXC0009"})

\* lax was the default of version 1, strict is that of version 2.
ToExclusionGenerated(issues) ==
    CASE issues.generated = "" -> "lax"
      [] issues.generated = "strict" -> ""
      [] OTHER -> issues.generated

\* A preset is dropped as soon as one of its exclusions was included again.
ToPresets(issues) ==
    IF issues.useDefault = "false" THEN {}
    ELSE {p \in DOMAIN LinterExclusionPresets : LinterExclusionPresets[p] \cap issues.include = {}}

AddPrefix(issues, s) == IF s # "" /\ issues.caseSensitive THEN "(?i)re" ELSE s

\* A rule that was only for removed linters or for formatters is dropped.
MutEmptied(rule, names) == FALSE

Emptied(rule, names) == rule.linters # {} /\ names = {}

ExclusionNames(linters) ==
    OnlyLinterNames(ConvertStaticcheckLinterNames(ConvertAlternativeNames(linters)))

ConvertedRules(issues) ==
    {Rule(ExclusionNames(r.linters), r.path, r.except,
          AddPrefix(issues, r.text), AddPrefix(issues, r.source)) :
        r \in {r \in issues.rules : ~Emptied(r, ExclusionNames(r.linters))}}

PatternRules(issues) == {Rule({}, "(.+)\\.go$", "", AddPrefix(issues, p), "") : p \in issues.patterns}

LinterTestExclusions(ignoreTests) ==
    IF ignoreTests = {} THEN {} ELSE {Rule(ignoreTests, "(.+)_test\\.go", "", "", "")}

DefaultDirs(issues) ==
    IF issues.defaultDirs = "false" THEN {} ELSE {"third_party$", "builtin$", "examples$"}

\* Rules about formatters become paths that are not formatted.
PathsFromRules(issues) ==
    {r.path : r \in {r \in issues.rules : /\ ConvertAlternativeNames(r.linters) \cap FormatterNames # {}
                                          /\ r.path # ""}}

ToFormatterPaths(o) ==
    (IF EffectiveFormatters(o.linters) = {} THEN {} ELSE o.issues.excludes)
    \cup DefaultDirs(o.issues) \cup PathsFromRules(o.issues)

ToSeverityRules(o) ==
    LET Names(r) == ConvertStaticcheckLinterNames(ConvertAlternativeNames(r.base.linters))
    IN {[r EXCEPT !.base.linters = Names(r)] :
           r \in {r \in o.severityRules : ~Emptied(r.base, Names(r))}}

GetDefaultName(linters) ==
    CASE linters.mode = "disable-all" -> "none"
      [] linters.mode = "enable-all" -> "all"
      [] linters.mode = "default" -> ""

\* cfg is the new default of relative-path-mode.
ToRelative(o) == IF o.relative = "cfg" THEN "" ELSE o.relative

ToConfig(o) ==
    LET e == EffectiveLinters(o.linters)
    IN [NewDefault EXCEPT
          !.version = "2",
          !.group = GetDefaultName(o.linters),
          !.enable = OnlyLinterNames(ConvertStaticcheckLinterNames(e.enable)),
          !.disable = OnlyLinterNames(ConvertDisabledStaticcheckLinterNames(e.disable)),
          !.formatters = EffectiveFormatters(o.linters),
          !.generated = ToExclusionGenerated(o.issues),
          !.presets = ToPresets(o.issues),
          !.rules = ConvertedRules(o.issues) \cup PatternRules(o.issues)
                    \cup LinterTestExclusions(o.ignoreTests),
          !.paths = o.issues.excludes \cup DefaultDirs(o.issues),
          !.formatterPaths = ToFormatterPaths(o),
          !.severity = o.severity,
          !.severityRules = ToSeverityRules(o),
          !.sortOrder = o.sortOrder,
          !.relative = ToRelative(o),
          !.custom = o.custom]

-----------------------------------------------------------------------------
(***************************************************************************)
(* The command.                                                            *)
(***************************************************************************)
\* versionone.NewConfig, which is what an empty file is read as.
NewConfig ==
    [linters |-> [mode |-> "default", fast |-> FALSE, presets |-> {}, enable |-> {}, disable |-> {}],
     issues |-> [include |-> {}, useDefault |-> "", generated |-> "", caseSensitive |-> FALSE,
                 rules |-> {}, patterns |-> {}, excludes |-> {}, defaultDirs |-> ""],
     ignoreTests |-> {}, severity |-> "", severityRules |-> {}, sortOrder |-> <<>>, relative |-> "",
     custom |-> {}, setting |-> <<>>, valid |-> TRUE]

MigrateInit ==
    /\ mpc = "load"
    /\ \E w \in Worlds : old = w.old /\ mopts = w.opts
    /\ msrc = "none" /\ mread = "none"
    /\ files = [src |-> "v1", dst |-> "none", bck |-> "none", dstBck |-> "none"]
    /\ newCfg = NewDefault
    /\ mruns = 1
    /\ loaded = NoResult

\* Nobody migrates.
MigrateIdle ==
    /\ mpc = "idle" /\ msrc = "none" /\ mread = "none" /\ old = <<>> /\ mopts = <<>>
    /\ files = [src |-> "none", dst |-> "none", bck |-> "none", dstBck |-> "none"]
    /\ newCfg = NewDefault /\ mruns = 0 /\ loaded = NoResult

\* The place of an extension in viper's search for .golangci.*.
SearchRank == [json |-> 1, toml |-> 2, yaml |-> 3, yml |-> 4]

\* The file that the search finds; the extensions decide which of two.
ConfigFileUsed ==
    LET there == {f \in {"src", "dst"} : files[f] # "none"}
    IN IF there = {} THEN "none"
       ELSE IF /\ "dst" \in there
               /\ "src" \in there => SearchRank[mopts.ext.dst] < SearchRank[mopts.ext.src]
            THEN "dst" ELSE "src"

\* Where the new configuration goes.
DstPath == IF mopts.format = "same" THEN msrc ELSE "dst"

MGoto(pc) == mpc' = pc /\ UNCHANGED <<msrc, mread, old, mopts, newCfg, mruns, loaded>>

\* viper cannot decode an empty JSON file; the other formats have no such rule.
Undecodable(f) == files[f] = "empty" /\ mopts.ext[f] = "json"

\* persistentPreRunE: a cut file of version 2 cannot be decoded or still
\* begins with its version.
MLoad ==
    /\ mpc = "load"
    /\ msrc' = ConfigFileUsed
    /\ msrc' # "none" => ~Undecodable(msrc')
    /\ mread' = IF msrc' = "none" THEN "none" ELSE files[msrc']
    /\ mpc' = IF msrc' = "none" THEN "end" ELSE "check"
    /\ UNCHANGED <<old, mopts, files, newCfg, mruns, loaded>>

MLoadFails ==
    /\ mpc = "load" /\ ConfigFileUsed # "none"
    /\ files[ConfigFileUsed] = "cut" \/ Undecodable(ConfigFileUsed)
    /\ MGoto("end")
    /\ UNCHANGED files

MutValidates == TRUE

\* validateConfiguration: the YAML decoder, which is also for JSON, fails at the
\* end of an empty file; the TOML decoder makes an empty map of it, and the
\* schema of version 1 requires no key.
Validates ==
    mopts.skip \/ IF files[msrc] = "empty" THEN mopts.ext[msrc] = "toml" ELSE old.valid

MPreRun ==
    /\ mpc = "check"
    /\ MGoto(IF /\ mopts.format # "bad"
                /\ files[msrc] \notin {"v2", "bare", "cut"}
                /\ Validates
             THEN "backup" ELSE "end")
    /\ UNCHANGED files

\* backupConfigurationFile names the copy after the file in use.
BackupPath == IF msrc = "src" THEN "bck" ELSE "dstBck"

\* os.WriteFile truncates and then writes.
MBackupOpen ==
    /\ mpc = "backup"
    /\ MGoto("backup write")
    /\ files' = [files EXCEPT ![BackupPath] = "empty"]

MBackupWrite ==
    /\ mpc = "backup write"
    /\ MGoto("create")
    /\ files' = [files EXCEPT ![BackupPath] = files[msrc]]

\* Stat, read, open or write fails; nothing else was touched yet.
MBackupFails ==
    /\ mpc \in {"backup", "backup write"} /\ mopts.faults
    /\ MGoto("end")
    /\ UNCHANGED files

\* saveNewConfiguration; from here on a source of another format is removed
\* when execute returns, however it returns.
MCreate ==
    /\ mpc = "create"
    /\ mpc' = "encode"
    /\ newCfg' = ToConfig(IF mread = "empty" THEN NewConfig ELSE old)
    /\ files' = [files EXCEPT ![DstPath] = "empty"]
    /\ UNCHANGED <<msrc, mread, old, mopts, mruns, loaded>>

MCreateFails == mpc = "create" /\ mopts.faults /\ MGoto("cleanup") /\ UNCHANGED files

MEncode ==
    /\ mpc = "encode"
    /\ MGoto("cleanup")
    /\ files' = [files EXCEPT ![DstPath] = IF mread = "empty" THEN "bare" ELSE "v2"]

MEncodeFails ==
    /\ mpc = "encode" /\ mopts.faults
    /\ MGoto("cleanup")
    /\ \E cut \in {"empty", "cut"} : files' = [files EXCEPT ![DstPath] = cut]

\* The deferred os.RemoveAll(srcPath), whose error nobody sees.
MCleanup ==
    /\ mpc = "cleanup"
    /\ MGoto("end")
    /\ files' \in {files} \cup (IF DstPath # msrc THEN {[files EXCEPT ![msrc] = "none"]} ELSE {})

MCrash ==
    /\ mpc \in {"backup write", "create", "encode", "cleanup"} /\ mopts.faults
    /\ MGoto("end")
    /\ UNCHANGED files

\* The user runs the command again.
MAgain ==
    /\ mpc = "end" /\ mopts.faults /\ mruns < MaxMigrations
    /\ mpc' = "load"
    /\ mruns' = mruns + 1
    /\ UNCHANGED <<msrc, mread, old, mopts, files, newCfg, loaded>>

\* golangci-lint run with the new file.
MUse ==
    /\ mpc = "end" /\ ConfigFileUsed # "none" /\ files[ConfigFileUsed] \in {"v2", "bare"}
    /\ mpc' = "used"
    /\ LET flags == [enable |-> {}, disable |-> {}, only |-> {}]
           opts == [noConfig |-> FALSE, config |-> ""]
           cfg == Loaded(newCfg, flags)
           known == Catalog \cup {PluginLinter(n, TRUE) : n \in cfg.custom}
       IN loaded' =
            [ok |-> LoadOk(newCfg, flags, opts, ConfigFileUsed) /\ NamesAreKnown(known, cfg),
             used |-> files[ConfigFileUsed],
             linters |-> NamesOf(BuildLinters(known, cfg, cfg.formatters)),
             keys |-> IF old.setting = <<>> \/ files[ConfigFileUsed] = "bare" THEN {}
                      ELSE Received(old.setting[1], old.setting[2])]
    /\ UNCHANGED <<msrc, mread, old, mopts, files, newCfg, mruns>>

MigrateNext ==
    \/ MLoad \/ MLoadFails \/ MPreRun
    \/ MBackupOpen \/ MBackupWrite \/ MBackupFails
    \/ MCreate \/ MCreateFails \/ MEncode \/ MEncodeFails
    \/ MCleanup \/ MCrash \/ MAgain \/ MUse

MigrateSpec == MigrateInit /\ [][MigrateNext]_migrateVars

-----------------------------------------------------------------------------
(***************************************************************************)
(* Properties.                                                             *)
(***************************************************************************)
\* What version 1 ran, as the comments of the filters say: the base set and
\* the presets, without the slow ones for fast, then enable, then disable.
V1Runs(linters) ==
    LET base == CASE linters.mode = "default" -> Default
                  [] linters.mode = "enable-all" -> AllLinters
                  [] linters.mode = "disable-all" -> {}
        fast == KeepFast(linters, base \cup OnlyPresets(linters))
    IN ToNames((fast \cup Named(linters.enable)) \ Named(linters.disable))

\* Every linter and formatter of version 1 runs with the migrated file exactly
\* if it ran with the old one.  Of the three that became staticcheck: it runs
\* only if one of them did.  A file that was converted from what a killed
\* migration had left empty has nothing of the old one.
MigrationKeepsLinters ==
    LET before == V1Runs(old.linters)
        family == {"staticcheck"} \cup Merged
    IN loaded.used = "v2" =>
        /\ \A n \in ToNames(AllLinters) \ family : n \in before <=> n \in loaded.linters
        /\ "staticcheck" \in loaded.linters => before \cap family # {}

\* The new version loads and validates whatever the migration has written, also
\* when it had to rename, merge or drop linters of rules; and a setting that the
\* migration moves arrives under a key that the migrated file can express and
\* that the new version reads, since viper ignores other keys silently.
MigratedConfigLoads ==
    loaded.used # "none" =>
        /\ loaded.ok
        /\ loaded.used = "v2" /\ old.setting # <<>> => Moved(old.setting[1], old.setting[2]) = loaded.keys

\* A TOML file is converted in place: an empty one validates, so that a second
\* migration takes what a killed first one left for a version 1 file.
TomlInPlace == mopts.ext.src = "toml" /\ mopts.format = "same"

\* However often the command fails, is killed or is repeated, the version 1
\* configuration is still in the source or in the backup file.  Only for a TOML
\* file converted in place does the code promise that of one migration alone.
V1ConfigSurvives ==
    mruns > 0 /\ ~mopts.skip =>
        "v1" \in {files.src, files.bck} \/ (TomlInPlace /\ mruns > 1)
=============================================================================
