------------------------------ MODULE LintRun ------------------------------
(***************************************************************************)
(* One invocation of the linter, by either command line:                   *)
(*   - the native one, crates/arrowlint-cli/src/main.rs, and               *)
(*   - the Python one, src/arrow_lint/cli.py over crates/arrowlint-python, *)
(* with the engine they share: configuration (config.rs), expansion and    *)
(* scan of the inputs (scanners.rs), rules (plugins.rs, declarative.rs),   *)
(* and the report (lib.rs, report.rs).                                     *)
(*                                                                         *)
(* The native command runs the engine once.  The Python command runs it    *)
(* for the exit status and, unless it prints JSON, a second time for what  *)
(* it prints.  Other processes may edit the inputs and the configuration   *)
(* at any moment; each run reads the configuration, the rule file, the     *)
(* directory and then file after file.                                     *)
(***************************************************************************)
EXTENDS Naturals, FiniteSets

CONSTANTS
    Paths,       \* the inputs, numbered in the order of their names
    Supported,   \* those whose name has a supported format
    Builtin,     \* checks of the built-in rules
    Declared,    \* checks of declarative rules
    RuleId,      \* the rule of a check
    SeverityOf,  \* the severity a check reports, by its rank: 1 info, 2 warning, 3 error
    Contents,    \* what a readable file may hold: the set of checks that find something
    Configs,     \* [only, disabled, fail_on] a configuration file may hold
    RuleFiles,   \* sets of declarative checks the rule file may hold
    Args,        \* invocations
    Absent,      \* content of a path that does not exist
    Broken,      \* content its scanner fails on
    Unreadable,  \* a configuration or rule file that is missing or does not parse
    NoOption,    \* a command-line option that is not given
    MaxEdits     \* bound on the edits of other processes

Checks == Builtin \cup Declared

\* Ranks of --fail-on; 4 stands for "never".
Thresholds == 1..4
DefaultThreshold == 3

Rules == {RuleId[c] : c \in Checks}

Configuration == [only: SUBSET Rules, disabled: SUBSET Rules, fail_on: 1..3]

\* An invocation: front end, output format, whether the inputs are files given by name
\* or their directory, and the options.
Invocation ==
    [front: {"native", "python"}, output: {"text", "json", "sarif"},
     named: BOOLEAN, config: BOOLEAN,
     only: (SUBSET Rules) \cup {NoOption},
     disable: SUBSET Rules,
     fail_on: Thresholds \cup {NoOption}]

ASSUME PathsAssumption    == Paths \subseteq Nat /\ IsFiniteSet(Paths) /\ Supported \subseteq Paths
ASSUME ChecksAssumption   == SeverityOf \in [Checks -> 1..3]
ASSUME ContentsAssumption == Contents \subseteq SUBSET Checks
ASSUME RulesAssumption    == RuleFiles \subseteq SUBSET Declared
ASSUME ConfigsAssumption  == Configs \subseteq Configuration
ASSUME ArgsAssumption     == Args \subseteq Invocation
ASSUME DistinctAssumption == /\ {Absent, Broken} \cap Contents = {}
                             /\ Unreadable \notin Configs /\ Unreadable \notin RuleFiles
                             /\ NoOption \notin Thresholds
ASSUME EditsAssumption    == MaxEdits \in Nat

VARIABLES
    world,       \* what each path holds now
    configFile,  \* what the configuration file holds now
    ruleFile,    \* what the declarative rule file holds now
    edits,       \* edits made since the invocation
    args,        \* the invocation
    phase,       \* "config", "rules", "expand", "scan", "report", "printed", "exited", "aborted"
    pass,        \* which run of the engine this is: 1 or 2
    config,      \* the configuration of this run
    declared,    \* the declarative checks of this run
    pending,     \* paths left to scan
    files,       \* path and content of each file scanned
    diagnostics, \* of this run
    first,       \* diagnostics of the report the Python command judges
    printed,     \* the report shown, once it is
    exit         \* 0 or 1 once the process has exited, else 2

environment == <<world, configFile, ruleFile, edits>>
engine == <<config, declared, pending, files, diagnostics>>
vars == <<environment, args, phase, pass, engine, first, printed, exit>>

Diagnostic == [path: Paths, check: Checks]
Rank(d) == SeverityOf[d.check]

DefaultConfig == [only |-> {}, disabled |-> {}, fail_on |-> DefaultThreshold]

\* Mutant: a rule named in `only' runs although it is disabled.
OnlyWins(c, rule) == rule \in c.only \/ (c.only = {} /\ rule \notin c.disabled)

\* is_rule_enabled
Enabled(c, rule) ==
    /\ c.only = {} \/ rule \in c.only
    /\ rule \notin c.disabled

\* `only' is replaced when the option is given, `disabled' is extended.
Overridden(c) ==
    [c EXCEPT !.only = IF args.only = NoOption THEN @ ELSE args.only,
              !.disabled = @ \cup args.disable]

-----------------------------------------------------------------------------
Init ==
    /\ world \in [Paths -> Contents \cup {Absent, Broken}]
    /\ configFile \in Configs \cup {Unreadable}
    /\ ruleFile \in RuleFiles \cup {Unreadable}
    /\ edits = 0
    /\ args \in Args
    /\ phase = "config"
    /\ pass = 1
    /\ config = DefaultConfig
    /\ declared = {}
    /\ pending = {}
    /\ files = {}
    /\ diagnostics = {}
    /\ first = {}
    /\ printed = {}
    /\ exit = 2

\* Another process writes or removes an input, or changes the configuration.
Edit ==
    /\ phase \notin {"exited", "aborted"}
    /\ edits < MaxEdits
    /\ edits' = edits + 1
    /\ \/ /\ \E p \in Paths, c \in Contents \cup {Absent, Broken} :
                world' = [world EXCEPT ![p] = c]
          /\ UNCHANGED <<configFile, ruleFile>>
       \/ /\ configFile' \in Configs
          /\ UNCHANGED <<world, ruleFile>>
       \/ /\ ruleFile' \in RuleFiles
          /\ UNCHANGED <<world, configFile>>
    /\ UNCHANGED <<args, phase, pass, engine, first, printed, exit>>

\* An error ends the process with status 1; nothing has been printed yet.
Fail ==
    /\ phase' = "aborted"
    /\ exit' = 1
    /\ UNCHANGED <<environment, args, pass, engine, first, printed>>

LoadConfig ==
    /\ phase = "config"
    /\ args.config => configFile # Unreadable
    /\ config' = IF args.config THEN configFile ELSE DefaultConfig
    /\ phase' = "rules"
    /\ UNCHANGED <<environment, args, pass, declared, pending, files, diagnostics,
                   first, printed, exit>>

\* The rule files the configuration names are read next; then the options apply.
LoadRules ==
    /\ phase = "rules"
    /\ args.config => ruleFile # Unreadable
    /\ declared' = IF args.config THEN ruleFile ELSE {}
    /\ config' = Overridden(config)
    /\ phase' = "expand"
    /\ UNCHANGED <<environment, args, pass, pending, files, diagnostics,
                   first, printed, exit>>

ConfigFails ==
    /\ args.config
    /\ \/ phase = "config" /\ configFile = Unreadable
       \/ phase = "rules" /\ ruleFile = Unreadable
    /\ Fail

Present == {p \in Paths : world[p] # Absent}

\* Inputs given by name must all exist; a directory gives the files it has now.
Expand ==
    /\ phase = "expand"
    /\ args.named => Present = Paths
    /\ pending' = Present
    /\ files' = {}
    /\ phase' = "scan"
    /\ UNCHANGED <<environment, args, pass, config, declared, diagnostics,
                   first, printed, exit>>

ExpandFails ==
    /\ phase = "expand"
    /\ args.named /\ Present # Paths
    /\ Fail

NextPath == CHOOSE p \in pending : \A q \in pending : p <= q

\* Mutant: a file that does not scan is passed over.
ScanFileLenient ==
    /\ phase = "scan" /\ pending # {}
    /\ LET p == NextPath IN
         /\ files' = IF p \in Supported /\ world[p] \in Contents
                     THEN files \cup {[path |-> p, content |-> world[p]]}
                     ELSE files
         /\ pending' = pending \ {p}
    /\ UNCHANGED <<environment, args, phase, pass, config, declared, diagnostics,
                   first, printed, exit>>

\* Files of unknown formats are passed over without being opened.
ScanFile ==
    /\ phase = "scan" /\ pending # {}
    /\ LET p == NextPath IN
         /\ p \in Supported => world[p] \in Contents
         /\ files' = IF p \in Supported THEN files \cup {[path |-> p, content |-> world[p]]}
                     ELSE files
         /\ pending' = pending \ {p}
    /\ UNCHANGED <<environment, args, phase, pass, config, declared, diagnostics,
                   first, printed, exit>>

\* One file that went away or does not scan, or no supported file at all, ends the run.
ScanFails ==
    /\ phase = "scan"
    /\ \/ pending # {} /\ NextPath \in Supported /\ world[NextPath] \notin Contents
       \/ pending = {} /\ files = {}
    /\ Fail

-----------------------------------------------------------------------------
Found(checks) ==
    UNION {{[path |-> f.path, check |-> c] : c \in f.content \cap checks} : f \in files}

\* RuleRegistry::check runs the enabled rules only.
RegistryCheck ==
    Found({c \in Builtin : Enabled(config, RuleId[c])})

DeclarativeCheck ==
    Found({c \in declared : Enabled(config, RuleId[c])})

\* lint_paths after the scan: rules, declarative rules, and the final retain.
Check ==
    /\ phase = "scan" /\ pending = {} /\ files # {}
    /\ diagnostics' = {d \in RegistryCheck \cup DeclarativeCheck :
                           Enabled(config, RuleId[d.check])}
    /\ phase' = "report"
    /\ UNCHANGED <<environment, args, pass, config, declared, pending, files,
                   first, printed, exit>>

\* Mutant: every run is followed by another.
RunForever ==
    /\ phase = "report"
    /\ args.front = "python" /\ args.output # "json"
    /\ first' = diagnostics
    /\ pass' = 2
    /\ phase' = "config"
    /\ UNCHANGED <<environment, args, engine, printed, exit>>

\* The Python command keeps this report for the exit status and runs the engine again
\* for text and SARIF.
RunAgain ==
    /\ phase = "report"
    /\ args.front = "python" /\ args.output # "json" /\ pass = 1
    /\ first' = diagnostics
    /\ pass' = 2
    /\ phase' = "config"
    /\ UNCHANGED <<environment, args, engine, printed, exit>>

ShowReport ==
    /\ phase = "report"
    /\ args.front = "python" /\ args.output # "json" => pass = 2
    /\ printed' = diagnostics
    /\ first' = IF pass = 1 THEN diagnostics ELSE first
    /\ phase' = "printed"
    /\ UNCHANGED <<environment, args, pass, engine, exit>>

\* The native command takes the threshold from the configuration, the Python command
\* from --fail-on.
Threshold ==
    IF args.front = "native" THEN config.fail_on
    ELSE IF args.fail_on = NoOption THEN DefaultThreshold ELSE args.fail_on

\* Mutant: a diagnostic at the threshold does not fail the run.
Exceeds(reported, threshold) == \E d \in reported : Rank(d) > threshold

\* has_failure_at, _exit_code
Failing(reported, threshold) == \E d \in reported : Rank(d) >= threshold

\* Mutant: the status counts the diagnostics.
ExitWithCount ==
    /\ phase = "printed"
    /\ exit' = Cardinality({d \in first : Rank(d) >= Threshold})
    /\ phase' = "exited"
    /\ UNCHANGED <<environment, args, pass, engine, first, printed>>

Exit ==
    /\ phase = "printed"
    /\ exit' = IF Failing(first, Threshold) THEN 1 ELSE 0
    /\ phase' = "exited"
    /\ UNCHANGED <<environment, args, pass, engine, first, printed>>

Step ==
    \/ LoadConfig
    \/ LoadRules
    \/ ConfigFails
    \/ Expand
    \/ ExpandFails
    \/ ScanFile
    \/ ScanFails
    \/ Check
    \/ RunAgain
    \/ ShowReport
    \/ Exit

Next == Step \/ Edit

\* The process runs on its own; what the other processes do is up to them.
Spec == Init /\ [][Next]_vars /\ WF_vars(Step)

-----------------------------------------------------------------------------
TypeOK ==
    /\ world \in [Paths -> Contents \cup {Absent, Broken}]
    /\ configFile \in Configs \cup {Unreadable}
    /\ ruleFile \in RuleFiles \cup {Unreadable}
    /\ edits \in 0..MaxEdits
    /\ args \in Args
    /\ phase \in {"config", "rules", "expand", "scan", "report", "printed", "exited", "aborted"}
    /\ pass \in {1, 2}
    /\ config \in Configuration
    /\ declared \subseteq Declared
    /\ pending \subseteq Paths
    /\ files \subseteq [path: Supported, content: Contents]
    /\ diagnostics \subseteq Diagnostic
    /\ first \subseteq Diagnostic
    /\ printed \subseteq Diagnostic
    /\ exit \in 0..2

\* The report that is printed is the report that decides: the native command, and JSON.
Direct(a) == a.front = "native" \/ a.output = "json"

\* main.rs and cli.py decide the status from the report they show.  For text and SARIF
\* the Python command judges an earlier run of the engine, so there it takes inputs
\* that nobody edits.
ExitMatchesReport ==
    phase = "exited" /\ (Direct(args) \/ edits = 0)
       => (exit = 1 <=> \E d \in printed : Rank(d) >= Threshold)

\* README.md: an empty `only' runs every rule, a non-empty one those rules, `disabled'
\* takes precedence, and the options select for one invocation.
Selected(rule) ==
    LET base == IF args.config THEN configFile ELSE DefaultConfig
        only == IF args.only = NoOption THEN base.only ELSE args.only
    IN (only = {} \/ rule \in only) /\ rule \notin base.disabled \cup args.disable

Expected ==
    {d \in Diagnostic :
        /\ d.path \in Supported
        /\ world[d.path] \in Contents
        /\ d.check \in world[d.path]
        /\ d.check \in Builtin \/ (args.config /\ d.check \in ruleFile)
        /\ Selected(RuleId[d.check])}

\* Both front ends, with every format, report exactly what the selected rules find.
ReportIsExact ==
    phase \in {"printed", "exited"} /\ edits = 0 => printed = Expected

\* A report stands for all of its inputs: none that was named is passed over, whatever
\* happens to the files while the engine works through them.
NothingSkipped ==
    phase \in {"report", "printed", "exited"} /\ args.named
       => {f.path : f \in files} = Supported

Termination == <>(phase \in {"exited", "aborted"})

\* The report the status is taken from, once there is one: the report shown where that
\* is direct, else the one of the first run, which nobody sees.
Judged ==
    IF Direct(args) THEN printed
    ELSE IF phase \in {"printed", "exited"} THEN first ELSE {}

status ==
    CASE phase = "printed" -> "reported"
      [] phase = "exited"  -> IF exit = 0 THEN "passed" ELSE "failed"
      [] phase = "aborted" -> "failed"
      [] OTHER             -> "running"

Gate == INSTANCE LintGate WITH
    Diagnostics <- Diagnostic,
    RankOf      <- [d \in Diagnostic |-> Rank(d)],
    shown       <- Judged,
    threshold   <- IF phase \in {"printed", "exited"} THEN Threshold ELSE 0

\* main.rs and cli.py: one report decides, shown before the process exits if it is shown at
\* all, and the status follows from it, whatever other processes do meanwhile.
ImplementsGate == Gate!Spec

\* cli.py describes --fail-on as overriding the threshold of the configuration, so
\* without the option that threshold decides.
ConfigThresholdHonoured ==
    phase = "exited" /\ edits = 0 /\ args.fail_on = NoOption /\ args.config
       => (exit = 1 <=> Failing(printed, configFile.fail_on))

=============================================================================
