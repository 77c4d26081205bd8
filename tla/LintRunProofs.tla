--------------------------- MODULE LintRunProofs ---------------------------
(* Proofs about an invocation of the linter, for every set of inputs,      *)
(* rules, configurations and options: its type invariant, that it          *)
(* implements LintGate, that a report stands for every input that was      *)
(* named, and that the report and the status are those that README.md      *)
(* promises when nobody edits the inputs meanwhile.                        *)
EXTENDS LintRun, TLAPS

USE PathsAssumption, ChecksAssumption, ContentsAssumption, RulesAssumption,
    ConfigsAssumption, ArgsAssumption, EditsAssumption

-----------------------------------------------------------------------------
LEMMA InitType == Init => TypeOK
<1> SUFFICES ASSUME Init PROVE TypeOK
  OBVIOUS
<1>1. DefaultConfig \in Configuration
  BY DEF DefaultConfig, Configuration, DefaultThreshold
<1>2. QED
  BY <1>1 DEF Init, TypeOK

\* Applying the options to a configuration gives a configuration.
LEMMA OverriddenType ==
    ASSUME args \in Args, NEW c \in Configuration
    PROVE  Overridden(c) \in Configuration
<1>1. args.only \in (SUBSET Rules) \cup {NoOption} /\ args.disable \in SUBSET Rules
  BY DEF Invocation
<1>2. /\ c.only \in SUBSET Rules /\ c.disabled \in SUBSET Rules /\ c.fail_on \in 1..3
      /\ c = [only |-> c.only, disabled |-> c.disabled, fail_on |-> c.fail_on]
  BY DEF Configuration
<1> DEFINE only == IF args.only = NoOption THEN c.only ELSE args.only
           disabled == c.disabled \cup args.disable
<1>3. only \in SUBSET Rules
  <2>1. CASE args.only = NoOption
    <3>1. only = c.only  BY <2>1
    <3> HIDE DEF only
    <3>2. QED  BY <1>2, <3>1
  <2>2. CASE args.only # NoOption
    <3>1. only = args.only  BY <2>2
    <3>2. args.only \in SUBSET Rules  BY <1>1, <2>2
    <3> HIDE DEF only
    <3>3. QED  BY <3>1, <3>2
  <2>3. QED  BY <2>1, <2>2
<1>4. disabled \in SUBSET Rules
  BY <1>1, <1>2
<1>5. Overridden(c) = [c EXCEPT !.only = only, !.disabled = disabled]
  BY <1>2 DEF Overridden
<1> HIDE DEF only, disabled
<1>6. QED  BY <1>3, <1>4, <1>5 DEF Configuration

LEMMA FoundType ==
    ASSUME files \subseteq [path: Supported, content: Contents],
           NEW checks, checks \subseteq Checks
    PROVE  Found(checks) \subseteq Diagnostic
<1> SUFFICES ASSUME NEW d \in Found(checks) PROVE d \in Diagnostic
  OBVIOUS
<1>1. PICK f \in files : d \in {[path |-> f.path, check |-> c] : c \in f.content \cap checks}
  BY DEF Found
<1>2. PICK c \in f.content \cap checks : d = [path |-> f.path, check |-> c]
  BY <1>1
<1>3. f.path \in Paths /\ c \in Checks
  BY <1>2
<1>4. QED  BY <1>2, <1>3 DEF Diagnostic

LEMMA NextType == TypeOK /\ [Next]_vars => TypeOK'
<1> SUFFICES ASSUME TypeOK, [Next]_vars PROVE TypeOK'
  OBVIOUS
<1> USE DEF TypeOK, environment, engine
<1>0. DefaultConfig \in Configuration
  BY DEF DefaultConfig, Configuration, DefaultThreshold
<1>1. CASE LoadConfig
  <2>1. config' \in Configuration
    BY <1>0, <1>1 DEF LoadConfig
  <2>2. QED  BY <1>1, <2>1 DEF LoadConfig
<1>2. CASE LoadRules
  <2>1. config' \in Configuration
    BY <1>2, OverriddenType DEF LoadRules
  <2>2. declared' \subseteq Declared
    BY <1>2 DEF LoadRules
  <2>3. QED  BY <1>2, <2>1, <2>2 DEF LoadRules
<1>3. CASE ConfigFails
  BY <1>3 DEF ConfigFails, Fail
<1>4. CASE Expand
  BY <1>4 DEF Expand, Present
<1>5. CASE ExpandFails
  BY <1>5 DEF ExpandFails, Fail
<1>6. CASE ScanFile
  <2>1. files' \subseteq [path: Supported, content: Contents]
    BY <1>6 DEF ScanFile
  <2>2. QED  BY <1>6, <2>1 DEF ScanFile
<1>7. CASE ScanFails
  BY <1>7 DEF ScanFails, Fail
<1>8. CASE Check
  <2>1. RegistryCheck \subseteq Diagnostic
    <3>1. {c \in Builtin : Enabled(config, RuleId[c])} \subseteq Checks
      BY DEF Checks
    <3>2. QED  BY <3>1, FoundType DEF RegistryCheck
  <2>2. DeclarativeCheck \subseteq Diagnostic
    <3>1. {c \in declared : Enabled(config, RuleId[c])} \subseteq Checks
      BY DEF Checks
    <3>2. QED  BY <3>1, FoundType DEF DeclarativeCheck
  <2>3. diagnostics' \subseteq Diagnostic
    BY <1>8, <2>1, <2>2 DEF Check
  <2>4. QED  BY <1>8, <2>3 DEF Check
<1>9. CASE RunAgain
  BY <1>9 DEF RunAgain
<1>10. CASE ShowReport
  BY <1>10 DEF ShowReport
<1>11. CASE Exit
  BY <1>11 DEF Exit
<1>12. CASE Edit
  <2>1. edits' \in 0..MaxEdits
    BY <1>12 DEF Edit
  <2>2. world' \in [Paths -> Contents \cup {Absent, Broken}]
    BY <1>12 DEF Edit
  <2>3. configFile' \in Configs \cup {Unreadable} /\ ruleFile' \in RuleFiles \cup {Unreadable}
    BY <1>12 DEF Edit
  <2>4. QED  BY <1>12, <2>1, <2>2, <2>3 DEF Edit
<1>13. CASE UNCHANGED vars
  BY <1>13 DEF vars
<1>14. QED
  BY <1>1, <1>2, <1>3, <1>4, <1>5, <1>6, <1>7, <1>8, <1>9, <1>10, <1>11, <1>12, <1>13
     DEF Next, Step

\* The state of an invocation is typed in every reachable state.
THEOREM TypeCorrect == Spec => []TypeOK
BY InitType, NextType, PTL DEF Spec

-----------------------------------------------------------------------------
(* The refinement.  An invocation that shows the report it judges runs the *)
(* engine once, so the report kept for the status is the one printed.      *)

OneReport ==
    /\ Direct(args) => pass = 1
    /\ phase \in {"printed", "exited"} /\ Direct(args) => first = printed
    /\ phase \notin {"printed", "exited"} => printed = {}
    /\ exit = 2 <=> phase \notin {"exited", "aborted"}
    /\ phase = "exited" => exit \in {0, 1}

LEMMA OneReportInit == Init => OneReport
BY DEF Init, OneReport

LEMMA OneReportNext == OneReport /\ [Next]_vars => OneReport'
<1> SUFFICES ASSUME OneReport, [Next]_vars PROVE OneReport'
  OBVIOUS
<1> USE DEF OneReport, Direct, environment, engine
<1>1. CASE LoadConfig  BY <1>1 DEF LoadConfig
<1>2. CASE LoadRules  BY <1>2 DEF LoadRules
<1>3. CASE ConfigFails  BY <1>3 DEF ConfigFails, Fail
<1>4. CASE Expand  BY <1>4 DEF Expand
<1>5. CASE ExpandFails  BY <1>5 DEF ExpandFails, Fail
<1>6. CASE ScanFile  BY <1>6 DEF ScanFile
<1>7. CASE ScanFails  BY <1>7 DEF ScanFails, Fail
<1>8. CASE Check  BY <1>8 DEF Check
<1>9. CASE RunAgain  BY <1>9 DEF RunAgain
<1>10. CASE ShowReport  BY <1>10 DEF ShowReport
<1>11. CASE Exit  BY <1>11 DEF Exit
<1>12. CASE Edit  BY <1>12 DEF Edit
<1>13. CASE UNCHANGED vars  BY <1>13 DEF vars
<1>14. QED
  BY <1>1, <1>2, <1>3, <1>4, <1>5, <1>6, <1>7, <1>8, <1>9, <1>10, <1>11, <1>12, <1>13
     DEF Next, Step

LEMMA ThresholdType == TypeOK => Threshold \in Thresholds
<1> SUFFICES ASSUME TypeOK PROVE Threshold \in Thresholds
  OBVIOUS
<1>1. config.fail_on \in 1..3
  BY DEF TypeOK, Configuration
<1>2. args.fail_on \in Thresholds \cup {NoOption}
  BY DEF TypeOK, Invocation
<1>3. QED
  BY <1>1, <1>2 DEF Threshold, Thresholds, DefaultThreshold

\* What the gate sees of a state.
GateThreshold == IF phase \in {"printed", "exited"} THEN Threshold ELSE 0

LEMMA GateStep ==
    ASSUME TypeOK, OneReport, [Next]_vars
    PROVE  [Gate!Next]_(Gate!vars)
<1> DEFINE RankOf == [d \in Diagnostic |-> Rank(d)]
<1> USE DEF environment, engine, Judged, Direct
<1>1. ASSUME phase \notin {"printed", "exited", "aborted"},
             phase' \notin {"printed", "exited", "aborted"},
             printed' = printed, args' = args
      PROVE  UNCHANGED Gate!vars
  BY <1>1 DEF Gate!vars, status
<1>2. ASSUME Fail, phase \in {"config", "rules", "expand", "scan"}
      PROVE  Gate!Abort
  BY <1>2 DEF Fail, Gate!Abort, status
<1>3. CASE LoadConfig  BY <1>1, <1>3 DEF LoadConfig
<1>4. CASE LoadRules  BY <1>1, <1>4 DEF LoadRules
<1>5. CASE ConfigFails  BY <1>2, <1>5 DEF ConfigFails, Gate!Next
<1>6. CASE Expand  BY <1>1, <1>6 DEF Expand
<1>7. CASE ExpandFails  BY <1>2, <1>7 DEF ExpandFails, Gate!Next
<1>8. CASE ScanFile  BY <1>1, <1>8 DEF ScanFile
<1>9. CASE ScanFails  BY <1>2, <1>9 DEF ScanFails, Gate!Next
<1>10. CASE Check  BY <1>1, <1>10 DEF Check
<1>11. CASE RunAgain  BY <1>1, <1>11 DEF RunAgain
<1>12. CASE ShowReport
  <2>1. /\ phase = "report" /\ phase' = "printed"
        /\ printed' \subseteq Diagnostic /\ first' \subseteq Diagnostic
        /\ args' = args /\ config' = config
    BY <1>12 DEF ShowReport, TypeOK
  <2>2. Threshold' \in 1..4
    <3>1. Threshold' = Threshold  BY <2>1 DEF Threshold
    <3>2. QED  BY <3>1, ThresholdType DEF Thresholds
  <2>3. Judged' \in SUBSET Diagnostic
    BY <2>1
  <2>4. Gate!Report
    BY <2>1, <2>2, <2>3 DEF Gate!Report, status
  <2>5. QED  BY <2>4 DEF Gate!Next
<1>13. CASE Exit
  <2>1. /\ phase = "printed" /\ phase' = "exited" /\ printed' = printed /\ first' = first
        /\ first = Judged /\ first \subseteq Diagnostic
        /\ args' = args /\ config' = config
        /\ exit' = IF Failing(first, Threshold) THEN 1 ELSE 0
    BY <1>13 DEF Exit, OneReport, TypeOK
  <2>2. Threshold' = Threshold /\ Judged' = Judged
    BY <2>1 DEF Threshold
  <2>3. Failing(first, Threshold) <=> \E d \in Judged : RankOf[d] >= Threshold
    BY <2>1 DEF Failing
  <2>4. Gate!Decide
    BY <2>1, <2>2, <2>3 DEF Gate!Decide, status
  <2>5. QED  BY <2>4 DEF Gate!Next
<1>14. CASE Edit
  BY <1>14 DEF Edit, Gate!vars, status, Threshold
<1>15. CASE UNCHANGED vars
  BY <1>15 DEF vars, Gate!vars, status, Threshold
<1>16. QED
  BY <1>3, <1>4, <1>5, <1>6, <1>7, <1>8, <1>9, <1>10, <1>11, <1>12, <1>13, <1>14, <1>15
     DEF Next, Step

\* main.rs and cli.py keep the promise of LintGate: one report decides, and the status
\* follows from it, whatever other processes do to the inputs meanwhile.
THEOREM GateImplemented == Spec => ImplementsGate
<1>1. Init => Gate!Init
  BY DEF Init, Gate!Init, status, Judged
<1>2. TypeOK /\ OneReport /\ [Next]_vars => [Gate!Next]_(Gate!vars)
  BY GateStep
<1>3. QED
  BY <1>1, <1>2, TypeCorrect, OneReportInit, OneReportNext, PTL
     DEF Spec, ImplementsGate, Gate!Spec

-----------------------------------------------------------------------------
(* The inputs.  While the engine works through the files that were named,  *)
(* each supported one is either pending or scanned.                        *)

ScannedPaths == {f.path : f \in files}

NamedInv ==
    args.named =>
      /\ phase = "scan" => Supported \subseteq pending \cup ScannedPaths
      /\ phase \in {"report", "printed", "exited"} => ScannedPaths = Supported

LEMMA NamedInit == Init => NamedInv
BY DEF Init, NamedInv

LEMMA NamedNext == TypeOK /\ NamedInv /\ [Next]_vars => NamedInv'
<1> SUFFICES ASSUME TypeOK, NamedInv, [Next]_vars PROVE NamedInv'
  OBVIOUS
<1> USE DEF NamedInv, environment, engine
<1>0. ScannedPaths \subseteq Supported
  BY DEF TypeOK, ScannedPaths
<1>1. CASE LoadConfig  BY <1>1 DEF LoadConfig
<1>2. CASE LoadRules  BY <1>2 DEF LoadRules
<1>3. CASE ConfigFails  BY <1>3 DEF ConfigFails, Fail
<1>4. CASE Expand
  <2>1. args.named => pending' = Paths
    BY <1>4 DEF Expand
  <2>2. QED  BY <1>4, <2>1 DEF Expand
<1>5. CASE ExpandFails  BY <1>5 DEF ExpandFails, Fail
<1>6. CASE ScanFile
  <2> DEFINE p == NextPath
  <2>1. /\ phase = "scan" /\ phase' = "scan" /\ args' = args
        /\ pending' = pending \ {p}
        /\ files' = IF p \in Supported THEN files \cup {[path |-> p, content |-> world[p]]}
                    ELSE files
    BY <1>6 DEF ScanFile
  <2> HIDE DEF p
  <2>2. ScannedPaths' = IF p \in Supported THEN ScannedPaths \cup {p} ELSE ScannedPaths
    <3>1. CASE p \in Supported
      <4>1. files' = files \cup {[path |-> p, content |-> world[p]]}
        BY <2>1, <3>1
      <4>2. [path |-> p, content |-> world[p]].path = p
        OBVIOUS
      <4>3. \A x : (\E f \in files' : x = f.path) <=> (\E f \in files : x = f.path) \/ x = p
        BY <4>1, <4>2
      <4>4. QED  BY <3>1, <4>3 DEF ScannedPaths
    <3>2. CASE p \notin Supported
      BY <2>1, <3>2 DEF ScannedPaths
    <3>3. QED  BY <3>1, <3>2
  <2>3. QED  BY <2>1, <2>2
<1>7. CASE ScanFails  BY <1>7 DEF ScanFails, Fail
<1>8. CASE Check
  <2>1. ScannedPaths' = ScannedPaths  BY <1>8 DEF Check, ScannedPaths
  <2>2. QED  BY <1>0, <1>8, <2>1 DEF Check
<1>9. CASE RunAgain  BY <1>9 DEF RunAgain
<1>10. CASE ShowReport  BY <1>10 DEF ShowReport, ScannedPaths
<1>11. CASE Exit  BY <1>11 DEF Exit, ScannedPaths
<1>12. CASE Edit  BY <1>12 DEF Edit, ScannedPaths
<1>13. CASE UNCHANGED vars  BY <1>13 DEF vars, ScannedPaths
<1>14. QED
  BY <1>1, <1>2, <1>3, <1>4, <1>5, <1>6, <1>7, <1>8, <1>9, <1>10, <1>11, <1>12, <1>13
     DEF Next, Step

\* A report stands for every supported input that was named, whatever happens to the files
\* while the engine works through them.
THEOREM NothingSkippedCorrect == Spec => []NothingSkipped
<1>1. NamedInv => NothingSkipped
  BY DEF NamedInv, NothingSkipped, ScannedPaths
<1>2. QED  BY <1>1, NamedInit, NamedNext, TypeCorrect, PTL DEF Spec

-----------------------------------------------------------------------------
(* The report.  As long as nobody edits an input or the configuration,     *)
(* each run of the engine works on what the invocation selects, so each    *)
(* ends with the report that the documentation promises.                   *)

BaseConfig == IF args.config THEN configFile ELSE DefaultConfig

\* A file that the engine can scan, and what is noted of it.
Scannable(p) == p \in Supported /\ world[p] \in Contents
Scanned(p) == [path |-> p, content |-> world[p]]

ConfigExact ==
    /\ phase \in {"rules", "expand", "scan"} => BaseConfig \in Configuration
    /\ phase = "rules" => config = BaseConfig
    /\ phase \in {"expand", "scan"}
         => /\ config = Overridden(BaseConfig)
            /\ declared = IF args.config THEN ruleFile ELSE {}

FilesExact ==
    phase = "scan" =>
      /\ \A f \in files : Scannable(f.path) /\ f = Scanned(f.path)
      /\ \A p \in Supported : Scannable(p) => p \in pending \/ Scanned(p) \in files

ReportsExact ==
    /\ phase = "report" => diagnostics = Expected
    /\ pass = 2 => first = Expected
    /\ phase \in {"printed", "exited"} => printed = Expected /\ first = Expected

ExactInv == edits = 0 => ConfigExact /\ FilesExact /\ ReportsExact

LEMMA ExactInit == Init => ExactInv
BY DEF Init, ExactInv, ConfigExact, FilesExact, ReportsExact

\* is_rule_enabled, asked of the effective configuration, is the documented selection.
LEMMA EnabledIsSelected ==
    ASSUME TypeOK, BaseConfig \in Configuration, NEW rule
    PROVE  Enabled(Overridden(BaseConfig), rule) <=> Selected(rule)
<1> DEFINE base == BaseConfig
           only == IF args.only = NoOption THEN base.only ELSE args.only
           disabled == base.disabled \cup args.disable
<1>1. base = [only |-> base.only, disabled |-> base.disabled, fail_on |-> base.fail_on]
  BY DEF Configuration
<1>2. Overridden(base).only = only /\ Overridden(base).disabled = disabled
  <2> HIDE DEF base
  <2>1. QED  BY <1>1 DEF Overridden
<1>3. Selected(rule) <=> (only = {} \/ rule \in only) /\ rule \notin disabled
  BY DEF Selected, BaseConfig
<1> HIDE DEF base, only, disabled
<1>4. QED  BY <1>2, <1>3 DEF Enabled, base

\* The rules find in the scanned files what is expected of the inputs.
LEMMA CheckIsExact ==
    ASSUME TypeOK, edits = 0, ExactInv, Check, BaseConfig \in Configuration
    PROVE  diagnostics' = Expected
<1>1. /\ config = Overridden(BaseConfig)
      /\ declared = IF args.config THEN ruleFile ELSE {}
      /\ \A f \in files : Scannable(f.path) /\ f = Scanned(f.path)
      /\ \A p \in Supported : Scannable(p) => Scanned(p) \in files
  BY DEF Check, ExactInv, ConfigExact, FilesExact
<1>2. \A rule : Enabled(config, rule) <=> Selected(rule)
  BY <1>1, EnabledIsSelected
<1>3. ASSUME NEW checks, checks \subseteq Checks, NEW d
      PROVE  d \in Found(checks)
               <=> /\ d \in Diagnostic
                   /\ Scannable(d.path) /\ d.check \in world[d.path]
                   /\ d.check \in checks
  <2>1. ASSUME d \in Found(checks)
        PROVE  /\ d \in Diagnostic
               /\ Scannable(d.path) /\ d.check \in world[d.path]
               /\ d.check \in checks
    <3>1. PICK f \in files : d \in {[path |-> f.path, check |-> c] : c \in f.content \cap checks}
      BY <2>1 DEF Found
    <3>2. PICK c \in f.content \cap checks : d = [path |-> f.path, check |-> c]
      BY <3>1
    <3>3. Scannable(f.path) /\ f.content = world[f.path]
      <4>1. f = Scanned(f.path)  BY <1>1
      <4>2. f.content = world[f.path]  BY <4>1 DEF Scanned
      <4>3. QED  BY <1>1, <4>2
    <3>4. d \in Diagnostic
      BY <1>3, <2>1, FoundType DEF TypeOK
    <3>5. QED  BY <3>2, <3>3, <3>4
  <2>2. ASSUME d \in Diagnostic, Scannable(d.path), d.check \in world[d.path], d.check \in checks
        PROVE  d \in Found(checks)
    <3>1. Scanned(d.path) \in files
      BY <1>1, <2>2 DEF Scannable
    <3>2. d = [path |-> d.path, check |-> d.check]
      BY <2>2 DEF Diagnostic
    <3>3. d \in {[path |-> Scanned(d.path).path, check |-> c] : c \in Scanned(d.path).content \cap checks}
      BY <2>2, <3>2 DEF Scanned
    <3>4. QED  BY <3>1, <3>3 DEF Found
  <2>3. QED  BY <2>1, <2>2
<1>4. ASSUME NEW d
      PROVE  d \in diagnostics' <=> d \in Expected
  <2> DEFINE builtin == {c \in Builtin : Enabled(config, RuleId[c])}
             declarative == {c \in declared : Enabled(config, RuleId[c])}
  <2>1. builtin \subseteq Checks /\ declarative \subseteq Checks
    BY DEF Checks, TypeOK
  <2>2. d \in diagnostics'
          <=> d \in Found(builtin) \cup Found(declarative) /\ Enabled(config, RuleId[d.check])
    BY DEF Check, RegistryCheck, DeclarativeCheck
  <2>3. d \in Found(builtin)
          <=> /\ d \in Diagnostic
              /\ Scannable(d.path) /\ d.check \in world[d.path]
              /\ d.check \in builtin
    <3> HIDE DEF builtin
    <3>1. QED  BY <1>3, <2>1
  <2>4. d \in Found(declarative)
          <=> /\ d \in Diagnostic
              /\ Scannable(d.path) /\ d.check \in world[d.path]
              /\ d.check \in declarative
    <3> HIDE DEF declarative
    <3>1. QED  BY <1>3, <2>1
  <2>5. d.check \in declared <=> args.config /\ d.check \in ruleFile
    BY <1>1
  <2>6. QED  BY <1>2, <2>2, <2>3, <2>4, <2>5 DEF Expected, Scannable
<1>5. QED  BY <1>4

\* Nothing but an edit changes what an invocation selects.
LEMMA ExpectedKept ==
    ASSUME world' = world, configFile' = configFile, ruleFile' = ruleFile, args' = args
    PROVE  /\ Expected' = Expected
           /\ BaseConfig' = BaseConfig
           /\ \A c : Overridden(c)' = Overridden(c)
           /\ \A p : Scannable(p)' = Scannable(p) /\ Scanned(p)' = Scanned(p)
BY DEF Expected, Selected, BaseConfig, Overridden, Scannable, Scanned

LEMMA ExactNext == TypeOK /\ ExactInv /\ [Next]_vars => ExactInv'
<1> SUFFICES ASSUME TypeOK, ExactInv, [Next]_vars, edits' = 0
             PROVE  (ConfigExact /\ FilesExact /\ ReportsExact)'
  BY DEF ExactInv
<1> USE ExpectedKept DEF ConfigExact, FilesExact, ReportsExact, environment, engine
<1>0. edits = 0 /\ ConfigExact /\ FilesExact /\ ReportsExact
  <2>1. edits = 0
    <3>1. CASE Edit
      BY <3>1 DEF Edit, TypeOK
    <3>2. CASE Step
      BY <3>2 DEF Step, LoadConfig, LoadRules, ConfigFails, Expand, ExpandFails, ScanFile,
                  ScanFails, Check, RunAgain, ShowReport, Exit, Fail
    <3>3. QED  BY <3>1, <3>2 DEF Next, vars
  <2>2. QED  BY <2>1 DEF ExactInv
<1> USE <1>0
<1>1. CASE LoadConfig
  <2>1. BaseConfig \in Configuration
    <3>1. DefaultConfig \in Configuration
      BY DEF DefaultConfig, Configuration, DefaultThreshold
    <3>2. args.config => configFile \in Configs
      BY <1>1 DEF LoadConfig, TypeOK
    <3>3. QED  BY <3>1, <3>2 DEF BaseConfig
  <2>2. QED  BY <1>1, <2>1 DEF LoadConfig, BaseConfig
<1>2. CASE LoadRules
  BY <1>2 DEF LoadRules
<1>3. CASE ConfigFails  BY <1>3 DEF ConfigFails, Fail
<1>4. CASE Expand
  <2>1. \A p \in Supported : Scannable(p) => p \in Present
    BY DistinctAssumption DEF Scannable, Present
  <2>2. QED  BY <1>4, <2>1 DEF Expand
<1>5. CASE ExpandFails  BY <1>5 DEF ExpandFails, Fail
<1>6. CASE ScanFile
  <2> DEFINE p == NextPath
  <2>1. /\ phase = "scan" /\ phase' = "scan" /\ args' = args /\ pass' = pass
        /\ UNCHANGED <<world, configFile, ruleFile, config, declared, first, printed>>
        /\ p \in Supported => world[p] \in Contents
        /\ pending' = pending \ {p}
        /\ files' = IF p \in Supported THEN files \cup {Scanned(p)} ELSE files
    BY <1>6 DEF ScanFile, Scanned
  <2> HIDE DEF p
  <2>2. Scanned(p).path = p
    BY DEF Scanned
  <2>3. \A f \in files' : Scannable(f.path)' /\ f = Scanned(f.path)'
    BY <2>1, <2>2 DEF Scannable
  <2>4. \A q \in Supported : Scannable(q) => q \in pending' \/ Scanned(q) \in files'
    BY <2>1
  <2>5. QED  BY <2>1, <2>3, <2>4
<1>7. CASE ScanFails  BY <1>7 DEF ScanFails, Fail
<1>8. CASE Check
  <2>1. diagnostics' = Expected
    BY <1>8, CheckIsExact DEF ExactInv, Check
  <2>2. QED  BY <1>8, <2>1 DEF Check
<1>9. CASE RunAgain  BY <1>9 DEF RunAgain
<1>10. CASE ShowReport
  BY <1>10 DEF ShowReport, TypeOK
<1>11. CASE Exit  BY <1>11 DEF Exit
<1>12. CASE Edit  BY <1>12 DEF Edit, TypeOK
<1>13. CASE UNCHANGED vars  BY <1>13 DEF vars
<1>14. QED
  BY <1>1, <1>2, <1>3, <1>4, <1>5, <1>6, <1>7, <1>8, <1>9, <1>10, <1>11, <1>12, <1>13
     DEF Next, Step

LEMMA ExactCorrect == Spec => []ExactInv
BY ExactInit, ExactNext, TypeCorrect, PTL DEF Spec

\* Both front ends, with every output format, report exactly what the selected rules find
\* in inputs that nobody edits.
THEOREM ReportIsExactCorrect == Spec => []ReportIsExact
<1>1. ExactInv => ReportIsExact
  BY DEF ExactInv, ReportsExact, ReportIsExact
<1>2. QED  BY <1>1, ExactCorrect, PTL

-----------------------------------------------------------------------------
\* The status is the verdict on the report kept for it.
ExitInv == phase = "exited" => (exit = 1 <=> Failing(first, Threshold))

LEMMA ExitNext == ExitInv /\ [Next]_vars => ExitInv'
<1> SUFFICES ASSUME ExitInv, [Next]_vars PROVE ExitInv'
  OBVIOUS
<1> USE DEF ExitInv, environment, engine
<1>1. CASE Exit
  BY <1>1 DEF Exit, Failing, Threshold
<1>2. CASE Edit \/ UNCHANGED vars
  BY <1>2 DEF Edit, vars, Failing, Threshold
<1>3. CASE LoadConfig \/ LoadRules \/ ConfigFails \/ Expand \/ ExpandFails \/ ScanFile
             \/ ScanFails \/ Check \/ RunAgain \/ ShowReport
  BY <1>3 DEF LoadConfig, LoadRules, ConfigFails, Expand, ExpandFails, ScanFile, ScanFails,
              Check, RunAgain, ShowReport, Fail
<1>4. QED  BY <1>1, <1>2, <1>3 DEF Next, Step

\* The status of the process is the verdict on the report it printed: always where the
\* report printed is the one judged, and else for inputs that nobody edits.
THEOREM ExitCorrect == Spec => []ExitMatchesReport
<1>1. Init => ExitInv
  BY DEF Init, ExitInv
<1>2. ExitInv /\ OneReport /\ ExactInv => ExitMatchesReport
  BY DEF ExitInv, OneReport, ExactInv, ReportsExact, ExitMatchesReport, Failing
<1>3. QED
  BY <1>1, <1>2, ExitNext, ExactCorrect, OneReportInit, OneReportNext, PTL DEF Spec
=============================================================================
