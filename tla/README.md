# ArrowLint in TLA+

A formal model of ArrowLint (`src/`): a linter for columnar files and datasets written in
Rust, with a native and a Python command line.  The modules are translated from the code,
model-checked with TLC on small instances, and proved about with TLAPS.

ArrowLint is mostly a sequential program that judges bytes it did not write, while other
processes may still be writing them.  So its hard parts are not locks and threads. They are:

- walks over binary containers, where every length and offset comes from the file, and the
  verdict of a long loop must mean something about the whole file;
- reads of one input at several moments (three opens of an IPC file, two of a Parquet file, a
  Lance manifest and much later the files it names, two runs of the engine for one command),
  with other processes at work in between;
- rules that each return early where they have nothing to check and rely on another rule to
  report what they pass over;
- the way configuration, options, rules and exit status fit together, on which a CI gate
  depends.

## 1. Inventory

`C` is `src/crates/arrowlint-core/src`, `P` is `src/src/arrow_lint`.

| Component | Code | State and operations | What makes it correct |
|---|---|---|---|
| IPC stream inspector | `C/ipc.rs` 24-245 | a cursor over one stream; counts, a legacy flag and a list of errors | errors exactly for invalid streams; never an I/O error on a stable file; always ends |
| IPC scan, AL016, AL017 | `C/scanners.rs` 233-360, `C/ipc.rs` 247-307 | opens the file up to three times: as a file, for the inspector, for the decoder | rows only for clean streams; a broken stream is reported instead of ending the run |
| Lint engine | `C/lib.rs`, `config.rs`, `declarative.rs`, `plugins.rs`, `report.rs`, `diagnostics.rs`; `arrowlint-cli/src/main.rs`; `arrowlint-python/src/lib.rs`; `P/api.py`, `P/cli.py` | configuration, rule set, scanned files, report, exit status | the report is what the selected rules find; the status follows from the report |
| Path expansion and dispatch | `C/scanners.rs` 30-145, `C/dataset.rs` 19-60 | list of inputs, directory walks, one scan per target | every file is covered once, however inputs and links overlap |
| Lance inspection and rules, AL201-AL207 | `C/lance.rs` | directory listing, chosen manifest, its decoded content, later look-ups of referenced files | what is reported about the current version is true; each kind of damage is reported by its rule |
| ArrowDiff | `C/diff.rs`, `C/dataset.rs`; `P/cli.py` 150-212 | two scans, condensed and compared; perhaps twice | symmetric; blind to file names; no changed column chunk goes unseen where schemas only grow by appended columns; status = report |
| Vortex inspection, AL301-AL307 | `C/vortex.rs` | a chain of bounded reads, each located by the one before; FlatBuffer metadata | errors exactly for unsound files; bounded reads; opaque footers are not judged |
| Parquet scan, AL001-AL015, AL100 | `C/scanners.rs` 146-232, `C/rules.rs` | two opens of the file, then functions of its metadata | inconsistent counts and drifting schemas are reported, whichever rule skips them; errors are those of a content the file had |
| GeoParquet, AL018-AL021 | `C/geoparquet.rs` | none: checks of one JSON document | the rules together are silent exactly on conforming documents |
| Iceberg, AL101-AL107 | `C/iceberg.rs` | none: checks of one metadata document, which other programs change step by step | legal histories are not reported, but for three false alarms; broken ones are |
| Remote inputs | `C/scanners.rs` 432-628 | HTTP and object-store clients, one request per input | a failure or a silent server ends the run; a file is judged from the bytes of one answer |
| Format packs listing | `C/format_packs.rs` | a constant table | - |
| Release tools | `src/tools/`, `src/.github/workflows/publish-pypi.yml` | version files, distributions | wheels of one version are published together |

### How they interact

One process, one thread.  `arrowlint-cli` calls `arrowlint-core` directly; the Python command
calls it through `arrowlint-python` and exchanges JSON, and for text or SARIF calls it twice.
`lint` loads the configuration, and from it the declarative rules; expands the paths; scans
each file (dispatching by format to the scans above, where an error ends the run); then runs
every enabled rule over what the scans kept.  Rules see only that, except AL206, which goes
back to the file system.  `diff` uses the same scans.  The components share no memory;
what they share is the file system, and it is shared with everyone else.

### What is hard to test

The hazards are listed with their lines in `PROJECT.json`.  The main groups are:

- *stale state*: `fs::metadata` before the walk (`ipc.rs` 24), three opens of one IPC file
  (`scanners.rs` 285), two of a Parquet file (155), a manifest read long before its references are looked up
  (`lance.rs` 785), a second run for the exit status (`cli.py` 71, 179);
- *interleavings with writers*: a directory listed while manifests come and go
  (`lance.rs` 97), files removed between expansion and scan (`scanners.rs` 32);
- *numeric edges*: lengths and offsets that are negative, too large, zero, or off alignment
  (`ipc.rs` 68, 137; `vortex.rs` 130, 992; `lance.rs` 201), sums of rows (`rules.rs` 685);
- *partial failure and protocol order*: errors collected while the walk goes on, early
  returns that drop them, rules that skip what another rule reports (`lance.rs` 781,
  `geoparquet.rs` 421), precedence of `only`, `disabled` and the thresholds.

## 2. Modules

| Module | Models | Role |
|---|---|---|
| `IpcStream` | `inspect_stream_reader`, one action per exit of an iteration | core |
| `IpcScan` | `scan_ipc` around it, and the rules AL016 and AL017; EXTENDS `IpcStream` | composition |
| `LintGate` | what a CI job relies on: one report, and a status that follows from it | abstract |
| `LintRun` | one invocation of either command line | implements `LintGate` |
| `LanceManifest` | a manifest file, how it is read, and the rules that look at nothing else | operators |
| `LanceDataset` | a dataset, its writers and its cleanup, and the linter that inspects it; EXTENDS `LanceManifest` | core |
| `ArrowDiff` | `compare_datasets` and the commands around it | core |
| `VortexContainer` | `inspect_reader` and the rules AL301 to AL307 | core |
| `IcebergTable` | a table's metadata document, its writers, and the rules AL101 to AL107 | core |
| `ParquetRules` | AL001 to AL015 and AL100 as functions of the scanned files | operators |
| `GeoParquet` | `parse_metadata` and AL018 to AL021; EXTENDS `ParquetRules` | operators |
| `PathExpansion` | `expand_paths` over a tree of directories and links, and `Format::from_path` | operators |
| `DatasetScan` | `scan_paths`, `scan_parquet` and the remote reads, up to the rules; EXTENDS `GeoParquet` and `PathExpansion` | composition |
| `MC...` | values of the constants for TLC | |
| `...Proofs` | theorems of the module before the suffix | |

An operator marked `Mutant:` in a comment is a plausible bug of the definition it precedes.
No specification uses it; it is put in place of that definition to see that a property notices.

### IpcStream

`offset`, `schema_count`, `message_count`, `uses_legacy_framing`, `has_eos` and `errors` are the
locals of the loop.  `size` is the file length at the open; `disk` the length now, since another
process may truncate the file (`Shrink`).  The bytes are not stored: when the walk
arrives at an offset it *meets* a frame, chosen from all that its constants allow (with or without
a continuation marker, a length, a header kind, a body length), and `frames` remembers what it met.
So every file over those frames is covered, and no byte is read twice, as in the code.  Each
early return and `break` is an action: `PrefixTruncated`, `LengthTruncated`, `EndOfStream`,
`MetadataTooLong`, `MetadataTruncated`, `InvalidMetadata`, `NegativeBody`, `BodyTruncated`;
`ReadMessage` continues the loop, `CountSchemas` is the code after it, `ReadFails` is `read_exact`
on a file that has shrunk.  A FlatBuffer is reduced to what parsing gives.  The `u64` additions of
the code cannot overflow before the bounds that precede them stop the walk, and are integers here.

### IpcScan

The file is opened as an IPC file (`OpenFile`, `FileBatch`), and if that fails inspected as a
stream and then decoded as one (`InspectFrame`, `OpenStream`, `DecodeBatch`).  Between the opens
another process may replace the file: `Replace`.  The Arrow readers are libraries: what they find
is nondeterministic, within what scan_ipc can tell apart.

### LintRun and LintGate

`world`, `configFile` and `ruleFile` are what is on disk, changed by `Edit`; `args` is the
invocation, with the front end and the output format.  The engine goes `LoadConfig`,
`LoadRules`, `Expand`, `ScanFile` for each input, `Check`; then the Python command may go
round again (`RunAgain`: JSON is judged from the report, text and SARIF are not), and
`ShowReport` and `Exit` end it.  `ConfigFails`, `ExpandFails` and `ScanFails` are the `?`s.
`Enabled`, `Failing` and `Threshold` are the predicates of `config.rs`, `report.rs` and `cli.py`.
`Judged` is the report that the status is taken from: it is what `LintGate` sees, and for text and
SARIF of the Python command not the one that is shown.

### LanceManifest and LanceDataset

`entries` and `objects` are the directories; `WriteFiles`, `Commit` and `CleanUp` are the Lance
library at work on them: not in this repository, and modelled by the rules the lint rules take for
granted (files before manifest, complete manifests, only unreferenced files and old manifests are
cleaned up).  A commit appends, deletes rows, rewrites a column, compacts or configures, and its
manifest has the fragments, data files, deletion files and flags that this gives: so the rules on
fragments, mappings, deletions and features meet what writers produce, and `live`, the rows that
the commits left, is what `num_rows` has to agree with.  The linter lists (`ListEntry`, one entry at
a time, so that it may miss or catch entries that come and go), chooses, reads, asks for the size,
and looks up one reference at a time.  Damage is there from the start instead: `Faulty` makes one
fault in a manifest, `Stray` and `FileFaults` those of the directories, and `Damages` says which go
together.  A manifest file is a record with its envelope, whose sizes and positions are numbers, and
its decoded message; `Decodes` is the sequence of checks in `read_manifest`.  The low bits of a
flag word are a set of powers of two.  `CheckedAdd` and `LiveRows` keep the width of the words.

### ArrowDiff

`HasChanges` is built from the five parts of a report as `report_has_changes` reads them.  A
dataset maps names to contents; names are ordered, since the first file gives the dataset schema.
A row group is a sequence of column chunks (`Chunk`), each with its own number of values,
statistics, codec and compressed size, and `ColumnEvidence` collects those of each column by itself,
as `column_evidence` does.
The process scans the old dataset, then the new one, compares, and for the text of the Python
command does all of it again before it exits.

### VortexContainer

`ReadHead`, `ReadEof`, `ReadPostscript`, `ReadFooter` are the reads, `TooSmall` and the
branches within them the early returns, `ReadFails` a read of a file that has shrunk.  `reads`
remembers every buffer that was allocated.  `CheckRules` runs AL301 to AL307 over what was kept.
FlatBuffer tables are reduced to what they parse to, where a missing field differs from a present one.
Words have `WordBits` bits instead of 64, and additions of offset and length are checked
for overflow exactly as `checked_add` does.

### IcebergTable

`table` is one version of the metadata document and every step writes the next; `Errors` are the
diagnostics of AL101 to AL106 for it and `Maintenance` those of AL107, one operator per rule.  An array of objects is a function on
positions, and what is appended goes to the position `version`; the IDs of nested fields are flat,
since the rules flatten them.  The writers are not in this repository.  `Healthy` ones are modelled
by what the table format allows: commits to main and other branches, rollbacks, expiry of
unreferenced snapshots with the log pruned, new schemas, partition specs and sort orders, and
upgrades of the format version.  Old documents with only a single `schema` and `partition-spec`
evolve in place (`LegacyColumn`, `LegacyPartition`) until `ToVersion2` gives them arrays.  A
`Faulty` one does one thing wrong that real writers have got wrong (a retry of a commit that had
succeeded, a rollback without its log entry, counters from a stale document, an upgrade that
raises the version only, ...).  `Edit` sets any
member to a foreign value, or removes it, when the rules let that pass (it adds no error): so healthy
commits are also tried on odd documents that were accepted.

No writer is held back by what the rules would say.  A branch may be committed to before the main one,
`refs` may be there without a main branch, `ToVersion3` keeps the snapshots that the table has,
without row lineage, and `ToVersion2` keeps partition fields whose IDs version 1 gave per spec.
`ToVersion2` waits only for what version 2 cannot express: snapshots that list manifests themselves
or have no summary, and partition fields without an ID.  A spec has any number of fields:
`PartitionBy` begins a new one or adds to the default one.  `upgraded` remembers when each upgrade
was, so that `Alarms` can name what the rules report of such a history although nobody made a
mistake:

- `refs` without a main branch as long as nothing was committed to main (AL103, `iceberg.rs` 211);
- snapshots of version 2 in a document of version 3 (AL105, 441);
- partition fields of version 1 that share an ID, or have two, in a document of a later version
  (AL106, 594).

The sources of a field are a set: the order of `source-ids`, which counts in
`partition_field_signature`, is left out, as writers here give each field one source.

### PathExpansion, ParquetRules, GeoParquet and DatasetScan

`PathExpansion` is a function from the inputs and a tree to the list of targets: a walk descends by
`Descends`, follows links when asked to and fails on a loop or a broken link, the parts of a Lance
dataset are replaced by its root, and the list is sorted without duplicates.  Names are numbers in
their order, with the format that their suffix stands for.  `ParquetRules` and `GeoParquet` give the
reports of each rule for a sequence of scanned files; JSON is reduced to what the rules tell apart,
and `CoveringStep` is the loop body of `covering_error` with its remembered root.

`DatasetScan` has one action per way in which `scan_paths` goes on: `OpenParquet` and `ReadSchema`
are the two opens of a local Parquet file, between which `Replace` may put another content in place;
`Request` and `Answer` (or `FetchFails`) are the one request for a remote input; `ReadFails`,
`ExpandError`, `RemoteLance` and `NothingScanned` end the run.  The scanners with modules of their
own are the step `ScanOther` or `ScanLance` here.  `held` remembers every content that a place has
had, so that a report can be compared with what was really there.

## 3. Runs

All bounds are constants of the configurations.

| Run | Checks | Bounds, and why they are enough |
|---|---|---|
| `ipc_scan` | `TypeOK`, `Verdict`, `FailureNeedsShrink`, `LegacyFlag`, `RowsOnlyWhenClean`, `StreamsNeverAbort`, `BrokenStreamsReported`, `ScanEnds` | sizes up to 36 on and off the 4- and 8-byte boundaries; metadata limit 16 for 64 MiB; three messages or two and an EOS fit, and every check compares at most two neighbours and a prefix; a batch that decodes before one that fails; one replacement between any two opens |
| `ipc_feather` | finds `BrokenStreamsReported` violated for Feather | as above |
| `lint_run` | `TypeOK`, `ExitMatchesReport`, `ReportIsExact`, `NothingSkipped`, `Termination`, `ImplementsGate` (the refinement of `LintGate`) | three paths (one unsupported), two edits (one before and one after any step), five invocations that between them use every option, both front ends and three formats |
| `lint_threshold` | finds `ConfigThresholdHonoured` violated | no edits needed |
| `lance_dataset` | `TypeOK`, `StaleAlarmsOnly`, `NoFalseAlarm`, `CurrentVersion`, `DamageReported` | three versions: the one listed, the one that takes its place, the one missed by the listing; every fault and every pair of faults, since one fault can hide another but a third can hide nothing new: every early return looks at one of them; words up to 15 and row counts up to 9, so that two fragments overflow |
| `arrow_diff` | `Symmetric`, `RenamesUnseen`, `DataChangeSeen`, `ExitMatchesReport` | pairs of datasets of up to two files over eight contents, with up to three row groups of one or two columns: among them two that exchange the statistics of one column between their row groups, and a column with more values than rows; one edit; both front ends, text with and without `--exit-code`, and JSON |
| `arrow_diff_metadata` | finds `FileMetadataSeen` violated | two IPC files |
| `vortex_container` | `TypeOK`, `FailureNeedsShrink`, `BoundedReads`, `FooterExplained`, `OpaqueNotMalformed`, `Verdict` | words of six bits, so that 60 + 8 overflows; sizes around the minimum of 12; locators right and wrong in each way the rules tell apart |
| `iceberg_table` | `NoFalseAlarm`, `FaultReported`, `TimeTravel`, `CleanKept` | documents of each version and old ones; four steps, at most one of them an edit: two snapshots, an expiry or rollback of one, and a commit after it; a commit before an upgrade and one after it; three IDs for schemas, specs and orders: one dropped column and one that follows, or a spec of two fields; two transforms, so that partition IDs can be reused or renumbered; edits to an ID in use and to one beyond all of them; limits of AL107 within reach.  About a million documents |
| `iceberg_upgrade` | finds `UpgradeAccepted` violated | as above; a commit and an upgrade suffice |
| `dataset_scan` | `TypeOK`, `CountsVerdict`, `GeoVerdict`, `ErrorsAreReal`, `ExactCover`, `SchemaDrift`, `ScanEnds` | one file with each combination of counts, encodings and members of the `geo` document that the rules tell apart; two or three files, local and remote, with one replacement, which can fall between any two steps; two schemas with one fingerprint; trees of depth three with a loop, a broken link, a link into a dataset and files named twice; words up to 3, so that three row groups overflow |
| `lance_part` | finds `PartsBelongToDataset` violated | a data file `0.lance` inside a dataset |

A run that "finds a property violated" shows a disagreement between the code and what the
repository says of it:

- `ipc_feather`: AL016 filters on `ArrowIpc`, so a broken stream in a `.feather` file gets no
  diagnostic, while `format-packs.md` lists stream framing as checked for IPC and Feather.
- `lint_threshold`: the Python command never sees `fail_on` of the configuration file, which its
  option is said to override; the native command honours it.
- `arrow_diff_metadata`: schema metadata of IPC files is taken from the first file only, while
  `arrowdiff.md` says that dataset and file key-value metadata are compared.
- `lance_part`: `lance_dataset_root` begins with the path itself, so a data file `*.lance` given
  as an input is a dataset of its own, while `rules.md` says that a `*.lance` directory is one target.
- `iceberg_upgrade`: AL105 asks for row lineage of every snapshot of a version 3 document, so a table
  that is upgraded with its snapshots, as the format has it, gets errors until they are expired, while
  `rules.md` says that the rules follow format versions 1 through 3.

`CHECK_DEADLOCK` is off everywhere: the processes modelled end.  The proved or checked
liveness says that they do.

### What the properties mean

The invariants named `Verdict` compare the result of a loop with a declarative definition of a
valid file, in both directions.  `FailureNeedsShrink` says that I/O errors come from the
environment alone.  `StaleAlarmsOnly` is the promise a linter without locks can keep: on a
healthy dataset, any alarm is about a version that has been superseded.  `NoFalseAlarm` and
`CurrentVersion` are what holds as long as nothing is cleaned up.  `ReportIsExact` states
selection and precedence of rules directly from the README of ArrowLint.
`NoFalseAlarm` of `IcebergTable` says in both directions that of a healthy history the rules report
`Alarms` and nothing else: a false alarm is there exactly as long as its cause is.  `CleanKept` says that
a healthy commit adds no error, whatever the document has already and even if it was edited by hand,
but a false alarm, and one of an upgrade only with the upgrade.  `FaultReported` names for each
kind of faulty writer the very check that has to speak up (`ErrorsOf`), so that a false alarm cannot
stand in for it.  `TimeTravel` says what an accepted log is good for.
`DamageReported` of `LanceDataset` says in both directions which rules speak up for a dataset with
one or two faults: none hides another, and no rule reports what is not its own.
`CountsVerdict` and `GeoVerdict` compare what several rules say together with a definition of a
consistent footer and of a conforming document, because each rule alone passes over some broken
files.  `ErrorsAreReal` bounds what a replacement during a scan can do: for a local Parquet file the
rules that compare `geo` with the schema (AL019, AL020) may report what no content of the file had,
for a remote one nothing may.  `ExactCover` says that expansion takes each file asked for once, by
itself or by its dataset; covered are paths, so that with followed links one real file can be
scanned under two paths, as in the code, which compares paths as they are written: inputs here are
absolute, since it does not recognise a relative and an absolute spelling of one path either.  It excepts what is below a Lance dataset within another
one, for which `lance_part` shows that the code depends on how the input is written.  `SchemaDrift`
says in both directions what the comparison of texts is worth: a report means that some schemas
differ, silence that all schemas are equal whose names are free of the separator after the name
(`Separable`).  The exception is real: the fingerprint joins names and types with `:` and `|` and
escapes nothing, so that AL003 misses a field whose name reads like two fields; the run has one.
`DataChangeSeen` says what comparing columns one at a time is worth, as long as schemas only grow by
appended columns (`Nested`, a hypothesis of the property, as arbitrary column sets can hide a
column): each column of either side has the same value counts and statistics, chunk by chunk, and the row groups
agree in everything else.  It does not say that row groups have the same statistics together, and
that would be false: `column_evidence` sorts the chunks of each column on their own, so two row groups
that exchange the statistics of one column but not of the others are no change for the code.
The contents of the run hold such a pair.
`RenamesUnseen` takes files whose schema metadata is file metadata, too (`Mirrored`).  Parquet files
are like that, except for schema metadata that is only in the encoded Arrow schema; for those, as
for IPC files, the first name decides which metadata is seen (`arrow_diff_metadata`).

### Fairness

Liveness assumes weak fairness of the steps of the process under study only: a single thread
that is never blocked, so it goes on whenever it can.  Nothing is assumed of the environment
(`Shrink`, `Replace`, `Edit`, writers, cleanup, the `Answer` of a server): those actions are bounded
but free.  In `DatasetScan` a server may stay silent for ever; what ends the scan then is the timeout
of the request, which is a step of the scan (`FetchFails`): thirty seconds in `read_http_bytes`, and
for object stores the limit that their client sets on its requests.  Specifications
without liveness properties state no fairness.

## 4. Theorems

Proved with TLAPS, for every value of the constants that the named assumptions allow and every
length of a run.  Each theorem about a property of a run names that property; the run shows it on a
small instance, and that its antecedents are met.

| Theorems | Say | Argument |
|---|---|---|
| `IpcStreamProofs!TypeCorrect` | `[]TypeOK` | inductive as it stands |
| `IpcStreamProofs!VerdictCorrect`, `FailureNeedsShrinkCorrect`, `LegacyFlagCorrect` | AL016 reports an error exactly for invalid streams; I/O errors need a shrunk file; the flag is exact | `InspectorInv`: frames are contiguous up to `offset`; while the walk goes on, the frames met are all complete, and `errors` is empty exactly when each is a valid message; once it has stopped, `errors` is empty only for the prefix of a valid stream.  Needed because `Verdict` says nothing before the end |
| `IpcScanProofs!InspectorPromises` | the theorems of the inspector hold of a whole scan, with its other opens | every step of a scan is a step of `IpcStream` or leaves it alone |
| `IpcScanProofs!RowsOnlyWhenCleanCorrect`, `StreamsNeverAbortCorrect`, `BrokenStreamsReportedCorrect`, `RowsMeanValid` | rows only of clean inputs; a stream does not end the run; a broken one is reported; rows of a stream mean a valid stream | `ScanInv`: what each phase of `scan_ipc` says of the kind of the input, the errors and the rows so far, and that a stream fails only after it was replaced |
| `LintRunProofs!TypeCorrect`, `GateImplemented` | `[]TypeOK`; every step of `LintRun` is a step of `LintGate` or stutters, for either front end and every format | `TypeOK` with the facts that `printed` and `exit` change only in `ShowReport` and `Exit` |
| `LintRunProofs!NothingSkippedCorrect`, `ReportIsExactCorrect`, `ExitCorrect` | a report for every supported input; the report is that of the selected rules; the status is the verdict on it | `NamedInv`: scanned and remaining files are those named.  `ExactInv`: without edits each of the configuration, the files and both reports is a function of what is on disk, so that the second run of the Python command repeats the first |
| `ArrowDiffProofs!SymmetricCorrect` | `[]Symmetric`, for all datasets | each of the five parts is symmetric |
| `ArrowDiffProofs!RenamedFilesAreNoChange`, `RenamesUnseenCorrect` | the same files under other names are no difference | equal tallies are a pairing of files with equal contents, and so of row groups; under a pairing images, tallies and sums are the same.  The sums do not depend on the order in which `MapThenSumSet` takes the files (a smallest counterexample in place of an induction) |
| `ArrowDiffProofs!NoChangeMeansSameData`, `DataChangeSeenCorrect` | without a reported change, when schemas only grow by appended columns, both sides have the same row groups but for statistics, and the same evidence for every column of either side | the value counts in a signature tell how many columns a row group has, and so its columns, as one schema extends the other; so a column of one side occurs on the other, where `diff.rs` compares it |
| `ArrowDiffProofs!ExitCorrect` | `[]ExitMatchesReport` | while nothing was edited, what is scanned is what is there, so the second comparison repeats the first |
| `VortexContainerProofs!FailureNeedsShrinkCorrect`, `BoundedReadsCorrect`, `FooterExplainedCorrect`, `OpaqueNotMalformedCorrect` | these properties | an invariant that relates `pc` to what has been read, and the locator checks to the bounds of the reads that follow them |
| `VortexContainerProofs!TypeCorrect`, `VerdictCorrect` | AL301 to AL306 report an error exactly for an unsound file | `Enveloped` ties what was kept to the file it was read from; then the rules are compared with `Sound` entry by entry: the checked additions of words are the declarative bounds, and the first entry out of order exists (a least element) if any two are |
| `IcebergTableProofs!SoundMeansClean` | AL101 to AL106 report nothing but false alarms exactly of sound documents, of any size and with any number of fields in a spec, and nothing at all exactly if `refs` name main, every snapshot has its lineage and partition IDs were kept, too | `Sound` is a declarative reading of the six rules, over the whole log instead of its neighbours; one lemma for each rule |
| `IcebergTableProofs!HealthyKeepsSound`, `NoFalseAlarmCorrect` | every healthy commit keeps a document sound; of a healthy history the rules report exactly `Alarms` | one lemma for each writer.  `NoFalseAlarm` is not inductive: a sound document must also be `Shaped`, the arrays as `version` numbers them, and `HistoryInv` says which edits it had.  `Explained` relates what a document without edits lacks to when it was upgraded, since the rules see only the document |
| `IcebergTableProofs!CleanKeptCorrect` | `CleanKept`, an action property: a healthy commit, to a document edited or not, adds no error but a new false alarm | `HistoryInv`, `HealthyKeepsSound`, and for each writer what it leaves of references, lineage and partition IDs |
| `IcebergTableProofs!FaultReportedCorrect` | each fault is reported by its check | `Grounded`: what the snapshots, log and references of an unedited document have in common; one lemma for each faulty writer |
| `IcebergTableProofs!TimeTravelCorrect` | a clean log tells one snapshot for each moment | the log of a sound document is ordered as a whole, although the rule compares neighbours |
| `DatasetScanProofs!TypeCorrect`, `TakenOnceCorrect` | types, and formats by name; no target is scanned twice | the order of paths is total; so the sorted list of targets has no duplicates, and the targets taken are a prefix of it |
| `DatasetScanProofs!ExactCoverCorrect` | every file asked for is covered once, for all trees, links and inputs | `CoverInv`: the targets taken are a prefix of the sorted expansion, which is that of the tree.  A walk reaches each file asked for unless a directory on the way is a dataset, and then the dataset is a target (the shortest prefix at which the walk stops); a target within a dataset is replaced by its root; two targets that cover one file would be nested datasets |
| `DatasetScanProofs!SchemaDriftCorrect` | a report of AL003 means a difference; silence means that separable schemas are equal | `FieldsInv`: scanned schemas are sequences of fields.  A fingerprint determines the fields when no name holds the separator: by a smallest position at which two of them differ, since the first separator ends the name and three tokens follow it |
| `DatasetScanProofs!ErrorsAreRealCorrect` | errors are those of a content the file had | `ScanInv`: a footer held between the two opens is one of `held`, and each rule but AL019 and AL020 looks at one open only |
| `DatasetScanProofs!GeoVerdictCorrect`, `CountsVerdictCorrect` | the rules together are silent exactly on conforming `geo` documents and consistent counts | rule by rule; the remembered root of a covering is that of the first path (a least element), and the partial sums with `checked_add` are the sums as long as the total fits a word |
| `LanceDatasetProofs!HealthyMeansClean`, `CommitsAreHealthy` | nothing is reported of a healthy manifest; each commit gives a healthy one with its rows | `Healthy` says of fragments, data files, deletion files and flags what Lance guarantees.  `FlattenSeq` takes each element once (positions instead of an induction), sums of rows are witnessed by the sequence of partial sums |
| `LanceDatasetProofs!StaleAlarmsOnlyCorrect`, `NoFalseAlarmCorrect`, `CurrentVersionCorrect` | of a healthy dataset alarms are stale, there is none without a cleanup, and the current version is judged | `HealthyInv`, of four parts: every manifest anyone knows is healthy and has the rows in `live`; the latest one exists with all its files; what was listed is there or outdated; an error or a missing file implies a cleanup and a newer version.  Needed because the properties speak of the reports only, and what makes them true is what the linter still knows of the directory |
| `LanceDatasetProofs!TypeCorrect` | `[]TypeOK`, for healthy datasets and for any set of faults | `KindsInv`: `HealthyInv` for the healthy ones; for the broken ones that nobody writes and that every manifest known is `Countable`.  Each fault keeps a manifest `Editable` (a lemma for each group of faults), so whatever is damaged one after the other, `manifest_row_count` gives a signed word or nothing |

The proofs assume what the modules name as `ASSUME` and TLC evaluates: limits and sizes are
natural numbers and contents well-formed records; absent values (`None`, `Missing`) are
not numbers or names; `Names` of paths and of files are finite sets of numbers (the order of names);
inputs are nonempty paths (`InputsAssumption`); in a tree every node is in a directory, no local path
begins like a URL and links are given by where they finally lead (`TreesAssumption`); the fields of a
content have a name, a type and nullability, where the text of a type is one token
(`ContentsAssumption`); coordinates of a bounding box are strings; arrays of
an Iceberg document are functions on numbers (`ArraysAssumption`); keys of encryption have a size
(`KeysAssumption`); powers of two are positive (`PowersAssumption`, which the provers do not know); and
`2 * LastVersion <= MaxRows`, since a commit adds at most two rows and the number of rows has to
fit a signed word; a broken dataset begins with version 2, so that `LastVersion` is no less, and the
healthy one, `{}`, is among `Damages`.  Sums, sequences and orders over data of any length are proved about by least
elements and explicit witnesses, since no induction principle with a predicate can be used.

Only model-checked:

- liveness (`ScanEnds`, `Termination`), which is out of the prover's reach;
- `DamageReported` of `LanceDataset`: it is claimed for one fault and for pairs of faults, which are
  enumerated, so that TLC's enumeration is the whole argument; no run tries three faults at once.

Every other invariant and action property of a passing run is proved.

## 5. Not modelled

- The constant table of the format packs, and the release tools: scripts that check and copy
  artifacts in one pass and keep no state that a later run reads.
- Formatting of reports, colours, SARIF layout, wording of messages; the `rules` and `formats`
  listings.
- The Arrow, Parquet, FlatBuffer, protobuf, JSON, HTTP and object-store libraries, and `walkdir`, of
  which only the result is modelled.  AL005 recognises timestamps by the text that the arrow crate
  prints for a type; `DatasetScan` has the text of the version in `Cargo.lock`.
- The options an object store takes from the environment, and permissions of files: an input that
  cannot be read is one that is gone or does not decode.
- Iceberg: the order of `source-ids` of one field (see section 2).
- Vortex: that a footer whose stated compression scheme is None is passed over like a compressed one
  (`vortex.rs` 157) is in the model, as the code has it; no property is about it.
- Metadata values joined with `" | "` in `diff.rs`: a collision of joined values is abstracted away.
  (The joined texts of the schema fingerprint, `dataset.rs`, are modelled.)

## 6. Plan

Done, in this order: `IpcStream` and `IpcScan`, `LintRun` and `LintGate`, `LanceDataset`,
`ArrowDiff`, `VortexContainer`, `IcebergTable`, `ParquetRules`, `GeoParquet`, `PathExpansion` and
`DatasetScan`, `LanceManifest`; and the proofs in section 4.

What is left are components: the listing of format packs and the release tools keep no state
(section 5), and of the scanners only the decoding done by libraries is abstracted.
