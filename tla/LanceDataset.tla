---------------------------- MODULE LanceDataset ----------------------------
(***************************************************************************)
(* Linting a local Lance dataset, crates/arrowlint-core/src/lance.rs, next *)
(* to the processes that use it.                                           *)
(*                                                                         *)
(* The linter takes no lock and no snapshot: it lists `_versions', picks   *)
(* the manifest with the highest version, reads it, asks for its size, and *)
(* much later, once every input is scanned and the rules run, looks up the *)
(* files the manifest refers to, one by one.  Meanwhile a Lance writer may *)
(* commit new versions and a cleanup may delete what the latest version no *)
(* longer needs.  Writer and cleanup are not in the repository: they are   *)
(* modelled by Lance's rules for a healthy dataset, which the lint rules   *)
(* take for granted.                                                       *)
(***************************************************************************)
EXTENDS LanceManifest

CONSTANTS
    LastVersion,  \* bound on the versions of the dataset
    Damages       \* the sets of faults a dataset may have before the linter starts

\* The faults, in the order in which they are made.
FaultOrder ==
    <<"based", "no mark", "old file", "unsized", "no transaction", "huge", "zero", "renumbered",
      "corrupt", "duplicate id", "low mark", "unsafe path", "empty path", "forbidden field",
      "shared field", "missing column", "repeated column", "unknown type", "future", "too many",
      "unknown flag", "unflagged deletions", "unflagged config", "deprecated", "overlays",
      "unstable format", "duplicate base", "empty base", "missing base", "missing deletion base",
      "unflagged base", "unsafe transaction">>

\* The faults of the directories.
FileFaults ==
    {"detached", "stray", "unreadable name", "mixed", "empty", "no directory", "lost", "resized"}

ASSUME VersionAssumption == LastVersion \in 2..MaxWord /\ 2 * LastVersion <= MaxRows
ASSUME DamagesAssumption ==
    {} \in Damages /\ Damages \subseteq SUBSET (Range(FaultOrder) \cup FileFaults)

VARIABLES
    entries,    \* the entries of `_versions', manifest files and others
    objects,    \* the data, deletion and transaction files that exist
    resized,    \* objects whose size is not the recorded one
    writing,    \* the manifest of a commit in progress, or None
    damage,     \* what was wrong when the linter started
    phase,      \* "start", "list", "read", "stat", "rules", "references", "done"
    unread,     \* entries of the directory listing still to come
    seen,       \* manifests listed
    selected,   \* the manifest file to read, or None
    manifest,   \* the decoded manifest, or None
    errors,     \* metadata.errors
    size_known, \* whether the manifest was still there when its size was asked for
    num_rows,   \* rows of the scanned dataset, or None
    unchecked,  \* references AL206 has still to look up
    diagnostics,
    opened,     \* history: the latest version when the listing started
    cleaned,    \* history: a cleanup deleted something since then
    live        \* history: the rows that the commit of each version left

dataset == <<entries, objects, resized, writing, damage, live>>
linter == <<phase, unread, seen, selected, manifest, errors, size_known, num_rows, unchecked,
            diagnostics>>
vars == <<dataset, linter, opened, cleaned>>

\* The attached manifests among the entries.
Attached(s) == {e \in s : e.kind = "manifest" /\ ParseManifestFilename(e) # None}

\* The manifest with the highest version in its name.
IsLatest(m, s) ==
    m \in Attached(s) /\ \A n \in Attached(s) : ParseManifestFilename(n) <= ParseManifestFilename(m)

\* Lance's own latest version.
Latest(m) == m \in entries /\ \A n \in entries : n.version <= m.version

-----------------------------------------------------------------------------
(* The commits of a healthy dataset.                                       *)

Envelope == [size |-> 40, magic |-> TRUE, position |-> 4, version |-> <<0, 1>>, length |-> 16,
             decodes |-> TRUE]

DataFile(path, fields) ==
    [path |-> path, fields |-> fields, column_indices |-> [i \in DOMAIN fields |-> i - 1],
     major |-> 2, sized |-> TRUE, base_id |-> None]

Fragment(id, files, rows) ==
    [id |-> id, files |-> files, physical_rows |-> rows, deletion |-> None, overlays |-> 0]

First ==
    [kind |-> "manifest", stem |-> MaxWord - 1, long |-> TRUE, envelope |-> Envelope,
     version |-> 1, max_fragment_id |-> 0, reader_flags |-> {}, writer_flags |-> {},
     config |-> FALSE, base_paths |-> <<>>, data_format |-> "2.1",
     fragments |-> <<Fragment(0, <<DataFile(<<1>>, <<0, 1>>)>>, 2)>>, transaction |-> <<1>>]

\* The files of a version, as Lance names them.
Files(m) ==
    {TransactionObject(m.transaction)}
      \cup UNION {{DataObject(file.path) : file \in Range(g.files)}
                    \cup {[kind |-> "deletion", name |-> <<g.id, d.read_version, d.id, d.file_type>>] :
                            d \in {g.deletion} \ {None}} : g \in Range(m.fragments)}

\* The next version, with other fragments.
Successor(m, fragments, max_fragment_id) ==
    LET v == m.version + 1
        flags == {f \in {FlagDeletionFiles} : \E g \in Range(fragments) : g.deletion # None}
    IN [m EXCEPT !.stem = MaxWord - v, !.version = v, !.transaction = <<v>>,
                 !.fragments = fragments, !.max_fragment_id = max_fragment_id,
                 !.reader_flags = flags,
                 !.writer_flags = flags \cup (@ \cap {FlagTableConfig})]

Appended(m) ==
    LET id == m.max_fragment_id + 1
    IN Successor(m, Append(m.fragments, Fragment(id, <<DataFile(<<m.version + 1>>, <<0, 1>>)>>, 2)), id)

\* A fragment with one more row deleted: the new deletion file, an array at first and then
\* a bitmap, takes the place of the old one.
NextDeletion(m, g) ==
    [file_type |-> IF g.deletion = None THEN 0 ELSE 1, read_version |-> m.version,
     id |-> m.version + 1,
     num_deleted_rows |-> IF g.deletion = None THEN 1 ELSE g.deletion.num_deleted_rows + 1,
     base_id |-> None]

\* A fragment without rows is dropped.
DeletedFrom(m, i) ==
    LET next == NextDeletion(m, m.fragments[i])
    IN Successor(m, IF next.num_deleted_rows = m.fragments[i].physical_rows
                    THEN RemoveAt(m.fragments, i)
                    ELSE [m.fragments EXCEPT ![i].deletion = next], m.max_fragment_id)

\* A data file from which a column is struck out, and none if no other is in it.
Struck(file) ==
    [file EXCEPT !.fields = [i \in DOMAIN file.fields |->
                               IF file.fields[i] = 0 THEN -2 ELSE file.fields[i]]]

Rest(file) ==
    IF \E f \in Range(Struck(file).fields) : f >= 0 THEN <<Struck(file)>> ELSE <<>>

\* A column of a fragment is rewritten.
Rewrite(m, g) ==
    [g EXCEPT !.files = Append(FlattenSeq([i \in DOMAIN g.files |-> Rest(g.files[i])]),
                               DataFile(<<m.version + 1, g.id + 1>>, <<0>>))]

Rewritten(m) ==
    Successor(m, [i \in DOMAIN m.fragments |-> Rewrite(m, m.fragments[i])], m.max_fragment_id)

Compacted(m) ==
    LET id == m.max_fragment_id + 1
    IN Successor(m, <<Fragment(id, <<DataFile(<<m.version + 1>>, <<0, 1>>)>>, TotalRows(m))>>, id)

Configured(m) ==
    LET next == Successor(m, m.fragments, m.max_fragment_id)
    IN [next EXCEPT !.config = TRUE, !.writer_flags = @ \cup {FlagTableConfig}]

\* The commits on a version, each with the rows it adds.
Commits(m) ==
    {<<Appended(m), 2>>, <<Rewritten(m), 0>>, <<Configured(m), 0>>}
      \cup {<<DeletedFrom(m, i), -1>> : i \in DOMAIN m.fragments}
      \cup {<<Compacted(m), 0>> : i \in {1} \cap DOMAIN m.fragments}

-----------------------------------------------------------------------------
(* Broken datasets.                                                        *)

\* A version with a fragment of two data files and a deletion file.
Sample ==
    LET deletion == [file_type |-> 0, read_version |-> 1, id |-> 1, num_deleted_rows |-> 1,
                     base_id |-> None]
    IN [Configured(First) EXCEPT
          !.reader_flags = {FlagDeletionFiles}, !.writer_flags = {FlagDeletionFiles, FlagTableConfig},
          !.max_fragment_id = 1,
          !.fragments = <<[Fragment(0, <<DataFile(<<1>>, <<-2, 1>>), DataFile(<<2>>, <<0>>)>>, 2)
                             EXCEPT !.deletion = deletion],
                          Fragment(1, <<DataFile(<<3>>, <<0, 1>>)>>, 2)>>]

\* A manifest with base paths and their flags.
WithBases(m, bases) ==
    [m EXCEPT !.base_paths = bases, !.reader_flags = @ \cup {FlagBasePaths},
              !.writer_flags = @ \cup {FlagBasePaths}]

Base(id, empty) == [id |-> id, empty |-> empty]

Faulty(m, fault) ==
    CASE fault = "based"               -> [WithBases(m, <<Base(1, FALSE)>>) EXCEPT !.fragments[2].files[1].base_id = 1]
      [] fault = "no mark"             -> [m EXCEPT !.max_fragment_id = None]
      [] fault = "old file"            -> [m EXCEPT !.fragments[1].files[1].major = 0,
                                                    !.fragments[1].files[1].column_indices = <<>>]
      [] fault = "unsized"             -> [m EXCEPT !.fragments[1].files[1].sized = FALSE]
      [] fault = "no transaction"      -> [m EXCEPT !.transaction = <<>>]
      [] fault = "huge"                -> [m EXCEPT !.fragments[1].physical_rows = MaxRows,
                                                    !.fragments[2].physical_rows = MaxRows + 1]
      [] fault = "zero"                -> [m EXCEPT !.version = 0, !.stem = MaxWord]
      [] fault = "renumbered"          -> [m EXCEPT !.stem = @ - 1]
      [] fault = "duplicate id"        -> [m EXCEPT !.fragments[2].id = 0]
      [] fault = "low mark"            -> [m EXCEPT !.max_fragment_id = 0]
      [] fault = "unsafe path"         -> [m EXCEPT !.fragments[2].files[1].path = <<ParentDir, 3>>]
      [] fault = "empty path"          -> [m EXCEPT !.fragments[1].files[2].path = <<>>]
      [] fault = "forbidden field"     -> [m EXCEPT !.fragments[2].files[1].fields[1] = -1]
      [] fault = "shared field"        -> [m EXCEPT !.fragments[1].files[1].fields[1] = 0]
      [] fault = "missing column"      -> [m EXCEPT !.fragments[2].files[1].column_indices = <<0>>]
      [] fault = "repeated column"     -> [m EXCEPT !.fragments[2].files[1].column_indices = <<0, 0>>]
      [] fault = "unknown type"        -> [m EXCEPT !.fragments[1].deletion.file_type = 2]
      [] fault = "future"              -> [m EXCEPT !.fragments[1].deletion.read_version = 3]
      [] fault = "too many"            -> [m EXCEPT !.fragments[1].deletion.num_deleted_rows =
                                                       m.fragments[1].physical_rows + 1]
      [] fault = "unknown flag"        -> [m EXCEPT !.reader_flags = @ \cup {FlagUnknown}]
      [] fault = "unflagged deletions" -> [m EXCEPT !.writer_flags = @ \ {FlagDeletionFiles}]
      [] fault = "unflagged config"    -> [m EXCEPT !.writer_flags = @ \ {FlagTableConfig}]
      [] fault = "deprecated"          -> [m EXCEPT !.writer_flags = @ \cup {FlagV2Format}]
      [] fault = "overlays"            -> [m EXCEPT !.fragments[2].overlays = 1]
      [] fault = "unstable format"     -> [m EXCEPT !.data_format = "2.3"]
      [] fault = "duplicate base"      -> WithBases(m, <<Base(1, FALSE), Base(1, FALSE)>>)
      [] fault = "empty base"          -> WithBases(m, <<Base(1, TRUE)>>)
      [] fault = "missing base"        -> [m EXCEPT !.fragments[1].files[2].base_id = 2]
      [] fault = "missing deletion base" -> [m EXCEPT !.fragments[1].deletion.base_id = 2]
      [] fault = "unflagged base"      -> [m EXCEPT !.base_paths = IF @ = <<>> THEN <<Base(1, FALSE)>> ELSE @,
                                                    !.reader_flags = @ \ {FlagBasePaths}]
      [] fault = "unsafe transaction"  -> [m EXCEPT !.transaction = <<RootDir, 1>>]
      [] OTHER                         -> m

BadEnvelopes ==
    {[Envelope EXCEPT !.size = s] : s \in {16, 19, 20, 27, 39}}
      \cup {[Envelope EXCEPT !.position = p] : p \in {-1, 3, 20, 21, 24}}
      \cup {[Envelope EXCEPT !.magic = FALSE], [Envelope EXCEPT !.version = <<0, 2>>],
            [Envelope EXCEPT !.length = 17], [Envelope EXCEPT !.decodes = FALSE]}

Damaged(faults) ==
    LET made[i \in 0..Len(FaultOrder)] ==
          IF i = 0 THEN Sample
          ELSE IF FaultOrder[i] \in faults THEN Faulty(made[i - 1], FaultOrder[i]) ELSE made[i - 1]
    IN made[Len(FaultOrder)]

\* Entries next to the manifest.
Stray(fault) ==
    CASE fault = "detached"        -> [Sample EXCEPT !.kind = "detached", !.stem = MaxWord - 5]
      [] fault = "stray"           -> [Sample EXCEPT !.kind = "other"]
      [] fault = "unreadable name" -> [Sample EXCEPT !.stem = None]
      [] fault = "mixed"           -> [Sample EXCEPT !.stem = 1, !.long = FALSE, !.version = 1]

Strays(faults) ==
    {Stray(f) : f \in faults \cap {"detached", "stray", "unreadable name", "mixed"}}

\* The entries of `_versions'.
Entries(faults, m) ==
    {e \in Strays(faults) \cup {m} :
        /\ "no directory" \notin faults
        /\ "empty" \in faults => e.kind # "manifest" \/ e.stem = None}

SizedObjects(m) == {r.object : r \in {s \in Range(References(m)) : s.sized}}

HealthyDataset ==
    /\ damage = {} /\ entries = {First} /\ objects = Files(First) /\ resized = {}

BrokenDataset ==
    /\ damage \in Damages \ {{}}
    /\ LET broken == Damaged(damage)
       IN /\ \E e \in IF "corrupt" \in damage THEN BadEnvelopes ELSE {Envelope} :
                entries = Entries(damage, [broken EXCEPT !.envelope = e])
          /\ \E lost \in IF "lost" \in damage THEN Objects(broken) ELSE {None} :
                objects = Files(broken) \ {lost}
          /\ \E wrong \in IF "resized" \in damage THEN SizedObjects(broken) ELSE {None} :
                resized = {wrong} \ {None}

Init ==
    /\ HealthyDataset \/ BrokenDataset
    /\ writing = None
    /\ phase = "start"
    /\ unread = {} /\ seen = {}
    /\ selected = None /\ manifest = None
    /\ errors = {}
    /\ size_known = FALSE /\ num_rows = None
    /\ unchecked = <<>>
    /\ diagnostics = {}
    /\ opened = 0
    /\ cleaned = FALSE
    /\ live = <<2>>

-----------------------------------------------------------------------------
(* The processes that use the dataset.                                     *)

\* The files of a version are written before its manifest.
WriteFiles ==
    /\ damage = {} /\ writing = None
    /\ \E m \in entries : \E c \in Commits(m) :
          /\ Latest(m) /\ m.version < LastVersion
          /\ writing' = c[1]
          /\ live' = Append(live, Last(live) + c[2])
          /\ objects' = objects \cup Files(c[1])
    /\ UNCHANGED <<entries, resized, damage, linter, opened, cleaned>>

\* The commit puts a complete manifest in place.
Commit ==
    /\ writing # None
    /\ entries' = entries \cup {writing}
    /\ writing' = None
    /\ UNCHANGED <<objects, resized, damage, live, linter, opened, cleaned>>

Needed == {o \in objects : \/ \E m \in entries : Latest(m) /\ o \in Files(m)
                           \/ writing # None /\ o \in Files(writing)}

\* Cleanup deletes manifests that are not the latest, and files the latest does not
\* refer to and nobody is writing.
CleanUp ==
    /\ damage = {}
    /\ \/ \E m \in entries :
            /\ ~Latest(m)
            /\ entries' = entries \ {m}
            /\ UNCHANGED objects
       \/ \E o \in objects \ Needed :
            /\ objects' = objects \ {o}
            /\ UNCHANGED entries
    /\ cleaned' = (phase # "start")
    /\ UNCHANGED <<resized, writing, damage, live, linter, opened>>

-----------------------------------------------------------------------------
(* The linter.                                                             *)

\* The linter writes nothing.
Reading == UNCHANGED <<dataset, cleaned>>

NoVersionsDirectory ==
    /\ phase = "start" /\ "no directory" \in damage
    /\ errors' = {"no versions directory"}
    /\ phase' = "stat"
    /\ UNCHANGED <<unread, seen, selected, manifest, size_known, num_rows, unchecked,
                   diagnostics, opened>>
    /\ Reading

OpenVersions ==
    /\ phase = "start" /\ "no directory" \notin damage
    /\ unread' = entries
    /\ IF entries = {} THEN UNCHANGED opened
       ELSE \E m \in entries : Latest(m) /\ opened' = m.version
    /\ phase' = "list"
    /\ UNCHANGED <<seen, selected, manifest, errors, size_known, num_rows, unchecked, diagnostics>>
    /\ Reading

\* One entry: a manifest whose name is no number is an error, entries of another kind are
\* passed over.
TakeEntry(e) ==
    /\ unread' = unread \ {e}
    /\ seen' = seen \cup Attached({e})
    /\ errors' = errors \cup {"filename" : n \in {m \in {e} : m.kind = "manifest"} \ Attached({e})}

\* read_dir gives every entry that stays, perhaps one that is deleted meanwhile, and
\* perhaps one that is added meanwhile.
ListEntry ==
    /\ phase = "list"
    /\ \/ \E e \in unread : TakeEntry(e)
       \/ \E e \in unread \ entries : unread' = unread \ {e} /\ UNCHANGED <<seen, errors>>
       \/ \E e \in entries \ (unread \cup seen) :
              damage = {} /\ unread' = unread \cup {e} /\ UNCHANGED <<seen, errors>>
    /\ UNCHANGED <<phase, selected, manifest, size_known, num_rows, unchecked, diagnostics, opened>>
    /\ Reading

NamingErrors == {"mixed naming" : pair \in {p \in seen \X seen : p[1].long # p[2].long}}

SelectLatest ==
    /\ phase = "list" /\ unread = {} /\ seen # {}
    /\ \E m \in seen : IsLatest(m, seen) /\ selected' = m
    /\ errors' = errors \cup NamingErrors
    /\ phase' = "read"
    /\ UNCHANGED <<unread, seen, manifest, size_known, num_rows, unchecked, diagnostics, opened>>
    /\ Reading

NoManifestFound ==
    /\ phase = "list" /\ unread = {} /\ seen = {}
    /\ errors' = errors \cup {"no manifest"}
    /\ phase' = "stat"
    /\ UNCHANGED <<unread, seen, selected, manifest, size_known, num_rows, unchecked,
                   diagnostics, opened>>
    /\ Reading

\* Mutant: the version is resolved again when the manifest is read.
ReadLatestManifest ==
    /\ phase = "read"
    /\ \E m \in entries :
         /\ Latest(m)
         /\ IF Decodes(m.envelope) THEN manifest' = m /\ UNCHANGED errors
            ELSE errors' = errors \cup {"undecodable"} /\ UNCHANGED manifest
    /\ phase' = "stat"
    /\ UNCHANGED <<unread, seen, selected, size_known, num_rows, unchecked, diagnostics, opened>>
    /\ Reading

\* A manifest that is gone or does not decode becomes an error of the dataset.
ReadManifest ==
    /\ phase = "read"
    /\ IF selected \in entries /\ Decodes(selected.envelope)
       THEN manifest' = selected /\ UNCHANGED errors
       ELSE errors' = errors \cup {"undecodable"} /\ UNCHANGED manifest
    /\ phase' = "stat"
    /\ UNCHANGED <<unread, seen, selected, size_known, num_rows, unchecked, diagnostics, opened>>
    /\ Reading

\* scan_dataset: the size is that of the manifest file, or 0 once it is gone, and the rows
\* are those that the manifest tells.
StatManifest ==
    /\ phase = "stat"
    /\ size_known' = (selected \in entries)
    /\ num_rows' = IF manifest = None THEN None ELSE TotalRows(manifest)
    /\ phase' = "rules"
    /\ UNCHANGED <<unread, seen, selected, manifest, errors, unchecked, diagnostics, opened>>
    /\ Reading

\* AL201: what the inspection noted, and a payload that disagrees with its name.
InvalidManifest ==
    {Report("AL201", e, None) : e \in errors}
      \cup UNION {ReportIf(m.version # ParseManifestFilename(selected), "AL201", "version")
                    \cup ReportIf(m.version = 0, "AL201", "zero") : m \in {manifest} \ {None}}

\* Every input has been scanned; the rules that look at the manifest have run.
RunRules ==
    /\ phase = "rules"
    /\ diagnostics' = InvalidManifest
         \cup UNION {ManifestDiagnostics(m, Cardinality(seen)) : m \in {manifest} \ {None}}
    /\ unchecked' = IF manifest = None THEN <<>> ELSE References(manifest)
    /\ phase' = "references"
    /\ UNCHANGED <<unread, seen, selected, manifest, errors, size_known, num_rows, opened>>
    /\ Reading

\* Mutant: an existing file is taken for the one recorded.
MissingOnly(r) == {Report("AL206", "missing", o) : o \in {r.object} \ objects}

\* AL206 looks up one reference: it must exist, and a data file have its recorded size.
MissingReference(r) ==
    {Report("AL206", "missing", o) : o \in {r.object} \ objects}
      \cup {Report("AL206", "size", o) : o \in {p \in {r.object} \cap objects \cap resized : r.sized}}

CheckReference ==
    /\ phase = "references" /\ unchecked # <<>>
    /\ diagnostics' = diagnostics \cup MissingReference(Head(unchecked))
    /\ unchecked' = Tail(unchecked)
    /\ UNCHANGED <<phase, unread, seen, selected, manifest, errors, size_known, num_rows, opened>>
    /\ Reading

Finish ==
    /\ phase = "references" /\ unchecked = <<>>
    /\ phase' = "done"
    /\ UNCHANGED <<unread, seen, selected, manifest, errors, size_known, num_rows, unchecked,
                   diagnostics, opened>>
    /\ Reading

Lint ==
    \/ NoVersionsDirectory
    \/ OpenVersions
    \/ ListEntry
    \/ SelectLatest
    \/ NoManifestFound
    \/ ReadManifest
    \/ StatManifest
    \/ RunRules
    \/ CheckReference
    \/ Finish

Next == Lint \/ WriteFiles \/ Commit \/ CleanUp

Spec == Init /\ [][Next]_vars

-----------------------------------------------------------------------------
(* Properties.                                                             *)

\* The variables have their types: what is selected is attached, what is decoded is what
\* was selected, and the rows are a signed word that is not negative.
TypeOK ==
    /\ phase \in {"start", "list", "read", "stat", "rules", "references", "done"}
    /\ damage \in Damages
    /\ writing # None => Files(writing) \subseteq objects
    /\ seen = Attached(seen)
    /\ selected \in seen \cup {None}
    /\ manifest # None => manifest = selected /\ Decodes(manifest.envelope)
    /\ size_known \in BOOLEAN /\ cleaned \in BOOLEAN
    /\ num_rows \in {None} \cup 0..MaxRows
    /\ opened \in 0..LastVersion
    /\ Len(live) \in 1..LastVersion

\* The rules that report something is wrong; AL207 gives advice.
Reported == {d.rule : d \in diagnostics} \ {"AL207"}

\* The version the linter went for.
Aim == IF selected = None THEN opened ELSE selected.version

\* Reading without a lock is safe for what is reported of the current version: on a
\* dataset that Lance keeps healthy, only AL201 and AL206 can report anything, and only of
\* a version that is no longer the latest.
StaleAlarmsOnly ==
    damage = {} /\ Reported # {} =>
        /\ Reported \subseteq {"AL201", "AL206"}
        /\ \E m \in entries : m.version > Aim

\* As long as nothing is cleaned up, writers may commit as they like during the run:
\* nothing is reported of a healthy dataset.
NoFalseAlarm == damage = {} /\ ~cleaned => Reported = {}

\* inspect_dataset judges the latest version: none older than the latest at the start, and
\* the rows of the scanned dataset are those that the commits of this version left.
CurrentVersion ==
    damage = {} =>
        /\ phase \in {"read", "stat", "rules", "references", "done"} /\ ~cleaned
              => selected # None /\ selected.version >= opened
        /\ manifest # None /\ phase \notin {"read", "stat"}
              => num_rows = live[manifest.version]

\* The faults by the rule that has to report them; the others are none to report.
RuleOf(fault) ==
    CASE fault \in {"zero", "renumbered", "corrupt", "unreadable name", "mixed", "empty",
                    "no directory"} -> "AL201"
      [] fault \in {"duplicate id", "low mark"} -> "AL202"
      [] fault \in {"unsafe path", "empty path", "forbidden field", "shared field",
                    "missing column", "repeated column"} -> "AL203"
      [] fault \in {"unknown type", "future", "too many"} -> "AL204"
      [] fault \in {"unknown flag", "unflagged deletions", "unflagged config", "deprecated",
                    "overlays", "unstable format", "unflagged base"} -> "AL205"
      [] fault \in {"duplicate base", "empty base", "missing base", "missing deletion base",
                    "unsafe transaction", "lost", "resized"} -> "AL206"
      [] OTHER -> None

Rules(faults) == {RuleOf(f) : f \in faults} \ {None}

\* AL201 to AL206 find each of the ways in which a dataset may be broken, also when it is
\* broken in two at once, and each rule reports only its own: a manifest that cannot be
\* read hides everything else, and one of version 0 has no deletion in its past.
DamageReported ==
    phase = "done" /\ damage # {} =>
        IF damage \cap {"corrupt", "empty", "no directory"} # {} THEN Reported = {"AL201"}
        ELSE /\ Rules(damage) \subseteq Reported
             /\ Reported \subseteq Rules(damage) \cup {"AL204" : f \in {"zero"} \cap damage}

=============================================================================
