---------------------------- MODULE LanceManifest ----------------------------
(***************************************************************************)
(* The manifest of a Lance dataset, how the linter reads it and the rules  *)
(* that only look at it, AL202 to AL205, AL207 and the part of AL206 about *)
(* base paths: crates/arrowlint-core/src/lance.rs.                         *)
(*                                                                         *)
(* A manifest file is a record:                                            *)
(*   kind, stem, long: its name, see ParseManifestFilename;                *)
(*   envelope: what surrounds the message: the size of the file, whether   *)
(*     it ends in the magic, position and version of the footer, length,   *)
(*     the recorded length of the message, and decodes, whether the        *)
(*     message is a protobuf;                                              *)
(*   version, max_fragment_id, reader_flags, writer_flags, config,         *)
(*     base_paths, data_format, fragments, transaction: the message.       *)
(* Flags are sets of powers of two; config tells whether there is any.     *)
(* A path is a sequence of components: positive numbers, ParentDir or      *)
(* RootDir.                                                                *)
(***************************************************************************)
EXTENDS Integers, SequencesExt

CONSTANTS
    None,             \* stands for an absent value
    MaxWord,          \* the greatest unsigned word, in place of u64::MAX
    MaxRows,          \* the greatest signed word, in place of i64::MAX
    MaxVersions,      \* rules.lance_max_versions
    FragmentRows,     \* rules.lance_target_fragment_rows
    SmallFragments,   \* rules.lance_small_fragment_count
    DeletedPercent    \* rules.lance_deletion_compaction_threshold

ASSUME WordAssumption == MaxWord \in Nat /\ MaxRows \in 0..MaxWord
ASSUME ThresholdsAssumption ==
    {MaxVersions, FragmentRows, SmallFragments, DeletedPercent} \subseteq Nat

DataFiles ==
    [path : Seq(Int), fields : Seq(Int), column_indices : Seq(Int), major : Nat, sized : BOOLEAN,
     base_id : Nat \cup {None}]

DeletionFiles ==
    [file_type : Nat, read_version : Nat, id : Nat, num_deleted_rows : Nat,
     base_id : Nat \cup {None}]

Fragments ==
    [id : Nat, files : Seq(DataFiles), physical_rows : Nat, deletion : DeletionFiles \cup {None},
     overlays : Nat]

Envelopes ==
    [size : Nat, magic : BOOLEAN, position : Int, version : Nat \X Nat, length : Nat,
     decodes : BOOLEAN]

ManifestFiles ==
    [kind : {"manifest", "detached", "other"}, stem : Nat \cup {None}, long : BOOLEAN,
     envelope : Envelopes, version : Nat, max_fragment_id : Nat \cup {None},
     reader_flags : SUBSET Nat, writer_flags : SUBSET Nat, config : BOOLEAN,
     base_paths : Seq([id : Nat, empty : BOOLEAN]), data_format : {"2.1", "2.3"},
     fragments : Seq(Fragments), transaction : Seq(Int)]

ASSUME NoneAssumption == None \notin Int \cup DeletionFiles \cup ManifestFiles

-----------------------------------------------------------------------------
(* Reading a manifest.                                                     *)

\* Mutant: the numbers of V2 names count up.
ParseUpwards(file) == file.stem

\* The version a name tells, None if it is not a number; names with twenty
\* digits are of the V2 scheme and count down.
ParseManifestFilename(file) ==
    IF file.stem # None /\ file.long THEN MaxWord - file.stem ELSE file.stem

\* Whether read_manifest gets as far as to the end.
Decodes(envelope) ==
    LET footer_start == envelope.size - 16
    IN /\ envelope.size >= 20 /\ envelope.magic
       /\ envelope.position >= 0 /\ envelope.position + 4 <= footer_start
       /\ envelope.version = <<0, 1>>
       /\ envelope.length = footer_start - (envelope.position + 4)
       /\ envelope.decodes

\* Mutant: the sum of the rows is not checked.
UncheckedAdd(total, rows) == total + rows

CheckedAdd(total, rows) ==
    IF total # None /\ rows <= MaxRows /\ total + rows <= MaxRows THEN total + rows ELSE None

\* saturating_sub of the deleted rows.
LiveRows(fragment) ==
    LET deleted == IF fragment.deletion = None THEN 0 ELSE fragment.deletion.num_deleted_rows
    IN IF deleted <= fragment.physical_rows THEN fragment.physical_rows - deleted ELSE 0

TotalRows(m) ==
    LET total[i \in 0..Len(m.fragments)] ==
          IF i = 0 THEN 0 ELSE CheckedAdd(total[i - 1], LiveRows(m.fragments[i]))
    IN total[Len(m.fragments)]

-----------------------------------------------------------------------------
(* Rules on the manifest alone.  Several diagnostics of a rule with the    *)
(* same reason are one report.                                             *)

Report(rule, what, about) == [rule |-> rule, what |-> what, about |-> about]

\* The report, if the condition holds.
ReportIf(condition, rule, what) == {r \in {Report(rule, what, None)} : condition}

\* The non-negative numbers that come again in a sequence.
Repeats(s) == {i \in DOMAIN s : s[i] >= 0 /\ \E j \in 1..(i - 1) : s[j] = s[i]}

Ids(s) == [i \in DOMAIN s |-> s[i].id]

InvalidFragmentIdentifiers(m) ==
    ReportIf(Repeats(Ids(m.fragments)) # {}, "AL202", "duplicate")
      \cup ReportIf(/\ m.max_fragment_id # None
                    /\ \E id \in Range(Ids(m.fragments)) : id > m.max_fragment_id,
                    "AL202", "high-water mark")

ParentDir == -1
RootDir   == -2

IsSafeRelativePath(path) == path # <<>> /\ Range(path) \cap {ParentDir, RootDir} = {}

\* The fields of all data files of a fragment.
FragmentFields(fragment) == FlattenSeq([i \in DOMAIN fragment.files |-> fragment.files[i].fields])

InvalidDataFile(file) ==
    ReportIf(~IsSafeRelativePath(file.path), "AL203", "path")
      \cup ReportIf(-1 \in Range(file.fields), "AL203", "forbidden field")
      \cup ReportIf(file.major > 0 /\ Len(file.column_indices) # Len(file.fields), "AL203", "columns")
      \cup ReportIf(Repeats(file.column_indices) # {}, "AL203", "repeated column")

InvalidDataFiles(m) ==
    UNION {ReportIf(Repeats(FragmentFields(fragment)) # {}, "AL203", "shared field")
             \cup UNION {InvalidDataFile(file) : file \in Range(fragment.files)} :
              fragment \in Range(m.fragments)}

\* The fragments with a deletion file.
Deleted(m) == {fragment \in Range(m.fragments) : fragment.deletion # None}

InvalidDeletionFile(fragment, version) ==
    ReportIf(fragment.deletion.file_type \notin {0, 1}, "AL204", "type")
      \cup ReportIf(fragment.deletion.read_version > version, "AL204", "future")
      \cup ReportIf(fragment.deletion.num_deleted_rows > fragment.physical_rows, "AL204", "rows")

InvalidDeletionFiles(m) ==
    UNION {InvalidDeletionFile(fragment, m.version) : fragment \in Deleted(m)}

FlagDeletionFiles == 1
FlagV2Format      == 4
FlagTableConfig   == 8
FlagBasePaths     == 16
FlagDataOverlays  == 64
FlagUnknown       == 128

\* What is an error of AL205.
IncompatibleFeatures(m) ==
    LET both == m.reader_flags \cap m.writer_flags
    IN ReportIf(\E f \in m.reader_flags \cup m.writer_flags : f >= FlagUnknown, "AL205", "unknown")
         \cup ReportIf(Deleted(m) # {} /\ FlagDeletionFiles \notin both, "AL205", "deletions")
         \cup ReportIf(m.config /\ FlagTableConfig \notin m.writer_flags, "AL205", "config")
         \cup ReportIf(m.base_paths # <<>> /\ FlagBasePaths \notin both, "AL205", "base paths")

\* What is a warning of AL205.
UnstableFeatures(m) ==
    ReportIf(FlagV2Format \in m.writer_flags, "AL205", "deprecated")
      \cup ReportIf(\/ FlagDataOverlays \in m.reader_flags \cup m.writer_flags
                    \/ \E fragment \in Range(m.fragments) : fragment.overlays > 0, "AL205", "overlays")
      \cup ReportIf(m.data_format = "2.3", "AL205", "format")

\* The base paths that data files and deletion files are in.
BaseIds(m) ==
    {fragment.deletion.base_id : fragment \in Deleted(m)}
      \cup UNION {{file.base_id : file \in Range(fragment.files)} : fragment \in Range(m.fragments)}

\* The part of AL206 that looks up nothing.
InvalidBasePaths(m) ==
    ReportIf(Repeats(Ids(m.base_paths)) # {}, "AL206", "duplicate base")
      \cup ReportIf(\E base \in Range(m.base_paths) : base.empty, "AL206", "empty base")
      \cup ReportIf(BaseIds(m) \ ({None} \cup Range(Ids(m.base_paths))) # {}, "AL206", "missing base")
      \cup ReportIf(m.transaction # <<>> /\ ~IsSafeRelativePath(m.transaction), "AL206", "transaction")

\* AL207, given the number of manifests listed; a threshold of 0 switches off.
MaintenanceOpportunities(m, manifest_count) ==
    ReportIf(MaxVersions > 0 /\ manifest_count > MaxVersions, "AL207", "versions")
      \cup ReportIf(/\ FragmentRows > 0 /\ SmallFragments > 0
                    /\ Cardinality({i \in DOMAIN m.fragments :
                                      m.fragments[i].physical_rows \in 1..(FragmentRows - 1)})
                         >= SmallFragments, "AL207", "fragments")
      \cup ReportIf(/\ DeletedPercent > 0
                    /\ \E f \in Deleted(m) :
                          /\ f.physical_rows > 0
                          /\ 100 * f.deletion.num_deleted_rows > DeletedPercent * f.physical_rows,
                    "AL207", "deletions")

ManifestDiagnostics(m, manifest_count) ==
    UNION {InvalidFragmentIdentifiers(m), InvalidDataFiles(m), InvalidDeletionFiles(m),
           IncompatibleFeatures(m), UnstableFeatures(m), InvalidBasePaths(m),
           MaintenanceOpportunities(m, manifest_count)}

-----------------------------------------------------------------------------
(* The files that AL206 looks up.                                          *)

DataObject(path)        == [kind |-> "data", name |-> path]
TransactionObject(path) == [kind |-> "transaction", name |-> path]

\* Mutant: the name is made from the version of the manifest.
DeletionObjectAnew(m, fragment) ==
    [kind |-> "deletion",
     name |-> <<fragment.id, m.version - 1, fragment.deletion.id, fragment.deletion.file_type>>]

\* The name of a deletion file, its type standing for the suffix.
DeletionObject(m, fragment) ==
    [kind |-> "deletion",
     name |-> <<fragment.id, fragment.deletion.read_version, fragment.deletion.id,
                fragment.deletion.file_type>>]

\* A reference is a file and whether its size is recorded.
Reference(object, sized) == [object |-> object, sized |-> sized]

DataReference(file) ==
    IF file.base_id = None /\ IsSafeRelativePath(file.path)
    THEN <<Reference(DataObject(file.path), file.sized)>> ELSE <<>>

DataReferences(fragment) ==
    FlattenSeq([i \in DOMAIN fragment.files |-> DataReference(fragment.files[i])])

DeletionReferences(m, fragment) ==
    IF /\ fragment.deletion # None
       /\ fragment.deletion.base_id = None /\ fragment.deletion.file_type \in {0, 1}
    THEN <<Reference(DeletionObject(m, fragment), FALSE)>> ELSE <<>>

\* In the order in which they are looked up.
References(m) ==
    FlattenSeq([i \in DOMAIN m.fragments |->
                  DataReferences(m.fragments[i]) \o DeletionReferences(m, m.fragments[i])])
      \o IF IsSafeRelativePath(m.transaction)
         THEN <<Reference(TransactionObject(m.transaction), FALSE)>> ELSE <<>>

Objects(m) == {r.object : r \in Range(References(m))}

=============================================================================
