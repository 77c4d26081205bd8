----------------------------- MODULE ArrowDiff -----------------------------
(***************************************************************************)
(* The comparison of two datasets, crates/arrowlint-core/src/diff.rs, and  *)
(* the commands that run it: `diff' of the native command line (main.rs),  *)
(* and `arrow-lint diff' and `arrowdiff' of the Python one (cli.py).       *)
(*                                                                         *)
(* A comparison scans the old dataset, then the new one, and condenses     *)
(* each to schema variants, column statistics, key-value metadata and      *)
(* layout statistics.  To print text and return a status, the Python       *)
(* commands compare twice.  Other processes may write the datasets at any  *)
(* moment.                                                                 *)
(***************************************************************************)
EXTENDS Naturals, FiniteSets, Sequences, FiniteSetsExt

CONSTANTS
    Names,      \* names a file may have, numbered in their order
    Contents,   \* what a file may hold, as records of File
    Modes,      \* ways to run the command
    Absent,     \* content of a name without a file
    NoSchema,   \* fields of a file whose schema could not be read
    Unknown,    \* rows of a file that does not tell
    MaxEdits    \* bound on the edits of other processes during the command

\* What a scan keeps of a column chunk (ColumnChunkModel) and of a row group.
Chunk    == [path: STRING, values: Nat, stats: STRING, codec: STRING, compressed: Nat]
RowGroup == [rows: Nat, bytes: Nat, columns: Seq(Chunk)]

ASSUME NamesAssumption    == Names \subseteq Nat /\ IsFiniteSet(Names)
ASSUME ContentsAssumption ==
    /\ Absent \notin Contents
    /\ \A f \in Contents :
         /\ f.groups \in Seq(RowGroup)
         /\ f.rows \in Nat \cup {Unknown} /\ f.size \in Nat
         /\ f.fields = NoSchema => f.groups = <<>> /\ f.schema_kv = {}
ASSUME ModesAssumption ==
    Modes \subseteq [front: {"native", "python"}, output: {"text", "json"}, exit_code: BOOLEAN]
ASSUME EditsAssumption == MaxEdits \in Nat

VARIABLES
    old, new,   \* the datasets: what each name holds now
    edits,
    mode,       \* the invocation
    phase,      \* "old", "new", "compare", "second", "exit", "exited", "aborted"
    pass,       \* which comparison this is: 1 or 2
    scanned,    \* the datasets as scanned
    shown,      \* whether the report shown has changes
    judged,     \* whether the report the status is taken from has changes
    exit        \* 0 or 1 once the process has exited, else 2

vars == <<old, new, edits, mode, phase, pass, scanned, shown, judged, exit>>

Datasets == [Names -> Contents \cup {Absent}]

FileNames(d) == {n \in Names : d[n] # Absent}

-----------------------------------------------------------------------------
(* The condensed datasets.                                                 *)

GroupIds(d) == UNION {{n} \X DOMAIN d[n].groups : n \in FileNames(d)}
Group(d, id) == d[id[1]].groups[id[2]]

ChunkIds(d) == UNION {{id} \X DOMAIN Group(d, id).columns : id \in GroupIds(d)}
ChunkAt(d, c) == Group(d, c[1]).columns[c[2]]

\* How often each value occurs: what the code compares as sorted lists.
Tally(ids, value) == [v \in {value[i] : i \in ids} |-> Cardinality({i \in ids : value[i] = v})]

\* dataset.schema: that of the first file that has one.
WithSchema(d) == {n \in FileNames(d) : d[n].fields # NoSchema}
HasSchema(d)  == WithSchema(d) # {}
FirstSchema(d) == d[Min(WithSchema(d))]

\* Mutant: the first file stands for all.
FirstVariant(d) == IF WithSchema(d) = {} THEN {} ELSE {FirstSchema(d).fields}

SchemaVariants(d) == {d[n].fields : n \in FileNames(d)} \ {NoSchema}

\* Schema.identical is Some(false).
SchemaChanged(a, b) ==
    HasSchema(a) /\ HasSchema(b) /\ SchemaVariants(a) # SchemaVariants(b)

EvidenceColumns(d) == {ChunkAt(d, c).path : c \in ChunkIds(d)}

\* Of each column by itself: which chunks share a row group is forgotten.
ColumnEvidence(d, column) ==
    LET chunks == {c \in ChunkIds(d) : ChunkAt(d, c).path = column}
    IN Tally(chunks, [c \in chunks |-> <<ChunkAt(d, c).values, ChunkAt(d, c).stats>>])

\* Mutant: the values are collected in a set.
EvidenceAsSet(a, b) ==
    {c \in EvidenceColumns(a) \cap EvidenceColumns(b) :
        DOMAIN ColumnEvidence(a, c) # DOMAIN ColumnEvidence(b, c)}

\* Only columns that both sides have are compared.
ColumnsChanged(a, b) ==
    {c \in EvidenceColumns(a) \cap EvidenceColumns(b) :
        ColumnEvidence(a, c) # ColumnEvidence(b, c)}

\* For each key the set of its values: of the dataset's schema, and of every file.
MergedMetadata(d) ==
    (IF HasSchema(d) THEN FirstSchema(d).schema_kv ELSE {})
      \cup UNION {d[n].kv : n \in FileNames(d)}

Keys(kv) == {p[1] : p \in kv}

\* Mutant: keys that only the new dataset has are left out.
MetadataLost(a, b) ==
    \E p \in MergedMetadata(a) : p \notin MergedMetadata(b)

\* Keys added, removed, or with other values.
MetadataChanged(a, b) ==
    \/ Keys(MergedMetadata(a)) # Keys(MergedMetadata(b))
    \/ \E k \in Keys(MergedMetadata(a)) \cap Keys(MergedMetadata(b)) :
         {p \in MergedMetadata(a) : p[1] = k} # {p \in MergedMetadata(b) : p[1] = k}

TotalRows(d) ==
    IF \E n \in FileNames(d) : d[n].rows = Unknown THEN Unknown
    ELSE MapThenSumSet(LAMBDA n : d[n].rows, FileNames(d))

\* The number of values in each column, in their order.
ValueCounts(group) == [k \in DOMAIN group.columns |-> group.columns[k].values]

RowGroupSignatures(d) ==
    Tally(GroupIds(d), [id \in GroupIds(d) |->
        <<Group(d, id).rows, Group(d, id).bytes, ValueCounts(Group(d, id))>>])

CompressionValues(d) == {ChunkAt(d, c).codec : c \in ChunkIds(d)}

\* The compressed bytes of a file's columns, or its size if they are zero.
ScanBytes(f) ==
    LET chunks == UNION {{i} \X DOMAIN f.groups[i].columns : i \in DOMAIN f.groups}
        compressed == MapThenSumSet(LAMBDA c : f.groups[c[1]].columns[c[2]].compressed, chunks)
    IN IF compressed = 0 THEN f.size ELSE compressed

EstimatedScanBytes(d) == MapThenSumSet(LAMBDA n : ScanBytes(d[n]), FileNames(d))

StatisticsChanged(a, b) ==
    \/ Cardinality(FileNames(a)) # Cardinality(FileNames(b))
    \/ TotalRows(a) # TotalRows(b)
    \/ RowGroupSignatures(a) # RowGroupSignatures(b)
    \/ CompressionValues(a) # CompressionValues(b)
    \/ EstimatedScanBytes(a) # EstimatedScanBytes(b)

\* report_has_changes
HasChanges(a, b) ==
    \/ SchemaChanged(a, b)
    \/ ColumnsChanged(a, b) # {}
    \/ MetadataChanged(a, b)
    \/ StatisticsChanged(a, b)

-----------------------------------------------------------------------------
Init ==
    /\ old \in Datasets /\ new \in Datasets
    /\ edits = 0
    /\ mode \in Modes
    /\ phase = "old"
    /\ pass = 1
    /\ scanned = [old |-> old, new |-> new]
    /\ shown = FALSE
    /\ judged = FALSE
    /\ exit = 2

\* Another process writes, removes or renames a file of the new dataset.
Edit ==
    /\ phase \notin {"exited", "aborted"}
    /\ edits < MaxEdits
    /\ edits' = edits + 1
    /\ \/ \E n \in Names, c \in Contents \cup {Absent} : new' = [new EXCEPT ![n] = c]
       \/ \E n, m \in Names : new[m] = Absent /\ new' = [new EXCEPT ![m] = new[n], ![n] = Absent]
    /\ UNCHANGED <<old, mode, phase, pass, scanned, shown, judged, exit>>

\* A dataset without files ends the process with status 1.
ScanFails ==
    /\ \/ phase = "old" /\ FileNames(old) = {}
       \/ phase = "new" /\ FileNames(new) = {}
    /\ phase' = "aborted"
    /\ exit' = 1
    /\ UNCHANGED <<old, new, edits, mode, pass, scanned, shown, judged>>

ScanOld ==
    /\ phase = "old" /\ FileNames(old) # {}
    /\ scanned' = [scanned EXCEPT !.old = old]
    /\ phase' = "new"
    /\ UNCHANGED <<old, new, edits, mode, pass, shown, judged, exit>>

ScanNew ==
    /\ phase = "new" /\ FileNames(new) # {}
    /\ scanned' = [scanned EXCEPT !.new = new]
    /\ phase' = "compare"
    /\ UNCHANGED <<old, new, edits, mode, pass, shown, judged, exit>>

\* The first report is shown, the last one judged.
Compare ==
    /\ phase = "compare"
    /\ LET changes == HasChanges(scanned.old, scanned.new) IN
         /\ shown' = IF pass = 1 THEN changes ELSE shown
         /\ judged' = changes
    /\ phase' = "exit"
    /\ UNCHANGED <<old, new, edits, mode, pass, scanned, exit>>

\* Text has no report to take the status from: _run_diff compares again.
CompareAgain ==
    /\ phase = "exit" /\ pass = 1
    /\ mode.front = "python" /\ mode.output = "text" /\ mode.exit_code
    /\ pass' = 2
    /\ phase' = "old"
    /\ UNCHANGED <<old, new, edits, mode, scanned, shown, judged, exit>>

\* Mutant: a difference always fails the command.
ExitWhenChanged ==
    /\ phase = "exit"
    /\ mode.front = "python" /\ mode.output = "text" /\ mode.exit_code => pass = 2
    /\ exit' = IF judged THEN 1 ELSE 0
    /\ phase' = "exited"
    /\ UNCHANGED <<old, new, edits, mode, pass, scanned, shown, judged>>

Exit ==
    /\ phase = "exit"
    /\ mode.front = "python" /\ mode.output = "text" /\ mode.exit_code => pass = 2
    /\ exit' = IF mode.exit_code /\ judged THEN 1 ELSE 0
    /\ phase' = "exited"
    /\ UNCHANGED <<old, new, edits, mode, pass, scanned, shown, judged>>

Next == ScanFails \/ ScanOld \/ ScanNew \/ Compare \/ CompareAgain \/ Exit \/ Edit

Spec == Init /\ [][Next]_vars

-----------------------------------------------------------------------------
\* The report and the status come from one comparison.
Single == ~(mode.front = "python" /\ mode.output = "text" /\ mode.exit_code)

\* arrowdiff.md: with --exit-code the status is 1 exactly when a difference is detected, and
\* without it a successful comparison returns 0.
\* For text the Python command detects it once for the report and once for the status,
\* so there it takes datasets that nobody edits.
ExitMatchesReport ==
    phase = "exited" /\ (Single \/ edits = 0) => (exit = 1 <=> mode.exit_code /\ shown)

\* Which dataset is the old one only decides the direction of the changes.
Symmetric ==
    FileNames(old) # {} /\ FileNames(new) # {} => (HasChanges(old, new) <=> HasChanges(new, old))

\* The files of a dataset, whatever their names.
FilesTally(d) == Tally(FileNames(d), d)

\* Files whose schema metadata is file metadata, too: Parquet, unless it is only in the
\* encoded Arrow schema.
Mirrored(d) == \A n \in FileNames(d) : d[n].schema_kv \subseteq d[n].kv

\* compare_datasets does not look at names: files that were merely renamed, in any
\* order, are no difference.
RenamesUnseen ==
    Mirrored(old) /\ Mirrored(new) /\ FilesTally(old) = FilesTally(new) => ~HasChanges(old, new)

Paths(group) == [k \in DOMAIN group.columns |-> group.columns[k].path]

\* A row group but for the statistics in it.
Layouts(d) ==
    Tally(GroupIds(d), [id \in GroupIds(d) |->
        <<Group(d, id).rows, Group(d, id).bytes, Paths(Group(d, id)), ValueCounts(Group(d, id))>>])

Extends(t, s) == Len(s) <= Len(t) /\ \A k \in 1..Len(s) : t[k] = s[k]

\* Of any two schemas in either dataset, one is the other with columns appended.
Nested(a, b) ==
    LET variants == {Paths(Group(a, id)) : id \in GroupIds(a)}
                      \cup {Paths(Group(b, id)) : id \in GroupIds(b)}
    IN \A s, t \in variants : Extends(s, t) \/ Extends(t, s)

\* arrowdiff.md: value counts and statistics are compared.  Only columns that both sides
\* have are, and yet, as long as schemas grow by appended columns, no chunk that comes,
\* goes or gets other value counts or statistics goes unseen, in whichever columns, files
\* and row groups; neither does a row group of another size or with other columns.
\* (Statistics that two row groups exchange do: they are compared column by column.)
DataChangeSeen ==
    Nested(old, new) /\ ~HasChanges(old, new) =>
      /\ Layouts(old) = Layouts(new)
      /\ \A c \in EvidenceColumns(old) \cup EvidenceColumns(new) :
           ColumnEvidence(old, c) = ColumnEvidence(new, c)

\* arrowdiff.md: dataset and file key-value metadata is compared, so a comparison without
\* changes has files with the same metadata on both sides.
FileMetadataSeen ==
    LET Metadata(d) == Tally(FileNames(d), [n \in FileNames(d) |-> d[n].kv \cup d[n].schema_kv])
    IN phase = "exited" /\ edits = 0 /\ ~shown => Metadata(old) = Metadata(new)

=============================================================================
