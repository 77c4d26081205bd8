---------------------------- MODULE ParquetRules ----------------------------
(***************************************************************************)
(* The rules on Parquet files and on the schemas of a dataset, AL001 to    *)
(* AL015 and AL100 in crates/arrowlint-core/src/rules.rs.                  *)
(*                                                                         *)
(* A dataset is a sequence of scanned files, in the order of their paths:  *)
(*   path, format, size;                                                   *)
(*   rows, groups: the counts and row groups of the footer;                *)
(*   schema: None, or its fields and whether it has key-value metadata;    *)
(*   geo: the parsed `geo' metadata, which is up to module GeoParquet.     *)
(* A row group holds rows, bytes and a function from column paths to       *)
(* column chunks.  Counts of the footer are signed words and those of the  *)
(* statistics natural numbers.                                             *)
(***************************************************************************)
EXTENDS Integers, SequencesExt

CONSTANTS
    MaxWord,          \* the greatest signed count, in place of i64::MAX
    MinRowGroupRows,  \* rules.min_row_group_rows
    SmallFileBytes,   \* rules.small_file_bytes
    None              \* stands for an absent value

ASSUME WordAssumption == MaxWord \in Nat \ {0}
ASSUME ThresholdsAssumption == MinRowGroupRows \in Nat /\ SmallFileBytes \in Nat

Words == -MaxWord - 1 .. MaxWord

Name == Seq(STRING)

ASSUME NoneAssumption == None \notin Int \cup Name \cup Seq(Name)

Counts == {"null_count", "distinct_count"}

\* is_supported_scanner
Supported == {"ArrowIpc", "Feather", "Parquet"}

Files(dataset) == {dataset[i] : i \in DOMAIN dataset}
ParquetFiles(dataset) == {f \in Files(dataset) : f.format = "Parquet"}

\* The column chunks of a file, each a row group and a column path.
Chunks(f) == UNION {{<<g, c>> : c \in DOMAIN f.groups[g].columns} : g \in DOMAIN f.groups}
Chunk(f, id) == f.groups[id[1]].columns[id[2]]

IsChunk(c) ==
    /\ {c.num_values, c.compressed, c.uncompressed} \subseteq Words
    /\ c.statistics # None => \A n \in Counts : c.statistics[n] \in Nat \cup {None}

IsGroup(g) ==
    /\ g.rows \in Words /\ g.bytes \in Words
    /\ \A c \in DOMAIN g.columns : IsChunk(g.columns[c])

\* A place in a file is a row group or 0 and a column path or <<>>; several
\* diagnostics of one rule at one place are one report.
Report(rule, f, place) == [rule |-> rule, path |-> f.path, place |-> place]

WholeFile == <<0, <<>>>>

\* One diagnostic for every column chunk of a Parquet file that is bad.
ChunkReports(rule, dataset, Bad(_)) ==
    UNION {{Report(rule, f, id) : id \in {i \in Chunks(f) : Bad(Chunk(f, i))}} :
              f \in ParquetFiles(dataset)}

-----------------------------------------------------------------------------
(* Layout and encoding.                                                    *)

TinyRowGroups(dataset) ==
    UNION {{Report("AL001", f, <<g, <<>>>>) :
              g \in {i \in DOMAIN f.groups : f.groups[i].rows \in 1..(MinRowGroupRows - 1)}} :
              f \in ParquetFiles(dataset)}

MissingParquetStatistics(dataset) ==
    ChunkReports("AL002", dataset, LAMBDA c : c.statistics = None)

DictionaryEncodings == {"PLAIN_DICTIONARY", "RLE_DICTIONARY"}

\* Whether the row groups of a file encode a column with a dictionary.
DictionaryUsage(f, column) ==
    {Chunk(f, id).encodings \cap DictionaryEncodings # {} : id \in {i \in Chunks(f) : i[2] = column}}

MixedDictionaryEncodings(dataset) ==
    UNION {{Report("AL006", f, <<0, c>>) :
              c \in {id[2] : id \in {i \in Chunks(f) : DictionaryUsage(f, i[2]) = BOOLEAN}}} :
              f \in ParquetFiles(dataset)}

SmallFiles(dataset) ==
    LET small == {i \in DOMAIN dataset :
                    dataset[i].format \in Supported /\ dataset[i].size \in 1..(SmallFileBytes - 1)}
    IN IF Cardinality(small) > 1 THEN {Report("AL007", [path |-> None], WholeFile)} ELSE {}

UncompressedParquetColumns(dataset) ==
    ChunkReports("AL008", dataset, LAMBDA c : c.compression = "UNCOMPRESSED")

DeprecatedParquetPhysicalTypes(dataset) ==
    ChunkReports("AL009", dataset, LAMBDA c : c.physical_type = "INT96")

DeprecatedParquetEncodings(dataset) ==
    ChunkReports("AL010", dataset,
                 LAMBDA c : c.encodings \cap {"PLAIN_DICTIONARY", "BIT_PACKED"} # {})

DeprecatedParquetCompression(dataset) ==
    ChunkReports("AL011", dataset, LAMBDA c : c.compression = "LZ4")

-----------------------------------------------------------------------------
(* Counts.                                                                 *)

\* u64::try_from(num_values) fails for a negative count.
InvalidParquetStatistics(dataset) ==
    ChunkReports("AL012", dataset,
                 LAMBDA c : /\ c.num_values >= 0
                            /\ c.statistics # None
                            /\ \E n \in Counts : /\ c.statistics[n] # None
                                                 /\ c.statistics[n] > c.num_values)

\* Mutant: the addition wraps around.
WrappingAdd(a, b) == ((a + b + MaxWord + 1) % (2 * (MaxWord + 1))) - MaxWord - 1

\* i64::checked_add; once the sum has overflowed the fold is over.
CheckedAdd(a, b) == IF a # None /\ a + b \in Words THEN a + b ELSE None

RowSum(groups) ==
    LET sum[i \in 0..Len(groups)] ==
          IF i = 0 THEN 0 ELSE CheckedAdd(sum[i - 1], groups[i].rows)
    IN sum[Len(groups)]

InconsistentParquetRowCounts(dataset) ==
    {Report("AL013", f, WholeFile) :
        f \in {p \in ParquetFiles(dataset) : /\ \A g \in DOMAIN p.groups : p.groups[g].rows >= 0
                                             /\ RowSum(p.groups) # p.rows}}

MissingParquetNullCounts(dataset) ==
    ChunkReports("AL014", dataset,
                 LAMBDA c : c.statistics # None /\ c.statistics["null_count"] = None)

NegativeFileRows(dataset) ==
    {Report("AL015", f, WholeFile) : f \in {p \in ParquetFiles(dataset) : p.rows < 0}}

NegativeGroups(dataset) ==
    UNION {{Report("AL015", f, <<g, <<>>>>) :
              g \in {i \in DOMAIN f.groups : f.groups[i].rows < 0 \/ f.groups[i].bytes < 0}} :
              f \in ParquetFiles(dataset)}

NegativeChunks(dataset) ==
    ChunkReports("AL015", dataset,
                 LAMBDA c : c.num_values < 0 \/ c.compressed < 0 \/ c.uncompressed < 0)

InvalidParquetSizeMetadata(dataset) ==
    NegativeFileRows(dataset) \cup NegativeGroups(dataset) \cup NegativeChunks(dataset)

-----------------------------------------------------------------------------
(* Schemas.  A field has a name, which is a sequence of characters, a type *)
(* by its text, which is one token here, and whether it is nullable.       *)

Field == [name : Name, type : STRING, nullable : BOOLEAN]

\* Mutant: nullability is left out.
FingerprintNamesAndTypes(fields) ==
    FlattenSeq([i \in DOMAIN fields |-> fields[i].name \o <<":", fields[i].type, "|">>])

FieldText(field) ==
    field.name \o <<":", field.type, ":", IF field.nullable THEN "true" ELSE "false">>

\* The texts of the fields, joined.
Fingerprint(fields) ==
    FlattenSeq([i \in DOMAIN fields |->
                  IF i = 1 THEN FieldText(fields[i]) ELSE <<"|">> \o FieldText(fields[i])])

\* The first file that has a schema is the baseline.
InconsistentSchemas(dataset) ==
    LET schemas  == {i \in DOMAIN dataset : dataset[i].schema # None}
        baseline == dataset[Min(schemas)].schema.fields
    IN {Report("AL003", dataset[i], WholeFile) :
          i \in {j \in schemas : Fingerprint(dataset[j].schema.fields) # Fingerprint(baseline)}}

MissingSchemaMetadata(dataset) ==
    {Report("AL004", f, WholeFile) :
        f \in {g \in Files(dataset) : /\ g.format \in Supported
                                      /\ g.schema # None /\ ~g.schema.metadata}}

\* Types by what their text contains.
SecondTimestamps == {"Timestamp(Second, None)", "Timestamp(Second, Some)"}
ZonedTimestamps  == {"Timestamp(Second, Some)", "Timestamp(Nanosecond, Some)"}

NonPortableTimestamps(dataset) ==
    UNION {{Report("AL005", f, <<0, f.schema.fields[i].name>>) :
              i \in {j \in DOMAIN f.schema.fields :
                       f.schema.fields[j].type \in SecondTimestamps \cup ZonedTimestamps}} :
              f \in {g \in Files(dataset) : g.schema # None}}

\* Formats without rules of their own.
RecognizedExtensionFormat(dataset) ==
    {Report("AL100", f, WholeFile) :
        f \in {g \in Files(dataset) : g.format \notin
                 Supported \cup {"IcebergMetadata", "LanceDataset", "Vortex", "Unknown"}}}

\* The registry runs every rule on the complete dataset.
ParquetDiagnostics(dataset) ==
    UNION {TinyRowGroups(dataset), MissingParquetStatistics(dataset),
           InconsistentSchemas(dataset), MissingSchemaMetadata(dataset),
           NonPortableTimestamps(dataset), MixedDictionaryEncodings(dataset),
           SmallFiles(dataset), UncompressedParquetColumns(dataset),
           DeprecatedParquetPhysicalTypes(dataset), DeprecatedParquetEncodings(dataset),
           DeprecatedParquetCompression(dataset), InvalidParquetStatistics(dataset),
           InconsistentParquetRowCounts(dataset), MissingParquetNullCounts(dataset),
           InvalidParquetSizeMetadata(dataset), RecognizedExtensionFormat(dataset)}

=============================================================================
