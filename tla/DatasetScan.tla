---------------------------- MODULE DatasetScan ----------------------------
(***************************************************************************)
(* The scan of a command and the built-in rules on what it read:           *)
(* scan_paths, scan_parquet and the remote reads in                        *)
(* crates/arrowlint-core/src/scanners.rs, with files and objects that      *)
(* other programs replace while it runs.                                   *)
(*                                                                         *)
(* A scan takes the targets in order.  A local Parquet file is opened      *)
(* twice, for the footer and for the Arrow schema; a remote input is       *)
(* fetched once, and everything is read from its bytes.  What fails ends   *)
(* the scan without a report.  The other scanners, which have modules of   *)
(* their own, are one step here.                                           *)
(*                                                                         *)
(* The content of a file is None (it is gone) or a record:                 *)
(*   footer: whether the footer can be read, decodes: whether the rest of  *)
(*     what the scanner needs can;                                         *)
(*   size, rows, groups, fields, metadata, geo: see ParquetRules and       *)
(*     GeoParquet, where geo is the sequence of `geo' entries.             *)
(***************************************************************************)
EXTENDS GeoParquet, PathExpansion

CONSTANTS
    Scenarios,     \* what a run starts from: args, tree, disk
    Replacements,  \* the contents that other programs write
    MaxEdits       \* bounds how often they do

ASSUME EditsAssumption == MaxEdits \in Nat
ASSUME InputsAssumption == \A s \in Scenarios : s.args.inputs \in Seq(Seq(Names) \ {<<>>})

ASSUME TreesAssumption == \A s \in Scenarios : IsTree(s.tree)

\* A content that was decoded: what follows the footer may still be broken.
IsContent(c) ==
    /\ c.rows \in Words
    /\ c.groups \in Seq(Range(c.groups)) /\ \A g \in Range(c.groups) : IsGroup(g)
    /\ c.fields \in Seq(Range(c.fields)) /\ Range(c.fields) \subseteq Field
    /\ c.geo \in Seq(Range(c.geo)) /\ (ParseMetadata(c.geo) = None => c.geo = <<>>)
    /\ \A entry \in Range(c.geo) : entry # None /\ (IsObject(entry) => IsDocument(entry))

Contents == Replacements \cup UNION {{s.disk[p] : p \in DOMAIN s.disk} : s \in Scenarios}

ASSUME ContentsAssumption ==
    /\ \A s \in Scenarios : s.disk = [p \in DOMAIN s.disk |-> s.disk[p]]
    /\ \A c \in Contents \ {None} : IsContent(c)

VARIABLES
    args,         \* inputs, a sequence of paths; recursive and follow
    tree,         \* the file system, see PathExpansion
    disk,         \* from real paths and URLs to contents
    phase,        \* what the scan does next
    targets,      \* the expanded paths that are still to be scanned
    footer,       \* the content that the open file had, or None
    files,        \* the scanned files
    diagnostics,  \* the reports
    held,         \* history: the contents that each place has had
    edits         \* how often a content was replaced

vars == <<args, tree, disk, phase, targets, footer, files, diagnostics, held, edits>>

Phases == {"expand", "scan", "schema", "fetch", "rules", "done", "failed"}

-----------------------------------------------------------------------------
(* What is read.                                                           *)

\* Where the content of a target is.
Place(path) == IF IsRemoteUrl(path) THEN path ELSE Real(tree, path)

Target  == Head(targets)
Current == IF Place(Target) \in DOMAIN disk THEN disk[Place(Target)] ELSE None

\* parquet_file_from_metadata: the footer of one content, the schema of another.
ParquetFile(path, first, second) ==
    [path |-> path, format |-> "Parquet", size |-> first.size, rows |-> first.rows,
     groups |-> first.groups, geo |-> ParseMetadata(first.geo),
     schema |-> [fields |-> second.fields, metadata |-> second.metadata]]

\* A file of another format; only the Arrow formats have a schema.
OtherFile(path, content) ==
    [path |-> path, format |-> FormatOf(path), size |-> content.size, rows |-> None,
     groups |-> <<>>, geo |-> None,
     schema |-> IF FormatOf(path) \in Supported
                THEN [fields |-> content.fields, metadata |-> content.metadata] ELSE None]

HasFooter(content) == content # None /\ content.footer
Readable(content)  == HasFooter(content) /\ content.decodes

-----------------------------------------------------------------------------
(* The scan.                                                               *)

Init ==
    /\ \E s \in Scenarios : args = s.args /\ tree = s.tree /\ disk = s.disk
    /\ phase = "expand" /\ targets = <<>> /\ footer = None
    /\ files = <<>> /\ diagnostics = {}
    /\ held = [p \in DOMAIN disk |-> {disk[p]}] /\ edits = 0

Unread == UNCHANGED <<args, tree, disk, held, edits>>

Fail ==
    /\ phase' = "failed" /\ footer' = None
    /\ UNCHANGED <<targets, files, diagnostics>> /\ Unread

\* The file of the current target is complete.
Add(file) ==
    /\ files' = Append(files, file) /\ targets' = Tail(targets)
    /\ phase' = "scan" /\ footer' = None
    /\ UNCHANGED diagnostics /\ Unread

Expand ==
    /\ phase = "expand" /\ ~ExpandFails(args, tree)
    /\ targets' = ExpandPaths(args, tree) /\ phase' = "scan"
    /\ UNCHANGED <<footer, files, diagnostics>> /\ Unread

ExpandError == phase = "expand" /\ ExpandFails(args, tree) /\ Fail

Scanning == phase = "scan" /\ targets # <<>>

\* Mutant: a file of an unknown format is a file of the dataset.
KeepUnknown ==
    /\ Scanning /\ FormatOf(Target) = "Unknown" /\ ~IsRemoteUrl(Target)
    /\ Add(OtherFile(Target, [size |-> 0]))

SkipUnknown ==
    /\ Scanning /\ FormatOf(Target) = "Unknown"
    /\ targets' = Tail(targets)
    /\ UNCHANGED <<phase, footer, files, diagnostics>> /\ Unread

\* The first open of a local Parquet file.
OpenParquet ==
    /\ Scanning /\ FormatOf(Target) = "Parquet" /\ ~IsRemoteUrl(Target)
    /\ HasFooter(Current)
    /\ footer' = Current /\ phase' = "schema"
    /\ UNCHANGED <<targets, files, diagnostics>> /\ Unread

\* The second open, in read_parquet_arrow_schema.
ReadSchema ==
    /\ phase = "schema" /\ Readable(Current)
    /\ Add(ParquetFile(Target, footer, Current))

\* scan_ipc, scan_iceberg_metadata, scan_planned_format and the scan of a
\* Vortex file, of local inputs.
ScanOther ==
    /\ Scanning /\ FormatOf(Target) \notin {"Parquet", "LanceDataset", "Unknown"}
    /\ ~IsRemoteUrl(Target) /\ Readable(Current)
    /\ Add(OtherFile(Target, Current))

ScanLance ==
    /\ Scanning /\ FormatOf(Target) = "LanceDataset" /\ ~IsRemoteUrl(Target)
    /\ Add(OtherFile(Target, [size |-> 0]))

\* A local input that is gone or cannot be decoded.
ReadFails ==
    /\ \/ /\ Scanning /\ ~IsRemoteUrl(Target)
          /\ FormatOf(Target) \notin {"LanceDataset", "Unknown"}
          /\ IF FormatOf(Target) = "Parquet" THEN ~HasFooter(Current) ELSE ~Readable(Current)
       \/ phase = "schema" /\ ~Readable(Current)
    /\ Fail

RemoteLance == Scanning /\ FormatOf(Target) = "LanceDataset" /\ IsRemoteUrl(Target) /\ Fail

\* read_remote_bytes: the one request for a remote input.
Request ==
    /\ Scanning /\ FormatOf(Target) \notin {"LanceDataset", "Unknown"} /\ IsRemoteUrl(Target)
    /\ phase' = "fetch"
    /\ UNCHANGED <<targets, footer, files, diagnostics>> /\ Unread

\* Mutant: the schema is read by a second request.
AnswerOnce ==
    /\ phase = "fetch" /\ Readable(Current)
    /\ footer' = Current /\ phase' = "schema"
    /\ UNCHANGED <<targets, files, diagnostics>> /\ Unread

\* The bytes arrive; footer and schema are read from them.
Answer ==
    /\ phase = "fetch" /\ Readable(Current)
    /\ Add(IF FormatOf(Target) = "Parquet" THEN ParquetFile(Target, Current, Current)
           ELSE OtherFile(Target, Current))

\* Mutant: the request has no timeout.
FetchFailsOnAnswer == phase = "fetch" /\ ~Readable(Current) /\ Fail

\* The request fails: no connection, an unsuccessful status, bytes that cannot
\* be decoded, or silence until the timeout.  There is no second attempt; what the
\* client of an object store tries before it gives up is one request here.
FetchFails == phase = "fetch" /\ Fail

Scanned ==
    /\ phase = "scan" /\ targets = <<>>
    /\ files # <<>>
    /\ phase' = "rules" /\ UNCHANGED <<targets, footer, files, diagnostics>> /\ Unread

NothingScanned == phase = "scan" /\ targets = <<>> /\ files = <<>> /\ Fail

CheckRules ==
    /\ phase = "rules"
    /\ diagnostics' = ParquetDiagnostics(files) \cup GeoParquetDiagnostics(files)
    /\ phase' = "done"
    /\ UNCHANGED <<targets, footer, files>> /\ Unread

\* Another program replaces or removes a file or an object still to be read.
Replace ==
    /\ phase \in {"scan", "schema", "fetch"} /\ edits < MaxEdits
    /\ \E t \in Range(targets), c \in Replacements :
          LET p == Place(t) IN
          /\ p \in DOMAIN disk /\ c # disk[p]
          /\ disk' = [disk EXCEPT ![p] = c]
          /\ held' = [held EXCEPT ![p] = @ \cup {c}]
    /\ edits' = edits + 1
    /\ UNCHANGED <<args, tree, phase, targets, footer, files, diagnostics>>

Step ==
    \/ Expand \/ ExpandError \/ SkipUnknown \/ OpenParquet \/ ReadSchema \/ ReadFails
    \/ ScanOther \/ ScanLance \/ RemoteLance \/ Request \/ FetchFails \/ Scanned
    \/ NothingScanned \/ CheckRules

\* A server may never answer; the timeout is a step of the scan.
Next == Step \/ Answer \/ Replace

Spec == Init /\ [][Next]_vars /\ WF_vars(Step)

-----------------------------------------------------------------------------
(* Properties.                                                             *)

\* The variables have their types; a footer is held between two opens, and
\* every report is about a scanned file or about the dataset.
TypeOK ==
    /\ phase \in Phases /\ edits \in 0..MaxEdits
    /\ targets \in Seq(Seq(Names))
    /\ (footer # None) <=> (phase = "schema")
    /\ \A f \in Files(files) : f.format = FormatOf(f.path) /\ f.format # "Unknown"
    /\ \A d \in diagnostics : d.path = None \/ \E f \in Files(files) : f.path = d.path
    /\ \A p \in DOMAIN disk : disk[p] \in held[p]

\* The rules that the file at a path breaks.
RulesBroken(path) == {d.rule : d \in {r \in diagnostics : r.path = path}}

\* The rows of all groups, without a bound.
TotalRows(groups) ==
    LET total[i \in 0..Len(groups)] == IF i = 0 THEN 0 ELSE total[i - 1] + groups[i].rows
    IN total[Len(groups)]

\* No count is negative, the rows of the groups add up to those of the file,
\* and no column chunk has more nulls or distinct values than values.
CountsConsistent(f) ==
    /\ f.rows >= 0
    /\ \A g \in DOMAIN f.groups : f.groups[g].rows >= 0 /\ f.groups[g].bytes >= 0
    /\ f.rows = TotalRows(f.groups)
    /\ \A id \in Chunks(f) :
          LET c == Chunk(f, id)
          IN /\ \A n \in {c.num_values, c.compressed, c.uncompressed} : n >= 0
             /\ c.statistics # None =>
                   \A n \in Counts : c.statistics[n] # None => c.statistics[n] <= c.num_values

\* AL012, AL013 and AL015 together miss no Parquet file whose counts are
\* inconsistent and report no other, although AL012 passes over chunks with a
\* negative count of values, AL013 over files with a group of negative rows,
\* and the sum of AL013 is a bounded word.
CountsVerdict ==
    phase = "done" =>
        \A f \in ParquetFiles(files) :
            RulesBroken(f.path) \cap {"AL012", "AL013", "AL015"} = {} <=> CountsConsistent(f)

\* The paths of a covering are the four members of one column of the schema.
ConformingCovering(content, bbox) ==
    /\ bbox # None
    /\ \E i \in DOMAIN content.fields :
          /\ content.fields[i].name # <<>>
          /\ \A c \in DOMAIN bbox : bbox[c] = <<content.fields[i].name, <<c>>>>

ConformingColumn(content, version, name, column) ==
    LET file == ParquetFile(<<>>, content, content)
    IN /\ name # <<>> /\ \E i \in DOMAIN content.fields : content.fields[i].name = name
       /\ \/ column.encoding = "WKB" /\ WKBColumnIsBinary(file, name)
          \/ column.encoding \in NativeEncodings /\ version[2].n \notin {None, 0}
       /\ column.types # None
       /\ \A t \in Range(column.types) : t # None /\ t.base \in GeometryTypes
       /\ IsInjective(column.types)
       /\ "covering" \in DOMAIN column => ConformingCovering(content, column.covering)
       /\ ~InvalidAttributes(column)

\* What GeoParquet 1 asks of the metadata of a file: one object, of version
\* 1.x.y, with a primary column among its columns, which are in the schema.
Conforms(content) ==
    content.geo # <<>> =>
        /\ Len(content.geo) = 1 /\ content.geo[1].kind = "object"
        /\ LET document == content.geo[1]
           IN /\ document.version # None /\ IsSupportedVersion(document.version)
              /\ document.columns # None /\ document.primary \in DOMAIN document.columns
              /\ \A c \in DOMAIN document.columns :
                    /\ document.columns[c] # None
                    /\ ConformingColumn(content, document.version, c, document.columns[c])

\* AL018, AL019 and AL020, each of which stops where it has nothing to check,
\* are silent together exactly on the conforming ones among the files that
\* nobody replaced.
GeoVerdict ==
    phase = "done" =>
        \A f \in ParquetFiles(files) : \A content \in held[Place(f.path)] :
            held[Place(f.path)] = {content} =>
                (RulesBroken(f.path) \cap {"AL018", "AL019", "AL020"} = {} <=> Conforms(content))

\* The error rules that a content breaks on its own.
Errors(path, content) ==
    LET alone == <<ParquetFile(path, content, content)>>
    IN {r.rule : r \in ParquetDiagnostics(alone) \cup GeoParquetDiagnostics(alone)}

\* An error on a Parquet file is one of a content the file had during the
\* scan; only on a local file, replaced between its two opens, can the rules
\* that compare the geometry columns with the schema report what no content
\* has.
ErrorsAreReal ==
    phase = "done" =>
        \A f \in ParquetFiles(files) :
            \A rule \in RulesBroken(f.path) \cap {"AL012", "AL013", "AL015", "AL018", "AL019", "AL020"} :
                \/ \E content \in held[Place(f.path)] \ {None} : rule \in Errors(f.path, content)
                \/ /\ rule \in {"AL019", "AL020"} /\ ~IsRemoteUrl(f.path)
                   /\ Cardinality(held[Place(f.path)]) > 1

\* The files that the inputs ask for: a file named itself, the entries of a
\* directory or, recursively, all below it; links count where they are followed.
Requested(input) ==
    {p \in {input} \cup Below(input) :
        /\ IsFile(tree, p)
        /\ p # input => /\ args.recursive \/ Len(p) = Len(input) + 1
                        /\ \A q \in Prefixes(p) : IsStrictPrefix(input, q) =>
                              Entry(tree, q).type # "link" \/ (args.follow /\ args.recursive)}

\* What was scanned and what is still to be scanned.
Taken == [i \in DOMAIN files |-> files[i].path] \o targets

\* Below a Lance dataset that is within another one.
Nested(path) == \E p, q \in LanceAncestors(path) : p # q

\* Every file that an input asks for, if its format is known, is taken once: by
\* itself or by the Lance dataset it is in, however the inputs overlap.  For a
\* part of two datasets it depends on the input (see PartsBelongToDataset).
ExactCover ==
    phase \notin {"expand", "failed"} =>
        /\ IsInjective(Taken)
        /\ \A i \in DOMAIN args.inputs : \A p \in Requested(args.inputs[i]) :
              FormatOf(p) # "Unknown" /\ ~Nested(p) =>
                  Cardinality({t \in Range(Taken) : t = p \/ (IsLanceDatasetRoot(t) /\ IsPrefix(t, p))}) = 1

\* The schemas of the scanned files, and whether AL003 reports none of them.
Schemas     == {f.schema.fields : f \in {h \in Files(files) : h.schema # None}}
DriftSilent == \A d \in diagnostics : d.rule # "AL003"

\* No name has the character that separates the name of a field from its type.
Separable(fields) == \A i \in DOMAIN fields : ":" \notin Range(fields[i].name)

\* AL003, which compares texts with those of the first file, reports a dataset
\* only if the names, types, nullability or order of fields differ somewhere, and
\* misses no difference between files whose fields can be told from their text.
SchemaDrift ==
    phase = "done" =>
        /\ ~DriftSilent => \E s, t \in Schemas : s # t
        /\ DriftSilent => \A s, t \in {u \in Schemas : Separable(u)} : s = t

\* A scan ends, with a report or an error, even when a server never answers.
ScanEnds == <>(phase \in {"done", "failed"})

\* rules.md: a directory *.lance is one lint target, so that nothing inside it
\* is a target of its own.
PartsBelongToDataset ==
    \A t \in Range(targets) : \A p \in Prefixes(t) \ {t} : ~IsLanceDatasetRoot(p)

=============================================================================
