------------------------- MODULE DatasetScanProofs -------------------------
(***************************************************************************)
(* Proofs about a scan of any number of files, local and remote, whatever  *)
(* they contain and however they are replaced meanwhile.                   *)
(*                                                                         *)
(* In this order: each rule against the declarative meaning of its counts  *)
(* or its geo document; ScanInv, that a footer kept between two opens is   *)
(* one the file held; TargetInv, that the list of targets is strictly      *)
(* sorted by a total order of paths, so that none is taken twice; and      *)
(* CoverInv, that what the inputs ask for is in that list or scanned,      *)
(* with the walk of a directory reaching all that is below it; last, what  *)
(* the text of a schema tells of its fields.                               *)
(***************************************************************************)
EXTENDS DatasetScan, FiniteSetTheorems, SequenceTheorems, WellFoundedInduction, TLAPS

-----------------------------------------------------------------------------
(* Which rule a report is of.                                              *)

CountRules == {"AL012", "AL013", "AL015"}
GeoRules   == {"AL018", "AL019", "AL020"}

CountReports(D) ==
    UNION {InvalidParquetStatistics(D), InconsistentParquetRowCounts(D), NegativeFileRows(D),
           NegativeGroups(D), NegativeChunks(D)}

GeoReports(D) ==
    UNION {InvalidGeoParquetMetadata(D), InvalidGeoParquetColumns(D),
           InvalidGeoParquetSpatialMetadata(D)}

All(D) == ParquetDiagnostics(D) \cup GeoParquetDiagnostics(D)

LEMMA LayoutRules ==
    ASSUME NEW D
    PROVE  /\ \A r \in TinyRowGroups(D) : r.rule = "AL001"
           /\ \A r \in MissingParquetStatistics(D) : r.rule = "AL002"
           /\ \A r \in MixedDictionaryEncodings(D) : r.rule = "AL006"
           /\ \A r \in SmallFiles(D) : r.rule = "AL007"
           /\ \A r \in UncompressedParquetColumns(D) : r.rule = "AL008"
           /\ \A r \in DeprecatedParquetPhysicalTypes(D) : r.rule = "AL009"
           /\ \A r \in DeprecatedParquetEncodings(D) : r.rule = "AL010"
           /\ \A r \in DeprecatedParquetCompression(D) : r.rule = "AL011"
           /\ \A r \in MissingParquetNullCounts(D) : r.rule = "AL014"
<1>1. \A r \in TinyRowGroups(D) : r.rule = "AL001"
  BY DEF TinyRowGroups, Report
<1>2. \A r \in MissingParquetStatistics(D) : r.rule = "AL002"
  BY DEF MissingParquetStatistics, ChunkReports, Report
<1>3. \A r \in MixedDictionaryEncodings(D) : r.rule = "AL006"
  BY DEF MixedDictionaryEncodings, Report
<1>4. \A r \in SmallFiles(D) : r.rule = "AL007"
  BY DEF SmallFiles, Report
<1>5. \A r \in UncompressedParquetColumns(D) : r.rule = "AL008"
  BY DEF UncompressedParquetColumns, ChunkReports, Report
<1>6. \A r \in DeprecatedParquetPhysicalTypes(D) : r.rule = "AL009"
  BY DEF DeprecatedParquetPhysicalTypes, ChunkReports, Report
<1>7. \A r \in DeprecatedParquetEncodings(D) : r.rule = "AL010"
  BY DEF DeprecatedParquetEncodings, ChunkReports, Report
<1>8. \A r \in DeprecatedParquetCompression(D) : r.rule = "AL011"
  BY DEF DeprecatedParquetCompression, ChunkReports, Report
<1>9. \A r \in MissingParquetNullCounts(D) : r.rule = "AL014"
  BY DEF MissingParquetNullCounts, ChunkReports, Report
<1> QED
  BY <1>1, <1>2, <1>3, <1>4, <1>5, <1>6, <1>7, <1>8, <1>9

LEMMA SchemaRules ==
    ASSUME NEW D
    PROVE  /\ \A r \in InconsistentSchemas(D) : r.rule = "AL003"
           /\ \A r \in MissingSchemaMetadata(D) : r.rule = "AL004"
           /\ \A r \in NonPortableTimestamps(D) : r.rule = "AL005"
           /\ \A r \in RecognizedExtensionFormat(D) : r.rule = "AL100"
           /\ \A r \in MissingGeoParquetPruningMetadata(D) : r.rule = "AL021"
<1>1. \A r \in InconsistentSchemas(D) : r.rule = "AL003"
  <2> SUFFICES ASSUME NEW r \in InconsistentSchemas(D) PROVE r.rule = "AL003"
    OBVIOUS
  <2>1. PICK i : r = Report("AL003", D[i], WholeFile)
    BY Zenon DEF InconsistentSchemas
  <2> QED
    BY <2>1 DEF Report
<1>2. \A r \in MissingSchemaMetadata(D) : r.rule = "AL004"
  BY DEF MissingSchemaMetadata, Report
<1>3. \A r \in NonPortableTimestamps(D) : r.rule = "AL005"
  BY DEF NonPortableTimestamps, Report
<1>4. \A r \in RecognizedExtensionFormat(D) : r.rule = "AL100"
  BY DEF RecognizedExtensionFormat, Report
<1>5. \A r \in MissingGeoParquetPruningMetadata(D) : r.rule = "AL021"
  BY DEF MissingGeoParquetPruningMetadata, GeoColumnReports, Report
<1> QED
  BY <1>1, <1>2, <1>3, <1>4, <1>5

LEMMA CountRule ==
    ASSUME NEW D
    PROVE  /\ \A r \in InvalidParquetStatistics(D) : r.rule = "AL012"
           /\ \A r \in InconsistentParquetRowCounts(D) : r.rule = "AL013"
           /\ \A r \in NegativeFileRows(D) : r.rule = "AL015"
           /\ \A r \in NegativeGroups(D) : r.rule = "AL015"
           /\ \A r \in NegativeChunks(D) : r.rule = "AL015"
<1>1. \A r \in InvalidParquetStatistics(D) : r.rule = "AL012"
  BY DEF InvalidParquetStatistics, ChunkReports, Report
<1>2. \A r \in InconsistentParquetRowCounts(D) : r.rule = "AL013"
  BY DEF InconsistentParquetRowCounts, Report
<1>3. \A r \in NegativeFileRows(D) : r.rule = "AL015"
  BY DEF NegativeFileRows, Report
<1>4. \A r \in NegativeGroups(D) : r.rule = "AL015"
  BY DEF NegativeGroups, Report
<1>5. \A r \in NegativeChunks(D) : r.rule = "AL015"
  BY DEF NegativeChunks, ChunkReports, Report
<1> QED
  BY <1>1, <1>2, <1>3, <1>4, <1>5

LEMMA GeoRule ==
    ASSUME NEW D
    PROVE  /\ \A r \in InvalidGeoParquetMetadata(D) : r.rule = "AL018"
           /\ \A r \in InvalidGeoParquetColumns(D) : r.rule = "AL019"
           /\ \A r \in InvalidGeoParquetSpatialMetadata(D) : r.rule = "AL020"
<1>1. \A r \in InvalidGeoParquetMetadata(D) : r.rule = "AL018"
  BY DEF InvalidGeoParquetMetadata, Report
<1>2. \A r \in InvalidGeoParquetColumns(D) : r.rule = "AL019"
  BY DEF InvalidGeoParquetColumns, GeoColumnReports, Report
<1>3. \A r \in InvalidGeoParquetSpatialMetadata(D) : r.rule = "AL020"
  BY DEF InvalidGeoParquetSpatialMetadata, GeoColumnReports, Report
<1> QED
  BY <1>1, <1>2, <1>3

\* The reports of these rules come from the operators that bear their names.
LEMMA ByRule ==
    ASSUME NEW D
    PROVE  /\ {r \in All(D) : r.rule \in CountRules} = CountReports(D)
           /\ {r \in All(D) : r.rule \in GeoRules} = GeoReports(D)
<1>1. \A r \in CountReports(D) : r.rule \in CountRules /\ r \in All(D)
  BY CountRule DEF CountReports, CountRules, All, ParquetDiagnostics, InvalidParquetSizeMetadata
<1>2. \A r \in GeoReports(D) : r.rule \in GeoRules /\ r \in All(D)
  BY GeoRule DEF GeoReports, GeoRules, All, GeoParquetDiagnostics
<1>3. \A r \in ParquetDiagnostics(D) :
        r \in CountReports(D) \/ r.rule \notin CountRules \cup GeoRules
  BY LayoutRules, SchemaRules
     DEF CountReports, CountRules, GeoRules, ParquetDiagnostics, InvalidParquetSizeMetadata
<1>4. \A r \in GeoParquetDiagnostics(D) :
        r \in GeoReports(D) \/ r.rule \notin CountRules \cup GeoRules
  BY SchemaRules DEF GeoReports, CountRules, GeoRules, GeoParquetDiagnostics
<1>5. \A r \in CountReports(D) : r.rule \notin GeoRules
  BY <1>1 DEF CountRules, GeoRules
<1>6. \A r \in GeoReports(D) : r.rule \notin CountRules
  BY <1>2 DEF CountRules, GeoRules
<1> QED
  BY <1>1, <1>2, <1>3, <1>4, <1>5, <1>6 DEF All

-----------------------------------------------------------------------------
(* Reports are about one file: they are those of the file on its own, and  *)
(* those on counts follow from its path, rows and groups.                  *)

LEMMA Alone ==
    ASSUME NEW f
    PROVE  /\ Files(<<f>>) = {f}
           /\ ParquetFiles(<<f>>) = {g \in {f} : g.format = "Parquet"}
<1>1. Files(<<f>>) = {f}
  BY DEF Files
<1> QED
  BY <1>1 DEF ParquetFiles

LEMMA CountsOfFile ==
    ASSUME NEW D, NEW r \in CountReports(D)
    PROVE  \E f \in ParquetFiles(D) : r.path = f.path /\ r \in CountReports(<<f>>)
<1>1. CASE r \in InvalidParquetStatistics(D)
  <2>1. PICK f \in ParquetFiles(D) :
               r.path = f.path /\ r \in InvalidParquetStatistics(<<f>>)
    BY <1>1, Alone DEF InvalidParquetStatistics, ChunkReports, Report, ParquetFiles
  <2> QED
    BY <2>1 DEF CountReports
<1>2. CASE r \in InconsistentParquetRowCounts(D)
  <2>1. PICK f \in ParquetFiles(D) :
               r.path = f.path /\ r \in InconsistentParquetRowCounts(<<f>>)
    BY <1>2, Alone DEF InconsistentParquetRowCounts, Report, ParquetFiles
  <2> QED
    BY <2>1 DEF CountReports
<1>3. CASE r \in NegativeFileRows(D)
  <2>1. PICK f \in ParquetFiles(D) : r.path = f.path /\ r \in NegativeFileRows(<<f>>)
    BY <1>3, Alone DEF NegativeFileRows, Report, ParquetFiles
  <2> QED
    BY <2>1 DEF CountReports
<1>4. CASE r \in NegativeGroups(D)
  <2>1. PICK f \in ParquetFiles(D) : r.path = f.path /\ r \in NegativeGroups(<<f>>)
    BY <1>4, Alone DEF NegativeGroups, Report, ParquetFiles
  <2> QED
    BY <2>1 DEF CountReports
<1>5. CASE r \in NegativeChunks(D)
  <2>1. PICK f \in ParquetFiles(D) : r.path = f.path /\ r \in NegativeChunks(<<f>>)
    BY <1>5, Alone DEF NegativeChunks, ChunkReports, Report, ParquetFiles
  <2> QED
    BY <2>1 DEF CountReports
<1> QED
  BY <1>1, <1>2, <1>3, <1>4, <1>5 DEF CountReports

LEMMA GeoOfFile ==
    ASSUME NEW D, NEW r \in GeoReports(D)
    PROVE  \E f \in ParquetFiles(D) : r.path = f.path /\ r \in GeoReports(<<f>>)
<1>1. CASE r \in InvalidGeoParquetMetadata(D)
  <2>1. PICK f \in ParquetFiles(D) :
               r.path = f.path /\ r \in InvalidGeoParquetMetadata(<<f>>)
    BY <1>1, Alone DEF InvalidGeoParquetMetadata, GeoFiles, Report, ParquetFiles
  <2> QED
    BY <2>1 DEF GeoReports
<1>2. CASE r \in InvalidGeoParquetColumns(D)
  <2>1. PICK f \in ParquetFiles(D) :
               r.path = f.path /\ r \in InvalidGeoParquetColumns(<<f>>)
    BY <1>2, Alone DEF InvalidGeoParquetColumns, GeoFiles, GeoDocuments, GeoColumnReports, Report,
                       ParquetFiles
  <2> QED
    BY <2>1 DEF GeoReports
<1>3. CASE r \in InvalidGeoParquetSpatialMetadata(D)
  <2>1. PICK f \in ParquetFiles(D) :
               r.path = f.path /\ r \in InvalidGeoParquetSpatialMetadata(<<f>>)
    BY <1>3, Alone DEF InvalidGeoParquetSpatialMetadata, GeoFiles, GeoDocuments, GeoColumnReports,
                       Report, ParquetFiles
  <2> QED
    BY <2>1 DEF GeoReports
<1> QED
  BY <1>1, <1>2, <1>3 DEF GeoReports

\* Two files that agree in what the rules on counts read.
SameCounts(f, g) ==
    /\ f.format = "Parquet" /\ g.format = "Parquet"
    /\ f.path = g.path /\ f.rows = g.rows /\ f.groups = g.groups

LEMMA CountsOfCopy ==
    ASSUME NEW f, NEW g, SameCounts(f, g)
    PROVE  CountReports(<<f>>) \subseteq CountReports(<<g>>)
<1>1. ParquetFiles(<<f>>) = {f} /\ ParquetFiles(<<g>>) = {g}
  BY Alone DEF SameCounts
<1>2. \A id : Chunk(f, id) = Chunk(g, id)
  BY DEF Chunk, SameCounts
<1>3. Chunks(f) = Chunks(g)
  BY DEF Chunks, SameCounts
<1>4. \A rule, place : Report(rule, f, place) = Report(rule, g, place)
  BY DEF Report, SameCounts
<1>5. InvalidParquetStatistics(<<f>>) \subseteq InvalidParquetStatistics(<<g>>)
  BY <1>1, <1>2, <1>3, <1>4 DEF InvalidParquetStatistics, ChunkReports
<1>6. InconsistentParquetRowCounts(<<f>>) \subseteq InconsistentParquetRowCounts(<<g>>)
  BY <1>1, <1>4 DEF InconsistentParquetRowCounts, SameCounts
<1>7. NegativeFileRows(<<f>>) \subseteq NegativeFileRows(<<g>>)
  BY <1>1, <1>4 DEF NegativeFileRows, SameCounts
<1>8. NegativeGroups(<<f>>) \subseteq NegativeGroups(<<g>>)
  BY <1>1, <1>4 DEF NegativeGroups, SameCounts
<1>9. NegativeChunks(<<f>>) \subseteq NegativeChunks(<<g>>)
  BY <1>1, <1>2, <1>3, <1>4 DEF NegativeChunks, ChunkReports
<1> QED
  BY <1>5, <1>6, <1>7, <1>8, <1>9 DEF CountReports

LEMMA DocumentOfCopy ==
    ASSUME NEW f, NEW g, SameCounts(f, g), f.geo = g.geo
    PROVE  InvalidGeoParquetMetadata(<<f>>) \subseteq InvalidGeoParquetMetadata(<<g>>)
<1>1. ParquetFiles(<<f>>) = {f} /\ ParquetFiles(<<g>>) = {g}
  BY Alone DEF SameCounts
<1>2. \A rule, place : Report(rule, f, place) = Report(rule, g, place)
  BY DEF Report, SameCounts
<1> QED
  BY <1>1, <1>2 DEF InvalidGeoParquetMetadata, GeoFiles

-----------------------------------------------------------------------------
(* What is scanned was there.                                              *)

\* A Parquet file of the dataset: the footer and the schema of two contents that its place
\* has had, of the same one if it was fetched.
FromHeld(f) ==
    /\ Place(f.path) \in DOMAIN disk
    /\ \E first, second \in held[Place(f.path)] \ {None} :
          /\ f = ParquetFile(f.path, first, second)
          /\ IsRemoteUrl(f.path) => first = second

HeldInv ==
    /\ disk = [p \in DOMAIN disk |-> disk[p]]
    /\ held = [p \in DOMAIN disk |-> held[p]]
    /\ \A p \in DOMAIN disk :
          disk[p] \in held[p] /\ IsFiniteSet(held[p]) /\ held[p] \subseteq Contents

\* The open file is the current target, and was there when it was opened.
OpenInv ==
    /\ phase = "schema" =>
          /\ FormatOf(Target) = "Parquet" /\ ~IsRemoteUrl(Target)
          /\ Place(Target) \in DOMAIN disk
          /\ footer \in held[Place(Target)] \ {None}
    /\ phase = "fetch" => IsRemoteUrl(Target)

FilesInv ==
    /\ files \in Seq(Range(files))
    /\ \A f \in ParquetFiles(files) : FromHeld(f)

ReportInv == phase = "done" => diagnostics = All(files)

ScanInv == HeldInv /\ OpenInv /\ FilesInv /\ ReportInv

LEMMA InitScan == Init => ScanInv
<1> SUFFICES ASSUME Init PROVE ScanInv
  OBVIOUS
<1>1. PICK s \in Scenarios : args = s.args /\ tree = s.tree /\ disk = s.disk
  BY DEF Init
<1>2. disk = [p \in DOMAIN disk |-> disk[p]]
  BY <1>1, ContentsAssumption
<1>3. \A p \in DOMAIN disk : disk[p] \in Contents
  BY <1>1 DEF Contents
<1>4. \A p \in DOMAIN disk : held[p] = {disk[p]}
  BY DEF Init
<1>5. held = [p \in DOMAIN disk |-> held[p]]
  BY DEF Init
<1>6. HeldInv
  <2>1. \A p \in DOMAIN disk : IsFiniteSet({disk[p]})
    BY FS_Singleton
  <2>2. \A p \in DOMAIN disk : disk[p] \in held[p] /\ IsFiniteSet(held[p]) /\ held[p] \subseteq Contents
    BY <1>3, <1>4, <2>1
  <2> QED
    BY <1>2, <1>5, <2>2 DEF HeldInv
<1>7. Files(files) = {} /\ files \in Seq(Range(files))
  BY DEF Init, Files
<1> QED
  BY <1>6, <1>7 DEF Init, ScanInv, OpenInv, FilesInv, ReportInv, ParquetFiles

\* Nothing but a replacement changes what is on disk.
LEMMA Kept ==
    ASSUME Unread
    PROVE  /\ HeldInv => HeldInv'
           /\ \A path : Place(path)' = Place(path)
           /\ \A f : FromHeld(f) => FromHeld(f)'
<1>1. \A path : Place(path)' = Place(path)
  BY DEF Unread, Place
<1>2. \A f : FromHeld(f) => FromHeld(f)'
  BY <1>1 DEF Unread, FromHeld
<1>3. HeldInv => HeldInv'
  BY DEF Unread, HeldInv
<1> QED
  BY <1>1, <1>2, <1>3

\* What is read from the current target is something its place has had.
LEMMA CurrentHeld ==
    ASSUME HeldInv, Current # None
    PROVE  Place(Target) \in DOMAIN disk /\ Current \in held[Place(Target)] \ {None}
BY DEF HeldInv, Current

LEMMA FilesGrow ==
    ASSUME NEW s, s \in Seq(Range(s)), NEW x
    PROVE  /\ Append(s, x) \in Seq(Range(Append(s, x)))
           /\ Files(Append(s, x)) = Files(s) \cup {x}
<1> DEFINE t == Append(s, x)
<1> DEFINE S == Range(s) \cup {x}
<1>1. s \in Seq(S)
  BY DEF Range
<1>2. /\ t \in Seq(S) /\ Len(t) = Len(s) + 1 /\ DOMAIN t = 1..Len(t)
      /\ \A i \in 1..Len(s) : t[i] = s[i]
      /\ t[Len(s) + 1] = x
  BY <1>1
<1>3. DOMAIN s = 1..Len(s) /\ Len(s) \in Nat
  BY <1>1
<1>4. Files(t) = Files(s) \cup {x}
  BY <1>2, <1>3 DEF Files
<1>5. \A i \in DOMAIN t : t[i] \in Range(t)
  BY DEF Range
<1>6. t \in Seq(Range(t))
  BY <1>2, <1>3, <1>5
<1> QED
  BY <1>4, <1>6

\* A scanned file that is no Parquet file, or that is one from what its place has had.
LEMMA AddFile ==
    ASSUME ScanInv, NEW f, Add(f), f.format # "Parquet" \/ FromHeld(f)
    PROVE  ScanInv'
<1>1. Unread
  BY DEF Add
<1>2. HeldInv'
  BY <1>1, Kept DEF ScanInv
<1>3. phase' = "scan" /\ files' = Append(files, f)
  BY DEF Add
<1>4. files' \in Seq(Range(files')) /\ Files(files') = Files(files) \cup {f}
  BY <1>3, FilesGrow DEF ScanInv, FilesInv
<1>5. FilesInv'
  BY <1>1, <1>4, Kept DEF ScanInv, FilesInv, ParquetFiles
<1> QED
  BY <1>2, <1>3, <1>5 DEF ScanInv, OpenInv, ReportInv

LEMMA FailScan == ASSUME ScanInv, Fail PROVE ScanInv'
<1>1. Unread /\ files' = files /\ phase' = "failed"
  BY DEF Fail
<1> QED
  BY <1>1, Kept DEF ScanInv, OpenInv, ReportInv, FilesInv

LEMMA ReplaceScan == ASSUME ScanInv, Replace PROVE ScanInv'
<1>1. PICK p \in DOMAIN disk, c \in Replacements :
        /\ disk' = [disk EXCEPT ![p] = c]
        /\ held' = [held EXCEPT ![p] = @ \cup {c}]
  BY DEF Replace
<1>2. DOMAIN held = DOMAIN disk /\ HeldInv
  BY DEF ScanInv, HeldInv
<1>3. /\ held'[p] = held[p] \cup {c} /\ disk'[p] = c
      /\ \A q \in DOMAIN disk \ {p} : held'[q] = held[q] /\ disk'[q] = disk[q]
      /\ DOMAIN disk' = DOMAIN disk /\ DOMAIN held' = DOMAIN disk
  BY <1>1, <1>2
<1>4. IsFiniteSet(held[p] \cup {c})
  BY <1>2, FS_AddElement DEF HeldInv
<1>5. c \in Contents
  BY DEF Contents
<1>6. HeldInv'
  BY <1>1, <1>2, <1>3, <1>4, <1>5 DEF HeldInv
<1>7. \A path : Place(path)' = Place(path)
  BY DEF Replace, Place
<1>8. \A q \in DOMAIN disk : held[q] \subseteq held'[q]
  BY <1>3
<1>9. \A f : FromHeld(f) => FromHeld(f)'
  BY <1>3, <1>7, <1>8 DEF FromHeld
<1>10. FilesInv'
  BY <1>9 DEF ScanInv, FilesInv, Replace
<1>11. Target' = Target /\ footer' = footer /\ phase' = phase
  BY DEF Replace, Target
<1>12. OpenInv'
  BY <1>3, <1>7, <1>8, <1>11 DEF ScanInv, OpenInv
<1>13. ReportInv'
  BY DEF ReportInv, Replace
<1> QED
  BY <1>6, <1>10, <1>12, <1>13 DEF ScanInv

LEMMA NextScan == ScanInv /\ [Next]_vars => ScanInv'
<1> SUFFICES ASSUME ScanInv, [Next]_vars PROVE ScanInv'
  OBVIOUS
<1>1. CASE Fail
  BY <1>1, FailScan
<1>2. CASE ReadSchema
  <2>1. FromHeld(ParquetFile(Target, footer, Current))
    BY <1>2, CurrentHeld
       DEF ReadSchema, Readable, HasFooter, ScanInv, OpenInv, FromHeld, ParquetFile
  <2> QED
    BY <1>2, <2>1, AddFile DEF ReadSchema
<1>3. CASE ScanOther \/ ScanLance
  <2>1. \A c : OtherFile(Target, c).format = FormatOf(Target)
    BY DEF OtherFile
  <2>2. PICK c : Add(OtherFile(Target, c)) /\ FormatOf(Target) # "Parquet"
    BY <1>3 DEF ScanOther, ScanLance
  <2> QED
    BY <2>1, <2>2, AddFile
<1>4. CASE Answer
  <2>1. Current # None /\ IsRemoteUrl(Target)
    BY <1>4 DEF Answer, Readable, HasFooter, ScanInv, OpenInv
  <2>2. CASE FormatOf(Target) = "Parquet"
    <3>1. FromHeld(ParquetFile(Target, Current, Current))
      BY <2>1, CurrentHeld DEF ScanInv, FromHeld, ParquetFile
    <3> QED
      BY <1>4, <2>2, <3>1, AddFile DEF Answer
  <2>3. CASE FormatOf(Target) # "Parquet"
    <3>1. OtherFile(Target, Current).format # "Parquet"
      BY <2>3 DEF OtherFile
    <3> QED
      BY <1>4, <2>3, <3>1, AddFile DEF Answer
  <2> QED
    BY <2>2, <2>3
<1>5. CASE OpenParquet
  <2>1. Unread /\ files' = files /\ Target' = Target /\ phase' = "schema" /\ footer' = Current
    BY <1>5 DEF OpenParquet, Target
  <2>2. Current # None /\ FormatOf(Target) = "Parquet" /\ ~IsRemoteUrl(Target)
    BY <1>5 DEF OpenParquet, HasFooter
  <2>3. /\ Place(Target) \in DOMAIN disk /\ Current \in held[Place(Target)] \ {None}
    BY <2>2, CurrentHeld DEF ScanInv
  <2>4. Place(Target)' = Place(Target) /\ disk' = disk /\ held' = held
    BY <2>1, Kept DEF Unread
  <2>5. OpenInv'
    BY <2>1, <2>2, <2>3, <2>4 DEF OpenInv
  <2> QED
    BY <2>1, <2>5, Kept DEF ScanInv, FilesInv, ReportInv
<1>6. CASE Request
  <2>1. Unread /\ files' = files /\ Target' = Target /\ phase' = "fetch" /\ IsRemoteUrl(Target)
    BY <1>6 DEF Request, Target
  <2> QED
    BY <2>1, Kept DEF ScanInv, FilesInv, ReportInv, OpenInv
<1>7. CASE Expand \/ SkipUnknown \/ Scanned
  <2>1. Unread /\ files' = files /\ phase' \in {"scan", "rules"}
    BY <1>7 DEF Expand, SkipUnknown, Scanned, Scanning
  <2> QED
    BY <2>1, Kept DEF ScanInv, FilesInv, ReportInv, OpenInv
<1>8. CASE CheckRules
  <2>1. Unread /\ files' = files /\ phase' = "done" /\ diagnostics' = All(files)
    BY <1>8 DEF CheckRules, All
  <2> QED
    BY <2>1, Kept DEF ScanInv, FilesInv, ReportInv, OpenInv
<1>9. CASE Replace
  BY <1>9, ReplaceScan
<1>10. CASE UNCHANGED vars
  BY <1>10 DEF vars, ScanInv, HeldInv, OpenInv, FilesInv, ReportInv, FromHeld, Place, Target
<1>11. ExpandError \/ ReadFails \/ RemoteLance \/ FetchFails \/ NothingScanned => Fail
  BY DEF ExpandError, ReadFails, RemoteLance, FetchFails, NothingScanned
<1> QED
  BY <1>1, <1>2, <1>3, <1>4, <1>5, <1>6, <1>7, <1>8, <1>9, <1>10, <1>11 DEF Next, Step

LEMMA ScanCorrect == Spec => []ScanInv
BY InitScan, NextScan, PTL DEF Spec

-----------------------------------------------------------------------------
(* Errors.                                                                 *)

LEMMA ErrorsOfContent ==
    ASSUME NEW f, NEW r \in CountReports(<<f>>) \cup GeoReports(<<f>>),
           NEW path, NEW c, f = ParquetFile(path, c, c)
    PROVE  r.rule \in Errors(path, c)
<1>1. r \in All(<<f>>)
  BY ByRule
<1> QED
  BY <1>1 DEF Errors, All

\* A report of AL012, AL013, AL015 or AL018 follows from the footer alone.
LEMMA FooterErrors ==
    ASSUME NEW path, NEW first, NEW second,
           NEW r \in CountReports(<<ParquetFile(path, first, second)>>)
                     \cup InvalidGeoParquetMetadata(<<ParquetFile(path, first, second)>>)
    PROVE  r.rule \in Errors(path, first)
<1> DEFINE f == ParquetFile(path, first, second)
<1> DEFINE g == ParquetFile(path, first, first)
<1>1. SameCounts(f, g) /\ f.geo = g.geo
  BY DEF ParquetFile, SameCounts
<1> HIDE DEF f, g
<1>2. r \in CountReports(<<g>>) \cup InvalidGeoParquetMetadata(<<g>>)
  BY <1>1, CountsOfCopy, DocumentOfCopy DEF f
<1> QED
  BY <1>2, ErrorsOfContent DEF GeoReports, g

LEMMA TwoContents ==
    ASSUME NEW S, IsFiniteSet(S), NEW a \in S, NEW b \in S, a # b
    PROVE  Cardinality(S) > 1
<1>1. IsFiniteSet({a}) /\ Cardinality({a}) = 1
  BY FS_Singleton
<1>2. Cardinality({a} \cup {b}) = 2
  BY <1>1, FS_AddElement
<1>3. Cardinality({a} \cup {b}) <= Cardinality(S) /\ Cardinality(S) \in Nat
  BY FS_Subset, FS_CardinalityType
<1> QED
  BY <1>2, <1>3

\* An error on a Parquet file is one of a content that the file had during the scan; only
\* the rules that compare the geometry columns with the schema may report, on a local file
\* replaced between its two opens, what no content has: for any files and replacements.
THEOREM ErrorsAreRealCorrect == Spec => []ErrorsAreReal
<1>1. ScanInv => ErrorsAreReal
  <2> SUFFICES ASSUME ScanInv, phase = "done", NEW f \in ParquetFiles(files),
                      NEW rule \in RulesBroken(f.path) \cap
                            {"AL012", "AL013", "AL015", "AL018", "AL019", "AL020"}
               PROVE  \/ \E content \in held[Place(f.path)] \ {None} : rule \in Errors(f.path, content)
                      \/ /\ rule \in {"AL019", "AL020"} /\ ~IsRemoteUrl(f.path)
                         /\ Cardinality(held[Place(f.path)]) > 1
    BY DEF ErrorsAreReal
  <2>1. PICK r \in diagnostics : r.path = f.path /\ r.rule = rule
    BY DEF RulesBroken
  <2>2. r \in CountReports(files) \cup GeoReports(files)
    <3>1. r \in All(files)
      BY <2>1 DEF ScanInv, ReportInv
    <3>2. r.rule \in CountRules \cup GeoRules
      BY <2>1 DEF CountRules, GeoRules
    <3> QED
      BY <3>1, <3>2, ByRule
  <2>3. PICK g \in ParquetFiles(files) :
               r.path = g.path /\ r \in CountReports(<<g>>) \cup GeoReports(<<g>>)
    BY <2>2, CountsOfFile, GeoOfFile
  <2>4. g.path = f.path
    BY <2>1, <2>3
  <2>5. FromHeld(g)
    BY DEF ScanInv, FilesInv
  <2>6. PICK first, second \in held[Place(f.path)] \ {None} :
          g = ParquetFile(f.path, first, second) /\ (IsRemoteUrl(f.path) => first = second)
    BY <2>4, <2>5 DEF FromHeld
  <2>7. CASE first = second
    BY <2>1, <2>3, <2>6, <2>7, ErrorsOfContent
  <2>8. CASE r \in CountReports(<<g>>) \cup InvalidGeoParquetMetadata(<<g>>)
    BY <2>1, <2>6, <2>8, FooterErrors
  <2>9. CASE first # second /\ r \notin CountReports(<<g>>) \cup InvalidGeoParquetMetadata(<<g>>)
    <3>1. rule \in {"AL019", "AL020"}
      BY <2>1, <2>3, <2>9, GeoRule DEF GeoReports
    <3>2. IsFiniteSet(held[Place(f.path)])
      BY <2>4, <2>5 DEF FromHeld, ScanInv, HeldInv
    <3> QED
      BY <2>6, <2>9, <3>1, <3>2, TwoContents
  <2> QED
    BY <2>7, <2>8, <2>9
<1> QED
  BY <1>1, ScanCorrect, PTL

-----------------------------------------------------------------------------
(* The loop over the paths of a covering.                                  *)

\* A path that the loop accepts, whatever came before.
GoodPath(coordinate, path) ==
    /\ path # None /\ Len(path) = 2
    /\ path[1] \notin {None, <<>>} /\ path[2] = <<coordinate>>

LEMMA StepOfLoop ==
    ASSUME NEW seen \in [error: BOOLEAN, root: Name \cup {None}], NEW coordinate,
           NEW path \in Seq(Name \cup {None}) \cup {None}
    PROVE  /\ CoveringStep(seen, coordinate, path) \in [error: BOOLEAN, root: Name \cup {None}]
           /\ CoveringStep(seen, coordinate, path).error <=>
                 \/ seen.error \/ ~GoodPath(coordinate, path)
                 \/ seen.root \notin {None, path[1]}
           /\ ~CoveringStep(seen, coordinate, path).error
                => CoveringStep(seen, coordinate, path).root = path[1]
<1> DEFINE bad == \/ seen.error \/ ~GoodPath(coordinate, path)
                  \/ seen.root \notin {None, path[1]}
<1>1. CASE bad
  <2>1. CoveringStep(seen, coordinate, path) = [seen EXCEPT !.error = TRUE]
    BY <1>1 DEF CoveringStep, GoodPath
  <2> QED
    BY <1>1, <2>1
<1>2. CASE ~bad
  <2>1. CoveringStep(seen, coordinate, path) = [seen EXCEPT !.root = path[1]]
    BY <1>2 DEF CoveringStep, GoodPath
  <2>2. ~seen.error /\ path \in Seq(Name \cup {None}) /\ Len(path) = 2
    BY <1>2 DEF GoodPath
  <2>3. path[1] \in Name \cup {None}
    BY <2>2
  <2> QED
    BY <1>2, <2>1, <2>2, <2>3
<1> QED
  BY <1>1, <1>2

FirstSeen == [error |-> FALSE, root |-> None]

LEMMA LoopEnds ==
    ASSUME NEW f, NEW bbox, bbox # None
    PROVE  \E s1, s2, s3, s4 :
              /\ s1 = CoveringStep(FirstSeen, "xmin", bbox["xmin"])
              /\ s2 = CoveringStep(s1, "ymin", bbox["ymin"])
              /\ s3 = CoveringStep(s2, "xmax", bbox["xmax"])
              /\ s4 = CoveringStep(s3, "ymax", bbox["ymax"])
              /\ CoveringError(f, bbox) <=> s4.error \/ FieldsNamed(f, s4.root) = {}
<1> DEFINE Loop(g) ==
      g = [i \in 0..4 |-> IF i = 0 THEN FirstSeen
                          ELSE CoveringStep(g[i - 1], Coordinates[i], bbox[Coordinates[i]])]
<1> DEFINE seen == CHOOSE g : Loop(g)
<1> DEFINE s1 == CoveringStep(FirstSeen, "xmin", bbox["xmin"])
<1> DEFINE s2 == CoveringStep(s1, "ymin", bbox["ymin"])
<1> DEFINE s3 == CoveringStep(s2, "xmax", bbox["xmax"])
<1> DEFINE s4 == CoveringStep(s3, "ymax", bbox["ymax"])
<1>1. /\ Coordinates[1] = "xmin" /\ Coordinates[2] = "ymin"
      /\ Coordinates[3] = "xmax" /\ Coordinates[4] = "ymax"
  BY DEF Coordinates
<1>2. CoveringError(f, bbox) <=> seen[4].error \/ FieldsNamed(f, seen[4].root) = {}
  BY DEF CoveringError, FirstSeen
<1>3. \E g : Loop(g)
  <2> DEFINE g == [i \in 0..4 |-> IF i = 0 THEN FirstSeen ELSE IF i = 1 THEN s1
                                  ELSE IF i = 2 THEN s2 ELSE IF i = 3 THEN s3 ELSE s4]
  <2> HIDE DEF s1, s2, s3, s4
  <2>1. g[0] = FirstSeen /\ g[1] = s1 /\ g[2] = s2 /\ g[3] = s3 /\ g[4] = s4
    OBVIOUS
  <2>2. \A i \in 0..4 : i = 0 \/ i = 1 \/ i = 2 \/ i = 3 \/ i = 4
    OBVIOUS
  <2>3. \A i \in 0..4 : g[i] = IF i = 0 THEN FirstSeen
                               ELSE CoveringStep(g[i - 1], Coordinates[i], bbox[Coordinates[i]])
    BY <1>1, <2>1, <2>2 DEF s1, s2, s3, s4
  <2>4. g = [i \in 0..4 |-> g[i]]
    OBVIOUS
  <2> HIDE DEF g
  <2>5. Loop(g)
    BY <2>3, <2>4
  <2> QED
    BY <2>5
<1>4. Loop(seen)
  BY <1>3
<1> HIDE DEF seen
<1>5. seen[0] = FirstSeen
  BY <1>4
<1>6. /\ seen[1] = CoveringStep(seen[0], Coordinates[1], bbox[Coordinates[1]])
      /\ seen[2] = CoveringStep(seen[1], Coordinates[2], bbox[Coordinates[2]])
      /\ seen[3] = CoveringStep(seen[2], Coordinates[3], bbox[Coordinates[3]])
      /\ seen[4] = CoveringStep(seen[3], Coordinates[4], bbox[Coordinates[4]])
  BY <1>4
<1>7. seen[1] = s1 /\ seen[2] = s2 /\ seen[3] = s3 /\ seen[4] = s4
  BY <1>1, <1>5, <1>6
<1> HIDE DEF s1, s2, s3, s4
<1>8. CoveringError(f, bbox) <=> s4.error \/ FieldsNamed(f, s4.root) = {}
  BY <1>2, <1>7
<1> QED
  BY <1>8 DEF s1, s2, s3, s4

LEMMA ShortSequences ==
    ASSUME NEW S, NEW T, NEW x \in S, NEW y \in T, S \subseteq T
    PROVE  <<x>> \in Seq(S) /\ <<x, y>> \in Seq(T)
OBVIOUS

LEMMA PathOfTwo ==
    ASSUME NEW path \in Seq(Name \cup {None}) \cup {None}, NEW coordinate \in STRING,
           NEW root \in Name
    PROVE  path = <<root, <<coordinate>>>> /\ root # <<>>
             <=> GoodPath(coordinate, path) /\ path[1] = root
<1>1. <<coordinate>> \in Name
  BY ShortSequences DEF Name
<1>0. <<root, <<coordinate>>>> \in Seq(Name)
  BY <1>1, ShortSequences
<1>2. None # root /\ None # <<root, <<coordinate>>>>
  BY <1>0, NoneAssumption
<1>3. ASSUME path = <<root, <<coordinate>>>>, root # <<>>
      PROVE  GoodPath(coordinate, path) /\ path[1] = root
  <2>1. path # None /\ Len(path) = 2 /\ path[1] = root /\ path[2] = <<coordinate>>
    BY <1>2, <1>3
  <2> QED
    BY <1>2, <1>3, <2>1 DEF GoodPath
<1>4. ASSUME GoodPath(coordinate, path), path[1] = root
      PROVE  path = <<root, <<coordinate>>>> /\ root # <<>>
  <2>1. path \in Seq(Name \cup {None}) /\ Len(path) = 2 /\ path[2] = <<coordinate>> /\ root # <<>>
    BY <1>4 DEF GoodPath
  <2>2. path = [i \in 1..2 |-> path[i]]
    BY <2>1
  <2> QED
    BY <1>4, <2>1, <2>2
<1> QED
  BY <1>3, <1>4

\* The loop accepts exactly the coverings whose paths are the four members of one column.
LEMMA CoveringVerdict ==
    ASSUME NEW f, NEW content, f.schema.fields = content.fields,
           \A i \in DOMAIN content.fields : content.fields[i].name \in Name,
           NEW bbox, IsBbox(bbox)
    PROVE  CoveringError(f, bbox) <=> ~ConformingCovering(content, bbox)
<1>1. CASE bbox = None
  BY <1>1 DEF CoveringError, ConformingCovering
<1>2. CASE bbox # None
  <2>0. Range(Coordinates) = {"xmin", "ymin", "xmax", "ymax"}
    <3>1. /\ DOMAIN Coordinates = 1..4
          /\ Coordinates[1] = "xmin" /\ Coordinates[2] = "ymin"
          /\ Coordinates[3] = "xmax" /\ Coordinates[4] = "ymax"
      BY DEF Coordinates
    <3>2. \A i \in 1..4 : i = 1 \/ i = 2 \/ i = 3 \/ i = 4
      OBVIOUS
    <3> QED
      BY <3>1, <3>2 DEF Range
  <2>1. DOMAIN bbox = {"xmin", "ymin", "xmax", "ymax"}
    BY <1>2, <2>0 DEF IsBbox
  <2>2. \A k \in DOMAIN bbox : bbox[k] \in Seq(Name \cup {None}) \cup {None}
    BY <1>2 DEF IsBbox
  <2> DEFINE p1 == bbox["xmin"]
  <2> DEFINE p2 == bbox["ymin"]
  <2> DEFINE p3 == bbox["xmax"]
  <2> DEFINE p4 == bbox["ymax"]
  <2> DEFINE Path == Seq(Name \cup {None}) \cup {None}
  <2>3. p1 \in Path /\ p2 \in Path /\ p3 \in Path /\ p4 \in Path
    BY <2>1, <2>2
  <2>4. \A name \in Name : (\A k \in DOMAIN bbox : bbox[k] = <<name, <<k>>>>)
          <=> /\ p1 = <<name, <<"xmin">>>> /\ p2 = <<name, <<"ymin">>>>
              /\ p3 = <<name, <<"xmax">>>> /\ p4 = <<name, <<"ymax">>>>
    BY <2>1
  <2>5. PICK s1, s2, s3, s4 :
          /\ s1 = CoveringStep(FirstSeen, "xmin", p1)
          /\ s2 = CoveringStep(s1, "ymin", p2)
          /\ s3 = CoveringStep(s2, "xmax", p3)
          /\ s4 = CoveringStep(s3, "ymax", p4)
          /\ CoveringError(f, bbox) <=> s4.error \/ FieldsNamed(f, s4.root) = {}
    BY <1>2, LoopEnds
  <2> HIDE DEF p1, p2, p3, p4
  <2> DEFINE Seen == [error: BOOLEAN, root: Name \cup {None}]
  <2>6. FirstSeen \in Seen /\ ~FirstSeen.error /\ FirstSeen.root = None
    BY DEF FirstSeen
  <2>7. /\ s1 \in Seen /\ (s1.error <=> ~GoodPath("xmin", p1))
        /\ ~s1.error => s1.root = p1[1]
    BY <2>3, <2>5, <2>6, StepOfLoop
  <2>8. /\ s2 \in Seen
        /\ s2.error <=> s1.error \/ ~GoodPath("ymin", p2) \/ s1.root \notin {None, p2[1]}
        /\ ~s2.error => s2.root = p2[1]
    BY <2>3, <2>5, <2>7, StepOfLoop
  <2>9. /\ s3 \in Seen
        /\ s3.error <=> s2.error \/ ~GoodPath("xmax", p3) \/ s2.root \notin {None, p3[1]}
        /\ ~s3.error => s3.root = p3[1]
    BY <2>3, <2>5, <2>8, StepOfLoop
  <2>10. /\ s4 \in Seen
         /\ s4.error <=> s3.error \/ ~GoodPath("ymax", p4) \/ s3.root \notin {None, p4[1]}
         /\ ~s4.error => s4.root = p4[1]
    BY <2>3, <2>5, <2>9, StepOfLoop
  <2>11. \A k, p : GoodPath(k, p) => p[1] \notin {None, <<>>}
    BY DEF GoodPath
  <2>12. ~s4.error <=> /\ GoodPath("xmin", p1) /\ GoodPath("ymin", p2)
                       /\ GoodPath("xmax", p3) /\ GoodPath("ymax", p4)
                       /\ p1[1] = p4[1] /\ p2[1] = p4[1] /\ p3[1] = p4[1]
    BY <2>7, <2>8, <2>9, <2>10, <2>11
  <2>13. \A name \in Name : ~s4.error /\ s4.root = name
           <=> /\ GoodPath("xmin", p1) /\ p1[1] = name /\ GoodPath("ymin", p2) /\ p2[1] = name
               /\ GoodPath("xmax", p3) /\ p3[1] = name /\ GoodPath("ymax", p4) /\ p4[1] = name
    BY <2>10, <2>12
  <2>14. \A name \in Name : ~s4.error /\ s4.root = name
           <=> name # <<>> /\ \A k \in DOMAIN bbox : bbox[k] = <<name, <<k>>>>
    <3> SUFFICES ASSUME NEW name \in Name
                 PROVE  ~s4.error /\ s4.root = name
                          <=> name # <<>> /\ \A k \in DOMAIN bbox : bbox[k] = <<name, <<k>>>>
      OBVIOUS
    <3>0. "xmin" \in STRING /\ "ymin" \in STRING /\ "xmax" \in STRING /\ "ymax" \in STRING
      BY <2>0, CoordinatesAssumption
    <3>1. p1 = <<name, <<"xmin">>>> /\ name # <<>> <=> GoodPath("xmin", p1) /\ p1[1] = name
      BY <2>3, <3>0, PathOfTwo, Zenon
    <3>2. p2 = <<name, <<"ymin">>>> /\ name # <<>> <=> GoodPath("ymin", p2) /\ p2[1] = name
      BY <2>3, <3>0, PathOfTwo, Zenon
    <3>3. p3 = <<name, <<"xmax">>>> /\ name # <<>> <=> GoodPath("xmax", p3) /\ p3[1] = name
      BY <2>3, <3>0, PathOfTwo, Zenon
    <3>4. p4 = <<name, <<"ymax">>>> /\ name # <<>> <=> GoodPath("ymax", p4) /\ p4[1] = name
      BY <2>3, <3>0, PathOfTwo, Zenon
    <3> QED
      BY <2>4, <2>13, <3>1, <3>2, <3>3, <3>4
  <2>15. ~CoveringError(f, bbox) <=>
           ~s4.error /\ \E i \in DOMAIN content.fields : content.fields[i].name = s4.root
    BY <2>5 DEF FieldsNamed
  <2>16. ConformingCovering(content, bbox) <=>
           \E i \in DOMAIN content.fields :
              /\ content.fields[i].name # <<>>
              /\ \A k \in DOMAIN bbox : bbox[k] = <<content.fields[i].name, <<k>>>>
    BY <1>2 DEF ConformingCovering
  <2> QED
    BY <2>14, <2>15, <2>16
<1> QED
  BY <1>1, <1>2

-----------------------------------------------------------------------------
(* One geometry column.                                                    *)

LEMMA TypesVerdict ==
    ASSUME NEW types, types # None, IsTypes(types)
    PROVE  InvalidTypes(types) = {} <=>
             /\ \A t \in Range(types) : t # None /\ t.base \in GeometryTypes
             /\ IsInjective(types)
<1>1. DOMAIN types = 1..Len(types) /\ Len(types) \in Nat
  BY DEF IsTypes
<1>2. InvalidTypes(types) = {} <=>
        /\ \A i \in DOMAIN types : types[i] # None /\ types[i].base \in GeometryTypes
        /\ \A i \in DOMAIN types : \A j \in 1..(i - 1) : types[j] # types[i]
  BY DEF InvalidTypes
<1>3. (\A i \in DOMAIN types : \A j \in 1..(i - 1) : types[j] # types[i]) <=> IsInjective(types)
  <2>1. ASSUME \A i \in DOMAIN types : \A j \in 1..(i - 1) : types[j] # types[i],
               NEW a \in DOMAIN types, NEW b \in DOMAIN types, types[a] = types[b]
        PROVE  a = b
    <3>1. a \in Nat /\ b \in Nat /\ a >= 1 /\ b >= 1
      BY <1>1
    <3>2. a \notin 1..(b - 1) /\ b \notin 1..(a - 1)
      BY <2>1
    <3> QED
      BY <3>1, <3>2
  <2>2. ASSUME IsInjective(types), NEW i \in DOMAIN types, NEW j \in 1..(i - 1)
        PROVE  types[j] # types[i]
    <3>1. j \in DOMAIN types /\ j # i
      BY <1>1
    <3> QED
      BY <2>2, <3>1 DEF IsInjective
  <2> QED
    BY <2>1, <2>2 DEF IsInjective
<1> QED
  BY <1>2, <1>3 DEF Range

LEMMA EncodingVerdict ==
    ASSUME NEW version, version # None, IsVersion(version), IsSupportedVersion(version),
           NEW encoding
    PROVE  /\ EncodingIsValid(encoding, version) <=>
                \/ encoding = "WKB"
                \/ encoding \in NativeEncodings /\ version[2].n \notin {None, 0}
           /\ "WKB" \notin NativeEncodings
<1>1. version \in Seq([n: Nat \cup {None}, plain: BOOLEAN]) /\ Len(version) = 3
  BY DEF IsVersion, IsSupportedVersion
<1>2. version[2] \in [n: Nat \cup {None}, plain: BOOLEAN]
  <2> DEFINE S == [n: Nat \cup {None}, plain: BOOLEAN]
  <2>1. version \in Seq(S)
    BY <1>1
  <2> HIDE DEF S
  <2>2. version[2] \in S
    BY <1>1, <2>1
  <2> QED
    BY <2>2 DEF S
<1>3. version[2].n \in Nat \cup {None}
  BY <1>2
<1>4. SupportsNativeEncoding(version) <=> version[2].n \notin {None, 0}
  BY <1>1, <1>3, NoneAssumption DEF SupportsNativeEncoding
<1> QED
  BY <1>4 DEF EncodingIsValid, NativeEncodings

LEMMA ColumnVerdict ==
    ASSUME NEW path, NEW content, IsContent(content), NEW name, NEW column, IsColumn(column),
           NEW version, version # None, IsVersion(version), IsSupportedVersion(version),
           ParquetFile(path, content, content).geo.document.version = version
    PROVE  ConformingColumn(content, version, name, column) <=>
             /\ ~InvalidColumn(ParquetFile(path, content, content), name, column)
             /\ ~InvalidSpatial(ParquetFile(path, content, content), column)
<1> DEFINE f == ParquetFile(path, content, content)
<1> DEFINE g == ParquetFile(<<>>, content, content)
<1>1. f.groups = g.groups /\ f.schema = g.schema /\ f.schema.fields = content.fields
  BY DEF ParquetFile
<1> HIDE DEF f, g
<1>2. WKBColumnIsBinary(f, name) <=> WKBColumnIsBinary(g, name)
  <2>1. Chunks(f) = Chunks(g) /\ \A id : Chunk(f, id) = Chunk(g, id)
    BY <1>1 DEF Chunks, Chunk
  <2>2. FieldsNamed(f, name) = FieldsNamed(g, name)
    BY <1>1 DEF FieldsNamed
  <2> QED
    BY <1>1, <2>1, <2>2 DEF WKBColumnIsBinary
<1>3. FieldsNamed(f, name) # {} <=>
        \E i \in DOMAIN content.fields : content.fields[i].name = name
  BY <1>1 DEF FieldsNamed
<1>4. \A i \in DOMAIN content.fields : content.fields[i].name \in Name
  <2>1. \A i \in DOMAIN content.fields : content.fields[i] \in Field
    BY DEF IsContent, Range
  <2> QED
    BY <2>1 DEF Field
<1>5. InvalidSpatial(f, column) <=>
        \/ InvalidAttributes(column)
        \/ "covering" \in DOMAIN column /\ ~ConformingCovering(content, column.covering)
  BY <1>1, <1>4, CoveringVerdict DEF InvalidSpatial, IsColumn
<1>6. InvalidColumn(f, name, column) <=>
        \/ name = <<>> \/ FieldsNamed(f, name) = {}
        \/ ~EncodingIsValid(column.encoding, version)
        \/ column.types = None \/ InvalidTypes(column.types) # {}
        \/ column.encoding = "WKB" /\ ~WKBColumnIsBinary(f, name)
  BY DEF InvalidColumn, f
<1>7. ConformingColumn(content, version, name, column) <=>
        /\ name # <<>> /\ FieldsNamed(f, name) # {}
        /\ \/ column.encoding = "WKB" /\ WKBColumnIsBinary(f, name)
           \/ column.encoding \in NativeEncodings /\ version[2].n \notin {None, 0}
        /\ column.types # None
        /\ \A t \in Range(column.types) : t # None /\ t.base \in GeometryTypes
        /\ IsInjective(column.types)
        /\ "covering" \in DOMAIN column => ConformingCovering(content, column.covering)
        /\ ~InvalidAttributes(column)
  BY <1>2, <1>3 DEF ConformingColumn, g
<1>8. column.types # None =>
        (InvalidTypes(column.types) = {} <=>
           /\ \A t \in Range(column.types) : t # None /\ t.base \in GeometryTypes
           /\ IsInjective(column.types))
  BY TypesVerdict DEF IsColumn
<1>9. /\ EncodingIsValid(column.encoding, version) <=>
           \/ column.encoding = "WKB"
           \/ column.encoding \in NativeEncodings /\ version[2].n \notin {None, 0}
      /\ "WKB" \notin NativeEncodings
  BY EncodingVerdict
<1> QED
  BY <1>5, <1>6, <1>7, <1>8, <1>9 DEF f

-----------------------------------------------------------------------------
(* One document.                                                           *)

LEMMA MetadataSilent ==
    ASSUME NEW f, f.format = "Parquet"
    PROVE  InvalidGeoParquetMetadata(<<f>>) = {} <=>
             \/ f.geo = None
             \/ ~f.geo.error /\ IsObject(f.geo.document) /\ ~InvalidDocument(f.geo.document)
<1>1. ParquetFiles(<<f>>) = {f}
  BY Alone
<1> QED
  BY <1>1 DEF InvalidGeoParquetMetadata, GeoFiles

LEMMA ColumnsSilent ==
    ASSUME NEW f, f.format = "Parquet", f.geo # None, f.geo.document # None,
           IsObject(f.geo.document), Columns(f) # None
    PROVE  /\ InvalidGeoParquetColumns(<<f>>) = {} <=>
                /\ f.geo.document.primary \in DOMAIN Columns(f) \cup {None}
                /\ \A c \in DOMAIN Columns(f) :
                      Columns(f)[c] # None /\ ~InvalidColumn(f, c, Columns(f)[c])
           /\ (\A c \in DOMAIN Columns(f) : Columns(f)[c] # None) =>
                (InvalidGeoParquetSpatialMetadata(<<f>>) = {} <=>
                   \A c \in DOMAIN Columns(f) : ~InvalidSpatial(f, Columns(f)[c]))
<1>1. GeoDocuments(<<f>>) = {f}
  BY Alone DEF GeoDocuments, GeoFiles
<1>2. GeoColumns(f) = {c \in DOMAIN Columns(f) : Columns(f)[c] # None}
  BY DEF GeoColumns
<1>3. {g \in GeoDocuments(<<f>>) : Columns(g) # None} = {f}
  BY <1>1
<1> DEFINE primary == {Report("AL019", f, <<0, c>>) :
                         c \in {f.geo.document.primary} \ (DOMAIN Columns(f) \cup {None})}
<1> DEFINE absent  == {Report("AL019", f, <<0, c>>) : c \in DOMAIN Columns(f) \ GeoColumns(f)}
<1> DEFINE bad     == {Report("AL019", f, <<0, c>>) :
                         c \in {d \in GeoColumns(f) : InvalidColumn(f, d, Columns(f)[d])}}
<1> DEFINE spatial == {Report("AL020", f, <<0, c>>) :
                         c \in {d \in GeoColumns(f) : InvalidSpatial(f, Columns(f)[d])}}
<1>4. InvalidGeoParquetColumns(<<f>>) = primary \cup absent \cup bad
  <2> DEFINE Body(g) ==
        {Report("AL019", g, <<0, c>>) :
            c \in {g.geo.document.primary} \ (DOMAIN Columns(g) \cup {None})}
          \cup {Report("AL019", g, <<0, c>>) : c \in DOMAIN Columns(g) \ GeoColumns(g)}
          \cup {Report("AL019", g, <<0, c>>) :
                   c \in {d \in GeoColumns(g) : InvalidColumn(g, d, Columns(g)[d])}}
  <2>1. InvalidGeoParquetColumns(<<f>>) =
          UNION {Body(g) : g \in {h \in GeoDocuments(<<f>>) : Columns(h) # None}}
    BY Zenon DEF InvalidGeoParquetColumns, GeoColumnReports
  <2>2. Body(f) = primary \cup absent \cup bad
    OBVIOUS
  <2> HIDE DEF Body, primary, absent, bad
  <2> QED
    BY <1>3, <2>1, <2>2
<1>5. InvalidGeoParquetSpatialMetadata(<<f>>) = spatial
  BY <1>1 DEF InvalidGeoParquetSpatialMetadata, GeoColumnReports
<1>6. primary = {} <=> f.geo.document.primary \in DOMAIN Columns(f) \cup {None}
  OBVIOUS
<1>7. absent = {} <=> \A c \in DOMAIN Columns(f) : Columns(f)[c] # None
  BY <1>2
<1>8. bad = {} <=> \A c \in DOMAIN Columns(f) :
                     Columns(f)[c] # None => ~InvalidColumn(f, c, Columns(f)[c])
  BY <1>2
<1>9. spatial = {} <=> \A c \in DOMAIN Columns(f) :
                         Columns(f)[c] # None => ~InvalidSpatial(f, Columns(f)[c])
  BY <1>2
<1> QED
  BY <1>4, <1>5, <1>6, <1>7, <1>8, <1>9

LEMMA DocumentVerdict ==
    ASSUME NEW path, NEW content, IsContent(content)
    PROVE  ParquetFile(path, content, content).format = "Parquet"
             => (GeoReports(<<ParquetFile(path, content, content)>>) = {} <=> Conforms(content))
<1> DEFINE f == ParquetFile(path, content, content)
<1>1. f.geo = ParseMetadata(content.geo) /\ f.format = "Parquet"
  BY DEF ParquetFile
<1>2. ParquetFile(path, content, content) = f
  OBVIOUS
<1> HIDE DEF f
<1>3. GeoReports(<<f>>) = {} <=>
        /\ InvalidGeoParquetMetadata(<<f>>) = {} /\ InvalidGeoParquetColumns(<<f>>) = {}
        /\ InvalidGeoParquetSpatialMetadata(<<f>>) = {}
  BY DEF GeoReports
<1>4. CASE content.geo = <<>>
  <2>1. f.geo = None
    BY <1>1, <1>4 DEF ParseMetadata
  <2>2. GeoFiles(<<f>>) = {}
    BY <2>1, Alone DEF GeoFiles
  <2>3. /\ InvalidGeoParquetMetadata(<<f>>) = {} /\ InvalidGeoParquetColumns(<<f>>) = {}
        /\ InvalidGeoParquetSpatialMetadata(<<f>>) = {}
    <3>1. GeoDocuments(<<f>>) = {}
      BY <2>2 DEF GeoDocuments
    <3>2. InvalidGeoParquetMetadata(<<f>>) = {}
      BY <2>2 DEF InvalidGeoParquetMetadata
    <3>3. InvalidGeoParquetColumns(<<f>>) = {}
      BY <3>1, Zenon DEF InvalidGeoParquetColumns
    <3>4. InvalidGeoParquetSpatialMetadata(<<f>>) = {}
      BY <3>1, Zenon DEF InvalidGeoParquetSpatialMetadata
    <3> QED
      BY <3>2, <3>3, <3>4
  <2> QED
    BY <1>2, <1>3, <1>4, <2>3 DEF Conforms
<1>5. CASE content.geo # <<>>
  <2> DEFINE d == content.geo[1]
  <2>1. f.geo # None
    BY <1>1, <1>5 DEF IsContent
  <2>2. content.geo \in Seq(Range(content.geo)) /\ d \in Range(content.geo)
    BY <1>5 DEF IsContent, Range
  <2> DEFINE n == Len(content.geo)
  <2>7. n \in Nat /\ n >= 1
    BY <1>5, <2>2
  <2>3. d # None /\ (IsObject(d) => IsDocument(d))
    BY <2>2 DEF IsContent
  <2> HIDE DEF d
  <2> DEFINE bad == Len(content.geo) > 1 \/ d.kind \in {"null", "malformed"}
  <2>4. /\ bad => f.geo.error
        /\ ~bad => ~f.geo.error /\ f.geo.document = d
    <3>1. f.geo = [error |-> bad, document |-> IF bad THEN None ELSE d]
      BY <1>1, <1>5, Zenon DEF ParseMetadata, d
    <3> HIDE DEF bad
    <3> QED
      BY <3>1
  <2>5. CASE f.geo.error \/ ~IsObject(f.geo.document)
    <3>1. InvalidGeoParquetMetadata(<<f>>) # {}
      BY <1>1, <2>1, <2>5, MetadataSilent
    <3>2. ~(Len(content.geo) = 1 /\ d.kind = "object")
      <4>1. bad => ~(Len(content.geo) = 1 /\ d.kind = "object")
        <5> HIDE DEF n
        <5>1. ~(n > 1 /\ n = 1)
          BY <2>7
        <5>2. d.kind \in {"null", "malformed"} => d.kind # "object"
          OBVIOUS
        <5> QED
          BY <5>1, <5>2, Zenon DEF bad, n
      <4>2. ~bad => d.kind # "object"
        BY <2>4, <2>5, Zenon DEF IsObject
      <4> QED
        BY <4>1, <4>2
    <3>3. ~Conforms(content)
      BY <1>5, <3>2 DEF Conforms, d
    <3> QED
      BY <1>2, <1>3, <3>1, <3>3
  <2>6. CASE ~f.geo.error /\ IsObject(f.geo.document)
    <3>1. f.geo.document = d /\ Len(content.geo) = 1 /\ d.kind = "object" /\ IsDocument(d)
      <4>1. ~bad /\ f.geo.document = d
        BY <2>4, <2>6, Zenon
      <4>2. d.kind = "object" /\ IsDocument(d)
        BY <2>3, <2>6, <4>1 DEF IsObject
      <4>3. Len(content.geo) = 1
        <5>1. ~(n > 1)
          BY <4>1, Zenon DEF bad
        <5> HIDE DEF n
        <5>2. n = 1
          BY <2>7, <5>1
        <5> QED
          BY <5>2 DEF n
      <4> QED
        BY <4>1, <4>2, <4>3
    <3>2. Conforms(content) <=>
            /\ d.version # None /\ IsSupportedVersion(d.version)
            /\ d.columns # None /\ d.primary \in DOMAIN d.columns
            /\ \A c \in DOMAIN d.columns :
                  /\ d.columns[c] # None
                  /\ ConformingColumn(content, d.version, c, d.columns[c])
      BY <1>5, <3>1 DEF Conforms, d
    <3>3. InvalidGeoParquetMetadata(<<f>>) = {} <=> ~InvalidDocument(d)
      BY <1>1, <2>1, <2>6, <3>1, MetadataSilent
    <3>4. CASE InvalidDocument(d)
      <4>1. ~Conforms(content)
        <5> SUFFICES ASSUME Conforms(content) PROVE FALSE
          OBVIOUS
        <5>1. d.primary \in {None, <<>>}
          BY <3>2, <3>4 DEF InvalidDocument
        <5>2. d.primary \in Name /\ ConformingColumn(content, d.version, d.primary, d.columns[d.primary])
          BY <3>1, <3>2 DEF IsDocument
        <5>3. d.primary # <<>>
          BY <5>2 DEF ConformingColumn
        <5> QED
          BY <5>1, <5>2, <5>3, NoneAssumption
      <4> QED
        BY <1>2, <1>3, <3>3, <3>4, <4>1
    <3>5. CASE ~InvalidDocument(d)
      <4>1. /\ d.version # None /\ IsSupportedVersion(d.version) /\ d.columns # None
            /\ d.primary \notin {None, <<>>}
        BY <3>5 DEF InvalidDocument
      <4>2. Columns(f) = d.columns
        BY <3>1 DEF Columns
      <4>3. \A c \in DOMAIN d.columns : d.columns[c] # None =>
              (ConformingColumn(content, d.version, c, d.columns[c]) <=>
                 ~InvalidColumn(f, c, d.columns[c]) /\ ~InvalidSpatial(f, d.columns[c]))
        <5> SUFFICES ASSUME NEW c \in DOMAIN d.columns, d.columns[c] # None
                     PROVE  ConformingColumn(content, d.version, c, d.columns[c]) <=>
                              ~InvalidColumn(f, c, d.columns[c]) /\ ~InvalidSpatial(f, d.columns[c])
          OBVIOUS
        <5>1. IsColumn(d.columns[c]) /\ IsVersion(d.version)
          BY <3>1, <4>1 DEF IsDocument
        <5>2. f.geo.document.version = d.version
          BY <3>1
        <5> QED
          BY <4>1, <5>1, <5>2, ColumnVerdict DEF f
      <4>4. InvalidGeoParquetColumns(<<f>>) = {} <=>
              /\ d.primary \in DOMAIN d.columns
              /\ \A c \in DOMAIN d.columns :
                    d.columns[c] # None /\ ~InvalidColumn(f, c, d.columns[c])
        BY <1>1, <2>1, <2>3, <2>6, <3>1, <4>1, <4>2, ColumnsSilent
      <4>5. (\A c \in DOMAIN d.columns : d.columns[c] # None) =>
              (InvalidGeoParquetSpatialMetadata(<<f>>) = {} <=>
                 \A c \in DOMAIN d.columns : ~InvalidSpatial(f, d.columns[c]))
        BY <1>1, <2>1, <2>3, <2>6, <3>1, <4>1, <4>2, ColumnsSilent
      <4> QED
        BY <1>2, <1>3, <3>2, <3>3, <3>5, <4>1, <4>3, <4>4, <4>5
    <3> QED
      BY <3>4, <3>5
  <2> QED
    BY <2>5, <2>6
<1> QED
  BY <1>4, <1>5

\* What is reported of a file alone is reported of it in a dataset.
LEMMA GeoInDataset ==
    ASSUME NEW D, NEW f \in ParquetFiles(D)
    PROVE  /\ GeoReports(<<f>>) \subseteq GeoReports(D)
           /\ \A r \in GeoReports(<<f>>) : r.path = f.path
<1>1. ParquetFiles(<<f>>) = {f}
  BY Alone DEF ParquetFiles
<1>2. GeoFiles(<<f>>) \subseteq {f} /\ GeoFiles(<<f>>) \subseteq GeoFiles(D)
  BY <1>1 DEF GeoFiles
<1>3. GeoDocuments(<<f>>) \subseteq {f} /\ GeoDocuments(<<f>>) \subseteq GeoDocuments(D)
  BY <1>2 DEF GeoDocuments
<1>4. InvalidGeoParquetMetadata(<<f>>) \subseteq InvalidGeoParquetMetadata(D)
  BY <1>2 DEF InvalidGeoParquetMetadata
<1>5. InvalidGeoParquetColumns(<<f>>) \subseteq InvalidGeoParquetColumns(D)
  <2> DEFINE Body(g) ==
        {Report("AL019", g, <<0, c>>) :
            c \in {g.geo.document.primary} \ (DOMAIN Columns(g) \cup {None})}
         \cup {Report("AL019", g, <<0, c>>) : c \in DOMAIN Columns(g) \ GeoColumns(g)}
         \cup GeoColumnReports("AL019", g, LAMBDA name, column : InvalidColumn(g, name, column))
  <2>1. \A E : InvalidGeoParquetColumns(E) =
                 UNION {Body(g) : g \in {h \in GeoDocuments(E) : Columns(h) # None}}
    BY DEF InvalidGeoParquetColumns
  <2> HIDE DEF Body
  <2> QED
    BY <1>3, <2>1
<1>6. InvalidGeoParquetSpatialMetadata(<<f>>) \subseteq InvalidGeoParquetSpatialMetadata(D)
  <2> DEFINE Body(g) == GeoColumnReports("AL020", g, LAMBDA name, column : InvalidSpatial(g, column))
  <2>1. \A E : InvalidGeoParquetSpatialMetadata(E) = UNION {Body(g) : g \in GeoDocuments(E)}
    BY DEF InvalidGeoParquetSpatialMetadata
  <2> HIDE DEF Body
  <2> QED
    BY <1>3, <2>1
<1>7. \A r \in GeoReports(<<f>>) : \E g \in ParquetFiles(<<f>>) : r.path = g.path
  BY GeoOfFile
<1> QED
  BY <1>1, <1>4, <1>5, <1>6, <1>7 DEF GeoReports

\* AL018, AL019 and AL020 are silent together exactly on the files that conform, among
\* those that nobody replaced: for any scan of any files.
THEOREM GeoVerdictCorrect == Spec => []GeoVerdict
<1>1. ScanInv => GeoVerdict
  <2> SUFFICES ASSUME ScanInv, phase = "done", NEW f \in ParquetFiles(files),
                      NEW content \in held[Place(f.path)], held[Place(f.path)] = {content}
               PROVE  RulesBroken(f.path) \cap {"AL018", "AL019", "AL020"} = {} <=> Conforms(content)
    BY DEF GeoVerdict
  <2>1. \A g \in ParquetFiles(files) :
          g.path = f.path => g = ParquetFile(f.path, content, content) /\ content # None
    BY DEF ScanInv, FilesInv, FromHeld
  <2>2. f = ParquetFile(f.path, content, content) /\ content # None
    BY <2>1
  <2>3. IsContent(content)
    <3>1. content \in Contents
      BY DEF ScanInv, FilesInv, HeldInv, FromHeld
    <3> QED
      BY <2>2, <3>1, ContentsAssumption
  <2>4. GeoReports(<<f>>) = {} <=> Conforms(content)
    <3>1. f.format = "Parquet"
      BY DEF ParquetFiles
    <3> QED
      BY <2>2, <2>3, <3>1, DocumentVerdict
  <2>5. {r \in diagnostics : r.rule \in GeoRules} = GeoReports(files)
    BY ByRule DEF ScanInv, ReportInv
  <2>6. \A r \in GeoReports(files) : r.path = f.path => r \in GeoReports(<<f>>)
    BY <2>1, <2>2, GeoOfFile
  <2>7. \A r \in GeoReports(<<f>>) : r \in GeoReports(files) /\ r.path = f.path
    BY GeoInDataset
  <2>8. RulesBroken(f.path) \cap GeoRules = {} <=> GeoReports(<<f>>) = {}
    <3>1. ASSUME NEW r \in GeoReports(<<f>>) PROVE RulesBroken(f.path) \cap GeoRules # {}
      BY <2>5, <2>7, <3>1 DEF RulesBroken
    <3>2. ASSUME NEW rule \in RulesBroken(f.path) \cap GeoRules PROVE GeoReports(<<f>>) # {}
      BY <2>5, <2>6, <3>2 DEF RulesBroken
    <3> QED
      BY <3>1, <3>2
  <2> QED
    BY <2>4, <2>8 DEF GeoRules
<1> QED
  BY <1>1, ScanCorrect, PTL

-----------------------------------------------------------------------------
(* The order of the targets.                                               *)

Paths == Seq(Names)

\* The first place where two paths differ, and how.
DifferAt(p, q, i) ==
    /\ i \in 1..Len(q) /\ i <= Len(p) + 1
    /\ \A j \in 1..(i - 1) : p[j] = q[j]
    /\ i <= Len(p) => p[i] < q[i]

LEMMA SamePrefix ==
    ASSUME NEW p \in Paths, NEW q \in Paths, NEW n \in Nat, n <= Len(p), n <= Len(q)
    PROVE  SubSeq(p, 1, n) = SubSeq(q, 1, n) <=> \A j \in 1..n : p[j] = q[j]
<1>1. \A j \in 1..n : SubSeq(p, 1, n)[j] = p[j] /\ SubSeq(q, 1, n)[j] = q[j]
  BY DEF Paths
<1>2. SubSeq(p, 1, n) \in Seq(Names) /\ SubSeq(q, 1, n) \in Seq(Names)
  BY DEF Paths
<1>3. Len(SubSeq(p, 1, n)) = n /\ Len(SubSeq(q, 1, n)) = n
  BY DEF Paths
<1>4. ASSUME \A j \in 1..n : p[j] = q[j] PROVE SubSeq(p, 1, n) = SubSeq(q, 1, n)
  BY <1>1, <1>2, <1>3, <1>4, SeqEqual
<1>5. ASSUME SubSeq(p, 1, n) = SubSeq(q, 1, n) PROVE \A j \in 1..n : p[j] = q[j]
  BY <1>1, <1>5
<1> QED
  BY <1>4, <1>5

LEMMA BeforeDiffers ==
    ASSUME NEW p \in Paths, NEW q \in Paths
    PROVE  Before(p, q) <=> \E i \in Nat : DifferAt(p, q, i)
<1>1. /\ Len(p) \in Nat /\ Len(q) \in Nat
      /\ DOMAIN p = 1..Len(p) /\ DOMAIN q = 1..Len(q)
  BY DEF Paths
<1>2. ASSUME IsStrictPrefix(p, q) PROVE DifferAt(p, q, Len(p) + 1)
  <2>1. Len(p) <= Len(q) /\ \A j \in 1..Len(p) : p[j] = q[j]
    BY <1>1, <1>2, SamePrefix DEF IsStrictPrefix, IsPrefix
  <2>2. Len(p) # Len(q)
    BY <1>2, <2>1, SeqEqual DEF IsStrictPrefix, Paths
  <2> DEFINE m == Len(p)
  <2> DEFINE n == Len(q)
  <2> DEFINE i == m + 1
  <2>3. m \in Nat /\ n \in Nat /\ m <= n /\ m # n
    BY <1>1, <2>1, <2>2
  <2> HIDE DEF m, n
  <2>4. i - 1 = m /\ i \in 1..n /\ i <= m + 1 /\ ~(i <= m)
    BY <2>3
  <2> HIDE DEF i
  <2>5. DifferAt(p, q, i)
    BY <2>1, <2>4 DEF DifferAt, m, n
  <2> QED
    BY <2>5 DEF i, m
<1>3. ASSUME NEW i \in DOMAIN p \cap DOMAIN q, p[i] < q[i],
             SubSeq(p, 1, i - 1) = SubSeq(q, 1, i - 1)
      PROVE  DifferAt(p, q, i) /\ i \in Nat
  <2>1. i - 1 \in Nat /\ i - 1 <= Len(p) /\ i - 1 <= Len(q)
    BY <1>1
  <2> QED
    BY <1>1, <1>3, <2>1, SamePrefix DEF DifferAt
<1>4. ASSUME NEW i \in Nat, DifferAt(p, q, i) PROVE Before(p, q)
  <2>1. CASE i = Len(p) + 1
    <3>1. Len(p) <= Len(q) /\ SubSeq(p, 1, Len(p)) = SubSeq(q, 1, Len(p))
      BY <1>1, <1>4, <2>1, SamePrefix DEF DifferAt
    <3>2. p # q
      BY <1>1, <1>4, <2>1 DEF DifferAt
    <3> QED
      BY <3>1, <3>2 DEF Before, IsStrictPrefix, IsPrefix
  <2>2. CASE i <= Len(p)
    <3>1. i \in DOMAIN p \cap DOMAIN q /\ p[i] < q[i]
      BY <1>1, <1>4, <2>2 DEF DifferAt
    <3>2. SubSeq(p, 1, i - 1) = SubSeq(q, 1, i - 1)
      <4>1. i - 1 \in Nat /\ i - 1 <= Len(p) /\ i - 1 <= Len(q)
        BY <1>1, <1>4 DEF DifferAt
      <4> QED
        BY <1>4, <4>1, SamePrefix DEF DifferAt
    <3> QED
      BY <3>1, <3>2 DEF Before
  <2> QED
    BY <1>1, <1>4, <2>1, <2>2 DEF DifferAt
<1>5. ASSUME Before(p, q) PROVE \E i \in Nat : DifferAt(p, q, i)
  BY <1>1, <1>2, <1>3, <1>5 DEF Before
<1> QED
  BY <1>4, <1>5

LEMMA NamesCompare ==
    ASSUME NEW p \in Paths, NEW i \in 1..Len(p)
    PROVE  p[i] \in Nat
<1>1. p[i] \in Names
  BY ElementOfSeq DEF Paths
<1> QED
  BY <1>1, NamesAssumption

NatLess == {p \in Nat \X Nat : p[1] < p[2]}

LEMMA NatLessWellFounded == IsWellFoundedOn(NatLess, Nat)
BY NatLessThanWellFounded DEF OpToRel, NatLess

LEMMA LeastElement ==
    ASSUME NEW T, T \subseteq Nat, T # {}
    PROVE  \E x \in T : \A y \in T : x <= y
<1>1. PICK x \in T : \A y \in T : ~(<<y, x>> \in NatLess)
  BY NatLessWellFounded, WFMin
<1>2. ASSUME NEW y \in T PROVE x <= y
  <2>1. ~(y < x)
    BY <1>1 DEF NatLess
  <2> QED
    BY <2>1
<1> QED
  BY <1>2

\* Any two paths are the same or one is before the other, and no path is before itself.
LEMMA PathsOrdered ==
    ASSUME NEW p \in Paths, NEW q \in Paths
    PROVE  (p = q \/ Before(p, q) \/ Before(q, p)) /\ (Before(p, q) => ~Before(q, p)) /\ ~Before(p, p)
<1>1. /\ Len(p) \in Nat /\ Len(q) \in Nat
      /\ DOMAIN p = 1..Len(p) /\ DOMAIN q = 1..Len(q)
  BY DEF Paths
<1>2. ASSUME p # q PROVE Before(p, q) \/ Before(q, p)
  <2> DEFINE T == {i \in Nat \ {0} : \/ i = Len(p) + 1 \/ i = Len(q) + 1
                                     \/ i \in 1..Len(p) /\ i \in 1..Len(q) /\ p[i] # q[i]}
  <2>1. T \subseteq Nat /\ Len(p) + 1 \in T
    BY <1>1
  <2>2. \E i \in T : \A j \in T : i <= j
    <3> HIDE DEF T
    <3> QED
      BY <2>1, LeastElement
  <2>3. PICK i \in T : \A j \in T : i <= j
    BY <2>2
  <2>4. i <= Len(p) + 1 /\ i <= Len(q) + 1 /\ i \in Nat \ {0}
    BY <1>1, <2>3
  <2>5. \A j \in 1..(i - 1) : p[j] = q[j]
    BY <1>1, <2>3, <2>4
  <2>6. CASE i <= Len(p) /\ i <= Len(q)
    <3>1. p[i] # q[i]
      BY <1>1, <2>6
    <3>2. p[i] < q[i] \/ q[i] < p[i]
      BY <1>1, <2>4, <2>6, <3>1, NamesCompare
    <3>3. DifferAt(p, q, i) \/ DifferAt(q, p, i)
      BY <1>1, <2>4, <2>5, <2>6, <3>2 DEF DifferAt
    <3> QED
      BY <2>4, <3>3, BeforeDiffers
  <2>7. CASE i = Len(p) + 1 /\ i <= Len(q)
    <3>1. DifferAt(p, q, i)
      BY <1>1, <2>4, <2>5, <2>7 DEF DifferAt
    <3> QED
      BY <2>4, <3>1, BeforeDiffers
  <2>8. CASE i = Len(q) + 1 /\ i <= Len(p)
    <3>1. DifferAt(q, p, i)
      BY <1>1, <2>4, <2>5, <2>8 DEF DifferAt
    <3> QED
      BY <2>4, <3>1, BeforeDiffers
  <2>9. CASE i = Len(p) + 1 /\ i = Len(q) + 1
    <3> DEFINE m == Len(p)
    <3> DEFINE n == Len(q)
    <3>1. m \in Nat /\ n \in Nat /\ i = m + 1 /\ i = n + 1
      BY <1>1, <2>9
    <3> HIDE DEF m, n, T
    <3>2. m = n /\ m = i - 1
      BY <2>4, <3>1
    <3>3. Len(p) = Len(q) /\ Len(p) = i - 1
      BY <3>2 DEF m, n
    <3>4. \A j \in 1..Len(p) : p[j] = q[j]
      BY <2>5, <3>3
    <3> QED
      BY <1>2, <3>3, <3>4, SeqEqual DEF Paths
  <2> QED
    BY <1>1, <2>4, <2>6, <2>7, <2>8, <2>9
<1>3. ASSUME Before(p, q), Before(q, p) PROVE FALSE
  <2>1. PICK i \in Nat : DifferAt(p, q, i)
    BY <1>3, BeforeDiffers
  <2>2. PICK j \in Nat : DifferAt(q, p, j)
    BY <1>3, BeforeDiffers
  <2>3. CASE i < j
    <3>1. i \in 1..(j - 1) /\ q[i] = p[i] /\ i <= Len(p)
      BY <1>1, <2>1, <2>2, <2>3 DEF DifferAt
    <3> QED
      BY <1>1, <2>1, <3>1, NamesCompare DEF DifferAt
  <2>4. CASE j < i
    <3>1. j \in 1..(i - 1) /\ q[j] = p[j] /\ j <= Len(q)
      BY <1>1, <2>1, <2>2, <2>4 DEF DifferAt
    <3> QED
      BY <1>1, <2>2, <3>1, NamesCompare DEF DifferAt
  <2>5. CASE i = j
    <3>1. i \in 1..Len(p) /\ i \in 1..Len(q) /\ p[i] < q[i] /\ q[i] < p[i]
      BY <1>1, <2>1, <2>2, <2>5 DEF DifferAt
    <3> QED
      BY <3>1, NamesCompare
  <2> QED
    BY <2>3, <2>4, <2>5
<1>4. ~Before(p, p)
  <2> SUFFICES ASSUME NEW i \in Nat, DifferAt(p, p, i) PROVE FALSE
    BY BeforeDiffers
  <2> QED
    BY <1>1, NamesCompare DEF DifferAt
<1> QED
  BY <1>2, <1>3, <1>4

LEMMA BeforeTransitive ==
    ASSUME NEW p \in Paths, NEW q \in Paths, NEW r \in Paths, Before(p, q), Before(q, r)
    PROVE  Before(p, r)
<1>1. Len(p) \in Nat /\ Len(q) \in Nat /\ Len(r) \in Nat
  BY DEF Paths
<1>2. PICK i \in Nat : DifferAt(p, q, i)
  BY BeforeDiffers
<1>3. PICK j \in Nat : DifferAt(q, r, j)
  BY BeforeDiffers
<1>4. CASE i < j
  <2>1. q[i] = r[i] /\ i <= Len(q) /\ i <= Len(r)
    BY <1>1, <1>2, <1>3, <1>4 DEF DifferAt
  <2>2. DifferAt(p, r, i)
    BY <1>1, <1>2, <1>3, <1>4, <2>1 DEF DifferAt
  <2> QED
    BY <2>2, BeforeDiffers
<1>5. CASE j < i
  <2>1. p[j] = q[j] /\ j <= Len(p)
    BY <1>1, <1>2, <1>3, <1>5 DEF DifferAt
  <2>2. DifferAt(p, r, j)
    BY <1>1, <1>2, <1>3, <1>5, <2>1 DEF DifferAt
  <2> QED
    BY <2>2, BeforeDiffers
<1>6. CASE i = j
  <2>1. i <= Len(p) => p[i] < r[i]
    <3> SUFFICES ASSUME i <= Len(p) PROVE p[i] < r[i]
      OBVIOUS
    <3>1. i \in 1..Len(p) /\ i \in 1..Len(q) /\ i \in 1..Len(r) /\ p[i] < q[i] /\ q[i] < r[i]
      BY <1>1, <1>2, <1>3, <1>6 DEF DifferAt
    <3>2. p[i] \in Nat /\ q[i] \in Nat /\ r[i] \in Nat
      BY <3>1, NamesCompare
    <3> QED
      BY <3>1, <3>2
  <2>2. DifferAt(p, r, i)
    BY <1>1, <1>2, <1>3, <1>6, <2>1 DEF DifferAt
  <2> QED
    BY <2>2, BeforeDiffers
<1> QED
  BY <1>4, <1>5, <1>6

\* Sorting loses no path and repeats none.
LEMMA SortedPaths ==
    ASSUME NEW S, S \subseteq Paths, IsFiniteSet(S)
    PROVE  /\ Sorted(S) \in Seq(S) /\ Range(Sorted(S)) = S
           /\ IsInjective(Sorted(S))
<1> DEFINE n == Cardinality(S)
<1> DEFINE Earlier(p) == {q \in S : Before(q, p)}
<1> DEFINE rank == [p \in S |-> Cardinality(Earlier(p))]
<1>1. n \in Nat
  BY FS_CardinalityType
<1>2. ASSUME NEW p \in S
      PROVE  IsFiniteSet(Earlier(p)) /\ Cardinality(Earlier(p)) \in 0..(n - 1)
  <2>1. Earlier(p) \subseteq S \ {p}
    BY PathsOrdered
  <2>2. IsFiniteSet(S \ {p}) /\ Cardinality(S \ {p}) = n - 1
    BY FS_RemoveElement
  <2> HIDE DEF Earlier
  <2>3. IsFiniteSet(Earlier(p)) /\ Cardinality(Earlier(p)) <= Cardinality(S \ {p})
    BY <2>1, <2>2, FS_Subset
  <2>4. Cardinality(Earlier(p)) \in Nat
    BY <2>3, FS_CardinalityType
  <2> HIDE DEF n
  <2> QED
    BY <1>1, <2>2, <2>3, <2>4
<1>3. ASSUME NEW p \in S, NEW q \in S, Before(p, q)
      PROVE  Cardinality(Earlier(p)) # Cardinality(Earlier(q))
  <2>1. p \notin Earlier(p)
    BY PathsOrdered
  <2>2. \A r \in Earlier(p) : Before(r, q)
    BY <1>3, BeforeTransitive
  <2>3. Earlier(p) \cup {p} \subseteq Earlier(q)
    BY <1>3, <2>2
  <2> HIDE DEF Earlier
  <2>4. Cardinality(Earlier(p) \cup {p}) = Cardinality(Earlier(p)) + 1
    BY <1>2, <2>1, FS_AddElement
  <2>5. Cardinality(Earlier(p) \cup {p}) <= Cardinality(Earlier(q))
    BY <1>2, <2>3, FS_Subset
  <2> HIDE DEF n
  <2> QED
    BY <1>1, <1>2, <2>4, <2>5
<1>4. \A p, q \in S : Cardinality(Earlier(p)) = Cardinality(Earlier(q)) => p = q
  <2> HIDE DEF Earlier
  <2> QED
    BY <1>3, PathsOrdered
<1>5. \A i \in 1..n : \E p \in S : Cardinality(Earlier(p)) = i - 1
  <2> HIDE DEF Earlier
  <2>1. rank \in Injection(S, 0..(n - 1))
    BY <1>2, <1>4 DEF Injection, IsInjective
  <2>2. IsFiniteSet(0..(n - 1)) /\ Cardinality(0..(n - 1)) = n
    BY <1>1, FS_Interval
  <2> HIDE DEF rank
  <2>3. rank \in Surjection(S, 0..(n - 1))
    BY <2>1, <2>2, FS_Injection
  <2>4. ASSUME NEW i \in 1..n PROVE \E p \in S : rank[p] = i - 1
    <3>1. i - 1 \in 0..(n - 1)
      BY <1>1
    <3> QED
      BY <2>3, <3>1 DEF Surjection
  <2> QED
    BY <2>4 DEF rank
<1> DEFINE s == Sorted(S)
<1>6. s = [i \in 1..n |-> s[i]] /\ \A i \in 1..n : s[i] \in S /\ Cardinality(Earlier(s[i])) = i - 1
  <2>1. s = [i \in 1..n |-> CHOOSE p \in S : Cardinality(Earlier(p)) = i - 1]
    BY DEF Sorted
  <2> HIDE DEF Earlier, s
  <2> QED
    BY <1>5, <2>1
<1> HIDE DEF Earlier, n, s
<1>7. s \in Seq(S) /\ DOMAIN s = 1..n
  BY <1>1, <1>6
<1>8. IsInjective(s)
  BY <1>1, <1>6, <1>7 DEF IsInjective
<1>9. ASSUME NEW p \in S PROVE p \in Range(s)
  <2> DEFINE i == Cardinality(Earlier(p)) + 1
  <2>1. i \in 1..n /\ i - 1 = Cardinality(Earlier(p))
    BY <1>1, <1>2
  <2>2. s[i] = p
    BY <1>4, <1>6, <2>1
  <2> QED
    BY <1>7, <2>1, <2>2 DEF Range
<1>10. Range(s) = S
  BY <1>6, <1>7, <1>9 DEF Range
<1> QED
  BY <1>7, <1>8, <1>10 DEF s

\* A set of short sequences over a finite set is finite.
LEMMA FiniteFunctions ==
    ASSUME NEW S, NEW T, IsFiniteSet(S), IsFiniteSet(T)
    PROVE  IsFiniteSet([S -> T])
<1> DEFINE Graph(f) == {<<x, f[x]>> : x \in S}
<1> DEFINE graph == [f \in [S -> T] |-> Graph(f)]
<1>1. IsFiniteSet(SUBSET (S \X T))
  BY FS_Product, FS_SUBSET
<1>2. \A f \in [S -> T] : Graph(f) \in SUBSET (S \X T)
  OBVIOUS
<1>3. ASSUME NEW f \in [S -> T], NEW g \in [S -> T], Graph(f) = Graph(g) PROVE f = g
  <2>1. ASSUME NEW x \in S PROVE f[x] = g[x]
    <3>1. <<x, f[x]>> \in Graph(g)
      BY <1>3
    <3> QED
      BY <3>1
  <2> QED
    BY <2>1
<1>4. graph \in Injection([S -> T], SUBSET (S \X T))
  <2> HIDE DEF Graph
  <2> QED
    BY <1>2, <1>3 DEF Injection, IsInjective
<1> QED
  BY <1>1, <1>4, FS_Injection

LEMMA FiniteSequences ==
    ASSUME NEW S, IsFiniteSet(S), NEW n \in Nat
    PROVE  IsFiniteSet(SeqOf(S, n))
<1> DEFINE lengths == {[1..m -> S] : m \in 0..n}
<1>1. IsFiniteSet(0..n) /\ \A m \in 0..n : IsFiniteSet(1..m)
  BY FS_Interval
<1>2. IsFiniteSet(lengths)
  <2> DEFINE f == [m \in 0..n |-> [1..m -> S]]
  <2>1. f \in Surjection(0..n, lengths)
    BY DEF Surjection
  <2> QED
    BY <1>1, <2>1, FS_Surjection
<1>3. \A T \in lengths : IsFiniteSet(T)
  BY <1>1, FiniteFunctions
<1> QED
  BY <1>2, <1>3, FS_UNION DEF SeqOf

-----------------------------------------------------------------------------
(* What the inputs stand for.                                              *)

Inputs == Paths \ {<<>>}

LEMMA PrefixOfPath ==
    ASSUME NEW p \in Paths, NEW q \in Prefixes(p)
    PROVE  q \in Paths /\ Len(q) <= Len(p)
<1>1. PICK l \in 0..Len(p) : q = SubSeq(p, 1, l)
  BY DEF Prefixes
<1>2. Len(p) \in Nat /\ \A i \in 1..Len(p) : p[i] \in Names
  BY DEF Paths
<1> DEFINE n == Len(p)
<1>3. l \in Nat /\ l <= n
  BY <1>2
<1>4. \A i \in 1..l : p[i] \in Names
  <2> HIDE DEF n
  <2>1. \A i \in 1..n : p[i] \in Names
    BY <1>2 DEF n
  <2>2. n \in Nat
    BY <1>2 DEF n
  <2> QED
    BY <1>3, <2>1, <2>2
<1> HIDE DEF n
<1>5. q \in Seq(Names) /\ Len(q) = IF 1 <= l THEN l ELSE 0
  <2>1. /\ SubSeq(p, 1, l) \in Seq(Names)
        /\ Len(SubSeq(p, 1, l)) = IF 1 <= l THEN l - 1 + 1 ELSE 0
    BY <1>3, <1>4, SubSeqProperties
  <2> QED
    BY <1>1, <1>3, <2>1
<1>6. Len(q) <= n
  BY <1>3, <1>5
<1> QED
  BY <1>5, <1>6 DEF Paths, n

LEMMA RootOfDataset ==
    ASSUME NEW p \in Paths, LanceAncestors(p) # {}
    PROVE  LanceDatasetRoot(p) \in LanceAncestors(p)
<1> DEFINE n == Len(p)
<1> DEFINE gaps == {n - Len(q) : q \in LanceAncestors(p)}
<1>1. n \in Nat /\ \A q \in LanceAncestors(p) : Len(q) \in Nat /\ Len(q) <= n
  BY PrefixOfPath DEF LanceAncestors, Paths
<1> HIDE DEF n
<1>2. gaps \subseteq Nat /\ gaps # {}
  BY <1>1
<1>3. PICK g \in gaps : \A h \in gaps : g <= h
  <2> HIDE DEF gaps
  <2> QED
    BY <1>2, LeastElement
<1>4. PICK q \in LanceAncestors(p) : g = n - Len(q)
  BY <1>3
<1>5. \A r \in LanceAncestors(p) : Len(r) <= Len(q)
  <2> SUFFICES ASSUME NEW r \in LanceAncestors(p) PROVE Len(r) <= Len(q)
    OBVIOUS
  <2>1. n - Len(q) <= n - Len(r)
    BY <1>3, <1>4
  <2> QED
    BY <1>1, <2>1
<1> QED
  BY <1>4, <1>5, Zenon DEF LanceDatasetRoot, Longest

LEMMA BelowPath ==
    ASSUME NEW p \in Paths
    PROVE  Below(p) \subseteq Inputs /\ IsFiniteSet(Below(p))
<1> DEFINE S == SeqOf(Names, MaxDepth) \ {<<>>}
<1>1. IsFiniteSet(SeqOf(Names, MaxDepth))
  BY FiniteSequences, NamesAssumption, DepthAssumption
<1>2. IsFiniteSet(S)
  BY <1>1, FS_RemoveElement
<1>3. \A s \in S : s \in Seq(Names) /\ s # <<>>
  <2> SUFFICES ASSUME NEW s \in S PROVE s \in Seq(Names)
    OBVIOUS
  <2>1. PICK m \in 0..MaxDepth : s \in [1..m -> Names]
    BY DEF SeqOf
  <2>2. m \in Nat
    BY DepthAssumption
  <2> QED
    BY <2>1, <2>2, SeqDef
<1> HIDE DEF S
<1>4. \A s \in S : p \o s \in Inputs
  <2> SUFFICES ASSUME NEW s \in S PROVE p \o s \in Inputs
    OBVIOUS
  <2>1. p \o s \in Seq(Names) /\ p \o s # <<>>
    BY <1>3, ConcatProperties, ConcatEqualIffEmpty DEF Paths
  <2> QED
    BY <2>1 DEF Inputs, Paths
<1>5. Below(p) = {p \o s : s \in S}
  BY DEF Below, S
<1>6. IsFiniteSet({p \o s : s \in S})
  <2> DEFINE f == [s \in S |-> p \o s]
  <2>1. f \in Surjection(S, {p \o s : s \in S})
    BY DEF Surjection
  <2> QED
    BY <1>2, <2>1, FS_Surjection
<1> QED
  BY <1>4, <1>5, <1>6

LEMMA ListedPaths ==
    ASSUME NEW t, NEW p \in Paths
    PROVE  Listed(t, p) \subseteq Inputs /\ IsFiniteSet(Listed(t, p))
<1> DEFINE S == {Append(p, n) : n \in Names}
<1>1. S \subseteq Inputs
  BY AppendProperties DEF Inputs, Paths
<1>2. IsFiniteSet(S)
  <2> DEFINE f == [n \in Names |-> Append(p, n)]
  <2>1. f \in Surjection(Names, S)
    BY DEF Surjection
  <2> HIDE DEF f, S
  <2> QED
    BY <2>1, FS_Surjection, NamesAssumption
<1>3. Listed(t, p) \subseteq S
  BY DEF Listed
<1> HIDE DEF S
<1> QED
  BY <1>1, <1>2, <1>3, FS_Subset

LEMMA ExpandedPaths ==
    ASSUME NEW t, NEW p \in Inputs, NEW recursive, NEW follow
    PROVE  /\ Expanded(t, p, recursive, follow) \subseteq Inputs
           /\ IsFiniteSet(Expanded(t, p, recursive, follow))
<1> DEFINE E == Expanded(t, p, recursive, follow)
<1>0. p \in Paths
  BY DEF Inputs
<1>1. CASE E = {p}
  BY <1>1, FS_Singleton
<1>2. CASE E = {LanceDatasetRoot(p)} /\ InDataset(t, p)
  <2>1. LanceDatasetRoot(p) \in LanceAncestors(p)
    BY <1>0, <1>2, RootOfDataset DEF InDataset
  <2>2. LanceDatasetRoot(p) \in Inputs
    BY <1>0, <2>1, PrefixOfPath DEF LanceAncestors, IsLanceDatasetRoot, Inputs
  <2> QED
    BY <1>2, <2>2, FS_Singleton
<1>3. CASE E = Targets(t, Walked(t, p, follow), follow)
  <2>1. E \subseteq Below(p)
    BY <1>3 DEF Targets, Walked
  <2> HIDE DEF E
  <2> QED
    BY <1>0, <2>1, BelowPath, FS_Subset DEF E
<1>4. CASE E = Targets(t, Listed(t, p), FALSE)
  <2>1. E \subseteq Listed(t, p)
    BY <1>4 DEF Targets
  <2> HIDE DEF E
  <2> QED
    BY <1>0, <2>1, ListedPaths, FS_Subset DEF E
<1> QED
  BY <1>1, <1>2, <1>3, <1>4, Zenon DEF Expanded

\* What all inputs stand for.
Asked(a, t) ==
    UNION {Expanded(t, a.inputs[i], a.recursive, a.follow) : i \in DOMAIN a.inputs}

LEMMA ExpandedTargets ==
    ASSUME NEW a, NEW t, a.inputs \in Seq(Inputs)
    PROVE  /\ ExpandPaths(a, t) \in Seq(Inputs) /\ IsInjective(ExpandPaths(a, t))
           /\ Range(ExpandPaths(a, t)) = Asked(a, t)
<1> DEFINE Of(i) == Expanded(t, a.inputs[i], a.recursive, a.follow)
<1> DEFINE sets == {Of(i) : i \in DOMAIN a.inputs}
<1>1. /\ Len(a.inputs) \in Nat /\ DOMAIN a.inputs = 1..Len(a.inputs)
      /\ \A i \in DOMAIN a.inputs : a.inputs[i] \in Inputs
  BY LenProperties, ElementOfSeq
<1>2. \A i \in DOMAIN a.inputs : Of(i) \subseteq Inputs /\ IsFiniteSet(Of(i))
  BY <1>1, ExpandedPaths
<1> HIDE DEF Of
<1>3. IsFiniteSet(sets)
  <2> DEFINE f == [i \in DOMAIN a.inputs |-> Of(i)]
  <2>1. f \in Surjection(DOMAIN a.inputs, sets)
    BY DEF Surjection
  <2>2. IsFiniteSet(DOMAIN a.inputs)
    BY <1>1, FS_Interval
  <2> HIDE DEF f, sets
  <2> QED
    BY <2>1, <2>2, FS_Surjection
<1>4. IsFiniteSet(UNION sets)
  BY <1>2, <1>3, FS_UNION
<1>5. UNION sets \subseteq Inputs
  BY <1>2
<1>6. ExpandPaths(a, t) = Sorted(UNION sets) /\ Asked(a, t) = UNION sets
  BY DEF ExpandPaths, Asked, Of
<1> HIDE DEF sets
<1>7. /\ ExpandPaths(a, t) \in Seq(UNION sets) /\ IsInjective(ExpandPaths(a, t))
      /\ Range(ExpandPaths(a, t)) = UNION sets
  <2>1. UNION sets \subseteq Paths
    BY <1>5 DEF Inputs
  <2> QED
    BY <1>4, <1>6, <2>1, SortedPaths
<1> QED
  BY <1>5, <1>6, <1>7, SeqMonotonic

-----------------------------------------------------------------------------
(* The targets, one after the other.                                       *)

PhaseInv ==
    /\ args.inputs \in Seq(Inputs)
    /\ phase \in Phases /\ edits \in 0..MaxEdits
    /\ targets \in Seq(Inputs)
    /\ phase = "expand" => files = <<>>
    /\ phase \in {"schema", "fetch"} => targets # <<>> /\ FormatOf(Target) # "Unknown"
    /\ (footer # None) <=> (phase = "schema")
    /\ phase # "done" => diagnostics = {}

FormatInv == \A f \in Files(files) : f.format = FormatOf(f.path) /\ f.format # "Unknown"

\* No path is that of two files, of two targets, or of a file and a target.
OnceInv ==
    /\ \A i, j \in DOMAIN files : files[i].path = files[j].path => i = j
    /\ IsInjective(targets)
    /\ \A i \in DOMAIN files, j \in DOMAIN targets : files[i].path # targets[j]

TargetInv == PhaseInv /\ FormatInv /\ OnceInv

LEMMA InitTargets == Init => TargetInv
<1> SUFFICES ASSUME Init PROVE TargetInv
  OBVIOUS
<1>1. args.inputs \in Seq(Inputs)
  BY InputsAssumption DEF Init, Inputs, Paths
<1>2. edits \in 0..MaxEdits
  BY EditsAssumption DEF Init
<1>3. targets = <<>> /\ files = <<>> /\ phase = "expand" /\ footer = None /\ diagnostics = {}
  BY DEF Init
<1>4. PhaseInv
  BY <1>1, <1>2, <1>3 DEF PhaseInv, Phases
<1>5. DOMAIN files = {} /\ DOMAIN targets = {}
  BY <1>3
<1> QED
  BY <1>4, <1>5 DEF TargetInv, FormatInv, OnceInv, Files, IsInjective

\* The next target is taken from the sequence.
LEMMA TakeTarget ==
    ASSUME targets \in Seq(Inputs), targets # <<>>, IsInjective(targets)
    PROVE  /\ Target \in Inputs
           /\ Tail(targets) \in Seq(Inputs) /\ IsInjective(Tail(targets))
           /\ \A i \in DOMAIN Tail(targets) :
                 /\ Tail(targets)[i] # Target
                 /\ \E j \in DOMAIN targets : targets[j] = Tail(targets)[i]
           /\ 1 \in DOMAIN targets /\ targets[1] = Target
<1> DEFINE n == Len(targets)
<1>1. n \in Nat \ {0} /\ DOMAIN targets = 1..n /\ Target = targets[1]
  BY EmptySeq, LenProperties DEF Target
<1>2. /\ Target \in Inputs /\ Tail(targets) \in Seq(Inputs)
      /\ Len(Tail(targets)) = n - 1
      /\ \A i \in 1..Len(Tail(targets)) : Tail(targets)[i] = targets[i + 1]
  BY HeadTailProperties DEF Target
<1>3. DOMAIN Tail(targets) = 1..(n - 1)
  BY <1>2, LenProperties
<1> HIDE DEF n
<1>4. \A i \in 1..(n - 1) :
        i + 1 \in 1..n /\ i + 1 # 1 /\ 1 \in 1..n /\ Tail(targets)[i] = targets[i + 1]
  BY <1>1, <1>2
<1>5. IsInjective(Tail(targets))
  <2> SUFFICES ASSUME NEW i \in 1..(n - 1), NEW j \in 1..(n - 1),
                      Tail(targets)[i] = Tail(targets)[j]
               PROVE  i = j
    BY <1>3 DEF IsInjective
  <2>1. i + 1 = j + 1
    BY <1>1, <1>4 DEF IsInjective
  <2> QED
    BY <2>1
<1>6. \A i \in 1..(n - 1) : Tail(targets)[i] # Target
  BY <1>1, <1>4 DEF IsInjective
<1> QED
  BY <1>1, <1>2, <1>3, <1>4, <1>5, <1>6

LEMMA AddTarget ==
    ASSUME TargetInv, files \in Seq(Range(files)), targets # <<>>, phase # "done",
           NEW file, Add(file), file.path = Target, file.format = FormatOf(Target),
           file.format # "Unknown"
    PROVE  TargetInv'
<1>1. /\ Target \in Inputs
      /\ targets' \in Seq(Inputs) /\ IsInjective(targets')
      /\ \A i \in DOMAIN targets' :
            targets'[i] # Target /\ \E j \in DOMAIN targets : targets[j] = targets'[i]
      /\ 1 \in DOMAIN targets /\ targets[1] = Target
  BY TakeTarget DEF Add, TargetInv, PhaseInv, OnceInv
<1>2. PhaseInv'
  BY <1>1 DEF TargetInv, PhaseInv, Add, Unread, Phases
<1> DEFINE n == Len(files)
<1>3. /\ n \in Nat /\ DOMAIN files = 1..n /\ DOMAIN files' = 1..(n + 1)
      /\ \A i \in 1..n : files'[i] = files[i]
      /\ files'[n + 1] = file
  <2>1. n \in Nat /\ DOMAIN files = 1..n
    BY LenProperties
  <2>2. files' = Append(files, file)
    BY DEF Add
  <2>3. files \in Seq(Range(files) \cup {file}) /\ file \in Range(files) \cup {file}
    BY SeqMonotonic
  <2>4. /\ Append(files, file) \in Seq(Range(files) \cup {file})
        /\ Len(Append(files, file)) = n + 1
        /\ \A i \in 1..n : Append(files, file)[i] = files[i]
        /\ Append(files, file)[n + 1] = file
    BY <2>3, AppendProperties
  <2>5. DOMAIN Append(files, file) = 1..(n + 1)
    BY <2>4, LenProperties
  <2> QED
    BY <2>1, <2>2, <2>4, <2>5
<1> HIDE DEF n
<1>4. \A i \in 1..(n + 1) : i \in 1..n \/ i = n + 1
  BY <1>3
<1>5. FormatInv'
  BY <1>3, <1>4 DEF TargetInv, FormatInv, Files
<1>6. \A i \in 1..n : files'[i].path = files[i].path /\ files[i].path # Target
  BY <1>1, <1>3 DEF TargetInv, OnceInv
<1>7. \A i, j \in 1..(n + 1) : files'[i].path = files'[j].path => i = j
  BY <1>3, <1>4, <1>6 DEF TargetInv, OnceInv
<1>8. \A i \in 1..(n + 1), j \in DOMAIN targets' : files'[i].path # targets'[j]
  BY <1>1, <1>3, <1>4, <1>6 DEF TargetInv, OnceInv
<1>9. OnceInv'
  BY <1>1, <1>3, <1>7, <1>8 DEF OnceInv
<1> QED
  BY <1>2, <1>5, <1>9 DEF TargetInv

LEMMA NextTargets == ScanInv /\ TargetInv /\ [Next]_vars => TargetInv'
<1> SUFFICES ASSUME ScanInv, TargetInv, [Next]_vars PROVE TargetInv'
  OBVIOUS
<1>0. files \in Seq(Range(files))
  BY DEF ScanInv, FilesInv
<1>1. CASE Expand
  <2>1. files = <<>> /\ files' = <<>> /\ phase' = "scan" /\ Unread
    BY <1>1 DEF Expand, TargetInv, PhaseInv
  <2>2. targets' \in Seq(Inputs) /\ IsInjective(targets')
    BY <1>1, ExpandedTargets DEF Expand, TargetInv, PhaseInv
  <2>3. PhaseInv'
    BY <1>1, <2>1, <2>2 DEF Expand, TargetInv, PhaseInv, Unread, Phases
  <2>4. DOMAIN files' = {}
    BY <2>1
  <2> QED
    BY <2>2, <2>3, <2>4 DEF TargetInv, FormatInv, OnceInv, Files
<1>2. CASE Fail /\ phase # "done"
  <2>1. PhaseInv'
    BY <1>2 DEF Fail, Unread, TargetInv, PhaseInv, Phases
  <2> QED
    BY <1>2, <2>1 DEF Fail, TargetInv, FormatInv, OnceInv
<1>3. CASE SkipUnknown
  <2>1. targets # <<>> /\ targets' = Tail(targets) /\ files' = files
    BY <1>3 DEF SkipUnknown, Scanning
  <2>2. /\ targets' \in Seq(Inputs) /\ IsInjective(targets')
        /\ \A i \in DOMAIN targets' : \E j \in DOMAIN targets : targets[j] = targets'[i]
    BY <2>1, TakeTarget DEF TargetInv, PhaseInv, OnceInv
  <2>3. PhaseInv'
    BY <1>3, <2>2 DEF SkipUnknown, Scanning, Unread, TargetInv, PhaseInv, Phases
  <2> QED
    BY <2>1, <2>2, <2>3 DEF TargetInv, FormatInv, OnceInv
<1>4. CASE OpenParquet \/ Request
  <2>1. files' = files /\ targets' = targets
    BY <1>4 DEF OpenParquet, Request
  <2>2. PhaseInv'
    BY <1>4 DEF OpenParquet, Request, HasFooter, Scanning, Unread, Target, TargetInv, PhaseInv, Phases
  <2> QED
    BY <2>1, <2>2 DEF TargetInv, FormatInv, OnceInv
<1>5. CASE ReadSchema
  <2>1. FormatOf(Target) = "Parquet" /\ targets # <<>> /\ phase # "done"
    BY <1>5 DEF ReadSchema, ScanInv, OpenInv, TargetInv, PhaseInv
  <2> DEFINE file == ParquetFile(Target, footer, Current)
  <2>2. file.path = Target /\ file.format = "Parquet"
    BY DEF ParquetFile
  <2> HIDE DEF file
  <2>3. Add(file)
    BY <1>5 DEF ReadSchema, file
  <2> QED
    BY <1>0, <2>1, <2>2, <2>3, AddTarget
<1>6. ASSUME NEW c, Add(OtherFile(Target, c)), FormatOf(Target) # "Unknown",
             targets # <<>>, phase # "done"
      PROVE  TargetInv'
  <2>1. OtherFile(Target, c).path = Target /\ OtherFile(Target, c).format = FormatOf(Target)
    BY DEF OtherFile
  <2> QED
    BY <1>0, <1>6, <2>1, AddTarget
<1>7. CASE ScanOther \/ ScanLance
  BY <1>6, <1>7 DEF ScanOther, ScanLance, Scanning
<1>8. CASE Answer
  <2>1. FormatOf(Target) # "Unknown" /\ targets # <<>> /\ phase # "done"
    BY <1>8 DEF Answer, TargetInv, PhaseInv
  <2>2. CASE FormatOf(Target) = "Parquet"
    <3> DEFINE file == ParquetFile(Target, Current, Current)
    <3>1. file.path = Target /\ file.format = "Parquet"
      BY DEF ParquetFile
    <3> HIDE DEF file
    <3>2. Add(file)
      BY <1>8, <2>2 DEF Answer, file
    <3> QED
      BY <1>0, <2>1, <2>2, <3>1, <3>2, AddTarget
  <2>3. CASE FormatOf(Target) # "Parquet"
    BY <1>6, <1>8, <2>1, <2>3 DEF Answer
  <2> QED
    BY <2>2, <2>3
<1>9. CASE Scanned \/ CheckRules
  <2>1. files' = files /\ targets' = targets
    BY <1>9 DEF Scanned, CheckRules
  <2>2. PhaseInv'
    BY <1>9 DEF Scanned, CheckRules, Unread, TargetInv, PhaseInv, Phases
  <2> QED
    BY <2>1, <2>2 DEF TargetInv, FormatInv, OnceInv
<1>10. CASE Replace
  <2>1. files' = files /\ targets' = targets
    BY <1>10 DEF Replace
  <2>2. edits' \in 0..MaxEdits
    BY <1>10, EditsAssumption DEF Replace, TargetInv, PhaseInv
  <2>3. PhaseInv'
    BY <1>10, <2>2 DEF Replace, TargetInv, PhaseInv, Target
  <2> QED
    BY <2>1, <2>3 DEF TargetInv, FormatInv, OnceInv
<1>11. CASE UNCHANGED vars
  BY <1>11 DEF vars, TargetInv, PhaseInv, FormatInv, OnceInv, Target
<1>12. ExpandError \/ ReadFails \/ RemoteLance \/ FetchFails \/ NothingScanned
         => Fail /\ phase # "done"
  BY DEF ExpandError, ReadFails, RemoteLance, FetchFails, NothingScanned, Scanning
<1> QED
  BY <1>1, <1>2, <1>3, <1>4, <1>5, <1>7, <1>8, <1>9, <1>10, <1>11, <1>12 DEF Next, Step

LEMMA TargetsCorrect == Spec => [](ScanInv /\ TargetInv)
<1>1. Init => ScanInv /\ TargetInv
  BY InitScan, InitTargets
<1>2. ScanInv /\ TargetInv /\ [Next]_vars => (ScanInv /\ TargetInv)'
  BY NextScan, NextTargets
<1> QED
  BY <1>1, <1>2, PTL DEF Spec

\* Every report is about the dataset or about one of its files.
LEMMA ReportsOfFiles ==
    ASSUME NEW D, NEW r \in All(D)
    PROVE  r.path = None \/ \E f \in Files(D) : f.path = r.path
<1> DEFINE OfFile(x) == x.path = None \/ \E f \in Files(D) : f.path = x.path
<1>1. \A rule, place : \A f \in Files(D) : OfFile(Report(rule, f, place))
  BY DEF Report
<1>2. ParquetFiles(D) \subseteq Files(D) /\ \A i \in DOMAIN D : D[i] \in Files(D)
  BY DEF ParquetFiles, Files
<1> HIDE DEF OfFile
<1>3. \A x \in TinyRowGroups(D) : OfFile(x)
  BY <1>1, <1>2 DEF TinyRowGroups
<1>4. /\ \A x \in MissingParquetStatistics(D) : OfFile(x)
      /\ \A x \in UncompressedParquetColumns(D) : OfFile(x)
      /\ \A x \in DeprecatedParquetPhysicalTypes(D) : OfFile(x)
  BY <1>1, <1>2 DEF MissingParquetStatistics, UncompressedParquetColumns,
                    DeprecatedParquetPhysicalTypes, ChunkReports
<1>5. /\ \A x \in DeprecatedParquetEncodings(D) : OfFile(x)
      /\ \A x \in DeprecatedParquetCompression(D) : OfFile(x)
      /\ \A x \in MissingParquetNullCounts(D) : OfFile(x)
  BY <1>1, <1>2 DEF DeprecatedParquetEncodings, DeprecatedParquetCompression,
                    MissingParquetNullCounts, ChunkReports
<1>6. \A x \in MixedDictionaryEncodings(D) : OfFile(x)
  BY <1>1, <1>2 DEF MixedDictionaryEncodings
<1>7. \A x \in SmallFiles(D) : OfFile(x)
  BY DEF SmallFiles, Report, OfFile
<1>8. \A x \in CountReports(D) \cup GeoReports(D) : OfFile(x)
  BY <1>2, CountsOfFile, GeoOfFile DEF OfFile
<1>9. \A x \in InconsistentSchemas(D) : OfFile(x)
  <2> SUFFICES ASSUME NEW x \in InconsistentSchemas(D) PROVE OfFile(x)
    OBVIOUS
  <2>1. PICK i \in DOMAIN D : x = Report("AL003", D[i], WholeFile)
    BY Zenon DEF InconsistentSchemas
  <2> QED
    BY <1>1, <1>2, <2>1
<1>10. /\ \A x \in MissingSchemaMetadata(D) : OfFile(x)
       /\ \A x \in NonPortableTimestamps(D) : OfFile(x)
       /\ \A x \in RecognizedExtensionFormat(D) : OfFile(x)
  BY <1>1 DEF MissingSchemaMetadata, NonPortableTimestamps, RecognizedExtensionFormat
<1>11. \A x \in MissingGeoParquetPruningMetadata(D) : OfFile(x)
  <2> SUFFICES ASSUME NEW x \in MissingGeoParquetPruningMetadata(D) PROVE OfFile(x)
    OBVIOUS
  <2>1. PICK f \in GeoDocuments(D) :
          x \in GeoColumnReports("AL021", f, LAMBDA name, column :
                                   DOMAIN column \cap {"bbox", "covering"} = {})
    BY DEF MissingGeoParquetPruningMetadata
  <2>2. PICK c : x = Report("AL021", f, <<0, c>>)
    BY <2>1, Zenon DEF GeoColumnReports
  <2>3. f \in Files(D)
    BY <1>2 DEF GeoDocuments, GeoFiles
  <2> QED
    BY <1>1, <2>2, <2>3
<1>12. InvalidParquetStatistics(D) \cup InconsistentParquetRowCounts(D)
         \cup InvalidParquetSizeMetadata(D) \subseteq CountReports(D)
  BY DEF CountReports, InvalidParquetSizeMetadata
<1>13. InvalidGeoParquetMetadata(D) \cup InvalidGeoParquetColumns(D)
         \cup InvalidGeoParquetSpatialMetadata(D) \subseteq GeoReports(D)
  BY DEF GeoReports
<1>14. ASSUME r \in ParquetDiagnostics(D) PROVE OfFile(r)
  BY <1>3, <1>4, <1>5, <1>6, <1>7, <1>8, <1>9, <1>10, <1>12, <1>14 DEF ParquetDiagnostics
<1>15. ASSUME r \in GeoParquetDiagnostics(D) PROVE OfFile(r)
  BY <1>8, <1>11, <1>13, <1>15 DEF GeoParquetDiagnostics
<1> QED
  BY <1>14, <1>15 DEF All, OfFile

\* The variables have their types, a footer is held exactly between two opens, the files are
\* of the formats their names say and every report is about one of them: for any directory
\* trees, inputs and contents.
THEOREM TypeCorrect == Spec => []TypeOK
<1>1. ScanInv /\ TargetInv => TypeOK
  <2> SUFFICES ASSUME ScanInv, TargetInv PROVE TypeOK
    OBVIOUS
  <2>1. targets \in Seq(Seq(Names))
    BY SeqMonotonic DEF TargetInv, PhaseInv, Inputs, Paths
  <2>2. \A d \in diagnostics : d.path = None \/ \E f \in Files(files) : f.path = d.path
    BY ReportsOfFiles DEF ScanInv, ReportInv, TargetInv, PhaseInv
  <2> QED
    BY <2>1, <2>2 DEF TypeOK, ScanInv, HeldInv, TargetInv, PhaseInv, FormatInv
<1> QED
  BY <1>1, TargetsCorrect, PTL

\* The targets of a scan are taken one by one, none twice, however the inputs overlap.
TakenOnce == phase # "failed" => IsInjective(Taken)

\* No file is scanned twice, whatever the directory tree, the links in it and the inputs.
THEOREM TakenOnceCorrect == Spec => []TakenOnce
<1>1. ScanInv /\ TargetInv => TakenOnce
  <2> SUFFICES ASSUME ScanInv, TargetInv PROVE IsInjective(Taken)
    BY DEF TakenOnce
  <2> DEFINE paths == [i \in DOMAIN files |-> files[i].path]
  <2> DEFINE m == Len(files)
  <2> DEFINE n == Len(targets)
  <2>1. m \in Nat /\ DOMAIN files = 1..m
    BY LenProperties DEF ScanInv, FilesInv
  <2>2. n \in Nat /\ DOMAIN targets = 1..n /\ targets \in Seq(Range(targets))
    BY LenProperties, SeqOfRange DEF TargetInv, PhaseInv
  <2>3. paths = [i \in 1..m |-> files[i].path]
    BY <2>1
  <2> DEFINE S == Range(targets) \cup {files[i].path : i \in 1..m}
  <2>4. paths \in Seq(S) /\ Len(paths) = m
    <3> HIDE DEF m
    <3> QED
      BY <2>1, <2>3
  <2>5. targets \in Seq(S)
    BY <2>2, SeqMonotonic
  <2> HIDE DEF m, n, S, paths
  <2>6. /\ Taken \in Seq(S) /\ Len(Taken) = m + n
        /\ \A i \in 1..(m + n) : Taken[i] = IF i <= m THEN paths[i] ELSE targets[i - m]
    BY <2>1, <2>2, <2>4, <2>5, ConcatProperties DEF Taken, n, paths
  <2>7. DOMAIN Taken = 1..(m + n)
    BY <2>6, LenProperties
  <2>8. ASSUME NEW i \in 1..(m + n), NEW j \in 1..(m + n), Taken[i] = Taken[j] PROVE i = j
    <3>1. CASE i <= m /\ j <= m
      BY <2>1, <2>3, <2>6, <2>8, <3>1 DEF TargetInv, OnceInv
    <3>2. CASE ~(i <= m) /\ ~(j <= m)
      <4>1. i - m \in 1..n /\ j - m \in 1..n
        BY <2>1, <2>2, <3>2
      <4>2. i - m = j - m
        BY <2>2, <2>6, <2>8, <3>2, <4>1 DEF TargetInv, OnceInv, IsInjective
      <4> QED
        BY <2>1, <4>2
    <3>3. CASE i <= m /\ ~(j <= m)
      <4>1. i \in 1..m /\ j - m \in 1..n
        BY <2>1, <2>2, <3>3
      <4> QED
        BY <2>1, <2>2, <2>3, <2>6, <2>8, <3>3, <4>1 DEF TargetInv, OnceInv
    <3>4. CASE ~(i <= m) /\ j <= m
      <4>1. j \in 1..m /\ i - m \in 1..n
        BY <2>1, <2>2, <3>4
      <4> QED
        BY <2>1, <2>2, <2>3, <2>6, <2>8, <3>4, <4>1 DEF TargetInv, OnceInv
    <3> QED
      BY <3>1, <3>2, <3>3, <3>4
  <2> QED
    BY <2>7, <2>8 DEF IsInjective
<1> QED
  BY <1>1, TargetsCorrect, PTL

-----------------------------------------------------------------------------
(* Sums of rows.                                                           *)

\* The values of a loop over n elements that starts from z and whose steps are add.
IsLoop(f, n, V, z, add) ==
    f \in [0..n -> V] /\ f[0] = z /\ \A i \in 1..n : f[i] = add[i][f[i - 1]]

LEMMA LoopExists ==
    ASSUME NEW n \in Nat, NEW V, NEW z \in V, NEW add \in [1..n -> [V -> V]]
    PROVE  \E f : IsLoop(f, n, V, z, add)
<1> DEFINE Runs(k, f) == IsLoop(f, k, V, z, add)
<1> DEFINE T == {k \in 0..n : \A f : ~Runs(k, f)}
<1>1. T = {}
  <2> SUFFICES ASSUME T # {} PROVE FALSE
    OBVIOUS
  <2>1. PICK k \in T : \A j \in T : k <= j
    <3>1. T \subseteq Nat
      OBVIOUS
    <3> HIDE DEF T
    <3> QED
      BY <3>1, LeastElement
  <2>2. k \in 0..n /\ \A f : ~Runs(k, f)
    OBVIOUS
  <2>3. k # 0
    <3> SUFFICES ASSUME k = 0 PROVE FALSE
      OBVIOUS
    <3> DEFINE f == [i \in 0..0 |-> z]
    <3>1. f \in [0..0 -> V] /\ f[0] = z /\ 1..0 = {}
      OBVIOUS
    <3> HIDE DEF f
    <3>2. Runs(0, f)
      BY <3>1 DEF IsLoop
    <3> QED
      BY <2>2, <3>2
  <2>4. k - 1 \in 0..n /\ k - 1 \notin T
    <3> HIDE DEF T
    <3>1. k - 1 \in 0..n /\ ~(k <= k - 1)
      BY <2>2, <2>3
    <3> QED
      BY <2>1, <3>1
  <2>5. PICK g : Runs(k - 1, g)
    BY <2>4
  <2> HIDE DEF T
  <2> DEFINE f == [i \in 0..k |-> IF i = k THEN add[k][g[k - 1]] ELSE g[i]]
  <2>6. k \in 1..n /\ k - 1 \in 0..(k - 1) /\ \A i \in 0..k : i = k \/ i \in 0..(k - 1)
    BY <2>2, <2>3
  <2>7. g \in [0..(k - 1) -> V] /\ g[k - 1] \in V
    BY <2>5, <2>6 DEF IsLoop
  <2>8. add[k][g[k - 1]] \in V
    BY <2>6, <2>7
  <2>9. f \in [0..k -> V]
    BY <2>6, <2>7, <2>8
  <2>10. f[0] = z
    BY <2>3, <2>5, <2>6 DEF IsLoop
  <2>11. ASSUME NEW i \in 1..k PROVE f[i] = add[i][f[i - 1]]
    <3>1. CASE i = k
      <4>1. f[i] = add[k][g[k - 1]] /\ f[i - 1] = g[k - 1]
        BY <2>6, <3>1
      <4> QED
        BY <3>1, <4>1
    <3>2. CASE i # k
      <4>1. i \in 1..(k - 1) /\ i \in 0..k /\ i - 1 \in 0..k /\ i - 1 # k
        BY <2>6, <3>2
      <4>2. f[i] = g[i] /\ f[i - 1] = g[i - 1]
        BY <3>2, <4>1
      <4> QED
        BY <2>5, <4>1, <4>2 DEF IsLoop
    <3> QED
      BY <3>1, <3>2
  <2> HIDE DEF f
  <2>12. Runs(k, f)
    BY <2>9, <2>10, <2>11 DEF IsLoop
  <2> QED
    BY <2>2, <2>12
<1>2. n \in 0..n /\ n \notin T
  <2> HIDE DEF T
  <2> QED
    BY <1>1
<1> QED
  BY <1>2

\* The rows of the groups are counts.
Counted(groups) ==
    groups \in Seq(Range(groups)) /\ \A i \in DOMAIN groups : groups[i].rows \in 0..MaxWord

LEMMA TotalOfGroups ==
    ASSUME NEW groups, Counted(groups)
    PROVE  \E t \in [0..Len(groups) -> Nat] :
              /\ t[0] = 0 /\ \A i \in 1..Len(groups) : t[i] = t[i - 1] + groups[i].rows
              /\ TotalRows(groups) = t[Len(groups)]
<1> DEFINE n == Len(groups)
<1>1. n \in Nat /\ \A i \in 1..n : groups[i].rows \in Nat
  BY WordAssumption, LenProperties DEF Counted
<1> DEFINE Loop(t) == t = [i \in 0..n |-> IF i = 0 THEN 0 ELSE t[i - 1] + groups[i].rows]
<1>2. \E t : Loop(t)
  <2> DEFINE add == [i \in 1..n |-> [v \in Nat |-> v + groups[i].rows]]
  <2> HIDE DEF n
  <2>1. add \in [1..n -> [Nat -> Nat]]
    BY <1>1
  <2>2. \A v \in Nat, i \in 1..n : add[i][v] = v + groups[i].rows
    OBVIOUS
  <2> HIDE DEF add
  <2>3. PICK t \in [0..n -> Nat] : t[0] = 0 /\ \A i \in 1..n : t[i] = add[i][t[i - 1]]
    <3>1. PICK t : IsLoop(t, n, Nat, 0, add)
      BY <1>1, <2>1, LoopExists
    <3> QED
      BY <3>1, Zenon DEF IsLoop
  <2>4. \A i \in 0..n : t[i] = IF i = 0 THEN 0 ELSE t[i - 1] + groups[i].rows
    <3> SUFFICES ASSUME NEW i \in 1..n PROVE t[i] = t[i - 1] + groups[i].rows
      BY <1>1, <2>3
    <3>1. t[i - 1] \in Nat
      BY <1>1
    <3> QED
      BY <2>2, <2>3, <3>1
  <2>5. t = [i \in 0..n |-> t[i]]
    BY <2>3
  <2>6. t = [i \in 0..n |-> IF i = 0 THEN 0 ELSE t[i - 1] + groups[i].rows]
    BY <2>4, <2>5
  <2> QED
    BY <2>6
<1> DEFINE total == CHOOSE t : Loop(t)
<1>3. Loop(total)
  BY <1>2
<1>4. TotalRows(groups) = total[n]
  BY DEF TotalRows
<1> HIDE DEF total, n
<1>5. total[0] = 0 /\ \A i \in 1..n : total[i] = total[i - 1] + groups[i].rows
  BY <1>1, <1>3
<1> DEFINE T == {i \in 0..n : total[i] \notin Nat}
<1>6. T = {}
  <2> SUFFICES ASSUME T # {} PROVE FALSE
    OBVIOUS
  <2>1. PICK k \in T : \A j \in T : k <= j
    <3>1. T \subseteq Nat
      OBVIOUS
    <3> HIDE DEF T
    <3> QED
      BY <3>1, LeastElement
  <2>2. k \in 1..n /\ k - 1 \in 0..n /\ k - 1 \notin T
    BY <1>1, <1>5, <2>1
  <2> QED
    BY <1>1, <1>5, <2>2
<1>7. total \in [0..n -> Nat]
  BY <1>3, <1>6
<1> QED
  BY <1>4, <1>5, <1>7 DEF n

LEMMA SumOfGroups ==
    ASSUME NEW groups, Counted(groups)
    PROVE  \E s \in [0..Len(groups) -> Words \cup {None}] :
              /\ s[0] = 0 /\ \A i \in 1..Len(groups) : s[i] = CheckedAdd(s[i - 1], groups[i].rows)
              /\ RowSum(groups) = s[Len(groups)]
<1> DEFINE n == Len(groups)
<1> DEFINE V == Words \cup {None}
<1>1. n \in Nat /\ 0 \in V
  BY WordAssumption, LenProperties DEF Counted, Words
<1>2. \A v, w : CheckedAdd(v, w) \in V
  BY DEF CheckedAdd
<1> DEFINE Loop(s) == s = [i \in 0..n |-> IF i = 0 THEN 0 ELSE CheckedAdd(s[i - 1], groups[i].rows)]
<1>3. \E s : Loop(s)
  <2> DEFINE add == [i \in 1..n |-> [v \in V |-> CheckedAdd(v, groups[i].rows)]]
  <2> HIDE DEF n, V
  <2>1. add \in [1..n -> [V -> V]]
    BY <1>2
  <2>2. \A v \in V, i \in 1..n : add[i][v] = CheckedAdd(v, groups[i].rows)
    OBVIOUS
  <2> HIDE DEF add
  <2>3. PICK s \in [0..n -> V] : s[0] = 0 /\ \A i \in 1..n : s[i] = add[i][s[i - 1]]
    <3>1. PICK s : IsLoop(s, n, V, 0, add)
      BY <1>1, <2>1, LoopExists
    <3> QED
      BY <3>1, Zenon DEF IsLoop
  <2>4. \A i \in 0..n : s[i] = IF i = 0 THEN 0 ELSE CheckedAdd(s[i - 1], groups[i].rows)
    <3> SUFFICES ASSUME NEW i \in 1..n PROVE s[i] = CheckedAdd(s[i - 1], groups[i].rows)
      BY <1>1, <2>3
    <3>1. s[i - 1] \in V
      BY <1>1
    <3> QED
      BY <2>2, <2>3, <3>1
  <2>5. s = [i \in 0..n |-> s[i]]
    BY <2>3
  <2>6. s = [i \in 0..n |-> IF i = 0 THEN 0 ELSE CheckedAdd(s[i - 1], groups[i].rows)]
    BY <2>4, <2>5
  <2> QED
    BY <2>6
<1> DEFINE sum == CHOOSE s : Loop(s)
<1>4. Loop(sum)
  BY <1>3
<1>5. RowSum(groups) = sum[n]
  BY DEF RowSum
<1> HIDE DEF sum, n, V
<1>6. sum[0] = 0 /\ \A i \in 1..n : sum[i] = CheckedAdd(sum[i - 1], groups[i].rows)
  BY <1>1, <1>4
<1>7. sum \in [0..n -> V]
  BY <1>1, <1>2, <1>4
<1> QED
  BY <1>5, <1>6, <1>7 DEF n, V

\* The bounded sum is the sum, or None if it exceeds a word.
LEMMA RowSumIsTotal ==
    ASSUME NEW groups, Counted(groups)
    PROVE  /\ TotalRows(groups) \in Nat
           /\ RowSum(groups) = IF TotalRows(groups) <= MaxWord THEN TotalRows(groups) ELSE None
<1> DEFINE n == Len(groups)
<1>1. n \in Nat /\ \A i \in 1..n : groups[i].rows \in 0..MaxWord
  BY LenProperties DEF Counted
<1>2. PICK t \in [0..n -> Nat] :
        /\ t[0] = 0 /\ \A i \in 1..n : t[i] = t[i - 1] + groups[i].rows
        /\ TotalRows(groups) = t[n]
  BY TotalOfGroups
<1>3. PICK s \in [0..n -> Words \cup {None}] :
        /\ s[0] = 0 /\ \A i \in 1..n : s[i] = CheckedAdd(s[i - 1], groups[i].rows)
        /\ RowSum(groups) = s[n]
  BY SumOfGroups
<1> HIDE DEF n
<1> DEFINE T == {i \in 0..n : s[i] # IF t[i] <= MaxWord THEN t[i] ELSE None}
<1>4. T = {}
  <2> SUFFICES ASSUME T # {} PROVE FALSE
    OBVIOUS
  <2>1. PICK k \in T : \A j \in T : k <= j
    <3>1. T \subseteq Nat
      OBVIOUS
    <3> HIDE DEF T
    <3> QED
      BY <3>1, LeastElement
  <2>2. k \in 0..n /\ s[k] # IF t[k] <= MaxWord THEN t[k] ELSE None
    OBVIOUS
  <2>3. k # 0
    BY <1>2, <1>3, <2>2, WordAssumption
  <2>4. k \in 1..n /\ k - 1 \in 0..n /\ k - 1 \notin T
    BY <1>1, <2>1, <2>2, <2>3
  <2>5. s[k - 1] = IF t[k - 1] <= MaxWord THEN t[k - 1] ELSE None
    BY <2>4
  <2> DEFINE a == t[k - 1]
  <2> DEFINE b == groups[k].rows
  <2>6. a \in Nat /\ b \in 0..MaxWord /\ t[k] = a + b /\ s[k] = CheckedAdd(s[k - 1], b)
    BY <1>1, <1>2, <1>3, <2>4
  <2>7. s[k - 1] = IF a <= MaxWord THEN a ELSE None
    BY <2>5
  <2> HIDE DEF a, b, T
  <2>8. a \in Words => a # None
    BY NoneAssumption DEF Words
  <2>9. CASE a <= MaxWord
    <3>1. a # None
      BY <2>6, NoneAssumption
    <3>2. s[k] = IF a + b \in Words THEN a + b ELSE None
      BY <2>6, <2>7, <2>9, <3>1 DEF CheckedAdd
    <3>3. a + b \in Words <=> a + b <= MaxWord
      BY <2>6, WordAssumption DEF Words
    <3> QED
      BY <2>2, <2>6, <3>2, <3>3
  <2>10. CASE ~(a <= MaxWord)
    <3>1. s[k] = None
      BY <2>6, <2>7, <2>10 DEF CheckedAdd
    <3>2. ~(a + b <= MaxWord)
      BY <2>6, <2>10, WordAssumption
    <3> QED
      BY <2>2, <2>6, <3>1, <3>2
  <2> QED
    BY <2>9, <2>10
<1>5. n \in 0..n /\ t[n] \in Nat
  BY <1>1
<1> QED
  BY <1>2, <1>3, <1>4, <1>5

-----------------------------------------------------------------------------
(* Counts.                                                                 *)

\* When each of the rules on counts has nothing to say of a file alone.
LEMMA CountsSilent ==
    ASSUME NEW f, f.format = "Parquet"
    PROVE  /\ InvalidParquetStatistics(<<f>>) = {} <=>
                \A id \in Chunks(f) : LET c == Chunk(f, id) IN
                   c.num_values >= 0 /\ c.statistics # None =>
                      \A n \in Counts : ~(c.statistics[n] # None /\ c.statistics[n] > c.num_values)
           /\ InconsistentParquetRowCounts(<<f>>) = {} <=>
                ((\A g \in DOMAIN f.groups : f.groups[g].rows >= 0) => RowSum(f.groups) = f.rows)
           /\ NegativeFileRows(<<f>>) = {} <=> ~(f.rows < 0)
           /\ NegativeGroups(<<f>>) = {} <=>
                \A g \in DOMAIN f.groups : ~(f.groups[g].rows < 0 \/ f.groups[g].bytes < 0)
           /\ NegativeChunks(<<f>>) = {} <=>
                \A id \in Chunks(f) : LET c == Chunk(f, id) IN
                   ~(c.num_values < 0 \/ c.compressed < 0 \/ c.uncompressed < 0)
<1>1. ParquetFiles(<<f>>) = {f}
  BY Alone
<1>2. InvalidParquetStatistics(<<f>>) = {} <=>
        \A id \in Chunks(f) : LET c == Chunk(f, id) IN
           c.num_values >= 0 /\ c.statistics # None =>
              \A n \in Counts : ~(c.statistics[n] # None /\ c.statistics[n] > c.num_values)
  BY <1>1 DEF InvalidParquetStatistics, ChunkReports
<1>3. InconsistentParquetRowCounts(<<f>>) = {} <=>
        ((\A g \in DOMAIN f.groups : f.groups[g].rows >= 0) => RowSum(f.groups) = f.rows)
  BY <1>1 DEF InconsistentParquetRowCounts
<1>4. NegativeFileRows(<<f>>) = {} <=> ~(f.rows < 0)
  BY <1>1 DEF NegativeFileRows
<1>5. NegativeGroups(<<f>>) = {} <=>
        \A g \in DOMAIN f.groups : ~(f.groups[g].rows < 0 \/ f.groups[g].bytes < 0)
  <2> DEFINE Body(h) == {Report("AL015", h, <<g, <<>>>>) :
        g \in {i \in DOMAIN h.groups : h.groups[i].rows < 0 \/ h.groups[i].bytes < 0}}
  <2>1. \A E : NegativeGroups(E) = UNION {Body(h) : h \in ParquetFiles(E)}
    BY DEF NegativeGroups
  <2>2. Body(f) = {} <=>
          \A g \in DOMAIN f.groups : ~(f.groups[g].rows < 0 \/ f.groups[g].bytes < 0)
    OBVIOUS
  <2> HIDE DEF Body
  <2> QED
    BY <1>1, <2>1, <2>2
<1>6. NegativeChunks(<<f>>) = {} <=>
        \A id \in Chunks(f) : LET c == Chunk(f, id) IN
           ~(c.num_values < 0 \/ c.compressed < 0 \/ c.uncompressed < 0)
  BY <1>1 DEF NegativeChunks, ChunkReports
<1> QED
  BY <1>2, <1>3, <1>4, <1>5, <1>6

\* The rules on counts together find every inconsistent file, and no other.
LEMMA CountVerdict ==
    ASSUME NEW f, f.format = "Parquet", f.rows \in Words, f.groups \in Seq(Range(f.groups)),
           \A i \in DOMAIN f.groups : IsGroup(f.groups[i])
    PROVE  CountReports(<<f>>) = {} <=> CountsConsistent(f)
<1>1. CountReports(<<f>>) = {} <=>
        /\ InvalidParquetStatistics(<<f>>) = {} /\ InconsistentParquetRowCounts(<<f>>) = {}
        /\ NegativeFileRows(<<f>>) = {} /\ NegativeGroups(<<f>>) = {} /\ NegativeChunks(<<f>>) = {}
  BY DEF CountReports
<1>2. \A w \in Words : w \in Int /\ w <= MaxWord /\ w # None
  BY WordAssumption, NoneAssumption DEF Words
<1>3. NegativeFileRows(<<f>>) = {} <=> f.rows >= 0
  BY <1>2, CountsSilent
<1> DEFINE Rows  == \A g \in DOMAIN f.groups : f.groups[g].rows >= 0
<1> DEFINE Bytes == \A g \in DOMAIN f.groups : f.groups[g].bytes >= 0
<1>4. NegativeGroups(<<f>>) = {} <=> Rows /\ Bytes
  <2>1. \A g \in DOMAIN f.groups : f.groups[g].rows \in Int /\ f.groups[g].bytes \in Int
    BY <1>2 DEF IsGroup
  <2> QED
    BY <2>1, CountsSilent
<1>5. Rows => (InconsistentParquetRowCounts(<<f>>) = {} <=> f.rows = TotalRows(f.groups))
  <2> SUFFICES ASSUME Rows
               PROVE  RowSum(f.groups) = f.rows <=> f.rows = TotalRows(f.groups)
    BY CountsSilent
  <2>1. Counted(f.groups)
    <3>1. \A i \in DOMAIN f.groups : f.groups[i].rows \in 0..MaxWord
      BY <1>2, WordAssumption DEF IsGroup
    <3> QED
      BY <3>1 DEF Counted
  <2>2. /\ TotalRows(f.groups) \in Nat
        /\ RowSum(f.groups) = IF TotalRows(f.groups) <= MaxWord THEN TotalRows(f.groups) ELSE None
    BY <2>1, RowSumIsTotal
  <2> QED
    BY <1>2, <2>2
<1> DEFINE Good(c) == \A n \in {c.num_values, c.compressed, c.uncompressed} : n >= 0
<1> DEFINE Bounded(c) == c.statistics # None =>
        \A n \in Counts : c.statistics[n] # None => c.statistics[n] <= c.num_values
<1>6. ASSUME NEW id \in Chunks(f) PROVE IsChunk(Chunk(f, id))
  BY DEF Chunks, Chunk, IsGroup
<1>7. NegativeChunks(<<f>>) = {} <=> \A id \in Chunks(f) : Good(Chunk(f, id))
  <2>1. ASSUME NEW c, IsChunk(c)
        PROVE  Good(c) <=> ~(c.num_values < 0 \/ c.compressed < 0 \/ c.uncompressed < 0)
    BY <1>2, <2>1 DEF IsChunk
  <2> HIDE DEF Good
  <2> QED
    BY <1>6, <2>1, CountsSilent
<1>8. (\A id \in Chunks(f) : Good(Chunk(f, id))) =>
         (InvalidParquetStatistics(<<f>>) = {} <=> \A id \in Chunks(f) : Bounded(Chunk(f, id)))
  <2> DEFINE Exceeds(c) == c.num_values >= 0 /\ c.statistics # None =>
                 \A n \in Counts : ~(c.statistics[n] # None /\ c.statistics[n] > c.num_values)
  <2>1. ASSUME NEW c, IsChunk(c), Good(c) PROVE Bounded(c) <=> Exceeds(c)
    <3>1. c.num_values \in Int /\ c.num_values >= 0
      BY <1>2, <2>1 DEF IsChunk
    <3>2. c.statistics # None => \A n \in Counts : c.statistics[n] # None => c.statistics[n] \in Int
      BY <2>1 DEF IsChunk
    <3> QED
      BY <3>1, <3>2
  <2>2. InvalidParquetStatistics(<<f>>) = {} <=> \A id \in Chunks(f) : Exceeds(Chunk(f, id))
    BY CountsSilent
  <2> HIDE DEF Good, Bounded, Exceeds
  <2> QED
    BY <1>6, <2>1, <2>2
<1>9. CountsConsistent(f) <=>
        /\ f.rows >= 0 /\ Rows /\ Bytes /\ f.rows = TotalRows(f.groups)
        /\ \A id \in Chunks(f) : Good(Chunk(f, id)) /\ Bounded(Chunk(f, id))
  BY DEF CountsConsistent
<1> HIDE DEF Rows, Bytes, Good, Bounded
<1> QED
  BY <1>1, <1>3, <1>4, <1>5, <1>7, <1>8, <1>9

LEMMA CountsInDataset ==
    ASSUME NEW D, NEW f \in ParquetFiles(D)
    PROVE  /\ CountReports(<<f>>) \subseteq CountReports(D)
           /\ \A r \in CountReports(<<f>>) : r.path = f.path
<1>1. ParquetFiles(<<f>>) = {f}
  BY Alone DEF ParquetFiles
<1>2. InvalidParquetStatistics(<<f>>) \subseteq InvalidParquetStatistics(D)
  BY <1>1 DEF InvalidParquetStatistics, ChunkReports
<1>3. InconsistentParquetRowCounts(<<f>>) \subseteq InconsistentParquetRowCounts(D)
  BY <1>1 DEF InconsistentParquetRowCounts
<1>4. NegativeFileRows(<<f>>) \subseteq NegativeFileRows(D)
  BY <1>1 DEF NegativeFileRows
<1>5. NegativeGroups(<<f>>) \subseteq NegativeGroups(D)
  <2> DEFINE Body(h) == {Report("AL015", h, <<g, <<>>>>) :
        g \in {i \in DOMAIN h.groups : h.groups[i].rows < 0 \/ h.groups[i].bytes < 0}}
  <2>1. \A E : NegativeGroups(E) = UNION {Body(h) : h \in ParquetFiles(E)}
    BY DEF NegativeGroups
  <2> HIDE DEF Body
  <2> QED
    BY <1>1, <2>1
<1>6. NegativeChunks(<<f>>) \subseteq NegativeChunks(D)
  BY <1>1 DEF NegativeChunks, ChunkReports
<1>7. \A r \in CountReports(<<f>>) : \E g \in ParquetFiles(<<f>>) : r.path = g.path
  BY CountsOfFile
<1> QED
  BY <1>1, <1>2, <1>3, <1>4, <1>5, <1>6, <1>7 DEF CountReports

\* AL012, AL013 and AL015 are silent together exactly on the files whose counts are
\* consistent: for any footers, however many files a scan reads.
THEOREM CountsVerdictCorrect == Spec => []CountsVerdict
<1>1. ScanInv /\ TargetInv => CountsVerdict
  <2> SUFFICES ASSUME ScanInv, TargetInv, phase = "done", NEW f \in ParquetFiles(files)
               PROVE  RulesBroken(f.path) \cap {"AL012", "AL013", "AL015"} = {} <=> CountsConsistent(f)
    BY DEF CountsVerdict
  <2>1. \A g \in ParquetFiles(files) : g.path = f.path => g = f
    BY DEF TargetInv, OnceInv, ParquetFiles, Files
  <2>2. PICK content \in Contents \ {None} : f.rows = content.rows /\ f.groups = content.groups
    <3>1. FromHeld(f) /\ \A p \in DOMAIN disk : held[p] \subseteq Contents
      BY DEF ScanInv, FilesInv, HeldInv
    <3>2. PICK first \in Contents \ {None} : \E second : f = ParquetFile(f.path, first, second)
      BY <3>1 DEF FromHeld
    <3>3. f.rows = first.rows /\ f.groups = first.groups
      BY <3>2 DEF ParquetFile
    <3> QED
      BY <3>3
  <2>3. CountReports(<<f>>) = {} <=> CountsConsistent(f)
    <3>1. IsContent(content)
      BY ContentsAssumption
    <3>2. /\ f.rows \in Words /\ f.groups \in Seq(Range(f.groups))
          /\ \A i \in DOMAIN f.groups : IsGroup(f.groups[i])
      BY <2>2, <3>1 DEF IsContent, Range
    <3> QED
      BY <3>2, CountVerdict DEF ParquetFiles
  <2>4. {r \in diagnostics : r.rule \in CountRules} = CountReports(files)
    BY ByRule DEF ScanInv, ReportInv
  <2>5. \A r \in CountReports(files) : r.path = f.path => r \in CountReports(<<f>>)
    BY <2>1, CountsOfFile
  <2>6. \A r \in CountReports(<<f>>) : r \in CountReports(files) /\ r.path = f.path
    BY CountsInDataset
  <2>7. RulesBroken(f.path) \cap CountRules = {} <=> CountReports(<<f>>) = {}
    <3>1. ASSUME NEW r \in CountReports(<<f>>) PROVE RulesBroken(f.path) \cap CountRules # {}
      BY <2>4, <2>6, <3>1 DEF RulesBroken
    <3>2. ASSUME NEW rule \in RulesBroken(f.path) \cap CountRules PROVE CountReports(<<f>>) # {}
      BY <2>4, <2>5, <3>2 DEF RulesBroken
    <3> QED
      BY <3>1, <3>2
  <2> QED
    BY <2>3, <2>7 DEF CountRules
<1> QED
  BY <1>1, TargetsCorrect, PTL

-----------------------------------------------------------------------------
(* The beginnings of a path.                                               *)

Cut(p, i) == SubSeq(p, 1, i)

LEMMA CutIsPath ==
    ASSUME NEW p \in Paths, NEW i \in 0..Len(p)
    PROVE  Cut(p, i) \in Paths /\ Len(Cut(p, i)) = i /\ \A j \in 1..i : Cut(p, i)[j] = p[j]
<1> DEFINE n == Len(p)
<1>1. n \in Nat /\ \A j \in 1..n : p[j] \in Names
  BY DEF Paths
<1>2. i \in Int /\ i >= 0 /\ i <= n
  BY <1>1
<1>3. \A j \in 1..i : p[j] \in Names
  <2> HIDE DEF n
  <2> QED
    BY <1>1, <1>2
<1>4. /\ SubSeq(p, 1, i) \in Seq(Names)
      /\ Len(SubSeq(p, 1, i)) = IF 1 <= i THEN i - 1 + 1 ELSE 0
      /\ \A j \in 1..(i - 1 + 1) : SubSeq(p, 1, i)[j] = p[1 + j - 1]
  BY <1>2, <1>3, SubSeqProperties
<1> HIDE DEF n
<1>5. (IF 1 <= i THEN i - 1 + 1 ELSE 0) = i /\ i - 1 + 1 = i /\ \A j \in 1..i : 1 + j - 1 = j
  BY <1>2
<1> QED
  BY <1>4, <1>5 DEF Cut, Paths

LEMMA CutOfCut ==
    ASSUME NEW p \in Paths, NEW i \in 0..Len(p), NEW j \in 0..i
    PROVE  Cut(Cut(p, i), j) = Cut(p, j)
<1> DEFINE n == Len(p)
<1>1. n \in Nat
  BY DEF Paths
<1>2. j \in 0..n /\ i \in 0..n
  <2> HIDE DEF n
  <2> QED
    BY <1>1 DEF n
<1> DEFINE q == Cut(p, i)
<1>3. q \in Paths /\ Len(q) = i /\ \A k \in 1..i : q[k] = p[k]
  BY CutIsPath
<1> HIDE DEF q, n
<1>4. Cut(q, j) \in Paths /\ Len(Cut(q, j)) = j /\ \A k \in 1..j : Cut(q, j)[k] = q[k]
  BY <1>3, CutIsPath
<1>5. Cut(p, j) \in Paths /\ Len(Cut(p, j)) = j /\ \A k \in 1..j : Cut(p, j)[k] = p[k]
  BY <1>2, CutIsPath DEF n
<1>6. \A k \in 1..j : k \in 1..i
  BY <1>1, <1>2
<1>7. \A k \in 1..j : Cut(q, j)[k] = Cut(p, j)[k]
  BY <1>3, <1>4, <1>5, <1>6
<1>8. Cut(q, j) = Cut(p, j)
  BY <1>4, <1>5, <1>7, SeqEqual DEF Paths
<1> QED
  BY <1>8 DEF q

LEMMA CutEnds ==
    ASSUME NEW p \in Paths
    PROVE  Cut(p, Len(p)) = p /\ Cut(p, 0) = <<>> /\ Len(p) \in Nat
<1>1. Len(p) \in Nat /\ Len(p) \in 0..Len(p) /\ 0 \in 0..Len(p)
  BY DEF Paths
<1>2. Cut(p, Len(p)) = p
  BY <1>1, CutIsPath, SeqEqual DEF Paths
<1>3. Cut(p, 0) = <<>>
  BY <1>1, CutIsPath, EmptySeq DEF Paths
<1> QED
  BY <1>1, <1>2, <1>3

LEMMA CutStep ==
    ASSUME NEW p \in Paths, NEW i \in 1..Len(p)
    PROVE  /\ Front(Cut(p, i)) = Cut(p, i - 1) /\ Last(Cut(p, i)) = p[i]
           /\ Cut(p, i) = Append(Cut(p, i - 1), p[i]) /\ Cut(p, i) # <<>>
           /\ p[i] \in Names
<1>1. Len(p) \in Nat /\ i \in 0..Len(p) /\ i - 1 \in 0..Len(p) /\ i - 1 \in 0..i
  BY DEF Paths
<1>2. Cut(p, i) \in Paths /\ Len(Cut(p, i)) = i /\ \A j \in 1..i : Cut(p, i)[j] = p[j]
  BY <1>1, CutIsPath
<1>3. /\ Cut(p, i - 1) \in Paths /\ Len(Cut(p, i - 1)) = i - 1
      /\ \A j \in 1..(i - 1) : Cut(p, i - 1)[j] = p[j]
  BY <1>1, CutIsPath
<1>4. Front(Cut(p, i)) = Cut(p, i - 1)
  BY <1>1, <1>2, CutOfCut DEF Front, Cut
<1>5. p[i] \in Names /\ Last(Cut(p, i)) = p[i]
  BY <1>2, ElementOfSeq DEF Paths, Last
<1> DEFINE a == Append(Cut(p, i - 1), p[i])
<1>6. /\ a \in Seq(Names) /\ Len(a) = i - 1 + 1
      /\ \A j \in 1..(i - 1) : a[j] = Cut(p, i - 1)[j]
      /\ a[i - 1 + 1] = p[i] /\ a # <<>>
  BY <1>3, <1>5, AppendProperties DEF Paths
<1> HIDE DEF a
<1>7. i - 1 + 1 = i /\ \A j \in 1..i : j = i \/ j \in 1..(i - 1)
  BY <1>1
<1>8. a = Cut(p, i)
  BY <1>2, <1>3, <1>6, <1>7, SeqEqual DEF Paths
<1> QED
  BY <1>4, <1>5, <1>6, <1>8 DEF a

\* A path is a beginning of another one when it is a cut of it.
LEMMA PrefixIsCut ==
    ASSUME NEW p \in Paths, NEW q \in Paths
    PROVE  /\ IsPrefix(q, p) <=> Len(q) <= Len(p) /\ q = Cut(p, Len(q))
           /\ q \in Prefixes(p) <=> Len(q) <= Len(p) /\ q = Cut(p, Len(q))
<1>1. Len(p) \in Nat /\ Len(q) \in Nat
  BY DEF Paths
<1>2. IsPrefix(q, p) <=> Len(q) <= Len(p) /\ q = Cut(p, Len(q))
  BY CutEnds DEF IsPrefix, Cut
<1>3. ASSUME q \in Prefixes(p) PROVE Len(q) <= Len(p) /\ q = Cut(p, Len(q))
  <2>1. PICK l \in 0..Len(p) : q = Cut(p, l)
    BY <1>3 DEF Prefixes, Cut
  <2>2. Len(q) = l
    BY <2>1, CutIsPath
  <2> QED
    BY <1>1, <2>1, <2>2
<1>4. ASSUME Len(q) <= Len(p), q = Cut(p, Len(q)) PROVE q \in Prefixes(p)
  <2> DEFINE l == Len(q)
  <2>1. l \in 0..Len(p) /\ q = SubSeq(p, 1, l)
    BY <1>1, <1>4 DEF Cut
  <2> HIDE DEF l
  <2> QED
    BY <2>1 DEF Prefixes
<1> QED
  BY <1>2, <1>3, <1>4

LEMMA CutIsPrefix ==
    ASSUME NEW p \in Paths, NEW i \in 0..Len(p), NEW j \in 0..i
    PROVE  IsPrefix(Cut(p, j), Cut(p, i)) /\ Cut(p, j) \in Prefixes(Cut(p, i))
<1>1. Len(p) \in Nat /\ j \in 0..Len(p)
  BY DEF Paths
<1>2. Cut(p, i) \in Paths /\ Len(Cut(p, i)) = i /\ Cut(p, j) \in Paths /\ Len(Cut(p, j)) = j
  BY <1>1, CutIsPath
<1>3. Cut(p, j) = Cut(Cut(p, i), j)
  BY CutOfCut
<1> QED
  BY <1>2, <1>3, PrefixIsCut

-----------------------------------------------------------------------------
(* Where paths lead.                                                       *)

Reals == Paths \cup {Nowhere}

LEMMA EnterType ==
    ASSUME NEW t, IsTree(t), NEW r \in Reals, NEW n \in Names
    PROVE  Enter(t, r, n) \in Reals
<1>1. Append(r, n) \in DOMAIN t => Append(r, n) \in Paths
  BY DEF IsTree, Paths
<1>2. \A q \in DOMAIN t : q \in Paths
  BY DEF IsTree, Paths
<1> QED
  BY <1>1, <1>2 DEF Enter, Reals

\* The path is entered name by name.
Entering(t, p, f) ==
    /\ f \in [0..Len(p) -> Reals] /\ f[0] = <<>>
    /\ \A i \in 1..Len(p) : f[i] = Enter(t, f[i - 1], p[i])

LEMMA RealEnters ==
    ASSUME NEW t, IsTree(t), NEW p \in Paths
    PROVE  \E f : Entering(t, p, f) /\ Real(t, p) = f[Len(p)]
<1> DEFINE n == Len(p)
<1>1. n \in Nat /\ \A i \in 1..n : p[i] \in Names
  BY DEF Paths
<1>2. <<>> \in Reals
  BY DEF Reals, Paths
<1> DEFINE Loop(f) == f = [i \in 0..n |-> IF i = 0 THEN <<>> ELSE Enter(t, f[i - 1], p[i])]
<1>3. \E f : Loop(f)
  <2> DEFINE add == [i \in 1..n |-> [v \in Reals |-> Enter(t, v, p[i])]]
  <2> HIDE DEF n
  <2>1. add \in [1..n -> [Reals -> Reals]]
    BY <1>1, EnterType
  <2>2. \A v \in Reals, i \in 1..n : add[i][v] = Enter(t, v, p[i])
    OBVIOUS
  <2> HIDE DEF add
  <2>3. PICK f \in [0..n -> Reals] : f[0] = <<>> /\ \A i \in 1..n : f[i] = add[i][f[i - 1]]
    <3>1. PICK f : IsLoop(f, n, Reals, <<>>, add)
      BY <1>1, <1>2, <2>1, LoopExists
    <3> QED
      BY <3>1, Zenon DEF IsLoop
  <2>4. \A i \in 0..n : f[i] = IF i = 0 THEN <<>> ELSE Enter(t, f[i - 1], p[i])
    <3> SUFFICES ASSUME NEW i \in 1..n PROVE f[i] = Enter(t, f[i - 1], p[i])
      BY <1>1, <2>3
    <3>1. f[i - 1] \in Reals
      BY <1>1
    <3> QED
      BY <2>2, <2>3, <3>1
  <2>5. f = [i \in 0..n |-> f[i]]
    BY <2>3
  <2>6. f = [i \in 0..n |-> IF i = 0 THEN <<>> ELSE Enter(t, f[i - 1], p[i])]
    BY <2>4, <2>5
  <2> QED
    BY <2>6
<1> DEFINE real == CHOOSE f : Loop(f)
<1>4. Loop(real)
  BY <1>3
<1>5. Real(t, p) = real[n]
  BY DEF Real
<1> HIDE DEF real, n
<1>6. real[0] = <<>> /\ \A i \in 1..n : real[i] = Enter(t, real[i - 1], p[i])
  BY <1>1, <1>4
<1> DEFINE T == {i \in 0..n : real[i] \notin Reals}
<1>7. T = {}
  <2> SUFFICES ASSUME T # {} PROVE FALSE
    OBVIOUS
  <2>1. PICK k \in T : \A j \in T : k <= j
    <3>1. T \subseteq Nat
      OBVIOUS
    <3> HIDE DEF T
    <3> QED
      BY <3>1, LeastElement
  <2>2. k \in 1..n /\ k - 1 \in 0..n /\ k - 1 \notin T
    BY <1>1, <1>2, <1>6, <2>1
  <2> QED
    BY <1>1, <1>6, <2>2, EnterType
<1>8. real \in [0..n -> Reals]
  BY <1>4, <1>7
<1> QED
  BY <1>5, <1>6, <1>8 DEF n, Entering

LEMMA EnteringAgrees ==
    ASSUME NEW t, NEW p \in Paths, NEW n \in 0..Len(p), NEW f, NEW g,
           Entering(t, p, f), Entering(t, Cut(p, n), g)
    PROVE  f[n] = g[n]
<1> DEFINE m == Len(p)
<1> DEFINE q == Cut(p, n)
<1>0. q \in Paths /\ Len(q) = n /\ \A i \in 1..n : q[i] = p[i]
  BY CutIsPath
<1>1. m \in Nat /\ n \in Nat /\ n <= m
  BY DEF Paths
<1> HIDE DEF q
<1>2. f[0] = g[0]
  BY DEF Entering
<1>3. \A i \in 1..m : f[i] = Enter(t, f[i - 1], p[i])
  BY DEF Entering
<1>4. \A i \in 1..n : g[i] = Enter(t, g[i - 1], q[i])
  BY <1>0 DEF Entering, q
<1> DEFINE T == {i \in 0..n : f[i] # g[i]}
<1> HIDE DEF m
<1>6. T = {}
  <2> SUFFICES ASSUME T # {} PROVE FALSE
    OBVIOUS
  <2>1. PICK k \in T : \A j \in T : k <= j
    <3>1. T \subseteq Nat
      OBVIOUS
    <3> HIDE DEF T
    <3> QED
      BY <3>1, LeastElement
  <2>2. k \in 1..n /\ k \in 1..m /\ k - 1 \in 0..n /\ k - 1 \notin T
    BY <1>1, <1>2, <2>1
  <2> QED
    BY <1>0, <1>3, <1>4, <2>1, <2>2
<1>7. n \in 0..n
  BY <1>1
<1> QED
  BY <1>6, <1>7

LEMMA RealStep ==
    ASSUME NEW t, IsTree(t), NEW p \in Paths, NEW i \in 1..Len(p)
    PROVE  Real(t, Cut(p, i)) = Enter(t, Real(t, Cut(p, i - 1)), p[i])
<1>1. Len(p) \in Nat /\ i \in 0..Len(p) /\ i - 1 \in 0..Len(p) /\ i - 1 \in 0..i /\ i - 1 \in Nat
  BY DEF Paths
<1> DEFINE q == Cut(p, i)
<1> DEFINE r == Cut(p, i - 1)
<1>2. q \in Paths /\ Len(q) = i /\ r \in Paths /\ Len(r) = i - 1 /\ q[i] = p[i]
  BY <1>1, CutIsPath
<1>3. r = Cut(q, i - 1)
  BY <1>1, CutOfCut
<1> HIDE DEF q, r
<1>4. PICK f : Entering(t, q, f) /\ Real(t, q) = f[i]
  BY <1>2, RealEnters
<1>5. PICK g : Entering(t, r, g) /\ Real(t, r) = g[i - 1]
  BY <1>2, RealEnters
<1>6. f[i - 1] = g[i - 1]
  <2>1. i - 1 \in 0..Len(q)
    BY <1>1, <1>2
  <2>2. Entering(t, q, f) /\ Entering(t, Cut(q, i - 1), g)
    BY <1>3, <1>4, <1>5
  <2> QED
    BY <1>2, <2>1, <2>2, EnteringAgrees
<1>7. f[i] = Enter(t, f[i - 1], q[i])
  BY <1>1, <1>2, <1>4 DEF Entering
<1> QED
  BY <1>2, <1>4, <1>5, <1>6, <1>7 DEF q, r

LEMMA RealStart ==
    ASSUME NEW t, IsTree(t)
    PROVE  Real(t, <<>>) = <<>>
<1>1. <<>> \in Paths /\ Len(<<>>) = 0
  BY DEF Paths
<1> QED
  BY <1>1, RealEnters DEF Entering

LEMMA EnterNode ==
    ASSUME NEW t, IsTree(t), NEW r \in Reals, NEW n \in Names, Enter(t, r, n) # Nowhere
    PROVE  /\ r # Nowhere /\ Append(r, n) \in DOMAIN t
           /\ Enter(t, r, n) \in DOMAIN t /\ t[Enter(t, r, n)].type \in {"file", "dir"}
           /\ t[Append(r, n)].type # "link" => Enter(t, r, n) = Append(r, n)
<1>1. r # Nowhere /\ Append(r, n) \in DOMAIN t
  BY DEF Enter
<1> DEFINE a == Append(r, n)
<1> HIDE DEF a
<1>2. /\ t[a].type \in {"file", "dir", "link"}
      /\ t[a].type = "link" /\ t[a].to \in DOMAIN t => t[t[a].to].type # "link"
  BY <1>1 DEF IsTree, a
<1>3. Enter(t, r, n) = IF t[a].type # "link" THEN a
                       ELSE IF t[a].to \in DOMAIN t THEN t[a].to ELSE Nowhere
  BY <1>1 DEF Enter, a
<1>4. CASE t[a].type # "link"
  BY <1>1, <1>2, <1>3, <1>4 DEF a
<1>5. CASE t[a].type = "link"
  <2>1. t[a].to \in DOMAIN t /\ Enter(t, r, n) = t[a].to
    BY <1>3, <1>5
  <2>2. t[t[a].to].type \in {"file", "dir", "link"}
    BY <2>1 DEF IsTree
  <2> QED
    BY <1>1, <1>2, <1>5, <2>1, <2>2 DEF a
<1> QED
  BY <1>4, <1>5

LEMMA InDirectory ==
    ASSUME NEW t, IsTree(t), NEW r \in Paths, NEW n \in Names,
           Append(r, n) \in DOMAIN t, r # <<>>
    PROVE  r \in DOMAIN t /\ t[r].type = "dir"
<1> DEFINE a == Append(r, n)
<1>1. a \in Paths /\ Len(a) = Len(r) + 1 /\ \A i \in 1..Len(r) : a[i] = r[i]
  BY AppendProperties DEF Paths
<1>2. Len(r) \in Nat /\ Len(r) # 0
  BY EmptySeq DEF Paths
<1> HIDE DEF a
<1>3. Len(a) > 1 /\ Len(a) - 1 = Len(r) /\ Len(r) \in 0..Len(a)
  BY <1>1, <1>2
<1>4. /\ Cut(a, Len(r)) \in Paths /\ Len(Cut(a, Len(r))) = Len(r)
      /\ \A i \in 1..Len(r) : Cut(a, Len(r))[i] = a[i]
  BY <1>1, <1>3, CutIsPath
<1>5. Cut(a, Len(r)) = r
  BY <1>1, <1>4, SeqEqual DEF Paths
<1>6. Front(a) = r
  BY <1>3, <1>5 DEF Front, Cut
<1>7. a \in DOMAIN t
  BY DEF a
<1> QED
  BY <1>3, <1>6, <1>7 DEF IsTree

LEMMA RealType ==
    ASSUME NEW t, IsTree(t), NEW p \in Paths
    PROVE  Real(t, p) \in Reals
<1>1. PICK f : Entering(t, p, f) /\ Real(t, p) = f[Len(p)]
  BY RealEnters
<1> QED
  BY <1>1, CutEnds DEF Entering

\* Every beginning of a path that exists does, too.
LEMMA CutsExist ==
    ASSUME NEW t, IsTree(t), NEW p \in Paths, Exists(t, p)
    PROVE  \A i \in 0..Len(p) : Exists(t, Cut(p, i))
<1> DEFINE n == Len(p)
<1>1. n \in Nat /\ Exists(t, Cut(p, n))
  BY CutEnds
<1>2. \A i \in 1..n : Real(t, Cut(p, i)) = Enter(t, Real(t, Cut(p, i - 1)), p[i])
  BY RealStep
<1> HIDE DEF n
<1>3. ASSUME NEW i \in 1..n, Exists(t, Cut(p, i)) PROVE Exists(t, Cut(p, i - 1))
  BY <1>2, <1>3 DEF Exists, Enter
<1> DEFINE T == {g \in 0..n : ~Exists(t, Cut(p, n - g))}
<1>4. T = {}
  <2> SUFFICES ASSUME T # {} PROVE FALSE
    OBVIOUS
  <2>1. PICK k \in T : \A j \in T : k <= j
    <3>1. T \subseteq Nat
      OBVIOUS
    <3> HIDE DEF T
    <3> QED
      BY <3>1, LeastElement
  <2>2. k \in 0..n /\ ~Exists(t, Cut(p, n - k))
    OBVIOUS
  <2>3. k # 0
    BY <1>1, <2>2
  <2>4. k - 1 \in 0..n /\ k - 1 \notin T
    BY <1>1, <2>1, <2>2, <2>3
  <2> DEFINE i == n - (k - 1)
  <2>5. i \in 1..n /\ i - 1 = n - k /\ Exists(t, Cut(p, i))
    BY <1>1, <2>2, <2>3, <2>4
  <2> HIDE DEF T, i
  <2>6. Exists(t, Cut(p, i - 1))
    BY <1>3, <2>5
  <2> QED
    BY <2>2, <2>5, <2>6
<1>5. ASSUME NEW i \in 0..n PROVE Exists(t, Cut(p, i))
  <2> DEFINE g == n - i
  <2>1. g \in 0..n /\ n - g = i
    BY <1>1
  <2> HIDE DEF g
  <2> QED
    BY <1>4, <2>1
<1> QED
  BY <1>5 DEF n

\* On the way along a path that exists.
LEMMA AlongPath ==
    ASSUME NEW t, IsTree(t), NEW p \in Paths, Exists(t, p), NEW i \in 1..Len(p)
    PROVE  LET q == Cut(p, i) IN
           /\ Exists(t, q) /\ HasEntry(t, q)
           /\ Real(t, q) \in DOMAIN t /\ t[Real(t, q)].type \in {"file", "dir"}
           /\ Entry(t, q).type # "link" => Entry(t, q).type = t[Real(t, q)].type
           /\ i < Len(p) => IsDir(t, q)
<1> DEFINE q == Cut(p, i)
<1> DEFINE r == Cut(p, i - 1)
<1>1. Len(p) \in Nat /\ i \in 0..Len(p) /\ i - 1 \in 0..Len(p)
  BY DEF Paths
<1>2. Exists(t, q) /\ Exists(t, r)
  BY <1>1, CutsExist
<1>3. q \in Paths /\ r \in Paths /\ Front(q) = r /\ Last(q) = p[i] /\ p[i] \in Names
  BY <1>1, CutIsPath, CutStep
<1>4. Real(t, q) = Enter(t, Real(t, r), p[i])
  BY RealStep
<1> HIDE DEF q, r
<1>5. Real(t, r) \in Reals
  BY <1>3, RealType
<1>6. /\ Append(Real(t, r), p[i]) \in DOMAIN t
      /\ Real(t, q) \in DOMAIN t /\ t[Real(t, q)].type \in {"file", "dir"}
      /\ t[Append(Real(t, r), p[i])].type # "link" => Real(t, q) = Append(Real(t, r), p[i])
  BY <1>2, <1>3, <1>4, <1>5, EnterNode DEF Exists
<1>7. HasEntry(t, q) /\ Entry(t, q) = t[Append(Real(t, r), p[i])]
  BY <1>2, <1>3, <1>6 DEF HasEntry, Entry
<1>8. ASSUME i < Len(p) PROVE IsDir(t, q)
  <2> DEFINE s == Cut(p, i + 1)
  <2>1. i + 1 \in 1..Len(p) /\ i + 1 \in 0..Len(p) /\ i + 1 - 1 = i
    BY <1>1, <1>8
  <2>2. Exists(t, s)
    BY <2>1, CutsExist
  <2>3. Real(t, s) = Enter(t, Real(t, Cut(p, i + 1 - 1)), p[i + 1]) /\ p[i + 1] \in Names
    BY <2>1, RealStep, CutStep
  <2>4. Real(t, s) = Enter(t, Real(t, q), p[i + 1])
    BY <2>1, <2>3 DEF q
  <2>5. Real(t, q) \in Reals /\ Real(t, q) # Nowhere
    BY <1>2, <1>3, RealType DEF Exists
  <2>6. Append(Real(t, q), p[i + 1]) \in DOMAIN t
    BY <2>2, <2>3, <2>4, <2>5, EnterNode DEF Exists
  <2>7. Real(t, q) # <<>>
    BY <1>6 DEF IsTree
  <2>8. Real(t, q) \in Paths
    BY <2>5 DEF Reals
  <2>9. t[Real(t, q)].type = "dir"
    BY <2>3, <2>6, <2>7, <2>8, InDirectory
  <2> QED
    BY <1>2, <2>9 DEF IsDir
<1> QED
  BY <1>2, <1>6, <1>7, <1>8 DEF q

-----------------------------------------------------------------------------
(* What a walk reaches.                                                    *)

LEMMA BelowIsCut ==
    ASSUME NEW root \in Paths, NEW p \in Below(root)
    PROVE  /\ p \in Paths /\ Len(root) \in 0..(Len(p) - 1) /\ root = Cut(p, Len(root))
           /\ \A i \in (Len(root) + 1)..Len(p) : Cut(p, i) \in Below(root)
<1>1. PICK s \in SeqOf(Names, MaxDepth) \ {<<>>} : p = root \o s
  BY DEF Below
<1>2. PICK d \in 0..MaxDepth : s \in [1..d -> Names]
  BY <1>1 DEF SeqOf
<1>3. d \in Nat /\ d <= MaxDepth /\ MaxDepth \in Nat
  BY DepthAssumption
<1>4. s \in Paths /\ Len(s) = d
  BY <1>2, <1>3 DEF Paths
<1>5. d # 0
  BY <1>1, <1>4, EmptySeq DEF Paths
<1> DEFINE m == Len(root)
<1>6. m \in Nat
  BY DEF Paths
<1>7. /\ p \in Seq(Names) /\ Len(p) = m + d
      /\ \A i \in 1..(m + d) : p[i] = IF i <= m THEN root[i] ELSE s[i - m]
  BY <1>1, <1>4, ConcatProperties DEF Paths
<1> HIDE DEF m
<1>8. p \in Paths /\ m \in 0..(Len(p) - 1) /\ m \in 0..Len(p)
  BY <1>3, <1>5, <1>6, <1>7 DEF Paths
<1>9. root = Cut(p, m)
  <2>1. Cut(p, m) \in Paths /\ Len(Cut(p, m)) = m /\ \A i \in 1..m : Cut(p, m)[i] = p[i]
    BY <1>8, CutIsPath
  <2>2. \A i \in 1..m : Cut(p, m)[i] = root[i]
    BY <1>3, <1>6, <1>7, <2>1
  <2> QED
    BY <2>1, <2>2, SeqEqual DEF Paths, m
<1>10. ASSUME NEW i \in (m + 1)..Len(p) PROVE Cut(p, i) \in Below(root)
  <2> DEFINE k == i - m
  <2>1. k \in 1..d /\ k \in 0..d /\ i \in 0..Len(p) /\ m + k = i /\ k \in 0..MaxDepth
    BY <1>3, <1>6, <1>7
  <2> DEFINE c == Cut(s, k)
  <2>2. c \in Paths /\ Len(c) = k /\ \A j \in 1..k : c[j] = s[j]
    BY <1>4, <2>1, CutIsPath
  <2> HIDE DEF k, c
  <2>3. c # <<>> /\ c \in [1..k -> Names]
    BY <2>1, <2>2, ElementOfSeq, LenProperties DEF Paths
  <2>4. c \in SeqOf(Names, MaxDepth)
    BY <2>1, <2>3 DEF SeqOf
  <2>5. /\ root \o c \in Seq(Names) /\ Len(root \o c) = m + k
        /\ \A j \in 1..(m + k) : (root \o c)[j] = IF j <= m THEN root[j] ELSE c[j - m]
    BY <2>2, ConcatProperties DEF Paths, m
  <2>6. /\ Cut(p, i) \in Paths /\ Len(Cut(p, i)) = i /\ \A j \in 1..i : Cut(p, i)[j] = p[j]
    BY <1>8, <2>1, CutIsPath
  <2>7. ASSUME NEW j \in 1..i PROVE Cut(p, i)[j] = (root \o c)[j]
    <3>1. j \in 1..(m + d) /\ j \in 1..(m + k) /\ (~(j <= m) => j - m \in 1..k)
      BY <1>3, <1>6, <2>1
    <3> QED
      BY <1>7, <2>2, <2>5, <2>6, <3>1
  <2>8. Cut(p, i) = root \o c
    BY <2>1, <2>5, <2>6, <2>7, SeqEqual DEF Paths
  <2> QED
    BY <2>3, <2>4, <2>8 DEF Below
<1> QED
  BY <1>8, <1>9, <1>10 DEF m

LEMMA WalkedTo ==
    ASSUME NEW t, NEW root \in Paths, NEW follow, NEW p \in Below(root),
           NEW i \in (Len(root) + 1)..Len(p), HasEntry(t, Cut(p, i)),
           \A l \in (Len(root) + 1)..(i - 1) : Descends(t, root, Cut(p, l), follow)
    PROVE  Cut(p, i) \in Walked(t, root, follow)
<1> DEFINE m == Len(root)
<1> DEFINE q == Cut(p, i)
<1>1. /\ p \in Paths /\ m \in 0..(Len(p) - 1) /\ root = Cut(p, m) /\ q \in Below(root)
  BY BelowIsCut
<1>2. Len(p) \in Nat /\ m \in Nat /\ i \in 0..Len(p)
  BY <1>1 DEF Paths
<1>3. q \in Paths /\ Len(q) = i
  BY <1>1, <1>2, CutIsPath
<1>4. ASSUME NEW c \in Prefixes(q) \ {q}, IsPrefix(root, c) PROVE Descends(t, root, c, follow)
  <2>1. PICK l \in 0..i : c = Cut(q, l)
    BY <1>3 DEF Prefixes, Cut
  <2>2. c = Cut(p, l) /\ c \in Paths /\ Len(c) = l
    BY <1>1, <1>2, <1>3, <2>1, CutOfCut, CutIsPath
  <2>3. l # i
    BY <1>3, <1>4, <2>1, CutEnds
  <2>4. m <= l
    BY <1>4, <2>2, PrefixIsCut
  <2>5. CASE l = m
    BY <1>1, <2>2, <2>5 DEF Descends
  <2>6. CASE l # m
    <3>1. l \in (m + 1)..(i - 1)
      BY <1>2, <2>3, <2>4, <2>6
    <3> QED
      BY <2>2, <3>1
  <2> QED
    BY <2>5, <2>6
<1> QED
  BY <1>1, <1>4 DEF Walked

\* A walk that does not fail gets to everything that no link, unless it is followed, and
\* no Lance dataset on the way keeps from it.
LEMMA WalkReaches ==
    ASSUME NEW t, IsTree(t), NEW root \in Paths, NEW follow, ~WalkFails(t, root, follow),
           NEW p \in Below(root), Exists(t, p),
           \A i \in (Len(root) + 1)..(Len(p) - 1) :
              /\ follow \/ Entry(t, Cut(p, i)).type # "link"
              /\ ~IsLanceDatasetRoot(Cut(p, i))
    PROVE  p \in Walked(t, root, follow)
<1> DEFINE m == Len(root)
<1> DEFINE n == Len(p)
<1>1. p \in Paths /\ m \in 0..(n - 1) /\ root = Cut(p, m)
  BY BelowIsCut
<1>2. n \in Nat /\ m \in Nat /\ Cut(p, n) = p
  BY <1>1, CutEnds DEF Paths
<1> HIDE DEF m, n
<1>3. ASSUME NEW i \in (m + 1)..n PROVE HasEntry(t, Cut(p, i))
  <2>1. i \in 1..n
    BY <1>2
  <2> QED
    BY <1>1, <2>1, AlongPath DEF n
<1>4. ASSUME NEW i \in (m + 1)..(n - 1) PROVE EntryIs(t, Cut(p, i), "dir", follow)
  <2> DEFINE q == Cut(p, i)
  <2>1. i \in 1..n /\ i < n
    BY <1>2
  <2>2. /\ Exists(t, q) /\ IsDir(t, q)
        /\ Entry(t, q).type # "link" => Entry(t, q).type = t[Real(t, q)].type
    BY <1>1, <2>1, AlongPath DEF n
  <2>3. follow \/ Entry(t, q).type # "link"
    BY DEF m, n
  <2> HIDE DEF q
  <2> QED
    BY <2>2, <2>3 DEF EntryIs, IsDir, q
<1> DEFINE T == {i \in (m + 1)..(n - 1) : ~Descends(t, root, Cut(p, i), follow)}
<1>5. T = {}
  <2> SUFFICES ASSUME T # {} PROVE FALSE
    OBVIOUS
  <2>1. PICK k \in T : \A j \in T : k <= j
    <3>1. T \subseteq Nat
      BY <1>2
    <3> HIDE DEF T
    <3> QED
      BY <3>1, LeastElement
  <2>2. k \in (m + 1)..(n - 1) /\ ~Descends(t, root, Cut(p, k), follow)
    OBVIOUS
  <2>3. \A l \in (m + 1)..(k - 1) : Descends(t, root, Cut(p, l), follow)
    <3> SUFFICES ASSUME NEW l \in (m + 1)..(k - 1), l \in T PROVE FALSE
      BY <1>2, <2>2
    <3> HIDE DEF T
    <3> QED
      BY <1>2, <2>1, <2>2
  <2> HIDE DEF T
  <2>4. k \in (m + 1)..n
    BY <1>2, <2>2
  <2>5. Cut(p, k) \in Walked(t, root, follow)
    BY <1>3, <2>3, <2>4, WalkedTo DEF m, n
  <2>6. EntryIs(t, Cut(p, k), "dir", follow) /\ ~IsLanceDatasetRoot(Cut(p, k))
    BY <1>4, <2>2 DEF m, n
  <2>7. Loops(t, root, Cut(p, k), follow)
    BY <2>2, <2>6 DEF Descends
  <2> QED
    BY <2>5, <2>7 DEF WalkFails
<1>6. n \in (m + 1)..n /\ \A l \in (m + 1)..(n - 1) : Descends(t, root, Cut(p, l), follow)
  BY <1>1, <1>2, <1>5
<1>7. Cut(p, n) \in Walked(t, root, follow)
  BY <1>3, <1>6, WalkedTo DEF m, n
<1> QED
  BY <1>2, <1>7

-----------------------------------------------------------------------------
(* Every file asked for is covered, and by one target.                     *)

Covers(c, p) == c = p \/ (IsLanceDatasetRoot(c) /\ IsPrefix(c, p))

LEMMA AncestorIsCut ==
    ASSUME NEW p \in Paths, NEW r \in LanceAncestors(p)
    PROVE  /\ Len(r) \in 1..Len(p) /\ r = Cut(p, Len(r)) /\ IsLanceDatasetRoot(r)
           /\ r \in Paths /\ IsPrefix(r, p)
<1>1. r \in Prefixes(p) /\ IsLanceDatasetRoot(r)
  BY DEF LanceAncestors
<1>2. r \in Paths
  BY <1>1, PrefixOfPath
<1>3. Len(r) <= Len(p) /\ r = Cut(p, Len(r)) /\ IsPrefix(r, p)
  BY <1>1, <1>2, PrefixIsCut
<1>4. Len(r) \in Nat /\ Len(r) # 0 /\ Len(p) \in Nat
  BY <1>1, <1>2, EmptySeq DEF Paths, IsLanceDatasetRoot
<1> QED
  BY <1>1, <1>2, <1>3, <1>4

LEMMA AncestorOfCut ==
    ASSUME NEW p \in Paths, NEW i \in 0..Len(p), NEW r \in Paths
    PROVE  r \in LanceAncestors(Cut(p, i)) <=> r \in LanceAncestors(p) /\ Len(r) <= i
<1> DEFINE q == Cut(p, i)
<1>1. q \in Paths /\ Len(q) = i /\ \A j \in 0..i : Cut(q, j) = Cut(p, j)
  BY CutIsPath, CutOfCut
<1>2. Len(r) \in Nat /\ i \in Nat /\ Len(p) \in Nat /\ i <= Len(p)
  BY DEF Paths
<1> HIDE DEF q
<1>3. r \in Prefixes(q) <=> Len(r) <= i /\ r = Cut(q, Len(r))
  BY <1>1, PrefixIsCut
<1>4. r \in Prefixes(p) <=> Len(r) <= Len(p) /\ r = Cut(p, Len(r))
  BY PrefixIsCut
<1>5. Len(r) <= i => Cut(q, Len(r)) = Cut(p, Len(r)) /\ Len(r) <= Len(p)
  BY <1>1, <1>2
<1> QED
  BY <1>3, <1>4, <1>5 DEF LanceAncestors, q

\* Nothing that begins like a URL is a path that exists.
LEMMA LocalPath ==
    ASSUME NEW t, IsTree(t), NEW p \in Inputs, Exists(t, p)
    PROVE  p[1] \notin Remote
<1>1. p \in Paths /\ Len(p) \in Nat /\ Len(p) # 0
  BY EmptySeq DEF Inputs, Paths
<1>2. 1 \in 1..Len(p) /\ 1 \in 0..Len(p)
  BY <1>1
<1> DEFINE q == Cut(p, 1)
<1>3. HasEntry(t, q)
  BY <1>1, <1>2, AlongPath
<1>4. Front(q) = Cut(p, 1 - 1) /\ Last(q) = p[1] /\ q = Append(Cut(p, 1 - 1), p[1]) /\ q # <<>>
  BY <1>1, <1>2, CutStep
<1>5. Cut(p, 1 - 1) = <<>>
  BY <1>1, CutEnds
<1>6. q[1] = p[1]
  BY <1>1, <1>2, CutIsPath
<1> HIDE DEF q
<1>7. q \in DOMAIN t
  BY <1>3, <1>4, <1>5, RealStart DEF HasEntry
<1>8. ~IsRemoteUrl(q)
  BY <1>7 DEF IsTree
<1> QED
  BY <1>4, <1>6, <1>8 DEF IsRemoteUrl

LEMMA RequestedPath ==
    ASSUME IsTree(tree), NEW input \in Inputs, NEW p \in Requested(input)
    PROVE  /\ p \in Inputs /\ IsFile(tree, p) /\ Exists(tree, p)
           /\ p # input => p \in Below(input)
           /\ Len(input) \in 1..Len(p) /\ input = Cut(p, Len(input))
           /\ \A i \in (Len(input) + 1)..Len(p) :
                 Entry(tree, Cut(p, i)).type # "link" \/ (args.follow /\ args.recursive)
<1>1. /\ p \in {input} \cup Below(input) /\ IsFile(tree, p)
      /\ p # input => /\ args.recursive \/ Len(p) = Len(input) + 1
                      /\ \A q \in Prefixes(p) : IsStrictPrefix(input, q) =>
                            Entry(tree, q).type # "link" \/ (args.follow /\ args.recursive)
  BY DEF Requested
<1>2. input \in Paths /\ Len(input) \in Nat \ {0}
  BY EmptySeq DEF Inputs, Paths
<1>3. p \in Inputs /\ p \in Paths /\ Len(p) \in Nat
  BY <1>1, <1>2, BelowPath DEF Inputs, Paths
<1>4. Len(input) \in 1..Len(p) /\ input = Cut(p, Len(input))
  <2>1. CASE p = input
    BY <1>2, <2>1, CutEnds
  <2>2. CASE p # input
    <3>1. Len(input) \in 0..(Len(p) - 1) /\ input = Cut(p, Len(input))
      BY <1>1, <1>2, <2>2, BelowIsCut
    <3> QED
      BY <1>2, <1>3, <3>1
  <2> QED
    BY <2>1, <2>2
<1>5. ASSUME NEW i \in (Len(input) + 1)..Len(p)
      PROVE  Entry(tree, Cut(p, i)).type # "link" \/ (args.follow /\ args.recursive)
  <2>1. i \in 0..Len(p) /\ Len(input) \in 0..i /\ i # Len(input) /\ Len(p) \in 0..Len(p)
    BY <1>2, <1>3, <1>4
  <2>2. /\ IsPrefix(input, Cut(p, i)) /\ Cut(p, i) \in Prefixes(Cut(p, Len(p)))
        /\ Len(Cut(p, i)) = i
    BY <1>3, <1>4, <2>1, CutIsPrefix, CutIsPath
  <2>3. Cut(p, i) \in Prefixes(p) /\ IsStrictPrefix(input, Cut(p, i))
    BY <1>3, <2>1, <2>2, CutEnds DEF IsStrictPrefix
  <2>4. p # input
    BY <1>2, <1>3
  <2> QED
    BY <1>1, <2>3, <2>4
<1> QED
  BY <1>1, <1>3, <1>4, <1>5 DEF IsFile

\* The type of the last entry.
LEMMA EntryOfFile ==
    ASSUME NEW t, IsTree(t), NEW p \in Inputs, IsFile(t, p), NEW follow,
           follow \/ Entry(t, p).type # "link"
    PROVE  EntryIs(t, p, "file", follow) /\ HasEntry(t, p)
<1>1. p \in Paths /\ Len(p) \in Nat /\ Len(p) # 0 /\ Cut(p, Len(p)) = p
  BY EmptySeq, CutEnds DEF Inputs, Paths
<1>2. Len(p) \in 1..Len(p)
  BY <1>1
<1>3. /\ HasEntry(t, p)
      /\ Entry(t, p).type # "link" => Entry(t, p).type = t[Real(t, p)].type
  BY <1>1, <1>2, AlongPath DEF IsFile
<1> QED
  BY <1>3 DEF EntryIs, IsFile

LEMMA Covered ==
    ASSUME IsTree(tree), NEW input \in Inputs, NEW p \in Requested(input), ~Nested(p),
           ~InputFails(tree, input, args.recursive, args.follow)
    PROVE  \E c \in Expanded(tree, input, args.recursive, args.follow) : Covers(c, p)
<1> DEFINE m == Len(input)
<1> DEFINE n == Len(p)
<1>1. /\ p \in Inputs /\ IsFile(tree, p) /\ Exists(tree, p)
      /\ p # input => p \in Below(input)
      /\ m \in 1..n /\ input = Cut(p, m)
      /\ \A i \in (m + 1)..n :
            Entry(tree, Cut(p, i)).type # "link" \/ (args.follow /\ args.recursive)
  BY RequestedPath
<1>2. p \in Paths /\ input \in Paths /\ n \in Nat /\ m \in Nat
  BY <1>1 DEF Inputs, Paths
<1>3. ~IsRemoteUrl(input)
  <2>1. p[1] \notin Remote
    BY <1>1, LocalPath
  <2>2. m \in 0..n /\ 1 \in 1..m
    BY <1>1, <1>2
  <2>3. input[1] = p[1]
    BY <1>1, <1>2, <2>2, CutIsPath
  <2> QED
    BY <2>1, <2>3 DEF IsRemoteUrl
<1>4. m \in 0..n
  BY <1>1, <1>2
<1>5. CASE InDataset(tree, input)
  <2> DEFINE r == LanceDatasetRoot(input)
  <2>1. r \in LanceAncestors(input)
    BY <1>2, <1>5, RootOfDataset DEF InDataset
  <2>2. r \in Paths
    BY <1>2, <2>1, AncestorIsCut
  <2>3. r \in LanceAncestors(p)
    BY <1>1, <1>2, <1>4, <2>1, <2>2, AncestorOfCut
  <2>4. Covers(r, p)
    BY <1>2, <2>3, AncestorIsCut DEF Covers
  <2>5. Expanded(tree, input, args.recursive, args.follow) = {r}
    BY <1>3, <1>5 DEF Expanded
  <2> QED
    BY <2>4, <2>5
<1>6. CASE ~InDataset(tree, input)
  <2>1. Exists(tree, input)
    BY <1>3, <1>6 DEF InputFails
  <2>2. LanceAncestors(input) = {}
    BY <1>6, <2>1 DEF InDataset
  <2>3. ASSUME p # input PROVE IsDir(tree, input) /\ ~IsFile(tree, input) /\ m < n
    <3>1. m \in 0..(n - 1)
      BY <1>2, <2>3, <1>1, BelowIsCut
    <3>2. m \in 1..n /\ m < n
      BY <1>1, <1>2, <3>1
    <3>3. IsDir(tree, input)
      BY <1>1, <1>2, <3>2, AlongPath
    <3> QED
      BY <3>2, <3>3 DEF IsDir, IsFile
  <2>4. CASE p = input
    <3>1. Expanded(tree, input, args.recursive, args.follow) = {input}
      BY <1>1, <1>3, <1>6, <2>4 DEF Expanded
    <3> QED
      BY <2>4, <3>1 DEF Covers
  <2>5. CASE p # input /\ args.recursive
    <3> DEFINE W == Walked(tree, input, args.follow)
    <3>1. Expanded(tree, input, args.recursive, args.follow) = Targets(tree, W, args.follow)
      BY <1>3, <1>6, <2>3, <2>5 DEF Expanded
    <3>2. ~WalkFails(tree, input, args.follow)
      BY <1>3, <1>6, <2>3, <2>5 DEF InputFails
    <3>3. ASSUME NEW k \in (m + 1)..n, \A i \in (m + 1)..(k - 1) : ~IsLanceDatasetRoot(Cut(p, i))
          PROVE  Cut(p, k) \in W
      <4> DEFINE q == Cut(p, k)
      <4>1. k \in 0..n /\ k \in Nat /\ k <= n
        BY <1>2, <3>3
      <4>2. q \in Paths /\ Len(q) = k /\ q \in Below(input) /\ Exists(tree, q)
        BY <1>1, <1>2, <2>5, <3>3, <4>1, CutIsPath, BelowIsCut, CutsExist
      <4>3. ASSUME NEW i \in (m + 1)..(k - 1)
            PROVE  /\ args.follow \/ Entry(tree, Cut(q, i)).type # "link"
                   /\ ~IsLanceDatasetRoot(Cut(q, i))
        <5>1. i \in (m + 1)..n /\ i \in 0..k
          BY <1>2, <4>1, <4>3
        <5>2. Cut(q, i) = Cut(p, i)
          BY <1>2, <4>1, <5>1, CutOfCut
        <5> QED
          BY <1>1, <3>3, <4>3, <5>1, <5>2
      <4> HIDE DEF q, m, n
      <4>4. q \in W
        BY <1>2, <3>2, <4>2, <4>3, WalkReaches DEF m
      <4> QED
        BY <4>4 DEF q
    <3> HIDE DEF W
    <3>4. CASE \E r \in LanceAncestors(p) : r # p
      <4>1. PICK r \in LanceAncestors(p) : r # p
        BY <3>4
      <4> DEFINE k == Len(r)
      <4>2. k \in 1..n /\ r = Cut(p, k) /\ IsLanceDatasetRoot(r) /\ r \in Paths /\ IsPrefix(r, p)
        BY <1>2, AncestorIsCut
      <4>3. k # n
        BY <1>2, <4>1, <4>2, CutEnds
      <4>4. ~(k <= m)
        BY <1>1, <1>2, <1>4, <2>2, <4>2, AncestorOfCut
      <4>5. k \in (m + 1)..n /\ k < n
        BY <1>2, <4>2, <4>3, <4>4
      <4>6. ASSUME NEW i \in (m + 1)..(k - 1) PROVE ~IsLanceDatasetRoot(Cut(p, i))
        <5>1. i \in 0..n /\ n \in 0..n /\ i # k
          BY <1>2, <4>5
        <5>2. Cut(p, i) \in Prefixes(p) /\ Len(Cut(p, i)) = i
          BY <1>2, <5>1, CutIsPrefix, CutIsPath, CutEnds
        <5> QED
          BY <4>1, <5>1, <5>2 DEF Nested, LanceAncestors
      <4>7. r \in W
        BY <3>3, <4>2, <4>5, <4>6
      <4>8. EntryIs(tree, r, "dir", args.follow)
        <5>1. /\ Exists(tree, r) /\ IsDir(tree, r)
              /\ Entry(tree, r).type # "link" => Entry(tree, r).type = tree[Real(tree, r)].type
          BY <1>1, <1>2, <4>2, <4>5, AlongPath
        <5>2. args.follow \/ Entry(tree, r).type # "link"
          BY <1>1, <4>2, <4>5
        <5> QED
          BY <5>1, <5>2 DEF EntryIs, IsDir
      <4>9. r \in Targets(tree, W, args.follow)
        BY <4>2, <4>7, <4>8 DEF Targets
      <4> QED
        BY <3>1, <4>2, <4>9 DEF Covers
    <3>5. CASE \A r \in LanceAncestors(p) : r = p
      <4>1. n \in (m + 1)..n /\ Cut(p, n) = p
        BY <1>2, <2>3, <2>5, CutEnds
      <4>2. ASSUME NEW i \in (m + 1)..(n - 1) PROVE ~IsLanceDatasetRoot(Cut(p, i))
        <5>1. i \in 0..n /\ n \in 0..n /\ i # n
          BY <1>2
        <5>2. Cut(p, i) \in Prefixes(p) /\ Len(Cut(p, i)) = i
          BY <1>2, <5>1, CutIsPrefix, CutIsPath, CutEnds
        <5> QED
          BY <3>5, <5>1, <5>2 DEF LanceAncestors
      <4>3. p \in W
        BY <3>3, <4>1, <4>2
      <4>4. args.follow \/ Entry(tree, p).type # "link"
        BY <1>1, <4>1
      <4>5. p \in Targets(tree, W, args.follow)
        BY <1>1, <4>3, <4>4, EntryOfFile DEF Targets
      <4> QED
        BY <3>1, <4>5 DEF Covers
    <3> QED
      BY <3>4, <3>5
  <2>6. CASE p # input /\ ~args.recursive
    <3>1. Expanded(tree, input, args.recursive, args.follow)
            = Targets(tree, Listed(tree, input), FALSE)
      BY <1>3, <1>6, <2>3, <2>6 DEF Expanded
    <3>2. n = m + 1
      BY <2>6 DEF Requested
    <3>3. p = Append(input, p[n]) /\ p[n] \in Names
      <4>1. n \in 1..n /\ n - 1 = m
        BY <1>2, <3>2
      <4>2. Cut(p, n) = Append(Cut(p, n - 1), p[n]) /\ p[n] \in Names
        BY <1>2, <4>1, CutStep
      <4>3. Cut(p, n) = p
        BY <1>2, CutEnds
      <4> QED
        BY <1>1, <4>1, <4>2, <4>3
    <3>4. Entry(tree, p).type # "link"
      <4>1. n \in (m + 1)..n /\ Cut(p, n) = p
        BY <1>2, <3>2, CutEnds
      <4> QED
        BY <1>1, <2>6, <4>1
    <3>5. EntryIs(tree, p, "file", FALSE) /\ HasEntry(tree, p)
      BY <1>1, <3>4, EntryOfFile
    <3>6. p \in Targets(tree, Listed(tree, input), FALSE)
      BY <3>3, <3>5 DEF Targets, Listed
    <3> QED
      BY <3>1, <3>6 DEF Covers
  <2> QED
    BY <2>4, <2>5, <2>6
<1> QED
  BY <1>5, <1>6

\* A file in a Lance dataset is no target of its own.
LEMMA Shadowed ==
    ASSUME NEW t, IsTree(t), NEW input \in Inputs, NEW recursive, NEW follow,
           ~InputFails(t, input, recursive, follow),
           NEW p \in Inputs, Exists(t, p), ~Nested(p),
           NEW r \in LanceAncestors(p), r # p
    PROVE  p \notin Expanded(t, input, recursive, follow)
<1> SUFFICES ASSUME p \in Expanded(t, input, recursive, follow) PROVE FALSE
  OBVIOUS
<1>1. p \in Paths /\ input \in Paths /\ p # <<>> /\ Len(p) \in Nat /\ Len(input) \in Nat
  BY DEF Inputs, Paths
<1>2. ~IsRemoteUrl(p)
  BY LocalPath DEF IsRemoteUrl
<1>3. CASE IsRemoteUrl(input)
  BY <1>2, <1>3 DEF Expanded
<1>4. CASE ~IsRemoteUrl(input) /\ InDataset(t, input)
  <2>1. p = LanceDatasetRoot(input)
    BY <1>4 DEF Expanded
  <2>2. p \in LanceAncestors(input)
    BY <1>1, <1>4, <2>1, RootOfDataset DEF InDataset
  <2>3. IsLanceDatasetRoot(p)
    BY <1>1, <2>2, AncestorIsCut
  <2>4. Len(p) \in 0..Len(p) /\ Cut(p, Len(p)) = p
    BY <1>1, CutEnds
  <2>5. p \in Prefixes(p)
    BY <1>1, <2>4, PrefixIsCut
  <2> QED
    BY <2>3, <2>5 DEF Nested, LanceAncestors
<1>5. CASE ~IsRemoteUrl(input) /\ ~InDataset(t, input)
  <2>1. LanceAncestors(input) = {}
    BY <1>5 DEF InputFails, InDataset
  <2>2. /\ Len(r) \in 1..Len(p) /\ r = Cut(p, Len(r)) /\ IsLanceDatasetRoot(r)
        /\ r \in Paths /\ IsPrefix(r, p)
    BY <1>1, AncestorIsCut
  <2>3. Len(r) # Len(p)
    BY <1>1, <2>2, CutEnds
  <2>4. ASSUME Len(input) \in 0..Len(p), input = Cut(p, Len(input))
        PROVE  Len(r) > Len(input)
    BY <1>1, <2>1, <2>2, <2>4, AncestorOfCut
  <2>5. p # input
    BY <2>1
  <2>6. CASE p \in Walked(t, input, follow)
    <3>1. p \in Below(input)
      BY <2>6 DEF Walked
    <3>2. Len(input) \in 0..(Len(p) - 1) /\ input = Cut(p, Len(input))
      BY <1>1, <3>1, BelowIsCut
    <3>3. Len(r) > Len(input) /\ Len(input) \in 0..Len(r) /\ Len(r) \in 0..Len(p)
      BY <1>1, <2>2, <2>4, <3>2
    <3>4. IsPrefix(input, r)
      BY <1>1, <2>2, <3>2, <3>3, CutIsPrefix
    <3>5. Descends(t, input, r, follow)
      BY <2>6, <3>4 DEF Walked, LanceAncestors
    <3> QED
      BY <2>2, <3>3, <3>5 DEF Descends
  <2>7. CASE p \in Listed(t, input)
    <3>1. PICK x \in Names : p = Append(input, x)
      BY <2>7 DEF Listed
    <3>2. Len(p) = Len(input) + 1 /\ \A i \in 1..Len(input) : p[i] = input[i]
      BY <1>1, <3>1, AppendProperties DEF Paths
    <3>3. Len(input) \in 0..Len(p)
      BY <1>1, <3>2
    <3>4. /\ Cut(p, Len(input)) \in Paths /\ Len(Cut(p, Len(input))) = Len(input)
          /\ \A i \in 1..Len(input) : Cut(p, Len(input))[i] = p[i]
      BY <1>1, <3>3, CutIsPath
    <3>5. input = Cut(p, Len(input))
      BY <1>1, <3>2, <3>4, SeqEqual DEF Paths
    <3> QED
      BY <1>1, <2>2, <2>3, <2>4, <3>2, <3>3, <3>5
  <2>8. p \in {input} \cup Walked(t, input, follow) \cup Listed(t, input)
    BY <1>5 DEF Expanded, Targets
  <2> QED
    BY <2>5, <2>6, <2>7, <2>8
<1> QED
  BY <1>3, <1>4, <1>5

\* The places of a sequence of files followed by the targets to come.
LEMMA RangeOfTaken ==
    ASSUME files \in Seq(Range(files)), targets \in Seq(Range(targets))
    PROVE  Range(Taken) = {f.path : f \in Files(files)} \cup Range(targets)
<1> DEFINE paths == [i \in DOMAIN files |-> files[i].path]
<1> DEFINE m == Len(files)
<1> DEFINE n == Len(targets)
<1>1. m \in Nat /\ DOMAIN files = 1..m /\ n \in Nat /\ DOMAIN targets = 1..n
  BY LenProperties
<1> DEFINE S == Range(targets) \cup {files[i].path : i \in 1..m}
<1>2. paths \in Seq(S) /\ Len(paths) = m /\ \A i \in 1..m : paths[i] = files[i].path
  <2>1. paths = [i \in 1..m |-> files[i].path]
    BY <1>1
  <2> HIDE DEF m, paths
  <2> QED
    BY <1>1, <2>1
<1>3. targets \in Seq(S)
  BY SeqMonotonic
<1> HIDE DEF S, paths, m, n
<1>4. /\ Taken \in Seq(S) /\ Len(Taken) = m + n
      /\ \A i \in 1..(m + n) : Taken[i] = IF i <= m THEN paths[i] ELSE targets[i - m]
  BY <1>2, <1>3, ConcatProperties DEF Taken, n, paths
<1>5. DOMAIN Taken = 1..(m + n)
  BY <1>4, LenProperties
<1>6. ASSUME NEW i \in 1..(m + n)
      PROVE  Taken[i] \in {f.path : f \in Files(files)} \cup Range(targets)
  <2>1. CASE i <= m
    <3>1. i \in 1..m
      BY <1>1, <2>1
    <3> QED
      BY <1>1, <1>2, <1>4, <2>1, <3>1 DEF Files
  <2>2. CASE ~(i <= m)
    <3>1. i - m \in 1..n
      BY <1>1, <2>2
    <3> QED
      BY <1>1, <1>4, <2>2, <3>1 DEF Range
  <2> QED
    BY <2>1, <2>2
<1>7. ASSUME NEW i \in 1..m PROVE files[i].path \in Range(Taken)
  <2>1. i \in 1..(m + n) /\ i <= m
    BY <1>1
  <2> QED
    BY <1>2, <1>4, <1>5, <2>1 DEF Range
<1>8. ASSUME NEW i \in 1..n PROVE targets[i] \in Range(Taken)
  <2> DEFINE j == m + i
  <2>1. j \in 1..(m + n) /\ ~(j <= m) /\ j - m = i
    BY <1>1
  <2> HIDE DEF j
  <2>2. Taken[j] = targets[i]
    BY <1>4, <2>1
  <2> QED
    BY <1>5, <2>1, <2>2 DEF Range
<1> DEFINE R == {f.path : f \in Files(files)} \cup Range(targets)
<1>9. Range(Taken) \subseteq R
  BY <1>5, <1>6 DEF Range
<1>10. R \subseteq Range(Taken)
  <2>1. \A f \in Files(files) : f.path \in Range(Taken)
    BY <1>1, <1>7 DEF Files
  <2>2. Range(targets) \subseteq Range(Taken)
    BY <1>1, <1>8 DEF Range
  <2> QED
    BY <2>1, <2>2
<1> QED
  BY <1>9, <1>10

\* What is scanned, skipped or still to come are the targets of the inputs.
CoverInv ==
    /\ IsTree(tree)
    /\ phase \notin {"expand", "failed"} =>
          /\ ~ExpandFails(args, tree)
          /\ \A f \in Files(files) : f.path \in Asked(args, tree)
          /\ Range(targets) \subseteq Asked(args, tree)
          /\ \A p \in Asked(args, tree) :
                \/ FormatOf(p) = "Unknown" \/ p \in Range(targets)
                \/ \E f \in Files(files) : f.path = p

LEMMA RestOfTargets ==
    ASSUME targets \in Seq(Inputs), targets # <<>>
    PROVE  Range(targets) = {Target} \cup Range(Tail(targets))
<1> DEFINE n == Len(targets)
<1>1. n \in Nat \ {0} /\ DOMAIN targets = 1..n /\ Target = targets[1]
  BY EmptySeq, LenProperties DEF Target
<1>2. /\ Tail(targets) \in Seq(Inputs) /\ Len(Tail(targets)) = n - 1
      /\ \A i \in 1..Len(Tail(targets)) : Tail(targets)[i] = targets[i + 1]
  BY HeadTailProperties
<1>3. DOMAIN Tail(targets) = 1..(n - 1)
  BY <1>2, LenProperties
<1> HIDE DEF n
<1>4. ASSUME NEW i \in 1..n PROVE targets[i] \in {Target} \cup Range(Tail(targets))
  <2>1. CASE i = 1
    BY <1>1, <2>1
  <2>2. CASE i # 1
    <3>1. i - 1 \in 1..(n - 1) /\ i - 1 + 1 = i
      BY <1>1, <2>2
    <3>2. Tail(targets)[i - 1] = targets[i]
      BY <1>2, <3>1
    <3> QED
      BY <1>3, <3>1, <3>2 DEF Range
  <2> QED
    BY <2>1, <2>2
<1>5. ASSUME NEW i \in 1..(n - 1) PROVE Tail(targets)[i] \in Range(targets)
  <2>1. i + 1 \in 1..n
    BY <1>1
  <2> QED
    BY <1>1, <1>2, <2>1 DEF Range
<1>6. Target \in Range(targets)
  BY <1>1 DEF Range
<1> QED
  BY <1>1, <1>3, <1>4, <1>5, <1>6 DEF Range

\* What was taken from the list is a file of the dataset, or of no known format.
LEMMA TakenCovers ==
    ASSUME TargetInv, CoverInv, Unread, targets # <<>>, phase \notin {"expand", "failed"},
           targets' = Tail(targets),
           NEW S, Files(files)' = Files(files) \cup S, \A f \in S : f.path = Target,
           S # {} \/ FormatOf(Target) = "Unknown"
    PROVE  CoverInv'
<1> DEFINE A == Asked(args, tree)
<1>1. args' = args /\ tree' = tree /\ A' = A
  BY DEF Unread
<1>2. Range(targets) = {Target} \cup Range(targets')
  BY RestOfTargets DEF TargetInv, PhaseInv
<1>3. /\ IsTree(tree) /\ ~ExpandFails(args, tree) /\ Range(targets) \subseteq A
      /\ \A f \in Files(files) : f.path \in A
      /\ \A p \in A : \/ FormatOf(p) = "Unknown" \/ p \in Range(targets)
                      \/ \E f \in Files(files) : f.path = p
  BY DEF CoverInv
<1> HIDE DEF A
<1>4. \A f \in Files(files)' : f.path \in A
  BY <1>2, <1>3
<1>5. Range(targets') \subseteq A
  BY <1>2, <1>3
<1>6. ASSUME NEW p \in A
      PROVE  \/ FormatOf(p) = "Unknown" \/ p \in Range(targets')
             \/ \E f \in Files(files)' : f.path = p
  <2>1. CASE p = Target
    BY <2>1
  <2>2. CASE p # Target
    BY <1>2, <1>3, <2>2
  <2> QED
    BY <2>1, <2>2
<1> QED
  BY <1>1, <1>3, <1>4, <1>5, <1>6 DEF CoverInv, A

LEMMA InitCover == Init => CoverInv
BY TreesAssumption DEF Init, CoverInv

LEMMA NextCover == ScanInv /\ TargetInv /\ CoverInv /\ [Next]_vars => CoverInv'
<1> SUFFICES ASSUME ScanInv, TargetInv, CoverInv, [Next]_vars PROVE CoverInv'
  OBVIOUS
<1>0. files \in Seq(Range(files))
  BY DEF ScanInv, FilesInv
<1>1. CASE Expand
  <2>1. /\ ~ExpandFails(args, tree) /\ targets' = ExpandPaths(args, tree)
        /\ args' = args /\ tree' = tree /\ files' = files /\ files = <<>>
    BY <1>1 DEF Expand, Unread, TargetInv, PhaseInv
  <2>2. Range(targets') = Asked(args, tree)
    BY <2>1, ExpandedTargets DEF TargetInv, PhaseInv
  <2>3. \A f \in Files(files)' : FALSE
    BY <2>1 DEF Files
  <2> QED
    BY <2>1, <2>2, <2>3 DEF CoverInv
<1>2. CASE Fail
  BY <1>2 DEF Fail, Unread, CoverInv
<1>3. CASE SkipUnknown
  <2> DEFINE S == {f \in {} : TRUE}
  <2>1. Files(files)' = Files(files) \cup S
    BY <1>3 DEF SkipUnknown
  <2>2. /\ Unread /\ targets # <<>> /\ phase \notin {"expand", "failed"}
        /\ targets' = Tail(targets) /\ FormatOf(Target) = "Unknown"
    BY <1>3 DEF SkipUnknown, Scanning
  <2>3. \A f \in S : f.path = Target
    OBVIOUS
  <2> HIDE DEF S
  <2> QED
    BY <2>1, <2>2, <2>3, TakenCovers
<1>4. ASSUME args' = args, tree' = tree, targets' = targets, files' = files,
             phase \notin {"expand", "failed"}
      PROVE  CoverInv'
  BY <1>4 DEF CoverInv
<1>5. CASE OpenParquet \/ Request \/ Scanned \/ CheckRules \/ Replace
  <2>1. phase \notin {"expand", "failed"}
    BY <1>5 DEF OpenParquet, Request, Scanned, CheckRules, Replace, Scanning
  <2>2. args' = args /\ tree' = tree /\ targets' = targets /\ files' = files
    BY <1>5 DEF OpenParquet, Request, Scanned, CheckRules, Replace, Unread
  <2> QED
    BY <1>4, <2>1, <2>2
<1>6. ASSUME NEW file, Add(file), file.path = Target, targets # <<>>,
             phase \notin {"expand", "failed"}
      PROVE  CoverInv'
  <2>1. Files(files)' = Files(files) \cup {file}
    BY <1>0, <1>6, FilesGrow DEF Add
  <2>2. Unread /\ targets' = Tail(targets)
    BY <1>6 DEF Add
  <2>3. {file} # {} /\ \A f \in {file} : f.path = Target
    BY <1>6
  <2> QED
    BY <1>6, <2>1, <2>2, <2>3, TakenCovers
<1>7. \A x, y : ParquetFile(Target, x, y).path = Target /\ OtherFile(Target, x).path = Target
  BY DEF ParquetFile, OtherFile
<1>8. CASE ReadSchema
  <2>1. Add(ParquetFile(Target, footer, Current)) /\ phase = "schema"
    BY <1>8 DEF ReadSchema
  <2>2. targets # <<>>
    BY <2>1 DEF TargetInv, PhaseInv
  <2> QED
    BY <1>6, <1>7, <2>1, <2>2
<1>9. CASE ScanOther \/ ScanLance
  <2>1. /\ Add(OtherFile(Target, Current)) \/ Add(OtherFile(Target, [size |-> 0]))
        /\ phase = "scan" /\ targets # <<>>
    BY <1>9 DEF ScanOther, ScanLance, Scanning
  <2> QED
    BY <1>6, <1>7, <2>1
<1>10. CASE Answer
  <2>1. /\ Add(ParquetFile(Target, Current, Current)) \/ Add(OtherFile(Target, Current))
        /\ phase = "fetch"
    BY <1>10 DEF Answer
  <2>2. targets # <<>>
    BY <2>1 DEF TargetInv, PhaseInv
  <2> QED
    BY <1>6, <1>7, <2>1, <2>2
<1>11. CASE UNCHANGED vars
  BY <1>11 DEF vars, CoverInv
<1>12. ExpandError \/ ReadFails \/ RemoteLance \/ FetchFails \/ NothingScanned => Fail
  BY DEF ExpandError, ReadFails, RemoteLance, FetchFails, NothingScanned
<1> QED
  BY <1>1, <1>2, <1>3, <1>5, <1>8, <1>9, <1>10, <1>11, <1>12 DEF Next, Step

\* No file is covered twice.
LEMMA CoveredOnce ==
    ASSUME IsTree(tree), args.inputs \in Seq(Inputs), ~ExpandFails(args, tree),
           NEW p \in Inputs, Exists(tree, p), ~Nested(p),
           NEW c \in Asked(args, tree), NEW d \in Asked(args, tree), Covers(c, p), Covers(d, p)
    PROVE  c = d
<1>1. p \in Paths
  BY DEF Inputs
<1>2. Asked(args, tree) \subseteq Inputs
  BY ExpandedTargets, RangeOfSeq
<1>3. ASSUME NEW x \in Asked(args, tree), Covers(x, p), x # p PROVE x \in LanceAncestors(p)
  <2>1. x \in Paths /\ IsLanceDatasetRoot(x) /\ IsPrefix(x, p)
    BY <1>2, <1>3 DEF Covers, Inputs
  <2> QED
    BY <1>1, <2>1, PrefixIsCut DEF LanceAncestors
<1>4. ASSUME NEW r \in LanceAncestors(p), r # p, p \in Asked(args, tree) PROVE FALSE
  <2>1. PICK i \in DOMAIN args.inputs :
          p \in Expanded(tree, args.inputs[i], args.recursive, args.follow)
    BY <1>4 DEF Asked
  <2>2. args.inputs[i] \in Inputs
    BY ElementOfSeq, LenProperties
  <2>3. ~InputFails(tree, args.inputs[i], args.recursive, args.follow)
    BY DEF ExpandFails
  <2> QED
    BY <1>4, <2>1, <2>2, <2>3, Shadowed
<1>5. CASE c # p /\ d # p
  BY <1>3, <1>5 DEF Nested
<1>6. CASE c = p /\ d # p
  BY <1>3, <1>4, <1>6
<1>7. CASE c # p /\ d = p
  BY <1>3, <1>4, <1>7
<1> QED
  BY <1>5, <1>6, <1>7

\* The covering of the files asked for, whatever the tree, the links in it and the inputs:
\* each is taken by itself or by the one Lance dataset it is in, never both, and none is left.
THEOREM ExactCoverCorrect == Spec => []ExactCover
<1>1. Init => ScanInv /\ TargetInv /\ CoverInv
  BY InitScan, InitTargets, InitCover
<1>2. ScanInv /\ TargetInv /\ CoverInv /\ [Next]_vars => (ScanInv /\ TargetInv /\ CoverInv)'
  BY NextScan, NextTargets, NextCover
<1>3. ScanInv /\ TargetInv /\ CoverInv /\ TakenOnce => ExactCover
  <2> SUFFICES ASSUME ScanInv, TargetInv, CoverInv, TakenOnce, phase \notin {"expand", "failed"}
               PROVE  ExactCover
    BY DEF ExactCover
  <2>1. args.inputs \in Seq(Inputs) /\ targets \in Seq(Inputs) /\ files \in Seq(Range(files))
    BY DEF TargetInv, PhaseInv, ScanInv, FilesInv
  <2>2. targets \in Seq(Range(targets))
    BY <2>1, SeqOfRange
  <2>3. Range(Taken) = {f.path : f \in Files(files)} \cup Range(targets)
    BY <2>1, <2>2, RangeOfTaken
  <2>4. /\ IsTree(tree) /\ ~ExpandFails(args, tree) /\ Range(Taken) \subseteq Asked(args, tree)
        /\ \A p \in Asked(args, tree) : FormatOf(p) = "Unknown" \/ p \in Range(Taken)
    BY <2>3 DEF CoverInv
  <2>5. IsInjective(Taken)
    BY DEF TakenOnce
  <2>6. ASSUME NEW i \in DOMAIN args.inputs, NEW p \in Requested(args.inputs[i]),
               FormatOf(p) # "Unknown", ~Nested(p)
        PROVE  Cardinality({c \in Range(Taken) : Covers(c, p)}) = 1
    <3>1. args.inputs[i] \in Inputs
      BY <2>1, ElementOfSeq, LenProperties
    <3>2. ~InputFails(tree, args.inputs[i], args.recursive, args.follow)
      BY <2>4 DEF ExpandFails
    <3>3. PICK c \in Expanded(tree, args.inputs[i], args.recursive, args.follow) : Covers(c, p)
      BY <2>4, <2>6, <3>1, <3>2, Covered
    <3>4. c \in Asked(args, tree)
      BY DEF Asked
    <3>5. FormatOf(c) # "Unknown"
      BY <2>6, <3>3 DEF Covers, FormatOf, IsLanceDatasetRoot
    <3>6. c \in Range(Taken)
      BY <2>4, <3>4, <3>5
    <3>7. p \in Inputs /\ Exists(tree, p)
      BY <2>4, <2>6, <3>1, RequestedPath
    <3>8. \A d \in Range(Taken) : Covers(d, p) => d = c
      BY <2>1, <2>4, <2>6, <3>3, <3>4, <3>7, CoveredOnce
    <3>9. {d \in Range(Taken) : Covers(d, p)} = {c}
      BY <3>3, <3>6, <3>8
    <3> QED
      BY <3>9, FS_Singleton
  <2> QED
    BY <2>5, <2>6 DEF ExactCover, Covers
<1> QED
  BY <1>1, <1>2, <1>3, TakenOnceCorrect, PTL DEF Spec

-----------------------------------------------------------------------------
(* The text of a schema.                                                   *)

\* How FlattenSeq appends one sequence after the other.
LEMMA FlattenSteps ==
    ASSUME NEW S, NEW ss \in Seq(Seq(S))
    PROVE  \E t \in [0..Len(ss) -> Seq(S)] :
              /\ t[0] = <<>> /\ t[Len(ss)] = FlattenSeq(ss)
              /\ \A i \in 1..Len(ss) : t[i] = t[i - 1] \o ss[i]
<1> DEFINE n == Len(ss)
<1> DEFINE V == Seq(S)
<1>1. n \in Nat /\ \A i \in 1..n : ss[i] \in V
  OBVIOUS
<1> DEFINE add == [i \in 1..n |-> [v \in V |-> v \o ss[i]]]
<1>2. PICK t \in [0..n -> V] : t[0] = <<>> /\ \A i \in 1..n : t[i] = t[i - 1] \o ss[i]
  <2>1. \A i \in 1..n, v \in V : v \o ss[i] \in V
    BY <1>1, ConcatProperties
  <2>2. <<>> \in V
    BY EmptySeq
  <2> HIDE DEF n, V
  <2>3. add \in [1..n -> [V -> V]]
    BY <2>1
  <2>4. \A i \in 1..n, v \in V : add[i][v] = v \o ss[i]
    OBVIOUS
  <2> HIDE DEF add
  <2>5. PICK t : IsLoop(t, n, V, <<>>, add)
    BY <1>1, <2>2, <2>3, LoopExists
  <2>6. t \in [0..n -> V] /\ t[0] = <<>> /\ \A i \in 1..n : t[i] = add[i][t[i - 1]]
    BY <2>5, Zenon DEF IsLoop
  <2>7. \A i \in 1..n : i - 1 \in 0..n
    BY <1>1
  <2>8. \A i \in 1..n : t[i] = t[i - 1] \o ss[i]
    BY <2>4, <2>6, <2>7
  <2> QED
    BY <2>6, <2>8
<1>3. CASE n = 0
  <2>1. FlattenSeq(ss) = ss /\ ss = <<>>
    BY <1>3, EmptySeq DEF FlattenSeq
  <2>2. t[n] = FlattenSeq(ss)
    BY <1>2, <1>3, <2>1
  <2> QED
    BY <1>2, <2>2
<1>4. CASE n # 0
  <2> DEFINE Loop(f) == f = [i \in 1..n |-> IF i = 1 THEN ss[i] ELSE f[i - 1] \o ss[i]]
  <2>1. t[1] = ss[1]
    <3>1. 1 \in 1..n /\ 1 - 1 = 0
      BY <1>1, <1>4
    <3>2. ss[1] \in Seq(S)
      BY <1>1, <3>1
    <3>3. t[1] = <<>> \o ss[1]
      BY <1>2, <3>1
    <3> QED
      BY <3>2, <3>3, ConcatEmptySeq
  <2>2. \E f : Loop(f)
    <3> DEFINE f == [i \in 1..n |-> t[i]]
    <3>1. \A i \in 1..n : f[i] = IF i = 1 THEN ss[i] ELSE f[i - 1] \o ss[i]
      <4> SUFFICES ASSUME NEW i \in 1..n PROVE f[i] = IF i = 1 THEN ss[i] ELSE f[i - 1] \o ss[i]
        OBVIOUS
      <4>1. i # 1 => i - 1 \in 1..n
        BY <1>1
      <4>2. f[i] = t[i] /\ (i # 1 => f[i - 1] = t[i - 1])
        BY <4>1
      <4> HIDE DEF f, n
      <4> QED
        BY <1>2, <2>1, <4>2
    <3>2. f = [i \in 1..n |-> f[i]]
      OBVIOUS
    <3> HIDE DEF f
    <3>3. f = [i \in 1..n |-> IF i = 1 THEN ss[i] ELSE f[i - 1] \o ss[i]]
      BY <3>1, <3>2
    <3> QED
      BY <3>3
  <2> DEFINE flatten == CHOOSE f : Loop(f)
  <2>3. Loop(flatten)
    BY <2>2
  <2>4. FlattenSeq(ss) = flatten[n]
    BY <1>4 DEF FlattenSeq
  <2> HIDE DEF flatten
  <2>5. \A i \in 1..n : flatten[i] = IF i = 1 THEN ss[i] ELSE flatten[i - 1] \o ss[i]
    <3> HIDE DEF n
    <3> QED
      BY <2>3, Zenon
  <2> DEFINE T == {k \in 1..n : flatten[k] # t[k]}
  <2>6. T = {}
    <3> SUFFICES ASSUME T # {} PROVE FALSE
      OBVIOUS
    <3>1. PICK k \in T : \A j \in T : k <= j
      <4>1. T \subseteq Nat
        BY <1>1
      <4> HIDE DEF T
      <4> QED
        BY <4>1, LeastElement
    <3>2. k \in 1..n /\ flatten[k] # t[k] /\ \A j \in 1..n : flatten[j] # t[j] => k <= j
      BY <3>1
    <3>3. k # 1
      BY <2>1, <2>5, <3>2
    <3>4. k - 1 \in 1..n /\ ~(k <= k - 1)
      BY <1>1, <3>2, <3>3
    <3>5. flatten[k - 1] = t[k - 1]
      BY <3>2, <3>4
    <3> HIDE DEF n
    <3> QED
      BY <1>2, <2>5, <3>2, <3>3, <3>5
  <2>7. n \in 1..n
    BY <1>1, <1>4
  <2>8. t[n] = FlattenSeq(ss)
    BY <2>4, <2>6, <2>7
  <2> QED
    BY <1>2, <2>8
<1> QED
  BY <1>3, <1>4

LEMMA ConcatParts ==
    ASSUME NEW S, NEW s \in Seq(S), NEW t \in Seq(S), NEW u, u = s \o t
    PROVE  /\ u \in Seq(S) /\ Len(s) \in Nat /\ Len(t) \in Nat /\ Len(u) = Len(s) + Len(t)
           /\ \A i \in 1..Len(s) : u[i] = s[i]
           /\ \A i \in 1..Len(t) : u[Len(s) + i] = t[i]
<1>1. /\ u \in Seq(S) /\ Len(u) = Len(s) + Len(t)
      /\ \A i \in 1..(Len(s) + Len(t)) : u[i] = IF i <= Len(s) THEN s[i] ELSE t[i - Len(s)]
  BY ConcatProperties
<1>2. Len(s) \in Nat /\ Len(t) \in Nat
  OBVIOUS
<1>3. \A i \in 1..Len(s) : u[i] = s[i]
  BY <1>1, <1>2
<1>4. ASSUME NEW i \in 1..Len(t) PROVE u[Len(s) + i] = t[i]
  <2>1. Len(s) + i \in 1..(Len(s) + Len(t)) /\ ~(Len(s) + i <= Len(s)) /\ Len(s) + i - Len(s) = i
    BY <1>2
  <2> QED
    BY <1>1, <2>1
<1> QED
  BY <1>1, <1>2, <1>3, <1>4

\* The provers do not know that a string literal is in STRING.
Tokens == STRING \cup {":", "|", "true", "false"}

\* The text of the field at a place, with the bar before it.
Bar(i) == IF i = 1 THEN 0 ELSE 1
Part(fields, i) == IF i = 1 THEN FieldText(fields[i]) ELSE <<"|">> \o FieldText(fields[i])

LEMMA TextOfField ==
    ASSUME NEW field \in Field
    PROVE  LET text == FieldText(field)
               n == Len(field.name)
           IN /\ text \in Seq(Tokens) /\ n \in Nat /\ Len(text) = n + 4
              /\ \A j \in 1..n : text[j] = field.name[j]
              /\ text[n + 1] = ":" /\ text[n + 2] = field.type
              /\ text[n + 4] = IF field.nullable THEN "true" ELSE "false"
<1> DEFINE n == Len(field.name)
<1> DEFINE rest == <<":", field.type, ":", IF field.nullable THEN "true" ELSE "false">>
<1>1. field.name \in Seq(Tokens) /\ field.type \in Tokens
  <2>1. field.name \in Seq(STRING) /\ field.type \in STRING
    BY DEF Field, Name
  <2> QED
    BY <2>1, SeqMonotonic DEF Tokens
<1>2. n \in Nat
  BY <1>1
<1>3. /\ rest \in Seq(Tokens) /\ Len(rest) = 4
      /\ rest[1] = ":" /\ rest[2] = field.type
      /\ rest[4] = IF field.nullable THEN "true" ELSE "false"
  <2> DEFINE flag == IF field.nullable THEN "true" ELSE "false"
  <2>1. flag \in Tokens /\ ":" \in Tokens
    BY DEF Tokens
  <2>2. rest = <<":", field.type, ":", flag>>
    OBVIOUS
  <2> HIDE DEF flag, rest
  <2>3. /\ rest \in Seq(Tokens) /\ Len(rest) = 4
        /\ rest[1] = ":" /\ rest[2] = field.type /\ rest[4] = flag
    BY <1>1, <2>1, <2>2
  <2> QED
    BY <2>3 DEF flag
<1>4. FieldText(field) = field.name \o rest
  BY DEF FieldText
<1> HIDE DEF rest
<1>5. /\ FieldText(field) \in Seq(Tokens) /\ Len(FieldText(field)) = n + Len(rest)
      /\ \A j \in 1..n : FieldText(field)[j] = field.name[j]
      /\ \A j \in 1..Len(rest) : FieldText(field)[n + j] = rest[j]
  <2> DEFINE name == field.name
  <2>1. name \in Seq(Tokens)
    BY <1>1
  <2>2. FieldText(field) = name \o rest
    BY <1>4
  <2>3. n = Len(name) /\ name = field.name
    OBVIOUS
  <2> HIDE DEF name, n
  <2>4. rest \in Seq(Tokens)
    BY <1>3
  <2>5. /\ FieldText(field) \in Seq(Tokens) /\ Len(FieldText(field)) = Len(name) + Len(rest)
        /\ \A j \in 1..Len(name) : FieldText(field)[j] = name[j]
        /\ \A j \in 1..Len(rest) : FieldText(field)[Len(name) + j] = rest[j]
    BY <2>1, <2>2, <2>4, ConcatParts
  <2> QED
    BY <2>3, <2>5
<1> HIDE DEF n
<1>6. FieldText(field)[n + 1] = rest[1] /\ FieldText(field)[n + 2] = rest[2] /\ FieldText(field)[n + 4] = rest[4]
  BY <1>3, <1>5
<1> QED
  BY <1>2, <1>3, <1>5, <1>6 DEF n

LEMMA TextOfPart ==
    ASSUME NEW fields \in Seq(Field), NEW i \in 1..Len(fields)
    PROVE  LET part == Part(fields, i)
               n == Len(fields[i].name)
           IN /\ part \in Seq(Tokens) /\ n \in Nat /\ Len(part) = Bar(i) + n + 4
              /\ \A j \in 1..n : part[Bar(i) + j] = fields[i].name[j]
              /\ part[Bar(i) + n + 1] = ":" /\ part[Bar(i) + n + 2] = fields[i].type
              /\ part[Bar(i) + n + 4] = IF fields[i].nullable THEN "true" ELSE "false"
<1> DEFINE text == FieldText(fields[i])
<1> DEFINE n == Len(fields[i].name)
<1>1. fields[i] \in Field
  BY ElementOfSeq
<1>2. /\ text \in Seq(Tokens) /\ n \in Nat /\ Len(text) = n + 4
      /\ \A j \in 1..n : text[j] = fields[i].name[j]
      /\ text[n + 1] = ":" /\ text[n + 2] = fields[i].type
      /\ text[n + 4] = IF fields[i].nullable THEN "true" ELSE "false"
  BY <1>1, TextOfField
<1>3. CASE i = 1
  <2>1. Part(fields, i) = text /\ Bar(i) = 0
    BY <1>3 DEF Part, Bar
  <2> HIDE DEF text, n
  <2> QED
    BY <1>2, <2>1 DEF n
<1>4. CASE i # 1
  <2>1. Part(fields, i) = <<"|">> \o text /\ Bar(i) = 1
    BY <1>4 DEF Part, Bar
  <2>2. <<"|">> \in Seq(Tokens) /\ Len(<<"|">>) = 1
    BY DEF Tokens
  <2> HIDE DEF text, n
  <2>3. /\ Part(fields, i) \in Seq(Tokens) /\ Len(Part(fields, i)) = 1 + Len(text)
        /\ \A k \in 1..Len(text) : Part(fields, i)[1 + k] = text[k]
    BY <1>2, <2>1, <2>2, ConcatParts
  <2>4. \A k \in 1..(n + 4) : Part(fields, i)[1 + k] = text[k]
    BY <1>2, <2>3
  <2>5. \A j \in 1..n : Part(fields, i)[1 + j] = fields[i].name[j]
    BY <1>2, <2>4
  <2>6. \A k \in 1..4 : Part(fields, i)[1 + (n + k)] = text[n + k]
    BY <1>2, <2>4
  <2>7. \A k \in 1..4 : 1 + (n + k) = 1 + n + k
    BY <1>2
  <2>8. \A k \in 1..4 : Part(fields, i)[1 + n + k] = text[n + k]
    BY <2>6, <2>7
  <2>9. /\ Part(fields, i)[1 + n + 1] = text[n + 1] /\ Part(fields, i)[1 + n + 2] = text[n + 2]
        /\ Part(fields, i)[1 + n + 4] = text[n + 4]
    BY <2>8
  <2>10. Len(Part(fields, i)) = 1 + n + 4
    BY <1>2, <2>3
  <2> QED
    BY <1>2, <2>1, <2>3, <2>5, <2>9, <2>10 DEF n
<1> QED
  BY <1>3, <1>4

\* The texts of the first fields, each up to and with the field of that number.
Begins(t, fields) ==
    /\ t \in [0..Len(fields) -> Seq(Tokens)]
    /\ t[0] = <<>> /\ t[Len(fields)] = Fingerprint(fields)
    /\ \A i \in 1..Len(fields) : t[i] = t[i - 1] \o Part(fields, i)

LEMMA FingerprintBegins == ASSUME NEW fields \in Seq(Field) PROVE \E t : Begins(t, fields)
<1> DEFINE n == Len(fields)
<1> DEFINE ss == [i \in 1..n |-> Part(fields, i)]
<1>1. n \in Nat /\ DOMAIN fields = 1..n
  OBVIOUS
<1>2. Fingerprint(fields) = FlattenSeq(ss)
  BY <1>1 DEF Fingerprint, Part
<1>3. \A i \in 1..n : Part(fields, i) \in Seq(Tokens)
  BY TextOfPart
<1> HIDE DEF n
<1>4. ss \in Seq(Seq(Tokens)) /\ Len(ss) = n /\ \A i \in 1..n : ss[i] = Part(fields, i)
  BY <1>1, <1>3
<1> HIDE DEF ss
<1>5. PICK t \in [0..Len(ss) -> Seq(Tokens)] :
        /\ t[0] = <<>> /\ t[Len(ss)] = FlattenSeq(ss)
        /\ \A i \in 1..Len(ss) : t[i] = t[i - 1] \o ss[i]
  BY <1>4, FlattenSteps
<1>6. Begins(t, fields)
  BY <1>2, <1>4, <1>5 DEF Begins, n
<1> QED
  BY <1>6

LEMMA BeginStep ==
    ASSUME NEW fields \in Seq(Field), NEW t, Begins(t, fields), NEW i \in 1..Len(fields)
    PROVE  /\ t[i - 1] \in Seq(Tokens) /\ t[i] \in Seq(Tokens) /\ Part(fields, i) \in Seq(Tokens)
           /\ Len(t[i]) = Len(t[i - 1]) + Len(Part(fields, i))
           /\ \A p \in 1..Len(t[i - 1]) : t[i][p] = t[i - 1][p]
           /\ \A p \in 1..Len(Part(fields, i)) : t[i][Len(t[i - 1]) + p] = Part(fields, i)[p]
<1>1. i \in 0..Len(fields) /\ i - 1 \in 0..Len(fields)
  OBVIOUS
<1>2. t[i - 1] \in Seq(Tokens) /\ t[i] \in Seq(Tokens) /\ t[i] = t[i - 1] \o Part(fields, i)
  BY <1>1 DEF Begins
<1>3. Part(fields, i) \in Seq(Tokens)
  BY TextOfPart
<1> QED
  BY <1>2, <1>3, ConcatParts

LEMMA BeginOfText ==
    ASSUME NEW fields \in Seq(Field), NEW t, Begins(t, fields), NEW i \in 0..Len(fields)
    PROVE  LET text == Fingerprint(fields)
           IN /\ Len(t[i]) \in Nat /\ Len(text) \in Nat /\ Len(t[i]) <= Len(text)
              /\ \A p \in 1..Len(t[i]) : text[p] = t[i][p]
<1> DEFINE n == Len(fields)
<1> DEFINE text == Fingerprint(fields)
<1>1. n \in Nat /\ text = t[n] /\ \A k \in 0..n : Len(t[k]) \in Nat
  BY DEF Begins
<1> DEFINE Good(k) == Len(t[k]) <= Len(text) /\ \A p \in 1..Len(t[k]) : text[p] = t[k][p]
<1> DEFINE T == {d \in 0..n : ~Good(n - d)}
<1>2. T = {}
  <2> SUFFICES ASSUME T # {} PROVE FALSE
    OBVIOUS
  <2>1. PICK d \in T : \A e \in T : d <= e
    <3>1. T \subseteq Nat
      BY <1>1
    <3> HIDE DEF T
    <3> QED
      BY <3>1, LeastElement
  <2>2. d \in 0..n /\ ~Good(n - d)
    OBVIOUS
  <2>3. d # 0
    <3>1. n - 0 = n /\ Len(text) \in Nat
      BY <1>1
    <3>2. Good(n)
      BY <1>1, <3>1
    <3> HIDE DEF Good
    <3> QED
      BY <2>2, <3>1, <3>2
  <2> DEFINE k == n - d + 1
  <2>4. d - 1 \in 0..n /\ ~(d <= d - 1) /\ n - (d - 1) = k /\ k \in 1..n /\ k - 1 = n - d
    BY <1>1, <2>2, <2>3
  <2>5. Good(k)
    <3>1. d - 1 \notin T
      BY <2>1, <2>4
    <3> HIDE DEF Good
    <3> QED
      BY <2>4, <3>1
  <2> HIDE DEF k
  <2>6. /\ Len(t[k]) = Len(t[k - 1]) + Len(Part(fields, k))
        /\ Len(t[k - 1]) \in Nat /\ Len(Part(fields, k)) \in Nat
        /\ \A p \in 1..Len(t[k - 1]) : t[k][p] = t[k - 1][p]
    BY <2>4, BeginStep
  <2>7. Good(k - 1)
    <3>1. Len(text) \in Nat
      BY <1>1
    <3> HIDE DEF text, n
    <3> QED
      BY <2>5, <2>6, <3>1
  <2> HIDE DEF Good
  <2> QED
    BY <2>2, <2>4, <2>7
<1>3. n - i \in 0..n /\ n - (n - i) = i
  BY <1>1
<1>4. Good(i)
  <2>1. n - i \notin T
    BY <1>2
  <2> HIDE DEF Good
  <2> QED
    BY <1>3, <2>1
<1>5. i \in 0..n /\ n \in 0..n
  BY <1>1
<1> QED
  BY <1>1, <1>4, <1>5

\* Where the field of a number is in the text of a schema.
FieldAt(text, m, n, field) ==
    /\ m \in Nat /\ n \in Nat /\ Len(text) \in Nat /\ m + n + 4 <= Len(text)
    /\ \A j \in 1..n : text[m + j] = field.name[j]
    /\ text[m + n + 1] = ":" /\ text[m + n + 2] = field.type
    /\ text[m + n + 4] = IF field.nullable THEN "true" ELSE "false"

LEMMA FieldInText ==
    ASSUME NEW fields \in Seq(Field), NEW t, Begins(t, fields), NEW i \in 1..Len(fields)
    PROVE  /\ FieldAt(Fingerprint(fields), Len(t[i - 1]) + Bar(i), Len(fields[i].name), fields[i])
           /\ Len(t[i]) = Len(t[i - 1]) + Bar(i) + Len(fields[i].name) + 4
           /\ Len(t[i - 1]) \in Nat
<1> DEFINE text == Fingerprint(fields)
<1> DEFINE l == Len(t[i - 1])
<1> DEFINE b == Bar(i)
<1> DEFINE n == Len(fields[i].name)
<1> DEFINE part == Part(fields, i)
<1>1. /\ part \in Seq(Tokens) /\ n \in Nat /\ Len(part) = b + n + 4
      /\ \A j \in 1..n : part[b + j] = fields[i].name[j]
      /\ part[b + n + 1] = ":" /\ part[b + n + 2] = fields[i].type
      /\ part[b + n + 4] = IF fields[i].nullable THEN "true" ELSE "false"
  BY TextOfPart
<1>2. b \in Nat
  BY DEF Bar
<1>3. /\ l \in Nat /\ Len(t[i]) = l + Len(part)
      /\ \A p \in 1..Len(part) : t[i][l + p] = part[p]
  BY BeginStep
<1>4. /\ Len(text) \in Nat /\ Len(t[i]) <= Len(text)
      /\ \A p \in 1..Len(t[i]) : text[p] = t[i][p]
  <2>1. i \in 0..Len(fields)
    OBVIOUS
  <2> QED
    BY <2>1, BeginOfText
<1> HIDE DEF text, l, b, n, part
<1>5. \A p \in 1..(b + n + 4) : text[l + p] = part[p]
  <2> SUFFICES ASSUME NEW p \in 1..(b + n + 4) PROVE text[l + p] = part[p]
    OBVIOUS
  <2>1. l + p \in 1..Len(t[i])
    BY <1>1, <1>2, <1>3
  <2> QED
    BY <1>1, <1>3, <1>4, <2>1
<1>6. \A j \in 1..n : text[l + b + j] = fields[i].name[j]
  <2> SUFFICES ASSUME NEW j \in 1..n PROVE text[l + b + j] = fields[i].name[j]
    OBVIOUS
  <2>1. b + j \in 1..(b + n + 4) /\ l + (b + j) = l + b + j
    BY <1>1, <1>2, <1>3
  <2> QED
    BY <1>1, <1>5, <2>1
<1>7. \A j \in 1..4 : text[l + b + n + j] = part[b + n + j]
  <2> SUFFICES ASSUME NEW j \in 1..4 PROVE text[l + b + n + j] = part[b + n + j]
    OBVIOUS
  <2>1. b + n + j \in 1..(b + n + 4) /\ l + (b + n + j) = l + b + n + j
    BY <1>1, <1>2, <1>3
  <2> QED
    BY <1>5, <2>1
<1>8. /\ text[l + b + n + 1] = part[b + n + 1] /\ text[l + b + n + 2] = part[b + n + 2]
      /\ text[l + b + n + 4] = part[b + n + 4]
  BY <1>7
<1>9. l + b \in Nat /\ Len(t[i]) = l + b + n + 4 /\ l + b + n + 4 <= Len(text)
  BY <1>1, <1>2, <1>3, <1>4
<1> QED
  BY <1>1, <1>3, <1>4, <1>6, <1>8, <1>9 DEF text, l, b, n, FieldAt

\* Where two texts agree up to a field, they have the same field there.
LEMMA SameField ==
    ASSUME NEW s \in Seq(Field), NEW t \in Seq(Field), Separable(s), Separable(t),
           Fingerprint(s) = Fingerprint(t),
           NEW a, NEW b, Begins(a, s), Begins(b, t),
           NEW i \in 1..Len(s), i \in 1..Len(t), Len(a[i - 1]) = Len(b[i - 1])
    PROVE  s[i] = t[i] /\ Len(a[i]) = Len(b[i])
<1> DEFINE text == Fingerprint(s)
<1> DEFINE other == Fingerprint(t)
<1> DEFINE m == Len(a[i - 1]) + Bar(i)
<1> DEFINE o == Len(b[i - 1]) + Bar(i)
<1> DEFINE k == Len(s[i].name)
<1> DEFINE l == Len(t[i].name)
<1>0. /\ FieldAt(text, m, k, s[i]) /\ FieldAt(other, o, l, t[i]) /\ other = text /\ o = m
      /\ Len(a[i]) = m + k + 4 /\ Len(b[i]) = o + l + 4
  BY FieldInText
<1> HIDE DEF text, other, m, o, k, l
<1>1. /\ m \in Nat /\ k \in Nat /\ Len(a[i]) = m + k + 4
      /\ \A j \in 1..k : text[m + j] = s[i].name[j]
      /\ text[m + k + 1] = ":" /\ text[m + k + 2] = s[i].type
      /\ text[m + k + 4] = IF s[i].nullable THEN "true" ELSE "false"
  BY <1>0 DEF FieldAt
<1>2. /\ l \in Nat /\ Len(b[i]) = m + l + 4
      /\ \A j \in 1..l : text[m + j] = t[i].name[j]
      /\ text[m + l + 1] = ":" /\ text[m + l + 2] = t[i].type
      /\ text[m + l + 4] = IF t[i].nullable THEN "true" ELSE "false"
  BY <1>0 DEF FieldAt
<1>3. s[i] \in Field /\ t[i] \in Field
  BY ElementOfSeq
<1>4. /\ s[i].name \in Seq(STRING) /\ t[i].name \in Seq(STRING)
      /\ s[i].nullable \in BOOLEAN /\ t[i].nullable \in BOOLEAN
  BY <1>3 DEF Field, Name
<1>5. (\A j \in 1..k : s[i].name[j] # ":") /\ (\A j \in 1..l : t[i].name[j] # ":")
  <2>1. i \in DOMAIN s /\ i \in DOMAIN t
    BY LenProperties
  <2>2. ":" \notin Range(s[i].name) /\ ":" \notin Range(t[i].name)
    BY <2>1 DEF Separable
  <2> QED
    BY <1>4, <2>2 DEF Range, k, l
<1>6. ~(k < l)
  <2> SUFFICES ASSUME k < l PROVE FALSE
    OBVIOUS
  <2>1. k + 1 \in 1..l /\ m + (k + 1) = m + k + 1
    BY <1>1, <1>2
  <2>2. text[m + (k + 1)] = t[i].name[k + 1]
    BY <1>2, <2>1
  <2> QED
    BY <1>1, <1>5, <2>1, <2>2
<1>7. ~(l < k)
  <2> SUFFICES ASSUME l < k PROVE FALSE
    OBVIOUS
  <2>1. l + 1 \in 1..k /\ m + (l + 1) = m + l + 1
    BY <1>1, <1>2
  <2>2. text[m + (l + 1)] = s[i].name[l + 1]
    BY <1>1, <2>1
  <2> QED
    BY <1>2, <1>5, <2>1, <2>2
<1>8. k = l
  BY <1>1, <1>2, <1>6, <1>7
<1>9. s[i].name = t[i].name
  <2>1. \A j \in 1..k : s[i].name[j] = t[i].name[j]
    BY <1>1, <1>2, <1>8
  <2> QED
    BY <1>4, <1>8, <2>1, SeqEqual DEF k, l
<1>10. s[i].type = t[i].type
  BY <1>1, <1>2, <1>8
<1>11. s[i].nullable = t[i].nullable
  <2>1. (IF s[i].nullable THEN "true" ELSE "false") = (IF t[i].nullable THEN "true" ELSE "false")
    BY <1>1, <1>2, <1>8
  <2> QED
    BY <1>4, <2>1
<1>12. s[i] = t[i]
  <2>1. \A f \in Field : f = [name |-> f.name, type |-> f.type, nullable |-> f.nullable]
    BY DEF Field
  <2>2. /\ s[i] = [name |-> s[i].name, type |-> s[i].type, nullable |-> s[i].nullable]
        /\ t[i] = [name |-> t[i].name, type |-> t[i].type, nullable |-> t[i].nullable]
    BY <1>3, <2>1
  <2> QED
    BY <1>9, <1>10, <1>11, <2>2, Zenon
<1> QED
  BY <1>1, <1>2, <1>8, <1>12

LEMMA SameBegins ==
    ASSUME NEW s \in Seq(Field), NEW t \in Seq(Field), Separable(s), Separable(t),
           Fingerprint(s) = Fingerprint(t),
           NEW a, NEW b, Begins(a, s), Begins(b, t)
    PROVE  \A i \in 0..Len(s) : i <= Len(t) =>
              Len(a[i]) = Len(b[i]) /\ \A j \in 1..i : s[j] = t[j]
<1> DEFINE m == Len(s)
<1> DEFINE n == Len(t)
<1>1. m \in Nat /\ n \in Nat
  OBVIOUS
<1> DEFINE Same(i) == Len(a[i]) = Len(b[i]) /\ \A j \in 1..i : s[j] = t[j]
<1> DEFINE T == {i \in 0..m : i <= n /\ ~Same(i)}
<1>2. T = {}
  <2> SUFFICES ASSUME T # {} PROVE FALSE
    OBVIOUS
  <2>1. PICK i \in T : \A j \in T : i <= j
    <3>1. T \subseteq Nat
      BY <1>1
    <3> HIDE DEF T
    <3> QED
      BY <3>1, LeastElement
  <2>2. i \in 0..m /\ i <= n /\ ~Same(i)
    OBVIOUS
  <2>3. i # 0
    <3>1. a[0] = b[0] /\ 1..0 = {}
      BY DEF Begins
    <3>2. Same(0)
      BY <3>1
    <3> HIDE DEF Same
    <3> QED
      BY <2>2, <3>2
  <2>4. i \in 1..m /\ i \in 1..n /\ i - 1 \in 0..m /\ i - 1 <= n /\ ~(i <= i - 1)
    BY <1>1, <2>2, <2>3
  <2>5. Same(i - 1)
    <3>1. i - 1 \notin T
      BY <2>1, <2>4
    <3> HIDE DEF Same
    <3> QED
      BY <2>4, <3>1
  <2>6. s[i] = t[i] /\ Len(a[i]) = Len(b[i])
    BY <2>4, <2>5, SameField
  <2>7. \A j \in 1..i : j \in 1..(i - 1) \/ j = i
    BY <2>4
  <2>8. Same(i)
    BY <2>5, <2>6, <2>7
  <2> HIDE DEF Same
  <2> QED
    BY <2>2, <2>8
<1> HIDE DEF Same
<1>3. \A i \in 0..m : i <= n => Same(i)
  BY <1>2
<1> QED
  BY <1>3 DEF Same

\* A text that is as long as one of its beginnings has no more fields.
LEMMA NoMoreFields ==
    ASSUME NEW s \in Seq(Field), NEW t \in Seq(Field), Fingerprint(s) = Fingerprint(t),
           NEW a, NEW b, Begins(a, s), Begins(b, t),
           Len(s) < Len(t), Len(a[Len(s)]) = Len(b[Len(s)])
    PROVE  FALSE
<1> DEFINE i == Len(s) + 1
<1>1. i \in 1..Len(t) /\ i - 1 = Len(s)
  OBVIOUS
<1> HIDE DEF i
<1> DEFINE m == Len(b[i - 1]) + Bar(i)
<1> DEFINE l == Len(t[i].name)
<1>2. m \in Nat /\ l \in Nat /\ m + l + 4 <= Len(Fingerprint(t))
  BY <1>1, FieldInText DEF FieldAt
<1>3. Len(b[i - 1]) = Len(Fingerprint(t))
  BY <1>1 DEF Begins
<1>4. Bar(i) \in Nat
  BY DEF Bar
<1>5. Len(b[i - 1]) \in Nat
  <2>1. i - 1 \in 0..Len(t)
    BY <1>1
  <2> QED
    BY <2>1, BeginOfText
<1> QED
  BY <1>2, <1>3, <1>4, <1>5

\* Fields whose names have no separator can be told from their text.
LEMMA FingerprintInjective ==
    ASSUME NEW s \in Seq(Field), NEW t \in Seq(Field), Separable(s), Separable(t),
           Fingerprint(s) = Fingerprint(t)
    PROVE  s = t
<1>1. PICK a : Begins(a, s)
  BY FingerprintBegins
<1>2. PICK b : Begins(b, t)
  BY FingerprintBegins
<1> DEFINE m == Len(s)
<1> DEFINE n == Len(t)
<1>3. m \in Nat /\ n \in Nat
  OBVIOUS
<1>4. \A i \in 0..m : i <= n => Len(a[i]) = Len(b[i]) /\ \A j \in 1..i : s[j] = t[j]
  BY <1>1, <1>2, SameBegins
<1>5. ~(m < n)
  <2> SUFFICES ASSUME m < n PROVE FALSE
    OBVIOUS
  <2>1. Len(a[m]) = Len(b[m])
    BY <1>3, <1>4
  <2> QED
    BY <1>1, <1>2, <2>1, NoMoreFields
<1>6. ~(n < m)
  <2> SUFFICES ASSUME n < m PROVE FALSE
    OBVIOUS
  <2>1. Len(b[n]) = Len(a[n])
    BY <1>3, <1>4
  <2> QED
    BY <1>1, <1>2, <2>1, NoMoreFields
<1>7. m = n /\ \A j \in 1..m : s[j] = t[j]
  BY <1>3, <1>4, <1>5, <1>6
<1> QED
  BY <1>7, SeqEqual

\* The fields of a scanned file are those of a content that was decoded.
FieldsInv == \A f \in Files(files) : f.schema # None => f.schema.fields \in Seq(Field)

LEMMA DecodedFields ==
    ASSUME ScanInv, Current # None
    PROVE  Current.fields \in Seq(Field)
<1>1. Current \in Contents \ {None}
  BY CurrentHeld DEF ScanInv, HeldInv
<1>2. Current.fields \in Seq(Range(Current.fields)) /\ Range(Current.fields) \subseteq Field
  BY <1>1, ContentsAssumption DEF IsContent
<1> QED
  BY <1>2, SeqMonotonic

LEMMA NextFields == ScanInv /\ FieldsInv /\ [Next]_vars => FieldsInv'
<1> SUFFICES ASSUME ScanInv, FieldsInv, [Next]_vars PROVE FieldsInv'
  OBVIOUS
<1>1. ASSUME NEW file, Add(file), file.schema # None => file.schema.fields \in Seq(Field)
      PROVE  FieldsInv'
  <2>1. Files(files)' = Files(files) \cup {file}
    BY <1>1, FilesGrow DEF Add, ScanInv, FilesInv
  <2> QED
    BY <1>1, <2>1 DEF FieldsInv
<1>2. ASSUME NEW path, NEW first
      PROVE  Current # None => ParquetFile(path, first, Current).schema.fields \in Seq(Field)
  BY DecodedFields DEF ParquetFile
<1>3. ASSUME NEW path, OtherFile(path, Current).schema # None, Current # None
      PROVE  OtherFile(path, Current).schema.fields \in Seq(Field)
  BY <1>3, DecodedFields DEF OtherFile
<1>4. Readable(Current) => Current # None
  BY DEF Readable, HasFooter
<1>5. CASE ReadSchema
  BY <1>1, <1>2, <1>4, <1>5 DEF ReadSchema
<1>6. CASE ScanOther
  BY <1>1, <1>3, <1>4, <1>6 DEF ScanOther
<1>7. CASE ScanLance
  <2>1. OtherFile(Target, [size |-> 0]).schema = None
    BY <1>7 DEF ScanLance, OtherFile, Supported
  <2> QED
    BY <1>1, <1>7, <2>1 DEF ScanLance
<1>8. CASE Answer
  <2>1. CASE FormatOf(Target) = "Parquet"
    BY <1>1, <1>2, <1>4, <1>8, <2>1 DEF Answer
  <2>2. CASE FormatOf(Target) # "Parquet"
    BY <1>1, <1>3, <1>4, <1>8, <2>2 DEF Answer
  <2> QED
    BY <2>1, <2>2
<1>9. CASE \/ Fail \/ Expand \/ SkipUnknown \/ OpenParquet \/ Request \/ Scanned \/ CheckRules
           \/ Replace \/ UNCHANGED vars
  <2>1. files' = files
    BY <1>9 DEF Fail, Expand, SkipUnknown, OpenParquet, Request, Scanned, CheckRules, Replace, vars
  <2> QED
    BY <2>1 DEF FieldsInv
<1>10. ExpandError \/ ReadFails \/ RemoteLance \/ FetchFails \/ NothingScanned => Fail
  BY DEF ExpandError, ReadFails, RemoteLance, FetchFails, NothingScanned
<1> QED
  BY <1>5, <1>6, <1>7, <1>8, <1>9, <1>10 DEF Next, Step

\* The reports of AL003 are those of the rule that compares the schemas.
LEMMA DriftByRule ==
    ASSUME NEW D
    PROVE  {r \in All(D) : r.rule = "AL003"} = InconsistentSchemas(D)
<1>1. InconsistentSchemas(D) \subseteq {r \in All(D) : r.rule = "AL003"}
  BY SchemaRules DEF All, ParquetDiagnostics
<1>2. \A r \in ParquetDiagnostics(D) : r.rule = "AL003" => r \in InconsistentSchemas(D)
  BY LayoutRules, SchemaRules, CountRule DEF ParquetDiagnostics, InvalidParquetSizeMetadata
<1>3. \A r \in GeoParquetDiagnostics(D) : r.rule # "AL003"
  BY SchemaRules, GeoRule DEF GeoParquetDiagnostics
<1> QED
  BY <1>1, <1>2, <1>3 DEF All

\* The rule compares each text with that of one of the schemas.
LEMMA DriftOfDataset ==
    ASSUME NEW D, D \in Seq(Range(D))
    PROVE  LET schemas == {i \in DOMAIN D : D[i].schema # None}
           IN  schemas # {} =>
                 \E b \in schemas :
                    InconsistentSchemas(D) =
                       {Report("AL003", D[i], WholeFile) :
                          i \in {j \in schemas : Fingerprint(D[j].schema.fields)
                                                   # Fingerprint(D[b].schema.fields)}}
<1> DEFINE schemas == {i \in DOMAIN D : D[i].schema # None}
<1> SUFFICES ASSUME schemas # {}
             PROVE  \E b \in schemas :
                       InconsistentSchemas(D) =
                          {Report("AL003", D[i], WholeFile) :
                             i \in {j \in schemas : Fingerprint(D[j].schema.fields)
                                                      # Fingerprint(D[b].schema.fields)}}
  OBVIOUS
<1>1. schemas \subseteq Nat
  BY LenProperties
<1>2. Min(schemas) \in schemas
  <2> HIDE DEF schemas
  <2> QED
    BY <1>1, LeastElement DEF Min
<1>3. InconsistentSchemas(D) =
        {Report("AL003", D[i], WholeFile) :
           i \in {j \in schemas : Fingerprint(D[j].schema.fields)
                                    # Fingerprint(D[Min(schemas)].schema.fields)}}
  BY Zenon DEF InconsistentSchemas
<1> HIDE DEF schemas
<1> QED
  BY <1>2, <1>3

\* AL003 reports a dataset only if some schemas differ, and tells the schemas apart whose
\* fields have no separator in their names: for any files, contents and replacements.
THEOREM SchemaDriftCorrect == Spec => []SchemaDrift
<1>1. Init => FieldsInv
  BY DEF Init, FieldsInv, Files
<1>2. ScanInv /\ FieldsInv => SchemaDrift
  <2> SUFFICES ASSUME ScanInv, FieldsInv, phase = "done"
               PROVE  /\ ~DriftSilent => \E s, t \in Schemas : s # t
                      /\ DriftSilent => \A s, t \in {u \in Schemas : Separable(u)} : s = t
    BY DEF SchemaDrift
  <2> DEFINE schemas == {i \in DOMAIN files : files[i].schema # None}
  <2>1. DriftSilent <=> InconsistentSchemas(files) = {}
    BY DriftByRule DEF DriftSilent, ScanInv, ReportInv
  <2>2. Schemas = {files[i].schema.fields : i \in schemas}
    BY DEF Schemas, Files
  <2>3. Schemas \subseteq Seq(Field)
    BY DEF Schemas, FieldsInv
  <2>4. CASE schemas = {}
    <3>1. InconsistentSchemas(files) = {}
      BY <2>4, Zenon DEF InconsistentSchemas
    <3> QED
      BY <2>1, <2>2, <2>4, <3>1
  <2>5. CASE schemas # {}
    <3>1. files \in Seq(Range(files))
      BY DEF ScanInv, FilesInv
    <3>2. PICK b \in schemas :
            InconsistentSchemas(files) =
              {Report("AL003", files[i], WholeFile) :
                 i \in {j \in schemas : Fingerprint(files[j].schema.fields)
                                          # Fingerprint(files[b].schema.fields)}}
      BY <2>5, <3>1, DriftOfDataset, Zenon
    <3> DEFINE base == files[b].schema.fields
    <3>3. base \in Schemas
      BY <2>2
    <3>4. ASSUME ~DriftSilent PROVE \E s, t \in Schemas : s # t
      <4>1. PICK i \in schemas : Fingerprint(files[i].schema.fields) # Fingerprint(base)
        BY <2>1, <3>2, <3>4
      <4> QED
        BY <2>2, <3>3, <4>1
    <3>5. ASSUME DriftSilent, NEW s \in Schemas, NEW t \in Schemas, Separable(s), Separable(t)
          PROVE  s = t
      <4>1. \A i \in schemas : Fingerprint(files[i].schema.fields) = Fingerprint(base)
        BY <2>1, <3>2, <3>5
      <4>2. Fingerprint(s) = Fingerprint(t)
        BY <2>2, <4>1
      <4> QED
        BY <2>3, <3>5, <4>2, FingerprintInjective
    <3> QED
      BY <3>4, <3>5
  <2> QED
    BY <2>4, <2>5
<1> QED
  BY <1>1, <1>2, InitScan, NextScan, NextFields, PTL DEF Spec

=============================================================================
