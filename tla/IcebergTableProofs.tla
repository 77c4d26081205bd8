------------------------- MODULE IcebergTableProofs -------------------------
(***************************************************************************)
(* Proofs about IcebergTable, for histories of any length and documents of *)
(* any size.                                                               *)
(*                                                                         *)
(* Sound is the declarative meaning of the rules AL101 to AL106 but for    *)
(* three conditions, which sound documents of healthy writers may miss:    *)
(* MainReferenced, LineageGiven and PartitionIdsKept.  The rules report    *)
(* nothing else exactly if a document is sound (SoundMeansClean).  They    *)
(* only compare neighbours of the snapshot log; Sound orders all of it.    *)
(* The main result is that every commit of a healthy writer to a sound     *)
(* document gives a sound one, one lemma per writer.  HistoryInv adds why  *)
(* a document misses one of the three conditions (Explained), Grounded     *)
(* what a faulty writer starts from, so that its fault is seen.            *)
(***************************************************************************)
EXTENDS IcebergTable, FiniteSetTheorems, WellFoundedInduction, TLAPS

-----------------------------------------------------------------------------
(* The shape of a document.                                                *)

IsArray(f, positions, S) == DOMAIN f \subseteq positions /\ f \in [DOMAIN f -> S]

SnapshotObject ==
    [id: Number, timestamp: Number, sequence: Number, schema: Number,
     manifest_list: BOOLEAN, manifests: BOOLEAN, operation: BOOLEAN, row_lineage: BOOLEAN]

LogEntry == [timestamp: Number, snapshot: Number]

Numbers ==
    {"version", "last_updated", "last_sequence", "last_column", "last_partition", "next_row",
     "current_schema", "default_spec", "default_order", "current_snapshot"}

Members ==
    Numbers \cup {"metadata_log", "location", "uuid", "schema", "spec", "schemas", "specs", "orders",
                  "snapshots", "refs", "refs_given", "log"}

ShapedNumbers(t) ==
    /\ \A m \in Numbers : t[m] \in Number
    /\ t.metadata_log \in Nat /\ t.location = "absolute" /\ t.uuid \in BOOLEAN

\* Schemas and partition specs come in arrays together.
FieldArrays(t, n) ==
    /\ t.schema = Missing \/ IsArray(t.schema, 0..(n - 1), Number)
    /\ t.spec = Missing \/ IsArray(t.spec, 0..(n - 1), FieldOfSpec)
    /\ DOMAIN t.schemas \subseteq 0..(n - 1)
    /\ \A i \in DOMAIN t.schemas : /\ t.schemas[i].id \in Nat
                                   /\ IsArray(t.schemas[i].fields, 0..(n - 1), Number)
    /\ DOMAIN t.specs \subseteq 0..(n - 1)
    /\ \A i \in DOMAIN t.specs : /\ t.specs[i].id \in Nat
                                 /\ IsArray(t.specs[i].fields, 0..(n - 1), FieldOfSpec)
    /\ t.orders = Missing \/ IsArray(t.orders, 0..(n - 1), SortOrder)
    /\ DOMAIN t.schemas = {} <=> DOMAIN t.specs = {}

\* A partition field of the single spec of an old document, never edited.
LegacyField == [id: Nat \ {0}, sources: SUBSET Number, transform: Transforms]

\* The writers of an old document partition it by one field.
SingleSpec(t) == DOMAIN t.schemas = {} /\ t.spec # Missing => IsArray(t.spec, {0}, LegacyField)

ShapedFields(t, n) == FieldArrays(t, n) /\ SingleSpec(t)

\* References come only with `refs'.
ShapedHistory(t, n) ==
    /\ IsArray(t.snapshots, 0..(n - 1), SnapshotObject)
    /\ IsArray(t.log, 0..(n - 1), LogEntry)
    /\ IsArray(t.refs, Branches \cup {"main"}, Number)
    /\ t.refs_given \in BOOLEAN
    /\ t.refs_given \/ DOMAIN t.refs = {}

\* A document, of any size, whose arrays use positions below n.
Document(t, n) ==
    DOMAIN t = Members /\ ShapedNumbers(t) /\ FieldArrays(t, n) /\ ShapedHistory(t, n)

\* One that the writers may have written.
Shaped(t, n) ==
    DOMAIN t = Members /\ ShapedNumbers(t) /\ ShapedFields(t, n) /\ ShapedHistory(t, n)

-----------------------------------------------------------------------------
(* Sound documents.  Three conditions of the rules are left aside, for     *)
(* they report documents that no writer got wrong.                         *)

RequiredSound(t) ==
    /\ t.last_updated \in Nat /\ t.last_column \in Nat
    /\ t.version >= 2 \/ t.schema = Missing
         => DOMAIN t.schemas # {} /\ t.current_schema # Missing
    /\ t.version >= 2 \/ t.spec = Missing
         => DOMAIN t.specs # {} /\ t.default_spec # Missing
    /\ t.version >= 2 => /\ t.uuid /\ t.last_sequence \in Nat /\ t.last_partition \in Nat
                         /\ t.orders # Missing /\ t.default_order # Missing
    /\ t.version = 3 => t.next_row \in Nat

ReferencesSound(t) ==
    /\ t.current_schema \in Ids(t.schemas) \cup {Missing}
    /\ t.default_spec \in Ids(t.specs) \cup {Missing}
    /\ t.default_order \in Ids(Orders(t)) \cup {Missing, 0}
    /\ CurrentSnapshot(t) \in Ids(t.snapshots) \cup {Missing}
    /\ t.refs_given => \A n \in DOMAIN t.refs : t.refs[n] \in Ids(t.snapshots)

\* An object with an ID is the only one with it.
Unique(array) ==
    \A i, j \in DOMAIN array : array[i].id = array[j].id /\ array[i].id # Missing => i = j

IdentifiersSound(t) ==
    Unique(t.schemas) /\ Unique(t.specs) /\ Unique(Orders(t)) /\ Unique(t.snapshots)

SnapshotSound(t, s) ==
    /\ s.id \in Nat \ {0}
    /\ s.timestamp \in 0..t.last_updated
    /\ ~(s.manifest_list /\ s.manifests)
    /\ t.version >= 2 => s.sequence \in 0..t.last_sequence /\ s.manifest_list /\ s.operation
    /\ s.schema \in Ids(t.schemas) \cup {Missing}

SnapshotsSound(t) == \A i \in DOMAIN t.snapshots : SnapshotSound(t, t.snapshots[i])

LogSound(t) ==
    /\ \A i \in DOMAIN t.log : /\ t.log[i].timestamp \in Int
                               /\ t.log[i].timestamp <= t.last_updated
                               /\ t.log[i].snapshot \in Ids(t.snapshots)
    /\ \A i, j \in DOMAIN t.log : i < j => t.log[i].timestamp < t.log[j].timestamp
    /\ CurrentSnapshot(t) # Missing
         => \A i \in LastEntry(t.log) : t.log[i].snapshot = CurrentSnapshot(t)

\* The field IDs of a schema are positive, distinct and below the mark.
SchemasSound(t) ==
    \A schema \in Schemas(t) : \A k \in DOMAIN schema :
        /\ schema[k] \in 1..t.last_column
        /\ \A l \in DOMAIN schema : schema[k] = schema[l] => k = l

\* An ID stands for one field of a partition spec.
PartitionsSound(t) ==
    /\ \A i \in DOMAIN t.specs : Unique(t.specs[i].fields)
    /\ t.version >= 2 => Identified(t) = PartitionFields(t)
    /\ t.last_partition # Missing
         => \A p \in Identified(t) : PartitionField(t, p).id <= t.last_partition

SourceSound(t, field) == ValidSources(t, field) /\ field.sources \subseteq AllFieldIds(t)

SourcesSound(t) ==
    /\ \A i \in DOMAIN t.specs : \A k \in DOMAIN t.specs[i].fields :
         SourceSound(t, t.specs[i].fields[k])
    /\ DOMAIN t.specs = {} /\ t.spec # Missing
         => \A k \in DOMAIN t.spec : SourceSound(t, t.spec[k])
    /\ \A i \in DOMAIN Orders(t) : \A k \in DOMAIN Orders(t)[i].fields :
         SourceSound(t, Orders(t)[i].fields[k])

Sound(t) ==
    /\ t.version \in 1..3
    /\ RequiredSound(t) /\ ReferencesSound(t) /\ IdentifiersSound(t)
    /\ SnapshotsSound(t) /\ LogSound(t)
    /\ SchemasSound(t) /\ PartitionsSound(t) /\ SourcesSound(t)

\* The three conditions, and what is reported of a document without them.
MainReferenced(t) ==
    t.refs_given => "main" \in DOMAIN t.refs /\ t.refs["main"] = CurrentSnapshot(t)

LineageGiven(t) == t.version = 3 => \A i \in DOMAIN t.snapshots : t.snapshots[i].row_lineage

PartitionIdsKept(t) == t.version >= 2 => ~ReassignedPartitionIds(t)

FalseAlarms == {MainError, LineageError, ReassignedError}

-----------------------------------------------------------------------------
LEMMA NegativeNumber ==
    ASSUME NEW value \in Number
    PROVE  ~Negative(value) <=> value \in Nat
BY MissingAssumption DEF Number, Negative

\* A number that is given and not later than a mark, as the rules say it.
LEMMA WithinMark ==
    ASSUME NEW value \in Number, NEW mark \in Nat
    PROVE  (~Negative(value) /\ ~(~Negative(value) /\ mark # Missing /\ value > mark))
             <=> value \in 0..mark
<1>1. CASE value = Missing
  BY <1>1, MissingAssumption DEF Negative
<1>2. CASE value \in Int
  <2>1. value # Missing /\ mark # Missing
    BY <1>2, MissingAssumption
  <2> QED
    BY <1>2, <2>1 DEF Negative
<1> QED
  BY <1>1, <1>2 DEF Number

LEMMA DanglingReference ==
    ASSUME NEW reference, NEW ids
    PROVE  ~Dangling(reference, ids) <=> reference \in ids \cup {Missing}
BY DEF Dangling

\* Most errors are never false alarms.
LEMMA NoFalseAlarmIn ==
    /\ \A t : /\ FormatVersion(t) \cap FalseAlarms = {}
              /\ RequiredMetadata(t) \cap FalseAlarms = {}
              /\ Identifiers(t) \cap FalseAlarms = {}
              /\ SnapshotLog(t) \cap FalseAlarms = {}
              /\ Report("AL106", "last-column-id", AboveMark(AllFieldIds(t), t.last_column))
                   \cap FalseAlarms = {}
    /\ \A schema : SchemaErrors(schema) \cap FalseAlarms = {}
    /\ \A t, field : SourceErrors(t, field) \cap FalseAlarms = {}
<1>1. \A e \in FalseAlarms : /\ e.rule \in {"AL103", "AL105", "AL106"}
                            /\ (e.rule = "AL105" => e.what = "row-lineage")
                            /\ (e.rule = "AL106" => e.what = "partition-ID-reassigned")
  BY DEF FalseAlarms, MainError, LineageError, ReassignedError, Error
<1>2. \A rule, what, condition : \A e \in Report(rule, what, condition) :
         e.rule = rule /\ e.what = what
  BY DEF Report, Error
<1>3. ASSUME NEW t
      PROVE  /\ \A e \in FormatVersion(t) : e.rule = "AL101"
             /\ \A e \in RequiredMetadata(t) : e.rule = "AL102"
             /\ \A e \in Identifiers(t) : e.rule = "AL104"
             /\ \A e \in SnapshotLog(t) : e.rule = "AL105" /\ e.what # "row-lineage"
  <2>1. /\ \A e \in FormatVersion(t) : e.rule = "AL101"
        /\ \A e \in Identifiers(t) : e.rule = "AL104"
    BY <1>2 DEF FormatVersion, Identifiers
  <2>2. \A e \in RequiredMetadata(t) : \E what, condition : e \in Report("AL102", what, condition)
    BY DEF RequiredMetadata
  <2>3. \A e \in SnapshotLog(t) : \E what \in {"log-timestamp", "log-later", "log-order",
                                               "log-snapshot", "log-end"} : e = Error("AL105", what)
    <3> DEFINE untimed == Timed(t.log) # DOMAIN t.log
               later == \E i \in Timed(t.log) :
                          t.last_updated # Missing /\ t.log[i].timestamp > t.last_updated
               order == \E i, j \in Timed(t.log) :
                          Follows(t.log, i, j) /\ t.log[j].timestamp <= t.log[i].timestamp
               unknown == \E i \in Timed(t.log) : t.log[i].snapshot \notin Ids(t.snapshots)
               end == CurrentSnapshot(t) # Missing
                        /\ \E i \in LastEntry(t.log) : t.log[i].snapshot # CurrentSnapshot(t)
    <3>1. SnapshotLog(t) = Report("AL105", "log-timestamp", untimed)
                             \cup Report("AL105", "log-later", later)
                             \cup Report("AL105", "log-order", order)
                             \cup Report("AL105", "log-snapshot", unknown)
                             \cup Report("AL105", "log-end", end)
      BY DEF SnapshotLog
    <3> HIDE DEF untimed, later, order, unknown, end
    <3> QED
      BY <3>1 DEF Report
  <2>4. \A e \in SnapshotLog(t) : e.rule = "AL105" /\ e.what # "row-lineage"
    BY <2>3 DEF Error
  <2> QED
    BY <1>2, <2>1, <2>2, <2>4
<1>4. ASSUME NEW schema, NEW e \in SchemaErrors(schema)
      PROVE  e.rule = "AL106" /\ e.what # "partition-ID-reassigned"
  <2>1. \E condition : \/ e \in Report("AL106", "no-ID", condition)
                       \/ e \in Report("AL106", "duplicate-ID", condition)
                       \/ e \in Report("AL106", "ID-not-positive", condition)
    BY Zenon DEF SchemaErrors
  <2> QED
    BY <1>2, <2>1
<1>5. ASSUME NEW t, NEW field, NEW e \in SourceErrors(t, field)
      PROVE  e.rule = "AL106" /\ e.what # "partition-ID-reassigned"
  BY <1>2 DEF SourceErrors
<1> QED
  BY <1>1, <1>2, <1>3, <1>4, <1>5

\* A condition is reported as a false alarm or rules the document out.
LEMMA ReportWithin ==
    /\ \A rule, what, condition :
         /\ Report(rule, what, condition) \subseteq FalseAlarms
              <=> ~condition \/ Error(rule, what) \in FalseAlarms
         /\ \A e : e \in Report(rule, what, condition) <=> e = Error(rule, what) /\ condition
    /\ \A rule, what : Error(rule, what) \in FalseAlarms
                         <=> <<rule, what>> \in {<<"AL103", "main">>, <<"AL105", "row-lineage">>,
                                                <<"AL106", "partition-ID-reassigned">>}
    /\ \A rule, what, rule2, what2 : Error(rule, what) = Error(rule2, what2)
                                       <=> rule = rule2 /\ what = what2
<1>1. \A rule, what, rule2, what2 : Error(rule, what) = Error(rule2, what2)
                                     <=> rule = rule2 /\ what = what2
  BY DEF Error
<1>2. \A rule, what : Error(rule, what) \in FalseAlarms
                         <=> <<rule, what>> \in {<<"AL103", "main">>, <<"AL105", "row-lineage">>,
                                                <<"AL106", "partition-ID-reassigned">>}
  BY <1>1 DEF FalseAlarms, MainError, LineageError, ReassignedError
<1>3. \A rule, what, condition :
         /\ Report(rule, what, condition) \subseteq FalseAlarms
              <=> ~condition \/ Error(rule, what) \in FalseAlarms
         /\ \A e : e \in Report(rule, what, condition) <=> e = Error(rule, what) /\ condition
  BY DEF Report
<1> QED
  BY <1>1, <1>2, <1>3

LEMMA RequiredMeansClean ==
    ASSUME NEW n, NEW t, Document(t, n), t.version \in 1..3
    PROVE  RequiredMetadata(t) = {} <=> RequiredSound(t)
<1>1. /\ t.last_updated \in Number /\ t.last_column \in Number /\ t.last_sequence \in Number
      /\ t.last_partition \in Number /\ t.next_row \in Number /\ t.location = "absolute"
  BY DEF Document, ShapedNumbers, Numbers
<1>2. RequiredMetadata(t) = {} <=>
        /\ ~(t.location # "absolute")
        /\ ~Negative(t.last_updated) /\ ~Negative(t.last_column)
        /\ ~((t.version >= 2 \/ t.schema = Missing)
               /\ (DOMAIN t.schemas = {} \/ t.current_schema = Missing))
        /\ ~((t.version >= 2 \/ t.spec = Missing)
               /\ (DOMAIN t.specs = {} \/ t.default_spec = Missing))
        /\ ~(t.version >= 2 /\ ~t.uuid)
        /\ ~(t.version >= 2 /\ Negative(t.last_sequence))
        /\ ~(t.version >= 2 /\ Negative(t.last_partition))
        /\ ~(t.version >= 2 /\ t.orders = Missing)
        /\ ~(t.version >= 2 /\ t.default_order = Missing)
        /\ ~(t.version = 3 /\ Negative(t.next_row))
  BY DEF RequiredMetadata, Report
<1> QED
  BY <1>1, <1>2, NegativeNumber, Zenon DEF RequiredSound

LEMMA ReferencesMeanClean ==
    ASSUME NEW t
    PROVE  /\ References(t) \subseteq FalseAlarms <=> ReferencesSound(t)
           /\ References(t) \cap FalseAlarms = {e \in {MainError} : ~MainReferenced(t)}
<1> DEFINE main == t.refs_given /\ ("main" \in DOMAIN t.refs => t.refs["main"] # CurrentSnapshot(t))
           refs == t.refs_given /\ \E n \in DOMAIN t.refs : t.refs[n] \notin Ids(t.snapshots)
           schema == Dangling(t.current_schema, Ids(t.schemas))
           spec == Dangling(t.default_spec, Ids(t.specs))
           order == t.default_order # 0 /\ Dangling(t.default_order, Ids(Orders(t)))
           snapshot == Dangling(CurrentSnapshot(t), Ids(t.snapshots))
<1>1. References(t) = Report("AL103", "current-schema-id", schema)
                        \cup Report("AL103", "default-spec-id", spec)
                        \cup Report("AL103", "default-sort-order-id", order)
                        \cup Report("AL103", "current-snapshot-id", snapshot)
                        \cup Report("AL103", "main", main) \cup Report("AL103", "refs", refs)
  BY DEF References, SnapshotReferences
<1>2. main <=> ~MainReferenced(t)
  BY Zenon DEF MainReferenced
<1>3. ~refs <=> (t.refs_given => \A n \in DOMAIN t.refs : t.refs[n] \in Ids(t.snapshots))
  BY Zenon
<1>4. ~order <=> t.default_order \in Ids(Orders(t)) \cup {Missing, 0}
  BY DEF Dangling
<1>5. /\ ~schema <=> t.current_schema \in Ids(t.schemas) \cup {Missing}
      /\ ~spec <=> t.default_spec \in Ids(t.specs) \cup {Missing}
      /\ ~snapshot <=> CurrentSnapshot(t) \in Ids(t.snapshots) \cup {Missing}
  BY DanglingReference
<1> HIDE DEF main, refs, schema, spec, order, snapshot
<1>6. References(t) \subseteq FalseAlarms <=> ~schema /\ ~spec /\ ~order /\ ~snapshot /\ ~refs
  <2>1. References(t) \subseteq FalseAlarms <=>
          /\ Report("AL103", "current-schema-id", schema) \subseteq FalseAlarms
          /\ Report("AL103", "default-spec-id", spec) \subseteq FalseAlarms
          /\ Report("AL103", "default-sort-order-id", order) \subseteq FalseAlarms
          /\ Report("AL103", "current-snapshot-id", snapshot) \subseteq FalseAlarms
          /\ Report("AL103", "main", main) \subseteq FalseAlarms
          /\ Report("AL103", "refs", refs) \subseteq FalseAlarms
    BY <1>1
  <2> QED
    BY <2>1, ReportWithin
<1>7. ASSUME NEW e
      PROVE  e \in References(t) \cap FalseAlarms <=> e = MainError /\ main
  BY <1>1, ReportWithin DEF MainError
<1> QED
  BY <1>2, <1>3, <1>4, <1>5, <1>6, <1>7 DEF ReferencesSound

LEMMA IdentifiersMeanClean ==
    ASSUME NEW t
    PROVE  Identifiers(t) = {} <=> IdentifiersSound(t)
<1>1. ASSUME NEW array PROVE ~Duplicate(array) <=> Unique(array)
  BY Zenon DEF Duplicate, Unique
<1>2. Identifiers(t) = {} <=> ~(\/ Duplicate(t.schemas) \/ Duplicate(t.specs)
                               \/ Duplicate(Orders(t)) \/ Duplicate(t.snapshots))
  BY DEF Identifiers, Report
<1> QED
  BY <1>1, <1>2 DEF IdentifiersSound

LEMMA SnapshotMeansClean ==
    ASSUME NEW n, NEW t, Document(t, n), t.version \in 1..3, RequiredSound(t), NEW i \in DOMAIN t.snapshots
    PROVE  SnapshotErrors(t, t.snapshots[i]) \subseteq FalseAlarms <=> SnapshotSound(t, t.snapshots[i])
<1> DEFINE s == t.snapshots[i]
<1>1. s \in SnapshotObject
  BY DEF Document, ShapedHistory, IsArray
<1>2. s.id \in Number /\ s.timestamp \in Number /\ s.sequence \in Number
  BY <1>1 DEF SnapshotObject
<1> HIDE DEF s
<1> DEFINE id == s.id = Missing \/ s.id <= 0
           later == ~Negative(s.timestamp) /\ t.last_updated # Missing /\ s.timestamp > t.last_updated
           both == s.manifest_list /\ s.manifests
           unnumbered == t.version >= 2 /\ Negative(s.sequence)
           beyond == t.version >= 2 /\ ~Negative(s.sequence)
                       /\ t.last_sequence # Missing /\ s.sequence > t.last_sequence
           unlisted == t.version >= 2 /\ ~s.manifest_list
           nameless == t.version >= 2 /\ ~s.operation
           dangling == Dangling(s.schema, Ids(t.schemas))
           lineage == t.version = 3 /\ ~s.row_lineage
<1>3. SnapshotErrors(t, s) \subseteq FalseAlarms <=>
        ~id /\ ~Negative(s.timestamp) /\ ~later /\ ~both /\ ~unnumbered /\ ~beyond /\ ~unlisted
          /\ ~nameless /\ ~dangling
  <2>1. SnapshotErrors(t, s) \subseteq FalseAlarms <=>
          /\ Report("AL105", "snapshot-id", id) \subseteq FalseAlarms
          /\ Report("AL105", "timestamp-ms", Negative(s.timestamp)) \subseteq FalseAlarms
          /\ Report("AL105", "timestamp-later", later) \subseteq FalseAlarms
          /\ Report("AL105", "both-manifests", both) \subseteq FalseAlarms
          /\ Report("AL105", "sequence-number", unnumbered) \subseteq FalseAlarms
          /\ Report("AL105", "sequence-later", beyond) \subseteq FalseAlarms
          /\ Report("AL105", "manifest-list", unlisted) \subseteq FalseAlarms
          /\ Report("AL105", "operation", nameless) \subseteq FalseAlarms
          /\ Report("AL105", "schema-id", dangling) \subseteq FalseAlarms
          /\ Report("AL105", "row-lineage", lineage) \subseteq FalseAlarms
    BY DEF SnapshotErrors
  <2>2. \A what, condition : what # "row-lineage" =>
          (Report("AL105", what, condition) \subseteq FalseAlarms <=> ~condition)
    BY ReportWithin
  <2>3. \A condition : Report("AL105", "row-lineage", condition) \subseteq FalseAlarms
    BY ReportWithin
  <2> HIDE DEF id, later, both, unnumbered, beyond, unlisted, nameless, dangling, lineage
  <2> QED
    BY <2>1, <2>2, <2>3
<1>4. t.last_updated \in Nat /\ (t.version >= 2 => t.last_sequence \in Nat)
  BY DEF RequiredSound
<1>5. ~(s.id = Missing \/ s.id <= 0) <=> s.id \in Nat \ {0}
  BY <1>2, MissingAssumption DEF Number
<1>6. (~Negative(s.timestamp)
         /\ ~(~Negative(s.timestamp) /\ t.last_updated # Missing /\ s.timestamp > t.last_updated))
        <=> s.timestamp \in 0..t.last_updated
  BY <1>2, <1>4, WithinMark
<1>7. t.version >= 2 =>
        ((~Negative(s.sequence)
           /\ ~(~Negative(s.sequence) /\ t.last_sequence # Missing /\ s.sequence > t.last_sequence))
           <=> s.sequence \in 0..t.last_sequence)
  BY <1>2, <1>4, WithinMark
<1>8. ~Dangling(s.schema, Ids(t.schemas)) <=> s.schema \in Ids(t.schemas) \cup {Missing}
  BY DanglingReference
<1>9. SnapshotErrors(t, s) \subseteq FalseAlarms <=> SnapshotSound(t, s)
  BY <1>3, <1>5, <1>6, <1>7, <1>8, Zenon DEF SnapshotSound
<1> QED
  BY <1>9 DEF s

\* A snapshot without row lineage is the only false alarm about it.
LEMMA SnapshotAlarm ==
    ASSUME NEW t, NEW s
    PROVE  SnapshotErrors(t, s) \cap FalseAlarms = {e \in {LineageError} : t.version = 3 /\ ~s.row_lineage}
<1>1. ASSUME NEW e
      PROVE  e \in SnapshotErrors(t, s) \cap FalseAlarms
               <=> e = LineageError /\ t.version = 3 /\ ~s.row_lineage
  <2>1. \A what, condition : what # "row-lineage" => Report("AL105", what, condition) \cap FalseAlarms = {}
    BY ReportWithin
  <2>2. e \in SnapshotErrors(t, s) =>
          \/ \E what, condition : what # "row-lineage" /\ e \in Report("AL105", what, condition)
          \/ e \in Report("AL105", "row-lineage", t.version = 3 /\ ~s.row_lineage)
    BY DEF SnapshotErrors
  <2>3. Report("AL105", "row-lineage", t.version = 3 /\ ~s.row_lineage) \subseteq SnapshotErrors(t, s)
    BY DEF SnapshotErrors
  <2> QED
    BY <2>1, <2>2, <2>3, ReportWithin DEF LineageError
<1> QED
  BY <1>1

-----------------------------------------------------------------------------
\* A nonempty set of natural numbers has a least element.
NatLess == {p \in Nat \X Nat : p[1] < p[2]}

LEMMA NatLessWellFounded == IsWellFoundedOn(NatLess, Nat)
BY NatLessThanWellFounded DEF OpToRel, NatLess

LEMMA LeastElement ==
    ASSUME NEW T, T \subseteq Nat, T # {}
    PROVE  \E x \in T : \A y \in T : x <= y
<1>1. PICK x \in T : \A y \in T : ~(<<y, x>> \in NatLess)
  BY NatLessWellFounded, WFMin
<1>2. ASSUME NEW y \in T PROVE x <= y
  <2>1. ~(y < x)
    BY <1>1 DEF NatLess
  <2> QED
    BY <2>1
<1> QED
  BY <1>2

\* So a bounded one has a greatest.
LEMMA GreatestElement ==
    ASSUME NEW n \in Nat, NEW T, T \subseteq 0..n, T # {}
    PROVE  \E x \in T : \A y \in T : y <= x
<1> DEFINE U == {n - x : x \in T}
<1>1. U \subseteq Nat /\ U # {}
  <2>1. \A x \in T : n - x \in Nat /\ n - x \in U
    OBVIOUS
  <2> QED
    BY <2>1
<1>2. PICK u \in U : \A v \in U : u <= v
  <2> HIDE DEF U
  <2> QED
    BY <1>1, LeastElement
<1>3. PICK x \in T : u = n - x
  OBVIOUS
<1>4. ASSUME NEW y \in T PROVE y <= x
  <2>1. n - y \in U
    OBVIOUS
  <2>2. n - x <= n - y
    BY <1>2, <1>3, <2>1
  <2> QED
    BY <2>2
<1> QED
  BY <1>4

\* Neighbours in order make an array in order.
LEMMA NeighboursOrdered ==
    ASSUME NEW D, D \subseteq Nat, NEW f, \A i \in D : f[i] \in Int,
           \A i, j \in D : i < j /\ ~(\E k \in D : i < k /\ k < j) => f[i] < f[j]
    PROVE  \A i, j \in D : i < j => f[i] < f[j]
<1> SUFFICES ASSUME NEW i \in D, NEW j \in D, i < j, ~(f[i] < f[j])
             PROVE  FALSE
  OBVIOUS
<1> DEFINE T == {l \in D : i < l /\ ~(f[i] < f[l])}
<1>1. T \subseteq Nat /\ T # {}
  OBVIOUS
<1>2. PICK l \in T : \A m \in T : l <= m
  <2> HIDE DEF T
  <2> QED
    BY <1>1, LeastElement
\* The one before the first that is out of order.
<1> DEFINE U == {k \in D : k < l}
<1>3. U # {} /\ U \subseteq 0..l
  <2>1. l \in D /\ i < l /\ l \in Nat
    BY <1>2
  <2>2. i \in U
    BY <2>1
  <2>3. \A k \in U : k \in 0..l
    BY <2>1
  <2> HIDE DEF U
  <2> QED
    BY <2>1, <2>2, <2>3
<1>4. PICK k \in U : \A m \in U : m <= k
  <2>1. l \in Nat
    BY <1>2
  <2> HIDE DEF U
  <2> QED
    BY <1>3, <2>1, GreatestElement
<1>5. k \in D /\ k < l /\ i <= k
  BY <1>2, <1>4
<1>6. f[k] < f[l]
  <2>1. ~\E m \in D : k < m /\ m < l
    BY <1>2, <1>4
  <2> QED
    BY <1>2, <1>5, <2>1
<1>7. k = i \/ f[i] < f[k]
  <2>1. k \notin T
    BY <1>2, <1>5
  <2> QED
    BY <1>5, <2>1
<1>8. f[i] \in Int /\ f[k] \in Int /\ f[l] \in Int /\ ~(f[i] < f[l])
  BY <1>2, <1>5
<1> QED
  BY <1>6, <1>7, <1>8

LEMMA LogMeansClean ==
    ASSUME NEW n \in Nat, NEW t, Document(t, n), RequiredSound(t)
    PROVE  SnapshotLog(t) = {} <=> LogSound(t)
<1> DEFINE D == DOMAIN t.log
           time == [i \in D |-> t.log[i].timestamp]
<1>1. D \subseteq Nat
  BY DEF Document, ShapedHistory, IsArray
<1>2. \A i \in D : t.log[i].timestamp \in Number
  BY DEF Document, ShapedHistory, IsArray, LogEntry
<1>3. t.last_updated \in Nat /\ t.last_updated # Missing
  BY MissingAssumption DEF RequiredSound
<1>4. SnapshotLog(t) = {} <=>
        /\ ~(Timed(t.log) # D)
        /\ ~(\E i \in Timed(t.log) : t.last_updated # Missing /\ t.log[i].timestamp > t.last_updated)
        /\ ~(\E i, j \in Timed(t.log) :
                Follows(t.log, i, j) /\ t.log[j].timestamp <= t.log[i].timestamp)
        /\ ~(\E i \in Timed(t.log) : t.log[i].snapshot \notin Ids(t.snapshots))
        /\ ~(CurrentSnapshot(t) # Missing
                /\ \E i \in LastEntry(t.log) : t.log[i].snapshot # CurrentSnapshot(t))
  BY DEF SnapshotLog, Report
<1>5. Timed(t.log) = D <=> \A i \in D : t.log[i].timestamp \in Int
  BY <1>2, MissingAssumption DEF Timed, Number
<1>6. ASSUME Timed(t.log) = D
      PROVE  ~(\E i, j \in Timed(t.log) :
                 Follows(t.log, i, j) /\ t.log[j].timestamp <= t.log[i].timestamp)
               <=> \A i, j \in D : i < j => t.log[i].timestamp < t.log[j].timestamp
  <2>1. \A i \in D : time[i] \in Int /\ time[i] = t.log[i].timestamp
    BY <1>5, <1>6
  <2> HIDE DEF time
  <2>2. ASSUME ~(\E i, j \in Timed(t.log) :
                   Follows(t.log, i, j) /\ t.log[j].timestamp <= t.log[i].timestamp)
        PROVE  \A i, j \in D : i < j => time[i] < time[j]
    <3>1. ASSUME NEW i \in D, NEW j \in D, i < j, ~\E k \in D : i < k /\ k < j
          PROVE  time[i] < time[j]
      <4>1. ~(time[j] <= time[i])
        BY <1>6, <2>1, <2>2, <3>1 DEF Follows
      <4> QED
        BY <2>1, <4>1
    <3> HIDE DEF D
    <3> QED
      BY <1>1, <2>1, <3>1, NeighboursOrdered
  <2>3. ASSUME \A i, j \in D : i < j => time[i] < time[j],
               NEW i \in Timed(t.log), NEW j \in Timed(t.log), Follows(t.log, i, j)
        PROVE  ~(t.log[j].timestamp <= t.log[i].timestamp)
    <3>1. i \in D /\ j \in D /\ i < j
      BY <1>6, <2>3 DEF Follows
    <3>2. time[i] < time[j]
      BY <2>3, <3>1
    <3> QED
      BY <2>1, <3>1, <3>2
  <2> QED
    BY <2>1, <2>2, <2>3
<1>7. ASSUME Timed(t.log) = D
      PROVE  ~(\E i \in Timed(t.log) : t.last_updated # Missing /\ t.log[i].timestamp > t.last_updated)
               <=> \A i \in D : t.log[i].timestamp <= t.last_updated
  <2>1. \A i \in D : t.log[i].timestamp \in Int
    BY <1>5, <1>7
  <2> QED
    BY <1>3, <1>7, <2>1
<1> QED
  BY <1>4, <1>5, <1>6, <1>7, Zenon DEF LogSound

-----------------------------------------------------------------------------
(* The fields of schemas, partition specs and sort orders.                 *)

LEMMA SchemaArray ==
    ASSUME NEW n, NEW t, Document(t, n), NEW schema \in Schemas(t)
    PROVE  IsArray(schema, 0..(n - 1), Number)
<1>1. CASE DOMAIN t.schemas = {}
  BY <1>1 DEF Schemas, Document, FieldArrays
<1>2. CASE DOMAIN t.schemas # {}
  BY <1>2 DEF Schemas, Document, FieldArrays
<1> QED
  BY <1>1, <1>2

LEMMA SchemasMeanClean ==
    ASSUME NEW n, NEW t, Document(t, n), RequiredSound(t)
    PROVE  (/\ \A schema \in Schemas(t) : SchemaErrors(schema) = {}
            /\ ~AboveMark(AllFieldIds(t), t.last_column)) <=> SchemasSound(t)
<1>1. \A schema \in Schemas(t) : \A k \in DOMAIN schema : schema[k] \in Number
  BY SchemaArray DEF IsArray
<1>2. t.last_column \in Nat /\ t.last_column # Missing
  BY MissingAssumption DEF RequiredSound
<1>3. ASSUME NEW schema \in Schemas(t)
      PROVE  SchemaErrors(schema) = {} <=>
               \A k \in DOMAIN schema :
                 /\ schema[k] \in Int /\ schema[k] > 0
                 /\ \A l \in DOMAIN schema : schema[k] = schema[l] => k = l
  <2>1. SchemaErrors(schema) = {} <=>
          /\ ~(Missing \in SchemaIds(schema))
          /\ ~(\E k, l \in DOMAIN schema : k # l /\ schema[k] = schema[l] /\ schema[k] # Missing)
          /\ ~(\E id \in SchemaIds(schema) \ {Missing} : id <= 0)
    BY DEF SchemaErrors, Report
  <2>2. ~(Missing \in SchemaIds(schema)) <=> \A k \in DOMAIN schema : schema[k] \in Int
    BY <1>1, MissingAssumption DEF SchemaIds, Number
  <2>3. ASSUME \A k \in DOMAIN schema : schema[k] \in Int
        PROVE  /\ ~(\E k, l \in DOMAIN schema : k # l /\ schema[k] = schema[l] /\ schema[k] # Missing)
                     <=> \A k, l \in DOMAIN schema : schema[k] = schema[l] => k = l
               /\ ~(\E id \in SchemaIds(schema) \ {Missing} : id <= 0)
                     <=> \A k \in DOMAIN schema : schema[k] > 0
    <3>1. \A k \in DOMAIN schema : schema[k] # Missing
      BY <2>3, MissingAssumption
    <3>2. SchemaIds(schema) \ {Missing} = SchemaIds(schema)
      BY <3>1 DEF SchemaIds
    <3>3. ~(\E id \in SchemaIds(schema) : id <= 0) <=> \A k \in DOMAIN schema : schema[k] > 0
      BY <2>3 DEF SchemaIds
    <3> QED
      BY <3>1, <3>2, <3>3
  <2> QED
    BY <2>1, <2>2, <2>3
<1>4. AllFieldIds(t) =
        {id \in UNION {SchemaIds(schema) : schema \in Schemas(t)} : id # Missing}
  BY DEF AllFieldIds
<1>5. ASSUME \A schema \in Schemas(t) : \A k \in DOMAIN schema : schema[k] \in Int
      PROVE  ~AboveMark(AllFieldIds(t), t.last_column)
               <=> \A schema \in Schemas(t) : \A k \in DOMAIN schema : schema[k] <= t.last_column
  <2>1. \A schema \in Schemas(t) : \A k \in DOMAIN schema : schema[k] \in AllFieldIds(t)
    BY <1>4, <1>5, MissingAssumption DEF SchemaIds
  <2>2. \A id \in AllFieldIds(t) :
          id \in Int /\ \E schema \in Schemas(t) : \E k \in DOMAIN schema : id = schema[k]
    BY <1>4, <1>5 DEF SchemaIds
  <2> QED
    BY <1>2, <1>5, <2>1, <2>2 DEF AboveMark
<1>6. SchemasSound(t) <=>
        \A schema \in Schemas(t) :
          /\ \A k \in DOMAIN schema :
               /\ schema[k] \in Int /\ schema[k] > 0
               /\ \A l \in DOMAIN schema : schema[k] = schema[l] => k = l
          /\ \A k \in DOMAIN schema : schema[k] <= t.last_column
  BY <1>2 DEF SchemasSound
<1> QED
  BY <1>3, <1>5, <1>6

LEMMA SpecFields ==
    ASSUME NEW n, NEW t, Document(t, n), NEW p \in PartitionFields(t)
    PROVE  /\ p = <<p[1], p[2]>> /\ p[1] \in DOMAIN t.specs
           /\ p[2] \in DOMAIN t.specs[p[1]].fields
           /\ PartitionField(t, p) \in FieldOfSpec
           /\ PartitionField(t, p).id \in Number
<1>1. PICK i \in DOMAIN t.specs : p \in {i} \X DOMAIN t.specs[i].fields
  BY DEF PartitionFields
<1>2. p[1] = i /\ p[2] \in DOMAIN t.specs[i].fields /\ p = <<p[1], p[2]>>
  BY <1>1
<1>3. IsArray(t.specs[i].fields, 0..(n - 1), FieldOfSpec)
  BY DEF Document, FieldArrays
<1>4. PartitionField(t, p) \in FieldOfSpec
  BY <1>2, <1>3 DEF IsArray, PartitionField
<1> QED
  BY <1>2, <1>4 DEF FieldOfSpec

\* The fields of the specs, by their positions.
LEMMA PartitionFieldsAre ==
    ASSUME NEW t
    PROVE  /\ \A i \in DOMAIN t.specs : \A k \in DOMAIN t.specs[i].fields :
                /\ <<i, k>> \in PartitionFields(t)
                /\ PartitionField(t, <<i, k>>) = t.specs[i].fields[k]
           /\ \A p \in PartitionFields(t) :
                /\ p[1] \in DOMAIN t.specs /\ p[2] \in DOMAIN t.specs[p[1]].fields
                /\ p = <<p[1], p[2]>>
BY DEF PartitionFields, PartitionField

LEMMA PartitionsMeanClean ==
    ASSUME NEW n, NEW t, Document(t, n), t.version \in 1..3
    PROVE  /\ PartitionErrors(t) \subseteq FalseAlarms <=> PartitionsSound(t)
           /\ PartitionErrors(t) \cap FalseAlarms = {e \in {ReassignedError} : ~PartitionIdsKept(t)}
<1> DEFINE ids == {PartitionField(t, p).id : p \in Identified(t)}
           twice == \E p, q \in PartitionFields(t) :
                /\ p[1] = q[1] /\ p[2] # q[2]
                /\ PartitionField(t, p).id = PartitionField(t, q).id
                /\ PartitionField(t, p).id # Missing
           none == t.version \in Int /\ t.version >= 2 /\ Identified(t) # PartitionFields(t)
           again == t.version \in Int /\ t.version >= 2 /\ ReassignedPartitionIds(t)
           above == AboveMark(ids, t.last_partition)
<1>1. PartitionErrors(t) =
        Report("AL106", "duplicate-partition-ID", twice) \cup Report("AL106", "partition-ID", none)
          \cup Report("AL106", "partition-ID-reassigned", again)
          \cup Report("AL106", "last-partition-id", above)
  BY DEF PartitionErrors
<1>2. ~twice <=> \A i \in DOMAIN t.specs : Unique(t.specs[i].fields)
  <2>1. ASSUME ~twice, NEW i \in DOMAIN t.specs,
               NEW k \in DOMAIN t.specs[i].fields, NEW l \in DOMAIN t.specs[i].fields,
               t.specs[i].fields[k].id = t.specs[i].fields[l].id,
               t.specs[i].fields[k].id # Missing, k # l
        PROVE  FALSE
    <3> DEFINE p == <<i, k>>
               q == <<i, l>>
    <3>1. /\ p \in PartitionFields(t) /\ q \in PartitionFields(t)
          /\ PartitionField(t, p) = t.specs[i].fields[k] /\ PartitionField(t, q) = t.specs[i].fields[l]
      BY PartitionFieldsAre
    <3>2. p[1] = q[1] /\ p[2] # q[2]
      BY <2>1
    <3> QED
      BY <2>1, <3>1, <3>2
  <2>2. ASSUME \A i \in DOMAIN t.specs : Unique(t.specs[i].fields),
               NEW p \in PartitionFields(t), NEW q \in PartitionFields(t),
               p[1] = q[1], p[2] # q[2], PartitionField(t, p).id = PartitionField(t, q).id,
               PartitionField(t, p).id # Missing
        PROVE  FALSE
    <3>1. /\ p[1] \in DOMAIN t.specs /\ p[2] \in DOMAIN t.specs[p[1]].fields
          /\ q[2] \in DOMAIN t.specs[p[1]].fields
      BY <2>2, PartitionFieldsAre
    <3> QED
      BY <2>2, <3>1 DEF Unique, PartitionField
  <2> QED
    BY <2>1, <2>2 DEF Unique
<1>3. ~above <=> (t.last_partition # Missing
               => \A p \in Identified(t) : PartitionField(t, p).id <= t.last_partition)
  <2>1. \A p \in Identified(t) : PartitionField(t, p).id \in Int
    BY SpecFields DEF Identified, Number
  <2>2. t.last_partition # Missing => t.last_partition \in Int
    BY DEF Document, ShapedNumbers, Numbers, Number
  <2> QED
    BY <2>1, <2>2 DEF AboveMark
<1>4. again <=> ~PartitionIdsKept(t)
  BY DEF PartitionIdsKept
<1>5. ~none <=> (t.version >= 2 => Identified(t) = PartitionFields(t))
  OBVIOUS
<1> HIDE DEF twice, none, again, above
<1>6. PartitionErrors(t) \subseteq FalseAlarms <=> ~twice /\ ~none /\ ~above
  <2>1. PartitionErrors(t) \subseteq FalseAlarms <=>
          /\ Report("AL106", "duplicate-partition-ID", twice) \subseteq FalseAlarms
          /\ Report("AL106", "partition-ID", none) \subseteq FalseAlarms
          /\ Report("AL106", "partition-ID-reassigned", again) \subseteq FalseAlarms
          /\ Report("AL106", "last-partition-id", above) \subseteq FalseAlarms
    BY <1>1
  <2> QED
    BY <2>1, ReportWithin
<1>7. ASSUME NEW e
      PROVE  e \in PartitionErrors(t) \cap FalseAlarms <=> e = ReassignedError /\ again
  BY <1>1, ReportWithin DEF ReassignedError
<1> QED
  BY <1>2, <1>3, <1>4, <1>5, <1>6, <1>7, Zenon DEF PartitionsSound

LEMMA SourceMeansClean ==
    ASSUME NEW t, NEW field
    PROVE  SourceErrors(t, field) = {} <=> SourceSound(t, field)
<1>1. SourceErrors(t, field) = {} <=>
        /\ ~(~ValidSources(t, field))
        /\ ~(ValidSources(t, field) /\ ~(field.sources \subseteq AllFieldIds(t)))
  BY DEF SourceErrors, Report
<1> QED
  BY <1>1, Zenon DEF SourceSound

LEMMA SourcesMeanClean ==
    ASSUME NEW t
    PROVE  (/\ \A i \in DOMAIN t.specs : SourcesOf(t, t.specs[i].fields) = {}
            /\ LegacySources(t) = {}
            /\ \A i \in DOMAIN Orders(t) : SourcesOf(t, Orders(t)[i].fields) = {}) <=> SourcesSound(t)
<1>1. ASSUME NEW fields
      PROVE  SourcesOf(t, fields) = {} <=> \A k \in DOMAIN fields : SourceSound(t, fields[k])
  <2>1. SourcesOf(t, fields) = {} <=> \A k \in DOMAIN fields : SourceErrors(t, fields[k]) = {}
    BY DEF SourcesOf
  <2> QED
    BY <2>1, SourceMeansClean
<1>2. LegacySources(t) = {} <=>
        (DOMAIN t.specs = {} /\ t.spec # Missing => \A k \in DOMAIN t.spec : SourceSound(t, t.spec[k]))
  BY <1>1 DEF LegacySources
<1>3. (\A i \in DOMAIN t.specs : SourcesOf(t, t.specs[i].fields) = {}) <=>
        \A i \in DOMAIN t.specs : \A k \in DOMAIN t.specs[i].fields :
          SourceSound(t, t.specs[i].fields[k])
  BY <1>1
<1>4. (\A i \in DOMAIN Orders(t) : SourcesOf(t, Orders(t)[i].fields) = {}) <=>
        \A i \in DOMAIN Orders(t) : \A k \in DOMAIN Orders(t)[i].fields :
          SourceSound(t, Orders(t)[i].fields[k])
  BY <1>1
<1> QED
  BY <1>2, <1>3, <1>4, Zenon DEF SourcesSound

LEMMA FieldsMeanClean ==
    ASSUME NEW n, NEW t, Document(t, n), t.version \in 1..3, RequiredSound(t)
    PROVE  /\ FieldIds(t) \subseteq FalseAlarms
                <=> SchemasSound(t) /\ PartitionsSound(t) /\ SourcesSound(t)
           /\ FieldIds(t) \cap FalseAlarms = {e \in {ReassignedError} : ~PartitionIdsKept(t)}
<1> DEFINE schemas == UNION {SchemaErrors(schema) : schema \in Schemas(t)}
           mark == Report("AL106", "last-column-id", AboveMark(AllFieldIds(t), t.last_column))
           specs == UNION {SourcesOf(t, t.specs[i].fields) : i \in DOMAIN t.specs}
           orders == UNION {SourcesOf(t, Orders(t)[i].fields) : i \in DOMAIN Orders(t)}
<1>1. FieldIds(t) = schemas \cup mark \cup PartitionErrors(t) \cup specs \cup LegacySources(t)
                      \cup orders
  BY DEF FieldIds
<1>2. /\ schemas \cap FalseAlarms = {} /\ mark \cap FalseAlarms = {}
      /\ specs \cap FalseAlarms = {} /\ LegacySources(t) \cap FalseAlarms = {}
      /\ orders \cap FalseAlarms = {}
  <2>1. \A fields : SourcesOf(t, fields) \cap FalseAlarms = {}
    BY NoFalseAlarmIn DEF SourcesOf
  <2>2. LegacySources(t) \cap FalseAlarms = {}
    BY <2>1 DEF LegacySources
  <2> QED
    BY <2>1, <2>2, NoFalseAlarmIn
<1>3. /\ schemas = {} <=> \A schema \in Schemas(t) : SchemaErrors(schema) = {}
      /\ mark = {} <=> ~AboveMark(AllFieldIds(t), t.last_column)
      /\ specs = {} <=> \A i \in DOMAIN t.specs : SourcesOf(t, t.specs[i].fields) = {}
      /\ orders = {} <=> \A i \in DOMAIN Orders(t) : SourcesOf(t, Orders(t)[i].fields) = {}
  BY DEF Report
<1> HIDE DEF schemas, mark, specs, orders
<1>4. FieldIds(t) \subseteq FalseAlarms <=>
        /\ schemas = {} /\ mark = {} /\ specs = {} /\ LegacySources(t) = {} /\ orders = {}
        /\ PartitionErrors(t) \subseteq FalseAlarms
  BY <1>1, <1>2
<1>5. (/\ \A schema \in Schemas(t) : SchemaErrors(schema) = {}
       /\ ~AboveMark(AllFieldIds(t), t.last_column)) <=> SchemasSound(t)
  BY SchemasMeanClean
<1>6. /\ PartitionErrors(t) \subseteq FalseAlarms <=> PartitionsSound(t)
      /\ PartitionErrors(t) \cap FalseAlarms = {e \in {ReassignedError} : ~PartitionIdsKept(t)}
  BY PartitionsMeanClean
<1>7. (/\ \A i \in DOMAIN t.specs : SourcesOf(t, t.specs[i].fields) = {}
       /\ LegacySources(t) = {}
       /\ \A i \in DOMAIN Orders(t) : SourcesOf(t, Orders(t)[i].fields) = {}) <=> SourcesSound(t)
  BY SourcesMeanClean
<1>8. FieldIds(t) \cap FalseAlarms = PartitionErrors(t) \cap FalseAlarms
  BY <1>1, <1>2
<1> QED
  BY <1>3, <1>4, <1>5, <1>6, <1>7, <1>8, Zenon

\* AL101 to AL106 report nothing but false alarms exactly for a sound document, whatever its
\* size: however many fields a partition spec has (iceberg.rs:564), however many references.
\* They report nothing exactly if the three conditions hold, too.
THEOREM SoundMeansClean ==
    ASSUME NEW n \in Nat, NEW t, Document(t, n)
    PROVE  /\ Errors(t) \subseteq FalseAlarms <=> Sound(t)
           /\ Errors(t) = {}
                <=> Sound(t) /\ MainReferenced(t) /\ LineageGiven(t) /\ PartitionIdsKept(t)
           /\ Sound(t) =>
                Errors(t) = UNION {{e \in {MainError} : ~MainReferenced(t)},
                                   {e \in {LineageError} : ~LineageGiven(t)},
                                   {e \in {ReassignedError} : ~PartitionIdsKept(t)}}
<1> DEFINE snapshots == UNION {SnapshotErrors(t, t.snapshots[i]) : i \in DOMAIN t.snapshots}
<1>1. FormatVersion(t) = {} <=> t.version \in 1..3
  BY DEF FormatVersion, Report
<1>2. CASE t.version \notin 1..3
  <2>1. FormatVersion(t) \subseteq Errors(t) /\ FormatVersion(t) \cap FalseAlarms = {}
    BY NoFalseAlarmIn DEF Errors
  <2> QED
    BY <1>1, <1>2, <2>1 DEF Sound
<1>3. CASE t.version \in 1..3
  <2>1. Errors(t) = RequiredMetadata(t) \cup snapshots \cup SnapshotLog(t)
                      \cup References(t) \cup Identifiers(t) \cup FieldIds(t)
    BY <1>1, <1>3 DEF Errors, Snapshots
  <2>2. /\ RequiredMetadata(t) \cap FalseAlarms = {} /\ SnapshotLog(t) \cap FalseAlarms = {}
        /\ Identifiers(t) \cap FalseAlarms = {}
    BY NoFalseAlarmIn
  <2>3. snapshots \subseteq FalseAlarms
          <=> \A i \in DOMAIN t.snapshots : SnapshotErrors(t, t.snapshots[i]) \subseteq FalseAlarms
    OBVIOUS
  <2>4. snapshots \cap FalseAlarms = {e \in {LineageError} : ~LineageGiven(t)}
    <3>1. ASSUME NEW e
          PROVE  e \in snapshots \cap FalseAlarms
                   <=> e = LineageError /\ \E i \in DOMAIN t.snapshots :
                                            t.version = 3 /\ ~t.snapshots[i].row_lineage
      <4>1. e \in snapshots \cap FalseAlarms
              <=> \E i \in DOMAIN t.snapshots : e \in SnapshotErrors(t, t.snapshots[i]) \cap FalseAlarms
        OBVIOUS
      <4>2. ASSUME NEW i \in DOMAIN t.snapshots
            PROVE  e \in SnapshotErrors(t, t.snapshots[i]) \cap FalseAlarms
                     <=> e = LineageError /\ t.version = 3 /\ ~t.snapshots[i].row_lineage
        BY SnapshotAlarm
      <4> QED
        BY <4>1, <4>2
    <3>2. (\E i \in DOMAIN t.snapshots : t.version = 3 /\ ~t.snapshots[i].row_lineage)
            <=> ~LineageGiven(t)
      BY DEF LineageGiven
    <3> HIDE DEF snapshots
    <3> QED
      BY <3>1, <3>2
  <2> HIDE DEF snapshots
  <2>5. Errors(t) \subseteq FalseAlarms <=>
          /\ RequiredMetadata(t) = {} /\ snapshots \subseteq FalseAlarms
          /\ SnapshotLog(t) = {} /\ References(t) \subseteq FalseAlarms
          /\ Identifiers(t) = {} /\ FieldIds(t) \subseteq FalseAlarms
    BY <2>1, <2>2
  <2>6. Errors(t) \subseteq FalseAlarms <=> Sound(t)
    <3>1. CASE ~RequiredSound(t)
      BY <1>3, <2>5, <3>1, RequiredMeansClean DEF Sound
    <3>2. CASE RequiredSound(t)
      <4>1. RequiredMetadata(t) = {}
        BY <1>3, <3>2, RequiredMeansClean
      <4>2. snapshots \subseteq FalseAlarms <=> SnapshotsSound(t)
        BY <1>3, <2>3, <3>2, SnapshotMeansClean DEF SnapshotsSound
      <4>3. SnapshotLog(t) = {} <=> LogSound(t)
        BY <3>2, LogMeansClean
      <4>4. FieldIds(t) \subseteq FalseAlarms
              <=> SchemasSound(t) /\ PartitionsSound(t) /\ SourcesSound(t)
        BY <1>3, <3>2, FieldsMeanClean
      <4>5. References(t) \subseteq FalseAlarms <=> ReferencesSound(t)
        BY ReferencesMeanClean
      <4>6. Identifiers(t) = {} <=> IdentifiersSound(t)
        BY IdentifiersMeanClean
      <4> QED
        BY <1>3, <2>5, <3>2, <4>1, <4>2, <4>3, <4>4, <4>5, <4>6, Zenon DEF Sound
    <3> QED
      BY <3>1, <3>2
  <2>7. ASSUME Sound(t)
        PROVE  Errors(t) = UNION {{e \in {MainError} : ~MainReferenced(t)},
                                  {e \in {LineageError} : ~LineageGiven(t)},
                                  {e \in {ReassignedError} : ~PartitionIdsKept(t)}}
    <3>1. Errors(t) = (snapshots \cap FalseAlarms) \cup (References(t) \cap FalseAlarms)
                        \cup (FieldIds(t) \cap FalseAlarms)
      BY <2>1, <2>2, <2>6, <2>7
    <3>2. References(t) \cap FalseAlarms = {e \in {MainError} : ~MainReferenced(t)}
      BY ReferencesMeanClean
    <3>3. FieldIds(t) \cap FalseAlarms = {e \in {ReassignedError} : ~PartitionIdsKept(t)}
      BY <1>3, <2>7, FieldsMeanClean DEF Sound
    <3> QED
      BY <2>4, <3>1, <3>2, <3>3
  <2>8. Errors(t) = {}
          <=> Sound(t) /\ MainReferenced(t) /\ LineageGiven(t) /\ PartitionIdsKept(t)
    <3>1. Errors(t) = {} => Sound(t)
      BY <2>6
    <3>2. Sound(t) => (Errors(t) = {} <=> /\ MainReferenced(t) /\ LineageGiven(t)
                                          /\ PartitionIdsKept(t))
      BY <2>7
    <3> QED
      BY <3>1, <3>2
  <2> QED
    BY <2>6, <2>7, <2>8
<1> QED
  BY <1>2, <1>3

LEMMA ShapedDocument ==
    ASSUME NEW n, NEW t, Shaped(t, n)
    PROVE  Document(t, n)
BY DEF Shaped, ShapedFields, Document

-----------------------------------------------------------------------------
(* Arrays with one more object or with fewer.                              *)

LEMMA Pushed ==
    ASSUME NEW n \in Nat, NEW f, DOMAIN f \subseteq 0..(n - 1), NEW x
    PROVE  /\ \A i : i \in DOMAIN Push(f, n, x) <=> i \in DOMAIN f \/ i = n
           /\ n \notin DOMAIN f
           /\ Push(f, n, x)[n] = x
           /\ \A i \in DOMAIN f : Push(f, n, x)[i] = f[i]
           /\ \A i \in DOMAIN f : i \in Int /\ i < n
BY DEF Push

LEMMA PushedArray ==
    ASSUME NEW n \in Nat, NEW S, NEW f, IsArray(f, 0..(n - 1), S), NEW x \in S
    PROVE  IsArray(Push(f, n, x), 0..n, S)
BY Pushed DEF IsArray, Push

LEMMA GrownArray ==
    ASSUME NEW n \in Nat, NEW S, NEW f, IsArray(f, 0..(n - 1), S)
    PROVE  IsArray(f, 0..n, S)
BY DEF IsArray

LEMMA IdsMember ==
    ASSUME NEW f, NEW id
    PROVE  id \in Ids(f) <=> id # Missing /\ \E i \in DOMAIN f : f[i].id = id
BY DEF Ids

LEMMA PushedIds ==
    ASSUME NEW n \in Nat, NEW f, DOMAIN f \subseteq 0..(n - 1), NEW x, x.id # Missing
    PROVE  \A id : id \in Ids(Push(f, n, x)) <=> id \in Ids(f) \/ id = x.id
<1> DEFINE g == Push(f, n, x)
<1>1. /\ \A i : i \in DOMAIN g <=> i \in DOMAIN f \/ i = n
      /\ g[n] = x
      /\ \A i \in DOMAIN f : g[i] = f[i]
  BY Pushed
<1> HIDE DEF g
<1>2. ASSUME NEW id
      PROVE  id \in Ids(g) <=> id \in Ids(f) \/ id = x.id
  BY <1>1, IdsMember
<1> QED
  BY <1>2 DEF g

LEMMA PushedUnique ==
    ASSUME NEW n \in Nat, NEW f, DOMAIN f \subseteq 0..(n - 1), NEW x, x.id \notin Ids(f),
           Unique(f)
    PROVE  Unique(Push(f, n, x))
<1> DEFINE g == Push(f, n, x)
<1>1. /\ \A i : i \in DOMAIN g <=> i \in DOMAIN f \/ i = n
      /\ g[n] = x /\ n \notin DOMAIN f
      /\ \A i \in DOMAIN f : g[i] = f[i]
  BY Pushed
<1>2. \A i \in DOMAIN f : f[i].id = x.id => x.id = Missing
  BY IdsMember
<1> HIDE DEF g
<1>3. Unique(g)
  BY <1>1, <1>2 DEF Unique
<1> QED
  BY <1>3 DEF g

-----------------------------------------------------------------------------
(* Parts of a document that a commit leaves alone.                         *)

Same(t, u, members) == \A m \in members : u[m] = t[m]
SameBut(t, u, members) == \A m \in Members : m \notin members => u[m] = t[m]

ClockMembers     == {"last_updated", "metadata_log"}
SnapshotMembers  == {"snapshots", "last_sequence", "next_row"}
ReferenceMembers == {"refs", "refs_given"}
CurrentMembers   == ReferenceMembers \cup {"current_snapshot", "log"}

\* What a commit that is not about fields may change.
HistoryMembers   == ClockMembers \cup SnapshotMembers \cup CurrentMembers

\* A commit, made by Write(t): all but the clock is t.
Committed(t, u) ==
    /\ DOMAIN u = Members
    /\ SameBut(t, u, ClockMembers)
    /\ u.last_updated = t.last_updated + 1
    /\ u.metadata_log = t.metadata_log + 1

LEMMA WriteCommits ==
    ASSUME NEW t, DOMAIN t = Members, Write(t)
    PROVE  Committed(t, table') /\ version' = version + 1 /\ version <= MaxSteps
BY DEF Write, Committed, SameBut, ClockMembers, Members, Numbers

LEMMA SpecsSame ==
    ASSUME NEW t, NEW u, u.version = t.version, u.specs = t.specs
    PROVE  /\ PartitionFields(u) = PartitionFields(t)
           /\ \A p : PartitionField(u, p) = PartitionField(t, p) /\ Signature(u, p) = Signature(t, p)
           /\ Identified(u) = Identified(t) /\ Signed(u) = Signed(t)
           /\ ReassignedPartitionIds(u) <=> ReassignedPartitionIds(t)
<1>1. /\ PartitionFields(u) = PartitionFields(t)
      /\ \A p : PartitionField(u, p) = PartitionField(t, p)
  BY DEF PartitionFields, PartitionField
<1>2. \A field : ValidSources(u, field) <=> ValidSources(t, field)
  BY DEF ValidSources
<1>3. Identified(u) = Identified(t)
  BY <1>1 DEF Identified
<1>4. Signed(u) = Signed(t) /\ \A p : Signature(u, p) = Signature(t, p)
  BY <1>1, <1>2, <1>3 DEF Signed, Signature
<1>5. ReassignedPartitionIds(u) <=> ReassignedPartitionIds(t)
  BY <1>1, <1>4 DEF ReassignedPartitionIds
<1> QED
  BY <1>1, <1>3, <1>4, <1>5

LEMMA PartitionsKept ==
    ASSUME NEW t, NEW u, u.version = t.version, u.specs = t.specs,
           u.last_partition = t.last_partition, PartitionsSound(t)
    PROVE  PartitionsSound(u)
BY SpecsSame DEF PartitionsSound

LEMMA FieldsKept ==
    ASSUME NEW t, NEW u,
           Same(t, u, {"version", "schema", "spec", "schemas", "specs", "orders",
                       "last_column", "last_partition"}),
           SchemasSound(t), PartitionsSound(t), SourcesSound(t)
    PROVE  SchemasSound(u) /\ PartitionsSound(u) /\ SourcesSound(u)
<1>1. /\ u.version = t.version /\ u.schema = t.schema /\ u.spec = t.spec
      /\ u.schemas = t.schemas /\ u.specs = t.specs /\ u.orders = t.orders
      /\ u.last_column = t.last_column /\ u.last_partition = t.last_partition
  BY DEF Same
<1>2. Schemas(u) = Schemas(t) /\ AllFieldIds(u) = AllFieldIds(t) /\ Orders(u) = Orders(t)
  BY <1>1 DEF Schemas, AllFieldIds, Orders
<1>3. \A field : ValidSources(u, field) <=> ValidSources(t, field)
  BY <1>1 DEF ValidSources
<1>4. SchemasSound(u)
  BY <1>1, <1>2 DEF SchemasSound
<1>5. PartitionsSound(u)
  BY <1>1, PartitionsKept
<1>6. SourcesSound(u)
  BY <1>1, <1>2, <1>3 DEF SourcesSound, SourceSound
<1> QED
  BY <1>4, <1>5, <1>6

LEMMA FieldsShaped ==
    ASSUME NEW n \in Nat, NEW t, NEW u, ShapedFields(t, n),
           Same(t, u, {"schema", "spec", "schemas", "specs", "orders"})
    PROVE  ShapedFields(u, n + 1)
<1>1. /\ u.schema = t.schema /\ u.spec = t.spec /\ u.orders = t.orders
      /\ u.schemas = t.schemas /\ u.specs = t.specs
  BY DEF Same
<1>2. ASSUME NEW S, NEW f, IsArray(f, 0..(n - 1), S)
      PROVE  IsArray(f, 0..(n + 1 - 1), S)
  BY <1>2 DEF IsArray
<1>3. SingleSpec(u)
  BY <1>1 DEF ShapedFields, SingleSpec
<1> QED
  BY <1>1, <1>2, <1>3 DEF ShapedFields, FieldArrays

LEMMA HistoryShaped ==
    ASSUME NEW n \in Nat, NEW t, NEW u, ShapedHistory(t, n),
           Same(t, u, {"snapshots", "log", "refs", "refs_given"})
    PROVE  ShapedHistory(u, n + 1)
<1>1. /\ u.snapshots = t.snapshots /\ u.log = t.log
      /\ u.refs = t.refs /\ u.refs_given = t.refs_given
  BY DEF Same
<1>2. ASSUME NEW S, NEW f, IsArray(f, 0..(n - 1), S)
      PROVE  IsArray(f, 0..(n + 1 - 1), S)
  BY <1>2 DEF IsArray
<1> QED
  BY <1>1, <1>2 DEF ShapedHistory

-----------------------------------------------------------------------------
(* Commits of snapshots, references and rollbacks.                         *)

CountersSound(t) ==
    /\ t.last_sequence \in Number /\ t.next_row \in Number /\ t.current_snapshot \in Number
    /\ t.version >= 2 => t.last_sequence \in Nat
    /\ t.version = 3 => t.next_row \in Nat

RefsSound(t) ==
    /\ CurrentSnapshot(t) \in Ids(t.snapshots) \cup {Missing}
    /\ t.refs_given => \A n \in DOMAIN t.refs : t.refs[n] \in Ids(t.snapshots)

LEMMA HistoryCommit ==
    ASSUME NEW n \in Nat, NEW t, Shaped(t, n), Sound(t),
           NEW u, DOMAIN u = Members, SameBut(t, u, HistoryMembers),
           u.last_updated = t.last_updated + 1, u.metadata_log = t.metadata_log + 1,
           CountersSound(u), ShapedHistory(u, n + 1), RefsSound(u), Unique(u.snapshots),
           SnapshotsSound(u), LogSound(u)
    PROVE  Shaped(u, n + 1) /\ Sound(u)
<1>1. /\ u.version = t.version /\ u.schema = t.schema /\ u.spec = t.spec
      /\ u.schemas = t.schemas /\ u.specs = t.specs /\ u.orders = t.orders
      /\ u.last_column = t.last_column /\ u.last_partition = t.last_partition
      /\ u.current_schema = t.current_schema /\ u.default_spec = t.default_spec
      /\ u.default_order = t.default_order /\ u.uuid = t.uuid /\ u.location = t.location
  BY DEF SameBut, HistoryMembers, ClockMembers, SnapshotMembers, CurrentMembers, ReferenceMembers,
         Members, Numbers
<1>2. t.last_updated \in Nat /\ t.metadata_log \in Nat
  BY DEF Sound, RequiredSound, Shaped, ShapedNumbers
<1>3. ShapedFields(u, n + 1)
  BY <1>1, FieldsShaped DEF Shaped, Same
<1>4. ShapedNumbers(u)
  <2>1. /\ t.version \in Number /\ t.last_column \in Number /\ t.last_partition \in Number
        /\ t.current_schema \in Number /\ t.default_spec \in Number
        /\ t.default_order \in Number /\ t.location = "absolute" /\ t.uuid \in BOOLEAN
    BY DEF Shaped, ShapedNumbers, Numbers
  <2>2. u.last_updated \in Number /\ u.metadata_log \in Nat
    BY <1>2 DEF Number
  <2> QED
    BY <1>1, <2>1, <2>2 DEF CountersSound, ShapedNumbers, Numbers
<1>5. RequiredSound(u)
  BY <1>1, <1>2 DEF Sound, RequiredSound, CountersSound
<1>6. ReferencesSound(u)
  BY <1>1 DEF Sound, ReferencesSound, RefsSound, Orders
<1>7. IdentifiersSound(u)
  BY <1>1 DEF Sound, IdentifiersSound, Orders
<1>8. SchemasSound(u) /\ PartitionsSound(u) /\ SourcesSound(u)
  BY <1>1, FieldsKept DEF Sound, Same
<1> QED
  BY <1>1, <1>3, <1>4, <1>5, <1>6, <1>7, <1>8 DEF Shaped, Sound

LEMMA SnapshotKept ==
    ASSUME NEW t, NEW u, NEW s, SnapshotSound(t, s), u.version = t.version,
           \A id \in Ids(t.schemas) : id \in Ids(u.schemas),
           t.last_updated \in Nat, u.last_updated = t.last_updated + 1,
           t.version >= 2 => t.last_sequence \in Nat /\ u.last_sequence \in Nat
                               /\ u.last_sequence >= t.last_sequence
    PROVE  SnapshotSound(u, s)
BY DEF SnapshotSound

LEMMA LogKept ==
    ASSUME NEW t, NEW u, LogSound(t), u.log = t.log, u.current_snapshot = t.current_snapshot,
           t.last_updated \in Nat, u.last_updated = t.last_updated + 1,
           \A id \in Ids(t.snapshots) : id \in Ids(u.snapshots)
    PROVE  LogSound(u)
BY DEF LogSound, CurrentSnapshot

LEMMA LogPushed ==
    ASSUME NEW n \in Nat, NEW t, NEW u, NEW id,
           LogSound(t), DOMAIN t.log \subseteq 0..(n - 1),
           u.log = Push(t.log, n, [timestamp |-> t.last_updated + 1, snapshot |-> id]),
           u.current_snapshot = id, id \in Ids(u.snapshots),
           t.last_updated \in Nat, u.last_updated = t.last_updated + 1,
           \A k \in Ids(t.snapshots) : k \in Ids(u.snapshots)
    PROVE  LogSound(u)
<1> DEFINE entry == [timestamp |-> t.last_updated + 1, snapshot |-> id]
<1>1. /\ \A i : i \in DOMAIN u.log <=> i \in DOMAIN t.log \/ i = n
      /\ u.log[n] = entry
      /\ \A i \in DOMAIN t.log : u.log[i] = t.log[i]
      /\ \A i \in DOMAIN t.log : i \in Int /\ i < n
  <2> HIDE DEF entry
  <2> QED
    BY Pushed DEF entry
<1>2. u.log[n].timestamp = t.last_updated + 1 /\ u.log[n].snapshot = id
  BY <1>1
<1>3. \A i \in DOMAIN u.log : /\ u.log[i].timestamp \in Int
                               /\ u.log[i].timestamp <= u.last_updated
                               /\ u.log[i].snapshot \in Ids(u.snapshots)
  BY <1>1, <1>2 DEF LogSound
<1>4. ASSUME NEW i \in DOMAIN u.log, NEW j \in DOMAIN u.log, i < j
      PROVE  u.log[i].timestamp < u.log[j].timestamp
  <2>1. i \in DOMAIN t.log
    BY <1>1, <1>4
  <2>2. CASE j = n
    BY <1>1, <1>2, <2>1, <2>2 DEF LogSound
  <2>3. CASE j # n
    BY <1>1, <1>4, <2>1, <2>3 DEF LogSound
  <2> QED
    BY <2>2, <2>3
<1>5. \A i \in LastEntry(u.log) : u.log[i].snapshot = id
  <2>1. \A i \in LastEntry(u.log) : i = n
    BY <1>1 DEF LastEntry
  <2> QED
    BY <1>2, <2>1
<1>6. CurrentSnapshot(u) # Missing => CurrentSnapshot(u) = id
  BY DEF CurrentSnapshot
<1> QED
  BY <1>3, <1>4, <1>5, <1>6 DEF LogSound

IsFunction(f) == f = [x \in DOMAIN f |-> f[x]]

NewSnapshot(t, id) ==
    [id |-> id, timestamp |-> Now(t),
     sequence |-> IF t.version = 1 THEN Missing ELSE t.last_sequence + 1,
     schema |-> t.current_schema, manifest_list |-> TRUE, manifests |-> FALSE,
     operation |-> TRUE, row_lineage |-> t.version = 3]

LEMMA WithSnapshotMembers ==
    ASSUME NEW t, DOMAIN t = Members, NEW id, NEW u, u = WithSnapshot(t, id)
    PROVE  /\ DOMAIN u = Members
           /\ SameBut(t, u, SnapshotMembers)
           /\ u.snapshots = Push(t.snapshots, version, NewSnapshot(t, id))
           /\ u.last_sequence = IF t.version = 1 THEN t.last_sequence ELSE t.last_sequence + 1
           /\ u.next_row = IF t.version = 3 THEN t.next_row + 1 ELSE t.next_row
BY DEF WithSnapshot, NewSnapshot, SameBut, SnapshotMembers, Members, Numbers

LEMMA WithReferenceMembers ==
    ASSUME NEW t, DOMAIN t = Members, NEW name, NEW id, NEW u, u = WithReference(t, name, id)
    PROVE  /\ DOMAIN u = Members
           /\ SameBut(t, u, ReferenceMembers)
           /\ \A n : n \in DOMAIN u.refs
                      <=> \/ n \in DOMAIN t.refs \/ n = name
                          \/ n = "main" /\ CurrentSnapshot(t) # Missing
           /\ \A n \in DOMAIN u.refs :
                u.refs[n] = IF n = name THEN id ELSE IF n \in DOMAIN t.refs THEN t.refs[n]
                                                     ELSE t.current_snapshot
           /\ IsFunction(u.refs)
           /\ u.refs_given /\ u.refs_given \in BOOLEAN
BY DEF WithReference, IsFunction, SameBut, ReferenceMembers, Members, Numbers

LEMMA WithCurrentMembers ==
    ASSUME NEW t, DOMAIN t = Members, NEW id, NEW u, u = WithCurrent(t, id)
    PROVE  /\ DOMAIN u = Members
           /\ SameBut(t, u, CurrentMembers)
           /\ \A n : n \in DOMAIN u.refs <=> n \in DOMAIN t.refs \/ n = "main"
           /\ \A n \in DOMAIN u.refs : u.refs[n] = IF n = "main" THEN id ELSE t.refs[n]
           /\ IsFunction(u.refs)
           /\ u.refs_given /\ u.refs_given \in BOOLEAN
           /\ u.current_snapshot = id
           /\ u.log = Push(t.log, version, [timestamp |-> Now(t), snapshot |-> id])
<1> DEFINE r == WithReference(t, "main", id)
<1>1. /\ DOMAIN r = Members
      /\ SameBut(t, r, ReferenceMembers)
      /\ \A n : n \in DOMAIN r.refs <=> n \in DOMAIN t.refs \/ n = "main"
      /\ \A n \in DOMAIN r.refs : r.refs[n] = IF n = "main" THEN id ELSE t.refs[n]
      /\ IsFunction(r.refs)
      /\ r.refs_given /\ r.refs_given \in BOOLEAN
  <2> HIDE DEF r
  <2>1. r = WithReference(t, "main", id)
    BY DEF r
  <2>2. /\ DOMAIN r = Members /\ SameBut(t, r, ReferenceMembers)
        /\ IsFunction(r.refs) /\ r.refs_given /\ r.refs_given \in BOOLEAN
    BY <2>1, WithReferenceMembers
  <2>3. \A n : n \in DOMAIN r.refs <=> n \in DOMAIN t.refs \/ n = "main"
    BY <2>1, WithReferenceMembers
  <2>4. \A n \in DOMAIN r.refs : r.refs[n] = IF n = "main" THEN id ELSE t.refs[n]
    BY <2>1, <2>3, WithReferenceMembers
  <2> QED
    BY <2>2, <2>3, <2>4
<1>2. u = [r EXCEPT !.current_snapshot = id,
                    !.log = Push(@, version, [timestamp |-> Now(t), snapshot |-> id])]
  BY DEF WithCurrent
<1> HIDE DEF r
<1>3. r.log = t.log
  BY <1>1 DEF SameBut, ReferenceMembers, Members, Numbers
<1>4. /\ DOMAIN u = Members /\ u.refs = r.refs /\ u.refs_given = r.refs_given
      /\ u.current_snapshot = id
      /\ u.log = Push(t.log, version, [timestamp |-> Now(t), snapshot |-> id])
  BY <1>1, <1>2, <1>3 DEF Members, Numbers
<1>5. SameBut(t, u, CurrentMembers)
  BY <1>1, <1>2 DEF SameBut, ReferenceMembers, CurrentMembers, Members, Numbers
<1> QED
  BY <1>1, <1>4, <1>5

\* What a commit starts from, and what it gives.
Before == version \in Nat /\ Shaped(table, version) /\ Sound(table)
After  == Shaped(table', version + 1) /\ Sound(table')

LEMMA BeforeNumbers ==
    ASSUME Before
    PROVE  /\ DOMAIN table = Members
           /\ table.version \in 1..3
           /\ table.last_updated \in Nat /\ table.metadata_log \in Nat /\ table.last_column \in Nat
           /\ table.version >= 2 => table.last_sequence \in Nat /\ table.last_partition \in Nat
           /\ table.version = 3 => table.next_row \in Nat
           /\ table.last_sequence \in Number /\ table.next_row \in Number
           /\ table.current_snapshot \in Number /\ table.current_schema \in Number
           /\ table.last_partition \in Number
BY DEF Before, Shaped, ShapedNumbers, Numbers, Sound, RequiredSound

\* The snapshot that WithSnapshot adds is sound, and those before it remain so.
LEMMA SnapshotAdded ==
    ASSUME Before, NEW id \in NewSnapshotIds,
           NEW t, t = WithSnapshot(table, id),
           NEW u, u.snapshots = t.snapshots, u.last_sequence = t.last_sequence,
           u.version = table.version, u.schemas = table.schemas,
           u.last_updated = table.last_updated + 1
    PROVE  /\ IsArray(u.snapshots, 0..(version + 1 - 1), SnapshotObject)
           /\ Unique(u.snapshots) /\ SnapshotsSound(u)
           /\ \A k : k \in Ids(u.snapshots) <=> k \in Ids(table.snapshots) \/ k = id
<1> DEFINE x == NewSnapshot(table, id)
<1>1. version \in Nat /\ IsArray(table.snapshots, 0..(version - 1), SnapshotObject)
  BY DEF Before, Shaped, ShapedHistory
<1>2. id \in Nat /\ id > 0 /\ id \notin Ids(table.snapshots) /\ id # Missing
  BY IdsAssumption, MissingAssumption DEF NewSnapshotIds
<1>3. x \in SnapshotObject
  <2>1. table.last_updated + 1 \in Number
    BY BeforeNumbers DEF Number
  <2>2. (IF table.version = 1 THEN Missing ELSE table.last_sequence + 1) \in Number
    BY BeforeNumbers DEF Number
  <2>3. id \in Number /\ table.current_schema \in Number
    BY <1>2, BeforeNumbers DEF Number
  <2> QED
    BY <2>1, <2>2, <2>3 DEF NewSnapshot, SnapshotObject, Now
<1>4. u.snapshots = Push(table.snapshots, version, x)
  BY BeforeNumbers, WithSnapshotMembers
<1>5. x.id = id
  BY DEF NewSnapshot
<1>6. SnapshotSound(u, x)
  <2>1. /\ x.timestamp = table.last_updated + 1 /\ x.manifest_list /\ ~x.manifests /\ x.operation
        /\ x.schema = table.current_schema
        /\ table.version = 3 => x.row_lineage
        /\ table.version # 1 => x.sequence = table.last_sequence + 1
    BY DEF NewSnapshot, Now
  <2>2. table.version # 1 => u.last_sequence = table.last_sequence + 1
    BY BeforeNumbers, WithSnapshotMembers
  <2>3. table.current_schema \in Ids(u.schemas) \cup {Missing}
    BY DEF Before, Sound, ReferencesSound
  <2> HIDE DEF x
  <2> QED
    BY <1>2, <1>5, <2>1, <2>2, <2>3, BeforeNumbers DEF SnapshotSound
<1> HIDE DEF x
<1>7. ASSUME NEW i \in DOMAIN table.snapshots PROVE SnapshotSound(u, table.snapshots[i])
  <2>1. SnapshotSound(table, table.snapshots[i])
    BY DEF Before, Sound, SnapshotsSound
  <2>2. table.version >= 2 => table.last_sequence \in Nat /\ u.last_sequence \in Nat
                                /\ u.last_sequence >= table.last_sequence
    BY BeforeNumbers, WithSnapshotMembers
  <2> QED
    BY <2>1, <2>2, BeforeNumbers, SnapshotKept
<1>8. DOMAIN table.snapshots \subseteq 0..(version - 1)
  BY <1>1 DEF IsArray
<1>9. SnapshotsSound(u)
  BY <1>1, <1>4, <1>6, <1>7, <1>8, Pushed DEF SnapshotsSound
<1>10. Unique(u.snapshots)
  BY <1>1, <1>2, <1>4, <1>5, <1>8, PushedUnique DEF Before, Sound, IdentifiersSound
<1>11. IsArray(u.snapshots, 0..(version + 1 - 1), SnapshotObject)
  <2>1. IsArray(u.snapshots, 0..version, SnapshotObject)
    BY <1>1, <1>3, <1>4, PushedArray
  <2> QED
    BY <1>1, <2>1
<1> QED
  BY <1>1, <1>2, <1>4, <1>5, <1>8, <1>9, <1>10, <1>11, PushedIds

LEMMA HistoryMembersAre ==
    \A m : m \in HistoryMembers <=>
             m \in {"last_updated", "metadata_log", "last_sequence", "next_row", "snapshots",
                   "current_snapshot", "refs", "refs_given", "log"}
BY DEF HistoryMembers, ClockMembers, SnapshotMembers, CurrentMembers, ReferenceMembers

\* The members that a commit of t leaves alone, one by one.
LEMMA CommittedMembers ==
    ASSUME NEW t, NEW u, Committed(t, u)
    PROVE  /\ DOMAIN u = Members
           /\ SameBut(t, u, HistoryMembers)
           /\ u.last_updated = t.last_updated + 1 /\ u.metadata_log = t.metadata_log + 1
           /\ u.version = t.version /\ u.schemas = t.schemas
           /\ u.snapshots = t.snapshots /\ u.current_snapshot = t.current_snapshot
           /\ u.last_sequence = t.last_sequence /\ u.next_row = t.next_row
           /\ u.refs = t.refs /\ u.refs_given = t.refs_given /\ u.log = t.log
BY HistoryMembersAre DEF Committed, SameBut, ClockMembers, Members, Numbers

LEMMA RefsArray ==
    ASSUME NEW f, IsFunction(f), \A n \in DOMAIN f : n \in Branches \cup {"main"} /\ f[n] \in Number
    PROVE  IsArray(f, Branches \cup {"main"}, Number)
<1>1. f \in [DOMAIN f -> Number]
  BY DEF IsFunction
<1> QED
  BY <1>1 DEF IsArray

LEMMA IdsAreNumbers ==
    ASSUME NEW n, NEW t, Shaped(t, n), Sound(t), NEW id \in Ids(t.snapshots)
    PROVE  id \in Nat /\ id > 0 /\ id # Missing /\ id \in Number
<1>1. PICK i \in DOMAIN t.snapshots : t.snapshots[i].id = id
  BY IdsMember
<1>2. id \in Nat \ {0}
  BY <1>1 DEF Sound, SnapshotsSound, SnapshotSound
<1> QED
  BY <1>2, MissingAssumption DEF Number

\* The snapshots that a commit leaves alone remain sound.
LEMMA SnapshotsStay ==
    ASSUME Before,
           NEW u, u.snapshots = table.snapshots, u.last_sequence = table.last_sequence,
           u.version = table.version, u.schemas = table.schemas,
           u.last_updated = table.last_updated + 1
    PROVE  /\ IsArray(u.snapshots, 0..(version + 1 - 1), SnapshotObject)
           /\ Unique(u.snapshots) /\ SnapshotsSound(u)
<1>1. version \in Nat /\ IsArray(table.snapshots, 0..(version - 1), SnapshotObject)
  BY DEF Before, Shaped, ShapedHistory
<1>2. IsArray(u.snapshots, 0..(version + 1 - 1), SnapshotObject)
  <2>1. IsArray(u.snapshots, 0..version, SnapshotObject)
    BY <1>1, GrownArray
  <2> QED
    BY <1>1, <2>1
<1>3. ASSUME NEW i \in DOMAIN table.snapshots PROVE SnapshotSound(u, table.snapshots[i])
  <2>1. SnapshotSound(table, table.snapshots[i])
    BY DEF Before, Sound, SnapshotsSound
  <2>2. table.version >= 2 => table.last_sequence \in Nat /\ u.last_sequence \in Nat
                                /\ u.last_sequence >= table.last_sequence
    BY BeforeNumbers
  <2> QED
    BY <2>1, <2>2, BeforeNumbers, SnapshotKept
<1>4. SnapshotsSound(u)
  BY <1>3 DEF SnapshotsSound
<1> QED
  BY <1>2, <1>4 DEF Before, Sound, IdentifiersSound

\* So does the log.
LEMMA LogStays ==
    ASSUME Before,
           NEW u, u.log = table.log, u.current_snapshot = table.current_snapshot,
           u.last_updated = table.last_updated + 1,
           \A k \in Ids(table.snapshots) : k \in Ids(u.snapshots)
    PROVE  IsArray(u.log, 0..(version + 1 - 1), LogEntry) /\ LogSound(u)
<1>1. version \in Nat /\ IsArray(table.log, 0..(version - 1), LogEntry) /\ LogSound(table)
  BY DEF Before, Shaped, ShapedHistory, Sound
<1>2. IsArray(u.log, 0..version, LogEntry)
  BY <1>1, GrownArray
<1>3. IsArray(u.log, 0..(version + 1 - 1), LogEntry)
  BY <1>1, <1>2
<1>4. LogSound(u)
  BY <1>1, BeforeNumbers, LogKept
<1> QED
  BY <1>3, <1>4

\* The entry of a new current snapshot.
LEMMA LogGrows ==
    ASSUME Before, NEW id, id \in Number,
           NEW u, u.log = Push(table.log, version, [timestamp |-> table.last_updated + 1, snapshot |-> id]),
           u.current_snapshot = id, id \in Ids(u.snapshots),
           u.last_updated = table.last_updated + 1,
           \A k \in Ids(table.snapshots) : k \in Ids(u.snapshots)
    PROVE  IsArray(u.log, 0..(version + 1 - 1), LogEntry) /\ LogSound(u)
<1> DEFINE entry == [timestamp |-> table.last_updated + 1, snapshot |-> id]
<1>1. entry \in LogEntry
  BY BeforeNumbers DEF LogEntry, Number
<1>2. version \in Nat /\ IsArray(table.log, 0..(version - 1), LogEntry) /\ LogSound(table)
  BY DEF Before, Shaped, ShapedHistory, Sound
<1>3. IsArray(u.log, 0..version, LogEntry)
  <2> HIDE DEF entry
  <2>1. u.log = Push(table.log, version, entry)
    BY DEF entry
  <2> QED
    BY <1>1, <1>2, <2>1, PushedArray
<1>4. IsArray(u.log, 0..(version + 1 - 1), LogEntry)
  BY <1>2, <1>3
<1>5. LogSound(u)
  <2>1. DOMAIN table.log \subseteq 0..(version - 1)
    BY <1>2 DEF IsArray
  <2> QED
    BY <1>2, <2>1, BeforeNumbers, LogPushed
<1> QED
  BY <1>4, <1>5

LEMMA RefsBefore ==
    ASSUME Before
    PROVE  /\ \A n \in DOMAIN table.refs : /\ n \in Branches \cup {"main"}
                                           /\ table.refs[n] \in Number
                                           /\ table.refs[n] \in Ids(table.snapshots)
BY DEF Before, Shaped, ShapedHistory, IsArray, Sound, ReferencesSound

\* The references when the main branch is set, and the current snapshot with it.
LEMMA MainSet ==
    ASSUME Before, NEW id, NEW u,
           \A n : n \in DOMAIN u.refs <=> n \in DOMAIN table.refs \/ n = "main",
           \A n \in DOMAIN u.refs : u.refs[n] = IF n = "main" THEN id ELSE table.refs[n],
           IsFunction(u.refs), u.current_snapshot = id,
           id \in Number, id # Missing, id # -1, id \in Ids(u.snapshots),
           \A k \in Ids(table.snapshots) : k \in Ids(u.snapshots)
    PROVE  IsArray(u.refs, Branches \cup {"main"}, Number) /\ RefsSound(u)
<1>1. IsArray(u.refs, Branches \cup {"main"}, Number)
  <2>1. \A n \in DOMAIN u.refs : n \in Branches \cup {"main"} /\ u.refs[n] \in Number
    BY RefsBefore
  <2> QED
    BY <2>1, RefsArray
<1>2. CurrentSnapshot(u) = id
  BY DEF CurrentSnapshot
<1>3. \A n \in DOMAIN u.refs : u.refs[n] \in Ids(u.snapshots)
  BY RefsBefore
<1>4. "main" \in DOMAIN u.refs /\ u.refs["main"] = id
  OBVIOUS
<1> QED
  BY <1>1, <1>2, <1>3, <1>4 DEF RefsSound

\* The references when another one is set.
LEMMA BranchSet ==
    ASSUME Before, NEW b \in Branches, NEW id, NEW u,
           \A n : n \in DOMAIN u.refs
                   <=> \/ n \in DOMAIN table.refs \/ n = b
                       \/ n = "main" /\ CurrentSnapshot(table) # Missing,
           \A n \in DOMAIN u.refs :
             u.refs[n] = IF n = b THEN id ELSE IF n \in DOMAIN table.refs THEN table.refs[n]
                                               ELSE table.current_snapshot,
           IsFunction(u.refs), u.current_snapshot = table.current_snapshot,
           id \in Number, id \in Ids(u.snapshots),
           \A k \in Ids(table.snapshots) : k \in Ids(u.snapshots)
    PROVE  IsArray(u.refs, Branches \cup {"main"}, Number) /\ RefsSound(u)
<1>1. /\ CurrentSnapshot(u) = CurrentSnapshot(table)
      /\ CurrentSnapshot(u) \in Ids(u.snapshots) \cup {Missing}
      /\ CurrentSnapshot(table) # Missing
           => table.current_snapshot \in Ids(u.snapshots) /\ table.current_snapshot \in Number
  <2>1. CurrentSnapshot(table) \in Ids(table.snapshots) \cup {Missing}
    BY DEF Before, Sound, ReferencesSound
  <2> QED
    BY <2>1, BeforeNumbers DEF CurrentSnapshot
<1>2. ASSUME NEW n \in DOMAIN u.refs
      PROVE  n \in Branches \cup {"main"} /\ u.refs[n] \in Number /\ u.refs[n] \in Ids(u.snapshots)
  BY <1>1, RefsBefore
<1>3. IsArray(u.refs, Branches \cup {"main"}, Number)
  BY <1>2, RefsArray
<1> QED
  BY <1>1, <1>2, <1>3 DEF RefsSound

\* Assembles the history of a document.
LEMMA HistoryArrays ==
    ASSUME Before, NEW u,
           IsArray(u.snapshots, 0..(version + 1 - 1), SnapshotObject),
           IsArray(u.log, 0..(version + 1 - 1), LogEntry),
           IsArray(u.refs, Branches \cup {"main"}, Number),
           u.refs_given \in BOOLEAN, u.refs_given \/ DOMAIN u.refs = {}
    PROVE  ShapedHistory(u, version + 1)
<1>1. version \in Nat
  BY DEF Before
<1> QED
  BY <1>1 DEF ShapedHistory

LEMMA CommitToMainSound ==
    ASSUME Before, CommitToMain
    PROVE  After
<1>1. PICK id \in NewSnapshotIds : Commit(WithCurrent(WithSnapshot(table, id), id))
  BY DEF CommitToMain
<1> DEFINE t == WithSnapshot(table, id)
           c == WithCurrent(t, id)
           u == table'
<1>2. /\ DOMAIN t = Members
      /\ SameBut(table, t, SnapshotMembers)
      /\ t.last_sequence = IF table.version = 1 THEN table.last_sequence ELSE table.last_sequence + 1
      /\ t.next_row = IF table.version = 3 THEN table.next_row + 1 ELSE table.next_row
  <2> HIDE DEF t
  <2>1. t = WithSnapshot(table, id)
    BY DEF t
  <2> QED
    BY <2>1, BeforeNumbers, WithSnapshotMembers
<1>3. /\ DOMAIN c = Members
      /\ SameBut(t, c, CurrentMembers)
      /\ \A n : n \in DOMAIN c.refs <=> n \in DOMAIN t.refs \/ n = "main"
      /\ \A n \in DOMAIN c.refs : c.refs[n] = IF n = "main" THEN id ELSE t.refs[n]
      /\ IsFunction(c.refs) /\ c.refs_given /\ c.refs_given \in BOOLEAN
      /\ c.current_snapshot = id
      /\ c.log = Push(t.log, version, [timestamp |-> Now(t), snapshot |-> id])
  <2> HIDE DEF t, c
  <2>1. c = WithCurrent(t, id)
    BY DEF c
  <2> QED
    BY <1>2, <2>1, WithCurrentMembers
<1>4. Committed(c, u)
  <2>1. Write(c)
    BY <1>1 DEF Commit
  <2> HIDE DEF c
  <2> QED
    BY <1>3, <2>1, WriteCommits
<1> HIDE DEF c, u
<1>5. /\ t.refs = table.refs /\ t.log = table.log /\ t.last_updated = table.last_updated
      /\ t.metadata_log = table.metadata_log /\ t.version = table.version /\ t.schemas = table.schemas
  BY <1>2 DEF SameBut, SnapshotMembers, Members, Numbers
<1>6. t = WithSnapshot(table, id)
  BY DEF t
<1> HIDE DEF t
<1>7. /\ u.snapshots = t.snapshots /\ u.last_sequence = t.last_sequence /\ u.next_row = t.next_row
      /\ u.version = table.version /\ u.schemas = table.schemas
      /\ u.last_updated = table.last_updated + 1 /\ u.metadata_log = table.metadata_log + 1
      /\ u.refs = c.refs /\ u.refs_given = c.refs_given
      /\ u.current_snapshot = id /\ u.log = c.log
      /\ u.refs_given /\ u.refs_given \in BOOLEAN
  <2>1. /\ c.snapshots = t.snapshots /\ c.last_sequence = t.last_sequence /\ c.next_row = t.next_row
        /\ c.version = t.version /\ c.schemas = t.schemas
        /\ c.last_updated = t.last_updated /\ c.metadata_log = t.metadata_log
    BY <1>3 DEF SameBut, CurrentMembers, ReferenceMembers, Members, Numbers
  <2>2. /\ u.last_updated = c.last_updated + 1 /\ u.metadata_log = c.metadata_log + 1
        /\ u.version = c.version /\ u.schemas = c.schemas
        /\ u.snapshots = c.snapshots /\ u.current_snapshot = c.current_snapshot
        /\ u.last_sequence = c.last_sequence /\ u.next_row = c.next_row
        /\ u.refs = c.refs /\ u.refs_given = c.refs_given /\ u.log = c.log
    BY <1>4, CommittedMembers
  <2> QED
    BY <1>3, <1>5, <2>1, <2>2
<1>8. SameBut(table, u, HistoryMembers)
  BY <1>2, <1>3, <1>4, CommittedMembers
     DEF SameBut, HistoryMembers, ClockMembers, SnapshotMembers, CurrentMembers, ReferenceMembers
<1>9. id \in Nat /\ id > 0 /\ id # Missing /\ id \in Number
  BY IdsAssumption, MissingAssumption DEF NewSnapshotIds, Number
<1>10. /\ IsArray(u.snapshots, 0..(version + 1 - 1), SnapshotObject)
       /\ Unique(u.snapshots) /\ SnapshotsSound(u)
       /\ \A k : k \in Ids(u.snapshots) <=> k \in Ids(table.snapshots) \/ k = id
  BY <1>6, <1>7, SnapshotAdded
<1>11. CountersSound(u)
  <2>1. u.last_sequence \in Number /\ u.next_row \in Number
    BY <1>2, <1>7, BeforeNumbers DEF Number
  <2> QED
    BY <1>2, <1>7, <1>9, <2>1, BeforeNumbers DEF CountersSound
<1>12. IsArray(u.log, 0..(version + 1 - 1), LogEntry) /\ LogSound(u)
  <2>1. u.log = Push(table.log, version, [timestamp |-> table.last_updated + 1, snapshot |-> id])
    BY <1>3, <1>5, <1>7 DEF Now
  <2> QED
    BY <1>7, <1>9, <1>10, <2>1, LogGrows
<1>13. IsArray(u.refs, Branches \cup {"main"}, Number) /\ RefsSound(u)
  <2>1. \A n : n \in DOMAIN u.refs <=> n \in DOMAIN table.refs \/ n = "main"
    BY <1>3, <1>5, <1>7
  <2>2. \A n \in DOMAIN u.refs : u.refs[n] = IF n = "main" THEN id ELSE table.refs[n]
    BY <1>3, <1>5, <1>7
  <2>3. IsFunction(u.refs) /\ id # -1
    BY <1>3, <1>7, <1>9
  <2> QED
    BY <1>7, <1>9, <1>10, <2>1, <2>2, <2>3, MainSet
<1>14. ShapedHistory(u, version + 1)
  BY <1>7, <1>10, <1>12, <1>13, HistoryArrays
<1>15. DOMAIN u = Members
  BY <1>4, CommittedMembers
<1>16. Shaped(u, version + 1) /\ Sound(u)
  BY <1>7, <1>8, <1>10, <1>11, <1>12, <1>13, <1>14, <1>15, HistoryCommit DEF Before
<1> QED
  BY <1>16 DEF After, u

LEMMA CommitToBranchSound ==
    ASSUME Before, CommitToBranch
    PROVE  After
<1>1. PICK b \in Branches, id \in NewSnapshotIds :
        Commit(WithReference(WithSnapshot(table, id), b, id))
  BY DEF CommitToBranch
<1> DEFINE t == WithSnapshot(table, id)
           c == WithReference(t, b, id)
           u == table'
<1>2. /\ DOMAIN t = Members
      /\ SameBut(table, t, SnapshotMembers)
      /\ t.last_sequence = IF table.version = 1 THEN table.last_sequence ELSE table.last_sequence + 1
      /\ t.next_row = IF table.version = 3 THEN table.next_row + 1 ELSE table.next_row
  <2> HIDE DEF t
  <2>1. t = WithSnapshot(table, id)
    BY DEF t
  <2> QED
    BY <2>1, BeforeNumbers, WithSnapshotMembers
<1>3. /\ DOMAIN c = Members
      /\ SameBut(t, c, ReferenceMembers)
      /\ \A n : n \in DOMAIN c.refs
                 <=> n \in DOMAIN t.refs \/ n = b \/ (n = "main" /\ CurrentSnapshot(t) # Missing)
      /\ \A n \in DOMAIN c.refs :
           c.refs[n] = IF n = b THEN id ELSE IF n \in DOMAIN t.refs THEN t.refs[n]
                                             ELSE t.current_snapshot
      /\ IsFunction(c.refs) /\ c.refs_given /\ c.refs_given \in BOOLEAN
  <2> HIDE DEF t, c
  <2>1. c = WithReference(t, b, id)
    BY DEF c
  <2> QED
    BY <1>2, <2>1, WithReferenceMembers
<1>4. Committed(c, u)
  <2>1. Write(c)
    BY <1>1 DEF Commit
  <2> HIDE DEF c
  <2> QED
    BY <1>3, <2>1, WriteCommits
<1> HIDE DEF c, u
<1>5. /\ t.refs = table.refs /\ t.log = table.log /\ t.last_updated = table.last_updated
      /\ t.metadata_log = table.metadata_log /\ t.version = table.version /\ t.schemas = table.schemas
      /\ t.current_snapshot = table.current_snapshot
  BY <1>2 DEF SameBut, SnapshotMembers, Members, Numbers
<1>6. t = WithSnapshot(table, id)
  BY DEF t
<1> HIDE DEF t
<1>7. /\ u.snapshots = t.snapshots /\ u.last_sequence = t.last_sequence /\ u.next_row = t.next_row
      /\ u.version = table.version /\ u.schemas = table.schemas
      /\ u.last_updated = table.last_updated + 1 /\ u.metadata_log = table.metadata_log + 1
      /\ u.refs = c.refs /\ u.refs_given = c.refs_given
      /\ u.current_snapshot = table.current_snapshot /\ u.log = table.log
      /\ u.refs_given /\ u.refs_given \in BOOLEAN
  <2>1. /\ c.snapshots = t.snapshots /\ c.last_sequence = t.last_sequence /\ c.next_row = t.next_row
        /\ c.version = t.version /\ c.schemas = t.schemas
        /\ c.last_updated = t.last_updated /\ c.metadata_log = t.metadata_log
        /\ c.current_snapshot = t.current_snapshot /\ c.log = t.log
    BY <1>3 DEF SameBut, ReferenceMembers, Members, Numbers
  <2>2. /\ u.last_updated = c.last_updated + 1 /\ u.metadata_log = c.metadata_log + 1
        /\ u.version = c.version /\ u.schemas = c.schemas
        /\ u.snapshots = c.snapshots /\ u.current_snapshot = c.current_snapshot
        /\ u.last_sequence = c.last_sequence /\ u.next_row = c.next_row
        /\ u.refs = c.refs /\ u.refs_given = c.refs_given /\ u.log = c.log
    BY <1>4, CommittedMembers
  <2> QED
    BY <1>3, <1>5, <2>1, <2>2
<1>8. SameBut(table, u, HistoryMembers)
  BY <1>2, <1>3, <1>4, CommittedMembers
     DEF SameBut, HistoryMembers, ClockMembers, SnapshotMembers, CurrentMembers, ReferenceMembers
<1>9. id \in Nat /\ id > 0 /\ id # Missing /\ id \in Number
  BY IdsAssumption, MissingAssumption DEF NewSnapshotIds, Number
<1>10. /\ IsArray(u.snapshots, 0..(version + 1 - 1), SnapshotObject)
       /\ Unique(u.snapshots) /\ SnapshotsSound(u)
       /\ \A k : k \in Ids(u.snapshots) <=> k \in Ids(table.snapshots) \/ k = id
  BY <1>6, <1>7, SnapshotAdded
<1>11. CountersSound(u)
  <2>1. u.last_sequence \in Number /\ u.next_row \in Number
    BY <1>2, <1>7, BeforeNumbers DEF Number
  <2> QED
    BY <1>2, <1>7, <1>9, <2>1, BeforeNumbers DEF CountersSound
<1>12. IsArray(u.log, 0..(version + 1 - 1), LogEntry) /\ LogSound(u)
  BY <1>7, <1>10, LogStays
<1>13. IsArray(u.refs, Branches \cup {"main"}, Number) /\ RefsSound(u)
  <2>1. \A n : n \in DOMAIN u.refs
                <=> n \in DOMAIN table.refs \/ n = b \/ (n = "main" /\ CurrentSnapshot(table) # Missing)
    BY <1>3, <1>5, <1>7 DEF CurrentSnapshot
  <2>2. \A n \in DOMAIN u.refs :
          u.refs[n] = IF n = b THEN id ELSE IF n \in DOMAIN table.refs THEN table.refs[n]
                                            ELSE table.current_snapshot
    BY <1>3, <1>5, <1>7
  <2>3. IsFunction(u.refs)
    BY <1>3, <1>7
  <2> QED
    BY <1>7, <1>9, <1>10, <2>1, <2>2, <2>3, BranchSet
<1>14. ShapedHistory(u, version + 1)
  BY <1>7, <1>10, <1>12, <1>13, HistoryArrays
<1>15. DOMAIN u = Members
  BY <1>4, CommittedMembers
<1>16. Shaped(u, version + 1) /\ Sound(u)
  BY <1>7, <1>8, <1>10, <1>11, <1>12, <1>13, <1>14, <1>15, HistoryCommit DEF Before
<1> QED
  BY <1>16 DEF After, u

LEMMA SetReferenceSound ==
    ASSUME Before, SetReference
    PROVE  After
<1>1. PICK b \in Branches, id \in Ids(table.snapshots) : Commit(WithReference(table, b, id))
  BY DEF SetReference
<1> DEFINE c == WithReference(table, b, id)
           u == table'
<1>2. /\ DOMAIN c = Members
      /\ SameBut(table, c, ReferenceMembers)
      /\ \A n : n \in DOMAIN c.refs
                 <=> n \in DOMAIN table.refs \/ n = b \/ (n = "main" /\ CurrentSnapshot(table) # Missing)
      /\ \A n \in DOMAIN c.refs :
           c.refs[n] = IF n = b THEN id ELSE IF n \in DOMAIN table.refs THEN table.refs[n]
                                             ELSE table.current_snapshot
      /\ IsFunction(c.refs) /\ c.refs_given /\ c.refs_given \in BOOLEAN
  <2> HIDE DEF c
  <2>1. c = WithReference(table, b, id)
    BY DEF c
  <2> QED
    BY <2>1, BeforeNumbers, WithReferenceMembers
<1>3. Committed(c, u)
  <2>1. Write(c)
    BY <1>1 DEF Commit
  <2> HIDE DEF c
  <2> QED
    BY <1>2, <2>1, WriteCommits
<1> HIDE DEF c, u
<1>4. /\ u.snapshots = table.snapshots /\ u.last_sequence = table.last_sequence
      /\ u.next_row = table.next_row /\ u.version = table.version /\ u.schemas = table.schemas
      /\ u.last_updated = table.last_updated + 1 /\ u.metadata_log = table.metadata_log + 1
      /\ u.refs = c.refs /\ u.refs_given = c.refs_given
      /\ u.current_snapshot = table.current_snapshot /\ u.log = table.log
      /\ u.refs_given /\ u.refs_given \in BOOLEAN
  <2>1. /\ c.snapshots = table.snapshots /\ c.last_sequence = table.last_sequence
        /\ c.next_row = table.next_row /\ c.version = table.version /\ c.schemas = table.schemas
        /\ c.last_updated = table.last_updated /\ c.metadata_log = table.metadata_log
        /\ c.current_snapshot = table.current_snapshot /\ c.log = table.log
    BY <1>2 DEF SameBut, ReferenceMembers, Members, Numbers
  <2>2. /\ u.last_updated = c.last_updated + 1 /\ u.metadata_log = c.metadata_log + 1
        /\ u.version = c.version /\ u.schemas = c.schemas
        /\ u.snapshots = c.snapshots /\ u.current_snapshot = c.current_snapshot
        /\ u.last_sequence = c.last_sequence /\ u.next_row = c.next_row
        /\ u.refs = c.refs /\ u.refs_given = c.refs_given /\ u.log = c.log
    BY <1>3, CommittedMembers
  <2> QED
    BY <1>2, <2>1, <2>2
<1>5. SameBut(table, u, HistoryMembers)
  BY <1>2, <1>3, CommittedMembers
     DEF SameBut, HistoryMembers, ClockMembers, SnapshotMembers, CurrentMembers, ReferenceMembers
<1>6. id \in Number
  BY IdsAreNumbers DEF Before
<1>7. /\ IsArray(u.snapshots, 0..(version + 1 - 1), SnapshotObject)
      /\ Unique(u.snapshots) /\ SnapshotsSound(u)
  BY <1>4, SnapshotsStay
<1>8. CountersSound(u)
  BY <1>4, BeforeNumbers DEF CountersSound
<1>9. IsArray(u.log, 0..(version + 1 - 1), LogEntry) /\ LogSound(u)
  BY <1>4, LogStays
<1>10. IsArray(u.refs, Branches \cup {"main"}, Number) /\ RefsSound(u)
  <2>1. \A n : n \in DOMAIN u.refs
                <=> n \in DOMAIN table.refs \/ n = b \/ (n = "main" /\ CurrentSnapshot(table) # Missing)
    BY <1>2, <1>4
  <2>2. \A n \in DOMAIN u.refs :
          u.refs[n] = IF n = b THEN id ELSE IF n \in DOMAIN table.refs THEN table.refs[n]
                                            ELSE table.current_snapshot
    BY <1>2, <1>4
  <2>3. IsFunction(u.refs)
    BY <1>2, <1>4
  <2> QED
    BY <1>4, <1>6, <2>1, <2>2, <2>3, BranchSet
<1>11. ShapedHistory(u, version + 1)
  BY <1>4, <1>7, <1>9, <1>10, HistoryArrays
<1>12. DOMAIN u = Members
  BY <1>3, CommittedMembers
<1>13. Shaped(u, version + 1) /\ Sound(u)
  BY <1>4, <1>5, <1>7, <1>8, <1>9, <1>10, <1>11, <1>12, HistoryCommit DEF Before
<1> QED
  BY <1>13 DEF After, u

LEMMA RollbackSound ==
    ASSUME Before, Rollback
    PROVE  After
<1>1. PICK id \in Ids(table.snapshots) : Commit(WithCurrent(table, id))
  BY DEF Rollback
<1> DEFINE c == WithCurrent(table, id)
           u == table'
<1>2. /\ DOMAIN c = Members
      /\ SameBut(table, c, CurrentMembers)
      /\ \A n : n \in DOMAIN c.refs <=> n \in DOMAIN table.refs \/ n = "main"
      /\ \A n \in DOMAIN c.refs : c.refs[n] = IF n = "main" THEN id ELSE table.refs[n]
      /\ IsFunction(c.refs) /\ c.refs_given /\ c.refs_given \in BOOLEAN
      /\ c.current_snapshot = id
      /\ c.log = Push(table.log, version, [timestamp |-> Now(table), snapshot |-> id])
  <2> HIDE DEF c
  <2>1. c = WithCurrent(table, id)
    BY DEF c
  <2> QED
    BY <2>1, BeforeNumbers, WithCurrentMembers
<1>3. Committed(c, u)
  <2>1. Write(c)
    BY <1>1 DEF Commit
  <2> HIDE DEF c
  <2> QED
    BY <1>2, <2>1, WriteCommits
<1> HIDE DEF c, u
<1>4. /\ u.snapshots = table.snapshots /\ u.last_sequence = table.last_sequence
      /\ u.next_row = table.next_row /\ u.version = table.version /\ u.schemas = table.schemas
      /\ u.last_updated = table.last_updated + 1 /\ u.metadata_log = table.metadata_log + 1
      /\ u.refs = c.refs /\ u.refs_given = c.refs_given
      /\ u.current_snapshot = id /\ u.log = c.log
      /\ u.refs_given /\ u.refs_given \in BOOLEAN
  <2>1. /\ c.snapshots = table.snapshots /\ c.last_sequence = table.last_sequence
        /\ c.next_row = table.next_row /\ c.version = table.version /\ c.schemas = table.schemas
        /\ c.last_updated = table.last_updated /\ c.metadata_log = table.metadata_log
    BY <1>2 DEF SameBut, CurrentMembers, ReferenceMembers, Members, Numbers
  <2>2. /\ u.last_updated = c.last_updated + 1 /\ u.metadata_log = c.metadata_log + 1
        /\ u.version = c.version /\ u.schemas = c.schemas
        /\ u.snapshots = c.snapshots /\ u.current_snapshot = c.current_snapshot
        /\ u.last_sequence = c.last_sequence /\ u.next_row = c.next_row
        /\ u.refs = c.refs /\ u.refs_given = c.refs_given /\ u.log = c.log
    BY <1>3, CommittedMembers
  <2> QED
    BY <1>2, <2>1, <2>2
<1>5. SameBut(table, u, HistoryMembers)
  BY <1>2, <1>3, CommittedMembers
     DEF SameBut, HistoryMembers, ClockMembers, SnapshotMembers, CurrentMembers, ReferenceMembers
<1>6. id \in Nat /\ id > 0 /\ id # Missing /\ id \in Number
  BY IdsAreNumbers DEF Before
<1>7. /\ IsArray(u.snapshots, 0..(version + 1 - 1), SnapshotObject)
      /\ Unique(u.snapshots) /\ SnapshotsSound(u)
  BY <1>4, SnapshotsStay
<1>8. CountersSound(u)
  BY <1>4, <1>6, BeforeNumbers DEF CountersSound
<1>9. IsArray(u.log, 0..(version + 1 - 1), LogEntry) /\ LogSound(u)
  <2>1. u.log = Push(table.log, version, [timestamp |-> table.last_updated + 1, snapshot |-> id])
    BY <1>2, <1>4 DEF Now
  <2> QED
    BY <1>4, <1>6, <2>1, LogGrows
<1>10. IsArray(u.refs, Branches \cup {"main"}, Number) /\ RefsSound(u)
  <2>1. \A n : n \in DOMAIN u.refs <=> n \in DOMAIN table.refs \/ n = "main"
    BY <1>2, <1>4
  <2>2. \A n \in DOMAIN u.refs : u.refs[n] = IF n = "main" THEN id ELSE table.refs[n]
    BY <1>2, <1>4
  <2>3. IsFunction(u.refs) /\ id # -1
    BY <1>2, <1>4, <1>6
  <2> QED
    BY <1>4, <1>6, <2>1, <2>2, <2>3, MainSet
<1>11. ShapedHistory(u, version + 1)
  BY <1>4, <1>7, <1>9, <1>10, HistoryArrays
<1>12. DOMAIN u = Members
  BY <1>3, CommittedMembers
<1>13. Shaped(u, version + 1) /\ Sound(u)
  BY <1>4, <1>5, <1>7, <1>8, <1>9, <1>10, <1>11, <1>12, HistoryCommit DEF Before
<1> QED
  BY <1>13 DEF After, u

LEMMA DropReferenceSound ==
    ASSUME Before, DropReference
    PROVE  After
<1>1. PICK b \in Branches \cap DOMAIN table.refs :
        Commit([table EXCEPT !.refs = Without(@, {b})])
  BY DEF DropReference
<1> DEFINE c == [table EXCEPT !.refs = Without(@, {b})]
           u == table'
<1>2. /\ DOMAIN c = Members
      /\ SameBut(table, c, ReferenceMembers)
      /\ c.refs_given = table.refs_given
      /\ \A n : n \in DOMAIN c.refs <=> n \in DOMAIN table.refs /\ n # b
      /\ \A n \in DOMAIN c.refs : c.refs[n] = table.refs[n]
      /\ IsFunction(c.refs)
  BY BeforeNumbers DEF Without, IsFunction, SameBut, ReferenceMembers, Members, Numbers
<1>3. Committed(c, u)
  <2>1. Write(c)
    BY <1>1 DEF Commit
  <2> HIDE DEF c
  <2> QED
    BY <1>2, <2>1, WriteCommits
<1> HIDE DEF c, u
<1>4. /\ u.snapshots = table.snapshots /\ u.last_sequence = table.last_sequence
      /\ u.next_row = table.next_row /\ u.version = table.version /\ u.schemas = table.schemas
      /\ u.last_updated = table.last_updated + 1 /\ u.metadata_log = table.metadata_log + 1
      /\ u.refs = c.refs /\ u.refs_given = table.refs_given
      /\ u.current_snapshot = table.current_snapshot /\ u.log = table.log
  <2>1. /\ c.snapshots = table.snapshots /\ c.last_sequence = table.last_sequence
        /\ c.next_row = table.next_row /\ c.version = table.version /\ c.schemas = table.schemas
        /\ c.last_updated = table.last_updated /\ c.metadata_log = table.metadata_log
        /\ c.current_snapshot = table.current_snapshot /\ c.log = table.log
    BY <1>2 DEF SameBut, ReferenceMembers, Members, Numbers
  <2>2. /\ u.last_updated = c.last_updated + 1 /\ u.metadata_log = c.metadata_log + 1
        /\ u.version = c.version /\ u.schemas = c.schemas
        /\ u.snapshots = c.snapshots /\ u.current_snapshot = c.current_snapshot
        /\ u.last_sequence = c.last_sequence /\ u.next_row = c.next_row
        /\ u.refs = c.refs /\ u.refs_given = c.refs_given /\ u.log = c.log
    BY <1>3, CommittedMembers
  <2> QED
    BY <1>2, <2>1, <2>2
<1>5. SameBut(table, u, HistoryMembers)
  BY <1>2, <1>3, CommittedMembers
     DEF SameBut, HistoryMembers, ClockMembers, SnapshotMembers, CurrentMembers, ReferenceMembers
<1>6. /\ IsArray(u.snapshots, 0..(version + 1 - 1), SnapshotObject)
      /\ Unique(u.snapshots) /\ SnapshotsSound(u)
  BY <1>4, SnapshotsStay
<1>7. CountersSound(u)
  BY <1>4, BeforeNumbers DEF CountersSound
<1>8. IsArray(u.log, 0..(version + 1 - 1), LogEntry) /\ LogSound(u)
  BY <1>4, LogStays
<1>9. IsArray(u.refs, Branches \cup {"main"}, Number)
  <2>1. \A n \in DOMAIN u.refs : n \in Branches \cup {"main"} /\ u.refs[n] \in Number
    BY <1>2, <1>4, RefsBefore
  <2> QED
    BY <1>2, <1>4, <2>1, RefsArray
<1>10. RefsSound(u)
  <2>1. CurrentSnapshot(u) = CurrentSnapshot(table)
    BY <1>4 DEF CurrentSnapshot
  <2>2. b # "main"
    BY BranchesAssumption
  <2>3. RefsSound(table)
    BY DEF Before, Sound, ReferencesSound, RefsSound
  <2> QED
    BY <1>2, <1>4, <2>1, <2>2, <2>3 DEF RefsSound
<1>11. u.refs_given \in BOOLEAN /\ (u.refs_given \/ DOMAIN u.refs = {})
  <2>1. table.refs_given \in BOOLEAN /\ (table.refs_given \/ DOMAIN table.refs = {})
    BY DEF Before, Shaped, ShapedHistory
  <2> QED
    BY <1>2, <1>4, <2>1
<1>12. ShapedHistory(u, version + 1)
  BY <1>6, <1>8, <1>9, <1>11, HistoryArrays
<1>13. DOMAIN u = Members
  BY <1>3, CommittedMembers
<1>14. Shaped(u, version + 1) /\ Sound(u)
  BY <1>4, <1>5, <1>6, <1>7, <1>8, <1>10, <1>12, <1>13, HistoryCommit DEF Before
<1> QED
  BY <1>14 DEF After, u

\* The log from behind the last entry of a snapshot that is gone is sound: an entry that
\* is left is left with all entries behind it, so the last one remains the last.
LEMMA PrunedLog ==
    ASSUME Before, NEW u,
           u.log = Without(table.log, {i \in DOMAIN table.log : \E j \in DOMAIN table.log :
                                         i <= j /\ table.log[j].snapshot \notin Ids(u.snapshots)}),
           u.current_snapshot = table.current_snapshot,
           u.last_updated = table.last_updated + 1
    PROVE  IsArray(u.log, 0..(version + 1 - 1), LogEntry) /\ LogSound(u)
<1>1. version \in Nat /\ IsArray(table.log, 0..(version - 1), LogEntry) /\ LogSound(table)
  BY DEF Before, Shaped, ShapedHistory, Sound
<1>2. /\ \A i : i \in DOMAIN u.log <=>
                  /\ i \in DOMAIN table.log
                  /\ \A j \in DOMAIN table.log : i <= j => table.log[j].snapshot \in Ids(u.snapshots)
      /\ \A i \in DOMAIN u.log : u.log[i] = table.log[i]
  BY DEF Without
<1>3. \A i \in DOMAIN table.log : i \in Int
  BY <1>1 DEF IsArray
<1>4. IsArray(u.log, 0..(version + 1 - 1), LogEntry)
  <2>1. u.log = [i \in DOMAIN u.log |-> u.log[i]]
    BY DEF Without
  <2>2. \A i \in DOMAIN u.log : u.log[i] \in LogEntry /\ i \in 0..(version + 1 - 1)
    BY <1>1, <1>2 DEF IsArray
  <2> QED
    BY <2>1, <2>2 DEF IsArray
<1>5. \A i \in DOMAIN u.log : /\ u.log[i].timestamp \in Int
                              /\ u.log[i].timestamp <= u.last_updated
                              /\ u.log[i].snapshot \in Ids(u.snapshots)
  BY <1>1, <1>2, <1>3, BeforeNumbers DEF LogSound
<1>6. \A i, j \in DOMAIN u.log : i < j => u.log[i].timestamp < u.log[j].timestamp
  BY <1>1, <1>2 DEF LogSound
<1>7. ASSUME CurrentSnapshot(u) # Missing, NEW i \in LastEntry(u.log)
      PROVE  u.log[i].snapshot = CurrentSnapshot(u)
  <2>1. CurrentSnapshot(u) = CurrentSnapshot(table)
    BY DEF CurrentSnapshot
  <2>2. i \in DOMAIN u.log /\ \A j \in DOMAIN u.log : j <= i
    BY DEF LastEntry
  <2>3. ASSUME NEW j \in DOMAIN table.log PROVE j <= i
    <3>1. CASE i <= j
      <4>1. j \in DOMAIN u.log
        BY <1>2, <1>3, <2>2, <3>1
      <4> QED
        BY <2>2, <4>1
    <3>2. CASE ~(i <= j)
      BY <1>2, <1>3, <2>2, <3>2
    <3> QED
      BY <3>1, <3>2
  <2>4. i \in LastEntry(table.log)
    BY <1>2, <2>2, <2>3 DEF LastEntry
  <2> QED
    BY <1>1, <1>2, <1>7, <2>1, <2>2, <2>4 DEF LogSound
<1> QED
  BY <1>4, <1>5, <1>6, <1>7 DEF LogSound

LEMMA ExpireSound ==
    ASSUME Before, Expire
    PROVE  After
<1>1. PICK gone \in SUBSET Expirable : Commit(Pruned(Expired(table, gone)))
  BY DEF Expire
<1> DEFINE t == Expired(table, gone)
           c == Pruned(t)
           u == table'
<1>2. /\ DOMAIN t = Members
      /\ SameBut(table, t, SnapshotMembers)
      /\ t.last_sequence = table.last_sequence /\ t.next_row = table.next_row
      /\ t.snapshots = Without(table.snapshots, gone)
  BY BeforeNumbers DEF Expired, SameBut, SnapshotMembers, Members, Numbers
<1>3. /\ DOMAIN c = Members
      /\ SameBut(t, c, {"log"})
      /\ c.log = Without(t.log, {i \in DOMAIN t.log : \E j \in DOMAIN t.log :
                                   i <= j /\ t.log[j].snapshot \notin Ids(t.snapshots)})
  <2> HIDE DEF t
  <2> QED
    BY <1>2 DEF Pruned, SameBut, Members, Numbers
<1>4. Committed(c, u)
  <2>1. Write(c)
    BY <1>1 DEF Commit
  <2> HIDE DEF c
  <2> QED
    BY <1>3, <2>1, WriteCommits
<1> HIDE DEF t, c, u
<1>5. /\ u.snapshots = t.snapshots /\ u.last_sequence = table.last_sequence
      /\ u.next_row = table.next_row /\ u.version = table.version /\ u.schemas = table.schemas
      /\ u.last_updated = table.last_updated + 1 /\ u.metadata_log = table.metadata_log + 1
      /\ u.refs = table.refs /\ u.refs_given = table.refs_given
      /\ u.current_snapshot = table.current_snapshot /\ u.log = c.log /\ t.log = table.log
  <2>1. /\ c.snapshots = t.snapshots /\ c.last_sequence = t.last_sequence /\ c.next_row = t.next_row
        /\ c.version = t.version /\ c.schemas = t.schemas
        /\ c.last_updated = t.last_updated /\ c.metadata_log = t.metadata_log
        /\ c.current_snapshot = t.current_snapshot
        /\ c.refs = t.refs /\ c.refs_given = t.refs_given
    BY <1>3 DEF SameBut, Members, Numbers
  <2>2. /\ t.version = table.version /\ t.schemas = table.schemas
        /\ t.last_updated = table.last_updated /\ t.metadata_log = table.metadata_log
        /\ t.current_snapshot = table.current_snapshot /\ t.log = table.log
        /\ t.refs = table.refs /\ t.refs_given = table.refs_given
    BY <1>2 DEF SameBut, SnapshotMembers, Members, Numbers
  <2>3. /\ u.last_updated = c.last_updated + 1 /\ u.metadata_log = c.metadata_log + 1
        /\ u.version = c.version /\ u.schemas = c.schemas
        /\ u.snapshots = c.snapshots /\ u.current_snapshot = c.current_snapshot
        /\ u.last_sequence = c.last_sequence /\ u.next_row = c.next_row
        /\ u.refs = c.refs /\ u.refs_given = c.refs_given /\ u.log = c.log
    BY <1>4, CommittedMembers
  <2> QED
    BY <1>2, <2>1, <2>2, <2>3
<1>6. SameBut(table, u, HistoryMembers)
  BY <1>2, <1>3, <1>4, CommittedMembers
     DEF SameBut, HistoryMembers, ClockMembers, SnapshotMembers, CurrentMembers, ReferenceMembers
<1>7. /\ \A i : i \in DOMAIN u.snapshots <=> i \in DOMAIN table.snapshots /\ i \notin gone
      /\ \A i \in DOMAIN u.snapshots : u.snapshots[i] = table.snapshots[i]
      /\ u.snapshots = [i \in DOMAIN u.snapshots |-> u.snapshots[i]]
  BY <1>2, <1>5 DEF Without
\* What is referred to is left.
<1>8. ASSUME NEW k \in Ids(table.snapshots), k \in Retained(table)
      PROVE  k \in Ids(u.snapshots)
  <2>1. PICK i \in DOMAIN table.snapshots : table.snapshots[i].id = k /\ k # Missing
    BY IdsMember
  <2>2. i \notin gone
    BY <1>8, <2>1 DEF Expirable
  <2> QED
    BY <1>7, <2>1, <2>2, IdsMember
<1>9. /\ IsArray(u.snapshots, 0..(version + 1 - 1), SnapshotObject)
      /\ Unique(u.snapshots) /\ SnapshotsSound(u)
  <2>1. version \in Nat /\ IsArray(table.snapshots, 0..(version - 1), SnapshotObject)
    BY DEF Before, Shaped, ShapedHistory
  <2>2. \A i \in DOMAIN u.snapshots : u.snapshots[i] \in SnapshotObject /\ i \in 0..(version + 1 - 1)
    BY <1>7, <2>1 DEF IsArray
  <2>3. IsArray(u.snapshots, 0..(version + 1 - 1), SnapshotObject)
    BY <1>7, <2>2 DEF IsArray
  <2>4. ASSUME NEW i \in DOMAIN u.snapshots PROVE SnapshotSound(u, u.snapshots[i])
    <3>1. SnapshotSound(table, table.snapshots[i]) /\ u.snapshots[i] = table.snapshots[i]
      BY <1>7 DEF Before, Sound, SnapshotsSound
    <3>2. table.version >= 2 => table.last_sequence \in Nat /\ u.last_sequence \in Nat
                                  /\ u.last_sequence >= table.last_sequence
      BY <1>5, BeforeNumbers
    <3> QED
      BY <1>5, <3>1, <3>2, BeforeNumbers, SnapshotKept
  <2>5. Unique(u.snapshots)
    BY <1>7 DEF Before, Sound, IdentifiersSound, Unique
  <2> QED
    BY <2>3, <2>4, <2>5 DEF SnapshotsSound
<1>10. CountersSound(u)
  BY <1>5, BeforeNumbers DEF CountersSound
<1>11. IsArray(u.log, 0..(version + 1 - 1), LogEntry) /\ LogSound(u)
  BY <1>3, <1>5, PrunedLog
<1>12. IsArray(u.refs, Branches \cup {"main"}, Number)
  BY <1>5 DEF Before, Shaped, ShapedHistory
<1>13. RefsSound(u)
  <2>1. CurrentSnapshot(u) = CurrentSnapshot(table)
    BY <1>5 DEF CurrentSnapshot
  <2>2. RefsSound(table)
    BY DEF Before, Sound, ReferencesSound, RefsSound
  <2>3. CurrentSnapshot(table) # Missing => CurrentSnapshot(table) \in Retained(table)
    BY DEF CurrentSnapshot, Retained
  <2>4. \A n \in DOMAIN table.refs : table.refs[n] \in Retained(table)
    BY DEF Retained
  <2> QED
    BY <1>5, <1>8, <2>1, <2>2, <2>3, <2>4 DEF RefsSound
<1>14. u.refs_given \in BOOLEAN /\ (u.refs_given \/ DOMAIN u.refs = {})
  <2>1. table.refs_given \in BOOLEAN /\ (table.refs_given \/ DOMAIN table.refs = {})
    BY DEF Before, Shaped, ShapedHistory
  <2> QED
    BY <1>5, <2>1
<1>15. ShapedHistory(u, version + 1)
  BY <1>9, <1>11, <1>12, <1>14, HistoryArrays
<1>16. DOMAIN u = Members
  BY <1>4, CommittedMembers
<1>17. Shaped(u, version + 1) /\ Sound(u)
  BY <1>5, <1>6, <1>9, <1>10, <1>11, <1>13, <1>15, <1>16, HistoryCommit DEF Before
<1> QED
  BY <1>17 DEF After, u

-----------------------------------------------------------------------------
(* Commits of schemas, partition specs and sort orders.                    *)

FieldMembers ==
    {"schema", "schemas", "current_schema", "last_column", "spec", "specs", "default_spec",
     "last_partition", "orders", "default_order"}

FieldNumbers(t) ==
    /\ t.last_column \in Nat /\ t.last_partition \in Number /\ t.current_schema \in Number
    /\ t.default_spec \in Number /\ t.default_order \in Number

FieldsRequired(t) ==
    /\ t.version >= 2 \/ t.schema = Missing
         => DOMAIN t.schemas # {} /\ t.current_schema # Missing
    /\ t.version >= 2 \/ t.spec = Missing
         => DOMAIN t.specs # {} /\ t.default_spec # Missing
    /\ t.version >= 2 => /\ t.last_partition \in Nat
                         /\ t.orders # Missing /\ t.default_order # Missing

FieldRefsSound(t) ==
    /\ t.current_schema \in Ids(t.schemas) \cup {Missing}
    /\ t.default_spec \in Ids(t.specs) \cup {Missing}
    /\ t.default_order \in Ids(Orders(t)) \cup {Missing, 0}

FieldsUnique(t) == Unique(t.schemas) /\ Unique(t.specs) /\ Unique(Orders(t))

LEMMA SameMembers ==
    ASSUME NEW t, NEW u, NEW S, NEW m \in Members, SameBut(t, u, S), m \notin S
    PROVE  u[m] = t[m]
BY DEF SameBut

LEMMA FieldsCommit ==
    ASSUME Before,
           NEW u, DOMAIN u = Members, SameBut(table, u, FieldMembers \cup ClockMembers),
           u.last_updated = table.last_updated + 1, u.metadata_log = table.metadata_log + 1,
           ShapedFields(u, version + 1), FieldNumbers(u), FieldsRequired(u), FieldRefsSound(u),
           FieldsUnique(u), \A id \in Ids(table.schemas) : id \in Ids(u.schemas),
           SchemasSound(u), PartitionsSound(u), SourcesSound(u)
    PROVE  Shaped(u, version + 1) /\ Sound(u)
<1>1. /\ u.version = table.version /\ u.location = table.location /\ u.uuid = table.uuid
      /\ u.last_sequence = table.last_sequence /\ u.next_row = table.next_row
      /\ u.snapshots = table.snapshots /\ u.current_snapshot = table.current_snapshot
      /\ u.refs = table.refs /\ u.refs_given = table.refs_given /\ u.log = table.log
  BY DEF SameBut, FieldMembers, ClockMembers, Members, Numbers
<1>2. version \in Nat
  BY DEF Before
<1>3. ShapedNumbers(u)
  <2>1. /\ table.version \in Number /\ table.last_sequence \in Number /\ table.next_row \in Number
        /\ table.current_snapshot \in Number
        /\ table.location = "absolute" /\ table.uuid \in BOOLEAN
    BY DEF Before, Shaped, ShapedNumbers, Numbers
  <2>2. u.last_updated \in Number /\ u.metadata_log \in Nat /\ u.last_column \in Number
    BY BeforeNumbers DEF FieldNumbers, Number
  <2> QED
    BY <1>1, <2>1, <2>2 DEF FieldNumbers, ShapedNumbers, Numbers
<1>4. ShapedHistory(u, version + 1)
  BY <1>1, <1>2, HistoryShaped DEF Before, Shaped, Same
<1>5. RequiredSound(u)
  BY <1>1, BeforeNumbers DEF Before, Sound, RequiredSound, FieldsRequired, FieldNumbers
<1>6. ReferencesSound(u)
  BY <1>1 DEF Before, Sound, ReferencesSound, FieldRefsSound, CurrentSnapshot
<1>7. IdentifiersSound(u)
  BY <1>1 DEF Before, Sound, IdentifiersSound, FieldsUnique
<1>8. SnapshotsSound(u)
  <2>1. ASSUME NEW i \in DOMAIN table.snapshots PROVE SnapshotSound(u, table.snapshots[i])
    <3>1. SnapshotSound(table, table.snapshots[i])
      BY DEF Before, Sound, SnapshotsSound
    <3>2. table.version >= 2 => table.last_sequence \in Nat /\ u.last_sequence \in Nat
                                  /\ u.last_sequence >= table.last_sequence
      BY <1>1, BeforeNumbers
    <3> QED
      BY <1>1, <3>1, <3>2, BeforeNumbers, SnapshotKept
  <2> QED
    BY <1>1, <2>1 DEF SnapshotsSound
<1>9. LogSound(u)
  BY <1>1, BeforeNumbers, LogKept DEF Before, Sound
<1>10. u.version \in 1..3
  BY <1>1, BeforeNumbers
<1> QED
  BY <1>3, <1>4, <1>5, <1>6, <1>7, <1>8, <1>9, <1>10 DEF Shaped, Sound

\* What the rules require of the fields before a commit.
LEMMA FieldsBefore ==
    ASSUME Before
    PROVE  /\ FieldNumbers(table) /\ FieldsRequired(table) /\ FieldRefsSound(table)
           /\ FieldsUnique(table) /\ ShapedFields(table, version)
           /\ SchemasSound(table) /\ PartitionsSound(table) /\ SourcesSound(table)
           /\ version \in Nat
<1>1. FieldNumbers(table)
  BY DEF Before, Shaped, ShapedNumbers, Numbers, Sound, RequiredSound, FieldNumbers
<1>2. FieldsRequired(table)
  BY DEF Before, Sound, RequiredSound, FieldsRequired
<1>3. FieldRefsSound(table) /\ FieldsUnique(table)
  BY DEF Before, Sound, ReferencesSound, FieldRefsSound, IdentifiersSound, FieldsUnique
<1> QED
  BY <1>1, <1>2, <1>3 DEF Before, Shaped, Sound

LEMMA FieldIdMember ==
    ASSUME NEW t, NEW id
    PROVE  id \in AllFieldIds(t) <=>
             id # Missing /\ \E schema \in Schemas(t) : \E k \in DOMAIN schema : schema[k] = id
BY DEF AllFieldIds, SchemaIds

\* A field with sound sources keeps them when no column is lost.
LEMMA SourceKept ==
    ASSUME NEW t, NEW u, u.version = t.version,
           \A id \in AllFieldIds(t) : id \in AllFieldIds(u),
           NEW field, SourceSound(t, field)
    PROVE  SourceSound(u, field)
BY DEF SourceSound, ValidSources

LEMMA SourcesKept ==
    ASSUME NEW t, NEW u, u.version = t.version, u.specs = t.specs, u.spec = t.spec,
           u.orders = t.orders, \A id \in AllFieldIds(t) : id \in AllFieldIds(u), SourcesSound(t)
    PROVE  SourcesSound(u)
<1>1. Orders(u) = Orders(t)
  BY DEF Orders
<1> QED
  BY <1>1, SourceKept DEF SourcesSound

\* The schemas of a document that has an array of them.
LEMMA SchemasOfArray ==
    ASSUME NEW t, DOMAIN t.schemas # {}
    PROVE  \A schema : schema \in Schemas(t) <=> \E i \in DOMAIN t.schemas : schema = t.schemas[i].fields
BY DEF Schemas

\* A new schema next to those there are.
LEMMA SchemaAdded ==
    ASSUME Before, CurrentSchemas # {}, NEW id \in ObjectIds \ Ids(table.schemas),
           NEW fields, IsArray(fields, 0..version, Number),
           NEW u, DOMAIN u = Members,
           SameBut(table, u, ClockMembers \cup {"schema", "schemas", "current_schema", "last_column"}),
           u.last_updated = table.last_updated + 1, u.metadata_log = table.metadata_log + 1,
           u.schemas = Push(table.schemas, version, [id |-> id, fields |-> fields]),
           u.current_schema = id, u.schema = Missing \/ u.schema = fields,
           u.last_column \in Nat, u.last_column >= table.last_column,
           \A k \in DOMAIN fields : /\ fields[k] \in 1..u.last_column
                                    /\ \A l \in DOMAIN fields : fields[k] = fields[l] => k = l
    PROVE  Shaped(u, version + 1) /\ Sound(u)
<1> DEFINE x == [id |-> id, fields |-> fields]
<1>1. /\ u.version = table.version /\ u.spec = table.spec /\ u.specs = table.specs
      /\ u.default_spec = table.default_spec /\ u.last_partition = table.last_partition
      /\ u.orders = table.orders /\ u.default_order = table.default_order
  BY DEF SameBut, ClockMembers, Members, Numbers
<1>2. x.id = id /\ x.fields = fields /\ id \in Nat /\ id # Missing
  <2>1. id \in Nat
    BY IdsAssumption
  <2> QED
    BY <2>1, MissingAssumption
<1> HIDE DEF x
<1>3. /\ version \in Nat /\ DOMAIN table.schemas \subseteq 0..(version - 1)
      /\ u.schemas = Push(table.schemas, version, x)
  BY FieldsBefore DEF ShapedFields, FieldArrays, x
<1>4. /\ \A i : i \in DOMAIN u.schemas <=> i \in DOMAIN table.schemas \/ i = version
      /\ u.schemas[version] = x
      /\ \A i \in DOMAIN table.schemas : u.schemas[i] = table.schemas[i]
  BY <1>3, Pushed
<1>5. DOMAIN table.schemas # {} /\ DOMAIN u.schemas # {}
  BY <1>4 DEF CurrentSchemas
<1>6. \A k : k \in Ids(u.schemas) <=> k \in Ids(table.schemas) \/ k = id
  BY <1>2, <1>3, PushedIds
<1>7. ShapedFields(u, version + 1)
  <2>1. ASSUME NEW S, NEW f, IsArray(f, 0..(version - 1), S)
        PROVE  IsArray(f, 0..(version + 1 - 1), S)
    BY <1>3, <2>1 DEF IsArray
  <2>2. \A i \in DOMAIN u.schemas : /\ u.schemas[i].id \in Nat
                                    /\ IsArray(u.schemas[i].fields, 0..(version + 1 - 1), Number)
    <3>1. IsArray(fields, 0..(version + 1 - 1), Number)
      BY <1>3
    <3> QED
      BY <1>2, <1>4, <2>1, <3>1, FieldsBefore DEF ShapedFields, FieldArrays
  <2>3. u.schema = Missing \/ IsArray(u.schema, 0..(version + 1 - 1), Number)
    BY <1>3
  <2>4. DOMAIN u.schemas \subseteq 0..(version + 1 - 1) /\ DOMAIN u.specs \subseteq 0..(version + 1 - 1)
    BY <1>1, <1>3, <1>4, FieldsBefore DEF ShapedFields, FieldArrays
  <2>5. DOMAIN u.schemas = {} <=> DOMAIN u.specs = {}
    BY <1>1, <1>5, FieldsBefore DEF ShapedFields, FieldArrays
  <2>6. SingleSpec(u)
    BY <1>5 DEF SingleSpec
  <2> QED
    BY <1>1, <2>1, <2>2, <2>3, <2>4, <2>5, <2>6, FieldsBefore DEF ShapedFields, FieldArrays
<1>8. FieldNumbers(u) /\ FieldsRequired(u)
  BY <1>1, <1>2, <1>5, FieldsBefore DEF FieldNumbers, FieldsRequired, Number
<1>9. FieldRefsSound(u)
  BY <1>1, <1>6, FieldsBefore DEF FieldRefsSound, Orders
<1>10. FieldsUnique(u)
  <2>1. FieldsUnique(table)
    BY FieldsBefore
  <2>2. Unique(u.schemas)
    BY <1>2, <1>3, <2>1, PushedUnique DEF FieldsUnique
  <2> QED
    BY <1>1, <2>1, <2>2 DEF FieldsUnique, Orders
<1>11. \A schema : schema \in Schemas(u) <=> schema \in Schemas(table) \/ schema = fields
  <2>1. \A schema : schema \in Schemas(u) <=> \E i \in DOMAIN u.schemas : schema = u.schemas[i].fields
    BY <1>5, SchemasOfArray
  <2>2. \A schema : schema \in Schemas(table)
                      <=> \E i \in DOMAIN table.schemas : schema = table.schemas[i].fields
    BY <1>5, SchemasOfArray
  <2> QED
    BY <1>2, <1>4, <2>1, <2>2
<1>12. SchemasSound(u)
  <2>1. table.last_column \in Nat /\ SchemasSound(table)
    BY FieldsBefore DEF FieldNumbers
  <2> QED
    BY <1>11, <2>1 DEF SchemasSound
<1>13. PartitionsSound(u)
  BY <1>1, FieldsBefore, PartitionsKept
<1>14. SourcesSound(u)
  <2>1. \A k \in AllFieldIds(table) : k \in AllFieldIds(u)
    BY <1>11, FieldIdMember
  <2> QED
    BY <1>1, <2>1, FieldsBefore, SourcesKept
<1>15. SameBut(table, u, FieldMembers \cup ClockMembers)
  BY DEF SameBut, FieldMembers, ClockMembers
<1> QED
  BY <1>6, <1>7, <1>8, <1>9, <1>10, <1>12, <1>13, <1>14, <1>15, FieldsCommit

LEMMA SchemaBefore ==
    ASSUME Before, NEW i \in CurrentSchemas
    PROVE  /\ IsArray(table.schemas[i].fields, 0..(version - 1), Number)
           /\ \A k \in DOMAIN table.schemas[i].fields :
                /\ table.schemas[i].fields[k] \in 1..table.last_column
                /\ \A l \in DOMAIN table.schemas[i].fields :
                     table.schemas[i].fields[k] = table.schemas[i].fields[l] => k = l
<1>1. i \in DOMAIN table.schemas
  BY DEF CurrentSchemas
<1>2. table.schemas[i].fields \in Schemas(table)
  BY <1>1, SchemasOfArray
<1>3. IsArray(table.schemas[i].fields, 0..(version - 1), Number)
  BY <1>1, FieldsBefore DEF ShapedFields, FieldArrays
<1> QED
  BY <1>2, <1>3, FieldsBefore DEF SchemasSound

LEMMA AddColumnSound ==
    ASSUME Before, AddColumn
    PROVE  After
<1>1. PICK i \in CurrentSchemas, id \in ObjectIds \ Ids(table.schemas) :
        Commit([WithSchema(table, id, Push(table.schemas[i].fields, version, table.last_column + 1))
                  EXCEPT !.last_column = @ + 1])
  BY DEF AddColumn
<1> DEFINE fields == Push(table.schemas[i].fields, version, table.last_column + 1)
           c == [WithSchema(table, id, fields) EXCEPT !.last_column = @ + 1]
           u == table'
<1>2. version \in Nat /\ table.last_column \in Nat /\ table.last_column + 1 \in Number
  BY BeforeNumbers, FieldsBefore DEF Number
<1>3. /\ IsArray(fields, 0..version, Number)
      /\ \A k : k \in DOMAIN fields <=> k \in DOMAIN table.schemas[i].fields \/ k = version
      /\ fields[version] = table.last_column + 1
      /\ \A k \in DOMAIN table.schemas[i].fields : fields[k] = table.schemas[i].fields[k]
  <2>1. IsArray(table.schemas[i].fields, 0..(version - 1), Number)
    BY SchemaBefore
  <2>2. DOMAIN table.schemas[i].fields \subseteq 0..(version - 1)
    BY <2>1 DEF IsArray
  <2>3. IsArray(fields, 0..version, Number)
    BY <1>2, <2>1, PushedArray
  <2> QED
    BY <1>2, <2>2, <2>3, Pushed
<1> HIDE DEF fields
<1>4. /\ DOMAIN c = Members
      /\ SameBut(table, c, {"schema", "schemas", "current_schema", "last_column"})
      /\ c.schemas = Push(table.schemas, version, [id |-> id, fields |-> fields])
      /\ c.current_schema = id /\ (c.schema = Missing \/ c.schema = fields)
      /\ c.last_column = table.last_column + 1
  BY BeforeNumbers DEF WithSchema, SameBut, Members, Numbers
<1>5. Committed(c, u)
  <2>1. Write(c)
    BY <1>1 DEF Commit, fields
  <2> HIDE DEF c
  <2> QED
    BY <1>4, <2>1, WriteCommits
<1> HIDE DEF c, u
<1>6. /\ u.last_updated = table.last_updated + 1 /\ u.metadata_log = table.metadata_log + 1
      /\ u.schemas = c.schemas /\ u.current_schema = c.current_schema /\ u.schema = c.schema
      /\ u.last_column = c.last_column
  BY <1>4, <1>5 DEF Committed, SameBut, ClockMembers, Members, Numbers
<1>7. SameBut(table, u, ClockMembers \cup {"schema", "schemas", "current_schema", "last_column"})
  BY <1>4, <1>5 DEF Committed, SameBut, ClockMembers
<1>8. \A k \in DOMAIN fields : /\ fields[k] \in 1..u.last_column
                               /\ \A l \in DOMAIN fields : fields[k] = fields[l] => k = l
  BY <1>2, <1>3, <1>4, <1>6, SchemaBefore
<1>9. Shaped(u, version + 1) /\ Sound(u)
  <2>1. u.last_column \in Nat /\ u.last_column >= table.last_column /\ DOMAIN u = Members
    BY <1>2, <1>4, <1>5, <1>6 DEF Committed
  <2>2. /\ u.schemas = Push(table.schemas, version, [id |-> id, fields |-> fields])
        /\ u.current_schema = id /\ (u.schema = Missing \/ u.schema = fields)
    BY <1>4, <1>6
  <2>3. IsArray(fields, 0..version, Number) /\ CurrentSchemas # {}
    BY <1>3
  <2> QED
    BY <1>6, <1>7, <1>8, <2>1, <2>2, <2>3, SchemaAdded
<1> QED
  BY <1>9 DEF After, u

LEMMA DropColumnSound ==
    ASSUME Before, DropColumn
    PROVE  After
<1>1. PICK i \in CurrentSchemas, id \in ObjectIds \ Ids(table.schemas) :
        \E k \in DOMAIN table.schemas[i].fields :
          Commit(WithSchema(table, id, Without(table.schemas[i].fields, {k})))
  BY DEF DropColumn
<1>2. PICK d \in DOMAIN table.schemas[i].fields :
         Commit(WithSchema(table, id, Without(table.schemas[i].fields, {d})))
  BY <1>1
<1> DEFINE fields == Without(table.schemas[i].fields, {d})
           c == WithSchema(table, id, fields)
           u == table'
<1>3. version \in Nat /\ table.last_column \in Nat
  BY BeforeNumbers, FieldsBefore
<1>4. /\ IsArray(fields, 0..version, Number)
      /\ \A k \in DOMAIN fields : k \in DOMAIN table.schemas[i].fields
      /\ \A k \in DOMAIN fields : fields[k] = table.schemas[i].fields[k]
  <2>1. IsArray(table.schemas[i].fields, 0..(version - 1), Number)
    BY SchemaBefore
  <2> QED
    BY <1>3, <2>1 DEF Without, IsArray
<1> HIDE DEF fields
<1>5. /\ DOMAIN c = Members
      /\ SameBut(table, c, {"schema", "schemas", "current_schema", "last_column"})
      /\ c.schemas = Push(table.schemas, version, [id |-> id, fields |-> fields])
      /\ c.current_schema = id /\ (c.schema = Missing \/ c.schema = fields)
      /\ c.last_column = table.last_column
  BY BeforeNumbers DEF WithSchema, SameBut, Members, Numbers
<1>6. Committed(c, u)
  <2>1. Write(c)
    BY <1>2 DEF Commit, fields
  <2> HIDE DEF c
  <2> QED
    BY <1>5, <2>1, WriteCommits
<1> HIDE DEF c, u
<1>7. /\ u.last_updated = table.last_updated + 1 /\ u.metadata_log = table.metadata_log + 1
      /\ u.schemas = c.schemas /\ u.current_schema = c.current_schema /\ u.schema = c.schema
      /\ u.last_column = c.last_column
  BY <1>5, <1>6 DEF Committed, SameBut, ClockMembers, Members, Numbers
<1>8. SameBut(table, u, ClockMembers \cup {"schema", "schemas", "current_schema", "last_column"})
  BY <1>5, <1>6 DEF Committed, SameBut, ClockMembers
<1>9. \A k \in DOMAIN fields : /\ fields[k] \in 1..u.last_column
                               /\ \A l \in DOMAIN fields : fields[k] = fields[l] => k = l
  BY <1>3, <1>4, <1>5, <1>7, SchemaBefore
<1>10. Shaped(u, version + 1) /\ Sound(u)
  <2>1. u.last_column \in Nat /\ u.last_column >= table.last_column /\ DOMAIN u = Members
    BY <1>3, <1>5, <1>6, <1>7 DEF Committed
  <2>2. /\ u.schemas = Push(table.schemas, version, [id |-> id, fields |-> fields])
        /\ u.current_schema = id /\ (u.schema = Missing \/ u.schema = fields)
    BY <1>5, <1>7
  <2>3. IsArray(fields, 0..version, Number) /\ CurrentSchemas # {}
    BY <1>4
  <2> QED
    BY <1>7, <1>8, <1>9, <2>1, <2>2, <2>3, SchemaAdded
<1> QED
  BY <1>10 DEF After, u

\* A commit that is about fields: the members it may set, one by one.
LEMMA FieldsCommitted ==
    ASSUME NEW t, NEW c, SameBut(t, c, FieldMembers), NEW u, Committed(c, u)
    PROVE  /\ DOMAIN u = Members
           /\ SameBut(t, u, FieldMembers \cup ClockMembers)
           /\ u.last_updated = t.last_updated + 1 /\ u.metadata_log = t.metadata_log + 1
           /\ u.version = t.version
           /\ u.schema = c.schema /\ u.schemas = c.schemas /\ u.current_schema = c.current_schema
           /\ u.last_column = c.last_column
           /\ u.spec = c.spec /\ u.specs = c.specs /\ u.default_spec = c.default_spec
           /\ u.last_partition = c.last_partition
           /\ u.orders = c.orders /\ u.default_order = c.default_order
<1>1. /\ c.last_updated = t.last_updated /\ c.metadata_log = t.metadata_log
      /\ c.version = t.version
  BY DEF SameBut, FieldMembers, Members, Numbers
<1>2. SameBut(t, u, FieldMembers \cup ClockMembers)
  BY DEF Committed, SameBut
<1> QED
  BY <1>1, <1>2 DEF Committed, SameBut, ClockMembers, Members, Numbers

LEMMA ColumnsAreNumbers ==
    ASSUME Before, NEW id \in Columns
    PROVE  id \in Nat /\ id \in Number /\ id # Missing
<1>1. PICK schema \in Schemas(table) : \E k \in DOMAIN schema : schema[k] = id
  BY FieldIdMember DEF Columns
<1>2. table.last_column \in Nat /\ id \in 1..table.last_column
  BY <1>1, FieldsBefore DEF SchemasSound, FieldNumbers
<1>3. id \in Nat
  BY <1>2
<1> QED
  BY <1>3, MissingAssumption DEF Number

\* A field of one column that there is.
LEMMA SourceOfColumn ==
    ASSUME NEW t, NEW source \in AllFieldIds(t), NEW field, field.sources = {source}
    PROVE  SourceSound(t, field)
<1>1. Cardinality({source}) = 1
  BY FS_Singleton
<1>2. source # Missing
  BY DEF AllFieldIds
<1> QED
  BY <1>1, <1>2 DEF SourceSound, ValidSources

LEMMA SortBySound ==
    ASSUME Before, SortBy
    PROVE  After
<1> DEFINE order(source, id) ==
             [id |-> id, fields |-> [k \in {0} |-> [sources |-> {source}]]]
<1>1. PICK source \in Columns, id \in ObjectIds \ Ids(table.orders) :
        Commit([table EXCEPT !.orders = Push(@, version, order(source, id)), !.default_order = id])
  BY Zenon DEF SortBy
<1> DEFINE x == order(source, id)
           c == [table EXCEPT !.orders = Push(@, version, x), !.default_order = id]
           u == table'
<1>2. version \in Nat /\ version <= MaxSteps /\ MaxSteps \in Nat
  BY <1>1, FieldsBefore, BoundsAssumption DEF Commit, Write
<1>3. source \in Number /\ source \in AllFieldIds(table) /\ id \in Nat
  BY ColumnsAreNumbers, IdsAssumption DEF Columns
<1>4. /\ x \in SortOrder /\ x.id = id /\ DOMAIN x.fields = {0} /\ x.fields[0].sources = {source}
      /\ id # Missing
  <2>1. [sources |-> {source}] \in FieldOfOrder
    BY <1>3 DEF FieldOfOrder
  <2>2. [k \in {0} |-> [sources |-> {source}]] \in [{0} -> FieldOfOrder]
    BY <2>1
  <2>3. id # Missing
    BY <1>3, MissingAssumption
  <2>4. {0} \in SUBSET (0..MaxSteps)
    BY BoundsAssumption
  <2> QED
    BY <1>3, <2>2, <2>3, <2>4 DEF SortOrder
<1>5. Committed(c, u) /\ DOMAIN c = Members /\ SameBut(table, c, FieldMembers)
      /\ c.orders = Push(table.orders, version, x) /\ c.default_order = id
      /\ SameBut(table, c, {"orders", "default_order"})
  <2>1. Write(c)
    BY <1>1 DEF Commit
  <2> HIDE DEF x
  <2>2. /\ DOMAIN c = Members /\ SameBut(table, c, {"orders", "default_order"})
        /\ c.orders = Push(table.orders, version, x) /\ c.default_order = id
    BY BeforeNumbers DEF SameBut, Members, Numbers
  <2>3. SameBut(table, c, FieldMembers)
    BY <2>2 DEF SameBut, FieldMembers
  <2> HIDE DEF c
  <2> QED
    BY <2>1, <2>2, <2>3, WriteCommits
<1> HIDE DEF x, c, u
<1>6. /\ u.schema = table.schema /\ u.schemas = table.schemas /\ u.spec = table.spec
      /\ u.specs = table.specs /\ u.current_schema = table.current_schema
      /\ u.default_spec = table.default_spec /\ u.version = table.version
      /\ u.last_column = table.last_column /\ u.last_partition = table.last_partition
      /\ u.orders = Push(table.orders, version, x) /\ u.default_order = id
  <2>1. /\ c.schema = table.schema /\ c.schemas = table.schemas /\ c.spec = table.spec
        /\ c.specs = table.specs /\ c.current_schema = table.current_schema
        /\ c.default_spec = table.default_spec
        /\ c.last_column = table.last_column /\ c.last_partition = table.last_partition
    BY <1>5 DEF SameBut, Members, Numbers
  <2> QED
    BY <1>5, <2>1, FieldsCommitted
<1>7. table.orders # Missing /\ IsArray(table.orders, 0..(version - 1), SortOrder)
  BY FieldsBefore DEF SortBy, ShapedFields, FieldArrays
<1>8. IsArray(u.orders, 0..version, SortOrder)
  BY <1>2, <1>4, <1>6, <1>7, PushedArray
<1>9. u.orders # Missing
  <2>1. DOMAIN u.orders \in SUBSET (0..MaxSteps) /\ u.orders \in [DOMAIN u.orders -> SortOrder]
    BY <1>2, <1>8 DEF IsArray
  <2> QED
    BY <2>1, ArraysAssumption
<1>10. Orders(u) = u.orders /\ Orders(table) = table.orders
  BY <1>7, <1>9 DEF Orders
<1>11. DOMAIN table.orders \subseteq 0..(version - 1)
  BY <1>7 DEF IsArray
<1>12. /\ \A i : i \in DOMAIN u.orders <=> i \in DOMAIN table.orders \/ i = version
       /\ u.orders[version] = x
       /\ \A i \in DOMAIN table.orders : u.orders[i] = table.orders[i]
  BY <1>2, <1>6, <1>11, Pushed
<1>13. \A k : k \in Ids(u.orders) <=> k \in Ids(table.orders) \/ k = id
  BY <1>2, <1>4, <1>6, <1>11, PushedIds
<1>14. ShapedFields(u, version + 1)
  <2>1. ASSUME NEW S, NEW f, IsArray(f, 0..(version - 1), S)
        PROVE  IsArray(f, 0..(version + 1 - 1), S)
    BY <1>2, <2>1 DEF IsArray
  <2>2. IsArray(u.orders, 0..(version + 1 - 1), SortOrder)
    BY <1>2, <1>8
  <2>3. DOMAIN u.schemas \subseteq 0..(version + 1 - 1) /\ DOMAIN u.specs \subseteq 0..(version + 1 - 1)
    BY <1>2, <1>6, FieldsBefore DEF ShapedFields, FieldArrays
  <2>4. SingleSpec(u)
    BY <1>6, FieldsBefore DEF ShapedFields, SingleSpec
  <2> QED
    BY <1>6, <2>1, <2>2, <2>3, <2>4, FieldsBefore DEF ShapedFields, FieldArrays
<1>15. FieldNumbers(u) /\ FieldsRequired(u)
  BY <1>3, <1>4, <1>6, <1>9, FieldsBefore DEF FieldNumbers, FieldsRequired, Number
<1>16. FieldRefsSound(u)
  BY <1>6, <1>10, <1>13, FieldsBefore DEF FieldRefsSound
<1>17. FieldsUnique(u)
  <2>1. Unique(u.orders)
    BY <1>2, <1>4, <1>6, <1>10, <1>11, FieldsBefore, PushedUnique DEF FieldsUnique
  <2> QED
    BY <1>6, <1>10, <2>1, FieldsBefore DEF FieldsUnique
<1>18. AllFieldIds(u) = AllFieldIds(table) /\ Schemas(u) = Schemas(table)
  BY <1>6 DEF AllFieldIds, Schemas
<1>19. SchemasSound(u)
  BY <1>6, <1>18, FieldsBefore DEF SchemasSound
<1>20. PartitionsSound(u)
  BY <1>6, FieldsBefore, PartitionsKept
<1>21. SourcesSound(u)
  <2>1. \A field : SourceSound(table, field) => SourceSound(u, field)
    BY <1>6, <1>18, SourceKept
  <2>2. SourceSound(u, x.fields[0])
    BY <1>3, <1>4, <1>18, SourceOfColumn
  <2>3. \A i \in DOMAIN u.orders : \A k \in DOMAIN u.orders[i].fields :
          SourceSound(u, u.orders[i].fields[k])
    BY <1>4, <1>10, <1>12, <2>1, <2>2, FieldsBefore DEF SourcesSound
  <2> QED
    BY <1>6, <1>10, <2>1, <2>3, FieldsBefore DEF SourcesSound
<1>22. Shaped(u, version + 1) /\ Sound(u)
  BY <1>5, <1>6, <1>14, <1>15, <1>16, <1>17, <1>19, <1>20, <1>21, FieldsCommitted, FieldsCommit
<1> QED
  BY <1>22 DEF After, u

\* The single schema and partition spec of an old document, which count only here.
LEMMA LegacyBefore ==
    ASSUME Before, Legacy(table)
    PROVE  /\ table.version = 1
           /\ DOMAIN table.schemas = {} /\ DOMAIN table.specs = {}
           /\ table.schema # Missing /\ IsArray(table.schema, 0..(version - 1), Number)
           /\ table.spec # Missing /\ IsArray(table.spec, {0}, LegacyField)
           /\ Schemas(table) = {table.schema}
<1>1. DOMAIN table.schemas = {} /\ DOMAIN table.specs = {}
  BY FieldsBefore DEF Legacy, ShapedFields, FieldArrays
<1>2. table.version = 1 /\ table.schema # Missing /\ table.spec # Missing
  BY <1>1, FieldsBefore, BeforeNumbers DEF FieldsRequired
<1>3. Schemas(table) = {table.schema}
  BY <1>1, <1>2 DEF Schemas
<1> QED
  BY <1>1, <1>2, <1>3, FieldsBefore DEF ShapedFields, FieldArrays, SingleSpec

\* No field of an empty array of partition specs.
LEMMA NoPartitions ==
    ASSUME NEW t, DOMAIN t.specs = {}
    PROVE  PartitionFields(t) = {} /\ Identified(t) = {} /\ ~ReassignedPartitionIds(t)
<1>1. PartitionFields(t) = {}
  BY DEF PartitionFields
<1> QED
  BY <1>1 DEF Identified, Signed, ReassignedPartitionIds

LEMMA LegacyColumnSound ==
    ASSUME Before, LegacyColumn
    PROVE  After
<1> DEFINE fields == Push(table.schema, version, table.last_column + 1)
           c == [table EXCEPT !.schema = Push(@, version, table.last_column + 1),
                              !.last_column = @ + 1]
           u == table'
<1>1. Legacy(table) /\ Commit(c)
  BY DEF LegacyColumn
<1>2. version \in Nat /\ version <= MaxSteps /\ MaxSteps \in Nat
  BY <1>1, FieldsBefore, BoundsAssumption DEF Commit, Write
<1>3. /\ table.version = 1
      /\ DOMAIN table.schemas = {} /\ DOMAIN table.specs = {}
      /\ IsArray(table.schema, 0..(version - 1), Number)
      /\ Schemas(table) = {table.schema} /\ table.spec # Missing
  BY <1>1, LegacyBefore
<1>4. table.last_column \in Nat /\ table.last_column + 1 \in Number
  BY BeforeNumbers DEF Number
<1>5. /\ IsArray(fields, 0..version, Number)
      /\ \A k : k \in DOMAIN fields <=> k \in DOMAIN table.schema \/ k = version
      /\ fields[version] = table.last_column + 1
      /\ \A k \in DOMAIN table.schema : fields[k] = table.schema[k]
  <2>1. DOMAIN table.schema \subseteq 0..(version - 1)
    BY <1>3 DEF IsArray
  <2>2. IsArray(fields, 0..version, Number)
    BY <1>2, <1>3, <1>4, PushedArray
  <2> QED
    BY <1>2, <2>1, <2>2, Pushed
<1>6. fields # Missing
  <2>1. DOMAIN fields \in SUBSET (0..MaxSteps) /\ fields \in [DOMAIN fields -> Number]
    BY <1>2, <1>5 DEF IsArray
  <2> QED
    BY <2>1, ArraysAssumption
<1> HIDE DEF fields
<1>7. /\ Committed(c, u) /\ SameBut(table, c, FieldMembers)
      /\ SameBut(table, c, {"schema", "last_column"})
      /\ c.schema = fields /\ c.last_column = table.last_column + 1
  <2>1. Write(c)
    BY <1>1 DEF Commit
  <2>2. /\ DOMAIN c = Members /\ SameBut(table, c, {"schema", "last_column"})
        /\ c.schema = fields /\ c.last_column = table.last_column + 1
    BY BeforeNumbers DEF SameBut, Members, Numbers, fields
  <2>3. SameBut(table, c, FieldMembers)
    BY <2>2 DEF SameBut, FieldMembers
  <2> HIDE DEF c
  <2> QED
    BY <2>1, <2>2, <2>3, WriteCommits
<1> HIDE DEF c, u
<1>8. /\ u.schema = fields /\ u.schemas = table.schemas /\ u.spec = table.spec
      /\ u.specs = table.specs /\ u.current_schema = table.current_schema
      /\ u.default_spec = table.default_spec /\ u.version = table.version
      /\ u.last_column = table.last_column + 1 /\ u.last_partition = table.last_partition
      /\ u.orders = table.orders /\ u.default_order = table.default_order
  <2>1. /\ c.schemas = table.schemas /\ c.spec = table.spec
        /\ c.specs = table.specs /\ c.current_schema = table.current_schema
        /\ c.default_spec = table.default_spec /\ c.last_partition = table.last_partition
        /\ c.orders = table.orders /\ c.default_order = table.default_order
    BY <1>7 DEF SameBut, Members, Numbers
  <2> QED
    BY <1>7, <2>1, FieldsCommitted
<1>9. Orders(u) = Orders(table) /\ Schemas(u) = {fields}
  BY <1>3, <1>6, <1>8 DEF Orders, Schemas
<1>10. ShapedFields(u, version + 1)
  <2>1. ASSUME NEW S, NEW f, IsArray(f, 0..(version - 1), S)
        PROVE  IsArray(f, 0..(version + 1 - 1), S)
    BY <1>2, <2>1 DEF IsArray
  <2>2. IsArray(u.schema, 0..(version + 1 - 1), Number)
    BY <1>2, <1>5, <1>8
  <2>3. SingleSpec(u)
    BY <1>8, FieldsBefore DEF ShapedFields, SingleSpec
  <2> QED
    BY <1>3, <1>8, <2>1, <2>2, <2>3, FieldsBefore DEF ShapedFields, FieldArrays
<1>11. FieldNumbers(u) /\ FieldsRequired(u)
  BY <1>3, <1>4, <1>6, <1>8, FieldsBefore DEF FieldNumbers, FieldsRequired
<1>12. FieldRefsSound(u) /\ FieldsUnique(u)
  BY <1>8, <1>9, FieldsBefore DEF FieldRefsSound, FieldsUnique
<1>13. SchemasSound(u)
  <2>1. \A k \in DOMAIN table.schema :
          /\ table.schema[k] \in 1..table.last_column
          /\ \A l \in DOMAIN table.schema : table.schema[k] = table.schema[l] => k = l
    BY <1>3, FieldsBefore DEF SchemasSound
  <2> QED
    BY <1>4, <1>5, <1>8, <1>9, <2>1 DEF SchemasSound
<1>14. PartitionsSound(u)
  BY <1>8, FieldsBefore, PartitionsKept
<1>15. SourcesSound(u)
  <2>1. \A k \in AllFieldIds(table) : k \in AllFieldIds(u)
    BY <1>3, <1>5, <1>9, FieldIdMember
  <2> QED
    BY <1>8, <2>1, FieldsBefore, SourcesKept
<1>16. Shaped(u, version + 1) /\ Sound(u)
  <2>1. /\ DOMAIN u = Members /\ SameBut(table, u, FieldMembers \cup ClockMembers)
        /\ u.last_updated = table.last_updated + 1 /\ u.metadata_log = table.metadata_log + 1
    BY <1>7, FieldsCommitted
  <2> QED
    BY <1>8, <1>10, <1>11, <1>12, <1>13, <1>14, <1>15, <2>1, FieldsCommit
<1> QED
  BY <1>16 DEF After, u

LEMMA LegacyPartitionSound ==
    ASSUME Before, LegacyPartition
    PROVE  After
<1> DEFINE field(source, transform) == [id |-> 1, sources |-> {source}, transform |-> transform]
<1>1. PICK source \in Columns, transform \in Transforms :
        Commit([table EXCEPT !.spec = [k \in {0} |-> field(source, transform)]])
  BY DEF LegacyPartition
<1> DEFINE x == field(source, transform)
           c == [table EXCEPT !.spec = [k \in {0} |-> x]]
           u == table'
<1>2. version \in Nat /\ version <= MaxSteps /\ MaxSteps \in Nat
  BY <1>1, FieldsBefore, BoundsAssumption DEF Commit, Write
<1>3. /\ table.version = 1
      /\ DOMAIN table.schemas = {} /\ DOMAIN table.specs = {} /\ table.schema # Missing
  BY LegacyBefore DEF LegacyPartition
<1>4. source \in Number /\ source \in AllFieldIds(table)
  BY ColumnsAreNumbers DEF Columns
<1>5. x \in LegacyField /\ x \in FieldOfSpec /\ x.sources = {source}
  BY <1>4 DEF LegacyField, FieldOfSpec, Number
<1>6. [k \in {0} |-> x] # Missing
  <2>1. {0} \in SUBSET (0..MaxSteps) /\ [k \in {0} |-> x] \in [{0} -> FieldOfSpec]
    BY <1>2, <1>5
  <2> QED
    BY <2>1, ArraysAssumption
<1>7. /\ Committed(c, u) /\ SameBut(table, c, FieldMembers) /\ SameBut(table, c, {"spec"})
      /\ c.spec = [k \in {0} |-> x]
  <2>1. Write(c)
    BY <1>1 DEF Commit
  <2> HIDE DEF x
  <2>2. DOMAIN c = Members /\ SameBut(table, c, {"spec"}) /\ c.spec = [k \in {0} |-> x]
    BY BeforeNumbers DEF SameBut, Members, Numbers
  <2>3. SameBut(table, c, FieldMembers)
    BY <2>2 DEF SameBut, FieldMembers
  <2> HIDE DEF c
  <2> QED
    BY <2>1, <2>2, <2>3, WriteCommits
<1> HIDE DEF x, c, u
<1>8. /\ u.schema = table.schema /\ u.schemas = table.schemas /\ u.spec = [k \in {0} |-> x]
      /\ u.specs = table.specs /\ u.current_schema = table.current_schema
      /\ u.default_spec = table.default_spec /\ u.version = table.version
      /\ u.last_column = table.last_column /\ u.last_partition = table.last_partition
      /\ u.orders = table.orders /\ u.default_order = table.default_order
  <2>1. /\ c.schema = table.schema /\ c.schemas = table.schemas /\ c.last_column = table.last_column
        /\ c.specs = table.specs /\ c.current_schema = table.current_schema
        /\ c.default_spec = table.default_spec /\ c.last_partition = table.last_partition
        /\ c.orders = table.orders /\ c.default_order = table.default_order
    BY <1>7 DEF SameBut, Members, Numbers
  <2> QED
    BY <1>7, <2>1, FieldsCommitted
<1>9. /\ Orders(u) = Orders(table) /\ Schemas(u) = Schemas(table)
      /\ AllFieldIds(u) = AllFieldIds(table)
  BY <1>8 DEF Orders, Schemas, AllFieldIds
<1>10. ShapedFields(u, version + 1)
  <2>1. ASSUME NEW S, NEW f, IsArray(f, 0..(version - 1), S)
        PROVE  IsArray(f, 0..(version + 1 - 1), S)
    BY <1>2, <2>1 DEF IsArray
  <2>2. SingleSpec(u)
    BY <1>5, <1>8 DEF SingleSpec, IsArray
  <2>3. IsArray(u.spec, 0..(version + 1 - 1), FieldOfSpec)
    BY <1>2, <1>5, <1>8 DEF IsArray
  <2> QED
    BY <1>3, <1>8, <2>1, <2>2, <2>3, FieldsBefore DEF ShapedFields, FieldArrays
<1>11. FieldNumbers(u) /\ FieldsRequired(u)
  BY <1>3, <1>6, <1>8, FieldsBefore DEF FieldNumbers, FieldsRequired
<1>12. FieldRefsSound(u) /\ FieldsUnique(u)
  BY <1>8, <1>9, FieldsBefore DEF FieldRefsSound, FieldsUnique
<1>13. SchemasSound(u)
  BY <1>8, <1>9, FieldsBefore DEF SchemasSound
<1>14. PartitionsSound(u)
  BY <1>8, FieldsBefore, PartitionsKept
<1>15. SourcesSound(u)
  <2>1. \A f : SourceSound(table, f) => SourceSound(u, f)
    BY <1>8, <1>9, SourceKept
  <2>2. SourceSound(u, x)
    BY <1>4, <1>5, <1>9, SourceOfColumn
  <2> QED
    BY <1>3, <1>8, <1>9, <2>1, <2>2, FieldsBefore DEF SourcesSound
<1>16. Shaped(u, version + 1) /\ Sound(u)
  BY <1>7, <1>8, <1>10, <1>11, <1>12, <1>13, <1>14, <1>15, FieldsCommitted, FieldsCommit
<1> QED
  BY <1>16 DEF After, u

\* A finite set of integers has a greatest element: one with the fewest above it.
LEMMA FiniteGreatest ==
    ASSUME NEW T, IsFiniteSet(T), T \subseteq Int, T # {}
    PROVE  \E x \in T : \A y \in T : y <= x
<1> DEFINE Above(x) == {y \in T : y > x}
           U == {Cardinality(Above(x)) : x \in T}
<1>1. ASSUME NEW x \in T
      PROVE  IsFiniteSet(Above(x)) /\ Cardinality(Above(x)) \in Nat
  <2>1. Above(x) \in SUBSET T
    OBVIOUS
  <2> HIDE DEF Above
  <2> QED
    BY <2>1, FS_Subset, FS_CardinalityType
<1>2. U \subseteq Nat /\ U # {}
  <2> HIDE DEF Above
  <2> QED
    BY <1>1
<1>3. PICK u \in U : \A v \in U : u <= v
  <2> HIDE DEF U
  <2> QED
    BY <1>2, LeastElement
<1>4. PICK x \in T : u = Cardinality(Above(x))
  OBVIOUS
<1>5. ASSUME NEW y \in T, y > x
      PROVE  FALSE
  <2>1. Above(y) \in SUBSET Above(x) /\ Above(y) # Above(x)
    <3>1. y \in Above(x) /\ ~(y \in Above(y))
      BY <1>5
    <3>2. \A z \in Above(y) : z \in Above(x)
      BY <1>5
    <3> QED
      BY <3>1, <3>2
  <2>2. Cardinality(Above(x)) <= Cardinality(Above(y))
    BY <1>3, <1>4
  <2> HIDE DEF Above, U
  <2> QED
    BY <1>1, <2>1, <2>2, FS_Subset
<1>6. \A y \in T : y <= x
  BY <1>5
<1> QED
  BY <1>6

LEMMA GreatestIs ==
    ASSUME NEW T, IsFiniteSet(T), T \subseteq Int, T # {}
    PROVE  Greatest(T) \in T /\ \A y \in T : y <= Greatest(T)
<1>1. \E x \in T : \A y \in T : y <= x
  BY FiniteGreatest
<1> QED
  BY <1>1, Zenon DEF Greatest

\* Finitely many objects hold finitely many IDs.
LEMMA FiniteIds ==
    ASSUME NEW n \in Nat, NEW f, DOMAIN f \subseteq 0..(n - 1)
    PROVE  IsFiniteSet(Ids(f))
<1> DEFINE I == {f[i].id : i \in DOMAIN f}
           g == [i \in DOMAIN f |-> f[i].id]
<1>1. IsFiniteSet(DOMAIN f)
  <2>1. IsFiniteSet(0..(n - 1))
    BY FS_Interval
  <2> QED
    BY <2>1, FS_Subset
<1>2. IsFiniteSet(I)
  <2>1. g \in Surjection(DOMAIN f, I)
    BY DEF Surjection
  <2> HIDE DEF g, I
  <2> QED
    BY <1>1, <2>1, FS_Surjection
<1>3. Ids(f) \in SUBSET I
  BY DEF Ids
<1> HIDE DEF I
<1> QED
  BY <1>2, <1>3, FS_Subset

\* The IDs of the partition fields are finitely many.
LEMMA FinitePartitionIds ==
    ASSUME NEW t, NEW n \in Nat, NEW F, F = PartitionFields(t),
           \A p \in F : p[1] \in 0..n /\ p[2] \in 0..n /\ p = <<p[1], p[2]>>
    PROVE  IsFiniteSet({PartitionField(t, p).id : p \in F})
<1> DEFINE S == (0..n) \X (0..n)
           I == {PartitionField(t, p).id : p \in F}
           f == [p \in F |-> PartitionField(t, p).id]
<1>1. IsFiniteSet(S)
  <2>1. IsFiniteSet(0..n)
    BY FS_Interval
  <2> QED
    BY <2>1, FS_Product
<1>2. F \in SUBSET S
  OBVIOUS
<1>3. IsFiniteSet(F)
  <2> HIDE DEF S
  <2> QED
    BY <1>1, <1>2, FS_Subset
<1>4. f \in Surjection(F, I)
  BY DEF Surjection
<1>5. IsFiniteSet(I)
  <2> HIDE DEF f, I
  <2> QED
    BY <1>3, <1>4, FS_Surjection
<1> QED
  BY <1>5

LEMMA SignedField ==
    ASSUME NEW t, NEW p
    PROVE  /\ p \in Identified(t) <=>
                p \in PartitionFields(t) /\ PartitionField(t, p).id # Missing
                  /\ PartitionField(t, p).id > 0
           /\ p \in Signed(t) <=>
                p \in Identified(t) /\ ValidSources(t, PartitionField(t, p))
                  /\ PartitionField(t, p).transform # Missing
BY DEF Identified, Signed

\* The condition of PartitionsSound on a single spec.
SpecSound(t, fields) ==
    /\ Unique(fields)
    /\ \A k \in DOMAIN fields :
         /\ t.version >= 2 => fields[k].id # Missing /\ fields[k].id > 0
         /\ t.last_partition # Missing /\ fields[k].id # Missing /\ fields[k].id > 0
              => fields[k].id <= t.last_partition

LEMMA SpecsSound ==
    ASSUME NEW t
    PROVE  PartitionsSound(t) <=> \A i \in DOMAIN t.specs : SpecSound(t, t.specs[i].fields)
<1>1. /\ \A i \in DOMAIN t.specs : \A k \in DOMAIN t.specs[i].fields :
           <<i, k>> \in PartitionFields(t) /\ PartitionField(t, <<i, k>>) = t.specs[i].fields[k]
      /\ \A p \in PartitionFields(t) : /\ p[1] \in DOMAIN t.specs
                                       /\ p[2] \in DOMAIN t.specs[p[1]].fields
                                       /\ p = <<p[1], p[2]>>
  BY PartitionFieldsAre
<1>2. ASSUME PartitionsSound(t), NEW i \in DOMAIN t.specs
      PROVE  SpecSound(t, t.specs[i].fields)
  <2>1. ASSUME NEW k \in DOMAIN t.specs[i].fields
        PROVE  /\ t.version >= 2 =>
                    t.specs[i].fields[k].id # Missing /\ t.specs[i].fields[k].id > 0
               /\ t.last_partition # Missing /\ t.specs[i].fields[k].id # Missing
                    /\ t.specs[i].fields[k].id > 0
                    => t.specs[i].fields[k].id <= t.last_partition
    <3>1. /\ <<i, k>> \in PartitionFields(t)
          /\ PartitionField(t, <<i, k>>) = t.specs[i].fields[k]
      BY <1>1
    <3> DEFINE p == <<i, k>>
    <3> HIDE DEF p
    <3>2. p \in PartitionFields(t) /\ PartitionField(t, p) = t.specs[i].fields[k]
      BY <3>1 DEF p
    <3> QED
      BY <1>2, <3>2, SignedField DEF PartitionsSound
  <2>2. Unique(t.specs[i].fields)
    BY <1>2 DEF PartitionsSound
  <2> QED
    BY <2>1, <2>2 DEF SpecSound
<1>3. ASSUME \A i \in DOMAIN t.specs : SpecSound(t, t.specs[i].fields)
      PROVE  PartitionsSound(t)
  <2>1. ASSUME NEW p \in PartitionFields(t)
        PROVE  /\ t.version >= 2 => PartitionField(t, p).id # Missing /\ PartitionField(t, p).id > 0
               /\ t.last_partition # Missing /\ PartitionField(t, p).id # Missing
                    /\ PartitionField(t, p).id > 0 => PartitionField(t, p).id <= t.last_partition
    BY <1>1, <1>3 DEF SpecSound, PartitionField
  <2>2. t.version >= 2 => Identified(t) = PartitionFields(t)
    BY <2>1 DEF Identified
  <2>3. t.last_partition # Missing
          => \A p \in Identified(t) : PartitionField(t, p).id <= t.last_partition
    BY <2>1, SignedField
  <2>4. \A i \in DOMAIN t.specs : Unique(t.specs[i].fields)
    BY <1>3 DEF SpecSound
  <2> QED
    BY <2>2, <2>3, <2>4 DEF PartitionsSound
<1> QED
  BY <1>2, <1>3

\* The fields that a new partition spec takes over.
KeptFields == {Empty} \cup {table.specs[i].fields : i \in DefaultSpecs}

LEMMA KeptIs ==
    ASSUME Before, NEW kept \in KeptFields
    PROVE  /\ IsArray(kept, 0..(version - 1), FieldOfSpec)
           /\ SpecSound(table, kept)
           /\ \A k \in DOMAIN kept : SourceSound(table, kept[k])
           /\ \A k \in DOMAIN kept : \E i \in DOMAIN table.specs :
                k \in DOMAIN table.specs[i].fields /\ table.specs[i].fields[k] = kept[k]
<1>1. CASE kept = Empty
  BY <1>1 DEF Empty, IsArray, SpecSound, Unique
<1>2. CASE kept # Empty
  <2>1. PICK i \in DOMAIN table.specs : kept = table.specs[i].fields
    BY <1>2 DEF KeptFields, DefaultSpecs
  <2>2. IsArray(kept, 0..(version - 1), FieldOfSpec)
    BY <2>1, FieldsBefore DEF ShapedFields, FieldArrays
  <2>3. SpecSound(table, kept)
    BY <2>1, FieldsBefore, SpecsSound
  <2>4. \A k \in DOMAIN kept : SourceSound(table, kept[k])
    BY <2>1, FieldsBefore DEF SourcesSound
  <2> QED
    BY <2>1, <2>2, <2>3, <2>4
<1> QED
  BY <1>1, <1>2

\* Another field of the signature has the ID, or there is none and the ID is new.
PartitionIdFits(sources, transform, id) ==
    \/ \A q \in Signed(table) : /\ Signature(table, q) # <<sources, transform>>
                               /\ PartitionField(table, q).id # id
    \/ \E q \in Signed(table) : /\ Signature(table, q) = <<sources, transform>>
                               /\ PartitionField(table, q).id = id

\* The ID that a new partition field is given is one that no field it joins has, and since
\* version 2 it fits.
LEMMA PartitionIdChosen ==
    ASSUME Before, NEW kept \in KeptFields, NEW sources, NEW transform,
           NEW id \in PartitionIds(kept, sources, transform)
    PROVE  /\ id \in Nat /\ id > 0 /\ id # Missing /\ id \notin Ids(kept)
           /\ table.version >= 2 => PartitionIdFits(sources, transform, id)
<1>1. version \in Nat /\ IsArray(kept, 0..(version - 1), FieldOfSpec) /\ SpecSound(table, kept)
  BY FieldsBefore, KeptIs
<1>2. \A k \in DOMAIN kept : kept[k].id \in Number
  BY <1>1 DEF IsArray, FieldOfSpec
<1>3. \A k \in Ids(kept) : k \in Int
  BY <1>2, IdsMember DEF Number
<1>4. CASE table.version = 1
  <2> DEFINE T == {0} \cup Ids(kept)
  <2>1. IsFiniteSet(T)
    <3>1. IsFiniteSet(Ids(kept))
      BY <1>1, FiniteIds DEF IsArray
    <3>2. IsFiniteSet(Ids(kept) \cup {0})
      BY <3>1, FS_AddElement
    <3>3. T = Ids(kept) \cup {0}
      OBVIOUS
    <3> HIDE DEF T
    <3> QED
      BY <3>2, <3>3
  <2>2. T \subseteq Int /\ T # {} /\ 0 \in T /\ Ids(kept) \subseteq T
    BY <1>3
  <2>3. id = Greatest(T) + 1
    BY <1>4 DEF PartitionIds
  <2> HIDE DEF T
  <2>4. Greatest(T) \in T /\ \A y \in T : y <= Greatest(T)
    BY <2>1, <2>2, GreatestIs
  <2>5. Greatest(T) \in Int /\ 0 <= Greatest(T)
    BY <2>2, <2>4
  <2>6. id \in Nat /\ id > 0
    BY <2>3, <2>5
  <2>7. \A k \in Ids(kept) : k <= Greatest(T)
    BY <2>2, <2>4
  <2>8. id \notin Ids(kept)
    BY <1>3, <2>3, <2>5, <2>7
  <2> QED
    BY <1>4, <2>6, <2>8, MissingAssumption
<1>5. CASE table.version # 1
  <2> DEFINE known == {p \in Signed(table) : Signature(table, p) = <<sources, transform>>}
  <2>1. table.version >= 2 /\ table.last_partition \in Nat /\ table.last_partition # Missing
    BY <1>5, BeforeNumbers, MissingAssumption
  <2>2. \A q \in Identified(table) : PartitionField(table, q).id <= table.last_partition
    BY <2>1, FieldsBefore DEF PartitionsSound
  <2>3. \A q \in Signed(table) : /\ q \in Identified(table)
                                 /\ PartitionField(table, q).id \in Int
                                 /\ PartitionField(table, q).id > 0
    <3>1. \A q \in PartitionFields(table) : PartitionField(table, q).id \in Number
      BY SpecFields, ShapedDocument DEF Before
    <3> QED
      BY <3>1, SignedField DEF Number
  <2>4. CASE known = {}
    <3>1. id = table.last_partition + 1
      BY <1>5, <2>4 DEF PartitionIds
    <3>2. \A q \in Signed(table) : Signature(table, q) # <<sources, transform>>
      BY <2>4
    <3>3. \A q \in Signed(table) : PartitionField(table, q).id # id
      BY <2>1, <2>2, <2>3, <3>1
    <3>4. id \notin Ids(kept)
      <4>1. \A k \in DOMAIN kept : kept[k].id # Missing /\ kept[k].id > 0
                                     /\ kept[k].id <= table.last_partition
        BY <1>1, <2>1 DEF SpecSound
      <4>2. \A k \in Ids(kept) : k <= table.last_partition
        BY <4>1, IdsMember
      <4> QED
        BY <1>3, <2>1, <3>1, <4>2
    <3> QED
      BY <2>1, <3>1, <3>2, <3>3, <3>4, MissingAssumption DEF PartitionIdFits
  <2>5. CASE known # {}
    <3>1. id \in {PartitionField(table, p).id : p \in known} /\ id \notin Ids(kept)
      BY <1>5, <2>5 DEF PartitionIds
    <3>2. PICK p \in Signed(table) : /\ Signature(table, p) = <<sources, transform>>
                                     /\ id = PartitionField(table, p).id
      BY <3>1
    <3> QED
      BY <2>3, <3>1, <3>2, MissingAssumption DEF PartitionIdFits
  <2> QED
    BY <2>4, <2>5
<1> QED
  BY <1>4, <1>5, BeforeNumbers

\* A new partition spec next to those there are.
NewField(id, source, transform) == [id |-> id, sources |-> {source}, transform |-> transform]

NewSpec(spec, kept, field) == [id |-> spec, fields |-> Push(kept, version, field)]

PartitionedBy(u, kept, source, transform, spec, id) ==
    LET field == NewField(id, source, transform) IN
    /\ DOMAIN u = Members
    /\ SameBut(table, u, {"spec", "specs", "default_spec", "last_partition"} \cup ClockMembers)
    /\ u.last_updated = table.last_updated + 1 /\ u.metadata_log = table.metadata_log + 1
    /\ u.specs = Push(table.specs, version, NewSpec(spec, kept, field))
    /\ u.default_spec = spec
    /\ u.spec = IF table.spec = Missing THEN Missing ELSE Push(kept, version, field)
    /\ u.last_partition = IF table.last_partition = Missing \/ table.last_partition >= id
                          THEN table.last_partition ELSE id

LEMMA PartitionByCommits ==
    ASSUME Before, PartitionBy
    PROVE  /\ DOMAIN table.schemas # {}
           /\ \E kept \in KeptFields, source \in Columns, transform \in Transforms,
                 spec \in ObjectIds \ Ids(table.specs) :
                \E id \in PartitionIds(kept, {source}, transform) :
                   PartitionedBy(table', kept, source, transform, spec, id)
<1> DEFINE part(kept, source, transform, spec, id) ==
             [WithSpec(table, spec, Push(kept, version,
                 [id |-> id, sources |-> {source}, transform |-> transform]))
                EXCEPT !.last_partition = IF @ = Missing \/ @ >= id THEN @ ELSE id]
<1>1. /\ ~Legacy(table)
      /\ \E kept \in KeptFields, source \in Columns, transform \in Transforms,
            spec \in ObjectIds \ Ids(table.specs) :
           \E id \in PartitionIds(kept, {source}, transform) :
              Commit(part(kept, source, transform, spec, id))
  BY Zenon DEF PartitionBy, KeptFields
<1>2. PICK kept \in KeptFields, source \in Columns, transform \in Transforms,
           spec \in ObjectIds \ Ids(table.specs) :
        \E id \in PartitionIds(kept, {source}, transform) :
           Commit(part(kept, source, transform, spec, id))
  <2> HIDE DEF part
  <2> QED
    BY <1>1
<1>3. PICK id \in PartitionIds(kept, {source}, transform) :
         Commit(part(kept, source, transform, spec, id))
  <2> HIDE DEF part
  <2> QED
    BY <1>2
<1> DEFINE x == NewField(id, source, transform)
           fields == Push(kept, version, x)
           c == part(kept, source, transform, spec, id)
           u == table'
<1>4. c = [WithSpec(table, spec, fields)
             EXCEPT !.last_partition = IF @ = Missing \/ @ >= id THEN @ ELSE id]
  BY DEF NewField
<1>5. Write(c)
  BY <1>3 DEF Commit
<1> HIDE DEF part, c, x
<1>6. NewSpec(spec, kept, x) = [id |-> spec, fields |-> fields]
  BY DEF NewSpec
<1> HIDE DEF fields
<1>7. /\ DOMAIN c = Members
      /\ SameBut(table, c, {"spec", "specs", "default_spec", "last_partition"})
      /\ c.specs = Push(table.specs, version, [id |-> spec, fields |-> fields])
      /\ c.default_spec = spec
      /\ c.spec = IF table.spec = Missing THEN Missing ELSE fields
      /\ c.last_partition = IF table.last_partition = Missing \/ table.last_partition >= id
                            THEN table.last_partition ELSE id
      /\ c.last_updated = table.last_updated /\ c.metadata_log = table.metadata_log
  BY <1>4, BeforeNumbers DEF WithSpec, SameBut, Members, Numbers
<1>8. Committed(c, u)
  BY <1>5, <1>7, WriteCommits
<1> HIDE DEF u
<1>9. /\ DOMAIN u = Members
      /\ u.specs = c.specs /\ u.default_spec = c.default_spec /\ u.spec = c.spec
      /\ u.last_partition = c.last_partition
      /\ u.last_updated = table.last_updated + 1 /\ u.metadata_log = table.metadata_log + 1
  BY <1>7, <1>8 DEF Committed, SameBut, ClockMembers, Members, Numbers
<1>10. SameBut(table, u, {"spec", "specs", "default_spec", "last_partition"} \cup ClockMembers)
  BY <1>7, <1>8 DEF Committed, SameBut
<1>11. PartitionedBy(u, kept, source, transform, spec, id)
  BY <1>6, <1>7, <1>9, <1>10 DEF PartitionedBy, x, fields
<1>12. DOMAIN table.schemas # {}
  BY <1>1 DEF Legacy
<1> QED
  BY <1>11, <1>12 DEF u

\* What there is then: the specs of before, and the new one.
SpecAdded(u, kept, spec, x) ==
    /\ \A i : i \in DOMAIN u.specs <=> i \in DOMAIN table.specs \/ i = version
    /\ version \notin DOMAIN table.specs
    /\ \A i \in DOMAIN table.specs : u.specs[i] = table.specs[i]
    /\ u.specs[version].id = spec
    /\ u.specs[version].fields = Push(kept, version, x)
    /\ \A k : k \in DOMAIN u.specs[version].fields <=> k \in DOMAIN kept \/ k = version
    /\ version \notin DOMAIN kept
    /\ u.specs[version].fields[version] = x
    /\ \A k \in DOMAIN kept : u.specs[version].fields[k] = kept[k]

LEMMA PartitionedByIs ==
    ASSUME Before, NEW kept \in KeptFields, NEW source \in Columns, NEW transform \in Transforms,
           NEW spec \in ObjectIds, NEW id \in PartitionIds(kept, {source}, transform),
           NEW u, PartitionedBy(u, kept, source, transform, spec, id)
    PROVE  /\ SpecAdded(u, kept, spec, NewField(id, source, transform))
           /\ NewField(id, source, transform) \in FieldOfSpec
           /\ NewField(id, source, transform).id = id
           /\ NewField(id, source, transform).sources = {source}
           /\ NewField(id, source, transform).transform = transform
<1> DEFINE x == NewField(id, source, transform)
<1>1. version \in Nat /\ DOMAIN table.specs \subseteq 0..(version - 1)
  BY FieldsBefore DEF ShapedFields, FieldArrays
<1>2. x.id = id /\ x.sources = {source} /\ x.transform = transform
  BY DEF NewField
<1>3. x \in FieldOfSpec
  <2>1. id \in Number /\ source \in Number
    BY PartitionIdChosen, ColumnsAreNumbers DEF Number
  <2> QED
    BY <2>1 DEF FieldOfSpec, NewField
<1> DEFINE fields == Push(kept, version, x)
           object == NewSpec(spec, kept, x)
<1>4. object.id = spec /\ object.fields = fields
  BY DEF NewSpec
<1>5. u.specs = Push(table.specs, version, object)
  BY DEF PartitionedBy
<1>6. DOMAIN kept \subseteq 0..(version - 1)
  BY KeptIs DEF IsArray
<1> HIDE DEF object
<1>7. /\ \A i : i \in DOMAIN u.specs <=> i \in DOMAIN table.specs \/ i = version
      /\ version \notin DOMAIN table.specs
      /\ u.specs[version] = object
      /\ \A i \in DOMAIN table.specs : u.specs[i] = table.specs[i]
  BY <1>1, <1>5, Pushed
<1>8. /\ \A k : k \in DOMAIN fields <=> k \in DOMAIN kept \/ k = version
      /\ version \notin DOMAIN kept
      /\ fields[version] = x
      /\ \A k \in DOMAIN kept : fields[k] = kept[k]
  BY <1>1, <1>6, Pushed
<1> HIDE DEF fields
<1>9. u.specs[version].fields = fields
  BY <1>4, <1>7
<1> QED
  BY <1>2, <1>3, <1>4, <1>7, <1>8, <1>9 DEF fields, SpecAdded

LEMMA PartitionAdded ==
    ASSUME Before, NEW kept \in KeptFields, NEW source \in Columns, NEW transform \in Transforms,
           NEW spec \in ObjectIds, NEW id \in PartitionIds(kept, {source}, transform),
           NEW u, PartitionedBy(u, kept, source, transform, spec, id)
    PROVE  PartitionsSound(u)
<1> DEFINE x == NewField(id, source, transform)
           fields == Push(kept, version, x)
<1>1. version \in Nat /\ DOMAIN kept \subseteq 0..(version - 1) /\ SpecSound(table, kept)
  BY FieldsBefore, KeptIs DEF IsArray
<1>2. id \in Nat /\ id > 0 /\ id # Missing /\ id \notin Ids(kept)
  BY PartitionIdChosen
<1> HIDE DEF x
<1>3. /\ \A i : i \in DOMAIN u.specs <=> i \in DOMAIN table.specs \/ i = version
      /\ \A i \in DOMAIN table.specs : u.specs[i] = table.specs[i]
      /\ u.specs[version].fields = fields
      /\ \A k : k \in DOMAIN fields <=> k \in DOMAIN kept \/ k = version
      /\ fields[version] = x
      /\ \A k \in DOMAIN kept : fields[k] = kept[k]
      /\ x.id = id
  <2> HIDE DEF fields
  <2>1. SpecAdded(u, kept, spec, NewField(id, source, transform))
    BY PartitionedByIs
  <2>2. NewField(id, source, transform).id = id
    BY DEF NewField
  <2>3. SpecAdded(u, kept, spec, x) /\ x.id = id
    BY <2>1, <2>2 DEF x
  <2> QED
    BY <2>3 DEF fields, SpecAdded
<1>4. Unique(fields)
  BY <1>1, <1>2, <1>3, PushedUnique DEF SpecSound
<1> HIDE DEF fields
<1>5. u.version = table.version
  BY DEF PartitionedBy, SameBut, ClockMembers, Members, Numbers
<1>6. u.last_partition # Missing =>
        /\ table.last_partition # Missing /\ table.last_partition \in Int
        /\ u.last_partition \in Int
        /\ table.last_partition <= u.last_partition /\ id <= u.last_partition
  <2>1. /\ u.last_partition = IF table.last_partition = Missing \/ table.last_partition >= id
                              THEN table.last_partition ELSE id
        /\ table.last_partition \in Int \cup {Missing}
    BY BeforeNumbers DEF PartitionedBy, Number
  <2> QED
    BY <1>2, <2>1
<1>7. ASSUME NEW k \in DOMAIN fields
      PROVE  /\ u.version >= 2 => fields[k].id # Missing /\ fields[k].id > 0
             /\ u.last_partition # Missing /\ fields[k].id # Missing /\ fields[k].id > 0
                  => fields[k].id <= u.last_partition
  <2>1. CASE k = version
    BY <1>2, <1>3, <1>6, <2>1
  <2>2. CASE k \in DOMAIN kept
    <3>1. kept[k].id \in Int \cup {Missing} /\ fields[k] = kept[k]
      BY <1>3, <2>2, KeptIs DEF IsArray, FieldOfSpec, Number
    <3>2. /\ u.version >= 2 => kept[k].id # Missing /\ kept[k].id > 0
          /\ table.last_partition # Missing /\ kept[k].id # Missing /\ kept[k].id > 0
               => kept[k].id <= table.last_partition
      BY <1>1, <1>5, <2>2 DEF SpecSound
    <3> QED
      BY <1>6, <3>1, <3>2
  <2> QED
    BY <1>3, <2>1, <2>2
<1>8. SpecSound(u, fields)
  BY <1>4, <1>7 DEF SpecSound
<1>9. ASSUME NEW i \in DOMAIN table.specs
      PROVE  SpecSound(u, table.specs[i].fields)
  <2> DEFINE f == table.specs[i].fields
  <2>1. SpecSound(table, f) /\ \A k \in DOMAIN f : f[k].id \in Int \cup {Missing}
    <3>1. SpecSound(table, f)
      BY FieldsBefore, SpecsSound
    <3>2. IsArray(f, 0..(version - 1), FieldOfSpec)
      BY FieldsBefore DEF ShapedFields, FieldArrays
    <3> HIDE DEF f
    <3> QED
      BY <3>1, <3>2 DEF IsArray, FieldOfSpec, Number
  <2> HIDE DEF f
  <2>2. ASSUME NEW k \in DOMAIN f
        PROVE  /\ u.version >= 2 => f[k].id # Missing /\ f[k].id > 0
               /\ u.last_partition # Missing /\ f[k].id # Missing /\ f[k].id > 0
                    => f[k].id <= u.last_partition
    BY <1>5, <1>6, <2>1 DEF SpecSound
  <2>3. SpecSound(u, f)
    BY <2>1, <2>2 DEF SpecSound
  <2> QED
    BY <2>3 DEF f
<1>10. \A i \in DOMAIN u.specs : SpecSound(u, u.specs[i].fields)
  BY <1>3, <1>8, <1>9
<1> QED
  BY <1>10, SpecsSound

LEMMA PartitionBySound ==
    ASSUME Before, PartitionBy
    PROVE  After
<1> DEFINE u == table'
<1>1. PICK kept \in KeptFields, source \in Columns, transform \in Transforms,
           spec \in ObjectIds \ Ids(table.specs) :
        \E id \in PartitionIds(kept, {source}, transform) :
           PartitionedBy(u, kept, source, transform, spec, id)
  BY PartitionByCommits
<1>2. PICK id \in PartitionIds(kept, {source}, transform) :
         PartitionedBy(u, kept, source, transform, spec, id)
  BY <1>1
<1>3. DOMAIN table.schemas # {} /\ DOMAIN table.specs # {}
  BY PartitionByCommits, FieldsBefore DEF ShapedFields, FieldArrays
<1> DEFINE x == NewField(id, source, transform)
           fields == Push(kept, version, x)
<1> HIDE DEF u, x
<1>4. /\ \A i : i \in DOMAIN u.specs <=> i \in DOMAIN table.specs \/ i = version
      /\ \A i \in DOMAIN table.specs : u.specs[i] = table.specs[i]
      /\ u.specs[version].id = spec
      /\ u.specs[version].fields = fields
      /\ \A k : k \in DOMAIN fields <=> k \in DOMAIN kept \/ k = version
      /\ fields[version] = x
      /\ \A k \in DOMAIN kept : fields[k] = kept[k]
      /\ x \in FieldOfSpec /\ x.sources = {source}
  <2> HIDE DEF fields
  <2>1. spec \in ObjectIds
    OBVIOUS
  <2>2. SpecAdded(u, kept, spec, x) /\ x \in FieldOfSpec /\ x.sources = {source}
    BY <1>2, <2>1, PartitionedByIs DEF x
  <2> QED
    BY <2>2 DEF fields, SpecAdded
<1>5. version \in Nat
  BY FieldsBefore
<1>6. IsArray(fields, 0..version, FieldOfSpec)
  <2>1. IsArray(kept, 0..(version - 1), FieldOfSpec)
    BY KeptIs
  <2> QED
    BY <1>4, <1>5, <2>1, PushedArray
<1> HIDE DEF fields
<1>7. spec \in Nat /\ spec # Missing /\ id \in Nat /\ id > 0 /\ id # Missing
  <2>1. spec \in Nat
    BY IdsAssumption
  <2> QED
    BY <2>1, PartitionIdChosen, MissingAssumption
<1>8. /\ DOMAIN u = Members
      /\ u.last_updated = table.last_updated + 1 /\ u.metadata_log = table.metadata_log + 1
      /\ u.schema = table.schema /\ u.schemas = table.schemas
      /\ u.current_schema = table.current_schema
      /\ u.version = table.version /\ u.last_column = table.last_column
      /\ u.orders = table.orders /\ u.default_order = table.default_order
      /\ u.default_spec = spec
      /\ u.last_partition = IF table.last_partition = Missing \/ table.last_partition >= id
                            THEN table.last_partition ELSE id
  BY <1>2 DEF PartitionedBy, SameBut, ClockMembers, Members, Numbers
<1>9. u.spec = Missing \/ u.spec = fields
  BY <1>2 DEF PartitionedBy, fields, x
<1>10. SameBut(table, u, FieldMembers \cup ClockMembers)
  BY <1>2 DEF PartitionedBy, SameBut, FieldMembers
<1>11. /\ Orders(u) = Orders(table) /\ Schemas(u) = Schemas(table)
       /\ AllFieldIds(u) = AllFieldIds(table)
  BY <1>8 DEF Orders, Schemas, AllFieldIds
<1>12. ShapedFields(u, version + 1)
  <2>1. ASSUME NEW S, NEW f, IsArray(f, 0..(version - 1), S)
        PROVE  IsArray(f, 0..(version + 1 - 1), S)
    BY <1>5, <2>1 DEF IsArray
  <2>2. IsArray(fields, 0..(version + 1 - 1), FieldOfSpec)
    BY <1>5, <1>6
  <2>3. \A i \in DOMAIN u.specs : /\ u.specs[i].id \in Nat
                                  /\ IsArray(u.specs[i].fields, 0..(version + 1 - 1), FieldOfSpec)
    BY <1>4, <1>7, <2>1, <2>2, FieldsBefore DEF ShapedFields, FieldArrays
  <2>4. DOMAIN u.schemas \subseteq 0..(version + 1 - 1) /\ DOMAIN u.specs \subseteq 0..(version + 1 - 1)
    BY <1>4, <1>5, <1>8, FieldsBefore DEF ShapedFields, FieldArrays
  <2>5. u.spec = Missing \/ IsArray(u.spec, 0..(version + 1 - 1), FieldOfSpec)
    BY <1>9, <2>2
  <2>6. DOMAIN u.schemas # {} /\ DOMAIN u.specs # {}
    BY <1>3, <1>4, <1>8
  <2>7. SingleSpec(u)
    BY <2>6 DEF SingleSpec
  <2> QED
    BY <1>8, <2>1, <2>3, <2>4, <2>5, <2>6, <2>7, FieldsBefore DEF ShapedFields, FieldArrays
<1>13. FieldNumbers(u)
  BY <1>7, <1>8, FieldsBefore DEF FieldNumbers, Number
<1>14. FieldsRequired(u)
  <2>1. table.version >= 2 => u.last_partition \in Nat
    BY <1>7, <1>8, BeforeNumbers
  <2>2. DOMAIN u.specs # {} /\ u.default_spec # Missing
    BY <1>4, <1>7, <1>8
  <2> QED
    BY <1>8, <2>1, <2>2, FieldsBefore DEF FieldsRequired
<1>15. \A k : k \in Ids(u.specs) <=> k \in Ids(table.specs) \/ k = spec
  BY <1>4, <1>7, IdsMember
<1>16. FieldRefsSound(u)
  BY <1>8, <1>11, <1>15, FieldsBefore DEF FieldRefsSound
<1>17. FieldsUnique(u)
  <2>1. Unique(u.specs)
    <3>1. \A i \in DOMAIN table.specs : table.specs[i].id # spec
      BY <1>7, IdsMember
    <3> QED
      BY <1>4, <3>1, FieldsBefore DEF FieldsUnique, Unique
  <2> QED
    BY <1>8, <1>11, <2>1, FieldsBefore DEF FieldsUnique
<1>18. SchemasSound(u)
  BY <1>8, <1>11, FieldsBefore DEF SchemasSound
<1>19. PartitionsSound(u)
  <2>1. spec \in ObjectIds
    OBVIOUS
  <2> QED
    BY <1>2, <2>1, PartitionAdded
<1>20. SourcesSound(u)
  <2>1. \A f : SourceSound(table, f) => SourceSound(u, f)
    BY <1>8, <1>11, SourceKept
  <2>2. SourceSound(u, x)
    BY <1>4, <1>11, SourceOfColumn DEF Columns
  <2>3. \A k \in DOMAIN fields : SourceSound(u, fields[k])
    BY <1>4, <2>1, <2>2, KeptIs
  <2>4. \A i \in DOMAIN u.specs : \A k \in DOMAIN u.specs[i].fields :
          SourceSound(u, u.specs[i].fields[k])
    BY <1>4, <2>1, <2>3, FieldsBefore DEF SourcesSound
  <2>5. DOMAIN u.specs # {}
    BY <1>4
  <2> QED
    BY <1>11, <2>1, <2>4, <2>5, FieldsBefore DEF SourcesSound
<1>21. Shaped(u, version + 1) /\ Sound(u)
  BY <1>8, <1>10, <1>12, <1>13, <1>14, <1>16, <1>17, <1>18, <1>19, <1>20, FieldsBefore, FieldsCommit
<1> QED
  BY <1>21 DEF After, u

-----------------------------------------------------------------------------
(* Upgrades of the format version.                                         *)

LEMMA ToVersion3Sound ==
    ASSUME Before, ToVersion3
    PROVE  After
<1> DEFINE c == [table EXCEPT !.version = 3, !.next_row = 0]
           u == table'
<1>1. table.version = 2 /\ Write(c)
  BY DEF ToVersion3, Upgrade
<1>2. /\ Committed(c, u) /\ SameBut(table, c, {"version", "next_row"})
      /\ c.version = 3 /\ c.next_row = 0
  <2>1. /\ DOMAIN c = Members /\ SameBut(table, c, {"version", "next_row"})
        /\ c.version = 3 /\ c.next_row = 0
    BY BeforeNumbers DEF SameBut, Members, Numbers
  <2> HIDE DEF c
  <2> QED
    BY <1>1, <2>1, WriteCommits
<1> HIDE DEF c, u
<1>3. /\ DOMAIN u = Members
      /\ u.last_updated = table.last_updated + 1 /\ u.metadata_log = table.metadata_log + 1
      /\ u.version = 3 /\ u.next_row = 0
  BY <1>2 DEF Committed, SameBut, ClockMembers, Members, Numbers
<1>4. /\ u.schema = table.schema /\ u.spec = table.spec
      /\ u.schemas = table.schemas /\ u.specs = table.specs /\ u.orders = table.orders
      /\ u.last_column = table.last_column /\ u.last_partition = table.last_partition
      /\ u.current_schema = table.current_schema /\ u.default_spec = table.default_spec
      /\ u.default_order = table.default_order /\ u.uuid = table.uuid
      /\ u.location = table.location /\ u.last_sequence = table.last_sequence
      /\ u.snapshots = table.snapshots /\ u.current_snapshot = table.current_snapshot
      /\ u.refs = table.refs /\ u.refs_given = table.refs_given /\ u.log = table.log
  BY <1>2 DEF Committed, SameBut, ClockMembers, Members, Numbers
<1>5. version \in Nat
  BY DEF Before
<1>6. ShapedNumbers(u)
  <2>1. /\ table.last_column \in Number /\ table.last_partition \in Number
        /\ table.current_schema \in Number /\ table.default_spec \in Number
        /\ table.default_order \in Number /\ table.last_sequence \in Number
        /\ table.current_snapshot \in Number
        /\ table.location = "absolute" /\ table.uuid \in BOOLEAN
    BY DEF Before, Shaped, ShapedNumbers, Numbers
  <2>2. u.last_updated \in Number /\ u.metadata_log \in Nat /\ 3 \in Number /\ 0 \in Number
    BY <1>3, BeforeNumbers DEF Number
  <2> QED
    BY <1>3, <1>4, <2>1, <2>2 DEF ShapedNumbers, Numbers
<1>7. ShapedHistory(u, version + 1) /\ ShapedFields(u, version + 1)
  BY <1>4, <1>5, HistoryShaped, FieldsShaped DEF Before, Shaped, Same
<1>8. RequiredSound(u)
  BY <1>1, <1>3, <1>4, BeforeNumbers DEF Before, Sound, RequiredSound
<1>9. ReferencesSound(u) /\ IdentifiersSound(u)
  BY <1>4 DEF Before, Sound, ReferencesSound, IdentifiersSound, Orders, CurrentSnapshot
<1>10. SnapshotsSound(u)
  <2>1. ASSUME NEW i \in DOMAIN table.snapshots
        PROVE  SnapshotSound(u, table.snapshots[i])
    <3>1. SnapshotSound(table, table.snapshots[i])
      BY DEF Before, Sound, SnapshotsSound
    <3> QED
      BY <1>1, <1>3, <1>4, <3>1, BeforeNumbers DEF SnapshotSound
  <2> QED
    BY <1>4, <2>1 DEF SnapshotsSound
<1>11. LogSound(u)
  BY <1>3, <1>4, BeforeNumbers, LogKept DEF Before, Sound
<1>12. /\ Schemas(u) = Schemas(table) /\ AllFieldIds(u) = AllFieldIds(table)
       /\ Orders(u) = Orders(table)
  BY <1>4 DEF Schemas, AllFieldIds, Orders
<1>13. \A field : ValidSources(table, field) => ValidSources(u, field)
  BY <1>1, <1>3 DEF ValidSources
<1>14. SchemasSound(u)
  BY <1>4, <1>12, FieldsBefore DEF SchemasSound
<1>15. PartitionsSound(u)
  <2>1. \A i \in DOMAIN table.specs : SpecSound(table, table.specs[i].fields)
    BY FieldsBefore, SpecsSound
  <2>2. \A i \in DOMAIN u.specs : SpecSound(u, u.specs[i].fields)
    BY <1>1, <1>3, <1>4, <2>1 DEF SpecSound
  <2> QED
    BY <2>2, SpecsSound
<1>16. SourcesSound(u)
  BY <1>4, <1>12, <1>13, FieldsBefore DEF SourcesSound, SourceSound
<1>17. Shaped(u, version + 1) /\ Sound(u)
  BY <1>3, <1>6, <1>7, <1>8, <1>9, <1>10, <1>11, <1>14, <1>15, <1>16 DEF Shaped, Sound
<1> QED
  BY <1>17 DEF After, u

\* The arrays of schemas and partition specs since version 2: those of version 1, or the single
\* schema and partition spec in place of them.
ArraysOf(t, u) ==
    /\ ~Legacy(t) => /\ u.schemas = t.schemas /\ u.current_schema = t.current_schema
                     /\ u.specs = t.specs /\ u.default_spec = t.default_spec
    /\ Legacy(t) => /\ u.schemas = [i \in {0} |-> [id |-> 0, fields |-> t.schema]]
                    /\ u.current_schema = 0
                    /\ u.specs = [i \in {0} |-> [id |-> 0, fields |-> t.spec]]
                    /\ u.default_spec = 0

PartitionMark(t) == Greatest({0} \cup {PartitionField(t, p).id : p \in PartitionFields(t)})

LEMMA ArraysModernised ==
    ASSUME Before, ToVersion2, NEW u, u.version = 2, ArraysOf(table, u)
    PROVE  /\ DOMAIN u.schemas \subseteq 0..version /\ DOMAIN u.specs \subseteq 0..version
           /\ DOMAIN u.schemas # {} /\ DOMAIN u.specs # {}
           /\ \A i \in DOMAIN u.schemas : /\ u.schemas[i].id \in Nat
                                          /\ IsArray(u.schemas[i].fields, 0..version, Number)
           /\ \A i \in DOMAIN u.specs : /\ u.specs[i].id \in Nat
                                        /\ IsArray(u.specs[i].fields, 0..version, FieldOfSpec)
           /\ u.current_schema \in Ids(u.schemas) /\ u.default_spec \in Ids(u.specs)
           /\ Unique(u.schemas) /\ Unique(u.specs)
           /\ \A id \in Ids(table.schemas) : id \in Ids(u.schemas)
           /\ Schemas(u) = Schemas(table)
<1>1. version \in Nat /\ DOMAIN table.schemas \subseteq 0..(version - 1)
  BY FieldsBefore DEF ShapedFields, FieldArrays
<1>2. CASE ~Legacy(table)
  <2>1. /\ u.schemas = table.schemas /\ u.current_schema = table.current_schema
        /\ u.specs = table.specs /\ u.default_spec = table.default_spec
        /\ table.current_schema # Missing /\ table.default_spec # Missing
    BY <1>2 DEF ArraysOf, ToVersion2
  <2>2. ASSUME NEW f, NEW S, IsArray(f, 0..(version - 1), S)
        PROVE  IsArray(f, 0..version, S)
    BY <1>1, <2>2, GrownArray
  <2>3. DOMAIN table.schemas # {} /\ DOMAIN table.specs # {}
    BY <1>2, FieldsBefore DEF Legacy, ShapedFields, FieldArrays
  <2>4. Schemas(u) = Schemas(table)
    BY <2>1, <2>3 DEF Schemas
  <2>5. DOMAIN u.schemas \subseteq 0..version /\ DOMAIN u.specs \subseteq 0..version
    BY <1>1, <2>1, FieldsBefore DEF ShapedFields, FieldArrays
  <2>6. u.current_schema \in Ids(u.schemas) /\ u.default_spec \in Ids(u.specs)
    BY <2>1, FieldsBefore DEF FieldRefsSound
  <2> QED
    BY <2>1, <2>2, <2>3, <2>4, <2>5, <2>6, FieldsBefore DEF ShapedFields, FieldArrays, FieldsUnique
<1>3. CASE Legacy(table)
  <2>1. /\ u.schemas = [i \in {0} |-> [id |-> 0, fields |-> table.schema]]
        /\ u.specs = [i \in {0} |-> [id |-> 0, fields |-> table.spec]]
        /\ u.current_schema = 0 /\ u.default_spec = 0
    BY <1>3 DEF ArraysOf
  <2>2. /\ DOMAIN u.schemas = {0} /\ DOMAIN u.specs = {0}
        /\ u.schemas[0].id = 0 /\ u.schemas[0].fields = table.schema
        /\ u.specs[0].id = 0 /\ u.specs[0].fields = table.spec
    BY <2>1
  <2>3. /\ DOMAIN table.schemas = {} /\ Schemas(table) = {table.schema}
        /\ IsArray(table.schema, 0..(version - 1), Number)
        /\ IsArray(table.spec, {0}, LegacyField)
    BY <1>3, LegacyBefore
  <2>4. IsArray(table.schema, 0..version, Number)
    BY <1>1, <2>3, GrownArray
  <2>5. IsArray(table.spec, 0..version, FieldOfSpec)
    <3>1. \A field \in LegacyField : field \in FieldOfSpec
      BY DEF LegacyField, FieldOfSpec, Number
    <3> QED
      BY <1>1, <2>3, <3>1 DEF IsArray
  <2>6. Schemas(u) = Schemas(table)
    <3>1. Schemas(u) = {u.schemas[0].fields}
      BY <2>2 DEF Schemas
    <3> QED
      BY <2>2, <2>3, <3>1
  <2>7. 0 # Missing
    BY MissingAssumption
  <2>8. u.current_schema \in Ids(u.schemas) /\ u.default_spec \in Ids(u.specs)
    BY <2>1, <2>2, <2>7, IdsMember
  <2>9. Unique(u.schemas) /\ Unique(u.specs)
    BY <2>2 DEF Unique
  <2>10. \A id \in Ids(table.schemas) : id \in Ids(u.schemas)
    BY <2>3, IdsMember
  <2>11. 0 \in 0..version /\ 0 \in Nat
    BY <1>1
  <2> QED
    BY <2>2, <2>4, <2>5, <2>6, <2>8, <2>9, <2>10, <2>11
<1> QED
  BY <1>2, <1>3

LEMMA PartitionsModernised ==
    ASSUME Before, ToVersion2, NEW u, u.version = 2, ArraysOf(table, u),
           u.last_partition = PartitionMark(u)
    PROVE  PartitionsSound(u) /\ u.last_partition \in Nat
<1> DEFINE F == PartitionFields(u)
           I == {PartitionField(u, p).id : p \in F}
           G == {0} \cup I
<1>1. version \in Nat
  BY FieldsBefore
<1>2. Identified(u) = F /\ \A i \in DOMAIN u.specs : Unique(u.specs[i].fields)
  <2>1. CASE ~Legacy(table)
    <3>1. u.specs = table.specs /\ table.version = 1
      BY <2>1 DEF ArraysOf, ToVersion2
    <3>2. Identified(table) = PartitionFields(table)
      BY DEF ToVersion2
    <3>3. \A i \in DOMAIN u.specs : Unique(u.specs[i].fields)
      BY <3>1, FieldsBefore DEF PartitionsSound
    <3>4. /\ PartitionFields(u) = PartitionFields(table)
          /\ \A p : PartitionField(u, p) = PartitionField(table, p)
      BY <3>1 DEF PartitionFields, PartitionField
    <3>5. Identified(u) = Identified(table)
      BY <3>4 DEF Identified
    <3> QED
      BY <3>2, <3>3, <3>4, <3>5
  <2>2. CASE Legacy(table)
    <3>1. u.specs = [i \in {0} |-> [id |-> 0, fields |-> table.spec]]
      BY <2>2 DEF ArraysOf
    <3>2. DOMAIN u.specs = {0} /\ u.specs[0].fields = table.spec
      BY <3>1
    <3>3. IsArray(table.spec, {0}, LegacyField)
      BY <2>2, LegacyBefore
    <3>4. \A p \in F : p = <<0, 0>> /\ 0 \in DOMAIN table.spec
      BY <3>2, <3>3 DEF PartitionFields, IsArray
    <3>5. \A p \in F : PartitionField(u, p) \in LegacyField
      <4>1. 0 \in DOMAIN table.spec => table.spec[0] \in LegacyField
        BY <3>3 DEF IsArray
      <4>2. PartitionField(u, <<0, 0>>) = table.spec[0]
        BY <3>2 DEF PartitionField
      <4> QED
        BY <3>4, <4>1, <4>2
    <3>6. \A p \in F : PartitionField(u, p).id # Missing /\ PartitionField(u, p).id > 0
      <4>1. \A field \in LegacyField : field.id \in Nat /\ field.id > 0
        BY DEF LegacyField
      <4> QED
        BY <3>5, <4>1, MissingAssumption
    <3>7. Identified(u) = F
      BY <3>6 DEF Identified
    <3>8. \A i \in DOMAIN u.specs : Unique(u.specs[i].fields)
      BY <3>2, <3>3 DEF Unique, IsArray
    <3> QED
      BY <3>7, <3>8
  <2> QED
    BY <2>1, <2>2
<1>3. \A p \in F : /\ p[1] \in DOMAIN u.specs /\ p[2] \in DOMAIN u.specs[p[1]].fields
                   /\ p = <<p[1], p[2]>>
  BY DEF PartitionFields
<1>4. \A p \in F : p[1] \in 0..version /\ p[2] \in 0..version /\ p = <<p[1], p[2]>>
                     /\ PartitionField(u, p) \in FieldOfSpec
  BY <1>3, ArraysModernised DEF IsArray, PartitionField
<1>5. \A p \in F : PartitionField(u, p).id \in Nat
  <2>1. \A p \in F : PartitionField(u, p).id \in Number
    BY <1>4 DEF FieldOfSpec
  <2> QED
    BY <1>2, <2>1, SignedField DEF Number
<1>6. IsFiniteSet(G) /\ G \subseteq Int /\ G \subseteq Nat /\ G # {}
  <2>1. IsFiniteSet(I)
    <3> HIDE DEF I
    <3>1. \A p \in F : p[1] \in 0..version /\ p[2] \in 0..version /\ p = <<p[1], p[2]>>
      BY <1>4
    <3> HIDE DEF F
    <3>2. F = PartitionFields(u)
      BY DEF F
    <3>3. IsFiniteSet({PartitionField(u, p).id : p \in F})
      BY <1>1, <3>1, <3>2, FinitePartitionIds
    <3> QED
      BY <3>3 DEF I
  <2>2. I \subseteq Nat
    BY <1>5
  <2> HIDE DEF I
  <2>3. IsFiniteSet(I \cup {0})
    BY <2>1, FS_AddElement
  <2>4. G = I \cup {0}
    OBVIOUS
  <2> HIDE DEF G
  <2>5. IsFiniteSet(G)
    BY <2>3, <2>4
  <2> QED
    BY <2>2, <2>4, <2>5
<1>7. u.last_partition = Greatest(G)
  BY DEF PartitionMark
<1>8. \A p \in F : PartitionField(u, p).id \in G
  OBVIOUS
<1> HIDE DEF G
<1>9. Greatest(G) \in G /\ \A y \in G : y <= Greatest(G)
  BY <1>6, GreatestIs
<1> QED
  BY <1>2, <1>6, <1>7, <1>8, <1>9 DEF PartitionsSound

\* Arrays with an object for each one of another array.
LEMMA Renumbered ==
    ASSUME NEW f, NEW n, IsArray(f, 0..(n - 1), SnapshotObject), NEW g,
           g = [i \in DOMAIN f |-> [f[i] EXCEPT !.sequence = 0]]
    PROVE  /\ IsArray(g, 0..(n - 1), SnapshotObject)
           /\ DOMAIN g = DOMAIN f
           /\ \A i \in DOMAIN f :
                /\ g[i].id = f[i].id /\ g[i].timestamp = f[i].timestamp /\ g[i].schema = f[i].schema
                /\ g[i].sequence = 0
                /\ g[i].manifest_list = f[i].manifest_list /\ g[i].manifests = f[i].manifests
                /\ g[i].operation = f[i].operation
<1>1. \A i \in DOMAIN f : f[i] \in SnapshotObject
  BY DEF IsArray
<1>2. ASSUME NEW s \in SnapshotObject
      PROVE  /\ [s EXCEPT !.sequence = 0] \in SnapshotObject
             /\ [s EXCEPT !.sequence = 0].id = s.id
             /\ [s EXCEPT !.sequence = 0].timestamp = s.timestamp
             /\ [s EXCEPT !.sequence = 0].schema = s.schema
             /\ [s EXCEPT !.sequence = 0].sequence = 0
             /\ [s EXCEPT !.sequence = 0].manifest_list = s.manifest_list
             /\ [s EXCEPT !.sequence = 0].manifests = s.manifests
             /\ [s EXCEPT !.sequence = 0].operation = s.operation
  BY DEF SnapshotObject, Number
<1>3. DOMAIN g = DOMAIN f /\ \A i \in DOMAIN f : g[i] = [f[i] EXCEPT !.sequence = 0]
  OBVIOUS
<1>4. IsArray(g, 0..(n - 1), SnapshotObject)
  <2>1. g = [i \in DOMAIN g |-> g[i]]
    OBVIOUS
  <2>2. \A i \in DOMAIN g : g[i] \in SnapshotObject
    BY <1>1, <1>2, <1>3
  <2> QED
    BY <1>3, <2>1, <2>2 DEF IsArray
<1> QED
  BY <1>1, <1>2, <1>3, <1>4

\* The document that version 2 takes over, one member at a time.
LEMMA ModernMembers ==
    ASSUME DOMAIN table = Members, NEW c, c = Modern(table)
    PROVE  /\ DOMAIN c = Members
           /\ SameBut(table, c, {"schemas", "current_schema", "specs", "default_spec", "version",
                                 "uuid", "schema", "spec", "orders", "default_order",
                                 "last_partition", "last_sequence", "snapshots"})
           /\ ArraysOf(table, c)
           /\ c.version = 2 /\ c.uuid /\ c.uuid \in BOOLEAN
           /\ c.schema = Missing /\ c.spec = Missing /\ c.orders = Orders(table)
           /\ c.default_order = IF table.default_order = Missing THEN 0 ELSE table.default_order
           /\ c.last_partition = PartitionMark(c)
           /\ c.last_sequence = 0
           /\ c.snapshots = [i \in DOMAIN table.snapshots |->
                               [table.snapshots[i] EXCEPT !.sequence = 0]]
<1> DEFINE a == IF ~Legacy(table) THEN table
                ELSE [table EXCEPT !.schemas = [i \in {0} |-> [id |-> 0, fields |-> table.schema]],
                                   !.current_schema = 0,
                                   !.specs = [i \in {0} |-> [id |-> 0, fields |-> table.spec]],
                                   !.default_spec = 0]
           G == PartitionMark(a)
<1>1. /\ DOMAIN a = Members
      /\ SameBut(table, a, {"schemas", "current_schema", "specs", "default_spec"})
      /\ ArraysOf(table, a)
  <2>1. CASE Legacy(table)
    <3>1. a = [table EXCEPT !.schemas = [i \in {0} |-> [id |-> 0, fields |-> table.schema]],
                            !.current_schema = 0,
                            !.specs = [i \in {0} |-> [id |-> 0, fields |-> table.spec]],
                            !.default_spec = 0]
      BY <2>1
    <3> HIDE DEF a
    <3>2. /\ DOMAIN a = Members
          /\ a.schemas = [i \in {0} |-> [id |-> 0, fields |-> table.schema]]
          /\ a.current_schema = 0
          /\ a.specs = [i \in {0} |-> [id |-> 0, fields |-> table.spec]]
          /\ a.default_spec = 0
      BY <3>1 DEF Members, Numbers
    <3>3. SameBut(table, a, {"schemas", "current_schema", "specs", "default_spec"})
      BY <3>1 DEF SameBut, Members, Numbers
    <3> QED
      BY <2>1, <3>2, <3>3 DEF ArraysOf
  <2>2. CASE ~Legacy(table)
    <3>1. a = table
      BY <2>2
    <3> HIDE DEF a
    <3> QED
      BY <2>2, <3>1 DEF ArraysOf, SameBut
  <2> QED
    BY <2>1, <2>2
<1>2. c = [a EXCEPT
            !.version = 2, !.uuid = TRUE, !.schema = Missing, !.spec = Missing,
            !.orders = Orders(table),
            !.default_order = IF @ = Missing THEN 0 ELSE @,
            !.last_partition = G,
            !.last_sequence = 0,
            !.snapshots = [i \in DOMAIN @ |-> [@[i] EXCEPT !.sequence = 0]]]
  BY DEF Modern, PartitionMark
<1> DEFINE o == Orders(table)
           d == IF a.default_order = Missing THEN 0 ELSE a.default_order
           s == [i \in DOMAIN a.snapshots |-> [a.snapshots[i] EXCEPT !.sequence = 0]]
<1> HIDE DEF a, G
<1> DEFINE e == [a EXCEPT !.version = 2, !.uuid = TRUE, !.schema = Missing, !.spec = Missing,
                          !.orders = o]
<1>9. c = [e EXCEPT !.default_order = d, !.last_partition = G, !.last_sequence = 0,
                    !.snapshots = s]
  <2>1. e.default_order = a.default_order /\ e.snapshots = a.snapshots
    BY <1>1 DEF Members, Numbers
  <2> QED
    BY <1>2, <2>1
<1>10. DOMAIN a = Members
  BY <1>1
<1>3. a.snapshots = table.snapshots /\ a.default_order = table.default_order
  BY <1>1 DEF SameBut, Members, Numbers
<1>4. /\ DOMAIN c = Members
      /\ c.version = 2 /\ c.uuid /\ c.uuid \in BOOLEAN
      /\ c.schema = Missing /\ c.spec = Missing /\ c.orders = Orders(table)
      /\ c.default_order = IF a.default_order = Missing THEN 0 ELSE a.default_order
      /\ c.last_partition = G /\ c.last_sequence = 0
      /\ c.snapshots = [i \in DOMAIN a.snapshots |-> [a.snapshots[i] EXCEPT !.sequence = 0]]
      /\ c.schemas = a.schemas /\ c.current_schema = a.current_schema
      /\ c.specs = a.specs /\ c.default_spec = a.default_spec
  <2>1. /\ DOMAIN c = Members
        /\ c.version = 2 /\ c.uuid /\ c.uuid \in BOOLEAN
        /\ c.schema = Missing /\ c.spec = Missing /\ c.orders = o /\ c.default_order = d
        /\ c.last_partition = G /\ c.last_sequence = 0 /\ c.snapshots = s
        /\ c.schemas = a.schemas /\ c.current_schema = a.current_schema
        /\ c.specs = a.specs /\ c.default_spec = a.default_spec
    <3> HIDE DEF o, d, s
    <3>1. /\ DOMAIN e = Members
          /\ e.version = 2 /\ e.uuid /\ e.uuid \in BOOLEAN
          /\ e.schema = Missing /\ e.spec = Missing /\ e.orders = o
          /\ e.schemas = a.schemas /\ e.current_schema = a.current_schema
          /\ e.specs = a.specs /\ e.default_spec = a.default_spec
      BY <1>10 DEF Members, Numbers
    <3> HIDE DEF e
    <3> QED
      BY <1>9, <3>1 DEF Members, Numbers
  <2> QED
    BY <2>1
<1>5. /\ DOMAIN c = Members
      /\ c.version = 2 /\ c.uuid /\ c.uuid \in BOOLEAN
      /\ c.schema = Missing /\ c.spec = Missing /\ c.orders = Orders(table)
      /\ c.default_order = IF table.default_order = Missing THEN 0 ELSE table.default_order
      /\ c.last_partition = G /\ c.last_sequence = 0
      /\ c.snapshots = [i \in DOMAIN table.snapshots |->
                          [table.snapshots[i] EXCEPT !.sequence = 0]]
      /\ c.schemas = a.schemas /\ c.current_schema = a.current_schema
      /\ c.specs = a.specs /\ c.default_spec = a.default_spec
  BY <1>3, <1>4
<1>6. ArraysOf(table, c)
  BY <1>1, <1>5 DEF ArraysOf
<1>7. G = PartitionMark(c)
  <2>1. /\ PartitionFields(c) = PartitionFields(a)
        /\ \A p : PartitionField(c, p) = PartitionField(a, p)
    BY <1>5 DEF PartitionFields, PartitionField
  <2>2. {PartitionField(c, p).id : p \in PartitionFields(c)}
          = {PartitionField(a, p).id : p \in PartitionFields(a)}
    BY <2>1
  <2> QED
    BY <2>2 DEF G, PartitionMark
<1>8. SameBut(table, c, {"schemas", "current_schema", "specs", "default_spec", "version",
                         "uuid", "schema", "spec", "orders", "default_order",
                         "last_partition", "last_sequence", "snapshots"})
  <2>1. SameBut(a, c, {"version", "uuid", "schema", "spec", "orders", "default_order",
                       "last_partition", "last_sequence", "snapshots"})
    <3> HIDE DEF o, d, s
    <3>1. DOMAIN e = Members /\ SameBut(a, e, {"version", "uuid", "schema", "spec", "orders"})
      BY <1>10 DEF SameBut, Members, Numbers
    <3> HIDE DEF e
    <3>2. SameBut(e, c, {"default_order", "last_partition", "last_sequence", "snapshots"})
      BY <1>9, <3>1 DEF SameBut, Members, Numbers
    <3> QED
      BY <3>1, <3>2 DEF SameBut
  <2> QED
    BY <1>1, <2>1 DEF SameBut
<1> QED
  BY <1>5, <1>6, <1>7, <1>8

LEMMA ToVersion2Sound ==
    ASSUME Before, ToVersion2
    PROVE  After
<1> DEFINE c == Modern(table)
           u == table'
<1>1. /\ DOMAIN c = Members
      /\ SameBut(table, c, {"schemas", "current_schema", "specs", "default_spec", "version",
                            "uuid", "schema", "spec", "orders", "default_order",
                            "last_partition", "last_sequence", "snapshots"})
      /\ ArraysOf(table, c)
      /\ c.version = 2 /\ c.uuid /\ c.uuid \in BOOLEAN
      /\ c.schema = Missing /\ c.spec = Missing /\ c.orders = Orders(table)
      /\ c.default_order = IF table.default_order = Missing THEN 0 ELSE table.default_order
      /\ c.last_partition = PartitionMark(c)
      /\ c.last_sequence = 0
      /\ c.snapshots = [i \in DOMAIN table.snapshots |->
                          [table.snapshots[i] EXCEPT !.sequence = 0]]
  <2>1. c = Modern(table)
    OBVIOUS
  <2> HIDE DEF c
  <2> QED
    BY <2>1, BeforeNumbers, ModernMembers
<1>2. Committed(c, u) /\ version <= MaxSteps
  <2>1. Write(c)
    BY DEF ToVersion2, Upgrade
  <2> HIDE DEF c
  <2> QED
    BY <1>1, <2>1, WriteCommits
<1> HIDE DEF c, u
<1>3. table.version = 1 /\ version \in Nat /\ MaxSteps \in Nat
  BY FieldsBefore, BoundsAssumption DEF ToVersion2
<1>4. /\ c.last_updated = table.last_updated /\ c.metadata_log = table.metadata_log
      /\ c.last_column = table.last_column /\ c.location = table.location
      /\ c.next_row = table.next_row /\ c.current_snapshot = table.current_snapshot
      /\ c.refs = table.refs /\ c.refs_given = table.refs_given /\ c.log = table.log
  BY <1>1 DEF SameBut, Members, Numbers
<1>5. /\ u.last_updated = c.last_updated + 1 /\ u.metadata_log = c.metadata_log + 1
      /\ u.version = c.version /\ u.uuid = c.uuid /\ u.location = c.location
      /\ u.schema = c.schema /\ u.schemas = c.schemas /\ u.current_schema = c.current_schema
      /\ u.spec = c.spec /\ u.specs = c.specs /\ u.default_spec = c.default_spec
      /\ u.orders = c.orders /\ u.default_order = c.default_order
      /\ u.last_column = c.last_column /\ u.last_partition = c.last_partition
      /\ u.last_sequence = c.last_sequence /\ u.next_row = c.next_row
      /\ u.snapshots = c.snapshots /\ u.current_snapshot = c.current_snapshot
      /\ u.refs = c.refs /\ u.refs_given = c.refs_given /\ u.log = c.log
      /\ DOMAIN u = Members
  BY <1>2 DEF Committed, SameBut, ClockMembers, Members, Numbers
<1>6. u.version = 2 /\ ArraysOf(table, u)
  BY <1>1, <1>5 DEF ArraysOf
<1>7. /\ DOMAIN u.schemas \subseteq 0..version /\ DOMAIN u.specs \subseteq 0..version
      /\ DOMAIN u.schemas # {} /\ DOMAIN u.specs # {}
      /\ \A i \in DOMAIN u.schemas : /\ u.schemas[i].id \in Nat
                                     /\ IsArray(u.schemas[i].fields, 0..version, Number)
      /\ \A i \in DOMAIN u.specs : /\ u.specs[i].id \in Nat
                                   /\ IsArray(u.specs[i].fields, 0..version, FieldOfSpec)
      /\ u.current_schema \in Ids(u.schemas) /\ u.default_spec \in Ids(u.specs)
      /\ Unique(u.schemas) /\ Unique(u.specs)
      /\ \A id \in Ids(table.schemas) : id \in Ids(u.schemas)
      /\ Schemas(u) = Schemas(table)
  BY <1>6, ArraysModernised
<1>8. PartitionsSound(u) /\ u.last_partition \in Nat
  <2>1. /\ PartitionFields(u) = PartitionFields(c)
        /\ \A p : PartitionField(u, p) = PartitionField(c, p)
    BY <1>5 DEF PartitionFields, PartitionField
  <2>2. {PartitionField(c, p).id : p \in PartitionFields(c)}
          = {PartitionField(u, p).id : p \in PartitionFields(u)}
    BY <2>1
  <2>3. u.last_partition = PartitionMark(u)
    BY <1>1, <1>5, <2>2 DEF PartitionMark
  <2> QED
    BY <1>6, <2>3, PartitionsModernised
\* The sort orders.
<1>9. /\ u.orders = Orders(table) /\ u.orders # Missing /\ Orders(u) = Orders(table)
      /\ IsArray(u.orders, 0..version, SortOrder)
  <2>1. IsArray(Orders(table), 0..version, SortOrder)
    <3>1. CASE table.orders = Missing
      BY <3>1 DEF Orders, IsArray
    <3>2. CASE table.orders # Missing
      <4>1. IsArray(table.orders, 0..(version - 1), SortOrder)
        BY <3>2, FieldsBefore DEF ShapedFields, FieldArrays
      <4> QED
        BY <1>3, <3>2, <4>1, GrownArray DEF Orders
    <3> QED
      BY <3>1, <3>2
  <2>2. u.orders = Orders(table)
    BY <1>1, <1>5
  <2>3. u.orders # Missing
    <3>1. DOMAIN u.orders \in SUBSET (0..MaxSteps) /\ u.orders \in [DOMAIN u.orders -> SortOrder]
      BY <1>2, <1>3, <2>1, <2>2 DEF IsArray
    <3> QED
      BY <3>1, ArraysAssumption
  <2> QED
    BY <2>1, <2>2, <2>3 DEF Orders
<1>10. u.default_order \in Ids(Orders(u)) \cup {0} /\ u.default_order # Missing
         /\ u.default_order \in Number
  <2>1. table.default_order \in Ids(Orders(table)) \cup {Missing, 0} /\ table.default_order \in Number
    BY FieldsBefore DEF FieldRefsSound, FieldNumbers
  <2>2. 0 # Missing /\ 0 \in Number
    BY MissingAssumption DEF Number
  <2> QED
    BY <1>1, <1>5, <1>9, <2>1, <2>2
\* The snapshots, all of sequence number 0.
<1>11. /\ IsArray(u.snapshots, 0..(version - 1), SnapshotObject)
       /\ DOMAIN u.snapshots = DOMAIN table.snapshots
       /\ \A i \in DOMAIN table.snapshots :
            /\ u.snapshots[i].id = table.snapshots[i].id
            /\ u.snapshots[i].timestamp = table.snapshots[i].timestamp
            /\ u.snapshots[i].schema = table.snapshots[i].schema
            /\ u.snapshots[i].sequence = 0
            /\ u.snapshots[i].manifest_list = table.snapshots[i].manifest_list
            /\ u.snapshots[i].manifests = table.snapshots[i].manifests
            /\ u.snapshots[i].operation = table.snapshots[i].operation
  <2>1. IsArray(table.snapshots, 0..(version - 1), SnapshotObject)
    BY DEF Before, Shaped, ShapedHistory
  <2>2. u.snapshots = [i \in DOMAIN table.snapshots |-> [table.snapshots[i] EXCEPT !.sequence = 0]]
    BY <1>1, <1>5
  <2> QED
    BY <2>1, <2>2, Renumbered
<1>12. \A id : id \in Ids(u.snapshots) <=> id \in Ids(table.snapshots)
  BY <1>11, IdsMember
<1>13. ShapedHistory(u, version + 1)
  <2>1. /\ IsArray(table.log, 0..(version - 1), LogEntry)
        /\ IsArray(table.refs, Branches \cup {"main"}, Number)
        /\ table.refs_given \in BOOLEAN /\ (table.refs_given \/ DOMAIN table.refs = {})
    BY DEF Before, Shaped, ShapedHistory
  <2>2. u.log = table.log /\ u.refs = table.refs /\ u.refs_given = table.refs_given
    BY <1>4, <1>5
  <2>3. IsArray(u.log, 0..(version + 1 - 1), LogEntry)
    BY <1>3, <2>1, <2>2 DEF IsArray
  <2>4. IsArray(u.snapshots, 0..(version + 1 - 1), SnapshotObject)
    BY <1>3, <1>11 DEF IsArray
  <2> QED
    BY <2>1, <2>2, <2>3, <2>4, HistoryArrays
<1>14. ShapedFields(u, version + 1)
  <2>1. /\ DOMAIN u.schemas \subseteq 0..((version + 1) - 1)
        /\ DOMAIN u.specs \subseteq 0..((version + 1) - 1)
        /\ \A i \in DOMAIN u.schemas : IsArray(u.schemas[i].fields, 0..((version + 1) - 1), Number)
        /\ IsArray(u.orders, 0..((version + 1) - 1), SortOrder)
    BY <1>3, <1>7, <1>9
  <2>2. u.schema = Missing /\ u.spec = Missing
    BY <1>1, <1>5
  <2>3. \A i \in DOMAIN u.specs : IsArray(u.specs[i].fields, 0..((version + 1) - 1), FieldOfSpec)
    BY <1>3, <1>7
  <2>4. /\ \A i \in DOMAIN u.schemas : u.schemas[i].id \in Nat
        /\ \A i \in DOMAIN u.specs : u.specs[i].id \in Nat
        /\ DOMAIN u.schemas # {} /\ DOMAIN u.specs # {}
    BY <1>7
  <2>5. SingleSpec(u)
    BY <2>4 DEF SingleSpec
  <2>6. FieldArrays(u, version + 1)
    <3>1. /\ \A i \in DOMAIN u.schemas : /\ u.schemas[i].id \in Nat
                                         /\ IsArray(u.schemas[i].fields, 0..((version + 1) - 1), Number)
          /\ \A i \in DOMAIN u.specs : /\ u.specs[i].id \in Nat
                                       /\ IsArray(u.specs[i].fields, 0..((version + 1) - 1), FieldOfSpec)
          /\ DOMAIN u.schemas = {} <=> DOMAIN u.specs = {}
      BY <2>1, <2>3, <2>4
    <3> QED
      BY <2>1, <2>2, <3>1, Zenon DEF FieldArrays
  <2> QED
    BY <2>5, <2>6 DEF ShapedFields
<1>15. ShapedNumbers(u)
  <2>1. /\ table.last_column \in Number /\ table.next_row \in Number
        /\ table.current_snapshot \in Number
        /\ table.location = "absolute"
    BY DEF Before, Shaped, ShapedNumbers, Numbers
  <2>2. u.last_updated \in Number /\ u.metadata_log \in Nat /\ 2 \in Number /\ 0 \in Number
    BY <1>4, <1>5, BeforeNumbers DEF Number
  <2>3. u.current_schema \in Number /\ u.default_spec \in Number
    <3>1. \A f : (\A i \in DOMAIN f : f[i].id \in Nat) => \A id \in Ids(f) : id \in Number
      BY IdsMember DEF Number
    <3> QED
      BY <1>7, <3>1
  <2>4. u.last_partition \in Number
    BY <1>8 DEF Number
  <2>5. /\ u.version = 2 /\ u.last_sequence = 0 /\ u.uuid \in BOOLEAN
        /\ u.last_column = table.last_column /\ u.next_row = table.next_row
        /\ u.current_snapshot = table.current_snapshot /\ u.location = table.location
    BY <1>1, <1>4, <1>5
  <2> QED
    BY <1>10, <2>1, <2>2, <2>3, <2>4, <2>5 DEF ShapedNumbers, Numbers
<1>16. RequiredSound(u)
  <2>1. u.last_updated \in Nat /\ u.last_column \in Nat
    BY <1>4, <1>5, BeforeNumbers
  <2>2. u.current_schema # Missing /\ u.default_spec # Missing
    BY <1>7, IdsMember
  <2>3. u.uuid /\ u.last_sequence \in Nat /\ u.version = 2
    BY <1>1, <1>5
  <2> QED
    BY <1>7, <1>8, <1>9, <1>10, <2>1, <2>2, <2>3 DEF RequiredSound
<1>17. ReferencesSound(u)
  <2>1. CurrentSnapshot(u) = CurrentSnapshot(table)
    BY <1>4, <1>5 DEF CurrentSnapshot
  <2>2. RefsSound(table)
    BY DEF Before, Sound, ReferencesSound, RefsSound
  <2>3. u.refs = table.refs /\ u.refs_given = table.refs_given
    BY <1>4, <1>5
  <2>4. RefsSound(u)
    BY <1>12, <2>1, <2>2, <2>3 DEF RefsSound
  <2> QED
    BY <1>7, <1>10, <2>4 DEF RefsSound, ReferencesSound
<1>18. IdentifiersSound(u)
  <2>1. Unique(u.snapshots)
    BY <1>11 DEF Before, Sound, IdentifiersSound, Unique
  <2> QED
    BY <1>7, <1>9, <2>1, FieldsBefore DEF FieldsUnique, IdentifiersSound
<1>19. SnapshotsSound(u)
  <2>1. \A i \in DOMAIN table.snapshots : /\ SnapshotSound(table, table.snapshots[i])
                                           /\ table.snapshots[i].manifest_list
                                           /\ table.snapshots[i].operation
    BY DEF Before, Sound, SnapshotsSound, ToVersion2
  <2>2. ASSUME NEW i \in DOMAIN u.snapshots
        PROVE  SnapshotSound(u, u.snapshots[i])
    <3>1. /\ u.snapshots[i].id \in Nat \ {0}
          /\ u.snapshots[i].timestamp \in 0..table.last_updated
          /\ ~(u.snapshots[i].manifest_list /\ u.snapshots[i].manifests)
          /\ u.snapshots[i].manifest_list /\ u.snapshots[i].operation
          /\ u.snapshots[i].schema \in Ids(table.schemas) \cup {Missing}
          /\ u.snapshots[i].sequence = 0
      BY <1>11, <2>1 DEF SnapshotSound
    <3>2. u.version = 2 /\ u.last_sequence = 0 /\ u.last_updated = table.last_updated + 1
            /\ table.last_updated \in Nat
      BY <1>1, <1>4, <1>5, BeforeNumbers
    <3>3. u.snapshots[i].schema \in Ids(u.schemas) \cup {Missing}
      BY <1>7, <3>1
    <3> QED
      BY <3>1, <3>2, <3>3 DEF SnapshotSound
  <2> QED
    BY <2>2 DEF SnapshotsSound
<1>20. LogSound(u)
  <2>1. /\ u.log = table.log /\ u.current_snapshot = table.current_snapshot
        /\ u.last_updated = table.last_updated + 1
    BY <1>4, <1>5
  <2> QED
    BY <1>12, <2>1, BeforeNumbers, LogKept DEF Before, Sound
<1>21. AllFieldIds(u) = AllFieldIds(table) /\ u.last_column = table.last_column
  BY <1>4, <1>5, <1>7 DEF AllFieldIds
<1>22. SchemasSound(u)
  BY <1>7, <1>21, FieldsBefore DEF SchemasSound
<1>23. SourcesSound(u)
  <2>1. \A field : SourceSound(table, field) => SourceSound(u, field)
    BY <1>3, <1>6, <1>21 DEF SourceSound, ValidSources
  <2>2. \A i \in DOMAIN u.specs : \A k \in DOMAIN u.specs[i].fields :
          SourceSound(table, u.specs[i].fields[k])
    <3>1. CASE Legacy(table)
      <4>1. u.specs = [i \in {0} |-> [id |-> 0, fields |-> table.spec]]
        BY <1>6, <3>1 DEF ArraysOf
      <4>2. DOMAIN u.specs = {0} /\ u.specs[0].fields = table.spec
        BY <4>1
      <4>3. DOMAIN table.specs = {} /\ table.spec # Missing
        BY <3>1, LegacyBefore
      <4> QED
        BY <4>2, <4>3, FieldsBefore DEF SourcesSound
    <3>2. CASE ~Legacy(table)
      BY <1>6, <3>2, FieldsBefore DEF ArraysOf, SourcesSound
    <3> QED
      BY <3>1, <3>2
  <2> QED
    BY <1>7, <1>9, <2>1, <2>2, FieldsBefore DEF SourcesSound
<1>24. Shaped(u, version + 1) /\ Sound(u)
  BY <1>5, <1>6, <1>8, <1>13, <1>14, <1>15, <1>16, <1>17, <1>18, <1>19, <1>20, <1>22, <1>23
     DEF Shaped, Sound
<1> QED
  BY <1>24 DEF After, u

-----------------------------------------------------------------------------
(* Every history of healthy commits, and of edits.                         *)

\* A healthy commit to a sound document gives a sound one, whichever it is.
THEOREM HealthyKeepsSound ==
    ASSUME version \in Nat, Shaped(table, version), Sound(table), Healthy
    PROVE  Shaped(table', version + 1) /\ Sound(table')
<1>2. Before
  BY DEF Before
<1>3. CASE CommitToMain
  BY <1>2, <1>3, CommitToMainSound DEF After
<1>4. CASE CommitToBranch
  BY <1>2, <1>4, CommitToBranchSound DEF After
<1>5. CASE SetReference
  BY <1>2, <1>5, SetReferenceSound DEF After
<1>6. CASE DropReference
  BY <1>2, <1>6, DropReferenceSound DEF After
<1>7. CASE Rollback
  BY <1>2, <1>7, RollbackSound DEF After
<1>8. CASE Expire
  BY <1>2, <1>8, ExpireSound DEF After
<1>9. CASE AddColumn
  BY <1>2, <1>9, AddColumnSound DEF After
<1>10. CASE DropColumn
  BY <1>2, <1>10, DropColumnSound DEF After
<1>11. CASE PartitionBy
  BY <1>2, <1>11, PartitionBySound DEF After
<1>12. CASE SortBy
  BY <1>2, <1>12, SortBySound DEF After
<1>13. CASE LegacyColumn
  BY <1>2, <1>13, LegacyColumnSound DEF After
<1>14. CASE LegacyPartition
  BY <1>2, <1>14, LegacyPartitionSound DEF After
<1>15. CASE ToVersion2
  BY <1>2, <1>15, ToVersion2Sound DEF After
<1>16. CASE ToVersion3
  BY <1>2, <1>16, ToVersion3Sound DEF After
<1> QED
  BY <1>3, <1>4, <1>5, <1>6, <1>7, <1>8, <1>9, <1>10, <1>11, <1>12, <1>13, <1>14, <1>15, <1>16
     DEF Healthy

\* The shape of a document of which some members are edited.
LEMMA NumbersEdited ==
    ASSUME NEW n, NEW t, Shaped(t, n), NEW u, DOMAIN u = Members,
           SameBut(t, u, Numbers \cup {"uuid"}),
           \A m \in Numbers : u[m] \in Number, u.uuid \in BOOLEAN
    PROVE  Shaped(u, n)
<1>1. /\ u.location = t.location /\ u.metadata_log = t.metadata_log
      /\ u.schema = t.schema /\ u.schemas = t.schemas /\ u.spec = t.spec /\ u.specs = t.specs
      /\ u.orders = t.orders /\ u.snapshots = t.snapshots /\ u.log = t.log
      /\ u.refs = t.refs /\ u.refs_given = t.refs_given
  BY DEF SameBut, Members, Numbers
<1>2. ShapedNumbers(u)
  BY <1>1 DEF Shaped, ShapedNumbers
<1>3. ShapedFields(u, n) /\ ShapedHistory(u, n)
  BY <1>1 DEF Shaped, ShapedFields, FieldArrays, SingleSpec, ShapedHistory
<1> QED
  BY <1>2, <1>3 DEF Shaped

LEMMA HistoryEdited ==
    ASSUME NEW n, NEW t, Shaped(t, n), NEW u, DOMAIN u = Members,
           SameBut(t, u, {"snapshots", "log", "refs", "refs_given"}), ShapedHistory(u, n)
    PROVE  Shaped(u, n)
<1>1. /\ u.location = t.location /\ u.metadata_log = t.metadata_log /\ u.uuid = t.uuid
      /\ u.schema = t.schema /\ u.schemas = t.schemas /\ u.spec = t.spec /\ u.specs = t.specs
      /\ u.orders = t.orders
  BY DEF SameBut, Members, Numbers
<1>2. \A m \in Numbers : u[m] = t[m]
  BY DEF SameBut, Members, Numbers
<1>3. ShapedNumbers(u)
  BY <1>1, <1>2 DEF Shaped, ShapedNumbers
<1>4. ShapedFields(u, n)
  BY <1>1 DEF Shaped, ShapedFields, FieldArrays, SingleSpec
<1> QED
  BY <1>3, <1>4 DEF Shaped

LEMMA FieldsEdited ==
    ASSUME NEW n, NEW t, Shaped(t, n), NEW u, DOMAIN u = Members,
           SameBut(t, u, {"schema", "schemas", "specs"}), ShapedFields(u, n)
    PROVE  Shaped(u, n)
<1>1. /\ u.location = t.location /\ u.metadata_log = t.metadata_log /\ u.uuid = t.uuid
      /\ u.snapshots = t.snapshots /\ u.log = t.log
      /\ u.refs = t.refs /\ u.refs_given = t.refs_given
  BY DEF SameBut, Members, Numbers
<1>2. \A m \in Numbers : u[m] = t[m]
  BY DEF SameBut, Members, Numbers
<1>3. ShapedNumbers(u)
  BY <1>1, <1>2 DEF Shaped, ShapedNumbers
<1>4. ShapedHistory(u, n)
  BY <1>1 DEF Shaped, ShapedHistory
<1> QED
  BY <1>3, <1>4 DEF Shaped

\* An array of which one object is edited, and one of which objects are dropped.
LEMMA EditedArray ==
    ASSUME NEW P, NEW S, NEW f, IsArray(f, P, S), NEW i \in DOMAIN f, NEW x \in S
    PROVE  IsArray([f EXCEPT ![i] = x], P, S)
BY DEF IsArray

LEMMA WithoutArray ==
    ASSUME NEW P, NEW S, NEW f, IsArray(f, P, S), NEW gone
    PROVE  IsArray(Without(f, gone), P, S)
BY DEF IsArray, Without

LEMMA EmptyArray ==
    ASSUME NEW P, NEW S
    PROVE  IsArray(Empty, P, S)
BY DEF IsArray, Empty

LEMMA ValuesAreNumbers == \A v \in Values : v \in Number
BY ForeignAssumption DEF Values, Number

LEMMA MembersEdited ==
    ASSUME NEW n, Shaped(table, n), NEW u \in EditedMembers
    PROVE  Shaped(u, n)
<1>1. /\ DOMAIN table = Members /\ \A m \in Numbers : table[m] \in Number
      /\ table.uuid \in BOOLEAN
  BY DEF Shaped, ShapedNumbers
<1>2. CASE \E v \in Values, key \in Numbers : u = [table EXCEPT ![key] = v]
  <2>1. PICK v \in Values, key \in Numbers : u = [table EXCEPT ![key] = v]
    BY <1>2
  <2>2. v \in Number
    BY ValuesAreNumbers
  <2>3. /\ DOMAIN u = Members /\ SameBut(table, u, Numbers \cup {"uuid"})
        /\ \A m \in Numbers : u[m] \in Number
    BY <1>1, <2>1, <2>2 DEF SameBut, Members
  <2>4. u.uuid = table.uuid
    BY <1>1, <2>1 DEF Members, Numbers
  <2> QED
    BY <1>1, <2>3, <2>4, NumbersEdited
<1>3. CASE u = [table EXCEPT !.uuid = FALSE]
  <2>1. /\ DOMAIN u = Members /\ SameBut(table, u, Numbers \cup {"uuid"})
        /\ \A m \in Numbers : u[m] = table[m]
    BY <1>1, <1>3 DEF SameBut, Members, Numbers
  <2>2. u.uuid \in BOOLEAN
    BY <1>1, <1>3 DEF Members
  <2> QED
    BY <1>1, <2>1, <2>2, NumbersEdited
<1> QED
  BY <1>2, <1>3 DEF EditedMembers, Numbers

LEMMA SnapshotsEdited ==
    ASSUME NEW n, Shaped(table, n), NEW u \in EditedSnapshots
    PROVE  Shaped(u, n)
<1>1. /\ DOMAIN table = Members /\ ShapedHistory(table, n)
      /\ IsArray(table.snapshots, 0..(n - 1), SnapshotObject)
      /\ \A i \in DOMAIN table.snapshots : table.snapshots[i] \in SnapshotObject
  BY DEF Shaped, ShapedHistory, IsArray
<1>2. ASSUME NEW array, IsArray(array, 0..(n - 1), SnapshotObject),
             u = [table EXCEPT !.snapshots = array]
      PROVE  Shaped(u, n)
  <2>1. /\ DOMAIN u = Members /\ SameBut(table, u, {"snapshots", "log", "refs", "refs_given"})
        /\ u.snapshots = array /\ u.log = table.log
        /\ u.refs = table.refs /\ u.refs_given = table.refs_given
    BY <1>1, <1>2 DEF SameBut, Members, Numbers
  <2>2. ShapedHistory(u, n)
    BY <1>1, <1>2, <2>1 DEF ShapedHistory
  <2> QED
    BY <2>1, <2>2, HistoryEdited
<1>3. ASSUME NEW i \in DOMAIN table.snapshots, NEW x \in SnapshotObject,
             u = [table EXCEPT !.snapshots = [table.snapshots EXCEPT ![i] = x]]
      PROVE  Shaped(u, n)
  BY <1>1, <1>2, <1>3, EditedArray
<1>4. CASE \E i \in DOMAIN table.snapshots, v \in Values,
              key \in {"id", "timestamp", "sequence", "schema"} :
             u = [table EXCEPT !.snapshots[i][key] = v]
  <2>1. PICK i \in DOMAIN table.snapshots, v \in Values,
             key \in {"id", "timestamp", "sequence", "schema"} :
          u = [table EXCEPT !.snapshots[i][key] = v]
    BY <1>4
  <2> DEFINE s == table.snapshots[i]
             x == [s EXCEPT ![key] = v]
  <2>2. x \in SnapshotObject
    <3>1. v \in Number /\ s \in SnapshotObject
      BY <1>1, ValuesAreNumbers
    <3> HIDE DEF s
    <3> QED
      BY <3>1 DEF SnapshotObject
  <2>3. u = [table EXCEPT !.snapshots = [table.snapshots EXCEPT ![i] = x]]
    BY <2>1
  <2> QED
    BY <1>3, <2>2, <2>3
<1>5. CASE \E i \in DOMAIN table.snapshots : u = Expired(table, {i})
  <2>1. PICK i \in DOMAIN table.snapshots : u = Expired(table, {i})
    BY <1>5
  <2>2. u = [table EXCEPT !.snapshots = Without(table.snapshots, {i})]
    BY <2>1 DEF Expired
  <2> QED
    BY <1>1, <1>2, <2>2, WithoutArray
<1>6. CASE \E i \in DOMAIN table.snapshots : u = ListingManifests(table, i)
  <2>1. PICK i \in DOMAIN table.snapshots : u = ListingManifests(table, i)
    BY <1>6
  <2> DEFINE s == table.snapshots[i]
             x == [s EXCEPT !.manifest_list = FALSE, !.manifests = TRUE]
             f == [table.snapshots EXCEPT ![i] = [s EXCEPT !.manifest_list = FALSE]]
  <2>2. x \in SnapshotObject
    <3>1. s \in SnapshotObject
      BY <1>1
    <3> HIDE DEF s
    <3> QED
      BY <3>1 DEF SnapshotObject
  <2>3. u = [[table EXCEPT !.snapshots = f] EXCEPT !.snapshots[i].manifests = TRUE]
    BY <2>1 DEF ListingManifests
  <2>4. u = [table EXCEPT !.snapshots = [f EXCEPT ![i] = [f[i] EXCEPT !.manifests = TRUE]]]
    <3> HIDE DEF f
    <3> QED
      BY <1>1, <2>3 DEF Members
  <2>5. [f EXCEPT ![i] = [f[i] EXCEPT !.manifests = TRUE]] = [table.snapshots EXCEPT ![i] = x]
    <3>1. f[i] = [s EXCEPT !.manifest_list = FALSE]
      BY DEF IsArray
    <3> HIDE DEF s
    <3>2. [f[i] EXCEPT !.manifests = TRUE] = x
      BY <3>1
    <3> HIDE DEF x
    <3> QED
      BY <3>2
  <2> HIDE DEF x, f
  <2>6. u = [table EXCEPT !.snapshots = [table.snapshots EXCEPT ![i] = x]]
    BY <2>4, <2>5
  <2> QED
    BY <1>3, <2>2, <2>6
<1>7. CASE \E i \in DOMAIN table.snapshots : u = [table EXCEPT !.snapshots[i].operation = FALSE]
  <2>1. PICK i \in DOMAIN table.snapshots : u = [table EXCEPT !.snapshots[i].operation = FALSE]
    BY <1>7
  <2> DEFINE s == table.snapshots[i]
             x == [s EXCEPT !.operation = FALSE]
  <2>2. x \in SnapshotObject
    <3>1. s \in SnapshotObject
      BY <1>1
    <3> HIDE DEF s
    <3> QED
      BY <3>1 DEF SnapshotObject
  <2>3. u = [table EXCEPT !.snapshots = [table.snapshots EXCEPT ![i] = x]]
    BY <2>1
  <2> QED
    BY <1>3, <2>2, <2>3
<1> QED
  BY <1>4, <1>5, <1>6, <1>7 DEF EditedSnapshots

LEMMA LogEdited ==
    ASSUME NEW n, Shaped(table, n), NEW u \in EditedLog
    PROVE  Shaped(u, n)
<1>1. /\ DOMAIN table = Members /\ ShapedHistory(table, n)
      /\ IsArray(table.log, 0..(n - 1), LogEntry)
      /\ \A i \in DOMAIN table.log : table.log[i] \in LogEntry
  BY DEF Shaped, ShapedHistory, IsArray
<1>2. ASSUME NEW array, IsArray(array, 0..(n - 1), LogEntry),
             u = [table EXCEPT !.log = array]
      PROVE  Shaped(u, n)
  <2>1. /\ DOMAIN u = Members /\ SameBut(table, u, {"snapshots", "log", "refs", "refs_given"})
        /\ u.snapshots = table.snapshots /\ u.log = array
        /\ u.refs = table.refs /\ u.refs_given = table.refs_given
    BY <1>1, <1>2 DEF SameBut, Members, Numbers
  <2>2. ShapedHistory(u, n)
    BY <1>1, <1>2, <2>1 DEF ShapedHistory
  <2> QED
    BY <2>1, <2>2, HistoryEdited
<1>3. CASE \E i \in DOMAIN table.log, v \in Values, key \in {"timestamp", "snapshot"} :
             u = [table EXCEPT !.log[i][key] = v]
  <2>1. PICK i \in DOMAIN table.log, v \in Values, key \in {"timestamp", "snapshot"} :
          u = [table EXCEPT !.log[i][key] = v]
    BY <1>3
  <2> DEFINE s == table.log[i]
             x == [s EXCEPT ![key] = v]
  <2>2. x \in LogEntry
    <3>1. v \in Number /\ s \in LogEntry
      BY <1>1, ValuesAreNumbers
    <3> HIDE DEF s
    <3> QED
      BY <3>1 DEF LogEntry
  <2>3. u = [table EXCEPT !.log = [table.log EXCEPT ![i] = x]]
    BY <2>1
  <2> HIDE DEF x
  <2> QED
    BY <1>1, <1>2, <2>2, <2>3, EditedArray
<1>4. CASE \E i \in DOMAIN table.log : u = [table EXCEPT !.log = Without(@, {i})]
  BY <1>1, <1>2, <1>4, WithoutArray
<1> QED
  BY <1>3, <1>4 DEF EditedLog

LEMMA ReferencesEdited ==
    ASSUME NEW n, Shaped(table, n), NEW u \in EditedReferences
    PROVE  Shaped(u, n)
<1>1. /\ DOMAIN table = Members /\ ShapedHistory(table, n)
      /\ IsArray(table.refs, Branches \cup {"main"}, Number)
      /\ table.refs_given \in BOOLEAN /\ (table.refs_given \/ DOMAIN table.refs = {})
  BY DEF Shaped, ShapedHistory
<1>2. ASSUME DOMAIN u = Members, SameBut(table, u, {"refs", "refs_given"}),
             IsArray(u.refs, Branches \cup {"main"}, Number),
             u.refs_given \in BOOLEAN, u.refs_given \/ DOMAIN u.refs = {}
      PROVE  Shaped(u, n)
  <2>1. /\ SameBut(table, u, {"snapshots", "log", "refs", "refs_given"})
        /\ u.snapshots = table.snapshots /\ u.log = table.log
    BY <1>2 DEF SameBut, Members, Numbers
  <2>2. ShapedHistory(u, n)
    BY <1>1, <1>2, <2>1 DEF ShapedHistory
  <2> QED
    BY <1>2, <2>1, <2>2, HistoryEdited
<1>3. CASE \E m \in DOMAIN table.refs, v \in Values : u = [table EXCEPT !.refs[m] = v]
  <2>1. PICK m \in DOMAIN table.refs, v \in Values : u = [table EXCEPT !.refs[m] = v]
    BY <1>3
  <2>2. /\ DOMAIN u = Members /\ SameBut(table, u, {"refs", "refs_given"})
        /\ u.refs = [table.refs EXCEPT ![m] = v] /\ u.refs_given = table.refs_given
    BY <1>1, <2>1 DEF SameBut, Members, Numbers
  <2>3. IsArray(u.refs, Branches \cup {"main"}, Number)
    BY <1>1, <2>2, EditedArray, ValuesAreNumbers
  <2>4. DOMAIN u.refs = DOMAIN table.refs
    BY <2>2
  <2> QED
    BY <1>1, <1>2, <2>2, <2>3, <2>4
<1>4. CASE \E g \in BOOLEAN : u = WithoutReferences(table, g)
  <2>1. PICK g \in BOOLEAN : u = WithoutReferences(table, g)
    BY <1>4
  <2>2. /\ DOMAIN u = Members /\ SameBut(table, u, {"refs", "refs_given"})
        /\ u.refs = Empty /\ u.refs_given \in BOOLEAN
    BY <1>1, <2>1 DEF WithoutReferences, SameBut, Members, Numbers
  <2>3. DOMAIN u.refs = {}
    BY <2>2 DEF Empty
  <2> QED
    BY <1>2, <2>2, <2>3, EmptyArray
<1> QED
  BY <1>3, <1>4 DEF EditedReferences

LEMMA FieldArraysEdited ==
    ASSUME NEW n, Shaped(table, n), NEW u \in EditedFields
    PROVE  Shaped(u, n)
<1>1. DOMAIN table = Members /\ ShapedFields(table, n)
  BY DEF Shaped
<1>2. CASE /\ table.schema # Missing
           /\ \E k \in DOMAIN table.schema, v \in Values : u = [table EXCEPT !.schema[k] = v]
  <2>1. PICK k \in DOMAIN table.schema, v \in Values : u = [table EXCEPT !.schema[k] = v]
    BY <1>2
  <2>2. /\ DOMAIN u = Members /\ SameBut(table, u, {"schema", "schemas", "specs"})
        /\ u.schema = [table.schema EXCEPT ![k] = v]
        /\ u.schemas = table.schemas /\ u.specs = table.specs
        /\ u.spec = table.spec /\ u.orders = table.orders
    BY <1>1, <2>1 DEF SameBut, Members, Numbers
  <2>3. IsArray(u.schema, 0..(n - 1), Number)
    BY <1>1, <1>2, <2>2, EditedArray, ValuesAreNumbers DEF ShapedFields, FieldArrays
  <2>4. ShapedFields(u, n)
    BY <1>1, <2>2, <2>3 DEF ShapedFields, FieldArrays, SingleSpec
  <2> QED
    BY <2>2, <2>4, FieldsEdited
<1>3. CASE \E i \in DOMAIN table.schemas : \E k \in DOMAIN table.schemas[i].fields, v \in Values :
             u = [table EXCEPT !.schemas[i].fields[k] = v]
  <2>1. PICK i \in DOMAIN table.schemas :
          \E k \in DOMAIN table.schemas[i].fields, v \in Values :
             u = [table EXCEPT !.schemas[i].fields[k] = v]
    BY <1>3
  <2>2. PICK k \in DOMAIN table.schemas[i].fields, v \in Values :
             u = [table EXCEPT !.schemas[i].fields[k] = v]
    BY <2>1
  <2> DEFINE s == table.schemas[i]
             f == [s.fields EXCEPT ![k] = v]
  <2>3. /\ DOMAIN u = Members /\ SameBut(table, u, {"schema", "schemas", "specs"})
        /\ u.schemas = [table.schemas EXCEPT ![i] = [s EXCEPT !.fields = f]]
        /\ u.schema = table.schema /\ u.specs = table.specs
        /\ u.spec = table.spec /\ u.orders = table.orders
    BY <1>1, <2>2 DEF SameBut, Members, Numbers
  <2>4. IsArray(f, 0..(n - 1), Number)
    BY <1>1, EditedArray, ValuesAreNumbers DEF ShapedFields, FieldArrays
  <2> HIDE DEF f
  <2>5. /\ DOMAIN u.schemas = DOMAIN table.schemas
        /\ \A j \in DOMAIN table.schemas : j # i => u.schemas[j] = table.schemas[j]
        /\ u.schemas[i].id = s.id /\ u.schemas[i].fields = f
    BY <2>3
  <2>6. ShapedFields(u, n)
    BY <1>1, <2>3, <2>4, <2>5 DEF ShapedFields, FieldArrays, SingleSpec
  <2> QED
    BY <2>3, <2>6, FieldsEdited
<1>4. CASE \E p \in PartitionFields(table), v \in Values :
             \E y \in EditedPartitionField(PartitionField(table, p), v) :
                u = WithPartitionField(table, p, y)
  <2>1. PICK p \in PartitionFields(table), v \in Values :
             \E y \in EditedPartitionField(PartitionField(table, p), v) :
                u = WithPartitionField(table, p, y)
    BY <1>4
  <2>2. PICK y \in EditedPartitionField(PartitionField(table, p), v) :
                u = WithPartitionField(table, p, y)
    BY <2>1
  <2>3. PICK i \in DOMAIN table.specs : p[1] = i /\ p[2] \in DOMAIN table.specs[i].fields
    BY DEF PartitionFields
  <2>4. PICK k \in DOMAIN table.specs[i].fields : p[2] = k
    BY <2>3
  <2> DEFINE s == table.specs[i]
             x == s.fields[k]
  <2>5. x \in FieldOfSpec /\ v \in Number /\ IsArray(s.fields, 0..(n - 1), FieldOfSpec) /\ s.id \in Nat
    BY <1>1, ValuesAreNumbers DEF ShapedFields, FieldArrays, IsArray
  <2>6. y \in FieldOfSpec
    <3>1. y \in EditedPartitionField(x, v)
      BY <2>3, <2>4 DEF PartitionField
    <3> HIDE DEF x
    <3> QED
      BY <2>5, <3>1 DEF EditedPartitionField, FieldOfSpec
  <2> DEFINE f == [s.fields EXCEPT ![k] = y]
  <2>7. /\ DOMAIN u = Members /\ SameBut(table, u, {"schema", "schemas", "specs"})
        /\ u.specs = [table.specs EXCEPT ![i] = [s EXCEPT !.fields = f]]
        /\ u.schema = table.schema /\ u.schemas = table.schemas
        /\ u.spec = table.spec /\ u.orders = table.orders
    BY <1>1, <2>2, <2>3, <2>4 DEF WithPartitionField, SameBut, Members, Numbers
  <2>8. IsArray(f, 0..(n - 1), FieldOfSpec)
    BY <2>5, <2>6, EditedArray
  <2> HIDE DEF f
  <2>9. /\ DOMAIN u.specs = DOMAIN table.specs
        /\ \A j \in DOMAIN table.specs : j # i => u.specs[j] = table.specs[j]
        /\ u.specs[i].id = s.id /\ u.specs[i].fields = f
    BY <2>7
  <2>10. ShapedFields(u, n)
    BY <1>1, <2>5, <2>7, <2>8, <2>9 DEF ShapedFields, FieldArrays, SingleSpec
  <2> QED
    BY <2>7, <2>10, FieldsEdited
<1> QED
  BY <1>2, <1>3, <1>4 DEF EditedFields

LEMMA ShapedLater ==
    ASSUME NEW n \in Nat, NEW t, Shaped(t, n)
    PROVE  Shaped(t, n + 1)
BY FieldsShaped, HistoryShaped DEF Shaped, Same

\* Edits keep the shape.
LEMMA EditKeepsShape ==
    ASSUME version \in Nat, Shaped(table, version), Edit
    PROVE  Shaped(table', version + 1)
<1>1. Shaped(table', version)
  BY MembersEdited, SnapshotsEdited, LogEdited, ReferencesEdited, FieldArraysEdited DEF Edit
<1> QED
  BY <1>1, ShapedLater

-----------------------------------------------------------------------------
(* What a healthy commit does to the three conditions that Sound leaves    *)
(* aside.                                                                  *)

MainGood(t) == CurrentSnapshot(t) # Missing => MainReferenced(t)

\* A commit that is no upgrade adds at most a snapshot, and to version 3 one with row
\* lineage.  The main branch stays where the current snapshot is.
Continued(u) ==
    /\ u.version = table.version
    /\ \A i \in DOMAIN u.snapshots :
         \/ i \in DOMAIN table.snapshots /\ u.snapshots[i] = table.snapshots[i]
         \/ i = version /\ u.snapshots[i].row_lineage = (table.version = 3)
    /\ MainGood(table) => MainGood(u)

LEMMA SameContinues ==
    ASSUME NEW u, u.version = table.version, u.snapshots = table.snapshots,
           u.current_snapshot = table.current_snapshot, u.refs = table.refs,
           u.refs_given = table.refs_given
    PROVE  Continued(u)
BY DEF Continued, MainGood, MainReferenced, CurrentSnapshot

LEMMA CommitContinues ==
    ASSUME NEW c, DOMAIN c = Members, Continued(c), Commit(c)
    PROVE  Continued(table') /\ table'.specs = c.specs
<1> DEFINE u == table'
<1>1. Committed(c, u)
  BY WriteCommits DEF Commit
<1> HIDE DEF u
<1>2. /\ u.version = c.version /\ u.snapshots = c.snapshots
      /\ u.current_snapshot = c.current_snapshot
      /\ u.refs = c.refs /\ u.refs_given = c.refs_given
  BY <1>1, CommittedMembers
<1>5. u.specs = c.specs
  BY <1>1 DEF Committed, SameBut, ClockMembers, Members
<1>3. MainGood(u) <=> MainGood(c)
  BY <1>2 DEF MainGood, MainReferenced, CurrentSnapshot
<1>4. Continued(u)
  BY <1>2, <1>3 DEF Continued
<1> QED
  BY <1>4, <1>5 DEF u

LEMMA WithSchemaMembers ==
    ASSUME DOMAIN table = Members, NEW id, NEW fields
    PROVE  /\ DOMAIN WithSchema(table, id, fields) = Members
           /\ SameBut(table, WithSchema(table, id, fields), FieldMembers)
           /\ WithSchema(table, id, fields).specs = table.specs
BY DEF WithSchema, SameBut, FieldMembers, Members, Numbers

\* The writers of schemas, partition specs and sort orders leave the rest alone.
LEMMA FieldWritersKeep ==
    ASSUME Before,
           \/ AddColumn \/ DropColumn \/ PartitionBy \/ SortBy \/ LegacyColumn \/ LegacyPartition
    PROVE  /\ SameBut(table, table', FieldMembers \cup ClockMembers)
           /\ PartitionBy \/ table'.specs = table.specs
<1>1. DOMAIN table = Members
  BY BeforeNumbers
<1>2. ASSUME NEW c, DOMAIN c = Members, SameBut(table, c, FieldMembers), c.specs = table.specs,
             Commit(c)
      PROVE  /\ SameBut(table, table', FieldMembers \cup ClockMembers)
             /\ table'.specs = table.specs
  <2> DEFINE u == table'
  <2>1. Committed(c, u)
    BY <1>2, WriteCommits DEF Commit
  <2> HIDE DEF u
  <2>2. SameBut(table, u, FieldMembers \cup ClockMembers) /\ u.specs = c.specs
    BY <1>2, <2>1 DEF Committed, SameBut, ClockMembers, Members
  <2> QED
    BY <1>2, <2>2 DEF u
<1>3. CASE AddColumn
  <2>1. PICK i \in CurrentSchemas, id \in ObjectIds \ Ids(table.schemas) :
        Commit([WithSchema(table, id, Push(table.schemas[i].fields, version, table.last_column + 1))
                  EXCEPT !.last_column = @ + 1])
    BY <1>3 DEF AddColumn
  <2> DEFINE fields == Push(table.schemas[i].fields, version, table.last_column + 1)
             t == WithSchema(table, id, fields)
             c == [t EXCEPT !.last_column = t.last_column + 1]
  <2>2. Commit(c)
    BY <2>1
  <2>3. DOMAIN t = Members /\ SameBut(table, t, FieldMembers) /\ t.specs = table.specs
    BY <1>1, WithSchemaMembers
  <2> HIDE DEF t
  <2>4. DOMAIN c = Members /\ SameBut(table, c, FieldMembers) /\ c.specs = table.specs
    BY <2>3 DEF SameBut, FieldMembers, Members
  <2> HIDE DEF c
  <2> QED
    BY <1>2, <2>2, <2>4
<1>4. CASE DropColumn
  <2>1. PICK i \in CurrentSchemas, id \in ObjectIds \ Ids(table.schemas) :
        \E k \in DOMAIN table.schemas[i].fields :
          Commit(WithSchema(table, id, Without(table.schemas[i].fields, {k})))
    BY <1>4 DEF DropColumn
  <2>2. PICK fields : Commit(WithSchema(table, id, fields))
    BY <2>1
  <2> DEFINE c == WithSchema(table, id, fields)
  <2>3. DOMAIN c = Members /\ SameBut(table, c, FieldMembers) /\ c.specs = table.specs
    BY <1>1, WithSchemaMembers
  <2>4. Commit(c)
    BY <2>2
  <2> HIDE DEF c
  <2> QED
    BY <1>2, <2>3, <2>4
<1>5. CASE PartitionBy
  <2>1. PICK kept, source, transform, spec, id :
           PartitionedBy(table', kept, source, transform, spec, id)
    BY <1>5, PartitionByCommits
  <2>2. SameBut(table, table', {"spec", "specs", "default_spec", "last_partition"} \cup ClockMembers)
    BY <2>1 DEF PartitionedBy
  <2> QED
    BY <1>5, <2>2 DEF SameBut, FieldMembers
<1>6. CASE SortBy
  <2>1. PICK array, id : Commit([table EXCEPT !.orders = array, !.default_order = id])
    BY <1>6, Zenon DEF SortBy
  <2> DEFINE c == [table EXCEPT !.orders = array, !.default_order = id]
  <2>2. DOMAIN c = Members /\ SameBut(table, c, FieldMembers) /\ c.specs = table.specs
    BY <1>1 DEF SameBut, FieldMembers, Members
  <2>3. Commit(c)
    BY <2>1
  <2> HIDE DEF c
  <2> QED
    BY <1>2, <2>2, <2>3
<1>7. CASE LegacyColumn
  <2> DEFINE c == [table EXCEPT !.schema = Push(@, version, table.last_column + 1),
                                !.last_column = @ + 1]
  <2>1. Commit(c)
    BY <1>7 DEF LegacyColumn
  <2>2. DOMAIN c = Members /\ SameBut(table, c, FieldMembers) /\ c.specs = table.specs
    BY <1>1 DEF SameBut, FieldMembers, Members
  <2> HIDE DEF c
  <2> QED
    BY <1>2, <2>1, <2>2
<1>8. CASE LegacyPartition
  <2>1. PICK fields : Commit([table EXCEPT !.spec = fields])
    BY <1>8, Zenon DEF LegacyPartition
  <2> DEFINE c == [table EXCEPT !.spec = fields]
  <2>2. DOMAIN c = Members /\ SameBut(table, c, FieldMembers) /\ c.specs = table.specs
    BY <1>1 DEF SameBut, FieldMembers, Members
  <2>3. Commit(c)
    BY <2>1
  <2> HIDE DEF c
  <2> QED
    BY <1>2, <2>2, <2>3
<1> QED
  BY <1>3, <1>4, <1>5, <1>6, <1>7, <1>8

\* A commit to a branch, before or after the first one to main, and of a reference.
LEMMA ReferenceContinues ==
    ASSUME Before, NEW t, DOMAIN t = Members,
           t.version = table.version, t.current_snapshot = table.current_snapshot,
           t.refs = table.refs, t.refs_given = table.refs_given,
           NEW name \in Branches, NEW id, NEW c, c = WithReference(t, name, id)
    PROVE  DOMAIN c = Members /\ SameBut(t, c, ReferenceMembers) /\ (MainGood(table) => MainGood(c))
<1>1. /\ DOMAIN c = Members /\ SameBut(t, c, ReferenceMembers) /\ c.refs_given
      /\ \A n : n \in DOMAIN c.refs <=> \/ n \in DOMAIN t.refs \/ n = name
                                        \/ n = "main" /\ CurrentSnapshot(t) # Missing
      /\ \A n \in DOMAIN c.refs :
           c.refs[n] = IF n = name THEN id ELSE IF n \in DOMAIN t.refs THEN t.refs[n]
                                                ELSE t.current_snapshot
  BY WithReferenceMembers
<1>2. c.current_snapshot = table.current_snapshot
  BY <1>1 DEF SameBut, ReferenceMembers, Members, Numbers
<1>3. CurrentSnapshot(t) = CurrentSnapshot(table) /\ CurrentSnapshot(c) = CurrentSnapshot(table)
  BY <1>2 DEF CurrentSnapshot
<1>4. ASSUME MainGood(table), CurrentSnapshot(c) # Missing
      PROVE  "main" \in DOMAIN c.refs /\ c.refs["main"] = CurrentSnapshot(c)
  <2>1. "main" # name
    BY BranchesAssumption
  <2>2. "main" \in DOMAIN c.refs
    BY <1>1, <1>3, <1>4
  <2>3. c.refs["main"] = IF "main" \in DOMAIN t.refs THEN t.refs["main"] ELSE t.current_snapshot
    BY <1>1, <2>1, <2>2
  <2>4. CASE "main" \in DOMAIN t.refs
    <3>1. table.refs_given
      BY <2>4 DEF Before, Shaped, ShapedHistory
    <3>2. table.refs["main"] = CurrentSnapshot(table)
      BY <1>3, <1>4, <3>1 DEF MainGood, MainReferenced
    <3> QED
      BY <1>3, <2>2, <2>3, <2>4, <3>2
  <2>5. CASE "main" \notin DOMAIN t.refs
    <3>1. t.current_snapshot = CurrentSnapshot(t)
      BY <1>3, <1>4 DEF CurrentSnapshot
    <3> QED
      BY <1>3, <2>2, <2>3, <2>5, <3>1
  <2> QED
    BY <2>4, <2>5
<1> QED
  BY <1>1, <1>4 DEF MainGood, MainReferenced

\* A snapshot added.
LEMMA SnapshotContinues ==
    ASSUME Before, NEW id, NEW t, t = WithSnapshot(table, id)
    PROVE  /\ DOMAIN t = Members /\ t.version = table.version
           /\ t.current_snapshot = table.current_snapshot
           /\ t.refs = table.refs /\ t.refs_given = table.refs_given /\ t.specs = table.specs
           /\ \A i \in DOMAIN t.snapshots :
                \/ i \in DOMAIN table.snapshots /\ t.snapshots[i] = table.snapshots[i]
                \/ i = version /\ t.snapshots[i].row_lineage = (table.version = 3)
<1>1. /\ DOMAIN t = Members /\ SameBut(table, t, SnapshotMembers)
      /\ t.snapshots = Push(table.snapshots, version, NewSnapshot(table, id))
  BY BeforeNumbers, WithSnapshotMembers
<1>2. /\ t.version = table.version /\ t.current_snapshot = table.current_snapshot
      /\ t.refs = table.refs /\ t.refs_given = table.refs_given /\ t.specs = table.specs
  BY <1>1 DEF SameBut, SnapshotMembers, Members, Numbers
<1>3. NewSnapshot(table, id).row_lineage = (table.version = 3)
  BY DEF NewSnapshot
<1> DEFINE x == NewSnapshot(table, id)
<1> HIDE DEF x
<1>4. \A i \in DOMAIN t.snapshots :
        \/ i \in DOMAIN table.snapshots /\ t.snapshots[i] = table.snapshots[i]
        \/ i = version /\ t.snapshots[i] = x
  BY <1>1 DEF Push, x
<1> QED
  BY <1>1, <1>2, <1>3, <1>4 DEF x

\* The current snapshot set, by a commit to main or a rollback.
LEMMA CurrentContinues ==
    ASSUME NEW t, DOMAIN t = Members, NEW id, NEW c, c = WithCurrent(t, id)
    PROVE  /\ DOMAIN c = Members /\ c.version = t.version /\ c.snapshots = t.snapshots
           /\ c.specs = t.specs /\ MainGood(c)
<1>1. /\ DOMAIN c = Members
      /\ SameBut(t, c, CurrentMembers)
      /\ \A n : n \in DOMAIN c.refs <=> n \in DOMAIN t.refs \/ n = "main"
      /\ \A n \in DOMAIN c.refs : c.refs[n] = IF n = "main" THEN id ELSE t.refs[n]
      /\ IsFunction(c.refs)
      /\ c.refs_given /\ c.refs_given \in BOOLEAN
      /\ c.current_snapshot = id
      /\ c.log = Push(t.log, version, [timestamp |-> Now(t), snapshot |-> id])
  BY WithCurrentMembers
<1>2. c.version = t.version /\ c.snapshots = t.snapshots /\ c.specs = t.specs
  BY <1>1 DEF SameBut, CurrentMembers, ReferenceMembers, Members, Numbers
<1>3. MainGood(c)
  BY <1>1 DEF MainGood, MainReferenced, CurrentSnapshot
<1> QED
  BY <1>1, <1>2, <1>3

LEMMA HealthyContinues ==
    ASSUME Before, Healthy, ~ToVersion2, ~ToVersion3
    PROVE  Continued(table') /\ (PartitionBy \/ table'.specs = table.specs)
<1>1. DOMAIN table = Members /\ version \in Nat
  BY BeforeNumbers DEF Before
<1>2. CASE CommitToMain
  <2>1. PICK id \in NewSnapshotIds : Commit(WithCurrent(WithSnapshot(table, id), id))
    BY <1>2 DEF CommitToMain
  <2> DEFINE t == WithSnapshot(table, id)
             c == WithCurrent(t, id)
  <2>2. /\ DOMAIN t = Members /\ t.version = table.version /\ t.specs = table.specs
        /\ \A i \in DOMAIN t.snapshots :
             \/ i \in DOMAIN table.snapshots /\ t.snapshots[i] = table.snapshots[i]
             \/ i = version /\ t.snapshots[i].row_lineage = (table.version = 3)
    BY SnapshotContinues
  <2>3. Commit(c)
    BY <2>1
  <2> HIDE DEF t
  <2>4. /\ DOMAIN c = Members /\ c.version = t.version /\ c.snapshots = t.snapshots
        /\ c.specs = t.specs /\ MainGood(c)
    BY <2>2, CurrentContinues
  <2> HIDE DEF c
  <2>5. Continued(c)
    BY <2>2, <2>4 DEF Continued
  <2> QED
    BY <2>2, <2>3, <2>4, <2>5, CommitContinues
<1>3. CASE CommitToBranch
  <2>1. PICK b \in Branches, id \in NewSnapshotIds :
           Commit(WithReference(WithSnapshot(table, id), b, id))
    BY <1>3 DEF CommitToBranch
  <2> DEFINE t == WithSnapshot(table, id)
             c == WithReference(t, b, id)
  <2>2. /\ DOMAIN t = Members /\ t.version = table.version /\ t.specs = table.specs
        /\ t.current_snapshot = table.current_snapshot
        /\ t.refs = table.refs /\ t.refs_given = table.refs_given
        /\ \A i \in DOMAIN t.snapshots :
             \/ i \in DOMAIN table.snapshots /\ t.snapshots[i] = table.snapshots[i]
             \/ i = version /\ t.snapshots[i].row_lineage = (table.version = 3)
    BY SnapshotContinues
  <2>3. Commit(c)
    BY <2>1
  <2> HIDE DEF t
  <2>4. DOMAIN c = Members /\ SameBut(t, c, ReferenceMembers) /\ (MainGood(table) => MainGood(c))
    BY <2>2, ReferenceContinues
  <2> HIDE DEF c
  <2>5. c.version = t.version /\ c.snapshots = t.snapshots /\ c.specs = t.specs
    BY <2>4 DEF SameBut, ReferenceMembers, Members, Numbers
  <2>6. Continued(c)
    BY <2>2, <2>4, <2>5 DEF Continued
  <2> QED
    BY <2>2, <2>3, <2>4, <2>5, <2>6, CommitContinues
<1>4. CASE SetReference
  <2>1. PICK b \in Branches, id \in Ids(table.snapshots) : Commit(WithReference(table, b, id))
    BY <1>4 DEF SetReference
  <2> DEFINE c == WithReference(table, b, id)
  <2>2. Commit(c)
    BY <2>1
  <2>3. DOMAIN c = Members /\ SameBut(table, c, ReferenceMembers) /\ (MainGood(table) => MainGood(c))
    BY <1>1, ReferenceContinues
  <2> HIDE DEF c
  <2>4. c.version = table.version /\ c.snapshots = table.snapshots /\ c.specs = table.specs
    BY <2>3 DEF SameBut, ReferenceMembers, Members, Numbers
  <2>5. Continued(c)
    BY <2>3, <2>4 DEF Continued
  <2> QED
    BY <2>2, <2>3, <2>4, <2>5, CommitContinues
<1>5. CASE DropReference
  <2>1. PICK b \in Branches : Commit([table EXCEPT !.refs = Without(@, {b})])
    BY <1>5 DEF DropReference
  <2> DEFINE c == [table EXCEPT !.refs = Without(@, {b})]
  <2>2. /\ DOMAIN c = Members /\ c.version = table.version /\ c.snapshots = table.snapshots
        /\ c.current_snapshot = table.current_snapshot
        /\ c.refs_given = table.refs_given /\ c.refs = Without(table.refs, {b})
        /\ c.specs = table.specs
    BY <1>1 DEF Members, Numbers
  <2>3. Commit(c)
    BY <2>1
  <2> HIDE DEF c
  <2>4. "main" # b
    BY BranchesAssumption
  <2>5. "main" \in DOMAIN table.refs =>
           "main" \in DOMAIN c.refs /\ c.refs["main"] = table.refs["main"]
    BY <2>2, <2>4 DEF Without
  <2>6. MainGood(table) => MainGood(c)
    BY <2>2, <2>5 DEF MainGood, MainReferenced, CurrentSnapshot
  <2>7. Continued(c)
    BY <2>2, <2>6 DEF Continued
  <2> QED
    BY <2>2, <2>3, <2>7, CommitContinues
<1>6. CASE Rollback
  <2>1. PICK id \in Ids(table.snapshots) : Commit(WithCurrent(table, id))
    BY <1>6 DEF Rollback
  <2> DEFINE c == WithCurrent(table, id)
  <2>2. /\ DOMAIN c = Members /\ c.version = table.version /\ c.snapshots = table.snapshots
        /\ c.specs = table.specs /\ MainGood(c)
    BY <1>1, CurrentContinues
  <2>3. Commit(c)
    BY <2>1
  <2> HIDE DEF c
  <2>4. Continued(c)
    BY <2>2 DEF Continued
  <2> QED
    BY <2>2, <2>3, <2>4, CommitContinues
<1>7. CASE Expire
  <2>1. PICK gone \in SUBSET Expirable : Commit(Pruned(Expired(table, gone)))
    BY <1>7 DEF Expire
  <2> DEFINE t == Expired(table, gone)
             c == Pruned(t)
  <2>2. /\ DOMAIN t = Members /\ SameBut(table, t, {"snapshots"})
        /\ t.snapshots = Without(table.snapshots, gone)
    BY <1>1 DEF Expired, SameBut, Members, Numbers
  <2>3. Commit(c)
    BY <2>1
  <2> HIDE DEF t
  <2>4. DOMAIN c = Members /\ SameBut(t, c, {"log"})
    BY <2>2 DEF Pruned, SameBut, Members, Numbers
  <2> HIDE DEF c
  <2>5. /\ c.version = table.version /\ c.snapshots = Without(table.snapshots, gone)
        /\ c.current_snapshot = table.current_snapshot
        /\ c.refs_given = table.refs_given /\ c.refs = table.refs /\ c.specs = table.specs
    BY <2>2, <2>4 DEF SameBut, Members, Numbers
  <2>6. MainGood(table) => MainGood(c)
    BY <2>5 DEF MainGood, MainReferenced, CurrentSnapshot
  <2>7. \A i \in DOMAIN c.snapshots :
          i \in DOMAIN table.snapshots /\ c.snapshots[i] = table.snapshots[i]
    BY <2>5 DEF Without
  <2>8. Continued(c)
    BY <2>5, <2>6, <2>7 DEF Continued
  <2> QED
    BY <2>3, <2>4, <2>5, <2>8, CommitContinues
<1>8. CASE \/ AddColumn \/ DropColumn \/ PartitionBy \/ SortBy \/ LegacyColumn \/ LegacyPartition
  <2> DEFINE u == table'
  <2>1. SameBut(table, u, FieldMembers \cup ClockMembers) /\ (PartitionBy \/ u.specs = table.specs)
    BY <1>8, FieldWritersKeep
  <2> HIDE DEF u
  <2>2. /\ u.version = table.version /\ u.snapshots = table.snapshots
        /\ u.current_snapshot = table.current_snapshot
        /\ u.refs_given = table.refs_given /\ u.refs = table.refs
    BY <2>1 DEF SameBut, FieldMembers, ClockMembers, Members, Numbers
  <2> QED
    BY <2>1, <2>2, SameContinues DEF u
<1> QED
  BY <1>2, <1>3, <1>4, <1>5, <1>6, <1>7, <1>8, Zenon DEF Healthy

LEMMA SnapshotObjects ==
    ASSUME Before
    PROVE  /\ DOMAIN table.snapshots \subseteq 0..(version - 1)
           /\ \A i \in DOMAIN table.snapshots : table.snapshots[i] \in SnapshotObject
BY DEF Before, Shaped, ShapedHistory, IsArray

\* What an upgrade leaves of the history, and of the positions of the partition specs.
LEMMA ToVersion2Leaves ==
    ASSUME Before, ToVersion2
    PROVE  /\ table.version = 1 /\ table'.version = 2 /\ upgraded' = [upgraded EXCEPT ![2] = version]
           /\ version' = version + 1 /\ UNCHANGED <<edits, fault>>
           /\ table'.last_sequence = 0 /\ table'.next_row = table.next_row
           /\ table'.current_snapshot = table.current_snapshot
           /\ table'.refs = table.refs /\ table'.refs_given = table.refs_given
           /\ table'.log = table.log /\ DOMAIN table'.snapshots = DOMAIN table.snapshots
           /\ \A i \in DOMAIN table.snapshots :
                table'.snapshots[i].row_lineage = table.snapshots[i].row_lineage
           /\ version > 0 => \A i \in DOMAIN table'.specs : i \in Nat /\ i < version
<1> DEFINE c == Modern(table)
           u == table'
<1>1. table.version = 1 /\ Upgrade(c)
  BY DEF ToVersion2
<1>2. /\ DOMAIN c = Members
      /\ SameBut(table, c, {"schemas", "current_schema", "specs", "default_spec", "version",
                            "uuid", "schema", "spec", "orders", "default_order",
                            "last_partition", "last_sequence", "snapshots"})
      /\ ArraysOf(table, c)
      /\ c.version = 2 /\ c.uuid /\ c.uuid \in BOOLEAN
      /\ c.schema = Missing /\ c.spec = Missing /\ c.orders = Orders(table)
      /\ c.default_order = IF table.default_order = Missing THEN 0 ELSE table.default_order
      /\ c.last_partition = PartitionMark(c)
      /\ c.last_sequence = 0
      /\ c.snapshots = [i \in DOMAIN table.snapshots |->
                          [table.snapshots[i] EXCEPT !.sequence = 0]]
  <2>1. c = Modern(table)
    OBVIOUS
  <2> HIDE DEF c
  <2> QED
    BY <2>1, BeforeNumbers, ModernMembers
<1> HIDE DEF c
<1>3. /\ Write(c) /\ version' = version + 1 /\ UNCHANGED <<edits, fault>>
      /\ upgraded' = [upgraded EXCEPT ![2] = version]
  BY <1>1, <1>2 DEF Upgrade, Write
<1>4. Committed(c, u)
  BY <1>2, <1>3, WriteCommits
<1> HIDE DEF u
<1>5. /\ u.version = c.version /\ u.last_sequence = c.last_sequence /\ u.next_row = c.next_row
      /\ u.current_snapshot = c.current_snapshot /\ u.refs = c.refs
      /\ u.refs_given = c.refs_given /\ u.log = c.log /\ u.snapshots = c.snapshots
  BY <1>4, CommittedMembers
<1>6. u.specs = c.specs
  BY <1>4 DEF Committed, SameBut, ClockMembers, Members
<1>7. /\ c.next_row = table.next_row /\ c.current_snapshot = table.current_snapshot
      /\ c.refs = table.refs /\ c.refs_given = table.refs_given /\ c.log = table.log
  BY <1>2 DEF SameBut, Members, Numbers
<1>8. /\ DOMAIN c.snapshots = DOMAIN table.snapshots
      /\ \A i \in DOMAIN table.snapshots :
           c.snapshots[i].row_lineage = table.snapshots[i].row_lineage
  <2>1. DOMAIN c.snapshots = DOMAIN table.snapshots
    BY <1>2
  <2>2. ASSUME NEW i \in DOMAIN table.snapshots
        PROVE  c.snapshots[i].row_lineage = table.snapshots[i].row_lineage
    <3>1. c.snapshots[i] = [table.snapshots[i] EXCEPT !.sequence = 0]
      BY <1>2
    <3>2. table.snapshots[i] \in SnapshotObject
      BY SnapshotObjects
    <3> QED
      BY <3>1, <3>2 DEF SnapshotObject
  <2> QED
    BY <2>1, <2>2
<1>9. ASSUME version > 0, NEW i \in DOMAIN c.specs
      PROVE  i \in Nat /\ i < version
  <2>1. DOMAIN table.specs \subseteq 0..(version - 1) /\ version \in Nat
    BY FieldsBefore DEF ShapedFields, FieldArrays
  <2>2. CASE Legacy(table)
    <3>1. c.specs = [j \in {0} |-> [id |-> 0, fields |-> table.spec]]
      BY <1>2, <2>2 DEF ArraysOf
    <3> QED
      BY <1>9, <3>1
  <2>3. CASE ~Legacy(table)
    <3>1. c.specs = table.specs
      BY <1>2, <2>3 DEF ArraysOf
    <3> QED
      BY <1>9, <2>1, <3>1
  <2> QED
    BY <2>2, <2>3
<1>10. version > 0 => \A i \in DOMAIN u.specs : i \in Nat /\ i < version
  BY <1>6, <1>9
<1> QED
  BY <1>1, <1>2, <1>3, <1>5, <1>7, <1>8, <1>10 DEF u

LEMMA ToVersion3Leaves ==
    ASSUME Before, ToVersion3
    PROVE  /\ table.version = 2 /\ table'.version = 3 /\ upgraded' = [upgraded EXCEPT ![3] = version]
           /\ version' = version + 1 /\ UNCHANGED <<edits, fault>>
           /\ table'.snapshots = table.snapshots /\ table'.specs = table.specs
           /\ table'.current_snapshot = table.current_snapshot
           /\ table'.refs = table.refs /\ table'.refs_given = table.refs_given
           /\ table'.log = table.log
<1> DEFINE c == [table EXCEPT !.version = 3, !.next_row = 0]
           u == table'
<1>1. table.version = 2 /\ Upgrade(c)
  BY DEF ToVersion3
<1>2. /\ DOMAIN c = Members /\ c.version = 3
      /\ c.snapshots = table.snapshots /\ c.specs = table.specs
      /\ c.current_snapshot = table.current_snapshot
      /\ c.refs = table.refs /\ c.refs_given = table.refs_given /\ c.log = table.log
  BY BeforeNumbers DEF Members, Numbers
<1> HIDE DEF c
<1>3. /\ Write(c) /\ version' = version + 1 /\ UNCHANGED <<edits, fault>>
      /\ upgraded' = [upgraded EXCEPT ![3] = version]
  BY <1>1, <1>2 DEF Upgrade, Write
<1>4. Committed(c, u)
  BY <1>2, <1>3, WriteCommits
<1> HIDE DEF u
<1>5. /\ u.version = c.version /\ u.snapshots = c.snapshots
      /\ u.current_snapshot = c.current_snapshot /\ u.refs = c.refs
      /\ u.refs_given = c.refs_given /\ u.log = c.log
  BY <1>4, CommittedMembers
<1>6. u.specs = c.specs
  BY <1>4 DEF Committed, SameBut, ClockMembers, Members
<1> QED
  BY <1>1, <1>2, <1>3, <1>5, <1>6 DEF u

\* Two partition fields of which an ID or a signature is that of both, and not the other.
Conflict(t, p, q) ==
    ~(PartitionField(t, p).id = PartitionField(t, q).id <=> Signature(t, p) = Signature(t, q))

\* Some at positions below n.
ConflictBefore(t, n) == \E p, q \in Signed(t) : p[1] < n /\ q[1] < n /\ Conflict(t, p, q)

LEMMA ReassignedIsConflict ==
    ASSUME NEW t
    PROVE  ReassignedPartitionIds(t) <=> \E p, q \in Signed(t) : Conflict(t, p, q)
BY DEF ReassignedPartitionIds, Conflict

\* If the signed fields are those of before, so are the conflicts.
LEMMA SameConflicts ==
    ASSUME NEW t, NEW u, Signed(u) = Signed(t), \A p : PartitionField(u, p) = PartitionField(t, p)
    PROVE  /\ ReassignedPartitionIds(u) <=> ReassignedPartitionIds(t)
           /\ \A n : ConflictBefore(t, n) => ConflictBefore(u, n)
<1>1. \A p, q : Conflict(u, p, q) <=> Conflict(t, p, q)
  BY DEF Conflict, Signature
<1> QED
  BY <1>1, ReassignedIsConflict DEF ConflictBefore

\* Each field of a new partition spec is like one there was, or it is the only one of its
\* signature and has an ID of its own.
LEMMA PartitionByConflicts ==
    ASSUME Before, PartitionBy, table.version >= 2
    PROVE  /\ ReassignedPartitionIds(table') => ReassignedPartitionIds(table)
           /\ \A n : ConflictBefore(table, n) => ConflictBefore(table', n)
<1>1. PICK kept \in KeptFields, source \in Columns, transform \in Transforms,
           spec \in ObjectIds \ Ids(table.specs) :
        \E id \in PartitionIds(kept, {source}, transform) :
           PartitionedBy(table', kept, source, transform, spec, id)
  BY PartitionByCommits
<1>2. PICK id \in PartitionIds(kept, {source}, transform) :
        PartitionedBy(table', kept, source, transform, spec, id)
  BY <1>1
<1>11. PartitionIdFits({source}, transform, id)
  BY PartitionIdChosen
<1> DEFINE x == NewField(id, source, transform)
           u == table'
<1>3. SpecAdded(u, kept, spec, x) /\ x.id = id /\ x.sources = {source} /\ x.transform = transform
  <2> HIDE DEF u
  <2>1. PartitionedBy(u, kept, source, transform, spec, id) /\ spec \in ObjectIds
    BY <1>2 DEF u
  <2>2. SpecAdded(u, kept, spec, NewField(id, source, transform))
    BY <2>1, PartitionedByIs
  <2> QED
    BY <2>2 DEF NewField
<1>4. u.version = table.version
  BY <1>2 DEF PartitionedBy, SameBut, ClockMembers, Members, Numbers
<1> HIDE DEF x, u
<1>5. \A field : ValidSources(u, field) <=> ValidSources(table, field)
  BY <1>4 DEF ValidSources
\* The fields of before are signed as they were.
<1>6. ASSUME NEW p \in Signed(table)
      PROVE  p \in Signed(u) /\ PartitionField(u, p) = PartitionField(table, p)
  <2>1. /\ p \in PartitionFields(table) /\ PartitionField(table, p).id # Missing
        /\ PartitionField(table, p).id > 0 /\ ValidSources(table, PartitionField(table, p))
        /\ PartitionField(table, p).transform # Missing
    BY SignedField
  <2>2. p[1] \in DOMAIN table.specs /\ p[2] \in DOMAIN table.specs[p[1]].fields /\ p = <<p[1], p[2]>>
    BY <2>1, PartitionFieldsAre
  <2>3. p[1] \in DOMAIN u.specs /\ u.specs[p[1]] = table.specs[p[1]]
    BY <1>3, <2>2 DEF SpecAdded
  <2>4. PartitionField(u, p) = PartitionField(table, p)
    BY <2>3 DEF PartitionField
  <2>5. p \in PartitionFields(u)
    BY <2>2, <2>3, PartitionFieldsAre
  <2> QED
    BY <1>5, <2>1, <2>4, <2>5, SignedField
\* Those of the new spec are like one of them, or new.
<1> DEFINE Like(r, q) == /\ PartitionField(u, r).id = PartitionField(table, q).id
                         /\ Signature(u, r) = Signature(table, q)
           New(r) == /\ PartitionField(u, r) = x
                     /\ \A q \in Signed(table) : /\ Signature(table, q) # Signature(u, r)
                                                 /\ PartitionField(table, q).id # x.id
<1>7. ASSUME NEW r \in Signed(u)
      PROVE  (\E q \in Signed(table) : Like(r, q)) \/ New(r)
  <2>1. /\ r \in PartitionFields(u) /\ PartitionField(u, r).id # Missing
        /\ PartitionField(u, r).id > 0 /\ ValidSources(u, PartitionField(u, r))
        /\ PartitionField(u, r).transform # Missing
    BY SignedField
  <2>2. r[1] \in DOMAIN u.specs /\ r[2] \in DOMAIN u.specs[r[1]].fields /\ r = <<r[1], r[2]>>
    BY <2>1, PartitionFieldsAre
  \* A field that is one of before, wherever.
  <2>3. ASSUME NEW i \in DOMAIN table.specs, NEW k \in DOMAIN table.specs[i].fields,
               PartitionField(u, r) = table.specs[i].fields[k]
        PROVE  \E q \in Signed(table) : Like(r, q)
    <3> DEFINE q == <<i, k>>
    <3>1. q \in PartitionFields(table) /\ PartitionField(table, q) = table.specs[i].fields[k]
      BY PartitionFieldsAre
    <3> HIDE DEF q
    <3>2. PartitionField(table, q) = PartitionField(u, r)
      BY <2>3, <3>1
    <3>3. q \in Signed(table)
      BY <1>5, <2>1, <3>1, <3>2, SignedField
    <3>4. Signature(u, r) = Signature(table, q)
      BY <3>2 DEF Signature
    <3> QED
      BY <3>2, <3>3, <3>4
  <2>4. CASE r[1] \in DOMAIN table.specs
    <3>1. u.specs[r[1]] = table.specs[r[1]]
      BY <1>3, <2>4 DEF SpecAdded
    <3>2. PartitionField(u, r) = table.specs[r[1]].fields[r[2]]
      BY <3>1 DEF PartitionField
    <3> QED
      BY <2>2, <2>3, <2>4, <3>1, <3>2
  <2>5. CASE r[1] \notin DOMAIN table.specs
    <3>1. r[1] = version
      BY <1>3, <2>2, <2>5 DEF SpecAdded
    <3>2. r[2] \in DOMAIN kept \/ r[2] = version
      BY <1>3, <2>2, <3>1 DEF SpecAdded
    <3>3. CASE r[2] \in DOMAIN kept
      <4>1. PartitionField(u, r) = kept[r[2]]
        BY <1>3, <3>1, <3>3 DEF SpecAdded, PartitionField
      <4>2. PICK i \in DOMAIN table.specs :
              r[2] \in DOMAIN table.specs[i].fields /\ table.specs[i].fields[r[2]] = kept[r[2]]
        BY <3>3, KeptIs
      <4> QED
        BY <2>3, <4>1, <4>2
    <3>4. CASE r[2] = version
      <4>1. PartitionField(u, r) = x
        BY <1>3, <3>1, <3>4 DEF SpecAdded, PartitionField
      <4>2. Signature(u, r) = <<{source}, transform>>
        BY <1>3, <4>1 DEF Signature
      <4>3. \/ \A q \in Signed(table) : /\ Signature(table, q) # <<{source}, transform>>
                                        /\ PartitionField(table, q).id # id
            \/ \E q \in Signed(table) : /\ Signature(table, q) = <<{source}, transform>>
                                        /\ PartitionField(table, q).id = id
        BY <1>11 DEF PartitionIdFits
      <4> QED
        BY <1>3, <4>1, <4>2, <4>3
    <3> QED
      BY <3>2, <3>3, <3>4
  <2> QED
    BY <2>4, <2>5
<1>8. ASSUME NEW r \in Signed(u), NEW s \in Signed(u), Conflict(u, r, s)
      PROVE  \E p, q \in Signed(table) : Conflict(table, p, q)
  <2>1. CASE (\E q \in Signed(table) : Like(r, q)) /\ (\E q \in Signed(table) : Like(s, q))
    <3>1. PICK p \in Signed(table) : Like(r, p)
      BY <2>1
    <3>2. PICK q \in Signed(table) : Like(s, q)
      BY <2>1
    <3> QED
      BY <1>8, <3>1, <3>2 DEF Conflict
  <2>2. CASE New(r) /\ New(s)
    <3>1. Signature(u, r) = Signature(u, s)
      BY <2>2 DEF Signature
    <3> QED
      BY <1>8, <2>2, <3>1 DEF Conflict
  <2>3. ASSUME New(r), NEW q \in Signed(table), Like(s, q)
        PROVE  FALSE
    BY <1>8, <2>3 DEF Conflict
  <2>4. ASSUME New(s), NEW q \in Signed(table), Like(r, q)
        PROVE  FALSE
    BY <1>8, <2>4 DEF Conflict
  <2> HIDE DEF Like, New
  <2> QED
    BY <1>7, <2>1, <2>2, <2>3, <2>4
<1>9. ASSUME NEW n, ConflictBefore(table, n) PROVE ConflictBefore(u, n)
  <2>1. PICK p \in Signed(table), q \in Signed(table) : p[1] < n /\ q[1] < n /\ Conflict(table, p, q)
    BY <1>9 DEF ConflictBefore
  <2>2. Conflict(u, p, q)
    BY <1>6, <2>1 DEF Conflict, Signature
  <2> QED
    BY <1>6, <2>1, <2>2 DEF ConflictBefore
<1>10. ReassignedPartitionIds(u) => ReassignedPartitionIds(table)
  BY <1>8, ReassignedIsConflict
<1> QED
  BY <1>9, <1>10 DEF u

\* Since version 2 no commit adds a conflict, and none goes away.
LEMMA ConflictsContinue ==
    ASSUME Before, Healthy, ~ToVersion2, table.version >= 2
    PROVE  /\ ReassignedPartitionIds(table') => ReassignedPartitionIds(table)
           /\ \A n : ConflictBefore(table, n) => ConflictBefore(table', n)
<1> DEFINE u == table'
<1>1. CASE ToVersion3
  <2>1. table.version = 2 /\ u.version = 3 /\ u.specs = table.specs
    BY <1>1, ToVersion3Leaves
  <2> HIDE DEF u
  <2>2. /\ PartitionFields(u) = PartitionFields(table)
        /\ \A p : PartitionField(u, p) = PartitionField(table, p)
    BY <2>1 DEF PartitionFields, PartitionField
  <2>3. ASSUME NEW p \in PartitionFields(table)
        PROVE  /\ ValidSources(table, PartitionField(table, p))
               /\ ValidSources(u, PartitionField(table, p))
    <3>1. SourceSound(table, PartitionField(table, p))
      BY FieldsBefore, PartitionFieldsAre DEF SourcesSound, PartitionField
    <3> QED
      BY <2>1, <3>1 DEF SourceSound, ValidSources
  <2>4. Signed(u) = Signed(table)
    <3>1. ASSUME NEW p PROVE p \in Signed(u) <=> p \in Signed(table)
      BY <2>2, <2>3, SignedField
    <3>2. \A t : Signed(t) \subseteq PartitionFields(t)
      BY SignedField
    <3> QED
      BY <3>1
  <2>5. /\ ReassignedPartitionIds(u) => ReassignedPartitionIds(table)
        /\ \A n : ConflictBefore(table, n) => ConflictBefore(u, n)
    BY <2>2, <2>4, SameConflicts
  <2> QED
    BY <2>5 DEF u
<1>2. CASE PartitionBy
  BY <1>2, PartitionByConflicts
<1>3. CASE ~ToVersion3 /\ ~PartitionBy
  <2>1. u.version = table.version /\ u.specs = table.specs
    BY <1>3, HealthyContinues DEF Continued
  <2> HIDE DEF u
  <2>2. Signed(u) = Signed(table) /\ \A p : PartitionField(u, p) = PartitionField(table, p)
    BY <2>1, SpecsSame
  <2>3. /\ ReassignedPartitionIds(u) => ReassignedPartitionIds(table)
        /\ \A n : ConflictBefore(table, n) => ConflictBefore(u, n)
    BY <2>2, SameConflicts
  <2> QED
    BY <2>3 DEF u
<1> QED
  BY <1>1, <1>2, <1>3

-----------------------------------------------------------------------------
(* The invariant of a history: until a writer is at fault, the document has *)
(* its shape and is sound, edited or not; and without edits there is a     *)
(* cause for what the rules report nevertheless.                           *)

\* Snapshots have row lineage if they are of version 3, added at position n or later.
Lineage(t, n) == \A i \in DOMAIN t.snapshots :
                    t.snapshots[i].row_lineage <=> t.version = 3 /\ i >= n

\* Why a sound document lacks one of the three conditions.
Explained(t, n, upgrades) ==
    /\ MainGood(t)
    /\ upgrades \in [2..3 -> 0..n]
    /\ \A v \in 2..3 : t.version < v => upgrades[v] = 0
    /\ Lineage(t, upgrades[3])
    /\ t.version >= 2 /\ ReassignedPartitionIds(t) => ConflictBefore(t, upgrades[2])

HistoryInv ==
    /\ version \in Nat \ {0} /\ edits \in Nat
    /\ fault = "none" => Shaped(table, version) /\ Sound(table)
    /\ fault = "none" /\ edits = 0 => Explained(table, version, upgraded)

\* The array with the one object of a new document.
LEMMA FirstArray ==
    ASSUME NEW x, NEW f, f = [i \in {0} |-> x]
    PROVE  DOMAIN f = {0} /\ f[0] = x
OBVIOUS

LEMMA SchemaIsNotMissing == \A f : f = [k \in {0} |-> 1] => f # Missing
<1>1. {0} \in SUBSET (0..MaxSteps)
  BY BoundsAssumption
<1>2. [k \in {0} |-> 1] \in [{0} -> Number]
  BY DEF Number
<1> QED
  BY <1>1, <1>2, ArraysAssumption

LEMMA SpecIsNotMissing == Empty # Missing
<1>1. {} \in SUBSET (0..MaxSteps)
  OBVIOUS
<1>2. Empty \in [{} -> Number]
  BY DEF Empty
<1> QED
  BY <1>1, <1>2, ArraysAssumption

LEMMA EmptyIs == DOMAIN Empty = {} /\ Ids(Empty) = {}
BY DEF Empty, Ids

\* A document without a history.
Begun(t) ==
    /\ DOMAIN t.snapshots = {} /\ DOMAIN t.log = {} /\ DOMAIN t.refs = {}
    /\ CurrentSnapshot(t) = Missing /\ PartitionFields(t) = {}

\* Each kind of new document is sound.
LEMMA NewTableSound ==
    ASSUME NEW v \in 1..3, NEW given \in BOOLEAN, NEW u,
           u = [NewTable(v) EXCEPT !.refs_given = given]
    PROVE  Shaped(u, 1) /\ Sound(u) /\ Begun(u)
<1> DEFINE fields == [k \in {0} |-> 1]
           schemas == [i \in {0} |-> [id |-> 0, fields |-> fields]]
           specs == [i \in {0} |-> [id |-> 0, fields |-> Empty]]
<1>1. /\ DOMAIN u = Members
      /\ u.version = v /\ u.location = "absolute" /\ u.uuid /\ u.uuid \in BOOLEAN
      /\ u.last_updated = 0 /\ u.last_column = 1 /\ u.last_partition = 0
      /\ u.last_sequence = (IF v = 1 THEN Missing ELSE 0)
      /\ u.next_row = (IF v = 3 THEN 0 ELSE Missing)
      /\ u.schema = (IF v = 1 THEN fields ELSE Missing)
      /\ u.spec = (IF v = 1 THEN Empty ELSE Missing)
      /\ u.schemas = schemas /\ u.specs = specs /\ u.orders = specs
      /\ u.current_schema = 0 /\ u.default_spec = 0 /\ u.default_order = 0
      /\ u.snapshots = Empty /\ u.current_snapshot = -1
      /\ u.refs = Empty /\ u.refs_given \in BOOLEAN
      /\ u.log = Empty /\ u.metadata_log = 0
  <2> DEFINE b == NewTable(v)
  <2>1. /\ DOMAIN b = Members
        /\ b.version = v /\ b.location = "absolute" /\ b.uuid /\ b.uuid \in BOOLEAN
        /\ b.last_updated = 0 /\ b.last_column = 1 /\ b.last_partition = 0
        /\ b.last_sequence = (IF v = 1 THEN Missing ELSE 0)
        /\ b.next_row = (IF v = 3 THEN 0 ELSE Missing)
        /\ b.schema = (IF v = 1 THEN fields ELSE Missing)
        /\ b.spec = (IF v = 1 THEN Empty ELSE Missing)
        /\ b.schemas = schemas /\ b.specs = specs /\ b.orders = specs
        /\ b.current_schema = 0 /\ b.default_spec = 0 /\ b.default_order = 0
        /\ b.snapshots = Empty /\ b.current_snapshot = -1
        /\ b.refs = Empty /\ b.log = Empty /\ b.metadata_log = 0
    BY DEF NewTable, Members, Numbers
  <2>2. u = [b EXCEPT !.refs_given = given]
    OBVIOUS
  <2> HIDE DEF b, fields, schemas, specs
  <2> QED
    BY <2>1, <2>2 DEF Members, Numbers
<1>2. DOMAIN fields = {0} /\ fields[0] = 1 /\ IsArray(fields, 0..0, Number)
  BY DEF IsArray, Number
<1>3. /\ DOMAIN schemas = {0} /\ schemas[0].id = 0 /\ schemas[0].fields = fields
      /\ DOMAIN specs = {0} /\ specs[0].id = 0 /\ specs[0].fields = Empty
  OBVIOUS
<1>4. IsArray(specs, 0..0, SortOrder)
  BY DEF IsArray, SortOrder, Empty
<1> HIDE DEF fields, schemas, specs
<1>5. 0 # Missing /\ -1 # Missing /\ v # Missing
  BY MissingAssumption
<1>6. DOMAIN Empty = {} /\ \A P, S : IsArray(Empty, P, S)
  BY EmptyArray DEF Empty
<1>7. Orders(u) = specs /\ specs # Missing
  <2>1. specs # Missing
    <3>1. {0} \in SUBSET (0..MaxSteps)
      BY BoundsAssumption
    <3>2. specs \in [{0} -> SortOrder]
      BY <1>3, <1>4 DEF IsArray
    <3> QED
      BY <3>1, <3>2, ArraysAssumption
  <2> QED
    BY <1>1, <2>1 DEF Orders
<1>8. Ids(schemas) = {0} /\ Ids(specs) = {0} /\ Ids(Empty) = {}
  BY <1>3, <1>5, <1>6, IdsMember
<1>9. ShapedNumbers(u)
  BY <1>1 DEF ShapedNumbers, Numbers, Number
<1>10. ShapedFields(u, 1)
  <2>1. 1 - 1 = 0
    OBVIOUS
  <2> QED
    BY <1>1, <1>2, <1>3, <1>4, <1>6, <2>1 DEF ShapedFields, FieldArrays, SingleSpec
<1>11. ShapedHistory(u, 1)
  BY <1>1, <1>6 DEF ShapedHistory
<1>12. u.version \in 1..3 /\ RequiredSound(u)
  BY <1>1, <1>3, <1>5, <1>7 DEF RequiredSound
<1>13. CurrentSnapshot(u) = Missing
  BY <1>1 DEF CurrentSnapshot
<1>14. ReferencesSound(u)
  BY <1>1, <1>6, <1>7, <1>8, <1>13 DEF ReferencesSound
<1>15. IdentifiersSound(u)
  BY <1>1, <1>3, <1>6, <1>7 DEF IdentifiersSound, Unique
<1>16. SnapshotsSound(u) /\ LogSound(u)
  BY <1>1, <1>6, <1>13 DEF SnapshotsSound, LogSound
<1>17. \A schema : schema \in Schemas(u) <=> schema = fields
  <2>1. \A schema : schema \in Schemas(u) <=> \E i \in DOMAIN u.schemas : schema = u.schemas[i].fields
    <3>1. DOMAIN u.schemas # {}
      BY <1>1, <1>3
    <3> QED
      BY <3>1, SchemasOfArray
  <2> QED
    BY <1>1, <1>3, <2>1
<1>18. SchemasSound(u)
  BY <1>1, <1>2, <1>17 DEF SchemasSound
<1>19. PartitionFields(u) = {}
  BY <1>1, <1>3, <1>6 DEF PartitionFields
<1>20. PartitionsSound(u)
  BY <1>1, <1>3, <1>6, <1>19 DEF PartitionsSound, Identified, Unique
<1>21. SourcesSound(u)
  BY <1>1, <1>3, <1>6, <1>7 DEF SourcesSound
<1>22. Begun(u)
  BY <1>1, <1>6, <1>13, <1>19 DEF Begun
<1> QED
  BY <1>1, <1>9, <1>10, <1>11, <1>12, <1>14, <1>15, <1>16, <1>18, <1>20, <1>21, <1>22
     DEF Shaped, Sound

LEMMA LegacyTableSound ==
    ASSUME NEW u, u = LegacyTable
    PROVE  Shaped(u, 1) /\ Sound(u) /\ Begun(u)
<1> DEFINE fields == [k \in {0} |-> 1]
<1>1. /\ DOMAIN u = Members
      /\ u.version = 1 /\ u.location = "absolute" /\ u.uuid \in BOOLEAN
      /\ u.last_updated = 0 /\ u.last_column = 1 /\ u.last_partition = Missing
      /\ u.last_sequence = Missing /\ u.next_row = Missing
      /\ u.schema = fields /\ u.spec = Empty
      /\ u.schemas = Empty /\ u.specs = Empty /\ u.orders = Missing
      /\ u.current_schema = Missing /\ u.default_spec = Missing /\ u.default_order = Missing
      /\ u.snapshots = Empty /\ u.current_snapshot = -1
      /\ u.refs = Empty /\ ~u.refs_given /\ u.refs_given \in BOOLEAN
      /\ u.log = Empty /\ u.metadata_log = 0
  <2> DEFINE b == NewTable(1)
  <2>1. /\ DOMAIN b = Members
        /\ b.version = 1 /\ b.location = "absolute"
        /\ b.last_updated = 0 /\ b.last_column = 1
        /\ b.last_sequence = Missing /\ b.next_row = Missing
        /\ b.schema = fields /\ b.spec = Empty
        /\ b.snapshots = Empty /\ b.current_snapshot = -1
        /\ b.refs = Empty /\ ~b.refs_given /\ b.refs_given \in BOOLEAN
        /\ b.log = Empty /\ b.metadata_log = 0
    BY DEF NewTable, Members, Numbers
  <2>2. u = [b EXCEPT !.uuid = FALSE, !.last_partition = Missing,
                      !.schemas = Empty, !.current_schema = Missing,
                      !.specs = Empty, !.default_spec = Missing,
                      !.orders = Missing, !.default_order = Missing]
    BY DEF LegacyTable
  <2> HIDE DEF b, fields
  <2> QED
    BY <2>1, <2>2 DEF Members, Numbers
<1>2. DOMAIN fields = {0} /\ fields[0] = 1 /\ IsArray(fields, 0..0, Number) /\ fields # Missing
  BY SchemaIsNotMissing DEF IsArray, Number
<1> HIDE DEF fields
<1>3. -1 # Missing
  BY MissingAssumption
<1>4. DOMAIN Empty = {} /\ \A P, S : IsArray(Empty, P, S)
  BY EmptyArray DEF Empty
<1>5. DOMAIN Orders(u) = {}
  BY <1>1 DEF Orders
<1>6. ShapedNumbers(u)
  BY <1>1 DEF ShapedNumbers, Numbers, Number
<1>7. ShapedFields(u, 1)
  <2>1. 1 - 1 = 0
    OBVIOUS
  <2> QED
    BY <1>1, <1>2, <1>4, <2>1 DEF ShapedFields, FieldArrays, SingleSpec
<1>8. ShapedHistory(u, 1)
  BY <1>1, <1>4 DEF ShapedHistory
<1>9. u.version \in 1..3 /\ RequiredSound(u)
  BY <1>1, <1>2, SpecIsNotMissing DEF RequiredSound
<1>10. CurrentSnapshot(u) = Missing
  BY <1>1 DEF CurrentSnapshot
<1>11. ReferencesSound(u)
  BY <1>1, <1>10 DEF ReferencesSound
<1>12. IdentifiersSound(u)
  BY <1>1, <1>4, <1>5 DEF IdentifiersSound, Unique
<1>13. SnapshotsSound(u) /\ LogSound(u)
  BY <1>1, <1>4, <1>10 DEF SnapshotsSound, LogSound
<1>14. \A schema : schema \in Schemas(u) <=> schema = fields
  BY <1>1, <1>2, <1>4 DEF Schemas
<1>15. SchemasSound(u)
  BY <1>1, <1>2, <1>14 DEF SchemasSound
<1>16. PartitionFields(u) = {}
  BY <1>1, <1>4 DEF PartitionFields
<1>17. PartitionsSound(u)
  BY <1>1, <1>4, <1>16 DEF PartitionsSound, Identified, Unique
<1>18. SourcesSound(u)
  BY <1>1, <1>4, <1>5 DEF SourcesSound
<1>19. Begun(u)
  BY <1>1, <1>4, <1>10, <1>16 DEF Begun
<1> QED
  BY <1>19, <1>1, <1>6, <1>7, <1>8, <1>9, <1>11, <1>12, <1>13, <1>15, <1>17, <1>18 DEF Shaped, Sound

LEMMA InitHistory == Init => HistoryInv
<1> SUFFICES ASSUME Init PROVE HistoryInv
  OBVIOUS
<1>1. Shaped(table, 1) /\ Sound(table) /\ Begun(table)
  <2>1. CASE table = LegacyTable
    BY <2>1, LegacyTableSound
  <2>2. CASE \E v \in 1..3, given \in BOOLEAN :
                table = [NewTable(v) EXCEPT !.refs_given = given]
    BY <2>2, NewTableSound
  <2> QED
    BY <2>1, <2>2 DEF Init
<1>2. version = 1 /\ edits = 0 /\ upgraded = [v \in 2..3 |-> 0]
  BY DEF Init
<1>3. Explained(table, 1, upgraded)
  <2>1. upgraded \in [2..3 -> 0..1] /\ \A v \in 2..3 : upgraded[v] = 0
    BY <1>2
  <2>2. MainGood(table) /\ Lineage(table, upgraded[3])
    BY <1>1 DEF Begun, MainGood, Lineage
  <2>3. ~ReassignedPartitionIds(table)
    BY <1>1 DEF Begun, ReassignedPartitionIds, Signed, Identified
  <2> QED
    BY <2>1, <2>2, <2>3 DEF Explained
<1> QED
  BY <1>1, <1>2, <1>3 DEF HistoryInv

\* Which writer takes a step, and what it counts.
LEMMA HealthyCommits ==
    ASSUME Healthy
    PROVE  /\ fault = "none" /\ version' = version + 1 /\ UNCHANGED <<edits, fault>>
           /\ ToVersion2 \/ ToVersion3 \/ UNCHANGED upgraded
<1>1. SUFFICES (\E t : Commit(t)) \/ ToVersion2 \/ ToVersion3
  <2>1. fault = "none"
    BY DEF Healthy
  <2>2. ASSUME NEW t, Commit(t)
        PROVE  version' = version + 1 /\ UNCHANGED <<edits, fault, upgraded>>
    BY <2>2, Zenon DEF Commit, Write
  <2>3. ASSUME NEW t, Upgrade(t)
        PROVE  version' = version + 1 /\ UNCHANGED <<edits, fault>>
    BY <2>3 DEF Upgrade, Write
  <2>4. ASSUME ToVersion2
        PROVE  version' = version + 1 /\ UNCHANGED <<edits, fault>>
    <3>1. Upgrade(Modern(table))
      BY <2>4 DEF ToVersion2
    <3> QED
      BY <2>3, <3>1
  <2>5. ASSUME ToVersion3
        PROVE  version' = version + 1 /\ UNCHANGED <<edits, fault>>
    <3>1. \E t : Upgrade(t)
      BY <2>5, Zenon DEF ToVersion3
    <3> QED
      BY <2>3, <3>1
  <2>6. ASSUME (\E t : Commit(t)) \/ ToVersion2 \/ ToVersion3
        PROVE  /\ version' = version + 1 /\ UNCHANGED <<edits, fault>>
               /\ ToVersion2 \/ ToVersion3 \/ UNCHANGED upgraded
    BY <2>2, <2>4, <2>5, <2>6
  <2> QED
    BY <2>1, <2>6
<1>2. CASE CommitToMain
  BY <1>2, Zenon DEF CommitToMain
<1>3. CASE CommitToBranch
  BY <1>3, Zenon DEF CommitToBranch
<1>4. CASE SetReference
  BY <1>4, Zenon DEF SetReference
<1>5. CASE DropReference
  BY <1>5, Zenon DEF DropReference
<1>6. CASE Rollback
  BY <1>6, Zenon DEF Rollback
<1>7. CASE Expire
  BY <1>7, Zenon DEF Expire
<1>8. CASE AddColumn
  BY <1>8, Zenon DEF AddColumn
<1>9. CASE DropColumn
  BY <1>9, Zenon DEF DropColumn
<1>10. CASE PartitionBy
  <2>1. PICK kept \in KeptFields, source \in Columns, transform \in Transforms,
             id \in ObjectIds \ Ids(table.specs) :
          \E p \in PartitionIds(kept, {source}, transform) :
             Commit([WithSpec(table, id, Push(kept, version,
                        [id |-> p, sources |-> {source}, transform |-> transform]))
                       EXCEPT !.last_partition = IF @ = Missing \/ @ >= p THEN @ ELSE p])
    BY <1>10, Zenon DEF PartitionBy, KeptFields
  <2> QED
    BY <2>1, Zenon
<1>11. CASE SortBy
  BY <1>11, Zenon DEF SortBy
<1>12. CASE LegacyColumn
  BY <1>12, Zenon DEF LegacyColumn
<1>13. CASE LegacyPartition
  BY <1>13, Zenon DEF LegacyPartition
<1> QED
  BY <1>2, <1>3, <1>4, <1>5, <1>6, <1>7, <1>8, <1>9, <1>10, <1>11, <1>12, <1>13, Zenon
     DEF Healthy

LEMMA FaultyBlunders ==
    ASSUME Faulty
    PROVE  /\ fault = "none" /\ edits = 0 /\ version' = version + 1
           /\ UNCHANGED <<edits, upgraded>> /\ fault' # "none"
<1> DEFINE Blundered ==
             version' = version + 1 /\ UNCHANGED <<edits, upgraded>> /\ fault' # "none"
<1>1. \A kind, t : Blunder(kind, t) /\ kind # "none" => Blundered
  BY DEF Blunder, Write
<1> HIDE DEF Blundered
<1>2. UnloggedRollback => Blundered
  BY <1>1, Zenon DEF UnloggedRollback
<1>3. HalfRollback => Blundered
  BY <1>1, Zenon DEF HalfRollback
<1>4. UnprunedExpiry => Blundered
  BY <1>1, Zenon DEF UnprunedExpiry
<1>5. RepeatedCommit => Blundered
  BY <1>1, Zenon DEF RepeatedCommit
<1>6. ClockSetBack => Blundered
  BY <1>1, Zenon DEF ClockSetBack
<1>7. LostSequence => Blundered
  BY <1>1, Zenon DEF LostSequence
<1>8. LostColumn => Blundered
  BY <1>1, Zenon DEF LostColumn
<1>9. LostPartition => Blundered
  BY <1>1, Zenon DEF LostPartition
<1>10. HalfUpgrade => Blundered
  BY <1>1, Zenon DEF HalfUpgrade
<1> QED
  BY <1>2, <1>3, <1>4, <1>5, <1>6, <1>7, <1>8, <1>9, <1>10, Zenon DEF Faulty, Blundered

\* An edit that the rules let pass leaves the document sound.
LEMMA EditKeepsSound ==
    ASSUME version \in Nat, Shaped(table, version), Sound(table), Edit
    PROVE  Shaped(table', version + 1) /\ Sound(table')
<1>1. Shaped(table', version + 1)
  BY EditKeepsShape
<1>2. Document(table, version) /\ Document(table', version + 1)
  BY <1>1, ShapedDocument
<1>3. Errors(table) \subseteq FalseAlarms
  BY <1>2, SoundMeansClean
<1>4. Errors(table') \subseteq FalseAlarms
  BY <1>3 DEF Edit
<1> QED
  BY <1>1, <1>2, <1>4, SoundMeansClean

\* A healthy commit leaves a cause for what is reported.
LEMMA HealthyKeepsExplained ==
    ASSUME Before, version > 0, Explained(table, version, upgraded), Healthy
    PROVE  Explained(table', version + 1, upgraded')
<1> DEFINE u == table'
           w == upgraded'
<1>1. /\ version \in Nat /\ table.version \in 1..3 /\ upgraded \in [2..3 -> 0..version]
      /\ DOMAIN table.snapshots \subseteq 0..(version - 1)
      /\ \A i \in DOMAIN table.snapshots :
           /\ table.snapshots[i] \in SnapshotObject
           /\ table.snapshots[i].row_lineage <=> table.version = 3 /\ i >= upgraded[3]
  BY SnapshotObjects DEF Before, Sound, Explained, Lineage
<1>2. \A v \in 2..3 : table.version < v => upgraded[v] = 0
  BY DEF Explained
<1>3. CASE ToVersion2
  <2>1. /\ table.version = 1 /\ u.version = 2 /\ w = [upgraded EXCEPT ![2] = version]
        /\ u.current_snapshot = table.current_snapshot
        /\ u.refs = table.refs /\ u.refs_given = table.refs_given
        /\ DOMAIN u.snapshots = DOMAIN table.snapshots
        /\ \A i \in DOMAIN table.snapshots :
             u.snapshots[i].row_lineage = table.snapshots[i].row_lineage
        /\ \A i \in DOMAIN u.specs : i \in Nat /\ i < version
    BY <1>3, ToVersion2Leaves
  <2> HIDE DEF u, w
  <2>2. w \in [2..3 -> 0..(version + 1)] /\ w[2] = version /\ w[3] = upgraded[3]
    BY <1>1, <2>1
  <2>3. MainGood(u)
    BY <2>1 DEF Explained, MainGood, MainReferenced, CurrentSnapshot
  <2>4. Lineage(u, w[3])
    BY <1>1, <2>1, <2>2 DEF Lineage
  <2>5. ReassignedPartitionIds(u) => ConflictBefore(u, w[2])
    <3>1. \A p \in Signed(u) : p[1] < version
      <4>1. \A p \in Signed(u) : p[1] \in DOMAIN u.specs
        BY DEF Signed, Identified, PartitionFields
      <4> QED
        BY <2>1, <4>1
    <3> QED
      BY <2>2, <3>1, ReassignedIsConflict DEF ConflictBefore
  <2>6. \A v \in 2..3 : u.version < v => w[v] = 0
    BY <1>2, <2>1, <2>2
  <2> QED
    BY <2>2, <2>3, <2>4, <2>5, <2>6 DEF Explained, u, w
<1>4. CASE ToVersion3
  <2>1. /\ table.version = 2 /\ u.version = 3 /\ w = [upgraded EXCEPT ![3] = version]
        /\ u.snapshots = table.snapshots /\ u.specs = table.specs
        /\ u.current_snapshot = table.current_snapshot
        /\ u.refs = table.refs /\ u.refs_given = table.refs_given
    BY <1>4, ToVersion3Leaves
  <2>2. ~ToVersion2
    BY <2>1 DEF ToVersion2
  <2>3. /\ ReassignedPartitionIds(u) => ReassignedPartitionIds(table)
        /\ \A n : ConflictBefore(table, n) => ConflictBefore(u, n)
    BY <2>1, <2>2, ConflictsContinue
  <2> HIDE DEF u, w
  <2>4. w \in [2..3 -> 0..(version + 1)] /\ w[2] = upgraded[2] /\ w[3] = version
    BY <1>1, <2>1
  <2>5. MainGood(u)
    BY <2>1 DEF Explained, MainGood, MainReferenced, CurrentSnapshot
  <2>6. Lineage(u, w[3])
    BY <1>1, <2>1, <2>4 DEF Lineage
  <2>7. ReassignedPartitionIds(u) => ConflictBefore(u, w[2])
    BY <2>1, <2>3, <2>4 DEF Explained
  <2>8. \A v \in 2..3 : u.version < v => w[v] = 0
    BY <2>1
  <2> QED
    BY <2>4, <2>5, <2>6, <2>7, <2>8 DEF Explained, u, w
<1>5. CASE ~ToVersion2 /\ ~ToVersion3
  <2>1. w = upgraded
    BY <1>5, HealthyCommits
  <2>2. Continued(u)
    BY <1>5, HealthyContinues
  <2>3. table.version >= 2 => /\ ReassignedPartitionIds(u) => ReassignedPartitionIds(table)
                              /\ \A n : ConflictBefore(table, n) => ConflictBefore(u, n)
    BY <1>5, ConflictsContinue
  <2> HIDE DEF u, w
  <2>4. w \in [2..3 -> 0..(version + 1)]
    BY <1>1, <2>1
  <2>5. u.version = table.version /\ MainGood(u)
    BY <2>2 DEF Continued, Explained
  <2>6. Lineage(u, w[3])
    <3>1. ASSUME NEW i \in DOMAIN u.snapshots
          PROVE  u.snapshots[i].row_lineage <=> u.version = 3 /\ i >= w[3]
      <4>1. CASE i \in DOMAIN table.snapshots /\ u.snapshots[i] = table.snapshots[i]
        BY <1>1, <2>1, <2>5, <4>1
      <4>2. CASE i = version /\ u.snapshots[i].row_lineage = (table.version = 3)
        <5>1. u.snapshots[i].row_lineage <=> table.version = 3
          BY <4>2, Zenon
        <5>2. i >= w[3]
          BY <1>1, <2>1, <4>2
        <5> QED
          BY <2>5, <5>1, <5>2
      <4> QED
        BY <2>2, <4>1, <4>2 DEF Continued
    <3> QED
      BY <3>1 DEF Lineage
  <2>7. u.version >= 2 /\ ReassignedPartitionIds(u) => ConflictBefore(u, w[2])
    BY <2>1, <2>3, <2>5 DEF Explained
  <2>8. \A v \in 2..3 : u.version < v => w[v] = 0
    BY <1>2, <2>1, <2>5
  <2> QED
    BY <2>4, <2>5, <2>6, <2>7, <2>8 DEF Explained, u, w
<1> QED
  BY <1>3, <1>4, <1>5

LEMMA NextHistory == HistoryInv /\ [Next]_vars => HistoryInv'
<1> SUFFICES ASSUME HistoryInv, [Next]_vars PROVE HistoryInv'
  OBVIOUS
<1>1. CASE Healthy
  <2>1. /\ fault = "none" /\ version' = version + 1 /\ UNCHANGED <<edits, fault>>
        /\ Shaped(table, version) /\ Sound(table) /\ version \in Nat /\ version > 0
    BY <1>1, HealthyCommits DEF HistoryInv
  <2>2. Shaped(table', version + 1) /\ Sound(table')
    BY <1>1, <2>1, HealthyKeepsSound
  <2>3. edits = 0 => Explained(table', version + 1, upgraded')
    BY <1>1, <2>1, HealthyKeepsExplained DEF HistoryInv, Before
  <2> QED
    BY <2>1, <2>2, <2>3 DEF HistoryInv
<1>2. CASE Faulty
  BY <1>2, FaultyBlunders DEF HistoryInv
<1>3. CASE Edit
  <2>1. fault = "none" /\ version' = version + 1 /\ edits' = edits + 1
    BY <1>3 DEF Edit
  <2>2. Shaped(table', version + 1) /\ Sound(table')
    BY <1>3, <2>1, EditKeepsSound DEF HistoryInv
  <2> QED
    BY <2>1, <2>2 DEF HistoryInv
<1>4. CASE UNCHANGED vars
  BY <1>4 DEF HistoryInv, vars
<1> QED
  BY <1>1, <1>2, <1>3, <1>4 DEF Next

\* The invariant of a history: until a writer is at fault, the document has its shape and is
\* sound, and what is reported of it without edits has a cause.
THEOREM HistoryCorrect == Spec => []HistoryInv
BY InitHistory, NextHistory, PTL DEF Spec

\* What a healthy commit adds to the errors.
LEMMA HealthyAdds ==
    ASSUME Before, version > 0, Healthy
    PROVE  Errors(table') \subseteq Errors(table) \cup NewAlarms
<1> DEFINE u == table'
<1>1. Shaped(u, version + 1) /\ Sound(u)
  BY HealthyKeepsSound DEF Before
<1>2. /\ version \in Nat /\ version + 1 \in Nat
      /\ Document(table, version) /\ Document(u, version + 1)
  BY <1>1, ShapedDocument DEF Before
<1>3. Errors(table) = UNION {{e \in {MainError} : ~MainReferenced(table)},
                             {e \in {LineageError} : ~LineageGiven(table)},
                             {e \in {ReassignedError} : ~PartitionIdsKept(table)}}
  BY <1>2, SoundMeansClean DEF Before
<1>4. Errors(u) = UNION {{e \in {MainError} : ~MainReferenced(u)},
                         {e \in {LineageError} : ~LineageGiven(u)},
                         {e \in {ReassignedError} : ~PartitionIdsKept(u)}}
  BY <1>1, <1>2, SoundMeansClean
<1>5. NewAlarms = UNION {{e \in {MainError} : CurrentSnapshot(u) = Missing},
                         {e \in {LineageError} : table.version = 2 /\ u.version = 3},
                         {e \in {ReassignedError} : table.version = 1 /\ u.version = 2}}
  BY DEF NewAlarms
<1>6. /\ MainGood(table) => MainGood(u)
      /\ LineageGiven(table) => LineageGiven(u) \/ (table.version = 2 /\ u.version = 3)
      /\ PartitionIdsKept(table) => PartitionIdsKept(u) \/ (table.version = 1 /\ u.version = 2)
  <2>1. CASE ToVersion2
    <3>1. /\ table.version = 1 /\ u.version = 2
          /\ u.current_snapshot = table.current_snapshot
          /\ u.refs = table.refs /\ u.refs_given = table.refs_given
      BY <2>1, ToVersion2Leaves
    <3> HIDE DEF u
    <3>2. LineageGiven(u)
      BY <3>1 DEF LineageGiven
    <3> QED
      BY <3>1, <3>2 DEF MainGood, MainReferenced, CurrentSnapshot
  <2>2. CASE ToVersion3
    <3>1. /\ table.version = 2 /\ u.version = 3
          /\ u.current_snapshot = table.current_snapshot
          /\ u.refs = table.refs /\ u.refs_given = table.refs_given
      BY <2>2, ToVersion3Leaves
    <3>2. ~ToVersion2
      BY <3>1 DEF ToVersion2
    <3>3. ReassignedPartitionIds(u) => ReassignedPartitionIds(table)
      BY <3>1, <3>2, ConflictsContinue
    <3> HIDE DEF u
    <3>4. PartitionIdsKept(table) => PartitionIdsKept(u)
      BY <3>1, <3>3 DEF PartitionIdsKept
    <3> QED
      BY <3>1, <3>4 DEF MainGood, MainReferenced, CurrentSnapshot
  <2>3. CASE ~ToVersion2 /\ ~ToVersion3
    <3>1. Continued(u)
      BY <2>3, HealthyContinues
    <3>2. table.version >= 2 => (ReassignedPartitionIds(u) => ReassignedPartitionIds(table))
      BY <2>3, ConflictsContinue
    <3> HIDE DEF u
    <3>3. PartitionIdsKept(table) => PartitionIdsKept(u)
      BY <3>1, <3>2 DEF PartitionIdsKept, Continued
    <3>4. LineageGiven(table) => LineageGiven(u)
      BY <3>1 DEF LineageGiven, Continued
    <3> QED
      BY <3>1, <3>3, <3>4 DEF Continued
  <2> QED
    BY <2>1, <2>2, <2>3
<1> HIDE DEF u
<1>7. ~MainReferenced(u) => ~MainReferenced(table) \/ CurrentSnapshot(u) = Missing
  BY <1>6 DEF MainGood
<1>8. Errors(u) \subseteq Errors(table) \cup NewAlarms
  BY <1>3, <1>4, <1>5, <1>6, <1>7
<1> QED
  BY <1>8 DEF u

\* A commit of a healthy writer to a document, edited or not, adds no error but a false
\* alarm, and that of a version only with the upgrade to it.
THEOREM CleanKeptCorrect == Spec => CleanKept
<1>1. HistoryInv /\ [Next]_vars
        => [\A e \in Errors(table') : e \notin Errors(table) \cup NewAlarms => ~Healthy]_vars
  <2> SUFFICES ASSUME HistoryInv, Healthy
      PROVE  Errors(table') \subseteq Errors(table) \cup NewAlarms
    OBVIOUS
  <2>1. Before /\ version > 0
    BY HealthyCommits DEF HistoryInv, Before
  <2> QED
    BY <2>1, HealthyAdds
<1> QED
  BY <1>1, HistoryCorrect, PTL DEF Spec, CleanKept

\* Of documents of healthy histories the alarms are reported and nothing else, and one with
\* more snapshots than AL107 allows has some to expire or references that keep them.
LEMMA HealthyIsClean == HistoryInv => NoFalseAlarm
<1> SUFFICES ASSUME HistoryInv, fault = "none", edits = 0
    PROVE  /\ Errors(table) = Alarms
           /\ (\E e \in Maintenance(table) : e.what = "snapshots")
                 => Expirable # {} \/ Cardinality(Kept) > MaxSnapshots
  BY DEF NoFalseAlarm
<1>1. /\ Shaped(table, version) /\ Sound(table) /\ Explained(table, version, upgraded)
      /\ version \in Nat
  BY DEF HistoryInv
<1>2. /\ Document(table, version) /\ Before /\ table.version \in 1..3
      /\ upgraded \in [2..3 -> 0..version]
      /\ \A v \in 2..3 : table.version < v => upgraded[v] = 0
  BY <1>1, ShapedDocument DEF Before, Sound, Explained
<1>3. Errors(table) = UNION {{e \in {MainError} : ~MainReferenced(table)},
                             {e \in {LineageError} : ~LineageGiven(table)},
                             {e \in {ReassignedError} : ~PartitionIdsKept(table)}}
  BY <1>1, <1>2, SoundMeansClean
<1>4. ~MainReferenced(table) <=> table.refs_given /\ CurrentSnapshot(table) = Missing
  <2>1. ASSUME table.refs_given, CurrentSnapshot(table) = Missing, MainReferenced(table)
        PROVE  FALSE
    <3>1. "main" \in DOMAIN table.refs /\ table.refs["main"] = Missing
      BY <2>1 DEF MainReferenced
    <3>2. table.refs["main"] \in Ids(table.snapshots)
      BY <1>1, <2>1, <3>1 DEF Sound, ReferencesSound
    <3> QED
      BY <3>1, <3>2 DEF Ids
  <2>2. ASSUME ~MainReferenced(table)
        PROVE  table.refs_given /\ CurrentSnapshot(table) = Missing
    BY <1>1, <2>2 DEF MainReferenced, MainGood, Explained
  <2> QED
    BY <2>1, <2>2
<1>5. ~LineageGiven(table) <=> \E i \in DOMAIN table.snapshots : i < upgraded[3]
  <2>1. /\ DOMAIN table.snapshots \subseteq 0..(version - 1)
        /\ \A i \in DOMAIN table.snapshots :
             table.snapshots[i].row_lineage <=> table.version = 3 /\ i >= upgraded[3]
    BY <1>1, <1>2, SnapshotObjects DEF Explained, Lineage
  <2> QED
    BY <1>1, <1>2, <2>1 DEF LineageGiven
<1>6. ~PartitionIdsKept(table) <=> ConflictBefore(table, upgraded[2])
  <2>1. ConflictBefore(table, upgraded[2]) => table.version >= 2
    <3> SUFFICES ASSUME table.version = 1, NEW p \in Signed(table), p[1] < upgraded[2]
        PROVE  FALSE
      BY <1>2 DEF ConflictBefore
    <3>1. p[1] \in DOMAIN table.specs
      BY DEF Signed, Identified, PartitionFields
    <3>2. DOMAIN table.specs \subseteq 0..(version - 1)
      BY <1>2, FieldsBefore DEF ShapedFields, FieldArrays
    <3> QED
      BY <1>2, <1>1, <3>1, <3>2
  <2>2. ConflictBefore(table, upgraded[2]) => ReassignedPartitionIds(table)
    BY ReassignedIsConflict DEF ConflictBefore
  <2>3. table.version >= 2 /\ ReassignedPartitionIds(table) => ConflictBefore(table, upgraded[2])
    BY <1>1 DEF Explained
  <2> QED
    BY <2>1, <2>2, <2>3 DEF PartitionIdsKept
<1>7. Alarms = UNION {{e \in {MainError} : table.refs_given /\ CurrentSnapshot(table) = Missing},
                      {e \in {LineageError} : \E i \in DOMAIN table.snapshots : i < upgraded[3]},
                      {e \in {ReassignedError} : ConflictBefore(table, upgraded[2])}}
  BY DEF Alarms, ConflictBefore, Conflict
<1>8. Errors(table) = Alarms
  BY <1>3, <1>4, <1>5, <1>6, <1>7
<1>9. ASSUME NEW e \in Maintenance(table), e.what = "snapshots", Expirable = {}
      PROVE  Cardinality(Kept) > MaxSnapshots
  <2>1. Cardinality(DOMAIN table.snapshots) > MaxSnapshots
    BY <1>9 DEF Maintenance, Report, Error
  <2>2. Kept = DOMAIN table.snapshots
    BY <1>9 DEF Kept, Expirable
  <2> QED
    BY <2>1, <2>2
<1> QED
  BY <1>8, <1>9

\* After every history of healthy writers the rules report exactly the alarms: what an upgrade
\* takes over of an earlier version, and a main branch that is yet to come.
THEOREM NoFalseAlarmCorrect == Spec => []NoFalseAlarm
BY HistoryCorrect, HealthyIsClean, PTL

-----------------------------------------------------------------------------
(* What the log of a sound document tells.                                 *)

LEMMA AsOfMember ==
    ASSUME NEW t, NEW moment, NEW id
    PROVE  id \in AsOf(t, moment)
             <=> \E i \in DOMAIN t.log :
                    /\ t.log[i].timestamp <= moment /\ t.log[i].snapshot = id
                    /\ \A j \in DOMAIN t.log : t.log[j].timestamp <= moment
                                                 => t.log[j].timestamp <= t.log[i].timestamp
BY DEF AsOf

\* At most one entry of the log is the last before a moment, and its snapshot is there.
LEMMA AsOfOne ==
    ASSUME NEW n \in Nat, NEW t, Document(t, n), LogSound(t), NEW moment
    PROVE  /\ \A id, other \in AsOf(t, moment) : id = other
           /\ \A id \in AsOf(t, moment) : id \in Ids(t.snapshots)
<1>1. \A i \in DOMAIN t.log : i \in Int
  BY DEF Document, ShapedHistory, IsArray
<1>2. ASSUME NEW id \in AsOf(t, moment), NEW other \in AsOf(t, moment)
      PROVE  id = other
  <2>1. PICK i \in DOMAIN t.log :
          /\ t.log[i].timestamp <= moment /\ t.log[i].snapshot = id
          /\ \A j \in DOMAIN t.log : t.log[j].timestamp <= moment
                                       => t.log[j].timestamp <= t.log[i].timestamp
    BY AsOfMember
  <2>2. PICK k \in DOMAIN t.log :
          /\ t.log[k].timestamp <= moment /\ t.log[k].snapshot = other
          /\ \A j \in DOMAIN t.log : t.log[j].timestamp <= moment
                                       => t.log[j].timestamp <= t.log[k].timestamp
    BY AsOfMember
  <2>3. t.log[i].timestamp <= t.log[k].timestamp /\ t.log[k].timestamp <= t.log[i].timestamp
    BY <2>1, <2>2
  <2>4. t.log[i].timestamp \in Int /\ t.log[k].timestamp \in Int
    BY DEF LogSound
  <2>5. ~(i < k) /\ ~(k < i)
    BY <2>3, <2>4 DEF LogSound
  <2>6. i = k
    BY <1>1, <2>5
  <2> QED
    BY <2>1, <2>2, <2>6
<1>3. ASSUME NEW id \in AsOf(t, moment) PROVE id \in Ids(t.snapshots)
  BY AsOfMember DEF LogSound
<1> QED
  BY <1>2, <1>3

\* For now it is the last entry.
LEMMA AsOfNow ==
    ASSUME NEW n \in Nat, NEW t, Document(t, n), LogSound(t),
           CurrentSnapshot(t) # Missing, DOMAIN t.log # {}
    PROVE  CurrentSnapshot(t) \in AsOf(t, t.last_updated)
<1>1. DOMAIN t.log \subseteq 0..n
  BY DEF Document, ShapedHistory, IsArray
<1>2. PICK last \in DOMAIN t.log : \A j \in DOMAIN t.log : j <= last
  BY <1>1, GreatestElement
<1>3. t.log[last].snapshot = CurrentSnapshot(t)
  BY <1>2 DEF LogSound, LastEntry
<1>4. ASSUME NEW j \in DOMAIN t.log PROVE t.log[j].timestamp <= t.log[last].timestamp
  <2>1. j = last \/ j < last
    BY <1>1, <1>2
  <2>2. t.log[j].timestamp \in Int /\ t.log[last].timestamp \in Int
    BY DEF LogSound
  <2> QED
    BY <2>1, <2>2 DEF LogSound
<1>5. t.log[last].timestamp <= t.last_updated
  BY DEF LogSound
<1> QED
  BY <1>3, <1>4, <1>5, AsOfMember

\* The snapshot log of a document without errors tells for each moment at most one
\* snapshot, which is there once, and for now the current one: AL103 to AL105 are enough
\* for time travel, on any document, edited or not.
THEOREM CleanTravels ==
    ASSUME NEW n \in Nat, Document(table, n)
    PROVE  TimeTravel
<1> SUFFICES ASSUME Sound(table)
    PROVE  /\ \A moment \in 0..table.last_updated :
                /\ Cardinality(AsOf(table, moment)) <= 1
                /\ \A id \in AsOf(table, moment) :
                     Cardinality({i \in DOMAIN table.snapshots : table.snapshots[i].id = id}) = 1
           /\ CurrentSnapshot(table) # Missing /\ DOMAIN table.log # {}
                => AsOf(table, table.last_updated) = {CurrentSnapshot(table)}
  BY SoundMeansClean DEF TimeTravel
<1>1. LogSound(table) /\ Unique(table.snapshots)
  BY DEF Sound, IdentifiersSound
<1>2. ASSUME NEW moment \in 0..table.last_updated
      PROVE  Cardinality(AsOf(table, moment)) <= 1
  <2> DEFINE ids == AsOf(table, moment)
  <2>1. \A id, other \in ids : id = other
    BY <1>1, AsOfOne
  <2> HIDE DEF ids
  <2>2. ASSUME NEW id \in ids PROVE ids = {id}
    BY <2>1
  <2>3. Cardinality(ids) <= 1
    <3>1. CASE ids = {}
      BY <3>1, FS_EmptySet
    <3>2. CASE ids # {}
      <4>1. PICK id : ids = {id}
        BY <2>2, <3>2
      <4>2. Cardinality(ids) = 1
        BY <4>1, FS_Singleton
      <4> QED
        BY <4>2
    <3> QED
      BY <3>1, <3>2
  <2> QED
    BY <2>3 DEF ids
<1>3. ASSUME NEW moment \in 0..table.last_updated, NEW id \in AsOf(table, moment)
      PROVE  Cardinality({i \in DOMAIN table.snapshots : table.snapshots[i].id = id}) = 1
  <2>1. id # Missing /\ \E i \in DOMAIN table.snapshots : table.snapshots[i].id = id
    BY <1>1, AsOfOne, IdsMember
  <2>2. PICK i \in DOMAIN table.snapshots : table.snapshots[i].id = id
    BY <2>1
  <2>3. {j \in DOMAIN table.snapshots : table.snapshots[j].id = id} = {i}
    BY <1>1, <2>1, <2>2 DEF Unique
  <2> QED
    BY <2>3, FS_Singleton
<1>4. ASSUME CurrentSnapshot(table) # Missing, DOMAIN table.log # {}
      PROVE  AsOf(table, table.last_updated) = {CurrentSnapshot(table)}
  <2>1. CurrentSnapshot(table) \in AsOf(table, table.last_updated)
    BY <1>1, <1>4, AsOfNow
  <2>2. \A id, other \in AsOf(table, table.last_updated) : id = other
    BY <1>1, AsOfOne
  <2> QED
    BY <2>1, <2>2
<1> QED
  BY <1>2, <1>3, <1>4

-----------------------------------------------------------------------------
(* Faulty writers.  That a rule reports them rests on more than soundness:  *)
(* on what a history without edits leaves in the document.                  *)

Grounded(t) ==
    /\ t.version = 1 => t.last_sequence = Missing
    /\ t.version # 3 => t.next_row = Missing
    /\ DOMAIN t.snapshots # {} => t.refs_given
    /\ CurrentSnapshot(t) # Missing => t.refs_given /\ DOMAIN t.log # {}
    /\ CurrentSnapshot(t) = Missing => "main" \notin DOMAIN t.refs

LEMMA InitGrounded == Init => Grounded(table)
<1> SUFFICES ASSUME Init PROVE Grounded(table)
  OBVIOUS
<1>1. ASSUME NEW v \in 1..3, NEW given \in BOOLEAN,
             table = [NewTable(v) EXCEPT !.refs_given = given]
      PROVE  Grounded(table)
  <2>1. Begun(table)
    BY <1>1, NewTableSound
  <2>2. /\ table.version = v
        /\ table.last_sequence = (IF v = 1 THEN Missing ELSE 0)
        /\ table.next_row = (IF v = 3 THEN 0 ELSE Missing)
    BY <1>1 DEF NewTable
  <2> QED
    BY <2>1, <2>2 DEF Begun, Grounded
<1>2. ASSUME table = LegacyTable PROVE Grounded(table)
  <2>1. Begun(table)
    BY <1>2, LegacyTableSound
  <2>2. table.version = 1 /\ table.last_sequence = Missing /\ table.next_row = Missing
    BY <1>2 DEF LegacyTable, NewTable
  <2> QED
    BY <2>1, <2>2 DEF Begun, Grounded
<1> QED
  BY <1>1, <1>2 DEF Init

\* A document of the same history is grounded, too.
LEMMA SameGrounded ==
    ASSUME NEW t, Grounded(t), NEW u,
           u.version = t.version, u.last_sequence = t.last_sequence, u.next_row = t.next_row,
           DOMAIN u.snapshots = DOMAIN t.snapshots, u.current_snapshot = t.current_snapshot,
           u.refs = t.refs, u.refs_given = t.refs_given, u.log = t.log
    PROVE  Grounded(u)
BY DEF Grounded, CurrentSnapshot

\* A commit grounds the document if what it commits is grounded.
LEMMA CommitGrounded ==
    ASSUME NEW c, DOMAIN c = Members, Grounded(c), Commit(c)
    PROVE  Grounded(table')
<1> DEFINE u == table'
<1>1. Committed(c, u)
  BY WriteCommits DEF Commit
<1> HIDE DEF u
<1>2. /\ u.version = c.version /\ u.last_sequence = c.last_sequence /\ u.next_row = c.next_row
      /\ u.snapshots = c.snapshots /\ u.current_snapshot = c.current_snapshot
      /\ u.refs = c.refs /\ u.refs_given = c.refs_given /\ u.log = c.log
  BY <1>1, CommittedMembers
<1>3. Grounded(u)
  BY <1>2, SameGrounded
<1> QED
  BY <1>3 DEF u

\* The counters with a new snapshot.
CountersGrounded(t) ==
    (t.version = 1 => t.last_sequence = Missing) /\ (t.version # 3 => t.next_row = Missing)

LEMMA WithSnapshotGrounded ==
    ASSUME DOMAIN table = Members, Grounded(table), NEW id,
           NEW t, t = WithSnapshot(table, id)
    PROVE  /\ DOMAIN t = Members /\ CountersGrounded(t)
           /\ CurrentSnapshot(t) = CurrentSnapshot(table)
           /\ t.refs = table.refs /\ t.log = table.log
<1>1. /\ DOMAIN t = Members /\ SameBut(table, t, SnapshotMembers)
      /\ t.snapshots = Push(table.snapshots, version, NewSnapshot(table, id))
      /\ t.last_sequence = IF table.version = 1 THEN table.last_sequence
                                                ELSE table.last_sequence + 1
      /\ t.next_row = IF table.version = 3 THEN table.next_row + 1 ELSE table.next_row
  BY WithSnapshotMembers
<1>2. /\ t.version = table.version /\ t.current_snapshot = table.current_snapshot
      /\ t.refs = table.refs /\ t.log = table.log
  BY <1>1 DEF SameBut, SnapshotMembers, Members, Numbers
<1> QED
  BY <1>1, <1>2 DEF Grounded, CountersGrounded, CurrentSnapshot

\* The current snapshot goes to the references and the log.
LEMMA WithCurrentGrounded ==
    ASSUME version \in Nat, NEW t, DOMAIN t = Members, CountersGrounded(t),
           NEW id, id \in Nat \ {0},
           NEW c, c = WithCurrent(t, id)
    PROVE  DOMAIN c = Members /\ Grounded(c)
<1>1. /\ DOMAIN c = Members /\ SameBut(t, c, CurrentMembers)
      /\ \A n : n \in DOMAIN c.refs <=> n \in DOMAIN t.refs \/ n = "main"
      /\ \A n \in DOMAIN c.refs : c.refs[n] = IF n = "main" THEN id ELSE t.refs[n]
      /\ IsFunction(c.refs)
      /\ c.refs_given /\ c.refs_given \in BOOLEAN
      /\ c.current_snapshot = id
      /\ c.log = Push(t.log, version, [timestamp |-> Now(t), snapshot |-> id])
  BY WithCurrentMembers
<1>2. c.version = t.version /\ c.last_sequence = t.last_sequence /\ c.next_row = t.next_row
  BY <1>1 DEF SameBut, CurrentMembers, ReferenceMembers, Members, Numbers
<1>3. version \in DOMAIN c.log
  BY <1>1 DEF Push
<1>4. CurrentSnapshot(c) = id /\ id # Missing
  BY <1>1, MissingAssumption DEF CurrentSnapshot
<1> QED
  BY <1>1, <1>2, <1>3, <1>4 DEF Grounded, CountersGrounded

\* A reference to another than the main branch.
LEMMA WithReferenceGrounded ==
    ASSUME NEW t, DOMAIN t = Members, NEW name \in Branches, NEW id, CountersGrounded(t),
           CurrentSnapshot(t) # Missing => DOMAIN t.log # {},
           CurrentSnapshot(t) = Missing => "main" \notin DOMAIN t.refs,
           NEW c, c = WithReference(t, name, id)
    PROVE  DOMAIN c = Members /\ Grounded(c)
<1>1. /\ DOMAIN c = Members /\ SameBut(t, c, ReferenceMembers)
      /\ \A n : n \in DOMAIN c.refs
                <=> \/ n \in DOMAIN t.refs \/ n = name
                    \/ n = "main" /\ CurrentSnapshot(t) # Missing
      /\ \A n \in DOMAIN c.refs :
           c.refs[n] = IF n = name THEN id ELSE IF n \in DOMAIN t.refs THEN t.refs[n]
                                                ELSE t.current_snapshot
      /\ IsFunction(c.refs)
      /\ c.refs_given /\ c.refs_given \in BOOLEAN
  BY WithReferenceMembers
<1>2. /\ c.version = t.version /\ c.last_sequence = t.last_sequence /\ c.next_row = t.next_row
      /\ c.current_snapshot = t.current_snapshot /\ c.log = t.log
  BY <1>1 DEF SameBut, ReferenceMembers, Members, Numbers
<1>3. name # "main"
  BY BranchesAssumption
<1>4. CurrentSnapshot(c) = CurrentSnapshot(t)
  BY <1>2 DEF CurrentSnapshot
<1> QED
  BY <1>1, <1>2, <1>3, <1>4 DEF Grounded, CountersGrounded

\* The last entry of the log is that of the current snapshot, which expiry keeps.
LEMMA ExpireGrounded ==
    ASSUME Before, Grounded(table), Expire
    PROVE  Grounded(table')
<1>1. PICK gone \in SUBSET Expirable : Commit(Pruned(Expired(table, gone)))
  BY DEF Expire
<1> DEFINE t == Expired(table, gone)
           c == Pruned(t)
<1>2. /\ DOMAIN t = Members /\ SameBut(table, t, {"snapshots"})
      /\ t.snapshots = Without(table.snapshots, gone)
  BY BeforeNumbers DEF Expired, SameBut, Members, Numbers
<1> HIDE DEF t
<1>3. /\ DOMAIN c = Members
      /\ SameBut(t, c, {"log"})
      /\ c.log = Without(t.log, {i \in DOMAIN t.log : \E j \in DOMAIN t.log :
                                   i <= j /\ t.log[j].snapshot \notin Ids(t.snapshots)})
  BY <1>2 DEF Pruned, SameBut, Members, Numbers
<1>4. /\ t.version = table.version /\ t.last_sequence = table.last_sequence
      /\ t.next_row = table.next_row /\ t.current_snapshot = table.current_snapshot
      /\ t.refs = table.refs /\ t.refs_given = table.refs_given /\ t.log = table.log
  BY <1>2 DEF SameBut, Members, Numbers
<1>5. Commit(c)
  BY <1>1 DEF t
<1> HIDE DEF c
<1>6. /\ c.version = t.version /\ c.last_sequence = t.last_sequence
      /\ c.next_row = t.next_row /\ c.current_snapshot = t.current_snapshot
      /\ c.refs = t.refs /\ c.refs_given = t.refs_given /\ c.snapshots = t.snapshots
  BY <1>3 DEF SameBut, Members, Numbers
<1>7. CurrentSnapshot(c) = CurrentSnapshot(table) /\ CurrentSnapshot(t) = CurrentSnapshot(table)
  BY <1>4, <1>6 DEF CurrentSnapshot
<1>8. ASSUME CurrentSnapshot(table) # Missing PROVE DOMAIN c.log # {}
  <2>1. LogSound(table) /\ CurrentSnapshot(table) \in Ids(table.snapshots) /\ version \in Nat
    BY <1>8 DEF Before, Sound, ReferencesSound
  <2>2. DOMAIN table.log # {} /\ DOMAIN table.log \subseteq 0..(version - 1)
    BY <1>8 DEF Grounded, Before, Shaped, ShapedHistory, IsArray
  <2>3. DOMAIN table.log \subseteq 0..version
    BY <2>1, <2>2
  <2>4. PICK last \in DOMAIN table.log : \A j \in DOMAIN table.log : j <= last
    BY <2>1, <2>2, <2>3, GreatestElement
  <2>5. table.log[last].snapshot = CurrentSnapshot(table)
    BY <1>8, <2>1, <2>4 DEF LogSound, LastEntry
  <2>6. CurrentSnapshot(table) \in Ids(t.snapshots)
    <3>1. PICK i \in DOMAIN table.snapshots : table.snapshots[i].id = CurrentSnapshot(table)
      BY <2>1, IdsMember
    <3>2. CurrentSnapshot(table) \in Retained(table)
      BY <1>8 DEF CurrentSnapshot, Retained
    <3>3. i \notin gone
      BY <3>1, <3>2 DEF Expirable
    <3>4. i \in DOMAIN t.snapshots /\ t.snapshots[i] = table.snapshots[i]
      BY <1>2, <3>3 DEF Without
    <3> QED
      BY <1>8, <3>1, <3>4, IdsMember
  <2>7. \A j \in DOMAIN t.log : last <= j => t.log[j].snapshot \in Ids(t.snapshots)
    <3>1. ASSUME NEW j \in DOMAIN table.log, last <= j PROVE j = last
      BY <2>1, <2>2, <2>4, <3>1
    <3> QED
      BY <1>4, <2>5, <2>6, <3>1
  <2>8. last \in DOMAIN c.log
    BY <1>3, <1>4, <2>4, <2>7 DEF Without
  <2> QED
    BY <2>8
<1>9. DOMAIN t.snapshots # {} => DOMAIN table.snapshots # {}
  BY <1>2 DEF Without
<1>10. Grounded(c)
  BY <1>4, <1>6, <1>7, <1>8, <1>9 DEF Grounded
<1> QED
  BY <1>3, <1>5, <1>10, CommitGrounded

LEMMA HealthyKeepsGrounded ==
    ASSUME Before, Grounded(table), Healthy
    PROVE  Grounded(table')
<1> DEFINE u == table'
<1>1. DOMAIN table = Members /\ version \in Nat /\ CountersGrounded(table)
  BY BeforeNumbers DEF Before, Grounded, CountersGrounded
<1>2. CASE CommitToMain
  <2>1. PICK id \in NewSnapshotIds : Commit(WithCurrent(WithSnapshot(table, id), id))
    BY <1>2 DEF CommitToMain
  <2> DEFINE t == WithSnapshot(table, id)
             c == WithCurrent(t, id)
  <2>2. id \in Nat \ {0}
    BY IdsAssumption DEF NewSnapshotIds
  <2>3. /\ DOMAIN t = Members /\ CountersGrounded(t)
        /\ CurrentSnapshot(t) = CurrentSnapshot(table)
        /\ t.refs = table.refs /\ t.log = table.log
    BY <1>1, WithSnapshotGrounded
  <2>4. Commit(c)
    BY <2>1
  <2> HIDE DEF t
  <2>5. DOMAIN c = Members /\ Grounded(c)
    BY <1>1, <2>2, <2>3, WithCurrentGrounded
  <2> QED
    BY <2>4, <2>5, CommitGrounded
<1>3. CASE CommitToBranch
  <2>1. PICK b \in Branches, id \in NewSnapshotIds :
           Commit(WithReference(WithSnapshot(table, id), b, id))
    BY <1>3 DEF CommitToBranch
  <2> DEFINE t == WithSnapshot(table, id)
             c == WithReference(t, b, id)
  <2>2. /\ CurrentSnapshot(table) # Missing => DOMAIN table.log # {}
        /\ CurrentSnapshot(table) = Missing => "main" \notin DOMAIN table.refs
    BY DEF Grounded
  <2>3. /\ DOMAIN t = Members /\ CountersGrounded(t)
        /\ CurrentSnapshot(t) = CurrentSnapshot(table)
        /\ t.refs = table.refs /\ t.log = table.log
    BY <1>1, WithSnapshotGrounded
  <2>4. Commit(c)
    BY <2>1
  <2> HIDE DEF t
  <2>5. DOMAIN c = Members /\ Grounded(c)
    BY <2>2, <2>3, WithReferenceGrounded
  <2> QED
    BY <2>4, <2>5, CommitGrounded
<1>4. CASE SetReference
  <2>1. PICK b \in Branches, id \in Ids(table.snapshots) : Commit(WithReference(table, b, id))
    BY <1>4 DEF SetReference
  <2>2. /\ CurrentSnapshot(table) # Missing => DOMAIN table.log # {}
        /\ CurrentSnapshot(table) = Missing => "main" \notin DOMAIN table.refs
    BY DEF Grounded
  <2>3. /\ DOMAIN WithReference(table, b, id) = Members
        /\ Grounded(WithReference(table, b, id))
    BY <1>1, <2>2, WithReferenceGrounded
  <2> QED
    BY <2>1, <2>3, CommitGrounded
<1>5. CASE DropReference
  <2>1. PICK b \in Branches : Commit([table EXCEPT !.refs = Without(@, {b})])
    BY <1>5 DEF DropReference
  <2> DEFINE c == [table EXCEPT !.refs = Without(@, {b})]
  <2>2. /\ DOMAIN c = Members /\ c.version = table.version /\ c.last_sequence = table.last_sequence
        /\ c.next_row = table.next_row /\ c.snapshots = table.snapshots
        /\ c.current_snapshot = table.current_snapshot
        /\ c.refs = Without(table.refs, {b})
        /\ c.refs_given = table.refs_given /\ c.log = table.log
    BY <1>1 DEF Members, Numbers
  <2> HIDE DEF c
  <2>3. DOMAIN c.refs \subseteq DOMAIN table.refs
    BY <2>2 DEF Without
  <2>4. Grounded(c)
    BY <2>2, <2>3 DEF Grounded, CurrentSnapshot
  <2> QED
    BY <2>1, <2>2, <2>4, CommitGrounded DEF c
<1>6. CASE Rollback
  <2>1. PICK id \in Ids(table.snapshots) : Commit(WithCurrent(table, id))
    BY <1>6 DEF Rollback
  <2>2. id \in Nat \ {0}
    BY IdsAreNumbers DEF Before
  <2>3. DOMAIN WithCurrent(table, id) = Members /\ Grounded(WithCurrent(table, id))
    BY <1>1, <2>2, WithCurrentGrounded
  <2> QED
    BY <2>1, <2>3, CommitGrounded
<1>7. CASE Expire
  BY <1>7, ExpireGrounded
<1>8. CASE \/ AddColumn \/ DropColumn \/ PartitionBy \/ SortBy \/ LegacyColumn \/ LegacyPartition
  <2>1. SameBut(table, u, FieldMembers \cup ClockMembers)
    BY <1>8, FieldWritersKeep
  <2> HIDE DEF u
  <2>2. /\ u.version = table.version /\ u.last_sequence = table.last_sequence
        /\ u.next_row = table.next_row /\ u.snapshots = table.snapshots
        /\ u.current_snapshot = table.current_snapshot
        /\ u.refs = table.refs /\ u.refs_given = table.refs_given /\ u.log = table.log
    BY <2>1 DEF SameBut, FieldMembers, ClockMembers, Members, Numbers
  <2> QED
    BY <2>2, SameGrounded DEF u
<1>9. CASE ToVersion2
  <2>1. /\ table.version = 1 /\ u.version = 2 /\ u.next_row = table.next_row
        /\ u.current_snapshot = table.current_snapshot
        /\ u.refs = table.refs /\ u.refs_given = table.refs_given
        /\ u.log = table.log /\ DOMAIN u.snapshots = DOMAIN table.snapshots
    BY <1>9, ToVersion2Leaves
  <2> HIDE DEF u
  <2> QED
    BY <2>1 DEF Grounded, CurrentSnapshot, u
<1>10. CASE ToVersion3
  <2>1. /\ table.version = 2 /\ u.version = 3 /\ u.snapshots = table.snapshots
        /\ u.current_snapshot = table.current_snapshot
        /\ u.refs = table.refs /\ u.refs_given = table.refs_given /\ u.log = table.log
    BY <1>10, ToVersion3Leaves
  <2> HIDE DEF u
  <2> QED
    BY <2>1 DEF Grounded, CurrentSnapshot, u
<1> QED
  BY <1>2, <1>3, <1>4, <1>5, <1>6, <1>7, <1>8, <1>9, <1>10, Zenon DEF Healthy

\* A rule's errors are among those of the document.
LEMMA ErrorsOfRules ==
    ASSUME NEW t
    PROVE  /\ t.version \in 1..3 => /\ RequiredMetadata(t) \subseteq Errors(t)
                                    /\ SnapshotLog(t) \subseteq Errors(t)
                                    /\ \A i \in DOMAIN t.snapshots :
                                         SnapshotErrors(t, t.snapshots[i]) \subseteq Errors(t)
           /\ SnapshotReferences(t) \subseteq Errors(t)
           /\ Identifiers(t) \subseteq Errors(t)
           /\ PartitionErrors(t) \subseteq Errors(t)
           /\ Report("AL106", "last-column-id", AboveMark(AllFieldIds(t), t.last_column))
                \subseteq Errors(t)
<1>1. Identifiers(t) \subseteq Errors(t)
  BY DEF Errors
<1>2. SnapshotReferences(t) \subseteq Errors(t)
  BY DEF Errors, References
<1>3. PartitionErrors(t) \subseteq Errors(t)
  BY DEF Errors, FieldIds
<1>4. Report("AL106", "last-column-id", AboveMark(AllFieldIds(t), t.last_column)) \subseteq Errors(t)
  BY DEF Errors, FieldIds
<1>5. t.version \in 1..3 => RequiredMetadata(t) \subseteq Errors(t) /\ Snapshots(t) \subseteq Errors(t)
  BY DEF Errors
<1>6. /\ SnapshotLog(t) \subseteq Snapshots(t)
      /\ \A i \in DOMAIN t.snapshots : SnapshotErrors(t, t.snapshots[i]) \subseteq Snapshots(t)
  BY DEF Snapshots
<1> QED
  BY <1>1, <1>2, <1>3, <1>4, <1>5, <1>6

\* What a faulty writer finds: the last entry of the log is that of the current snapshot.
LEMMA LastLogged ==
    ASSUME Before, Grounded(table), CurrentSnapshot(table) # Missing
    PROVE  /\ CurrentSnapshot(table) = table.current_snapshot
           /\ \E last \in LastEntry(table.log) : table.log[last].snapshot = table.current_snapshot
<1>1. DOMAIN table.log # {}
  BY DEF Grounded
<1>2. CurrentSnapshot(table) = table.current_snapshot
  BY DEF CurrentSnapshot
<1>3. version \in Nat /\ DOMAIN table.log \subseteq 0..version
  BY DEF Before, Shaped, ShapedHistory, IsArray
<1>4. \E last \in DOMAIN table.log : \A j \in DOMAIN table.log : j <= last
  BY <1>1, <1>3, GreatestElement
<1>5. PICK last \in DOMAIN table.log : last \in LastEntry(table.log)
  BY <1>4 DEF LastEntry
<1>6. table.log[last].snapshot = CurrentSnapshot(table)
  BY <1>5 DEF Before, Sound, LogSound
<1> QED
  BY <1>2, <1>5, <1>6

LEMMA BlunderCommits ==
    ASSUME NEW kind, NEW c, DOMAIN c = Members, Blunder(kind, c)
    PROVE  Committed(c, table') /\ fault' = kind
BY WriteCommits DEF Blunder

LEMMA UnloggedRollbackReported ==
    ASSUME Before, Grounded(table), UnloggedRollback
    PROVE  fault' = "unlogged-rollback" /\ Error("AL105", "log-end") \in Errors(table')
<1>1. PICK id \in Elsewhere : Blunder("unlogged-rollback",
               [WithReference(table, "main", id) EXCEPT !.current_snapshot = id])
  BY Zenon DEF UnloggedRollback
<1> DEFINE r == WithReference(table, "main", id)
           c == [r EXCEPT !.current_snapshot = id]
           u == table'
<1>2. DOMAIN r = Members /\ SameBut(table, r, ReferenceMembers)
  BY BeforeNumbers, WithReferenceMembers
<1> HIDE DEF r
<1>3. /\ DOMAIN c = Members /\ c.version = table.version /\ c.log = table.log
      /\ c.current_snapshot = id
  BY <1>2 DEF SameBut, ReferenceMembers, Members, Numbers
<1>4. Blunder("unlogged-rollback", c)
  BY <1>1, Zenon DEF r
<1> HIDE DEF c
<1>5. Committed(c, u)
  BY <1>3, <1>4, BlunderCommits, Zenon
<1>6. fault' = "unlogged-rollback"
  BY <1>3, <1>4, BlunderCommits, Zenon
<1> HIDE DEF u
<1>7. u.version = table.version /\ u.log = table.log /\ u.current_snapshot = id
  BY <1>3, <1>5, CommittedMembers
<1>8. id \in Ids(table.snapshots) /\ id # table.current_snapshot
  BY DEF Elsewhere
<1>9. CurrentSnapshot(u) = id /\ id # Missing
  BY <1>7, <1>8, IdsAreNumbers DEF CurrentSnapshot, Before
<1>10. PICK last \in LastEntry(table.log) : table.log[last].snapshot = table.current_snapshot
  <2>1. CurrentSnapshot(table) # Missing
    BY Zenon DEF UnloggedRollback
  <2> QED
    BY <2>1, LastLogged
<1>11. CurrentSnapshot(u) # Missing /\ \E i \in LastEntry(u.log) : u.log[i].snapshot # CurrentSnapshot(u)
  BY <1>7, <1>8, <1>9, <1>10
<1>12. Error("AL105", "log-end") \in SnapshotLog(u)
  BY <1>11, Zenon DEF SnapshotLog, Report
<1>13. Error("AL105", "log-end") \in Errors(u)
  BY <1>7, <1>12, ErrorsOfRules, BeforeNumbers
<1> QED
  BY <1>6, <1>13, Zenon DEF u

LEMMA HalfRollbackReported ==
    ASSUME Before, Grounded(table), MainGood(table), HalfRollback
    PROVE  fault' = "half-rollback" /\ Error("AL103", "main") \in Errors(table')
<1>1. PICK id \in Elsewhere : Blunder("half-rollback", [table EXCEPT !.current_snapshot = id])
  BY Zenon DEF HalfRollback
<1> DEFINE c == [table EXCEPT !.current_snapshot = id]
           u == table'
<1>2. /\ DOMAIN c = Members /\ c.refs = table.refs /\ c.refs_given = table.refs_given
      /\ c.current_snapshot = id
  BY BeforeNumbers DEF Members, Numbers
<1> HIDE DEF c
<1>3. Committed(c, u)
  BY <1>1, <1>2, BlunderCommits, Zenon DEF c
<1>4. fault' = "half-rollback"
  BY <1>1, <1>2, BlunderCommits, Zenon DEF c
<1> HIDE DEF u
<1>5. u.refs = table.refs /\ u.refs_given = table.refs_given /\ u.current_snapshot = id
  BY <1>2, <1>3, CommittedMembers
<1>6. id \in Ids(table.snapshots) /\ id # table.current_snapshot
  BY DEF Elsewhere
<1>7. CurrentSnapshot(u) = id
  BY <1>5, <1>6, IdsAreNumbers DEF CurrentSnapshot, Before
<1>8. table.refs_given
  <2>1. DOMAIN table.snapshots # {}
    BY <1>6, IdsMember
  <2> QED
    BY <2>1 DEF Grounded
<1>9. "main" \in DOMAIN table.refs => table.refs["main"] = table.current_snapshot
  BY <1>8 DEF Grounded, MainGood, MainReferenced, CurrentSnapshot
<1>10. u.refs_given /\ ("main" \in DOMAIN u.refs => u.refs["main"] # CurrentSnapshot(u))
  BY <1>5, <1>6, <1>7, <1>8, <1>9
<1>11. Error("AL103", "main") \in SnapshotReferences(u)
  BY <1>10 DEF SnapshotReferences, Report
<1>12. Error("AL103", "main") \in Errors(u)
  BY <1>11, ErrorsOfRules
<1> QED
  BY <1>4, <1>12, Zenon DEF u

LEMMA UnprunedExpiryReported ==
    ASSUME Before, UnprunedExpiry
    PROVE  fault' = "unpruned-expiry" /\ Error("AL105", "log-snapshot") \in Errors(table')
<1>1. PICK i \in Expirable :
       /\ \E j \in DOMAIN table.log : table.log[j].snapshot = table.snapshots[i].id
       /\ Blunder("unpruned-expiry", Expired(table, {i}))
  BY Zenon DEF UnprunedExpiry
<1>2. PICK j \in DOMAIN table.log : table.log[j].snapshot = table.snapshots[i].id
  BY <1>1, Zenon
<1> DEFINE c == Expired(table, {i})
           u == table'
<1>3. /\ DOMAIN c = Members /\ c.version = table.version /\ c.log = table.log
      /\ c.snapshots = Without(table.snapshots, {i})
  BY BeforeNumbers DEF Expired, Members, Numbers
<1> HIDE DEF c
<1>4. Committed(c, u)
  BY <1>1, <1>3, BlunderCommits, Zenon DEF c
<1>5. fault' = "unpruned-expiry"
  BY <1>1, <1>3, BlunderCommits, Zenon DEF c
<1> HIDE DEF u
<1>6. /\ u.version = table.version /\ u.log = table.log
      /\ u.snapshots = Without(table.snapshots, {i})
  BY <1>3, <1>4, CommittedMembers
<1>7. i \in DOMAIN table.snapshots /\ table.snapshots[i].id # Missing
  BY MissingAssumption DEF Expirable, Before, Sound, SnapshotsSound, SnapshotSound
<1>8. table.snapshots[i].id \notin Ids(u.snapshots)
  <2>1. \A k \in DOMAIN u.snapshots : /\ k \in DOMAIN table.snapshots /\ k # i
                                      /\ u.snapshots[k] = table.snapshots[k]
    BY <1>6 DEF Without
  <2>2. Unique(table.snapshots)
    BY DEF Before, Sound, IdentifiersSound
  <2> QED
    BY <1>7, <2>1, <2>2, IdsMember DEF Unique
<1>9. j \in Timed(u.log)
  <2>1. table.log[j].timestamp \in Int
    BY DEF Before, Sound, LogSound
  <2> QED
    BY <1>6, <2>1, MissingAssumption DEF Timed
<1>10. \E k \in Timed(u.log) : u.log[k].snapshot \notin Ids(u.snapshots)
  BY <1>2, <1>6, <1>8, <1>9
<1>11. Error("AL105", "log-snapshot") \in SnapshotLog(u)
  BY <1>10, Zenon DEF SnapshotLog, Report
<1>12. Error("AL105", "log-snapshot") \in Errors(u)
  BY <1>6, <1>11, ErrorsOfRules, BeforeNumbers
<1> QED
  BY <1>5, <1>12, Zenon DEF u

LEMMA RepeatedCommitReported ==
    ASSUME Before, RepeatedCommit
    PROVE  fault' = "repeated-commit" /\ Error("AL104", "duplicate") \in Errors(table')
<1>1. PICK i \in DOMAIN table.snapshots :
       Blunder("repeated-commit", [table EXCEPT !.snapshots = Push(@, version, @[i])])
  BY Zenon DEF RepeatedCommit
<1> DEFINE c == [table EXCEPT !.snapshots = Push(@, version, @[i])]
           u == table'
<1>2. DOMAIN c = Members /\ c.snapshots = Push(table.snapshots, version, table.snapshots[i])
  BY BeforeNumbers DEF Members, Numbers
<1>3. Blunder("repeated-commit", c)
  BY <1>1, Zenon
<1> HIDE DEF c
<1>4. Committed(c, u)
  BY <1>2, <1>3, BlunderCommits, Zenon
<1>5. fault' = "repeated-commit"
  BY <1>2, <1>3, BlunderCommits, Zenon
<1> HIDE DEF u
<1>6. u.snapshots = Push(table.snapshots, version, table.snapshots[i])
  BY <1>2, <1>4, CommittedMembers
<1>7. table.snapshots[i].id # Missing
  BY MissingAssumption DEF Before, Sound, SnapshotsSound, SnapshotSound
<1>8. Duplicate(u.snapshots)
  <2>1. version \in Nat /\ DOMAIN table.snapshots \subseteq 0..(version - 1)
    BY DEF Before, Shaped, ShapedHistory, IsArray
  <2>2. /\ \A k : k \in DOMAIN u.snapshots <=> k \in DOMAIN table.snapshots \/ k = version
        /\ version \notin DOMAIN table.snapshots
        /\ u.snapshots[version] = table.snapshots[i] /\ u.snapshots[i] = table.snapshots[i]
    BY <1>6, <2>1, Pushed
  <2> QED
    BY <1>7, <2>2 DEF Duplicate
<1>9. Error("AL104", "duplicate") \in Identifiers(u)
  BY <1>8 DEF Identifiers, Report
<1>10. Error("AL104", "duplicate") \in Errors(u)
  BY <1>9, ErrorsOfRules
<1> QED
  BY <1>5, <1>10, Zenon DEF u

LEMMA ClockSetBackReported ==
    ASSUME Before, Grounded(table), ClockSetBack
    PROVE  fault' = "clock-set-back" /\ Error("AL105", "log-order") \in Errors(table')
<1> DEFINE back(id, i) == [WithCurrent(table, id)
                             EXCEPT !.log[version].timestamp = WithCurrent(table, id).log[i].timestamp]
<1>1. PICK id \in Elsewhere, i \in DOMAIN table.log : Blunder("clock-set-back", back(id, i))
  BY Zenon DEF ClockSetBack
<1> DEFINE t == WithCurrent(table, id)
           new == [timestamp |-> Now(table), snapshot |-> id]
           c == back(id, i)
           u == table'
<1>2. version \in Nat /\ DOMAIN table.log \subseteq 0..(version - 1) /\ DOMAIN table.log \subseteq 0..version
  BY DEF Before, Shaped, ShapedHistory, IsArray
<1>3. /\ DOMAIN t = Members /\ SameBut(table, t, CurrentMembers)
      /\ t.log = Push(table.log, version, new)
  BY BeforeNumbers, WithCurrentMembers
<1>4. c = [t EXCEPT !.log[version].timestamp = t.log[i].timestamp]
  OBVIOUS
<1> HIDE DEF t, c, back
<1>5. /\ \A k : k \in DOMAIN t.log <=> k \in DOMAIN table.log \/ k = version
      /\ version \notin DOMAIN table.log /\ t.log[version] = new
      /\ \A k \in DOMAIN table.log : t.log[k] = table.log[k] /\ k \in Int /\ k < version
  BY <1>2, <1>3, Pushed
<1>6. /\ DOMAIN c = Members /\ c.version = t.version
      /\ c.log = [t.log EXCEPT ![version] = [new EXCEPT !.timestamp = t.log[i].timestamp]]
  BY <1>3, <1>4, <1>5 DEF Members, Numbers
<1>7. t.version = table.version
  BY <1>3 DEF SameBut, CurrentMembers, ReferenceMembers, Members, Numbers
<1>8. Committed(c, u)
  BY <1>1, <1>6, BlunderCommits, Zenon DEF c
<1>9. fault' = "clock-set-back"
  BY <1>1, <1>6, BlunderCommits, Zenon DEF c
<1> HIDE DEF u
<1>10. u.version = table.version /\ u.log = c.log
  BY <1>6, <1>7, <1>8, CommittedMembers
<1>11. /\ \A k : k \in DOMAIN u.log <=> k \in DOMAIN table.log \/ k = version
       /\ \A k \in DOMAIN table.log : u.log[k] = table.log[k]
       /\ u.log[version].timestamp = table.log[i].timestamp
  BY <1>5, <1>6, <1>10
<1>12. PICK last \in DOMAIN table.log : \A k \in DOMAIN table.log : k <= last
  BY <1>2, GreatestElement
<1>13. \A k \in DOMAIN table.log : table.log[k].timestamp \in Int
  BY DEF Before, Sound, LogSound
<1>14. table.log[i].timestamp <= table.log[last].timestamp
  <2>1. i = last \/ i < last
    BY <1>5, <1>12
  <2> QED
    BY <1>13, <2>1 DEF Before, Sound, LogSound
<1>15. last \in Timed(u.log) /\ version \in Timed(u.log)
  BY <1>11, <1>13, MissingAssumption DEF Timed
<1>16. Follows(u.log, last, version)
  <2>1. last < version
    BY <1>5
  <2>2. \A k \in Timed(u.log) : ~(last < k /\ k < version)
    BY <1>2, <1>5, <1>11, <1>12 DEF Timed
  <2> QED
    BY <2>1, <2>2 DEF Follows
<1>17. \E k, l \in Timed(u.log) : Follows(u.log, k, l) /\ u.log[l].timestamp <= u.log[k].timestamp
  BY <1>11, <1>14, <1>15, <1>16
<1>18. Error("AL105", "log-order") \in SnapshotLog(u)
  BY <1>17, Zenon DEF SnapshotLog, Report
<1>19. Error("AL105", "log-order") \in Errors(u)
  BY <1>10, <1>18, ErrorsOfRules, BeforeNumbers
<1> QED
  BY <1>9, <1>19, Zenon DEF u

LEMMA LostSequenceReported ==
    ASSUME Before, LostSequence
    PROVE  fault' = "lost-sequence" /\ Error("AL105", "sequence-later") \in Errors(table')
<1>1. PICK id \in NewSnapshotIds : Blunder("lost-sequence",
                 [WithSnapshot(table, id) EXCEPT !.last_sequence = table.last_sequence])
  BY Zenon DEF LostSequence
<1> DEFINE t == WithSnapshot(table, id)
           c == [t EXCEPT !.last_sequence = table.last_sequence]
           u == table'
<1>2. /\ DOMAIN t = Members /\ SameBut(table, t, SnapshotMembers)
      /\ t.snapshots = Push(table.snapshots, version, NewSnapshot(table, id))
  BY BeforeNumbers, WithSnapshotMembers
<1>3. Blunder("lost-sequence", c)
  BY <1>1, Zenon
<1> HIDE DEF t
<1>4. /\ DOMAIN c = Members /\ c.version = table.version
      /\ c.last_sequence = table.last_sequence
      /\ c.snapshots = Push(table.snapshots, version, NewSnapshot(table, id))
  BY <1>2 DEF SameBut, SnapshotMembers, Members, Numbers
<1> HIDE DEF c
<1>5. Committed(c, u)
  BY <1>3, <1>4, BlunderCommits, Zenon
<1>6. fault' = "lost-sequence"
  BY <1>3, <1>4, BlunderCommits, Zenon
<1> HIDE DEF u
<1>7. /\ u.version = table.version /\ u.last_sequence = table.last_sequence
      /\ u.snapshots = Push(table.snapshots, version, NewSnapshot(table, id))
  BY <1>4, <1>5, CommittedMembers
<1>8. version \in DOMAIN u.snapshots /\ u.snapshots[version] = NewSnapshot(table, id)
  BY <1>7 DEF Push
<1>9. table.version \in 1..3 /\ table.version >= 2 /\ table.version # 1 /\ table.last_sequence \in Nat
  <2>1. table.version > 1
    BY Zenon DEF LostSequence
  <2> QED
    BY <2>1, BeforeNumbers
<1>10. u.snapshots[version].sequence = table.last_sequence + 1
  BY <1>8, <1>9 DEF NewSnapshot
<1>11. /\ u.version >= 2 /\ ~Negative(u.snapshots[version].sequence)
       /\ u.last_sequence # Missing /\ u.snapshots[version].sequence > u.last_sequence
  BY <1>7, <1>9, <1>10, MissingAssumption DEF Negative
<1>12. Error("AL105", "sequence-later") \in SnapshotErrors(u, u.snapshots[version])
  BY <1>11, Zenon DEF SnapshotErrors, Report
<1>13. Error("AL105", "sequence-later") \in Errors(u)
  BY <1>7, <1>8, <1>9, <1>12, ErrorsOfRules
<1> QED
  BY <1>6, <1>13, Zenon DEF u

LEMMA LostColumnReported ==
    ASSUME Before, LostColumn
    PROVE  fault' = "lost-column" /\ Error("AL106", "last-column-id") \in Errors(table')
<1>1. PICK i \in CurrentSchemas, id \in ObjectIds \ Ids(table.schemas) :
        Blunder("lost-column", WithSchema(table, id,
                   Push(table.schemas[i].fields, version, table.last_column + 1)))
  BY Zenon DEF LostColumn
<1> DEFINE fields == Push(table.schemas[i].fields, version, table.last_column + 1)
           c == WithSchema(table, id, fields)
           u == table'
<1>2. /\ version \in DOMAIN fields /\ fields[version] = table.last_column + 1
  BY DEF Push
<1>3. Blunder("lost-column", c)
  BY <1>1, Zenon
<1> HIDE DEF fields
<1>4. /\ DOMAIN c = Members /\ c.last_column = table.last_column
      /\ SameBut(table, c, FieldMembers)
      /\ c.schemas = Push(table.schemas, version, [id |-> id, fields |-> fields])
  BY BeforeNumbers DEF WithSchema, SameBut, FieldMembers, Members, Numbers
<1> HIDE DEF c
<1>5. Committed(c, u)
  BY <1>3, <1>4, BlunderCommits, Zenon
<1>6. fault' = "lost-column"
  BY <1>3, <1>4, BlunderCommits, Zenon
<1> HIDE DEF u
<1>7. u.schemas = c.schemas /\ u.last_column = table.last_column
  BY <1>4, <1>5, FieldsCommitted
<1>8. version \in DOMAIN u.schemas /\ u.schemas[version].fields = fields
  BY <1>4, <1>7 DEF Push
<1>9. fields \in Schemas(u)
  BY <1>8 DEF Schemas
<1>10. table.last_column + 1 \in AllFieldIds(u)
  <2>1. table.last_column + 1 # Missing
    BY BeforeNumbers, MissingAssumption
  <2> QED
    BY <1>2, <1>9, <2>1, FieldIdMember
<1>11. AboveMark(AllFieldIds(u), u.last_column)
  <2>1. table.last_column \in Nat /\ table.last_column # Missing
    BY BeforeNumbers, MissingAssumption
  <2>2. table.last_column + 1 > table.last_column
    BY <2>1
  <2> QED
    BY <1>7, <1>10, <2>1, <2>2 DEF AboveMark
<1>12. Error("AL106", "last-column-id") \in Errors(u)
  <2>1. Error("AL106", "last-column-id")
          \in Report("AL106", "last-column-id", AboveMark(AllFieldIds(u), u.last_column))
    BY <1>11, Zenon DEF Report
  <2> QED
    BY <2>1, ErrorsOfRules, Zenon
<1> QED
  BY <1>6, <1>12, Zenon DEF u

LEMMA LostPartitionReported ==
    ASSUME Before, LostPartition
    PROVE  fault' = "lost-partition" /\ Error("AL106", "partition-ID-reassigned") \in Errors(table')
<1> DEFINE other(p, transform) == [k \in {0} |-> [PartitionField(table, p) EXCEPT !.transform = transform]]
<1>1. PICK p \in Signed(table), transform \in Transforms, id \in ObjectIds \ Ids(table.specs) :
         /\ PartitionField(table, p).transform # transform
         /\ Blunder("lost-partition", WithSpec(table, id, other(p, transform)))
  BY Zenon DEF LostPartition
<1> DEFINE x == PartitionField(table, p)
           y == [x EXCEPT !.transform = transform]
           fields == other(p, transform)
           c == WithSpec(table, id, fields)
           u == table'
           q == <<version, 0>>
<1>2. p \in PartitionFields(table) /\ x.id # Missing /\ x.id > 0 /\ ValidSources(table, x) /\ x.transform # Missing
  BY DEF Signed, Identified
<1>3. x \in FieldOfSpec /\ p[1] \in DOMAIN table.specs /\ p[2] \in DOMAIN table.specs[p[1]].fields
        /\ p = <<p[1], p[2]>>
  BY <1>2, SpecFields, ShapedDocument DEF Before
<1>4. Blunder("lost-partition", c)
  BY <1>1, Zenon
<1>5. fields = [k \in {0} |-> y]
  OBVIOUS
<1> HIDE DEF x
<1>6. y.id = x.id /\ y.sources = x.sources /\ y.transform = transform
  BY <1>3 DEF FieldOfSpec
<1>7. DOMAIN fields = {0} /\ fields[0] = y
  BY <1>5
<1> HIDE DEF y, fields, other
<1>8. /\ DOMAIN c = Members /\ SameBut(table, c, FieldMembers)
      /\ c.specs = Push(table.specs, version, [id |-> id, fields |-> fields])
  BY BeforeNumbers DEF WithSpec, SameBut, FieldMembers, Members, Numbers
<1> HIDE DEF c
<1>9. Committed(c, u)
  BY <1>4, <1>8, BlunderCommits, Zenon
<1>10. fault' = "lost-partition"
  BY <1>4, <1>8, BlunderCommits, Zenon
<1> HIDE DEF u
<1>11. /\ u.version = table.version
       /\ u.specs = Push(table.specs, version, [id |-> id, fields |-> fields])
  BY <1>8, <1>9, FieldsCommitted
<1>12. version \in Nat /\ DOMAIN table.specs \subseteq 0..(version - 1)
  BY FieldsBefore DEF ShapedFields, FieldArrays
<1>13. /\ version \in DOMAIN u.specs /\ u.specs[version].fields = fields
       /\ p[1] \in DOMAIN u.specs /\ u.specs[p[1]] = table.specs[p[1]]
  <2>1. /\ \A k : k \in DOMAIN u.specs <=> k \in DOMAIN table.specs \/ k = version
        /\ u.specs[version] = [id |-> id, fields |-> fields]
        /\ \A k \in DOMAIN table.specs : u.specs[k] = table.specs[k]
    BY <1>11, <1>12, Pushed
  <2> QED
    BY <1>3, <2>1
<1>14. PartitionField(u, p) = x /\ PartitionField(u, q) = y
  BY <1>7, <1>13 DEF PartitionField, x
<1>15. p \in PartitionFields(u) /\ q \in PartitionFields(u)
  <2>1. p \in {p[1]} \X DOMAIN u.specs[p[1]].fields
    BY <1>3, <1>13
  <2>2. q \in {version} \X DOMAIN u.specs[version].fields
    BY <1>7, <1>13
  <2> QED
    BY <1>13, <2>1, <2>2 DEF PartitionFields
<1>16. ValidSources(u, x) /\ ValidSources(u, y)
  BY <1>2, <1>6, <1>11 DEF ValidSources
<1>17. transform # Missing
  BY MissingAssumption
<1> HIDE DEF q
<1>18. p \in Signed(u) /\ q \in Signed(u)
  BY <1>2, <1>6, <1>14, <1>15, <1>16, <1>17 DEF Signed, Identified
<1>19. PartitionField(u, p).id = PartitionField(u, q).id /\ Signature(u, p) # Signature(u, q)
  <2>1. x.transform # transform
    BY <1>1, Zenon DEF x
  <2> QED
    BY <1>6, <1>14, <2>1 DEF Signature
<1>20. ReassignedPartitionIds(u)
  BY <1>18, <1>19 DEF ReassignedPartitionIds
<1>21. u.version \in Int /\ u.version >= 2
  <2>1. table.version > 1
    BY Zenon DEF LostPartition
  <2> QED
    BY <1>11, <2>1, BeforeNumbers
<1>22. Error("AL106", "partition-ID-reassigned") \in Errors(u)
  <2>1. Error("AL106", "partition-ID-reassigned") \in PartitionErrors(u)
    BY <1>20, <1>21, Zenon DEF PartitionErrors, Report
  <2> QED
    BY <2>1, ErrorsOfRules, Zenon
<1> QED
  BY <1>10, <1>22, Zenon DEF u

LEMMA HalfUpgradeReported ==
    ASSUME Before, Grounded(table), HalfUpgrade
    PROVE  /\ fault' = "half-upgrade"
           /\ \/ Error("AL102", "last-sequence-number") \in Errors(table')
              \/ Error("AL102", "next-row-id") \in Errors(table')
<1> DEFINE c == [table EXCEPT !.version = @ + 1]
           u == table'
<1>1. Blunder("half-upgrade", c)
  BY Zenon DEF HalfUpgrade
<1>2. /\ DOMAIN c = Members /\ c.version = table.version + 1
      /\ c.last_sequence = table.last_sequence /\ c.next_row = table.next_row
  BY BeforeNumbers DEF Members, Numbers
<1> HIDE DEF c
<1>3. Committed(c, u)
  BY <1>1, <1>2, BlunderCommits, Zenon
<1>4. fault' = "half-upgrade"
  BY <1>1, <1>2, BlunderCommits, Zenon
<1> HIDE DEF u
<1>5. /\ u.version = table.version + 1
      /\ u.last_sequence = table.last_sequence /\ u.next_row = table.next_row
  BY <1>2, <1>3, CommittedMembers
<1>6. table.version \in 1..3 /\ table.version < 3
  <2>1. table.version < 3
    BY Zenon DEF HalfUpgrade
  <2> QED
    BY <2>1, BeforeNumbers
<1>7. \/ u.version = 2 /\ u.version >= 2 /\ Negative(u.last_sequence)
      \/ u.version = 3 /\ Negative(u.next_row)
  BY <1>5, <1>6 DEF Grounded, Negative
<1>8. \/ Error("AL102", "last-sequence-number") \in RequiredMetadata(u)
      \/ Error("AL102", "next-row-id") \in RequiredMetadata(u)
  BY <1>7, Zenon DEF RequiredMetadata, Report
<1>9. \/ Error("AL102", "last-sequence-number") \in Errors(u)
      \/ Error("AL102", "next-row-id") \in Errors(u)
  BY <1>5, <1>6, <1>8, ErrorsOfRules
<1> QED
  BY <1>4, <1>9, Zenon DEF u

LEMMA ErrorsOfFaults ==
    /\ ErrorsOf("half-upgrade") = {Error("AL102", "last-sequence-number"),
                                   Error("AL102", "next-row-id")}
    /\ ErrorsOf("half-rollback") = {Error("AL103", "main")}
    /\ ErrorsOf("repeated-commit") = {Error("AL104", "duplicate")}
    /\ ErrorsOf("lost-column") = {Error("AL106", "last-column-id")}
    /\ ErrorsOf("lost-partition") = {Error("AL106", "partition-ID-reassigned")}
    /\ ErrorsOf("lost-sequence") = {Error("AL105", "sequence-later")}
    /\ ErrorsOf("unlogged-rollback") = {Error("AL105", "log-end")}
    /\ ErrorsOf("unpruned-expiry") = {Error("AL105", "log-snapshot")}
    /\ ErrorsOf("clock-set-back") = {Error("AL105", "log-order")}
BY DEF ErrorsOf, MainError, ReassignedError

\* A fault by whichever writer, in a history without edits, is reported at once.
LEMMA FaultsReported ==
    ASSUME Before, Grounded(table), MainGood(table), Faulty
    PROVE  FaultReported'
<1> DEFINE Reported == \E e \in Errors(table') : e \in ErrorsOf(fault')
<1> SUFFICES Reported
  BY DEF FaultReported
<1>1. UnloggedRollback => Reported
  BY UnloggedRollbackReported, ErrorsOfFaults
<1>2. HalfRollback => Reported
  BY HalfRollbackReported, ErrorsOfFaults
<1>3. UnprunedExpiry => Reported
  BY UnprunedExpiryReported, ErrorsOfFaults
<1>4. RepeatedCommit => Reported
  BY RepeatedCommitReported, ErrorsOfFaults
<1>5. ClockSetBack => Reported
  BY ClockSetBackReported, ErrorsOfFaults
<1>6. LostSequence => Reported
  BY LostSequenceReported, ErrorsOfFaults
<1>7. LostColumn => Reported
  BY LostColumnReported, ErrorsOfFaults
<1>8. LostPartition => Reported
  BY LostPartitionReported, ErrorsOfFaults
<1>9. HalfUpgrade => Reported
  BY HalfUpgradeReported, ErrorsOfFaults
<1> QED
  BY <1>1, <1>2, <1>3, <1>4, <1>5, <1>6, <1>7, <1>8, <1>9, Zenon DEF Faulty

-----------------------------------------------------------------------------
(* The invariant with faults: what a fault may fall upon, and its report.  *)

FaultInv ==
    /\ HistoryInv /\ FaultReported
    /\ fault = "none" /\ edits = 0 => Grounded(table)

LEMMA InitFault == Init => FaultInv
<1> SUFFICES ASSUME Init PROVE FaultInv
  OBVIOUS
<1>1. FaultReported
  BY Zenon DEF Init, FaultReported
<1> QED
  BY <1>1, InitHistory, InitGrounded DEF FaultInv

LEMMA NextFault == FaultInv /\ [Next]_vars => FaultInv'
<1> SUFFICES ASSUME FaultInv, [Next]_vars PROVE FaultInv'
  OBVIOUS
<1>1. HistoryInv'
  BY NextHistory DEF FaultInv
<1>2. fault = "none" /\ edits = 0 => Before /\ Grounded(table) /\ MainGood(table)
  BY DEF FaultInv, HistoryInv, Before, Explained
<1>3. CASE Healthy
  <2>1. fault' = "none" /\ (edits' = 0 => edits = 0) /\ fault = "none"
    BY <1>3, HealthyCommits, Zenon
  <2>2. FaultReported'
    BY <2>1, Zenon DEF FaultReported
  <2>3. edits' = 0 => Grounded(table')
    BY <1>2, <1>3, <2>1, HealthyKeepsGrounded
  <2> QED
    BY <1>1, <2>2, <2>3 DEF FaultInv
<1>4. CASE Faulty
  <2>1. fault = "none" /\ edits = 0 /\ fault' # "none"
    BY <1>4, FaultyBlunders
  <2>2. FaultReported'
    BY <1>2, <1>4, <2>1, FaultsReported
  <2> QED
    BY <1>1, <2>1, <2>2 DEF FaultInv
<1>5. CASE Edit
  <2>1. fault' = "none" /\ edits' = edits + 1 /\ edits \in Nat
    BY <1>5 DEF Edit, FaultInv, HistoryInv
  <2>2. edits' # 0
    BY <2>1
  <2>3. FaultReported'
    BY <2>1, Zenon DEF FaultReported
  <2> QED
    BY <1>1, <2>2, <2>3 DEF FaultInv
<1>6. CASE UNCHANGED vars
  <2>1. table' = table /\ fault' = fault /\ edits' = edits
    BY <1>6 DEF vars
  <2>2. FaultReported'
    BY <2>1, Zenon DEF FaultReported, FaultInv
  <2> QED
    BY <1>1, <2>1, <2>2 DEF FaultInv
<1> QED
  BY <1>3, <1>4, <1>5, <1>6 DEF Next

\* After any history of healthy commits the step that a faulty writer got wrong is reported by
\* the check that is for it.
THEOREM FaultReportedCorrect == Spec => []FaultReported
<1>1. FaultInv => FaultReported
  BY DEF FaultInv
<1> QED
  BY <1>1, InitFault, NextFault, PTL DEF Spec

\* In a document without errors, edited or not, the log tells at most one snapshot for
\* each moment.
THEOREM TimeTravelCorrect == Spec => []TimeTravel
<1>1. FaultInv => TimeTravel
  <2> SUFFICES ASSUME FaultInv PROVE TimeTravel
    OBVIOUS
  <2>1. CASE fault = "none"
    BY <2>1, CleanTravels, ShapedDocument DEF FaultInv, HistoryInv
  <2>2. CASE fault # "none"
    <3>1. Errors(table) # {}
      BY <2>2, Zenon DEF FaultInv, FaultReported
    <3> QED
      BY <3>1 DEF TimeTravel
  <2> QED
    BY <2>1, <2>2
<1> QED
  BY <1>1, InitFault, NextFault, PTL DEF Spec

=============================================================================
