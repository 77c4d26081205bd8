---------------------------- MODULE IcebergTable ----------------------------
(***************************************************************************)
(* The metadata of an Iceberg table and the rules AL101 to AL107 that      *)
(* judge it, crates/arrowlint-core/src/iceberg.rs.                         *)
(*                                                                         *)
(* The rules look at one JSON document, but what it must satisfy only      *)
(* makes sense as the outcome of a history: commits to the main branch and *)
(* to others, rollbacks, expiry of snapshots, evolution of schema,         *)
(* partitioning and sort order, upgrades of the format version.  So every  *)
(* state here is one version of the document, and the steps are those of   *)
(* the writers of the table.  They are not in the repository, and are      *)
(* modelled by what the format asks of them, whether or not the rules let  *)
(* it pass (see Alarms); a writer may also be faulty, or the document      *)
(* edited.                                                                 *)
(*                                                                         *)
(* An array of JSON objects is a function on its positions, which need not *)
(* be consecutive: the order is that of the positions.  Missing stands for *)
(* a member that is absent or not of its type.  A schema is the function   *)
(* from positions to the field IDs in it, nested ones included.            *)
(***************************************************************************)
EXTENDS Integers, FiniteSets

CONSTANTS
    SnapshotIds, \* IDs writers give to snapshots,
    ObjectIds,   \* and to schemas, partition specs and sort orders
    Branches,    \* names of snapshot references other than main
    Transforms,  \* transform and name of a partition field
    Foreign,     \* integers an edit may put in
    Missing,
    MaxSnapshots,   \* rules.iceberg_max_snapshots
    MaxMetadataLog, \* rules.iceberg_max_metadata_log_entries
    MaxSteps,    \* bound on the steps,
    MaxEdits     \* and on those that are edits by hand

ASSUME IdsAssumption      == SnapshotIds \subseteq Nat \ {0} /\ ObjectIds \subseteq Nat
ASSUME MissingAssumption  == Missing \notin Int /\ Missing \notin Transforms
ASSUME BranchesAssumption == "main" \notin Branches
ASSUME ForeignAssumption  == Foreign \subseteq Int
ASSUME LimitsAssumption   == MaxSnapshots \in Nat /\ MaxMetadataLog \in Nat
ASSUME BoundsAssumption   == MaxSteps \in Nat /\ MaxEdits \in Nat

VARIABLES
    table,    \* the document
    version,  \* of the document: the position of what the next step adds
    edits,    \* edits by hand
    fault,    \* what a faulty writer did, or "none"
    upgraded  \* for versions 2 and 3, when the table was upgraded to it, or 0

vars == <<table, version, edits, fault, upgraded>>

Number == Int \cup {Missing}

\* Fields of a partition spec and of a sort order.
FieldOfSpec  == [id: Number, sources: SUBSET Number, transform: Transforms \cup {Missing}]
FieldOfOrder == [sources: SUBSET Number]
SortOrder    == [id: Nat, fields: UNION {[positions -> FieldOfOrder] :
                                           positions \in SUBSET (0..MaxSteps)}]

ASSUME ArraysAssumption ==
    \A positions \in SUBSET (0..MaxSteps) :
       Missing \notin [positions -> Number] \cup [positions -> FieldOfSpec]
                        \cup [positions -> SortOrder]

Ids(array) == {array[i].id : i \in DOMAIN array} \ {Missing}

\* Array with one more object at a position beyond all of its own.
Push(array, position, object) ==
    [i \in DOMAIN array \cup {position} |-> IF i = position THEN object ELSE array[i]]

Without(array, positions) == [i \in DOMAIN array \ positions |-> array[i]]

-----------------------------------------------------------------------------
(* The rules.                                                              *)

Error(rule, what) == [rule |-> rule, what |-> what]

\* The error, if the condition holds.
Report(rule, what, condition) == {e \in {Error(rule, what)} : condition}

\* AL101
FormatVersion(t) == Report("AL101", "version", t.version \notin 1..3)

\* schemas: the single schema of an old document only in place of others.
Schemas(t) ==
    IF DOMAIN t.schemas = {} THEN {t.schema} \ {Missing}
    ELSE {t.schemas[i].fields : i \in DOMAIN t.schemas}

\* objects: an absent array has none.
Orders(t) == IF t.orders = Missing THEN [i \in {} |-> 0] ELSE t.orders

Negative(value) == value = Missing \/ value < 0

\* AL102
RequiredMetadata(t) ==
    UNION {
      Report("AL102", "location", t.location # "absolute"),
      Report("AL102", "last-updated-ms", Negative(t.last_updated)),
      Report("AL102", "last-column-id", Negative(t.last_column)),
      Report("AL102", "schemas", (t.version >= 2 \/ t.schema = Missing)
                /\ (DOMAIN t.schemas = {} \/ t.current_schema = Missing)),
      Report("AL102", "partition-specs", (t.version >= 2 \/ t.spec = Missing)
                /\ (DOMAIN t.specs = {} \/ t.default_spec = Missing)),
      Report("AL102", "table-uuid", t.version >= 2 /\ ~t.uuid),
      Report("AL102", "last-sequence-number", t.version >= 2 /\ Negative(t.last_sequence)),
      Report("AL102", "last-partition-id", t.version >= 2 /\ Negative(t.last_partition)),
      Report("AL102", "sort-orders", t.version >= 2 /\ t.orders = Missing),
      Report("AL102", "default-sort-order-id", t.version >= 2 /\ t.default_order = Missing),
      Report("AL102", "next-row-id", t.version = 3 /\ Negative(t.next_row)) }

\* current_snapshot_id: -1 means that there is none.
CurrentSnapshot(t) == IF t.current_snapshot = -1 THEN Missing ELSE t.current_snapshot

\* check_reference: an absent reference is none of its business.
Dangling(reference, ids) == reference # Missing /\ reference \notin ids

\* The checks of `refs'; a reference without an ID is invalid, too.
SnapshotReferences(t) ==
    Report("AL103", "main", t.refs_given
              /\ ("main" \in DOMAIN t.refs => t.refs["main"] # CurrentSnapshot(t)))
      \cup Report("AL103", "refs", t.refs_given
              /\ \E n \in DOMAIN t.refs : t.refs[n] \notin Ids(t.snapshots))

\* AL103
References(t) ==
    UNION {
      Report("AL103", "current-schema-id", Dangling(t.current_schema, Ids(t.schemas))),
      Report("AL103", "default-spec-id", Dangling(t.default_spec, Ids(t.specs))),
      Report("AL103", "default-sort-order-id",
             t.default_order # 0 /\ Dangling(t.default_order, Ids(Orders(t)))),
      Report("AL103", "current-snapshot-id", Dangling(CurrentSnapshot(t), Ids(t.snapshots))),
      SnapshotReferences(t) }

Duplicate(array) ==
    \E i, j \in DOMAIN array : i # j /\ array[i].id = array[j].id /\ array[i].id # Missing

\* AL104
Identifiers(t) ==
    Report("AL104", "duplicate", \/ Duplicate(t.schemas) \/ Duplicate(t.specs)
                                 \/ Duplicate(Orders(t)) \/ Duplicate(t.snapshots))

\* One snapshot for AL105.
SnapshotErrors(t, s) ==
    UNION {
      Report("AL105", "snapshot-id", s.id = Missing \/ s.id <= 0),
      Report("AL105", "timestamp-ms", Negative(s.timestamp)),
      Report("AL105", "timestamp-later", ~Negative(s.timestamp) /\ t.last_updated # Missing
                                           /\ s.timestamp > t.last_updated),
      Report("AL105", "both-manifests", s.manifest_list /\ s.manifests),
      Report("AL105", "sequence-number", t.version >= 2 /\ Negative(s.sequence)),
      Report("AL105", "sequence-later", t.version >= 2 /\ ~Negative(s.sequence)
                        /\ t.last_sequence # Missing /\ s.sequence > t.last_sequence),
      Report("AL105", "manifest-list", t.version >= 2 /\ ~s.manifest_list),
      Report("AL105", "operation", t.version >= 2 /\ ~s.operation),
      Report("AL105", "schema-id", Dangling(s.schema, Ids(t.schemas))),
      Report("AL105", "row-lineage", t.version = 3 /\ ~s.row_lineage) }

Timed(log) == {i \in DOMAIN log : log[i].timestamp # Missing}

\* Neighbours of the log, entries without a timestamp left aside.
Follows(log, i, j) == i < j /\ ~\E k \in Timed(log) : i < k /\ k < j

\* Mutant: the order of the entries is mistaken.
FirstEntry(log) == {i \in DOMAIN log : \A j \in DOMAIN log : i <= j}

LastEntry(log) == {i \in DOMAIN log : \A j \in DOMAIN log : j <= i}

\* Mutant: entries of the same time are in order.
LogNotDecreasing(t) ==
    UNION {
      Report("AL105", "log-timestamp", Timed(t.log) # DOMAIN t.log),
      Report("AL105", "log-later", \E i \in Timed(t.log) :
                t.last_updated # Missing /\ t.log[i].timestamp > t.last_updated),
      Report("AL105", "log-order", \E i, j \in Timed(t.log) :
                Follows(t.log, i, j) /\ t.log[j].timestamp < t.log[i].timestamp),
      Report("AL105", "log-snapshot", \E i \in Timed(t.log) :
                t.log[i].snapshot \notin Ids(t.snapshots)),
      Report("AL105", "log-end", CurrentSnapshot(t) # Missing
                /\ \E i \in LastEntry(t.log) : t.log[i].snapshot # CurrentSnapshot(t)) }

\* check_snapshot_log
SnapshotLog(t) ==
    UNION {
      Report("AL105", "log-timestamp", Timed(t.log) # DOMAIN t.log),
      Report("AL105", "log-later", \E i \in Timed(t.log) :
                t.last_updated # Missing /\ t.log[i].timestamp > t.last_updated),
      Report("AL105", "log-order", \E i, j \in Timed(t.log) :
                Follows(t.log, i, j) /\ t.log[j].timestamp <= t.log[i].timestamp),
      Report("AL105", "log-snapshot", \E i \in Timed(t.log) :
                t.log[i].snapshot \notin Ids(t.snapshots)),
      Report("AL105", "log-end", CurrentSnapshot(t) # Missing
                /\ \E i \in LastEntry(t.log) : t.log[i].snapshot # CurrentSnapshot(t)) }

\* AL105
Snapshots(t) ==
    (UNION {SnapshotErrors(t, t.snapshots[i]) : i \in DOMAIN t.snapshots}) \cup SnapshotLog(t)

SchemaIds(schema) == {schema[k] : k \in DOMAIN schema}

SchemaErrors(schema) ==
    UNION {
      Report("AL106", "no-ID", Missing \in SchemaIds(schema)),
      Report("AL106", "duplicate-ID", \E k, l \in DOMAIN schema :
                k # l /\ schema[k] = schema[l] /\ schema[k] # Missing),
      Report("AL106", "ID-not-positive", \E id \in SchemaIds(schema) \ {Missing} : id <= 0) }

AllFieldIds(t) == (UNION {SchemaIds(schema) : schema \in Schemas(t)}) \ {Missing}

\* Mutant: off by one.
WellAboveMark(ids, mark) == mark # Missing /\ \E id \in ids : id > mark + 1

\* An ID above the mark that is kept for all IDs ever assigned.
AboveMark(ids, mark) == mark # Missing /\ \E id \in ids : id > mark

\* parse_source_ids: version 3 allows several.
ValidSources(t, field) ==
    /\ field.sources # {} /\ Missing \notin field.sources
    /\ (t.version \in Int /\ t.version >= 3) \/ Cardinality(field.sources) = 1

\* validate_source_ids
SourceErrors(t, field) ==
    Report("AL106", "source", ~ValidSources(t, field))
      \cup Report("AL106", "unknown-source", ValidSources(t, field)
                     /\ ~(field.sources \subseteq AllFieldIds(t)))

\* A partition field by the positions of its spec and in its spec.
PartitionFields(t) == UNION {{i} \X DOMAIN t.specs[i].fields : i \in DOMAIN t.specs}
PartitionField(t, p) == t.specs[p[1]].fields[p[2]]

Identified(t) ==
    {p \in PartitionFields(t) :
        PartitionField(t, p).id # Missing /\ PartitionField(t, p).id > 0}

\* partition_field_signature: what a partition field ID stands for since version 2.
Signature(t, p) ==
    <<PartitionField(t, p).sources, PartitionField(t, p).transform>>

Signed(t) ==
    {p \in Identified(t) : /\ ValidSources(t, PartitionField(t, p))
                           /\ PartitionField(t, p).transform # Missing}

\* Mutant: an ID that is reused for another field goes unseen.
ReuseUnseen(t) ==
    \E p, q \in Signed(t) : /\ PartitionField(t, p).id # PartitionField(t, q).id
                            /\ Signature(t, p) = Signature(t, q)

\* The two maps from IDs to signatures and back.
ReassignedPartitionIds(t) ==
    \E p, q \in Signed(t) : ~(PartitionField(t, p).id = PartitionField(t, q).id
                                <=> Signature(t, p) = Signature(t, q))

PartitionErrors(t) ==
    UNION {
      Report("AL106", "duplicate-partition-ID", \E p, q \in PartitionFields(t) :
                /\ p[1] = q[1] /\ p[2] # q[2]
                /\ PartitionField(t, p).id = PartitionField(t, q).id
                /\ PartitionField(t, p).id # Missing),
      Report("AL106", "partition-ID", t.version \in Int /\ t.version >= 2
                                        /\ Identified(t) # PartitionFields(t)),
      Report("AL106", "partition-ID-reassigned",
                t.version \in Int /\ t.version >= 2 /\ ReassignedPartitionIds(t)),
      Report("AL106", "last-partition-id",
                AboveMark({PartitionField(t, p).id : p \in Identified(t)}, t.last_partition)) }

SourcesOf(t, fields) == UNION {SourceErrors(t, fields[k]) : k \in DOMAIN fields}

\* The single partition spec of an old document counts only in place of others.
LegacySources(t) ==
    IF DOMAIN t.specs = {} /\ t.spec # Missing THEN SourcesOf(t, t.spec) ELSE {}

\* AL106
FieldIds(t) ==
    UNION {
      UNION {SchemaErrors(schema) : schema \in Schemas(t)},
      Report("AL106", "last-column-id", AboveMark(AllFieldIds(t), t.last_column)),
      PartitionErrors(t),
      UNION {SourcesOf(t, t.specs[i].fields) : i \in DOMAIN t.specs},
      LegacySources(t),
      UNION {SourcesOf(t, Orders(t)[i].fields) : i \in DOMAIN Orders(t)} }

\* AL107, of severity info; a limit of 0 is none.
Maintenance(t) ==
    Report("AL107", "snapshots", MaxSnapshots > 0 /\ Cardinality(DOMAIN t.snapshots) > MaxSnapshots)
      \cup Report("AL107", "metadata-log", MaxMetadataLog > 0 /\ t.metadata_log > MaxMetadataLog)

\* AL102 and AL105 pass over unsupported versions.
Errors(t) ==
    FormatVersion(t)
      \cup (IF t.version \in 1..3 THEN RequiredMetadata(t) \cup Snapshots(t) ELSE {})
      \cup References(t) \cup Identifiers(t) \cup FieldIds(t)

-----------------------------------------------------------------------------
(* The writers.  Each commit updates `last-updated-ms'.                    *)

Empty == [i \in {} |-> 0]

NewTable(v) ==
    [version |-> v, location |-> "absolute", uuid |-> TRUE, last_updated |-> 0,
     last_sequence |-> IF v = 1 THEN Missing ELSE 0,
     last_column |-> 1, last_partition |-> 0,
     next_row |-> IF v = 3 THEN 0 ELSE Missing,
     schema |-> IF v = 1 THEN [k \in {0} |-> 1] ELSE Missing,
     spec |-> IF v = 1 THEN Empty ELSE Missing,
     schemas |-> [i \in {0} |-> [id |-> 0, fields |-> [k \in {0} |-> 1]]],
     current_schema |-> 0,
     specs |-> [i \in {0} |-> [id |-> 0, fields |-> Empty]], default_spec |-> 0,
     orders |-> [i \in {0} |-> [id |-> 0, fields |-> Empty]], default_order |-> 0,
     snapshots |-> Empty, current_snapshot |-> -1,
     refs |-> Empty, refs_given |-> FALSE, log |-> Empty, metadata_log |-> 0]

\* Of version 1, by a writer that knows only the single schema and partition spec.
LegacyTable ==
    [NewTable(1) EXCEPT !.uuid = FALSE, !.last_partition = Missing,
       !.schemas = Empty, !.current_schema = Missing,
       !.specs = Empty, !.default_spec = Missing,
       !.orders = Missing, !.default_order = Missing]

\* Some writers give `refs' to a table that has none.
Init ==
    /\ table \in {[NewTable(v) EXCEPT !.refs_given = given] : v \in 1..3, given \in BOOLEAN}
                   \cup {LegacyTable}
    /\ version = 1
    /\ edits = 0
    /\ fault = "none"
    /\ upgraded = [v \in 2..3 |-> 0]

Legacy(t) == DOMAIN t.schemas = {}

Now(t) == t.last_updated + 1

WithSnapshot(t, id) ==
    [t EXCEPT
       !.snapshots = Push(@, version,
           [id |-> id, timestamp |-> Now(t),
            sequence |-> IF t.version = 1 THEN Missing ELSE t.last_sequence + 1,
            schema |-> t.current_schema, manifest_list |-> TRUE, manifests |-> FALSE,
            operation |-> TRUE, row_lineage |-> t.version = 3]),
       !.last_sequence = IF t.version = 1 THEN @ ELSE @ + 1,
       !.next_row = IF t.version = 3 THEN @ + 1 ELSE @]

\* The main branch has a reference once there is a current snapshot.
WithReference(t, name, id) ==
    [t EXCEPT
       !.refs = [n \in DOMAIN @ \cup {name}
                         \cup (IF CurrentSnapshot(t) = Missing THEN {} ELSE {"main"}) |->
                    IF n = name THEN id ELSE IF n \in DOMAIN @ THEN @[n] ELSE t.current_snapshot],
       !.refs_given = TRUE]

WithCurrent(t, id) ==
    [WithReference(t, "main", id) EXCEPT
       !.current_snapshot = id,
       !.log = Push(@, version, [timestamp |-> Now(t), snapshot |-> id])]

Write(t) ==
    /\ version <= MaxSteps /\ version' = version + 1
    /\ table' = [t EXCEPT !.last_updated = @ + 1, !.metadata_log = @ + 1]

Commit(t) ==
    /\ Write(t)
    /\ UNCHANGED <<edits, fault, upgraded>>

NewSnapshotIds == SnapshotIds \ Ids(table.snapshots)

CommitToMain ==
    \E id \in NewSnapshotIds : Commit(WithCurrent(WithSnapshot(table, id), id))

\* Also before anything is committed to main.
CommitToBranch ==
    \E b \in Branches, id \in NewSnapshotIds :
       Commit(WithReference(WithSnapshot(table, id), b, id))

\* A tag, or a branch that is created or moved.
SetReference ==
    \E b \in Branches, id \in Ids(table.snapshots) : Commit(WithReference(table, b, id))

DropReference ==
    \E b \in Branches \cap DOMAIN table.refs : Commit([table EXCEPT !.refs = Without(@, {b})])

Rollback ==
    \E id \in Ids(table.snapshots) \ {table.current_snapshot} : Commit(WithCurrent(table, id))

Retained(t) == {t.refs[n] : n \in DOMAIN t.refs} \cup {t.current_snapshot}

Expired(t, gone) == [t EXCEPT !.snapshots = Without(@, gone)]

\* The log is kept from behind the last entry of a snapshot that is gone.
Pruned(t) ==
    [t EXCEPT !.log =
        Without(@, {i \in DOMAIN @ : \E j \in DOMAIN @ :
                                       i <= j /\ @[j].snapshot \notin Ids(t.snapshots)})]

Expirable == {i \in DOMAIN table.snapshots : table.snapshots[i].id \notin Retained(table)}

Expire == \E gone \in (SUBSET Expirable) \ {{}} : Commit(Pruned(Expired(table, gone)))

WithSchema(t, id, fields) ==
    [t EXCEPT !.schemas = Push(@, version, [id |-> id, fields |-> fields]),
              !.current_schema = id,
              !.schema = IF @ = Missing THEN @ ELSE fields]

CurrentSchemas == {i \in DOMAIN table.schemas : table.schemas[i].id = table.current_schema}

AddColumn ==
    \E i \in CurrentSchemas, id \in ObjectIds \ Ids(table.schemas) :
       Commit([WithSchema(table, id, Push(table.schemas[i].fields, version, table.last_column + 1))
                 EXCEPT !.last_column = @ + 1])

DropColumn ==
    \E i \in CurrentSchemas, id \in ObjectIds \ Ids(table.schemas) :
       \E k \in DOMAIN table.schemas[i].fields :
          Commit(WithSchema(table, id, Without(table.schemas[i].fields, {k})))

WithSpec(t, id, fields) ==
    [t EXCEPT !.specs = Push(@, version, [id |-> id, fields |-> fields]), !.default_spec = id,
              !.spec = IF @ = Missing THEN @ ELSE fields]

Columns == AllFieldIds(table)

Greatest(ids) == CHOOSE id \in ids : \A other \in ids : other <= id

\* Since version 2 a partition field has the ID it had before, if any; before, IDs are those
\* of the spec alone.  None is used twice in a spec.
PartitionIds(kept, sources, transform) ==
    IF table.version = 1 THEN {Greatest({0} \cup Ids(kept)) + 1}
    ELSE LET known == {p \in Signed(table) : Signature(table, p) = <<sources, transform>>}
         IN IF known = {} THEN {table.last_partition + 1}
            ELSE {PartitionField(table, p).id : p \in known} \ Ids(kept)

DefaultSpecs == {i \in DOMAIN table.specs : table.specs[i].id = table.default_spec}

\* A spec of one field, or the default one with one more.
PartitionBy ==
    /\ ~Legacy(table)
    /\ \E kept \in {Empty} \cup {table.specs[i].fields : i \in DefaultSpecs},
          source \in Columns, transform \in Transforms, id \in ObjectIds \ Ids(table.specs) :
         /\ \A k \in DOMAIN kept :
               <<kept[k].sources, kept[k].transform>> # <<{source}, transform>>
         /\ \E p \in PartitionIds(kept, {source}, transform) :
               Commit([WithSpec(table, id, Push(kept, version,
                          [id |-> p, sources |-> {source}, transform |-> transform]))
                         EXCEPT !.last_partition = IF @ = Missing \/ @ >= p THEN @ ELSE p])

SortBy ==
    /\ table.orders # Missing
    /\ \E source \in Columns, id \in ObjectIds \ Ids(table.orders) :
         Commit([table EXCEPT
                   !.orders = Push(@, version, [id |-> id, fields |->
                                  [k \in {0} |-> [sources |-> {source}]]]),
                   !.default_order = id])

LegacyColumn ==
    /\ Legacy(table)
    /\ Commit([table EXCEPT !.schema = Push(@, version, table.last_column + 1),
                            !.last_column = @ + 1])

LegacyPartition ==
    /\ Legacy(table)
    /\ \E source \in Columns, transform \in Transforms :
         Commit([table EXCEPT !.spec = [k \in {0} |->
                   [id |-> 1, sources |-> {source}, transform |-> transform]]])

\* Version 2 has no single schema and partition spec, and numbers the snapshots.
Modern(t) ==
    LET arrays == IF ~Legacy(t) THEN t
                  ELSE [t EXCEPT !.schemas = [i \in {0} |-> [id |-> 0, fields |-> t.schema]],
                                 !.current_schema = 0,
                                 !.specs = [i \in {0} |-> [id |-> 0, fields |-> t.spec]],
                                 !.default_spec = 0]
    IN [arrays EXCEPT
          !.version = 2, !.uuid = TRUE, !.schema = Missing, !.spec = Missing,
          !.orders = Orders(t),
          !.default_order = IF @ = Missing THEN 0 ELSE @,
          !.last_partition =
              Greatest({0} \cup {PartitionField(arrays, p).id : p \in PartitionFields(arrays)}),
          !.last_sequence = 0,
          !.snapshots = [i \in DOMAIN @ |-> [@[i] EXCEPT !.sequence = 0]]]

Upgrade(t) ==
    /\ Write(t)
    /\ upgraded' = [upgraded EXCEPT ![t.version] = version]
    /\ UNCHANGED <<edits, fault>>

\* Version 1 allows snapshots and partition specs that version 2 cannot take over.
ToVersion2 ==
    /\ table.version = 1
    /\ Legacy(table) \/ (table.current_schema # Missing /\ table.default_spec # Missing)
    /\ \A i \in DOMAIN table.snapshots :
         table.snapshots[i].manifest_list /\ table.snapshots[i].operation
    /\ Identified(table) = PartitionFields(table)
    /\ Upgrade(Modern(table))

\* The snapshots of version 2 stay as they are, without row lineage.
ToVersion3 ==
    /\ table.version = 2
    /\ Upgrade([table EXCEPT !.version = 3, !.next_row = 0])

Healthy ==
    /\ fault = "none"
    /\ \/ CommitToMain
       \/ CommitToBranch
       \/ SetReference
       \/ DropReference
       \/ Rollback
       \/ Expire
       \/ AddColumn
       \/ DropColumn
       \/ PartitionBy
       \/ SortBy
       \/ LegacyColumn
       \/ LegacyPartition
       \/ ToVersion2
       \/ ToVersion3

-----------------------------------------------------------------------------
(* Faulty writers, and edits by hand.                                      *)

Blunder(kind, t) ==
    /\ Write(t)
    /\ fault' = kind
    /\ UNCHANGED <<edits, upgraded>>

Elsewhere == Ids(table.snapshots) \ {table.current_snapshot}

UnloggedRollback ==
    /\ CurrentSnapshot(table) # Missing
    /\ \E id \in Elsewhere :
         Blunder("unlogged-rollback",
                 [WithReference(table, "main", id) EXCEPT !.current_snapshot = id])

HalfRollback ==
    \E id \in Elsewhere : Blunder("half-rollback", [table EXCEPT !.current_snapshot = id])

UnprunedExpiry ==
    \E i \in Expirable :
       /\ \E j \in DOMAIN table.log : table.log[j].snapshot = table.snapshots[i].id
       /\ Blunder("unpruned-expiry", Expired(table, {i}))

\* A retry of a commit that had succeeded.
RepeatedCommit ==
    \E i \in DOMAIN table.snapshots :
       Blunder("repeated-commit", [table EXCEPT !.snapshots = Push(@, version, @[i])])

ClockSetBack ==
    \E id \in Elsewhere \ {-1}, i \in DOMAIN table.log :
       LET t == WithCurrent(table, id) IN
       Blunder("clock-set-back", [t EXCEPT !.log[version].timestamp = t.log[i].timestamp])

\* The counters are taken from a stale version of the document.
LostSequence ==
    /\ table.version > 1
    /\ \E id \in NewSnapshotIds :
         Blunder("lost-sequence",
                 [WithSnapshot(table, id) EXCEPT !.last_sequence = table.last_sequence])

LostColumn ==
    \E i \in CurrentSchemas, id \in ObjectIds \ Ids(table.schemas) :
       Blunder("lost-column", WithSchema(table, id,
                  Push(table.schemas[i].fields, version, table.last_column + 1)))

\* The new partition field is given the ID of another.
LostPartition ==
    /\ table.version > 1
    /\ \E p \in Signed(table), transform \in Transforms, id \in ObjectIds \ Ids(table.specs) :
         LET field == PartitionField(table, p) IN
         /\ field.transform # transform
         /\ Blunder("lost-partition",
                    WithSpec(table, id, [k \in {0} |-> [field EXCEPT !.transform = transform]]))

\* The format version is raised, and nothing else.
HalfUpgrade ==
    /\ table.version < 3
    /\ Blunder("half-upgrade", [table EXCEPT !.version = @ + 1])

Faulty ==
    /\ fault = "none" /\ edits = 0
    /\ \/ UnloggedRollback
       \/ HalfRollback
       \/ UnprunedExpiry
       \/ RepeatedCommit
       \/ ClockSetBack
       \/ LostSequence
       \/ LostColumn
       \/ LostPartition
       \/ HalfUpgrade

Values == Foreign \cup {Missing}

\* A snapshot that lists its manifests itself.
ListingManifests(t, i) ==
    [t EXCEPT !.snapshots[i].manifest_list = FALSE, !.snapshots[i].manifests = TRUE]

EditedPartitionField(field, v) ==
    {[field EXCEPT !.id = v], [field EXCEPT !.sources = {v}],
     [field EXCEPT !.sources = @ \cup {v}], [field EXCEPT !.transform = Missing]}

WithPartitionField(t, p, field) == [t EXCEPT !.specs[p[1]].fields[p[2]] = field]

WithoutReferences(t, given) == [t EXCEPT !.refs = Empty, !.refs_given = given]

\* One member set to another value, an object dropped.
EditedMembers ==
    {[table EXCEPT ![key] = v] : v \in Values,
        key \in {"version", "last_updated", "last_sequence", "last_column", "last_partition",
                 "next_row", "current_schema", "default_spec", "default_order",
                 "current_snapshot"}}
      \cup {[table EXCEPT !.uuid = FALSE]}

EditedSnapshots ==
    {[table EXCEPT !.snapshots[i][key] = v] : i \in DOMAIN table.snapshots, v \in Values,
        key \in {"id", "timestamp", "sequence", "schema"}}
      \cup {Expired(table, {i}) : i \in DOMAIN table.snapshots}
      \cup {ListingManifests(table, i) : i \in DOMAIN table.snapshots}
      \cup {[table EXCEPT !.snapshots[i].operation = FALSE] : i \in DOMAIN table.snapshots}

EditedLog ==
    {[table EXCEPT !.log[i][key] = v] : i \in DOMAIN table.log, v \in Values,
        key \in {"timestamp", "snapshot"}}
      \cup {[table EXCEPT !.log = Without(@, {i})] : i \in DOMAIN table.log}

EditedReferences ==
    {[table EXCEPT !.refs[n] = v] : n \in DOMAIN table.refs, v \in Values}
      \cup {WithoutReferences(table, g) : g \in BOOLEAN}

EditedFields ==
    (IF table.schema = Missing THEN {}
     ELSE {[table EXCEPT !.schema[k] = v] : k \in DOMAIN table.schema, v \in Values})
      \cup (UNION {{[table EXCEPT !.schemas[i].fields[k] = v] :
                k \in DOMAIN table.schemas[i].fields, v \in Values} : i \in DOMAIN table.schemas})
      \cup (UNION {{WithPartitionField(table, p, field) :
                field \in EditedPartitionField(PartitionField(table, p), v)} :
                    p \in PartitionFields(table), v \in Values})

\* An edit that the rules let pass; one that adds an error is made good before somebody
\* builds upon it.
Edit ==
    /\ fault = "none"
    /\ version <= MaxSteps /\ version' = version + 1
    /\ edits < MaxEdits /\ edits' = edits + 1
    /\ table' \in EditedMembers \cup EditedSnapshots \cup EditedLog \cup EditedReferences
                  \cup EditedFields
    /\ Errors(table') \subseteq Errors(table)
    /\ UNCHANGED <<fault, upgraded>>

Next == Healthy \/ Faulty \/ Edit

Spec == Init /\ [][Next]_vars

-----------------------------------------------------------------------------
Kept == {i \in DOMAIN table.snapshots : table.snapshots[i].id \in Retained(table)}

MainError       == Error("AL103", "main")
LineageError    == Error("AL105", "row-lineage")
ReassignedError == Error("AL106", "partition-ID-reassigned")

\* What the rules report although nobody made a mistake: `refs' without a main branch before
\* anything is committed to main; snapshots of version 2 in a table of version 3; partition
\* fields of version 1, whose IDs are those of their spec, in a table of a later version.
Alarms ==
    UNION {
      {e \in {MainError} : table.refs_given /\ CurrentSnapshot(table) = Missing},
      {e \in {LineageError} : \E i \in DOMAIN table.snapshots : i < upgraded[3]},
      {e \in {ReassignedError} : \E p, q \in Signed(table) :
           /\ p[1] < upgraded[2] /\ q[1] < upgraded[2]
           /\ ~(PartitionField(table, p).id = PartitionField(table, q).id
                  <=> Signature(table, p) = Signature(table, q))} }

\* After any history of healthy commits, whatever their order, AL101 to AL106 report exactly
\* what is named by Alarms: rollbacks, branches, expiry and evolution are within the rules,
\* and of an upgrade only what the table had before it is reported.  AL107 asks for expiry
\* only where snapshots can be expired, or the limit is below what the references keep.
NoFalseAlarm ==
    fault = "none" /\ edits = 0 =>
      /\ Errors(table) = Alarms
      /\ (\E e \in Maintenance(table) : e.what = "snapshots")
           => Expirable # {} \/ Cardinality(Kept) > MaxSnapshots

\* The errors that a healthy commit may bring about.
NewAlarms ==
    UNION {
      {e \in {MainError} : CurrentSnapshot(table') = Missing},
      {e \in {LineageError} : table.version = 2 /\ table'.version = 3},
      {e \in {ReassignedError} : table.version = 1 /\ table'.version = 2} }

\* The checks are complete enough to build upon: a commit to a document, edited or not,
\* adds no error but a false alarm, and that of a version only with the upgrade to it.
CleanKept ==
    [][\A e \in Errors(table') : e \notin Errors(table) \cup NewAlarms => ~Healthy]_vars

\* What is reported of the step that a faulty writer got wrong.
ErrorsOf(kind) ==
    CASE kind = "half-upgrade"      -> {Error("AL102", "last-sequence-number"),
                                        Error("AL102", "next-row-id")}
      [] kind = "half-rollback"     -> {MainError}
      [] kind = "repeated-commit"   -> {Error("AL104", "duplicate")}
      [] kind = "lost-column"       -> {Error("AL106", "last-column-id")}
      [] kind = "lost-partition"    -> {ReassignedError}
      [] kind = "lost-sequence"     -> {Error("AL105", "sequence-later")}
      [] kind = "unlogged-rollback" -> {Error("AL105", "log-end")}
      [] kind = "unpruned-expiry"   -> {Error("AL105", "log-snapshot")}
      [] kind = "clock-set-back"    -> {Error("AL105", "log-order")}

\* rules.md: after any history of healthy commits, the rules report the step that a faulty
\* writer got wrong, for what is wrong with it.
FaultReported == fault # "none" => Errors(table) \cap ErrorsOf(fault) # {}

\* rules.md:240, `These rules follow the adopted Iceberg format versions 1 through 3': AL105
\* reports nothing of a table that only healthy writers wrote.
UpgradeAccepted ==
    fault = "none" /\ edits = 0 => \A e \in Errors(table) : e.rule # "AL105"

\* The snapshots that were current at a moment, as the log tells.
AsOf(t, moment) ==
    LET past == {i \in DOMAIN t.log : t.log[i].timestamp <= moment}
    IN {t.log[i].snapshot : i \in {i \in past :
            \A j \in past : t.log[j].timestamp <= t.log[i].timestamp}}

\* rules.md, AL103 to AL105: in a document without errors, edited or not, the log tells
\* for every moment at most one snapshot, which is still there once, and for now the
\* current one.
TimeTravel ==
    Errors(table) = {} =>
      /\ \A moment \in 0..table.last_updated :
           LET ids == AsOf(table, moment) IN
           /\ Cardinality(ids) <= 1
           /\ \A id \in ids : Cardinality({i \in DOMAIN table.snapshots :
                                            table.snapshots[i].id = id}) = 1
      /\ CurrentSnapshot(table) # Missing /\ DOMAIN table.log # {}
           => AsOf(table, table.last_updated) = {CurrentSnapshot(table)}

=============================================================================
