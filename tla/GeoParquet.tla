----------------------------- MODULE GeoParquet -----------------------------
(***************************************************************************)
(* The rules on the `geo' metadata of Parquet files, AL018 to AL021 in     *)
(* crates/arrowlint-core/src/geoparquet.rs.                                *)
(*                                                                         *)
(* An entry of the `geo' key is a record whose kind is "null" (a key       *)
(* without value), "malformed" (not JSON), "other" (JSON, not an object)   *)
(* or "object", with                                                       *)
(*   version: None or the components between the dots, each with plain,    *)
(*     whether it is a decimal number without leading zero, and n, what    *)
(*     parsing it as a number gives;                                       *)
(*   primary: None or a name;                                              *)
(*   columns: None or a function from names to None (not an object) or to  *)
(*     the metadata of a geometry column.                                  *)
(* A name is a sequence of characters.  What is absent or of the wrong     *)
(* JSON type is None where the code tells no more apart.                   *)
(***************************************************************************)
EXTENDS ParquetRules

IsObject(entry) == entry.kind = "object"

\* parse_metadata on the values of all `geo' keys.
ParseMetadata(entries) ==
    IF entries = <<>> THEN None
    ELSE LET bad == Len(entries) > 1 \/ entries[1].kind \in {"null", "malformed"}
         IN [error |-> bad, document |-> IF bad THEN None ELSE entries[1]]

\* The files and documents the rules see.
GeoFiles(dataset) == {f \in ParquetFiles(dataset) : f.geo # None}
GeoDocuments(dataset) == {f \in GeoFiles(dataset) : f.geo.document # None /\ IsObject(f.geo.document)}

Columns(f) == f.geo.document.columns

\* The geometry columns described by an object.
GeoColumns(f) == IF Columns(f) = None THEN {} ELSE {c \in DOMAIN Columns(f) : Columns(f)[c] # None}

GeoColumnReports(rule, f, Bad(_, _)) ==
    {Report(rule, f, <<0, c>>) : c \in {d \in GeoColumns(f) : Bad(d, Columns(f)[d])}}

\* The parts of a document that are read: a version is None or the numbers
\* between its dots, a covering the four paths of its bbox.
IsVersion(version) == version # None => version \in Seq([n: Nat \cup {None}, plain: BOOLEAN])

IsTypes(types) == types # None => types \in Seq([base: STRING, z: BOOLEAN] \cup {None})

Coordinates == <<"xmin", "ymin", "xmax", "ymax">>

\* True of any literals; the provers do not know it.
ASSUME CoordinatesAssumption == Range(Coordinates) \subseteq STRING

IsBbox(bbox) ==
    bbox # None =>
        /\ DOMAIN bbox = Range(Coordinates)
        /\ \A c \in DOMAIN bbox : bbox[c] \in Seq(Name \cup {None}) \cup {None}

IsColumn(column) ==
    /\ IsTypes(column.types)
    /\ "covering" \in DOMAIN column => IsBbox(column.covering)

IsDocument(document) ==
    /\ IsVersion(document.version)
    /\ document.columns # None =>
          /\ DOMAIN document.columns \subseteq Name
          /\ \A c \in DOMAIN document.columns :
                document.columns[c] # None => IsColumn(document.columns[c])

-----------------------------------------------------------------------------
(* AL018: the document.                                                    *)

IsSupportedVersion(version) ==
    Len(version) = 3 /\ version[1].n = 1 /\ \A i \in 1..3 : version[i].plain

InvalidDocument(document) ==
    \/ document.version = None \/ ~IsSupportedVersion(document.version)
    \/ document.primary \in {None, <<>>}
    \/ document.columns = None \/ DOMAIN document.columns = {}

InvalidGeoParquetMetadata(dataset) ==
    {Report("AL018", f, WholeFile) :
        f \in {g \in GeoFiles(dataset) : \/ g.geo.error
                                         \/ ~IsObject(g.geo.document)
                                         \/ InvalidDocument(g.geo.document)}}

-----------------------------------------------------------------------------
(* AL019: the geometry columns.                                            *)

NativeEncodings == {"point", "linestring", "polygon", "multipoint", "multilinestring", "multipolygon"}

GeometryTypes == {"GeometryCollection", "Point", "LineString", "Polygon", "MultiPoint",
                  "MultiLineString", "MultiPolygon"}

SupportsNativeEncoding(version) ==
    version # None /\ Len(version) >= 2 /\ version[2].n # None /\ version[2].n >= 1

EncodingIsValid(encoding, version) ==
    \/ encoding = "WKB"
    \/ encoding \in NativeEncodings /\ SupportsNativeEncoding(version)

\* A geometry type is None or a base and whether ` Z' follows it.
InvalidTypes(types) ==
    {i \in DOMAIN types : \/ types[i] = None \/ types[i].base \notin GeometryTypes
                          \/ \E j \in 1..(i - 1) : types[j] = types[i]}

FieldsNamed(f, name) == {i \in DOMAIN f.schema.fields : f.schema.fields[i].name = name}

\* The chunks at the column's path decide; the schema does where there are none.
WKBColumnIsBinary(f, name) ==
    LET physical == {Chunk(f, id).physical_type : id \in {i \in Chunks(f) : i[2] = name}}
        fields   == FieldsNamed(f, name)
    IN IF physical # {} THEN physical = {"BYTE_ARRAY"}
       ELSE fields # {} /\ f.schema.fields[Min(fields)].type \in {"Binary", "LargeBinary"}

InvalidColumn(f, name, column) ==
    \/ name = <<>>
    \/ FieldsNamed(f, name) = {}
    \/ ~EncodingIsValid(column.encoding, f.geo.document.version)
    \/ column.types = None \/ InvalidTypes(column.types) # {}
    \/ column.encoding = "WKB" /\ ~WKBColumnIsBinary(f, name)

\* One report for the primary column, one for every bad column.
InvalidGeoParquetColumns(dataset) ==
    UNION {{Report("AL019", f, <<0, c>>) :
                c \in {f.geo.document.primary} \ (DOMAIN Columns(f) \cup {None})}
             \cup {Report("AL019", f, <<0, c>>) : c \in DOMAIN Columns(f) \ GeoColumns(f)}
             \cup GeoColumnReports("AL019", f, LAMBDA name, column : InvalidColumn(f, name, column)) :
              f \in {g \in GeoDocuments(dataset) : Columns(g) # None}}

-----------------------------------------------------------------------------
(* AL020: the spatial metadata.                                            *)

\* Pairs of a minimum and a maximum, in two or three dimensions.
ValidBbox(bbox) ==
    /\ Len(bbox) \in {4, 6}
    /\ \A i \in DOMAIN bbox : bbox[i] # None
    /\ \A i \in 1..(Len(bbox) \div 2) : bbox[i] <= bbox[i + Len(bbox) \div 2]

\* Mutant: the root of the paths so far is forgotten.
CoveringStepForgetful(seen, coordinate, path) ==
    IF \/ seen.error \/ path = None
       \/ Len(path) # 2 \/ path[1] \in {None, <<>>} \/ path[2] # <<coordinate>>
    THEN [seen EXCEPT !.error = TRUE]
    ELSE [seen EXCEPT !.root = path[1]]

\* One turn of the loop of covering_error; after an error nothing changes.
CoveringStep(seen, coordinate, path) ==
    IF \/ seen.error \/ path = None
       \/ Len(path) # 2 \/ path[1] \in {None, <<>>} \/ path[2] # <<coordinate>>
       \/ seen.root \notin {None, path[1]}
    THEN [seen EXCEPT !.error = TRUE]
    ELSE [seen EXCEPT !.root = path[1]]

\* A covering is its bbox: None, or a path or None for each coordinate.
CoveringError(f, bbox) ==
    \/ bbox = None
    \/ LET seen[i \in 0..4] ==
             IF i = 0 THEN [error |-> FALSE, root |-> None]
             ELSE CoveringStep(seen[i - 1], Coordinates[i], bbox[Coordinates[i]])
       IN seen[4].error \/ FieldsNamed(f, seen[4].root) = {}

InvalidAttributes(column) ==
    \/ column.crs \notin {"absent", "object", "null"}
    \/ column.epoch \notin {"absent", "number"}
    \/ column.orientation \notin {"absent", "counterclockwise"}
    \/ column.edges \notin {"absent", "planar", "spherical"}
    \/ "bbox" \in DOMAIN column /\ ~ValidBbox(column.bbox)

InvalidSpatial(f, column) ==
    \/ InvalidAttributes(column)
    \/ "covering" \in DOMAIN column /\ CoveringError(f, column.covering)

InvalidGeoParquetSpatialMetadata(dataset) ==
    UNION {GeoColumnReports("AL020", f, LAMBDA name, column : InvalidSpatial(f, column)) :
              f \in GeoDocuments(dataset)}

\* AL021: no bounds at all.
MissingGeoParquetPruningMetadata(dataset) ==
    UNION {GeoColumnReports("AL021", f, LAMBDA name, column :
                                DOMAIN column \cap {"bbox", "covering"} = {}) :
              f \in GeoDocuments(dataset)}

GeoParquetDiagnostics(dataset) ==
    UNION {InvalidGeoParquetMetadata(dataset), InvalidGeoParquetColumns(dataset),
           InvalidGeoParquetSpatialMetadata(dataset), MissingGeoParquetPruningMetadata(dataset)}

=============================================================================
