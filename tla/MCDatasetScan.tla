--------------------------- MODULE MCDatasetScan ---------------------------
(* Runs on one file, whose counts, schema or `geo' metadata vary, runs on  *)
(* several files, local and remote, that are replaced meanwhile, and runs  *)
(* on directories.                                                         *)
EXTENDS DatasetScan

\* The names d, a.parquet, b.parquet, t.lance, c.arrow, a link l, a URL and s.db.
MCSuffix == <<"Unknown", "Parquet", "Parquet", "LanceDataset", "ArrowIpc", "Unknown", "Unknown",
              "DuckDb">>
MCRemote == {7}

A == <<1, 2>>
B == <<1, 3>>

Run(inputs, tree0, disk0) ==
    [args |-> [inputs |-> inputs, recursive |-> TRUE, follow |-> FALSE], tree |-> tree0, disk |-> disk0]

Dir    == [type |-> "dir"]
File   == [type |-> "file"]
Link(p) == [type |-> "link", to |-> p]

-----------------------------------------------------------------------------
(* Contents.                                                               *)

G == <<"g">>
S == <<"s">>

Col == [physical_type |-> "BYTE_ARRAY", compression |-> "ZSTD", encodings |-> {"PLAIN"},
        statistics |-> [null_count |-> 0, distinct_count |-> None],
        num_values |-> 1, compressed |-> 1, uncompressed |-> 1]

Group(n) == [rows |-> n, bytes |-> 1, columns |-> G :> Col]

GeoColumn == [encoding |-> "WKB", types |-> <<[base |-> "Point", z |-> FALSE]>>, crs |-> "absent",
              epoch |-> "absent", orientation |-> "absent", edges |-> "absent"]

Part(number) == [n |-> number, plain |-> TRUE]
Version(minor) == <<Part(1), Part(minor), Part(0)>>

Document == [kind |-> "object", version |-> Version(0), primary |-> G, columns |-> G :> GeoColumn]

Fields == <<[name |-> G, type |-> "Binary", nullable |-> TRUE],
            [name |-> S, type |-> "Struct", nullable |-> TRUE]>>

Content == [footer |-> TRUE, decodes |-> TRUE, size |-> 1, rows |-> 1, groups |-> <<Group(1)>>,
            fields |-> Fields, metadata |-> TRUE, geo |-> <<Document>>]

Plain == [Content EXCEPT !.geo = <<>>, !.metadata = FALSE]

\* Row counts of the file and of up to three row groups.
Rows ==
    {[Plain EXCEPT !.rows = n, !.groups = [i \in DOMAIN ns |-> Group(ns[i])]] :
        n \in {-1, 1, 3}, ns \in SeqOf({-1, 1, 3}, 3)}

\* Counts of a column chunk.
Chunked ==
    {[Plain EXCEPT !.groups[1].columns[G] = [Col EXCEPT !.num_values = n, !.statistics = s, !.compressed = b]] :
        n \in {-1, 1}, b \in {-1, 1},
        s \in {None} \cup [Counts -> {None, 1, 2}]}

\* Encodings of two row groups, and what the other rules look at.
Encoded ==
    {[Plain EXCEPT !.groups = <<[rows |-> 1, bytes |-> -1, columns |-> G :> [Col EXCEPT !.encodings = e]],
                                [rows |-> 0, bytes |-> 1, columns |-> G :> [Col EXCEPT !.compression = c]]>>,
                   !.fields[2].type = t] :
        e \in {{"PLAIN_DICTIONARY"}, {"RLE_DICTIONARY", "BIT_PACKED"}},
        c \in {"UNCOMPRESSED", "LZ4"}, t \in {"Timestamp(Second, None)", "Timestamp(Nanosecond, Some)"}}

OneColumn(column) == [Content EXCEPT !.geo[1].columns = G :> column]

\* Entries, versions and columns of a `geo' document.
Documents ==
    {[Content EXCEPT !.geo = g] :
        g \in {<<Document, Document>>, <<[kind |-> "null"]>>, <<[kind |-> "malformed"]>>, <<[kind |-> "other"]>>}}
    \cup {[OneColumn([GeoColumn EXCEPT !.encoding = e]) EXCEPT !.geo[1].version = v] :
            e \in {None, "WKB", "point", "wkb"},
            v \in {None, <<Part(1)>>, Version(0), Version(1), <<Part(2), Part(1), Part(0)>>,
                   <<Part(1), [n |-> 1, plain |-> FALSE], Part(0)>>, Version(1) \o <<Part(0)>>}}
    \cup {[Content EXCEPT !.geo[1].primary = p, !.geo[1].columns = c] :
            p \in {None, <<>>, G},
            c \in {None, <<>>, G :> GeoColumn, S :> GeoColumn, G :> None, <<>> :> GeoColumn,
                   G :> GeoColumn @@ S :> None, <<"x">> :> GeoColumn}}
    \cup {[Content EXCEPT !.groups = g, !.fields[1].type = t] :
            g \in {<<>>, <<Group(1)>>, <<Group(1), [Group(1) EXCEPT !.columns[G].physical_type = "DOUBLE"]>>},
            t \in {"Utf8", "LargeBinary"}}

Types == {None, [base |-> "Point", z |-> TRUE], [base |-> "Point", z |-> FALSE], [base |-> "Curve", z |-> FALSE]}

Path(root, c) == IF root = None THEN None ELSE <<root, <<c>>>>

\* Types, bounds, coverings and attributes of a geometry column.
Spatial ==
    {OneColumn([GeoColumn EXCEPT !.types = t]) : t \in SeqOf(Types, 2) \cup {None}}
    \cup {OneColumn(GeoColumn @@ ("bbox" :> b)) :
            b \in {<<>>, <<0, 0, 1, 1>>, <<0, 2, 1, 1>>, <<0, None, 1, 1>>, <<0, 0, 1, 1, 1>>, <<0, 0, 2, 1, 1, 1>>}}
    \cup {OneColumn(GeoColumn @@ ("covering" :> [c \in Range(Coordinates) |-> Path(r[c], c)])) :
            r \in [Range(Coordinates) -> {S, G, None}]}
    \cup {OneColumn(GeoColumn @@ ("covering" :> c)) :
            c \in {None} \cup {[k \in Range(Coordinates) |-> <<<<"x">>, <<k>>>>],
                               [k \in Range(Coordinates) |-> <<S, <<"xmin">>>>],
                               [k \in Range(Coordinates) |-> <<S>>]}}
    \cup {OneColumn([GeoColumn EXCEPT !.crs = c, !.epoch = e, !.orientation = o, !.edges = d]) :
            c \in {"null", "other"}, e \in {"number", "other"}, o \in {"counterclockwise", "other"},
            d \in {"spherical", "other"}}

-----------------------------------------------------------------------------
(* Runs.                                                                   *)

OneFile ==
    {Run(<<A>>, <<1>> :> Dir @@ A :> File, A :> c) :
        c \in Rows \cup Chunked \cup Encoded \cup Documents \cup Spatial}

\* Renamed is a conforming file whose columns have other names.
Rename(name) == IF name = G THEN <<"h">> ELSE name
Renamed ==
    [Content EXCEPT !.fields[1].name = <<"h">>, !.groups[1].columns = <<"h">> :> Col,
                    !.geo[1].primary = <<"h">>, !.geo[1].columns = <<"h">> :> GeoColumn]
Strict == [Plain EXCEPT !.fields[1].nullable = FALSE]

Url   == <<7, 2>>
Arrow == <<1, 5>>
Pair  == <<1>> :> Dir @@ A :> File @@ B :> File @@ Arrow :> File

\* Local and remote files that may be replaced.
Several ==
    {Run(i, Pair, A :> c @@ B :> Content @@ Arrow :> Plain @@ Url :> d @@ <<7, 5>> :> d @@ <<7, 8>> :> d) :
        i \in {<<<<1>>, A>>, <<Url, B>>, <<<<7, 5>>>>, <<<<7, 4>>>>, <<<<7, 8>>>>, <<<<7, 1>>>>},
        c \in {Strict, Plain, [Plain EXCEPT !.decodes = FALSE], [Plain EXCEPT !.footer = FALSE]},
        d \in {Content, None}}

MCReplacements == {None, Renamed, Strict}

\* Two schemas with one fingerprint: the name of the only field of the second reads like the
\* first field of the other and the name of the next.
Joined == [name |-> G \o <<":", "Binary", ":", "true", "|">> \o S, type |-> "Struct", nullable |-> TRUE]
Ambiguous ==
    {Run(<<A, B>>, Pair, A :> Plain @@ B :> [Plain EXCEPT !.fields = <<Joined>>] @@ Arrow :> Plain)}

T == <<1, 4>>
D == <<1>> :> Dir @@ A :> File @@ T :> Dir @@ T \o <<2>> :> File @@ T \o <<1>> :> Dir @@ T \o <<1, 8>> :> File

Trees ==
    {D, D @@ <<1, 6>> :> Link(T \o <<1>>), D @@ <<1, 6>> :> Link(<<1>>), D @@ <<1, 6>> :> Link(<<9>>),
     D @@ <<6>> :> Link(<<1>>), D @@ <<1, 1>> :> File, D @@ <<1, 1>> :> Dir @@ <<1, 1, 8>> :> File}

Directories ==
    {[args |-> [inputs |-> i, recursive |-> r, follow |-> f], tree |-> t,
      disk |-> [p \in {q \in DOMAIN t : t[q].type = "file"} |-> Plain]] :
        i \in {<<<<1>>>>, <<<<1>>, A, T>>, <<T \o <<1>>, T \o <<1, 8>>>>, <<T \o <<2>>, <<1>>>>, <<<<6>>>>, <<<<8>>>>},
        r \in BOOLEAN, f \in BOOLEAN, t \in Trees}

MCScenarios == OneFile \cup Several \cup Ambiguous \cup Directories

\* A part of a Lance dataset whose name ends like that of a dataset.
MCParts ==
    {Run(i, D @@ T \o <<1, 4>> :> File, A :> Plain @@ T \o <<2>> :> Plain @@ T \o <<1, 4>> :> Plain) :
        i \in {<<<<1>>>>, <<T \o <<1>>>>, <<T \o <<1, 4>>>>, <<T, T \o <<1, 4>>>>}}

=============================================================================
