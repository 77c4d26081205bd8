---------------------------- MODULE MCArrowDiff ----------------------------
(* Parquet files with up to three row groups of one or two columns, an     *)
(* Arrow IPC file and a broken IPC stream.                                 *)
EXTENDS ArrowDiff

Column(path, values, stats, codec) ==
    [path |-> path, values |-> values, stats |-> stats, codec |-> codec, compressed |-> 4]

G(columns) == [rows |-> 1, bytes |-> 6, columns |-> columns]

\* Row groups of column a, and of both columns.
A(stats, codec) == G(<<Column("a", 1, stats, codec)>>)
AB(a, b)        == G(<<Column("a", 1, a, "ZSTD"), Column("b", 1, b, "ZSTD")>>)

\* Column b is a list with two values in the one row, and compressed otherwise.
List(a, b) == G(<<Column("a", 1, a, "ZSTD"), Column("b", 2, b, "SNAPPY")>>)

Parquet(fields, kv, groups) ==
    [fields |-> fields, kv |-> kv, schema_kv |-> kv, groups |-> groups, rows |-> Len(groups),
     size |-> 8]

Ipc(kv) ==
    [fields |-> "A", kv |-> {<<"arrow.ipc_kind", "file">>}, schema_kv |-> kv, groups |-> <<>>,
     rows |-> 1, size |-> 8]

MCBroken ==
    [fields |-> NoSchema, kv |-> {<<"arrow.ipc_kind", "stream">>}, schema_kv |-> {},
     groups |-> <<>>, rows |-> Unknown, size |-> 8]

\* Among them two that exchange the statistics of b between their row groups.
MCContents ==
    {Parquet("A", {<<"scope", "x">>}, <<A("low", "SNAPPY")>>),
     Parquet("A", {}, <<A("low", "ZSTD"), A("low", "ZSTD"), A("high", "ZSTD")>>),
     Parquet("A", {}, <<A("high", "ZSTD"), A("low", "ZSTD"), A("high", "ZSTD")>>),
     Parquet("B", {}, <<AB("low", "low"), AB("high", "high")>>),
     Parquet("B", {}, <<AB("low", "high"), AB("high", "low")>>),
     Parquet("B", {<<"scope", "x">>}, <<List("low", "high")>>),
     Ipc({<<"scope", "x">>}), MCBroken}

MCIpcContents == {Ipc({<<"scope", "x">>}), Ipc({<<"scope", "y">>})}

MCModes ==
    [front: {"native", "python"}, output: {"text"}, exit_code: {TRUE}]
      \cup [front: {"python"}, output: {"text"}, exit_code: {FALSE}]
      \cup [front: {"python"}, output: {"json"}, exit_code: {TRUE}]
MCOneMode == {[front |-> "native", output |-> "text", exit_code |-> TRUE]}
=============================================================================
