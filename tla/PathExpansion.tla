--------------------------- MODULE PathExpansion ---------------------------
(***************************************************************************)
(* From the inputs of a command to the targets of its scan: expand_paths   *)
(* in crates/arrowlint-core/src/scanners.rs and Format::from_path in       *)
(* dataset.rs.                                                             *)
(*                                                                         *)
(* A path is a sequence of names, absolute and normal; a tree is a         *)
(* function from paths to nodes, each a "file", a "dir" or a "link" with   *)
(* the path it leads to, which is no link itself and may be absent.  Names *)
(* are numbers in the order of their text.                                 *)
(***************************************************************************)
EXTENDS Integers, SequencesExt

CONSTANTS
    Suffix,    \* from names to the format their suffix stands for
    Remote,    \* the names that begin a remote URL
    MaxDepth,  \* how far below an input a walk may get
    Nowhere    \* where a path leads that does not exist

Names == DOMAIN Suffix

ASSUME NamesAssumption == Names \subseteq Nat /\ IsFiniteSet(Names) /\ Remote \subseteq Names
ASSUME DepthAssumption == MaxDepth \in Nat
ASSUME NowhereAssumption == Nowhere \notin Seq(Names)

-----------------------------------------------------------------------------
(* Names.                                                                  *)

IsRemoteUrl(path) == path # <<>> /\ path[1] \in Remote

\* Format::from_path: some suffixes go before a directory called *.lance.
FormatOf(path) ==
    LET format == Suffix[Last(path)]
    IN IF /\ format \notin {"Parquet", "Feather", "ArrowIpc", "IcebergMetadata"}
          /\ \E i \in DOMAIN path : Suffix[path[i]] = "LanceDataset"
       THEN "LanceDataset" ELSE format

IsLanceDatasetRoot(path) == path # <<>> /\ Suffix[Last(path)] = "LanceDataset"

LanceAncestors(path) == {p \in Prefixes(path) : IsLanceDatasetRoot(p)}

Longest(paths) == CHOOSE p \in paths : \A q \in paths : Len(q) <= Len(p)

\* The path itself is its nearest ancestor.
LanceDatasetRoot(path) == Longest(LanceAncestors(path))

\* The order of paths, name by name.
Before(p, q) ==
    \/ IsStrictPrefix(p, q)
    \/ \E i \in DOMAIN p \cap DOMAIN q :
          p[i] < q[i] /\ SubSeq(p, 1, i - 1) = SubSeq(q, 1, i - 1)

-----------------------------------------------------------------------------
(* The file system.                                                        *)

\* The name in the directory real, where a link leads instead of it.
Enter(tree, real, name) ==
    IF real = Nowhere \/ Append(real, name) \notin DOMAIN tree THEN Nowhere
    ELSE LET node == tree[Append(real, name)]
         IN IF node.type # "link" THEN Append(real, name)
            ELSE IF node.to \in DOMAIN tree THEN node.to ELSE Nowhere

\* Where a path leads, links followed; Nowhere when there is nothing.
Real(tree, path) ==
    LET real[i \in 0..Len(path)] ==
          IF i = 0 THEN <<>> ELSE Enter(tree, real[i - 1], path[i])
    IN real[Len(path)]

Exists(tree, path) == Real(tree, path) # Nowhere
IsFile(tree, path) == Exists(tree, path) /\ tree[Real(tree, path)].type = "file"
IsDir(tree, path)  == Exists(tree, path) /\ tree[Real(tree, path)].type = "dir"

\* The entry at a path, a link not followed.
Entry(tree, path) == tree[Append(Real(tree, Front(path)), Last(path))]
HasEntry(tree, path) ==
    /\ Exists(tree, Front(path))
    /\ Append(Real(tree, Front(path)), Last(path)) \in DOMAIN tree

\* Every node is in a directory, no local path begins like a URL, and no link leads
\* to a link.
IsTree(tree) ==
    /\ DOMAIN tree \subseteq Seq(Names) \ {<<>>}
    /\ \A p \in DOMAIN tree :
          /\ ~IsRemoteUrl(p)
          /\ Len(p) > 1 => Front(p) \in DOMAIN tree /\ tree[Front(p)].type = "dir"
          /\ tree[p].type \in {"file", "dir", "link"}
          /\ tree[p].type = "link" /\ tree[p].to \in DOMAIN tree => tree[tree[p].to].type # "link"

\* The type of a directory entry, as the walk or the listing sees it.
EntryIs(tree, path, type, follow) ==
    IF follow THEN Exists(tree, path) /\ tree[Real(tree, path)].type = type
    ELSE Entry(tree, path).type = type

-----------------------------------------------------------------------------
(* Walks.                                                                  *)

\* A followed link to a directory that the walk is in.
Loops(tree, root, path, follow) ==
    /\ follow /\ IsDir(tree, path) /\ Entry(tree, path).type = "link"
    /\ \E q \in Prefixes(path) \ {path} : IsPrefix(root, q) /\ Real(tree, q) = Real(tree, path)

Broken(tree, path, follow) == follow /\ ~Exists(tree, path)

\* Mutant: the walk goes on below the root of a Lance dataset.
DescendsAnyway(tree, root, path, follow) ==
    path = root \/ /\ EntryIs(tree, path, "dir", follow)
                   /\ ~Loops(tree, root, path, follow)

\* Whether the walk from root goes below path: skip_current_dir.
Descends(tree, root, path, follow) ==
    path = root \/ /\ EntryIs(tree, path, "dir", follow)
                   /\ ~Loops(tree, root, path, follow)
                   /\ ~IsLanceDatasetRoot(path)

Below(root) == {root \o s : s \in SeqOf(Names, MaxDepth) \ {<<>>}}

\* The entries that a walk from root yields.
Walked(tree, root, follow) ==
    {p \in Below(root) :
        /\ HasEntry(tree, p)
        /\ \A q \in Prefixes(p) \ {p} : IsPrefix(root, q) => Descends(tree, root, q, follow)}

WalkFails(tree, root, follow) ==
    \E p \in Walked(tree, root, follow) : Loops(tree, root, p, follow) \/ Broken(tree, p, follow)

Targets(tree, entries, follow) ==
    {p \in entries : \/ EntryIs(tree, p, "file", follow)
                     \/ EntryIs(tree, p, "dir", follow) /\ IsLanceDatasetRoot(p)}

\* read_dir, which follows no links.
Listed(tree, root) == {p \in {Append(root, n) : n \in Names} : HasEntry(tree, p)}

-----------------------------------------------------------------------------
(* Inputs.                                                                 *)

\* Whether an input leads to a Lance dataset.
InDataset(tree, input) == LanceAncestors(input) # {} /\ Exists(tree, input)

\* What an input stands for.
Expanded(tree, input, recursive, follow) ==
    CASE IsRemoteUrl(input) -> {input}
      [] ~IsRemoteUrl(input) /\ InDataset(tree, input) -> {LanceDatasetRoot(input)}
      [] ~IsRemoteUrl(input) /\ ~InDataset(tree, input) ->
            IF IsFile(tree, input) THEN {input}
            ELSE IF recursive THEN Targets(tree, Walked(tree, input, follow), follow)
                 ELSE Targets(tree, Listed(tree, input), FALSE)

\* An input that is missing or that cannot be walked.
InputFails(tree, input, recursive, follow) ==
    /\ ~IsRemoteUrl(input) /\ ~InDataset(tree, input)
    /\ \/ ~Exists(tree, input)
       \/ recursive /\ IsDir(tree, input) /\ WalkFails(tree, input, follow)

ExpandFails(args, tree) ==
    \E i \in DOMAIN args.inputs : InputFails(tree, args.inputs[i], args.recursive, args.follow)

\* The paths of a set in their order.
Sorted(paths) ==
    [i \in 1..Cardinality(paths) |->
        CHOOSE p \in paths : Cardinality({q \in paths : Before(q, p)}) = i - 1]

\* expand_paths: the targets of all inputs, sorted, without duplicates.
ExpandPaths(args, tree) ==
    Sorted(UNION {Expanded(tree, args.inputs[i], args.recursive, args.follow) :
                     i \in DOMAIN args.inputs})

=============================================================================
