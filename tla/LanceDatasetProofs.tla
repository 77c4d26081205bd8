------------------------- MODULE LanceDatasetProofs -------------------------
(***************************************************************************)
(* Proofs about the linter of a Lance dataset, with any number of commits, *)
(* of fragments and of files, and any interleaving of writer, cleanup and  *)
(* linter.                                                                 *)
(*                                                                         *)
(* Healthy is what Lance guarantees of a manifest.  Nothing is reported of *)
(* a healthy one, each commit gives one, and HealthyInv says what writer,  *)
(* listing and linter then know of the directory.  Editable is what every  *)
(* fault leaves of a manifest; with it the types hold of a broken dataset  *)
(* as well.                                                                *)
(***************************************************************************)
EXTENDS LanceDataset, SequenceTheorems, WellFoundedInduction, TLAPS

-----------------------------------------------------------------------------
(* Loops and sequences.                                                    *)

NatLess == {p \in Nat \X Nat : p[1] < p[2]}

LEMMA NatLessWellFounded == IsWellFoundedOn(NatLess, Nat)
BY NatLessThanWellFounded DEF OpToRel, NatLess

LEMMA LeastElement ==
    ASSUME NEW T, T \subseteq Nat, T # {}
    PROVE  \E x \in T : \A y \in T : x <= y
<1>1. PICK x \in T : \A y \in T : ~(<<y, x>> \in NatLess)
  BY NatLessWellFounded, WFMin
<1>2. ASSUME NEW y \in T PROVE x <= y
  <2>1. ~(y < x)
    BY <1>1 DEF NatLess
  <2> QED
    BY <2>1
<1> QED
  BY <1>2

IsLoop(f, n, V, z, add) ==
    f \in [0..n -> V] /\ f[0] = z /\ \A i \in 1..n : f[i] = add[i][f[i - 1]]

LEMMA LoopExists ==
    ASSUME NEW n \in Nat, NEW V, NEW z \in V, NEW add \in [1..n -> [V -> V]]
    PROVE  \E f : IsLoop(f, n, V, z, add)
<1> DEFINE Runs(k, f) == IsLoop(f, k, V, z, add)
<1> DEFINE T == {k \in 0..n : \A f : ~Runs(k, f)}
<1>1. T = {}
  <2> SUFFICES ASSUME T # {} PROVE FALSE
    OBVIOUS
  <2>1. PICK k \in T : \A j \in T : k <= j
    <3>1. T \subseteq Nat
      OBVIOUS
    <3> HIDE DEF T
    <3> QED
      BY <3>1, LeastElement
  <2>2. k \in 0..n /\ \A f : ~Runs(k, f)
    OBVIOUS
  <2>3. k # 0
    <3> SUFFICES ASSUME k = 0 PROVE FALSE
      OBVIOUS
    <3> DEFINE f == [i \in 0..0 |-> z]
    <3>1. f \in [0..0 -> V] /\ f[0] = z /\ 1..0 = {}
      OBVIOUS
    <3> HIDE DEF f
    <3>2. Runs(0, f)
      BY <3>1 DEF IsLoop
    <3> QED
      BY <2>2, <3>2
  <2>4. k - 1 \in 0..n /\ k - 1 \notin T
    <3> HIDE DEF T
    <3>1. k - 1 \in 0..n /\ ~(k <= k - 1)
      BY <2>2, <2>3
    <3> QED
      BY <2>1, <3>1
  <2>5. PICK g : Runs(k - 1, g)
    BY <2>4
  <2> HIDE DEF T
  <2> DEFINE f == [i \in 0..k |-> IF i = k THEN add[k][g[k - 1]] ELSE g[i]]
  <2>6. k \in 1..n /\ k - 1 \in 0..(k - 1) /\ \A i \in 0..k : i = k \/ i \in 0..(k - 1)
    BY <2>2, <2>3
  <2>7. g \in [0..(k - 1) -> V] /\ g[k - 1] \in V
    BY <2>5, <2>6 DEF IsLoop
  <2>8. add[k][g[k - 1]] \in V
    BY <2>6, <2>7
  <2>9. f \in [0..k -> V]
    BY <2>6, <2>7, <2>8
  <2>10. f[0] = z
    BY <2>3, <2>5, <2>6 DEF IsLoop
  <2>11. ASSUME NEW i \in 1..k PROVE f[i] = add[i][f[i - 1]]
    <3>1. CASE i = k
      <4>1. f[i] = add[k][g[k - 1]] /\ f[i - 1] = g[k - 1]
        BY <2>6, <3>1
      <4> QED
        BY <3>1, <4>1
    <3>2. CASE i # k
      <4>1. i \in 1..(k - 1) /\ i \in 0..k /\ i - 1 \in 0..k /\ i - 1 # k
        BY <2>6, <3>2
      <4>2. f[i] = g[i] /\ f[i - 1] = g[i - 1]
        BY <3>2, <4>1
      <4> QED
        BY <2>5, <4>1, <4>2 DEF IsLoop
    <3> QED
      BY <3>1, <3>2
  <2> HIDE DEF f
  <2>12. Runs(k, f)
    BY <2>9, <2>10, <2>11 DEF IsLoop
  <2> QED
    BY <2>2, <2>12
<1>2. n \in 0..n /\ n \notin T
  <2> HIDE DEF T
  <2> QED
    BY <1>1
<1> QED
  BY <1>2

\* F consists of elements of the sequences ss: element p of F is element b[p] of
\* sequence a[p], and nothing is taken twice.
FlatOf(F, ss, n, S, a, b) ==
    /\ F \in Seq(S)
    /\ a \in [1..Len(F) -> 1..n] /\ b \in [1..Len(F) -> Nat]
    /\ \A p \in 1..Len(F) : b[p] \in 1..Len(ss[a[p]]) /\ F[p] = ss[a[p]][b[p]]
    /\ \A p, q \in 1..Len(F) : a[p] = a[q] /\ b[p] = b[q] => p = q

LEMMA FlatAppend ==
    ASSUME NEW S, NEW ss, NEW n \in Nat, NEW F, NEW a, NEW b, FlatOf(F, ss, n, S, a, b),
           ss[n + 1] \in Seq(S)
    PROVE  \E c, d : FlatOf(F \o ss[n + 1], ss, n + 1, S, c, d)
<1> DEFINE l == Len(F)
<1> DEFINE m == Len(ss[n + 1])
<1> DEFINE G == F \o ss[n + 1]
<1>1. l \in Nat /\ m \in Nat /\ F \in Seq(S)
  BY LenProperties DEF FlatOf
<1>2. /\ G \in Seq(S) /\ Len(G) = l + m
      /\ \A p \in 1..(l + m) : G[p] = IF p <= l THEN F[p] ELSE ss[n + 1][p - l]
  BY <1>1, ConcatProperties
<1> DEFINE c == [p \in 1..(l + m) |-> IF p <= l THEN a[p] ELSE n + 1]
<1> DEFINE d == [p \in 1..(l + m) |-> IF p <= l THEN b[p] ELSE p - l]
<1>3. /\ a \in [1..l -> 1..n] /\ b \in [1..l -> Nat]
      /\ \A p \in 1..l : b[p] \in 1..Len(ss[a[p]]) /\ F[p] = ss[a[p]][b[p]]
      /\ \A p, q \in 1..l : a[p] = a[q] /\ b[p] = b[q] => p = q
  BY DEF FlatOf
<1> HIDE DEF l, G
<1>4. m \in Nat /\ m = Len(ss[n + 1])
  BY <1>1
<1> HIDE DEF m
<1>5. /\ \A p \in 1..l : p \in 1..(l + m) /\ c[p] = a[p] /\ d[p] = b[p] /\ a[p] \in 1..n /\ b[p] \in Nat
      /\ \A p \in 1..(l + m) : ~(p <= l) => c[p] = n + 1 /\ d[p] = p - l /\ p - l \in 1..m
      /\ \A p \in 1..(l + m) : p <= l => p \in 1..l
  BY <1>1, <1>3, <1>4
<1>6. DOMAIN c = 1..(l + m) /\ DOMAIN d = 1..(l + m) /\ c = [p \in 1..(l + m) |-> c[p]]
      /\ d = [p \in 1..(l + m) |-> d[p]]
  OBVIOUS
<1> HIDE DEF c, d
<1>7. c \in [1..(l + m) -> 1..(n + 1)] /\ d \in [1..(l + m) -> Nat]
  <2>1. \A p \in 1..(l + m) : c[p] \in 1..(n + 1) /\ d[p] \in Nat
    BY <1>1, <1>4, <1>5
  <2> QED
    BY <1>6, <2>1
<1>8. ASSUME NEW p \in 1..(l + m) PROVE d[p] \in 1..Len(ss[c[p]]) /\ G[p] = ss[c[p]][d[p]]
  <2>1. CASE p <= l
    BY <1>2, <1>3, <1>5, <2>1
  <2>2. CASE ~(p <= l)
    BY <1>2, <1>4, <1>5, <2>2
  <2> QED
    BY <2>1, <2>2
<1>9. ASSUME NEW p \in 1..(l + m), NEW q \in 1..(l + m), c[p] = c[q], d[p] = d[q] PROVE p = q
  <2>1. CASE p <= l /\ q <= l
    BY <1>3, <1>5, <1>9, <2>1
  <2>2. CASE ~(p <= l) /\ ~(q <= l)
    BY <1>1, <1>4, <1>5, <1>9, <2>2
  <2>3. CASE (p <= l /\ ~(q <= l)) \/ (~(p <= l) /\ q <= l)
    BY <1>5, <1>9, <2>3
  <2> QED
    BY <2>1, <2>2, <2>3
<1>10. FlatOf(G, ss, n + 1, S, c, d)
  BY <1>2, <1>7, <1>8, <1>9 DEF FlatOf
<1> QED
  BY <1>10 DEF G

\* FlattenSeq takes each element of the sequences at most once.
LEMMA FlattenPositions ==
    ASSUME NEW S, NEW ss \in Seq(Seq(S))
    PROVE  \E a, b : FlatOf(FlattenSeq(ss), ss, Len(ss), S, a, b)
<1> DEFINE n == Len(ss)
<1>1. n \in Nat /\ \A i \in 1..n : ss[i] \in Seq(S)
  OBVIOUS
<1>2. CASE n = 0
  <2>1. FlattenSeq(ss) = <<>>
    BY <1>2 DEF FlattenSeq
  <2> DEFINE e == [i \in 1..0 |-> 0]
  <2>2. e \in [1..0 -> 1..n] /\ e \in [1..0 -> Nat] /\ 1..0 = {}
    OBVIOUS
  <2> HIDE DEF e
  <2>3. FlatOf(<<>>, ss, n, S, e, e)
    BY <2>2 DEF FlatOf
  <2> QED
    BY <2>1, <2>3
<1>3. CASE n # 0
  <2> DEFINE Loop(f) == f = [i \in 1..n |-> IF i = 1 THEN ss[i] ELSE f[i - 1] \o ss[i]]
  <2>1. \E f : Loop(f)
    <3> DEFINE V == Seq(S)
    <3> DEFINE add == [i \in 1..n |-> [v \in V |-> IF i = 1 THEN ss[i] ELSE v \o ss[i]]]
    <3>1. \A i \in 1..n, v \in V : (IF i = 1 THEN ss[i] ELSE v \o ss[i]) \in V
      BY <1>1, ConcatProperties
    <3>2. <<>> \in V
      OBVIOUS
    <3> HIDE DEF n, V
    <3>3. add \in [1..n -> [V -> V]]
      BY <3>1
    <3>4. \A i \in 1..n, v \in V : add[i][v] = IF i = 1 THEN ss[i] ELSE v \o ss[i]
      OBVIOUS
    <3> HIDE DEF add
    <3>5. PICK t \in [0..n -> V] : t[0] = <<>> /\ \A i \in 1..n : t[i] = add[i][t[i - 1]]
      <4>1. PICK t : IsLoop(t, n, V, <<>>, add)
        BY <1>1, <3>2, <3>3, LoopExists
      <4> QED
        BY <4>1, Zenon DEF IsLoop
    <3> DEFINE f == [i \in 1..n |-> t[i]]
    <3>6. \A i \in 1..n : f[i] = IF i = 1 THEN ss[i] ELSE f[i - 1] \o ss[i]
      <4> SUFFICES ASSUME NEW i \in 1..n PROVE f[i] = IF i = 1 THEN ss[i] ELSE f[i - 1] \o ss[i]
        OBVIOUS
      <4>1. t[i - 1] \in V /\ f[i] = t[i]
        BY <1>1
      <4>2. i # 1 => f[i - 1] = t[i - 1]
        BY <1>1
      <4> HIDE DEF f
      <4> QED
        BY <3>4, <3>5, <4>1, <4>2
    <3>7. f = [i \in 1..n |-> f[i]]
      OBVIOUS
    <3> HIDE DEF f
    <3>8. f = [i \in 1..n |-> IF i = 1 THEN ss[i] ELSE f[i - 1] \o ss[i]]
      BY <3>6, <3>7
    <3> QED
      BY <3>8
  <2> DEFINE flatten == CHOOSE f : Loop(f)
  <2>2. Loop(flatten)
    BY <2>1
  <2>3. FlattenSeq(ss) = flatten[n]
    BY <1>3 DEF FlattenSeq
  <2> HIDE DEF flatten
  <2>4. /\ flatten[1] = ss[1]
        /\ \A i \in 1..n : i # 1 => flatten[i] = flatten[i - 1] \o ss[i]
    <3> HIDE DEF n
    <3>1. 1 \in 1..n
      BY <1>1, <1>3
    <3>2. \A i \in 1..n : flatten[i] = IF i = 1 THEN ss[i] ELSE flatten[i - 1] \o ss[i]
      BY <2>2, Zenon
    <3> QED
      BY <3>1, <3>2
  <2> DEFINE Flat(k) == \E a, b : FlatOf(flatten[k], ss, k, S, a, b)
  <2> DEFINE T == {k \in 1..n : ~Flat(k)}
  <2>5. T = {}
    <3> SUFFICES ASSUME T # {} PROVE FALSE
      OBVIOUS
    <3>1. PICK k \in T : \A j \in T : k <= j
      <4>1. T \subseteq Nat
        BY <1>1
      <4> HIDE DEF T
      <4> QED
        BY <4>1, LeastElement
    <3>2. k \in 1..n /\ ~Flat(k) /\ \A j \in 1..n : ~Flat(j) => k <= j
      <4> HIDE DEF Flat, n
      <4> QED
        BY <3>1
    <3>3. CASE k = 1
      <4> DEFINE l == Len(ss[1])
      <4> DEFINE a == [p \in 1..l |-> 1]
      <4> DEFINE b == [p \in 1..l |-> p]
      <4>1. l \in Nat /\ ss[1] \in Seq(S)
        BY <1>1, <1>3
      <4>2. /\ a \in [1..l -> 1..1] /\ b \in [1..l -> Nat]
            /\ \A p \in 1..l : a[p] = 1 /\ b[p] = p
        <5> HIDE DEF l
        <5> QED
          BY <4>1
      <4> HIDE DEF a, b
      <4>3. FlatOf(ss[1], ss, 1, S, a, b)
        BY <4>1, <4>2 DEF FlatOf
      <4> QED
        BY <2>4, <3>2, <3>3, <4>3
    <3>4. CASE k # 1
      <4>1. k - 1 \in 1..n /\ k - 1 \in Nat /\ ~(k <= k - 1) /\ k - 1 + 1 = k
        BY <1>1, <3>2, <3>4
      <4>2. PICK a, b : FlatOf(flatten[k - 1], ss, k - 1, S, a, b)
        BY <3>2, <4>1
      <4>3. ss[k - 1 + 1] \in Seq(S)
        BY <1>1, <3>2, <4>1
      <4>4. \E c, d : FlatOf(flatten[k - 1] \o ss[k], ss, k, S, c, d)
        <5> HIDE DEF n
        <5> QED
          BY <4>1, <4>2, <4>3, FlatAppend
      <4> QED
        BY <2>4, <3>2, <3>4, <4>4
    <3> QED
      BY <3>3, <3>4
  <2>6. Flat(n)
    <3>1. n \in 1..n /\ n \notin T
      <4> HIDE DEF T
      <4> QED
        BY <1>1, <1>3, <2>5
    <3> HIDE DEF Flat
    <3> QED
      BY <3>1
  <2> QED
    BY <2>3, <2>6
<1> QED
  BY <1>2, <1>3

LEMMA FlattenElements ==
    ASSUME NEW S, NEW ss \in Seq(Seq(S))
    PROVE  /\ FlattenSeq(ss) \in Seq(S)
           /\ \A p \in DOMAIN FlattenSeq(ss) :
                 \E i \in DOMAIN ss : \E j \in DOMAIN ss[i] : FlattenSeq(ss)[p] = ss[i][j]
<1> DEFINE F == FlattenSeq(ss)
<1>1. PICK a, b : FlatOf(F, ss, Len(ss), S, a, b)
  BY FlattenPositions
<1>2. DOMAIN ss = 1..Len(ss) /\ \A i \in DOMAIN ss : DOMAIN ss[i] = 1..Len(ss[i])
  OBVIOUS
<1> HIDE DEF F
<1>3. F \in Seq(S) /\ DOMAIN F = 1..Len(F)
  BY <1>1 DEF FlatOf
<1>4. ASSUME NEW p \in DOMAIN F
      PROVE  \E i \in DOMAIN ss : \E j \in DOMAIN ss[i] : F[p] = ss[i][j]
  <2>1. a[p] \in DOMAIN ss /\ b[p] \in DOMAIN ss[a[p]] /\ F[p] = ss[a[p]][b[p]]
    BY <1>1, <1>2, <1>3 DEF FlatOf
  <2> QED
    BY <2>1
<1> QED
  BY <1>3, <1>4 DEF F

\* Flattened, sequences without repeats that have no number in common have no repeats.
LEMMA FlattenDistinct ==
    ASSUME NEW ss \in Seq(Seq(Int)), \A i \in DOMAIN ss : Repeats(ss[i]) = {},
           \A i, k \in DOMAIN ss : \A j \in DOMAIN ss[i], l \in DOMAIN ss[k] :
              ss[i][j] >= 0 /\ ss[i][j] = ss[k][l] => i = k
    PROVE  Repeats(FlattenSeq(ss)) = {}
<1> DEFINE F == FlattenSeq(ss)
<1>1. PICK a, b : FlatOf(F, ss, Len(ss), Int, a, b)
  BY FlattenPositions
<1>2. DOMAIN ss = 1..Len(ss) /\ \A i \in DOMAIN ss : DOMAIN ss[i] = 1..Len(ss[i])
  OBVIOUS
<1> HIDE DEF F
<1>3. F \in Seq(Int) /\ DOMAIN F = 1..Len(F) /\ Len(F) \in Nat
  BY <1>1, LenProperties DEF FlatOf
<1>4. ASSUME NEW p \in DOMAIN F, NEW q \in 1..(p - 1), F[p] >= 0, F[q] = F[p] PROVE FALSE
  <2>1. q \in 1..Len(F) /\ p \in 1..Len(F) /\ p # q
    BY <1>3
  <2>2. /\ a[p] \in DOMAIN ss /\ b[p] \in DOMAIN ss[a[p]] /\ F[p] = ss[a[p]][b[p]]
        /\ a[q] \in DOMAIN ss /\ b[q] \in DOMAIN ss[a[q]] /\ F[q] = ss[a[q]][b[q]]
        /\ ~(a[p] = a[q] /\ b[p] = b[q])
    BY <1>1, <1>2, <2>1 DEF FlatOf
  <2>3. a[p] = a[q] /\ b[p] # b[q]
    BY <1>4, <2>2
  <2> DEFINE s == ss[a[p]]
  <2>4. s \in Seq(Int) /\ Repeats(s) = {} /\ DOMAIN s = 1..Len(s) /\ Len(s) \in Nat
    BY <2>2
  <2>5. b[p] \in DOMAIN s /\ b[q] \in DOMAIN s /\ s[b[p]] = s[b[q]] /\ s[b[p]] >= 0
    BY <1>4, <2>2, <2>3
  <2> HIDE DEF s
  <2>6. b[p] \in 1..(b[q] - 1) \/ b[q] \in 1..(b[p] - 1)
    BY <2>3, <2>4, <2>5
  <2> QED
    BY <2>4, <2>5, <2>6 DEF Repeats
<1>5. \A p \in DOMAIN F : ~(F[p] >= 0 /\ \E q \in 1..(p - 1) : F[q] = F[p])
  BY <1>4
<1> QED
  BY <1>5 DEF Repeats, F

\* F consists of the elements of sequences of one element or none, none taken twice.
IsChoice(a, F, ss) ==
    /\ a \in [DOMAIN F -> DOMAIN ss]
    /\ \A p \in DOMAIN F : ss[a[p]] # <<>> /\ F[p] = ss[a[p]][1]
    /\ \A p, q \in DOMAIN F : a[p] = a[q] => p = q

LEMMA FlattenOptions ==
    ASSUME NEW S, NEW ss \in Seq(Seq(S)), \A i \in DOMAIN ss : Len(ss[i]) <= 1
    PROVE  \E a : IsChoice(a, FlattenSeq(ss), ss)
<1> DEFINE F == FlattenSeq(ss)
<1>1. PICK a, b : FlatOf(F, ss, Len(ss), S, a, b)
  BY FlattenPositions
<1>2. DOMAIN ss = 1..Len(ss) /\ \A i \in DOMAIN ss : Len(ss[i]) \in Nat /\ ss[i] \in Seq(S)
  OBVIOUS
<1> HIDE DEF F
<1>3. F \in Seq(S) /\ DOMAIN F = 1..Len(F)
  BY <1>1 DEF FlatOf
<1>4. a \in [DOMAIN F -> DOMAIN ss]
  BY <1>1, <1>2, <1>3 DEF FlatOf
<1>5. ASSUME NEW p \in DOMAIN F PROVE b[p] = 1 /\ ss[a[p]] # <<>> /\ F[p] = ss[a[p]][1]
  <2>1. a[p] \in DOMAIN ss /\ b[p] \in 1..Len(ss[a[p]]) /\ F[p] = ss[a[p]][b[p]]
    BY <1>1, <1>3, <1>4 DEF FlatOf
  <2>2. Len(ss[a[p]]) \in Nat /\ Len(ss[a[p]]) <= 1
    BY <1>2, <2>1
  <2>3. b[p] = 1 /\ Len(ss[a[p]]) # 0
    BY <2>1, <2>2
  <2> QED
    BY <2>1, <2>3
<1>6. ASSUME NEW p \in DOMAIN F, NEW q \in DOMAIN F, a[p] = a[q] PROVE p = q
  BY <1>1, <1>3, <1>5, <1>6 DEF FlatOf
<1>7. IsChoice(a, F, ss)
  BY <1>4, <1>5, <1>6 DEF IsChoice
<1> QED
  BY <1>7 DEF F

-----------------------------------------------------------------------------
(* Healthy manifests: what the commits of Lance keep.                      *)

HealthyFile(file) ==
    /\ file \in DataFiles
    /\ IsSafeRelativePath(file.path)
    /\ \A i \in DOMAIN file.fields : file.fields[i] >= 0 \/ file.fields[i] = -2
    /\ Repeats(file.fields) = {}
    /\ file.column_indices = [i \in DOMAIN file.fields |-> i - 1]
    /\ file.base_id = None

\* No field is in two data files of a fragment.
Disjoint(files) ==
    \A i, k \in DOMAIN files : \A j \in DOMAIN files[i].fields, l \in DOMAIN files[k].fields :
        files[i].fields[j] >= 0 /\ files[i].fields[j] = files[k].fields[l] => i = k

\* A deletion file, of an earlier version, leaves some of the rows.
HealthyDeletion(d, rows, version) ==
    /\ d.file_type \in {0, 1} /\ d.read_version < version
    /\ d.num_deleted_rows < rows /\ d.base_id = None

HealthyFragment(g, version) ==
    /\ g \in Fragments
    /\ \A i \in DOMAIN g.files : HealthyFile(g.files[i])
    /\ Disjoint(g.files)
    /\ g.physical_rows > 0 /\ g.overlays = 0
    /\ g.deletion # None => HealthyDeletion(g.deletion, g.physical_rows, version)

HealthyFragments(fragments, version, max_fragment_id) ==
    /\ fragments \in Seq(Fragments)
    /\ \A i \in DOMAIN fragments :
          HealthyFragment(fragments[i], version) /\ fragments[i].id <= max_fragment_id
    /\ \A i, j \in DOMAIN fragments : fragments[i].id = fragments[j].id => i = j

HealthyFlags(m) ==
    /\ m.reader_flags \subseteq {FlagDeletionFiles}
    /\ m.writer_flags \subseteq {FlagDeletionFiles, FlagTableConfig}
    /\ Deleted(m) # {} => FlagDeletionFiles \in m.reader_flags \cap m.writer_flags
    /\ m.config => FlagTableConfig \in m.writer_flags

Healthy(m) ==
    /\ m \in ManifestFiles
    /\ m.kind = "manifest" /\ m.long /\ m.stem = MaxWord - m.version /\ m.envelope = Envelope
    /\ m.version \in 1..LastVersion
    /\ m.max_fragment_id \in Nat
    /\ HealthyFragments(m.fragments, m.version, m.max_fragment_id)
    /\ HealthyFlags(m)
    /\ m.base_paths = <<>> /\ m.data_format = "2.1" /\ m.transaction = <<m.version>>

\* The numbers of a sequence of data files that are those of its columns have no repeats.
LEMMA ColumnsOfHealthyFile ==
    ASSUME NEW file, HealthyFile(file)
    PROVE  InvalidDataFile(file) = {}
<1>1. file.fields \in Seq(Int) /\ Len(file.fields) \in Nat /\ DOMAIN file.fields = 1..Len(file.fields)
  BY DEF HealthyFile, DataFiles
<1>2. -1 \notin Range(file.fields)
  <2>1. \A i \in DOMAIN file.fields : file.fields[i] >= 0 \/ file.fields[i] = -2
    BY DEF HealthyFile
  <2>2. \A i \in DOMAIN file.fields : file.fields[i] # -1
    BY <1>1, <2>1
  <2> QED
    BY <2>2, Zenon DEF Range
<1> DEFINE n == Len(file.fields)
<1>3. file.column_indices = [i \in 1..n |-> i - 1] /\ Len(file.column_indices) = n
  <2>1. file.column_indices = [i \in 1..n |-> i - 1]
    BY <1>1 DEF HealthyFile
  <2> HIDE DEF n
  <2> QED
    BY <1>1, <2>1 DEF n
<1>4. Repeats(file.column_indices) = {}
  <2> HIDE DEF n
  <2>1. n \in Nat
    BY <1>1 DEF n
  <2>2. ASSUME NEW i \in 1..n, NEW j \in 1..(i - 1), file.column_indices[j] = file.column_indices[i]
        PROVE  FALSE
    BY <1>3, <2>1, <2>2
  <2>3. DOMAIN file.column_indices = 1..n
    BY <1>3
  <2> QED
    BY <2>2, <2>3 DEF Repeats
<1> QED
  <2>1. IsSafeRelativePath(file.path)
    BY DEF HealthyFile
  <2> QED
    BY <1>2, <1>3, <1>4, <2>1, Zenon DEF InvalidDataFile, ReportIf

LEMMA FragmentFieldsDistinct ==
    ASSUME NEW g, NEW version, HealthyFragment(g, version)
    PROVE  Repeats(FragmentFields(g)) = {}
<1> DEFINE ss == [i \in DOMAIN g.files |-> g.files[i].fields]
<1>1. g.files \in Seq(DataFiles) /\ DOMAIN g.files = 1..Len(g.files) /\ Len(g.files) \in Nat
  BY DEF HealthyFragment, Fragments
<1>2. \A i \in DOMAIN g.files : g.files[i].fields \in Seq(Int)
  <2>1. \A i \in DOMAIN g.files : g.files[i] \in DataFiles
    BY <1>1
  <2> QED
    BY <2>1 DEF DataFiles
<1>3. ss \in Seq(Seq(Int)) /\ DOMAIN ss = DOMAIN g.files
  BY <1>1, <1>2
<1>4. \A i \in DOMAIN ss : ss[i] = g.files[i].fields
  OBVIOUS
<1>5. FragmentFields(g) = FlattenSeq(ss)
  BY DEF FragmentFields
<1> HIDE DEF ss
<1>6. \A i \in DOMAIN ss : Repeats(ss[i]) = {}
  BY <1>3, <1>4 DEF HealthyFragment, HealthyFile
<1>7. \A i, k \in DOMAIN ss : \A j \in DOMAIN ss[i], l \in DOMAIN ss[k] :
         ss[i][j] >= 0 /\ ss[i][j] = ss[k][l] => i = k
  <2>1. Disjoint(g.files)
    BY DEF HealthyFragment
  <2> SUFFICES ASSUME NEW i \in DOMAIN ss, NEW k \in DOMAIN ss,
                      NEW j \in DOMAIN ss[i], NEW l \in DOMAIN ss[k],
                      ss[i][j] >= 0, ss[i][j] = ss[k][l]
               PROVE  i = k
    OBVIOUS
  <2>2. ss[i] = g.files[i].fields /\ ss[k] = g.files[k].fields
    BY <1>4
  <2> QED
    BY <1>3, <2>1, <2>2, Zenon DEF Disjoint
<1> QED
  BY <1>3, <1>5, <1>6, <1>7, FlattenDistinct

LEMMA FragmentsOfHealthy ==
    ASSUME NEW m, Healthy(m)
    PROVE  /\ m.fragments \in Seq(Fragments) /\ m.version \in Nat /\ m.max_fragment_id \in Nat
           /\ \A g \in Range(m.fragments) :
                 HealthyFragment(g, m.version) /\ g \in Fragments /\ g.id <= m.max_fragment_id
BY DEF Healthy, HealthyFragments, Range

\* Only the advice of AL207 is reported of a healthy manifest.
THEOREM HealthyMeansClean ==
    ASSUME NEW m, Healthy(m), NEW count
    PROVE  \A d \in ManifestDiagnostics(m, count) : d.rule = "AL207"
<1>1. InvalidFragmentIdentifiers(m) = {}
  <2> DEFINE n == Len(m.fragments)
  <2>1. /\ n \in Nat /\ DOMAIN m.fragments = 1..n
        /\ \A i \in 1..n : m.fragments[i].id \in Nat /\ m.fragments[i].id <= m.max_fragment_id
        /\ \A i, j \in 1..n : m.fragments[i].id = m.fragments[j].id => i = j
    <3>1. HealthyFragments(m.fragments, m.version, m.max_fragment_id)
      BY DEF Healthy
    <3>2. n \in Nat /\ DOMAIN m.fragments = 1..n /\ \A i \in 1..n : m.fragments[i] \in Fragments
      BY <3>1 DEF HealthyFragments
    <3>3. \A i \in 1..n : m.fragments[i].id \in Nat
      BY <3>2 DEF Fragments
    <3> QED
      BY <3>1, <3>2, <3>3 DEF HealthyFragments
  <2>2. DOMAIN Ids(m.fragments) = 1..n /\ \A i \in 1..n : Ids(m.fragments)[i] = m.fragments[i].id
    BY <2>1 DEF Ids
  <2> HIDE DEF n
  <2>3. Repeats(Ids(m.fragments)) = {}
    <3>1. ASSUME NEW i \in 1..n, NEW j \in 1..(i - 1), Ids(m.fragments)[j] = Ids(m.fragments)[i]
          PROVE  FALSE
      <4>1. j \in 1..n /\ i # j
        BY <2>1
      <4> QED
        BY <2>1, <2>2, <3>1, <4>1
    <3> QED
      BY <2>2, <3>1 DEF Repeats
  <2>4. \A id \in Range(Ids(m.fragments)) : ~(id > m.max_fragment_id)
    BY <2>1, <2>2, FragmentsOfHealthy DEF Range
  <2> QED
    BY <2>3, <2>4, Zenon DEF InvalidFragmentIdentifiers, ReportIf
<1>2. InvalidDataFiles(m) = {}
  <2> DEFINE Body(g) == ReportIf(Repeats(FragmentFields(g)) # {}, "AL203", "shared field")
                          \cup UNION {InvalidDataFile(file) : file \in Range(g.files)}
  <2>1. ASSUME NEW g \in Range(m.fragments) PROVE Body(g) = {}
    <3>1. HealthyFragment(g, m.version)
      BY FragmentsOfHealthy
    <3>2. \A file \in Range(g.files) : InvalidDataFile(file) = {}
      BY <3>1, ColumnsOfHealthyFile DEF HealthyFragment, Range
    <3>3. Repeats(FragmentFields(g)) = {}
      BY <3>1, FragmentFieldsDistinct
    <3> QED
      BY <3>2, <3>3 DEF ReportIf
  <2>2. InvalidDataFiles(m) = UNION {Body(g) : g \in Range(m.fragments)}
    BY DEF InvalidDataFiles
  <2> HIDE DEF Body
  <2> QED
    BY <2>1, <2>2
<1>3. InvalidDeletionFiles(m) = {}
  <2>1. ASSUME NEW g \in Deleted(m) PROVE InvalidDeletionFile(g, m.version) = {}
    <3>1. /\ HealthyDeletion(g.deletion, g.physical_rows, m.version)
          /\ g.deletion \in DeletionFiles /\ g.physical_rows \in Nat /\ m.version \in Nat
      BY FragmentsOfHealthy DEF Deleted, HealthyFragment, Fragments
    <3>2. ~(g.deletion.read_version > m.version) /\ ~(g.deletion.num_deleted_rows > g.physical_rows)
      BY <3>1 DEF HealthyDeletion, DeletionFiles
    <3> QED
      BY <3>1, <3>2 DEF InvalidDeletionFile, ReportIf, HealthyDeletion
  <2> QED
    BY <2>1 DEF InvalidDeletionFiles
<1>4. IncompatibleFeatures(m) = {}
  <2>1. HealthyFlags(m) /\ m.base_paths = <<>>
    BY DEF Healthy
  <2>2. \A f \in m.reader_flags \cup m.writer_flags : ~(f >= FlagUnknown)
    BY <2>1 DEF HealthyFlags, FlagUnknown, FlagDeletionFiles, FlagTableConfig
  <2> QED
    BY <2>1, <2>2 DEF IncompatibleFeatures, ReportIf, HealthyFlags
<1>5. UnstableFeatures(m) = {}
  <2>1. HealthyFlags(m) /\ m.data_format # "2.3"
    BY DEF Healthy
  <2>2. \A g \in Range(m.fragments) : ~(g.overlays > 0)
    BY FragmentsOfHealthy DEF HealthyFragment
  <2>3. FlagV2Format \notin m.writer_flags /\ FlagDataOverlays \notin m.reader_flags \cup m.writer_flags
    BY <2>1 DEF HealthyFlags, FlagV2Format, FlagDataOverlays, FlagDeletionFiles, FlagTableConfig
  <2> QED
    BY <2>1, <2>2, <2>3 DEF UnstableFeatures, ReportIf
<1>6. InvalidBasePaths(m) = {}
  <2>1. m.base_paths = <<>> /\ m.transaction = <<m.version>> /\ m.version \in Nat
    BY DEF Healthy
  <2>2. Repeats(Ids(m.base_paths)) = {} /\ Range(m.base_paths) = {}
    BY <2>1 DEF Repeats, Ids, Range
  <2>3. IsSafeRelativePath(m.transaction)
    BY <2>1 DEF IsSafeRelativePath, Range, ParentDir, RootDir
  <2>4. ASSUME NEW g \in Range(m.fragments), NEW file \in Range(g.files) PROVE file.base_id = None
    <3>1. \A i \in DOMAIN g.files : HealthyFile(g.files[i])
      BY FragmentsOfHealthy DEF HealthyFragment
    <3>2. PICK i \in DOMAIN g.files : file = g.files[i]
      BY DEF Range
    <3> QED
      BY <3>1, <3>2 DEF HealthyFile
  <2>5. ASSUME NEW g \in Deleted(m) PROVE g.deletion.base_id = None
    BY FragmentsOfHealthy DEF Deleted, HealthyFragment, HealthyDeletion
  <2>6. BaseIds(m) \subseteq {None}
    <3> DEFINE Body(g) == {file.base_id : file \in Range(g.files)}
    <3>1. \A g \in Range(m.fragments) : Body(g) \subseteq {None}
      BY <2>4
    <3> DEFINE A == UNION {Body(g) : g \in Range(m.fragments)}
    <3> DEFINE B == {g.deletion.base_id : g \in Deleted(m)}
    <3>2. BaseIds(m) = B \cup A
      BY DEF BaseIds
    <3>3. B \subseteq {None}
      BY <2>5, Zenon
    <3> HIDE DEF Body
    <3>4. A \subseteq {None}
      BY <3>1
    <3> HIDE DEF A, B
    <3> QED
      BY <3>2, <3>3, <3>4
  <2> QED
    BY <2>2, <2>3, <2>6, Zenon DEF InvalidBasePaths, ReportIf
<1>7. \A d \in MaintenanceOpportunities(m, count) : d.rule = "AL207"
  BY DEF MaintenanceOpportunities, ReportIf, Report
<1> QED
  BY <1>1, <1>2, <1>3, <1>4, <1>5, <1>6, <1>7 DEF ManifestDiagnostics

-----------------------------------------------------------------------------
(* The rows of a manifest.                                                 *)

\* The sums of the rows of the first fragments.
IsSum(s, fragments) ==
    /\ s \in [0..Len(fragments) -> Nat] /\ s[0] = 0
    /\ \A i \in 1..Len(fragments) : s[i] = s[i - 1] + LiveRows(fragments[i])

HasRows(fragments, n) == \E s : IsSum(s, fragments) /\ s[Len(fragments)] = n

LEMMA SumsGrow ==
    ASSUME NEW fragments \in Seq(Fragments), NEW s, IsSum(s, fragments),
           \A i \in 1..Len(fragments) : LiveRows(fragments[i]) \in Nat
    PROVE  \A i, j \in 0..Len(fragments) : i <= j => s[i] <= s[j]
<1> DEFINE n == Len(fragments)
<1>1. n \in Nat
  OBVIOUS
<1> SUFFICES ASSUME NEW i \in 0..n PROVE \A j \in 0..n : i <= j => s[i] <= s[j]
  OBVIOUS
<1> DEFINE T == {j \in 0..n : i <= j /\ ~(s[i] <= s[j])}
<1>2. /\ \A j \in 0..n : s[j] \in Nat
      /\ \A j \in 1..n : s[j] = s[j - 1] + LiveRows(fragments[j]) /\ LiveRows(fragments[j]) \in Nat
  BY DEF IsSum
<1> HIDE DEF n
<1>3. T = {}
  <2> SUFFICES ASSUME T # {} PROVE FALSE
    OBVIOUS
  <2>1. PICK k \in T : \A j \in T : k <= j
    <3>1. T \subseteq Nat
      BY <1>1
    <3> HIDE DEF T
    <3> QED
      BY <3>1, LeastElement
  <2>2. k \in 0..n /\ i <= k /\ ~(s[i] <= s[k]) /\ i # k
    BY <1>2
  <2>3. k \in 1..n /\ k - 1 \in 0..n /\ i <= k - 1 /\ k - 1 \notin T
    BY <1>1, <2>1, <2>2
  <2>4. s[i] <= s[k - 1]
    BY <2>3
  <2> QED
    BY <1>2, <2>2, <2>3, <2>4
<1> QED
  BY <1>3

\* The rows that the linter counts, unless there are too many.
LEMMA RowsAreCounted ==
    ASSUME NEW m, m.fragments \in Seq(Fragments), NEW rows \in 0..MaxRows, HasRows(m.fragments, rows),
           \A i \in 1..Len(m.fragments) : LiveRows(m.fragments[i]) \in Nat
    PROVE  TotalRows(m) = rows
<1> DEFINE n == Len(m.fragments)
<1>1. n \in Nat
  OBVIOUS
<1>2. PICK s : IsSum(s, m.fragments) /\ s[n] = rows
  BY DEF HasRows
<1>3. /\ s[0] = 0 /\ s \in [0..n -> Nat]
      /\ \A i \in 1..n : s[i] = s[i - 1] + LiveRows(m.fragments[i]) /\ LiveRows(m.fragments[i]) \in Nat
  BY <1>2 DEF IsSum
<1>4. \A i \in 0..n : s[i] <= MaxRows
  <2>1. \A i, j \in 0..n : i <= j => s[i] <= s[j]
    BY <1>2, SumsGrow
  <2>2. rows \in Nat /\ rows <= MaxRows /\ MaxRows \in Nat
    BY WordAssumption
  <2> HIDE DEF n
  <2>3. \A i \in 0..n : i <= n /\ n \in 0..n /\ s[i] \in Nat
    BY <1>1, <1>3
  <2> SUFFICES ASSUME NEW i \in 0..n PROVE s[i] <= MaxRows
    OBVIOUS
  <2>4. s[i] <= rows /\ s[i] \in Nat
    BY <1>2, <2>1, <2>3
  <2> QED
    BY <2>2, <2>4
<1> DEFINE Loop(t) == t = [i \in 0..n |-> IF i = 0 THEN 0
                                           ELSE CheckedAdd(t[i - 1], LiveRows(m.fragments[i]))]
<1>5. Loop(s)
  <2>1. \A i \in 1..n : CheckedAdd(s[i - 1], LiveRows(m.fragments[i])) = s[i]
    <3> SUFFICES ASSUME NEW i \in 1..n
                 PROVE  CheckedAdd(s[i - 1], LiveRows(m.fragments[i])) = s[i]
      OBVIOUS
    <3> DEFINE a == s[i - 1]
    <3> DEFINE b == LiveRows(m.fragments[i])
    <3>1. a \in Nat /\ b \in Nat /\ s[i] = a + b /\ a + b <= MaxRows /\ MaxRows \in Nat
      <4> HIDE DEF n
      <4>1. i - 1 \in 0..n /\ i \in 0..n
        BY <1>1
      <4>2. a \in Nat /\ b \in Nat /\ s[i] = a + b
        BY <1>3, <4>1
      <4>3. s[i] <= MaxRows /\ MaxRows \in Nat
        BY <1>4, <4>1, WordAssumption
      <4> QED
        BY <4>2, <4>3
    <3>2. a # None
      BY <3>1, NoneAssumption
    <3> HIDE DEF a, b
    <3>3. CheckedAdd(a, b) = s[i]
      <4>1. b <= MaxRows
        BY <3>1
      <4> QED
        BY <3>1, <3>2, <4>1 DEF CheckedAdd
    <3> QED
      BY <3>3 DEF a, b
  <2> HIDE DEF n
  <2>2. \A i \in 0..n : s[i] = IF i = 0 THEN 0 ELSE CheckedAdd(s[i - 1], LiveRows(m.fragments[i]))
    BY <1>1, <1>3, <2>1
  <2>3. s = [i \in 0..n |-> s[i]]
    BY <1>3
  <2> QED
    BY <2>2, <2>3
<1> DEFINE total == CHOOSE t : Loop(t)
<1>6. Loop(total)
  BY <1>5
<1>7. TotalRows(m) = total[n]
  BY DEF TotalRows
<1> HIDE DEF total, n
<1> DEFINE T == {i \in 0..n : total[i] # s[i]}
<1>8. T = {}
  <2> SUFFICES ASSUME T # {} PROVE FALSE
    OBVIOUS
  <2>1. PICK k \in T : \A j \in T : k <= j
    <3>1. T \subseteq Nat
      OBVIOUS
    <3> HIDE DEF T
    <3> QED
      BY <3>1, LeastElement
  <2>2. k \in 0..n /\ total[k] # s[k]
    OBVIOUS
  <2>3. total[0] = s[0] /\ \A i \in 1..n : total[i] = CheckedAdd(total[i - 1], LiveRows(m.fragments[i]))
    <3>1. \A i \in 0..n : total[i] = IF i = 0 THEN 0
                                         ELSE CheckedAdd(total[i - 1], LiveRows(m.fragments[i]))
      BY <1>6, Zenon
    <3> QED
      BY <1>1, <1>3, <3>1
  <2>4. \A i \in 1..n : s[i] = CheckedAdd(s[i - 1], LiveRows(m.fragments[i]))
    BY <1>1, <1>5
  <2>5. k \in 1..n /\ k - 1 \in 0..n /\ k - 1 \notin T
    BY <1>1, <2>1, <2>2, <2>3
  <2> QED
    BY <2>2, <2>3, <2>4, <2>5
<1>9. n \in 0..n
  BY <1>1
<1> QED
  BY <1>2, <1>7, <1>8, <1>9

LEMMA RowsOfAppend ==
    ASSUME NEW fragments \in Seq(Fragments), NEW rows, HasRows(fragments, rows),
           NEW g \in Fragments, NEW r \in Nat, LiveRows(g) = r
    PROVE  HasRows(Append(fragments, g), rows + r)
<1> DEFINE n == Len(fragments)
<1> DEFINE more == Append(fragments, g)
<1>1. n \in Nat /\ Len(more) = n + 1 /\ more[n + 1] = g /\ \A i \in 1..n : more[i] = fragments[i]
  OBVIOUS
<1>2. PICK s : IsSum(s, fragments) /\ s[n] = rows
  BY DEF HasRows
<1>3. s \in [0..n -> Nat] /\ s[0] = 0 /\ \A i \in 1..n : s[i] = s[i - 1] + LiveRows(fragments[i])
  BY <1>2 DEF IsSum
<1> HIDE DEF n, more
<1> DEFINE t == [i \in 0..(n + 1) |-> IF i = n + 1 THEN s[n] + r ELSE s[i]]
<1>4. /\ \A i \in 0..n : t[i] = s[i] /\ i \in 0..(n + 1)
      /\ t[n + 1] = rows + r /\ 0 \in 0..n /\ n \in 0..n /\ n + 1 \in 0..(n + 1)
  BY <1>1, <1>2
<1>5. t \in [0..(n + 1) -> Nat]
  <2>1. \A i \in 0..(n + 1) : i = n + 1 \/ i \in 0..n
    BY <1>1
  <2> QED
    BY <1>1, <1>3, <2>1
<1> HIDE DEF t
<1>6. \A i \in 1..(n + 1) : t[i] = t[i - 1] + LiveRows(more[i])
  <2> SUFFICES ASSUME NEW i \in 1..(n + 1) PROVE t[i] = t[i - 1] + LiveRows(more[i])
    OBVIOUS
  <2>1. CASE i = n + 1
    BY <1>1, <1>2, <1>4, <2>1
  <2>2. CASE i # n + 1
    <3>1. i \in 1..n /\ i \in 0..n /\ i - 1 \in 0..n
      BY <1>1, <2>2
    <3> QED
      BY <1>1, <1>3, <1>4, <3>1
  <2> QED
    BY <2>1, <2>2
<1>7. IsSum(t, more)
  BY <1>1, <1>3, <1>4, <1>5, <1>6 DEF IsSum
<1> QED
  BY <1>1, <1>4, <1>7 DEF HasRows, more

LEMMA RowsOfSame ==
    ASSUME NEW fragments, NEW rows, HasRows(fragments, rows), NEW more,
           Len(more) = Len(fragments),
           \A i \in 1..Len(fragments) : LiveRows(more[i]) = LiveRows(fragments[i])
    PROVE  HasRows(more, rows)
<1>1. PICK s : IsSum(s, fragments) /\ s[Len(fragments)] = rows
  BY DEF HasRows
<1>2. IsSum(s, more)
  BY <1>1 DEF IsSum
<1> QED
  BY <1>1, <1>2 DEF HasRows

LEMMA RowsOfOne ==
    ASSUME NEW g, NEW r \in Nat, LiveRows(g) = r
    PROVE  HasRows(<<g>>, r)
<1> DEFINE s == [i \in 0..1 |-> IF i = 0 THEN 0 ELSE r]
<1> DEFINE one == <<g>>
<1>1. Len(one) = 1 /\ one[1] = g
  OBVIOUS
<1>2. s \in [0..1 -> Nat] /\ s[0] = 0 /\ s[1] = r
  OBVIOUS
<1> HIDE DEF s, one
<1>3. \A i \in 1..1 : i = 1 /\ i - 1 = 0
  OBVIOUS
<1>4. IsSum(s, one)
  BY <1>1, <1>2, <1>3 DEF IsSum
<1> QED
  BY <1>1, <1>2, <1>4 DEF HasRows, one

\* One row less in one fragment.
LEMMA RowsOfDeletion ==
    ASSUME NEW fragments \in Seq(Fragments), NEW rows, HasRows(fragments, rows),
           NEW k \in 1..Len(fragments), LiveRows(fragments[k]) >= 1,
           \A i \in 1..Len(fragments) : LiveRows(fragments[i]) \in Nat,
           NEW more, Len(more) = Len(fragments), LiveRows(more[k]) = LiveRows(fragments[k]) - 1,
           \A i \in 1..Len(fragments) : i # k => LiveRows(more[i]) = LiveRows(fragments[i])
    PROVE  HasRows(more, rows - 1)
<1> DEFINE n == Len(fragments)
<1>1. n \in Nat /\ k \in 1..n /\ \A i \in 1..n : LiveRows(fragments[i]) \in Nat
  OBVIOUS
<1>2. PICK s : IsSum(s, fragments) /\ s[n] = rows
  BY DEF HasRows
<1>3. s \in [0..n -> Nat] /\ s[0] = 0 /\ \A i \in 1..n : s[i] = s[i - 1] + LiveRows(fragments[i])
  BY <1>2 DEF IsSum
<1>4. \A i, j \in 0..n : i <= j => s[i] <= s[j]
  BY <1>2, SumsGrow
<1>12. \A i \in 1..n : i # k => LiveRows(more[i]) = LiveRows(fragments[i])
  OBVIOUS
<1> DEFINE t == [i \in 0..n |-> IF i < k THEN s[i] ELSE s[i] - 1]
<1> HIDE DEF n
<1>5. \A j \in 0..n : k <= j => s[j] >= 1
  <2>1. k \in 0..n /\ k - 1 \in 0..n /\ s[k] = s[k - 1] + LiveRows(fragments[k])
    BY <1>1, <1>3
  <2> DEFINE r == LiveRows(fragments[k])
  <2>4. r >= 1 /\ r \in Nat /\ s[k - 1] \in Nat /\ s[k] = s[k - 1] + r
    BY <1>1, <1>3, <2>1
  <2> HIDE DEF r
  <2>2. s[k] >= 1 /\ s[k] \in Nat
    BY <2>4
  <2> SUFFICES ASSUME NEW j \in 0..n, k <= j PROVE s[j] >= 1
    OBVIOUS
  <2>3. s[k] <= s[j] /\ s[j] \in Nat
    BY <1>3, <1>4, <2>1
  <2> QED
    BY <2>2, <2>3
<1>6. \A i \in 0..n : t[i] = (IF i < k THEN s[i] ELSE s[i] - 1) /\ t[i] \in Nat
  <2> SUFFICES ASSUME NEW i \in 0..n
               PROVE  t[i] = (IF i < k THEN s[i] ELSE s[i] - 1) /\ t[i] \in Nat
    OBVIOUS
  <2>1. s[i] \in Nat /\ (k <= i => s[i] >= 1) /\ (~(i < k) => k <= i)
    BY <1>1, <1>3, <1>5
  <2> QED
    BY <2>1
<1>7. t \in [0..n -> Nat]
  BY <1>6
<1> HIDE DEF t
<1>8. ASSUME NEW i \in 1..n PROVE t[i] = t[i - 1] + LiveRows(more[i])
  <2>1. i \in 0..n /\ i - 1 \in 0..n /\ s[i - 1] \in Nat /\ LiveRows(fragments[i]) \in Nat
    BY <1>1, <1>3
  <2>2. s[i] = s[i - 1] + LiveRows(fragments[i])
    BY <1>3
  <2>3. CASE i < k
    <3>1. LiveRows(more[i]) = LiveRows(fragments[i]) /\ i - 1 < k
      BY <1>1, <1>12, <2>3
    <3> QED
      BY <1>6, <2>1, <2>2, <2>3, <3>1
  <2>4. CASE i = k
    <3>1. LiveRows(more[i]) = LiveRows(fragments[i]) - 1 /\ i - 1 < k /\ ~(i < k)
      BY <1>1, <2>4
    <3>2. t[i] = s[i] - 1 /\ t[i - 1] = s[i - 1]
      BY <1>6, <2>1, <3>1
    <3> DEFINE r == LiveRows(fragments[i])
    <3> DEFINE x == s[i - 1]
    <3>3. r \in Nat /\ x \in Nat /\ s[i] = x + r /\ LiveRows(more[i]) = r - 1 /\ t[i - 1] = x
      BY <2>1, <2>2, <3>1, <3>2
    <3> HIDE DEF r, x
    <3>4. (x + r) - 1 = x + (r - 1)
      BY <3>3
    <3> QED
      BY <3>2, <3>3, <3>4
  <2>5. CASE ~(i < k) /\ i # k
    <3>1. LiveRows(more[i]) = LiveRows(fragments[i]) /\ ~(i - 1 < k)
      BY <1>1, <1>12, <2>5
    <3> QED
      BY <1>6, <2>1, <2>2, <2>5, <3>1
  <2> QED
    BY <2>3, <2>4, <2>5
<1>9. t[0] = 0 /\ t[n] = rows - 1
  <2>1. 0 \in 0..n /\ n \in 0..n /\ 0 < k /\ ~(n < k)
    BY <1>1
  <2> QED
    BY <1>2, <1>3, <1>6, <2>1
<1>10. Len(more) = n
  BY DEF n
<1>11. IsSum(t, more)
  BY <1>7, <1>8, <1>9, <1>10 DEF IsSum
<1> QED
  BY <1>9, <1>10, <1>11 DEF HasRows

LEMMA RemoveOne ==
    ASSUME NEW S, NEW s \in Seq(S), NEW k \in 1..Len(s)
    PROVE  /\ RemoveAt(s, k) \in Seq(S) /\ Len(RemoveAt(s, k)) = Len(s) - 1
           /\ \A i \in 1..(Len(s) - 1) : RemoveAt(s, k)[i] = IF i < k THEN s[i] ELSE s[i + 1]
<1> DEFINE n == Len(s)
<1> DEFINE a == SubSeq(s, 1, k - 1)
<1> DEFINE b == SubSeq(s, k + 1, n)
<1>1. n \in Nat /\ k \in 1..n /\ n = Len(s)
  OBVIOUS
<1> HIDE DEF n
<1>2. a \in Seq(S) /\ Len(a) = k - 1 /\ \A i \in 1..(k - 1) : a[i] = s[i]
  <2>1. \A i \in 1..(k - 1) : s[i] \in S
    BY <1>1
  <2> QED
    BY <1>1, <2>1
<1>3. b \in Seq(S) /\ Len(b) = n - k /\ \A i \in 1..(n - k) : b[i] = s[k + i]
  <2>1. \A i \in (k + 1)..n : s[i] \in S
    BY <1>1
  <2> QED
    BY <1>1, <2>1
<1>4. RemoveAt(s, k) = a \o b
  BY DEF RemoveAt, n
<1> HIDE DEF a, b
<1>5. /\ a \o b \in Seq(S) /\ Len(a \o b) = Len(a) + Len(b)
      /\ \A i \in 1..(Len(a) + Len(b)) : (a \o b)[i] = IF i <= Len(a) THEN a[i] ELSE b[i - Len(a)]
  BY <1>2, <1>3, ConcatProperties
<1>6. ASSUME NEW i \in 1..(n - 1) PROVE (a \o b)[i] = IF i < k THEN s[i] ELSE s[i + 1]
  <2>1. CASE i < k
    <3>1. i \in 1..(k - 1) /\ i \in 1..(Len(a) + Len(b)) /\ i <= Len(a)
      BY <1>1, <1>2, <1>3, <2>1
    <3> QED
      BY <1>2, <1>5, <2>1, <3>1
  <2>2. CASE ~(i < k)
    <3>1. /\ i - (k - 1) \in 1..(n - k) /\ i \in 1..(Len(a) + Len(b)) /\ ~(i <= Len(a))
          /\ k + (i - (k - 1)) = i + 1
      BY <1>1, <1>2, <1>3, <2>2
    <3> QED
      BY <1>2, <1>3, <1>5, <2>2, <3>1
  <2> QED
    BY <2>1, <2>2
<1>7. Len(a \o b) = n - 1
  BY <1>1, <1>2, <1>3, <1>5
<1> QED
  BY <1>1, <1>4, <1>5, <1>6, <1>7

\* A fragment of one row less.
LEMMA RowsOfRemoval ==
    ASSUME NEW fragments \in Seq(Fragments), NEW rows, HasRows(fragments, rows),
           NEW k \in 1..Len(fragments), LiveRows(fragments[k]) = 1,
           \A i \in 1..Len(fragments) : LiveRows(fragments[i]) \in Nat
    PROVE  HasRows(RemoveAt(fragments, k), rows - 1)
<1> DEFINE n == Len(fragments)
<1> DEFINE more == RemoveAt(fragments, k)
<1>1. n \in Nat /\ k \in 1..n /\ \A i \in 1..n : LiveRows(fragments[i]) \in Nat
  OBVIOUS
<1>2. PICK s : IsSum(s, fragments) /\ s[n] = rows
  BY DEF HasRows
<1>3. s \in [0..n -> Nat] /\ s[0] = 0 /\ \A i \in 1..n : s[i] = s[i - 1] + LiveRows(fragments[i])
  BY <1>2 DEF IsSum
<1>4. \A i, j \in 0..n : i <= j => s[i] <= s[j]
  BY <1>2, SumsGrow
<1>5. Len(more) = n - 1 /\ \A i \in 1..(n - 1) : more[i] = IF i < k THEN fragments[i] ELSE fragments[i + 1]
  BY RemoveOne
<1> DEFINE t == [i \in 0..(n - 1) |-> IF i < k THEN s[i] ELSE s[i + 1] - 1]
<1> HIDE DEF n, more
<1>6. s[k] = s[k - 1] + 1 /\ k \in 0..n /\ k - 1 \in 0..n
  BY <1>1, <1>3 DEF n
<1>7. \A i \in 0..(n - 1) : t[i] = (IF i < k THEN s[i] ELSE s[i + 1] - 1) /\ t[i] \in Nat
  <2> SUFFICES ASSUME NEW i \in 0..(n - 1)
               PROVE  t[i] = (IF i < k THEN s[i] ELSE s[i + 1] - 1) /\ t[i] \in Nat
    OBVIOUS
  <2>1. i \in 0..n /\ i + 1 \in 0..n /\ s[i] \in Nat /\ s[i + 1] \in Nat
    BY <1>1, <1>3
  <2>2. ~(i < k) => s[i + 1] >= 1
    <3>1. s[k - 1] \in Nat
      BY <1>3, <1>6
    <3>2. ~(i < k) => s[k] <= s[i + 1]
      BY <1>1, <1>4, <1>6, <2>1
    <3> QED
      BY <1>6, <2>1, <3>1, <3>2
  <2> QED
    BY <2>1, <2>2
<1>8. t \in [0..(n - 1) -> Nat]
  BY <1>7
<1> HIDE DEF t
<1>9. ASSUME NEW i \in 1..(n - 1) PROVE t[i] = t[i - 1] + LiveRows(more[i])
  <2>1. /\ i \in 0..(n - 1) /\ i - 1 \in 0..(n - 1) /\ i \in 1..n /\ i + 1 \in 1..n
        /\ i - 1 \in 0..n /\ i + 1 - 1 = i /\ i - 1 + 1 = i
    BY <1>1
  <2>2. /\ s[i] = s[i - 1] + LiveRows(fragments[i]) /\ s[i + 1] = s[i] + LiveRows(fragments[i + 1])
        /\ LiveRows(fragments[i]) \in Nat /\ LiveRows(fragments[i + 1]) \in Nat
        /\ s[i] \in Nat /\ s[i - 1] \in Nat
    BY <1>1, <1>3, <2>1
  <2>3. CASE i < k
    <3>1. i - 1 < k /\ more[i] = fragments[i]
      BY <1>1, <1>5, <2>3
    <3> QED
      BY <1>7, <2>1, <2>2, <2>3, <3>1
  <2>4. CASE i = k
    <3>1. i - 1 < k /\ ~(i < k) /\ more[i] = fragments[i + 1]
      BY <1>1, <1>5, <2>4
    <3>2. s[i] = s[i - 1] + 1
      BY <1>6, <2>4
    <3> QED
      BY <1>7, <2>1, <2>2, <3>1, <3>2
  <2>5. CASE ~(i < k) /\ i # k
    <3>1. ~(i - 1 < k) /\ more[i] = fragments[i + 1]
      BY <1>1, <1>5, <2>5
    <3> QED
      BY <1>7, <2>1, <2>2, <2>5, <3>1
  <2> QED
    BY <2>3, <2>4, <2>5
<1>10. t[0] = 0 /\ t[n - 1] = rows - 1
  <2>1. 0 \in 0..(n - 1) /\ n - 1 \in 0..(n - 1) /\ 0 < k /\ (n - 1 < k => k - 1 = n - 1 /\ k = n)
        /\ n - 1 + 1 = n
    BY <1>1
  <2>2. t[0] = 0
    BY <1>3, <1>7, <2>1
  <2>3. CASE n - 1 < k
    <3>1. t[n - 1] = s[n - 1] /\ s[n] = s[n - 1] + 1
      BY <1>6, <1>7, <2>1, <2>3
    <3>2. s[n - 1] \in Nat
      BY <1>3, <1>6, <2>1, <2>3
    <3> QED
      BY <1>2, <2>2, <3>1, <3>2
  <2>4. CASE ~(n - 1 < k)
    BY <1>2, <1>7, <2>1, <2>2, <2>4
  <2> QED
    BY <2>3, <2>4
<1>11. IsSum(t, more)
  BY <1>5, <1>8, <1>9, <1>10 DEF IsSum
<1> QED
  BY <1>5, <1>10, <1>11 DEF HasRows, more

-----------------------------------------------------------------------------
(* The commits keep a manifest healthy and its rows counted.               *)

\* A healthy fragment has a row that is not deleted.
LEMMA LiveRowsOfHealthy ==
    ASSUME NEW g, NEW version, HealthyFragment(g, version)
    PROVE  /\ LiveRows(g) \in Nat /\ LiveRows(g) >= 1
           /\ g.deletion = None => LiveRows(g) = g.physical_rows
           /\ g.deletion # None => /\ g.deletion \in DeletionFiles
                                   /\ LiveRows(g) = g.physical_rows - g.deletion.num_deleted_rows
<1>1. g.physical_rows \in Nat /\ g.physical_rows > 0
  BY DEF HealthyFragment, Fragments
<1>2. CASE g.deletion = None
  BY <1>1, <1>2 DEF LiveRows
<1>3. CASE g.deletion # None
  <2>1. g.deletion \in DeletionFiles
    BY <1>3 DEF HealthyFragment, Fragments
  <2> DEFINE d == g.deletion.num_deleted_rows
  <2>2. d \in Nat /\ d < g.physical_rows
    BY <1>3, <2>1 DEF HealthyFragment, HealthyDeletion, DeletionFiles
  <2>3. LiveRows(g) = g.physical_rows - d
    BY <1>1, <1>3, <2>2 DEF LiveRows
  <2> HIDE DEF d
  <2>4. g.physical_rows - d \in Nat /\ g.physical_rows - d >= 1
    BY <1>1, <2>2
  <2> QED
    BY <1>3, <2>1, <2>3, <2>4 DEF d
<1> QED
  BY <1>2, <1>3

LEMMA FreshFile ==
    ASSUME NEW path \in Seq(Nat \ {0}), path # <<>>, NEW fields \in Seq(Nat), Repeats(fields) = {}
    PROVE  HealthyFile(DataFile(path, fields))
<1> DEFINE file == DataFile(path, fields)
<1>1. fields \in Seq(Int) /\ path \in Seq(Int)
  OBVIOUS
<1> DEFINE n == Len(fields)
<1> DEFINE columns == [i \in DOMAIN fields |-> i - 1]
<1>2. columns \in Seq(Int)
  <2>1. DOMAIN fields = 1..n /\ n \in Nat
    OBVIOUS
  <2> HIDE DEF n
  <2>2. \A i \in 1..n : i - 1 \in Int
    OBVIOUS
  <2> QED
    BY <2>1, <2>2
<1>3. /\ file.path = path /\ file.fields = fields /\ file.column_indices = columns
      /\ file.base_id = None
  BY DEF DataFile
<1>4. file \in DataFiles
  BY <1>1, <1>2 DEF DataFile, DataFiles
<1>5. IsSafeRelativePath(path)
  BY DEF IsSafeRelativePath, Range, ParentDir, RootDir
<1>6. \A i \in DOMAIN fields : fields[i] >= 0
  OBVIOUS
<1> HIDE DEF file, columns
<1>7. HealthyFile(file)
  BY <1>3, <1>4, <1>5, <1>6 DEF HealthyFile, columns
<1> QED
  BY <1>7 DEF file

LEMMA FreshFragment ==
    ASSUME NEW id \in Nat, NEW p \in Nat \ {0}, NEW rows \in Nat \ {0}, NEW version
    PROVE  LET g == Fragment(id, <<DataFile(<<p>>, <<0, 1>>)>>, rows)
           IN HealthyFragment(g, version) /\ g.id = id /\ LiveRows(g) = rows
<1> DEFINE file == DataFile(<<p>>, <<0, 1>>)
<1> DEFINE g == Fragment(id, <<file>>, rows)
<1>1. HealthyFile(file)
  <2> DEFINE fields == <<0, 1>>
  <2> DEFINE path == <<p>>
  <2>1. path \in Seq(Nat \ {0}) /\ path # <<>> /\ fields \in Seq(Nat)
    OBVIOUS
  <2>2. Repeats(fields) = {}
    <3>1. DOMAIN fields = {1, 2} /\ fields[1] = 0 /\ fields[2] = 1
      OBVIOUS
    <3> HIDE DEF fields
    <3>2. ASSUME NEW i \in {1, 2}, NEW j \in 1..(i - 1) PROVE fields[j] # fields[i]
      BY <3>1, <3>2
    <3> QED
      BY <3>1, <3>2 DEF Repeats
  <2> HIDE DEF fields, path
  <2>3. HealthyFile(DataFile(path, fields))
    BY <2>1, <2>2, FreshFile
  <2> QED
    BY <2>3 DEF fields, path
<1> HIDE DEF file
<1> DEFINE files == <<file>>
<1>2. files \in Seq(DataFiles) /\ DOMAIN files = {1} /\ files[1] = file
  BY <1>1 DEF HealthyFile
<1>3. Disjoint(files)
  BY <1>2 DEF Disjoint
<1> HIDE DEF files
<1>4. /\ g = Fragment(id, files, rows)
      /\ g.id = id /\ g.files = files /\ g.physical_rows = rows /\ g.deletion = None /\ g.overlays = 0
  BY DEF Fragment, files
<1>5. g \in Fragments
  BY <1>2, <1>4 DEF Fragment, Fragments
<1> HIDE DEF g
<1>6. HealthyFragment(g, version)
  BY <1>1, <1>2, <1>3, <1>4, <1>5 DEF HealthyFragment
<1>7. LiveRows(g) = rows
  BY <1>4, <1>6, LiveRowsOfHealthy
<1> QED
  BY <1>4, <1>6, <1>7 DEF g, file

\* Fragments stay healthy in a later version.
LEMMA LaterFragment ==
    ASSUME NEW g, NEW v \in Nat, NEW w \in Nat, v <= w, HealthyFragment(g, v)
    PROVE  HealthyFragment(g, w)
<1>1. g.deletion # None => g.deletion.read_version \in Nat
  BY DEF HealthyFragment, Fragments, DeletionFiles
<1> QED
  BY <1>1 DEF HealthyFragment, HealthyDeletion

LEMMA SuccessorHealthy ==
    ASSUME NEW m, Healthy(m), m.version < LastVersion, NEW fragments, NEW max_fragment_id \in Nat,
           HealthyFragments(fragments, m.version + 1, max_fragment_id)
    PROVE  LET next == Successor(m, fragments, max_fragment_id)
           IN Healthy(next) /\ next.fragments = fragments /\ next.version = m.version + 1
<1> DEFINE v == m.version + 1
<1> DEFINE flags == {f \in {FlagDeletionFiles} : \E g \in Range(fragments) : g.deletion # None}
<1> DEFINE writer == flags \cup (m.writer_flags \cap {FlagTableConfig})
<1> DEFINE next == Successor(m, fragments, max_fragment_id)
<1>1. m \in ManifestFiles /\ m.version \in 1..LastVersion /\ LastVersion \in Nat /\ LastVersion <= MaxWord
      /\ MaxWord \in Nat
  BY VersionAssumption, WordAssumption DEF Healthy
<1>2. v \in 1..LastVersion /\ MaxWord - v \in Nat
  BY <1>1
<1>3. flags \subseteq {FlagDeletionFiles} /\ flags \in SUBSET Nat
  BY DEF FlagDeletionFiles
<1>4. writer \in SUBSET Nat
  BY <1>3 DEF FlagTableConfig
<1>5. /\ next.kind = m.kind /\ next.long = m.long /\ next.envelope = m.envelope
      /\ next.config = m.config /\ next.base_paths = m.base_paths
      /\ next.data_format = m.data_format
      /\ next.stem = MaxWord - v /\ next.version = v /\ next.transaction = <<v>>
      /\ next.fragments = fragments /\ next.max_fragment_id = max_fragment_id
      /\ next.reader_flags = flags /\ next.writer_flags = writer
  BY <1>1 DEF Successor, ManifestFiles
<1>6. next \in ManifestFiles
  <2>1. <<v>> \in Seq(Int) /\ fragments \in Seq(Fragments) /\ v \in Nat
    BY <1>2 DEF HealthyFragments
  <2> QED
    <3>1. next = [m EXCEPT !.stem = MaxWord - v, !.version = v, !.transaction = <<v>>,
                           !.fragments = fragments, !.max_fragment_id = max_fragment_id,
                           !.reader_flags = flags, !.writer_flags = writer]
      BY DEF Successor
    <3> HIDE DEF next, flags, writer, v
    <3> QED
      BY <1>1, <1>2, <1>3, <1>4, <2>1, <3>1 DEF ManifestFiles
<1>7. Deleted(next) = {g \in Range(fragments) : g.deletion # None}
  BY <1>5 DEF Deleted
<1> HIDE DEF next
<1>8. HealthyFlags(next)
  <2>1. Deleted(next) # {} => FlagDeletionFiles \in flags
    BY <1>7
  <2>2. m.config => FlagTableConfig \in writer
    BY DEF Healthy, HealthyFlags
  <2>3. writer \subseteq {FlagDeletionFiles, FlagTableConfig}
    BY <1>3
  <2> HIDE DEF flags, writer
  <2>4. flags \subseteq writer
    BY DEF writer
  <2> QED
    BY <1>3, <1>5, <2>1, <2>2, <2>3, <2>4 DEF HealthyFlags
<1>9. Healthy(next)
  BY <1>2, <1>5, <1>6, <1>8 DEF Healthy
<1> QED
  BY <1>5, <1>9 DEF next

\* A commit of a healthy manifest: the next version, healthy, with more rows.
IsCommit(next, m, rows) ==
    Healthy(next) /\ next.version = m.version + 1 /\ HasRows(next.fragments, rows)

LEMMA HealthyParts ==
    ASSUME NEW m, Healthy(m)
    PROVE  /\ m.version \in Nat /\ m.version >= 1 /\ m.max_fragment_id \in Nat
           /\ m.fragments \in Seq(Fragments) /\ DOMAIN m.fragments = 1..Len(m.fragments)
           /\ \A i \in 1..Len(m.fragments) :
                 /\ HealthyFragment(m.fragments[i], m.version)
                 /\ HealthyFragment(m.fragments[i], m.version + 1)
                 /\ LiveRows(m.fragments[i]) \in Nat /\ LiveRows(m.fragments[i]) >= 1
                 /\ m.fragments[i].id \in Nat /\ m.fragments[i].id <= m.max_fragment_id
           /\ \A i, j \in 1..Len(m.fragments) : m.fragments[i].id = m.fragments[j].id => i = j
<1>1. m.version \in Nat /\ m.version >= 1 /\ m.max_fragment_id \in Nat
  BY VersionAssumption, WordAssumption DEF Healthy
<1>2. HealthyFragments(m.fragments, m.version, m.max_fragment_id)
  BY DEF Healthy
<1>3. m.fragments \in Seq(Fragments) /\ DOMAIN m.fragments = 1..Len(m.fragments)
  BY <1>2 DEF HealthyFragments
<1>4. ASSUME NEW i \in 1..Len(m.fragments)
      PROVE  /\ HealthyFragment(m.fragments[i], m.version)
             /\ HealthyFragment(m.fragments[i], m.version + 1)
             /\ LiveRows(m.fragments[i]) \in Nat /\ LiveRows(m.fragments[i]) >= 1
             /\ m.fragments[i].id \in Nat /\ m.fragments[i].id <= m.max_fragment_id
  <2>1. HealthyFragment(m.fragments[i], m.version) /\ m.fragments[i].id <= m.max_fragment_id
    BY <1>2, <1>3 DEF HealthyFragments
  <2>2. m.fragments[i].id \in Nat
    <3>1. m.fragments[i] \in Fragments
      BY <1>3
    <3> QED
      BY <3>1 DEF Fragments
  <2>3. HealthyFragment(m.fragments[i], m.version + 1)
    BY <1>1, <2>1, LaterFragment
  <2> QED
    BY <2>1, <2>2, <2>3, LiveRowsOfHealthy
<1>5. \A i, j \in 1..Len(m.fragments) : m.fragments[i].id = m.fragments[j].id => i = j
  BY <1>2, <1>3 DEF HealthyFragments
<1> QED
  BY <1>1, <1>3, <1>4, <1>5

LEMMA AppendedHealthy ==
    ASSUME NEW m, Healthy(m), m.version < LastVersion, NEW rows \in Nat, HasRows(m.fragments, rows)
    PROVE  IsCommit(Appended(m), m, rows + 2)
<1> DEFINE id == m.max_fragment_id + 1
<1> DEFINE v == m.version + 1
<1> DEFINE g == Fragment(id, <<DataFile(<<v>>, <<0, 1>>)>>, 2)
<1> DEFINE n == Len(m.fragments)
<1> DEFINE more == Append(m.fragments, g)
<1>1. id \in Nat /\ v \in Nat \ {0} /\ n \in Nat
  BY HealthyParts
<1>2. HealthyFragment(g, v) /\ g.id = id /\ LiveRows(g) = 2
  <2> HIDE DEF id, v
  <2>1. 2 \in Nat \ {0}
    OBVIOUS
  <2> QED
    BY <1>1, <2>1, FreshFragment
<1>3. g \in Fragments
  BY <1>2 DEF HealthyFragment
<1>4. Appended(m) = Successor(m, more, id)
  BY DEF Appended
<1> HIDE DEF g
<1>5. /\ more \in Seq(Fragments) /\ Len(more) = n + 1 /\ DOMAIN more = 1..(n + 1)
      /\ more[n + 1] = g /\ \A i \in 1..n : more[i] = m.fragments[i]
  BY <1>3, HealthyParts
<1>6. HasRows(more, rows + 2)
  BY <1>2, <1>3, HealthyParts, RowsOfAppend
<1>7. /\ \A i \in 1..n : HealthyFragment(m.fragments[i], v) /\ m.fragments[i].id \in Nat
                         /\ m.fragments[i].id <= m.max_fragment_id
      /\ \A i, j \in 1..n : m.fragments[i].id = m.fragments[j].id => i = j
      /\ m.max_fragment_id \in Nat /\ id = m.max_fragment_id + 1
  BY HealthyParts
<1> HIDE DEF more, n, id, v
<1>8. \A i \in 1..(n + 1) : i = n + 1 \/ i \in 1..n
  BY <1>1
<1>9. HealthyFragments(more, v, id)
  <2>1. ASSUME NEW i \in 1..(n + 1) PROVE HealthyFragment(more[i], v) /\ more[i].id <= id
    BY <1>1, <1>2, <1>5, <1>7, <1>8
  <2>2. ASSUME NEW i \in 1..(n + 1), NEW j \in 1..(n + 1), more[i].id = more[j].id PROVE i = j
    <3>1. CASE i \in 1..n /\ j \in 1..n
      BY <1>5, <1>7, <2>2, <3>1
    <3>2. \A k \in 1..n : more[k].id # id
      BY <1>1, <1>5, <1>7
    <3> QED
      BY <1>2, <1>5, <1>8, <2>2, <3>1, <3>2
  <2> QED
    BY <1>5, <2>1, <2>2 DEF HealthyFragments
<1>10. /\ Healthy(Successor(m, more, id)) /\ Successor(m, more, id).fragments = more
       /\ Successor(m, more, id).version = m.version + 1
  BY <1>1, <1>9, SuccessorHealthy DEF v
<1> QED
  BY <1>4, <1>6, <1>10 DEF IsCommit

LEMMA ConfiguredHealthy ==
    ASSUME NEW m, Healthy(m), m.version < LastVersion, NEW rows \in Nat, HasRows(m.fragments, rows)
    PROVE  IsCommit(Configured(m), m, rows)
<1> DEFINE next == Successor(m, m.fragments, m.max_fragment_id)
<1> DEFINE writer == next.writer_flags \cup {FlagTableConfig}
<1>1. HealthyFragments(m.fragments, m.version + 1, m.max_fragment_id)
  BY HealthyParts DEF HealthyFragments
<1>2. Healthy(next) /\ next.fragments = m.fragments /\ next.version = m.version + 1
  BY <1>1, HealthyParts, SuccessorHealthy
<1>3. Configured(m) = [next EXCEPT !.config = TRUE, !.writer_flags = writer]
  BY DEF Configured
<1> HIDE DEF next
<1> DEFINE c == [next EXCEPT !.config = TRUE, !.writer_flags = writer]
<1>4. next \in ManifestFiles /\ writer \in SUBSET Nat /\ HealthyFlags(next)
  BY <1>2 DEF Healthy, ManifestFiles, FlagTableConfig
<1>5. /\ c.kind = next.kind /\ c.long = next.long /\ c.envelope = next.envelope
      /\ c.base_paths = next.base_paths /\ c.data_format = next.data_format
      /\ c.stem = next.stem /\ c.version = next.version /\ c.transaction = next.transaction
      /\ c.fragments = next.fragments /\ c.max_fragment_id = next.max_fragment_id
      /\ c.reader_flags = next.reader_flags /\ c.writer_flags = writer
  BY <1>4 DEF ManifestFiles
<1>6. c \in ManifestFiles
  <2> HIDE DEF writer
  <2> QED
    BY <1>4 DEF ManifestFiles
<1> HIDE DEF c
<1>7. Deleted(c) = Deleted(next)
  BY <1>5 DEF Deleted
<1>8. HealthyFlags(c)
  BY <1>4, <1>5, <1>7 DEF HealthyFlags
<1>9. Healthy(c)
  BY <1>2, <1>5, <1>6, <1>8 DEF Healthy
<1> QED
  BY <1>2, <1>3, <1>5, <1>9 DEF IsCommit, c

LEMMA CompactedHealthy ==
    ASSUME NEW m, Healthy(m), m.version < LastVersion, NEW rows \in 0..MaxRows,
           HasRows(m.fragments, rows), m.fragments # <<>>
    PROVE  IsCommit(Compacted(m), m, rows)
<1> DEFINE id == m.max_fragment_id + 1
<1> DEFINE v == m.version + 1
<1> DEFINE g == Fragment(id, <<DataFile(<<v>>, <<0, 1>>)>>, TotalRows(m))
<1> DEFINE one == <<g>>
<1>1. id \in Nat /\ v \in Nat \ {0}
  BY HealthyParts
<1>2. TotalRows(m) = rows /\ rows \in Nat \ {0}
  <2> DEFINE n == Len(m.fragments)
  <2>1. n \in Nat /\ n # 0 /\ \A i \in 1..n : LiveRows(m.fragments[i]) \in Nat /\ LiveRows(m.fragments[i]) >= 1
    BY HealthyParts
  <2>2. TotalRows(m) = rows
    BY <2>1, HealthyParts, RowsAreCounted
  <2>3. PICK s : IsSum(s, m.fragments) /\ s[n] = rows
    BY DEF HasRows
  <2>4. \A i, j \in 0..n : i <= j => s[i] <= s[j]
    BY <2>1, <2>3, HealthyParts, SumsGrow
  <2>5. s[1] = s[0] + LiveRows(m.fragments[1]) /\ s[0] = 0
    BY <2>1, <2>3 DEF IsSum
  <2> HIDE DEF n
  <2>6. 1 \in 1..n /\ 1 \in 0..n /\ n \in 0..n /\ 1 <= n
    BY <2>1
  <2>7. s[1] >= 1 /\ s[1] \in Nat /\ s[1] <= rows
    BY <2>1, <2>3, <2>4, <2>5, <2>6
  <2>8. rows \in Nat
    BY WordAssumption
  <2> QED
    BY <2>2, <2>7, <2>8
<1>3. HealthyFragment(g, v) /\ g.id = id /\ LiveRows(g) = rows
  BY <1>1, <1>2, FreshFragment
<1>4. g \in Fragments
  BY <1>3 DEF HealthyFragment
<1>5. Compacted(m) = Successor(m, one, id)
  BY DEF Compacted
<1> HIDE DEF g
<1>6. one \in Seq(Fragments) /\ DOMAIN one = {1} /\ one[1] = g
  BY <1>4
<1>7. HasRows(one, rows)
  BY <1>2, <1>3, RowsOfOne
<1> HIDE DEF one
<1>8. HealthyFragments(one, v, id)
  <2>1. g.id <= id
    BY <1>1, <1>3
  <2> HIDE DEF id, v
  <2> QED
    BY <1>3, <1>6, <2>1 DEF HealthyFragments
<1>9. /\ Healthy(Successor(m, one, id)) /\ Successor(m, one, id).fragments = one
      /\ Successor(m, one, id).version = m.version + 1
  BY <1>1, <1>8, SuccessorHealthy
<1> QED
  BY <1>5, <1>7, <1>9 DEF IsCommit

\* One more row of a fragment is deleted.
LEMMA NextDeletionHealthy ==
    ASSUME NEW m, m.version \in Nat, NEW g, HealthyFragment(g, m.version)
    PROVE  LET next == NextDeletion(m, g)
               struck == [g EXCEPT !.deletion = next]
           IN IF next.num_deleted_rows = g.physical_rows THEN LiveRows(g) = 1
              ELSE /\ HealthyFragment(struck, m.version + 1) /\ struck.id = g.id
                   /\ LiveRows(struck) = LiveRows(g) - 1
<1> DEFINE next == NextDeletion(m, g)
<1> DEFINE struck == [g EXCEPT !.deletion = next]
<1> DEFINE d == IF g.deletion = None THEN 0 ELSE g.deletion.num_deleted_rows
<1> DEFINE p == g.physical_rows
<1> DEFINE r == next.num_deleted_rows
<1>1. g \in Fragments /\ p \in Nat /\ p > 0
  BY DEF HealthyFragment, Fragments
<1>2. d \in Nat /\ d < p /\ LiveRows(g) = p - d
  <2>1. CASE g.deletion = None
    BY <1>1, <2>1, LiveRowsOfHealthy
  <2>2. CASE g.deletion # None
    <3>1. g.deletion \in DeletionFiles /\ LiveRows(g) = p - d
      BY <2>2, LiveRowsOfHealthy
    <3> QED
      BY <2>2, <3>1 DEF HealthyFragment, HealthyDeletion, DeletionFiles
  <2> QED
    BY <2>1, <2>2
<1>3. r = d + 1
  BY DEF NextDeletion
<1>4. /\ next.file_type \in {0, 1} /\ next.read_version = m.version /\ next.base_id = None
      /\ next.id = m.version + 1
  BY DEF NextDeletion
<1>5. next \in DeletionFiles
  <2>1. /\ next = [file_type |-> next.file_type, read_version |-> m.version, id |-> m.version + 1,
                   num_deleted_rows |-> r, base_id |-> None]
        /\ next.file_type \in Nat /\ r \in Nat
    BY <1>2, <1>3, <1>4 DEF NextDeletion
  <2> HIDE DEF next, r
  <2> QED
    BY <1>4, <2>1 DEF DeletionFiles
<1>6. next # None
  BY <1>5, NoneAssumption
<1> HIDE DEF next
<1>7. /\ struck \in Fragments /\ struck.deletion = next /\ struck.physical_rows = p
      /\ struck.id = g.id /\ struck.files = g.files /\ struck.overlays = g.overlays
  BY <1>1, <1>5 DEF Fragments
<1> HIDE DEF struck, d, p, r
<1>8. CASE r = p
  <2>1. p - d = 1
    BY <1>1, <1>2, <1>3, <1>8
  <2> QED
    BY <1>2, <1>8, <2>1 DEF r, p, next
<1>9. CASE r # p
  <2>1. r < p /\ r \in Nat /\ p - r = p - d - 1 /\ r <= p
    BY <1>1, <1>2, <1>3, <1>9
  <2>2. HealthyDeletion(next, p, m.version + 1)
    BY <1>4, <2>1 DEF HealthyDeletion, r
  <2>3. HealthyFragment(struck, m.version + 1)
    BY <1>7, <2>2 DEF HealthyFragment, p
  <2>4. LiveRows(struck) = p - r
    BY <1>6, <1>7, <2>1 DEF LiveRows, r
  <2> QED
    BY <1>2, <1>7, <1>9, <2>1, <2>3, <2>4 DEF r, p, next, struck
<1> QED
  BY <1>8, <1>9

LEMMA DeletedHealthy ==
    ASSUME NEW m, Healthy(m), m.version < LastVersion, NEW rows, HasRows(m.fragments, rows),
           NEW k \in DOMAIN m.fragments
    PROVE  IsCommit(DeletedFrom(m, k), m, rows - 1)
<1> DEFINE fragments == m.fragments
<1> DEFINE v == m.version + 1
<1> DEFINE id == m.max_fragment_id
<1> DEFINE n == Len(fragments)
<1> DEFINE g == fragments[k]
<1> DEFINE next == NextDeletion(m, g)
<1> DEFINE struck == [g EXCEPT !.deletion = next]
<1> DEFINE r == next.num_deleted_rows
<1>1. /\ m.version \in Nat /\ id \in Nat /\ fragments \in Seq(Fragments) /\ k \in 1..n /\ n \in Nat
      /\ HealthyFragment(g, m.version)
      /\ \A i \in 1..n : /\ HealthyFragment(fragments[i], v) /\ fragments[i].id <= id
                         /\ LiveRows(fragments[i]) \in Nat /\ LiveRows(fragments[i]) >= 1
      /\ \A i, j \in 1..n : fragments[i].id = fragments[j].id => i = j
  BY HealthyParts
<1>2. IF r = g.physical_rows THEN LiveRows(g) = 1
      ELSE HealthyFragment(struck, v) /\ struck.id = g.id /\ LiveRows(struck) = LiveRows(g) - 1
  BY <1>1, NextDeletionHealthy
<1>3. CASE r = g.physical_rows
  <2> DEFINE more == RemoveAt(fragments, k)
  <2>1. DeletedFrom(m, k) = Successor(m, more, id)
    BY <1>3 DEF DeletedFrom
  <2>2. HasRows(more, rows - 1)
    BY <1>1, <1>2, <1>3, RowsOfRemoval
  <2>3. /\ more \in Seq(Fragments) /\ Len(more) = n - 1
        /\ \A i \in 1..(n - 1) : more[i] = IF i < k THEN fragments[i] ELSE fragments[i + 1]
    BY <1>1, RemoveOne
  <2> HIDE DEF more, fragments, n, v, id
  <2>4. DOMAIN more = 1..(n - 1)
    BY <2>3
  <2>5. HealthyFragments(more, v, id)
    <3> DEFINE at == [i \in 1..(n - 1) |-> IF i < k THEN i ELSE i + 1]
    <3>1. ASSUME NEW i \in 1..(n - 1) PROVE at[i] \in 1..n /\ more[i] = fragments[at[i]]
      <4>1. CASE i < k
        <5>1. at[i] = i /\ i \in 1..n /\ more[i] = fragments[i]
          BY <1>1, <2>3, <4>1
        <5> HIDE DEF at
        <5> QED
          BY <5>1
      <4>2. CASE ~(i < k)
        <5>1. at[i] = i + 1 /\ i + 1 \in 1..n /\ more[i] = fragments[i + 1]
          BY <1>1, <2>3, <4>2
        <5> HIDE DEF at
        <5> QED
          BY <5>1
      <4> QED
        BY <4>1, <4>2
    <3>2. \A i, j \in 1..(n - 1) : at[i] = at[j] => i = j
      BY <1>1
    <3> HIDE DEF at
    <3>3. \A i \in 1..(n - 1) : HealthyFragment(more[i], v) /\ more[i].id <= id
      BY <1>1, <3>1
    <3>4. ASSUME NEW i \in 1..(n - 1), NEW j \in 1..(n - 1), more[i].id = more[j].id PROVE i = j
      <4>1. /\ at[i] \in 1..n /\ at[j] \in 1..n
            /\ fragments[at[i]].id = fragments[at[j]].id
        BY <3>1, <3>4
      <4>2. \A a, b \in 1..n : fragments[a].id = fragments[b].id => a = b
        BY <1>1
      <4>3. at[i] = at[j]
        BY <4>1, <4>2
      <4> QED
        BY <3>2, <4>3
    <3> QED
      BY <2>3, <2>4, <3>3, <3>4 DEF HealthyFragments
  <2>6. /\ Healthy(Successor(m, more, id)) /\ Successor(m, more, id).fragments = more
        /\ Successor(m, more, id).version = m.version + 1
    BY <1>1, <2>5, SuccessorHealthy DEF v
  <2> QED
    BY <2>1, <2>2, <2>6 DEF IsCommit
<1>4. CASE r # g.physical_rows
  <2> DEFINE more == [fragments EXCEPT ![k] = struck]
  <2>1. DeletedFrom(m, k) = Successor(m, more, id)
    BY <1>4 DEF DeletedFrom
  <2> HIDE DEF fragments, n, struck, g, next
  <2>2. struck \in Fragments /\ struck.id = g.id /\ LiveRows(struck) = LiveRows(g) - 1
    BY <1>2, <1>4 DEF HealthyFragment, r
  <2>3. /\ more \in Seq(Fragments) /\ Len(more) = n /\ more[k] = struck /\ DOMAIN more = 1..n
        /\ \A i \in 1..n : i # k => more[i] = fragments[i]
    BY <1>1, <2>2 DEF n
  <2> HIDE DEF more
  <2>4. HasRows(more, rows - 1)
    <3>1. LiveRows(fragments[k]) >= 1 /\ LiveRows(more[k]) = LiveRows(fragments[k]) - 1
      BY <1>1, <2>2, <2>3 DEF g
    <3>2. HasRows(fragments, rows)
      BY DEF fragments
    <3>3. \A i \in 1..n : i # k => LiveRows(more[i]) = LiveRows(fragments[i])
      BY <2>3
    <3> QED
      BY <1>1, <2>3, <3>1, <3>2, <3>3, RowsOfDeletion DEF n
  <2>5. HealthyFragments(more, v, id)
    <3>1. \A i \in 1..n : more[i].id = fragments[i].id
      BY <2>2, <2>3 DEF g
    <3>2. \A i \in 1..n : HealthyFragment(more[i], v) /\ more[i].id <= id
      BY <1>1, <1>2, <1>4, <2>2, <2>3, <3>1 DEF r
    <3> QED
      BY <1>1, <2>3, <3>1, <3>2 DEF HealthyFragments
  <2>6. /\ Healthy(Successor(m, more, id)) /\ Successor(m, more, id).fragments = more
        /\ Successor(m, more, id).version = m.version + 1
    BY <1>1, <2>5, SuccessorHealthy DEF v
  <2> QED
    BY <2>1, <2>4, <2>6 DEF IsCommit
<1> QED
  BY <1>3, <1>4

\* A struck data file is healthy, without the column and with no other than before.
LEMMA StruckHealthy ==
    ASSUME NEW file, HealthyFile(file)
    PROVE  /\ HealthyFile(Struck(file)) /\ DOMAIN Struck(file).fields = DOMAIN file.fields
           /\ \A j \in DOMAIN file.fields :
                 /\ Struck(file).fields[j] # 0
                 /\ Struck(file).fields[j] >= 0 => Struck(file).fields[j] = file.fields[j]
<1> DEFINE n == Len(file.fields)
<1> DEFINE fields == [i \in DOMAIN file.fields |-> IF file.fields[i] = 0 THEN -2 ELSE file.fields[i]]
<1> DEFINE struck == Struck(file)
<1>1. /\ file \in DataFiles /\ file.fields \in Seq(Int) /\ n \in Nat /\ DOMAIN file.fields = 1..n
      /\ file.column_indices \in Seq(Int)
  <2>1. file \in DataFiles
    BY DEF HealthyFile
  <2> QED
    BY <2>1 DEF DataFiles
<1>2. /\ struck.fields = fields /\ struck.path = file.path /\ struck.base_id = file.base_id
      /\ struck.column_indices = file.column_indices
  BY <1>1 DEF Struck, DataFiles
<1>3. \A i \in 1..n : file.fields[i] \in Int /\ (file.fields[i] >= 0 \/ file.fields[i] = -2)
  BY <1>1 DEF HealthyFile
<1>4. /\ DOMAIN fields = 1..n
      /\ \A i \in 1..n : fields[i] = IF file.fields[i] = 0 THEN -2 ELSE file.fields[i]
  BY <1>1
<1>5. fields \in Seq(Int)
  <2>1. fields \in [1..n -> Int]
    BY <1>1, <1>3, <1>4
  <2> QED
    BY <1>1, <2>1
<1>6. struck \in DataFiles
  <2>1. struck = [file EXCEPT !.fields = fields]
    BY DEF Struck
  <2> HIDE DEF struck, fields
  <2> QED
    BY <1>1, <1>5, <2>1 DEF DataFiles
<1> HIDE DEF struck, fields, n
<1>7. \A i \in 1..n : /\ fields[i] # 0 /\ (fields[i] >= 0 \/ fields[i] = -2)
                      /\ fields[i] >= 0 => fields[i] = file.fields[i]
  BY <1>3, <1>4
<1>8. Repeats(fields) = {}
  <2>1. ASSUME NEW i \in 1..n, NEW j \in 1..(i - 1), fields[i] >= 0, fields[j] = fields[i] PROVE FALSE
    <3>1. j \in 1..n
      BY <1>1
    <3>2. file.fields[i] = fields[i] /\ file.fields[j] = fields[j]
      BY <1>7, <2>1, <3>1
    <3>3. Repeats(file.fields) = {}
      BY DEF HealthyFile
    <3> QED
      BY <1>1, <2>1, <3>2, <3>3 DEF Repeats
  <2> QED
    BY <1>4, <2>1 DEF Repeats
<1>9. IsSafeRelativePath(struck.path) /\ struck.base_id = None
  BY <1>2 DEF HealthyFile
<1>10. struck.column_indices = [i \in 1..n |-> i - 1]
  BY <1>1, <1>2 DEF HealthyFile
<1>11. HealthyFile(struck)
  BY <1>2, <1>4, <1>6, <1>7, <1>8, <1>9, <1>10 DEF HealthyFile
<1> QED
  BY <1>1, <1>2, <1>4, <1>7, <1>11 DEF struck

LEMMA RewriteHealthy ==
    ASSUME NEW m, m.version \in Nat, NEW g, HealthyFragment(g, m.version)
    PROVE  LET next == Rewrite(m, g)
           IN /\ HealthyFragment(next, m.version + 1) /\ next.id = g.id
              /\ LiveRows(next) = LiveRows(g)
<1> DEFINE ss == [i \in DOMAIN g.files |-> Rest(g.files[i])]
<1> DEFINE kept == FlattenSeq(ss)
<1> DEFINE file == DataFile(<<m.version + 1, g.id + 1>>, <<0>>)
<1> DEFINE files == Append(kept, file)
<1> DEFINE next == Rewrite(m, g)
<1>1. /\ g \in Fragments /\ g.files \in Seq(DataFiles) /\ DOMAIN g.files = 1..Len(g.files)
      /\ Len(g.files) \in Nat /\ g.id \in Nat
      /\ \A i \in DOMAIN g.files : HealthyFile(g.files[i])
      /\ Disjoint(g.files)
  BY DEF HealthyFragment, Fragments
<1>2. \A i \in DOMAIN g.files : HealthyFile(Struck(g.files[i]))
  BY <1>1, StruckHealthy
<1>3. /\ DOMAIN ss = DOMAIN g.files
      /\ \A i \in DOMAIN g.files : ss[i] = <<>> \/ ss[i] = <<Struck(g.files[i])>>
  BY DEF Rest
<1>4. \A i \in DOMAIN g.files : ss[i] \in Seq(DataFiles) /\ Len(ss[i]) <= 1
  <2> SUFFICES ASSUME NEW i \in DOMAIN g.files PROVE ss[i] \in Seq(DataFiles) /\ Len(ss[i]) <= 1
    OBVIOUS
  <2>1. Struck(g.files[i]) \in DataFiles
    BY <1>2 DEF HealthyFile
  <2> DEFINE d == Struck(g.files[i])
  <2> DEFINE s == ss[i]
  <2>2. s = <<>> \/ s = <<d>>
    BY <1>3
  <2> HIDE DEF d, s
  <2>3. d \in DataFiles
    BY <2>1 DEF d
  <2>4. s \in Seq(DataFiles) /\ Len(s) <= 1
    <3>1. CASE s = <<>>
      BY <3>1
    <3>2. CASE s = <<d>>
      BY <2>3, <3>2
    <3> QED
      BY <2>2, <3>1, <3>2
  <2> QED
    BY <2>4 DEF s
<1>5. ASSUME NEW i \in DOMAIN g.files, ss[i] # <<>> PROVE ss[i][1] = Struck(g.files[i])
  <2> DEFINE d == Struck(g.files[i])
  <2> DEFINE s == ss[i]
  <2>1. s = <<d>>
    BY <1>3, <1>5
  <2> HIDE DEF d, s
  <2>2. s[1] = d
    BY <2>1
  <2> QED
    BY <2>2 DEF d, s
<1>6. next = [g EXCEPT !.files = files]
  BY DEF Rewrite
<1>7. ss \in Seq(Seq(DataFiles))
  <2>1. ss = [i \in DOMAIN ss |-> ss[i]]
    OBVIOUS
  <2> DEFINE k == Len(g.files)
  <2>2. k \in Nat /\ DOMAIN ss = 1..k
    BY <1>1, <1>3
  <2> HIDE DEF ss, k
  <2>3. \A i \in 1..k : ss[i] \in Seq(DataFiles)
    BY <1>1, <1>4 DEF k
  <2> QED
    BY <2>1, <2>2, <2>3
<1> HIDE DEF ss
<1>8. PICK a : /\ a \in [DOMAIN kept -> DOMAIN ss]
               /\ \A p \in DOMAIN kept : ss[a[p]] # <<>> /\ kept[p] = ss[a[p]][1]
               /\ \A p, q \in DOMAIN kept : a[p] = a[q] => p = q
  <2>1. \A i \in DOMAIN ss : Len(ss[i]) <= 1
    BY <1>3, <1>4
  <2>2. PICK a : IsChoice(a, kept, ss)
    BY <1>7, <2>1, FlattenOptions
  <2> HIDE DEF kept
  <2> QED
    BY <2>2, Zenon DEF IsChoice
<1>9. kept \in Seq(DataFiles)
  BY <1>7, FlattenElements
<1> HIDE DEF kept
<1>10. \A p \in DOMAIN kept : a[p] \in DOMAIN g.files /\ kept[p] = Struck(g.files[a[p]])
  BY <1>3, <1>5, <1>8
<1>11. HealthyFile(file) /\ file.fields = <<0>>
  <2> DEFINE path == <<m.version + 1, g.id + 1>>
  <2> DEFINE fields == <<0>>
  <2>1. path \in Seq(Nat \ {0}) /\ path # <<>>
    <3>1. m.version + 1 \in Nat \ {0} /\ g.id + 1 \in Nat \ {0}
      BY <1>1
    <3> QED
      BY <3>1
  <2>2. fields \in Seq(Nat) /\ Repeats(fields) = {}
    <3>1. DOMAIN fields = {1} /\ fields[1] = 0 /\ fields \in Seq(Nat)
      OBVIOUS
    <3> HIDE DEF fields
    <3> QED
      BY <3>1 DEF Repeats
  <2>3. file = DataFile(path, fields)
    OBVIOUS
  <2> HIDE DEF path, fields, file
  <2>4. HealthyFile(file)
    BY <2>1, <2>2, <2>3, FreshFile
  <2>5. file.fields = fields
    BY <2>3 DEF DataFile
  <2> QED
    BY <2>4, <2>5 DEF fields
<1> HIDE DEF file
<1> DEFINE n == Len(kept)
<1>12. /\ n \in Nat /\ DOMAIN kept = 1..n /\ DOMAIN files = 1..(n + 1) /\ files \in Seq(DataFiles)
       /\ files[n + 1] = file /\ \A p \in 1..n : files[p] = kept[p]
  <2>1. file \in DataFiles
    BY <1>11 DEF HealthyFile
  <2> QED
    BY <1>9, <2>1
<1> HIDE DEF files, n
<1>13. \A p \in 1..(n + 1) : p = n + 1 \/ p \in 1..n
  BY <1>12
<1>14. \A p \in 1..(n + 1) : HealthyFile(files[p])
  BY <1>2, <1>10, <1>11, <1>12, <1>13
\* The kept files have the columns of the files they come from, but for the rewritten one.
<1>15. ASSUME NEW p \in 1..n, NEW j \in DOMAIN files[p].fields
       PROVE  /\ a[p] \in DOMAIN g.files /\ j \in DOMAIN g.files[a[p]].fields
              /\ files[p].fields[j] # 0
              /\ files[p].fields[j] >= 0 => files[p].fields[j] = g.files[a[p]].fields[j]
  <2> DEFINE h == g.files[a[p]]
  <2>1. a[p] \in DOMAIN g.files /\ files[p] = Struck(h) /\ HealthyFile(h)
    BY <1>1, <1>10, <1>12
  <2> HIDE DEF h
  <2>2. j \in DOMAIN h.fields
    BY <1>15, <2>1, StruckHealthy
  <2>3. Struck(h).fields[j] # 0 /\ (Struck(h).fields[j] >= 0 => Struck(h).fields[j] = h.fields[j])
    BY <2>1, <2>2, StruckHealthy
  <2> QED
    BY <2>1, <2>2, <2>3 DEF h
<1>16. DOMAIN file.fields = {1} /\ file.fields[1] = 0
  BY <1>11
<1>17. Disjoint(files)
  <2> SUFFICES ASSUME NEW p \in 1..(n + 1), NEW q \in 1..(n + 1),
                      NEW j \in DOMAIN files[p].fields, NEW l \in DOMAIN files[q].fields,
                      files[p].fields[j] >= 0, files[p].fields[j] = files[q].fields[l]
               PROVE  p = q
    BY <1>12 DEF Disjoint
  <2>1. CASE p \in 1..n /\ q \in 1..n
    <3>1. g.files[a[p]].fields[j] >= 0 /\ g.files[a[p]].fields[j] = g.files[a[q]].fields[l]
      BY <1>15, <2>1
    <3>2. a[p] = a[q]
      BY <1>1, <1>15, <2>1, <3>1 DEF Disjoint
    <3> QED
      BY <1>8, <1>12, <2>1, <3>2
  <2>2. CASE p = n + 1 /\ q \in 1..n
    <3>1. files[p].fields[j] = 0
      BY <1>12, <1>16, <2>2
    <3> QED
      BY <1>15, <2>2, <3>1
  <2>3. CASE p \in 1..n /\ q = n + 1
    <3>1. files[q].fields[l] = 0
      BY <1>12, <1>16, <2>3
    <3> QED
      BY <1>15, <2>3, <3>1
  <2> QED
    BY <1>13, <2>1, <2>2, <2>3
<1>18. /\ next \in Fragments /\ next.files = files /\ next.deletion = g.deletion /\ next.id = g.id
       /\ next.physical_rows = g.physical_rows /\ next.overlays = g.overlays
  <2> HIDE DEF next
  <2> QED
    BY <1>1, <1>6, <1>12 DEF Fragments
<1>19. HealthyFragment(g, m.version + 1)
  BY LaterFragment
<1> HIDE DEF next
<1>20. HealthyFragment(next, m.version + 1)
  BY <1>12, <1>14, <1>17, <1>18, <1>19 DEF HealthyFragment
<1>21. LiveRows(next) = LiveRows(g)
  BY <1>18 DEF LiveRows
<1> QED
  BY <1>18, <1>20, <1>21 DEF next

LEMMA RewrittenHealthy ==
    ASSUME NEW m, Healthy(m), m.version < LastVersion, NEW rows, HasRows(m.fragments, rows)
    PROVE  IsCommit(Rewritten(m), m, rows)
<1> DEFINE fragments == m.fragments
<1> DEFINE v == m.version + 1
<1> DEFINE id == m.max_fragment_id
<1> DEFINE n == Len(fragments)
<1> DEFINE more == [i \in DOMAIN fragments |-> Rewrite(m, fragments[i])]
<1>1. /\ m.version \in Nat /\ id \in Nat /\ n \in Nat /\ DOMAIN fragments = 1..n
      /\ fragments \in Seq(Fragments)
      /\ \A i \in 1..n : /\ HealthyFragment(fragments[i], m.version) /\ fragments[i].id <= id
      /\ \A i, j \in 1..n : fragments[i].id = fragments[j].id => i = j
  BY HealthyParts
<1>2. DOMAIN more = 1..n /\ \A i \in 1..n : more[i] = Rewrite(m, fragments[i])
  BY <1>1
<1>3. \A i \in 1..n : /\ HealthyFragment(more[i], v) /\ more[i].id = fragments[i].id
                      /\ LiveRows(more[i]) = LiveRows(fragments[i])
  <2> HIDE DEF more
  <2> QED
    BY <1>1, <1>2, RewriteHealthy
<1>4. Rewritten(m) = Successor(m, more, id)
  BY DEF Rewritten
<1>5. more \in Seq(Fragments) /\ Len(more) = n
  <2>1. more = [i \in DOMAIN more |-> more[i]]
    OBVIOUS
  <2> HIDE DEF more, n
  <2>2. \A i \in 1..n : more[i] \in Fragments
    BY <1>3 DEF HealthyFragment
  <2> QED
    BY <1>1, <1>2, <2>1, <2>2
<1> HIDE DEF more
<1>6. HasRows(more, rows)
  BY <1>3, <1>5, RowsOfSame
<1> HIDE DEF fragments, n
<1>7. HealthyFragments(more, v, id)
  BY <1>1, <1>2, <1>3, <1>5 DEF HealthyFragments
<1>8. /\ Healthy(Successor(m, more, id)) /\ Successor(m, more, id).fragments = more
      /\ Successor(m, more, id).version = m.version + 1
  BY <1>1, <1>7, SuccessorHealthy DEF v
<1> QED
  BY <1>4, <1>6, <1>8 DEF IsCommit

\* The first version.
LEMMA FirstHealthy ==
    Healthy(First) /\ First.version = 1 /\ HasRows(First.fragments, 2)
<1> DEFINE g == Fragment(0, <<DataFile(<<1>>, <<0, 1>>)>>, 2)
<1> DEFINE one == <<g>>
<1>1. HealthyFragment(g, 1) /\ g.id = 0 /\ LiveRows(g) = 2
  <2>1. 0 \in Nat /\ 1 \in Nat \ {0} /\ 2 \in Nat \ {0}
    OBVIOUS
  <2> QED
    BY <2>1, FreshFragment
<1>2. g \in Fragments
  BY <1>1 DEF HealthyFragment
<1>3. First = [kind |-> "manifest", stem |-> MaxWord - 1, long |-> TRUE, envelope |-> Envelope,
               version |-> 1, max_fragment_id |-> 0, reader_flags |-> {}, writer_flags |-> {},
               config |-> FALSE, base_paths |-> <<>>, data_format |-> "2.1",
               fragments |-> one, transaction |-> <<1>>]
  BY DEF First
<1> HIDE DEF g
<1>4. one \in Seq(Fragments) /\ DOMAIN one = {1} /\ one[1] = g
  BY <1>2
<1>5. HasRows(one, 2)
  <2>1. 2 \in Nat
    OBVIOUS
  <2> QED
    BY <1>1, <2>1, RowsOfOne
<1> HIDE DEF one
<1>6. HealthyFragments(one, 1, 0)
  BY <1>1, <1>4 DEF HealthyFragments
<1>7. Range(one) = {g}
  BY <1>4 DEF Range
<1>8. g.deletion = None
  BY DEF g, Fragment
<1>9. 1 \in 1..LastVersion /\ MaxWord - 1 \in Nat
  BY VersionAssumption, WordAssumption
<1>10. First \in ManifestFiles
  <2>1. Envelope \in Envelopes
    <3> DEFINE version == <<0, 1>>
    <3>1. version \in Nat \X Nat
      OBVIOUS
    <3>2. Envelope = [size |-> 40, magic |-> TRUE, position |-> 4, version |-> version,
                      length |-> 16, decodes |-> TRUE]
      BY DEF Envelope
    <3> HIDE DEF version
    <3> QED
      BY <3>1, <3>2 DEF Envelopes
  <2> DEFINE transaction == <<1>>
  <2> DEFINE bases == <<>>
  <2>2. transaction \in Seq(Int) /\ bases \in Seq([id : Nat, empty : BOOLEAN])
    OBVIOUS
  <2>3. First = [kind |-> "manifest", stem |-> MaxWord - 1, long |-> TRUE, envelope |-> Envelope,
                 version |-> 1, max_fragment_id |-> 0, reader_flags |-> {}, writer_flags |-> {},
                 config |-> FALSE, base_paths |-> bases, data_format |-> "2.1",
                 fragments |-> one, transaction |-> transaction]
    BY <1>3
  <2> HIDE DEF transaction, bases
  <2> QED
    BY <1>4, <1>9, <2>1, <2>2, <2>3 DEF ManifestFiles
<1>11. /\ First.kind = "manifest" /\ First.long /\ First.stem = MaxWord - 1
       /\ First.envelope = Envelope /\ First.version = 1 /\ First.max_fragment_id = 0
       /\ First.reader_flags = {} /\ First.writer_flags = {} /\ First.config = FALSE
       /\ First.base_paths = <<>> /\ First.data_format = "2.1" /\ First.transaction = <<1>>
       /\ First.fragments = one
  BY <1>3
<1>12. Deleted(First) = {}
  BY <1>7, <1>8, <1>11 DEF Deleted
<1>13. HealthyFlags(First)
  BY <1>11, <1>12 DEF HealthyFlags
<1>14. Healthy(First)
  BY <1>6, <1>9, <1>10, <1>11, <1>13 DEF Healthy
<1> QED
  BY <1>5, <1>11, <1>14

\* What the linter learns from the name and the frame of a healthy manifest.
LEMMA HealthyName ==
    ASSUME NEW m, Healthy(m)
    PROVE  /\ m # None /\ m.version \in Nat /\ m.version >= 1 /\ m.version <= LastVersion
           /\ m.kind = "manifest" /\ m.long = TRUE
           /\ ParseManifestFilename(m) = m.version /\ ParseManifestFilename(m) # None
           /\ Decodes(m.envelope)
<1>1. m \in ManifestFiles /\ m.version \in 1..LastVersion /\ LastVersion \in Nat /\ MaxWord \in Nat
  BY VersionAssumption, WordAssumption DEF Healthy
<1>2. m # None /\ m.version # None /\ m.stem # None
  <2>1. m.version \in Int /\ m.stem \in Int
    BY <1>1 DEF Healthy
  <2> QED
    BY <1>1, <2>1, NoneAssumption
<1>3. m.long = TRUE
  BY <1>1 DEF Healthy, ManifestFiles
<1>4. ParseManifestFilename(m) = m.version
  <2>1. ParseManifestFilename(m) = MaxWord - (MaxWord - m.version)
    BY <1>2, <1>3 DEF ParseManifestFilename, Healthy
  <2> QED
    BY <1>1, <2>1
<1>5. Decodes(m.envelope)
  <2>1. m.envelope = Envelope
    BY DEF Healthy
  <2>2. Decodes(Envelope)
    BY DEF Decodes, Envelope
  <2> QED
    BY <2>1, <2>2
<1> QED
  BY <1>1, <1>2, <1>3, <1>4, <1>5 DEF Healthy

LEMMA AttachedHealthy ==
    ASSUME NEW s, \A m \in s : Healthy(m)
    PROVE  Attached(s) = s
BY HealthyName DEF Attached

\* AL206 looks up files of the manifest, and no others.
LEMMA ReferencesAreFiles ==
    ASSUME NEW m, Healthy(m)
    PROVE  References(m) \in Seq([object : Files(m), sized : BOOLEAN])
<1> DEFINE S == [object : Files(m), sized : BOOLEAN]
<1> DEFINE n == Len(m.fragments)
<1>1. /\ n \in Nat /\ DOMAIN m.fragments = 1..n
      /\ \A i \in 1..n : HealthyFragment(m.fragments[i], m.version)
  BY HealthyParts
<1> DEFINE Body(g) == {DataObject(file.path) : file \in Range(g.files)}
                        \cup {[kind |-> "deletion",
                               name |-> <<g.id, d.read_version, d.id, d.file_type>>] :
                                d \in {g.deletion} \ {None}}
<1>2. /\ TransactionObject(m.transaction) \in Files(m)
      /\ \A g \in Range(m.fragments) : Body(g) \subseteq Files(m)
  <2>1. Files(m) = {TransactionObject(m.transaction)} \cup UNION {Body(g) : g \in Range(m.fragments)}
    BY DEF Files
  <2> HIDE DEF Body
  <2> QED
    BY <2>1
<1>3. ASSUME NEW g, HealthyFragment(g, m.version), Body(g) \subseteq Files(m)
      PROVE  DataReferences(g) \in Seq(S) /\ DeletionReferences(m, g) \in Seq(S)
  <2> DEFINE ss == [i \in DOMAIN g.files |-> DataReference(g.files[i])]
  <2> DEFINE k == Len(g.files)
  <2>1. g.files \in Seq(DataFiles) /\ DOMAIN g.files = 1..k /\ k \in Nat
    BY <1>3 DEF HealthyFragment, Fragments
  <2>2. ASSUME NEW i \in 1..k PROVE ss[i] \in Seq(S)
    <3> DEFINE file == g.files[i]
    <3> DEFINE r == Reference(DataObject(file.path), file.sized)
    <3>1. file \in DataFiles /\ file \in Range(g.files)
      BY <2>1 DEF Range
    <3>2. DataObject(file.path) \in Files(m)
      BY <1>3, <3>1
    <3>3. file.sized \in BOOLEAN
      BY <3>1 DEF DataFiles
    <3> DEFINE o == DataObject(file.path)
    <3>4. ss[i] = IF file.base_id = None /\ IsSafeRelativePath(file.path) THEN <<r>> ELSE <<>>
      BY <2>1 DEF DataReference
    <3>5. r = [object |-> o, sized |-> file.sized]
      BY DEF Reference
    <3> HIDE DEF S, ss, file, r, o
    <3>6. r \in S
      BY <3>2, <3>3, <3>5 DEF S, o
    <3>7. <<r>> \in Seq(S) /\ <<>> \in Seq(S)
      BY <3>6
    <3> QED
      BY <3>4, <3>7
  <2>3. ss \in Seq(Seq(S))
    <3>1. DOMAIN ss = 1..k /\ ss = [i \in DOMAIN ss |-> ss[i]]
      BY <2>1
    <3> HIDE DEF ss, k, S
    <3> QED
      BY <2>1, <2>2, <3>1
  <2>4. DataReferences(g) = FlattenSeq(ss)
    BY DEF DataReferences
  <2>5. DataReferences(g) \in Seq(S)
    <3> HIDE DEF ss, S
    <3> QED
      BY <2>3, <2>4, FlattenElements
  <2>6. DeletionReferences(m, g) \in Seq(S)
    <3> DEFINE o == DeletionObject(m, g)
    <3> DEFINE r == Reference(o, FALSE)
    <3>1. CASE g.deletion # None
      <4>1. o \in Files(m)
        BY <1>3, <3>1 DEF DeletionObject
      <4>2. r = [object |-> o, sized |-> FALSE]
        BY DEF Reference
      <4>3. DeletionReferences(m, g) = <<r>> \/ DeletionReferences(m, g) = <<>>
        BY DEF DeletionReferences
      <4> HIDE DEF o, r
      <4>4. r \in S
        BY <4>1, <4>2
      <4> HIDE DEF S
      <4>5. <<r>> \in Seq(S) /\ <<>> \in Seq(S)
        BY <4>4
      <4> QED
        BY <4>3, <4>5
    <3>2. CASE g.deletion = None
      <4>1. DeletionReferences(m, g) = <<>>
        BY <3>2 DEF DeletionReferences
      <4> HIDE DEF S
      <4> QED
        BY <4>1
    <3> QED
      BY <3>1, <3>2
  <2> QED
    BY <2>5, <2>6
<1> DEFINE ss == [i \in DOMAIN m.fragments |->
                    DataReferences(m.fragments[i]) \o DeletionReferences(m, m.fragments[i])]
<1> DEFINE last == IF IsSafeRelativePath(m.transaction)
                   THEN <<Reference(TransactionObject(m.transaction), FALSE)>> ELSE <<>>
<1>4. References(m) = FlattenSeq(ss) \o last
  BY DEF References
<1>5. ASSUME NEW i \in 1..n PROVE ss[i] \in Seq(S)
  <2> DEFINE g == m.fragments[i]
  <2>1. HealthyFragment(g, m.version) /\ g \in Range(m.fragments)
    BY <1>1 DEF Range
  <2>2. DataReferences(g) \in Seq(S) /\ DeletionReferences(m, g) \in Seq(S)
    BY <1>2, <1>3, <2>1
  <2>3. ss[i] = DataReferences(g) \o DeletionReferences(m, g)
    BY <1>1
  <2> HIDE DEF S, ss, g
  <2> QED
    BY <2>2, <2>3, ConcatProperties
<1>6. ss \in Seq(Seq(S))
  <2>1. DOMAIN ss = 1..n /\ ss = [i \in DOMAIN ss |-> ss[i]]
    BY <1>1
  <2> HIDE DEF ss, n, S
  <2> QED
    BY <1>1, <1>5, <2>1
<1>7. last \in Seq(S)
  <2> DEFINE o == TransactionObject(m.transaction)
  <2> DEFINE r == Reference(o, FALSE)
  <2>1. r = [object |-> o, sized |-> FALSE] /\ (last = <<r>> \/ last = <<>>)
    BY DEF Reference
  <2> HIDE DEF o, r, last
  <2>2. r \in S
    BY <1>2, <2>1 DEF o
  <2> HIDE DEF S
  <2>3. <<r>> \in Seq(S) /\ <<>> \in Seq(S)
    BY <2>2
  <2> QED
    BY <2>1, <2>3
<1> HIDE DEF S, ss, last
<1>8. FlattenSeq(ss) \in Seq(S)
  BY <1>6, FlattenElements
<1>9. References(m) \in Seq(S)
  BY <1>4, <1>7, <1>8, ConcatProperties
<1> QED
  BY <1>9 DEF S

\* What a commit on a healthy version makes of it and of its rows.
THEOREM CommitsAreHealthy ==
    ASSUME NEW m, Healthy(m), m.version < LastVersion, NEW rows \in 0..MaxRows,
           HasRows(m.fragments, rows), NEW c \in Commits(m)
    PROVE  c[2] \in {-1, 0, 2} /\ IsCommit(c[1], m, rows + c[2])
<1>1. rows \in Nat
  BY WordAssumption
<1>2. CASE c = <<Appended(m), 2>>
  BY <1>1, <1>2, AppendedHealthy
<1>3. CASE c = <<Rewritten(m), 0>>
  <2>1. c[1] = Rewritten(m) /\ c[2] = 0 /\ rows + 0 = rows
    BY <1>1, <1>3
  <2> QED
    BY <2>1, RewrittenHealthy
<1>4. CASE c = <<Configured(m), 0>>
  <2>1. c[1] = Configured(m) /\ c[2] = 0 /\ rows + 0 = rows
    BY <1>1, <1>4
  <2> QED
    BY <1>1, <2>1, ConfiguredHealthy
<1>5. ASSUME NEW i \in DOMAIN m.fragments, c = <<DeletedFrom(m, i), -1>>
      PROVE  c[2] \in {-1, 0, 2} /\ IsCommit(c[1], m, rows + c[2])
  <2>1. c[1] = DeletedFrom(m, i) /\ c[2] = -1 /\ rows + (-1) = rows - 1
    BY <1>1, <1>5
  <2> QED
    BY <2>1, DeletedHealthy
<1>6. ASSUME NEW i \in {1} \cap DOMAIN m.fragments, c = <<Compacted(m), 0>>
      PROVE  c[2] \in {-1, 0, 2} /\ IsCommit(c[1], m, rows + c[2])
  <2>1. c[1] = Compacted(m) /\ c[2] = 0 /\ rows + 0 = rows
    BY <1>1, <1>6
  <2>2. m.fragments # <<>>
    BY <1>6
  <2> QED
    BY <2>1, <2>2, CompactedHealthy
<1> QED
  BY <1>2, <1>3, <1>4, <1>5, <1>6 DEF Commits

-----------------------------------------------------------------------------
(* The invariant of a healthy dataset and of the linter of one.            *)

Some(m) == {m} \ {None}

Newer(v) == \E m \in entries : m.version > v

\* Every manifest that anyone still knows.
Known == entries \cup unread \cup seen \cup Some(writing) \cup Some(selected)

ManifestsInv ==
    /\ live \in Seq(Nat) /\ Len(live) <= LastVersion
    /\ \A v \in DOMAIN live : live[v] <= 2 * v
    /\ \A m \in Known : Healthy(m) /\ m.version \in DOMAIN live /\ HasRows(m.fragments, live[m.version])

\* The files of the latest version are there, and those of the version being written.
WriterInv ==
    /\ resized = {}
    /\ \E m \in entries : Latest(m)
    /\ \A m \in entries : Latest(m) => Files(m) \subseteq objects
    /\ IF writing = None THEN \A m \in entries : Latest(m) => m.version = Len(live)
       ELSE /\ Files(writing) \subseteq objects /\ writing.version = Len(live)
            /\ \A m \in entries : m.version < writing.version

\* What was listed is still there or outdated, and all of it is there without a cleanup.
ListInv ==
    /\ opened \in Nat /\ \E m \in entries : m.version >= opened
    /\ \A m \in unread \cup seen \cup Some(selected) : m \in entries \/ Newer(m.version)
    /\ phase = "start" => ~cleaned /\ unread = {} /\ seen = {}
    /\ phase = "list" => Newer(opened) \/ \E m \in unread \cup seen : m.version >= opened
    /\ ~cleaned =>
          /\ unread \cup seen \cup Some(selected) \subseteq entries
          /\ phase # "start" => \A m \in entries : m.version >= opened => Files(m) \subseteq objects
          /\ phase = "list" => \E m \in unread \cup seen : m.version >= opened
          /\ phase \notin {"start", "list"} => selected # None /\ selected.version >= opened

\* An error of the inspection and a file that is missing are due to a newer version.
ReportInv ==
    /\ phase \in {"start", "list", "read"} => errors = {} /\ manifest = None
    /\ phase \in {"start", "list"} => selected = None
    /\ phase = "read" => selected # None
    /\ phase \in {"start", "list", "read", "stat", "rules"} => diagnostics = {} /\ unchecked = <<>>
    /\ manifest # None => manifest = selected
    /\ errors # {} => cleaned /\ Newer(Aim)
    /\ manifest # None /\ phase \notin {"read", "stat"} => num_rows = live[manifest.version]
    /\ \A d \in diagnostics :
          d.rule = "AL207" \/ (d.rule \in {"AL201", "AL206"} /\ cleaned /\ Newer(Aim))
    /\ \/ unchecked = <<>>
       \/ manifest # None /\ unchecked \in Seq([object : Files(manifest), sized : BOOLEAN])

HealthyInv == damage = {} => ManifestsInv /\ WriterInv /\ ListInv /\ ReportInv

LEMMA RowsAreNatural ==
    ASSUME NEW fragments \in Seq(Fragments), NEW rows, HasRows(fragments, rows)
    PROVE  rows \in Nat
<1>1. PICK s : IsSum(s, fragments) /\ s[Len(fragments)] = rows
  BY DEF HasRows
<1>2. Len(fragments) \in 0..Len(fragments)
  OBVIOUS
<1> QED
  BY <1>1, <1>2 DEF IsSum

\* No commit on the way to the bound leaves more rows than a word can count.
LEMMA RowsInRange ==
    ASSUME ManifestsInv, NEW v \in DOMAIN live
    PROVE  live[v] \in 0..MaxRows
<1>1. /\ live \in Seq(Nat) /\ Len(live) <= LastVersion /\ live[v] <= 2 * v /\ live[v] \in Nat
      /\ v \in 1..Len(live) /\ Len(live) \in Nat
  BY DEF ManifestsInv
<1>2. LastVersion \in Nat /\ 2 * LastVersion <= MaxRows /\ MaxRows \in Nat
  BY VersionAssumption, WordAssumption
<1> DEFINE n == Len(live)
<1> DEFINE r == live[v]
<1>3. n \in Nat /\ n <= LastVersion /\ v \in 1..n /\ r \in Nat /\ r <= 2 * v
  BY <1>1
<1> HIDE DEF n, r
<1>4. r <= MaxRows
  BY <1>2, <1>3
<1> QED
  BY <1>2, <1>3, <1>4 DEF r

\* The versions of the known manifests are numbers, and a manifest that is not the latest
\* is outdated.
LEMMA KnownVersions ==
    ASSUME ManifestsInv
    PROVE  /\ \A m \in Known : m # None /\ m.version \in Nat /\ m.version \in 1..Len(live)
           /\ \A m \in entries : Latest(m) \/ Newer(m.version)
<1>1. \A m \in Known : m # None /\ m.version \in Nat /\ m.version \in 1..Len(live)
  <2>1. DOMAIN live = 1..Len(live) /\ \A m \in Known : Healthy(m) /\ m.version \in DOMAIN live
    BY DEF ManifestsInv
  <2>2. \A m \in Known : m # None /\ m.version \in Nat
    BY <2>1, HealthyName
  <2> QED
    BY <2>1, <2>2
<1>2. ASSUME NEW m \in entries, ~Latest(m) PROVE Newer(m.version)
  <2>1. PICK n \in entries : ~(n.version <= m.version)
    BY <1>2 DEF Latest
  <2>2. n.version \in Nat /\ m.version \in Nat
    BY <1>1 DEF Known
  <2>3. n.version > m.version
    BY <2>1, <2>2
  <2> QED
    BY <2>3 DEF Newer
<1> QED
  BY <1>1, <1>2

LEMMA InitHealthy ==
    ASSUME Init
    PROVE  HealthyInv
<1> SUFFICES ASSUME damage = {} PROVE ManifestsInv /\ WriterInv /\ ListInv /\ ReportInv
  BY DEF HealthyInv
<1>1. /\ entries = {First} /\ objects = Files(First) /\ resized = {} /\ writing = None
      /\ phase = "start" /\ unread = {} /\ seen = {} /\ selected = None /\ manifest = None
      /\ errors = {} /\ unchecked = <<>> /\ diagnostics = {} /\ opened = 0 /\ cleaned = FALSE
      /\ live = <<2>>
  BY DEF Init, HealthyDataset, BrokenDataset
<1>2. Known = {First}
  BY <1>1 DEF Known, Some
<1>3. ManifestsInv
  <2>1. /\ live \in Seq(Nat) /\ Len(live) = 1 /\ DOMAIN live = {1} /\ live[1] = 2 /\ 2 <= 2 * 1
    BY <1>1
  <2>2. 1 <= LastVersion
    BY VersionAssumption, WordAssumption
  <2> QED
    BY <1>2, <2>1, <2>2, FirstHealthy DEF ManifestsInv
<1>4. Latest(First) /\ First.version = 1 /\ Len(live) = 1
  BY <1>1, FirstHealthy DEF Latest
<1>5. WriterInv
  BY <1>1, <1>4 DEF WriterInv
<1>6. ListInv
  BY <1>1, <1>4 DEF ListInv, Some
<1>7. ReportInv
  BY <1>1 DEF ReportInv
<1> QED
  BY <1>3, <1>5, <1>6, <1>7

-----------------------------------------------------------------------------
(* The steps of the writer and of the cleanup.                             *)

LEMMA WriteFilesHealthy ==
    ASSUME ManifestsInv, WriterInv, ListInv, ReportInv, WriteFiles
    PROVE  (ManifestsInv /\ WriterInv /\ ListInv /\ ReportInv)'
<1>1. /\ writing = None /\ UNCHANGED <<entries, resized, unread, seen, selected, manifest, errors,
                                       phase, num_rows, unchecked, diagnostics, opened, cleaned>>
  BY DEF WriteFiles, linter
<1>0. PICK m \in entries : \E c \in Commits(m) :
         /\ Latest(m) /\ m.version < LastVersion
         /\ writing' = c[1]
         /\ live' = Append(live, Last(live) + c[2])
         /\ objects' = objects \cup Files(c[1])
  BY DEF WriteFiles
<1>2. PICK c \in Commits(m) :
         /\ Latest(m) /\ m.version < LastVersion
         /\ writing' = c[1]
         /\ live' = Append(live, Last(live) + c[2])
         /\ objects' = objects \cup Files(c[1])
  BY <1>0
<1> DEFINE n == Len(live)
<1> DEFINE rows == live[n]
<1> DEFINE new == rows + c[2]
<1>3. /\ live \in Seq(Nat) /\ n \in Nat /\ DOMAIN live = 1..n /\ n <= LastVersion
      /\ \A v \in 1..n : live[v] \in Nat /\ live[v] <= 2 * v
  BY DEF ManifestsInv
<1>4. m.version = n /\ Healthy(m) /\ n \in 1..n /\ HasRows(m.fragments, rows) /\ n < LastVersion
  <2>1. m.version = n
    BY <1>1, <1>2 DEF WriterInv
  <2> QED
    BY <1>2, <1>3, <2>1 DEF ManifestsInv, Known
<1>5. c[2] \in {-1, 0, 2} /\ IsCommit(c[1], m, new)
  BY <1>2, <1>3, <1>4, RowsInRange, CommitsAreHealthy
<1>6. Healthy(c[1]) /\ c[1].version = n + 1 /\ HasRows(c[1].fragments, new)
  BY <1>4, <1>5 DEF IsCommit
<1>7. new \in Nat /\ new <= 2 * (n + 1)
  <2>1. new \in Nat
    BY <1>6, HealthyParts, RowsAreNatural
  <2>2. rows \in Nat /\ rows <= 2 * n
    BY <1>3, <1>4
  <2> HIDE DEF rows, n
  <2>3. rows + c[2] <= 2 * (n + 1)
    BY <1>3, <1>5, <2>2
  <2> QED
    BY <2>1, <2>3
<1>8. live' = Append(live, new)
  BY <1>2, <1>3 DEF Last
<1> HIDE DEF new, rows
<1>9. /\ live' \in Seq(Nat) /\ Len(live') = n + 1 /\ DOMAIN live' = 1..(n + 1)
      /\ live'[n + 1] = new /\ \A v \in 1..n : live'[v] = live[v] /\ v \in 1..(n + 1)
      /\ n + 1 \in 1..(n + 1)
  BY <1>3, <1>7, <1>8
<1> HIDE DEF n
<1>10. ManifestsInv'
  <2>1. n + 1 <= LastVersion
    BY <1>3, <1>4, VersionAssumption, WordAssumption
  <2>2. ASSUME NEW v \in 1..(n + 1) PROVE live'[v] <= 2 * v
    <3>1. v = n + 1 \/ v \in 1..n
      BY <1>3
    <3> QED
      BY <1>3, <1>7, <1>9, <3>1
  <2>3. ASSUME NEW k \in Known'
        PROVE  Healthy(k) /\ k.version \in 1..(n + 1) /\ HasRows(k.fragments, live'[k.version])
    <3>1. k = c[1] \/ k \in Known
      BY <1>1, <1>2 DEF Known, Some
    <3>2. CASE k = c[1]
      BY <1>6, <1>9, <3>2
    <3>3. CASE k \in Known
      <4>1. Healthy(k) /\ k.version \in 1..n /\ HasRows(k.fragments, live[k.version])
        BY <1>3, <3>3 DEF ManifestsInv
      <4> QED
        BY <1>9, <4>1
    <3> QED
      BY <3>1, <3>2, <3>3
  <2> QED
    BY <1>9, <2>1, <2>2, <2>3 DEF ManifestsInv
<1>11. \A k \in entries : k.version < n + 1
  <2>1. \A k \in entries : k.version \in Nat /\ k.version <= n
    BY <1>2, <1>4, KnownVersions DEF Latest, Known
  <2> QED
    BY <1>3, <2>1
<1>12. c[1] # None /\ Files(c[1]) \subseteq objects' /\ objects \subseteq objects'
  BY <1>2, <1>6, HealthyName
<1>13. WriterInv'
  BY <1>1, <1>2, <1>6, <1>9, <1>11, <1>12 DEF WriterInv, Latest
<1>14. ListInv'
  BY <1>1, <1>12 DEF ListInv, Newer, Some
<1>15. ReportInv'
  <2>1. manifest # None => live'[manifest.version] = live[manifest.version]
    <3>1. manifest # None => manifest \in Known /\ manifest.version \in 1..n
      BY KnownVersions DEF ReportInv, Known, Some, n
    <3> QED
      BY <1>9, <3>1
  <2> QED
    BY <1>1, <2>1 DEF ReportInv, Newer, Aim
<1> QED
  BY <1>10, <1>13, <1>14, <1>15

LEMMA CommitHealthy ==
    ASSUME ManifestsInv, WriterInv, ListInv, ReportInv, Commit
    PROVE  (ManifestsInv /\ WriterInv /\ ListInv /\ ReportInv)'
<1>1. /\ writing # None /\ entries' = entries \cup {writing} /\ writing' = None
      /\ UNCHANGED <<objects, resized, live, unread, seen, selected, manifest, errors,
                     phase, num_rows, unchecked, diagnostics, opened, cleaned>>
  BY DEF Commit, linter
<1>2. /\ Files(writing) \subseteq objects /\ writing.version = Len(live)
      /\ \A m \in entries : m.version < writing.version
  BY <1>1 DEF WriterInv
<1>3. Known' = Known
  BY <1>1 DEF Known, Some
<1>4. ManifestsInv'
  BY <1>1, <1>3 DEF ManifestsInv
<1>5. \A m \in entries : m.version \in Nat
  BY KnownVersions DEF Known
<1>6. writing.version \in Nat
  BY <1>1, KnownVersions DEF Known, Some
<1>7. PICK w : w = writing
  OBVIOUS
<1>8. Latest(w)'
  BY <1>1, <1>2, <1>5, <1>6, <1>7 DEF Latest
<1>9. ASSUME NEW m \in entries', Latest(m)' PROVE m = w
  <2>1. w.version <= m.version
    BY <1>1, <1>7, <1>9 DEF Latest
  <2> QED
    BY <1>1, <1>2, <1>5, <1>6, <1>7, <1>9, <2>1
<1>10. WriterInv'
  BY <1>1, <1>2, <1>7, <1>8, <1>9 DEF WriterInv
<1>11. ListInv'
  BY <1>1, <1>2 DEF ListInv, Newer, Some
<1>12. ReportInv'
  BY <1>1 DEF ReportInv, Newer, Aim
<1> QED
  BY <1>4, <1>10, <1>11, <1>12

\* A cleanup takes nothing that the latest version needs, and leaves what is newer.
LEMMA CleanUpHealthy ==
    ASSUME ManifestsInv, WriterInv, ListInv, ReportInv, CleanUp
    PROVE  (ManifestsInv /\ WriterInv /\ ListInv /\ ReportInv)'
<1>1. /\ cleaned' = (phase # "start") /\ entries' \subseteq entries /\ objects' \subseteq objects
      /\ UNCHANGED <<resized, writing, live, unread, seen, selected, manifest, errors,
                     phase, num_rows, unchecked, diagnostics, opened>>
  BY DEF CleanUp, linter
<1>2. PICK l \in entries : Latest(l)
  BY DEF WriterInv
<1>3. l \in entries' /\ \A m \in entries : Latest(m) => Files(m) \subseteq objects'
  BY <1>2 DEF CleanUp, Needed, WriterInv
<1>4. writing # None => Files(writing) \subseteq objects'
  BY DEF CleanUp, Needed, WriterInv
<1>5. \A m \in entries : m.version \in Nat /\ m.version <= l.version
  BY <1>2, KnownVersions DEF Known, Latest
<1>6. ManifestsInv'
  <2>1. Known' \subseteq Known
    BY <1>1 DEF Known, Some
  <2> QED
    BY <1>1, <2>1 DEF ManifestsInv
<1>7. ASSUME NEW m \in entries', Latest(m)' PROVE m \in entries /\ Latest(m)
  <2>1. m \in entries /\ l.version <= m.version
    BY <1>1, <1>3, <1>7 DEF Latest
  <2>2. \A n \in entries : n.version <= m.version
    BY <1>5, <2>1
  <2> QED
    BY <2>1, <2>2 DEF Latest
<1>8. Latest(l)'
  BY <1>1, <1>3, <1>5 DEF Latest
<1>9. WriterInv'
  BY <1>1, <1>3, <1>4, <1>7, <1>8 DEF WriterInv
<1>10. ASSUME NEW v \in Nat, Newer(v) PROVE Newer(v)'
  <2>1. l.version > v
    BY <1>2, <1>5, <1>10 DEF Newer
  <2> QED
    BY <1>3, <2>1 DEF Newer
<1>11. ASSUME NEW m \in entries, m \notin entries' PROVE Newer(m.version)'
  <2>1. ~Latest(m)
    BY <1>11 DEF CleanUp
  <2> QED
    BY <1>5, <1>10, <2>1, KnownVersions
<1>12. \A m \in Known : m.version \in Nat
  BY KnownVersions
<1>13. ListInv'
  <2>1. opened \in Nat /\ \E m \in entries' : m.version >= opened
    <3>1. l.version >= opened
      BY <1>2, <1>5 DEF ListInv
    <3> QED
      BY <1>3, <3>1 DEF ListInv
  <2>2. \A m \in unread \cup seen \cup Some(selected) : m \in entries' \/ Newer(m.version)'
    BY <1>10, <1>11, <1>12 DEF ListInv, Known
  <2>3. phase = "list" => Newer(opened)' \/ \E m \in unread \cup seen : m.version >= opened
    BY <1>1, <1>10, <2>1 DEF ListInv
  <2>4. phase = "start" => ~cleaned' /\ unread = {} /\ seen = {} /\ selected = None
    BY <1>1 DEF ListInv, ReportInv
  <2>5. ~cleaned' => phase = "start" /\ Some(selected) = {}
    BY <1>1, <2>4 DEF Some
  <2> QED
    BY <1>1, <2>1, <2>2, <2>3, <2>4, <2>5 DEF ListInv, Some
<1>14. ReportInv'
  <2>1. Aim' = Aim /\ Aim \in Nat
    BY <1>1, <1>12 DEF Aim, Known, Some, ListInv
  <2>2. Newer(Aim) => Newer(Aim)'
    BY <1>10, <2>1
  <2>3. cleaned => cleaned'
    BY <1>1 DEF ListInv
  <2> QED
    BY <1>1, <2>1, <2>2, <2>3 DEF ReportInv
<1> QED
  BY <1>6, <1>9, <1>13, <1>14

-----------------------------------------------------------------------------
(* The steps of the linter.                                                *)

\* The linter knows only manifests it has seen and changes nothing.
LEMMA ReadingHealthy ==
    ASSUME ManifestsInv, WriterInv, Reading,
           unread' \cup seen' \cup Some(selected)' \subseteq Known
    PROVE  ManifestsInv' /\ WriterInv'
<1>1. UNCHANGED <<entries, objects, resized, writing, live, damage, cleaned>>
  BY DEF Reading, dataset
<1>2. Known' \subseteq Known
  BY <1>1 DEF Known, Some
<1> QED
  BY <1>1, <1>2 DEF ManifestsInv, WriterInv, Latest

LEMMA OpenVersionsHealthy ==
    ASSUME ManifestsInv, WriterInv, ListInv, ReportInv, OpenVersions
    PROVE  (ManifestsInv /\ WriterInv /\ ListInv /\ ReportInv)'
<1>1. /\ phase = "start" /\ unread' = entries /\ phase' = "list" /\ Reading
      /\ UNCHANGED <<seen, selected, manifest, errors, num_rows, unchecked, diagnostics,
                     entries, objects, cleaned>>
  BY Zenon DEF OpenVersions, Reading, dataset
<1>2. PICK m \in entries : Latest(m) /\ opened' = m.version
  <2>1. entries # {}
    BY DEF WriterInv
  <2> QED
    BY <2>1, Zenon DEF OpenVersions
<1>3. ManifestsInv' /\ WriterInv'
  BY <1>1, ReadingHealthy DEF Known, Some
<1>4. /\ seen = {} /\ selected = None /\ Some(selected) = {} /\ errors = {} /\ manifest = None
      /\ diagnostics = {} /\ unchecked = <<>>
  BY <1>1 DEF ListInv, ReportInv, Some
<1>5. \A k \in entries : k.version \in Nat /\ k.version <= m.version
  BY <1>2, KnownVersions DEF Known, Latest
<1>6. m.version >= opened' /\ opened' \in Nat
  BY <1>2, <1>5
<1>7. ASSUME NEW k \in entries, k.version >= opened' PROVE Files(k) \subseteq objects
  <2>1. Latest(k)
    BY <1>2, <1>5, <1>7 DEF Latest
  <2> QED
    BY <2>1 DEF WriterInv
<1>8. ListInv'
  BY <1>1, <1>4, <1>6, <1>7 DEF ListInv, Some
<1>9. ReportInv'
  BY <1>1, <1>4 DEF ReportInv
<1> QED
  BY <1>3, <1>8, <1>9

LEMMA ListEntryHealthy ==
    ASSUME ManifestsInv, WriterInv, ListInv, ReportInv, ListEntry
    PROVE  (ManifestsInv /\ WriterInv /\ ListInv /\ ReportInv)'
<1>1. /\ phase = "list" /\ Reading
      /\ UNCHANGED <<phase, selected, manifest, num_rows, unchecked, diagnostics, opened,
                     entries, objects, cleaned>>
  BY DEF ListEntry, Reading, dataset
<1>2. selected = None /\ Some(selected) = {} /\ errors = {} /\ manifest = None /\ opened \in Nat
  BY <1>1 DEF ReportInv, ListInv, Some
\* It is enough that what is known comes from the directory and keeps the version it opened.
<1>3. ASSUME errors' = {}, unread' \cup seen' \subseteq unread \cup seen \cup entries,
             \A m \in unread \cup seen : m \in unread' \cup seen' \/ m \notin entries
      PROVE  (ManifestsInv /\ WriterInv /\ ListInv /\ ReportInv)'
  <2>1. ManifestsInv' /\ WriterInv'
    BY <1>1, <1>3, ReadingHealthy DEF Known, Some
  <2>2. \A m \in unread' \cup seen' : m \in entries \/ Newer(m.version)
    BY <1>3 DEF ListInv
  <2>3. Newer(opened) \/ \E m \in unread' \cup seen' : m.version >= opened
    <3>1. CASE Newer(opened)
      BY <3>1
    <3>2. CASE ~Newer(opened)
      <4>1. PICK m \in unread \cup seen : m.version >= opened
        BY <1>1, <3>2 DEF ListInv
      <4>2. CASE m \in unread' \cup seen'
        BY <4>1, <4>2
      <4>3. CASE m \notin unread' \cup seen'
        <5>1. Newer(m.version)
          BY <1>3, <4>3 DEF ListInv
        <5>2. PICK k \in entries : k.version > m.version
          BY <5>1 DEF Newer
        <5>3. k.version \in Nat /\ m.version \in Nat
          BY KnownVersions DEF Known
        <5>4. k.version > opened
          BY <1>2, <4>1, <5>2, <5>3
        <5> QED
          BY <3>2, <5>4 DEF Newer
      <4> QED
        BY <4>2, <4>3
    <3> QED
      BY <3>1, <3>2
  <2>4. ~cleaned => /\ unread' \cup seen' \subseteq entries
                    /\ \E m \in unread' \cup seen' : m.version >= opened
    BY <1>1, <1>3 DEF ListInv
  <2>5. ListInv'
    BY <1>1, <1>2, <2>2, <2>3, <2>4 DEF ListInv, Newer, Some
  <2>6. ReportInv'
    BY <1>1, <1>2, <1>3 DEF ReportInv
  <2> QED
    BY <2>1, <2>5, <2>6
<1>4. ASSUME NEW e \in unread, TakeEntry(e)
      PROVE  (ManifestsInv /\ WriterInv /\ ListInv /\ ReportInv)'
  <2>1. Healthy(e)
    BY DEF ManifestsInv, Known
  <2>2. Attached({e}) = {e}
    BY <2>1, AttachedHealthy
  <2>3. errors' = {}
    BY <1>2, <1>4, <2>2 DEF TakeEntry
  <2>4. unread' = unread \ {e} /\ seen' = seen \cup {e}
    BY <1>4, <2>2 DEF TakeEntry
  <2> QED
    BY <1>3, <2>3, <2>4
<1>5. ASSUME NEW e \in unread \ entries, unread' = unread \ {e}, UNCHANGED <<seen, errors>>
      PROVE  (ManifestsInv /\ WriterInv /\ ListInv /\ ReportInv)'
  BY <1>2, <1>3, <1>5
<1>6. ASSUME NEW e \in entries \ (unread \cup seen), unread' = unread \cup {e},
             UNCHANGED <<seen, errors>>
      PROVE  (ManifestsInv /\ WriterInv /\ ListInv /\ ReportInv)'
  BY <1>2, <1>3, <1>6
<1> QED
  BY <1>4, <1>5, <1>6 DEF ListEntry

LEMMA SelectLatestHealthy ==
    ASSUME ManifestsInv, WriterInv, ListInv, ReportInv, SelectLatest
    PROVE  (ManifestsInv /\ WriterInv /\ ListInv /\ ReportInv)'
<1>1. /\ phase = "list" /\ unread = {} /\ phase' = "read" /\ Reading
      /\ errors' = errors \cup NamingErrors
      /\ UNCHANGED <<unread, seen, manifest, num_rows, unchecked, diagnostics, opened,
                     entries, objects, cleaned>>
  BY DEF SelectLatest, Reading, dataset
<1>2. PICK m \in seen : IsLatest(m, seen) /\ selected' = m
  BY DEF SelectLatest
<1>3. \A k \in seen : Healthy(k) /\ k # None /\ k.version \in Nat /\ k.long = TRUE
  BY HealthyName DEF ManifestsInv, Known
<1>4. ManifestsInv' /\ WriterInv'
  <2>1. Some(selected)' = {m}
    BY <1>2, <1>3 DEF Some
  <2> QED
    BY <1>1, <1>2, <2>1, ReadingHealthy DEF Known
<1>5. errors' = {}
  <2>1. errors = {}
    BY <1>1 DEF ReportInv
  <2>2. NamingErrors = {}
    <3>1. {p \in seen \X seen : p[1].long # p[2].long} = {}
      BY <1>3
    <3> QED
      BY <3>1, Zenon DEF NamingErrors
  <2> QED
    BY <1>1, <2>1, <2>2
<1>6. \A k \in seen : k.version <= m.version
  <2>1. Attached(seen) = seen
    BY <1>3, AttachedHealthy
  <2>2. \A k \in seen : ParseManifestFilename(k) = k.version
    BY <1>3, HealthyName
  <2> QED
    BY <1>2, <2>1, <2>2 DEF IsLatest
<1>7. ListInv'
  <2>1. ~cleaned => m.version >= opened
    BY <1>1, <1>3, <1>6 DEF ListInv
  <2>2. m \in entries \/ Newer(m.version)
    BY DEF ListInv
  <2>3. ~cleaned => seen \subseteq entries
    BY DEF ListInv
  <2>4. m # None
    BY <1>3
  <2> QED
    BY <1>1, <1>2, <2>1, <2>2, <2>3, <2>4 DEF ListInv, Newer, Some
<1>8. ReportInv'
  BY <1>1, <1>2, <1>3, <1>5 DEF ReportInv
<1> QED
  BY <1>4, <1>7, <1>8

LEMMA NoManifestFoundHealthy ==
    ASSUME ManifestsInv, WriterInv, ListInv, ReportInv, NoManifestFound
    PROVE  (ManifestsInv /\ WriterInv /\ ListInv /\ ReportInv)'
<1>1. /\ phase = "list" /\ unread = {} /\ seen = {} /\ phase' = "stat" /\ Reading
      /\ UNCHANGED <<unread, seen, selected, manifest, num_rows, unchecked, diagnostics, opened,
                     entries, objects, cleaned>>
  BY Zenon DEF NoManifestFound, Reading, dataset
<1>2. ManifestsInv' /\ WriterInv'
  BY <1>1, ReadingHealthy DEF Known, Some
<1>3. cleaned /\ Newer(opened) /\ selected = None /\ manifest = None
  BY <1>1 DEF ListInv, ReportInv
<1>4. cleaned' /\ Newer(opened)' /\ selected' = None /\ manifest' = None /\ Aim' = opened
  BY <1>1, <1>3 DEF Newer, Aim
<1>5. ListInv'
  BY <1>1, <1>4 DEF ListInv, Some
<1>6. ReportInv'
  <2>1. diagnostics' = {} /\ unchecked' = <<>>
    BY <1>1 DEF ReportInv
  <2>2. Newer(Aim)'
    BY <1>1, <1>3, <1>4 DEF Newer
  <2> QED
    BY <1>1, <1>4, <2>1, <2>2 DEF ReportInv
<1> QED
  BY <1>2, <1>5, <1>6

LEMMA ReadManifestHealthy ==
    ASSUME ManifestsInv, WriterInv, ListInv, ReportInv, ReadManifest
    PROVE  (ManifestsInv /\ WriterInv /\ ListInv /\ ReportInv)'
<1>1. /\ phase = "read" /\ phase' = "stat" /\ Reading
      /\ UNCHANGED <<unread, seen, selected, num_rows, unchecked, diagnostics, opened,
                     entries, objects, cleaned>>
  BY DEF ReadManifest, Reading, dataset
<1>2. ManifestsInv' /\ WriterInv'
  BY <1>1, ReadingHealthy DEF Known
<1>3. /\ selected # None /\ errors = {} /\ manifest = None /\ diagnostics = {} /\ unchecked = <<>>
      /\ selected \in Some(selected)
  BY <1>1 DEF ReportInv, Some
<1>4. Decodes(selected.envelope)
  BY <1>3, HealthyName DEF ManifestsInv, Known
<1>5. ListInv'
  BY <1>1 DEF ListInv, Newer
<1>6. CASE selected \in entries
  <2>1. manifest' = selected /\ errors' = {}
    BY <1>3, <1>4, <1>6 DEF ReadManifest
  <2> QED
    BY <1>1, <1>2, <1>3, <1>5, <2>1 DEF ReportInv
<1>7. CASE selected \notin entries
  <2>1. manifest' = None
    BY <1>3, <1>7 DEF ReadManifest
  <2>2. cleaned /\ Newer(selected.version)
    BY <1>3, <1>7 DEF ListInv
  <2>3. cleaned' /\ Newer(Aim)'
    BY <1>1, <1>3, <2>2 DEF Newer, Aim
  <2> QED
    BY <1>1, <1>2, <1>3, <1>5, <2>1, <2>3 DEF ReportInv
<1> QED
  BY <1>6, <1>7

LEMMA StatManifestHealthy ==
    ASSUME ManifestsInv, WriterInv, ListInv, ReportInv, StatManifest
    PROVE  (ManifestsInv /\ WriterInv /\ ListInv /\ ReportInv)'
<1>1. /\ phase = "stat" /\ phase' = "rules" /\ Reading
      /\ num_rows' = IF manifest = None THEN None ELSE TotalRows(manifest)
      /\ UNCHANGED <<unread, seen, selected, manifest, errors, unchecked, diagnostics, opened,
                     entries, objects, live, cleaned>>
  BY DEF StatManifest, Reading, dataset
<1>2. ManifestsInv' /\ WriterInv'
  BY <1>1, ReadingHealthy DEF Known
<1>3. manifest # None => num_rows' = live[manifest.version]
  <2> SUFFICES ASSUME manifest # None PROVE num_rows' = live[manifest.version]
    OBVIOUS
  <2>1. manifest \in Known
    BY DEF ReportInv, Known, Some
  <2>2. /\ Healthy(manifest) /\ manifest.version \in DOMAIN live
        /\ HasRows(manifest.fragments, live[manifest.version])
    BY <2>1 DEF ManifestsInv
  <2>3. live[manifest.version] \in 0..MaxRows
    BY <2>2, RowsInRange
  <2>4. /\ manifest.fragments \in Seq(Fragments)
        /\ \A i \in 1..Len(manifest.fragments) : LiveRows(manifest.fragments[i]) \in Nat
    BY <2>2, HealthyParts
  <2>5. TotalRows(manifest) = live[manifest.version]
    BY <2>2, <2>3, <2>4, RowsAreCounted
  <2> QED
    BY <1>1, <2>5
<1>4. ListInv'
  BY <1>1 DEF ListInv, Newer
<1>5. ReportInv'
  BY <1>1, <1>3 DEF ReportInv, Newer, Aim
<1> QED
  BY <1>2, <1>4, <1>5

LEMMA RunRulesHealthy ==
    ASSUME ManifestsInv, WriterInv, ListInv, ReportInv, RunRules
    PROVE  (ManifestsInv /\ WriterInv /\ ListInv /\ ReportInv)'
<1>1. /\ phase = "rules" /\ phase' = "references" /\ Reading
      /\ UNCHANGED <<unread, seen, selected, manifest, errors, num_rows, opened,
                     entries, objects, live, cleaned>>
      /\ unchecked' = IF manifest = None THEN <<>> ELSE References(manifest)
  BY DEF RunRules, Reading, dataset
<1>2. ManifestsInv' /\ WriterInv'
  BY <1>1, ReadingHealthy DEF Known
<1>3. ListInv'
  BY <1>1 DEF ListInv, Newer
<1>4. manifest # None => Healthy(manifest) /\ manifest = selected
  BY DEF ReportInv, ManifestsInv, Known, Some
<1>5. \A d \in InvalidManifest : d.rule = "AL201" /\ errors # {}
  <2> DEFINE A == {Report("AL201", e, None) : e \in errors}
  <2> DEFINE Body(m) == ReportIf(m.version # ParseManifestFilename(selected), "AL201", "version")
                          \cup ReportIf(m.version = 0, "AL201", "zero")
  <2> DEFINE B == UNION {Body(m) : m \in {manifest} \ {None}}
  <2>1. InvalidManifest = A \cup B
    BY DEF InvalidManifest
  <2>2. \A d \in A : d.rule = "AL201" /\ errors # {}
    BY DEF Report
  <2>3. B = {}
    <3>1. CASE manifest = None
      <4> HIDE DEF Body
      <4> QED
        BY <3>1
    <3>2. CASE manifest # None
      <4>1. ParseManifestFilename(selected) = manifest.version /\ manifest.version # 0
        <5>1. Healthy(manifest) /\ manifest = selected
          BY <1>4, <3>2
        <5>2. /\ ParseManifestFilename(manifest) = manifest.version
              /\ manifest.version \in Nat /\ manifest.version >= 1
          BY <5>1, HealthyName
        <5>3. manifest.version # 0
          BY <5>2
        <5> QED
          BY <5>1, <5>2, <5>3
      <4>2. Body(manifest) = {}
        BY <4>1, Zenon DEF ReportIf
      <4> HIDE DEF Body
      <4> QED
        BY <4>2
    <3> QED
      BY <3>1, <3>2
  <2> HIDE DEF A, B
  <2> QED
    BY <2>1, <2>2, <2>3
<1> DEFINE Advice(m) == ManifestDiagnostics(m, Cardinality(seen))
<1> DEFINE C == UNION {Advice(m) : m \in {manifest} \ {None}}
<1>6. diagnostics' = InvalidManifest \cup C
  BY DEF RunRules
<1>7. \A d \in C : d.rule = "AL207"
  <2>1. manifest # None => \A d \in Advice(manifest) : d.rule = "AL207"
    BY <1>4, HealthyMeansClean
  <2> HIDE DEF Advice
  <2> QED
    BY <2>1
<1> HIDE DEF C
<1>8. \/ unchecked' = <<>>
      \/ manifest # None /\ unchecked' \in Seq([object : Files(manifest), sized : BOOLEAN])
  BY <1>1, <1>4, ReferencesAreFiles
<1>9. Newer(Aim)' = Newer(Aim)
  BY <1>1 DEF Newer, Aim
<1>10. \A d \in diagnostics' : \/ d.rule = "AL207"
                               \/ d.rule \in {"AL201", "AL206"} /\ cleaned' /\ Newer(Aim)'
  <2>1. errors # {} => cleaned' /\ Newer(Aim)'
    BY <1>1, <1>9 DEF ReportInv
  <2> QED
    BY <1>5, <1>6, <1>7, <2>1
<1>11. ReportInv'
  BY <1>1, <1>8, <1>9, <1>10 DEF ReportInv
<1> QED
  BY <1>2, <1>3, <1>11

\* A file that is gone shows that the manifest is no longer the latest one.
LEMMA CheckReferenceHealthy ==
    ASSUME ManifestsInv, WriterInv, ListInv, ReportInv, CheckReference
    PROVE  (ManifestsInv /\ WriterInv /\ ListInv /\ ReportInv)'
<1> DEFINE r == Head(unchecked)
<1>1. /\ phase = "references" /\ Reading /\ unchecked # <<>> /\ unchecked' = Tail(unchecked)
      /\ diagnostics' = diagnostics \cup MissingReference(r)
      /\ UNCHANGED <<phase, unread, seen, selected, manifest, errors, num_rows, opened,
                     entries, objects, live, cleaned>>
  BY DEF CheckReference, Reading, dataset
<1>2. ManifestsInv' /\ WriterInv'
  BY <1>1, ReadingHealthy DEF Known
<1>3. ListInv'
  BY <1>1 DEF ListInv, Newer
<1>4. manifest # None /\ unchecked \in Seq([object : Files(manifest), sized : BOOLEAN])
  BY <1>1 DEF ReportInv
<1> DEFINE S == [object : Files(manifest), sized : BOOLEAN]
<1>5. r \in S /\ Tail(unchecked) \in Seq(S)
  <2> HIDE DEF S
  <2>1. unchecked \in Seq(S) /\ unchecked # <<>>
    BY <1>1, <1>4 DEF S
  <2> QED
    BY <2>1
<1>6. r.object \in Files(manifest)
  <2> HIDE DEF r
  <2> QED
    BY <1>5
<1> HIDE DEF r, S
<1>7. manifest = selected /\ selected \in Some(selected) /\ Aim = selected.version /\ manifest \in Known
  BY <1>4 DEF ReportInv, Some, Aim, Known
<1>8. ASSUME NEW d \in MissingReference(r) PROVE d.rule = "AL206" /\ cleaned /\ Newer(Aim)
  <2>1. resized = {}
    BY DEF WriterInv
  <2>2. PICK o \in {r.object} \ objects : d = Report("AL206", "missing", o)
    BY <2>1 DEF MissingReference
  <2>3. d.rule = "AL206" /\ ~(Files(manifest) \subseteq objects)
    BY <1>6, <2>2 DEF Report
  <2>4. selected \in entries => Newer(selected.version)
    <3>1. selected \in entries => ~Latest(selected)
      BY <1>7, <2>3 DEF WriterInv
    <3> QED
      BY <3>1, KnownVersions
  <2>5. Newer(Aim)
    BY <1>7, <2>4 DEF ListInv
  <2>6. cleaned
    <3> SUFFICES ASSUME ~cleaned PROVE FALSE
      OBVIOUS
    <3>1. selected \in entries /\ selected.version >= opened
      BY <1>1, <1>7 DEF ListInv
    <3> QED
      BY <1>1, <1>7, <2>3, <3>1 DEF ListInv
  <2> QED
    BY <2>3, <2>5, <2>6
<1>9. Newer(Aim)' = Newer(Aim)
  BY <1>1 DEF Newer, Aim
<1>10. \A d \in diagnostics' : \/ d.rule = "AL207"
                               \/ d.rule \in {"AL201", "AL206"} /\ cleaned' /\ Newer(Aim)'
  BY <1>1, <1>8, <1>9 DEF ReportInv
<1>11. manifest' # None /\ unchecked' \in Seq([object : Files(manifest'), sized : BOOLEAN])
  BY <1>1, <1>4, <1>5 DEF S
<1>12. ReportInv'
  BY <1>1, <1>9, <1>10, <1>11 DEF ReportInv
<1> QED
  BY <1>2, <1>3, <1>12

LEMMA FinishHealthy ==
    ASSUME ManifestsInv, WriterInv, ListInv, ReportInv, Finish
    PROVE  (ManifestsInv /\ WriterInv /\ ListInv /\ ReportInv)'
<1>1. /\ phase = "references" /\ phase' = "done" /\ Reading
      /\ UNCHANGED <<unread, seen, selected, manifest, errors, num_rows, unchecked, diagnostics,
                     opened, entries, objects, live, cleaned>>
  BY DEF Finish, Reading, dataset
<1>2. ManifestsInv' /\ WriterInv'
  BY <1>1, ReadingHealthy DEF Known
<1>3. ListInv'
  BY <1>1 DEF ListInv, Newer
<1>4. ReportInv'
  BY <1>1 DEF ReportInv, Newer, Aim
<1> QED
  BY <1>2, <1>3, <1>4

-----------------------------------------------------------------------------
(* The invariant holds, and what it says of the reports.                   *)

LEMMA NextHealthy ==
    ASSUME HealthyInv, [Next]_vars
    PROVE  HealthyInv'
<1>1. damage' = damage
  BY Zenon DEF Next, Lint, NoVersionsDirectory, OpenVersions, ListEntry, SelectLatest,
     NoManifestFound, ReadManifest, StatManifest, RunRules, CheckReference, Finish, Reading,
     WriteFiles, Commit, CleanUp, vars, dataset
<1> SUFFICES ASSUME damage = {} PROVE (ManifestsInv /\ WriterInv /\ ListInv /\ ReportInv)'
  BY <1>1 DEF HealthyInv
<1>2. ManifestsInv /\ WriterInv /\ ListInv /\ ReportInv
  BY DEF HealthyInv
<1>3. CASE NoVersionsDirectory
  BY <1>3, Zenon DEF NoVersionsDirectory
<1>4. CASE OpenVersions
  BY <1>2, <1>4, OpenVersionsHealthy
<1>5. CASE ListEntry
  BY <1>2, <1>5, ListEntryHealthy
<1>6. CASE SelectLatest
  BY <1>2, <1>6, SelectLatestHealthy
<1>7. CASE NoManifestFound
  BY <1>2, <1>7, NoManifestFoundHealthy
<1>8. CASE ReadManifest
  BY <1>2, <1>8, ReadManifestHealthy
<1>9. CASE StatManifest
  BY <1>2, <1>9, StatManifestHealthy
<1>10. CASE RunRules
  BY <1>2, <1>10, RunRulesHealthy
<1>11. CASE CheckReference
  BY <1>2, <1>11, CheckReferenceHealthy
<1>12. CASE Finish
  BY <1>2, <1>12, FinishHealthy
<1>13. CASE WriteFiles
  BY <1>2, <1>13, WriteFilesHealthy
<1>14. CASE Commit
  BY <1>2, <1>14, CommitHealthy
<1>15. CASE CleanUp
  BY <1>2, <1>15, CleanUpHealthy
<1>16. CASE UNCHANGED vars
  <2>1. UNCHANGED <<entries, objects, resized, writing, live, phase, unread, seen, selected,
                    manifest, errors, num_rows, unchecked, diagnostics, opened, cleaned>>
    BY <1>16 DEF vars, dataset, linter
  <2>2. ManifestsInv' /\ WriterInv'
    BY <1>2, <2>1 DEF ManifestsInv, WriterInv, Known, Latest
  <2>3. ListInv'
    BY <1>2, <2>1 DEF ListInv, Newer
  <2>4. ReportInv'
    BY <1>2, <2>1 DEF ReportInv, Newer, Aim
  <2> QED
    BY <2>2, <2>3, <2>4
<1> QED
  BY <1>3, <1>4, <1>5, <1>6, <1>7, <1>8, <1>9, <1>10, <1>11, <1>12, <1>13, <1>14, <1>15, <1>16,
     Zenon DEF Next, Lint

LEMMA HealthyThroughout ==
    Spec => []HealthyInv
<1>1. Init => HealthyInv
  BY InitHealthy
<1>2. HealthyInv /\ [Next]_vars => HealthyInv'
  BY NextHealthy
<1> QED
  BY <1>1, <1>2, PTL DEF Spec

\* Whatever Lance commits and cleans up while the linter works, and however many versions
\* there are: of a healthy dataset only AL201 and AL206 report anything, and only of a
\* version that is no longer the latest.
THEOREM StaleAlarmsOnlyCorrect ==
    Spec => []StaleAlarmsOnly
<1>1. HealthyInv => StaleAlarmsOnly
  <2> SUFFICES ASSUME HealthyInv, damage = {}, Reported # {}
               PROVE  Reported \subseteq {"AL201", "AL206"} /\ \E m \in entries : m.version > Aim
    BY DEF StaleAlarmsOnly
  <2>1. ReportInv
    BY DEF HealthyInv
  <2>2. \A x \in Reported : x \in {"AL201", "AL206"} /\ Newer(Aim)
    BY <2>1 DEF ReportInv, Reported
  <2> QED
    BY <2>2 DEF Newer
<1> QED
  BY <1>1, HealthyThroughout, PTL

\* As long as nothing is cleaned up, no commit makes the linter report anything.
THEOREM NoFalseAlarmCorrect ==
    Spec => []NoFalseAlarm
<1>1. HealthyInv => NoFalseAlarm
  BY DEF HealthyInv, ReportInv, NoFalseAlarm, Reported
<1> QED
  BY <1>1, HealthyThroughout, PTL

\* The version the linter judges is not older than the latest at the start, and the rows it
\* tells are the sum of what the commits up to that version added and deleted.
THEOREM CurrentVersionCorrect ==
    Spec => []CurrentVersion
<1>1. HealthyInv => CurrentVersion
  BY DEF HealthyInv, ListInv, ReportInv, CurrentVersion
<1> QED
  BY <1>1, HealthyThroughout, PTL

-----------------------------------------------------------------------------
(* The manifests of broken datasets.                                       *)

\* What no fault changes of the versions and rows of a manifest: there are two fragments,
\* and the first of them has a deletion file.
Counting(g) == {"physical_rows", "deletion"} \subseteq DOMAIN g /\ g.physical_rows \in Nat
Deleting(g) ==
    Counting(g) /\ "num_deleted_rows" \in DOMAIN g.deletion /\ g.deletion.num_deleted_rows \in Nat
Whole(g) == Counting(g) /\ g.deletion = None

Editable(m) ==
    /\ {"version", "fragments"} \subseteq DOMAIN m /\ m.version \in 0..LastVersion
    /\ DOMAIN m.fragments = 1..2 /\ m.fragments = [i \in 1..2 |-> m.fragments[i]]
    /\ Deleting(m.fragments[1]) /\ Whole(m.fragments[2])

LEMMA EditFragments ==
    ASSUME NEW m, Editable(m)
    PROVE  /\ \A g : Deleting(g) => Editable([m EXCEPT !.fragments[1] = g])
           /\ \A g : Whole(g) => Editable([m EXCEPT !.fragments[2] = g])
<1>1. ASSUME NEW g, Deleting(g) PROVE Editable([m EXCEPT !.fragments[1] = g])
  BY <1>1 DEF Editable
<1>2. ASSUME NEW g, Whole(g) PROVE Editable([m EXCEPT !.fragments[2] = g])
  BY <1>2 DEF Editable
<1> QED
  BY <1>1, <1>2

LEMMA EditFiles ==
    \A g, x : /\ Deleting(g) => Deleting([g EXCEPT !.files = x])
              /\ Whole(g) => Whole([g EXCEPT !.files = x])
              /\ Whole(g) => Whole([g EXCEPT !.id = x])
              /\ Whole(g) => Whole([g EXCEPT !.overlays = x])
  BY DEF Deleting, Whole, Counting

LEMMA EditDeletion ==
    ASSUME NEW g, Deleting(g), NEW d, "num_deleted_rows" \in DOMAIN d, d.num_deleted_rows \in Nat
    PROVE  Deleting([g EXCEPT !.deletion = d])
  BY DEF Deleting, Counting

LEMMA EditDeletionFile ==
    ASSUME NEW g, Deleting(g)
    PROVE  \A x : /\ Deleting([g EXCEPT !.deletion.file_type = x])
                  /\ Deleting([g EXCEPT !.deletion.read_version = x])
                  /\ Deleting([g EXCEPT !.deletion.base_id = x])
                  /\ x \in Nat => Deleting([g EXCEPT !.deletion.num_deleted_rows = x])
<1> SUFFICES ASSUME NEW x
             PROVE  /\ Deleting([g EXCEPT !.deletion.file_type = x])
                    /\ Deleting([g EXCEPT !.deletion.read_version = x])
                    /\ Deleting([g EXCEPT !.deletion.base_id = x])
                    /\ x \in Nat => Deleting([g EXCEPT !.deletion.num_deleted_rows = x])
  OBVIOUS
<1> DEFINE a == [g.deletion EXCEPT !.file_type = x]
<1> DEFINE b == [g.deletion EXCEPT !.read_version = x]
<1> DEFINE c == [g.deletion EXCEPT !.base_id = x]
<1> DEFINE d == [g.deletion EXCEPT !.num_deleted_rows = x]
<1>1. "num_deleted_rows" \in DOMAIN g.deletion /\ g.deletion.num_deleted_rows \in Nat
  BY DEF Deleting
<1>2. /\ "num_deleted_rows" \in DOMAIN a /\ a.num_deleted_rows \in Nat
      /\ "num_deleted_rows" \in DOMAIN b /\ b.num_deleted_rows \in Nat
      /\ "num_deleted_rows" \in DOMAIN c /\ c.num_deleted_rows \in Nat
      /\ x \in Nat => "num_deleted_rows" \in DOMAIN d /\ d.num_deleted_rows \in Nat
  BY <1>1
<1>3. /\ [g EXCEPT !.deletion.file_type = x] = [g EXCEPT !.deletion = a]
      /\ [g EXCEPT !.deletion.read_version = x] = [g EXCEPT !.deletion = b]
      /\ [g EXCEPT !.deletion.base_id = x] = [g EXCEPT !.deletion = c]
      /\ [g EXCEPT !.deletion.num_deleted_rows = x] = [g EXCEPT !.deletion = d]
  OBVIOUS
<1> HIDE DEF a, b, c, d
<1>4. /\ Deleting([g EXCEPT !.deletion = a]) /\ Deleting([g EXCEPT !.deletion = b])
      /\ Deleting([g EXCEPT !.deletion = c])
      /\ x \in Nat => Deleting([g EXCEPT !.deletion = d])
  BY <1>2, EditDeletion
<1> QED
  BY <1>3, <1>4

LEMMA FaultsOfManifest ==
    ASSUME NEW m, Editable(m),
           NEW fault \in {"no mark", "no transaction", "renumbered", "low mark", "unknown flag",
                          "unflagged deletions", "unflagged config", "deprecated",
                          "unstable format", "duplicate base", "empty base", "unflagged base",
                          "unsafe transaction"}
    PROVE  Editable(Faulty(m, fault))
<1> DEFINE n == Faulty(m, fault)
<1>1. DOMAIN n = DOMAIN m /\ n.version = m.version /\ n.fragments = m.fragments
  BY DEF Faulty, WithBases, Editable
<1> HIDE DEF n
<1> QED
  BY <1>1 DEF Editable, n

LEMMA FaultsOfFiles ==
    ASSUME NEW m, Editable(m),
           NEW fault \in {"unsized", "unsafe path", "empty path", "forbidden field",
                          "shared field", "missing column", "repeated column", "missing base"}
    PROVE  Editable(Faulty(m, fault))
<1> DEFINE one == m.fragments[1].files
<1> DEFINE two == m.fragments[2].files
<1>1. ASSUME NEW x
      PROVE  /\ Editable([m EXCEPT !.fragments[1].files = x])
             /\ Editable([m EXCEPT !.fragments[2].files = x])
  <2> DEFINE g == [m.fragments[1] EXCEPT !.files = x]
  <2> DEFINE h == [m.fragments[2] EXCEPT !.files = x]
  <2>1. Deleting(g) /\ Whole(h)
    BY EditFiles DEF Editable
  <2>2. /\ [m EXCEPT !.fragments[1].files = x] = [m EXCEPT !.fragments[1] = g]
        /\ [m EXCEPT !.fragments[2].files = x] = [m EXCEPT !.fragments[2] = h]
    OBVIOUS
  <2> HIDE DEF g, h
  <2> QED
    BY <2>1, <2>2, EditFragments
<1>2. CASE fault = "unsized"
  <2> DEFINE x == [one EXCEPT ![1].sized = FALSE]
  <2>1. Faulty(m, fault) = [m EXCEPT !.fragments[1].files = x]
    BY <1>2 DEF Faulty
  <2> HIDE DEF x
  <2> QED
    BY <1>1, <2>1
<1>3. CASE fault = "unsafe path"
  <2> DEFINE x == [two EXCEPT ![1].path = <<ParentDir, 3>>]
  <2>1. Faulty(m, fault) = [m EXCEPT !.fragments[2].files = x]
    BY <1>3 DEF Faulty
  <2> HIDE DEF x
  <2> QED
    BY <1>1, <2>1
<1>4. CASE fault = "empty path"
  <2> DEFINE x == [one EXCEPT ![2].path = <<>>]
  <2>1. Faulty(m, fault) = [m EXCEPT !.fragments[1].files = x]
    BY <1>4 DEF Faulty
  <2> HIDE DEF x
  <2> QED
    BY <1>1, <2>1
<1>5. CASE fault = "forbidden field"
  <2> DEFINE x == [two EXCEPT ![1].fields[1] = -1]
  <2>1. Faulty(m, fault) = [m EXCEPT !.fragments[2].files = x]
    BY <1>5 DEF Faulty
  <2> HIDE DEF x
  <2> QED
    BY <1>1, <2>1
<1>6. CASE fault = "shared field"
  <2> DEFINE x == [one EXCEPT ![1].fields[1] = 0]
  <2>1. Faulty(m, fault) = [m EXCEPT !.fragments[1].files = x]
    BY <1>6 DEF Faulty
  <2> HIDE DEF x
  <2> QED
    BY <1>1, <2>1
<1>7. CASE fault = "missing column"
  <2> DEFINE x == [two EXCEPT ![1].column_indices = <<0>>]
  <2>1. Faulty(m, fault) = [m EXCEPT !.fragments[2].files = x]
    BY <1>7 DEF Faulty
  <2> HIDE DEF x
  <2> QED
    BY <1>1, <2>1
<1>8. CASE fault = "repeated column"
  <2> DEFINE x == [two EXCEPT ![1].column_indices = <<0, 0>>]
  <2>1. Faulty(m, fault) = [m EXCEPT !.fragments[2].files = x]
    BY <1>8 DEF Faulty
  <2> HIDE DEF x
  <2> QED
    BY <1>1, <2>1
<1>9. CASE fault = "missing base"
  <2> DEFINE x == [one EXCEPT ![2].base_id = 2]
  <2>1. Faulty(m, fault) = [m EXCEPT !.fragments[1].files = x]
    BY <1>9 DEF Faulty
  <2> HIDE DEF x
  <2> QED
    BY <1>1, <2>1
<1> QED
  BY <1>2, <1>3, <1>4, <1>5, <1>6, <1>7, <1>8, <1>9

LEMMA DeletionFaults ==
    ASSUME NEW g, Deleting(g)
    PROVE  /\ Deleting([g EXCEPT !.deletion.file_type = 2])
           /\ Deleting([g EXCEPT !.deletion.read_version = 3])
           /\ Deleting([g EXCEPT !.deletion.base_id = 2])
           /\ Deleting([g EXCEPT !.deletion.num_deleted_rows = g.physical_rows + 1])
<1>1. g.physical_rows \in Nat
  BY DEF Deleting, Counting
<1>2. g.physical_rows + 1 \in Nat
  BY <1>1
<1> QED
  BY <1>2, EditDeletionFile

LEMMA FaultsOfDeletions ==
    ASSUME NEW m, Editable(m),
           NEW fault \in {"unknown type", "future", "too many", "missing deletion base"}
    PROVE  Editable(Faulty(m, fault))
<1> DEFINE g == m.fragments[1]
<1>1. Deleting(g)
  BY DEF Editable
<1>2. /\ Deleting([g EXCEPT !.deletion.file_type = 2])
      /\ Deleting([g EXCEPT !.deletion.read_version = 3])
      /\ Deleting([g EXCEPT !.deletion.base_id = 2])
      /\ Deleting([g EXCEPT !.deletion.num_deleted_rows = g.physical_rows + 1])
  <2> HIDE DEF g
  <2> QED
    BY <1>1, DeletionFaults
<1>3. CASE fault = "unknown type"
  <2> DEFINE x == [g EXCEPT !.deletion.file_type = 2]
  <2>1. Deleting(x)
    BY <1>2
  <2>2. Faulty(m, fault) = [m EXCEPT !.fragments[1] = x]
    BY <1>3 DEF Faulty
  <2> HIDE DEF g, x
  <2>3. Editable([m EXCEPT !.fragments[1] = x])
    BY <2>1, EditFragments
  <2> QED
    BY <2>2, <2>3
<1>4. CASE fault = "future"
  <2> DEFINE x == [g EXCEPT !.deletion.read_version = 3]
  <2>1. Deleting(x)
    BY <1>2
  <2>2. Faulty(m, fault) = [m EXCEPT !.fragments[1] = x]
    BY <1>4 DEF Faulty
  <2> HIDE DEF g, x
  <2>3. Editable([m EXCEPT !.fragments[1] = x])
    BY <2>1, EditFragments
  <2> QED
    BY <2>2, <2>3
<1>5. CASE fault = "too many"
  <2> DEFINE x == [g EXCEPT !.deletion.num_deleted_rows = g.physical_rows + 1]
  <2>1. Deleting(x)
    BY <1>2
  <2>2. Faulty(m, fault) = [m EXCEPT !.fragments[1] = x]
    BY <1>5 DEF Faulty
  <2> HIDE DEF g, x
  <2>3. Editable([m EXCEPT !.fragments[1] = x])
    BY <2>1, EditFragments
  <2> QED
    BY <2>2, <2>3
<1>6. CASE fault = "missing deletion base"
  <2> DEFINE x == [g EXCEPT !.deletion.base_id = 2]
  <2>1. Deleting(x)
    BY <1>2
  <2>2. Faulty(m, fault) = [m EXCEPT !.fragments[1] = x]
    BY <1>6 DEF Faulty
  <2> HIDE DEF g, x
  <2>3. Editable([m EXCEPT !.fragments[1] = x])
    BY <2>1, EditFragments
  <2> QED
    BY <2>2, <2>3
<1> QED
  BY <1>3, <1>4, <1>5, <1>6

\* Whatever the fault, the version stays in range and rows stay counted.
LEMMA FaultsKeepRows == ASSUME NEW m, Editable(m), NEW fault PROVE Editable(Faulty(m, fault))
<1>1. CASE fault = "based"
  <2> DEFINE w == WithBases(m, <<Base(1, FALSE)>>)
  <2>1. Editable(w)
    <3>1. DOMAIN w = DOMAIN m /\ w.version = m.version /\ w.fragments = m.fragments
      BY DEF WithBases, Editable
    <3> HIDE DEF w
    <3> QED
      BY <3>1 DEF Editable
  <2>2. Faulty(m, fault) = [w EXCEPT !.fragments[2].files[1].base_id = 1]
    BY <1>1 DEF Faulty
  <2> HIDE DEF w
  <2> DEFINE x == [w.fragments[2].files EXCEPT ![1].base_id = 1]
  <2> DEFINE g == [w.fragments[2] EXCEPT !.files = x]
  <2>3. Faulty(m, fault) = [w EXCEPT !.fragments[2] = g]
    BY <2>2
  <2> HIDE DEF x
  <2>4. Whole(g)
    BY <2>1, EditFiles DEF Editable
  <2> HIDE DEF g
  <2> QED
    BY <2>1, <2>3, <2>4, EditFragments
<1>2. CASE fault = "huge"
  <2> DEFINE g == [m.fragments[1] EXCEPT !.physical_rows = MaxRows]
  <2> DEFINE h == [m.fragments[2] EXCEPT !.physical_rows = MaxRows + 1]
  <2> DEFINE w == [m EXCEPT !.fragments[1] = g]
  <2>1. MaxRows \in Nat /\ MaxRows + 1 \in Nat
    BY WordAssumption
  <2>2. Deleting(g) /\ Whole(h)
    BY <2>1 DEF Editable, Deleting, Whole, Counting
  <2>3. Faulty(m, fault) = [w EXCEPT !.fragments[2] = h]
    BY <1>2 DEF Faulty, Editable
  <2> HIDE DEF g, h
  <2>4. Editable(w)
    BY <2>2, EditFragments
  <2> HIDE DEF w
  <2> QED
    BY <2>2, <2>3, <2>4, EditFragments
<1>3. CASE fault = "zero"
  <2>1. Faulty(m, fault) = [m EXCEPT !.version = 0, !.stem = MaxWord]
    BY <1>3 DEF Faulty
  <2>2. 0 \in 0..LastVersion
    BY VersionAssumption, WordAssumption
  <2> QED
    BY <2>1, <2>2 DEF Editable
<1>4. CASE fault = "duplicate id"
  <2> DEFINE g == [m.fragments[2] EXCEPT !.id = 0]
  <2>1. Faulty(m, fault) = [m EXCEPT !.fragments[2] = g]
    BY <1>4 DEF Faulty
  <2>2. Whole(g)
    BY EditFiles DEF Editable
  <2> HIDE DEF g
  <2> QED
    BY <2>1, <2>2, EditFragments
<1>5. CASE fault = "overlays"
  <2> DEFINE g == [m.fragments[2] EXCEPT !.overlays = 1]
  <2>1. Faulty(m, fault) = [m EXCEPT !.fragments[2] = g]
    BY <1>5 DEF Faulty
  <2>2. Whole(g)
    BY EditFiles DEF Editable
  <2> HIDE DEF g
  <2> QED
    BY <2>1, <2>2, EditFragments
<1>6. CASE fault = "old file"
  <2> DEFINE w == [m EXCEPT !.fragments[1].files[1].major = 0]
  <2>1. Editable(w)
    <3> DEFINE x == [m.fragments[1].files EXCEPT ![1].major = 0]
    <3> DEFINE g == [m.fragments[1] EXCEPT !.files = x]
    <3>1. w = [m EXCEPT !.fragments[1] = g]
      OBVIOUS
    <3> HIDE DEF w, x
    <3>2. Deleting(g)
      BY EditFiles DEF Editable
    <3> HIDE DEF g
    <3> QED
      BY <3>1, <3>2, EditFragments
  <2>2. Faulty(m, fault) = [m EXCEPT !.fragments[1].files[1].major = 0,
                                     !.fragments[1].files[1].column_indices = <<>>]
    BY <1>6 DEF Faulty
  <2>3. Faulty(m, fault) = [w EXCEPT !.fragments[1].files[1].column_indices = <<>>]
    BY <2>2
  <2> HIDE DEF w
  <2> DEFINE x == [w.fragments[1].files EXCEPT ![1].column_indices = <<>>]
  <2> DEFINE g == [w.fragments[1] EXCEPT !.files = x]
  <2>4. Faulty(m, fault) = [w EXCEPT !.fragments[1] = g]
    BY <2>3
  <2> HIDE DEF x
  <2>5. Deleting(g)
    BY <2>1, EditFiles DEF Editable
  <2> HIDE DEF g
  <2> QED
    BY <2>1, <2>4, <2>5, EditFragments
<1>7. CASE fault \notin
             {"based", "no mark", "old file", "unsized", "no transaction", "huge", "zero",
              "renumbered", "duplicate id", "low mark", "unsafe path", "empty path",
              "forbidden field", "shared field", "missing column", "repeated column",
              "unknown type", "future", "too many", "unknown flag", "unflagged deletions",
              "unflagged config", "deprecated", "overlays", "unstable format", "duplicate base",
              "empty base", "missing base", "missing deletion base", "unflagged base",
              "unsafe transaction"}
  <2>1. Faulty(m, fault) = m
    BY <1>7 DEF Faulty
  <2> QED
    BY <2>1
<1> QED
  BY <1>1, <1>2, <1>3, <1>4, <1>5, <1>6, <1>7, FaultsOfManifest, FaultsOfFiles, FaultsOfDeletions

LEMMA EditableSample == Editable(Sample)
<1> DEFINE d == [file_type |-> 0, read_version |-> 1, id |-> 1, num_deleted_rows |-> 1,
                 base_id |-> None]
<1> DEFINE f == <<DataFile(<<1>>, <<-2, 1>>), DataFile(<<2>>, <<0>>)>>
<1> DEFINE a == [Fragment(0, f, 2) EXCEPT !.deletion = d]
<1> DEFINE b == Fragment(1, <<DataFile(<<3>>, <<0, 1>>)>>, 2)
<1> DEFINE s == Successor(First, First.fragments, First.max_fragment_id)
<1> DEFINE c == Configured(First)
<1>1. Deleting(a) /\ Whole(b)
  <2> HIDE DEF f
  <2>1. Counting(Fragment(0, f, 2)) /\ "deletion" \in DOMAIN Fragment(0, f, 2)
    BY DEF Fragment, Counting
  <2>2. "num_deleted_rows" \in DOMAIN d /\ d.num_deleted_rows = 1
    OBVIOUS
  <2> HIDE DEF d
  <2> DEFINE g == Fragment(0, f, 2)
  <2>3. a.physical_rows = g.physical_rows /\ a.deletion = d /\ DOMAIN a = DOMAIN g
    BY <2>1
  <2> HIDE DEF a
  <2>4. Deleting(a)
    BY <2>1, <2>2, <2>3 DEF Deleting, Counting
  <2>5. Whole(b)
    BY DEF Fragment, Whole, Counting
  <2> QED
    BY <2>4, <2>5
<1>2. {"version", "fragments"} \subseteq DOMAIN First /\ First.version = 1
  BY DEF First
<1>3. DOMAIN s = DOMAIN First /\ s.version = 2
  <2> HIDE DEF c
  <2> DEFINE w == First
  <2>1. {"version", "fragments"} \subseteq DOMAIN w /\ w.version = 1
    BY <1>2
  <2> HIDE DEF w
  <2>2. ASSUME NEW x, NEW y
        PROVE DOMAIN Successor(w, x, y) = DOMAIN w /\ Successor(w, x, y).version = 2
    BY <2>1 DEF Successor
  <2> QED
    BY <2>2 DEF w
<1>4. c = [s EXCEPT !.config = TRUE, !.writer_flags = @ \cup {FlagTableConfig}]
  BY DEF Configured
<1> HIDE DEF s
<1>5. DOMAIN c = DOMAIN First /\ c.version = 2
  <2> HIDE DEF c
  <2> QED
    BY <1>2, <1>3, <1>4
<1>6. Sample = [c EXCEPT !.reader_flags = {FlagDeletionFiles},
                         !.writer_flags = {FlagDeletionFiles, FlagTableConfig},
                         !.max_fragment_id = 1, !.fragments = <<a, b>>]
  BY DEF Sample
<1> HIDE DEF a, b, c
<1>7. /\ {"version", "fragments"} \subseteq DOMAIN Sample /\ Sample.version = 2
      /\ Sample.fragments = <<a, b>>
  BY <1>2, <1>5, <1>6
<1>8. 2 \in 0..LastVersion
  BY VersionAssumption, WordAssumption
<1>9. DOMAIN <<a, b>> = 1..2 /\ <<a, b>> = [i \in 1..2 |-> <<a, b>>[i]]
  OBVIOUS
<1> QED
  BY <1>1, <1>7, <1>8, <1>9 DEF Editable

-----------------------------------------------------------------------------
(* The faults one after the other.                                         *)

\* What becomes of a manifest when the turn of the i-th fault comes.
Turn(faults, m, i) == IF FaultOrder[i] \in faults THEN Faulty(m, FaultOrder[i]) ELSE m

IsMade(f, n, faults) == f = [i \in 0..n |-> IF i = 0 THEN Sample ELSE Turn(faults, f[i - 1], i)]

LEMMA MadeExists == ASSUME NEW n \in Nat, NEW faults PROVE \E f : IsMade(f, n, faults)
<1> DEFINE T == {k \in 0..n : \A f : ~IsMade(f, k, faults)}
<1>1. T = {}
  <2> SUFFICES ASSUME T # {} PROVE FALSE
    OBVIOUS
  <2>1. PICK k \in T : \A j \in T : k <= j
    <3>1. T \subseteq Nat
      OBVIOUS
    <3> HIDE DEF T
    <3> QED
      BY <3>1, LeastElement
  <2>2. k \in 0..n /\ \A f : ~IsMade(f, k, faults)
    OBVIOUS
  <2>3. k # 0
    <3> SUFFICES ASSUME k = 0 PROVE FALSE
      OBVIOUS
    <3> DEFINE f == [i \in 0..0 |-> Sample]
    <3>1. f = [i \in 0..0 |-> IF i = 0 THEN Sample ELSE Turn(faults, f[i - 1], i)]
      OBVIOUS
    <3> HIDE DEF f
    <3>2. IsMade(f, 0, faults)
      BY <3>1 DEF IsMade
    <3> QED
      BY <2>2, <3>2
  <2>4. k - 1 \in 0..n /\ k - 1 \notin T
    <3> HIDE DEF T
    <3>1. k - 1 \in 0..n /\ ~(k <= k - 1)
      BY <2>2, <2>3
    <3> QED
      BY <2>1, <3>1
  <2>5. PICK g : IsMade(g, k - 1, faults)
    BY <2>4
  <2> HIDE DEF T
  <2> DEFINE f == [i \in 0..k |-> IF i = k THEN Turn(faults, g[k - 1], k) ELSE g[i]]
  <2>6. /\ k \in Nat /\ k - 1 \in 0..(k - 1) /\ k - 1 # k
        /\ \A i \in 0..k : i = k \/ i \in 0..(k - 1)
        /\ \A i \in 0..(k - 1) : i \in 0..k /\ i # k /\ i \in Int
        /\ \A i \in 0..(k - 1) : i # 0 => i - 1 \in 0..(k - 1)
    BY <2>2, <2>3
  <2>7. \A i \in 0..(k - 1) : g[i] = IF i = 0 THEN Sample ELSE Turn(faults, g[i - 1], i)
    BY <2>5, Zenon DEF IsMade
  <2>8. f[k] = Turn(faults, g[k - 1], k) /\ \A i \in 0..(k - 1) : f[i] = g[i]
    BY <2>6
  <2>9. f = [i \in 0..k |-> f[i]]
    OBVIOUS
  <2> HIDE DEF f
  <2>10. ASSUME NEW i \in 0..k PROVE f[i] = IF i = 0 THEN Sample ELSE Turn(faults, f[i - 1], i)
    <3>1. CASE i = k
      BY <2>3, <2>6, <2>8, <3>1
    <3>2. CASE i # k
      <4>1. i \in 0..(k - 1)
        BY <2>6, <3>2
      <4>2. CASE i = 0
        BY <2>7, <2>8, <4>1, <4>2
      <4>3. CASE i # 0
        <5>1. f[i] = Turn(faults, g[i - 1], i) /\ i - 1 \in 0..(k - 1)
          BY <2>6, <2>7, <2>8, <4>1, <4>3
        <5>2. f[i - 1] = g[i - 1]
          BY <2>8, <5>1
        <5> QED
          BY <4>3, <5>1, <5>2
      <4> QED
        BY <4>2, <4>3
    <3> QED
      BY <3>1, <3>2
  <2>11. IsMade(f, k, faults)
    BY <2>9, <2>10 DEF IsMade
  <2> QED
    BY <2>2, <2>11
<1>2. n \in 0..n /\ n \notin T
  <2> HIDE DEF T
  <2> QED
    BY <1>1
<1> QED
  BY <1>2

\* Whatever the faults, the rows of the damaged manifest can be counted.
LEMMA DamagedKeepsRows == ASSUME NEW faults PROVE Editable(Damaged(faults))
<1> DEFINE n == Len(FaultOrder)
<1>1. n \in Nat
  BY DEF FaultOrder
<1> DEFINE made == CHOOSE f : f = [i \in 0..n |-> IF i = 0 THEN Sample
                                    ELSE IF FaultOrder[i] \in faults
                                         THEN Faulty(f[i - 1], FaultOrder[i]) ELSE f[i - 1]]
<1>2. Damaged(faults) = made[n]
  BY DEF Damaged
<1> HIDE DEF n
<1>3. \E f : f = [i \in 0..n |-> IF i = 0 THEN Sample
                                  ELSE IF FaultOrder[i] \in faults
                                       THEN Faulty(f[i - 1], FaultOrder[i]) ELSE f[i - 1]]
  BY <1>1, MadeExists, Zenon DEF IsMade, Turn
<1>4. made = [i \in 0..n |-> IF i = 0 THEN Sample
                              ELSE IF FaultOrder[i] \in faults
                                   THEN Faulty(made[i - 1], FaultOrder[i]) ELSE made[i - 1]]
  BY <1>3, Zenon
<1> HIDE DEF made
<1>5. /\ made[0] = Sample
      /\ \A i \in 1..n : made[i] = made[i - 1] \/ made[i] = Faulty(made[i - 1], FaultOrder[i])
  <2>1. \A i \in 0..n : made[i] = IF i = 0 THEN Sample
                                  ELSE IF FaultOrder[i] \in faults
                                       THEN Faulty(made[i - 1], FaultOrder[i]) ELSE made[i - 1]
    BY <1>4, Zenon
  <2>2. 0 \in 0..n /\ \A i \in 1..n : i \in 0..n /\ i # 0
    BY <1>1
  <2> QED
    BY <2>1, <2>2, Zenon
<1> DEFINE T == {i \in 0..n : ~Editable(made[i])}
<1>6. T = {}
  <2> SUFFICES ASSUME T # {} PROVE FALSE
    OBVIOUS
  <2>1. PICK k \in T : \A j \in T : k <= j
    <3>1. T \subseteq Nat
      OBVIOUS
    <3> HIDE DEF T
    <3> QED
      BY <3>1, LeastElement
  <2>2. k \in 0..n /\ ~Editable(made[k])
    OBVIOUS
  <2>3. k # 0
    BY <1>5, <2>2, EditableSample
  <2>4. k \in 1..n /\ k - 1 \in 0..n /\ ~(k <= k - 1)
    BY <1>1, <2>2, <2>3
  <2>5. k - 1 \notin T
    <3> HIDE DEF T
    <3> QED
      BY <2>1, <2>4
  <2>6. Editable(made[k - 1])
    BY <2>4, <2>5
  <2> QED
    BY <1>5, <2>2, <2>4, <2>6, FaultsKeepRows
<1>7. n \in 0..n
  BY <1>1
<1> QED
  BY <1>2, <1>6, <1>7

-----------------------------------------------------------------------------
(* The rows of any manifest.                                               *)

\* A manifest whose version is in range and whose rows can be counted.
Countable(m) ==
    /\ m.version \in 0..LastVersion /\ Len(m.fragments) \in Nat
    /\ \A i \in 1..Len(m.fragments) : LiveRows(m.fragments[i]) \in Nat

LEMMA TotalInRange == ASSUME NEW m, Countable(m) PROVE TotalRows(m) \in {None} \cup 0..MaxRows
<1> DEFINE n == Len(m.fragments)
<1> DEFINE V == {None} \cup 0..MaxRows
<1> DEFINE rows == [i \in 1..n |-> LiveRows(m.fragments[i])]
<1> DEFINE add == [i \in 1..n |-> [v \in V |-> CheckedAdd(v, rows[i])]]
<1>1. n \in Nat /\ \A i \in 1..n : rows[i] = LiveRows(m.fragments[i]) /\ rows[i] \in Nat
  BY DEF Countable
<1>2. TotalRows(m) = (CHOOSE t : t = [i \in 0..n |-> IF i = 0 THEN 0
                                       ELSE CheckedAdd(t[i - 1], LiveRows(m.fragments[i]))])[n]
  BY DEF TotalRows
<1> HIDE DEF n, rows
<1>3. 0 \in V /\ MaxRows \in Nat
  BY WordAssumption
<1>4. \A v \in V, r \in Nat : CheckedAdd(v, r) \in V
  <2> SUFFICES ASSUME NEW v \in V, NEW r \in Nat PROVE CheckedAdd(v, r) \in V
    OBVIOUS
  <2>1. CASE v = None
    BY <2>1 DEF CheckedAdd
  <2>2. CASE v # None
    <3>1. v \in Nat
      BY <1>3, <2>2
    <3>2. v + r \in Nat /\ (v + r <= MaxRows => v + r \in 0..MaxRows)
      BY <1>3, <3>1
    <3> QED
      BY <3>2 DEF CheckedAdd
  <2> QED
    BY <2>1, <2>2
<1> HIDE DEF V
<1>5. add \in [1..n -> [V -> V]]
  BY <1>1, <1>4
<1>6. PICK s : IsLoop(s, n, V, 0, add)
  <2> HIDE DEF add
  <2> QED
    BY <1>1, <1>3, <1>5, LoopExists
<1>7. /\ s \in [0..n -> V] /\ s[0] = 0
      /\ \A i \in 1..n : s[i] = CheckedAdd(s[i - 1], LiveRows(m.fragments[i]))
  <2>1. s \in [0..n -> V] /\ s[0] = 0 /\ \A i \in 1..n : s[i] = add[i][s[i - 1]]
    <3> HIDE DEF add
    <3> QED
      BY <1>6 DEF IsLoop
  <2>2. \A i \in 1..n : i - 1 \in 0..n
    BY <1>1
  <2>3. ASSUME NEW i \in 1..n PROVE s[i] = CheckedAdd(s[i - 1], LiveRows(m.fragments[i]))
    <3>1. s[i - 1] \in V
      BY <2>1, <2>2
    <3>2. add[i][s[i - 1]] = CheckedAdd(s[i - 1], rows[i])
      BY <3>1
    <3> HIDE DEF add
    <3> QED
      BY <1>1, <2>1, <3>2
  <2> QED
    BY <2>1, <2>3
<1> DEFINE Loop(t) == t = [i \in 0..n |-> IF i = 0 THEN 0
                                           ELSE CheckedAdd(t[i - 1], LiveRows(m.fragments[i]))]
<1>8. Loop(s)
  <2>1. \A i \in 0..n : s[i] = IF i = 0 THEN 0 ELSE CheckedAdd(s[i - 1], LiveRows(m.fragments[i]))
    BY <1>1, <1>7
  <2>2. s = [i \in 0..n |-> s[i]]
    BY <1>7
  <2> QED
    BY <2>1, <2>2
<1> DEFINE total == CHOOSE t : Loop(t)
<1>9. Loop(total)
  BY <1>8
<1>10. TotalRows(m) = total[n]
  BY <1>2
<1> HIDE DEF total
<1>11. /\ total[0] = 0
       /\ \A i \in 1..n : total[i] = CheckedAdd(total[i - 1], LiveRows(m.fragments[i]))
  <2>1. \A i \in 0..n : total[i] = IF i = 0 THEN 0
                                   ELSE CheckedAdd(total[i - 1], LiveRows(m.fragments[i]))
    BY <1>9, Zenon
  <2>2. 0 \in 0..n /\ \A i \in 1..n : i \in 0..n /\ i # 0
    BY <1>1
  <2> QED
    BY <2>1, <2>2, Zenon
<1> DEFINE T == {i \in 0..n : total[i] \notin V}
<1>12. T = {}
  <2> SUFFICES ASSUME T # {} PROVE FALSE
    OBVIOUS
  <2>1. PICK k \in T : \A j \in T : k <= j
    <3>1. T \subseteq Nat
      OBVIOUS
    <3> HIDE DEF T
    <3> QED
      BY <3>1, LeastElement
  <2>2. k \in 0..n /\ total[k] \notin V
    OBVIOUS
  <2>3. k \in 1..n /\ k - 1 \in 0..n /\ ~(k <= k - 1)
    BY <1>1, <1>3, <1>11, <2>2
  <2>4. k - 1 \notin T
    <3> HIDE DEF T
    <3> QED
      BY <2>1, <2>3
  <2>5. total[k - 1] \in V
    BY <2>3, <2>4
  <2> HIDE DEF T
  <2> QED
    BY <1>1, <1>4, <1>11, <2>2, <2>3, <2>5
<1>13. n \in 0..n
  BY <1>1
<1>14. total[n] \in V
  BY <1>12, <1>13
<1> QED
  BY <1>10, <1>14 DEF V

LEMMA EditableCountable == ASSUME NEW m, Editable(m) PROVE Countable(m)
<1>1. m.version \in 0..LastVersion /\ Len(m.fragments) = 2
  <2> DEFINE a == m.fragments[1]
  <2> DEFINE b == m.fragments[2]
  <2>1. m.fragments = <<a, b>>
    BY DEF Editable
  <2> HIDE DEF a, b
  <2> QED
    BY <2>1 DEF Editable
<1>2. ASSUME NEW g, Deleting(g) \/ Whole(g) PROVE LiveRows(g) \in Nat
  <2> DEFINE p == g.physical_rows
  <2> DEFINE d == IF g.deletion = None THEN 0 ELSE g.deletion.num_deleted_rows
  <2>1. p \in Nat /\ d \in Nat
    BY <1>2 DEF Deleting, Whole, Counting
  <2>2. LiveRows(g) = IF d <= p THEN p - d ELSE 0
    BY DEF LiveRows
  <2> HIDE DEF p, d
  <2> QED
    BY <2>1, <2>2
<1>3. LiveRows(m.fragments[1]) \in Nat /\ LiveRows(m.fragments[2]) \in Nat
  BY <1>2 DEF Editable
<1>4. \A i \in 1..2 : i = 1 \/ i = 2
  OBVIOUS
<1>5. \A i \in 1..2 : LiveRows(m.fragments[i]) \in Nat
  BY <1>3, <1>4
<1> QED
  BY <1>1, <1>5 DEF Countable

LEMMA HealthyCountable == ASSUME NEW m, Healthy(m) PROVE Countable(m)
<1>1. m.version \in 1..LastVersion /\ LastVersion \in Nat
  BY VersionAssumption, WordAssumption DEF Healthy
<1>2. /\ m.fragments \in Seq(Fragments)
      /\ \A i \in 1..Len(m.fragments) : LiveRows(m.fragments[i]) \in Nat
  BY HealthyParts
<1> QED
  BY <1>1, <1>2 DEF Countable

\* What a broken dataset starts with.
LEMMA BrokenEntries == ASSUME BrokenDataset PROVE \A m \in entries : Countable(m)
<1>0. 1 \in 0..LastVersion
  BY VersionAssumption, WordAssumption
<1>1. PICK e : entries = Entries(damage, [Damaged(damage) EXCEPT !.envelope = e])
  BY DEF BrokenDataset
<1> DEFINE m == [Damaged(damage) EXCEPT !.envelope = e]
<1>2. Countable(m)
  <2>1. Editable(Damaged(damage))
    BY DamagedKeepsRows
  <2> DEFINE w == Damaged(damage)
  <2>2. DOMAIN m = DOMAIN w /\ m.version = w.version /\ m.fragments = w.fragments
    BY <2>1 DEF Editable
  <2> HIDE DEF m
  <2>3. Editable(m)
    BY <2>1, <2>2 DEF Editable
  <2> QED
    BY <2>3, EditableCountable
<1>3. ASSUME NEW f \in {"detached", "stray", "unreadable name", "mixed"} PROVE Countable(Stray(f))
  <2>1. Editable(Sample)
    BY EditableSample
  <2> DEFINE w == Stray(f)
  <2>2. /\ DOMAIN w = DOMAIN Sample /\ w.version \in {1, Sample.version}
        /\ w.fragments = Sample.fragments
    BY <2>1 DEF Stray, Editable
  <2> HIDE DEF w
  <2>3. Editable(w)
    BY <1>0, <2>1, <2>2 DEF Editable
  <2> QED
    BY <2>3, EditableCountable DEF w
<1>4. \A x \in Strays(damage) : \E f \in {"detached", "stray", "unreadable name", "mixed"} :
         x = Stray(f)
  BY DEF Strays
<1>5. entries \subseteq Strays(damage) \cup {m}
  BY <1>1 DEF Entries
<1> HIDE DEF m
<1> QED
  BY <1>2, <1>3, <1>4, <1>5

-----------------------------------------------------------------------------
(* The types of the variables.                                             *)

\* Nobody writes a broken dataset, and all of its manifests can be counted.
BrokenInv ==
    damage # {} =>
        writing = None /\ live = <<2>> /\ \A m \in Known : Countable(m)

\* What the linter keeps of a dataset, healthy or broken.
LinterInv ==
    /\ phase \in {"start", "list", "read", "stat", "rules", "references", "done"}
    /\ damage \in Damages
    /\ seen = Attached(seen)
    /\ selected \in seen \cup {None}
    /\ phase \in {"start", "list", "read"} => manifest = None
    /\ manifest # None => manifest = selected /\ Decodes(manifest.envelope)
    /\ size_known \in BOOLEAN /\ cleaned \in BOOLEAN
    /\ num_rows \in {None} \cup 0..MaxRows
    /\ opened \in 0..LastVersion

KindsInv == HealthyInv /\ BrokenInv /\ LinterInv

\* Every manifest anyone knows can be counted.
LEMMA KnownCountable == ASSUME HealthyInv, BrokenInv PROVE \A m \in Known : Countable(m)
<1>1. CASE damage = {}
  BY <1>1, HealthyCountable DEF HealthyInv, ManifestsInv
<1>2. CASE damage # {}
  BY <1>2 DEF BrokenInv
<1> QED
  BY <1>1, <1>2

LEMMA KindsInit == ASSUME Init PROVE BrokenInv /\ LinterInv
<1>1. /\ writing = None /\ phase = "start" /\ unread = {} /\ seen = {} /\ selected = None
      /\ manifest = None /\ size_known = FALSE /\ num_rows = None /\ opened = 0
      /\ cleaned = FALSE /\ live = <<2>>
  BY DEF Init
<1>2. ASSUME damage # {} PROVE \A m \in Known : Countable(m)
  <2>1. BrokenDataset
    BY <1>2 DEF Init, HealthyDataset
  <2>2. Known = entries
    BY <1>1 DEF Known, Some
  <2> QED
    BY <2>1, <2>2, BrokenEntries
<1>3. damage \in Damages
  BY DamagesAssumption DEF Init, HealthyDataset, BrokenDataset
<1>4. 0 \in 0..LastVersion
  BY VersionAssumption, WordAssumption
<1>5. LinterInv
  BY <1>1, <1>3, <1>4 DEF LinterInv, Attached
<1> QED
  BY <1>1, <1>2, <1>5 DEF BrokenInv

\* The linter comes to know nothing but what was there.
LEMMA LintKnows == ASSUME Lint, LinterInv PROVE Known' \subseteq Known /\ UNCHANGED dataset
<1>1. UNCHANGED dataset
  BY Zenon DEF Lint, NoVersionsDirectory, OpenVersions, ListEntry, SelectLatest, NoManifestFound,
     ReadManifest, StatManifest, RunRules, CheckReference, Finish, Reading
<1>2. UNCHANGED <<entries, writing>>
  BY <1>1 DEF dataset
<1>3. /\ unread' \subseteq unread \cup entries
      /\ seen' \subseteq seen \cup unread
      /\ selected' \in seen \cup {selected}
  <2>1. CASE OpenVersions
    BY <2>1 DEF OpenVersions
  <2>2. CASE ListEntry
    BY <2>2 DEF ListEntry, TakeEntry, Attached
  <2>3. CASE SelectLatest
    BY <2>3 DEF SelectLatest, IsLatest, Attached
  <2>4. CASE NoVersionsDirectory \/ NoManifestFound \/ ReadManifest \/ StatManifest
    BY <2>4 DEF NoVersionsDirectory, NoManifestFound, ReadManifest, StatManifest
  <2>5. CASE RunRules \/ CheckReference \/ Finish
    BY <2>5 DEF RunRules, CheckReference, Finish
  <2> QED
    BY <2>1, <2>2, <2>3, <2>4, <2>5 DEF Lint
<1> QED
  BY <1>1, <1>2, <1>3 DEF Known, Some

LEMMA BrokenStays == ASSUME BrokenInv, LinterInv, [Next]_vars PROVE BrokenInv'
<1>1. CASE Lint
  <2>1. Known' \subseteq Known /\ UNCHANGED <<damage, writing, live>>
    BY <1>1, LintKnows DEF dataset
  <2> QED
    BY <2>1 DEF BrokenInv, Countable
<1>2. CASE WriteFiles
  BY <1>2 DEF WriteFiles, BrokenInv
<1>3. CASE Commit
  BY <1>3 DEF Commit, BrokenInv
<1>4. CASE CleanUp
  BY <1>4 DEF CleanUp, BrokenInv
<1>5. CASE UNCHANGED vars
  <2>1. UNCHANGED <<damage, writing, live, entries, unread, seen, selected>>
    BY <1>5 DEF vars, dataset, linter
  <2> QED
    BY <2>1 DEF BrokenInv, Known, Countable
<1> QED
  BY <1>1, <1>2, <1>3, <1>4, <1>5 DEF Next

LEMMA AttachedMore ==
    ASSUME NEW s, s = Attached(s), NEW t
    PROVE  s \cup Attached(t) = Attached(s \cup Attached(t))
BY DEF Attached

LEMMA LinterStays == ASSUME KindsInv, [Next]_vars PROVE LinterInv'
<1>1. LinterInv /\ \A m \in Known : Countable(m)
  BY KnownCountable DEF KindsInv
<1>2. CASE NoVersionsDirectory
  BY <1>1, <1>2 DEF LinterInv, NoVersionsDirectory, Reading, dataset
<1>3. CASE OpenVersions
  <2>1. opened' \in 0..LastVersion
    BY <1>1, <1>3 DEF OpenVersions, LinterInv, Known, Countable
  <2> QED
    BY <1>1, <1>3, <2>1 DEF LinterInv, OpenVersions, Reading, dataset
<1>4. CASE ListEntry
  <2>1. seen \subseteq seen' /\ seen' = Attached(seen')
    <3>1. seen' = seen \/ \E e : seen' = seen \cup Attached({e})
      BY <1>4 DEF ListEntry, TakeEntry
    <3>2. seen = Attached(seen)
      BY <1>1 DEF LinterInv
    <3>3. ASSUME NEW e, seen' = seen \cup Attached({e})
          PROVE  seen \subseteq seen' /\ seen' = Attached(seen')
      <4>1. seen \cup Attached({e}) = Attached(seen \cup Attached({e}))
        BY <3>2, AttachedMore
      <4> QED
        BY <3>3, <4>1
    <3>4. CASE seen' = seen
      <4>1. Attached(seen') = Attached(seen)
        BY <3>4 DEF Attached
      <4> QED
        BY <3>2, <3>4, <4>1
    <3> QED
      BY <3>1, <3>3, <3>4
  <2>2. UNCHANGED <<phase, damage, selected, manifest, size_known, cleaned, num_rows, opened>>
    BY <1>4 DEF ListEntry, Reading, dataset
  <2> QED
    BY <1>1, <2>1, <2>2 DEF LinterInv
<1>5. CASE SelectLatest
  <2>1. selected' \in seen
    BY <1>5 DEF SelectLatest
  <2>2. /\ phase = "list" /\ phase' = "read"
        /\ UNCHANGED <<damage, seen, manifest, size_known, cleaned, num_rows, opened>>
    BY <1>5 DEF SelectLatest, Reading, dataset
  <2> QED
    BY <1>1, <2>1, <2>2 DEF LinterInv
<1>6. CASE NoManifestFound
  BY <1>1, <1>6 DEF LinterInv, NoManifestFound, Reading, dataset
<1>7. CASE ReadManifest
  <2>1. manifest' # None => manifest' = selected /\ Decodes(selected.envelope)
    BY <1>1, <1>7 DEF ReadManifest, LinterInv
  <2>2. /\ phase' = "stat"
        /\ UNCHANGED <<damage, seen, selected, size_known, cleaned, num_rows, opened>>
    BY <1>7 DEF ReadManifest, Reading, dataset
  <2> QED
    BY <1>1, <2>1, <2>2 DEF LinterInv
<1>8. CASE StatManifest
  <2>1. num_rows' \in {None} \cup 0..MaxRows
    <3>1. manifest # None => Countable(manifest)
      BY <1>1 DEF LinterInv, Known, Some
    <3> QED
      BY <1>8, <3>1, TotalInRange DEF StatManifest
  <2>2. size_known' \in BOOLEAN
    BY <1>8 DEF StatManifest
  <2>3. phase' = "rules" /\ UNCHANGED <<damage, seen, selected, manifest, cleaned, opened>>
    BY <1>8 DEF StatManifest, Reading, dataset
  <2>4. phase \notin {"start", "list", "read"}
    BY <1>8 DEF StatManifest
  <2> QED
    BY <1>1, <2>1, <2>2, <2>3 DEF LinterInv
<1>9. CASE RunRules
  BY <1>1, <1>9 DEF LinterInv, RunRules, Reading, dataset
<1>10. CASE CheckReference
  BY <1>1, <1>10 DEF LinterInv, CheckReference, Reading, dataset
<1>11. CASE Finish
  BY <1>1, <1>11 DEF LinterInv, Finish, Reading, dataset
<1>12. CASE WriteFiles
  BY <1>1, <1>12 DEF LinterInv, WriteFiles, linter
<1>13. CASE Commit
  BY <1>1, <1>13 DEF LinterInv, Commit, linter
<1>14. CASE CleanUp
  <2>1. cleaned' \in BOOLEAN
    BY <1>14 DEF CleanUp
  <2>2. UNCHANGED <<damage, phase, seen, selected, manifest, size_known, num_rows, opened>>
    BY <1>14 DEF CleanUp, linter
  <2> QED
    BY <1>1, <2>1, <2>2 DEF LinterInv
<1>15. CASE UNCHANGED vars
  BY <1>1, <1>15 DEF LinterInv, vars, dataset, linter
<1> QED
  BY <1>2, <1>3, <1>4, <1>5, <1>6, <1>7, <1>8, <1>9, <1>10, <1>11, <1>12, <1>13, <1>14, <1>15
     DEF Next, Lint

LEMMA KindsGiveTypes == ASSUME KindsInv PROVE TypeOK
<1>1. HealthyInv /\ BrokenInv /\ LinterInv
  BY DEF KindsInv
<1>2. writing # None => Files(writing) \subseteq objects
  BY <1>1 DEF HealthyInv, WriterInv, BrokenInv
<1>3. Len(live) \in 1..LastVersion
  <2>1. LastVersion \in Nat /\ LastVersion >= 2
    BY VersionAssumption, WordAssumption
  <2>2. CASE damage # {}
    <3>1. live = <<2>>
      BY <1>1, <2>2 DEF BrokenInv
    <3>2. Len(live) = 1
      BY <3>1
    <3> QED
      BY <2>1, <3>2
  <2>3. CASE damage = {}
    <3>1. live \in Seq(Nat) /\ Len(live) <= LastVersion
      BY <1>1, <2>3 DEF HealthyInv, ManifestsInv
    <3>2. PICK m \in entries : m.version \in DOMAIN live
      BY <1>1, <2>3 DEF HealthyInv, ManifestsInv, WriterInv, Known
    <3>3. Len(live) \in Nat /\ Len(live) # 0
      BY <3>1, <3>2
    <3> QED
      BY <2>1, <3>1, <3>3
  <2> QED
    BY <2>2, <2>3
<1> QED
  BY <1>1, <1>2, <1>3 DEF LinterInv, TypeOK

\* On any dataset, healthy or with any of the faults, the variables have their types:
\* read_manifest decodes only what list_manifests selected among the attached manifests, and
\* the rows that manifest_row_count tells are a signed word or nothing.
THEOREM TypeCorrect ==
    Spec => []TypeOK
<1>1. Init => KindsInv
  BY InitHealthy, KindsInit DEF KindsInv
<1>2. KindsInv /\ [Next]_vars => KindsInv'
  <2> SUFFICES ASSUME KindsInv, [Next]_vars PROVE KindsInv'
    OBVIOUS
  <2>1. HealthyInv'
    BY NextHealthy DEF KindsInv
  <2>2. BrokenInv'
    BY BrokenStays DEF KindsInv
  <2>3. LinterInv'
    BY LinterStays
  <2> QED
    BY <2>1, <2>2, <2>3 DEF KindsInv
<1>3. KindsInv => TypeOK
  BY KindsGiveTypes
<1> QED
  BY <1>1, <1>2, <1>3, PTL DEF Spec

=============================================================================
