-------------------------- MODULE ArrowDiffProofs --------------------------
(***************************************************************************)
(* Proofs about ArrowDiff, for all datasets and any number of edits: the   *)
(* comparison is symmetric, the status of the command follows from the     *)
(* report it shows, renamed files are no difference, and if schemas only   *)
(* grow by appended columns, no column and no row group escapes.           *)
(*                                                                         *)
(* What is compared are tallies and sums over finite sets.  Equal tallies  *)
(* are the same as a pairing of elements with equal values (TallyPairs,    *)
(* PairsTally); sums do not depend on the order in which they are taken    *)
(* (TableValues) and agree under a pairing (TablesAgree).  What would be   *)
(* an induction over a finite set is an argument about a smallest          *)
(* counterexample (SmallestSubset).                                        *)
(***************************************************************************)
EXTENDS ArrowDiff, FiniteSetTheorems, FunctionTheorems, WellFoundedInduction, TLAPS

-----------------------------------------------------------------------------
\* Each part of a comparison looks for a difference, so none has a direction.
THEOREM HasChangesSymmetric ==
    ASSUME NEW a, NEW b
    PROVE  HasChanges(a, b) <=> HasChanges(b, a)
<1>1. SchemaChanged(a, b) <=> SchemaChanged(b, a)
  BY DEF SchemaChanged
<1>2. ColumnsChanged(a, b) # {} <=> ColumnsChanged(b, a) # {}
  BY DEF ColumnsChanged
<1>3. MetadataChanged(a, b) <=> MetadataChanged(b, a)
  BY DEF MetadataChanged
<1>4. StatisticsChanged(a, b) <=> StatisticsChanged(b, a)
  BY DEF StatisticsChanged
<1> QED
  BY <1>1, <1>2, <1>3, <1>4 DEF HasChanges

\* compare_datasets, run with the datasets exchanged, detects a difference exactly when
\* it does for the datasets as given: an invariant, whatever the datasets are.
THEOREM SymmetricCorrect == Spec => []Symmetric
<1>1. Symmetric
  BY HasChangesSymmetric DEF Symmetric
<1> QED
  BY <1>1, PTL

-----------------------------------------------------------------------------
LEMMA HasChangesType ==
    ASSUME NEW a, NEW b
    PROVE  HasChanges(a, b) \in BOOLEAN
BY DEF HasChanges

\* A command that takes report and status from one comparison never starts a second.
OneComparison ==
    Single => /\ pass = 1
              /\ phase \in {"exit", "exited"} => shown = judged

\* While nobody edits, what was scanned and what was compared is what the datasets hold.
UpToDate ==
    edits = 0 =>
      /\ phase \in {"new", "compare"} => scanned.old = old
      /\ phase = "compare" => scanned.new = new
      /\ pass = 2 \/ phase \in {"exit", "exited"} => shown = HasChanges(old, new)
      /\ phase \in {"exit", "exited"} => judged = HasChanges(old, new)

Types ==
    /\ edits \in Nat
    /\ mode \in [front: {"native", "python"}, output: {"text", "json"}, exit_code: BOOLEAN]
    /\ phase \in {"old", "new", "compare", "exit", "exited", "aborted"}
    /\ pass \in {1, 2}
    /\ DOMAIN scanned = {"old", "new"}
    /\ shown \in BOOLEAN
    /\ judged \in BOOLEAN

Status == phase = "exited" => exit = IF mode.exit_code /\ judged THEN 1 ELSE 0

IInv == Types /\ OneComparison /\ UpToDate /\ Status

LEMMA Initially == Init => IInv
<1> SUFFICES ASSUME Init PROVE IInv
  OBVIOUS
<1> USE DEF Init
<1>1. DOMAIN scanned = {"old", "new"}
  <2>1. scanned = [old |-> old, new |-> new]
    OBVIOUS
  <2>2. DOMAIN [old |-> old, new |-> new] = {"old", "new"}
    BY Zenon
  <2> QED
    BY <2>1, <2>2
<1>2. Types
  BY <1>1, ModesAssumption DEF Types
<1>3. OneComparison /\ UpToDate /\ Status
  BY DEF OneComparison, UpToDate, Status
<1> QED
  BY <1>2, <1>3 DEF IInv

LEMMA Preserved == IInv /\ [Next]_vars => IInv'
<1> SUFFICES ASSUME IInv, [Next]_vars PROVE IInv'
  OBVIOUS
<1> USE DEF IInv, Types, OneComparison, UpToDate, Status, Single
<1>1. CASE ScanFails
  BY <1>1 DEF ScanFails
<1>2. CASE ScanOld
  BY <1>2 DEF ScanOld
<1>3. CASE ScanNew
  BY <1>3 DEF ScanNew
<1>4. CASE Compare
  <2> DEFINE changes == HasChanges(scanned.old, scanned.new)
  <2>1. changes \in BOOLEAN
    BY HasChangesType
  <2>2. /\ phase = "compare" /\ phase' = "exit"
        /\ shown' = IF pass = 1 THEN changes ELSE shown
        /\ judged' = changes
        /\ UNCHANGED <<old, new, edits, mode, pass, scanned, exit>>
    BY <1>4 DEF Compare
  <2>3. edits = 0 => changes = HasChanges(old, new)
    BY <2>2
  <2> HIDE DEF changes
  <2> QED
    BY <2>1, <2>2, <2>3
<1>5. CASE CompareAgain
  BY <1>5 DEF CompareAgain
<1>6. CASE Exit
  BY <1>6 DEF Exit
<1>7. CASE Edit
  <2>1. edits' = edits + 1 /\ UNCHANGED <<mode, phase, pass, scanned, shown, judged, exit>>
    BY <1>7 DEF Edit
  <2>2. edits' \in Nat /\ edits' # 0
    BY <2>1
  <2> QED
    BY <2>1, <2>2
<1>8. CASE UNCHANGED vars
  BY <1>8 DEF vars
<1> QED
  BY <1>1, <1>2, <1>3, <1>4, <1>5, <1>6, <1>7, <1>8 DEF Next

\* With --exit-code the status is 1 exactly when the report shown has changes, without it
\* 0: always for the native command and JSON, and for the text of the Python command as
\* long as nobody edits the datasets.
THEOREM ExitCorrect == Spec => []ExitMatchesReport
<1>1. IInv => ExitMatchesReport
  BY DEF IInv, Types, OneComparison, UpToDate, Status, ExitMatchesReport
<1> QED
  BY <1>1, Initially, Preserved, PTL DEF Spec

-----------------------------------------------------------------------------
(* Sums over finite sets.                                                  *)

NatLess == {p \in Nat \X Nat : p[1] < p[2]}

LEMMA LeastElement ==
    ASSUME NEW T, T \subseteq Nat, T # {}
    PROVE  \E x \in T : \A y \in T : x <= y
<1>1. IsWellFoundedOn(NatLess, Nat)
  BY NatLessThanWellFounded DEF OpToRel, NatLess
<1>2. PICK x \in T : \A y \in T : ~(<<y, x>> \in NatLess)
  BY <1>1, WFMin
<1>3. ASSUME NEW y \in T PROVE x <= y
  <2>1. ~(y < x)
    BY <1>2 DEF NatLess
  <2> QED
    BY <2>1
<1> QED
  BY <1>3

LEMMA GreatestElement ==
    ASSUME NEW T, NEW n \in Nat, T \subseteq 0..n, T # {}
    PROVE  \E x \in T : \A y \in T : y <= x
<1> DEFINE D == {k \in 0..n : n - k \in T}
<1>1. PICK t : t \in T
  OBVIOUS
<1>2. n - t \in D /\ D \subseteq Nat
  BY <1>1
<1>3. PICK k \in D : \A j \in D : k <= j
  <2> HIDE DEF D
  <2> QED
    BY <1>2, LeastElement
<1>4. n - k \in T /\ k \in 0..n
  OBVIOUS
<1>5. ASSUME NEW y \in T PROVE y <= n - k
  <2>1. n - y \in D
    OBVIOUS
  <2>2. k <= n - y
    BY <1>3, <2>1
  <2> QED
    BY <1>4, <2>2
<1> QED
  BY <1>4, <1>5

\* A nonempty set of subsets has a member with no smaller one next to it.
LEMMA SmallestSubset ==
    ASSUME NEW S, IsFiniteSet(S), NEW B, B \subseteq SUBSET S, B # {}
    PROVE  \E s \in B : \A x \in s : s \ {x} \notin B
<1> DEFINE Sizes == {Cardinality(s) : s \in B}
<1>1. \A s \in SUBSET S : IsFiniteSet(s) /\ Cardinality(s) \in Nat
  BY FS_Subset, FS_CardinalityType
<1>2. Sizes \subseteq Nat /\ Sizes # {}
  BY <1>1
<1>3. PICK k \in Sizes : \A j \in Sizes : k <= j
  <2> HIDE DEF Sizes
  <2> QED
    BY <1>2, LeastElement
<1>4. PICK s \in B : Cardinality(s) = k
  OBVIOUS
<1>5. ASSUME NEW x \in s, s \ {x} \in B PROVE FALSE
  <2>1. Cardinality(s \ {x}) = Cardinality(s) - 1
    BY <1>1, FS_RemoveElement
  <2>2. k <= Cardinality(s \ {x})
    BY <1>3, <1>5
  <2> QED
    BY <1>1, <1>4, <2>1, <2>2
<1> QED
  BY <1>5

Pick(s) == CHOOSE x \in s : TRUE

\* The sums of v over the subsets of S, as MapThenSumSet computes them.
IsTable(F, v, S) ==
    F = [s \in SUBSET S |-> IF s = {} THEN 0 ELSE v[Pick(s)] + F[s \ {Pick(s)}]]

\* The table as far as subsets of k elements.
IsTableTo(F, v, S, k) ==
    LET small == {s \in SUBSET S : Cardinality(s) <= k}
    IN /\ F \in [small -> Nat]
       /\ \A s \in small : F[s] = IF s = {} THEN 0 ELSE v[Pick(s)] + F[s \ {Pick(s)}]

LEMMA TableExists ==
    ASSUME NEW S, IsFiniteSet(S), NEW v \in [S -> Nat]
    PROVE  \E F : IsTable(F, v, S)
<1>1. \A s \in SUBSET S : IsFiniteSet(s) /\ Cardinality(s) \in Nat /\ Cardinality(s) <= Cardinality(S)
  BY FS_Subset, FS_CardinalityType
<1>2. \A s \in SUBSET S : s # {} => Pick(s) \in s
  BY DEF Pick
<1> DEFINE Small(k) == {s \in SUBSET S : Cardinality(s) <= k}
<1> DEFINE T == {k \in Nat : \A F : ~IsTableTo(F, v, S, k)}
<1>3. T = {}
  <2> SUFFICES ASSUME T # {} PROVE FALSE
    OBVIOUS
  <2>1. PICK k \in T : \A j \in T : k <= j
    <3>1. T \subseteq Nat
      OBVIOUS
    <3> HIDE DEF T
    <3> QED
      BY <3>1, LeastElement
  <2>2. k \in Nat /\ \A F : ~IsTableTo(F, v, S, k)
    OBVIOUS
  <2>3. k # 0
    <3> SUFFICES ASSUME k = 0 PROVE FALSE
      OBVIOUS
    <3> DEFINE F == [s \in Small(0) |-> 0]
    <3>1. \A s \in Small(0) : s = {}
      <4>1. ASSUME NEW s \in Small(0) PROVE s = {}
        <5>1. Cardinality(s) = 0 /\ IsFiniteSet(s)
          BY <1>1
        <5> QED
          BY <5>1, FS_EmptySet
      <4> QED
        BY <4>1
    <3>2. F \in [Small(0) -> Nat] /\ \A s \in Small(0) : F[s] = 0
      OBVIOUS
    <3> HIDE DEF F
    <3>3. IsTableTo(F, v, S, 0)
      BY <3>1, <3>2 DEF IsTableTo
    <3> QED
      BY <2>2, <3>3
  <2>4. k - 1 \in Nat /\ k - 1 \notin T
    <3> HIDE DEF T
    <3>1. k - 1 \in Nat /\ ~(k <= k - 1)
      BY <2>2, <2>3
    <3> QED
      BY <2>1, <3>1
  <2>5. PICK G : IsTableTo(G, v, S, k - 1)
    BY <2>4
  <2> HIDE DEF T
  <2>6. /\ G \in [Small(k - 1) -> Nat]
        /\ \A s \in Small(k - 1) : G[s] = IF s = {} THEN 0 ELSE v[Pick(s)] + G[s \ {Pick(s)}]
    BY <2>5 DEF IsTableTo
  <2>7. ASSUME NEW s \in Small(k), s # {}
        PROVE  s \ {Pick(s)} \in Small(k - 1) /\ s \ {Pick(s)} \in Small(k) /\ v[Pick(s)] \in Nat
    <3>1. Cardinality(s \ {Pick(s)}) = Cardinality(s) - 1
      BY <1>1, <1>2, <2>7, FS_RemoveElement
    <3>2. Cardinality(s) \in Nat /\ Cardinality(s) <= k /\ Pick(s) \in S
      BY <1>1, <1>2, <2>7
    <3> QED
      BY <2>2, <3>1, <3>2
  <2> DEFINE F == [s \in Small(k) |-> IF s = {} THEN 0 ELSE v[Pick(s)] + G[s \ {Pick(s)}]]
  <2>8. \A s \in Small(k) : F[s] = IF s = {} THEN 0 ELSE v[Pick(s)] + G[s \ {Pick(s)}]
    OBVIOUS
  <2>9. \A s \in Small(k) : F[s] \in Nat
    BY <2>6, <2>7, <2>8
  <2>10. F \in [Small(k) -> Nat]
    BY <2>9
  <2> HIDE DEF F
  <2>11. Small(k - 1) \subseteq Small(k)
    BY <1>1, <2>2
  <2>12. \A s \in Small(k - 1) : F[s] = G[s]
    BY <2>6, <2>8, <2>11
  <2>13. \A s \in Small(k) : F[s] = IF s = {} THEN 0 ELSE v[Pick(s)] + F[s \ {Pick(s)}]
    BY <2>7, <2>8, <2>12
  <2>14. IsTableTo(F, v, S, k)
    BY <2>10, <2>13 DEF IsTableTo
  <2> QED
    BY <2>2, <2>14
<1>4. Cardinality(S) \in Nat /\ Small(Cardinality(S)) = SUBSET S
  BY <1>1, FS_CardinalityType
<1>5. PICK F : IsTableTo(F, v, S, Cardinality(S))
  BY <1>3, <1>4
<1>6. /\ F \in [SUBSET S -> Nat]
      /\ \A s \in SUBSET S : F[s] = IF s = {} THEN 0 ELSE v[Pick(s)] + F[s \ {Pick(s)}]
  <2> HIDE DEF T
  <2> QED
    BY <1>4, <1>5 DEF IsTableTo
<1>7. F = [s \in SUBSET S |-> F[s]]
  BY <1>6
<1>8. IsTable(F, v, S)
  BY <1>6, <1>7 DEF IsTable
<1> QED
  BY <1>8

LEMMA TableValues ==
    ASSUME NEW S, IsFiniteSet(S), NEW v \in [S -> Nat], NEW F, IsTable(F, v, S)
    PROVE  /\ F[{}] = 0
           /\ \A s \in SUBSET S : F[s] \in Nat
           /\ \A s \in SUBSET S : \A x \in s : F[s] = v[x] + F[s \ {x}]
<1>1. \A s \in SUBSET S : F[s] = IF s = {} THEN 0 ELSE v[Pick(s)] + F[s \ {Pick(s)}]
  BY DEF IsTable
<1>2. \A s \in SUBSET S : s # {} => Pick(s) \in s
  BY DEF Pick
<1>3. F[{}] = 0
  BY <1>1
<1>4. \A s \in SUBSET S : F[s] \in Nat
  <2> DEFINE B == {s \in SUBSET S : F[s] \notin Nat}
  <2> SUFFICES ASSUME B # {} PROVE FALSE
    OBVIOUS
  <2>1. B \subseteq SUBSET S
    OBVIOUS
  <2>2. PICK s \in B : \A x \in s : s \ {x} \notin B
    <3> HIDE DEF B
    <3> QED
      BY <2>1, SmallestSubset
  <2>3. s \in SUBSET S /\ F[s] \notin Nat /\ s # {}
    BY <1>3
  <2>4. F[s \ {Pick(s)}] \in Nat /\ v[Pick(s)] \in Nat
    BY <1>2, <2>2, <2>3
  <2>5. F[s] = v[Pick(s)] + F[s \ {Pick(s)}]
    BY <1>1, <2>3
  <2> HIDE DEF B
  <2>6. v[Pick(s)] + F[s \ {Pick(s)}] \in Nat
    BY <2>4
  <2> QED
    BY <2>3, <2>5, <2>6
<1>5. ASSUME NEW z \in SUBSET S, NEW e \in z, F[z] # v[e] + F[z \ {e}] PROVE FALSE
  <2> DEFINE B == {s \in SUBSET S : \E x \in s : F[s] # v[x] + F[s \ {x}]}
  <2>0. z \in B
    BY <1>5
  <2>1. B \subseteq SUBSET S
    OBVIOUS
  <2>2. PICK s \in B : \A x \in s : s \ {x} \notin B
    <3> HIDE DEF B
    <3> QED
      BY <2>0, <2>1, SmallestSubset
  <2>3. PICK x \in s : F[s] # v[x] + F[s \ {x}]
    OBVIOUS
  <2>4. s \in SUBSET S
    OBVIOUS
  <2>5. PICK y \in s : F[s] = v[y] + F[s \ {y}]
    <3>1. s # {} /\ Pick(s) \in s
      BY <1>2, <2>3, <2>4
    <3> QED
      BY <1>1, <2>4, <3>1
  <2>6. s \ {y} \notin B /\ s \ {x} \notin B /\ s \ {y} \in SUBSET S /\ s \ {x} \in SUBSET S
    BY <2>2, <2>4
  <2>7. /\ F[s \ {y}] = v[x] + F[(s \ {y}) \ {x}]
        /\ F[s \ {x}] = v[y] + F[(s \ {x}) \ {y}]
    <3>1. x # y
      BY <2>3, <2>5
    <3>2. x \in s \ {y} /\ y \in s \ {x}
      BY <3>1
    <3> QED
      BY <2>6, <3>2
  <2> HIDE DEF B
  <2>8. (s \ {y}) \ {x} = (s \ {x}) \ {y}
    OBVIOUS
  <2>9. v[x] \in Nat /\ v[y] \in Nat /\ F[(s \ {y}) \ {x}] \in Nat
    BY <1>4, <2>4, <2>5
  <2> DEFINE r == F[(s \ {y}) \ {x}]
  <2>10. F[s] = v[y] + (v[x] + r) /\ F[s \ {x}] = v[y] + r /\ r \in Nat
    BY <2>5, <2>7, <2>8, <2>9
  <2> HIDE DEF r
  <2>11. F[s] = v[x] + (v[y] + r)
    BY <2>9, <2>10
  <2> QED
    BY <2>3, <2>10, <2>11
<1> QED
  BY <1>3, <1>4, <1>5

Pairing(g, S, T) ==
    /\ g \in [S -> T]
    /\ \A s, t \in S : g[s] = g[t] => s = t
    /\ \A t \in T : \E s \in S : g[s] = t

\* Sums of paired values are equal.
LEMMA TablesAgree ==
    ASSUME NEW S, IsFiniteSet(S), NEW v \in [S -> Nat], NEW F, IsTable(F, v, S),
           NEW T, IsFiniteSet(T), NEW w \in [T -> Nat], NEW G, IsTable(G, w, T),
           NEW g, Pairing(g, S, T), \A s \in S : w[g[s]] = v[s]
    PROVE  F[S] = G[T]
<1> DEFINE Image(s) == {g[x] : x \in s}
<1>1. /\ g \in [S -> T]
      /\ \A s, t \in S : g[s] = g[t] => s = t
      /\ \A t \in T : \E s \in S : g[s] = t
  BY DEF Pairing
<1>2. /\ F[{}] = 0
      /\ \A s \in SUBSET S : \A x \in s : F[s] = v[x] + F[s \ {x}]
  BY TableValues
<1>3. /\ G[{}] = 0
      /\ \A t \in SUBSET T : \A x \in t : G[t] = w[x] + G[t \ {x}]
  BY TableValues
<1>4. \A s \in SUBSET S : F[s] = G[Image(s)]
  <2> DEFINE B == {s \in SUBSET S : F[s] # G[Image(s)]}
  <2> SUFFICES ASSUME B # {} PROVE FALSE
    OBVIOUS
  <2>1. B \subseteq SUBSET S
    OBVIOUS
  <2>2. PICK s \in B : \A x \in s : s \ {x} \notin B
    <3> HIDE DEF B
    <3> QED
      BY <2>1, SmallestSubset
  <2>3. s \in SUBSET S /\ F[s] # G[Image(s)]
    OBVIOUS
  <2>4. s # {}
    <3> SUFFICES ASSUME s = {} PROVE FALSE
      OBVIOUS
    <3>1. Image(s) = {}
      OBVIOUS
    <3> QED
      BY <1>2, <1>3, <2>3, <3>1
  <2>5. PICK x : x \in s
    BY <2>4
  <2>6. F[s \ {x}] = G[Image(s \ {x})]
    BY <2>2, <2>3, <2>5
  <2>7. Image(s \ {x}) = Image(s) \ {g[x]}
    BY <1>1, <2>3, <2>5
  <2>8. g[x] \in Image(s) /\ Image(s) \in SUBSET T /\ x \in S
    BY <1>1, <2>3, <2>5
  <2> HIDE DEF B, Image
  <2>9. G[Image(s)] = w[g[x]] + G[Image(s) \ {g[x]}]
    BY <1>3, <2>8
  <2>10. F[s] = v[x] + F[s \ {x}]
    BY <1>2, <2>3, <2>5
  <2> QED
    BY <2>3, <2>6, <2>7, <2>8, <2>9, <2>10
<1>5. Image(S) = T
  BY <1>1
<1> QED
  BY <1>4, <1>5

-----------------------------------------------------------------------------
(* Tallies.                                                                *)

Fibre(S, f, v) == {s \in S : f[s] = v}

LEMMA TallyFibres ==
    ASSUME NEW S, IsFiniteSet(S), NEW f, NEW T, IsFiniteSet(T), NEW h
    PROVE  Tally(S, f) = Tally(T, h)
             <=> \A v : Cardinality(Fibre(S, f, v)) = Cardinality(Fibre(T, h, v))
<1> DEFINE V == {f[s] : s \in S}
<1> DEFINE W == {h[t] : t \in T}
<1>1. /\ Tally(S, f) = [v \in V |-> Cardinality(Fibre(S, f, v))]
      /\ Tally(T, h) = [v \in W |-> Cardinality(Fibre(T, h, v))]
  BY DEF Tally, Fibre
<1>2. ASSUME NEW v
      PROVE  /\ IsFiniteSet(Fibre(S, f, v)) /\ IsFiniteSet(Fibre(T, h, v))
             /\ v \in V <=> Fibre(S, f, v) # {}
             /\ v \in W <=> Fibre(T, h, v) # {}
  <2>1. Fibre(S, f, v) \in SUBSET S /\ Fibre(T, h, v) \in SUBSET T
    BY DEF Fibre
  <2>2. v \in V <=> Fibre(S, f, v) # {}
    BY DEF Fibre
  <2>3. v \in W <=> Fibre(T, h, v) # {}
    BY DEF Fibre
  <2> QED
    BY <2>1, <2>2, <2>3, FS_Subset
<1>3. ASSUME NEW v
      PROVE  /\ v \in V <=> Cardinality(Fibre(S, f, v)) # 0
             /\ v \in W <=> Cardinality(Fibre(T, h, v)) # 0
  <2> HIDE DEF V, W
  <2> QED
    BY <1>2, FS_EmptySet
<1> HIDE DEF V, W
<1>4. ASSUME Tally(S, f) = Tally(T, h), NEW v
      PROVE  Cardinality(Fibre(S, f, v)) = Cardinality(Fibre(T, h, v))
  <2>1. V = W
    BY <1>1, <1>4
  <2>2. CASE v \in V
    BY <1>1, <1>4, <2>1, <2>2
  <2>3. CASE v \notin V
    BY <1>3, <2>1, <2>3
  <2> QED
    BY <2>2, <2>3
<1>5. ASSUME \A v : Cardinality(Fibre(S, f, v)) = Cardinality(Fibre(T, h, v))
      PROVE  Tally(S, f) = Tally(T, h)
  <2>1. V = W
    BY <1>3, <1>5
  <2> QED
    BY <1>1, <1>5, <2>1
<1> QED
  BY <1>4, <1>5

\* Equal tallies pair elements with equal values.
LEMMA TallyPairs ==
    ASSUME NEW S, IsFiniteSet(S), NEW f, NEW T, IsFiniteSet(T), NEW h, Tally(S, f) = Tally(T, h)
    PROVE  \E g : Pairing(g, S, T) /\ \A s \in S : h[g[s]] = f[s]
<1> DEFINE Part(v) == CHOOSE p : Pairing(p, Fibre(S, f, v), Fibre(T, h, v))
<1>1. ASSUME NEW v PROVE Pairing(Part(v), Fibre(S, f, v), Fibre(T, h, v))
  <2>1. Fibre(S, f, v) \in SUBSET S /\ Fibre(T, h, v) \in SUBSET T
    BY DEF Fibre
  <2>2. IsFiniteSet(Fibre(S, f, v)) /\ IsFiniteSet(Fibre(T, h, v))
    BY <2>1, FS_Subset
  <2>3. Cardinality(Fibre(S, f, v)) = Cardinality(Fibre(T, h, v))
    BY TallyFibres
  <2>4. ExistsBijection(Fibre(S, f, v), Fibre(T, h, v))
    BY <2>2, <2>3, FS_SameCardinalityBij
  <2>5. PICK p : p \in Bijection(Fibre(S, f, v), Fibre(T, h, v))
    BY <2>4 DEF ExistsBijection
  <2>6. Pairing(p, Fibre(S, f, v), Fibre(T, h, v))
    BY <2>5, Fun_BijectionProperties DEF Pairing
  <2> QED
    BY <2>6
<1> HIDE DEF Part
<1>2. ASSUME NEW v
      PROVE  /\ \A s \in S : f[s] = v => Part(v)[s] \in T /\ h[Part(v)[s]] = v
             /\ \A s, t \in S : f[s] = v /\ f[t] = v /\ Part(v)[s] = Part(v)[t] => s = t
             /\ \A t \in T : h[t] = v => \E s \in S : f[s] = v /\ Part(v)[s] = t
  <2>1. PICK p : p = Part(v)
    OBVIOUS
  <2>2. /\ p \in [Fibre(S, f, v) -> Fibre(T, h, v)]
        /\ \A s, t \in Fibre(S, f, v) : p[s] = p[t] => s = t
        /\ \A t \in Fibre(T, h, v) : \E s \in Fibre(S, f, v) : p[s] = t
    BY <1>1, <2>1 DEF Pairing
  <2>3. /\ \A s : s \in Fibre(S, f, v) <=> s \in S /\ f[s] = v
        /\ \A t : t \in Fibre(T, h, v) <=> t \in T /\ h[t] = v
    BY DEF Fibre
  <2>4. \A s \in Fibre(S, f, v) : p[s] \in Fibre(T, h, v)
    BY <2>2
  <2> QED
    BY <2>1, <2>2, <2>3, <2>4
<1> DEFINE g == [s \in S |-> Part(f[s])[s]]
<1>3. \A s \in S : g[s] = Part(f[s])[s]
  OBVIOUS
<1>4. DOMAIN g = S /\ g = [s \in S |-> g[s]]
  OBVIOUS
<1> HIDE DEF g
<1>5. \A s \in S : g[s] \in T /\ h[g[s]] = f[s]
  BY <1>2, <1>3
<1>6. g \in [S -> T]
  BY <1>4, <1>5
<1>7. ASSUME NEW s \in S, NEW t \in S, g[s] = g[t] PROVE s = t
  <2>1. f[s] = f[t]
    BY <1>5, <1>7
  <2>2. Part(f[s])[s] = Part(f[s])[t]
    BY <1>3, <1>7, <2>1
  <2> QED
    BY <1>2, <2>1, <2>2
<1>8. ASSUME NEW t \in T PROVE \E s \in S : g[s] = t
  <2>1. PICK s \in S : f[s] = h[t] /\ Part(h[t])[s] = t
    BY <1>2
  <2> QED
    BY <1>3, <2>1
<1>9. Pairing(g, S, T)
  BY <1>6, <1>7, <1>8 DEF Pairing
<1> QED
  BY <1>5, <1>9

\* And elements paired with equal values have equal tallies.
LEMMA PairsTally ==
    ASSUME NEW S, IsFiniteSet(S), NEW f, NEW T, IsFiniteSet(T), NEW h,
           NEW g, Pairing(g, S, T), \A s \in S : h[g[s]] = f[s]
    PROVE  Tally(S, f) = Tally(T, h)
<1>1. /\ g \in [S -> T]
      /\ \A s, t \in S : g[s] = g[t] => s = t
      /\ \A t \in T : \E s \in S : g[s] = t
  BY DEF Pairing
<1>2. ASSUME NEW v PROVE Cardinality(Fibre(S, f, v)) = Cardinality(Fibre(T, h, v))
  <2> DEFINE p == [s \in Fibre(S, f, v) |-> g[s]]
  <2>1. p \in [Fibre(S, f, v) -> Fibre(T, h, v)]
    BY <1>1 DEF Fibre
  <2>2. \A s, t \in Fibre(S, f, v) : p[s] = p[t] => s = t
    BY <1>1 DEF Fibre
  <2>3. \A t \in Fibre(T, h, v) : \E s \in Fibre(S, f, v) : p[s] = t
    BY <1>1 DEF Fibre
  <2> HIDE DEF p
  <2>4. p \in Bijection(Fibre(S, f, v), Fibre(T, h, v))
    BY <2>1, <2>2, <2>3, Fun_IsBij
  <2>5. Fibre(S, f, v) \in SUBSET S
    BY DEF Fibre
  <2>6. IsFiniteSet(Fibre(S, f, v))
    BY <2>5, FS_Subset
  <2> QED
    BY <2>4, <2>6, FS_Bijection DEF ExistsBijection
<1> QED
  BY <1>2, TallyFibres

-----------------------------------------------------------------------------
(* What a scan keeps of a dataset.                                         *)

LEMMA DatasetFiles ==
    ASSUME NEW d \in Datasets
    PROVE  /\ IsFiniteSet(FileNames(d)) /\ FileNames(d) \subseteq Names
           /\ \A n \in FileNames(d) : d[n] \in Contents
<1>1. FileNames(d) \in SUBSET Names
  BY DEF FileNames
<1>2. IsFiniteSet(FileNames(d))
  BY <1>1, NamesAssumption, FS_Subset
<1> QED
  BY <1>1, <1>2 DEF FileNames, Datasets

LEMMA ContentGroups ==
    ASSUME NEW f \in Contents
    PROVE  /\ Len(f.groups) \in Nat /\ DOMAIN f.groups = 1..Len(f.groups)
           /\ IsFiniteSet(DOMAIN f.groups)
           /\ \A i \in DOMAIN f.groups : f.groups[i].columns \in Seq(Chunk)
           /\ f.size \in Nat /\ f.rows \in Nat \cup {Unknown}
<1>1. f.groups \in Seq(RowGroup) /\ f.size \in Nat /\ f.rows \in Nat \cup {Unknown}
  BY ContentsAssumption
<1>2. Len(f.groups) \in Nat /\ DOMAIN f.groups = 1..Len(f.groups)
  BY <1>1
<1>3. IsFiniteSet(DOMAIN f.groups)
  BY <1>2, FS_Interval
<1>4. \A i \in DOMAIN f.groups : f.groups[i] \in RowGroup
  BY <1>1
<1> QED
  BY <1>1, <1>2, <1>3, <1>4 DEF RowGroup

RowsTable(F, d) ==
    F = [s \in SUBSET FileNames(d) |->
           IF s = {} THEN 0 ELSE d[CHOOSE x \in s : TRUE].rows + F[s \ {CHOOSE x \in s : TRUE}]]

LEMMA TotalRowsSum ==
    ASSUME NEW d \in Datasets, \A n \in FileNames(d) : d[n].rows # Unknown
    PROVE  \E F : /\ IsTable(F, [n \in FileNames(d) |-> d[n].rows], FileNames(d))
                  /\ TotalRows(d) = F[FileNames(d)]
<1> DEFINE v == [n \in FileNames(d) |-> d[n].rows]
<1>1. \A F : RowsTable(F, d) <=> IsTable(F, v, FileNames(d))
  <2>1. \A s \in SUBSET FileNames(d) : s # {} => d[CHOOSE x \in s : TRUE].rows = v[Pick(s)]
    BY DEF Pick
  <2> QED
    BY <2>1 DEF RowsTable, IsTable, Pick
<1>2. v \in [FileNames(d) -> Nat]
  BY DatasetFiles, ContentGroups
<1>3. \E F : RowsTable(F, d)
  <2> HIDE DEF v
  <2> QED
    BY <1>1, <1>2, DatasetFiles, TableExists
<1> DEFINE G == CHOOSE F : RowsTable(F, d)
<1>4. RowsTable(G, d)
  BY <1>3
<1>5. TotalRows(d) = G[FileNames(d)]
  BY DEF TotalRows, MapThenSumSet, MapThenFoldSet, RowsTable
<1> HIDE DEF G, v
<1> QED
  BY <1>1, <1>4, <1>5 DEF v

LEMMA UnionFinite ==
    ASSUME NEW S, IsFiniteSet(S), NEW P, \A x \in S : IsFiniteSet(P[x])
    PROVE  IsFiniteSet(UNION {P[x] : x \in S})
<1> DEFINE T == {P[x] : x \in S}
<1> DEFINE f == [x \in S |-> P[x]]
<1>1. f \in [S -> T] /\ \A t \in T : \E x \in S : f[x] = t
  OBVIOUS
<1>2. \A t \in T : IsFiniteSet(t)
  OBVIOUS
<1> HIDE DEF f, T
<1>3. f \in Surjection(S, T)
  BY <1>1, Fun_IsSurj
<1>4. IsFiniteSet(T)
  BY <1>3, FS_Surjection
<1>5. IsFiniteSet(UNION T)
  BY <1>2, <1>4, FS_UNION
<1> QED
  BY <1>5 DEF T

\* The chunks of a file: position of the row group, and in it.
ChunksOf(f) == UNION {{i} \X DOMAIN f.groups[i].columns : i \in DOMAIN f.groups}

BytesTable(F, f) ==
    F = [s \in SUBSET ChunksOf(f) |->
           IF s = {} THEN 0
           ELSE f.groups[(CHOOSE x \in s : TRUE)[1]].columns[(CHOOSE x \in s : TRUE)[2]].compressed
                  + F[s \ {CHOOSE x \in s : TRUE}]]

LEMMA ContentChunks ==
    ASSUME NEW f \in Contents
    PROVE  /\ IsFiniteSet(ChunksOf(f))
           /\ \A c \in ChunksOf(f) : f.groups[c[1]].columns[c[2]] \in Chunk
           /\ \A i \in DOMAIN f.groups : IsFiniteSet(DOMAIN f.groups[i].columns)
<1>1. ASSUME NEW i \in DOMAIN f.groups
      PROVE  /\ IsFiniteSet(DOMAIN f.groups[i].columns)
             /\ \A k \in DOMAIN f.groups[i].columns : f.groups[i].columns[k] \in Chunk
  <2>1. PICK x : x = f.groups[i].columns /\ x \in Seq(Chunk)
    BY ContentGroups
  <2>2. Len(x) \in Nat /\ DOMAIN x = 1..Len(x) /\ \A k \in 1..Len(x) : x[k] \in Chunk
    BY <2>1
  <2>3. IsFiniteSet(DOMAIN x)
    BY <2>2, FS_Interval
  <2> QED
    BY <2>1, <2>2, <2>3
<1> DEFINE P == [i \in DOMAIN f.groups |-> {i} \X DOMAIN f.groups[i].columns]
<1>2. \A i \in DOMAIN f.groups : IsFiniteSet(P[i])
  BY <1>1, FS_Singleton, FS_Product
<1>3. ChunksOf(f) = UNION {P[i] : i \in DOMAIN f.groups}
  BY DEF ChunksOf
<1>4. IsFiniteSet(DOMAIN f.groups)
  BY ContentGroups
<1> HIDE DEF P
<1>5. IsFiniteSet(ChunksOf(f))
  BY <1>2, <1>3, <1>4, UnionFinite
<1>6. ASSUME NEW c \in ChunksOf(f) PROVE f.groups[c[1]].columns[c[2]] \in Chunk
  <2>1. PICK i \in DOMAIN f.groups : c \in {i} \X DOMAIN f.groups[i].columns
    BY DEF ChunksOf
  <2>2. c[1] = i /\ c[2] \in DOMAIN f.groups[i].columns
    BY <2>1
  <2> QED
    BY <1>1, <2>2
<1> QED
  BY <1>1, <1>5, <1>6

LEMMA ScanBytesNat ==
    ASSUME NEW f \in Contents
    PROVE  ScanBytes(f) \in Nat
<1> DEFINE S == ChunksOf(f)
<1> DEFINE v == [c \in S |-> f.groups[c[1]].columns[c[2]].compressed]
<1>1. \A F : BytesTable(F, f) <=> IsTable(F, v, S)
  <2>1. \A s \in SUBSET S : s # {} =>
           f.groups[(CHOOSE x \in s : TRUE)[1]].columns[(CHOOSE x \in s : TRUE)[2]].compressed = v[Pick(s)]
    BY DEF Pick
  <2> QED
    BY <2>1 DEF BytesTable, IsTable, Pick
<1>2. v \in [S -> Nat] /\ IsFiniteSet(S)
  BY ContentChunks DEF Chunk
<1>3. \E F : BytesTable(F, f)
  <2> HIDE DEF v, S
  <2> QED
    BY <1>1, <1>2, TableExists
<1> DEFINE G == CHOOSE F : BytesTable(F, f)
<1>4. BytesTable(G, f)
  BY <1>3
<1>5. ScanBytes(f) = IF G[S] = 0 THEN f.size ELSE G[S]
  BY DEF ScanBytes, MapThenSumSet, MapThenFoldSet, BytesTable, ChunksOf
<1> HIDE DEF G, v, S
<1>6. IsTable(G, v, S)
  BY <1>1, <1>4
<1>7. G[S] \in Nat
  BY <1>2, <1>6, TableValues
<1> QED
  BY <1>5, <1>7, ContentGroups

ScanTable(F, d) ==
    F = [s \in SUBSET FileNames(d) |->
           IF s = {} THEN 0
           ELSE ScanBytes(d[CHOOSE x \in s : TRUE]) + F[s \ {CHOOSE x \in s : TRUE}]]

LEMMA EstimateSum ==
    ASSUME NEW d \in Datasets
    PROVE  \E F : /\ IsTable(F, [n \in FileNames(d) |-> ScanBytes(d[n])], FileNames(d))
                  /\ EstimatedScanBytes(d) = F[FileNames(d)]
<1> DEFINE v == [n \in FileNames(d) |-> ScanBytes(d[n])]
<1>1. \A F : ScanTable(F, d) <=> IsTable(F, v, FileNames(d))
  <2>1. \A s \in SUBSET FileNames(d) : s # {} => ScanBytes(d[CHOOSE x \in s : TRUE]) = v[Pick(s)]
    BY DEF Pick
  <2> QED
    BY <2>1 DEF ScanTable, IsTable, Pick
<1>2. v \in [FileNames(d) -> Nat]
  BY DatasetFiles, ScanBytesNat
<1>3. \E F : ScanTable(F, d)
  <2> HIDE DEF v
  <2> QED
    BY <1>1, <1>2, DatasetFiles, TableExists
<1> DEFINE G == CHOOSE F : ScanTable(F, d)
<1>4. ScanTable(G, d)
  BY <1>3
<1>5. EstimatedScanBytes(d) = G[FileNames(d)]
  BY DEF EstimatedScanBytes, MapThenSumSet, MapThenFoldSet, ScanTable
<1> HIDE DEF G, v
<1> QED
  BY <1>1, <1>4, <1>5 DEF v

LEMMA GroupIdsFinite ==
    ASSUME NEW d \in Datasets
    PROVE  IsFiniteSet(GroupIds(d))
<1> DEFINE P == [n \in FileNames(d) |-> {n} \X DOMAIN d[n].groups]
<1>1. GroupIds(d) = UNION {P[n] : n \in FileNames(d)}
  BY DEF GroupIds
<1>2. \A n \in FileNames(d) : IsFiniteSet(P[n])
  BY DatasetFiles, ContentGroups, FS_Singleton, FS_Product
<1> HIDE DEF P
<1> QED
  BY <1>1, <1>2, DatasetFiles, UnionFinite

LEMMA GroupIdsOf ==
    ASSUME NEW d, NEW id
    PROVE  id \in GroupIds(d) <=>
             /\ id = <<id[1], id[2]>>
             /\ id[1] \in FileNames(d) /\ id[2] \in DOMAIN d[id[1]].groups
BY DEF GroupIds

LEMMA ChunkIdsOf ==
    ASSUME NEW d, NEW c
    PROVE  c \in ChunkIds(d) <=>
             /\ c = <<c[1], c[2]>>
             /\ c[1] \in GroupIds(d) /\ c[2] \in DOMAIN Group(d, c[1]).columns
BY DEF ChunkIds

LEMMA GroupColumns ==
    ASSUME NEW d \in Datasets, NEW id \in GroupIds(d)
    PROVE  Group(d, id).columns \in Seq(Chunk)
<1>1. id[1] \in FileNames(d) /\ id[2] \in DOMAIN d[id[1]].groups
  BY GroupIdsOf
<1> QED
  BY <1>1, DatasetFiles, ContentGroups DEF Group

LEMMA ChunkIdsFinite ==
    ASSUME NEW d \in Datasets
    PROVE  IsFiniteSet(ChunkIds(d))
<1> DEFINE P == [id \in GroupIds(d) |-> {id} \X DOMAIN Group(d, id).columns]
<1>1. ChunkIds(d) = UNION {P[id] : id \in GroupIds(d)}
  BY DEF ChunkIds
<1>2. ASSUME NEW id \in GroupIds(d) PROVE IsFiniteSet(P[id])
  <2>1. IsFiniteSet(DOMAIN Group(d, id).columns)
    BY GroupColumns, FS_Interval
  <2> QED
    BY <2>1, FS_Singleton, FS_Product
<1> HIDE DEF P
<1> QED
  BY <1>1, <1>2, GroupIdsFinite, UnionFinite

-----------------------------------------------------------------------------
(* Renamed files.                                                          *)

\* g takes each file of a to one of b with the same content.
Renaming(g, a, b) ==
    Pairing(g, FileNames(a), FileNames(b)) /\ \A n \in FileNames(a) : b[g[n]] = a[n]

\* What h then does to the row groups.
GroupRenaming(h, a, b) ==
    /\ Pairing(h, GroupIds(a), GroupIds(b))
    /\ \A id \in GroupIds(a) : Group(b, h[id]) = Group(a, id)

LEMMA GroupsRenamed ==
    ASSUME NEW a, NEW b, NEW g, Renaming(g, a, b)
    PROVE  \E h : GroupRenaming(h, a, b)
<1>1. /\ g \in [FileNames(a) -> FileNames(b)]
      /\ \A s, t \in FileNames(a) : g[s] = g[t] => s = t
      /\ \A t \in FileNames(b) : \E s \in FileNames(a) : g[s] = t
      /\ \A n \in FileNames(a) : b[g[n]] = a[n]
  BY DEF Renaming, Pairing
<1> DEFINE h == [id \in GroupIds(a) |-> <<g[id[1]], id[2]>>]
<1>2. \A id \in GroupIds(a) : /\ h[id] = <<g[id[1]], id[2]>>
                              /\ h[id][1] = g[id[1]] /\ h[id][2] = id[2]
                              /\ id[1] \in FileNames(a) /\ b[g[id[1]]] = a[id[1]]
                              /\ id[2] \in DOMAIN a[id[1]].groups
                              /\ id = <<id[1], id[2]>>
  BY <1>1, GroupIdsOf
<1>3. DOMAIN h = GroupIds(a) /\ h = [id \in GroupIds(a) |-> h[id]]
  OBVIOUS
<1> HIDE DEF h
<1>4. ASSUME NEW id \in GroupIds(a) PROVE h[id] \in GroupIds(b)
  <2>1. h[id] = <<h[id][1], h[id][2]>> /\ h[id][1] \in FileNames(b)
    BY <1>1, <1>2
  <2>2. h[id][2] \in DOMAIN b[h[id][1]].groups
    BY <1>2
  <2> QED
    BY <2>1, <2>2, GroupIdsOf
<1>5. h \in [GroupIds(a) -> GroupIds(b)]
  BY <1>3, <1>4
<1>6. ASSUME NEW s \in GroupIds(a), NEW t \in GroupIds(a), h[s] = h[t] PROVE s = t
  <2>1. g[s[1]] = g[t[1]] /\ s[2] = t[2]
    BY <1>2, <1>6
  <2>2. s[1] = t[1]
    BY <1>1, <1>2, <2>1
  <2> QED
    BY <1>2, <2>1, <2>2
<1>7. ASSUME NEW t \in GroupIds(b) PROVE \E s \in GroupIds(a) : h[s] = t
  <2>1. t = <<t[1], t[2]>> /\ t[1] \in FileNames(b) /\ t[2] \in DOMAIN b[t[1]].groups
    BY GroupIdsOf
  <2>2. PICK n \in FileNames(a) : g[n] = t[1]
    BY <1>1, <2>1
  <2> DEFINE s == <<n, t[2]>>
  <2>3. s[1] = n /\ s[2] = t[2] /\ s = <<s[1], s[2]>>
    OBVIOUS
  <2> HIDE DEF s
  <2>4. s \in GroupIds(a)
    BY <1>1, <2>1, <2>2, <2>3, GroupIdsOf
  <2>5. h[s] = t
    BY <1>2, <2>1, <2>2, <2>3, <2>4
  <2> QED
    BY <2>4, <2>5
<1>8. ASSUME NEW id \in GroupIds(a)
      PROVE  Group(b, h[id]) = Group(a, id)
  BY <1>2 DEF Group
<1>9. GroupRenaming(h, a, b)
  BY <1>5, <1>6, <1>7, <1>8 DEF GroupRenaming, Pairing
<1> QED
  BY <1>9

\* And to their chunks.
ChunkRenaming(k, a, b) ==
    /\ Pairing(k, ChunkIds(a), ChunkIds(b))
    /\ \A c \in ChunkIds(a) : ChunkAt(b, k[c]) = ChunkAt(a, c)

LEMMA ChunksRenamed ==
    ASSUME NEW a, NEW b, NEW h, GroupRenaming(h, a, b)
    PROVE  \E k : ChunkRenaming(k, a, b)
<1>1. /\ h \in [GroupIds(a) -> GroupIds(b)]
      /\ \A s, t \in GroupIds(a) : h[s] = h[t] => s = t
      /\ \A t \in GroupIds(b) : \E s \in GroupIds(a) : h[s] = t
      /\ \A id \in GroupIds(a) : Group(b, h[id]) = Group(a, id)
  BY DEF GroupRenaming, Pairing
<1> DEFINE k == [c \in ChunkIds(a) |-> <<h[c[1]], c[2]>>]
<1>2. \A c \in ChunkIds(a) : /\ k[c] = <<h[c[1]], c[2]>>
                              /\ k[c][1] = h[c[1]] /\ k[c][2] = c[2]
                              /\ c[1] \in GroupIds(a) /\ Group(b, h[c[1]]) = Group(a, c[1])
                              /\ c[2] \in DOMAIN Group(a, c[1]).columns
                              /\ c = <<c[1], c[2]>>
  BY <1>1, ChunkIdsOf
<1>3. DOMAIN k = ChunkIds(a) /\ k = [c \in ChunkIds(a) |-> k[c]]
  OBVIOUS
<1> HIDE DEF k
<1>4. ASSUME NEW c \in ChunkIds(a) PROVE k[c] \in ChunkIds(b)
  <2>1. k[c] = <<k[c][1], k[c][2]>> /\ k[c][1] \in GroupIds(b)
    BY <1>1, <1>2
  <2>2. k[c][2] \in DOMAIN Group(b, k[c][1]).columns
    BY <1>2
  <2> QED
    BY <2>1, <2>2, ChunkIdsOf
<1>5. k \in [ChunkIds(a) -> ChunkIds(b)]
  BY <1>3, <1>4
<1>6. ASSUME NEW s \in ChunkIds(a), NEW t \in ChunkIds(a), k[s] = k[t] PROVE s = t
  <2>1. h[s[1]] = h[t[1]] /\ s[2] = t[2]
    BY <1>2, <1>6
  <2>2. s[1] = t[1]
    BY <1>1, <1>2, <2>1
  <2> QED
    BY <1>2, <2>1, <2>2
<1>7. ASSUME NEW t \in ChunkIds(b) PROVE \E s \in ChunkIds(a) : k[s] = t
  <2>1. t = <<t[1], t[2]>> /\ t[1] \in GroupIds(b) /\ t[2] \in DOMAIN Group(b, t[1]).columns
    BY ChunkIdsOf
  <2>2. PICK id \in GroupIds(a) : h[id] = t[1]
    BY <1>1, <2>1
  <2> DEFINE s == <<id, t[2]>>
  <2>3. s[1] = id /\ s[2] = t[2] /\ s = <<s[1], s[2]>>
    OBVIOUS
  <2> HIDE DEF s
  <2>4. s \in ChunkIds(a)
    BY <1>1, <2>1, <2>2, <2>3, ChunkIdsOf
  <2>5. k[s] = t
    BY <1>2, <2>1, <2>2, <2>3, <2>4
  <2> QED
    BY <2>4, <2>5
<1>8. ASSUME NEW c \in ChunkIds(a) PROVE ChunkAt(b, k[c]) = ChunkAt(a, c)
  BY <1>2 DEF ChunkAt
<1>9. ChunkRenaming(k, a, b)
  BY <1>5, <1>6, <1>7, <1>8 DEF ChunkRenaming, Pairing
<1> QED
  BY <1>9

LEMMA SchemasRenamed ==
    ASSUME NEW a, NEW b, NEW g, Renaming(g, a, b)
    PROVE  SchemaVariants(a) = SchemaVariants(b)
BY DEF Renaming, Pairing, SchemaVariants

LEMMA MirroredMetadata ==
    ASSUME NEW d \in Datasets, Mirrored(d)
    PROVE  MergedMetadata(d) = UNION {d[n].kv : n \in FileNames(d)}
<1> DEFINE All == UNION {d[n].kv : n \in FileNames(d)}
<1>1. ASSUME HasSchema(d) PROVE FirstSchema(d).schema_kv \subseteq All
  <2>1. WithSchema(d) # {} /\ WithSchema(d) \subseteq Nat
    BY <1>1, DatasetFiles, NamesAssumption DEF HasSchema, WithSchema
  <2>2. PICK n \in WithSchema(d) : \A m \in WithSchema(d) : n <= m
    BY <2>1, LeastElement
  <2>3. Min(WithSchema(d)) \in WithSchema(d)
    BY <2>2 DEF Min
  <2>4. Min(WithSchema(d)) \in FileNames(d)
    BY <2>3 DEF WithSchema
  <2> QED
    BY <2>4 DEF FirstSchema, Mirrored
<1> QED
  BY <1>1 DEF MergedMetadata

LEMMA MetadataRenamed ==
    ASSUME NEW a \in Datasets, NEW b \in Datasets, Mirrored(a), Mirrored(b),
           NEW g, Renaming(g, a, b)
    PROVE  MergedMetadata(a) = MergedMetadata(b)
<1>1. {a[n].kv : n \in FileNames(a)} = {b[n].kv : n \in FileNames(b)}
  BY DEF Renaming, Pairing
<1> QED
  BY <1>1, MirroredMetadata

LEMMA EvidenceRenamed ==
    ASSUME NEW a \in Datasets, NEW b \in Datasets, NEW k, ChunkRenaming(k, a, b), NEW column
    PROVE  ColumnEvidence(a, column) = ColumnEvidence(b, column)
<1> DEFINE S == {c \in ChunkIds(a) : ChunkAt(a, c).path = column}
<1> DEFINE T == {c \in ChunkIds(b) : ChunkAt(b, c).path = column}
<1> DEFINE f == [c \in S |-> <<ChunkAt(a, c).values, ChunkAt(a, c).stats>>]
<1> DEFINE e == [c \in T |-> <<ChunkAt(b, c).values, ChunkAt(b, c).stats>>]
<1> DEFINE p == [c \in S |-> k[c]]
<1>1. /\ k \in [ChunkIds(a) -> ChunkIds(b)]
      /\ \A s, t \in ChunkIds(a) : k[s] = k[t] => s = t
      /\ \A t \in ChunkIds(b) : \E s \in ChunkIds(a) : k[s] = t
      /\ \A c \in ChunkIds(a) : ChunkAt(b, k[c]) = ChunkAt(a, c)
  BY DEF ChunkRenaming, Pairing
<1>2. IsFiniteSet(S) /\ IsFiniteSet(T)
  <2>1. S \in SUBSET ChunkIds(a) /\ T \in SUBSET ChunkIds(b)
    OBVIOUS
  <2> HIDE DEF S, T
  <2> QED
    BY <2>1, ChunkIdsFinite, FS_Subset
<1>3. /\ \A c \in S : c \in ChunkIds(a) /\ k[c] \in T /\ p[c] = k[c]
      /\ \A t \in T : \E s \in S : k[s] = t
  BY <1>1
<1>4. p \in [S -> T]
  BY <1>3
<1>5. \A c \in S : e[p[c]] = f[c]
  BY <1>1, <1>3
<1>6. ColumnEvidence(a, column) = Tally(S, f) /\ ColumnEvidence(b, column) = Tally(T, e)
  BY DEF ColumnEvidence
<1> HIDE DEF S, T, f, e, p
<1>7. Pairing(p, S, T)
  BY <1>1, <1>3, <1>4 DEF Pairing
<1> QED
  BY <1>2, <1>5, <1>6, <1>7, PairsTally

LEMMA StatisticsRenamed ==
    ASSUME NEW a \in Datasets, NEW b \in Datasets,
           NEW g, Renaming(g, a, b), NEW h, GroupRenaming(h, a, b),
           NEW k, ChunkRenaming(k, a, b)
    PROVE  ~StatisticsChanged(a, b)
<1> DEFINE S == FileNames(a)
<1> DEFINE T == FileNames(b)
<1>1. /\ g \in [S -> T] /\ Pairing(g, S, T)
      /\ \A s, t \in S : g[s] = g[t] => s = t
      /\ \A t \in T : \E s \in S : g[s] = t
      /\ \A n \in S : b[g[n]] = a[n]
  BY DEF Renaming, Pairing
<1>2. /\ h \in [GroupIds(a) -> GroupIds(b)] /\ Pairing(h, GroupIds(a), GroupIds(b))
      /\ \A t \in GroupIds(b) : \E s \in GroupIds(a) : h[s] = t
      /\ \A id \in GroupIds(a) : Group(b, h[id]) = Group(a, id)
  BY DEF GroupRenaming, Pairing
<1>3. IsFiniteSet(S) /\ IsFiniteSet(T)
  BY DatasetFiles
<1>4. Cardinality(S) = Cardinality(T)
  <2> HIDE DEF S, T
  <2>1. g \in Bijection(S, T)
    BY <1>1, Fun_IsBij
  <2> QED
    BY <1>3, <2>1, FS_Bijection DEF ExistsBijection
<1>5. TotalRows(a) = TotalRows(b)
  <2>1. CASE \E n \in S : a[n].rows = Unknown
    <3>1. \E n \in T : b[n].rows = Unknown
      BY <1>1, <2>1
    <3> QED
      BY <2>1, <3>1 DEF TotalRows
  <2>2. CASE \A n \in S : a[n].rows # Unknown
    <3> DEFINE v == [n \in S |-> a[n].rows]
    <3> DEFINE w == [n \in T |-> b[n].rows]
    <3>1. \A n \in T : b[n].rows # Unknown
      BY <1>1, <2>2
    <3>2. PICK F : IsTable(F, v, S) /\ TotalRows(a) = F[S]
      BY <2>2, TotalRowsSum
    <3>3. PICK G : IsTable(G, w, T) /\ TotalRows(b) = G[T]
      BY <3>1, TotalRowsSum
    <3>4. v \in [S -> Nat] /\ w \in [T -> Nat]
      BY <2>2, <3>1, DatasetFiles, ContentGroups
    <3>5. \A n \in S : w[g[n]] = v[n]
      BY <1>1
    <3> HIDE DEF v, w, S, T
    <3> QED
      BY <1>1, <1>3, <3>2, <3>3, <3>4, <3>5, TablesAgree
  <2> QED
    BY <2>1, <2>2
<1>6. RowGroupSignatures(a) = RowGroupSignatures(b)
  <2> DEFINE f == [id \in GroupIds(a) |->
                     <<Group(a, id).rows, Group(a, id).bytes, ValueCounts(Group(a, id))>>]
  <2> DEFINE e == [id \in GroupIds(b) |->
                     <<Group(b, id).rows, Group(b, id).bytes, ValueCounts(Group(b, id))>>]
  <2>1. \A id \in GroupIds(a) : e[h[id]] = f[id]
    BY <1>2
  <2>2. RowGroupSignatures(a) = Tally(GroupIds(a), f) /\ RowGroupSignatures(b) = Tally(GroupIds(b), e)
    BY DEF RowGroupSignatures
  <2> HIDE DEF f, e
  <2> QED
    BY <1>2, <2>1, <2>2, GroupIdsFinite, PairsTally
<1>7. CompressionValues(a) = CompressionValues(b)
  BY DEF CompressionValues, ChunkRenaming, Pairing
<1>8. EstimatedScanBytes(a) = EstimatedScanBytes(b)
  <2> DEFINE v == [n \in S |-> ScanBytes(a[n])]
  <2> DEFINE w == [n \in T |-> ScanBytes(b[n])]
  <2>1. PICK F : IsTable(F, v, S) /\ EstimatedScanBytes(a) = F[S]
    BY EstimateSum
  <2>2. PICK G : IsTable(G, w, T) /\ EstimatedScanBytes(b) = G[T]
    BY EstimateSum
  <2>3. v \in [S -> Nat] /\ w \in [T -> Nat]
    BY DatasetFiles, ScanBytesNat
  <2>4. \A n \in S : w[g[n]] = v[n]
    BY <1>1
  <2> HIDE DEF v, w, S, T
  <2> QED
    BY <1>1, <1>3, <2>1, <2>2, <2>3, <2>4, TablesAgree
<1> QED
  BY <1>4, <1>5, <1>6, <1>7, <1>8 DEF StatisticsChanged

\* Datasets with the same files under whatever names do not differ.
THEOREM RenamedFilesAreNoChange ==
    ASSUME NEW a \in Datasets, NEW b \in Datasets, Mirrored(a), Mirrored(b),
           FilesTally(a) = FilesTally(b)
    PROVE  ~HasChanges(a, b)
<1>1. PICK g : Renaming(g, a, b)
  <2>1. IsFiniteSet(FileNames(a)) /\ IsFiniteSet(FileNames(b))
    BY DatasetFiles
  <2> QED
    BY <2>1, TallyPairs DEF FilesTally, Renaming
<1>2. PICK h : GroupRenaming(h, a, b)
  BY <1>1, GroupsRenamed
<1> PICK k : ChunkRenaming(k, a, b)
  BY <1>2, ChunksRenamed
<1>3. ~SchemaChanged(a, b)
  BY <1>1, SchemasRenamed DEF SchemaChanged
<1>4. ColumnsChanged(a, b) = {}
  BY EvidenceRenamed DEF ColumnsChanged
<1>5. ~MetadataChanged(a, b)
  BY <1>1, MetadataRenamed DEF MetadataChanged
<1>6. ~StatisticsChanged(a, b)
  BY <1>1, <1>2, StatisticsRenamed
<1> QED
  BY <1>3, <1>4, <1>5, <1>6 DEF HasChanges

-----------------------------------------------------------------------------
\* Edits keep datasets datasets.
Typed == old \in Datasets /\ new \in Datasets

LEMMA DatasetsStayTyped == Spec => []Typed
<1>1. Init => Typed
  BY DEF Init, Typed
<1>2. Typed /\ [Next]_vars => Typed'
  <2> SUFFICES ASSUME old \in Datasets, new \in Datasets, [Next]_vars
               PROVE  old' \in Datasets /\ new' \in Datasets
    BY DEF Typed
  <2>1. CASE Edit
    BY <2>1 DEF Edit, Datasets
  <2>2. CASE ~Edit
    BY <2>2 DEF Next, vars, ScanFails, ScanOld, ScanNew, Compare, CompareAgain, Exit
  <2> QED
    BY <2>1, <2>2
<1> QED
  BY <1>1, <1>2, PTL DEF Spec

\* Files that were merely renamed are no difference, however many there are, what they
\* hold and how the names are exchanged.
THEOREM RenamesUnseenCorrect == Spec => []RenamesUnseen
<1>1. Typed => RenamesUnseen
  BY RenamedFilesAreNoChange DEF RenamesUnseen, Typed
<1> QED
  BY <1>1, DatasetsStayTyped, PTL

-----------------------------------------------------------------------------
(* Nested schemas.                                                         *)

Signature(d, id) == <<Group(d, id).rows, Group(d, id).bytes, ValueCounts(Group(d, id))>>

\* Row groups with one signature have as many columns, so nested schemas the same.
LEMMA SameSchema ==
    ASSUME NEW a \in Datasets, NEW b \in Datasets, Nested(a, b),
           NEW i \in GroupIds(a), NEW j \in GroupIds(b), Signature(a, i) = Signature(b, j)
    PROVE  Paths(Group(a, i)) = Paths(Group(b, j))
<1> DEFINE x == Group(a, i).columns
<1> DEFINE y == Group(b, j).columns
<1> DEFINE s == Paths(Group(a, i))
<1> DEFINE t == Paths(Group(b, j))
<1>1. x \in Seq(Chunk) /\ y \in Seq(Chunk)
  BY GroupColumns
<1>2. /\ DOMAIN x = DOMAIN ValueCounts(Group(a, i))
      /\ DOMAIN y = DOMAIN ValueCounts(Group(b, j))
  BY DEF ValueCounts
<1>3. DOMAIN x = DOMAIN y
  BY <1>2 DEF Signature
<1>4. s = [k \in DOMAIN x |-> x[k].path] /\ t = [k \in DOMAIN y |-> y[k].path]
  BY DEF Paths
<1>5. Extends(s, t) \/ Extends(t, s)
  BY DEF Nested
<1> HIDE DEF s, t, x, y
<1>6. DOMAIN x = 1..Len(x) /\ Len(x) \in Nat /\ DOMAIN y = 1..Len(y) /\ Len(y) \in Nat
  BY <1>1
<1>7. s \in Seq(STRING) /\ t \in Seq(STRING)
  <2>1. (\A k \in 1..Len(x) : x[k] \in Chunk) /\ (\A k \in 1..Len(y) : y[k] \in Chunk)
    BY <1>1, <1>6
  <2>2. (\A k \in 1..Len(x) : x[k].path \in STRING) /\ (\A k \in 1..Len(y) : y[k].path \in STRING)
    BY <2>1 DEF Chunk
  <2> QED
    BY <1>4, <1>6, <2>2
<1>8. DOMAIN s = 1..Len(s) /\ DOMAIN t = 1..Len(t) /\ Len(s) \in Nat /\ Len(t) \in Nat
  BY <1>7
<1>9. DOMAIN s = DOMAIN t
  BY <1>3, <1>4
<1>10. Len(s) = Len(t)
  <2>1. \A m, n \in Nat : 1..m = 1..n => m = n
    <3>1. ASSUME NEW m \in Nat, NEW n \in Nat, 1..m = 1..n, m # n PROVE FALSE
      <4>1. (m < n /\ n \in 1..n) \/ (n < m /\ m \in 1..m)
        BY <3>1
      <4> QED
        BY <3>1, <4>1
    <3> QED
      BY <3>1
  <2> QED
    BY <1>8, <1>9, <2>1
<1>11. \A k \in DOMAIN s : s[k] = t[k]
  BY <1>5, <1>8, <1>10 DEF Extends
<1>12. s = [k \in DOMAIN s |-> s[k]] /\ t = [k \in DOMAIN t |-> t[k]]
  BY <1>4
<1>13. s = t
  BY <1>9, <1>11, <1>12
<1> QED
  BY <1>13 DEF s, t

\* Row groups paired with equal columns have the same columns with evidence.
LEMMA SameColumns ==
    ASSUME NEW a, NEW b, NEW i \in GroupIds(a), NEW j \in GroupIds(b),
           Paths(Group(a, i)) = Paths(Group(b, j)), NEW k \in DOMAIN Group(a, i).columns
    PROVE  Group(a, i).columns[k].path \in EvidenceColumns(b)
<1>1. DOMAIN Paths(Group(a, i)) = DOMAIN Group(a, i).columns
  BY DEF Paths
<1>2. DOMAIN Paths(Group(b, j)) = DOMAIN Group(b, j).columns
  BY DEF Paths
<1>3. k \in DOMAIN Group(b, j).columns
  BY <1>1, <1>2
<1>4. Paths(Group(a, i))[k] = Group(a, i).columns[k].path
  BY DEF Paths
<1>5. Paths(Group(b, j))[k] = Group(b, j).columns[k].path
  BY <1>3 DEF Paths
<1> DEFINE c == <<j, k>>
<1>6. c[1] = j /\ c[2] = k /\ c = <<c[1], c[2]>>
  OBVIOUS
<1> HIDE DEF c
<1>7. c \in ChunkIds(b)
  BY <1>3, <1>6, ChunkIdsOf
<1>8. ChunkAt(b, c).path = Group(a, i).columns[k].path
  BY <1>4, <1>5, <1>6 DEF ChunkAt
<1> QED
  BY <1>7, <1>8 DEF EvidenceColumns

\* If schemas only grow by appended columns, datasets without a reported change have the
\* same row groups but for statistics, and the same evidence of every column that either
\* of them has: no column escapes by being on one side only.
THEOREM NoChangeMeansSameData ==
    ASSUME NEW a \in Datasets, NEW b \in Datasets, Nested(a, b), ~HasChanges(a, b)
    PROVE  /\ Layouts(a) = Layouts(b)
           /\ \A column \in EvidenceColumns(a) \cup EvidenceColumns(b) :
                ColumnEvidence(a, column) = ColumnEvidence(b, column)
<1> DEFINE f == [id \in GroupIds(a) |-> Signature(a, id)]
<1> DEFINE e == [id \in GroupIds(b) |-> Signature(b, id)]
<1>1. ColumnsChanged(a, b) = {} /\ RowGroupSignatures(a) = RowGroupSignatures(b)
  BY DEF HasChanges, StatisticsChanged
<1>2. RowGroupSignatures(a) = Tally(GroupIds(a), f) /\ RowGroupSignatures(b) = Tally(GroupIds(b), e)
  BY DEF RowGroupSignatures, Signature
<1>3. IsFiniteSet(GroupIds(a)) /\ IsFiniteSet(GroupIds(b))
  BY GroupIdsFinite
<1>4. PICK h : Pairing(h, GroupIds(a), GroupIds(b)) /\ \A id \in GroupIds(a) : e[h[id]] = f[id]
  <2> HIDE DEF f, e
  <2>1. Tally(GroupIds(a), f) = Tally(GroupIds(b), e)
    BY <1>1, <1>2
  <2> DEFINE S == GroupIds(a)
  <2> DEFINE T == GroupIds(b)
  <2>2. \E g : Pairing(g, S, T) /\ \A s \in S : e[g[s]] = f[s]
    <3> HIDE DEF S, T
    <3>1. IsFiniteSet(S) /\ IsFiniteSet(T) /\ Tally(S, f) = Tally(T, e)
      BY <1>3, <2>1 DEF S, T
    <3> QED
      BY <3>1, TallyPairs
  <2> QED
    BY <2>2
<1>5. /\ \A id \in GroupIds(a) : h[id] \in GroupIds(b)
      /\ \A t \in GroupIds(b) : \E id \in GroupIds(a) : h[id] = t
  BY <1>4 DEF Pairing
<1>6. \A id \in GroupIds(a) : Signature(b, h[id]) = Signature(a, id)
  BY <1>4, <1>5
<1>7. \A id \in GroupIds(a) : Paths(Group(a, id)) = Paths(Group(b, h[id]))
  BY <1>5, <1>6, SameSchema
<1>8. Layouts(a) = Layouts(b)
  <2> DEFINE u == [id \in GroupIds(a) |-> <<Group(a, id).rows, Group(a, id).bytes,
                                             Paths(Group(a, id)), ValueCounts(Group(a, id))>>]
  <2> DEFINE w == [id \in GroupIds(b) |-> <<Group(b, id).rows, Group(b, id).bytes,
                                             Paths(Group(b, id)), ValueCounts(Group(b, id))>>]
  <2>1. \A id \in GroupIds(a) : w[h[id]] = u[id]
    BY <1>5, <1>6, <1>7 DEF Signature
  <2>2. Layouts(a) = Tally(GroupIds(a), u) /\ Layouts(b) = Tally(GroupIds(b), w)
    BY DEF Layouts
  <2> HIDE DEF u, w
  <2> QED
    BY <1>3, <1>4, <2>1, <2>2, PairsTally
<1>9. EvidenceColumns(a) \subseteq EvidenceColumns(b)
  <2>1. ASSUME NEW c \in ChunkIds(a) PROVE ChunkAt(a, c).path \in EvidenceColumns(b)
    <3>1. c[1] \in GroupIds(a) /\ c[2] \in DOMAIN Group(a, c[1]).columns
      BY ChunkIdsOf
    <3> QED
      BY <1>5, <1>7, <3>1, SameColumns DEF ChunkAt
  <2> QED
    BY <2>1 DEF EvidenceColumns
<1>10. EvidenceColumns(b) \subseteq EvidenceColumns(a)
  <2>1. ASSUME NEW c \in ChunkIds(b) PROVE ChunkAt(b, c).path \in EvidenceColumns(a)
    <3>1. c[1] \in GroupIds(b) /\ c[2] \in DOMAIN Group(b, c[1]).columns
      BY ChunkIdsOf
    <3>2. PICK id \in GroupIds(a) : h[id] = c[1]
      BY <1>5, <3>1
    <3>3. Paths(Group(b, c[1])) = Paths(Group(a, id))
      BY <1>7, <3>2
    <3> QED
      BY <3>1, <3>3, SameColumns DEF ChunkAt
  <2> QED
    BY <2>1 DEF EvidenceColumns
<1>11. \A column \in EvidenceColumns(a) \cap EvidenceColumns(b) :
          ColumnEvidence(a, column) = ColumnEvidence(b, column)
  BY <1>1 DEF ColumnsChanged
<1> QED
  BY <1>8, <1>9, <1>10, <1>11

\* arrowdiff.md: value counts and statistics are compared.  As long as schemas grow by
\* appended columns, no change of them in any column goes unseen, for all datasets.
THEOREM DataChangeSeenCorrect == Spec => []DataChangeSeen
<1>1. Typed => DataChangeSeen
  BY NoChangeMeansSameData DEF DataChangeSeen, Typed
<1> QED
  BY <1>1, DatasetsStayTyped, PTL

=============================================================================
