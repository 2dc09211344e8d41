-------------------------- MODULE ContextHashProofs -------------------------
(***************************************************************************)
(* Proofs about ContextHash for every tree of paths, every ignore file and *)
(* every number of changes and hashes: what is hashed is what the ignore   *)
(* file leaves of an undisturbed tree, and two digests are equal if only   *)
(* what is ignored was changed, and only if the files are equal.           *)
(*                                                                         *)
(* The tree and the list of files are as deep and as long as they like.    *)
(* What holds of all of them is proved from a least counterexample, since a*)
(* nonempty set of numbers has a least one (LeastNumber).                  *)
(***************************************************************************)
EXTENDS ContextHash, FiniteSetTheorems, SequenceTheorems, TLAPS

\* Every nonempty set of numbers has a least one.
LEMMA LeastNumber ==
  ASSUME NEW T, T \subseteq Nat, T # {}
  PROVE  \E n \in T : \A m \in T : n <= m
<1> DEFINE below == {0 .. n : n \in T}
           R == StrictSubsetOrdering(Nat)
<1>1. below \subseteq FiniteSubsetsOf(Nat) /\ below # {}
  <2>1. \A n \in T : IsFiniteSet(0 .. n) /\ 0 .. n \in SUBSET Nat
    BY FS_Interval
  <2>2. QED
    BY <2>1, Zenon DEF FiniteSubsetsOf
<1>2. IsWellFoundedOn(R, FiniteSubsetsOf(Nat))
  BY FS_StrictSubsetOrderingWellFounded
<1> HIDE DEF R
<1>3. PICK x \in below : \A y \in below : ~(<<y, x>> \in R)
  <2> HIDE DEF below
  <2>1. QED
    BY <1>1, <1>2, WFMin
<1>4. PICK n \in T : x = 0 .. n
  OBVIOUS
<1>5. ASSUME NEW m \in T, m < n
      PROVE  FALSE
  <2>1. 0 .. m \in below /\ 0 .. m \subseteq 0 .. n /\ 0 .. m # 0 .. n
    BY <1>5
  <2>2. <<0 .. m, 0 .. n>> \in R
    BY <2>1 DEF R, StrictSubsetOrdering
  <2>3. QED
    BY <1>3, <1>4, <2>1, <2>2
<1>6. QED
  BY <1>5

-----------------------------------------------------------------------------
(***************************************************************************)
(* The directories above a path.                                           *)
(***************************************************************************)

\* The recursion of Above has a solution: the least sets closed under Parent.
LEMMA AboveStep ==
  \A p \in Paths : Above[p] = IF Parent[p] = Root THEN {}
                              ELSE {Parent[p]} \cup Above[Parent[p]]
<1> DEFINE Closed(p, S) == \A q \in {p} \cup S : Parent[q] # Root => Parent[q] \in S
           up == [p \in Paths |-> {a \in Paths : \A S \in SUBSET Paths : Closed(p, S) => a \in S}]
           Step(f) == [p \in Paths |-> IF Parent[p] = Root THEN {}
                                       ELSE {Parent[p]} \cup f[Parent[p]]]
<1>1. Above = CHOOSE f : f = Step(f)
  BY DEF Above
<1>2. ASSUME NEW p \in Paths
      PROVE  up[p] = Step(up)[p]
  <2>1. CASE Parent[p] = Root
    <3>1. {} \in SUBSET Paths /\ Closed(p, {})
      BY <2>1
    <3>2. up[p] = {}
      <4> HIDE DEF Closed
      <4>1. QED
        BY <3>1
    <3>3. Step(up)[p] = {}
      BY <2>1
    <3>4. QED
      BY <3>2, <3>3
  <2>2. CASE Parent[p] # Root
    <3>1. Parent[p] \in Paths
      BY <2>2, ContextAssumption
    <3>2. ASSUME NEW S \in SUBSET Paths, Closed(p, S)
          PROVE  Parent[p] \in S /\ Closed(Parent[p], S)
      BY <2>2, <3>2
    <3>3. ASSUME NEW S \in SUBSET Paths, Closed(Parent[p], S)
          PROVE  Closed(p, {Parent[p]} \cup S)
      BY <3>3
    <3>4. up[p] \subseteq {Parent[p]} \cup up[Parent[p]]
      <4> SUFFICES ASSUME NEW a \in up[p], a # Parent[p], NEW S \in SUBSET Paths,
                          Closed(Parent[p], S)
                   PROVE  a \in S
        BY <3>1
      <4>1. {Parent[p]} \cup S \in SUBSET Paths /\ Closed(p, {Parent[p]} \cup S)
        BY <3>1, <3>3
      <4>2. QED
        BY <4>1
    <3>5. {Parent[p]} \cup up[Parent[p]] \subseteq up[p]
      <4> HIDE DEF Closed
      <4>1. QED
        BY <3>1, <3>2
    <3> HIDE DEF up
    <3>6. up[p] = {Parent[p]} \cup up[Parent[p]]
      BY <3>4, <3>5
    <3>7. QED
      BY <2>2, <3>6
  <2>3. QED
    BY <2>1, <2>2
<1>3. up = Step(up)
  BY <1>2
<1>4. Above = Step(Above)
  <2> HIDE DEF Step, up
  <2>1. QED
    BY <1>1, <1>3
<1>5. QED
  BY <1>4

\* What lies above a path is a path that sorts before it.
LEMMA AboveType ==
  ASSUME NEW p \in Paths
  PROVE  /\ Above[p] \subseteq Paths
         /\ \A a \in Above[p] : a < p /\ Above[a] \subseteq Above[p]
         /\ \A a \in Above[p] \cup {Root} : \E c \in {p} \cup Above[p] : Parent[c] = a
<1> DEFINE Good(q) == /\ Above[q] \subseteq Paths
                      /\ \A a \in Above[q] : a < q /\ Above[a] \subseteq Above[q]
                      /\ \A a \in Above[q] \cup {Root} : \E c \in {q} \cup Above[q] : Parent[c] = a
           T == {q \in Paths : ~Good(q)}
<1>1. Paths \subseteq Nat /\ Parent \in [Paths -> Paths \cup {Root}] /\ Root \notin Paths
      /\ \A q \in Paths : Parent[q] < q
  BY ContextAssumption
<1>2. ASSUME T # {}
      PROVE  FALSE
  <2>1. PICK n \in T : \A m \in T : n <= m
    BY <1>1, <1>2, LeastNumber
  <2>2. n \in Paths /\ \A m \in Paths : m < n => Good(m)
    <3> HIDE DEF Good
    <3>1. QED
      BY <1>1, <2>1
  <2>3. CASE Parent[n] = Root
    <3>1. Above[n] = {}
      BY <2>2, <2>3, AboveStep
    <3>2. Good(n)
      BY <2>3, <3>1
    <3>3. QED
      BY <3>2
  <2>4. CASE Parent[n] # Root
    <3> DEFINE m == Parent[n]
    <3>1. m \in Paths /\ m < n
      BY <1>1, <2>2, <2>4
    <3>2. Good(m)
      BY <2>2, <3>1
    <3> HIDE DEF m
    <3>3. Above[n] = {m} \cup Above[m]
      BY <2>2, <2>4, AboveStep DEF m
    <3>4. Above[n] \subseteq Paths
      BY <3>1, <3>2, <3>3
    <3>5. ASSUME NEW a \in Above[n]
          PROVE  a < n /\ Above[a] \subseteq Above[n]
      <4>1. CASE a = m
        BY <3>1, <3>3, <4>1
      <4>2. CASE a \in Above[m]
        <5>1. a \in Paths /\ a < m /\ Above[a] \subseteq Above[m]
          BY <3>2, <4>2
        <5>2. QED
          BY <1>1, <2>2, <3>1, <3>3, <5>1
      <4>3. QED
        BY <3>3, <4>1, <4>2
    <3>6. ASSUME NEW a \in Above[n] \cup {Root}
          PROVE  \E c \in {n} \cup Above[n] : Parent[c] = a
      <4>1. CASE a = m
        BY <4>1 DEF m
      <4>2. CASE a # m
        BY <3>2, <3>3, <4>2
      <4>3. QED
        BY <4>1, <4>2
    <3>7. QED
      BY <3>4, <3>5, <3>6
  <2>5. QED
    BY <2>3, <2>4
<1>3. Good(p)
  <2> HIDE DEF Good
  <2>1. QED
    BY <1>2
<1>4. QED
  BY <1>3

\* What lies above a name in a directory: the directory and what is above it.
LEMMA AboveChild ==
  ASSUME NEW p \in Paths
  PROVE  /\ p \notin Above[p]
         /\ Parent[p] = Root => Above[p] = {}
         /\ Parent[p] # Root => Parent[p] \in Paths /\ Above[p] = {Parent[p]} \cup Above[Parent[p]]
<1>1. Parent[p] \in Paths \cup {Root} /\ p \in Nat
  BY ContextAssumption
<1>2. p \notin Above[p]
  BY <1>1, AboveType
<1>3. QED
  BY <1>1, <1>2, AboveStep

-----------------------------------------------------------------------------
(***************************************************************************)
(* The order of paths.                                                     *)
(***************************************************************************)

\* Sorted lists every path of a set, in ascending order.
LEMMA SortedType ==
  ASSUME NEW S \in SUBSET Paths
  PROVE  /\ Sorted(S) \in Seq(Paths) /\ Range(Sorted(S)) = S
         /\ \A i, j \in DOMAIN Sorted(S) : i < j => Sorted(S)[i] < Sorted(S)[j]
<1> DEFINE n == Cardinality(S)
           below(p) == {q \in S : q < p}
           rank == [p \in S |-> Cardinality(below(p)) + 1]
<1>1. IsFiniteSet(S) /\ S \subseteq Nat /\ n \in Nat
  <2>1. IsFiniteSet(S) /\ S \subseteq Nat
    BY ContextAssumption, FS_Subset
  <2>2. QED
    BY <2>1, FS_CardinalityType
<1>2. ASSUME NEW p \in S
      PROVE  /\ IsFiniteSet(below(p)) /\ Cardinality(below(p)) \in 0 .. n - 1
             /\ p \notin below(p) /\ below(p) \in SUBSET S
  <2>1. IsFiniteSet(S \ {p}) /\ Cardinality(S \ {p}) = n - 1
    BY <1>1, FS_RemoveElement
  <2>2. below(p) \in SUBSET (S \ {p})
    BY <1>1
  <2> HIDE DEF below
  <2>3. IsFiniteSet(below(p)) /\ Cardinality(below(p)) <= n - 1
    BY <2>1, <2>2, FS_Subset
  <2>4. Cardinality(below(p)) \in Nat
    BY <2>3, FS_CardinalityType
  <2>5. QED
    BY <1>1, <2>2, <2>3, <2>4
<1>2a. \A p, q \in S : q \in below(p) <=> q < p
  OBVIOUS
<1>2b. Sorted(S) = [i \in 1 .. n |-> CHOOSE p \in S : Cardinality(below(p)) = i - 1]
  BY DEF Sorted
<1> HIDE DEF below
<1>3. \A p \in S : rank[p] \in 1 .. n /\ rank[p] = Cardinality(below(p)) + 1
  BY <1>1, <1>2
<1>4. ASSUME NEW p \in S, NEW q \in S, p < q
      PROVE  rank[p] < rank[q]
  <2>1. below(p) \cup {p} \in SUBSET below(q)
    <3>1. \A r \in below(p) : r \in S /\ r \in Nat /\ r < p
      BY <1>1, <1>2, <1>2a
    <3>2. \A r \in below(p) : r < q
      BY <1>1, <1>4, <3>1
    <3>3. QED
      BY <1>4, <1>2a, <3>1, <3>2
  <2>2. Cardinality(below(p) \cup {p}) = Cardinality(below(p)) + 1
    BY <1>2, FS_AddElement
  <2>3. Cardinality(below(p) \cup {p}) <= Cardinality(below(q))
    BY <1>2, <2>1, FS_Subset
  <2>4. Cardinality(below(p)) \in Int /\ Cardinality(below(q)) \in Int
    BY <1>2
  <2>5. QED
    BY <1>3, <2>2, <2>3, <2>4
<1>5. \A p, q \in S : rank[p] = rank[q] => p = q
  <2> HIDE DEF rank
  <2>1. \A p, q \in S : p < q \/ q < p \/ p = q
    BY <1>1
  <2>2. QED
    BY <1>3, <1>4, <2>1
<1>6. rank \in Surjection(S, 1 .. n)
  <2>1. rank \in [S -> 1 .. n]
    BY <1>3
  <2> HIDE DEF rank
  <2>2. rank \in Injection(S, 1 .. n)
    BY <1>5, <2>1 DEF Injection, IsInjective
  <2>3. IsFiniteSet(1 .. n) /\ Cardinality(1 .. n) = n
    BY <1>1, FS_Interval
  <2>4. QED
    BY <2>2, <2>3, FS_Injection
<1>7. ASSUME NEW i \in 1 .. n
      PROVE  Sorted(S)[i] \in S /\ rank[Sorted(S)[i]] = i
  <2>1. \E p \in S : rank[p] = i
    <3> HIDE DEF rank
    <3>1. QED
      BY <1>6 DEF Surjection
  <2>2. \E p \in S : Cardinality(below(p)) = i - 1
    <3> HIDE DEF rank
    <3>1. PICK p \in S : rank[p] = i
      BY <2>1
    <3>2. Cardinality(below(p)) \in Int /\ i \in Int
      BY <1>2
    <3>3. QED
      BY <1>3, <3>1, <3>2
  <2>3. Sorted(S)[i] = CHOOSE p \in S : Cardinality(below(p)) = i - 1
    BY <1>2b
  <2>4. Sorted(S)[i] \in S /\ Cardinality(below(Sorted(S)[i])) = i - 1
    BY <2>2, <2>3
  <2>5. QED
    BY <1>3, <2>4
<1>8. DOMAIN Sorted(S) = 1 .. n
  BY <1>2b
<1> HIDE DEF rank
<1>9. ASSUME NEW p \in S
      PROVE  Sorted(S)[rank[p]] = p /\ rank[p] \in 1 .. n
  BY <1>3, <1>5, <1>7
<1>10. ASSUME NEW i \in 1 .. n, NEW j \in 1 .. n, i < j
       PROVE  Sorted(S)[i] < Sorted(S)[j]
  <2> DEFINE p == Sorted(S)[i]
             q == Sorted(S)[j]
  <2>1. p \in S /\ q \in S /\ rank[p] = i /\ rank[q] = j
    BY <1>7
  <2> HIDE DEF p, q
  <2>2. p < q \/ p = q \/ q < p
    BY <1>1, <2>1
  <2>3. p < q
    BY <1>4, <1>10, <2>1, <2>2
  <2>4. QED
    BY <2>3 DEF p, q
<1>11. Sorted(S) \in [1 .. n -> Paths]
  BY <1>7, <1>2b
<1>12. Range(Sorted(S)) = S
  BY <1>7, <1>8, <1>9 DEF Range
<1>13. QED
  BY <1>1, <1>8, <1>10, <1>11, <1>12, SeqDef

\* The first of a list and the others.
LEMMA HeadOthers ==
  ASSUME NEW S, NEW q \in Seq(S), q # <<>>
  PROVE  /\ Head(q) \in S /\ Tail(q) \in Seq(S)
         /\ Range(q) = {Head(q)} \cup Range(Tail(q))
<1>1. Len(q) \in Nat \ {0} /\ DOMAIN q = 1 .. Len(q) /\ Head(q) = q[1]
  BY EmptySeq, LenProperties
<1>2. /\ Tail(q) \in Seq(S) /\ DOMAIN Tail(q) = 1 .. Len(q) - 1
      /\ \A i \in 1 .. Len(q) - 1 : Tail(q)[i] = q[i + 1]
  BY <1>1, HeadTailProperties, LenProperties
<1>3. Range(Tail(q)) = {q[i] : i \in 2 .. Len(q)}
  <2>1. \A i \in 2 .. Len(q) : i - 1 \in DOMAIN Tail(q) /\ Tail(q)[i - 1] = q[i]
    BY <1>1, <1>2
  <2>2. \A i \in DOMAIN Tail(q) : i + 1 \in 2 .. Len(q) /\ Tail(q)[i] = q[i + 1]
    BY <1>1, <1>2
  <2>3. Range(Tail(q)) \subseteq {q[i] : i \in 2 .. Len(q)}
    BY <2>2 DEF Range
  <2>4. {q[i] : i \in 2 .. Len(q)} \subseteq Range(Tail(q))
    BY <2>1 DEF Range
  <2>5. QED
    BY <2>3, <2>4
<1>4. Range(q) = {q[1]} \cup {q[i] : i \in 2 .. Len(q)}
  BY <1>1 DEF Range
<1>5. QED
  BY <1>1, <1>2, <1>3, <1>4, HeadTailProperties

\* In an ascending list the first comes before the others.
LEMMA HeadLeast ==
  ASSUME NEW q \in Seq(Paths), q # <<>>,
         \A i, j \in DOMAIN q : i < j => q[i] < q[j]
  PROVE  /\ \A i, j \in DOMAIN Tail(q) : i < j => Tail(q)[i] < Tail(q)[j]
         /\ \A p \in Range(Tail(q)) : Head(q) < p
<1>1. Len(q) \in Nat \ {0} /\ DOMAIN q = 1 .. Len(q) /\ Head(q) = q[1]
  BY EmptySeq, LenProperties
<1>2. /\ DOMAIN Tail(q) = 1 .. Len(q) - 1
      /\ \A i \in 1 .. Len(q) - 1 : Tail(q)[i] = q[i + 1]
  BY <1>1, HeadTailProperties, LenProperties
<1>3. \A i \in DOMAIN Tail(q) : q[1] < Tail(q)[i]
  BY <1>1, <1>2
<1>4. QED
  BY <1>1, <1>2, <1>3 DEF Range

-----------------------------------------------------------------------------
(***************************************************************************)
(* What a change of the tree leaves as it is.                              *)
(***************************************************************************)

\* What is below an ignored path is skipped.
LEMMA SkippedBelow ==
  ASSUME NEW ps, NEW p \in Paths, NEW a \in Above[p], Excluded(ps, a) \/ Skipped(ps, a)
  PROVE  Skipped(ps, p)
BY AboveType DEF Skipped

\* A path exists as before if neither it nor a directory above it changes.
LEMMA ExistsKept ==
  ASSUME NEW t, NEW u, NEW p \in Paths, \A a \in {p} \cup Above[p] : u[a] = t[a]
  PROVE  Exists(u, p) <=> Exists(t, p)
BY DEF Exists

\* The root of the context is no path, and the markers are no contents.
LEMMA Markers ==
  /\ Root \notin Paths /\ Paths \subseteq Nat
  /\ Dangling \notin Contents /\ Unreadable \notin Contents
  /\ Absent \notin Contents /\ Missing \notin Contents
  /\ Dangling # Unreadable /\ Dangling # Absent /\ Dangling # Missing
  /\ Unreadable # Absent /\ Unreadable # Missing /\ Absent # Missing
<1> DEFINE few == {Dangling, Unreadable, Absent, Missing}
<1>1. \A a, b, c : Cardinality({a, b, c}) <= 3
  <2> SUFFICES ASSUME NEW a, NEW b, NEW c
               PROVE  Cardinality({a, b, c}) <= 3
    OBVIOUS
  <2>1. IsFiniteSet({a}) /\ Cardinality({a}) = 1
    BY FS_Singleton
  <2>2. IsFiniteSet({a} \cup {b}) /\ Cardinality({a} \cup {b}) \in {1, 2}
    BY <2>1, FS_AddElement
  <2>3. Cardinality(({a} \cup {b}) \cup {c}) \in {1, 2, 3}
    BY <2>2, FS_AddElement
  <2>4. {a, b, c} = ({a} \cup {b}) \cup {c}
    OBVIOUS
  <2>5. QED
    BY <2>3, <2>4
<1>2. \A a, b, c : few # {a, b, c}
  <2> SUFFICES ASSUME NEW a, NEW b, NEW c, few = {a, b, c}
               PROVE  FALSE
    OBVIOUS
  <2> DEFINE other == {a, b, c}
  <2>1. Cardinality(few) = 4 /\ Cardinality(other) <= 3 /\ few = other
    BY <1>1, ContextAssumption
  <2> HIDE DEF few, other
  <2>2. QED
    BY <2>1
<1>3. /\ few = {Dangling, Absent, Missing} \/ Dangling # Unreadable
      /\ few = {Dangling, Unreadable, Missing} \/ (Dangling # Absent /\ Unreadable # Absent)
      /\ few = {Dangling, Unreadable, Absent}
         \/ (Dangling # Missing /\ Unreadable # Missing /\ Absent # Missing)
  OBVIOUS
<1>4. Root \notin Paths /\ Paths \subseteq Nat /\ Contents \cap few = {}
  BY ContextAssumption
<1>5. QED
  BY <1>2, <1>3, <1>4

\* The paths a change touches, and what is not below them.
LEMMA Touched ==
  ASSUME TypeOK, NEW p \in Paths, Change(p) \/ \E q \in Paths : Rename(p, q)
  PROVE  \E D \in SUBSET Paths :
           /\ D # {} /\ since' = since \cup D /\ steady' \cap D = {} /\ steady' \subseteq steady
           /\ \A r \in steady \ steady' : ({r} \cup Above[r]) \cap D # {}
           /\ \A r \in Paths : ({r} \cup Above[r]) \cap D = {} =>
                tree'[r] = tree[r] /\ (Exists(tree', r) <=> Exists(tree, r))
<1>1. \A r \in Paths : Above[r] \subseteq Paths
  BY AboveType
<1>2. tree \in [Paths -> Node] /\ steady \subseteq Paths
  BY DEF TypeOK
<1>3. ASSUME NEW D \in SUBSET Paths, \A r \in Paths \ D : tree'[r] = tree[r]
      PROVE  \A r \in Paths : ({r} \cup Above[r]) \cap D = {} =>
               tree'[r] = tree[r] /\ (Exists(tree', r) <=> Exists(tree, r))
  BY <1>1, <1>3, ExistsKept
<1>4. CASE Change(p)
  <2>1. \A r \in Paths \ {p} : tree'[r] = tree[r]
    BY <1>2, <1>4 DEF Change
  <2>2. since' = since \cup {p} /\ steady' = steady \ Within(p)
    BY <1>4 DEF Change
  <2>3. \A r \in steady \ steady' : ({r} \cup Above[r]) \cap {p} # {}
    BY <2>2 DEF Within
  <2>4. steady' \cap {p} = {} /\ steady' \subseteq steady /\ {p} \in SUBSET Paths /\ {p} # {}
    BY <2>2 DEF Within
  <2>5. QED
    BY <1>3, <2>1, <2>2, <2>3, <2>4
<1>5. ASSUME NEW q \in Paths, Rename(p, q)
      PROVE  \E D \in SUBSET Paths :
           /\ D # {} /\ since' = since \cup D /\ steady' \cap D = {} /\ steady' \subseteq steady
           /\ \A r \in steady \ steady' : ({r} \cup Above[r]) \cap D # {}
           /\ \A r \in Paths : ({r} \cup Above[r]) \cap D = {} =>
                tree'[r] = tree[r] /\ (Exists(tree', r) <=> Exists(tree, r))
  <2>1. \A r \in Paths \ {p, q} : tree'[r] = tree[r]
    BY <1>2, <1>5 DEF Rename
  <2>2. since' = since \cup {p, q} /\ steady' = steady \ {p, q}
    BY <1>5 DEF Rename
  <2>3. \A r \in steady \ steady' : ({r} \cup Above[r]) \cap {p, q} # {}
    BY <2>2
  <2>4. /\ steady' \cap {p, q} = {} /\ steady' \subseteq steady
        /\ {p, q} \in SUBSET Paths /\ {p, q} # {}
    BY <2>2
  <2>5. QED
    BY <1>3, <2>1, <2>2, <2>3, <2>4
<1>6. QED
  BY <1>4, <1>5

\* A path that stays steady is as it was.
LEMMA SteadyKept ==
  ASSUME TypeOK, NEW p \in Paths, Change(p) \/ \E q \in Paths : Rename(p, q)
  PROVE  /\ steady' \subseteq steady /\ steady' # Paths
         /\ \A r \in steady' : tree'[r] = tree[r] /\ (Exists(tree', r) <=> Exists(tree, r))
<1>1. steady' \subseteq steady /\ steady' # Paths
  BY Touched
<1>2. tree \in [Paths -> Node] /\ steady \subseteq Paths
  BY DEF TypeOK
<1>3. ASSUME Change(p), NEW r \in steady'
      PROVE  tree'[r] = tree[r] /\ (Exists(tree', r) <=> Exists(tree, r))
  <2>1. r \in Paths /\ p \notin {r} \cup Above[r]
    BY <1>2, <1>3 DEF Change, Within
  <2>2. \A a \in {r} \cup Above[r] : tree'[a] = tree[a]
    BY <1>2, <1>3, <2>1, AboveType DEF Change
  <2>3. QED
    BY <2>1, <2>2, ExistsKept
<1>4. ASSUME NEW q \in Paths, Rename(p, q), NEW r \in steady'
      PROVE  tree'[r] = tree[r] /\ (Exists(tree', r) <=> Exists(tree, r))
  <2>1. r \in Paths /\ r # p /\ r # q /\ p # q
    BY <1>2, <1>4 DEF Rename
  <2>2. tree' = [tree EXCEPT ![q] = tree[p], ![p] = Nothing]
    BY <1>4 DEF Rename
  <2>3. tree[p].kind = "leaf" /\ tree[q].kind \in {"none", "leaf"}
    BY <1>4 DEF Rename
  <2>4. tree'[p] = Nothing /\ tree'[q] = tree[p] /\ Nothing.kind = "none"
    BY <1>2, <2>1, <2>2 DEF Nothing
  <2>5. \A a \in Paths : a # p /\ a # q => tree'[a] = tree[a]
    BY <1>2, <2>2
  <2>6. \A a \in Above[r] : tree'[a].kind = "dir" <=> tree[a].kind = "dir"
    BY <2>1, <2>3, <2>4, <2>5, AboveType
  <2>7. QED
    BY <2>1, <2>5, <2>6 DEF Exists
<1>5. QED
  BY <1>1, <1>3, <1>4

-----------------------------------------------------------------------------
(***************************************************************************)
(* What a digest is of: files in the order of their paths, framed one      *)
(* after the other.                                                        *)
(***************************************************************************)
File == [path : Paths, mode : Modes, content : Contents]
FrameOf(f) == Frame(f.path, f.mode, f.content)

Bytes == Seq(Nat)
Parts == Seq(Nat \ {NUL})
Closed(s) == s = <<>> \/ s[Len(s)] = NUL

\* s is what n files, those of H, make when they are written in order.
Writes(n, H, s) ==
  \E q \in [1 .. n -> File], t \in [0 .. n -> Bytes] :
    /\ t[0] = <<>> /\ \A i \in 1 .. n : t[i] = t[i - 1] \o FrameOf(q[i])
    /\ \A i, j \in 1 .. n : i < j => q[i].path < q[j].path
    /\ H = {q[i] : i \in 1 .. n} /\ s = t[n]

Written(H, s) == \E n \in Nat : Writes(n, H, s)

\* Lists of bytes can be joined, regrouped, and cancelled at their end.
LEMMA Joined == \A s, t \in Bytes : s \o t \in Bytes
BY ConcatProperties DEF Bytes

LEMMA Grouped == \A s, t, u \in Bytes : (s \o t) \o u = s \o (t \o u)
<1> SUFFICES ASSUME NEW s \in Seq(Nat), NEW t \in Seq(Nat), NEW u \in Seq(Nat)
             PROVE  (s \o t) \o u = s \o (t \o u)
  BY DEF Bytes
<1>1. QED
  BY ConcatAssociative

LEMMA Cancelled == \A s, t, u \in Bytes : s \o u = t \o u => s = t
BY ConcatSimplifications DEF Bytes

LEMMA PartsAreBytes == Parts \subseteq Bytes /\ <<NUL>> \in Bytes /\ <<>> \in Bytes
<1>1. \A s \in Parts : s \in Bytes
  BY SeqMonotonic DEF Parts, Bytes
<1>2. QED
  BY <1>1, EmptySeq DEF Bytes, NUL

\* A NUL ends a list to which it is appended.
LEMMA NulEnds == \A s \in Bytes : s \o <<NUL>> \in Bytes /\ Closed(s \o <<NUL>>) /\ s \o <<NUL>> # <<>>
<1> SUFFICES ASSUME NEW s \in Seq(Nat)
             PROVE  s \o <<NUL>> \in Seq(Nat) /\ Closed(s \o <<NUL>>) /\ s \o <<NUL>> # <<>>
  BY DEF Bytes
<1>1. <<NUL>> \in Seq(Nat)
  BY DEF NUL
<1>2. /\ s \o <<NUL>> \in Seq(Nat) /\ Len(s \o <<NUL>>) = Len(s) + 1
      /\ (s \o <<NUL>>)[Len(s) + 1] = NUL
  BY <1>1, ConcatProperties
<1>3. s \o <<NUL>> # <<>>
  BY <1>2, LenProperties, EmptySeq
<1>4. QED
  BY <1>2, <1>3 DEF Closed

\* What stands where in a joined list.
LEMMA JoinedAt ==
  \A s, t \in Seq(Nat) :
    /\ Len(s) \in Nat /\ Len(t) \in Nat /\ Len(s \o t) = Len(s) + Len(t)
    /\ \A i \in 1 .. Len(s) + Len(t) :
         (s \o t)[i] = IF i <= Len(s) THEN s[i] ELSE t[i - Len(s)]
<1> SUFFICES ASSUME NEW s \in Seq(Nat), NEW t \in Seq(Nat)
             PROVE  /\ Len(s) \in Nat /\ Len(t) \in Nat /\ Len(s \o t) = Len(s) + Len(t)
                    /\ \A i \in 1 .. Len(s) + Len(t) :
                         (s \o t)[i] = IF i <= Len(s) THEN s[i] ELSE t[i - Len(s)]
  OBVIOUS
<1>1. Len(s) \in Nat /\ Len(t) \in Nat
  BY LenProperties
<1>2. QED
  BY <1>1, ConcatProperties

\* Where a list that a NUL ends meets one without NUL, they can be parted.
LEMMA PartAtNul ==
  ASSUME NEW x \in Bytes, NEW y \in Bytes, NEW c \in Parts, NEW d \in Parts,
         Closed(x), Closed(y), x \o c = y \o d
  PROVE  x = y /\ c = d
<1> USE DEF Bytes, Parts
<1>1. c \in Seq(Nat) /\ d \in Seq(Nat)
  BY SeqMonotonic
<1>2. /\ Len(x) \in Nat /\ Len(y) \in Nat /\ Len(c) \in Nat /\ Len(d) \in Nat
      /\ \A i \in 1 .. Len(c) : c[i] # NUL
      /\ \A i \in 1 .. Len(d) : d[i] # NUL
  BY LenProperties, ElementOfSeq
<1>3. /\ Len(x) + Len(c) = Len(y) + Len(d)
      /\ \A i \in 1 .. Len(x) + Len(c) :
           (x \o c)[i] = IF i <= Len(x) THEN x[i] ELSE c[i - Len(x)]
      /\ \A i \in 1 .. Len(y) + Len(d) :
           (y \o d)[i] = IF i <= Len(y) THEN y[i] ELSE d[i - Len(y)]
  <2>1. /\ Len(x \o c) = Len(x) + Len(c)
        /\ \A i \in 1 .. Len(x) + Len(c) :
             (x \o c)[i] = IF i <= Len(x) THEN x[i] ELSE c[i - Len(x)]
    BY <1>1, JoinedAt, Zenon
  <2>2. /\ Len(y \o d) = Len(y) + Len(d)
        /\ \A i \in 1 .. Len(y) + Len(d) :
             (y \o d)[i] = IF i <= Len(y) THEN y[i] ELSE d[i - Len(y)]
    BY <1>1, JoinedAt, Zenon
  <2>3. QED
    BY <2>1, <2>2
<1>4. ASSUME Len(x) < Len(y)
      PROVE  FALSE
  <2>1. y[Len(y)] = NUL /\ Len(y) \in 1 .. Len(x) + Len(c)
    <3>1. y # <<>>
      BY <1>2, <1>4, EmptySeq
    <3>2. y[Len(y)] = NUL
      BY <3>1, Zenon DEF Closed
    <3>3. Len(y) \in 1 .. Len(y) + Len(d)
      BY <1>2, <1>4
    <3>4. QED
      BY <1>3, <3>2, <3>3, Zenon
  <2>2. (y \o d)[Len(y)] = NUL /\ (x \o c)[Len(y)] = c[Len(y) - Len(x)]
    BY <1>2, <1>3, <1>4, <2>1
  <2>3. Len(y) - Len(x) \in 1 .. Len(c)
    BY <1>2, <1>3, <1>4
  <2>4. QED
    BY <1>2, <2>2, <2>3
<1>5. ASSUME Len(y) < Len(x)
      PROVE  FALSE
  <2>1. x[Len(x)] = NUL /\ Len(x) \in 1 .. Len(y) + Len(d)
    <3>1. x # <<>>
      BY <1>2, <1>5, EmptySeq
    <3>2. x[Len(x)] = NUL
      BY <3>1, Zenon DEF Closed
    <3>3. Len(x) \in 1 .. Len(x) + Len(c)
      BY <1>2, <1>5
    <3>4. QED
      BY <1>3, <3>2, <3>3, Zenon
  <2>2. (x \o c)[Len(x)] = NUL /\ (y \o d)[Len(x)] = d[Len(x) - Len(y)]
    BY <1>2, <1>3, <1>5, <2>1
  <2>3. Len(x) - Len(y) \in 1 .. Len(d)
    BY <1>2, <1>3, <1>5
  <2>4. QED
    BY <1>2, <2>2, <2>3
<1>6. Len(x) = Len(y) /\ Len(c) = Len(d)
  BY <1>2, <1>3, <1>4, <1>5
<1>7. \A i \in 1 .. Len(x) : x[i] = y[i]
  BY <1>2, <1>3, <1>6
<1>8. x = y
  BY <1>6, <1>7, SeqEqual
<1>9. c = d
  BY <1>1, <1>8, ConcatSimplifications
<1>10. QED
  BY <1>8, <1>9

\* The same, with a NUL at the end of both.
LEMMA PartBeforeNul ==
  \A x, y \in Bytes : \A c, d \in Parts :
    (x \o c) \o <<NUL>> = (y \o d) \o <<NUL>> =>
      (Closed(x) => (Closed(y) => x = y /\ c = d))
<1> SUFFICES ASSUME NEW x \in Bytes, NEW y \in Bytes, NEW c \in Parts, NEW d \in Parts,
                    Closed(x), Closed(y), (x \o c) \o <<NUL>> = (y \o d) \o <<NUL>>
             PROVE  x = y /\ c = d
  OBVIOUS
<1>1. x \o c \in Bytes /\ y \o d \in Bytes
  BY PartsAreBytes, Joined
<1>2. PICK v, w, z : v = x \o c /\ w = y \o d /\ z = <<NUL>>
  OBVIOUS
<1>3. v \in Bytes /\ w \in Bytes /\ z \in Bytes /\ v \o z = w \o z
  BY <1>1, <1>2, PartsAreBytes, Zenon
<1>4. v = w
  BY <1>3, Cancelled, Zenon
<1>5. QED
  BY <1>2, <1>4, PartAtNul

\* The parts of a frame.
LEMMA FrameParts ==
  ASSUME NEW f \in File
  PROVE  /\ f.path \in Paths /\ f.content \in Bytes
         /\ Name[f.path] \in Parts /\ <<f.mode>> \in Parts
         /\ FrameOf(f) = ((Name[f.path] \o (<<NUL>> \o (<<f.mode>> \o <<NUL>>))) \o f.content) \o <<NUL>>
<1>1. f.path \in Paths /\ f.mode \in Modes /\ f.content \in Contents
  BY DEF File
<1>2. /\ Modes \subseteq Nat \ {NUL} /\ Contents \subseteq Bytes
      /\ Name \in [Paths -> Parts]
  BY ContextAssumption DEF Parts, Bytes
<1>3. <<f.mode>> \in Parts
  <2>1. f.mode \in Nat \ {NUL}
    BY <1>1, <1>2
  <2>2. QED
    BY <2>1 DEF Parts
<1>4. <<NUL, f.mode, NUL>> = <<NUL>> \o (<<f.mode>> \o <<NUL>>)
  OBVIOUS
<1>5. QED
  BY <1>1, <1>2, <1>3, <1>4 DEF FrameOf, Frame

\* A list and a frame after it, as its parts and NULs.
LEMMA FrameAfter ==
  ASSUME NEW s \in Bytes, NEW f \in File
  PROVE  s \o FrameOf(f) =
           (((((s \o Name[f.path]) \o <<NUL>>) \o <<f.mode>>) \o <<NUL>>) \o f.content) \o <<NUL>>
<1>1. PICK a, m, c, z : a = Name[f.path] /\ m = <<f.mode>> /\ c = f.content /\ z = <<NUL>>
  OBVIOUS
<1>2. /\ a \in Bytes /\ m \in Bytes /\ c \in Bytes /\ z \in Bytes
      /\ FrameOf(f) = ((a \o (z \o (m \o z))) \o c) \o z
  <2>1. a \in Parts /\ m \in Parts /\ c \in Bytes /\ z \in Bytes
    BY <1>1, FrameParts, PartsAreBytes, Zenon
  <2>2. FrameOf(f) = ((a \o (z \o (m \o z))) \o c) \o z
    BY <1>1, FrameParts, Zenon
  <2>3. QED
    BY <2>1, <2>2, PartsAreBytes
<1>3. PICK u : u \in Bytes /\ u = m \o z
  BY <1>2, Joined, Zenon
<1>4. PICK v : v \in Bytes /\ v = z \o u
  BY <1>2, <1>3, Joined, Zenon
<1>5. PICK w : w \in Bytes /\ w = a \o v
  BY <1>2, <1>4, Joined, Zenon
<1>6. PICK k : k \in Bytes /\ k = w \o c
  BY <1>2, <1>5, Joined, Zenon
<1>7. PICK x : x \in Bytes /\ x = s \o a
  BY <1>2, Joined, Zenon
<1>8. PICK y : y \in Bytes /\ y = x \o z
  BY <1>2, <1>7, Joined, Zenon
<1>9. s \o FrameOf(f) = (s \o k) \o z
  <2>1. FrameOf(f) = k \o z
    BY <1>2, <1>3, <1>4, <1>5, <1>6, Zenon
  <2>2. s \o (k \o z) = (s \o k) \o z
    <3>1. s \in Bytes /\ k \in Bytes /\ z \in Bytes
      BY <1>2, <1>6
    <3>2. QED
      BY <3>1, Grouped, Zenon
  <2>3. QED
    BY <2>1, <2>2, Zenon
<1>10. s \o k = (s \o w) \o c
  <2>1. s \o (w \o c) = (s \o w) \o c
    <3>1. s \in Bytes /\ w \in Bytes /\ c \in Bytes
      BY <1>2, <1>5
    <3>2. QED
      BY <3>1, Grouped, Zenon
  <2>2. QED
    BY <1>6, <2>1, Zenon
<1>11. s \o w = x \o v
  <2>1. s \o (a \o v) = (s \o a) \o v
    <3>1. s \in Bytes /\ a \in Bytes /\ v \in Bytes
      BY <1>2, <1>4
    <3>2. QED
      BY <3>1, Grouped, Zenon
  <2>2. QED
    BY <1>5, <1>7, <2>1, Zenon
<1>12. x \o v = y \o u
  <2>1. x \o (z \o u) = (x \o z) \o u
    <3>1. x \in Bytes /\ z \in Bytes /\ u \in Bytes
      BY <1>2, <1>3, <1>7
    <3>2. QED
      BY <3>1, Grouped, Zenon
  <2>2. QED
    BY <1>4, <1>8, <2>1, Zenon
<1>13. y \o u = (y \o m) \o z
  <2>1. y \o (m \o z) = (y \o m) \o z
    <3>1. y \in Bytes /\ m \in Bytes /\ z \in Bytes
      BY <1>2, <1>8
    <3>2. QED
      BY <3>1, Grouped, Zenon
  <2>2. QED
    BY <1>3, <2>1, Zenon
<1>14. s \o FrameOf(f) = (((((s \o a) \o z) \o m) \o z) \o c) \o z
  BY <1>7, <1>8, <1>9, <1>10, <1>11, <1>12, <1>13, Zenon
<1>15. QED
  BY <1>1, <1>14, Zenon

\* A frame is a list of bytes that a NUL ends.
LEMMA FrameType ==
  ASSUME NEW s \in Bytes, NEW f \in File
  PROVE  /\ s \o FrameOf(f) \in Bytes /\ s \o FrameOf(f) # <<>>
         /\ Closed(s \o FrameOf(f))
<1>1. PICK a, m, c, z : a = Name[f.path] /\ m = <<f.mode>> /\ c = f.content /\ z = <<NUL>>
  OBVIOUS
<1>2. a \in Bytes /\ m \in Bytes /\ c \in Bytes /\ z \in Bytes
  <2>1. a \in Parts /\ m \in Parts /\ c \in Bytes /\ z \in Bytes
    BY <1>1, FrameParts, PartsAreBytes, Zenon
  <2>2. QED
    BY <2>1, PartsAreBytes
<1>3. PICK t : t \in Bytes /\ t = s \o a
  BY <1>2, Joined, Zenon
<1>4. PICK u : u \in Bytes /\ u = t \o z
  BY <1>2, <1>3, Joined, Zenon
<1>5. PICK v : v \in Bytes /\ v = u \o m
  BY <1>2, <1>4, Joined, Zenon
<1>6. PICK w : w \in Bytes /\ w = v \o z
  BY <1>2, <1>5, Joined, Zenon
<1>7. PICK x : x \in Bytes /\ x = w \o c
  BY <1>2, <1>6, Joined, Zenon
<1>8. s \o FrameOf(f) = x \o <<NUL>>
  <2>1. s \o FrameOf(f) = (((((s \o a) \o z) \o m) \o z) \o c) \o <<NUL>>
    BY <1>1, FrameAfter
  <2>2. QED
    BY <1>3, <1>4, <1>5, <1>6, <1>7, <2>1
<1>9. QED
  BY <1>7, <1>8, NulEnds, Zenon

\* A content without a NUL is a part of a frame like a name.
LEMMA TextParts ==
  ASSUME NEW f \in File, ~Binary(f)
  PROVE  f.content \in Parts
<1>1. f.content \in Seq(Nat)
  BY FrameParts DEF Bytes
<1>2. PICK c : c = f.content
  OBVIOUS
<1>3. c \in Seq(Nat) /\ \A i \in DOMAIN c : c[i] # NUL
  BY <1>1, <1>2 DEF Binary
<1>4. c \in Seq(Nat \ {NUL})
  BY <1>3
<1>5. QED
  BY <1>2, <1>4 DEF Parts

\* The last frame of a digest can be read back if there are no binary files.
LEMMA FrameTells ==
  ASSUME NEW x \in Bytes, NEW y \in Bytes, NEW f \in File, NEW g \in File,
         ~Binary(f), ~Binary(g), Closed(x), Closed(y), x \o FrameOf(f) = y \o FrameOf(g)
  PROVE  x = y /\ f = g
<1>1. PICK a, m, c : /\ a \in Parts /\ m \in Parts /\ c \in Parts
                     /\ a = Name[f.path] /\ m = <<f.mode>> /\ c = f.content
  BY FrameParts, TextParts
<1>2. PICK b, k, d : /\ b \in Parts /\ k \in Parts /\ d \in Parts
                     /\ b = Name[g.path] /\ k = <<g.mode>> /\ d = g.content
  BY FrameParts, TextParts
<1>3. (((((x \o a) \o <<NUL>>) \o m) \o <<NUL>>) \o c) \o <<NUL>>
        = (((((y \o b) \o <<NUL>>) \o k) \o <<NUL>>) \o d) \o <<NUL>>
  BY <1>1, <1>2, FrameAfter
<1>4. x \o a \in Bytes /\ y \o b \in Bytes
  BY <1>1, <1>2, PartsAreBytes, Joined
<1>5. PICK p, q : /\ p \in Bytes /\ p = (x \o a) \o <<NUL>> /\ Closed(p)
                  /\ q \in Bytes /\ q = (y \o b) \o <<NUL>> /\ Closed(q)
  BY <1>4, NulEnds
<1>6. p \o m \in Bytes /\ q \o k \in Bytes
  BY <1>1, <1>2, <1>5, PartsAreBytes, Joined
<1>7. PICK v, w : /\ v \in Bytes /\ v = (p \o m) \o <<NUL>> /\ Closed(v)
                  /\ w \in Bytes /\ w = (q \o k) \o <<NUL>> /\ Closed(w)
  BY <1>6, NulEnds
<1>8. v = w /\ c = d
  <2>1. (v \o c) \o <<NUL>> = (w \o d) \o <<NUL>>
    BY <1>3, <1>5, <1>7, Zenon
  <2>2. v \in Bytes /\ w \in Bytes /\ c \in Parts /\ d \in Parts
    BY <1>1, <1>2, <1>7
  <2>3. Closed(v) => (Closed(w) => v = w /\ c = d)
    BY <2>1, <2>2, PartBeforeNul, Zenon
  <2>4. QED
    BY <1>7, <2>3
<1>9. p = q /\ m = k
  <2>1. (p \o m) \o <<NUL>> = (q \o k) \o <<NUL>>
    BY <1>7, <1>8, Zenon
  <2>2. p \in Bytes /\ q \in Bytes /\ m \in Parts /\ k \in Parts
    BY <1>1, <1>2, <1>5
  <2>3. Closed(p) => (Closed(q) => p = q /\ m = k)
    BY <2>1, <2>2, PartBeforeNul, Zenon
  <2>4. QED
    BY <1>5, <2>3
<1>10. x = y /\ a = b
  <2>1. (x \o a) \o <<NUL>> = (y \o b) \o <<NUL>>
    BY <1>5, <1>9, Zenon
  <2>2. x \in Bytes /\ y \in Bytes /\ a \in Parts /\ b \in Parts
    BY <1>1, <1>2
  <2>3. Closed(x) => (Closed(y) => x = y /\ a = b)
    BY <2>1, <2>2, PartBeforeNul, Zenon
  <2>4. QED
    BY <2>3
<1>11. f.path = g.path
  BY <1>1, <1>2, <1>10, FrameParts, ContextAssumption DEF IsInjective
<1>12. f.mode = g.mode /\ f.content = g.content
  BY <1>1, <1>2, <1>8, <1>9
<1>13. f = g
  BY <1>11, <1>12 DEF File
<1>14. QED
  BY <1>10, <1>13

\* Nothing written is the digest of no files.
LEMMA WritesNone ==
  ASSUME NEW H, NEW s, Writes(0, H, s)
  PROVE  H = {} /\ s = <<>>
BY DEF Writes

LEMMA WritesNothing == Writes(0, {}, <<>>)
<1> DEFINE q == [i \in 1 .. 0 |-> CHOOSE f \in File : TRUE]
           t == [i \in 0 .. 0 |-> <<>>]
<1>1. q \in [1 .. 0 -> File] /\ t \in [0 .. 0 -> Bytes] /\ t[0] = <<>>
  BY PartsAreBytes
<1>2. {q[i] : i \in 1 .. 0} = {}
  OBVIOUS
<1> HIDE DEF q, t
<1>3. QED
  BY <1>1, <1>2 DEF Writes

\* A file that sorts after the others is written after them.
LEMMA WritesMore ==
  ASSUME NEW n \in Nat, NEW H, NEW s, Writes(n, H, s), NEW f \in File,
         \A h \in H : h.path < f.path
  PROVE  Writes(n + 1, H \cup {f}, s \o FrameOf(f))
<1>1. PICK q \in [1 .. n -> File], t \in [0 .. n -> Bytes] :
         /\ t[0] = <<>> /\ \A i \in 1 .. n : t[i] = t[i - 1] \o FrameOf(q[i])
         /\ \A i, j \in 1 .. n : i < j => q[i].path < q[j].path
         /\ H = {q[i] : i \in 1 .. n} /\ s = t[n]
  BY DEF Writes
<1> DEFINE u == [i \in 1 .. n + 1 |-> IF i = n + 1 THEN f ELSE q[i]]
           v == [i \in 0 .. n + 1 |-> IF i = n + 1 THEN s \o FrameOf(f) ELSE t[i]]
<1>2. s \in Bytes /\ s \o FrameOf(f) \in Bytes
  BY <1>1, FrameType
<1>3. /\ u \in [1 .. n + 1 -> File] /\ u[n + 1] = f
      /\ \A i \in 1 .. n : u[i] = q[i]
  OBVIOUS
<1>4. /\ v \in [0 .. n + 1 -> Bytes] /\ v[n + 1] = s \o FrameOf(f)
      /\ \A i \in 0 .. n : v[i] = t[i]
  BY <1>2
<1> HIDE DEF u, v
<1>5. \A i \in 1 .. n + 1 : i = n + 1 \/ (i \in 1 .. n /\ i < n + 1)
  OBVIOUS
<1>6. v[0] = <<>> /\ \A i \in 1 .. n + 1 : v[i] = v[i - 1] \o FrameOf(u[i])
  <2>1. v[0] = <<>> /\ v[n] = s
    BY <1>1, <1>4
  <2>2. \A i \in 1 .. n : v[i] = v[i - 1] \o FrameOf(u[i])
    <3>1. \A i \in 1 .. n : i \in 0 .. n /\ i - 1 \in 0 .. n
      OBVIOUS
    <3>2. QED
      BY <1>1, <1>3, <1>4, <3>1
  <2>3. (n + 1) - 1 = n
    OBVIOUS
  <2>4. QED
    BY <1>3, <1>4, <1>5, <2>1, <2>2, <2>3
<1>7. \A i, j \in 1 .. n + 1 : i < j => u[i].path < u[j].path
  <2>1. \A i \in 1 .. n : q[i] \in H
    BY <1>1
  <2>2. \A i, j \in 1 .. n + 1 : i < j => i \in 1 .. n
    OBVIOUS
  <2>3. QED
    BY <1>1, <1>3, <1>5, <2>1, <2>2
<1>8. H \cup {f} = {u[i] : i \in 1 .. n + 1}
  <2>1. n + 1 \in 1 .. n + 1 /\ \A i \in 1 .. n : i \in 1 .. n + 1
    OBVIOUS
  <2>2. QED
    BY <1>1, <1>3, <1>5, <2>1
<1>9. QED
  BY <1>3, <1>4, <1>6, <1>7, <1>8 DEF Writes

\* The last file of a digest comes after what is the digest of the others.
LEMMA WritesLast ==
  ASSUME NEW n \in Nat, NEW H, NEW s, Writes(n + 1, H, s)
  PROVE  \E G, r : \E f \in File :
           /\ Writes(n, G, r) /\ r \in Bytes
           /\ H = G \cup {f} /\ s = r \o FrameOf(f)
           /\ \A g \in G : g \in File /\ g.path < f.path
<1>1. PICK q \in [1 .. n + 1 -> File], t \in [0 .. n + 1 -> Bytes] :
         /\ t[0] = <<>> /\ \A i \in 1 .. n + 1 : t[i] = t[i - 1] \o FrameOf(q[i])
         /\ \A i, j \in 1 .. n + 1 : i < j => q[i].path < q[j].path
         /\ H = {q[i] : i \in 1 .. n + 1} /\ s = t[n + 1]
  BY DEF Writes
<1> DEFINE u == [i \in 1 .. n |-> q[i]]
           v == [i \in 0 .. n |-> t[i]]
           G == {u[i] : i \in 1 .. n}
<1>2. u \in [1 .. n -> File] /\ v \in [0 .. n -> Bytes] /\ v[0] = <<>>
  BY <1>1
<1>3. \A i \in 1 .. n : v[i] = v[i - 1] \o FrameOf(u[i])
  <2>1. \A i \in 1 .. n : i \in 1 .. n + 1 /\ i \in 0 .. n /\ i - 1 \in 0 .. n
    OBVIOUS
  <2>2. (\A i \in 1 .. n : u[i] = q[i]) /\ \A i \in 0 .. n : v[i] = t[i]
    OBVIOUS
  <2> HIDE DEF u, v
  <2>3. QED
    BY <1>1, <2>1, <2>2
<1>4. \A i, j \in 1 .. n : i < j => u[i].path < u[j].path
  BY <1>1
<1>5. Writes(n, G, v[n])
  <2> HIDE DEF u, v
  <2>1. QED
    BY <1>2, <1>3, <1>4 DEF Writes
<1>6. H = G \cup {q[n + 1]} /\ \A g \in G : g \in File /\ g.path < q[n + 1].path
  <2>1. \A i \in 1 .. n : u[i] = q[i] /\ i \in 1 .. n + 1 /\ i < n + 1
    OBVIOUS
  <2>2. n + 1 \in 1 .. n + 1 /\ \A i \in 1 .. n + 1 : i = n + 1 \/ i \in 1 .. n
    OBVIOUS
  <2> HIDE DEF u
  <2>3. QED
    BY <1>1, <1>2, <2>1, <2>2
<1>7. s = v[n] \o FrameOf(q[n + 1]) /\ v[n] \in Bytes /\ q[n + 1] \in File
  <2>1. n + 1 \in 1 .. n + 1 /\ (n + 1) - 1 = n /\ v[n] = t[n] /\ n \in 0 .. n + 1
    OBVIOUS
  <2> HIDE DEF v
  <2>2. QED
    BY <1>1, <2>1
<1> HIDE DEF G, v
<1>8. QED
  BY <1>5, <1>6, <1>7

\* A digest of files is empty, or a NUL ends it.
LEMMA WritesEnd ==
  ASSUME NEW n \in Nat, NEW H, NEW s, Writes(n, H, s)
  PROVE  s \in Bytes /\ Closed(s) /\ (n # 0 => s # <<>>)
<1>1. CASE n = 0
  BY <1>1, WritesNone, PartsAreBytes DEF Closed
<1>2. CASE n # 0
  <2> DEFINE m == n - 1
  <2>1. m \in Nat /\ n = m + 1
    BY <1>2
  <2> HIDE DEF m
  <2>2. PICK G, r : \E f \in File : r \in Bytes /\ s = r \o FrameOf(f)
    BY <2>1, WritesLast
  <2>3. QED
    BY <2>2, FrameType
<1>3. QED
  BY <1>1, <1>2

\* f is the last of the n files H, and r the digest of the others.
Ends(n, H, s, G, r, f) ==
  /\ n - 1 \in Nat /\ f \in File
  /\ Writes(n - 1, G, r) /\ r \in Bytes /\ Closed(r)
  /\ H = G \cup {f} /\ s = r \o FrameOf(f)
  /\ \A g \in G : g \in File /\ g.path < f.path

LEMMA WritesSplit ==
  \A n \in Nat : \A H, s : Writes(n, H, s) /\ n # 0 => \E G, r, f : Ends(n, H, s, G, r, f)
<1> SUFFICES ASSUME NEW n \in Nat, NEW H, NEW s, Writes(n, H, s), n # 0
             PROVE  \E G, r, f : Ends(n, H, s, G, r, f)
  OBVIOUS
<1> DEFINE k == n - 1
<1>1. k \in Nat /\ n = k + 1
  OBVIOUS
<1> HIDE DEF k
<1>2. Writes(k + 1, H, s)
  BY <1>1
<1>3. PICK G, r : \E f \in File :
        /\ Writes(k, G, r) /\ r \in Bytes
        /\ H = G \cup {f} /\ s = r \o FrameOf(f)
        /\ \A g \in G : g \in File /\ g.path < f.path
  BY <1>1, <1>2, WritesLast
<1>4. Closed(r)
  BY <1>1, <1>3, WritesEnd
<1>5. PICK f \in File : H = G \cup {f} /\ s = r \o FrameOf(f)
                       /\ \A g \in G : g \in File /\ g.path < f.path
  BY <1>3
<1>6. Ends(n, H, s, G, r, f)
  BY <1>1, <1>3, <1>4, <1>5 DEF k, Ends
<1>7. QED
  BY <1>6

LEMMA WritesEmpty ==
  \A n \in Nat : \A H, s : Writes(n, H, s) =>
    /\ n = 0 => H = {} /\ s = <<>>
    /\ n # 0 => H # {} /\ s # <<>>
<1> SUFFICES ASSUME NEW n \in Nat, NEW H, NEW s, Writes(n, H, s)
             PROVE  /\ n = 0 => H = {} /\ s = <<>>
                    /\ n # 0 => H # {} /\ s # <<>>
  OBVIOUS
<1>1. n = 0 => H = {} /\ s = <<>>
  BY WritesNone
<1>2. n # 0 => s # <<>>
  BY WritesEnd
<1>3. ASSUME n # 0
      PROVE  H # {}
  <2>1. PICK G, r, f : Ends(n, H, s, G, r, f)
    BY <1>3, WritesSplit, Zenon
  <2>2. QED
    BY <2>1 DEF Ends
<1>4. QED
  BY <1>1, <1>2, <1>3

\* One digest is of one set of files, if none of them is binary.
Text(H) == \A h \in H : ~Binary(h)

LEMMA WritesTells ==
  ASSUME NEW n \in Nat, NEW m \in Nat, NEW H, NEW G, NEW s, Writes(n, H, s), Writes(m, G, s),
         Text(H \cup G)
  PROVE  H = G
<1> DEFINE Wrong(i) == \E j \in Nat : \E A, B, r :
             Writes(i, A, r) /\ Writes(j, B, r) /\ Text(A \cup B) /\ A # B
           T == {i \in Nat : Wrong(i)}
<1>1. ASSUME T # {}
      PROVE  FALSE
  <2>1. PICK i : i \in T /\ \A l \in T : i <= l
    BY <1>1, LeastNumber
  <2>2. PICK j : j \in Nat /\ \E A, B, r :
                   Writes(i, A, r) /\ Writes(j, B, r) /\ Text(A \cup B) /\ A # B
    BY <2>1
  <2>3. PICK A, B, r : Writes(i, A, r) /\ Writes(j, B, r) /\ Text(A \cup B) /\ A # B
    BY <2>2
  <2>4. i \in Nat /\ \A l \in Nat : l < i => ~Wrong(l)
    <3> HIDE DEF Wrong
    <3>1. QED
      BY <2>1
  <2>5. CASE i = 0 \/ j = 0
    <3>1. /\ i = 0 => A = {} /\ r = <<>>
          /\ i # 0 => A # {} /\ r # <<>>
      BY <2>3, <2>4, WritesEmpty, Zenon
    <3>2. /\ j = 0 => B = {} /\ r = <<>>
          /\ j # 0 => B # {} /\ r # <<>>
      BY <2>2, <2>3, WritesEmpty, Zenon
    <3>3. QED
      BY <2>3, <2>5, <3>1, <3>2
  <2>6. CASE i # 0 /\ j # 0
    <3>1. PICK C, x, f : Ends(i, A, r, C, x, f)
      BY <2>3, <2>4, <2>6, WritesSplit, Zenon
    <3>2. PICK D, y, g : Ends(j, B, r, D, y, g)
      BY <2>2, <2>3, <2>6, WritesSplit, Zenon
    <3> USE <3>1, <3>2 DEF Ends
    <3>3. x = y /\ f = g
      <4>1. x \o FrameOf(f) = y \o FrameOf(g)
        BY <3>1, <3>2
      <4>2. ~Binary(f) /\ ~Binary(g)
        BY <2>3, <3>1, <3>2 DEF Text
      <4>3. QED
        BY <3>1, <3>2, <4>1, <4>2, FrameTells, Zenon
    <3>4. i - 1 < i
      BY <2>4
    <3>5. ~Wrong(i - 1)
      <4> HIDE DEF Wrong
      <4>1. QED
        BY <2>4, <3>1, <3>4
    <3>6. C = D
      <4>1. Text(C \cup D)
        BY <2>3, <3>1, <3>2 DEF Text
      <4>2. QED
        BY <3>1, <3>2, <3>3, <3>5, <4>1, Zenon
    <3>7. QED
      BY <2>3, <3>1, <3>2, <3>3, <3>6
  <2>7. QED
    BY <2>5, <2>6
<1>2. ~Wrong(n)
  <2> HIDE DEF Wrong
  <2>1. QED
    BY <1>1
<1>3. QED
  BY <1>2

\* A set of files has one digest.
LEMMA WritesSame ==
  ASSUME NEW n \in Nat, NEW m \in Nat, NEW H, NEW s, NEW t, Writes(n, H, s), Writes(m, H, t)
  PROVE  s = t
<1> DEFINE Wrong(i) == \E j \in Nat : \E A, x, y : Writes(i, A, x) /\ Writes(j, A, y) /\ x # y
           T == {i \in Nat : Wrong(i)}
<1>1. ASSUME T # {}
      PROVE  FALSE
  <2>1. PICK i : i \in T /\ \A l \in T : i <= l
    BY <1>1, LeastNumber
  <2>2. PICK j : j \in Nat /\ \E A, x, y : Writes(i, A, x) /\ Writes(j, A, y) /\ x # y
    BY <2>1
  <2>3. PICK A, u, v : Writes(i, A, u) /\ Writes(j, A, v) /\ u # v
    BY <2>2
  <2>4. i \in Nat /\ \A l \in Nat : l < i => ~Wrong(l)
    <3> HIDE DEF Wrong
    <3>1. QED
      BY <2>1
  <2>5. CASE i = 0 \/ j = 0
    BY <2>2, <2>3, <2>4, <2>5, WritesEmpty
  <2>6. CASE i # 0 /\ j # 0
    <3>1. PICK C, x, f : Ends(i, A, u, C, x, f)
      BY <2>3, <2>4, <2>6, WritesSplit, Zenon
    <3>2. PICK D, y, g : Ends(j, A, v, D, y, g)
      BY <2>2, <2>3, <2>6, WritesSplit, Zenon
    <3> USE <3>1, <3>2 DEF Ends
    <3>3. \A h \in File : h.path \in Nat
      BY ContextAssumption DEF File
    <3>4. f \notin C /\ g \notin D
      <4>1. f \in C => f.path < f.path
        BY <3>1
      <4>2. g \in D => g.path < g.path
        BY <3>2
      <4>3. f.path \in Nat /\ g.path \in Nat
        BY <3>1, <3>2, <3>3
      <4>4. QED
        BY <4>1, <4>2, <4>3
    <3>5. f = g
      <4>1. f \in D \cup {g} /\ g \in C \cup {f}
        BY <3>1, <3>2
      <4>2. f # g => f.path < g.path /\ g.path < f.path
        BY <3>1, <3>2, <4>1
      <4>3. f.path \in Nat /\ g.path \in Nat
        BY <3>1, <3>2, <3>3
      <4>4. QED
        BY <4>2, <4>3
    <3>6. C = A \ {f} /\ D = A \ {g}
      <4>1. A = C \cup {f} /\ A = D \cup {g}
        BY <3>1, <3>2
      <4>2. QED
        BY <3>4, <4>1
    <3>7. i - 1 < i
      BY <2>4
    <3>8. ~Wrong(i - 1)
      <4> HIDE DEF Wrong
      <4>1. QED
        BY <2>4, <3>1, <3>7
    <3>9. x = y
      <4>1. C = D
        BY <3>5, <3>6
      <4>2. QED
        BY <3>1, <3>2, <3>8, <4>1, Zenon
    <3>10. QED
      BY <2>3, <3>1, <3>2, <3>5, <3>9
  <2>7. QED
    BY <2>5, <2>6
<1>2. ~Wrong(n)
  <2> HIDE DEF Wrong
  <2>1. QED
    BY <1>1
<1>3. QED
  BY <1>2

-----------------------------------------------------------------------------
(***************************************************************************)
(* The invariant, one lemma per action.                                    *)
(***************************************************************************)

\* The bytes written are the frames of the files hashed, in their order.
WrittenInv == /\ Written(hashed, sum)
              /\ earlier.ok => Written(earlier.hashed, earlier.digest)

Inv == HashInv /\ WrittenInv

LEMMA EmptyList == Range(<<>>) = {} /\ \A S : <<>> \in Seq(S)
BY DEF Range

\* A list with nothing on it is empty.
LEMMA NothingListed ==
  ASSUME NEW S, NEW q \in Seq(S), Range(q) = {}
  PROVE  q = <<>>
BY HeadOthers

\* What two lists name one after the other.
LEMMA RangeJoined ==
  ASSUME NEW S, NEW q \in Seq(S), NEW r \in Seq(S)
  PROVE  q \o r \in Seq(S) /\ Range(q \o r) = Range(q) \cup Range(r)
<1>1. /\ Len(q) \in Nat /\ Len(r) \in Nat /\ q \o r \in Seq(S)
      /\ Len(q \o r) = Len(q) + Len(r)
      /\ \A i \in 1 .. Len(q) + Len(r) :
           (q \o r)[i] = IF i <= Len(q) THEN q[i] ELSE r[i - Len(q)]
  BY ConcatProperties, LenProperties
<1>2. DOMAIN q = 1 .. Len(q) /\ DOMAIN r = 1 .. Len(r) /\ DOMAIN (q \o r) = 1 .. Len(q) + Len(r)
  BY <1>1, LenProperties
<1>3. Range(q) \subseteq Range(q \o r)
  BY <1>1, <1>2 DEF Range
<1>4. Range(r) \subseteq Range(q \o r)
  <2> SUFFICES ASSUME NEW i \in 1 .. Len(r)
               PROVE  r[i] \in Range(q \o r)
    BY <1>2 DEF Range
  <2>1. /\ i + Len(q) \in 1 .. Len(q) + Len(r) /\ ~(i + Len(q) <= Len(q))
        /\ (i + Len(q)) - Len(q) = i
    BY <1>1
  <2>2. (q \o r)[i + Len(q)] = r[i]
    BY <1>1, <2>1
  <2>3. QED
    BY <1>2, <2>1, <2>2 DEF Range
<1>5. Range(q \o r) \subseteq Range(q) \cup Range(r)
  <2> SUFFICES ASSUME NEW i \in 1 .. Len(q) + Len(r)
               PROVE  (q \o r)[i] \in Range(q) \cup Range(r)
    BY <1>2 DEF Range
  <2>1. i <= Len(q) => i \in 1 .. Len(q)
    BY <1>1
  <2>2. ~(i <= Len(q)) => i - Len(q) \in 1 .. Len(r)
    BY <1>1
  <2>3. QED
    BY <1>1, <1>2, <2>1, <2>2 DEF Range
<1>6. QED
  BY <1>1, <1>3, <1>4, <1>5

\* An undisturbed hash goes by the rules of the ignore file.
LEMMA RulesKnown ==
  ASSUME HashInv, Past, steady = Paths
  PROVE  patterns = Rules
BY ContextAssumption DEF HashInv, RulesInv, RulesSteady

\* What the world is asked does not change while it does not.
LEMMA WorldSame ==
  ASSUME UNCHANGED world
  PROVE  /\ tree' = tree /\ setup' = setup /\ steady' = steady /\ since' = since
         /\ earlier' = earlier /\ changes' = changes /\ hashes' = hashes
         /\ IgnoreText' = IgnoreText /\ Rules' = Rules /\ (RulesSteady' <=> RulesSteady)
         /\ (SinceInv => SinceInv')
         /\ \A p \in Paths : (Leaf(p)' <=> Leaf(p)) /\ AsHashed(p)' = AsHashed(p)
                             /\ (Obstacle(p)' <=> Obstacle(p))
<1>1. /\ tree' = tree /\ setup' = setup /\ steady' = steady /\ since' = since
      /\ earlier' = earlier /\ changes' = changes /\ hashes' = hashes
  BY DEF world
<1>2. IgnoreText' = IgnoreText
  BY <1>1 DEF IgnoreText
<1>3. Rules' = Rules
  BY <1>2 DEF Rules
<1>4. RulesSteady' <=> RulesSteady
  BY <1>1 DEF RulesSteady
<1>5. \A p \in Paths : (Leaf(p)' <=> Leaf(p)) /\ AsHashed(p)' = AsHashed(p)
                       /\ (Obstacle(p)' <=> Obstacle(p))
  BY <1>1, <1>3 DEF Leaf, AsHashed, Obstacle
<1>6. Included' = Included
  BY <1>1, <1>3 DEF Included, Leaf, AsHashed
<1>7. Quiet(since)' <=> Quiet(since)
  BY <1>1, <1>3 DEF Quiet
<1>8. SinceInv => SinceInv'
  BY <1>1, <1>6, <1>7 DEF SinceInv
<1>9. QED
  BY <1>1, <1>2, <1>3, <1>4, <1>5, <1>8

LEMMA InvInit == Init => Inv
<1> SUFFICES ASSUME Init
             PROVE  Inv
  OBVIOUS
<1> USE DEF Init
<1>1. TypeOK
  BY EmptyList, ContextAssumption DEF TypeOK, NoHash
<1>2. StepInv /\ RulesInv
  BY DEF StepInv, RulesInv, Past, Walking
<1>3. KeptInv /\ FreshInv
  BY DEF KeptInv, FreshInv, Walking
<1>4. CoverInv /\ OrderInv
  BY DEF CoverInv, OrderInv
<1>5. CauseInv
  BY DEF CauseInv, FailsForCause, Walking
<1>6. SinceInv
  BY DEF SinceInv, NoHash
<1>7. WrittenInv
  BY WritesNothing DEF WrittenInv, Written, NoHash
<1>8. QED
  BY <1>1, <1>2, <1>3, <1>4, <1>5, <1>6, <1>7 DEF Inv, HashInv

LEMMA InvStutter ==
  ASSUME Inv, UNCHANGED vars
  PROVE  Inv'
<1>1. UNCHANGED world /\ UNCHANGED local /\ pc' = pc /\ outcome' = outcome
  BY DEF vars
<1>2. /\ patterns' = patterns /\ at' = at /\ queue' = queue /\ entries' = entries
      /\ sum' = sum /\ hashed' = hashed
  BY <1>1 DEF local
<1> USE <1>1, <1>2, WorldSame
<1>3. HashInv
  BY DEF Inv
<1>4. TypeOK' /\ StepInv'
  BY <1>3 DEF HashInv, TypeOK, StepInv, Past, Walking
<1>5. RulesInv' /\ KeptInv' /\ OrderInv'
  BY <1>3 DEF HashInv, RulesInv, KeptInv, OrderInv, Past, Walking
<1>6. FreshInv' /\ CoverInv'
  BY <1>3 DEF HashInv, FreshInv, CoverInv, Due, Kept, Queued, Leaf, AsHashed
<1>7. CauseInv'
  BY <1>3 DEF HashInv, CauseInv, FailsForCause, Walking
<1>8. SinceInv'
  BY <1>3 DEF HashInv
<1>9. WrittenInv'
  BY DEF Inv, WrittenInv
<1>10. QED
  BY <1>4, <1>5, <1>6, <1>7, <1>8, <1>9 DEF Inv, HashInv

\* Changes of the tree, while a hash runs and between two.
LEMMA InvDisturb ==
  ASSUME Inv, NEW p \in Paths, Change(p) \/ \E q \in Paths : Rename(p, q)
  PROVE  Inv'
<1>1. HashInv /\ TypeOK
  BY DEF Inv, HashInv
<1>2. /\ setup' = setup /\ earlier' = earlier /\ hashes' = hashes /\ pc' = pc /\ outcome' = outcome
      /\ patterns' = patterns /\ at' = at /\ queue' = queue /\ entries' = entries
      /\ sum' = sum /\ hashed' = hashed
      /\ changes < MaxChanges /\ changes' = changes + 1
  BY DEF Change, Rename, local
<1>3. /\ steady' \subseteq steady /\ steady' # Paths
      /\ \A r \in steady' : tree'[r] = tree[r] /\ (Exists(tree', r) <=> Exists(tree, r))
  BY <1>1, SteadyKept
<1>4. PICK D \in SUBSET Paths :
           /\ since' = since \cup D
           /\ \A r \in steady \ steady' : ({r} \cup Above[r]) \cap D # {}
           /\ \A r \in Paths : ({r} \cup Above[r]) \cap D = {} =>
                tree'[r] = tree[r] /\ (Exists(tree', r) <=> Exists(tree, r))
  BY <1>1, Touched
<1>5. tree' \in [Paths -> Node]
  <2>1. tree \in [Paths -> Node]
    BY <1>1 DEF TypeOK
  <2>2. CASE Change(p)
    <3>1. PICK n \in Edits[p] : tree' = [tree EXCEPT ![p] = n]
      BY <2>2 DEF Change
    <3>2. n \in Node
      BY ContextAssumption
    <3>3. QED
      BY <2>1, <3>1, <3>2
  <2>3. ASSUME NEW q \in Paths, Rename(p, q)
        PROVE  tree' \in [Paths -> Node]
    <3>1. tree[p] \in Node
      BY <2>1
    <3>2. Nothing \in Node
      BY <3>1, ContextAssumption DEF Nothing, Node
    <3>3. QED
      BY <2>1, <2>3, <3>1, <3>2 DEF Rename
  <2>4. QED
    BY <2>2, <2>3
<1>6. TypeOK'
  BY <1>1, <1>2, <1>3, <1>4, <1>5, ContextAssumption DEF TypeOK
<1>7. /\ setup.dockerignore # Absent => Rules' = Rules
      /\ /\ tree'[IgnoreFile] = tree[IgnoreFile]
         /\ Exists(tree', IgnoreFile) <=> Exists(tree, IgnoreFile)
         => Rules' = Rules
  BY <1>2 DEF Rules, IgnoreText
<1>8. StepInv'
  BY <1>1, <1>2 DEF HashInv, StepInv, Past, Walking
<1>9. RulesInv'
  <2>1. SUFFICES ASSUME Past', RulesSteady'
                 PROVE  patterns' = Rules'
    BY DEF RulesInv
  <2>2. Past /\ RulesSteady
    BY <1>2, <1>3, <2>1 DEF Past, RulesSteady
  <2>3. Rules' = Rules
    BY <1>2, <1>3, <1>7, <2>1 DEF RulesSteady
  <2>4. QED
    BY <1>1, <1>2, <2>2, <2>3 DEF HashInv, RulesInv
<1>10. KeptInv' /\ OrderInv'
  BY <1>1, <1>2 DEF HashInv, KeptInv, OrderInv, Walking
<1>11. FreshInv'
  BY <1>1, <1>2, <1>3 DEF HashInv, FreshInv, Leaf, AsHashed
<1>12. CoverInv'
  <2>1. ASSUME NEW q \in Paths, Due(q)'
        PROVE  Due(q) /\ (Kept(q)' <=> Kept(q)) /\ (Queued(q)' <=> Queued(q)) /\ AsHashed(q)' = AsHashed(q)
    BY <1>2, <1>3, <2>1 DEF Due, Kept, Queued, AsHashed, Leaf
  <2>2. QED
    BY <1>1, <1>2, <2>1 DEF HashInv, CoverInv
<1>13. CauseInv'
  BY <1>3 DEF CauseInv, FailsForCause
<1>14. SinceInv'
  <2>1. ASSUME NEW q \in Paths \ steady'
        PROVE  ({q} \cup Above[q]) \cap since' # {}
    <3>1. CASE q \in steady
      BY <1>4, <3>1
    <3>2. CASE q \notin steady
      BY <1>1, <1>4, <3>2 DEF HashInv, SinceInv
    <3>3. QED
      BY <3>1, <3>2
  <2>2. ASSUME earlier'.ok, Quiet(since)'
        PROVE  earlier'.hashed = Included'
    <3>1. \A d \in D : /\ Excluded(Rules', d) \/ Skipped(Rules', d)
                       /\ d = IgnoreFile => setup.dockerignore # Absent
      BY <1>2, <1>4, <2>2 DEF Quiet
    <3>2. Rules' = Rules
      <4>1. Above[IgnoreFile] = {} /\ IgnoreFile \in Paths
        BY AboveChild, ContextAssumption
      <4>2. CASE IgnoreFile \in D
        BY <1>7, <3>1, <4>2
      <4>3. CASE IgnoreFile \notin D
        BY <1>4, <1>7, <4>1, <4>3
      <4>4. QED
        BY <4>2, <4>3
    <3>3. Quiet(since)
      BY <1>2, <1>4, <2>2, <3>2 DEF Quiet
    <3>4. ASSUME NEW q \in Paths, ~Excluded(Rules, q), ~Skipped(Rules, q)
          PROVE  tree'[q] = tree[q] /\ (Exists(tree', q) <=> Exists(tree, q))
      <4>1. \A a \in Above[q] : a \notin D
        BY <3>1, <3>2, <3>4, SkippedBelow
      <4>2. q \notin D
        BY <3>1, <3>2, <3>4
      <4>3. QED
        BY <1>4, <4>1, <4>2
    <3>5. Included' = Included
      <4>1. \A q \in Paths : ~Excluded(Rules, q) /\ ~Skipped(Rules, q) =>
              (Leaf(q)' <=> Leaf(q)) /\ AsHashed(q)' = AsHashed(q)
        BY <3>4 DEF Leaf, AsHashed
      <4>2. QED
        BY <1>2, <3>2, <4>1 DEF Included
    <3>6. QED
      BY <1>1, <1>2, <2>2, <3>3, <3>5 DEF HashInv, SinceInv
  <2>3. QED
    BY <2>1, <2>2 DEF SinceInv
<1>15. WrittenInv'
  BY <1>2 DEF Inv, WrittenInv
<1>16. QED
  BY <1>6, <1>8, <1>9, <1>10, <1>11, <1>12, <1>13, <1>14, <1>15 DEF Inv, HashInv

\* A hash that nothing but what is ignored disturbed is of what is included.
LEMMA QuietHash ==
  ASSUME HashInv, outcome = "ok", Quiet(Paths \ steady)
  PROVE  hashed = Included
<1>1. Past /\ setup.root \in {"dir", "link"} /\ (setup.root = "link" => hashed = {})
  BY DEF HashInv, StepInv, Past
<1>2. patterns = Rules
  BY <1>1, ContextAssumption DEF HashInv, RulesInv, RulesSteady, Quiet
<1>3. CASE setup.root = "link"
  BY <1>1, <1>3 DEF Included
<1>4. CASE setup.root = "dir"
  <2>1. ASSUME NEW h \in hashed
        PROVE  h \in Included
    <3>1. PICK e \in entries : e.path = h.path
      BY DEF HashInv, KeptInv
    <3>2. h.path \in Paths
      BY DEF HashInv, TypeOK
    <3>3. ~Excluded(Rules, h.path) /\ ~Skipped(Rules, h.path)
      BY <1>2, <3>1 DEF HashInv, KeptInv
    <3>4. h.path \in steady
      BY <3>2, <3>3 DEF Quiet
    <3>5. Leaf(h.path) /\ h = AsHashed(h.path)
      BY <3>1, <3>4 DEF HashInv, FreshInv
    <3>6. QED
      BY <1>4, <3>2, <3>3, <3>5 DEF Included
  <2>2. ASSUME NEW q \in Paths, Leaf(q), ~Excluded(Rules, q), ~Skipped(Rules, q)
        PROVE  AsHashed(q) \in hashed
    <3>1. q \in steady
      BY <2>2 DEF Quiet
    <3>2. Due(q)
      BY <1>2, <2>2, <3>1 DEF Due
    <3>3. QED
      BY <1>4, <3>2 DEF HashInv, CoverInv
  <2>3. QED
    BY <2>1, <2>2 DEF Included
<1>5. QED
  BY <1>1, <1>3, <1>4

LEMMA InvStart ==
  ASSUME Inv, Start
  PROVE  Inv'
<1> USE DEF Start
<1>1. HashInv /\ TypeOK
  BY DEF Inv, HashInv
<1>2. /\ tree' = tree /\ setup' = setup /\ changes' = changes /\ hashes' = hashes + 1
      /\ steady' = Paths /\ patterns' = <<>> /\ at' = Root /\ queue' = <<>> /\ entries' = {}
      /\ sum' = <<>> /\ hashed' = {}
      /\ \/ setup.root = "none" /\ pc' = "done" /\ outcome' = "error"
         \/ setup.root # "none" /\ pc' = "ignore" /\ outcome' = "none"
  BY DEF Fail
<1>3. ASSUME outcome = "ok"
      PROVE  /\ earlier'.ok \in BOOLEAN /\ since' \subseteq Paths
             /\ earlier'.ok => Written(earlier'.hashed, earlier'.digest)
             /\ earlier'.ok /\ Quiet(since)' => earlier'.hashed = Included'
  <2>1. earlier' = [digest |-> sum, hashed |-> hashed, ok |-> TRUE] /\ since' = Paths \ steady
    BY <1>3
  <2>2. earlier'.ok \in BOOLEAN /\ since' \subseteq Paths
    <3>1. earlier'.ok = TRUE
      BY <2>1
    <3>2. QED
      BY <2>1, <3>1
  <2>3. Written(earlier'.hashed, earlier'.digest)
    BY <2>1 DEF Inv, WrittenInv
  <2>4. Quiet(since)' => earlier'.hashed = Included'
    <3>1. Quiet(since)' <=> Quiet(Paths \ steady)
      BY <1>2, <2>1 DEF Quiet, Rules, IgnoreText
    <3>2. Included' = Included
      BY <1>2 DEF Included, Leaf, AsHashed, Rules, IgnoreText
    <3>3. QED
      BY <1>1, <1>3, <2>1, <3>1, <3>2, QuietHash
  <2>5. QED
    BY <2>2, <2>3, <2>4
<1>4. ASSUME outcome # "ok"
      PROVE  /\ earlier'.ok \in BOOLEAN /\ since' \subseteq Paths
             /\ earlier'.ok => Written(earlier'.hashed, earlier'.digest)
             /\ earlier'.ok /\ Quiet(since)' => earlier'.hashed = Included'
  <2>1. earlier' = earlier /\ since' = since
    BY <1>4
  <2>2. earlier'.ok \in BOOLEAN /\ since' \subseteq Paths
    BY <1>1, <2>1 DEF TypeOK
  <2>3. earlier'.ok => Written(earlier'.hashed, earlier'.digest)
    BY <2>1 DEF Inv, WrittenInv
  <2>4. earlier'.ok /\ Quiet(since)' => earlier'.hashed = Included'
    <3>1. Quiet(since)' <=> Quiet(since)
      BY <1>2, <2>1 DEF Quiet, Rules, IgnoreText
    <3>2. Included' = Included
      BY <1>2 DEF Included, Leaf, AsHashed, Rules, IgnoreText
    <3>3. QED
      BY <1>1, <2>1, <3>1, <3>2 DEF HashInv, SinceInv
  <2>5. QED
    BY <2>2, <2>3, <2>4
<1>5. /\ earlier'.ok \in BOOLEAN /\ since' \subseteq Paths
      /\ earlier'.ok => Written(earlier'.hashed, earlier'.digest)
      /\ earlier'.ok /\ Quiet(since)' => earlier'.hashed = Included'
  BY <1>3, <1>4
<1>6. TypeOK'
  <2>1. hashes' \in 0 .. MaxHashes
    BY <1>1, <1>2, ContextAssumption DEF TypeOK
  <2>2. \A i \in DOMAIN patterns' : i \in Nat /\ patterns'[i] \in Line
    BY <1>2
  <2>3. /\ pc' \in {"done", "ignore"} /\ outcome' \in {"error", "none"} /\ at' = Root
        /\ queue' \in Seq(Paths) /\ sum' \in Seq(Nat) /\ steady' \subseteq Paths
        /\ entries' \subseteq [path : Paths, mode : Modes]
        /\ hashed' \subseteq [path : Paths, mode : Modes, content : Contents]
    BY <1>2, EmptyList
  <2>4. earlier'.ok \in BOOLEAN /\ since' \subseteq Paths
    BY <1>5, Zenon
  <2>5. tree' \in [Paths -> Node] /\ setup' \in Setups /\ changes' \in 0 .. MaxChanges
    BY <1>1, <1>2 DEF TypeOK
  <2>6. QED
    BY <2>1, <2>2, <2>3, <2>4, <2>5 DEF TypeOK
<1>7. StepInv' /\ RulesInv'
  <2>1. setup.root \in {"dir", "locked", "link", "none"}
    BY <1>1, ContextAssumption DEF TypeOK
  <2>2. QED
    BY <1>2, <2>1 DEF StepInv, RulesInv, Past, Walking
<1>8. KeptInv' /\ FreshInv' /\ CoverInv' /\ OrderInv'
  BY <1>2 DEF KeptInv, FreshInv, CoverInv, OrderInv, Walking
<1>9. CauseInv'
  BY <1>2 DEF CauseInv, FailsForCause, Walking
<1>10. SinceInv'
  BY <1>2, <1>5 DEF SinceInv
<1>11. WrittenInv'
  BY <1>2, <1>5, WritesNothing DEF WrittenInv, Written
<1>12. QED
  BY <1>6, <1>7, <1>8, <1>9, <1>10, <1>11 DEF Inv, HashInv

LEMMA InvReadDockerignore ==
  ASSUME Inv, readDockerignore
  PROVE  Inv'
<1> DEFINE text == IgnoreText
           found == IF text = Dangling THEN <<>> ELSE parseDockerignoreLines(text)
           bad == \/ text \in {Missing, Unreadable}
                  \/ \E i \in DOMAIN found : found[i].kind = "bad"
<1>1. HashInv /\ TypeOK /\ WrittenInv
  BY DEF Inv, HashInv
<1>2. /\ UNCHANGED world /\ pc = "ignore"
      /\ \/ bad /\ Fail /\ UNCHANGED local
         \/ /\ ~bad /\ patterns' = found
            /\ pc' = IF setup.root = "link" THEN "walk" ELSE "list"
            /\ UNCHANGED <<at, queue, entries, sum, hashed, outcome>>
  BY DEF readDockerignore
<1>3. /\ outcome = "none" /\ at = Root /\ queue = <<>> /\ entries = {} /\ hashed = {} /\ sum = <<>>
      /\ setup.root \in {"dir", "locked", "link"}
  BY <1>1, <1>2 DEF HashInv, StepInv
<1>4. /\ at' = Root /\ queue' = <<>> /\ entries' = {} /\ hashed' = {} /\ sum' = <<>>
      /\ \/ bad /\ pc' = "done" /\ outcome' = "error" /\ patterns' = patterns
         \/ /\ ~bad /\ outcome' = "none" /\ patterns' = found
            /\ pc' = IF setup.root = "link" THEN "walk" ELSE "list"
  BY <1>2, <1>3 DEF Fail, local
<1>5. text \notin {Missing, Unreadable} => found = Rules /\ (text = Dangling \/ text \in Contents)
  <2>1. text \in Contents \cup {Missing, Dangling, Unreadable}
    <3>1. setup.dockerignore \in Contents \cup {Absent, Missing}
      BY <1>1, ContextAssumption DEF TypeOK
    <3>2. tree[IgnoreFile].content \in Contents \cup {Dangling, Unreadable}
      <4>1. tree[IgnoreFile] \in Node
        BY <1>1, ContextAssumption DEF TypeOK
      <4>2. QED
        BY <4>1 DEF Node
    <3>3. QED
      BY <3>1, <3>2 DEF IgnoreText
  <2>2. QED
    BY <2>1, Markers DEF Rules
<1>6. ~bad => \A i \in DOMAIN found : i \in Nat /\ found[i] \in Line
  <2>1. SUFFICES ASSUME ~bad, text # Dangling
                 PROVE  \A i \in DOMAIN found : i \in Nat /\ found[i] \in Line
    OBVIOUS
  <2>2. text \in Contents /\ found = parseDockerignoreLines(text)
    BY <1>5, <2>1
  <2>3. Lines[text] \in Seq(Line)
    BY <2>2, ContextAssumption
  <2>4. \A i \in DOMAIN Lines[text] : i \in Nat /\ Lines[text][i] \in Line
    BY <2>3
  <2> HIDE DEF text
  <2>5. QED
    BY <2>2, <2>4 DEF parseDockerignoreLines
<1>7. bad => text \in {Missing, Unreadable} \/ \E i \in DOMAIN Rules : Rules[i].kind = "bad"
  BY <1>5
<1>8. ~bad => found = Rules
  BY <1>5
<1> HIDE DEF bad, found
<1> USE <1>2, <1>4, WorldSame
<1>9. TypeOK'
  BY <1>1, <1>6, EmptyList DEF TypeOK
<1>10. StepInv'
  BY <1>3 DEF StepInv, Past, Walking
<1>11. RulesInv'
  BY <1>8 DEF RulesInv, Past
<1>12. KeptInv'
  BY EmptyList DEF KeptInv, Walking
<1>13. FreshInv' /\ OrderInv'
  BY DEF FreshInv, OrderInv
<1>14. CoverInv'
  BY DEF CoverInv
<1>15. CauseInv'
  BY <1>7, EmptyList DEF CauseInv, FailsForCause, Walking
<1>16. SinceInv' /\ WrittenInv'
  BY <1>1, <1>3 DEF HashInv, WrittenInv
<1>17. QED
  BY <1>9, <1>10, <1>11, <1>12, <1>13, <1>14, <1>15, <1>16 DEF Inv, HashInv

LEMMA InvListDir ==
  ASSUME Inv, ListDir
  PROVE  Inv'
<1> DEFINE names == Names(tree, at)
           skip == at # Root /\ Excluded(patterns, at)
<1>1. HashInv /\ TypeOK /\ WrittenInv
  BY DEF Inv, HashInv
<1>2. /\ UNCHANGED world /\ pc = "list" /\ outcome = "none"
      /\ patterns' = patterns /\ at' = at /\ entries' = entries /\ sum' = sum /\ hashed' = hashed
      /\ hashed = {} /\ sum = <<>> /\ setup.root \in {"dir", "locked"}
      /\ setup.root = "locked" => at = Root
  BY <1>1 DEF ListDir, HashInv, StepInv, Past, Walking
<1>3. \/ /\ setup.root = "dir" => at # Root /\ ~(Exists(tree, at) /\ tree[at].kind = "dir")
         /\ pc' = "done" /\ outcome' = "error" /\ queue' = queue
      \/ /\ setup.root = "dir"
         /\ at # Root => Exists(tree, at) /\ tree[at].kind = "dir"
         /\ pc' = "walk" /\ outcome' = "none"
         /\ queue' = IF skip THEN queue ELSE names \o queue
  BY <1>2 DEF ListDir, Listable, Fail
<1>4. /\ names \in Seq(Paths)
      /\ \A p \in Range(names) : p \in Paths /\ Parent[p] = at /\ Exists(tree, p)
      /\ \A p \in Paths : Parent[p] = at /\ Exists(tree, p) => p \in Range(names)
  <2> DEFINE S == {p \in Paths : Parent[p] = at /\ Exists(tree, p)}
  <2>1. S \in SUBSET Paths /\ names = Sorted(S)
    BY DEF Names
  <2>2. \A p : p \in S <=> p \in Paths /\ Parent[p] = at /\ Exists(tree, p)
    OBVIOUS
  <2> HIDE DEF S, names
  <2>3. QED
    BY <2>1, <2>2, SortedType
<1> HIDE DEF names
<1>5. /\ queue' \in Seq(Paths) /\ Range(queue) \subseteq Range(queue')
      /\ \A p \in Range(queue') : p \in Range(queue) \/ (p \in Range(names) /\ ~skip)
      /\ pc' = "walk" /\ ~skip => Range(names) \subseteq Range(queue')
  <2>1. queue \in Seq(Paths)
    BY <1>1 DEF TypeOK
  <2>2. names \o queue \in Seq(Paths) /\ Range(names \o queue) = Range(names) \cup Range(queue)
    BY <1>4, <2>1, RangeJoined
  <2>3. QED
    BY <1>3, <2>1, <2>2
<1>6. at \in Paths \cup {Root} /\ (at # Root => ~Skipped(patterns, at))
  BY <1>1, <1>2 DEF HashInv, TypeOK, KeptInv
<1>7. steady = Paths => patterns = Rules
  BY <1>1, <1>2, RulesKnown DEF Past
<1> USE <1>2, <1>3, WorldSame
<1>8. TypeOK'
  BY <1>1, <1>5 DEF TypeOK
<1>9. StepInv'
  BY DEF StepInv, Past, Walking
<1>10. RulesInv'
  BY <1>1 DEF HashInv, RulesInv, Past
<1>11. KeptInv'
  <2>1. ASSUME NEW p \in Range(queue')
        PROVE  ~Skipped(patterns, p)
    <3>1. CASE p \in Range(queue)
      BY <1>1, <3>1 DEF HashInv, KeptInv, Walking
    <3>2. CASE p \in Range(names) /\ ~skip
      <4>1. CASE at = Root
        <5>1. Above[p] = {}
          BY <1>4, <3>2, <4>1, AboveChild
        <5>2. QED
          BY <5>1 DEF Skipped
      <4>2. CASE at # Root
        <5>1. Above[p] = {at} \cup Above[at]
          BY <1>4, <3>2, <4>2, AboveChild
        <5>2. QED
          BY <1>6, <3>2, <4>2, <5>1 DEF Skipped
      <4>3. QED
        BY <4>1, <4>2
    <3>3. QED
      BY <1>5, <3>1, <3>2
  <2>2. QED
    BY <1>1, <2>1 DEF HashInv, KeptInv, Walking
<1>12. FreshInv' /\ OrderInv'
  BY <1>1 DEF HashInv, FreshInv, OrderInv, Leaf, AsHashed
<1>13. CoverInv'
  <2>1. SUFFICES ASSUME NEW p \in Paths, Due(p), pc' = "walk"
                 PROVE  Queued(p)' \/ Kept(p)'
    BY DEF CoverInv, Due
  <2>2. \/ at \in {Root} \cup Above[p] \/ Queued(p) \/ Kept(p)
    BY <1>1, <2>1 DEF HashInv, CoverInv
  <2>3. CASE Queued(p) \/ Kept(p)
    BY <1>5, <2>3 DEF Queued, Kept
  <2>4. CASE at \in {Root} \cup Above[p]
    <3>1. ~skip
      BY <2>1, <2>4 DEF Due, Skipped
    <3>2. PICK c \in {p} \cup Above[p] : Parent[c] = at
      BY <2>4, AboveType
    <3>3. c \in Paths /\ Above[c] \subseteq Above[p]
      BY <3>2, AboveType
    <3>4. Exists(tree, c)
      BY <2>1, <3>2, <3>3 DEF Due, Leaf, Exists
    <3>5. c \in Range(queue')
      BY <1>4, <1>5, <2>1, <3>1, <3>2, <3>3, <3>4
    <3>6. QED
      BY <3>2, <3>5 DEF Queued
  <2>5. QED
    BY <2>2, <2>3, <2>4
<1>14. CauseInv'
  <2>1. ASSUME steady = Paths, pc' = "walk", NEW p \in Range(queue')
        PROVE  Exists(tree, p)
    BY <1>1, <1>4, <1>5, <2>1 DEF HashInv, CauseInv, Walking
  <2>2. ASSUME steady = Paths, pc' = "done", setup.root = "dir"
        PROVE  \E p \in Paths : Obstacle(p)
    <3>1. at # Root /\ Exists(tree, at) /\ tree[at].kind = "locked"
      BY <1>1, <2>2 DEF HashInv, CauseInv
    <3>2. at \in Paths /\ ~Skipped(Rules, at)
      BY <1>6, <1>7, <2>2, <3>1
    <3>3. Obstacle(at)
      BY <3>1, <3>2 DEF Obstacle
    <3>4. QED
      BY <3>2, <3>3
  <2>3. QED
    BY <2>1, <2>2 DEF CauseInv, FailsForCause, Walking
<1>15. SinceInv' /\ WrittenInv'
  BY <1>1 DEF HashInv, WrittenInv
<1>16. QED
  BY <1>8, <1>9, <1>10, <1>11, <1>12, <1>13, <1>14, <1>15 DEF Inv, HashInv

LEMMA InvLook ==
  ASSUME Inv, Look
  PROVE  Inv'
<1> DEFINE p == Head(queue)
           entry == [path |-> p, mode |-> tree[p].mode]
<1>1. HashInv /\ TypeOK /\ WrittenInv
  BY DEF Inv, HashInv
<1>2. /\ UNCHANGED world /\ pc = "walk" /\ queue # <<>> /\ outcome = "none"
      /\ patterns' = patterns /\ sum' = sum /\ hashed' = hashed
      /\ hashed = {} /\ sum = <<>> /\ setup.root = "dir"
  BY <1>1 DEF Look, HashInv, StepInv, Past, Walking
<1>3. /\ p \in Paths /\ Tail(queue) \in Seq(Paths)
      /\ Range(queue) = {p} \cup Range(Tail(queue))
  BY <1>1, <1>2, HeadOthers DEF TypeOK
<1>4. p \in Paths /\ tree[p] \in Node
  BY <1>1, <1>3 DEF TypeOK
<1>5. \/ /\ ~Exists(tree, p) /\ pc' = "done" /\ outcome' = "error"
         /\ at' = at /\ queue' = queue /\ entries' = entries
      \/ /\ Exists(tree, p) /\ tree[p].kind \in {"dir", "locked"}
         /\ pc' = "list" /\ at' = p /\ queue' = Tail(queue)
         /\ entries' = entries /\ outcome' = "none"
      \/ /\ Leaf(p)
         /\ pc' = "walk" /\ outcome' = "none" /\ at' = at /\ queue' = Tail(queue)
         /\ entries' = IF Excluded(patterns, p) THEN entries ELSE entries \cup {entry}
  BY <1>2, <1>4 DEF Look, Fail, Leaf, Exists, Node
<1>6. ~Skipped(patterns, p)
  BY <1>1, <1>2, <1>3 DEF HashInv, KeptInv, Walking
<1>7. entry \in [path : Paths, mode : Modes] /\ entry.path = p /\ entry.mode = tree[p].mode
  BY <1>4 DEF Node
<1> HIDE DEF p, entry
<1>8. Range(queue') \subseteq Range(queue) /\ queue' \in Seq(Paths) /\ entries \subseteq entries'
  BY <1>1, <1>3, <1>5 DEF TypeOK
<1> USE <1>2, <1>5, WorldSame
<1>9. TypeOK'
  BY <1>1, <1>4, <1>7, <1>8 DEF TypeOK
<1>10. StepInv'
  BY DEF StepInv, Past, Walking
<1>11. RulesInv'
  BY <1>1 DEF HashInv, RulesInv, Past
<1>12. KeptInv'
  <2>1. \A e \in entries' : ~Excluded(patterns, e.path) /\ ~Skipped(patterns, e.path)
    BY <1>1, <1>6, <1>7 DEF HashInv, KeptInv
  <2>2. \A q \in Range(queue') : ~Skipped(patterns, q)
    BY <1>1, <1>8 DEF HashInv, KeptInv, Walking
  <2>3. {h.path : h \in hashed'} \subseteq {e.path : e \in entries'}
    OBVIOUS
  <2>4. QED
    BY <1>6, <2>1, <2>2, <2>3 DEF KeptInv
<1>13. FreshInv' /\ OrderInv'
  BY <1>1, <1>4, <1>7 DEF HashInv, FreshInv, OrderInv, Leaf
<1>14. CoverInv'
  <2>1. SUFFICES ASSUME NEW q \in Paths, Due(q)
                 PROVE  /\ pc' = "list" => at' \in {Root} \cup Above[q] \/ Queued(q)' \/ Kept(q)'
                        /\ pc' = "walk" => Queued(q)' \/ Kept(q)'
    BY DEF CoverInv, Due
  <2>2. Queued(q) \/ Kept(q)
    BY <1>1, <2>1 DEF HashInv, CoverInv
  <2>3. CASE Kept(q)
    BY <1>8, <2>3 DEF Kept
  <2>4. CASE ({q} \cup Above[q]) \cap Range(Tail(queue)) # {}
    BY <2>4 DEF Queued
  <2>5. CASE p = q
    <3>1. Leaf(q) /\ ~Excluded(patterns, q)
      BY <2>1 DEF Due
    <3>2. pc' = "walk" => Kept(q)'
      BY <2>5, <3>1 DEF Kept, entry
    <3>3. pc' # "list"
      BY <2>5, <3>1 DEF Leaf
    <3>4. QED
      BY <3>2, <3>3
  <2>6. CASE p \in Above[q]
    <3>1. tree[p].kind = "dir"
      BY <2>1, <2>6 DEF Due, Leaf, Exists
    <3>2. pc' # "walk"
      BY <3>1 DEF Leaf
    <3>3. QED
      BY <2>6, <3>2
  <2>7. QED
    BY <1>3, <2>2, <2>3, <2>4, <2>5, <2>6 DEF Queued, p
<1>15. CauseInv'
  <2>1. ASSUME steady = Paths
        PROVE  Exists(tree, p) /\ \A q \in Range(queue') : Exists(tree, q)
    BY <1>1, <1>3, <1>8, <2>1 DEF HashInv, CauseInv, Walking, p
  <2>2. QED
    BY <2>1 DEF CauseInv, FailsForCause, Walking
<1>16. SinceInv' /\ WrittenInv'
  BY <1>1 DEF HashInv, WrittenInv
<1>17. QED
  BY <1>9, <1>10, <1>11, <1>12, <1>13, <1>14, <1>15, <1>16 DEF Inv, HashInv

LEMMA InvSort ==
  ASSUME Inv, Sort
  PROVE  Inv'
<1> DEFINE E == {e.path : e \in entries}
<1>1. HashInv /\ TypeOK /\ WrittenInv
  BY DEF Inv, HashInv
<1>2. /\ UNCHANGED world /\ pc = "walk" /\ queue = <<>> /\ outcome = "none"
      /\ patterns' = patterns /\ at' = at /\ entries' = entries /\ sum' = sum /\ hashed' = hashed
      /\ outcome' = outcome /\ pc' = "read" /\ queue' = Sorted(E) /\ hashed = {}
  BY <1>1 DEF Sort, HashInv, StepInv, Walking
<1>3. E \in SUBSET Paths
  BY <1>1 DEF TypeOK
<1>4. /\ queue' \in Seq(Paths) /\ Range(queue') = E
      /\ \A i, j \in DOMAIN queue' : i < j => queue'[i] < queue'[j]
  BY <1>2, <1>3, SortedType
<1> USE <1>2, WorldSame
<1>5. TypeOK'
  BY <1>1, <1>4 DEF TypeOK
<1>6. StepInv'
  <2>1. entries = {} => queue' = <<>>
    BY <1>4, NothingListed
  <2>2. QED
    BY <1>1, <2>1 DEF HashInv, StepInv, Past, Walking
<1>7. RulesInv'
  BY <1>1 DEF HashInv, RulesInv, Past
<1>8. KeptInv'
  BY <1>1, <1>4 DEF HashInv, KeptInv, Walking
<1>9. FreshInv'
  BY <1>1 DEF HashInv, FreshInv, Leaf, AsHashed
<1>10. OrderInv'
  BY <1>4 DEF OrderInv
<1>11. CoverInv'
  <2>1. SUFFICES ASSUME setup.root = "dir", NEW p \in Paths, Due(p)
                 PROVE  Kept(p) /\ p \in Range(queue')
    BY DEF CoverInv, Due, Kept
  <2>2. ~Queued(p)
    BY EmptyList DEF Queued
  <2>3. Kept(p)
    BY <1>1, <2>1, <2>2 DEF HashInv, CoverInv
  <2>4. QED
    BY <1>4, <2>3 DEF Kept
<1>12. CauseInv'
  BY <1>1 DEF CauseInv, FailsForCause, Walking
<1>13. SinceInv' /\ WrittenInv'
  BY <1>1 DEF HashInv, WrittenInv
<1>14. QED
  BY <1>5, <1>6, <1>7, <1>8, <1>9, <1>10, <1>11, <1>12, <1>13 DEF Inv, HashInv

LEMMA InvRead ==
  ASSUME Inv, Read
  PROVE  Inv'
<1> DEFINE p == Head(queue)
           entry == CHOOSE e \in entries : e.path = p
           file == [path |-> p, mode |-> entry.mode, content |-> tree[p].content]
           readable == Exists(tree, p) /\ tree[p].kind = "leaf" /\ tree[p].content \in Contents
<1>1. HashInv /\ TypeOK /\ WrittenInv
  BY DEF Inv, HashInv
<1>2. /\ UNCHANGED world /\ pc = "read" /\ queue # <<>> /\ outcome = "none"
      /\ patterns' = patterns /\ at' = at /\ entries' = entries /\ setup.root = "dir"
  BY <1>1 DEF Read, HashInv, StepInv, Past
<1>3. /\ p \in Paths /\ Tail(queue) \in Seq(Paths)
      /\ Range(queue) = {p} \cup Range(Tail(queue))
  BY <1>1, <1>2, HeadOthers DEF TypeOK
<1>4. entry \in entries /\ entry.path = p
  <2>1. p \in {e.path : e \in entries}
    BY <1>1, <1>2, <1>3 DEF HashInv, KeptInv
  <2>2. \E e \in entries : e.path = p
    BY <2>1
  <2>3. QED
    BY <2>2
<1>5. \/ /\ ~readable /\ pc' = "done" /\ outcome' = "error"
         /\ queue' = queue /\ sum' = sum /\ hashed' = hashed
      \/ /\ readable /\ pc' = "read" /\ outcome' = "none" /\ queue' = Tail(queue)
         /\ sum' = sum \o FrameOf(file) /\ hashed' = hashed \cup {file}
  BY <1>2 DEF Read, Fail, FrameOf
<1> HIDE DEF entry
<1>6. readable => file \in File
  BY <1>1, <1>3, <1>4 DEF TypeOK, File
<1>7. /\ ~Excluded(patterns, p) /\ ~Skipped(patterns, p)
      /\ p \in steady => Leaf(p) /\ file = AsHashed(p)
  BY <1>1, <1>4 DEF HashInv, KeptInv, FreshInv, AsHashed
<1>8. file.path = p /\ (readable => Leaf(p) /\ tree[p].content \in Contents)
  BY DEF Leaf
<1>9. ~readable => ~Leaf(p) \/ tree[p].content \notin Contents
  BY DEF Leaf
<1> HIDE DEF p, file, readable
<1>10. Range(queue') \subseteq Range(queue) /\ queue' \in Seq(Paths) /\ hashed \subseteq hashed'
  BY <1>1, <1>3, <1>5 DEF TypeOK
<1>11. \A i, j \in DOMAIN queue : i < j => queue[i] < queue[j]
  BY <1>1, <1>2 DEF HashInv, OrderInv
<1>12. /\ \A i, j \in DOMAIN Tail(queue) : i < j => Tail(queue)[i] < Tail(queue)[j]
       /\ \A q \in Range(Tail(queue)) : p < q
  BY <1>1, <1>2, <1>11, HeadLeast DEF TypeOK, p
<1>13. \A h \in hashed : h.path < p
  BY <1>1, <1>2, <1>3 DEF HashInv, OrderInv
<1>14. WrittenInv' /\ sum' \in Seq(Nat)
  <2>1. CASE readable
    <3>1. PICK n \in Nat : Writes(n, hashed, sum)
      BY <1>1 DEF WrittenInv, Written
    <3>2. Writes(n + 1, hashed \cup {file}, sum \o FrameOf(file)) /\ n + 1 \in Nat
      BY <1>6, <1>8, <1>13, <2>1, <3>1, WritesMore
    <3>3. Written(hashed', sum')
      BY <1>5, <2>1, <3>2 DEF Written
    <3>4. sum \in Bytes
      BY <1>1 DEF TypeOK, Bytes
    <3>5. sum' \in Bytes
      BY <1>5, <1>6, <2>1, <3>4, FrameType
    <3>6. earlier' = earlier
      BY <1>2, WorldSame
    <3>7. QED
      BY <1>1, <3>3, <3>5, <3>6 DEF WrittenInv, Bytes
  <2>2. CASE ~readable
    BY <1>1, <1>2, <1>5, <2>2, WorldSame DEF WrittenInv, TypeOK
  <2>3. QED
    BY <2>1, <2>2
<1> USE <1>2, <1>5, WorldSame
<1>15. TypeOK'
  <2>1. hashed' \subseteq [path : Paths, mode : Modes, content : Contents]
    BY <1>1, <1>6 DEF TypeOK, File
  <2>2. QED
    BY <1>1, <1>10, <1>14, <2>1 DEF TypeOK
<1>16. StepInv'
  BY DEF StepInv, Past, Walking
<1>17. RulesInv'
  BY <1>1 DEF HashInv, RulesInv, Past
<1>18. KeptInv'
  <2>1. {h.path : h \in hashed'} \subseteq {e.path : e \in entries}
    <3>1. \A h \in hashed : h.path \in {e.path : e \in entries}
      BY <1>1 DEF HashInv, KeptInv
    <3>2. p \in {e.path : e \in entries}
      BY <1>4
    <3>3. \A h \in hashed' : h.path \in {e.path : e \in entries}
      BY <1>8, <3>1, <3>2
    <3>4. QED
      BY <3>3
  <2>2. QED
    BY <1>1, <1>10, <2>1 DEF HashInv, KeptInv, Walking
<1>19. FreshInv'
  BY <1>1, <1>7, <1>8 DEF HashInv, FreshInv, Leaf, AsHashed
<1>20. CoverInv'
  <2>1. SUFFICES ASSUME NEW q \in Paths, Due(q), pc' = "read"
                 PROVE  (Kept(q) /\ q \in Range(queue')) \/ AsHashed(q) \in hashed'
    BY DEF CoverInv, Due, Kept
  <2>2. (Kept(q) /\ q \in Range(queue)) \/ AsHashed(q) \in hashed
    BY <1>1, <2>1 DEF HashInv, CoverInv
  <2>3. q = p => AsHashed(q) \in hashed'
    BY <1>7, <2>1 DEF Due
  <2>4. QED
    BY <1>3, <1>10, <2>1, <2>2, <2>3
<1>21. CauseInv'
  <2>1. ASSUME steady = Paths, pc' = "done"
        PROVE  \E q \in Paths : Obstacle(q)
    <3>1. patterns = Rules
      BY <1>1, <2>1, RulesKnown DEF Past
    <3>2. Obstacle(p)
      BY <1>3, <1>7, <1>9, <2>1, <3>1 DEF Obstacle, Leaf
    <3>3. QED
      BY <1>3, <3>2
  <2>2. QED
    BY <2>1 DEF CauseInv, FailsForCause, Walking
<1>22. OrderInv'
  <2>1. SUFFICES ASSUME pc' = "read"
                 PROVE  /\ \A i, j \in DOMAIN queue' : i < j => queue'[i] < queue'[j]
                        /\ \A h \in hashed' : \A q \in Range(queue') : h.path < q
    BY DEF OrderInv
  <2>2. queue' = Tail(queue) /\ hashed' = hashed \cup {file}
    BY <2>1
  <2>3. \A h \in hashed : \A q \in Range(queue') : h.path < q
    BY <1>1, <1>10 DEF HashInv, OrderInv
  <2>4. \A q \in Range(queue') : file.path < q
    BY <1>8, <1>12, <2>2
  <2>5. QED
    BY <1>12, <2>2, <2>3, <2>4
<1>23. SinceInv'
  BY <1>1 DEF HashInv
<1>24. QED
  BY <1>14, <1>15, <1>16, <1>17, <1>18, <1>19, <1>20, <1>21, <1>22, <1>23 DEF Inv, HashInv

LEMMA InvFinish ==
  ASSUME Inv, Finish
  PROVE  Inv'
<1>1. HashInv /\ TypeOK /\ WrittenInv
  BY DEF Inv, HashInv
<1>2. /\ UNCHANGED world /\ pc = "read" /\ queue = <<>> /\ outcome = "none"
      /\ patterns' = patterns /\ at' = at /\ entries' = entries /\ sum' = sum /\ hashed' = hashed
      /\ outcome' = "ok" /\ pc' = "done" /\ queue' = queue
  BY <1>1 DEF Finish, HashInv, StepInv, local
<1> USE <1>2, WorldSame
<1>3. TypeOK'
  BY <1>1 DEF TypeOK
<1>4. StepInv' /\ RulesInv'
  BY <1>1 DEF HashInv, StepInv, RulesInv, Past, Walking
<1>5. KeptInv' /\ OrderInv'
  BY <1>1 DEF HashInv, KeptInv, OrderInv, Walking
<1>6. FreshInv'
  BY <1>1 DEF HashInv, FreshInv, Leaf, AsHashed
<1>7. CoverInv'
  BY <1>1, EmptyList DEF HashInv, CoverInv, Due
<1>8. CauseInv'
  BY <1>1 DEF CauseInv, FailsForCause, Walking
<1>9. SinceInv' /\ WrittenInv'
  BY <1>1 DEF HashInv, WrittenInv
<1>10. QED
  BY <1>3, <1>4, <1>5, <1>6, <1>7, <1>8, <1>9 DEF Inv, HashInv

LEMMA InvNext ==
  ASSUME Inv, [Next]_vars
  PROVE  Inv'
<1>1. CASE Start
  BY <1>1, InvStart
<1>2. CASE readDockerignore
  BY <1>2, InvReadDockerignore
<1>3. CASE ListDir
  BY <1>3, InvListDir
<1>4. CASE Look
  BY <1>4, InvLook
<1>5. CASE Sort
  BY <1>5, InvSort
<1>6. CASE Read
  BY <1>6, InvRead
<1>7. CASE Finish
  BY <1>7, InvFinish
<1>8. CASE \E p \in Paths : Change(p) \/ \E q \in Paths : Rename(p, q)
  BY <1>8, InvDisturb
<1>9. CASE UNCHANGED vars
  BY <1>9, InvStutter
<1>10. QED
  BY <1>1, <1>2, <1>3, <1>4, <1>5, <1>6, <1>7, <1>8, <1>9 DEF Next

-----------------------------------------------------------------------------
(***************************************************************************)
(* What holds in every state of a hash.                                    *)
(***************************************************************************)

LEMMA InvAlways == Spec => []Inv
BY InvInit, InvNext, PTL DEF Spec

\* What is queued, kept and hashed is what the ignore file leaves of the
\* tree, as far as nobody disturbs it, at every step of HashContext
\* (contexthash.go:24-111).
THEOREM HashInvariant == Spec => []HashInv
<1>1. Inv => HashInv
  BY DEF Inv
<1>2. QED
  BY <1>1, InvAlways, PTL

\* The bytes written to the hash are the frames of the files read, each once
\* and in the order of their paths (contexthash.go:83-103).
THEOREM DigestIsOfFiles == Spec => []WrittenInv
<1>1. Inv => WrittenInv
  BY DEF Inv
<1>2. QED
  BY <1>1, InvAlways, PTL

\* A file nobody touches is in the digest, with its own mode and content,
\* exactly if neither it nor a directory above it is ignored, whatever
\* happens to its neighbours meanwhile (contexthash.go:54-82).
THEOREM HonorsIgnoreAlways == Spec => []HonorsIgnore
<1>1. ASSUME Inv
      PROVE  HonorsIgnore
  <2>1. SUFFICES ASSUME outcome = "ok", setup.root = "dir", RulesSteady,
                        NEW p \in steady, Exists(tree, p), tree[p].kind = "leaf"
                 PROVE  IF Excluded(Rules, p) \/ Skipped(Rules, p)
                          THEN \A h \in hashed : h.path # p
                          ELSE AsHashed(p) \in hashed
    BY DEF HonorsIgnore
  <2>2. HashInv /\ p \in Paths
    BY <1>1 DEF Inv, HashInv, TypeOK
  <2>3. patterns = Rules
    BY <2>1, <2>2 DEF HashInv, RulesInv, Past
  <2>4. CASE Excluded(Rules, p) \/ Skipped(Rules, p)
    <3>1. \A h \in hashed : \E e \in entries : e.path = h.path
      BY <2>2 DEF HashInv, KeptInv
    <3>2. \A e \in entries : e.path # p
      BY <2>2, <2>3, <2>4 DEF HashInv, KeptInv
    <3>3. QED
      BY <2>4, <3>1, <3>2
  <2>5. CASE ~(Excluded(Rules, p) \/ Skipped(Rules, p))
    <3>1. Due(p)
      BY <2>1, <2>3, <2>5 DEF Due, Leaf
    <3>2. AsHashed(p) \in hashed
      BY <2>1, <2>2, <3>1 DEF HashInv, CoverInv
    <3>3. QED
      BY <2>5, <3>2
  <2>6. QED
    BY <2>4, <2>5
<1>2. QED
  BY <1>1, InvAlways, PTL

\* Two digests in a row are equal if all that was changed in between, and
\* during either hash, is ignored (docs/data-sources/context.md:11).
THEOREM StableWhileIgnoredAlways == Spec => []StableWhileIgnored
<1>1. ASSUME Inv
      PROVE  StableWhileIgnored
  <2>1. SUFFICES ASSUME outcome = "ok", earlier.ok, Quiet(since)
                 PROVE  sum = earlier.digest
    BY DEF StableWhileIgnored, Quiet
  <2>2. HashInv
    BY <1>1 DEF Inv
  <2>3. Quiet(Paths \ steady)
    <3>1. SUFFICES ASSUME NEW p \in Paths \ steady
                   PROVE  /\ Excluded(Rules, p) \/ Skipped(Rules, p)
                          /\ p = IgnoreFile => setup.dockerignore # Absent
      BY DEF Quiet
    <3>2. PICK a \in {p} \cup Above[p] : a \in since
      BY <2>2 DEF HashInv, SinceInv
    <3>3. /\ Excluded(Rules, a) \/ Skipped(Rules, a)
          /\ a = IgnoreFile => setup.dockerignore # Absent
      BY <2>1, <3>2 DEF Quiet
    <3>4. a # p => a \in Above[p]
      BY <3>2
    <3>5. a # p => Skipped(Rules, p)
      BY <3>3, <3>4, SkippedBelow
    <3>6. p = IgnoreFile => Above[p] = {}
      BY AboveChild, ContextAssumption
    <3>7. QED
      BY <3>3, <3>4, <3>5, <3>6
  <2>4. hashed = earlier.hashed
    BY <2>1, <2>2, <2>3, QuietHash DEF HashInv, SinceInv
  <2>5. PICK n \in Nat, m \in Nat : Writes(n, hashed, sum) /\ Writes(m, hashed, earlier.digest)
    BY <1>1, <2>1, <2>4 DEF Inv, WrittenInv, Written
  <2>6. QED
    BY <2>5, WritesSame
<1>2. QED
  BY <1>1, InvAlways, PTL

\* Two digests are equal only if the same files were read with the same
\* modes and contents, or one of the files holds a NUL byte
\* (contexthash.go:89-103).
THEOREM DigestTellsAlways == Spec => []DigestTells
<1>1. ASSUME Inv
      PROVE  DigestTells
  <2>1. SUFFICES ASSUME outcome = "ok", earlier.ok, sum = earlier.digest,
                        Text(hashed \cup earlier.hashed)
                 PROVE  hashed = earlier.hashed
    BY DEF DigestTells, Text
  <2>2. PICK n \in Nat, m \in Nat : Writes(n, hashed, sum) /\ Writes(m, earlier.hashed, sum)
    BY <1>1, <2>1 DEF Inv, WrittenInv, Written
  <2>3. QED
    BY <2>1, <2>2, WritesTells
<1>2. QED
  BY <1>1, InvAlways, PTL

\* An undisturbed hash fails only for the arguments, the ignore file, a
\* directory that cannot be listed, or a file that is not ignored and cannot
\* be read (contexthash.go:55, 93-100).
THEOREM FailsForCauseAlways == Spec => []FailsForCause
<1>1. Inv => FailsForCause
  BY DEF Inv, HashInv, CauseInv
<1>2. QED
  BY <1>1, InvAlways, PTL

=============================================================================
