---------------------------- MODULE ArtifactProofs ----------------------------
(***************************************************************************)
(* Proofs about ArtifactResource for every set of paths, number of files,  *)
(* stage contents and configurations: a successful apply records what the  *)
(* stage held, a refresh sees a damaged file, and no apply is planned when *)
(* nothing happened.  Names may be any nonempty lists of bytes, and        *)
(* contents any lists of bytes.                                            *)
(***************************************************************************)
EXTENDS ArtifactResource, FiniteSetTheorems, SequenceTheorems, TLAPS

States == [exists : BOOLEAN, config : Configs \cup {NoConfig},
           path : Paths \cup {"none"}, sha256 : Hashes, contextDigest : Things]

LEMMA ConstantTypes ==
  /\ Things \subseteq Hashes
  /\ Absent \in Things /\ Torn \in Things /\ Edited \in Things
  /\ NoState \in States /\ NoState.exists = FALSE
  /\ NoState.config = NoConfig /\ NoConfig \notin Configs
<1>1. Absent \in Things /\ Torn \in Things /\ Edited \in Things
  BY DEF Absent, Torn, Edited, Things, Contents
<1>4. Things \subseteq Hashes
  BY DEF Things, Hashes
<1>2. NoState \in States /\ NoState.exists = FALSE /\ NoState.config = NoConfig
  BY <1>1, <1>4 DEF NoState, States
<1>3. NoConfig \notin Configs
  BY ArtifactAssumption DEF NoConfig
<1>5. QED
  BY <1>1, <1>2, <1>3, <1>4

\* The types, variable by variable.
LEMMA Typed ==
  ASSUME TypeOK
  PROVE  /\ disk \in [Paths -> Things] /\ source \in Things
         /\ config \in Configs /\ config.dst \in Paths
         /\ state \in States /\ out \in Things /\ sum \in Hashes
BY ArtifactAssumption DEF TypeOK, States

-----------------------------------------------------------------------------
(***************************************************************************)
(* What the hashes tell.                                                   *)
(***************************************************************************)
Trees == [Files -> Contents]
Bytes == Seq(Nat)

\* Every nonempty set of numbers has a least one.
LEMMA LeastNumber ==
  ASSUME NEW T, T \subseteq Nat, T # {}
  PROVE  \E n \in T : \A m \in T : n <= m
<1> DEFINE below == {0 .. n : n \in T}
           R == StrictSubsetOrdering(Nat)
<1>1. below \subseteq FiniteSubsetsOf(Nat) /\ below # {}
  <2>1. \A n \in T : IsFiniteSet(0 .. n) /\ 0 .. n \in SUBSET Nat
    BY FS_Interval
  <2>2. QED
    BY <2>1, Zenon DEF FiniteSubsetsOf
<1>2. IsWellFoundedOn(R, FiniteSubsetsOf(Nat))
  BY FS_StrictSubsetOrderingWellFounded
<1> HIDE DEF R
<1>3. PICK x \in below : \A y \in below : ~(<<y, x>> \in R)
  <2> HIDE DEF below
  <2>1. QED
    BY <1>1, <1>2, WFMin
<1>4. PICK n \in T : x = 0 .. n
  OBVIOUS
<1>5. ASSUME NEW m \in T, m < n
      PROVE  FALSE
  <2>1. 0 .. m \in below /\ 0 .. m \subseteq 0 .. n /\ 0 .. m # 0 .. n
    BY <1>5
  <2>2. <<0 .. m, 0 .. n>> \in R
    BY <2>1 DEF R, StrictSubsetOrdering
  <2>3. QED
    BY <1>3, <1>4, <2>1, <2>2
<1>6. QED
  BY <1>5

-----------------------------------------------------------------------------
LEMMA PieceType == \A x \in Trees, n \in Files : Piece(x, n) \in Bytes
BY ArtifactAssumption DEF Piece, Trees, Bytes, Contents

\* The recursion of Written has a solution, which grows piece by piece.
LEMMA WrittenStep ==
  ASSUME NEW x \in Trees
  PROVE  /\ Written(x) \in [0 .. FileCount -> Bytes]
         /\ Written(x)[0] = <<>>
         /\ \A n \in Files : Written(x)[n] = Written(x)[n - 1] \o Piece(x, n)
<1> DEFINE Solves(g, k) == /\ g \in [0 .. k -> Bytes] /\ g[0] = <<>>
                           /\ \A n \in 1 .. k : g[n] = g[n - 1] \o Piece(x, n)
           T == {k \in 0 .. FileCount : ~ \E g : Solves(g, k)}
           Step(f) == [n \in 0 .. FileCount |-> IF n = 0 THEN <<>> ELSE f[n - 1] \o Piece(x, n)]
<1>1. FileCount \in Nat
  BY ArtifactAssumption
<1>2. ASSUME T # {}
      PROVE  FALSE
  <2>1. PICK k \in T : \A m \in T : k <= m
    <3>1. T \subseteq Nat
      BY <1>1
    <3> HIDE DEF T
    <3>2. QED
      BY <1>2, <3>1, LeastNumber
  <2>2. CASE k = 0
    <3>1. Solves([n \in 0 .. 0 |-> <<>>], 0)
      BY DEF Bytes
    <3>2. QED
      BY <2>1, <2>2, <3>1
  <2>3. CASE k # 0
    <3>1. k - 1 \in 0 .. FileCount /\ k - 1 \in Nat /\ k \in Files
      BY <1>1, <2>1, <2>3 DEF Files
    <3>1a. k - 1 \notin T
      <4> HIDE DEF T
      <4>1. QED
        BY <2>1, <3>1 DEF Files
    <3>2. PICK g : Solves(g, k - 1)
      <4> HIDE DEF Solves
      <4>1. QED
        BY <3>1, <3>1a
    <3> DEFINE h == [n \in 0 .. k |-> IF n = k THEN g[k - 1] \o Piece(x, k) ELSE g[n]]
    <3>3. g[k - 1] \o Piece(x, k) \in Bytes
      BY <1>1, <3>1, <3>2, PieceType DEF Bytes
    <3>4. h \in [0 .. k -> Bytes] /\ h[0] = <<>>
      BY <1>1, <3>1, <3>2, <3>3, <2>3
    <3>5. ASSUME NEW n \in 1 .. k
          PROVE  h[n] = h[n - 1] \o Piece(x, n)
      <4>1. n - 1 \in 0 .. k /\ n - 1 # k /\ h[n - 1] = g[n - 1]
        BY <3>1, <3>5 DEF Files
      <4>2. CASE n = k
        BY <4>1, <4>2
      <4>3. CASE n # k
        <5>1. n \in 1 .. k - 1 /\ h[n] = g[n]
          BY <3>1, <3>5, <4>3 DEF Files
        <5>2. QED
          BY <3>2, <4>1, <5>1
      <4>4. QED
        BY <4>2, <4>3
    <3>6. Solves(h, k)
      <4> HIDE DEF h
      <4>1. QED
        BY <3>4, <3>5
    <3>7. QED
      BY <2>1, <3>6
  <2>4. QED
    BY <2>2, <2>3
<1>3. PICK g : Solves(g, FileCount)
  <2>1. FileCount \in 0 .. FileCount
    BY <1>1
  <2> HIDE DEF Solves
  <2>2. QED
    BY <1>2, <2>1
<1>4. g = Step(g)
  <2>1. \A n \in 0 .. FileCount : g[n] = Step(g)[n]
    BY <1>1, <1>3
  <2>2. g \in [0 .. FileCount -> Bytes] /\ DOMAIN Step(g) = 0 .. FileCount
    BY <1>3
  <2>3. Step(g) = [n \in 0 .. FileCount |-> Step(g)[n]]
    OBVIOUS
  <2> HIDE DEF Step, Solves
  <2>4. QED
    BY <2>1, <2>2, <2>3
<1>5. Written(x) = CHOOSE f : f = Step(f)
  BY DEF Written
<1>6. Written(x) = Step(Written(x))
  <2> HIDE DEF Step
  <2>1. QED
    BY <1>4, <1>5
<1> DEFINE w == Written(x)
<1>7. /\ w[0] = <<>>
      /\ \A n \in Files : w[n] = w[n - 1] \o Piece(x, n)
      /\ DOMAIN w = 0 .. FileCount
      /\ w = [n \in 0 .. FileCount |-> w[n]]
  BY <1>1, <1>6 DEF Files
<1>8. \A n \in 0 .. FileCount : w[n] \in Bytes
  <2> DEFINE U == {n \in 0 .. FileCount : w[n] \notin Bytes}
  <2>1. ASSUME U # {}
        PROVE  FALSE
    <3>1. PICK n \in U : \A m \in U : n <= m
      <4>1. U \subseteq Nat
        BY <1>1
      <4> HIDE DEF U
      <4>2. QED
        BY <2>1, <4>1, LeastNumber
    <3>2. n # 0
      <4>1. <<>> \in Bytes
        BY EmptySeq DEF Bytes
      <4> HIDE DEF w
      <4>2. QED
        BY <1>7, <3>1, <4>1
    <3>3. n \in Files /\ n - 1 \in 0 .. FileCount /\ w[n - 1] \in Bytes
      <4> HIDE DEF w
      <4>1. QED
        BY <1>1, <3>1, <3>2 DEF Files
    <3>4. w[n] \in Bytes
      <4> HIDE DEF w
      <4>1. QED
        BY <1>7, <3>3, PieceType, ConcatProperties DEF Bytes
    <3>5. QED
      BY <3>1, <3>4
  <2> HIDE DEF w
  <2>2. QED
    BY <2>1
<1>9. QED
  <2> HIDE DEF w
  <2>1. w \in [0 .. FileCount -> Bytes]
    BY <1>7, <1>8
  <2>2. QED
    BY <1>7, <2>1 DEF w

LEMMA CancelRight ==
  ASSUME NEW s \in Bytes, NEW t \in Bytes, NEW u \in Bytes, s \o u = t \o u
  PROVE  s = t
BY ConcatSimplifications DEF Bytes

LEMMA CancelLeft ==
  ASSUME NEW s \in Bytes, NEW t \in Bytes, NEW u \in Bytes, u \o s = u \o t
  PROVE  s = t
BY ConcatSimplifications DEF Bytes

\* Two trees that differ in just one file are not written alike.
LEMMA OneDiffers ==
  ASSUME NEW x \in Trees, NEW y \in Trees, NEW f \in Files, x[f] # y[f],
         \A g \in Files \ {f} : x[g] = y[g]
  PROVE  Written(x)[FileCount] # Written(y)[FileCount]
<1> DEFINE v == Written(x)
           w == Written(y)
<1>1. FileCount \in Nat /\ f \in 1 .. FileCount
  BY ArtifactAssumption DEF Files
<1>2. /\ v \in [0 .. FileCount -> Bytes] /\ v[0] = <<>>
      /\ \A n \in Files : v[n] = v[n - 1] \o Piece(x, n)
      /\ w \in [0 .. FileCount -> Bytes] /\ w[0] = <<>>
      /\ \A n \in Files : w[n] = w[n - 1] \o Piece(y, n)
  BY WrittenStep
<1>3. \A n \in Files \ {f} : Piece(x, n) = Piece(y, n) /\ Piece(x, n) \in Bytes
  BY PieceType DEF Piece
<1> HIDE DEF v, w
<1>4. v[f - 1] = w[f - 1]
  <2> DEFINE T == {n \in 0 .. f - 1 : v[n] # w[n]}
  <2>1. ASSUME T # {}
        PROVE  FALSE
    <3>1. PICK n \in T : \A m \in T : n <= m
      <4>1. T \subseteq Nat
        BY <1>1
      <4> HIDE DEF T
      <4>2. QED
        BY <2>1, <4>1, LeastNumber
    <3>2. n # 0
      BY <1>2, <3>1
    <3>3. n \in Files \ {f} /\ v[n - 1] = w[n - 1]
      BY <1>1, <3>1, <3>2 DEF Files
    <3>4. QED
      BY <1>2, <1>3, <3>1, <3>3
  <2>2. QED
    BY <1>1, <2>1
<1>5. v[f] # w[f]
  <2>1. Piece(x, f) # Piece(y, f)
    <3>1. ASSUME NEW c \in Contents, NEW d \in Contents, c # d,
                 (IF c = "none" THEN <<>> ELSE Name[f] \o Text[c])
                   = (IF d = "none" THEN <<>> ELSE Name[f] \o Text[d])
          PROVE  FALSE
      <4>1. Name[f] \in Bytes /\ Name[f] # <<>>
        BY ArtifactAssumption DEF Bytes
      <4>2. \A e \in Contents \ {"none"} : Text[e] \in Bytes
        BY ArtifactAssumption DEF Bytes
      <4>3. \A s \in Bytes : Name[f] \o s # <<>>
        BY <4>1 DEF Bytes
      <4>4. c # "none" /\ d # "none"
        BY <3>1, <4>2, <4>3
      <4>5. Text[c] = Text[d]
        BY <3>1, <4>1, <4>2, <4>4, CancelLeft
      <4>6. QED
        BY <3>1, <4>4, <4>5, ArtifactAssumption
    <3>2. x[f] \in Contents /\ y[f] \in Contents
      BY DEF Trees
    <3>3. QED
      BY <3>1, <3>2 DEF Piece
  <2>2. v[f - 1] \in Bytes
    BY <1>1, <1>2
  <2>3. Piece(x, f) \in Bytes /\ Piece(y, f) \in Bytes
    BY PieceType
  <2>4. v[f] = v[f - 1] \o Piece(x, f) /\ w[f] = v[f - 1] \o Piece(y, f)
    BY <1>2, <1>4
  <2>5. QED
    BY <2>1, <2>2, <2>3, <2>4, CancelLeft
<1>6. v[FileCount] # w[FileCount]
  <2> DEFINE T == {n \in f .. FileCount : v[n] = w[n]}
  <2>1. ASSUME T # {}
        PROVE  FALSE
    <3>1. PICK n \in T : \A m \in T : n <= m
      <4>1. T \subseteq Nat
        BY <1>1
      <4> HIDE DEF T
      <4>2. QED
        BY <2>1, <4>1, LeastNumber
    <3>2. n # f
      BY <1>5, <3>1
    <3>3. n \in Files \ {f} /\ n - 1 \in f .. FileCount
      BY <1>1, <3>1, <3>2 DEF Files
    <3>4. v[n - 1] \in Bytes /\ w[n - 1] \in Bytes
      BY <1>1, <1>2, <3>3
    <3>5. v[n - 1] = w[n - 1]
      <4>1. v[n - 1] \o Piece(x, n) = w[n - 1] \o Piece(x, n)
        BY <1>2, <1>3, <3>1, <3>3
      <4>2. QED
        BY <1>3, <3>3, <3>4, <4>1, CancelRight
    <3>6. QED
      BY <1>1, <3>1, <3>3, <3>5
  <2>2. QED
    BY <1>1, <2>1
<1>7. QED
  BY <1>6 DEF v, w

\* Equal hashes of the same kind: the same file, or a tree changed widely.
LEMMA DigestTells ==
  ASSUME NEW was \in Hashes, NEW is \in Things, Digest(was) = Digest(is)
  PROVE  \/ is = was
         \/ is.kind # was.kind
         \/ is.kind # "file" /\ \E f, g \in Differ(was, is) : f # g
<1> SUFFICES ASSUME is # was, is.kind = was.kind
             PROVE  is.kind # "file" /\ \E f, g \in Differ(was, is) : f # g
  OBVIOUS
<1>1. /\ was.files \in Trees /\ is.files \in Trees /\ was.files # is.files
      /\ is.kind # "walked"
  BY DEF Hashes, Things, Trees
<1>2. is.kind # "file"
  BY <1>1, ArtifactAssumption DEF Digest, Trees
<1>3. Written(was.files)[FileCount] = Written(is.files)[FileCount]
  BY <1>1, <1>2 DEF Digest
<1>4. PICK f \in Files : was.files[f] # is.files[f]
  BY <1>1 DEF Trees
<1>5. \E g \in Files \ {f} : was.files[g] # is.files[g]
  BY <1>1, <1>3, <1>4, OneDiffers
<1>6. QED
  BY <1>2, <1>4, <1>5 DEF Differ

-----------------------------------------------------------------------------
LEMMA InitInv == Init => ArtifactInv
<1> SUFFICES ASSUME Init PROVE ArtifactInv
  OBVIOUS
<1> USE DEF Init
<1>1. TypeOK
  BY ConstantTypes DEF TypeOK, States
<1>2. StageIsRecorded /\ DamageShows /\ NoSpuriousRebuild
  BY DEF StageIsRecorded, DamageShows, NoSpuriousRebuild
<1>3. QED
  BY <1>1, <1>2, ConstantTypes DEF ArtifactInv

(***************************************************************************)
(* A run that ends early, whatever it did to the host, leaves a state that *)
(* was there or none, and counts as something that happened.               *)
(***************************************************************************)
LEMMA EndsEarly ==
  ASSUME ArtifactInv, EndRun, dirty' = TRUE, disk' \in [Paths -> Things],
         UNCHANGED <<source, config, touched>>, state' \in {state, NoState}
  PROVE  ArtifactInv'
<1>1. TypeOK'
  BY ConstantTypes DEF ArtifactInv, TypeOK, States, EndRun
<1>2. StageIsRecorded' /\ DamageShows' /\ NoSpuriousRebuild'
  BY DEF EndRun, StageIsRecorded, DamageShows, NoSpuriousRebuild
<1>3. state'.exists => state'.path \in Paths
  BY ConstantTypes DEF ArtifactInv
<1>4. QED
  BY <1>1, <1>2, <1>3 DEF ArtifactInv, EndRun

-----------------------------------------------------------------------------
LEMMA WorldStep ==
  ASSUME ArtifactInv,
         EditSource \/ EditConfig \/ Crash \/ \E p \in Paths : Outsider(p) \/ Import(p)
  PROVE  ArtifactInv'
<1>1. CASE EditSource
  <2> USE <1>1 DEF EditSource, working, history
  <2>1. TypeOK'
    BY DEF ArtifactInv, TypeOK
  <2>2. StageIsRecorded' /\ DamageShows' /\ NoSpuriousRebuild'
    BY DEF ArtifactInv, StageIsRecorded, HoldsStage, AsFile, DamageShows, NoSpuriousRebuild
  <2>3. QED
    BY <2>1, <2>2 DEF ArtifactInv, HoldsStage, AsFile, Copied, Intact
<1>2. CASE EditConfig
  <2> USE <1>2 DEF EditConfig, working
  <2>1. TypeOK'
    BY DEF ArtifactInv, TypeOK
  <2>2. StageIsRecorded' /\ DamageShows' /\ NoSpuriousRebuild'
    BY DEF StageIsRecorded, DamageShows, NoSpuriousRebuild
  <2>3. QED
    BY <2>1, <2>2 DEF ArtifactInv
<1>3. CASE Crash
  BY <1>3, EndsEarly, Typed DEF Crash, ArtifactInv
<1>4. ASSUME NEW p \in Paths, Outsider(p)
      PROVE  ArtifactInv'
  <2>1. /\ disk' \in [Paths -> Things] /\ touched' = TRUE /\ dirty' = TRUE
        /\ UNCHANGED <<source, config, state, pc, working>>
    BY <1>4, ConstantTypes, Typed DEF Outsider, ArtifactInv
  <2>2. TypeOK'
    BY <2>1 DEF ArtifactInv, TypeOK, working
  <2>3. StageIsRecorded' /\ DamageShows' /\ NoSpuriousRebuild'
    BY <2>1 DEF StageIsRecorded, DamageShows, NoSpuriousRebuild
  <2>4. QED
    BY <2>1, <2>2, <2>3 DEF ArtifactInv, AsFile, working
<1>5. ASSUME NEW p \in Paths, Import(p)
      PROVE  ArtifactInv'
  <2>1. /\ state' = [NoState EXCEPT !.exists = TRUE, !.path = p]
        /\ pc = "idle" /\ dirty' = TRUE
        /\ UNCHANGED <<disk, source, config, pc, working, touched>>
    BY <1>5 DEF Import
  <2>2. state' \in States /\ state'.path = p
    BY <2>1, ConstantTypes DEF NoState, States
  <2>3. TypeOK'
    BY <2>1, <2>2 DEF ArtifactInv, TypeOK, States, working
  <2>4. StageIsRecorded' /\ DamageShows' /\ NoSpuriousRebuild'
    BY <2>1 DEF StageIsRecorded, DamageShows, NoSpuriousRebuild
  <2>5. QED
    BY <2>1, <2>2, <2>3, <2>4 DEF ArtifactInv
<1>6. QED
  BY <1>1, <1>2, <1>3, <1>4, <1>5

-----------------------------------------------------------------------------
(***************************************************************************)
(* The refresh and the plan.                                               *)
(***************************************************************************)
LEMMA ReadStep == ArtifactInv /\ (StartRun \/ Read) => ArtifactInv'
<1> SUFFICES ASSUME ArtifactInv, StartRun \/ Read PROVE ArtifactInv'
  OBVIOUS
<1>1. CASE StartRun
  <2> USE <1>1 DEF StartRun, working, history
  <2>1. TypeOK'
    BY DEF ArtifactInv, TypeOK
  <2>2. StageIsRecorded' /\ DamageShows' /\ NoSpuriousRebuild'
    BY DEF ArtifactInv, StageIsRecorded, DamageShows, NoSpuriousRebuild
  <2>3. QED
    BY <2>1, <2>2 DEF ArtifactInv, Intact
<1>2. CASE ReadGone \/ ReadDrifted
  <2>1. /\ pc = "read" /\ pc' = "plan" /\ state' = NoState
        /\ UNCHANGED <<disk, source, config, working, touched>>
    BY <1>2 DEF ReadGone, ReadDrifted
  <2>2. dirty' = TRUE
    <3>1. CASE dirty
      BY <1>2, <3>1 DEF ReadGone, ReadDrifted
    <3>2. CASE ~dirty
      BY <1>2, <3>2 DEF ReadGone, ReadDrifted, ArtifactInv, Intact
    <3>3. QED
      BY <3>1, <3>2
  <2>3. TypeOK'
    BY <2>1, <2>2, ConstantTypes DEF ArtifactInv, TypeOK, States, working
  <2>4. StageIsRecorded' /\ DamageShows' /\ NoSpuriousRebuild'
    BY <2>1, ConstantTypes DEF StageIsRecorded, DamageShows, NoSpuriousRebuild
  <2>5. QED
    BY <2>1, <2>2, <2>3, <2>4, ConstantTypes DEF ArtifactInv
<1>3. CASE ReadFails
  BY <1>3, EndsEarly, Typed DEF ReadFails, ArtifactInv
<1>4. CASE ReadKept
  <2> DEFINE is == disk[state.path]
  <2>1. /\ pc = "read" /\ pc' = "plan" /\ is # Absent
        /\ state.sha256 # Absent => Digest(state.sha256) = Digest(is)
        /\ state' = IF state.sha256 = Absent THEN [state EXCEPT !.sha256 = is] ELSE state
        /\ touched' = FALSE
        /\ UNCHANGED <<disk, source, config, working, dirty>>
    BY <1>4 DEF ReadKept
  <2>2. state.exists /\ state.path \in Paths /\ state \in States
    BY <2>1, Typed DEF ArtifactInv
  <2>3. is \in Things /\ is \in Hashes /\ state.sha256 \in Hashes
    BY <2>2, Typed, ConstantTypes DEF ArtifactInv, States
  <2> HIDE DEF is
  <2>4. /\ state' \in States /\ state'.exists /\ state'.path = state.path
        /\ state'.config = state.config
        /\ state'.sha256 = IF state.sha256 = Absent THEN is ELSE state.sha256
    BY <2>1, <2>2, <2>3 DEF States
  <2>5. TypeOK'
    BY <2>1, <2>4 DEF ArtifactInv, TypeOK, States, working
  <2>6. DamageShows'
    <3>1. disk'[state'.path] = is
      BY <2>1, <2>4 DEF is
    <3>2. CASE state.sha256 = Absent
      BY <2>4, <3>1, <3>2 DEF DamageShows
    <3>3. CASE state.sha256 # Absent
      BY <2>1, <2>3, <2>4, <3>1, <3>3, DigestTells DEF DamageShows, Differ
    <3>4. QED
      BY <3>2, <3>3
  <2>7. StageIsRecorded' /\ NoSpuriousRebuild'
    BY <2>1 DEF StageIsRecorded, NoSpuriousRebuild
  <2>8. ~dirty' => Intact'
    BY <2>1, <2>4 DEF ArtifactInv, Intact
  <2>9. QED
    BY <2>1, <2>2, <2>4, <2>5, <2>6, <2>7, <2>8 DEF ArtifactInv
<1>5. QED
  BY <1>1, <1>2, <1>3, <1>4 DEF Read

LEMMA PlanStep == ArtifactInv /\ Plan => ArtifactInv'
<1> SUFFICES ASSUME ArtifactInv, Plan PROVE ArtifactInv'
  OBVIOUS
<1>1. CASE PlanNothing
  <2> USE <1>1 DEF PlanNothing, EndRun, history
  <2>1. TypeOK'
    BY ConstantTypes DEF ArtifactInv, TypeOK
  <2>2. StageIsRecorded' /\ DamageShows' /\ NoSpuriousRebuild'
    BY DEF StageIsRecorded, DamageShows, NoSpuriousRebuild
  <2>3. QED
    BY <2>1, <2>2 DEF ArtifactInv, Intact
<1>2. CASE PlanChange
  <2>1. /\ pc = "plan" /\ pc' \in {"delete", "build"} /\ state.config # config
        /\ pc' = "delete" => state.exists
        /\ UNCHANGED <<disk, source, config, state, working, history>>
    BY <1>2 DEF PlanChange
  <2>2. dirty' /\ dirty
    BY <2>1 DEF ArtifactInv, TypeOK, Intact, history
  <2>3. TypeOK'
    BY <2>1 DEF ArtifactInv, TypeOK, working, history
  <2>4. StageIsRecorded' /\ DamageShows' /\ NoSpuriousRebuild'
    BY <2>1, <2>2 DEF StageIsRecorded, DamageShows, NoSpuriousRebuild
  <2>5. QED
    BY <2>1, <2>2, <2>3, <2>4 DEF ArtifactInv
<1>3. QED
  BY <1>1, <1>2 DEF Plan

-----------------------------------------------------------------------------
(***************************************************************************)
(* The apply.  A step that goes on is dirty; what it has to establish is   *)
(* what its next pc says of the destination.                               *)
(***************************************************************************)
LEMMA GoesOn ==
  ASSUME ArtifactInv, pc \notin {"idle", "read", "plan"},
         pc' \in {"build", "write", "copy", "hash", "save"},
         disk' \in [Paths -> Things], out' \in Things, sum' \in Hashes, todo' \subseteq Files,
         touched' \in BOOLEAN, state' \in {state, NoState},
         UNCHANGED <<source, config, dirty>>,
         pc' = "copy" => ~AsFile',
         ~touched' =>
           /\ pc' = "copy" => disk'[config.dst].kind = "dir" /\ Copied'
           /\ pc' = "hash" => HoldsStage(disk[config.dst])'
           /\ pc' = "save" => /\ sum' # Absent /\ sum'.kind \in {disk'[config.dst].kind, "walked"}
                             /\ sum'.files = disk'[config.dst].files
                             /\ HoldsStage(sum)'
  PROVE  ArtifactInv'
<1>1. TypeOK'
  BY ConstantTypes DEF ArtifactInv, TypeOK, States
<1>2. StageIsRecorded' /\ DamageShows'
  BY DEF StageIsRecorded, DamageShows
<1>3. NoSpuriousRebuild' /\ dirty'
  BY DEF ArtifactInv, NoSpuriousRebuild
<1>4. state'.exists => state'.path \in Paths
  BY ConstantTypes DEF ArtifactInv
<1>5. QED
  BY <1>1, <1>2, <1>3, <1>4 DEF ArtifactInv

LEMMA FailStep ==
  ASSUME ArtifactInv,
         BuildFails \/ WriteFileFails \/ OpenTreeFails \/ CopyFileFails \/ HashFails
  PROVE  ArtifactInv'
<1>1. Fails
  BY DEF BuildFails, WriteFileFails, OpenTreeFails, CopyFileFails, HashFails
<1>2. disk' \in [Paths -> Things]
  <2>1. CASE UNCHANGED disk
    BY <2>1, Typed DEF ArtifactInv
  <2>2. CASE WriteFileFails
    BY <2>2, Typed, ConstantTypes DEF WriteFileFails, ArtifactInv
  <2>3. CASE CopyFileFails
    <3>1. PICK f \in todo :
               disk' \in {disk, [disk EXCEPT ![config.dst].kind = "dir",
                                            ![config.dst].files[f] = "torn"]}
      BY <2>3 DEF CopyFileFails
    <3>2. f \in Files
      BY <3>1 DEF ArtifactInv, TypeOK
    <3>3. QED
      BY <3>1, <3>2, Typed DEF ArtifactInv, Things, Contents
  <2>4. QED
    BY <2>1, <2>2, <2>3 DEF BuildFails, OpenTreeFails, HashFails
<1>3. QED
  BY <1>1, <1>2, EndsEarly DEF Fails

LEMMA GoOnStep ==
  ASSUME ArtifactInv,
         Delete \/ Build \/ WriteFile \/ OpenTree \/ CopyFile \/ CopyDone
         \/ Hash \/ HashFallback
  PROVE  ArtifactInv'
<1> USE Typed DEF working, history
<1>1. CASE Delete
  <2>1. disk' \in [Paths -> Things]
    BY <1>1, ConstantTypes DEF Delete, RemoveAll, ArtifactInv
  <2>2. QED
    BY <1>1, <2>1, GoesOn DEF Delete, ArtifactInv, TypeOK
<1>2. CASE Build
  BY <1>2, GoesOn DEF Build, ArtifactInv, TypeOK
<1>3. CASE WriteFile
  <2> DEFINE x == [kind |-> "file", files |-> out.files]
  <2>1. /\ pc = "write" /\ pc' = "hash" /\ AsFile
        /\ disk' = [disk EXCEPT ![config.dst] = x]
        /\ UNCHANGED <<source, config, state, working, history>>
    BY <1>3 DEF WriteFile
  <2>2. x \in Things
    BY DEF ArtifactInv, Things
  <2>3. disk' \in [Paths -> Things] /\ disk'[config.dst] = x
    BY <2>1, <2>2 DEF ArtifactInv
  <2>4. HoldsStage(disk[config.dst])'
    BY <2>1, <2>3 DEF HoldsStage, AsFile
  <2> HIDE DEF x
  <2>5. QED
    BY <2>1, <2>3, <2>4, GoesOn DEF ArtifactInv, TypeOK
<1>4. CASE OpenTree
  <2>1. /\ pc = "write" /\ pc' = "copy" /\ ~AsFile
        /\ disk' = [disk EXCEPT ![config.dst].kind = "dir"]
        /\ todo' = {f \in Files : out.files[f] # "none"}
        /\ UNCHANGED <<source, config, state, out, sum, history>>
    BY <1>4 DEF OpenTree
  <2>2. disk' \in [Paths -> Things] /\ disk'[config.dst].kind = "dir"
    BY <2>1 DEF ArtifactInv, Things
  <2>3. Copied' /\ ~AsFile'
    BY <2>1 DEF Copied, AsFile
  <2>4. QED
    BY <2>1, <2>2, <2>3, GoesOn DEF ArtifactInv, TypeOK
<1>5. CASE CopyFile
  <2>1. PICK f \in todo :
             /\ disk' = [disk EXCEPT ![config.dst].kind = "dir",
                                     ![config.dst].files[f] = out.files[f]]
             /\ todo' = todo \ {f}
    BY <1>5 DEF CopyFile
  <2>2. pc = "copy" /\ UNCHANGED <<source, config, state, pc, out, sum, history>>
    BY <1>5 DEF CopyFile
  <2>3. f \in Files /\ config.dst \in Paths /\ out.files[f] \in Contents
    BY <2>1 DEF ArtifactInv, TypeOK, Things
  <2>4. /\ disk' \in [Paths -> Things] /\ disk'[config.dst].kind = "dir"
        /\ disk'[config.dst].files[f] = out.files[f]
        /\ \A g \in Files \ {f} : disk'[config.dst].files[g] = disk[config.dst].files[g]
    BY <2>1, <2>3 DEF ArtifactInv, Things
  <2>5. ~touched => Copied'
    BY <2>1, <2>2, <2>4 DEF ArtifactInv, Copied
  <2>6. ~AsFile'
    BY <2>2 DEF ArtifactInv, AsFile
  <2>7. QED
    BY <2>1, <2>2, <2>4, <2>5, <2>6, GoesOn DEF ArtifactInv, TypeOK
<1>6. CASE CopyDone
  <2>1. /\ pc = "copy" /\ todo = {} /\ pc' = "hash"
        /\ UNCHANGED <<disk, source, config, state, working, history>>
    BY <1>6 DEF CopyDone
  <2>2. ~touched => HoldsStage(disk[config.dst])'
    BY <2>1 DEF ArtifactInv, Copied, HoldsStage, AsFile
  <2>3. QED
    BY <2>1, <2>2, GoesOn DEF ArtifactInv, TypeOK
<1>7. CASE Hash
  <2>1. /\ pc = "hash" /\ pc' = "save" /\ disk[config.dst] # Absent
        /\ sum' = disk[config.dst]
        /\ UNCHANGED <<disk, source, config, state, out, todo, history>>
    BY <1>7 DEF Hash
  <2>2. ~touched => HoldsStage(sum)'
    BY <2>1 DEF ArtifactInv, HoldsStage, AsFile
  <2>3. sum' \in Hashes
    BY <2>1, ConstantTypes DEF ArtifactInv
  <2>4. QED
    BY <2>1, <2>2, <2>3, GoesOn DEF ArtifactInv, TypeOK
<1>8. CASE HashFallback
  <2>1. /\ pc = "hash" /\ pc' = "save" /\ disk[config.dst].kind = "file"
        /\ sum' = [kind |-> "walked", files |-> disk[config.dst].files]
        /\ UNCHANGED <<disk, source, config, state, out, todo, history>>
    BY <1>8 DEF HashFallback
  <2>2. disk[config.dst].files \in Trees
    BY DEF ArtifactInv, Things, Trees
  <2>3. sum' \in Hashes /\ sum'.kind = "walked" /\ sum' # Absent
        /\ sum'.files = disk[config.dst].files
    BY <2>1, <2>2 DEF Hashes, Trees, Absent
  <2>4. ~touched => HoldsStage(sum)'
    <3>1. ~touched => HoldsStage(disk[config.dst])
      BY <2>1 DEF ArtifactInv
    <3>2. QED
      BY <2>1, <2>3, <3>1 DEF HoldsStage, AsFile
  <2>5. QED
    BY <2>1, <2>3, <2>4, GoesOn DEF ArtifactInv, TypeOK
<1>9. QED
  BY <1>1, <1>2, <1>3, <1>4, <1>5, <1>6, <1>7, <1>8

LEMMA SaveStep == ArtifactInv /\ Save => ArtifactInv'
<1> SUFFICES ASSUME ArtifactInv, Save PROVE ArtifactInv'
  OBVIOUS
<1>1. /\ pc = "save" /\ EndRun /\ dirty' = (touched \/ sum.kind = "walked")
      /\ \E d \in {source, Absent} :
           state' = [exists |-> TRUE, config |-> config, path |-> config.dst,
                     sha256 |-> sum, contextDigest |-> d]
      /\ UNCHANGED <<disk, source, config, touched>>
  BY DEF Save
<1>2. /\ state' \in States /\ state'.exists /\ state'.config = config
      /\ state'.path = config.dst /\ state'.sha256 = sum
  BY <1>1, Typed, ConstantTypes DEF ArtifactInv, States
<1>3. TypeOK'
  BY <1>1, <1>2, ConstantTypes DEF ArtifactInv, TypeOK, States, EndRun
<1>4. StageIsRecorded' /\ DamageShows' /\ NoSpuriousRebuild'
  BY <1>1 DEF EndRun, StageIsRecorded, DamageShows, NoSpuriousRebuild
<1>5. ~dirty' => Intact'
  <2>1. SUFFICES ASSUME ~touched, sum.kind # "walked"
                 PROVE  Intact'
    BY <1>1 DEF ArtifactInv, TypeOK
  <2>2. /\ sum # Absent /\ sum.kind = disk[config.dst].kind
        /\ sum.files = disk[config.dst].files
    BY <1>1, <2>1 DEF ArtifactInv
  <2>3. sum = disk[config.dst]
    BY <2>2, Typed DEF ArtifactInv, Things, Hashes
  <2>4. QED
    BY <1>1, <1>2, <2>2, <2>3 DEF Intact
<1>6. QED
  BY <1>1, <1>2, <1>3, <1>4, <1>5, Typed DEF ArtifactInv, EndRun

LEMMA StepInv == ArtifactInv /\ [Next]_vars => ArtifactInv'
<1> SUFFICES ASSUME ArtifactInv, [Next]_vars PROVE ArtifactInv'
  OBVIOUS
<1>1. CASE Destroy
  <2>1. disk' \in [Paths -> Things]
    BY <1>1, Typed, ConstantTypes DEF Destroy, RemoveAll, ArtifactInv
  <2>2. QED
    BY <1>1, <2>1, EndsEarly DEF Destroy
<1>2. CASE Apply
  BY <1>1, <1>2, FailStep, GoOnStep, SaveStep DEF Apply
<1>3. CASE UNCHANGED vars
  BY <1>3 DEF vars, ArtifactInv, TypeOK, StageIsRecorded, DamageShows,
              NoSpuriousRebuild, HoldsStage, AsFile, Copied, Intact
<1>4. QED
  BY <1>2, <1>3, WorldStep, ReadStep, PlanStep DEF Next

(***************************************************************************)
(* The invariant of artifact_resource.go:145-478 with its types, for every *)
(* number of files, whatever their names, contents and bytes.              *)
(***************************************************************************)
THEOREM ArtifactInvariant == Spec => []ArtifactInv
<1>1. QED
  BY InitInv, StepInv, PTL DEF Spec

\* A successful apply never records a half-written file.
THEOREM StageIsRecordedAlways == Spec => []StageIsRecorded
<1>1. ArtifactInv => StageIsRecorded
  BY DEF ArtifactInv
<1>2. QED
  BY <1>1, ArtifactInvariant, PTL

\* After a refresh no single file of the artifact is damaged, or the resource
\* is gone: that much the bytes sha256Tree writes can tell.
THEOREM DamageShowsAlways == Spec => []DamageShows
<1>1. ArtifactInv => DamageShows
  BY DEF ArtifactInv
<1>2. QED
  BY <1>1, ArtifactInvariant, PTL

\* Nothing is built again unless something happened.
THEOREM NoSpuriousRebuildAlways == Spec => []NoSpuriousRebuild
<1>1. ArtifactInv => NoSpuriousRebuild
  BY DEF ArtifactInv
<1>2. QED
  BY <1>1, ArtifactInvariant, PTL
===============================================================================
