------------------------------ MODULE ImageProofs ------------------------------
(***************************************************************************)
(* Proofs about ImageResource for every set of tags and configurations and *)
(* any number of edits of the context: what is pushed, what is recorded,   *)
(* when an apply counts as complete, and why Read drops a resource.        *)
(***************************************************************************)
EXTENDS ImageResource, TLAPS

USE ImageAssumption

-----------------------------------------------------------------------------
LEMMA ConstantTypes ==
  /\ NoDigest \in Digests /\ Foreign \in Digests /\ Foreign # NoDigest
  /\ NoState \in [exists : BOOLEAN, config : Configs \cup {NoConfig},
                  id : Digests, imageDigest : Digests,
                  contextDigest : 0 .. MaxEdits \cup {NoHash},
                  published : SUBSET Entries]
  /\ NoState.exists = FALSE /\ NoState.published = {} /\ NoState.config.blocks = {}
  /\ NoFlags \in [push : BOOLEAN, insecure : BOOLEAN]
<1>1. NoDigest \in Digests /\ Foreign \in Digests /\ Foreign # NoDigest
  BY DEF NoDigest, Foreign, Digests
<1>2. NoState \in [exists : BOOLEAN, config : Configs \cup {NoConfig},
                   id : Digests, imageDigest : Digests,
                   contextDigest : 0 .. MaxEdits \cup {NoHash},
                   published : SUBSET Entries]
  BY <1>1 DEF NoState
<1>3. NoState.exists = FALSE /\ NoState.published = {} /\ NoState.config.blocks = {}
  BY DEF NoState, NoConfig
<1>4. NoFlags \in [push : BOOLEAN, insecure : BOOLEAN]
  BY DEF NoFlags
<1>5. QED
  BY <1>1, <1>2, <1>3, <1>4

\* The blocks of a configuration, and of a state's.
LEMMA BlockType ==
  ASSUME NEW c \in Configs \cup {NoConfig}, NEW b \in c.blocks
  PROVE  b.tag \in Tags /\ b.push \in BOOLEAN /\ b.insecure \in BOOLEAN
BY DEF NoConfig

\* A tracked entry that belongs to a block has a tag that can be looked up.
LEMMA TrackedTag ==
  ASSUME NEW c \in Configs \cup {NoConfig}, NEW e, e.tracked, EntryOf(c.blocks, e)
  PROVE  e.tag \in Tags
BY BlockType DEF EntryOf

\* What a tag had is not forgotten when some tag moves.
LEMMA RetagGrows ==
  ASSUME TypeOK, NEW t \in Tags, NEW d \in Digests, Retag(t, d),
         \A u \in Tags : registry[u] # NoDigest => registry[u] \in seen[u]
  PROVE  /\ registry' \in [Tags -> Digests] /\ seen' \in [Tags -> SUBSET Digests]
         /\ \A u \in Tags : registry'[u] # NoDigest => registry'[u] \in seen'[u]
         /\ \A u \in Tags : seen[u] \subseteq seen'[u]
         /\ d # NoDigest => d \in seen'[t]
<1>1. registry' \in [Tags -> Digests] /\ seen' \in [Tags -> SUBSET Digests]
  BY DEF TypeOK, Retag
<1>2. \A u \in Tags : u # t => registry'[u] = registry[u] /\ seen'[u] = seen[u]
  BY DEF TypeOK, Retag
<1>3. /\ registry'[t] = d
      /\ seen'[t] = IF d = NoDigest THEN seen[t] ELSE seen[t] \cup {d}
  BY DEF TypeOK, Retag
<1>4. QED
  BY <1>1, <1>2, <1>3

-----------------------------------------------------------------------------
LEMMA InitInv == Init => ImageInv
<1> SUFFICES ASSUME Init PROVE ImageInv
  OBVIOUS
<1> USE DEF Init
<1>1. TypeOK
  BY ConstantTypes DEF TypeOK
<1>2. PushedAsDeclared /\ RecordedWasThere /\ StateComplete /\ Reading /\ Building
  BY ConstantTypes DEF PushedAsDeclared, RecordedWasThere, StateComplete, Reading, Building
<1>3. QED
  BY <1>1, <1>2, ConstantTypes DEF ImageInv

(***************************************************************************)
(* Steps that move a tag, or nothing, and change neither the state nor     *)
(* what is being read and built keep all that is said of them.             *)
(***************************************************************************)
LEMMA SeenGrows ==
  ASSUME ImageInv, UNCHANGED <<config, state>>,
         \A u \in Tags : seen[u] \subseteq seen'[u]
  PROVE  /\ RecordedWasThere' /\ StateComplete'
         /\ (~state.exists => state = NoState)'
         /\ (\A e \in state.published : EntryOf(state.config.blocks, e))'
         /\ pc = "read" => \A e \in todo \cup entries : WasThere(seen', e)
         /\ pc = "push" => \A b \in config.blocks :
                             b.push => b.tag \in names \/ build \in seen'[b.tag]
<1>1. state.config \in Configs \cup {NoConfig} /\ config \in Configs \cup {NoConfig}
  BY DEF ImageInv, TypeOK
<1>2. RecordedWasThere'
  <2>1. ASSUME NEW e \in state.published, e.tracked, e.digest # NoDigest
        PROVE  e.digest \in seen'[e.tag]
    <3>1. e.tag \in Tags
      BY <1>1, <2>1, TrackedTag DEF ImageInv
    <3>2. e.digest \in seen[e.tag]
      BY <2>1 DEF ImageInv, RecordedWasThere
    <3>3. QED
      BY <3>1, <3>2
  <2>2. QED
    BY <2>1 DEF RecordedWasThere
<1>3. StateComplete'
  <2>1. ASSUME NEW b \in state.config.blocks
        PROVE  /\ b.push /\ state.imageDigest # NoDigest => state.imageDigest \in seen'[b.tag]
               /\ \E e \in state.published : e.tag = b.tag /\ e.tracked
    BY <1>1, BlockType DEF ImageInv, StateComplete
  <2>2. QED
    BY <2>1 DEF StateComplete
<1>4. ASSUME pc = "read", NEW e \in todo \cup entries
      PROVE  WasThere(seen', e)
  <2>1. EntryOf(state.config.blocks, e) /\ WasThere(seen, e)
    BY <1>4 DEF ImageInv, Reading
  <2>2. CASE e.tracked
    <3>1. e.tag \in Tags
      BY <1>1, <2>1, <2>2, TrackedTag
    <3>2. QED
      BY <2>1, <3>1 DEF WasThere
  <2>3. CASE ~e.tracked
    BY <2>3 DEF WasThere
  <2>4. QED
    BY <2>2, <2>3
<1>5. ASSUME pc = "push", NEW b \in config.blocks, b.push
      PROVE  b.tag \in names \/ build \in seen'[b.tag]
  BY <1>1, <1>5, BlockType DEF ImageInv, Building
<1>6. QED
  BY <1>2, <1>3, <1>4, <1>5 DEF ImageInv

\* The end of a run leaves what is recorded as it is.
LEMMA EndRunStep ==
  ASSUME ImageInv, EndRun, UNCHANGED <<world, state>>
  PROVE  ImageInv'
<1> USE DEF EndRun, world
<1>1. TypeOK'
  BY ConstantTypes DEF ImageInv, TypeOK
<1>2. PushedAsDeclared' /\ RecordedWasThere' /\ StateComplete'
  BY DEF ImageInv, PushedAsDeclared, RecordedWasThere, StateComplete
<1>3. Reading' /\ Building'
  BY DEF Reading, Building
<1>4. QED
  BY <1>1, <1>2, <1>3 DEF ImageInv

\* A resource that leaves the state leaves nothing to be complete.
LEMMA Forgotten ==
  ASSUME state' = NoState
  PROVE  /\ RecordedWasThere' /\ StateComplete'
         /\ (~state.exists => state = NoState)'
         /\ (\A e \in state.published : EntryOf(state.config.blocks, e))'
BY ConstantTypes DEF RecordedWasThere, StateComplete

-----------------------------------------------------------------------------
(***************************************************************************)
(* The surroundings.                                                       *)
(***************************************************************************)
LEMMA WorldStep ==
  ASSUME ImageInv,
         EditConfig \/ EditContext \/ Import \/ \E t \in Tags : Outsider(t)
  PROVE  ImageInv'
<1>1. CASE EditConfig
  <2> USE <1>1 DEF EditConfig
  <2>1. TypeOK'
    BY DEF ImageInv, TypeOK, reading, building
  <2>2. PushedAsDeclared' /\ RecordedWasThere' /\ StateComplete' /\ Reading' /\ Building'
    BY DEF ImageInv, PushedAsDeclared, RecordedWasThere, StateComplete, Reading, Building
  <2>3. QED
    BY <2>1, <2>2 DEF ImageInv, reading, building
<1>2. CASE EditContext
  <2> USE <1>2 DEF EditContext, reading, building
  <2>1. TypeOK'
    BY DEF ImageInv, TypeOK
  <2>2. PushedAsDeclared' /\ RecordedWasThere' /\ StateComplete' /\ Reading' /\ Building'
    BY DEF ImageInv, PushedAsDeclared, RecordedWasThere, StateComplete, Reading, Building
  <2>3. QED
    BY <2>1, <2>2 DEF ImageInv
<1>3. CASE Import
  <2> DEFINE e == [tag |-> "none", tracked |-> FALSE, digest |-> Foreign, insecure |-> FALSE]
  <2>1. /\ state' = [NoState EXCEPT !.exists = TRUE, !.id = Foreign, !.imageDigest = Foreign,
                                    !.published = {e}]
        /\ pc = "idle" /\ UNCHANGED <<world, pc, reading, id, building>>
    BY <1>3 DEF Import
  <2>2. e \in Entries /\ ~e.tracked
    BY ConstantTypes DEF Entries
  <2>3. /\ state'.exists /\ state'.published = {e} /\ state'.config.blocks = {}
        /\ state' \in [exists : BOOLEAN, config : Configs \cup {NoConfig},
                       id : Digests, imageDigest : Digests,
                       contextDigest : 0 .. MaxEdits \cup {NoHash},
                       published : SUBSET Entries]
    BY <2>1, <2>2, ConstantTypes DEF NoState, NoConfig
  <2> HIDE DEF e
  <2>4. TypeOK'
    BY <2>1, <2>3 DEF ImageInv, TypeOK, world, reading, building
  <2>5. PushedAsDeclared' /\ RecordedWasThere' /\ StateComplete' /\ Reading' /\ Building'
    BY <2>1, <2>2, <2>3
       DEF PushedAsDeclared, RecordedWasThere, StateComplete, Reading, Building
  <2>6. \A f \in state'.published : EntryOf(state'.config.blocks, f)
    BY <2>2, <2>3 DEF EntryOf
  <2>7. QED
    BY <2>1, <2>3, <2>4, <2>5, <2>6 DEF ImageInv, world, reading, building
<1>4. ASSUME NEW t \in Tags, Outsider(t)
      PROVE  ImageInv'
  <2>1. /\ \E d \in {Foreign, NoDigest} : Retag(t, d)
        /\ UNCHANGED <<context, config, state, pc, reading, id, building>>
    BY <1>4 DEF Outsider
  <2>2. PICK d \in Digests : Retag(t, d)
    BY <2>1, ConstantTypes
  <2>3. /\ registry' \in [Tags -> Digests] /\ seen' \in [Tags -> SUBSET Digests]
        /\ \A u \in Tags : registry'[u] # NoDigest => registry'[u] \in seen'[u]
        /\ \A u \in Tags : seen[u] \subseteq seen'[u]
    BY <2>2, RetagGrows DEF ImageInv
  <2>4. TypeOK'
    BY <2>1, <2>3 DEF ImageInv, TypeOK, reading, building
  <2>5. PushedAsDeclared'
    BY <2>1 DEF ImageInv, PushedAsDeclared, building
  <2>6. Reading' /\ Building'
    BY <2>1, <2>3, SeenGrows DEF ImageInv, Reading, Building, reading, building
  <2>7. QED
    BY <2>1, <2>3, <2>4, <2>5, <2>6, SeenGrows DEF ImageInv, reading, building
<1>5. QED
  BY <1>1, <1>2, <1>3, <1>4

-----------------------------------------------------------------------------
(***************************************************************************)
(* The refresh: an entry passes from todo to entries, by itself or with    *)
(* the digest its tag has now.                                             *)
(***************************************************************************)
LEMMA EntryStep ==
  ASSUME ImageInv, pc = "read", NEW e \in todo, NEW f \in Entries,
         f.tag = e.tag, f.tracked = e.tracked, WasThere(seen, f),
         entries' = entries \cup {f}, todo' = todo \ {e},
         UNCHANGED <<world, state, pc, id, building>>
  PROVE  ImageInv'
<1> USE DEF world, building
<1>1. TypeOK'
  BY DEF ImageInv, TypeOK
<1>2. PushedAsDeclared' /\ RecordedWasThere' /\ StateComplete' /\ Building'
  BY DEF ImageInv, PushedAsDeclared, RecordedWasThere, StateComplete, Building
<1>3. state'.exists
  BY DEF ImageInv, Reading
<1>4. ASSUME NEW g \in todo' \cup entries'
      PROVE  EntryOf(state'.config.blocks, g) /\ WasThere(seen', g)
  <2>1. EntryOf(state.config.blocks, e)
    BY DEF ImageInv, Reading
  <2>2. EntryOf(state.config.blocks, f)
    BY <2>1 DEF EntryOf
  <2>3. CASE g = f
    BY <2>2, <2>3
  <2>4. CASE g # f
    BY <1>4, <2>4 DEF ImageInv, Reading
  <2>5. QED
    BY <2>3, <2>4
<1>5. ASSUME NEW b \in state'.config.blocks
      PROVE  HasEntry(todo' \cup entries', b)
  <2>1. PICK g \in todo \cup entries : g.tag = b.tag /\ g.tracked
    BY <1>5 DEF ImageInv, Reading, HasEntry
  <2>2. CASE g = e
    BY <2>1, <2>2 DEF HasEntry
  <2>3. CASE g # e
    BY <2>1, <2>3 DEF HasEntry
  <2>4. QED
    BY <2>2, <2>3
<1>6. Reading'
  BY <1>3, <1>4, <1>5 DEF Reading
<1>7. QED
  BY <1>1, <1>2, <1>6 DEF ImageInv

LEMMA ReadStep == ImageInv /\ Read => ImageInv'
<1> SUFFICES ASSUME ImageInv, Read PROVE ImageInv'
  OBVIOUS
<1>1. CASE SkipEntry
  <2>1. PICK e \in todo : ~e.tracked /\ entries' = entries \cup {e} /\ todo' = todo \ {e}
    BY <1>1 DEF SkipEntry
  <2>2. e \in Entries /\ WasThere(seen, e)
    BY <2>1 DEF ImageInv, TypeOK, WasThere
  <2>3. QED
    BY <1>1, <2>1, <2>2, EntryStep DEF SkipEntry
<1>2. CASE LookUp
  <2>1. PICK e \in todo :
             /\ e.tracked /\ registry[e.tag] # NoDigest
             /\ entries' = entries \cup {[e EXCEPT !.digest = registry[e.tag]]}
             /\ todo' = todo \ {e}
    BY <1>2 DEF LookUp
  <2> DEFINE f == [e EXCEPT !.digest = registry[e.tag]]
  <2>2. pc = "read" /\ UNCHANGED <<world, state, pc, id, building>>
    BY <1>2 DEF LookUp
  <2>3. e \in Entries /\ e.tag \in Tags
    <3>1. state.config \in Configs \cup {NoConfig} /\ EntryOf(state.config.blocks, e)
      BY <2>2 DEF ImageInv, TypeOK, Reading
    <3>2. QED
      BY <2>1, <3>1, TrackedTag DEF ImageInv, TypeOK
  <2>4. registry[e.tag] \in Digests /\ registry[e.tag] \in seen[e.tag]
    BY <2>1, <2>3 DEF ImageInv, TypeOK
  <2>5. f.tag = e.tag /\ f.tracked = e.tracked /\ f \in Entries /\ f.digest = registry[e.tag]
    BY <2>3, <2>4 DEF Entries
  <2>6. entries' = entries \cup {f}
    BY <2>1
  <2>7. WasThere(seen, f)
    BY <2>4, <2>5 DEF WasThere
  <2> HIDE DEF f
  <2>8. QED
    BY <2>1, <2>2, <2>5, <2>6, <2>7, EntryStep
<1>3. CASE LookUpNotFound
  <2> USE <1>3 DEF LookUpNotFound, world, building
  <2>1. TypeOK'
    BY ConstantTypes DEF ImageInv, TypeOK
  <2>2. PushedAsDeclared' /\ Reading' /\ Building'
    BY DEF PushedAsDeclared, Reading, Building
  <2>3. QED
    BY <2>1, <2>2, Forgotten DEF ImageInv
<1>4. CASE LookUpError
  BY <1>4, EndRunStep DEF LookUpError
<1>5. CASE ReadDone
  <2>1. /\ pc = "read" /\ todo = {} /\ pc' = "plan"
        /\ state' = [state EXCEPT !.published = entries]
        /\ UNCHANGED <<world, reading, id, building>>
    BY <1>5 DEF ReadDone
  <2>2. /\ state'.exists = state.exists /\ state'.config = state.config
        /\ state'.imageDigest = state.imageDigest /\ state'.published = entries
    BY <2>1 DEF ImageInv, TypeOK
  <2>3. TypeOK'
    BY <2>1 DEF ImageInv, TypeOK, world, reading, building
  <2>4. RecordedWasThere'
    BY <2>1, <2>2 DEF ImageInv, Reading, RecordedWasThere, WasThere, world
  <2>5. StateComplete'
    BY <2>1, <2>2 DEF ImageInv, Reading, StateComplete, HasEntry, world
  <2>6. state'.exists /\ \A e \in state'.published : EntryOf(state'.config.blocks, e)
    BY <2>1, <2>2 DEF ImageInv, Reading
  <2>7. PushedAsDeclared' /\ Reading' /\ Building'
    BY <2>1 DEF PushedAsDeclared, Reading, Building
  <2>8. QED
    BY <2>1, <2>3, <2>4, <2>5, <2>6, <2>7 DEF ImageInv, world, reading, building
<1>6. QED
  BY <1>1, <1>2, <1>3, <1>4, <1>5 DEF Read

-----------------------------------------------------------------------------
(***************************************************************************)
(* The plan only chooses what comes next.                                  *)
(***************************************************************************)
LEMMA ChooseStep ==
  ASSUME ImageInv, pc = "plan", pc' \in {"flags", "delete"}, id' \in Digests,
         UNCHANGED <<world, state, reading, building>>
  PROVE  ImageInv'
<1> USE DEF world, reading, building
<1>1. TypeOK'
  BY DEF ImageInv, TypeOK
<1>2. PushedAsDeclared' /\ RecordedWasThere' /\ StateComplete' /\ Reading' /\ Building'
  BY DEF ImageInv, PushedAsDeclared, RecordedWasThere, StateComplete, Reading, Building
<1>3. QED
  BY <1>1, <1>2 DEF ImageInv

LEMMA PlanStep == ImageInv /\ (StartRun \/ Plan) => ImageInv'
<1> SUFFICES ASSUME ImageInv, StartRun \/ Plan PROVE ImageInv'
  OBVIOUS
<1>1. CASE StartRun
  <2> USE <1>1 DEF StartRun, world, building
  <2>1. TypeOK'
    BY DEF ImageInv, TypeOK
  <2>2. PushedAsDeclared' /\ RecordedWasThere' /\ StateComplete' /\ Building'
    BY DEF ImageInv, PushedAsDeclared, RecordedWasThere, StateComplete, Building
  <2>3. Reading'
    <3>1. SUFFICES ASSUME pc' = "read" PROVE Reading'
      BY DEF Reading
    <3>2. state'.exists /\ todo' \cup entries' = state.published
      BY <3>1 DEF ImageInv
    <3>3. \A e \in state.published : EntryOf(state.config.blocks, e) /\ WasThere(seen, e)
      BY DEF ImageInv, RecordedWasThere, WasThere
    <3>4. \A b \in state.config.blocks : HasEntry(state.published, b)
      BY DEF ImageInv, StateComplete, HasEntry
    <3>5. QED
      BY <3>2, <3>3, <3>4 DEF Reading
  <2>4. QED
    BY <2>1, <2>2, <2>3 DEF ImageInv
<1>2. CASE PlanCreate
  BY <1>2, ChooseStep DEF PlanCreate, ImageInv, TypeOK
<1>3. CASE PlanNothing
  BY <1>3, EndRunStep DEF PlanNothing
<1>4. CASE PlanReplace
  BY <1>4, ChooseStep DEF PlanReplace, ImageInv, TypeOK
<1>5. CASE PlanUpdate
  BY <1>5, ChooseStep DEF PlanUpdate, ImageInv, TypeOK
<1>6. QED
  BY <1>1, <1>2, <1>3, <1>4, <1>5 DEF Plan

-----------------------------------------------------------------------------
LEMMA ApplyStep == ImageInv /\ Apply => ImageInv'
<1> SUFFICES ASSUME ImageInv, Apply PROVE ImageInv'
  OBVIOUS
<1>1. CASE Delete
  <2> USE <1>1 DEF Delete, world, reading, building
  <2>1. TypeOK'
    BY ConstantTypes DEF ImageInv, TypeOK
  <2>2. PushedAsDeclared' /\ Reading' /\ Building'
    BY DEF PushedAsDeclared, Reading, Building
  <2>3. QED
    BY <2>1, <2>2, Forgotten DEF ImageInv
<1>2. CASE Destroy
  <2> USE <1>2 DEF Destroy, EndRun, world
  <2>1. TypeOK'
    BY ConstantTypes DEF ImageInv, TypeOK
  <2>2. PushedAsDeclared' /\ Reading' /\ Building'
    BY DEF PushedAsDeclared, Reading, Building
  <2>3. QED
    BY <2>1, <2>2, Forgotten DEF ImageInv
<1>3. CASE CheckFlags
  <2>1. CASE EndRun
    BY <1>3, <2>1, EndRunStep DEF CheckFlags
  <2>2. CASE ~EndRun
    <3>1. /\ pc = "flags" /\ pc' = "solve" /\ Uniform(config.blocks)
          /\ flags' \in IF config.blocks = {} THEN {NoFlags}
                        ELSE {[push |-> b.push, insecure |-> b.insecure] : b \in config.blocks}
          /\ UNCHANGED <<world, state, reading, id, names, build, pushed>>
      BY <1>3, <2>2 DEF CheckFlags
    <3>2. ASSUME NEW b \in config.blocks
          PROVE  flags' = [push |-> b.push, insecure |-> b.insecure]
      <4>1. PICK a \in config.blocks : flags' = [push |-> a.push, insecure |-> a.insecure]
        BY <3>1, <3>2
      <4>2. QED
        BY <3>1, <4>1 DEF Uniform
    <3>3. flags' \in [push : BOOLEAN, insecure : BOOLEAN]
      <4>1. CASE config.blocks = {}
        BY <3>1, <4>1, ConstantTypes
      <4>2. CASE config.blocks # {}
        <5>1. PICK b \in config.blocks : flags' = [push |-> b.push, insecure |-> b.insecure]
          BY <3>1, <4>2
        <5>2. b.push \in BOOLEAN /\ b.insecure \in BOOLEAN
          BY BlockType DEF ImageInv, TypeOK
        <5>3. QED
          BY <5>1, <5>2
      <4>3. QED
        BY <4>1, <4>2
    <3>4. TypeOK'
      BY <3>1, <3>3 DEF ImageInv, TypeOK, world, reading
    <3>5. PushedAsDeclared' /\ RecordedWasThere' /\ StateComplete' /\ Reading'
      BY <3>1 DEF ImageInv, PushedAsDeclared, RecordedWasThere, StateComplete, Reading, world
    <3>6. Building'
      BY <3>1, <3>2 DEF Building, world
    <3>7. QED
      BY <3>1, <3>4, <3>5, <3>6 DEF ImageInv, world, reading
  <2>3. QED
    BY <2>1, <2>2
<1>4. CASE Solve
  <2>1. CASE EndRun
    BY <1>4, <2>1, EndRunStep DEF Solve
  <2>2. CASE ~EndRun
    <3>1. /\ pc = "solve" /\ pc' = "push"
          /\ build' = [args |-> config.args, context |-> context]
          /\ names' = IF flags.push THEN {b.tag : b \in config.blocks} ELSE {}
          /\ UNCHANGED <<world, state, reading, id, flags, pushed>>
      BY <1>4, <2>2 DEF Solve
    <3>2. build' \in Digests /\ build' # NoDigest
      BY <3>1 DEF ImageInv, TypeOK, Digests, Args, NoDigest
    <3>3. names' \subseteq Tags
      BY <3>1, BlockType DEF ImageInv, TypeOK
    <3>4. TypeOK'
      BY <3>1, <3>2, <3>3 DEF ImageInv, TypeOK, world, reading
    <3>5. PushedAsDeclared' /\ RecordedWasThere' /\ StateComplete' /\ Reading'
      BY <3>1 DEF ImageInv, PushedAsDeclared, RecordedWasThere, StateComplete, Reading, world
    <3>6. \A b \in config.blocks : flags = [push |-> b.push, insecure |-> b.insecure]
      BY <3>1 DEF ImageInv, Building
    <3>7. /\ \A t \in names' : \E b \in config.blocks : b.tag = t /\ b.push
          /\ \A b \in config.blocks : b.push => b.tag \in names'
      BY <3>1, <3>6
    <3>8. Building'
      BY <3>1, <3>2, <3>6, <3>7 DEF Building, world
    <3>9. QED
      BY <3>1, <3>4, <3>5, <3>8 DEF ImageInv, world, reading
  <2>3. QED
    BY <2>1, <2>2
<1>5. CASE Push
  <2>1. PICK t \in names :
             /\ Retag(t, build)
             /\ pushed' = pushed \cup {[tag |-> t, insecure |-> flags.insecure]}
             /\ names' = names \ {t}
    BY <1>5 DEF Push
  <2>2. pc = "push" /\ UNCHANGED <<context, config, state, pc, reading, id, flags, build>>
    BY <1>5 DEF Push
  <2>3. t \in Tags /\ build \in Digests /\ build # NoDigest
    BY <2>2 DEF ImageInv, TypeOK, Building
  <2>4. /\ registry' \in [Tags -> Digests] /\ seen' \in [Tags -> SUBSET Digests]
        /\ \A u \in Tags : registry'[u] # NoDigest => registry'[u] \in seen'[u]
        /\ \A u \in Tags : seen[u] \subseteq seen'[u]
        /\ build \in seen'[t]
    BY <2>1, <2>3, RetagGrows DEF ImageInv
  <2>5. PICK b \in config.blocks : b.tag = t /\ b.push /\ b.insecure = flags.insecure
    BY <2>2 DEF ImageInv, Building
  <2>6. PushedAsDeclared'
    BY <2>1, <2>2, <2>5 DEF ImageInv, PushedAsDeclared
  <2>7. TypeOK'
    BY <2>1, <2>2, <2>3, <2>4 DEF ImageInv, TypeOK, reading
  <2>8. Building'
    BY <2>1, <2>2, <2>4, SeenGrows DEF ImageInv, Building
  <2>9. Reading'
    BY <2>2 DEF Reading
  <2>10. QED
    BY <2>2, <2>4, <2>6, <2>7, <2>8, <2>9, SeenGrows DEF ImageInv, reading
<1>6. CASE PushFails
  BY <1>6, EndRunStep DEF PushFails
<1>7. CASE Save
  <2>1. PICK digest \in {build, NoDigest}, h \in {context, NoHash} :
             state' = [exists |-> TRUE, config |-> config, id |-> digest,
                       imageDigest |-> digest, contextDigest |-> h,
                       published |-> Published(digest)]
    BY <1>7 DEF Save
  <2>2. /\ pc = "push" /\ names = {} /\ EndRun /\ UNCHANGED world
        /\ state'.exists /\ state'.config = config /\ state'.imageDigest = digest
        /\ state'.published = Published(digest)
    BY <1>7, <2>1 DEF Save
  <2>3. \A b \in config.blocks :
             b.push /\ digest # NoDigest => digest \in seen[b.tag]
    BY <2>2 DEF ImageInv, Building
  <2>4. ASSUME NEW e \in Published(digest)
        PROVE  /\ e \in Entries /\ EntryOf(config.blocks, e)
               /\ e.digest # NoDigest => e.digest \in seen[e.tag]
    <3>1. PICK b \in config.blocks :
               e = [tag |-> b.tag, tracked |-> TRUE, insecure |-> b.insecure,
                    digest |-> IF b.push /\ digest # NoDigest THEN digest ELSE NoDigest]
      BY <2>4 DEF Published
    <3>2. b.tag \in Tags /\ b.insecure \in BOOLEAN /\ digest \in Digests
      BY BlockType, ConstantTypes DEF ImageInv, TypeOK
    <3>3. e \in Entries
      BY <3>1, <3>2, ConstantTypes DEF Entries
    <3>4. EntryOf(config.blocks, e)
      BY <3>1 DEF EntryOf
    <3>5. e.digest # NoDigest => e.digest \in seen[e.tag]
      BY <2>3, <3>1
    <3>6. QED
      BY <3>3, <3>4, <3>5
  <2>5. ASSUME NEW b \in config.blocks
        PROVE  \E e \in Published(digest) : e.tag = b.tag /\ e.tracked
    <3> DEFINE e == [tag |-> b.tag, tracked |-> TRUE, insecure |-> b.insecure,
                     digest |-> IF b.push /\ digest # NoDigest THEN digest ELSE NoDigest]
    <3>1. e \in Published(digest)
      BY DEF Published
    <3>2. e.tag = b.tag /\ e.tracked
      OBVIOUS
    <3>3. QED
      BY <3>1, <3>2
  <2>6. TypeOK'
    BY <2>1, <2>2, <2>4, ConstantTypes DEF ImageInv, TypeOK, EndRun, world
  <2>7. RecordedWasThere' /\ StateComplete'
    BY <2>2, <2>3, <2>4, <2>5 DEF RecordedWasThere, StateComplete, world
  <2>8. PushedAsDeclared' /\ Reading' /\ Building'
    BY <2>2 DEF EndRun, PushedAsDeclared, Reading, Building
  <2>9. QED
    BY <2>2, <2>4, <2>6, <2>7, <2>8 DEF ImageInv, EndRun, world
<1>8. QED
  BY <1>1, <1>2, <1>3, <1>4, <1>5, <1>6, <1>7 DEF Apply

LEMMA StepInv == ImageInv /\ [Next]_vars => ImageInv'
<1> SUFFICES ASSUME ImageInv, [Next]_vars PROVE ImageInv'
  OBVIOUS
<1>1. CASE UNCHANGED vars
  <2> USE <1>1 DEF vars, world, reading, building, ImageInv
  <2>1. TypeOK'
    BY DEF TypeOK
  <2>2. PushedAsDeclared' /\ RecordedWasThere' /\ StateComplete'
    BY DEF PushedAsDeclared, RecordedWasThere, StateComplete
  <2>3. Reading' /\ Building'
    BY DEF Reading, Building
  <2>4. QED
    BY <2>1, <2>2, <2>3
<1>2. QED
  BY <1>1, WorldStep, ReadStep, PlanStep, ApplyStep DEF Next

(***************************************************************************)
(* The invariant of image_resource.go:261-526 with its types, for every    *)
(* set of tags and configurations.                                         *)
(***************************************************************************)
THEOREM ImageInvariant == Spec => []ImageInv
<1>1. QED
  BY InitInv, StepInv, PTL DEF Spec

\* No tag is pushed but as its own block says.
THEOREM PushedAsDeclaredAlways == Spec => []PushedAsDeclared
<1>1. ImageInv => PushedAsDeclared
  BY DEF ImageInv
<1>2. QED
  BY <1>1, ImageInvariant, PTL

\* Every digest recorded for a tracked tag is one that the tag had.
THEOREM RecordedWasThereAlways == Spec => []RecordedWasThere
<1>1. ImageInv => RecordedWasThere
  BY DEF ImageInv
<1>2. QED
  BY <1>1, ImageInvariant, PTL

\* An apply that failed after some of its pushes does not count as complete.
THEOREM StateCompleteAlways == Spec => []StateComplete
<1>1. ImageInv => StateComplete
  BY DEF ImageInv
<1>2. QED
  BY <1>1, ImageInvariant, PTL

(***************************************************************************)
(* Read drops a resource whose blocks all push only when one of its tags   *)
(* is gone: the entry that was not found belongs to a block.               *)
(***************************************************************************)
THEOREM DropOnlyIfGoneAlways == Spec => DropOnlyIfGone
<1>1. ASSUME ImageInv, [Next]_vars, Dropped, \A b \in state.config.blocks : b.push
      PROVE  PushedIsGone
  <2>1. pc = "read" /\ state.exists /\ ~state'.exists
    BY <1>1 DEF Dropped
  <2>2. state' # state
    BY <2>1
  <2>3. LookUpNotFound
    <3>1. CASE Read
      <4>1. CASE ReadDone
        BY <2>1, <4>1 DEF ReadDone, ImageInv, TypeOK
      <4>2. CASE SkipEntry \/ LookUp \/ LookUpError
        BY <2>2, <4>2 DEF SkipEntry, LookUp, LookUpError
      <4>3. QED
        BY <3>1, <4>1, <4>2 DEF Read
    <3>2. CASE Plan \/ Apply \/ StartRun \/ Import \/ EditConfig
      BY <2>1, <3>2 DEF Plan, Apply, EditConfig, Import, StartRun, PlanCreate,
                        PlanNothing, PlanReplace, PlanUpdate, Delete, Destroy, CheckFlags,
                        Solve, Push, PushFails, Save
    <3>3. CASE EditContext \/ (\E t \in Tags : Outsider(t)) \/ UNCHANGED vars
      BY <2>2, <3>3 DEF EditContext, Outsider, vars
    <3>4. QED
      BY <1>1, <3>1, <3>2, <3>3 DEF Next
  <2>4. PICK e \in todo : e.tracked /\ registry[e.tag] = NoDigest
    BY <2>3 DEF LookUpNotFound
  <2>5. PICK b \in state.config.blocks : b.tag = e.tag
    BY <1>1, <2>1, <2>4 DEF ImageInv, Reading, EntryOf
  <2>6. QED
    BY <1>1, <2>4, <2>5 DEF PushedIsGone
<1>2. ImageInv /\ [Next]_vars
        => [Dropped /\ (\A b \in state.config.blocks : b.push) => PushedIsGone]_vars
  BY <1>1
<1>3. QED
  BY <1>2, ImageInvariant, PTL DEF Spec, DropOnlyIfGone
===============================================================================
