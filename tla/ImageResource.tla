--------------------------- MODULE ImageResource ---------------------------
(***************************************************************************)
(* The buildkit_image resource through runs of Terraform: refresh (Read),  *)
(* plan, and apply (Delete, Create, Update), with import, beside a         *)
(* registry and a build context that others change at any step.            *)
(*                                                                         *)
(* A digest is what it is computed from: the build arguments and the       *)
(* version of the context that the solve reads.  A tag is one name in the  *)
(* registry; a publish block is one tag with its two flags.                *)
(***************************************************************************)
EXTENDS Integers, FiniteSets

CONSTANTS
  Tags,      \* names in the registry
  Configs,   \* resource configurations the user may write
  MaxEdits   \* bound: edits of the build context

VARIABLES
  registry,  \* the digest each tag resolves to
  context,   \* version of the build context directory
  config,    \* the resource block as the user has it now
  state,     \* the resource in Terraform's state
  pc,        \* step of the current run
  todo,      \* Read: the published entries still to look up
  entries,   \* Read: the entries looked up so far
  id,        \* the planned id of the resource, NoDigest when unknown
  flags,     \* build: the push and insecure flags given to the exporter
  names,     \* build: the tags still to push
  build,     \* build: the digest of the solve
  pushed,    \* history: what the current build pushed, and how
  seen       \* history: every digest each tag has had

world == <<registry, context, config, seen>>
reading == <<todo, entries>>
building == <<flags, names, build, pushed>>
vars == <<world, state, pc, reading, id, building>>

NoDigest == [args |-> "none", context |-> 0]
Foreign == [args |-> "foreign", context |-> 0]
NoHash == -1
NoFlags == [push |-> FALSE, insecure |-> FALSE]
NoConfig == [blocks |-> {}, args |-> "none", triggers |-> "none"]
Args == {c.args : c \in Configs}
Digests == [args : Args \cup {"none", "foreign"}, context : 0 .. MaxEdits]
Entries == [tag : Tags \cup {"none"}, tracked : BOOLEAN, digest : Digests, insecure : BOOLEAN]
NoState == [exists |-> FALSE, config |-> NoConfig, id |-> NoDigest,
            imageDigest |-> NoDigest, contextDigest |-> NoHash, published |-> {}]

ASSUME ImageAssumption ==
  /\ MaxEdits \in Nat
  /\ "none" \notin Tags
  /\ \A c \in Configs :
       /\ c.args \notin {"none", "foreign"}
       /\ c.blocks \subseteq [tag : Tags, push : BOOLEAN, insecure : BOOLEAN]

-----------------------------------------------------------------------------
Init ==
  /\ registry = [t \in Tags |-> NoDigest]
  /\ context = 0
  /\ config \in Configs
  /\ state = NoState
  /\ pc = "idle"
  /\ todo = {} /\ entries = {}
  /\ id = NoDigest
  /\ flags = NoFlags /\ names = {} /\ build = NoDigest
  /\ pushed = {}
  /\ seen = [t \in Tags |-> {}]

\* The end of a run, whatever became of it: what it worked with is gone.
EndRun ==
  /\ pc' = "idle"
  /\ todo' = {} /\ entries' = {}
  /\ id' = NoDigest
  /\ flags' = NoFlags /\ names' = {} /\ build' = NoDigest
  /\ pushed' = {}

(***************************************************************************)
(* The surroundings: the user edits the configuration between runs and     *)
(* the context at any time; anybody may move or delete a tag.              *)
(***************************************************************************)
EditConfig ==
  /\ pc = "idle"
  /\ config' \in Configs \ {config}
  /\ UNCHANGED <<registry, context, seen, state, pc, reading, id, building>>

EditContext ==
  /\ context < MaxEdits
  /\ context' = context + 1
  /\ UNCHANGED <<registry, config, seen, state, pc, reading, id, building>>

Retag(t, d) ==
  /\ registry' = [registry EXCEPT ![t] = d]
  /\ seen' = [seen EXCEPT ![t] = IF d = NoDigest THEN @ ELSE @ \cup {d}]

Outsider(t) ==
  /\ \E d \in {Foreign, NoDigest} : registry[t] # d /\ Retag(t, d)
  /\ UNCHANGED <<context, config, state, pc, reading, id, building>>

\* Mutant of Import: what the reference names is taken for a tag.
ImportAsTag ==
  /\ pc = "idle" /\ ~state.exists
  /\ state' = [NoState EXCEPT
                 !.exists = TRUE, !.id = Foreign, !.imageDigest = Foreign,
                 !.published = {[tag |-> "repository", tracked |-> FALSE,
                                 digest |-> Foreign, insecure |-> FALSE]}]
  /\ UNCHANGED <<world, pc, reading, id, building>>

(***************************************************************************)
(* ImportState: one entry, without a tag to look up; all configured        *)
(* attributes are null.  The registry is not asked.                        *)
(***************************************************************************)
Import ==
  /\ pc = "idle" /\ ~state.exists
  /\ state' = [NoState EXCEPT
                 !.exists = TRUE, !.id = Foreign, !.imageDigest = Foreign,
                 !.published = {[tag |-> "none", tracked |-> FALSE,
                                 digest |-> Foreign, insecure |-> FALSE]}]
  /\ UNCHANGED <<world, pc, reading, id, building>>

-----------------------------------------------------------------------------
(***************************************************************************)
(* A run starts with the refresh of what exists.                           *)
(***************************************************************************)
StartRun ==
  /\ pc = "idle"
  /\ pc' = IF state.exists THEN "read" ELSE "plan"
  /\ todo' = state.published
  /\ UNCHANGED <<world, state, entries, id, building>>

\* Read passes over an entry without a tag URL ...
SkipEntry ==
  /\ pc = "read"
  /\ \E e \in todo : /\ ~e.tracked
                     /\ entries' = entries \cup {e}
                     /\ todo' = todo \ {e}
  /\ UNCHANGED <<world, state, pc, id, building>>

\* ... and resolves every other one, noting the digest it has now.
LookUp ==
  /\ pc = "read"
  /\ \E e \in todo :
       /\ e.tracked
       /\ registry[e.tag] # NoDigest
       /\ entries' = entries \cup {[e EXCEPT !.digest = registry[e.tag]]}
       /\ todo' = todo \ {e}
  /\ UNCHANGED <<world, state, pc, id, building>>

\* Mutant of LookUpNotFound: every error counts as not found.
LookUpErrorDrops ==
  /\ pc = "read"
  /\ \E e \in todo : e.tracked
  /\ state' = NoState
  /\ pc' = "plan"
  /\ todo' = {} /\ entries' = {}
  /\ UNCHANGED <<world, id, building>>

\* A tag that is not found removes the resource from the state.
LookUpNotFound ==
  /\ pc = "read"
  /\ \E e \in todo : e.tracked /\ registry[e.tag] = NoDigest
  /\ state' = NoState
  /\ pc' = "plan"
  /\ todo' = {} /\ entries' = {}
  /\ UNCHANGED <<world, id, building>>

\* Any other failure of a look-up ends the run.
LookUpError ==
  /\ pc = "read"
  /\ \E e \in todo : e.tracked
  /\ EndRun
  /\ UNCHANGED <<world, state>>

ReadDone ==
  /\ pc = "read" /\ todo = {}
  /\ state' = [state EXCEPT !.published = entries]
  /\ pc' = "plan"
  /\ UNCHANGED <<world, reading, id, building>>

-----------------------------------------------------------------------------
(***************************************************************************)
(* The plan.  A changed trigger (or an imported resource, whose context is *)
(* null) is replaced; any other difference is an update, where the unknown *)
(* id takes its value from the state (UseStateForUnknown).                 *)
(***************************************************************************)
PlanCreate ==
  /\ pc = "plan" /\ ~state.exists
  /\ pc' = "flags"
  /\ UNCHANGED <<world, state, reading, id, building>>

PlanNothing ==
  /\ pc = "plan" /\ state.exists /\ state.config = config
  /\ EndRun
  /\ UNCHANGED <<world, state>>

PlanReplace ==
  /\ pc = "plan" /\ state.exists /\ state.config.triggers # config.triggers
  /\ pc' = "delete"
  /\ UNCHANGED <<world, state, reading, id, building>>

\* A trigger whose value only the apply will know replaces nothing.
TriggerUnknown == config.triggers # "none"

PlanUpdate ==
  /\ pc = "plan" /\ state.exists
  /\ \/ state.config # config /\ state.config.triggers = config.triggers
     \/ TriggerUnknown
  /\ id' = state.id
  /\ pc' = "flags"
  /\ UNCHANGED <<world, state, reading, building>>

\* Delete only forgets the resource: nothing is deleted from the registry.
Delete ==
  /\ pc = "delete"
  /\ state' = NoState
  /\ pc' = "flags"
  /\ UNCHANGED <<world, reading, id, building>>

Destroy ==
  /\ pc = "plan" /\ state.exists
  /\ state' = NoState
  /\ EndRun
  /\ UNCHANGED world

-----------------------------------------------------------------------------
(***************************************************************************)
(* build, for Create and Update alike.  An error at any step leaves the    *)
(* state as it was, and the pushes made so far where they are.             *)
(***************************************************************************)
\* Mutant of Uniform: only push must agree.
UniformPush(bs) == \A a, b \in bs : a.push = b.push

Uniform(bs) == \A a, b \in bs : a.push = b.push /\ a.insecure = b.insecure

\* Conversions, then uniformPublishFlags: all blocks must agree with the first.
CheckFlags ==
  /\ pc = "flags"
  /\ \/ /\ Uniform(config.blocks)
        /\ flags' \in IF config.blocks = {} THEN {NoFlags}
                      ELSE {[push |-> b.push, insecure |-> b.insecure] : b \in config.blocks}
        /\ pc' = "solve"
        /\ UNCHANGED <<reading, id, names, build, pushed>>
     \/ EndRun
  /\ UNCHANGED <<world, state>>

(***************************************************************************)
(* The connection and the solve.  The solve reads the context; one         *)
(* exporter is then given every name with one pair of flags.               *)
(***************************************************************************)
Solve ==
  /\ pc = "solve"
  /\ \/ /\ build' = [args |-> config.args, context |-> context]
        /\ names' = IF flags.push THEN {b.tag : b \in config.blocks} ELSE {}
        /\ pc' = "push"
        /\ UNCHANGED <<reading, id, flags, pushed>>
     \/ EndRun
  /\ UNCHANGED <<world, state>>

Push ==
  /\ pc = "push"
  /\ \E t \in names :
       /\ Retag(t, build)
       /\ pushed' = pushed \cup {[tag |-> t, insecure |-> flags.insecure]}
       /\ names' = names \ {t}
  /\ UNCHANGED <<context, config, state, pc, reading, id, flags, build>>

\* Mutant of PushFails: the error of a push is not returned.
PushFailureIgnored ==
  /\ pc = "push" /\ names # {}
  /\ names' = {}
  /\ UNCHANGED <<world, state, pc, reading, id, flags, build, pushed>>

PushFails ==
  /\ pc = "push" /\ names # {}
  /\ EndRun
  /\ UNCHANGED <<world, state>>

\* Mutant of Published: a digest URL is written whether or not it was pushed.
PublishedAlways(digest) ==
  {[tag |-> b.tag, tracked |-> TRUE, insecure |-> b.insecure,
    digest |-> digest] : b \in config.blocks}

\* One entry per tag, with a digest where the block pushes and there is one.
Published(digest) ==
  {[tag |-> b.tag, tracked |-> TRUE, insecure |-> b.insecure,
    digest |-> IF b.push /\ digest # NoDigest THEN digest ELSE NoDigest] : b \in config.blocks}

(***************************************************************************)
(* The digest is the one the solve's response holds, if it holds one.  The *)
(* context is hashed when all else is done, which may fail without harm.   *)
(***************************************************************************)
Save ==
  /\ pc = "push" /\ names = {}
  /\ \E digest \in {build, NoDigest}, h \in {context, NoHash} :
       state' = [exists |-> TRUE, config |-> config, id |-> digest,
                 imageDigest |-> digest, contextDigest |-> h,
                 published |-> Published(digest)]
  /\ EndRun
  /\ UNCHANGED world

Read == SkipEntry \/ LookUp \/ LookUpNotFound \/ LookUpError \/ ReadDone
Plan == PlanCreate \/ PlanNothing \/ PlanReplace \/ PlanUpdate
Apply == \/ Delete \/ Destroy \/ CheckFlags \/ Solve \/ Push
         \/ PushFails \/ Save

Next == \/ EditConfig \/ EditContext \/ Import \/ StartRun \/ Read \/ Plan \/ Apply
        \/ \E t \in Tags : Outsider(t)

Spec == Init /\ [][Next]_vars

-----------------------------------------------------------------------------
TypeOK ==
  /\ registry \in [Tags -> Digests]
  /\ context \in 0 .. MaxEdits
  /\ config \in Configs
  /\ state \in [exists : BOOLEAN, config : Configs \cup {NoConfig},
                id : Digests, imageDigest : Digests,
                contextDigest : 0 .. MaxEdits \cup {NoHash},
                published : SUBSET Entries]
  /\ pc \in {"idle", "read", "plan", "delete", "flags", "solve", "push"}
  /\ todo \subseteq Entries /\ entries \subseteq Entries
  /\ names \subseteq Tags
  /\ id \in Digests /\ build \in Digests
  /\ flags \in [push : BOOLEAN, insecure : BOOLEAN]
  /\ pushed \subseteq [tag : Tags, insecure : BOOLEAN]
  /\ seen \in [Tags -> SUBSET Digests]

(***************************************************************************)
(* No tag is pushed that its own block does not say to push, nor in        *)
(* another way than that block says: a secure push is never downgraded by  *)
(* a neighbouring block (image_resource.go:610-614).                       *)
(***************************************************************************)
PushedAsDeclared ==
  pc = "push" =>
    \A p \in pushed :
      \E b \in config.blocks : b.tag = p.tag /\ b.push /\ b.insecure = p.insecure

(***************************************************************************)
(* A digest recorded for a tracked tag is one the tag really had, however  *)
(* builds that fail half-way, refreshes and outsiders interleave.          *)
(***************************************************************************)
RecordedWasThere ==
  \A e \in state.published :
    e.tracked /\ e.digest # NoDigest => e.digest \in seen[e.tag]

(***************************************************************************)
(* A resource in the state is complete: every tag its configuration        *)
(* pushes received its image_digest, if the solve reported one, and is     *)
(* recorded.  An apply that failed after some pushes therefore never looks *)
(* finished to the next plan.                                              *)
(***************************************************************************)
StateComplete ==
  \A b \in state.config.blocks :
    /\ b.push /\ state.imageDigest # NoDigest => state.imageDigest \in seen[b.tag]
    /\ \E e \in state.published : e.tag = b.tag /\ e.tracked

(***************************************************************************)
(* If all blocks push, Read drops the resource only because a tag it       *)
(* pushed is gone: not for an error, and not for a tag it never pushed     *)
(* (image_resource.go:290-297).                                            *)
(***************************************************************************)
Dropped == pc = "read" /\ state.exists /\ ~state'.exists
PushedIsGone == \E b \in state.config.blocks : b.push /\ registry[b.tag] = NoDigest

DropOnlyIfGone ==
  [][Dropped /\ (\A b \in state.config.blocks : b.push) => PushedIsGone]_vars

(***************************************************************************)
(* image_resource.go:275-276: "Re-resolve each pushed tag's digest. If any *)
(* tracked tag is gone, drop the resource so it gets rebuilt."  Here for   *)
(* blocks of either kind: only a pushed tag is looked up.                  *)
(***************************************************************************)
UnpushedTagNotTracked == [][Dropped => PushedIsGone]_vars


(***************************************************************************)
(* The inductive invariant behind all of these: what is being looked up    *)
(* covers the blocks of the state, the flags are those of every block, and *)
(* each block still to be pushed is in names.                              *)
(***************************************************************************)
EntryOf(bs, e) == e.tracked => \E b \in bs : b.tag = e.tag
HasEntry(es, b) == \E e \in es : e.tag = b.tag /\ e.tracked
WasThere(s, e) == e.tracked /\ e.digest # NoDigest => e.digest \in s[e.tag]

Reading ==
  pc = "read" =>
    /\ state.exists
    /\ \A e \in todo \cup entries : EntryOf(state.config.blocks, e) /\ WasThere(seen, e)
    /\ \A b \in state.config.blocks : HasEntry(todo \cup entries, b)

Building ==
  /\ pc \in {"solve", "push"} =>
       \A b \in config.blocks : flags = [push |-> b.push, insecure |-> b.insecure]
  /\ pc = "push" =>
       /\ build # NoDigest
       /\ \A t \in names : \E b \in config.blocks : b.tag = t /\ b.push
       /\ \A b \in config.blocks : b.push => b.tag \in names \/ build \in seen[b.tag]

ImageInv ==
  /\ TypeOK /\ PushedAsDeclared /\ RecordedWasThere /\ StateComplete
  /\ \A t \in Tags : registry[t] # NoDigest => registry[t] \in seen[t]
  /\ ~state.exists => state = NoState
  /\ \A e \in state.published : EntryOf(state.config.blocks, e)
  /\ pc = "idle" => entries = {}
  /\ pc # "push" => pushed = {}
  /\ Reading /\ Building

=============================================================================
