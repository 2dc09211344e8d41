---------------------------- MODULE ContextHash ----------------------------
(***************************************************************************)
(* HashContext, the digest of a build context: the ignore file is read     *)
(* once, the tree is walked name by name, and the files found are sorted   *)
(* and read.  Editors and builds change the tree meanwhile.  The           *)
(* buildkit_context data source takes the digest on every refresh, so two  *)
(* digests in a row are compared.                                          *)
(*                                                                         *)
(* A path is its place in the byte order of relative paths; the root is 0. *)
(***************************************************************************)
EXTENDS Integers, Sequences, FiniteSets, FiniteSetsExt, Functions

CONSTANTS
  Paths,       \* names below the root
  Parent,      \* the directory of each
  Name,        \* relative path, as bytes
  IgnoreFile,  \* .dockerignore
  Contents,    \* what files hold, as bytes
  Lines,       \* per content: its lines, read as an ignore file
  Dangling,    \* "content" of a link to nothing
  Unreadable,  \* "content" of a link to a directory, or without permission
  Absent,      \* no dockerignore argument
  Missing,     \* a dockerignore argument that names no file
  Modes,       \* permission bits
  Trees,       \* contexts there may be at first
  Edits,       \* per path: what others may put there
  Setups,      \* the arguments of the data source
  MaxChanges,  \* bound: changes of the tree over all hashes
  MaxHashes    \* bound: hashes

Root == 0
NUL == 0

\* What Lstat tells of a name; a directory that is locked cannot be listed.
Node == [kind : {"none", "dir", "locked", "leaf"}, mode : Modes,
         content : Contents \cup {Dangling, Unreadable}]

Nothing == [kind |-> "none", mode |-> CHOOSE m \in Modes : TRUE,
            content |-> CHOOSE c \in Contents : TRUE]

Line == [kind : {"blank", "comment", "pattern", "bad"}, back : BOOLEAN,
         hits : SUBSET Paths]

ASSUME ContextAssumption ==
  /\ Paths \subseteq Nat \ {Root} /\ IsFiniteSet(Paths)
  /\ Parent \in [Paths -> Paths \cup {Root}] /\ \A p \in Paths : Parent[p] < p
  /\ IgnoreFile \in Paths /\ Parent[IgnoreFile] = Root
  /\ Cardinality({Dangling, Unreadable, Absent, Missing}) = 4
  /\ Contents \cap {Dangling, Unreadable, Absent, Missing} = {}
  /\ Contents \subseteq Seq(Nat) /\ Contents # {} /\ Modes \subseteq Nat \ {NUL}
  /\ Name \in [Paths -> Seq(Nat \ {NUL})] /\ IsInjective(Name)
  /\ Lines \in [Contents -> Seq(Line)]
  /\ Trees \subseteq [Paths -> Node] /\ Edits \in [Paths -> SUBSET Node]
  /\ Setups \subseteq [root : {"dir", "locked", "link", "none"},
                       dockerignore : Contents \cup {Absent, Missing}]
  /\ MaxChanges \in Nat /\ MaxHashes \in Nat

VARIABLES
  tree,      \* the context on disk
  setup,     \* the arguments of the block
  pc,        \* step of HashContext
  patterns,  \* of the ignore file
  at,        \* the directory to be listed
  queue,     \* names to be looked at, then files to be read
  entries,   \* files found, each with its mode
  sum,       \* the bytes written to the hash
  hashed,    \* the files they stand for
  outcome,   \* ok, error or none
  earlier,   \* the hash before this one, if any
  steady,    \* history: what has not changed during this hash
  since,     \* history: what has changed since the earlier hash began
  changes,   \* changes so far
  hashes     \* hashes so far

world == <<tree, setup, steady, since, changes, hashes, earlier>>
local == <<patterns, at, queue, entries, sum, hashed>>
vars == <<world, local, pc, outcome>>

-----------------------------------------------------------------------------
Above[p \in Paths] == IF Parent[p] = Root THEN {} ELSE {Parent[p]} \cup Above[Parent[p]]
Within(p) == {p} \cup {q \in Paths : p \in Above[q]}

Exists(t, p) == t[p].kind # "none" /\ \A a \in Above[p] : t[a].kind = "dir"

\* Each path of S at the place that the number of smaller ones gives it.
Sorted(S) ==
  [i \in 1 .. Cardinality(S) |-> CHOOSE p \in S : Cardinality({q \in S : q < p}) = i - 1]

\* The names in a directory, as Walk sorts them.
Names(t, d) == Sorted({p \in Paths : Parent[p] = d /\ Exists(t, p)})

\* Blank lines and comments are no patterns; a pattern is known by its line.
parseDockerignoreLines(c) ==
  [i \in {j \in DOMAIN Lines[c] : Lines[c][j].kind \notin {"blank", "comment"}} |-> Lines[c][i]]

(***************************************************************************)
(* MatchesOrParentMatches: the last pattern that hits the path or a        *)
(* directory above it decides, and may take the path back with "!".        *)
(***************************************************************************)
Excluded(ps, p) ==
  LET hit == {i \in DOMAIN ps : ({p} \cup Above[p]) \cap ps[i].hits # {}}
  IN hit # {} /\ ~ps[Max(hit)].back

\* Mutant of Frame: nothing ends a file's content.
FrameOpen(p, mode, content) == Name[p] \o <<NUL, mode, NUL>> \o content

\* What is written to the hash for one file.
Frame(p, mode, content) == Name[p] \o <<NUL, mode, NUL>> \o content \o <<NUL>>

NoHash == [digest |-> <<>>, hashed |-> {}, ok |-> FALSE]

-----------------------------------------------------------------------------
Init ==
  /\ tree \in Trees /\ setup \in Setups
  /\ pc = "idle" /\ outcome = "none"
  /\ patterns = <<>> /\ at = Root /\ queue = <<>> /\ entries = {}
  /\ sum = <<>> /\ hashed = {}
  /\ earlier = NoHash
  /\ steady = Paths /\ since = {}
  /\ changes = 0 /\ hashes = 0

\* Somebody writes, replaces or removes a path.
Change(p) ==
  /\ changes < MaxChanges
  /\ \E n \in Edits[p] \ {tree[p]} : tree' = [tree EXCEPT ![p] = n]
  /\ steady' = steady \ Within(p)
  /\ since' = since \cup {p}
  /\ changes' = changes + 1
  /\ UNCHANGED <<setup, hashes, earlier, local, pc, outcome>>

\* A file is moved, over another one if there is one.
Rename(p, q) ==
  /\ changes < MaxChanges
  /\ p # q /\ Exists(tree, p) /\ tree[p].kind = "leaf"
  /\ tree[q].kind \in {"none", "leaf"} /\ \A a \in Above[q] : tree[a].kind = "dir"
  /\ tree' = [tree EXCEPT ![q] = tree[p], ![p] = Nothing]
  /\ steady' = steady \ {p, q}
  /\ since' = since \cup {p, q}
  /\ changes' = changes + 1
  /\ UNCHANGED <<setup, hashes, earlier, local, pc, outcome>>

Fail == pc' = "done" /\ outcome' = "error"

\* The root is looked up through links.
Start ==
  /\ pc \in {"idle", "done"} /\ hashes < MaxHashes
  /\ hashes' = hashes + 1
  /\ earlier' = IF outcome = "ok" THEN [digest |-> sum, hashed |-> hashed, ok |-> TRUE]
                ELSE earlier
  /\ since' = IF outcome = "ok" THEN Paths \ steady ELSE since
  /\ steady' = Paths
  /\ patterns' = <<>> /\ at' = Root /\ queue' = <<>> /\ entries' = {}
  /\ sum' = <<>> /\ hashed' = {}
  /\ IF setup.root = "none" THEN Fail ELSE pc' = "ignore" /\ outcome' = "none"
  /\ UNCHANGED <<tree, setup, changes>>

(***************************************************************************)
(* readDockerignore: only the default file may be missing.  Walk takes the *)
(* root as it is: a link to a directory has no names.                      *)
(***************************************************************************)
IgnoreText ==
  IF setup.dockerignore # Absent THEN setup.dockerignore
  ELSE IF ~Exists(tree, IgnoreFile) THEN Dangling
  ELSE IF tree[IgnoreFile].kind # "leaf" THEN Unreadable
  ELSE tree[IgnoreFile].content

readDockerignore ==
  /\ pc = "ignore"
  /\ LET text == IgnoreText
         found == IF text = Dangling THEN <<>> ELSE parseDockerignoreLines(text)
     IN IF \/ text \in {Missing, Unreadable}
           \/ \E i \in DOMAIN found : found[i].kind = "bad"
          THEN Fail /\ UNCHANGED local
          ELSE /\ patterns' = found
               /\ pc' = IF setup.root = "link" THEN "walk" ELSE "list"
               /\ UNCHANGED <<at, queue, entries, sum, hashed, outcome>>
  /\ UNCHANGED world

\* Whether the names of a directory can be read.
Listable(d) == IF d = Root THEN setup.root = "dir"
               ELSE Exists(tree, d) /\ tree[d].kind = "dir"

\* Mutant of ListDir: a directory lists itself as well.
ListDirSelf ==
  /\ pc = "list"
  /\ pc' = "walk"
  /\ queue' = <<at>> \o Names(tree, at) \o queue
  /\ UNCHANGED <<world, patterns, at, entries, sum, hashed, outcome>>

\* Mutant of ListDir: the names of an ignored directory are walked too.
ListDirIgnored ==
  /\ pc = "list"
  /\ IF ~Listable(at)
       THEN Fail /\ UNCHANGED queue
       ELSE /\ pc' = "walk" /\ UNCHANGED outcome
            /\ queue' = Names(tree, at) \o queue
  /\ UNCHANGED <<world, patterns, at, entries, sum, hashed>>

\* The names of a directory are read before it is known to be ignored; one
\* that cannot be listed, the root among them, ends the walk.
ListDir ==
  /\ pc = "list"
  /\ IF ~Listable(at)
       THEN Fail /\ UNCHANGED queue
       ELSE /\ pc' = "walk" /\ UNCHANGED outcome
            /\ queue' = IF at # Root /\ Excluded(patterns, at) THEN queue
                        ELSE Names(tree, at) \o queue
  /\ UNCHANGED <<world, patterns, at, entries, sum, hashed>>

\* Mutant of Look: an ignored file ends its directory, as SkipDir would.
LookSkips ==
  /\ pc = "walk" /\ queue # <<>>
  /\ LET p == Head(queue) IN
       CASE ~Exists(tree, p) -> Fail /\ UNCHANGED <<at, queue, entries>>
         [] Exists(tree, p) /\ tree[p].kind \in {"dir", "locked"} ->
              pc' = "list" /\ at' = p /\ queue' = Tail(queue) /\ UNCHANGED <<entries, outcome>>
         [] OTHER ->
              /\ IF Excluded(patterns, p)
                   THEN /\ queue' = SelectSeq(queue, LAMBDA q : Parent[q] # Parent[p])
                        /\ UNCHANGED entries
                   ELSE /\ queue' = Tail(queue)
                        /\ entries' = entries \cup {[path |-> p, mode |-> tree[p].mode]}
              /\ UNCHANGED <<at, pc, outcome>>
  /\ UNCHANGED <<world, patterns, sum, hashed>>

\* Mutant of Look: links are followed.
LookFollows ==
  /\ pc = "walk" /\ queue # <<>>
  /\ LET p == Head(queue) IN
       CASE ~Exists(tree, p) \/ tree[p].content = Dangling ->
              Fail /\ UNCHANGED <<at, queue, entries>>
         [] Exists(tree, p) /\ tree[p].kind \in {"dir", "locked"} ->
              pc' = "list" /\ at' = p /\ queue' = Tail(queue) /\ UNCHANGED <<entries, outcome>>
         [] OTHER ->
              /\ queue' = Tail(queue)
              /\ entries' = IF Excluded(patterns, p) THEN entries
                            ELSE entries \cup {[path |-> p, mode |-> tree[p].mode]}
              /\ UNCHANGED <<at, pc, outcome>>
  /\ UNCHANGED <<world, patterns, sum, hashed>>

\* The next name: one that is gone is an error, also if it is ignored.
Look ==
  /\ pc = "walk" /\ queue # <<>>
  /\ LET p == Head(queue) IN
       CASE ~Exists(tree, p) -> Fail /\ UNCHANGED <<at, queue, entries>>
         [] Exists(tree, p) /\ tree[p].kind \in {"dir", "locked"} ->
              pc' = "list" /\ at' = p /\ queue' = Tail(queue) /\ UNCHANGED <<entries, outcome>>
         [] OTHER ->
              /\ queue' = Tail(queue)
              /\ entries' = IF Excluded(patterns, p) THEN entries
                            ELSE entries \cup {[path |-> p, mode |-> tree[p].mode]}
              /\ UNCHANGED <<at, pc, outcome>>
  /\ UNCHANGED <<world, patterns, sum, hashed>>

Sort ==
  /\ pc = "walk" /\ queue = <<>>
  /\ queue' = Sorted({e.path : e \in entries})
  /\ pc' = "read"
  /\ UNCHANGED <<world, patterns, at, entries, sum, hashed, outcome>>

\* A file is opened through links; its mode is the one the walk saw.
Read ==
  /\ pc = "read" /\ queue # <<>>
  /\ LET p == Head(queue)
         n == tree[p]
         mode == (CHOOSE e \in entries : e.path = p).mode
     IN IF Exists(tree, p) /\ n.kind = "leaf" /\ n.content \in Contents
          THEN /\ sum' = sum \o Frame(p, mode, n.content)
               /\ hashed' = hashed \cup {[path |-> p, mode |-> mode, content |-> n.content]}
               /\ queue' = Tail(queue)
               /\ UNCHANGED <<pc, outcome>>
          ELSE Fail /\ UNCHANGED <<sum, hashed, queue>>
  /\ UNCHANGED <<world, patterns, at, entries>>

Finish ==
  /\ pc = "read" /\ queue = <<>>
  /\ pc' = "done" /\ outcome' = "ok"
  /\ UNCHANGED <<world, local>>

Next == \/ Start \/ readDockerignore \/ ListDir \/ Look \/ Sort \/ Read \/ Finish
        \/ \E p \in Paths : Change(p) \/ \E q \in Paths : Rename(p, q)

Spec == Init /\ [][Next]_vars

-----------------------------------------------------------------------------
TypeOK ==
  /\ tree \in [Paths -> Node] /\ setup \in Setups
  /\ pc \in {"idle", "ignore", "list", "walk", "read", "done"}
  /\ \A i \in DOMAIN patterns : i \in Nat /\ patterns[i] \in Line
  /\ at \in Paths \cup {Root} /\ queue \in Seq(Paths)
  /\ entries \subseteq [path : Paths, mode : Modes]
  /\ sum \in Seq(Nat)
  /\ hashed \subseteq [path : Paths, mode : Modes, content : Contents]
  /\ outcome \in {"none", "ok", "error"}
  /\ earlier.ok \in BOOLEAN
  /\ steady \subseteq Paths /\ since \subseteq Paths
  /\ changes \in 0 .. MaxChanges /\ hashes \in 0 .. MaxHashes

\* The patterns an undisturbed hash goes by.
Rules == IF IgnoreText \in Contents THEN parseDockerignoreLines(IgnoreText) ELSE <<>>
RulesSteady == setup.dockerignore # Absent \/ IgnoreFile \in steady

Skipped(ps, p) == \E a \in Above[p] : Excluded(ps, a)

(***************************************************************************)
(* A file nobody touches is in the digest, with its own mode and content,  *)
(* exactly if the ignore file does not exclude it or a directory above it, *)
(* whatever happens to its neighbours (contexthash.go:54-82).              *)
(***************************************************************************)
AsHashed(p) == [path |-> p, mode |-> tree[p].mode, content |-> tree[p].content]

HonorsIgnore ==
  outcome = "ok" /\ setup.root = "dir" /\ RulesSteady =>
    \A p \in steady : Exists(tree, p) /\ tree[p].kind = "leaf" =>
      IF Excluded(Rules, p) \/ Skipped(Rules, p)
        THEN \A h \in hashed : h.path # p
        ELSE AsHashed(p) \in hashed

(***************************************************************************)
(* Two digests in a row are equal if all that was changed in between, and  *)
(* during either hash, is ignored: a plan does not change for it           *)
(* (docs/data-sources/context.md:11).                                      *)
(***************************************************************************)
StableWhileIgnored ==
  outcome = "ok" /\ earlier.ok =>
    \/ \E p \in since : \/ ~Excluded(Rules, p) /\ ~Skipped(Rules, p)
                        \/ p = IgnoreFile /\ setup.dockerignore = Absent
    \/ sum = earlier.digest

(***************************************************************************)
(* Two digests are equal only if the same files were read with the same    *)
(* modes and contents (contexthash.go:89-103).  The one exception is       *)
(* named: a file that holds a NUL byte may run into the next name, so that *)
(* a binary file and the two files it looks like have one digest.          *)
(***************************************************************************)
Binary(f) == \E i \in DOMAIN f.content : f.content[i] = NUL

DigestTells ==
  outcome = "ok" /\ earlier.ok /\ sum = earlier.digest =>
    hashed = earlier.hashed \/ \E f \in hashed \cup earlier.hashed : Binary(f)

(***************************************************************************)
(* An undisturbed hash fails only for the arguments, the ignore file, a    *)
(* directory that cannot be listed, even if it is ignored itself, or a     *)
(* file that is not ignored and cannot be read: a link to nothing or to a  *)
(* directory (contexthash.go:55, 93-100).                                  *)
(***************************************************************************)
Obstacle(p) ==
  /\ Exists(tree, p) /\ ~Skipped(Rules, p)
  /\ \/ tree[p].kind = "locked"
     \/ tree[p].kind = "leaf" /\ tree[p].content \notin Contents /\ ~Excluded(Rules, p)

FailsForCause ==
  outcome = "error" /\ steady = Paths =>
    \/ setup.root \in {"none", "locked"}
    \/ IgnoreText \in {Missing, Unreadable}
    \/ \E i \in DOMAIN Rules : Rules[i].kind = "bad"
    \/ \E p \in Paths : Obstacle(p)

(***************************************************************************)
(* contexthash.go:21-23: the digest "incorporates each included file's     *)
(* relative path, mode bits, and content".                                 *)
(***************************************************************************)
Incorporates ==
  outcome = "ok" /\ RulesSteady =>
    \A p \in steady :
      Exists(tree, p) /\ tree[p].kind = "leaf" /\ ~Excluded(Rules, p) /\ ~Skipped(Rules, p) =>
        AsHashed(p) \in hashed

-----------------------------------------------------------------------------
(***************************************************************************)
(* What the proofs of the properties rest on.                              *)
(***************************************************************************)
Leaf(p) == Exists(tree, p) /\ tree[p].kind = "leaf"
Past == pc \in {"list", "walk", "read"} \/ outcome = "ok"
Walking == pc \in {"list", "walk"}

\* What each step of a hash finds.
StepInv ==
  /\ outcome # "none" <=> pc = "done"
  /\ pc = "ignore" => at = Root /\ queue = <<>> /\ entries = {}
  /\ pc = "ignore" \/ Walking => hashed = {} /\ sum = <<>>
  /\ pc = "ignore" \/ Past => setup.root \in {"dir", "locked", "link"}
  /\ Past /\ setup.root = "locked" => pc = "list" /\ at = Root
  /\ Past /\ setup.root = "link" =>
       pc # "list" /\ queue = <<>> /\ entries = {} /\ hashed = {}

\* The patterns are those of an ignore file nobody touched.
RulesInv == Past /\ RulesSteady => patterns = Rules

\* Nothing ignored is kept, and only what is kept is read.
KeptInv ==
  /\ pc = "list" /\ at # Root => ~Skipped(patterns, at)
  /\ Walking => \A p \in Range(queue) : ~Skipped(patterns, p)
  /\ pc = "read" => Range(queue) \subseteq {e.path : e \in entries}
  /\ {h.path : h \in hashed} \subseteq {e.path : e \in entries}
  /\ \A e \in entries : ~Excluded(patterns, e.path) /\ ~Skipped(patterns, e.path)

\* What is known of a file nobody touched is still so.
FreshInv ==
  /\ \A e \in entries : e.path \in steady => Leaf(e.path) /\ e.mode = tree[e.path].mode
  /\ \A h \in hashed : h.path \in steady => h = AsHashed(h.path)

(***************************************************************************)
(* A file nobody touched is hashed, or kept and to be read, or it is in    *)
(* the queue, or a directory above it is there or to be listed.            *)
(***************************************************************************)
Due(p) == p \in steady /\ Leaf(p) /\ ~Excluded(patterns, p) /\ ~Skipped(patterns, p)
Kept(p) == [path |-> p, mode |-> tree[p].mode] \in entries
Queued(p) == ({p} \cup Above[p]) \cap Range(queue) # {}

CoverInv ==
  setup.root = "dir" => \A p \in Paths : Due(p) =>
    /\ pc = "list" => at \in {Root} \cup Above[p] \/ Queued(p) \/ Kept(p)
    /\ pc = "walk" => Queued(p) \/ Kept(p)
    /\ pc = "read" => (Kept(p) /\ p \in Range(queue)) \/ AsHashed(p) \in hashed
    /\ outcome = "ok" => AsHashed(p) \in hashed

\* Undisturbed, the walk meets only what is there.
CauseInv ==
  /\ steady = Paths /\ Walking => \A p \in Range(queue) : Exists(tree, p)
  /\ steady = Paths /\ pc = "list" /\ at # Root =>
       Exists(tree, at) /\ tree[at].kind \in {"dir", "locked"}
  /\ FailsForCause

(***************************************************************************)
(* As long as only ignored paths change, the earlier hash is of the files  *)
(* that would be hashed now.                                               *)
(***************************************************************************)
Quiet(S) == \A p \in S : /\ Excluded(Rules, p) \/ Skipped(Rules, p)
                         /\ p = IgnoreFile => setup.dockerignore # Absent
Included == {AsHashed(p) : p \in {q \in Paths : /\ setup.root = "dir" /\ Leaf(q)
                                               /\ ~Excluded(Rules, q) /\ ~Skipped(Rules, q)}}

SinceInv ==
  /\ \A p \in Paths \ steady : ({p} \cup Above[p]) \cap since # {}
  /\ earlier.ok /\ Quiet(since) => earlier.hashed = Included

\* The files are read in the order of their paths.
OrderInv ==
  pc = "read" =>
    /\ \A i, j \in DOMAIN queue : i < j => queue[i] < queue[j]
    /\ \A h \in hashed : \A p \in Range(queue) : h.path < p

HashInv ==
  /\ TypeOK /\ StepInv /\ RulesInv /\ KeptInv /\ FreshInv /\ CoverInv
  /\ CauseInv /\ SinceInv /\ OrderInv

=============================================================================
