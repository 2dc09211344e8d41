-------------------------- MODULE ArtifactResource --------------------------
(***************************************************************************)
(* The buildkit_artifact resource through runs of Terraform, on a host     *)
(* whose files others may change and where a run can die at any step.      *)
(*                                                                         *)
(* A build extracts what the stage holds at artifact_src_path to           *)
(* artifact_dst_path, in place: over an existing file, which is truncated  *)
(* first, or into an existing directory, file by file.  The hash that Read *)
(* later compares is taken of what is on the host after that.              *)
(*                                                                         *)
(* A hash is kept as the thing it was taken of; the code sees only the     *)
(* bytes that went into it, Digest.  The id always is artifact_sha256 and  *)
(* is left out; what a plan does with it is in ImageResource.              *)
(***************************************************************************)
EXTENDS Integers, Sequences

CONSTANTS
  Paths,     \* destination paths on the host
  FileCount, \* number of file names inside a directory, in walk order
  Name,      \* relative path of each, as bytes
  Text,      \* bytes of each content
  Packed,    \* bytes of a file at a path, by what it was made from
  Sources,   \* what the stage may hold at artifact_src_path
  Configs    \* resource configurations the user may write

Files == 1 .. FileCount
Contents == {"none", "torn", "edited", "v1", "v2"}
Things == [kind : {"absent", "file", "dir"}, files : [Files -> Contents]]

Hashes == [kind : {"absent", "file", "dir", "walked"}, files : [Files -> Contents]]

Absent == [kind |-> "absent", files |-> [f \in Files |-> "none"]]
Torn == [kind |-> "file", files |-> [f \in Files |-> "torn"]]
Edited == [kind |-> "file", files |-> [f \in Files |-> "edited"]]
NoConfig == [dst |-> "none", type |-> "none", triggers |-> "none", args |-> "none"]
NoState == [exists |-> FALSE, config |-> NoConfig, path |-> "none",
            sha256 |-> Absent, contextDigest |-> Absent]

ASSUME ArtifactAssumption ==
  /\ "none" \notin Paths
  /\ FileCount \in Nat
  /\ Name \in [Files -> Seq(Nat) \ {<<>>}]
  /\ Text \in [Contents \ {"none"} -> Seq(Nat)]
  /\ \A c, d \in DOMAIN Text : Text[c] = Text[d] => c = d
  /\ Packed \in [[Files -> Contents] -> Seq(Nat)]
  /\ \A x, y \in DOMAIN Packed : Packed[x] = Packed[y] => x = y
  /\ Sources \subseteq Things
  /\ Configs \subseteq [dst : Paths, type : {"zip", "directory"}, triggers : {"x", "y"},
                        args : {"a", "b"}]

VARIABLES
  disk,      \* what is at each destination path
  source,    \* what a build of the context would leave in the stage
  config,    \* the resource block as the user has it now
  state,     \* the resource in Terraform's state; Absent is an empty hash
  pc,        \* step of the current run
  out,       \* the exported stage content of the current build
  todo,      \* files of a directory still to be copied
  sum,       \* the hash the current build took
  touched,   \* history: somebody else wrote to a path since ...
  dirty      \* history: something happened since the last successful apply

vars == <<disk, source, config, state, pc, out, todo, sum, touched, dirty>>
working == <<out, todo, sum>>
history == <<touched, dirty>>

Init ==
  /\ disk = [p \in Paths |-> Absent]
  /\ source \in Sources
  /\ config \in Configs
  /\ state = NoState
  /\ pc = "idle"
  /\ out = Absent /\ todo = {} /\ sum = Absent
  /\ touched = FALSE /\ dirty = TRUE

(***************************************************************************)
(* sha256File writes the bytes of the file.  sha256Tree writes, file after *)
(* file, the relative path and the content, with nothing in between; given *)
(* a file, it writes "." and the content.                                  *)
(***************************************************************************)
Dot == <<46>>

Piece(files, n) == IF files[n] = "none" THEN <<>> ELSE Name[n] \o Text[files[n]]

Written(files) ==
  LET w[n \in 0 .. FileCount] == IF n = 0 THEN <<>> ELSE w[n - 1] \o Piece(files, n)
  IN w

Digest(h) == IF h.kind = "file" THEN Packed[h.files]
             ELSE IF h.kind = "walked" THEN Dot \o Packed[h.files]
             ELSE Written(h.files)[FileCount]

EndRun == /\ pc' = "idle"
          /\ out' = Absent /\ todo' = {} /\ sum' = Absent

-----------------------------------------------------------------------------
(***************************************************************************)
(* The surroundings.                                                       *)
(***************************************************************************)
EditSource == /\ source' \in Sources \ {source}
              /\ UNCHANGED <<disk, config, state, pc, working, history>>

EditConfig == /\ pc = "idle"
              /\ config' \in Configs \ {config}
              /\ dirty' = TRUE
              /\ UNCHANGED <<disk, source, state, pc, working, touched>>

Outsider(p) ==
  /\ disk' \in {[disk EXCEPT ![p] = t] : t \in {Absent, Edited}}
  /\ disk' # disk
  /\ touched' = TRUE /\ dirty' = TRUE
  /\ UNCHANGED <<source, config, state, pc, working>>

\* ImportState: the path, and no hash.
Import(p) ==
  /\ pc = "idle" /\ ~state.exists
  /\ state' = [NoState EXCEPT !.exists = TRUE, !.path = p]
  /\ dirty' = TRUE
  /\ UNCHANGED <<disk, source, config, pc, working, touched>>

\* The run dies, or is interrupted, between two steps.
Crash ==
  /\ pc # "idle"
  /\ EndRun
  /\ dirty' = TRUE
  /\ UNCHANGED <<disk, source, config, state, touched>>

-----------------------------------------------------------------------------
StartRun ==
  /\ pc = "idle"
  /\ pc' = IF state.exists THEN "read" ELSE "plan"
  /\ UNCHANGED <<disk, source, config, state, working, history>>

\* Build and import both record a path, so that it is never empty.  Stat fails,
\* for whatever reason: the resource leaves the state.
ReadGone ==
  /\ pc = "read"
  /\ state' = NoState
  /\ dirty' = (dirty \/ disk[state.path] # Absent)
  /\ pc' = "plan"
  /\ UNCHANGED <<disk, source, config, working, touched>>

\* The artifact is there but cannot be read: the run ends with an error.
ReadFails ==
  /\ pc = "read" /\ disk[state.path] # Absent
  /\ EndRun
  /\ dirty' = TRUE
  /\ UNCHANGED <<disk, source, config, state, touched>>

\* Mutant of ReadDrifted: the recorded hash is not compared.
ReadKeptDrifted ==
  /\ pc = "read" /\ disk[state.path] # Absent
  /\ touched' = FALSE
  /\ pc' = "plan"
  /\ UNCHANGED <<disk, source, config, state, working, dirty>>

\* The hash differs from the recorded one: the resource leaves the state too.
ReadDrifted ==
  /\ pc = "read" /\ disk[state.path] # Absent
  /\ state.sha256 # Absent /\ Digest(state.sha256) # Digest(disk[state.path])
  /\ state' = NoState
  /\ pc' = "plan"
  /\ UNCHANGED <<disk, source, config, working, touched, dirty>>

ReadKept ==
  /\ pc = "read" /\ disk[state.path] # Absent
  /\ state.sha256 # Absent => Digest(state.sha256) = Digest(disk[state.path])
  /\ state' = IF state.sha256 = Absent THEN [state EXCEPT !.sha256 = disk[state.path]]
              ELSE state
  /\ touched' = FALSE
  /\ pc' = "plan"
  /\ UNCHANGED <<disk, source, config, working, dirty>>

-----------------------------------------------------------------------------
PlanNothing ==
  /\ pc = "plan" /\ state.exists /\ state.config = config
  /\ EndRun
  /\ UNCHANGED <<disk, source, config, state, history>>

\* Only triggers force a replacement; a new destination is an update.
PlanChange ==
  /\ pc = "plan"
  /\ state.config # config
  /\ pc' = IF state.exists /\ state.config.triggers # config.triggers
             THEN "delete" ELSE "build"
  /\ UNCHANGED <<disk, source, config, state, working, history>>

\* RemoveAll is best effort: its error is ignored.
RemoveAll(p) == disk' \in {disk, [disk EXCEPT ![p] = Absent]}

Delete ==
  /\ pc = "delete"
  /\ RemoveAll(state.path)
  /\ state' = NoState
  /\ pc' = "build"
  /\ UNCHANGED <<source, config, working, touched, dirty>>

Destroy ==
  /\ pc = "plan" /\ state.exists
  /\ RemoveAll(state.path)
  /\ state' = NoState
  /\ EndRun
  /\ dirty' = TRUE
  /\ UNCHANGED <<source, config, touched>>

-----------------------------------------------------------------------------
(***************************************************************************)
(* build, for Create and Update alike.                                     *)
(***************************************************************************)
Fails == /\ EndRun
         /\ dirty' = TRUE
         /\ UNCHANGED <<source, config, state, touched>>

AsFile == config.type = "zip" \/ out.kind = "file"

\* Connection, solve and local export; the solve reads the context.
Build ==
  /\ pc = "build"
  /\ out' = source
  /\ touched' = FALSE
  /\ pc' = "write"
  /\ UNCHANGED <<disk, source, config, state, todo, sum, dirty>>

BuildFails == pc = "build" /\ Fails /\ UNCHANGED disk

\* zipPath or copyFile: the destination is created or truncated, and filled.
WriteFile ==
  /\ pc = "write" /\ AsFile
  /\ out.kind # "absent" /\ disk[config.dst].kind # "dir"
  /\ disk' = [disk EXCEPT ![config.dst] = [kind |-> "file", files |-> out.files]]
  /\ pc' = "hash"
  /\ UNCHANGED <<source, config, state, working, history>>

\* Mutant of WriteFileFails: a close error is not looked at.
WriteFileShort ==
  /\ pc = "write" /\ AsFile
  /\ out.kind # "absent" /\ disk[config.dst].kind # "dir"
  /\ disk' = [disk EXCEPT ![config.dst] = Torn]
  /\ pc' = "hash"
  /\ UNCHANGED <<source, config, state, working, history>>

\* A copy error, or the close error that reveals a short write.
WriteFileFails ==
  /\ pc = "write" /\ AsFile
  /\ disk' \in {disk} \cup (IF out.kind = "absent" \/ disk[config.dst].kind = "dir"
                            THEN {} ELSE {[disk EXCEPT ![config.dst] = Torn]})
  /\ Fails

\* Mutant of OpenTree: what is there already is not copied again.
OpenTreeKeepsOld ==
  /\ pc = "write" /\ ~AsFile
  /\ out.kind = "dir" /\ disk[config.dst].kind # "file"
  /\ disk' = [disk EXCEPT ![config.dst].kind = "dir"]
  /\ todo' = {f \in Files : out.files[f] # "none" /\ disk[config.dst].files[f] = "none"}
  /\ pc' = "copy"
  /\ UNCHANGED <<source, config, state, out, sum, history>>

\* copyTree: the directories first ...
OpenTree ==
  /\ pc = "write" /\ ~AsFile
  /\ out.kind = "dir" /\ disk[config.dst].kind # "file"
  /\ disk' = [disk EXCEPT ![config.dst].kind = "dir"]
  /\ todo' = {f \in Files : out.files[f] # "none"}
  /\ pc' = "copy"
  /\ UNCHANGED <<source, config, state, out, sum, history>>

OpenTreeFails == pc = "write" /\ ~AsFile /\ Fails /\ UNCHANGED disk

\* ... then each file over whatever has its name.
CopyFile ==
  /\ pc = "copy" /\ disk[config.dst].kind # "file"
  /\ \E f \in todo :
       /\ disk' = [disk EXCEPT ![config.dst].kind = "dir",
                               ![config.dst].files[f] = out.files[f]]
       /\ todo' = todo \ {f}
  /\ UNCHANGED <<source, config, state, pc, out, sum, history>>

CopyFileFails ==
  /\ pc = "copy"
  /\ \E f \in todo :
       disk' \in {disk} \cup
         IF disk[config.dst].kind = "file" THEN {}
         ELSE {[disk EXCEPT ![config.dst].kind = "dir",
                            ![config.dst].files[f] = "torn"]}
  /\ Fails

CopyDone ==
  /\ pc = "copy" /\ todo = {}
  /\ pc' = "hash"
  /\ UNCHANGED <<disk, source, config, state, working, history>>

\* Mutant of Hash: it is taken of what was exported.
HashExported ==
  /\ pc = "hash" /\ disk[config.dst] # Absent
  /\ sum' = [kind |-> disk[config.dst].kind, files |-> out.files]
  /\ pc' = "save"
  /\ UNCHANGED <<disk, source, config, state, out, todo, history>>

\* sha256File, or sha256Tree for a directory, of what is at the destination.
Hash ==
  /\ pc = "hash" /\ disk[config.dst] # Absent
  /\ sum' = disk[config.dst]
  /\ pc' = "save"
  /\ UNCHANGED <<disk, source, config, state, out, todo, history>>

\* Any error of sha256File is taken for a directory: sha256Tree is tried.
HashFallback ==
  /\ pc = "hash" /\ disk[config.dst].kind = "file"
  /\ sum' = [kind |-> "walked", files |-> disk[config.dst].files]
  /\ pc' = "save"
  /\ UNCHANGED <<disk, source, config, state, out, todo, history>>

HashFails == pc = "hash" /\ Fails /\ UNCHANGED disk

(***************************************************************************)
(* The context digest is best effort, and of the context as it is now.  A  *)
(* hash that fell back is not the one Read will compute: that counts as    *)
(* something that happened.                                                *)
(***************************************************************************)
Save ==
  /\ pc = "save"
  /\ \E d \in {source, Absent} :
       state' = [exists |-> TRUE, config |-> config, path |-> config.dst,
                 sha256 |-> sum, contextDigest |-> d]
  /\ EndRun
  /\ dirty' = (touched \/ sum.kind = "walked")
  /\ UNCHANGED <<disk, source, config, touched>>

Read == ReadGone \/ ReadFails \/ ReadDrifted \/ ReadKept
Plan == PlanNothing \/ PlanChange
Apply == \/ Delete \/ Destroy \/ Build \/ BuildFails \/ WriteFile \/ WriteFileFails
         \/ OpenTree \/ OpenTreeFails \/ CopyFile \/ CopyFileFails \/ CopyDone
         \/ Hash \/ HashFallback \/ HashFails \/ Save

Next == \/ EditSource \/ EditConfig \/ StartRun \/ Read \/ Plan \/ Apply \/ Crash
        \/ \E p \in Paths : Outsider(p) \/ Import(p)

Spec == Init /\ [][Next]_vars

-----------------------------------------------------------------------------
TypeOK ==
  /\ disk \in [Paths -> Things]
  /\ source \in Sources
  /\ config \in Configs
  /\ state \in [exists : BOOLEAN, config : Configs \cup {NoConfig},
                path : Paths \cup {"none"}, sha256 : Hashes, contextDigest : Things]
  /\ pc \in {"idle", "read", "plan", "delete", "build", "write", "copy", "hash", "save"}
  /\ out \in Things /\ sum \in Hashes
  /\ todo \subseteq Files
  /\ touched \in BOOLEAN /\ dirty \in BOOLEAN

(***************************************************************************)
(* An apply that succeeds has recorded what the stage holds, never a half- *)
(* written file, whatever earlier applies left at the path: as a file,     *)
(* exactly that (artifact_resource.go:368-376, 427-429); as a directory,   *)
(* at least that, for what else is there stays (artifact_resource.go:393). *)
(***************************************************************************)
HoldsStage(x) ==
  IF AsFile THEN x.kind \in {"file", "walked"} /\ x.files = out.files
  ELSE /\ x.kind = "dir"
       /\ \A f \in Files : out.files[f] # "none" => x.files[f] = out.files[f]

StageIsRecorded == pc = "save" /\ ~touched => HoldsStage(sum)

(***************************************************************************)
(* A partial write shows: if refresh leaves the resource in the state, a   *)
(* file on the host is the one that was hashed, and a directory has not    *)
(* just one file that is torn, missing, added or edited                    *)
(* (artifact_resource.go:164-168).  That comment says so of every edit and *)
(* partial write; several files of a directory that are not as they were   *)
(* may go unnoticed, since sha256Tree writes nothing between names and     *)
(* contents, and so may a directory that a file replaces.                  *)
(***************************************************************************)
Differ(x, y) == {f \in Files : x.files[f] # y.files[f]}

DamageShows ==
  pc = "plan" /\ state.exists /\ ~touched =>
    LET was == state.sha256
        is  == disk[state.path]
    IN \/ is = was
       \/ is.kind # was.kind
       \/ is.kind # "file" /\ \E f, g \in Differ(was, is) : f # g

(***************************************************************************)
(* A plan is empty when nothing happened since the last successful apply:  *)
(* the hash Read computes is the one that build recorded.                  *)
(***************************************************************************)
NoSpuriousRebuild == pc \notin {"idle", "read", "plan"} => dirty

(***************************************************************************)
(* The inductive invariant behind all of these: what is at the destination *)
(* from the first write to the hash, unless somebody else wrote.           *)
(***************************************************************************)
Copied == \A f \in Files \ todo :
            out.files[f] # "none" => disk[config.dst].files[f] = out.files[f]

Intact == /\ state.exists /\ state.config = config
          /\ disk[state.path] = state.sha256 /\ state.sha256 # Absent

ArtifactInv ==
  /\ TypeOK /\ StageIsRecorded /\ DamageShows /\ NoSpuriousRebuild
  /\ state.exists => state.path \in Paths
  /\ pc \in {"read", "delete"} => state.exists
  /\ pc = "copy" => ~AsFile
  /\ ~touched =>
       /\ pc = "copy" => disk[config.dst].kind = "dir" /\ Copied
       /\ pc = "hash" => HoldsStage(disk[config.dst])
       /\ pc = "save" => sum # Absent /\ sum.kind \in {disk[config.dst].kind, "walked"}
                         /\ sum.files = disk[config.dst].files
  /\ ~dirty => Intact

=============================================================================
