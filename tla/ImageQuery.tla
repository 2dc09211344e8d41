----------------------------- MODULE ImageQuery -----------------------------
(***************************************************************************)
(* The registry data sources: buildkit_images lists the tags of a          *)
(* repository, resolves them one after the other and filters what it finds *)
(* (QueryImages); buildkit_registry_image resolves one reference.  Others  *)
(* move, delete and push tags meanwhile.                                   *)
(*                                                                         *)
(* A tag is its place in the order of references; a digest stands for its  *)
(* content, which never changes.                                           *)
(***************************************************************************)
EXTENDS Integers, FiniteSets

CONSTANTS
  Tags,       \* names in the repository, as places in their order
  Digests,    \* manifests
  Details,    \* per digest: what its manifest and configuration say
  NoDigest,   \* what a name resolves to that does not exist
  Platforms,  \* operating system and architecture
  Keys,       \* labels
  Queries,    \* data sources the user may write
  MaxChanges  \* bound: changes of the registry during one read

Unset == ""  \* the value of a label that an image does not have
NoLabels == [k \in Keys |-> Unset]

(***************************************************************************)
(* A manifest is an image's, an index of several images, or something      *)
(* else.  "made" is when it was created; 0 stands for no date.             *)
(***************************************************************************)
Detail == [kind : {"image", "index", "other"}, platforms : SUBSET Platforms,
           labels : [Keys -> {Unset, "v", "w"}], made : Nat]

Query == [op : {"images", "image"}, tags : SUBSET Tags, valid : BOOLEAN,
          labels : UNION {[ks -> {Unset, "v", "w"}] : ks \in SUBSET Keys},
          platforms : SUBSET Platforms, recent : BOOLEAN]

ASSUME QueryAssumption ==
  /\ Tags \subseteq Nat
  /\ NoDigest \notin Digests
  /\ Details \in [Digests -> Detail]
  /\ Queries \subseteq Query
  /\ MaxChanges \in Nat

VARIABLES
  registry,   \* the digest each tag resolves to
  query,      \* the data source being read
  pc,         \* step of the read
  todo,       \* listed tags that match and are still to be resolved
  resolving,  \* the tag whose details are being fetched, with its digest
  rows,       \* the images found so far
  outcome,    \* ok, not found, error or none
  had,        \* history: what each tag has resolved to since the read began
  blind,      \* history: the tags whose details could not be fetched
  trouble,    \* history: a request of this read has failed
  changes     \* changes of the registry since the read began

outside == <<registry, had, changes>>
vars == <<outside, query, pc, todo, resolving, rows, outcome, blind, trouble>>

-----------------------------------------------------------------------------
(***************************************************************************)
(* What ResolveImage reports of a digest.  An index has no labels and no   *)
(* date; if the details cannot be fetched they stay empty.                 *)
(***************************************************************************)
Reported(t, d, fetched) ==
  LET full == Details[d]
      image == fetched /\ full.kind = "image"
  IN [tag |-> t, digest |-> d,
      platforms |-> IF fetched /\ full.kind # "other" THEN full.platforms ELSE {},
      labels |-> IF image THEN full.labels ELSE NoLabels,
      created |-> IF image THEN full.made ELSE 0]

\* A label that is required to be empty may also be missing.
matchesLabels(have, required) == \A k \in DOMAIN required : have[k] = required[k]

matchesPlatforms(have, required) == required \subseteq have

Matches(q, row) == q.op = "images" =>
  matchesLabels(row.labels, q.labels) /\ matchesPlatforms(row.platforms, q.platforms)

\* Mutant of Newest: the first of the references.
First(rs) == {r \in rs : \A o \in rs : r.tag <= o.tag}

\* most_recent_only: the latest date, and of several the first reference.
Before(r, o) == \/ o.created < r.created
                \/ o.created = r.created /\ r.tag <= o.tag

Newest(rs) == {r \in rs : \A o \in rs : Before(r, o)}

-----------------------------------------------------------------------------
Init ==
  /\ registry \in [Tags -> Digests \cup {NoDigest}]
  /\ query \in Queries
  /\ pc = "idle"
  /\ todo = {} /\ resolving = {} /\ rows = {}
  /\ outcome = "none"
  /\ had = [t \in Tags |-> {}]
  /\ blind = {} /\ trouble = FALSE
  /\ changes = 0

\* Somebody pushes, moves or deletes a tag.
Change(t) ==
  /\ pc \in {"list", "next", "details"} /\ changes < MaxChanges
  /\ \E d \in (Digests \cup {NoDigest}) \ {registry[t]} :
       /\ registry' = [registry EXCEPT ![t] = d]
       /\ had' = [had EXCEPT ![t] = @ \cup {d}]
  /\ changes' = changes + 1
  /\ UNCHANGED <<query, pc, todo, resolving, rows, outcome, blind, trouble>>

\* One reference is resolved as a listing of one.
Start ==
  /\ pc \in {"idle", "done"}
  /\ \E q \in Queries :
       /\ query' = q
       /\ pc' = IF q.op = "image" THEN "next" ELSE "list"
       /\ todo' = IF q.op = "image" THEN q.tags ELSE {}
  /\ resolving' = {} /\ rows' = {}
  /\ outcome' = "none"
  /\ had' = [t \in Tags |-> {registry[t]}]
  /\ blind' = {} /\ trouble' = FALSE
  /\ changes' = 0
  /\ UNCHANGED registry

End(o) == pc' = "done" /\ outcome' = o

\* The pattern is compiled after the listing, and may not be one.
List ==
  /\ pc = "list"
  /\ IF query.valid
       THEN /\ todo' = {t \in query.tags : registry[t] # NoDigest}
            /\ pc' = "next" /\ UNCHANGED outcome
       ELSE End("error") /\ UNCHANGED todo
  /\ UNCHANGED <<outside, query, resolving, rows, blind, trouble>>

\* Any request may fail, which ends the read.
Fail ==
  /\ pc \in {"list", "next"}
  /\ pc = "next" => todo # {}
  /\ End("error")
  /\ trouble' = TRUE
  /\ UNCHANGED <<outside, query, todo, resolving, rows, blind>>

\* ResolveImage: the descriptor of a tag ...
Get(t) ==
  /\ pc = "next" /\ t \in todo
  /\ registry[t] # NoDigest
  /\ resolving' = {[tag |-> t, digest |-> registry[t]]}
  /\ todo' = todo \ {t}
  /\ pc' = "details"
  /\ UNCHANGED <<outside, query, rows, outcome, blind, trouble>>

\* Mutant of GetNotFound: a tag that is gone ends the listing.
GetNotFoundEnds(t) ==
  /\ pc = "next" /\ t \in todo
  /\ registry[t] = NoDigest
  /\ IF query.op = "image" THEN End("not found") /\ UNCHANGED todo
     ELSE todo' = {} /\ UNCHANGED <<pc, outcome>>
  /\ UNCHANGED <<outside, query, resolving, rows, blind, trouble>>

\* Mutant of GetNotFound: a tag that is gone is an error of the listing.
GetNotFoundFails(t) ==
  /\ pc = "next" /\ t \in todo
  /\ registry[t] = NoDigest
  /\ End(IF query.op = "image" THEN "not found" ELSE "error")
  /\ UNCHANGED <<outside, query, todo, resolving, rows, blind, trouble>>

\* ... which may be gone: the listing passes over it.
GetNotFound(t) ==
  /\ pc = "next" /\ t \in todo
  /\ registry[t] = NoDigest
  /\ IF query.op = "image" THEN End("not found") /\ UNCHANGED todo
     ELSE todo' = todo \ {t} /\ UNCHANGED <<pc, outcome>>
  /\ UNCHANGED <<outside, query, resolving, rows, blind, trouble>>

\* Mutant of FetchDetails: what the tag names by now is fetched.
FetchByTag ==
  /\ pc = "details"
  /\ \E c \in resolving :
       LET now == IF registry[c.tag] = NoDigest THEN c.digest ELSE registry[c.tag]
           row == [Reported(c.tag, now, TRUE) EXCEPT !.digest = c.digest]
       IN rows' = IF Matches(query, row) THEN rows \cup {row} ELSE rows
  /\ resolving' = {} /\ pc' = "next"
  /\ UNCHANGED <<outside, query, todo, outcome, blind, trouble>>

\* The details belong to the digest; an error in fetching them is passed over.
FetchDetails ==
  /\ pc = "details"
  /\ \E c \in resolving, fetched \in BOOLEAN :
       LET row == Reported(c.tag, c.digest, fetched)
       IN /\ rows' = IF Matches(query, row) THEN rows \cup {row} ELSE rows
          /\ blind' = IF fetched THEN blind ELSE blind \cup {c.tag}
  /\ resolving' = {} /\ pc' = "next"
  /\ UNCHANGED <<outside, query, todo, outcome, trouble>>

Finish ==
  /\ pc = "next" /\ todo = {}
  /\ rows' = IF query.recent THEN Newest(rows) ELSE rows
  /\ End("ok")
  /\ UNCHANGED <<outside, query, todo, resolving, blind, trouble>>

Next == \/ Start \/ List \/ Fail \/ FetchDetails \/ Finish
        \/ \E t \in Tags : Change(t) \/ Get(t) \/ GetNotFound(t)

Spec == Init /\ [][Next]_vars

-----------------------------------------------------------------------------
Row == [tag : Tags, digest : Digests, platforms : SUBSET Platforms,
        labels : [Keys -> {Unset, "v", "w"}], created : Nat]

TypeOK ==
  /\ registry \in [Tags -> Digests \cup {NoDigest}]
  /\ query \in Queries
  /\ pc \in {"idle", "list", "next", "details", "done"}
  /\ todo \subseteq Tags
  /\ resolving \subseteq [tag : Tags, digest : Digests]
  /\ rows \subseteq Row
  /\ outcome \in {"none", "ok", "not found", "error"}
  /\ had \in [Tags -> SUBSET (Digests \cup {NoDigest})]
  /\ blind \subseteq Tags
  /\ trouble \in BOOLEAN
  /\ changes \in 0 .. MaxChanges

(***************************************************************************)
(* Every image reported is one its tag really named during the read, with  *)
(* the details of that very manifest, never of the one that took its place *)
(* between two requests, and it meets the query.  Only details that could  *)
(* not be fetched are missing (registry.go:85-128).                        *)
(***************************************************************************)
Sound ==
  \A r \in rows :
    /\ r.tag \in query.tags
    /\ r.digest \in had[r.tag]
    /\ \/ r = Reported(r.tag, r.digest, TRUE)
       \/ r.tag \in blind /\ r = Reported(r.tag, r.digest, FALSE)
    /\ query.op = "images" =>
         /\ \A k \in DOMAIN query.labels :
              query.labels[k] # Unset => Details[r.digest].labels[k] = query.labels[k]
         /\ query.platforms \subseteq Details[r.digest].platforms

(***************************************************************************)
(* Whatever else comes and goes, an image that stays and meets the query   *)
(* is not missed by a read that succeeds (registry.go:213-231).            *)
(***************************************************************************)
Steady(t, d) == /\ t \in query.tags /\ had[t] = {d} /\ t \notin blind
                /\ Matches(query, Reported(t, d, TRUE))

Complete ==
  outcome = "ok" /\ ~query.recent =>
    \A t \in Tags, d \in Digests : Steady(t, d) => Reported(t, d, TRUE) \in rows

(***************************************************************************)
(* With most_recent_only one image is reported if any stays and meets the  *)
(* query, and none that stays was created later, "the most recently        *)
(* created matching image" (images_data_source.go:80,137-146; the dates    *)
(* are those of Details, not those the code has read).  The one exception  *)
(* is named: no date is read of an index, so that a later index that       *)
(* matches too is passed over for an older image.                          *)
(***************************************************************************)
DateUnread(d) == Details[d].kind # "image"

LatestDated ==
  outcome = "ok" /\ query.recent =>
    /\ \A q, r \in rows : q = r
    /\ \A t \in Tags, d \in Digests :
         Steady(t, d) =>
           \E r \in rows : Details[d].made <= Details[r.digest].made \/ DateUnread(d)

(***************************************************************************)
(* A read fails only for a cause: a request failed or the pattern is none. *)
(* A tag that disappears between the listing and its turn is not one       *)
(* (registry.go:217-223); a single reference is only reported as missing   *)
(* if it was missing.                                                      *)
(***************************************************************************)
FailuresTrue ==
  /\ outcome = "error" => trouble \/ ~query.valid
  /\ outcome = "not found" =>
       query.op = "image" /\ \E t \in query.tags : NoDigest \in had[t]

(***************************************************************************)
(* The inductive invariant behind these: what is being resolved or has     *)
(* been found was named by its tag, and an image that stays is still to be *)
(* resolved, being resolved or found.                                      *)
(***************************************************************************)
Reading == pc \in {"next", "details"}

QueryInv ==
  /\ TypeOK /\ Sound /\ Complete /\ FailuresTrue
  /\ pc # "idle" => \A t \in Tags : registry[t] \in had[t]
  /\ Reading => outcome = "none" /\ todo \subseteq query.tags
  /\ pc \in {"idle", "list"} => outcome = "none" /\ rows = {}
  /\ resolving # {} => pc = "details"
  /\ \A c \in resolving :
       resolving = {c} /\ c.tag \in query.tags /\ c.digest \in had[c.tag]
  /\ pc = "details" => resolving # {}
  /\ Reading =>
       \A t \in Tags, d \in Digests :
         Steady(t, d) => \/ t \in todo
                         \/ [tag |-> t, digest |-> d] \in resolving
                         \/ Reported(t, d, TRUE) \in rows

(***************************************************************************)
(* The one behind LatestDated, beside QueryInv: a tag is resolved once, so *)
(* the rows found differ in their tags, and one of them comes before all   *)
(* others; at the end it is the only one left.                             *)
(***************************************************************************)
Ranked ==
  /\ \A q, r \in rows : q.tag = r.tag => q = r
  /\ Reading =>
       /\ \A r \in rows : r.tag \notin todo
       /\ \A c \in resolving : c.tag \notin todo /\ \A r \in rows : r.tag # c.tag
  /\ rows # {} => \E r \in rows : \A o \in rows : Before(r, o)
  /\ LatestDated

=============================================================================
