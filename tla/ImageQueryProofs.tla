-------------------------- MODULE ImageQueryProofs --------------------------
(***************************************************************************)
(* QueryInv and Ranked are invariants of ImageQuery, and with them what a  *)
(* read reports is sound, a listing complete, and the image picked by date *)
(* the latest, for every registry.                                         *)
(***************************************************************************)
EXTENDS ImageQuery, TLAPS

\* The bound on changes is a number, so none have happened yet is within it.
LEMMA Bound == MaxChanges \in Nat /\ 0 \in 0 .. MaxChanges
  <1>1. MaxChanges \in Nat
    BY QueryAssumption
  <1>2. QED
    BY <1>1

\* What is reported of a digest is a row; a row of a query that is not blind
\* meets that query by the digest's own details.
LEMMA ReportedType ==
  ASSUME NEW t \in Tags, NEW d \in Digests, NEW f \in BOOLEAN
  PROVE  /\ Reported(t, d, f) \in Row
         /\ Reported(t, d, f).tag = t /\ Reported(t, d, f).digest = d
  <1>1. Details[d] \in Detail
    BY QueryAssumption
  <1>2. NoLabels \in [Keys -> {Unset, "v", "w"}]
    BY DEF NoLabels
  <1>3. QED
    BY <1>1, <1>2 DEF Reported, Row, Detail

LEMMA MatchesTrue ==
  ASSUME NEW t \in Tags, NEW d \in Digests, NEW f \in BOOLEAN, NEW q \in Queries,
         q.op = "images", Matches(q, Reported(t, d, f))
  PROVE  /\ \A k \in DOMAIN q.labels :
              q.labels[k] # Unset => Details[d].labels[k] = q.labels[k]
         /\ q.platforms \subseteq Details[d].platforms
  <1> DEFINE r == Reported(t, d, f)
  <1>1. Details[d] \in Detail
    BY QueryAssumption
  <1>2. r.platforms \subseteq Details[d].platforms
    BY <1>1 DEF Reported, Detail
  <1>3. r.labels = Details[d].labels \/ r.labels = NoLabels
    BY DEF Reported
  <1>4. q \in Query /\ DOMAIN q.labels \subseteq Keys
    BY QueryAssumption DEF Query
  <1>5. \A k \in Keys : NoLabels[k] = Unset
    BY DEF NoLabels
  <1>6. \A k \in DOMAIN q.labels : r.labels[k] = q.labels[k]
    BY DEF Matches, matchesLabels
  <1>7. q.platforms \subseteq r.platforms
    BY DEF Matches, matchesPlatforms
  <1>8. QED
    BY <1>2, <1>3, <1>4, <1>5, <1>6, <1>7

\* One row that FetchDetails adds is sound.
SoundRow(r, q, h, b) ==
  /\ r.tag \in q.tags
  /\ r.digest \in h[r.tag]
  /\ \/ r = Reported(r.tag, r.digest, TRUE)
     \/ r.tag \in b /\ r = Reported(r.tag, r.digest, FALSE)
  /\ q.op = "images" =>
       /\ \A k \in DOMAIN q.labels :
            q.labels[k] # Unset => Details[r.digest].labels[k] = q.labels[k]
       /\ q.platforms \subseteq Details[r.digest].platforms

LEMMA SoundRows == Sound <=> \A r \in rows : SoundRow(r, query, had, blind)
  BY DEF Sound, SoundRow

-----------------------------------------------------------------------------
\* The initial states satisfy the invariant.
LEMMA QueryInitInv == Init => QueryInv
  <1> SUFFICES ASSUME Init PROVE QueryInv
    OBVIOUS
  <1>1. TypeOK
    <2>1. had \in [Tags -> SUBSET (Digests \cup {NoDigest})]
      BY DEF Init
    <2>2. changes \in 0 .. MaxChanges /\ trouble \in BOOLEAN
      BY Bound DEF Init
    <2>3. todo \subseteq Tags /\ blind \subseteq Tags /\ rows \subseteq Row
          /\ resolving \subseteq [tag : Tags, digest : Digests]
      BY DEF Init
    <2>4. QED
      BY <2>1, <2>2, <2>3 DEF Init, TypeOK
  <1>2. QED
    BY <1>1 DEF Init, QueryInv, Sound, Complete, FailuresTrue, Reading

\* The beginning of a read.
LEMMA StartInv == QueryInv /\ Start => QueryInv'
  <1> SUFFICES ASSUME QueryInv, Start PROVE QueryInv'
    OBVIOUS
  <1>1. PICK q \in Queries :
          /\ query' = q
          /\ pc' = IF q.op = "image" THEN "next" ELSE "list"
          /\ todo' = IF q.op = "image" THEN q.tags ELSE {}
    BY DEF Start
  <1>2. q.tags \subseteq Tags
    BY QueryAssumption DEF Query
  <1>3. TypeOK'
    <2>1. /\ registry' = registry /\ resolving' = {} /\ rows' = {} /\ outcome' = "none"
          /\ blind' = {} /\ trouble' = FALSE /\ changes' = 0
          /\ had' = [t \in Tags |-> {registry[t]}]
      BY DEF Start
    <2>2. registry \in [Tags -> Digests \cup {NoDigest}]
      BY DEF QueryInv, TypeOK
    <2>3. had' \in [Tags -> SUBSET (Digests \cup {NoDigest})]
      BY <2>1, <2>2
    <2>4. changes' \in 0 .. MaxChanges
      BY <2>1, Bound
    <2>5. todo' \subseteq Tags /\ pc' \in {"list", "next"}
      BY <1>1, <1>2
    <2>6. resolving' \subseteq [tag : Tags, digest : Digests] /\ rows' \subseteq Row
      BY <2>1
    <2>7. QED
      BY <1>1, <2>1, <2>2, <2>3, <2>4, <2>5, <2>6 DEF TypeOK
  <1>4. \A t \in Tags : registry'[t] \in had'[t]
    BY DEF Start
  <1>5. Sound' /\ Complete' /\ FailuresTrue'
    BY DEF Start, Sound, Complete, FailuresTrue
  <1>6. Reading' => outcome' = "none" /\ todo' \subseteq query'.tags
    BY <1>1 DEF Start, Reading
  <1>7. Reading' => \A t \in Tags, d \in Digests : Steady(t, d)' => t \in todo'
    BY <1>1 DEF Reading, Steady
  <1>8. resolving' = {} /\ pc' \in {"next", "list"} /\ outcome' = "none" /\ rows' = {}
    BY <1>1 DEF Start
  <1>9. QED
    BY <1>3, <1>4, <1>5, <1>6, <1>7, <1>8 DEF QueryInv

\* A change of the registry.
LEMMA ChangeInv ==
  ASSUME QueryInv, NEW t \in Tags, Change(t)
  PROVE  QueryInv'
  <1>a. PICK new \in Digests \cup {NoDigest} :
          /\ registry' = [registry EXCEPT ![t] = new]
          /\ had' = [had EXCEPT ![t] = @ \cup {new}]
    BY DEF Change
  <1>b. /\ registry \in [Tags -> Digests \cup {NoDigest}]
        /\ had \in [Tags -> SUBSET (Digests \cup {NoDigest})]
    BY DEF QueryInv, TypeOK
  <1>1. TypeOK'
    <2>1. registry' \in [Tags -> Digests \cup {NoDigest}]
      BY <1>a, <1>b
    <2>2. had' \in [Tags -> SUBSET (Digests \cup {NoDigest})]
      BY <1>a, <1>b
    <2>3. changes' \in 0 .. MaxChanges
      <3>1. changes \in 0 .. MaxChanges /\ changes < MaxChanges /\ changes' = changes + 1
        BY DEF Change, QueryInv, TypeOK
      <3>2. QED
        BY <3>1, Bound
    <2>4. QED
      BY <2>1, <2>2, <2>3 DEF Change, QueryInv, TypeOK
  <1>2. /\ \A s \in Tags : had[s] \subseteq had'[s] /\ registry'[s] \in had'[s]
        /\ pc \in {"list", "next", "details"} /\ outcome' = "none"
    <2>1. pc \in {"list", "next", "details"} /\ outcome' = "none"
      BY DEF Change, QueryInv, Reading
    <2>2. \A s \in Tags : registry[s] \in had[s]
      BY <2>1 DEF QueryInv
    <2>3. ASSUME NEW s \in Tags PROVE had[s] \subseteq had'[s] /\ registry'[s] \in had'[s]
      <3>1. CASE s = t
        BY <1>a, <1>b, <3>1
      <3>2. CASE s # t
        BY <1>a, <1>b, <2>2, <3>2
      <3>3. QED
        BY <3>1, <3>2
    <2>4. QED
      BY <2>1, <2>3
  <1>3. \A r \in rows : r.tag \in Tags
    BY DEF QueryInv, TypeOK, Row
  <1>4. Sound'
    <2>1. UNCHANGED <<query, rows, blind>>
      BY DEF Change
    <2>2. Sound
      BY DEF QueryInv
    <2> HIDE DEF Change, QueryInv
    <2>3. QED
      BY <1>2, <1>3, <2>1, <2>2 DEF Sound, Reported
  <1>5. Complete' /\ FailuresTrue'
    BY <1>2 DEF Complete, FailuresTrue
  <1>6. \A s \in Tags, d \in Digests : Steady(s, d)' => Steady(s, d)
    <2> SUFFICES ASSUME NEW s \in Tags, NEW d \in Digests, Steady(s, d)' PROVE Steady(s, d)
      OBVIOUS
    <2>1. registry[s] \in had[s]
      BY <1>2 DEF QueryInv
    <2>2. had'[s] = {d}
      BY DEF Steady
    <2>3. had[s] = {d}
      BY <1>2, <2>1, <2>2
    <2>4. QED
      BY <2>3 DEF Steady, Change
  <1>7. QED
    BY <1>1, <1>2, <1>4, <1>5, <1>6 DEF Change, QueryInv, Reading, TypeOK

\* The listing.
LEMMA ListInv == QueryInv /\ List => QueryInv'
  <1> SUFFICES ASSUME QueryInv, List PROVE QueryInv'
    OBVIOUS
  <1>0. query.tags \subseteq Tags
    BY QueryAssumption DEF QueryInv, TypeOK, Query
  <1>1. TypeOK'
    BY <1>0 DEF List, End, TypeOK, QueryInv, outside
  <1>2. rows = {} /\ outcome = "none" /\ resolving = {} /\ UNCHANGED <<outside, query, resolving, rows, blind, trouble>>
    BY DEF List, QueryInv
  <1>3. Sound' /\ Complete' /\ FailuresTrue'
    BY <1>2 DEF Sound, Complete, FailuresTrue, List, End
  <1>4. pc' = "next" => \A t \in Tags, d \in Digests : Steady(t, d)' => t \in todo'
    <2> SUFFICES ASSUME pc' = "next", NEW t \in Tags, NEW d \in Digests, Steady(t, d)'
                 PROVE  t \in todo'
      OBVIOUS
    <2>1. t \in query.tags /\ had[t] = {d}
      BY <1>2 DEF Steady, outside
    <2>2. registry[t] = d /\ d # NoDigest
      BY <2>1, QueryAssumption DEF QueryInv, List
    <2>3. todo' = {x \in query.tags : registry[x] # NoDigest}
      BY DEF List, End
    <2>4. QED
      BY <2>1, <2>2, <2>3
  <1>5. pc' \in {"next", "done"} /\ (pc' = "next" => outcome' = "none" /\ todo' \subseteq query.tags)
    BY <1>2 DEF List, End
  <1>6. QED
    BY <1>1, <1>2, <1>3, <1>4, <1>5 DEF QueryInv, Reading, outside, List

\* A failed request.
LEMMA FailInv == QueryInv /\ Fail => QueryInv'
  <1> SUFFICES ASSUME QueryInv, Fail PROVE QueryInv'
    OBVIOUS
  <1>1. TypeOK'
    BY DEF Fail, End, TypeOK, QueryInv, outside
  <1>2. Sound' /\ Complete' /\ FailuresTrue'
    BY DEF Fail, End, QueryInv, outside, Sound, Complete, FailuresTrue
  <1>3. resolving = {} /\ pc # "idle"
    BY DEF Fail, QueryInv
  <1>4. QED
    BY <1>1, <1>2, <1>3 DEF Fail, End, QueryInv, Reading, outside

\* A descriptor.
LEMMA GetInv ==
  ASSUME QueryInv, NEW t \in Tags, Get(t)
  PROVE  QueryInv'
  <1>1. registry[t] \in Digests /\ t \in todo /\ t \in query.tags /\ registry[t] \in had[t]
    BY DEF Get, QueryInv, TypeOK, Reading
  <1>2. TypeOK'
    <2>1. resolving' \subseteq [tag : Tags, digest : Digests] /\ todo' \subseteq Tags
      <3>1. resolving' = {[tag |-> t, digest |-> registry[t]]} /\ todo' = todo \ {t}
        BY DEF Get
      <3>2. todo \subseteq Tags
        BY DEF QueryInv, TypeOK
      <3>3. QED
        BY <1>1, <3>1, <3>2
    <2>2. QED
      BY <2>1 DEF Get, QueryInv, TypeOK, outside
  <1>c. /\ pc = "next" /\ pc' = "details" /\ outcome' = "none" /\ todo' \subseteq query'.tags
        /\ \A x \in Tags : registry'[x] \in had'[x]
        /\ resolving' = {[tag |-> t, digest |-> registry[t]]}
        /\ query' = query /\ had' = had
    BY DEF Get, QueryInv, Reading, outside
  <1>d. \A c \in resolving' :
          resolving' = {c} /\ c.tag \in query'.tags /\ c.digest \in had'[c.tag]
    BY <1>1, <1>c
  <1>3. Sound' /\ Complete' /\ FailuresTrue'
    BY DEF Get, QueryInv, outside, Sound, Complete, FailuresTrue, Reading
  <1>4. \A s \in Tags, d \in Digests :
          Steady(s, d)' => \/ s \in todo'
                           \/ [tag |-> s, digest |-> d] \in resolving'
                           \/ Reported(s, d, TRUE) \in rows'
    <2> SUFFICES ASSUME NEW s \in Tags, NEW d \in Digests, Steady(s, d)'
                 PROVE  \/ s \in todo'
                        \/ [tag |-> s, digest |-> d] \in resolving'
                        \/ Reported(s, d, TRUE) \in rows'
      OBVIOUS
    <2>1. Steady(s, d) /\ had[s] = {d}
      BY DEF Steady, Get, outside
    <2>2. s \in todo \/ Reported(s, d, TRUE) \in rows
      BY <2>1 DEF QueryInv, Reading, Get
    <2>3. s = t => registry[t] = d
      BY <1>1, <2>1
    <2>4. QED
      BY <2>2, <2>3 DEF Get
  <1>5. QED
    BY <1>2, <1>3, <1>4, <1>c, <1>d DEF QueryInv, Reading

\* A tag that is gone.
LEMMA GetNotFoundInv ==
  ASSUME QueryInv, NEW t \in Tags, GetNotFound(t)
  PROVE  QueryInv'
  <1>1. /\ t \in todo /\ t \in query.tags /\ NoDigest \in had[t] /\ outcome = "none"
        /\ pc = "next" /\ resolving = {}
        /\ UNCHANGED <<registry, had, changes, query, resolving, rows, blind, trouble>>
    BY DEF GetNotFound, QueryInv, Reading, outside
  <1>2. \/ query.op = "image" /\ pc' = "done" /\ outcome' = "not found" /\ todo' = todo
        \/ todo' = todo \ {t} /\ pc' = "next" /\ outcome' = "none"
    BY <1>1 DEF GetNotFound, End
  <1>3. TypeOK'
    BY <1>1, <1>2 DEF QueryInv, TypeOK
  <1>4. Sound' /\ Complete'
    BY <1>1, <1>2 DEF QueryInv, Sound, Complete
  <1>5. FailuresTrue'
    BY <1>1, <1>2 DEF FailuresTrue
  <1>6. \A d \in Digests : ~Steady(t, d)
    BY <1>1, QueryAssumption DEF Steady
  <1>7. QED
    BY <1>1, <1>2, <1>3, <1>4, <1>5, <1>6 DEF QueryInv, Reading, Steady

\* The details.
LEMMA FetchInv == QueryInv /\ FetchDetails => QueryInv'
  <1> SUFFICES ASSUME QueryInv, FetchDetails PROVE QueryInv'
    OBVIOUS
  <1>1. PICK c \in resolving, f \in BOOLEAN :
          /\ rows' = IF Matches(query, Reported(c.tag, c.digest, f))
                       THEN rows \cup {Reported(c.tag, c.digest, f)} ELSE rows
          /\ blind' = IF f THEN blind ELSE blind \cup {c.tag}
    BY DEF FetchDetails
  <1> DEFINE r == Reported(c.tag, c.digest, f)
  <1>2. /\ c.tag \in Tags /\ c.digest \in Digests /\ c.tag \in query.tags
        /\ c.digest \in had[c.tag] /\ resolving = {c}
        /\ c = [tag |-> c.tag, digest |-> c.digest]
    BY DEF QueryInv, TypeOK
  <1>3. r \in Row /\ r.tag = c.tag /\ r.digest = c.digest
    BY <1>2, ReportedType
  <1>4. /\ resolving' = {} /\ pc = "details" /\ pc' = "next" /\ outcome = "none"
        /\ UNCHANGED <<registry, had, changes, query, todo, outcome, trouble>>
    BY DEF FetchDetails, QueryInv, Reading, outside
  <1>5. TypeOK'
    <2> HIDE DEF r
    <2>1. rows' \subseteq Row
      BY <1>1, <1>3 DEF QueryInv, TypeOK, r
    <2>2. blind' \subseteq Tags
      BY <1>1, <1>2 DEF QueryInv, TypeOK
    <2>3. QED
      BY <1>4, <2>1, <2>2 DEF QueryInv, TypeOK
  <1>6. Sound'
    <2>1. Matches(query, r) => SoundRow(r, query, had, blind')
      <3> SUFFICES ASSUME Matches(query, r) PROVE SoundRow(r, query, had, blind')
        OBVIOUS
      <3>1. query \in Queries
        BY DEF QueryInv, TypeOK
      <3>2. query.op = "images" =>
              /\ \A k \in DOMAIN query.labels :
                   query.labels[k] # Unset => Details[c.digest].labels[k] = query.labels[k]
              /\ query.platforms \subseteq Details[c.digest].platforms
        BY <1>2, <3>1, MatchesTrue
      <3>3. f = TRUE \/ c.tag \in blind'
        BY <1>1
      <3>4. QED
        BY <1>2, <1>3, <3>2, <3>3 DEF SoundRow
    <2>2. blind \subseteq blind'
      BY <1>1
    <2>3. \A x \in rows : SoundRow(x, query, had, blind')
      BY <2>2 DEF QueryInv, Sound, SoundRow
    <2>4. \A x \in rows' : SoundRow(x, query, had, blind')
      BY <1>1, <2>1, <2>3
    <2>5. QED
      BY <1>4, <2>4 DEF Sound, SoundRow
  <1>7. Complete' /\ FailuresTrue'
    BY <1>4 DEF Complete, FailuresTrue
  <1>8. \A s \in Tags, d \in Digests :
          Steady(s, d)' => s \in todo' \/ Reported(s, d, TRUE) \in rows'
    <2> SUFFICES ASSUME NEW s \in Tags, NEW d \in Digests, Steady(s, d)'
                 PROVE  s \in todo' \/ Reported(s, d, TRUE) \in rows'
      OBVIOUS
    <2>1. Steady(s, d) /\ s \notin blind' /\ Matches(query, Reported(s, d, TRUE))
      BY <1>1, <1>4 DEF Steady
    <2>2. \/ s \in todo
          \/ [tag |-> s, digest |-> d] = c
          \/ Reported(s, d, TRUE) \in rows
      BY <1>2, <1>4, <2>1 DEF QueryInv, Reading
    <2>3. CASE [tag |-> s, digest |-> d] = c
      <3>1. c.tag = s /\ c.digest = d
        BY <2>3
      <3>2. f = TRUE
        BY <1>1, <2>1, <3>1
      <3>3. QED
        BY <1>1, <2>1, <3>1, <3>2
    <2>4. QED
      BY <1>1, <1>4, <2>2, <2>3
  <1>9. QED
    BY <1>4, <1>5, <1>6, <1>7, <1>8 DEF QueryInv, Reading

\* The end of the read.
LEMMA FinishInv == QueryInv /\ Finish => QueryInv'
  <1> SUFFICES ASSUME QueryInv, Finish PROVE QueryInv'
    OBVIOUS
  <1>1. rows' \subseteq rows /\ (~query.recent => rows' = rows)
    BY DEF Finish, Newest
  <1>2. /\ pc = "next" /\ todo = {} /\ resolving = {} /\ pc' = "done" /\ outcome' = "ok"
        /\ UNCHANGED <<registry, had, changes, query, todo, resolving, blind, trouble>>
    BY DEF Finish, End, outside, QueryInv
  <1>3. TypeOK'
    BY <1>1, <1>2 DEF QueryInv, TypeOK
  <1>4. Sound' /\ FailuresTrue'
    BY <1>1, <1>2 DEF QueryInv, Sound, FailuresTrue
  <1>5. Complete'
    BY <1>1, <1>2 DEF QueryInv, Complete, Reading, Steady
  <1>6. QED
    BY <1>2, <1>3, <1>4, <1>5 DEF QueryInv, Reading

\* QueryInv is inductive.
LEMMA QueryNextInv == QueryInv /\ [Next]_vars => QueryInv'
  <1> SUFFICES ASSUME QueryInv, [Next]_vars PROVE QueryInv'
    OBVIOUS
  <1>1. CASE Next
    BY <1>1, StartInv, ListInv, FailInv, FetchInv, FinishInv, ChangeInv, GetInv,
       GetNotFoundInv DEF Next
  <1>2. CASE UNCHANGED vars
    BY <1>2 DEF vars, outside, QueryInv, TypeOK, Sound, Complete, FailuresTrue, Reading, Steady
  <1>3. QED
    BY <1>1, <1>2

\* The invariant holds in every behaviour.
THEOREM QueryInvariant == Spec => []QueryInv
  BY QueryInitInv, QueryNextInv, PTL DEF Spec

\* The variables keep their types.
THEOREM QueryTypeCorrect == Spec => []TypeOK
  <1>1. QueryInv => TypeOK
    BY DEF QueryInv
  <1>2. QED
    BY <1>1, QueryInvariant, PTL

\* An image that is reported was there, with the details of its own manifest.
THEOREM SoundAlways == Spec => []Sound
  <1>1. QueryInv => Sound
    BY DEF QueryInv
  <1>2. QED
    BY <1>1, QueryInvariant, PTL

\* A listing that succeeds misses no image that stays and meets the query.
THEOREM CompleteAlways == Spec => []Complete
  <1>1. QueryInv => Complete
    BY DEF QueryInv
  <1>2. QED
    BY <1>1, QueryInvariant, PTL

\* A read fails for a cause.
THEOREM FailuresTrueAlways == Spec => []FailuresTrue
  <1>1. QueryInv => FailuresTrue
    BY DEF QueryInv
  <1>2. QED
    BY <1>1, QueryInvariant, PTL

-----------------------------------------------------------------------------
(***************************************************************************)
(* Ranked, and with it LatestDated.  Rows are found one at a time, so that *)
(* one of them comes before all others needs no induction over their set.  *)
(***************************************************************************)

\* Of two rows one comes before the other, and Before is transitive.
LEMMA BeforeOrders ==
  /\ \A r, o \in Row : Before(r, o) \/ Before(o, r)
  /\ \A r, o, p \in Row : Before(r, o) /\ Before(o, p) => Before(r, p)
  /\ \A r, o \in Row : Before(r, o) /\ Before(o, r) => r.tag = o.tag
  <1>1. \A r \in Row : r.tag \in Nat /\ r.created \in Nat
    BY QueryAssumption DEF Row
  <1>2. QED
    BY <1>1 DEF Before

\* A step that neither finds a row nor ends the read.
LEMMA RankedKept ==
  ASSUME Ranked, rows' = rows, outcome' # "ok",
         Reading' =>
           /\ \A r \in rows : r.tag \notin todo'
           /\ \A c \in resolving' :
                /\ c.tag \notin todo'
                /\ \A r \in rows : r.tag # c.tag
  PROVE  Ranked'
  BY DEF Ranked, LatestDated

\* A descriptor is fetched of a tag that has no row yet.
LEMMA GetRanked ==
  ASSUME QueryInv, Ranked, NEW t \in Tags, Get(t)
  PROVE  Ranked'
  <1>1. /\ resolving' = {[tag |-> t, digest |-> registry[t]]} /\ todo' = todo \ {t}
        /\ t \in todo /\ rows' = rows /\ outcome' = outcome /\ Reading
    BY DEF Get, Reading
  <1>2. outcome' # "ok"
    BY <1>1 DEF QueryInv
  <1>3. \A r \in rows : r.tag \notin todo
    BY <1>1 DEF Ranked
  <1>4. \A c \in resolving' : c.tag = t
    BY <1>1
  <1>5. QED
    BY <1>1, <1>2, <1>3, <1>4, RankedKept

\* The row that is found is the first of its tag; of it and the row that came
\* first so far, one now comes first.
LEMMA FetchRanked ==
  ASSUME QueryInv, QueryInv', Ranked, FetchDetails
  PROVE  Ranked'
  <1>1. PICK c \in resolving, f \in BOOLEAN :
          rows' = IF Matches(query, Reported(c.tag, c.digest, f))
                    THEN rows \cup {Reported(c.tag, c.digest, f)} ELSE rows
    BY DEF FetchDetails
  <1> DEFINE new == Reported(c.tag, c.digest, f)
  <1>2. c.tag \in Tags /\ c.digest \in Digests
    BY DEF QueryInv, TypeOK
  <1>3. new \in Row /\ new.tag = c.tag
    BY <1>2, ReportedType
  <1>4. /\ Reading /\ Reading' /\ outcome' # "ok"
        /\ resolving' = {} /\ todo' = todo
    BY DEF FetchDetails, Reading, QueryInv
  <1>5. /\ c.tag \notin todo
        /\ \A r \in rows : r.tag # c.tag /\ r.tag \notin todo
    BY <1>4 DEF Ranked
  <1>6. rows \subseteq Row
    BY DEF QueryInv, TypeOK
  <1> HIDE DEF new
  <1>7. rows' = rows \/ rows' = rows \cup {new}
    BY <1>1 DEF new
  <1>8. CASE rows' = rows
    BY <1>4, <1>5, <1>8, RankedKept
  <1>9. CASE rows' = rows \cup {new}
    <2>1. \A q, r \in rows' : q.tag = r.tag => q = r
      BY <1>3, <1>5, <1>9 DEF Ranked
    <2>2. \A r \in rows' : r.tag \notin todo'
      BY <1>3, <1>4, <1>5, <1>9
    <2>3. \E r \in rows' : \A o \in rows' : Before(r, o)
      <3>1. Before(new, new)
        BY <1>3, BeforeOrders
      <3>2. CASE rows = {}
        BY <1>9, <3>1, <3>2
      <3>3. CASE rows # {}
        <4>1. PICK r \in rows : \A o \in rows : Before(r, o)
          BY <3>3 DEF Ranked
        <4>2. CASE Before(r, new)
          BY <1>9, <4>1, <4>2
        <4>3. CASE Before(new, r)
          BY <1>3, <1>6, <1>9, <3>1, <4>1, <4>3, BeforeOrders
        <4>4. QED
          BY <1>3, <1>6, <4>2, <4>3, BeforeOrders
      <3>4. QED
        BY <3>2, <3>3
    <2>4. LatestDated'
      BY <1>4 DEF LatestDated
    <2>5. QED
      BY <1>4, <2>1, <2>2, <2>3, <2>4 DEF Ranked
  <1>10. QED
    BY <1>7, <1>8, <1>9

\* Every manifest has a date or none, and a row no other than its manifest's.
LEMMA DetailDated == \A d \in Digests : Details[d].made \in Nat
  BY QueryAssumption DEF Detail

LEMMA RowDated ==
  ASSUME QueryInv, NEW r \in rows
  PROVE  r.created <= Details[r.digest].made
  <1>1. /\ r.digest \in Digests
        /\ \E f \in BOOLEAN : r = Reported(r.tag, r.digest, f)
    BY DEF QueryInv, TypeOK, Row, Sound
  <1>2. \E f \in BOOLEAN : r.created = Reported(r.tag, r.digest, f).created
    BY <1>1
  <1>3. r.created \in {0, Details[r.digest].made}
    BY <1>2 DEF Reported
  <1>4. QED
    BY <1>1, <1>3, DetailDated

\* At the end one row is left, and it comes before every image that stays.
LEMMA FinishRanked ==
  ASSUME QueryInv, Ranked, Finish
  PROVE  Ranked'
  <1>1. /\ Reading /\ todo = {} /\ resolving = {} /\ ~Reading' /\ outcome' = "ok"
        /\ rows' = IF query.recent THEN Newest(rows) ELSE rows
        /\ UNCHANGED <<had, query, blind>>
    BY DEF Finish, End, Reading, QueryInv, outside
  <1>2. rows \subseteq Row /\ rows' \subseteq rows
    BY <1>1 DEF QueryInv, TypeOK, Newest
  <1>3. \A q, r \in rows' : q.tag = r.tag => q = r
    BY <1>2 DEF Ranked
  <1>4. CASE ~query.recent
    <2>1. rows' = rows /\ LatestDated'
      BY <1>1, <1>4 DEF LatestDated
    <2>2. QED
      BY <1>1, <1>3, <2>1 DEF Ranked
  <1>5. CASE query.recent
    <2>1. \A r \in rows' : \A o \in rows : Before(r, o)
      BY <1>1, <1>5 DEF Newest
    <2>2. rows # {} => rows' # {}
      BY <1>1, <1>5 DEF Ranked, Newest
    <2>3. \A q, r \in rows' : q = r
      BY <1>2, <1>3, <2>1, BeforeOrders
    <2>4. ASSUME NEW t \in Tags, NEW d \in Digests, Steady(t, d)'
          PROVE  \E r \in rows' :
                   Details[d].made <= Details[r.digest].made \/ DateUnread(d)
      <3>1. Steady(t, d)
        BY <1>1, <2>4 DEF Steady
      <3>2. Reported(t, d, TRUE) \in rows
        BY <1>1, <3>1 DEF QueryInv
      <3> DEFINE o == Reported(t, d, TRUE)
      <3>3. ~DateUnread(d) => o.created = Details[d].made
        BY DEF Reported, DateUnread
      <3> HIDE DEF o
      <3>4. PICK r \in rows' : Before(r, o)
        BY <2>1, <2>2, <3>2 DEF o
      <3>5. r.created \in Nat /\ o.created \in Nat
        BY <1>2, <3>2 DEF Row, o
      <3>6. r.created >= o.created
        BY <3>4, <3>5 DEF Before
      <3>7. r.created <= Details[r.digest].made
        BY <1>2, RowDated
      <3>8. Details[r.digest].made \in Nat /\ Details[d].made \in Nat
        BY <1>2, DetailDated DEF Row
      <3>9. QED
        BY <3>3, <3>5, <3>6, <3>7, <3>8
    <2>5. LatestDated'
      BY <2>3, <2>4 DEF LatestDated
    <2>6. \A r \in rows' : \A o \in rows' : Before(r, o)
      BY <1>2, <2>1
    <2>7. QED
      BY <1>1, <1>3, <2>5, <2>6 DEF Ranked
  <1>6. QED
    BY <1>4, <1>5

LEMMA RankedNext == QueryInv /\ QueryInv' /\ Ranked /\ [Next]_vars => Ranked'
  <1> SUFFICES ASSUME QueryInv, QueryInv', Ranked, [Next]_vars PROVE Ranked'
    OBVIOUS
  <1>1. CASE Start
    BY <1>1 DEF Start, Ranked, LatestDated
  <1>2. CASE List
    <2>1. rows = {} /\ rows' = {} /\ resolving' = {} /\ outcome' # "ok"
      BY <1>2 DEF List, End, QueryInv
    <2>2. QED
      BY <2>1, RankedKept
  <1>3. CASE Fail
    BY <1>3, RankedKept DEF Fail, End, Reading
  <1>4. CASE FetchDetails
    BY <1>4, FetchRanked
  <1>5. CASE Finish
    BY <1>5, FinishRanked
  <1>6. ASSUME NEW t \in Tags, Change(t)
        PROVE  Ranked'
    <2>1. outcome' # "ok" /\ UNCHANGED <<pc, todo, resolving, rows>>
      BY <1>6 DEF Change, QueryInv, Reading
    <2>2. QED
      BY <2>1, RankedKept DEF Ranked, Reading
  <1>7. ASSUME NEW t \in Tags, Get(t)
        PROVE  Ranked'
    BY <1>7, GetRanked
  <1>8. ASSUME NEW t \in Tags, GetNotFound(t)
        PROVE  Ranked'
    <2>1. /\ Reading /\ resolving' = {} /\ rows' = rows /\ outcome' # "ok"
          /\ todo' \subseteq todo
      BY <1>8 DEF GetNotFound, End, QueryInv, Reading, outside
    <2>2. QED
      BY <2>1, RankedKept DEF Ranked
  <1>9. CASE UNCHANGED vars
    BY <1>9 DEF vars, outside, Ranked, Reading, LatestDated, Steady
  <1>10. QED
    BY <1>1, <1>2, <1>3, <1>4, <1>5, <1>6, <1>7, <1>8, <1>9 DEF Next

\* Ranked holds in every behaviour.
THEOREM RankedInvariant == Spec => []Ranked
  <1>1. Init => Ranked
    BY DEF Init, Ranked, Reading, LatestDated
  <1>2. QED
    BY <1>1, QueryInvariant, RankedNext, PTL DEF Spec

(***************************************************************************)
(* most_recent_only reports one image at most, and one if any stays and    *)
(* meets the query; none that stays was created later, save an index.      *)
(***************************************************************************)
THEOREM LatestDatedAlways == Spec => []LatestDated
  <1>1. Ranked => LatestDated
    BY DEF Ranked
  <1>2. QED
    BY <1>1, RankedInvariant, PTL

=============================================================================
