-------------------------- MODULE DiscoveryProofs ---------------------------
(***************************************************************************)
(* Proofs about Discovery for every list of sockets, set of setups and     *)
(* number of daemons that come and go: a resolution contacts only hosts    *)
(* that its setup lists, failed probes leave no connection open, and the   *)
(* first host in the announced order that is up throughout is not missed.  *)
(***************************************************************************)
EXTENDS Discovery, FiniteSetTheorems, SequenceTheorems, TLAPS

USE DiscoveryAssumption

InSeq(h, q) == \E i \in DOMAIN q : q[i] = h

\* What occurs in a part of a concatenation occurs in the whole.
LEMMA InConcat ==
  ASSUME NEW S, NEW q \in Seq(S), NEW r \in Seq(S), NEW h,
         InSeq(h, q) \/ InSeq(h, r)
  PROVE  InSeq(h, q \o r)
<1>1. CASE InSeq(h, q)
  <2>1. PICK i \in DOMAIN q : q[i] = h
    BY <1>1 DEF InSeq
  <2>2. i \in DOMAIN (q \o r) /\ (q \o r)[i] = h
    BY <2>1
  <2>3. QED
    BY <2>2 DEF InSeq
<1>2. CASE InSeq(h, r)
  <2>1. PICK i \in DOMAIN r : r[i] = h
    BY <1>2 DEF InSeq
  <2>2. Len(q) + i \in DOMAIN (q \o r) /\ (q \o r)[Len(q) + i] = h
    BY <2>1
  <2>3. QED
    BY <2>2 DEF InSeq
<1>3. QED
  BY <1>1, <1>2

\* What holds of the elements of two parts holds of those of the whole.
LEMMA ConcatElements ==
  ASSUME NEW S, NEW q \in Seq(S), NEW r \in Seq(S), NEW T,
         \A i \in DOMAIN q : q[i] \in T, \A i \in DOMAIN r : r[i] \in T
  PROVE  q \o r \in Seq(S) /\ \A i \in DOMAIN (q \o r) : (q \o r)[i] \in T
<1>1. q \o r \in Seq(S)
  OBVIOUS
<1>2. ASSUME NEW i \in DOMAIN (q \o r)
      PROVE  (q \o r)[i] \in T
  <2>1. CASE i <= Len(q)
    BY <2>1
  <2>2. CASE i > Len(q)
    <3>1. i - Len(q) \in DOMAIN r /\ (q \o r)[i] = r[i - Len(q)]
      BY <2>2
    <3>2. QED
      BY <3>1
  <2>3. QED
    BY <2>1, <2>2
<1>3. QED
  BY <1>1, <1>2

Candidates == [host : Hosts, ok : BOOLEAN]

LEMMA CandidateType ==
  ASSUME NEW h \in Hosts, NEW b \in BOOLEAN
  PROVE  [host |-> h, ok |-> b] \in Candidates
BY DEF Candidates

LEMMA CandidateFields ==
  ASSUME NEW h, NEW b \in BOOLEAN
  PROVE  [host |-> h, ok |-> b].host = h /\ ([host |-> h, ok |-> b].ok <=> b)
OBVIOUS

\* The candidates that may be dialled because the setup lists their hosts.
Allowed(s) == {c \in Candidates : c.ok => Listed(s, c.host)}

DiscoveringBy(s) == Explicit(s) = "none" /\ s.embedded # "force" /\ s.autodiscover

LEMMA OrderOfDockerHost ==
  ASSUME NEW s \in Setup, DiscoveringBy(s), s.dockerHost # "none"
  PROVE  Listed(s, s.dockerHost)
<1>1. s.dockerHost \in Endpoints
  BY DEF Setup, Hosts
<1>2. Order(s) = <<s.dockerHost>> \o LocalSockets
  BY DEF Order, DockerOrder, DiscoveringBy
<1>3. InSeq(s.dockerHost, <<s.dockerHost>>)
  BY DEF InSeq
<1>4. <<s.dockerHost>> \in Seq(Endpoints) /\ LocalSockets \in Seq(Endpoints)
  BY <1>1
<1>5. InSeq(s.dockerHost, <<s.dockerHost>> \o LocalSockets)
  BY <1>3, <1>4, InConcat
<1>6. QED
  BY <1>2, <1>5 DEF InSeq, Listed

LEMMA OrderOfSockets ==
  ASSUME NEW s \in Setup, DiscoveringBy(s), NEW h, InSeq(h, LocalSockets)
  PROVE  Listed(s, h)
<1>1. DockerOrder(s) \in Seq(Endpoints)
  BY DEF DockerOrder, Setup, Hosts
<1>2. Order(s) = DockerOrder(s) \o LocalSockets
  BY DEF Order, DiscoveringBy
<1>3. InSeq(h, Order(s))
  BY <1>1, <1>2, InConcat
<1>4. QED
  BY <1>3 DEF InSeq, Listed

\* Whatever is in docker's part of the order is listed.
LEMMA OrderOfDocker ==
  ASSUME NEW s \in Setup, DiscoveringBy(s), NEW h, InSeq(h, DockerOrder(s))
  PROVE  Listed(s, h)
<1>1. DockerOrder(s) \in Seq(Endpoints)
  BY DEF DockerOrder, Setup, Hosts
<1>2. Order(s) = DockerOrder(s) \o LocalSockets
  BY DEF Order, DiscoveringBy
<1>3. InSeq(h, Order(s))
  BY <1>1, <1>2, InConcat
<1>4. QED
  BY <1>3 DEF InSeq, Listed

\* Only listed hosts are listed by the order: all are endpoints.
LEMMA ListedEndpoints ==
  ASSUME NEW s \in Setup, NEW h, Listed(s, h)
  PROVE  h \in Endpoints
<1>1. DockerOrder(s) \in Seq(Endpoints)
  BY DEF DockerOrder, Setup, Hosts
<1>2. Order(s) \in Seq(Endpoints)
  BY <1>1 DEF Order, Explicit, Setup, Hosts
<1>3. QED
  BY <1>2 DEF Listed

LEMMA ContextAllowed ==
  ASSUME NEW s \in Setup, NEW name \in Names, name # "none",
         name = s.dockerContext /\ s.dockerHost = "none" /\ DiscoveringBy(s)
  PROVE  ContextCandidate(s, name) \in Allowed(s)
<1>1. ContextCandidate(s, name) \in Candidates
  BY DEF ContextCandidate, Candidate, Candidates, Setup, Hosts
<1>2. ASSUME ContextCandidate(s, name).ok
      PROVE  Listed(s, ContextCandidate(s, name).host)
  <2>1. DockerOrder(s) = <<ContextCandidate(s, name).host>>
    BY <1>2 DEF ContextCandidate, Candidate, DockerOrder, Setup, Names
  <2>2. InSeq(ContextCandidate(s, name).host, DockerOrder(s))
    BY <2>1 DEF InSeq
  <2>3. QED
    BY <2>2, OrderOfDocker
<1>3. QED
  BY <1>1, <1>2 DEF Allowed

\* The part of docker's order that the current context names.
ContextPart(s) ==
  IF s.currentContext = "default" THEN <<DefaultSocket>>
  ELSE IF s.currentContext = "none" \/ s.work.host = "none" \/ s.work.tls THEN <<>>
  ELSE <<s.work.host>>

LEMMA AllCandidatesAllowed ==
  ASSUME NEW s \in Setup, NEW st, DiscoveringBy(s),
         s.dockerHost = "none", s.dockerContext = "none"
  PROVE  /\ AllCandidates(s, st) \in Seq(Candidates)
         /\ \A i \in DOMAIN AllCandidates(s, st) : AllCandidates(s, st)[i] \in Allowed(s)
<1> DEFINE front == FromCurrentContext(s)
           default == <<Candidate(DefaultSocket)>>
           user == UserCandidates(st)
           all == front \o default \o user
<1>1. /\ ContextPart(s) \in Seq(Endpoints)
      /\ DockerOrder(s) = ContextPart(s) \o <<DefaultSocket>> \o UserSockets
  BY DEF ContextPart, DockerOrder, Setup, Hosts, Names
<1>2. front \in Seq(Candidates) /\ \A i \in DOMAIN front : front[i] \in Allowed(s)
  <2>1. CASE s.currentContext \in {"none", "default"}
    BY <2>1 DEF FromCurrentContext
  <2>2. CASE s.currentContext = "work"
    <3> DEFINE c == ContextCandidate(s, "work")
    <3>1. front = <<c>>
      BY <2>2 DEF FromCurrentContext
    <3>2. c = [host |-> s.work.host, ok |-> s.work.host # "none" /\ ~s.work.tls]
      BY DEF ContextCandidate
    <3>3. c \in Candidates
      <4>1. s.work.host \in Hosts
        BY DEF Setup
      <4>2. (s.work.host # "none" /\ ~s.work.tls) \in BOOLEAN
        OBVIOUS
      <4>3. QED
        BY <3>2, <4>1, <4>2, CandidateType
    <3>4. ASSUME c.ok PROVE Listed(s, c.host)
      <4>1. ContextPart(s) = <<c.host>>
        <5> DEFINE usable == s.work.host # "none" /\ ~s.work.tls
        <5>1. usable \in BOOLEAN /\ c = [host |-> s.work.host, ok |-> usable]
          BY <3>2
        <5> HIDE DEF c, usable
        <5>2. c.host = s.work.host /\ usable
          BY <3>4, <5>1, CandidateFields
        <5>3. QED
          BY <2>2, <5>2 DEF ContextPart, usable
      <4>2. InSeq(c.host, ContextPart(s))
        BY <4>1 DEF InSeq
      <4>3. InSeq(c.host, ContextPart(s) \o <<DefaultSocket>>)
        <5>1. <<DefaultSocket>> \in Seq(Endpoints)
          OBVIOUS
        <5>2. QED
          BY <1>1, <4>2, <5>1, InConcat
      <4>4. ContextPart(s) \o <<DefaultSocket>> \in Seq(Endpoints)
        BY <1>1
      <4>5. InSeq(c.host, DockerOrder(s))
        BY <1>1, <4>3, <4>4, InConcat
      <4>6. QED
        BY <4>5, OrderOfDocker
    <3>5. c \in Allowed(s)
      BY <3>3, <3>4 DEF Allowed
    <3>6. QED
      BY <3>1, <3>3, <3>5
  <2>3. QED
    BY <2>1, <2>2 DEF Setup, Names
<1>3. default \in Seq(Candidates) /\ \A i \in DOMAIN default : default[i] \in Allowed(s)
  <2>1. InSeq(DefaultSocket, <<DefaultSocket>>)
    BY DEF InSeq
  <2>2. <<DefaultSocket>> \in Seq(Endpoints)
    OBVIOUS
  <2>3. InSeq(DefaultSocket, ContextPart(s) \o <<DefaultSocket>>)
    BY <1>1, <2>1, <2>2, InConcat
  <2>4. ContextPart(s) \o <<DefaultSocket>> \in Seq(Endpoints)
    BY <1>1
  <2>5. InSeq(DefaultSocket, DockerOrder(s))
    BY <1>1, <2>3, <2>4, InConcat
  <2>6. Listed(s, DefaultSocket)
    BY <2>5, OrderOfDocker
  <2>7. Candidate(DefaultSocket) \in Candidates
    BY CandidateType DEF Candidate, Hosts
  <2>8. Candidate(DefaultSocket).host = DefaultSocket
    BY DEF Candidate
  <2>9. Candidate(DefaultSocket) \in Allowed(s)
    BY <2>6, <2>7, <2>8 DEF Allowed
  <2>10. QED
    BY <2>7, <2>9
<1>4. user \in Seq(Candidates) /\ \A i \in DOMAIN user : user[i] \in Allowed(s)
  <2>1. user \in Seq(Candidates)
    <3> DEFINE candidate(i) == [host |-> UserSockets[i], ok |-> st[UserSockets[i]] # "absent"]
    <3>1. ASSUME NEW i \in DOMAIN UserSockets
          PROVE  candidate(i) \in Candidates
      <4>1. UserSockets[i] \in Hosts /\ (st[UserSockets[i]] # "absent") \in BOOLEAN
        BY DEF Hosts
      <4>2. QED
        BY <4>1, CandidateType
    <3>2. user = [i \in DOMAIN UserSockets |-> candidate(i)]
      BY DEF UserCandidates
    <3> HIDE DEF candidate
    <3>3. user \in [DOMAIN UserSockets -> Candidates]
      BY <3>1, <3>2
    <3>4. DOMAIN UserSockets = 1 .. Len(UserSockets) /\ Len(UserSockets) \in Nat
      OBVIOUS
    <3> HIDE DEF user
    <3>5. QED
      BY <3>3, <3>4
  <2>2. ASSUME NEW i \in DOMAIN UserSockets
        PROVE  user[i] \in Allowed(s)
    <3>1. InSeq(UserSockets[i], UserSockets)
      BY DEF InSeq
    <3>2. ContextPart(s) \o <<DefaultSocket>> \in Seq(Endpoints)
      BY <1>1
    <3>3. InSeq(UserSockets[i], DockerOrder(s))
      BY <1>1, <3>1, <3>2, InConcat
    <3>4. Listed(s, UserSockets[i])
      BY <3>3, OrderOfDocker
    <3>5. QED
      BY <3>4 DEF UserCandidates, Candidates, Allowed, Hosts
  <2>3. QED
    BY <2>1, <2>2 DEF UserCandidates
<1>5. /\ front \o default \in Seq(Candidates)
      /\ \A i \in DOMAIN (front \o default) : (front \o default)[i] \in Allowed(s)
  BY <1>2, <1>3, ConcatElements
<1>6. all \in Seq(Candidates) /\ \A i \in DOMAIN all : all[i] \in Allowed(s)
  BY <1>4, <1>5, ConcatElements
<1>7. AllCandidates(s, st) = Deduplicated(all)
  BY DEF AllCandidates
<1> HIDE DEF all
<1>8. /\ DOMAIN Deduplicated(all) = 1 .. Len(all)
      /\ \A i \in DOMAIN all :
           /\ Deduplicated(all)[i].host = all[i].host
           /\ Deduplicated(all)[i] \in Candidates
           /\ Deduplicated(all)[i].ok => all[i].ok
  <2>1. DOMAIN all = 1 .. Len(all)
    BY <1>6
  <2>2. DOMAIN Deduplicated(all) = DOMAIN all
    BY DEF Deduplicated
  <2>3. ASSUME NEW i \in DOMAIN all
        PROVE  /\ Deduplicated(all)[i].host = all[i].host
               /\ Deduplicated(all)[i] \in Candidates
               /\ Deduplicated(all)[i].ok => all[i].ok
    <3> DEFINE first == all[i].host = "none"
                          \/ \A j \in 1 .. i - 1 : all[j].host # all[i].host
    <3>1. Deduplicated(all)[i] = [host |-> all[i].host, ok |-> all[i].ok /\ first]
      BY Zenon DEF Deduplicated
    <3>2. all[i] \in Candidates
      BY <1>6, <2>1
    <3>3. all[i].host \in Hosts
      BY <3>2 DEF Candidates
    <3>4. (all[i].ok /\ first) \in BOOLEAN
      OBVIOUS
    <3> HIDE DEF first
    <3>5. Deduplicated(all)[i] \in Candidates
      BY <3>1, <3>3, <3>4, CandidateType
    <3>6. Deduplicated(all)[i].host = all[i].host /\ (Deduplicated(all)[i].ok => all[i].ok)
      BY <3>1, <3>4, CandidateFields
    <3>7. QED
      BY <3>5, <3>6
  <2>4. QED
    BY <2>1, <2>2, <2>3
<1>9. Deduplicated(all) \in Seq(Candidates)
  BY <1>6, <1>8 DEF Deduplicated
<1>10. ASSUME NEW i \in DOMAIN Deduplicated(all)
       PROVE  Deduplicated(all)[i] \in Allowed(s)
  BY <1>6, <1>8 DEF Allowed
<1>11. QED
  BY <1>7, <1>9, <1>10

\* Every candidate that docker's part of the discovery may dial is listed.
LEMMA DockerCandidatesAllowed ==
  ASSUME NEW s \in Setup, NEW st, DiscoveringBy(s)
  PROVE  /\ DockerCandidates(s, st) \in Seq(Candidates)
         /\ \A i \in DOMAIN DockerCandidates(s, st) :
              DockerCandidates(s, st)[i] \in Allowed(s)
<1>1. CASE s.dockerHost # "none"
  <2>1. Candidate(s.dockerHost) \in Allowed(s)
    BY <1>1, OrderOfDockerHost DEF Candidate, Candidates, Allowed, Setup
  <2>2. QED
    BY <1>1, <2>1 DEF DockerCandidates, Allowed
<1>2. CASE s.dockerHost = "none" /\ s.dockerContext # "none"
  <2>1. ContextCandidate(s, s.dockerContext) \in Allowed(s)
    BY <1>2, ContextAllowed DEF Setup
  <2>2. QED
    BY <1>2, <2>1 DEF DockerCandidates, Allowed
<1>3. CASE s.dockerHost = "none" /\ s.dockerContext = "none"
  BY <1>3, AllCandidatesAllowed DEF DockerCandidates
<1>4. QED
  BY <1>1, <1>2, <1>3

-----------------------------------------------------------------------------
LEMMA InitInv == Init => DiscoveryInv
<1>1. SUFFICES ASSUME Init PROVE DiscoveryInv
  OBVIOUS
<1>2. queue = <<>> /\ open = {} /\ dialled = {} /\ pc = "start" /\ answer = "none"
  BY <1>1 DEF Init
<1>3. TypeOK
  BY <1>1 DEF Init, TypeOK, Hosts, UpIn
<1>4. Hermetic /\ OnlyAnswerOpen
  BY <1>2 DEF Hermetic, OnlyAnswerOpen
<1>5. QED
  BY <1>2, <1>3, <1>4 DEF DiscoveryInv

\* The setup of a state that satisfies the invariant is a setup.
LEMMA SetupOf ==
  ASSUME DiscoveryInv
  PROVE  setup \in Setup /\ queue \in Seq(Candidates) /\ (Discovering <=> DiscoveringBy(setup))
BY DEF DiscoveryInv, TypeOK, Candidates, Discovering, DiscoveringBy

\* A dial that fails leaves nothing open and goes on with the next candidate.
LEMMA FailedStep ==
  ASSUME DiscoveryInv, pc \in {"ping", "validate"}, Failed, steady' \subseteq steady
  PROVE  DiscoveryInv'
<1> USE DEF Failed, Answer
<1>1. pc' \in {"done", "docker", "local"}
  BY DEF DiscoveryInv, TypeOK
<1>2. TypeOK'
  BY <1>1 DEF DiscoveryInv, TypeOK
<1>3. Hermetic' /\ OnlyAnswerOpen'
  BY <1>1 DEF DiscoveryInv, Hermetic, OnlyAnswerOpen
<1>4. pc' \in {"docker", "local"} => Discovering'
  BY <1>1 DEF DiscoveryInv, Discovering
<1>5. pc' = "local" => \A i \in DOMAIN queue' : queue'[i].ok
  BY DEF DiscoveryInv, TypeOK
<1>6. QED
  BY <1>1, <1>2, <1>3, <1>4, <1>5 DEF DiscoveryInv

-----------------------------------------------------------------------------
\* Dialling a listed endpoint of BuildKit keeps the invariant.
LEMMA DialDirectStep ==
  ASSUME DiscoveryInv, NEW h \in Endpoints, Listed(setup, h),
         NEW for \in {"explicit", "local"}, DialDirect(h, for),
         UNCHANGED <<outside, answer>>,
         for = "local" => Discovering /\ pc = "local",
         for = "explicit" => h = Explicit(setup),
         queue' \in Seq(Candidates),
         \A i \in DOMAIN queue' : queue'[i].ok => Listed(setup, queue'[i].host),
         for = "local" => \A i \in DOMAIN queue' : queue'[i].ok
  PROVE  DiscoveryInv'
<1> USE DEF DialDirect, outside
<1>1. TypeOK'
  BY DEF DiscoveryInv, TypeOK, Candidates, Hosts
<1>2. Hermetic' /\ OnlyAnswerOpen'
  BY DEF DiscoveryInv, Hermetic, OnlyAnswerOpen
<1>3. target' \in Endpoints /\ open' \subseteq {"docker", "buildkit"} \X {target'}
  OBVIOUS
<1>4. phase' = "explicit" \/ Discovering'
  BY DEF Discovering
<1>5. QED
  BY <1>1, <1>2, <1>3, <1>4 DEF DiscoveryInv

\* The head of a queue that holds one, and what holds of its tail.
LEMMA QueueHead ==
  ASSUME DiscoveryInv, queue # <<>>
  PROVE  /\ Head(queue) \in Candidates
         /\ Head(queue).ok => Listed(setup, Head(queue).host)
         /\ Tail(queue) \in Seq(Candidates)
         /\ \A i \in DOMAIN Tail(queue) : Tail(queue)[i].ok => Listed(setup, Tail(queue)[i].host)
         /\ pc = "local" => Head(queue).ok /\ \A i \in DOMAIN Tail(queue) : Tail(queue)[i].ok
<1>1. queue \in Seq(Candidates) /\ Len(queue) \in Nat \ {0}
  BY SetupOf
<1>2. 1 \in DOMAIN queue /\ Head(queue) = queue[1]
  BY <1>1
<1>3. /\ Tail(queue) \in Seq(Candidates)
      /\ \A i \in DOMAIN Tail(queue) : i + 1 \in DOMAIN queue /\ Tail(queue)[i] = queue[i + 1]
  BY <1>1
<1>4. QED
  BY <1>1, <1>2, <1>3 DEF DiscoveryInv

\* Steps that neither dial nor close keep what the invariant says of hosts.
LEMMA ResolveStep == DiscoveryInv /\ Resolve => DiscoveryInv'
<1> SUFFICES ASSUME DiscoveryInv, Resolve PROVE DiscoveryInv'
  OBVIOUS
<1> USE SetupOf
<1>1. CASE UseExplicit
  <2>1. Explicit(setup) \in Endpoints /\ Listed(setup, Explicit(setup))
    <3>1. Order(setup) = <<Explicit(setup)>>
      BY <1>1 DEF UseExplicit, Order
    <3>2. QED
      BY <1>1, <3>1 DEF UseExplicit, Listed, Explicit, Setup, Hosts
  <2>2. QED
    BY <1>1, <2>1, DialDirectStep DEF UseExplicit, DiscoveryInv
<1>2. CASE ForceEmbedded
  <2>1. TypeOK'
    BY <1>2 DEF ForceEmbedded, Answer, outside, DiscoveryInv, TypeOK
  <2>2. Hermetic' /\ OnlyAnswerOpen'
    BY <1>2 DEF ForceEmbedded, Answer, outside, DiscoveryInv, Hermetic, EmbeddedAnyway,
                OnlyAnswerOpen
  <2>3. QED
    BY <1>2, <2>1, <2>2 DEF ForceEmbedded, Answer, outside, DiscoveryInv
<1>3. CASE Discover
  <2>1. CASE setup.autodiscover
    <3>1. DiscoveringBy(setup)
      BY <1>3, <2>1 DEF Discover, DiscoveringBy
    <3>2. /\ queue' \in Seq(Candidates) /\ pc' = "docker"
          /\ \A i \in DOMAIN queue' : queue'[i].ok => Listed(setup, queue'[i].host)
      BY <1>3, <2>1, <3>1, DockerCandidatesAllowed DEF Discover, Allowed
    <3>3. TypeOK'
      BY <1>3, <3>2 DEF Discover, outside, DiscoveryInv, TypeOK, Candidates
    <3>4. Hermetic' /\ OnlyAnswerOpen' /\ Discovering'
      BY <1>3, <3>1, <3>2 DEF Discover, outside, DiscoveryInv, Hermetic, OnlyAnswerOpen,
                              Discovering, DiscoveringBy
    <3>5. QED
      BY <1>3, <3>2, <3>3, <3>4 DEF Discover, outside, DiscoveryInv
  <2>2. CASE ~setup.autodiscover
    <3>1. pc' = "last" /\ queue' = queue
      BY <1>3, <2>2 DEF Discover
    <3>2. TypeOK'
      BY <1>3, <3>1 DEF Discover, outside, DiscoveryInv, TypeOK
    <3>3. Hermetic' /\ OnlyAnswerOpen'
      BY <1>3, <3>1 DEF Discover, outside, DiscoveryInv, Hermetic, OnlyAnswerOpen
    <3>4. QED
      BY <1>3, <3>1, <3>2, <3>3 DEF Discover, outside, DiscoveryInv
  <2>3. QED
    BY <2>1, <2>2
<1>4. CASE DialDocker
  <2>1. Head(queue).host \in Endpoints /\ Listed(setup, Head(queue).host)
    BY <1>4, QueueHead, ListedEndpoints DEF DialDocker
  <2>2. TypeOK'
    BY <1>4, <2>1, QueueHead DEF DialDocker, outside, DiscoveryInv, TypeOK, Candidates, Hosts
  <2>3. Hermetic' /\ OnlyAnswerOpen'
    BY <1>4, <2>1 DEF DialDocker, outside, DiscoveryInv, Hermetic, OnlyAnswerOpen
  <2>4. Discovering'
    BY <1>4 DEF DialDocker, outside, DiscoveryInv, Discovering
  <2>5. target' \in Endpoints /\ open' \subseteq {"docker", "buildkit"} \X {target'}
    BY <1>4, <2>1 DEF DialDocker
  <2>6. \A i \in DOMAIN queue' : queue'[i].ok => Listed(setup, queue'[i].host)
    BY <1>4, QueueHead DEF DialDocker
  <2>7. QED
    BY <1>4, <2>2, <2>3, <2>4, <2>5, <2>6 DEF DialDocker, outside, DiscoveryInv
<1>5. CASE ReportDocker
  <2>1. TypeOK'
    BY <1>5, QueueHead DEF ReportDocker, outside, DiscoveryInv, TypeOK, Candidates
  <2>2. Hermetic' /\ OnlyAnswerOpen' /\ Discovering'
    BY <1>5 DEF ReportDocker, outside, DiscoveryInv, Hermetic, OnlyAnswerOpen, Discovering
  <2>3. QED
    BY <1>5, <2>1, <2>2, QueueHead DEF ReportDocker, outside, DiscoveryInv
<1>6. CASE TurnToLocal
  <2>1. DiscoveringBy(setup)
    BY <1>6 DEF TurnToLocal, DiscoveryInv
  <2>2. ASSUME NEW i \in DOMAIN LocalSockets
        PROVE  /\ Candidate(LocalSockets[i]) \in Candidates
               /\ Listed(setup, Candidate(LocalSockets[i]).host)
               /\ Candidate(LocalSockets[i]).ok
    <3>1. Listed(setup, LocalSockets[i])
      BY <2>1, OrderOfSockets DEF InSeq
    <3>2. QED
      BY <3>1 DEF Candidate, Candidates, Hosts
  <2>3. /\ queue' \in Seq(Candidates)
        /\ \A i \in DOMAIN queue' : queue'[i].ok /\ Listed(setup, queue'[i].host)
    <3>1. queue' \in [DOMAIN LocalSockets -> Candidates]
      BY <1>6, <2>2 DEF TurnToLocal
    <3>2. DOMAIN LocalSockets = 1 .. Len(LocalSockets) /\ Len(LocalSockets) \in Nat
      OBVIOUS
    <3>3. queue' \in Seq(Candidates)
      BY <3>1, <3>2
    <3>4. QED
      BY <1>6, <2>2, <3>3 DEF TurnToLocal
  <2>4. TypeOK'
    BY <1>6, <2>3 DEF TurnToLocal, outside, DiscoveryInv, TypeOK, Candidates
  <2>5. Hermetic' /\ OnlyAnswerOpen' /\ Discovering'
    BY <1>6 DEF TurnToLocal, outside, DiscoveryInv, Hermetic, OnlyAnswerOpen, Discovering
  <2>6. QED
    BY <1>6, <2>3, <2>4, <2>5 DEF TurnToLocal, outside, DiscoveryInv
<1>7. CASE TryLocal
  <2>1. CASE status[Head(queue).host] = "absent"
    <3>1. TypeOK'
      BY <1>7, <2>1, QueueHead DEF TryLocal, outside, DiscoveryInv, TypeOK, Candidates
    <3>2. Hermetic' /\ OnlyAnswerOpen' /\ Discovering'
      BY <1>7, <2>1 DEF TryLocal, outside, DiscoveryInv, Hermetic, OnlyAnswerOpen, Discovering
    <3>3. QED
      BY <1>7, <2>1, <3>1, <3>2, QueueHead DEF TryLocal, outside, DiscoveryInv
  <2>2. CASE status[Head(queue).host] # "absent"
    <3>1. Listed(setup, Head(queue).host) /\ Head(queue).host \in Endpoints
      BY <1>7, QueueHead, ListedEndpoints DEF TryLocal
    <3>2. DialDirect(Head(queue).host, "local") /\ UNCHANGED <<outside, answer>>
      BY <1>7, <2>2 DEF TryLocal
    <3>3. Discovering /\ pc = "local" /\ queue # <<>> /\ queue' = Tail(queue)
      BY <1>7 DEF TryLocal, DiscoveryInv
    <3>4. QED
      BY <3>1, <3>2, <3>3, DialDirectStep, QueueHead
  <2>3. QED
    BY <2>1, <2>2
<1>8. CASE TurnToEmbedded
  <2>1. TypeOK'
    BY <1>8 DEF TurnToEmbedded, outside, DiscoveryInv, TypeOK
  <2>2. Hermetic' /\ OnlyAnswerOpen'
    BY <1>8 DEF TurnToEmbedded, outside, DiscoveryInv, Hermetic, OnlyAnswerOpen
  <2>3. QED
    BY <1>8, <2>1, <2>2 DEF TurnToEmbedded, outside, DiscoveryInv, Discovering
<1>9. CASE LastResort
  <2>1. /\ pc' = "done" /\ answer' \in {"error", "embedded"}
        /\ answer' = "embedded" => setup.embedded = "auto"
    BY <1>9 DEF LastResort, Answer
  <2>2. TypeOK'
    BY <1>9, <2>1 DEF LastResort, outside, DiscoveryInv, TypeOK
  <2>3. Hermetic' /\ OnlyAnswerOpen'
    BY <1>9, <2>1 DEF LastResort, outside, DiscoveryInv, Hermetic, EmbeddedAnyway,
                      OnlyAnswerOpen
  <2>4. QED
    BY <1>9, <2>1, <2>2, <2>3 DEF LastResort, outside, DiscoveryInv
<1>10. CASE PingFails
  BY <1>10, FailedStep DEF PingFails
<1>11. CASE PingAnswered
  <2>1. TypeOK'
    BY <1>11 DEF PingAnswered, outside, DiscoveryInv, TypeOK
  <2>2. Hermetic' /\ OnlyAnswerOpen'
    BY <1>11 DEF PingAnswered, outside, DiscoveryInv, Hermetic, OnlyAnswerOpen
  <2>3. open' \subseteq {"docker", "buildkit"} \X {target'}
    BY <1>11 DEF PingAnswered, DiscoveryInv
  <2>4. QED
    BY <1>11, <2>1, <2>2, <2>3 DEF PingAnswered, outside, DiscoveryInv, Discovering
<1>12. CASE ValidateFails
  BY <1>12, FailedStep DEF ValidateFails
<1>13. CASE Validated
  <2>1. pc' = "done" /\ answer' = target /\ target \in Endpoints
    BY <1>13 DEF Validated, Answer, DiscoveryInv
  <2>2. TypeOK'
    BY <1>13, <2>1 DEF Validated, outside, DiscoveryInv, TypeOK
  <2>3. Hermetic' /\ OnlyAnswerOpen'
    BY <1>13, <2>1, DiscoveryAssumption
       DEF Validated, outside, DiscoveryInv, Hermetic, Discovering, OnlyAnswerOpen
  <2>4. QED
    BY <1>13, <2>1, <2>2, <2>3 DEF Validated, outside, DiscoveryInv
<1>14. CASE NoExplicitClient
  <2>1. TypeOK'
    BY <1>14 DEF NoExplicitClient, NoClientFor, Answer, DiscoveryInv, TypeOK
  <2>2. Hermetic' /\ OnlyAnswerOpen'
    BY <1>14 DEF NoExplicitClient, NoClientFor, Answer, DiscoveryInv, Hermetic, OnlyAnswerOpen
  <2>3. QED
    BY <1>14, <2>1, <2>2 DEF NoExplicitClient, NoClientFor, Answer, DiscoveryInv
<1>15. CASE NoClient
  <2>1. TypeOK'
    BY <1>15, QueueHead DEF NoClient, NoClientFor, DiscoveryInv, TypeOK, Candidates
  <2>2. Hermetic' /\ OnlyAnswerOpen' /\ Discovering'
    BY <1>15 DEF NoClient, NoClientFor, DiscoveryInv, Hermetic, OnlyAnswerOpen, Discovering
  <2>3. QED
    BY <1>15, <2>1, <2>2, QueueHead DEF NoClient, NoClientFor, DiscoveryInv
<1>16. CASE NoHijack
  BY <1>16, FailedStep DEF NoHijack, NoClientFor
<1>17. QED
  BY <1>1, <1>2, <1>3, <1>4, <1>5, <1>6, <1>7, <1>8, <1>9, <1>10, <1>11, <1>12, <1>13,
     <1>14, <1>15, <1>16 DEF Resolve

LEMMA StepInv == DiscoveryInv /\ [Next]_vars => DiscoveryInv'
<1> SUFFICES ASSUME DiscoveryInv, [Next]_vars PROVE DiscoveryInv'
  OBVIOUS
<1>1. CASE Resolve
  BY <1>1, ResolveStep
<1>2. CASE Restart
  <2>1. TypeOK'
    BY <1>2 DEF Restart, DiscoveryInv, TypeOK, UpIn, Hosts
  <2>2. Hermetic' /\ OnlyAnswerOpen'
    BY <1>2 DEF Restart, Hermetic, OnlyAnswerOpen
  <2>3. QED
    BY <1>2, <2>1, <2>2 DEF Restart, DiscoveryInv
<1>3. ASSUME NEW h \in Endpoints, Change(h)
      PROVE  DiscoveryInv'
  <2>1. TypeOK'
    BY <1>3 DEF Change, DiscoveryInv, TypeOK
  <2>2. Hermetic' /\ OnlyAnswerOpen' /\ (Discovering' <=> Discovering)
    BY <1>3 DEF Change, DiscoveryInv, Hermetic, OnlyAnswerOpen, Discovering
  <2>3. QED
    BY <1>3, <2>1, <2>2 DEF Change, DiscoveryInv
<1>4. CASE UNCHANGED vars
  BY <1>4 DEF vars, DiscoveryInv, TypeOK, Hermetic, OnlyAnswerOpen, Discovering
<1>5. QED
  BY <1>1, <1>2, <1>3, <1>4 DEF Next

(***************************************************************************)
(* The invariant of discover.go:74-151 and dockerhost.go:60-137, with its  *)
(* types, for every setup and every list of sockets.                       *)
(***************************************************************************)
THEOREM DiscoveryInvariant == Spec => []DiscoveryInv
<1>1. QED
  BY InitInv, StepInv, PTL DEF Spec

(***************************************************************************)
(* No resolution contacts a daemon its setup rules out.  It starts the     *)
(* embedded one only without an explicit address and where that is not     *)
(* disabled on its own, though also where discovery is.                    *)
(***************************************************************************)
THEOREM HermeticAlways == Spec => []Hermetic
<1>1. DiscoveryInv => Hermetic
  BY DEF DiscoveryInv
<1>2. QED
  BY <1>1, DiscoveryInvariant, PTL

(***************************************************************************)
(* A finished resolution holds the connections of its answer only.         *)
(***************************************************************************)
THEOREM OnlyAnswerOpenAlways == Spec => []OnlyAnswerOpen
<1>1. DiscoveryInv => OnlyAnswerOpen
  BY DEF DiscoveryInv
<1>2. QED
  BY <1>1, DiscoveryInvariant, PTL

-----------------------------------------------------------------------------
(***************************************************************************)
(* FirstInv, and with it FirstSteadyWins.  What has to be known of the     *)
(* candidates is that the first one of a host that is up is not passed     *)
(* over, and that it does not come after candidates the order puts later.  *)
(***************************************************************************)

\* A set of numbers that is not empty has a least one: the intervals below its
\* members are finite, and inclusion of finite sets is well-founded.
LEMMA LeastNumber ==
  ASSUME NEW T, T \subseteq Nat, T # {}
  PROVE  \E n \in T : \A m \in T : n <= m
<1> DEFINE below == {0 .. n : n \in T}
           R == StrictSubsetOrdering(Nat)
<1>1. below \subseteq FiniteSubsetsOf(Nat) /\ below # {}
  <2>1. \A n \in T : IsFiniteSet(0 .. n) /\ 0 .. n \in SUBSET Nat
    BY FS_Interval
  <2>2. QED
    BY <2>1, Zenon DEF FiniteSubsetsOf
<1>2. IsWellFoundedOn(R, FiniteSubsetsOf(Nat))
  BY FS_StrictSubsetOrderingWellFounded
<1> HIDE DEF R
<1>3. PICK x \in below : \A y \in below : ~(<<y, x>> \in R)
  <2> HIDE DEF below
  <2>1. QED
    BY <1>1, <1>2, WFMin
<1>4. PICK n \in T : x = 0 .. n
  OBVIOUS
<1>5. ASSUME NEW m \in T, m < n
      PROVE  FALSE
  <2>1. 0 .. m \in below /\ 0 .. m \subseteq 0 .. n /\ 0 .. m # 0 .. n
    BY <1>5
  <2>2. 0 .. m \in SUBSET Nat /\ 0 .. n \in SUBSET Nat
    OBVIOUS
  <2>3. <<0 .. m, 0 .. n>> \in R
    BY <2>1, <2>2, Zenon DEF R, StrictSubsetOrdering
  <2>4. QED
    BY <1>3, <1>4, <2>1, <2>3
<1>6. QED
  BY <1>5

\* A host of the order up to a place.
UpTo(order, i, h) == \E j \in DOMAIN order : j <= i /\ order[j] = h

\* The candidates before they are deduplicated.
Found(s, st) == FromCurrentContext(s) \o <<Candidate(DefaultSocket)>> \o UserCandidates(st)

\* Element by element: the candidates are the context's, if there is one, the
\* default socket and the user's sockets.
LEMMA UserFound ==
  ASSUME NEW st
  PROVE  /\ UserCandidates(st) \in Seq(Candidates)
         /\ Len(UserCandidates(st)) = Len(UserSockets)
         /\ \A i \in 1 .. Len(UserSockets) :
              /\ UserCandidates(st)[i].host = UserSockets[i]
              /\ UserCandidates(st)[i].ok <=> st[UserSockets[i]] # "absent"
<1> DEFINE candidate(i) == [host |-> UserSockets[i], ok |-> st[UserSockets[i]] # "absent"]
           user == UserCandidates(st)
<1>1. DOMAIN UserSockets = 1 .. Len(UserSockets) /\ Len(UserSockets) \in Nat
  OBVIOUS
<1>2. ASSUME NEW i \in DOMAIN UserSockets
      PROVE  /\ candidate(i) \in Candidates
             /\ candidate(i).host = UserSockets[i]
             /\ candidate(i).ok <=> st[UserSockets[i]] # "absent"
  <2>1. UserSockets[i] \in Hosts /\ (st[UserSockets[i]] # "absent") \in BOOLEAN
    BY DEF Hosts
  <2>2. QED
    BY <2>1, CandidateType, CandidateFields
<1>3. user = [i \in DOMAIN UserSockets |-> candidate(i)]
  BY DEF UserCandidates
<1> HIDE DEF candidate
<1>4. user \in [1 .. Len(UserSockets) -> Candidates]
  BY <1>1, <1>2, <1>3
<1>5. user \in Seq(Candidates) /\ Len(user) = Len(UserSockets)
  <2> HIDE DEF user
  <2>1. QED
    BY <1>1, <1>4
<1>6. \A i \in 1 .. Len(UserSockets) : user[i] = candidate(i)
  BY <1>1, <1>3
<1>7. QED
  BY <1>1, <1>2, <1>5, <1>6

\* The context's candidate is usable, and then the first of the order, or it is
\* only reported, and then of a host that is none or hidden.
LEMMA ContextFound ==
  ASSUME NEW s \in Setup
  PROVE  \/ s.currentContext \in {"none", "default"} /\ FromCurrentContext(s) = <<>>
         \/ /\ s.currentContext = "work"
            /\ FromCurrentContext(s) = <<ContextCandidate(s, "work")>>
            /\ ContextCandidate(s, "work") \in Candidates
            /\ ContextCandidate(s, "work").host = s.work.host
            /\ \/ /\ ContextCandidate(s, "work").ok
                  /\ s.work.host # "none" /\ ~s.work.tls
               \/ /\ ~ContextCandidate(s, "work").ok
                  /\ s.work.host = "none" \/ s.work.host \in Hidden(s)
                  /\ s.work.host = "none" \/ s.work.tls
<1>1. CASE s.currentContext \in {"none", "default"}
  BY <1>1 DEF FromCurrentContext
<1>2. CASE s.currentContext = "work"
  <2> DEFINE usable == s.work.host # "none" /\ ~s.work.tls
             c == ContextCandidate(s, "work")
  <2>1. c = [host |-> s.work.host, ok |-> usable]
    BY DEF ContextCandidate
  <2>2. s.work.host \in Hosts /\ usable \in BOOLEAN
    BY DEF Setup
  <2>3. c \in Candidates /\ c.host = s.work.host /\ (c.ok <=> usable)
    <3> HIDE DEF usable
    <3>1. QED
      BY <2>1, <2>2, CandidateType, CandidateFields
  <2>4. s.work.tls => s.work.host \in Hidden(s)
    BY <1>2 DEF Hidden
  <2>5. FromCurrentContext(s) = <<c>>
    BY <1>2 DEF FromCurrentContext
  <2>6. QED
    BY <1>2, <2>3, <2>4, <2>5
<1>3. QED
  BY <1>1, <1>2 DEF Setup, Names

\* A sequence with one more element in front.
LEMMA OneInFront ==
  ASSUME NEW S, NEW a \in S, NEW q \in Seq(S)
  PROVE  /\ <<a>> \o q \in Seq(S) /\ Len(<<a>> \o q) = Len(q) + 1
         /\ (<<a>> \o q)[1] = a
         /\ \A i \in 1 .. Len(q) : (<<a>> \o q)[i + 1] = q[i]
OBVIOUS

\* The default socket and the user's sockets, as candidates and in the order.
LEMMA SocketsFound ==
  ASSUME NEW st
  PROVE  LET cs == <<Candidate(DefaultSocket)>> \o UserCandidates(st)
             order == <<DefaultSocket>> \o UserSockets
         IN /\ cs \in Seq(Candidates) /\ order \in Seq(Endpoints)
            /\ Len(cs) = Len(order) /\ Len(cs) >= 1
            /\ cs[1].host = DefaultSocket /\ order[1] = DefaultSocket
            /\ \A i \in 1 .. Len(cs) :
                 cs[i].host = order[i] /\ (st[order[i]] # "absent" => cs[i].ok)
<1> DEFINE user == UserCandidates(st)
           cs == <<Candidate(DefaultSocket)>> \o user
           order == <<DefaultSocket>> \o UserSockets
           c == Candidate(DefaultSocket)
<1>1. c \in Candidates /\ c.host = DefaultSocket /\ c.ok
  BY CandidateType, CandidateFields DEF Candidate, Hosts
<1>2. /\ user \in Seq(Candidates) /\ Len(user) = Len(UserSockets) /\ Len(user) \in Nat
      /\ \A i \in 1 .. Len(user) :
           user[i].host = UserSockets[i] /\ (st[UserSockets[i]] # "absent" => user[i].ok)
  BY UserFound
<1> HIDE DEF c, user
<1>3. /\ cs \in Seq(Candidates) /\ Len(cs) = Len(user) + 1 /\ cs[1] = c
      /\ \A i \in 1 .. Len(user) : cs[i + 1] = user[i]
  <2>1. cs = <<c>> \o user
    BY DEF c
  <2> HIDE DEF cs
  <2>2. QED
    BY <1>1, <1>2, <2>1, OneInFront
<1>4. /\ order \in Seq(Endpoints) /\ Len(order) = Len(UserSockets) + 1
      /\ order[1] = DefaultSocket
      /\ \A i \in 1 .. Len(UserSockets) : order[i + 1] = UserSockets[i]
  BY OneInFront
<1> HIDE DEF cs, order
<1>5. ASSUME NEW i \in 1 .. Len(cs)
      PROVE  cs[i].host = order[i] /\ (st[order[i]] # "absent" => cs[i].ok)
  <2>1. CASE i = 1
    BY <1>1, <1>3, <1>4, <2>1
  <2>2. CASE i > 1
    <3>1. i - 1 \in 1 .. Len(user) /\ i = (i - 1) + 1
      BY <1>2, <1>3, <2>2
    <3>2. cs[i] = user[i - 1] /\ order[i] = UserSockets[i - 1]
      BY <1>2, <1>3, <1>4, <3>1
    <3>3. QED
      BY <1>2, <3>1, <3>2
  <2>3. QED
    BY <1>2, <1>3, <2>1, <2>2
<1>6. QED
  BY <1>1, <1>2, <1>3, <1>4, <1>5 DEF cs, order, user

\* The candidates, before they are deduplicated, beside the order: each host of
\* the order is found, with no usable candidate before it that the order puts
\* later, one that is up is only reported if it is hidden, and none that is
\* usable is out of the order.
LEMMA FoundInOrder ==
  ASSUME NEW s \in Setup, NEW st, s.dockerHost = "none", s.dockerContext = "none"
  PROVE  /\ Found(s, st) \in Seq(Candidates) /\ DockerOrder(s) \in Seq(Endpoints)
         /\ \A i \in DOMAIN DockerOrder(s) :
              \E k \in DOMAIN Found(s, st) :
                /\ Found(s, st)[k].host = DockerOrder(s)[i]
                /\ \A l \in 1 .. k : Found(s, st)[l].ok =>
                     UpTo(DockerOrder(s), i, Found(s, st)[l].host)
         /\ \A k \in DOMAIN Found(s, st) :
              LET h == Found(s, st)[k].host
              IN /\ h \in Endpoints \ Hidden(s) /\ st[h] # "absent" => Found(s, st)[k].ok
                 /\ Found(s, st)[k].ok => InSeq(h, DockerOrder(s))
<1> DEFINE cs == <<Candidate(DefaultSocket)>> \o UserCandidates(st)
           sockets == <<DefaultSocket>> \o UserSockets
           front == FromCurrentContext(s)
           ctx == ContextPart(s)
           found == Found(s, st)
           order == DockerOrder(s)
           c == ContextCandidate(s, "work")
<1>1. /\ cs \in Seq(Candidates) /\ sockets \in Seq(Endpoints)
      /\ Len(cs) = Len(sockets) /\ Len(cs) >= 1 /\ Len(cs) \in Nat
      /\ cs[1].host = DefaultSocket
      /\ \A i \in 1 .. Len(cs) :
           cs[i].host = sockets[i] /\ (st[sockets[i]] # "absent" => cs[i].ok)
  BY SocketsFound
<1>2. /\ ctx \in Seq(Endpoints)
      /\ order = ctx \o sockets
  <2>1. ctx \in Seq(Endpoints)
    BY DEF ContextPart, Setup, Hosts, Names
  <2>2. order = (ctx \o <<DefaultSocket>>) \o UserSockets
    BY DEF ContextPart, DockerOrder, Setup, Names
  <2>3. <<DefaultSocket>> \in Seq(Endpoints) /\ UserSockets \in Seq(Endpoints)
    OBVIOUS
  <2>4. QED
    BY <2>1, <2>2, <2>3, ConcatAssociative
<1>3. found = front \o cs
  <2>1. found = (front \o <<Candidate(DefaultSocket)>>) \o UserCandidates(st)
    BY DEF Found
  <2>2. front \in Seq(Candidates)
    <3> HIDE DEF front
    <3>1. CASE front = <<>>
      BY <3>1
    <3>2. CASE front = <<c>> /\ c \in Candidates
      <4> HIDE DEF c
      <4>1. QED
        BY <3>2
    <3>3. QED
      BY <3>1, <3>2, ContextFound DEF front
  <2>3. Candidate(DefaultSocket) \in Candidates
    BY CandidateType DEF Candidate, Hosts
  <2>4. <<Candidate(DefaultSocket)>> \in Seq(Candidates)
    BY <2>3
  <2>5. UserCandidates(st) \in Seq(Candidates)
    BY UserFound
  <2>6. QED
    BY <2>1, <2>2, <2>4, <2>5, ConcatAssociative
<1> HIDE DEF cs, sockets, found, order, ctx, c
<1>4. CASE front = <<>> /\ ctx = <<>>
  <2>1. found = cs /\ order = sockets
    BY <1>1, <1>2, <1>3, <1>4
  <2>2. ASSUME NEW i \in DOMAIN order
        PROVE  /\ i \in DOMAIN found /\ found[i].host = order[i]
               /\ \A l \in 1 .. i : UpTo(order, i, found[l].host)
    <3>1. DOMAIN found = 1 .. Len(cs) /\ DOMAIN order = 1 .. Len(cs) /\ i \in 1 .. Len(cs)
      BY <1>1, <2>1
    <3>2. \A l \in 1 .. i : l \in DOMAIN order /\ l <= i /\ order[l] = found[l].host
      BY <1>1, <2>1, <3>1
    <3>3. QED
      BY <1>1, <2>1, <3>1, <3>2 DEF UpTo
  <2>3. \A k \in DOMAIN found :
          /\ st[found[k].host] # "absent" => found[k].ok
          /\ k \in DOMAIN order /\ order[k] = found[k].host
    BY <1>1, <2>1
  <2>4. found \in Seq(Candidates) /\ order \in Seq(Endpoints)
    BY <1>1, <2>1
  <2>5. QED
    BY <2>2, <2>3, <2>4 DEF found, order, InSeq
<1>5. CASE front = <<>> /\ ctx = <<DefaultSocket>>
  <2>1. found = cs
    BY <1>1, <1>3, <1>5
  <2>2. /\ order \in Seq(Endpoints) /\ Len(order) = Len(cs) + 1 /\ order[1] = DefaultSocket
        /\ \A i \in 1 .. Len(cs) : order[i + 1] = sockets[i]
    BY <1>1, <1>2, <1>5, OneInFront
  <2>3. ASSUME NEW i \in DOMAIN order
        PROVE  \E k \in DOMAIN found :
                 /\ found[k].host = order[i]
                 /\ \A l \in 1 .. k : UpTo(order, i, found[l].host)
    <3>1. CASE i = 1
      <4>1. 1 \in DOMAIN found /\ found[1].host = order[1]
        BY <1>1, <2>1, <2>2
      <4>2. \A l \in 1 .. 1 : UpTo(order, i, found[l].host)
        BY <2>2, <3>1, <4>1 DEF UpTo
      <4>3. QED
        BY <3>1, <4>1, <4>2
    <3>2. CASE i > 1
      <4>1. i - 1 \in 1 .. Len(cs) /\ i = (i - 1) + 1
        BY <2>2, <3>2
      <4>2. i - 1 \in DOMAIN found /\ found[i - 1].host = order[i]
        BY <1>1, <2>1, <2>2, <4>1
      <4>3. ASSUME NEW l \in 1 .. (i - 1)
            PROVE  UpTo(order, i, found[l].host)
        <5>1. l \in 1 .. Len(cs) /\ l + 1 \in DOMAIN order /\ l + 1 <= i
          BY <1>1, <2>2, <4>1
        <5>2. order[l + 1] = found[l].host
          BY <1>1, <2>1, <2>2, <5>1
        <5>3. QED
          BY <5>1, <5>2 DEF UpTo
      <4>4. QED
        BY <4>2, <4>3
    <3>3. QED
      BY <2>2, <3>1, <3>2
  <2>4. ASSUME NEW k \in DOMAIN found
        PROVE  /\ st[found[k].host] # "absent" => found[k].ok
               /\ k + 1 \in DOMAIN order /\ order[k + 1] = found[k].host
    <3>1. k \in 1 .. Len(cs) /\ DOMAIN order = 1 .. Len(cs) + 1
      BY <1>1, <2>1, <2>2
    <3>2. k + 1 \in DOMAIN order /\ order[k + 1] = sockets[k]
      BY <1>1, <2>2, <3>1
    <3>3. QED
      BY <1>1, <2>1, <3>1, <3>2
  <2>5. found \in Seq(Candidates) /\ order \in Seq(Endpoints)
    BY <1>1, <2>1, <2>2
  <2>6. QED
    BY <2>3, <2>4, <2>5 DEF found, order, InSeq
<1>6. CASE front = <<c>> /\ ctx = <<s.work.host>> /\ c.ok /\ c.host = s.work.host
           /\ c \in Candidates /\ s.work.host \in Endpoints
  <2>1. /\ found \in Seq(Candidates) /\ Len(found) = Len(cs) + 1 /\ found[1] = c
        /\ \A i \in 1 .. Len(cs) : found[i + 1] = cs[i]
    BY <1>1, <1>3, <1>6, OneInFront
  <2>2. /\ order \in Seq(Endpoints) /\ Len(order) = Len(cs) + 1 /\ order[1] = s.work.host
        /\ \A i \in 1 .. Len(cs) : order[i + 1] = sockets[i]
    BY <1>1, <1>2, <1>6, OneInFront
  <2>3. ASSUME NEW i \in DOMAIN found
        PROVE  found[i].host = order[i] /\ (st[order[i]] # "absent" => found[i].ok)
    <3>1. CASE i = 1
      BY <1>6, <2>1, <2>2, <3>1
    <3>2. CASE i > 1
      <4>1. i - 1 \in 1 .. Len(cs) /\ i = (i - 1) + 1
        BY <2>1, <3>2
      <4>2. found[i] = cs[i - 1] /\ order[i] = sockets[i - 1]
        BY <2>1, <2>2, <4>1
      <4>3. QED
        BY <1>1, <4>1, <4>2
    <3>3. QED
      BY <2>1, <3>1, <3>2
  <2>4. ASSUME NEW i \in DOMAIN order
        PROVE  /\ i \in DOMAIN found /\ found[i].host = order[i]
               /\ \A l \in 1 .. i : UpTo(order, i, found[l].host)
    <3>1. DOMAIN found = DOMAIN order /\ DOMAIN order = 1 .. Len(cs) + 1
      BY <2>1, <2>2
    <3>2. \A l \in 1 .. i : l \in DOMAIN order /\ l <= i /\ order[l] = found[l].host
      BY <1>1, <2>3, <3>1
    <3>3. QED
      BY <2>3, <3>1, <3>2 DEF UpTo
  <2>5. \A k \in DOMAIN found : k \in DOMAIN order
    BY <2>1, <2>2
  <2>6. QED
    BY <2>1, <2>2, <2>3, <2>4, <2>5 DEF found, order, InSeq
<1>7. CASE front = <<c>> /\ ctx = <<>> /\ ~c.ok /\ c \in Candidates
           /\ (c.host = "none" \/ c.host \in Hidden(s))
  <2>1. /\ found \in Seq(Candidates) /\ Len(found) = Len(cs) + 1 /\ found[1] = c
        /\ \A i \in 1 .. Len(cs) : found[i + 1] = cs[i]
    BY <1>1, <1>3, <1>7, OneInFront
  <2>2. order = sockets
    BY <1>1, <1>2, <1>7
  <2>3. ASSUME NEW i \in DOMAIN order
        PROVE  /\ i + 1 \in DOMAIN found /\ found[i + 1].host = order[i]
               /\ \A l \in 1 .. i + 1 : found[l].ok => UpTo(order, i, found[l].host)
    <3>1. i + 1 \in DOMAIN found /\ found[i + 1].host = order[i]
      BY <1>1, <2>1, <2>2
    <3>2. ASSUME NEW l \in 1 .. i + 1, found[l].ok
          PROVE  UpTo(order, i, found[l].host)
      <4>1. l # 1
        BY <1>7, <2>1, <3>2
      <4>2. l - 1 \in 1 .. Len(cs) /\ l = (l - 1) + 1 /\ l - 1 <= i /\ l - 1 \in DOMAIN order
        BY <1>1, <2>1, <2>2, <4>1
      <4>3. found[l].host = order[l - 1]
        BY <1>1, <2>1, <2>2, <4>2
      <4>4. QED
        BY <4>2, <4>3 DEF UpTo
    <3>3. QED
      BY <3>1, <3>2
  <2>4. ASSUME NEW k \in DOMAIN found
        PROVE  \/ ~found[k].ok /\ found[k].host \notin Endpoints \ Hidden(s)
               \/ /\ st[found[k].host] # "absent" => found[k].ok
                  /\ k - 1 \in DOMAIN order /\ order[k - 1] = found[k].host
    <3>1. CASE k = 1
      BY <1>7, <2>1, <3>1
    <3>2. CASE k # 1
      <4>1. k - 1 \in 1 .. Len(cs) /\ k = (k - 1) + 1
        BY <2>1, <3>2
      <4>2. found[k] = cs[k - 1] /\ order[k - 1] = sockets[k - 1]
        BY <2>1, <2>2, <4>1
      <4>3. k - 1 \in DOMAIN order
        BY <1>1, <2>2, <4>1
      <4>4. QED
        BY <1>1, <4>1, <4>2, <4>3
    <3>3. QED
      BY <3>1, <3>2
  <2>5. QED
    BY <1>1, <2>1, <2>2, <2>3, <2>4 DEF found, order, InSeq
<1>8. \/ front = <<>> /\ ctx = <<>>
      \/ front = <<>> /\ ctx = <<DefaultSocket>>
      \/ /\ front = <<c>> /\ ctx = <<s.work.host>> /\ c.ok /\ c.host = s.work.host
         /\ c \in Candidates /\ s.work.host \in Endpoints
      \/ /\ front = <<c>> /\ ctx = <<>> /\ ~c.ok /\ c \in Candidates
         /\ c.host = "none" \/ c.host \in Hidden(s)
  <2>1. CASE s.currentContext \in {"none", "default"} /\ front = <<>>
    BY <2>1 DEF ctx, ContextPart
  <2>2. CASE s.currentContext = "work" /\ front = <<c>> /\ c \in Candidates /\ c.host = s.work.host
    <3>1. s.work.host \in Hosts
      BY DEF Setup
    <3>2. CASE c.ok /\ s.work.host # "none" /\ ~s.work.tls
      BY <2>2, <3>1, <3>2 DEF ctx, ContextPart, Hosts
    <3>3. CASE ~c.ok /\ (s.work.host = "none" \/ s.work.host \in Hidden(s))
               /\ (s.work.host = "none" \/ s.work.tls)
      BY <2>2, <3>3 DEF ctx, ContextPart
    <3>4. QED
      BY <2>2, <3>2, <3>3, ContextFound DEF c
  <2>3. QED
    BY <2>1, <2>2, ContextFound DEF c
<1>9. QED
  BY <1>4, <1>5, <1>6, <1>7, <1>8

\* The same once later candidates for a host are passed over: of each host the
\* first candidate is the one that counts.
LEMMA AllInOrder ==
  ASSUME NEW s \in Setup, NEW st, s.dockerHost = "none", s.dockerContext = "none"
  PROVE  /\ \A i \in DOMAIN DockerOrder(s) :
              LET h == DockerOrder(s)[i]
              IN h \notin Hidden(s) /\ st[h] # "absent" =>
                   \E k \in DOMAIN AllCandidates(s, st) :
                     /\ AllCandidates(s, st)[k].ok /\ AllCandidates(s, st)[k].host = h
                     /\ \A l \in 1 .. k : AllCandidates(s, st)[l].ok =>
                          UpTo(DockerOrder(s), i, AllCandidates(s, st)[l].host)
         /\ \A k \in DOMAIN AllCandidates(s, st) : AllCandidates(s, st)[k].ok =>
              InSeq(AllCandidates(s, st)[k].host, DockerOrder(s))
<1> DEFINE found == Found(s, st)
           all == AllCandidates(s, st)
           order == DockerOrder(s)
           first(k) == \/ found[k].host = "none"
                       \/ \A j \in 1 .. k - 1 : found[j].host # found[k].host
<1>1. /\ found \in Seq(Candidates) /\ order \in Seq(Endpoints)
      /\ DOMAIN found = 1 .. Len(found) /\ Len(found) \in Nat
      /\ DOMAIN order = 1 .. Len(order) /\ Len(order) \in Nat
  BY FoundInOrder
<1>2. /\ DOMAIN all = DOMAIN found
      /\ \A k \in DOMAIN found :
           /\ all[k].host = found[k].host
           /\ all[k].ok <=> found[k].ok /\ first(k)
  <2>1. all = Deduplicated(found)
    BY DEF AllCandidates, Found
  <2>2. DOMAIN all = DOMAIN found
    BY <2>1 DEF Deduplicated
  <2>3. ASSUME NEW k \in DOMAIN found
        PROVE  /\ all[k].host = found[k].host
               /\ all[k].ok <=> found[k].ok /\ first(k)
    <3> DEFINE h == found[k].host
               counts == found[k].ok /\ first(k)
    <3>1. all[k] = [host |-> h, ok |-> counts]
      BY <2>1, Zenon DEF Deduplicated
    <3>2. counts \in BOOLEAN
      OBVIOUS
    <3> HIDE DEF h, counts
    <3>3. all[k].host = h /\ (all[k].ok <=> counts)
      BY <3>1, <3>2, CandidateFields
    <3>4. QED
      BY <3>3 DEF h, counts
  <2>4. QED
    BY <2>2, <2>3
<1>3. ASSUME NEW i \in DOMAIN order, order[i] \notin Hidden(s), st[order[i]] # "absent"
      PROVE  \E k \in DOMAIN all :
               /\ all[k].ok /\ all[k].host = order[i]
               /\ \A l \in 1 .. k : all[l].ok => UpTo(order, i, all[l].host)
  <2> DEFINE places == {k \in DOMAIN found : found[k].host = order[i]}
  <2>1. PICK k \in DOMAIN found :
          /\ found[k].host = order[i]
          /\ \A l \in 1 .. k : found[l].ok => UpTo(order, i, found[l].host)
    BY FoundInOrder
  <2>2. places \subseteq Nat /\ places # {}
    BY <1>1, <2>1
  <2>3. PICK m \in places : \A n \in places : m <= n
    <3> HIDE DEF places
    <3>1. QED
      BY <2>2, LeastNumber
  <2>4. m \in DOMAIN found /\ found[m].host = order[i] /\ m <= k /\ m \in 1 .. Len(found)
    BY <1>1, <2>1, <2>3
  <2>5. first(m)
    <3>1. ASSUME NEW j \in 1 .. m - 1, found[j].host = found[m].host
          PROVE  FALSE
      <4>1. j \in places /\ j < m
        BY <1>1, <2>4, <3>1
      <4>2. QED
        BY <1>1, <2>3, <2>4, <4>1
    <3>2. QED
      BY <3>1
  <2>6. found[m].ok
    <3>1. order[i] \in Endpoints
      BY <1>1
    <3>2. QED
      BY <1>3, <2>4, <3>1, FoundInOrder
  <2>7. ASSUME NEW l \in 1 .. m, all[l].ok
        PROVE  UpTo(order, i, all[l].host)
    <3>1. l \in DOMAIN found /\ l \in 1 .. k
      BY <1>1, <2>1, <2>4
    <3>2. found[l].ok /\ all[l].host = found[l].host
      BY <1>2, <2>7, <3>1
    <3>3. QED
      BY <2>1, <3>1, <3>2
  <2>8. m \in DOMAIN all /\ all[m].ok /\ all[m].host = order[i]
    BY <1>2, <2>4, <2>5, <2>6
  <2>9. QED
    BY <2>7, <2>8
<1>4. ASSUME NEW k \in DOMAIN all, all[k].ok
      PROVE  InSeq(all[k].host, order)
  <2>1. k \in DOMAIN found /\ found[k].ok /\ all[k].host = found[k].host
    BY <1>2, <1>4
  <2>2. QED
    BY <2>1, FoundInOrder
<1>5. QED
  BY <1>3, <1>4

\* The same of docker's candidates, whatever they are picked by.
LEMMA DockerInOrder ==
  ASSUME NEW s \in Setup, NEW st
  PROVE  /\ DockerOrder(s) \in Seq(Endpoints)
         /\ \A i \in DOMAIN DockerOrder(s) :
              LET h == DockerOrder(s)[i]
              IN h \notin Hidden(s) /\ st[h] # "absent" =>
                   \E k \in DOMAIN DockerCandidates(s, st) :
                     /\ DockerCandidates(s, st)[k].ok /\ DockerCandidates(s, st)[k].host = h
                     /\ \A l \in 1 .. k : DockerCandidates(s, st)[l].ok =>
                          UpTo(DockerOrder(s), i, DockerCandidates(s, st)[l].host)
         /\ \A k \in DOMAIN DockerCandidates(s, st) : DockerCandidates(s, st)[k].ok =>
              InSeq(DockerCandidates(s, st)[k].host, DockerOrder(s))
<1> DEFINE cs == DockerCandidates(s, st)
           order == DockerOrder(s)
<1>1. CASE order = <<>> /\ \E c : cs = <<c>> /\ ~c.ok
  BY <1>1
<1>2. ASSUME NEW h \in Endpoints, order = <<h>>, cs = <<Candidate(h)>>
      PROVE  /\ order \in Seq(Endpoints)
             /\ \A i \in DOMAIN order :
                  \E k \in DOMAIN cs :
                    /\ cs[k].ok /\ cs[k].host = order[i]
                    /\ \A l \in 1 .. k : cs[l].ok => UpTo(order, i, cs[l].host)
             /\ \A k \in DOMAIN cs : cs[k].ok => InSeq(cs[k].host, order)
  <2> HIDE DEF cs, order
  <2>1. Candidate(h).ok /\ Candidate(h).host = h
    BY CandidateFields DEF Candidate
  <2>2. DOMAIN cs = 1 .. 1 /\ cs[1].ok /\ cs[1].host = h /\ DOMAIN order = 1 .. 1 /\ order[1] = h
    BY <1>2, <2>1
  <2>3. UpTo(order, 1, h) /\ InSeq(h, order)
    BY <2>2 DEF UpTo, InSeq
  <2>4. QED
    BY <1>2, <2>2, <2>3
<1>3. CASE s.dockerHost # "none"
  <2>1. s.dockerHost \in Endpoints /\ order = <<s.dockerHost>> /\ cs = <<Candidate(s.dockerHost)>>
    BY <1>3 DEF DockerOrder, DockerCandidates, Setup, Hosts
  <2>2. QED
    BY <1>2, <2>1
<1>4. CASE s.dockerHost = "none" /\ s.dockerContext # "none"
  <2> DEFINE c == ContextCandidate(s, s.dockerContext)
  <2>1. cs = <<c>>
    BY <1>4 DEF DockerCandidates
  <2>2. CASE s.dockerContext = "default"
    <3>1. order = <<DefaultSocket>> /\ c = Candidate(DefaultSocket)
      BY <1>4, <2>2 DEF DockerOrder, ContextCandidate
    <3>2. QED
      BY <1>2, <2>1, <3>1
  <2>3. CASE s.dockerContext = "work" /\ s.work.host # "none" /\ ~s.work.tls
    <3>1. order = <<s.work.host>> /\ c = Candidate(s.work.host) /\ s.work.host \in Endpoints
      BY <1>4, <2>3 DEF DockerOrder, ContextCandidate, Candidate, Setup, Hosts
    <3>2. QED
      BY <1>2, <2>1, <3>1
  <2>4. CASE s.dockerContext = "work" /\ (s.work.host = "none" \/ s.work.tls)
    <3>1. order = <<>>
      BY <1>4, <2>4 DEF DockerOrder
    <3>2. ~c.ok
      <4>1. c = [host |-> s.work.host, ok |-> FALSE]
        BY <2>4 DEF ContextCandidate
      <4>2. QED
        BY <4>1
    <3>3. QED
      BY <1>1, <2>1, <3>1, <3>2
  <2>5. QED
    BY <1>4, <2>2, <2>3, <2>4 DEF Setup, Names
<1>5. CASE s.dockerHost = "none" /\ s.dockerContext = "none"
  <2>1. cs = AllCandidates(s, st)
    BY <1>5 DEF DockerCandidates
  <2>2. order \in Seq(Endpoints)
    BY <1>5, FoundInOrder
  <2> HIDE DEF order, cs
  <2>3. QED
    BY <1>5, <2>1, <2>2, AllInOrder DEF order, cs
<1>6. QED
  BY <1>3, <1>4, <1>5

-----------------------------------------------------------------------------
\* The order during discovery: docker's part, then the sockets of buildkitd.
LEMMA OrderParts ==
  ASSUME NEW s \in Setup, DiscoveringBy(s)
  PROVE  LET n == Len(DockerOrder(s))
         IN /\ Order(s) \in Seq(Endpoints) /\ n \in Nat
            /\ DOMAIN DockerOrder(s) = 1 .. n
            /\ DOMAIN Order(s) = 1 .. n + Len(LocalSockets)
            /\ \A i \in 1 .. n : Order(s)[i] = DockerOrder(s)[i]
            /\ \A i \in 1 .. Len(LocalSockets) : Order(s)[n + i] = LocalSockets[i]
<1>1. DockerOrder(s) \in Seq(Endpoints)
  BY DockerInOrder
<1>2. Order(s) = DockerOrder(s) \o LocalSockets
  BY DEF Order, DiscoveringBy
<1> HIDE DEF DockerOrder
<1>3. QED
  BY <1>1, <1>2, ConcatProperties

\* A host of docker's part that is up may be dialled in its turn; a socket of
\* buildkitd comes after all of docker's candidates.
LEMMA DiscoverAwaits ==
  ASSUME NEW s \in Setup, DiscoveringBy(s), NEW st, NEW i \in DOMAIN Order(s),
         Order(s)[i] \notin Hidden(s), st[Order(s)[i]] # "absent"
  PROVE  LET q == DockerCandidates(s, st)
         IN /\ i <= Len(DockerOrder(s)) =>
                 \E k \in DOMAIN q :
                   /\ q[k].ok /\ q[k].host = Order(s)[i]
                   /\ \A l \in 1 .. k : q[l].ok => UpTo(Order(s), i, q[l].host)
            /\ i > Len(DockerOrder(s)) =>
                 \A k \in DOMAIN q : q[k].ok => UpTo(Order(s), i, q[k].host)
<1> DEFINE q == DockerCandidates(s, st)
           n == Len(DockerOrder(s))
<1>1. /\ n \in Nat /\ DOMAIN DockerOrder(s) = 1 .. n /\ DOMAIN Order(s) \subseteq Nat \ {0}
      /\ 1 .. n \subseteq DOMAIN Order(s)
      /\ \A j \in 1 .. n : Order(s)[j] = DockerOrder(s)[j]
  <2>1. Len(LocalSockets) \in Nat
    OBVIOUS
  <2> HIDE DEF n
  <2>2. QED
    BY <2>1, OrderParts DEF n
<1> HIDE DEF q
<1>2. ASSUME NEW h, UpTo(DockerOrder(s), i, h)
      PROVE  UpTo(Order(s), i, h)
  BY <1>1, <1>2 DEF UpTo
<1>3. CASE i <= n
  <2>1. i \in DOMAIN DockerOrder(s) /\ DockerOrder(s)[i] = Order(s)[i]
    BY <1>1, <1>3
  <2>2. PICK k \in DOMAIN q :
          /\ q[k].ok /\ q[k].host = Order(s)[i]
          /\ \A l \in 1 .. k : q[l].ok => UpTo(DockerOrder(s), i, q[l].host)
    <3>1. LET h == DockerOrder(s)[i]
          IN \E k \in DOMAIN DockerCandidates(s, st) :
               /\ DockerCandidates(s, st)[k].ok /\ DockerCandidates(s, st)[k].host = h
               /\ \A l \in 1 .. k : DockerCandidates(s, st)[l].ok =>
                    UpTo(DockerOrder(s), i, DockerCandidates(s, st)[l].host)
      BY <2>1, DockerInOrder
    <3>2. QED
      BY <2>1, <3>1 DEF q
  <2>3. \A l \in 1 .. k : q[l].ok => UpTo(Order(s), i, q[l].host)
    BY <1>2, <2>2
  <2>4. QED
    BY <1>1, <1>3, <2>2, <2>3 DEF q
<1>4. CASE i > n
  <2>1. ASSUME NEW k \in DOMAIN q, q[k].ok
        PROVE  UpTo(Order(s), i, q[k].host)
    <3>1. PICK j \in DOMAIN DockerOrder(s) : DockerOrder(s)[j] = q[k].host
      BY <2>1, DockerInOrder DEF q, InSeq
    <3>2. j \in 1 .. n /\ j <= i
      BY <1>1, <1>4, <3>1
    <3>3. QED
      BY <1>1, <3>1, <3>2 DEF UpTo
  <2>2. QED
    BY <1>1, <1>4, <2>1 DEF q
<1>5. QED
  BY <1>1, <1>3, <1>4

\* What FirstInv says of a queue and an order.
AwaitsIn(q, order, i) ==
  \E k \in DOMAIN q :
    /\ q[k].ok /\ q[k].host = order[i]
    /\ \A l \in 1 .. k : q[l].ok => UpTo(order, i, q[l].host)

AllUpTo(q, order, i) == \A k \in DOMAIN q : q[k].ok => UpTo(order, i, q[k].host)

\* When the head is taken off, what waits and is not the head goes on waiting,
\* and the head does not come later in the order than what waits behind it.
LEMMA HeadTaken ==
  ASSUME NEW q \in Seq(Candidates), q # <<>>, NEW order, NEW i
  PROVE  /\ AwaitsIn(q, order, i) => \/ AwaitsIn(Tail(q), order, i)
                                     \/ Head(q).ok /\ Head(q).host = order[i]
         /\ AwaitsIn(q, order, i) /\ Head(q).ok => UpTo(order, i, Head(q).host)
         /\ AllUpTo(q, order, i) => /\ Head(q).ok => UpTo(order, i, Head(q).host)
                                    /\ AllUpTo(Tail(q), order, i)
<1> DEFINE t == Tail(q)
<1>1. 1 \in DOMAIN q /\ Head(q) = q[1] /\ DOMAIN q = 1 .. Len(q) /\ Len(q) \in Nat \ {0}
  OBVIOUS
<1>2. /\ DOMAIN t = 1 .. Len(q) - 1
      /\ \A k \in DOMAIN t : k + 1 \in DOMAIN q /\ t[k] = q[k + 1]
  OBVIOUS
<1> HIDE DEF t
<1>3. ASSUME AwaitsIn(q, order, i), ~(Head(q).ok /\ Head(q).host = order[i])
      PROVE  AwaitsIn(t, order, i)
  <2>1. PICK k \in DOMAIN q :
          /\ q[k].ok /\ q[k].host = order[i]
          /\ \A l \in 1 .. k : q[l].ok => UpTo(order, i, q[l].host)
    BY <1>3 DEF AwaitsIn
  <2>2. k # 1
    BY <1>1, <1>3, <2>1
  <2>3. k - 1 \in DOMAIN t /\ t[k - 1] = q[k]
    BY <1>1, <1>2, <2>1, <2>2
  <2>4. ASSUME NEW l \in 1 .. k - 1, t[l].ok
        PROVE  UpTo(order, i, t[l].host)
    <3>1. l \in DOMAIN t /\ l + 1 \in 1 .. k
      BY <1>1, <1>2, <2>1, <2>2
    <3>2. t[l] = q[l + 1]
      BY <1>2, <3>1
    <3>3. QED
      BY <2>1, <2>4, <3>1, <3>2
  <2>5. QED
    BY <2>1, <2>3, <2>4 DEF AwaitsIn
<1>4. ASSUME AwaitsIn(q, order, i), Head(q).ok
      PROVE  UpTo(order, i, Head(q).host)
  <2>1. PICK k \in DOMAIN q : \A l \in 1 .. k : q[l].ok => UpTo(order, i, q[l].host)
    BY <1>4 DEF AwaitsIn
  <2>2. 1 \in 1 .. k
    BY <1>1, <2>1
  <2>3. QED
    BY <1>1, <1>4, <2>1, <2>2
<1>5. AllUpTo(q, order, i) => /\ Head(q).ok => UpTo(order, i, Head(q).host)
                              /\ AllUpTo(t, order, i)
  BY <1>1, <1>2 DEF AllUpTo
<1>6. QED
  BY <1>3, <1>4, <1>5 DEF t

\* A host that has been up all along is up: no step of its dial can fail.
LEMMA SteadyUp ==
  ASSUME DiscoveryInv, FirstInv, NEW i \in DOMAIN Order(setup), SteadyAt(i)
  PROVE  status[Order(setup)[i]] = "up"
BY DEF FirstInv, SteadyAt, UpIn

\* FirstInv for one place of the order, of a setup, a queue, a step and a dial.
FirstAt(s, p, ph, q, t, i) ==
  LET dials == p \in {"ping", "validate"}
      probes(x) == p = x \/ (dials /\ ph = x)
      order == Order(s)
      n == Len(DockerOrder(s))
  IN /\ p # "last"
     /\ dials => UpTo(order, i, t)
     /\ probes("local") \/ (probes("docker") /\ i <= n) =>
          AwaitsIn(q, order, i) \/ (dials /\ t = order[i])
     /\ probes("docker") /\ i > n => AllUpTo(q, order, i)

\* It is what FirstInv says of the places whose host has been up all along ...
LEMMA FirstElim ==
  ASSUME FirstInv, NEW i \in DOMAIN Order(setup), SteadyAt(i)
  PROVE  FirstAt(setup, pc, phase, queue, target, i)
BY DEF FirstInv, FirstAt, Dialling, Probing, Awaits, AwaitsIn, AllUpTo, Reached, UpTo

\* ... and what a step of the resolution has to keep.
LEMMA FirstIntro ==
  ASSUME FirstInv, UNCHANGED <<setup, status>>, steady' \subseteq steady,
         pc' \in {"ping", "validate"} /\ phase' = "explicit" =>
           target' = Explicit(setup) /\ target' # "none",
         \A i \in DOMAIN Order(setup) :
           SteadyAt(i)' => FirstAt(setup, pc', phase', queue', target', i),
         pc' = "done" /\ setup.embedded # "force" =>
           \A i \in DOMAIN Order(setup) : SteadyAt(i)' => UpTo(Order(setup), i, answer')
  PROVE  FirstInv'
<1>1. \A i \in DOMAIN Order(setup) :
        SteadyAt(i)' <=> Order(setup)[i] \in steady' \ Hidden(setup)
  BY DEF SteadyAt
<1>2. /\ steady' \subseteq UpIn(status')
      /\ pc' = "last" => \A i \in DOMAIN Order(setup) : ~SteadyAt(i)'
  BY DEF FirstInv, FirstAt
<1>3. FirstSteadyWins'
  BY <1>1 DEF FirstSteadyWins, UpTo
<1>4. (Dialling /\ phase = "explicit" => target = Explicit(setup) /\ target # "none")'
  BY DEF Dialling
<1>5. (\A i \in DOMAIN Order(setup) : SteadyAt(i) =>
         /\ Dialling => Reached(target, i)
         /\ Probing("local") \/ (Probing("docker") /\ i <= Len(DockerOrder(setup))) =>
              Awaits(i) \/ (Dialling /\ target = Order(setup)[i])
         /\ Probing("docker") /\ i > Len(DockerOrder(setup)) =>
              \A k \in DOMAIN queue : queue[k].ok => Reached(queue[k].host, i))'
  <2>1. \A i \in DOMAIN Order(setup) :
          SteadyAt(i)' => FirstAt(setup, pc', phase', queue', target', i)
    BY <1>1 DEF SteadyAt
  <2>2. QED
    BY <2>1 DEF FirstAt, Dialling, Probing, Awaits, AwaitsIn, AllUpTo, Reached, UpTo
<1>6. (pc = "last" => \A i \in DOMAIN Order(setup) : ~SteadyAt(i))'
  BY <1>1, <1>2 DEF SteadyAt
<1>7. QED
  BY <1>2, <1>3, <1>4, <1>5, <1>6 DEF FirstInv

\* The same for a step that leaves the steady hosts alone.
LEMMA FirstSame ==
  ASSUME FirstInv, UNCHANGED <<setup, status, steady>>,
         pc' \in {"ping", "validate"} /\ phase' = "explicit" =>
           target' = Explicit(setup) /\ target' # "none",
         \A i \in DOMAIN Order(setup) :
           SteadyAt(i) => FirstAt(setup, pc', phase', queue', target', i),
         pc' = "done" /\ setup.embedded # "force" =>
           \A i \in DOMAIN Order(setup) : SteadyAt(i) => UpTo(Order(setup), i, answer')
  PROVE  FirstInv'
<1>1. \A i : SteadyAt(i)' <=> SteadyAt(i)
  BY DEF SteadyAt
<1>2. QED
  BY <1>1, FirstIntro

-----------------------------------------------------------------------------
\* A dial that fails was not of a host that has been up all along.
LEMMA FailedFirst ==
  ASSUME DiscoveryInv, FirstInv, pc \in {"ping", "validate"}, Failed,
         steady' \subseteq steady, target \notin steady'
  PROVE  FirstInv'
<1>1. UNCHANGED <<setup, status, phase, queue, target>>
  BY DEF Failed
<1>2. phase \in {"explicit", "docker", "local"}
  BY DEF DiscoveryInv, TypeOK
<1>3. CASE phase = "explicit"
  <2>1. pc' = "done"
    BY <1>3 DEF Failed, Answer
  <2>2. target = Explicit(setup) /\ target # "none"
    BY <1>3 DEF FirstInv, Dialling
  <2>3. Order(setup) = <<target>>
    BY <2>2 DEF Order
  <2>4. ASSUME NEW i \in DOMAIN Order(setup), SteadyAt(i)'
        PROVE  FALSE
    <3>1. Order(setup)[i] = target
      BY <2>3
    <3>2. QED
      BY <1>1, <2>4, <3>1 DEF SteadyAt
  <2>5. QED
    BY <1>1, <2>1, <2>4, FirstIntro
<1>4. CASE phase # "explicit"
  <2>1. pc' = phase /\ pc' \in {"docker", "local"}
    BY <1>2, <1>4 DEF Failed
  <2>2. ASSUME NEW i \in DOMAIN Order(setup), SteadyAt(i)'
        PROVE  FirstAt(setup, pc', phase', queue', target', i)
    <3>1. target # Order(setup)[i] /\ SteadyAt(i)
      BY <1>1, <2>2 DEF SteadyAt
    <3>2. FirstAt(setup, pc, phase, queue, target, i)
      BY <3>1, FirstElim
    <3>3. QED
      BY <1>1, <2>1, <3>1, <3>2 DEF FirstAt
  <2>3. QED
    BY <1>1, <2>1, <2>2, FirstIntro
<1>5. QED
  BY <1>3, <1>4

\* The head of docker's candidates is dialled.
LEMMA DialDockerFirst == DiscoveryInv /\ FirstInv /\ DialDocker => FirstInv'
<1> SUFFICES ASSUME DiscoveryInv, FirstInv, DialDocker PROVE FirstInv'
  OBVIOUS
<1>1. /\ UNCHANGED <<setup, status, steady>> /\ pc = "docker" /\ queue # <<>>
      /\ pc' = "ping" /\ phase' = "docker" /\ queue' = Tail(queue)
      /\ target' = Head(queue).host /\ Head(queue).ok
  BY DEF DialDocker, outside
<1>2. queue \in Seq(Candidates)
  BY SetupOf
<1>3. ASSUME NEW i \in DOMAIN Order(setup), SteadyAt(i)
      PROVE  FirstAt(setup, pc', phase', queue', target', i)
  <2> DEFINE n == Len(DockerOrder(setup))
             order == Order(setup)
  <2>1. FirstAt(setup, "docker", phase, queue, target, i)
    BY <1>1, <1>3, FirstElim
  <2>2. i <= n \/ i > n
    <3>1. DiscoveringBy(setup)
      BY <1>1, SetupOf DEF DiscoveryInv
    <3>2. n \in Nat /\ DOMAIN order = 1 .. n + Len(LocalSockets) /\ Len(LocalSockets) \in Nat
      <4>1. Len(LocalSockets) \in Nat
        OBVIOUS
      <4> HIDE DEF n, order
      <4>2. QED
        BY <3>1, <4>1, SetupOf, OrderParts DEF n, order
    <3>3. QED
      BY <3>2
  <2>3. CASE i <= n
    <3>1. AwaitsIn(queue, order, i)
      BY <2>1, <2>3 DEF FirstAt
    <3>2. /\ AwaitsIn(queue', order, i) \/ target' = order[i]
          /\ UpTo(order, i, target')
      BY <1>1, <1>2, <3>1, HeadTaken
    <3>3. ~(i > n)
      BY <2>3, SetupOf, OrderParts, <1>1 DEF DiscoveryInv
    <3> HIDE DEF n, order
    <3>4. QED
      BY <1>1, <3>2, <3>3 DEF FirstAt, n, order
  <2>4. CASE i > n
    <3>1. AllUpTo(queue, order, i)
      BY <2>1, <2>4 DEF FirstAt
    <3>2. AllUpTo(queue', order, i) /\ UpTo(order, i, target')
      BY <1>1, <1>2, <3>1, HeadTaken
    <3>3. ~(i <= n)
      BY <2>4, SetupOf, OrderParts, <1>1 DEF DiscoveryInv
    <3> HIDE DEF n, order
    <3>4. QED
      BY <1>1, <3>2, <3>3 DEF FirstAt, n, order
  <2>5. QED
    BY <2>2, <2>3, <2>4
<1>4. QED
  BY <1>1, <1>3, FirstSame

\* A candidate is passed over: it was none that may be dialled.
LEMMA PassedOver ==
  ASSUME DiscoveryInv, FirstInv, UNCHANGED <<setup, status, pc, phase, target>>, steady' \subseteq steady,
         pc \in {"docker", "local"}, queue # <<>>, queue' = Tail(queue),
         Head(queue).ok => Head(queue).host \notin steady'
  PROVE  FirstInv'
<1>1. queue \in Seq(Candidates)
  BY SetupOf
<1>2. ASSUME NEW i \in DOMAIN Order(setup), SteadyAt(i)'
      PROVE  FirstAt(setup, pc', phase', queue', target', i)
  <2>1. FirstAt(setup, pc, phase, queue, target, i)
    BY <1>2, FirstElim DEF SteadyAt
  <2>2. ~(Head(queue).ok /\ Head(queue).host = Order(setup)[i])
    BY <1>2 DEF SteadyAt
  <2>3. /\ AwaitsIn(queue, Order(setup), i) => AwaitsIn(queue', Order(setup), i)
        /\ AllUpTo(queue, Order(setup), i) => AllUpTo(queue', Order(setup), i)
    BY <1>1, <2>2, HeadTaken
  <2>4. QED
    BY <2>1, <2>3 DEF FirstAt
<1>3. QED
  BY <1>2, FirstIntro

\* A socket of buildkitd is dialled.
LEMMA DialLocalFirst ==
  ASSUME DiscoveryInv, FirstInv, pc = "local", queue # <<>>, queue' = Tail(queue),
         DialDirect(Head(queue).host, "local"), UNCHANGED <<setup, status, steady, answer>>
  PROVE  FirstInv'
<1>1. queue \in Seq(Candidates) /\ Head(queue).ok
  BY SetupOf, QueueHead
<1>2. pc' = "validate" /\ phase' = "local" /\ target' = Head(queue).host
  BY DEF DialDirect
<1>3. ASSUME NEW i \in DOMAIN Order(setup), SteadyAt(i)
      PROVE  FirstAt(setup, pc', phase', queue', target', i)
  <2>1. FirstAt(setup, "local", phase, queue, target, i)
    BY <1>3, FirstElim
  <2>2. AwaitsIn(queue, Order(setup), i)
    BY <2>1 DEF FirstAt
  <2>3. /\ AwaitsIn(queue', Order(setup), i) \/ target' = Order(setup)[i]
        /\ UpTo(Order(setup), i, target')
    BY <1>1, <1>2, <2>2, HeadTaken
  <2>4. QED
    BY <1>2, <2>3 DEF FirstAt
<1>4. QED
  BY <1>2, <1>3, FirstSame

\* The turn of buildkitd's sockets: none of docker's part is up all along then,
\* and the sockets are tried in their order.
LEMMA TurnToLocalFirst == DiscoveryInv /\ FirstInv /\ TurnToLocal => FirstInv'
<1> SUFFICES ASSUME DiscoveryInv, FirstInv, TurnToLocal PROVE FirstInv'
  OBVIOUS
<1>1. /\ UNCHANGED <<setup, status, steady>> /\ pc = "docker" /\ queue = <<>> /\ pc' = "local"
      /\ queue' = [k \in DOMAIN LocalSockets |-> Candidate(LocalSockets[k])]
  BY DEF TurnToLocal, outside
<1>2. DiscoveringBy(setup) /\ setup \in Setup
  BY <1>1, SetupOf DEF DiscoveryInv
<1> DEFINE n == Len(DockerOrder(setup))
           order == Order(setup)
<1>3. /\ n \in Nat /\ Len(LocalSockets) \in Nat /\ DOMAIN LocalSockets = 1 .. Len(LocalSockets)
      /\ DOMAIN order = 1 .. n + Len(LocalSockets)
      /\ \A k \in 1 .. Len(LocalSockets) : order[n + k] = LocalSockets[k]
  <2>1. Len(LocalSockets) \in Nat /\ DOMAIN LocalSockets = 1 .. Len(LocalSockets)
    OBVIOUS
  <2> HIDE DEF n, order
  <2>2. QED
    BY <1>2, <2>1, OrderParts DEF n, order
<1>4. \A k \in DOMAIN LocalSockets : queue'[k].ok /\ queue'[k].host = LocalSockets[k]
  <2>1. \A h : Candidate(h).ok /\ Candidate(h).host = h
    BY DEF Candidate
  <2>2. QED
    BY <1>1, <2>1
<1>5. ASSUME NEW i \in DOMAIN order, SteadyAt(i)
      PROVE  FirstAt(setup, pc', phase', queue', target', i)
  <2>1. FirstAt(setup, "docker", phase, <<>>, target, i)
    BY <1>1, <1>5, FirstElim
  <2>2. ~AwaitsIn(<<>>, order, i)
    BY DEF AwaitsIn
  <2>3. ~(i <= n)
    <3> HIDE DEF n, order
    <3>1. QED
      BY <2>1, <2>2 DEF FirstAt, n, order
  <2> DEFINE k == i - n
  <2>4. k \in DOMAIN LocalSockets /\ order[i] = LocalSockets[k]
    <3> HIDE DEF n, order
    <3>1. k \in 1 .. Len(LocalSockets) /\ i = n + k
      BY <1>3, <1>5, <2>3
    <3>2. QED
      BY <1>3, <3>1
  <2>5. ASSUME NEW l \in 1 .. k
        PROVE  UpTo(order, i, queue'[l].host)
    <3> HIDE DEF n, order
    <3>1. l \in 1 .. Len(LocalSockets) /\ n + l \in DOMAIN order /\ n + l <= i
      BY <1>3, <1>5, <2>4, <2>5
    <3>2. order[n + l] = queue'[l].host
      BY <1>3, <1>4, <3>1
    <3>3. QED
      BY <3>1, <3>2 DEF UpTo
  <2>6. DOMAIN queue' = DOMAIN LocalSockets
    BY <1>1
  <2>7. AwaitsIn(queue', order, i)
    <3> HIDE DEF n, order, k
    <3>1. QED
      BY <1>4, <2>4, <2>5, <2>6 DEF AwaitsIn
  <2>8. QED
    BY <1>1, <2>7 DEF FirstAt
<1>6. QED
  BY <1>1, <1>5, FirstSame

\* The turn of the embedded daemon: nothing that was up all along is left.
LEMMA TurnToEmbeddedFirst == DiscoveryInv /\ FirstInv /\ TurnToEmbedded => FirstInv'
<1> SUFFICES ASSUME DiscoveryInv, FirstInv, TurnToEmbedded PROVE FirstInv'
  OBVIOUS
<1>1. UNCHANGED <<setup, status, steady>> /\ pc = "local" /\ queue = <<>> /\ pc' = "last"
  BY DEF TurnToEmbedded, outside
<1>2. ASSUME NEW i \in DOMAIN Order(setup), SteadyAt(i)
      PROVE  FALSE
  <2>1. FirstAt(setup, "local", phase, <<>>, target, i)
    BY <1>1, <1>2, FirstElim
  <2>2. ~AwaitsIn(<<>>, Order(setup), i)
    BY DEF AwaitsIn
  <2>3. QED
    BY <2>1, <2>2 DEF FirstAt
<1>3. QED
  BY <1>1, <1>2, FirstSame

\* The beginning of the discovery.
LEMMA DiscoverFirst == DiscoveryInv /\ FirstInv /\ Discover => FirstInv'
<1> SUFFICES ASSUME DiscoveryInv, FirstInv, Discover PROVE FirstInv'
  OBVIOUS
<1>1. /\ UNCHANGED <<setup, status, steady>> /\ setup \in Setup
      /\ Explicit(setup) = "none" /\ setup.embedded # "force"
  BY SetupOf DEF Discover, outside
<1>2. CASE ~setup.autodiscover
  <2>1. pc' = "last" /\ Order(setup) = <<>>
    BY <1>1, <1>2 DEF Discover, Order
  <2>2. QED
    BY <1>1, <2>1, FirstSame
<1>3. CASE setup.autodiscover
  <2>1. pc' = "docker" /\ queue' = DockerCandidates(setup, status) /\ DiscoveringBy(setup)
    BY <1>1, <1>3 DEF Discover, DiscoveringBy
  <2>2. ASSUME NEW i \in DOMAIN Order(setup), SteadyAt(i)
        PROVE  FirstAt(setup, pc', phase', queue', target', i)
    <3>1. Order(setup)[i] \notin Hidden(setup) /\ status[Order(setup)[i]] # "absent"
      BY <2>2, SteadyUp DEF SteadyAt
    <3>2. /\ i <= Len(DockerOrder(setup)) => AwaitsIn(queue', Order(setup), i)
          /\ i > Len(DockerOrder(setup)) => AllUpTo(queue', Order(setup), i)
      BY <1>1, <2>1, <3>1, DiscoverAwaits DEF AwaitsIn, AllUpTo
    <3>3. QED
      BY <2>1, <3>2 DEF FirstAt
  <2>3. QED
    BY <1>1, <2>1, <2>2, FirstSame
<1>4. QED
  BY <1>2, <1>3

LEMMA ResolveFirst == DiscoveryInv /\ FirstInv /\ Resolve => FirstInv'
<1> SUFFICES ASSUME DiscoveryInv, FirstInv, Resolve PROVE FirstInv'
  OBVIOUS
<1>1. CASE UseExplicit
  <2>1. /\ UNCHANGED <<setup, status, steady>> /\ pc' = "validate" /\ phase' = "explicit"
        /\ target' = Explicit(setup) /\ target' # "none"
    BY <1>1 DEF UseExplicit, DialDirect, outside
  <2>2. Order(setup) = <<target'>>
    BY <2>1 DEF Order
  <2>3. \A i \in DOMAIN Order(setup) : FirstAt(setup, pc', phase', queue', target', i)
    BY <2>1, <2>2 DEF FirstAt, UpTo
  <2>4. QED
    BY <2>1, <2>3, FirstSame
<1>2. CASE ForceEmbedded
  <2>1. /\ UNCHANGED <<setup, status, steady>> /\ pc' = "done" /\ setup.embedded = "force"
    BY <1>2 DEF ForceEmbedded, Answer, outside
  <2>2. \A i \in DOMAIN Order(setup) : FirstAt(setup, pc', phase', queue', target', i)
    BY <2>1 DEF FirstAt
  <2>3. QED
    BY <2>1, <2>2, FirstSame
<1>3. CASE Discover
  BY <1>3, DiscoverFirst
<1>4. CASE DialDocker
  BY <1>4, DialDockerFirst
<1>5. CASE ReportDocker
  BY <1>5, PassedOver DEF ReportDocker, outside
<1>6. CASE TurnToLocal
  BY <1>6, TurnToLocalFirst
<1>7. CASE TryLocal
  <2>1. CASE status[Head(queue).host] = "absent"
    BY <1>7, <2>1, PassedOver DEF TryLocal, outside, FirstInv, UpIn
  <2>2. CASE status[Head(queue).host] # "absent"
    BY <1>7, <2>2, DialLocalFirst DEF TryLocal, outside
  <2>3. QED
    BY <2>1, <2>2
<1>8. CASE TurnToEmbedded
  BY <1>8, TurnToEmbeddedFirst
<1>9. CASE LastResort
  <2>1. UNCHANGED <<setup, status, steady>> /\ pc = "last" /\ pc' = "done"
    BY <1>9 DEF LastResort, Answer, outside
  <2>2. \A i \in DOMAIN Order(setup) : ~SteadyAt(i)
    BY <2>1 DEF FirstInv
  <2>3. QED
    BY <2>1, <2>2, FirstSame
<1>10. CASE PingFails
  BY <1>10, FailedFirst DEF PingFails, FirstInv, UpIn
<1>11. CASE PingAnswered
  <2>1. /\ UNCHANGED <<setup, status, steady, phase, queue, target>>
        /\ pc = "ping" /\ pc' = "validate"
    BY <1>11 DEF PingAnswered, outside
  <2>2. ASSUME NEW i \in DOMAIN Order(setup), SteadyAt(i)
        PROVE  FirstAt(setup, pc', phase', queue', target', i)
    <3>1. FirstAt(setup, "ping", phase, queue, target, i)
      BY <2>1, <2>2, FirstElim
    <3>2. QED
      BY <2>1, <3>1 DEF FirstAt
  <2>3. phase' # "explicit"
    BY <2>1 DEF DiscoveryInv
  <2>4. QED
    BY <2>1, <2>2, <2>3, FirstSame
<1>12. CASE ValidateFails
  BY <1>12, FailedFirst DEF ValidateFails, FirstInv, UpIn
<1>13. CASE Validated
  <2>1. /\ UNCHANGED <<setup, status, steady, phase, queue, target>>
        /\ pc = "validate" /\ pc' = "done" /\ answer' = target
    BY <1>13 DEF Validated, Answer, outside
  <2>2. ASSUME NEW i \in DOMAIN Order(setup), SteadyAt(i)
        PROVE  /\ FirstAt(setup, pc', phase', queue', target', i)
               /\ UpTo(Order(setup), i, answer')
    <3>1. FirstAt(setup, "validate", phase, queue, target, i)
      BY <2>1, <2>2, FirstElim
    <3>2. QED
      BY <2>1, <3>1 DEF FirstAt
  <2>3. QED
    BY <2>1, <2>2, FirstSame
<1>14. CASE NoExplicitClient
  <2>1. /\ UNCHANGED <<setup, status>> /\ pc' = "done"
        /\ steady' = steady \ {Explicit(setup)} /\ Order(setup) = <<Explicit(setup)>>
    BY <1>14 DEF NoExplicitClient, NoClientFor, Answer, Order
  <2>2. \A i \in DOMAIN Order(setup) : ~SteadyAt(i)'
    BY <2>1 DEF SteadyAt
  <2>3. QED
    BY <2>1, <2>2, FirstIntro
<1>15. CASE NoClient
  BY <1>15, PassedOver DEF NoClient, NoClientFor
<1>16. CASE NoHijack
  BY <1>16, FailedFirst DEF NoHijack, NoClientFor
<1>17. QED
  BY <1>1, <1>2, <1>3, <1>4, <1>5, <1>6, <1>7, <1>8, <1>9, <1>10, <1>11, <1>12, <1>13,
     <1>14, <1>15, <1>16 DEF Resolve

LEMMA FirstNext == DiscoveryInv /\ FirstInv /\ [Next]_vars => FirstInv'
<1> SUFFICES ASSUME DiscoveryInv, FirstInv, [Next]_vars PROVE FirstInv'
  OBVIOUS
<1>1. CASE Resolve
  BY <1>1, ResolveFirst
<1>2. CASE Restart
  <2>1. pc' = "start" /\ steady' = UpIn(status')
    BY <1>2 DEF Restart
  <2>2. QED
    BY <2>1 DEF FirstInv, FirstSteadyWins, Dialling, Probing
<1>3. ASSUME NEW h \in Endpoints, Change(h)
      PROVE  FirstInv'
  <2>1. /\ UNCHANGED <<setup, pc, phase, queue, target, answer>>
        /\ steady' = steady \ {h}
    BY <1>3 DEF Change
  <2>2. \A x \in Endpoints \ {h} : status'[x] = status[x]
    BY <1>3 DEF Change, DiscoveryInv, TypeOK
  <2>3. steady' \subseteq UpIn(status')
    BY <2>1, <2>2 DEF FirstInv, UpIn
  <2>4. \A i : SteadyAt(i)' => SteadyAt(i)
    BY <2>1 DEF SteadyAt
  <2>5. FirstSteadyWins'
    BY <2>1 DEF FirstInv, FirstSteadyWins
  <2>6. /\ Dialling' <=> Dialling
        /\ \A p : Probing(p)' <=> Probing(p)
        /\ \A i : Awaits(i)' <=> Awaits(i)
        /\ \A x, i : (\E j \in DOMAIN Order(setup') : j <= i /\ Order(setup')[j] = x) <=> Reached(x, i)
    BY <2>1 DEF Dialling, Probing, Awaits, Reached
  <2>7. QED
    BY <2>1, <2>3, <2>4, <2>5, <2>6 DEF FirstInv, Reached
<1>4. CASE UNCHANGED vars
  BY <1>4 DEF vars, FirstInv, FirstSteadyWins, SteadyAt, Reached, Awaits, Dialling, Probing
<1>5. QED
  BY <1>1, <1>2, <1>3, <1>4 DEF Next

\* FirstInv holds in every behaviour.
THEOREM FirstInvariant == Spec => []FirstInv
<1>1. Init => FirstInv
  BY DEF Init, FirstInv, FirstSteadyWins, Dialling, Probing
<1>2. QED
  BY <1>1, DiscoveryInvariant, FirstNext, PTL DEF Spec

(***************************************************************************)
(* A daemon that is up throughout a resolution is not missed for one that  *)
(* comes after it in the announced order, nor for none.                    *)
(***************************************************************************)
THEOREM FirstSteadyWinsAlways == Spec => []FirstSteadyWins
<1>1. FirstInv => FirstSteadyWins
  BY DEF FirstInv
<1>2. QED
  BY <1>1, FirstInvariant, PTL

===============================================================================
