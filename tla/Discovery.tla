------------------------------ MODULE Discovery ------------------------------
(***************************************************************************)
(* resolveBuildkit: which endpoint a provider process connects to.         *)
(*                                                                         *)
(* An address from the configuration or from BUILDKIT_HOST decides alone.  *)
(* Otherwise, unless the embedded daemon is forced or discovery disabled,  *)
(* the docker daemons are probed in the order in which the docker CLI      *)
(* would pick them, then the buildkitd sockets, and the embedded daemon    *)
(* comes last.  A probe takes several steps, and daemons come and go       *)
(* beside it.  Each process resolves once; a next one begins afresh.       *)
(***************************************************************************)
EXTENDS Integers, Sequences

CONSTANTS
  Endpoints,      \* hosts that can be dialled
  DefaultSocket,  \* docker's default host
  UserSockets,    \* sockets of the desktop engines, in order
  LocalSockets,   \* sockets of buildkitd, in order
  Setups,         \* what the user may have set up
  MaxChanges      \* bound: daemons that come or go during one resolution

(***************************************************************************)
(* A docker context names a host, or none, and may hold TLS files.  The    *)
(* environment names a context; "none" stands for an unset variable.       *)
(***************************************************************************)
Names == {"none", "default", "work"}
Hosts == Endpoints \cup {"none"}
Setup == [address : Hosts, buildkitHost : Hosts, dockerHost : Hosts,
          dockerContext : Names, currentContext : Names,
          work : [host : Hosts, tls : BOOLEAN],
          autodiscover : BOOLEAN, embedded : {"auto", "force", "never"}]

ASSUME DiscoveryAssumption ==
  /\ Endpoints \cap {"none", "embedded", "error"} = {}
  /\ DefaultSocket \in Endpoints
  /\ UserSockets \in Seq(Endpoints) /\ LocalSockets \in Seq(Endpoints)
  /\ Setups \subseteq Setup
  /\ MaxChanges \in Nat

VARIABLES
  setup,    \* the configuration and the environment
  status,   \* per host: absent, dead (a file nobody serves), bare (a server
            \* without a usable BuildKit) or up
  pc,       \* step of the resolution
  phase,    \* what the dial in progress is for
  queue,    \* the candidates still to be tried
  target,   \* the host being dialled
  open,     \* the connections that are open, by protocol and host
  answer,   \* the host resolved to, "embedded", "error" or "none"
  dialled,  \* history: the hosts this resolution has contacted
  steady,   \* history: the hosts up since this resolution began, except those
            \* for which no client could be made
  changes   \* how many daemons have come or gone meanwhile

vars == <<setup, status, pc, phase, queue, target, open, answer,
          dialled, steady, changes>>
outside == <<setup, status, steady, changes>>

UpIn(st) == {h \in Endpoints : st[h] = "up"}

-----------------------------------------------------------------------------
(***************************************************************************)
(* dockerHostCandidates                                                    *)
(***************************************************************************)
Candidate(h) == [host |-> h, ok |-> TRUE]

\* A context without a host, or with TLS files, is reported, never dialled.
ContextCandidate(s, name) ==
  IF name = "default" THEN Candidate(DefaultSocket)
  ELSE [host |-> s.work.host, ok |-> s.work.host # "none" /\ ~s.work.tls]

FromCurrentContext(s) ==
  IF s.currentContext \in {"none", "default"} THEN <<>>
  ELSE <<ContextCandidate(s, s.currentContext)>>

\* The sockets of the desktop engines that exist.
UserCandidates(st) ==
  [i \in DOMAIN UserSockets |->
     [host |-> UserSockets[i], ok |-> st[UserSockets[i]] # "absent"]]

\* The first candidate of a host counts, one that is only reported too: the
\* later ones are passed over.
Deduplicated(cs) ==
  LET first(i) == cs[i].host = "none" \/ \A j \in 1 .. i - 1 : cs[j].host # cs[i].host
  IN [i \in DOMAIN cs |-> [host |-> cs[i].host, ok |-> cs[i].ok /\ first(i)]]

AllCandidates(s, st) ==
  Deduplicated(FromCurrentContext(s) \o <<Candidate(DefaultSocket)>> \o UserCandidates(st))

\* Mutant of DockerCandidates: DOCKER_HOST comes first, but not alone.
DockerHostFirst(s, st) ==
  IF s.dockerHost # "none"
    THEN Deduplicated(<<Candidate(s.dockerHost)>> \o AllCandidates(s, st))
    ELSE IF s.dockerContext # "none" THEN <<ContextCandidate(s, s.dockerContext)>>
    ELSE AllCandidates(s, st)

\* DOCKER_HOST and DOCKER_CONTEXT each decide alone.
DockerCandidates(s, st) ==
  IF s.dockerHost # "none" THEN <<Candidate(s.dockerHost)>>
  ELSE IF s.dockerContext # "none" THEN <<ContextCandidate(s, s.dockerContext)>>
  ELSE AllCandidates(s, st)

-----------------------------------------------------------------------------
Init ==
  /\ setup \in Setups
  /\ status \in [Endpoints -> {"dead", "up"}]
  /\ pc = "start" /\ phase = "none" /\ queue = <<>> /\ target = "none"
  /\ open = {} /\ answer = "none" /\ dialled = {}
  /\ steady = UpIn(status)
  /\ changes = 0

\* A daemon comes, goes, or leaves its socket behind.
Change(h) ==
  /\ changes < MaxChanges
  /\ \E s \in {"absent", "dead", "bare", "up"} \ {status[h]} :
       status' = [status EXCEPT ![h] = s]
  /\ steady' = steady \ {h}
  /\ changes' = changes + 1
  /\ UNCHANGED <<setup, pc, phase, queue, target, open, answer, dialled>>

\* The next process, perhaps with another setup.
Restart ==
  /\ pc = "done"
  /\ setup' \in Setups
  /\ pc' = "start" /\ phase' = "none" /\ queue' = <<>> /\ target' = "none"
  /\ open' = {} /\ answer' = "none" /\ dialled' = {}
  /\ steady' = UpIn(status)
  /\ changes' = 0
  /\ UNCHANGED status

-----------------------------------------------------------------------------
(***************************************************************************)
(* The order of resolveBuildkit.                                           *)
(***************************************************************************)
Explicit(s) == IF s.address # "none" THEN s.address ELSE s.buildkitHost

Answer(a) == pc' = "done" /\ answer' = a

\* dialDirect: a client is made, then validated.
DialDirect(h, for) ==
  /\ target' = h /\ phase' = for /\ pc' = "validate"
  /\ open' = {<<"buildkit", h>>}
  /\ dialled' = dialled \cup {h}

(***************************************************************************)
(* No client can be made for a host, for one because of what its address   *)
(* says: nothing is opened, and the host does not count as steady.         *)
(***************************************************************************)
NoClientFor(h) == /\ steady' = steady \ {h}
                  /\ UNCHANGED <<setup, status, changes, phase, target, dialled>>

NoExplicitClient ==
  /\ pc = "start" /\ Explicit(setup) # "none"
  /\ NoClientFor(Explicit(setup))
  /\ Answer("error")
  /\ UNCHANGED <<queue, open>>

UseExplicit ==
  /\ pc = "start" /\ Explicit(setup) # "none"
  /\ DialDirect(Explicit(setup), "explicit")
  /\ UNCHANGED <<outside, queue, answer>>

\* startEmbeddedBuildkitd, which may fail; forced, it comes before discovery.
ForceEmbedded ==
  /\ pc = "start" /\ Explicit(setup) = "none" /\ setup.embedded = "force"
  /\ \E a \in {"embedded", "error"} : Answer(a)
  /\ UNCHANGED <<outside, phase, queue, target, open, dialled>>

Discover ==
  /\ pc = "start" /\ Explicit(setup) = "none" /\ setup.embedded # "force"
  /\ IF setup.autodiscover
       THEN pc' = "docker" /\ queue' = DockerCandidates(setup, status)
       ELSE pc' = "last" /\ UNCHANGED queue
  /\ UNCHANGED <<outside, phase, target, open, answer, dialled>>

\* dialDockerGRPCHost: the docker daemon is pinged first.
DialDocker ==
  /\ pc = "docker" /\ queue # <<>> /\ Head(queue).ok
  /\ target' = Head(queue).host /\ phase' = "docker" /\ pc' = "ping"
  /\ queue' = Tail(queue)
  /\ open' = {<<"docker", Head(queue).host>>}
  /\ dialled' = dialled \cup {Head(queue).host}
  /\ UNCHANGED <<outside, answer>>

\* Neither a docker candidate's client nor a local socket's can be made.
NoClient ==
  /\ pc \in {"docker", "local"} /\ queue # <<>> /\ Head(queue).ok
  /\ pc = "local" => status[Head(queue).host] # "absent"
  /\ NoClientFor(Head(queue).host)
  /\ queue' = Tail(queue)
  /\ UNCHANGED <<pc, open, answer>>

\* Mutant of ReportDocker: a candidate with an error ends the probing.
StopAtReported ==
  /\ pc = "docker" /\ queue # <<>> /\ ~Head(queue).ok
  /\ queue' = <<>>
  /\ UNCHANGED <<outside, pc, phase, target, open, answer, dialled>>

\* Such a candidate, an absent socket or a second one is passed over.
ReportDocker ==
  /\ pc = "docker" /\ queue # <<>> /\ ~Head(queue).ok
  /\ queue' = Tail(queue)
  /\ UNCHANGED <<outside, pc, phase, target, open, answer, dialled>>

TurnToLocal ==
  /\ pc = "docker" /\ queue = <<>>
  /\ pc' = "local"
  /\ queue' = [i \in DOMAIN LocalSockets |-> Candidate(LocalSockets[i])]
  /\ UNCHANGED <<outside, phase, target, open, answer, dialled>>

\* A local socket is dialled if its file exists at that moment.
TryLocal ==
  /\ pc = "local" /\ queue # <<>>
  /\ queue' = Tail(queue)
  /\ IF status[Head(queue).host] = "absent"
       THEN UNCHANGED <<pc, phase, target, open, dialled>>
       ELSE DialDirect(Head(queue).host, "local")
  /\ UNCHANGED <<outside, answer>>

TurnToEmbedded ==
  /\ pc = "local" /\ queue = <<>>
  /\ pc' = "last"
  /\ UNCHANGED <<outside, phase, queue, target, open, answer, dialled>>

LastResort ==
  /\ pc = "last"
  /\ \E a \in {"error"} \cup (IF setup.embedded = "auto" THEN {"embedded"} ELSE {}) :
       Answer(a)
  /\ UNCHANGED <<outside, phase, queue, target, open, dialled>>

-----------------------------------------------------------------------------
(***************************************************************************)
(* A dial that fails closes what it opened.  For an explicit address that  *)
(* is the end; discovery goes on with the next candidate.                  *)
(***************************************************************************)
Failed ==
  /\ open' = {}
  /\ IF phase = "explicit" THEN Answer("error")
                           ELSE pc' = phase /\ UNCHANGED answer
  /\ UNCHANGED <<setup, status, changes, phase, queue, target, dialled>>

PingFails ==
  /\ pc = "ping" /\ status[target] \in {"absent", "dead"}
  /\ Failed /\ UNCHANGED steady

\* The daemon answers, but no BuildKit client can be made over it.
NoHijack ==
  /\ pc = "ping" /\ status[target] \in {"bare", "up"}
  /\ Failed /\ NoClientFor(target)

\* The daemon answers; BuildKit's client is made over the hijacked connection.
PingAnswered ==
  /\ pc = "ping" /\ status[target] \in {"bare", "up"}
  /\ open' = open \cup {<<"buildkit", target>>}
  /\ pc' = "validate"
  /\ UNCHANGED <<outside, phase, queue, target, answer, dialled>>

\* Mutant of ValidateFails: only BuildKit's client is closed.
ValidateFailsHalfOpen ==
  /\ pc = "validate" /\ status[target] # "up"
  /\ open' = open \ {<<"buildkit", target>>}
  /\ IF phase = "explicit" THEN Answer("error")
                           ELSE pc' = phase /\ UNCHANGED answer
  /\ UNCHANGED <<outside, phase, queue, target, dialled>>

\* ListWorkers fails, or reports no workers.
ValidateFails ==
  /\ pc = "validate" /\ status[target] # "up"
  /\ Failed /\ UNCHANGED steady

\* Mutant of Validated: the answer names the phase, not the host.
ValidatedPhase ==
  /\ pc = "validate" /\ status[target] = "up"
  /\ Answer(phase)
  /\ UNCHANGED <<outside, phase, queue, target, open, dialled>>

Validated ==
  /\ pc = "validate" /\ status[target] = "up"
  /\ Answer(target)
  /\ UNCHANGED <<outside, phase, queue, target, open, dialled>>

Resolve == \/ UseExplicit \/ ForceEmbedded \/ Discover \/ DialDocker \/ ReportDocker
           \/ TurnToLocal \/ TryLocal \/ TurnToEmbedded \/ LastResort
           \/ PingFails \/ PingAnswered \/ ValidateFails \/ Validated
           \/ NoExplicitClient \/ NoClient \/ NoHijack

Next == Resolve \/ Restart \/ \E h \in Endpoints : Change(h)

Spec == Init /\ [][Next]_vars

-----------------------------------------------------------------------------
TypeOK ==
  /\ setup \in Setups
  /\ status \in [Endpoints -> {"absent", "dead", "bare", "up"}]
  /\ pc \in {"start", "docker", "ping", "local", "validate", "last", "done"}
  /\ phase \in {"none", "explicit", "docker", "local"}
  /\ queue \in Seq([host : Hosts, ok : BOOLEAN])
  /\ target \in Hosts
  /\ open \subseteq {"docker", "buildkit"} \X Endpoints
  /\ answer \in Hosts \cup {"embedded", "error"}
  /\ dialled \subseteq Endpoints /\ steady \subseteq Endpoints
  /\ changes \in 0 .. MaxChanges

(***************************************************************************)
(* The order that discover.go:61-73 and dockerhost.go:48-59 announce, of   *)
(* the hosts a setup lets the provider contact.  A host may occur twice.   *)
(***************************************************************************)
DockerOrder(s) ==
  IF s.dockerHost # "none" THEN <<s.dockerHost>>
  ELSE LET named == IF s.dockerContext # "none" THEN s.dockerContext ELSE s.currentContext
           context == IF named = "default" THEN <<DefaultSocket>>
                      ELSE IF named = "none" \/ s.work.host = "none" \/ s.work.tls THEN <<>>
                      ELSE <<s.work.host>>
       IN IF s.dockerContext # "none" THEN context
          ELSE context \o <<DefaultSocket>> \o UserSockets

Order(s) == IF Explicit(s) # "none" THEN <<Explicit(s)>>
            ELSE IF s.embedded = "force" \/ ~s.autodiscover THEN <<>>
            ELSE DockerOrder(s) \o LocalSockets

Listed(s, h) == \E i \in DOMAIN Order(s) : Order(s)[i] = h

(***************************************************************************)
(* What the setup rules out is neither contacted nor started, however many *)
(* candidates fail: an explicit address never falls through, DOCKER_HOST   *)
(* and DOCKER_CONTEXT exclude all other daemons, and a discovery that is   *)
(* disabled dials nothing (discover.go:63-73).  There is one exception.    *)
(* Without discovery an explicit address is required, says the text of     *)
(* buildkit_autodiscover (provider.go:113, src/README.md:126); the code    *)
(* then starts the embedded daemon all the same (discover.go:127), unless  *)
(* that is disabled on its own (EmbeddedAnyway).                           *)
(***************************************************************************)
EmbeddedAnyway(s) == s.embedded # "never"

Hermetic ==
  /\ \A h \in dialled : Listed(setup, h)
  /\ Explicit(setup) # "none" => answer \in {"none", "error", Explicit(setup)}
  /\ Explicit(setup) = "none" /\ ~setup.autodiscover =>
       answer \in {"none", "error"} \/ (answer = "embedded" /\ EmbeddedAnyway(setup))
  /\ setup.embedded = "never" => answer # "embedded"

(***************************************************************************)
(* A daemon that is up throughout the resolution is not missed: what the   *)
(* resolution settles on does not come after it in the announced order     *)
(* (dockerhost.go:55-57).  Other daemons may come and go meanwhile.  The   *)
(* exception is the code's (dockerhost.go:81): a current context that is   *)
(* only reported takes the place of the later candidate for its host.      *)
(***************************************************************************)
Hidden(s) == IF s.currentContext = "work" /\ s.work.tls THEN {s.work.host} ELSE {}

FirstSteadyWins ==
  pc = "done" /\ setup.embedded # "force" =>
    \A i \in DOMAIN Order(setup) :
      Order(setup)[i] \in steady \ Hidden(setup) =>
        \E j \in DOMAIN Order(setup) : j <= i /\ Order(setup)[j] = answer

(***************************************************************************)
(* The connections of failed probes are closed: once the resolution is     *)
(* done only those of its answer are open (discover.go:229-253).           *)
(***************************************************************************)
OnlyAnswerOpen ==
  pc \in {"docker", "local", "last", "done"} =>
    \A c \in open : pc = "done" /\ c[2] = answer

(***************************************************************************)
(* The inductive invariant behind the first and the last: what is still to *)
(* be tried is listed, and what is open belongs to the dial in progress.   *)
(***************************************************************************)
Discovering == Explicit(setup) = "none" /\ setup.embedded # "force" /\ setup.autodiscover

DiscoveryInv ==
  /\ TypeOK /\ Hermetic /\ OnlyAnswerOpen
  /\ \A i \in DOMAIN queue : queue[i].ok => Listed(setup, queue[i].host)
  /\ pc = "local" \/ (pc = "validate" /\ phase = "local") =>
       \A i \in DOMAIN queue : queue[i].ok
  /\ pc = "start" => open = {} /\ answer = "none"
  /\ pc \in {"docker", "local"} => Discovering
  /\ pc = "last" => Explicit(setup) = "none"
  /\ pc \in {"ping", "validate"} =>
       /\ target \in Endpoints /\ open \subseteq {"docker", "buildkit"} \X {target}
       /\ phase # "none" /\ (phase = "explicit" \/ Discovering)
       /\ phase = "explicit" => target = Explicit(setup)
  /\ pc = "ping" => phase = "docker"

(***************************************************************************)
(* The one behind FirstSteadyWins, beside DiscoveryInv: a daemon that has  *)
(* been up all along is being dialled, which cannot fail, or still to be   *)
(* tried, and nothing after it in the order is tried before it.            *)
(***************************************************************************)
SteadyAt(i) == i \in DOMAIN Order(setup) /\ Order(setup)[i] \in steady \ Hidden(setup)

Reached(h, i) == \E j \in DOMAIN Order(setup) : j <= i /\ Order(setup)[j] = h

Awaits(i) ==
  \E k \in DOMAIN queue :
    /\ queue[k].ok /\ queue[k].host = Order(setup)[i]
    /\ \A l \in 1 .. k : queue[l].ok => Reached(queue[l].host, i)

Dialling == pc \in {"ping", "validate"}
Probing(p) == pc = p \/ (Dialling /\ phase = p)

FirstInv ==
  /\ steady \subseteq UpIn(status)
  /\ Dialling /\ phase = "explicit" => target = Explicit(setup) /\ target # "none"
  /\ pc = "last" => \A i \in DOMAIN Order(setup) : ~SteadyAt(i)
  /\ \A i \in DOMAIN Order(setup) : SteadyAt(i) =>
       /\ Dialling => Reached(target, i)
       /\ Probing("local") \/ (Probing("docker") /\ i <= Len(DockerOrder(setup))) =>
            Awaits(i) \/ (Dialling /\ target = Order(setup)[i])
       /\ Probing("docker") /\ i > Len(DockerOrder(setup)) =>
            \A k \in DOMAIN queue : queue[k].ok => Reached(queue[k].host, i)
  /\ FirstSteadyWins

=============================================================================
