---------------------------- MODULE RegistryAuth ----------------------------
(***************************************************************************)
(* The credentials of registries: the registry_auth blocks and the docker  *)
(* configuration of the provider, as a build's session asks for them       *)
(* (NewAuthProvider, configFileLazy) and as the provider's own registry    *)
(* reads do (authenticatorFor).                                            *)
(*                                                                         *)
(* A build has its own auth provider, which BuildKit calls from several    *)
(* goroutines.  `docker login` and the credential helpers change what the  *)
(* docker configuration holds at any time.                                 *)
(***************************************************************************)
EXTENDS Integers, Sequences, FiniteSets

CONSTANTS
  Builds,      \* builds that may run at the same time
  Requests,    \* goroutines of BuildKit that ask for credentials
  Spellings,   \* ways to write a registry host
  Secrets,     \* credentials
  Helped,      \* spellings that a credential helper answers for
  Configs,     \* provider configurations the user may write
  Stores,      \* what docker's configuration may hold at first
  Nobody,      \* the holder of a free mutex
  MaxChanges   \* bound: logins, logouts and renewed tokens

(***************************************************************************)
(* normalizeHost: a spelling is a scheme, a name and perhaps a slash; of   *)
(* these the name counts, and the names of Docker Hub are one.             *)
(***************************************************************************)
HubNames == {"index.docker.io/v1", "index.docker.io", "registry-1.docker.io", "docker.io"}

normalizeHost(s) == IF s.name \in HubNames THEN "docker.io" ELSE s.name

Keys == {normalizeHost(s) : s \in Spellings}
Answers == Secrets \cup {"anonymous"}

ASSUME AuthAssumption ==
  /\ Nobody \notin Requests
  /\ Secrets \cap {"anonymous", "none", "unknown"} = {}
  /\ Builds # {} /\ Spellings # {}
  /\ Helped \subseteq Spellings
  /\ Stores \subseteq [Spellings -> Secrets \cup {"anonymous"}]
  /\ \A c \in Configs : c.blocks \subseteq [address : Spellings, secret : Secrets]
                        /\ c.docker \in BOOLEAN
  /\ MaxChanges \in Nat

VARIABLES
  config,    \* the registry_auth blocks, and whether docker's configuration counts
  store,     \* what docker's configuration and helpers hold for each spelling
  changes,   \* how often the store has changed
  explicit,  \* per build: the block in force for each key
  loaded,    \* per build: whether docker's configuration file has been loaded
  file,      \* per build: the entries of the file as loaded
  memo,      \* per build: the answer remembered for each key
  lock,      \* per build: the holder of the mutex
  pc,        \* per request: its step
  build,     \* per request: the build it belongs to
  host,      \* per request: the spelling it asks for
  given,     \* history: the answers given in each build
  known,     \* history: what the store has held since each build began
  failed,    \* history: per build, the keys whose helper failed
  asked      \* history: per build and key, the spellings docker's configuration
             \* was consulted with

provider == <<explicit, loaded, file, memo, lock>>
requests == <<pc, build, host>>
histories == <<given, known, failed, asked>>
authVars == <<config, store, changes, provider, requests, histories>>

-----------------------------------------------------------------------------
\* What a request that is idle has in place of a build and a host.
NoBuild == CHOOSE b \in Builds : TRUE
NoHost == CHOOSE s \in Spellings : TRUE

\* The blocks are kept by their raw address in Configure.
Blocks(c, k) == {b.secret : b \in {x \in c.blocks : normalizeHost(x.address) = k}}

Key(r) == normalizeHost(host[r])
Pending(b) == {r \in Requests : pc[r] # "idle" /\ build[r] = b}

AuthInit ==
  /\ config \in Configs
  /\ store \in Stores
  /\ changes = 0
  /\ explicit = [b \in Builds |-> [k \in Keys |-> "none"]]
  /\ loaded = [b \in Builds |-> "none"]
  /\ file = [b \in Builds |-> [s \in Spellings |-> "anonymous"]]
  /\ memo = [b \in Builds |-> [k \in Keys |-> "unknown"]]
  /\ lock = [b \in Builds |-> Nobody]
  /\ pc = [r \in Requests |-> "idle"]
  /\ build = [r \in Requests |-> NoBuild]
  /\ host = [r \in Requests |-> NoHost]
  /\ given = [b \in Builds |-> {}]
  /\ known = [b \in Builds |-> {}]
  /\ failed = [b \in Builds |-> {}]
  /\ asked = [b \in Builds |-> [k \in Keys |-> <<>>]]

\* docker login, logout, or a helper that hands out another token.
ChangeStore(s) ==
  /\ changes < MaxChanges
  /\ \E a \in Answers \ {store[s]} :
       /\ store' = [store EXCEPT ![s] = a]
       /\ known' = [b \in Builds |-> known[b] \cup {<<s, a>>}]
  /\ changes' = changes + 1
  /\ UNCHANGED <<config, provider, requests, given, failed, asked>>

\* Mutant of InForce: the addresses are taken as they are written.
InForceAsWritten(c, k) ==
  LET cs == {b.secret : b \in {x \in c.blocks : x.address.name = k}}
  IN IF cs = {} THEN {"none"} ELSE cs

\* Of several blocks with one key the order of a map decides.
InForce(c, k) == IF Blocks(c, k) = {} THEN {"none"} ELSE Blocks(c, k)

\* Mutant of Begin: the look-ups outlive the build.
BeginKeepsMemo(b) ==
  /\ Pending(b) = {}
  /\ explicit' \in {[explicit EXCEPT ![b] = e] :
                      e \in {f \in [Keys -> Secrets \cup {"none"}] :
                               \A k \in Keys : f[k] \in InForce(config, k)}}
  /\ loaded' = [loaded EXCEPT ![b] = IF @ = "none" THEN "no" ELSE @]
  /\ given' = [given EXCEPT ![b] = {}]
  /\ known' = [known EXCEPT ![b] = {<<s, store[s]>> : s \in Spellings}]
  /\ failed' = [failed EXCEPT ![b] = {}]
  /\ asked' = [asked EXCEPT ![b] = [k \in Keys |-> <<>>]]
  /\ UNCHANGED <<config, store, changes, file, memo, lock, requests>>

\* NewAuthProvider: a build starts with nothing loaded and nothing remembered.
Begin(b) ==
  /\ Pending(b) = {}
  /\ explicit' \in {[explicit EXCEPT ![b] = e] :
                      e \in {f \in [Keys -> Secrets \cup {"none"}] :
                               \A k \in Keys : f[k] \in InForce(config, k)}}
  /\ loaded' = [loaded EXCEPT ![b] = "no"]
  /\ file' = [file EXCEPT ![b] = [s \in Spellings |-> "anonymous"]]
  /\ memo' = [memo EXCEPT ![b] = [k \in Keys |-> "unknown"]]
  /\ lock' = [lock EXCEPT ![b] = Nobody]
  /\ given' = [given EXCEPT ![b] = {}]
  /\ known' = [known EXCEPT ![b] = {<<s, store[s]>> : s \in Spellings}]
  /\ failed' = [failed EXCEPT ![b] = {}]
  /\ asked' = [asked EXCEPT ![b] = [k \in Keys |-> <<>>]]
  /\ UNCHANGED <<config, store, changes, requests>>

-----------------------------------------------------------------------------
(***************************************************************************)
(* A request: a block answers it; else docker's configuration, if it       *)
(* counts; else it is anonymous.                                           *)
(***************************************************************************)
Give(b, s, a) == given' = [given EXCEPT ![b] = @ \cup {<<s, a>>}]

Idle(r) == /\ pc' = [pc EXCEPT ![r] = "idle"]
           /\ build' = [build EXCEPT ![r] = NoBuild]
           /\ host' = [host EXCEPT ![r] = NoHost]

AskExplicit(b, s) ==
  /\ loaded[b] # "none"
  /\ explicit[b][normalizeHost(s)] # "none"
  /\ Give(b, s, explicit[b][normalizeHost(s)])
  /\ UNCHANGED <<config, store, changes, provider, requests, known, failed, asked>>

AskAnonymous(b, s) ==
  /\ loaded[b] # "none"
  /\ explicit[b][normalizeHost(s)] = "none" /\ ~config.docker
  /\ Give(b, s, "anonymous")
  /\ UNCHANGED <<config, store, changes, provider, requests, known, failed, asked>>

AskDocker(r, b, s) ==
  /\ loaded[b] # "none" /\ pc[r] = "idle"
  /\ explicit[b][normalizeHost(s)] = "none" /\ config.docker
  /\ pc' = [pc EXCEPT ![r] = "load"]
  /\ build' = [build EXCEPT ![r] = b]
  /\ host' = [host EXCEPT ![r] = s]
  /\ UNCHANGED <<config, store, changes, provider, histories>>

\* load: once per build; a file that cannot be loaded stays so.
Load(r) ==
  /\ pc[r] = "load"
  /\ \/ /\ loaded[build[r]] = "no"
        /\ \/ /\ loaded' = [loaded EXCEPT ![build[r]] = "yes"]
              /\ file' = [file EXCEPT ![build[r]] = store]
           \/ /\ loaded' = [loaded EXCEPT ![build[r]] = "failed"]
              /\ UNCHANGED file
     \/ /\ loaded[build[r]] # "no"
        /\ UNCHANGED <<loaded, file>>
  /\ pc' = [pc EXCEPT ![r] = "lock"]
  /\ UNCHANGED <<config, store, changes, explicit, memo, lock, build, host, histories>>

\* lookup, with the mutex: the key's answer is remembered ...
Remembered(r) ==
  /\ pc[r] = "lock" /\ lock[build[r]] = Nobody
  /\ memo[build[r]][Key(r)] # "unknown"
  /\ Give(build[r], host[r], memo[build[r]][Key(r)])
  /\ Idle(r)
  /\ UNCHANGED <<config, store, changes, provider, known, failed, asked>>

\* Mutant of Miss: the helper is called without the mutex.
MissUnlocked(r) ==
  /\ pc[r] = "lock" /\ lock[build[r]] = Nobody
  /\ memo[build[r]][Key(r)] = "unknown"
  /\ pc' = [pc EXCEPT ![r] = "consult"]
  /\ UNCHANGED <<config, store, changes, provider, build, host, histories>>

\* ... or is looked up while the mutex is held, helper and all.
Miss(r) ==
  /\ pc[r] = "lock" /\ lock[build[r]] = Nobody
  /\ memo[build[r]][Key(r)] = "unknown"
  /\ lock' = [lock EXCEPT ![build[r]] = r]
  /\ pc' = [pc EXCEPT ![r] = "consult"]
  /\ UNCHANGED <<config, store, changes, explicit, loaded, file, memo, build, host, histories>>

\* GetAuthConfig: a helper is asked now, the file's entries are as loaded.
GetAuthConfig(b, s) == IF loaded[b] = "failed" THEN "anonymous"
                       ELSE IF s \in Helped THEN store[s] ELSE file[b][s]

Consulted(r, a) ==
  /\ pc[r] = "consult"
  /\ memo' = [memo EXCEPT ![build[r]][Key(r)] = a]
  /\ lock' = [lock EXCEPT ![build[r]] = Nobody]
  /\ asked' = [asked EXCEPT ![build[r]][Key(r)] = Append(@, host[r])]
  /\ Give(build[r], host[r], a)
  /\ Idle(r)
  /\ UNCHANGED <<config, store, changes, explicit, loaded, file, known>>

Consult(r) == /\ Consulted(r, GetAuthConfig(build[r], host[r]))
              /\ UNCHANGED failed

\* Mutant of ConsultFails: the error leaves before the answer is remembered.
ConsultFailsForgets(r) ==
  /\ pc[r] = "consult"
  /\ host[r] \in Helped /\ loaded[build[r]] # "failed"
  /\ lock' = [lock EXCEPT ![build[r]] = Nobody]
  /\ asked' = [asked EXCEPT ![build[r]][Key(r)] = Append(@, host[r])]
  /\ failed' = [failed EXCEPT ![build[r]] = @ \cup {Key(r)}]
  /\ Give(build[r], host[r], "anonymous")
  /\ Idle(r)
  /\ UNCHANGED <<config, store, changes, explicit, loaded, file, memo, known>>

\* A helper that fails leaves the key anonymous for the rest of the build.
ConsultFails(r) ==
  /\ host[r] \in Helped /\ loaded[build[r]] # "failed"
  /\ Consulted(r, "anonymous")
  /\ failed' = [failed EXCEPT ![build[r]] = @ \cup {Key(r)}]

Ask(r, b, s) == AskExplicit(b, s) \/ AskAnonymous(b, s) \/ AskDocker(r, b, s)
Lookup(r) == Load(r) \/ Remembered(r) \/ Miss(r) \/ Consult(r) \/ ConsultFails(r)

AuthNext ==
  \/ \E b \in Builds : Begin(b) \/ \E r \in Requests, s \in Spellings : Ask(r, b, s)
  \/ \E r \in Requests : Lookup(r)
  \/ \E s \in Spellings : ChangeStore(s)

AuthSpec == AuthInit /\ [][AuthNext]_authVars

-----------------------------------------------------------------------------
AuthTypeOK ==
  /\ config \in Configs
  /\ store \in [Spellings -> Answers]
  /\ changes \in 0 .. MaxChanges
  /\ explicit \in [Builds -> [Keys -> Secrets \cup {"none"}]]
  /\ loaded \in [Builds -> {"none", "no", "failed", "yes"}]
  /\ file \in [Builds -> [Spellings -> Answers]]
  /\ memo \in [Builds -> [Keys -> Answers \cup {"unknown"}]]
  /\ lock \in [Builds -> Requests \cup {Nobody}]
  /\ pc \in [Requests -> {"idle", "load", "lock", "consult"}]
  /\ build \in [Requests -> Builds]
  /\ host \in [Requests -> Spellings]
  /\ given \in [Builds -> SUBSET (Spellings \X Answers)]
  /\ known \in [Builds -> SUBSET (Spellings \X Answers)]
  /\ failed \in [Builds -> SUBSET Keys]
  /\ asked \in [Builds -> [Keys -> Seq(Spellings)]]

(***************************************************************************)
(* A registry_auth block takes precedence for its host in every build,     *)
(* however block and request spell the host (auth.go:56-59,                *)
(* docs/index.md:67): docker's configuration never answers in its place.   *)
(***************************************************************************)
ExplicitWins ==
  \A b \in Builds : \A g \in given[b] :
    Blocks(config, normalizeHost(g[1])) # {} => g[2] \in Blocks(config, normalizeHost(g[1]))

(***************************************************************************)
(* One build sees one credential per registry, whatever concurrent         *)
(* requests, helper failures and logins there are (auth.go:99-106).        *)
(***************************************************************************)
OneAnswer ==
  \A b \in Builds : \A g, h \in given[b] :
    normalizeHost(g[1]) = normalizeHost(h[1]) => g[2] = h[2]

(***************************************************************************)
(* An answer that no block gives is one that docker's configuration held,  *)
(* since the build began, for the very spelling it was consulted with:     *)
(* never one remembered from an earlier build, nor one of another host.    *)
(* It is anonymous only if nothing was held for that spelling, or the file *)
(* or the helper failed.  With docker_config = false nothing comes from    *)
(* there (docs/index.md:59).  The spelling asked first decides for every   *)
(* spelling of the registry, also for one that a credential is held for    *)
(* (auth.go:144).                                                          *)
(***************************************************************************)
AskedFirst(b, k) == asked[b][k][1]

Justified(b, k, a) ==
  IF config.docker
    THEN /\ Len(asked[b][k]) > 0 /\ normalizeHost(AskedFirst(b, k)) = k
         /\ \/ <<AskedFirst(b, k), a>> \in known[b]
            \/ a = "anonymous" /\ (k \in failed[b] \/ loaded[b] = "failed")
    ELSE a = "anonymous"

FreshPerBuild ==
  \A b \in Builds : \A g \in given[b] :
    Blocks(config, normalizeHost(g[1])) = {} => Justified(b, normalizeHost(g[1]), g[2])

(***************************************************************************)
(* Docker's configuration, and with it a helper process, is consulted at   *)
(* most once per registry in a build, also when it failed (auth.go:101-    *)
(* 103), however many goroutines ask at the same time.                     *)
(***************************************************************************)
AskedOnce == \A b \in Builds : \A k \in Keys : Len(asked[b][k]) <= 1

\* Mutant of authenticatorFor: the docker configuration comes first.
DockerFirst(s) ==
  IF config.docker /\ store[s] # "anonymous" THEN {store[s]}
  ELSE IF Blocks(config, normalizeHost(s)) # {} THEN Blocks(config, normalizeHost(s))
  ELSE {"anonymous"}

(***************************************************************************)
(* The credentials that a registry read may use now: it does not share a   *)
(* build's provider.  Loading the file or the helper may fail.             *)
(***************************************************************************)
authenticatorFor(s) ==
  IF Blocks(config, normalizeHost(s)) # {} THEN Blocks(config, normalizeHost(s))
  ELSE IF config.docker THEN {store[s], "anonymous"}
  ELSE {"anonymous"}

(***************************************************************************)
(* Registry reads use "the same precedence as builds" (registry.go:32-34): *)
(* where a build was answered from a block, a read made at any time since  *)
(* uses a block of that registry, perhaps the same, and where it was not,  *)
(* a read does not either, nor the entry of another registry.              *)
(***************************************************************************)
SamePrecedence ==
  \A b \in Builds : \A g \in given[b] :
    IF explicit[b][normalizeHost(g[1])] # "none"
      THEN g[2] \in authenticatorFor(g[1])
           /\ authenticatorFor(g[1]) \subseteq Blocks(config, normalizeHost(g[1]))
      ELSE authenticatorFor(g[1]) \subseteq
             {"anonymous"} \cup (IF config.docker THEN {store[g[1]]} ELSE {})

-----------------------------------------------------------------------------
(***************************************************************************)
(* The inductive invariant behind these.                                   *)
(***************************************************************************)
\* The blocks in force are blocks of the configuration.
BlocksInv == \A b \in Builds : loaded[b] # "none" =>
               \A k \in Keys : explicit[b][k] \in InForce(config, k)

\* What a build can get from docker's configuration was there since it began.
StoreInv ==
  \A b \in Builds :
    /\ loaded[b] # "none" => \A s \in Spellings : <<s, store[s]>> \in known[b]
    /\ loaded[b] = "yes" => \A s \in Spellings : <<s, file[b][s]>> \in known[b]

\* A request that waits has no block, and who consults holds the mutex.
RequestInv ==
  \A r \in Requests :
    /\ pc[r] # "idle" => /\ loaded[build[r]] # "none" /\ config.docker
                         /\ Blocks(config, Key(r)) = {}
    /\ pc[r] \in {"lock", "consult"} => loaded[build[r]] # "no"
    /\ pc[r] = "consult" => /\ lock[build[r]] = r
                            /\ memo[build[r]][Key(r)] = "unknown"

\* An answer is remembered when docker's configuration has been consulted.
MemoInv ==
  \A b \in Builds : \A k \in Keys :
    /\ Len(asked[b][k]) = IF memo[b][k] = "unknown" THEN 0 ELSE 1
    /\ memo[b][k] # "unknown" => Justified(b, k, memo[b][k]) /\ config.docker

GivenInv ==
  \A b \in Builds, s \in Spellings, a \in Answers :
    <<s, a>> \in given[b] =>
      /\ loaded[b] # "none"
      /\ Blocks(config, normalizeHost(s)) # {} => a = explicit[b][normalizeHost(s)]
      /\ Blocks(config, normalizeHost(s)) = {} =>
           a = IF config.docker THEN memo[b][normalizeHost(s)] ELSE "anonymous"

AuthInv == AuthTypeOK /\ BlocksInv /\ StoreInv /\ RequestInv /\ MemoInv /\ GivenInv

=============================================================================
