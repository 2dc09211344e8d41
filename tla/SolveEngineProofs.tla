-------------------------- MODULE SolveEngineProofs -------------------------
(***************************************************************************)
(* AuthInv is an invariant of AuthSpec, and the properties of RegistryAuth *)
(* follow from it.  A build's session uses its auth provider as            *)
(* RegistryAuth says, so what is proved of it holds of every build; and    *)
(* Run returns only what became of its solve.                              *)
(***************************************************************************)
EXTENDS SolveEngine, TLAPS

\* A spelling's key is a key, and what a key's blocks hold are secrets.
LEMMA KeyType == \A s \in Spellings : normalizeHost(s) \in Keys
  BY DEF Keys

LEMMA BlocksType ==
  ASSUME NEW c \in Configs, NEW k
  PROVE  /\ Blocks(c, k) \subseteq Secrets
         /\ InForce(c, k) \subseteq Secrets \cup {"none"}
         /\ \A e \in InForce(c, k) : e = "none" <=> Blocks(c, k) = {}
         /\ \A e \in InForce(c, k) : Blocks(c, k) # {} => e \in Blocks(c, k)
  <1>1. c.blocks \subseteq [address : Spellings, secret : Secrets]
    BY AuthAssumption
  <1>2. Blocks(c, k) \subseteq Secrets
    BY <1>1 DEF Blocks
  <1>3. "none" \notin Secrets
    BY AuthAssumption
  <1>4. QED
    BY <1>2, <1>3 DEF InForce

\* The answers of docker's configuration are answers.
LEMMA AnswerType ==
  ASSUME AuthTypeOK, NEW r \in Requests
  PROVE  /\ GetAuthConfig(build[r], host[r]) \in Answers
         /\ Key(r) \in Keys /\ build[r] \in Builds /\ host[r] \in Spellings
         /\ "anonymous" \in Answers
  BY KeyType DEF AuthTypeOK, GetAuthConfig, Answers, Key

\* "unknown" and "none" are no answers.
LEMMA NoAnswer == "unknown" \notin Answers /\ "none" \notin Secrets
  BY AuthAssumption DEF Answers

-----------------------------------------------------------------------------
\* The initial states satisfy the invariant.
LEMMA AuthInitInv == AuthInit => AuthInv
  <1> SUFFICES ASSUME AuthInit PROVE AuthInv
    OBVIOUS
  <1>1. NoBuild \in Builds /\ NoHost \in Spellings
    BY AuthAssumption DEF NoBuild, NoHost
  <1>2. AuthTypeOK
    BY <1>1, AuthAssumption DEF AuthInit, AuthTypeOK, Answers
  <1>3. BlocksInv /\ StoreInv /\ RequestInv
    BY DEF AuthInit, BlocksInv, StoreInv, RequestInv
  <1>4. MemoInv /\ GivenInv
    BY DEF AuthInit, MemoInv, GivenInv
  <1>5. QED
    BY <1>2, <1>3, <1>4 DEF AuthInv

\* A change of docker's configuration.
LEMMA ChangeStoreInv ==
  ASSUME AuthInv, NEW s \in Spellings, ChangeStore(s)
  PROVE  AuthInv'
  <1> USE DEF AuthInv
  <1>1. AuthTypeOK'
    BY AuthAssumption DEF ChangeStore, AuthTypeOK, provider, requests
  <1>2. BlocksInv' /\ RequestInv'
    BY DEF ChangeStore, BlocksInv, RequestInv, provider, requests, Key
  <1>3. StoreInv'
    BY DEF ChangeStore, StoreInv, provider, AuthTypeOK
  <1>4. MemoInv'
    <2>1. \A b \in Builds : known[b] \subseteq known'[b]
      BY DEF ChangeStore, AuthTypeOK
    <2>2. QED
      BY <2>1 DEF ChangeStore, MemoInv, Justified, AskedFirst, provider
  <1>5. GivenInv'
    BY DEF ChangeStore, GivenInv, provider
  <1>6. QED
    BY <1>1, <1>2, <1>3, <1>4, <1>5

\* The beginning of a build.
LEMMA BeginInv ==
  ASSUME AuthInv, NEW b \in Builds, Begin(b)
  PROVE  AuthInv'
  <1> USE DEF AuthInv
  <1>0. PICK e \in [Keys -> Secrets \cup {"none"}] :
          (\A k \in Keys : e[k] \in InForce(config, k)) /\ explicit' = [explicit EXCEPT ![b] = e]
    BY DEF Begin
  <1>1. AuthTypeOK'
    BY <1>0, AuthAssumption DEF Begin, AuthTypeOK, requests, Answers
  <1>2. BlocksInv'
    BY <1>0 DEF Begin, BlocksInv, AuthTypeOK
  <1>3. StoreInv'
    BY DEF Begin, StoreInv, AuthTypeOK
  <1>4. \A r \in Requests : pc[r] # "idle" => build[r] # b
    BY DEF Begin, Pending
  <1>5. RequestInv'
    BY <1>4 DEF Begin, RequestInv, AuthTypeOK, requests, Key
  <1>6. MemoInv'
    <2> SUFFICES ASSUME NEW c \in Builds, NEW k \in Keys
                 PROVE  /\ Len(asked'[c][k]) = IF memo'[c][k] = "unknown" THEN 0 ELSE 1
                        /\ memo'[c][k] # "unknown" =>
                             Justified(c, k, memo[c][k])' /\ config'.docker
      BY DEF MemoInv
    <2>1. CASE c = b
      BY <2>1 DEF Begin, AuthTypeOK
    <2>2. CASE c # b
      <3>1. /\ asked'[c] = asked[c] /\ memo'[c] = memo[c] /\ known'[c] = known[c]
            /\ failed'[c] = failed[c] /\ loaded'[c] = loaded[c] /\ config' = config
        BY <2>2 DEF Begin, AuthTypeOK
      <3>2. QED
        BY <3>1 DEF MemoInv, Justified, AskedFirst
    <2>3. QED
      BY <2>1, <2>2
  <1>7. GivenInv'
    <2>1. \A c \in Builds \ {b} :
            /\ given'[c] = given[c] /\ memo'[c] = memo[c] /\ loaded'[c] = loaded[c]
            /\ explicit'[c] = explicit[c]
      BY <1>0 DEF Begin, AuthTypeOK
    <2>2. given'[b] = {} /\ config' = config
      BY DEF Begin, AuthTypeOK
    <2>3. QED
      BY <2>1, <2>2 DEF GivenInv
  <1>8. QED
    BY <1>1, <1>2, <1>3, <1>5, <1>6, <1>7

\* A request that is answered at once, or that turns to docker's configuration.
LEMMA AskInv ==
  ASSUME AuthInv, NEW b \in Builds, NEW r \in Requests, NEW s \in Spellings, Ask(r, b, s)
  PROVE  AuthInv'
  <1> USE DEF AuthInv
  <1>0. normalizeHost(s) \in Keys
    BY KeyType
  <1>1. explicit[b][normalizeHost(s)] = "none" <=> Blocks(config, normalizeHost(s)) = {}
    BY <1>0, BlocksType DEF BlocksInv, AuthTypeOK, Ask, AskExplicit, AskAnonymous, AskDocker
  <1>2. CASE AskExplicit(b, s)
    <2>1. AuthTypeOK'
      BY <1>2, <1>0 DEF AskExplicit, AuthTypeOK, provider, requests, Give, Answers
    <2>2. BlocksInv' /\ StoreInv' /\ RequestInv' /\ MemoInv'
      BY <1>2 DEF AskExplicit, BlocksInv, StoreInv, RequestInv, MemoInv, provider, requests, Key, Justified, AskedFirst
    <2>3. GivenInv'
      BY <1>0, <1>2, <1>1, BlocksType DEF AskExplicit, GivenInv, provider, Give, AuthTypeOK
    <2>4. QED
      BY <2>1, <2>2, <2>3
  <1>3. CASE AskAnonymous(b, s)
    <2>1. AuthTypeOK'
      BY <1>3 DEF AskAnonymous, AuthTypeOK, provider, requests, Give, Answers
    <2>2. BlocksInv' /\ StoreInv' /\ RequestInv' /\ MemoInv'
      BY <1>3 DEF AskAnonymous, BlocksInv, StoreInv, RequestInv, MemoInv, provider, requests, Key, Justified, AskedFirst
    <2>3. GivenInv'
      BY <1>3, <1>1 DEF AskAnonymous, GivenInv, provider, Give, AuthTypeOK
    <2>4. QED
      BY <2>1, <2>2, <2>3
  <1>4. CASE AskDocker(r, b, s)
    <2>1. AuthTypeOK'
      BY <1>4 DEF AskDocker, AuthTypeOK, provider, histories
    <2>2. BlocksInv' /\ StoreInv' /\ MemoInv' /\ GivenInv'
      <3>1. BlocksInv' /\ StoreInv'
        BY <1>4 DEF AskDocker, BlocksInv, StoreInv, provider, histories
      <3>2. MemoInv'
        BY <1>4 DEF AskDocker, MemoInv, provider, histories, Justified, AskedFirst
      <3>3. GivenInv'
        BY <1>4 DEF AskDocker, GivenInv, provider, histories
      <3>4. QED
        BY <3>1, <3>2, <3>3
    <2>3. RequestInv'
      BY <1>4, <1>1 DEF AskDocker, RequestInv, provider, Key, AuthTypeOK
    <2>4. QED
      BY <2>1, <2>2, <2>3
  <1>5. QED
    BY <1>2, <1>3, <1>4 DEF Ask

\* Loading the file.
LEMMA LoadInv ==
  ASSUME AuthInv, NEW r \in Requests, Load(r)
  PROVE  AuthInv'
  <1> USE DEF AuthInv
  <1>0. build[r] \in Builds /\ loaded[build[r]] # "none" /\ pc[r] = "load"
    BY DEF AuthTypeOK, RequestInv, Load
  <1>a. \/ loaded' = [loaded EXCEPT ![build[r]] = "yes"] /\ file' = [file EXCEPT ![build[r]] = store]
           /\ loaded[build[r]] = "no"
        \/ loaded' = [loaded EXCEPT ![build[r]] = "failed"] /\ file' = file
           /\ loaded[build[r]] = "no"
        \/ loaded' = loaded /\ file' = file /\ loaded[build[r]] # "no"
    BY DEF Load
  <1>b. /\ loaded' \in [Builds -> {"none", "no", "failed", "yes"}]
        /\ file' \in [Builds -> [Spellings -> Answers]]
    <2>1. /\ loaded \in [Builds -> {"none", "no", "failed", "yes"}]
          /\ file \in [Builds -> [Spellings -> Answers]] /\ store \in [Spellings -> Answers]
      BY DEF AuthTypeOK
    <2>2. QED
      <3>1. \/ loaded' = [loaded EXCEPT ![build[r]] = "yes"]
            \/ loaded' = [loaded EXCEPT ![build[r]] = "failed"]
            \/ loaded' = loaded
        BY <1>a, Zenon
      <3>2. file' = [file EXCEPT ![build[r]] = store] \/ file' = file
        BY <1>a, Zenon
      <3>3. loaded' \in [Builds -> {"none", "no", "failed", "yes"}]
        BY <1>0, <2>1, <3>1
      <3>4. file' \in [Builds -> [Spellings -> Answers]]
        BY <1>0, <2>1, <3>2
      <3>5. QED
        BY <3>3, <3>4
  <1>1. AuthTypeOK'
    BY <1>0, <1>b DEF Load, AuthTypeOK, histories
  <1>2. /\ \A b \in Builds : loaded[b] # "no" => loaded'[b] = loaded[b]
        /\ \A b \in Builds : loaded'[b] = "none" <=> loaded[b] = "none"
        /\ loaded'[build[r]] # "no"
    BY <1>0, <1>a DEF AuthTypeOK
  <1>3. BlocksInv'
    BY <1>2 DEF Load, BlocksInv
  <1>4. StoreInv'
    <2>1. UNCHANGED <<store, known>>
      BY DEF Load, histories
    <2>2. ASSUME NEW b \in Builds, loaded'[b] # "none", NEW s \in Spellings
          PROVE  <<s, store[s]>> \in known[b]
      BY <1>2, <2>2 DEF StoreInv
    <2>3. ASSUME NEW b \in Builds, loaded'[b] = "yes", NEW s \in Spellings
          PROVE  <<s, file'[b][s]>> \in known[b]
      <3>1. CASE file'[b] = file[b] /\ loaded[b] = "yes"
        BY <3>1 DEF StoreInv
      <3>2. CASE file'[b] = store
        BY <2>2, <2>3, <3>2
      <3>3. QED
        BY <1>0, <1>a, <2>3, <3>1, <3>2 DEF AuthTypeOK
    <2>4. QED
      BY <2>1, <2>2, <2>3 DEF StoreInv
  <1>5. RequestInv'
    BY <1>0, <1>2 DEF Load, RequestInv, AuthTypeOK, Key
  <1>6. MemoInv'
    BY <1>2 DEF Load, MemoInv, Justified, AskedFirst, histories
  <1>7. GivenInv'
    BY <1>2 DEF Load, GivenInv, histories
  <1>8. QED
    BY <1>1, <1>3, <1>4, <1>5, <1>6, <1>7

\* Taking the mutex, with or without a remembered answer.
LEMMA LockInv ==
  ASSUME AuthInv, NEW r \in Requests, Remembered(r) \/ Miss(r)
  PROVE  AuthInv'
  <1> USE DEF AuthInv
  <1>0. build[r] \in Builds /\ host[r] \in Spellings /\ Key(r) \in Keys
    BY AnswerType
  <1>1. NoBuild \in Builds /\ NoHost \in Spellings
    BY AuthAssumption DEF NoBuild, NoHost
  <1>2. CASE Remembered(r)
    <2>1. memo[build[r]][Key(r)] \in Answers
      BY <1>2, <1>0 DEF Remembered, AuthTypeOK
    <2>2. AuthTypeOK'
      BY <1>2, <1>0, <1>1, <2>1 DEF Remembered, AuthTypeOK, provider, Give, Idle
    <2>3. BlocksInv' /\ StoreInv' /\ MemoInv'
      BY <1>2 DEF Remembered, BlocksInv, StoreInv, MemoInv, provider,
         Justified, AskedFirst
    <2>4. RequestInv'
      BY <1>2 DEF Remembered, RequestInv, provider, Idle, AuthTypeOK, Key
    <2>5. GivenInv'
      BY <1>2, <1>0 DEF Remembered, GivenInv, RequestInv, provider, Give, AuthTypeOK, Key
    <2>6. QED
      BY <2>2, <2>3, <2>4, <2>5
  <1>3. CASE Miss(r)
    <2>1. AuthTypeOK'
      BY <1>3, <1>0 DEF Miss, AuthTypeOK, histories
    <2>2. BlocksInv' /\ StoreInv' /\ MemoInv' /\ GivenInv'
      BY <1>3 DEF Miss, BlocksInv, StoreInv, MemoInv, GivenInv, Justified, AskedFirst,
         histories
    <2>3. RequestInv'
      BY <1>3, <1>0, AuthAssumption DEF Miss, RequestInv, AuthTypeOK, Key
    <2>4. QED
      BY <2>1, <2>2, <2>3
  <1>4. QED
    BY <1>2, <1>3

\* The answer of docker's configuration, or its failure, is remembered.
LEMMA ConsultedInv ==
  ASSUME AuthInv, NEW r \in Requests, NEW a \in Answers, Consulted(r, a),
         \/ failed' = failed
         \/ failed' = [failed EXCEPT ![build[r]] = @ \cup {Key(r)}],
         <<host[r], a>> \in known[build[r]]
           \/ (a = "anonymous" /\ (Key(r) \in failed'[build[r]] \/ loaded[build[r]] = "failed"))
  PROVE  AuthInv'
  <1> USE DEF AuthInv
  <1>0. build[r] \in Builds /\ host[r] \in Spellings /\ Key(r) \in Keys
    BY AnswerType
  <1>1. NoBuild \in Builds /\ NoHost \in Spellings
    BY AuthAssumption DEF NoBuild, NoHost
  <1>a. failed' \in [Builds -> SUBSET Keys] /\ \A b \in Builds : failed[b] \subseteq failed'[b]
    <2>1. failed \in [Builds -> SUBSET Keys]
      BY DEF AuthTypeOK
    <2>2. QED
      BY <1>0, <2>1
  <1>b. asked' \in [Builds -> [Keys -> Seq(Spellings)]] /\ memo' \in [Builds -> [Keys -> Answers \cup {"unknown"}]]
    <2>1. Append(asked[build[r]][Key(r)], host[r]) \in Seq(Spellings)
      BY <1>0 DEF AuthTypeOK
    <2>2. QED
      BY <1>0, <2>1 DEF Consulted, AuthTypeOK
  <1>2. AuthTypeOK'
    BY <1>0, <1>1, <1>a, <1>b DEF Consulted, AuthTypeOK, Give, Idle
  <1>3. BlocksInv' /\ StoreInv'
    BY DEF Consulted, BlocksInv, StoreInv
  <1>4. RequestInv'
    <2>1. \A q \in Requests : q # r /\ pc[q] = "consult" => build[q] # build[r]
      BY DEF RequestInv, Consulted
    <2>2. QED
      BY <2>1, <1>0 DEF Consulted, RequestInv, Idle, AuthTypeOK, Key
  <1>5. memo[build[r]][Key(r)] = "unknown" /\ config.docker /\ loaded[build[r]] # "none"
        /\ Blocks(config, Key(r)) = {}
    BY DEF Consulted, RequestInv
  <1>7. MemoInv'
    <2> SUFFICES ASSUME NEW b \in Builds, NEW k \in Keys
                 PROVE  /\ Len(asked'[b][k]) = IF memo'[b][k] = "unknown" THEN 0 ELSE 1
                        /\ memo'[b][k] # "unknown" =>
                             Justified(b, k, memo[b][k])' /\ config'.docker
      BY DEF MemoInv
    <2>1. CASE b = build[r] /\ k = Key(r)
      <3>1. Len(asked'[b][k]) = 1 /\ asked'[b][k][1] = host[r]
        <4>1. Len(asked[b][k]) = 0 /\ asked[b][k] \in Seq(Spellings)
          BY <1>0, <1>5, <2>1 DEF MemoInv, AuthTypeOK
        <4>2. asked'[b][k] = Append(asked[b][k], host[r])
          BY <1>0, <2>1 DEF Consulted, AuthTypeOK
        <4>3. QED
          BY <1>0, <4>1, <4>2
      <3>2. memo'[b][k] = a /\ config' = config /\ known' = known /\ loaded' = loaded
        BY <1>0, <2>1 DEF Consulted, AuthTypeOK
      <3>3. QED
        BY <1>0, <1>5, <2>1, <3>1, <3>2, NoAnswer DEF Justified, AskedFirst, Key
    <2>2. CASE ~(b = build[r] /\ k = Key(r))
      <3>1. /\ asked'[b][k] = asked[b][k] /\ memo'[b][k] = memo[b][k] /\ config' = config
            /\ known' = known /\ loaded' = loaded
        BY <1>0, <2>2 DEF Consulted, AuthTypeOK
      <3>2. QED
        BY <1>a, <3>1 DEF MemoInv, Justified, AskedFirst
    <2>3. QED
      BY <2>1, <2>2
  <1>8. GivenInv'
    <2> SUFFICES ASSUME NEW b \in Builds, NEW s \in Spellings, NEW v \in Answers,
                        <<s, v>> \in given'[b]
                 PROVE  /\ loaded'[b] # "none"
                        /\ Blocks(config', normalizeHost(s)) # {} =>
                             v = explicit'[b][normalizeHost(s)]
                        /\ Blocks(config', normalizeHost(s)) = {} =>
                             v = IF config'.docker THEN memo'[b][normalizeHost(s)] ELSE "anonymous"
      BY DEF GivenInv
    <2>1. config' = config /\ loaded' = loaded /\ explicit' = explicit
      BY DEF Consulted
    <2>2. CASE b = build[r] /\ normalizeHost(s) = Key(r)
      <3>1. <<s, v>> \notin given[b]
        BY <1>5, <2>2, NoAnswer DEF GivenInv
      <3>2. v = a
        BY <1>0, <2>2, <3>1 DEF Consulted, Give, AuthTypeOK
      <3>3. memo'[b][normalizeHost(s)] = a
        BY <1>0, <2>2 DEF Consulted, AuthTypeOK
      <3>4. QED
        BY <1>5, <2>1, <2>2, <3>2, <3>3
    <2>3. CASE ~(b = build[r] /\ normalizeHost(s) = Key(r))
      <3>1. <<s, v>> \in given[b]
        BY <1>0, <2>3 DEF Consulted, Give, AuthTypeOK, Key
      <3>2. normalizeHost(s) \in Keys
        BY KeyType
      <3>3. memo'[b][normalizeHost(s)] = memo[b][normalizeHost(s)]
        BY <1>0, <2>3, <3>2 DEF Consulted, AuthTypeOK
      <3>4. QED
        BY <2>1, <3>1, <3>3 DEF GivenInv
    <2>4. QED
      BY <2>2, <2>3
  <1>9. QED
    BY <1>2, <1>3, <1>4, <1>7, <1>8

\* Every step of a request keeps the invariant.
LEMMA LookupInv ==
  ASSUME AuthInv, NEW r \in Requests, Lookup(r)
  PROVE  AuthInv'
  <1>0. build[r] \in Builds /\ host[r] \in Spellings /\ Key(r) \in Keys
        /\ GetAuthConfig(build[r], host[r]) \in Answers /\ "anonymous" \in Answers
    BY AnswerType DEF AuthInv
  <1>1. CASE Consult(r)
    <2>1. loaded[build[r]] \in {"failed", "yes"}
      BY <1>0, <1>1 DEF Consult, Consulted, AuthInv, RequestInv, AuthTypeOK
    <2>2. \/ <<host[r], GetAuthConfig(build[r], host[r])>> \in known[build[r]]
          \/ GetAuthConfig(build[r], host[r]) = "anonymous" /\ loaded[build[r]] = "failed"
      BY <1>0, <2>1 DEF GetAuthConfig, AuthInv, StoreInv
    <2>3. QED
      BY <1>0, <1>1, <2>2, ConsultedInv DEF Consult
  <1>2. CASE ConsultFails(r)
    <2>1. Key(r) \in failed'[build[r]]
      BY <1>0, <1>2 DEF ConsultFails, AuthInv, AuthTypeOK
    <2>2. QED
      BY <1>0, <1>2, <2>1, ConsultedInv DEF ConsultFails
  <1>3. QED
    BY <1>1, <1>2, LoadInv, LockInv DEF Lookup

\* AuthInv is inductive.
LEMMA AuthNextInv == AuthInv /\ [AuthNext]_authVars => AuthInv'
  <1> SUFFICES ASSUME AuthInv, [AuthNext]_authVars PROVE AuthInv'
    OBVIOUS
  <1>1. CASE AuthNext
    BY <1>1, BeginInv, AskInv, LookupInv, ChangeStoreInv DEF AuthNext
  <1>2. CASE UNCHANGED authVars
    <2> USE <1>2 DEF authVars, provider, requests, histories, AuthInv
    <2>1. AuthTypeOK'
      BY DEF AuthTypeOK
    <2>2. BlocksInv' /\ StoreInv'
      BY DEF BlocksInv, StoreInv
    <2>3. RequestInv' /\ MemoInv'
      <3>1. RequestInv'
        BY DEF RequestInv, Key
      <3>2. MemoInv'
        BY DEF MemoInv, Justified, AskedFirst
      <3>3. QED
        BY <3>1, <3>2
    <2>4. GivenInv'
      BY DEF GivenInv
    <2>5. QED
      BY <2>1, <2>2, <2>3, <2>4
  <1>3. QED
    BY <1>1, <1>2

\* The variables keep their types, and the inductive invariant holds.
THEOREM AuthInvariant == AuthSpec => []AuthInv
  BY AuthInitInv, AuthNextInv, PTL DEF AuthSpec

-----------------------------------------------------------------------------
\* What the invariant says of answers, for one state.
LEMMA AuthProperties ==
  ASSUME AuthInv
  PROVE  ExplicitWins /\ OneAnswer /\ FreshPerBuild /\ AskedOnce /\ SamePrecedence
  <1> USE DEF AuthInv
  <1>1. \A b \in Builds : \A g \in given[b] :
          /\ g[1] \in Spellings /\ g[2] \in Answers /\ <<g[1], g[2]>> \in given[b]
          /\ normalizeHost(g[1]) \in Keys /\ loaded[b] # "none"
          /\ explicit[b][normalizeHost(g[1])] = "none" <=> Blocks(config, normalizeHost(g[1])) = {}
          /\ Blocks(config, normalizeHost(g[1])) # {} =>
               explicit[b][normalizeHost(g[1])] \in Blocks(config, normalizeHost(g[1]))
    <2> TAKE b \in Builds
    <2> TAKE g \in given[b]
    <2>1. g[1] \in Spellings /\ g[2] \in Answers /\ g = <<g[1], g[2]>>
      BY DEF AuthTypeOK
    <2>2. normalizeHost(g[1]) \in Keys /\ loaded[b] # "none"
      BY <2>1, KeyType DEF GivenInv
    <2>3. explicit[b][normalizeHost(g[1])] \in InForce(config, normalizeHost(g[1]))
      BY <2>2 DEF BlocksInv
    <2>4. config \in Configs
      BY DEF AuthTypeOK
    <2>5. QED
      BY <2>1, <2>2, <2>3, <2>4, BlocksType
  <1>2. ExplicitWins
    BY <1>1 DEF ExplicitWins, GivenInv
  <1>3. OneAnswer
    <2> SUFFICES ASSUME NEW b \in Builds, NEW g \in given[b], NEW h \in given[b],
                        normalizeHost(g[1]) = normalizeHost(h[1])
                 PROVE  g[2] = h[2]
      BY DEF OneAnswer
    <2>1. \A x \in {g, h} : x[1] \in Spellings /\ x[2] \in Answers /\ <<x[1], x[2]>> \in given[b]
      BY <1>1
    <2>2. QED
      BY <2>1 DEF GivenInv
  <1>4. FreshPerBuild
    <2> SUFFICES ASSUME NEW b \in Builds, NEW g \in given[b],
                        Blocks(config, normalizeHost(g[1])) = {}
                 PROVE  Justified(b, normalizeHost(g[1]), g[2])
      BY DEF FreshPerBuild
    <2>1. /\ g[1] \in Spellings /\ g[2] \in Answers /\ <<g[1], g[2]>> \in given[b]
          /\ normalizeHost(g[1]) \in Keys
      BY <1>1
    <2>2. g[2] = IF config.docker THEN memo[b][normalizeHost(g[1])] ELSE "anonymous"
      BY <2>1 DEF GivenInv
    <2>3. CASE config.docker
      BY <2>1, <2>2, <2>3, NoAnswer DEF MemoInv
    <2>4. CASE ~config.docker
      BY <2>2, <2>4 DEF Justified, AskedFirst
    <2>5. QED
      BY <2>3, <2>4
  <1>5. AskedOnce
    <2> SUFFICES ASSUME NEW b \in Builds, NEW k \in Keys
                 PROVE  Len(asked[b][k]) <= 1
      BY DEF AskedOnce
    <2> DEFINE times == Len(asked[b][k])
    <2>1. times = IF memo[b][k] = "unknown" THEN 0 ELSE 1
      BY DEF MemoInv
    <2> HIDE DEF times
    <2>2. times <= 1
      BY <2>1
    <2>3. QED
      BY <2>2 DEF times
  <1>6. SamePrecedence
    <2> SUFFICES ASSUME NEW b \in Builds, NEW g \in given[b]
                 PROVE  IF explicit[b][normalizeHost(g[1])] # "none"
                          THEN g[2] \in authenticatorFor(g[1])
                               /\ authenticatorFor(g[1]) \subseteq Blocks(config, normalizeHost(g[1]))
                          ELSE authenticatorFor(g[1]) \subseteq
                                 {"anonymous"} \cup (IF config.docker THEN {store[g[1]]} ELSE {})
      BY DEF SamePrecedence
    <2>1. CASE Blocks(config, normalizeHost(g[1])) # {}
      <3>1. /\ explicit[b][normalizeHost(g[1])] # "none"
            /\ explicit[b][normalizeHost(g[1])] \in Blocks(config, normalizeHost(g[1]))
        BY <1>1, <2>1
      <3>2. g[2] = explicit[b][normalizeHost(g[1])]
        BY <1>1, <2>1 DEF GivenInv
      <3>3. QED
        BY <2>1, <3>1, <3>2 DEF authenticatorFor
    <2>2. CASE Blocks(config, normalizeHost(g[1])) = {}
      <3>1. explicit[b][normalizeHost(g[1])] = "none"
        BY <1>1, <2>2
      <3>2. QED
        BY <2>2, <3>1 DEF authenticatorFor
    <2>3. QED
      BY <2>1, <2>2
  <1>7. QED
    BY <1>2, <1>3, <1>4, <1>5, <1>6

\* A registry_auth block answers for its host in every build (auth.go:56-59).
THEOREM ExplicitWinsAlways == AuthSpec => []ExplicitWins
  BY AuthInvariant, AuthProperties, PTL

\* One build sees one credential per registry (auth.go:99-106).
THEOREM OneAnswerAlways == AuthSpec => []OneAnswer
  BY AuthInvariant, AuthProperties, PTL

\* Docker's answer in a build is what its configuration has held since then for
\* the spelling it was consulted with, and anonymous only for a cause; other
\* spellings of the registry are given the same (auth.go:136-157).
THEOREM FreshPerBuildAlways == AuthSpec => []FreshPerBuild
  BY AuthInvariant, AuthProperties, PTL

\* A helper is asked once per registry and build (auth.go:101-103).
THEOREM AskedOnceAlways == AuthSpec => []AskedOnce
  BY AuthInvariant, AuthProperties, PTL

\* Registry reads follow the precedence of builds (registry.go:32-34).
THEOREM SamePrecedenceAlways == AuthSpec => []SamePrecedence
  BY AuthInvariant, AuthProperties, PTL

-----------------------------------------------------------------------------
\* Every step of the engine is a step of RegistryAuth or leaves it alone.
LEMMA AuthStep == [Next]_vars => [AuthNext]_authVars
  <1> SUFFICES ASSUME [Next]_vars PROVE [AuthNext]_authVars
    OBVIOUS
  <1>1. CASE UNCHANGED vars
    BY <1>1 DEF vars
  <1>2. ASSUME NEW b \in Builds, Start(b)
        PROVE  AuthNext
    BY <1>2 DEF Start, AuthNext
  <1>3. ASSUME NEW b \in Builds, FailsEarly(b) \/ Solving(b) \/ Streaming(b)
        PROVE  UNCHANGED authVars
    BY <1>3 DEF FailsEarly, Solving, Streaming, Send, SolveEnds, SolveAborted, Leave,
       Receive, Logged, Drained, Return
  <1>4. ASSUME NEW b \in Builds, NEW r \in Requests, NEW s \in Spellings, SessionAsks(r, b, s)
        PROVE  AuthNext
    BY <1>4 DEF SessionAsks, AuthNext
  <1>5. ASSUME NEW r \in Requests, Lookup(r)
        PROVE  AuthNext
    BY <1>5 DEF AuthNext
  <1>6. ASSUME NEW s \in Spellings, ChangeStore(s)
        PROVE  AuthNext
    BY <1>6 DEF AuthNext
  <1>7. QED
    BY <1>1, <1>2, <1>3, <1>4, <1>5, <1>6 DEF Next

\* The sessions of concurrent solves implement RegistryAuth.
THEOREM SessionsImplementAuth == Spec => AuthSpec
  <1>1. Init => AuthInit
    BY DEF Init
  <1>2. QED
    BY <1>1, AuthStep, PTL DEF Spec, AuthSpec

\* The answers of every session: blocks win, one answer, fresh, asked once,
\* and registry reads agree (auth.go:56-59, 99-106; registry.go:32-34).
THEOREM SessionAnswers ==
  Spec => [](ExplicitWins /\ OneAnswer /\ FreshPerBuild /\ AskedOnce /\ SamePrecedence)
  BY SessionsImplementAuth, AuthInvariant, AuthProperties, PTL

-----------------------------------------------------------------------------
\* The initial states satisfy the engine's invariant.
LEMMA EngineInitInv == Init => EngineInv
  BY AuthInitInv, SolveAssumption DEF Init, EngineInv, TypeOK, ReturnsWhole, AuthInv

\* The types of the engine's variables, without those of RegistryAuth.
EngineTypeOK ==
  /\ run \in [Builds -> {"idle", "running", "returned"}]
  /\ solve \in [Builds -> {"idle", "running", "sending", "closed", "ended"}]
  /\ stream \in [Builds -> {"idle", "receiving", "logging", "done"}]
  /\ outcome \in [Builds -> {"none", "response", "nothing", "error"}]
  /\ resp \in [Builds -> {"none", "response"}]
  /\ result \in [Builds -> {"none", "error", "empty", "response"}]
  /\ traffic \in [Builds -> 0 .. MaxTraffic]

\* What the invariant says of one build, for the variables' values there.
Whole(ru, so, st, ou, re, rs) ==
  /\ ru = "returned" =>
       /\ so \in {"idle", "ended"} /\ st \in {"idle", "done"}
       /\ so = "ended" => rs = CASE ou = "response" -> "response"
                                 [] ou = "nothing" -> "empty"
                                 [] ou = "error" -> "error"
  /\ ru # "running" => so \in {"idle", "ended"} /\ st \in {"idle", "done"}
  /\ so \in {"closed", "ended"} => ou # "none"
  /\ so = "ended" => (re = "response" <=> ou = "response")

LEMMA WholeInv ==
  EngineInv <=> /\ AuthTypeOK /\ EngineTypeOK
                /\ \A b \in Builds :
                     Whole(run[b], solve[b], stream[b], outcome[b], resp[b], result[b])
  BY DEF EngineInv, TypeOK, EngineTypeOK, ReturnsWhole, Whole

\* A step of one build keeps the invariant of all.
LEMMA BuildStep ==
  ASSUME EngineInv, NEW b \in Builds,
         FailsEarly(b) \/ Start(b) \/ Solving(b) \/ Streaming(b)
  PROVE  EngineTypeOK' /\ \A c \in Builds : Whole(run[c], solve[c], stream[c], outcome[c],
                                                  resp[c], result[c])'
  <1>0. EngineTypeOK /\ \A c \in Builds : Whole(run[c], solve[c], stream[c], outcome[c],
                                               resp[c], result[c])
    BY WholeInv
  <1>1. MaxTraffic \in Nat
    BY SolveAssumption
  <1>2. EngineTypeOK'
    BY <1>0, <1>1 DEF EngineTypeOK, FailsEarly, Start, Solving, Streaming, Send, SolveEnds,
       SolveAborted, Leave, Receive, Logged, Drained, Return, Result
  <1>3. \A c \in Builds \ {b} :
          /\ run'[c] = run[c] /\ solve'[c] = solve[c] /\ stream'[c] = stream[c]
          /\ outcome'[c] = outcome[c] /\ resp'[c] = resp[c] /\ result'[c] = result[c]
    BY <1>0 DEF EngineTypeOK, FailsEarly, Start, Solving, Streaming, Send, SolveEnds,
       SolveAborted, Leave, Receive, Logged, Drained, Return
  <1>4. Whole(run'[b], solve'[b], stream'[b], outcome'[b], resp'[b], result'[b])
    <2> USE <1>0 DEF EngineTypeOK, Whole
    <2>1. CASE FailsEarly(b) \/ Start(b)
      BY <2>1 DEF FailsEarly, Start
    <2>2. CASE Send(b) \/ SolveEnds(b) \/ SolveAborted(b)
      BY <2>2 DEF Send, SolveEnds, SolveAborted
    <2>3. CASE Receive(b) \/ Logged(b) \/ Drained(b)
      BY <2>3 DEF Receive, Logged, Drained
    <2>4. CASE Leave(b)
      BY <2>4 DEF Leave
    <2>5. CASE Return(b)
      BY <2>5 DEF Return, Result
    <2>6. QED
      BY <2>1, <2>2, <2>3, <2>4, <2>5 DEF Solving, Streaming
  <1>5. QED
    BY <1>0, <1>2, <1>3, <1>4

\* EngineInv is inductive, given RegistryAuth's.
LEMMA EngineNextInv == EngineInv /\ AuthInv /\ AuthInv' /\ [Next]_vars => EngineInv'
  <1> SUFFICES ASSUME EngineInv, AuthInv', [Next]_vars PROVE EngineInv'
    OBVIOUS
  <1>0. AuthTypeOK'
    BY DEF AuthInv
  <1>1. ASSUME NEW b \in Builds, FailsEarly(b) \/ Start(b) \/ Solving(b) \/ Streaming(b)
        PROVE  EngineInv'
    BY <1>0, <1>1, BuildStep DEF EngineInv, TypeOK, EngineTypeOK, ReturnsWhole, Whole
  <1>2. ASSUME NEW b \in Builds, NEW r \in Requests, NEW s \in Spellings, SessionAsks(r, b, s)
        PROVE  EngineInv'
    BY <1>0, <1>2, SolveAssumption DEF SessionAsks, EngineInv, TypeOK, ReturnsWhole
  <1>3. CASE UNCHANGED engine
    BY <1>0, <1>3 DEF engine, EngineInv, TypeOK, ReturnsWhole
  <1>4. QED
    BY <1>1, <1>2, <1>3 DEF Next, vars

\* The invariant of the engine, in every behaviour.
THEOREM EngineInvariant == Spec => []EngineInv
  BY EngineInitInv, EngineNextInv, SessionsImplementAuth, AuthInvariant, PTL DEF Spec

\* The variables keep their types.
THEOREM TypeCorrect == Spec => []TypeOK
  <1>1. EngineInv => TypeOK
    BY DEF EngineInv
  <1>2. QED
    BY <1>1, EngineInvariant, PTL

\* Run returns when both its goroutines have ended, and what the solve left.
THEOREM ReturnsWholeAlways == Spec => []ReturnsWhole
  <1>1. EngineInv => ReturnsWhole
    BY DEF EngineInv
  <1>2. QED
    BY <1>1, EngineInvariant, PTL

=============================================================================
