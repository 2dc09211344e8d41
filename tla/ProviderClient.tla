--------------------------- MODULE ProviderClient ---------------------------
(***************************************************************************)
(* The provider process: the connection shared by all operations of a      *)
(* configuration (providerData.client), the embedded buildkitd it may      *)
(* start, and the termination handler that reaps it.                       *)
(*                                                                         *)
(* Callers of client hold the configuration's mutex over the whole of      *)
(* discovery, provisioning and the wait for the daemon.  The signal        *)
(* handler exists only once a first daemon has been registered; it runs    *)
(* beside callers that are still starting another one.  The process may    *)
(* end by returning from main, by SIGTERM, with or without the handler,    *)
(* or by SIGKILL, at any step.                                             *)
(***************************************************************************)
EXTENDS Integers, Sequences, Functions

CONSTANTS
  Callers,   \* resource operations that need a client
  NoCaller,  \* the owner of a free mutex
  Handler,   \* the goroutine that waits for a termination signal
  Data,      \* provider configurations served by the process
  DataOf     \* the configuration each caller belongs to

ASSUME ClientAssumption == /\ DataOf \in [Callers -> Data]
                           /\ NoCaller \notin Callers \cup {Handler}
                           /\ Handler \notin Callers

VARIABLES
  mu,        \* per configuration: the holder of providerData.mu
  resolved,  \* per configuration: the endpoint, "none" until one is stored
  resolErr,  \* per configuration: whether an error was stored
  pc,        \* where each caller stands
  result,    \* what each caller's client call is about to return
  daemon,    \* per configuration: its buildkitd process group
  runDir,    \* per configuration: whether its daemon's directory exists
  cleanups,  \* the registered cleanups, by configuration, oldest first
  cleanupMu, \* the holder of cleanupMu
  handler,   \* the handler goroutine
  signal,    \* whether a signal is buffered for the handler
  proc       \* "up", or how the process ended

vars == <<mu, resolved, resolErr, pc, result, daemon, runDir,
          cleanups, cleanupMu, handler, signal, proc>>

memo == <<mu, resolved, resolErr>>
calls == <<pc, result>>
children == <<daemon, runDir>>
exit == <<cleanups, cleanupMu, handler, signal, proc>>

Starting == {"spawn", "wait", "kill", "rmdir", "store", "append"}
Holding == {"memo", "resolve", "provision", "storeErr", "notify", "unlock"}
             \cup Starting
Unsettled == {"resolve", "provision", "spawn", "wait", "kill", "rmdir",
              "store", "storeErr"}
Waiting == Holding \cup {"lock"}
Ended == {"returned", "signalled", "reaped", "killed"}

Init ==
  /\ mu = [d \in Data |-> NoCaller]
  /\ resolved = [d \in Data |-> "none"]
  /\ resolErr = [d \in Data |-> FALSE]
  /\ pc = [c \in Callers |-> "idle"]
  /\ result = [c \in Callers |-> "none"]
  /\ daemon = [d \in Data |-> "none"]
  /\ runDir = [d \in Data |-> FALSE]
  /\ cleanups = <<>>
  /\ cleanupMu = NoCaller
  /\ handler = "none"
  /\ signal = FALSE
  /\ proc = "up"

At(c, l) == proc = "up" /\ pc[c] = l
Goto(c, l) == pc' = [pc EXCEPT ![c] = l]

-----------------------------------------------------------------------------
(***************************************************************************)
(* providerData.client                                                     *)
(***************************************************************************)
Call(c) ==
  /\ proc = "up"
  /\ pc[c] \in {"idle", "done"}
  /\ Goto(c, "lock")
  /\ result' = [result EXCEPT ![c] = "none"]
  /\ UNCHANGED <<memo, children, exit>>

\* Mutant of Lock: the mutex is not taken.
LockFree(c) ==
  /\ At(c, "lock")
  /\ mu' = [mu EXCEPT ![DataOf[c]] = c]
  /\ Goto(c, "memo")
  /\ UNCHANGED <<resolved, resolErr, result, children, exit>>

Lock(c) ==
  /\ At(c, "lock")
  /\ mu[DataOf[c]] = NoCaller
  /\ mu' = [mu EXCEPT ![DataOf[c]] = c]
  /\ Goto(c, "memo")
  /\ UNCHANGED <<resolved, resolErr, result, children, exit>>

\* Mutant of Memo: a stored error is not returned, the next caller tries again.
MemoWithoutErr(c) ==
  LET d == DataOf[c] IN
  /\ At(c, "memo")
  /\ \/ /\ resolved[d] # "none"
        /\ result' = [result EXCEPT ![c] = "ok"]
        /\ Goto(c, "unlock")
     \/ /\ resolved[d] = "none"
        /\ UNCHANGED result
        /\ Goto(c, "resolve")
  /\ UNCHANGED <<memo, children, exit>>

\* An endpoint or an error that an earlier caller left is returned as it is.
Memo(c) ==
  LET d == DataOf[c] IN
  /\ At(c, "memo")
  /\ \/ /\ resolved[d] # "none"
        /\ result' = [result EXCEPT ![c] = "ok"]
        /\ Goto(c, "unlock")
     \/ /\ resolved[d] = "none" /\ resolErr[d]
        /\ result' = [result EXCEPT ![c] = "err"]
        /\ Goto(c, "unlock")
     \/ /\ resolved[d] = "none" /\ ~resolErr[d]
        /\ UNCHANGED result
        /\ Goto(c, "resolve")
  /\ UNCHANGED <<memo, children, exit>>

(***************************************************************************)
(* resolveBuildkit up to its outcome: a reachable endpoint (kept in result *)
(* until it is stored), none, or a turn to the embedded daemon.            *)
(***************************************************************************)
Resolve(c) ==
  /\ At(c, "resolve")
  /\ \/ /\ result' = [result EXCEPT ![c] = "direct"]
        /\ Goto(c, "store")
     \/ Goto(c, "storeErr") /\ UNCHANGED result
     \/ Goto(c, "provision") /\ UNCHANGED result
  /\ UNCHANGED <<memo, children, exit>>

-----------------------------------------------------------------------------
(***************************************************************************)
(* startEmbeddedBuildkitd                                                  *)
(***************************************************************************)
\* The rootless preflight, the binaries, and the runtime directory.
Provision(c) ==
  /\ At(c, "provision")
  /\ \/ Goto(c, "storeErr") /\ UNCHANGED runDir
     \/ /\ runDir' = [runDir EXCEPT ![DataOf[c]] = TRUE]
        /\ Goto(c, "spawn")
  /\ UNCHANGED <<memo, result, daemon, exit>>

\* The log file and the start of the process, or the directory goes.
Spawn(c) ==
  LET d == DataOf[c] IN
  /\ At(c, "spawn")
  /\ \/ /\ runDir' = [runDir EXCEPT ![d] = FALSE]
        /\ Goto(c, "storeErr")
        /\ UNCHANGED daemon
     \/ /\ daemon' = [daemon EXCEPT ![d] = "running"]
        /\ Goto(c, "wait")
        /\ UNCHANGED runDir
  /\ UNCHANGED <<memo, result, exit>>

\* Mutant of WaitForEmbedded: the error path forgets cleanup().
WaitWithoutCleanup(c) ==
  /\ At(c, "wait")
  /\ \/ /\ daemon[DataOf[c]] = "running"
        /\ result' = [result EXCEPT ![c] = "embedded"]
        /\ Goto(c, "store")
     \/ Goto(c, "storeErr") /\ UNCHANGED result
  /\ UNCHANGED <<memo, children, exit>>

\* The daemon answers, or thirty seconds pass, or the context is cancelled.
WaitForEmbedded(c) ==
  /\ At(c, "wait")
  /\ \/ /\ daemon[DataOf[c]] = "running"
        /\ result' = [result EXCEPT ![c] = "embedded"]
        /\ Goto(c, "store")
     \/ Goto(c, "kill") /\ UNCHANGED result
  /\ UNCHANGED <<memo, children, exit>>

\* cleanup signals and reaps the process group ...
Kill(d) == daemon' = [daemon EXCEPT ![d] = "gone"]

KillUnready(c) ==
  /\ At(c, "kill")
  /\ Kill(DataOf[c])
  /\ Goto(c, "rmdir")
  /\ UNCHANGED <<memo, result, runDir, exit>>

\* ... and then removes its directory.
RemoveRunDir(c) ==
  /\ At(c, "rmdir")
  /\ runDir' = [runDir EXCEPT ![DataOf[c]] = FALSE]
  /\ Goto(c, "storeErr")
  /\ UNCHANGED <<memo, result, daemon, exit>>

-----------------------------------------------------------------------------
(***************************************************************************)
(* The end of client: the outcome is stored, a daemon's cleanup is         *)
(* registered, and the deferred unlock lets the next caller in.            *)
(***************************************************************************)
\* Mutant of StoreErr: the error path returns without the unlock.
StoreErrLocked(c) ==
  /\ At(c, "storeErr")
  /\ resolErr' = [resolErr EXCEPT ![DataOf[c]] = TRUE]
  /\ result' = [result EXCEPT ![c] = "err"]
  /\ Goto(c, "done")
  /\ UNCHANGED <<mu, resolved, children, exit>>

StoreErr(c) ==
  /\ At(c, "storeErr")
  /\ resolErr' = [resolErr EXCEPT ![DataOf[c]] = TRUE]
  /\ result' = [result EXCEPT ![c] = "err"]
  /\ Goto(c, "unlock")
  /\ UNCHANGED <<mu, resolved, children, exit>>

Store(c) ==
  /\ At(c, "store")
  /\ resolved' = [resolved EXCEPT ![DataOf[c]] = result[c]]
  /\ result' = [result EXCEPT ![c] = "ok"]
  /\ Goto(c, IF result[c] = "embedded" THEN "append" ELSE "unlock")
  /\ UNCHANGED <<mu, resolErr, children, exit>>

\* registerProcessCleanup, under cleanupMu: blocked while cleanups run.
Append_(c) ==
  /\ At(c, "append")
  /\ cleanupMu = NoCaller
  /\ cleanups' = Append(cleanups, DataOf[c])
  /\ Goto(c, "notify")
  /\ UNCHANGED <<memo, result, children, cleanupMu, handler, signal, proc>>

\* cleanupOnce: the first registration installs the handler.
Notify(c) ==
  /\ At(c, "notify")
  /\ handler' = IF handler = "none" THEN "waiting" ELSE handler
  /\ Goto(c, "unlock")
  /\ UNCHANGED <<memo, result, children, cleanups, cleanupMu, signal, proc>>

Unlock(c) ==
  /\ At(c, "unlock")
  /\ mu' = [mu EXCEPT ![DataOf[c]] = NoCaller]
  /\ Goto(c, "done")
  /\ UNCHANGED <<resolved, resolErr, result, children, exit>>

-----------------------------------------------------------------------------
(***************************************************************************)
(* Termination: the handler goroutine, and the ways the process ends.      *)
(***************************************************************************)
HandlerWakes ==
  /\ proc = "up" /\ handler = "waiting" /\ signal
  /\ cleanupMu = NoCaller
  /\ cleanupMu' = Handler
  /\ handler' = "running"
  /\ signal' = FALSE
  /\ UNCHANGED <<memo, calls, children, cleanups, proc>>

\* The latest registration is cleaned up first.
HandlerCleans ==
  /\ proc = "up" /\ handler = "running"
  /\ cleanups # <<>>
  /\ LET d == cleanups[Len(cleanups)]
     IN /\ Kill(d)
        /\ runDir' = [runDir EXCEPT ![d] = FALSE]
  /\ cleanups' = SubSeq(cleanups, 1, Len(cleanups) - 1)
  /\ UNCHANGED <<memo, calls, cleanupMu, handler, signal, proc>>

HandlerUnlocks ==
  /\ proc = "up" /\ handler = "running"
  /\ cleanups = <<>>
  /\ cleanupMu' = NoCaller
  /\ handler' = "exiting"
  /\ UNCHANGED <<memo, calls, children, cleanups, signal, proc>>

\* Mutant of HandlerExits: no os.Exit after the cleanups.
HandlerStays ==
  /\ proc = "up" /\ handler = "exiting"
  /\ handler' = "waiting"
  /\ UNCHANGED <<memo, calls, children, cleanups, cleanupMu, signal, proc>>

HandlerExits ==
  /\ proc = "up" /\ handler = "exiting"
  /\ proc' = "reaped"
  /\ UNCHANGED <<memo, calls, children, cleanups, cleanupMu, handler, signal>>

\* SIGTERM: buffered for an installed handler, fatal before.
Terminate ==
  /\ proc = "up"
  /\ IF handler = "none"
       THEN proc' = "signalled" /\ UNCHANGED signal
       ELSE signal' = TRUE /\ UNCHANGED proc
  /\ UNCHANGED <<memo, calls, children, cleanups, cleanupMu, handler>>

\* Terraform has its answers and closes the plugin: Serve and main return.
MainReturns ==
  /\ proc = "up"
  /\ \A c \in Callers : pc[c] \in {"idle", "done"}
  /\ proc' = "returned"
  /\ UNCHANGED <<memo, calls, children, cleanups, cleanupMu, handler, signal>>

KillProcess ==
  /\ proc = "up"
  /\ proc' = "killed"
  /\ UNCHANGED <<memo, calls, children, cleanups, cleanupMu, handler, signal>>

\* buildkitd ends by itself; nothing in the provider watches for it.
DaemonDies(d) ==
  /\ proc = "up" /\ daemon[d] = "running"
  /\ daemon' = [daemon EXCEPT ![d] = "gone"]
  /\ UNCHANGED <<memo, calls, runDir, exit>>

\* The process is gone; what it left behind stays.
Gone == proc # "up" /\ UNCHANGED vars

Progress(c) ==
  \/ Memo(c) \/ Resolve(c) \/ Provision(c) \/ Spawn(c) \/ WaitForEmbedded(c)
  \/ KillUnready(c) \/ RemoveRunDir(c) \/ StoreErr(c) \/ Store(c)
  \/ Append_(c) \/ Notify(c) \/ Unlock(c)

Handle == HandlerWakes \/ HandlerCleans \/ HandlerUnlocks \/ HandlerExits

Next == \/ \E c \in Callers : Call(c) \/ Lock(c) \/ Progress(c)
        \/ Handle \/ Terminate \/ MainReturns \/ KillProcess \/ Gone
        \/ \E d \in Data : DaemonDies(d)

Spec == Init /\ [][Next]_vars

(***************************************************************************)
(* A goroutine that can run does; sync.Mutex hands itself over to a waiter *)
(* that has been passed over (its starvation mode), hence SF on Lock.      *)
(* That Resolve and Provision end is an assumption on the endpoints and    *)
(* the download: the code sets no time limit on them.                      *)
(***************************************************************************)
FairSpec == /\ Spec
            /\ WF_vars(Handle)
            /\ \A c \in Callers : WF_vars(Progress(c)) /\ SF_vars(Lock(c))

-----------------------------------------------------------------------------
TypeOK ==
  /\ mu \in [Data -> Callers \cup {NoCaller}]
  /\ resolved \in [Data -> {"none", "direct", "embedded"}]
  /\ resolErr \in [Data -> BOOLEAN]
  /\ pc \in [Callers -> Waiting \cup {"idle", "done"}]
  /\ result \in [Callers -> {"none", "direct", "embedded", "ok", "err"}]
  /\ daemon \in [Data -> {"none", "running", "gone"}]
  /\ runDir \in [Data -> BOOLEAN]
  /\ cleanups \in Seq(Data)
  /\ cleanupMu \in {NoCaller, Handler}
  /\ handler \in {"none", "waiting", "running", "exiting"}
  /\ signal \in BOOLEAN
  /\ proc \in {"up"} \cup Ended

(***************************************************************************)
(* A daemon, or a runtime directory, always belongs to someone who is to   *)
(* remove it: the call that is starting it, or a registered cleanup.  So   *)
(* an error leaves neither behind, and when the handler ends the process   *)
(* only unfinished starts and late registrations can be left over.         *)
(***************************************************************************)
OwnedBy(d) ==
  \/ mu[d] # NoCaller /\ pc[mu[d]] \in Starting
  \/ d \in Range(cleanups)

NoUnownedDaemon ==
  \A d \in Data : daemon[d] = "running" \/ runDir[d] => OwnedBy(d)

(***************************************************************************)
(* A registered cleanup has a handler that will run it, from the moment    *)
(* the call that registered it lets go of the connection.                  *)
(***************************************************************************)
CleanupHasHandler ==
  cleanups # <<>> /\ handler = "none"
     => \E c \in Callers : pc[c] = "notify" /\ mu[DataOf[c]] = c

(***************************************************************************)
(* Each configuration starts at most one daemon in the life of the         *)
(* process: neither a failed start nor a dead daemon is followed by        *)
(* another one.                                                            *)
(***************************************************************************)
StartedOnce ==
  [][\A d \in Data : daemon[d] = "gone" => daemon'[d] = "gone"]_vars

(***************************************************************************)
(* Callers racing for the first connection of a configuration all get the  *)
(* one answer that was settled, once.                                      *)
(***************************************************************************)
AnswerOf(d) == IF resolved[d] # "none" THEN "ok"
               ELSE IF resolErr[d] THEN "err" ELSE "none"
Answer == [d \in Data |-> AnswerOf(d)]
Reply == [c \in Callers |-> IF pc[c] \in Waiting THEN "waiting"
                            ELSE IF pc[c] = "idle" THEN "idle" ELSE result[c]]

Shared == INSTANCE SharedAnswer WITH answer <- Answer, reply <- Reply

Implements == Shared!Spec

(***************************************************************************)
(* What makes these invariants inductive.  A configuration's mutex is held *)
(* by exactly the call that is inside client; until that call stores an    *)
(* outcome nothing is settled and only it can have started a daemon; from  *)
(* then on every finished call has returned that outcome.                  *)
(***************************************************************************)
MutexHeld ==
  /\ \A c \in Callers : pc[c] \in Holding <=> mu[DataOf[c]] = c
  /\ \A d \in Data : mu[d] # NoCaller => DataOf[mu[d]] = d

SettledOnce ==
  /\ \A d \in Data : resolved[d] # "none" => ~resolErr[d]
  /\ \A c \in Callers :
       LET d == DataOf[c] IN
       /\ pc[c] \in Unsettled => AnswerOf(d) = "none"
       /\ pc[c] \in {"append", "notify", "unlock", "done"} =>
            result[c] = AnswerOf(d) /\ result[c] \in {"ok", "err"}
       /\ pc[c] = "store" => result[c] \in {"direct", "embedded"}

ChildOfStarter ==
  /\ \A d \in Data :
       daemon[d] # "none" /\ AnswerOf(d) = "none" =>
         /\ mu[d] # NoCaller
         /\ pc[mu[d]] \in {"wait", "kill", "rmdir", "store", "storeErr"}
  /\ \A c \in Callers :
       LET d == DataOf[c] IN
       /\ pc[c] \in {"rmdir", "storeErr"} => daemon[d] # "running"
       /\ pc[c] \in {"append", "notify"} => resolved[d] = "embedded"
       /\ pc[c] = "store" /\ result[c] = "direct" =>
            daemon[d] = "none" /\ ~runDir[d]
  /\ \A d \in Range(cleanups) : resolved[d] = "embedded"

IInv == /\ TypeOK
        /\ MutexHeld
        /\ SettledOnce
        /\ ChildOfStarter
        /\ NoUnownedDaemon
        /\ CleanupHasHandler

\* The process lasting, every call of client returns.
CallReturns ==
  \A c \in Callers : pc[c] \in Waiting ~> pc[c] \notin Waiting \/ proc # "up"

\* A signal that found the handler installed ends the process.
SignalExits == signal ~> proc # "up"

(***************************************************************************)
(* embedded_linux.go:102-104: the daemon has its own process group "so     *)
(* cleanup can signal the whole group and avoid leaving orphaned           *)
(* buildkitd/runc processes if the provider exits."  Here for the exit     *)
(* that ends every Terraform run, the return from main.                    *)
(***************************************************************************)
NoOrphanOnReturn ==
  proc = "returned" => \A d \in Data : daemon[d] # "running"

=============================================================================
