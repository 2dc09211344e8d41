---------------------------- MODULE SolveEngine -----------------------------
(***************************************************************************)
(* engine.Run: one solve, with the session that answers for credentials.   *)
(*                                                                         *)
(* Run starts two goroutines and waits for both.  One is BuildKit's Solve, *)
(* which sends its progress over an unbuffered channel and closes the      *)
(* channel when it returns; the other, streamStatus, receives until the    *)
(* channel is closed.  While the solve runs, the daemon asks for           *)
(* credentials and waits for them.  Several builds run side by side, and a *)
(* slot of Builds is used again for a later build.                         *)
(***************************************************************************)
EXTENDS RegistryAuth

CONSTANT
  MaxTraffic  \* bound: status updates and credential requests of one solve

ASSUME SolveAssumption == MaxTraffic \in Nat

VARIABLES
  run,      \* per build: idle, running or returned
  solve,    \* per build: Solve's step; "sending" blocks on the channel,
            \* "closed" has closed it, "ended" has also left the response
  stream,   \* per build: streamStatus's step
  outcome,  \* per build: how Solve ended: error, or a response or nothing
  resp,     \* per build: the response left for Run
  result,   \* per build: what Run returned
  traffic   \* per build: updates and requests so far

engine == <<run, solve, stream, outcome, resp, result, traffic>>
vars == <<authVars, engine>>

-----------------------------------------------------------------------------
Init ==
  /\ AuthInit
  /\ run = [b \in Builds |-> "idle"]
  /\ solve = [b \in Builds |-> "idle"]
  /\ stream = [b \in Builds |-> "idle"]
  /\ outcome = [b \in Builds |-> "none"]
  /\ resp = [b \in Builds |-> "none"]
  /\ result = [b \in Builds |-> "none"]
  /\ traffic = [b \in Builds |-> 0]

\* The context, the dockerfile directory or the ssh agent is not usable.
FailsEarly(b) ==
  /\ run[b] # "running"
  /\ run' = [run EXCEPT ![b] = "returned"]
  /\ solve' = [solve EXCEPT ![b] = "idle"]
  /\ stream' = [stream EXCEPT ![b] = "idle"]
  /\ outcome' = [outcome EXCEPT ![b] = "none"]
  /\ resp' = [resp EXCEPT ![b] = "none"]
  /\ result' = [result EXCEPT ![b] = "error"]
  /\ UNCHANGED <<authVars, traffic>>

\* The session's auth provider is made, then both goroutines are started.
Start(b) ==
  /\ run[b] # "running"
  /\ Begin(b)
  /\ run' = [run EXCEPT ![b] = "running"]
  /\ solve' = [solve EXCEPT ![b] = "running"]
  /\ stream' = [stream EXCEPT ![b] = "receiving"]
  /\ outcome' = [outcome EXCEPT ![b] = "none"]
  /\ resp' = [resp EXCEPT ![b] = "none"]
  /\ result' = [result EXCEPT ![b] = "none"]
  /\ traffic' = [traffic EXCEPT ![b] = 0]

(***************************************************************************)
(* BuildKit's Solve: it sends an update, which blocks until it is          *)
(* received; it asks for a credential; it ends once its requests are       *)
(* answered, or fails at any time between two updates.                     *)
(***************************************************************************)
Send(b) ==
  /\ solve[b] = "running" /\ traffic[b] < MaxTraffic
  /\ solve' = [solve EXCEPT ![b] = "sending"]
  /\ traffic' = [traffic EXCEPT ![b] = @ + 1]
  /\ UNCHANGED <<authVars, run, stream, outcome, resp, result>>

SessionAsks(r, b, s) ==
  /\ solve[b] \in {"running", "sending"} /\ traffic[b] < MaxTraffic
  /\ Ask(r, b, s)
  /\ traffic' = [traffic EXCEPT ![b] = @ + 1]
  /\ UNCHANGED <<run, solve, stream, outcome, resp, result>>

SolveEnds(b) ==
  /\ solve[b] = "running" /\ Pending(b) = {}
  /\ solve' = [solve EXCEPT ![b] = "closed"]
  /\ \E o \in {"response", "nothing", "error"} : outcome' = [outcome EXCEPT ![b] = o]
  /\ UNCHANGED <<authVars, run, stream, resp, result, traffic>>

\* The context is cancelled or the connection is lost.
SolveAborted(b) ==
  /\ solve[b] = "running"
  /\ solve' = [solve EXCEPT ![b] = "closed"]
  /\ outcome' = [outcome EXCEPT ![b] = "error"]
  /\ UNCHANGED <<authVars, run, stream, resp, result, traffic>>

\* The goroutine of Solve leaves the response, if there is one.
Leave(b) ==
  /\ solve[b] = "closed"
  /\ solve' = [solve EXCEPT ![b] = "ended"]
  /\ resp' = [resp EXCEPT ![b] = IF outcome[b] = "response" THEN "response" ELSE "none"]
  /\ UNCHANGED <<authVars, run, stream, outcome, result, traffic>>

(***************************************************************************)
(* streamStatus                                                            *)
(***************************************************************************)
Receive(b) ==
  /\ solve[b] = "sending" /\ stream[b] = "receiving"
  /\ solve' = [solve EXCEPT ![b] = "running"]
  /\ stream' = [stream EXCEPT ![b] = "logging"]
  /\ UNCHANGED <<authVars, run, outcome, resp, result, traffic>>

\* Mutant of Logged: streamStatus returns at the first vertex with an error.
LoggedOrLeft(b) ==
  /\ stream[b] = "logging"
  /\ \E s \in {"receiving", "done"} : stream' = [stream EXCEPT ![b] = s]
  /\ UNCHANGED <<authVars, run, solve, outcome, resp, result, traffic>>

\* An update is logged, errors of vertices included; then the next.
Logged(b) ==
  /\ stream[b] = "logging"
  /\ stream' = [stream EXCEPT ![b] = "receiving"]
  /\ UNCHANGED <<authVars, run, solve, outcome, resp, result, traffic>>

Drained(b) ==
  /\ stream[b] = "receiving" /\ solve[b] \in {"closed", "ended"}
  /\ stream' = [stream EXCEPT ![b] = "done"]
  /\ UNCHANGED <<authVars, run, solve, outcome, resp, result, traffic>>

Result(b) == IF solve[b] = "ended" /\ outcome[b] = "error" THEN "error"
             ELSE IF resp[b] = "none" THEN "empty" ELSE "response"

\* Mutant of Return: the end of the stream is taken for the end of the solve.
ReturnOfStream(b) ==
  /\ run[b] = "running" /\ stream[b] = "done"
  /\ run' = [run EXCEPT ![b] = "returned"]
  /\ result' = [result EXCEPT ![b] = Result(b)]
  /\ UNCHANGED <<authVars, solve, stream, outcome, resp, traffic>>

\* Wait: both goroutines have ended; a missing response becomes an empty one.
Return(b) ==
  /\ run[b] = "running" /\ solve[b] = "ended" /\ stream[b] = "done"
  /\ run' = [run EXCEPT ![b] = "returned"]
  /\ result' = [result EXCEPT ![b] = Result(b)]
  /\ UNCHANGED <<authVars, solve, stream, outcome, resp, traffic>>

-----------------------------------------------------------------------------
Streaming(b) == Receive(b) \/ Logged(b) \/ Drained(b) \/ Leave(b) \/ Return(b)
Solving(b) == Send(b) \/ SolveEnds(b) \/ SolveAborted(b)

Next ==
  \/ \E b \in Builds : \/ FailsEarly(b) \/ Start(b) \/ Solving(b) \/ Streaming(b)
                       \/ \E r \in Requests, s \in Spellings : SessionAsks(r, b, s)
  \/ \E r \in Requests : Lookup(r) /\ UNCHANGED engine
  \/ \E s \in Spellings : ChangeStore(s) /\ UNCHANGED engine

(***************************************************************************)
(* Goroutines are scheduled, a mutex that is released often enough is      *)
(* acquired, a helper returns, and the daemon ends every solve whose       *)
(* requests are answered.  Nobody has to cancel anything.                  *)
(***************************************************************************)
Fairness ==
  /\ \A b \in Builds : WF_vars(Streaming(b)) /\ WF_vars(SolveEnds(b))
  /\ \A r \in Requests : /\ WF_vars((Load(r) \/ Consult(r)) /\ UNCHANGED engine)
                         /\ SF_vars((Remembered(r) \/ Miss(r)) /\ UNCHANGED engine)

Spec == Init /\ [][Next]_vars
FairSpec == Spec /\ Fairness

-----------------------------------------------------------------------------
TypeOK ==
  /\ AuthTypeOK
  /\ run \in [Builds -> {"idle", "running", "returned"}]
  /\ solve \in [Builds -> {"idle", "running", "sending", "closed", "ended"}]
  /\ stream \in [Builds -> {"idle", "receiving", "logging", "done"}]
  /\ outcome \in [Builds -> {"none", "response", "nothing", "error"}]
  /\ resp \in [Builds -> {"none", "response"}]
  /\ result \in [Builds -> {"none", "error", "empty", "response"}]
  /\ traffic \in [Builds -> 0 .. MaxTraffic]

(***************************************************************************)
(* When Run has returned, neither goroutine of it is left, nothing waits   *)
(* on its channel, and it reports what became of the solve: an error, an   *)
(* empty response only where there was none, or that response.  The        *)
(* channel is closed before the response is left (engine.go:158-179).      *)
(***************************************************************************)
ReturnsWhole ==
  \A b \in Builds :
    run[b] = "returned" =>
      /\ solve[b] \in {"idle", "ended"} /\ stream[b] \in {"idle", "done"}
      /\ solve[b] = "ended" =>
           result[b] = CASE outcome[b] = "response" -> "response"
                         [] outcome[b] = "nothing" -> "empty"
                         [] outcome[b] = "error" -> "error"

(***************************************************************************)
(* Behind it: outside of Run no goroutine of it lives, and a solve that    *)
(* has ended has left what it returned.                                    *)
(***************************************************************************)
EngineInv ==
  /\ TypeOK
  /\ ReturnsWhole
  /\ \A b \in Builds :
       /\ run[b] # "running" => solve[b] \in {"idle", "ended"} /\ stream[b] \in {"idle", "done"}
       /\ solve[b] \in {"closed", "ended"} => outcome[b] # "none"
       /\ solve[b] = "ended" => (resp[b] = "response" <=> outcome[b] = "response")

(***************************************************************************)
(* Every Run returns: the solve is never left waiting for a receiver or    *)
(* for a credential, however many goroutines ask and whatever the updates  *)
(* report (engine.go:182-206, auth.go:133-158).                            *)
(***************************************************************************)
RunReturns == \A b \in Builds : run[b] = "running" ~> run[b] = "returned"

=============================================================================
