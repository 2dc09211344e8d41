---------------------------- MODULE BinaryCache -----------------------------
(***************************************************************************)
(* What Ensure promises its callers: a cache in which checked binaries     *)
(* appear one by one and stay, written by one caller at a time, who may    *)
(* give up or die at any point; and a caller that is sent to the cache     *)
(* finds there what it needs.                                              *)
(***************************************************************************)
CONSTANTS
  Callers,   \* calls of Ensure, of one process or of several
  Nobody,    \* the writer when there is none
  Binaries,  \* names in the cache
  Needs      \* what a call may have to find

VARIABLES
  cache,     \* per binary: "absent" or "good"
  writer,    \* who may write to the cache
  need,      \* per caller: the binaries it has to find
  reply      \* per caller: "idle", "waiting", or where it was sent

vars == <<cache, writer, need, reply>>

Cached == {b \in Binaries : cache[b] = "good"}

Init == /\ cache = [b \in Binaries |-> "absent"]
        /\ writer = Nobody
        /\ need \in [Callers -> Needs]
        /\ reply = [c \in Callers |-> "idle"]

Ask(c) == /\ reply[c] # "waiting"
          /\ \E n \in Needs : need' = [need EXCEPT ![c] = n]
          /\ reply' = [reply EXCEPT ![c] = "waiting"]
          /\ UNCHANGED <<cache, writer>>

\* Only a caller that the cache does not serve becomes the writer.
Enter(c) == /\ reply[c] = "waiting" /\ writer = Nobody
            /\ ~ need[c] \subseteq Cached
            /\ writer' = c
            /\ UNCHANGED <<cache, need, reply>>

Publish(c, b) == /\ writer = c
                 /\ cache' = [cache EXCEPT ![b] = "good"]
                 /\ UNCHANGED <<writer, need, reply>>

\* The cache serves the caller, another place does, or the call ends in vain.
Answer(c) == /\ reply[c] = "waiting"
             /\ \E r \in {"cache", "elsewhere", "failed"} :
                  /\ r = "cache" => need[c] \subseteq Cached
                  /\ reply' = [reply EXCEPT ![c] = r]
             /\ writer' = IF writer = c THEN Nobody ELSE writer
             /\ UNCHANGED <<cache, need>>

Next == \E c \in Callers : \/ Ask(c) \/ Enter(c) \/ Answer(c)
                           \/ \E b \in Binaries : Publish(c, b)

Spec == Init /\ [][Next]_vars
=============================================================================
