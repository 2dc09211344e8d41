---------------------------- MODULE SharedAnswer ----------------------------
(***************************************************************************)
(* What providerData.client promises its callers: for each provider        *)
(* configuration the question of which endpoint to use is settled once,    *)
(* only because a caller asked, and every caller is given that answer.     *)
(***************************************************************************)
CONSTANTS
  Callers,   \* resource operations that need a client
  Data,      \* provider configurations
  DataOf     \* the configuration each caller belongs to

VARIABLES
  answer,    \* per configuration: "none" until settled, then "ok" or "err"
  reply      \* per caller: "idle", "waiting", or what it was told

vars == <<answer, reply>>

Init == /\ answer = [d \in Data |-> "none"]
        /\ reply = [c \in Callers |-> "idle"]

Ask(c) == /\ reply[c] # "waiting"
          /\ reply' = [reply EXCEPT ![c] = "waiting"]
          /\ UNCHANGED answer

Settle(d) == /\ answer[d] = "none"
             /\ \E c \in Callers : DataOf[c] = d /\ reply[c] = "waiting"
             /\ \E a \in {"ok", "err"} : answer' = [answer EXCEPT ![d] = a]
             /\ UNCHANGED reply

Tell(c) == /\ reply[c] = "waiting"
           /\ answer[DataOf[c]] # "none"
           /\ reply' = [reply EXCEPT ![c] = answer[DataOf[c]]]
           /\ UNCHANGED answer

Next == \/ \E c \in Callers : Ask(c) \/ Tell(c)
        \/ \E d \in Data : Settle(d)

Spec == Init /\ [][Next]_vars
=============================================================================
