---------------------------- MODULE ClientProofs ----------------------------
(***************************************************************************)
(* Theorems about ProviderClient, for every number of callers and          *)
(* configurations.                                                         *)
(*                                                                         *)
(* The mutex argument comes first (MutexHeld is inductive with the types); *)
(* the others rest on it: while one call is inside client nobody else can  *)
(* settle, start or own anything of its configuration.                     *)
(***************************************************************************)
EXTENDS ProviderClient, SequenceTheorems, TLAPS

LEMMA InitIInv == Init => IInv
<1> SUFFICES ASSUME Init PROVE IInv
  OBVIOUS
<1> USE ClientAssumption DEF Init, Holding, Starting, Waiting, Unsettled
<1>1. TypeOK
  <2>1. cleanups \in Seq(Data)
    OBVIOUS
  <2>2. /\ resolErr \in [Data -> BOOLEAN]
        /\ runDir \in [Data -> BOOLEAN]
        /\ signal \in BOOLEAN
    OBVIOUS
  <2> QED
    BY <2>1, <2>2 DEF TypeOK
<1>2. MutexHeld
  BY DEF MutexHeld
<1>3. SettledOnce /\ ChildOfStarter
  BY DEF SettledOnce, ChildOfStarter, AnswerOf, Range
<1>4. NoUnownedDaemon /\ CleanupHasHandler
  BY DEF NoUnownedDaemon, CleanupHasHandler
<1> QED
  BY <1>1, <1>2, <1>3, <1>4 DEF IInv

LEMMA TypeStep == TypeOK /\ SettledOnce /\ [Next]_vars => TypeOK'
<1> SUFFICES ASSUME TypeOK, SettledOnce, [Next]_vars PROVE TypeOK'
  OBVIOUS
<1> USE ClientAssumption DEF TypeOK, At, Goto, Kill, memo, calls, children, exit,
        Waiting, Holding, Starting, Ended
<1>1. ASSUME NEW c \in Callers, Call(c) \/ Lock(c) PROVE TypeOK'
  BY <1>1 DEF Call, Lock
<1>2. ASSUME NEW c \in Callers, Memo(c) PROVE TypeOK'
  BY <1>2 DEF Memo
<1>3. ASSUME NEW c \in Callers, Provision(c) PROVE TypeOK'
  BY <1>3 DEF Provision
<1>4. ASSUME NEW c \in Callers, WaitForEmbedded(c) \/ KillUnready(c) PROVE TypeOK'
  BY <1>4 DEF WaitForEmbedded, KillUnready
<1>5. ASSUME NEW c \in Callers, RemoveRunDir(c) \/ StoreErr(c) PROVE TypeOK'
  BY <1>5 DEF RemoveRunDir, StoreErr
<1>6. ASSUME NEW c \in Callers, Notify(c) \/ Unlock(c) PROVE TypeOK'
  BY <1>6 DEF Notify, Unlock
<1>7. ASSUME NEW c \in Callers, Append_(c) PROVE TypeOK'
  BY <1>7 DEF Append_
<1>8. CASE HandlerCleans
  <2>1. SubSeq(cleanups, 1, Len(cleanups) - 1) \in Seq(Data)
    BY <1>8 DEF HandlerCleans
  <2>2. cleanups[Len(cleanups)] \in Data
    BY <1>8 DEF HandlerCleans
  <2> QED
    BY <1>8, <2>1, <2>2 DEF HandlerCleans
<1>9. CASE HandlerWakes \/ HandlerUnlocks \/ HandlerExits
  BY <1>9 DEF HandlerWakes, HandlerUnlocks, HandlerExits
<1>10. CASE Terminate \/ MainReturns \/ KillProcess \/ Gone
  BY <1>10 DEF Terminate, MainReturns, KillProcess, Gone, vars
<1>11. ASSUME NEW d \in Data, DaemonDies(d) PROVE TypeOK'
  BY <1>11 DEF DaemonDies
<1>12. CASE UNCHANGED vars
  BY <1>12 DEF vars
<1>13. ASSUME NEW c \in Callers, Store(c) PROVE TypeOK'
  BY <1>13 DEF Store, SettledOnce
<1>14. ASSUME NEW c \in Callers, Resolve(c) PROVE TypeOK'
  BY <1>14 DEF Resolve
<1>15. ASSUME NEW c \in Callers, Spawn(c) PROVE TypeOK'
  <2>1. runDir' \in [Data -> BOOLEAN]
    BY <1>15 DEF Spawn
  <2>2. daemon' \in [Data -> {"none", "running", "gone"}]
    BY <1>15 DEF Spawn
  <2>3. pc' \in [Callers -> Waiting \cup {"idle", "done"}]
    BY <1>15 DEF Spawn
  <2> QED
    BY <1>15, <2>1, <2>2, <2>3 DEF Spawn
<1> QED
  BY <1>1, <1>2, <1>3, <1>4, <1>5, <1>6, <1>7, <1>8, <1>9, <1>10,
     <1>11, <1>12, <1>13, <1>14, <1>15
     DEF Next, Progress, Handle

(***************************************************************************)
(* Only Lock and Unlock change the mutex; only the call that holds it      *)
(* takes steps inside client.                                              *)
(***************************************************************************)
LEMMA MutexStep == TypeOK /\ MutexHeld /\ [Next]_vars => MutexHeld'
<1> SUFFICES ASSUME TypeOK, MutexHeld, [Next]_vars PROVE MutexHeld'
  OBVIOUS
<1> USE ClientAssumption DEF TypeOK, MutexHeld, At, Goto, memo, calls, exit,
        Holding, Starting
<1>1. ASSUME NEW c \in Callers, Call(c) PROVE MutexHeld'
  BY <1>1 DEF Call
<1>2. ASSUME NEW c \in Callers, Lock(c) PROVE MutexHeld'
  BY <1>2 DEF Lock
<1>3. ASSUME NEW c \in Callers, Memo(c) \/ Resolve(c) PROVE MutexHeld'
  <2>1. CASE Memo(c)
    BY <2>1 DEF Memo
  <2>2. CASE Resolve(c)
    BY <2>2 DEF Resolve
  <2>3. QED
    BY <1>3, <2>1, <2>2
<1>4. ASSUME NEW c \in Callers, Provision(c) \/ Spawn(c) PROVE MutexHeld'
  BY <1>4 DEF Provision, Spawn
<1>5. ASSUME NEW c \in Callers, WaitForEmbedded(c) \/ KillUnready(c) \/ RemoveRunDir(c)
      PROVE  MutexHeld'
  BY <1>5 DEF WaitForEmbedded, KillUnready, RemoveRunDir
<1>6. ASSUME NEW c \in Callers, StoreErr(c) \/ Store(c) PROVE MutexHeld'
  BY <1>6 DEF StoreErr, Store
<1>7. ASSUME NEW c \in Callers, Append_(c) \/ Notify(c) PROVE MutexHeld'
  BY <1>7 DEF Append_, Notify
<1>8. ASSUME NEW c \in Callers, Unlock(c) PROVE MutexHeld'
  BY <1>8 DEF Unlock
<1>9. CASE Handle
  BY <1>9 DEF Handle, HandlerWakes, HandlerCleans, HandlerUnlocks, HandlerExits
<1>10. CASE Terminate \/ MainReturns \/ KillProcess \/ Gone
  BY <1>10 DEF Terminate, MainReturns, KillProcess, Gone, vars
<1>11. ASSUME NEW d \in Data, DaemonDies(d) PROVE MutexHeld'
  BY <1>11 DEF DaemonDies
<1>12. CASE UNCHANGED vars
  BY <1>12 DEF vars
<1> QED
  BY <1>1, <1>2, <1>3, <1>4, <1>5, <1>6, <1>7, <1>8, <1>9, <1>10, <1>11, <1>12
     DEF Next, Progress

(***************************************************************************)
(* A configuration is settled once, and what finished calls were told      *)
(* stays its answer.                                                       *)
(***************************************************************************)
LEMMA SettledStep ==
  TypeOK /\ MutexHeld /\ SettledOnce /\ [Next]_vars => SettledOnce'
<1> SUFFICES ASSUME TypeOK, MutexHeld, SettledOnce, [Next]_vars PROVE SettledOnce'
  OBVIOUS
<1> USE ClientAssumption DEF TypeOK, MutexHeld, SettledOnce, AnswerOf, At, Goto,
        memo, calls, exit, Holding, Starting, Unsettled
<1>1. ASSUME NEW c \in Callers, Call(c) PROVE SettledOnce'
  BY <1>1 DEF Call
<1>2. ASSUME NEW c \in Callers, Lock(c) PROVE SettledOnce'
  BY <1>2 DEF Lock
<1>3. ASSUME NEW c \in Callers, Memo(c) PROVE SettledOnce'
  BY <1>3 DEF Memo
<1>4. ASSUME NEW c \in Callers, Resolve(c) \/ Provision(c) \/ Spawn(c) PROVE SettledOnce'
  BY <1>4 DEF Resolve, Provision, Spawn
<1>5. ASSUME NEW c \in Callers, WaitForEmbedded(c) \/ KillUnready(c) \/ RemoveRunDir(c)
      PROVE  SettledOnce'
  BY <1>5 DEF WaitForEmbedded, KillUnready, RemoveRunDir
<1>6. ASSUME NEW c \in Callers, StoreErr(c) PROVE SettledOnce'
  BY <1>6 DEF StoreErr
<1>7. ASSUME NEW c \in Callers, Store(c) PROVE SettledOnce'
  BY <1>7 DEF Store
<1>8. ASSUME NEW c \in Callers, Append_(c) \/ Notify(c) \/ Unlock(c) PROVE SettledOnce'
  BY <1>8 DEF Append_, Notify, Unlock
<1>9. CASE Handle
  BY <1>9 DEF Handle, HandlerWakes, HandlerCleans, HandlerUnlocks, HandlerExits
<1>10. CASE Terminate \/ MainReturns \/ KillProcess \/ Gone
  BY <1>10 DEF Terminate, MainReturns, KillProcess, Gone, vars
<1>11. ASSUME NEW d \in Data, DaemonDies(d) PROVE SettledOnce'
  BY <1>11 DEF DaemonDies
<1>12. CASE UNCHANGED vars
  BY <1>12 DEF vars
<1> QED
  BY <1>1, <1>2, <1>3, <1>4, <1>5, <1>6, <1>7, <1>8, <1>9, <1>10, <1>11, <1>12
     DEF Next, Progress

(***************************************************************************)
(* How the two operations on the list of cleanups change its elements.     *)
(***************************************************************************)
LEMMA RangeAppend ==
  ASSUME NEW S, NEW s \in Seq(S), NEW e \in S
  PROVE  Range(Append(s, e)) = Range(s) \cup {e}
<1>1. ASSUME NEW x \in Range(Append(s, e)) PROVE x \in Range(s) \cup {e}
  <2>1. PICK i \in 1 .. Len(s) + 1 : x = Append(s, e)[i]
    BY <1>1 DEF Range
  <2> QED
    BY <2>1 DEF Range
<1>2. ASSUME NEW i \in 1 .. Len(s) PROVE s[i] \in Range(Append(s, e))
  <2>1. i \in DOMAIN Append(s, e) /\ Append(s, e)[i] = s[i]
    OBVIOUS
  <2> QED
    BY <2>1 DEF Range
<1>3. e \in Range(Append(s, e))
  <2>1. Len(s) + 1 \in DOMAIN Append(s, e) /\ Append(s, e)[Len(s) + 1] = e
    OBVIOUS
  <2> QED
    BY <2>1 DEF Range
<1> QED
  BY <1>1, <1>2, <1>3 DEF Range

LEMMA RangePop ==
  ASSUME NEW S, NEW s \in Seq(S), s # <<>>
  PROVE  LET t == SubSeq(s, 1, Len(s) - 1)
         IN /\ Range(t) \subseteq Range(s)
            /\ Range(s) \subseteq Range(t) \cup {s[Len(s)]}
            /\ s[Len(s)] \in Range(s) \cap S
<1> DEFINE t == SubSeq(s, 1, Len(s) - 1)
<1>1. /\ Len(s) \in Nat /\ Len(s) >= 1
      /\ t \in Seq(S) /\ Len(t) = Len(s) - 1
      /\ \A i \in 1 .. Len(s) - 1 : t[i] = s[i]
  <2>1. Len(s) \in Nat /\ Len(s) # 0
    OBVIOUS
  <2>2. \A i \in 1 .. Len(s) - 1 : s[i] \in S
    BY <2>1
  <2> DEFINE n == Len(s) - 1
  <2>3. n \in Int /\ 1 \in Int
    BY <2>1
  <2>4. /\ t \in Seq(S)
        /\ Len(t) = IF 1 <= n THEN n - 1 + 1 ELSE 0
        /\ \A i \in 1 .. n - 1 + 1 : t[i] = s[1 + i - 1]
    <3> HIDE DEF n
    <3>1. \A i \in 1 .. n : s[i] \in S
      BY <2>2 DEF n
    <3>2. t = SubSeq(s, 1, n)
      BY DEF n
    <3> QED
      BY <2>3, <3>1, <3>2, SubSeqProperties
  <2>5. Len(s) >= 1 /\ Len(t) = Len(s) - 1
    <3>1. Len(s) >= 1
      BY <2>1
    <3>2. Len(t) = IF 1 <= n THEN n - 1 + 1 ELSE 0
      BY <2>4
    <3>3. (IF 1 <= n THEN n - 1 + 1 ELSE 0) = n
      <4>1. n \in Nat
        BY <2>1
      <4> HIDE DEF n
      <4> QED
        BY <4>1
    <3>4. Len(t) = n
      BY <3>2, <3>3
    <3> HIDE DEF t
    <3> QED
      BY <3>1, <3>4 DEF n
  <2>6. ASSUME NEW i \in 1 .. Len(s) - 1 PROVE t[i] = s[i]
    <3>1. i \in 1 .. n - 1 + 1 /\ 1 + i - 1 = i
      BY <2>1
    <3> HIDE DEF n, t
    <3> QED
      BY <2>4, <3>1
  <2> HIDE DEF t
  <2> QED
    BY <2>1, <2>4, <2>5, <2>6
<1>2. ASSUME NEW x \in Range(t) PROVE x \in Range(s)
  <2>1. PICK i \in DOMAIN t : x = t[i]
    BY <1>2 DEF Range
  <2>2. DOMAIN t = 1 .. Len(s) - 1 /\ DOMAIN s = 1 .. Len(s)
    BY <1>1
  <2>3. i \in 1 .. Len(s) /\ x = s[i]
    BY <1>1, <2>1, <2>2
  <2> QED
    BY <2>2, <2>3 DEF Range
<1>3. ASSUME NEW x \in Range(s) PROVE x \in Range(t) \cup {s[Len(s)]}
  <2>1. PICK i \in DOMAIN s : x = s[i]
    BY <1>3 DEF Range
  <2>2. DOMAIN t = 1 .. Len(s) - 1 /\ DOMAIN s = 1 .. Len(s)
    BY <1>1
  <2>3. CASE i = Len(s)
    BY <2>1, <2>3
  <2>4. CASE i # Len(s)
    <3>1. i \in DOMAIN t /\ x = t[i]
      BY <1>1, <2>1, <2>2, <2>4
    <3> QED
      BY <3>1 DEF Range
  <2> QED
    BY <2>3, <2>4
<1>4. s[Len(s)] \in Range(s) \cap S
  BY <1>1 DEF Range
<1> QED
  BY <1>2, <1>3, <1>4

(***************************************************************************)
(* Before anything is settled, only the call inside client has started a   *)
(* daemon; an error is stored only after it is gone.                       *)
(***************************************************************************)
LEMMA ChildStep ==
  TypeOK /\ MutexHeld /\ SettledOnce /\ ChildOfStarter /\ NoUnownedDaemon /\ [Next]_vars
    => ChildOfStarter'
<1> SUFFICES ASSUME TypeOK, MutexHeld, SettledOnce, ChildOfStarter, NoUnownedDaemon,
                    [Next]_vars
             PROVE ChildOfStarter'
  OBVIOUS
<1> USE ClientAssumption DEF TypeOK, MutexHeld, SettledOnce, ChildOfStarter, AnswerOf,
        NoUnownedDaemon, OwnedBy, At, Goto, Kill, memo, calls, children, exit, Holding,
        Starting, Unsettled
<1>1. ASSUME NEW c \in Callers, Call(c) PROVE ChildOfStarter'
  BY <1>1 DEF Call
<1>2. ASSUME NEW c \in Callers, Lock(c) PROVE ChildOfStarter'
  BY <1>2 DEF Lock
<1>3. ASSUME NEW c \in Callers, Memo(c) PROVE ChildOfStarter'
  BY <1>3 DEF Memo
<1>4. ASSUME NEW c \in Callers, Resolve(c) PROVE ChildOfStarter'
  BY <1>4 DEF Resolve
<1>5. ASSUME NEW c \in Callers, Provision(c) PROVE ChildOfStarter'
  BY <1>5 DEF Provision
<1>6. ASSUME NEW c \in Callers, Spawn(c) PROVE ChildOfStarter'
  BY <1>6 DEF Spawn
<1>7. ASSUME NEW c \in Callers, WaitForEmbedded(c) PROVE ChildOfStarter'
  <2>1. CASE pc' = [pc EXCEPT ![c] = "kill"] /\ UNCHANGED result
    BY <1>7, <2>1 DEF WaitForEmbedded
  <2>2. CASE /\ daemon[DataOf[c]] = "running"
             /\ result' = [result EXCEPT ![c] = "embedded"]
             /\ pc' = [pc EXCEPT ![c] = "store"]
    <3>1. \A e \in Callers : pc'[e] = "store" /\ result'[e] = "direct" =>
                              pc[e] = "store" /\ result[e] = "direct"
      BY <2>2
    <3>2. UNCHANGED <<mu, resolved, resolErr, daemon, runDir, cleanups>>
      BY <1>7 DEF WaitForEmbedded
    <3> QED
      BY <1>7, <2>2, <3>1, <3>2 DEF WaitForEmbedded
  <2> QED
    BY <1>7, <2>1, <2>2 DEF WaitForEmbedded
<1>8. ASSUME NEW c \in Callers, KillUnready(c) \/ RemoveRunDir(c) PROVE ChildOfStarter'
  BY <1>8 DEF KillUnready, RemoveRunDir
<1>9. ASSUME NEW c \in Callers, StoreErr(c) PROVE ChildOfStarter'
  BY <1>9 DEF StoreErr
<1>10. ASSUME NEW c \in Callers, Store(c) PROVE ChildOfStarter'
  BY <1>10 DEF Store
<1>11. ASSUME NEW c \in Callers, Append_(c) PROVE ChildOfStarter'
  BY <1>11, RangeAppend DEF Append_
<1>12. ASSUME NEW c \in Callers, Notify(c) PROVE ChildOfStarter'
  BY <1>12 DEF Notify
<1>13. ASSUME NEW c \in Callers, Unlock(c) PROVE ChildOfStarter'
  BY <1>13 DEF Unlock
<1>14. CASE HandlerCleans
  BY <1>14, RangePop DEF HandlerCleans, Kill
<1>15. CASE HandlerWakes \/ HandlerUnlocks \/ HandlerExits
  BY <1>15 DEF HandlerWakes, HandlerUnlocks, HandlerExits
<1>16. CASE Terminate \/ MainReturns \/ KillProcess \/ Gone
  BY <1>16 DEF Terminate, MainReturns, KillProcess, Gone, vars
<1>17. ASSUME NEW d \in Data, DaemonDies(d) PROVE ChildOfStarter'
  BY <1>17 DEF DaemonDies
<1>18. CASE UNCHANGED vars
  BY <1>18 DEF vars
<1> QED
  BY <1>1, <1>2, <1>3, <1>4, <1>5, <1>6, <1>7, <1>8, <1>9, <1>10,
     <1>11, <1>12, <1>13, <1>14, <1>15, <1>16, <1>17, <1>18
     DEF Next, Progress, Handle

(***************************************************************************)
(* A start ends with the daemon gone or registered, and a cleanup leaves   *)
(* the list only as it runs.                                               *)
(***************************************************************************)
LEMMA OwnedStep ==
  TypeOK /\ MutexHeld /\ SettledOnce /\ ChildOfStarter /\ NoUnownedDaemon /\ [Next]_vars
     => NoUnownedDaemon'
<1> SUFFICES ASSUME TypeOK, MutexHeld, SettledOnce, ChildOfStarter, NoUnownedDaemon, [Next]_vars
             PROVE  NoUnownedDaemon'
  OBVIOUS
<1> USE ClientAssumption DEF TypeOK, MutexHeld, SettledOnce, ChildOfStarter,
        NoUnownedDaemon, OwnedBy, AnswerOf, At, Goto, Kill, memo, calls, children, exit,
        Holding, Starting, Unsettled
<1>1. ASSUME NEW c \in Callers, Call(c) PROVE NoUnownedDaemon'
  BY <1>1 DEF Call
<1>2. ASSUME NEW c \in Callers, Lock(c) PROVE NoUnownedDaemon'
  BY <1>2 DEF Lock
<1>3. ASSUME NEW c \in Callers, Memo(c) PROVE NoUnownedDaemon'
  BY <1>3 DEF Memo
<1>4. ASSUME NEW c \in Callers, Resolve(c) PROVE NoUnownedDaemon'
  BY <1>4 DEF Resolve
<1>5. ASSUME NEW c \in Callers, Provision(c) PROVE NoUnownedDaemon'
  BY <1>5 DEF Provision
<1>6. ASSUME NEW c \in Callers, Spawn(c) PROVE NoUnownedDaemon'
  BY <1>6 DEF Spawn
<1>7. ASSUME NEW c \in Callers, WaitForEmbedded(c) PROVE NoUnownedDaemon'
  BY <1>7 DEF WaitForEmbedded
<1>8. ASSUME NEW c \in Callers, KillUnready(c) \/ RemoveRunDir(c) PROVE NoUnownedDaemon'
  BY <1>8 DEF KillUnready, RemoveRunDir
<1>9. ASSUME NEW c \in Callers, StoreErr(c) PROVE NoUnownedDaemon'
  BY <1>9 DEF StoreErr
<1>10. ASSUME NEW c \in Callers, Store(c) PROVE NoUnownedDaemon'
  BY <1>10 DEF Store
<1>11. ASSUME NEW c \in Callers, Append_(c) PROVE NoUnownedDaemon'
  BY <1>11, RangeAppend DEF Append_
<1>12. ASSUME NEW c \in Callers, Notify(c) PROVE NoUnownedDaemon'
  BY <1>12 DEF Notify
<1>13. ASSUME NEW c \in Callers, Unlock(c) PROVE NoUnownedDaemon'
  BY <1>13 DEF Unlock
<1>14. CASE HandlerCleans
  BY <1>14, RangePop DEF HandlerCleans, Kill
<1>15. CASE HandlerWakes \/ HandlerUnlocks \/ HandlerExits
  BY <1>15 DEF HandlerWakes, HandlerUnlocks, HandlerExits
<1>16. CASE Terminate \/ MainReturns \/ KillProcess \/ Gone
  BY <1>16 DEF Terminate, MainReturns, KillProcess, Gone, vars
<1>17. ASSUME NEW d \in Data, DaemonDies(d) PROVE NoUnownedDaemon'
  BY <1>17 DEF DaemonDies
<1>18. CASE UNCHANGED vars
  BY <1>18 DEF vars
<1> QED
  BY <1>1, <1>2, <1>3, <1>4, <1>5, <1>6, <1>7, <1>8, <1>9, <1>10,
     <1>11, <1>12, <1>13, <1>14, <1>15, <1>16, <1>17, <1>18
     DEF Next, Progress, Handle

\* The handler is installed by the call that registered the first cleanup.
LEMMA HandlerStep ==
  TypeOK /\ MutexHeld /\ CleanupHasHandler /\ [Next]_vars => CleanupHasHandler'
<1> SUFFICES ASSUME TypeOK, MutexHeld, CleanupHasHandler, [Next]_vars PROVE CleanupHasHandler'
  OBVIOUS
<1> USE ClientAssumption DEF TypeOK, MutexHeld, CleanupHasHandler, At, Goto, memo, calls,
        children, exit, Holding, Starting
<1>1. ASSUME NEW c \in Callers, Call(c) PROVE CleanupHasHandler'
  BY <1>1 DEF Call
<1>2. ASSUME NEW c \in Callers, Lock(c) PROVE CleanupHasHandler'
  BY <1>2 DEF Lock
<1>3. ASSUME NEW c \in Callers, Memo(c) PROVE CleanupHasHandler'
  BY <1>3 DEF Memo
<1>4. ASSUME NEW c \in Callers, Resolve(c) PROVE CleanupHasHandler'
  BY <1>4 DEF Resolve
<1>5. ASSUME NEW c \in Callers, Provision(c) PROVE CleanupHasHandler'
  BY <1>5 DEF Provision
<1>6. ASSUME NEW c \in Callers, Spawn(c) PROVE CleanupHasHandler'
  BY <1>6 DEF Spawn
<1>7. ASSUME NEW c \in Callers, WaitForEmbedded(c) PROVE CleanupHasHandler'
  BY <1>7 DEF WaitForEmbedded
<1>8. ASSUME NEW c \in Callers, KillUnready(c) \/ RemoveRunDir(c) PROVE CleanupHasHandler'
  BY <1>8 DEF KillUnready, RemoveRunDir
<1>9. ASSUME NEW c \in Callers, StoreErr(c) PROVE CleanupHasHandler'
  BY <1>9 DEF StoreErr
<1>10. ASSUME NEW c \in Callers, Store(c) PROVE CleanupHasHandler'
  BY <1>10 DEF Store
<1>11. ASSUME NEW c \in Callers, Append_(c) PROVE CleanupHasHandler'
  BY <1>11 DEF Append_
<1>12. ASSUME NEW c \in Callers, Notify(c) PROVE CleanupHasHandler'
  BY <1>12 DEF Notify
<1>13. ASSUME NEW c \in Callers, Unlock(c) PROVE CleanupHasHandler'
  BY <1>13 DEF Unlock
<1>14. CASE HandlerCleans
  BY <1>14, RangePop DEF HandlerCleans, Kill
<1>15. CASE HandlerWakes \/ HandlerUnlocks \/ HandlerExits
  BY <1>15 DEF HandlerWakes, HandlerUnlocks, HandlerExits
<1>16. CASE Terminate \/ MainReturns \/ KillProcess \/ Gone
  BY <1>16 DEF Terminate, MainReturns, KillProcess, Gone, vars
<1>17. ASSUME NEW d \in Data, DaemonDies(d) PROVE CleanupHasHandler'
  BY <1>17 DEF DaemonDies
<1>18. CASE UNCHANGED vars
  BY <1>18 DEF vars
<1> QED
  BY <1>1, <1>2, <1>3, <1>4, <1>5, <1>6, <1>7, <1>8, <1>9, <1>10,
     <1>11, <1>12, <1>13, <1>14, <1>15, <1>16, <1>17, <1>18
     DEF Next, Progress, Handle

LEMMA IInvStep == IInv /\ [Next]_vars => IInv'
  BY TypeStep, MutexStep, SettledStep, ChildStep, OwnedStep, HandlerStep DEF IInv

THEOREM Inductive == Spec => []IInv
<1> QED
  BY InitIInv, IInvStep, PTL DEF Spec

\* Every reachable state has the types declared in ProviderClient.
THEOREM Typing == Spec => []TypeOK
<1>1. IInv => TypeOK
  BY DEF IInv
<1> QED
  BY <1>1, Inductive, PTL

\* Every daemon and runtime directory has an owner that is to remove it.
THEOREM Owned == Spec => []NoUnownedDaemon
<1>1. IInv => NoUnownedDaemon
  BY DEF IInv
<1> QED
  BY <1>1, Inductive, PTL

\* A registered cleanup has a handler once the connection is let go.
THEOREM HandlerInstalled == Spec => []CleanupHasHandler
<1>1. IInv => CleanupHasHandler
  BY DEF IInv
<1> QED
  BY <1>1, Inductive, PTL

(***************************************************************************)
(* No configuration starts a second daemon: only Spawn starts one, in a    *)
(* call that holds the mutex of a configuration without an answer, and     *)
(* then the daemon of that configuration has never been started.           *)
(***************************************************************************)
THEOREM NoRestart == Spec => StartedOnce
<1>1. IInv /\ [Next]_vars => [\A d \in Data : daemon[d] = "gone" => daemon'[d] = "gone"]_vars
  <2> SUFFICES ASSUME IInv, [Next]_vars, NEW d \in Data, daemon[d] = "gone"
               PROVE  daemon'[d] = "gone"
    OBVIOUS
  <2> USE DEF IInv, TypeOK, At
  <2>1. ASSUME NEW c \in Callers, Spawn(c) PROVE daemon'[d] = "gone"
    <3>1. DataOf[c] # d
      BY <2>1, ClientAssumption DEF Spawn, MutexHeld, SettledOnce, ChildOfStarter,
         Holding, Starting, Unsettled
    <3> QED
      BY <2>1, <3>1, ClientAssumption DEF Spawn
  <2>2. ASSUME NEW c \in Callers, Call(c) \/ Lock(c) PROVE daemon'[d] = "gone"
    BY <2>2 DEF Call, Lock, children
  <2>3. ASSUME NEW c \in Callers, Progress(c), ~Spawn(c) PROVE daemon'[d] = "gone"
    BY <2>3, ClientAssumption DEF Progress, Memo, Resolve, Provision, WaitForEmbedded,
       KillUnready, RemoveRunDir, StoreErr, Store, Append_, Notify, Unlock, Kill, children
  <2>4. CASE Handle
    BY <2>4, RangePop DEF Handle, HandlerWakes, HandlerCleans, HandlerUnlocks,
       HandlerExits, Kill, children
  <2>5. CASE Terminate \/ MainReturns \/ KillProcess \/ Gone
    BY <2>5 DEF Terminate, MainReturns, KillProcess, Gone, vars, children
  <2>6. ASSUME NEW e \in Data, DaemonDies(e) PROVE daemon'[d] = "gone"
    BY <2>6 DEF DaemonDies
  <2>7. CASE UNCHANGED vars
    BY <2>7 DEF vars
  <2> QED
    BY <2>1, <2>2, <2>3, <2>4, <2>5, <2>6, <2>7 DEF Next
<1> QED
  BY <1>1, Inductive, PTL DEF Spec, StartedOnce

(***************************************************************************)
(* client implements SharedAnswer: an answer is settled by Store or        *)
(* StoreErr, told by Unlock, and everything else is a stutter.             *)
(***************************************************************************)
THEOREM Refinement == Spec => Implements
<1>1. Init => Shared!Init
  BY ClientAssumption DEF Init, Shared!Init, Answer, AnswerOf, Reply, Waiting, Holding, Starting
<1>2. IInv /\ IInv' /\ [Next]_vars => [Shared!Next]_(Shared!vars)
  <2> SUFFICES ASSUME IInv, IInv', [Next]_vars
               PROVE  Shared!Next \/ UNCHANGED <<Answer, Reply>>
    BY DEF Shared!vars
  <2> USE ClientAssumption DEF IInv, TypeOK, At, Goto, memo, calls, exit
  <2>1. ASSUME NEW c \in Callers, Call(c) PROVE Shared!Ask(c)
    <3>1. UNCHANGED Answer
      BY <2>1 DEF Call, Answer, AnswerOf
    <3>2. Reply[c] # "waiting"
      BY <2>1 DEF Call, Reply, Waiting, Holding, Starting, SettledOnce
    <3>3. Reply' = [Reply EXCEPT ![c] = "waiting"]
      BY <2>1 DEF Call, Reply, Waiting
    <3> QED
      BY <3>1, <3>2, <3>3 DEF Shared!Ask
  <2>2. ASSUME NEW c \in Callers, StoreErr(c) \/ Store(c) PROVE Shared!Settle(DataOf[c])
    <3>1. UNCHANGED Reply
      BY <2>2 DEF StoreErr, Store, Reply, Waiting, Holding, Starting
    <3>2. Reply[c] = "waiting"
      BY <2>2 DEF StoreErr, Store, Reply, Waiting, Holding, Starting
    <3>3. Answer[DataOf[c]] = "none"
      BY <2>2 DEF StoreErr, Store, Answer, SettledOnce, Unsettled
    <3>4. \E a \in {"ok", "err"} : Answer' = [Answer EXCEPT ![DataOf[c]] = a]
      <4>1. CASE StoreErr(c)
        <5>1. AnswerOf(DataOf[c])' = "err"
          BY <3>3, <4>1 DEF StoreErr, Answer, AnswerOf
        <5>2. \A e \in Data \ {DataOf[c]} : AnswerOf(e)' = AnswerOf(e)
          BY <4>1 DEF StoreErr, AnswerOf
        <5>3. Answer' = [Answer EXCEPT ![DataOf[c]] = "err"]
          BY <5>1, <5>2 DEF Answer
        <5> QED
          BY <5>3
      <4>2. CASE Store(c)
        <5>1. AnswerOf(DataOf[c])' = "ok"
          BY <4>2 DEF Store, AnswerOf, SettledOnce
        <5>2. \A e \in Data \ {DataOf[c]} : AnswerOf(e)' = AnswerOf(e)
          BY <4>2 DEF Store, AnswerOf
        <5>3. Answer' = [Answer EXCEPT ![DataOf[c]] = "ok"]
          BY <5>1, <5>2 DEF Answer
        <5> QED
          BY <5>3
      <4> QED
        BY <2>2, <4>1, <4>2
    <3> QED
      BY <3>1, <3>2, <3>3, <3>4 DEF Shared!Settle
  <2>3. ASSUME NEW c \in Callers, Unlock(c) PROVE Shared!Tell(c)
    <3>1. UNCHANGED Answer
      BY <2>3 DEF Unlock, Answer, AnswerOf
    <3>2. Reply[c] = "waiting"
      BY <2>3 DEF Unlock, Reply, Waiting, Holding
    <3>3. result[c] = Answer[DataOf[c]] /\ Answer[DataOf[c]] # "none"
      BY <2>3 DEF Unlock, SettledOnce, Answer
    <3>4. Reply' = [Reply EXCEPT ![c] = Answer[DataOf[c]]]
      BY <2>3, <3>3 DEF Unlock, Reply, Waiting, Holding, Starting
    <3> QED
      BY <3>1, <3>2, <3>3, <3>4 DEF Shared!Tell
  <2>4. ASSUME NEW c \in Callers,
               Lock(c) \/ (Progress(c) /\ ~(StoreErr(c) \/ Store(c) \/ Unlock(c)))
        PROVE  UNCHANGED <<Answer, Reply>>
    <3>1. UNCHANGED Answer
      BY <2>4 DEF Lock, Progress, Memo, Resolve, Provision, Spawn, WaitForEmbedded,
         KillUnready, RemoveRunDir, Append_, Notify, Answer, AnswerOf
    <3>2. pc[c] \in Waiting /\ \E l \in Waiting : pc' = [pc EXCEPT ![c] = l]
      BY <2>4 DEF Lock, Progress, Memo, Resolve, Provision, Spawn, WaitForEmbedded,
         KillUnready, RemoveRunDir, Append_, Notify, Waiting, Holding, Starting
    <3>3. \A e \in Callers \ {c} : result'[e] = result[e]
      BY <2>4 DEF Lock, Progress, Memo, Resolve, Provision, Spawn, WaitForEmbedded,
         KillUnready, RemoveRunDir, Append_, Notify
    <3> QED
      BY <3>1, <3>2, <3>3 DEF Reply
  <2>5. CASE Handle
    BY <2>5 DEF Handle, HandlerWakes, HandlerCleans, HandlerUnlocks, HandlerExits,
       Answer, AnswerOf, Reply
  <2>6. CASE Terminate \/ MainReturns \/ KillProcess \/ Gone
    BY <2>6 DEF Terminate, MainReturns, KillProcess, Gone, vars, Answer, AnswerOf, Reply
  <2>7. ASSUME NEW d \in Data, DaemonDies(d) PROVE UNCHANGED <<Answer, Reply>>
    BY <2>7 DEF DaemonDies, Answer, AnswerOf, Reply
  <2>8. CASE UNCHANGED vars
    BY <2>8 DEF vars, Answer, AnswerOf, Reply
  <2> QED
    BY <2>1, <2>2, <2>3, <2>4, <2>5, <2>6, <2>7, <2>8 DEF Next, Progress, Shared!Next
<1> QED
  BY <1>1, <1>2, Inductive, PTL DEF Spec, Implements, Shared!Spec
=============================================================================
