--------------------------- MODULE ProvisionProofs ---------------------------
(***************************************************************************)
(* Theorems about Provision, for every set of callers and every host.      *)
(*                                                                         *)
(* IInv is inductive.  Types need Extraction, because a rename puts the    *)
(* call's own download into the cache.  The other conjuncts need LockHeld: *)
(* it excludes a second writer, so what a call has extracted, and what it  *)
(* saw of the cache under the lock, stay true until it returns.            *)
(***************************************************************************)
EXTENDS Provision, TLAPS

LEMMA InitIInv == Init => IInv
<1> SUFFICES ASSUME Init PROVE IInv
  OBVIOUS
<1>1. TypeOK /\ OnlyVerified /\ LockHeld
  BY ProvisionAssumption DEF Init, TypeOK, OnlyVerified, LockHeld, Active,
     Finished, Critical, Options, Binaries
<1>2. RuncFollows
  BY DEF Init, RuncFollows, Present
<1>3. Extraction /\ ResultUsable /\ NoRedundantFetch /\ FinalLookSucceeds
  BY DEF Init, Extraction, ResultUsable, NoRedundantFetch, FinalLookSucceeds
<1> QED
  BY <1>1, <1>2, <1>3 DEF IInv

\* Types are preserved, given what an extraction has downloaded.
LEMMA TypeStep == TypeOK /\ Extraction /\ [Next]_vars => TypeOK'
<1> SUFFICES ASSUME TypeOK, Extraction, [Next]_vars PROVE TypeOK'
  OBVIOUS
<1> USE DEF TypeOK, Goto, Succeed, Fail, Release, Discard, work, Active, Finished
<1>0. ASSUME NEW p \in Procs, Cut(p) PROVE torn' \in BOOLEAN
  BY <1>0, Zenon DEF Cut
<1>1. ASSUME NEW p \in Procs, Call(p) PROVE TypeOK'
  BY <1>1 DEF Call
<1>2. ASSUME NEW p \in Procs, CheckOverride(p) \/ CheckCache(p) PROVE TypeOK'
  BY <1>0, <1>2 DEF CheckOverride, CheckCache
<1>3. ASSUME NEW p \in Procs, CheckPath(p) PROVE TypeOK'
  BY <1>0, <1>3 DEF CheckPath
<1>4. ASSUME NEW p \in Procs, AcquireLock(p) \/ LockTimeout(p) PROVE TypeOK'
  BY <1>0, <1>4 DEF AcquireLock, LockTimeout
<1>5. ASSUME NEW p \in Procs, Recheck(p) \/ Fetch(p) PROVE TypeOK'
  BY <1>0, <1>5 DEF Recheck, Fetch
<1>6. ASSUME NEW p \in Procs, Verify(p) PROVE TypeOK'
  BY <1>0, <1>6 DEF Verify, Wanted, Binaries
<1>7. ASSUME NEW p \in Procs, NextEntry(p) \/ ExtractFails(p) PROVE TypeOK'
  BY <1>0, <1>7 DEF NextEntry, ExtractFails
<1>8. ASSUME NEW p \in Procs, Rename(p) PROVE TypeOK'
  BY <1>8 DEF Rename, Extraction
<1>9. ASSUME NEW p \in Procs, ArchiveDone(p) PROVE TypeOK'
  BY <1>0, <1>9 DEF ArchiveDone
<1>10. ASSUME NEW p \in Procs, Final(p) \/ Crash(p) PROVE TypeOK'
  BY <1>0, <1>10 DEF Final, Crash
<1>11. CASE UNCHANGED vars
  BY <1>11 DEF vars
<1> QED
  BY <1>1, <1>2, <1>3, <1>4, <1>5, <1>6, <1>7, <1>8, <1>9, <1>10, <1>11
     DEF Next, Local

\* The lock changes hands only through AcquireLock and the end of a call.
LEMMA LockStep == TypeOK /\ LockHeld /\ [Next]_vars => LockHeld'
<1> SUFFICES ASSUME TypeOK, LockHeld, [Next]_vars PROVE LockHeld'
  OBVIOUS
<1> USE ProvisionAssumption
    DEF TypeOK, LockHeld, Goto, Succeed, Fail, Release, work, Active, Finished, Critical
<1>1. ASSUME NEW p \in Procs, Call(p) PROVE LockHeld'
  BY <1>1 DEF Call
<1>2. ASSUME NEW p \in Procs, CheckOverride(p) \/ CheckCache(p) PROVE LockHeld'
  BY <1>2 DEF CheckOverride, CheckCache
<1>3. ASSUME NEW p \in Procs, CheckPath(p) PROVE LockHeld'
  BY <1>3 DEF CheckPath
<1>4. ASSUME NEW p \in Procs, AcquireLock(p) \/ LockTimeout(p) PROVE LockHeld'
  BY <1>4 DEF AcquireLock, LockTimeout
<1>5. ASSUME NEW p \in Procs, Recheck(p) \/ Fetch(p) PROVE LockHeld'
  BY <1>5 DEF Recheck, Fetch
<1>6. ASSUME NEW p \in Procs, Verify(p) \/ NextEntry(p) PROVE LockHeld'
  BY <1>6 DEF Verify, NextEntry
<1>7. ASSUME NEW p \in Procs, Rename(p) \/ ExtractFails(p) PROVE LockHeld'
  BY <1>7 DEF Rename, ExtractFails
<1>8. ASSUME NEW p \in Procs, ArchiveDone(p) PROVE LockHeld'
  BY <1>8 DEF ArchiveDone
<1>9. ASSUME NEW p \in Procs, Final(p) \/ Crash(p) PROVE LockHeld'
  BY <1>9 DEF Final, Crash
<1>10. CASE UNCHANGED vars
  BY <1>10 DEF vars
<1> QED
  BY <1>1, <1>2, <1>3, <1>4, <1>5, <1>6, <1>7, <1>8, <1>9, <1>10 DEF Next, Local

(***************************************************************************)
(* The cache changes only by a rename, in the one call that holds the      *)
(* lock, of a checked binary: nothing leaves the cache.                    *)
(***************************************************************************)
LEMMA CacheStep ==
  ASSUME IInv, [Next]_vars
  PROVE  /\ OnlyVerified'
         /\ Present \subseteq Present'
         /\ \/ cache' = cache
            \/ \E p \in Procs : Rename(p)
<1> USE DEF IInv, TypeOK, OnlyVerified, Present
<1>1. ASSUME NEW p \in Procs, Rename(p)
      PROVE  OnlyVerified' /\ Present \subseteq Present'
  BY <1>1 DEF Rename, Extraction
<1>2. ASSUME ~ \E p \in Procs : Rename(p) PROVE cache' = cache
  BY <1>2 DEF Next, Local, vars, Call, CheckOverride, CheckCache, CheckPath,
     AcquireLock, LockTimeout, Recheck, Fetch, Verify, NextEntry, ExtractFails,
     ArchiveDone, Final, Crash, Succeed, Fail
<1> QED
  BY <1>1, <1>2

\* A rename moves one entry from what is pending to what is present.
LEMMA ExtractionStep == IInv /\ [Next]_vars => Extraction'
<1> SUFFICES ASSUME IInv, [Next]_vars PROVE Extraction'
  OBVIOUS
<1>0. OnlyVerified' /\ Present \subseteq Present'
  BY CacheStep
<1> USE DEF IInv, TypeOK, Goto, Succeed, Fail, Discard, work, Active, Finished,
        Extraction
<1>1. ASSUME NEW p \in Procs, Call(p) PROVE Extraction'
  BY <1>0, <1>1 DEF Call
<1>2. ASSUME NEW p \in Procs, CheckOverride(p) \/ CheckCache(p) PROVE Extraction'
  BY <1>0, <1>2 DEF CheckOverride, CheckCache
<1>3. ASSUME NEW p \in Procs, CheckPath(p) \/ LockTimeout(p) PROVE Extraction'
  BY <1>0, <1>3 DEF CheckPath, LockTimeout
<1>4. ASSUME NEW p \in Procs, AcquireLock(p) \/ Recheck(p) PROVE Extraction'
  BY <1>0, <1>4 DEF AcquireLock, Recheck
<1>5. ASSUME NEW p \in Procs, Fetch(p) PROVE Extraction'
  BY <1>0, <1>5 DEF Fetch
<1>6. ASSUME NEW p \in Procs, Verify(p) PROVE Extraction'
  BY <1>0, <1>6 DEF Verify, Wanted
<1>7. ASSUME NEW p \in Procs, NextEntry(p) \/ ExtractFails(p) PROVE Extraction'
  BY <1>0, <1>7 DEF NextEntry, ExtractFails
<1>8. ASSUME NEW p \in Procs, Rename(p) PROVE Extraction'
  <2>1. entry[p] \in Present'
    BY <1>8 DEF Rename, Present
  <2>2. \A q \in Procs : /\ pending'[q] = IF q = p THEN pending[p] \ {entry[p]}
                                                 ELSE pending[q]
                         /\ pc'[q] = IF q = p THEN "extract" ELSE pc[q]
    BY <1>8 DEF Rename
  <2>3. ASSUME NEW q \in Procs, pc'[q] \in {"extract", "write"}
        PROVE  /\ body'[q] = "good" /\ pending'[q] \subseteq Wanted(tar'[q])
               /\ Wanted(tar'[q]) \ pending'[q] \subseteq Present'
    BY <1>0, <1>8, <2>1, <2>2, <2>3 DEF Rename
  <2>4. ASSUME NEW q \in Procs, pc'[q] = "write" PROVE entry'[q] \in pending'[q]
    BY <1>8, <2>2, <2>4 DEF Rename
  <2> QED
    BY <1>0, <1>8, <2>2, <2>3, <2>4 DEF Rename
<1>9. ASSUME NEW p \in Procs, ArchiveDone(p) PROVE Extraction'
  BY <1>0, <1>9 DEF ArchiveDone, Wanted
<1>10. ASSUME NEW p \in Procs, Final(p) \/ Crash(p) PROVE Extraction'
  BY <1>0, <1>10 DEF Final, Crash
<1>11. CASE UNCHANGED vars
  BY <1>11 DEF vars, Present
<1> QED
  BY <1>1, <1>2, <1>3, <1>4, <1>5, <1>6, <1>7, <1>8, <1>9, <1>10, <1>11 DEF Next, Local

(***************************************************************************)
(* A torn cache stays so: an extraction that has only buildkit-runc to go  *)
(* writes it, or is cut.                                                   *)
(***************************************************************************)
LEMMA HalfStep ==
  ASSUME IInv, [Next]_vars, HalfWritten
  PROVE  HalfWritten' \/ "buildkit-runc" \in Present'
<1> USE DEF IInv, TypeOK, HalfWritten, Goto, work
<1>1. CASE torn
  BY <1>1 DEF Next, Local, vars, Call, CheckOverride, CheckCache, CheckPath,
     AcquireLock, LockTimeout, Recheck, Fetch, Verify, NextEntry, Rename,
     ExtractFails, ArchiveDone, Final, Crash, Succeed, Fail, Cut
<1>2. ASSUME NEW q \in Procs, BetweenRenames(q)
      PROVE  HalfWritten' \/ "buildkit-runc" \in Present'
  <2>1. ASSUME NEW p \in Procs, p # q, Call(p) \/ AcquireLock(p) \/ Fetch(p)
               \/ Crash(p) \/ Local(p)
        PROVE  BetweenRenames(q)'
    BY <1>2, <2>1 DEF BetweenRenames, Local, Call, CheckOverride, CheckCache,
       CheckPath, AcquireLock, LockTimeout, Recheck, Fetch, Verify, NextEntry,
       Rename, ExtractFails, ArchiveDone, Final, Crash, Succeed, Fail, Discard
  <2>2. CASE Rename(q)
    BY <1>2, <2>2 DEF BetweenRenames, Rename, Extraction, Present, Binaries
  <2>3. CASE NextEntry(q)
    BY <1>2, <2>3 DEF BetweenRenames, NextEntry
  <2>4. CASE Crash(q) \/ ExtractFails(q)
    BY <1>2, <2>4 DEF Crash, ExtractFails, Fail, Cut
  <2>5. CASE Call(q) \/ AcquireLock(q) \/ Fetch(q) \/ CheckOverride(q) \/ CheckCache(q)
             \/ CheckPath(q) \/ LockTimeout(q) \/ Recheck(q) \/ Verify(q)
             \/ ArchiveDone(q) \/ Final(q)
    BY <1>2, <2>5 DEF BetweenRenames, Call, AcquireLock, Fetch, CheckOverride,
       CheckCache, CheckPath, LockTimeout, Recheck, Verify, ArchiveDone, Final,
       Finished
  <2>6. CASE UNCHANGED vars
    BY <1>2, <2>6 DEF BetweenRenames, vars
  <2> QED
    BY <2>1, <2>2, <2>3, <2>4, <2>5, <2>6 DEF Next, Local
<1> QED
  BY <1>1, <1>2

\* Renaming buildkitd first leaves its own extraction between the renames.
LEMMA RuncStep == IInv /\ [Next]_vars => RuncFollows'
<1> SUFFICES ASSUME IInv, [Next]_vars, "buildkitd" \in Present',
                    "buildkit-runc" \notin Present'
             PROVE  HalfWritten'
  BY DEF RuncFollows
<1>0. Present \subseteq Present'
  BY CacheStep
<1>1. CASE "buildkitd" \in Present
  BY <1>0, <1>1, HalfStep DEF IInv, RuncFollows
<1>2. CASE "buildkitd" \notin Present
  <2>1. PICK p \in Procs : Rename(p)
    BY <1>2, CacheStep DEF Present
  <2> USE DEF IInv, TypeOK
  <2>2. pc[p] = "write" /\ body[p] = "good" /\ entry[p] \in Binaries
    BY <2>1 DEF Rename, Extraction
  <2>3. Present' = Present \cup {entry[p]}
    BY <2>1, <2>2 DEF Rename, Present
  <2>4. entry[p] = "buildkitd"
    BY <1>2, <2>3
  <2>5. Wanted(tar[p]) \ pending[p] \subseteq Present
    BY <2>2 DEF Extraction
  <2>6. "buildkit-runc" \notin Present
    BY <1>0
  <2>7. tar[p] = "buildkit"
    BY <1>2, <2>2 DEF Extraction, Wanted
  <2>8. pending[p] = {"buildkitd", "buildkit-runc"}
    BY <1>2, <2>2, <2>5, <2>6, <2>7 DEF Wanted, Extraction
  <2>9. BetweenRenames(p)'
    BY <2>1, <2>4, <2>7, <2>8 DEF Rename, Goto, BetweenRenames
  <2> QED
    BY <2>9 DEF HalfWritten
<1> QED
  BY <1>1, <1>2

(***************************************************************************)
(* A finished call's binaries stay where they were found.  The last look   *)
(* is only passed with all of BuildKit's archive in place; the others may  *)
(* pass a cache without buildkit-runc, which is then torn.                 *)
(***************************************************************************)
LEMMA ResultStep == IInv /\ [Next]_vars => ResultUsable'
<1> SUFFICES ASSUME IInv, [Next]_vars, NEW q \in Procs, pc'[q] = "ok"
             PROVE  /\ Required(opts[q])' \subseteq Found(q)'
                    /\ \/ "buildkit-runc" \in Found(q)'
                       \/ tools'[q] \in {"override", "path"}
                       \/ tools'[q] = "cache" /\ HalfWritten'
  BY DEF ResultUsable
<1>0. /\ Present \subseteq Present' /\ RuncFollows'
      /\ Present = {b \in Binaries : cache[b] = "good"}
      /\ Present' = {b \in Binaries : cache'[b] = "good"}
  <2>1. OnlyVerified /\ OnlyVerified' /\ Present \subseteq Present'
    BY CacheStep DEF IInv
  <2>2. QED
    BY <2>1, RuncStep DEF OnlyVerified, Present
<1>h. host' = host
  BY DEF Next, Local, vars, Call, CheckOverride, CheckCache, CheckPath,
     AcquireLock, LockTimeout, Recheck, Fetch, Verify, NextEntry, Rename,
     ExtractFails, ArchiveDone, Final, Crash, Succeed, Fail
<1> USE DEF IInv, TypeOK
<1>1. CASE pc[q] = "ok"
  <2>1. opts'[q] = opts[q] /\ tools'[q] = tools[q]
    BY <1>1 DEF Next, Local, vars, Call, CheckOverride, CheckCache, CheckPath,
       AcquireLock, LockTimeout, Recheck, Fetch, Verify, NextEntry, Rename,
       ExtractFails, ArchiveDone, Final, Crash, Succeed, Fail, Goto, work, Active
  <2>2. Found(q) \subseteq Found(q)'
    BY <1>0, <1>h, <2>1 DEF Found
  <2>3. /\ Required(opts[q]) \subseteq Found(q)
        /\ \/ "buildkit-runc" \in Found(q)
           \/ tools[q] \in {"override", "path"}
           \/ tools[q] = "cache" /\ HalfWritten
    BY <1>1 DEF ResultUsable
  <2>4. CASE tools[q] = "cache" /\ HalfWritten
    <3>1. HalfWritten' \/ "buildkit-runc" \in Found(q)'
      BY <1>0, <2>1, <2>4, HalfStep DEF Found
    <3> QED
      BY <2>1, <2>2, <2>3, <2>4, <3>1
  <2> QED
    BY <2>1, <2>2, <2>3, <2>4
<1>2. CASE pc[q] # "ok"
  <2>1. ASSUME NEW s, Succeed(q, s)
        PROVE  tools'[q] = s /\ opts' = opts /\ cache' = cache /\ Present' = Present
    BY <2>1 DEF Succeed, Present
  <2>2. CASE CheckOverride(q) \/ CheckPath(q)
    <3>1. CASE Succeed(q, "override") /\ FromDir(host.override, opts[q])
      BY <1>h, <2>1, <3>1 DEF Found, FromDir
    <3>2. CASE Succeed(q, "path") /\ FromDir(host.path, opts[q])
      BY <1>h, <2>1, <3>2 DEF Found, FromDir
    <3> QED
      BY <2>2, <3>1, <3>2, <1>2 DEF CheckOverride, CheckPath, Fail, Goto
  <2>3. CASE CheckCache(q) \/ Recheck(q)
    <3>1. Succeed(q, "cache") /\ FromDir(Present, opts[q])
      BY <1>2, <2>3 DEF CheckCache, Recheck, Goto
    <3>2. Found(q)' = Present' /\ Required(opts[q])' \subseteq Present'
      BY <1>0, <2>1, <3>1 DEF Found, FromDir
    <3>3. "buildkit-runc" \in Present' \/ HalfWritten'
      BY <1>0, <3>2 DEF RuncFollows, Required
    <3> QED
      BY <2>1, <3>1, <3>2, <3>3
  <2>4. CASE Final(q)
    <3>1. Succeed(q, "download") /\ FromDir(Present, opts[q])
      BY <1>2, <2>4 DEF Final, Fail, Goto
    <3>2. Found(q)' = Present' /\ Required(opts[q])' \subseteq Present'
      BY <1>0, <2>1, <3>1 DEF Found, FromDir
    <3>3. "buildkit-runc" \in Present
      BY <2>4 DEF Final, Extraction, Wanted
    <3> QED
      BY <2>1, <3>1, <3>2, <3>3
  <2>5. CASE CheckOverride(q) \/ CheckPath(q) \/ CheckCache(q) \/ Recheck(q) \/ Final(q)
    BY <2>2, <2>3, <2>4, <2>5
  <2>6. CASE ~(CheckOverride(q) \/ CheckPath(q) \/ CheckCache(q) \/ Recheck(q) \/ Final(q))
    BY <1>2, <2>6 DEF Next, Local, vars, Call, CheckOverride, CheckCache, CheckPath,
       AcquireLock, LockTimeout, Recheck, Fetch, Verify, NextEntry, Rename,
       ExtractFails, ArchiveDone, Final, Crash, Succeed, Fail, Goto, work
  <2> QED
    BY <2>5, <2>6
<1> QED
  BY <1>1, <1>2

\* While one call holds the lock, no other call adds to the cache.
LEMMA FetchStep == IInv /\ [Next]_vars => NoRedundantFetch'
<1> SUFFICES ASSUME IInv, [Next]_vars PROVE NoRedundantFetch'
  OBVIOUS
<1>0. OnlyVerified' /\ Present \subseteq Present'
  BY CacheStep
<1> USE DEF IInv, TypeOK, Goto, Succeed, Fail, Discard, work, Active, Finished,
        NoRedundantFetch, LockHeld, Critical, Present
<1>1. ASSUME NEW p \in Procs, Call(p) PROVE NoRedundantFetch'
  BY <1>0, <1>1 DEF Call
<1>2. ASSUME NEW p \in Procs, CheckOverride(p) \/ CheckCache(p) PROVE NoRedundantFetch'
  BY <1>0, <1>2 DEF CheckOverride, CheckCache
<1>3. ASSUME NEW p \in Procs, CheckPath(p) \/ LockTimeout(p) PROVE NoRedundantFetch'
  BY <1>0, <1>3 DEF CheckPath, LockTimeout
<1>4. ASSUME NEW p \in Procs, AcquireLock(p) \/ Recheck(p) PROVE NoRedundantFetch'
  BY <1>0, <1>4 DEF AcquireLock, Recheck, FromDir
<1>5. ASSUME NEW p \in Procs, Fetch(p) PROVE NoRedundantFetch'
  BY <1>0, <1>5 DEF Fetch
<1>6. ASSUME NEW p \in Procs, Verify(p) PROVE NoRedundantFetch'
  BY <1>0, <1>6 DEF Verify, Wanted
<1>7. ASSUME NEW p \in Procs, NextEntry(p) \/ ExtractFails(p) PROVE NoRedundantFetch'
  BY <1>0, <1>7 DEF NextEntry, ExtractFails
<1>8. ASSUME NEW p \in Procs, Rename(p) PROVE NoRedundantFetch'
  BY <1>0, <1>8 DEF Rename, Wanted
<1>9. ASSUME NEW p \in Procs, ArchiveDone(p) PROVE NoRedundantFetch'
  BY <1>0, <1>9 DEF ArchiveDone, Wanted
<1>10. ASSUME NEW p \in Procs, Final(p) \/ Crash(p) PROVE NoRedundantFetch'
  BY <1>0, <1>10 DEF Final, Crash
<1>11. CASE UNCHANGED vars
  BY <1>11 DEF vars, Present
<1> QED
  BY <1>1, <1>2, <1>3, <1>4, <1>5, <1>6, <1>7, <1>8, <1>9, <1>10, <1>11 DEF Next, Local

\* The last look comes after the last archive.
LEMMA FinalStep == IInv /\ [Next]_vars => FinalLookSucceeds'
<1> SUFFICES ASSUME IInv, [Next]_vars PROVE FinalLookSucceeds'
  OBVIOUS
<1>0. OnlyVerified' /\ Present \subseteq Present'
  BY CacheStep
<1> USE DEF IInv, TypeOK, Goto, Succeed, Fail, Discard, work, Active, Finished,
        FinalLookSucceeds, Extraction, FromDir, Required
<1>1. ASSUME NEW p \in Procs, Call(p) PROVE FinalLookSucceeds'
  BY <1>0, <1>1 DEF Call
<1>2. ASSUME NEW p \in Procs, CheckOverride(p) \/ CheckCache(p) PROVE FinalLookSucceeds'
  BY <1>0, <1>2 DEF CheckOverride, CheckCache
<1>3. ASSUME NEW p \in Procs, CheckPath(p) \/ LockTimeout(p) PROVE FinalLookSucceeds'
  BY <1>0, <1>3 DEF CheckPath, LockTimeout
<1>4. ASSUME NEW p \in Procs, AcquireLock(p) \/ Recheck(p) PROVE FinalLookSucceeds'
  BY <1>0, <1>4 DEF AcquireLock, Recheck
<1>5. ASSUME NEW p \in Procs, Fetch(p) PROVE FinalLookSucceeds'
  BY <1>0, <1>5 DEF Fetch
<1>6. ASSUME NEW p \in Procs, Verify(p) PROVE FinalLookSucceeds'
  BY <1>0, <1>6 DEF Verify, Wanted
<1>7. ASSUME NEW p \in Procs, NextEntry(p) \/ ExtractFails(p) PROVE FinalLookSucceeds'
  BY <1>0, <1>7 DEF NextEntry, ExtractFails
<1>8. ASSUME NEW p \in Procs, Rename(p) PROVE FinalLookSucceeds'
  BY <1>0, <1>8 DEF Rename, Wanted
<1>9. ASSUME NEW p \in Procs, ArchiveDone(p) PROVE FinalLookSucceeds'
  BY <1>0, <1>9 DEF ArchiveDone, Wanted
<1>10. ASSUME NEW p \in Procs, Final(p) \/ Crash(p) PROVE FinalLookSucceeds'
  BY <1>0, <1>10 DEF Final, Crash
<1>11. CASE UNCHANGED vars
  BY <1>11 DEF vars, Present
<1> QED
  BY <1>1, <1>2, <1>3, <1>4, <1>5, <1>6, <1>7, <1>8, <1>9, <1>10, <1>11 DEF Next, Local

LEMMA IInvStep == IInv /\ [Next]_vars => IInv'
  BY TypeStep, LockStep, CacheStep, ExtractionStep, RuncStep, ResultStep, FetchStep, FinalStep
     DEF IInv

THEOREM Inductive == Spec => []IInv
<1> QED
  BY InitIInv, IInvStep, PTL DEF Spec

\* Every reachable state has the types declared in Provision.
THEOREM Typing == Spec => []TypeOK
<1>1. IInv => TypeOK
  BY DEF IInv
<1> QED
  BY <1>1, Inductive, PTL

\* The cache never shows a binary of an archive that failed its checksum.
THEOREM CacheVerified == Spec => []OnlyVerified
<1>1. IInv => OnlyVerified
  BY DEF IInv
<1> QED
  BY <1>1, Inductive, PTL

\* Exactly the calls between the lock and their return hold the lock.
THEOREM LockDiscipline == Spec => []LockHeld
<1>1. IInv => LockHeld
  BY DEF IInv
<1> QED
  BY <1>1, Inductive, PTL

\* A call that succeeds returns what it was asked for, checked if it comes
\* from the cache, with buildkit-runc beside it unless a directory of the
\* host's own or a torn cache was taken without.
THEOREM Usable == Spec => []ResultUsable
<1>1. IInv => ResultUsable
  BY DEF IInv
<1> QED
  BY <1>1, Inductive, PTL

\* No archive is fetched that the cache makes unnecessary.
THEOREM NoSecondDownload == Spec => []NoRedundantFetch
<1>1. IInv => NoRedundantFetch
  BY DEF IInv
<1> QED
  BY <1>1, Inductive, PTL

\* A call that has provisioned finds what it provisioned.
THEOREM ProvisionedIsFound == Spec => []FinalLookSucceeds
<1>1. IInv => FinalLookSucceeds
  BY DEF IInv
<1> QED
  BY <1>1, Inductive, PTL

-----------------------------------------------------------------------------
(***************************************************************************)
(* The refinement of BinaryCache.                                          *)
(***************************************************************************)
LEMMA ImplementsInit == Init => Promised!Init
<1> SUFFICES ASSUME Init PROVE Promised!Init
  OBVIOUS
<1>1. \A p \in Procs : opts[p] \in Options
  BY DEF Init, Options
<1>2. Writer = NoProc
  BY DEF Init, Writer
<1>3. \A p \in Procs : Reply(p) = "idle"
  BY DEF Init, Reply, Active
<1> QED
  BY <1>1, <1>2, <1>3 DEF Init, Promised!Init

\* A call that ends with r, wherever it stood, answers its caller.
LEMMA Ends ==
  ASSUME IInv, NEW p \in Procs, pc[p] \in Active,
         pc' = [pc EXCEPT ![p] = "ok"] \/ pc' = [pc EXCEPT ![p] = "err"]
           \/ pc' = [pc EXCEPT ![p] = "crashed"],
         \A q \in Procs : q # p => tools'[q] = tools[q],
         pc'[p] = "ok" /\ tools'[p] \in {"cache", "download"} => FromDir(Present, opts[p]),
         Release(p), UNCHANGED <<cache, opts>>
  PROVE  Promised!Answer(p)
<1> USE DEF IInv, TypeOK
<1>1. Reply(p) = "waiting"
  BY DEF Reply, Active
<1>2. \A q \in Procs : q # p => Reply(q)' = Reply(q)
  BY DEF Reply
<1>3. Reply(p)' \in {"cache", "elsewhere", "failed"}
  BY DEF Reply, Active
<1>4. Reply(p)' = "cache" => Required(opts[p]) \subseteq Promised!Cached
  <2>1. Reply(p)' = "cache" => FromDir(Present, opts[p])
    BY DEF Reply, Active
  <2>2. Present = Promised!Cached
    BY DEF OnlyVerified, Present, Promised!Cached
  <2> QED
    BY <2>1, <2>2 DEF FromDir
<1>5. Writer' = IF Writer = p THEN NoProc ELSE Writer
  <2>1. CASE lock = p
    BY <2>1, ProvisionAssumption DEF Writer, Release
  <2>2. CASE lock # p
    <3>1. lock' = lock /\ (lock \in Procs => pc'[lock] = pc[lock])
      BY <2>2 DEF Release
    <3>2. Writer # p
      BY <2>2, ProvisionAssumption DEF Writer
    <3> QED
      BY <3>1, <3>2 DEF Writer
  <2> QED
    BY <2>1, <2>2
<1>6. [q \in Procs |-> Reply(q)]' = [[q \in Procs |-> Reply(q)] EXCEPT ![p] = Reply(p)']
  BY <1>2
<1> QED
  BY <1>1, <1>3, <1>4, <1>5, <1>6 DEF Promised!Answer

\* A step of a call on its way changes nothing that its caller is promised.
LEMMA GoesOn ==
  ASSUME IInv, NEW p \in Procs, NEW l \in Active, pc[p] \in Active, Goto(p, l),
         lock = p => (pc[p] = "recheck" <=> l = "recheck"),
         UNCHANGED <<cache, lock, opts, tools>>
  PROVE  UNCHANGED Promised!vars
<1> USE DEF IInv, TypeOK, Goto
<1>1. \A q \in Procs : Reply(q)' = Reply(q)
  <2>1. Reply(p) = "waiting" /\ Reply(p)' = "waiting"
    BY DEF Reply, Active
  <2>2. ASSUME NEW q \in Procs, q # p PROVE Reply(q)' = Reply(q)
    BY <2>2 DEF Reply
  <2>3. QED
    BY <2>1, <2>2
<1>2. Writer' = Writer
  BY ProvisionAssumption DEF Writer
<1> QED
  BY <1>1, <1>2 DEF Promised!vars

\* Each step of a call is one of its caller, or none.
LEMMA ImplementsStep == IInv /\ [Next]_vars => [Promised!Next]_(Promised!vars)
<1> SUFFICES ASSUME IInv, [Next]_vars PROVE [Promised!Next]_(Promised!vars)
  OBVIOUS
<1> USE DEF IInv, TypeOK
<1>0. ASSUME NEW p \in Procs, pc[p] \in Active, Fail(p) PROVE Promised!Next
  BY <1>0, Ends DEF Fail, Goto, Promised!Next
<1>a. ASSUME NEW p \in Procs, NEW s, pc[p] \in Active, Succeed(p, s),
             s \in {"cache", "download"} => FromDir(Present, opts[p])
      PROVE  Promised!Next
  <2>1. tools'[p] = s /\ \A q \in Procs : q # p => tools'[q] = tools[q]
    BY <1>a DEF Succeed
  <2> QED
    BY <1>a, <2>1, Ends DEF Succeed, Goto, Promised!Next
<1>1. ASSUME NEW p \in Procs, Call(p) PROVE Promised!Next
  <2>1. PICK o \in Options : opts' = [opts EXCEPT ![p] = o]
    BY <1>1 DEF Call
  <2>2. /\ Reply(p) # "waiting" /\ Reply(p)' = "waiting"
        /\ \A q \in Procs : q # p => Reply(q)' = Reply(q)
    BY <1>1 DEF Call, Goto, Reply, Active, Finished
  <2>3. Writer' = Writer
    BY <1>1, ProvisionAssumption DEF Call, Goto, Writer, LockHeld, Critical, Finished
  <2>4. [q \in Procs |-> Reply(q)]' = [[q \in Procs |-> Reply(q)] EXCEPT ![p] = "waiting"]
    BY <2>2
  <2>5. [q \in Procs |-> Required(opts[q])]'
          = [[q \in Procs |-> Required(opts[q])] EXCEPT ![p] = Required(o)]
    BY <2>1
  <2>6. Promised!Ask(p)
    <3>1. [q \in Procs |-> Reply(q)][p] # "waiting"
      BY <2>2
    <3>2. Required(o) \in {Required(x) : x \in Options}
      OBVIOUS
    <3> QED
      BY <1>1, <2>3, <2>4, <2>5, <3>1, <3>2 DEF Call, Promised!Ask
  <2> QED
    BY <2>6 DEF Promised!Next
<1>2. ASSUME NEW p \in Procs, CheckOverride(p)
      PROVE  [Promised!Next]_(Promised!vars)
  BY <1>0, <1>a, <1>2, GoesOn, ProvisionAssumption DEF CheckOverride, Active, LockHeld, Critical
<1>3. ASSUME NEW p \in Procs, CheckCache(p) \/ CheckPath(p)
      PROVE  [Promised!Next]_(Promised!vars)
  BY <1>0, <1>a, <1>3, GoesOn DEF CheckCache, CheckPath, Active, LockHeld, Critical
<1>4. ASSUME NEW p \in Procs, AcquireLock(p)
      PROVE  UNCHANGED Promised!vars
  <2>1. \A q \in Procs : Reply(q)' = Reply(q)
    BY <1>4 DEF AcquireLock, Goto, Reply, Active
  <2>2. Writer' = Writer
    BY <1>4, ProvisionAssumption DEF AcquireLock, Goto, Writer
  <2> QED
    BY <1>4, <2>1, <2>2 DEF AcquireLock, Promised!vars
<1>5. ASSUME NEW p \in Procs, LockTimeout(p) \/ ExtractFails(p) PROVE Promised!Next
  BY <1>0, <1>5 DEF LockTimeout, ExtractFails, Active
<1>6. ASSUME NEW p \in Procs, Recheck(p) PROVE Promised!Next
  <2>1. CASE FromDir(Present, opts[p])
    BY <1>a, <1>6, <2>1 DEF Recheck, Active
  <2>2. CASE ~FromDir(Present, opts[p])
    <3>1. lock = p /\ p # NoProc
      BY <1>6, ProvisionAssumption DEF Recheck, LockHeld, Critical
    <3>2. Writer = NoProc /\ Writer' = p
      BY <1>6, <2>2, <3>1 DEF Recheck, Goto, Writer
    <3>3. Reply(p) = "waiting" /\ \A q \in Procs : Reply(q)' = Reply(q)
      <4>1. pc[p] = "recheck" /\ pc' = [pc EXCEPT ![p] = "fetch"] /\ UNCHANGED tools
        BY <1>6, <2>2 DEF Recheck, Goto
      <4>2. Reply(p) = "waiting" /\ Reply(p)' = "waiting"
        BY <4>1 DEF Reply, Active
      <4>3. ASSUME NEW q \in Procs, q # p PROVE Reply(q)' = Reply(q)
        BY <4>1, <4>3 DEF Reply
      <4>4. QED
        BY <4>2, <4>3
    <3>4. ~ Required(opts[p]) \subseteq Promised!Cached
      BY <2>2 DEF FromDir, Present, OnlyVerified, Promised!Cached
    <3> QED
      BY <1>6, <2>2, <3>2, <3>3, <3>4 DEF Recheck, Promised!Enter, Promised!Next
  <2> QED
    BY <2>1, <2>2
<1>7. ASSUME NEW p \in Procs, Fetch(p) PROVE [Promised!Next]_(Promised!vars)
  BY <1>0, <1>7, GoesOn DEF Fetch, Active
<1>8. ASSUME NEW p \in Procs, Verify(p) \/ NextEntry(p)
      PROVE  [Promised!Next]_(Promised!vars)
  BY <1>0, <1>8, GoesOn DEF Verify, NextEntry, Active
<1>9. ASSUME NEW p \in Procs, Rename(p) PROVE Promised!Next
  <2>1. entry[p] \in Binaries /\ cache' = [cache EXCEPT ![entry[p]] = "good"]
    BY <1>9 DEF Rename, Extraction
  <2>2. lock = p /\ Writer = p /\ Writer' = p
    BY <1>9, ProvisionAssumption DEF Rename, Goto, Writer, LockHeld, Critical
  <2>3. \A q \in Procs : Reply(q)' = Reply(q)
    BY <1>9 DEF Rename, Goto, Reply, Active
  <2>4. UNCHANGED <<Writer, [q \in Procs |-> Required(opts[q])], [q \in Procs |-> Reply(q)]>>
    BY <1>9, <2>2, <2>3 DEF Rename
  <2>5. Promised!Publish(p, entry[p])
    BY <2>1, <2>2, <2>4 DEF Promised!Publish
  <2> QED
    BY <2>1, <2>5 DEF Promised!Next
<1>10. ASSUME NEW p \in Procs, ArchiveDone(p) PROVE [Promised!Next]_(Promised!vars)
  BY <1>0, <1>10, GoesOn DEF ArchiveDone, Active
<1>11. ASSUME NEW p \in Procs, Final(p) PROVE Promised!Next
  BY <1>0, <1>a, <1>11 DEF Final, Active
<1>12. ASSUME NEW p \in Procs, Crash(p) PROVE Promised!Next
  BY <1>12, Ends DEF Crash, Goto, Promised!Next
<1>13. CASE UNCHANGED vars
  <2>1. \A q \in Procs : Reply(q)' = Reply(q)
    BY <1>13 DEF vars, Reply
  <2> QED
    BY <1>13, <2>1 DEF vars, Writer, Promised!vars
<1> QED
  BY <1>1, <1>2, <1>3, <1>4, <1>5, <1>6, <1>7, <1>8, <1>9, <1>10, <1>11, <1>12, <1>13
     DEF Next, Local

\* Ensure, with its look-ups, lock and downloads, implements BinaryCache:
\* binaries only appear, checked, and who is sent to the cache finds them.
THEOREM Refinement == Spec => ImplementsCache
<1> QED
  BY ImplementsInit, ImplementsStep, Inductive, PTL DEF Spec, ImplementsCache, Promised!Spec
=============================================================================
