------------------------------ MODULE Provision ------------------------------
(***************************************************************************)
(* Provisioning of the BuildKit binaries (package buildkitbin).            *)
(*                                                                         *)
(* Several callers of Ensure - resources of one provider process, or       *)
(* several provider processes - share one cache directory per user.  Each  *)
(* call looks in the override directory, the cache and the PATH, in that   *)
(* order, and otherwise takes a file lock in the cache directory, looks    *)
(* again, downloads the pinned archives, checks each one's SHA256 and      *)
(* renames every wanted entry into place.                                  *)
(*                                                                         *)
(* A caller may be killed at any step; the kernel then drops its lock, and *)
(* what it had renamed stays.  The cache look-up of Ensure is not covered  *)
(* by the lock, so it interleaves with an extraction.                      *)
(***************************************************************************)
EXTENDS FiniteSets

CONSTANTS
  Procs,     \* the callers of Ensure
  NoProc,    \* the owner of a free lock
  Hosts      \* the machines considered: what is set up on them beforehand

Binaries == {"buildkitd", "buildkit-runc", "rootlesskit"}

Options == [needRootlesskit : BOOLEAN, allowDownload : BOOLEAN]

(***************************************************************************)
(* A machine: whether releases are pinned for its architecture, whether    *)
(* BUILDKIT_EMBEDDED_BIN_DIR is set, and the executables found in that     *)
(* directory and on the PATH.                                              *)
(***************************************************************************)
HostType == [buildkitPinned : BOOLEAN, rootlesskitPinned : BOOLEAN,
             overrideSet : BOOLEAN,
             override : SUBSET Binaries, path : SUBSET Binaries]

ASSUME ProvisionAssumption == /\ NoProc \notin Procs
                              /\ Hosts \subseteq HostType

VARIABLES
  host,     \* the machine; never changes
  cache,    \* what the cache directory holds under each binary's name
  lock,     \* the holder of the .lock file
  pc,       \* where each call stands
  opts,     \* the Options of each call
  tar,      \* the archive a call is fetching or extracting
  body,     \* what the call's downloaded temporary file holds
  pending,  \* the wanted entries of the archive still to be extracted
  entry,    \* the entry being written to a temporary file
  tools,    \* where the binaries a finished call returns were found
  torn      \* history: an extraction was cut short before buildkit-runc

vars == <<host, cache, lock, pc, opts, tar, body, pending, entry, tools, torn>>
work == <<tar, body, pending, entry>>

Active == {"start", "cache", "path", "lock", "recheck", "fetch", "verify",
           "extract", "write", "final"}
Critical == {"recheck", "fetch", "verify", "extract", "write", "final"}
Finished == {"idle", "ok", "err", "crashed"}

(***************************************************************************)
(* fromDir and fromPath look for buildkitd, and for rootlesskit when asked *)
(* to; neither looks for buildkit-runc.                                    *)
(***************************************************************************)
Required(o) == {"buildkitd"} \cup
               (IF o.needRootlesskit THEN {"rootlesskit"} ELSE {})

FromDir(files, o) == Required(o) \subseteq files

Present == {b \in Binaries : cache[b] # "absent"}

\* Mutant of Wanted: the runc beside buildkitd is not kept.
WantedWithoutRunc(t) == IF t = "buildkit" THEN {"buildkitd"} ELSE {"rootlesskit"}

(***************************************************************************)
(* The wanted entries of a release archive; their order is the archive's.  *)
(***************************************************************************)
Wanted(t) == IF t = "buildkit" THEN {"buildkitd", "buildkit-runc"}
                               ELSE {"rootlesskit"}

-----------------------------------------------------------------------------
Init ==
  /\ host \in Hosts
  /\ cache = [b \in Binaries |-> "absent"]
  /\ lock = NoProc
  /\ pc = [p \in Procs |-> "idle"]
  /\ opts = [p \in Procs |-> [needRootlesskit |-> FALSE, allowDownload |-> FALSE]]
  /\ tar = [p \in Procs |-> "buildkit"]
  /\ body = [p \in Procs |-> "none"]
  /\ pending = [p \in Procs |-> {}]
  /\ entry = [p \in Procs |-> "none"]
  /\ tools = [p \in Procs |-> "none"]
  /\ torn = FALSE

Goto(p, l) == pc' = [pc EXCEPT ![p] = l]

\* p is unpacking BuildKit's archive and has only buildkit-runc to go.
BetweenRenames(p) == /\ pc[p] \in {"extract", "write"} /\ tar[p] = "buildkit"
                     /\ pending[p] = {"buildkit-runc"}

Cut(p) == torn' = (torn \/ BetweenRenames(p))

(***************************************************************************)
(* A return from Ensure runs its deferred functions: the temporary file is *)
(* removed and the lock released if the call holds it.                     *)
(***************************************************************************)
Release(p) == lock' = IF lock = p THEN NoProc ELSE lock

Discard(p) == /\ body' = [body EXCEPT ![p] = "none"]
              /\ pending' = [pending EXCEPT ![p] = {}]
              /\ entry' = [entry EXCEPT ![p] = "none"]
              /\ UNCHANGED tar

Succeed(p, source) ==
  /\ Goto(p, "ok")
  /\ tools' = [tools EXCEPT ![p] = source]
  /\ Release(p)
  /\ Discard(p)
  /\ UNCHANGED <<host, torn, cache, opts>>

Fail(p) ==
  /\ Goto(p, "err")
  /\ Release(p)
  /\ Discard(p)
  /\ Cut(p)
  /\ UNCHANGED <<host, cache, opts, tools>>

-----------------------------------------------------------------------------
(***************************************************************************)
(* A new call, by a fresh process or by the next operation of a live one.  *)
(***************************************************************************)
Call(p) ==
  /\ pc[p] \in Finished
  /\ \E o \in Options : opts' = [opts EXCEPT ![p] = o]
  /\ Goto(p, "start")
  /\ tools' = [tools EXCEPT ![p] = "none"]
  /\ UNCHANGED <<host, torn, cache, lock, work>>

(***************************************************************************)
(* No pinned release is an error; an override directory decides the call   *)
(* either way.                                                             *)
(***************************************************************************)
CheckOverride(p) ==
  /\ pc[p] = "start"
  /\ \/ /\ ~host.buildkitPinned
        /\ Fail(p)
     \/ /\ host.buildkitPinned /\ host.overrideSet
        /\ IF FromDir(host.override, opts[p])
             THEN Succeed(p, "override")
             ELSE Fail(p)
     \/ /\ host.buildkitPinned /\ ~host.overrideSet
        /\ Goto(p, "cache")
        /\ UNCHANGED <<host, torn, cache, lock, opts, work, tools>>

\* The look at the cache that needs no lock.
CheckCache(p) ==
  /\ pc[p] = "cache"
  /\ IF FromDir(Present, opts[p])
       THEN Succeed(p, "cache")
       ELSE /\ Goto(p, "path")
            /\ UNCHANGED <<host, torn, cache, lock, opts, work, tools>>

(***************************************************************************)
(* The PATH; without it, downloading must be allowed and the cache         *)
(* directory creatable.                                                    *)
(***************************************************************************)
CheckPath(p) ==
  /\ pc[p] = "path"
  /\ \/ /\ FromDir(host.path, opts[p])
        /\ Succeed(p, "path")
     \/ /\ ~FromDir(host.path, opts[p])
        /\ Fail(p)
     \/ /\ ~FromDir(host.path, opts[p]) /\ opts[p].allowDownload
        /\ Goto(p, "lock")
        /\ UNCHANGED <<host, torn, cache, lock, opts, work, tools>>

\* Mutant of AcquireLock: locked = FALSE is not checked.
AcquireBusyLock(p) ==
  /\ pc[p] = "lock"
  /\ lock' = p
  /\ Goto(p, "recheck")
  /\ UNCHANGED <<host, torn, cache, opts, work, tools>>

\* TryLockContext polls until the lock is free ...
AcquireLock(p) ==
  /\ pc[p] = "lock"
  /\ lock = NoProc
  /\ lock' = p
  /\ Goto(p, "recheck")
  /\ UNCHANGED <<host, torn, cache, opts, work, tools>>

\* Mutant of LockTimeout: the wait has no deadline.
LockWithoutDeadline(p) == pc[p] = "lock" /\ FALSE /\ Fail(p)

\* ... or five minutes have passed, or the call's context is cancelled.
LockTimeout(p) ==
  /\ pc[p] = "lock"
  /\ Fail(p)

\* Mutant of Recheck: no second look.
RecheckSkipped(p) ==
  /\ pc[p] = "recheck"
  /\ tar' = [tar EXCEPT ![p] = "buildkit"]
  /\ Goto(p, "fetch")
  /\ UNCHANGED <<host, torn, cache, lock, opts, body, pending, entry, tools>>

\* The second look, under the lock.
Recheck(p) ==
  /\ pc[p] = "recheck"
  /\ IF FromDir(Present, opts[p])
       THEN Succeed(p, "cache")
       ELSE /\ tar' = [tar EXCEPT ![p] = "buildkit"]
            /\ Goto(p, "fetch")
            /\ UNCHANGED <<host, torn, cache, lock, opts, body, pending, entry, tools>>

(***************************************************************************)
(* The request and the copy of its body into a temporary file: either may  *)
(* fail, and what arrives may not be what was pinned.                      *)
(***************************************************************************)
Fetch(p) ==
  /\ pc[p] = "fetch"
  /\ \/ Fail(p)
     \/ /\ \E c \in {"good", "bad"} : body' = [body EXCEPT ![p] = c]
        /\ Goto(p, "verify")
        /\ UNCHANGED <<host, torn, cache, lock, opts, tar, pending, entry, tools>>

\* Mutant of Verify: the checksum is not compared.
VerifySkipped(p) ==
  /\ pc[p] = "verify"
  /\ Goto(p, "extract")
  /\ pending' = [pending EXCEPT ![p] = Wanted(tar[p])]
  /\ UNCHANGED <<host, torn, cache, lock, opts, tar, body, entry, tools>>

Verify(p) ==
  /\ pc[p] = "verify"
  /\ IF body[p] = "bad"
       THEN Fail(p)
       ELSE /\ Goto(p, "extract")
            /\ pending' = [pending EXCEPT ![p] = Wanted(tar[p])]
            /\ UNCHANGED <<host, torn, cache, lock, opts, tar, body, entry, tools>>

\* writeFile opens a temporary file for the archive's next wanted entry.
NextEntry(p) ==
  /\ pc[p] = "extract"
  /\ \E b \in pending[p] : entry' = [entry EXCEPT ![p] = b]
  /\ Goto(p, "write")
  /\ UNCHANGED <<host, torn, cache, lock, opts, tar, body, pending, tools>>

\* The copy is complete, closed and executable, and is renamed into place.
Rename(p) ==
  /\ pc[p] = "write"
  /\ cache' = [cache EXCEPT ![entry[p]] = body[p]]
  /\ pending' = [pending EXCEPT ![p] = @ \ {entry[p]}]
  /\ entry' = [entry EXCEPT ![p] = "none"]
  /\ Goto(p, "extract")
  /\ UNCHANGED <<host, torn, lock, opts, tar, body, tools>>

\* Reading the archive, writing the temporary file or renaming it fails.
ExtractFails(p) ==
  /\ pc[p] \in {"extract", "write"}
  /\ Fail(p)

(***************************************************************************)
(* The archive is exhausted: the rootlesskit archive comes next if it is   *)
(* needed, and is an error if none is pinned.                              *)
(***************************************************************************)
ArchiveDone(p) ==
  /\ pc[p] = "extract"
  /\ pending[p] = {}
  /\ LET more == tar[p] = "buildkit" /\ opts[p].needRootlesskit
     IN \/ /\ more /\ ~host.rootlesskitPinned
           /\ Fail(p)
        \/ /\ more => host.rootlesskitPinned
           /\ body' = [body EXCEPT ![p] = "none"]
           /\ tar' = IF more THEN [tar EXCEPT ![p] = "rootlesskit"] ELSE tar
           /\ Goto(p, IF more THEN "fetch" ELSE "final")
           /\ UNCHANGED <<host, torn, cache, lock, opts, pending, entry, tools>>

\* The third look, at what was just provisioned.
Final(p) ==
  /\ pc[p] = "final"
  /\ IF FromDir(Present, opts[p])
       THEN Succeed(p, "download")
       ELSE Fail(p)

\* The process dies; the kernel closes its files, which frees the lock.
Crash(p) ==
  /\ pc[p] \in Active
  /\ Goto(p, "crashed")
  /\ Release(p)
  /\ Discard(p)
  /\ Cut(p)
  /\ UNCHANGED <<host, cache, opts, tools>>

Local(p) == \/ CheckOverride(p) \/ CheckCache(p) \/ CheckPath(p)
            \/ LockTimeout(p) \/ Recheck(p) \/ Verify(p) \/ NextEntry(p)
            \/ Rename(p) \/ ExtractFails(p) \/ ArchiveDone(p) \/ Final(p)

Next == \E p \in Procs :
          Call(p) \/ AcquireLock(p) \/ Fetch(p) \/ Crash(p) \/ Local(p)

Spec == Init /\ [][Next]_vars

(***************************************************************************)
(* A live process keeps running its own steps.  Nothing bounds a download: *)
(* http.DefaultClient has no timeout, so Fetch is given no fairness.       *)
(***************************************************************************)
FairSpec == Spec /\ \A p \in Procs : WF_vars(Local(p))

-----------------------------------------------------------------------------
TypeOK ==
  /\ host \in HostType
  /\ cache \in [Binaries -> {"absent", "good", "bad"}]
  /\ lock \in Procs \cup {NoProc}
  /\ pc \in [Procs -> Active \cup Finished]
  /\ opts \in [Procs -> Options]
  /\ tar \in [Procs -> {"buildkit", "rootlesskit"}]
  /\ body \in [Procs -> {"none", "good", "bad"}]
  /\ pending \in [Procs -> SUBSET Binaries]
  /\ entry \in [Procs -> Binaries \cup {"none"}]
  /\ tools \in [Procs -> {"none", "override", "cache", "path", "download"}]
  /\ torn \in BOOLEAN

(***************************************************************************)
(* No reader of the cache, locked or not, ever sees a binary that did not  *)
(* come whole from an archive whose SHA256 was checked (provision.go:229). *)
(***************************************************************************)
OnlyVerified == \A b \in Binaries : cache[b] \in {"absent", "good"}

(***************************************************************************)
(* Whatever way a call ends - early return, error, death - exactly the     *)
(* calls between the lock and the return hold the lock, so that one        *)
(* download runs at a time and none is blocked by a call that is over.     *)
(***************************************************************************)
LockHeld == \A p \in Procs : pc[p] \in Critical <=> lock = p

(***************************************************************************)
(* What a successful call returns is as Tools promises                     *)
(* (provision.go:40-50): the binaries asked for are there, and             *)
(* buildkit-runc is beside buildkitd, for the daemon to run - whichever    *)
(* of the looks found them, and whatever the other calls have done since.  *)
(* There are two exceptions, because no look asks for buildkit-runc        *)
(* (provision.go:154-185).  A directory of the host's own, the override's  *)
(* or the PATH's, is taken without it; and so is a cache in which an       *)
(* extraction stands, or has been cut short, between the two renames.  In  *)
(* a cache that no failure or death has cut short and nobody is writing,   *)
(* and after a download of the call's own, buildkit-runc is never missing. *)
(***************************************************************************)
Found(p) == CASE tools[p] = "override" -> host.override
              [] tools[p] = "path"     -> host.path
              [] OTHER                 -> {b \in Binaries : cache[b] = "good"}

HalfWritten == torn \/ \E q \in Procs : BetweenRenames(q)

ResultUsable ==
  \A p \in Procs : pc[p] = "ok" =>
    /\ Required(opts[p]) \subseteq Found(p)
    /\ \/ "buildkit-runc" \in Found(p)
       \/ tools[p] \in {"override", "path"}
       \/ tools[p] = "cache" /\ HalfWritten

(***************************************************************************)
(* Nothing is fetched that the cache already satisfies: the look under the *)
(* lock sees whatever an earlier holder left, also one that was waiting    *)
(* beside this call (provision.go:124-129).                                *)
(***************************************************************************)
NoRedundantFetch ==
  \A p \in Procs : pc[p] = "fetch" /\ tar[p] = "buildkit"
                     => ~FromDir(Present, opts[p])

(***************************************************************************)
(* The look after provisioning never misses what was extracted: a call     *)
(* that reaches it returns tools (provision.go:144-147 is unreachable).    *)
(***************************************************************************)
FinalLookSucceeds ==
  \A p \in Procs : pc[p] = "final" => FromDir(Present, opts[p])

(***************************************************************************)
(* How far an extraction has come: what it unpacks was checked, what it no *)
(* longer has to write is in the cache, and the rootlesskit archive, like  *)
(* the last look, is only reached when all of BuildKit's is there          *)
(* (provision.go:131-144).  A fact about several steps of one call while   *)
(* other calls run, it is what makes the invariants above inductive.       *)
(***************************************************************************)
Extraction ==
  \A p \in Procs :
    /\ pc[p] = "verify" => body[p] # "none"
    /\ pc[p] \in {"extract", "write"} =>
         /\ body[p] = "good" /\ pending[p] \subseteq Wanted(tar[p])
         /\ Wanted(tar[p]) \ pending[p] \subseteq Present
    /\ pc[p] = "write" => entry[p] \in pending[p]
    /\ pc[p] \in {"fetch", "verify", "extract", "write"} /\ tar[p] = "rootlesskit" =>
         opts[p].needRootlesskit /\ Wanted("buildkit") \subseteq Present
    /\ pc[p] = "final" => Wanted("buildkit") \subseteq Present

\* buildkitd without its runc is what a cut or unfinished extraction leaves.
RuncFollows == {"buildkitd", "buildkit-runc"} \cap Present = {"buildkitd"} => HalfWritten

IInv == /\ TypeOK
        /\ OnlyVerified
        /\ LockHeld
        /\ Extraction
        /\ RuncFollows
        /\ ResultUsable
        /\ NoRedundantFetch
        /\ FinalLookSucceeds

(***************************************************************************)
(* Ensure implements BinaryCache (provision.go:42-50, 90-150): binaries    *)
(* only ever appear in the cache, checked, and stay; one call at a time    *)
(* adds to it, and only one that still missed something when it had the    *)
(* lock; and who is sent to the cache finds what it needs.  A call becomes *)
(* the writer with the second look, not with the lock.                     *)
(***************************************************************************)
Writer == IF lock # NoProc /\ pc[lock] # "recheck" THEN lock ELSE NoProc

Reply(p) == CASE pc[p] = "idle" -> "idle"
              [] pc[p] \in Active -> "waiting"
              [] pc[p] \in {"err", "crashed"} -> "failed"
              [] pc[p] = "ok" -> IF tools[p] \in {"cache", "download"} THEN "cache"
                                                                     ELSE "elsewhere"

Promised == INSTANCE BinaryCache WITH
              Callers <- Procs, Nobody <- NoProc,
              Needs <- {Required(o) : o \in Options},
              writer <- Writer,
              need <- [p \in Procs |-> Required(opts[p])],
              reply <- [p \in Procs |-> Reply(p)]

ImplementsCache == Promised!Spec

(***************************************************************************)
(* A call always ends or waits for its own download: never for another     *)
(* call's, however long that one takes (provision.go:117).                 *)
(***************************************************************************)
EnsureReturns ==
  \A p \in Procs :
    pc[p] \in Active \ {"fetch"} ~> pc[p] \in Finished \cup {"fetch"}

=============================================================================
