# A verification of terraform-provider-buildkit

TLA+ modules of the parts of the provider where steps interleave, fail half-way
or outlive the process, the TLC configurations that check them, and proofs, for
all values of the constants, of all of the safety properties. Line numbers are
those of the commit beside which this directory stands; all source paths are
under `src/internal/provider/` unless they begin with `src/`.

- [The system](#the-system)
- [The modules](#the-modules)
- [The runs](#the-runs)
- [The proofs](#the-proofs)
- [Where the code and its text disagree](#where-the-code-and-its-text-disagree)
- [Not modelled](#not-modelled)
- [Plan](#plan)

Run from this directory:

    tlc -config Provision_calls.cfg MCProvision     # any run of the table below
    tlapm ProvisionProofs.tla                       # any of the *Proofs modules

## The system

The provider is one process per Terraform run. Terraform calls it over gRPC: it
configures it once (or once per alias), then reads, plans and applies resources,
several at a time, and closes it. All operations of a configuration share one
connection to a BuildKit daemon. If none is found on Linux, the process
downloads BuildKit and runs a daemon of its own.

| component | state | operations | interacts with | what makes it correct |
|---|---|---|---|---|
| binary provisioning (`buildkitbin/`) | a cache directory and a lock file, shared by all of a user's processes | `Ensure`: three look-ups, lock, look again, download, checksum, extract by rename | other callers of `Ensure`, in this process and in others; the release server | no unchecked or partial binary is ever visible; the lock is held by exactly those who need it, and given up on every exit; no second download; a caller waits for nobody else's download |
| provider connection (`provider.go`, `cleanup.go`, `src/main.go`) | per configuration a mutex, the endpoint and the error; a process-wide list of cleanups and a signal handler | `Configure`, `client`, `registerProcessCleanup`, `runCleanups`, the return from `main` | resources call `client`; it calls discovery | one answer for all callers, settled once; no daemon without an owner who will remove it; calls return and signals end the process |
| embedded daemon (`embedded_linux.go`) | a process group, a runtime directory | `startEmbeddedBuildkitd`, `waitForEmbedded`, its cleanup closure | discovery starts it, cleanup ends it | a failed start leaves nothing behind |
| endpoint discovery (`discover.go`, `dockerhost.go`) | none that lasts; open connections while it probes | `resolveBuildkit`, `dockerHostCandidates`, `dialDockerGRPC`, `dialDirect`, `validate` | docker daemons, buildkitd sockets, the docker CLI's contexts | explicit settings exclude everything else; a running daemon is not missed; failed probes leave no connection |
| `buildkit_image` (`image_resource.go`, `planmodifiers.go`) | the resource in Terraform's state | Create, Read, Update, Delete, ImportState | solve engine, registry, context directory | only declared tags are pushed, as declared; what the state records is true; only a missing tag drops the resource |
| `buildkit_artifact` (`artifact_resource.go`) | the resource in the state, files on the host | the same | solve engine, local file system | the recorded hash is that of the built thing; damage shows as drift, as far as the hash tells; nothing is rebuilt without a cause |
| solve engine (`buildengine/engine.go`) | two goroutines and a status channel per solve | `Run`, `streamStatus`, `ImageExport` | the daemon, registry authentication | every solve returns, with its own response or error, and leaves no goroutine |
| registry authentication (`buildengine/auth.go`) | per build a memo of credentials per host, under a mutex | `NewAuthProvider`, `lookup`, `authenticatorFor` | sessions of solves, docker's configuration, credential helpers | explicit blocks win; one host, one answer within a build; nothing outlives the build; reads and builds agree |
| registry queries (`buildengine/registry.go`, two data sources) | none that lasts | `Digest`, `ResolveImage`, `QueryImages`, the two `Read`s | the registry | what is reported was there; what stays is not missed; a missing tag is told from a failure |
| context hashing (`buildengine/contexthash.go`) | none that lasts | `HashContext`, `readDockerignore` | the file system, `.dockerignore` | equal contexts hash equal, others do not; what is ignored does not count |

What is hard here is not any one function. It is what happens between them:
a look at the cache without the lock beside an extraction (`provision.go:91`);
a process that dies between two renames; a lock whose waiters give up before
its holder may; a signal while a daemon is starting that nobody has registered
(`embedded_linux.go:131`); a push that fails after the first of three tags; a
directory copied over what an earlier, failed apply left there; credentials
asked for by several goroutines while a helper fails; a tag or a file that is
gone by the time its turn comes. `PROJECT.json`
lists these hazards at their lines, with the properties that would catch them.

## The modules

    SharedAnswer <--implements-- ProviderClient         Discovery
                                      |                      |
                                 ClientProofs         DiscoveryProofs

    BinaryCache  <--implements-- Provision
                                      |
                                ProvisionProofs

    RegistryAuth  <----extends----  SolveEngine
                                       |
                               SolveEngineProofs

    ImageResource     ArtifactResource     ImageQuery         ContextHash
         |                   |                 |                   |
    ImageProofs       ArtifactProofs    ImageQueryProofs   ContextHashProofs

`MCx` extends module `x` and holds the definitions its configurations use. The
modules with proofs extend the component's module and `TLAPS`; those about
`RegistryAuth` are in `SolveEngineProofs`. No module
declares a recursive operator. Operators that a comment calls a mutant of
another are plausible errors in that one's code: put in its place, each makes a
run fail, and `PROJECT.json` says which.

**Provision** is `Ensure`. Its variables are the cache directory (per binary:
absent, a good or a bad one), the file lock, and per call its program counter,
options, download (`body`), remaining archive entries and current entry. One
action is one step that another process can see: each look-up, the lock, the
download, the checksum, the opening of a temporary file, the rename, and the
last look. Every return runs the deferred unlock and removal, so `Succeed` and
`Fail` include them. `Crash` is a death at any step. The content of a download
is one of good and bad; the archive's order of entries is any. The host is a
constant of a behaviour: what is pinned for its architecture, what the override
directory and the PATH hold. `torn` is a history variable: an extraction was cut
short, by a failure or a death, when only buildkit-runc was left.

**BinaryCache** is what `Ensure` promises: binaries appear in the cache, checked, one
by one, and stay; there is one writer at a time, and only one whom the cache did
not serve when it began; who is sent to the cache finds what it needs there. Under
the mapping in `Provision` a call is the writer from its second look on, not from
the lock, and one that dies has been answered in vain.

**ProviderClient** is `client` with the steps of `startEmbeddedBuildkitd` inside
it, the cleanup list under its own mutex, the handler goroutine, and the four
ways the process ends. `resolveBuildkit` up to the choice of an endpoint is one
step with its three outcomes (`Resolve`), and so is the provisioning of binaries
(`Provision`); `Discovery` and the module `Provision` open those up. The step between
the end of the cleanups and `os.Exit` is there (`HandlerUnlocks`,
`HandlerExits`), and with it a registration that comes too late. `DaemonDies`
is the daemon's own failure, which nothing in the provider notices.

**SharedAnswer** is what `client` promises: a question is settled once, because
somebody asked, and all are told the same. `ProviderClient` implements it under
the mapping that reads the answer off `resolved` and `resolErr`, and a caller's
reply off its program counter and result.

**Discovery** is `resolveBuildkit` and the docker candidates. A setup is what the
user controls: address, `BUILDKIT_HOST`, `DOCKER_HOST`, `DOCKER_CONTEXT`, the
current context with its host and TLS files, `autodiscover`, the three modes of
the embedded daemon. Each host is absent, dead (a file without a server), bare
(a server without a usable BuildKit) or up, and changes at any step. A dial is two
or three steps: the docker ping, the client, the validation. `steady` is a
history variable: the hosts that have been up since the resolution began. A client
may also not be made at all, for one because of what an address says
(`NoExplicitClient`, `NoClient`, `NoHijack`); such a host is no longer steady.
A cancelled context, which makes every probe fail, is left out.

**RegistryAuth** is where credentials come from. A spelling of a host is a scheme,
a name and perhaps a slash, and `normalizeHost` keeps the name, one for all of
Docker Hub's. A configuration is a set of `registry_auth` blocks, kept by their
raw address as `Configure` keeps them, and whether docker's configuration
counts; when two blocks have one key the order of a Go map decides, which
`InForce` leaves open. Each build has its own auth provider: `explicit`, the
file as it was loaded (`loaded`, `file`), the memo and its mutex. A request is
answered at once from a block or anonymously (`AskExplicit`, `AskAnonymous`), or
goes through `lookup` in its steps: load once, take the mutex, look in the memo,
consult (`Load`, `Remembered`, `Miss`, `Consult`, `ConsultFails`). The memo is
looked up by the key, docker's configuration by the spelling, as in the code.
`ChangeStore` is a login, a logout or a renewed token at any time; the spellings
in `Helped` are answered by a helper, asked at that moment, the others from the
file. `authenticatorFor` is what a registry read, which has no build, may use.
`given`, `known`, `failed` and `asked`, the spellings consulted in their order, are
history variables.

**SolveEngine** extends it with `Run`: the two goroutines, the unbuffered channel
(`Send` blocks until `Receive`), the channel's close before the response is left
(`SolveEnds`, then `Leave`), and `Wait` for both (`Return`). The daemon asks for
credentials while it solves (`SessionAsks`) and ends when they are answered, or
fails at any time. A slot of `Builds` is used again for later builds, which is
where a memo that outlived its build would show.

**ImageResource** is one resource through any number of Terraform runs: refresh,
plan, apply, import and destroy, beside outsiders who move and delete tags and a
context that changes during a build. A digest is modelled by what it is computed
from; a solve's response may also hold none, and a trigger's value may be unknown
to the plan. `build` is five steps (`CheckFlags`, `Solve`, `Push`, `PushFails`, `Save`),
for Create and Update alike, as in the code. The framework's part (when Read runs,
what `UseStateForUnknown` and `RequiresReplace` do, that an error keeps the
state) is modelled from how the resource's schema uses it.

**ArtifactResource** is the same for a file or a directory on the host. A thing on
disk is a kind and a content per file; a torn file is what a truncation or a short
write leaves. A hash is kept as the thing it was taken of, and compared by the bytes
that go into it (`Digest`): those of a file, or of a directory each path and content
with nothing in between, as `sha256Tree` writes them, so that two trees may have one
hash. When the file cannot be hashed, `build` falls back to `sha256Tree`, which
gives a hash that Read never computes (`HashFallback`). `Crash` may hit between any
two steps, and outsiders may replace or delete what is at a path.

**ImageQuery** is the two registry data sources, a listing and a single reference,
beside a registry whose tags are moved, deleted and pushed. A tag is its place in
the order of references; a digest stands for its content. Listing, descriptor and
details are three requests, each its own step; details are asked for by digest,
and when they cannot be fetched the image goes on without them, as in the code.
`rows` are the results; `had` and `blind` are history variables.

**ContextHash** is `HashContext` as the `buildkit_context` data source calls it: the
ignore file, the walk name by name (a directory is listed before it is known to be
ignored, a name that is gone or a directory that cannot be listed, the root too,
fails the walk), the sort, and the reads with the framing by NUL bytes. Other
programs write, remove and rename between any two of these steps. A path is its
place in the byte order; names and contents are short sequences of bytes, and a
content may hold the NUL that frames it. A pattern is the set of paths it matches,
so the matcher of `github.com/moby/patternmatcher` is a table and the order of
lines, comments and `!` are modelled. Two digests in a row are kept (`earlier`),
with the paths touched since (`since`).

## The runs

| run | shows | bounds |
|---|---|---|
| `Provision_calls` | the invariants of `Ensure`, the inductive one among them, the refinement of `BinaryCache`, and that a call never waits for another's download | 2 callers, 6 hosts |
| `Client_calls` | ownership of daemons, at most one start, the refinement of `SharedAnswer`, and that calls return and signals end the process | 3 callers, 2 configurations |
| `Client_orphan` | finding 1 | 3 callers, 1 configuration |
| `Discovery_setups` | hermetic settings, no steady daemon missed, no connection left | 17 setups, 4 hosts, 2 changes per resolution |
| `Image_runs` | pushes as declared, true records, complete states, drops only for a missing tag | 2 tags, 4 configurations, 1 edit of the context |
| `Image_nopush`, `Image_id` | findings 2 and 3 | 1 tag |
| `Artifact_runs` | what is recorded was built, which damage shows, no rebuild without a cause | 2 files, 2 paths, 4 contents, 5 configurations |
| `Solve_sessions` | credentials within and between builds, what `Run` returns, and that it returns | 1 slot for builds, 2 requests, 3 spellings of 2 hosts, 4 configurations, 1 change of the store, 3 updates or requests per solve |
| `Query_reads` | sound and complete listings, true failures | 3 tags, 3 manifests, 8 queries, 2 changes per read |
| `Context_hash` | the inductive invariant, ignore rules, stable and telling digests, causes of failure | 5 paths, 7 setups, 2 changes, 3 digests |
| `Context_link` | finding 4 | the same |

Why these bounds are enough. Two callers of `Ensure` are a holder and a waiter,
and calls restart without end, so a third adds no kind of step; the invariants are
proved for any number. In `ProviderClient` two callers of one configuration
contend for its mutex, and the third, of another, registers while the handler
runs. Four hosts are one of each kind a setup can name, and two changes let one
daemon vanish and another appear within one resolution; what one resolution
leaves is the next one's initial state. Two tags are what a partial push needs,
one edit is what a context that moves under a build needs. Two files are what
a directory needs to be half copied, two paths what a changed destination needs,
and the bytes of names and contents are chosen so that two trees and a file
that differ have one hash.
In `Image_runs` and `Artifact_runs` the number of Terraform runs is not bounded.

In `Solve_sessions` two requests are one that consults and one that waits; two of
the spellings are Docker Hub's, one with a helper and one without; one change is
a login between two look-ups, and three units of traffic are an update beside
two requests, or three requests that meet the memo. Builds share nothing but the
configuration and the store, so builds at the same time are one slot each, and
builds in a row are the slot used again; the proofs are for any number. Three
tags are one that is done, one in progress and one to come, two changes let one
vanish and come back. Five paths are the ignore file, a directory with a file,
and two neighbours, one of whose names continues the directory's; two changes
are a rename in two directions, or an edit in each of two hashes, and three
digests let a failed one come between two that are compared; with one binary
content a file has the digest of two others.

`CHECK_DEADLOCK FALSE` is set for the two runs of `ContextHash` only: its digests
and changes are bounded, and when both are used up nothing is left to do. In
every other module somebody can always act, and `ProviderClient` has an explicit
step for a process that is gone.

### The properties

- `ImplementsCache`, `ResultUsable`: extraction goes through temporary files in the
  same directory, after the checksum, by the holder of the lock. A copy straight
  into place, or a second writer, breaks the unlocked look-up. `ResultUsable` is the
  promise of `Tools`, runc included, with the two exceptions that the code makes.
- `NoRedundantFetch`: the second look, under the lock, saves the second
  download. `IInv` also says that exactly the calls in the critical section hold
  the lock, and that the third look cannot fail, so that `provision.go:144-147`
  is unreachable.
- `NoUnownedDaemon`: whatever fails, a running daemon or its
  directory belongs to the call that is starting it or to a registered cleanup,
  and, by `IInv`, the cleanup has a handler. Ownership by a starting call ends with
  the process: a signal or kill during a start may leave a daemon, and the
  properties say no more than the code keeps.
- `StartedOnce`, `Implements`: an error or a dead daemon is remembered for the life
  of the process. This is what the code does, and the abstract module says it.
- `Hermetic`, `FirstSteadyWins`, `OnlyAnswerOpen`: stated against the order that
  the comments announce (`Order`), not against the candidate lists. `Hermetic` names
  the one setting whose text says more than the code does (`EmbeddedAnyway`).
- `ExplicitWins`, `OneAnswer`, `FreshPerBuild`, `SamePrecedence`: relate what
  requests of one build were told, to each other, to the blocks, to what docker's
  configuration has held since the build began for the spelling that it was
  consulted with, and to what a registry read uses. A credential held for another
  spelling of the registry may be withheld: that is what the code does.
  `AuthInv` adds that docker's configuration is consulted at most once per key and
  build, also when its helper fails (`AskedOnce`).
- `ReturnsWhole`, `RunReturns`: the end of the stream is not the end of the solve,
  and nobody is left waiting for a receiver or a credential.
- `PushedAsDeclared`, `StateComplete`, `RecordedWasThere`, `DropOnlyIfGone`: relate
  configuration, registry history and state across runs. `DropOnlyIfGone` is
  restricted to resources whose blocks all push; finding 2 is what is outside.
- `StageIsRecorded`, `DamageShows`, `NoSpuriousRebuild`: relate host, state and
  stage across failed and dying applies. `DamageShows` says what a hash can tell: a
  file is the one that was hashed, and a directory does not differ in one file;
  several files may, since their bytes run together. `touched` and `dirty` are history
  variables that say whether somebody else wrote, and whether anything happened
  that may justify a rebuild.
- `Sound`, `Complete`, `LatestDated`, `FailuresTrue`: relate the results to what the
  tags have named during the read (`had`). `LatestDated` compares the true dates of
  the manifests and excepts a later index, whose date the code does not read
  (`DateUnread`).
- `HonorsIgnore`, `StableWhileIgnored`, `DigestTells`, `FailsForCause`: relate one
  digest to the files nobody touched, and two digests to what was touched between.
  `DigestTells` excepts files that hold a NUL byte (`Binary`): the code's framing does
  not promise more, and the run has two such contexts with one digest.

### Fairness

`Provision`: a live process keeps taking its own steps (weak fairness of
`Local`). Nothing is assumed of downloads, since `http.DefaultClient` has no
timeout, nor of lock acquisition: `EnsureReturns` holds because the wait for
the lock ends by its own deadline of five minutes (`provision.go:117`).

`ProviderClient`: goroutines run (weak fairness of a call's steps and of the
handler), and Go's mutex hands itself to a waiter it has passed over (its
starvation mode), so `Lock` is strongly fair. That `Resolve` and `Provision` end
is an assumption about endpoints and the download: the code puts no limit on
them, and `CallReturns` depends on it.

`SolveEngine`: goroutines run, among them a helper process that returns (weak
fairness of `Streaming` and of `Load` and `Consult`), the mutex is strongly fair
for the same reason, and the daemon ends a solve whose requests are answered
(weak fairness of `SolveEnds`). Nothing is assumed of updates, new requests or
cancellation. The other modules claim no liveness.

## The proofs

Eight modules hold proofs, for every set of callers, hosts, configurations, tags,
files, paths, builds, requests, queries and so on. They assume only the named
assumption of the module they extend: the types of the constants, and that special
values such as `NoProc` or `"none"` are not ordinary ones, and that files that
differ have different bytes. TLC evaluates each of
these assumptions in a passing run.

None of the properties is inductive as it stands. The invariants that are, and
what they add:

- `Provision!IInv`: `Extraction`, that what is being unpacked was checked, what is
  no longer pending is in the cache, and the second archive is reached only with
  buildkitd in place. `Rename` puts the caller's own download in the cache, so
  `OnlyVerified` needs to know that it is good. `LockHeld` carries most of the rest:
  there is one writer, so what it has seen or written stays. `RuncFollows` says that
  buildkitd without buildkit-runc is what an unfinished or cut extraction leaves,
  for `ResultUsable`. From it follows
  `Refinement`, `Spec => ImplementsCache`: a failed second look enters, a rename
  publishes, the end of a call answers, and the other steps are stutters.
- `ProviderClient!IInv`: `MutexHeld` (the holder of a configuration's mutex is the
  call inside `client`), `SettledOnce` (nothing is settled before the holder stores
  it) and `ChildOfStarter` (an unsettled configuration's daemon belongs to the
  holder). From it follow ownership, the action property `StartedOnce`, and
  `Refinement`: `Spec => Implements`, where `StoreErr` and `Store` settle, `Unlock`
  tells, `Call` asks, and every other step is a stutter.
- `Discovery!DiscoveryInv`: what is still to be tried is on the list that the
  setup allows, and what is open belongs to the dial in progress.
- `Discovery!FirstInv`, on top of it, for `FirstSteadyWins`: while a list is tried, a
  host that has been up throughout still awaits its turn or is being dialled, and
  whatever is dialled instead comes no later in the announced order. The candidate
  lists are concatenated, filtered and deduplicated; the lemmas say what each of
  these keeps of the order.
- `RegistryAuth!AuthInv`: who consults holds the mutex and finds the memo empty;
  a key's memo is filled exactly when docker's configuration was consulted for
  it, with something held since the build began; and every answer given is that
  of the block in force or of the memo. `OneAnswer` follows because both are
  functions of the key.
- `SolveEngine!EngineInv`: outside of `Run` neither goroutine is alive, and a solve
  that has ended has left what it returned. `SessionsImplementAuth` is the refinement
  `Spec => AuthSpec`: a step of the engine is a step of `RegistryAuth` or leaves
  its variables alone, so every session keeps what is proved of the credentials
  (`SessionAnswers`).
- `ImageQuery!QueryInv`: an image that stays and meets the query is still to be
  resolved, being resolved, or found.
- `ImageQuery!Ranked`, on top of it, for `LatestDated`: the rows differ in their
  tags, and of any that were found one comes before all others, which a new row
  either leaves so or takes the place of.
- `ContextHash!HashInv`: the patterns are those of an ignore file nobody touched
  (`RulesInv`); nothing ignored is queued below its directory, kept or read
  (`KeptInv`); a file nobody touched that is not ignored is hashed, kept and to be
  read, in the queue, or below a directory that is (`CoverInv`); an undisturbed walk
  meets only what is there (`CauseInv`); and as long as only ignored paths change,
  the earlier hash is of the files that would be hashed now (`SinceInv`), from which
  `StableWhileIgnored` follows. `WrittenInv`, in the proof module, adds what the digest
  is: the frames of the files hashed, in the order of their paths (`OrderInv`). A
  list of files determines its bytes (`WritesSame`), and if no content holds a NUL
  byte the bytes determine the list (`WritesTells`): the last frame can be read off
  from its end, because names and modes hold none either.
- `ImageResource!ImageInv`: a refresh in progress still covers every block of the
  state (`Reading`); the flags are those of every block, and a block that pushes
  is either still to be pushed or has received the digest (`Building`).
- `ArtifactResource!ArtifactInv`: unless somebody else wrote, what is not still to
  be copied is on the host as in the stage (`Copied`), and the hash taken is of
  that; unless something happened, state, configuration and host agree (`Intact`).
  `DamageShows` needs nothing of the history: it follows from the bytes. Two trees that
  differ in one file have equal bytes before and after it, and what is between
  differs (`OneDiffers`), so that the hashes do (`DigestTells`).

Each proof has a lemma for the initial states and one per action or group of
actions; the theorems about single properties follow. The invariants that no run
lists hold on the bounds of the runs as well, which was tried before they were
proved.

Some facts are about all elements of a list or all directories above a path: that
`Above` ends at the root, that `Sorted` lists a set, that two digests are equal only
for equal files, that what is written of two trees agrees up to the first file in
which they differ. The library's induction theorems take an operator as an argument,
which the provers cannot be given. `ContextHashProofs`, `DiscoveryProofs` and
`ArtifactProofs` go by the least counterexample instead (`LeastNumber`, from the
well-foundedness of finite sets under inclusion), and `ImageQueryProofs` follows the
rows as the reads add them.

Only model-checked: liveness, that is `EnsureReturns`, `CallReturns`, `SignalExits`
and `RunReturns`. The prover has no fairness or `ENABLED` reasoning.

## Where the code and its text disagree

Shown by a run:

1. `src/main.go:35` (`Client_orphan`): the end of a normal run runs no cleanup,
   and buildkitd outlives the provider.
2. `image_resource.go:507` (`Image_nopush`): tags with `push = false` are looked
   up by Read and, not being there, drop the resource on every refresh.
3. `image_resource.go:119` (`Image_id`): the id planned for an update is the one
   of the old digest; the apply yields another.
4. `buildengine/contexthash.go:54` (`Context_link`): a context path that is a
   symbolic link is accepted and has the digest of an empty context, since the
   walk does not follow the link it starts from.

Also met, modelled as the code has them, and named as exceptions in the formulas of
the properties, whose runs therefore pass:

- `buildkitbin/provision.go:155`: `fromDir` and `fromPath` ask for buildkitd, not
  for buildkit-runc, which the comment of `BinDir` (`provision.go:42`) promises. The
  cache gets into the same state when a process dies between the two renames and
  buildkitd was first: no later call completes it (`ResultUsable`, `HalfWritten`).
- `discover.go:127`: `buildkit_autodiscover = false` requires "an explicit address /
  `BUILDKIT_HOST`", says its text (`provider.go:113`, `src/README.md:126`,
  `src/docs/index.md:58`), but the embedded daemon is still started unless
  `embedded_buildkitd` is false (`EmbeddedAnyway`). `provider.go:122` has that
  as the default of `embedded_buildkitd`, where `src/README.md:123` calls it opt-in.
- `dockerhost.go:81`: a context that is only reported, for its TLS files, marks
  its host as seen and hides the engine behind that socket (`Hidden`).
- `artifact_resource.go:303`: a directory is copied over what is there; files that
  the stage does not have stay and are recorded (`HoldsStage` asks for at least the
  stage).
- `image_resource.go:358` and `:485`: Read passes over the entry that an import
  writes, and the context is hashed after the solve that read it.
- `images_data_source.go:141`: no date is read of an index, so `most_recent_only`, "the
  most recently created matching image" (`images_data_source.go:80`,
  `src/docs/data-sources/images.md:50`), prefers an older single-platform image to
  a newer index (`LatestDated`, `DateUnread`).
- `artifact_resource.go:452`: `sha256Tree` puts nothing between paths and contents, so
  that a damaged directory may have the hash that was recorded, where the comment
  of Read (`artifact_resource.go:164-168`) has edits and partial writes surface
  (`DamageShows`, which excepts two files or more). And when `sha256File` fails on a
  file, `build` records a hash that Read does not compute: the next refresh drops an
  artifact that nobody touched (`HashFallback`, counted in `dirty`).
- `buildengine/auth.go:144`: the memo goes by the normalised host, the look-up by the
  spelling. If docker.io is asked first and is anonymous, a credential that is held
  for Docker Hub's URL is not found for the rest of the build (`FreshPerBuild`,
  `AskedFirst`).
- `buildengine/contexthash.go:102`: a content that holds NUL bytes can read like the end
  of its file and the files after it, and two contexts have one digest
  (`DigestTells`, `Binary`).
- `buildengine/contexthash.go:71`: a `!` pattern below an ignored directory is
  lost with the directory (`Skipped`).
- `buildengine/auth.go:62`: of two blocks for one host, the order of a map decides,
  for each build and each read anew (`InForce`). Which is why `SamePrecedence`
  speaks of blocks and not of one credential.
- `cleanup.go:36`: a cleanup registered after the handler has run the others is lost.

## Not modelled

- Schemas, examples, generated documentation and build files: data without
  behaviour of their own.
- The rootless preflight, command lines and log files of the embedded daemon: one
  choice between failing and going on.
- `create_before_destroy` and two artifacts on one path: they need a second
  object in the state.
- BuildKit's own cache of credentials with its `ExpireCachedAuth` (`auth.go:93`):
  it decides how often `lookup` is called, and any number of calls is covered.
- Collisions of sha256 itself: a digest is told by the bytes that go into it. An
  archive (`Packed`) differs if a name or a content does; `addFileToZip` writes no
  modes or times.
- Cancellation of a call's context other than where it ends a wait or a solve.

## Plan

Done: the modules above, and proofs of every safety property that a run checks.
Left, by what could still go wrong unnoticed:

1. A second resource object, for `create_before_destroy` and shared paths.
2. `BinaryCache` in place of `ProviderClient`'s one step for the binaries.
