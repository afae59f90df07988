# muse_deps in TLA+

A verification development for the dependency engine in `buildtools/`, for the
workflow that publishes what it builds, and for the Mach interface stubs that
`crashpad_client` keeps in the repository: TLA+ models of their state machines,
TLC configurations that check them on small instances, and TLAPS proofs for every
instance.  Paths and line numbers below refer to this repository (`src/` in
`PROJECT.json`).

## The system

An application includes this repository as a submodule and calls `require_dep`,
`require_tool` and `require_source_dep` from its CMake manifest.  Every
configure resolves each dependency to a prebuilt archive, a local build, a host
package or a source tree.  A producer workflow builds the archives, publishes
them and commits `prebuilt.lock`.

| Component | State it keeps | Operations | What makes it correct |
|---|---|---|---|
| **Manifest API** `manifest.cmake` | global properties `EXTDEPS_CONSUMED`, `<name>_PREFIX`, `<name>_LIBRARIES`, imported targets, `PATH` | `require_dep`, `require_tool`, `require_source_dep`, `_extdeps_override`, `extdeps_install_consumed` | the mode is the one the overrides ask for; what is installed is what is linked |
| **Resolver** `resolve.cmake` | install prefix `<LOCAL_ROOT_PATH>/<name>`, stamp `.prebuilt` | `extdeps_resolve`, `_extdeps_fetch_prebuilt`, `_extdeps_build`, `_extdeps_resolve_installed`, `_extdeps_resolve_system` | what is bound is of the recipe that is checked out, complete, and of one origin |
| **Builder** `build_dependency.cmake` | same prefix, stamp `.build_stamp`, `<prefix>/work` | `build_dep`, `_bd_recipe_sig`, `_bd_cmake_build` | a skipped build is up to date; a failed one is not taken for a finished one |
| **Download caches** `_bd_fetch`, `_bd_mirror`, prebuilt cache | `<EXTDEPS_CACHE>/downloads`, `<EXTDEPS_CACHE>/prebuilt`, shared by all build trees of a user | verify, download (3 attempts per URL), remove | nothing unverified is extracted; a damaged entry is replaced |
| **Source delivery** `_extdeps_populate_source` | source tree, stamp `.populated`, cached tarballs and clones | fetch, extract, checkout, patch | the tree is the pinned one with every patch, once |
| **Binary tools** `_extdeps_fetch_binary_tool` | `<prefix>/bin/<tool>` | check, download, verify, chmod | the tool is the pinned one and executable |
| **Producer** `build_platform.cmake` | `STAGE`, `OUT_DIR`, `ALL`, `TOOLS`, `DONE` | collect, build in order, package, write fragment | dependencies first; everything built is packaged; the fragment is true |
| **Source mirror** `mirror_sources.cmake` | `.build/mirror` | stage each pinned tarball | each label holds the pinned bytes |
| **Release workflow** `build_release.yml` | releases, `prebuilt.lock`, branch head | matrix build, merge, create, upload, commit, push | every pushed lock line has its archive |
| Metadata, recipes, hooks | none of their own (data, per-dep overrides) | `<name>_resolve_override`, `<name>_post_resolve` | |
| Custom `build.cmake` | build directory, `<EXTDEPS_CACHE>/downloads`, a clone | stage sources, compile | as source delivery |
| **MIG stubs** `crashpad_client/.../recipe/gen/util/mach` | a reply port per thread (in the system's library) | user stubs, request and reply checks, server demux and tables, two slices each | requests are read as written, answers are those of the call |
| Vendored headers, tables, patches | none | | |

Interactions: the manifest calls the resolver; the resolver calls the builder in
the same prefix (two owners of one directory, with a stamp each); both read the
caches, which other build trees write; the producer calls the builder with a
stage of its own; the workflow turns the producer's fragments into the lock that
the resolver reads at some later checkout.  The MIG stubs stand apart: they are
compiled into the client library and the handler of Crashpad, two programs that
talk through them.

What is hard here is not parallelism inside one run (a configure is one
sequential script) but **what survives a run**: prefixes and stamps that outlive
a changed recipe, another mode, another configuration, a kill between two file
operations; caches shared by configures that do run in parallel; and a publishing
protocol of several steps that may be cut anywhere.  In the stubs it is the
asynchrony of messages: late answers, errors after a send, a server that dies, and
two independently generated sides that must agree on every offset.  `PROJECT.json`
lists each such hazard at its line (`hazards`), with the properties that cover it
or the reason why none does.

## Modules

### `LocalPrefix` -- one install prefix over the life of a build tree

`extdeps_resolve` and everything it does to `<LOCAL_ROOT_PATH>/<name>`, for one
library or one tool that is built from source.

| Variable | Code |
|---|---|
| `kind` | `DEP_KIND` |
| `recipe` | the content of `<name>/<version>/recipe` as `_bd_recipe_sig` sees it |
| `lock` | the lock line that matches name, version, os, arch (its release), or `None` |
| `files`, `whole` | whose files lie in the prefix; whose installation is the last complete one and not overwritten since |
| `prebuiltStamp`, `buildStamp` | content of `.prebuilt` and `.build_stamp` |
| `pc`, `config`, `via` | where the running configure is, the configuration it builds, how it thinks the dependency was satisfied |
| `unfinished`, `faults` | the prefix operation that began and did not reach its stamp; interruptions so far |

`Configure` takes a mode and a configuration and picks the branch;
`NoUsablePrebuilt`, `AlreadyInstalled`, `FetchArchive`, `ClearPrefix`,
`ExtractArchive`, `StampPrebuilt` are the steps of `_extdeps_fetch_prebuilt`;
`SkipBuild`, `PrepareSource`, `Install`, `StampBuild` those of `build_dep`;
`Bind` and `ResolvedLibMissing` the check of `_extdeps_resolve_installed`.
Every file operation is an action of its own, because a configure may end
between any two of them: `GiveUp`, `ClearInterrupted`, `ExtractInterrupted`,
`InstallInterrupted`, `StampInterrupted`.  `Checkout` moves the submodule to any
other recipe and lock between two configures.

Abstractions: a signature is the recipe it is computed from; how the archive or
the source arrives is one step that succeeds or not (`FetchArchive`, whose parts
and rivals are in `ArchiveCache`; `PrepareSource`); what is inside an archive or a build is its origin.  SONAME
links, install names and licenses are part of the installation.

### `ArchiveCache` -- one cached archive and the configures that share it

The part of `_extdeps_fetch_prebuilt` between the stamp check and the extracted
archive (`resolve.cmake:243-279`), run by several configures at once, each of its
own build tree and lock.  The cache has no lock file, a download writes in place,
and the archive name is that of the recipe: two releases of one recipe share it.

| Variable | Code |
|---|---|
| `path`, `data` | `<EXTDEPS_CACHE>/prebuilt/<archive>`: the file that has the name, and what each file holds |
| `pc`, `pin`, `tries` | where each configure is; its `_sha256` and `_release`; `_attempt` |
| `handle`, `from` | the file a configure has open in DOWNLOAD or ARCHIVE_EXTRACT, and the bytes it moves |
| `got` | what was extracted into the prefix |
| `touched` | history: another process changed the cache since the fetch began or verified |
| `kills` | bound on killed configures |

`Look`, `Hash`; `OpenForDownload`, `WriteFirst`, `WriteSecond` or `DownloadFails`;
`Check`, `Remove`, `GiveUp`; `OpenArchive`, `Extracted` or `ExtractionFails`;
`ArchiveVanished` wherever a command meets a name that is gone.  A removed file
lives on while it is open.  Hashing is atomic, a file has two parts (so that it can
be empty, partial, mixed or whole), the server may send either release under one
URL (a mirror set by `EXTDEPS_PREBUILT_URL`), and a mixed archive does not extract.
`LocalPrefix` takes for granted that `FetchArchive` delivers what the lock names;
`UndisturbedDeliversPin` says when it does.

### `DependencyOrder` -- what a dependency-ordered build promises

Three variables (`graph`, `done`, `outcome`) and five actions: a package is built
only after what it depends on, the build is complete only when everything is
built, and stuck only when nothing that is left can be built.  It says nothing of
lists, passes or counters.

### `PlatformBuild` -- the producer script

`build_platform.cmake` statement by statement: `SkipSpec`, `CollectTool`,
`CollectLibrary`, `Collected`; `BuildTool`, `ToolFails`, `ToolsBuilt`; the
`while` loop with `BeginPass`, `PassOver`, `BuildLibrary`, `LibraryFails`,
`NoProgress`, `EndPass`; then `ClearSome` and `ClearOut` (the removal of `OUT_DIR`, file by
file) or `ClearKilled`, `PackageOne`, `PackageFails`, `WriteFragment` or `WriteKilled`.
The variables carry the script's names (`ALL`, `TOOLS`, `DONE`,
`_progress`, `_VER_<name>`, `_DEPS_<name>`, `_lock`).  An archive carries the run
that produced it, so that a fragment left by an earlier run is told from a true
one; `Leftovers` is what earlier runs left in `OUT_DIR`, one that was killed in its
own removal included.  `Order == INSTANCE DependencyOrder WITH ...` maps `ALL` and `_DEPS_<name>`
to the graph, `DONE` to the set of built packages, and the position in the script
to the outcome; `ImplementsOrder` is the refinement.

### `SourceDelivery` -- one pinned source on its way into several trees

`_extdeps_populate_source`, `_bd_fetch` with `_bd_mirror`, the work directory of
`build_dep`, and the stage functions of `crashpad_handler/build.cmake`: five kinds of delivery
(`Kinds`) over a cached tarball or clone whose name does not carry the pin.

| Variable | Code |
|---|---|
| `kind`, `good` | which of the five codes delivers; the URLs that serve what is pinned |
| `tarball`, `writers` | `<EXTDEPS_CACHE>/downloads/<basename>`, and who downloads into it |
| `clone`, `published` | the cached clone (begun or whole, its commits, `index.lock`, HEAD, files); the commits upstream |
| `pc`, `pin`, `url`, `tries` | each tree's process, its recipe's SHA-256 or commit, the loops of `_bd_fetch` and of the patches |
| `dir` | the tree's directory: two parts, patches applied, `.populated` |
| `verified`, `disturbed`, `vouched`, `found` | history of each tree: it compared its source with the pin; another process changed the cache since; what lies in the directory was verified and not disturbed; a whole clone was there when the process began |
| `proven`, `remains`, `kills` | history of the cache: some process found the tarball, as it is, to be its pin; what killed processes left that is still there; the bound on kills |

`Start` moves the pin, tells a populated directory from one to be removed, and
`RemoveRest` ends the removal; `Look`, `Hash`, `OpenForDownload`, `Downloaded` or
`DownloadFails`, `Check`, `Discard`, `NextUrl`, `AllUrlsFail` are the tarball;
`CloneBegins`, `CloneEnds`, `Fetch`, `Checkout`, `CheckoutEnds`, `RevParse`, `Copy`,
`CopyRest` the clone, with `CheckoutLocked` and `CheckoutUnknown` for git's own refusals;
`Extract`, `ApplyPatch`, `PatchFails`, `Finish` fill the directory.  Extraction is one step
where the code extracts aside and renames, or starts over after a kill; crashpad's
script copies what it extracted file by file (`ExtractAndCopy`, `ExtractRest`), and
patches what it staged from a tarball, not what it staged from git (`PatchCount`).  `Kill` ends a
process anywhere; `Publish` adds a commit upstream.  What git and tar do is external,
modelled from how the code calls them.

### `Manifest` -- the configures of one build tree

`require_dep`, `require_tool`, `require_source_dep` and what they call, call by
call, over the life of a build tree in which everything outside it may change
between two configures.

| Variable | Code |
|---|---|
| `application`, `manifest`, `override` | the application's calls with their arguments, `EXTDEPS_OVERRIDE_<NAME>` and `_ALL` |
| `recipe`, `locked`, `online`, `host` | the checkout, `prebuilt.lock`, the network, the host's packages |
| `found` | `find_path`, `find_library` and `find_program` results in `CMakeCache.txt` |
| `prefix`, `tool` | `<LOCAL_ROOT_PATH>/<name>` with both stamps; `<prefix>/bin/<tool>` and whether it can be run |
| `at`, `step`, `tries` | the call that runs, where `_extdeps_fetch_binary_tool` is in it |
| `target`, `libraries`, `path` | imported targets, `<name>_LIBRARIES`, `PATH`; they end with the configure |
| `changed`, `cut` | history: something changed since the last whole configure; a tool was cut off before its chmod |

`ModeOf` is `_extdeps_override` with the demotion of sources, `Refused` its fatal
errors.  `Configure` and `NextCall` run the calls; `BindSystem`, `UsePrebuilt`,
`Extract`, `SkipBuild`, `Build`, `Deliver` are the branches of a library or source;
`FindTool`, `UseTool`, `FetchTool`, `OpenForDownload`, `Downloaded`,
`DownloadFails`, `Check`, `Discard`, `Chmod` those of a tool; `Abandon` ends a
configure between any two steps.  Here a prefix changes in one step: what happens
inside is `LocalPrefix`.

### `Release` -- the workflow, next to others and to developers

`build_release.yml`, `mirror_sources.cmake` and the merge of fragments.

| Variable | Code |
|---|---|
| `branch` | the commits, each with its recipes and its `prebuilt.lock` |
| `upstream`, `second` | tarballs that can still be downloaded; `date -u +%Y%m%d-%H%M%S` |
| `release` | of each tag, the assets or none |
| `pc`, `sha`, `job` | each run: its step, the commit it was dispatched at, its matrix jobs |
| `base`, `staged`, `tag`, `lock` | the commit `collect` checked out, `.build/mirror`, the tag, the lock it wrote |

`Dispatch`, `BuildJob`, `SkipCollect`, `Collect`, `TakeTag`, `Mirror`, `Merge`,
`CreateRelease`, `Upload` or `UploadFails`, `Push`, `CollectFails`, `Rerun` are the
steps in their order; `Commit`, `Vanish`, `Tick` are developers, upstream servers
and the clock.  An archive carries the run that built it, which is what its SHA-256
tells.

### `AtomicRelease` -- what a consumer sees of it

Somebody who checks out a commit sees its recipes and what the release of its lock
holds (`offers`), nothing of tags, steps or jobs.  Two actions: a commit that keeps the
offer it finds, and a publication, once for each run, which brings an archive of one
commit for every platform and the sources the newest recipes pin, in one step.
`Consumed == INSTANCE AtomicRelease WITH ...` in `Release` maps each commit of `branch`
through its lock to `release`, and the finished runs to `ended`;
`ImplementsAtomicRelease` is the refinement.

### `MigTypes`, `MigArm64`, `MigX86_64` -- the generated stubs as data

`MigTypes` is the vocabulary: structs as sequences of members with offsets, counted
arrays packed tight, dispositions, the forms of a user stub and of a server stub.
`MigArm64` and `MigX86_64` give each half of the generated files routine by
routine: every struct of `*_Mess`, ids, sizes, limits and slacks of the twelve
routines of `exc`, `mach_exc`, `notify` and `child_port`, the unions, the checks and
the dispatch tables with their null slots.  Each half is translated on its own, so
that an offset that differs between them is a difference the checks can see.

### `MachRpc` and `RemoteCall` -- threads that call a server through them

| Variable | Code |
|---|---|
| `client`, `server`, `serves`, `caller`, `header` | the slices, the subsystem, what calls the stubs in the server, whose structs its unit got |
| `up`, `inbox`, `held`, `performed` | the server: alive, queue, request in work, calls performed |
| `made`, `port` | `mig_get_reply_port`: ports made so far, the one each thread keeps |
| `mail` | messages in reply ports |
| `calls`, `waiting`, `result` | calls made, the call each thread waits for, how each ended |

`CallTooLarge`, `CallRpc`, `CallSimple`, `CallNotSent`, `ReceiveFails`, `Return` are
a user stub from its length checks to the check of the answer, with
`__MachMsgErrorWithoutTimeout` in `PutsBack` and `GiveUp`; `Take`, `Refuse`,
`Reject`, `Abort`, `Succeed`, `Fail` the server with the generated demux or a
handler; `Kill` its death.  Ports, queues, rights and the send-once notification are
the kernel's and modelled from how the stubs use them.  `RemoteCall` is what a caller may
rely on, without ports or messages: performed at most once, told its own outcome or
a failure; `Abstract == INSTANCE RemoteCall WITH ...` maps `calls` and what is
`Seen` of each result to it.

Definitions that a comment calls a faulty variant (`ReadyOnOne`, `ClearArchives`,
...) are not used by the specifications: each is a plausible bug that breaks one
property, which shows that the property depends on the code.

## Runs

| Run | Checks | Shows |
|---|---|---|
| `local_prefix` | `TypeOK`, `ServedArchiveIsCurrent`, `PrebuiltServedWhole`, `HalfExtractedNeverServed`, `SkippedBuildIsCurrent`, `HalfExtractedHeals` | under any history with two interruptions, what is bound is current; a half extraction is never bound, and a complete installation of the current recipe is bound in the end |
| `local_prefix_rebuilt` | `PrebuiltIsPrebuilt`, violated | prebuilt, `REBUILD` (or Debug), default mode: the built files are bound as the prebuilt |
| `local_prefix_up_to_date` | `UpToDateIsBuilt`, violated | one installation cut short, and the next build of the earlier configuration is skipped over its remains |
| `archive_cache` | `TypeOK`, `UndisturbedDeliversPin`, `FailsOnlyByInterference`, `LeftClean`, `EveryFetchEnds` | two configures, two releases, failing and wrong downloads, a kill: whoever is left alone gets the pinned archive or builds locally; interference may stop a configure, never livelock it |
| `platform` | `TypeOK`, `FatalMeansStuck`, `NothingLeftBehind`, `FragmentBacked`, `StagedIsPackaged`, `ImplementsOrder`, `BuildEnds` | the passes are a dependency-ordered build, they end, and from the removal of `OUT_DIR` on a fragment names only archives of this run, over whatever earlier runs left |
| `platform_versions` | `EveryRecipePackaged`, violated | two version directories of one name |
| `source_delivery` | `TypeOK`, `DeliveredIsPinned`, `FatalHasCause`, `FetchFindsThePin`, `RestingTarballWasVerified` | every kind of delivery in two trees with moving pins, wrong mirrors and kills: what was compared and left alone arrives whole and patched once; each error has its outside cause, never an attempt that failed |
| `source_delivery_pinned` | `EveryDeliveryIsPinned`, violated | one tree alone: the tarball of an earlier revision with the same basename is delivered unchecked |
| `manifest` | `TypeOK`, `PinnedIsHandedOver`, `BuiltAgainstCheckedOut`, `ReconfigureChangesNothing` | whatever changed before, what is linked is shipped, tools on `PATH` are pinned, dependents are built against what is checked out, and an unchanged tree stays as it is; with the exceptions below |
| `release` | `TypeOK`, `PushedLinesHaveArchives`, `LockIsWhole`, `SourcesBesideRecipes`, `ImplementsAtomicRelease` | two runs, failures and reruns everywhere, developers' pushes: a pushed lock is whole, backed and mirrored for good, and to consumers a run publishes in one step or not at all |
| `mach_rpc_stubs` | `TypeOK`, `StubsAgree`, `AnswersAreUnderstood`, `UnservedIsRefused` | every routine at every length around its limits, all pairs of slices, both headers, messages of strangers: both sides agree on every offset and size |
| `mach_rpc_ports` | `AnswersOwnCall`, `NobodyWaitsInVain`, `ImplementsRemoteCall`, `EveryCallReturns` | two threads reuse reply ports over three calls with errors, late answers and the server's death |

Four properties are proved and in no run: `DependenciesFirst` and `ReferencedIsImmutable`
follow from `ImplementsOrder` and `ImplementsAtomicRelease`, which the runs check;
`EveryStepNearsTheEnd` and `NobodyIsSetBack` are the proved part of `BuildEnds` and
`EveryFetchEnds`, which TLC checks as they are.

The four violated statements are the repository's own; `PROJECT.json` quotes them
under `findings`.

Some properties name exceptions, which are behaviours of the code.  In `Manifest`: a build installs over
an extracted archive and leaves its `.prebuilt` stamp, so that later configures take
its files for the archive's (also what `local_prefix_rebuilt` shows); a name
required in two modes has the target of the first call and the properties of the
last; a tool whose configure ended between download and chmod has the right SHA-256
and is never made executable.  In `SourceDelivery`: `vouched` leaves out what was
extracted without a comparison, and `disturbed` whoever had the cache changed under it.
In `ArchiveCache`: `touched` likewise; nothing locks the caches, so two processes may
take a verified file from each other.  In `PlatformBuild`: a run that is killed while it
removes `OUT_DIR` may leave the fragment of an earlier run without its archives, so
`FragmentBacked` speaks of a run from the end of that removal on; the next run's
removal ends that state, from which the checked runs start too.

**Bounds.**  `LocalPrefix` is checked with two recipes and three releases, one of
which republishes the first recipe: a stale, a current and a republished lock line
all occur with either recipe, and the prefix can hold the files of any two.
When the lock moves between those two, the prefix stays what it was, since `.prebuilt`
holds only the archive's name; `PrebuiltServedWhole` therefore asks for the archive of
some release of the current recipe, whole and alone, not for that of the lock's.
`MaxFaults = 2` lets an interruption strike the repair of an earlier one; there is
no bound on configures and checkouts.  Recipes and releases are not symmetric
(`RecipeOf` tells them apart), so no symmetry is used.  `ArchiveCache` has two configures, two
releases, pinned anew at every fetch, two attempts (fail then succeed, or fail
twice) and one kill; it has a file for each process, since one that opens a new
file has none open.  No symmetry there, as it is unsound for liveness.
`PlatformBuild` is checked
on all graphs of three libraries in which each may depend on any of them, itself
included, the third on the tool too or skipped on this platform: chains against
the order of `ALL`, cycles of length one to three, dependencies that are missing
or tools; plus lists with two versions of a name.  Three libraries need up to
three passes.  `OUT_DIR` starts with any combination of an old fragment and its archive.  `CHECK_DEADLOCK FALSE` there, since the script ends.
`SourceDelivery` has two trees, two revisions, two attempts for each of two URLs, one
patch (a tree that has its sources and not yet all patches) and two kills (one that
strikes the repair of another); trees and revisions are symmetric, and nothing
temporal but action properties is checked.  `Manifest` has two libraries of which
one depends on the other, one that only the system has, two sources, one tool and two
recipes; two applications, each with several manifests and overrides, in and out
of order and in every mode.  No bound on configures.  `Release` has two runs, two
platforms, recipes, sources and seconds (the same second for both, or one each), one
developer's commit and one rerun; symmetric in runs and platforms.  `CHECK_DEADLOCK FALSE`:
the workflow ends.  `mach_rpc_stubs` makes one call, with all data; `mach_rpc_ports`
three calls by two threads, with one call of each shape: the third call can meet
what two earlier ones left.  The two are apart because offsets do not depend on
interleavings.  Both may stop when all calls are made and returned.

**Fairness.**  `LocalPrefix`: weak fairness of `Step` (a started configure is a
running process) and strong fairness of a default-mode `Configure` (a developer
who keeps working on the tree keeps configuring; a configure is possible again
after each interruption or checkout, hence strong).  No fairness of checkouts,
faults or of a download's success.  `HalfExtractedHeals` is checked under it, with
interruptions that strike the repair too but, by `MaxFaults`, not for ever.
`ArchiveCache`: weak fairness of each configure's `Step` -- separate processes that
the operating system schedules; no download has to succeed, no configure has to
start.
`PlatformBuild`: weak fairness of `Next`, one sequential script.
`MachRpc`: weak fairness of `Receive`, `Serve` and each thread's `Return` -- a server
loop that keeps taking and finishing requests, and threads that wake up when there is a
message.  No send has to succeed, no server has to live, no call has to be made.
`SourceDelivery`, `Manifest` and `Release` state no fairness: only safety is claimed.

## Proofs

`LocalPrefix_proofs`, `ArchiveCache_proofs`, `PlatformBuild_proofs`, `SourceDelivery_proofs`,
`Manifest_proofs`, `Release_proofs`, `MachRpc_proofs` and `MachRpcStubs_proofs`, checked by
TLAPS with no assumption beyond the `ASSUME`s on the constants:

- `RecipeOf` is a function from releases to recipes; `None` is none of the values it
  stands beside; a partial and a foreign file are not the pinned one; a manifest is a
  list of calls of known names; there is at least one attempt; the spec lists and
  leftovers are lists of specs and lines; recipes pin sources.
- Of the MIG stubs, `StubsAssumption`: a stub that waits sends a right for one message,
  never puts its reply port back after a failed receive, and does not wait for the
  kernel's notification id.
- `TablesAssumption`: what the two generated halves must have in common, number by
  number (a slack that is the room of the arrays, a count at the same offset in the
  request and in the struct it is read through, a reply buffer with room for the
  answers and their trailer).  It says nothing of messages, of the lengths of one call or
  of the shifts both sides compute from them.

TLC evaluates every one of them in the runs, `TablesAssumption` in `mach_rpc_stubs` over
all routines, both slices, all pairs of them and both headers: the tables are data of
the repository, so that evaluation settles it.

*LocalPrefix.*  The four safety invariants are not inductive: what a configure
binds depends on stamps written long before.  `IInv` says what a stamp means at
any moment: between removal and stamp the lock line is fixed and the contents are
known (`StepsInProgress`); no stamp survives the removal an extraction starts with
(`ExtractionLeavesNoStamp`); `.prebuilt` names the recipe of every archive file in
the prefix (`PrebuiltStampTrue`); `.build_stamp` tells the truth unless an operation
was cut short (`BuildStampTrue`); a binding rests on the stamp of who delivered
(`StampOfDelivery`).  `Invariance` proves it for any recipes, releases,
configurations and number of interruptions; `ServedArchiveCorrect`,
`PrebuiltServedCorrect`, `HalfExtractedCorrect` and `SkippedBuildCorrect` follow.

*ArchiveCache.*  What a configure may rely on is what nobody has changed since it
looked.  `IInv` states it step by step: a file is open exactly while it is written
or read (`OpenWhileUsed`); a name that was found or made is there until someone
else touches the cache (`NameStays`); a verified file holds the pinned bytes until
someone else touches it, by name and, once open, by handle (`StaysVerified`).
Every action that changes the file or the name marks all other running configures
as touched, so a step of one never breaks what an untouched other knows.
`UndisturbedCorrect` and `FailureNeedsInterference` follow, for any number of
configures, releases, files, attempts and kills.  `CacheLeftClean` needs one more part,
`RemainsAttended`: unless somebody was killed, whatever has the archive's name and is not
complete is still being written, or is checked next by a process that then removes it.
`BoundedCorrect` proves `NobodyIsSetBack`, the part of `EveryFetchEnds` that is not
fairness: `StepsLeft` of a configure is a natural number that its own steps lower and no
step of the others raises.

*PlatformBuild.*  `IInv` adds to the invariants that `ALL` and `DONE` are lists
without duplicates, `DONE` part of `ALL` (`ListsAreSets`), and that a pass without
progress has found every library it passed done or not ready (`PassSoFar`): since
`DONE` did not change in it, they still are when the pass ends, which is why the
fatal error is true.  `CountsDecide` turns the script's subtraction of lengths into
set equality through cardinalities.  `FragmentCorrect` needs that every line of the lock
under way has its archive of this run (`LinesBacked`), and that the removal is through
before the first is packaged.  `StagingInv` follows a version from `_VER_<name>` at
collection to the staging directory and to the line of the fragment, across the loops
over the tools, the passes and the packaging; `StagedCorrect` is what it says at the
end.  `OrderImplemented` proves the refinement
`Spec => Order!Spec` for every dependency graph: every step of the script is a step
of `DependencyOrder` or leaves its variables alone.  `NearsCorrect` is what `BuildEnds`
rests on: of the phases, the libraries not built and the entries of the pass that are
left, in this order, a step lowers the first that it changes, because a pass is followed
by another only when it has built something.

*SourceDelivery.*  What is in a tree's directory was decided by a cache that others
change, often before the run that finds the directory populated.  `IInv` says, for each
tree, what it knows of itself (`Local`: an empty directory until the delivery, the
patches it counts), what a vouched stamp says of the files beside it (`Vouched`: this is
what carries a delivery over to later configures), and what holds of the cache until
another process disturbs the tree (`Known`, `AloneInCache`).  Every action that changes the
cache disturbs all trees that are at work, so that a tree's knowledge survives the steps of
the others by definition of `disturbed` and only its own steps have to be looked at.
For the causes of errors it adds what the cache owes to the dead: a begun clone and a
`.git/index.lock` are those of a process at work or among the `remains` (`CloneInv`), and
so is a tarball that is not `proven` (`RemainsAttended`: somebody is still going to check
or remove it); while nobody disturbs a tree, nobody else downloads or clones
(`AloneInCache`, `AloneAtClone`), and a clone made since the tree began has its commit
(`KnownClone`).  For the fetch it adds that no URL was passed by that serves
the pin, and one that serves it has attempts left (`FetchInv`).  `DeliveredCorrect`,
`RestingCorrect`, `FatalExplained` and `FetchCorrect` follow for every kind of delivery and
any trees, revisions, attempts, patches and kills.

*Manifest.*  The properties speak of the end of a configure, of a build in the middle of
it or of a whole second configure, and rest on what all calls before have left.  `IInv`
says what a stamp means for the files beside it (`StampsTrue`: it names their recipe, or
the other stamp is there too, which is the exception the properties name), that what an
earlier call put into a prefix still serves (`EarlierServed`), that target and properties
of a library are those of earlier calls (`MemoryTrue`), that the tool being fetched is not
on `PATH` and only an end between download and chmod leaves one that cannot be run
(`ToolsTrue`), and that what an earlier call asked for is settled, which in a tree without
changes holds of every call (`CallsSettled`, `SettledIsQuiet`).  `HandedOverCorrect`,
`BuiltAgainstCorrect` and `ReconfigureCorrect` follow for any manifests, overrides,
dependency graphs, checkouts, locks and hosts.

*Release.*  What a run publishes rests on what it read at its checkout.  `IInv` says
that a release with a run's tag is that run's alone from `CreateRelease` on
(`OwnsRelease`, `OwnedByOne`), what each step has added to it (`Holds`), and that
the branch starts without a lock (`StartsUnlocked`).  A push succeeds only on the commit
that was checked out, so nothing a run relied on has changed when its lock
arrives.  `PushedLinesCorrect`, `LockWhole`, `SourcesMirrored` and
`ReferencedCorrect` follow for any number of runs, platforms, recipes, sources,
seconds, commits and reruns.  For the refinement, `AtomicReleaseImplemented`, what is in
a release has to be known exactly: `HoldsExactly` says that a run has put there its
archives and its sources and that nobody has added to them.  Then the push is the one
step that consumers see of a run; a commit of a developer keeps the offer because the
lock stays and its release is never touched again; all other steps work on releases that
no lock names.

*MachRpc.*  A thread may keep its reply port because at any time at most one message
exists that can reach it (`OneMessage`): the request with the send-once right, or the
answer or notification it became.  Whoever returns has taken that message or
destroyed the port, and numbers of ports and calls are never given out again
(`PortsAreOwn`, `CallsAreOwn`).  An answer that looks like an implementation's is
one (`AnswersTrue`).  `AnswersCorrect` follows, and `RemoteCallImplemented`: every
step over ports and messages is a step of `RemoteCall` or leaves what callers see
alone.  `WaitsCorrect` is the part of `EveryCallReturns` that is not fairness: for a
thread that waits there is an answer in its port, or a living server has its request
with the right to answer it.

*MachRpcStubs.*  Both sides compute where a count lies from the counts before it, and the
user stub shortens a message by what its arrays leave free.  `PackedWithinSlack` bounds
that, `WordsApart` shows that no two of these words coincide, so that the server reads
back each count and the flavor (`ReadAsWritten`) and its check of the size passes
(`CheckPasses`), for arrays of every length up to their limits.  `DataInv` carries it
along a message's way: requests in the inbox and with the server are as they were written
(`RequestsIntact`), and whatever can reach a waiting caller is an answer it understands
(`AnswersMeant`).  `StubsAgreeCorrect`, `UnservedRefused` and `AnswersUnderstood` follow for
any threads, calls, slices and lengths, from the assumptions above.

Only model-checked: the four liveness properties.  `BuildEnds`, `EveryFetchEnds` and
`EveryCallReturns` follow from the proved facts named above with the fairness stated, a
step that needs `ENABLED` and is outside the prover's reach.  `HalfExtractedHeals` speaks
of a developer who configures again and again until a complete installation is bound; its
safety part, that a half extraction is never bound meanwhile, is `HalfExtractedCorrect`.

## Not modelled

- Compiler and linker flags, include directories, library names, install
  destinations, SONAME and install-name fix-ups, wording of messages and notes.
- Detection of system and architecture, and the install commands of
  `extdeps_install_consumed`: straight-line settings, without state of their own.
- The compiler invocations of custom `build.cmake` scripts: commands that succeed or stop the
  configure, which `LocalPrefix` has as `Install` and `InstallInterrupted`.
- wxwidgets' own binding, which repeats the library branches with `wx-config`, and the
  `post_resolve` hooks, which declare targets in one sequence of commands.
- The byte order conversions of the stubs (empty macros in these builds), vouchers,
  and the deprecated semantic checks, which no build of them enables.
- Vendored headers (`linux_syscall_support.h`: wrappers of single system calls;
  `configMS.h`: preprocessor settings), liblouis tables and patches: no state, no steps.

## Plan

Done: `LocalPrefix`, `DependencyOrder` and `PlatformBuild`, `ArchiveCache`, `SourceDelivery`,
`Manifest`, `Release` with `AtomicRelease`, and `MachRpc` with `RemoteCall` and the stub
tables, each with proofs of every safety property that a run checks.

Left: `post_resolve` hooks and wxwidgets' override, should they come to keep state; and
`Manifest` over `LocalPrefix` instead of its one-step prefixes, with two prefixes of which
one is cut short while the other is built against it.
