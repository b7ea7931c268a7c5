# TLA+ verification of the Arduino CLI (Android fork)

The Arduino CLI is a daemon (and a command line that embeds it) which keeps *core
instances* - the installed platforms, tools, libraries and board discoveries of a
client - and serves RPCs on them: install, upgrade and uninstall platforms and
libraries, watch boards, compile, upload, monitor.  The fork runs it on Android and
patches the platforms it installs.  Requests run concurrently, each in its own
goroutine; downloads and directories fail halfway; a build keeps caches that the next
build believes.  These modules model the parts in which that can go wrong, check them
with TLC on small instances, and prove their invariants with TLAPS, for any number of calls,
builds, releases, libraries, ports and watchers (see Proofs).

Paths below are relative to `src/`.

## How to run

    tlc -config core_calls.cfg MCCoreInstance.tla     # a run: see the table below
    tlapm Instances_proofs.tla                        # the proofs of CoreInstance and IndexUpdate;
                                                      # of the others: <module>_proofs.tla (the
                                                      # longest takes about 4 minutes)

`PROJECT.json` lists the runs, for each property a mutant of the code's model that breaks
it, and the source lines each definition stands for.

## Inventory

### What is modelled

**Core instance and its locks** (`commands/instances.go`, `commands/internal/instances`,
the locks of `packagemanager/package_manager.go` and
`librariesmanager/librariesmanager.go`, the handlers `commands/service_{library,platform}_*.go`).
- State: the instances map (package manager, libraries manager), `packagesLock` and
  `librariesLock` (`sync.RWMutex`), the packages and libraries in memory, the directories
  on disk.
- Operations: Create, Init, Destroy; LibraryInstall, LibraryUninstall, the imports,
  LibraryList; PlatformInstall, PlatformUpgrade, PlatformUninstall; everything that only
  needs an Explorer.
- Interaction: every handler fetches the managers from the map and takes an *Explorer*
  (read lock) or *Installer* (write lock) of one or both. Init reads the disk, commits to
  the package manager under its write lock, builds a *new* libraries manager and puts it
  in the map. Most handlers that change something run Init at the end.
- Hard: two locks taken in two orders, a RWMutex whose pending writer stops new readers,
  the swap of the libraries manager under the calls that still hold the old one,
  unlocked reads of the disk that are committed later, Destroy at any time.
- Correct if: no call sees the packages change under its Explorer; one call at a time
  changes libraries; every call is answered; what was removed is not listed.

**Installation of platforms and tools**
(`internal/arduino/cores/packagemanager/install_uninstall.go`, `download.go`,
`internal/arduino/resources/install.go`, `internal/android/patcher.go`).
- State: per release and tool, `InstallDir` in memory and the directory on disk.
- Operations: DownloadAndInstallPlatformAndTools, InstallTool, UninstallPlatform,
  UninstallTool, IsToolRequired, and their callers.
- Hard: the new release is put in place before the old one is removed, rollback when that
  fails, a kill between any two steps, two calls under one shared read lock, a patcher
  that panics.
- Correct if: the installed release has all its tools; a platform is never lost by an
  upgrade; no unneeded tool stays; memory agrees with the disk; sketchbook releases are
  never touched.

**Discovery manager and board watching**
(`internal/arduino/discovery/discoverymanager/discoverymanager.go`,
`commands/service_board_list.go`, `commands/utility_grpc_streaming.go`).
- State: the discoveries and their clients, the event channels, `feed`, the watchers, the
  cache of active ports, `watchersMutex`.
- Operations: Start, Add, Clear, Watch, Close; the goroutines that transfer and feed
  events; BoardListWatch with its reader and sender.
- Hard: bounded channels under a mutex, a slow or vanished client, close against a
  registration in flight, restarts of a discovery, and a reader that needs the package
  lock Init holds while Init waits for the discoveries.
- Correct if: each watcher sees every event once, in order, after the snapshot; no send
  on a closed channel; the cache is what is there; Close and Init always come through.

**Library detection and resolution** (`internal/arduino/builder/internal/detector`,
`internal/arduino/builder/internal/runner`, `internal/arduino/builder/preprocess_sketch.go`,
`internal/arduino/libraries/librariesresolver`).
- State: the queue of sources, the include path, the libraries taken for each header and
  the resolver's lists of alternatives, `includes.cache`, the dependency files, the
  preprocessed sketch, the tasks of the pre-runner.
- Operations: FindIncludes, findMissingIncludesInCompilationUnit, expect, resolveLibrary,
  ComputePriority, commitStagedLibrary, the pre-runner, PreprocessSketch.
- Hard: caches validated by files that a concurrent pre-runner, or a build that failed
  later, has renewed; cancellation; termination of the loop, also when a listed header is
  gone and when a lookup changes the list the next one reads; libraries of a profile, which
  are in the path before they are used; five criteria added up as one number.
- Correct if: every header of everything found is found, and all that is used is compiled;
  the documented rules choose; nothing old is reused; the build ends.

**Compilation of a sketch** (`internal/arduino/builder/{builder,compilation,core,libraries,archive_compiled_files,build_options_manager}.go`,
`internal/arduino/builder/internal/utils`, `internal/buildcache`).
- State: `build.options.json`, the copy of the sketch, object and dependency files,
  `libraries.cache`, `core.a`, the cache of cores that all sketches share.
- Operations: the wipe, prepareSketchBuildPath, FindIncludes (its result only), the removal
  of unused libraries, compileFiles with its feeder and workers, archiveCompiledFiles, the
  core from or into the shared cache, the link; the purge of old directories.
- Hard: kills between any two steps and inside each of them, failing tools with other
  compilers under way, files saved during the build, a purge by another process.
- Correct if: what is linked is current; a failed build leaves no compiler running; a build
  fails for a reason, and ends.

**Pluggable monitor** (`commands/service_monitor.go`, `internal/arduino/monitor`).
- State: the process with its pipes, the decoder, the connection to the port; the handler,
  the receiver and the sender of a Monitor call; the client's stream.
- Operations: HELLO, DESCRIBE, CONFIGURE, OPEN, CLOSE, QUIT; the close message; the kill.
- Hard: two goroutines that send commands and wait on one channel with no lock; timeouts
  and answers that come after them; a client, a port or a process that goes at any moment.
- Correct if: the call ends with the process and with all its goroutines; what is reported
  as applied was accepted; the port is closed once.

**Upload and port detection** (`commands/service_upload.go`).
- State: the ports, the feed of a discovery watcher, the candidate, the timeout.
- Operations: runProgramAction with the upload tool; detectUploadPort during the upload and
  after it.
- Hard: ports go and come during the upload, between it and the wait, and during the wait,
  with a timeout that some of these events set anew; watchers that are dropped.
- Correct if: no port is answered that has gone; the closest one is; a lost port is waited
  for; every upload is answered.

**Index update** (`commands/instances.go`, `internal/arduino/resources/index.go`).
- State: index and signature files, the server's versions, the temporary files of a job.
- Operations: UpdateIndex, UpdateLibrariesIndex, the first update of Init; download,
  verification, backup, replacement, rollback.
- Hard: two files replaced one after the other, in place and without a lock.
- Correct if: only published indexes get there; the pair belongs together; the report is
  true.

**Installation of libraries** (`commands/service_library_{install,upgrade,uninstall}.go`,
`internal/arduino/libraries/librariesmanager/install.go`).
- State: the libraries directory, the list of the LibrariesManager, the plan of a request.
- Operations: LibraryInstall with its dependencies, LibraryUpgrade, LibraryUpgradeAll,
  InstallZipLib, InstallGitLib, LibraryUninstall; RescanLibraries.
- Hard: several libraries in one request; directories named by the user, or by names that
  two libraries share; replacement by removal first.
- Correct if: no library is there twice; what is answered is there with all it needs; what
  is refused changes nothing; other libraries are kept.

### What is not modelled

| Component | Why |
|---|---|
| Loading of hardware, properties | sequential parsing into the packages tree; its result is in the modules above |
| Sketch preprocessing with ctags | text processing, which the repository's tests compare; a model would repeat it character by character |
| Sketches, profiles, FQBNs | parsing and formatting of single files, no state |
| Configuration | one map, one call at a time |
| gRPC transport, command line, feedback | a library, argument parsing and output; the generated code of `rpc/` has no behaviour of its own |
| Debug | starts a debugger and copies its streams |

More than a third of the Go code is generated (`rpc/`, the easyjson files). The hazards of every component, each at its line, are in `PROJECT.json`
("hazards"), with the properties that cover them or the reason why none does.

## Modules

| Module | Models |
|---|---|
| `RWMutex` | Go's `sync.RWMutex`: readers, an announced writer, readers parked behind it. External, from its documentation and its use. |
| `CoreInstance` | The handlers on one instance. `INSTANCE RWMutex` for both kinds of lock. |
| `PlatformInstall` | One platform installation or removal statement by statement, several at once: what `CoreInstance` has as the one step `PlatformWork` (and no library). That the two agree is not checked (see the plan). |
| `DiscoveryManager` | Discoveries, feed, watchers, clients. |
| `LibraryResolver` | ComputePriority as an operator, and the documented rules beside it. |
| `LibraryDetector` | The detection in builds, one after another, with their caches; each with its pre-runner. Extends `LibraryResolver`. |
| `SketchBuild` | Builds of one sketch in its build path, with kills, edits and a purge. Takes from the detection only which libraries are in use. |
| `MonitorSession` | What a Monitor call promises, abstractly. |
| `PluggableMonitor` | Handler, receiver, sender, decoder and tool. `INSTANCE MonitorSession`, which it implements. |
| `UploadPort` | The goroutine that follows the ports, beside the upload tool. Its feed is a watcher as `DiscoveryManager` provides it. |
| `IndexUpdate` | Updates of indexes, several at once. |
| `LibraryInstall` | The requests on the libraries directory, one at a time: what `CoreInstance` has as `LibraryWork`, which lets one in at a time. |
| `*_proofs` | The theorems about the module of that name, with the inductive invariants and the lemmas they rest on. `LibraryDetector_proofs` has also the theorem about `LibraryResolver`. |
| `Instances_proofs` | The theorems about `CoreInstance` and `IndexUpdate`: what the instances share, in memory and on disk. |
| `MC*` | Constants and symmetry for TLC. |

### CoreInstance: state and actions

A call is a process with a label `pc[c]` that runs handler `op[c]`. Its labels are the
points between which other goroutines can run: where a lock is waited for and where the
disk or a shared field is read or written.

| Action | Code |
|---|---|
| `Begin` | the first lines of a handler: `GetPackageManagerExplorer`, `GetLibraryManager`, or an `InvalidInstanceError` |
| `Explore` | the decision with the Explorer: what is installed, what to do |
| `FetchSecond`, `WantLm`, `LmLocked` | the libraries manager of a handler, `NewExplorer`/`NewInstaller`, granted |
| `DownloadDir` | LibraryInstall's Explorer for the download directory only |
| `LibraryWork` | `installLibrary`, `Uninstall`, the imports |
| `PlatformWork`, `Panic` | the platform functions; the panic of the patcher, which ends every call |
| `ReleaseLm`, `ReleasePm` | the deferred releases |
| `Load`, `WantPm`, `Commit` | `LoadHardware` into a Builder, `commitPackageManager` |
| `Reopen`, `Scan`, `Swap`, `ReleaseInit` | the rest of Init: Explorer, `lmb.Build`, `SetLibraryManager`, release |
| `Destroy` | `instances.Delete` |

A lock is taken in two steps (announce or park, then granted) because that is where Go's
RWMutex differs from a textbook one: a reader behind an announced writer waits although
only readers are in. The data is two small sets for platforms (on disk, in memory) and
two for libraries.

### PlatformInstall

`job[c]` holds the local variables of a call: the target, the tools still to do, the
release to be replaced, what is being uninstalled and why (`doing`), since one
uninstallation routine serves the replacement, the rollback, the removal asked for and
the tools. A *world* fixes which handlers are called, what may fail and how many calls
run at once. Faults: `fetch` (download, checksum, extraction), `move` (the new directory
is not renamed, and nothing of it is copied), `copy` (it is not renamed, and the copy stops
midway; nobody clears up), `keep` and `tear` (`RemoveAll` removes nothing, or a part, also
when it clears the way for a new directory), `kill`, `panic`. A kill within a removal or a
copy is its `tear` or `copy` followed by the kill.

What is in the directory of an item is `whole`, `torn` (a part that the loader takes for the
item: of a tool always, of a release if `boards.txt` is there), `debris` (no `boards.txt`), or
`broken`: a file is cut, the loader stops at it, counts the release as installed, and goes no
further through the releases of its platform (`Hides`, `loader.go:233`). Which releases it has
come by before depends on the directory, so `Loadable` is the set of all outcomes of an Init
or of a restart.

### DiscoveryManager

A discovery client is a *run*, `<<d, n>>`. `Report` is the discovery's output,
`Transfer` the goroutine that joins it into `feed`, `FeedEvent`/`Deliver`/`DropSlow`/
`CacheEvent` the feeder under `watchersMutex`, `BeginAdd`/`SendCached`/`EndAdd` the
goroutine of Watch, `Read`/`Identify`/`Send` the reader of BoardListWatch, `Close` the
callback. `BeginClear`, `Quit`, `Add`, `EndClear` are the part of Init that refills the
manager, during which Init has the package lock, so that a Watch cannot start and
`Identify` (which takes an Explorer) waits. The half second after which a slow watcher is
dropped is the choice `DropSlow`, possible whenever its feed is full. What a list of events
makes of a set of ports (`Apply`) is said port by port: the last event about it counts.

### LibraryDetector and LibraryResolver

A library has one header and one source; several libraries may have the same header.
`Attr[l]` is what the resolver sees of a library: how well name and directory match the
header, the architecture, the place. `Edit`s between builds change what a source includes
or delete a library's header. `Prerun`/`EndPrerun` are the attempt to run the compilations
of the cache ahead, `RunTask` its workers; `Pop`, `BeginCompile`, `UseCache`, `UseResult`,
`Preprocess`, `EndSource`, `AddLibrary`, `EndWrong`, `Unresolved`, `EndDetection` the
detection loop; `PreprocessSketch` what follows it. `dep[f]` and `ino` abstract the
modification times of the dependency file and the preprocessed sketch to what the code's
comparisons tell apart. `alternatives` is the resolver's list for a header, from which
`candidates.Remove` takes the library that was chosen, as both share their array.

### SketchBuild

A build runs `WipeBuildPath`, `CreateBuildOptions`, `PrepareSketch`, `FindIncludes`,
`RemoveLibraries`, then for each folder `BeginBuild`/`Feed`/`Take`/`Compiled`/`EndFolder`
(the pool of compileFiles), `LookUpCore`, `OpenArchive`/`Ar`, `ShareCore`, `Link`. Each
`Cut...` is what a kill in that step leaves; `ToolFailed`, `CompileFailed`, `ArFailed` end
the build. Between and during the steps sources, headers and `.txt` files are saved, and a
purge looks at a directory and later removes it. A time stamp is kept as the answer to the
question the code asks (is the object older than its source?).

`linked.sound` tells whether a kill or a save could have left something that the code takes
for good: `doubtful` (the wipe, the removal of objects or an archive was cut, or a file of the platform
was saved after the build had read it and before it wrote `build.options.json`, which is then
younger) and `touched` (a file was saved while it was being read). It is the list of the exceptions, each a hazard.

### PluggableMonitor and MonitorSession

`at[t]` is the command that the handler, the receiver or the sender is in; `SendCommand`, `Receive`
and `Timeout` are sendCommand and waitMessage, `Decode`/`DecoderEnds` the decoder and its
unbuffered channel, `Answer` is the tool, which answers from `stdin` to `stdout`. `MonitorSession` has a phase
of the call and of the process; the refinement mapping reads the phase off `at` and the
process off `proc`. It says what a client may rely on: one process, the success message only
once the port is open, no return before the process is gone.

### UploadPort

A tick is a second. During the upload the candidate follows the events (`phase = "upload"`),
after it the timeout runs (`"pick"`), and the answer is `"sent"`. Ports are equal by `Place`
(address and protocol); hardware ID, protocol and address make the priority. A watcher
that is dropped by the discovery manager is the choice `dropped`. The history variable
`compared` has the ports that have come since a candidate last went, which are the only ones
the code can still pick: a port that it passed over earlier is not looked at again.

### IndexUpdate

A job goes from `download` (and `signature`) to `verify`, `backup`, `copying`, `copySig` and
`commit`; a failure after the backup leads to the rollback. The server may publish at any
moment, and hand out something that is no index (`Garbled`), in an archive or outside one.
Copies are not atomic: the file is `Torn` while it is written, and stays so after a kill or a
failure. The history variable `spoiled` has the files that two requests wrote at once, and
those that one wrote only in part, until a request opens them again with nobody else writing;
what two leave is what one of them wrote or a mixture (`Written`).

### LibraryInstall

`Begin` resolves the dependencies (any answer the resolver may give), `Check` is
InstallPrerequisiteCheck for one library, `Download` the downloads of all, `RemoveOld` and
`Unpack` the installation of one, `Finish` the Init at the end. A failed step, or a kill,
ends the request with what is then on disk and in the list. Two libraries of one request may
go into one directory: both are checked before the first is unpacked, and the second then
removes the first.

## Runs

| Run | Checks | Instance | Why it is enough |
|---|---|---|---|
| `core_calls` | `TypeOK`, `LockInv`, `NoCommitUnderExplorer`, `LibrariesDirExclusive`, `UninstalledLibNotListed`, `NoDeadlockInOneOrder` | 3 calls, each any handler; LibraryInstall only with handlers that take one lock | a circle on two locks with a pending writer needs three calls; the theorems have any number |
| `core_live` | `EveryCallEnds` under weak fairness | 3 calls of the handlers that take both locks in one order, and Init | the same circle, and waits that do not end |
| `core_deadlock` | `NoDeadlock`, **violated** | LibraryInstall and LibraryList | two calls suffice |
| `install` | `InstallInv`, `ToolsKept`, `MemoryMatchesDisk`, `NoOrphanTools`, `KeepsThePlatformAlone` | 3 releases of a platform, 1 of another, 3 tools, one shared by two releases and one between the platforms; with and without a release of the sketchbook: no faults, failing downloads and moves, all faults; 2 calls | an upgrade, a downgrade, a shared and an unshared tool, a half release beside a whole one, two calls at once |
| `discovery` | `DiscoveryInv`, `WatcherInStep`, `CacheOfFirstRuns`; `AllComeThrough` under fairness | worlds of 2 watchers and a port that comes and goes; 1 watcher, 2 ports, a restart; 1 watcher, 3 ports | channels of 1 or 2 instead of 5, 10 and 51 fill up at once; a watcher of more ports than room |
| `detector` | `DetectorInv`, `NothingMissing`, `PreprocessedCurrentIfSound`; `BuildEnds` under fairness | sketch, 4 libraries (two with one header, one of the profile, one that may be wrong), a missing header, 3 builds, 2 edits | a build that fills the caches, one that spoils them, one that believes them; a header looked up again |
| `build` | `BuildInv`, `LinkedIsCurrent`, `FailsForAReason`; `BuildEnds` under fairness | a sketch, 2 libraries, a core of 3 files, 2 sets of options, 2 workers; 6 worlds of 2 or 3 builds with an edit and a kill, failing tools, a purge, all modes, a file of the platform saved during a build | two builds leave what the third believes; 3 files for 2 workers block the feeder |
| `monitor` | `MonitorInv`, `AppliedIsAccepted`; `EverybodyEnds`, `ImplementsSession` under fairness | 2 settings, a client that closes, leaves or stays, a tool that answers, refuses, is slow, crashes or loses the port | one setting before and one after the opening, with two closers |
| `upload` | `UploadInv`, `BestIsPicked`, `LostIsWaitedFor`; `AlwaysAnswered` under fairness | 4 ports (board, its bootloader in the same place, the board elsewhere, another board), up to 3 comings and goings | the port goes, comes back as the bootloader and then as the board |
| `index` | `IndexInv`, `PairMatches`, `ReportIsTrue` | 3 indexes (library index, default package index, one with a signature file), 3 versions, 2 requests in a row or at once, in 8 worlds | one update that fails after one that succeeded, or beside one; the server publishes in between; two writers of one file, with broken downloads |
| `index_rollback` | `SignatureRolledBack`, **violated** | one update of the library index, a copy that fails | |
| `libraries` | `LibraryInv`, `InstallsTheClosure`, `WhatIsThereIsKept`, `ListedIsThere`, `OthersAreKept` | 3 libraries, two of one directory name, 6 releases, dependencies on any or on one version, 7 contents of the directory, 2 or 3 requests | an upgrade that brings a dependency with it; an uninstallation in between |

`InstallInv`, `DiscoveryInv`, ... are the invariants of the modules: the type invariant and the
safety property that is most tied to it, each named and commented in the module.

Bounds: each module that has worlds names in `WorldsOK` what they bound (`requests`, `builds`,
`edits`, `cuts`, `fails`, `purges`, `events`, `changes`, `plugs`, `runs`); `MaxRuns`,
`MaxBuilds`, `MaxEdits`, `MaxVersion`, `EventCap`, `FeedCap`; a call of `CoreInstance` runs
once. Symmetry is used over interchangeable calls, only in runs without liveness. Deadlock
is checked in the runs of `CoreInstance` and `PlatformInstall`; where it is not, the system
stops because all clients are gone, the request has been answered or all that is allowed to
happen has happened.

Some properties exclude a behaviour the code does have, by name, so that the rest of the
claim stays checkable:
- `MayJam`: a new watcher of more ports than its buffer and reader can take keeps
  `watchersMutex`, as long as its client does not read.
- `Abandoned`: a cancelled build that waits for a task which no worker will take.
- `NoDeadlockInOneOrder` says "unless LibraryInstall runs beside a handler that takes the
  locks the other way round", and `core_deadlock` shows that the exception is needed.
- `LibrariesDirExclusive` and `UninstalledLibNotListed` hold as long as no call runs Init:
  its swap of the manager lets a second installer in.
- `Alone` in `PlatformInstall` and `IndexUpdate`: two calls at once do break these
  properties; what holds with them is in the others. `MemoryMatchesDisk` excludes them only
  beside `move`: one call may fail to place what another has just installed.
- `Faults \subseteq {"fetch", "move"}` in `ToolsKept`: after a removal, a copy or a call that
  ends in the middle, half a tool or a second release counts as installed.
- `copy` in the second part of `MemoryMatchesDisk`, `tear` and `copy` in the third: a release
  with a cut file may hide others of its platform; a part of a directory is there.
- `Whole` in `OnlyPublished`: a file that is being written, or that is `spoiled`.
- `compared` in `BestIsPicked`: a port that was passed over before the candidate went is not
  looked at again.
- A failed copy of the core in `FailsForAReason`: it is only logged, and leaves half a core to
  later builds, with no kill.
- `linked.sound` in `LinkedIsCurrent` (see `SketchBuild` above), `sound` in
  `PreprocessedCurrentIfSound`, `damaged` in `PairMatches` and `ReportIsTrue`.
- `timeouts = 0` in `AppliedIsAccepted` and for the decoder in `EverybodyEnds`: a late answer
  is taken for that of the next command, and a late message keeps the decoder. `~Crossing` in
  `AppliedIsAccepted`: while the handler closes the port beside the receiver, each may get the
  other's answer.
- `Collide` in `InstallsTheClosure` and `WhatIsThereIsKept`: two libraries of a request that
  share a directory, of which the second removes the first.
- `Manual = {}` in `NoOrphanTools`: an installation beside a release of the sketchbook cannot
  replace it, rolls back, and leaves its tools.
- `debris` in `KeepsPlatform`: what an earlier call has half removed is no platform to keep,
  and is gone if the call is cut before the new one is in place.
- `~WorksOn` in `ReportIsTrue`: a URL that is listed twice is updated a second time after it
  has been reported.
- `CacheOfFirstRuns` is about discoveries that have been started once: see the findings.
- `world.fails = {}` in `ListedIsThere`: see `librariesmanager/install.go:146` among the hazards.

### Fairness

A goroutine that can run is eventually scheduled, so each action of the program gets
weak fairness: per call in `CoreInstance` (`RWMutex` parks and wakes, so a granted call
stays enabled), per goroutine in `DiscoveryManager`, and for the build's goroutine and
its workers in `LibraryDetector`. `watchersMutex` is a plain mutex that others can take
again and again; `sync.Mutex` hands itself to a waiter after a millisecond (starvation
mode), hence strong fairness of `BeginAdd` and `Close`. `Identify` waits for the package
lock in the same way. Nothing is assumed of the environment: clients, ports, discoveries
and cancellations may or may not happen, and a reader whose client is gone stays blocked.

`SketchBuild` has weak fairness of the build's own steps and of the compilers, which end.
`PluggableMonitor` has it of each goroutine with its timeouts, and of the decoder; a tool that
is not `slow` answers, one that is need not, and the client need not do anything.
`UploadPort` has it of detectUploadPort with its clock, of runProgramAction and of the upload
tool, which ends or fails, not of the ports. The bound on their comings and goings (`events`)
matters to `AlwaysAnswered`: a better port that came again and again, each time within the
second that the last one had left, would put off the answer for ever.

## Proofs

Each proof module states an inductive invariant, proves that Init gives it and that every
action keeps it, one lemma for each conjunct and one case for each action, and draws the
properties of the runs from it. TLC has checked each inductive invariant on the instance of
the run first.

### CoreInstance

In `Instances_proofs`, for any sets of calls, handlers, libraries and releases that satisfy `ConstantsOK` and
`MixesOK`:

| Theorem | Property |
|---|---|
| `TypeCorrect` | `TypeOK` |
| `LockInvariant` | `LockInv`: a lock is held exactly by the calls whose control state says so |
| `ExplorerExcludesCommit` | `NoCommitUnderExplorer` |
| `InstallersExclude` | `OneInstallerPerManager` |
| `LibrariesDirExclusion` | `LibrariesDirExclusive` |
| `UninstalledNotListed` | `UninstalledLibNotListed` |
| `OrderedCallsMove` | `NoDeadlockInOneOrder` |

The argument. The exclusion properties speak of control states (`pc`), the locks of sets
of readers and a writer: neither is inductive alone. `LockInv` ties them: `PmLockOK` and
`LmLockOK` say, for each call and lock, that the call is in (or parked at) the lock iff
its label is one of those between the request and the release (`PmReader`, `LmReader`,
`LmWriter`), `ParkedOK` that only an announced writer parks anybody and nobody is both in
and parked, `ControlOK` which handlers reach which labels, without which a release could
not be matched with its request. `IInv == TypeOK /\ LockInv` is inductive: one lemma for
each conjunct, one case for each action. That a writer which has passed `lockLm` has no
readers beside it (the last conjunct of `LmLockOK`) is what makes the write lock
exclusive.

`LibrariesDirExclusion` adds `FirstManagerOnly`: without Init, nobody ever swaps the
manager, so all calls share one. For `OrderedCallsMove` suppose all unfinished calls are
parked. A call parked at the libraries lock waits for the writer of it, which has it or
waits for a reader to leave; whoever holds it is past its request and, unless it is
LibraryInstall, waits for nothing (`LmWriterMoves`, `LmCallMoves`). So only calls at the
package lock remain; its writer is at `commit` and has nothing else to wait for
(`PmWriterMoves`), and with no writer nobody is parked.

Assumptions: `ConstantsOK` (calls, managers and the package lock are different things,
releases are positive numbers) and `MixesOK` (handlers are handlers). TLC evaluates both
in every run of `MCCoreInstance`.

### PlatformInstall

For any releases, tools, calls and faults that satisfy `ReleasesOK` (releases are positive
numbers and finitely many, none of them a tool):

| Theorem | Property |
|---|---|
| `InstallInvariant` | `InstallationInv`, the inductive invariant |
| `InstallIsRight` | `InstallInv` |
| `SketchbookIsKept` | `ManualKept` |
| `MemoryIsRight` | `MemoryMatchesDisk` |
| `PlatformIsKept` | `KeepsThePlatformAlone`, an action property |
| `ToolsAreKept` | `ToolsKept` |
| `NoToolIsOrphaned` | `NoOrphanTools` |

The properties hold under more and more restricted faults, and so the invariant is a chain.
`SafeInv` needs nothing: where a call is tells what its job may hold (`JobOK`), above all that
nothing of the sketchbook is its victim. `AloneInv`, for one call at a time, says what the call
has replaced and has still to remove; its `Known` is what memory knows of the disk: what is
installed is there, at least a part of it, and, unless half a copy may hide it from the loader,
what is whole is installed. `OrderlyInv`, when only downloads and moves fail (and leave no part
of a directory), is what `ToolsKept` needs between two statements: every
managed release in place has its tools, except the one that is just being replaced, and a
tool about to be removed is required by nothing. `SmoothInv` is the converse for
`NoOrphanTools`: a tool in place is required, or on the list of the running call.

### PluggableMonitor

For any settings, and any tool, client and failures of `WorldsOK`: `CallInvariant` (the
inductive `CallInv`), `MonitorIsSafe` (`MonitorInv`), `AppliedOnlyIfAccepted`
(`AppliedIsAccepted`) and `MonitorImplementsSession` (`ImplementsSession`): the initial states
map to those of `MonitorSession`, and each of its steps to a step of the session or a stutter.
The properties speak of the handler and of the client; `CallInv` relates them to what is under
way between them. Which thread waits for which command, and what is in the pipes, in the
decoder and in the channel, must agree as long as nothing has timed out: one message at most,
and of the command that is waited for. Without that the receiver could take an old answer
for a new one, which is what it does after a timeout. `CloserInv` counts the CLOSE commands
that have been sent and that may still be, when nothing fails.

### IndexUpdate

In `Instances_proofs`, for any indexes, versions, requests and failures of `IndexesOK` and `WorldsOK`:
`IndexIsPublished` (`IndexInv`, with any number of requests at once), `UpdateInvariant` (the
inductive `UpdateInv`), `FilesArePairs` (`PairMatches`), `ReportTellsTheTruth` (`ReportIsTrue`).
`SafeInv` says what a request has in hand at each step: what it has verified is a version and
its signature, what it has saved is no garbage; so the rollback puts back nothing worse. Why
whole files are published ones: a step leaves a file as it is (`SameFiles`), or opens it, and
then it is being written (`OpensAlone`: whoever opens a file that another one is writing spoils
it), or closes it, with a published version or with what is known to be spoiled (`LeadsFile`).
`AloneInv` adds, for the only request, what the files of the index it is at are: those from
before, or torn, or half of the new pair; and for every index it has reported, that the report
is still true, which it needs to know when the next update fails.

### LibraryInstall

For any libraries, directories, dependencies, contents and failures of `LibrariesOK` and
`WorldsOK`:

| Theorem | Property |
|---|---|
| `RequestInvariant` | `RequestInv`, the inductive invariant |
| `NeverTwice` | `LibraryInv` |
| `OthersStay` | `OthersAreKept`, an action property |
| `ClosureIsInstalled` | `InstallsTheClosure` |
| `NothingIsLost` | `WhatIsThereIsKept` |
| `NoGhosts` | `ListedIsThere` |

All libraries of a request are checked before the first directory is touched, and never again:
the invariant says why the plan stays right. `DiskOK` says that the directories of what is
still to be installed are as they were when the request was checked, but for what an earlier
item of the plan has put there; `OneEach` (no library is twice on the disk) then follows for the
next item from the check. `ApartInv`, unless two libraries collide, says of each checked release
that it is in place or still in the plan; `ListInv`, when nothing fails, that the list is never
ahead of the directories.

### DiscoveryManager

For any discoveries, ports, watchers and channels of `CapsOK`: `ManagerInvariant` (the
inductive `ManagerInv`), `NothingToClosed` (`DiscoveryInv`), `WatchersInStep`
(`WatcherInStep`), `CacheIsTrue` (`CacheOfFirstRuns`). `LockOK` says who has `watchersMutex` and
to whom it can still be sending: only to registered watchers, or to the one that is being added,
none of which can be closed meanwhile. `StepOK` is `WatcherInStep` while an event is on its way:
for each port, a watcher knows what the cache is about to say, or an event about that port
is still to be sent to it. `FlowOK` follows a port from the discovery to the cache: what a
discovery started once has reported is what the cache, the feed and its own channel make
together, in this order. The events of other discoveries in the feed do not matter,
which is why `Apply` is defined port by port.

### UploadPort

For any ports in any places, and any comings and goings of `WorldsOK`: `DetectionInvariant`
(the inductive `DetectInv`), `NoGhostIsAnswered` (`UploadInv`), `ClosestIsPicked`
(`BestIsPicked`: the candidate is the maximum of `compared`, which a new event extends and the
loss of the candidate empties, as it does the candidate), `LossIsWaitedFor` (`LostIsWaitedFor`).
`FeedOK` strengthens `NoGhost` to the
feed: of a port that has come and is not there any more, the removal follows its event.
`WaitOK` says how the timer stands as long as at most one port has come or gone: no event of
the feed can give another candidate, as none is closer than the user's port itself, so that
the elapsed and the remaining time make the long time.

### SketchBuild

For any sources, libraries, options, number of compilers, and any builds, edits, kills, failing
tools and purges of `WorldsOK`, `ConstantsOK` and `NoneOK` (None and Damaged are none of the
things that they stand in for; TLC evaluates all three in the run `build`):

| Theorem | Property |
|---|---|
| `BuildIsSafe` | `BuildInv` |
| `BuildFailsForAReason` | `FailsForAReason` |
| `BuildLinksWhatIsCurrent` | `LinkedIsCurrent` |

Three invariants, each on top of `BaseInv`, the types with what the pool of compileFiles holds
at each step (`PoolInv`: the sources of a folder are still to do, offered, with a compiler, or
done; after an error at most the one that the feeder had in hand comes late).

`ReasonInv` follows what a build may find missing or cut. `Present`: what the running build has
made is there when it is used, unless another process removed it. `CutInv`: what a kill has cut,
or a copy of the core that failed, is seen only by a build that did not begin with a wipe.

`LinkInv` says why what is linked is current although the code never looks at the contents of a
file. The argument goes from the sources to the result. `VersionsInv`: while a build runs,
sources only get newer. `MainInv`: an object that counts as newer than the copy of the sketch
is of that copy; it needs no more, whatever else is doubtful. `PathInv`, as long as the build
path can be trusted (it is not `doubtful`, and nothing was saved while it was read): an object
whose dependency file says "unchanged" is of its sources, and was made with the options that
`build.options.json` names and the include folders that `libraries.cache` names; the wipe and the
removal of objects, which come before those two files are written, keep this. `ArchiveInv`: the
parts of `core.a` are the objects it is newer than. `CacheInv`: so are the parts of a core
in the shared cache, which has the options in its key. Then the three ways into the link (the
objects of the build path, its archive, an archive of the cache) are one case each.

### LibraryResolver

`LibraryDetector_proofs` proves `PriorityIsTheRules`: for any two libraries, the sum that
ComputePriority makes of the criteria is greater for one of them iff the documented rules,
"one by one in this order, until a rule determines a winner", name it. The proof is by the
range of each bonus: each is smaller than the step of the criterion before it. The library that
the detection ends up with depends also on the list that the lookups change, which
`ChosenByTheRules` (in `DetectorInv`, below) follows.

### LibraryDetector

For any libraries, headers, sources and contents of `ConstantsOK`, any number of builds and of
edits between them, and any schedule of the pre-runner:

| Theorem | Property |
|---|---|
| `DetectionIsSound` | `DetectionInv`, the inductive invariant |
| `DetectorIsRight` | `DetectorInv` |
| `NothingIsMissing` | `NothingMissing` |
| `PreprocessedIsCurrent` | `PreprocessedCurrentIfSound` |

What has to be shown is that a detection which believes a cache ends where one from nothing
would. The cache has no proof of itself in it: its entries were made by an earlier build, with
other contents, and are met again or cut off one by one. The invariant is in four groups.

*The cache.* `CacheIsAPath`: the cache, of this build or of the next, is the trace of one
detection: the include paths of its compilations begin with those before them and with the
profile's, and a source is done with after the answer "nothing is missing". `OnThePath`: this
holds across the place where the build stands, of what has been met again before it and of what
is still ahead. `MissingOK`: what an entry says is missing was missing with its path.

*The answers.* `FreshOK` is what makes reuse sound. An entry that says "nothing is missing"
for a source whose dependency file is not older than anything is *enough*: its path has all the
headers of the source, and the dependency file names the libraries that any longer path would
give it, because the first folder of a path that has a header is also the first one of each path
that continues it (`MoreIsEnough`). `UnusedCanGo` is the other half: a library that the dependency file does
not name can lose its header without a difference.

*The pre-runner.* It overwrites dependency files for paths that the detection has not come to
and may never come to. `TasksOK` says that every task in its queue or behind it, of a source
with an answer, has a path on the same line: it is a beginning of the answer's or continues it.
So whichever of two tasks of a source ran last, they agree (`SameUse`).

*The result.* `FoundOK`: the path is what is staged of the profile and what is imported.
`QueueOK`: what has been found is queued, at hand, or processed. `UsedOK`: what is processed uses
imported libraries only, though the path grows behind its back and the dependency file that was
believed may be from an earlier build. With an empty queue this is `NothingMissing`. `SketchOK`:
unless a build has failed, a preprocessed sketch older than a header goes with a dependency file
that is not up to date, so that looking at the latter *before* the pre-runner begins is enough.

### What stays with TLC

Every liveness property (`EveryCallEnds`, `AllComeThrough`, `BuildEnds` twice, `EverybodyEnds`,
`AlwaysAnswered`): liveness under fairness and ENABLED are out of the prover's reach. The
refinement of `MonitorSession` is proved for its safety part, which is all it has. What a
recursive function or a fold computes for every input would need induction over data,
which no backend supports; the modules define their operators by quantification instead
(`LibraryDetector!Expect`, `DiscoveryManager!Apply`). Every other property of a passing run is
a theorem.

## Findings

What a comment or document of the repository says and the code does not do, with a
counterexample in a run:

- `core_deadlock`: LibraryInstall runs Init with the libraries Installer held
  (`commands/service_library_install.go:96`) and waits for the package lock; LibraryList
  holds that and waits for the Installer. Both hang, and every later call with them.
- `index_rollback`: the backup of the old signature tests the path of the copy
  (`internal/arduino/resources/index.go:172`), which does not exist, so it is never made.

Met while modelling; the models have them, and the properties exclude them by name:

- Init reads the hardware under no lock (`commands/instances.go:213`) and commits it later;
  a platform removed in between stays in memory.
- `PatchPlatformForAndroid` begins with a `panic` (`internal/android/patcher.go:15`): no
  platform installation comes to its end.
- `IsToolRequired` asks only the newest installed release of each platform
  (`install_uninstall.go:407`).
- A second installation of one release takes it for the old one and uninstalls it
  (`install_uninstall.go:80`).
- The stop event of the old run of a discovery can come after the ports of the new one and
  empties the cache (`discoverymanager.go:257`).
- The dependency file says "unchanged" for a sketch that was never preprocessed since its
  header changed, when the build failed in between (`preprocess_sketch.go:42`).
- A file of the platform that is saved after a build has read it, and before the build writes
  `build.options.json`, counts as seen: the next build keeps the objects made without it
  (`build_options_manager.go:161`).
- The key of the shared core has the FQBN and the optimization flags only: other overridden
  build properties do not reach a core that is taken from the cache (`core.go:88`).
- The hardware ID of the candidate port is compared with itself
  (`commands/service_upload.go:693`): any new port shortens the wait to a second.
- While the handler closes the port because the client has gone or the port has failed, the
  receiver may still configure it; each takes the next message for its own, and the client can
  be told of a setting that the tool has refused (`commands/service_monitor.go`;
  `rpc/cc/arduino/cli/commands/v1/monitor.proto:60`: "Settings applied to the port").
- An installation beside a release in the sketchbook fails to replace it and rolls back, but
  not its tools (`install_uninstall.go`).
- A platform directory that was half removed is still replaced as if it were a platform; a kill
  before the new one is in place leaves nothing.
- When a new directory can neither be renamed nor copied completely, what was copied stays
  (`resources/install.go:103`): the next Init takes half a tool, or half a platform, for
  installed, and no installation repairs it.
- The loader stops at a release with a file that it cannot read, and the other releases of the
  platform are not loaded (`packagemanager/loader.go:233`).
- A copy of `core.a` into the shared cache that fails is only logged (`builder/core.go:161`):
  what it has written stays, is newer than the core, and is taken by later builds.
- When the candidate port goes, a port that came before and was passed over is not reconsidered,
  though it is there: if no other comes the answer is the user's port (`service_upload.go:652`).
- Two updates at once may leave a mixture of two files, or an index with the signature of
  another version (`resources/index.go:178`).
- An index URL that is configured twice is updated twice in one request (`commands/instances.go`).
- Two libraries of one request whose names make one directory name: the second replaces the
  first, and the request succeeds (`librariesmanager/install.go`).
- `libraries_location.go:30` lists the locations "in ascending order of priority" with the
  referenced platform after the platform; ComputePriority and the documentation have them the
  other way round. `docs/sketch-build-process.md:66` speaks of the folder's name where the
  code compares the library's.

## Abstractions

- One core instance, one platform in `CoreInstance` (two in `PlatformInstall`), at most
  one library that a platform depends on.
- Text, archives, versions: model values and small numbers. Formatting, progress
  callbacks and logs are left out; a progress callback may block on a client, which is
  modelled only where it is under `watchersMutex`.
- Data races inside a step (fields of one release under a shared read lock) are steps of
  the model; which word of memory a racing read returns is not.
- `CoreInstance` leaves out profiles and the first-time index update of Init (which
  `IndexUpdate` has); `PlatformInstall` the post-install scripts (not the checks around them),
  and a kill while `installed.json` is written.
- `LibraryDetector`: precompiled libraries, `--only-compilation-database`, the reuse of
  `libraries.cache` without detection, and a process that is killed. The choice of the
  closest match among libraries of equal priority is any of them. The core and the variant
  are always in the path.
- `SketchBuild`: two builds in one build path at once (nothing in the code excludes them),
  precompiled libraries and merged objects (`objs.a`), the size and the export of the
  result, and a failure (not a kill) of the program's own writes other than the copy of the core. A purge looks at the directories of this sketch.
- `PluggableMonitor`: the bytes that go through the port, and the terminal of the command
  line.
- `UploadPort`: the recipes and their properties, the 1200 bps touch, burning a bootloader.
- `IndexUpdate`: `file:` URLs, and loading the index into an instance.
- `LibraryInstall`: the user's directory only, no staging cache; requests run one at a time,
  as the Installer makes them (`CoreInstance`); a library without a version is different from
  any version.

## Plan

Done: all modules above, and the proofs of every invariant and action property that a passing
run checks, with the refinement of `MonitorSession`.

1. A refinement of `PlatformInstall` to an abstract platform store (installed releases and
   tools change at one step per call, when calls run one by one), which is the step
   `CoreInstance!PlatformWork`; likewise `LibraryInstall` and `LibraryWork`.
2. Two builds in one build path, and the kill of a detection.
