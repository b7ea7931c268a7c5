----------------------------- MODULE CoreInstance -----------------------------
(***************************************************************************)
(* The RPC handlers of the daemon that share one core instance: the        *)
(* instances map entry (commands/internal/instances), the PackageManager   *)
(* behind packagesLock, and the LibrariesManager behind librariesLock,     *)
(* which every Init replaces with a new object.  A call takes its locks,   *)
(* changes the disk and the in-memory views, and most calls that change    *)
(* something run Init at their end.  One call is one process and runs      *)
(* once; op[c] is the handler it runs.  The manager object that the Init   *)
(* of call c builds is named c.                                            *)
(***************************************************************************)
EXTENDS Integers, FiniteSets

CONSTANTS Calls,       \* the RPC calls in flight
          Mixes,       \* the handlers they may run: the mix is one of these sets
          Libs,        \* libraries of the user libraries directory
          PlatformLibs,\* the library the platform depends on, as a set of at most one
          Releases,    \* releases of the one platform, a set of numbers
          PatchOutcomes, \* what PatchPlatformForAndroid does: "panic", "return"
          PM,          \* packagesLock
          FirstLm,     \* the empty LibrariesManager made by Create
          Nobody

ASSUME ConstantsOK == /\ PlatformLibs \subseteq Libs
                      /\ Releases \subseteq Nat \ {0}
                      /\ PatchOutcomes \subseteq {"panic", "return"}
                      /\ Nobody \notin Calls
                      /\ PM \notin Calls /\ FirstLm \notin Calls /\ PM # FirstLm

Managers == Calls \cup {FirstLm}
Locks    == Managers \cup {PM}

PlatformOps  == {"PlatformInstall", "PlatformUpgrade", "PlatformUninstall"}
ExplorerOps  == PlatformOps \cup {"LibraryList", "Explore"}    \* begin with a package manager Explorer
PmThenLmOps  == {"LibraryList", "PlatformInstall", "PlatformUpgrade"} \* lock both managers
InstallerOps == {"LibraryInstall", "LibraryUninstall", "ImportLibrary"} \* begin with a libraries Installer
InitOps      == PlatformOps \cup {"Init", "LibraryInstall"}             \* end with an Init
Ops          == ExplorerOps \cup InstallerOps \cup {"Init", "Destroy"}

ASSUME MixesOK == UNION Mixes \subseteq Ops

VARIABLES op, pc,
          readers, waiting, writer, \* the mutexes (RWMutex)
          valid,      \* the instance is in the instances map
          currentLm,  \* instances[id].lm
          lm,         \* lm[c]: the LibrariesManager call c has fetched
          target,     \* target[c]: the platform release call c works on, 0 if none
          failed,     \* failed[c]: the call returns an error
          onDisk,     \* installed releases of the platform
          known,      \* releases the PackageManager believes installed (InstallDir set)
          loaded,     \* loaded[c]: releases the Builder of c's Init read from disk
          libsOnDisk, \* installed libraries
          knownLibs   \* knownLibs[m]: libraries manager m lists

INSTANCE RWMutex

lockVars == <<readers, waiting, writer>>
dataVars == <<valid, currentLm, lm, target, failed, onDisk, known, loaded, libsOnDisk, knownLibs>>
diskVars == <<onDisk, known, libsOnDisk, knownLibs>>
vars == <<op, pc, readers, waiting, writer, dataVars>>

-----------------------------------------------------------------------------
\* The newest of a set of releases, as a set of at most one: of those known as
\* installed it is GetInstalledPlatformRelease, of all GetLatestCompatibleRelease.
Best(S) == {r \in S : \A x \in S : x <= r}

Goto(c, l) == pc' = [pc EXCEPT ![c] = l] /\ UNCHANGED op
Fail(c)    == failed' = [failed EXCEPT ![c] = TRUE]

\* instances.GetLibraryManager: the pointer is copied out of the map entry.
FetchLm(c) == lm' = [lm EXCEPT ![c] = currentLm]

Init ==
    /\ \E mix \in Mixes : op \in [Calls -> mix]
    /\ pc = [c \in Calls |-> "call"]
    /\ LockInit
    /\ valid = TRUE
    /\ currentLm = FirstLm
    /\ lm = [c \in Calls |-> FirstLm]
    /\ target = [c \in Calls |-> 0]
    /\ failed = [c \in Calls |-> FALSE]
    \* The instance has been initialised: its views are those of the disk.
    /\ onDisk \in {S \in SUBSET Releases : Cardinality(S) <= 1}
    /\ known = onDisk
    /\ loaded = [c \in Calls |-> {}]
    /\ libsOnDisk \in SUBSET Libs
    /\ knownLibs = [m \in Managers |-> IF m = FirstLm THEN libsOnDisk ELSE {}]

-----------------------------------------------------------------------------
\* A handler starts.  An unknown instance is an InvalidInstanceError.
Begin(c) ==
    /\ pc[c] = "call" /\ op[c] # "Destroy"
    /\ \/ /\ op[c] \in ExplorerOps /\ valid
          /\ RLock(PM, c)
          /\ Goto(c, "explore")
          /\ UNCHANGED <<lm, failed>>
       \/ /\ op[c] \in InstallerOps /\ valid
          /\ FetchLm(c)
          /\ Goto(c, "wantLm")
          /\ UNCHANGED <<lockVars, failed>>
       \/ /\ op[c] = "Init"
          /\ Goto(c, "load")
          /\ UNCHANGED <<lockVars, lm, failed>>
       \/ /\ op[c] # "Init" /\ ~valid
          /\ Fail(c)
          /\ Goto(c, "done")
          /\ UNCHANGED <<lockVars, lm>>
    /\ UNCHANGED <<valid, currentLm, target, loaded, diskVars>>

\* instances.Delete removes the entry; calls in flight keep their pointers.
Destroy(c) ==
    /\ pc[c] = "call" /\ op[c] = "Destroy"
    /\ valid' = FALSE
    /\ failed' = [failed EXCEPT ![c] = ~valid]
    /\ Goto(c, "done")
    /\ UNCHANGED <<lockVars, currentLm, lm, target, loaded, diskVars>>

\* With the Explorer, a handler looks up what is installed and decides what to
\* do: nothing more, work on target[c], or go on to the libraries manager.
Decide(c, r, l) == target' = [target EXCEPT ![c] = r] /\ Goto(c, l) /\ UNCHANGED failed

Explore(c) ==
    /\ pc[c] = "explore" /\ HoldsRead(PM, c)
    /\ \/ op[c] = "Explore" /\ Decide(c, 0, "releasePm")
       \/ op[c] = "LibraryList" /\ Decide(c, 0, "fetchLm")
       \/ /\ op[c] = "PlatformInstall"
          /\ \E r \in Releases : Decide(c, r, IF r \in known THEN "releasePm" ELSE "fetchLm")
       \/ /\ op[c] = "PlatformUpgrade"
          /\ \E r \in Best(Releases), i \in Best(known) : r > i /\ Decide(c, r, "platformWork")
       \/ /\ op[c] = "PlatformUninstall"
          /\ \E r \in Best(known) : Decide(c, r, "platformWork")
       \/ /\ \/ op[c] = "PlatformUninstall" /\ Best(known) = {}
             \/ /\ op[c] = "PlatformUpgrade"
                /\ \A r \in Best(Releases), i \in Best(known) : r <= i
          /\ Fail(c)
          /\ Goto(c, "releasePm")
          /\ UNCHANGED target
    /\ UNCHANGED <<lockVars, valid, currentLm, lm, loaded, diskVars>>

\* Mutant: the handler gives its Explorer back as soon as it has looked up.
FetchSecondReleasing(c) ==
    /\ pc[c] = "fetchLm"
    /\ \/ valid  /\ FetchLm(c) /\ Goto(c, "wantLm") /\ UNCHANGED failed
       \/ ~valid /\ Fail(c) /\ Goto(c, "releasePm") /\ UNCHANGED lm
    /\ RUnlock(PM, c)
    /\ UNCHANGED <<valid, currentLm, target, loaded, diskVars>>

\* The libraries manager of a handler that already holds the Explorer.
FetchSecond(c) ==
    /\ pc[c] = "fetchLm"
    /\ \/ valid  /\ FetchLm(c) /\ Goto(c, "wantLm") /\ UNCHANGED failed
       \/ ~valid /\ Fail(c) /\ Goto(c, "releasePm") /\ UNCHANGED lm
    /\ UNCHANGED <<lockVars, valid, currentLm, target, loaded, diskVars>>

\* Mutant: an import works on the manager itself, without its Installer.
WantLmUnlocked(c) ==
    /\ pc[c] = "wantLm"
    /\ \/ op[c] = "ImportLibrary" /\ Goto(c, "libraryWork") /\ UNCHANGED lockVars
       \/ op[c] = "LibraryList" /\ RLock(lm[c], c) /\ Goto(c, "lockLm")
       \/ op[c] \notin {"ImportLibrary", "LibraryList"} /\ Lock(lm[c], c) /\ Goto(c, "lockLm")
    /\ UNCHANGED dataVars

\* lm.NewExplorer or lm.NewInstaller on the manager fetched before, whatever
\* the instance's manager is by now.
WantLm(c) ==
    /\ pc[c] = "wantLm"
    /\ IF op[c] = "LibraryList" THEN RLock(lm[c], c) ELSE Lock(lm[c], c)
    /\ Goto(c, "lockLm")
    /\ UNCHANGED dataVars

\* The libraries lock is granted.  LibraryInstall now takes the package
\* manager's lock too, only to read its download directory.
LmLocked(c) ==
    /\ pc[c] = "lockLm"
    /\ IF op[c] = "LibraryList" THEN HoldsRead(lm[c], c) ELSE HoldsWrite(lm[c], c)
    /\ \/ /\ op[c] = "LibraryList"
          /\ Goto(c, "releaseLm")
          /\ UNCHANGED <<lockVars, failed>>
       \/ /\ op[c] = "LibraryInstall" /\ valid
          /\ RLock(PM, c)
          /\ Goto(c, "downloadDir")
          /\ UNCHANGED failed
       \/ /\ op[c] = "LibraryInstall" /\ ~valid
          /\ Fail(c)
          /\ Goto(c, "releaseLm")
          /\ UNCHANGED lockVars
       \/ /\ op[c] \notin {"LibraryList", "LibraryInstall"}
          /\ Goto(c, "libraryWork")
          /\ UNCHANGED <<lockVars, failed>>
    /\ UNCHANGED <<valid, currentLm, lm, target, loaded, diskVars>>

DownloadDir(c) ==
    /\ pc[c] = "downloadDir" /\ HoldsRead(PM, c)
    /\ RUnlock(PM, c)
    /\ Goto(c, "libraryWork")
    /\ UNCHANGED dataVars

-----------------------------------------------------------------------------
\* The installation of the libraries L (none or one) through manager m.  The
\* manager rescans the disk, a replaced library (R) is removed, the new one is
\* put in place and not added to the manager's list.
InstallLibs(L, m) ==
    /\ libsOnDisk' = libsOnDisk \cup L
    /\ \E R \in SUBSET (L \cap libsOnDisk) :
           knownLibs' = [knownLibs EXCEPT ![m] = IF L = {} THEN @ ELSE libsOnDisk \ R]
    /\ UNCHANGED failed

\* It may fail before it changed anything, or when the old one is gone.
FailedInstallLibs(c, L, m) ==
    /\ L # {}
    /\ \E R \in SUBSET (L \cap libsOnDisk) :
           /\ libsOnDisk' = libsOnDisk \ R
           /\ knownLibs' = [knownLibs EXCEPT ![m] = libsOnDisk \ R]
    /\ Fail(c)

\* Mutant: the uninstalled library stays in the manager's list.
UninstallLibListed(l, m) ==
    /\ libsOnDisk' = IF l \in knownLibs[m] THEN libsOnDisk \ {l} ELSE libsOnDisk
    /\ UNCHANGED <<knownLibs, failed>>

\* lmi.Uninstall, of a library the manager lists.
UninstallLib(l, m) ==
    /\ IF l \in knownLibs[m]
       THEN /\ libsOnDisk' = libsOnDisk \ {l}
            /\ knownLibs' = [knownLibs EXCEPT ![m] = @ \ {l}]
       ELSE UNCHANGED <<libsOnDisk, knownLibs>>
    /\ UNCHANGED failed

\* The work done under the libraries lock.  A platform's library is installed
\* if the manager does not list it, or lists an older version of it.
LibraryWork(c) ==
    /\ pc[c] = "libraryWork"
    /\ \/ /\ op[c] \in {"LibraryInstall", "ImportLibrary"}
          /\ \E l \in Libs : InstallLibs({l}, lm[c]) \/ FailedInstallLibs(c, {l}, lm[c])
       \/ /\ op[c] \in {"PlatformInstall", "PlatformUpgrade"}
          /\ \E L \in SUBSET PlatformLibs :
                /\ PlatformLibs \ knownLibs[lm[c]] \subseteq L
                /\ InstallLibs(L, lm[c]) \/ FailedInstallLibs(c, L, lm[c])
       \/ op[c] = "LibraryUninstall" /\ \E l \in Libs : UninstallLib(l, lm[c])
    /\ Goto(c, IF failed'[c] THEN "releaseLm" ELSE
               CASE op[c] = "PlatformInstall" -> "platformWork"
                 [] op[c] = "LibraryInstall"  -> "load"
                 [] OTHER                     -> "releaseLm")
    /\ UNCHANGED <<lockVars, valid, currentLm, lm, target, loaded, onDisk, known>>

\* DownloadAndInstallPlatformAndTools: the new release is installed, then the
\* one known as installed is removed.  It may fail before it changed anything
\* or between the two.  (PlatformInstall has the steps one by one.)
InstallRelease(c) ==
    LET r   == target[c]
        old == Best(known) \ {r}
    IN  \/ /\ "return" \in PatchOutcomes
           /\ onDisk' = (onDisk \cup {r}) \ old
           /\ known'  = (known \cup {r}) \ old
           /\ UNCHANGED failed
        \/ /\ "return" \in PatchOutcomes
           /\ onDisk' = onDisk \cup {r}
           /\ known'  = known \cup {r}
           /\ Fail(c)
        \/ /\ UNCHANGED <<onDisk, known>>
           /\ Fail(c)

\* PatchPlatformForAndroid, called once the new files are in place, panics and
\* no handler recovers: the process ends, and every call in flight with it.
Panic(c) ==
    /\ "panic" \in PatchOutcomes
    /\ pc[c] = "platformWork" /\ op[c] # "PlatformUninstall"
    /\ onDisk' = onDisk \cup {target[c]}
    /\ valid' = FALSE
    /\ pc' = [d \in Calls |-> "done"]
    /\ failed' = [d \in Calls |-> failed[d] \/ pc[d] # "done"]
    /\ LocksVanish
    /\ UNCHANGED <<op, currentLm, lm, target, known, loaded, libsOnDisk, knownLibs>>

\* UninstallPlatform
RemoveRelease(c) ==
    \/ /\ onDisk' = onDisk \ {target[c]}
       /\ known'  = known \ {target[c]}
       /\ UNCHANGED failed
    \/ /\ UNCHANGED <<onDisk, known>>
       /\ Fail(c)

PlatformWork(c) ==
    /\ pc[c] = "platformWork"
    /\ IF op[c] = "PlatformUninstall" THEN RemoveRelease(c) ELSE InstallRelease(c)
    /\ Goto(c, CASE op[c] = "PlatformInstall" -> "releaseLm"
                 [] op[c] = "PlatformUpgrade" /\ ~failed'[c] -> "fetchLm"
                 [] OTHER -> "releasePm")
    /\ UNCHANGED <<lockVars, valid, currentLm, lm, target, loaded, libsOnDisk, knownLibs>>

\* Mutant: an error return before the release of the Installer.
ReleaseLmUnlessFailed(c) ==
    /\ pc[c] = "releaseLm"
    /\ IF failed[c] THEN UNCHANGED lockVars ELSE
       IF op[c] = "LibraryList" THEN RUnlock(lm[c], c) ELSE Unlock(lm[c], c)
    /\ Goto(c, IF op[c] \in InstallerOps THEN "done" ELSE "releasePm")
    /\ UNCHANGED dataVars

\* The deferred releases run last taken first.
ReleaseLm(c) ==
    /\ pc[c] = "releaseLm"
    /\ IF op[c] = "LibraryList" THEN RUnlock(lm[c], c) ELSE Unlock(lm[c], c)
    /\ Goto(c, IF op[c] \in InstallerOps THEN "done" ELSE "releasePm")
    /\ UNCHANGED dataVars

\* Mutant: an error return before the release of the Explorer.
ReleasePmUnlessFailed(c) ==
    /\ pc[c] = "releasePm"
    /\ IF failed[c] THEN UNCHANGED lockVars ELSE RUnlock(PM, c)
    /\ Goto(c, IF op[c] \in PlatformOps /\ ~failed[c] THEN "load" ELSE "done")
    /\ UNCHANGED dataVars

ReleasePm(c) ==
    /\ pc[c] = "releasePm"
    /\ RUnlock(PM, c)
    /\ Goto(c, IF op[c] \in PlatformOps /\ ~failed[c] THEN "load" ELSE "done")
    /\ UNCHANGED dataVars

-----------------------------------------------------------------------------
\* Init, as a call of its own or as the end of another.  LibraryInstall still
\* holds the lock of the manager it fetched while it runs Init.
Leave(c) == Goto(c, IF op[c] = "LibraryInstall" THEN "releaseLm" ELSE "done")

\* LoadHardware reads the disk into a Builder, under no lock.
Load(c) ==
    /\ pc[c] = "load"
    /\ \/ /\ valid
          /\ loaded' = [loaded EXCEPT ![c] = onDisk]
          /\ Goto(c, "wantPm")
          /\ UNCHANGED failed
       \/ /\ ~valid
          /\ Fail(c)
          /\ Leave(c)
          /\ UNCHANGED loaded
    /\ UNCHANGED <<lockVars, valid, currentLm, lm, target, diskVars>>

WantPm(c) ==
    /\ pc[c] = "wantPm"
    /\ Lock(PM, c)
    /\ Goto(c, "commit")
    /\ UNCHANGED dataVars

\* Mutant: the lock of the commit is held to the end of Init, with a defer.
CommitDeferred(c) ==
    /\ pc[c] = "commit" /\ HoldsWrite(PM, c)
    /\ known' = loaded[c]
    /\ Goto(c, "reopen")
    /\ UNCHANGED <<lockVars, valid, currentLm, lm, target, failed, onDisk, loaded, libsOnDisk, knownLibs>>

\* commitPackageManager overwrites the PackageManager with the Builder.
Commit(c) ==
    /\ pc[c] = "commit" /\ HoldsWrite(PM, c)
    /\ known' = loaded[c]
    /\ Unlock(PM, c)
    /\ Goto(c, "reopen")
    /\ UNCHANGED <<valid, currentLm, lm, target, failed, onDisk, loaded, libsOnDisk, knownLibs>>

\* The Explorer Init loads the discoveries and the libraries with.
Reopen(c) ==
    /\ pc[c] = "reopen"
    /\ \/ valid /\ RLock(PM, c) /\ Goto(c, "scan") /\ UNCHANGED failed
       \/ ~valid /\ Fail(c) /\ Leave(c) /\ UNCHANGED lockVars
    /\ UNCHANGED <<valid, currentLm, lm, target, loaded, diskVars>>

\* lmb.Build scans the disk into the new manager, under no libraries lock.
Scan(c) ==
    /\ pc[c] = "scan" /\ HoldsRead(PM, c)
    /\ knownLibs' = [knownLibs EXCEPT ![c] = libsOnDisk]
    /\ Goto(c, "swap")
    /\ UNCHANGED <<lockVars, valid, currentLm, lm, target, failed, loaded, onDisk, known, libsOnDisk>>

\* Mutant: the manager of a destroyed instance becomes nil.
SwapNil(c) ==
    /\ pc[c] = "swap"
    /\ currentLm' = IF valid THEN c ELSE Nobody
    /\ Goto(c, "releaseInit")
    /\ UNCHANGED <<lockVars, valid, lm, target, failed, loaded, diskVars>>

\* instances.SetLibraryManager; a destroyed instance is left as it is.
Swap(c) ==
    /\ pc[c] = "swap"
    /\ currentLm' = IF valid THEN c ELSE currentLm
    /\ Goto(c, "releaseInit")
    /\ UNCHANGED <<lockVars, valid, lm, target, failed, loaded, diskVars>>

ReleaseInit(c) ==
    /\ pc[c] = "releaseInit"
    /\ RUnlock(PM, c)
    /\ Leave(c)
    /\ UNCHANGED dataVars

Step(c) == \/ Begin(c) \/ Destroy(c) \/ Explore(c) \/ FetchSecond(c)
           \/ WantLm(c) \/ LmLocked(c) \/ DownloadDir(c) \/ LibraryWork(c)
           \/ PlatformWork(c) \/ Panic(c) \/ ReleaseLm(c) \/ ReleasePm(c)
           \/ Load(c) \/ WantPm(c) \/ Commit(c) \/ Reopen(c) \/ Scan(c)
           \/ Swap(c) \/ ReleaseInit(c)

AllDone == \A c \in Calls : pc[c] = "done"

Idle == AllDone /\ UNCHANGED vars

Next == (\E c \in Calls : Step(c)) \/ Idle

Spec == Init /\ [][Next]_vars

\* A goroutine that can run is scheduled, and a lock is granted when it is free.
FairSpec == Spec /\ \A c \in Calls : WF_vars(Step(c))

-----------------------------------------------------------------------------
InitLabels == {"load", "wantPm", "commit", "reopen", "scan", "swap", "releaseInit"}

Labels == InitLabels \cup
          {"call", "explore", "fetchLm", "wantLm", "lockLm", "downloadDir",
           "libraryWork", "platformWork", "releaseLm", "releasePm", "done"}

\* The values the state of the handlers ranges over.
TypeOK ==
    /\ op \in [Calls -> Ops] /\ pc \in [Calls -> Labels]
    /\ LockTypeOK
    /\ valid \in BOOLEAN /\ currentLm \in Managers
    /\ lm \in [Calls -> Managers]
    /\ target \in [Calls -> Releases \cup {0}]
    /\ failed \in [Calls -> BOOLEAN]
    /\ onDisk \in SUBSET Releases /\ known \in SUBSET Releases
    /\ loaded \in [Calls -> SUBSET Releases]
    /\ libsOnDisk \in SUBSET Libs
    /\ knownLibs \in [Managers -> SUBSET Libs]

\* Which locks call c has asked for and not given back, read off its control
\* state.  Parked calls are included.
PmReader(c) ==
    \/ pc[c] \in {"explore", "fetchLm", "downloadDir", "platformWork",
                  "releasePm", "scan", "swap", "releaseInit"}
    \/ op[c] \in ExplorerOps /\ pc[c] \in {"wantLm", "lockLm", "libraryWork", "releaseLm"}
LmReader(c) == op[c] = "LibraryList" /\ pc[c] \in {"lockLm", "releaseLm"}
LmWriter(c) ==
    /\ op[c] # "LibraryList"
    /\ \/ pc[c] \in {"lockLm", "downloadDir", "libraryWork", "releaseLm"}
       \/ op[c] = "PlatformInstall" /\ pc[c] = "platformWork"
       \/ op[c] = "LibraryInstall" /\ pc[c] \in InitLabels

\* Which handlers reach which part of the code, the platform work with a release
\* chosen.
ControlOK ==
    \A c \in Calls :
        /\ pc[c] \in {"explore", "releasePm"} => op[c] \in ExplorerOps
        /\ pc[c] = "fetchLm" => op[c] \in PmThenLmOps
        /\ pc[c] \in {"wantLm", "lockLm", "releaseLm"}
           => op[c] \in InstallerOps \cup PmThenLmOps
        /\ pc[c] = "libraryWork" => op[c] \in InstallerOps \cup {"PlatformInstall", "PlatformUpgrade"}
        /\ pc[c] = "platformWork" => op[c] \in PlatformOps /\ target[c] # 0
        /\ op[c] = "PlatformInstall" /\ pc[c] \in {"fetchLm", "wantLm", "lockLm", "libraryWork"}
           => target[c] # 0
        /\ pc[c] = "downloadDir" => op[c] = "LibraryInstall"
        /\ pc[c] \in InitLabels => op[c] \in InitOps

\* Only an announced writer parks readers, and a reader is parked or in, not both.
ParkedOK == \A lk \in Locks : /\ readers[lk] \cap waiting[lk] = {}
                              /\ waiting[lk] # {} => writer[lk] # Nobody

PmLockOK ==
    \A c \in Calls :
        /\ c \in readers[PM] \cup waiting[PM] <=> PmReader(c)
        /\ c \in waiting[PM] => pc[c] \in {"explore", "downloadDir", "scan"}
        /\ writer[PM] = c <=> pc[c] = "commit"

LmLockOK ==
    /\ \A c \in Calls, m \in Managers :
        /\ c \in readers[m] \cup waiting[m] <=> LmReader(c) /\ lm[c] = m
        /\ c \in waiting[m] => pc[c] = "lockLm"
        /\ writer[m] = c <=> LmWriter(c) /\ lm[c] = m
    /\ \A c \in Calls : LmWriter(c) /\ pc[c] # "lockLm" => readers[lm[c]] = {}

\* The locks are held exactly as the control state of the calls says: the
\* inductive invariant behind the properties below.
LockInv == ControlOK /\ ParkedOK /\ PmLockOK /\ LmLockOK

\* Call c is using the packages of an Explorer it has not released.
Exploring(c) ==
    PmReader(c) /\ (pc[c] \in {"explore", "downloadDir", "scan"} => HoldsRead(PM, c))

\* No Init replaces the packages of the PackageManager while another call is
\* between NewExplorer and release (package_manager.go: the Explorer "holds a
\* read-only lock on the PackageManager").
NoCommitUnderExplorer ==
    \A c, d \in Calls : pc[c] = "commit" /\ HoldsWrite(PM, c) => ~Exploring(d)

\* Two calls never change libraries through the same LibrariesManager at once.
OneInstallerPerManager ==
    \A c, d \in Calls : pc[c] = "libraryWork" /\ pc[d] = "libraryWork" /\ lm[c] = lm[d] => c = d

\* Two calls never change the libraries directory at once, as long as no Init
\* swaps the manager: its swap lets a second installer in.
NoInit == \A c \in Calls : op[c] \notin InitOps
LibrariesDirExclusive ==
    NoInit => \A c, d \in Calls : pc[c] = "libraryWork" /\ pc[d] = "libraryWork" => c = d

\* The lock call c is parked on, if any, does not let it in.
Blocked(c) ==
    \/ pc[c] \in {"explore", "downloadDir", "scan"} /\ ~HoldsRead(PM, c)
    \/ pc[c] = "wantLm" /\ op[c] # "LibraryList" /\ writer[lm[c]] # Nobody
    \/ pc[c] = "lockLm" /\ op[c] = "LibraryList" /\ ~HoldsRead(lm[c], c)
    \/ pc[c] = "lockLm" /\ op[c] # "LibraryList" /\ ~HoldsWrite(lm[c], c)
    \/ pc[c] = "wantPm" /\ writer[PM] # Nobody
    \/ pc[c] = "commit" /\ ~HoldsWrite(PM, c)

\* The calls in flight are never all parked on each other's locks: some call
\* can take a step until all are answered.
NoDeadlock == ~AllDone => \E c \in Calls : pc[c] # "done" /\ ~Blocked(c)

\* LibraryInstall takes the libraries lock before the package lock, and others
\* take them the other way round.
OneLockOrder == \/ \A c \in Calls : op[c] # "LibraryInstall"
                \/ \A c \in Calls : op[c] \notin PmThenLmOps

\* Calls that all take the two locks in one order are never all parked.
NoDeadlockInOneOrder == OneLockOrder => NoDeadlock

\* Every RPC call is answered, for the mixes of handlers that take the two
\* locks in one order.
EveryCallEnds == \A c \in Calls : <>(pc[c] = "done")

\* A library that an uninstallation removed is not listed any more, whatever
\* installations and imports ran beside it without an Init.
UninstalledLibNotListed == AllDone /\ NoInit => knownLibs[currentLm] \subseteq libsOnDisk
=============================================================================
