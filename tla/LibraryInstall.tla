----------------------------- MODULE LibraryInstall -----------------------------
(***************************************************************************)
(* The requests that change the user's libraries directory: LibraryInstall *)
(* with its dependencies, LibraryUpgradeAll and LibraryUpgrade, which call *)
(* it for one library after another, the imports of an archive or a git    *)
(* repository, LibraryUninstall (commands/service_library_*.go over        *)
(* librariesmanager/install.go and resources/install.go).  The Installer   *)
(* lets one of them in at a time (CoreInstance); an upgrade of all gives   *)
(* it back between two libraries.  The archives that are downloaded are    *)
(* taken for good once they are complete: their checksum is looked at when *)
(* they are installed.                                                     *)
(***************************************************************************)
EXTENDS Integers, FiniteSets

CONSTANTS Libs,        \* library names
          Dirs,        \* directories of the libraries directory
          DirOf,       \* DirOf[l]: where l is installed, utils.SanitizeName
          LegacyName,  \* LegacyName[d]: the library that has the name of the directory d, or None
          Releases,    \* releases of the index, <<l, v>>
          Depends,     \* Depends[r]: sets of releases, of each of which r needs one
          Worlds,      \* see WorldsOK
          None, Junk   \* no directory (no library); a directory that is no library

Version(r) == r[2]
Unversioned == 0
Library(l, v, whole) == [lib |-> l, v |-> v, whole |-> whole]
Contents == {None, Junk} \cup [lib : Libs, v : Nat, whole : BOOLEAN]

ASSUME LibrariesOK ==
    /\ IsFiniteSet(Dirs) /\ None # Junk /\ {None, Junk} \cap [lib : Libs, v : Nat, whole : BOOLEAN] = {}
    /\ DirOf \in [Libs -> Dirs] /\ LegacyName \in [Dirs -> Libs \cup {None}]
    /\ Releases \subseteq Libs \X (Nat \ {Unversioned})
    /\ DOMAIN Depends = Releases
    /\ \A r \in Releases : \A S \in Depends[r] : S \subseteq Releases

\* The directories of a library, and those in which all of it is.
Holds(f, l)  == {d \in Dirs : f[d] \notin {None, Junk} /\ f[d].lib = l}
Whole(f, l)  == {d \in Holds(f, l) : f[d].whole}
NoneTwice(f) == \A l \in Libs : Cardinality(Whole(f, l)) <= 1

Ops == {"install", "upgrade", "import", "uninstall"}

\* "fetch": a download fails; "unpack": its checksum or its extraction; "move": the
\* new directory is copied in part; "keep", "tear": RemoveAll fails and has removed
\* nothing, or a part; "kill": the process ends.
ASSUME WorldsOK == \A w \in Worlds :
    /\ w.ops \subseteq Ops /\ w.requests \in Nat
    /\ w.fails \subseteq {"fetch", "unpack", "move", "keep", "tear", "kill"}
    /\ \A s \in w.start : s \in [Dirs -> Contents] /\ NoneTwice(s)

VARIABLES world, requests,
          disk,       \* disk[d]: None, Junk or a Library
          known,      \* what the LibrariesManager lists: <<d, l, v>>
          job,        \* see Idle
          upgrading,  \* names that a LibraryUpgradeAll has still to upgrade
          before      \* history: disk when the request began

vars == <<world, requests, disk, known, job, upgrading, before>>

Idle == [at |-> "idle", op |-> "install", noOverwrite |-> FALSE,
         toInstall |-> {},        \* releases
         unchecked |-> {},        \* those whose prerequisites are still to be checked
         plan      |-> {},        \* [rel, old]: what to install in place of what
         now       |-> None,      \* the one of the plan that is being installed
         rescanned |-> None,      \* the library for which RescanLibraries ran last
         result    |-> "none"]    \* history: how it ended

\* RescanLibraries
Scan(f)   == {<<d, f[d].lib, f[d].v>> : d \in {x \in Dirs : f[x] \notin {None, Junk}}}
OfName(l) == {e \in known : e[2] = l}

Init ==
    /\ world \in Worlds /\ requests = world.requests
    /\ disk \in world.start
    /\ known = Scan(disk)
    /\ job = Idle /\ upgrading = {} /\ before = disk

\* What the request is at: releases S are to be installed, r has been checked, is to be
\* installed in place of old, p is being installed, or the request has ended.
Asks(op, S, noOverwrite) == [Idle EXCEPT !.at = "check", !.op = op, !.toInstall = S, !.unchecked = S,
                                         !.noOverwrite = noOverwrite]
Checks(j, r)     == [j EXCEPT !.unchecked = @ \ {r}, !.rescanned = r[1]]
Plans(j, r, old) == [j EXCEPT !.unchecked = @ \ {r}, !.rescanned = r[1],
                              !.plan = @ \cup {[rel |-> r, old |-> old]}]
Takes(j, p)      == [j EXCEPT !.at = "remove", !.plan = @ \ {p}, !.now = p]
GoesTo(j, l)     == [j EXCEPT !.at = l]
Ends(j, result)  == [Idle EXCEPT !.op = j.op, !.noOverwrite = j.noOverwrite,
                                 !.toInstall = j.toInstall, !.result = result]

-----------------------------------------------------------------------------
\* librariesindex

ReleasesOf(l) == {r \in Releases : r[1] = l}
Latest(l)     == {r \in ReleasesOf(l) : \A x \in ReleasesOf(l) : Version(x) <= Version(r)}

\* FindLibraryUpdate: an installed library without a version is out of date.
Updatable(e) == \E r \in Latest(e[2]) : e[3] = Unversioned \/ Version(r) > e[3]

\* The installed releases that the index knows; one without a version is taken for the
\* latest.
Installed == {r \in Releases : \E e \in known :
                 e[2] = r[1] /\ (e[3] = Version(r) \/ (e[3] = Unversioned /\ r \in Latest(e[2])))}

Solves(S, r) ==
    /\ r \in S
    /\ \A x, y \in S : x[1] = y[1] => x = y
    /\ \A x \in S : \A need \in Depends[x] : need \cap S # {}

\* ResolveDependencies: a smallest set of releases with all dependencies. A library that
\* is overridden is available in that release only.
Resolve(r, overrides) ==
    LET available == {x \in Releases : x \in overrides \/ \A o \in overrides : o[1] # x[1]} \cup {r}
        solutions == {S \in SUBSET available : Solves(S, r)}
    IN  {S \in solutions : \A T \in solutions : T \subseteq S => T = S}

-----------------------------------------------------------------------------
\* Requests.

Free == job.at = "idle"
Begin(op, S, noOverwrite) == job' = Asks(op, S, noOverwrite) /\ before' = disk
NewRequest(op) == Free /\ op \in world.ops /\ requests > 0 /\ requests' = requests - 1

\* downloadAndInstallLibrary up to the choice of the releases: of one version, of the
\* latest one; with what it depends on or alone.
Install ==
    /\ NewRequest("install")
    /\ \E r \in Releases, noDeps, noOverwrite \in BOOLEAN :
       \E S \in (IF noDeps THEN {{r}} ELSE Resolve(r, IF noOverwrite THEN Installed ELSE {})) :
           Begin("install", S, noOverwrite)
    /\ UNCHANGED <<world, disk, known, upgrading>>

\* LibraryUpgradeAll lists the libraries, LibraryUpgrade looks one up.
ListUpdatable ==
    /\ NewRequest("upgrade") /\ upgrading = {}
    /\ LET all == {e[2] : e \in {x \in known : Updatable(x)}} IN
       upgrading' \in {all} \cup {{l} : l \in all}
    /\ UNCHANGED <<world, disk, known, job, before>>

UpgradeNext ==
    /\ Free /\ upgrading # {}
    /\ \E l \in upgrading :
           /\ upgrading' = upgrading \ {l}
           /\ \E r \in Latest(l) : \E S \in Resolve(r, {}) : Begin("upgrade", S, FALSE)
    /\ UNCHANGED <<world, requests, disk, known>>

\* InstallZipLib, InstallGitLib: the library of the archive has been loaded and is valid.
Import ==
    /\ NewRequest("import")
    /\ \E r \in Releases, overwrite \in BOOLEAN : Begin("import", {r}, ~overwrite)
    /\ UNCHANGED <<world, disk, known, upgrading>>

\* An error ends the request, and the upgrade of which it is a part.
Error(result) ==
    /\ job' = Ends(job, result)
    /\ upgrading' = IF job.op = "upgrade" THEN {} ELSE upgrading

-----------------------------------------------------------------------------
\* InstallPrerequisiteCheck, for one release after the other in no order.

\* Mutant: a library that is there is good enough.
UpToDateAnyway(old, r) == old # {}

UpToDate(old, r) == \E e \in old : e[3] = Version(r)

\* Mutant: whatever is in the directory.
TargetFree(old, d) == TRUE

TargetIsOurs(old, d) == disk[d] = None \/ \E e \in old : e[1] = d

MayReplace(old, r) == ~job.noOverwrite \/ old = {}

Check(r) ==
    /\ job.at = "check" /\ r \in job.unchecked
    /\ known' = Scan(disk)
    /\ LET old == {e \in Scan(disk) : e[2] = r[1]}
       IN  IF Cardinality(old) > 1 \/ ~TargetIsOurs(old, DirOf[r[1]])
           THEN Error("refused")
           ELSE IF job.op # "import" /\ UpToDate(old, r)
           THEN job' = Checks(job, r) /\ UNCHANGED upgrading
           ELSE IF ~MayReplace(old, r)
           THEN Error("refused")
           ELSE job' = Plans(job, r, old) /\ UNCHANGED upgrading
    /\ UNCHANGED <<world, requests, disk, before>>

-----------------------------------------------------------------------------
\* The libraries of the plan one after the other, in no order: download, removal of the
\* old one, installation.

AllChecked == job.unchecked = {}

Target == DirOf[job.now.rel[1]]
Old    == job.now.old
New    == Library(job.now.rel[1], Version(job.now.rel), TRUE)

\* Mutant: the old one is removed, then the new one is downloaded.
RemoveAndDownload(p) ==
    /\ job.at = "check" /\ AllChecked /\ p \in job.plan
    /\ disk' = [d \in Dirs |-> IF \E e \in p.old : e[1] = d THEN None ELSE disk[d]]
    /\ IF "fetch" \in world.fails THEN Error("fetch")
       ELSE job' = GoesTo(Takes(job, p), "unpack") /\ UNCHANGED upgrading
    /\ UNCHANGED <<world, requests, known, before>>

\* An import has no download.
Download(p) ==
    /\ job.at = "check" /\ AllChecked /\ p \in job.plan
    /\ \/ job' = Takes(job, p) /\ UNCHANGED upgrading
       \/ job.op # "import" /\ "fetch" \in world.fails /\ Error("fetch")
    /\ UNCHANGED <<world, requests, disk, known, before>>

\* What is left of a directory: the index file and so its name, the headers and so the
\* name of the directory, or neither.
Remains(d) == {Junk, [disk[d] EXCEPT !.whole = FALSE]}
              \cup {Library(l, Unversioned, FALSE) : l \in {LegacyName[d]} \ {None}}

\* Mutant: it stays in the list.
ForgetNothing(e, rescanned) == UNCHANGED known

\* The pointer in the plan is that of the scan in which it was made: a later one has
\* replaced the list.
Forget(e, rescanned) == known' = IF rescanned = e[2] THEN known \ {e} ELSE known

\* Installer.Uninstall
RemoveAll(e, rescanned) ==
    /\ disk' = [disk EXCEPT ![e[1]] = None] /\ Forget(e, rescanned)

RemovesInPart(e) ==
    /\ disk[e[1]] \notin {None, Junk}
    /\ \E x \in Remains(e[1]) : disk' = [disk EXCEPT ![e[1]] = x]

RemoveFails(e) ==
    /\ \/ "keep" \in world.fails /\ UNCHANGED disk
       \/ "tear" \in world.fails /\ RemovesInPart(e)
    /\ UNCHANGED known

\* Mutant: the new one is put beside it.
KeepOld ==
    /\ job.at = "remove" /\ job' = GoesTo(job, "unpack")
    /\ UNCHANGED <<world, requests, disk, known, upgrading, before>>

RemoveOld ==
    /\ job.at = "remove"
    /\ \/ /\ job' = GoesTo(job, "unpack") /\ UNCHANGED upgrading
          /\ \/ Old = {} /\ UNCHANGED <<disk, known>>
             \/ \E e \in Old : RemoveAll(e, job.rescanned)
       \/ \E e \in Old : RemoveFails(e) /\ Error("remove")
    /\ UNCHANGED <<world, requests, before>>

CopiesInPart == \E x \in {Junk, [New EXCEPT !.whole = FALSE]} : disk' = [disk EXCEPT ![Target] = x]

\* DownloadResource.Install removes what is in the way; an import copies.
Unpack ==
    /\ job.at = "unpack"
    /\ \/ /\ disk' = [disk EXCEPT ![Target] = New]
          /\ job' = GoesTo(job, "check") /\ UNCHANGED upgrading
       \/ "unpack" \in world.fails /\ job.op # "import" /\ Error("unpack") /\ UNCHANGED disk
       \/ "move" \in world.fails /\ Error("move") /\ CopiesInPart
    /\ UNCHANGED <<world, requests, known, before>>

\* LibraryInstall ends with an Init, an import does not.
Finish ==
    /\ job.at = "check" /\ job.unchecked = {} /\ job.plan = {}
    /\ job' = Ends(job, "ok")
    /\ known' = IF job.op = "import" THEN known ELSE Scan(disk)
    /\ UNCHANGED <<world, requests, disk, upgrading, before>>

\* LibraryUninstall looks in the list; the error of Uninstall is dropped.
Uninstall ==
    /\ NewRequest("uninstall")
    /\ \E l \in Libs, v \in {Unversioned} \cup {Version(r) : r \in Releases} :
       LET libs == {e \in OfName(l) : v = Unversioned \/ e[3] = v} IN
           /\ job' = Ends(Asks("uninstall", {<<l, v>>}, FALSE), IF Cardinality(libs) > 1 THEN "refused" ELSE "ok")
           /\ IF Cardinality(libs) # 1 THEN UNCHANGED <<disk, known>>
              ELSE \E e \in libs : RemoveAll(e, l) \/ RemoveFails(e)
    /\ before' = disk
    /\ UNCHANGED <<world, upgrading>>

\* The process ends, also in the middle of a removal or a copy; the next one lists what
\* is there.
Kill ==
    /\ "kill" \in world.fails /\ job.at # "idle"
    /\ \/ UNCHANGED disk
       \/ job.at = "remove" /\ \E e \in Old : RemovesInPart(e)
       \/ job.at = "unpack" /\ CopiesInPart
    /\ known' = Scan(disk')
    /\ job' = Ends(job, "killed") /\ upgrading' = {}
    /\ UNCHANGED <<world, requests, before>>

-----------------------------------------------------------------------------
Next ==
    \/ Install \/ ListUpdatable \/ UpgradeNext \/ Import \/ Uninstall
    \/ \E r \in job.unchecked : Check(r)
    \/ \E p \in job.plan : Download(p)
    \/ RemoveOld \/ Unpack \/ Finish \/ Kill

Spec == Init /\ [][Next]_vars

-----------------------------------------------------------------------------
\* The domains of the variables; what is unpacked is a release that has been checked.
TypeOK ==
    /\ world \in Worlds /\ requests \in Nat
    /\ disk \in [Dirs -> Contents] /\ before \in [Dirs -> Contents]
    /\ known \subseteq Dirs \X Libs \X Nat
    /\ job.at \in {"idle", "check", "remove", "unpack"}
    /\ job.result \in {"none", "ok", "refused", "fetch", "unpack", "move", "remove", "killed"}
    /\ job.toInstall \subseteq Libs \X Nat /\ job.unchecked \subseteq job.toInstall
    /\ {p.rel : p \in job.plan} \subseteq job.toInstall \ job.unchecked
    /\ upgrading \subseteq Libs
    /\ job.at \in {"remove", "unpack"} => job.now.rel \in job.toInstall \ job.unchecked

\* A request never touches a library that it does not name and that is none of the
\* dependencies it has resolved, also if the directory has the name of one that it does.
OthersAreKept ==
    [][\A d \in Dirs : disk[d] # disk'[d] /\ disk[d] \notin {None, Junk} /\ disk[d].whole =>
           \E r \in job.toInstall \cup job'.toInstall : disk[d].lib = r[1]]_vars

\* Whatever requests have run, in whatever directory the user keeps a library, and
\* whatever failed: no library is there twice.
NoTwins == NoneTwice(disk)

\* Two libraries of the request go into one directory: when they are checked it is free,
\* and then the second one removes the first.
Collide == \E x, y \in job.toInstall : x # y /\ DirOf[x[1]] = DirOf[y[1]]

\* An installation that is answered without an error has in place the releases that it
\* chose, and so all that they depend on, the up to date ones included, unless two of them
\* collide.  (A directory that a fault left with its index file counts as up to date.)
InstallsTheClosure ==
    job.result = "ok" /\ job.op \in {"install", "upgrade", "import"} /\ ~Collide =>
        \A r \in job.toInstall : \E d \in Holds(disk, r[1]) : disk[d].v = Version(r)

\* What must not or cannot be replaced stays.  A request that is refused changes nothing,
\* also if it is the last of several libraries that is refused; with NoOverwrite no
\* library that is there is changed, dependencies included; and a failed download loses
\* no library, unless two collide: the old one is there until the new one has come.
WhatIsThereIsKept ==
    /\ job.result = "refused" => disk = before
    /\ job.noOverwrite => \A d \in Dirs : before[d] # None => disk[d] = before[d]
    /\ job.result = "fetch" /\ ~Collide => \A l \in Libs : Whole(before, l) # {} => Whole(disk, l) # {}

\* As long as nothing fails, every library that is listed is there when no request runs:
\* installations that overwrite, imports and uninstallations leave no ghost.  (When one of
\* several fails, the list that a later check has replaced keeps what was removed.)
ListedIsThere ==
    job.at = "idle" /\ world.fails = {} => known \subseteq Scan(disk)

\* The invariant of the module: the types, and that no library is there twice.
LibraryInv == TypeOK /\ NoTwins
=============================================================================
