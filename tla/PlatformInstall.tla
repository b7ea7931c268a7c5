---------------------------- MODULE PlatformInstall ----------------------------
(***************************************************************************)
(* Installing, upgrading and uninstalling platforms and the tools they     *)
(* need: DownloadAndInstallPlatformAndTools, UninstallPlatform and the     *)
(* tool functions of packagemanager/install_uninstall.go, step by step,    *)
(* under the handlers PlatformInstall, PlatformUpgrade, PlatformUninstall. *)
(* The handlers share the package manager's read lock, so their steps      *)
(* interleave; only PlatformInstall also holds an exclusive lock, that of  *)
(* the libraries manager, while it works (see CoreInstance).  A call may   *)
(* run one handler after another.                                          *)
(***************************************************************************)
EXTENDS Integers, FiniteSets

CONSTANTS Calls,      \* concurrent RPC calls
          Releases,   \* platform releases, numbered: a larger one is newer
          PlatformOf, \* PlatformOf[r]: the platform r is a release of
          Tools,      \* tool releases
          Requires,   \* Requires[r]: the tools release r depends on
          Worlds,     \* the circumstances, one of which a behaviour runs in
          Nobody

Ops == {"Install", "Upgrade", "Uninstall"}

\* "fetch": a download, a checksum or an extraction fails; "move", "copy": the new
\* directory cannot be renamed, and nothing, or a part of it, is copied to where the
\* old one was; "keep", "tear": RemoveAll fails and has removed nothing, or a part;
\* "kill": the process ends (within a removal or a copy: after its "tear" or "copy").
FaultKinds == {"fetch", "move", "copy", "keep", "tear", "kill", "panic"}

ASSUME ReleasesOK == /\ Releases \subseteq Nat \ {0} /\ IsFiniteSet(Releases)
                     /\ Releases \cap Tools = {}
                     /\ Requires \in [Releases -> SUBSET Tools]
                     /\ Worlds \subseteq [mix : SUBSET Ops, faults : SUBSET FaultKinds,
                                          manual : SUBSET Releases, atOnce : Nat]
                     /\ Nobody \notin Calls

VARIABLES world,    \* the circumstances, fixed
          pc,
          job,      \* job[c]: what call c is at (Jobs)
          installer,\* the PlatformInstall that holds the libraries lock
          mem,      \* items whose InstallDir is not nil
          disk      \* disk[x]: "absent", "whole" or a part (PartCopy)

store == <<mem, disk>>
vars  == <<world, pc, job, installer, store>>

Mix     == world.mix     \* the handlers the clients call
Faults  == world.faults  \* what may go wrong
Manual  == world.manual  \* releases the user put in the sketchbook, not managed
Managed == Releases \ Manual
Items   == Releases \cup Tools

Jobs == [op     : Ops,
         target : Releases \cup {0},  \* the platformRelease of the call
         todo   : SUBSET Tools,       \* tools still to install, or to drop
         old    : SUBSET Releases,    \* the release found installed, if any
         doing  : {"old", "undo", "target", "tool"}, \* what is uninstalled
         victim : Items \cup {0}]     \* the item installed or uninstalled
NoJob == [op |-> "Install", target |-> 0, todo |-> {}, old |-> {},
          doing |-> "target", victim |-> 0]

NewJob(o, r)          == [NoJob EXCEPT !.op = o, !.target = r, !.victim = r]
HasToDo(j, T)         == [j EXCEPT !.todo = T]
IsToReplace(j, R)     == [j EXCEPT !.old = R]
Handles(j, what, x)   == [j EXCEPT !.doing = what, !.victim = x]

-----------------------------------------------------------------------------
Newest(S) == {r \in S : \A x \in S : x <= r}

\* GetInstalledPlatformRelease: the newest managed release, else the newest.
Installed(p) == LET all == {r \in Releases \cap mem : PlatformOf[r] = p}
                IN  Newest(IF all \ Manual # {} THEN all \ Manual ELSE all)

InstalledFor(c) == Installed(PlatformOf[job[c].target])

\* Mutant: only one platform is looked at.
IsToolRequiredByOne(t) ==
    \A x \in Releases : x \in Installed(PlatformOf[x]) => t \in Requires[x]

\* Mutant: the releases of the index are asked, installed or not.
IsToolRequiredByIndex(t) == \E x \in Releases : t \in Requires[x]

\* IsToolRequired: only the release that counts as installed is asked.
IsToolRequired(t) == \E x \in Releases : x \in Installed(PlatformOf[x]) /\ t \in Requires[x]

\* What a removal that stops midway leaves of x: of a release a directory with or without
\* the boards.txt that makes it a platform; one of a tool is always a tool.
Part(x) == IF x \in Tools THEN {"torn"} ELSE {"torn", "debris"}

\* What a copy that stops midway leaves: a file may be cut, that the loader cannot read.
PartCopy(x) == Part(x) \cup IF x \in Tools THEN {} ELSE {"broken"}

\* The loader goes through the releases of a platform and ends at one it cannot read, which
\* counts as installed all the same.
Hides(y, x) == /\ {x, y} \subseteq Managed /\ x # y /\ PlatformOf[x] = PlatformOf[y]
               /\ disk[y] = "broken"

\* What LoadHardware may find, in any order of the directories.
Loadable == LET found == {x \in Items : disk[x] \notin {"absent", "debris"}}
                later == {x \in found : \E y \in found : Hides(y, x)}
            IN  {M \in {found \ H : H \in SUBSET later} :
                    /\ \A x \in found \ M : \E y \in M : Hides(y, x)
                    /\ \A x, y \in M : Hides(y, x) => disk[x] # "broken"}

\* Releases and the tools they need, as earlier installations left them.
Init ==
    /\ world \in Worlds
    /\ pc = [c \in Calls |-> "idle"]
    /\ job = [c \in Calls |-> NoJob]
    /\ installer = Nobody
    /\ \E S \in SUBSET Managed :
           /\ \A r, s \in S : PlatformOf[r] = PlatformOf[s] => r = s
           /\ mem = Manual \cup S \cup UNION {Requires[r] : r \in S \cup Manual}
    /\ disk = [x \in Items |-> IF x \in mem THEN "whole" ELSE "absent"]

-----------------------------------------------------------------------------
Goto(c, l) == pc' = [pc EXCEPT ![c] = l]

\* The deferred release of the libraries lock, by the call that took it.
Release(c) == installer' = IF installer = c THEN Nobody ELSE installer

\* The handler returns an error: no Init follows.
Abort(c) == /\ Release(c)
            /\ Goto(c, "idle")
            /\ job' = [job EXCEPT ![c] = NoJob]

\* Begin to uninstall x: next come the checks of UninstallPlatform, UninstallTool.
Uninstall(c, what, x) == /\ job' = [job EXCEPT ![c] = Handles(@, what, x)]
                         /\ Goto(c, "check")

\* Put x in its directory and note it as installed.
Place(x) == /\ disk' = [disk EXCEPT ![x] = "whole"]
            /\ mem' = mem \cup {x}

\* DownloadResource.Install fails.  What was in the directory is removed first, and
\* nothing is moved or copied to where some of it is left; nobody clears up.
FailToPlace(x) ==
    /\ \/ "fetch" \in Faults /\ UNCHANGED disk
       \/ "move" \in Faults /\ disk' = [disk EXCEPT ![x] = "absent"]
       \/ "copy" \in Faults /\ \E part \in PartCopy(x) : disk' = [disk EXCEPT ![x] = part]
       \/ /\ disk[x] # "absent"
          /\ \/ "keep" \in Faults /\ UNCHANGED disk
             \/ "tear" \in Faults /\ \E part \in Part(x) : disk' = [disk EXCEPT ![x] = part]
    /\ UNCHANGED mem

\* A handler looks up its release.  PlatformInstall has nothing to do if it is
\* installed, and otherwise waits for the libraries lock.
Begin(c) ==
    /\ pc[c] = "idle" /\ Cardinality({d \in Calls : pc[d] # "idle"}) < world.atOnce
    /\ \E o \in Mix, r \in Releases :
        /\ job' = [job EXCEPT ![c] = NewJob(o, r)]
        /\ \/ o = "Install" /\ r \in Managed /\ Goto(c, IF r \in mem THEN "init" ELSE "lock")
           \/ /\ o = "Upgrade" /\ r \in Newest({x \in Managed : PlatformOf[x] = PlatformOf[r]})
              /\ \E i \in Installed(PlatformOf[r]) : r > i
              /\ Goto(c, "plan")
           \/ o = "Uninstall" /\ r \in Installed(PlatformOf[r]) /\ Goto(c, "check")
    /\ UNCHANGED <<installer, store>>

\* The Installer of the libraries manager is granted.  With no_overwrite, the
\* handler gives up if some release is installed.
Lock(c) ==
    /\ pc[c] = "lock" /\ installer = Nobody
    /\ \/ Goto(c, "plan") /\ installer' = c /\ UNCHANGED job
       \/ InstalledFor(c) # {} /\ Abort(c)
    /\ UNCHANGED store

\* Which tools are missing; the archives are downloaded.
Plan(c) ==
    /\ pc[c] = "plan"
    /\ \/ /\ job' = [job EXCEPT ![c] = HasToDo(@, Requires[@.target] \ mem)]
          /\ Goto(c, "tools")
          /\ UNCHANGED installer
       \/ "fetch" \in Faults /\ Abort(c)
    /\ UNCHANGED store

\* InstallTool: a tool found installed meanwhile is skipped.
InstallTool(c) ==
    /\ pc[c] = "tools"
    /\ \E t \in job[c].todo :
        /\ job' = [job EXCEPT ![c] = Handles(HasToDo(@, @.todo \ {t}), @.doing, t)]
        /\ Goto(c, IF t \in mem THEN "tools" ELSE "unpack")
    /\ UNCHANGED <<installer, store>>

Unpack(c) ==
    /\ pc[c] = "unpack"
    /\ \/ Place(job[c].victim) /\ Goto(c, "tools") /\ UNCHANGED <<job, installer>>
       \/ FailToPlace(job[c].victim) /\ Abort(c)

\* Mutant: the old release is removed before the new one is in place.
ReadInstalledRemoving(c) ==
    /\ pc[c] = "tools" /\ job[c].todo = {}
    /\ job' = [job EXCEPT ![c] = IsToReplace(@, InstalledFor(c))]
    /\ mem' = mem \ InstalledFor(c)
    /\ disk' = [x \in Items |-> IF x \in InstalledFor(c) THEN "absent" ELSE disk[x]]
    /\ Goto(c, "place")
    /\ UNCHANGED installer

\* The tools are there: which release is to be replaced is read only now.
ReadInstalled(c) ==
    /\ pc[c] = "tools" /\ job[c].todo = {}
    /\ job' = [job EXCEPT ![c] = IsToReplace(@, InstalledFor(c))]
    /\ Goto(c, "place")
    /\ UNCHANGED <<installer, store>>

\* InstallPlatformInDirectory up to the call of PatchPlatformForAndroid.
InstallPlatform(c) ==
    /\ pc[c] = "place"
    /\ \/ Place(job[c].target) /\ Goto(c, "patch") /\ UNCHANGED <<job, installer>>
       \/ FailToPlace(job[c].target) /\ Abort(c)

\* PatchPlatformForAndroid returns, and the rest of InstallPlatformInDirectory.
Patched(c) ==
    /\ pc[c] = "patch"
    /\ IF job[c].old = {} THEN Goto(c, "finish") /\ UNCHANGED job
       ELSE \E r \in job[c].old : Uninstall(c, "old", r)
    /\ UNCHANGED <<installer, store>>

-----------------------------------------------------------------------------
\* Where an uninstallation leads.  The tools of the release are dropped when it
\* is gone; a completed rollback ends the call with the error that caused it.
Gone(c) ==
    LET drop(T) == /\ job' = [job EXCEPT ![c] = HasToDo(@, T)]
                   /\ Goto(c, "drop")
                   /\ UNCHANGED installer
    IN  \/ job[c].doing = "old"    /\ drop(UNION {Requires[r] : r \in job[c].old})
        \/ job[c].doing = "target" /\ drop(Requires[job[c].target])
        \/ job[c].doing = "tool"   /\ drop(job[c].todo)
        \/ job[c].doing = "undo"   /\ Abort(c)

\* When the old release cannot be removed the new one is (the rollback); a tool
\* that cannot be removed is left.
NotGone(c) ==
    \/ job[c].doing = "old" /\ Uninstall(c, "undo", job[c].target) /\ UNCHANGED installer
    \/ job[c].doing = "tool" /\ Goto(c, "drop") /\ UNCHANGED <<job, installer>>
    \/ job[c].doing \in {"undo", "target"} /\ Abort(c)

\* Mutant: nobody asks whether the release is managed.
CheckInstalledAnywhere(c) ==
    /\ pc[c] = "check"
    /\ IF job[c].victim \in mem
       THEN Goto(c, "remove") /\ UNCHANGED <<job, installer>>
       ELSE NotGone(c)
    /\ UNCHANGED store

\* UninstallPlatform and UninstallTool: first the checks, then a pre_uninstall
\* script runs.
CheckInstalled(c) ==
    /\ pc[c] = "check"
    /\ IF job[c].victim \in mem \ Manual
       THEN Goto(c, "remove") /\ UNCHANGED <<job, installer>>
       ELSE NotGone(c)
    /\ UNCHANGED store

\* Mutant: the InstallDir of what is removed is not reset.
RemoveKeepingInstallDir(c) ==
    LET x == job[c].victim
    IN  /\ pc[c] = "remove" /\ x \in mem
        /\ disk' = [disk EXCEPT ![x] = "absent"]
        /\ UNCHANGED mem
        /\ Gone(c)

\* Then the directory goes.
Remove(c) ==
    LET x == job[c].victim
    IN  /\ pc[c] = "remove" /\ x \in mem
        /\ \/ /\ disk' = [disk EXCEPT ![x] = "absent"]
              /\ mem' = mem \ {x}
              /\ Gone(c)
           \/ /\ \/ "keep" \in Faults /\ UNCHANGED disk
                 \/ "tear" \in Faults /\ \E part \in Part(x) : disk' = [disk EXCEPT ![x] = part]
              /\ UNCHANGED mem
              /\ NotGone(c)

\* The tools of the removed release go if no platform needs them.
DropTool(c) ==
    /\ pc[c] = "drop"
    /\ \E t \in job[c].todo :
        IF IsToolRequired(t)
        THEN job' = [job EXCEPT ![c] = HasToDo(@, @.todo \ {t})] /\ UNCHANGED pc
        ELSE /\ job' = [job EXCEPT ![c] = Handles(HasToDo(@, @.todo \ {t}), "tool", t)]
             /\ Goto(c, "check")
    /\ UNCHANGED <<installer, store>>

Dropped(c) ==
    /\ pc[c] = "drop" /\ job[c].todo = {}
    /\ Goto(c, IF job[c].op = "Uninstall" THEN "init" ELSE "finish")
    /\ UNCHANGED <<job, installer, store>>

\* The post_install script, unless skipped, wants the platform installed.  An
\* upgrade goes on to the libraries, which may fail.
Finish(c) ==
    /\ pc[c] = "finish"
    /\ \/ Goto(c, "init") /\ Release(c) /\ UNCHANGED job
       \/ job[c].target \notin mem /\ Abort(c)
       \/ job[c].op = "Upgrade" /\ "fetch" \in Faults /\ Abort(c)
    /\ UNCHANGED store

\* The Init of a successful call, once no call holds an Explorer.
Reinit(c) ==
    /\ pc[c] = "init"
    /\ \A d \in Calls : pc[d] \in {"idle", "init"}
    /\ mem' \in Loadable
    /\ Goto(c, "idle")
    /\ job' = [job EXCEPT ![c] = NoJob]
    /\ UNCHANGED <<installer, disk>>

-----------------------------------------------------------------------------
\* The process ends; the next one starts from what is on the disk.
Restart ==
    /\ pc' = [c \in Calls |-> "idle"]
    /\ job' = [c \in Calls |-> NoJob]
    /\ installer' = Nobody
    /\ mem' \in Loadable
    /\ UNCHANGED disk

\* The platform is in place and PatchPlatformForAndroid panics: its first
\* statement is a panic, and nothing in the daemon recovers.
PatchPanics(c) == "panic" \in Faults /\ pc[c] = "patch" /\ Restart

\* The InstallDir that was checked before the script ran is nil now: RemoveAll
\* dereferences it and panics.
NilInstallDir(c) == pc[c] = "remove" /\ job[c].victim \notin mem /\ Restart

Killed == /\ "kill" \in Faults
          /\ \E c \in Calls : pc[c] # "idle"
          /\ Restart

Step(c) == \/ Begin(c) \/ Lock(c) \/ Plan(c) \/ InstallTool(c) \/ Unpack(c)
           \/ ReadInstalled(c) \/ InstallPlatform(c) \/ Patched(c) \/ PatchPanics(c)
           \/ CheckInstalled(c) \/ Remove(c) \/ NilInstallDir(c)
           \/ DropTool(c) \/ Dropped(c) \/ Finish(c) \/ Reinit(c)

Next == ((\E c \in Calls : Step(c)) \/ Killed) /\ UNCHANGED world

Spec == Init /\ [][Next]_vars

-----------------------------------------------------------------------------
Labels == {"idle", "lock", "plan", "tools", "unpack", "place", "patch",
           "check", "remove", "drop", "finish", "init"}

\* The values the state ranges over, and the lock with the call that has it.
TypeOK ==
    /\ world \in Worlds
    /\ pc \in [Calls -> Labels] /\ job \in [Calls -> Jobs]
    /\ installer \in Calls \cup {Nobody}
    /\ mem \subseteq Items /\ disk \in [Items -> {"absent", "whole", "torn", "debris", "broken"}]
    /\ installer # Nobody => pc[installer] \notin {"idle", "lock", "init"}

AllIdle == \A c \in Calls : pc[c] = "idle"
Alone   == world.atOnce = 1

\* What uninstallations and upgrades drop is never needed, when calls run one
\* by one and nothing fails but downloads and the placing of files: the release
\* that counts as installed has all its tools, whole (install_uninstall.go:400:
\* "IsToolRequired returns true if any of the installed platforms requires the
\* toolRelease passed as parameter").  A copy that stops midway is excluded: half a tool
\* counts as installed after the next Init, and half a release for the installed one.
ToolsKept ==
    AllIdle /\ Alone /\ Faults \subseteq {"fetch", "move"}
    => \A r \in Managed : r \in Installed(PlatformOf[r]) =>
           \A t \in Requires[r] : t \in mem /\ disk[t] = "whole"

\* The InstallDir fields say what is on the disk, whatever fails, also while calls run:
\* what is installed is there; what is whole is installed, unless a copy that stopped midway
\* may hide it; nothing is there in part unless a removal or a copy stopped midway.  Excluded
\* are calls at once of which one fails to place what the other has just installed.
MemoryMatchesDisk ==
    Alone \/ "move" \notin Faults
    => /\ mem \subseteq {x \in Items : disk[x] # "absent"}
       /\ "copy" \notin Faults => {x \in Items : disk[x] = "whole"} \subseteq mem
       /\ Faults \cap {"tear", "copy"} = {} => \A x \in Items : disk[x] \in {"absent", "whole"}

\* No tool that no platform needs is left by calls that run one by one, when nothing
\* fails and no release of the sketchbook, which cannot be replaced, has one rolled back
\* (commands.proto:97: "Uninstall a platform as well as its tool dependencies that are
\* not used by other installed platforms").
NoOrphanTools ==
    AllIdle /\ Alone /\ Faults = {} /\ Manual = {}
    => \A t \in Tools \cap mem : \E r \in Releases \cap mem : t \in Requires[r]

\* A release the user put in the sketchbook is never removed or replaced,
\* whatever fails around it.
ManualKept == \A r \in Manual : disk[r] = "whole"

\* The end of call c, an installation or upgrade to r that replaces a release, leaves
\* the platform of r installed, unless an earlier removal had already left debris of the
\* release to replace, and nothing had taken its place.
KeepsPlatform(c, r) ==
    /\ pc'[c] = "idle" /\ job[c].op # "Uninstall"
    /\ job[c].target = r /\ job[c].old # {}
    => \/ Installed(PlatformOf[r])' # {}
       \/ pc[c] = "place" /\ \E x \in job[c].old : disk[x] = "debris"

\* A replaced platform is never lost by calls that run one by one, whether they
\* succeed, fail, roll back or are cut (commands.proto:90: "Download and install a
\* platform").
KeepsThePlatformAlone ==
    [][Alone => \A c \in Calls, r \in Releases : KeepsPlatform(c, r)]_vars

\* A successful installation or upgrade ends with the release it was asked for
\* and without the one it replaced.
InstallsTheTarget ==
    Alone => \A c \in Calls : pc[c] = "init" /\ job[c].op # "Uninstall" =>
                 job[c].target \in mem /\ \A r \in job[c].old : r \notin mem

\* The invariant of the module: the types, the releases of the sketchbook, and what a
\* call that succeeds ends with.
InstallInv == TypeOK /\ ManualKept /\ InstallsTheTarget
=============================================================================
