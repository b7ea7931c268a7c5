------------------------- MODULE PlatformInstall_proofs -------------------------
(***************************************************************************)
(* Proofs about PlatformInstall, for any releases, tools and calls, and    *)
(* for whatever fails.                                                     *)
(***************************************************************************)
EXTENDS PlatformInstall, FiniteSetTheorems, WellFoundedInduction, TLAPS

USE ReleasesOK DEF Items, Managed, Manual, Faults

-----------------------------------------------------------------------------
\* What a call is at, by where it is: its release, and what it may uninstall.
At(l, j) ==
    /\ l = "idle" => j = NoJob
    /\ l # "idle" => j.target \in Releases
    /\ l \in {"lock", "plan", "tools", "unpack", "place", "patch"} =>
          j.op # "Uninstall" /\ j.target \in Managed
    /\ l = "unpack" => j.victim \in Tools
    /\ l \in {"check", "remove"} =>
          /\ j.doing = "tool" => j.victim \in Tools
          /\ j.doing = "old" => j.op # "Uninstall" /\ j.victim \in j.old
          /\ j.doing = "undo" => j.op # "Uninstall" /\ j.victim = j.target
          /\ j.doing = "target" => j.op = "Uninstall" /\ j.victim = j.target
    /\ l = "remove" => j.victim \notin Manual

JobOK(c) == At(pc[c], job[c])

\* The types, the calls, the releases of the sketchbook; only an installation has the lock.
SafeInv ==
    /\ TypeOK /\ ManualKept /\ \A c \in Calls : JobOK(c)
    /\ installer # Nobody => job[installer].op # "Uninstall"

-----------------------------------------------------------------------------
\* Where call c stands with its release r and the releases it replaces, when it is the
\* only one.
Replacing(c) == pc[c] = "patch" \/ (pc[c] \in {"check", "remove"} /\ job[c].doing \in {"old", "undo"})

Replaced(c) ==
    \/ pc[c] \in {"drop", "finish", "init"}
    \/ pc[c] \in {"check", "remove"} /\ job[c].doing = "tool"

AloneJob(c) ==
    job[c].op # "Uninstall" =>
        /\ pc[c] \in {"lock", "plan", "tools", "unpack", "place"} => job[c].target \notin mem
        /\ pc[c] \in {"lock", "plan", "tools", "unpack"} => job[c].old = {}
        /\ pc[c] = "unpack" => job[c].victim \notin mem
        /\ pc[c] = "place" => job[c].old = InstalledFor(c)
        /\ Replacing(c) =>
              /\ job[c].target \in mem \ job[c].old /\ job[c].old \subseteq mem
              /\ \A r, s \in job[c].old : r = s
        /\ Replaced(c) => job[c].target \in mem /\ job[c].old \cap mem = {}

\* What it replaces is of the same platform, and what it has put in place is whole.
AloneWhole(c) ==
    job[c].op # "Uninstall" =>
        /\ \A r \in job[c].old : PlatformOf[r] = PlatformOf[job[c].target]
        /\ Replacing(c) \/ (Replaced(c) /\ job[c].old # {}) => disk[job[c].target] = "whole"

\* What is in place is known to be, and what is known is there, at least a part of it.
Known == /\ "copy" \notin Faults => \A x \in Items : disk[x] # "broken" /\ (disk[x] = "whole" => x \in mem)
         /\ \A x \in mem : disk[x] # "absent"
         /\ Faults \cap {"tear", "copy"} = {} => \A x \in Items : disk[x] \in {"absent", "whole"}

AloneInv ==
    /\ Alone => /\ \A c, d \in Calls : pc[c] # "idle" /\ pc[d] # "idle" => c = d
                /\ \A c \in Calls : AloneJob(c) /\ AloneWhole(c)
    /\ Alone \/ "move" \notin Faults => Known

-----------------------------------------------------------------------------
\* Nothing fails but downloads and the placing of files, and calls run one by one: the
\* managed releases in place have their tools, and are one for each platform, but for the
\* one that is just being replaced.
Orderly == Alone /\ Faults \subseteq {"fetch", "move"}

Siblings(c) == {r \in Managed \cap mem : PlatformOf[r] = PlatformOf[job[c].target]}

HaveTools == \A r \in Managed \cap mem : Requires[r] \subseteq mem

OrderlyCall(c) ==
    /\ pc[c] \in {"tools", "unpack", "place"} =>
          Requires[job[c].target] \subseteq
              mem \cup (IF pc[c] = "place" THEN {} ELSE job[c].todo)
                  \cup (IF pc[c] = "unpack" THEN {job[c].victim} ELSE {})
    /\ Replacing(c) => Siblings(c) \subseteq {job[c].target} \cup job[c].old
    /\ pc[c] \in {"check", "remove"} /\ job[c].doing = "undo" => Siblings(c) \subseteq {job[c].target}
    /\ pc[c] \in {"check", "remove"} /\ job[c].doing = "tool" => ~IsToolRequired(job[c].victim)

OneEach ==
    \A r, s \in Managed \cap mem :
        PlatformOf[r] = PlatformOf[s] =>
            r = s \/ \E c \in Calls : Replacing(c) /\ PlatformOf[job[c].target] = PlatformOf[r]

OrderlyInv == HaveTools /\ OneEach /\ \A c \in Calls : OrderlyCall(c)

\* Nothing fails at all, and no release is in the sketchbook: a tool in place is needed,
\* or about to be, or about to go.
Smooth == Alone /\ Faults = {} /\ Manual = {}

Wanted(c, t) ==
    \/ pc[c] \in {"tools", "unpack", "place"} /\ t \in Requires[job[c].target]
    \/ pc[c] = "drop" /\ t \in job[c].todo
    \/ pc[c] \in {"check", "remove"} /\ job[c].doing = "tool" /\ t \in job[c].todo \cup {job[c].victim}

SmoothCall(c) ==
    /\ pc[c] \in {"tools", "unpack"} => job[c].todo \subseteq Requires[job[c].target]
    /\ pc[c] = "unpack" => job[c].victim \in Requires[job[c].target]
    /\ pc[c] \in {"check", "remove"} => job[c].doing # "undo"
    /\ pc[c] = "remove" => job[c].victim \in mem

NoOrphan ==
    \A t \in Tools \cap mem : (\E r \in Releases \cap mem : t \in Requires[r]) \/ \E c \in Calls : Wanted(c, t)

SmoothInv == NoOrphan /\ \A c \in Calls : SmoothCall(c)

InstallationInv ==
    SafeInv /\ AloneInv /\ (Orderly => OrderlyInv) /\ (Smooth => SmoothInv)

-----------------------------------------------------------------------------
\* The steps of a call that do not end the process.
Proceed(c) == \/ Begin(c) \/ Lock(c) \/ Plan(c) \/ InstallTool(c) \/ Unpack(c)
              \/ ReadInstalled(c) \/ InstallPlatform(c) \/ Patched(c)
              \/ CheckInstalled(c) \/ Remove(c) \/ DropTool(c) \/ Dropped(c) \/ Finish(c) \/ Reinit(c)

LEMMA NextCases ==
    ASSUME [Next]_vars
    PROVE  \/ \E c \in Calls : Proceed(c) /\ world' = world
           \/ /\ Restart /\ world' = world
              /\ Faults \cap {"kill", "panic"} # {} \/ \E c \in Calls : NilInstallDir(c)
           \/ UNCHANGED vars
BY DEF Next, Step, Proceed, PatchPanics, NilInstallDir, Killed

\* What the updates of a job change.
IsWithTodo(k, j, T) ==
    /\ k \in Jobs /\ k.op = j.op /\ k.target = j.target /\ k.old = j.old
    /\ k.doing = j.doing /\ k.victim = j.victim /\ k.todo = T

IsWithOld(k, j, R) ==
    /\ k \in Jobs /\ k.op = j.op /\ k.target = j.target /\ k.todo = j.todo
    /\ k.doing = j.doing /\ k.victim = j.victim /\ k.old = R

IsWithVictim(k, j, d, v) ==
    /\ k \in Jobs /\ k.op = j.op /\ k.target = j.target /\ k.todo = j.todo
    /\ k.old = j.old /\ k.doing = d /\ k.victim = v

IsForTool(k, j, T, d, v) ==
    /\ k \in Jobs /\ k.op = j.op /\ k.target = j.target /\ k.todo = T
    /\ k.old = j.old /\ k.doing = d /\ k.victim = v

IsNew(k, o, r) ==
    /\ k \in Jobs /\ k.op = o /\ k.target = r /\ k.victim = r
    /\ k.old = {} /\ k.todo = {} /\ k.doing = "target"

LEMMA ToDoJob ==
    ASSUME NEW j \in Jobs, NEW T \in SUBSET Tools
    PROVE  IsWithTodo(HasToDo(j, T), j, T)
BY DEF IsWithTodo, Jobs, HasToDo

LEMMA ReplacingJob ==
    ASSUME NEW j \in Jobs, NEW R \in SUBSET Releases
    PROVE  IsWithOld(IsToReplace(j, R), j, R)
BY DEF IsWithOld, Jobs, IsToReplace

LEMMA HandlingJob ==
    ASSUME NEW j \in Jobs, NEW d \in {"old", "undo", "target", "tool"}, NEW v \in Items \cup {0}
    PROVE  IsWithVictim(Handles(j, d, v), j, d, v)
BY DEF IsWithVictim, Jobs, Handles

LEMMA ToolJob ==
    ASSUME NEW j \in Jobs, NEW T \in SUBSET Tools, NEW d \in {"old", "undo", "target", "tool"},
           NEW v \in Items \cup {0}
    PROVE  IsForTool(Handles(HasToDo(j, T), d, v), j, T, d, v)
<1>1. IsWithTodo(HasToDo(j, T), j, T)
  BY ToDoJob
<1>2. HasToDo(j, T) \in Jobs
  BY <1>1 DEF IsWithTodo
<1>3. IsWithVictim(Handles(HasToDo(j, T), d, v), HasToDo(j, T), d, v)
  BY <1>2, HandlingJob
<1> QED
  BY <1>1, <1>3 DEF IsWithTodo, IsWithVictim, IsForTool

LEMMA StartingJob ==
    /\ NoJob \in Jobs /\ NoJob.op = "Install" /\ NoJob.old = {}
    /\ \A o \in Ops, r \in Releases : IsNew(NewJob(o, r), o, r)
<1>1. NoJob \in Jobs /\ NoJob.op = "Install" /\ NoJob.old = {}
  BY DEF Jobs, NoJob, Ops
<1> QED
  BY <1>1 DEF IsNew, Jobs, NoJob, NewJob

\* The call moves to label l with job j, and no other call is touched.
MovesTo(c, l, j) == pc' = [pc EXCEPT ![c] = l] /\ job' = [job EXCEPT ![c] = j]

\* Where each step of call c leads it, to label l with job j, and what else the step does.
BeginLeads(c, l, j) ==
    /\ pc[c] = "idle" /\ Cardinality({d \in Calls : pc[d] # "idle"}) < world.atOnce
    /\ \E o \in Mix, r \in Releases :
          /\ IsNew(j, o, r)
          /\ \/ o = "Install" /\ r \in Managed /\ l = IF r \in mem THEN "init" ELSE "lock"
             \/ /\ o = "Upgrade" /\ l = "plan" /\ r \in Newest({x \in Managed : PlatformOf[x] = PlatformOf[r]})
                /\ \E i \in Installed(PlatformOf[r]) : r > i
             \/ o = "Uninstall" /\ r \in Installed(PlatformOf[r]) /\ l = "check"
    /\ UNCHANGED <<mem, disk>>

\* The call goes on with the job it has, or ends.
GoesOn(c, l, j) == l \in Labels \ {"idle"} /\ j = job[c]
Ends(l, j)      == l = "idle" /\ j = NoJob

LockLeads(c, l, j) ==
    pc[c] = "lock" /\ UNCHANGED <<mem, disk>> /\ ((l = "plan" /\ GoesOn(c, l, j)) \/ Ends(l, j))

PlanLeads(c, l, j) ==
    /\ pc[c] = "plan" /\ UNCHANGED <<mem, disk>>
    /\ \/ l = "tools" /\ IsWithTodo(j, job[c], Requires[job[c].target] \ mem)
       \/ Ends(l, j)

InstallToolLeads(c, l, j) ==
    /\ pc[c] = "tools" /\ UNCHANGED <<mem, disk>>
    /\ \E t \in job[c].todo :
          /\ IsForTool(j, job[c], job[c].todo \ {t}, job[c].doing, t)
          /\ l = IF t \in mem THEN "tools" ELSE "unpack"

UnpackLeads(c, l, j) ==
    /\ pc[c] = "unpack"
    /\ \/ l = "tools" /\ GoesOn(c, l, j) /\ Place(job[c].victim)
       \/ Ends(l, j) /\ FailToPlace(job[c].victim)

ReadInstalledLeads(c, l, j) ==
    /\ pc[c] = "tools" /\ job[c].todo = {} /\ UNCHANGED <<mem, disk>>
    /\ l = "place" /\ IsWithOld(j, job[c], InstalledFor(c))

InstallPlatformLeads(c, l, j) ==
    /\ pc[c] = "place"
    /\ \/ l = "patch" /\ GoesOn(c, l, j) /\ Place(job[c].target)
       \/ Ends(l, j) /\ FailToPlace(job[c].target)

PatchedLeads(c, l, j) ==
    /\ pc[c] = "patch" /\ UNCHANGED <<mem, disk>>
    /\ \/ job[c].old = {} /\ l = "finish" /\ GoesOn(c, l, j)
       \/ \E r \in job[c].old : l = "check" /\ IsWithVictim(j, job[c], "old", r)

GoneLeads(c, l, j) ==
    \/ job[c].doing = "old" /\ l = "drop" /\ IsWithTodo(j, job[c], UNION {Requires[r] : r \in job[c].old})
    \/ job[c].doing = "target" /\ l = "drop" /\ IsWithTodo(j, job[c], Requires[job[c].target])
    \/ job[c].doing = "tool" /\ l = "drop" /\ IsWithTodo(j, job[c], job[c].todo)
    \/ job[c].doing = "undo" /\ Ends(l, j)

NotGoneLeads(c, l, j) ==
    \/ job[c].doing = "old" /\ l = "check" /\ IsWithVictim(j, job[c], "undo", job[c].target)
    \/ job[c].doing = "tool" /\ l = "drop" /\ GoesOn(c, l, j)
    \/ job[c].doing \in {"undo", "target"} /\ Ends(l, j)

CheckInstalledLeads(c, l, j) ==
    /\ pc[c] = "check" /\ UNCHANGED <<mem, disk>>
    /\ \/ job[c].victim \in mem \ Manual /\ l = "remove" /\ GoesOn(c, l, j)
       \/ job[c].victim \notin mem \ Manual /\ NotGoneLeads(c, l, j)

RemoveLeads(c, l, j) ==
    /\ pc[c] = "remove" /\ job[c].victim \in mem
    /\ \/ /\ disk' = [disk EXCEPT ![job[c].victim] = "absent"]
          /\ mem' = mem \ {job[c].victim} /\ GoneLeads(c, l, j)
       \/ /\ \/ "keep" \in Faults /\ UNCHANGED disk
             \/ "tear" \in Faults /\ \E part \in Part(job[c].victim) : disk' = [disk EXCEPT ![job[c].victim] = part]
          /\ UNCHANGED mem /\ NotGoneLeads(c, l, j)

DropToolLeads(c, l, j) ==
    /\ pc[c] = "drop" /\ UNCHANGED <<mem, disk>>
    /\ \E t \in job[c].todo :
          \/ IsToolRequired(t) /\ l = "drop" /\ IsWithTodo(j, job[c], job[c].todo \ {t})
          \/ ~IsToolRequired(t) /\ l = "check" /\ IsForTool(j, job[c], job[c].todo \ {t}, "tool", t)

DroppedLeads(c, l, j) ==
    /\ pc[c] = "drop" /\ job[c].todo = {} /\ UNCHANGED <<mem, disk>>
    /\ l = (IF job[c].op = "Uninstall" THEN "init" ELSE "finish") /\ GoesOn(c, l, j)

FinishLeads(c, l, j) ==
    pc[c] = "finish" /\ UNCHANGED <<mem, disk>> /\ ((l = "init" /\ GoesOn(c, l, j)) \/ Ends(l, j))

ReinitLeads(c, l, j) ==
    /\ pc[c] = "init" /\ (\A d \in Calls : pc[d] \in {"idle", "init"})
    /\ mem' \in Loadable /\ UNCHANGED disk /\ Ends(l, j)

Leads(c, l, j) ==
    \/ BeginLeads(c, l, j) \/ LockLeads(c, l, j) \/ PlanLeads(c, l, j) \/ InstallToolLeads(c, l, j)
    \/ UnpackLeads(c, l, j) \/ ReadInstalledLeads(c, l, j) \/ InstallPlatformLeads(c, l, j)
    \/ PatchedLeads(c, l, j) \/ CheckInstalledLeads(c, l, j) \/ RemoveLeads(c, l, j)
    \/ DropToolLeads(c, l, j) \/ DroppedLeads(c, l, j) \/ FinishLeads(c, l, j) \/ ReinitLeads(c, l, j)

LEMMA ProceedLeads ==
    ASSUME TypeOK, NEW c \in Calls, JobOK(c), Proceed(c)
    PROVE  \E l, j : MovesTo(c, l, j) /\ Leads(c, l, j)
<1> USE DEF Goto, Abort, MovesTo, GoesOn, Ends, Labels, store
<1>0. /\ job[c] \in Jobs /\ job = [job EXCEPT ![c] = job[c]] /\ pc = [pc EXCEPT ![c] = pc[c]]
      /\ job[c].todo \in SUBSET Tools /\ job[c].old \in SUBSET Releases
      /\ job[c].doing \in {"old", "undo", "target", "tool"}
      /\ pc[c] # "idle" => job[c].target \in Releases
  BY DEF TypeOK, Jobs, JobOK, At
<1>1. CASE Begin(c)
  <2>1. PICK o \in Mix, r \in Releases :
          /\ job' = [job EXCEPT ![c] = NewJob(o, r)]
          /\ \/ o = "Install" /\ r \in Managed /\ Goto(c, IF r \in mem THEN "init" ELSE "lock")
             \/ /\ o = "Upgrade" /\ r \in Newest({x \in Managed : PlatformOf[x] = PlatformOf[r]})
                /\ \E i \in Installed(PlatformOf[r]) : r > i
                /\ Goto(c, "plan")
             \/ o = "Uninstall" /\ r \in Installed(PlatformOf[r]) /\ Goto(c, "check")
    BY <1>1 DEF Begin
  <2>2. /\ pc[c] = "idle" /\ Cardinality({d \in Calls : pc[d] # "idle"}) < world.atOnce
        /\ UNCHANGED <<mem, disk>>
    BY <1>1 DEF Begin
  <2>3. \E l : MovesTo(c, l, NewJob(o, r)) /\ BeginLeads(c, l, NewJob(o, r))
    <3>1. IsNew(NewJob(o, r), o, r)
      BY StartingJob DEF Mix, TypeOK
    <3> QED
      BY <2>1, <2>2, <3>1 DEF BeginLeads
  <2> QED
    BY <2>3 DEF Leads
<1>2. CASE Lock(c)
  <2>1. \E l, j : MovesTo(c, l, j) /\ LockLeads(c, l, j)
    BY <1>2, <1>0 DEF Lock, LockLeads
  <2> QED
    BY <2>1 DEF Leads
<1>3. CASE Plan(c)
  <2>1. \E l, j : MovesTo(c, l, j) /\ PlanLeads(c, l, j)
    <3>1. IsWithTodo(HasToDo(job[c], Requires[job[c].target] \ mem), job[c], Requires[job[c].target] \ mem)
      <4>1. Requires[job[c].target] \ mem \in SUBSET Tools
        BY <1>3, <1>0 DEF Plan
      <4> QED
        BY <1>0, <4>1, ToDoJob
    <3> QED
      BY <1>3, <1>0, <3>1 DEF Plan, PlanLeads
  <2> QED
    BY <2>1 DEF Leads
<1>4. CASE InstallTool(c)
  <2>1. \E l, j : MovesTo(c, l, j) /\ InstallToolLeads(c, l, j)
    <3>1. PICK t \in job[c].todo :
            /\ job' = [job EXCEPT ![c] = Handles(HasToDo(job[c], job[c].todo \ {t}), job[c].doing, t)]
            /\ Goto(c, IF t \in mem THEN "tools" ELSE "unpack")
      BY <1>4 DEF InstallTool
    <3>2. t \in Items \cup {0} /\ job[c].todo \ {t} \in SUBSET Tools
      BY <1>0
    <3>3. IsForTool(Handles(HasToDo(job[c], job[c].todo \ {t}), job[c].doing, t), job[c], job[c].todo \ {t}, job[c].doing, t)
      BY <1>0, <3>2, ToolJob
    <3> QED
      BY <1>4, <3>1, <3>3 DEF InstallTool, InstallToolLeads
  <2> QED
    BY <2>1 DEF Leads
<1>5. CASE Unpack(c)
  <2>1. \E l, j : MovesTo(c, l, j) /\ UnpackLeads(c, l, j)
    BY <1>5, <1>0 DEF Unpack, UnpackLeads
  <2> QED
    BY <2>1 DEF Leads
<1>6. CASE ReadInstalled(c)
  <2>1. \E l, j : MovesTo(c, l, j) /\ ReadInstalledLeads(c, l, j)
    <3>1. InstalledFor(c) \in SUBSET Releases
      BY DEF InstalledFor, Installed, Newest
    <3>2. IsWithOld(IsToReplace(job[c], InstalledFor(c)), job[c], InstalledFor(c))
      BY <1>0, <3>1, ReplacingJob
    <3> QED
      BY <1>6, <3>2 DEF ReadInstalled, ReadInstalledLeads
  <2> QED
    BY <2>1 DEF Leads
<1>7. CASE InstallPlatform(c)
  <2>1. \E l, j : MovesTo(c, l, j) /\ InstallPlatformLeads(c, l, j)
    BY <1>7, <1>0 DEF InstallPlatform, InstallPlatformLeads
  <2> QED
    BY <2>1 DEF Leads
<1>8. CASE Patched(c)
  <2>1. \E l, j : MovesTo(c, l, j) /\ PatchedLeads(c, l, j)
    <3>1. CASE job[c].old = {}
      BY <3>1, <1>8, <1>0 DEF Patched, PatchedLeads
    <3>2. ASSUME NEW r \in job[c].old, Uninstall(c, "old", r)
          PROVE  \E l, j : MovesTo(c, l, j) /\ PatchedLeads(c, l, j)
      <4>1. r \in Items \cup {0}
        BY <1>0
      <4>2. IsWithVictim(Handles(job[c], "old", r), job[c], "old", r)
        BY <1>0, <4>1, HandlingJob
      <4> QED
        BY <1>8, <3>2, <4>2 DEF Patched, Uninstall, PatchedLeads
    <3> QED
      BY <1>8, <3>1, <3>2 DEF Patched
  <2> QED
    BY <2>1 DEF Leads
<1>9. ASSUME NotGone(c), pc[c] # "idle" PROVE \E l, j : MovesTo(c, l, j) /\ NotGoneLeads(c, l, j)
  <2>1. CASE job[c].doing = "old" /\ Uninstall(c, "undo", job[c].target)
    <3>1. job[c].target \in Items \cup {0}
      BY <1>0, <1>9
    <3>2. IsWithVictim(Handles(job[c], "undo", job[c].target), job[c], "undo", job[c].target)
      BY <1>0, <3>1, HandlingJob
    <3> QED
      BY <2>1, <3>2 DEF Uninstall, NotGoneLeads
  <2>2. CASE job[c].doing = "tool" /\ Goto(c, "drop") /\ UNCHANGED job
    <3>1. MovesTo(c, "drop", job[c])
      BY <2>2, <1>0
    <3>2. NotGoneLeads(c, "drop", job[c])
      BY <2>2 DEF NotGoneLeads
    <3> QED
      BY <3>1, <3>2
  <2>3. CASE job[c].doing \in {"undo", "target"} /\ Abort(c)
    BY <2>3 DEF NotGoneLeads
  <2> QED
    BY <1>9, <2>1, <2>2, <2>3 DEF NotGone
<1>10. ASSUME Gone(c), pc[c] # "idle" PROVE \E l, j : MovesTo(c, l, j) /\ GoneLeads(c, l, j)
  <2>1. ASSUME NEW T \in SUBSET Tools, job' = [job EXCEPT ![c] = HasToDo(job[c], T)], Goto(c, "drop")
        PROVE  \E j : IsWithTodo(j, job[c], T) /\ MovesTo(c, "drop", j)
    BY <2>1, <1>0, ToDoJob
  <2>2. /\ UNION {Requires[r] : r \in job[c].old} \in SUBSET Tools
        /\ Requires[job[c].target] \in SUBSET Tools
    BY <1>0, <1>10
  <2>3. CASE job[c].doing = "old"
    <3>1. \E j : IsWithTodo(j, job[c], UNION {Requires[r] : r \in job[c].old}) /\ MovesTo(c, "drop", j)
      BY <1>10, <2>1, <2>2, <2>3 DEF Gone
    <3> QED
      BY <2>3, <3>1 DEF GoneLeads
  <2>4. CASE job[c].doing = "target"
    <3>1. \E j : IsWithTodo(j, job[c], Requires[job[c].target]) /\ MovesTo(c, "drop", j)
      BY <1>10, <2>1, <2>2, <2>4 DEF Gone
    <3> QED
      BY <2>4, <3>1 DEF GoneLeads
  <2>5. CASE job[c].doing = "tool"
    <3>1. \E j : IsWithTodo(j, job[c], job[c].todo) /\ MovesTo(c, "drop", j)
      BY <1>0, <1>10, <2>1, <2>5 DEF Gone
    <3> QED
      BY <2>5, <3>1 DEF GoneLeads
  <2>6. CASE job[c].doing = "undo"
    BY <1>10, <2>6 DEF Gone, GoneLeads
  <2> QED
    BY <1>0, <2>3, <2>4, <2>5, <2>6
<1>11. CASE CheckInstalled(c)
  <2>1. \E l, j : MovesTo(c, l, j) /\ CheckInstalledLeads(c, l, j)
    <3>1. CASE job[c].victim \in mem \ Manual
      BY <3>1, <1>11, <1>0 DEF CheckInstalled, CheckInstalledLeads
    <3>2. CASE job[c].victim \notin mem \ Manual
      BY <3>2, <1>11, <1>9 DEF CheckInstalled, CheckInstalledLeads
    <3> QED
      BY <3>1, <3>2
  <2> QED
    BY <2>1 DEF Leads
<1>12. CASE Remove(c)
  <2>1. \E l, j : MovesTo(c, l, j) /\ RemoveLeads(c, l, j)
    <3>1. CASE Gone(c) /\ mem' = mem \ {job[c].victim} /\ disk' = [disk EXCEPT ![job[c].victim] = "absent"]
      BY <3>1, <1>12, <1>10 DEF Remove, RemoveLeads
    <3>2. CASE /\ NotGone(c) /\ UNCHANGED mem
               /\ \/ "keep" \in Faults /\ UNCHANGED disk
                  \/ "tear" \in Faults /\ \E part \in Part(job[c].victim) : disk' = [disk EXCEPT ![job[c].victim] = part]
      BY <3>2, <1>12, <1>9 DEF Remove, RemoveLeads
    <3> QED
      BY <1>12, <3>1, <3>2 DEF Remove
  <2> QED
    BY <2>1 DEF Leads
<1>13. CASE DropTool(c)
  <2>1. \E l, j : MovesTo(c, l, j) /\ DropToolLeads(c, l, j)
    <3>1. PICK t \in job[c].todo :
            IF IsToolRequired(t)
            THEN job' = [job EXCEPT ![c] = HasToDo(job[c], job[c].todo \ {t})] /\ UNCHANGED pc
            ELSE /\ job' = [job EXCEPT ![c] = Handles(HasToDo(job[c], job[c].todo \ {t}), "tool", t)]
                 /\ Goto(c, "check")
      BY <1>13 DEF DropTool
    <3>2. pc[c] = "drop" /\ UNCHANGED <<mem, disk>>
      BY <1>13 DEF DropTool
    <3>3. CASE IsToolRequired(t)
      <4>1. MovesTo(c, "drop", HasToDo(job[c], job[c].todo \ {t}))
        BY <1>0, <3>1, <3>2, <3>3
      <4>2. IsWithTodo(HasToDo(job[c], job[c].todo \ {t}), job[c], job[c].todo \ {t})
        BY <1>0, ToDoJob
      <4> QED
        BY <3>2, <3>3, <4>1, <4>2 DEF DropToolLeads
    <3>4. CASE ~IsToolRequired(t)
      <4>1. t \in Items \cup {0} /\ job[c].todo \ {t} \in SUBSET Tools
        BY <1>0
      <4>2. IsForTool(Handles(HasToDo(job[c], job[c].todo \ {t}), "tool", t), job[c], job[c].todo \ {t}, "tool", t)
        BY <1>0, <4>1, ToolJob
      <4> QED
        BY <3>1, <3>2, <3>4, <4>2 DEF DropToolLeads
    <3> QED
      BY <3>3, <3>4
  <2> QED
    BY <2>1 DEF Leads
<1>14. CASE Dropped(c)
  <2>1. \E l, j : MovesTo(c, l, j) /\ DroppedLeads(c, l, j)
    BY <1>14, <1>0 DEF Dropped, DroppedLeads
  <2> QED
    BY <2>1 DEF Leads
<1>15. CASE Finish(c)
  <2>1. \E l, j : MovesTo(c, l, j) /\ FinishLeads(c, l, j)
    BY <1>15, <1>0 DEF Finish, FinishLeads
  <2> QED
    BY <2>1 DEF Leads
<1>16. CASE Reinit(c)
  <2>1. \E l, j : MovesTo(c, l, j) /\ ReinitLeads(c, l, j)
    BY <1>16, <1>0 DEF Reinit, ReinitLeads
  <2> QED
    BY <2>1 DEF Leads
<1> QED
  BY <1>1, <1>2, <1>3, <1>4, <1>5, <1>6, <1>7, <1>8, <1>11, <1>12, <1>13, <1>14, <1>15, <1>16
     DEF Proceed

\* Where a step leads fits the place.
LEMMA LeadsAt ==
    ASSUME TypeOK, NEW c \in Calls, JobOK(c), NEW l, NEW j, Leads(c, l, j)
    PROVE  l \in Labels /\ j \in Jobs /\ At(l, j)
<1> USE DEF JobOK, GoesOn, Ends, Labels, At, IsNew, IsWithTodo, IsWithOld, IsWithVictim, IsForTool
<1>0. job[c] \in Jobs /\ NoJob \in Jobs /\ job[c].todo \in SUBSET Tools /\ job[c].target \in Releases \cup {0}
  BY StartingJob DEF TypeOK, Jobs
<1>1. CASE BeginLeads(c, l, j)
  BY <1>1 DEF BeginLeads, Newest
<1>2. CASE LockLeads(c, l, j) \/ FinishLeads(c, l, j) \/ ReinitLeads(c, l, j) \/ DroppedLeads(c, l, j)
  BY <1>2, <1>0 DEF LockLeads, FinishLeads, ReinitLeads, DroppedLeads
<1>3. CASE PlanLeads(c, l, j)
  BY <1>3, <1>0 DEF PlanLeads
<1>4. CASE InstallToolLeads(c, l, j)
  BY <1>4, <1>0 DEF InstallToolLeads
<1>5. CASE UnpackLeads(c, l, j) \/ InstallPlatformLeads(c, l, j)
  BY <1>5, <1>0 DEF UnpackLeads, InstallPlatformLeads
<1>6. CASE ReadInstalledLeads(c, l, j)
  BY <1>6, <1>0 DEF ReadInstalledLeads
<1>7. CASE PatchedLeads(c, l, j)
  BY <1>7, <1>0 DEF PatchedLeads
<1>8. ASSUME NotGoneLeads(c, l, j), pc[c] \in {"check", "remove"} PROVE l \in Labels /\ j \in Jobs /\ At(l, j)
  BY <1>8, <1>0 DEF NotGoneLeads
<1>9. ASSUME GoneLeads(c, l, j), pc[c] \in {"check", "remove"} PROVE l \in Labels /\ j \in Jobs /\ At(l, j)
  BY <1>9, <1>0 DEF GoneLeads
<1>10. CASE CheckInstalledLeads(c, l, j)
  <2>1. CASE job[c].victim \in mem \ Manual /\ l = "remove" /\ GoesOn(c, l, j)
    BY <2>1, <1>0, <1>10 DEF CheckInstalledLeads
  <2>2. CASE NotGoneLeads(c, l, j)
    BY <2>2, <1>8, <1>10 DEF CheckInstalledLeads
  <2> QED
    BY <1>10, <2>1, <2>2 DEF CheckInstalledLeads
<1>11. CASE RemoveLeads(c, l, j)
  BY <1>11, <1>8, <1>9 DEF RemoveLeads
<1>12. CASE DropToolLeads(c, l, j)
  BY <1>12, <1>0 DEF DropToolLeads
<1> QED
  BY <1>1, <1>2, <1>3, <1>4, <1>5, <1>6, <1>7, <1>10, <1>11, <1>12 DEF Leads

\* A call does what it began to do, for its release.
LEMMA SameErrand ==
    ASSUME TypeOK, NEW c \in Calls, NEW l, NEW j, Leads(c, l, j), pc[c] # "idle", l # "idle"
    PROVE  j.op = job[c].op /\ j.target = job[c].target
BY DEF Leads, BeginLeads, LockLeads, FinishLeads, ReinitLeads, DroppedLeads, PlanLeads, InstallToolLeads,
   UnpackLeads, InstallPlatformLeads, ReadInstalledLeads, PatchedLeads, CheckInstalledLeads, RemoveLeads,
   DropToolLeads, GoneLeads, NotGoneLeads, GoesOn, Ends, IsWithTodo, IsWithOld, IsWithVictim, IsForTool

\* What is loaded is there, and what is there but not loaded is hidden by a release of its
\* platform that is.
LEMMA Loaded ==
    ASSUME NEW M \in Loadable
    PROVE  /\ M \subseteq Items /\ \A x \in M : disk[x] # "absent"
           /\ \A x \in Items : disk[x] \notin {"absent", "debris"} =>
                  x \in M \/ \E y \in M : x \in Managed /\ y \in Managed /\ disk[y] = "broken"
                                       /\ PlatformOf[x] = PlatformOf[y]
BY DEF Loadable, Hides

LEMMA LoadedNext ==
    ASSUME mem' \in Loadable, disk' = disk, world' = world
    PROVE  /\ \A x \in mem' : disk'[x] # "absent"
           /\ \A x \in Items : disk'[x] = "whole" =>
                  x \in mem' \/ \E y \in Items : disk'[y] = "broken"
<1> DEFINE M == mem'
<1>1. M \in Loadable
  OBVIOUS
<1> HIDE DEF M
<1>2. /\ M \subseteq Items /\ \A x \in M : disk[x] # "absent"
      /\ \A x \in Items : disk[x] \notin {"absent", "debris"} =>
             x \in M \/ \E y \in M : disk[y] = "broken"
  BY <1>1, Loaded
<1>3. \A x \in Items : disk[x] = "whole" => x \in M \/ \E y \in Items : disk[y] = "broken"
  BY <1>2
<1> QED
  BY <1>2, <1>3 DEF M

LEMMA PlatformLoaded ==
    ASSUME NEW M \in Loadable, NEW x \in Releases, disk[x] \notin {"absent", "debris"}
    PROVE  \E z \in Releases \cap M : PlatformOf[z] = PlatformOf[x]
<1>1. x \in Items
  OBVIOUS
<1>2. x \in M \/ \E y \in M : /\ x \in Managed /\ y \in Managed /\ disk[y] = "broken"
                              /\ PlatformOf[x] = PlatformOf[y]
  <2> HIDE DEF Items, Managed
  <2> QED
    BY <1>1, Loaded
<1> QED
  BY <1>2

LEMMA LoadedAlike ==
    ASSUME TypeOK, NEW M \in Loadable, \A x \in Items : disk[x] \in {"absent", "whole"}
    PROVE  M = {x \in Items : disk[x] = "whole"}
BY Loaded

\* What a step does to what is installed: nothing, or it puts something in place, fails to,
\* removes something that is not in the sketchbook, or reads the disk again.
Changes(c) ==
    \/ UNCHANGED <<mem, disk>>
    \/ \E x \in Items \ Manual : Place(x) \/ FailToPlace(x)
    \/ \E x \in Items \ Manual, v \in {"absent", "torn", "debris", "broken"} : disk' = [disk EXCEPT ![x] = v] /\ mem' \in {mem, mem \ {x}}
    \/ mem' \in Loadable /\ UNCHANGED disk

LEMMA LeadsChanges ==
    ASSUME TypeOK, NEW c \in Calls, JobOK(c), NEW l, NEW j, Leads(c, l, j)
    PROVE  Changes(c)
<1> USE DEF Changes
<1>0. Manual \cap Tools = {} /\ Manual \subseteq Releases
  BY DEF TypeOK
<1>1. CASE UnpackLeads(c, l, j)
  <2>1. job[c].victim \in Items \ Manual
    BY <1>1, <1>0 DEF UnpackLeads, JobOK, At
  <2> QED
    BY <1>1, <2>1 DEF UnpackLeads
<1>2. CASE InstallPlatformLeads(c, l, j)
  <2>1. job[c].target \in Items \ Manual
    BY <1>2, <1>0 DEF InstallPlatformLeads, JobOK, At
  <2> QED
    BY <1>2, <2>1 DEF InstallPlatformLeads
<1>3. CASE RemoveLeads(c, l, j)
  <2>1. job[c].victim \in Items \ Manual
    BY <1>3, <1>0 DEF RemoveLeads, JobOK, At, TypeOK
  <2>2. Part(job[c].victim) \subseteq {"torn", "debris", "broken"}
    BY DEF Part
  <2> QED
    BY <1>3, <2>1, <2>2 DEF RemoveLeads
<1>4. CASE ReinitLeads(c, l, j)
  BY <1>4 DEF ReinitLeads
<1>5. CASE UNCHANGED <<mem, disk>>
  BY <1>5
<1> QED
  BY <1>1, <1>2, <1>3, <1>4, <1>5 DEF Leads, BeginLeads, LockLeads, FinishLeads, DroppedLeads, PlanLeads,
     InstallToolLeads, ReadInstalledLeads, PatchedLeads, CheckInstalledLeads, DropToolLeads

LEMMA ChangesKeep ==
    ASSUME TypeOK, ManualKept, world' = world, NEW c \in Calls, Changes(c)
    PROVE  mem' \subseteq Items /\ disk' \in [Items -> {"absent", "whole", "torn", "debris", "broken"}] /\ ManualKept'
<1>1. CASE mem' \in Loadable /\ UNCHANGED disk
  BY <1>1, Loaded DEF TypeOK, ManualKept
<1>2. CASE UNCHANGED <<mem, disk>>
  BY <1>2 DEF TypeOK, ManualKept
<1>3. ASSUME NEW x \in Items \ Manual, Place(x) \/ FailToPlace(x)
      PROVE  mem' \subseteq Items /\ disk' \in [Items -> {"absent", "whole", "torn", "debris", "broken"}] /\ ManualKept'
  <2>1. PICK v \in {"absent", "whole", "torn", "debris", "broken"} :
          mem' \in {mem, mem \cup {x}} /\ disk' \in {disk, [disk EXCEPT ![x] = v]}
    BY <1>3 DEF Place, FailToPlace, Part, PartCopy
  <2>2. mem' \subseteq Items
    BY <2>1 DEF TypeOK
  <2>3. CASE UNCHANGED disk
    BY <2>2, <2>3 DEF TypeOK, ManualKept
  <2>4. CASE disk' = [disk EXCEPT ![x] = v]
    BY <2>2, <2>4 DEF TypeOK, ManualKept
  <2> QED
    BY <2>1, <2>3, <2>4
<1>4. ASSUME NEW x \in Items \ Manual, NEW v \in {"absent", "torn", "debris", "broken"},
             disk' = [disk EXCEPT ![x] = v], mem' \in {mem, mem \ {x}}
      PROVE  mem' \subseteq Items /\ disk' \in [Items -> {"absent", "whole", "torn", "debris", "broken"}] /\ ManualKept'
  BY <1>4 DEF TypeOK, ManualKept
<1> QED
  BY <1>1, <1>2, <1>3, <1>4 DEF Changes

\* The lock is with the call that takes it, until that call ends.
LEMMA LockIsFreed ==
    ASSUME SafeInv, NEW c \in Calls, Proceed(c), NEW l, NEW j, MovesTo(c, l, j)
    PROVE  /\ installer' \in {installer, c, Nobody}
           /\ installer' = c => l \notin {"idle", "lock", "init"}
           /\ installer' = c /\ installer # c => pc[c] = "lock"
<1> USE DEF SafeInv, TypeOK, JobOK, At, MovesTo, Goto, Abort, Release, Labels
<1>1. CASE Begin(c)
  BY <1>1 DEF Begin
<1>2. CASE Lock(c) \/ Finish(c) \/ Plan(c)
  BY <1>2 DEF Lock, Finish, Plan
<1>3. CASE InstallTool(c) \/ Unpack(c) \/ ReadInstalled(c) \/ InstallPlatform(c)
  BY <1>3 DEF InstallTool, Unpack, ReadInstalled, InstallPlatform
<1>4. CASE Patched(c)
  BY <1>4 DEF Patched, Uninstall
<1>5. CASE CheckInstalled(c)
  BY <1>5 DEF CheckInstalled, NotGone, Uninstall
<1>6. CASE Remove(c)
  BY <1>6 DEF Remove, Gone, NotGone, Uninstall
<1>7. CASE DropTool(c) \/ Dropped(c)
  BY <1>7 DEF DropTool, Dropped
<1>8. CASE Reinit(c)
  BY <1>8 DEF Reinit
<1> QED
  BY <1>1, <1>2, <1>3, <1>4, <1>5, <1>6, <1>7, <1>8 DEF Proceed

\* The end of the process, and what it starts from again.
LEMMA RestartSafe ==
    ASSUME SafeInv, Restart, world' = world
    PROVE  SafeInv'
<1>1. NoJob \in Jobs /\ At("idle", NoJob)
  BY StartingJob DEF At
<1>2. /\ pc' = [c \in Calls |-> "idle"] /\ job' = [c \in Calls |-> NoJob] /\ installer' = Nobody
      /\ mem' \in Loadable /\ disk' = disk
  BY DEF Restart
<1>3. TypeOK'
  BY <1>1, <1>2, Loaded DEF SafeInv, TypeOK, Labels
<1>4. ManualKept'
  BY <1>2 DEF SafeInv, ManualKept
<1>5. \A c \in Calls : JobOK(c)'
  BY <1>2 DEF JobOK, At
<1> QED
  BY <1>2, <1>3, <1>4, <1>5 DEF SafeInv

LEMMA StepSafe ==
    ASSUME SafeInv, [Next]_vars
    PROVE  SafeInv'
<1>1. ASSUME NEW c \in Calls, Proceed(c), world' = world PROVE SafeInv'
  <2>1. PICK l, j : MovesTo(c, l, j) /\ Leads(c, l, j)
    BY <1>1, ProceedLeads DEF SafeInv
  <2>2. l \in Labels /\ j \in Jobs /\ At(l, j)
    BY <2>1, LeadsAt DEF SafeInv
  <2>3. Changes(c)
    BY <2>1, LeadsChanges DEF SafeInv
  <2>4. mem' \subseteq Items /\ disk' \in [Items -> {"absent", "whole", "torn", "debris", "broken"}] /\ ManualKept'
    BY <1>1, <2>3, ChangesKeep DEF SafeInv
  <2>5. /\ installer' \in {installer, c, Nobody}
        /\ installer' = c => l \notin {"idle", "lock", "init"}
        /\ installer' = c /\ installer # c => pc[c] = "lock"
    BY <1>1, <2>1, LockIsFreed
  <2>6. pc' \in [Calls -> Labels] /\ job' \in [Calls -> Jobs]
    BY <2>1, <2>2 DEF SafeInv, TypeOK, MovesTo
  <2>7. \A d \in Calls : JobOK(d)'
    BY <1>1, <2>1, <2>2 DEF SafeInv, TypeOK, JobOK, MovesTo, At
  <2>8. pc'[c] = l /\ job'[c] = j /\ \A d \in Calls : d # c => pc'[d] = pc[d] /\ job'[d] = job[d]
    BY <2>1 DEF SafeInv, TypeOK, MovesTo
  <2>9. installer' # Nobody => pc'[installer'] \notin {"idle", "lock", "init"}
    BY <2>5, <2>8 DEF SafeInv, TypeOK
  <2>10. installer' # Nobody => job'[installer'].op # "Uninstall"
    <3>1. CASE installer' = c
      <4>1. pc[c] # "idle" /\ l # "idle" /\ job[c].op # "Uninstall"
        BY <2>5, <3>1 DEF SafeInv, TypeOK, JobOK, At
      <4> QED
        BY <2>1, <2>8, <3>1, <4>1, SameErrand DEF SafeInv
    <3>2. CASE installer' # c
      BY <2>5, <2>8, <3>2 DEF SafeInv, TypeOK
    <3> QED
      BY <3>1, <3>2
  <2>11. TypeOK'
    BY <1>1, <2>4, <2>5, <2>6, <2>9 DEF SafeInv, TypeOK
  <2> QED
    BY <2>4, <2>7, <2>10, <2>11 DEF SafeInv
<1>2. CASE UNCHANGED vars
  BY <1>2 DEF vars, store, SafeInv, TypeOK, ManualKept, JobOK, At
<1> QED
  BY <1>1, <1>2, RestartSafe, NextCases

LEMMA InitSafe ==
    ASSUME Init
    PROVE  SafeInv
<1>1. NoJob \in Jobs /\ At("idle", NoJob)
  BY StartingJob DEF At
<1>2. PICK S \in SUBSET Managed : mem = Manual \cup S \cup UNION {Requires[r] : r \in S \cup Manual}
  BY DEF Init
<1>3. world \in Worlds /\ Manual \subseteq Releases
  BY DEF Init
<1>4. mem \subseteq Items /\ Manual \subseteq mem
  <2>1. \A r \in Releases : Requires[r] \subseteq Tools
    OBVIOUS
  <2>2. UNION {Requires[r] : r \in S \cup Manual} \subseteq Tools
    BY <1>3, <2>1
  <2> QED
    BY <1>2, <1>3, <2>2
<1>5. TypeOK /\ ManualKept
  BY <1>1, <1>3, <1>4 DEF Init, TypeOK, ManualKept, Labels
<1>6. \A c \in Calls : JobOK(c)
  BY <1>1 DEF Init, JobOK
<1> QED
  BY <1>5, <1>6 DEF SafeInv, Init

\* Whatever fails, the state has its type, a call is where its job says, and a release of
\* the sketchbook stays whole.
THEOREM InstallSafe == Spec => []SafeInv
<1>1. SafeInv /\ [Next]_vars => SafeInv'
  BY StepSafe
<1> QED
  BY InitSafe, <1>1, PTL DEF Spec

\* The releases of the sketchbook are never removed or replaced, whatever fails around them
\* (UninstallPlatform and DownloadAndInstallPlatformAndTools of install_uninstall.go).
THEOREM SketchbookIsKept == Spec => []ManualKept
<1>1. SafeInv => ManualKept
  BY DEF SafeInv
<1> QED
  BY InstallSafe, <1>1, PTL

-----------------------------------------------------------------------------
\* Some release is the newest one.
LEMMA NewestExists ==
    ASSUME NEW S \in SUBSET Releases, S # {}
    PROVE  Newest(S) # {}
<1> DEFINE Above(x) == {y \in S : y > x}
           All      == {Above(x) : x \in S}
<1>1. IsFiniteSet(S) /\ S \subseteq Nat
  BY FS_Subset
<1>2. All \subseteq FiniteSubsetsOf(S) /\ All # {}
  <2>1. \A x \in S : Above(x) \in SUBSET S /\ IsFiniteSet(Above(x))
    BY <1>1, FS_Subset
  <2>2. All \subseteq FiniteSubsetsOf(S)
    <3> HIDE DEF Above
    <3> QED
      BY <2>1 DEF FiniteSubsetsOf
  <2>3. PICK x \in S : TRUE
    OBVIOUS
  <2>4. Above(x) \in All
    OBVIOUS
  <2> QED
    BY <2>2, <2>4
<1>3. PICK m \in All : \A T \in All : <<T, m>> \notin StrictSubsetOrdering(S)
  <2> HIDE DEF All
  <2> QED
    BY <1>2, FS_StrictSubsetOrderingWellFounded, WFMin
<1>4. PICK x \in S : m = Above(x)
  BY <1>3
<1>5. ASSUME NEW y \in S, y > x PROVE FALSE
  <2>1. Above(y) \subseteq Above(x) /\ y \in Above(x) /\ y \notin Above(y)
    <3>1. x \in Nat /\ y \in Nat /\ \A z \in S : z \in Nat
      BY <1>1
    <3>2. \A z \in S : z > y => z > x
      BY <1>5, <3>1
    <3>3. ~(y > y)
      BY <3>1
    <3> QED
      BY <1>5, <3>2, <3>3
  <2>2. Above(y) \in All /\ Above(y) \in SUBSET S /\ Above(x) \in SUBSET S
    OBVIOUS
  <2>3. <<Above(y), Above(x)>> \in StrictSubsetOrdering(S)
    BY <2>1, <2>2 DEF StrictSubsetOrdering
  <2> QED
    BY <1>3, <1>4, <2>2, <2>3
<1> QED
  BY <1>1, <1>5 DEF Newest

LEMMA NewestIsOne ==
    ASSUME NEW S \in SUBSET Releases, NEW x \in Newest(S), NEW y \in Newest(S)
    PROVE  x = y /\ x \in S
<1>1. x \in S /\ y \in S /\ x <= y /\ y <= x
  BY DEF Newest
<1>2. x \in Nat /\ y \in Nat
  BY <1>1
<1> QED
  BY <1>1, <1>2

\* The release that counts as installed: it is one, in place, and managed if it can be.
LEMMA InstalledIsOne ==
    ASSUME NEW p
    PROVE  /\ Installed(p) \subseteq {r \in Releases \cap mem : PlatformOf[r] = p}
           /\ \A x, y \in Installed(p) : x = y
           /\ \A r \in Managed \cap mem : PlatformOf[r] = p =>
                  Installed(p) \subseteq Managed /\ \A i \in Installed(p) : ~(r > i)
<1> DEFINE all == {r \in Releases \cap mem : PlatformOf[r] = p}
           S   == IF all \ Manual # {} THEN all \ Manual ELSE all
<1>1. S \in SUBSET Releases /\ S \subseteq all /\ Installed(p) = Newest(S)
  BY DEF Installed
<1>2. \A x, y \in Installed(p) : x = y /\ x \in S
  <2> HIDE DEF S
  <2> QED
    BY <1>1, NewestIsOne
<1>3. ASSUME NEW r \in Managed \cap mem, PlatformOf[r] = p
      PROVE  Installed(p) \subseteq Managed /\ \A i \in Installed(p) : ~(r > i)
  <2>1. r \in S /\ S \subseteq Managed
    BY <1>3
  <2>2. \A i \in Installed(p) : r <= i /\ i \in S
    BY <1>1, <1>2, <2>1 DEF Newest
  <2>3. \A i \in S : i \in Nat
    BY <1>1
  <2>4. \A i \in Installed(p) : i \in Managed /\ r <= i /\ i \in Nat /\ r \in Nat
    <3> HIDE DEF S
    <3> QED
      BY <2>1, <2>2, <2>3
  <2> QED
    BY <2>4
<1> QED
  BY <1>1, <1>2, <1>3

\* A call that is the only one knows what its own steps do.
LEMMA AloneJobStep ==
    ASSUME SafeInv, NEW c \in Calls, AloneJob(c), NEW l, NEW j, MovesTo(c, l, j), Leads(c, l, j), world' = world
    PROVE  AloneJob(c)'
<1> USE DEF AloneJob, Replacing, Replaced, GoesOn, Ends, Labels, IsNew, IsWithTodo, IsWithOld, IsWithVictim, IsForTool
<1>0. /\ pc'[c] = l /\ job'[c] = j /\ job[c] \in Jobs /\ At(pc[c], job[c])
      /\ NoJob.old = {}
  BY StartingJob DEF SafeInv, TypeOK, MovesTo, JobOK
<1>1. CASE Ends(l, j)
  BY <1>0, <1>1
<1>2. CASE BeginLeads(c, l, j)
  <2>1. PICK o \in Mix, r \in Releases :
          /\ IsNew(j, o, r)
          /\ \/ o = "Install" /\ r \in Managed /\ l = IF r \in mem THEN "init" ELSE "lock"
             \/ /\ o = "Upgrade" /\ l = "plan" /\ r \in Newest({x \in Managed : PlatformOf[x] = PlatformOf[r]})
                /\ \E i \in Installed(PlatformOf[r]) : r > i
             \/ o = "Uninstall" /\ r \in Installed(PlatformOf[r]) /\ l = "check"
    BY <1>2 DEF BeginLeads
  <2>2. UNCHANGED <<mem, disk>>
    BY <1>2 DEF BeginLeads
  <2>3. CASE o = "Install" /\ r \in Managed /\ l = IF r \in mem THEN "init" ELSE "lock"
    BY <1>0, <2>1, <2>2, <2>3
  <2>4. CASE /\ o = "Upgrade" /\ l = "plan" /\ r \in Newest({x \in Managed : PlatformOf[x] = PlatformOf[r]})
             /\ \E i \in Installed(PlatformOf[r]) : r > i
    <3>1. r \in Managed
      BY <2>4 DEF Newest
    <3>2. r \notin mem
      BY <2>4, <3>1, InstalledIsOne
    <3> QED
      BY <1>0, <2>1, <2>2, <2>4, <3>2
  <2>5. CASE o = "Uninstall"
    BY <1>0, <2>1, <2>5
  <2> QED
    BY <2>1, <2>3, <2>4, <2>5
<1>3. CASE LockLeads(c, l, j) \/ FinishLeads(c, l, j) \/ DroppedLeads(c, l, j)
  BY <1>0, <1>1, <1>3 DEF LockLeads, FinishLeads, DroppedLeads
<1>4. CASE PlanLeads(c, l, j)
  BY <1>0, <1>1, <1>4 DEF PlanLeads
<1>5. CASE InstallToolLeads(c, l, j)
  BY <1>0, <1>5 DEF InstallToolLeads
<1>6. CASE UnpackLeads(c, l, j)
  BY <1>0, <1>1, <1>6 DEF UnpackLeads, Place, At
<1>7. CASE ReadInstalledLeads(c, l, j)
  BY <1>0, <1>7 DEF ReadInstalledLeads, InstalledFor, Installed
<1>8. CASE InstallPlatformLeads(c, l, j)
  <2>1. InstalledFor(c) \subseteq mem /\ \A r, s \in InstalledFor(c) : r = s
    BY InstalledIsOne DEF InstalledFor
  <2> QED
    BY <1>0, <1>1, <1>8, <2>1 DEF InstallPlatformLeads, Place
<1>9. CASE PatchedLeads(c, l, j)
  BY <1>0, <1>9 DEF PatchedLeads, At
<1>10. ASSUME NotGoneLeads(c, l, j), pc[c] \in {"check", "remove"}, UNCHANGED mem PROVE AloneJob(c)'
  BY <1>0, <1>1, <1>10 DEF NotGoneLeads, At
<1>11. CASE CheckInstalledLeads(c, l, j)
  BY <1>0, <1>10, <1>11 DEF CheckInstalledLeads
<1>12. CASE RemoveLeads(c, l, j)
  <2>1. CASE mem' = mem \ {job[c].victim} /\ GoneLeads(c, l, j)
    <3>1. pc[c] = "remove"
      BY <1>12 DEF RemoveLeads
    <3> QED
      BY <1>0, <1>1, <2>1, <3>1 DEF GoneLeads, At
  <2>2. CASE UNCHANGED mem /\ NotGoneLeads(c, l, j)
    BY <1>10, <1>12, <2>2 DEF RemoveLeads
  <2> QED
    BY <1>12, <2>1, <2>2 DEF RemoveLeads
<1>13. CASE DropToolLeads(c, l, j)
  BY <1>0, <1>13 DEF DropToolLeads
<1>14. CASE ReinitLeads(c, l, j)
  BY <1>1, <1>14 DEF ReinitLeads
<1> QED
  BY <1>2, <1>3, <1>4, <1>5, <1>6, <1>7, <1>8, <1>9, <1>11, <1>12, <1>13, <1>14 DEF Leads

LEMMA AloneWholeStep ==
    ASSUME SafeInv, NEW c \in Calls, AloneJob(c), AloneWhole(c), NEW l, NEW j, MovesTo(c, l, j),
           Leads(c, l, j), world' = world
    PROVE  AloneWhole(c)'
<1> USE DEF AloneWhole, Replacing, Replaced, GoesOn, Ends, Labels, IsNew, IsWithTodo, IsWithOld, IsWithVictim, IsForTool
<1>0. /\ pc'[c] = l /\ job'[c] = j /\ job[c] \in Jobs /\ At(pc[c], job[c]) /\ NoJob.old = {}
      /\ disk \in [Items -> {"absent", "whole", "torn", "debris", "broken"}] /\ Releases \cap Tools = {}
  BY StartingJob DEF SafeInv, TypeOK, MovesTo, JobOK
<1>1. CASE Ends(l, j)
  BY <1>0, <1>1
<1>2. CASE BeginLeads(c, l, j)
  <2>1. j.old = {} /\ (l \in {"init", "lock", "plan"} \/ j.op = "Uninstall")
    BY <1>2 DEF BeginLeads
  <2> QED
    BY <1>0, <2>1
<1>3. CASE LockLeads(c, l, j) \/ FinishLeads(c, l, j) \/ DroppedLeads(c, l, j)
  BY <1>0, <1>1, <1>3 DEF LockLeads, FinishLeads, DroppedLeads
<1>4. CASE PlanLeads(c, l, j) \/ InstallToolLeads(c, l, j) \/ DropToolLeads(c, l, j)
  BY <1>0, <1>1, <1>4 DEF PlanLeads, InstallToolLeads, DropToolLeads
<1>5. CASE UnpackLeads(c, l, j)
  BY <1>0, <1>1, <1>5 DEF UnpackLeads
<1>6. CASE ReadInstalledLeads(c, l, j)
  <2>1. \A r \in InstalledFor(c) : PlatformOf[r] = PlatformOf[job[c].target]
    BY InstalledIsOne DEF InstalledFor
  <2> QED
    BY <1>0, <1>6, <2>1 DEF ReadInstalledLeads
<1>7. CASE InstallPlatformLeads(c, l, j)
  <2>1. CASE l = "patch" /\ j = job[c] /\ Place(job[c].target)
    <3>1. job[c].target \in Items
      BY <1>0, <1>7 DEF InstallPlatformLeads, At
    <3>2. disk'[job[c].target] = "whole"
      BY <1>0, <2>1, <3>1 DEF Place
    <3>3. pc[c] = "place"
      BY <1>7 DEF InstallPlatformLeads
    <3> QED
      BY <1>0, <2>1, <3>2, <3>3
  <2> QED
    BY <1>1, <1>7, <2>1 DEF InstallPlatformLeads
<1>8. CASE PatchedLeads(c, l, j)
  BY <1>0, <1>8 DEF PatchedLeads
<1>9. ASSUME NotGoneLeads(c, l, j), pc[c] \in {"check", "remove"}, UNCHANGED disk \/ Ends(l, j) \/ disk'[job[c].target] = disk[job[c].target]
      PROVE AloneWhole(c)'
  BY <1>0, <1>1, <1>9 DEF NotGoneLeads
<1>10. CASE CheckInstalledLeads(c, l, j)
  BY <1>0, <1>9, <1>10 DEF CheckInstalledLeads
<1>11. CASE RemoveLeads(c, l, j)
  <2>0. pc[c] = "remove" /\ job[c].target \in Releases
    BY <1>0, <1>11 DEF RemoveLeads, At
  <2>1. CASE job[c].op = "Uninstall"
    <3>1. j.op = "Uninstall" \/ Ends(l, j)
      BY <1>11, <2>1 DEF RemoveLeads, GoneLeads, NotGoneLeads
    <3> QED
      BY <1>0, <1>1, <3>1
  <2>2. CASE job[c].op # "Uninstall" /\ job[c].doing \in {"old", "tool"}
    <3>1. job[c].victim # job[c].target
      BY <1>0, <2>0, <2>2 DEF At, AloneJob
    <3>2. disk'[job[c].target] = disk[job[c].target]
      BY <1>0, <1>11, <2>0, <3>1 DEF RemoveLeads
    <3>3. CASE NotGoneLeads(c, l, j)
      BY <1>9, <2>0, <3>2, <3>3
    <3>4. CASE GoneLeads(c, l, j)
      BY <1>0, <1>1, <2>0, <2>2, <3>2, <3>4 DEF GoneLeads
    <3> QED
      BY <1>11, <3>3, <3>4 DEF RemoveLeads
  <2>3. CASE job[c].doing \in {"undo", "target"}
    <3>1. job[c].doing = "target" => job[c].op = "Uninstall"
      BY <1>0, <2>0 DEF At
    <3>2. CASE job[c].doing = "undo"
      BY <1>1, <1>11, <3>2 DEF RemoveLeads, GoneLeads, NotGoneLeads
    <3> QED
      BY <2>1, <2>3, <3>1, <3>2
  <2> QED
    BY <1>0, <2>1, <2>2, <2>3 DEF Jobs
<1>12. CASE ReinitLeads(c, l, j)
  BY <1>1, <1>12 DEF ReinitLeads
<1> QED
  BY <1>2, <1>3, <1>4, <1>5, <1>6, <1>7, <1>8, <1>10, <1>11, <1>12 DEF Leads

\* What is loaded from the disk is what is there.
LEMMA LoadedIsKnown ==
    ASSUME TypeOK, Known, mem' \in Loadable, disk' = disk, world' = world
    PROVE  Known'
<1>1. /\ \A x \in mem' : disk'[x] # "absent"
      /\ \A x \in Items : disk'[x] = "whole" => x \in mem' \/ \E y \in Items : disk'[y] = "broken"
  BY LoadedNext
<1> QED
  BY <1>1 DEF Known

LEMMA KnownStep ==
    ASSUME SafeInv, Known, NEW c \in Calls, Alone => AloneJob(c), Alone \/ "move" \notin Faults,
           NEW l, NEW j, Leads(c, l, j), world' = world
    PROVE  Known'
<1> USE DEF Known
<1>0. disk \in [Items -> {"absent", "whole", "torn", "debris", "broken"}] /\ job[c] \in Jobs /\ At(pc[c], job[c]) /\ TypeOK
  BY DEF SafeInv, TypeOK, JobOK
<1>1. CASE UNCHANGED <<mem, disk>>
  BY <1>1
<1>2. ASSUME NEW x \in Items, Place(x) PROVE Known'
  BY <1>0, <1>2 DEF Place
<1>3. ASSUME NEW x \in Items, FailToPlace(x), Alone => x \notin mem PROVE Known'
  <2>1. CASE UNCHANGED <<mem, disk>>
    BY <1>1, <2>1
  <2>2. CASE "move" \in Faults /\ disk' = [disk EXCEPT ![x] = "absent"] /\ UNCHANGED mem
    <3>1. x \notin mem
      BY <1>3, <2>2
    <3> QED
      BY <1>0, <2>2, <3>1
  <2>3. ASSUME "copy" \in Faults, NEW part \in PartCopy(x), disk' = [disk EXCEPT ![x] = part], UNCHANGED mem
        PROVE  Known'
    <3>1. part \in {"torn", "debris", "broken"}
      BY DEF Part, PartCopy
    <3> QED
      BY <1>0, <2>3, <3>1
  <2>4. ASSUME "tear" \in Faults, NEW part \in Part(x), disk' = [disk EXCEPT ![x] = part], UNCHANGED mem
        PROVE  Known'
    <3>1. part \in {"torn", "debris"}
      BY DEF Part
    <3> QED
      BY <1>0, <2>4, <3>1
  <2> QED
    BY <1>3, <2>1, <2>2, <2>3, <2>4 DEF FailToPlace
<1>4. CASE UnpackLeads(c, l, j)
  <2>1. job[c].victim \in Items /\ (Alone => job[c].victim \notin mem)
    BY <1>0, <1>4 DEF UnpackLeads, At, AloneJob
  <2> QED
    BY <1>2, <1>3, <1>4, <2>1 DEF UnpackLeads
<1>5. CASE InstallPlatformLeads(c, l, j)
  <2>1. job[c].target \in Items /\ (Alone => job[c].target \notin mem)
    BY <1>0, <1>5 DEF InstallPlatformLeads, At, AloneJob
  <2> QED
    BY <1>2, <1>3, <1>5, <2>1 DEF InstallPlatformLeads
<1>6. CASE RemoveLeads(c, l, j)
  <2> DEFINE x == job[c].victim
  <2>0. x \in Items
    BY <1>0, <1>6 DEF RemoveLeads, SafeInv, TypeOK
  <2>1. CASE disk' = [disk EXCEPT ![x] = "absent"] /\ mem' = mem \ {x}
    <3> HIDE DEF x
    <3> QED
      BY <1>0, <2>0, <2>1
  <2>2. CASE "keep" \in Faults /\ UNCHANGED <<mem, disk>>
    BY <1>1, <2>2
  <2>3. ASSUME NEW part \in {"torn", "debris"}, "tear" \in Faults, disk' = [disk EXCEPT ![x] = part], UNCHANGED mem
        PROVE  Known'
    <3> HIDE DEF x
    <3> QED
      BY <1>0, <2>0, <2>3
  <2> QED
    BY <1>6, <2>1, <2>2, <2>3 DEF RemoveLeads, Part
<1>7. CASE ReinitLeads(c, l, j)
  BY <1>0, <1>7, LoadedIsKnown DEF ReinitLeads
<1> QED
  BY <1>1, <1>4, <1>5, <1>6, <1>7 DEF Leads, BeginLeads, LockLeads, FinishLeads, DroppedLeads, PlanLeads,
     InstallToolLeads, ReadInstalledLeads, PatchedLeads, CheckInstalledLeads, DropToolLeads

\* A call begins when no other is under way.
LEMMA BeginsAlone ==
    ASSUME \A c, d \in Calls : pc[c] # "idle" /\ pc[d] # "idle" => c = d,
           Alone, NEW c \in Calls, NEW l, NEW j, BeginLeads(c, l, j), NEW d \in Calls
    PROVE  pc[d] = "idle"
<1> DEFINE busy == {e \in Calls : pc[e] # "idle"}
<1>1. Cardinality(busy) < 1
  BY DEF BeginLeads, Alone
<1>2. SUFFICES ASSUME pc[d] # "idle" PROVE FALSE
  OBVIOUS
<1>3. busy = {d}
  BY <1>2
<1>4. Cardinality(busy) = 1
  BY <1>3, FS_Singleton
<1> QED
  BY <1>1, <1>4

LEMMA StaysAlone ==
    ASSUME SafeInv, NEW c \in Calls, NEW l, NEW j, MovesTo(c, l, j), Leads(c, l, j), Alone,
           \A d, e \in Calls : pc[d] # "idle" /\ pc[e] # "idle" => d = e
    PROVE  /\ \A d \in Calls : d # c => pc[d] = "idle" /\ job[d] = NoJob /\ pc'[d] = "idle" /\ job'[d] = NoJob
           /\ \A d, e \in Calls : pc'[d] # "idle" /\ pc'[e] # "idle" => d = e
<1>1. \A d \in Calls : d # c => pc[d] = "idle"
  <2>1. CASE pc[c] # "idle"
    BY <2>1
  <2>2. CASE pc[c] = "idle"
    <3>1. BeginLeads(c, l, j)
      BY <2>2 DEF Leads, LockLeads, FinishLeads, ReinitLeads, DroppedLeads, PlanLeads, InstallToolLeads,
         UnpackLeads, InstallPlatformLeads, ReadInstalledLeads, PatchedLeads, CheckInstalledLeads, RemoveLeads,
         DropToolLeads
    <3> QED
      BY <3>1, BeginsAlone
  <2> QED
    BY <2>1, <2>2
<1>2. \A d \in Calls : d # c => job[d] = NoJob /\ pc'[d] = pc[d] /\ job'[d] = job[d]
  BY <1>1 DEF SafeInv, TypeOK, JobOK, At, MovesTo
<1> QED
  BY <1>1, <1>2

LEMMA IdleIsAlone ==
    ASSUME NEW c \in Calls, pc[c] = "idle", job[c] = NoJob
    PROVE  AloneJob(c) /\ AloneWhole(c)
BY StartingJob DEF AloneJob, AloneWhole, Replacing, Replaced

LEMMA StepAlone ==
    ASSUME SafeInv, AloneInv, [Next]_vars
    PROVE  AloneInv'
<1>1. ASSUME NEW c \in Calls, Proceed(c), world' = world PROVE AloneInv'
  <2>1. PICK l, j : MovesTo(c, l, j) /\ Leads(c, l, j)
    BY <1>1, ProceedLeads DEF SafeInv
  <2>2. Alone \/ "move" \notin Faults => Known'
    BY <1>1, <2>1, KnownStep DEF AloneInv
  <2>3. ASSUME Alone
        PROVE  /\ \A d, e \in Calls : pc'[d] # "idle" /\ pc'[e] # "idle" => d = e
               /\ \A d \in Calls : AloneJob(d)' /\ AloneWhole(d)'
    <3>1. /\ \A d \in Calls : d # c => pc'[d] = "idle" /\ job'[d] = NoJob
          /\ \A d, e \in Calls : pc'[d] # "idle" /\ pc'[e] # "idle" => d = e
      BY <2>1, <2>3, StaysAlone DEF AloneInv
    <3>2. AloneJob(c)' /\ AloneWhole(c)'
      BY <1>1, <2>1, <2>3, AloneJobStep, AloneWholeStep DEF AloneInv
    <3>3. \A d \in Calls : d # c => AloneJob(d)' /\ AloneWhole(d)'
      BY <3>1, StartingJob DEF AloneJob, AloneWhole, Replacing, Replaced
    <3> QED
      BY <3>1, <3>2, <3>3
  <2>4. Alone' <=> Alone
    BY <1>1 DEF Alone
  <2>5. Faults' = Faults
    BY <1>1
  <2> QED
    BY <2>2, <2>3, <2>4, <2>5 DEF AloneInv
<1>2. CASE Restart /\ world' = world
  <2>1. /\ pc' = [c \in Calls |-> "idle"] /\ job' = [c \in Calls |-> NoJob]
        /\ mem' \in Loadable /\ disk' = disk
    BY <1>2 DEF Restart
  <2>2. \A c \in Calls : AloneJob(c)' /\ AloneWhole(c)'
    BY <2>1, StartingJob DEF AloneJob, AloneWhole, Replacing, Replaced
  <2>3. Known => Known'
    BY <1>2, <2>1, LoadedIsKnown DEF SafeInv
  <2>4. Alone' <=> Alone
    BY <1>2 DEF Alone
  <2> QED
    BY <1>2, <2>1, <2>2, <2>3, <2>4 DEF AloneInv
<1>3. CASE UNCHANGED vars
  <2>1. UNCHANGED <<world, pc, job, mem, disk>>
    BY <1>3 DEF vars, store
  <2>2. \A c \in Calls : (AloneJob(c)' <=> AloneJob(c)) /\ (AloneWhole(c)' <=> AloneWhole(c))
    <3> TAKE c \in Calls
    <3>1. InstalledFor(c)' = InstalledFor(c)
      BY <2>1 DEF InstalledFor, Installed
    <3>2. (Replacing(c)' <=> Replacing(c)) /\ (Replaced(c)' <=> Replaced(c))
      BY <2>1 DEF Replacing, Replaced
    <3> QED
      BY <2>1, <3>1, <3>2 DEF AloneJob, AloneWhole
  <2>3. (Known' <=> Known) /\ (Alone' <=> Alone)
    BY <2>1 DEF Known, Alone
  <2> QED
    BY <2>1, <2>2, <2>3 DEF AloneInv
<1> QED
  BY <1>1, <1>2, <1>3, NextCases

LEMMA InitAlone ==
    ASSUME Init
    PROVE  AloneInv
<1>1. \A c \in Calls : AloneJob(c) /\ AloneWhole(c)
  BY IdleIsAlone DEF Init
<1>2. mem \subseteq Items
  BY InitSafe DEF SafeInv, TypeOK
<1>3. Known
  BY <1>2 DEF Init, Known
<1> QED
  BY <1>1, <1>3 DEF Init, AloneInv

\* The invariant of one call at a time.
THEOREM InstallAlone == Spec => [](SafeInv /\ AloneInv)
<1>1. SafeInv /\ AloneInv /\ [Next]_vars => (SafeInv /\ AloneInv)'
  BY StepSafe, StepAlone
<1>2. Init => SafeInv /\ AloneInv
  BY InitSafe, InitAlone
<1> QED
  BY <1>1, <1>2, PTL DEF Spec

\* A call that succeeds ends with the release it was asked for and without the one it
\* replaced, and the releases of the sketchbook are kept.
THEOREM InstallIsRight == Spec => []InstallInv
<1>1. SafeInv /\ AloneInv => InstallInv
  BY DEF SafeInv, AloneInv, InstallInv, InstallsTheTarget, AloneJob, Replaced
<1> QED
  BY InstallAlone, <1>1, PTL

\* The InstallDir fields say what is on the disk, whatever fails, also while calls run: what
\* is installed is there; what is whole is installed, unless a copy that stopped midway may
\* hide it; nothing is there in part unless a removal or a copy stopped midway; but not when
\* one of two calls at once fails to place what the other has just installed.
THEOREM MemoryIsRight == Spec => []MemoryMatchesDisk
<1>1. SafeInv /\ AloneInv => MemoryMatchesDisk
  BY DEF SafeInv, TypeOK, AloneInv, Known, MemoryMatchesDisk
<1> QED
  BY InstallAlone, <1>1, PTL

\* A platform with a release in place is installed.
LEMMA InstalledExists ==
    \A x \in Releases \cap mem : Installed(PlatformOf[x]) # {}
<1> TAKE x \in Releases \cap mem
<1> DEFINE all == {r \in Releases \cap mem : PlatformOf[r] = PlatformOf[x]}
           S   == IF all \ Manual # {} THEN all \ Manual ELSE all
<1>1. S \in SUBSET Releases /\ S # {}
  OBVIOUS
<1>2. Newest(S) # {}
  <2> HIDE DEF S
  <2> QED
    BY <1>1, NewestExists
<1> QED
  BY <1>2 DEF Installed

\* The end of a step that ends an installation of a call that is alone.
LEMMA StepKeepsPlatform ==
    ASSUME SafeInv, AloneInv, Alone, [Next]_vars, NEW c \in Calls, NEW r \in Releases
    PROVE  KeepsPlatform(c, r)
<1> SUFFICES ASSUME pc'[c] = "idle", job[c].op # "Uninstall", job[c].target = r, job[c].old # {}
             PROVE  \/ Installed(PlatformOf[r])' # {}
                    \/ pc[c] = "place" /\ \E x \in job[c].old : disk[x] = "debris"
  BY DEF KeepsPlatform
<1>0. /\ TypeOK /\ pc[c] \in Labels /\ job[c] \in Jobs /\ At(pc[c], job[c]) /\ AloneJob(c) /\ AloneWhole(c) /\ Known
      /\ disk \in [Items -> {"absent", "whole", "torn", "debris", "broken"}] /\ mem \subseteq Items
  BY DEF SafeInv, AloneInv, TypeOK, JobOK
<1>1. pc[c] \notin {"idle", "lock", "plan", "tools", "unpack"}
  BY <1>0, StartingJob DEF At, AloneJob
<1>2. CASE \E x \in Releases \cap mem' : PlatformOf[x] = PlatformOf[r]
  <2>1. \A x \in Releases \cap mem' : Installed(PlatformOf[x])' # {}
    <3>1. (\A x \in Releases \cap mem : Installed(PlatformOf[x]) # {})'
      BY InstalledExists, PTL
    <3> QED
      BY <3>1
  <2> QED
    BY <1>2, <2>1
<1>3. PICK x \in job[c].old : x \in Releases
  BY <1>0 DEF Jobs
<1>4. /\ PlatformOf[x] = PlatformOf[r] /\ r \in Releases
      /\ pc[c] = "place" => x \in mem
      /\ Replacing(c) => x \in mem /\ r # x
      /\ Replacing(c) \/ Replaced(c) => r \in mem /\ disk[r] = "whole"
  <2>1. pc[c] = "place" => job[c].old \subseteq mem
    BY <1>0, InstalledIsOne DEF AloneJob, InstalledFor
  <2> QED
    BY <1>0, <1>3, <2>1 DEF AloneJob, AloneWhole
<1>5. pc[c] = "place" \/ Replacing(c) \/ Replaced(c)
  BY <1>0, <1>1 DEF Replacing, Replaced, Labels, At, Jobs
<1>6. ASSUME NEW d \in Calls, Proceed(d), world' = world
      PROVE  \E y \in Releases \cap mem' : PlatformOf[y] = PlatformOf[r]
  <2>1. PICK l, j : MovesTo(d, l, j) /\ Leads(d, l, j)
    BY <1>6, ProceedLeads DEF SafeInv
  <2>2. d = c
    BY <1>1, <2>1, StaysAlone DEF AloneInv
  <2>3. l = "idle"
    BY <1>0, <2>1, <2>2 DEF MovesTo, TypeOK
  <2>4. CASE UNCHANGED mem
    BY <1>3, <1>4, <1>5, <2>4
  <2>5. CASE RemoveLeads(c, l, j) /\ mem' = mem \ {job[c].victim}
    <3>1. pc[c] = "remove" /\ job[c].doing = "undo"
      BY <2>3, <2>5 DEF RemoveLeads, GoneLeads, NotGoneLeads, Ends
    <3>2. job[c].victim = r /\ Replacing(c)
      BY <1>0, <3>1 DEF At, Replacing
    <3> QED
      BY <1>3, <1>4, <2>5, <3>2
  <2>6. CASE ReinitLeads(c, l, j)
    <3>1. Replaced(c)
      BY <2>6 DEF ReinitLeads, Replaced
    <3>2. r \in Releases /\ disk[r] = "whole"
      BY <1>4, <3>1
    <3> QED
      BY <1>4, <2>6, <3>2, PlatformLoaded DEF ReinitLeads
  <2>7. UNCHANGED mem \/ (RemoveLeads(c, l, j) /\ mem' = mem \ {job[c].victim}) \/ ReinitLeads(c, l, j)
    BY <1>1, <2>1, <2>2, <2>3 DEF Leads, BeginLeads, LockLeads, FinishLeads, DroppedLeads, PlanLeads,
       InstallToolLeads, UnpackLeads, InstallPlatformLeads, FailToPlace, ReadInstalledLeads, PatchedLeads,
       CheckInstalledLeads, RemoveLeads, DropToolLeads
  <2> QED
    BY <2>4, <2>5, <2>6, <2>7
<1>7. CASE Restart /\ world' = world
  <2>1. \A y \in Releases : disk[y] \notin {"absent", "debris"} =>
            \E z \in Releases \cap mem' : PlatformOf[z] = PlatformOf[y]
    BY <1>7, PlatformLoaded DEF Restart
  <2>2. CASE pc[c] = "place"
    <3>1. disk[x] # "absent"
      BY <1>0, <1>4, <2>2 DEF Known
    <3> QED
      BY <1>2, <1>3, <1>4, <2>1, <2>2, <3>1
  <2>3. CASE Replacing(c) \/ Replaced(c)
    BY <1>2, <1>4, <2>1, <2>3
  <2> QED
    BY <1>5, <2>2, <2>3
<1>8. CASE UNCHANGED vars
  BY <1>1, <1>8 DEF vars
<1> QED
  BY <1>2, <1>6, <1>7, <1>8, NextCases

\* A replaced platform is never lost by calls that run one by one, whether they succeed, fail,
\* roll back or are cut.
THEOREM PlatformIsKept == Spec => KeepsThePlatformAlone
<1>1. SafeInv /\ AloneInv /\ [Next]_vars => [Alone => \A c \in Calls, r \in Releases : KeepsPlatform(c, r)]_vars
  BY StepKeepsPlatform
<1> QED
  BY InstallAlone, <1>1, PTL DEF Spec, KeepsThePlatformAlone

-----------------------------------------------------------------------------
\* With one managed release to a platform, that is the one that counts as installed.
LEMMA TheOneIsInstalled ==
    ASSUME NEW r \in Managed \cap mem, \A s \in Managed \cap mem : PlatformOf[s] = PlatformOf[r] => s = r
    PROVE  Installed(PlatformOf[r]) = {r}
<1>1. Installed(PlatformOf[r]) # {}
  BY InstalledExists
<1>2. Installed(PlatformOf[r]) \subseteq {s \in Managed \cap mem : PlatformOf[s] = PlatformOf[r]}
  BY InstalledIsOne
<1> QED
  BY <1>1, <1>2

\* What a step changes in memory when nothing fails but downloads and the placing of files.
LEMMA OrderlyChanges ==
    ASSUME SafeInv, AloneInv, Orderly, NEW c \in Calls, NEW l, NEW j, Leads(c, l, j)
    PROVE  \/ mem' = mem
           \/ UnpackLeads(c, l, j) /\ l = "tools" /\ j = job[c] /\ mem' = mem \cup {job[c].victim}
           \/ InstallPlatformLeads(c, l, j) /\ l = "patch" /\ j = job[c] /\ mem' = mem \cup {job[c].target}
           \/ RemoveLeads(c, l, j) /\ GoneLeads(c, l, j) /\ mem' = mem \ {job[c].victim}
<1> USE DEF GoesOn, Place, FailToPlace
<1>1. CASE UnpackLeads(c, l, j)
  BY <1>1 DEF UnpackLeads
<1>2. CASE InstallPlatformLeads(c, l, j)
  BY <1>2 DEF InstallPlatformLeads
<1>3. CASE RemoveLeads(c, l, j)
  BY <1>3 DEF RemoveLeads
<1>4. CASE ReinitLeads(c, l, j)
  <2>1. Known /\ "copy" \notin Faults /\ \A x \in Items : disk[x] \in {"absent", "whole"}
    BY DEF AloneInv, Orderly, Known
  <2>2. mem \subseteq Items /\ disk \in [Items -> {"absent", "whole", "torn", "debris", "broken"}]
    BY DEF SafeInv, TypeOK
  <2>3. mem' = {x \in Items : disk[x] = "whole"}
    BY <1>4, <2>1, LoadedAlike DEF ReinitLeads, SafeInv
  <2> QED
    BY <2>1, <2>2, <2>3 DEF Known
<1> QED
  BY <1>1, <1>2, <1>3, <1>4 DEF Leads, BeginLeads, LockLeads, FinishLeads, DroppedLeads, PlanLeads,
     InstallToolLeads, ReadInstalledLeads, PatchedLeads, CheckInstalledLeads, DropToolLeads

\* The managed releases in place are one for each platform, but for the one call c replaces.
OneEachBut(c) ==
    \A r, s \in Managed \cap mem :
        PlatformOf[r] = PlatformOf[s] => r = s \/ (Replacing(c) /\ PlatformOf[job[c].target] = PlatformOf[r])

LEMMA OneEachAlone ==
    ASSUME NEW c \in Calls, \A d \in Calls : d # c => pc[d] = "idle"
    PROVE  OneEach <=> OneEachBut(c)
<1>1. \A d \in Calls : d # c => ~Replacing(d)
  BY DEF Replacing
<1> QED
  BY <1>1 DEF OneEach, OneEachBut

\* No release in place loses a tool.
LEMMA HaveToolsStep ==
    ASSUME SafeInv, AloneInv, Orderly, OrderlyInv, NEW c \in Calls, NEW l, NEW j, Leads(c, l, j),
           OneEachBut(c), world' = world
    PROVE  HaveTools'
<1>0. /\ At(pc[c], job[c]) /\ job[c] \in Jobs /\ OrderlyCall(c) /\ HaveTools
      /\ Releases \cap Tools = {} /\ \A r \in Releases : Requires[r] \subseteq Tools
  BY DEF SafeInv, TypeOK, JobOK, OrderlyInv
<1>1. CASE mem' = mem
  BY <1>0, <1>1 DEF HaveTools
<1>2. CASE UnpackLeads(c, l, j) /\ mem' = mem \cup {job[c].victim}
  <2>1. job[c].victim \in Tools
    BY <1>0, <1>2 DEF UnpackLeads, At
  <2> QED
    BY <1>0, <1>2, <2>1 DEF HaveTools
<1>3. CASE InstallPlatformLeads(c, l, j) /\ mem' = mem \cup {job[c].target}
  <2>1. Requires[job[c].target] \subseteq mem
    BY <1>0, <1>3 DEF InstallPlatformLeads, OrderlyCall
  <2> QED
    BY <1>0, <1>3, <2>1 DEF HaveTools
<1>4. CASE RemoveLeads(c, l, j) /\ GoneLeads(c, l, j) /\ mem' = mem \ {job[c].victim}
  <2>0. pc[c] = "remove"
    BY <1>4 DEF RemoveLeads
  <2>1. CASE job[c].doing = "tool"
    <3>1. ~IsToolRequired(job[c].victim) /\ ~Replacing(c)
      BY <1>0, <2>0, <2>1 DEF OrderlyCall, Replacing
    <3>2. ASSUME NEW r \in Managed \cap mem PROVE job[c].victim \notin Requires[r]
      <4>1. Installed(PlatformOf[r]) = {r}
        BY <3>1, TheOneIsInstalled DEF OneEachBut
      <4> QED
        BY <3>1, <4>1 DEF IsToolRequired
    <3> QED
      BY <1>0, <1>4, <3>2 DEF HaveTools
  <2>2. CASE job[c].doing # "tool"
    <3>1. job[c].victim \in Releases
      BY <1>0, <2>0, <2>2 DEF At, Jobs
    <3> QED
      BY <1>0, <1>4, <3>1 DEF HaveTools
  <2> QED
    BY <2>1, <2>2
<1> QED
  BY <1>1, <1>2, <1>3, <1>4, OrderlyChanges

\* The releases of the platform of a call.
LEMMA NoOtherSibling ==
    ASSUME SafeInv, AloneInv, Orderly, NEW c \in Calls, OneEachBut(c), pc[c] = "place"
    PROVE  Siblings(c) \subseteq InstalledFor(c)
<1> SUFFICES ASSUME NEW r \in Siblings(c) PROVE r \in InstalledFor(c)
  OBVIOUS
<1>1. r \in Managed \cap mem /\ PlatformOf[r] = PlatformOf[job[c].target]
  BY DEF Siblings
<1>2. \A s \in Managed \cap mem : PlatformOf[s] = PlatformOf[r] => s = r
  BY <1>1 DEF OneEachBut, Replacing
<1> QED
  BY <1>1, <1>2, TheOneIsInstalled DEF InstalledFor

\* The tools of the release being installed are there, or still to install.
LEMMA ToolsStep ==
    ASSUME SafeInv, AloneInv, Orderly, NEW c \in Calls, OrderlyCall(c),
           NEW l, NEW j, MovesTo(c, l, j), Leads(c, l, j)
    PROVE  l \in {"tools", "unpack", "place"} =>
               Requires[j.target] \subseteq
                   mem' \cup (IF l = "place" THEN {} ELSE j.todo) \cup (IF l = "unpack" THEN {j.victim} ELSE {})
<1> USE DEF GoesOn, Ends, IsWithTodo, IsWithOld, IsForTool
<1> SUFFICES ASSUME l \in {"tools", "unpack", "place"}
             PROVE  Requires[j.target] \subseteq
                        mem' \cup (IF l = "place" THEN {} ELSE j.todo) \cup (IF l = "unpack" THEN {j.victim} ELSE {})
  OBVIOUS
<1>1. CASE PlanLeads(c, l, j)
  BY <1>1 DEF PlanLeads
<1>2. CASE InstallToolLeads(c, l, j)
  BY <1>2 DEF InstallToolLeads, OrderlyCall
<1>3. CASE UnpackLeads(c, l, j)
  BY <1>3 DEF UnpackLeads, OrderlyCall, Place
<1>4. CASE ReadInstalledLeads(c, l, j)
  BY <1>4 DEF ReadInstalledLeads, OrderlyCall
<1> QED
  BY <1>1, <1>2, <1>3, <1>4 DEF Leads, BeginLeads, LockLeads, FinishLeads, ReinitLeads, DroppedLeads,
     InstallPlatformLeads, PatchedLeads, CheckInstalledLeads, RemoveLeads, GoneLeads, NotGoneLeads, DropToolLeads

\* Beside the release just put in place there is only the one it replaces.
LEMMA SiblingsStep ==
    ASSUME SafeInv, AloneInv, Orderly, NEW c \in Calls, OrderlyCall(c), OneEachBut(c),
           NEW l, NEW j, MovesTo(c, l, j), Leads(c, l, j), world' = world, Replacing(c)'
    PROVE  /\ Siblings(c)' \subseteq {j.target} \cup j.old
           /\ l \in {"check", "remove"} /\ j.doing = "undo" => Siblings(c)' \subseteq {j.target}
<1> USE DEF GoesOn, Ends, IsWithVictim
<1>0. /\ pc'[c] = l /\ job'[c] = j /\ job[c] \in Jobs /\ At(pc[c], job[c]) /\ AloneJob(c)
      /\ l = "patch" \/ (l \in {"check", "remove"} /\ j.doing \in {"old", "undo"})
  BY DEF SafeInv, AloneInv, Orderly, TypeOK, MovesTo, JobOK, Replacing
<1>1. ASSUME mem' = mem, j.target = job[c].target PROVE Siblings(c)' = Siblings(c)
  BY <1>0, <1>1 DEF Siblings
<1>2. CASE InstallPlatformLeads(c, l, j)
  <2>1. pc[c] = "place" /\ l = "patch" /\ j = job[c] /\ mem' = mem \cup {job[c].target}
    BY <1>0, <1>2 DEF InstallPlatformLeads, Place
  <2>2. Siblings(c)' \subseteq {j.target} \cup Siblings(c)
    BY <1>0, <2>1 DEF Siblings
  <2>3. Siblings(c) \subseteq j.old
    BY <1>0, <2>1, NoOtherSibling DEF AloneJob, At
  <2> QED
    BY <2>1, <2>2, <2>3
<1>3. CASE PatchedLeads(c, l, j)
  <2>1. j.target = job[c].target /\ j.old = job[c].old /\ mem' = mem /\ Replacing(c) /\ j.doing # "undo"
    BY <1>0, <1>3 DEF PatchedLeads, Replacing
  <2> QED
    BY <1>1, <2>1 DEF OrderlyCall
<1>4. CASE CheckInstalledLeads(c, l, j)
  <2>1. pc[c] = "check" /\ mem' = mem
    BY <1>4 DEF CheckInstalledLeads
  <2>2. CASE l = "remove" /\ j = job[c]
    <3>1. Replacing(c)
      BY <1>0, <2>1, <2>2 DEF Replacing
    <3> QED
      BY <1>1, <2>1, <2>2, <3>1 DEF OrderlyCall
  <2>3. CASE job[c].victim \notin mem \ Manual /\ NotGoneLeads(c, l, j)
    <3>1. job[c].doing = "old" /\ j.target = job[c].target /\ j.old = job[c].old /\ Replacing(c)
      BY <1>0, <2>1, <2>3 DEF NotGoneLeads, Replacing
    <3>2. job[c].victim \in Manual /\ \A r \in job[c].old : r = job[c].victim
      BY <1>0, <2>1, <2>3, <3>1 DEF AloneJob, At
    <3>3. Siblings(c) \subseteq {job[c].target}
      BY <3>1, <3>2 DEF OrderlyCall, Siblings
    <3> QED
      BY <1>1, <2>1, <3>1, <3>3
  <2> QED
    BY <1>4, <2>2, <2>3 DEF CheckInstalledLeads
<1>5. CASE RemoveLeads(c, l, j)
  <2>1. FALSE
    BY <1>0, <1>5 DEF RemoveLeads, GoneLeads, IsWithTodo, Orderly
  <2> QED
    BY <2>1
<1>6. BeginLeads(c, l, j) \/ DropToolLeads(c, l, j) => FALSE
  BY <1>0 DEF BeginLeads, IsNew, DropToolLeads, IsForTool, IsWithTodo
<1> QED
  BY <1>0, <1>2, <1>3, <1>4, <1>5, <1>6 DEF Leads, LockLeads, FinishLeads, ReinitLeads, DroppedLeads, PlanLeads,
     InstallToolLeads, UnpackLeads, ReadInstalledLeads

\* A tool is dropped because no platform in place needs it, and no platform comes meanwhile.
LEMMA DropStep ==
    ASSUME SafeInv, AloneInv, Orderly, NEW c \in Calls, OrderlyCall(c),
           NEW l, NEW j, MovesTo(c, l, j), Leads(c, l, j), world' = world,
           l \in {"check", "remove"}, j.doing = "tool"
    PROVE  ~IsToolRequired(j.victim)'
<1> USE DEF GoesOn, Ends, IsWithVictim, IsForTool, IsNew
<1>0. pc'[c] = l /\ job'[c] = j /\ job[c] \in Jobs
  BY DEF SafeInv, TypeOK, MovesTo
<1>1. ASSUME mem' = mem, NEW t PROVE IsToolRequired(t)' <=> IsToolRequired(t)
  <2>1. \A p : Installed(p)' = Installed(p)
    BY <1>1 DEF Installed
  <2> QED
    BY <2>1 DEF IsToolRequired
<1>2. CASE CheckInstalledLeads(c, l, j)
  <2>1. mem' = mem /\ pc[c] = "check" /\ j = job[c]
    BY <1>2 DEF CheckInstalledLeads, NotGoneLeads
  <2>2. ~IsToolRequired(j.victim)
    BY <2>1 DEF OrderlyCall
  <2> QED
    BY <1>1, <2>1, <2>2
<1>3. CASE DropToolLeads(c, l, j)
  <2>1. mem' = mem /\ ~IsToolRequired(j.victim)
    BY <1>3 DEF DropToolLeads, IsWithTodo
  <2> QED
    BY <1>1, <2>1
<1> QED
  BY <1>2, <1>3 DEF Leads, BeginLeads, LockLeads, FinishLeads, ReinitLeads, DroppedLeads, PlanLeads,
     InstallToolLeads, UnpackLeads, ReadInstalledLeads, InstallPlatformLeads, PatchedLeads, RemoveLeads,
     GoneLeads, NotGoneLeads, IsWithTodo, Orderly

\* Two managed releases of a platform are there only while one replaces the other.
LEMMA OneEachStep ==
    ASSUME SafeInv, AloneInv, Orderly, NEW c \in Calls, OrderlyCall(c), OneEachBut(c),
           NEW l, NEW j, MovesTo(c, l, j), Leads(c, l, j), world' = world
    PROVE  OneEachBut(c)'
<1> USE DEF OneEachBut
<1>0. /\ pc'[c] = l /\ job'[c] = j /\ job[c] \in Jobs /\ At(pc[c], job[c]) /\ AloneJob(c)
  BY DEF SafeInv, AloneInv, Orderly, TypeOK, MovesTo, JobOK
<1>1. CASE Replacing(c)'
  <2>1. CASE Replacing(c)
    <3>1. l # "idle" /\ pc[c] # "idle"
      BY <1>0, <1>1, <2>1 DEF Replacing
    <3>2. j.target = job[c].target
      BY <3>1, SameErrand DEF SafeInv
    <3>3. mem' \subseteq mem
      BY <1>1, <2>1, OrderlyChanges DEF Replacing, UnpackLeads, InstallPlatformLeads
    <3> QED
      BY <1>0, <1>1, <3>2, <3>3
  <2>2. CASE ~Replacing(c)
    <3>1. j.target = job[c].target /\ mem' \subseteq mem \cup {j.target}
      <4>1. InstallPlatformLeads(c, l, j)
        BY <1>0, <1>1, <2>2 DEF Leads, BeginLeads, LockLeads, FinishLeads, ReinitLeads, DroppedLeads, PlanLeads,
           InstallToolLeads, UnpackLeads, ReadInstalledLeads, InstallPlatformLeads, PatchedLeads, RemoveLeads,
           CheckInstalledLeads, DropToolLeads, GoneLeads, NotGoneLeads, GoesOn, Ends, Replacing, IsWithTodo,
           IsWithOld, IsWithVictim, IsForTool, IsNew
      <4> QED
        BY <1>0, <1>1, <4>1 DEF InstallPlatformLeads, Place, FailToPlace, GoesOn, Ends, Replacing
    <3>2. ASSUME NEW r \in Managed \cap mem', NEW s \in Managed \cap mem', PlatformOf[r] = PlatformOf[s], r # s
          PROVE  PlatformOf[j.target] = PlatformOf[r]
      BY <2>2, <3>1, <3>2
    <3> QED
      BY <1>0, <1>1, <3>2
  <2> QED
    BY <2>1, <2>2
<1>2. CASE ~Replacing(c)'
  <2>1. mem' \subseteq mem \cup Tools
    <3>1. ~(InstallPlatformLeads(c, l, j) /\ l = "patch")
      BY <1>0, <1>2 DEF Replacing
    <3> QED
      BY <1>0, <3>1, OrderlyChanges DEF UnpackLeads, At
  <2>2. ASSUME NEW r \in Managed \cap mem', NEW s \in Managed \cap mem', PlatformOf[r] = PlatformOf[s], r # s
        PROVE  FALSE
    <3>1. r \in Managed \cap mem /\ s \in Managed \cap mem
      BY <2>1, <2>2
    <3>2. Replacing(c) /\ r \in Siblings(c) /\ s \in Siblings(c)
      BY <2>2, <3>1 DEF Siblings
    <3>3. r \in {job[c].target} \cup job[c].old /\ s \in {job[c].target} \cup job[c].old
      BY <3>2 DEF OrderlyCall
    <3>4. ~(pc[c] \in {"check", "remove"} /\ job[c].doing = "undo")
      BY <2>2, <3>2 DEF OrderlyCall
    <3>5. CASE PatchedLeads(c, l, j)
      <4>1. job[c].old = {}
        BY <1>0, <1>2, <3>5 DEF PatchedLeads, Replacing, IsWithVictim
      <4> QED
        BY <2>2, <3>3, <4>1
    <3>6. CASE CheckInstalledLeads(c, l, j)
      BY <1>0, <1>2, <3>2, <3>4, <3>6 DEF CheckInstalledLeads, NotGoneLeads, GoesOn, IsWithVictim, Replacing
    <3>7. CASE RemoveLeads(c, l, j)
      <4>1. job[c].doing = "old" /\ mem' = mem \ {job[c].victim}
        BY <3>2, <3>4, <3>7 DEF RemoveLeads, Replacing, Orderly
      <4>2. \A x \in job[c].old : x = job[c].victim
        BY <1>0, <3>2, <3>7, <4>1 DEF RemoveLeads, At, AloneJob
      <4> QED
        BY <2>2, <3>3, <4>1, <4>2
    <3> QED
      BY <3>2, <3>5, <3>6, <3>7 DEF Leads, BeginLeads, LockLeads, FinishLeads, ReinitLeads, DroppedLeads, PlanLeads,
         InstallToolLeads, UnpackLeads, ReadInstalledLeads, InstallPlatformLeads, DropToolLeads, Replacing
  <2> QED
    BY <2>2
<1> QED
  BY <1>1, <1>2

\* At rest, the rest of the invariant says nothing of a call.
LEMMA IdleIsOrderly ==
    ASSUME NEW c \in Calls, pc[c] = "idle"
    PROVE  OrderlyCall(c) /\ SmoothCall(c) /\ ~Replacing(c) /\ \A t : ~Wanted(c, t)
BY DEF OrderlyCall, SmoothCall, Replacing, Wanted

LEMMA OrderlyStep ==
    ASSUME SafeInv, AloneInv, Orderly, OrderlyInv, NEW c \in Calls,
           NEW l, NEW j, MovesTo(c, l, j), Leads(c, l, j), world' = world
    PROVE  OrderlyInv'
<1>0. pc'[c] = l /\ job'[c] = j
  BY DEF SafeInv, TypeOK, MovesTo
<1>1. \A d \in Calls : d # c => pc'[d] = "idle"
  BY StaysAlone DEF AloneInv, Orderly
<1>2. OneEachBut(c)
  <2>1. \A d \in Calls : d # c => pc[d] = "idle"
    BY StaysAlone DEF AloneInv, Orderly
  <2> QED
    BY <2>1, OneEachAlone DEF OrderlyInv
<1>3. OrderlyCall(c)
  BY DEF OrderlyInv
<1>4. HaveTools'
  BY <1>2, HaveToolsStep
<1>5. OneEachBut(c)'
  BY <1>2, <1>3, OneEachStep
<1>6. OneEach'
  BY <1>5 DEF OneEach, OneEachBut
<1>7. OrderlyCall(c)'
  <2>1. l \in {"tools", "unpack", "place"} =>
            Requires[j.target] \subseteq
                mem' \cup (IF l = "place" THEN {} ELSE j.todo) \cup (IF l = "unpack" THEN {j.victim} ELSE {})
    BY <1>3, ToolsStep
  <2>2. Replacing(c)' => /\ Siblings(c)' \subseteq {j.target} \cup j.old
                         /\ l \in {"check", "remove"} /\ j.doing = "undo" => Siblings(c)' \subseteq {j.target}
    BY <1>2, <1>3, SiblingsStep
  <2>3. l \in {"check", "remove"} /\ j.doing = "undo" => Replacing(c)'
    BY <1>0 DEF Replacing
  <2>4. l \in {"check", "remove"} /\ j.doing = "tool" => ~IsToolRequired(j.victim)'
    BY <1>3, DropStep
  <2>5. IsToolRequired(job[c].victim)' <=> IsToolRequired(j.victim)'
    BY <1>0 DEF IsToolRequired, Installed
  <2> QED
    BY <1>0, <2>1, <2>2, <2>3, <2>4, <2>5 DEF OrderlyCall
<1>8. \A d \in Calls : d # c => OrderlyCall(d)'
  BY <1>1 DEF OrderlyCall, Replacing
<1> QED
  BY <1>4, <1>6, <1>7, <1>8 DEF OrderlyInv

\* The process does not end under a call that is alone, but where nothing is replaced.
LEMMA OrderlyRestart ==
    ASSUME SafeInv, AloneInv, Orderly, NEW c \in Calls, NilInstallDir(c)
    PROVE  ~Replacing(c) /\ pc[c] = "remove" /\ job[c].victim \notin mem
BY DEF SafeInv, AloneInv, Orderly, JobOK, At, AloneJob, Replacing, NilInstallDir

LEMMA ReloadedAlike ==
    ASSUME SafeInv, AloneInv, Orderly, Restart
    PROVE  mem' = mem
<1>1. Known /\ "copy" \notin Faults /\ \A x \in Items : disk[x] \in {"absent", "whole"}
  BY DEF AloneInv, Orderly, Known
<1>2. mem \subseteq Items /\ disk \in [Items -> {"absent", "whole", "torn", "debris", "broken"}]
  BY DEF SafeInv, TypeOK
<1>3. mem' = {x \in Items : disk[x] = "whole"}
  BY <1>1, LoadedAlike DEF Restart, SafeInv
<1> QED
  BY <1>1, <1>2, <1>3 DEF Known

LEMMA StepOrderly ==
    ASSUME SafeInv, AloneInv, Orderly => OrderlyInv, [Next]_vars
    PROVE  (Orderly => OrderlyInv)'
<1>0. SUFFICES ASSUME Orderly, OrderlyInv PROVE OrderlyInv'
  <2>1. Orderly' <=> Orderly
    BY DEF Orderly, Alone, Next, vars
  <2> QED
    BY <2>1
<1>1. ASSUME NEW c \in Calls, Proceed(c), world' = world PROVE OrderlyInv'
  <2>1. PICK l, j : MovesTo(c, l, j) /\ Leads(c, l, j)
    BY <1>1, ProceedLeads DEF SafeInv
  <2> QED
    BY <1>0, <1>1, <2>1, OrderlyStep
<1>2. ASSUME NEW c \in Calls, NilInstallDir(c), world' = world PROVE OrderlyInv'
  <2>1. Restart
    BY <1>2 DEF NilInstallDir
  <2>2. mem' = mem /\ \A d \in Calls : pc'[d] = "idle"
    BY <1>0, <2>1, ReloadedAlike DEF Restart
  <2>3. ~Replacing(c) /\ \A d \in Calls : d # c => pc[d] = "idle"
    BY <1>0, <1>2, OrderlyRestart DEF AloneInv, Orderly
  <2>4. OneEachBut(c)
    BY <1>0, <2>3, OneEachAlone DEF OrderlyInv
  <2>5. OneEach' /\ HaveTools'
    BY <1>0, <1>2, <2>2, <2>3, <2>4 DEF OneEach, OneEachBut, OrderlyInv, HaveTools
  <2>6. \A d \in Calls : OrderlyCall(d)'
    BY <2>2 DEF OrderlyCall, Replacing
  <2> QED
    BY <2>5, <2>6 DEF OrderlyInv
<1>3. CASE UNCHANGED vars
  <2>1. UNCHANGED <<world, pc, job, mem>>
    BY <1>3 DEF vars, store
  <2>2. \A c \in Calls : (Replacing(c)' <=> Replacing(c)) /\ Siblings(c)' = Siblings(c)
    BY <2>1 DEF Replacing, Siblings
  <2>3. \A t : IsToolRequired(t)' <=> IsToolRequired(t)
    BY <2>1 DEF IsToolRequired, Installed
  <2>4. \A c \in Calls : OrderlyCall(c)' <=> OrderlyCall(c)
    BY <2>1, <2>2, <2>3 DEF OrderlyCall
  <2>5. OneEach' /\ HaveTools'
    BY <1>0, <2>1, <2>2 DEF OneEach, HaveTools, OrderlyInv
  <2> QED
    BY <1>0, <2>4, <2>5 DEF OrderlyInv
<1>4. Faults \cap {"kill", "panic"} = {}
  BY <1>0 DEF Orderly
<1> QED
  BY <1>1, <1>2, <1>3, <1>4, NextCases

LEMMA InitOrderly ==
    ASSUME Init
    PROVE  OrderlyInv
<1>1. PICK S \in SUBSET Managed :
        /\ \A r, s \in S : PlatformOf[r] = PlatformOf[s] => r = s
        /\ mem = Manual \cup S \cup UNION {Requires[r] : r \in S \cup Manual}
  BY DEF Init
<1>2. Manual \subseteq Releases /\ UNION {Requires[r] : r \in S \cup Manual} \subseteq Tools /\ Releases \cap Tools = {}
  <2>1. world \in Worlds
    BY DEF Init
  <2>2. Manual \subseteq Releases
    BY <2>1
  <2>3. \A r \in S \cup Manual : Requires[r] \subseteq Tools
    BY <2>2
  <2> QED
    BY <2>2, <2>3
<1>3. Managed \cap mem = S
  <2> DEFINE U == UNION {Requires[r] : r \in S \cup Manual}
  <2>1. mem = Manual \cup S \cup U /\ U \subseteq Tools
    BY <1>1, <1>2
  <2> HIDE DEF U
  <2> QED
    BY <1>2, <2>1
<1>4. HaveTools /\ OneEach
  <2>1. \A r \in S : Requires[r] \subseteq mem
    BY <1>1
  <2>2. HaveTools
    BY <1>3, <2>1 DEF HaveTools
  <2>3. OneEach
    BY <1>1, <1>3 DEF OneEach
  <2> QED
    BY <2>2, <2>3
<1>5. \A c \in Calls : OrderlyCall(c)
  BY IdleIsOrderly DEF Init
<1> QED
  BY <1>4, <1>5 DEF OrderlyInv

\* The invariant of one call at a time with ordinary failures.
THEOREM InstallOrderly == Spec => [](SafeInv /\ AloneInv /\ (Orderly => OrderlyInv))
<1>1. SafeInv /\ AloneInv /\ (Orderly => OrderlyInv) /\ [Next]_vars
      => (SafeInv /\ AloneInv /\ (Orderly => OrderlyInv))'
  BY StepSafe, StepAlone, StepOrderly
<1>2. Init => SafeInv /\ AloneInv /\ (Orderly => OrderlyInv)
  BY InitSafe, InitAlone, InitOrderly
<1> QED
  BY <1>1, <1>2, PTL DEF Spec

\* What uninstallations and upgrades drop is never needed: the release that counts as installed
\* has all its tools, whole, when calls run one by one and nothing fails but downloads and the
\* placing of files (IsToolRequired of install_uninstall.go).
THEOREM ToolsAreKept == Spec => []ToolsKept
<1>1. SafeInv /\ AloneInv /\ (Orderly => OrderlyInv) => ToolsKept
  <2> SUFFICES ASSUME SafeInv, AloneInv, OrderlyInv, Orderly,
                      NEW r \in Managed, r \in Installed(PlatformOf[r]), NEW t \in Requires[r]
               PROVE  t \in mem /\ disk[t] = "whole"
    BY DEF ToolsKept, Orderly
  <2>1. r \in mem
    BY InstalledIsOne
  <2>2. t \in mem /\ t \in Items
    BY <2>1 DEF OrderlyInv, HaveTools
  <2>3. Known /\ disk \in [Items -> {"absent", "whole", "torn", "debris", "broken"}]
    BY DEF AloneInv, Orderly, SafeInv, TypeOK
  <2> QED
    BY <2>2, <2>3 DEF Known, Orderly
<1> QED
  BY InstallOrderly, <1>1, PTL

\* Nothing that fails, nothing rolled back.
LEMMA SmoothCallStep ==
    ASSUME SafeInv, AloneInv, Smooth, NEW c \in Calls, SmoothCall(c),
           NEW l, NEW j, MovesTo(c, l, j), Leads(c, l, j)
    PROVE  SmoothCall(c)'
<1> USE DEF GoesOn, Ends, IsWithTodo, IsWithOld, IsWithVictim, IsForTool, IsNew, SmoothCall, Labels
<1>0. /\ pc'[c] = l /\ job'[c] = j /\ job[c] \in Jobs /\ At(pc[c], job[c]) /\ AloneJob(c)
  BY DEF SafeInv, AloneInv, Smooth, TypeOK, MovesTo, JobOK
<1>1. CASE BeginLeads(c, l, j)
  BY <1>0, <1>1 DEF BeginLeads
<1>2. CASE LockLeads(c, l, j) \/ FinishLeads(c, l, j) \/ ReinitLeads(c, l, j) \/ DroppedLeads(c, l, j)
  BY <1>0, <1>2 DEF LockLeads, FinishLeads, ReinitLeads, DroppedLeads
<1>3. CASE PlanLeads(c, l, j)
  BY <1>0, <1>3 DEF PlanLeads
<1>4. CASE InstallToolLeads(c, l, j)
  BY <1>0, <1>4 DEF InstallToolLeads
<1>5. CASE UnpackLeads(c, l, j) \/ InstallPlatformLeads(c, l, j) \/ ReadInstalledLeads(c, l, j)
  BY <1>0, <1>5 DEF UnpackLeads, InstallPlatformLeads, ReadInstalledLeads
<1>6. CASE PatchedLeads(c, l, j) \/ DropToolLeads(c, l, j)
  BY <1>0, <1>6 DEF PatchedLeads, DropToolLeads
<1>7. CASE CheckInstalledLeads(c, l, j)
  <2>1. CASE job[c].victim \in mem \ Manual /\ l = "remove" /\ j = job[c] /\ UNCHANGED mem
    BY <1>0, <1>7, <2>1 DEF CheckInstalledLeads
  <2>2. CASE job[c].victim \notin mem /\ NotGoneLeads(c, l, j)
    <3>1. job[c].doing # "old"
      BY <1>0, <1>7, <2>2 DEF CheckInstalledLeads, AloneJob, At, Replacing
    <3> QED
      BY <1>0, <2>2, <3>1 DEF NotGoneLeads
  <2> QED
    BY <1>7, <2>1, <2>2 DEF CheckInstalledLeads, Smooth
<1>8. CASE RemoveLeads(c, l, j)
  <2>1. GoneLeads(c, l, j)
    BY <1>8 DEF RemoveLeads, Smooth
  <2> QED
    BY <1>0, <2>1 DEF GoneLeads
<1> QED
  BY <1>1, <1>2, <1>3, <1>4, <1>5, <1>6, <1>7, <1>8 DEF Leads

\* A tool in place is needed, or the call that is under way knows of it.
NoOrphanBut(c) ==
    \A t \in Tools \cap mem : (\E r \in Releases \cap mem : t \in Requires[r]) \/ Wanted(c, t)

LEMMA NoOrphanStep ==
    ASSUME SafeInv, AloneInv, Smooth, NEW c \in Calls, SmoothCall(c), NoOrphanBut(c),
           NEW l, NEW j, MovesTo(c, l, j), Leads(c, l, j)
    PROVE  NoOrphanBut(c)'
<1> USE DEF GoesOn, Ends, IsWithTodo, IsWithOld, IsWithVictim, IsForTool, IsNew, Wanted
<1>0. /\ pc'[c] = l /\ job'[c] = j /\ job[c] \in Jobs /\ At(pc[c], job[c]) /\ AloneJob(c) /\ Orderly
      /\ Releases \cap Tools = {} /\ Manual = {}
  BY DEF SafeInv, AloneInv, Smooth, Orderly, TypeOK, MovesTo, JobOK
<1>1. ASSUME mem' = mem, \A t \in Tools : Wanted(c, t) => Wanted(c, t)' \/ \E r \in Releases \cap mem : t \in Requires[r]
      PROVE NoOrphanBut(c)'
  BY <1>1 DEF NoOrphanBut
<1>2. CASE BeginLeads(c, l, j)
  BY <1>1, <1>2 DEF BeginLeads
<1>3. CASE LockLeads(c, l, j) \/ FinishLeads(c, l, j) \/ PlanLeads(c, l, j)
  BY <1>1, <1>3 DEF LockLeads, FinishLeads, PlanLeads
<1>4. CASE ReinitLeads(c, l, j)
  <2>1. mem' = mem
    BY <1>0, <1>4, OrderlyChanges DEF ReinitLeads, UnpackLeads, InstallPlatformLeads, RemoveLeads
  <2> QED
    BY <1>1, <1>4, <2>1 DEF ReinitLeads
<1>5. CASE DroppedLeads(c, l, j)
  BY <1>1, <1>5 DEF DroppedLeads
<1>6. CASE InstallToolLeads(c, l, j) \/ ReadInstalledLeads(c, l, j)
  BY <1>0, <1>1, <1>6 DEF InstallToolLeads, ReadInstalledLeads
<1>7. CASE UnpackLeads(c, l, j)
  <2>1. pc[c] = "unpack" /\ l = "tools" /\ j = job[c] /\ mem' = mem \cup {job[c].victim}
    BY <1>7 DEF UnpackLeads, FailToPlace, Place, Smooth
  <2>2. job[c].victim \in Requires[job[c].target]
    BY <2>1 DEF SmoothCall
  <2>3. \A t : Wanted(c, t)' <=> t \in Requires[job[c].target]
    BY <1>0, <2>1
  <2>4. \A t : Wanted(c, t) => t \in Requires[job[c].target]
    BY <2>1
  <2> HIDE DEF Wanted
  <2> QED
    BY <2>1, <2>2, <2>3, <2>4 DEF NoOrphanBut
<1>8. CASE InstallPlatformLeads(c, l, j)
  <2>1. pc[c] = "place" /\ mem' = mem \cup {job[c].target}
    BY <1>8 DEF InstallPlatformLeads, FailToPlace, Place, Smooth
  <2>2. job[c].target \in Releases
    BY <1>0, <2>1 DEF At
  <2>3. \A t : Wanted(c, t) => t \in Requires[job[c].target]
    BY <2>1
  <2> HIDE DEF Wanted
  <2> QED
    BY <1>0, <2>1, <2>2, <2>3 DEF NoOrphanBut
<1>9. CASE PatchedLeads(c, l, j)
  BY <1>1, <1>9 DEF PatchedLeads
<1>10. CASE CheckInstalledLeads(c, l, j)
  <2>1. mem' = mem /\ pc[c] = "check"
    BY <1>10 DEF CheckInstalledLeads
  <2>2. CASE l = "remove" /\ j = job[c]
    BY <1>0, <1>1, <2>1, <2>2
  <2>3. CASE NotGoneLeads(c, l, j) /\ job[c].victim \notin mem
    <3>1. \A t : Wanted(c, t) => Wanted(c, t)' \/ t = job[c].victim
      BY <1>0, <2>1, <2>3 DEF NotGoneLeads
    <3> HIDE DEF Wanted
    <3> QED
      BY <2>1, <2>3, <3>1 DEF NoOrphanBut
  <2> QED
    BY <1>0, <1>10, <2>2, <2>3 DEF CheckInstalledLeads
<1>11. CASE RemoveLeads(c, l, j)
  <2>1. /\ GoneLeads(c, l, j) /\ pc[c] = "remove" /\ mem' = mem \ {job[c].victim}
        /\ job[c].doing \in {"old", "target", "tool"}
    BY <1>0, <1>11 DEF RemoveLeads, Smooth, SmoothCall, Jobs
  <2>2. CASE job[c].doing = "tool"
    <3>1. \A t : Wanted(c, t) => Wanted(c, t)' \/ t = job[c].victim
      BY <1>0, <2>1, <2>2 DEF GoneLeads
    <3>2. job[c].victim \in Tools
      BY <1>0, <2>1, <2>2 DEF At
    <3> HIDE DEF Wanted
    <3> QED
      BY <1>0, <2>1, <3>1, <3>2 DEF NoOrphanBut
  <2>3. CASE job[c].doing \in {"old", "target"}
    <3>1. \A t : ~Wanted(c, t)
      BY <2>1, <2>3
    <3>2. job[c].victim \in Releases
      BY <1>0, <2>1, <2>3 DEF At, Jobs
    <3>3. \A t : t \in Requires[job[c].victim] => Wanted(c, t)'
      <4>1. CASE job[c].doing = "old"
        <5>1. l = "drop" /\ j.todo = UNION {Requires[r] : r \in job[c].old} /\ job[c].victim \in job[c].old
          BY <1>0, <2>1, <4>1 DEF GoneLeads, At
        <5> QED
          BY <1>0, <5>1
      <4>2. CASE job[c].doing = "target"
        <5>1. l = "drop" /\ j.todo = Requires[job[c].target] /\ job[c].victim = job[c].target
          BY <1>0, <2>1, <4>2 DEF GoneLeads, At
        <5> QED
          BY <1>0, <5>1
      <4> QED
        BY <2>3, <4>1, <4>2
    <3> HIDE DEF Wanted
    <3> QED
      BY <1>0, <2>1, <3>1, <3>2, <3>3 DEF NoOrphanBut
  <2> QED
    BY <2>1, <2>2, <2>3
<1>12. CASE DropToolLeads(c, l, j)
  <2>1. ASSUME NEW t, IsToolRequired(t) PROVE \E r \in Releases \cap mem : t \in Requires[r]
    BY <2>1, InstalledIsOne DEF IsToolRequired
  <2>2. mem' = mem /\ pc[c] = "drop"
    BY <1>12 DEF DropToolLeads
  <2>3. PICK t \in job[c].todo :
          \/ IsToolRequired(t) /\ l = "drop" /\ IsWithTodo(j, job[c], job[c].todo \ {t})
          \/ ~IsToolRequired(t) /\ l = "check" /\ IsForTool(j, job[c], job[c].todo \ {t}, "tool", t)
    BY <1>12 DEF DropToolLeads
  <2>4. \A u : Wanted(c, u) => Wanted(c, u)' \/ (u = t /\ IsToolRequired(t))
    BY <1>0, <2>2, <2>3
  <2> HIDE DEF Wanted
  <2> QED
    BY <1>1, <2>1, <2>2, <2>4
<1> QED
  BY <1>2, <1>3, <1>4, <1>5, <1>6, <1>7, <1>8, <1>9, <1>10, <1>11, <1>12 DEF Leads

LEMMA StepSmooth ==
    ASSUME SafeInv, AloneInv, Smooth => SmoothInv, [Next]_vars
    PROVE  (Smooth => SmoothInv)'
<1>0. SUFFICES ASSUME Smooth, SmoothInv PROVE SmoothInv'
  <2>1. Smooth' <=> Smooth
    BY DEF Smooth, Alone, Next, vars
  <2> QED
    BY <2>1
<1>1. ASSUME NEW c \in Calls, Proceed(c), world' = world PROVE SmoothInv'
  <2>1. PICK l, j : MovesTo(c, l, j) /\ Leads(c, l, j)
    BY <1>1, ProceedLeads DEF SafeInv
  <2>2. \A d \in Calls : d # c => pc[d] = "idle" /\ pc'[d] = "idle"
    BY <1>0, <2>1, StaysAlone DEF AloneInv, Smooth
  <2>3. NoOrphanBut(c)
    BY <1>0, <2>2, IdleIsOrderly DEF SmoothInv, NoOrphan, NoOrphanBut
  <2>4. NoOrphanBut(c)' /\ SmoothCall(c)'
    BY <1>0, <2>1, <2>3, NoOrphanStep, SmoothCallStep DEF SmoothInv
  <2>5. \A d \in Calls : d # c => SmoothCall(d)'
    BY <2>2 DEF SmoothCall
  <2>6. NoOrphan'
    BY <2>4 DEF NoOrphan, NoOrphanBut
  <2> QED
    BY <2>4, <2>5, <2>6 DEF SmoothInv
<1>2. \A c \in Calls : ~NilInstallDir(c)
  BY <1>0 DEF NilInstallDir, SmoothInv, SmoothCall
<1>3. CASE UNCHANGED vars
  <2>1. UNCHANGED <<pc, job, mem>>
    BY <1>3 DEF vars, store
  <2> QED
    BY <1>0, <2>1 DEF SmoothInv, NoOrphan, SmoothCall, Wanted
<1> QED
  BY <1>0, <1>1, <1>2, <1>3, NextCases DEF Smooth

LEMMA InitSmooth ==
    ASSUME Init, Smooth
    PROVE  SmoothInv
<1>1. PICK S \in SUBSET Managed : mem = Manual \cup S \cup UNION {Requires[r] : r \in S \cup Manual}
  BY DEF Init
<1>2. NoOrphan
  <2>1. SUFFICES ASSUME NEW t \in Tools \cap mem PROVE \E r \in Releases \cap mem : t \in Requires[r]
    BY DEF NoOrphan
  <2>2. Manual \subseteq Releases /\ Releases \cap Tools = {}
    BY DEF Smooth
  <2>3. PICK r \in S \cup Manual : t \in Requires[r]
    BY <1>1, <2>1, <2>2
  <2> QED
    BY <1>1, <2>2, <2>3
<1>3. \A c \in Calls : SmoothCall(c)
  BY IdleIsOrderly DEF Init
<1> QED
  BY <1>2, <1>3 DEF SmoothInv

\* The inductive invariant of the module, in full.
THEOREM InstallInvariant == Spec => []InstallationInv
<1>1. InstallationInv /\ [Next]_vars => InstallationInv'
  BY StepSafe, StepAlone, StepOrderly, StepSmooth DEF InstallationInv
<1>2. Init => InstallationInv
  BY InitSafe, InitAlone, InitOrderly, InitSmooth DEF InstallationInv
<1> QED
  BY <1>1, <1>2, PTL DEF Spec

\* No tool that no platform needs is left by calls that run one by one, when nothing fails and
\* no release is in the sketchbook (UninstallPlatform drops the tools of the release).
THEOREM NoToolIsOrphaned == Spec => []NoOrphanTools
<1>1. InstallationInv => NoOrphanTools
  BY IdleIsOrderly DEF InstallationInv, NoOrphanTools, Smooth, SmoothInv, NoOrphan, AllIdle
<1> QED
  BY InstallInvariant, <1>1, PTL
=============================================================================
