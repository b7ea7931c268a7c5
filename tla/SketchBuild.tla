------------------------------ MODULE SketchBuild ------------------------------
(***************************************************************************)
(* The builds of one sketch in its build path (internal/arduino/builder,   *)
(* commands/service_compile.go), one after the other, and the cache of the *)
(* compiled cores that all build paths share.  A build keeps what earlier  *)
(* builds left: build.options.json tells whether all of it has to go, time *)
(* stamps and dependency files which objects can stay, the core archive    *)
(* and the shared cache whether the core is built at all.  The compilers   *)
(* of one folder run in a pool of workers.  Meanwhile sources, headers and *)
(* the platform's .txt files are edited, the program is killed, and other  *)
(* processes purge the cache.                                              *)
(* Time stamps are kept as what the code asks of them: an object, an       *)
(* archive or an options file is current until something it is compared    *)
(* with is written again.  The source of the sketch is compiled from the   *)
(* copy that prepareSketchBuildPath makes of it.                           *)
(***************************************************************************)
EXTENDS Integers, FiniteSets, Functions

CONSTANTS Sources,    \* the source files
          FolderOf,   \* FolderOf[s]: "sketch", "variant", "core" or a library
          Main,       \* the source of the sketch
          Imports,    \* Imports[v]: the libraries that version v of Main includes
          Options,    \* what build.options.json may say
          KeyOf,      \* KeyOf[o]: the directory of the shared cache for options o
          Jobs,       \* b.jobs
          Worlds,     \* bounds on what happens around the builds, see WorldsOK
          None,
          Damaged     \* a file whose writing was cut or failed

Libs    == {FolderOf[s] : s \in Sources} \ {"sketch", "variant", "core"}
Keys    == {KeyOf[o] : o \in Options}
Modes   == {"build", "clean", "database", "preprocess"}
Folders == {"sketch", "variant", "core"} \cup Libs
Entries == {"path"} \cup Keys    \* what a purge looks at

ASSUME WorldsOK == \A w \in Worlds :
    /\ w.options \subseteq Options /\ w.modes \subseteq Modes
    /\ w.sources \subseteq Sources /\ w.headers \subseteq Sources \ {Main} /\ w.txt \in BOOLEAN
    /\ w.builds \in Nat /\ w.edits \in Nat /\ w.cuts \in Nat /\ w.fails \in Nat /\ w.purges \in Nat
ASSUME ConstantsOK == /\ Main \in Sources /\ \A s \in Sources : FolderOf[s] = "sketch" <=> s = Main
                      /\ \A w \in Worlds : \A v \in 0 .. w.edits : Imports[v] \subseteq Libs
                      /\ Jobs \in Nat \ {0} /\ "path" \notin Keys

Core == {s \in Sources : FolderOf[s] = "core"}

\* What the compilers and ar make.
Objects  == [ver : Nat, opt : Options, plat : Nat, uses : SUBSET Libs, headers : BOOLEAN, current : BOOLEAN]
Archives == [parts : {Damaged} \cup UNION {[S -> Objects] : S \in SUBSET Core}, current : BOOLEAN]

Outcomes == {"ok", "tool", "cut", "gone", "badDep", "badCache", "badCore"}

\* None and Damaged are none of the things that they stand in for.
ASSUME NoneOK == /\ None # Damaged
                 /\ \A x \in {None, Damaged} :
                       /\ x \notin Sources /\ x \notin Options /\ x \notin Nat /\ x \notin Objects
                       /\ x \notin Outcomes /\ \A L \in SUBSET Libs : x # L
                       /\ \A S \in SUBSET Core : x \notin [S -> Objects]
                 /\ None \notin Archives
                 /\ None \notin [opt : Options \cup {None, Damaged}, current : BOOLEAN]

VARIABLES world,
          content, platform,         \* versions of the sources and of the .txt files
          options,                   \* build.options.json
          copy,                      \* the source of the sketch in the build path
          object, dep,               \* the .o and .d files
          lastUses,                  \* libraries.cache
          archive,                   \* core/core.a
          cache,                     \* the shared core.a files
          left,                      \* what may still happen
          pc, request, pool, linked, outcome,
          doubtful, touched,         \* history: see Undoubted
          condemned, purged          \* found expired by another process; removed during the build

sourceVars == <<content, platform>>
objectVars == <<object, dep>>
pathVars   == <<options, copy, objectVars, lastUses, archive>>
historyVars == <<doubtful, touched>>
purgeVars  == <<condemned, purged>>
vars == <<world, sourceVars, pathVars, cache, left, pc, request, pool, linked, outcome, historyVars, purgeVars>>

SourcesOf(F) == {s \in Sources : FolderOf[s] \in F}

NoOptions == [opt |-> None, current |-> FALSE]

IdlePool == [folder |-> "sketch", todo |-> {}, offered |-> None, busy |-> <<>>, error |-> None,
             late |-> 0, libs |-> {}, core |-> None]

Init ==
    /\ world \in Worlds
    /\ content = [s \in Sources |-> 0] /\ platform = 0
    /\ options = NoOptions /\ copy = None
    /\ object = [s \in Sources |-> None] /\ dep = [s \in Sources |-> "none"]
    /\ lastUses = None /\ archive = None
    /\ cache = [k \in Keys |-> None]
    /\ left = [builds |-> world.builds, edits |-> world.edits, cuts |-> world.cuts,
               fails |-> world.fails, purges |-> world.purges]
    /\ pc = "idle" /\ request = None /\ pool = IdlePool /\ linked = None /\ outcome = None
    /\ doubtful = {} /\ touched = FALSE
    /\ condemned = {} /\ purged = FALSE

Spend(what) == left[what] > 0 /\ left' = [left EXCEPT ![what] = @ - 1]

-----------------------------------------------------------------------------
\* Around the builds.

OutOfDate(f) == IF f = None THEN None ELSE [f EXCEPT !.current = FALSE]
CacheOutOfDate == cache' = [k \in Keys |-> OutOfDate(cache[k])]

\* A source is saved, or a header that it includes.  The sketch counts from the
\* moment it is copied; a compiler that has read s does not see the change, and a
\* core that is being built does not have it.
Edit(s, stamp) ==
    /\ Spend("edits")
    /\ content' = [content EXCEPT ![s] = @ + 1]
    /\ object' = IF s = Main \/ object[s] = None THEN object
                 ELSE [object EXCEPT ![s] = [@ EXCEPT ![stamp] = FALSE]]
    /\ IF s \in Core THEN CacheOutOfDate ELSE UNCHANGED cache
    /\ doubtful' = IF s # Main /\ s \in DOMAIN pool.busy THEN doubtful \cup {"path"} ELSE doubtful
    /\ touched' = (touched \/ s \in Core)
    /\ UNCHANGED <<world, platform, options, copy, dep, lastUses, archive, pc, request, pool, linked,
                   outcome, purgeVars>>

EditSource(s) == s \in world.sources /\ Edit(s, "current")
EditHeader(s) == s \in world.headers /\ Edit(s, "headers")

\* platform.txt or boards.txt is saved.
EditPlatform ==
    /\ world.txt /\ Spend("edits")
    /\ platform' = platform + 1
    /\ options' = OutOfDate(options)
    /\ CacheOutOfDate
    /\ touched' = TRUE
    /\ UNCHANGED <<world, content, copy, objectVars, lastUses, archive, pc, request, pool, linked,
                   outcome, doubtful, purgeVars>>

NoPath == /\ options' = NoOptions /\ copy' = None
          /\ object' = [s \in Sources |-> None] /\ dep' = [s \in Sources |-> "none"]
          /\ lastUses' = None /\ archive' = None

\* removeIfExpired in another process: it looks at the .last-used file of an entry
\* that no build is using, and removes the directory some time later.
FindExpired(e) ==
    /\ pc = "idle" /\ e \notin condemned /\ Spend("purges")
    /\ condemned' = condemned \cup {e}
    /\ UNCHANGED <<world, sourceVars, pathVars, cache, pc, request, pool, linked, outcome,
                   historyVars, purged>>

RemoveExpired(e) ==
    /\ e \in condemned /\ condemned' = condemned \ {e}
    /\ IF e = "path" THEN NoPath /\ UNCHANGED cache
                     ELSE cache' = [cache EXCEPT ![e] = None] /\ UNCHANGED pathVars
    /\ purged' = (purged \/ pc # "idle")
    /\ doubtful' = IF e = "path" /\ pc \notin {"idle", "options", "stamp"}
                   THEN doubtful \cup {e} ELSE doubtful \ {e}
    /\ UNCHANGED <<world, sourceVars, left, pc, request, pool, linked, outcome, touched>>

-----------------------------------------------------------------------------
\* Compile, and Builder.preprocess.

Start(mode, o) ==
    /\ pc = "idle" /\ mode \in world.modes /\ o \in world.options /\ Spend("builds")
    /\ pc' = "options"
    /\ request' = [mode |-> mode, opt |-> o, uses |-> {}, content |-> content, platform |-> platform]
    /\ pool' = IdlePool /\ linked' = None /\ outcome' = None
    /\ touched' = FALSE /\ purged' = FALSE
    /\ UNCHANGED <<world, sourceVars, pathVars, cache, doubtful, condemned>>

End(result) == pc' = "idle" /\ pool' = IdlePool /\ outcome' = result

\* Mutant: the .txt files of the platform are not looked at.
OptionsChangedOnly ==
    \/ request.mode = "clean"
    \/ options.opt \notin {None, Damaged, request.opt}

\* wipeBuildPathIfBuildOptionsChanged: an options file that is missing or empty asks
\* for nothing, one that cannot be parsed (Damaged) for everything.
OptionsChanged ==
    \/ request.mode = "clean"
    \/ options.opt # None /\ (options.opt # request.opt \/ ~options.current)

WipeBuildPath ==
    /\ pc = "options" /\ pc' = "stamp"
    /\ IF OptionsChanged THEN NoPath /\ doubtful' = doubtful \ {"path"}
                         ELSE UNCHANGED <<pathVars, doubtful>>
    /\ UNCHANGED <<world, sourceVars, cache, left, request, pool, linked, outcome, touched, purgeVars>>

\* The new file is younger than the .txt files of the platform, also if these were saved
\* after the build has read them.
CreateBuildOptions ==
    /\ pc = "stamp" /\ pc' = "copy"
    /\ options' = [opt |-> request.opt, current |-> TRUE]
    /\ doubtful' = IF platform = request.platform THEN doubtful ELSE doubtful \cup {"path"}
    /\ UNCHANGED <<world, sourceVars, copy, objectVars, lastUses, archive, cache, left, request, pool,
                   linked, outcome, touched, purgeVars>>

\* prepareSketchBuildPath: a copy is written only if it differs.
PrepareSketch ==
    /\ pc = "copy" /\ pc' = "detect"
    /\ copy' = content[Main]
    /\ object' = IF copy = content[Main] THEN object
                 ELSE [object EXCEPT ![Main] = OutOfDate(@)]
    /\ request' = [request EXCEPT !.uses = Imports[content[Main]]]
    /\ UNCHANGED <<world, sourceVars, options, dep, lastUses, archive, cache, left, pool, linked, outcome,
                   historyVars, purgeVars>>

Enter(folder, libs) ==
    /\ pc' = "compile"
    /\ pool' = [IdlePool EXCEPT !.folder = folder, !.todo = SourcesOf({folder}), !.libs = libs]

\* FindIncludes, by its result: the libraries in use go to libraries.cache.  If that
\* file cannot be read the build ends, or goes on without libraries if it is only
\* to write the compilation database.
FindIncludes ==
    /\ pc = "detect"
    /\ IF lastUses # Damaged
       THEN /\ lastUses' = request.uses
            /\ pc' = IF lastUses # request.uses THEN "prune" ELSE "preprocessed"
            /\ UNCHANGED <<pool, outcome, request>>
       ELSE /\ UNCHANGED lastUses
            /\ IF request.mode # "database" THEN End("badCache") /\ UNCHANGED request
               ELSE /\ pc' = "preprocessed" /\ request' = [request EXCEPT !.uses = {}]
                    /\ UNCHANGED <<pool, outcome>>
    /\ UNCHANGED <<world, sourceVars, options, copy, objectVars, archive, cache, left, linked,
                   historyVars, purgeVars>>

RemoveObjects(S) ==
    /\ object' = [s \in Sources |-> IF s \in S THEN None ELSE object[s]]
    /\ dep' = [s \in Sources |-> IF s \in S THEN "none" ELSE dep[s]]

\* The include folders have changed: the objects of all libraries go.
RemoveLibraries ==
    /\ pc = "prune" /\ pc' = "preprocessed"
    /\ RemoveObjects(SourcesOf(Libs))
    /\ UNCHANGED <<world, sourceVars, options, copy, lastUses, archive, cache, left, request, pool, linked,
                   outcome, historyVars, purgeVars>>

BeginBuild ==
    /\ pc = "preprocessed"
    /\ IF request.mode = "preprocess" THEN End("ok")
                                      ELSE Enter("sketch", request.uses) /\ UNCHANGED outcome
    /\ UNCHANGED <<world, sourceVars, pathVars, cache, left, request, linked, historyVars, purgeVars>>

-----------------------------------------------------------------------------
\* compileFiles: the feeder, which offers one source at a time on a channel without
\* a buffer, and the workers.

\* Mutant: the feeder does not look at the errors.
FeedAlways ==
    /\ pc = "compile" /\ pool.offered = None
    /\ \E s \in pool.todo : pool' = [pool EXCEPT !.offered = s, !.todo = @ \ {s}]
    /\ UNCHANGED <<world, sourceVars, pathVars, cache, left, pc, request, linked, outcome,
                   historyVars, purgeVars>>

Feed ==
    /\ pc = "compile" /\ pool.offered = None /\ pool.todo # {}
    /\ IF pool.error # None THEN pool' = [pool EXCEPT !.todo = {}]
       ELSE \E s \in pool.todo : pool' = [pool EXCEPT !.offered = s, !.todo = @ \ {s}]
    /\ UNCHANGED <<world, sourceVars, pathVars, cache, left, pc, request, linked, outcome,
                   historyVars, purgeVars>>

\* Mutant: a dependency file is taken for the sign of an object.
VerdictOfDep(s) ==
    IF s = Main /\ copy = None THEN "gone"
    ELSE IF dep[s] = "none" \/ (object[s] # None /\ ~object[s].current) THEN "stale"
    ELSE CASE dep[s] = "bad"  -> "badDep"
           [] dep[s] = "cut"  -> "current"
           [] dep[s] = "full" -> IF object[s] # None /\ object[s].headers THEN "current" ELSE "stale"

\* ObjFileIsUpToDate.  A dependency file that was cut short asks for less, or
\* cannot be parsed.
Verdict(s) ==
    IF s = Main /\ copy = None THEN "gone"
    ELSE IF object[s] = None \/ dep[s] = "none" \/ ~object[s].current THEN "stale"
    ELSE CASE dep[s] = "bad"  -> "badDep"
           [] dep[s] = "cut"  -> "current"
           [] dep[s] = "full" -> IF object[s].headers THEN "current" ELSE "stale"

\* What a compiler that is started now makes of s.
Made(s) == [ver |-> IF s = Main THEN copy ELSE content[s], opt |-> request.opt,
            plat |-> request.platform,
            uses |-> IF FolderOf[s] \in Libs THEN request.uses ELSE {},
            headers |-> TRUE, current |-> TRUE]

Erred(kind) == IF pool.error = None THEN kind ELSE pool.error

\* A worker takes the source that is offered, and starts the compiler if it has to.
Work ==
    /\ LET s == pool.offered
           verdict == Verdict(s)
       IN  pool' = [pool EXCEPT
             !.offered = None,
             !.late = IF pool.error = None THEN 0 ELSE @ + 1,
             !.error = IF verdict \in {"gone", "badDep"} THEN Erred(verdict) ELSE @,
             !.busy = IF verdict = "stale" /\ request.mode # "database"
                      THEN [t \in DOMAIN @ \cup {s} |-> IF t = s THEN Made(s) ELSE @[t]] ELSE @]
    /\ UNCHANGED <<world, sourceVars, pathVars, cache, left, pc, request, linked, outcome,
                   historyVars, purgeVars>>

\* Mutant: a worker that meets an error ends.
TakeUnlessFailed == pool.offered # None /\ Cardinality(DOMAIN pool.busy) < Jobs /\ pool.error = None /\ Work

Take == pool.offered # None /\ Cardinality(DOMAIN pool.busy) < Jobs /\ Work

NotBusy(s) == Restrict(pool.busy, DOMAIN pool.busy \ {s})

Compiled(s) ==
    /\ s \in DOMAIN pool.busy
    /\ object' = [object EXCEPT ![s] = pool.busy[s]]
    /\ dep' = [dep EXCEPT ![s] = "full"]
    /\ archive' = IF s \in Core THEN OutOfDate(archive) ELSE archive
    /\ pool' = [pool EXCEPT !.busy = NotBusy(s)]
    /\ UNCHANGED <<world, sourceVars, options, copy, lastUses, cache, left, pc, request, linked, outcome,
                   historyVars, purgeVars>>

CompileFailed(s) ==
    /\ s \in DOMAIN pool.busy /\ Spend("fails")
    /\ pool' = [pool EXCEPT !.busy = NotBusy(s), !.error = Erred("tool")]
    /\ UNCHANGED <<world, sourceVars, pathVars, cache, pc, request, linked, outcome, historyVars, purgeVars>>

\* wg.Wait: the queue is closed and the workers have ended.
AllDone == pool.todo = {} /\ pool.offered = None /\ pool.busy = <<>>

\* The folders are compiled one after the other: the sketch, each library in use,
\* after the others were removed, and the variant, after which the core is looked up.
EndFolder ==
    /\ pc = "compile" /\ AllDone
    /\ IF pool.error # None THEN End(pool.error) /\ UNCHANGED objectVars
       ELSE /\ UNCHANGED outcome
            /\ CASE pool.folder = "core"    -> pc' = "archive" /\ UNCHANGED pool
                 [] pool.folder = "variant" -> pc' = "lookup" /\ UNCHANGED pool
                 [] OTHER -> IF pool.libs = {} THEN Enter("variant", {})
                             ELSE \E l \in pool.libs : Enter(l, pool.libs \ {l})
            /\ IF pool.folder = "sketch" THEN RemoveObjects(SourcesOf(Libs \ request.uses))
                                         ELSE UNCHANGED objectVars
    /\ UNCHANGED <<world, sourceVars, options, copy, lastUses, archive, cache, left, request, linked,
                   historyVars, purgeVars>>

-----------------------------------------------------------------------------
\* compileCore, archiveCompiledFiles and link.

Key == KeyOf[request.opt]

\* canUseArchivedCore.
LookUpCore ==
    /\ pc = "lookup"
    /\ IF request.mode = "build" /\ cache[Key] # None /\ cache[Key].current
       THEN pc' = "link" /\ pool' = [pool EXCEPT !.core = "cache"]
       ELSE Enter("core", {})
    /\ UNCHANGED <<world, sourceVars, pathVars, cache, left, request, linked, outcome, historyVars, purgeVars>>

ArchiveIsCurrent == archive # None /\ archive.current /\ \A s \in Core : object[s] # None

OpenArchive ==
    /\ pc = "archive"
    /\ IF request.mode = "database" \/ ArchiveIsCurrent
       THEN pc' = "share" /\ UNCHANGED <<archive, pool>>
       ELSE pc' = "ar" /\ archive' = None /\ pool' = [pool EXCEPT !.todo = Core]
    /\ UNCHANGED <<world, sourceVars, options, copy, objectVars, lastUses, cache, left, request, linked,
                   outcome, historyVars, purgeVars>>

Parts(a) == IF a = None THEN <<>> ELSE a.parts

\* ar is run for one object after the other.
Ar(s) ==
    /\ pc = "ar" /\ s \in pool.todo
    /\ IF object[s] = None THEN End("gone") /\ UNCHANGED archive
       ELSE /\ archive' = [parts |-> [t \in DOMAIN Parts(archive) \cup {s} |->
                                        IF t = s THEN object[s] ELSE Parts(archive)[t]],
                           current |-> TRUE]
            /\ pool' = [pool EXCEPT !.todo = @ \ {s}]
            /\ pc' = IF pool.todo = {s} THEN "share" ELSE "ar"
            /\ UNCHANGED outcome
    /\ UNCHANGED <<world, sourceVars, options, copy, objectVars, lastUses, cache, left, request, linked,
                   historyVars, purgeVars>>

\* ar fails: what it has archived so far stays.
ArFailed ==
    /\ pc = "ar" /\ Spend("fails") /\ End("tool")
    /\ doubtful' = IF archive = None THEN doubtful ELSE doubtful \cup {"path"}
    /\ UNCHANGED <<world, sourceVars, pathVars, cache, request, linked, touched, purgeVars>>

\* The archive is copied to the shared cache.
ShareCore ==
    /\ pc = "share" /\ pc' = "link"
    /\ pool' = [pool EXCEPT !.core = "path"]
    /\ IF request.mode = "database" \/ archive = None THEN UNCHANGED <<cache, doubtful>>
       ELSE /\ cache' = [cache EXCEPT ![Key] = [parts |-> archive.parts, current |-> TRUE]]
            /\ doubtful' = IF touched \/ "path" \in doubtful THEN doubtful \cup {Key} ELSE doubtful \ {Key}
    /\ UNCHANGED <<world, sourceVars, pathVars, left, request, linked, outcome, touched, purgeVars>>

\* What is left of a copy that ends early: the target is emptied before it is written.
CutCacheFile == cache' = [cache EXCEPT ![Key] = [parts |-> Damaged, current |-> TRUE]]

\* The copy fails, before it opens the target or while it writes: an error is only logged.
ShareFailed ==
    /\ pc = "share" /\ request.mode # "database" /\ Spend("fails") /\ pc' = "link"
    /\ pool' = [pool EXCEPT !.core = "path"]
    /\ UNCHANGED cache \/ (archive # None /\ CutCacheFile)
    /\ UNCHANGED <<world, sourceVars, pathVars, request, linked, outcome, historyVars, purgeVars>>

CoreFile == IF pool.core = "cache" THEN cache[Key] ELSE archive
Linkable == SourcesOf({"sketch", "variant"} \cup request.uses)

\* History: what was cut, or changed while it was read, may be older than it looks;
\* path and keys are doubtful until they are wiped or written anew.
Undoubted == "path" \notin doubtful /\ (pool.core = "cache" => Key \notin doubtful)

\* The linker needs every object, and an archive that is whole.
Link ==
    /\ pc = "link"
    /\ IF request.mode = "database" THEN End("ok") /\ UNCHANGED linked
       ELSE IF CoreFile = None \/ \E s \in Linkable : object[s] = None THEN End("gone") /\ UNCHANGED linked
       ELSE IF CoreFile.parts = Damaged THEN End("badCore") /\ UNCHANGED linked
       ELSE /\ linked' = [parts |-> [s \in Linkable \cup DOMAIN CoreFile.parts |->
                                      IF s \in Linkable THEN object[s] ELSE CoreFile.parts[s]],
                          sound |-> Undoubted]
            /\ End("ok")
    /\ UNCHANGED <<world, sourceVars, pathVars, cache, left, request, historyVars, purgeVars>>

\* A recipe, a hook or the preprocessor fails.
ToolFailed ==
    /\ pc \in {"copy", "detect", "preprocessed", "lookup", "link"} /\ Spend("fails") /\ End("tool")
    /\ UNCHANGED <<world, sourceVars, pathVars, cache, request, linked, historyVars, purgeVars>>

-----------------------------------------------------------------------------
\* The program is killed.

Parted == {"options", "sketch", "libraries", "core", "librariesCache"}

\* RemoveAll has removed some entries of the build path; what is left is taken for a
\* build path without options if build.options.json is among them.
CutWipe ==
    /\ pc = "options" /\ OptionsChanged
    /\ \E kept \in SUBSET Parted :
         LET keeps(s) == CASE FolderOf[s] = "sketch" -> "sketch" \in kept
                           [] FolderOf[s] \in Libs  -> "libraries" \in kept
                           [] OTHER                 -> "core" \in kept
         IN  /\ options' = IF "options" \in kept THEN options ELSE NoOptions
             /\ copy' = IF "sketch" \in kept THEN copy ELSE None
             /\ RemoveObjects({s \in Sources : ~keeps(s)})
             /\ archive' = IF "core" \in kept THEN archive ELSE None
             /\ lastUses' = IF "librariesCache" \in kept THEN lastUses ELSE None
             /\ doubtful' = IF options' = NoOptions /\ object' # [s \in Sources |-> None]
                            THEN doubtful \cup {"path"} ELSE doubtful
    /\ UNCHANGED cache

CutOptions ==
    /\ pc = "stamp" /\ options' \in {NoOptions, [opt |-> Damaged, current |-> TRUE]}
    /\ doubtful' = IF options' = NoOptions THEN doubtful \cup {"path"} ELSE doubtful
    /\ UNCHANGED <<copy, objectVars, lastUses, archive, cache>>

CutCopy ==
    /\ pc = "copy" /\ copy # content[Main]
    /\ copy' = None /\ object' = [object EXCEPT ![Main] = OutOfDate(@)]
    /\ UNCHANGED <<options, dep, lastUses, archive, cache, doubtful>>

CutFindIncludes ==
    /\ pc = "detect" /\ lastUses' = Damaged
    /\ UNCHANGED <<options, copy, objectVars, archive, cache, doubtful>>

CutRemoveLibraries ==
    /\ pc = "prune"
    /\ \E L \in SUBSET Libs : RemoveObjects(SourcesOf(L))
    /\ doubtful' = IF \E s \in SourcesOf(Libs) : object'[s] # None THEN doubtful \cup {"path"} ELSE doubtful
    /\ UNCHANGED <<options, copy, lastUses, archive, cache>>

\* The compilers end, or leave what they have written of the dependency file.
CutCompile ==
    /\ pool.busy # <<>>
    /\ \E fate \in [DOMAIN pool.busy -> {"done", "cut", "bad"}] :
         /\ object' = [s \in Sources |-> IF s \in DOMAIN fate /\ fate[s] = "done"
                                         THEN pool.busy[s] ELSE object[s]]
         /\ dep' = [s \in Sources |-> IF s \notin DOMAIN fate THEN dep[s]
                                      ELSE IF fate[s] = "done" THEN "full" ELSE fate[s]]
         /\ archive' = IF \E s \in DOMAIN fate \cap Core : fate[s] = "done"
                       THEN OutOfDate(archive) ELSE archive
         /\ doubtful' = IF \E s \in DOMAIN fate : fate[s] = "cut" /\ object[s] # None
                        THEN doubtful \cup {"path"} ELSE doubtful
    /\ UNCHANGED <<options, copy, lastUses, cache>>

CutAr ==
    /\ pc = "ar"
    /\ doubtful' = IF archive = None THEN doubtful ELSE doubtful \cup {"path"}
    /\ UNCHANGED <<pathVars, cache>>

CutShare ==
    /\ pc = "share" /\ archive # None /\ request.mode # "database" /\ CutCacheFile
    /\ UNCHANGED <<pathVars, doubtful>>

CutElsewhere == pc \in {"preprocessed", "lookup", "link"} /\ UNCHANGED <<pathVars, cache, doubtful>>

Cut ==
    /\ pc # "idle" /\ Spend("cuts") /\ End("cut")
    /\ \/ CutWipe \/ CutOptions \/ CutCopy \/ CutFindIncludes \/ CutRemoveLibraries
       \/ CutCompile \/ CutAr \/ CutShare \/ CutElsewhere
    /\ UNCHANGED <<world, sourceVars, request, linked, touched, purgeVars>>

-----------------------------------------------------------------------------
BuildStep ==
    \/ WipeBuildPath \/ CreateBuildOptions \/ PrepareSketch \/ FindIncludes \/ RemoveLibraries
    \/ BeginBuild \/ Feed \/ Take \/ EndFolder
    \/ LookUpCore \/ OpenArchive \/ ShareCore \/ Link
    \/ \E s \in Sources : Compiled(s) \/ Ar(s)

ToolFails == ArFailed \/ ShareFailed \/ ToolFailed \/ \E s \in Sources : CompileFailed(s)

Around ==
    \/ EditPlatform \/ Cut
    \/ \E s \in Sources : EditSource(s) \/ EditHeader(s)
    \/ \E e \in Entries : FindExpired(e) \/ RemoveExpired(e)

Next == BuildStep \/ ToolFails \/ Around \/ \E m \in Modes, o \in Options : Start(m, o)

Spec == Init /\ [][Next]_vars

\* A tool that is started ends, and the steps between the tools are taken.
FairSpec == Spec /\ WF_vars(BuildStep)

-----------------------------------------------------------------------------
\* Types of the state.
TypeOK ==
    /\ world \in Worlds
    /\ content \in [Sources -> Nat] /\ platform \in Nat
    /\ options \in [opt : Options \cup {None, Damaged}, current : BOOLEAN]
    /\ copy \in Nat \cup {None}
    /\ \A s \in Sources : object[s] \in Objects \cup {None}
    /\ dep \in [Sources -> {"none", "full", "cut", "bad"}]
    /\ lastUses \in {None, Damaged} \cup SUBSET Libs
    /\ pc \in {"idle", "options", "stamp", "copy", "detect", "prune", "preprocessed", "compile", "lookup",
               "archive", "ar", "share", "link"}
    /\ pool.todo \subseteq Sources /\ pool.offered \in Sources \cup {None}
    /\ DOMAIN pool.busy \subseteq Sources /\ Cardinality(DOMAIN pool.busy) <= Jobs
    /\ outcome \in Outcomes \cup {None}
    /\ doubtful \subseteq Entries /\ condemned \subseteq Entries

PartIsCurrent(s, p) ==
    /\ p.ver >= request.content[s] /\ p.plat >= request.platform
    /\ IF s \in Core THEN KeyOf[p.opt] = Key ELSE p.opt = request.opt
    /\ FolderOf[s] \in Libs => p.uses = request.uses

\* What a build links is all that it needs, in no older version than when it began,
\* built with its options and include folders - unless the program was killed while
\* it wiped, pruned or archived, or a file was saved while it was read
\* (build_options_manager.go, compilation.go, archive_compiled_files.go, core.go).
\* Even then the sketch in the build is the one that was saved: it is compiled from a
\* copy of its own (sketch.go).
LinkedIsCurrent ==
    linked # None =>
        /\ linked.parts[Main].ver >= request.content[Main]
        /\ linked.sound =>
               /\ DOMAIN linked.parts = Linkable \cup Core
               /\ \A s \in DOMAIN linked.parts : PartIsCurrent(s, linked.parts[s])

\* Once a compiler has failed at most one more source is given to a worker: the one
\* that the feeder was already blocked with (compilation.go, compileFiles).
StopsAfterError == pool.late <= 1

\* When a folder is done, and when a build has ended, no compiler of it is running.
NothingLeftRunning == pc # "compile" => pool.busy = <<>>

\* A build fails for a reason: a tool that failed, an entry that another process
\* removed under it, or a file that a kill has cut, or an earlier copy of the core that
\* failed halfway; of these a clean build reads none (builder.go, core.go).
FailsForAReason ==
    /\ outcome = "gone" => purged
    /\ outcome \in {"badDep", "badCache", "badCore"} =>
           /\ left.cuts < world.cuts \/ (outcome = "badCore" /\ left.fails < world.fails)
           /\ request.mode # "clean"
    /\ outcome = "tool" => left.fails < world.fails

\* Every build ends.
BuildEnds == pc # "idle" ~> pc = "idle"

\* The invariant of the module: the types, and the pool of the compilers.
BuildInv == TypeOK /\ StopsAfterError /\ NothingLeftRunning
=============================================================================
