--------------------------- MODULE SketchBuild_proofs ---------------------------
(***************************************************************************)
(* Proofs about the builds of a sketch, for any sources, libraries and     *)
(* options, any number of workers, and for whatever happens around them.   *)
(***************************************************************************)
EXTENDS SketchBuild, FiniteSetTheorems, TLAPS

USE WorldsOK, ConstantsOK, NoneOK

Busy == UNION {[S -> Objects] : S \in SUBSET Sources}

\* The parts of an archive that is whole.
PartsType == UNION {[S -> Objects] : S \in SUBSET Core}
WholeArchives == [parts : PartsType, current : BOOLEAN]

OptionsType == [opt : Options \cup {None, Damaged}, current : BOOLEAN]
RequestType == [mode : Modes, opt : Options, uses : SUBSET Libs, content : [Sources -> Nat], platform : Nat]
LeftType    == [builds : Nat, edits : Nat, cuts : Nat, fails : Nat, purges : Nat]
PoolType == [folder : Folders, todo : SUBSET Sources, offered : Sources \cup {None}, busy : Busy,
             error : Outcomes \cup {None}, late : Nat, libs : SUBSET Libs, core : {None, "cache", "path"}]

Places == {"idle", "options", "stamp", "copy", "detect", "prune", "preprocessed", "compile", "lookup",
           "archive", "ar", "share", "link"}

PathTypes ==
    /\ options \in OptionsType /\ copy \in Nat \cup {None}
    /\ object \in [Sources -> Objects \cup {None}]
    /\ dep \in [Sources -> {"none", "full", "cut", "bad"}]
    /\ lastUses \in {None, Damaged} \cup SUBSET Libs
    /\ archive \in WholeArchives \cup {None}

CacheTypes ==
    /\ cache \in [Keys -> Archives \cup {None}]
    /\ doubtful \subseteq Entries /\ condemned \subseteq Entries /\ purged \in BOOLEAN /\ touched \in BOOLEAN

AroundTypes ==
    /\ world \in Worlds /\ left \in LeftType /\ left.cuts <= world.cuts /\ left.fails <= world.fails
    /\ content \in [Sources -> Nat] /\ platform \in Nat
    /\ \A s \in Sources : content[s] + left.edits <= world.edits
    /\ CacheTypes

BuildTypes ==
    /\ pc \in Places
    /\ pc # "idle" \/ linked # None => request \in RequestType
    /\ pool \in PoolType
    /\ outcome \in Outcomes \cup {None}
    /\ linked # None => pc = "idle"

Types == PathTypes /\ AroundTypes /\ BuildTypes

-----------------------------------------------------------------------------
\* The pool, by where the build is.
InBuild == pc \in {"compile", "lookup", "archive", "ar", "share", "link"}

Compiling ==
    /\ pool.folder = "sketch" => pool.libs = request.uses
    /\ pool.libs \subseteq request.uses /\ pool.folder \notin pool.libs
    /\ pool.folder \in {"variant", "core"} => pool.libs = {}
    /\ pool.todo \cup DOMAIN pool.busy \subseteq SourcesOf({pool.folder})
    /\ pool.offered # None => pool.offered \in SourcesOf({pool.folder})
    /\ pool.core = None
    /\ IsFiniteSet(DOMAIN pool.busy) /\ Cardinality(DOMAIN pool.busy) <= Jobs
    /\ pool.busy # <<>> => request.mode # "database"
    /\ pool.late <= 1
    /\ pool.error = None \/ pool.offered # None => pool.late = 0

Settled == pool.busy = <<>> /\ pool.offered = None /\ pool.error = None /\ pool.late = 0 /\ pool.libs = {}

PoolInv ==
    /\ ~InBuild => pool = IdlePool
    /\ pc = "compile" => Compiling
    /\ InBuild /\ pc # "compile" => Settled
    /\ pc = "lookup" => pool.folder = "variant"
    /\ pc \in {"archive", "ar", "share"} => pool.folder = "core"
    /\ pc = "ar" => pool.todo \subseteq Core /\ request.mode # "database"
    /\ pc = "link" => \/ pool.core = "path" /\ pool.folder = "core"
                      \/ pool.core = "cache" /\ pool.folder = "variant" /\ request.mode = "build"

-----------------------------------------------------------------------------
LEMMA Distinct ==
    /\ None # Damaged
    /\ None \notin Sources /\ None \notin Options /\ None \notin Nat /\ None \notin Objects /\ None \notin Outcomes
    /\ Damaged \notin Options
    /\ \A L \in SUBSET Libs : L # None /\ L # Damaged
    /\ None \notin Archives /\ None \notin OptionsType
    /\ \A S \in SUBSET Core : \A f \in [S -> Objects] : f # Damaged
BY DEF OptionsType

LEMMA FoldersOf ==
    /\ "sketch" \notin Libs /\ "variant" \notin Libs /\ "core" \notin Libs /\ Libs \subseteq Folders
    /\ \A s \in Sources : FolderOf[s] \in Folders
BY DEF Libs, Folders

LEMMA BusyIs ==
    ASSUME NEW f
    PROVE  f \in Busy <=> DOMAIN f \subseteq Sources /\ f \in [DOMAIN f -> Objects]
BY DEF Busy

LEMMA PartsAre ==
    ASSUME NEW f
    PROVE  f \in PartsType <=> DOMAIN f \subseteq Core /\ f \in [DOMAIN f -> Objects]
BY DEF PartsType

LEMMA ArchivesAre ==
    /\ Archives = [parts : {Damaged} \cup PartsType, current : BOOLEAN]
    /\ WholeArchives \subseteq Archives /\ None \notin WholeArchives
    /\ \A a \in WholeArchives : a.parts # Damaged
<1>1. Archives = [parts : {Damaged} \cup PartsType, current : BOOLEAN]
  BY DEF Archives, PartsType
<1>2. Damaged \notin PartsType
  BY Distinct DEF PartsType
<1> QED
  BY <1>1, <1>2, Distinct DEF WholeArchives

LEMMA EmptyFunction ==
    /\ <<>> \in Busy /\ <<>> \in PartsType /\ DOMAIN <<>> = {}
    /\ <<>> # Damaged
<1>1. DOMAIN <<>> = {}
  OBVIOUS
<1>2. <<>> \in [{} -> Objects]
  OBVIOUS
<1> QED
  BY <1>1, <1>2, Distinct DEF Busy, PartsType

-----------------------------------------------------------------------------
\* What is out of date is as before, but for that.
LEMMA ObjectOutOfDate ==
    ASSUME NEW f \in Objects \cup {None}
    PROVE  /\ OutOfDate(f) \in Objects \cup {None} /\ (OutOfDate(f) = None <=> f = None)
           /\ f # None => /\ OutOfDate(f).ver = f.ver /\ OutOfDate(f).opt = f.opt /\ OutOfDate(f).plat = f.plat
                          /\ OutOfDate(f).uses = f.uses /\ OutOfDate(f).headers = f.headers
                          /\ OutOfDate(f).current = FALSE
BY Distinct DEF OutOfDate, Objects

LEMMA ArchiveOutOfDate ==
    ASSUME NEW a \in Archives \cup {None}
    PROVE  /\ OutOfDate(a) \in Archives \cup {None} /\ (OutOfDate(a) = None <=> a = None)
           /\ a # None => OutOfDate(a).parts = a.parts /\ OutOfDate(a).current = FALSE
           /\ a \in WholeArchives \cup {None} => OutOfDate(a) \in WholeArchives \cup {None}
<1>1. a # None => /\ OutOfDate(a) \in Archives /\ OutOfDate(a) # None
                  /\ OutOfDate(a).parts = a.parts /\ OutOfDate(a).current = FALSE
  BY Distinct, ArchivesAre DEF OutOfDate
<1>2. a \in WholeArchives => OutOfDate(a) \in WholeArchives
  BY Distinct, ArchivesAre DEF OutOfDate, WholeArchives
<1> QED
  BY <1>1, <1>2 DEF OutOfDate

LEMMA OptionsOutOfDate ==
    ASSUME NEW o \in OptionsType
    PROVE  OutOfDate(o) \in OptionsType /\ OutOfDate(o).opt = o.opt /\ OutOfDate(o).current = FALSE
BY Distinct DEF OutOfDate, OptionsType

LEMMA Spends ==
    ASSUME left \in LeftType, NEW what \in {"builds", "edits", "cuts", "fails", "purges"}, Spend(what)
    PROVE  /\ left' \in LeftType
           /\ left'.cuts = (IF what = "cuts" THEN left.cuts - 1 ELSE left.cuts)
           /\ left'.fails = (IF what = "fails" THEN left.fails - 1 ELSE left.fails)
           /\ left'.edits = (IF what = "edits" THEN left.edits - 1 ELSE left.edits)
<1>1. CASE what = "builds"
  BY <1>1 DEF Spend, LeftType
<1>2. CASE what = "edits"
  BY <1>2 DEF Spend, LeftType
<1>3. CASE what = "cuts"
  BY <1>3 DEF Spend, LeftType
<1>4. CASE what = "fails"
  BY <1>4 DEF Spend, LeftType
<1>5. CASE what = "purges"
  BY <1>5 DEF Spend, LeftType
<1> QED
  BY <1>1, <1>2, <1>3, <1>4, <1>5

LEMMA IdlePoolType == IdlePool \in PoolType
BY EmptyFunction, FoldersOf DEF IdlePool, PoolType, Folders

LEMMA SourcesOfFolder ==
    ASSUME NEW F
    PROVE  SourcesOf(F) \subseteq Sources /\ \A s \in Sources : s \in SourcesOf(F) <=> FolderOf[s] \in F
BY DEF SourcesOf

\* The pool of a folder that is entered.
LEMMA EnteredPool ==
    ASSUME NEW folder \in Folders, NEW libs \in SUBSET Libs, Enter(folder, libs)
    PROVE  /\ pc' = "compile" /\ pool' \in PoolType
           /\ pool'.folder = folder /\ pool'.todo = SourcesOf({folder}) /\ pool'.libs = libs
           /\ pool'.offered = None /\ pool'.busy = <<>> /\ pool'.error = None /\ pool'.late = 0 /\ pool'.core = None
<1>1. SourcesOf({folder}) \in SUBSET Sources
  BY SourcesOfFolder
<1> QED
  BY <1>1, EmptyFunction DEF Enter, IdlePool, PoolType

LEMMA PoolOfIdle ==
    /\ IdlePool.folder = "sketch" /\ IdlePool.todo = {} /\ IdlePool.offered = None /\ IdlePool.busy = <<>>
    /\ IdlePool.error = None /\ IdlePool.late = 0 /\ IdlePool.libs = {} /\ IdlePool.core = None
BY DEF IdlePool

\* Steps that change one thing of the pool.
LEMMA FedPool ==
    ASSUME pool \in PoolType, Feed
    PROVE  /\ pool' \in PoolType
           /\ pool'.folder = pool.folder /\ pool'.busy = pool.busy /\ pool'.error = pool.error
           /\ pool'.late = pool.late /\ pool'.libs = pool.libs /\ pool'.core = pool.core
           /\ \/ pool.error # None /\ pool'.todo = {} /\ pool'.offered = None
              \/ /\ pool.error = None /\ pool'.offered \in pool.todo
                 /\ pool'.todo = pool.todo \ {pool'.offered}
<1>1. CASE pool.error # None
  BY <1>1 DEF Feed, PoolType
<1>2. CASE pool.error = None
  <2>1. PICK s \in pool.todo : pool' = [pool EXCEPT !.offered = s, !.todo = @ \ {s}]
    BY <1>2 DEF Feed
  <2> QED
    BY <1>2, <2>1 DEF PoolType
<1> QED
  BY <1>1, <1>2

LEMMA OfferedSource ==
    ASSUME pool \in PoolType, pool.offered # None
    PROVE  pool.offered \in Sources
BY DEF PoolType

LEMMA MadeObject ==
    ASSUME NEW s \in Sources, Types, pc # "idle", s = Main => copy # None
    PROVE  /\ Made(s) \in Objects
           /\ Made(s).ver = (IF s = Main THEN copy ELSE content[s]) /\ Made(s).opt = request.opt
           /\ Made(s).plat = request.platform /\ Made(s).current /\ Made(s).headers
           /\ FolderOf[s] \in Libs => Made(s).uses = request.uses
<1>1. request \in RequestType
  BY DEF Types, BuildTypes
<1>2. (IF s = Main THEN copy ELSE content[s]) \in Nat
  BY DEF Types, PathTypes, AroundTypes
<1>3. (IF FolderOf[s] \in Libs THEN request.uses ELSE {}) \in SUBSET Libs
  BY <1>1 DEF RequestType
<1> QED
  BY <1>1, <1>2, <1>3 DEF Made, Objects, RequestType

\* The compilers at work with one more source, or one less.
With(s) == [t \in DOMAIN pool.busy \cup {s} |-> IF t = s THEN Made(s) ELSE pool.busy[t]]

LEMMA WithOneMore ==
    ASSUME NEW s \in Sources, pool.busy \in Busy, Made(s) \in Objects
    PROVE  /\ With(s) \in Busy /\ DOMAIN With(s) = DOMAIN pool.busy \cup {s} /\ With(s)[s] = Made(s)
           /\ \A t \in DOMAIN pool.busy : t # s => With(s)[t] = pool.busy[t]
<1>1. DOMAIN pool.busy \subseteq Sources /\ \A t \in DOMAIN pool.busy : pool.busy[t] \in Objects
  BY BusyIs
<1>2. DOMAIN With(s) = DOMAIN pool.busy \cup {s}
  BY DEF With
<1>3. With(s) \in [DOMAIN pool.busy \cup {s} -> Objects]
  BY <1>1 DEF With
<1>4. With(s) \in Busy
  BY <1>1, <1>2, <1>3, BusyIs
<1> QED
  BY <1>2, <1>4 DEF With

LEMMA WithOneLess ==
    ASSUME NEW s, pool.busy \in Busy
    PROVE  /\ NotBusy(s) \in Busy /\ DOMAIN NotBusy(s) = DOMAIN pool.busy \ {s}
           /\ \A t \in DOMAIN NotBusy(s) : NotBusy(s)[t] = pool.busy[t]
<1>1. DOMAIN pool.busy \subseteq Sources /\ \A t \in DOMAIN pool.busy : pool.busy[t] \in Objects
  BY BusyIs
<1>2. /\ DOMAIN NotBusy(s) = DOMAIN pool.busy \ {s}
      /\ \A t \in DOMAIN NotBusy(s) : NotBusy(s)[t] = pool.busy[t]
  BY DEF NotBusy, Restrict
<1>3. NotBusy(s) \in [DOMAIN pool.busy \ {s} -> Objects]
  BY <1>1 DEF NotBusy, Restrict
<1> QED
  BY <1>1, <1>2, <1>3, BusyIs

\* What a worker that takes the source that is offered makes of the pool.
IsTaken(p, s, verdict) ==
    /\ p \in PoolType
    /\ p.folder = pool.folder /\ p.todo = pool.todo /\ p.libs = pool.libs /\ p.core = pool.core
    /\ p.offered = None
    /\ p.late = IF pool.error = None THEN 0 ELSE pool.late + 1
    /\ p.error = IF verdict \in {"gone", "badDep"} /\ pool.error = None THEN verdict ELSE pool.error
    /\ p.busy = IF verdict = "stale" /\ request.mode # "database" THEN With(s) ELSE pool.busy

LEMMA VerdictIs ==
    ASSUME NEW s \in Sources, PathTypes
    PROVE  /\ Verdict(s) \in {"gone", "stale", "badDep", "current"}
           /\ Verdict(s) = "gone" => s = Main /\ copy = None
           /\ Verdict(s) \in {"stale", "current"} /\ s = Main => copy # None
           /\ Verdict(s) = "badDep" => dep[s] = "bad"
           /\ Verdict(s) = "current" => /\ object[s] # None /\ object[s].current
                                        /\ dep[s] # "cut" => object[s].headers
BY DEF Verdict, PathTypes

LEMMA TakenPool ==
    ASSUME Types, pc # "idle", Take
    PROVE  pool.offered \in Sources /\ IsTaken(pool', pool.offered, Verdict(pool.offered))
<1> DEFINE s == pool.offered
           v == Verdict(s)
           busy == IF v = "stale" /\ request.mode # "database" THEN With(s) ELSE pool.busy
           error == IF v \in {"gone", "badDep"} THEN Erred(v) ELSE pool.error
           late == IF pool.error = None THEN 0 ELSE pool.late + 1
<1>1. pool \in PoolType /\ PathTypes
  BY DEF Types, BuildTypes
<1>2. s \in Sources
  BY <1>1, OfferedSource DEF Take
<1>3. busy \in Busy
  <2>1. CASE v = "stale"
    <3>1. Made(s) \in Objects
      BY <1>1, <1>2, <2>1, VerdictIs, MadeObject
    <3>2. pool.busy \in Busy
      BY <1>1 DEF PoolType
    <3> QED
      BY <1>2, <2>1, <3>1, <3>2, WithOneMore
  <2>2. CASE v # "stale"
    BY <1>1, <2>2 DEF PoolType
  <2> QED
    BY <2>1, <2>2
<1>4. error \in Outcomes \cup {None} /\ late \in Nat
  BY <1>1 DEF Erred, PoolType, Outcomes
<1>5. error = IF v \in {"gone", "badDep"} /\ pool.error = None THEN v ELSE pool.error
  BY DEF Erred
<1>6. pool' = [pool EXCEPT !.offered = None, !.late = late, !.error = error, !.busy = busy]
  <2>1. pool' = [pool EXCEPT
             !.offered = None,
             !.late = IF pool.error = None THEN 0 ELSE @ + 1,
             !.error = IF v \in {"gone", "badDep"} THEN Erred(v) ELSE @,
             !.busy = IF v = "stale" /\ request.mode # "database"
                      THEN [t \in DOMAIN @ \cup {s} |-> IF t = s THEN Made(s) ELSE @[t]] ELSE @]
    BY DEF Take, Work
  <2> QED
    BY <1>1, <2>1 DEF PoolType, With
<1> HIDE DEF v, busy, error, late
<1>7. /\ pool' \in PoolType
      /\ pool'.folder = pool.folder /\ pool'.todo = pool.todo /\ pool'.libs = pool.libs /\ pool'.core = pool.core
      /\ pool'.offered = None /\ pool'.late = late /\ pool'.error = error /\ pool'.busy = busy
  BY <1>1, <1>3, <1>4, <1>6 DEF PoolType
<1> QED
  BY <1>2, <1>5, <1>7 DEF IsTaken, busy, error, late, v

LEMMA CompiledPool ==
    ASSUME NEW s, pool \in PoolType, pool' = [pool EXCEPT !.busy = NotBusy(s)]
    PROVE  /\ pool' \in PoolType /\ pool'.busy = NotBusy(s)
           /\ pool'.folder = pool.folder /\ pool'.todo = pool.todo /\ pool'.libs = pool.libs /\ pool'.core = pool.core
           /\ pool'.offered = pool.offered /\ pool'.late = pool.late /\ pool'.error = pool.error
<1>1. NotBusy(s) \in Busy
  BY WithOneLess DEF PoolType
<1> QED
  BY <1>1 DEF PoolType

LEMMA FailedPool ==
    ASSUME NEW s, pool \in PoolType, pool' = [pool EXCEPT !.busy = NotBusy(s), !.error = Erred("tool")]
    PROVE  /\ pool' \in PoolType /\ pool'.busy = NotBusy(s)
           /\ pool'.folder = pool.folder /\ pool'.todo = pool.todo /\ pool'.libs = pool.libs /\ pool'.core = pool.core
           /\ pool'.offered = pool.offered /\ pool'.late = pool.late
           /\ pool'.error = IF pool.error = None THEN "tool" ELSE pool.error
<1>1. NotBusy(s) \in Busy
  BY WithOneLess DEF PoolType
<1>2. Erred("tool") \in Outcomes \cup {None} /\ Erred("tool") = IF pool.error = None THEN "tool" ELSE pool.error
  BY DEF Erred, Outcomes, PoolType
<1> QED
  BY <1>1, <1>2 DEF PoolType

-----------------------------------------------------------------------------
\* Where the end of a folder leads.
Ended(result) == End(result) /\ UNCHANGED objectVars

EndFolderLeads ==
    \/ pool.error # None /\ Ended(pool.error)
    \/ /\ pool.error = None /\ UNCHANGED outcome
       /\ IF pool.folder = "sketch" THEN RemoveObjects(SourcesOf(Libs \ request.uses)) ELSE UNCHANGED objectVars
       /\ \/ pool.folder = "core" /\ pc' = "archive" /\ UNCHANGED pool
          \/ pool.folder = "variant" /\ pc' = "lookup" /\ UNCHANGED pool
          \/ pool.folder \notin {"core", "variant"} /\ pool.libs = {} /\ Enter("variant", {})
          \/ /\ pool.folder \notin {"core", "variant"}
             /\ \E l \in pool.libs : Enter(l, pool.libs \ {l})

LEMMA FolderEnds ==
    ASSUME EndFolder
    PROVE  EndFolderLeads
<1>1. CASE pool.error # None
  BY <1>1 DEF EndFolder, EndFolderLeads, Ended
<1>2. CASE pool.error = None
  <2>1. CASE pool.folder = "core"
    BY <1>2, <2>1 DEF EndFolder, EndFolderLeads
  <2>2. CASE pool.folder = "variant"
    BY <1>2, <2>2 DEF EndFolder, EndFolderLeads
  <2>3. CASE pool.folder \notin {"core", "variant"}
    BY <1>2, <2>3 DEF EndFolder, EndFolderLeads
  <2> QED
    BY <2>1, <2>2, <2>3
<1> QED
  BY <1>1, <1>2

LEMMA RemovedObjects ==
    ASSUME NEW S, PathTypes, RemoveObjects(S)
    PROVE  /\ object' \in [Sources -> Objects \cup {None}] /\ dep' \in [Sources -> {"none", "full", "cut", "bad"}]
           /\ \A s \in Sources : /\ object'[s] = (IF s \in S THEN None ELSE object[s])
                                 /\ dep'[s] = (IF s \in S THEN "none" ELSE dep[s])
BY DEF RemoveObjects, PathTypes

LEMMA EmptyPath ==
    ASSUME NoPath
    PROVE  /\ PathTypes' /\ options'.opt = None /\ ~options'.current /\ copy' = None /\ lastUses' = None /\ archive' = None
           /\ \A s \in Sources : object'[s] = None /\ dep'[s] = "none"
BY DEF NoPath, PathTypes, OptionsType, NoOptions

LEMMA EmptyOptions ==
    /\ NoOptions \in OptionsType /\ NoOptions.opt = None /\ ~NoOptions.current
    /\ \A o \in Options \cup {Damaged} :
          /\ [opt |-> o, current |-> TRUE] \in OptionsType
          /\ [opt |-> o, current |-> TRUE].opt = o /\ [opt |-> o, current |-> TRUE].current
          /\ [opt |-> o, current |-> TRUE] # NoOptions
BY Distinct DEF OptionsType, NoOptions

\* The parts of the archive with one more.
More(s) == [t \in DOMAIN Parts(archive) \cup {s} |-> IF t = s THEN object[s] ELSE Parts(archive)[t]]

LEMMA MoreParts ==
    ASSUME NEW s \in Core, PathTypes
    PROVE  /\ Parts(archive) \in PartsType
           /\ DOMAIN More(s) = DOMAIN Parts(archive) \cup {s} /\ More(s)[s] = object[s]
           /\ \A t \in DOMAIN Parts(archive) : t # s => More(s)[t] = Parts(archive)[t]
           /\ object[s] # None => More(s) \in PartsType /\ [parts |-> More(s), current |-> TRUE] \in WholeArchives
<1>1. Parts(archive) \in PartsType
  BY EmptyFunction DEF Parts, PathTypes, WholeArchives
<1>2. DOMAIN Parts(archive) \subseteq Core /\ \A t \in DOMAIN Parts(archive) : Parts(archive)[t] \in Objects
  BY <1>1, PartsAre
<1>3. /\ DOMAIN More(s) = DOMAIN Parts(archive) \cup {s} /\ More(s)[s] = object[s]
      /\ \A t \in DOMAIN Parts(archive) : t # s => More(s)[t] = Parts(archive)[t]
  BY DEF More
<1>4. ASSUME object[s] # None PROVE More(s) \in [DOMAIN Parts(archive) \cup {s} -> Objects]
  BY <1>2, <1>4 DEF More, PathTypes, Core
<1>5. object[s] # None => More(s) \in PartsType
  BY <1>2, <1>3, <1>4, PartsAre
<1> QED
  BY <1>1, <1>3, <1>5 DEF WholeArchives

-----------------------------------------------------------------------------
\* The types, step by step: the build path.
LEMMA PathTypesKept ==
    ASSUME Types, PoolInv, [Next]_vars
    PROVE  PathTypes'
<1> USE DEF Types, vars, sourceVars, objectVars, pathVars, historyVars, purgeVars
<1>0. PathTypes
  OBVIOUS
<1>1. UNCHANGED pathVars => PathTypes'
  BY <1>0 DEF PathTypes
<1>2. ASSUME NEW s \in Sources, NEW stamp \in {"current", "headers"}, Edit(s, stamp)
      PROVE  PathTypes'
  <2>1. object[s] # None => [object[s] EXCEPT ![stamp] = FALSE] \in Objects
    <3>1. object[s] # None => object[s] \in Objects
      BY <1>0 DEF PathTypes
    <3>2. CASE stamp = "current"
      BY <3>1, <3>2 DEF Objects
    <3>3. CASE stamp = "headers"
      BY <3>1, <3>3 DEF Objects
    <3> QED
      BY <3>2, <3>3
  <2>2. object' \in [Sources -> Objects \cup {None}]
    BY <1>0, <1>2, <2>1 DEF Edit, PathTypes
  <2> QED
    BY <1>0, <1>2, <2>2 DEF Edit, PathTypes
<1>3. ASSUME EditPlatform PROVE PathTypes'
  BY <1>0, <1>3, OptionsOutOfDate DEF EditPlatform, PathTypes
<1>4. ASSUME NEW e \in Entries, RemoveExpired(e) PROVE PathTypes'
  BY <1>0, <1>1, <1>4, EmptyPath DEF RemoveExpired
<1>5. ASSUME WipeBuildPath PROVE PathTypes'
  BY <1>0, <1>1, <1>5, EmptyPath DEF WipeBuildPath
<1>6. ASSUME CreateBuildOptions PROVE PathTypes'
  <2>1. request.opt \in Options
    BY <1>6 DEF CreateBuildOptions, BuildTypes, RequestType
  <2> QED
    BY <1>0, <1>6, <2>1, EmptyOptions DEF CreateBuildOptions, PathTypes
<1>7. ASSUME PrepareSketch PROVE PathTypes'
  <2>0. object[Main] \in Objects \cup {None} /\ content[Main] \in Nat
    BY <1>0 DEF PathTypes, AroundTypes
  <2>1. OutOfDate(object[Main]) \in Objects \cup {None}
    BY <2>0, ObjectOutOfDate
  <2> QED
    BY <1>0, <1>7, <2>0, <2>1 DEF PrepareSketch, PathTypes
<1>8. ASSUME FindIncludes PROVE PathTypes'
  <2>1. request.uses \in SUBSET Libs
    BY <1>8 DEF FindIncludes, BuildTypes, RequestType
  <2> QED
    BY <1>0, <1>8, <2>1 DEF FindIncludes, PathTypes
<1>9. ASSUME RemoveLibraries PROVE PathTypes'
  <2>1. RemoveObjects(SourcesOf(Libs))
    BY <1>9 DEF RemoveLibraries
  <2> QED
    BY <1>0, <1>9, <2>1, RemovedObjects DEF RemoveLibraries, PathTypes
<1>10. ASSUME NEW s \in Sources, Compiled(s) PROVE PathTypes'
  <2>1. pool.busy[s] \in Objects
    BY <1>10, BusyIs DEF Compiled, BuildTypes, PoolType
  <2>2. OutOfDate(archive) \in WholeArchives \cup {None}
    <3>1. archive \in WholeArchives \cup {None} /\ archive \in Archives \cup {None}
      BY <1>0, ArchivesAre DEF PathTypes
    <3> QED
      BY <3>1, ArchiveOutOfDate
  <2> QED
    BY <1>0, <1>10, <2>1, <2>2 DEF Compiled, PathTypes
<1>11. ASSUME EndFolder PROVE PathTypes'
  <2>1. UNCHANGED objectVars \/ RemoveObjects(SourcesOf(Libs \ request.uses))
    BY <1>11, FolderEnds DEF EndFolderLeads, Ended
  <2>2. object' \in [Sources -> Objects \cup {None}] /\ dep' \in [Sources -> {"none", "full", "cut", "bad"}]
    BY <1>0, <2>1, RemovedObjects DEF PathTypes
  <2> QED
    BY <1>0, <1>11, <2>2 DEF EndFolder, PathTypes
<1>12. ASSUME OpenArchive PROVE PathTypes'
  BY <1>0, <1>12 DEF OpenArchive, PathTypes
<1>13. ASSUME NEW s \in Sources, Ar(s) PROVE PathTypes'
  <2>1. s \in Core
    BY <1>13 DEF Ar, PoolInv
  <2>2. object[s] # None => [parts |-> More(s), current |-> TRUE] \in WholeArchives
    BY <1>0, <2>1, MoreParts
  <2>3. archive' \in {archive, [parts |-> More(s), current |-> TRUE]} /\ (object[s] = None => archive' = archive)
    BY <1>13 DEF Ar, More
  <2>4. archive' \in WholeArchives \cup {None}
    BY <1>0, <2>2, <2>3 DEF PathTypes
  <2> QED
    BY <1>0, <1>13, <2>4 DEF Ar, PathTypes
<1>14. ASSUME Cut PROVE PathTypes'
  <2>1. CASE CutWipe
    <3>1. PICK S : RemoveObjects(S)
      BY <2>1 DEF CutWipe
    <3>2. /\ options' \in {options, NoOptions} /\ copy' \in {copy, None}
          /\ lastUses' \in {lastUses, None} /\ archive' \in {archive, None}
      BY <2>1 DEF CutWipe
    <3> QED
      BY <1>0, <3>1, <3>2, RemovedObjects, EmptyOptions DEF PathTypes
  <2>2. CASE CutOptions
    BY <1>0, <2>2, EmptyOptions DEF CutOptions, PathTypes
  <2>3. CASE CutCopy
    <3>0. object[Main] \in Objects \cup {None}
      BY <1>0 DEF PathTypes
    <3>1. OutOfDate(object[Main]) \in Objects \cup {None}
      BY <3>0, ObjectOutOfDate
    <3> QED
      BY <1>0, <2>3, <3>1 DEF CutCopy, PathTypes
  <2>4. CASE CutFindIncludes
    BY <1>0, <2>4 DEF CutFindIncludes, PathTypes
  <2>5. CASE CutRemoveLibraries
    <3>1. PICK S : RemoveObjects(S)
      BY <2>5 DEF CutRemoveLibraries
    <3> QED
      BY <1>0, <2>5, <3>1, RemovedObjects DEF CutRemoveLibraries, PathTypes
  <2>6. CASE CutCompile
    <3>1. PICK fate \in [DOMAIN pool.busy -> {"done", "cut", "bad"}] :
            /\ object' = [s \in Sources |-> IF s \in DOMAIN fate /\ fate[s] = "done"
                                            THEN pool.busy[s] ELSE object[s]]
            /\ dep' = [s \in Sources |-> IF s \notin DOMAIN fate THEN dep[s]
                                         ELSE IF fate[s] = "done" THEN "full" ELSE fate[s]]
            /\ archive' \in {archive, OutOfDate(archive)}
      BY <2>6 DEF CutCompile
    <3>2. \A s \in DOMAIN pool.busy : pool.busy[s] \in Objects
      BY BusyIs DEF BuildTypes, PoolType
    <3>3. OutOfDate(archive) \in WholeArchives \cup {None}
      BY <1>0, ArchiveOutOfDate, ArchivesAre DEF PathTypes
    <3>4. object' \in [Sources -> Objects \cup {None}]
      BY <1>0, <3>1, <3>2 DEF PathTypes
    <3>5. dep' \in [Sources -> {"none", "full", "cut", "bad"}]
      BY <1>0, <3>1 DEF PathTypes
    <3> QED
      BY <1>0, <2>6, <3>1, <3>3, <3>4, <3>5 DEF CutCompile, PathTypes
  <2>7. CASE CutAr \/ CutShare \/ CutElsewhere
    BY <1>1, <2>7 DEF CutAr, CutShare, CutElsewhere
  <2> QED
    BY <1>14, <2>1, <2>2, <2>3, <2>4, <2>5, <2>6, <2>7 DEF Cut
<1>15. ASSUME \/ BeginBuild \/ Feed \/ Take \/ LookUpCore \/ ShareCore \/ Link \/ ToolFails
              \/ (\E e \in Entries : FindExpired(e)) \/ (\E m \in Modes, o \in Options : Start(m, o))
       PROVE  PathTypes'
  BY <1>1, <1>15 DEF BeginBuild, Feed, Take, Work, LookUpCore, ShareCore, Link, ToolFails, FindExpired, Start,
                     ArFailed, ShareFailed, ToolFailed, CompileFailed
<1> QED
  BY <1>1, <1>2, <1>3, <1>4, <1>5, <1>6, <1>7, <1>8, <1>9, <1>10, <1>11, <1>12, <1>13, <1>14, <1>15
  DEF Next, BuildStep, Around, EditSource, EditHeader

LEMMA KeyOfTheBuild ==
    ASSUME BuildTypes, pc # "idle"
    PROVE  Key \in Keys /\ request \in RequestType
BY DEF BuildTypes, RequestType, Key, Keys

LEMMA OlderCache ==
    ASSUME AroundTypes, CacheOutOfDate
    PROVE  /\ cache' \in [Keys -> Archives \cup {None}]
           /\ \A k \in Keys : /\ cache'[k] = None <=> cache[k] = None
                              /\ cache[k] # None => cache'[k].parts = cache[k].parts /\ ~cache'[k].current
<1>1. \A k \in Keys : cache[k] \in Archives \cup {None}
  BY DEF AroundTypes, CacheTypes
<1>2. \A k \in Keys : cache'[k] = OutOfDate(cache[k]) /\ DOMAIN cache' = Keys
  BY DEF CacheOutOfDate
<1>3. ASSUME NEW k \in Keys
      PROVE  /\ OutOfDate(cache[k]) \in Archives \cup {None} /\ (OutOfDate(cache[k]) = None <=> cache[k] = None)
             /\ cache[k] # None => OutOfDate(cache[k]).parts = cache[k].parts /\ OutOfDate(cache[k]).current = FALSE
  BY <1>1, ArchiveOutOfDate
<1>4. cache' \in [Keys -> Archives \cup {None}]
  BY <1>3 DEF CacheOutOfDate
<1> QED
  BY <1>2, <1>3, <1>4

\* What may still happen gets less.
LEMMA LessLeft ==
    ASSUME AroundTypes, [Next]_vars
    PROVE  /\ left' \in LeftType /\ left'.cuts <= left.cuts /\ left'.fails <= left.fails /\ left'.edits <= left.edits
           /\ Cut => left'.cuts < left.cuts
           /\ ArFailed \/ ShareFailed \/ ToolFailed \/ (\E s \in Sources : CompileFailed(s)) => left'.fails < left.fails
           /\ world' = world
<1>0. left \in LeftType /\ \A w \in {"builds", "edits", "cuts", "fails", "purges"} : left[w] \in Nat
  BY DEF AroundTypes, LeftType
<1>1. ASSUME NEW what \in {"builds", "edits", "cuts", "fails", "purges"}, Spend(what)
      PROVE  /\ left' \in LeftType /\ left'.cuts <= left.cuts /\ left'.fails <= left.fails /\ left'.edits <= left.edits
             /\ what = "cuts" => left'.cuts < left.cuts
             /\ what = "fails" => left'.fails < left.fails
  BY <1>0, <1>1, Spends
<1>2. UNCHANGED left => left' \in LeftType /\ left'.cuts <= left.cuts /\ left'.fails <= left.fails /\ left'.edits <= left.edits
  BY <1>0
<1>3. Cut => left'.cuts < left.cuts
  BY <1>1 DEF Cut
<1>4. ArFailed \/ ShareFailed \/ ToolFailed \/ (\E s \in Sources : CompileFailed(s)) => left'.fails < left.fails
  BY <1>1 DEF ArFailed, ShareFailed, ToolFailed, CompileFailed
<1>5. UNCHANGED left \/ \E what \in {"builds", "edits", "cuts", "fails", "purges"} : Spend(what)
  BY DEF Next, BuildStep, ToolFails, Around, vars, WipeBuildPath, CreateBuildOptions, PrepareSketch, FindIncludes,
         RemoveLibraries, BeginBuild, Feed, Take, Work, EndFolder, LookUpCore, OpenArchive, ShareCore, Link, Compiled, Ar,
         ArFailed, ShareFailed, ToolFailed, CompileFailed, EditPlatform, Cut, EditSource, EditHeader, Edit, FindExpired,
         RemoveExpired, Start
<1>6. world' = world
  BY DEF Next, BuildStep, ToolFails, Around, vars, WipeBuildPath, CreateBuildOptions, PrepareSketch, FindIncludes,
         RemoveLibraries, BeginBuild, Feed, Take, Work, EndFolder, LookUpCore, OpenArchive, ShareCore, Link, Compiled, Ar,
         ArFailed, ShareFailed, ToolFailed, CompileFailed, EditPlatform, Cut, EditSource, EditHeader, Edit, FindExpired,
         RemoveExpired, Start
<1> QED
  BY <1>1, <1>2, <1>3, <1>4, <1>5, <1>6

\* Only edits write the sources and the files of the platform.
LEMMA OnlyEdits ==
    ASSUME AroundTypes, [Next]_vars
    PROVE  \/ UNCHANGED <<content, platform>>
           \/ EditPlatform
           \/ \E s \in Sources, stamp \in {"current", "headers"} : Edit(s, stamp) /\ (stamp = "headers" => s # Main)
<1>1. CASE \E s \in Sources : EditSource(s)
  BY <1>1 DEF EditSource
<1>2. CASE \E s \in Sources : EditHeader(s)
  <2>1. PICK s \in Sources : Edit(s, "headers") /\ s \in world.headers
    BY <1>2 DEF EditHeader
  <2>2. s # Main
    BY <2>1 DEF AroundTypes
  <2> QED
    BY <2>1, <2>2
<1>3. CASE ~(\E s \in Sources : EditSource(s) \/ EditHeader(s))
  BY <1>3 DEF Next, BuildStep, ToolFails, Around, vars, sourceVars, WipeBuildPath, CreateBuildOptions, PrepareSketch,
       FindIncludes, RemoveLibraries, BeginBuild, Feed, Take, Work, EndFolder, LookUpCore, OpenArchive, ShareCore, Link,
       Compiled, Ar, ArFailed, ShareFailed, ToolFailed, CompileFailed, Cut, FindExpired, RemoveExpired, Start
<1> QED
  BY <1>1, <1>2, <1>3

\* The types, step by step: what is around the builds.
LEMMA AroundTypesKept ==
    ASSUME Types, [Next]_vars
    PROVE  AroundTypes'
<1> USE DEF Types, sourceVars, objectVars, pathVars, historyVars, purgeVars
<1>0. AroundTypes /\ PathTypes /\ BuildTypes
  OBVIOUS
<1>1. /\ world' \in Worlds /\ left' \in LeftType /\ left'.cuts <= world'.cuts /\ left'.fails <= world'.fails
      /\ left'.edits <= left.edits /\ left'.edits \in Nat /\ world' = world
  BY <1>0, LessLeft DEF AroundTypes, LeftType
<1>2. /\ content' \in [Sources -> Nat] /\ platform' \in Nat
      /\ \A s \in Sources : content'[s] + left'.edits <= world'.edits
  <2>1. CASE UNCHANGED <<content, platform>>
    BY <1>0, <1>1, <2>1 DEF AroundTypes, LeftType
  <2>2. CASE EditPlatform
    BY <1>0, <1>1, <2>2 DEF EditPlatform, AroundTypes, LeftType
  <2>3. ASSUME NEW s \in Sources, NEW stamp \in {"current", "headers"}, Edit(s, stamp)
        PROVE  /\ content' \in [Sources -> Nat] /\ platform' \in Nat
               /\ \A t \in Sources : content'[t] + left'.edits <= world'.edits
    <3>1. left'.edits = left.edits - 1
      BY <1>0, <2>3, Spends DEF Edit, AroundTypes
    <3> QED
      BY <1>0, <1>1, <2>3, <3>1 DEF Edit, AroundTypes, LeftType
  <2> QED
    BY <1>0, <2>1, <2>2, <2>3, OnlyEdits
<1>3. CacheTypes'
  <2>0. /\ "path" \in Entries /\ Keys \subseteq Entries
        /\ cache \in [Keys -> Archives \cup {None}] /\ doubtful \subseteq Entries
        /\ condemned \subseteq Entries /\ purged \in BOOLEAN /\ touched \in BOOLEAN
    BY <1>0 DEF Entries, AroundTypes, CacheTypes
  <2>1. CASE UNCHANGED <<cache, doubtful, condemned, purged, touched>>
    BY <2>0, <2>1 DEF CacheTypes
  <2>2. ASSUME NEW s \in Sources, NEW stamp \in {"current", "headers"}, Edit(s, stamp)
        PROVE  CacheTypes'
    <3>1. cache' \in [Keys -> Archives \cup {None}]
      BY <1>0, <2>0, <2>2, OlderCache DEF Edit
    <3> QED
      BY <2>0, <2>2, <3>1 DEF CacheTypes, Edit
  <2>3. CASE EditPlatform
    BY <1>0, <2>0, <2>3, OlderCache DEF CacheTypes, EditPlatform
  <2>4. CASE \E e \in Entries : FindExpired(e)
    BY <2>0, <2>4 DEF CacheTypes, FindExpired
  <2>5. CASE \E e \in Entries : RemoveExpired(e)
    BY <2>0, <2>5 DEF CacheTypes, RemoveExpired
  <2>6. CASE ShareCore
    <3>1. [parts |-> archive.parts, current |-> TRUE] \in Archives \/ archive = None
      BY <1>0, ArchivesAre DEF PathTypes, WholeArchives
    <3>2. Key \in Entries
      BY <1>0, <2>0, <2>6, KeyOfTheBuild DEF ShareCore
    <3>3. CASE request.mode = "database" \/ archive = None
      BY <2>0, <2>6, <3>3 DEF ShareCore, CacheTypes
    <3>4. CASE ~(request.mode = "database" \/ archive = None)
      <4>1. PICK a \in Archives : cache' = [cache EXCEPT ![Key] = a]
        BY <2>6, <3>1, <3>4 DEF ShareCore
      <4>2. doubtful' \in {doubtful \cup {Key}, doubtful \ {Key}} /\ UNCHANGED <<condemned, purged, touched>>
        BY <2>6, <3>4 DEF ShareCore
      <4> QED
        BY <2>0, <3>2, <4>1, <4>2 DEF CacheTypes
    <3> QED
      BY <3>3, <3>4
  <2>7. CASE Cut
    <3>1. [parts |-> Damaged, current |-> TRUE] \in Archives
      BY DEF Archives
    <3> QED
      BY <2>0, <2>7, <3>1 DEF CacheTypes, Cut, CutWipe, CutOptions, CutCopy, CutFindIncludes, CutRemoveLibraries, CutCompile,
                              CutAr, CutShare, CutCacheFile, CutElsewhere
  <2>8. CASE \/ WipeBuildPath \/ CreateBuildOptions \/ PrepareSketch \/ FindIncludes \/ RemoveLibraries
             \/ BeginBuild \/ Feed \/ Take \/ EndFolder \/ LookUpCore \/ OpenArchive \/ Link
             \/ (\E s \in Sources : Compiled(s) \/ CompileFailed(s) \/ Ar(s)) \/ ArFailed \/ ToolFailed
             \/ (\E m \in Modes, o \in Options : Start(m, o))
    BY <2>0, <2>8 DEF CacheTypes, WipeBuildPath, CreateBuildOptions, PrepareSketch, FindIncludes, RemoveLibraries, BeginBuild, Feed,
         Take, Work, EndFolder, LookUpCore, OpenArchive, Link, Compiled, Ar, ArFailed, ToolFailed, CompileFailed, Start
  <2>9. CASE ShareFailed
    <3>1. [parts |-> Damaged, current |-> TRUE] \in Archives
      BY DEF Archives
    <3>2. UNCHANGED <<doubtful, condemned, purged, touched>> /\ (UNCHANGED cache \/ CutCacheFile)
      BY <2>9 DEF ShareFailed
    <3>3. cache' \in [Keys -> Archives \cup {None}]
      BY <2>0, <3>1, <3>2 DEF CutCacheFile
    <3> QED
      BY <2>0, <3>2, <3>3 DEF CacheTypes
  <2> QED
    BY <2>1, <2>2, <2>3, <2>4, <2>5, <2>6, <2>7, <2>8, <2>9 DEF ToolFails, Next, BuildStep, Around, EditSource, EditHeader, vars
<1> QED
  BY <1>1, <1>2, <1>3 DEF AroundTypes

-----------------------------------------------------------------------------
\* The types, step by step: the build and its pool.
LEMMA BuildEndsIdle ==
    ASSUME NEW result \in Outcomes, End(result), request' \in RequestType, NEW x, linked' = x
    PROVE  BuildTypes' /\ PoolInv'
BY IdlePoolType DEF End, BuildTypes, PoolInv, Places, InBuild

LEMMA BuildRests ==
    ASSUME BuildTypes, PoolInv, UNCHANGED <<pc, request, pool, linked, outcome>>
    PROVE  BuildTypes' /\ PoolInv'
<1>1. BuildTypes'
  BY DEF BuildTypes
<1>2. Compiling' <=> Compiling
  BY DEF Compiling
<1> QED
  BY <1>1, <1>2 DEF PoolInv, InBuild, Settled

\* From one place to the next, with an idle pool.
LEMMA BuildGoesOn ==
    ASSUME BuildTypes, PoolInv, pc # "idle", ~InBuild, NEW place \in Places \ {"idle"}, ~InBuild', pc' = place,
           request' \in RequestType, UNCHANGED <<pool, linked, outcome>>
    PROVE  BuildTypes' /\ PoolInv'
<1>1. BuildTypes'
  BY Distinct DEF BuildTypes, RequestType
<1> QED
  BY <1>1 DEF PoolInv, InBuild, BuildTypes

LEMMA BuildEnters ==
    ASSUME Types, pc # "idle", NEW folder \in Folders, NEW libs \in SUBSET Libs, Enter(folder, libs),
           folder = "sketch" => libs = request.uses,
           libs \subseteq request.uses, folder \notin libs, folder \in {"variant", "core"} => libs = {},
           UNCHANGED <<request, linked, outcome>>
    PROVE  BuildTypes' /\ PoolInv'
<1>0. /\ pc' = "compile" /\ pool' \in PoolType
      /\ pool'.folder = folder /\ pool'.todo = SourcesOf({folder}) /\ pool'.libs = libs
      /\ pool'.offered = None /\ pool'.busy = <<>> /\ pool'.error = None /\ pool'.late = 0 /\ pool'.core = None
  BY EnteredPool
<1>1. BuildTypes'
  BY <1>0 DEF Types, BuildTypes, Places
<1>2. DOMAIN pool'.busy = {} /\ IsFiniteSet({}) /\ Cardinality({}) = 0
  BY <1>0, EmptyFunction, FS_EmptySet
<1>3. Compiling'
  BY <1>0, <1>2 DEF Compiling
<1> QED
  BY <1>0, <1>1, <1>3 DEF PoolInv, InBuild

LEMMA ImportedLibraries ==
    ASSUME AroundTypes
    PROVE  Imports[content[Main]] \in SUBSET Libs
<1>1. content[Main] \in 0 .. world.edits
  BY DEF AroundTypes, LeftType
<1> QED
  BY <1>1 DEF AroundTypes

LEMMA OneLess ==
    ASSUME NEW S, NEW x, IsFiniteSet(S), Cardinality(S) <= Jobs
    PROVE  IsFiniteSet(S \ {x}) /\ Cardinality(S \ {x}) <= Jobs
<1>1. Cardinality(S) \in Nat
  BY FS_CardinalityType
<1>2. IsFiniteSet(S \ {x}) /\ Cardinality(S \ {x}) = IF x \in S THEN Cardinality(S) - 1 ELSE Cardinality(S)
  BY FS_RemoveElement
<1> QED
  BY <1>1, <1>2

LEMMA OneMore ==
    ASSUME NEW S, NEW x, IsFiniteSet(S), Cardinality(S) < Jobs
    PROVE  IsFiniteSet(S \cup {x}) /\ Cardinality(S \cup {x}) <= Jobs
<1>1. Cardinality(S) \in Nat
  BY FS_CardinalityType
<1>2. IsFiniteSet(S \cup {x}) /\ Cardinality(S \cup {x}) = IF x \in S THEN Cardinality(S) ELSE Cardinality(S) + 1
  BY FS_AddElement
<1> QED
  BY <1>1, <1>2

\* The workers go on: one takes a source, or ends a compilation.
LEMMA WorkersGoOn ==
    ASSUME Types, PoolInv, pc = "compile", pool' \in PoolType, UNCHANGED <<pc, request, linked, outcome>>,
           pool'.folder = pool.folder, pool'.libs = pool.libs, pool'.core = pool.core,
           pool'.todo \subseteq pool.todo,
           pool'.offered # None => pool'.offered = pool.offered \/ pool'.offered \in pool.todo,
           DOMAIN pool'.busy \subseteq DOMAIN pool.busy \cup {pool.offered},
           pool'.busy # <<>> => request.mode # "database",
           \/ pool'.busy = pool.busy
           \/ \E s : DOMAIN pool'.busy = DOMAIN pool.busy \ {s}
           \/ /\ Cardinality(DOMAIN pool.busy) < Jobs /\ pool.offered # None
              /\ DOMAIN pool'.busy = DOMAIN pool.busy \cup {pool.offered},
           pool'.late <= 1, pool'.error = None \/ pool'.offered # None => pool'.late = 0
    PROVE  BuildTypes' /\ PoolInv'
<1>1. BuildTypes'
  BY DEF Types, BuildTypes
<1>2. Compiling
  BY DEF PoolInv
<1>3. IsFiniteSet(DOMAIN pool'.busy) /\ Cardinality(DOMAIN pool'.busy) <= Jobs
  <2>1. IsFiniteSet(DOMAIN pool.busy) /\ Cardinality(DOMAIN pool.busy) <= Jobs /\ Cardinality(DOMAIN pool.busy) \in Nat
    BY <1>2, FS_CardinalityType DEF Compiling
  <2>2. ASSUME NEW s, DOMAIN pool'.busy = DOMAIN pool.busy \ {s}
        PROVE  IsFiniteSet(DOMAIN pool'.busy) /\ Cardinality(DOMAIN pool'.busy) <= Jobs
    <3>1. IsFiniteSet(DOMAIN pool.busy \ {s}) /\ Cardinality(DOMAIN pool.busy \ {s}) <= Jobs
      BY <2>1, OneLess, Zenon
    <3> QED
      BY <2>2, <3>1, Zenon
  <2>3. ASSUME Cardinality(DOMAIN pool.busy) < Jobs, DOMAIN pool'.busy = DOMAIN pool.busy \cup {pool.offered}
        PROVE  IsFiniteSet(DOMAIN pool'.busy) /\ Cardinality(DOMAIN pool'.busy) <= Jobs
    <3>1. IsFiniteSet(DOMAIN pool.busy \cup {pool.offered}) /\ Cardinality(DOMAIN pool.busy \cup {pool.offered}) <= Jobs
      BY <2>1, <2>3, OneMore, Zenon
    <3> QED
      BY <2>3, <3>1, Zenon
  <2> QED
    BY <2>1, <2>2, <2>3
<1>4. /\ pool'.todo \cup DOMAIN pool'.busy \subseteq SourcesOf({pool'.folder})
      /\ pool'.offered # None => pool'.offered \in SourcesOf({pool'.folder})
  <2>1. /\ pool.todo \cup DOMAIN pool.busy \subseteq SourcesOf({pool.folder})
        /\ pool.offered # None => pool.offered \in SourcesOf({pool.folder})
    BY <1>2 DEF Compiling
  <2>2. pool.offered = None => None \notin DOMAIN pool'.busy
    BY BusyIs, Distinct DEF PoolType
  <2> QED
    BY <2>1, <2>2
<1>5. Compiling'
  BY <1>2, <1>3, <1>4 DEF Compiling
<1> QED
  BY <1>1, <1>5 DEF PoolInv, InBuild

LEMMA BuildKept ==
    ASSUME Types, PoolInv, [Next]_vars
    PROVE  BuildTypes' /\ PoolInv'
<1> USE DEF sourceVars, objectVars, pathVars, historyVars, purgeVars
<1>0. PathTypes /\ AroundTypes /\ BuildTypes /\ pool \in PoolType /\ (pc # "idle" => request \in RequestType)
  BY DEF Types, BuildTypes
<1>1. UNCHANGED <<pc, request, pool, linked, outcome>> => BuildTypes' /\ PoolInv'
  BY <1>0, BuildRests
<1>2. ASSUME NEW result \in Outcomes, End(result), pc # "idle", UNCHANGED request
      PROVE  BuildTypes' /\ PoolInv'
  BY <1>0, <1>2, BuildEndsIdle
<1>3. ASSUME NEW m \in Modes, NEW o \in Options, Start(m, o)
      PROVE  BuildTypes' /\ PoolInv'
  <2>1. request' \in RequestType
    BY <1>0, <1>3 DEF Start, RequestType, AroundTypes
  <2> QED
    BY <1>3, <2>1, IdlePoolType DEF Start, BuildTypes, PoolInv, Places, InBuild
<1>4. ASSUME WipeBuildPath \/ CreateBuildOptions \/ RemoveLibraries
      PROVE  BuildTypes' /\ PoolInv'
  <2>1. /\ pc # "idle" /\ ~InBuild /\ pc' \in Places \ {"idle"} /\ ~InBuild'
        /\ UNCHANGED <<request, pool, linked, outcome>>
    BY <1>4 DEF WipeBuildPath, CreateBuildOptions, RemoveLibraries, InBuild, Places
  <2> QED
    BY <1>0, <2>1, BuildGoesOn
<1>5. ASSUME PrepareSketch
      PROVE  BuildTypes' /\ PoolInv'
  <2>1. request' \in RequestType
    BY <1>0, <1>5, ImportedLibraries DEF PrepareSketch, RequestType
  <2>2. /\ pc # "idle" /\ ~InBuild /\ pc' \in Places \ {"idle"} /\ ~InBuild' /\ UNCHANGED <<pool, linked, outcome>>
    BY <1>5 DEF PrepareSketch, InBuild, Places
  <2> QED
    BY <1>0, <2>1, <2>2, BuildGoesOn
<1>6. ASSUME FindIncludes
      PROVE  BuildTypes' /\ PoolInv'
  <2>1. CASE lastUses = Damaged /\ request.mode # "database"
    BY <1>0, <1>2, <1>6, <2>1 DEF FindIncludes, Outcomes
  <2>2. CASE ~(lastUses = Damaged /\ request.mode # "database")
    <3>1. request' \in RequestType
      BY <1>0, <1>6, <2>2 DEF FindIncludes, RequestType
    <3>2. /\ pc # "idle" /\ ~InBuild /\ pc' \in Places \ {"idle"} /\ ~InBuild' /\ UNCHANGED <<pool, linked, outcome>>
      BY <1>6, <2>2 DEF FindIncludes, InBuild, Places
    <3> QED
      BY <1>0, <3>1, <3>2, BuildGoesOn
  <2> QED
    BY <2>1, <2>2
<1>7. ASSUME BeginBuild
      PROVE  BuildTypes' /\ PoolInv'
  <2>1. CASE request.mode = "preprocess"
    BY <1>0, <1>2, <1>7, <2>1 DEF BeginBuild, Outcomes
  <2>2. CASE request.mode # "preprocess"
    <3>1. Enter("sketch", request.uses) /\ UNCHANGED <<request, linked, outcome>> /\ pc # "idle"
      BY <1>7, <2>2 DEF BeginBuild
    <3>2. "sketch" \in Folders /\ request.uses \in SUBSET Libs /\ "sketch" \notin request.uses
      BY <1>0, <3>1, FoldersOf DEF RequestType, Folders
    <3> QED
      BY <3>1, <3>2, BuildEnters
  <2> QED
    BY <2>1, <2>2
<1>8. ASSUME Feed
      PROVE  BuildTypes' /\ PoolInv'
  <2>1. pc = "compile" /\ UNCHANGED <<pc, request, linked, outcome>> /\ pool.offered = None
    BY <1>8 DEF Feed
  <2>2. Compiling
    BY <2>1 DEF PoolInv
  <2>3. /\ pool' \in PoolType
        /\ pool'.folder = pool.folder /\ pool'.busy = pool.busy /\ pool'.error = pool.error
        /\ pool'.late = pool.late /\ pool'.libs = pool.libs /\ pool'.core = pool.core
        /\ \/ pool.error # None /\ pool'.todo = {} /\ pool'.offered = None
           \/ /\ pool.error = None /\ pool'.offered \in pool.todo
              /\ pool'.todo = pool.todo \ {pool'.offered}
    BY <1>0, <1>8, FedPool
  <2> QED
    BY <2>1, <2>2, <2>3, WorkersGoOn DEF Compiling
<1>9. ASSUME Take
      PROVE  BuildTypes' /\ PoolInv'
  <2>1. pool.offered # None /\ Cardinality(DOMAIN pool.busy) < Jobs /\ UNCHANGED <<pc, request, linked, outcome>>
    BY <1>9 DEF Take, Work
  <2>2. pc = "compile"
    BY <2>1, PoolOfIdle DEF PoolInv, Settled
  <2>3. Compiling
    BY <2>2 DEF PoolInv
  <2>4. pool.offered \in Sources /\ IsTaken(pool', pool.offered, Verdict(pool.offered))
    BY <1>9, <2>2, TakenPool
  <2>5. /\ pool' \in PoolType
        /\ pool'.folder = pool.folder /\ pool'.todo = pool.todo /\ pool'.libs = pool.libs /\ pool'.core = pool.core
        /\ pool'.offered = None /\ (pool'.busy = pool.busy \/ (pool'.busy = With(pool.offered) /\ request.mode # "database"))
        /\ pool'.late = (IF pool.error = None THEN 0 ELSE pool.late + 1)
        /\ pool.error # None => pool'.error # None
    BY <2>4 DEF IsTaken
  <2>6. DOMAIN With(pool.offered) = DOMAIN pool.busy \cup {pool.offered}
    BY DEF With
  <2>7. pool'.late <= 1 /\ (pool'.error = None => pool'.late = 0)
    BY <2>1, <2>3, <2>5 DEF Compiling
  <2> QED
    BY <2>1, <2>2, <2>3, <2>5, <2>6, <2>7, WorkersGoOn DEF Compiling
<1>10. ASSUME NEW s \in Sources, Compiled(s) \/ CompileFailed(s)
       PROVE  BuildTypes' /\ PoolInv'
  <2>1. s \in DOMAIN pool.busy /\ UNCHANGED <<pc, request, linked, outcome>>
    BY <1>10 DEF Compiled, CompileFailed
  <2>2. pc = "compile"
    BY <2>1, PoolOfIdle, EmptyFunction DEF PoolInv, Settled
  <2>3. Compiling
    BY <2>2 DEF PoolInv
  <2>4. /\ pool' \in PoolType /\ pool'.busy = NotBusy(s)
        /\ pool'.folder = pool.folder /\ pool'.todo = pool.todo /\ pool'.libs = pool.libs /\ pool'.core = pool.core
        /\ pool'.offered = pool.offered /\ pool'.late = pool.late
        /\ pool'.error = None => pool.error = None
    BY <1>0, <1>10, CompiledPool, FailedPool DEF Compiled, CompileFailed
  <2>5. DOMAIN NotBusy(s) = DOMAIN pool.busy \ {s}
    BY <1>0, WithOneLess DEF PoolType
  <2>6. pool.busy # <<>>
    BY <2>1, EmptyFunction
  <2> QED
    BY <2>1, <2>2, <2>3, <2>4, <2>5, <2>6, WorkersGoOn DEF Compiling
<1>11. ASSUME EndFolder
       PROVE  BuildTypes' /\ PoolInv'
  <2>1. pc = "compile" /\ AllDone /\ UNCHANGED <<request, linked>>
    BY <1>11 DEF EndFolder
  <2>2. Compiling
    BY <2>1 DEF PoolInv
  <2>3. EndFolderLeads
    BY <1>11, FolderEnds
  <2>4. CASE pool.error # None /\ Ended(pool.error)
    <3>1. pool.error \in Outcomes
      BY <1>0, <2>4 DEF PoolType
    <3> QED
      BY <1>2, <2>1, <2>4, <3>1 DEF Ended
  <2>5. ASSUME NEW f \in {"core", "variant"}, pool.error = None, UNCHANGED <<outcome, pool>>,
               pool.folder = f, pc' = IF f = "core" THEN "archive" ELSE "lookup"
        PROVE  BuildTypes' /\ PoolInv'
    <3>1. Settled
      BY <2>1, <2>2, <2>5 DEF AllDone, Compiling, Settled
    <3>2. BuildTypes'
      BY <1>0, <2>1, <2>5 DEF BuildTypes, Places
    <3> QED
      BY <2>1, <2>5, <3>1, <3>2 DEF PoolInv, InBuild, Settled
  <2>6. CASE pool.libs = {} /\ Enter("variant", {}) /\ UNCHANGED outcome
    BY <2>1, <2>6, BuildEnters, FoldersOf DEF Folders
  <2>7. ASSUME NEW l \in pool.libs, Enter(l, pool.libs \ {l}), UNCHANGED outcome
        PROVE  BuildTypes' /\ PoolInv'
    <3>1. l \in Folders /\ pool.libs \ {l} \in SUBSET Libs /\ l \notin {"sketch", "variant", "core"}
      BY <1>0, <2>7, FoldersOf DEF PoolType
    <3>2. pool.libs \ {l} \subseteq request.uses
      BY <2>2 DEF Compiling
    <3> QED
      BY <2>1, <2>7, <3>1, <3>2, BuildEnters
  <2> QED
    BY <2>3, <2>4, <2>5, <2>6, <2>7 DEF EndFolderLeads
<1>12. ASSUME LookUpCore
       PROVE  BuildTypes' /\ PoolInv'
  <2>1. pc = "lookup" /\ UNCHANGED <<request, linked, outcome>> /\ Settled
    BY <1>12 DEF LookUpCore, PoolInv, InBuild
  <2>2. CASE request.mode = "build" /\ pc' = "link" /\ pool' = [pool EXCEPT !.core = "cache"]
    <3>1. /\ pool' \in PoolType /\ pool'.core = "cache" /\ pool'.busy = pool.busy /\ pool'.offered = pool.offered
          /\ pool'.error = pool.error /\ pool'.late = pool.late /\ pool'.libs = pool.libs /\ pool'.folder = pool.folder
      BY <1>0, <2>2 DEF PoolType
    <3>2. BuildTypes'
      BY <1>0, <2>1, <2>2, <3>1 DEF BuildTypes, Places
    <3> QED
      BY <2>1, <2>2, <3>1, <3>2 DEF PoolInv, InBuild, Settled
  <2>3. CASE Enter("core", {})
    BY <2>1, <2>3, BuildEnters, FoldersOf DEF Folders
  <2> QED
    BY <1>12, <2>2, <2>3 DEF LookUpCore
<1>13. ASSUME OpenArchive
       PROVE  BuildTypes' /\ PoolInv'
  <2>1. pc = "archive" /\ UNCHANGED <<request, linked, outcome>> /\ Settled
    BY <1>13 DEF OpenArchive, PoolInv, InBuild
  <2>2. CASE pc' = "share" /\ UNCHANGED pool
    <3>1. BuildTypes'
      BY <1>0, <2>1, <2>2 DEF BuildTypes, Places
    <3> QED
      BY <2>1, <2>2, <3>1 DEF PoolInv, InBuild, Settled
  <2>3. CASE request.mode # "database" /\ pc' = "ar" /\ pool' = [pool EXCEPT !.todo = Core]
    <3>1. /\ pool' \in PoolType /\ pool'.core = pool.core /\ pool'.busy = pool.busy /\ pool'.offered = pool.offered
          /\ pool'.error = pool.error /\ pool'.late = pool.late /\ pool'.libs = pool.libs /\ pool'.folder = pool.folder
          /\ pool'.todo = Core
      BY <1>0, <2>3 DEF PoolType, Core
    <3>2. BuildTypes'
      BY <1>0, <2>1, <2>3, <3>1 DEF BuildTypes, Places
    <3> QED
      BY <2>1, <2>3, <3>1, <3>2 DEF PoolInv, InBuild, Settled
  <2> QED
    BY <1>13, <2>2, <2>3 DEF OpenArchive
<1>14. ASSUME NEW s \in Sources, Ar(s)
       PROVE  BuildTypes' /\ PoolInv'
  <2>1. pc = "ar" /\ UNCHANGED <<request, linked>> /\ Settled /\ request.mode # "database"
    BY <1>14 DEF Ar, PoolInv, InBuild
  <2>2. CASE End("gone")
    BY <1>2, <2>1, <2>2 DEF Outcomes
  <2>3. CASE pool' = [pool EXCEPT !.todo = @ \ {s}] /\ pc' \in {"share", "ar"} /\ UNCHANGED outcome
    <3>1. /\ pool' \in PoolType /\ pool'.core = pool.core /\ pool'.busy = pool.busy /\ pool'.offered = pool.offered
          /\ pool'.error = pool.error /\ pool'.late = pool.late /\ pool'.libs = pool.libs /\ pool'.folder = pool.folder
          /\ pool'.todo = pool.todo \ {s}
      BY <1>0, <2>3 DEF PoolType
    <3>2. BuildTypes'
      BY <1>0, <2>1, <2>3, <3>1 DEF BuildTypes, Places
    <3> QED
      BY <2>1, <2>3, <3>1, <3>2 DEF PoolInv, InBuild, Settled
  <2> QED
    BY <1>14, <2>2, <2>3 DEF Ar
<1>15. ASSUME ShareCore \/ ShareFailed
       PROVE  BuildTypes' /\ PoolInv'
  <2>1. /\ pc = "share" /\ pc' = "link" /\ UNCHANGED <<request, linked, outcome>>
        /\ pool' = [pool EXCEPT !.core = "path"]
    BY <1>15 DEF ShareCore, ShareFailed
  <2>2. Settled /\ pool.folder = "core"
    BY <2>1 DEF PoolInv, InBuild
  <2>3. /\ pool' \in PoolType /\ pool'.core = "path" /\ pool'.busy = pool.busy /\ pool'.offered = pool.offered
        /\ pool'.error = pool.error /\ pool'.late = pool.late /\ pool'.libs = pool.libs /\ pool'.folder = pool.folder
    BY <1>0, <2>1 DEF PoolType
  <2>4. BuildTypes'
    BY <1>0, <2>1, <2>3 DEF BuildTypes, Places
  <2> QED
    BY <2>1, <2>2, <2>3, <2>4 DEF PoolInv, InBuild, Settled
<1>16. ASSUME Link \/ ArFailed \/ ToolFailed \/ Cut
       PROVE  BuildTypes' /\ PoolInv'
  BY <1>0, <1>2, <1>16, BuildEndsIdle DEF Link, ArFailed, ToolFailed, Cut, Outcomes
<1>17. ASSUME \/ UNCHANGED vars \/ EditPlatform
              \/ \E s \in Sources : EditSource(s) \/ EditHeader(s)
              \/ \E e \in Entries : FindExpired(e) \/ RemoveExpired(e)
       PROVE  BuildTypes' /\ PoolInv'
  BY <1>1, <1>17 DEF vars, EditPlatform, EditSource, EditHeader, Edit, FindExpired, RemoveExpired
<1> QED
  BY <1>3, <1>4, <1>5, <1>6, <1>7, <1>8, <1>9, <1>10, <1>11, <1>12, <1>13, <1>14, <1>15, <1>16, <1>17
  DEF Next, BuildStep, ToolFails, Around

-----------------------------------------------------------------------------
BaseInv == Types /\ PoolInv

LEMMA BaseInit ==
    ASSUME Init
    PROVE  BaseInv
<1> USE DEF Init
<1>1. PathTypes
  BY EmptyOptions DEF PathTypes
<1>2. AroundTypes
  <2>1. left \in LeftType /\ left.cuts = world.cuts /\ left.fails = world.fails /\ left.edits = world.edits
    BY DEF LeftType
  <2>2. CacheTypes
    BY DEF CacheTypes
  <2> QED
    BY <2>1, <2>2 DEF AroundTypes, LeftType
<1>3. BuildTypes
  BY IdlePoolType DEF BuildTypes, Places
<1>4. PoolInv
  BY DEF PoolInv, InBuild
<1> QED
  BY <1>1, <1>2, <1>3, <1>4 DEF BaseInv, Types

LEMMA BaseStep ==
    ASSUME BaseInv, [Next]_vars
    PROVE  BaseInv'
BY PathTypesKept, AroundTypesKept, BuildKept DEF BaseInv, Types

LEMMA BaseAlways == Spec => []BaseInv
<1>1. Init => BaseInv
  BY BaseInit
<1>2. BaseInv /\ [Next]_vars => BaseInv'
  BY BaseStep
<1> QED
  BY <1>1, <1>2, PTL DEF Spec

LEMMA BaseBuild ==
    ASSUME BaseInv
    PROVE  BuildInv
<1>0. PathTypes /\ AroundTypes /\ BuildTypes /\ PoolInv
  BY DEF BaseInv, Types
<1>1. pc = "compile" => Compiling
  BY <1>0 DEF PoolInv
<1>2. pc # "compile" => pool.busy = <<>> /\ pool.late = 0
  BY <1>0, PoolOfIdle DEF PoolInv, Settled
<1>3. DOMAIN pool.busy \subseteq Sources /\ Cardinality(DOMAIN pool.busy) <= Jobs
  <2>1. DOMAIN pool.busy \subseteq Sources
    BY <1>0, BusyIs DEF BuildTypes, PoolType
  <2>2. CASE pc = "compile"
    BY <1>1, <2>1, <2>2 DEF Compiling
  <2>3. CASE pc # "compile"
    BY <1>2, <2>1, <2>3, EmptyFunction, FS_EmptySet
  <2> QED
    BY <2>2, <2>3
<1>4. pool.todo \subseteq Sources /\ pool.offered \in Sources \cup {None}
  BY <1>0 DEF BuildTypes, PoolType
<1>5. TypeOK
  BY <1>0, <1>3, <1>4 DEF TypeOK, PathTypes, AroundTypes, CacheTypes, BuildTypes, OptionsType, Places
<1>6. StopsAfterError
  BY <1>1, <1>2 DEF StopsAfterError, Compiling
<1>7. NothingLeftRunning
  BY <1>2 DEF NothingLeftRunning
<1> QED
  BY <1>5, <1>6, <1>7 DEF BuildInv

\* The types hold; once a compiler has failed at most one more source is given to a worker,
\* and none is running when a folder is done or the build has ended.
THEOREM BuildIsSafe == Spec => []BuildInv
<1>1. BaseInv => BuildInv
  BY BaseBuild
<1> QED
  BY <1>1, BaseAlways, PTL

-----------------------------------------------------------------------------
\* The steps by where the build is.
Starts == \E m \in Modes, o \in Options : Start(m, o)

Outside ==
    \/ UNCHANGED vars \/ EditPlatform
    \/ \E s \in Sources, stamp \in {"current", "headers"} : Edit(s, stamp) /\ (stamp = "headers" => s # Main)
    \/ \E e \in Entries : FindExpired(e) \/ RemoveExpired(e)

Working == Feed \/ Take \/ \E s \in Sources : Compiled(s) \/ CompileFailed(s)

From(p, q) == pc = p /\ pc' = q

LEMMA Moves ==
    ASSUME BaseInv, [Next]_vars
    PROVE  \/ Outside /\ UNCHANGED <<pc, request, pool, linked, outcome>>
           \/ Working /\ From("compile", "compile") /\ UNCHANGED <<request, linked, outcome>>
           \/ Starts /\ From("idle", "options")
           \/ WipeBuildPath /\ From("options", "stamp")
           \/ CreateBuildOptions /\ From("stamp", "copy")
           \/ PrepareSketch /\ From("copy", "detect")
           \/ FindIncludes /\ \E q \in {"prune", "preprocessed", "idle"} : From("detect", q)
           \/ RemoveLibraries /\ From("prune", "preprocessed")
           \/ BeginBuild /\ \E q \in {"compile", "idle"} : From("preprocessed", q)
           \/ EndFolder /\ \E q \in {"compile", "lookup", "archive", "idle"} : From("compile", q)
           \/ LookUpCore /\ \E q \in {"link", "compile"} : From("lookup", q)
           \/ OpenArchive /\ \E q \in {"share", "ar"} : From("archive", q)
           \/ (\E s \in Sources : Ar(s)) /\ \E q \in {"ar", "share", "idle"} : From("ar", q)
           \/ (ShareCore \/ ShareFailed) /\ From("share", "link")
           \/ (Link \/ ArFailed \/ ToolFailed \/ Cut) /\ pc # "idle" /\ pc' = "idle"
<1>0. AroundTypes /\ PoolInv /\ BuildTypes
  BY DEF BaseInv, Types
<1>1. CASE \E s \in Sources : EditSource(s) \/ EditHeader(s)
  <2>1. \E s \in Sources, stamp \in {"current", "headers"} : Edit(s, stamp) /\ (stamp = "headers" => s # Main)
    BY <1>0, <1>1 DEF EditSource, EditHeader, AroundTypes
  <2>2. UNCHANGED <<pc, request, pool, linked, outcome>>
    BY <2>1 DEF Edit
  <2> QED
    BY <2>1, <2>2 DEF Outside
<1>2. CASE UNCHANGED vars \/ EditPlatform \/ \E e \in Entries : FindExpired(e) \/ RemoveExpired(e)
  BY <1>2 DEF Outside, vars, EditPlatform, FindExpired, RemoveExpired
<1>3. CASE Working
  <2>1. pc = "compile"
    <3>1. pc # "compile" => pool.offered = None /\ pool.busy = <<>>
      BY <1>0, PoolOfIdle DEF PoolInv, Settled
    <3>2. pc # "compile" => \A s \in Sources : s \notin DOMAIN pool.busy
      BY <3>1, EmptyFunction
    <3> QED
      BY <1>3, <3>1, <3>2 DEF Working, Feed, Take, Compiled, CompileFailed
  <2> QED
    BY <1>3, <2>1 DEF Working, Feed, Take, Work, Compiled, CompileFailed, From
<1>4. CASE \/ Starts \/ WipeBuildPath \/ CreateBuildOptions \/ PrepareSketch \/ FindIncludes \/ RemoveLibraries
  BY <1>4 DEF Starts, Start, WipeBuildPath, CreateBuildOptions, PrepareSketch, FindIncludes, RemoveLibraries, End, From
<1>5. CASE BeginBuild \/ LookUpCore \/ OpenArchive \/ (\E s \in Sources : Ar(s)) \/ ShareCore \/ ShareFailed
  BY <1>5 DEF BeginBuild, LookUpCore, OpenArchive, Ar, ShareCore, ShareFailed, Enter, End, From
<1>6. CASE EndFolder
  <2>1. pc = "compile" /\ pc' \in {"compile", "lookup", "archive", "idle"}
    BY <1>6, FolderEnds DEF EndFolder, EndFolderLeads, Ended, End, Enter
  <2> QED
    BY <1>6, <2>1 DEF From
<1>7. CASE Link \/ ArFailed \/ ToolFailed \/ Cut
  BY <1>7 DEF Link, ArFailed, ToolFailed, Cut, End
<1> QED
  BY <1>1, <1>2, <1>3, <1>4, <1>5, <1>6, <1>7 DEF Next, BuildStep, ToolFails, Around, Working, Starts

-----------------------------------------------------------------------------
\* What a step makes of an object: it is as it was but for its stamps, or it is gone, or it is
\* what a compiler has made.
Stays(s) ==
    /\ object[s] # None /\ object'[s] # None
    /\ object'[s].ver = object[s].ver /\ object'[s].opt = object[s].opt /\ object'[s].plat = object[s].plat
    /\ object'[s].uses = object[s].uses
    /\ object'[s].current => object[s].current
    /\ object'[s].headers => object[s].headers

IsMade(s) == s \in DOMAIN pool.busy /\ object'[s] = pool.busy[s] /\ dep'[s] = "full" /\ (Compiled(s) \/ Cut)

LEMMA ObjectSteps ==
    ASSUME BaseInv, [Next]_vars, NEW s \in Sources
    PROVE  object'[s] = None \/ Stays(s) \/ IsMade(s)
<1> USE DEF sourceVars, objectVars, pathVars, historyVars, purgeVars
<1>0. PathTypes /\ AroundTypes /\ BuildTypes /\ object[s] \in Objects \cup {None}
  BY DEF BaseInv, Types, PathTypes
<1>1. object'[s] = object[s] => object'[s] = None \/ Stays(s)
  BY DEF Stays
<1>2. object'[s] = OutOfDate(object[s]) => object'[s] = None \/ Stays(s)
  BY <1>0, ObjectOutOfDate DEF Stays
<1>3. ASSUME NEW t \in Sources, NEW stamp \in {"current", "headers"}, Edit(t, stamp)
      PROVE  object'[s] = None \/ Stays(s)
  <2>1. object'[s] = object[s] \/ (object[s] # None /\ object'[s] = [object[s] EXCEPT ![stamp] = FALSE])
    BY <1>0, <1>3 DEF Edit, PathTypes
  <2>2. CASE object[s] # None /\ object'[s] = [object[s] EXCEPT ![stamp] = FALSE]
    <3>1. object[s] \in Objects
      BY <1>0, <2>2
    <3>2. CASE stamp = "current"
      BY <2>2, <3>1, <3>2, Distinct DEF Objects, Stays
    <3>3. CASE stamp = "headers"
      BY <2>2, <3>1, <3>3, Distinct DEF Objects, Stays
    <3> QED
      BY <3>2, <3>3
  <2> QED
    BY <1>1, <2>1, <2>2
<1>4. ASSUME NoPath PROVE object'[s] = None
  BY <1>4, EmptyPath
<1>5. ASSUME NEW S, RemoveObjects(S) PROVE object'[s] = None \/ Stays(s)
  BY <1>0, <1>1, <1>5, RemovedObjects
<1>6. ASSUME PrepareSketch \/ (Cut /\ CutCopy) PROVE object'[s] = None \/ Stays(s)
  BY <1>0, <1>1, <1>2, <1>6 DEF PrepareSketch, CutCopy, PathTypes
<1>7. ASSUME NEW t \in Sources, Compiled(t) PROVE object'[s] = None \/ Stays(s) \/ IsMade(s)
  BY <1>0, <1>1, <1>7 DEF Compiled, IsMade, PathTypes
<1>8. ASSUME Cut PROVE object'[s] = None \/ Stays(s) \/ IsMade(s)
  <2>1. CASE CutWipe
    BY <1>5, <2>1 DEF CutWipe
  <2>2. CASE CutRemoveLibraries
    BY <1>5, <2>2 DEF CutRemoveLibraries
  <2>3. CASE CutCompile
    BY <1>0, <1>1, <1>8, <2>3 DEF CutCompile, IsMade, PathTypes
  <2>4. CASE CutOptions \/ CutFindIncludes \/ CutAr \/ CutShare \/ CutElsewhere
    BY <1>1, <2>4 DEF CutOptions, CutFindIncludes, CutAr, CutShare, CutElsewhere
  <2> QED
    BY <1>6, <1>8, <2>1, <2>2, <2>3, <2>4 DEF Cut
<1>9. ASSUME RemoveLibraries \/ EndFolder PROVE object'[s] = None \/ Stays(s)
  <2>1. UNCHANGED objectVars \/ \E S : RemoveObjects(S)
    BY <1>9, FolderEnds DEF RemoveLibraries, EndFolderLeads, Ended
  <2> QED
    BY <1>1, <1>5, <2>1
<1>10. ASSUME WipeBuildPath \/ \E e \in Entries : RemoveExpired(e) PROVE object'[s] = None \/ Stays(s)
  BY <1>1, <1>4, <1>10 DEF WipeBuildPath, RemoveExpired
<1>11. ASSUME \/ UNCHANGED vars \/ EditPlatform \/ CreateBuildOptions \/ FindIncludes \/ BeginBuild \/ Feed \/ Take
              \/ LookUpCore \/ OpenArchive \/ ShareCore \/ Link \/ (\E t \in Sources : Ar(t)) \/ ToolFails
              \/ (\E e \in Entries : FindExpired(e)) \/ (\E m \in Modes, o \in Options : Start(m, o))
       PROVE  object'[s] = None \/ Stays(s)
  BY <1>1, <1>11 DEF vars, EditPlatform, CreateBuildOptions, FindIncludes, BeginBuild, Feed, Take, Work, LookUpCore,
     OpenArchive, ShareCore, Link, Ar, ToolFails, ArFailed, ShareFailed, ToolFailed, CompileFailed, FindExpired, Start
<1> QED
  BY <1>3, <1>6, <1>7, <1>8, <1>9, <1>10, <1>11 DEF Next, BuildStep, Around, EditSource, EditHeader

LEMMA ObjectGoes ==
    ASSUME BaseInv, [Next]_vars, NEW s \in Sources, object[s] # None, object'[s] = None
    PROVE  \/ WipeBuildPath \/ RemoveLibraries \/ Cut \/ RemoveExpired("path")
           \/ EndFolder /\ pool.folder = "sketch" /\ FolderOf[s] \in Libs \ request.uses /\ pool.error = None
<1> USE DEF sourceVars, objectVars, pathVars, historyVars, purgeVars
<1>0. PathTypes /\ AroundTypes /\ BuildTypes /\ object[s] \in Objects
  BY DEF BaseInv, Types, PathTypes
<1>1. ASSUME NEW t \in Sources, NEW stamp \in {"current", "headers"}, Edit(t, stamp)
      PROVE  FALSE
  <2>1. object'[s] = object[s] \/ object'[s] = [object[s] EXCEPT ![stamp] = FALSE]
    BY <1>0, <1>1 DEF Edit, PathTypes
  <2>2. [object[s] EXCEPT !["current"] = FALSE] \in Objects /\ [object[s] EXCEPT !["headers"] = FALSE] \in Objects
    BY <1>0 DEF Objects
  <2> QED
    BY <2>1, <2>2, Distinct
<1>2. ASSUME PrepareSketch PROVE FALSE
  <2>1. object'[s] = object[s] \/ object'[s] = OutOfDate(object[s])
    BY <1>0, <1>2 DEF PrepareSketch, PathTypes
  <2> QED
    BY <1>0, <2>1, ObjectOutOfDate
<1>3. ASSUME NEW t \in Sources, Compiled(t) PROVE FALSE
  <2>1. t \in DOMAIN pool.busy => pool.busy[t] \in Objects
    BY <1>0, BusyIs DEF BuildTypes, PoolType
  <2> QED
    BY <1>0, <1>3, <2>1, Distinct DEF Compiled, PathTypes
<1>4. ASSUME EndFolder
      PROVE  pool.folder = "sketch" /\ FolderOf[s] \in Libs \ request.uses /\ pool.error = None
  <2>1. EndFolderLeads
    BY <1>4, FolderEnds
  <2>2. ~UNCHANGED objectVars
    OBVIOUS
  <2>3. pool.error = None /\ pool.folder = "sketch" /\ RemoveObjects(SourcesOf(Libs \ request.uses))
    BY <2>1, <2>2 DEF EndFolderLeads, Ended
  <2>4. s \in SourcesOf(Libs \ request.uses)
    BY <1>0, <2>3, RemovedObjects
  <2> QED
    BY <2>3, <2>4, SourcesOfFolder
<1>5. ASSUME NEW e \in Entries, RemoveExpired(e) PROVE e = "path"
  BY <1>5 DEF RemoveExpired
<1>6. ~(\/ UNCHANGED vars \/ EditPlatform \/ CreateBuildOptions \/ FindIncludes \/ BeginBuild \/ Feed \/ Take
        \/ LookUpCore \/ OpenArchive \/ ShareCore \/ Link \/ (\E t \in Sources : Ar(t)) \/ ToolFails
        \/ (\E e \in Entries : FindExpired(e)) \/ (\E m \in Modes, o \in Options : Start(m, o)))
  BY DEF vars, EditPlatform, CreateBuildOptions, FindIncludes, BeginBuild, Feed, Take, Work, LookUpCore,
     OpenArchive, ShareCore, Link, Ar, ToolFails, ArFailed, ShareFailed, ToolFailed, CompileFailed, FindExpired, Start
<1> QED
  BY <1>1, <1>2, <1>3, <1>4, <1>5, <1>6 DEF Next, BuildStep, Around, EditSource, EditHeader

-----------------------------------------------------------------------------
\* A source is handled once this build is through with it; it has an object then, which is
\* what the build wants, if nothing is in disorder.
Making == InBuild /\ request.mode # "database" /\ pool.error = None

Handled(s) ==
    \/ FolderOf[s] = "sketch" /\ pool.folder # "sketch"
    \/ FolderOf[s] \in request.uses \ (pool.libs \cup {pool.folder})
    \/ FolderOf[s] = "variant" /\ pool.folder = "core"
    \/ FolderOf[s] = pool.folder /\ (pc # "compile" \/ s \notin pool.todo \cup {pool.offered} \cup DOMAIN pool.busy)

\* Before this step the source was not handled.
LEMMA NewlyHandled ==
    ASSUME BaseInv, [Next]_vars, NEW s \in Sources, Making', Handled(s)'
    PROVE  /\ UNCHANGED request
           /\ \/ Making /\ Handled(s) /\ ~(s \in DOMAIN pool.busy)
              \/ Take /\ s = pool.offered /\ Verdict(s) = "current" /\ UNCHANGED object
              \/ Compiled(s)
<1> USE DEF sourceVars, objectVars, pathVars, historyVars, purgeVars
<1>0. /\ PathTypes /\ AroundTypes /\ BuildTypes /\ PoolInv /\ pool \in PoolType
      /\ (pc # "idle" => request \in RequestType)
  BY DEF BaseInv, Types, BuildTypes
<1>1. InBuild' /\ pc' # "idle" /\ request'.mode # "database" /\ pool'.error = None
  BY DEF Making, InBuild
<1>2. ASSUME Making, Handled(s), UNCHANGED request
      PROVE  s \notin DOMAIN pool.busy
  <2>1. CASE pc # "compile"
    BY <1>0, <1>2, <2>1, EmptyFunction DEF PoolInv, Making, Settled
  <2>2. CASE pc = "compile"
    <3>1. Compiling
      BY <1>0, <2>2 DEF PoolInv
    <3>2. s \in DOMAIN pool.busy => FolderOf[s] = pool.folder
      BY <3>1, SourcesOfFolder DEF Compiling
    <3> QED
      BY <1>2, <2>2, <3>1, <3>2, FoldersOf DEF Handled, Compiling
  <2> QED
    BY <2>1, <2>2
<1>3. ASSUME UNCHANGED <<pc, request, pool>>
      PROVE  Making /\ Handled(s)
  BY <1>1, <1>3 DEF Making, Handled, InBuild
<1>4. ASSUME NEW folder \in Folders, NEW libs, libs \subseteq request.uses, Enter(folder, libs), UNCHANGED request, pc # "idle"
      PROVE  \/ FolderOf[s] = "sketch" /\ folder # "sketch"
             \/ FolderOf[s] \in request.uses \ (libs \cup {folder})
             \/ FolderOf[s] = "variant" /\ folder = "core"
  <2>1. libs \in SUBSET Libs
    BY <1>0, <1>4 DEF RequestType
  <2>2. pc' = "compile" /\ pool'.folder = folder /\ pool'.todo = SourcesOf({folder}) /\ pool'.libs = libs
    BY <1>4, <2>1, EnteredPool
  <2>3. s \in SourcesOf({folder}) <=> FolderOf[s] = folder
    BY SourcesOfFolder
  <2> QED
    BY <1>4, <2>2, <2>3 DEF Handled
<1>5. ASSUME BeginBuild
      PROVE  FALSE
  <2>1. Enter("sketch", request.uses) /\ UNCHANGED request /\ pc # "idle"
    BY <1>1, <1>5 DEF BeginBuild, End
  <2>2. "sketch" \in Folders
    BY DEF Folders
  <2> QED
    BY <1>4, <2>1, <2>2
<1>6. ASSUME Feed
      PROVE  Making /\ Handled(s) /\ UNCHANGED request
  <2>1. /\ pool'.folder = pool.folder /\ pool'.busy = pool.busy /\ pool'.error = pool.error /\ pool'.libs = pool.libs
        /\ pool'.offered \in pool.todo /\ pool'.todo = pool.todo \ {pool'.offered}
    BY <1>0, <1>1, <1>6, FedPool
  <2>2. pc = "compile" /\ UNCHANGED <<pc, request>> /\ pool.offered = None
    BY <1>6 DEF Feed
  <2>3. s # None
    BY Distinct
  <2> QED
    BY <1>1, <2>1, <2>2, <2>3 DEF Making, InBuild, Handled
<1>7. ASSUME Take
      PROVE  /\ UNCHANGED request
             /\ \/ Making /\ Handled(s)
                \/ s = pool.offered /\ Verdict(s) = "current" /\ UNCHANGED object
  <2>1. UNCHANGED <<pc, request, object>> /\ pc # "idle"
    BY <1>0, <1>1, <1>7 DEF Take, Work
  <2>2. pool.offered \in Sources /\ IsTaken(pool', pool.offered, Verdict(pool.offered))
    BY <1>7, <2>1, TakenPool DEF BaseInv
  <2>3. /\ pool'.folder = pool.folder /\ pool'.todo = pool.todo /\ pool'.libs = pool.libs
        /\ pool.error = None /\ Verdict(pool.offered) \notin {"gone", "badDep"}
        /\ pool'.busy = IF Verdict(pool.offered) = "stale" THEN With(pool.offered) ELSE pool.busy
    BY <1>1, <2>1, <2>2, Distinct DEF IsTaken, Outcomes
  <2>4. Verdict(pool.offered) \in {"stale", "current"}
    BY <1>0, <2>2, <2>3, VerdictIs
  <2>5. CASE s = pool.offered /\ Verdict(s) = "current"
    BY <2>1, <2>5
  <2>6. CASE ~(s = pool.offered /\ Verdict(s) = "current")
    <3>1. DOMAIN With(pool.offered) = DOMAIN pool.busy \cup {pool.offered}
      BY DEF With
    <3>2. s \in pool'.todo \cup {pool'.offered} \cup DOMAIN pool'.busy \/ s \notin pool.todo \cup {pool.offered} \cup DOMAIN pool.busy
      BY <2>3, <2>4, <2>6, <3>1
    <3>3. Handled(s)
      BY <2>1, <2>3, <3>2 DEF Handled
    <3> QED
      BY <1>1, <2>1, <2>3, <3>3 DEF Making, InBuild
  <2> QED
    BY <2>1, <2>5, <2>6
<1>8. ASSUME NEW t \in Sources, Compiled(t)
      PROVE  UNCHANGED request /\ ((Making /\ Handled(s)) \/ Compiled(s))
  <2>1. UNCHANGED <<pc, request>> /\ t \in DOMAIN pool.busy
    BY <1>8 DEF Compiled
  <2>2. /\ pool'.busy = NotBusy(t) /\ pool'.error = pool.error
        /\ pool'.folder = pool.folder /\ pool'.todo = pool.todo /\ pool'.libs = pool.libs /\ pool'.offered = pool.offered
    BY <1>0, <1>8, CompiledPool DEF Compiled
  <2>3. DOMAIN NotBusy(t) = DOMAIN pool.busy \ {t}
    BY <1>0, WithOneLess DEF PoolType
  <2>4. CASE s # t
    BY <1>1, <2>1, <2>2, <2>3, <2>4 DEF Making, InBuild, Handled
  <2> QED
    BY <1>8, <2>1, <2>4
<1>9. ASSUME NEW t \in Sources, CompileFailed(t)
      PROVE  FALSE
  <2>1. pool'.error # None
    <3>1. pool'.error = IF pool.error = None THEN "tool" ELSE pool.error
      BY <1>0, <1>9, FailedPool DEF CompileFailed
    <3> QED
      BY <3>1, Distinct DEF Outcomes
  <2> QED
    BY <1>1, <2>1
<1>10. ASSUME EndFolder
       PROVE  UNCHANGED request /\ Making /\ Handled(s)
  <2>1. pc = "compile" /\ AllDone /\ UNCHANGED request
    BY <1>10 DEF EndFolder
  <2>2. Compiling
    BY <1>0, <2>1 DEF PoolInv
  <2>3. EndFolderLeads /\ pool.error = None
    BY <1>1, <1>10, FolderEnds DEF EndFolderLeads, Ended, End
  <2>4. Making
    BY <1>1, <2>1, <2>3 DEF Making, InBuild
  <2>5. ASSUME \/ FolderOf[s] = pool.folder
               \/ FolderOf[s] = "sketch" /\ pool.folder # "sketch"
               \/ FolderOf[s] \in request.uses \ (pool.libs \cup {pool.folder})
               \/ FolderOf[s] = "variant" /\ pool.folder = "core"
        PROVE  Handled(s)
    BY <2>1, <2>5, EmptyFunction, Distinct DEF AllDone, Handled
  <2>6. CASE UNCHANGED pool
    <3>1. \/ FolderOf[s] = pool.folder
          \/ FolderOf[s] = "sketch" /\ pool.folder # "sketch"
          \/ FolderOf[s] \in request.uses \ (pool.libs \cup {pool.folder})
          \/ FolderOf[s] = "variant" /\ pool.folder = "core"
      BY <2>1, <2>6 DEF Handled
    <3> QED
      BY <2>1, <2>4, <2>5, <3>1
  <2>7. CASE pool.folder \notin {"core", "variant"} /\ pool.libs = {} /\ Enter("variant", {})
    <3>1. "variant" \in Folders
      BY DEF Folders
    <3>2. FolderOf[s] = "sketch" \/ FolderOf[s] \in request.uses
      BY <1>4, <2>1, <2>7, <3>1
    <3> QED
      BY <2>1, <2>4, <2>5, <2>7, <3>2
  <2>8. ASSUME NEW l \in pool.libs, Enter(l, pool.libs \ {l})
        PROVE  Handled(s)
    <3>1. l \in Folders /\ pool.libs \ {l} \subseteq request.uses /\ l \notin {"sketch", "variant", "core"}
      BY <1>0, <2>2, FoldersOf DEF PoolType, Compiling
    <3>2. \/ FolderOf[s] = "sketch"
          \/ FolderOf[s] \in request.uses \ pool.libs
      BY <1>4, <2>1, <2>8, <3>1
    <3> QED
      BY <2>5, <3>2
  <2> QED
    BY <2>1, <2>3, <2>4, <2>6, <2>7, <2>8 DEF EndFolderLeads
<1>11. ASSUME LookUpCore
       PROVE  UNCHANGED request /\ Making /\ Handled(s)
  <2>1. pc = "lookup" /\ UNCHANGED request /\ Settled /\ pool.folder = "variant"
    BY <1>0, <1>11 DEF LookUpCore, PoolInv, InBuild
  <2>2. Making
    BY <1>1, <2>1 DEF Making, InBuild, Settled
  <2>3. CASE pc' = "link" /\ pool' = [pool EXCEPT !.core = "cache"]
    <3>1. pool'.folder = pool.folder /\ pool'.libs = pool.libs
      BY <1>0, <2>3 DEF PoolType
    <3> QED
      BY <2>1, <2>2, <3>1 DEF Handled
  <2>4. CASE Enter("core", {})
    <3>1. "core" \in Folders
      BY DEF Folders
    <3>2. FolderOf[s] \in {"sketch", "variant"} \/ FolderOf[s] \in request.uses
      BY <1>4, <2>1, <2>4, <3>1
    <3> QED
      BY <2>1, <2>2, <3>2 DEF Handled, Settled
  <2> QED
    BY <1>11, <2>3, <2>4 DEF LookUpCore
<1>12. ASSUME OpenArchive \/ ShareCore \/ ShareFailed \/ \E t \in Sources : Ar(t)
       PROVE  UNCHANGED request /\ Making /\ Handled(s)
  <2>1. pc \in {"archive", "ar", "share"} /\ UNCHANGED request /\ Settled
    BY <1>0, <1>12 DEF OpenArchive, ShareCore, ShareFailed, Ar, PoolInv, InBuild
  <2>2. pc' # "compile" /\ pool'.folder = pool.folder /\ pool'.libs = pool.libs
    BY <1>0, <1>1, <1>12 DEF OpenArchive, ShareCore, ShareFailed, Ar, End, PoolType
  <2> QED
    BY <1>1, <2>1, <2>2 DEF Making, InBuild, Handled, Settled
<1>13. ~(Link \/ ArFailed \/ ToolFailed \/ Cut)
  BY <1>1 DEF Link, ArFailed, ToolFailed, Cut, End
<1>14. ~(WipeBuildPath \/ CreateBuildOptions \/ PrepareSketch \/ FindIncludes \/ RemoveLibraries
          \/ \E m \in Modes, o \in Options : Start(m, o))
  BY <1>1 DEF WipeBuildPath, CreateBuildOptions, PrepareSketch, FindIncludes, RemoveLibraries, Start, End, InBuild
<1>15. ASSUME \/ UNCHANGED vars \/ EditPlatform
              \/ \E t \in Sources : EditSource(t) \/ EditHeader(t)
              \/ \E e \in Entries : FindExpired(e) \/ RemoveExpired(e)
       PROVE  UNCHANGED request /\ Making /\ Handled(s)
  <2>1. UNCHANGED <<pc, request, pool>>
    BY <1>15 DEF vars, EditPlatform, EditSource, EditHeader, Edit, FindExpired, RemoveExpired
  <2> QED
    BY <1>3, <2>1
<1> QED
  BY <1>2, <1>5, <1>6, <1>7, <1>8, <1>9, <1>10, <1>11, <1>12, <1>13, <1>14, <1>15
  DEF Next, BuildStep, ToolFails, Around

-----------------------------------------------------------------------------
\* What the steps do to the request, the marks of doubt and the dependency files.
LEMMA RequestSteps ==
    ASSUME BaseInv, [Next]_vars
    PROVE  \/ pc = "idle" /\ \E m \in Modes, o \in Options : Start(m, o)
           \/ /\ request'.mode = request.mode /\ request'.opt = request.opt
              /\ request'.content = request.content /\ request'.platform = request.platform
              /\ UNCHANGED request \/ PrepareSketch \/ (FindIncludes /\ request.mode = "database" /\ lastUses = Damaged)
              /\ pc = "idle" => pc' = "idle" /\ UNCHANGED <<request, pool, linked, outcome>>
<1>0. BuildTypes
  BY DEF BaseInv, Types
<1>1. CASE PrepareSketch
  BY <1>0, <1>1 DEF PrepareSketch, BuildTypes, RequestType
<1>2. CASE FindIncludes
  BY <1>0, <1>2 DEF FindIncludes, BuildTypes, RequestType
<1>3. CASE ~PrepareSketch /\ ~FindIncludes /\ ~\E m \in Modes, o \in Options : Start(m, o)
  <2>1. UNCHANGED request
    BY <1>3 DEF Next, BuildStep, ToolFails, Around, vars, WipeBuildPath, CreateBuildOptions,
         RemoveLibraries, BeginBuild, Feed, Take, Work, EndFolder, LookUpCore, OpenArchive, ShareCore, Link, Compiled, Ar,
         ArFailed, ShareFailed, ToolFailed, CompileFailed, EditPlatform, Cut, EditSource, EditHeader, Edit, FindExpired,
         RemoveExpired
  <2>2. pc = "idle" => UNCHANGED <<pc, pool, linked, outcome>>
    <3>1. pc = "idle" => /\ pool.offered = None /\ pool.busy = <<>>
      BY PoolOfIdle DEF BaseInv, PoolInv, InBuild
    <3>2. \A s \in Sources : pc = "idle" => s \notin DOMAIN pool.busy
      BY <3>1, EmptyFunction
    <3> QED
      BY <1>3, <3>1, <3>2 DEF Next, BuildStep, ToolFails, Around, vars, WipeBuildPath, CreateBuildOptions,
         RemoveLibraries, BeginBuild, Feed, Take, EndFolder, LookUpCore, OpenArchive, ShareCore, Link, Compiled, Ar,
         ArFailed, ShareFailed, ToolFailed, CompileFailed, EditPlatform, Cut, EditSource, EditHeader, Edit, FindExpired,
         RemoveExpired
  <2> QED
    BY <2>1, <2>2
<1>4. (\E m \in Modes, o \in Options : Start(m, o)) => pc = "idle"
  BY DEF Start
<1> QED
  BY <1>1, <1>2, <1>3, <1>4

LEMMA DoubtStays ==
    ASSUME BaseInv, [Next]_vars, "path" \in doubtful, "path" \notin doubtful'
    PROVE  NoPath /\ pc \in {"idle", "options", "stamp"} /\ (pc' = pc \/ pc' = "stamp")
           /\ (WipeBuildPath \/ RemoveExpired("path"))
<1> USE DEF historyVars
<1>1. ASSUME NEW e \in Entries, RemoveExpired(e) PROVE e = "path" /\ NoPath /\ pc \in {"idle", "options", "stamp"} /\ pc' = pc
  BY <1>1 DEF RemoveExpired
<1>2. ASSUME WipeBuildPath PROVE NoPath /\ pc = "options" /\ pc' = "stamp"
  BY <1>2 DEF WipeBuildPath
<1>3. ASSUME ShareCore PROVE FALSE
  <2>1. Key # "path"
    BY <1>3, KeyOfTheBuild DEF ShareCore, BaseInv, Types
  <2> QED
    BY <1>3, <2>1 DEF ShareCore
<1>4. \/ WipeBuildPath \/ ShareCore \/ \E e \in Entries : RemoveExpired(e)
  BY DEF Next, BuildStep, ToolFails, Around, vars, CreateBuildOptions, PrepareSketch, FindIncludes,
         RemoveLibraries, BeginBuild, Feed, Take, Work, EndFolder, LookUpCore, OpenArchive, Link, Compiled, Ar,
         ArFailed, ShareFailed, ToolFailed, CompileFailed, EditPlatform, Cut, EditSource, EditHeader, Edit, FindExpired, Start,
         CutWipe, CutOptions, CutCopy, CutFindIncludes, CutRemoveLibraries, CutCompile, CutAr, CutShare, CutElsewhere
<1> QED
  BY <1>1, <1>2, <1>3, <1>4

LEMMA PurgedStays ==
    ASSUME BaseInv, [Next]_vars, purged
    PROVE  purged' \/ \E m \in Modes, o \in Options : Start(m, o)
BY DEF BaseInv, Types, AroundTypes, CacheTypes, purgeVars, Next, BuildStep, ToolFails, Around, vars, WipeBuildPath,
       CreateBuildOptions, PrepareSketch, FindIncludes, RemoveLibraries, BeginBuild, Feed, Take, Work, EndFolder,
       LookUpCore, OpenArchive, ShareCore, Link, Compiled, Ar, ArFailed, ShareFailed, ToolFailed, CompileFailed,
       EditPlatform, Cut, EditSource, EditHeader, Edit, FindExpired, RemoveExpired

LEMMA DepSteps ==
    ASSUME BaseInv, [Next]_vars, NEW s \in Sources
    PROVE  dep'[s] \in {"none", "full"} \/ dep'[s] = dep[s] \/ Cut
<1> USE DEF objectVars, pathVars
<1>0. PathTypes
  BY DEF BaseInv, Types
<1>1. ASSUME NEW S, RemoveObjects(S) PROVE dep'[s] \in {"none", dep[s]}
  BY <1>0, <1>1, RemovedObjects
<1>2. ASSUME EndFolder PROVE dep'[s] \in {"none", dep[s]}
  <2>1. UNCHANGED objectVars \/ RemoveObjects(SourcesOf(Libs \ request.uses))
    BY <1>2, FolderEnds DEF EndFolderLeads, Ended
  <2> QED
    BY <1>1, <2>1
<1>3. ASSUME NEW t \in Sources, Compiled(t) PROVE dep'[s] \in {"full", dep[s]}
  BY <1>0, <1>3 DEF Compiled, PathTypes
<1>4. ASSUME NoPath PROVE dep'[s] = "none"
  BY <1>4, EmptyPath
<1>5. CASE WipeBuildPath \/ RemoveLibraries \/ \E e \in Entries : RemoveExpired(e)
  BY <1>1, <1>4, <1>5 DEF WipeBuildPath, RemoveLibraries, RemoveExpired
<1>6. CASE \/ UNCHANGED vars \/ EditPlatform \/ (\E t \in Sources : EditSource(t) \/ EditHeader(t) \/ Ar(t))
           \/ CreateBuildOptions \/ PrepareSketch \/ FindIncludes \/ BeginBuild \/ Feed \/ Take
           \/ LookUpCore \/ OpenArchive \/ ShareCore \/ Link \/ ToolFails
           \/ (\E e \in Entries : FindExpired(e)) \/ (\E m \in Modes, o \in Options : Start(m, o))
  BY <1>6 DEF vars, EditPlatform, EditSource, EditHeader, Edit, Ar, CreateBuildOptions, PrepareSketch, FindIncludes,
     BeginBuild, Feed, Take, Work, LookUpCore, OpenArchive, ShareCore, Link, ToolFails, ArFailed, ShareFailed, ToolFailed,
     CompileFailed, FindExpired, Start
<1> QED
  BY <1>2, <1>3, <1>5, <1>6 DEF Next, BuildStep, Around

-----------------------------------------------------------------------------
\* Why a build fails.  What a kill, or a copy of the core that failed, has cut is seen by builds
\* that did not wipe it; an object, a copy or an archive that a build has made is there unless
\* another process has removed it.
AfterOptions == pc \notin {"idle", "options"}

Excused == left.cuts < world.cuts /\ (AfterOptions => request.mode # "clean")

Botched == left.cuts < world.cuts \/ left.fails < world.fails

Reason(e) ==
    /\ e = "gone" => purged
    /\ e \in {"badDep", "badCache", "badCore"} =>
           /\ left.cuts < world.cuts \/ (e = "badCore" /\ left.fails < world.fails)
           /\ request.mode # "clean"
    /\ e = "tool" => left.fails < world.fails

CutInv ==
    /\ \A s \in Sources : dep[s] \in {"bad", "cut"} => Excused
    /\ lastUses = Damaged => Excused
    /\ \A k \in Keys : cache[k] # None /\ cache[k].parts = Damaged => Botched
    /\ Reason(pool.error) /\ Reason(outcome)

Undisturbed == ~purged \/ "path" \notin doubtful
Copied == InBuild \/ pc \in {"detect", "prune", "preprocessed"}
FromPath == pc = "share" \/ (pc = "link" /\ pool.core = "path")
FromCache == pc = "link" /\ pool.core = "cache"

Present ==
    /\ Undisturbed /\ Copied => copy # None
    /\ Undisturbed /\ Making => \A s \in Sources : Handled(s) => object[s] # None
    /\ Undisturbed /\ Making /\ FromPath => archive # None
    /\ ~purged /\ FromCache => cache[Key] # None

LEMMA Disturbs ==
    ASSUME BaseInv, [Next]_vars, Undisturbed', Copied'
    PROVE  Undisturbed /\ ~RemoveExpired("path") /\ ~Starts
<1>0. pc' \notin {"idle", "options", "stamp"}
  BY DEF Copied, InBuild
<1>1. ~Starts
  BY <1>0 DEF Starts, Start
<1>2. ~RemoveExpired("path")
  <2>1. ASSUME RemoveExpired("path") PROVE purged' /\ "path" \in doubtful'
    BY <1>0, <2>1 DEF RemoveExpired
  <2> QED
    BY <2>1 DEF Undisturbed
<1>3. ~WipeBuildPath
  BY <1>0 DEF WipeBuildPath
<1>4. Undisturbed
  BY <1>1, <1>2, <1>3, PurgedStays, DoubtStays DEF Undisturbed, Starts
<1> QED
  BY <1>1, <1>2, <1>4

LEMMA PresentStep ==
    ASSUME BaseInv, Present, [Next]_vars
    PROVE  Present'
<1> USE DEF objectVars, pathVars, From
<1>0. PathTypes /\ AroundTypes /\ BuildTypes /\ PoolInv
  BY DEF BaseInv, Types
<1>1. ASSUME Undisturbed', Copied'
      PROVE  copy' # None
  <2>1. Undisturbed /\ ~RemoveExpired("path")
    BY <1>1, Disturbs
  <2>2. CASE PrepareSketch
    BY <1>0, <2>2, Distinct DEF PrepareSketch, AroundTypes
  <2>3. CASE Outside
    BY <1>1, <2>1, <2>3, Moves DEF Outside, vars, EditPlatform, Edit, FindExpired, RemoveExpired, Present, Copied, InBuild
  <2>4. CASE ~PrepareSketch /\ ~Outside
    <3>1. Copied /\ UNCHANGED copy
      BY <1>1, <2>4, Moves DEF Copied, InBuild, Working, FindIncludes, RemoveLibraries, BeginBuild, Feed, Take, Work,
         Compiled, CompileFailed, EndFolder, LookUpCore, OpenArchive, Ar, ShareCore, ShareFailed
    <3> QED
      BY <2>1, <3>1 DEF Present
  <2> QED
    BY <2>2, <2>3, <2>4
<1>2. ASSUME Undisturbed', Making', NEW s \in Sources, Handled(s)'
      PROVE  object'[s] # None
  <2>1. Undisturbed /\ ~RemoveExpired("path")
    BY <1>2, Disturbs DEF Making, Copied
  <2>2. CASE Making /\ Handled(s)
    <3>1. object[s] # None
      BY <2>1, <2>2 DEF Present
    <3>2. ASSUME object'[s] = None PROVE FALSE
      <4>1. ~WipeBuildPath /\ ~RemoveLibraries /\ ~Cut
        BY <1>2 DEF WipeBuildPath, RemoveLibraries, Cut, End, Making, InBuild
      <4>2. EndFolder /\ pool.folder = "sketch" /\ FolderOf[s] \in Libs \ request.uses
        BY <2>1, <3>1, <3>2, <4>1, ObjectGoes
      <4> QED
        BY <2>2, <4>2, FoldersOf DEF Handled
    <3> QED
      BY <3>2
  <2>3. CASE Take /\ s = pool.offered /\ Verdict(s) = "current" /\ UNCHANGED object
    BY <1>0, <2>3, VerdictIs
  <2>4. CASE Compiled(s)
    <3>1. s \in DOMAIN pool.busy /\ pool.busy[s] \in Objects
      BY <1>0, <2>4, BusyIs DEF Compiled, BuildTypes, PoolType
    <3> QED
      BY <1>0, <2>4, <3>1, Distinct DEF Compiled, PathTypes
  <2> QED
    BY <1>2, <2>2, <2>3, <2>4, NewlyHandled
<1>3. ASSUME Undisturbed', Making', FromPath'
      PROVE  archive' # None
  <2>1. Undisturbed /\ ~RemoveExpired("path")
    BY <1>3, Disturbs DEF Making, Copied
  <2>2. pc' \in {"share", "link"} /\ request'.mode # "database"
    BY <1>3 DEF FromPath, Making
  <2>3. CASE Outside
    BY <1>3, <2>1, <2>2, <2>3, Moves DEF Outside, vars, EditPlatform, Edit, FindExpired, RemoveExpired, Present,
       Making, InBuild, FromPath
  <2>4. CASE OpenArchive
    BY <2>2, <2>4 DEF OpenArchive, ArchiveIsCurrent
  <2>5. ASSUME NEW s \in Sources, Ar(s) PROVE archive' # None
    <3>1. s \in Core /\ pc = "ar"
      BY <1>0, <2>5 DEF Ar, PoolInv
    <3>2. object[s] # None /\ archive' = [parts |-> More(s), current |-> TRUE]
      BY <2>2, <2>5 DEF Ar, More, End
    <3>3. [parts |-> More(s), current |-> TRUE] \in WholeArchives
      BY <1>0, <3>1, <3>2, MoreParts
    <3> QED
      BY <3>2, <3>3, ArchivesAre
  <2>6. CASE ShareCore \/ ShareFailed
    <3>1. pc = "share" /\ UNCHANGED <<archive, request>>
      BY <2>6 DEF ShareCore, ShareFailed
    <3>2. Making
      BY <1>0, <2>2, <3>1 DEF PoolInv, Settled, InBuild, Making
    <3> QED
      BY <2>1, <3>1, <3>2 DEF Present, FromPath
  <2>7. CASE LookUpCore
    <3>1. pc' = "link" /\ pool' = [pool EXCEPT !.core = "cache"]
      BY <2>2, <2>7 DEF LookUpCore, Enter
    <3>2. pool'.core = "cache"
      BY <1>0, <3>1 DEF BuildTypes, PoolType
    <3> QED
      BY <1>3, <3>1, <3>2 DEF FromPath
  <2> QED
    BY <2>2, <2>3, <2>4, <2>5, <2>6, <2>7, Moves
<1>4. ASSUME ~purged', FromCache'
      PROVE  cache'[Key'] # None
  <2>1. pc' = "link" /\ ~purged
    BY <1>4, PurgedStays, Moves DEF FromCache, Starts, Start
  <2>2. CASE LookUpCore
    <3>1. cache[Key] # None /\ UNCHANGED <<cache, request>>
      BY <2>1, <2>2 DEF LookUpCore, Enter
    <3> QED
      BY <3>1 DEF Key
  <2>3. CASE ShareCore \/ ShareFailed
    <3>1. pool'.core = "path"
      BY <1>0, <2>3 DEF ShareCore, ShareFailed, BuildTypes, PoolType
    <3> QED
      BY <1>4, <3>1 DEF FromCache
  <2>4. CASE Outside
    <3>1. UNCHANGED <<pc, request, pool>>
      BY <2>1, <2>4 DEF Outside, vars, EditPlatform, Edit, FindExpired, RemoveExpired
    <3>2. cache[Key] # None /\ Key \in Keys /\ Key' = Key
      BY <1>0, <1>4, <2>1, <3>1, KeyOfTheBuild DEF Present, FromCache, Key
    <3>3. ~\E e \in Entries : RemoveExpired(e)
      BY <1>4, <2>1, <3>1 DEF RemoveExpired
    <3>4. UNCHANGED cache \/ CacheOutOfDate
      BY <2>4, <3>3 DEF Outside, vars, EditPlatform, Edit, FindExpired
    <3> QED
      BY <1>0, <3>2, <3>4, OlderCache
  <2> QED
    BY <2>1, <2>2, <2>3, <2>4, Moves
<1> QED
  BY <1>1, <1>2, <1>3, <1>4 DEF Present

-----------------------------------------------------------------------------
\* Whatever was a reason stays one until the next build.
LEMMA ReasonStays ==
    ASSUME BaseInv, [Next]_vars, ~Starts, NEW e, Reason(e)
    PROVE  Reason(e)'
<1>1. left'.cuts <= left.cuts /\ left'.fails <= left.fails /\ world' = world
  BY LessLeft DEF BaseInv, Types
<1>2. request'.mode = request.mode
  BY RequestSteps DEF Starts
<1>3. purged => purged'
  BY PurgedStays DEF Starts
<1>4. /\ left.cuts \in Nat /\ left.fails \in Nat /\ left'.cuts \in Nat /\ left'.fails \in Nat
      /\ world.cuts \in Nat /\ world.fails \in Nat
  BY LessLeft DEF BaseInv, Types, AroundTypes, LeftType
<1> QED
  BY <1>1, <1>2, <1>3, <1>4 DEF Reason

LEMMA ExcuseStays ==
    ASSUME BaseInv, [Next]_vars, Excused
    PROVE  Excused' \/ (WipeBuildPath /\ NoPath)
<1>1. left.cuts \in Nat /\ left'.cuts \in Nat /\ world.cuts \in Nat /\ left'.cuts <= left.cuts /\ world' = world
  BY LessLeft DEF BaseInv, Types, AroundTypes, LeftType
<1>2. left'.cuts < world'.cuts
  BY <1>1 DEF Excused
<1>3. CASE AfterOptions' /\ ~AfterOptions
  <2>1. WipeBuildPath /\ pc = "options"
    BY <1>3, Moves DEF AfterOptions, From
  <2> QED
    BY <1>2, <2>1 DEF WipeBuildPath, OptionsChanged, Excused
<1>4. CASE AfterOptions' /\ AfterOptions
  <2>1. request'.mode = request.mode
    BY <1>4, RequestSteps DEF AfterOptions
  <2> QED
    BY <1>2, <1>4, <2>1 DEF Excused
<1> QED
  BY <1>2, <1>3, <1>4 DEF Excused

LEMMA CutExcuses ==
    ASSUME BaseInv, [Next]_vars, Cut
    PROVE  Excused'
<1>1. left.cuts \in Nat /\ left'.cuts \in Nat /\ world.cuts \in Nat /\ left'.cuts < left.cuts /\ world' = world
      /\ left.cuts <= world.cuts
  BY LessLeft DEF BaseInv, Types, AroundTypes, LeftType
<1>2. pc' = "idle"
  BY DEF Cut, End
<1> QED
  BY <1>1, <1>2 DEF Excused, AfterOptions

LEMMA LastUsesSteps ==
    ASSUME BaseInv, [Next]_vars
    PROVE  \/ UNCHANGED lastUses \/ lastUses' = None \/ Cut
           \/ FindIncludes /\ lastUses' = request.uses /\ lastUses # Damaged
BY DEF pathVars, Next, BuildStep, ToolFails, Around, vars, WipeBuildPath, NoPath,
       CreateBuildOptions, PrepareSketch, FindIncludes, RemoveLibraries, BeginBuild, Feed, Take, Work, EndFolder,
       LookUpCore, OpenArchive, ShareCore, Link, Compiled, Ar, ArFailed, ShareFailed, ToolFailed, CompileFailed,
       EditPlatform, EditSource, EditHeader, Edit, FindExpired, RemoveExpired, Start

LEMMA CacheSteps ==
    ASSUME BaseInv, [Next]_vars
    PROVE  \/ UNCHANGED cache
           \/ CacheOutOfDate /\ (EditPlatform \/ \E s \in Core, stamp \in {"current", "headers"} : Edit(s, stamp))
           \/ \E e \in Keys : RemoveExpired(e) /\ cache' = [cache EXCEPT ![e] = None]
           \/ /\ ShareCore /\ archive # None /\ request.mode # "database"
              /\ cache' = [cache EXCEPT ![Key] = [parts |-> archive.parts, current |-> TRUE]]
           \/ (Cut \/ ShareFailed) /\ request.mode # "database" /\ CutCacheFile
<1>1. ASSUME NEW e \in Entries, RemoveExpired(e)
      PROVE  UNCHANGED cache \/ (e \in Keys /\ cache' = [cache EXCEPT ![e] = None])
  BY <1>1 DEF RemoveExpired, Entries
<1>2. ASSUME NEW s \in Sources, NEW stamp \in {"current", "headers"}, Edit(s, stamp)
      PROVE  UNCHANGED cache \/ (s \in Core /\ CacheOutOfDate)
  BY <1>2 DEF Edit
<1>3. ASSUME Cut
      PROVE  UNCHANGED cache \/ (request.mode # "database" /\ CutCacheFile)
  BY <1>3 DEF Cut, CutWipe, CutOptions, CutCopy, CutFindIncludes, CutRemoveLibraries, CutCompile, CutAr, CutShare,
              CutElsewhere
<1>4. ASSUME ShareCore
      PROVE  \/ UNCHANGED cache
             \/ /\ archive # None /\ request.mode # "database"
                /\ cache' = [cache EXCEPT ![Key] = [parts |-> archive.parts, current |-> TRUE]]
  BY <1>4 DEF ShareCore
<1>5. CASE \/ UNCHANGED vars \/ WipeBuildPath \/ CreateBuildOptions \/ PrepareSketch \/ FindIncludes \/ RemoveLibraries
           \/ BeginBuild \/ Feed \/ Take \/ EndFolder \/ LookUpCore \/ OpenArchive \/ Link \/ ArFailed \/ ToolFailed
           \/ (\E s \in Sources : Compiled(s) \/ CompileFailed(s) \/ Ar(s)) \/ (\E e \in Entries : FindExpired(e)) \/ Starts
  BY <1>5 DEF vars, WipeBuildPath, CreateBuildOptions, PrepareSketch, FindIncludes, RemoveLibraries, BeginBuild, Feed,
       Take, Work, EndFolder, LookUpCore, OpenArchive, Link, Compiled, Ar, ArFailed, ToolFailed,
       CompileFailed, FindExpired, Starts, Start
<1>6. CASE ShareFailed
  BY <1>6 DEF ShareFailed
<1> QED
  BY <1>1, <1>2, <1>3, <1>4, <1>5, <1>6 DEF Next, BuildStep, ToolFails, Around, EditSource, EditHeader, EditPlatform, Starts

\* The error of the pool and the result of the build, where they come from.
LEMMA ErrorSteps ==
    ASSUME BaseInv, Present, CutInv, [Next]_vars
    PROVE  Reason(pool.error)'
<1>0. PathTypes /\ AroundTypes /\ BuildTypes /\ PoolInv /\ pool \in PoolType
  BY DEF BaseInv, Types, BuildTypes
<1>1. Reason(None)'
  BY Distinct DEF Reason, Outcomes
<1>2. CASE pc' # "compile" \/ pool'.error = None
  <2>1. pool'.error = None
    <3>1. PoolInv'
      BY BaseStep DEF BaseInv
    <3> QED
      BY <1>2, <3>1, PoolOfIdle DEF PoolInv, Settled
  <2> QED
    BY <1>1, <2>1
<1>3. CASE pc' = "compile" /\ pool'.error = pool.error
  <2>1. ~Starts
    BY <1>3 DEF Starts, Start
  <2> QED
    BY <1>3, <2>1, ReasonStays DEF CutInv
<1>4. CASE Take
  <2> DEFINE s == pool.offered
  <2>1. s \in Sources /\ IsTaken(pool', s, Verdict(s)) /\ pc = "compile" /\ UNCHANGED request
    <3>1. pc = "compile"
      BY <1>0, <1>4, PoolOfIdle DEF Take, PoolInv, InBuild, Settled
    <3>2. UNCHANGED request
      BY <1>4 DEF Take, Work
    <3> QED
      BY <1>4, <3>1, <3>2, TakenPool DEF BaseInv
  <2>2. pool'.error = pool.error \/ (Verdict(s) \in {"gone", "badDep"} /\ pool'.error = Verdict(s))
    BY <2>1 DEF IsTaken
  <2>3. CASE Verdict(s) = "gone"
    <3>1. copy = None
      BY <1>0, <2>1, <2>3, VerdictIs
    <3>2. purged
      BY <2>1, <3>1 DEF Present, Undisturbed, Copied, InBuild
    <3>3. purged'
      BY <1>4, <3>2 DEF Take, Work, purgeVars
    <3> QED
      BY <1>3, <1>4, <2>1, <2>2, <2>3, <3>3 DEF Reason, Take, Work
  <2>4. CASE Verdict(s) = "badDep"
    <3>1. Excused
      BY <1>0, <2>1, <2>4, VerdictIs DEF CutInv
    <3>2. UNCHANGED <<left, world, request, pc>>
      BY <1>4 DEF Take, Work
    <3>3. Reason("badDep")'
      BY <2>1, <3>1, <3>2 DEF Reason, Excused, AfterOptions
    <3> QED
      BY <1>3, <2>1, <2>2, <2>4, <3>2, <3>3
  <2>5. CASE Verdict(s) \notin {"gone", "badDep"}
    BY <1>3, <1>4, <2>1, <2>2, <2>5 DEF Take, Work
  <2> QED
    BY <2>3, <2>4, <2>5
<1>5. ASSUME NEW s \in Sources, CompileFailed(s)
      PROVE  Reason(pool.error)'
  <2>1. pool' = [pool EXCEPT !.busy = NotBusy(s), !.error = Erred("tool")] /\ UNCHANGED pc
    BY <1>5 DEF CompileFailed
  <2>2. pool'.error = pool.error \/ pool'.error = "tool"
    BY <1>0, <2>1, FailedPool
  <2>3. left'.fails < left.fails /\ left.fails <= world.fails /\ world' = world
        /\ left.fails \in Nat /\ left'.fails \in Nat /\ world.fails \in Nat
    BY <1>0, <1>5, LessLeft DEF AroundTypes, LeftType
  <2>4. Reason("tool")'
    BY <2>3 DEF Reason
  <2> QED
    BY <1>2, <1>3, <2>1, <2>2, <2>4
<1>6. ASSUME pc' = "compile", ~Take, \A s \in Sources : ~CompileFailed(s)
      PROVE  pool'.error = pool.error \/ pool'.error = None
  <2>1. CASE Outside /\ UNCHANGED pool
    BY <2>1
  <2>2. CASE Feed
    BY <1>0, <2>2, FedPool
  <2>3. ASSUME NEW s \in Sources, Compiled(s)
        PROVE  pool'.error = pool.error
    BY <1>0, <2>3, CompiledPool DEF Compiled
  <2>4. \A folder, libs : Enter(folder, libs) => pool'.error = None
    BY DEF Enter, IdlePool
  <2>5. CASE BeginBuild \/ LookUpCore
    BY <1>6, <2>4, <2>5 DEF BeginBuild, LookUpCore, End
  <2>6. CASE EndFolder
    BY <1>6, <2>4, <2>6, FolderEnds DEF EndFolderLeads, Ended, End
  <2> QED
    BY <1>6, <2>1, <2>2, <2>3, <2>5, <2>6, Moves DEF From, Working
<1> QED
  BY <1>2, <1>3, <1>4, <1>5, <1>6

LEMMA OutcomeSteps ==
    ASSUME BaseInv, Present, CutInv, [Next]_vars
    PROVE  Reason(outcome)'
<1>0. PathTypes /\ AroundTypes /\ BuildTypes /\ PoolInv /\ pool \in PoolType
  BY DEF BaseInv, Types, BuildTypes
<1>1. Reason(None)' /\ Reason("ok")' /\ Reason("cut")'
  BY Distinct DEF Reason, Outcomes
<1>2. CASE Starts
  BY <1>1, <1>2 DEF Starts, Start
<1>3. ASSUME ~Starts, outcome' = outcome \/ outcome' = pool.error
      PROVE  Reason(outcome)'
  BY <1>3, ReasonStays DEF CutInv
<1>4. CASE FindIncludes /\ ~UNCHANGED outcome
  <2>1. pc = "detect" /\ lastUses = Damaged /\ request.mode # "database" /\ outcome' = "badCache" /\ UNCHANGED <<request, left, world>>
    BY <1>4 DEF FindIncludes, End
  <2>2. Excused /\ AfterOptions
    BY <2>1 DEF CutInv, AfterOptions
  <2> QED
    BY <2>1, <2>2 DEF Reason, Excused
<1>5. CASE BeginBuild /\ ~UNCHANGED outcome
  BY <1>1, <1>5 DEF BeginBuild, End
<1>6. CASE EndFolder
  <2>1. outcome' = outcome \/ outcome' = pool.error
    BY <1>6, FolderEnds DEF EndFolderLeads, Ended, End
  <2>2. ~Starts
    BY <1>6 DEF EndFolder, Starts, Start
  <2> QED
    BY <1>3, <2>1, <2>2
<1>7. ASSUME NEW s \in Sources, Ar(s), ~UNCHANGED outcome
      PROVE  Reason(outcome)'
  <2>1. pc = "ar" /\ s \in pool.todo /\ object[s] = None /\ outcome' = "gone" /\ UNCHANGED purged
    BY <1>7 DEF Ar, End, purgeVars
  <2>2. s \in Core /\ pool.folder = "core" /\ request.mode # "database" /\ Settled
    BY <1>0, <2>1 DEF PoolInv, InBuild
  <2>3. Making /\ Handled(s)
    BY <2>1, <2>2 DEF Making, Handled, InBuild, Settled, Core
  <2>4. purged
    BY <2>1, <2>3 DEF Present, Undisturbed
  <2> QED
    BY <2>1, <2>4 DEF Reason
<1>8. CASE Link
  <2>1. pc = "link" /\ UNCHANGED <<request, left, world, purged>>
    BY <1>8 DEF Link, purgeVars
  <2>2. Settled /\ pool.folder \in {"core", "variant"}
    BY <1>0, <2>1 DEF PoolInv, InBuild
  <2>3. CASE outcome' = "ok"
    BY <1>1, <2>3
  <2>4. CASE /\ outcome' = "gone" /\ request.mode # "database"
             /\ CoreFile = None \/ \E s \in Linkable : object[s] = None
    <3>1. Making
      BY <2>1, <2>2, <2>4 DEF Making, InBuild, Settled
    <3>2. ASSUME NEW s \in Linkable PROVE s \in Sources /\ Handled(s)
      <4>1. s \in Sources /\ FolderOf[s] \in {"sketch", "variant"} \cup request.uses
        BY <3>2, SourcesOfFolder DEF Linkable
      <4>2. request.uses \subseteq Libs
        BY <1>0, <2>1 DEF BuildTypes, RequestType
      <4> QED
        BY <2>1, <2>2, <4>1, <4>2, FoldersOf DEF Handled, Settled
    <3>3. CASE \E s \in Linkable : object[s] = None
      <4>1. PICK s \in Linkable : object[s] = None
        BY <3>3
      <4>2. purged
        BY <3>1, <3>2, <4>1 DEF Present, Undisturbed
      <4> QED
        BY <2>1, <2>4, <4>2 DEF Reason
    <3>4. CASE CoreFile = None
      <4>1. purged
        BY <1>0, <2>1, <3>1, <3>4, Distinct DEF Present, Undisturbed, CoreFile, FromPath, FromCache, PoolInv
      <4> QED
        BY <2>1, <2>4, <4>1 DEF Reason
    <3> QED
      BY <2>4, <3>3, <3>4
  <2>5. CASE outcome' = "badCore" /\ CoreFile # None /\ CoreFile.parts = Damaged
    <3>1. pool.core = "cache" /\ request.mode = "build"
      <4>1. CASE pool.core = "path"
        <5>1. archive # None => archive.parts # Damaged
          BY <1>0, ArchivesAre DEF PathTypes
        <5> QED
          BY <2>5, <4>1, <5>1 DEF CoreFile
      <4> QED
        BY <1>0, <2>1, <4>1 DEF PoolInv
    <3>2. Key \in Keys
      BY <1>0, <2>1, KeyOfTheBuild
    <3>3. Botched
      BY <2>5, <3>1, <3>2 DEF CutInv, CoreFile
    <3> QED
      BY <2>1, <2>5, <3>1, <3>3 DEF Reason, Botched
  <2> QED
    BY <1>8, <2>3, <2>4, <2>5 DEF Link, End
<1>9. CASE ArFailed \/ ToolFailed
  <2>1. left'.fails < left.fails /\ left.fails <= world.fails /\ world' = world
        /\ left.fails \in Nat /\ left'.fails \in Nat /\ world.fails \in Nat
    BY <1>0, <1>9, LessLeft DEF AroundTypes, LeftType
  <2>2. outcome' = "tool"
    BY <1>9 DEF ArFailed, ToolFailed, End
  <2> QED
    BY <2>1, <2>2 DEF Reason
<1>10. CASE Cut
  BY <1>1, <1>10 DEF Cut, End
<1>11. ASSUME \/ Outside /\ UNCHANGED outcome
              \/ Working \/ WipeBuildPath \/ CreateBuildOptions \/ PrepareSketch \/ RemoveLibraries
              \/ LookUpCore \/ OpenArchive \/ ShareCore \/ ShareFailed,
              ~Starts
       PROVE  Reason(outcome)'
  <2>1. outcome' = outcome
    BY <1>11 DEF Working, Feed, Take, Work, Compiled, CompileFailed, WipeBuildPath, CreateBuildOptions, PrepareSketch,
         RemoveLibraries, LookUpCore, OpenArchive, ShareCore, ShareFailed
  <2> QED
    BY <1>3, <1>11, <2>1
<1>12. CASE UNCHANGED outcome /\ ~Starts
  BY <1>3, <1>12
<1> QED
  BY <1>2, <1>4, <1>5, <1>6, <1>7, <1>8, <1>9, <1>10, <1>11, <1>12, Moves

LEMMA CutStep ==
    ASSUME BaseInv, Present, CutInv, [Next]_vars
    PROVE  CutInv'
<1>0. PathTypes /\ AroundTypes /\ BuildTypes
  BY DEF BaseInv, Types
<1>1. ASSUME NEW s \in Sources, dep'[s] \in {"bad", "cut"}
      PROVE  Excused'
  <2>1. CASE Cut
    BY <2>1, CutExcuses
  <2>2. CASE ~Cut
    <3>1. dep'[s] = dep[s]
      BY <1>1, <2>2, DepSteps
    <3>2. ~NoPath
      BY <1>1, EmptyPath
    <3> QED
      BY <1>1, <3>1, <3>2, ExcuseStays DEF CutInv
  <2> QED
    BY <2>1, <2>2
<1>2. ASSUME lastUses' = Damaged
      PROVE  Excused'
  <2>1. CASE Cut
    BY <2>1, CutExcuses
  <2>2. CASE ~Cut
    <3>1. FindIncludes => lastUses' # Damaged \/ lastUses = Damaged
      <4>1. FindIncludes => request.uses \in SUBSET Libs
        BY <1>0 DEF FindIncludes, BuildTypes, RequestType
      <4> QED
        BY <4>1, Distinct DEF FindIncludes
    <3>2. lastUses = Damaged
      BY <1>2, <2>2, <3>1, LastUsesSteps, Distinct
    <3>3. ~NoPath
      BY <1>2, EmptyPath, Distinct
    <3> QED
      BY <3>2, <3>3, ExcuseStays DEF CutInv
  <2> QED
    BY <2>1, <2>2
<1>3. ASSUME NEW k \in Keys, cache'[k] # None, cache'[k].parts = Damaged
      PROVE  Botched'
  <2>0. /\ left.cuts \in Nat /\ left'.cuts \in Nat /\ world.cuts \in Nat /\ left'.cuts <= left.cuts /\ world' = world
        /\ left.fails \in Nat /\ left'.fails \in Nat /\ world.fails \in Nat /\ left'.fails <= left.fails
        /\ left.fails <= world.fails
        /\ cache \in [Keys -> Archives \cup {None}]
    BY <1>0, LessLeft DEF AroundTypes, LeftType, CacheTypes
  <2>1. CASE cache[k] # None /\ cache[k].parts = Damaged
    BY <2>0, <2>1 DEF CutInv, Botched
  <2>2. CASE UNCHANGED cache
    BY <1>3, <2>1, <2>2
  <2>3. CASE CacheOutOfDate
    BY <1>0, <1>3, <2>1, <2>3, OlderCache
  <2>4. ASSUME NEW e \in Keys, cache' = [cache EXCEPT ![e] = None]
        PROVE  cache[k] # None /\ cache[k].parts = Damaged
    BY <1>3, <2>0, <2>4
  <2>5. ASSUME archive # None, cache' = [cache EXCEPT ![Key] = [parts |-> archive.parts, current |-> TRUE]]
        PROVE  cache[k] # None /\ cache[k].parts = Damaged
    <3>1. archive.parts # Damaged
      BY <1>0, <2>5, ArchivesAre DEF PathTypes
    <3> QED
      BY <1>3, <2>0, <2>5, <3>1
  <2>6. CASE Cut
    BY <2>6, CutExcuses DEF Excused, Botched
  <2>7. CASE ShareFailed
    <3>1. left'.fails < left.fails
      BY <1>0, <2>7, LessLeft DEF AroundTypes
    <3> QED
      BY <2>0, <3>1 DEF Botched
  <2> QED
    BY <2>1, <2>2, <2>3, <2>4, <2>5, <2>6, <2>7, CacheSteps
<1> QED
  BY <1>1, <1>2, <1>3, ErrorSteps, OutcomeSteps DEF CutInv

ReasonInv == BaseInv /\ Present /\ CutInv

LEMMA ReasonInit ==
    ASSUME Init
    PROVE  ReasonInv
<1>1. BaseInv
  BY BaseInit
<1>2. Present
  BY DEF Init, Present, Copied, Making, InBuild, FromCache
<1>3. CutInv
  <2>1. Reason(None)
    BY Distinct DEF Reason, Outcomes
  <2>2. pool.error = None /\ outcome = None
    BY PoolOfIdle DEF Init
  <2> QED
    BY <2>1, <2>2, Distinct DEF Init, CutInv
<1> QED
  BY <1>1, <1>2, <1>3 DEF ReasonInv

LEMMA ReasonStep ==
    ASSUME ReasonInv, [Next]_vars
    PROVE  ReasonInv'
BY BaseStep, PresentStep, CutStep DEF ReasonInv

LEMMA ReasonAlways == Spec => []ReasonInv
<1>1. Init => ReasonInv
  BY ReasonInit
<1>2. ReasonInv /\ [Next]_vars => ReasonInv'
  BY ReasonStep
<1> QED
  BY <1>1, <1>2, PTL DEF Spec

\* A build that says that something is gone lost it to another process; one that meets a file
\* that was cut does so after a kill or, if it is a core, after an earlier copy of a core that
\* failed halfway, and was not asked to be clean; one that says that a tool failed had one fail.
THEOREM BuildFailsForAReason == Spec => []FailsForAReason
<1>1. ReasonInv => FailsForAReason
  BY DEF ReasonInv, CutInv, Reason, FailsForAReason
<1> QED
  BY <1>1, ReasonAlways, PTL

-----------------------------------------------------------------------------
\* The versions only grow, and what a build works on is no older than what it found.
LEMMA ContentSteps ==
    ASSUME BaseInv, [Next]_vars
    PROVE  /\ platform' >= platform /\ (platform' # platform => EditPlatform)
           /\ \A s \in Sources : /\ content'[s] >= content[s]
                                 /\ content'[s] # content[s] => \E stamp \in {"current", "headers"} : Edit(s, stamp)
<1>0. AroundTypes
  BY DEF BaseInv, Types
<1>1. CASE UNCHANGED <<content, platform>>
  BY <1>0, <1>1 DEF AroundTypes
<1>2. CASE EditPlatform
  BY <1>0, <1>2 DEF EditPlatform, AroundTypes, sourceVars
<1>3. ASSUME NEW t \in Sources, NEW stamp \in {"current", "headers"}, Edit(t, stamp)
      PROVE  /\ platform' = platform
             /\ \A s \in Sources : /\ content'[s] >= content[s]
                                   /\ content'[s] # content[s] => s = t
  BY <1>0, <1>3 DEF Edit, AroundTypes
<1> QED
  BY <1>0, <1>1, <1>2, <1>3, OnlyEdits DEF AroundTypes

VersionsInv ==
    pc # "idle" => /\ platform >= request.platform
                   /\ \A s \in Sources : content[s] >= request.content[s]
                   /\ ~touched => platform = request.platform /\ \A s \in Core : content[s] = request.content[s]

LEMMA VersionsStep ==
    ASSUME BaseInv, VersionsInv, [Next]_vars
    PROVE  VersionsInv'
<1>0. /\ AroundTypes /\ BuildTypes /\ AroundTypes' /\ BuildTypes'
      /\ Core \subseteq Sources
  BY BaseStep DEF BaseInv, Types, Core
<1>1. CASE Starts
  BY <1>0, <1>1 DEF Starts, Start, VersionsInv, AroundTypes, sourceVars
<1>2. CASE ~Starts /\ pc' # "idle"
  <2>1. pc # "idle" /\ request'.platform = request.platform /\ request'.content = request.content
    BY <1>2, RequestSteps DEF Starts
  <2>2. request \in RequestType
    BY <1>0, <2>1 DEF BuildTypes
  <2>3. platform' >= request.platform /\ \A s \in Sources : content'[s] >= request.content[s]
    BY <1>0, <2>1, <2>2, ContentSteps DEF VersionsInv, AroundTypes, RequestType
  <2>4. ASSUME ~touched'
        PROVE  platform' = platform /\ ~touched /\ \A s \in Core : content'[s] = content[s]
    <3>1. ~EditPlatform
      BY <2>4 DEF EditPlatform
    <3>2. ASSUME NEW s \in Core, NEW stamp, Edit(s, stamp) PROVE FALSE
      BY <2>4, <3>2 DEF Edit
    <3>3. ~touched
      BY <1>0, <1>2, <2>4 DEF AroundTypes, CacheTypes, historyVars, Next, BuildStep, ToolFails, Around, vars, WipeBuildPath,
       CreateBuildOptions, PrepareSketch, FindIncludes, RemoveLibraries, BeginBuild, Feed, Take, Work, EndFolder,
       LookUpCore, OpenArchive, ShareCore, Link, Compiled, Ar, ArFailed, ShareFailed, ToolFailed, CompileFailed,
       EditPlatform, Cut, EditSource, EditHeader, Edit, FindExpired, RemoveExpired, Starts
    <3> QED
      BY <1>0, <3>1, <3>2, <3>3, ContentSteps
  <2> QED
    BY <2>1, <2>3, <2>4 DEF VersionsInv
<1> QED
  BY <1>1, <1>2 DEF VersionsInv

-----------------------------------------------------------------------------
\* The compilers at work: each was there before, or was started in this step.
LEMMA BusySteps ==
    ASSUME BaseInv, [Next]_vars, NEW s \in DOMAIN pool'.busy
    PROVE  /\ s \in Sources /\ pc = "compile" /\ pc' = "compile" /\ UNCHANGED request
           /\ \/ s \in DOMAIN pool.busy /\ pool'.busy[s] = pool.busy[s] /\ ~Cut /\ ~Starts
              \/ Take /\ s = pool.offered /\ Verdict(s) = "stale" /\ pool'.busy[s] = Made(s)
<1>0. BuildTypes /\ PoolInv /\ pool \in PoolType /\ BuildTypes' /\ PoolInv' /\ Types
  BY BaseStep DEF BaseInv, Types, BuildTypes
<1>1. s \in Sources
  BY <1>0, BusyIs DEF BuildTypes, PoolType
<1>2. pool'.busy # <<>>
  BY EmptyFunction
<1>3. pc' = "compile"
  BY <1>0, <1>2, PoolOfIdle DEF PoolInv, Settled
<1>4. \A folder, libs : Enter(folder, libs) => pool'.busy = <<>>
  BY DEF Enter, IdlePool
<1>5. ~BeginBuild /\ ~LookUpCore
  BY <1>2, <1>3, <1>4 DEF BeginBuild, LookUpCore, End
<1>6. ~EndFolder
  BY <1>2, <1>3, <1>4, FolderEnds DEF EndFolderLeads, Ended, End
<1>7. ~Cut /\ ~Starts
  BY <1>3 DEF Cut, End, Starts, Start
<1>8. (Outside /\ UNCHANGED <<pc, request, pool>>) \/ (Working /\ pc = "compile" /\ UNCHANGED request)
  BY <1>3, <1>5, <1>6, <1>7, Moves DEF From
<1>9. CASE Outside /\ UNCHANGED <<pc, request, pool>>
  BY <1>1, <1>3, <1>7, <1>9
<1>10. CASE Working /\ pc = "compile" /\ UNCHANGED request
  <2>1. CASE Feed
    BY <1>0, <1>1, <1>3, <1>7, <1>10, <2>1, FedPool
  <2>2. ASSUME NEW t \in Sources, Compiled(t) \/ CompileFailed(t)
        PROVE  s \in DOMAIN pool.busy /\ pool'.busy[s] = pool.busy[s]
    <3>1. pool'.busy = NotBusy(t)
      BY <1>0, <2>2, CompiledPool, FailedPool DEF Compiled, CompileFailed
    <3>2. pool.busy \in Busy
      BY <1>0 DEF PoolType
    <3> QED
      BY <3>1, <3>2, WithOneLess
  <2>3. CASE Take
    <3>1. pool.offered \in Sources /\ IsTaken(pool', pool.offered, Verdict(pool.offered))
      BY <1>0, <1>10, <2>3, TakenPool
    <3>2. CASE Verdict(pool.offered) = "stale" /\ pool'.busy = With(pool.offered)
      <4>1. pool.busy \in Busy
        BY <1>0 DEF PoolType
      <4>2. Made(pool.offered) \in Objects
        BY <1>0, <1>10, <3>1, <3>2, VerdictIs, MadeObject DEF Types
      <4>3. /\ DOMAIN With(pool.offered) = DOMAIN pool.busy \cup {pool.offered}
            /\ With(pool.offered)[pool.offered] = Made(pool.offered)
            /\ \A t \in DOMAIN pool.busy : t # pool.offered => With(pool.offered)[t] = pool.busy[t]
        BY <3>1, <4>1, <4>2, WithOneMore
      <4> QED
        BY <1>1, <1>3, <1>7, <1>10, <2>3, <3>2, <4>3
    <3>3. CASE pool'.busy = pool.busy
      BY <1>1, <1>3, <1>7, <1>10, <3>3
    <3> QED
      BY <3>1, <3>2, <3>3 DEF IsTaken
  <2> QED
    BY <1>1, <1>3, <1>7, <1>10, <2>1, <2>2, <2>3 DEF Working
<1> QED
  BY <1>8, <1>9, <1>10

\* What the build wants of an object.
Fits(s, p) ==
    /\ p.ver >= request.content[s] /\ p.plat >= request.platform /\ p.opt = request.opt
    /\ FolderOf[s] \in Libs => p.uses = request.uses

\* The copy of the sketch and its object.
MainInv ==
    /\ object[Main] # None /\ object[Main].current /\ copy # None => object[Main].ver = copy
    /\ Copied /\ copy # None => copy >= request.content[Main]
    /\ Main \in DOMAIN pool.busy /\ copy # None => pool.busy[Main].ver = copy
    /\ \A s \in DOMAIN pool.busy : Fits(s, pool.busy[s]) /\ pool.busy[s].plat = request.platform
    /\ Making /\ Handled(Main) /\ object[Main] # None => object[Main].ver >= request.content[Main]

LEMMA CopySteps ==
    ASSUME BaseInv, [Next]_vars
    PROVE  \/ UNCHANGED copy \/ copy' = None
           \/ /\ PrepareSketch /\ copy' = content[Main] /\ copy # content[Main] /\ ~(object'[Main] # None /\ object'[Main].current)
<1>0. PathTypes
  BY DEF BaseInv, Types
<1>1. ASSUME PrepareSketch, copy # content[Main]
      PROVE  ~(object'[Main] # None /\ object'[Main].current)
  <2>1. object'[Main] = OutOfDate(object[Main]) /\ object[Main] \in Objects \cup {None}
    BY <1>0, <1>1 DEF PrepareSketch, PathTypes
  <2> QED
    BY <2>1, ObjectOutOfDate
<1>2. CASE PrepareSketch
  BY <1>1, <1>2 DEF PrepareSketch
<1>3. CASE ~PrepareSketch
  BY <1>3 DEF pathVars, Next, BuildStep, ToolFails, Around, vars, WipeBuildPath, NoPath,
       CreateBuildOptions, FindIncludes, RemoveLibraries, BeginBuild, Feed, Take, Work, EndFolder,
       LookUpCore, OpenArchive, ShareCore, Link, Compiled, Ar, ArFailed, ShareFailed, ToolFailed, CompileFailed,
       EditPlatform, EditSource, EditHeader, Edit, FindExpired, RemoveExpired, Start,
       Cut, CutWipe, CutOptions, CutCopy, CutFindIncludes, CutRemoveLibraries, CutCompile, CutAr, CutShare, CutElsewhere
<1> QED
  BY <1>2, <1>3

LEMMA MainStep ==
    ASSUME BaseInv, VersionsInv, MainInv, [Next]_vars
    PROVE  MainInv'
<1>0. PathTypes /\ AroundTypes /\ BuildTypes /\ PoolInv /\ Main \in Sources /\ Types
  BY DEF BaseInv, Types
<1>1. ASSUME object'[Main] # None, object'[Main].current, copy' # None
      PROVE  object'[Main].ver = copy'
  <2>1. UNCHANGED copy
    BY <1>1, CopySteps
  <2>2. CASE Stays(Main)
    BY <1>1, <2>1, <2>2 DEF Stays, MainInv
  <2>3. CASE IsMade(Main)
    BY <1>1, <2>1, <2>3 DEF IsMade, MainInv
  <2> QED
    BY <1>0, <1>1, <2>2, <2>3, ObjectSteps
<1>2. ASSUME Copied', copy' # None
      PROVE  copy' >= request'.content[Main]
  <2>1. CASE PrepareSketch
    <3>1. copy' = content[Main] /\ request'.content = request.content /\ pc # "idle"
      BY <1>0, <2>1 DEF PrepareSketch, BuildTypes, RequestType
    <3> QED
      BY <1>0, <3>1 DEF VersionsInv
  <2>2. CASE ~PrepareSketch
    <3>1. Copied
      BY <1>2, <2>2, Moves DEF Copied, InBuild, From
    <3>2. UNCHANGED copy
      BY <1>2, <2>2, CopySteps
    <3>3. request'.content = request.content
      BY <3>1, RequestSteps DEF Copied, InBuild
    <3> QED
      BY <1>2, <3>1, <3>2, <3>3 DEF MainInv
  <2> QED
    BY <2>1, <2>2
<1>3. ASSUME NEW s \in DOMAIN pool'.busy
      PROVE  Fits(s, pool.busy[s])' /\ pool'.busy[s].plat = request'.platform /\ (s = Main /\ copy' # None => pool'.busy[s].ver = copy')
  <2>1. s \in Sources /\ pc = "compile" /\ UNCHANGED request
    BY BusySteps
  <2>2. UNCHANGED copy \/ copy' = None
    BY <2>1, CopySteps DEF PrepareSketch
  <2>3. CASE s \in DOMAIN pool.busy /\ pool'.busy[s] = pool.busy[s]
    BY <2>1, <2>2, <2>3 DEF MainInv, Fits
  <2>4. CASE Take /\ s = pool.offered /\ Verdict(s) = "stale" /\ pool'.busy[s] = Made(s)
    <3>1. s = Main => copy # None
      BY <1>0, <2>1, <2>4, VerdictIs
    <3>2. /\ Made(s).ver = (IF s = Main THEN copy ELSE content[s]) /\ Made(s).opt = request.opt
          /\ Made(s).plat = request.platform
          /\ FolderOf[s] \in Libs => Made(s).uses = request.uses
      BY <1>0, <2>1, <3>1, MadeObject
    <3>3. Made(s).ver >= request.content[s]
      BY <2>1, <3>1, <3>2 DEF MainInv, Copied, InBuild, VersionsInv
    <3>4. request \in RequestType
      BY <1>0, <2>1 DEF BuildTypes
    <3>5. Made(s).plat >= request.platform
      BY <3>2, <3>4 DEF RequestType
    <3>6. copy' # None /\ s = Main => Made(s).ver = copy'
      BY <2>2, <3>2
    <3> QED
      BY <2>1, <2>4, <3>2, <3>3, <3>5, <3>6 DEF Fits
  <2> QED
    BY <2>3, <2>4, BusySteps
<1>4. ASSUME Making', Handled(Main)', object'[Main] # None
      PROVE  object'[Main].ver >= request'.content[Main]
  <2>1. UNCHANGED request
    BY <1>0, <1>4, NewlyHandled
  <2>2. CASE Making /\ Handled(Main) /\ ~(Main \in DOMAIN pool.busy)
    <3>1. Stays(Main)
      BY <1>0, <1>4, <2>2, ObjectSteps DEF IsMade
    <3> QED
      BY <2>1, <2>2, <3>1 DEF Stays, MainInv
  <2>3. CASE Take /\ Main = pool.offered /\ Verdict(Main) = "current" /\ UNCHANGED object
    <3>1. copy # None /\ object[Main] # None /\ object[Main].current
      BY <1>0, <2>3, VerdictIs
    <3>2. pc = "compile"
      BY <1>0, <2>3, <3>1, PoolOfIdle, Distinct DEF Take, PoolInv, InBuild, Settled
    <3> QED
      BY <2>1, <2>3, <3>1, <3>2 DEF MainInv, Copied, InBuild
  <2>4. CASE Compiled(Main)
    <3>1. object'[Main] = pool.busy[Main] /\ Main \in DOMAIN pool.busy
      BY <1>0, <2>4 DEF Compiled, PathTypes
    <3> QED
      BY <2>1, <3>1 DEF MainInv, Fits
  <2> QED
    BY <1>0, <1>4, <2>2, <2>3, <2>4, NewlyHandled
<1> QED
  BY <1>1, <1>2, <1>3, <1>4 DEF MainInv

-----------------------------------------------------------------------------
\* The build path, while it is not doubtful.
Trusted == "path" \notin doubtful
Detected == InBuild \/ pc \in {"prune", "preprocessed"}

ObjectOK(s) ==
    object[s] # None =>
        /\ dep[s] # "cut"
        /\ s # Main /\ object[s].current /\ object[s].headers => object[s].ver = content[s]
        /\ options.opt # Damaged => object[s].opt = options.opt
        /\ options.opt # Damaged /\ options.current => object[s].plat >= platform
        /\ AfterOptions => object[s].opt = request.opt /\ object[s].plat >= request.platform
        /\ pc # "prune" /\ lastUses \notin {None, Damaged} /\ FolderOf[s] \in Libs => object[s].uses = lastUses

OptionsOK ==
    /\ options.opt = None => \A s \in Sources : object[s] = None
    /\ AfterOptions /\ pc # "stamp" => options.opt = request.opt /\ (options.current => platform = request.platform)

UsesOK == Detected /\ request.mode # "database" => lastUses = request.uses

BusyOK == \A s \in DOMAIN pool.busy : s # Main => pool.busy[s].ver = content[s]

HandledOK == Making => \A s \in Sources : Handled(s) => Fits(s, object[s])

PathInv == Trusted => OptionsOK /\ UsesOK /\ BusyOK /\ HandledOK /\ \A s \in Sources : ObjectOK(s)

Wiped == NoPath /\ pc' \in {"idle", "options", "stamp"}

LEMMA WipedPath ==
    ASSUME BaseInv, Wiped, [Next]_vars
    PROVE  PathInv'
<1>1. /\ options'.opt = None /\ lastUses' = None /\ \A s \in Sources : object'[s] = None
  BY EmptyPath DEF Wiped
<1>2. pool' = IdlePool /\ ~InBuild'
  BY BaseStep DEF BaseInv, PoolInv, InBuild, Wiped
<1>3. OptionsOK'
  BY <1>1 DEF OptionsOK, AfterOptions, Wiped
<1>4. UsesOK'
  BY <1>2 DEF UsesOK, Detected, Wiped
<1>5. BusyOK'
  BY <1>2, PoolOfIdle, EmptyFunction DEF BusyOK
<1>6. HandledOK'
  BY <1>2 DEF HandledOK, Making
<1>7. \A s \in Sources : ObjectOK(s)'
  BY <1>1 DEF ObjectOK
<1> QED
  BY <1>3, <1>4, <1>5, <1>6, <1>7 DEF PathInv

LEMMA WipesAre ==
    ASSUME BaseInv, [Next]_vars, Trusted'
    PROVE  /\ ~Trusted => Wiped
           /\ RemoveExpired("path") => Wiped
           /\ WipeBuildPath => Wiped \/ (UNCHANGED pathVars /\ ~OptionsChanged)
<1>1. ~Trusted => Wiped
  BY DoubtStays DEF Trusted, Wiped
<1>2. RemoveExpired("path") => Wiped
  BY DEF RemoveExpired, Wiped, Trusted
<1>3. WipeBuildPath => Wiped \/ (UNCHANGED pathVars /\ ~OptionsChanged)
  BY DEF WipeBuildPath, Wiped
<1> QED
  BY <1>1, <1>2, <1>3

LEMMA OptionsSteps ==
    ASSUME BaseInv, [Next]_vars, Trusted', ~Wiped
    PROVE  \/ UNCHANGED options
           \/ EditPlatform /\ options'.opt = options.opt /\ ~options'.current
           \/ CreateBuildOptions /\ options'.opt = request.opt /\ options'.current /\ platform = request.platform
           \/ Cut /\ options'.opt = None /\ \A s \in Sources : object'[s] = None
           \/ Cut /\ options'.opt = Damaged
<1>0. PathTypes /\ BuildTypes
  BY DEF BaseInv, Types
<1>1. ASSUME EditPlatform
      PROVE  options'.opt = options.opt /\ ~options'.current
  BY <1>0, <1>1, OptionsOutOfDate DEF EditPlatform, PathTypes
<1>2. ASSUME CreateBuildOptions
      PROVE  options'.opt = request.opt /\ options'.current /\ platform = request.platform
  BY <1>2 DEF CreateBuildOptions, Trusted
<1>3. ASSUME Cut, ~UNCHANGED options
      PROVE  \/ options'.opt = None /\ \A s \in Sources : object'[s] = None
             \/ options'.opt = Damaged
  <2>1. CASE CutWipe
    <3>1. options' = NoOptions /\ options'.opt = None
      BY <1>3, <2>1, EmptyOptions DEF CutWipe
    <3>2. object' = [s \in Sources |-> None]
      BY <2>1, <3>1 DEF CutWipe, Trusted
    <3> QED
      BY <3>1, <3>2
  <2>2. CASE CutOptions
    BY <2>2 DEF CutOptions, Trusted
  <2>3. CASE ~CutWipe /\ ~CutOptions
    BY <1>3, <2>3 DEF Cut, CutCopy, CutFindIncludes, CutRemoveLibraries, CutCompile, CutAr, CutShare, CutElsewhere, pathVars
  <2> QED
    BY <2>1, <2>2, <2>3
<1>4. ASSUME WipeBuildPath \/ \E e \in Entries : RemoveExpired(e)
      PROVE  UNCHANGED options
  <2>1. RemoveExpired("path") => FALSE
    BY WipesAre
  <2>2. WipeBuildPath => UNCHANGED pathVars
    BY WipesAre
  <2> QED
    BY <1>4, <2>1, <2>2 DEF RemoveExpired, pathVars
<1>5. CASE \/ UNCHANGED vars \/ PrepareSketch \/ FindIncludes \/ RemoveLibraries
           \/ BeginBuild \/ Feed \/ Take \/ EndFolder \/ LookUpCore \/ OpenArchive \/ ShareCore \/ Link \/ ToolFails
           \/ (\E s \in Sources : EditSource(s) \/ EditHeader(s) \/ Compiled(s) \/ Ar(s)) 
           \/ (\E e \in Entries : FindExpired(e)) \/ Starts
  BY <1>5 DEF pathVars, vars, PrepareSketch, FindIncludes, RemoveLibraries, BeginBuild, Feed, EditSource, EditHeader, Edit,
       Take, Work, EndFolder, LookUpCore, OpenArchive, ShareCore, Link, Compiled, Ar, ToolFails, ArFailed, ShareFailed,
       ToolFailed, CompileFailed, FindExpired, Starts, Start
<1> QED
  BY <1>1, <1>2, <1>3, <1>4, <1>5 DEF Next, BuildStep, Around, Starts

LEMMA CutLibraries ==
    ASSUME BaseInv, [Next]_vars, Trusted', Cut, pc = "prune", NEW s \in Sources, FolderOf[s] \in Libs
    PROVE  object'[s] = None
<1>1. pool.busy = <<>>
  BY PoolOfIdle DEF BaseInv, PoolInv, InBuild
<1>2. CutRemoveLibraries
  BY <1>1 DEF Cut, CutWipe, CutOptions, CutCopy, CutFindIncludes, CutCompile, CutAr, CutShare, CutElsewhere
<1>3. s \in SourcesOf(Libs)
  BY SourcesOfFolder
<1> QED
  BY <1>2, <1>3 DEF CutRemoveLibraries, Trusted

\* A dependency file that was cut stays with no object that a build would take, or is doubtful.
LEMMA CutDeps ==
    ASSUME BaseInv, [Next]_vars, Trusted', NEW s \in Sources, dep'[s] = "cut", object'[s] # None
    PROVE  dep[s] = "cut" /\ Stays(s)
<1>0. PathTypes
  BY DEF BaseInv, Types
<1>1. Stays(s)
  BY ObjectSteps DEF IsMade
<1>2. CASE Cut
  <2>1. CASE CutCompile
    <3>1. PICK fate \in [DOMAIN pool.busy -> {"done", "cut", "bad"}] :
            /\ object' = [t \in Sources |-> IF t \in DOMAIN fate /\ fate[t] = "done"
                                            THEN pool.busy[t] ELSE object[t]]
            /\ dep' = [t \in Sources |-> IF t \notin DOMAIN fate THEN dep[t]
                                         ELSE IF fate[t] = "done" THEN "full" ELSE fate[t]]
            /\ doubtful' = IF \E t \in DOMAIN fate : fate[t] = "cut" /\ object[t] # None
                           THEN doubtful \cup {"path"} ELSE doubtful
      BY <2>1 DEF CutCompile
    <3> QED
      BY <1>1, <3>1 DEF Trusted
  <2>2. ASSUME NEW S, RemoveObjects(S) PROVE dep'[s] \in {"none", dep[s]}
    BY <1>0, <2>2, RemovedObjects
  <2>3. CASE ~CutCompile
    BY <1>1, <1>2, <2>2, <2>3 DEF Cut, CutWipe, CutOptions, CutCopy, CutFindIncludes, CutRemoveLibraries, CutAr, CutShare,
       CutElsewhere, objectVars, pathVars
  <2> QED
    BY <2>1, <2>3
<1>3. CASE ~Cut
  BY <1>1, <1>3, DepSteps
<1> QED
  BY <1>2, <1>3

\* What goes with an object that was just made.
LEMMA MadeSteps ==
    ASSUME BaseInv, [Next]_vars, NEW s \in Sources, IsMade(s)
    PROVE  /\ pc = "compile" /\ request.mode # "database" /\ dep'[s] = "full"
           /\ UNCHANGED <<content, platform, options, lastUses, request, copy>>
           /\ s \in Core => archive' = OutOfDate(archive)
<1>0. PoolInv /\ PathTypes
  BY DEF BaseInv, Types
<1>1. pool.busy # <<>> /\ dep'[s] = "full" /\ s \in DOMAIN pool.busy
  BY EmptyFunction DEF IsMade
<1>2. pc = "compile"
  BY <1>0, <1>1, PoolOfIdle DEF PoolInv, Settled
<1>3. request.mode # "database"
  BY <1>0, <1>1, <1>2 DEF PoolInv, Compiling
<1>4. CASE Compiled(s)
  BY <1>1, <1>2, <1>3, <1>4 DEF Compiled, sourceVars
<1>5. CASE Cut
  <2>1. CutCompile
    BY <1>2, <1>5 DEF Cut, CutWipe, CutOptions, CutCopy, CutFindIncludes, CutRemoveLibraries, CutAr, CutShare, CutElsewhere
  <2>2. ASSUME s \in Core
        PROVE  archive' = OutOfDate(archive)
    <3>1. PICK fate \in [DOMAIN pool.busy -> {"done", "cut", "bad"}] :
            /\ dep' = [t \in Sources |-> IF t \notin DOMAIN fate THEN dep[t]
                                         ELSE IF fate[t] = "done" THEN "full" ELSE fate[t]]
            /\ archive' = IF \E t \in DOMAIN fate \cap Core : fate[t] = "done"
                          THEN OutOfDate(archive) ELSE archive
      BY <2>1 DEF CutCompile
    <3>2. fate[s] = "done"
      BY <1>1, <3>1
    <3> QED
      BY <1>1, <2>2, <3>1, <3>2
  <2> QED
    BY <1>1, <1>2, <1>3, <1>5, <2>1, <2>2 DEF Cut, CutCompile, sourceVars
<1> QED
  BY <1>4, <1>5 DEF IsMade

LEMMA ObjectIsOK ==
    ASSUME BaseInv, VersionsInv, MainInv, PathInv, [Next]_vars, Trusted, Trusted', ~Wiped, NEW s \in Sources
    PROVE  ObjectOK(s)'
<1> SUFFICES ASSUME object'[s] # None
             PROVE  ObjectOK(s)'
  BY DEF ObjectOK
<1>0. /\ PathTypes /\ AroundTypes /\ BuildTypes /\ PoolInv /\ (pc # "idle" => request \in RequestType)
      /\ OptionsOK /\ UsesOK /\ BusyOK /\ ObjectOK(s)
  BY DEF BaseInv, Types, BuildTypes, PathInv
<1>1. CASE IsMade(s)
  <2>1. /\ pc = "compile" /\ request.mode # "database" /\ dep'[s] = "full"
        /\ UNCHANGED <<content, platform, options, lastUses, request>>
    BY <1>1, MadeSteps
  <2>2. s \in DOMAIN pool.busy /\ object'[s] = pool.busy[s] /\ Fits(s, pool.busy[s]) /\ pool.busy[s].plat = request.platform
    BY <1>1 DEF IsMade, MainInv
  <2>3. options.opt = request.opt /\ (options.current => platform = request.platform)
    BY <1>0, <2>1 DEF OptionsOK, AfterOptions
  <2>4. lastUses = request.uses
    BY <1>0, <2>1 DEF UsesOK, Detected, InBuild
  <2>5. s # Main => object'[s].ver = content[s]
    BY <1>0, <2>2 DEF BusyOK
  <2>6. request \in RequestType
    BY <1>0, <2>1
  <2>7. object'[s].plat >= request.platform /\ (options.current => object'[s].plat >= platform)
    BY <2>2, <2>3, <2>6 DEF RequestType
  <2> QED
    BY <2>1, <2>2, <2>3, <2>4, <2>5, <2>7 DEF ObjectOK, Fits
<1>2. CASE Stays(s)
  <2>0. /\ object[s] # None
        /\ object'[s].ver = object[s].ver /\ object'[s].opt = object[s].opt /\ object'[s].plat = object[s].plat
        /\ object'[s].uses = object[s].uses
        /\ object'[s].current => object[s].current
        /\ object'[s].headers => object[s].headers
    BY <1>2 DEF Stays
  <2>1. dep'[s] # "cut"
    BY <1>0, <2>0, CutDeps DEF ObjectOK
  <2>2. ASSUME s # Main, object'[s].current, object'[s].headers
        PROVE  object'[s].ver = content'[s]
    <3>1. ASSUME NEW stamp \in {"current", "headers"}, Edit(s, stamp) PROVE FALSE
      <4>1. object[s] \in Objects /\ object'[s] = [object[s] EXCEPT ![stamp] = FALSE]
        BY <1>0, <2>0, <2>2, <3>1 DEF Edit, PathTypes
      <4> QED
        BY <2>2, <4>1 DEF Objects
    <3>2. content'[s] = content[s]
      BY <3>1, ContentSteps
    <3> QED
      BY <1>0, <2>0, <2>2, <3>2 DEF ObjectOK
  <2>3. AfterOptions => UNCHANGED <<request>> \/ (request'.opt = request.opt /\ request'.platform = request.platform)
    BY RequestSteps DEF AfterOptions
  <2>4. ASSUME options'.opt # Damaged
        PROVE  object'[s].opt = options'.opt /\ (options'.current => object'[s].plat >= platform')
    <3>1. CASE UNCHANGED options
      <4>1. options'.current => platform' = platform
        <5>1. platform' # platform => ~options'.current
          BY <1>0, ContentSteps, OptionsOutOfDate DEF EditPlatform, PathTypes
        <5> QED
          BY <5>1
      <4> QED
        BY <1>0, <2>0, <2>4, <3>1, <4>1 DEF ObjectOK
    <3>2. CASE EditPlatform /\ options'.opt = options.opt /\ ~options'.current
      BY <1>0, <2>0, <2>4, <3>2 DEF ObjectOK
    <3>3. CASE CreateBuildOptions /\ options'.opt = request.opt /\ options'.current /\ platform = request.platform
      <4>1. AfterOptions /\ platform' = platform
        BY <3>3 DEF CreateBuildOptions, AfterOptions, sourceVars
      <4> QED
        BY <1>0, <2>0, <3>3, <4>1 DEF ObjectOK
    <3> QED
      BY <2>4, <3>1, <3>2, <3>3, OptionsSteps
  <2>5. ASSUME AfterOptions'
        PROVE  object'[s].opt = request'.opt /\ object'[s].plat >= request'.platform
    <3>1. CASE AfterOptions
      BY <1>0, <2>0, <2>3, <3>1 DEF ObjectOK
    <3>2. CASE ~AfterOptions
      <4>1. WipeBuildPath
        BY <2>5, <3>2, Moves DEF AfterOptions, From
      <4>2. ~OptionsChanged /\ UNCHANGED <<request>> /\ pc = "options"
        BY <4>1, WipesAre DEF WipeBuildPath
      <4>3. options.opt = request.opt /\ options.current
        BY <1>0, <2>0, <4>2 DEF OptionsChanged, OptionsOK
      <4>4. request \in RequestType /\ request.opt # Damaged
        BY <1>0, <4>2, Distinct DEF RequestType
      <4>5. object[s].opt = request.opt /\ object[s].plat >= platform
        BY <1>0, <2>0, <4>3, <4>4 DEF ObjectOK
      <4>6. platform >= request.platform
        BY <4>2 DEF VersionsInv
      <4>7. object[s].plat \in Nat /\ platform \in Nat /\ request.platform \in Nat
        BY <1>0, <2>0, <4>4 DEF PathTypes, Objects, AroundTypes, RequestType
      <4> QED
        BY <2>0, <4>2, <4>5, <4>6, <4>7
    <3> QED
      BY <3>1, <3>2
  <2>6. ASSUME pc' # "prune", lastUses' \notin {None, Damaged}, FolderOf[s] \in Libs
        PROVE  object'[s].uses = lastUses'
    <3>1. UNCHANGED lastUses
      <4>1. Cut => lastUses' \in {lastUses, None, Damaged}
        BY DEF Cut, CutWipe, CutOptions, CutCopy, CutFindIncludes, CutRemoveLibraries, CutCompile, CutAr, CutShare,
               CutElsewhere, pathVars
      <4>2. FindIncludes => lastUses' = lastUses
        BY <2>6 DEF FindIncludes, End
      <4> QED
        BY <2>6, <4>1, <4>2, LastUsesSteps
    <3>2. pc # "prune"
      <4>1. CASE pc = "prune" /\ RemoveLibraries
        <5>1. RemoveObjects(SourcesOf(Libs)) /\ s \in SourcesOf(Libs)
          BY <2>6, <4>1, SourcesOfFolder DEF RemoveLibraries
        <5> QED
          BY <1>0, <5>1, RemovedObjects
      <4>2. CASE pc = "prune" /\ Cut
        BY <2>6, <4>2, CutLibraries
      <4> QED
        BY <2>6, <4>1, <4>2, Moves DEF From, Link, ArFailed, ToolFailed
    <3> QED
      BY <1>0, <2>0, <2>6, <3>1, <3>2 DEF ObjectOK
  <2> QED
    BY <2>1, <2>2, <2>4, <2>5, <2>6 DEF ObjectOK
<1> QED
  BY <1>1, <1>2, ObjectSteps

LEMMA OptionsAreOK ==
    ASSUME BaseInv, PathInv, [Next]_vars, Trusted, Trusted', ~Wiped
    PROVE  OptionsOK'
<1>0. /\ PathTypes /\ BuildTypes /\ (pc # "idle" => request \in RequestType)
      /\ OptionsOK /\ \A s \in Sources : ObjectOK(s)
  BY DEF BaseInv, Types, BuildTypes, PathInv
<1>1. ASSUME options'.opt = None, NEW s \in Sources
      PROVE  object'[s] = None
  <2>1. CASE options.opt = None
    <3>1. object[s] = None
      BY <1>0, <2>1 DEF OptionsOK
    <3>2. ~IsMade(s)
      <4>1. ASSUME IsMade(s) PROVE FALSE
        <5>1. pc = "compile"
          BY <4>1, MadeSteps
        <5> QED
          BY <1>0, <2>1, <5>1, Distinct DEF OptionsOK, AfterOptions, RequestType
      <4> QED
        BY <4>1
    <3> QED
      BY <3>1, <3>2, ObjectSteps DEF Stays
  <2>2. CASE options.opt # None
    <3>1. CreateBuildOptions => request.opt # None
      BY <1>0, Distinct DEF CreateBuildOptions, RequestType
    <3> QED
      BY <1>1, <2>2, <3>1, OptionsSteps, Distinct
  <2> QED
    BY <2>1, <2>2
<1>2. ASSUME AfterOptions', pc' # "stamp"
      PROVE  options'.opt = request'.opt /\ (options'.current => platform' = request'.platform)
  <2>1. CASE CreateBuildOptions
    <3>1. options'.opt = request.opt /\ UNCHANGED <<request, platform>> /\ platform = request.platform
      BY <2>1, EmptyOptions DEF CreateBuildOptions, sourceVars, Trusted
    <3> QED
      BY <3>1
  <2>2. CASE ~CreateBuildOptions
    <3>1. AfterOptions /\ pc # "stamp"
      BY <1>2, <2>2, Moves DEF AfterOptions, From
    <3>2. request'.opt = request.opt /\ request'.platform = request.platform
      BY <3>1, RequestSteps DEF AfterOptions
    <3>3. ~Cut
      BY <1>2 DEF Cut, End, AfterOptions
    <3>4. \/ UNCHANGED options
          \/ options'.opt = options.opt /\ ~options'.current
      BY <2>2, <3>3, OptionsSteps
    <3>5. options'.current => platform' = platform
      BY <1>0, ContentSteps, OptionsOutOfDate DEF EditPlatform, PathTypes
    <3> QED
      BY <1>0, <3>1, <3>2, <3>4, <3>5 DEF OptionsOK
  <2> QED
    BY <2>1, <2>2
<1> QED
  BY <1>1, <1>2 DEF OptionsOK

LEMMA UsesAreOK ==
    ASSUME BaseInv, PathInv, [Next]_vars, Trusted, Trusted', ~Wiped
    PROVE  UsesOK'
<1>1. ASSUME Detected', request'.mode # "database"
      PROVE  lastUses' = request'.uses
  <2>1. CASE FindIncludes
    <3>1. request'.mode = request.mode
      BY <2>1, RequestSteps DEF FindIncludes, Start
    <3>2. lastUses # Damaged
      BY <1>1, <2>1, <3>1 DEF FindIncludes, End, Detected, InBuild
    <3> QED
      BY <2>1, <3>2 DEF FindIncludes
  <2>2. CASE ~FindIncludes
    <3>1. Detected /\ ~PrepareSketch
      BY <1>1, <2>2, Moves DEF Detected, InBuild, From, PrepareSketch
    <3>2. UNCHANGED request
      BY <2>2, <3>1, RequestSteps DEF Detected, InBuild
    <3>3. ~Cut
      BY <1>1 DEF Cut, End, Detected, InBuild
    <3>4. UNCHANGED lastUses
      <4>1. ~RemoveExpired("path")
        BY WipesAre
      <4>2. ~WipeBuildPath
        BY <3>1 DEF WipeBuildPath, Detected, InBuild
      <4> QED
        BY <2>2, <3>3, <4>1, <4>2 DEF pathVars, Next, BuildStep, ToolFails, Around, vars,
          CreateBuildOptions, PrepareSketch, RemoveLibraries, BeginBuild, Feed, Take, Work, EndFolder,
          LookUpCore, OpenArchive, ShareCore, Link, Compiled, Ar, ArFailed, ShareFailed, ToolFailed, CompileFailed,
          EditPlatform, EditSource, EditHeader, Edit, FindExpired, RemoveExpired, Start
    <3> QED
      BY <1>1, <3>1, <3>2, <3>4 DEF PathInv, UsesOK
  <2> QED
    BY <2>1, <2>2
<1> QED
  BY <1>1 DEF UsesOK

LEMMA BusyIsOK ==
    ASSUME BaseInv, PathInv, [Next]_vars, Trusted, Trusted'
    PROVE  BusyOK'
<1>0. PathTypes /\ Types
  BY DEF BaseInv, Types
<1>1. ASSUME NEW s \in DOMAIN pool'.busy, s # Main
      PROVE  pool'.busy[s].ver = content'[s]
  <2>1. CASE s \in DOMAIN pool.busy /\ pool'.busy[s] = pool.busy[s]
    <3>1. ASSUME NEW stamp, Edit(s, stamp) PROVE FALSE
      BY <1>1, <2>1, <3>1 DEF Edit, Trusted
    <3>2. content'[s] = content[s]
      BY <3>1, ContentSteps, BusySteps
    <3> QED
      BY <1>1, <2>1, <3>2 DEF PathInv, BusyOK
  <2>2. CASE Take /\ pool'.busy[s] = Made(s)
    BY <1>1, <2>2 DEF Take, Work, Made, sourceVars
  <2> QED
    BY <2>1, <2>2, BusySteps
<1> QED
  BY <1>1 DEF BusyOK

LEMMA HandledAreOK ==
    ASSUME BaseInv, Present, VersionsInv, MainInv, PathInv, [Next]_vars, Trusted, Trusted'
    PROVE  HandledOK'
<1>0. /\ PathTypes /\ AroundTypes /\ BuildTypes /\ PoolInv /\ (pc # "idle" => request \in RequestType)
      /\ UsesOK /\ HandledOK /\ \A s \in Sources : ObjectOK(s)
  BY DEF BaseInv, Types, BuildTypes, PathInv
<1>1. ASSUME Making', NEW s \in Sources, Handled(s)'
      PROVE  Fits(s, object[s])'
  <2>0. UNCHANGED request
    BY <1>1, NewlyHandled
  <2>1. object'[s] # None
    <3>1. Present'
      BY PresentStep
    <3> QED
      BY <1>1, <3>1 DEF Present, Undisturbed, Trusted
  <2>2. CASE Making /\ Handled(s) /\ ~(s \in DOMAIN pool.busy)
    <3>1. Stays(s)
      BY <2>1, <2>2, ObjectSteps DEF IsMade
    <3> QED
      BY <1>0, <2>0, <2>2, <3>1 DEF HandledOK, Fits, Stays
  <2>3. CASE Take /\ s = pool.offered /\ Verdict(s) = "current" /\ UNCHANGED object
    <3>1. /\ object[s] # None /\ object[s].current
          /\ dep[s] # "cut" => object[s].headers
          /\ s = Main => copy # None
      BY <1>0, <2>3, VerdictIs
    <3>2. pc = "compile" /\ request.mode # "database"
      <4>1. pc = "compile"
        BY <1>0, <1>1, <2>3, PoolOfIdle, Distinct DEF Take, PoolInv, InBuild, Settled
      <4> QED
        BY <1>1, <2>0, <4>1 DEF Making
    <3>3. ObjectOK(s)
      BY <1>0
    <3>4. object[s].opt = request.opt /\ object[s].plat >= request.platform /\ dep[s] # "cut"
      BY <3>1, <3>2, <3>3 DEF ObjectOK, AfterOptions
    <3>5. object[s].ver >= request.content[s]
      <4>1. CASE s = Main
        BY <3>1, <3>2, <4>1 DEF MainInv, Copied, InBuild
      <4>2. CASE s # Main
        BY <3>1, <3>2, <3>3, <3>4, <4>2 DEF ObjectOK, VersionsInv
      <4> QED
        BY <4>1, <4>2
    <3>6. FolderOf[s] \in Libs => object[s].uses = request.uses
      <4>1. lastUses = request.uses
        BY <1>0, <3>2 DEF UsesOK, Detected, InBuild
      <4>2. request.uses \in SUBSET Libs
        BY <1>0, <3>2 DEF RequestType
      <4>3. lastUses \notin {None, Damaged}
        BY <4>1, <4>2, Distinct
      <4> QED
        BY <3>1, <3>2, <3>3, <4>1, <4>3 DEF ObjectOK
    <3> QED
      BY <2>0, <2>3, <3>4, <3>5, <3>6 DEF Fits
  <2>4. CASE Compiled(s)
    <3>1. object'[s] = pool.busy[s] /\ s \in DOMAIN pool.busy
      BY <1>0, <2>4 DEF Compiled, PathTypes
    <3> QED
      BY <2>0, <3>1 DEF MainInv, Fits
  <2> QED
    BY <1>1, <2>2, <2>3, <2>4, NewlyHandled
<1> QED
  BY <1>1 DEF HandledOK

LEMMA PathStep ==
    ASSUME BaseInv, Present, VersionsInv, MainInv, PathInv, [Next]_vars
    PROVE  PathInv'
<1>1. CASE ~Trusted'
  BY <1>1 DEF PathInv
<1>2. CASE Wiped
  BY <1>2, WipedPath
<1>3. CASE Trusted' /\ ~Wiped
  <2>1. Trusted
    BY <1>3, WipesAre
  <2>2. OptionsOK' /\ UsesOK' /\ BusyOK' /\ HandledOK'
    BY <1>3, <2>1, OptionsAreOK, UsesAreOK, BusyIsOK, HandledAreOK
  <2>3. ASSUME NEW s \in Sources PROVE ObjectOK(s)'
    BY <1>3, <2>1, ObjectIsOK
  <2> QED
    BY <2>2, <2>3 DEF PathInv
<1> QED
  BY <1>1, <1>2, <1>3

-----------------------------------------------------------------------------
\* The archive of the core: an archive that is whole and current has what the objects are.
Same(p, q) == p.ver = q.ver /\ p.opt = q.opt /\ p.plat = q.plat

ArchiveOK ==
    /\ archive # None /\ archive.current /\ pc # "ar" => DOMAIN archive.parts = Core
    /\ pc = "ar" => DOMAIN Parts(archive) = Core \ pool.todo
    /\ archive # None /\ archive.current =>
           \A s \in DOMAIN archive.parts : object[s] # None => Same(archive.parts[s], object[s])
    /\ FromPath /\ request.mode # "database" => archive # None /\ archive.current

ArchiveInv == (pc = "ar" /\ archive # None => archive.current) /\ (Trusted => ArchiveOK)

LEMMA ArchiveSteps ==
    ASSUME BaseInv, [Next]_vars
    PROVE  \/ UNCHANGED archive
           \/ archive' = OutOfDate(archive) /\ pc = "compile" /\ pc' \in {"compile", "idle"}
           \/ archive' = None /\ (OpenArchive \/ WipeBuildPath \/ RemoveExpired("path") \/ Cut)
           \/ \E s \in Core : Ar(s) /\ object[s] # None /\ archive' = [parts |-> More(s), current |-> TRUE]
<1>0. PoolInv
  BY DEF BaseInv
<1>1. ASSUME NEW s \in Sources, Compiled(s)
      PROVE  archive' \in {archive, OutOfDate(archive)} /\ pc = "compile" /\ pc' = "compile"
  <2>1. pc = "compile"
    BY <1>0, <1>1, PoolOfIdle, EmptyFunction DEF Compiled, PoolInv, Settled
  <2> QED
    BY <1>1, <2>1 DEF Compiled
<1>2. ASSUME Cut
      PROVE  archive' \in {archive, None} \/ (archive' = OutOfDate(archive) /\ pc = "compile" /\ pc' = "idle")
  <2>1. pool.busy # <<>> => pc = "compile"
    BY <1>0, PoolOfIdle DEF PoolInv, Settled
  <2> QED
    BY <1>2, <2>1 DEF Cut, End, CutWipe, CutOptions, CutCopy, CutFindIncludes, CutRemoveLibraries, CutCompile, CutAr,
       CutShare, CutElsewhere, pathVars
<1>3. ASSUME NEW s \in Sources, Ar(s), ~UNCHANGED archive
      PROVE  s \in Core /\ object[s] # None /\ archive' = [parts |-> More(s), current |-> TRUE]
  BY <1>0, <1>3 DEF Ar, PoolInv, More
<1>4. ASSUME WipeBuildPath \/ \E e \in Entries : RemoveExpired(e)
      PROVE  UNCHANGED archive \/ (archive' = None /\ (WipeBuildPath \/ RemoveExpired("path")))
  BY <1>4 DEF WipeBuildPath, RemoveExpired, NoPath, pathVars
<1>5. ASSUME OpenArchive
      PROVE  UNCHANGED archive \/ archive' = None
  BY <1>5 DEF OpenArchive
<1>6. CASE \/ UNCHANGED vars \/ EditPlatform \/ CreateBuildOptions \/ PrepareSketch \/ FindIncludes \/ RemoveLibraries
           \/ BeginBuild \/ Feed \/ Take \/ EndFolder \/ LookUpCore \/ ShareCore \/ Link \/ ToolFails
           \/ (\E s \in Sources : EditSource(s) \/ EditHeader(s))
           \/ (\E e \in Entries : FindExpired(e)) \/ Starts
  BY <1>6 DEF pathVars, vars, EditPlatform, CreateBuildOptions, PrepareSketch, FindIncludes, RemoveLibraries, BeginBuild,
       Feed, EditSource, EditHeader, Edit, Take, Work, EndFolder, LookUpCore, ShareCore, Link, ToolFails, ArFailed,
       ShareFailed, ToolFailed, CompileFailed, FindExpired, Starts, Start
<1> QED
  BY <1>1, <1>2, <1>3, <1>4, <1>5, <1>6 DEF Next, BuildStep, Around, Starts

\* ar takes up one object after the other.
LEMMA ArSteps ==
    ASSUME BaseInv, NEW s \in Sources, Ar(s), object[s] # None
    PROVE  /\ s \in Core /\ s \in pool.todo /\ pc = "ar" /\ UNCHANGED <<object, request, doubtful>>
           /\ pool'.todo = pool.todo \ {s} /\ pool'.core = pool.core
           /\ archive' = [parts |-> More(s), current |-> TRUE] /\ archive'.parts = More(s) /\ archive' # None /\ archive'.current
           /\ Parts(archive)' = More(s)
           /\ (pc' = "share" /\ pool.todo = {s}) \/ (pc' = "ar" /\ pool.todo # {s})
<1>0. PathTypes /\ PoolInv /\ pool \in PoolType
  BY DEF BaseInv, Types, BuildTypes
<1>1. s \in Core /\ s \in pool.todo /\ pc = "ar"
  BY <1>0 DEF Ar, PoolInv
<1>2. archive' = [parts |-> More(s), current |-> TRUE]
  BY DEF Ar, More
<1>3. [parts |-> More(s), current |-> TRUE] \in WholeArchives
  BY <1>0, <1>1, MoreParts
<1>4. archive' # None /\ archive'.parts = More(s) /\ archive'.current
  BY <1>2, <1>3, ArchivesAre
<1>5. Parts(archive)' = More(s)
  BY <1>4 DEF Parts
<1>6. pool' = [pool EXCEPT !.todo = @ \ {s}] /\ UNCHANGED <<object, request, doubtful>>
  BY DEF Ar, objectVars, historyVars
<1>7. pool'.todo = pool.todo \ {s} /\ pool'.core = pool.core
  BY <1>0, <1>6 DEF PoolType
<1>8. (pc' = "share" /\ pool.todo = {s}) \/ (pc' = "ar" /\ pool.todo # {s})
  BY DEF Ar
<1> QED
  BY <1>1, <1>2, <1>4, <1>5, <1>6, <1>7, <1>8

LEMMA ArchiveStaysOK ==
    ASSUME BaseInv, Present, ArchiveInv, [Next]_vars, Trusted, Trusted', ~Wiped, UNCHANGED archive,
           \A s \in Core : Ar(s) => object[s] = None, pc' # "ar" \/ ~OpenArchive
    PROVE  ArchiveOK'
<1>0. PathTypes /\ PoolInv /\ BuildTypes /\ ArchiveOK
  BY DEF BaseInv, Types, ArchiveInv
<1>1. ASSUME NEW s \in Sources, Ar(s) PROVE FALSE
  <2>1. pc = "ar" /\ s \in pool.todo /\ s \in Core
    BY <1>0, <1>1 DEF Ar, PoolInv
  <2>2. pool.folder = "core" /\ request.mode # "database" /\ Settled
    BY <1>0, <2>1 DEF PoolInv, InBuild
  <2>3. Making /\ Handled(s)
    BY <2>1, <2>2 DEF Making, Handled, InBuild, Settled, Core
  <2>4. object[s] # None
    BY <2>1, <2>3 DEF Present, Undisturbed, Trusted, Core
  <2> QED
    BY <1>1, <2>1, <2>4
<1>2. ASSUME archive' # None, archive'.current, pc' # "ar"
      PROVE  DOMAIN archive'.parts = Core
  <2>1. pc # "ar"
    <3>1. ASSUME pc = "ar", ArFailed PROVE FALSE
      BY <1>2, <3>1 DEF ArFailed, Trusted
    <3>2. ASSUME pc = "ar", Cut PROVE FALSE
      <4>1. pool.busy = <<>>
        BY <1>0, <3>2 DEF PoolInv, InBuild, Settled
      <4> QED
        BY <1>2, <3>2, <4>1 DEF Cut, CutWipe, CutOptions, CutCopy, CutFindIncludes, CutRemoveLibraries, CutCompile, CutAr,
          CutShare, CutElsewhere, Trusted
    <3> QED
      BY <1>1, <1>2, <3>1, <3>2, Moves DEF From, Link, ToolFailed
  <2> QED
    BY <1>0, <1>2, <2>1 DEF ArchiveOK
<1>3. ASSUME pc' = "ar"
      PROVE  DOMAIN Parts(archive)' = Core \ pool'.todo
  <2>1. pc = "ar" /\ UNCHANGED pool
    BY <1>1, <1>3, Moves DEF From
  <2>2. Parts(archive)' = Parts(archive)
    BY DEF Parts
  <2> QED
    BY <1>0, <2>1, <2>2 DEF ArchiveOK
<1>4. ASSUME archive' # None, archive'.current, NEW s \in DOMAIN archive'.parts, object'[s] # None
      PROVE  Same(archive'.parts[s], object'[s])
  <2>1. s \in Core /\ s \in Sources
    <3>1. archive.parts \in PartsType
      BY <1>0, <1>4 DEF PathTypes, WholeArchives
    <3> QED
      BY <1>4, <3>1, PartsAre DEF Core
  <2>2. ~IsMade(s)
    <3>1. OutOfDate(archive) # archive
      <4>1. archive \in Archives
        BY <1>0, <1>4, ArchivesAre DEF PathTypes
      <4> QED
        BY <1>4, <4>1, ArchiveOutOfDate
    <3> QED
      BY <2>1, <3>1, MadeSteps
  <2>3. Stays(s)
    BY <1>4, <2>1, <2>2, ObjectSteps
  <2> QED
    BY <1>0, <1>4, <2>3 DEF Stays, Same, ArchiveOK
<1>5. ASSUME FromPath', request'.mode # "database"
      PROVE  archive' # None /\ archive'.current
  <2>1. CASE OpenArchive
    BY <1>5, <2>1 DEF OpenArchive, ArchiveIsCurrent
  <2>2. CASE LookUpCore
    <3>1. pc' = "link" /\ pool' = [pool EXCEPT !.core = "cache"]
      BY <1>5, <2>2 DEF LookUpCore, Enter, FromPath
    <3>2. pool'.core = "cache"
      BY <1>0, <3>1 DEF BuildTypes, PoolType
    <3> QED
      BY <1>5, <3>1, <3>2 DEF FromPath
  <2>3. CASE ShareCore \/ ShareFailed
    BY <1>0, <1>5, <2>3 DEF ShareCore, ShareFailed, ArchiveOK, FromPath
  <2>4. CASE UNCHANGED <<pc, request, pool>>
    BY <1>0, <1>5, <2>4 DEF ArchiveOK, FromPath
  <2> QED
    BY <1>1, <1>5, <2>1, <2>2, <2>3, <2>4, Moves DEF From, FromPath
<1> QED
  BY <1>2, <1>3, <1>4, <1>5 DEF ArchiveOK

LEMMA ArchiveStep ==
    ASSUME BaseInv, Present, ArchiveInv, [Next]_vars
    PROVE  ArchiveInv'
<1>0. PathTypes /\ BuildTypes
  BY DEF BaseInv, Types
<1>1. ASSUME pc' = "ar", archive' # None
      PROVE  archive'.current
  <2>1. CASE OpenArchive
    BY <1>1, <2>1 DEF OpenArchive
  <2>2. ASSUME NEW s \in Core, Ar(s), object[s] # None
        PROVE  archive'.current
    BY <2>2, ArSteps DEF BaseInv, Core
  <2>3. CASE UNCHANGED archive /\ ~OpenArchive
    <3>1. pc = "ar"
      BY <1>1, <2>3, Moves DEF From
    <3> QED
      BY <1>1, <2>3, <3>1 DEF ArchiveInv
  <2> QED
    BY <1>1, <2>1, <2>2, <2>3, ArchiveSteps
<1>2. ASSUME Trusted'
      PROVE  ArchiveOK'
  <2>1. CASE archive' = None /\ pc' \notin {"ar", "share", "link"}
    BY <2>1 DEF ArchiveOK, FromPath
  <2>2. CASE Wiped
    BY <2>1, <2>2, EmptyPath DEF Wiped
  <2>3. CASE ~Wiped /\ OpenArchive /\ pc' = "ar"
    <3>1. archive' = None /\ pool' = [pool EXCEPT !.todo = Core]
      BY <2>3 DEF OpenArchive
    <3>2. pool'.todo = Core
      BY <1>0, <3>1 DEF BuildTypes, PoolType
    <3>3. DOMAIN Parts(archive)' = {}
      BY <3>1, EmptyFunction DEF Parts
    <3> QED
      BY <2>3, <3>1, <3>2, <3>3 DEF ArchiveOK, FromPath
  <2>4. ASSUME ~Wiped, NEW s \in Core, Ar(s), object[s] # None
        PROVE  ArchiveOK'
    <3>1. /\ s \in pool.todo /\ pc = "ar" /\ UNCHANGED <<object, request, doubtful>>
          /\ pool'.todo = pool.todo \ {s} /\ pool'.core = pool.core
          /\ archive'.parts = More(s) /\ archive' # None /\ archive'.current
          /\ Parts(archive)' = More(s)
          /\ (pc' = "share" /\ pool.todo = {s}) \/ (pc' = "ar" /\ pool.todo # {s})
      BY <2>4, ArSteps DEF Core
    <3>2. /\ DOMAIN More(s) = DOMAIN Parts(archive) \cup {s} /\ More(s)[s] = object[s]
          /\ \A t \in DOMAIN Parts(archive) : t # s => More(s)[t] = Parts(archive)[t]
      BY <1>0, MoreParts
    <3>3. ArchiveOK /\ pool.todo \subseteq Core
      BY <1>2, <3>1 DEF ArchiveInv, Trusted, BaseInv, PoolInv
    <3>4. DOMAIN More(s) = Core \ pool'.todo
      BY <3>1, <3>2, <3>3 DEF ArchiveOK
    <3>5. ASSUME NEW t \in DOMAIN More(s), object[t] # None
          PROVE  Same(More(s)[t], object[t])
      <4>1. CASE t = s
        BY <3>2, <4>1 DEF Same
      <4>2. CASE t # s
        <5>1. t \in DOMAIN Parts(archive) /\ More(s)[t] = Parts(archive)[t]
          BY <3>2, <3>5, <4>2
        <5>2. archive # None
          BY <5>1, EmptyFunction DEF Parts
        <5>3. archive.current /\ Parts(archive) = archive.parts
          BY <3>1, <5>2 DEF ArchiveInv, Parts
        <5> QED
          BY <3>3, <3>5, <5>1, <5>2, <5>3 DEF ArchiveOK
      <4> QED
        BY <4>1, <4>2
    <3>6. pc' # "ar" => DOMAIN archive'.parts = Core
      BY <3>1, <3>4
    <3> QED
      BY <3>1, <3>4, <3>5, <3>6 DEF ArchiveOK
  <2>5. CASE ~Wiped /\ archive' = OutOfDate(archive) /\ pc' \in {"compile", "idle"}
    <3>1. archive' # None => ~archive'.current
      <4>1. archive \in Archives \cup {None}
        BY <1>0, ArchivesAre DEF PathTypes
      <4> QED
        BY <2>5, <4>1, ArchiveOutOfDate
    <3> QED
      BY <2>5, <3>1 DEF ArchiveOK, FromPath
  <2>6. CASE ~Wiped /\ archive' = None /\ (OpenArchive \/ WipeBuildPath \/ RemoveExpired("path") \/ Cut) /\ ~(OpenArchive /\ pc' = "ar")
    <3>1. OpenArchive => UNCHANGED archive
      BY <2>6 DEF OpenArchive
    <3>2. WipeBuildPath => pc' = "stamp"
      BY DEF WipeBuildPath
    <3>3. Cut => pc' = "idle"
      BY DEF Cut, End
    <3>4. ~RemoveExpired("path")
      BY <1>2, <2>6, WipesAre
    <3>5. CASE OpenArchive
      <4>1. pc = "archive" /\ pc' = "share" /\ UNCHANGED <<request, archive>>
        BY <2>6, <3>5 DEF OpenArchive
      <4>2. request.mode = "database"
        BY <2>6, <3>5, <4>1 DEF OpenArchive, ArchiveIsCurrent
      <4> QED
        BY <2>6, <4>1, <4>2 DEF ArchiveOK, FromPath
    <3> QED
      BY <2>1, <2>6, <3>2, <3>3, <3>4, <3>5
  <2>7. CASE ~Wiped /\ UNCHANGED archive /\ ~(OpenArchive /\ pc' = "ar") /\ \A s \in Core : Ar(s) => object[s] = None
    BY <1>2, <2>7, ArchiveStaysOK, WipesAre
  <2> QED
    BY <2>2, <2>3, <2>4, <2>5, <2>6, <2>7, ArchiveSteps
<1> QED
  BY <1>1, <1>2 DEF ArchiveInv

-----------------------------------------------------------------------------
\* The shared cache.
CoreFits(f) == \A s \in Core : f[s].ver >= request.content[s] /\ f[s].plat >= request.platform

CacheOK(k) ==
    /\ DOMAIN cache[k].parts = Core
    /\ \A s \in Core : /\ KeyOf[cache[k].parts[s].opt] = k
                       /\ cache[k].current => cache[k].parts[s].ver >= content[s] /\ cache[k].parts[s].plat >= platform

IsWhole(k) == cache[k] # None /\ cache[k].parts # Damaged

CacheInv ==
    /\ \A k \in Keys : k \notin doubtful /\ IsWhole(k) => CacheOK(k)
    /\ FromCache /\ Key \notin doubtful /\ IsWhole(Key) => CoreFits(cache[Key].parts)

\* What the archive of the build path has when a build is through with it.
LEMMA SharedParts ==
    ASSUME BaseInv, Present, PathInv, ArchiveInv, Trusted, FromPath, request.mode # "database"
    PROVE  /\ archive # None /\ archive.current /\ DOMAIN archive.parts = Core /\ archive.parts \in [Core -> Objects]
           /\ CoreFits(archive.parts) /\ \A s \in Core : archive.parts[s].opt = request.opt
<1>0. PathTypes /\ BuildTypes /\ PoolInv /\ request \in RequestType /\ Core \subseteq Sources
  BY DEF BaseInv, Types, BuildTypes, FromPath, Core
<1>1. archive # None /\ archive.current /\ DOMAIN archive.parts = Core
  BY DEF ArchiveInv, ArchiveOK, FromPath
<1>2. archive.parts \in [Core -> Objects]
  <2>1. archive.parts \in PartsType
    BY <1>0, <1>1 DEF PathTypes, WholeArchives
  <2> QED
    BY <1>1, <2>1, PartsAre
<1>3. ASSUME NEW s \in Core
      PROVE  Fits(s, object[s]) /\ Same(archive.parts[s], object[s])
  <2>1. pool.folder = "core" /\ Settled
    BY <1>0, Distinct DEF PoolInv, InBuild, FromPath
  <2>2. Making /\ Handled(s)
    BY <2>1 DEF Making, Handled, InBuild, Settled, Core, FromPath
  <2>3. object[s] # None
    BY <1>0, <2>2 DEF Present, Undisturbed, Trusted
  <2>4. Fits(s, object[s])
    BY <1>0, <2>2 DEF PathInv, HandledOK
  <2> QED
    BY <1>1, <2>3, <2>4 DEF ArchiveInv, ArchiveOK
<1> QED
  BY <1>1, <1>2, <1>3 DEF Fits, Same, CoreFits

LEMMA KeyDoubtStays ==
    ASSUME BaseInv, [Next]_vars, NEW k \in Keys, k \in doubtful, k \notin doubtful'
    PROVE  (RemoveExpired(k) /\ cache' = [cache EXCEPT ![k] = None]) \/ (ShareCore /\ k = Key)
<1> USE DEF historyVars
<1>1. ASSUME NEW e \in Entries, RemoveExpired(e) PROVE RemoveExpired(k) /\ cache' = [cache EXCEPT ![k] = None]
  BY <1>1 DEF RemoveExpired
<1>2. ~WipeBuildPath
  BY DEF WipeBuildPath
<1>3. ASSUME ShareCore PROVE k = Key
  BY <1>3 DEF ShareCore
<1>4. \/ WipeBuildPath \/ ShareCore \/ \E e \in Entries : RemoveExpired(e)
  BY DEF Next, BuildStep, ToolFails, Around, vars, CreateBuildOptions, PrepareSketch, FindIncludes,
         RemoveLibraries, BeginBuild, Feed, Take, Work, EndFolder, LookUpCore, OpenArchive, Link, Compiled, Ar,
         ArFailed, ShareFailed, ToolFailed, CompileFailed, EditPlatform, Cut, EditSource, EditHeader, Edit, FindExpired, Start,
         CutWipe, CutOptions, CutCopy, CutFindIncludes, CutRemoveLibraries, CutCompile, CutAr, CutShare, CutElsewhere
<1> QED
  BY <1>1, <1>2, <1>3, <1>4

LEMMA CacheStaysOK ==
    ASSUME BaseInv, Present, VersionsInv, PathInv, ArchiveInv, CacheInv, [Next]_vars,
           NEW k \in Keys, k \notin doubtful', IsWhole(k)'
    PROVE  CacheOK(k)'
<1>0. /\ PathTypes /\ AroundTypes /\ BuildTypes /\ cache \in [Keys -> Archives \cup {None}] /\ Core \subseteq Sources
  BY DEF BaseInv, Types, AroundTypes, CacheTypes, Core
<1>1. ASSUME IsWhole(k)
      PROVE  cache[k].parts \in PartsType
  BY <1>0, <1>1, ArchivesAre DEF IsWhole
<1>2. CASE /\ ShareCore /\ archive # None /\ request.mode # "database" /\ k = Key
           /\ cache' = [cache EXCEPT ![Key] = [parts |-> archive.parts, current |-> TRUE]]
  <2>1. pc = "share" /\ Trusted /\ ~touched /\ UNCHANGED <<content, platform>>
    BY <1>2 DEF ShareCore, Trusted, sourceVars
  <2>2. request \in RequestType
    BY <1>0, <2>1 DEF BuildTypes
  <2>3. /\ DOMAIN archive.parts = Core /\ archive.parts \in [Core -> Objects]
        /\ CoreFits(archive.parts) /\ \A s \in Core : archive.parts[s].opt = request.opt
    BY <1>2, <2>1, SharedParts DEF FromPath
  <2>4. cache'[k].parts = archive.parts
    BY <1>0, <1>2
  <2>5. platform = request.platform /\ \A s \in Core : content[s] = request.content[s]
    BY <2>1 DEF VersionsInv
  <2> QED
    BY <1>2, <2>1, <2>3, <2>4, <2>5 DEF CacheOK, CoreFits, Key
<1>3. CASE ~(ShareCore /\ k = Key)
  <2>1. k \notin doubtful
    <3>1. ~(RemoveExpired(k) /\ cache' = [cache EXCEPT ![k] = None])
      BY <1>0 DEF IsWhole
    <3> QED
      BY <1>3, <3>1, KeyDoubtStays
  <2>2. ASSUME cache'[k] = cache[k], content' = content \/ \A s \in Core : content'[s] = content[s], platform' = platform
        PROVE  CacheOK(k)'
    BY <1>0, <2>1, <2>2 DEF CacheInv, CacheOK, IsWhole
  <2>3. CASE CacheOutOfDate
    BY <1>0, <2>1, <2>3, OlderCache DEF CacheInv, CacheOK, IsWhole
  <2>4. CASE ~CacheOutOfDate
    <3>1. platform' = platform
      BY <2>4, ContentSteps DEF EditPlatform
    <3>2. ASSUME NEW s \in Core PROVE content'[s] = content[s]
      <4>1. ~\E stamp \in {"current", "headers"} : Edit(s, stamp)
        BY <2>4 DEF Edit
      <4> QED
        BY <1>0, <4>1, ContentSteps
    <3>3. cache'[k] = cache[k]
      <4>1. ASSUME NEW e \in Keys, cache' = [cache EXCEPT ![e] = None]
            PROVE  cache'[k] = cache[k]
        BY <1>0, <4>1 DEF IsWhole
      <4>2. ASSUME ShareCore, cache' = [cache EXCEPT ![Key] = [parts |-> archive.parts, current |-> TRUE]]
            PROVE  cache'[k] = cache[k]
        BY <1>0, <1>3, <4>2
      <4>3. ASSUME CutCacheFile
            PROVE  cache'[k] = cache[k]
        <5>1. cache' = [cache EXCEPT ![Key] = [parts |-> Damaged, current |-> TRUE]]
          BY <4>3 DEF CutCacheFile
        <5>2. k # Key
          BY <1>0, <5>1 DEF IsWhole
        <5> QED
          BY <1>0, <5>1, <5>2
      <4> QED
        BY <2>4, <4>1, <4>2, <4>3, CacheSteps
    <3> QED
      BY <2>2, <3>1, <3>2, <3>3
  <2> QED
    BY <2>3, <2>4
<1>4. CASE ShareCore /\ k = Key /\ ~(archive # None /\ request.mode # "database")
  <2>1. UNCHANGED <<cache, doubtful, content, platform>>
    BY <1>4 DEF ShareCore, sourceVars
  <2> QED
    BY <2>1 DEF CacheInv, CacheOK, IsWhole
<1> QED
  BY <1>2, <1>3, <1>4 DEF ShareCore

LEMMA CacheStep ==
    ASSUME BaseInv, Present, VersionsInv, PathInv, ArchiveInv, CacheInv, [Next]_vars
    PROVE  CacheInv'
<1>0. /\ PathTypes /\ AroundTypes /\ BuildTypes /\ cache \in [Keys -> Archives \cup {None}] /\ Core \subseteq Sources
  BY DEF BaseInv, Types, AroundTypes, CacheTypes, Core
<1>1. \A k \in Keys : k \notin doubtful' /\ IsWhole(k)' => CacheOK(k)'
  BY CacheStaysOK
<1>2. ASSUME FromCache', Key' \notin doubtful', IsWhole(Key)'
      PROVE  CoreFits(cache[Key].parts)'
  <2>1. pc' = "link"
    BY <1>2 DEF FromCache
  <2>2. CASE LookUpCore
    <3>1. /\ pc = "lookup" /\ UNCHANGED <<cache, request, doubtful, content, platform>>
          /\ cache[Key] # None /\ cache[Key].current
      BY <2>1, <2>2 DEF LookUpCore, Enter, historyVars, sourceVars
    <3>2. request \in RequestType /\ Key \in Keys /\ Key' = Key
      BY <1>0, <3>1, KeyOfTheBuild DEF Key
    <3>3. IsWhole(Key) /\ Key \notin doubtful
      BY <1>2, <3>1, <3>2 DEF IsWhole
    <3>4. CacheOK(Key)
      BY <3>2, <3>3 DEF CacheInv
    <3>5. cache[Key].parts \in [Core -> Objects]
      <4>1. cache[Key].parts \in PartsType
        BY <1>0, <3>2, <3>3, ArchivesAre DEF IsWhole
      <4> QED
        BY <3>4, <4>1, PartsAre DEF CacheOK
    <3>6. ASSUME NEW s \in Core
          PROVE  cache[Key].parts[s].ver >= request.content[s] /\ cache[Key].parts[s].plat >= request.platform
      <4>1. cache[Key].parts[s].ver >= content[s] /\ cache[Key].parts[s].plat >= platform
        BY <3>1, <3>4 DEF CacheOK
      <4>2. content[s] >= request.content[s] /\ platform >= request.platform
        BY <1>0, <3>1 DEF VersionsInv
      <4>3. /\ cache[Key].parts[s].ver \in Nat /\ cache[Key].parts[s].plat \in Nat /\ content[s] \in Nat
            /\ platform \in Nat /\ request.content[s] \in Nat /\ request.platform \in Nat
        BY <1>0, <3>2, <3>5 DEF Objects, AroundTypes, RequestType
      <4> QED
        BY <4>1, <4>2, <4>3
    <3> QED
      BY <3>1, <3>2, <3>6 DEF CoreFits
  <2>3. CASE ShareCore \/ ShareFailed
    <3>1. pool'.core = "path"
      BY <1>0, <2>3 DEF ShareCore, ShareFailed, BuildTypes, PoolType
    <3> QED
      BY <1>2, <3>1 DEF FromCache
  <2>4. CASE Outside /\ UNCHANGED <<pc, request, pool>>
    <3>1. FromCache /\ Key' = Key /\ Key \in Keys
      BY <1>0, <1>2, <2>1, <2>4, KeyOfTheBuild DEF FromCache, Key
    <3>2. cache'[Key] = cache[Key] \/ (cache[Key] # None /\ cache'[Key].parts = cache[Key].parts)
      <4>1. ASSUME NEW e \in Keys, cache' = [cache EXCEPT ![e] = None]
            PROVE  cache'[Key] = cache[Key]
        BY <1>0, <1>2, <3>1, <4>1 DEF IsWhole
      <4>2. CASE CacheOutOfDate
        BY <1>0, <1>2, <3>1, <4>2, OlderCache DEF IsWhole
      <4>3. ~ShareCore /\ ~ShareFailed /\ ~Cut
        BY <2>1, <2>4 DEF ShareCore, ShareFailed, Cut, End
      <4> QED
        BY <4>1, <4>2, <4>3, CacheSteps
    <3>3. IsWhole(Key)
      BY <1>2, <3>1, <3>2 DEF IsWhole
    <3>4. Key \notin doubtful
      <4>1. ~(RemoveExpired(Key) /\ cache' = [cache EXCEPT ![Key] = None])
        BY <1>0, <1>2, <3>1 DEF IsWhole
      <4>2. ~ShareCore
        BY <2>1, <2>4 DEF ShareCore
      <4> QED
        BY <1>2, <3>1, <4>1, <4>2, KeyDoubtStays
    <3>5. cache'[Key].parts = cache[Key].parts
      BY <3>2
    <3> QED
      BY <2>4, <3>1, <3>3, <3>4, <3>5 DEF CacheInv, CoreFits
  <2> QED
    BY <2>1, <2>2, <2>3, <2>4, Moves DEF From
<1> QED
  BY <1>1, <1>2 DEF CacheInv

-----------------------------------------------------------------------------
\* What is linked.
LinkInv == BaseInv /\ Present /\ VersionsInv /\ MainInv /\ PathInv /\ ArchiveInv /\ CacheInv /\ LinkedIsCurrent

\* The step that links, with the archive of the build path or with the shared one.
LEMMA LinkedParts ==
    ASSUME BaseInv, Present, MainInv, PathInv, ArchiveInv, CacheInv, Link, request.mode # "database",
           CoreFile # None, CoreFile.parts # Damaged, \A s \in Linkable : object[s] # None,
           NEW parts, parts = [s \in Linkable \cup DOMAIN CoreFile.parts |->
                                 IF s \in Linkable THEN object[s] ELSE CoreFile.parts[s]]
    PROVE  /\ parts[Main].ver >= request.content[Main]
           /\ Undoubted => /\ DOMAIN parts = Linkable \cup Core
                           /\ \A s \in DOMAIN parts : PartIsCurrent(s, parts[s])
<1>0. /\ PathTypes /\ AroundTypes /\ BuildTypes /\ PoolInv /\ pc = "link" /\ request \in RequestType
      /\ Core \subseteq Sources /\ Key \in Keys
  BY KeyOfTheBuild DEF BaseInv, Types, BuildTypes, Link, Core
<1>1. Settled /\ pool.folder \in {"core", "variant"} /\ Making
  BY <1>0 DEF PoolInv, InBuild, Making, Settled
<1>2. ASSUME NEW s \in Linkable PROVE s \in Sources /\ Handled(s) /\ s \notin Core
  <2>1. s \in Sources /\ FolderOf[s] \in {"sketch", "variant"} \cup request.uses
    BY <1>2, SourcesOfFolder DEF Linkable
  <2>2. request.uses \subseteq Libs
    BY <1>0 DEF RequestType
  <2> QED
    BY <1>0, <1>1, <2>1, <2>2, FoldersOf DEF Handled, Settled, Core
<1>3. Main \in Linkable
  BY SourcesOfFolder DEF Linkable
<1>4. parts[Main].ver >= request.content[Main]
  BY <1>1, <1>2, <1>3 DEF MainInv
<1>5. ASSUME Undoubted
      PROVE  /\ DOMAIN CoreFile.parts = Core /\ CoreFits(CoreFile.parts)
             /\ \A s \in Core : KeyOf[CoreFile.parts[s].opt] = Key
  <2>1. CASE pool.core = "path"
    <3>1. FromPath /\ CoreFile = archive
      BY <1>0, <2>1 DEF FromPath, CoreFile
    <3> QED
      BY <1>5, <3>1, SharedParts DEF Undoubted, Trusted, Key
  <2>2. CASE pool.core = "cache"
    <3>1. FromCache /\ CoreFile = cache[Key] /\ Key \notin doubtful /\ IsWhole(Key)
      BY <1>0, <1>5, <2>2 DEF FromCache, CoreFile, Undoubted, IsWhole
    <3> QED
      BY <1>0, <3>1 DEF CacheInv, CacheOK
  <2> QED
    BY <1>0, <2>1, <2>2 DEF PoolInv
<1>6. ASSUME Undoubted, NEW s \in Linkable
      PROVE  PartIsCurrent(s, parts[s])
  <2>1. Fits(s, object[s])
    BY <1>1, <1>2, <1>6 DEF PathInv, HandledOK, Undoubted, Trusted
  <2> QED
    BY <1>2, <2>1 DEF Fits, PartIsCurrent
<1>7. ASSUME Undoubted, NEW s \in Core
      PROVE  PartIsCurrent(s, parts[s])
  <2>1. s \notin Linkable /\ parts[s] = CoreFile.parts[s]
    BY <1>2, <1>5, <1>7
  <2>2. FolderOf[s] \notin Libs
    BY FoldersOf DEF Core
  <2> QED
    BY <1>5, <1>7, <2>1, <2>2 DEF PartIsCurrent, CoreFits
<1> QED
  BY <1>4, <1>5, <1>6, <1>7

LEMMA LinkStep ==
    ASSUME LinkInv, [Next]_vars
    PROVE  LinkedIsCurrent'
<1>0. BuildTypes
  BY DEF LinkInv, BaseInv, Types
<1>1. CASE Link /\ linked' # None /\ linked = None
  <2> DEFINE parts == [s \in Linkable \cup DOMAIN CoreFile.parts |->
                         IF s \in Linkable THEN object[s] ELSE CoreFile.parts[s]]
  <2>1. /\ request.mode # "database" /\ CoreFile # None /\ CoreFile.parts # Damaged
        /\ \A s \in Linkable : object[s] # None
        /\ linked' = [parts |-> parts, sound |-> Undoubted] /\ UNCHANGED request
    BY <1>1 DEF Link
  <2> HIDE DEF parts
  <2>2. /\ parts[Main].ver >= request.content[Main]
        /\ Undoubted => /\ DOMAIN parts = Linkable \cup Core
                        /\ \A s \in DOMAIN parts : PartIsCurrent(s, parts[s])
    BY <1>1, <2>1, LinkedParts DEF LinkInv, parts
  <2>3. linked'.parts = parts /\ linked'.sound = Undoubted
    BY <2>1
  <2> QED
    BY <2>1, <2>2, <2>3 DEF LinkedIsCurrent, Linkable, PartIsCurrent, Key
<1>2. CASE linked' # None /\ linked # None
  <2>1. pc = "idle"
    BY <1>0, <1>2 DEF BuildTypes
  <2>2. UNCHANGED <<linked, request>>
    BY <1>2, <2>1, RequestSteps DEF LinkInv, Start
  <2> QED
    BY <1>2, <2>2 DEF LinkInv, LinkedIsCurrent, Linkable, PartIsCurrent, Key
<1>3. linked' # None /\ linked = None => Link
  BY DEF Next, BuildStep, ToolFails, Around, vars, WipeBuildPath,
       CreateBuildOptions, PrepareSketch, FindIncludes, RemoveLibraries, BeginBuild, Feed, Take, Work, EndFolder,
       LookUpCore, OpenArchive, ShareCore, Compiled, Ar, ArFailed, ShareFailed, ToolFailed, CompileFailed,
       EditPlatform, Cut, EditSource, EditHeader, Edit, FindExpired, RemoveExpired, Start
<1> QED
  BY <1>1, <1>2, <1>3 DEF LinkedIsCurrent

LEMMA LinkInit ==
    ASSUME Init
    PROVE  LinkInv
<1>1. BaseInv
  BY BaseInit
<1>2. Present
  BY DEF Init, Present, Copied, Making, InBuild, FromCache
<1>3. VersionsInv
  BY DEF Init, VersionsInv
<1>4. pool.busy = <<>> /\ \A s \in Sources : object[s] = None
  BY PoolOfIdle DEF Init
<1>5. MainInv
  BY <1>4, EmptyFunction DEF Init, MainInv, Copied, Making, InBuild
<1>6. PathInv
  BY <1>4, EmptyFunction DEF Init, PathInv, OptionsOK, UsesOK, BusyOK, HandledOK, ObjectOK, AfterOptions, Detected, Making, InBuild
<1>7. ArchiveInv
  BY DEF Init, ArchiveInv, ArchiveOK, FromPath
<1>8. CacheInv
  BY DEF Init, CacheInv, IsWhole, FromCache
<1>9. LinkedIsCurrent
  BY DEF Init, LinkedIsCurrent
<1> QED
  BY <1>1, <1>2, <1>3, <1>5, <1>6, <1>7, <1>8, <1>9 DEF LinkInv

LEMMA LinkInvStep ==
    ASSUME LinkInv, [Next]_vars
    PROVE  LinkInv'
BY BaseStep, PresentStep, VersionsStep, MainStep, PathStep, ArchiveStep, CacheStep, LinkStep DEF LinkInv

\* What a build links is all that it needs, in no older version than when it began, built with
\* its options and include folders, if nothing is doubtful; the sketch is that even then.
THEOREM BuildLinksWhatIsCurrent == Spec => []LinkedIsCurrent
<1>1. Init => LinkInv
  BY LinkInit
<1>2. LinkInv /\ [Next]_vars => LinkInv'
  BY LinkInvStep
<1>3. LinkInv => LinkedIsCurrent
  BY DEF LinkInv
<1> QED
  BY <1>1, <1>2, <1>3, PTL DEF Spec
=============================================================================
