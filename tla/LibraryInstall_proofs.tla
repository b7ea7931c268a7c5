-------------------------- MODULE LibraryInstall_proofs --------------------------
(***************************************************************************)
(* Proofs about LibraryInstall, for any libraries, directories, releases   *)
(* and requests, and for whatever fails.                                   *)
(***************************************************************************)
EXTENDS LibraryInstall, FiniteSetTheorems, TLAPS

USE LibrariesOK, WorldsOK

-----------------------------------------------------------------------------
LibraryType == [lib : Libs, v : Nat, whole : BOOLEAN]
IsWhole(x) == x \in LibraryType /\ x.whole
Entries == Dirs \X Libs \X Nat
Items   == [rel : Libs \X Nat, old : SUBSET Entries]
Results == {"none", "ok", "refused", "fetch", "unpack", "move", "remove", "killed"}

JobType == [at : {"idle", "check", "remove", "unpack"}, op : Ops, noOverwrite : BOOLEAN,
            toInstall : SUBSET (Libs \X Nat), unchecked : SUBSET (Libs \X Nat), plan : SUBSET Items,
            now : Items \cup {None}, rescanned : Libs \cup {None}, result : Results]

\* What is still to be installed: before its old release has been removed, and in all.
Pending(j) == j.plan \cup (IF j.at = "remove" THEN {j.now} ELSE {})
Open(j)    == j.plan \cup (IF j.at \in {"remove", "unpack"} THEN {j.now} ELSE {})
Goal(p)    == DirOf[p.rel[1]]

\* An item of the plan was made from the directories b as they were when the request began:
\* it replaces the one release there is, and goes where nothing else is.
PlanOK(p, j, b) ==
    /\ p \in Items /\ p.rel \in j.toInstall \ j.unchecked
    /\ \A e, f \in p.old : e = f
    /\ \A e \in p.old : e[2] = p.rel[1] /\ e \in Scan(b)
    /\ b[Goal(p)] = None \/ \E e \in p.old : e[1] = Goal(p)
    /\ j.noOverwrite => p.old = {}

RequestOK(j, b) ==
    /\ j.at = "idle" => j.unchecked = {} /\ j.plan = {}
    /\ j.at # "idle" =>
        /\ j.op # "uninstall" /\ j.result = "none" /\ j.unchecked \subseteq j.toInstall
        /\ \A x, y \in j.toInstall : x[1] = y[1] => x = y
        /\ j.op = "import" => \A x, y \in j.toInstall : x = y
        /\ \A p, q \in j.plan : p.rel = q.rel => p = q
        /\ \A p \in Open(j) : PlanOK(p, j, b)
        /\ j.at \in {"remove", "unpack"} => j.unchecked = {} /\ \A p \in j.plan : p.rel # j.now.rel

\* What the directories and the list have to do with the plan, with f on disk.
DiskOK(j, f, b) ==
    /\ j.at # "idle" /\ j.unchecked # {} => f = b
    /\ \A p \in Pending(j) : /\ \A e \in p.old : f[e[1]] = b[e[1]]
                             /\ \A d \in Whole(f, p.rel[1]) : \E e \in p.old : e[1] = d
    /\ j.at = "unpack" => Whole(f, j.now.rel[1]) = {}
    /\ \A p \in Open(j) : IsWhole(f[Goal(p)]) =>
                              \E r \in j.toInstall : f[Goal(p)].lib = r[1]
    /\ j.result = "refused" => f = b
    /\ j.noOverwrite => \A d \in Dirs : b[d] # None => f[d] = b[d]

OneEach(f) == \A l \in Libs : \A c, d \in Whole(f, l) : c = d

\* What is listed was there when the request made its plan, and is nothing else now.
ListOK(k, j, f, b) ==
    /\ Open(j) # {} => k \subseteq Scan(b)
    /\ \A e \in k : IsWhole(f[e[1]]) => f[e[1]].lib = e[2]

SafeInv ==
    /\ world \in Worlds /\ requests \in Nat /\ upgrading \subseteq Libs
    /\ disk \in [Dirs -> Contents] /\ before \in [Dirs -> Contents] /\ known \subseteq Entries
    /\ job \in JobType /\ RequestOK(job, before)
    /\ DiskOK(job, disk, before) /\ OneEach(disk) /\ ListOK(known, job, disk, before)

-----------------------------------------------------------------------------
\* As long as no two libraries of the request collide: what has been checked is in the plan, or
\* in place where nothing of the plan will touch it.
Placed(r, j, f) ==
    \E d \in Holds(f, r[1]) : /\ f[d].v = Version(r)
                              /\ \A p \in Open(j) : Goal(p) # d /\ \A e \in p.old : e[1] # d

ApartOK(j, f, b) ==
    /\ \A r \in j.toInstall \ j.unchecked : (\E p \in Open(j) : p.rel = r) \/ Placed(r, j, f)
    /\ \A p \in Pending(j) : f[Goal(p)] = b[Goal(p)]
    /\ j.at = "unpack" => f[Goal(j.now)] = None
    /\ \A l \in Libs : Whole(b, l) # {} => Whole(f, l) # {} \/ (j.at = "unpack" /\ l = j.now.rel[1])

ApartInv ==
    ~Collide =>
        /\ job.at # "idle" => ApartOK(job, disk, before)
        /\ job.at = "idle" /\ job.op # "uninstall" /\ job.result = "ok" =>
               \A r \in job.toInstall : \E d \in Holds(disk, r[1]) : disk[d].v = Version(r)
        /\ job.result = "fetch" => \A l \in Libs : Whole(before, l) # {} => Whole(disk, l) # {}

\* As long as nothing fails: the list is that of the directories, but for what an installation
\* does until it ends with an Init; an import has no later scan that could replace its entry.
ListInv == world.fails = {} =>
    /\ job.at = "idle" \/ job.op = "import" => known \subseteq Scan(disk)
    /\ job.op = "import" => \A p \in Pending(job) : job.rescanned = p.rel[1]

RequestInv == SafeInv /\ ApartInv /\ ListInv

-----------------------------------------------------------------------------
\* The data.
LEMMA Pairs == \A r \in Libs \X Nat : r[1] \in Libs /\ Version(r) \in Nat /\ DirOf[r[1]] \in Dirs
BY DEF Version

LEMMA Released == \A r \in Releases : r \in Libs \X Nat /\ r[1] \in Libs
OBVIOUS

LEMMA ContentsAre ==
    /\ \A x \in Contents : x \in {None, Junk} \/ x \in LibraryType
    /\ None \notin LibraryType /\ Junk \notin LibraryType
    /\ None \in Contents /\ Junk \in Contents /\ LibraryType \subseteq Contents
BY DEF Contents, LibraryType

LEMMA LibraryIs ==
    ASSUME NEW l \in Libs, NEW v \in Nat, NEW w \in BOOLEAN
    PROVE  /\ Library(l, v, w) \in LibraryType /\ Library(l, v, w).lib = l
           /\ Library(l, v, w).v = v /\ Library(l, v, w).whole = w
           /\ [Library(l, v, w) EXCEPT !.whole = FALSE] \in LibraryType
           /\ [Library(l, v, w) EXCEPT !.whole = FALSE].whole = FALSE
BY DEF Library, LibraryType

LEMMA ScanEntry ==
    ASSUME NEW f \in [Dirs -> Contents], NEW e \in Scan(f)
    PROVE  /\ e[1] \in Dirs /\ f[e[1]] \in LibraryType /\ e[2] = f[e[1]].lib /\ e[3] = f[e[1]].v
           /\ e \in Entries /\ e = <<e[1], e[2], e[3]>>
<1>1. PICK d \in Dirs : f[d] \notin {None, Junk} /\ e = <<d, f[d].lib, f[d].v>>
  BY DEF Scan
<1>2. f[d] \in LibraryType
  BY <1>1, ContentsAre
<1> QED
  BY <1>1, <1>2 DEF LibraryType, Entries

LEMMA EntryOf ==
    ASSUME NEW f \in [Dirs -> Contents], NEW d \in Dirs, f[d] \in LibraryType
    PROVE  <<d, f[d].lib, f[d].v>> \in Scan(f)
BY ContentsAre DEF Scan

LEMMA WholeIs ==
    ASSUME NEW f \in [Dirs -> Contents], NEW l
    PROVE  Whole(f, l) = {d \in Dirs : IsWhole(f[d]) /\ f[d].lib = l}
BY ContentsAre DEF Whole, Holds, IsWhole

LEMMA HoldsIs ==
    ASSUME NEW f \in [Dirs -> Contents], NEW l
    PROVE  Holds(f, l) = {d \in Dirs : f[d] \in LibraryType /\ f[d].lib = l}
BY ContentsAre DEF Holds

LEMMA ScanFinite ==
    ASSUME NEW f \in [Dirs -> Contents]
    PROVE  IsFiniteSet(Scan(f))
<1> DEFINE S == {d \in Dirs : f[d] \notin {None, Junk}}
           entry == [d \in S |-> <<d, f[d].lib, f[d].v>>]
<1>1. IsFiniteSet(S)
  BY FS_Subset
<1>2. entry \in Surjection(S, Scan(f))
  <2>1. \A e \in Scan(f) : \E d \in S : entry[d] = e
    BY DEF Scan
  <2>2. entry \in [S -> Scan(f)]
    BY DEF Scan
  <2> QED
    BY <2>1, <2>2 DEF Surjection
<1> QED
  BY <1>1, <1>2, FS_Surjection

\* A set that has no more than one element.
LEMMA AtMostOne ==
    ASSUME NEW S, IsFiniteSet(S)
    PROVE  Cardinality(S) <= 1 <=> \A x, y \in S : x = y
<1>1. ASSUME NEW x \in S, NEW y \in S, x # y PROVE Cardinality(S) > 1
  <2>1. IsFiniteSet({x}) /\ Cardinality({x}) = 1
    BY FS_Singleton
  <2>2. Cardinality({x} \cup {y}) = Cardinality({x}) + 1
    BY <1>1, <2>1, FS_AddElement
  <2>3. Cardinality({x} \cup {y}) <= Cardinality(S)
    BY <1>1, FS_Subset
  <2>4. Cardinality(S) \in Nat
    BY FS_CardinalityType
  <2> DEFINE n == Cardinality({x} \cup {y})
             m == Cardinality(S)
  <2>5. n = Cardinality({x}) + 1
    BY <2>2
  <2>6. n <= m /\ m \in Nat
    BY <2>3, <2>4
  <2> HIDE DEF n, m
  <2>7. m > 1
    BY <2>1, <2>5, <2>6
  <2> QED
    BY <2>7 DEF m
<1>2. ASSUME \A x, y \in S : x = y PROVE Cardinality(S) <= 1
  <2>1. S = {} \/ \E x : S = {x}
    BY <1>2
  <2> QED
    BY <2>1, FS_EmptySet, FS_Singleton
<1>3. Cardinality(S) \in Nat
  BY FS_CardinalityType
<1> QED
  BY <1>1, <1>2, <1>3

-----------------------------------------------------------------------------
\* What the updates of the job change.
IsAsked(k, op, S, noOverwrite) ==
    /\ k \in JobType /\ k.at = "check" /\ k.op = op /\ k.noOverwrite = noOverwrite
    /\ k.toInstall = S /\ k.unchecked = S /\ k.plan = {} /\ k.result = "none"

Same(k, j) ==
    /\ k \in JobType /\ k.op = j.op /\ k.noOverwrite = j.noOverwrite /\ k.toInstall = j.toInstall
    /\ k.result = j.result

IsChecked(k, j, r) ==
    /\ Same(k, j) /\ k.at = j.at /\ k.unchecked = j.unchecked \ {r} /\ k.plan = j.plan

IsPlanned(k, j, r, old) ==
    /\ Same(k, j) /\ k.at = j.at /\ k.unchecked = j.unchecked \ {r} /\ k.rescanned = r[1]
    /\ k.plan = j.plan \cup {[rel |-> r, old |-> old]}

IsTaking(k, j, p) ==
    /\ Same(k, j) /\ k.at = "remove" /\ k.unchecked = j.unchecked /\ k.rescanned = j.rescanned
    /\ k.plan = j.plan \ {p} /\ k.now = p

IsAt(k, j, l) ==
    /\ Same(k, j) /\ k.at = l /\ k.unchecked = j.unchecked /\ k.rescanned = j.rescanned
    /\ k.plan = j.plan /\ k.now = j.now

IsEnded(k, j, result) ==
    /\ k \in JobType /\ k.at = "idle" /\ k.op = j.op /\ k.noOverwrite = j.noOverwrite
    /\ k.toInstall = j.toInstall /\ k.result = result /\ k.unchecked = {} /\ k.plan = {}

LEMMA IdleJob ==
    /\ Idle \in JobType /\ Idle.at = "idle" /\ Idle.unchecked = {} /\ Idle.plan = {}
    /\ Idle.result = "none" /\ ~Idle.noOverwrite
BY DEF Idle, JobType, Ops, Results

LEMMA AskedJob ==
    ASSUME NEW op \in Ops, NEW S \in SUBSET (Libs \X Nat), NEW noOverwrite \in BOOLEAN
    PROVE  IsAsked(Asks(op, S, noOverwrite), op, S, noOverwrite)
BY DEF Asks, IsAsked, Idle, JobType, Results

LEMMA CheckedJob ==
    ASSUME NEW j \in JobType, NEW r \in Libs \X Nat
    PROVE  IsChecked(Checks(j, r), j, r)
<1>1. r[1] \in Libs
  BY Pairs
<1> QED
  BY <1>1 DEF Checks, IsChecked, Same, JobType

LEMMA PlannedJob ==
    ASSUME NEW j \in JobType, NEW r \in Libs \X Nat, NEW old \in SUBSET Entries
    PROVE  IsPlanned(Plans(j, r, old), j, r, old)
<1>1. r[1] \in Libs /\ [rel |-> r, old |-> old] \in Items
  BY Pairs DEF Items
<1> QED
  BY <1>1 DEF Plans, IsPlanned, Same, JobType

LEMMA TakingJob ==
    ASSUME NEW j \in JobType, NEW p \in j.plan
    PROVE  IsTaking(Takes(j, p), j, p)
BY DEF Takes, IsTaking, Same, JobType

LEMMA ReachedJob ==
    ASSUME NEW j \in JobType, NEW l \in {"check", "remove", "unpack"}
    PROVE  IsAt(GoesTo(j, l), j, l)
BY DEF GoesTo, IsAt, Same, JobType

LEMMA EndedJob ==
    ASSUME NEW j \in JobType, NEW result \in Results
    PROVE  IsEnded(Ends(j, result), j, result)
BY DEF Ends, IsEnded, Idle, JobType

-----------------------------------------------------------------------------
\* The end of a request: what it leaves is in the directories and in the list.
LEMMA EndSafe ==
    ASSUME SafeInv, NEW result \in Results, IsEnded(job', job, result),
           world' = world, requests' = requests, upgrading' \subseteq Libs, before' = before,
           disk' \in [Dirs -> Contents], known' \subseteq Entries,
           \A d \in Dirs : disk'[d] = disk[d] \/ ~IsWhole(disk'[d]),
           result = "refused" => disk' = before,
           job.noOverwrite => \A d \in Dirs : before[d] # None => disk'[d] = before[d],
           known' \subseteq known \/ known' = Scan(disk')
    PROVE  SafeInv'
<1>1. RequestOK(job', before')
  BY DEF IsEnded, RequestOK
<1>2. DiskOK(job', disk', before')
  BY DEF IsEnded, DiskOK, Pending, Open
<1>3. OneEach(disk')
  <2>1. \A l : Whole(disk', l) \subseteq Whole(disk, l)
    BY WholeIs DEF SafeInv
  <2> QED
    BY <2>1 DEF SafeInv, OneEach
<1>4. \A e \in known' : IsWhole(disk'[e[1]]) => disk'[e[1]].lib = e[2]
  <2> TAKE e \in known'
  <2>1. CASE e \in Scan(disk')
    BY <2>1, ScanEntry
  <2>2. CASE e \in known
    <3>1. e[1] \in Dirs
      BY <2>2 DEF SafeInv, Entries
    <3> QED
      BY <2>2, <3>1 DEF SafeInv, ListOK
  <2> QED
    BY <2>1, <2>2
<1>5. ListOK(known', job', disk', before')
  BY <1>4 DEF ListOK, IsEnded, Open
<1>6. job' \in JobType
  BY DEF IsEnded
<1> QED
  BY <1>1, <1>2, <1>3, <1>5, <1>6 DEF SafeInv

\* A request begins: nothing has been touched yet.
LEMMA BeginSafe ==
    ASSUME SafeInv, NEW op \in Ops \ {"uninstall"}, NEW S \in SUBSET Releases, NEW noOverwrite \in BOOLEAN,
           \A x, y \in S : x[1] = y[1] => x = y, op = "import" => \A x, y \in S : x = y,
           IsAsked(job', op, S, noOverwrite), before' = disk,
           UNCHANGED <<world, disk, known>>, requests' \in Nat, upgrading' \subseteq Libs
    PROVE  SafeInv'
<1>1. RequestOK(job', before')
  BY DEF IsAsked, RequestOK, Open
<1>2. DiskOK(job', disk', before')
  BY DEF IsAsked, DiskOK, Open, Pending
<1>3. ListOK(known', job', disk', before')
  BY DEF ListOK, IsAsked, Open, SafeInv
<1>4. job' \in JobType
  BY DEF IsAsked
<1> QED
  BY <1>1, <1>2, <1>3, <1>4 DEF SafeInv

LEMMA ResolvesOnce ==
    ASSUME NEW r \in Releases, NEW overrides, NEW S \in Resolve(r, overrides)
    PROVE  S \in SUBSET Releases /\ \A x, y \in S : x[1] = y[1] => x = y
BY DEF Resolve, Solves

LEMMA AsksSafe ==
    ASSUME SafeInv, Install \/ UpgradeNext \/ Import
    PROVE  SafeInv'
<1>0. Releases \subseteq Libs \X Nat
  BY Released
<1>1. CASE Install
  <2>1. PICK r \in Releases, noDeps \in BOOLEAN, noOverwrite \in BOOLEAN :
            \E S \in (IF noDeps THEN {{r}} ELSE Resolve(r, IF noOverwrite THEN Installed ELSE {})) :
                Begin("install", S, noOverwrite)
    BY <1>1 DEF Install
  <2>2. PICK S : /\ S \in (IF noDeps THEN {{r}} ELSE Resolve(r, IF noOverwrite THEN Installed ELSE {}))
                 /\ Begin("install", S, noOverwrite)
    BY <2>1
  <2>3. S \in SUBSET Releases /\ \A x, y \in S : x[1] = y[1] => x = y
    <3>1. CASE noDeps
      BY <2>2, <3>1
    <3>2. CASE ~noDeps
      BY <2>2, <3>2, ResolvesOnce
    <3> QED
      BY <3>1, <3>2
  <2>4. IsAsked(job', "install", S, noOverwrite) /\ before' = disk
    BY <1>0, <2>2, <2>3, AskedJob DEF Begin, Ops
  <2>5. "install" \in Ops \ {"uninstall"} /\ requests' \in Nat /\ upgrading' \subseteq Libs
    BY <1>1 DEF Install, NewRequest, SafeInv, Ops
  <2>6. UNCHANGED <<world, disk, known>>
    BY <1>1 DEF Install
  <2> QED
    BY <2>3, <2>4, <2>5, <2>6, BeginSafe
<1>2. CASE UpgradeNext
  <2>0. PICK r \in Releases : \E S \in Resolve(r, {}) : Begin("upgrade", S, FALSE)
    BY <1>2 DEF UpgradeNext, Latest, ReleasesOf
  <2>1. PICK S \in Resolve(r, {}) : Begin("upgrade", S, FALSE)
    BY <2>0
  <2>2. S \in SUBSET Releases /\ \A x, y \in S : x[1] = y[1] => x = y
    BY <2>1, ResolvesOnce DEF Latest, ReleasesOf
  <2>3. IsAsked(job', "upgrade", S, FALSE) /\ before' = disk
    BY <1>0, <2>1, <2>2, AskedJob DEF Begin, Ops
  <2>4. "upgrade" \in Ops \ {"uninstall"} /\ requests' \in Nat /\ upgrading' \subseteq Libs
    BY <1>2, <2>1 DEF UpgradeNext, SafeInv, Ops
  <2>5. UNCHANGED <<world, disk, known>>
    BY <1>2 DEF UpgradeNext
  <2> QED
    BY <2>2, <2>3, <2>4, <2>5, BeginSafe
<1>3. CASE Import
  <2>1. PICK r \in Releases, overwrite \in BOOLEAN : Begin("import", {r}, ~overwrite)
    BY <1>3 DEF Import
  <2>2. IsAsked(job', "import", {r}, ~overwrite) /\ before' = disk
    BY <1>0, <2>1, AskedJob DEF Begin, Ops
  <2>3. "import" \in Ops \ {"uninstall"} /\ requests' \in Nat /\ upgrading' \subseteq Libs
    BY <1>3 DEF Import, NewRequest, SafeInv, Ops
  <2>4. UNCHANGED <<world, disk, known>> /\ {r} \in SUBSET Releases
    BY <1>3 DEF Import
  <2> QED
    BY <2>2, <2>3, <2>4, BeginSafe
<1> QED
  BY <1>1, <1>2, <1>3

-----------------------------------------------------------------------------
\* A request that has an error, or is through.
LEMMA ErrorSafe ==
    ASSUME SafeInv, NEW result \in Results, Error(result), UNCHANGED <<world, requests, before>>,
           disk' \in [Dirs -> Contents], known' \subseteq Entries,
           \A d \in Dirs : disk'[d] = disk[d] \/ ~IsWhole(disk'[d]),
           result = "refused" => disk' = before,
           job.noOverwrite => \A d \in Dirs : before[d] # None => disk'[d] = before[d],
           known' \subseteq known \/ known' = Scan(disk')
    PROVE  SafeInv'
<1>1. IsEnded(job', job, result)
  BY EndedJob DEF Error, SafeInv
<1>2. upgrading' \subseteq Libs
  BY DEF Error, SafeInv
<1> QED
  BY <1>1, <1>2, EndSafe

\* What a check finds.
LEMMA ScanIs ==
    ASSUME SafeInv
    PROVE  Scan(disk) \subseteq Entries /\ IsFiniteSet(Scan(disk))
BY ScanEntry, ScanFinite DEF SafeInv

LEMMA CheckCases ==
    ASSUME SafeInv, NEW r \in job.unchecked, Check(r)
    PROVE  LET old == {e \in Scan(disk) : e[2] = r[1]} IN
           \/ Error("refused")
           \/ /\ \A x, y \in old : x = y
              /\ disk[DirOf[r[1]]] = None \/ \E e \in old : e[1] = DirOf[r[1]]
              /\ UNCHANGED upgrading
              /\ \/ job.op # "import" /\ UpToDate(old, r) /\ IsChecked(job', job, r)
                 \/ MayReplace(old, r) /\ IsPlanned(job', job, r, old)
<1> DEFINE old == {e \in Scan(disk) : e[2] = r[1]}
<1>1. old \in SUBSET Entries /\ IsFiniteSet(old)
  BY ScanIs, FS_Subset
<1>2. Cardinality(old) \in Nat
  BY <1>1, FS_CardinalityType
<1>3. ~(Cardinality(old) > 1) => \A x, y \in old : x = y
  BY <1>1, <1>2, AtMostOne
<1>4. r \in Libs \X Nat /\ job \in JobType
  BY DEF SafeInv, JobType
<1>5. IsChecked(Checks(job, r), job, r)
  BY <1>4, CheckedJob
<1>6. IsPlanned(Plans(job, r, old), job, r, old)
  BY <1>1, <1>4, PlannedJob
<1>7. \/ Error("refused")
      \/ /\ ~(Cardinality(old) > 1) /\ TargetIsOurs(old, DirOf[r[1]]) /\ UNCHANGED upgrading
         /\ \/ job.op # "import" /\ UpToDate(old, r) /\ job' = Checks(job, r)
            \/ MayReplace(old, r) /\ job' = Plans(job, r, old)
  BY DEF Check
<1> QED
  BY <1>3, <1>5, <1>6, <1>7 DEF TargetIsOurs

LEMMA CheckSafe ==
    ASSUME SafeInv, NEW r \in job.unchecked, Check(r)
    PROVE  SafeInv'
<1> DEFINE old == {e \in Scan(disk) : e[2] = r[1]}
<1>0. /\ job.at = "check" /\ known' = Scan(disk) /\ UNCHANGED <<world, requests, disk, before>>
      /\ known' \subseteq Entries /\ disk \in [Dirs -> Contents] /\ disk = before
      /\ r \in Libs \X Nat /\ r \in job.toInstall
  BY ScanIs DEF Check, SafeInv, JobType, DiskOK, RequestOK
<1>1. CASE Error("refused")
  <2>1. job.noOverwrite => \A d \in Dirs : before[d] # None => disk'[d] = before[d]
    BY <1>0
  <2>2. "refused" \in Results
    BY DEF Results
  <2> QED
    BY <1>0, <1>1, <2>1, <2>2, ErrorSafe
<1>2. CASE ~Error("refused")
  <2>1. /\ \A x, y \in old : x = y
        /\ disk[DirOf[r[1]]] = None \/ \E e \in old : e[1] = DirOf[r[1]]
        /\ UNCHANGED upgrading
        /\ IsChecked(job', job, r) \/ (MayReplace(old, r) /\ IsPlanned(job', job, r, old))
    BY <1>2, CheckCases
  <2> DEFINE new == [rel |-> r, old |-> old]
  <2>2. /\ Same(job', job) /\ job'.at = "check" /\ job'.unchecked = job.unchecked \ {r}
        /\ job'.plan \subseteq job.plan \cup {new}
        /\ new \in job'.plan => MayReplace(old, r) \/ new \in job.plan
    BY <1>0, <2>1 DEF IsChecked, IsPlanned
  <2>3. new \in Items /\ new.rel = r /\ new.old = old
    BY <1>0, ScanIs DEF Items
  <2>4. Open(job) = job.plan /\ Open(job') = job'.plan /\ Pending(job') = job'.plan /\ Pending(job) = job.plan
    BY <1>0, <2>2 DEF Open, Pending
  <2>5. \A p \in job.plan : p.rel # r
    BY <1>0, <2>4 DEF SafeInv, RequestOK, PlanOK
  <2>6. \A p \in job'.plan : PlanOK(p, job', before)
    <3> TAKE p \in job'.plan
    <3>1. CASE p \in job.plan
      BY <1>0, <2>2, <2>4, <2>5, <3>1 DEF SafeInv, RequestOK, PlanOK, Same
    <3>2. CASE p = new /\ p \notin job.plan
      <4>1. job'.noOverwrite => old = {}
        BY <2>2, <3>2 DEF MayReplace, Same
      <4>2. p.rel \in job'.toInstall \ job'.unchecked
        BY <1>0, <2>2, <2>3, <3>2 DEF Same
      <4> QED
        BY <1>0, <2>1, <2>3, <3>2, <4>1, <4>2 DEF PlanOK, Goal
    <3> QED
      BY <2>2, <3>1, <3>2
  <2>7. RequestOK(job', before')
    <3>1. \A p, q \in job'.plan : p.rel = q.rel => p = q
      BY <1>0, <2>2, <2>3, <2>5 DEF SafeInv, RequestOK
    <3> QED
      BY <1>0, <2>2, <2>4, <2>6, <3>1 DEF SafeInv, RequestOK, Same
  <2>8. DiskOK(job', disk', before')
    <3>1. \A p \in job'.plan : \A d \in Whole(disk, p.rel[1]) : \E e \in p.old : e[1] = d
      <4> TAKE p \in job'.plan
      <4>1. CASE p \in job.plan
        BY <2>4, <4>1 DEF SafeInv, DiskOK
      <4>2. CASE p = new
        <5> TAKE d \in Whole(disk, p.rel[1])
        <5>1. d \in Dirs /\ disk[d] \in LibraryType /\ disk[d].lib = r[1]
          BY <1>0, <2>3, <4>2, WholeIs DEF IsWhole
        <5>2. <<d, disk[d].lib, disk[d].v>> \in old
          BY <1>0, <5>1, EntryOf
        <5>3. <<d, disk[d].lib, disk[d].v>>[1] = d
          OBVIOUS
        <5> QED
          BY <2>3, <4>2, <5>2, <5>3
      <4> QED
        BY <2>2, <4>1, <4>2
    <3>2. \A p \in job'.plan : IsWhole(disk[Goal(p)]) => \E x \in job'.toInstall : disk[Goal(p)].lib = x[1]
      <4> TAKE p \in job'.plan
      <4>1. PlanOK(p, job', before)
        BY <2>6
      <4>2. CASE disk[Goal(p)] = None
        BY <4>2, ContentsAre DEF IsWhole
      <4>3. CASE \E e \in p.old : e[1] = Goal(p)
        BY <1>0, <4>1, <4>3, ScanEntry DEF PlanOK
      <4> QED
        BY <1>0, <4>1, <4>2, <4>3 DEF PlanOK
    <3> QED
      BY <1>0, <2>2, <2>4, <3>1, <3>2 DEF DiskOK, Same, SafeInv, RequestOK
  <2>9. ListOK(known', job', disk', before')
    BY <1>0, ScanEntry DEF ListOK
  <2> QED
    BY <1>0, <2>1, <2>2, <2>7, <2>8, <2>9 DEF SafeInv, Same
<1> QED
  BY <1>1, <1>2

-----------------------------------------------------------------------------
\* Two items of the plan replace different directories, and none goes where another one's
\* old library is.
LEMMA ItemsApart ==
    ASSUME SafeInv, NEW p, NEW q, PlanOK(p, job, before), PlanOK(q, job, before),
           job.at # "idle", p.rel # q.rel
    PROVE  /\ p.rel[1] # q.rel[1]
           /\ \A e \in p.old : \A f \in q.old : e[1] # f[1]
           /\ \A f \in q.old : f[1] # Goal(p)
<1>1. p.rel[1] # q.rel[1]
  BY DEF PlanOK, SafeInv, RequestOK
<1>2. \A e \in p.old : e[2] = before[e[1]].lib /\ e[2] = p.rel[1]
  BY ScanEntry DEF PlanOK, SafeInv
<1>3. \A f \in q.old : f[2] = before[f[1]].lib /\ f[2] = q.rel[1] /\ before[f[1]] # None
  BY ScanEntry, ContentsAre DEF PlanOK, SafeInv
<1>4. \A e \in p.old : \A f \in q.old : e[1] # f[1]
  BY <1>1, <1>2, <1>3
<1>5. \A f \in q.old : f[1] # Goal(p)
  BY <1>3, <1>4 DEF PlanOK
<1> QED
  BY <1>1, <1>4, <1>5

\* The item that is being installed.
LEMMA NowIs ==
    ASSUME SafeInv, job.at \in {"remove", "unpack"}
    PROVE  /\ PlanOK(job.now, job, before) /\ job.unchecked = {} /\ job.result = "none"
           /\ job.now.rel \in job.toInstall /\ Target = Goal(job.now) /\ Target \in Dirs
           /\ job.now.rel[1] \in Libs /\ Version(job.now.rel) \in Nat
           /\ job.now.rel \in Libs \X Nat /\ Old \in SUBSET Entries /\ Open(job) # {}
           /\ \A q \in job.plan : PlanOK(q, job, before) /\ q.rel # job.now.rel
           /\ \A q \in job.plan \cup {job.now} : q \in Open(job)
           /\ New \in LibraryType /\ New.lib = job.now.rel[1] /\ New.whole /\ New \in Contents
           /\ New.v = Version(job.now.rel)
<1>1. job.now \in Open(job) /\ job.at # "idle" /\ job.plan \subseteq Open(job)
  BY DEF Open
<1>2. PlanOK(job.now, job, before) /\ job.now.rel \in job.toInstall /\ job.now.rel \in Libs \X Nat
      /\ Old \in SUBSET Entries
  BY <1>1 DEF SafeInv, RequestOK, PlanOK, Items, Old
<1>3. Target = Goal(job.now) /\ Target \in Dirs /\ job.now.rel[1] \in Libs /\ Version(job.now.rel) \in Nat
  BY <1>2, Pairs DEF Target, Goal
<1>4. New \in LibraryType /\ New.lib = job.now.rel[1] /\ New.whole /\ New.v = Version(job.now.rel)
  BY <1>3 DEF New, Library, LibraryType
<1> QED
  BY <1>1, <1>2, <1>3, <1>4, ContentsAre DEF SafeInv, RequestOK

LEMMA ListSafe ==
    ASSUME SafeInv, ListUpdatable
    PROVE  SafeInv'
<1>1. \A e \in known : e[2] \in Libs
  BY DEF SafeInv, Entries
<1>2. upgrading' \subseteq Libs
  BY <1>1 DEF ListUpdatable
<1>3. requests' \in Nat /\ UNCHANGED <<world, disk, known, job, before>>
  BY DEF ListUpdatable, NewRequest, SafeInv
<1> QED
  BY <1>2, <1>3 DEF SafeInv

LEMMA DownloadSafe ==
    ASSUME SafeInv, NEW p \in job.plan, Download(p)
    PROVE  SafeInv'
<1>0. job.at = "check" /\ job.unchecked = {} /\ UNCHANGED <<world, requests, disk, known, before>>
  BY DEF Download, AllChecked
<1>1. CASE Error("fetch")
  <2>1. "fetch" \in Results /\ known' \subseteq known /\ known' \subseteq Entries
    BY <1>0 DEF Results, SafeInv
  <2> QED
    BY <1>0, <1>1, <2>1, ErrorSafe DEF SafeInv, DiskOK
<1>2. CASE job' = Takes(job, p) /\ UNCHANGED upgrading
  <2>1. IsTaking(job', job, p)
    BY <1>2, TakingJob DEF SafeInv
  <2>2. Open(job') = Open(job) /\ Pending(job') = Pending(job)
    BY <1>0, <2>1 DEF IsTaking, Open, Pending
  <2>3. \A q \in Open(job) : PlanOK(q, job', before)
    BY <1>0, <2>1 DEF SafeInv, RequestOK, PlanOK, IsTaking, Same
  <2>4. \A q \in job'.plan : q.rel # job'.now.rel
    BY <1>0, <2>1 DEF SafeInv, RequestOK, IsTaking
  <2>5. RequestOK(job', before')
    BY <1>0, <2>1, <2>2, <2>3, <2>4 DEF SafeInv, RequestOK, IsTaking, Same
  <2>6. DiskOK(job', disk', before')
    <3>1. /\ job'.unchecked = {} /\ job'.at # "unpack" /\ job'.toInstall = job.toInstall
          /\ job'.result = job.result /\ job'.noOverwrite = job.noOverwrite
      BY <1>0, <2>1 DEF IsTaking, Same
    <3>2. DiskOK(job, disk, before) /\ disk' = disk /\ before' = before
      BY <1>0 DEF SafeInv
    <3>3. \A q \in Pending(job') : /\ \A e \in q.old : disk'[e[1]] = before'[e[1]]
                                  /\ \A d \in Whole(disk', q.rel[1]) : \E e \in q.old : e[1] = d
      BY <2>2, <3>2 DEF DiskOK
    <3>4. \A q \in Open(job') : IsWhole(disk'[Goal(q)]) =>
                                  \E x \in job'.toInstall : disk'[Goal(q)].lib = x[1]
      BY <2>2, <3>1, <3>2 DEF DiskOK
    <3>5. /\ job'.result = "refused" => disk' = before'
          /\ job'.noOverwrite => \A d \in Dirs : before'[d] # None => disk'[d] = before'[d]
      BY <3>1, <3>2 DEF DiskOK
    <3> QED
      BY <3>1, <3>3, <3>4, <3>5, Zenon DEF DiskOK
  <2>7. ListOK(known', job', disk', before')
    BY <1>0, <2>2 DEF SafeInv, ListOK
  <2> QED
    BY <1>0, <1>2, <2>1, <2>5, <2>6, <2>7 DEF SafeInv, IsTaking, Same
<1> QED
  BY <1>1, <1>2 DEF Download

\* What a removal or a copy that stops leaves in the directory is no whole library.
LEMMA RemainsIn ==
    ASSUME SafeInv, NEW e \in Entries, RemovesInPart(e)
    PROVE  /\ disk' \in [Dirs -> Contents]
           /\ \A d \in Dirs : disk'[d] = disk[d] \/ (d = e[1] /\ ~IsWhole(disk'[d]))
<1>1. e[1] \in Dirs
  BY DEF Entries
<1>2. disk[e[1]] \in LibraryType
  BY <1>1, ContentsAre DEF RemovesInPart, SafeInv
<1>3. [disk[e[1]] EXCEPT !.whole = FALSE] \in LibraryType
      /\ ~[disk[e[1]] EXCEPT !.whole = FALSE].whole
  BY <1>2 DEF LibraryType
<1>4. \A l \in {LegacyName[e[1]]} \ {None} : Library(l, Unversioned, FALSE) \in LibraryType
                                             /\ ~Library(l, Unversioned, FALSE).whole
  <2>1. \A l \in {LegacyName[e[1]]} \ {None} : l \in Libs
    BY <1>1
  <2> QED
    BY <2>1, LibraryIs DEF Unversioned
<1>5. \A x \in Remains(e[1]) : x \in Contents /\ ~IsWhole(x)
  <2> TAKE x \in Remains(e[1])
  <2>1. CASE x = Junk
    BY <2>1, ContentsAre DEF IsWhole
  <2>2. CASE x = [disk[e[1]] EXCEPT !.whole = FALSE]
    BY <1>3, <2>2, ContentsAre DEF IsWhole
  <2>3. CASE \E l \in {LegacyName[e[1]]} \ {None} : x = Library(l, Unversioned, FALSE)
    BY <1>4, <2>3, ContentsAre DEF IsWhole
  <2> QED
    BY <2>1, <2>2, <2>3 DEF Remains
<1>6. PICK x \in Remains(e[1]) : disk' = [disk EXCEPT ![e[1]] = x]
  BY DEF RemovesInPart
<1> QED
  BY <1>1, <1>5, <1>6 DEF SafeInv

LEMMA CopiedIn ==
    ASSUME SafeInv, job.at = "unpack", CopiesInPart
    PROVE  /\ disk' \in [Dirs -> Contents]
           /\ \A d \in Dirs : disk'[d] = disk[d] \/ (d = Target /\ ~IsWhole(disk'[d]))
<1>1. Target \in Dirs /\ New \in LibraryType
  BY NowIs
<1>2. [New EXCEPT !.whole = FALSE] \in LibraryType /\ ~[New EXCEPT !.whole = FALSE].whole
  BY <1>1 DEF LibraryType
<1>3. \A x \in {Junk, [New EXCEPT !.whole = FALSE]} : x \in Contents /\ ~IsWhole(x)
  BY <1>2, ContentsAre DEF IsWhole
<1>4. PICK x \in {Junk, [New EXCEPT !.whole = FALSE]} : disk' = [disk EXCEPT ![Target] = x]
  BY DEF CopiesInPart
<1> QED
  BY <1>1, <1>3, <1>4 DEF SafeInv

\* The removal of the old library, if there is one.
LEMMA OldIsGone ==
    ASSUME SafeInv, RemoveOld, job' = GoesTo(job, "unpack")
    PROVE  /\ job.at = "remove" /\ IsAt(job', job, "unpack")
           /\ disk' \in [Dirs -> Contents] /\ known' \subseteq known
           /\ \A d \in Dirs : IF \E e \in Old : e[1] = d THEN disk'[d] = None ELSE disk'[d] = disk[d]
           /\ UNCHANGED <<world, requests, upgrading, before>>
<1>0. job.at = "remove" /\ UNCHANGED <<world, requests, before>> /\ Old \in SUBSET Entries
      /\ \A e, f \in Old : e = f
  BY NowIs DEF RemoveOld, PlanOK, Old
<1>1. IsAt(job', job, "unpack")
  BY ReachedJob DEF SafeInv
<1>2. /\ UNCHANGED upgrading
      /\ (Old = {} /\ UNCHANGED <<disk, known>>) \/ (\E e \in Old : RemoveAll(e, job.rescanned))
  <2>1. job'.at # "idle"
    BY <1>1 DEF IsAt
  <2>2. ASSUME Error("remove") PROVE FALSE
    BY <2>1, <2>2, EndedJob DEF Error, SafeInv, IsEnded, Results
  <2> QED
    BY <2>2 DEF RemoveOld
<1>3. CASE Old = {} /\ UNCHANGED <<disk, known>>
  BY <1>0, <1>1, <1>2, <1>3 DEF SafeInv
<1>4. CASE \E e \in Old : RemoveAll(e, job.rescanned)
  <2>1. PICK e \in Old : RemoveAll(e, job.rescanned)
    BY <1>4
  <2>2. e[1] \in Dirs /\ \A f \in Old : f = e
    BY <1>0 DEF Entries
  <2>3. disk' \in [Dirs -> Contents]
    BY <2>1, <2>2, ContentsAre DEF RemoveAll, SafeInv
  <2>4. known' \subseteq known
    BY <2>1 DEF RemoveAll, Forget
  <2>5. \A d \in Dirs : IF d = e[1] THEN disk'[d] = None ELSE disk'[d] = disk[d]
    BY <2>1, <2>2 DEF RemoveAll, SafeInv
  <2> QED
    BY <1>0, <1>1, <1>2, <2>2, <2>3, <2>4, <2>5
<1> QED
  BY <1>2, <1>3, <1>4

LEMMA RemoveSafe ==
    ASSUME SafeInv, RemoveOld
    PROVE  SafeInv'
<1>1. CASE job' = GoesTo(job, "unpack")
  <2>0. /\ job.at = "remove" /\ IsAt(job', job, "unpack")
        /\ disk' \in [Dirs -> Contents] /\ known' \subseteq known
        /\ \A d \in Dirs : IF \E e \in Old : e[1] = d THEN disk'[d] = None ELSE disk'[d] = disk[d]
        /\ UNCHANGED <<world, requests, upgrading, before>>
    BY <1>1, OldIsGone
  <2>1. Open(job') = Open(job) /\ Pending(job') = job.plan /\ job.plan \subseteq Pending(job)
        /\ job.now \in Pending(job)
    BY <2>0 DEF IsAt, Open, Pending
  <2>2. /\ job'.at = "unpack" /\ job'.unchecked = {} /\ job'.toInstall = job.toInstall /\ job'.now = job.now
        /\ job'.result = "none" /\ job'.noOverwrite = job.noOverwrite /\ job'.op = job.op
        /\ job'.plan = job.plan /\ job' \in JobType
    BY <2>0, NowIs DEF IsAt, Same
  <2>3. \A q \in Open(job') : PlanOK(q, job', before)
    BY <2>0, <2>1, <2>2, NowIs DEF SafeInv, RequestOK, PlanOK
  <2>4. RequestOK(job', before')
    BY <2>0, <2>2, <2>3 DEF SafeInv, RequestOK
  <2>5. \A d \in Dirs : IsWhole(disk'[d]) => disk'[d] = disk[d]
    BY <2>0, ContentsAre DEF IsWhole
  <2>6. \A l : Whole(disk', l) \subseteq Whole(disk, l)
    BY <2>0, <2>5, WholeIs DEF SafeInv
  <2>7. DiskOK(job', disk', before')
    <3>1. \A q \in job.plan : \A f \in q.old : disk'[f[1]] = before[f[1]]
      <4> TAKE q \in job.plan
      <4> TAKE f \in q.old
      <4>1. \A e \in Old : e[1] # f[1]
        BY <2>0, NowIs, ItemsApart DEF Old
      <4>2. f[1] \in Dirs
        BY <2>0, NowIs DEF PlanOK, Items, Entries
      <4> QED
        BY <2>0, <2>1, <4>1, <4>2 DEF SafeInv, DiskOK
    <3>2. \A q \in job.plan : \A d \in Whole(disk', q.rel[1]) : \E e \in q.old : e[1] = d
      BY <2>1, <2>6 DEF SafeInv, DiskOK
    <3>3. Whole(disk', job.now.rel[1]) = {}
      <4> SUFFICES ASSUME NEW d \in Whole(disk', job.now.rel[1]) PROVE FALSE
        OBVIOUS
      <4>1. d \in Dirs /\ IsWhole(disk'[d])
        BY <2>0, WholeIs
      <4>2. \E e \in Old : e[1] = d
        BY <2>1, <2>6 DEF SafeInv, DiskOK, Old
      <4> QED
        BY <2>0, <4>1, <4>2, ContentsAre DEF IsWhole
    <3>4. \A q \in Open(job') : IsWhole(disk'[Goal(q)]) =>
                                    \E x \in job'.toInstall : disk'[Goal(q)].lib = x[1]
      <4> TAKE q \in Open(job')
      <4>1. Goal(q) \in Dirs
        BY <2>3, Pairs DEF PlanOK, Items, Goal
      <4> QED
        BY <2>1, <2>2, <2>5, <4>1 DEF SafeInv, DiskOK
    <3>5. job.noOverwrite => \A d \in Dirs : before[d] # None => disk'[d] = before[d]
      <4> SUFFICES ASSUME job.noOverwrite PROVE \A d \in Dirs : before[d] # None => disk'[d] = before[d]
        OBVIOUS
      <4>1. Old = {}
        BY <2>0, NowIs DEF PlanOK, Old
      <4> QED
        BY <2>0, <4>1 DEF SafeInv, DiskOK
    <3>6. \A q \in Pending(job') : /\ \A e \in q.old : disk'[e[1]] = before'[e[1]]
                                  /\ \A d \in Whole(disk', q.rel[1]) : \E e \in q.old : e[1] = d
      BY <2>0, <2>1, <3>1, <3>2
    <3>7. /\ job'.result = "refused" => disk' = before'
          /\ job'.noOverwrite => \A d \in Dirs : before'[d] # None => disk'[d] = before'[d]
      BY <2>0, <2>2, <3>5
    <3>8. Whole(disk', job'.now.rel[1]) = {}
      BY <2>2, <3>3
    <3> QED
      BY <2>2, <3>4, <3>6, <3>7, <3>8, Zenon DEF DiskOK
  <2>8. OneEach(disk')
    BY <2>6 DEF SafeInv, OneEach
  <2>9. ListOK(known', job', disk', before')
    <3>1. \A e \in known' : IsWhole(disk'[e[1]]) => disk'[e[1]].lib = e[2]
      <4> TAKE e \in known'
      <4>1. e \in known /\ e[1] \in Dirs
        BY <2>0 DEF SafeInv, Entries
      <4> QED
        BY <2>5, <4>1 DEF SafeInv, ListOK
    <3> QED
      BY <2>0, <2>1, <3>1 DEF SafeInv, ListOK
  <2> QED
    BY <2>0, <2>2, <2>4, <2>7, <2>8, <2>9 DEF SafeInv
<1>2. CASE job' # GoesTo(job, "unpack")
  <2>1. PICK e \in Old : RemoveFails(e) /\ Error("remove")
    BY <1>2 DEF RemoveOld
  <2>2. job.at = "remove" /\ UNCHANGED <<world, requests, before>> /\ UNCHANGED known
    BY <2>1 DEF RemoveOld, RemoveFails
  <2>3. disk' \in [Dirs -> Contents] /\ \A d \in Dirs : disk'[d] = disk[d] \/ ~IsWhole(disk'[d])
    <3>1. CASE UNCHANGED disk
      BY <3>1 DEF SafeInv
    <3>2. CASE RemovesInPart(e)
      BY <2>1, <2>2, <3>2, NowIs, RemainsIn
    <3> QED
      BY <2>1, <3>1, <3>2 DEF RemoveFails
  <2>4. ~job.noOverwrite
    BY <2>1, <2>2, NowIs DEF PlanOK, Old
  <2>5. known' \subseteq Entries /\ "remove" \in Results
    BY <2>2 DEF SafeInv, Results
  <2> QED
    BY <2>1, <2>2, <2>3, <2>4, <2>5, ErrorSafe
<1> QED
  BY <1>1, <1>2

\* The installation of the new library.
LEMMA NewIsThere ==
    ASSUME SafeInv, Unpack, job' = GoesTo(job, "check")
    PROVE  /\ job.at = "unpack" /\ IsAt(job', job, "check")
           /\ disk' \in [Dirs -> Contents] /\ disk' = [disk EXCEPT ![Target] = New]
           /\ UNCHANGED <<world, requests, known, upgrading, before>>
<1>1. job.at = "unpack" /\ UNCHANGED <<world, requests, known, before>>
  BY DEF Unpack
<1>2. IsAt(job', job, "check")
  BY ReachedJob DEF SafeInv
<1>3. ASSUME NEW r \in Results, Error(r) PROVE FALSE
  BY <1>2, <1>3, EndedJob DEF Error, SafeInv, IsEnded, IsAt
<1>4. disk' = [disk EXCEPT ![Target] = New] /\ UNCHANGED upgrading
  BY <1>3 DEF Unpack, Results
<1> QED
  BY <1>1, <1>2, <1>4, NowIs DEF SafeInv

LEMMA UnpackSafe ==
    ASSUME SafeInv, Unpack
    PROVE  SafeInv'
<1>1. CASE job' = GoesTo(job, "check")
  <2>0. /\ job.at = "unpack" /\ IsAt(job', job, "check")
        /\ disk' \in [Dirs -> Contents]
        /\ UNCHANGED <<world, requests, known, upgrading, before>>
        /\ disk'[Target] = New /\ \A d \in Dirs \ {Target} : disk'[d] = disk[d]
    BY <1>1, NewIsThere, NowIs DEF SafeInv
  <2>1. Open(job') = job.plan /\ Pending(job') = job.plan /\ Pending(job) = job.plan
    BY <2>0 DEF IsAt, Open, Pending
  <2>2. /\ job'.at = "check" /\ job'.unchecked = {} /\ job'.toInstall = job.toInstall
        /\ job'.result = "none" /\ job'.noOverwrite = job.noOverwrite /\ job'.op = job.op
        /\ job'.plan = job.plan /\ job' \in JobType
    BY <2>0, NowIs DEF IsAt, Same
  <2>3. \A q \in Open(job') : PlanOK(q, job', before)
    BY <2>0, <2>1, <2>2, NowIs DEF PlanOK
  <2>4. RequestOK(job', before')
    BY <2>0, <2>2, <2>3 DEF SafeInv, RequestOK
  <2>5. \A q \in job.plan : /\ q.rel[1] # job.now.rel[1] /\ Goal(q) \in Dirs
                            /\ \A f \in q.old : f[1] # Target /\ f[1] \in Dirs
    <3> TAKE q \in job.plan
    <3>1. PlanOK(q, job, before) /\ PlanOK(job.now, job, before) /\ q.rel # job.now.rel /\ job.at # "idle"
          /\ Target = Goal(job.now)
      BY <2>0, NowIs
    <3>2. Goal(q) \in Dirs /\ \A f \in q.old : f[1] \in Dirs
      BY <3>1, Pairs DEF PlanOK, Items, Goal, Entries
    <3> QED
      BY <3>1, <3>2, ItemsApart
  <2>6. before[Target] = None \/ \E e \in Old : e[1] = Target /\ e \in Scan(before) /\ e[2] = job.now.rel[1]
    BY <2>0, NowIs DEF PlanOK, Old
  <2>7. DiskOK(job', disk', before')
    <3>1. \A q \in Pending(job') : /\ \A e \in q.old : disk'[e[1]] = before'[e[1]]
                                   /\ \A d \in Whole(disk', q.rel[1]) : \E e \in q.old : e[1] = d
      <4> TAKE q \in Pending(job')
      <4>1. q \in job.plan /\ q \in Pending(job)
        BY <2>1
      <4>2. \A e \in q.old : disk'[e[1]] = before'[e[1]]
        BY <2>0, <2>5, <4>1 DEF SafeInv, DiskOK
      <4>3. Whole(disk', q.rel[1]) \subseteq Whole(disk, q.rel[1])
        BY <2>0, <2>5, <4>1, WholeIs, NowIs DEF SafeInv
      <4> QED
        BY <4>1, <4>2, <4>3 DEF SafeInv, DiskOK
    <3>2. \A q \in Open(job') : IsWhole(disk'[Goal(q)]) =>
                                    \E x \in job'.toInstall : disk'[Goal(q)].lib = x[1]
      <4> TAKE q \in Open(job')
      <4>1. CASE Goal(q) = Target
        BY <2>0, <2>2, <4>1, NowIs
      <4>2. CASE Goal(q) # Target
        <5>1. disk'[Goal(q)] = disk[Goal(q)] /\ q \in Open(job)
          BY <2>0, <2>1, <2>5, <4>2, NowIs
        <5> QED
          BY <2>2, <5>1 DEF SafeInv, DiskOK
      <4> QED
        BY <4>1, <4>2
    <3>3. /\ job'.result = "refused" => disk' = before'
          /\ job'.noOverwrite => \A d \in Dirs : before'[d] # None => disk'[d] = before'[d]
      <4>1. job.noOverwrite => before[Target] = None
        BY <2>0, <2>6, NowIs DEF PlanOK, Old
      <4> QED
        BY <2>0, <2>2, <4>1 DEF SafeInv, DiskOK
    <3> QED
      BY <2>2, <3>1, <3>2, <3>3, Zenon DEF DiskOK
  <2>8. OneEach(disk')
    <3>1. Whole(disk, job.now.rel[1]) = {}
      BY <2>0 DEF SafeInv, DiskOK
    <3>2. \A l, d : d \in Whole(disk', l) => (d = Target /\ l = job.now.rel[1]) \/ d \in Whole(disk, l)
      <4> TAKE l, d
      <4>1. Whole(disk', l) = {x \in Dirs : IsWhole(disk'[x]) /\ disk'[x].lib = l}
        BY <2>0, WholeIs
      <4>2. Whole(disk, l) = {x \in Dirs : IsWhole(disk[x]) /\ disk[x].lib = l}
        BY WholeIs DEF SafeInv
      <4>3. New.lib = job.now.rel[1]
        BY <2>0, NowIs
      <4> QED
        BY <2>0, <4>1, <4>2, <4>3
    <3> QED
      BY <3>1, <3>2 DEF SafeInv, OneEach
  <2>9. ListOK(known', job', disk', before')
    <3>1. known \subseteq Scan(before)
      BY <2>0, NowIs DEF SafeInv, ListOK
    <3>2. \A e \in known : IsWhole(disk'[e[1]]) => disk'[e[1]].lib = e[2]
      <4> TAKE e \in known
      <4>1. CASE e[1] = Target
        <5>1. e[2] = before[Target].lib /\ before[Target] # None
          BY <3>1, <4>1, ScanEntry, ContentsAre DEF SafeInv
        <5>2. before[Target].lib = job.now.rel[1]
          BY <2>6, <5>1, ScanEntry DEF SafeInv
        <5> QED
          BY <2>0, <4>1, <5>1, <5>2, NowIs
      <4>2. CASE e[1] # Target
        BY <2>0, <4>2 DEF SafeInv, ListOK, Entries
      <4> QED
        BY <4>1, <4>2
    <3> QED
      BY <2>0, <3>1, <3>2 DEF ListOK
  <2> QED
    BY <2>0, <2>2, <2>4, <2>7, <2>8, <2>9 DEF SafeInv
<1>2. CASE job' # GoesTo(job, "check")
  <2>0. job.at = "unpack" /\ UNCHANGED <<world, requests, known, before>> /\ known' \subseteq Entries
        /\ "unpack" \in Results /\ "move" \in Results
    BY DEF Unpack, SafeInv, Results
  <2>1. job.noOverwrite => before[Target] = None
    BY <2>0, NowIs DEF PlanOK
  <2>2. CASE Error("unpack") /\ UNCHANGED disk
    BY <2>0, <2>2, ErrorSafe DEF SafeInv, DiskOK
  <2>3. CASE Error("move") /\ CopiesInPart
    <3>1. /\ disk' \in [Dirs -> Contents]
          /\ \A d \in Dirs : disk'[d] = disk[d] \/ (d = Target /\ ~IsWhole(disk'[d]))
      BY <2>0, <2>3, CopiedIn
    <3>2. job.noOverwrite => \A d \in Dirs : before[d] # None => disk'[d] = before[d]
      BY <2>1, <3>1 DEF SafeInv, DiskOK
    <3> QED
      BY <2>0, <2>3, <3>1, <3>2, ErrorSafe
  <2> QED
    BY <1>2, <2>2, <2>3 DEF Unpack
<1> QED
  BY <1>1, <1>2

LEMMA FinishSafe ==
    ASSUME SafeInv, Finish
    PROVE  SafeInv'
<1>1. IsEnded(job', job, "ok") /\ "ok" \in Results
  BY EndedJob DEF Finish, SafeInv, Results
<1>2. /\ UNCHANGED <<world, requests, disk, upgrading, before>>
      /\ known' = known \/ known' = Scan(disk')
  BY DEF Finish
<1>3. known' \subseteq Entries
  BY <1>2, ScanIs DEF SafeInv
<1> QED
  BY <1>1, <1>2, <1>3, EndSafe DEF SafeInv, DiskOK

LEMMA KillSafe ==
    ASSUME SafeInv, Kill
    PROVE  SafeInv'
<1>1. IsEnded(job', job, "killed") /\ "killed" \in Results
  BY EndedJob DEF Kill, SafeInv, Results
<1>2. /\ UNCHANGED <<world, requests, before>> /\ upgrading' \subseteq Libs
      /\ known' = Scan(disk')
  BY DEF Kill
<1>3. /\ disk' \in [Dirs -> Contents]
      /\ \A d \in Dirs : disk'[d] = disk[d] \/ ~IsWhole(disk'[d])
      /\ job.noOverwrite => \A d \in Dirs : before[d] # None => disk'[d] = before[d]
  <2>1. CASE UNCHANGED disk
    BY <2>1 DEF SafeInv, DiskOK
  <2>2. CASE job.at = "remove" /\ \E e \in Old : RemovesInPart(e)
    <3>1. ~job.noOverwrite
      BY <2>2, NowIs DEF PlanOK, Old
    <3> QED
      BY <2>2, <3>1, NowIs, RemainsIn
  <2>3. CASE job.at = "unpack" /\ CopiesInPart
    <3>1. job.noOverwrite => before[Target] = None
      BY <2>3, NowIs DEF PlanOK
    <3> QED
      BY <2>3, <3>1, CopiedIn DEF SafeInv, DiskOK
  <2> QED
    BY <2>1, <2>2, <2>3 DEF Kill
<1>4. known' \subseteq Entries
  BY <1>2, <1>3, ScanEntry
<1> QED
  BY <1>1, <1>2, <1>3, <1>4, EndSafe

\* What an uninstallation does to the directories and to the list.
LEMMA UninstallCases ==
    ASSUME SafeInv, Uninstall
    PROVE  \E l \in Libs, v \in Nat : \E result \in {"ok", "refused"} :
               /\ IsEnded(job', Asks("uninstall", {<<l, v>>}, FALSE), result)
               /\ job'.op = "uninstall" /\ ~job'.noOverwrite /\ job'.toInstall = {<<l, v>>}
               /\ \/ UNCHANGED <<disk, known>>
                  \/ /\ result = "ok"
                     /\ \E e \in known : e[2] = l /\ (RemoveAll(e, l) \/ RemoveFails(e))
<1>1. PICK l \in Libs, v \in {Unversioned} \cup {Version(r) : r \in Releases} :
        LET libs == {e \in OfName(l) : v = Unversioned \/ e[3] = v} IN
           /\ job' = Ends(Asks("uninstall", {<<l, v>>}, FALSE), IF Cardinality(libs) > 1 THEN "refused" ELSE "ok")
           /\ IF Cardinality(libs) # 1 THEN UNCHANGED <<disk, known>>
              ELSE \E e \in libs : RemoveAll(e, l) \/ RemoveFails(e)
  BY DEF Uninstall
<1> DEFINE libs == {e \in OfName(l) : v = Unversioned \/ e[3] = v}
           result == IF Cardinality(libs) > 1 THEN "refused" ELSE "ok"
<1>2. v \in Nat /\ <<l, v>> \in Libs \X Nat
  BY Released, Pairs DEF Unversioned
<1>3. IsAsked(Asks("uninstall", {<<l, v>>}, FALSE), "uninstall", {<<l, v>>}, FALSE)
  BY <1>2, AskedJob DEF Ops
<1>4. result \in Results /\ result \in {"ok", "refused"}
  BY DEF Results
<1>5. IsEnded(job', Asks("uninstall", {<<l, v>>}, FALSE), result)
  <2>1. Asks("uninstall", {<<l, v>>}, FALSE) \in JobType
    BY <1>3 DEF IsAsked
  <2>2. job' = Ends(Asks("uninstall", {<<l, v>>}, FALSE), result)
    BY <1>1
  <2> HIDE DEF result
  <2> QED
    BY <1>4, <2>1, <2>2, EndedJob
<1>6. \/ UNCHANGED <<disk, known>>
      \/ Cardinality(libs) = 1 /\ \E e \in libs : RemoveAll(e, l) \/ RemoveFails(e)
  BY <1>1
<1>7. Cardinality(libs) = 1 => result = "ok"
  OBVIOUS
<1>8. \A e \in libs : e \in known /\ e[2] = l
  BY DEF OfName
<1>9. job'.op = "uninstall" /\ ~job'.noOverwrite /\ job'.toInstall = {<<l, v>>}
  BY <1>3, <1>5 DEF IsEnded, IsAsked
<1> HIDE DEF libs, result
<1>10. v \in Nat /\ result \in {"ok", "refused"}
  BY <1>2, <1>4
<1>11. \/ UNCHANGED <<disk, known>>
       \/ /\ result = "ok"
          /\ \E e \in known : e[2] = l /\ (RemoveAll(e, l) \/ RemoveFails(e))
  BY <1>6, <1>7, <1>8, Zenon
<1> USE <1>10
<1> WITNESS l \in Libs, v \in Nat
<1> WITNESS result \in {"ok", "refused"}
<1> QED
  BY <1>5, <1>9, <1>11

LEMMA UninstallSafe ==
    ASSUME SafeInv, Uninstall
    PROVE  SafeInv'
<1>0. before' = disk /\ UNCHANGED <<world, upgrading>> /\ requests' \in Nat
  BY DEF Uninstall, NewRequest, SafeInv
<1>1. PICK l \in Libs, v \in Nat : \E result \in {"ok", "refused"} :
               /\ IsEnded(job', Asks("uninstall", {<<l, v>>}, FALSE), result)
               /\ job'.op = "uninstall" /\ ~job'.noOverwrite /\ job'.toInstall = {<<l, v>>}
               /\ \/ UNCHANGED <<disk, known>>
                  \/ /\ result = "ok"
                     /\ \E e \in known : e[2] = l /\ (RemoveAll(e, l) \/ RemoveFails(e))
  BY UninstallCases
<1>2. /\ job' \in JobType /\ job'.at = "idle" /\ job'.unchecked = {} /\ job'.plan = {} /\ ~job'.noOverwrite
      /\ job'.result = "refused" => UNCHANGED <<disk, known>>
  BY <1>1 DEF IsEnded
<1>3. /\ disk' \in [Dirs -> Contents] /\ known' \subseteq known
      /\ \A d \in Dirs : disk'[d] = disk[d] \/ ~IsWhole(disk'[d])
  <2>1. CASE UNCHANGED <<disk, known>>
    BY <2>1 DEF SafeInv
  <2>2. CASE \E e \in known : RemoveAll(e, l) \/ RemoveFails(e)
    <3>1. PICK e \in known : RemoveAll(e, l) \/ RemoveFails(e)
      BY <2>2
    <3>2. e \in Entries /\ e[1] \in Dirs
      BY DEF SafeInv, Entries
    <3>3. CASE RemoveAll(e, l)
      BY <3>2, <3>3, ContentsAre DEF RemoveAll, Forget, SafeInv, IsWhole
    <3>4. CASE RemoveFails(e) /\ UNCHANGED disk
      BY <3>4 DEF RemoveFails, SafeInv
    <3>5. CASE RemoveFails(e) /\ RemovesInPart(e)
      BY <3>2, <3>5, RemainsIn DEF RemoveFails
    <3> QED
      BY <3>1, <3>3, <3>4, <3>5 DEF RemoveFails
  <2> QED
    BY <1>1, <2>1, <2>2
<1>4. RequestOK(job', before')
  BY <1>2 DEF RequestOK
<1>5. DiskOK(job', disk', before')
  BY <1>0, <1>2 DEF DiskOK, Open, Pending
<1>6. OneEach(disk')
  <2>1. \A l0 : Whole(disk', l0) \subseteq Whole(disk, l0)
    BY <1>3, WholeIs DEF SafeInv
  <2> QED
    BY <2>1 DEF SafeInv, OneEach
<1>7. ListOK(known', job', disk', before')
  BY <1>2, <1>3 DEF ListOK, Open, SafeInv, Entries
<1> QED
  BY <1>0, <1>2, <1>3, <1>4, <1>5, <1>6, <1>7 DEF SafeInv

LEMMA StepSafe ==
    ASSUME SafeInv, Next
    PROVE  SafeInv'
BY AsksSafe, ListSafe, UninstallSafe, CheckSafe, DownloadSafe, RemoveSafe, UnpackSafe,
   FinishSafe, KillSafe DEF Next

LEMMA InitSafe ==
    ASSUME Init
    PROVE  SafeInv
<1>1. /\ world \in Worlds /\ requests \in Nat /\ upgrading \subseteq Libs
      /\ disk \in [Dirs -> Contents] /\ before \in [Dirs -> Contents] /\ NoneTwice(disk)
  BY DEF Init
<1>2. known \subseteq Entries
  BY <1>1, ScanEntry DEF Init
<1>3. job \in JobType /\ job.at = "idle" /\ job.unchecked = {} /\ job.plan = {} /\ job.result = "none"
      /\ ~job.noOverwrite /\ before = disk /\ known = Scan(disk)
  BY IdleJob DEF Init
<1>4. OneEach(disk)
  <2>1. \A l \in Libs : IsFiniteSet(Whole(disk, l))
    BY FS_Subset DEF Whole, Holds
  <2> QED
    BY <1>1, <2>1, AtMostOne DEF NoneTwice, OneEach
<1>5. RequestOK(job, before) /\ DiskOK(job, disk, before)
  BY <1>3 DEF RequestOK, DiskOK, Open, Pending
<1>6. ListOK(known, job, disk, before)
  BY <1>1, <1>3, ScanEntry DEF ListOK
<1> QED
  BY <1>1, <1>2, <1>3, <1>4, <1>5, <1>6 DEF SafeInv

-----------------------------------------------------------------------------
\* Only what the request names is touched.
LEMMA StepKeepsOthers ==
    ASSUME SafeInv, Next, NEW d \in Dirs, disk[d] # disk'[d], IsWhole(disk[d])
    PROVE  \E r \in job.toInstall \cup job'.toInstall : disk[d].lib = r[1]
<1>1. ASSUME job.at = "remove", NEW e \in Old, e[1] = d
      PROVE  \E r \in job.toInstall : disk[d].lib = r[1]
  <2>1. PlanOK(job.now, job, before) /\ job.now \in Pending(job) /\ job.now.rel \in job.toInstall
    BY <1>1, NowIs DEF Pending
  <2>2. disk[d] = before[d] /\ before[d].lib = job.now.rel[1]
    BY <1>1, <2>1, ScanEntry DEF SafeInv, DiskOK, PlanOK, Old
  <2> QED
    BY <2>1, <2>2
<1>2. ASSUME job.at = "unpack", Target = d
      PROVE  \E r \in job.toInstall : disk[d].lib = r[1]
  <2>1. job.now \in Open(job) /\ Target = Goal(job.now)
    BY <1>2, NowIs
  <2> QED
    BY <1>2, <2>1 DEF SafeInv, DiskOK
<1>3. ASSUME job.at = "remove", NEW e \in Old, RemovesInPart(e)
      PROVE  \E r \in job.toInstall : disk[d].lib = r[1]
  <2>1. e[1] = d
    BY <1>3, NowIs, RemainsIn
  <2> QED
    BY <1>1, <1>3, <2>1
<1>4. ASSUME job.at = "unpack", CopiesInPart
      PROVE  \E r \in job.toInstall : disk[d].lib = r[1]
  <2>1. Target = d
    BY <1>4, CopiedIn
  <2> QED
    BY <1>2, <1>4, <2>1
<1>5. CASE RemoveOld
  <2>1. ASSUME NEW e \in Old, RemoveAll(e, job.rescanned) PROVE e[1] = d
    BY <2>1 DEF RemoveAll, SafeInv
  <2> QED
    BY <1>1, <1>3, <1>5, <2>1 DEF RemoveOld, RemoveFails
<1>6. CASE Unpack
  <2>1. ASSUME disk' = [disk EXCEPT ![Target] = New] PROVE Target = d
    BY <2>1 DEF SafeInv
  <2> QED
    BY <1>2, <1>4, <1>6, <2>1 DEF Unpack
<1>7. CASE Kill
  BY <1>3, <1>4, <1>7 DEF Kill
<1>8. CASE Uninstall
  <2>1. PICK l \in Libs, v \in Nat :
               /\ job'.toInstall = {<<l, v>>}
               /\ \/ UNCHANGED <<disk, known>>
                  \/ \E e \in known : e[2] = l /\ (RemoveAll(e, l) \/ RemoveFails(e))
    BY <1>8, UninstallCases
  <2>2. PICK e \in known : e[2] = l /\ (RemoveAll(e, l) \/ RemoveFails(e))
    BY <2>1
  <2>3. e \in Entries
    BY DEF SafeInv
  <2>4. e[1] = d
    <3>1. CASE RemoveAll(e, l)
      BY <3>1 DEF RemoveAll, SafeInv
    <3>2. CASE RemovesInPart(e)
      BY <2>3, <3>2, RemainsIn
    <3> QED
      BY <2>2, <3>1, <3>2 DEF RemoveFails
  <2>5. disk[d].lib = l
    BY <2>2, <2>4 DEF SafeInv, ListOK
  <2>6. <<l, v>> \in job'.toInstall /\ <<l, v>>[1] = l
    BY <2>1
  <2> QED
    BY <2>5, <2>6
<1>9. CASE UNCHANGED disk
  BY <1>9
<1> QED
  BY <1>5, <1>6, <1>7, <1>8, <1>9
  DEF Next, Install, ListUpdatable, UpgradeNext, Import, Check, Download, Finish

-----------------------------------------------------------------------------
\* The steps that end a request, otherwise than through, and those that begin one.
LEMMA EndApart ==
    ASSUME SafeInv, ApartInv, NEW result \in Results \ {"ok"}, IsEnded(job', job, result),
           before' = before, result = "fetch" => disk' = disk /\ job.at = "check"
    PROVE  ApartInv'
<1>1. Collide' <=> Collide
  BY DEF Collide, IsEnded
<1>2. job'.at = "idle" /\ job'.result = result
  BY DEF IsEnded
<1>3. ~Collide /\ result = "fetch" => \A l \in Libs : Whole(before', l) # {} => Whole(disk', l) # {}
  BY DEF ApartInv, ApartOK
<1> QED
  BY <1>1, <1>2, <1>3 DEF ApartInv

LEMMA BeginApart ==
    ASSUME SafeInv, NEW op, NEW S, NEW noOverwrite, IsAsked(job', op, S, noOverwrite),
           before' = disk, UNCHANGED disk
    PROVE  ApartInv'
<1>1. job'.at = "check" /\ job'.result = "none" /\ Open(job') = {} /\ Pending(job') = {}
      /\ job'.toInstall = job'.unchecked
  BY DEF IsAsked, Open, Pending
<1>2. ApartOK(job', disk', before')
  BY <1>1 DEF ApartOK
<1> QED
  BY <1>1, <1>2 DEF ApartInv

LEMMA AsksApart ==
    ASSUME SafeInv, Install \/ UpgradeNext \/ Import
    PROVE  ApartInv'
<1>1. \E op \in Ops, S \in SUBSET Releases, noOverwrite \in BOOLEAN :
          job' = Asks(op, S, noOverwrite) /\ before' = disk /\ UNCHANGED disk
  <2>1. CASE Install
    <3>1. PICK r \in Releases, noDeps \in BOOLEAN, noOverwrite \in BOOLEAN :
            \E S \in (IF noDeps THEN {{r}} ELSE Resolve(r, IF noOverwrite THEN Installed ELSE {})) :
                Begin("install", S, noOverwrite)
      BY <2>1 DEF Install
    <3>2. PICK S : /\ S \in (IF noDeps THEN {{r}} ELSE Resolve(r, IF noOverwrite THEN Installed ELSE {}))
                   /\ Begin("install", S, noOverwrite)
      BY <3>1
    <3>3. S \in SUBSET Releases
      <4>1. CASE noDeps
        BY <3>2, <4>1
      <4>2. CASE ~noDeps
        BY <3>2, <4>2, ResolvesOnce
      <4> QED
        BY <4>1, <4>2
    <3> QED
      BY <2>1, <3>2, <3>3 DEF Install, Begin, Ops
  <2>2. CASE UpgradeNext
    <3>1. PICK r \in Releases : \E S \in Resolve(r, {}) : Begin("upgrade", S, FALSE)
      BY <2>2 DEF UpgradeNext, Latest, ReleasesOf
    <3>2. PICK S \in Resolve(r, {}) : Begin("upgrade", S, FALSE)
      BY <3>1
    <3>3. S \in SUBSET Releases
      BY <3>2, ResolvesOnce
    <3> QED
      BY <2>2, <3>2, <3>3 DEF UpgradeNext, Begin, Ops
  <2>3. CASE Import
    <3>1. PICK r \in Releases, overwrite \in BOOLEAN : Begin("import", {r}, ~overwrite)
      BY <2>3 DEF Import
    <3> QED
      BY <2>3, <3>1 DEF Import, Begin, Ops
  <2> QED
    BY <2>1, <2>2, <2>3
<1>2. PICK op \in Ops, S \in SUBSET Releases, noOverwrite \in BOOLEAN :
          job' = Asks(op, S, noOverwrite) /\ before' = disk /\ UNCHANGED disk
  BY <1>1
<1>3. S \in SUBSET (Libs \X Nat)
  BY Released
<1>4. IsAsked(job', op, S, noOverwrite)
  BY <1>2, <1>3, AskedJob
<1> QED
  BY <1>2, <1>4, BeginApart

\* A release that is in place is none of those that the item p is about.
LEMMA PlacedApart ==
    ASSUME SafeInv, NEW p, PlanOK(p, job, before), disk = before, job.at # "idle",
           NEW r \in job.toInstall, r # p.rel, NEW d \in Holds(disk, r[1])
    PROVE  Goal(p) # d /\ \A e \in p.old : e[1] # d
<1>1. p.rel[1] # r[1] /\ disk \in [Dirs -> Contents]
  BY DEF SafeInv, RequestOK, PlanOK
<1>2. d \in Dirs /\ disk[d] \in LibraryType /\ disk[d].lib = r[1]
  BY <1>1, HoldsIs
<1>3. \A e \in p.old : e[1] # d
  BY <1>1, <1>2, ScanEntry DEF PlanOK
<1>4. Goal(p) # d
  BY <1>2, <1>3, ContentsAre DEF PlanOK
<1> QED
  BY <1>3, <1>4

LEMMA CheckApart ==
    ASSUME SafeInv, ApartInv, SafeInv', NEW r \in job.unchecked, Check(r)
    PROVE  ApartInv'
<1> DEFINE old == {e \in Scan(disk) : e[2] = r[1]}
           new == [rel |-> r, old |-> old]
<1>0. /\ job.at = "check" /\ UNCHANGED <<world, requests, disk, before>> /\ disk = before
      /\ r \in Libs \X Nat /\ r \in job.toInstall /\ disk \in [Dirs -> Contents]
  BY DEF Check, SafeInv, JobType, DiskOK, RequestOK
<1>1. CASE Error("refused")
  <2>1. IsEnded(job', job, "refused") /\ "refused" \in Results \ {"ok"}
    BY <1>1, EndedJob DEF Error, SafeInv, Results
  <2> QED
    BY <1>0, <2>1, EndApart
<1>2. CASE ~Error("refused")
  <2>1. \/ job.op # "import" /\ UpToDate(old, r) /\ IsChecked(job', job, r)
        \/ IsPlanned(job', job, r, old)
    BY <1>2, CheckCases
  <2>2. /\ Same(job', job) /\ job'.at = "check" /\ job'.unchecked = job.unchecked \ {r}
        /\ Open(job) = job.plan /\ Open(job') = job'.plan /\ Pending(job') = job'.plan
        /\ (UpToDate(old, r) /\ job'.plan = job.plan) \/ job'.plan = job.plan \cup {new}
    BY <1>0, <2>1 DEF IsChecked, IsPlanned, Open, Pending
  <2>3. (\A p \in job'.plan : PlanOK(p, job', before)) /\ new.rel = r /\ new.old = old
    BY <1>0, <2>2 DEF SafeInv, RequestOK
  <2>4. ASSUME ~Collide, NEW x \in job'.toInstall \ job'.unchecked
        PROVE  (\E p \in Open(job') : p.rel = x) \/ Placed(x, job', disk)
    <3>1. CASE x = r
      <4>1. CASE job'.plan = job.plan \cup {new}
        <5>1. new \in Open(job')
          BY <2>2, <4>1
        <5> QED
          BY <2>3, <3>1, <5>1
      <4>2. CASE UpToDate(old, r) /\ job'.plan = job.plan
        <5>1. PICK e \in old : e[3] = Version(r)
          BY <4>2 DEF UpToDate
        <5>2. e[1] \in Holds(disk, r[1]) /\ disk[e[1]].v = Version(r)
          <6>1. e \in Scan(disk) /\ e[2] = r[1] /\ e[3] = Version(r)
            BY <5>1
          <6>2. e[1] \in Dirs /\ disk[e[1]] \in LibraryType /\ e[2] = disk[e[1]].lib /\ e[3] = disk[e[1]].v
            BY <1>0, <6>1, ScanEntry
          <6> QED
            BY <1>0, <6>1, <6>2, HoldsIs
        <5>3. \A p \in job.plan : PlanOK(p, job, before) /\ p.rel # r
          BY <1>0, <2>2 DEF SafeInv, RequestOK, PlanOK
        <5>4. \A p \in job.plan : Goal(p) # e[1] /\ \A f \in p.old : f[1] # e[1]
          BY <1>0, <5>2, <5>3, PlacedApart
        <5> QED
          BY <2>2, <3>1, <4>2, <5>2, <5>4 DEF Placed
      <4> QED
        BY <2>2, <4>1, <4>2
    <3>2. CASE x # r
      <4>1. (\E p \in Open(job) : p.rel = x) \/ Placed(x, job, disk)
        BY <1>0, <2>2, <2>4, <3>2 DEF ApartInv, ApartOK, Same
      <4>2. CASE Placed(x, job, disk)
        <5>1. PICK d \in Holds(disk, x[1]) :
                /\ disk[d].v = Version(x)
                /\ \A p \in Open(job) : Goal(p) # d /\ \A e \in p.old : e[1] # d
          BY <4>2 DEF Placed
        <5>2. x[1] # r[1] /\ d \in Dirs /\ disk[d] \in LibraryType /\ disk[d].lib = x[1]
          BY <1>0, <2>2, <3>2, <5>1, HoldsIs DEF SafeInv, RequestOK, Same
        <5>3. \A e \in old : e[1] # d
          BY <1>0, <5>2, ScanEntry
        <5>4. new \in job'.plan => Goal(new) # d
          <6>1. new \in job'.plan => before[Goal(new)] = None \/ \E e \in old : e[1] = Goal(new)
            BY <2>3 DEF PlanOK
          <6> QED
            BY <1>0, <5>2, <5>3, <6>1, ContentsAre
        <5>5. \A p \in job'.plan : Goal(p) # d /\ \A e \in p.old : e[1] # d
          <6> TAKE p \in job'.plan
          <6>1. CASE p \in job.plan
            BY <2>2, <5>1, <6>1
          <6>2. CASE p = new
            BY <2>3, <5>3, <5>4, <6>2
          <6> QED
            BY <2>2, <6>1, <6>2
        <5> QED
          BY <2>2, <5>1, <5>5 DEF Placed
      <4> QED
        BY <2>2, <4>1, <4>2
    <3> QED
      BY <3>1, <3>2
  <2>5. ~Collide => ApartOK(job', disk', before')
    BY <1>0, <2>2, <2>4 DEF ApartOK
  <2>6. Collide' <=> Collide
    BY <2>2 DEF Collide, Same
  <2>7. job'.result = "none"
    BY <1>0, <2>2 DEF SafeInv, RequestOK, Same
  <2> QED
    BY <2>2, <2>5, <2>6, <2>7 DEF ApartInv
<1> QED
  BY <1>1, <1>2

LEMMA DownloadApart ==
    ASSUME SafeInv, ApartInv, NEW p \in job.plan, Download(p)
    PROVE  ApartInv'
<1>0. job.at = "check" /\ UNCHANGED <<world, requests, disk, known, before>>
  BY DEF Download
<1>1. CASE Error("fetch")
  <2>1. IsEnded(job', job, "fetch") /\ "fetch" \in Results \ {"ok"}
    BY <1>1, EndedJob DEF Error, SafeInv, Results
  <2> QED
    BY <1>0, <2>1, EndApart
<1>2. CASE job' = Takes(job, p)
  <2>1. IsTaking(job', job, p)
    BY <1>2, TakingJob DEF SafeInv
  <2>2. /\ Open(job') = Open(job) /\ Pending(job') = Pending(job) /\ job'.at = "remove"
        /\ job'.unchecked = job.unchecked /\ job'.toInstall = job.toInstall /\ job'.result = "none"
    BY <1>0, <2>1 DEF IsTaking, Open, Pending, Same, SafeInv, RequestOK
  <2>3. ApartOK(job, disk, before) => ApartOK(job', disk', before')
    BY <1>0, <2>2 DEF ApartOK, Placed
  <2>4. Collide' <=> Collide
    BY <2>2 DEF Collide
  <2> QED
    BY <1>0, <2>2, <2>3, <2>4 DEF ApartInv
<1> QED
  BY <1>1, <1>2 DEF Download

LEMMA RemoveApart ==
    ASSUME SafeInv, ApartInv, RemoveOld
    PROVE  ApartInv'
<1>1. CASE job' = GoesTo(job, "unpack")
  <2>0. /\ job.at = "remove" /\ IsAt(job', job, "unpack")
        /\ disk' \in [Dirs -> Contents] /\ disk \in [Dirs -> Contents] /\ before' = before
        /\ \A d \in Dirs : IF \E e \in Old : e[1] = d THEN disk'[d] = None ELSE disk'[d] = disk[d]
    BY <1>1, OldIsGone DEF SafeInv
  <2>1. Open(job') = Open(job) /\ Pending(job') = job.plan /\ job.plan \subseteq Pending(job)
        /\ job.now \in Pending(job) /\ job.now \in Open(job)
    BY <2>0 DEF IsAt, Open, Pending
  <2>2. /\ job'.at = "unpack" /\ job'.unchecked = job.unchecked /\ job'.toInstall = job.toInstall
        /\ job'.now = job.now /\ job'.result = "none"
    BY <2>0, NowIs DEF IsAt, Same
  <2>3. ASSUME NEW r, Placed(r, job, disk) PROVE Placed(r, job', disk')
    <3>1. PICK d \in Holds(disk, r[1]) :
            /\ disk[d].v = Version(r)
            /\ \A p \in Open(job) : Goal(p) # d /\ \A e \in p.old : e[1] # d
      BY <2>3 DEF Placed
    <3>2. d \in Dirs /\ disk'[d] = disk[d]
      BY <2>0, <2>1, <3>1, HoldsIs DEF Old
    <3>3. d \in Holds(disk', r[1])
      BY <2>0, <3>1, <3>2, HoldsIs
    <3> QED
      BY <2>1, <3>1, <3>2, <3>3 DEF Placed
  <2>4. ASSUME ~Collide, NEW p \in job.plan PROVE disk'[Goal(p)] = before[Goal(p)]
    <3>1. PlanOK(p, job, before) /\ PlanOK(job.now, job, before) /\ job.now.rel # p.rel
      BY <2>0, <2>4, NowIs
    <3>2. \A e \in Old : e[1] # Goal(p)
      BY <2>0, <3>1, ItemsApart DEF Old
    <3>3. Goal(p) \in Dirs
      BY <3>1, Pairs DEF PlanOK, Items, Goal
    <3> QED
      BY <2>0, <2>1, <2>4, <3>2, <3>3 DEF ApartInv, ApartOK
  <2>5. ASSUME ~Collide PROVE disk'[Goal(job.now)] = None
    <3>1. before[Goal(job.now)] = None \/ \E e \in Old : e[1] = Goal(job.now)
      BY <2>0, NowIs DEF PlanOK, Old
    <3>2. disk[Goal(job.now)] = before[Goal(job.now)] /\ Goal(job.now) \in Dirs
      BY <2>0, <2>1, <2>5, NowIs DEF ApartInv, ApartOK
    <3> QED
      BY <2>0, <3>1, <3>2
  <2>6. ASSUME ~Collide, NEW l \in Libs, Whole(before, l) # {}
        PROVE  Whole(disk', l) # {} \/ l = job.now.rel[1]
    <3>1. PICK d \in Whole(disk, l) : TRUE
      BY <2>0, <2>6 DEF ApartInv, ApartOK
    <3>2. d \in Dirs /\ IsWhole(disk[d]) /\ disk[d].lib = l
      BY <2>0, <3>1, WholeIs
    <3>3. CASE \E e \in Old : e[1] = d
      <4>1. PICK e \in Old : e[1] = d
        BY <3>3
      <4>2. e \in Scan(before) /\ e[2] = job.now.rel[1] /\ before \in [Dirs -> Contents]
        BY <2>0, <4>1, NowIs DEF PlanOK, Old, SafeInv
      <4>3. disk[d] = before[d]
        BY <2>1, <4>1 DEF SafeInv, DiskOK, Old
      <4> QED
        BY <3>2, <4>1, <4>2, <4>3, ScanEntry
    <3>4. CASE \A e \in Old : e[1] # d
      <4>1. disk'[d] = disk[d]
        BY <2>0, <3>2, <3>4
      <4>2. d \in Whole(disk', l)
        BY <2>0, <3>2, <4>1, WholeIs
      <4> QED
        BY <4>2
    <3> QED
      BY <3>3, <3>4
  <2>7. ASSUME ~Collide PROVE ApartOK(job', disk', before')
    <3>1. \A r \in job'.toInstall \ job'.unchecked :
              (\E p \in Open(job') : p.rel = r) \/ Placed(r, job', disk')
      BY <2>0, <2>1, <2>2, <2>3, <2>7 DEF ApartInv, ApartOK
    <3>2. \A p \in Pending(job') : disk'[Goal(p)] = before'[Goal(p)]
      BY <2>0, <2>1, <2>4, <2>7
    <3>3. disk'[Goal(job'.now)] = None
      BY <2>2, <2>5, <2>7
    <3>4. \A l \in Libs : Whole(before', l) # {} =>
              Whole(disk', l) # {} \/ (job'.at = "unpack" /\ l = job'.now.rel[1])
      BY <2>0, <2>2, <2>6, <2>7
    <3> QED
      BY <3>1, <3>2, <3>3, <3>4 DEF ApartOK
  <2>8. Collide' <=> Collide
    BY <2>2 DEF Collide
  <2> QED
    BY <2>2, <2>7, <2>8 DEF ApartInv
<1>2. CASE job' # GoesTo(job, "unpack")
  <2>1. Error("remove") /\ UNCHANGED before
    BY <1>2 DEF RemoveOld
  <2>2. IsEnded(job', job, "remove") /\ "remove" \in Results \ {"ok"}
    BY <2>1, EndedJob DEF Error, SafeInv, Results
  <2> QED
    BY <2>1, <2>2, EndApart
<1> QED
  BY <1>1, <1>2

LEMMA UnpackApart ==
    ASSUME SafeInv, ApartInv, Unpack
    PROVE  ApartInv'
<1>1. CASE job' = GoesTo(job, "check")
  <2>0. /\ job.at = "unpack" /\ IsAt(job', job, "check")
        /\ disk' \in [Dirs -> Contents] /\ disk \in [Dirs -> Contents] /\ before' = before
        /\ disk'[Target] = New /\ \A d \in Dirs \ {Target} : disk'[d] = disk[d]
    BY <1>1, NewIsThere, NowIs DEF SafeInv
  <2>1. Open(job') = job.plan /\ Pending(job') = job.plan /\ Pending(job) = job.plan
        /\ Open(job) = job.plan \cup {job.now}
    BY <2>0 DEF IsAt, Open, Pending
  <2>2. /\ job'.at = "check" /\ job'.unchecked = job.unchecked /\ job'.toInstall = job.toInstall
        /\ job'.result = "none"
    BY <2>0, NowIs DEF IsAt, Same
  <2>3. ASSUME ~Collide, NEW q \in job.plan
        PROVE  Goal(q) # Target /\ Goal(q) \in Dirs /\ \A e \in q.old : e[1] # Target
    <3>1. PlanOK(q, job, before) /\ PlanOK(job.now, job, before) /\ q.rel # job.now.rel /\ job.at # "idle"
          /\ Target = Goal(job.now)
      BY <2>0, <2>3, NowIs
    <3>2. q.rel \in job.toInstall /\ job.now.rel \in job.toInstall /\ Goal(q) \in Dirs
      BY <3>1, Pairs DEF PlanOK, Items, Goal
    <3>3. Goal(q) # Target
      BY <2>3, <3>1, <3>2 DEF Collide, Goal
    <3> QED
      BY <3>1, <3>2, <3>3, ItemsApart
  <2>4. ASSUME ~Collide, NEW r \in job.toInstall \ job.unchecked
        PROVE  (\E p \in job.plan : p.rel = r) \/ Placed(r, job', disk')
    <3>1. CASE r = job.now.rel
      <4>1. Target \in Holds(disk', r[1]) /\ disk'[Target].v = Version(r)
        BY <2>0, <3>1, NowIs, HoldsIs
      <4> QED
        BY <2>1, <2>3, <2>4, <4>1 DEF Placed
    <3>2. CASE Placed(r, job, disk)
      <4>1. PICK d \in Holds(disk, r[1]) :
              /\ disk[d].v = Version(r)
              /\ \A p \in Open(job) : Goal(p) # d /\ \A e \in p.old : e[1] # d
        BY <3>2 DEF Placed
      <4>2. d \in Dirs /\ disk'[d] = disk[d]
        BY <2>0, <2>1, <4>1, HoldsIs, NowIs
      <4>3. d \in Holds(disk', r[1])
        BY <2>0, <4>1, <4>2, HoldsIs
      <4> QED
        BY <2>1, <4>1, <4>2, <4>3 DEF Placed
    <3> QED
      BY <2>0, <2>1, <2>4, <3>1, <3>2 DEF ApartInv, ApartOK
  <2>5. ASSUME ~Collide, NEW l \in Libs, Whole(before, l) # {}
        PROVE  Whole(disk', l) # {}
    <3>1. CASE l = job.now.rel[1]
      <4>1. Target \in Whole(disk', l)
        BY <2>0, <3>1, NowIs, WholeIs DEF IsWhole
      <4> QED
        BY <4>1
    <3>2. CASE Whole(disk, l) # {}
      <4>1. PICK d \in Whole(disk, l) : TRUE
        BY <3>2
      <4>2. d \in Dirs /\ IsWhole(disk[d]) /\ disk[d].lib = l
        BY <2>0, <4>1, WholeIs
      <4>3. disk[Target] = None
        BY <2>0, <2>5, NowIs DEF ApartInv, ApartOK
      <4>4. d # Target
        BY <4>2, <4>3, ContentsAre DEF IsWhole
      <4>5. d \in Whole(disk', l)
        BY <2>0, <4>2, <4>4, WholeIs
      <4> QED
        BY <4>5
    <3> QED
      BY <2>0, <2>5, <3>1, <3>2 DEF ApartInv, ApartOK
  <2>6. ASSUME ~Collide PROVE ApartOK(job', disk', before')
    <3>1. \A p \in job.plan : disk'[Goal(p)] = before[Goal(p)]
      BY <2>0, <2>1, <2>3, <2>6 DEF ApartInv, ApartOK
    <3> QED
      BY <2>0, <2>1, <2>2, <2>4, <2>5, <2>6, <3>1 DEF ApartOK
  <2>7. Collide' <=> Collide
    BY <2>2 DEF Collide
  <2> QED
    BY <2>2, <2>6, <2>7 DEF ApartInv
<1>2. CASE job' # GoesTo(job, "check")
  <2>1. UNCHANGED before /\ \E r \in {"unpack", "move"} : Error(r)
    BY <1>2 DEF Unpack
  <2>2. PICK r \in {"unpack", "move"} : Error(r)
    BY <2>1
  <2>3. IsEnded(job', job, r) /\ r \in Results \ {"ok"} /\ r # "fetch"
    BY <2>2, EndedJob DEF Error, SafeInv, Results
  <2> QED
    BY <2>1, <2>3, EndApart
<1> QED
  BY <1>1, <1>2

LEMMA FinishApart ==
    ASSUME SafeInv, ApartInv, Finish
    PROVE  ApartInv'
<1>1. IsEnded(job', job, "ok") /\ UNCHANGED <<disk, before>>
  BY EndedJob DEF Finish, SafeInv, Results
<1>2. Open(job) = {} /\ job.at # "idle" /\ job.unchecked = {}
  BY DEF Finish, Open
<1>3. job'.at = "idle" /\ job'.result = "ok" /\ job'.toInstall = job.toInstall
  BY <1>1 DEF IsEnded
<1>4. ~Collide => \A r \in job.toInstall : \E d \in Holds(disk, r[1]) : disk[d].v = Version(r)
  BY <1>2 DEF ApartInv, ApartOK, Placed
<1>5. Collide' <=> Collide
  BY <1>3 DEF Collide
<1> QED
  BY <1>1, <1>3, <1>4, <1>5 DEF ApartInv

LEMMA StepApart ==
    ASSUME SafeInv, ApartInv, SafeInv', Next
    PROVE  ApartInv'
<1>1. CASE Kill
  <2>1. IsEnded(job', job, "killed") /\ "killed" \in Results \ {"ok"} /\ UNCHANGED before
    BY <1>1, EndedJob DEF Kill, SafeInv, Results
  <2> QED
    BY <2>1, EndApart
<1>2. CASE Uninstall
  <2>1. job'.op = "uninstall" /\ job'.at = "idle" /\ job'.result # "fetch"
    BY <1>2, UninstallCases DEF IsEnded
  <2> QED
    BY <2>1 DEF ApartInv
<1>3. CASE ListUpdatable
  BY <1>3 DEF ListUpdatable, ApartInv, ApartOK, Collide, Placed
<1> QED
  BY <1>1, <1>2, <1>3, AsksApart, CheckApart, DownloadApart, RemoveApart, UnpackApart, FinishApart DEF Next

-----------------------------------------------------------------------------
\* As long as nothing fails, the list has what is in the directories.
LEMMA ForgetsOne ==
    ASSUME SafeInv, known \subseteq Scan(disk), NEW e \in Scan(disk), RemoveAll(e, e[2])
    PROVE  known' \subseteq Scan(disk')
<1>1. /\ disk \in [Dirs -> Contents] /\ e[1] \in Dirs /\ e = <<e[1], disk[e[1]].lib, disk[e[1]].v>>
      /\ \A x \in known : /\ x = <<x[1], disk[x[1]].lib, disk[x[1]].v>> /\ x[1] \in Dirs
                          /\ disk[x[1]] \in LibraryType
  BY ScanEntry DEF SafeInv
<1>2. known' = known \ {e} /\ disk' = [disk EXCEPT ![e[1]] = None] /\ disk' \in [Dirs -> Contents]
  BY <1>1, ContentsAre DEF RemoveAll, Forget
<1>3. \A x \in known' : x[1] # e[1]
  BY <1>1, <1>2
<1>4. \A x \in known' : disk'[x[1]] = disk[x[1]]
  BY <1>1, <1>2, <1>3
<1>5. ASSUME NEW x \in known' PROVE x \in Scan(disk')
  <2>1. disk'[x[1]] \in LibraryType /\ x[1] \in Dirs /\ x = <<x[1], disk'[x[1]].lib, disk'[x[1]].v>>
    BY <1>1, <1>2, <1>4, <1>5
  <2>2. <<x[1], disk'[x[1]].lib, disk'[x[1]].v>> \in Scan(disk')
    BY <1>2, <2>1, EntryOf
  <2> QED
    BY <2>1, <2>2
<1> QED
  BY <1>5

LEMMA ListOfCheck ==
    ASSUME SafeInv, ListInv, NEW r \in job.unchecked, Check(r)
    PROVE  ListInv'
<1> DEFINE old == {e \in Scan(disk) : e[2] = r[1]}
           new == [rel |-> r, old |-> old]
<1>0. job.at = "check" /\ known' = Scan(disk') /\ UNCHANGED <<world, disk>> /\ r \in job.toInstall
  BY DEF Check, SafeInv, RequestOK
<1>1. CASE Error("refused")
  <2>1. IsEnded(job', job, "refused")
    BY <1>1, EndedJob DEF Error, SafeInv, Results
  <2>2. Pending(job') = {}
    BY <2>1 DEF IsEnded, Pending
  <2> QED
    BY <1>0, <2>2 DEF ListInv
<1>2. CASE ~Error("refused")
  <2>1. (job.op # "import" /\ IsChecked(job', job, r)) \/ IsPlanned(job', job, r, old)
    BY <1>2, CheckCases
  <2>2. CASE job.op = "import"
    <3>1. IsPlanned(job', job, r, old) /\ Pending(job') = job'.plan
      BY <1>0, <2>1, <2>2 DEF IsPlanned, Pending
    <3>2. job.plan = {}
      BY <1>0, <2>2 DEF SafeInv, RequestOK, PlanOK, Open
    <3>3. job'.plan = {new} /\ new.rel = r /\ job'.rescanned = r[1]
      BY <3>1, <3>2 DEF IsPlanned
    <3> QED
      BY <1>0, <3>1, <3>3 DEF ListInv
  <2>3. CASE job.op # "import"
    <3>1. job'.op # "import"
      BY <2>1, <2>3 DEF IsChecked, IsPlanned, Same
    <3> QED
      BY <1>0, <3>1 DEF ListInv
  <2> QED
    BY <2>2, <2>3
<1> QED
  BY <1>1, <1>2

LEMMA ListOfRemoval ==
    ASSUME SafeInv, ListInv, RemoveOld
    PROVE  ListInv'
<1> SUFFICES ASSUME world'.fails = {}
             PROVE  /\ job'.at = "idle" \/ job'.op = "import" => known' \subseteq Scan(disk')
                    /\ job'.op = "import" => \A p \in Pending(job') : job'.rescanned = p.rel[1]
  BY DEF ListInv
<1>0. world' = world /\ world.fails = {}
  BY DEF RemoveOld
<1>1. /\ job' = GoesTo(job, "unpack")
      /\ (Old = {} /\ UNCHANGED <<disk, known>>) \/ (\E e \in Old : RemoveAll(e, job.rescanned))
  BY <1>0 DEF RemoveOld, RemoveFails
<1>2. /\ job.at = "remove" /\ IsAt(job', job, "unpack")
  BY <1>1, OldIsGone
<1>3. job'.at = "unpack" /\ job'.op = job.op /\ Pending(job') \subseteq Pending(job)
      /\ job.now \in Pending(job) /\ job'.rescanned = job.rescanned
  BY <1>2 DEF IsAt, Pending, Same
<1>4. ASSUME job.op = "import" PROVE known' \subseteq Scan(disk')
  <2>1. known \subseteq Scan(disk) /\ job.rescanned = job.now.rel[1]
    BY <1>0, <1>3, <1>4 DEF ListInv
  <2>2. CASE UNCHANGED <<disk, known>>
    BY <2>1, <2>2
  <2>3. CASE \E e \in Old : RemoveAll(e, job.rescanned)
    <3>1. PICK e \in Old : RemoveAll(e, job.rescanned)
      BY <2>3
    <3>2. /\ e[2] = job.rescanned /\ e \in Scan(before) /\ disk[e[1]] = before[e[1]]
          /\ before \in [Dirs -> Contents] /\ disk \in [Dirs -> Contents]
      <4>1. e[2] = job.now.rel[1] /\ e \in Scan(before)
        BY <1>2, <3>1, NowIs DEF PlanOK, Old
      <4>2. disk[e[1]] = before[e[1]]
        BY <1>3, <3>1 DEF Old, SafeInv, DiskOK
      <4> QED
        BY <2>1, <4>1, <4>2 DEF SafeInv
    <3>3. e[1] \in Dirs /\ disk[e[1]] \in LibraryType /\ e = <<e[1], disk[e[1]].lib, disk[e[1]].v>>
      BY <3>2, ScanEntry
    <3>4. e \in Scan(disk)
      BY <3>2, <3>3, EntryOf
    <3> QED
      BY <2>1, <3>1, <3>2, <3>4, ForgetsOne
  <2> QED
    BY <1>1, <2>2, <2>3
<1>5. job.op = "import" => \A p \in Pending(job) : job.rescanned = p.rel[1]
  BY <1>0 DEF ListInv
<1> QED
  BY <1>3, <1>4, <1>5

LEMMA ListOfUnpacking ==
    ASSUME SafeInv, ApartInv, ListInv, Unpack
    PROVE  ListInv'
<1> SUFFICES ASSUME world'.fails = {}
             PROVE  /\ job'.at = "idle" \/ job'.op = "import" => known' \subseteq Scan(disk')
                    /\ job'.op = "import" => \A p \in Pending(job') : job'.rescanned = p.rel[1]
  BY DEF ListInv
<1>0. world' = world /\ world.fails = {} /\ known' = known
  BY DEF Unpack
<1>1. job' = GoesTo(job, "check")
  BY <1>0 DEF Unpack
<1>2. /\ job.at = "unpack" /\ IsAt(job', job, "check")
      /\ disk' \in [Dirs -> Contents] /\ disk' = [disk EXCEPT ![Target] = New]
      /\ Target \in Dirs /\ Target = Goal(job.now) /\ disk \in [Dirs -> Contents]
  BY <1>1, NewIsThere, NowIs DEF SafeInv
<1>3. job'.at = "check" /\ job'.op = job.op /\ Pending(job') = Pending(job)
      /\ job'.rescanned = job.rescanned
  BY <1>2 DEF IsAt, Pending, Same
<1>4. ASSUME job.op = "import" PROVE known' \subseteq Scan(disk')
  <2>1. ~Collide
    BY <1>2, <1>4 DEF Collide, SafeInv, RequestOK
  <2>2. disk[Target] = None
    BY <1>2, <2>1 DEF ApartInv, ApartOK
  <2>3. known \subseteq Scan(disk)
    BY <1>0, <1>4 DEF ListInv
  <2>4. \A x \in known : /\ x = <<x[1], disk[x[1]].lib, disk[x[1]].v>> /\ x[1] \in Dirs
                         /\ disk[x[1]] \in LibraryType
    BY <1>2, <2>3, ScanEntry
  <2>5. \A x \in known : disk'[x[1]] = disk[x[1]]
    BY <1>2, <2>2, <2>4, ContentsAre
  <2>6. ASSUME NEW x \in known PROVE x \in Scan(disk')
    <3>1. disk'[x[1]] \in LibraryType /\ x[1] \in Dirs /\ x = <<x[1], disk'[x[1]].lib, disk'[x[1]].v>>
      BY <2>4, <2>5, <2>6
    <3>2. <<x[1], disk'[x[1]].lib, disk'[x[1]].v>> \in Scan(disk')
      BY <1>2, <3>1, EntryOf
    <3> QED
      BY <3>1, <3>2
  <2> QED
    BY <1>0, <2>6
<1>5. job.op = "import" => \A p \in Pending(job) : job.rescanned = p.rel[1]
  BY <1>0 DEF ListInv
<1> QED
  BY <1>3, <1>4, <1>5

\* A step that leaves the directories, the list and the faults alone.
LEMMA ListStays ==
    ASSUME ListInv, UNCHANGED <<disk, known>>, world' = world,
           job'.at = "idle" \/ job'.op = "import" => job.at = "idle" \/ job.op = "import",
           job'.op = "import" => \A p \in Pending(job') : job'.rescanned = p.rel[1]
    PROVE  ListInv'
BY DEF ListInv

LEMMA StepList ==
    ASSUME SafeInv, ApartInv, ListInv, Next
    PROVE  ListInv'
<1>1. CASE Install \/ UpgradeNext \/ Import
  <2>1. job.at = "idle" /\ UNCHANGED <<world, disk, known>>
    BY <1>1 DEF Install, UpgradeNext, Import, NewRequest, Free
  <2>2. Pending(job') = {}
    <3>1. \E op, S, noOverwrite : job' = Asks(op, S, noOverwrite)
      BY <1>1 DEF Install, UpgradeNext, Import, Begin
    <3>2. job'.plan = {} /\ job'.at = "check"
      BY <3>1 DEF Asks, Idle
    <3> QED
      BY <3>2 DEF Pending
  <2> QED
    BY <2>1, <2>2, ListStays
<1>2. CASE ListUpdatable
  BY <1>2, ListStays DEF ListUpdatable, ListInv, Pending
<1>3. CASE Uninstall
  <2> SUFFICES ASSUME world.fails = {}, world' = world
               PROVE  known' \subseteq Scan(disk')
    BY <1>3, UninstallCases DEF ListInv, Uninstall
  <2>1. PICK l \in Libs, v \in Nat :
               \/ UNCHANGED <<disk, known>>
               \/ \E e \in known : e[2] = l /\ (RemoveAll(e, l) \/ RemoveFails(e))
    BY <1>3, UninstallCases
  <2>2. known \subseteq Scan(disk)
    BY <1>3 DEF ListInv, Uninstall, NewRequest, Free
  <2>3. CASE \E e \in known : e[2] = l /\ (RemoveAll(e, l) \/ RemoveFails(e))
    <3>1. PICK e \in known : e[2] = l /\ RemoveAll(e, l)
      BY <2>3 DEF RemoveFails
    <3> QED
      BY <2>2, <3>1, ForgetsOne
  <2> QED
    BY <2>1, <2>2, <2>3
<1>4. ASSUME NEW p \in job.plan, Download(p) PROVE ListInv'
  <2>0. job.at = "check" /\ UNCHANGED <<world, disk, known>>
    BY <1>4 DEF Download
  <2>1. CASE job' = Takes(job, p)
    <3>1. IsTaking(job', job, p)
      BY <2>1, TakingJob DEF SafeInv
    <3>2. Pending(job') = Pending(job) /\ job'.at = "remove" /\ job'.op = job.op
          /\ job'.rescanned = job.rescanned
      BY <2>0, <3>1 DEF IsTaking, Pending, Same
    <3> QED
      BY <2>0, <3>2 DEF ListInv
  <2>2. CASE "fetch" \in world.fails
    BY <2>0, <2>2 DEF ListInv
  <2> QED
    BY <1>4, <2>1, <2>2 DEF Download
<1>5. CASE Finish
  <2>1. IsEnded(job', job, "ok")
    BY <1>5, EndedJob DEF Finish, SafeInv, Results
  <2>2. Pending(job') = {} /\ job'.op = job.op
    BY <2>1 DEF IsEnded, Pending
  <2> QED
    BY <1>5, <2>2 DEF Finish, ListInv
<1>6. CASE Kill
  <2>1. "kill" \in world'.fails
    BY <1>6 DEF Kill
  <2> QED
    BY <2>1 DEF ListInv
<1> QED
  BY <1>1, <1>2, <1>3, <1>4, <1>5, <1>6, ListOfCheck, ListOfRemoval, ListOfUnpacking DEF Next

-----------------------------------------------------------------------------
\* The inductive invariant.
THEOREM RequestInvariant == Spec => []RequestInv
<1>1. Init => RequestInv
  <2> SUFFICES ASSUME Init PROVE RequestInv
    OBVIOUS
  <2>1. SafeInv
    BY InitSafe
  <2>2. job.at = "idle" /\ job.result = "none" /\ known = Scan(disk) /\ Pending(job) = {}
    BY IdleJob DEF Init, Pending
  <2> QED
    BY <2>1, <2>2 DEF RequestInv, ApartInv, ListInv
<1>2. RequestInv /\ [Next]_vars => RequestInv'
  <2> SUFFICES ASSUME RequestInv, [Next]_vars PROVE RequestInv'
    OBVIOUS
  <2>1. CASE Next
    <3>1. SafeInv'
      BY <2>1, StepSafe DEF RequestInv
    <3>2. ApartInv' /\ ListInv'
      BY <2>1, <3>1, StepApart, StepList DEF RequestInv
    <3> QED
      BY <3>1, <3>2 DEF RequestInv
  <2>2. CASE UNCHANGED vars
    BY <2>2 DEF vars, RequestInv, SafeInv, ApartInv, ListInv, RequestOK, DiskOK, ListOK, OneEach,
                ApartOK, Placed, Collide, Pending, Open, PlanOK, Whole, Holds
  <2> QED
    BY <2>1, <2>2
<1> QED
  BY <1>1, <1>2, PTL DEF Spec

\* The types are right, and in whatever order requests come, whatever they depend on, wherever
\* the user keeps a library and whatever fails or is killed: no library is there twice.
\* InstallPrerequisiteCheck refuses a name that it finds twice, and a target that is not
\* the library's own; it looks before the first removal and never again.
THEOREM NeverTwice == Spec => []LibraryInv
<1>1. RequestInv => LibraryInv
  <2> SUFFICES ASSUME RequestInv PROVE LibraryInv
    OBVIOUS
  <2>1. SafeInv
    BY DEF RequestInv
  <2>2. NoTwins
    <3>1. \A l \in Libs : IsFiniteSet(Whole(disk, l))
      BY FS_Subset DEF Whole, Holds
    <3> QED
      BY <2>1, <3>1, AtMostOne DEF NoTwins, NoneTwice, SafeInv, OneEach
  <2>3. TypeOK
    <3>1. /\ world \in Worlds /\ requests \in Nat /\ upgrading \subseteq Libs
          /\ disk \in [Dirs -> Contents] /\ before \in [Dirs -> Contents]
          /\ known \subseteq Dirs \X Libs \X Nat
      BY <2>1 DEF SafeInv, Entries
    <3>2. /\ job.at \in {"idle", "check", "remove", "unpack"}
          /\ job.result \in {"none", "ok", "refused", "fetch", "unpack", "move", "remove", "killed"}
          /\ job.toInstall \subseteq Libs \X Nat
      BY <2>1 DEF SafeInv, JobType, Results
    <3>3. job.unchecked \subseteq job.toInstall
          /\ {p.rel : p \in job.plan} \subseteq job.toInstall \ job.unchecked
      <4>1. CASE job.at = "idle"
        BY <2>1, <4>1 DEF SafeInv, RequestOK
      <4>2. CASE job.at # "idle"
        BY <2>1, <4>2 DEF SafeInv, RequestOK, PlanOK, Open
      <4> QED
        BY <4>1, <4>2
    <3>4. job.at \in {"remove", "unpack"} => job.now.rel \in job.toInstall \ job.unchecked
      BY <2>1, NowIs
    <3> QED
      BY <3>1, <3>2, <3>3, <3>4 DEF TypeOK
  <2> QED
    BY <2>2, <2>3 DEF LibraryInv
<1> QED
  BY <1>1, RequestInvariant, PTL

\* No step of a request touches a library that the request does not name and has not resolved:
\* resources/install.go removes whatever is in the way, and what is in the way is a library of
\* the request.
THEOREM OthersStay == Spec => OthersAreKept
<1>1. RequestInv /\ [Next]_vars =>
        [\A d \in Dirs : disk[d] # disk'[d] /\ disk[d] \notin {None, Junk} /\ disk[d].whole =>
             \E r \in job.toInstall \cup job'.toInstall : disk[d].lib = r[1]]_vars
  <2> SUFFICES ASSUME RequestInv, Next, NEW d \in Dirs, disk[d] # disk'[d],
                      disk[d] \notin {None, Junk}, disk[d].whole
               PROVE  \E r \in job.toInstall \cup job'.toInstall : disk[d].lib = r[1]
    OBVIOUS
  <2>1. IsWhole(disk[d])
    BY ContentsAre DEF IsWhole, RequestInv, SafeInv
  <2> QED
    BY <2>1, StepKeepsOthers DEF RequestInv
<1> QED
  BY <1>1, RequestInvariant, PTL DEF Spec, OthersAreKept

\* An installation, an upgrade or an import that is answered without an error has in place every
\* release that it chose, the up to date ones included, unless two of them go into one directory.
THEOREM ClosureIsInstalled == Spec => []InstallsTheClosure
<1>1. RequestInv => InstallsTheClosure
  <2>1. SafeInv /\ job.result = "ok" => job.at = "idle"
    BY DEF SafeInv, RequestOK
  <2> QED
    BY <2>1 DEF RequestInv, ApartInv, InstallsTheClosure
<1> QED
  BY <1>1, RequestInvariant, PTL

\* A request that is refused has changed nothing; with NoOverwrite nothing that was there is
\* changed; a failed download has lost no library, unless two of the request collide.
THEOREM NothingIsLost == Spec => []WhatIsThereIsKept
<1>1. RequestInv => WhatIsThereIsKept
  BY DEF RequestInv, SafeInv, DiskOK, ApartInv, WhatIsThereIsKept
<1> QED
  BY <1>1, RequestInvariant, PTL

\* As long as nothing fails, what the LibrariesManager lists between two requests is there.
THEOREM NoGhosts == Spec => []ListedIsThere
<1>1. RequestInv => ListedIsThere
  BY DEF RequestInv, ListInv, ListedIsThere
<1> QED
  BY <1>1, RequestInvariant, PTL
=============================================================================
