------------------------------ MODULE IndexUpdate ------------------------------
(***************************************************************************)
(* The update of the index files (commands/instances.go UpdateIndex and    *)
(* UpdateLibrariesIndex, resources/index.go Download): download into a     *)
(* directory of its own, verification, replacement of the index and of its *)
(* signature, rollback.  Nothing locks the index directory: requests of    *)
(* the daemon and of other processes run beside each other.  Version n of  *)
(* a signature is that of version n of the index.                          *)
(***************************************************************************)
EXTENDS Integers, Sequences, FiniteSets

CONSTANTS Jobs,              \* requests under way
          Libraries,         \* library_index
          Packages,          \* the package indexes, a sequence: DefaultIndexURL, then the others
          Archives,          \* indexes that come in a .tar.bz2, with the signature in it
          WithSignatureURL,  \* indexes whose signature is a file of its own
          MaxVersion,
          Worlds,            \* see WorldsOK
          Torn, Garbled      \* a file half written; a download that is not an index

Nothing  == 0
Versions == 1 .. MaxVersion
Contents == Versions \cup {Nothing, Torn, Garbled}
Indexes  == {Libraries} \cup {Packages[i] : i \in DOMAIN Packages}
Signed   == Archives \cup WithSignatureURL

ASSUME IndexesOK == /\ Packages \in Seq(Indexes) /\ Signed \subseteq Indexes /\ MaxVersion \in Nat \ {0}
                    /\ Libraries \in Archives /\ Archives \cap WithSignatureURL = {}
                    /\ Libraries \notin {Packages[i] : i \in DOMAIN Packages}
                    /\ Torn \notin Nat /\ Garbled \notin Nat /\ Torn # Garbled

ASSUME WorldsOK == \A w \in Worlds :
    /\ w.jobs \in Nat \ {0}          \* requests at once
    /\ w.requests \in Nat            \* requests in all
    /\ w.asks \subseteq {"libraries", "packages", "first"}
    /\ w.older \subseteq BOOLEAN     \* whether update_if_older_than_secs is given
    /\ w.changes \in Nat             \* new versions on the server
    /\ w.start \in [Indexes -> {Nothing, 1}]
    /\ w.fails \subseteq {"config", "download", "garbled", "unsigned", "backup", "copy", "rollback", "kill"}

VARIABLES world, requests, changes,
          served,        \* served[i]: the version the server has
          index, sig,    \* the files of the index directory
          recent,        \* indexes whose file is younger than update_if_older_than_secs
          job,           \* see NoRequest
          damaged,       \* history: indexes that were left in a state Download does not undo
          spoiled        \* history: files <<i, "index">> and <<i, "sig">> that two requests
                         \* wrote at once, or one wrote only in part

serverVars  == <<world, changes, served>>
fileVars    == <<index, sig, recent>>
historyVars == <<damaged, spoiled>>
indexVars == <<serverVars, requests, fileVars, job, historyVars>>

NoRequest ==
    [at |-> "idle", todo |-> <<>>, ifOlder |-> FALSE,
     tmp |-> Nothing, tmpSig |-> Nothing, old |-> Nothing, oldSig |-> Nothing,
     report |-> [i \in Indexes |-> "none"],
     before |-> [i \in Indexes |-> <<Nothing, Nothing, Nothing>>]]
     \* before[i], history: index, signature and served version when Download began

IndexInit ==
    /\ world \in Worlds
    /\ requests = world.requests /\ changes = world.changes
    /\ served = [i \in Indexes |-> 1]
    /\ index = world.start
    /\ sig = [i \in Indexes |-> IF i \in Signed THEN index[i] ELSE Nothing]
    /\ recent = {}
    /\ job = [c \in Jobs |-> NoRequest]
    /\ damaged = {} /\ spoiled = {}

-----------------------------------------------------------------------------
\* The environment: the server publishes, time passes.

Publish(i) ==
    /\ changes > 0 /\ served[i] < MaxVersion
    /\ changes' = changes - 1 /\ served' = [served EXCEPT ![i] = @ + 1]
    /\ UNCHANGED <<world, requests, fileVars, job, historyVars>>

Age(i) ==
    /\ TRUE \in world.older /\ i \in recent /\ recent' = recent \ {i}
    /\ UNCHANGED <<serverVars, requests, index, sig, job, historyVars>>

-----------------------------------------------------------------------------
\* A request: UpdateLibrariesIndex, UpdateIndex, or the firstUpdate of Init, which
\* looks only whether the files exist.

Busy    == {c \in Jobs : job[c].at # "idle"}
Missing == {i \in Indexes : index[i] = Nothing}

Urls(ask) ==
    (IF ask = "libraries" \/ (ask = "first" /\ Libraries \in Missing) THEN <<Libraries>> ELSE <<>>)
    \o (IF ask = "packages" \/ (ask = "first" /\ Missing \ {Libraries} # {}) THEN Packages ELSE <<>>)

\* What a request is at: it begins, goes to a step, begins an index of which b is there, has
\* downloaded (v, s), has saved (v, s), or is through with an index.
Asks(urls, older)   == [NoRequest EXCEPT !.at = "next", !.todo = urls, !.ifOlder = older]
GoesTo(j, l)        == [j EXCEPT !.at = l]
Begins(j, b)        == [j EXCEPT !.at = "download", !.before = [@ EXCEPT ![Head(j.todo)] = b]]
Fetches(j, l, v, s) == [j EXCEPT !.at = l, !.tmp = v, !.tmpSig = s]
Saves(j, v, s)      == [j EXCEPT !.at = "copy", !.old = v, !.oldSig = s]

\* UpdateLibrariesIndex returns its error, and firstUpdate with it; UpdateIndex goes on
\* with the next URL.
Remaining(j, result) ==
    IF Head(j.todo) = Libraries /\ result \in {"failed", "none"} THEN <<>> ELSE Tail(j.todo)

Closes(j, result) == [j EXCEPT !.at = "next", !.todo = Remaining(j, result),
                               !.tmp = Nothing, !.tmpSig = Nothing, !.old = Nothing, !.oldSig = Nothing,
                               !.report = [@ EXCEPT ![Head(j.todo)] = result]]

Request(c) ==
    /\ c \notin Busy /\ Cardinality(Busy) < world.jobs
    /\ requests > 0 /\ requests' = requests - 1
    /\ \E ask \in world.asks, older \in world.older :
           /\ ask = "first" => ~older /\ Missing # {}
           /\ job' = [job EXCEPT ![c] = Asks(Urls(ask), older)]
    /\ UNCHANGED <<serverVars, fileVars, historyVars>>

Replacing == {"copying", "copySig", "copyingSig", "rollback", "rollingBack"}

Now(c)   == Head(job[c].todo)                \* the index that is being updated
At(c, l) == job[c].at = l

Done(c, result) == job' = [job EXCEPT ![c] = Closes(@, result)]

UpToDate(c) == job[c].ifOlder /\ index[Now(c)] # Nothing /\ Now(c) \in recent

NextIndex(c) ==
    /\ At(c, "next") /\ job[c].todo # <<>>
    /\ \/ UpToDate(c) /\ Done(c, "uptodate")
       \/ ~UpToDate(c) /\ "config" \in world.fails /\ Done(c, "none")
       \/ /\ ~UpToDate(c)
          /\ job' = [job EXCEPT ![c] = Begins(@, <<index[Now(c)], sig[Now(c)], served[Now(c)]>>)]
    /\ UNCHANGED <<serverVars, requests, fileVars, historyVars>>

Answer(c) ==
    /\ At(c, "next") /\ job[c].todo = <<>> /\ job' = [job EXCEPT ![c] = NoRequest]
    /\ UNCHANGED <<serverVars, requests, fileVars, historyVars>>

-----------------------------------------------------------------------------
\* IndexResource.Download.

Goes(c, l) == job' = [job EXCEPT ![c] = GoesTo(@, l)]
Quietly == UNCHANGED <<serverVars, requests, fileVars, historyVars>>

Fails(c, fault) == fault \in world.fails /\ Done(c, "failed")

Offered(v) == {v} \cup (IF "garbled" \in world.fails THEN {Garbled} ELSE {})

\* What is no archive cannot be extracted; an archive may hold a file that is no index, or
\* no signature.
DownloadIndex(c) ==
    /\ At(c, "download")
    /\ LET i == Now(c) IN
       \/ Fails(c, "download")
       \/ /\ i \in Archives
          /\ \E v \in Offered(served[i]),
                s \in {served[i]} \cup (IF "unsigned" \in world.fails THEN {Nothing} ELSE {}) :
                 job' = [job EXCEPT ![c] = Fetches(@, "verify", v, s)]
       \/ /\ i \notin Archives
          /\ \E v \in Offered(served[i]) :
                 job' = [job EXCEPT ![c] =
                            Fetches(@, IF i \in WithSignatureURL THEN "signature" ELSE "verify", v, Nothing)]
    /\ Quietly

DownloadSignature(c) ==
    /\ At(c, "signature")
    /\ \/ Fails(c, "download")
       \/ \E s \in Offered(served[Now(c)]) :
              job' = [job EXCEPT ![c] = Fetches(@, "verify", @.tmp, s)]
    /\ Quietly

HasSignature(c) == job[c].tmpSig # Nothing

\* VerifyArduinoDetachedSignature
Valid(i, s) == i \in Versions /\ s = i

\* Mutant: a signature that does not match is not an error.
VerifyLoosely(c) ==
    /\ At(c, "verify")
    /\ IF ~HasSignature(c) /\ Now(c) = Libraries THEN Done(c, "failed") ELSE Goes(c, "backup")
    /\ Quietly

\* EnforceSignatureVerification is set for the libraries only.
Verify(c) ==
    /\ At(c, "verify")
    /\ IF IF HasSignature(c) THEN Valid(job[c].tmp, job[c].tmpSig) ELSE Now(c) # Libraries
       THEN Goes(c, "backup") ELSE Done(c, "failed")
    /\ Quietly

\* The old signature is never saved: what is tested for existence is the path of the
\* copy that is to be made.
OldSignatureExists == FALSE

Backup(c) ==
    /\ At(c, "backup")
    /\ LET i == Now(c) IN
       \/ index[i] # Nothing /\ Fails(c, "backup")
       \/ job' = [job EXCEPT ![c] = Saves(@, index[i], IF OldSignatureExists THEN sig[i] ELSE Nothing)]
    /\ Quietly

\* CopyTo truncates the destination, then writes.  Two that write one file leave what one
\* of them wrote, or a mixture.
Truncate(f, i) == [f EXCEPT ![i] = Torn]

IndexFile(c)     == <<Now(c), "index">>
SignatureFile(c) == <<Now(c), "sig">>

IsWriting(c, f) == \/ job[c].at \in {"copying", "rollingBack"} /\ f = IndexFile(c)
                   \/ At(c, "copyingSig") /\ f = SignatureFile(c)

Opens(c, f) ==
    spoiled' = IF \E d \in Jobs \ {c} : IsWriting(d, f) THEN spoiled \cup {f} ELSE spoiled \ {f}
Spoils(f, when) == spoiled' = IF when THEN spoiled \cup {f} ELSE spoiled

Written(v, f) == {v} \cup (IF f \in spoiled THEN {Torn} ELSE {})

BeginCopy(c) ==
    /\ At(c, "copy")
    /\ index' = Truncate(index, Now(c)) /\ recent' = recent \cup {Now(c)}
    /\ Opens(c, IndexFile(c)) /\ Goes(c, "copying")
    /\ UNCHANGED <<serverVars, requests, sig, damaged>>

\* The deferred rollback, or the end if there was no index before.
Rollback(c) == IF job[c].old = Nothing THEN Done(c, "failed") ELSE Goes(c, "rollback")

Damage(c, when) == damaged' = IF when THEN damaged \cup {Now(c)} ELSE damaged

\* Mutant: the signature is not copied.
EndCopyIndexOnly(c) ==
    /\ At(c, "copying")
    /\ \/ /\ "copy" \in world.fails /\ UNCHANGED index /\ Spoils(IndexFile(c), TRUE)
          /\ Damage(c, job[c].old = Nothing) /\ Rollback(c)
       \/ /\ index' = [index EXCEPT ![Now(c)] = job[c].tmp] /\ UNCHANGED spoiled
          /\ Goes(c, "commit") /\ Damage(c, ~HasSignature(c))
    /\ UNCHANGED <<serverVars, requests, sig, recent>>

EndCopy(c) ==
    /\ At(c, "copying")
    /\ \/ /\ "copy" \in world.fails /\ UNCHANGED index /\ Spoils(IndexFile(c), TRUE)
          /\ Damage(c, job[c].old = Nothing) /\ Rollback(c)
       \/ /\ \E v \in Written(job[c].tmp, IndexFile(c)) : index' = [index EXCEPT ![Now(c)] = v]
          /\ Goes(c, IF HasSignature(c) THEN "copySig" ELSE "commit")
          /\ Damage(c, ~HasSignature(c)) /\ UNCHANGED spoiled
    /\ UNCHANGED <<serverVars, requests, sig, recent>>

BeginCopySignature(c) ==
    /\ At(c, "copySig")
    /\ sig' = Truncate(sig, Now(c)) /\ Opens(c, SignatureFile(c)) /\ Goes(c, "copyingSig")
    /\ UNCHANGED <<serverVars, requests, index, recent, damaged>>

EndCopySignature(c) ==
    /\ At(c, "copyingSig")
    /\ \/ /\ "copy" \in world.fails /\ UNCHANGED sig /\ Spoils(SignatureFile(c), TRUE)
          /\ Damage(c, TRUE) /\ Rollback(c)
       \/ /\ \E s \in Written(job[c].tmpSig, SignatureFile(c)) : sig' = [sig EXCEPT ![Now(c)] = s]
          /\ Goes(c, "commit") /\ UNCHANGED historyVars
    /\ UNCHANGED <<serverVars, requests, index, recent>>

\* The copy of the old index is removed, so that the deferred rollback finds none.
CommitIndex(c) ==
    /\ At(c, "commit") /\ Done(c, "updated")
    /\ damaged' = IF HasSignature(c) THEN damaged \ {Now(c)} ELSE damaged
    /\ UNCHANGED <<serverVars, requests, fileVars, spoiled>>

BeginRollback(c) ==
    /\ At(c, "rollback")
    /\ index' = Truncate(index, Now(c)) /\ recent' = recent \cup {Now(c)}
    /\ Opens(c, IndexFile(c)) /\ Goes(c, "rollingBack")
    /\ UNCHANGED <<serverVars, requests, sig, damaged>>

\* Mutant: the copy that failed is put back.
EndRollbackToNew(c) ==
    /\ At(c, "rollingBack")
    /\ index' = [index EXCEPT ![Now(c)] = job[c].tmp] /\ Done(c, "failed")
    /\ UNCHANGED <<serverVars, requests, sig, recent, historyVars>>

\* Its errors are dropped; what was saved may itself be half a file.
EndRollback(c) ==
    /\ At(c, "rollingBack")
    /\ \/ /\ "rollback" \in world.fails /\ UNCHANGED index
          /\ Damage(c, TRUE) /\ Spoils(IndexFile(c), TRUE)
       \/ /\ \E v \in Written(job[c].old, IndexFile(c)) : index' = [index EXCEPT ![Now(c)] = v]
          /\ UNCHANGED damaged /\ Spoils(IndexFile(c), job[c].old = Torn)
    /\ Done(c, "failed")
    /\ UNCHANGED <<serverVars, requests, sig, recent>>

-----------------------------------------------------------------------------
Files == Indexes \X {"index", "sig"}

\* The process ends, the next one starts.
Kill ==
    /\ "kill" \in world.fails /\ Busy # {}
    /\ damaged' = damaged \cup {Now(c) : c \in {d \in Jobs : job[d].at \in Replacing}}
    /\ spoiled' = spoiled \cup {f \in Files : \E c \in Jobs : IsWriting(c, f)}
    /\ job' = [c \in Jobs |-> NoRequest]
    /\ UNCHANGED <<serverVars, requests, fileVars>>

-----------------------------------------------------------------------------
Download(c) ==
    \/ DownloadIndex(c) \/ DownloadSignature(c) \/ Verify(c) \/ Backup(c)
    \/ BeginCopy(c) \/ EndCopy(c) \/ BeginCopySignature(c) \/ EndCopySignature(c) \/ CommitIndex(c)
    \/ BeginRollback(c) \/ EndRollback(c)

IndexNext ==
    \/ \E c \in Jobs : Request(c) \/ NextIndex(c) \/ Answer(c) \/ Download(c)
    \/ \E i \in Indexes : Publish(i) \/ Age(i)
    \/ Kill

IndexSpec == IndexInit /\ [][IndexNext]_indexVars

-----------------------------------------------------------------------------
\* The domains of the variables; a job that replaces an index has downloaded one.
IndexTypes ==
    /\ world \in Worlds /\ requests \in Nat /\ changes \in Nat
    /\ served \in [Indexes -> Versions]
    /\ index \in [Indexes -> Contents] /\ sig \in [Indexes -> Contents]
    /\ recent \subseteq Indexes /\ damaged \subseteq Indexes /\ spoiled \subseteq Files
    /\ \A c \in Jobs : /\ job[c].tmp \in Contents /\ job[c].tmpSig \in Contents
                       /\ job[c].report \in [Indexes -> {"none", "uptodate", "failed", "updated"}]
                       /\ job[c].at \in Replacing => job[c].tmp \in Versions \cup {Garbled}

Alone    == world.jobs = 1
Quiet(i) == \A c \in Busy : job[c].at \in Replacing \cup {"commit"} => Now(c) # i

Whole(f) == f \notin spoiled /\ \A c \in Jobs : ~IsWriting(c, f)

\* Whoever else updates at the same time, whatever the server publishes between the two
\* downloads or hands out instead of an index, and whatever failed before: an index that
\* has to have a signature, and the signature, are on disk as they were published once.
\* Two files are left out: one that is being written; and, until it is written again by one
\* request alone, one that two requests wrote at once, which may be a mixture, or that was
\* written only in part, by a copy that failed, a kill or the rollback to such a file.
OnlyPublished ==
    \A i \in WithSignatureURL \cup {Libraries} :
        /\ Whole(<<i, "index">>) => index[i] \in Versions \cup {Nothing}
        /\ Whole(<<i, "sig">>) => sig[i] \in Versions \cup {Nothing}
        /\ index[i] # Garbled /\ sig[i] # Garbled

\* With one request at a time, index and signature on disk belong together whenever
\* none is being replaced, whatever failed before: LoadIndex then trusts the index.
PairMatches ==
    Alone => \A i \in Signed \ damaged :
                 Quiet(i) => index[i] = sig[i] /\ index[i] \in Versions \cup {Nothing}

\* Call c updates index i; again, if the URL is listed twice.
WorksOn(c, i) == job[c].at \notin {"idle", "next"} /\ Now(c) = i

\* With one request at a time, its report is true: an update that fails leaves what was
\* there, and an index that is reported as updated is on disk, at least as new as the one
\* that was served when its update began.
ReportIsTrue ==
    Alone => \A c \in Jobs, i \in Indexes :
        /\ job[c].report[i] = "failed" /\ ~WorksOn(c, i) /\ i \notin damaged =>
               <<index[i], sig[i]>> = <<job[c].before[i][1], job[c].before[i][2]>>
        /\ job[c].report[i] = "updated" /\ ~WorksOn(c, i) =>
               index[i] = Garbled \/ (index[i] \in Versions /\ index[i] >= job[c].before[i][3])

\* "Make a backup copy of old index and signature so the defer function can rollback in
\* case of errors": an update that fails, and whose rollback succeeds, leaves both.
SignatureRolledBack ==
    Alone /\ "rollback" \notin world.fails => \A c \in Jobs, i \in Indexes :
        job[c].report[i] = "failed" /\ job[c].before[i][1] # Nothing =>
            <<index[i], sig[i]>> = <<job[c].before[i][1], job[c].before[i][2]>>

\* The invariant of the module: the types, and what may become an index.
IndexInv == IndexTypes /\ OnlyPublished
=============================================================================
