---------------------------- MODULE LibraryDetector ----------------------------
(***************************************************************************)
(* The library detection of a sketch build (builder/internal/detector) and *)
(* the preprocessing of the sketch that follows it.  GCC is run on each    *)
(* source with the include folders found so far; a header it misses names  *)
(* the next library, whose sources are queued in turn.  What was found is  *)
(* kept in includes.cache, as a list of entries that the next build expects*)
(* to meet again, and a dependency file (.libsdetect.d) tells whether a    *)
(* source has changed.  A pre-runner runs the compilations of the cache    *)
(* ahead of the detection, concurrently with it.                           *)
(* Libraries of the sketch's profile are in the include path from the      *)
(* start, but compiled only when a source turns out to use them.           *)
(* The core and the variant are include folders of every compilation, and  *)
(* are left out; each library has one header, which its source includes,   *)
(* and one source.                                                         *)
(***************************************************************************)
EXTENDS LibraryResolver, Sequences, FiniteSets, SequencesExt

CONSTANTS Sketch,     \* sketch.ino.cpp.merged
          Libs,       \* the installed libraries; also their sources
          Headers,
          HeaderOf,   \* HeaderOf[l]: the header of l
          Attr,       \* Attr[l]: what the resolver sees of l
          Profile,    \* the libraries of the profile
          Wrong,      \* the libraries that failIfImportedLibraryIsWrong does not let pass
          Contents,   \* Contents[f]: the lists of headers that source f may include
          MaxBuilds,  \* bound on the builds
          MaxEdits,   \* bound on the changes made between them
          None

Files == Libs \cup {Sketch}

ASSUME ConstantsOK == /\ Sketch \notin Libs /\ None \notin Files \cup Headers
                      /\ HeaderOf \in [Libs -> Headers] /\ Attr \in [Libs -> Library]
                      /\ Profile \cup Wrong \subseteq Libs /\ IsFiniteSet(Profile)
                      /\ Contents \in [Files -> SUBSET Seq(Headers)]
                      /\ MaxBuilds \in Nat /\ MaxEdits \in Nat

VARIABLES content,    \* content[f]: the headers source f includes, in order
          gone,       \* libraries whose header was deleted after the libraries were loaded
          dep,        \* dep[f]: its dependency file is "none", "stale" or "fresh"; what is in it
          ino,        \* sketch.ino.cpp: "none", "current", older than the sketch or than a header
          saved,      \* includes.cache
          builds, edits,
          sound,      \* no build has failed since the sketch was last preprocessed
          phase,      \* of the build, "idle" if there is none
          cancelled,  \* its context has ended
          entries, curr,    \* its cache and the position in it
          sketchIsUnchanged,
          preRunner,  \* there is one
          queued, ran,      \* its tasks
          queue,      \* the sources still to be processed
          includes,   \* the libraries of the include path, in order
          alternatives,     \* the resolver's lists, as sets
          resolved,   \* librariesResolutionResults
          staged, imported,
          source,     \* the source being processed
          unchanged,  \* it has not changed
          missing     \* the header it misses

diskVars   == <<content, gone, dep, ino, saved>>
boundVars  == <<builds, edits, sound>>
cacheVars  == <<entries, curr>>
runnerVars == <<preRunner, queued, ran>>
foundVars  == <<includes, alternatives, resolved, staged, imported>>
sourceVars == <<source, unchanged, missing>>
buildVars  == <<cancelled, cacheVars, sketchIsUnchanged, runnerVars, queue, foundVars, sourceVars>>
vars == <<diskVars, boundVars, phase, buildVars>>

-----------------------------------------------------------------------------
\* Entries of the cache, one field each, as in detectorCacheEntry.
Compile(f, I) == [op |-> "compile", of |-> f, with |-> I]
Missing(h)    == [op |-> "missing", of |-> h, with |-> <<>>]
Added(l)      == [op |-> "added", of |-> l, with |-> <<>>]
Entries == [op : {"compile"}, of : Files, with : Seq(Libs)]
           \cup [op : {"missing"}, of : Headers \cup {None}, with : {<<>>}]
           \cup [op : {"added"}, of : Libs, with : {<<>>}]

HasHeader(l, h) == HeaderOf[l] = h /\ l \notin gone

\* The first header of f that is not found in the folders I; None if all are.
FirstMissing(f, I) ==
    LET lacks == {i \in 1 .. Len(content[f]) : \A l \in ToSet(I) : ~HasHeader(l, content[f][i])}
    IN  IF lacks = {} THEN None ELSE content[f][CHOOSE i \in lacks : \A j \in lacks : i <= j]

UpToDate(f) == dep[f].is = "fresh"

\* Whose headers f includes: the first folder of I that has one.
Used(f, I) == {I[i] : i \in {k \in 1 .. Len(I) : \E h \in ToSet(content[f]) :
                  HasHeader(I[k], h) /\ \A j \in 1 .. k - 1 : ~HasHeader(I[j], h)}}

\* GCC writes a dependency file when it succeeds.
Gcc(f, I) == dep' = IF FirstMissing(f, I) = None
                    THEN [dep EXCEPT ![f] = [is |-> "fresh", on |-> Used(f, I)]] ELSE dep

\* Where the detection stands in the cache; in the pre-run curr counts what has been looked at.
Position == IF phase = "prerun" THEN 0 ELSE curr

\* The entries are met again, or the rest of the cache is cut off where they differ.
Expect(es) ==
    LET metAgain == Position + Len(es) <= Len(entries) /\ \A i \in 1 .. Len(es) : entries[Position + i] = es[i]
    IN  /\ curr' = Position + Len(es)
        /\ entries' = IF metAgain THEN entries ELSE SubSeq(entries, 1, Position) \o es

NoHeader(x) == [h \in Headers |-> x]

Init ==
    /\ content \in {c \in [Files -> UNION {Contents[f] : f \in Files}] :
                       \A f \in Files : c[f] \in Contents[f]}
    /\ gone = {} /\ dep = [f \in Files |-> [is |-> "none", on |-> {}]] /\ ino = "none" /\ saved = <<>>
    /\ builds = 0 /\ edits = 0 /\ sound = TRUE
    /\ phase = "idle"
    /\ cancelled = FALSE /\ entries = <<>> /\ curr = 0 /\ sketchIsUnchanged = FALSE
    /\ preRunner = FALSE /\ queued = {} /\ ran = {} /\ queue = <<>>
    /\ includes = <<>> /\ alternatives = NoHeader({}) /\ resolved = NoHeader(None)
    /\ staged = {} /\ imported = {} /\ source = None /\ unchanged = FALSE /\ missing = None

\* The detector, its cache and the resolver are those of one build.
Leave ==
    /\ phase' = "idle"
    /\ cancelled' = FALSE /\ entries' = <<>> /\ curr' = 0 /\ sketchIsUnchanged' = FALSE
    /\ preRunner' = FALSE /\ queued' = {} /\ ran' = {} /\ queue' = <<>>
    /\ includes' = <<>> /\ alternatives' = NoHeader({}) /\ resolved' = NoHeader(None)
    /\ staged' = {} /\ imported' = {} /\ source' = None /\ unchanged' = FALSE /\ missing' = None

-----------------------------------------------------------------------------
\* Between the builds.

Stale(F) == dep' = [f \in Files |-> IF f \in F /\ UpToDate(f) THEN [dep[f] EXCEPT !.is = "stale"] ELSE dep[f]]

Change ==
    /\ phase = "idle" /\ edits < MaxEdits /\ edits' = edits + 1
    /\ UNCHANGED <<saved, builds, sound, phase, buildVars>>

\* A source is edited.
EditSource(f) ==
    /\ Change
    /\ \E c \in Contents[f] \ {content[f]} : content' = [content EXCEPT ![f] = c]
    /\ Stale({f})
    /\ ino' = IF f = Sketch /\ ino # "none" THEN "olderThanSketch" ELSE ino
    /\ UNCHANGED gone

\* The header of a library is edited or deleted: what includes it is out of date.
EditHeader(l) ==
    /\ Change /\ l \notin gone
    /\ gone' \in {gone, gone \cup {l}}
    /\ Stale({f \in Files : f = l \/ l \in dep[f].on})
    /\ ino' = IF l \in dep[Sketch].on /\ ino = "current" THEN "olderThanHeader" ELSE ino
    /\ UNCHANGED content

-----------------------------------------------------------------------------
\* The build.

\* The libraries are those that were loaded, with the headers that they had.  The cache is
\* read, and before any task is started the sketch is looked at.
BeginBuild ==
    /\ phase = "idle" /\ builds < MaxBuilds
    /\ builds' = builds + 1 /\ phase' = "prerun"
    /\ entries' = saved
    /\ sketchIsUnchanged' = UpToDate(Sketch)
    /\ preRunner' = TRUE
    /\ alternatives' = [h \in Headers |-> {l \in Libs \ Profile : HeaderOf[l] = h}]
    /\ UNCHANGED <<diskVars, edits, sound, cancelled, curr, queued, ran, queue, includes, resolved, staged,
                   imported, sourceVars>>

\* The compilations of the cache go to the pre-runner one by one, each only if
\* its source has changed; curr counts them here.
Prerun ==
    /\ phase = "prerun" /\ curr < Len(entries)
    /\ curr' = curr + 1
    /\ LET e == entries[curr']
       IN  queued' = IF e.op = "compile" /\ ~UpToDate(e.of)
                     THEN queued \cup {<<e.of, e.with>>} ELSE queued
    /\ UNCHANGED <<diskVars, boundVars, phase, cancelled, entries, sketchIsUnchanged, preRunner, ran,
                   queue, foundVars, sourceVars>>

\* Mutant: the sketch is looked at after the pre-runner has been started.
EndPrerunLooking ==
    /\ phase = "prerun" /\ curr = Len(entries)
    /\ phase' = "pop" /\ queue' = <<Sketch>> /\ sketchIsUnchanged' = UpToDate(Sketch)
    /\ staged' = Profile /\ includes' = SetToSeq(Profile)
    /\ Expect([i \in 1 .. Cardinality(Profile) |-> Added(includes'[i])])
    /\ UNCHANGED <<diskVars, boundVars, cancelled, runnerVars, alternatives, resolved, imported, sourceVars>>

\* The libraries of the profile join the include path and the cache is gone through from
\* its beginning.
EndPrerun ==
    /\ phase = "prerun" /\ curr = Len(entries)
    /\ phase' = "pop" /\ queue' = <<Sketch>>
    /\ staged' = Profile /\ includes' = SetToSeq(Profile)
    /\ Expect([i \in 1 .. Cardinality(Profile) |-> Added(includes'[i])])
    /\ UNCHANGED <<diskVars, boundVars, cancelled, sketchIsUnchanged, runnerVars, alternatives, resolved,
                   imported, sourceVars>>

\* Mutant: the worker ends at a task that has failed.
RunTaskEnding(t) ==
    /\ t \in queued /\ ~cancelled
    /\ \A r \in ran : FirstMissing(r[1], r[2]) = None
    /\ queued' = queued \ {t} /\ ran' = ran \cup {t}
    /\ Gcc(t[1], t[2])
    /\ UNCHANGED <<content, gone, ino, saved, boundVars, phase, cancelled, cacheVars, sketchIsUnchanged,
                   preRunner, queue, foundVars, sourceVars>>

\* A worker of the pre-runner runs a task.
RunTask(t) ==
    /\ t \in queued /\ ~cancelled
    /\ queued' = queued \ {t} /\ ran' = ran \cup {t}
    /\ Gcc(t[1], t[2])
    /\ UNCHANGED <<content, gone, ino, saved, boundVars, phase, cancelled, cacheVars, sketchIsUnchanged,
                   preRunner, queue, foundVars, sourceVars>>

Pop ==
    /\ phase = "pop" /\ queue # <<>>
    /\ source' = Head(queue) /\ queue' = Tail(queue)
    /\ unchanged' = UpToDate(Head(queue))
    /\ phase' = "compile"
    /\ UNCHANGED <<diskVars, boundVars, cancelled, cacheVars, sketchIsUnchanged, runnerVars, foundVars,
                   missing>>

Task == <<source, includes>>

\* The entry of this compilation is expected.
BeginCompile ==
    /\ phase = "compile"
    /\ Expect(<<Compile(source, includes)>>)
    /\ phase' = "preprocess"
    /\ UNCHANGED <<diskVars, boundVars, cancelled, sketchIsUnchanged, runnerVars, queue, foundVars,
                   sourceVars>>

\* The cache knows what an unchanged source misses.
Cached == unchanged /\ curr < Len(entries) /\ entries[curr + 1].op = "missing"

UseCache ==
    /\ phase = "preprocess" /\ Cached
    /\ missing' = entries[curr + 1].of
    /\ phase' = "missing"
    /\ UNCHANGED <<diskVars, boundVars, cancelled, cacheVars, sketchIsUnchanged, runnerVars, queue,
                   foundVars, source, unchanged>>

\* The result of the pre-runner, which is waited for.
UseResult ==
    /\ phase = "preprocess" /\ ~Cached /\ preRunner /\ Task \in ran
    /\ missing' = FirstMissing(source, includes)
    /\ phase' = "missing"
    /\ UNCHANGED <<diskVars, boundVars, cancelled, cacheVars, sketchIsUnchanged, runnerVars, queue,
                   foundVars, source, unchanged>>

\* The pre-runner is stopped and GCC is run here.
Preprocess ==
    /\ phase = "preprocess" /\ ~Cached /\ ~cancelled
    /\ preRunner => Task \notin queued \cup ran
    /\ preRunner' = FALSE /\ queued' = {} /\ ran' = {}
    /\ Gcc(source, includes)
    /\ missing' = FirstMissing(source, includes)
    /\ phase' = "missing"
    /\ UNCHANGED <<content, gone, ino, saved, boundVars, cancelled, cacheVars, sketchIsUnchanged, queue,
                   foundVars, source, unchanged>>

\* Mutant: includes.cache stays when the detection fails.
FailKeepingCache ==
    /\ Leave /\ sound' = FALSE
    /\ UNCHANGED <<content, gone, saved, ino, builds, edits>>

\* The detection fails: includes.cache is removed.
Fail ==
    /\ saved' = <<>>
    /\ Leave /\ sound' = FALSE
    /\ UNCHANGED <<content, gone, ino, builds, edits>>

\* GCC is stopped by the context, here or in a worker; a task that no worker has
\* taken is waited for without end.
CutPreprocess ==
    /\ phase = "preprocess" /\ ~Cached /\ cancelled /\ (preRunner => Task \notin ran)
    /\ Fail /\ UNCHANGED dep

Push(q, L) == q \o SetToSeq(L \ ToSet(q))

\* commitStagedLibrary: what the dependency file of the source is about.
Committed == staged \cap dep[source].on

\* Nothing is missing: next source; a pre-runner that was stopped is replaced by
\* one for the rest of the queue.
EndSource ==
    /\ phase = "missing" /\ missing = None
    /\ Expect(<<Missing(None)>>)
    /\ phase' = "pop"
    /\ staged' = staged \ Committed /\ imported' = imported \cup Committed
    /\ queue' = Push(queue, Committed)
    /\ IF preRunner THEN UNCHANGED runnerVars
       ELSE /\ preRunner' = TRUE /\ ran' = {}
            /\ queued' = {<<f, includes>> : f \in ToSet(queue')}
    /\ UNCHANGED <<diskVars, boundVars, cancelled, sketchIsUnchanged, includes, alternatives, resolved,
                   sourceVars>>

\* resolveLibrary: no alternative that is there already.
Resolves == alternatives[missing] # {} /\ alternatives[missing] \cap imported = {}

\* One of the best; which of several is the closest match of the names.
Best(S) == {l \in S : \A k \in S : ComputePriority(Attr[k]) <= ComputePriority(Attr[l])}

\* What is left of the list after Remove, which moves the elements of the array that the
\* resolver keeps: the last one is still there.
Rest(S, l) == IF S = {l} THEN {S} ELSE {S, S \ {l}}

\* The library of the missing header joins the include path, its source the queue.
AddLibrary ==
    /\ phase = "missing" /\ missing # None /\ Resolves
    /\ \E l \in Best(alternatives[missing]) :
           /\ Expect(<<Missing(missing), Added(l)>>)
           /\ includes' = Append(includes, l) /\ imported' = imported \cup {l}
           /\ \E S \in Rest(alternatives[missing], l) : alternatives' = [alternatives EXCEPT ![missing] = S]
           /\ resolved' = [resolved EXCEPT ![missing] = l]
           /\ queue' = Push(queue, {l})
    /\ phase' = "compile"
    /\ UNCHANGED <<diskVars, boundVars, cancelled, sketchIsUnchanged, runnerVars, staged, sourceVars>>

\* No library: GCC gives the error, once more if the cache named the header.
Unresolved ==
    /\ phase = "missing" /\ missing # None /\ ~Resolves
    /\ IF cancelled THEN UNCHANGED dep ELSE Gcc(source, includes)
    /\ Fail

\* The queue is empty: the cache is cut off where the detection stands and saved.
SaveCache ==
    /\ phase = "pop" /\ queue = <<>>
    /\ saved' = SubSeq(entries, 1, curr)

EndDetection ==
    /\ SaveCache /\ imported \cap Wrong = {}
    /\ entries' = saved' /\ preRunner' = FALSE /\ queued' = {} /\ ran' = {}
    /\ phase' = "found"
    /\ UNCHANGED <<content, gone, dep, ino, boundVars, cancelled, curr, sketchIsUnchanged, queue,
                   foundVars, sourceVars>>

\* failIfImportedLibraryIsWrong
EndWrong ==
    /\ SaveCache /\ imported \cap Wrong # {}
    /\ Leave /\ sound' = FALSE
    /\ UNCHANGED <<content, gone, dep, ino, builds, edits>>

\* preprocessSketch: sketch.ino.cpp is made anew unless nothing has changed.
SkipsPreprocessing == sketchIsUnchanged /\ ino \in {"current", "olderThanHeader"}

PreprocessSketch ==
    /\ phase = "found" /\ (SkipsPreprocessing \/ ~cancelled)
    /\ IF SkipsPreprocessing THEN UNCHANGED <<ino, sound>> ELSE ino' = "current" /\ sound' = TRUE
    /\ phase' = "built"
    /\ UNCHANGED <<content, gone, dep, saved, builds, edits, buildVars>>

CutSketch ==
    /\ phase = "found" /\ ~SkipsPreprocessing /\ cancelled
    /\ Leave /\ sound' = FALSE
    /\ UNCHANGED <<diskVars, builds, edits>>

\* The build goes on, and is over some time.
EndBuild ==
    /\ phase = "built"
    /\ Leave
    /\ UNCHANGED <<diskVars, boundVars>>

\* The client cancels the build.
Cancel ==
    /\ phase # "idle" /\ ~cancelled
    /\ cancelled' = TRUE
    /\ UNCHANGED <<diskVars, boundVars, phase, cacheVars, sketchIsUnchanged, runnerVars, queue,
                   foundVars, sourceVars>>

-----------------------------------------------------------------------------
RunSome == \E t \in queued : RunTask(t)

\* The goroutine of the build.
Detect == \/ Prerun \/ EndPrerun \/ Pop \/ BeginCompile \/ UseCache \/ UseResult \/ Preprocess
          \/ CutPreprocess \/ EndSource \/ AddLibrary \/ Unresolved \/ EndDetection
          \/ EndWrong \/ PreprocessSketch \/ CutSketch \/ EndBuild

Next == \/ \E f \in Files : EditSource(f)
        \/ \E l \in Libs : EditHeader(l)
        \/ BeginBuild \/ Detect \/ RunSome \/ Cancel

Spec == Init /\ [][Next]_vars

\* The build's goroutine goes on as long as it can, and so do the workers.
FairSpec == Spec /\ WF_vars(Detect) /\ WF_vars(RunSome)

-----------------------------------------------------------------------------
\* The values the state ranges over; no library is found twice, and the
\* position of the cache is in it.
TypeOK ==
    /\ content \in [Files -> Seq(Headers)] /\ \A f \in Files : content[f] \in Contents[f]
    /\ dep \in [Files -> [is : {"none", "stale", "fresh"}, on : SUBSET Libs]]
    /\ ino \in {"none", "current", "olderThanSketch", "olderThanHeader"}
    /\ saved \in Seq(Entries) /\ entries \in Seq(Entries) /\ curr \in 0 .. Len(entries)
    /\ builds \in 0 .. MaxBuilds /\ edits \in 0 .. MaxEdits
    /\ {sound, cancelled, sketchIsUnchanged, preRunner, unchanged} \subseteq BOOLEAN
    /\ phase \in {"idle", "prerun", "pop", "compile", "preprocess", "missing", "found", "built"}
    /\ queued \cup ran \subseteq Files \X Seq(Libs)
    /\ queue \in Seq(Files) /\ includes \in Seq(Libs) /\ IsInjective(includes)
    /\ source \in Files \cup {None} /\ missing \in Headers \cup {None}
    /\ gone \cup staged \cup imported \subseteq Libs
    /\ alternatives \in [Headers -> SUBSET Libs] /\ resolved \in [Headers -> Libs \cup {None}]

\* What a successful detection has found is enough: the sketch and every library
\* that will be compiled find all the headers they include, whatever was cached and
\* however the pre-runner was scheduled.
\* And a library whose header is found is compiled with them: also one of the profile,
\* which is in the include path in any case and leaves no trace but a dependency file.
NothingMissing ==
    phase = "found" => \A f \in imported \cup {Sketch} :
        FirstMissing(f, includes) = None /\ Used(f, includes) \subseteq imported

\* The library taken for a header is the one that the rules of
\* docs/sketch-build-process.md:52 name among all that have the header, after whatever
\* lookups and caches, unless its header has gone since the libraries were loaded.
ChosenByTheRules ==
    \A h \in Headers : resolved[h] # None =>
        \A k \in Libs \ Profile : HasHeader(k, h) => ~Wins(Attr[k], Attr[resolved[h]])

\* The sketch that goes on to the compiler is that of the last edit, of the sketch or
\* of a header it includes, as long as no build has failed since it was preprocessed
\* (preprocess_sketch.go:40 makes no such exception).
PreprocessedCurrentIfSound == sound /\ phase = "built" => ino = "current"

\* A build ends: it never waits for a task of the pre-runner that nobody will
\* run, and never finds one library after another without end, not even if a header is
\* missing that its library is listed with.  The exception is a build cancelled while a
\* task it needs is in the queue: Results has no way out.
Abandoned == phase = "preprocess" /\ cancelled /\ preRunner /\ Task \in queued

BuildEnds == phase # "idle" ~> (phase = "idle" \/ Abandoned)

\* The invariant of the module: the types, and the choice of the libraries.
DetectorInv == TypeOK /\ ChosenByTheRules
=============================================================================
