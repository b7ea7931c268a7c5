---------------------------- MODULE MCSketchBuild ----------------------------
(***************************************************************************)
(* A sketch of one file, two libraries of one file each, a core of three.  *)
(***************************************************************************)
EXTENDS SketchBuild, TLC

CONSTANTS main, l1, l2, c1, c2, c3, lib1, lib2, uno, unoX

SixFolders == main :> "sketch" @@ l1 :> lib1 @@ l2 :> lib2 @@ c1 :> "core" @@ c2 :> "core" @@ c3 :> "core"

\* The sketch includes one library; once it is edited it includes both.
SomeImports == [v \in 0 .. 2 |-> IF v = 1 THEN {lib1, lib2} ELSE {lib1}]

\* unoX is uno with a build property overridden: another build.options.json, the
\* same directory in the shared cache.
OneKey == [o \in {uno, unoX} |-> "uno"]

World(os, ms, ss, hs, txt, b, e, c, f, p) ==
    [options |-> os, modes |-> ms, sources |-> ss, headers |-> hs, txt |-> txt,
     builds |-> b, edits |-> e, cuts |-> c, fails |-> f, purges |-> p]

\* Two options and a kill at any point; failing tools and files saved while they are
\* compiled; headers saved before a build that is killed; another process that
\* purges; every mode; the platform's files saved while a build runs whose copy to
\* the cache fails.
AllWorlds ==
    {World({uno, unoX}, {"build", "clean"}, {main}, {}, FALSE, 3, 1, 1, 0, 0),
     World({uno}, {"build"}, {main, l1, c1}, {}, TRUE, 2, 2, 0, 1, 0),
     World({uno}, {"build"}, {}, {l1, c1}, FALSE, 3, 1, 1, 0, 0),
     World({uno, unoX}, {"build"}, {main}, {}, FALSE, 2, 1, 0, 0, 1),
     World({uno, unoX}, Modes, {main}, {}, FALSE, 2, 1, 0, 0, 0),
     World({uno}, {"build"}, {}, {}, TRUE, 3, 1, 0, 1, 0)}
=============================================================================
