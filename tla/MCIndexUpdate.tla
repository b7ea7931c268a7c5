----------------------------- MODULE MCIndexUpdate -----------------------------
(***************************************************************************)
(* The two archives of Arduino and a package index with its signature in a *)
(* file of its own.                                                        *)
(***************************************************************************)
EXTENDS IndexUpdate

CONSTANTS libs, main, json

PackagesSeq == <<main, json, main>>

World(j, n, a, o, v, s, f) ==
    [jobs |-> j, requests |-> n, asks |-> a, older |-> o, changes |-> v, start |-> s, fails |-> f]

None == [i \in Indexes |-> Nothing]
All  == [i \in Indexes |-> 1]
Left == [i \in Indexes |-> IF i = json THEN Nothing ELSE 1]

\* Updates in a row, each with the faults that matter to it; two requests at once; a new
\* installation.
AllWorlds ==
    {World(1, 2, {"libraries"}, {FALSE}, 1, All,
           {"download", "garbled", "unsigned", "backup", "copy", "rollback"}),
     World(1, 2, {"libraries"}, BOOLEAN, 1, All, {"copy", "kill"}),
     World(1, 1, {"packages"}, {FALSE}, 2, All, {"config", "download", "garbled", "unsigned", "copy"}),
     World(1, 1, {"first"}, {FALSE}, 1, Left, {"copy", "kill", "config"}),
     World(1, 2, {"first"}, {FALSE}, 0, None, {"download"}),
     World(2, 2, {"packages"}, {FALSE}, 1, Left, {}),
     World(2, 2, {"packages"}, {FALSE}, 0, Left, {"garbled"}),
     World(2, 2, {"libraries"}, {FALSE}, 1, All, {"copy", "garbled"})}

CopyWorld == {World(1, 1, {"libraries"}, {FALSE}, 1, All, {"copy"})}
=============================================================================
