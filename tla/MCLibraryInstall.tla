---------------------------- MODULE MCLibraryInstall ----------------------------
(***************************************************************************)
(* Library a, of which release 2 needs any b and release 3 needs b 1; b    *)
(* and c, whose names differ in a character that no directory name has;    *)
(* and a directory of the user's.                                          *)
(***************************************************************************)
EXTENDS LibraryInstall

CONSTANTS a, b, c, dirA, dirB, own

Dir  == [l \in {a, b, c} |-> IF l = a THEN dirA ELSE dirB]
Name == [d \in {dirA, dirB, own} |-> IF d = dirA THEN a ELSE IF d = dirB THEN b ELSE None]

AllReleases == {<<a, 1>>, <<a, 2>>, <<a, 3>>, <<b, 1>>, <<b, 2>>, <<c, 1>>}
Needs == [r \in AllReleases |-> CASE r = <<a, 2>> -> {{<<b, 1>>, <<b, 2>>}}
                                  [] r = <<a, 3>> -> {{<<b, 1>>}}
                                  [] r = <<c, 1>> -> {{<<b, 1>>, <<b, 2>>}}
                                  [] OTHER -> {}]

At(x, y, z) == [d \in {dirA, dirB, own} |-> IF d = dirA THEN x ELSE IF d = dirB THEN y ELSE z]
Is(l, v)    == Library(l, v, TRUE)

\* Nothing; old ones; the second or the first library in a directory of the user's; one
\* whose directory another one needs; a directory in the way.
Starts == {At(None, None, None), At(Is(a, 1), Is(b, 2), None), At(Is(a, 1), None, Is(b, 1)),
           At(None, Is(b, 1), Is(a, 2)), At(Is(a, 1), Is(c, 1), None), At(Is(a, 2), Is(c, 1), Is(b, 1)),
           At(Junk, Is(b, Unversioned), None)}

World(o, n, f) == [ops |-> o, requests |-> n, fails |-> f, start |-> Starts]

AllWorlds == {World(Ops, 3, {}),
              World({"install", "import"}, 2, {"fetch", "unpack", "move", "keep", "tear"}),
              World({"install", "upgrade", "uninstall"}, 2, {"unpack", "tear", "kill"})}
=============================================================================
