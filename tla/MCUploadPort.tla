------------------------------ MODULE MCUploadPort ------------------------------
(***************************************************************************)
(* The board, its bootloader in the same place, the board in another place,*)
(* and somebody else's board.                                              *)
(***************************************************************************)
EXTENDS UploadPort

CONSTANTS board, boot, moved, other

Places == [p \in {board, boot, moved, other} |-> IF p = boot THEN board ELSE p]

World(S, n, w, f) == [attached |-> S, events |-> n, wait |-> w, fails |-> f]

\* The port goes and comes while the board is flashed; no port is given and the board
\* is in its bootloader; two boards; everything that can fail.
AllWorlds == {World({board}, 3, FALSE, {}), World({board}, 3, TRUE, {}),
              World({boot}, 3, TRUE, {}), World({board, other}, 3, FALSE, {}),
              World({board}, 2, FALSE, {"tool", "cancel", "watcher"}),
              World({board}, 1, FALSE, {})}
=============================================================================
