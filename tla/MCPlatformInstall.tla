--------------------------- MODULE MCPlatformInstall ---------------------------
EXTENDS PlatformInstall, TLC

CONSTANTS p1, p2, t1, t2, t3

\* Three releases of one platform and one of another that shares a tool.
FourReleases == 1 .. 4
PlatformOfFour == [r \in FourReleases |-> IF r = 4 THEN p2 ELSE p1]
RequiresOfFour == 1 :> {t1} @@ 2 :> {t1, t2} @@ 3 :> {t2} @@ 4 :> {t1, t3}

World(mix, faults, manual, n) == [mix |-> mix, faults |-> faults, manual |-> manual, atOnce |-> n]

\* Nothing fails; downloads and moves fail; everything may fail, all of this with and
\* without a release in the sketchbook; two calls at once, with failing downloads.
AllWorlds == {World(Ops, faults, manual, 1) : faults \in {{}, {"fetch", "move"}, FaultKinds},
                                              manual \in {{}, {1}}}
             \cup {World({"Install", "Uninstall"}, {"fetch"}, {1}, 2)}

CallSymmetry == Permutations(Calls)
=============================================================================
