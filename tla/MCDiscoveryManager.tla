-------------------------- MODULE MCDiscoveryManager --------------------------
EXTENDS DiscoveryManager

CONSTANTS d1, p1, p2, p3, w1, w2

OneDiscovery == [p \in {p1, p2, p3} |-> d1]

World(W, P, n, changes, starts) ==
    [watchers |-> W, ports |-> P, cap |-> n, plugs |-> changes, runs |-> starts]

\* Two watchers of a port that comes and goes, with feeds that fill up; a watcher
\* of two ports whose discovery is quit and started again; and a watcher of more
\* ports than its feed and its reader can take.
AllWorlds == {World({w1, w2}, {p1}, 1, 2, 1), World({w1}, {p1, p2}, 1, 0, 2),
              World({w1}, {p1, p2, p3}, 1, 0, 1)}
=============================================================================
