---------------------------- MODULE LibraryResolver ----------------------------
(***************************************************************************)
(* Which of the libraries that have a header is taken for it: the numbers  *)
(* of librariesresolver/cpp.go and the rules that they stand for           *)
(* (docs/sketch-build-process.md, Dependency resolution).  A library is    *)
(* what the header and the architecture make of it: how well its name and  *)
(* its directory match the header, whether it is made for the              *)
(* architecture, and where it is.                                          *)
(***************************************************************************)
EXTENDS Integers

Archs     == {"optimized", "independent", "other"}
Matches   == {"exact", "main", "master", "prefix", "suffix", "contains", "none"}
Locations == {"builtin", "referenced", "platform", "user", "unmanaged"}

Library == [arch : Archs, name : Matches, dir : Matches, location : Locations]

ArchBonus     == [optimized |-> 1010, independent |-> 1000, other |-> 0]
LocationBonus == [builtin |-> 0, referenced |-> 1, platform |-> 2, user |-> 3, unmanaged |-> 10000]

\* The first of the tests that the name or the directory passes.
NameBonus(x) ==
    LET either(m) == x.name = m \/ x.dir = m
    IN  IF x.name = "exact" /\ x.dir = "exact" THEN 700
        ELSE IF either("exact") THEN 600 ELSE IF either("main") THEN 500
        ELSE IF either("master") THEN 400 ELSE IF either("prefix") THEN 300
        ELSE IF either("suffix") THEN 200 ELSE IF either("contains") THEN 100 ELSE 0

\* Mutant: what is made for the architecture goes before what has the name.
ComputePriorityByArch(x) ==
    ArchBonus[x.arch] + NameBonus(x) + LocationBonus[x.location] + (IF x.arch = "optimized" THEN 700 ELSE 0)

ComputePriority(x) == ArchBonus[x.arch] + NameBonus(x) + LocationBonus[x.location]

-----------------------------------------------------------------------------
\* The rules, "one by one in this order, until a rule determines a winner"
\* (docs/sketch-build-process.md:52); the rank that each of them gives.
MatchRank    == [exact |-> 6, main |-> 5, master |-> 4, prefix |-> 3, suffix |-> 2, contains |-> 1, none |-> 0]
LocationRank == [user |-> 3, platform |-> 2, referenced |-> 1, builtin |-> 0, unmanaged |-> 0]

OnCommandLine(x) == IF x.location = "unmanaged" THEN 1 ELSE 0
Compatible(x)    == IF x.arch \in {"optimized", "independent"} THEN 1 ELSE 0
BothMatch(x)     == IF x.name = "exact" /\ x.dir = "exact" THEN 1 ELSE 0
BestMatch(x)     == IF MatchRank[x.name] >= MatchRank[x.dir] THEN MatchRank[x.name] ELSE MatchRank[x.dir]
Optimized(x)     == IF x.arch = "optimized" THEN 1 ELSE 0
Place(x)         == LocationRank[x.location]

\* x wins against y.
Wins(x, y) ==
    \/ OnCommandLine(x) > OnCommandLine(y)
    \/ /\ OnCommandLine(x) = OnCommandLine(y)
       /\ \/ Compatible(x) > Compatible(y)
          \/ /\ Compatible(x) = Compatible(y)
             /\ \/ BothMatch(x) > BothMatch(y)
                \/ /\ BothMatch(x) = BothMatch(y)
                   /\ \/ BestMatch(x) > BestMatch(y)
                      \/ /\ BestMatch(x) = BestMatch(y)
                         /\ \/ Optimized(x) > Optimized(y)
                            \/ Optimized(x) = Optimized(y) /\ Place(x) > Place(y)
=============================================================================
