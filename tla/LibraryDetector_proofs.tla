------------------------ MODULE LibraryDetector_proofs ------------------------
(***************************************************************************)
(* Proofs about LibraryDetector, for any libraries, headers and sources,   *)
(* any contents of the cache that a build can leave, and any schedule of   *)
(* the pre-runner; and about LibraryResolver, which it rests on.           *)
(***************************************************************************)
EXTENDS LibraryDetector, FiniteSetTheorems, SequenceTheorems, WellFoundedInduction, TLAPS

-----------------------------------------------------------------------------
\* The resolver.

\* The numbers order the libraries as the rules do.
THEOREM PriorityIsTheRules ==
    ASSUME NEW x \in Library, NEW y \in Library
    PROVE  ComputePriority(x) > ComputePriority(y) <=> Wins(x, y)
<1> DEFINE Named(z) == IF BothMatch(z) = 1 THEN 7 ELSE BestMatch(z)
<1>1. ASSUME NEW z \in Library
      PROVE  /\ NameBonus(z) = 100 * Named(z)
             /\ Named(z) \in 0 .. 7 /\ BestMatch(z) \in 0 .. 6 /\ BothMatch(z) \in 0 .. 1
             /\ BothMatch(z) = 1 => BestMatch(z) = 6
  BY <1>1 DEF Library, Matches, NameBonus, BothMatch, BestMatch, MatchRank
<1>2. ASSUME NEW z \in Library
      PROVE  /\ ArchBonus[z.arch] = 1000 * Compatible(z) + 10 * Optimized(z)
             /\ Compatible(z) \in 0 .. 1 /\ Optimized(z) \in 0 .. 1
             /\ Optimized(z) = 1 => Compatible(z) = 1
  BY <1>2 DEF Library, Archs, ArchBonus, Compatible, Optimized
<1>3. ASSUME NEW z \in Library
      PROVE  /\ LocationBonus[z.location] = 10000 * OnCommandLine(z) + Place(z)
             /\ OnCommandLine(z) \in 0 .. 1 /\ Place(z) \in 0 .. 3
  BY <1>3 DEF Library, Locations, LocationBonus, OnCommandLine, Place, LocationRank
<1>4. ASSUME NEW z \in Library
      PROVE  ComputePriority(z) = 10000 * OnCommandLine(z) + 1000 * Compatible(z) + 100 * Named(z)
                                  + 10 * Optimized(z) + Place(z)
  BY <1>1, <1>2, <1>3, <1>4 DEF ComputePriority
<1> HIDE DEF Named
<1>5. \/ Named(x) > Named(y) /\ (BothMatch(x) > BothMatch(y) \/ (BothMatch(x) = BothMatch(y) /\ BestMatch(x) > BestMatch(y)))
      \/ Named(y) > Named(x) /\ (BothMatch(y) > BothMatch(x) \/ (BothMatch(x) = BothMatch(y) /\ BestMatch(y) > BestMatch(x)))
      \/ Named(x) = Named(y) /\ BothMatch(x) = BothMatch(y) /\ BestMatch(x) = BestMatch(y)
  BY <1>1 DEF Named
<1> QED
  BY <1>1, <1>2, <1>3, <1>4, <1>5, SMTT(60) DEF Wins

LEMMA PriorityIsANumber ==
    ASSUME NEW x \in Library
    PROVE  ComputePriority(x) \in Int
<1>1. NameBonus(x) \in Int
  BY DEF NameBonus
<1>2. ArchBonus[x.arch] \in Int /\ LocationBonus[x.location] \in Int
  BY DEF Library, Archs, Locations, ArchBonus, LocationBonus
<1> QED
  BY <1>1, <1>2 DEF ComputePriority

-----------------------------------------------------------------------------
USE ConstantsOK DEF Files

\* The include path.  Later include paths of a build begin with the earlier ones.
Begins(I, J)  == Len(I) <= Len(J) /\ \A i \in 1 .. Len(I) : I[i] = J[i]
OnePath(I, J) == Begins(I, J) \/ Begins(J, I)

\* The first of the headers, and the first folder that has one, exist.
LEMMA LargestExists ==
    ASSUME NEW S, IsFiniteSet(S), S \subseteq Nat, S # {}
    PROVE  \E x \in S : \A y \in S : ~(y > x)
<1> DEFINE Above(x) == {y \in S : y > x}
           All      == {Above(x) : x \in S}
<1>2. All \subseteq FiniteSubsetsOf(S) /\ All # {}
  <2>1. \A x \in S : Above(x) \in SUBSET S /\ IsFiniteSet(Above(x))
    BY FS_Subset
  <2>2. All \subseteq FiniteSubsetsOf(S)
    <3> HIDE DEF Above
    <3> QED
      BY <2>1 DEF FiniteSubsetsOf
  <2>3. PICK x \in S : TRUE
    OBVIOUS
  <2>4. Above(x) \in All
    OBVIOUS
  <2> QED
    BY <2>2, <2>4
<1>3. PICK m \in All : \A T \in All : <<T, m>> \notin StrictSubsetOrdering(S)
  <2> HIDE DEF All
  <2> QED
    BY <1>2, FS_StrictSubsetOrderingWellFounded, WFMin
<1>4. PICK x \in S : m = Above(x)
  BY <1>3
<1>5. ASSUME NEW y \in S, y > x PROVE FALSE
  <2>1. Above(y) \subseteq Above(x) /\ y \in Above(x) /\ y \notin Above(y)
    <3>1. x \in Nat /\ y \in Nat /\ \A z \in S : z \in Nat
      OBVIOUS
    <3>2. \A z \in S : z > y => z > x
      BY <1>5, <3>1
    <3>3. ~(y > y)
      BY <3>1
    <3> QED
      BY <1>5, <3>2, <3>3
  <2>2. Above(y) \in All /\ Above(y) \in SUBSET S /\ Above(x) \in SUBSET S
    OBVIOUS
  <2>3. <<Above(y), Above(x)>> \in StrictSubsetOrdering(S)
    BY <2>1, <2>2 DEF StrictSubsetOrdering
  <2> QED
    BY <1>3, <1>4, <2>2, <2>3
<1> QED
  BY <1>5

LEMMA LeastExists ==
    ASSUME NEW n \in Nat, NEW S \in SUBSET (1 .. n), S # {}
    PROVE  \E x \in S : \A y \in S : x <= y
<1> DEFINE T == {y \in 1 .. n : n + 1 - y \in S}
<1>1. IsFiniteSet(T) /\ T \subseteq Nat
  <2>1. IsFiniteSet(1 .. n)
    BY FS_Interval
  <2> QED
    BY <2>1, FS_Subset
<1>2. \A y \in S : n + 1 - y \in T
  <2> TAKE y \in S
  <2>1. y \in 1 .. n /\ n + 1 - y \in 1 .. n /\ n + 1 - (n + 1 - y) = y
    OBVIOUS
  <2> QED
    BY <2>1
<1>3. T # {}
  BY <1>2
<1>4. PICK x \in T : \A y \in T : ~(y > x)
  <2> HIDE DEF T
  <2> QED
    BY <1>1, <1>3, LargestExists
<1>5. \A y \in S : n + 1 - x <= y
  <2> TAKE y \in S
  <2>1. ~(n + 1 - y > x) /\ x \in 1 .. n /\ y \in 1 .. n
    BY <1>2, <1>4
  <2> QED
    BY <2>1
<1> QED
  BY <1>5

LEMMA Concatenation ==
    ASSUME NEW S, NEW s \in Seq(S), NEW t \in Seq(S)
    PROVE  /\ s \o t \in Seq(S) /\ Len(s \o t) = Len(s) + Len(t)
           /\ \A i \in 1 .. Len(s) : (s \o t)[i] = s[i]
           /\ \A i \in 1 .. Len(t) : (s \o t)[Len(s) + i] = t[i]
OBVIOUS

LEMMA SequenceOfSet ==
    ASSUME NEW S, IsFiniteSet(S)
    PROVE  /\ SetToSeq(S) \in Seq(S) /\ IsInjective(SetToSeq(S)) /\ ToSet(SetToSeq(S)) = S
           /\ Len(SetToSeq(S)) = Cardinality(S)
<1>1. PICK n \in Nat : ExistsBijection(1 .. n, S)
  BY FS_NatBijection
<1>2. Cardinality(S) = n
  BY <1>1, FS_CountingElements
<1>3. \E g \in [1 .. n -> S] : IsInjective(g)
  BY <1>1 DEF ExistsBijection, Bijection, Injection
<1>4. SetToSeq(S) \in [1 .. n -> S] /\ IsInjective(SetToSeq(S))
  BY <1>2, <1>3 DEF SetToSeq
<1> DEFINE g == SetToSeq(S)
<1> HIDE DEF g
<1>5. g \in Seq(S) /\ Len(g) = n
  BY <1>4 DEF g
<1>6. ToSet(g) = S
  <2>1. ToSet(g) \subseteq S
    BY <1>4 DEF ToSet, g
  <2>2. IsFiniteSet(ToSet(g)) /\ Cardinality(ToSet(g)) = n
    <3>1. g \in Bijection(1 .. n, ToSet(g))
      BY <1>4 DEF g, Bijection, Injection, Surjection, ToSet
    <3>2. ExistsBijection(1 .. n, ToSet(g))
      BY <3>1 DEF ExistsBijection
    <3> QED
      BY <3>2, FS_CountingElements, FS_NatBijection
  <2> QED
    BY <2>1, <2>2, <1>2, FS_Subset
<1> QED
  BY <1>2, <1>4, <1>5, <1>6 DEF g


-----------------------------------------------------------------------------
\* What GCC misses, and what it uses.
NoneHas(I, h) == \A l \in ToSet(I) : ~HasHeader(l, h)

MissingIs ==
    \A f \in Files : \A I \in Seq(Libs) : content[f] \in Seq(Headers) =>
        /\ FirstMissing(f, I) = None <=> \A h \in ToSet(content[f]) : \E l \in ToSet(I) : HasHeader(l, h)
        /\ FirstMissing(f, I) # None => FirstMissing(f, I) \in Headers /\ NoneHas(I, FirstMissing(f, I))

LEMMA WhatIsMissing == MissingIs
<1> SUFFICES ASSUME NEW f \in Files, content[f] \in Seq(Headers), NEW I \in Seq(Libs)
             PROVE  /\ FirstMissing(f, I) = None <=> \A h \in ToSet(content[f]) : \E l \in ToSet(I) : HasHeader(l, h)
                    /\ FirstMissing(f, I) # None => FirstMissing(f, I) \in Headers /\ NoneHas(I, FirstMissing(f, I))
  BY DEF MissingIs
<1> DEFINE c == content[f]
           lacks == {i \in 1 .. Len(c) : \A l \in ToSet(I) : ~HasHeader(l, c[i])}
           first == CHOOSE i \in lacks : \A j \in lacks : i <= j
<1>1. FirstMissing(f, I) = IF lacks = {} THEN None ELSE c[first]
  BY DEF FirstMissing
<1>2. Len(c) \in Nat /\ \A i \in 1 .. Len(c) : c[i] \in Headers
  OBVIOUS
<1>3. lacks = {} <=> \A h \in ToSet(c) : \E l \in ToSet(I) : HasHeader(l, h)
  <2>1. ToSet(c) = {c[i] : i \in 1 .. Len(c)}
    BY <1>2 DEF ToSet
  <2>2. lacks = {} <=> \A i \in 1 .. Len(c) : \E l \in ToSet(I) : HasHeader(l, c[i])
    OBVIOUS
  <2>3. ASSUME lacks = {}, NEW h \in ToSet(c) PROVE \E l \in ToSet(I) : HasHeader(l, h)
    <3>1. PICK i \in 1 .. Len(c) : h = c[i]
      BY <2>1
    <3> QED
      BY <2>2, <2>3, <3>1
  <2>4. ASSUME \A h \in ToSet(c) : \E l \in ToSet(I) : HasHeader(l, h), NEW i \in 1 .. Len(c)
        PROVE  \E l \in ToSet(I) : HasHeader(l, c[i])
    <3>1. c[i] \in ToSet(c)
      BY <2>1
    <3> QED
      BY <2>4, <3>1
  <2> HIDE DEF lacks, c
  <2> QED
    BY <2>2, <2>3, <2>4
<1>4. CASE lacks = {}
  BY <1>1, <1>3, <1>4
<1>5. CASE lacks # {}
  <2>1. lacks \in SUBSET (1 .. Len(c))
    OBVIOUS
  <2>2. \E i \in lacks : \A j \in lacks : i <= j
    <3> HIDE DEF lacks
    <3> QED
      BY <1>2, <1>5, <2>1, LeastExists
  <2>3. first \in lacks
    <3> HIDE DEF lacks
    <3> QED
      BY <2>2
  <2>4. c[first] \in Headers /\ NoneHas(I, c[first])
    <3> HIDE DEF first
    <3> QED
      BY <1>2, <2>3 DEF NoneHas
  <2> QED
    BY <1>1, <1>3, <1>5, <2>4
<1> QED
  BY <1>4, <1>5

\* What is enough for a source stays it when folders are added behind.
LEMMA MoreIsEnough ==
    ASSUME NEW f \in Files, content[f] \in Seq(Headers), NEW I \in Seq(Libs), NEW J \in Seq(Libs),
           Begins(I, J), FirstMissing(f, I) = None
    PROVE  FirstMissing(f, J) = None /\ Used(f, J) = Used(f, I)
<1>1. /\ Len(I) \in Nat /\ Len(J) \in Nat /\ Len(I) <= Len(J) /\ \A i \in 1 .. Len(I) : i \in 1 .. Len(J) /\ I[i] = J[i]
      /\ ToSet(I) = {I[i] : i \in 1 .. Len(I)} /\ ToSet(J) = {J[i] : i \in 1 .. Len(J)}
  BY DEF Begins, ToSet
<1>2. \A h \in ToSet(content[f]) : \E i \in 1 .. Len(I) : HasHeader(I[i], h)
  <2>1. \A h \in ToSet(content[f]) : \E l \in ToSet(I) : HasHeader(l, h)
    BY WhatIsMissing DEF MissingIs
  <2> QED
    BY <1>1, <2>1
<1>3. FirstMissing(f, J) = None
  BY <1>1, <1>2, WhatIsMissing DEF MissingIs
<1>4. ASSUME NEW k \in 1 .. Len(J), NEW h \in ToSet(content[f]),
             HasHeader(J[k], h), \A j \in 1 .. k - 1 : ~HasHeader(J[j], h)
      PROVE  k \in 1 .. Len(I) /\ I[k] = J[k] /\ \A j \in 1 .. k - 1 : I[j] = J[j]
  <2>1. PICK i \in 1 .. Len(I) : HasHeader(I[i], h)
    BY <1>2
  <2>2. ~(i < k)
    BY <1>1, <1>4, <2>1
  <2> QED
    BY <1>1, <2>2
<1>5. Used(f, J) \subseteq Used(f, I)
  BY <1>4 DEF Used
<1>6. ASSUME NEW k \in 1 .. Len(I)
      PROVE  k \in 1 .. Len(J) /\ I[k] = J[k] /\ \A j \in 1 .. k - 1 : I[j] = J[j]
  BY <1>1
<1>7. Used(f, I) \subseteq Used(f, J)
  BY <1>6 DEF Used
<1> QED
  BY <1>3, <1>5, <1>7

LEMMA SameUse ==
    ASSUME NEW f \in Files, content[f] \in Seq(Headers), NEW I \in Seq(Libs), NEW J \in Seq(Libs),
           OnePath(I, J), FirstMissing(f, I) = None, FirstMissing(f, J) = None
    PROVE  Used(f, J) = Used(f, I)
BY MoreIsEnough DEF OnePath

\* What is in use is in the path, and has a header that the source includes.
LEMMA UsedIsThere ==
    ASSUME NEW f \in Files, NEW I \in Seq(Libs)
    PROVE  Used(f, I) \subseteq ToSet(I)
BY DEF Used, ToSet

\* Headers that are not in use can go.
LEMMA UnusedCanGo ==
    ASSUME NEW f \in Files, content[f] \in Seq(Headers), NEW I \in Seq(Libs),
           FirstMissing(f, I) = None, NEW l, l \notin Used(f, I),
           content'[f] = content[f], gone \subseteq gone', gone' \subseteq gone \cup {l}
    PROVE  FirstMissing(f, I)' = None /\ Used(f, I)' = Used(f, I)
<1> DEFINE First(k, h) == HasHeader(I[k], h) /\ \A j \in 1 .. k - 1 : ~HasHeader(I[j], h)
<1>0. Len(I) \in Nat /\ ToSet(I) = {I[i] : i \in 1 .. Len(I)}
  BY DEF ToSet
<1>1. ASSUME NEW h \in ToSet(content[f])
      PROVE  \E k \in 1 .. Len(I) : First(k, h)
  <2> DEFINE S == {k \in 1 .. Len(I) : HasHeader(I[k], h)}
  <2>1. S # {}
    <3>1. \E m \in ToSet(I) : HasHeader(m, h)
      BY WhatIsMissing DEF MissingIs
    <3> QED
      BY <1>0, <3>1
  <2>2. PICK k \in S : \A j \in S : k <= j
    <3>1. S \in SUBSET (1 .. Len(I))
      OBVIOUS
    <3> HIDE DEF S
    <3> QED
      BY <1>0, <2>1, <3>1, LeastExists
  <2>3. \A j \in 1 .. k - 1 : ~HasHeader(I[j], h)
    BY <1>0, <2>2
  <2> QED
    BY <2>2, <2>3
<1>2. ASSUME NEW h \in ToSet(content[f]), NEW k \in 1 .. Len(I), First(k, h)
      PROVE  I[k] # l
  BY <1>2 DEF Used
<1>3. ASSUME NEW h \in ToSet(content[f]), NEW k \in 1 .. Len(I)
      PROVE  First(k, h) <=> First(k, h)'
  <2>1. HasHeader(I[k], h)' <=> HasHeader(I[k], h) /\ I[k] \notin gone'
    BY DEF HasHeader
  <2>2. First(k, h) => First(k, h)'
    BY <1>2 DEF HasHeader
  <2>3. ASSUME First(k, h)' PROVE First(k, h)
    <3>1. PICK m \in 1 .. Len(I) : First(m, h)
      BY <1>1
    <3>2. HasHeader(I[m], h)' /\ HasHeader(I[k], h)' /\ \A j \in 1 .. k - 1 : ~HasHeader(I[j], h)'
      BY <1>2, <2>3, <3>1 DEF HasHeader
    <3>3. HasHeader(I[m], h) /\ HasHeader(I[k], h) /\ \A j \in 1 .. m - 1 : ~HasHeader(I[j], h)
      BY <3>1, <3>2 DEF HasHeader
    <3>4. ~(m < k) /\ ~(k < m)
      BY <1>0, <3>2, <3>3
    <3>5. m = k
      BY <1>0, <3>4
    <3> QED
      BY <3>1, <3>5
  <2> QED
    BY <2>2, <2>3
<1>4. ToSet(content[f])' = ToSet(content[f])
  BY DEF ToSet
<1>5. Used(f, I) = {I[k] : k \in {k \in 1 .. Len(I) : \E h \in ToSet(content[f]) : First(k, h)}}
  BY DEF Used
<1>6. Used(f, I)' = {I[k] : k \in {k \in 1 .. Len(I) : \E h \in ToSet(content[f])' : First(k, h)'}}
  BY DEF Used
<1>7. FirstMissing(f, I)' = None
  <2>1. \A h \in ToSet(content[f])' : \E k \in 1 .. Len(I) : HasHeader(I[k], h)'
    BY <1>1, <1>3, <1>4
  <2>2. MissingIs'
    BY WhatIsMissing, PTL
  <2> QED
    BY <1>0, <2>1, <2>2 DEF MissingIs
<1> QED
  BY <1>3, <1>4, <1>5, <1>6, <1>7

-----------------------------------------------------------------------------
\* The cache: of the build, or the one that the next build will read.
Cache == IF phase = "idle" THEN saved ELSE entries
Pos   == IF phase = "idle" THEN 0 ELSE Position

CompiledIn(c, i) == i \in 1 .. Len(c) /\ c[i].op = "compile"
AnswerIn(c, i, x) == CompiledIn(c, i) /\ i < Len(c) /\ c[i + 1] = Missing(x)
AddsIn(c, i) == CompiledIn(c, i) /\ i + 2 <= Len(c) /\ c[i + 1].op = "missing" /\ c[i + 2].op = "added"

Compiled(i)  == CompiledIn(Cache, i)
Answer(i, x) == AnswerIn(Cache, i, x)
Adds(i)      == AddsIn(Cache, i)

Detecting == phase \notin {"idle", "prerun"}
AtSource  == phase \in {"compile", "preprocess", "missing"}

LEMMA EntryTypes ==
    /\ \A f \in Files, I \in Seq(Libs) : Compile(f, I) \in Entries /\ Compile(f, I).op = "compile"
                                         /\ Compile(f, I).of = f /\ Compile(f, I).with = I
    /\ \A x \in Headers \cup {None} : Missing(x) \in Entries /\ Missing(x).op = "missing" /\ Missing(x).of = x
    /\ \A l \in Libs : Added(l) \in Entries /\ Added(l).op = "added" /\ Added(l).of = l
BY DEF Compile, Missing, Added, Entries

\* What expect makes of the cache, met again or cut off.
Meets(es) ==
    /\ Pos' = Pos + Len(es) /\ Pos' <= Len(Cache')
    /\ Cache' = Cache \/ Len(Cache') = Pos'
    /\ \A i \in 1 .. Pos : Cache'[i] = Cache[i]
    /\ \A i \in 1 .. Len(es) : Cache'[Pos + i] = es[i]

LEMMA PosInCache ==
    ASSUME TypeOK
    PROVE  Pos \in 0 .. Len(Cache) /\ Len(Cache) \in Nat /\ Cache \in Seq(Entries)
BY DEF TypeOK, Pos, Cache, Position

LEMMA Expecting ==
    ASSUME TypeOK, phase # "idle", phase' \notin {"idle", "prerun"},
           NEW es \in Seq(Entries), Expect(es)
    PROVE  Meets(es) /\ Cache' \in Seq(Entries)
<1>1. /\ Pos \in 0 .. Len(entries) /\ Len(entries) \in Nat /\ entries \in Seq(Entries) /\ Cache = entries
      /\ Position = Pos /\ Pos' = curr' /\ Cache' = entries' /\ Len(es) \in Nat
  BY PosInCache DEF Pos, Cache, Position
<1>2. curr' = Pos + Len(es)
  BY <1>1 DEF Expect
<1>3. CASE Pos + Len(es) <= Len(entries) /\ \A i \in 1 .. Len(es) : entries[Pos + i] = es[i]
  <2>1. entries' = entries
    BY <1>1, <1>3 DEF Expect
  <2> QED
    BY <1>1, <1>2, <1>3, <2>1 DEF Meets
<1>4. CASE ~(Pos + Len(es) <= Len(entries) /\ \A i \in 1 .. Len(es) : entries[Pos + i] = es[i])
  <2> DEFINE s == SubSeq(entries, 1, Pos)
  <2>1. entries' = s \o es
    BY <1>1, <1>4 DEF Expect
  <2>2. s \in Seq(Entries) /\ Len(s) = Pos /\ \A i \in 1 .. Pos : s[i] = entries[i]
    BY <1>1, SubSeqProperties
  <2> HIDE DEF s
  <2>3. /\ entries' \in Seq(Entries) /\ Len(entries') = Pos + Len(es)
        /\ \A i \in 1 .. Pos : entries'[i] = s[i]
        /\ \A i \in 1 .. Len(es) : entries'[Pos + i] = es[i]
    <3>1. /\ s \o es \in Seq(Entries) /\ Len(s \o es) = Len(s) + Len(es)
          /\ \A i \in 1 .. Len(s) : (s \o es)[i] = s[i]
          /\ \A i \in 1 .. Len(es) : (s \o es)[Len(s) + i] = es[i]
      <4>1. s \in Seq(Entries) /\ es \in Seq(Entries)
        BY <2>2
      <4> QED
        BY ONLY <4>1, Concatenation
    <3> QED
      BY <2>1, <2>2, <3>1
  <2>4. \A i \in 1 .. Pos : entries'[i] = entries[i]
    BY <1>1, <2>2, <2>3
  <2>5. \A i \in 1 .. Len(es) : entries'[Pos + i] = es[i]
    BY <2>3
  <2> QED
    BY <1>1, <1>2, <2>3, <2>4, <2>5 DEF Meets
<1> QED
  BY <1>3, <1>4

\* The four steps that expect something.
LEMMA ProfilePath ==
    /\ SetToSeq(Profile) \in Seq(Libs) /\ IsInjective(SetToSeq(Profile)) /\ ToSet(SetToSeq(Profile)) = Profile
    /\ Len(SetToSeq(Profile)) = Cardinality(Profile) /\ Cardinality(Profile) \in Nat
<1>1. Profile \subseteq Libs /\ IsFiniteSet(Profile)
  OBVIOUS
<1> QED
  BY <1>1, SequenceOfSet, SeqMonotonic, FS_CardinalityType

LEMMA EndPrerunExpects ==
    ASSUME TypeOK, EndPrerun
    PROVE  /\ Pos = 0 /\ Pos' <= Len(Cache') /\ (Cache' = Cache \/ Len(Cache') = Pos') /\ Pos' \in Nat
           /\ \A i \in 1 .. Pos' : Cache'[i].op = "added"
           /\ Cache' \in Seq(Entries) /\ entries' = Cache' /\ curr' = Pos'
<1> DEFINE es == [i \in 1 .. Cardinality(Profile) |-> Added(includes'[i])]
<1>1. includes' = SetToSeq(Profile) /\ Expect(es) /\ phase = "prerun" /\ phase' = "pop"
  BY DEF EndPrerun
<1>2. Len(includes') = Cardinality(Profile) /\ Cardinality(Profile) \in Nat /\ includes' \in Seq(Libs)
  BY <1>1, ProfilePath
<1>3. \A i \in 1 .. Cardinality(Profile) : es[i] \in Entries /\ es[i].op = "added"
  BY <1>2, EntryTypes
<1>4. es \in Seq(Entries) /\ Len(es) = Cardinality(Profile)
  BY <1>2, <1>3
<1> HIDE DEF es
<1>5. Meets(es) /\ Cache' \in Seq(Entries)
  BY <1>1, <1>4, Expecting
<1>6. Pos = 0
  BY <1>1 DEF Pos, Position
<1>7. entries' = Cache' /\ curr' = Pos'
  BY <1>1 DEF Pos, Position, Cache
<1> QED
  BY <1>2, <1>3, <1>4, <1>5, <1>6, <1>7 DEF Meets

LEMMA BeginCompileExpects ==
    ASSUME TypeOK, BeginCompile, source \in Files
    PROVE  /\ Pos \in 0 .. Len(Cache) /\ Pos' = Pos + 1 /\ Pos' <= Len(Cache') /\ (Cache' = Cache \/ Len(Cache') = Pos')
           /\ \A i \in 1 .. Pos : Cache'[i] = Cache[i]
           /\ Cache'[Pos'] = Compile(source, includes)
           /\ Cache' \in Seq(Entries) /\ entries' = Cache' /\ curr' = Pos'
<1> DEFINE es == <<Compile(source, includes)>>
<1>1. Expect(es) /\ phase = "compile" /\ phase' = "preprocess" /\ includes \in Seq(Libs)
  BY DEF BeginCompile, TypeOK
<1>2. es \in Seq(Entries) /\ Len(es) = 1 /\ es[1] = Compile(source, includes)
  BY <1>1, EntryTypes
<1> HIDE DEF es
<1>3. Meets(es) /\ Cache' \in Seq(Entries)
  BY <1>1, <1>2, Expecting
<1>4. entries' = Cache' /\ curr' = Pos'
  BY <1>1 DEF Pos, Position, Cache
<1> QED
  BY <1>2, <1>3, <1>4, PosInCache DEF Meets

LEMMA EndSourceExpects ==
    ASSUME TypeOK, EndSource
    PROVE  /\ Pos \in 0 .. Len(Cache) /\ Pos' = Pos + 1 /\ Pos' <= Len(Cache') /\ (Cache' = Cache \/ Len(Cache') = Pos')
           /\ \A i \in 1 .. Pos : Cache'[i] = Cache[i]
           /\ Cache'[Pos'] = Missing(None)
           /\ Cache' \in Seq(Entries) /\ entries' = Cache' /\ curr' = Pos'
<1> DEFINE es == <<Missing(None)>>
<1>1. Expect(es) /\ phase = "missing" /\ phase' = "pop"
  BY DEF EndSource
<1>2. es \in Seq(Entries) /\ Len(es) = 1 /\ es[1] = Missing(None)
  BY <1>1, EntryTypes
<1> HIDE DEF es
<1>3. Meets(es) /\ Cache' \in Seq(Entries)
  BY <1>1, <1>2, Expecting
<1>4. entries' = Cache' /\ curr' = Pos'
  BY <1>1 DEF Pos, Position, Cache
<1> QED
  BY <1>2, <1>3, <1>4, PosInCache DEF Meets

\* AddLibrary, with the library that it takes.
Takes(l) ==
    /\ phase = "missing" /\ missing # None /\ Resolves
    /\ l \in Best(alternatives[missing])
    /\ Expect(<<Missing(missing), Added(l)>>)
    /\ includes' = Append(includes, l) /\ imported' = imported \cup {l}
    /\ \E S \in Rest(alternatives[missing], l) : alternatives' = [alternatives EXCEPT ![missing] = S]
    /\ resolved' = [resolved EXCEPT ![missing] = l]
    /\ queue' = Push(queue, {l})
    /\ phase' = "compile"
    /\ UNCHANGED <<diskVars, boundVars, cancelled, sketchIsUnchanged, runnerVars, staged, sourceVars>>

LEMMA AddLibraryTakes ==
    ASSUME TypeOK, AddLibrary
    PROVE  \E l \in Libs : Takes(l) /\ l \in alternatives[missing] /\ missing \in Headers
<1>1. PICK l \in Best(alternatives[missing]) : Takes(l)
  BY DEF AddLibrary, Takes
<1>2. l \in alternatives[missing] /\ missing \in Headers /\ l \in Libs
  BY <1>1 DEF AddLibrary, Best, TypeOK
<1> QED
  BY <1>1, <1>2

LEMMA AddLibraryExpects ==
    ASSUME TypeOK, NEW l \in Libs, Takes(l)
    PROVE  /\ Pos \in 0 .. Len(Cache) /\ Pos' = Pos + 2 /\ Pos' <= Len(Cache') /\ (Cache' = Cache \/ Len(Cache') = Pos')
           /\ \A i \in 1 .. Pos : Cache'[i] = Cache[i]
           /\ Cache'[Pos + 1] = Missing(missing) /\ Cache'[Pos + 2] = Added(l)
           /\ Cache' \in Seq(Entries) /\ entries' = Cache' /\ curr' = Pos'
<1> DEFINE es == <<Missing(missing), Added(l)>>
<1>1. Expect(es) /\ phase = "missing" /\ phase' = "compile"
  BY DEF Takes
<1>2. es \in Seq(Entries) /\ Len(es) = 2 /\ es[1] = Missing(missing) /\ es[2] = Added(l)
  BY <1>1, EntryTypes DEF TypeOK
<1> HIDE DEF es
<1>3. Meets(es) /\ Cache' \in Seq(Entries)
  BY <1>1, <1>2, Expecting
<1>4. entries' = Cache' /\ curr' = Pos'
  BY <1>1 DEF Pos, Position, Cache
<1> QED
  BY <1>2, <1>3, <1>4, PosInCache DEF Meets

-----------------------------------------------------------------------------
\* What belongs to each phase of a build.
PhaseOK ==
    /\ phase \in {"idle", "prerun"} => includes = <<>> /\ imported = {} /\ staged = {} /\ queue = <<>>
                                       /\ resolved = NoHeader(None)
    /\ phase = "idle" => entries = <<>> /\ curr = 0
    /\ phase \in {"idle", "found", "built"} => queued = {} /\ ran = {}
    /\ phase \in {"found", "built"} => saved = entries /\ curr = Len(entries) /\ queue = <<>>
    /\ AtSource => source \in Files
    /\ phase \in {"preprocess", "missing"} => curr > 0 /\ entries[curr] = Compile(source, includes)

\* The libraries of the include path, and those that can still be found.
FoundOK ==
    /\ Detecting => /\ staged \subseteq Profile /\ staged \cap imported = {}
                    /\ ToSet(includes) = staged \cup imported
    /\ phase # "idle" =>
          \A h \in Headers : /\ \A l \in alternatives[h] : l \in Libs \ Profile /\ HeaderOf[l] = h
                             /\ \A l \in Libs \ Profile : HeaderOf[l] = h => l \in alternatives[h] \/ l \in ToSet(includes)

LEMMA LeaveTypes ==
    ASSUME Leave
    PROVE  /\ phase' = "idle" /\ cancelled' = FALSE /\ entries' = <<>> /\ curr' = 0 /\ sketchIsUnchanged' = FALSE
           /\ preRunner' = FALSE /\ queued' = {} /\ ran' = {} /\ queue' = <<>> /\ includes' = <<>>
           /\ alternatives' = NoHeader({}) /\ resolved' = NoHeader(None)
           /\ staged' = {} /\ imported' = {} /\ source' = None /\ unchanged' = FALSE /\ missing' = None
           /\ <<>> \in Seq(Entries) /\ <<>> \in Seq(Files) /\ <<>> \in Seq(Libs) /\ IsInjective(<<>>)
           /\ Len(<<>>) = 0 /\ NoHeader({}) \in [Headers -> SUBSET Libs]
           /\ NoHeader(None) \in [Headers -> Libs \cup {None}]
BY DEF Leave, NoHeader, IsInjective

\* What GCC leaves.
LEMMA GccTypes ==
    ASSUME TypeOK, NEW f \in Files, NEW I \in Seq(Libs), Gcc(f, I)
    PROVE  /\ dep' \in [Files -> [is : {"none", "stale", "fresh"}, on : SUBSET Libs]]
           /\ FirstMissing(f, I) # None => dep' = dep
           /\ FirstMissing(f, I) = None => dep'[f].is = "fresh" /\ dep'[f].on = Used(f, I)
           /\ \A g \in Files : g # f => dep'[g] = dep[g]
<1>1. Used(f, I) \in SUBSET Libs
  BY DEF Used
<1>2. /\ dep \in [Files -> [is : {"none", "stale", "fresh"}, on : SUBSET Libs]]
      /\ [is |-> "fresh", on |-> Used(f, I)] \in [is : {"none", "stale", "fresh"}, on : SUBSET Libs]
  BY <1>1 DEF TypeOK
<1>3. dep' = IF FirstMissing(f, I) = None THEN [dep EXCEPT ![f] = [is |-> "fresh", on |-> Used(f, I)]] ELSE dep
  BY DEF Gcc
<1> QED
  BY <1>2, <1>3

LEMMA StaleTypes ==
    ASSUME TypeOK, NEW F \in SUBSET Files, Stale(F)
    PROVE  /\ dep' \in [Files -> [is : {"none", "stale", "fresh"}, on : SUBSET Libs]]
           /\ \A f \in Files : dep'[f].on = dep[f].on
           /\ \A f \in Files : dep'[f].is = "fresh" <=> dep[f].is = "fresh" /\ f \notin F
<1>1. dep \in [Files -> [is : {"none", "stale", "fresh"}, on : SUBSET Libs]]
  BY DEF TypeOK
<1>2. dep' = [f \in Files |-> IF f \in F /\ UpToDate(f) THEN [dep[f] EXCEPT !.is = "stale"] ELSE dep[f]]
  BY DEF Stale
<1> QED
  BY <1>1, <1>2 DEF UpToDate

LEMMA PushTypes ==
    ASSUME NEW q \in Seq(Files), NEW L \in SUBSET Libs, IsFiniteSet(L)
    PROVE  /\ Push(q, L) \in Seq(Files) /\ ToSet(Push(q, L)) = ToSet(q) \cup L
           /\ IsInjective(q) => IsInjective(Push(q, L))
<1> DEFINE S == L \ ToSet(q)
           t == SetToSeq(S)
<1>1. IsFiniteSet(S) /\ S \subseteq Libs
  BY FS_Subset
<1>2. t \in Seq(S) /\ IsInjective(t) /\ ToSet(t) = S
  BY <1>1, SequenceOfSet
<1>3. t \in Seq(Files)
  BY <1>1, <1>2, SeqMonotonic
<1>4. Push(q, L) = q \o t
  BY DEF Push
<1>0. S \cap ToSet(q) = {} /\ ToSet(q) \cup S = ToSet(q) \cup L
  OBVIOUS
<1> HIDE DEF t, S
<1>5. /\ q \o t \in Seq(Files) /\ Len(q \o t) = Len(q) + Len(t)
      /\ \A i \in 1 .. Len(q) : (q \o t)[i] = q[i]
      /\ \A i \in 1 .. Len(t) : (q \o t)[Len(q) + i] = t[i]
  BY ONLY <1>3, q \in Seq(Files), Concatenation
<1> DEFINE r == q \o t
<1> HIDE DEF r
<1>6. /\ ToSet(q) = {q[i] : i \in 1 .. Len(q)} /\ ToSet(t) = {t[i] : i \in 1 .. Len(t)}
      /\ ToSet(r) = {r[i] : i \in 1 .. Len(r)} /\ Len(q) \in Nat /\ Len(t) \in Nat
  BY <1>3, <1>5 DEF ToSet, r
<1>7. /\ Len(r) = Len(q) + Len(t) /\ \A i \in 1 .. Len(q) : r[i] = q[i]
      /\ \A i \in Len(q) + 1 .. Len(r) : i - Len(q) \in 1 .. Len(t) /\ r[i] = t[i - Len(q)]
  <2>1. ASSUME NEW i \in Len(q) + 1 .. Len(r)
        PROVE  i - Len(q) \in 1 .. Len(t) /\ r[i] = t[i - Len(q)]
    <3>1. i - Len(q) \in 1 .. Len(t) /\ Len(q) + (i - Len(q)) = i
      BY <1>5, <1>6 DEF r
    <3> QED
      BY <1>5, <3>1 DEF r
  <2> QED
    BY <1>5, <2>1 DEF r
<1>8. ToSet(r) = ToSet(q) \cup S
  <2>1. ToSet(r) \subseteq ToSet(q) \cup S
    <3>1. ASSUME NEW i \in 1 .. Len(r) PROVE r[i] \in ToSet(q) \cup S
      <4>1. CASE i <= Len(q)
        BY <1>6, <1>7, <4>1
      <4>2. CASE ~(i <= Len(q))
        <5>1. i \in Len(q) + 1 .. Len(r)
          BY <1>6, <1>7, <4>2
        <5>2. i - Len(q) \in 1 .. Len(t) /\ r[i] = t[i - Len(q)]
          BY <1>7, <5>1
        <5> QED
          BY <1>2, <1>6, <5>2
      <4> QED
        BY <4>1, <4>2
    <3> QED
      BY <1>6, <3>1
  <2>2. ToSet(q) \subseteq ToSet(r)
    <3>1. ASSUME NEW i \in 1 .. Len(q) PROVE i \in 1 .. Len(r) /\ q[i] = r[i]
      BY <1>6, <1>7
    <3> QED
      BY <1>6, <3>1
  <2>3. S \subseteq ToSet(r)
    <3>1. ASSUME NEW i \in 1 .. Len(t) PROVE Len(q) + i \in 1 .. Len(r) /\ t[i] = r[Len(q) + i]
      BY <1>5, <1>6, <1>7 DEF r
    <3> QED
      BY <1>2, <1>6, <3>1
  <2> QED
    BY <2>1, <2>2, <2>3
<1>9. ASSUME IsInjective(q) PROVE IsInjective(r)
  <2>1. DOMAIN r = 1 .. Len(r) /\ DOMAIN q = 1 .. Len(q) /\ DOMAIN t = 1 .. Len(t)
    BY <1>3, <1>5 DEF r
  <2>2. ASSUME NEW i \in 1 .. Len(r), NEW j \in 1 .. Len(r), r[i] = r[j] PROVE i = j
    <3>1. CASE i <= Len(q) /\ j <= Len(q)
      BY <1>6, <1>7, <1>9, <2>1, <2>2, <3>1 DEF IsInjective
    <3>2. CASE ~(i <= Len(q)) /\ ~(j <= Len(q))
      <4>1. i \in Len(q) + 1 .. Len(r) /\ j \in Len(q) + 1 .. Len(r)
        BY <1>6, <1>7, <3>2
      <4>2. /\ i - Len(q) \in DOMAIN t /\ j - Len(q) \in DOMAIN t /\ t[i - Len(q)] = t[j - Len(q)]
        BY <1>7, <2>1, <2>2, <4>1
      <4>3. i - Len(q) = j - Len(q)
        BY <1>2, <4>2 DEF IsInjective
      <4> QED
        BY <1>6, <4>3
    <3>3. ASSUME NEW k \in 1 .. Len(r), NEW m \in 1 .. Len(r), k <= Len(q), ~(m <= Len(q)), r[k] = r[m]
          PROVE  FALSE
      <4>1. r[k] \in ToSet(q)
        BY <1>6, <1>7, <3>3
      <4>2. r[m] \in S
        <5>1. m \in Len(q) + 1 .. Len(r)
          BY <1>6, <1>7, <3>3
        <5>2. m - Len(q) \in 1 .. Len(t) /\ r[m] = t[m - Len(q)]
          BY <1>7, <5>1
        <5> QED
          BY <1>2, <1>6, <5>2
      <4> QED
        BY <1>0, <3>3, <4>1, <4>2
    <3> QED
      BY <2>2, <3>1, <3>2, <3>3
  <2> QED
    BY <2>1, <2>2 DEF IsInjective
<1> QED
  BY <1>0, <1>4, <1>5, <1>8, <1>9 DEF r

-----------------------------------------------------------------------------
\* The include path of AddLibrary.
LEMMA PathGrows ==
    ASSUME TypeOK, PhaseOK, FoundOK, NEW l \in Libs, Takes(l), l \in alternatives[missing], missing \in Headers
    PROVE  /\ includes' \in Seq(Libs) /\ IsInjective(includes') /\ ToSet(includes') = ToSet(includes) \cup {l}
           /\ Len(includes') = Len(includes) + 1 /\ Begins(includes, includes')
           /\ l \notin ToSet(includes) /\ l \notin imported /\ l \notin Profile /\ HeaderOf[l] = missing
<1>1. phase = "missing" /\ Resolves /\ includes' = Append(includes, l) /\ includes \in Seq(Libs) /\ IsInjective(includes)
  BY DEF Takes, TypeOK
<1>2. l \notin imported /\ l \notin Profile /\ HeaderOf[l] = missing
  BY <1>1 DEF Resolves, FoundOK
<1>3. l \notin ToSet(includes)
  BY <1>1, <1>2 DEF FoundOK, Detecting
<1>4. /\ Len(includes) \in Nat /\ DOMAIN includes = 1 .. Len(includes)
      /\ includes' \in Seq(Libs) /\ Len(includes') = Len(includes) + 1 /\ DOMAIN includes' = 1 .. Len(includes) + 1
      /\ \A i \in 1 .. Len(includes) : includes'[i] = includes[i]
      /\ includes'[Len(includes) + 1] = l
  BY <1>1
<1>5. ToSet(includes) = {includes[i] : i \in 1 .. Len(includes)} /\ ToSet(includes') = {includes'[i] : i \in 1 .. Len(includes) + 1}
  BY <1>4 DEF ToSet
<1>6. ToSet(includes') = ToSet(includes) \cup {l}
  <2>1. \A i \in 1 .. Len(includes) + 1 : i \in 1 .. Len(includes) \/ i = Len(includes) + 1
    BY <1>4
  <2>2. \A i \in 1 .. Len(includes) : i \in 1 .. Len(includes) + 1
    BY <1>4
  <2>3. Len(includes) + 1 \in 1 .. Len(includes) + 1
    BY <1>4
  <2>4. ToSet(includes') \subseteq ToSet(includes) \cup {l}
    BY <1>4, <1>5, <2>1
  <2>5. ToSet(includes) \subseteq ToSet(includes') /\ l \in ToSet(includes')
    BY <1>4, <1>5, <2>2, <2>3
  <2> QED
    BY <2>4, <2>5
<1>7. IsInjective(includes')
  <2>1. ASSUME NEW i \in DOMAIN includes', NEW j \in DOMAIN includes', includes'[i] = includes'[j] PROVE i = j
    <3>1. CASE i \in 1 .. Len(includes) /\ j \in 1 .. Len(includes)
      BY <1>1, <1>4, <2>1, <3>1 DEF IsInjective
    <3>2. CASE i = Len(includes) + 1 /\ j \in 1 .. Len(includes)
      BY <1>3, <1>4, <1>5, <2>1, <3>2
    <3>3. CASE j = Len(includes) + 1 /\ i \in 1 .. Len(includes)
      BY <1>3, <1>4, <1>5, <2>1, <3>3
    <3> QED
      BY <1>4, <3>1, <3>2, <3>3
  <2> QED
    BY <2>1 DEF IsInjective
<1>8. Begins(includes, includes')
  BY <1>4 DEF Begins
<1> QED
  BY <1>2, <1>3, <1>4, <1>6, <1>7, <1>8

LEMMA CommittedTypes ==
    ASSUME TypeOK, PhaseOK, FoundOK, phase = "missing"
    PROVE  Committed \in SUBSET Libs /\ IsFiniteSet(Committed) /\ Committed \subseteq staged /\ Committed \subseteq Profile
<1>1. Committed \subseteq staged /\ staged \subseteq Profile
  BY DEF Committed, FoundOK, Detecting
<1> QED
  BY <1>1, FS_Subset

LEMMA CutCache ==
    ASSUME TypeOK, phase = "pop", SaveCache
    PROVE  /\ saved' = SubSeq(Cache, 1, Pos) /\ saved' \in Seq(Entries) /\ Len(saved') = Pos
           /\ \A i \in 1 .. Pos : saved'[i] = Cache[i]
<1>1. Cache = entries /\ Pos = curr /\ curr \in 0 .. Len(entries) /\ entries \in Seq(Entries)
  BY DEF Cache, Pos, Position, TypeOK
<1> QED
  BY <1>1, SubSeqProperties DEF SaveCache

LEMMA LeaveKeepsTypes ==
    ASSUME TypeOK, Leave, UNCHANGED <<content, gone, builds, edits>>,
           dep' \in [Files -> [is : {"none", "stale", "fresh"}, on : SUBSET Libs]],
           ino' = ino, saved' \in Seq(Entries), sound' \in BOOLEAN
    PROVE  TypeOK'
<1>1. {sound', cancelled', sketchIsUnchanged', preRunner', unchanged'} \subseteq BOOLEAN
  BY LeaveTypes
<1> QED
  BY <1>1, LeaveTypes DEF TypeOK

LEMMA TypesStep ==
    ASSUME TypeOK, PhaseOK, FoundOK, [Next]_vars
    PROVE  TypeOK'
<1> USE DEF diskVars, boundVars, cacheVars, runnerVars, foundVars, sourceVars, buildVars
<1>0. MaxBuilds \in Nat /\ MaxEdits \in Nat /\ Sketch \notin Libs /\ Profile \subseteq Libs
  OBVIOUS
<1>1. CASE UNCHANGED vars
  BY <1>1 DEF TypeOK, vars
<1>2. ASSUME NEW f \in Files, EditSource(f) PROVE TypeOK'
  <2>1. {f} \in SUBSET Files
    OBVIOUS
  <2>2. dep' \in [Files -> [is : {"none", "stale", "fresh"}, on : SUBSET Libs]]
    BY <1>2, <2>1, StaleTypes DEF EditSource
  <2>3. PICK c \in Contents[f] : content' = [content EXCEPT ![f] = c]
    BY <1>2 DEF EditSource
  <2>4. content' \in [Files -> Seq(Headers)] /\ \A g \in Files : content'[g] \in Contents[g]
    BY <2>3 DEF TypeOK
  <2>5. ino' \in {"none", "current", "olderThanSketch", "olderThanHeader"} /\ edits' \in 0 .. MaxEdits
    BY <1>0, <1>2 DEF EditSource, Change, TypeOK
  <2> QED
    BY <1>2, <2>2, <2>4, <2>5 DEF EditSource, Change, TypeOK
<1>3. ASSUME NEW l \in Libs, EditHeader(l) PROVE TypeOK'
  <2>1. {f \in Files : f = l \/ l \in dep[f].on} \in SUBSET Files
    OBVIOUS
  <2>2. dep' \in [Files -> [is : {"none", "stale", "fresh"}, on : SUBSET Libs]]
    BY <1>3, <2>1, StaleTypes DEF EditHeader
  <2>3. ino' \in {"none", "current", "olderThanSketch", "olderThanHeader"} /\ edits' \in 0 .. MaxEdits /\ gone' \subseteq Libs
    BY <1>0, <1>3 DEF EditHeader, Change, TypeOK
  <2> QED
    BY <1>3, <2>2, <2>3 DEF EditHeader, Change, TypeOK
<1>4. CASE BeginBuild
  <2>1. {UpToDate(Sketch), TRUE} \subseteq BOOLEAN
    BY DEF UpToDate
  <2>2. builds' \in 0 .. MaxBuilds /\ curr' \in 0 .. Len(entries') /\ entries' \in Seq(Entries)
    BY <1>0, <1>4 DEF BeginBuild, TypeOK, PhaseOK
  <2> QED
    BY <1>4, <2>1, <2>2 DEF BeginBuild, TypeOK
<1>5. CASE Prerun
  <2> DEFINE e == entries[curr']
  <2>1. curr' \in 1 .. Len(entries) /\ e \in Entries
    BY <1>5 DEF Prerun, TypeOK
  <2>2. e.op = "compile" => e.of \in Files /\ e.with \in Seq(Libs)
    BY <2>1 DEF Entries
  <2>3. queued' = queued \/ (e.op = "compile" /\ queued' = queued \cup {<<e.of, e.with>>})
    BY <1>5 DEF Prerun
  <2> HIDE DEF e
  <2>4. queued' \subseteq Files \X Seq(Libs)
    BY <2>2, <2>3 DEF TypeOK
  <2> QED
    BY <1>5, <2>1, <2>4 DEF Prerun, TypeOK
<1>6. CASE EndPrerun
  <2>1. entries' \in Seq(Entries) /\ curr' \in 0 .. Len(entries')
    BY <1>6, EndPrerunExpects
  <2>2. includes' \in Seq(Libs) /\ IsInjective(includes') /\ queue' \in Seq(Files) /\ staged' = Profile
    BY <1>6, ProfilePath DEF EndPrerun
  <2> QED
    BY <1>0, <1>6, <2>1, <2>2 DEF EndPrerun, TypeOK
<1>7. CASE Pop
  <2>1. Head(queue) \in Files /\ Tail(queue) \in Seq(Files) /\ UpToDate(Head(queue)) \in BOOLEAN
    BY <1>7 DEF Pop, TypeOK, UpToDate
  <2> QED
    BY <1>7, <2>1 DEF Pop, TypeOK
<1>8. CASE BeginCompile
  <2>1. entries' \in Seq(Entries) /\ curr' \in 0 .. Len(entries')
    BY <1>8, BeginCompileExpects DEF PhaseOK, AtSource, BeginCompile
  <2> QED
    BY <1>8, <2>1 DEF BeginCompile, TypeOK
<1>9. CASE UseCache
  <2>1. curr + 1 \in 1 .. Len(entries) /\ entries[curr + 1].op = "missing"
    BY <1>9 DEF UseCache, Cached, TypeOK
  <2>2. entries[curr + 1] \in Entries
    BY <2>1 DEF TypeOK
  <2>3. missing' \in Headers \cup {None}
    BY <1>9, <2>1, <2>2 DEF UseCache, Entries
  <2> QED
    BY <1>9, <2>3 DEF UseCache, TypeOK
<1>10. CASE UseResult \/ Preprocess
  <2>1. source \in Files /\ includes \in Seq(Libs) /\ content[source] \in Seq(Headers)
    BY <1>10 DEF UseResult, Preprocess, PhaseOK, AtSource, TypeOK
  <2>2. missing' \in Headers \cup {None}
    BY <1>10, <2>1, WhatIsMissing DEF UseResult, Preprocess, MissingIs
  <2>3. CASE UseResult
    BY <2>2, <2>3 DEF UseResult, TypeOK
  <2>4. CASE Preprocess
    <3>1. dep' \in [Files -> [is : {"none", "stale", "fresh"}, on : SUBSET Libs]]
      BY <2>1, <2>4, GccTypes DEF Preprocess
    <3> QED
      BY <2>2, <2>4, <3>1 DEF Preprocess, TypeOK
  <2> QED
    BY <1>10, <2>3, <2>4
<1>11. CASE CutPreprocess
  <2>1. dep' \in [Files -> [is : {"none", "stale", "fresh"}, on : SUBSET Libs]]
    BY <1>11 DEF CutPreprocess, TypeOK
  <2>2. saved' \in Seq(Entries) /\ sound' \in BOOLEAN
    BY <1>11, LeaveTypes DEF CutPreprocess, Fail
  <2> QED
    BY <1>11, <2>1, <2>2, LeaveKeepsTypes DEF CutPreprocess, Fail
<1>12. CASE EndSource
  <2>1. entries' \in Seq(Entries) /\ curr' \in 0 .. Len(entries')
    BY <1>12, EndSourceExpects
  <2>2. Committed \in SUBSET Libs /\ IsFiniteSet(Committed)
    BY <1>12, CommittedTypes DEF EndSource
  <2>3. queue' \in Seq(Files)
    BY <1>12, <2>2, PushTypes DEF EndSource, TypeOK
  <2>4. queued' \cup ran' \subseteq Files \X Seq(Libs) /\ preRunner' \in BOOLEAN
    <3>1. ToSet(queue') \subseteq Files /\ includes \in Seq(Libs)
      BY <2>3 DEF ToSet, TypeOK
    <3>2. CASE preRunner
      BY <1>12, <3>2 DEF EndSource, TypeOK
    <3>3. CASE ~preRunner
      <4>1. preRunner' = TRUE /\ ran' = {} /\ queued' = {<<f, includes>> : f \in ToSet(queue')}
        BY <1>12, <3>3 DEF EndSource
      <4> QED
        BY <3>1, <4>1
    <3> QED
      BY <3>2, <3>3
  <2> QED
    BY <1>12, <2>1, <2>2, <2>3, <2>4 DEF EndSource, TypeOK
<1>13. CASE AddLibrary
  <2>1. PICK l \in Libs : Takes(l) /\ l \in alternatives[missing] /\ missing \in Headers
    BY <1>13, AddLibraryTakes
  <2>2. entries' \in Seq(Entries) /\ curr' \in 0 .. Len(entries')
    BY <2>1, AddLibraryExpects
  <2>3. includes' \in Seq(Libs) /\ IsInjective(includes')
    BY <2>1, PathGrows
  <2>4. queue' \in Seq(Files)
    <3>1. queue' = Push(queue, {l}) /\ queue \in Seq(Files) /\ {l} \in SUBSET Libs /\ IsFiniteSet({l})
      BY <2>1, FS_Singleton DEF Takes, TypeOK
    <3> QED
      BY <3>1, PushTypes
  <2>5. alternatives' \in [Headers -> SUBSET Libs] /\ resolved' \in [Headers -> Libs \cup {None}]
    <3>1. PICK S \in Rest(alternatives[missing], l) : alternatives' = [alternatives EXCEPT ![missing] = S]
      BY <2>1 DEF Takes
    <3>2. S \in SUBSET Libs
      BY <2>1 DEF Rest, TypeOK
    <3> QED
      BY <2>1, <3>1, <3>2 DEF Takes, TypeOK
  <2> QED
    BY <2>1, <2>2, <2>3, <2>4, <2>5 DEF Takes, TypeOK
<1>14. CASE Unresolved
  <2>1. dep' \in [Files -> [is : {"none", "stale", "fresh"}, on : SUBSET Libs]]
    BY <1>14, GccTypes DEF Unresolved, PhaseOK, AtSource, TypeOK
  <2>2. saved' \in Seq(Entries) /\ sound' \in BOOLEAN
    BY <1>14, LeaveTypes DEF Unresolved, Fail
  <2> QED
    BY <1>14, <2>1, <2>2, LeaveKeepsTypes DEF Unresolved, Fail
<1>15. CASE EndDetection
  <2>1. saved' \in Seq(Entries) /\ Len(saved') = curr
    BY <1>15, CutCache DEF EndDetection, SaveCache, Pos, Position
  <2>2. {sound', cancelled', sketchIsUnchanged', preRunner', unchanged'} \subseteq BOOLEAN
    BY <1>15 DEF EndDetection, TypeOK
  <2>3. entries' = saved' /\ curr' = curr /\ curr \in Nat /\ queued' = {} /\ ran' = {} /\ phase' = "found"
    BY <1>15 DEF EndDetection, TypeOK
  <2> QED
    BY <1>15, <2>1, <2>2, <2>3 DEF EndDetection, TypeOK
<1>16. CASE EndWrong
  <2>1. saved' \in Seq(Entries)
    BY <1>16, CutCache DEF EndWrong, SaveCache
  <2> QED
    BY <1>16, <2>1, LeaveKeepsTypes DEF EndWrong, TypeOK
<1>17. CASE PreprocessSketch
  <2>1. /\ {sound', cancelled', sketchIsUnchanged', preRunner', unchanged'} \subseteq BOOLEAN
        /\ ino' \in {"none", "current", "olderThanSketch", "olderThanHeader"}
    BY <1>17 DEF PreprocessSketch, TypeOK
  <2> QED
    BY <1>17, <2>1 DEF PreprocessSketch, TypeOK
<1>18. CASE CutSketch
  BY <1>18, LeaveKeepsTypes DEF CutSketch, TypeOK
<1>19. CASE EndBuild
  BY <1>19, LeaveKeepsTypes DEF EndBuild, TypeOK
<1>20. CASE RunSome
  <2>1. PICK t \in queued : RunTask(t)
    BY <1>20 DEF RunSome
  <2>2. t[1] \in Files /\ t[2] \in Seq(Libs)
    BY DEF TypeOK
  <2>3. dep' \in [Files -> [is : {"none", "stale", "fresh"}, on : SUBSET Libs]]
    BY <2>1, <2>2, GccTypes DEF RunTask
  <2> QED
    BY <2>1, <2>3 DEF RunTask, TypeOK
<1>21. CASE Cancel
  BY <1>21 DEF Cancel, TypeOK
<1> QED
  BY <1>1, <1>2, <1>3, <1>4, <1>5, <1>6, <1>7, <1>8, <1>9, <1>10, <1>11, <1>12, <1>13, <1>14, <1>15,
     <1>16, <1>17, <1>18, <1>19, <1>20, <1>21 DEF Next, Detect

LEMMA PhaseStep ==
    ASSUME TypeOK, PhaseOK, [Next]_vars
    PROVE  PhaseOK'
<1> USE DEF diskVars, boundVars, cacheVars, runnerVars, foundVars, sourceVars, buildVars
<1> DEFINE Same == UNCHANGED <<phase, includes, imported, staged, queue, resolved, entries, curr, saved, source>>
<1>1. ASSUME Same, UNCHANGED <<queued, ran>> \/ phase \notin {"idle", "found", "built"}
      PROVE  PhaseOK'
  BY <1>1 DEF PhaseOK, AtSource
<1>2. ASSUME Leave PROVE PhaseOK'
  BY <1>2, LeaveTypes DEF PhaseOK, AtSource
<1>3. CASE UNCHANGED vars
  BY <1>1, <1>3 DEF vars
<1>4. CASE \/ \E f \in Files : EditSource(f)
           \/ \E l \in Libs : EditHeader(l)
  BY <1>1, <1>4 DEF EditSource, EditHeader, Change
<1>5. CASE BeginBuild
  BY <1>5 DEF BeginBuild, PhaseOK, AtSource
<1>6. CASE Prerun
  BY <1>6 DEF Prerun, PhaseOK, AtSource
<1>7. CASE EndPrerun
  BY <1>7 DEF EndPrerun, PhaseOK, AtSource
<1>8. CASE RunSome
  <2>1. PICK t \in queued : RunTask(t)
    BY <1>8 DEF RunSome
  <2>2. phase \notin {"idle", "found", "built"}
    BY <2>1 DEF PhaseOK
  <2> QED
    BY <1>1, <2>1, <2>2 DEF RunTask
<1>9. CASE Cancel
  BY <1>1, <1>9 DEF Cancel
<1>10. CASE Pop
  <2>1. Head(queue) \in Files
    BY <1>10 DEF Pop, TypeOK
  <2> QED
    BY <1>10, <2>1 DEF Pop, PhaseOK, AtSource
<1>11. CASE BeginCompile
  <2>1. source \in Files
    BY <1>11 DEF BeginCompile, PhaseOK, AtSource
  <2>2. curr' > 0 /\ entries'[curr'] = Compile(source, includes)
    BY <1>11, <2>1, BeginCompileExpects
  <2> QED
    BY <1>11, <2>1, <2>2 DEF BeginCompile, PhaseOK, AtSource
<1>12. CASE UseCache \/ UseResult \/ Preprocess
  BY <1>12 DEF UseCache, UseResult, Preprocess, PhaseOK, AtSource
<1>13. CASE CutPreprocess \/ Unresolved \/ EndWrong \/ CutSketch \/ EndBuild
  BY <1>2, <1>13 DEF CutPreprocess, Unresolved, Fail, EndWrong, CutSketch, EndBuild
<1>14. CASE EndSource
  BY <1>14 DEF EndSource, PhaseOK, AtSource
<1>15. CASE AddLibrary
  BY <1>15 DEF AddLibrary, PhaseOK, AtSource
<1>16. CASE EndDetection
  <2>1. Len(saved') = curr /\ entries' = saved' /\ curr' = curr
    BY <1>16, CutCache DEF EndDetection, SaveCache, Pos, Position
  <2> QED
    BY <1>16, <2>1 DEF EndDetection, SaveCache, PhaseOK, AtSource
<1>17. CASE PreprocessSketch
  BY <1>17 DEF PreprocessSketch, PhaseOK, AtSource
<1> QED
  BY <1>3, <1>4, <1>5, <1>6, <1>7, <1>8, <1>9, <1>10, <1>11, <1>12, <1>13, <1>14, <1>15, <1>16, <1>17
  DEF Next, Detect

LEMMA FoundStep ==
    ASSUME TypeOK, PhaseOK, FoundOK, [Next]_vars
    PROVE  FoundOK'
<1> USE DEF diskVars, boundVars, cacheVars, runnerVars, foundVars, sourceVars, buildVars
<1>1. ASSUME UNCHANGED <<includes, imported, staged, alternatives>>, Detecting' => Detecting, phase' # "idle" => phase # "idle"
      PROVE  FoundOK'
  BY <1>1 DEF FoundOK
<1>2. ASSUME phase' = "idle" PROVE FoundOK'
  BY <1>2 DEF FoundOK, Detecting
<1>3. CASE UNCHANGED vars
  BY <1>1, <1>3 DEF vars, Detecting
<1>4. CASE \/ \E f \in Files : EditSource(f)
           \/ \E l \in Libs : EditHeader(l)
           \/ CutPreprocess \/ Unresolved \/ EndWrong \/ CutSketch \/ EndBuild
  BY <1>2, <1>4, LeaveTypes DEF EditSource, EditHeader, Change, CutPreprocess, Unresolved, Fail, EndWrong, CutSketch, EndBuild
<1>5. CASE BeginBuild
  <2>1. phase' = "prerun" /\ alternatives' = [h \in Headers |-> {l \in Libs \ Profile : HeaderOf[l] = h}]
    BY <1>5 DEF BeginBuild
  <2> QED
    BY <2>1 DEF FoundOK, Detecting
<1>6. CASE Prerun \/ RunSome \/ Cancel \/ Pop \/ BeginCompile \/ UseCache \/ UseResult \/ Preprocess \/ PreprocessSketch \/ EndDetection
  <2>1. UNCHANGED <<includes, imported, staged, alternatives>> /\ (Detecting' => Detecting) /\ (phase' # "idle" => phase # "idle")
    BY <1>6 DEF Prerun, RunSome, RunTask, Cancel, Pop, BeginCompile, UseCache, UseResult, Preprocess, PreprocessSketch,
                EndDetection, SaveCache, Detecting
  <2> QED
    BY <1>1, <2>1
<1>7. CASE EndPrerun
  <2>1. /\ staged' = Profile /\ imported' = {} /\ ToSet(includes') = Profile /\ alternatives' = alternatives
        /\ ToSet(includes) = {}
    BY <1>7, ProfilePath DEF EndPrerun, PhaseOK, ToSet
  <2>2. phase # "idle"
    BY <1>7 DEF EndPrerun
  <2> QED
    BY <2>1, <2>2 DEF FoundOK
<1>8. CASE EndSource
  <2>1. /\ staged' = staged \ Committed /\ imported' = imported \cup Committed /\ includes' = includes
        /\ alternatives' = alternatives /\ phase = "missing" /\ Committed \subseteq staged
    BY <1>8, CommittedTypes DEF EndSource
  <2> QED
    BY <2>1 DEF FoundOK, Detecting
<1>9. CASE AddLibrary
  <2>1. PICK l \in Libs : Takes(l) /\ l \in alternatives[missing] /\ missing \in Headers
    BY <1>9, AddLibraryTakes
  <2>2. /\ ToSet(includes') = ToSet(includes) \cup {l} /\ l \notin Profile
        /\ imported' = imported \cup {l} /\ staged' = staged /\ phase = "missing"
    BY <2>1, PathGrows DEF Takes
  <2>3. PICK S \in Rest(alternatives[missing], l) : alternatives' = [alternatives EXCEPT ![missing] = S]
    BY <2>1 DEF Takes
  <2>4. S = alternatives[missing] \/ S = alternatives[missing] \ {l}
    BY DEF Rest
  <2>5. \A h \in Headers : alternatives'[h] = alternatives[h] \/ alternatives'[h] = alternatives[h] \ {l}
    BY <2>3, <2>4 DEF TypeOK
  <2>6. /\ staged \subseteq Profile /\ staged \cap imported = {} /\ ToSet(includes) = staged \cup imported
        /\ \A h \in Headers : /\ \A k \in alternatives[h] : k \in Libs \ Profile /\ HeaderOf[k] = h
                              /\ \A k \in Libs \ Profile : HeaderOf[k] = h => k \in alternatives[h] \/ k \in ToSet(includes)
    BY <2>2 DEF FoundOK, Detecting
  <2>7. staged' \subseteq Profile /\ staged' \cap imported' = {} /\ ToSet(includes') = staged' \cup imported'
    BY <2>2, <2>6
  <2>8. ASSUME NEW h \in Headers
        PROVE  /\ \A k \in alternatives'[h] : k \in Libs \ Profile /\ HeaderOf[k] = h
               /\ \A k \in Libs \ Profile : HeaderOf[k] = h => k \in alternatives'[h] \/ k \in ToSet(includes')
    BY <2>2, <2>5, <2>6
  <2> QED
    BY <2>7, <2>8 DEF FoundOK
<1> QED
  BY <1>3, <1>4, <1>5, <1>6, <1>7, <1>8, <1>9 DEF Next, Detect

-----------------------------------------------------------------------------
\* The cache is the path of a detection: its include paths grow, by the library that was
\* added, and a source that misses nothing is not compiled again.
CacheIsAPath ==
    /\ \A i, j \in 1 .. Len(Cache) : Compiled(i) /\ Compiled(j) /\ i < j => Begins(Cache[i].with, Cache[j].with)
    /\ \A j \in 1 .. Len(Cache) : Compiled(j) => Begins(SetToSeq(Profile), Cache[j].with)
    /\ \A i, j \in 1 .. Len(Cache) : Adds(i) /\ Compiled(j) /\ i < j =>
           Begins(Append(Cache[i].with, Cache[i + 2].of), Cache[j].with)
    /\ \A i, j \in 1 .. Len(Cache) : Answer(i, None) /\ Compiled(j) /\ Cache[j].of = Cache[i].of => j <= i

\* What the build has been through is behind it, and what is left of the cache goes on from here.
OnThePath ==
    /\ \A i \in 1 .. Len(Cache) : Compiled(i) /\ i <= Pos => Begins(Cache[i].with, includes)
    /\ \A i \in 1 .. Len(Cache) : Compiled(i) /\ Pos < i => Begins(includes, Cache[i].with)
    /\ \A i \in 1 .. Len(Cache) : Adds(i) /\ i + 2 <= Pos => Begins(Append(Cache[i].with, Cache[i + 2].of), includes)
    /\ Detecting => Begins(SetToSeq(Profile), includes)

Processed(f) == \E i \in 1 .. Len(Cache) : i < Pos /\ Answer(i, None) /\ Cache[i].of = f

\* The queue has what was found and is still to be done.
QueueOK ==
    Detecting =>
        /\ \A f \in imported \cup {Sketch} : f \in ToSet(queue) \/ (AtSource /\ f = source) \/ Processed(f)
        /\ ToSet(queue) \subseteq imported \cup {Sketch}
        /\ AtSource => source \in imported \cup {Sketch} /\ source \notin ToSet(queue) /\ ~Processed(source)
        /\ \A f \in Files : Processed(f) => f \in imported \cup {Sketch} /\ f \notin ToSet(queue)
        /\ IsInjective(queue)

LEMMA BeginsItself ==
    ASSUME NEW I \in Seq(Libs)
    PROVE  Begins(I, I) /\ Begins(<<>>, I) /\ \A l \in Libs : Append(I, l) \in Seq(Libs) /\ Begins(I, Append(I, l))
BY DEF Begins

LEMMA BeginsFurther ==
    ASSUME NEW I \in Seq(Libs), NEW J \in Seq(Libs), NEW K \in Seq(Libs), Begins(I, J), Begins(J, K)
    PROVE  Begins(I, K)
<1>1. Len(I) \in Nat /\ Len(J) \in Nat /\ Len(K) \in Nat
  OBVIOUS
<1> QED
  BY <1>1 DEF Begins

\* How the cache changes, apart from the four steps that expect something.
Shorter == Len(Cache') \in 0 .. Len(Cache) /\ \A i \in 1 .. Len(Cache') : Cache'[i] = Cache[i]

LEMMA CacheSteps ==
    ASSUME TypeOK, PhaseOK, [Next]_vars
    PROVE  \/ Cache' = Cache /\ Pos' = Pos /\ includes' = includes /\ (Detecting' <=> Detecting)
           \/ Shorter /\ phase' = "idle" /\ Pos' = 0 /\ includes' = <<>>
           \/ Shorter /\ Detecting /\ phase' = "found" /\ Pos' = Pos /\ Pos = Len(Cache') /\ includes' = includes
           \/ EndPrerun \/ BeginCompile \/ EndSource \/ AddLibrary
<1> USE DEF diskVars, boundVars, cacheVars, runnerVars, foundVars, sourceVars, buildVars
<1>0. Len(Cache) \in Nat /\ Pos \in 0 .. Len(Cache)
  BY PosInCache
<1>1. CASE UNCHANGED vars
  BY <1>1 DEF vars, Cache, Pos, Position, Detecting
<1>2. CASE \/ \E f \in Files : EditSource(f)
           \/ \E l \in Libs : EditHeader(l)
  BY <1>2 DEF EditSource, EditHeader, Change, Cache, Pos, Position, Detecting
<1>3. CASE BeginBuild
  BY <1>3 DEF BeginBuild, Cache, Pos, Position, Detecting
<1>4. CASE Prerun \/ RunSome \/ Cancel \/ Pop \/ UseCache \/ UseResult \/ Preprocess \/ PreprocessSketch
  BY <1>4 DEF Prerun, RunSome, RunTask, Cancel, Pop, UseCache, UseResult, Preprocess, PreprocessSketch, Cache, Pos, Position, Detecting
<1>5. CASE CutPreprocess \/ Unresolved
  <2>1. Cache' = <<>> /\ phase' = "idle" /\ Pos' = 0 /\ includes' = <<>>
    BY <1>5, LeaveTypes DEF CutPreprocess, Unresolved, Fail, Cache, Pos
  <2> QED
    BY <1>0, <2>1 DEF Shorter
<1>6. CASE EndWrong
  <2>1. phase' = "idle" /\ Pos' = 0 /\ includes' = <<>> /\ Cache' = saved'
    BY <1>6, LeaveTypes DEF EndWrong, Cache, Pos
  <2>2. Len(saved') = Pos /\ \A i \in 1 .. Pos : saved'[i] = Cache[i]
    BY <1>6, CutCache DEF EndWrong, SaveCache
  <2> QED
    BY <1>0, <2>1, <2>2 DEF Shorter
<1>7. CASE CutSketch \/ EndBuild
  <2>1. phase' = "idle" /\ Pos' = 0 /\ includes' = <<>> /\ Cache' = saved
    BY <1>7, LeaveTypes DEF CutSketch, EndBuild, Cache, Pos
  <2>2. saved = entries /\ Cache = entries
    BY <1>7 DEF CutSketch, EndBuild, PhaseOK, Cache
  <2> QED
    BY <1>0, <2>1, <2>2 DEF Shorter
<1>8. CASE EndDetection
  <2>1. phase = "pop" /\ phase' = "found" /\ Cache' = saved' /\ Pos' = Pos /\ includes' = includes
    BY <1>8 DEF EndDetection, SaveCache, Cache, Pos, Position
  <2>2. Len(saved') = Pos /\ \A i \in 1 .. Pos : saved'[i] = Cache[i]
    BY <1>8, CutCache DEF EndDetection, SaveCache
  <2> QED
    BY <1>0, <2>1, <2>2 DEF Shorter, Detecting
<1> QED
  BY <1>1, <1>2, <1>3, <1>4, <1>5, <1>6, <1>7, <1>8 DEF Next, Detect

\* In a shorter cache everything is as it was.
LEMMA ShorterCache ==
    ASSUME TypeOK, TypeOK', Shorter
    PROVE  /\ Len(Cache) \in Nat /\ Len(Cache') \in Nat
           /\ \A i \in 1 .. Len(Cache') : /\ i \in 1 .. Len(Cache) /\ Cache'[i] = Cache[i]
                                          /\ Compiled(i)' => Compiled(i)
                                          /\ Adds(i)' => Adds(i) /\ Cache'[i + 2] = Cache[i + 2]
                                          /\ \A x : Answer(i, x)' => Answer(i, x)
<1>1. /\ Len(Cache) \in Nat /\ Len(Cache') \in Nat /\ Len(Cache') <= Len(Cache)
      /\ \A i \in 1 .. Len(Cache') : Cache'[i] = Cache[i]
  BY PosInCache DEF Shorter
<1> SUFFICES ASSUME NEW i \in 1 .. Len(Cache')
             PROVE  /\ i \in 1 .. Len(Cache) /\ Cache'[i] = Cache[i]
                    /\ Compiled(i)' => Compiled(i)
                    /\ Adds(i)' => Adds(i) /\ Cache'[i + 2] = Cache[i + 2]
                    /\ \A x : Answer(i, x)' => Answer(i, x)
  BY <1>1
<1>2. i \in 1 .. Len(Cache) /\ Cache'[i] = Cache[i]
  BY <1>1
<1>3. Compiled(i)' => Compiled(i)
  BY <1>2 DEF Compiled, CompiledIn
<1>4. ASSUME Adds(i)' PROVE Adds(i) /\ Cache'[i + 2] = Cache[i + 2]
  <2>1. i + 1 \in 1 .. Len(Cache') /\ i + 2 \in 1 .. Len(Cache')
    BY <1>1, <1>4 DEF Adds, AddsIn
  <2> QED
    BY <1>1, <1>2, <1>4, <2>1 DEF Adds, AddsIn, CompiledIn
<1>5. ASSUME NEW x, Answer(i, x)' PROVE Answer(i, x)
  <2>1. i + 1 \in 1 .. Len(Cache')
    BY <1>1, <1>5 DEF Answer, AnswerIn
  <2> QED
    BY <1>1, <1>2, <1>5, <2>1 DEF Answer, AnswerIn, CompiledIn
<1> QED
  BY <1>2, <1>3, <1>4, <1>5

LEMMA WhereThePathIs ==
    ASSUME TypeOK, PhaseOK, phase \in {"preprocess", "missing"}
    PROVE  /\ Pos \in 1 .. Len(Cache) /\ Cache[Pos] = Compile(source, includes) /\ Compiled(Pos)
           /\ Cache[Pos].of = source /\ Cache[Pos].with = includes /\ source \in Files
<1>1. Cache = entries /\ Pos = curr /\ curr > 0 /\ entries[curr] = Compile(source, includes) /\ source \in Files
  BY DEF Cache, Pos, Position, PhaseOK, AtSource
<1>2. includes \in Seq(Libs) /\ curr \in 1 .. Len(entries)
  BY <1>1 DEF TypeOK
<1> QED
  BY <1>1, <1>2, EntryTypes DEF Compiled, CompiledIn

LEMMA OldEntries ==
    ASSUME TypeOK, TypeOK', Pos <= Pos', \A i \in 1 .. Pos : Cache'[i] = Cache[i]
    PROVE  /\ \A i \in 1 .. Pos : Compiled(i)' <=> Compiled(i)
           /\ \A i \in 1 .. Pos : i + 2 <= Pos /\ Adds(i)' => Adds(i) /\ Cache'[i + 2] = Cache[i + 2]
           /\ \A i \in 1 .. Pos : \A x : i < Pos => (Answer(i, x)' <=> Answer(i, x))
<1>1. /\ Len(Cache) \in Nat /\ Pos \in Nat /\ Pos <= Len(Cache)
      /\ Len(Cache)' \in Nat /\ Pos' \in Nat /\ Pos' <= Len(Cache') /\ Pos <= Len(Cache')
  <2>1. Pos \in 0 .. Len(Cache) /\ Len(Cache) \in Nat
    BY PosInCache
  <2>2. (Pos \in 0 .. Len(Cache) /\ Len(Cache) \in Nat)'
    BY DEF TypeOK, Pos, Cache, Position
  <2> QED
    BY <2>1, <2>2
<1>2. \A i \in 1 .. Pos : i \in 1 .. Len(Cache) /\ i \in 1 .. Len(Cache')
  BY <1>1
<1>3. \A i \in 1 .. Pos : Compiled(i)' <=> Compiled(i)
  BY <1>2 DEF Compiled, CompiledIn
<1>4. ASSUME NEW i \in 1 .. Pos, i + 2 <= Pos, Adds(i)' PROVE Adds(i) /\ Cache'[i + 2] = Cache[i + 2]
  <2>1. i + 1 \in 1 .. Pos /\ i + 2 \in 1 .. Pos
    BY <1>1, <1>4
  <2> QED
    BY <1>1, <1>2, <1>4, <2>1 DEF Adds, AddsIn, CompiledIn
<1>5. ASSUME NEW i \in 1 .. Pos, NEW x, i < Pos PROVE Answer(i, x)' <=> Answer(i, x)
  <2>1. i + 1 \in 1 .. Pos /\ i < Len(Cache) /\ i < Len(Cache')
    BY <1>1, <1>5
  <2> QED
    BY <1>2, <2>1 DEF Answer, AnswerIn, CompiledIn
<1> QED
  BY <1>3, <1>4, <1>5

LEMMA PathStep ==
    ASSUME TypeOK, TypeOK', PhaseOK, FoundOK, CacheIsAPath, OnThePath, QueueOK, [Next]_vars
    PROVE  CacheIsAPath'
<1>0. Pos \in 0 .. Len(Cache) /\ Len(Cache) \in Nat /\ Cache \in Seq(Entries)
  BY PosInCache
<1>1. CASE Cache' = Cache
  BY <1>1 DEF CacheIsAPath, Compiled, Adds, Answer
<1>2. CASE Shorter
  BY <1>2, ShorterCache DEF CacheIsAPath
<1>3. CASE EndPrerun /\ Len(Cache') = Pos'
  <2>1. \A i \in 1 .. Len(Cache') : ~Compiled(i)'
    BY <1>3, EndPrerunExpects DEF Compiled, CompiledIn
  <2> QED
    BY <2>1 DEF CacheIsAPath, Adds, AddsIn, Answer, AnswerIn, Compiled
<1>4. CASE BeginCompile /\ Len(Cache') = Pos'
  <2>0. phase = "compile" /\ source \in Files /\ includes \in Seq(Libs)
    BY <1>4 DEF BeginCompile, PhaseOK, AtSource, TypeOK
  <2>1. /\ Pos' = Pos + 1 /\ Len(Cache') = Pos + 1 /\ \A i \in 1 .. Pos : Cache'[i] = Cache[i]
        /\ Cache'[Pos + 1].op = "compile" /\ Cache'[Pos + 1].of = source /\ Cache'[Pos + 1].with = includes
    BY <1>4, <2>0, BeginCompileExpects, EntryTypes
  <2>2. /\ \A i \in 1 .. Pos : Compiled(i)' <=> Compiled(i)
        /\ \A i \in 1 .. Pos : i + 2 <= Pos /\ Adds(i)' => Adds(i) /\ Cache'[i + 2] = Cache[i + 2]
        /\ \A i \in 1 .. Pos : i < Pos => (Answer(i, None)' <=> Answer(i, None))
    BY <1>0, <2>1, OldEntries
  <2>3. ASSUME NEW i \in 1 .. Len(Cache')
        PROVE  /\ i \in 1 .. Pos \/ i = Pos + 1
               /\ i \in 1 .. Pos => i \in 1 .. Len(Cache)
               /\ Adds(i)' => i \in 1 .. Pos /\ i + 2 <= Pos
               /\ Answer(i, None)' => i \in 1 .. Pos /\ i < Pos
    <3>1. Adds(i)' => i + 2 # Pos + 1
      BY <2>1 DEF Adds, AddsIn
    <3>2. Answer(i, None)' => i + 1 # Pos + 1
      BY <2>1, EntryTypes DEF Answer, AnswerIn
    <3> QED
      BY <1>0, <2>1, <3>1, <3>2 DEF Adds, AddsIn, Answer, AnswerIn, CompiledIn
  <2>4. ASSUME NEW i \in 1 .. Len(Cache'), NEW j \in 1 .. Len(Cache'), Compiled(i)', Compiled(j)', i < j
        PROVE  Begins(Cache'[i].with, Cache'[j].with)
    <3>1. i \in 1 .. Pos
      BY <1>0, <2>1, <2>4
    <3>2. CASE j \in 1 .. Pos
      BY <2>1, <2>2, <2>3, <2>4, <3>1, <3>2 DEF CacheIsAPath
    <3>3. CASE j = Pos + 1
      <4>1. Compiled(i) /\ Cache'[i] = Cache[i] /\ i \in 1 .. Len(Cache) /\ i <= Pos /\ Cache'[j].with = includes
        BY <1>0, <2>1, <2>2, <2>3, <2>4, <3>1, <3>3
      <4> QED
        BY <4>1 DEF OnThePath
    <3> QED
      BY <2>3, <3>2, <3>3
  <2>5. ASSUME NEW j \in 1 .. Len(Cache'), Compiled(j)'
        PROVE  Begins(SetToSeq(Profile), Cache'[j].with)
    BY <2>0, <2>1, <2>2, <2>3, <2>5 DEF CacheIsAPath, OnThePath, Detecting
  <2>6. ASSUME NEW i \in 1 .. Len(Cache'), NEW j \in 1 .. Len(Cache'), Adds(i)', Compiled(j)', i < j
        PROVE  Begins(Append(Cache'[i].with, Cache'[i + 2].of), Cache'[j].with)
    <3>1. i \in 1 .. Pos /\ i + 2 <= Pos /\ Adds(i) /\ Cache'[i + 2] = Cache[i + 2] /\ Cache'[i] = Cache[i]
      BY <2>1, <2>2, <2>3, <2>6
    <3>2. CASE j \in 1 .. Pos
      BY <2>1, <2>2, <2>3, <2>6, <3>1, <3>2 DEF CacheIsAPath
    <3>3. CASE j = Pos + 1
      BY <1>0, <2>1, <2>3, <3>1, <3>3 DEF OnThePath
    <3> QED
      BY <2>3, <3>2, <3>3
  <2>7. ASSUME NEW i \in 1 .. Len(Cache'), NEW j \in 1 .. Len(Cache'), Answer(i, None)', Compiled(j)', Cache'[j].of = Cache'[i].of
        PROVE  j <= i
    <3>1. i \in 1 .. Pos /\ i < Pos /\ Answer(i, None) /\ Cache'[i] = Cache[i]
      BY <2>1, <2>2, <2>3, <2>7
    <3>2. CASE j \in 1 .. Pos
      BY <2>1, <2>2, <2>3, <2>7, <3>1, <3>2 DEF CacheIsAPath
    <3>3. CASE j = Pos + 1
      <4>1. Processed(source)
        BY <2>1, <2>3, <2>7, <3>1, <3>3 DEF Processed
      <4> QED
        BY <2>0, <4>1 DEF QueueOK, AtSource, Detecting
    <3> QED
      BY <2>3, <3>2, <3>3
  <2> QED
    BY <2>4, <2>5, <2>6, <2>7 DEF CacheIsAPath
<1>5. CASE EndSource /\ Len(Cache') = Pos'
  <2>1. /\ Pos' = Pos + 1 /\ Len(Cache') = Pos + 1 /\ \A i \in 1 .. Pos : Cache'[i] = Cache[i]
        /\ Cache'[Pos + 1].op = "missing"
    BY <1>5, EndSourceExpects, EntryTypes
  <2>2. /\ \A i \in 1 .. Pos : Compiled(i)' <=> Compiled(i)
        /\ \A i \in 1 .. Pos : i + 2 <= Pos /\ Adds(i)' => Adds(i) /\ Cache'[i + 2] = Cache[i + 2]
        /\ \A i \in 1 .. Pos : i < Pos => (Answer(i, None)' <=> Answer(i, None))
    BY <1>0, <2>1, OldEntries
  <2>3. ASSUME NEW i \in 1 .. Len(Cache')
        PROVE  /\ i \in 1 .. Pos => i \in 1 .. Len(Cache) /\ Cache'[i] = Cache[i]
               /\ Compiled(i)' => i \in 1 .. Pos /\ Compiled(i)
               /\ Adds(i)' => i \in 1 .. Pos /\ Adds(i) /\ Cache'[i + 2] = Cache[i + 2]
               /\ Answer(i, None)' => i \in 1 .. Pos /\ (Answer(i, None) \/ i = Pos)
    <3>0. i \in 1 .. Pos \/ i = Pos + 1
      BY <1>0, <2>1
    <3>1. Compiled(i)' => i \in 1 .. Pos /\ Compiled(i)
      BY <2>1, <2>2, <3>0 DEF Compiled, CompiledIn
    <3>2. Adds(i)' => i + 2 # Pos + 1 /\ Compiled(i)' /\ i + 2 <= Pos + 1
      BY <2>1 DEF Adds, AddsIn, Compiled
    <3>3. Adds(i)' => i \in 1 .. Pos /\ i + 2 <= Pos
      BY <1>0, <3>1, <3>2
    <3>4. Answer(i, None)' => Compiled(i)'
      BY DEF Answer, AnswerIn, Compiled
    <3> QED
      BY <1>0, <2>1, <2>2, <3>0, <3>1, <3>3, <3>4
  <2>4. \A i, j \in 1 .. Len(Cache') : Compiled(i)' /\ Compiled(j)' /\ i < j => Begins(Cache'[i].with, Cache'[j].with)
    BY <2>3 DEF CacheIsAPath
  <2>5. \A j \in 1 .. Len(Cache') : Compiled(j)' => Begins(SetToSeq(Profile), Cache'[j].with)
    BY <2>3 DEF CacheIsAPath
  <2>6. \A i, j \in 1 .. Len(Cache') : Adds(i)' /\ Compiled(j)' /\ i < j =>
           Begins(Append(Cache'[i].with, Cache'[i + 2].of), Cache'[j].with)
    BY <2>3 DEF CacheIsAPath
  <2>7. ASSUME NEW i \in 1 .. Len(Cache'), NEW j \in 1 .. Len(Cache'), Answer(i, None)', Compiled(j)', Cache'[j].of = Cache'[i].of
        PROVE  j <= i
    BY <1>0, <2>3, <2>7 DEF CacheIsAPath
  <2> QED
    BY <2>4, <2>5, <2>6, <2>7 DEF CacheIsAPath
<1>6. CASE AddLibrary /\ Len(Cache') = Pos'
  <2>0. PICK l \in Libs : Takes(l) /\ missing \in Headers
    BY <1>6, AddLibraryTakes
  <2>1. /\ Pos' = Pos + 2 /\ Len(Cache') = Pos + 2 /\ \A i \in 1 .. Pos : Cache'[i] = Cache[i]
        /\ Cache'[Pos + 1] = Missing(missing) /\ Cache'[Pos + 2] = Added(l)
    BY <1>6, <2>0, AddLibraryExpects
  <2>2. Cache'[Pos + 1].op = "missing" /\ Cache'[Pos + 1].of # None /\ Cache'[Pos + 2].op = "added" /\ Missing(None).of = None
    BY <2>0, <2>1, EntryTypes
  <2>3. /\ \A i \in 1 .. Pos : Compiled(i)' <=> Compiled(i)
        /\ \A i \in 1 .. Pos : i + 2 <= Pos /\ Adds(i)' => Adds(i) /\ Cache'[i + 2] = Cache[i + 2]
        /\ \A i \in 1 .. Pos : i < Pos => (Answer(i, None)' <=> Answer(i, None))
    BY <1>0, <2>1, OldEntries
  <2>4. ASSUME NEW i \in 1 .. Len(Cache')
        PROVE  /\ i \in 1 .. Pos => i \in 1 .. Len(Cache) /\ Cache'[i] = Cache[i]
               /\ Compiled(i)' => i \in 1 .. Pos /\ Compiled(i)
               /\ Adds(i)' => i \in 1 .. Pos /\ (i = Pos \/ (Adds(i) /\ Cache'[i + 2] = Cache[i + 2]))
               /\ Answer(i, None)' => i \in 1 .. Pos /\ Answer(i, None)
    <3>0. i \in 1 .. Pos \/ i = Pos + 1 \/ i = Pos + 2
      BY <1>0, <2>1
    <3>1. Compiled(i)' => i \in 1 .. Pos /\ Compiled(i)
      BY <2>2, <2>3, <3>0 DEF Compiled, CompiledIn
    <3>2. Adds(i)' => i + 2 # Pos + 1 /\ Compiled(i)' /\ i + 2 <= Pos + 2
      BY <2>1, <2>2 DEF Adds, AddsIn, Compiled
    <3>3. Adds(i)' => i \in 1 .. Pos /\ (i = Pos \/ i + 2 <= Pos)
      BY <1>0, <3>1, <3>2
    <3>4. Answer(i, None)' => Compiled(i)' /\ i # Pos
      BY <2>1, <2>2 DEF Answer, AnswerIn, Compiled
    <3> QED
      BY <1>0, <2>1, <2>3, <3>0, <3>1, <3>3, <3>4
  <2>5. \A i, j \in 1 .. Len(Cache') : Compiled(i)' /\ Compiled(j)' /\ i < j => Begins(Cache'[i].with, Cache'[j].with)
    BY <2>4 DEF CacheIsAPath
  <2>6. \A j \in 1 .. Len(Cache') : Compiled(j)' => Begins(SetToSeq(Profile), Cache'[j].with)
    BY <2>4 DEF CacheIsAPath
  <2>7. ASSUME NEW i \in 1 .. Len(Cache'), NEW j \in 1 .. Len(Cache'), Adds(i)', Compiled(j)', i < j
        PROVE  Begins(Append(Cache'[i].with, Cache'[i + 2].of), Cache'[j].with)
    <3>1. i # Pos
      BY <1>0, <2>4, <2>7
    <3> QED
      BY <2>4, <2>7, <3>1 DEF CacheIsAPath
  <2>8. ASSUME NEW i \in 1 .. Len(Cache'), NEW j \in 1 .. Len(Cache'), Answer(i, None)', Compiled(j)', Cache'[j].of = Cache'[i].of
        PROVE  j <= i
    BY <2>4, <2>8 DEF CacheIsAPath
  <2> QED
    BY <2>5, <2>6, <2>7, <2>8 DEF CacheIsAPath
<1>7. ASSUME EndPrerun \/ BeginCompile \/ EndSource \/ AddLibrary PROVE Cache' = Cache \/ Len(Cache') = Pos'
  <2>1. BeginCompile => source \in Files
    BY DEF BeginCompile, PhaseOK, AtSource
  <2> QED
    BY <1>7, <2>1, EndPrerunExpects, BeginCompileExpects, EndSourceExpects, AddLibraryTakes, AddLibraryExpects
<1> QED
  BY <1>1, <1>2, <1>3, <1>4, <1>5, <1>6, <1>7, CacheSteps

LEMMA CompiledTypes ==
    ASSUME TypeOK
    PROVE  \A i \in 1 .. Len(Cache) : /\ Compiled(i) => Cache[i].of \in Files /\ Cache[i].with \in Seq(Libs)
                                      /\ Adds(i) => Compiled(i) /\ Cache[i + 2].of \in Libs
                                      /\ \A x : Answer(i, x) => Compiled(i)
<1>1. Len(Cache) \in Nat /\ \A i \in 1 .. Len(Cache) : Cache[i] \in Entries
  BY PosInCache
<1>2. ASSUME NEW i \in 1 .. Len(Cache), Adds(i) PROVE Cache[i + 2].of \in Libs
  <2>1. i + 2 \in 1 .. Len(Cache) /\ Cache[i + 2].op = "added"
    BY <1>1, <1>2 DEF Adds, AddsIn
  <2> QED
    BY <1>1, <2>1 DEF Entries
<1>3. ASSUME NEW i \in 1 .. Len(Cache), Compiled(i) PROVE Cache[i].of \in Files /\ Cache[i].with \in Seq(Libs)
  <2>1. Cache[i].op = "compile" /\ Cache[i] \in Entries
    BY <1>1, <1>3 DEF Compiled, CompiledIn
  <2> QED
    BY <2>1 DEF Entries
<1> QED
  BY <1>2, <1>3 DEF Adds, AddsIn, Answer, AnswerIn, Compiled

LEMMA OnThePathStep ==
    ASSUME TypeOK, TypeOK', PhaseOK, FoundOK, CacheIsAPath, OnThePath, [Next]_vars
    PROVE  OnThePath'
<1>0. Pos \in 0 .. Len(Cache) /\ Len(Cache) \in Nat /\ Cache \in Seq(Entries) /\ includes \in Seq(Libs) /\ includes' \in Seq(Libs)
  BY PosInCache DEF TypeOK
<1>1. /\ Len(Cache)' \in Nat
      /\ \A i \in 1 .. Len(Cache') : Compiled(i)' => Cache'[i].of \in Files /\ Cache'[i].with \in Seq(Libs)
  <2>1. Cache' \in Seq(Entries)
    BY DEF TypeOK, Cache
  <2>2. ASSUME NEW i \in 1 .. Len(Cache'), Compiled(i)' PROVE Cache'[i].of \in Files /\ Cache'[i].with \in Seq(Libs)
    <3>1. Cache'[i].op = "compile" /\ Cache'[i] \in Entries
      BY <2>1, <2>2 DEF Compiled, CompiledIn
    <3> QED
      BY <3>1 DEF Entries
  <2> QED
    BY <2>1, <2>2
<1>2. CASE Cache' = Cache /\ Pos' = Pos /\ includes' = includes /\ (Detecting' <=> Detecting)
  BY <1>2 DEF OnThePath, Compiled, Adds
<1>3. CASE Shorter /\ phase' = "idle" /\ Pos' = 0 /\ includes' = <<>>
  <2>1. \A i \in 1 .. Len(Cache') : Compiled(i)' => Begins(<<>>, Cache'[i].with)
    BY <1>1, BeginsItself
  <2>2. ~Detecting' /\ \A i \in 1 .. Len(Cache') : ~(i <= 0) /\ ~(i + 2 <= 0)
    BY <1>1, <1>3 DEF Detecting
  <2> QED
    BY <1>3, <2>1, <2>2 DEF OnThePath
<1>4. CASE Shorter /\ Detecting /\ phase' = "found" /\ Pos' = Pos /\ Pos = Len(Cache') /\ includes' = includes
  <2>1. \A i \in 1 .. Len(Cache') : i <= Pos /\ ~(Pos < i)
    BY <1>0, <1>4
  <2> QED
    BY <1>4, <2>1, ShorterCache DEF OnThePath
<1>5. CASE EndPrerun
  <2>1. /\ Pos = 0 /\ Pos' \in Nat /\ (Cache' = Cache \/ Len(Cache') = Pos') /\ \A i \in 1 .. Pos' : Cache'[i].op = "added"
        /\ includes' = SetToSeq(Profile)
    BY <1>5, EndPrerunExpects DEF EndPrerun
  <2>2. \A i \in 1 .. Len(Cache') : i <= Pos' => ~Compiled(i)' /\ ~Adds(i)'
    BY <1>1, <2>1 DEF Adds, AddsIn, Compiled, CompiledIn
  <2>3. ASSUME NEW i \in 1 .. Len(Cache'), Compiled(i)', Pos' < i PROVE Begins(includes', Cache'[i].with)
    <3>1. Cache' = Cache
      BY <1>1, <2>1, <2>3
    <3> QED
      BY <2>1, <2>3, <3>1 DEF CacheIsAPath, Compiled
  <2>4. \A i \in 1 .. Len(Cache') : i + 2 <= Pos' => i <= Pos'
    BY <1>1, <2>1
  <2> QED
    BY <1>0, <2>1, <2>2, <2>3, <2>4, BeginsItself DEF OnThePath
<1>6. CASE BeginCompile
  <2>0. phase = "compile" /\ source \in Files /\ includes' = includes /\ Detecting
    BY <1>6 DEF BeginCompile, PhaseOK, AtSource, foundVars, Detecting
  <2>1. /\ Pos' = Pos + 1 /\ Pos' <= Len(Cache') /\ (Cache' = Cache \/ Len(Cache') = Pos')
        /\ \A i \in 1 .. Pos : Cache'[i] = Cache[i]
        /\ Cache'[Pos + 1].op = "compile" /\ Cache'[Pos + 1].with = includes
    BY <1>0, <1>6, <2>0, BeginCompileExpects, EntryTypes
  <2>2. /\ \A i \in 1 .. Pos : Compiled(i)' <=> Compiled(i)
        /\ \A i \in 1 .. Pos : i + 2 <= Pos /\ Adds(i)' => Adds(i) /\ Cache'[i + 2] = Cache[i + 2]
    BY <1>0, <2>1, OldEntries
  <2>3. ASSUME NEW i \in 1 .. Len(Cache'), Compiled(i)', i <= Pos' PROVE Begins(Cache'[i].with, includes)
    <3>1. CASE i \in 1 .. Pos
      BY <1>0, <2>1, <2>2, <2>3, <3>1 DEF OnThePath
    <3>2. CASE i = Pos + 1
      BY <1>0, <2>1, <3>2, BeginsItself
    <3> QED
      BY <1>0, <2>1, <2>3, <3>1, <3>2
  <2>4. ASSUME NEW i \in 1 .. Len(Cache'), Compiled(i)', Pos' < i PROVE Begins(includes, Cache'[i].with)
    <3>1. Cache' = Cache /\ Pos < i
      BY <1>0, <1>1, <2>1, <2>4
    <3> QED
      BY <2>4, <3>1 DEF OnThePath, Compiled
  <2>5. ASSUME NEW i \in 1 .. Len(Cache'), Adds(i)', i + 2 <= Pos'
        PROVE  Begins(Append(Cache'[i].with, Cache'[i + 2].of), includes)
    <3>1. i + 2 # Pos + 1
      BY <2>1, <2>5 DEF Adds, AddsIn
    <3>2. i \in 1 .. Pos /\ i + 2 <= Pos /\ i \in 1 .. Len(Cache)
      BY <1>0, <2>1, <2>5, <3>1
    <3> QED
      BY <2>1, <2>2, <2>5, <3>2 DEF OnThePath
  <2>6. Begins(SetToSeq(Profile), includes)
    BY <2>0 DEF OnThePath
  <2> QED
    BY <2>0, <2>3, <2>4, <2>5, <2>6 DEF OnThePath
<1>7. CASE EndSource
  <2>0. phase = "missing" /\ includes' = includes /\ Detecting
    BY <1>7 DEF EndSource, foundVars, Detecting
  <2>1. /\ Pos' = Pos + 1 /\ Pos' <= Len(Cache') /\ (Cache' = Cache \/ Len(Cache') = Pos')
        /\ \A i \in 1 .. Pos : Cache'[i] = Cache[i]
        /\ Cache'[Pos + 1].op = "missing"
    BY <1>7, EndSourceExpects, EntryTypes
  <2>2. /\ \A i \in 1 .. Pos : Compiled(i)' <=> Compiled(i)
        /\ \A i \in 1 .. Pos : i + 2 <= Pos /\ Adds(i)' => Adds(i) /\ Cache'[i + 2] = Cache[i + 2]
    BY <1>0, <2>1, OldEntries
  <2>3. ASSUME NEW i \in 1 .. Len(Cache'), Compiled(i)', i <= Pos' PROVE Begins(Cache'[i].with, includes)
    <3>1. i # Pos + 1
      BY <2>1, <2>3 DEF Compiled, CompiledIn
    <3> QED
      BY <1>0, <2>1, <2>2, <2>3, <3>1 DEF OnThePath
  <2>4. ASSUME NEW i \in 1 .. Len(Cache'), Compiled(i)', Pos' < i PROVE Begins(includes, Cache'[i].with)
    <3>1. Cache' = Cache /\ Pos < i
      BY <1>0, <1>1, <2>1, <2>4
    <3> QED
      BY <2>4, <3>1 DEF OnThePath, Compiled
  <2>5. ASSUME NEW i \in 1 .. Len(Cache'), Adds(i)', i + 2 <= Pos'
        PROVE  Begins(Append(Cache'[i].with, Cache'[i + 2].of), includes)
    <3>1. i + 2 # Pos + 1
      BY <2>1, <2>5 DEF Adds, AddsIn
    <3>2. i \in 1 .. Pos /\ i + 2 <= Pos /\ i \in 1 .. Len(Cache)
      BY <1>0, <2>1, <2>5, <3>1
    <3> QED
      BY <2>1, <2>2, <2>5, <3>2 DEF OnThePath
  <2>6. Begins(SetToSeq(Profile), includes)
    BY <2>0 DEF OnThePath
  <2> QED
    BY <2>0, <2>3, <2>4, <2>5, <2>6 DEF OnThePath
<1>8. CASE AddLibrary
  <2>0. PICK l \in Libs : Takes(l) /\ l \in alternatives[missing] /\ missing \in Headers
    BY <1>8, AddLibraryTakes
  <2>1. /\ Pos' = Pos + 2 /\ Pos' <= Len(Cache') /\ (Cache' = Cache \/ Len(Cache') = Pos')
        /\ \A i \in 1 .. Pos : Cache'[i] = Cache[i]
        /\ Cache'[Pos + 1].op = "missing" /\ Cache'[Pos + 2].op = "added" /\ Cache'[Pos + 2].of = l
    BY <2>0, AddLibraryExpects, EntryTypes
  <2>2. /\ phase = "missing" /\ includes' = Append(includes, l) /\ Begins(includes, includes') /\ Detecting
    BY <2>0, PathGrows DEF Takes, Detecting
  <2>3. Pos \in 1 .. Len(Cache) /\ Cache[Pos].with = includes /\ Compiled(Pos)
    BY <2>2, WhereThePathIs
  <2>4. /\ \A i \in 1 .. Pos : Compiled(i)' <=> Compiled(i)
        /\ \A i \in 1 .. Pos : i + 2 <= Pos /\ Adds(i)' => Adds(i) /\ Cache'[i + 2] = Cache[i + 2]
    <3>1. Pos <= Pos'
      BY <1>0, <2>1
    <3> QED
      BY <2>1, <3>1, OldEntries
  <2>5. ASSUME NEW i \in 1 .. Len(Cache'), Compiled(i)', i <= Pos' PROVE Begins(Cache'[i].with, includes')
    <3>1. i # Pos + 1 /\ i # Pos + 2
      BY <2>1, <2>5 DEF Compiled, CompiledIn
    <3>2. i \in 1 .. Pos /\ i \in 1 .. Len(Cache) /\ i <= Pos
      BY <1>0, <2>1, <2>5, <3>1
    <3>3. Begins(Cache[i].with, includes) /\ Cache'[i] = Cache[i] /\ Compiled(i)
      BY <2>1, <2>4, <2>5, <3>2 DEF OnThePath
    <3> QED
      BY <1>0, <1>1, <2>2, <2>5, <3>3, BeginsFurther
  <2>6. ASSUME NEW i \in 1 .. Len(Cache'), Compiled(i)', Pos' < i PROVE Begins(includes', Cache'[i].with)
    <3>1. Cache' = Cache /\ Pos < i /\ Pos + 2 <= Len(Cache)
      BY <1>0, <1>1, <2>1, <2>6
    <3>2. Adds(Pos) /\ Cache[Pos + 2].of = l
      BY <2>1, <2>3, <3>1 DEF Adds, AddsIn, Compiled
    <3> QED
      BY <2>2, <2>3, <2>6, <3>1, <3>2 DEF CacheIsAPath, Compiled
  <2>7. ASSUME NEW i \in 1 .. Len(Cache'), Adds(i)', i + 2 <= Pos'
        PROVE  Begins(Append(Cache'[i].with, Cache'[i + 2].of), includes')
    <3>1. i + 2 # Pos + 1
      BY <2>1, <2>7 DEF Adds, AddsIn
    <3>2. CASE i = Pos
      <4>1. Cache'[i].with = includes /\ Cache'[i + 2].of = l
        BY <2>1, <2>3, <3>2
      <4> QED
        BY <1>0, <2>2, <4>1, BeginsItself
    <3>3. CASE i # Pos
      <4>1. i \in 1 .. Pos /\ i + 2 <= Pos /\ i \in 1 .. Len(Cache)
        BY <1>0, <2>1, <2>7, <3>1, <3>3
      <4>2. Adds(i) /\ Cache'[i + 2] = Cache[i + 2] /\ Cache'[i] = Cache[i]
        BY <2>1, <2>4, <2>7, <4>1
      <4>3. Begins(Append(Cache[i].with, Cache[i + 2].of), includes)
        BY <4>1, <4>2 DEF OnThePath
      <4>4. Append(Cache[i].with, Cache[i + 2].of) \in Seq(Libs)
        BY <4>1, <4>2, CompiledTypes
      <4> QED
        BY <1>0, <2>2, <4>2, <4>3, <4>4, BeginsFurther
    <3> QED
      BY <3>2, <3>3
  <2>8. Begins(SetToSeq(Profile), includes')
    BY <1>0, <2>2, ProfilePath, BeginsFurther DEF OnThePath
  <2> QED
    BY <2>5, <2>6, <2>7, <2>8 DEF OnThePath
<1> QED
  BY <1>2, <1>3, <1>4, <1>5, <1>6, <1>7, <1>8, CacheSteps

\* A source is processed when its end is expected.
LEMMA ProcessedStep ==
    ASSUME TypeOK, TypeOK', PhaseOK, [Next]_vars, Detecting'
    PROVE  \/ EndPrerun /\ \A f \in Files : ~Processed(f)'
           \/ EndSource /\ \A f \in Files : Processed(f)' <=> Processed(f) \/ f = source
           \/ /\ ~EndPrerun /\ ~EndSource /\ Detecting
              /\ \A f \in Files : Processed(f)' <=> Processed(f)
<1>0. Pos \in 0 .. Len(Cache) /\ Len(Cache) \in Nat /\ Len(Cache)' \in Nat
  <2>1. Cache' \in Seq(Entries)
    BY DEF TypeOK, Cache
  <2> QED
    BY <2>1, PosInCache
<1>1. CASE Cache' = Cache /\ Pos' = Pos /\ includes' = includes /\ (Detecting' <=> Detecting)
  <2>1. \A f \in Files : Processed(f)' <=> Processed(f)
    BY <1>1 DEF Processed, Answer
  <2>2. ~EndPrerun /\ Detecting
    BY <1>1 DEF EndPrerun, Detecting
  <2>3. ~EndSource
    <3>1. EndSource => Pos' = Pos + 1
      BY EndSourceExpects
    <3> QED
      BY <1>0, <1>1, <3>1
  <2> QED
    BY <2>1, <2>2, <2>3
<1>2. CASE Shorter /\ Detecting /\ phase' = "found" /\ Pos' = Pos /\ Pos = Len(Cache') /\ includes' = includes
  <2>1. \A f \in Files : Processed(f)' => Processed(f)
    BY <1>2, ShorterCache DEF Processed
  <2>2. ASSUME NEW f \in Files, Processed(f) PROVE Processed(f)'
    <3>1. PICK i \in 1 .. Len(Cache) : i < Pos /\ Answer(i, None) /\ Cache[i].of = f
      BY <2>2 DEF Processed
    <3>2. i \in 1 .. Len(Cache') /\ i + 1 \in 1 .. Len(Cache') /\ i < Pos'
      BY <1>0, <1>2, <3>1
    <3>3. Cache'[i] = Cache[i] /\ Cache'[i + 1] = Cache[i + 1]
      BY <1>2, <3>2 DEF Shorter
    <3>4. Answer(i, None)'
      BY <1>0, <3>1, <3>2, <3>3 DEF Answer, AnswerIn, CompiledIn
    <3> QED
      BY <3>1, <3>2, <3>3, <3>4 DEF Processed
  <2>3. ~EndPrerun /\ ~EndSource
    BY <1>2 DEF EndPrerun, EndSource
  <2> QED
    BY <1>2, <2>1, <2>2, <2>3
<1>3. CASE EndPrerun
  <2>1. Pos' \in Nat /\ \A i \in 1 .. Pos' : Cache'[i].op = "added"
    BY <1>3, EndPrerunExpects
  <2>2. ASSUME NEW i \in 1 .. Len(Cache'), i < Pos', Answer(i, None)' PROVE FALSE
    <3>1. i \in 1 .. Pos'
      BY <1>0, <2>1, <2>2
    <3> QED
      BY <2>1, <2>2, <3>1 DEF Answer, AnswerIn, CompiledIn
  <2> QED
    BY <1>3, <2>2 DEF Processed
<1>4. ASSUME Pos <= Pos', \A i \in 1 .. Pos : Cache'[i] = Cache[i],
             NEW f \in Files
      PROVE  /\ Processed(f) => Processed(f)'
             /\ Processed(f)' => Processed(f) \/ \E i \in 1 .. Len(Cache') : Pos <= i /\ i < Pos' /\ Answer(i, None)' /\ Cache'[i].of = f
  <2>1. \A i \in 1 .. Pos : i < Pos => (Answer(i, None)' <=> Answer(i, None))
    BY <1>4, OldEntries
  <2>2. Pos' \in 0 .. Len(Cache)'
    BY DEF TypeOK, Pos, Cache, Position
  <2>3. Processed(f) => Processed(f)'
    <3>1. \A i \in 1 .. Len(Cache) : i < Pos => i \in 1 .. Pos /\ i \in 1 .. Len(Cache)' /\ i < Pos'
      BY <1>0, <1>4, <2>2
    <3> QED
      BY <1>4, <2>1, <3>1 DEF Processed
  <2>4. ASSUME Processed(f)'
        PROVE  Processed(f) \/ \E i \in 1 .. Len(Cache') : Pos <= i /\ i < Pos' /\ Answer(i, None)' /\ Cache'[i].of = f
    <3>1. PICK i \in 1 .. Len(Cache') : i < Pos' /\ Answer(i, None)' /\ Cache'[i].of = f
      BY <2>4 DEF Processed
    <3>2. CASE i < Pos
      <4>1. i \in 1 .. Pos /\ i \in 1 .. Len(Cache)
        BY <1>0, <3>2
      <4> QED
        BY <1>4, <2>1, <3>1, <3>2, <4>1 DEF Processed
    <3>3. CASE ~(i < Pos)
      <4>1. Pos <= i
        BY <1>0, <3>3
      <4> QED
        BY <3>1, <4>1
    <3> QED
      BY <3>2, <3>3
  <2> QED
    BY <2>3, <2>4
<1>5. CASE BeginCompile
  <2>1. source \in Files /\ phase = "compile" /\ ~EndPrerun /\ ~EndSource /\ Detecting
    BY <1>5 DEF BeginCompile, EndPrerun, EndSource, PhaseOK, AtSource, Detecting
  <2>2. Pos' = Pos + 1 /\ Cache'[Pos + 1] = Compile(source, includes) /\ \A i \in 1 .. Pos : Cache'[i] = Cache[i]
    BY <1>5, <2>1, BeginCompileExpects
  <2>3. Cache'[Pos + 1] # Missing(None)
    <3>1. includes \in Seq(Libs)
      BY DEF TypeOK
    <3>2. Cache'[Pos + 1].op = "compile" /\ Missing(None).op = "missing"
      BY <2>1, <2>2, <3>1, EntryTypes
    <3> QED
      BY <3>2
  <2>4. ASSUME NEW i \in 1 .. Len(Cache'), Pos <= i, i < Pos', Answer(i, None)' PROVE FALSE
    <3>1. i = Pos
      BY <1>0, <2>2, <2>4
    <3> QED
      BY <2>3, <2>4, <3>1 DEF Answer, AnswerIn
  <2>5. Pos <= Pos'
    BY <1>0, <2>2
  <2> QED
    BY <1>4, <2>1, <2>2, <2>4, <2>5
<1>6. CASE AddLibrary
  <2>1. PICK l \in Libs : Takes(l) /\ missing \in Headers
    BY <1>6, AddLibraryTakes
  <2>2. phase = "missing" /\ missing # None /\ ~EndPrerun /\ ~EndSource /\ Detecting
    BY <1>6, <2>1 DEF Takes, EndPrerun, EndSource, Detecting
  <2>3. /\ Pos' = Pos + 2 /\ Cache'[Pos + 1] = Missing(missing) /\ Cache'[Pos + 2] = Added(l)
        /\ \A i \in 1 .. Pos : Cache'[i] = Cache[i]
    BY <2>1, AddLibraryExpects
  <2>4. Cache'[Pos + 1] # Missing(None) /\ Cache'[Pos + 1].op = "missing"
    BY <2>1, <2>2, <2>3, EntryTypes
  <2>5. ASSUME NEW i \in 1 .. Len(Cache'), Pos <= i, i < Pos', Answer(i, None)' PROVE FALSE
    <3>1. i = Pos \/ i = Pos + 1
      BY <1>0, <2>3, <2>5
    <3> QED
      BY <2>4, <2>5, <3>1 DEF Answer, AnswerIn, CompiledIn
  <2>6. Pos <= Pos'
    BY <1>0, <2>3
  <2> QED
    BY <1>4, <2>2, <2>3, <2>5, <2>6
<1>7. CASE EndSource
  <2>1. phase = "missing"
    BY <1>7 DEF EndSource
  <2>2. Pos \in 1 .. Len(Cache) /\ Compiled(Pos) /\ Cache[Pos].of = source
    BY <2>1, WhereThePathIs
  <2>3. Pos' = Pos + 1 /\ Cache'[Pos + 1] = Missing(None) /\ (\A i \in 1 .. Pos : Cache'[i] = Cache[i]) /\ Pos' <= Len(Cache')
    BY <1>7, EndSourceExpects
  <2>4. ASSUME NEW i \in 1 .. Len(Cache'), Pos <= i, i < Pos', Answer(i, None)' PROVE Cache'[i].of = source
    <3>1. i = Pos
      BY <1>0, <2>3, <2>4
    <3> QED
      BY <2>2, <2>3, <3>1
  <2>5. ASSUME NEW f \in Files, f = source PROVE Processed(f)'
    <3>0. PICK i \in 1 .. Len(Cache) : i = Pos
      BY <2>2
    <3>1. i \in 1 .. Len(Cache)' /\ i < Pos' /\ i < Len(Cache') /\ Cache'[i] = Cache[i]
      BY <1>0, <2>2, <2>3, <3>0
    <3>2. Cache[i].op = "compile" /\ Cache[i].of = source
      BY <2>2, <3>0 DEF Compiled, CompiledIn
    <3>3. Answer(i, None)'
      BY <2>3, <3>0, <3>1, <3>2 DEF Answer, AnswerIn, CompiledIn
    <3> QED
      BY <2>5, <3>0, <3>1, <3>2, <3>3 DEF Processed
  <2>6. Pos <= Pos'
    BY <1>0, <2>3
  <2> QED
    BY <1>4, <1>7, <2>3, <2>4, <2>5, <2>6
<1>8. phase' # "idle"
  BY DEF Detecting
<1> QED
  BY <1>1, <1>2, <1>3, <1>5, <1>6, <1>7, <1>8, CacheSteps


LEMMA HeadAndTail ==
    ASSUME NEW q \in Seq(Files), q # <<>>, IsInjective(q)
    PROVE  /\ ToSet(q) = ToSet(Tail(q)) \cup {Head(q)} /\ Head(q) \notin ToSet(Tail(q))
           /\ IsInjective(Tail(q)) /\ Tail(q) \in Seq(Files) /\ Head(q) \in Files
<1> DEFINE t == Tail(q)
<1>1. /\ Len(q) \in Nat \ {0} /\ Len(t) = Len(q) - 1 /\ t \in Seq(Files) /\ Head(q) = q[1]
      /\ \A i \in 1 .. Len(q) - 1 : t[i] = q[i + 1]
      /\ DOMAIN q = 1 .. Len(q) /\ DOMAIN t = 1 .. Len(q) - 1
  OBVIOUS
<1> HIDE DEF t
<1>2. ToSet(q) = {q[i] : i \in 1 .. Len(q)} /\ ToSet(t) = {t[i] : i \in 1 .. Len(q) - 1}
  BY <1>1 DEF ToSet
<1>3. \A i \in 1 .. Len(q) - 1 : i + 1 \in 1 .. Len(q) /\ i + 1 # 1
  BY <1>1
<1>4. \A i \in 1 .. Len(q) : i = 1 \/ (i - 1 \in 1 .. Len(q) - 1 /\ (i - 1) + 1 = i)
  BY <1>1
<1>5. 1 \in 1 .. Len(q)
  BY <1>1
<1>6. ToSet(q) = ToSet(t) \cup {Head(q)}
  <2>1. ASSUME NEW i \in 1 .. Len(q) PROVE q[i] \in ToSet(t) \cup {Head(q)}
    <3>1. CASE i = 1
      BY <1>1, <3>1
    <3>2. CASE i # 1
      <4>1. i - 1 \in 1 .. Len(q) - 1 /\ t[i - 1] = q[i]
        BY <1>1, <1>4, <3>2
      <4> QED
        BY <1>2, <4>1
    <3> QED
      BY <3>1, <3>2
  <2>2. \A i \in 1 .. Len(q) - 1 : t[i] \in ToSet(q)
    BY <1>1, <1>2, <1>3
  <2>3. Head(q) \in ToSet(q)
    BY <1>1, <1>2, <1>5
  <2> QED
    BY <1>2, <2>1, <2>2, <2>3
<1>7. \A i, j \in 1 .. Len(q) : q[i] = q[j] => i = j
  BY <1>1 DEF IsInjective
<1>8. Head(q) \notin ToSet(t)
  BY <1>1, <1>2, <1>3, <1>5, <1>7
<1>9. IsInjective(t)
  <2>1. ASSUME NEW i \in 1 .. Len(q) - 1, NEW j \in 1 .. Len(q) - 1, t[i] = t[j] PROVE i = j
    <3>1. i + 1 = j + 1
      BY <1>1, <1>3, <1>7, <2>1
    <3> QED
      BY <3>1
  <2> QED
    BY <1>1, <2>1 DEF IsInjective
<1> QED
  BY <1>1, <1>6, <1>8, <1>9 DEF t

LEMMA QueueStep ==
    ASSUME TypeOK, TypeOK', PhaseOK, FoundOK, QueueOK, [Next]_vars
    PROVE  QueueOK'
<1> USE DEF diskVars, boundVars, cacheVars, runnerVars, foundVars, sourceVars, buildVars
<1> SUFFICES ASSUME Detecting' PROVE QueueOK'
  BY DEF QueueOK
<1>0. phase' # "idle" /\ phase' # "prerun"
  BY DEF Detecting
<1>1. CASE EndPrerun
  <2>1. /\ queue' = <<Sketch>> /\ imported' = {} /\ phase' = "pop" /\ \A f \in Files : ~Processed(f)'
    BY <1>1, ProcessedStep DEF EndPrerun, EndSource, PhaseOK
  <2>2. ToSet(queue') = {Sketch} /\ IsInjective(queue')
    BY <2>1 DEF ToSet, IsInjective
  <2> QED
    BY <2>1, <2>2 DEF QueueOK, AtSource
<1>2. CASE EndSource
  <2>1. /\ Detecting /\ phase = "missing" /\ AtSource /\ ~AtSource'
        /\ imported' = imported \cup Committed /\ queue' = Push(queue, Committed)
    BY <1>2 DEF EndSource, Detecting, AtSource
  <2>2. Committed \in SUBSET Libs /\ IsFiniteSet(Committed) /\ Committed \cap imported = {}
    BY <2>1, CommittedTypes DEF FoundOK
  <2>3. ToSet(queue') = ToSet(queue) \cup Committed /\ IsInjective(queue')
    BY <2>1, <2>2, PushTypes DEF QueueOK, TypeOK
  <2>4. \A f \in Files : Processed(f)' <=> Processed(f) \/ f = source
    BY <1>2, ProcessedStep DEF EndPrerun, EndSource
  <2>5. imported \cup {Sketch} \subseteq Files
    BY DEF TypeOK
  <2>6. \A f \in imported' \cup {Sketch} : f \in ToSet(queue') \/ Processed(f)'
    BY <2>1, <2>2, <2>3, <2>4, <2>5 DEF QueueOK
  <2>7. \A f \in Files : Processed(f)' => f \in imported' \cup {Sketch} /\ f \notin ToSet(queue')
    BY <2>1, <2>2, <2>3, <2>4 DEF QueueOK
  <2> QED
    BY <2>1, <2>3, <2>6, <2>7 DEF QueueOK
<1>3. CASE ~EndPrerun /\ ~EndSource
  <2>1. Detecting /\ \A f \in Files : Processed(f)' <=> Processed(f)
    BY <1>3, ProcessedStep
  <2>2. imported \cup {Sketch} \subseteq Files /\ ToSet(queue) \subseteq Files
    BY DEF TypeOK, ToSet
  <2>3. ASSUME UNCHANGED <<imported, queue, source>>, AtSource' <=> AtSource PROVE QueueOK'
    BY <2>1, <2>2, <2>3 DEF QueueOK
  <2>4. CASE UNCHANGED vars
    BY <2>3, <2>4 DEF vars, AtSource
  <2>5. CASE \/ BeginCompile \/ UseCache \/ UseResult \/ Preprocess \/ PreprocessSketch \/ RunSome \/ Cancel \/ EndDetection
    BY <2>3, <2>5 DEF BeginCompile, UseCache, UseResult, Preprocess, PreprocessSketch, RunSome, RunTask, Cancel,
                      EndDetection, SaveCache, AtSource
  <2>6. CASE Pop
    <3>1. /\ queue # <<>> /\ source' = Head(queue) /\ queue' = Tail(queue) /\ imported' = imported /\ AtSource' /\ ~AtSource
      BY <2>6 DEF Pop, AtSource
    <3>2. queue \in Seq(Files) /\ IsInjective(queue)
      BY <2>1 DEF QueueOK, TypeOK
    <3>3. /\ ToSet(queue) = ToSet(queue') \cup {source'} /\ source' \notin ToSet(queue') /\ IsInjective(queue') /\ source' \in Files
      BY <3>1, <3>2, HeadAndTail
    <3>4. ~Processed(source)'
      <4>1. PICK f \in Files : f = source'
        BY <3>3
      <4>2. f \in imported \cup {Sketch} /\ ~Processed(f)
        BY <2>1, <3>1, <3>3, <4>1 DEF QueueOK
      <4>3. ~Processed(f)'
        BY <2>1, <4>2
      <4> QED
        BY <4>1, <4>3 DEF Processed
    <3> QED
      BY <2>1, <2>2, <3>1, <3>3, <3>4 DEF QueueOK
  <2>7. CASE AddLibrary
    <3>1. PICK l \in Libs : Takes(l) /\ l \in alternatives[missing] /\ missing \in Headers
      BY <2>7, AddLibraryTakes
    <3>2. /\ imported' = imported \cup {l} /\ queue' = Push(queue, {l}) /\ source' = source /\ AtSource /\ AtSource' /\ l \notin imported
      BY <3>1, PathGrows DEF Takes, AtSource
    <3>3. ToSet(queue') = ToSet(queue) \cup {l} /\ IsInjective(queue')
      <4>1. queue \in Seq(Files) /\ IsInjective(queue) /\ {l} \in SUBSET Libs /\ IsFiniteSet({l})
        BY <2>1, FS_Singleton DEF QueueOK, TypeOK
      <4> QED
        BY <3>2, <4>1, PushTypes
    <3> QED
      BY <2>1, <2>2, <3>2, <3>3 DEF QueueOK
  <2>8. CASE \/ \E f \in Files : EditSource(f)
             \/ \E l \in Libs : EditHeader(l)
             \/ BeginBuild \/ Prerun \/ CutPreprocess \/ Unresolved \/ EndWrong \/ CutSketch \/ EndBuild
    BY <1>0, <2>8, LeaveTypes DEF EditSource, EditHeader, Change, BeginBuild, Prerun, CutPreprocess, Unresolved, Fail, EndWrong,
                                  CutSketch, EndBuild
  <2> QED
    BY <1>3, <2>4, <2>5, <2>6, <2>7, <2>8 DEF Next, Detect
<1> QED
  BY <1>1, <1>2, <1>3


\* A build goes forward in its cache.
LEMMA PosStep ==
    ASSUME TypeOK, PhaseOK, [Next]_vars
    PROVE  Pos \in Nat /\ Pos' \in Nat /\ (phase' # "idle" => Pos <= Pos')
<1>0. Pos \in Nat
  BY PosInCache
<1>1. BeginCompile => source \in Files
  BY DEF BeginCompile, PhaseOK, AtSource
<1>2. CASE EndPrerun
  BY <1>0, <1>2, EndPrerunExpects
<1>3. CASE BeginCompile
  BY <1>0, <1>1, <1>3, BeginCompileExpects
<1>4. CASE EndSource
  BY <1>0, <1>4, EndSourceExpects
<1>5. CASE AddLibrary
  BY <1>0, <1>5, AddLibraryTakes, AddLibraryExpects
<1> QED
  BY <1>0, <1>2, <1>3, <1>4, <1>5, CacheSteps

\* Where the answers in the cache come from.
LEMMA AnswerStep ==
    ASSUME TypeOK, TypeOK', PhaseOK, [Next]_vars,
           NEW i \in 1 .. Len(Cache'), NEW x \in Headers \cup {None}, Answer(i, x)'
    PROVE  /\ i \in 1 .. Len(Cache) /\ Compiled(i) /\ Cache'[i] = Cache[i]
           /\ \/ Answer(i, x) /\ (x = None /\ i < Pos' => i < Pos)
              \/ EndSource /\ i = Pos /\ x = None
              \/ AddLibrary /\ i = Pos /\ x = missing
<1>0. Pos \in 0 .. Len(Cache) /\ Len(Cache) \in Nat /\ Len(Cache)' \in Nat /\ Pos' \in Nat
  <2>1. Cache' \in Seq(Entries)
    BY DEF TypeOK, Cache
  <2> QED
    BY <2>1, PosInCache, PosStep
<1>a. CompiledIn(Cache', i) /\ i < Len(Cache') /\ Cache'[i + 1] = Missing(x) /\ i + 1 \in 1 .. Len(Cache')
  BY <1>0 DEF Answer, AnswerIn
<1>b. Cache'[i].op = "compile" /\ Cache'[i + 1].op = "missing"
  BY <1>a, EntryTypes DEF CompiledIn
<1>c. ASSUME Cache' = Cache PROVE i \in 1 .. Len(Cache) /\ Answer(i, x) /\ Compiled(i) /\ Cache'[i] = Cache[i]
  BY <1>c DEF Answer, AnswerIn, Compiled
<1>d. ASSUME Shorter PROVE i \in 1 .. Len(Cache) /\ Answer(i, x) /\ Compiled(i) /\ Cache'[i] = Cache[i]
  BY <1>d, ShorterCache DEF Answer, AnswerIn, Compiled
<1>e. ASSUME i \in 1 .. Pos, \A j \in 1 .. Pos : Cache'[j] = Cache[j], Pos <= Pos'
      PROVE  i \in 1 .. Len(Cache) /\ Compiled(i) /\ Cache'[i] = Cache[i] /\ (i < Pos => Answer(i, x))
  <2>1. i \in 1 .. Len(Cache)
    BY <1>0, <1>e
  <2> QED
    BY <1>e, <2>1, <1>b, OldEntries DEF Compiled, CompiledIn
<1>1. CASE \/ Cache' = Cache /\ Pos' = Pos
           \/ Shorter /\ Pos' = 0
           \/ Shorter /\ Pos' = Pos
  <2>1. i < Pos' => i < Pos
    BY <1>0, <1>1
  <2> QED
    BY <1>1, <1>c, <1>d, <2>1
<1>2. CASE EndPrerun
  <2>1. /\ (Cache' = Cache \/ Len(Cache') = Pos') /\ \A j \in 1 .. Pos' : Cache'[j].op = "added"
    BY <1>2, EndPrerunExpects
  <2>2. ~(i <= Pos')
    BY <1>0, <1>b, <2>1
  <2>3. Cache' = Cache /\ ~(i < Pos')
    BY <1>0, <2>1, <2>2
  <2> QED
    BY <1>c, <2>3
<1>3. CASE BeginCompile
  <2>1. source \in Files /\ includes \in Seq(Libs)
    BY <1>3 DEF BeginCompile, PhaseOK, AtSource, TypeOK
  <2>2. /\ Pos' = Pos + 1 /\ (Cache' = Cache \/ Len(Cache') = Pos') /\ (\A j \in 1 .. Pos : Cache'[j] = Cache[j])
        /\ Cache'[Pos + 1].op = "compile"
    BY <1>3, <2>1, BeginCompileExpects, EntryTypes
  <2>3. i + 1 # Pos + 1 /\ Pos <= Pos'
    BY <1>0, <1>b, <2>2
  <2>4. i < Pos' => i < Pos
    BY <1>0, <2>2, <2>3
  <2>5. CASE Cache' = Cache
    BY <1>c, <2>4, <2>5
  <2>6. CASE Len(Cache') = Pos'
    <3>1. i \in 1 .. Pos /\ i < Pos
      BY <1>0, <1>a, <2>2, <2>3, <2>6
    <3> QED
      BY <1>e, <2>2, <2>3, <3>1
  <2> QED
    BY <2>2, <2>5, <2>6
<1>4. CASE EndSource
  <2>1. /\ Pos' = Pos + 1 /\ (Cache' = Cache \/ Len(Cache') = Pos') /\ (\A j \in 1 .. Pos : Cache'[j] = Cache[j])
        /\ Cache'[Pos + 1] = Missing(None)
    BY <1>4, EndSourceExpects
  <2>2. Pos <= Pos'
    BY <1>0, <2>1
  <2>3. CASE i = Pos
    <3>1. i \in 1 .. Pos /\ x = None
      BY <1>0, <1>a, <2>1, <2>3, EntryTypes
    <3> QED
      BY <1>4, <1>e, <2>1, <2>2, <2>3, <3>1
  <2>4. CASE i # Pos
    <3>1. i < Pos' => i < Pos
      BY <1>0, <2>1, <2>4
    <3>2. CASE Cache' = Cache
      BY <1>c, <3>1, <3>2
    <3>3. CASE Len(Cache') = Pos'
      <4>1. i \in 1 .. Pos /\ i < Pos
        BY <1>0, <1>a, <2>1, <2>4, <3>3
      <4> QED
        BY <1>e, <2>1, <2>2, <4>1
    <3> QED
      BY <2>1, <3>2, <3>3
  <2> QED
    BY <2>3, <2>4
<1>5. CASE AddLibrary
  <2>0. PICK l \in Libs : Takes(l) /\ missing \in Headers
    BY <1>5, AddLibraryTakes
  <2>1. /\ Pos' = Pos + 2 /\ (Cache' = Cache \/ Len(Cache') = Pos') /\ (\A j \in 1 .. Pos : Cache'[j] = Cache[j])
        /\ Cache'[Pos + 1] = Missing(missing) /\ Cache'[Pos + 1].op = "missing" /\ Cache'[Pos + 2].op = "added"
    BY <2>0, AddLibraryExpects, EntryTypes
  <2>2. Pos <= Pos' /\ i # Pos + 1 /\ i + 1 # Pos + 2
    BY <1>0, <1>b, <2>1
  <2>3. CASE i = Pos
    <3>1. i \in 1 .. Pos /\ x = missing
      BY <1>0, <1>a, <2>0, <2>1, <2>3, EntryTypes
    <3> QED
      BY <1>5, <1>e, <2>1, <2>2, <2>3, <3>1
  <2>4. CASE i # Pos
    <3>1. i < Pos' => i < Pos
      BY <1>0, <2>1, <2>2, <2>4
    <3>2. CASE Cache' = Cache
      BY <1>c, <3>1, <3>2
    <3>3. CASE Len(Cache') = Pos'
      <4>1. i \in 1 .. Pos /\ i < Pos
        BY <1>0, <1>a, <2>1, <2>2, <2>4, <3>3
      <4> QED
        BY <1>e, <2>1, <2>2, <4>1
    <3> QED
      BY <2>1, <3>2, <3>3
  <2> QED
    BY <2>3, <2>4
<1> QED
  BY <1>1, <1>2, <1>3, <1>4, <1>5, CacheSteps


LEMMA DiskStep ==
    ASSUME [Next]_vars
    PROVE  gone \subseteq gone' /\ (phase # "idle" => content' = content /\ gone' = gone)
<1> USE DEF diskVars, boundVars, cacheVars, runnerVars, foundVars, sourceVars, buildVars
<1>1. CASE UNCHANGED vars
  BY <1>1 DEF vars
<1>2. CASE \/ \E f \in Files : EditSource(f)
           \/ \E l \in Libs : EditHeader(l)
  BY <1>2 DEF EditSource, EditHeader, Change
<1>3. CASE BeginBuild \/ RunSome \/ Cancel
  BY <1>3 DEF BeginBuild, RunSome, RunTask, Cancel
<1>4. CASE Detect
  BY <1>4 DEF Detect, Prerun, EndPrerun, Pop, BeginCompile, UseCache, UseResult, Preprocess, CutPreprocess, EndSource,
              AddLibrary, Unresolved, EndDetection, EndWrong, SaveCache, PreprocessSketch, CutSketch, EndBuild, Fail
<1> QED
  BY <1>1, <1>2, <1>3, <1>4 DEF Next

\* What the cache, and GCC, say is missing is missing.
MissingOK ==
    /\ \A i \in 1 .. Len(Cache) : \A h \in Headers : Answer(i, h) => NoneHas(Cache[i].with, h)
    /\ phase = "missing" /\ missing # None => NoneHas(includes, missing)

LEMMA MissingStep ==
    ASSUME TypeOK, TypeOK', PhaseOK, MissingOK, [Next]_vars
    PROVE  MissingOK'
<1> USE DEF diskVars, boundVars, cacheVars, runnerVars, foundVars, sourceVars, buildVars
<1>0. gone \subseteq gone' /\ (phase # "idle" => content' = content /\ gone' = gone)
  BY DiskStep
<1>1. ASSUME NEW i \in 1 .. Len(Cache'), NEW h \in Headers, Answer(i, h)'
      PROVE  NoneHas(Cache[i].with, h)'
  <2>0. h \in Headers \cup {None} /\ h # None
    OBVIOUS
  <2>1. i \in 1 .. Len(Cache) /\ Cache'[i] = Cache[i]
    BY <1>1, <2>0, AnswerStep
  <2>2. CASE Answer(i, h)
    <3>1. NoneHas(Cache[i].with, h)
      BY <2>1, <2>2 DEF MissingOK
    <3> QED
      BY <1>0, <2>1, <3>1 DEF NoneHas, HasHeader
  <2>3. CASE AddLibrary /\ i = Pos /\ h = missing
    <3>1. phase = "missing" /\ NoneHas(includes, missing) /\ Cache[Pos].with = includes
      BY <2>0, <2>3, WhereThePathIs DEF AddLibrary, MissingOK
    <3> QED
      BY <1>0, <2>1, <2>3, <3>1 DEF NoneHas, HasHeader
  <2> QED
    BY <1>1, <2>0, <2>2, <2>3, AnswerStep
<1>2. ASSUME phase' = "missing", missing' # None PROVE NoneHas(includes, missing)'
  <2>1. CASE UseCache
    <3>1. /\ phase = "preprocess" /\ curr < Len(entries) /\ entries[curr + 1].op = "missing" /\ missing' = entries[curr + 1].of
          /\ includes' = includes /\ gone' = gone
      BY <2>1 DEF UseCache, Cached
    <3>2. Cache = entries /\ Pos = curr /\ Pos \in 1 .. Len(Cache) /\ Compiled(Pos) /\ Cache[Pos].with = includes
      BY <3>1, WhereThePathIs DEF Cache, Pos, Position
    <3>3. Pos + 1 \in 1 .. Len(Cache) /\ Pos < Len(Cache)
      BY <3>1, <3>2, PosInCache
    <3>4. Cache[Pos + 1] \in Entries
      BY <3>3, PosInCache
    <3>5. Cache[Pos + 1] = Missing(missing') /\ missing' \in Headers
      BY <1>2, <3>1, <3>2, <3>4 DEF Entries, Missing
    <3>6. PICK h \in Headers : h = missing'
      BY <3>5
    <3>7. Answer(Pos, h)
      BY <3>2, <3>3, <3>5, <3>6 DEF Answer, AnswerIn, Compiled
    <3>8. NoneHas(includes, h)
      BY <3>2, <3>7 DEF MissingOK
    <3> QED
      BY <3>1, <3>6, <3>8 DEF NoneHas, HasHeader
  <2>2. CASE UseResult \/ Preprocess
    <3>1. /\ missing' = FirstMissing(source, includes) /\ includes' = includes /\ gone' = gone
          /\ source \in Files /\ includes \in Seq(Libs) /\ content[source] \in Seq(Headers)
      BY <2>2 DEF UseResult, Preprocess, PhaseOK, AtSource, TypeOK
    <3>2. NoneHas(includes, FirstMissing(source, includes))
      BY <1>2, <3>1, WhatIsMissing DEF MissingIs
    <3>3. PICK h : h = FirstMissing(source, includes)
      OBVIOUS
    <3> QED
      BY <3>1, <3>2, <3>3 DEF NoneHas, HasHeader
  <2>3. CASE UNCHANGED <<phase, missing, includes, gone>>
    BY <1>2, <2>3 DEF MissingOK, NoneHas, HasHeader
  <2>4. CASE UNCHANGED vars \/ RunSome \/ Cancel
    BY <2>3, <2>4 DEF vars, RunSome, RunTask, Cancel
  <2>5. CASE \/ \E f \in Files : EditSource(f)
             \/ \E l \in Libs : EditHeader(l)
             \/ BeginBuild \/ Prerun \/ EndPrerun \/ Pop \/ BeginCompile \/ CutPreprocess \/ EndSource \/ AddLibrary
             \/ Unresolved \/ EndDetection \/ EndWrong \/ PreprocessSketch \/ CutSketch \/ EndBuild
    BY <1>2, <2>5, LeaveTypes DEF EditSource, EditHeader, Change, BeginBuild, Prerun, EndPrerun, Pop, BeginCompile,
             CutPreprocess, EndSource, AddLibrary, Unresolved, Fail, EndDetection, EndWrong, PreprocessSketch, CutSketch, EndBuild
  <2> QED
    BY <2>1, <2>2, <2>4, <2>5 DEF Next, Detect
<1> QED
  BY <1>1, <1>2 DEF MissingOK


-----------------------------------------------------------------------------
\* A source whose dependency file is up to date has been compiled with what it needs:
\* the file tells what that is, with this include path as with any later one.
Enough(f, I) == UpToDate(f) /\ FirstMissing(f, I) = None /\ dep[f].on = Used(f, I)

FreshOK ==
    /\ \A i \in 1 .. Len(Cache) : Answer(i, None) /\ (i < Pos \/ UpToDate(Cache[i].of)) => Enough(Cache[i].of, Cache[i].with)
    /\ AtSource /\ unchanged => UpToDate(source)
    /\ phase = "missing" /\ missing = None => Enough(source, includes)
    /\ \A t \in ran : FirstMissing(t[1], t[2]) = None => Enough(t[1], t[2])

\* The tasks of the pre-runner are compilations of this detection, on its path.
Tasks == queued \cup ran

TasksOK ==
    /\ \A t \in Tasks : \A i \in 1 .. Len(Cache) : Answer(i, None) /\ Cache[i].of = t[1] =>
           Begins(t[2], Cache[i].with) \/ (i < Pos /\ Begins(Cache[i].with, t[2]))
    /\ \A t, u \in Tasks : t[1] = u[1] => OnePath(t[2], u[2])
    /\ phase = "missing" /\ missing = None => \A t \in Tasks : t[1] = source => OnePath(t[2], includes)
    /\ phase = "prerun" =>
           \A t \in Tasks : \E i \in 1 .. curr : Compiled(i) /\ Cache[i].of = t[1] /\ Cache[i].with = t[2]

LEMMA SameDisk ==
    ASSUME NEW f \in Files, NEW I \in Seq(Libs), content' = content, gone' = gone
    PROVE  /\ FirstMissing(f, I)' = FirstMissing(f, I) /\ Used(f, I)' = Used(f, I)
           /\ dep'[f] = dep[f] => (Enough(f, I)' <=> Enough(f, I)) /\ (UpToDate(f)' <=> UpToDate(f))
<1>1. \A l, h : HasHeader(l, h)' <=> HasHeader(l, h)
  BY DEF HasHeader
<1>2. FirstMissing(f, I)' = FirstMissing(f, I)
  <2> DEFINE lacks == {i \in 1 .. Len(content[f]) : \A l \in ToSet(I) : ~HasHeader(l, content[f][i])}
  <2>1. lacks' = lacks
    BY <1>1
  <2>2. FirstMissing(f, I) = IF lacks = {} THEN None ELSE content[f][CHOOSE i \in lacks : \A j \in lacks : i <= j]
    BY DEF FirstMissing
  <2>3. FirstMissing(f, I)' = IF lacks' = {} THEN None ELSE content[f][CHOOSE i \in lacks' : \A j \in lacks' : i <= j]
    BY DEF FirstMissing
  <2> HIDE DEF lacks
  <2> QED
    BY <2>1, <2>2, <2>3
<1>3. Used(f, I)' = Used(f, I)
  BY <1>1 DEF Used
<1>4. dep'[f] = dep[f] => (UpToDate(f)' <=> UpToDate(f))
  BY DEF UpToDate
<1> QED
  BY <1>2, <1>3, <1>4 DEF Enough

LEMMA GccIsEnough ==
    ASSUME TypeOK, NEW f \in Files, NEW I \in Seq(Libs), Gcc(f, I), content' = content, gone' = gone
    PROVE  /\ \A g \in Files : UpToDate(g) => UpToDate(g)'
           /\ \A g \in Files, J \in Seq(Libs) :
                 g # f \/ FirstMissing(f, I) # None =>
                     (Enough(g, J)' <=> Enough(g, J)) /\ (UpToDate(g)' <=> UpToDate(g))
           /\ \A J \in Seq(Libs) :
                 FirstMissing(f, I) = None /\ OnePath(I, J) /\ FirstMissing(f, J) = None => Enough(f, J)'
<1>1. /\ FirstMissing(f, I) # None => dep' = dep
      /\ FirstMissing(f, I) = None => dep'[f].is = "fresh" /\ dep'[f].on = Used(f, I)
      /\ \A g \in Files : g # f => dep'[g] = dep[g]
  BY GccTypes
<1>2. \A g \in Files : UpToDate(g) => UpToDate(g)'
  BY <1>1 DEF UpToDate
<1>3. ASSUME NEW g \in Files, NEW J \in Seq(Libs), g # f \/ FirstMissing(f, I) # None
      PROVE  (Enough(g, J)' <=> Enough(g, J)) /\ (UpToDate(g)' <=> UpToDate(g))
  <2>1. dep'[g] = dep[g]
    BY <1>1, <1>3
  <2> QED
    BY <2>1, SameDisk
<1>4. ASSUME NEW J \in Seq(Libs), FirstMissing(f, I) = None, OnePath(I, J), FirstMissing(f, J) = None
      PROVE  Enough(f, J)'
  <2>1. Used(f, J) = Used(f, I)
    <3>1. content[f] \in Seq(Headers)
      BY DEF TypeOK
    <3> QED
      BY <1>4, <3>1, SameUse
  <2>2. FirstMissing(f, J)' = FirstMissing(f, J) /\ Used(f, J)' = Used(f, J)
    BY SameDisk
  <2>3. UpToDate(f)'
    BY <1>1, <1>4 DEF UpToDate
  <2> QED
    BY <1>1, <1>4, <2>1, <2>2, <2>3 DEF Enough
<1> QED
  BY <1>2, <1>3, <1>4

\* The steps that touch the disk.
LEMMA DiskSteps ==
    ASSUME [Next]_vars
    PROVE  \/ UNCHANGED <<content, gone, dep>>
           \/ \E f \in Files : EditSource(f)
           \/ \E l \in Libs : EditHeader(l)
           \/ \E t \in queued : RunTask(t)
           \/ Preprocess \/ Unresolved
<1> USE DEF diskVars, boundVars, cacheVars, runnerVars, foundVars, sourceVars, buildVars
<1>1. CASE UNCHANGED vars
  BY <1>1 DEF vars
<1>2. CASE BeginBuild \/ RunSome \/ Cancel
  BY <1>2 DEF BeginBuild, RunSome, Cancel
<1>3. CASE Detect
  BY <1>3 DEF Detect, Prerun, EndPrerun, Pop, BeginCompile, UseCache, UseResult, CutPreprocess, EndSource,
              AddLibrary, EndDetection, EndWrong, SaveCache, PreprocessSketch, CutSketch, EndBuild, Fail
<1> QED
  BY <1>1, <1>2, <1>3 DEF Next


\* Each step, first for one compilation, of source f with include path I.
LEMMA EnoughStep ==
    ASSUME TypeOK, TypeOK', PhaseOK, CacheIsAPath, OnThePath, QueueOK, FreshOK, TasksOK, [Next]_vars,
           NEW i \in 1 .. Len(Cache), NEW f \in Files, NEW I \in Seq(Libs), Cache[i].of = f, Cache[i].with = I,
           Answer(i, None), i < Pos' => i < Pos, i < Pos' \/ UpToDate(f)'
    PROVE  Enough(f, I)'
<1>0. ASSUME i < Pos \/ UpToDate(f) PROVE Enough(f, I)
  BY <1>0 DEF FreshOK
<1>1. /\ content[f] \in Seq(Headers) /\ includes \in Seq(Libs) /\ Compiled(i)
  BY DEF TypeOK, Answer, AnswerIn, Compiled
<1>2. CASE UNCHANGED <<content, gone, dep>>
  <2>1. (Enough(f, I)' <=> Enough(f, I)) /\ (UpToDate(f)' <=> UpToDate(f))
    BY <1>2, SameDisk
  <2> QED
    BY <1>0, <2>1
<1>3. ASSUME NEW g \in Files, EditSource(g) PROVE Enough(f, I)'
  <2>1. Pos' = 0 /\ Stale({g}) /\ gone' = gone /\ \E c \in Contents[g] : content' = [content EXCEPT ![g] = c]
    BY <1>3 DEF EditSource, Change, Pos
  <2>2. \A h \in Files : dep'[h].on = dep[h].on /\ (dep'[h].is = "fresh" <=> dep[h].is = "fresh" /\ h \notin {g})
    BY <2>1, StaleTypes
  <2>3. UpToDate(f)' /\ UpToDate(f) /\ f # g
    BY <2>1, <2>2 DEF UpToDate
  <2>4. Enough(f, I) /\ content'[f] = content[f]
    BY <1>0, <2>1, <2>3 DEF TypeOK
  <2>5. PICK l : l \notin Used(f, I)
    <3>1. Used(f, I) \in SUBSET Libs /\ None \notin Libs
      BY DEF Used
    <3> QED
      BY <3>1
  <2>6. FirstMissing(f, I)' = None /\ Used(f, I)' = Used(f, I)
    BY <1>1, <2>1, <2>4, <2>5, UnusedCanGo DEF Enough
  <2> QED
    BY <2>2, <2>3, <2>4, <2>6 DEF Enough
<1>4. ASSUME NEW l \in Libs, EditHeader(l) PROVE Enough(f, I)'
  <2> DEFINE F == {g \in Files : g = l \/ l \in dep[g].on}
  <2>1. Pos' = 0 /\ Stale(F) /\ gone \subseteq gone' /\ gone' \subseteq gone \cup {l} /\ content' = content
    BY <1>4 DEF EditHeader, Change, Pos
  <2>2. \A h \in Files : dep'[h].on = dep[h].on /\ (dep'[h].is = "fresh" <=> dep[h].is = "fresh" /\ h \notin F)
    <3>1. F \in SUBSET Files
      OBVIOUS
    <3> QED
      BY <2>1, <3>1, StaleTypes
  <2>3. UpToDate(f)' /\ UpToDate(f) /\ l \notin dep[f].on
    BY <2>1, <2>2 DEF UpToDate
  <2>4. Enough(f, I) /\ l \notin Used(f, I)
    BY <1>0, <2>3 DEF Enough
  <2>5. FirstMissing(f, I)' = None /\ Used(f, I)' = Used(f, I)
    BY <1>1, <2>1, <2>4, UnusedCanGo DEF Enough
  <2> QED
    BY <2>2, <2>3, <2>4, <2>5 DEF Enough
<1>5. ASSUME NEW t \in queued, RunTask(t) PROVE Enough(f, I)'
  <2>1. /\ t[1] \in Files /\ t[2] \in Seq(Libs) /\ t \in Tasks /\ Gcc(t[1], t[2]) /\ content' = content /\ gone' = gone
    BY <1>5 DEF RunTask, Tasks, TypeOK
  <2>2. CASE t[1] # f \/ FirstMissing(t[1], t[2]) # None
    BY <1>0, <2>1, <2>2, GccIsEnough
  <2>3. CASE t[1] = f /\ FirstMissing(t[1], t[2]) = None
    <3>1. Begins(t[2], I) \/ (i < Pos /\ Begins(I, t[2]))
      BY <2>1, <2>3 DEF TasksOK
    <3>2. OnePath(t[2], I) /\ FirstMissing(f, I) = None
      BY <1>0, <1>1, <2>1, <2>3, <3>1, MoreIsEnough DEF OnePath, Enough
    <3> QED
      BY <2>1, <2>3, <3>2, GccIsEnough
  <2> QED
    BY <2>2, <2>3
<1>6. ASSUME Gcc(source, includes), content' = content, gone' = gone, phase \in {"preprocess", "missing"}
      PROVE  Enough(f, I)'
  <2>1. /\ Pos \in 1 .. Len(Cache) /\ Compiled(Pos) /\ Cache[Pos].with = includes /\ source \in Files
    BY <1>6, WhereThePathIs
  <2>2. CASE f # source \/ FirstMissing(source, includes) # None
    BY <1>0, <1>1, <1>6, <2>1, <2>2, GccIsEnough
  <2>3. CASE f = source /\ FirstMissing(source, includes) = None
    <3>1. ~(i < Pos)
      BY <1>6, <2>3 DEF QueueOK, Detecting, AtSource, Processed
    <3>2. i = Pos \/ Pos < i
      BY <2>1, <3>1, PosInCache
    <3>3. Begins(includes, I)
      BY <1>1, <2>1, <3>2, BeginsItself DEF OnThePath
    <3>4. FirstMissing(f, I) = None
      BY <1>1, <2>3, <3>3, MoreIsEnough
    <3> QED
      BY <1>1, <1>6, <2>3, <3>3, <3>4, GccIsEnough DEF OnePath
  <2> QED
    BY <2>2, <2>3
<1>7. CASE Preprocess \/ Unresolved
  BY <1>2, <1>6, <1>7 DEF Preprocess, Unresolved, Fail
<1> QED
  BY <1>2, <1>3, <1>4, <1>5, <1>6, <1>7, DiskSteps


LEMMA FreshStep ==
    ASSUME TypeOK, TypeOK', PhaseOK, CacheIsAPath, OnThePath, QueueOK, FreshOK, TasksOK, [Next]_vars
    PROVE  FreshOK'
<1> USE DEF diskVars, boundVars, cacheVars, runnerVars, foundVars, sourceVars, buildVars
<1>0. /\ includes \in Seq(Libs) /\ \A f \in Files : content[f] \in Seq(Headers)
      /\ \A t \in ran \cup queued : t[1] \in Files /\ t[2] \in Seq(Libs)
  BY DEF TypeOK
<1>a. (content' = content /\ gone' = gone) \/ phase = "idle"
  BY DiskStep
<1>1. ASSUME NEW i \in 1 .. Len(Cache'), Answer(i, None)', (i < Pos \/ UpToDate(Cache[i].of))'
      PROVE  Enough(Cache[i].of, Cache[i].with)'
  <2>1. /\ i \in 1 .. Len(Cache) /\ Compiled(i) /\ Cache'[i] = Cache[i]
        /\ \/ Answer(i, None) /\ (i < Pos' => i < Pos)
           \/ EndSource /\ i = Pos
           \/ AddLibrary /\ None = missing
    BY <1>1, AnswerStep
  <2>2. PICK f \in Files, I \in Seq(Libs) : Cache[i].of = f /\ Cache[i].with = I
    BY <2>1, CompiledTypes
  <2>3. i < Pos' \/ UpToDate(f)'
    BY <1>1, <2>1, <2>2 DEF UpToDate
  <2>4. Enough(f, I)'
    <3>1. CASE Answer(i, None) /\ (i < Pos' => i < Pos)
      BY <2>1, <2>2, <2>3, <3>1, EnoughStep
    <3>2. CASE EndSource /\ i = Pos
      <4>1. phase = "missing" /\ missing = None /\ UNCHANGED <<content, gone, dep>>
        BY <3>2 DEF EndSource
      <4>2. f = source /\ I = includes /\ Enough(f, I)
        BY <2>2, <3>2, <4>1, WhereThePathIs DEF FreshOK
      <4> QED
        BY <4>1, <4>2, SameDisk
    <3>3. ~(AddLibrary /\ None = missing)
      BY DEF AddLibrary
    <3> QED
      BY <2>1, <3>1, <3>2, <3>3
  <2> QED
    BY <2>1, <2>2, <2>4 DEF Enough, UpToDate
<1>2. ASSUME AtSource', unchanged' PROVE UpToDate(source)'
  <2>1. CASE Pop
    BY <1>2, <2>1 DEF Pop, UpToDate
  <2>2. ASSUME AtSource, UNCHANGED <<source, unchanged, dep>> PROVE UpToDate(source)'
    BY <1>2, <2>2 DEF FreshOK, UpToDate
  <2>3. CASE UNCHANGED vars
    BY <1>2, <2>2, <2>3 DEF vars, AtSource
  <2>4. CASE BeginCompile \/ UseCache \/ UseResult \/ Cancel \/ AddLibrary
    BY <1>2, <2>2, <2>4 DEF BeginCompile, UseCache, UseResult, Cancel, AddLibrary, AtSource
  <2>5. CASE RunSome \/ Preprocess
    <3>1. AtSource /\ UNCHANGED <<source, unchanged>> /\ content' = content /\ gone' = gone /\ source \in Files /\ UpToDate(source)
      BY <1>2, <2>5 DEF RunSome, RunTask, Preprocess, AtSource, PhaseOK, FreshOK
    <3>2. \E f \in Files, I \in Seq(Libs) : Gcc(f, I)
      BY <1>0, <2>5, <3>1 DEF RunSome, RunTask, Preprocess
    <3>3. \A g \in Files : UpToDate(g) => UpToDate(g)'
      BY <3>1, <3>2, GccIsEnough
    <3>4. PICK f \in Files : f = source
      BY <3>1
    <3> QED
      BY <3>1, <3>3, <3>4 DEF UpToDate
  <2>6. CASE \/ \E f \in Files : EditSource(f)
             \/ \E l \in Libs : EditHeader(l)
             \/ BeginBuild \/ Prerun \/ EndPrerun \/ CutPreprocess \/ EndSource
             \/ Unresolved \/ EndDetection \/ EndWrong \/ PreprocessSketch \/ CutSketch \/ EndBuild
    BY <1>2, <2>6, LeaveTypes DEF EditSource, EditHeader, Change, BeginBuild, Prerun, EndPrerun, AtSource,
             CutPreprocess, EndSource, Unresolved, Fail, EndDetection, EndWrong, PreprocessSketch, CutSketch, EndBuild
  <2> QED
    BY <2>1, <2>3, <2>4, <2>5, <2>6 DEF Next, Detect
<1>3. ASSUME phase' = "missing", missing' = None PROVE Enough(source, includes)'
  <2>1. PICK f \in Files, I \in Seq(Libs) : f = source' /\ I = includes'
    <3>1. source' \in Files /\ includes' \in Seq(Libs)
      BY <1>3, PhaseStep DEF PhaseOK, AtSource, TypeOK
    <3> QED
      BY <3>1
  <2>2. ASSUME Enough(f, I)' PROVE Enough(source, includes)'
    BY <2>1, <2>2 DEF Enough, UpToDate
  <2>3. CASE UseCache
    <3>1. /\ phase = "preprocess" /\ unchanged /\ curr < Len(entries) /\ entries[curr + 1].op = "missing" /\ entries[curr + 1].of = None
          /\ UNCHANGED <<content, gone, dep, source, includes>>
      BY <1>3, <2>3 DEF UseCache, Cached
    <3>2. Cache = entries /\ Pos = curr /\ Pos \in 1 .. Len(Cache) /\ Compiled(Pos) /\ Cache[Pos].of = f /\ Cache[Pos].with = I
      BY <2>1, <3>1, WhereThePathIs DEF Cache, Pos, Position
    <3>3. Pos + 1 \in 1 .. Len(Cache) /\ Pos < Len(Cache)
      BY <3>1, <3>2, PosInCache
    <3>4. Cache[Pos + 1] = Missing(None)
      BY <3>1, <3>2, <3>3, PosInCache DEF Entries, Missing
    <3>5. Answer(Pos, None)
      BY <3>2, <3>3, <3>4 DEF Answer, AnswerIn, Compiled
    <3>6. UpToDate(f)
      BY <2>1, <3>1 DEF FreshOK, AtSource
    <3>7. Enough(f, I)
      BY <3>2, <3>5, <3>6 DEF FreshOK
    <3> QED
      BY <2>2, <3>1, <3>7, SameDisk
  <2>4. CASE UseResult
    <3>1. <<f, I>> \in ran /\ FirstMissing(f, I) = None /\ UNCHANGED <<content, gone, dep>>
      BY <1>3, <2>1, <2>4 DEF UseResult, Task
    <3>2. Enough(f, I)
      BY <3>1 DEF FreshOK
    <3> QED
      BY <2>2, <3>1, <3>2, SameDisk
  <2>5. CASE Preprocess
    <3>1. Gcc(f, I) /\ FirstMissing(f, I) = None /\ content' = content /\ gone' = gone
      BY <1>3, <2>1, <2>5 DEF Preprocess
    <3>2. OnePath(I, I)
      BY BeginsItself DEF OnePath
    <3> QED
      BY <2>2, <3>1, <3>2, GccIsEnough
  <2>6. CASE RunSome
    <3>1. PICK t \in queued : RunTask(t)
      BY <2>6 DEF RunSome
    <3>2. phase = "missing" /\ missing = None /\ f = source /\ I = includes /\ content' = content /\ gone' = gone /\ Gcc(t[1], t[2])
      BY <1>3, <2>1, <3>1 DEF RunTask
    <3>3. Enough(f, I) /\ FirstMissing(f, I) = None
      BY <3>2 DEF FreshOK, Enough
    <3>4. CASE t[1] = f /\ FirstMissing(t[1], t[2]) = None
      <4>1. OnePath(t[2], I)
        BY <3>2, <3>4 DEF TasksOK, Tasks
      <4> QED
        BY <1>0, <2>2, <3>2, <3>3, <3>4, <4>1, GccIsEnough
    <3>5. CASE ~(t[1] = f /\ FirstMissing(t[1], t[2]) = None)
      <4>1. Enough(f, I)' <=> Enough(f, I)
        BY <1>0, <3>2, <3>5, GccIsEnough
      <4> QED
        BY <2>2, <3>3, <4>1
    <3> QED
      BY <3>4, <3>5
  <2>7. CASE UNCHANGED vars \/ Cancel
    <3>1. phase = "missing" /\ missing = None /\ f = source /\ I = includes /\ UNCHANGED <<content, gone, dep>>
      BY <1>3, <2>1, <2>7 DEF vars, Cancel
    <3>2. Enough(f, I)
      BY <3>1 DEF FreshOK
    <3> QED
      BY <2>2, <3>1, <3>2, SameDisk
  <2>8. CASE \/ \E g \in Files : EditSource(g)
             \/ \E l \in Libs : EditHeader(l)
             \/ BeginBuild \/ Prerun \/ EndPrerun \/ Pop \/ BeginCompile \/ CutPreprocess \/ EndSource \/ AddLibrary
             \/ Unresolved \/ EndDetection \/ EndWrong \/ PreprocessSketch \/ CutSketch \/ EndBuild
    BY <1>3, <2>8, LeaveTypes DEF EditSource, EditHeader, Change, BeginBuild, Prerun, EndPrerun, Pop, BeginCompile,
             CutPreprocess, EndSource, AddLibrary, Unresolved, Fail, EndDetection, EndWrong, PreprocessSketch, CutSketch, EndBuild
  <2> QED
    BY <2>3, <2>4, <2>5, <2>6, <2>7, <2>8 DEF Next, Detect
<1>4. ASSUME NEW t \in ran', FirstMissing(t[1], t[2])' = None PROVE Enough(t[1], t[2])'
  <2>1. PICK f \in Files, I \in Seq(Libs) : f = t[1] /\ I = t[2]
    BY <1>4 DEF TypeOK
  <2>2. FirstMissing(f, I)' = None
    BY <1>4, <2>1
  <2>3. ASSUME Enough(f, I)' PROVE Enough(t[1], t[2])'
    BY <2>1, <2>3
  <2>4. CASE RunSome
    <3>1. PICK u \in queued : RunTask(u)
      BY <2>4 DEF RunSome
    <3>2. ran' = ran \cup {u} /\ content' = content /\ gone' = gone /\ Gcc(u[1], u[2])
      BY <3>1 DEF RunTask
    <3>3. FirstMissing(f, I) = None
      BY <2>2, <3>2, SameDisk
    <3>4. CASE u[1] = f /\ FirstMissing(u[1], u[2]) = None
      <4>1. OnePath(u[2], I)
        BY <1>4, <2>1, <3>2, <3>4 DEF TasksOK, Tasks
      <4> QED
        BY <1>0, <2>3, <3>2, <3>3, <3>4, <4>1, GccIsEnough
    <3>5. CASE ~(u[1] = f /\ FirstMissing(u[1], u[2]) = None)
      <4>1. t \in ran
        BY <1>4, <2>1, <3>2, <3>3, <3>5
      <4>2. Enough(f, I)
        BY <2>1, <3>3, <4>1 DEF FreshOK
      <4>3. Enough(f, I)' <=> Enough(f, I)
        BY <1>0, <3>2, <3>5, GccIsEnough
      <4> QED
        BY <2>3, <4>2, <4>3
    <3> QED
      BY <3>4, <3>5
  <2>5. ASSUME t \in ran, UNCHANGED <<content, gone, dep>> PROVE Enough(f, I)'
    <3>1. FirstMissing(f, I) = None
      BY <2>2, <2>5, SameDisk
    <3>2. Enough(f, I)
      BY <2>1, <2>5, <3>1 DEF FreshOK
    <3> QED
      BY <2>5, <3>2, SameDisk
  <2>6. CASE UNCHANGED vars \/ Cancel
    BY <1>4, <2>3, <2>5, <2>6 DEF vars, Cancel
  <2>7. CASE \/ BeginBuild \/ Prerun \/ EndPrerun \/ Pop \/ BeginCompile \/ UseCache \/ UseResult \/ AddLibrary
             \/ EndSource \/ PreprocessSketch
    <3>1. t \in ran /\ UNCHANGED <<content, gone, dep>>
      BY <1>4, <2>7 DEF BeginBuild, Prerun, EndPrerun, Pop, BeginCompile, UseCache, UseResult, AddLibrary, EndSource, PreprocessSketch
    <3> QED
      BY <2>3, <2>5, <3>1
  <2>8. CASE \/ \E g \in Files : EditSource(g)
             \/ \E l \in Libs : EditHeader(l)
    BY <1>4, <2>8 DEF EditSource, EditHeader, Change, PhaseOK
  <2>9. CASE Preprocess \/ CutPreprocess \/ Unresolved \/ EndDetection \/ EndWrong \/ CutSketch \/ EndBuild
    BY <1>4, <2>9, LeaveTypes DEF Preprocess, CutPreprocess, Unresolved, Fail, EndDetection, EndWrong, CutSketch, EndBuild
  <2> QED
    BY <2>4, <2>6, <2>7, <2>8, <2>9 DEF Next, Detect
<1> QED
  BY <1>1, <1>2, <1>3, <1>4 DEF FreshOK


\* How the tasks change.
LEMMA TaskSteps ==
    ASSUME TypeOK, PhaseOK, [Next]_vars
    PROVE  \/ Tasks' = {}
           \/ Tasks' = Tasks /\ phase' # "idle" /\ (phase' = "prerun" => phase = "prerun" /\ UNCHANGED <<curr, entries>>)
           \/ Prerun
           \/ EndSource /\ Tasks' = {<<f, includes>> : f \in ToSet(queue')}
<1> USE DEF diskVars, boundVars, cacheVars, runnerVars, foundVars, sourceVars, buildVars
<1>1. CASE UNCHANGED vars
  <2>1. phase = "idle" => Tasks' = {}
    BY <1>1 DEF vars, Tasks, PhaseOK
  <2> QED
    BY <1>1, <2>1 DEF vars, Tasks
<1>2. CASE \/ \E f \in Files : EditSource(f)
           \/ \E l \in Libs : EditHeader(l)
           \/ BeginBuild
  BY <1>2 DEF EditSource, EditHeader, Change, BeginBuild, PhaseOK, Tasks
<1>3. CASE Cancel \/ EndPrerun \/ Pop \/ BeginCompile \/ UseCache \/ UseResult \/ AddLibrary \/ PreprocessSketch
  BY <1>3 DEF Cancel, EndPrerun, Pop, BeginCompile, UseCache, UseResult, AddLibrary, PreprocessSketch, Tasks
<1>4. CASE RunSome
  <2>1. PICK t \in queued : RunTask(t)
    BY <1>4 DEF RunSome
  <2>2. phase # "idle"
    BY <2>1 DEF PhaseOK
  <2>3. Tasks' = Tasks
    BY <2>1 DEF RunTask, Tasks
  <2> QED
    BY <2>1, <2>2, <2>3 DEF RunTask
<1>5. CASE Preprocess \/ CutPreprocess \/ Unresolved \/ EndDetection \/ EndWrong \/ CutSketch \/ EndBuild
  BY <1>5, LeaveTypes DEF Preprocess, CutPreprocess, Unresolved, Fail, EndDetection, EndWrong, CutSketch, EndBuild, Tasks
<1>6. CASE EndSource
  <2>1. CASE preRunner
    BY <1>6, <2>1 DEF EndSource, Tasks
  <2>2. CASE ~preRunner
    BY <1>6, <2>2 DEF EndSource, Tasks
  <2> QED
    BY <2>1, <2>2
<1> QED
  BY <1>1, <1>2, <1>3, <1>4, <1>5, <1>6 DEF Next, Detect

LEMMA TasksStep ==
    ASSUME TypeOK, TypeOK', PhaseOK, FoundOK, CacheIsAPath, OnThePath, QueueOK, TasksOK, [Next]_vars
    PROVE  TasksOK'
<1> USE DEF diskVars, boundVars, cacheVars, runnerVars, foundVars, sourceVars, buildVars
<1>0. /\ includes \in Seq(Libs) /\ \A t \in Tasks : t[1] \in Files /\ t[2] \in Seq(Libs)
      /\ Pos \in Nat /\ Len(Cache) \in Nat /\ Len(Cache)' \in Nat
  <2>1. Cache' \in Seq(Entries)
    BY DEF TypeOK, Cache
  <2>2. \A t \in Tasks : t[1] \in Files /\ t[2] \in Seq(Libs)
    BY DEF TypeOK, Tasks
  <2>3. includes \in Seq(Libs)
    BY DEF TypeOK
  <2> QED
    BY <2>1, <2>2, <2>3, PosInCache
<1>1. CASE Tasks' = {}
  BY <1>1 DEF TasksOK
\* The tasks that there are go on being on the path.
<1>2. ASSUME phase' # "idle", NEW t \in Tasks,
             NEW i \in 1 .. Len(Cache'), Answer(i, None)', Cache'[i].of = t[1]
      PROVE  Begins(t[2], Cache'[i].with) \/ (i < Pos' /\ Begins(Cache'[i].with, t[2]))
  <2>1. /\ i \in 1 .. Len(Cache) /\ Compiled(i) /\ Cache'[i] = Cache[i]
        /\ \/ Answer(i, None)
           \/ EndSource /\ i = Pos
           \/ AddLibrary /\ None = missing
    BY <1>2, AnswerStep
  <2>2. Pos <= Pos' /\ Pos' \in Nat
    BY <1>2, PosStep
  <2>3. CASE Answer(i, None)
    <3>1. Begins(t[2], Cache[i].with) \/ (i < Pos /\ Begins(Cache[i].with, t[2]))
      BY <1>2, <2>1, <2>3 DEF TasksOK
    <3> QED
      BY <1>0, <2>1, <2>2, <3>1
  <2>4. CASE EndSource /\ i = Pos
    <3>1. phase = "missing" /\ missing = None /\ Pos' = Pos + 1
      BY <2>4, EndSourceExpects DEF EndSource
    <3>2. t[1] = source /\ Cache[i].with = includes
      BY <1>2, <2>1, <2>4, <3>1, WhereThePathIs
    <3>3. OnePath(t[2], includes)
      BY <3>1, <3>2 DEF TasksOK
    <3>4. i < Pos'
      BY <1>0, <2>4, <3>1
    <3> QED
      BY <2>1, <3>2, <3>3, <3>4 DEF OnePath
  <2>5. ~(AddLibrary /\ None = missing)
    BY DEF AddLibrary
  <2> QED
    BY <2>1, <2>3, <2>4, <2>5
\* So they are when a source misses nothing.
<1>3. ASSUME phase' = "missing", missing' = None, NEW t \in Tasks, t[1] = source', Tasks' # {} PROVE OnePath(t[2], includes')
  <2>1. CASE UseCache
    <3>1. /\ phase = "preprocess" /\ curr < Len(entries) /\ entries[curr + 1].op = "missing" /\ entries[curr + 1].of = None
          /\ UNCHANGED <<source, includes>>
      BY <1>3, <2>1 DEF UseCache, Cached
    <3>2. Cache = entries /\ Pos = curr /\ Pos \in 1 .. Len(Cache) /\ Compiled(Pos) /\ Cache[Pos].of = source /\ Cache[Pos].with = includes
      BY <3>1, WhereThePathIs DEF Cache, Pos, Position
    <3>3. Pos + 1 \in 1 .. Len(Cache) /\ Pos < Len(Cache)
      BY <3>1, <3>2, PosInCache
    <3>4. Cache[Pos + 1] = Missing(None)
      BY <3>1, <3>2, <3>3, PosInCache DEF Entries, Missing
    <3>5. Answer(Pos, None)
      BY <3>2, <3>3, <3>4 DEF Answer, AnswerIn, Compiled
    <3>6. Begins(t[2], includes) \/ Begins(includes, t[2])
      BY <1>3, <3>1, <3>2, <3>5 DEF TasksOK
    <3> QED
      BY <3>1, <3>6 DEF OnePath
  <2>2. CASE UseResult
    <3>1. Task \in Tasks /\ source' = source /\ includes' = includes
      BY <2>2 DEF UseResult, Tasks
    <3>2. Task[1] = source /\ Task[2] = includes
      BY DEF Task
    <3> QED
      BY <1>3, <3>1, <3>2 DEF TasksOK
  <2>3. CASE Preprocess
    BY <1>3, <2>3 DEF Preprocess, Tasks
  <2>4. CASE UNCHANGED vars \/ RunSome \/ Cancel
    <3>1. UNCHANGED <<phase, missing, source, includes>>
      BY <2>4 DEF vars, RunSome, RunTask, Cancel
    <3> QED
      BY <1>3, <3>1 DEF TasksOK
  <2>5. CASE \/ \E g \in Files : EditSource(g)
             \/ \E l \in Libs : EditHeader(l)
             \/ BeginBuild \/ Prerun \/ EndPrerun \/ Pop \/ BeginCompile \/ CutPreprocess \/ EndSource \/ AddLibrary
             \/ Unresolved \/ EndDetection \/ EndWrong \/ PreprocessSketch \/ CutSketch \/ EndBuild
    BY <1>3, <2>5, LeaveTypes DEF EditSource, EditHeader, Change, BeginBuild, Prerun, EndPrerun, Pop, BeginCompile,
             CutPreprocess, EndSource, AddLibrary, Unresolved, Fail, EndDetection, EndWrong, PreprocessSketch, CutSketch, EndBuild
  <2> QED
    BY <2>1, <2>2, <2>3, <2>4, <2>5 DEF Next, Detect
<1>4. CASE Tasks' = Tasks /\ phase' # "idle" /\ (phase' = "prerun" => phase = "prerun" /\ UNCHANGED <<curr, entries>>)
  <2>1. \A t \in Tasks' : \A i \in 1 .. Len(Cache') : Answer(i, None)' /\ Cache'[i].of = t[1] =>
           Begins(t[2], Cache'[i].with) \/ (i < Pos' /\ Begins(Cache'[i].with, t[2]))
    BY <1>2, <1>4
  <2>2. \A t, u \in Tasks' : t[1] = u[1] => OnePath(t[2], u[2])
    BY <1>4 DEF TasksOK
  <2>3. phase' = "missing" /\ missing' = None => \A t \in Tasks' : t[1] = source' => OnePath(t[2], includes')
    BY <1>3, <1>4
  <2>4. ASSUME phase' = "prerun"
        PROVE  \A t \in Tasks' : \E i \in 1 .. curr' : Compiled(i)' /\ Cache'[i].of = t[1] /\ Cache'[i].with = t[2]
    <3>1. phase = "prerun" /\ curr' = curr /\ Cache' = Cache
      BY <1>4, <2>4 DEF Cache
    <3> QED
      BY <1>4, <3>1 DEF TasksOK, Compiled
  <2> QED
    BY <2>1, <2>2, <2>3, <2>4 DEF TasksOK
<1>5. CASE Prerun
  <2> DEFINE e == entries[curr']
  <2>1. /\ phase = "prerun" /\ phase' = "prerun" /\ curr' = curr + 1 /\ Cache' = Cache /\ Cache = entries /\ Pos = 0 /\ Pos' = 0
        /\ curr \in Nat /\ curr < Len(Cache)
    BY <1>5 DEF Prerun, Cache, Pos, Position, TypeOK
  <2>2. Tasks' = Tasks \/ (e.op = "compile" /\ Tasks' = Tasks \cup {<<e.of, e.with>>})
    BY <1>5 DEF Prerun, Tasks
  <2>3. \A t \in Tasks : \E i \in 1 .. curr : Compiled(i) /\ Cache[i].of = t[1] /\ Cache[i].with = t[2]
    BY <2>1 DEF TasksOK
  <2>4. curr' \in 1 .. Len(Cache) /\ \A i \in 1 .. curr : i \in 1 .. curr' /\ i \in 1 .. Len(Cache)
    BY <1>0, <2>1
  <2>5. \A t \in Tasks' : \E i \in 1 .. curr' : Compiled(i) /\ Cache[i].of = t[1] /\ Cache[i].with = t[2]
    <3>1. CASE Tasks' = Tasks
      BY <2>3, <2>4, <3>1
    <3>2. CASE e.op = "compile" /\ Tasks' = Tasks \cup {<<e.of, e.with>>}
      <4>1. Compiled(curr') /\ curr' \in 1 .. curr'
        BY <2>1, <2>4, <3>2 DEF Compiled, CompiledIn
      <4>2. \E i \in 1 .. curr' : Compiled(i) /\ Cache[i].of = e.of /\ Cache[i].with = e.with
        BY <2>1, <4>1
      <4>3. <<e.of, e.with>>[1] = e.of /\ <<e.of, e.with>>[2] = e.with
        OBVIOUS
      <4> HIDE DEF e
      <4> QED
        BY <2>3, <2>4, <3>2, <4>2, <4>3
    <3> QED
      BY <2>2, <3>1, <3>2
  <2>6. ASSUME NEW t \in Tasks', NEW i \in 1 .. Len(Cache), Answer(i, None), Cache[i].of = t[1]
        PROVE  Begins(t[2], Cache[i].with)
    <3>1. PICK j \in 1 .. curr' : Compiled(j) /\ Cache[j].of = t[1] /\ Cache[j].with = t[2]
      BY <2>5
    <3>2. j \in 1 .. Len(Cache) /\ Compiled(i)
      BY <2>6, <3>1 DEF Compiled, CompiledIn, Answer, AnswerIn
    <3>3. j <= i
      BY <2>6, <3>1, <3>2 DEF CacheIsAPath
    <3>4. CASE j = i
      BY <3>1, <3>2, <3>4, CompiledTypes, BeginsItself
    <3>5. CASE j # i
      <4>1. j < i
        BY <3>2, <3>3, <3>5
      <4> QED
        BY <3>1, <3>2, <4>1 DEF CacheIsAPath
    <3> QED
      BY <3>4, <3>5
  <2>7. ASSUME NEW t \in Tasks', NEW u \in Tasks' PROVE OnePath(t[2], u[2])
    <3>1. PICK j \in 1 .. curr' : Compiled(j) /\ Cache[j].of = t[1] /\ Cache[j].with = t[2]
      BY <2>5
    <3>2. PICK k \in 1 .. curr' : Compiled(k) /\ Cache[k].of = u[1] /\ Cache[k].with = u[2]
      BY <2>5
    <3>3. j \in 1 .. Len(Cache) /\ k \in 1 .. Len(Cache)
      BY <3>1, <3>2 DEF Compiled, CompiledIn
    <3>4. j = k \/ j < k \/ k < j
      BY <3>3
    <3> QED
      BY <3>1, <3>2, <3>3, <3>4, CompiledTypes, BeginsItself DEF CacheIsAPath, OnePath
  <2> QED
    BY <2>1, <2>5, <2>6, <2>7 DEF TasksOK, Answer, Compiled
<1>6. CASE EndSource /\ Tasks' = {<<f, includes>> : f \in ToSet(queue')}
  <2>1. phase' = "pop" /\ includes' = includes
    BY <1>6 DEF EndSource
  <2>2. \A t \in Tasks' : t[1] \in ToSet(queue') /\ t[2] = includes
    BY <1>6
  <2>3. QueueOK' /\ OnThePath'
    BY QueueStep, OnThePathStep
  <2>4. ASSUME NEW t \in Tasks', NEW i \in 1 .. Len(Cache'), Answer(i, None)', Cache'[i].of = t[1]
        PROVE  Begins(t[2], Cache'[i].with)
    <3>1. ~(i < Pos')
      <4>1. PICK f \in Files : f = t[1]
        <5>1. queue' \in Seq(Files)
          BY DEF TypeOK
        <5> QED
          BY <2>2, <5>1 DEF ToSet
      <4>2. ~Processed(f)'
        BY <2>1, <2>2, <2>3, <4>1 DEF QueueOK, Detecting
      <4> QED
        BY <2>4, <4>1, <4>2 DEF Processed
    <3>2. Pos' \in 1 .. Len(Cache') /\ Cache'[Pos'].op = "missing"
      BY <1>0, <1>6, EndSourceExpects, EntryTypes
    <3>3. Compiled(i)'
      BY <2>4 DEF Answer, AnswerIn, Compiled
    <3>4. Cache'[i].op = "compile"
      BY <3>3 DEF Compiled, CompiledIn
    <3>5. Pos' < i
      BY <1>0, <3>1, <3>2, <3>4
    <3> QED
      BY <2>1, <2>2, <2>3, <3>3, <3>5 DEF OnThePath
  <2>5. \A t, u \in Tasks' : OnePath(t[2], u[2])
    BY <1>0, <2>2, BeginsItself DEF OnePath
  <2> QED
    BY <2>1, <2>4, <2>5 DEF TasksOK
<1> QED
  BY <1>1, <1>4, <1>5, <1>6, TaskSteps


\* What a source uses, once it is processed, is there and will be compiled.
UsedOK ==
    Detecting => \A f \in Files : Processed(f) => Used(f, includes) \subseteq imported /\ FirstMissing(f, includes) = None

LEMMA UsedStep ==
    ASSUME TypeOK, TypeOK', PhaseOK, FoundOK, FreshOK, UsedOK, [Next]_vars
    PROVE  UsedOK'
<1> USE DEF diskVars, boundVars, cacheVars, runnerVars, foundVars, sourceVars, buildVars
<1> SUFFICES ASSUME Detecting', NEW f \in Files, Processed(f)'
             PROVE  Used(f, includes)' \subseteq imported' /\ FirstMissing(f, includes)' = None
  BY DEF UsedOK
<1>0. includes \in Seq(Libs) /\ includes' \in Seq(Libs) /\ content[f] \in Seq(Headers)
  BY DEF TypeOK
<1>1. PICK J \in Seq(Libs) : J = includes'
  BY <1>0
<1>2. SUFFICES Used(f, J)' \subseteq imported' /\ FirstMissing(f, J)' = None
  BY <1>1, <1>2 DEF Used, FirstMissing, HasHeader
<1>3. ~EndPrerun /\ Detecting
  BY ProcessedStep DEF EndSource, EndPrerun, Detecting
<1>4. content' = content /\ gone' = gone
  BY <1>3, DiskStep DEF Detecting
<1>5. SUFFICES Used(f, J) \subseteq imported' /\ FirstMissing(f, J) = None
  BY <1>4, SameDisk
<1>6. CASE EndSource
  <2>1. /\ J = includes /\ phase = "missing" /\ missing = None /\ imported' = imported \cup Committed
    BY <1>1, <1>6 DEF EndSource
  <2>2. CASE Processed(f)
    BY <1>3, <2>1, <2>2 DEF UsedOK
  <2>3. CASE f = source
    <3>1. FirstMissing(f, J) = None /\ dep[f].on = Used(f, J)
      BY <2>1, <2>3 DEF FreshOK, Enough
    <3>2. Used(f, J) \subseteq staged \cup imported
      BY <1>3, <2>1, UsedIsThere DEF FoundOK
    <3>3. Committed = staged \cap Used(f, J)
      BY <2>3, <3>1 DEF Committed
    <3> QED
      BY <2>1, <3>1, <3>2, <3>3
  <2> QED
    BY <1>3, <1>6, <2>2, <2>3, ProcessedStep
<1>7. CASE AddLibrary
  <2>1. PICK l \in Libs : Takes(l) /\ l \in alternatives[missing] /\ missing \in Headers
    BY <1>7, AddLibraryTakes
  <2>2. Begins(includes, J) /\ imported \subseteq imported'
    BY <1>1, <2>1, PathGrows DEF Takes
  <2>3. Used(f, includes) \subseteq imported /\ FirstMissing(f, includes) = None
    BY <1>3, <1>7, ProcessedStep DEF UsedOK, EndSource, AddLibrary
  <2> QED
    BY <1>0, <2>2, <2>3, MoreIsEnough
<1>8. CASE ~EndSource /\ ~AddLibrary
  <2>1. includes' = includes /\ imported' = imported
    <3>1. CASE UNCHANGED vars
      BY <3>1 DEF vars
    <3>2. CASE \/ RunSome \/ Cancel \/ Pop \/ BeginCompile \/ UseCache \/ UseResult \/ Preprocess \/ EndDetection \/ PreprocessSketch
      BY <3>2 DEF RunSome, RunTask, Cancel, Pop, BeginCompile, UseCache, UseResult, Preprocess, EndDetection, PreprocessSketch
    <3>3. CASE \/ \E g \in Files : EditSource(g)
               \/ \E l \in Libs : EditHeader(l)
               \/ BeginBuild \/ Prerun \/ CutPreprocess \/ Unresolved \/ EndWrong \/ CutSketch \/ EndBuild
      BY <1>3, <3>3, LeaveTypes DEF EditSource, EditHeader, Change, BeginBuild, Prerun, CutPreprocess, Unresolved, Fail, EndWrong,
                                    CutSketch, EndBuild, Detecting
    <3> QED
      BY <1>3, <1>8, <3>1, <3>2, <3>3 DEF Next, Detect
  <2>2. Processed(f)
    BY <1>3, <1>8, ProcessedStep
  <2> QED
    BY <1>1, <1>3, <2>1, <2>2 DEF UsedOK
<1> QED
  BY <1>6, <1>7, <1>8

\* sketch.ino.cpp is older than a header only after a build of which the dependency
\* file still tells.
SketchOK ==
    sound => /\ phase = "idle" /\ ino = "olderThanHeader" => ~UpToDate(Sketch)
             /\ phase \notin {"idle", "built"} /\ sketchIsUnchanged => ino # "olderThanHeader"
             /\ phase = "built" => ino = "current"

LEMMA SketchStep ==
    ASSUME TypeOK, PhaseOK, SketchOK, [Next]_vars
    PROVE  SketchOK'
<1> USE DEF diskVars, boundVars, cacheVars, runnerVars, foundVars, sourceVars, buildVars
<1>1. ASSUME UNCHANGED <<sound, ino, sketchIsUnchanged>>, phase \notin {"idle", "built"}, phase' \notin {"idle", "built"} PROVE SketchOK'
  BY <1>1 DEF SketchOK
<1>2. CASE UNCHANGED vars \/ Cancel
  <2>1. UNCHANGED <<sound, ino, sketchIsUnchanged, phase, dep>>
    BY <1>2 DEF vars, Cancel
  <2> QED
    BY <2>1 DEF SketchOK, UpToDate
<1>3. ASSUME NEW f \in Files, EditSource(f) PROVE SketchOK'
  <2>1. /\ phase = "idle" /\ phase' = "idle" /\ sound' = sound /\ Stale({f})
        /\ ino' = IF f = Sketch /\ ino # "none" THEN "olderThanSketch" ELSE ino
    BY <1>3 DEF EditSource, Change
  <2>2. {f} \in SUBSET Files
    OBVIOUS
  <2>3. UpToDate(Sketch)' => UpToDate(Sketch)
    BY <2>1, <2>2, StaleTypes DEF UpToDate
  <2> QED
    BY <2>1, <2>3 DEF SketchOK
<1>4. ASSUME NEW l \in Libs, EditHeader(l) PROVE SketchOK'
  <2> DEFINE F == {f \in Files : f = l \/ l \in dep[f].on}
  <2>1. /\ phase = "idle" /\ phase' = "idle" /\ sound' = sound /\ Stale(F)
        /\ ino' = IF l \in dep[Sketch].on /\ ino = "current" THEN "olderThanHeader" ELSE ino
    BY <1>4 DEF EditHeader, Change
  <2>2. F \in SUBSET Files /\ (l \in dep[Sketch].on => Sketch \in F)
    OBVIOUS
  <2> HIDE DEF F
  <2>3. (UpToDate(Sketch)' => UpToDate(Sketch)) /\ (Sketch \in F => ~UpToDate(Sketch)')
    BY <2>1, <2>2, StaleTypes DEF UpToDate
  <2> QED
    BY <2>1, <2>2, <2>3 DEF SketchOK
<1>5. CASE BeginBuild
  BY <1>5 DEF BeginBuild, SketchOK
<1>6. CASE Prerun \/ EndPrerun \/ Pop \/ BeginCompile \/ UseCache \/ UseResult \/ Preprocess \/ EndSource \/ AddLibrary \/ EndDetection
  BY <1>1, <1>6 DEF Prerun, EndPrerun, Pop, BeginCompile, UseCache, UseResult, Preprocess, EndSource, AddLibrary, EndDetection, SaveCache
<1>7. CASE CutPreprocess \/ Unresolved \/ EndWrong \/ CutSketch
  BY <1>7 DEF CutPreprocess, Unresolved, Fail, EndWrong, CutSketch, SketchOK
<1>8. CASE PreprocessSketch
  BY <1>8 DEF PreprocessSketch, SkipsPreprocessing, SketchOK
<1>9. CASE EndBuild
  BY <1>9, LeaveTypes DEF EndBuild, SketchOK
<1>10. CASE RunSome
  <2>1. UNCHANGED <<sound, ino, sketchIsUnchanged, phase>>
    BY <1>10 DEF RunSome, RunTask
  <2>2. phase # "idle"
    BY <1>10 DEF RunSome, PhaseOK
  <2> QED
    BY <2>1, <2>2 DEF SketchOK
<1> QED
  BY <1>2, <1>3, <1>4, <1>5, <1>6, <1>7, <1>8, <1>9, <1>10 DEF Next, Detect


-----------------------------------------------------------------------------
\* What goes for the libraries that were loaded goes for those that still have the header.
LEMMA ChosenStep ==
    ASSUME TypeOK, PhaseOK, FoundOK, MissingOK, ChosenByTheRules, [Next]_vars
    PROVE  ChosenByTheRules'
<1> USE DEF diskVars, boundVars, cacheVars, runnerVars, foundVars, sourceVars, buildVars
<1>0. gone \subseteq gone'
  BY DiskStep
<1>1. ASSUME resolved' = resolved PROVE ChosenByTheRules'
  BY <1>0, <1>1 DEF ChosenByTheRules, HasHeader
<1>2. ASSUME Leave PROVE ChosenByTheRules'
  <2>1. \A h \in Headers : resolved'[h] = None
    BY <1>2, LeaveTypes DEF NoHeader
  <2> QED
    BY <2>1 DEF ChosenByTheRules
<1>3. CASE UNCHANGED vars
  BY <1>1, <1>3 DEF vars
<1>4. CASE \/ \E f \in Files : EditSource(f)
           \/ \E l \in Libs : EditHeader(l)
           \/ BeginBuild \/ RunSome \/ Cancel
  BY <1>1, <1>4 DEF EditSource, EditHeader, Change, BeginBuild, RunSome, RunTask, Cancel
<1>5. CASE \/ Prerun \/ EndPrerun \/ Pop \/ BeginCompile \/ UseCache \/ UseResult \/ Preprocess \/ EndSource
           \/ EndDetection \/ PreprocessSketch
  BY <1>1, <1>5 DEF Prerun, EndPrerun, Pop, BeginCompile, UseCache, UseResult, Preprocess, EndSource, EndDetection, PreprocessSketch
<1>6. CASE CutPreprocess \/ Unresolved \/ EndWrong \/ CutSketch \/ EndBuild
  BY <1>2, <1>6 DEF CutPreprocess, Unresolved, Fail, EndWrong, CutSketch, EndBuild
<1>7. CASE AddLibrary
  <2>1. PICK l \in Libs : Takes(l) /\ l \in alternatives[missing] /\ missing \in Headers
    BY <1>7, AddLibraryTakes
  <2>2. /\ phase = "missing" /\ missing # None /\ l \in Best(alternatives[missing]) /\ gone' = gone
        /\ resolved' = [resolved EXCEPT ![missing] = l]
    BY <2>1 DEF Takes
  <2>3. ASSUME NEW k \in Libs \ Profile, HasHeader(k, missing) PROVE ~Wins(Attr[k], Attr[l])
    <3>1. HeaderOf[k] = missing /\ k \notin ToSet(includes)
      BY <2>2, <2>3 DEF HasHeader, MissingOK, NoneHas
    <3>2. k \in alternatives[missing]
      BY <2>1, <2>2, <2>3, <3>1 DEF FoundOK
    <3>3. ComputePriority(Attr[k]) <= ComputePriority(Attr[l]) /\ Attr[k] \in Library /\ Attr[l] \in Library
      BY <2>2, <3>2 DEF Best
    <3>4. ~(ComputePriority(Attr[k]) > ComputePriority(Attr[l]))
      <4>1. ComputePriority(Attr[k]) \in Int /\ ComputePriority(Attr[l]) \in Int
        BY <3>3, PriorityIsANumber
      <4> QED
        BY <3>3, <4>1
    <3> QED
      BY <3>3, <3>4, PriorityIsTheRules
  <2>4. ASSUME NEW h \in Headers, resolved'[h] # None, NEW k \in Libs \ Profile, HasHeader(k, h)' PROVE ~Wins(Attr[k], Attr[resolved'[h]])
    <3>0. HasHeader(k, h)
      BY <1>0, <2>4 DEF HasHeader
    <3>1. CASE h = missing
      <4>1. resolved'[h] = l
        BY <2>1, <2>2, <3>1 DEF TypeOK
      <4> QED
        BY <2>3, <3>0, <3>1, <4>1
    <3>2. CASE h # missing
      <4>1. resolved'[h] = resolved[h]
        BY <2>2, <3>2 DEF TypeOK
      <4> QED
        BY <2>4, <3>0, <4>1 DEF ChosenByTheRules
    <3> QED
      BY <3>1, <3>2
  <2> QED
    BY <2>4 DEF ChosenByTheRules
<1> QED
  BY <1>3, <1>4, <1>5, <1>6, <1>7 DEF Next, Detect

-----------------------------------------------------------------------------
\* The invariant of the builds, and the theorems that follow from it.
DetectionInv ==
    /\ TypeOK /\ PhaseOK /\ FoundOK /\ CacheIsAPath /\ OnThePath /\ QueueOK /\ MissingOK
    /\ FreshOK /\ TasksOK /\ UsedOK /\ SketchOK /\ ChosenByTheRules

LEMMA DetectorBegins == Init => DetectionInv
<1> SUFFICES ASSUME Init PROVE DetectionInv
  OBVIOUS
<1>1. /\ phase = "idle" /\ entries = <<>> /\ saved = <<>> /\ curr = 0 /\ queued = {} /\ ran = {} /\ queue = <<>>
      /\ includes = <<>> /\ imported = {} /\ staged = {} /\ resolved = NoHeader(None)
      /\ <<>> \in Seq(Entries) /\ <<>> \in Seq(Files) /\ <<>> \in Seq(Libs) /\ IsInjective(<<>>) /\ Len(<<>>) = 0
  BY DEF Init, IsInjective
<1>2. Cache = <<>> /\ Pos = 0 /\ \A i \in 1 .. Len(Cache) : FALSE
  BY <1>1 DEF Cache, Pos
<1>3. TypeOK
  <2>1. content \in [Files -> Seq(Headers)] /\ \A f \in Files : content[f] \in Contents[f]
    BY DEF Init
  <2>2. dep \in [Files -> [is : {"none", "stale", "fresh"}, on : SUBSET Libs]]
    BY DEF Init
  <2>3. alternatives \in [Headers -> SUBSET Libs] /\ resolved \in [Headers -> Libs \cup {None}]
    BY DEF Init, NoHeader
  <2>4. {sound, cancelled, sketchIsUnchanged, preRunner, unchanged} \subseteq BOOLEAN
    BY DEF Init
  <2>5. builds \in 0 .. MaxBuilds /\ edits \in 0 .. MaxEdits /\ curr \in 0 .. Len(entries)
    BY <1>1 DEF Init
  <2>6. queued \cup ran \subseteq Files \X Seq(Libs)
    BY <1>1
  <2> QED
    BY <1>1, <2>1, <2>2, <2>3, <2>4, <2>5, <2>6 DEF Init, TypeOK
<1>4. PhaseOK /\ FoundOK /\ QueueOK /\ UsedOK
  BY <1>1 DEF PhaseOK, FoundOK, QueueOK, UsedOK, AtSource, Detecting
<1>5. CacheIsAPath /\ OnThePath /\ MissingOK
  BY <1>1, <1>2 DEF CacheIsAPath, OnThePath, MissingOK, Detecting
<1>6. FreshOK /\ TasksOK
  BY <1>1, <1>2 DEF FreshOK, TasksOK, Tasks, AtSource
<1>7. SketchOK
  BY <1>1 DEF SketchOK, Init
<1>8. ChosenByTheRules
  BY <1>1 DEF ChosenByTheRules, NoHeader
<1> QED
  BY <1>3, <1>4, <1>5, <1>6, <1>7, <1>8 DEF DetectionInv

\* The inductive invariant: what the cache, the pre-runner's results and the dependency
\* files say agrees with what a detection from nothing would find.
THEOREM DetectionIsSound == Spec => []DetectionInv
<1>1. DetectionInv /\ [Next]_vars => DetectionInv'
  <2> SUFFICES ASSUME DetectionInv, [Next]_vars PROVE DetectionInv'
    OBVIOUS
  <2> USE DEF DetectionInv
  <2>1. TypeOK' /\ PhaseOK' /\ FoundOK'
    BY TypesStep, PhaseStep, FoundStep
  <2>2. CacheIsAPath' /\ OnThePath' /\ QueueOK'
    BY <2>1, PathStep, OnThePathStep, QueueStep
  <2>3. MissingOK' /\ FreshOK' /\ TasksOK' /\ UsedOK'
    BY <2>1, MissingStep, FreshStep, TasksStep, UsedStep
  <2>4. SketchOK' /\ ChosenByTheRules'
    BY SketchStep, ChosenStep
  <2> QED
    BY <2>1, <2>2, <2>3, <2>4
<1> QED
  BY DetectorBegins, <1>1, PTL DEF Spec

\* The types, and that the library taken for a header is the one that the rules name.
THEOREM DetectorIsRight == Spec => []DetectorInv
<1>1. DetectionInv => DetectorInv
  BY DEF DetectionInv, DetectorInv
<1> QED
  BY DetectionIsSound, <1>1, PTL

\* What a detection has found is enough for the sketch and all the libraries.
THEOREM NothingIsMissing == Spec => []NothingMissing
<1>1. DetectionInv => NothingMissing
  <2> SUFFICES ASSUME DetectionInv, phase = "found", NEW f \in imported \cup {Sketch}
               PROVE  FirstMissing(f, includes) = None /\ Used(f, includes) \subseteq imported
    BY DEF NothingMissing
  <2>1. queue = <<>> /\ Detecting /\ ~AtSource
    BY DEF DetectionInv, PhaseOK, Detecting, AtSource
  <2>2. f \in Files /\ ToSet(queue) = {}
    BY <2>1 DEF DetectionInv, TypeOK, ToSet
  <2>3. Processed(f)
    BY <2>1, <2>2 DEF DetectionInv, QueueOK
  <2> QED
    BY <2>1, <2>2, <2>3 DEF DetectionInv, UsedOK
<1> QED
  BY DetectionIsSound, <1>1, PTL

\* The sketch that is compiled is that of the last edit, as long as no build has failed.
THEOREM PreprocessedIsCurrent == Spec => []PreprocessedCurrentIfSound
<1>1. DetectionInv => PreprocessedCurrentIfSound
  BY DEF DetectionInv, SketchOK, PreprocessedCurrentIfSound
<1> QED
  BY DetectionIsSound, <1>1, PTL
=============================================================================
