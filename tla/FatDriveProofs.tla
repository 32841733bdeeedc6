-------------------------- MODULE FatDriveProofs --------------------------
(***************************************************************************)
(* The chains of a FAT image, its handles and their positions.             *)
(*                                                                         *)
(* A chain is a path: its clusters in order, all different. The inductive  *)
(* invariant says that there is one from every first cluster that an entry *)
(* of the directory or a handle has, that two paths with different first   *)
(* clusters do not meet, and that a first cluster is of one file. So a     *)
(* handle whose file was truncated under it, or has got another first      *)
(* cluster, still has a chain of its own. What the calls do with a handle  *)
(* is stated on pairs of a handle and a table, then on the whole state.    *)
(***************************************************************************)
EXTENDS FatDrive, FiniteSetTheorems, TLAPS

-----------------------------------------------------------------------------
(* Least elements, and what follows from them by induction.                *)

\* A set of numbers that is not empty has a least element.
LEMMA LeastExists ==
  ASSUME NEW S \in SUBSET Nat, S # {}
  PROVE  \E x \in S : \A y \in S : x <= y
<1> DEFINE R == {ss \in Nat \X Nat : ss[1] < ss[2]}
<1>1. IsWellFoundedOn(R, Nat)
  BY NatLessThanWellFounded DEF OpToRel
<1> HIDE DEF R
<1>2. PICK x \in S : \A y \in S : ~(<<y, x>> \in R)
  BY <1>1, WFMin, Zenon
<1>3. \A y \in S : ~(y < x)
  BY <1>2 DEF R
<1> QED
  BY <1>3

\* Min takes it.
LEMMA MinIs ==
  ASSUME NEW S \in SUBSET Nat, S # {}
  PROVE  Min(S) \in S /\ \A y \in S : Min(S) <= y
BY LeastExists DEF Min

\* A set of numbers that has 0, and with each number the next one up to n, has
\* all numbers up to n.
LEMMA AllUpTo ==
  ASSUME NEW S, NEW n \in Nat, 0 \in S, \A k \in 1 .. n : k - 1 \in S => k \in S
  PROVE  \A k \in 0 .. n : k \in S
<1> SUFFICES ASSUME NEW a \in 0 .. n, a \notin S
             PROVE  FALSE
  OBVIOUS
<1> DEFINE bad == {k \in 0 .. n : k \notin S}
<1>1. bad \in SUBSET Nat /\ bad # {}
  OBVIOUS
<1> HIDE DEF bad
<1>2. PICK x \in bad : \A y \in bad : x <= y
  BY <1>1, LeastExists
<1>3. x \in 0 .. n /\ x \notin S
  BY <1>2 DEF bad
<1>4. x \in 1 .. n
  BY <1>3
<1>5. x - 1 \notin bad
  <2>1. ~(x <= x - 1)
    BY <1>4
  <2> QED
    BY <1>2, <2>1
<1>6. x - 1 \in S
  BY <1>4, <1>5 DEF bad
<1> QED
  BY <1>3, <1>4, <1>6

-----------------------------------------------------------------------------
(* Chains of the allocation table.                                         *)

LEMMA Limits ==
  /\ MaxClusters \in Nat /\ Eof \in Nat /\ MaxClusters + 1 < Eof
BY DEF MaxClusters, Eof

LEMMA Sizes ==
  /\ CountOfClusters \in Nat \ {0} /\ SectorSize \in Nat \ {0}
  /\ RootEntries \in Nat \ {0} /\ MaxLength \in Nat
<1>1. CountOfClusters \in 1 .. MaxClusters
  BY FatAssumption
<1>2. CountOfClusters \in Nat \ {0}
  BY <1>1, Limits
<1>3. /\ SectorSize \in Nat \ {0} /\ RootEntries \in Nat \ {0}
      /\ MaxLength \in Nat
  BY FatAssumption, Zenon
<1> QED
  BY <1>2, <1>3

Tables == [Sector -> Sector \cup {Eof}]

LEMMA SectorsAre ==
  /\ Cluster \subseteq Nat \ {0, 1} /\ Eof \notin Sector /\ NoSector \notin Sector
  /\ Sector \subseteq Nat /\ 0 \notin Cluster
  /\ IsFiniteSet(Sector) /\ Cardinality(Sector) = CountOfClusters + 1
<1>0. CountOfClusters \in Nat \ {0} /\ CountOfClusters + 1 < Eof /\ Eof \in Nat
  <2>1. CountOfClusters \in 1 .. MaxClusters
    BY FatAssumption
  <2> QED
    BY <2>1, Limits
<1>1. /\ Cluster \subseteq Nat \ {0, 1} /\ Eof \notin Sector /\ NoSector \notin Sector
      /\ Sector \subseteq Nat /\ 0 \notin Cluster
  BY <1>0 DEF Cluster, Sector, NoSector
<1>2. IsFiniteSet(Cluster) /\ Cardinality(Cluster) = CountOfClusters
  BY <1>0, FS_Interval DEF Cluster
<1>3. Sector = Cluster \cup {0}
  BY DEF Sector
<1>4. IsFiniteSet(Sector) /\ Cardinality(Sector) = CountOfClusters + 1
  BY <1>1, <1>2, <1>3, FS_AddElement
<1> QED
  BY <1>1, <1>4

\* The next cluster, or the last one again.
After(f, c) == IF f[c] = Eof THEN c ELSE f[c]

\* at gives the clusters up to n steps after c.
Steps(f, c, n, at) ==
  at = [k \in 0 .. n |-> IF k = 0 THEN c ELSE After(f, at[k - 1])]

LEMMA StepsExist ==
  ASSUME NEW f, NEW c, NEW n \in Nat
  PROVE  \E at : Steps(f, c, n, at)
<1> DEFINE S == {k \in 0 .. n : \E at : Steps(f, c, k, at)}
<1>1. 0 \in S
  <2> DEFINE at == [k \in 0 .. 0 |-> c]
  <2>1. Steps(f, c, 0, at)
    BY DEF Steps
  <2> QED
    BY <2>1
<1>2. ASSUME NEW x \in 1 .. n, x - 1 \in S
      PROVE  x \in S
  <2>1. PICK at : Steps(f, c, x - 1, at)
    BY <1>2
  <2>2. at = [k \in 0 .. x - 1 |-> IF k = 0 THEN c ELSE After(f, at[k - 1])]
    BY <2>1 DEF Steps
  <2> DEFINE g == [k \in 0 .. x |-> IF k = 0 THEN c ELSE After(f, at[k - 1])]
  <2>3. ASSUME NEW k \in 0 .. x - 1
        PROVE  g[k] = at[k]
    <3>1. at[k] = IF k = 0 THEN c ELSE After(f, at[k - 1])
      BY <2>2
    <3>2. k \in 0 .. x
      BY <1>2
    <3> QED
      BY <3>1, <3>2
  <2>4. ASSUME NEW k \in 0 .. x
        PROVE  g[k] = IF k = 0 THEN c ELSE After(f, g[k - 1])
    <3>1. k # 0 => k - 1 \in 0 .. x - 1
      BY <1>2
    <3>2. k # 0 => g[k - 1] = at[k - 1]
      BY <2>3, <3>1
    <3> QED
      BY <3>2
  <2>5. g = [k \in 0 .. x |-> g[k]]
    OBVIOUS
  <2> HIDE DEF g
  <2>6. Steps(f, c, x, g)
    BY <2>4, <2>5, Zenon DEF Steps
  <2> QED
    BY <1>2, <2>6
<1> HIDE DEF S
<1>3. \A k \in 0 .. n : k \in S
  BY <1>1, <1>2, AllUpTo
<1> QED
  BY <1>3 DEF S

LEMMA WalkIs ==
  ASSUME NEW f, NEW c, NEW n \in Nat
  PROVE  \E at : Steps(f, c, n, at) /\ Walk(f, c, n) = at[n]
<1> DEFINE P(at) == at = [k \in 0 .. n |->
                            IF k = 0 THEN c
                            ELSE IF f[at[k - 1]] = Eof THEN at[k - 1] ELSE f[at[k - 1]]]
           walk == CHOOSE at : P(at)
<1>1. Walk(f, c, n) = walk[n]
  BY Zenon DEF Walk
<1>2. \E at : P(at)
  <2>1. PICK at : Steps(f, c, n, at)
    BY StepsExist
  <2>2. P(at)
    BY <2>1, Zenon DEF Steps, After
  <2> QED
    BY <2>2
<1> HIDE DEF P
<1>3. P(walk)
  BY <1>2, Zenon
<1>4. Steps(f, c, n, walk)
  BY <1>3, Zenon DEF P, Steps, After
<1> QED
  BY <1>1, <1>4

\* p is the chain of n clusters from c.
IsPath(f, c, n, p) ==
  /\ n \in Nat \ {0} /\ p \in [0 .. n - 1 -> Sector]
  /\ p[0] = c /\ f[p[n - 1]] = Eof
  /\ \A i, j \in 0 .. n - 1 : p[i] = p[j] => i = j
  /\ \A i \in 0 .. n - 2 : f[p[i]] = p[i + 1]

HasPath(f, c) == \E n, p : IsPath(f, c, n, p)

LEMMA PathSize ==
  ASSUME NEW f, NEW c, NEW n, NEW p, IsPath(f, c, n, p)
  PROVE  n - 1 \in 0 .. CountOfClusters
<1>0. n \in Nat \ {0} /\ CountOfClusters \in Nat
  BY Sizes DEF IsPath
<1>1. Cardinality(0 .. n - 1) = n /\ IsFiniteSet(0 .. n - 1)
  BY <1>0, FS_Interval
<1>2. p \in Injection(0 .. n - 1, Sector)
  BY DEF IsPath, Injection, IsInjective
<1>3. n <= CountOfClusters + 1
  BY <1>1, <1>2, FS_Injection, SectorsAre
<1> QED
  BY <1>0, <1>3

\* What is met on the way along a path.
LEMMA PathWalk ==
  ASSUME NEW f, NEW c, NEW n, NEW p, IsPath(f, c, n, p), NEW k \in Nat
  PROVE  /\ k < n => Walk(f, c, k) = p[k]
         /\ k >= n => Walk(f, c, k) = p[n - 1]
<1>0. n \in Nat \ {0} /\ p \in [0 .. n - 1 -> Sector] /\ p[0] = c /\ f[p[n - 1]] = Eof
  BY DEF IsPath
<1>1. PICK at : Steps(f, c, k, at) /\ Walk(f, c, k) = at[k]
  BY WalkIs
<1>2. at = [i \in 0 .. k |-> IF i = 0 THEN c ELSE After(f, at[i - 1])]
  BY <1>1 DEF Steps
<1>3. \A i \in 0 .. k : at[i] = IF i = 0 THEN c ELSE After(f, at[i - 1])
  BY <1>2
<1> DEFINE S == {i \in 0 .. k : IF i < n THEN at[i] = p[i] ELSE at[i] = p[n - 1]}
<1>4. 0 \in S
  BY <1>0, <1>3
<1>5. ASSUME NEW i \in 1 .. k, i - 1 \in S
      PROVE  i \in S
  <2>0. at[i] = After(f, at[i - 1])
    BY <1>3
  <2>1. CASE i < n
    <3>1. at[i - 1] = p[i - 1] /\ i - 1 \in 0 .. n - 2 /\ i \in 0 .. n - 1
      BY <1>0, <1>5, <2>1
    <3>2. f[p[i - 1]] = p[(i - 1) + 1]
      BY <3>1 DEF IsPath
    <3>3. f[p[i - 1]] = p[i] /\ p[i] \in Sector
      BY <1>0, <3>1, <3>2
    <3> QED
      BY <2>0, <2>1, <3>1, <3>3, SectorsAre DEF After
  <2>2. CASE ~(i < n)
    <3>1. at[i - 1] = p[n - 1]
      BY <1>0, <1>5, <2>2
    <3> QED
      BY <1>0, <2>0, <2>2, <3>1 DEF After
  <2> QED
    BY <2>1, <2>2
<1> HIDE DEF S
<1>6. k \in S
  BY <1>4, <1>5, AllUpTo
<1> QED
  BY <1>0, <1>1, <1>6 DEF S

\* The loops give the clusters of the path.
LEMMA PathIs ==
  ASSUME NEW f, NEW c, NEW n, NEW p, IsPath(f, c, n, p)
  PROVE  /\ LastOf(f, c) = p[n - 1]
         /\ Chain(f, c) = {p[i] : i \in 0 .. n - 1}
         /\ \A k \in Nat : Further(f, c, k) = IF k < n THEN p[k] ELSE NoSector
<1>0. n \in Nat \ {0} /\ p \in [0 .. n - 1 -> Sector] /\ f[p[n - 1]] = Eof
  BY DEF IsPath
<1>1. n - 1 \in 0 .. CountOfClusters /\ CountOfClusters \in Nat
  BY PathSize, Sizes
<1>2. \A k \in Nat : (k < n => Walk(f, c, k) = p[k]) /\ (k >= n => Walk(f, c, k) = p[n - 1])
  BY PathWalk
<1>3. LastOf(f, c) = p[n - 1]
  BY <1>0, <1>1, <1>2 DEF LastOf
<1>4. ASSUME NEW d
      PROVE  d \in Chain(f, c) <=> d \in {p[i] : i \in 0 .. n - 1}
  <2>1. ASSUME d \in Chain(f, c)
        PROVE  \E i \in 0 .. n - 1 : d = p[i]
    <3>1. PICK k \in 0 .. CountOfClusters : d = Walk(f, c, k)
      BY <2>1 DEF Chain
    <3>2. CASE k < n
      <4>1. k \in 0 .. n - 1 /\ k \in Nat
        BY <1>0, <1>1, <3>2
      <4> QED
        BY <1>2, <3>1, <3>2, <4>1
    <3>3. CASE ~(k < n)
      <4>1. n - 1 \in 0 .. n - 1 /\ k >= n /\ k \in Nat
        BY <1>0, <1>1, <3>3
      <4> QED
        BY <1>2, <3>1, <4>1
    <3> QED
      BY <3>2, <3>3
  <2>2. ASSUME NEW i \in 0 .. n - 1, d = p[i]
        PROVE  d \in Chain(f, c)
    <3>1. i \in 0 .. CountOfClusters /\ i \in Nat /\ i < n
      BY <1>0, <1>1
    <3> QED
      BY <1>2, <2>2, <3>1 DEF Chain
  <2> QED
    BY <2>1, <2>2
<1>5. ASSUME NEW k \in Nat
      PROVE  Further(f, c, k) = IF k < n THEN p[k] ELSE NoSector
  <2>1. CASE k < n
    <3>1. k > 0 => k - 1 \in Nat /\ k - 1 < n /\ k - 1 \in 0 .. n - 2 /\ k \in 0 .. n - 1
      BY <1>0, <2>1
    <3>2. k > 0 => Walk(f, c, k - 1) = p[k - 1] /\ f[p[k - 1]] = p[(k - 1) + 1]
      BY <1>2, <3>1 DEF IsPath
    <3>3. k > 0 => f[Walk(f, c, k - 1)] = p[k] /\ p[k] \in Sector
      BY <1>0, <3>1, <3>2
    <3> QED
      BY <1>2, <2>1, <3>3, SectorsAre DEF Further
  <2>2. CASE ~(k < n)
    <3>1. k > 0 /\ k - 1 \in Nat /\ (k - 1 < n => k - 1 = n - 1) /\ (~(k - 1 < n) => k - 1 >= n)
      BY <1>0, <2>2
    <3>2. Walk(f, c, k - 1) = p[n - 1]
      BY <1>2, <3>1
    <3> QED
      BY <1>0, <2>2, <3>1, <3>2 DEF Further
  <2> QED
    BY <2>1, <2>2
<1> QED
  BY <1>3, <1>4, <1>5

-----------------------------------------------------------------------------
(* Tables in which the chains from the clusters of H end and are apart. 0,  *)
(* which stands for no cluster, is one of them: its chain is 0 alone, and  *)
(* that no other one meets it means that no chain runs into a free cluster. *)

Sound(f, H) ==
  /\ f \in Tables /\ f[0] = Eof
  /\ 0 \in H /\ H \subseteq Sector
  /\ \A c \in H : HasPath(f, c)
  /\ \A c, d \in H : c # d => Chain(f, c) \cap Chain(f, d) = {}

\* What is known of a chain of such a table.
LEMMA ChainIs ==
  ASSUME NEW f, NEW H, Sound(f, H), NEW c \in H
  PROVE  /\ c \in Chain(f, c) /\ Chain(f, c) \subseteq Sector
         /\ LastOf(f, c) \in Chain(f, c) /\ f[LastOf(f, c)] = Eof
         /\ \A k \in Nat : Further(f, c, k) \in Chain(f, c) \cup {NoSector}
         /\ Further(f, c, 0) = c
<1>1. PICK n, p : IsPath(f, c, n, p)
  BY DEF Sound, HasPath
<1>2. /\ LastOf(f, c) = p[n - 1]
      /\ Chain(f, c) = {p[i] : i \in 0 .. n - 1}
      /\ \A k \in Nat : Further(f, c, k) = IF k < n THEN p[k] ELSE NoSector
  BY <1>1, PathIs
<1>3. /\ n \in Nat \ {0} /\ p \in [0 .. n - 1 -> Sector]
      /\ p[0] = c /\ f[p[n - 1]] = Eof
  BY <1>1 DEF IsPath
<1>4. 0 \in 0 .. n - 1 /\ n - 1 \in 0 .. n - 1 /\ 0 < n
  BY <1>3
<1>5. ASSUME NEW k \in Nat
      PROVE  Further(f, c, k) \in Chain(f, c) \cup {NoSector}
  <2>1. k < n => k \in 0 .. n - 1
    BY <1>3
  <2> QED
    BY <1>2, <2>1
<1> QED
  BY <1>2, <1>3, <1>4, <1>5

\* The chain of 0, and what the others keep away from.
LEMMA ChainOfNone ==
  ASSUME NEW f, NEW H, Sound(f, H)
  PROVE  Chain(f, 0) = {0} /\ LastOf(f, 0) = 0
<1>1. PICK n, p : IsPath(f, 0, n, p)
  BY DEF Sound, HasPath
<1>2. /\ LastOf(f, 0) = p[n - 1]
      /\ Chain(f, 0) = {p[i] : i \in 0 .. n - 1}
  BY <1>1, PathIs
<1>3. /\ n \in Nat \ {0} /\ p \in [0 .. n - 1 -> Sector] /\ p[0] = 0
      /\ \A i \in 0 .. n - 2 : f[p[i]] = p[i + 1]
  BY <1>1 DEF IsPath
<1>4. n = 1
  <2>1. ASSUME n # 1
        PROVE  FALSE
    <3>1. 0 \in 0 .. n - 2 /\ 0 + 1 \in 0 .. n - 1
      BY <1>3, <2>1
    <3>2. f[0] = p[0 + 1] /\ p[0 + 1] \in Sector
      BY <1>3, <3>1
    <3> QED
      BY <3>2, SectorsAre DEF Sound
  <2> QED
    BY <2>1
<1>5. 0 .. n - 1 = {0} /\ n - 1 = 0
  BY <1>4
<1> QED
  BY <1>2, <1>3, <1>5

LEMMA ChainUsed ==
  ASSUME NEW f, NEW H, Sound(f, H), NEW c \in H, NEW d \in Chain(f, c)
  PROVE  f[d] # 0 /\ (c # 0 => d # 0)
<1>1. PICK n, p : IsPath(f, c, n, p)
  BY DEF Sound, HasPath
<1>2. Chain(f, c) = {p[i] : i \in 0 .. n - 1}
  BY <1>1, PathIs
<1>3. /\ n \in Nat \ {0} /\ p \in [0 .. n - 1 -> Sector] /\ f[p[n - 1]] = Eof
      /\ \A i \in 0 .. n - 2 : f[p[i]] = p[i + 1]
  BY <1>1 DEF IsPath
<1>4. c # 0 => 0 \notin Chain(f, c)
  BY ChainOfNone DEF Sound
<1>5. f[d] # 0
  <2>1. PICK i \in 0 .. n - 1 : d = p[i]
    BY <1>2
  <2>2. Eof # 0
    BY DEF Eof
  <2>3. CASE c = 0
    <3>1. Chain(f, 0) = {0} /\ f[0] = Eof
      BY ChainOfNone DEF Sound
    <3>2. d = 0
      BY <2>3, <3>1
    <3> QED
      BY <2>2, <3>1, <3>2
  <2>4. CASE c # 0 /\ i = n - 1
    BY <1>3, <2>1, <2>2, <2>4
  <2>5. CASE c # 0 /\ i # n - 1
    <3>1. i \in 0 .. n - 2 /\ i + 1 \in 0 .. n - 1
      BY <1>3, <2>5
    <3>2. f[d] = p[i + 1] /\ p[i + 1] \in Chain(f, c)
      BY <1>2, <1>3, <2>1, <3>1
    <3> QED
      BY <1>4, <2>5, <3>2
  <2> QED
    BY <2>3, <2>4, <2>5
<1> QED
  BY <1>4, <1>5

-----------------------------------------------------------------------------
(* What a change of the table leaves of a chain.                           *)

\* The chain of c is the same in both tables.
Same(f, g, c) ==
  /\ HasPath(g, c)
  /\ Chain(g, c) = Chain(f, c)
  /\ \A k \in Nat : Further(g, c, k) = Further(f, c, k)

LEMMA ChainKept ==
  ASSUME NEW f, NEW g, NEW c, HasPath(f, c), \A d \in Chain(f, c) : g[d] = f[d]
  PROVE  Same(f, g, c)
<1>1. PICK n, p : IsPath(f, c, n, p)
  BY DEF HasPath
<1>2. /\ Chain(f, c) = {p[i] : i \in 0 .. n - 1}
      /\ \A k \in Nat : Further(f, c, k) = IF k < n THEN p[k] ELSE NoSector
  BY <1>1, PathIs
<1>3. \A i \in 0 .. n - 1 : g[p[i]] = f[p[i]]
  BY <1>2
<1>4. IsPath(g, c, n, p)
  <2>1. n \in Nat \ {0} => n - 1 \in 0 .. n - 1 /\ \A i \in 0 .. n - 2 : i \in 0 .. n - 1
    OBVIOUS
  <2> QED
    BY <1>1, <1>3, <2>1 DEF IsPath
<1>5. /\ Chain(g, c) = {p[i] : i \in 0 .. n - 1}
      /\ \A k \in Nat : Further(g, c, k) = IF k < n THEN p[k] ELSE NoSector
  BY <1>4, PathIs
<1>6. HasPath(g, c)
  BY <1>4 DEF HasPath
<1>7. Chain(g, c) = Chain(f, c)
  BY <1>2, <1>5
<1>8. \A k \in Nat : Further(g, c, k) = Further(f, c, k)
  BY <1>2, <1>5
<1> QED
  BY <1>6, <1>7, <1>8 DEF Same

\* The chains of g begin with those of f.
Extends(f, g, H) ==
  \A c \in H : /\ Chain(f, c) \subseteq Chain(g, c)
               /\ \A k \in Nat : Further(f, c, k) # NoSector =>
                                   Further(g, c, k) = Further(f, c, k)

LEMMA ExtendsIfSame ==
  ASSUME NEW f, NEW g, NEW H, \A c \in H : Same(f, g, c)
  PROVE  Extends(f, g, H)
BY DEF Same, Extends

LEMMA ExtendsTwice ==
  ASSUME NEW f, NEW g, NEW h, NEW H, NEW J, Extends(f, g, H), Extends(g, h, J), H \subseteq J
  PROVE  Extends(f, h, H)
<1> SUFFICES ASSUME NEW c \in H
             PROVE  /\ Chain(f, c) \subseteq Chain(h, c)
                    /\ \A k \in Nat : Further(f, c, k) # NoSector =>
                                        Further(h, c, k) = Further(f, c, k)
  BY DEF Extends
<1>1. /\ Chain(f, c) \subseteq Chain(g, c)
      /\ \A k \in Nat : Further(f, c, k) # NoSector => Further(g, c, k) = Further(f, c, k)
  BY DEF Extends
<1>2. /\ Chain(g, c) \subseteq Chain(h, c)
      /\ \A k \in Nat : Further(g, c, k) # NoSector => Further(h, c, k) = Further(g, c, k)
  BY DEF Extends
<1> QED
  BY <1>1, <1>2

LEMMA SoundOfFewer ==
  ASSUME NEW f, NEW H, NEW J, Sound(f, H), J \subseteq H, 0 \in J
  PROVE  Sound(f, J)
BY DEF Sound

LEMMA ExtendsOfFewer ==
  ASSUME NEW f, NEW g, NEW H, NEW J, Extends(f, g, H), J \subseteq H
  PROVE  Extends(f, g, J)
BY DEF Extends

-----------------------------------------------------------------------------
(* What the three functions of the allocation table do.                    *)

LEMMA FirstFreeIs ==
  ASSUME NEW f \in Tables
  PROVE  /\ FirstFree(f) \in Sector
         /\ FirstFree(f) # 0 => FirstFree(f) \in Cluster /\ f[FirstFree(f)] = 0
<1> DEFINE free == {c \in Cluster : f[c] = 0}
<1>1. FirstFree(f) = IF free # {} THEN Min(free) ELSE 0
  BY DEF FirstFree
<1>2. free \in SUBSET Nat
  BY SectorsAre
<1>3. free # {} => Min(free) \in free
  BY <1>2, MinIs
<1>4. 0 \in Sector /\ Cluster \subseteq Sector
  BY DEF Sector
<1> QED
  BY <1>1, <1>3, <1>4

\* A free cluster begins a chain of its own.
LEMMA ChainBegun ==
  ASSUME NEW f, NEW H, Sound(f, H), NEW x \in Cluster, f[x] = 0,
         NEW g \in Tables, g[x] = Eof, \A d \in Sector \ {x} : g[d] = f[d]
  PROVE  /\ Sound(g, H \cup {x}) /\ Extends(f, g, H)
         /\ x \notin H
<1>0. x \in Sector /\ x # 0 /\ 0 \in H /\ H \subseteq Sector /\ 0 \in Sector
  BY SectorsAre DEF Sound, Sector
<1>1. ASSUME NEW c \in H
      PROVE  x \notin Chain(f, c) /\ Same(f, g, c)
  <2>1. x \notin Chain(f, c)
    BY ChainUsed
  <2>2. Chain(f, c) \subseteq Sector
    BY ChainIs
  <2>3. HasPath(f, c)
    BY DEF Sound
  <2>4. \A d \in Chain(f, c) : g[d] = f[d]
    BY <2>1, <2>2
  <2> QED
    BY <2>1, <2>3, <2>4, ChainKept
<1>2. Chain(g, x) = {x} /\ HasPath(g, x)
  <2> DEFINE p == [i \in 0 .. 0 |-> x]
  <2>1. IsPath(g, x, 1, p)
    <3>1. 1 - 1 = 0 /\ 0 .. 0 = {0} /\ 0 .. 1 - 2 = {}
      OBVIOUS
    <3> QED
      BY <1>0, <3>1 DEF IsPath
  <2>2. Chain(g, x) = {p[i] : i \in 0 .. 1 - 1}
    BY <2>1, PathIs
  <2>3. 0 .. 1 - 1 = {0} /\ p[0] = x
    OBVIOUS
  <2> QED
    BY <2>1, <2>2, <2>3 DEF HasPath
<1>3. x \notin H
  BY <1>1, ChainIs
<1>4. \A c \in H \cup {x} : HasPath(g, c)
  BY <1>1, <1>2 DEF Same
<1>5. ASSUME NEW c \in H \cup {x}, NEW d \in H \cup {x}, c # d
      PROVE  Chain(g, c) \cap Chain(g, d) = {}
  <2>1. \A e \in H : Chain(g, e) = Chain(f, e) /\ x \notin Chain(f, e)
    BY <1>1 DEF Same
  <2>2. CASE c \in H /\ d \in H
    BY <1>5, <2>1, <2>2 DEF Sound
  <2>3. CASE c = x \/ d = x
    BY <1>2, <1>5, <2>1, <2>3
  <2> QED
    BY <2>2, <2>3
<1>6. g[0] = Eof
  BY <1>0 DEF Sound
<1>7. Sound(g, H \cup {x})
  BY <1>0, <1>4, <1>5, <1>6 DEF Sound
<1>8. Extends(f, g, H)
  BY <1>1, ExtendsIfSame
<1> QED
  BY <1>3, <1>7, <1>8

\* A free cluster is put after the last one of a chain.
LEMMA ChainLengthened ==
  ASSUME NEW f, NEW H, Sound(f, H), NEW c \in H, c # 0, NEW x \in Cluster, f[x] = 0,
         NEW g \in Tables, g[x] = Eof, g[LastOf(f, c)] = x,
         \A d \in Sector \ {x, LastOf(f, c)} : g[d] = f[d]
  PROVE  Sound(g, H) /\ Extends(f, g, H)
<1>0. x \in Sector /\ x # 0 /\ 0 \in H /\ H \subseteq Sector /\ 0 \in Sector
  BY SectorsAre DEF Sound, Sector
<1>1. PICK n, p : IsPath(f, c, n, p)
  BY DEF Sound, HasPath
<1>2. /\ LastOf(f, c) = p[n - 1]
      /\ Chain(f, c) = {p[i] : i \in 0 .. n - 1}
      /\ \A k \in Nat : Further(f, c, k) = IF k < n THEN p[k] ELSE NoSector
  BY <1>1, PathIs
<1>3. /\ n \in Nat \ {0} /\ p \in [0 .. n - 1 -> Sector]
      /\ p[0] = c /\ f[p[n - 1]] = Eof
      /\ \A i, j \in 0 .. n - 1 : p[i] = p[j] => i = j
      /\ \A i \in 0 .. n - 2 : f[p[i]] = p[i + 1]
  BY <1>1 DEF IsPath
<1>4. \A e \in H : x \notin Chain(f, e) /\ Chain(f, e) \subseteq Sector /\ HasPath(f, e)
  BY ChainIs, ChainUsed DEF Sound
<1>5. LastOf(f, c) \in Chain(f, c)
  BY ChainIs
<1>6. ASSUME NEW e \in H \ {c}
      PROVE  Same(f, g, e)
  <2>1. LastOf(f, c) \notin Chain(f, e)
    BY <1>5 DEF Sound
  <2>2. \A d \in Chain(f, e) : g[d] = f[d]
    BY <1>4, <2>1
  <2> QED
    BY <1>4, <2>2, ChainKept
<1> DEFINE q == [i \in 0 .. n |-> IF i = n THEN x ELSE p[i]]
<1>7. \A i \in 0 .. n - 1 : i \in 0 .. n /\ q[i] = p[i] /\ p[i] \in Chain(f, c) /\ p[i] # x /\ p[i] \in Sector
  <2>1. \A i \in 0 .. n - 1 : i \in 0 .. n /\ i # n
    BY <1>3
  <2>2. \A i \in 0 .. n - 1 : q[i] = p[i]
    BY <2>1
  <2>3. \A i \in 0 .. n - 1 : p[i] \in Chain(f, c)
    BY <1>2
  <2> QED
    BY <1>3, <1>4, <2>1, <2>2, <2>3
<1>8. n \in 0 .. n /\ q[n] = x
  BY <1>3
<1>9. IsPath(g, c, n + 1, q)
  <2>1. n + 1 \in Nat \ {0} /\ (n + 1) - 1 = n /\ (n + 1) - 2 = n - 1
    BY <1>3
  <2>2. q \in [0 .. n -> Sector]
    <3>1. \A i \in 0 .. n : i = n \/ i \in 0 .. n - 1
      BY <1>3
    <3>2. \A i \in 0 .. n : q[i] \in Sector
      BY <1>0, <1>7, <1>8, <3>1
    <3>3. q = [i \in 0 .. n |-> q[i]]
      OBVIOUS
    <3> HIDE DEF q
    <3> QED
      BY <3>2, <3>3
  <2>3. q[0] = c
    BY <1>3, <1>7
  <2>4. g[q[n]] = Eof
    BY <1>8
  <2>5. ASSUME NEW i \in 0 .. n, NEW j \in 0 .. n, q[i] = q[j]
        PROVE  i = j
    <3>1. i = n \/ i \in 0 .. n - 1
      BY <1>3
    <3>2. j = n \/ j \in 0 .. n - 1
      BY <1>3
    <3> HIDE DEF q
    <3> QED
      BY <1>3, <1>7, <1>8, <2>5, <3>1, <3>2
  <2>6. ASSUME NEW i \in 0 .. n - 1
        PROVE  g[q[i]] = q[i + 1]
    <3>1. CASE i = n - 1
      <4>1. q[i] = LastOf(f, c) /\ i + 1 = n
        BY <1>2, <1>3, <1>7, <3>1
      <4> QED
        BY <1>8, <4>1
    <3>2. CASE i # n - 1
      <4>1. i \in 0 .. n - 2 /\ i + 1 \in 0 .. n - 1 /\ n - 1 \in 0 .. n - 1
        BY <1>3, <3>2
      <4>2. p[i] # p[n - 1]
        BY <1>3, <3>2, <4>1
      <4>3. p[i] # x /\ p[i] # LastOf(f, c) /\ p[i] \in Sector
        BY <1>2, <1>7, <4>2
      <4>4. g[p[i]] = f[p[i]] /\ f[p[i]] = p[i + 1]
        BY <1>3, <4>1, <4>3
      <4> QED
        BY <1>7, <4>1, <4>4
    <3> QED
      BY <3>1, <3>2
  <2> HIDE DEF q
  <2> QED
    BY <2>1, <2>2, <2>3, <2>4, <2>5, <2>6 DEF IsPath
<1> HIDE DEF q
<1>10. /\ Chain(g, c) = {q[i] : i \in 0 .. (n + 1) - 1}
       /\ \A k \in Nat : Further(g, c, k) = IF k < n + 1 THEN q[k] ELSE NoSector
  BY <1>9, PathIs
<1>11. Chain(g, c) = Chain(f, c) \cup {x}
  <2>0. (n + 1) - 1 = n
    BY <1>3
  <2>1. ASSUME NEW d \in Chain(g, c)
        PROVE  d \in Chain(f, c) \cup {x}
    <3>1. PICK i \in 0 .. n : d = q[i]
      BY <1>10, <2>0
    <3>2. i = n \/ i \in 0 .. n - 1
      BY <1>3
    <3> QED
      BY <1>7, <1>8, <3>1, <3>2
  <2>2. ASSUME NEW d \in Chain(f, c) \cup {x}
        PROVE  d \in Chain(g, c)
    <3>1. CASE d = x
      BY <1>8, <1>10, <2>0, <3>1
    <3>2. CASE d \in Chain(f, c)
      <4>1. PICK i \in 0 .. n - 1 : d = p[i]
        BY <1>2, <3>2
      <4>2. i \in 0 .. n /\ d = q[i]
        BY <1>7, <4>1
      <4> QED
        BY <1>10, <2>0, <4>2
    <3> QED
      BY <2>2, <3>1, <3>2
  <2> QED
    BY <2>1, <2>2
<1>12. ASSUME NEW k \in Nat, Further(f, c, k) # NoSector
       PROVE  Further(g, c, k) = Further(f, c, k)
  <2>1. k < n /\ Further(f, c, k) = p[k]
    BY <1>2, <1>12
  <2>2. k \in 0 .. n - 1 /\ k < n + 1
    BY <1>3, <2>1
  <2> QED
    BY <1>7, <1>10, <2>1, <2>2
<1>13. \A e \in H : HasPath(g, e)
  BY <1>6, <1>9 DEF Same, HasPath
<1>14. ASSUME NEW d \in H, NEW e \in H, d # e
       PROVE  Chain(g, d) \cap Chain(g, e) = {}
  <2>1. \A b \in H \ {c} : Chain(g, b) = Chain(f, b) /\ x \notin Chain(f, b)
    BY <1>4, <1>6 DEF Same
  <2>2. Chain(f, d) \cap Chain(f, e) = {}
    BY <1>14 DEF Sound
  <2>3. CASE d # c /\ e # c
    BY <2>1, <2>2, <2>3
  <2>4. CASE d = c
    BY <1>11, <1>14, <2>1, <2>2, <2>4
  <2>5. CASE e = c
    BY <1>11, <1>14, <2>1, <2>2, <2>5
  <2> QED
    BY <2>3, <2>4, <2>5
<1>15. g[0] = Eof
  <2>1. LastOf(f, c) # 0
    BY <1>5, ChainUsed
  <2> QED
    BY <1>0, <2>1 DEF Sound
<1>16. Sound(g, H)
  BY <1>0, <1>13, <1>14, <1>15 DEF Sound
<1>17. Extends(f, g, H)
  BY <1>6, <1>11, <1>12 DEF Extends, Same
<1> QED
  BY <1>16, <1>17

\* The clusters of a chain are freed.
LEMMA ChainDeleted ==
  ASSUME NEW f, NEW H, Sound(f, H), NEW c \in H, c # 0
  PROVE  /\ Sound(Deleted(f, c), H \ {c})
         /\ Extends(f, Deleted(f, c), H \ {c})
<1> DEFINE g == Deleted(f, c)
<1>0. f \in Tables /\ 0 \in H /\ H \subseteq Sector
  BY DEF Sound
<1>1. g = [d \in Sector |-> IF d # 0 /\ d \in Chain(f, c) THEN 0 ELSE f[d]]
  BY DEF Deleted
<1> HIDE DEF g
<1>2. g \in Tables
  BY <1>0, <1>1 DEF Tables, Sector
<1>3. \A d \in Sector : d \notin Chain(f, c) => g[d] = f[d]
  BY <1>1
<1>4. ASSUME NEW e \in H \ {c}
      PROVE  Same(f, g, e)
  <2>1. Chain(f, e) \subseteq Sector /\ HasPath(f, e)
    BY ChainIs DEF Sound
  <2>2. Chain(f, e) \cap Chain(f, c) = {}
    BY DEF Sound
  <2>3. \A d \in Chain(f, e) : g[d] = f[d]
    BY <1>3, <2>1, <2>2
  <2> QED
    BY <2>1, <2>3, ChainKept
<1>5. g[0] = Eof
  <2>1. 0 \notin Chain(f, c)
    BY ChainUsed
  <2> QED
    BY <1>0, <1>3, <2>1 DEF Sound
<1>6. \A e \in H \ {c} : HasPath(g, e) /\ Chain(g, e) = Chain(f, e)
  BY <1>4 DEF Same
<1>7. Sound(g, H \ {c})
  BY <1>0, <1>2, <1>5, <1>6 DEF Sound
<1>8. Extends(f, g, H \ {c})
  BY <1>4, ExtendsIfSame
<1> QED
  BY <1>7, <1>8 DEF g

-----------------------------------------------------------------------------
(* Positions and their sectors.                                            *)

LEMMA DivisionIs ==
  ASSUME NEW m \in Nat, NEW n \in Nat \ {0}
  PROVE  m \div n \in Nat /\ m % n \in 0 .. n - 1 /\ m = n * (m \div n) + (m % n)
<1>1. m \div n \in Nat /\ m % n \in 0 .. n - 1
  OBVIOUS
<1>2. m = n * (m \div n) + (m % n)
  OBVIOUS
<1> QED
  BY <1>1, <1>2

LEMMA NextMultiple ==
  ASSUME NEW a \in Nat, NEW b \in Nat, NEW n \in Nat, a > b
  PROVE  n * a >= n * b + n
<1>1. a >= b + 1
  OBVIOUS
<1>2. n * a = n * (b + 1) + n * (a - (b + 1))
  OBVIOUS
<1>3. n * (a - (b + 1)) \in Nat
  OBVIOUS
<1> QED
  BY <1>2, <1>3

\* A number is divided in one way only.
LEMMA DivisionUnique ==
  ASSUME NEW n \in Nat \ {0}, NEW a \in Nat, NEW q \in Nat,
         NEW b \in 0 .. n - 1, NEW r \in 0 .. n - 1, n * a + b = n * q + r
  PROVE  a = q /\ b = r
<1>1. ~(a > q)
  <2>1. SUFFICES ASSUME a > q
                 PROVE  FALSE
    OBVIOUS
  <2>2. n * a >= n * q + n
    BY <2>1, NextMultiple
  <2> DEFINE x == n * a
             y == n * q
  <2>3. x \in Nat /\ y \in Nat /\ x >= y + n /\ x + b = y + r
    BY <2>2
  <2> HIDE DEF x, y
  <2> QED
    BY <2>3
<1>2. ~(q > a)
  <2>1. SUFFICES ASSUME q > a
                 PROVE  FALSE
    OBVIOUS
  <2>2. n * q >= n * a + n
    BY <2>1, NextMultiple
  <2> DEFINE x == n * a
             y == n * q
  <2>3. x \in Nat /\ y \in Nat /\ y >= x + n /\ x + b = y + r
    BY <2>2
  <2> HIDE DEF x, y
  <2> QED
    BY <2>3
<1>3. a = q
  BY <1>1, <1>2
<1> QED
  BY <1>3

LEMMA Division ==
  ASSUME NEW m \in Nat, NEW n \in Nat \ {0}
  PROVE  /\ m \div n \in Nat /\ m % n \in 0 .. n - 1
         /\ (m % n) + 1 < n => (m + 1) % n = (m % n) + 1 /\ (m + 1) \div n = m \div n
         /\ (m % n) + 1 >= n => (m + 1) % n = 0
<1> DEFINE q == m \div n
           r == m % n
           a == (m + 1) \div n
           b == (m + 1) % n
<1>1. q \in Nat /\ r \in 0 .. n - 1 /\ m = n * q + r
  BY DivisionIs
<1>2. a \in Nat /\ b \in 0 .. n - 1 /\ m + 1 = n * a + b
  <2>1. m + 1 \in Nat
    OBVIOUS
  <2> QED
    BY <2>1, DivisionIs
<1> HIDE DEF q, r, a, b
<1>3. CASE r + 1 < n
  <2>1. r + 1 \in 0 .. n - 1 /\ n * a + b = n * q + (r + 1)
    BY <1>1, <1>2, <1>3
  <2>2. a = q /\ b = r + 1
    BY <1>1, <1>2, <2>1, DivisionUnique
  <2> QED
    BY <1>1, <1>3, <2>2 DEF q, r, a, b
<1>4. CASE r + 1 >= n
  <2>1. r + 1 = n
    BY <1>1, <1>4
  <2>2. q + 1 \in Nat /\ 0 \in 0 .. n - 1 /\ n * a + b = n * (q + 1) + 0
    BY <1>1, <1>2, <2>1
  <2>3. b = 0
    BY <1>1, <1>2, <2>2, DivisionUnique
  <2> QED
    BY <1>1, <1>4, <2>3 DEF q, r, a, b
<1> QED
  BY <1>1, <1>3, <1>4 DEF q, r, a, b

LEMMA DivisionKeepsOrder ==
  ASSUME NEW m \in Nat, NEW k \in Nat, k <= m, NEW n \in Nat \ {0}
  PROVE  k \div n <= m \div n
BY Z3

LEMMA SectorAtIs ==
  ASSUME NEW f, NEW H, Sound(f, H), NEW c \in H, NEW pos \in Nat
  PROVE  /\ SectorAt(f, c, pos) \in Chain(f, c) \cup {NoSector}
         /\ SectorAt(f, c, pos) \in Sector \cup {NoSector}
<1>1. pos \div SectorSize \in Nat
  BY Sizes, Division
<1> QED
  BY <1>1, ChainIs DEF SectorAt

\* A chain that has a sector for a byte has one for those before.
LEMMA SectorBefore ==
  ASSUME NEW f, NEW H, Sound(f, H), NEW c \in H, NEW pos \in Nat, NEW before \in Nat,
         before <= pos, SectorAt(f, c, pos) # NoSector
  PROVE  SectorAt(f, c, before) # NoSector
<1> DEFINE k == pos \div SectorSize
           j == before \div SectorSize
<1>1. k \in Nat /\ j \in Nat /\ j <= k
  BY Sizes, Division, DivisionKeepsOrder
<1>2. SectorAt(f, c, pos) = Further(f, c, k) /\ SectorAt(f, c, before) = Further(f, c, j)
  BY DEF SectorAt
<1> HIDE DEF k, j
<1>3. PICK n, p : IsPath(f, c, n, p)
  BY DEF Sound, HasPath
<1>4. \A i \in Nat : Further(f, c, i) = IF i < n THEN p[i] ELSE NoSector
  BY <1>3, PathIs
<1>5. n \in Nat \ {0} /\ p \in [0 .. n - 1 -> Sector]
  BY <1>3 DEF IsPath
<1>6. k < n
  BY <1>1, <1>2, <1>4
<1>7. j < n /\ j \in 0 .. n - 1
  BY <1>1, <1>5, <1>6
<1> QED
  BY <1>1, <1>2, <1>4, <1>5, <1>7, SectorsAre

LEMMA SectorKept ==
  ASSUME NEW f, NEW g, NEW H, Extends(f, g, H), NEW c \in H, NEW pos \in Nat,
         SectorAt(f, c, pos) # NoSector
  PROVE  SectorAt(g, c, pos) = SectorAt(f, c, pos)
<1>1. pos \div SectorSize \in Nat
  BY Sizes, Division
<1> QED
  BY <1>1 DEF SectorAt, Extends

\* The bytes of a sector have the same one.
LEMMA SectorOfNext ==
  ASSUME NEW f, NEW c, NEW pos \in Nat, (pos % SectorSize) + 1 < SectorSize
  PROVE  SectorAt(f, c, pos + 1) = SectorAt(f, c, pos)
<1>1. (pos + 1) \div SectorSize = pos \div SectorSize
  BY Sizes, Division
<1> QED
  BY <1>1 DEF SectorAt

LEMMA FirstSector ==
  ASSUME NEW f, NEW H, Sound(f, H), NEW c \in H
  PROVE  SectorAt(f, c, 0) = c /\ 0 % SectorSize = 0
<1>1. 0 \div SectorSize = 0 /\ 0 % SectorSize = 0
  BY Sizes
<1> QED
  BY <1>1, ChainIs DEF SectorAt

-----------------------------------------------------------------------------
(* Records of a handle and the table, field by field.                      *)

Pairs == [r : OpenFile, f : Tables]

\* What a handle is for stays.
SameFile(q, r) == q.name = r.name /\ q.writes = r.writes /\ q.dirIndex = r.dirIndex

LEMMA FieldsAre ==
  ASSUME NEW s \in Pairs
  PROVE  /\ s.f \in Tables /\ s.r \in OpenFile
         /\ s.r.firstCluster \in Sector
         /\ s.r.seekpos \in 0 .. MaxLength /\ s.r.filelength \in 0 .. MaxLength
         /\ s.r.currentSector \in Sector \cup {NoSector}
         /\ s.r.curSectOff \in 0 .. SectorSize /\ s.r.loadedSector \in BOOLEAN
BY DEF Pairs, OpenFile

LEMMA LoadIs ==
  ASSUME NEW s \in Pairs, NEW off \in 0 .. SectorSize
  PROVE  /\ Load(s, off) \in Pairs /\ Load(s, off).f = s.f
         /\ SameFile(Load(s, off).r, s.r)
         /\ Load(s, off).r.firstCluster = s.r.firstCluster
         /\ Load(s, off).r.seekpos = s.r.seekpos
         /\ Load(s, off).r.filelength = s.r.filelength
         /\ Load(s, off).r.currentSector = s.r.currentSector
         /\ Load(s, off).r.curSectOff = off
         /\ Load(s, off).r.loadedSector = TRUE
BY DEF Load, Pairs, OpenFile, SameFile

\* The sector is looked for.
Located(s, t) ==
  /\ t \in Pairs /\ SameFile(t.r, s.r)
  /\ t.r.firstCluster = s.r.firstCluster
  /\ t.r.seekpos = s.r.seekpos
  /\ t.r.filelength = s.r.filelength
  /\ t.r.currentSector = SectorAt(t.f, s.r.firstCluster, s.r.seekpos)
  /\ t.r.curSectOff = s.r.curSectOff
  /\ t.r.loadedSector = s.r.loadedSector

LEMMA FindIs ==
  ASSUME NEW s \in Pairs, NEW H, Sound(s.f, H), s.r.firstCluster \in H
  PROVE  Located(s, Find(s)) /\ Find(s).f = s.f
<1>1. SectorAt(s.f, s.r.firstCluster, s.r.seekpos) \in Sector \cup {NoSector}
  BY FieldsAre, SectorAtIs
<1> QED
  BY <1>1 DEF Find, Located, Pairs, OpenFile, SameFile

-----------------------------------------------------------------------------
(* The table after a cluster was taken.                                    *)

LEMMA AllocatedIs ==
  ASSUME NEW f \in Tables, NEW x \in Cluster, NEW prev \in Sector, prev # x
  PROVE  /\ Allocated(f, x, prev) \in Tables
         /\ Allocated(f, x, prev)[x] = Eof
         /\ prev # 0 => Allocated(f, x, prev)[prev] = x
         /\ \A d \in Sector \ {x} : (d # prev \/ prev = 0) => Allocated(f, x, prev)[d] = f[d]
<1>1. x # 0 /\ x \in Sector /\ 0 \in Sector
  BY SectorsAre DEF Sector
<1>2. prev # 0 => Allocated(f, x, prev) = [f EXCEPT ![x] = Eof, ![prev] = x]
  BY <1>1 DEF Allocated
<1>3. prev = 0 => Allocated(f, x, prev) = [f EXCEPT ![x] = Eof, ![prev] = f[prev]]
  BY <1>1 DEF Allocated
<1>4. CASE prev # 0
  BY <1>1, <1>2, <1>4 DEF Tables
<1>5. CASE prev = 0
  BY <1>1, <1>3, <1>5 DEF Tables
<1> QED
  BY <1>4, <1>5

LEMMA NothingAllocated ==
  ASSUME NEW f, NEW prev
  PROVE  Allocated(f, 0, prev) = f
BY DEF Allocated

\* Write takes the first cluster of a file.
LEMMA FirstAllocated ==
  ASSUME NEW f, NEW H, Sound(f, H), NEW x, x = FirstFree(f), NEW g, g = Allocated(f, x, 0)
  PROVE  /\ g \in Tables /\ Sound(g, H \cup {x}) /\ Extends(f, g, H)
         /\ x \in Sector /\ (x = 0 \/ x \notin H)
<1>1. f \in Tables /\ 0 \in H /\ 0 \in Sector
  BY DEF Sound, Sector
<1>2. x \in Sector /\ (x # 0 => x \in Cluster /\ f[x] = 0)
  BY <1>1, FirstFreeIs
<1>3. CASE x = 0
  <2>1. g = f
    BY <1>3, NothingAllocated
  <2>2. H \cup {x} = H
    BY <1>1, <1>3
  <2>3. Extends(f, f, H)
    BY DEF Extends
  <2> QED
    BY <1>1, <1>2, <1>3, <2>1, <2>2, <2>3
<1>4. CASE x # 0
  <2>1. x \in Cluster /\ f[x] = 0
    BY <1>2, <1>4
  <2>2. g \in Tables /\ g[x] = Eof /\ \A d \in Sector \ {x} : g[d] = f[d]
    BY <1>1, <1>4, <2>1, AllocatedIs
  <2>3. Sound(g, H \cup {x}) /\ Extends(f, g, H) /\ x \notin H
    BY <2>1, <2>2, ChainBegun
  <2> QED
    BY <1>2, <2>2, <2>3
<1> QED
  BY <1>3, <1>4

\* appendCluster.
LEMMA NextAllocated ==
  ASSUME NEW f, NEW H, Sound(f, H), NEW c \in H,
         NEW g, g = Allocated(f, FirstFree(f), LastOf(f, c))
  PROVE  g \in Tables /\ Sound(g, H) /\ Extends(f, g, H)
<1> DEFINE x == FirstFree(f)
           l == LastOf(f, c)
<1>1. f \in Tables /\ 0 \in H /\ 0 \in Sector
  BY DEF Sound, Sector
<1>2. x \in Sector /\ (x # 0 => x \in Cluster /\ f[x] = 0)
  BY <1>1, FirstFreeIs
<1>3. l \in Sector /\ f[l] = Eof /\ l \in Chain(f, c) /\ (c # 0 => l # 0) /\ (c = 0 => l = 0)
  BY ChainIs, ChainUsed, ChainOfNone
<1>4. g = Allocated(f, x, l)
  OBVIOUS
<1>5. l = LastOf(f, c)
  OBVIOUS
<1> HIDE DEF x, l
<1>6. CASE x = 0
  <2>1. g = f
    BY <1>4, <1>6, NothingAllocated
  <2>2. Extends(f, f, H)
    BY DEF Extends
  <2> QED
    BY <1>1, <2>1, <2>2
<1>7. CASE x # 0
  <2>1. x \in Cluster /\ f[x] = 0
    BY <1>2, <1>7
  <2>2. l # x
    <3>1. Eof # 0
      BY DEF Eof
    <3> QED
      BY <1>3, <2>1, <3>1
  <2>3. /\ g \in Tables /\ g[x] = Eof /\ (l # 0 => g[l] = x)
        /\ \A d \in Sector \ {x} : (d # l \/ l = 0) => g[d] = f[d]
    BY <1>1, <1>3, <1>4, <2>1, <2>2, AllocatedIs
  <2>4. CASE c = 0
    <3>1. \A d \in Sector \ {x} : g[d] = f[d]
      BY <1>3, <2>3, <2>4
    <3>2. Sound(g, H \cup {x}) /\ Extends(f, g, H)
      BY <2>1, <2>3, <3>1, ChainBegun
    <3>3. Sound(g, H)
      BY <1>1, <3>2, SoundOfFewer
    <3> QED
      BY <2>3, <3>2, <3>3
  <2>5. CASE c # 0
    <3>1. g[LastOf(f, c)] = x /\ \A d \in Sector \ {x, LastOf(f, c)} : g[d] = f[d]
      BY <1>3, <1>5, <2>3, <2>5
    <3>2. Sound(g, H) /\ Extends(f, g, H)
      BY <2>1, <2>3, <2>5, <3>1, ChainLengthened
    <3> QED
      BY <2>3, <3>2
  <2> QED
    BY <2>4, <2>5
<1> QED
  BY <1>6, <1>7

-----------------------------------------------------------------------------
(* The parts of Write.                                                     *)

\* The sector is found, in a longer chain if need be.
LEMMA FindOrAppendIs ==
  ASSUME NEW s \in Pairs, NEW H, Sound(s.f, H), s.r.firstCluster \in H
  PROVE  /\ Located(s, FindOrAppend(s))
         /\ Sound(FindOrAppend(s).f, H) /\ Extends(s.f, FindOrAppend(s).f, H)
<1> DEFINE found == Find(s)
           longer == Append1(s)
<1>1. Located(s, found) /\ found.f = s.f
  BY FindIs
<1>2. Extends(s.f, s.f, H)
  BY DEF Extends
<1>3. /\ longer \in Pairs /\ longer.r = s.r
      /\ Sound(longer.f, H) /\ Extends(s.f, longer.f, H)
  <2> DEFINE g == Allocated(s.f, FirstFree(s.f), LastOf(s.f, s.r.firstCluster))
  <2>1. g \in Tables /\ Sound(g, H) /\ Extends(s.f, g, H)
    BY NextAllocated
  <2>2. longer = [s EXCEPT !.f = g]
    BY DEF Append1
  <2> HIDE DEF g, longer
  <2> QED
    BY <2>1, <2>2 DEF Pairs
<1> HIDE DEF longer
<1>4. Located(longer, Find(longer)) /\ Find(longer).f = longer.f
  BY <1>3, FindIs
<1>5. FindOrAppend(s) = IF found.r.currentSector # NoSector THEN found ELSE Find(longer)
  BY DEF FindOrAppend, longer
<1> HIDE DEF found
<1>6. CASE found.r.currentSector # NoSector
  BY <1>1, <1>2, <1>5, <1>6
<1>7. CASE ~(found.r.currentSector # NoSector)
  <2>1. Located(s, Find(longer))
    BY <1>3, <1>4 DEF Located
  <2> QED
    BY <1>3, <1>4, <1>5, <1>7, <2>1
<1> QED
  BY <1>6, <1>7

-----------------------------------------------------------------------------
(* Write of a byte.                                                        *)

\* What is always true of a handle: the sector in its buffer is one of its
\* chain, and an empty file has none.
Keeps(f, r) ==
  /\ r.seekpos <= r.filelength
  /\ r.filelength = 0 => ~r.loadedSector /\ r.curSectOff = 0
  /\ r.loadedSector => /\ r.curSectOff < SectorSize
                       /\ r.currentSector \in Chain(f, r.firstCluster)

\* The sector in the buffer is that of the position.
InPlace(f, r) ==
  /\ r.loadedSector /\ r.curSectOff = r.seekpos % SectorSize
  /\ r.currentSector = SectorAt(f, r.firstCluster, r.seekpos)

\* What is true if the handle is the only one: it is, and there is a sector for
\* the next byte after the end.
AtPosition(f, r) ==
  r.filelength > 0 => /\ InPlace(f, r)
                      /\ SectorAt(f, r.firstCluster, r.filelength) # NoSector

\* What a write of s leaves of the chains from H: they are there and perhaps
\* longer, and so is that of the handle, which may be a new one.
Wrote(H, s, t) ==
  /\ t \in Pairs /\ SameFile(t.r, s.r)
  /\ Sound(t.f, H \cup {t.r.firstCluster}) /\ Extends(s.f, t.f, H)
  /\ t.r.firstCluster \in {s.r.firstCluster, 0} \/ t.r.firstCluster \notin H

LEMMA BeginIs ==
  ASSUME NEW s \in Pairs, NEW H, Sound(s.f, H), s.r.firstCluster \in H
  PROVE  /\ Wrote(H, s, Begin(s))
         /\ Begin(s).r.seekpos = s.r.seekpos
         /\ Begin(s).r.filelength = s.r.filelength
         /\ Begin(s).r.currentSector = SectorAt(Begin(s).f, Begin(s).r.firstCluster, s.r.seekpos)
         /\ Begin(s).r.curSectOff = s.r.curSectOff
         /\ Begin(s).r.loadedSector = TRUE
<1> DEFINE x == FirstFree(s.f)
           g == Allocated(s.f, x, 0)
           first == [s EXCEPT !.f = g, !.r.firstCluster = x]
           found == Find(first)
           J == H \cup {x}
<1>1. /\ g \in Tables /\ Sound(g, J) /\ Extends(s.f, g, H)
      /\ x \in Sector /\ (x = 0 \/ x \notin H)
  BY FirstAllocated
<1>2. Begin(s) = Load(found, s.r.curSectOff)
  BY DEF Begin
<1> HIDE DEF g
<1>3. x \in J
  OBVIOUS
<1> HIDE DEF x, J
<1>4. /\ first \in Pairs /\ first.f = g /\ SameFile(first.r, s.r)
      /\ first.r.firstCluster = x /\ first.r.seekpos = s.r.seekpos
      /\ first.r.filelength = s.r.filelength
      /\ first.r.curSectOff = s.r.curSectOff
  BY <1>1 DEF Pairs, OpenFile, SameFile
<1> HIDE DEF first
<1>5. Located(first, found) /\ found.f = g
  BY <1>1, <1>3, <1>4, FindIs
<1> HIDE DEF found
<1>6. s.r.curSectOff \in 0 .. SectorSize /\ found \in Pairs
  BY <1>5, FieldsAre DEF Located
<1> DEFINE t == Load(found, s.r.curSectOff)
<1>7. /\ t \in Pairs /\ t.f = found.f
      /\ SameFile(t.r, found.r)
      /\ t.r.firstCluster = found.r.firstCluster
      /\ t.r.seekpos = found.r.seekpos
      /\ t.r.filelength = found.r.filelength
      /\ t.r.currentSector = found.r.currentSector
      /\ t.r.curSectOff = s.r.curSectOff
      /\ t.r.loadedSector = TRUE
  BY <1>6, LoadIs
<1>8. Begin(s) = t
  BY <1>2
<1> HIDE DEF t
<1>9. SameFile(t.r, s.r) /\ t.r.firstCluster = x /\ t.f = g
  BY <1>4, <1>5, <1>7 DEF SameFile, Located
<1>10. Wrote(H, s, t)
  BY <1>1, <1>7, <1>9 DEF Wrote, J
<1> QED
  BY <1>4, <1>5, <1>7, <1>8, <1>9, <1>10 DEF Located

\* A longer file.
LongerIs(s, t) ==
  /\ t \in Pairs /\ t.f = s.f /\ SameFile(t.r, s.r)
  /\ t.r.firstCluster = s.r.firstCluster
  /\ t.r.seekpos = s.r.seekpos
  /\ t.r.currentSector = s.r.currentSector
  /\ t.r.curSectOff = s.r.curSectOff
  /\ t.r.loadedSector = s.r.loadedSector

LEMMA Longer ==
  ASSUME NEW s \in Pairs, NEW length \in 0 .. MaxLength,
         NEW t, t = [s EXCEPT !.r.filelength = length]
  PROVE  LongerIs(s, t) /\ t.r.filelength = length
BY DEF LongerIs, Pairs, OpenFile, SameFile

WrittenHere(s) == s.r.seekpos < s.r.filelength

\* Before the byte.
LEMMA GrowIs ==
  ASSUME NEW s \in Pairs, NEW H, Sound(s.f, H), s.r.firstCluster \in H,
         Keeps(s.f, s.r), s.r.seekpos < MaxLength, NEW t, t = Grow(s)
  PROVE  /\ Wrote(H, s, t) /\ t.r.seekpos = s.r.seekpos
         /\ t.r.seekpos < t.r.filelength
         /\ WrittenHere(s) => t = s
         /\ ~WrittenHere(s) => t.r.filelength = s.r.seekpos + 1
         /\ ~WrittenHere(s) /\ t.r.loadedSector => t.r.curSectOff < SectorSize
         /\ t.r.loadedSector => t.r.currentSector \in Chain(t.f, t.r.firstCluster)
         /\ AtPosition(s.f, s.r) => InPlace(t.f, t.r)
<1>0. /\ s.r.seekpos \in 0 .. MaxLength /\ s.r.filelength \in 0 .. MaxLength
      /\ s.r.curSectOff \in 0 .. SectorSize /\ s.r.loadedSector \in BOOLEAN
      /\ s.r.firstCluster \in Sector /\ SectorSize \in Nat \ {0} /\ MaxLength \in Nat
  BY FieldsAre, Sizes
<1>1. CASE WrittenHere(s)
  <2>1. t = s
    BY <1>1 DEF Grow, WrittenHere
  <2>2. Wrote(H, s, s)
    <3>1. H \cup {s.r.firstCluster} = H
      OBVIOUS
    <3> QED
      BY <3>1 DEF Wrote, SameFile, Extends
  <2> QED
    BY <1>0, <1>1, <2>1, <2>2 DEF Keeps, AtPosition, WrittenHere
<1>2. CASE ~WrittenHere(s)
  <2> DEFINE base == IF s.r.filelength = 0 THEN Begin(s) ELSE s
             longer == [base EXCEPT !.r.filelength = s.r.seekpos + 1]
             found == FindOrAppend(longer)
             loaded == Load(found, 0)
             J == H \cup {base.r.firstCluster}
  <2>1. t = IF longer.r.loadedSector THEN longer
            ELSE IF found.r.currentSector = NoSector THEN found ELSE loaded
    BY <1>2 DEF Grow, WrittenHere
  <2>2. /\ Wrote(H, s, base) /\ base.r.seekpos = s.r.seekpos
        /\ base.r.curSectOff = s.r.curSectOff
        /\ base.r.loadedSector => base.r.curSectOff < SectorSize
        /\ base.r.loadedSector => base.r.currentSector \in Chain(base.f, base.r.firstCluster)
        /\ AtPosition(s.f, s.r) => InPlace(base.f, base.r)
    <3>1. CASE s.r.filelength = 0
      <4>1. /\ base = Begin(s) /\ s.r.seekpos = 0 /\ s.r.curSectOff = 0
        BY <1>0, <3>1 DEF Keeps
      <4>2. /\ Wrote(H, s, base)
            /\ base.r.seekpos = s.r.seekpos
            /\ base.r.currentSector = SectorAt(base.f, base.r.firstCluster, 0)
            /\ base.r.curSectOff = s.r.curSectOff
            /\ base.r.loadedSector = TRUE
        BY <4>1, BeginIs
      <4> HIDE DEF base
      <4>3. /\ Sound(base.f, H \cup {base.r.firstCluster})
            /\ base.r.firstCluster \in H \cup {base.r.firstCluster}
        BY <4>2 DEF Wrote
      <4>4. /\ base.r.currentSector = base.r.firstCluster /\ 0 % SectorSize = 0
            /\ base.r.firstCluster \in Chain(base.f, base.r.firstCluster)
        BY <4>2, <4>3, FirstSector, ChainIs
      <4>5. InPlace(base.f, base.r)
        BY <4>1, <4>2, <4>4 DEF InPlace
      <4> QED
        BY <1>0, <4>1, <4>2, <4>4, <4>5
    <3>2. CASE s.r.filelength # 0
      <4>1. base = s
        BY <3>2
      <4>2. Wrote(H, s, s)
        <5>1. H \cup {s.r.firstCluster} = H
          OBVIOUS
        <5> QED
          BY <5>1 DEF Wrote, SameFile, Extends
      <4> HIDE DEF base
      <4>3. AtPosition(s.f, s.r) => InPlace(s.f, s.r)
        BY <1>0, <3>2 DEF AtPosition
      <4> QED
        BY <4>1, <4>2, <4>3 DEF Keeps
    <3> QED
      BY <3>1, <3>2
  <2> HIDE DEF base
  <2>3. base \in Pairs /\ Sound(base.f, J) /\ Extends(s.f, base.f, H) /\ base.r.firstCluster \in J
    BY <2>2 DEF Wrote
  <2>4. s.r.seekpos + 1 \in 0 .. MaxLength
    BY <1>0
  <2>5. LongerIs(base, longer) /\ longer.r.filelength = s.r.seekpos + 1
    BY <2>3, <2>4, Longer
  <2> HIDE DEF longer
  <2>6. longer \in Pairs /\ longer.f = base.f /\ longer.r.firstCluster \in J
    BY <2>3, <2>5 DEF LongerIs
  <2>7. /\ Located(longer, found)
        /\ Sound(found.f, J) /\ Extends(longer.f, found.f, J)
    BY <2>3, <2>6, FindOrAppendIs
  <2> HIDE DEF found
  <2>8. found \in Pairs /\ 0 \in 0 .. SectorSize /\ found.r.firstCluster = base.r.firstCluster
    BY <1>0, <2>5, <2>7 DEF Located, LongerIs
  <2>9. /\ loaded \in Pairs /\ loaded.f = found.f
        /\ SameFile(loaded.r, found.r)
        /\ loaded.r.firstCluster = found.r.firstCluster
        /\ loaded.r.seekpos = found.r.seekpos
        /\ loaded.r.filelength = found.r.filelength
        /\ loaded.r.currentSector = found.r.currentSector
        /\ loaded.r.curSectOff = 0
        /\ loaded.r.loadedSector = TRUE
    BY <2>8, LoadIs
  <2> HIDE DEF loaded
  <2>10. CASE longer.r.loadedSector
    <3>1. t = longer
      BY <2>1, <2>10
    <3>2. Wrote(H, s, longer)
      BY <2>2, <2>5 DEF Wrote, LongerIs, SameFile
    <3>3. AtPosition(s.f, s.r) => InPlace(longer.f, longer.r)
      BY <2>2, <2>5 DEF InPlace, LongerIs
    <3> QED
      BY <1>0, <1>2, <2>2, <2>5, <2>10, <3>1, <3>2, <3>3 DEF LongerIs
  <2>11. CASE ~longer.r.loadedSector
    <3>1. ~AtPosition(s.f, s.r)
      BY <2>2, <2>5, <2>11 DEF InPlace, LongerIs
    <3>2. Extends(s.f, found.f, H)
      BY <2>3, <2>6, <2>7, ExtendsTwice DEF J
    <3>3. Wrote(H, s, found)
      <4>1. SameFile(found.r, s.r)
        BY <2>2, <2>5, <2>7 DEF Wrote, LongerIs, Located, SameFile
      <4>2. found.r.firstCluster \in {s.r.firstCluster, 0} \/ found.r.firstCluster \notin H
        BY <2>2, <2>8 DEF Wrote
      <4>3. H \cup {found.r.firstCluster} = J
        BY <2>8
      <4> QED
        BY <2>7, <2>8, <3>2, <4>1, <4>2, <4>3 DEF Wrote
    <3>4. /\ found.r.seekpos = s.r.seekpos /\ found.r.filelength = s.r.seekpos + 1
          /\ found.r.loadedSector = longer.r.loadedSector
          /\ found.r.currentSector = SectorAt(found.f, base.r.firstCluster, s.r.seekpos)
      BY <2>2, <2>5, <2>7 DEF Located, LongerIs
    <3>5. CASE found.r.currentSector = NoSector
      <4>1. t = found
        BY <2>1, <2>11, <3>5
      <4> QED
        BY <1>0, <1>2, <2>11, <3>1, <3>3, <3>4, <4>1
    <3>6. CASE found.r.currentSector # NoSector
      <4>1. t = loaded
        BY <2>1, <2>11, <3>6
      <4>2. Wrote(H, s, loaded)
        BY <2>9, <3>3 DEF Wrote, SameFile
      <4>3. found.r.currentSector \in Chain(found.f, base.r.firstCluster)
        <5>1. s.r.seekpos \in Nat
          BY <1>0
        <5> QED
          BY <2>3, <2>7, <3>4, <3>6, <5>1, SectorAtIs
      <4> QED
        BY <1>0, <1>2, <2>8, <2>9, <3>1, <3>4, <4>1, <4>2, <4>3
    <3> QED
      BY <3>5, <3>6
  <2> QED
    BY <2>10, <2>11
<1> QED
  BY <1>1, <1>2

\* The handle has another position.
OnTo(s, t, a, b) ==
  /\ t \in Pairs /\ t.f = s.f /\ SameFile(t.r, s.r)
  /\ t.r.firstCluster = s.r.firstCluster
  /\ t.r.filelength = s.r.filelength
  /\ t.r.currentSector = s.r.currentSector
  /\ t.r.loadedSector = s.r.loadedSector
  /\ t.r.seekpos = b /\ t.r.curSectOff = a

LEMMA OnToIs ==
  ASSUME NEW s \in Pairs, NEW a \in 0 .. SectorSize, NEW b \in 0 .. MaxLength,
         NEW t, t = [s EXCEPT !.r.curSectOff = a, !.r.seekpos = b]
  PROVE  OnTo(s, t, a, b)
BY DEF OnTo, Pairs, OpenFile, SameFile

\* The handle moves on by a byte.
OnBy1(s, t) ==
  /\ t \in Pairs /\ t.f = s.f /\ SameFile(t.r, s.r)
  /\ t.r.firstCluster = s.r.firstCluster
  /\ t.r.filelength = s.r.filelength
  /\ t.r.currentSector = s.r.currentSector
  /\ t.r.loadedSector = s.r.loadedSector
  /\ t.r.seekpos = s.r.seekpos + 1 /\ t.r.curSectOff = s.r.curSectOff + 1

LEMMA OnBy1Is ==
  ASSUME NEW s \in Pairs, s.r.seekpos < s.r.filelength, s.r.curSectOff < SectorSize,
         NEW t, t = [s EXCEPT !.r.curSectOff = @ + 1, !.r.seekpos = @ + 1]
  PROVE  OnBy1(s, t)
<1> DEFINE a == s.r.curSectOff + 1
           b == s.r.seekpos + 1
<1>1. a \in 0 .. SectorSize /\ b \in 0 .. MaxLength
  BY FieldsAre, Sizes
<1>2. t = [s EXCEPT !.r.curSectOff = a, !.r.seekpos = b]
  OBVIOUS
<1> HIDE DEF a, b
<1>3. OnTo(s, t, a, b)
  BY <1>1, <1>2, OnToIs
<1> QED
  BY <1>3 DEF OnTo, OnBy1, a, b

\* Within a sector it stays in place, and after its last byte a sector begins.
LEMMA InPlaceNext ==
  ASSUME NEW s \in Pairs, NEW t, OnBy1(s, t), InPlace(s.f, s.r)
  PROVE  /\ t.r.curSectOff < SectorSize => InPlace(t.f, t.r)
         /\ ~(t.r.curSectOff < SectorSize) => t.r.seekpos % SectorSize = 0
<1>0. /\ s.r.seekpos \in Nat /\ SectorSize \in Nat \ {0}
      /\ s.r.curSectOff = s.r.seekpos % SectorSize /\ s.r.seekpos % SectorSize \in Nat
      /\ t.r.curSectOff = s.r.curSectOff + 1 /\ t.r.seekpos = s.r.seekpos + 1
  <2>1. s.r.seekpos \in Nat /\ SectorSize \in Nat \ {0}
    BY FieldsAre, Sizes
  <2>2. s.r.seekpos % SectorSize \in Nat
    BY <2>1, Division
  <2> QED
    BY <2>1, <2>2 DEF InPlace, OnBy1
<1>1. ASSUME t.r.curSectOff < SectorSize
      PROVE  InPlace(t.f, t.r)
  <2>1. (s.r.seekpos % SectorSize) + 1 < SectorSize
    BY <1>0, <1>1
  <2>2. SectorAt(s.f, s.r.firstCluster, s.r.seekpos + 1) = SectorAt(s.f, s.r.firstCluster, s.r.seekpos)
    BY <1>0, <2>1, SectorOfNext
  <2>3. (s.r.seekpos + 1) % SectorSize = (s.r.seekpos % SectorSize) + 1
    BY <1>0, <2>1, Division
  <2> QED
    BY <2>2, <2>3 DEF InPlace, OnBy1
<1>2. ASSUME ~(t.r.curSectOff < SectorSize)
      PROVE  t.r.seekpos % SectorSize = 0
  <2>1. (s.r.seekpos % SectorSize) + 1 >= SectorSize
    BY <1>0, <1>2
  <2>2. (s.r.seekpos + 1) % SectorSize = 0
    BY <1>0, <2>1, Division
  <2> QED
    BY <1>0, <2>2
<1> QED
  BY <1>1, <1>2

\* The buffer is of no sector.
Unloaded(s, t) ==
  /\ t \in Pairs /\ t.f = s.f /\ SameFile(t.r, s.r)
  /\ t.r.firstCluster = s.r.firstCluster
  /\ t.r.filelength = s.r.filelength
  /\ t.r.currentSector = s.r.currentSector
  /\ t.r.seekpos = s.r.seekpos /\ t.r.curSectOff = s.r.curSectOff
  /\ t.r.loadedSector = FALSE

LEMMA UnloadedIs ==
  ASSUME NEW s \in Pairs, NEW t, t = [s EXCEPT !.r.loadedSector = FALSE]
  PROVE  Unloaded(s, t)
BY DEF Unloaded, Pairs, OpenFile, SameFile

\* After the last byte of a sector the sector u.r.currentSector of the next is
\* loaded if there is one.
Turned(u) == IF u.r.currentSector = NoSector THEN [u EXCEPT !.r.loadedSector = FALSE] ELSE Load(u, 0)

LEMMA NextLoaded ==
  ASSUME NEW put \in Pairs, NEW u, Located(put, u), NEW J, Sound(u.f, J), put.r.firstCluster \in J,
         put.r.seekpos <= put.r.filelength, put.r.filelength > 0,
         NEW t, t = Turned(u)
  PROVE  /\ t \in Pairs /\ t.f = u.f /\ SameFile(t.r, put.r) /\ Keeps(t.f, t.r)
         /\ t.r.firstCluster = put.r.firstCluster
         /\ t.r.filelength = put.r.filelength
         /\ t.r.seekpos = put.r.seekpos
         /\ t.r.currentSector = SectorAt(u.f, put.r.firstCluster, put.r.seekpos)
         /\ t.r.currentSector # NoSector => t.r.loadedSector /\ t.r.curSectOff = 0
<1>0. /\ u \in Pairs /\ 0 \in 0 .. SectorSize /\ SectorSize > 0 /\ put.r.seekpos \in Nat
      /\ put.r.filelength \in Nat
  BY FieldsAre, Sizes DEF Located
<1>1. CASE u.r.currentSector = NoSector
  <2>1. Unloaded(u, t)
    BY <1>0, <1>1, UnloadedIs DEF Turned
  <2>2. Keeps(t.f, t.r)
    BY <1>0, <2>1 DEF Keeps, Unloaded, Located
  <2> QED
    BY <1>1, <2>1, <2>2 DEF Unloaded, Located, SameFile
<1>2. CASE u.r.currentSector # NoSector
  <2> DEFINE l == Load(u, 0)
  <2>1. /\ l \in Pairs /\ l.f = u.f
        /\ SameFile(l.r, u.r)
        /\ l.r.firstCluster = u.r.firstCluster
        /\ l.r.seekpos = u.r.seekpos
        /\ l.r.filelength = u.r.filelength
        /\ l.r.currentSector = u.r.currentSector
        /\ l.r.curSectOff = 0
        /\ l.r.loadedSector = TRUE
    BY <1>0, LoadIs
  <2>2. t = l
    BY <1>2 DEF Turned
  <2> HIDE DEF l
  <2>3. u.r.currentSector \in Chain(u.f, put.r.firstCluster)
    BY <1>0, <1>2, SectorAtIs DEF Located
  <2>4. Keeps(t.f, t.r)
    BY <1>0, <2>1, <2>2, <2>3 DEF Keeps, Located
  <2> QED
    BY <2>1, <2>2, <2>4 DEF Located, SameFile
<1> QED
  BY <1>1, <1>2

\* The byte itself.
LEMMA PutIs ==
  ASSUME NEW s \in Pairs, NEW J, Sound(s.f, J), s.r.firstCluster \in J,
         s.r.seekpos < s.r.filelength, s.r.curSectOff < SectorSize,
         s.r.loadedSector => s.r.currentSector \in Chain(s.f, s.r.firstCluster),
         NEW t, t = Put(s)
  PROVE  /\ t \in Pairs /\ SameFile(t.r, s.r) /\ Keeps(t.f, t.r)
         /\ Sound(t.f, J) /\ Extends(s.f, t.f, J)
         /\ t.r.firstCluster = s.r.firstCluster
         /\ t.r.filelength = s.r.filelength
         /\ t.r.seekpos = s.r.seekpos + 1
         /\ InPlace(s.f, s.r) /\ t.r.currentSector # NoSector => InPlace(t.f, t.r)
<1> DEFINE put == [s EXCEPT !.r.curSectOff = @ + 1, !.r.seekpos = @ + 1]
           next == FindOrAppend(put)
           after == IF next.r.currentSector = NoSector
                    THEN [next EXCEPT !.r.loadedSector = FALSE] ELSE Load(next, 0)
<1>0. /\ s.r.seekpos \in Nat /\ s.r.filelength \in Nat /\ s.r.curSectOff \in Nat
      /\ SectorSize \in Nat \ {0}
  BY FieldsAre, Sizes
<1>1. t = IF put.r.curSectOff < SectorSize THEN put ELSE after
  BY DEF Put
<1>2. OnBy1(s, put)
  BY OnBy1Is
<1> HIDE DEF put
<1>3. /\ put \in Pairs /\ Sound(put.f, J) /\ put.r.firstCluster \in J
      /\ put.r.seekpos <= put.r.filelength /\ put.r.filelength > 0 /\ put.r.seekpos \in Nat
  BY <1>0, <1>2 DEF OnBy1
<1>4. CASE put.r.curSectOff < SectorSize
  <2>1. t = put
    BY <1>1, <1>4
  <2>2. Keeps(put.f, put.r)
    BY <1>3, <1>4, <1>2 DEF Keeps, OnBy1
  <2>3. Extends(s.f, put.f, J)
    BY <1>2 DEF Extends, OnBy1
  <2>4. InPlace(s.f, s.r) => InPlace(put.f, put.r)
    BY <1>2, <1>4, InPlaceNext
  <2> QED
    BY <1>2, <1>3, <2>1, <2>2, <2>3, <2>4 DEF OnBy1
<1>5. CASE ~(put.r.curSectOff < SectorSize)
  <2>1. t = after
    BY <1>1, <1>5
  <2>2. Located(put, next) /\ Sound(next.f, J) /\ Extends(put.f, next.f, J)
    BY <1>3, FindOrAppendIs
  <2> HIDE DEF next
  <2>6. after = Turned(next)
    BY DEF Turned
  <2> HIDE DEF after
  <2>3. /\ after \in Pairs /\ after.f = next.f /\ SameFile(after.r, put.r) /\ Keeps(after.f, after.r)
        /\ after.r.firstCluster = put.r.firstCluster
        /\ after.r.filelength = put.r.filelength
        /\ after.r.seekpos = put.r.seekpos
        /\ after.r.currentSector = SectorAt(next.f, put.r.firstCluster, put.r.seekpos)
        /\ after.r.currentSector # NoSector => after.r.loadedSector /\ after.r.curSectOff = 0
    BY <1>3, <2>2, <2>6, NextLoaded
  <2>4. ASSUME InPlace(s.f, s.r), after.r.currentSector # NoSector
        PROVE  InPlace(after.f, after.r)
    <3>1. put.r.seekpos % SectorSize = 0
      BY <1>2, <1>5, <2>4, InPlaceNext
    <3> QED
      BY <2>3, <2>4, <3>1 DEF InPlace
  <2> QED
    BY <1>2, <2>1, <2>2, <2>3, <2>4 DEF OnBy1, SameFile
<1> QED
  BY <1>4, <1>5

LEMMA WrittenIs ==
  ASSUME NEW s \in Pairs, NEW H, Sound(s.f, H), s.r.firstCluster \in H,
         Keeps(s.f, s.r), s.r.seekpos < MaxLength,
         WrittenHere(s) => s.r.curSectOff < SectorSize,
         NEW t, t = Written(s)
  PROVE  /\ Wrote(H, s, t) /\ Keeps(t.f, t.r)
         /\ t.r.filelength > 0
         /\ AtPosition(s.f, s.r) /\ t.r.currentSector # NoSector => AtPosition(t.f, t.r)
<1> DEFINE g == Grow(s)
           J == H \cup {g.r.firstCluster}
<1>0. s.r.seekpos \in Nat /\ s.r.filelength \in Nat /\ s.r.loadedSector \in BOOLEAN
  BY FieldsAre, Sizes
<1>1. t = IF ~WrittenHere(s) /\ ~g.r.loadedSector THEN g ELSE Put(g)
  BY <1>0 DEF Written, WrittenHere
<1>2. /\ Wrote(H, s, g) /\ g.r.seekpos = s.r.seekpos
      /\ g.r.seekpos < g.r.filelength
      /\ WrittenHere(s) => g = s
      /\ ~WrittenHere(s) => g.r.filelength = s.r.seekpos + 1
      /\ ~WrittenHere(s) /\ g.r.loadedSector => g.r.curSectOff < SectorSize
      /\ g.r.loadedSector => g.r.currentSector \in Chain(g.f, g.r.firstCluster)
      /\ AtPosition(s.f, s.r) => InPlace(g.f, g.r)
  BY GrowIs
<1> HIDE DEF g
<1>3. g \in Pairs /\ Sound(g.f, J) /\ g.r.firstCluster \in J
  BY <1>2 DEF Wrote
<1>4. CASE ~WrittenHere(s) /\ ~g.r.loadedSector
  <2>1. t = g /\ g.r.filelength > 0 /\ g.r.filelength \in Nat
    BY <1>0, <1>1, <1>2, <1>4
  <2>2. Keeps(g.f, g.r)
    BY <1>0, <1>2, <1>4, <2>1 DEF Keeps
  <2>3. ~AtPosition(s.f, s.r)
    BY <1>2, <1>4 DEF InPlace
  <2> QED
    BY <1>2, <2>1, <2>2, <2>3
<1>5. CASE ~(~WrittenHere(s) /\ ~g.r.loadedSector)
  <2>1. t = Put(g)
    BY <1>1, <1>5
  <2>2. g.r.curSectOff < SectorSize
    BY <1>2, <1>5
  <2>3. /\ t \in Pairs /\ SameFile(t.r, g.r) /\ Keeps(t.f, t.r)
        /\ Sound(t.f, J) /\ Extends(g.f, t.f, J)
        /\ t.r.firstCluster = g.r.firstCluster
        /\ t.r.filelength = g.r.filelength
        /\ t.r.seekpos = g.r.seekpos + 1
        /\ InPlace(g.f, g.r) /\ t.r.currentSector # NoSector => InPlace(t.f, t.r)
    BY <1>2, <1>3, <2>1, <2>2, PutIs
  <2>4. Extends(s.f, t.f, H)
    BY <1>2, <2>3, ExtendsTwice DEF Wrote, J
  <2>5. Wrote(H, s, t)
    BY <1>2, <2>3, <2>4 DEF Wrote, SameFile, J
  <2>6. g.r.filelength \in Nat /\ g.r.filelength > 0
    BY <1>0, <1>2, <1>3, FieldsAre
  <2>7. ASSUME AtPosition(s.f, s.r), t.r.currentSector # NoSector
        PROVE  AtPosition(t.f, t.r)
    <3>1. InPlace(t.f, t.r)
      BY <1>2, <2>3, <2>7
    <3>2. CASE WrittenHere(s)
      <4>1. g = s /\ s.r.filelength > 0
        BY <1>2, <2>6, <3>2
      <4>2. SectorAt(s.f, s.r.firstCluster, s.r.filelength) # NoSector
        BY <2>7, <4>1 DEF AtPosition
      <4>3. SectorAt(t.f, s.r.firstCluster, s.r.filelength)
              = SectorAt(s.f, s.r.firstCluster, s.r.filelength)
        BY <1>0, <2>4, <4>2, SectorKept
      <4> QED
        BY <2>3, <3>1, <4>1, <4>2, <4>3 DEF AtPosition
    <3>3. CASE ~WrittenHere(s)
      <4>1. t.r.filelength = t.r.seekpos
        BY <1>2, <2>3, <3>3
      <4>2. SectorAt(t.f, t.r.firstCluster, t.r.filelength) # NoSector
        BY <2>7, <3>1, <4>1 DEF InPlace
      <4> QED
        BY <3>1, <4>2 DEF AtPosition
    <3> QED
      BY <3>2, <3>3
  <2> QED
    BY <2>3, <2>5, <2>6, <2>7
<1> QED
  BY <1>4, <1>5

-----------------------------------------------------------------------------
(* Read, Seek and the constructor.                                         *)

\* What reading and seeking leave alone.
Stays(s, t) ==
  /\ t \in Pairs /\ t.f = s.f /\ SameFile(t.r, s.r)
  /\ t.r.firstCluster = s.r.firstCluster
  /\ t.r.filelength = s.r.filelength

LEMMA ReadyIs ==
  ASSUME NEW s \in Pairs, NEW H, Sound(s.f, H), s.r.firstCluster \in H,
         Keeps(s.f, s.r), s.r.filelength > 0, NEW t, t = Ready(s)
  PROVE  /\ Stays(s, t) /\ t.r.seekpos = s.r.seekpos /\ Keeps(t.f, t.r)
         /\ s.r.loadedSector => t = s
<1>0. /\ 0 \in 0 .. SectorSize /\ SectorSize > 0 /\ s.r.seekpos \in Nat
  BY FieldsAre, Sizes
<1>1. CASE s.r.loadedSector
  BY <1>1 DEF Ready, Stays, SameFile
<1>2. CASE ~s.r.loadedSector
  <2> DEFINE u == Find(s)
             l == Load(u, 0)
  <2>1. t = IF u.r.currentSector = NoSector THEN u ELSE l
    BY <1>2 DEF Ready
  <2>2. Located(s, u) /\ u.f = s.f
    BY FindIs
  <2> HIDE DEF u
  <2>3. u \in Pairs
    BY <2>2 DEF Located
  <2>4. /\ l \in Pairs /\ l.f = u.f
        /\ SameFile(l.r, u.r)
        /\ l.r.firstCluster = u.r.firstCluster
        /\ l.r.seekpos = u.r.seekpos
        /\ l.r.filelength = u.r.filelength
        /\ l.r.currentSector = u.r.currentSector
        /\ l.r.curSectOff = 0
        /\ l.r.loadedSector = TRUE
    BY <1>0, <2>3, LoadIs
  <2> HIDE DEF l
  <2>5. CASE u.r.currentSector = NoSector
    <3>1. t = u
      BY <2>1, <2>5
    <3>2. Keeps(u.f, u.r)
      BY <1>2, <2>2 DEF Keeps, Located
    <3> QED
      BY <1>2, <2>2, <3>1, <3>2 DEF Located, Stays
  <2>6. CASE u.r.currentSector # NoSector
    <3>1. t = l
      BY <2>1, <2>6
    <3>2. u.r.currentSector \in Chain(s.f, s.r.firstCluster)
      BY <1>0, <2>2, <2>6, SectorAtIs DEF Located
    <3>3. Keeps(l.f, l.r)
      BY <1>0, <2>2, <2>4, <3>2 DEF Keeps, Located
    <3>4. Stays(s, l) /\ l.r.seekpos = s.r.seekpos
      BY <2>2, <2>4 DEF Stays, Located, SameFile
    <3> QED
      BY <1>2, <3>1, <3>3, <3>4
  <2> QED
    BY <2>5, <2>6
<1> QED
  BY <1>1, <1>2

LEMMA AfterReadIs ==
  ASSUME NEW s \in Pairs, NEW H, Sound(s.f, H), s.r.firstCluster \in H,
         Keeps(s.f, s.r), NEW t, t = AfterRead(s)
  PROVE  /\ Stays(s, t) /\ Keeps(t.f, t.r)
         /\ AtPosition(s.f, s.r) => AtPosition(t.f, t.r)
<1>0. s.r.seekpos \in Nat /\ s.r.filelength \in Nat /\ SectorSize \in Nat \ {0}
  BY FieldsAre, Sizes
<1>1. CASE s.r.seekpos >= s.r.filelength
  <2>1. t = s
    BY <1>1 DEF AfterRead
  <2> QED
    BY <2>1 DEF Stays, SameFile
<1>2. CASE ~(s.r.seekpos >= s.r.filelength)
  <2> DEFINE b == Ready(s)
             read == [b EXCEPT !.r.curSectOff = @ + 1, !.r.seekpos = @ + 1]
             u == Find(read)
             after == Turned(u)
  <2>1. t = IF ~b.r.loadedSector THEN b
            ELSE IF read.r.curSectOff < SectorSize THEN read ELSE after
    BY <1>2 DEF AfterRead, Turned
  <2>2. /\ Stays(s, b) /\ b.r.seekpos = s.r.seekpos /\ Keeps(b.f, b.r)
        /\ s.r.loadedSector => b = s
    <3>1. s.r.filelength > 0
      BY <1>0, <1>2
    <3> QED
      BY <3>1, ReadyIs
  <2>3. b = Ready(s)
    OBVIOUS
  <2> HIDE DEF b
  <2>4. CASE ~b.r.loadedSector
    <3>1. t = b
      BY <2>1, <2>4
    <3>2. ~AtPosition(s.f, s.r)
      BY <1>0, <1>2, <2>2, <2>4 DEF AtPosition, InPlace
    <3> QED
      BY <2>2, <3>1, <3>2
  <2>5. CASE b.r.loadedSector
    <3>1. /\ b \in Pairs /\ b.r.seekpos < b.r.filelength /\ b.r.curSectOff < SectorSize
          /\ Sound(b.f, H) /\ b.r.firstCluster \in H
          /\ b.r.currentSector \in Chain(b.f, b.r.firstCluster)
      BY <1>0, <1>2, <2>2, <2>5 DEF Stays, Keeps
    <3>2. OnBy1(b, read)
      BY <3>1, OnBy1Is
    <3> HIDE DEF read
    <3>3. /\ read \in Pairs /\ Sound(read.f, H) /\ read.r.firstCluster \in H
          /\ read.r.seekpos <= read.r.filelength /\ read.r.filelength > 0
          /\ read.r.seekpos \in Nat /\ read.r.filelength \in Nat
      BY <1>0, <1>2, <2>2, <3>1, <3>2 DEF OnBy1, Stays
    <3>4. Stays(s, read)
      BY <2>2, <3>2 DEF OnBy1, Stays, SameFile
    <3>5. AtPosition(s.f, s.r) => /\ InPlace(b.f, b.r)
                                 /\ SectorAt(read.f, read.r.firstCluster, read.r.filelength) # NoSector
      <4>1. SUFFICES ASSUME AtPosition(s.f, s.r)
                     PROVE  /\ InPlace(b.f, b.r)
                            /\ SectorAt(read.f, read.r.firstCluster, read.r.filelength) # NoSector
        OBVIOUS
      <4>2. s.r.filelength > 0
        BY <1>0, <1>2
      <4>3. /\ InPlace(s.f, s.r) /\ SectorAt(s.f, s.r.firstCluster, s.r.filelength) # NoSector
        BY <4>1, <4>2 DEF AtPosition
      <4>4. s.r.loadedSector
        BY <4>3 DEF InPlace
      <4> QED
        BY <2>2, <3>4, <4>3, <4>4 DEF Stays
    <3>6. CASE read.r.curSectOff < SectorSize
      <4>1. t = read
        BY <2>1, <2>5, <3>6
      <4>2. Keeps(read.f, read.r)
        BY <3>1, <3>2, <3>3, <3>6 DEF Keeps, OnBy1
      <4>3. AtPosition(s.f, s.r) => AtPosition(read.f, read.r)
        <5>1. SUFFICES ASSUME AtPosition(s.f, s.r)
                       PROVE  AtPosition(read.f, read.r)
          OBVIOUS
        <5>2. InPlace(read.f, read.r)
          BY <3>1, <3>2, <3>5, <3>6, <5>1, InPlaceNext
        <5> QED
          BY <3>5, <5>1, <5>2 DEF AtPosition
      <4> QED
        BY <3>4, <4>1, <4>2, <4>3
    <3>7. CASE ~(read.r.curSectOff < SectorSize)
      <4>1. t = after
        BY <2>1, <2>5, <3>7
      <4>2. Located(read, u) /\ u.f = read.f
        BY <3>3, FindIs
      <4> HIDE DEF u
      <4>3. Sound(u.f, H) /\ after = Turned(u)
        BY <3>3, <4>2
      <4> HIDE DEF after
      <4>4. /\ after \in Pairs /\ after.f = u.f /\ SameFile(after.r, read.r) /\ Keeps(after.f, after.r)
            /\ after.r.firstCluster = read.r.firstCluster
            /\ after.r.filelength = read.r.filelength
            /\ after.r.seekpos = read.r.seekpos
            /\ after.r.currentSector = SectorAt(u.f, read.r.firstCluster, read.r.seekpos)
            /\ after.r.currentSector # NoSector => after.r.loadedSector /\ after.r.curSectOff = 0
        BY <3>3, <4>2, <4>3, NextLoaded
      <4>5. Stays(s, after)
        BY <3>4, <4>2, <4>4 DEF Stays, SameFile
      <4>6. AtPosition(s.f, s.r) => AtPosition(after.f, after.r)
        <5>1. SUFFICES ASSUME AtPosition(s.f, s.r)
                       PROVE  AtPosition(after.f, after.r)
          OBVIOUS
        <5>2. SectorAt(read.f, read.r.firstCluster, read.r.seekpos) # NoSector
          BY <3>3, <3>5, <5>1, SectorBefore
        <5>3. read.r.seekpos % SectorSize = 0
          BY <3>1, <3>2, <3>5, <3>7, <5>1, InPlaceNext
        <5>4. InPlace(after.f, after.r)
          BY <4>2, <4>4, <5>2, <5>3 DEF InPlace
        <5> QED
          BY <3>5, <4>2, <4>4, <5>1, <5>4 DEF AtPosition
      <4> QED
        BY <4>1, <4>4, <4>5, <4>6
    <3> QED
      BY <3>6, <3>7
  <2> QED
    BY <2>4, <2>5
<1> QED
  BY <1>1, <1>2

LEMMA SoughtIs ==
  ASSUME NEW s \in Pairs, NEW H, Sound(s.f, H), s.r.firstCluster \in H,
         Keeps(s.f, s.r), NEW pos \in 0 .. MaxLength, NEW t, t = Sought(s, pos)
  PROVE  /\ Stays(s, t) /\ Keeps(t.f, t.r)
         /\ AtPosition(s.f, s.r) => AtPosition(t.f, t.r)
<1>0. /\ s.r.filelength \in Nat /\ s.r.filelength \in 0 .. MaxLength
      /\ SectorSize \in Nat \ {0} /\ s.r.curSectOff \in 0 .. SectorSize
  BY FieldsAre, Sizes
<1> DEFINE q == Min({pos, s.r.filelength})
           moved == [s EXCEPT !.r.seekpos = q]
           u == Find(moved)
           off == q % SectorSize
<1>1. q \in 0 .. MaxLength /\ q <= s.r.filelength
  <2>1. {pos, s.r.filelength} \in SUBSET Nat /\ {pos, s.r.filelength} # {}
    BY <1>0
  <2>2. q \in {pos, s.r.filelength} /\ \A y \in {pos, s.r.filelength} : q <= y
    BY <2>1, MinIs
  <2> QED
    BY <1>0, <2>2
<1>2. t = IF u.r.currentSector = NoSector THEN [u EXCEPT !.r.loadedSector = FALSE]
          ELSE [u EXCEPT !.r.curSectOff = u.r.seekpos % SectorSize]
  BY DEF Sought
<1> HIDE DEF q
<1>3. OnTo(s, moved, s.r.curSectOff, q)
  BY <1>1 DEF OnTo, Pairs, OpenFile, SameFile
<1> HIDE DEF moved
<1>4. moved \in Pairs /\ Sound(moved.f, H) /\ moved.r.firstCluster \in H
  BY <1>3 DEF OnTo
<1>5. Located(moved, u) /\ u.f = moved.f
  BY <1>4, FindIs
<1> HIDE DEF u
<1>6. /\ u \in Pairs /\ u.f = s.f /\ SameFile(u.r, s.r)
      /\ u.r.firstCluster = s.r.firstCluster /\ u.r.filelength = s.r.filelength
      /\ u.r.seekpos = q /\ u.r.curSectOff = s.r.curSectOff
      /\ u.r.currentSector = SectorAt(s.f, s.r.firstCluster, q)
      /\ u.r.loadedSector = s.r.loadedSector
  BY <1>3, <1>5 DEF Located, OnTo, SameFile
<1>7. off \in 0 .. SectorSize - 1 /\ off \in 0 .. SectorSize /\ off < SectorSize /\ q \in Nat
  BY <1>0, <1>1, Division
<1>8. AtPosition(s.f, s.r) /\ s.r.filelength > 0 => u.r.currentSector # NoSector
  BY <1>0, <1>1, <1>6, <1>7, SectorBefore DEF AtPosition
<1>9. CASE u.r.currentSector = NoSector
  <2>1. Unloaded(u, t)
    BY <1>2, <1>6, <1>9, UnloadedIs
  <2>2. Stays(s, t)
    BY <1>6, <2>1 DEF Unloaded, Stays, SameFile
  <2>3. Keeps(t.f, t.r)
    BY <1>0, <1>1, <1>6, <2>1 DEF Unloaded, Keeps
  <2>4. AtPosition(s.f, s.r) => AtPosition(t.f, t.r)
    BY <1>0, <1>8, <1>9, <2>2 DEF AtPosition, Stays
  <2> QED
    BY <2>2, <2>3, <2>4
<1>10. CASE u.r.currentSector # NoSector
  <2>1. t = [u EXCEPT !.r.curSectOff = off]
    BY <1>2, <1>6, <1>10
  <2>2. off = q % SectorSize
    OBVIOUS
  <2> HIDE DEF off
  <2>3. OnTo(u, t, off, q)
    BY <1>6, <1>7, <2>1 DEF OnTo, Pairs, OpenFile, SameFile
  <2>4. Stays(s, t)
    BY <1>6, <2>3 DEF OnTo, Stays, SameFile
  <2>5. u.r.currentSector \in Chain(s.f, s.r.firstCluster)
    BY <1>6, <1>7, <1>10, SectorAtIs
  <2>6. s.r.filelength = 0 => off = 0
    <3>1. s.r.filelength = 0 => q = 0
      BY <1>1, <1>7
    <3>2. 0 % SectorSize = 0
      BY <1>0
    <3> QED
      BY <2>2, <3>1, <3>2
  <2>7. Keeps(t.f, t.r)
    BY <1>0, <1>1, <1>6, <1>7, <2>3, <2>5, <2>6 DEF OnTo, Keeps
  <2>8. AtPosition(s.f, s.r) => AtPosition(t.f, t.r)
    BY <1>6, <2>2, <2>3 DEF AtPosition, InPlace, OnTo
  <2> QED
    BY <2>4, <2>7, <2>8
<1> QED
  BY <1>9, <1>10

LEMMA NewFileIs ==
  ASSUME root \in [1 .. RootEntries -> DirEntry], fat \in Tables,
         NEW name \in Names, NEW place \in 1 .. RootEntries, NEW writes \in BOOLEAN,
         NEW length \in 0 .. MaxLength,
         NEW H, Sound(fat, H), root[place].first \in H,
         NEW t, t = NewFile(name, place, writes, length)
  PROVE  /\ t \in OpenFile /\ t.name = name /\ t.dirIndex = place
         /\ t.firstCluster = root[place].first
         /\ t.filelength = length
         /\ Keeps(fat, t)
         /\ length > 0 => InPlace(fat, t)
<1> DEFINE first == root[place].first
           s == [r |-> [name |-> name, writes |-> writes,
                        firstCluster |-> first, seekpos |-> 0,
                        filelength |-> length, currentSector |-> 0, curSectOff |-> 0,
                        loadedSector |-> FALSE, dirIndex |-> place],
                 f |-> fat]
           u == Find(s)
           l == Load(u, 0)
<1>0. 0 \in 0 .. MaxLength /\ 0 \in 0 .. SectorSize /\ SectorSize > 0 /\ 0 \in Sector
  BY Sizes DEF Sector
<1>1. t = IF length = 0 THEN s.r ELSE l.r
  BY DEF NewFile
<1>2. first \in Sector /\ first \in H
  BY DEF DirEntry
<1> HIDE DEF first
<1>3. s \in Pairs /\ s.f = fat
  BY <1>0, <1>2 DEF Pairs, OpenFile
<1>4. /\ s.r.name = name /\ s.r.dirIndex = place /\ s.r.firstCluster = first
      /\ s.r.filelength = length /\ s.r.seekpos = 0 /\ s.r.curSectOff = 0
      /\ s.r.loadedSector = FALSE
  OBVIOUS
<1> HIDE DEF s
<1>5. CASE length = 0
  <2>1. t = s.r
    BY <1>1, <1>5
  <2>2. Keeps(fat, s.r)
    BY <1>4, <1>5 DEF Keeps
  <2> QED
    BY <1>3, <1>4, <1>5, <2>1, <2>2 DEF Pairs, first
<1>6. CASE length # 0
  <2>1. t = l.r
    BY <1>1, <1>6
  <2>2. Located(s, u) /\ u.f = fat
    BY <1>2, <1>3, <1>4, FindIs
  <2> HIDE DEF u
  <2>3. u \in Pairs
    BY <2>2 DEF Located
  <2>4. /\ l \in Pairs
        /\ SameFile(l.r, u.r)
        /\ l.r.firstCluster = u.r.firstCluster
        /\ l.r.seekpos = u.r.seekpos
        /\ l.r.filelength = u.r.filelength
        /\ l.r.currentSector = u.r.currentSector
        /\ l.r.curSectOff = 0
        /\ l.r.loadedSector = TRUE
    BY <1>0, <2>3, LoadIs
  <2> HIDE DEF l
  <2>5. /\ SectorAt(fat, first, 0) = first /\ 0 % SectorSize = 0
        /\ first \in Chain(fat, first)
    BY <1>2, FirstSector, ChainIs
  <2>6. Keeps(fat, l.r)
    BY <1>0, <1>4, <1>6, <2>2, <2>4, <2>5 DEF Located, Keeps
  <2>7. InPlace(fat, l.r)
    BY <1>4, <2>2, <2>4, <2>5 DEF Located, InPlace
  <2> QED
    BY <1>4, <2>1, <2>2, <2>4, <2>6, <2>7 DEF Located, SameFile, Pairs, first
<1> QED
  BY <1>5, <1>6

-----------------------------------------------------------------------------
(* The inductive invariant.                                                *)

Directories == [1 .. RootEntries -> DirEntry]
HandleTables == [Handles -> OpenFile \cup {Closed}]

\* The entry or a handle of the file n has the first cluster c.
Has(rt, hs, n, c) ==
  \/ \E i \in 1 .. RootEntries : rt[i].name = n /\ rt[i].first = c
  \/ \E h \in Handles : hs[h] # Closed /\ hs[h].name = n /\ hs[h].firstCluster = c

Heads(rt, hs) == {0} \cup {c \in Sector : \E n \in Names : Has(rt, hs, n, c)}

\* A first cluster is of one file.
OneOwner(rt, hs) ==
  \A n, m \in Names : \A c \in Sector \ {0} :
    Has(rt, hs, n, c) /\ Has(rt, hs, m, c) => n = m

\* Entries never used are the last ones, and no name is there twice.
Ordered(rt) ==
  /\ \A i, j \in 1 .. RootEntries : i < j /\ rt[i].name = "end" => rt[j].name = "end"
  /\ \A i, j \in 1 .. RootEntries :
       rt[i].name \in Names /\ rt[i].name = rt[j].name => i = j

\* A handle has the entry of its file.
Linked(f, rt, hs) ==
  \A h \in Handles : hs[h] # Closed =>
    rt[hs[h].dirIndex].name = hs[h].name /\ Keeps(f, hs[h])

IInv(f, rt, hs) ==
  /\ rt \in Directories /\ hs \in HandleTables
  /\ Sound(f, Heads(rt, hs)) /\ OneOwner(rt, hs) /\ Ordered(rt) /\ Linked(f, rt, hs)

-----------------------------------------------------------------------------
(* The directory.                                                          *)

LEMMA NamesAre ==
  \A n \in Names : n # "erased" /\ n # "end" /\ n # "closed"
BY FatAssumption

LEMMA OpenIs ==
  ASSUME NEW hs \in HandleTables, NEW h \in Handles, hs[h] # Closed
  PROVE  /\ hs[h] \in OpenFile /\ hs[h].name \in Names /\ hs[h].dirIndex \in 1 .. RootEntries
         /\ hs[h].firstCluster \in Sector
BY DEF HandleTables, OpenFile

LEMMA OpenIsNotClosed ==
  ASSUME NEW r \in OpenFile
  PROVE  r # Closed
BY NamesAre DEF OpenFile, Closed

\* getFileDirEntry finds a name that is anywhere in the directory.
LEMMA PlacesAre ==
  ASSUME root \in Directories, Ordered(root), NEW name \in Names
  PROVE  Places(name) = {i \in 1 .. RootEntries : root[i].name = name}
<1>1. ASSUME NEW i \in 1 .. RootEntries, root[i].name = name
      PROVE  Reached(i)
  <2>1. SUFFICES ASSUME NEW j \in 1 .. i, root[j].name = "end"
                 PROVE  FALSE
    BY DEF Reached
  <2>2. j \in 1 .. RootEntries /\ name # "end"
    BY Sizes, NamesAre
  <2>3. j = i \/ j < i
    OBVIOUS
  <2> QED
    BY <1>1, <2>1, <2>2, <2>3 DEF Ordered
<1> QED
  BY <1>1 DEF Places

LEMMA PlaceIs ==
  ASSUME root \in Directories, Ordered(root), NEW name \in Names, Exists(name)
  PROVE  /\ Place(name) \in 1 .. RootEntries /\ root[Place(name)].name = name
         /\ \A i \in 1 .. RootEntries : root[i].name = name => i = Place(name)
         /\ root[Place(name)] \in DirEntry
<1> DEFINE S == {i \in 1 .. RootEntries : root[i].name = name}
           p == Place(name)
<1>1. Places(name) = S
  BY PlacesAre
<1>2. S \in SUBSET Nat /\ S # {}
  BY <1>1, Sizes DEF Exists
<1>3. p \in S
  BY <1>1, <1>2, MinIs DEF Place
<1> HIDE DEF p
<1>4. p \in 1 .. RootEntries /\ root[p].name = name
  BY <1>3
<1>5. \A i \in 1 .. RootEntries : root[i].name = name => i = p
  BY <1>4 DEF Ordered
<1> QED
  BY <1>4, <1>5 DEF p, Directories

LEMMA NotThere ==
  ASSUME root \in Directories, Ordered(root), NEW name \in Names
  PROVE  Exists(name) = \E i \in 1 .. RootEntries : root[i].name = name
BY PlacesAre DEF Exists

\* The entry for a new file, and those before it are in use.
LEMMA SpareIs ==
  ASSUME Spare # {}, NEW p, p = Min(Spare)
  PROVE  /\ p \in 1 .. RootEntries /\ root[p].name \in {"erased", "end"}
         /\ \A i \in 1 .. RootEntries : root[i].name = "end" => p <= i
<1>1. Spare \in SUBSET Nat
  BY Sizes DEF Spare
<1>2. p \in Spare /\ \A i \in Spare : p <= i
  BY <1>1, MinIs
<1> QED
  BY <1>2 DEF Spare

LEMMA OrderedIfSame ==
  ASSUME NEW rt, NEW rt2, Ordered(rt), \A i \in 1 .. RootEntries : rt2[i].name = rt[i].name
  PROVE  Ordered(rt2)
BY DEF Ordered

-----------------------------------------------------------------------------
(* Steps, of the table and of who has which chain.                         *)

\* No file but n gets a chain, and n the one from c.
Gains(rt, hs, rt2, hs2, n, c) ==
  \A m \in Names, d \in Sector : Has(rt2, hs2, m, d) => Has(rt, hs, m, d) \/ (m = n /\ d = c)

LEMMA Gained ==
  ASSUME NEW f, NEW rt, NEW hs, OneOwner(rt, hs), NEW n \in Names, NEW c \in Sector,
         Sound(f, Heads(rt, hs) \cup {c}),
         c = 0 \/ Has(rt, hs, n, c) \/ c \notin Heads(rt, hs),
         NEW rt2, NEW hs2, Gains(rt, hs, rt2, hs2, n, c)
  PROVE  Sound(f, Heads(rt2, hs2)) /\ OneOwner(rt2, hs2)
<1>1. Heads(rt2, hs2) \subseteq Heads(rt, hs) \cup {c}
  BY DEF Heads, Gains
<1>2. 0 \in Heads(rt2, hs2)
  BY DEF Heads
<1>3. OneOwner(rt2, hs2)
  <2>1. SUFFICES ASSUME NEW m \in Names, NEW k \in Names, NEW d \in Sector \ {0},
                        Has(rt2, hs2, m, d), Has(rt2, hs2, k, d)
                 PROVE  m = k
    BY DEF OneOwner
  <2>2. (Has(rt, hs, m, d) \/ (m = n /\ d = c)) /\ (Has(rt, hs, k, d) \/ (k = n /\ d = c))
    BY <2>1 DEF Gains
  <2>3. Has(rt, hs, m, d) => d \in Heads(rt, hs)
    BY DEF Heads
  <2>4. Has(rt, hs, k, d) => d \in Heads(rt, hs)
    BY DEF Heads
  <2> QED
    BY <2>2, <2>3, <2>4 DEF OneOwner
<1> QED
  BY <1>1, <1>2, <1>3, SoundOfFewer

\* The chain of the file n goes to k, which had none, or to nobody.
Passes(rt, hs, rt2, hs2, n, k, c) ==
  \A m \in Names, d \in Sector :
    Has(rt2, hs2, m, d) => (m # n /\ Has(rt, hs, m, d)) \/ (m = k /\ d = c)

LEMMA Passed ==
  ASSUME NEW f, NEW rt, NEW hs, OneOwner(rt, hs), NEW n \in Names, NEW c \in Sector,
         Sound(f, Heads(rt, hs)), Has(rt, hs, n, c),
         NEW k \in Names, NEW rt2, NEW hs2, Passes(rt, hs, rt2, hs2, n, k, c)
  PROVE  Sound(f, Heads(rt2, hs2)) /\ OneOwner(rt2, hs2)
<1>1. Heads(rt2, hs2) \subseteq Heads(rt, hs)
  BY DEF Heads, Passes
<1>2. 0 \in Heads(rt2, hs2)
  BY DEF Heads
<1>3. OneOwner(rt2, hs2)
  <2>1. SUFFICES ASSUME NEW m \in Names, NEW l \in Names, NEW d \in Sector \ {0},
                        Has(rt2, hs2, m, d), Has(rt2, hs2, l, d)
                 PROVE  m = l
    BY DEF OneOwner
  <2>2. /\ (m # n /\ Has(rt, hs, m, d)) \/ (m = k /\ d = c)
        /\ (l # n /\ Has(rt, hs, l, d)) \/ (l = k /\ d = c)
    BY <2>1 DEF Passes
  <2> QED
    BY <2>2 DEF OneOwner
<1> QED
  BY <1>1, <1>2, <1>3, SoundOfFewer

\* The chains of open files are longer, or the same.
LEMMA KeptLinks ==
  ASSUME NEW f, NEW g, NEW H, Extends(f, g, H), NEW r \in OpenFile, r.firstCluster \in H, Keeps(f, r)
  PROVE  Keeps(g, r)
BY DEF Extends, Keeps, OpenFile

LEMMA HeadsAre ==
  ASSUME NEW rt \in Directories, NEW hs \in HandleTables
  PROVE  /\ \A h \in Handles : hs[h] # Closed =>
              hs[h].firstCluster \in Heads(rt, hs) /\ Has(rt, hs, hs[h].name, hs[h].firstCluster)
         /\ \A i \in 1 .. RootEntries : rt[i].name \in Names =>
              rt[i].first \in Heads(rt, hs) /\ Has(rt, hs, rt[i].name, rt[i].first)
<1>1. \A h \in Handles : hs[h] # Closed => Has(rt, hs, hs[h].name, hs[h].firstCluster)
  BY DEF Has
<1>2. \A i \in 1 .. RootEntries : Has(rt, hs, rt[i].name, rt[i].first) /\ rt[i].first \in Sector
  BY DEF Has, Directories, DirEntry
<1> QED
  BY <1>1, <1>2, OpenIs DEF Heads

-----------------------------------------------------------------------------
(* Each kind of change of handles and entries keeps the invariant.         *)

AtHandle(hs, h, r, hs2) == hs2 = [hs EXCEPT ![h] = r]
AtEntry(rt, d, size, first, rt2) == rt2 = [rt EXCEPT ![d].size = size, ![d].first = first]

LEMMA PutHandle ==
  ASSUME NEW hs \in HandleTables, NEW h \in Handles, NEW r, r \in OpenFile \/ r = Closed,
         NEW hs2, AtHandle(hs, h, r, hs2)
  PROVE  hs2 \in HandleTables /\ hs2[h] = r /\ \A g \in Handles \ {h} : hs2[g] = hs[g]
BY DEF HandleTables, AtHandle

\* A handle and the table.
LEMMA PairIs ==
  ASSUME NEW f, NEW rt, NEW hs, IInv(f, rt, hs), NEW h \in Handles, hs[h] # Closed,
         NEW s, s = [r |-> hs[h], f |-> f]
  PROVE  /\ s \in Pairs /\ s.r = hs[h] /\ s.f = f
         /\ s.r.firstCluster \in Heads(rt, hs) /\ Sound(s.f, Heads(rt, hs)) /\ Keeps(s.f, s.r)
         /\ Has(rt, hs, hs[h].name, hs[h].firstCluster)
         /\ hs[h].name \in Names /\ hs[h].firstCluster \in Sector
         /\ hs[h].dirIndex \in 1 .. RootEntries /\ rt[hs[h].dirIndex].name = hs[h].name
<1>1. rt \in Directories /\ hs \in HandleTables /\ Sound(f, Heads(rt, hs)) /\ Linked(f, rt, hs)
  BY DEF IInv
<1>2. /\ hs[h] \in OpenFile /\ hs[h].name \in Names /\ hs[h].dirIndex \in 1 .. RootEntries
      /\ hs[h].firstCluster \in Sector
  BY <1>1, OpenIs
<1>3. f \in Tables
  BY <1>1 DEF Sound
<1>4. s \in Pairs /\ s.r = hs[h] /\ s.f = f
  BY <1>2, <1>3 DEF Pairs
<1>5. hs[h].firstCluster \in Heads(rt, hs) /\ Has(rt, hs, hs[h].name, hs[h].firstCluster)
  BY <1>1, HeadsAre
<1> QED
  BY <1>1, <1>2, <1>4, <1>5 DEF Linked

\* Read, Seek.
LEMMA HandleMoved ==
  ASSUME NEW f, NEW rt, NEW hs, IInv(f, rt, hs), NEW h \in Handles, hs[h] # Closed,
         NEW s, s = [r |-> hs[h], f |-> f], NEW t, Stays(s, t), Keeps(t.f, t.r),
         NEW hs2, AtHandle(hs, h, t.r, hs2)
  PROVE  IInv(f, rt, hs2)
<1>1. /\ s.r = hs[h] /\ s.f = f
      /\ Has(rt, hs, hs[h].name, hs[h].firstCluster)
      /\ hs[h].name \in Names /\ hs[h].firstCluster \in Sector
      /\ hs[h].firstCluster \in Heads(rt, hs)
      /\ rt[hs[h].dirIndex].name = hs[h].name
  BY PairIs
<1>2. /\ t.r \in OpenFile /\ t.f = f /\ t.r.name = hs[h].name /\ t.r.dirIndex = hs[h].dirIndex
      /\ t.r.firstCluster = hs[h].firstCluster
  BY <1>1, FieldsAre DEF Stays, SameFile
<1>3. /\ rt \in Directories /\ hs \in HandleTables /\ Sound(f, Heads(rt, hs)) /\ OneOwner(rt, hs)
      /\ Ordered(rt) /\ Linked(f, rt, hs)
  BY DEF IInv
<1>4. hs2 \in HandleTables /\ hs2[h] = t.r /\ \A g \in Handles \ {h} : hs2[g] = hs[g]
  BY <1>2, <1>3, PutHandle
<1>5. Gains(rt, hs, rt, hs2, hs[h].name, hs[h].firstCluster)
  BY <1>2, <1>4 DEF Gains, Has
<1>6. Heads(rt, hs) \cup {hs[h].firstCluster} = Heads(rt, hs)
  BY <1>1
<1>7. Sound(f, Heads(rt, hs2)) /\ OneOwner(rt, hs2)
  BY <1>1, <1>3, <1>5, <1>6, Gained
<1>8. Linked(f, rt, hs2)
  BY <1>1, <1>2, <1>3, <1>4 DEF Linked
<1> QED
  BY <1>3, <1>4, <1>7, <1>8 DEF IInv

\* Write.
LEMMA EntryIs ==
  ASSUME NEW rt \in Directories, NEW d \in 1 .. RootEntries, NEW size \in 0 .. MaxLength,
         NEW first \in Sector,
         NEW rt2, AtEntry(rt, d, size, first, rt2)
  PROVE  /\ rt2 \in Directories /\ rt2[d].name = rt[d].name /\ rt2[d].first = first /\ rt2[d].size = size
         /\ \A i \in (1 .. RootEntries) \ {d} : rt2[i] = rt[i]
<1>1. rt[d] \in DirEntry
  BY DEF Directories
<1>2. rt2 = [rt EXCEPT ![d] = [[rt[d] EXCEPT !.size = size] EXCEPT !.first = first]]
  BY DEF Directories, AtEntry
<1> DEFINE e == [[rt[d] EXCEPT !.size = size] EXCEPT !.first = first]
<1>3. e \in DirEntry /\ e.name = rt[d].name /\ e.first = first /\ e.size = size
  BY <1>1 DEF DirEntry
<1>4. rt2 = [rt EXCEPT ![d] = e]
  BY <1>2
<1> HIDE DEF e
<1>5. rt2 \in Directories /\ rt2[d] = e /\ \A i \in (1 .. RootEntries) \ {d} : rt2[i] = rt[i]
  BY <1>3, <1>4 DEF Directories
<1> QED
  BY <1>3, <1>5

LEMMA EntryWritten ==
  ASSUME NEW f, NEW rt, NEW hs, IInv(f, rt, hs), NEW h \in Handles, hs[h] # Closed,
         NEW s, s = [r |-> hs[h], f |-> f], NEW t, Wrote(Heads(rt, hs), s, t), Keeps(t.f, t.r),
         NEW hs2, AtHandle(hs, h, t.r, hs2),
         NEW rt2, AtEntry(rt, hs[h].dirIndex, t.r.filelength, t.r.firstCluster, rt2)
  PROVE  IInv(t.f, rt2, hs2)
<1> DEFINE n == hs[h].name
           d == hs[h].dirIndex
           c == t.r.firstCluster
<1>1. /\ s.r = hs[h] /\ s.f = f
      /\ Has(rt, hs, n, hs[h].firstCluster)
      /\ n \in Names /\ d \in 1 .. RootEntries
      /\ rt[d].name = n
  BY PairIs
<1>2. /\ t.r \in OpenFile /\ t.r.name = n /\ t.r.dirIndex = d
      /\ Sound(t.f, Heads(rt, hs) \cup {c}) /\ Extends(f, t.f, Heads(rt, hs))
      /\ c \in {hs[h].firstCluster, 0} \/ c \notin Heads(rt, hs)
  BY <1>1, FieldsAre DEF Wrote, SameFile
<1>3. c \in Sector /\ t.r.filelength \in 0 .. MaxLength
  BY <1>2 DEF OpenFile
<1>4. /\ rt \in Directories /\ hs \in HandleTables /\ Sound(f, Heads(rt, hs)) /\ OneOwner(rt, hs)
      /\ Ordered(rt) /\ Linked(f, rt, hs)
  BY DEF IInv
<1>5. hs2 \in HandleTables /\ hs2[h] = t.r /\ \A g \in Handles \ {h} : hs2[g] = hs[g]
  BY <1>2, <1>4, PutHandle
<1>6. /\ rt2 \in Directories /\ rt2[d].name = rt[d].name /\ rt2[d].first = c
      /\ \A i \in (1 .. RootEntries) \ {d} : rt2[i] = rt[i]
  BY <1>1, <1>2, <1>3, <1>4, EntryIs
<1>12. hs2[h].name = n /\ hs2[h].firstCluster = c /\ rt2[d].name = n
  BY <1>1, <1>2, <1>5, <1>6
<1> HIDE DEF c, d, n
<1>7. Gains(rt, hs, rt2, hs2, n, c)
  <2>1. SUFFICES ASSUME NEW m \in Names, NEW x \in Sector, Has(rt2, hs2, m, x)
                 PROVE  Has(rt, hs, m, x) \/ (m = n /\ x = c)
    BY DEF Gains
  <2>2. CASE \E i \in 1 .. RootEntries : rt2[i].name = m /\ rt2[i].first = x
    BY <1>6, <1>12, <2>2 DEF Has
  <2>3. CASE \E g \in Handles : hs2[g] # Closed /\ hs2[g].name = m /\ hs2[g].firstCluster = x
    BY <1>5, <1>12, <2>3 DEF Has
  <2> QED
    BY <2>1, <2>2, <2>3 DEF Has
<1>8. c = 0 \/ Has(rt, hs, n, c) \/ c \notin Heads(rt, hs)
  BY <1>1, <1>2
<1>9. Sound(t.f, Heads(rt2, hs2)) /\ OneOwner(rt2, hs2)
  BY <1>1, <1>2, <1>3, <1>4, <1>7, <1>8, Gained
<1>10. Ordered(rt2)
  BY <1>4, <1>6, OrderedIfSame
<1>11. Linked(t.f, rt2, hs2)
  <2>1. SUFFICES ASSUME NEW g \in Handles, hs2[g] # Closed
                 PROVE  rt2[hs2[g].dirIndex].name = hs2[g].name /\ Keeps(t.f, hs2[g])
    BY DEF Linked
  <2>2. CASE g = h
    BY <1>1, <1>2, <1>5, <1>6, <2>2
  <2>3. CASE g # h
    <3>1. hs2[g] = hs[g] /\ hs[g] # Closed
      BY <1>5, <2>1, <2>3
    <3>2. /\ hs[g] \in OpenFile /\ hs[g].dirIndex \in 1 .. RootEntries
          /\ hs[g].firstCluster \in Heads(rt, hs)
          /\ rt[hs[g].dirIndex].name = hs[g].name /\ Keeps(f, hs[g])
      BY <1>4, <3>1, OpenIs, HeadsAre DEF Linked
    <3>3. Keeps(t.f, hs[g])
      BY <1>2, <3>2, KeptLinks
    <3> QED
      BY <1>6, <3>1, <3>2, <3>3
  <2> QED
    BY <2>2, <2>3
<1> QED
  BY <1>5, <1>6, <1>9, <1>10, <1>11 DEF IInv

\* Open, Truncate, Create.
LEMMA HandleAdded ==
  ASSUME NEW f, NEW rt, NEW hs, IInv(f, rt, hs), NEW h \in Handles, hs[h] = Closed,
         NEW r \in OpenFile, Keeps(f, r), NEW d \in 1 .. RootEntries, r.dirIndex = d,
         NEW hs2, AtHandle(hs, h, r, hs2),
         NEW rt2 \in Directories, Ordered(rt2), \A i \in (1 .. RootEntries) \ {d} : rt2[i] = rt[i],
         rt2[d].name = r.name, rt2[d].first = r.firstCluster,
         \/ rt[d].name = r.name /\ rt[d].first = r.firstCluster
         \/ rt[d].name \notin Names /\ r.firstCluster = 0
  PROVE  IInv(f, rt2, hs2)
<1> DEFINE n == r.name
           c == r.firstCluster
<1>1. n \in Names /\ c \in Sector
  BY DEF OpenFile
<1>2. /\ rt \in Directories /\ hs \in HandleTables /\ Sound(f, Heads(rt, hs)) /\ OneOwner(rt, hs)
      /\ Ordered(rt) /\ Linked(f, rt, hs)
  BY DEF IInv
<1>3. hs2 \in HandleTables /\ hs2[h] = r /\ \A g \in Handles \ {h} : hs2[g] = hs[g]
  BY <1>2, PutHandle
<1>4. Gains(rt, hs, rt2, hs2, n, c)
  BY <1>3 DEF Gains, Has
<1>5. c = 0 \/ Has(rt, hs, n, c)
  BY DEF Has
<1>6. Heads(rt, hs) \cup {c} = Heads(rt, hs)
  BY <1>1, <1>5 DEF Heads
<1> HIDE DEF c, n
<1>7. Sound(f, Heads(rt2, hs2)) /\ OneOwner(rt2, hs2)
  BY <1>1, <1>2, <1>4, <1>5, <1>6, Gained
<1>8. Linked(f, rt2, hs2)
  <2>1. SUFFICES ASSUME NEW g \in Handles, hs2[g] # Closed
                 PROVE  rt2[hs2[g].dirIndex].name = hs2[g].name /\ Keeps(f, hs2[g])
    BY DEF Linked
  <2>2. CASE g = h
    BY <1>3, <2>2
  <2>3. CASE g # h
    <3>1. hs2[g] = hs[g] /\ hs[g] # Closed
      BY <1>3, <2>1, <2>3
    <3>2. /\ hs[g].name \in Names /\ hs[g].dirIndex \in 1 .. RootEntries
          /\ rt[hs[g].dirIndex].name = hs[g].name /\ Keeps(f, hs[g])
      BY <1>2, <3>1, OpenIs DEF Linked
    <3>3. rt2[hs[g].dirIndex].name = rt[hs[g].dirIndex].name
      BY <3>2
    <3> QED
      BY <3>1, <3>2, <3>3
  <2> QED
    BY <2>2, <2>3
<1> QED
  BY <1>3, <1>7, <1>8 DEF IInv

\* Close.
LEMMA HandleClosed ==
  ASSUME NEW f, NEW rt, NEW hs, IInv(f, rt, hs), NEW h \in Handles, hs[h] # Closed,
         NEW hs2, AtHandle(hs, h, Closed, hs2)
  PROVE  IInv(f, rt, hs2)
<1> DEFINE n == hs[h].name
           c == hs[h].firstCluster
<1>1. n \in Names /\ c \in Sector /\ Has(rt, hs, n, c) /\ c \in Heads(rt, hs)
  <2> DEFINE s == [r |-> hs[h], f |-> f]
  <2>1. s.r = hs[h]
    OBVIOUS
  <2>2. s = [r |-> hs[h], f |-> f]
    OBVIOUS
  <2> HIDE DEF s
  <2> QED
    BY <2>1, <2>2, PairIs
<1>2. /\ rt \in Directories /\ hs \in HandleTables /\ Sound(f, Heads(rt, hs)) /\ OneOwner(rt, hs)
      /\ Ordered(rt) /\ Linked(f, rt, hs)
  BY DEF IInv
<1>3. hs2 \in HandleTables /\ hs2[h] = Closed /\ \A g \in Handles \ {h} : hs2[g] = hs[g]
  BY <1>2, PutHandle
<1>4. Gains(rt, hs, rt, hs2, n, c)
  BY <1>3 DEF Gains, Has
<1>5. Heads(rt, hs) \cup {c} = Heads(rt, hs)
  BY <1>1
<1> HIDE DEF c, n
<1>6. Sound(f, Heads(rt, hs2)) /\ OneOwner(rt, hs2)
  BY <1>1, <1>2, <1>4, <1>5, Gained
<1>7. Linked(f, rt, hs2)
  BY <1>2, <1>3 DEF Linked
<1> QED
  BY <1>2, <1>3, <1>6, <1>7 DEF IInv

\* No handle is open on the file.
Unused(hs, n) == \A h \in Handles : hs[h] # Closed => hs[h].name # n

LEMMA ErasedIs ==
  Erased \in DirEntry /\ Erased.name = "erased"
BY Sizes DEF Erased, NoEntry, DirEntry, Sector

AtPlace(rt, p, e, rt2) == rt2 = [rt EXCEPT ![p] = e]

LEMMA PutEntry ==
  ASSUME NEW rt \in Directories, NEW p \in 1 .. RootEntries, NEW e \in DirEntry,
         NEW rt2, AtPlace(rt, p, e, rt2)
  PROVE  rt2 \in Directories /\ rt2[p] = e /\ \A i \in (1 .. RootEntries) \ {p} : rt2[i] = rt[i]
BY DEF Directories, AtPlace

LEMMA OrderedErased ==
  ASSUME NEW rt \in Directories, Ordered(rt), NEW p \in 1 .. RootEntries, rt[p].name \in Names,
         NEW rt2, rt2[p].name = "erased", \A i \in (1 .. RootEntries) \ {p} : rt2[i] = rt[i]
  PROVE  Ordered(rt2)
<1>1. "erased" \notin Names /\ rt[p].name # "end" /\ "erased" # "end"
  BY NamesAre
<1>2. ASSUME NEW i \in 1 .. RootEntries, NEW j \in 1 .. RootEntries, i < j, rt2[i].name = "end"
      PROVE  rt2[j].name = "end"
  <2>1. i # p /\ rt[i].name = "end"
    BY <1>1, <1>2
  <2>2. rt[j].name = "end" /\ j # p
    BY <1>1, <1>2, <2>1 DEF Ordered
  <2> QED
    BY <2>2
<1>3. ASSUME NEW i \in 1 .. RootEntries, NEW j \in 1 .. RootEntries,
             rt2[i].name \in Names, rt2[i].name = rt2[j].name
      PROVE  i = j
  <2>1. i # p /\ j # p
    BY <1>1, <1>3
  <2> QED
    BY <1>3, <2>1 DEF Ordered
<1> QED
  BY <1>2, <1>3 DEF Ordered

\* A new name at the first entry that is free.
LEMMA OrderedAdded ==
  ASSUME NEW rt \in Directories, Ordered(rt), NEW p \in 1 .. RootEntries,
         rt[p].name \in {"erased", "end"},
         \A i \in 1 .. RootEntries : rt[i].name = "end" => p <= i,
         NEW n \in Names, \A i \in 1 .. RootEntries : rt[i].name # n,
         NEW rt2, rt2[p].name = n, \A i \in (1 .. RootEntries) \ {p} : rt2[i] = rt[i]
  PROVE  Ordered(rt2)
<1>1. n # "end"
  BY NamesAre
<1>2. ASSUME NEW i \in 1 .. RootEntries, NEW j \in 1 .. RootEntries, i < j, rt2[i].name = "end"
      PROVE  rt2[j].name = "end"
  <2>1. i # p /\ rt[i].name = "end"
    BY <1>1, <1>2
  <2>2. rt[j].name = "end" /\ p <= i
    BY <1>2, <2>1 DEF Ordered
  <2>3. j # p
    BY <1>2, <2>2, Sizes
  <2> QED
    BY <2>2, <2>3
<1>3. ASSUME NEW i \in 1 .. RootEntries, NEW j \in 1 .. RootEntries,
             rt2[i].name \in Names, rt2[i].name = rt2[j].name
      PROVE  i = j
  <2>1. CASE i = p \/ j = p
    BY <1>3, <2>1
  <2>2. CASE i # p /\ j # p
    BY <1>3, <2>2 DEF Ordered
  <2> QED
    BY <2>1, <2>2
<1> QED
  BY <1>2, <1>3 DEF Ordered

\* Unlink.
LEMMA EntryErased ==
  ASSUME NEW f, NEW rt, NEW hs, IInv(f, rt, hs), NEW n \in Names, Unused(hs, n),
         NEW p \in 1 .. RootEntries, rt[p].name = n,
         NEW rt2, AtPlace(rt, p, Erased, rt2),
         NEW g, g = IF rt[p].first = 0 THEN f ELSE Deleted(f, rt[p].first)
  PROVE  IInv(g, rt2, hs) /\ Extends(f, g, Heads(rt2, hs))
<1> DEFINE c == rt[p].first
<1>1. /\ rt \in Directories /\ hs \in HandleTables /\ Sound(f, Heads(rt, hs)) /\ OneOwner(rt, hs)
      /\ Ordered(rt) /\ Linked(f, rt, hs)
  BY DEF IInv
<1>2. c \in Heads(rt, hs) /\ Has(rt, hs, n, c) /\ c \in Sector
  BY <1>1, HeadsAre DEF Directories, DirEntry
<1>3. g = IF c = 0 THEN f ELSE Deleted(f, c)
  OBVIOUS
<1>4. /\ rt2 \in Directories /\ rt2[p].name = "erased" /\ \A i \in (1 .. RootEntries) \ {p} : rt2[i] = rt[i]
  BY <1>1, ErasedIs, PutEntry
<1> HIDE DEF c
<1>5. Ordered(rt2)
  BY <1>1, <1>4, OrderedErased
<1>6. ASSUME NEW m \in Names, NEW d \in Sector, Has(rt2, hs, m, d)
      PROVE  m # n /\ Has(rt, hs, m, d)
  <2>1. CASE \E i \in 1 .. RootEntries : rt2[i].name = m /\ rt2[i].first = d
    <3>1. PICK i \in 1 .. RootEntries : rt2[i].name = m /\ rt2[i].first = d
      BY <2>1
    <3>2. i # p
      BY <1>4, <3>1, NamesAre
    <3>3. rt[i].name = m /\ rt[i].first = d
      BY <1>4, <3>1, <3>2
    <3>4. m # n
      BY <1>1, <3>2, <3>3 DEF Ordered
    <3> QED
      BY <3>3, <3>4 DEF Has
  <2>2. CASE \E h \in Handles : hs[h] # Closed /\ hs[h].name = m /\ hs[h].firstCluster = d
    BY <2>2 DEF Has, Unused
  <2> QED
    BY <1>6, <2>1, <2>2 DEF Has
<1>7. Passes(rt, hs, rt2, hs, n, n, c)
  BY <1>6 DEF Passes
<1>8. Sound(f, Heads(rt2, hs)) /\ OneOwner(rt2, hs)
  BY <1>1, <1>2, <1>7, Passed
<1>9. c # 0 => c \notin Heads(rt2, hs)
  <2>1. SUFFICES ASSUME c # 0, c \in Heads(rt2, hs)
                 PROVE  FALSE
    OBVIOUS
  <2>2. PICK m \in Names : Has(rt2, hs, m, c)
    BY <2>1 DEF Heads
  <2>3. m # n /\ Has(rt, hs, m, c)
    BY <1>2, <1>6, <2>2
  <2> QED
    BY <1>1, <1>2, <2>1, <2>3 DEF OneOwner
<1>10. Sound(g, Heads(rt2, hs)) /\ Extends(f, g, Heads(rt2, hs))
  <2>1. CASE c = 0
    BY <1>3, <1>8, <2>1 DEF Extends
  <2>2. CASE c # 0
    <3> DEFINE H == Heads(rt, hs) \ {c}
    <3>1. Sound(g, H) /\ Extends(f, g, H)
      BY <1>1, <1>2, <1>3, <2>2, ChainDeleted
    <3>2. Heads(rt2, hs) \subseteq H
      <4>1. Heads(rt2, hs) \subseteq Heads(rt, hs)
        BY <1>6 DEF Heads
      <4> QED
        BY <1>9, <2>2, <4>1
    <3>3. 0 \in Heads(rt2, hs)
      BY DEF Heads
    <3> HIDE DEF H
    <3> QED
      BY <3>1, <3>2, <3>3, SoundOfFewer, ExtendsOfFewer
  <2> QED
    BY <2>1, <2>2
<1>11. Linked(g, rt2, hs)
  <2>1. SUFFICES ASSUME NEW h \in Handles, hs[h] # Closed
                 PROVE  rt2[hs[h].dirIndex].name = hs[h].name /\ Keeps(g, hs[h])
    BY DEF Linked
  <2>2. /\ hs[h] \in OpenFile /\ hs[h].dirIndex \in 1 .. RootEntries
        /\ rt[hs[h].dirIndex].name = hs[h].name /\ Keeps(f, hs[h])
    BY <1>1, <2>1, OpenIs DEF Linked
  <2>3. hs[h].dirIndex # p
    BY <2>1, <2>2 DEF Unused
  <2>4. hs[h].firstCluster \in Heads(rt2, hs)
    BY <1>1, <1>4, <2>1, HeadsAre
  <2>5. Keeps(g, hs[h])
    BY <1>10, <2>2, <2>4, KeptLinks
  <2> QED
    BY <1>4, <2>2, <2>3, <2>5
<1> QED
  BY <1>1, <1>4, <1>5, <1>8, <1>10, <1>11 DEF IInv

\* Rename.
LEMMA EntryMoved ==
  ASSUME NEW f, NEW rt, NEW hs, IInv(f, rt, hs), NEW n \in Names, Unused(hs, n),
         NEW p \in 1 .. RootEntries, rt[p].name = n,
         NEW k \in Names, \A i \in 1 .. RootEntries : rt[i].name # k,
         NEW q \in 1 .. RootEntries, rt[q].name \in {"erased", "end"},
         \A i \in 1 .. RootEntries : rt[i].name = "end" => q <= i,
         NEW rt2 \in Directories, rt2[q].name = k, rt2[q].first = rt[p].first, rt2[p].name = "erased",
         \A i \in (1 .. RootEntries) \ {p, q} : rt2[i] = rt[i]
  PROVE  IInv(f, rt2, hs)
<1> DEFINE c == rt[p].first
<1>1. /\ rt \in Directories /\ hs \in HandleTables /\ Sound(f, Heads(rt, hs)) /\ OneOwner(rt, hs)
      /\ Ordered(rt) /\ Linked(f, rt, hs)
  BY DEF IInv
<1>2. c \in Heads(rt, hs) /\ Has(rt, hs, n, c) /\ c \in Sector
  BY <1>1, HeadsAre DEF Directories, DirEntry
<1>3. p # q /\ rt2[q].first = c
  BY NamesAre
<1>4. Ordered(rt2)
  <2> DEFINE added == [rt EXCEPT ![q] = rt2[q]]
  <2>1. AtPlace(rt, q, rt2[q], added) /\ rt2[q] \in DirEntry
    BY DEF AtPlace, Directories
  <2> HIDE DEF added
  <2>2. added \in Directories /\ added[q] = rt2[q] /\ \A i \in (1 .. RootEntries) \ {q} : added[i] = rt[i]
    BY <1>1, <2>1, PutEntry
  <2>3. Ordered(added)
    BY <1>1, <2>2, OrderedAdded
  <2>4. added[p].name \in Names /\ \A i \in (1 .. RootEntries) \ {p} : rt2[i] = added[i]
    BY <1>3, <2>2
  <2> QED
    BY <2>2, <2>3, <2>4, OrderedErased
<1> HIDE DEF c
<1>5. Passes(rt, hs, rt2, hs, n, k, c)
  <2>1. SUFFICES ASSUME NEW m \in Names, NEW d \in Sector, Has(rt2, hs, m, d)
                 PROVE  (m # n /\ Has(rt, hs, m, d)) \/ (m = k /\ d = c)
    BY DEF Passes
  <2>2. CASE \E i \in 1 .. RootEntries : rt2[i].name = m /\ rt2[i].first = d
    <3>1. PICK i \in 1 .. RootEntries : rt2[i].name = m /\ rt2[i].first = d
      BY <2>2
    <3>2. i # p
      BY <3>1, NamesAre
    <3>3. CASE i = q
      BY <1>3, <3>1, <3>3
    <3>4. CASE i # q
      <4>1. rt[i].name = m /\ rt[i].first = d
        BY <3>1, <3>2, <3>4
      <4>2. m # n
        BY <1>1, <3>2, <4>1 DEF Ordered
      <4> QED
        BY <4>1, <4>2 DEF Has
    <3> QED
      BY <3>3, <3>4
  <2>3. CASE \E h \in Handles : hs[h] # Closed /\ hs[h].name = m /\ hs[h].firstCluster = d
    BY <2>3 DEF Has, Unused
  <2> QED
    BY <2>1, <2>2, <2>3 DEF Has
<1>6. Sound(f, Heads(rt2, hs)) /\ OneOwner(rt2, hs)
  BY <1>1, <1>2, <1>5, Passed
<1>7. Linked(f, rt2, hs)
  <2>1. SUFFICES ASSUME NEW h \in Handles, hs[h] # Closed
                 PROVE  rt2[hs[h].dirIndex].name = hs[h].name /\ Keeps(f, hs[h])
    BY DEF Linked
  <2>2. /\ hs[h].name \in Names /\ hs[h].dirIndex \in 1 .. RootEntries
        /\ rt[hs[h].dirIndex].name = hs[h].name /\ Keeps(f, hs[h])
    BY <1>1, <2>1, OpenIs DEF Linked
  <2>3. hs[h].dirIndex # p /\ hs[h].dirIndex # q
    BY <2>1, <2>2, NamesAre DEF Unused
  <2> QED
    BY <2>2, <2>3
<1> QED
  BY <1>1, <1>4, <1>6, <1>7 DEF IInv

-----------------------------------------------------------------------------
(* The files used through one handle at a time.                            *)

Single(hs, tm) ==
  \A h, g \in Handles : hs[h] # Closed /\ hs[g] # Closed /\ hs[h].name \in tm
                        /\ hs[h].name = hs[g].name => h = g

\* There is a sector for the byte after the last.
Roomy(f, rt, tm) ==
  \A i \in 1 .. RootEntries :
    rt[i].name \in tm /\ rt[i].size > 0 => SectorAt(f, rt[i].first, rt[i].size) # NoSector

\* The handle knows what the entry does.
Agrees(f, rt, r) ==
  /\ r.filelength = rt[r.dirIndex].size /\ r.firstCluster = rt[r.dirIndex].first
  /\ AtPosition(f, r)

Agreed(f, rt, hs, tm) ==
  \A h \in Handles : hs[h] # Closed /\ hs[h].name \in tm => Agrees(f, rt, hs[h])

TInv(f, rt, hs, tm) ==
  /\ tm \subseteq Names /\ Single(hs, tm) /\ Roomy(f, rt, tm) /\ Agreed(f, rt, hs, tm)

LEMMA AtPositionKept ==
  ASSUME NEW f, NEW g, NEW H, Sound(f, H), Extends(f, g, H),
         NEW r \in OpenFile, r.firstCluster \in H, Keeps(f, r), AtPosition(f, r)
  PROVE  AtPosition(g, r)
<1>1. SUFFICES ASSUME r.filelength > 0
               PROVE  InPlace(g, r) /\ SectorAt(g, r.firstCluster, r.filelength) # NoSector
  BY DEF AtPosition
<1>2. /\ r.filelength \in Nat /\ r.seekpos \in Nat /\ r.seekpos <= r.filelength
  BY Sizes DEF OpenFile, Keeps
<1>3. /\ InPlace(f, r) /\ SectorAt(f, r.firstCluster, r.filelength) # NoSector
  BY <1>1 DEF AtPosition
<1>4. SectorAt(f, r.firstCluster, r.seekpos) # NoSector
  BY <1>2, <1>3, SectorBefore
<1>5. /\ SectorAt(g, r.firstCluster, r.seekpos) = SectorAt(f, r.firstCluster, r.seekpos)
      /\ SectorAt(g, r.firstCluster, r.filelength) = SectorAt(f, r.firstCluster, r.filelength)
  BY <1>2, <1>3, <1>4, SectorKept
<1> QED
  BY <1>3, <1>5 DEF InPlace

LEMMA RoomKept ==
  ASSUME NEW f, NEW g, NEW H, Extends(f, g, H), NEW e \in DirEntry, e.first \in H,
         SectorAt(f, e.first, e.size) # NoSector
  PROVE  SectorAt(g, e.first, e.size) # NoSector
<1>1. e.size \in Nat
  BY Sizes DEF DirEntry
<1> QED
  BY <1>1, SectorKept

\* Read, Seek.
LEMMA TameMoved ==
  ASSUME NEW f, NEW rt, NEW hs, NEW tm, IInv(f, rt, hs), TInv(f, rt, hs, tm),
         NEW h \in Handles, hs[h] # Closed,
         NEW s, s = [r |-> hs[h], f |-> f], NEW t, Stays(s, t),
         AtPosition(s.f, s.r) => AtPosition(t.f, t.r),
         NEW hs2, AtHandle(hs, h, t.r, hs2)
  PROVE  TInv(f, rt, hs2, tm)
<1>1. s.r = hs[h] /\ s.f = f
  BY PairIs
<1>2. /\ t.r \in OpenFile /\ t.f = f /\ t.r.name = hs[h].name /\ t.r.dirIndex = hs[h].dirIndex
      /\ t.r.firstCluster = hs[h].firstCluster /\ t.r.filelength = hs[h].filelength
  BY <1>1, FieldsAre DEF Stays, SameFile
<1>3. hs \in HandleTables
  BY DEF IInv
<1>4. hs2[h] = t.r /\ \A g \in Handles \ {h} : hs2[g] = hs[g]
  BY <1>2, <1>3, PutHandle
<1>5. hs2[h].name = hs[h].name
  BY <1>2, <1>4
<1>6. Single(hs2, tm)
  BY <1>4, <1>5 DEF TInv, Single
<1>7. hs[h].name \in tm => Agrees(f, rt, t.r)
  BY <1>1, <1>2 DEF TInv, Agreed, Agrees
<1>8. Agreed(f, rt, hs2, tm)
  BY <1>4, <1>5, <1>7 DEF TInv, Agreed
<1> QED
  BY <1>6, <1>8 DEF TInv

\* Write.
LEMMA TameWritten ==
  ASSUME NEW f, NEW rt, NEW hs, NEW tm, IInv(f, rt, hs), TInv(f, rt, hs, tm),
         NEW h \in Handles, hs[h] # Closed,
         NEW s, s = [r |-> hs[h], f |-> f], NEW t, Wrote(Heads(rt, hs), s, t),
         NEW hs2, AtHandle(hs, h, t.r, hs2),
         NEW rt2, AtEntry(rt, hs[h].dirIndex, t.r.filelength, t.r.firstCluster, rt2),
         NEW tm2, tm2 \subseteq tm, hs[h].name \in tm2 => AtPosition(t.f, t.r)
  PROVE  TInv(t.f, rt2, hs2, tm2)
<1> DEFINE n == hs[h].name
           d == hs[h].dirIndex
<1>1. s.r = hs[h] /\ s.f = f /\ n \in Names /\ d \in 1 .. RootEntries /\ rt[d].name = n
  BY PairIs
<1>2. /\ t.r \in OpenFile /\ t.r.name = n /\ t.r.dirIndex = d
      /\ Extends(f, t.f, Heads(rt, hs))
      /\ t.r.firstCluster \in Sector /\ t.r.filelength \in 0 .. MaxLength
  BY <1>1, FieldsAre DEF Wrote, SameFile
<1>3. rt \in Directories /\ hs \in HandleTables /\ Ordered(rt) /\ Linked(f, rt, hs) /\ Sound(f, Heads(rt, hs))
  BY DEF IInv
<1>4. hs2[h] = t.r /\ \A g \in Handles \ {h} : hs2[g] = hs[g]
  BY <1>2, <1>3, PutHandle
<1>5. /\ rt2 \in Directories /\ rt2[d].name = rt[d].name
      /\ rt2[d].first = t.r.firstCluster /\ rt2[d].size = t.r.filelength
      /\ \A i \in (1 .. RootEntries) \ {d} : rt2[i] = rt[i]
  BY <1>1, <1>2, <1>3, EntryIs
<1>6. hs2[h].name = n
  BY <1>2, <1>4
<1>7. n \in tm2 => AtPosition(t.f, t.r)
  OBVIOUS
<1> HIDE DEF n, d
<1>8. Single(hs2, tm2)
  BY <1>4, <1>6 DEF TInv, Single, n
<1>9. Roomy(t.f, rt2, tm2)
  <2>1. SUFFICES ASSUME NEW i \in 1 .. RootEntries, rt2[i].name \in tm2, rt2[i].size > 0
                 PROVE  SectorAt(t.f, rt2[i].first, rt2[i].size) # NoSector
    BY DEF Roomy
  <2>2. CASE i = d
    BY <1>1, <1>5, <1>7, <2>1, <2>2 DEF AtPosition
  <2>3. CASE i # d
    <3>1. rt2[i] = rt[i] /\ rt[i] \in DirEntry /\ rt[i].name \in Names
      BY <1>3, <1>5, <2>1, <2>3 DEF Directories, TInv
    <3>2. SectorAt(f, rt[i].first, rt[i].size) # NoSector
      BY <2>1, <3>1 DEF TInv, Roomy
    <3>3. rt[i].first \in Heads(rt, hs)
      BY <1>3, <3>1, HeadsAre
    <3> QED
      BY <1>2, <3>1, <3>2, <3>3, RoomKept
  <2> QED
    BY <2>2, <2>3
<1>10. Agreed(t.f, rt2, hs2, tm2)
  <2>1. SUFFICES ASSUME NEW g \in Handles, hs2[g] # Closed, hs2[g].name \in tm2
                 PROVE  Agrees(t.f, rt2, hs2[g])
    BY DEF Agreed
  <2>2. CASE g = h
    BY <1>2, <1>4, <1>5, <1>6, <1>7, <2>1, <2>2 DEF Agrees
  <2>3. CASE g # h
    <3>1. hs2[g] = hs[g] /\ hs[g] # Closed /\ hs[g].name \in tm
      BY <1>4, <2>1, <2>3
    <3>2. hs[g].name # n
      BY <2>3, <3>1 DEF TInv, Single, n
    <3>3. /\ hs[g] \in OpenFile /\ hs[g].dirIndex \in 1 .. RootEntries
          /\ hs[g].firstCluster \in Heads(rt, hs)
          /\ rt[hs[g].dirIndex].name = hs[g].name /\ Keeps(f, hs[g])
      BY <1>3, <3>1, OpenIs, HeadsAre DEF Linked
    <3>4. rt2[hs[g].dirIndex] = rt[hs[g].dirIndex]
      BY <1>1, <1>5, <3>2, <3>3
    <3>5. Agrees(f, rt, hs[g])
      BY <3>1 DEF TInv, Agreed
    <3>6. AtPosition(t.f, hs[g])
      BY <1>2, <1>3, <3>3, <3>5, AtPositionKept DEF Agrees
    <3> QED
      BY <3>1, <3>4, <3>5, <3>6 DEF Agrees
  <2> QED
    BY <2>2, <2>3
<1> QED
  BY <1>8, <1>9, <1>10 DEF TInv

\* Open, Truncate, Create.
LEMMA TameAdded ==
  ASSUME NEW f, NEW rt, NEW hs, NEW tm, IInv(f, rt, hs), TInv(f, rt, hs, tm),
         NEW h \in Handles, hs[h] = Closed,
         NEW r \in OpenFile, NEW d \in 1 .. RootEntries, r.dirIndex = d,
         NEW hs2, AtHandle(hs, h, r, hs2),
         NEW rt2 \in Directories, Ordered(rt2), \A i \in (1 .. RootEntries) \ {d} : rt2[i] = rt[i],
         rt2[d].name = r.name, rt2[d].first = r.firstCluster, rt2[d].size = r.filelength,
         rt[d].name = r.name \/ rt[d].name \notin Names,
         NEW tm2, \A m \in tm2 : m \in tm \/ m = r.name,
         r.name \in tm2 => Unused(hs, r.name) /\ AtPosition(f, r)
  PROVE  TInv(f, rt2, hs2, tm2)
<1> DEFINE n == r.name
<1>1. /\ n \in Names /\ \A m \in tm2 : m \in tm \/ m = n
      /\ rt2[d].name = n
      /\ rt[d].name = n \/ rt[d].name \notin Names
  BY DEF OpenFile
<1>2. tm2 \subseteq Names
  BY <1>1 DEF TInv
<1>3. rt \in Directories /\ hs \in HandleTables /\ Linked(f, rt, hs)
  BY DEF IInv
<1>4. hs2[h] = r /\ \A g \in Handles \ {h} : hs2[g] = hs[g]
  BY <1>3, PutHandle
<1>5. hs2[h].name = n /\ (n \in tm2 => Unused(hs, n) /\ AtPosition(f, r))
  BY <1>4
<1> HIDE DEF n
<1>6. Single(hs2, tm2)
  <2>1. SUFFICES ASSUME NEW a \in Handles, NEW b \in Handles, hs2[a] # Closed, hs2[b] # Closed,
                        hs2[a].name \in tm2, hs2[a].name = hs2[b].name
                 PROVE  a = b
    BY DEF Single
  <2>2. CASE hs2[a].name = n
    <3>1. Unused(hs, n)
      BY <1>5, <2>1, <2>2
    <3>2. \A g \in Handles : hs2[g] # Closed /\ hs2[g].name = n => g = h
      BY <1>4, <3>1 DEF Unused
    <3> QED
      BY <2>1, <2>2, <3>2
  <2>3. CASE hs2[a].name # n
    <3>1. a # h /\ b # h
      BY <1>5, <2>1, <2>3
    <3>2. hs2[a].name \in tm
      BY <1>1, <2>1, <2>3
    <3> QED
      BY <1>4, <2>1, <3>1, <3>2 DEF TInv, Single
  <2> QED
    BY <2>2, <2>3
<1>7. Roomy(f, rt2, tm2)
  <2>1. SUFFICES ASSUME NEW i \in 1 .. RootEntries, rt2[i].name \in tm2, rt2[i].size > 0
                 PROVE  SectorAt(f, rt2[i].first, rt2[i].size) # NoSector
    BY DEF Roomy
  <2>2. CASE i = d
    BY <1>1, <1>5, <2>1, <2>2 DEF AtPosition
  <2>3. CASE i # d
    <3>1. rt2[i] = rt[i] /\ rt2[i].name # n
      BY <1>1, <2>3 DEF Ordered
    <3>2. rt[i].name \in tm
      BY <1>1, <2>1, <3>1
    <3> QED
      BY <2>1, <3>1, <3>2 DEF TInv, Roomy
  <2> QED
    BY <2>2, <2>3
<1>8. Agreed(f, rt2, hs2, tm2)
  <2>1. SUFFICES ASSUME NEW g \in Handles, hs2[g] # Closed, hs2[g].name \in tm2
                 PROVE  Agrees(f, rt2, hs2[g])
    BY DEF Agreed
  <2>2. CASE g = h
    BY <1>4, <1>5, <2>1, <2>2 DEF Agrees
  <2>3. CASE g # h
    <3>1. hs2[g] = hs[g] /\ hs[g] # Closed /\ hs[g].name \in tm2
      BY <1>4, <2>1, <2>3
    <3>2. hs[g].name # n
      BY <1>5, <3>1 DEF Unused
    <3>3. /\ hs[g].dirIndex \in 1 .. RootEntries /\ hs[g].name \in Names
          /\ rt[hs[g].dirIndex].name = hs[g].name
      BY <1>3, <3>1, OpenIs DEF Linked
    <3>4. rt2[hs[g].dirIndex] = rt[hs[g].dirIndex]
      BY <1>1, <3>2, <3>3
    <3>5. Agrees(f, rt, hs[g])
      BY <1>1, <3>1, <3>2 DEF TInv, Agreed
    <3> QED
      BY <3>1, <3>4, <3>5 DEF Agrees
  <2> QED
    BY <2>2, <2>3
<1> QED
  BY <1>2, <1>6, <1>7, <1>8 DEF TInv

\* Close.
LEMMA TameClosed ==
  ASSUME NEW f, NEW rt, NEW hs, NEW tm, IInv(f, rt, hs), TInv(f, rt, hs, tm),
         NEW h \in Handles, NEW hs2, AtHandle(hs, h, Closed, hs2)
  PROVE  TInv(f, rt, hs2, tm)
<1>1. hs \in HandleTables
  BY DEF IInv
<1>2. hs2[h] = Closed /\ \A g \in Handles \ {h} : hs2[g] = hs[g]
  BY <1>1, PutHandle
<1>3. \A g \in Handles : hs2[g] # Closed => hs2[g] = hs[g]
  BY <1>2
<1>4. Single(hs2, tm)
  BY <1>3 DEF TInv, Single
<1>5. Agreed(f, rt, hs2, tm)
  BY <1>3 DEF TInv, Agreed
<1> QED
  BY <1>4, <1>5 DEF TInv

\* Unlink.
LEMMA TameErased ==
  ASSUME NEW f, NEW rt, NEW hs, NEW tm, IInv(f, rt, hs), TInv(f, rt, hs, tm),
         NEW n \in Names, Unused(hs, n),
         NEW p \in 1 .. RootEntries, rt[p].name = n,
         NEW rt2, AtPlace(rt, p, Erased, rt2),
         NEW g, IInv(g, rt2, hs), Extends(f, g, Heads(rt2, hs))
  PROVE  TInv(g, rt2, hs, tm \cup {n})
<1>1. rt \in Directories /\ hs \in HandleTables /\ Ordered(rt) /\ Linked(f, rt, hs) /\ Sound(f, Heads(rt, hs))
  BY DEF IInv
<1>2. rt2 \in Directories /\ rt2[p].name = "erased" /\ \A i \in (1 .. RootEntries) \ {p} : rt2[i] = rt[i]
  BY <1>1, ErasedIs, PutEntry
<1>3. tm \cup {n} \subseteq Names
  BY DEF TInv
<1>4. Single(hs, tm \cup {n})
  BY DEF TInv, Single, Unused
<1>5. Roomy(g, rt2, tm \cup {n})
  <2>1. SUFFICES ASSUME NEW i \in 1 .. RootEntries, rt2[i].name \in tm \cup {n}, rt2[i].size > 0
                 PROVE  SectorAt(g, rt2[i].first, rt2[i].size) # NoSector
    BY DEF Roomy
  <2>2. i # p
    BY <1>2, <1>3, <2>1, NamesAre
  <2>3. rt2[i] = rt[i] /\ rt[i].name # n /\ rt[i].name \in Names /\ rt[i] \in DirEntry
    BY <1>1, <1>2, <1>3, <2>1, <2>2 DEF Ordered, Directories
  <2>4. SectorAt(f, rt[i].first, rt[i].size) # NoSector
    BY <2>1, <2>3 DEF TInv, Roomy
  <2>5. rt2[i].first \in Heads(rt2, hs)
    BY <1>1, <1>2, <2>3, HeadsAre
  <2> QED
    BY <2>3, <2>4, <2>5, RoomKept
<1>6. Agreed(g, rt2, hs, tm \cup {n})
  <2>1. SUFFICES ASSUME NEW h \in Handles, hs[h] # Closed, hs[h].name \in tm \cup {n}
                 PROVE  Agrees(g, rt2, hs[h])
    BY DEF Agreed
  <2>2. hs[h].name # n
    BY <2>1 DEF Unused
  <2>3. /\ hs[h] \in OpenFile /\ hs[h].dirIndex \in 1 .. RootEntries
        /\ rt[hs[h].dirIndex].name = hs[h].name /\ Keeps(f, hs[h])
        /\ hs[h].firstCluster \in Heads(rt2, hs)
    BY <1>1, <1>2, <2>1, OpenIs, HeadsAre DEF Linked
  <2>4. rt2[hs[h].dirIndex] = rt[hs[h].dirIndex]
    BY <1>2, <2>2, <2>3
  <2>5. Agrees(f, rt, hs[h])
    BY <2>1, <2>2 DEF TInv, Agreed
  <2>6. Sound(f, Heads(rt2, hs))
    <3>1. Heads(rt2, hs) \subseteq Heads(rt, hs) /\ 0 \in Heads(rt2, hs)
      BY <1>2, NamesAre DEF Heads, Has
    <3> QED
      BY <1>1, <3>1, SoundOfFewer
  <2>7. AtPosition(g, hs[h])
    BY <2>3, <2>5, <2>6, AtPositionKept DEF Agrees
  <2> QED
    BY <2>4, <2>5, <2>7 DEF Agrees
<1> QED
  BY <1>3, <1>4, <1>5, <1>6 DEF TInv

\* Rename.
LEMMA TameRenamed ==
  ASSUME NEW f, NEW rt, NEW hs, NEW tm, IInv(f, rt, hs), TInv(f, rt, hs, tm),
         NEW n \in Names, Unused(hs, n),
         NEW p \in 1 .. RootEntries, rt[p].name = n,
         NEW k \in Names, \A i \in 1 .. RootEntries : rt[i].name # k,
         NEW q \in 1 .. RootEntries, rt[q].name \in {"erased", "end"},
         NEW rt2, rt2[q].name = k, rt2[q].first = rt[p].first, rt2[q].size = rt[p].size,
         rt2[p].name = "erased",
         \A i \in (1 .. RootEntries) \ {p, q} : rt2[i] = rt[i],
         NEW tm2, tm2 \subseteq tm \cup {n, k}, k \in tm2 => n \in tm
  PROVE  TInv(f, rt2, hs, tm2)
<1>1. rt \in Directories /\ hs \in HandleTables /\ Ordered(rt) /\ Linked(f, rt, hs)
  BY DEF IInv
<1>2. tm2 \subseteq Names
  BY DEF TInv
<1>3. Unused(hs, k)
  BY <1>1, OpenIs DEF Linked, Unused
<1>4. Single(hs, tm2)
  BY <1>3 DEF TInv, Single, Unused
<1>5. Roomy(f, rt2, tm2)
  <2>1. SUFFICES ASSUME NEW i \in 1 .. RootEntries, rt2[i].name \in tm2, rt2[i].size > 0
                 PROVE  SectorAt(f, rt2[i].first, rt2[i].size) # NoSector
    BY DEF Roomy
  <2>2. i # p
    BY <1>2, <2>1, NamesAre
  <2>3. CASE i = q
    <3>1. n \in tm
      BY <2>1, <2>3
    <3> QED
      BY <2>1, <2>3, <3>1 DEF TInv, Roomy
  <2>4. CASE i # q
    <3>1. rt2[i] = rt[i] /\ rt[i].name # n /\ rt[i].name # k
      BY <1>1, <2>2, <2>4 DEF Ordered
    <3>2. rt[i].name \in tm
      BY <2>1, <3>1
    <3> QED
      BY <2>1, <3>1, <3>2 DEF TInv, Roomy
  <2> QED
    BY <2>3, <2>4
<1>6. Agreed(f, rt2, hs, tm2)
  <2>1. SUFFICES ASSUME NEW h \in Handles, hs[h] # Closed, hs[h].name \in tm2
                 PROVE  Agrees(f, rt2, hs[h])
    BY DEF Agreed
  <2>2. hs[h].name # n /\ hs[h].name # k
    BY <1>3, <2>1 DEF Unused
  <2>3. /\ hs[h].dirIndex \in 1 .. RootEntries /\ hs[h].name \in Names
        /\ rt[hs[h].dirIndex].name = hs[h].name
    BY <1>1, <2>1, OpenIs DEF Linked
  <2>4. hs[h].dirIndex # p /\ hs[h].dirIndex # q
    BY <2>2, <2>3, NamesAre
  <2>5. rt2[hs[h].dirIndex] = rt[hs[h].dirIndex]
    BY <2>3, <2>4
  <2>6. Agrees(f, rt, hs[h])
    BY <2>1, <2>2 DEF TInv, Agreed
  <2> QED
    BY <2>5, <2>6 DEF Agrees
<1> QED
  BY <1>2, <1>4, <1>5, <1>6 DEF TInv

-----------------------------------------------------------------------------
(* The calls.                                                              *)

Inv == IInv(fat, root, handles) /\ TInv(fat, root, handles, tame)

LEMMA EntryOf ==
  ASSUME IInv(fat, root, handles), NEW name \in Names, Exists(name), NEW d, d = Place(name)
  PROVE  /\ fat \in Tables /\ root \in Directories /\ Ordered(root) /\ Sound(fat, Heads(root, handles))
         /\ d \in 1 .. RootEntries /\ root[d].name = name
         /\ root[d].size \in 0 .. MaxLength /\ root[d].first \in Sector
         /\ root[d].first \in Heads(root, handles)
<1>1. /\ root \in Directories /\ handles \in HandleTables /\ Ordered(root) /\ Sound(fat, Heads(root, handles))
  BY DEF IInv
<1>2. d \in 1 .. RootEntries /\ root[d].name = name /\ root[d] \in DirEntry
  BY <1>1, PlaceIs
<1>3. root[d].first \in Heads(root, handles)
  BY <1>1, <1>2, HeadsAre
<1> QED
  BY <1>1, <1>2, <1>3 DEF DirEntry, Sound

LEMMA UsersAre ==
  ASSUME NEW name
  PROVE  Users(name) = {} => Unused(handles, name)
BY DEF Users, Unused

LEMMA OpenKeeps ==
  ASSUME Inv, NEW h \in Handles, NEW name \in Names, NEW writes \in BOOLEAN, Open(h, name, writes)
  PROVE  Inv'
<1> DEFINE d == Place(name)
           size == root[d].size
           r == NewFile(name, d, writes, size)
<1>0. IInv(fat, root, handles) /\ TInv(fat, root, handles, tame)
  BY DEF Inv
<1>1. handles[h] = Closed /\ Exists(name) /\ fat' = fat /\ root' = root
  BY DEF Open
<1>2. AtHandle(handles, h, r, handles')
  BY DEF Open, AtHandle
<1>3. /\ \A m \in tame' : m \in tame
      /\ name \in tame' => name \in tame /\ Users(name) = {}
  BY DEF Open
<1>4. /\ fat \in Tables /\ root \in Directories /\ Ordered(root) /\ Sound(fat, Heads(root, handles))
      /\ d \in 1 .. RootEntries /\ root[d].name = name
      /\ size \in 0 .. MaxLength
      /\ root[d].first \in Heads(root, handles)
  BY <1>0, <1>1, EntryOf
<1> HIDE DEF d
<1>5. root \in [1 .. RootEntries -> DirEntry]
  BY <1>4 DEF Directories
<1>6. /\ r \in OpenFile /\ r.name = name /\ r.dirIndex = d
      /\ r.firstCluster = root[d].first
      /\ r.filelength = size
      /\ Keeps(fat, r)
      /\ size > 0 => InPlace(fat, r)
  BY <1>4, <1>5, NewFileIs
<1>7. size = root[d].size
  OBVIOUS
<1> HIDE DEF r, size
<1>8. IInv(fat, root, handles')
  BY <1>0, <1>1, <1>2, <1>4, <1>6, HandleAdded
<1>9. name \in tame' => Unused(handles, name) /\ AtPosition(fat, r)
  <2>1. SUFFICES ASSUME name \in tame'
                 PROVE  Unused(handles, name) /\ AtPosition(fat, r)
    OBVIOUS
  <2>2. Unused(handles, name)
    BY <1>3, <2>1, UsersAre
  <2>3. size > 0 => SectorAt(fat, root[d].first, size) # NoSector
    BY <1>0, <1>3, <1>4, <1>7, <2>1 DEF TInv, Roomy
  <2> QED
    BY <1>6, <2>2, <2>3 DEF AtPosition
<1>10. TInv(fat, root, handles', tame')
  BY <1>0, <1>1, <1>2, <1>3, <1>4, <1>6, <1>7, <1>9, TameAdded
<1> QED
  BY <1>1, <1>8, <1>10 DEF Inv

\* The entry of a file that was truncated.
LEMMA SizeIs ==
  ASSUME NEW rt \in Directories, NEW d \in 1 .. RootEntries,
         NEW rt2, AtEntry(rt, d, 0, rt[d].first, rt2)
  PROVE  /\ rt2 \in Directories /\ rt2[d].name = rt[d].name
         /\ rt2[d].first = rt[d].first /\ rt2[d].size = 0
         /\ \A i \in (1 .. RootEntries) \ {d} : rt2[i] = rt[i]
<1>1. 0 \in 0 .. MaxLength /\ rt[d].first \in Sector
  BY Sizes DEF Directories, DirEntry
<1> QED
  BY <1>1, EntryIs

LEMMA TruncateKeeps ==
  ASSUME Inv, NEW h \in Handles, NEW name \in Names, Truncate(h, name)
  PROVE  Inv'
<1> DEFINE d == Place(name)
           r == NewFile(name, d, TRUE, 0)
<1>0. IInv(fat, root, handles) /\ TInv(fat, root, handles, tame)
  BY DEF Inv
<1>1. handles[h] = Closed /\ Exists(name) /\ fat' = fat
  BY DEF Truncate
<1>2. AtHandle(handles, h, r, handles')
  BY DEF Truncate, AtHandle
<1>3. /\ \A m \in tame' : m \in tame \/ m = name
      /\ name \in tame' => Users(name) = {}
  BY DEF Truncate
<1>4. /\ fat \in Tables /\ root \in Directories /\ Ordered(root) /\ Sound(fat, Heads(root, handles))
      /\ d \in 1 .. RootEntries /\ root[d].name = name
      /\ root[d].first \in Heads(root, handles)
  BY <1>0, <1>1, EntryOf
<1>5. root' = [root EXCEPT ![d].size = 0]
  BY DEF Truncate
<1> HIDE DEF d
<1>6. AtEntry(root, d, 0, root[d].first, root')
  BY <1>4, <1>5 DEF AtEntry, Directories, DirEntry
<1>7. /\ root' \in Directories /\ root'[d].name = name
      /\ root'[d].first = root[d].first /\ root'[d].size = 0
      /\ \A i \in (1 .. RootEntries) \ {d} : root'[i] = root[i]
  BY <1>4, <1>6, SizeIs
<1>8. Ordered(root')
  BY <1>4, <1>7, OrderedIfSame
<1> DEFINE yes == TRUE
           none == 0
<1>9. /\ root \in [1 .. RootEntries -> DirEntry] /\ none \in 0 .. MaxLength /\ none = 0
      /\ yes \in BOOLEAN
  BY <1>4, Sizes DEF Directories
<1>14. r = NewFile(name, d, yes, none)
  OBVIOUS
<1> HIDE DEF r, yes, none
<1>10. /\ r \in OpenFile /\ r.name = name /\ r.dirIndex = d
       /\ r.firstCluster = root[d].first
       /\ r.filelength = 0
       /\ Keeps(fat, r)
  BY <1>4, <1>9, <1>14, NewFileIs
<1>11. IInv(fat, root', handles')
  BY <1>0, <1>1, <1>2, <1>4, <1>7, <1>8, <1>10, HandleAdded
<1>12. name \in tame' => Unused(handles, name) /\ AtPosition(fat, r)
  BY <1>3, <1>10, UsersAre DEF AtPosition
<1>13. TInv(fat, root', handles', tame')
  BY <1>0, <1>1, <1>2, <1>3, <1>4, <1>7, <1>8, <1>10, <1>12, TameAdded
<1> QED
  BY <1>1, <1>11, <1>13 DEF Inv

EmptyFile(name, place) == [NewFile(name, place, TRUE, 0) EXCEPT !.firstCluster = 0]

LEMMA EmptyFileIs ==
  ASSUME NEW name \in Names, NEW place \in 1 .. RootEntries,
         NEW t, t = EmptyFile(name, place)
  PROVE  /\ t \in OpenFile /\ t.name = name /\ t.dirIndex = place
         /\ t.firstCluster = 0 /\ t.filelength = 0
         /\ Keeps(fat, t) /\ AtPosition(fat, t)
<1>0. 0 \in 0 .. MaxLength /\ 0 \in 0 .. SectorSize /\ 0 \in Sector
  BY Sizes DEF Sector
<1>1. t = [name |-> name, writes |-> TRUE, firstCluster |-> 0, seekpos |-> 0,
           filelength |-> 0, currentSector |-> 0, curSectOff |-> 0,
           loadedSector |-> FALSE, dirIndex |-> place]
  BY DEF NewFile, EmptyFile
<1>2. /\ t \in OpenFile /\ t.name = name /\ t.dirIndex = place
      /\ t.firstCluster = 0 /\ t.filelength = 0 /\ t.seekpos = 0 /\ t.curSectOff = 0
      /\ t.loadedSector = FALSE
  BY <1>0, <1>1 DEF OpenFile
<1> QED
  BY <1>2 DEF Keeps, AtPosition

LEMMA CreateKeeps ==
  ASSUME Inv, NEW h \in Handles, NEW name \in Names, Create(h, name)
  PROVE  Inv'
<1> DEFINE d == Min(Spare)
           r == EmptyFile(name, d)
           e == [NoEntry EXCEPT !.name = name]
<1>0. IInv(fat, root, handles) /\ TInv(fat, root, handles, tame)
  BY DEF Inv
<1>1. /\ handles[h] = Closed /\ ~Exists(name) /\ Spare # {} /\ fat' = fat
      /\ tame' = tame \cup {name}
  BY DEF Create
<1>2. AtHandle(handles, h, r, handles')
  BY DEF Create, AtHandle, EmptyFile
<1>3. AtPlace(root, d, e, root')
  BY DEF Create, AtPlace
<1>4. /\ root \in Directories /\ handles \in HandleTables /\ Ordered(root) /\ Linked(fat, root, handles)
  BY <1>0 DEF IInv
<1>5. /\ d \in 1 .. RootEntries /\ root[d].name \in {"erased", "end"}
      /\ \A i \in 1 .. RootEntries : root[i].name = "end" => d <= i
  BY <1>1, SpareIs
<1> HIDE DEF d
<1>6. root[d] \in DirEntry /\ root[d].name \notin Names
  BY <1>4, <1>5, NamesAre DEF Directories
<1>7. e \in DirEntry /\ e.name = name /\ e.first = 0 /\ e.size = 0
  BY Sizes DEF NoEntry, DirEntry, Sector
<1> HIDE DEF e
<1>8. root' \in Directories /\ root'[d] = e /\ \A i \in (1 .. RootEntries) \ {d} : root'[i] = root[i]
  BY <1>3, <1>4, <1>5, <1>7, PutEntry
<1>9. \A i \in 1 .. RootEntries : root[i].name # name
  BY <1>1, <1>4, NotThere
<1>10. Ordered(root')
  BY <1>4, <1>5, <1>7, <1>8, <1>9, OrderedAdded
<1>11. /\ r \in OpenFile /\ r.name = name /\ r.dirIndex = d
       /\ r.firstCluster = 0 /\ r.filelength = 0
       /\ Keeps(fat, r) /\ AtPosition(fat, r)
  BY <1>5, <1>6, EmptyFileIs
<1> HIDE DEF r
<1>12. root'[d].name = r.name /\ root'[d].first = r.firstCluster /\ root'[d].size = r.filelength
  BY <1>7, <1>8, <1>11
<1>13. IInv(fat, root', handles')
  BY <1>0, <1>1, <1>2, <1>5, <1>6, <1>8, <1>10, <1>11, <1>12, HandleAdded
<1>14. Unused(handles, name)
  BY <1>4, <1>9, OpenIs DEF Unused, Linked
<1>15. TInv(fat, root', handles', tame')
  <2>1. \A m \in tame' : m \in tame \/ m = r.name
    BY <1>1, <1>11
  <2>2. r.name \in tame' => Unused(handles, r.name) /\ AtPosition(fat, r)
    BY <1>11, <1>14
  <2> QED
    BY <1>0, <1>1, <1>2, <1>5, <1>6, <1>8, <1>10, <1>11, <1>12, <2>1, <2>2, TameAdded
<1> QED
  BY <1>1, <1>13, <1>15 DEF Inv

LEMMA OfIs ==
  ASSUME Inv, NEW h \in Handles, handles[h] # Closed, NEW s, s = Of(h)
  PROVE  /\ IInv(fat, root, handles) /\ TInv(fat, root, handles, tame)
         /\ s = [r |-> handles[h], f |-> fat]
         /\ s \in Pairs /\ s.r = handles[h] /\ s.f = fat
         /\ s.r.firstCluster \in Heads(root, handles)
         /\ Sound(s.f, Heads(root, handles)) /\ Keeps(s.f, s.r)
         /\ handles \in HandleTables
         /\ handles[h].name \in tame => AtPosition(s.f, s.r)
<1>1. IInv(fat, root, handles) /\ TInv(fat, root, handles, tame) /\ handles \in HandleTables
  BY DEF Inv, IInv
<1>2. s = [r |-> handles[h], f |-> fat]
  BY DEF Of
<1>3. /\ s \in Pairs /\ s.r = handles[h] /\ s.f = fat
      /\ s.r.firstCluster \in Heads(root, handles)
      /\ Sound(s.f, Heads(root, handles)) /\ Keeps(s.f, s.r)
  BY <1>1, <1>2, PairIs
<1>4. handles[h].name \in tame => AtPosition(s.f, s.r)
  BY <1>1, <1>3 DEF TInv, Agreed, Agrees
<1> QED
  BY <1>1, <1>2, <1>3, <1>4

LEMMA ReadKeeps ==
  ASSUME Inv, NEW h \in Handles, Read(h)
  PROVE  Inv'
<1> DEFINE s == Of(h)
           t == AfterRead(s)
<1>1. handles[h] # Closed /\ fat' = fat /\ root' = root /\ tame' = tame
  BY DEF Read
<1>2. AtHandle(handles, h, t.r, handles')
  BY DEF Read, AtHandle
<1>3. t = AfterRead(s) /\ s = Of(h)
  OBVIOUS
<1> HIDE DEF s, t
<1>4. /\ IInv(fat, root, handles) /\ TInv(fat, root, handles, tame)
      /\ s = [r |-> handles[h], f |-> fat]
      /\ s \in Pairs /\ s.r.firstCluster \in Heads(root, handles)
      /\ Sound(s.f, Heads(root, handles)) /\ Keeps(s.f, s.r)
  BY <1>1, <1>3, OfIs
<1>5. /\ Stays(s, t) /\ Keeps(t.f, t.r)
      /\ AtPosition(s.f, s.r) => AtPosition(t.f, t.r)
  BY <1>3, <1>4, AfterReadIs
<1>6. IInv(fat, root, handles')
  BY <1>1, <1>2, <1>4, <1>5, HandleMoved
<1>7. TInv(fat, root, handles', tame)
  BY <1>1, <1>2, <1>4, <1>5, TameMoved
<1> QED
  BY <1>1, <1>6, <1>7 DEF Inv

LEMMA SeekKeeps ==
  ASSUME Inv, NEW h \in Handles, NEW pos \in 0 .. MaxLength, Seek(h, pos)
  PROVE  Inv'
<1> DEFINE s == Of(h)
           t == Sought(s, pos)
<1>1. handles[h] # Closed /\ fat' = fat /\ root' = root /\ tame' = tame
  BY DEF Seek
<1>2. AtHandle(handles, h, t.r, handles')
  BY DEF Seek, AtHandle
<1>3. t = Sought(s, pos) /\ s = Of(h)
  OBVIOUS
<1> HIDE DEF s, t
<1>4. /\ IInv(fat, root, handles) /\ TInv(fat, root, handles, tame)
      /\ s = [r |-> handles[h], f |-> fat]
      /\ s \in Pairs /\ s.r.firstCluster \in Heads(root, handles)
      /\ Sound(s.f, Heads(root, handles)) /\ Keeps(s.f, s.r)
  BY <1>1, <1>3, OfIs
<1>5. /\ Stays(s, t) /\ Keeps(t.f, t.r)
      /\ AtPosition(s.f, s.r) => AtPosition(t.f, t.r)
  BY <1>3, <1>4, SoughtIs
<1>6. IInv(fat, root, handles')
  BY <1>1, <1>2, <1>4, <1>5, HandleMoved
<1>7. TInv(fat, root, handles', tame)
  BY <1>1, <1>2, <1>4, <1>5, TameMoved
<1> QED
  BY <1>1, <1>6, <1>7 DEF Inv

LEMMA CloseKeeps ==
  ASSUME Inv, NEW h \in Handles, Close(h)
  PROVE  Inv'
<1>1. handles[h] # Closed /\ fat' = fat /\ root' = root /\ tame' = tame
  BY DEF Close
<1>2. AtHandle(handles, h, Closed, handles')
  BY DEF Close, AtHandle
<1>3. IInv(fat, root, handles) /\ TInv(fat, root, handles, tame)
  BY DEF Inv
<1>4. IInv(fat, root, handles')
  BY <1>1, <1>2, <1>3, HandleClosed
<1>5. TInv(fat, root, handles', tame)
  BY <1>2, <1>3, TameClosed
<1> QED
  BY <1>1, <1>4, <1>5 DEF Inv

\* After a write of t, if the invariant of a handle is kept by it.
LEMMA FinalizeKeeps ==
  ASSUME Inv, NEW h \in Handles, handles[h] # Closed, NEW s, s = Of(h),
         NEW t, Wrote(Heads(root, handles), s, t), Keeps(t.f, t.r),
         AtPosition(s.f, s.r) /\ t.r.currentSector # NoSector => AtPosition(t.f, t.r),
         AtHandle(handles, h, t.r, handles'), Finalize(t)
  PROVE  Inv'
<1>1. /\ IInv(fat, root, handles) /\ TInv(fat, root, handles, tame)
      /\ s = [r |-> handles[h], f |-> fat] /\ s.r = handles[h]
      /\ handles[h].name \in tame => AtPosition(s.f, s.r)
  BY OfIs
<1>2. t.r.dirIndex = handles[h].dirIndex /\ t.r.name = handles[h].name
  BY <1>1 DEF Wrote, SameFile
<1>3. AtEntry(root, handles[h].dirIndex, t.r.filelength, t.r.firstCluster, root')
  BY <1>2 DEF Finalize, AtEntry
<1>4. fat' = t.f
  BY DEF Finalize
<1>5. /\ tame' \subseteq tame
      /\ t.r.name \in tame' => t.r.currentSector # NoSector
  BY DEF Finalize
<1>6. IInv(t.f, root', handles')
  BY <1>1, <1>3, EntryWritten
<1>7. handles[h].name \in tame' => AtPosition(t.f, t.r)
  BY <1>1, <1>2, <1>5
<1>8. TInv(t.f, root', handles', tame')
  BY <1>1, <1>3, <1>5, <1>7, TameWritten
<1> QED
  BY <1>4, <1>6, <1>8 DEF Inv

LEMMA WriteKeeps ==
  ASSUME Inv, NEW h \in Handles, Write(h)
  PROVE  Inv'
<1> DEFINE s == Of(h)
           t == Written(s)
<1>1. handles[h] # Closed /\ handles[h].seekpos < MaxLength /\ ~BehindBuffer(h)
  BY DEF Write
<1>2. AtHandle(handles, h, t.r, handles') /\ Finalize(t)
  BY DEF Write, AtHandle
<1>3. t = Written(s) /\ s = Of(h)
  OBVIOUS
<1> HIDE DEF s, t
<1>4. /\ s \in Pairs /\ s.r = handles[h] /\ s.r.firstCluster \in Heads(root, handles)
      /\ Sound(s.f, Heads(root, handles)) /\ Keeps(s.f, s.r)
  BY <1>1, <1>3, OfIs
<1>5. WrittenHere(s) => s.r.curSectOff < SectorSize
  BY <1>1, <1>4, FieldsAre, Sizes DEF WrittenHere, BehindBuffer
<1>6. /\ Wrote(Heads(root, handles), s, t) /\ Keeps(t.f, t.r)
      /\ AtPosition(s.f, s.r) /\ t.r.currentSector # NoSector => AtPosition(t.f, t.r)
  BY <1>1, <1>3, <1>4, <1>5, WrittenIs
<1> QED
  BY <1>1, <1>2, <1>3, <1>6, FinalizeKeeps

LEMMA WriteNoneKeeps ==
  ASSUME Inv, NEW h \in Handles, WriteNone(h)
  PROVE  Inv'
<1> DEFINE s == Of(h)
<1>1. handles[h] # Closed /\ Finalize(s) /\ handles' = handles
  BY DEF WriteNone
<1>2. s = Of(h)
  OBVIOUS
<1> HIDE DEF s
<1>3. /\ s \in Pairs /\ s.r = handles[h] /\ s.r.firstCluster \in Heads(root, handles)
      /\ Sound(s.f, Heads(root, handles)) /\ Keeps(s.f, s.r) /\ handles \in HandleTables
  BY <1>1, <1>2, OfIs
<1>4. Wrote(Heads(root, handles), s, s)
  <2>1. Heads(root, handles) \cup {s.r.firstCluster} = Heads(root, handles)
    BY <1>3
  <2> QED
    BY <1>3, <2>1 DEF Wrote, SameFile, Extends
<1>5. AtHandle(handles, h, s.r, handles')
  BY <1>1, <1>3 DEF AtHandle, HandleTables
<1> QED
  BY <1>1, <1>2, <1>3, <1>4, <1>5, FinalizeKeeps

LEMMA UnlinkKeeps ==
  ASSUME Inv, NEW name \in Names, Unlink(name)
  PROVE  Inv'
<1> DEFINE d == Place(name)
<1>0. IInv(fat, root, handles) /\ TInv(fat, root, handles, tame)
  BY DEF Inv
<1>1. Exists(name) /\ Users(name) = {} /\ handles' = handles /\ tame' = tame \cup {name}
  BY DEF Unlink
<1>2. AtPlace(root, d, Erased, root')
  BY DEF Unlink, AtPlace
<1>3. fat' = IF root[d].first = 0 THEN fat ELSE Deleted(fat, root[d].first)
  BY DEF Unlink
<1>4. d \in 1 .. RootEntries /\ root[d].name = name
  BY <1>0, <1>1, EntryOf
<1> HIDE DEF d
<1>5. Unused(handles, name)
  BY <1>1, UsersAre
<1>6. IInv(fat', root', handles) /\ Extends(fat, fat', Heads(root', handles))
  BY <1>0, <1>2, <1>3, <1>4, <1>5, EntryErased
<1>7. TInv(fat', root', handles, tame \cup {name})
  BY <1>0, <1>2, <1>4, <1>5, <1>6, TameErased
<1> QED
  BY <1>1, <1>6, <1>7 DEF Inv

LEMMA RenameKeeps ==
  ASSUME Inv, NEW old \in Names, NEW new \in Names, Rename(old, new)
  PROVE  Inv'
<1> DEFINE p == Place(old)
           q == Min(Spare)
           e == [root[p] EXCEPT !.name = new]
<1>0. /\ IInv(fat, root, handles) /\ TInv(fat, root, handles, tame)
      /\ root \in Directories /\ Ordered(root)
  BY DEF Inv, IInv
<1>1. /\ Exists(old) /\ Users(old) = {} /\ ~Exists(new) /\ Spare # {}
      /\ handles' = handles /\ fat' = fat
      /\ tame' = (IF old \in tame THEN tame ELSE tame \ {new}) \cup {old}
  BY DEF Rename
<1>2. root' = [root EXCEPT ![q] = e, ![p] = Erased]
  BY DEF Rename
<1>3. p \in 1 .. RootEntries /\ root[p].name = old /\ root[p] \in DirEntry
  BY <1>0, <1>1, EntryOf DEF Directories
<1>4. /\ q \in 1 .. RootEntries /\ root[q].name \in {"erased", "end"}
      /\ \A i \in 1 .. RootEntries : root[i].name = "end" => q <= i
  BY <1>1, SpareIs
<1> HIDE DEF p, q
<1>5. e \in DirEntry /\ e.name = new /\ e.first = root[p].first /\ e.size = root[p].size
  BY <1>3 DEF DirEntry
<1> HIDE DEF e
<1>6. p # q
  BY <1>3, <1>4, NamesAre
<1>7. /\ root' \in Directories /\ root'[q] = e /\ root'[p] = Erased
      /\ \A i \in (1 .. RootEntries) \ {p, q} : root'[i] = root[i]
  BY <1>0, <1>2, <1>3, <1>4, <1>5, <1>6, ErasedIs DEF Directories
<1>8. /\ root'[q].name = new /\ root'[q].first = root[p].first /\ root'[q].size = root[p].size
      /\ root'[p].name = "erased"
  BY <1>5, <1>7, ErasedIs
<1>9. \A i \in 1 .. RootEntries : root[i].name # new
  BY <1>0, <1>1, NotThere
<1>10. Unused(handles, old)
  BY <1>1, UsersAre
<1>11. IInv(fat, root', handles)
  BY <1>0, <1>3, <1>4, <1>7, <1>8, <1>9, <1>10, EntryMoved
<1>12. tame' \subseteq tame \cup {old, new} /\ (new \in tame' => old \in tame)
  <2>1. old # new
    BY <1>3, <1>9
  <2> QED
    BY <1>1, <2>1
<1>13. TInv(fat, root', handles, tame')
  BY <1>0, <1>3, <1>4, <1>7, <1>8, <1>9, <1>10, <1>12, TameRenamed
<1> QED
  BY <1>1, <1>11, <1>13 DEF Inv

LEMMA StepKeeps ==
  ASSUME Inv, [Next]_vars
  PROVE  Inv'
<1>1. CASE UNCHANGED vars
  BY <1>1 DEF vars, Inv
<1>2. CASE Next
  <2>1. ASSUME NEW h \in Handles, NEW name \in Names, Truncate(h, name)
        PROVE  Inv'
    BY <2>1, TruncateKeeps
  <2>2. ASSUME NEW h \in Handles, NEW name \in Names, Create(h, name)
        PROVE  Inv'
    BY <2>2, CreateKeeps
  <2>3. ASSUME NEW h \in Handles, NEW name \in Names, NEW writes \in BOOLEAN, Open(h, name, writes)
        PROVE  Inv'
    BY <2>3, OpenKeeps
  <2>4. ASSUME NEW h \in Handles, Read(h) \/ Close(h) \/ Write(h) \/ WriteNone(h)
        PROVE  Inv'
    BY <2>4, ReadKeeps, CloseKeeps, WriteKeeps, WriteNoneKeeps
  <2>5. ASSUME NEW h \in Handles, NEW pos \in 0 .. MaxLength, Seek(h, pos)
        PROVE  Inv'
    BY <2>5, SeekKeeps
  <2>6. ASSUME NEW name \in Names, Unlink(name)
        PROVE  Inv'
    BY <2>6, UnlinkKeeps
  <2>7. ASSUME NEW name \in Names, NEW new \in Names, Rename(name, new)
        PROVE  Inv'
    BY <2>7, RenameKeeps
  <2>8. ASSUME NEW h \in Handles, WriteBehindBuffer(h)
        PROVE  Inv'
    BY <2>8 DEF WriteBehindBuffer, Inv
  <2>9. ASSUME NEW name \in Names, FindInData(name)
        PROVE  Inv'
    BY <2>9 DEF FindInData, Inv
  <2> QED
    BY <1>2, <2>1, <2>2, <2>3, <2>4, <2>5, <2>6, <2>7, <2>8, <2>9, FatAssumption DEF Next
<1> QED
  BY <1>1, <1>2

\* A call goes astray or leaves this as it was.
LEMMA StrayingIs ==
  ASSUME astray \in BOOLEAN, [Next]_vars
  PROVE  astray' \in BOOLEAN
<1>1. Next => astray' \in {astray, TRUE}
  BY Zenon DEF Next, Open, Truncate, Create, Read, Seek, Close, Write, WriteNone, Finalize,
     WriteBehindBuffer, Unlink, FindInData, Rename
<1> QED
  BY <1>1 DEF vars

-----------------------------------------------------------------------------
(* The image at first.                                                     *)

\* The sectors of a file.
LEMMA SectorsOf ==
  ASSUME NEW m \in Nat, NEW n \in Nat \ {0}, NEW c \in Nat, m <= c * n,
         NEW q, q = (m + n - 1) \div n
  PROVE  /\ q \in 0 .. c /\ (m = 0 => q = 0) /\ (m > 0 => q > 0)
         /\ m % n # 0 => m \div n < q
<1> DEFINE a == m \div n
           r == m % n
           b == (m + n - 1) % n
           x == m + n - 1
<1>1. a \in Nat /\ r \in 0 .. n - 1 /\ m = n * a + r
  BY DivisionIs
<1>2. x \in Nat /\ x = m + n - 1
  OBVIOUS
<1>3. q = x \div n /\ b = x % n
  OBVIOUS
<1>4. q \in Nat /\ b \in 0 .. n - 1 /\ x = n * q + b
  <2> HIDE DEF a, r, b, x
  <2> DEFINE d == x \div n
             e == x % n
  <2>1. d \in Nat /\ e \in 0 .. n - 1 /\ x = n * d + e
    BY <1>2, DivisionIs
  <2>2. q = d /\ b = e
    BY <1>3
  <2> HIDE DEF d, e
  <2> QED
    BY <2>1, <2>2
<1> HIDE DEF a, r, b, x
<1>5. m <= n * c
  OBVIOUS
<1>6. CASE r = 0
  <2>1. n * q + b = n * a + (n - 1) /\ n - 1 \in 0 .. n - 1
    BY <1>1, <1>2, <1>4, <1>6
  <2>2. q = a
    BY <1>1, <1>4, <2>1, DivisionUnique
  <2>3. m = n * q
    BY <1>1, <1>6, <2>2
  <2>4. ~(q > c)
    <3>1. q > c => n * q >= n * c + n
      BY <1>4, NextMultiple
    <3> DEFINE y == n * q
               z == n * c
    <3>2. y \in Nat /\ z \in Nat /\ m = y /\ m <= z /\ (q > c => y >= z + n)
      BY <1>4, <1>5, <2>3, <3>1
    <3> HIDE DEF y, z
    <3> QED
      BY <3>2
  <2>5. m = 0 => q = 0
    <3>1. SUFFICES ASSUME m = 0, q # 0
                   PROVE  FALSE
      OBVIOUS
    <3>2. q > 0
      BY <1>4, <3>1
    <3>3. n * q >= n * 0 + n
      BY <1>4, <3>2, NextMultiple
    <3>4. n * 0 = 0
      OBVIOUS
    <3> DEFINE y == n * q
    <3>5. y = 0 /\ y >= 0 + n
      BY <2>3, <3>1, <3>3, <3>4
    <3> HIDE DEF y
    <3> QED
      BY <3>5
  <2>6. m > 0 => q > 0
    <3>1. q = 0 => m = 0
      BY <2>3
    <3> QED
      BY <1>4, <3>1
  <2> QED
    BY <1>4, <1>6, <2>4, <2>5, <2>6 DEF r
<1>7. CASE r # 0
  <2>1. n * q + b = n * (a + 1) + (r - 1) /\ r - 1 \in 0 .. n - 1 /\ a + 1 \in Nat
    BY <1>1, <1>2, <1>4, <1>7
  <2>2. q = a + 1
    BY <1>1, <1>4, <2>1, DivisionUnique
  <2>3. ~(a >= c)
    <3>1. a > c => n * a >= n * c + n
      BY <1>1, NextMultiple
    <3>2. a = c => n * a = n * c
      OBVIOUS
    <3> DEFINE y == n * a
               z == n * c
    <3>3. /\ y \in Nat /\ z \in Nat /\ m = y + r /\ m <= z
          /\ (a > c => y >= z + n) /\ (a = c => y = z)
      BY <1>1, <1>5, <3>1, <3>2
    <3> HIDE DEF y, z
    <3> QED
      BY <1>1, <1>7, <3>3
  <2>4. m # 0
    <3>1. n * a \in Nat
      BY <1>1
    <3> DEFINE y == n * a
    <3>2. y \in Nat /\ m = y + r
      BY <1>1, <3>1
    <3> HIDE DEF y
    <3> QED
      BY <1>1, <1>7, <3>2
  <2>5. a < q /\ q \in 0 .. c /\ q > 0
    BY <1>1, <2>2, <2>3
  <2> QED
    BY <2>4, <2>5 DEF a
<1> QED
  BY <1>6, <1>7

\* The table of an image with a file of n clusters.
Fresh(n) == [c \in Sector |-> IF c = 0 \/ c = n + 1 THEN Eof ELSE IF c <= n THEN c + 1 ELSE 0]

LEMMA FreshIs ==
  ASSUME NEW n \in 0 .. CountOfClusters
  PROVE  /\ Fresh(n) \in Tables /\ Fresh(n)[0] = Eof
         /\ \A c \in Cluster : c = n + 1 => Fresh(n)[c] = Eof
         /\ \A c \in Cluster : c <= n => Fresh(n)[c] = c + 1
<1>1. CountOfClusters \in Nat /\ n \in Nat
  BY Sizes
<1>2. ASSUME NEW c \in Sector
      PROVE  (IF c = 0 \/ c = n + 1 THEN Eof ELSE IF c <= n THEN c + 1 ELSE 0) \in Sector \cup {Eof}
  <2>1. CASE c = 0 \/ c = n + 1
    BY <2>1
  <2>2. CASE ~(c = 0 \/ c = n + 1)
    <3>1. c <= n => c + 1 \in Cluster
      BY <1>1, <2>2 DEF Sector, Cluster
    <3> QED
      BY <2>2, <3>1 DEF Sector
  <2> QED
    BY <2>1, <2>2
<1>3. Fresh(n) \in Tables
  BY <1>2 DEF Fresh, Tables
<1>4. 0 \in Sector /\ Cluster \subseteq Sector /\ \A c \in Cluster : c \in Nat /\ c # 0
  BY SectorsAre DEF Sector
<1>5. Fresh(n)[0] = Eof
  BY <1>4 DEF Fresh
<1>6. \A c \in Cluster : c = n + 1 => Fresh(n)[c] = Eof
  BY <1>4 DEF Fresh
<1>7. ASSUME NEW c \in Cluster, c <= n
      PROVE  Fresh(n)[c] = c + 1
  <2>1. c # 0 /\ c # n + 1 /\ c \in Sector
    BY <1>1, <1>4, <1>7
  <2> QED
    BY <1>7, <2>1 DEF Fresh
<1> QED
  BY <1>3, <1>5, <1>6, <1>7

LEMMA FreshNone ==
  ASSUME NEW f \in Tables, f[0] = Eof
  PROVE  HasPath(f, 0) /\ Chain(f, 0) = {0}
<1> DEFINE p == [i \in 0 .. 1 - 1 |-> 0]
<1>1. 0 \in Sector
  BY DEF Sector
<1>2. p \in [0 .. 1 - 1 -> Sector]
  BY <1>1
<1>3. \A i \in 0 .. 1 - 1 : p[i] = 0 /\ i = 0
  OBVIOUS
<1>4. 0 \in 0 .. 1 - 1 /\ 1 - 1 = 0
  OBVIOUS
<1> HIDE DEF p
<1>5. p[0] = 0 /\ f[p[1 - 1]] = Eof
  BY <1>3, <1>4
<1>6. \A i, j \in 0 .. 1 - 1 : p[i] = p[j] => i = j
  BY <1>3
<1>7. \A i \in 0 .. 1 - 2 : f[p[i]] = p[i + 1]
  OBVIOUS
<1>8. 1 \in Nat \ {0}
  OBVIOUS
<1> DEFINE one == 1
<1>9. IsPath(f, 0, one, p)
  BY <1>2, <1>5, <1>6, <1>7, <1>8 DEF IsPath
<1>10. \A i \in 0 .. one - 1 : p[i] = 0
  BY <1>3
<1>11. 0 \in 0 .. one - 1
  OBVIOUS
<1> HIDE DEF one
<1>12. Chain(f, 0) = {p[i] : i \in 0 .. one - 1}
  BY <1>9, PathIs
<1>13. Chain(f, 0) = {0}
  BY <1>10, <1>11, <1>12
<1> QED
  BY <1>9, <1>13 DEF HasPath

LEMMA FreshFile ==
  ASSUME NEW n \in 1 .. CountOfClusters, NEW f, f = Fresh(n)
  PROVE  /\ HasPath(f, 2) /\ Chain(f, 2) \subseteq Cluster
         /\ \A k \in Nat : k < n => Further(f, 2, k) # NoSector
<1> DEFINE p == [i \in 0 .. n - 1 |-> i + 2]
<1>1. n \in Nat \ {0} /\ CountOfClusters \in Nat /\ n <= CountOfClusters /\ n \in 0 .. CountOfClusters
  BY Sizes
<1>2. \A i \in 0 .. n - 1 : i + 2 \in Cluster
  BY <1>1 DEF Cluster
<1>3. \A i \in 0 .. n - 1 : p[i] = i + 2 /\ p[i] \in Cluster
  BY <1>2
<1>4. p \in [0 .. n - 1 -> Sector]
  BY <1>2 DEF Sector
<1> HIDE DEF p
<1>5. p[0] = 2 /\ p[n - 1] = n + 1 /\ p[n - 1] \in Cluster
  BY <1>1, <1>3
<1>6. f[p[n - 1]] = Eof
  BY <1>1, <1>5, FreshIs
<1>7. \A i, j \in 0 .. n - 1 : p[i] = p[j] => i = j
  BY <1>3
<1>8. ASSUME NEW i \in 0 .. n - 2
      PROVE  f[p[i]] = p[i + 1]
  <2>1. i \in 0 .. n - 1 /\ i + 1 \in 0 .. n - 1 /\ i + 2 <= n
    BY <1>1
  <2>2. p[i] = i + 2 /\ p[i] \in Cluster /\ p[i + 1] = i + 1 + 2
    BY <1>3, <2>1
  <2>3. f[p[i]] = p[i] + 1
    BY <1>1, <2>1, <2>2, FreshIs
  <2> QED
    BY <2>2, <2>3
<1>9. IsPath(f, 2, n, p)
  BY <1>1, <1>4, <1>5, <1>6, <1>7, <1>8 DEF IsPath
<1>10. /\ Chain(f, 2) = {p[i] : i \in 0 .. n - 1}
       /\ \A k \in Nat : Further(f, 2, k) = IF k < n THEN p[k] ELSE NoSector
  BY <1>9, PathIs
<1>11. Chain(f, 2) \subseteq Cluster
  BY <1>3, <1>10
<1>12. ASSUME NEW k \in Nat, k < n
       PROVE  Further(f, 2, k) # NoSector
  <2>1. k \in 0 .. n - 1
    BY <1>1, <1>12
  <2>2. p[k] \in Cluster
    BY <1>3, <2>1
  <2>3. p[k] # NoSector
    BY <2>2, SectorsAre DEF Sector
  <2> QED
    BY <1>10, <1>12, <2>3
<1> QED
  BY <1>9, <1>11, <1>12 DEF HasPath

InitOf(names, length, clusters) ==
  /\ fat = Fresh(clusters)
  /\ root = [i \in 1 .. RootEntries |->
               IF i = 1 /\ names # {}
               THEN [name |-> CHOOSE n \in names : TRUE,
                     first |-> IF length = 0 THEN 0 ELSE 2, size |-> length]
               ELSE NoEntry]
  /\ handles = [h \in Handles |-> Closed]
  /\ tame = IF length > 0 /\ length % SectorSize = 0 THEN Names \ names ELSE Names
  /\ astray = FALSE

LEMMA InitIs ==
  ASSUME Init
  PROVE  Inv
<1> DEFINE N == DOMAIN Image
           a == CHOOSE n \in N : TRUE
           m == IF N = {} THEN 0 ELSE Image[a]
           cl == (m + SectorSize - 1) \div SectorSize
           e == [name |-> a, first |-> IF m = 0 THEN 0 ELSE 2, size |-> m]
<1>0. /\ CountOfClusters \in Nat \ {0} /\ SectorSize \in Nat \ {0}
      /\ RootEntries \in Nat \ {0} /\ MaxLength \in Nat
  BY Sizes
<1>1. N # {} => a \in N /\ a \in Names
  BY FatAssumption
<1>2. /\ m \in 0 .. MaxLength /\ m \in Nat /\ m <= CountOfClusters * SectorSize
  <2>1. CASE N = {}
    <3>1. m = 0
      BY <2>1
    <3>2. CountOfClusters * SectorSize \in Nat
      BY <1>0
    <3> HIDE DEF m
    <3> QED
      BY <1>0, <3>1, <3>2
  <2>2. CASE N # {}
    <3>1. m = Image[a]
      BY <2>2
    <3> HIDE DEF m
    <3>2. m \in 0 .. MaxLength /\ m <= CountOfClusters * SectorSize
      BY <1>1, <2>2, <3>1, FatAssumption
    <3> QED
      BY <1>0, <3>2
  <2> QED
    BY <2>1, <2>2
<1>3. /\ fat = Fresh(cl)
      /\ root = [i \in 1 .. RootEntries |-> IF i = 1 /\ N # {} THEN e ELSE NoEntry]
      /\ handles = [h \in Handles |-> Closed]
      /\ tame = IF m > 0 /\ m % SectorSize = 0 THEN Names \ N ELSE Names
  <2>1. \E names \in {DOMAIN Image} :
        \E length \in {IF names = {} THEN 0 ELSE Image[CHOOSE n \in names : TRUE]} :
        \E clusters \in {(length + SectorSize - 1) \div SectorSize} :
          InitOf(names, length, clusters)
    BY DEF Init, InitOf, Fresh
  <2>2. InitOf(N, m, cl)
    BY <2>1, Zenon
  <2> QED
    BY <2>2 DEF InitOf
<1>4. N = {} => m = 0
  OBVIOUS
<1>5. cl = (m + SectorSize - 1) \div SectorSize
  OBVIOUS
<1> HIDE DEF m, a, cl
<1>6. /\ cl \in 0 .. CountOfClusters /\ (m = 0 => cl = 0) /\ (m > 0 => cl > 0)
      /\ m % SectorSize # 0 => m \div SectorSize < cl
  BY <1>0, <1>2, <1>5, SectorsOf
<1>7. NoEntry \in DirEntry /\ NoEntry.name = "end"
  BY <1>0 DEF NoEntry, DirEntry, Sector
<1>8. N # {} => /\ e \in DirEntry /\ e.name = a /\ e.size = m
                /\ (m = 0 => e.first = 0) /\ (m # 0 => e.first = 2)
  <2>1. 0 \in Sector /\ 2 \in Sector
    BY <1>0 DEF Sector, Cluster
  <2> QED
    BY <1>1, <1>2, <2>1 DEF DirEntry
<1> HIDE DEF e, N
<1>9. root \in Directories
  BY <1>3, <1>7, <1>8 DEF Directories
<1>10. handles \in HandleTables /\ \A h \in Handles : handles[h] = Closed
  BY <1>3 DEF HandleTables
<1>11. \A i \in 1 .. RootEntries : root[i] = IF i = 1 /\ N # {} THEN e ELSE NoEntry
  BY <1>3
<1>12. \A i \in 1 .. RootEntries : root[i].name \in Names => i = 1 /\ N # {} /\ root[i] = e
  BY <1>7, <1>11, NamesAre
<1>13. Ordered(root)
  <2>1. ASSUME NEW i \in 1 .. RootEntries, NEW j \in 1 .. RootEntries, i < j, root[i].name = "end"
        PROVE  root[j].name = "end"
    <3>1. j # 1
      BY <2>1
    <3> QED
      BY <1>7, <1>11, <3>1
  <2>2. ASSUME NEW i \in 1 .. RootEntries, NEW j \in 1 .. RootEntries,
               root[i].name \in Names, root[i].name = root[j].name
        PROVE  i = j
    BY <1>12, <2>2
  <2> QED
    BY <2>1, <2>2 DEF Ordered
<1>14. \A n \in Names, c \in Sector : Has(root, handles, n, c) =>
         N # {} /\ n = a /\ c = e.first
  BY <1>8, <1>10, <1>12 DEF Has
<1>15. OneOwner(root, handles)
  BY <1>14 DEF OneOwner
<1>16. Sound(fat, Heads(root, handles))
  <2>1. fat \in Tables /\ fat[0] = Eof
    BY <1>3, <1>6, FreshIs
  <2>2. HasPath(fat, 0) /\ Chain(fat, 0) = {0}
    BY <2>1, FreshNone
  <2>3. 0 \in Heads(root, handles) /\ Heads(root, handles) \subseteq Sector
    BY DEF Heads, Sector
  <2>4. CASE m = 0
    <3>1. \A c \in Heads(root, handles) : c = 0
      BY <1>8, <1>14, <2>4 DEF Heads
    <3> QED
      BY <2>1, <2>2, <2>3, <3>1 DEF Sound
  <2>5. CASE m # 0
    <3>1. \A c \in Heads(root, handles) : c \in {0, 2}
      BY <1>8, <1>14, <2>5 DEF Heads
    <3>2. cl \in 1 .. CountOfClusters
      BY <1>2, <1>6, <2>5
    <3>3. HasPath(fat, 2) /\ Chain(fat, 2) \subseteq Cluster
      BY <1>3, <3>2, FreshFile
    <3>4. 0 \notin Chain(fat, 2)
      BY <3>3, SectorsAre
    <3>5. \A c, d \in Heads(root, handles) : c # d => Chain(fat, c) \cap Chain(fat, d) = {}
      BY <2>2, <3>1, <3>4
    <3> QED
      BY <2>1, <2>2, <2>3, <3>1, <3>3, <3>5 DEF Sound
  <2> QED
    BY <2>4, <2>5
<1>17. Linked(fat, root, handles)
  BY <1>10 DEF Linked
<1>18. Single(handles, tame) /\ Agreed(fat, root, handles, tame)
  BY <1>10 DEF Single, Agreed
<1>19. Roomy(fat, root, tame)
  <2>1. SUFFICES ASSUME NEW i \in 1 .. RootEntries, root[i].name \in tame, root[i].size > 0
                 PROVE  SectorAt(fat, root[i].first, root[i].size) # NoSector
    BY DEF Roomy
  <2>2. root[i].name \in Names
    BY <1>3, <2>1
  <2>3. N # {} /\ root[i] = e
    BY <1>12, <2>2
  <2>4. e.name = a /\ e.size = m /\ a \in N /\ m > 0
    BY <1>1, <1>8, <2>1, <2>3
  <2>5. e.first = 2 /\ m % SectorSize # 0
    BY <1>3, <1>8, <2>1, <2>3, <2>4
  <2>6. cl \in 1 .. CountOfClusters /\ m \div SectorSize \in Nat /\ m \div SectorSize < cl
    <3>1. m \div SectorSize \in Nat
      BY <1>0, <1>2, Division
    <3>2. cl \in 1 .. CountOfClusters
      BY <1>0, <1>6, <2>4
    <3> QED
      BY <1>6, <2>5, <3>1, <3>2
  <2>7. Further(fat, 2, m \div SectorSize) # NoSector
    <3> DEFINE k == m \div SectorSize
    <3>1. k \in Nat /\ k < cl
      BY <2>6
    <3> HIDE DEF k
    <3>2. Further(fat, 2, k) # NoSector
      BY <1>3, <2>6, <3>1, FreshFile
    <3> QED
      BY <3>2 DEF k
  <2> QED
    BY <2>3, <2>4, <2>5, <2>7 DEF SectorAt
<1>20. tame \subseteq Names
  BY <1>3
<1> QED
  BY <1>9, <1>10, <1>13, <1>15, <1>16, <1>17, <1>18, <1>19, <1>20 DEF Inv, IInv, TInv

LEMMA InvHolds ==
  Spec => [](Inv /\ astray \in BOOLEAN)
<1>1. Init => Inv /\ astray \in BOOLEAN
  BY InitIs DEF Init
<1>2. Inv /\ astray \in BOOLEAN /\ [Next]_vars => (Inv /\ astray \in BOOLEAN)'
  BY StepKeeps, StrayingIs
<1> QED
  BY <1>1, <1>2, PTL DEF Spec

-----------------------------------------------------------------------------
(* What the invariant says.                                                *)

LEMMA TypeFollows ==
  ASSUME Inv, astray \in BOOLEAN
  PROVE  TypeOK
<1>1. /\ root \in Directories /\ handles \in HandleTables /\ Sound(fat, Heads(root, handles)) /\ tame \subseteq Names
  BY DEF Inv, IInv, TInv
<1> QED
  BY <1>1 DEF TypeOK, Directories, HandleTables, Sound, Tables

\* The chains of two files.
LEMMA FilesAre ==
  ASSUME Inv, NEW n \in Files, FirstOf(n) # 0
  PROVE  /\ n \in Names /\ FirstOf(n) \in Heads(root, handles)
         /\ FirstOf(n) \in Sector /\ Has(root, handles, n, FirstOf(n))
<1>1. IInv(fat, root, handles) /\ root \in Directories /\ handles \in HandleTables
  BY DEF Inv, IInv
<1>2. n \in Names /\ Exists(n)
  BY DEF Files
<1> DEFINE d == Place(n)
<1>3. /\ d \in 1 .. RootEntries /\ root[d].name = n /\ root[d].first \in Sector
      /\ root[d].first \in Heads(root, handles)
  BY <1>1, <1>2, EntryOf
<1>4. FirstOf(n) = root[d].first
  BY DEF FirstOf
<1> HIDE DEF d
<1>5. Has(root, handles, n, root[d].first)
  BY <1>1, <1>2, <1>3, HeadsAre
<1> QED
  BY <1>2, <1>3, <1>4, <1>5

LEMMA ChainsFollow ==
  ASSUME Inv, astray \in BOOLEAN
  PROVE  ChainsSound
<1>1. Sound(fat, Heads(root, handles)) /\ OneOwner(root, handles)
  BY DEF Inv, IInv
<1>2. ASSUME NEW n \in Files, FirstOf(n) # 0
      PROVE  /\ fat[LastOf(fat, FirstOf(n))] = Eof
             /\ \A c \in Chain(fat, FirstOf(n)) : c # 0 /\ fat[c] # 0
             /\ \A m \in Files \ {n} : FirstOf(m) # 0 =>
                  Chain(fat, FirstOf(n)) \cap Chain(fat, FirstOf(m)) = {}
  <2>1. /\ n \in Names /\ FirstOf(n) \in Heads(root, handles)
        /\ FirstOf(n) \in Sector /\ Has(root, handles, n, FirstOf(n))
    BY <1>2, FilesAre
  <2>2. fat[LastOf(fat, FirstOf(n))] = Eof
    BY <1>1, <2>1, ChainIs
  <2>3. \A c \in Chain(fat, FirstOf(n)) : c # 0 /\ fat[c] # 0
    BY <1>1, <1>2, <2>1, ChainUsed
  <2>4. ASSUME NEW m \in Files \ {n}, FirstOf(m) # 0
        PROVE  Chain(fat, FirstOf(n)) \cap Chain(fat, FirstOf(m)) = {}
    <3>1. /\ m \in Names /\ FirstOf(m) \in Heads(root, handles)
          /\ FirstOf(m) \in Sector /\ Has(root, handles, m, FirstOf(m))
      BY <2>4, FilesAre
    <3>2. FirstOf(n) # FirstOf(m)
      BY <1>1, <1>2, <2>1, <2>4, <3>1 DEF OneOwner
    <3> QED
      BY <1>1, <2>1, <3>1, <3>2 DEF Sound
  <2> QED
    BY <2>2, <2>3, <2>4
<1> QED
  BY <1>2, TypeFollows DEF ChainsSound

LEMMA OwnSectorsFollow ==
  ASSUME Inv
  PROVE  OwnSectors
<1>1. /\ IInv(fat, root, handles) /\ handles \in HandleTables /\ root \in Directories
      /\ Sound(fat, Heads(root, handles)) /\ OneOwner(root, handles) /\ Linked(fat, root, handles)
  BY DEF Inv, IInv
<1>2. SUFFICES ASSUME NEW h \in Opened, handles[h].loadedSector
               PROVE  /\ handles[h].currentSector \in Chain(fat, handles[h].firstCluster)
                      /\ \A n \in Files \ {handles[h].name} : FirstOf(n) # 0 =>
                           handles[h].currentSector \notin Chain(fat, FirstOf(n))
  BY DEF OwnSectors
<1>3. h \in Handles /\ handles[h] # Closed
  BY DEF Opened
<1>4. handles[h].currentSector \in Chain(fat, handles[h].firstCluster)
  BY <1>1, <1>2, <1>3 DEF Linked, Keeps
<1>5. /\ handles[h].firstCluster \in Heads(root, handles) /\ handles[h].firstCluster \in Sector
      /\ Has(root, handles, handles[h].name, handles[h].firstCluster)
      /\ handles[h].name \in Names
  BY <1>1, <1>3, OpenIs, HeadsAre
<1>6. ASSUME NEW n \in Files \ {handles[h].name}, FirstOf(n) # 0
      PROVE  handles[h].currentSector \notin Chain(fat, FirstOf(n))
  <2>1. /\ n \in Names /\ FirstOf(n) \in Heads(root, handles)
        /\ FirstOf(n) \in Sector /\ Has(root, handles, n, FirstOf(n))
    BY <1>6, FilesAre
  <2>2. FirstOf(n) # handles[h].firstCluster
    BY <1>1, <1>5, <1>6, <2>1 DEF OneOwner
  <2>3. Chain(fat, FirstOf(n)) \cap Chain(fat, handles[h].firstCluster) = {}
    BY <1>1, <1>5, <2>1, <2>2 DEF Sound
  <2> QED
    BY <1>4, <2>3
<1> QED
  BY <1>4, <1>6

LEMMA PositionedFollows ==
  ASSUME Inv
  PROVE  Positioned
<1>1. TInv(fat, root, handles, tame)
  BY DEF Inv
<1>2. ASSUME NEW h \in Opened, handles[h].name \in tame
      PROVE  /\ handles[h].filelength = root[handles[h].dirIndex].size
             /\ handles[h].filelength > 0 =>
                  /\ handles[h].loadedSector
                  /\ handles[h].curSectOff = handles[h].seekpos % SectorSize
                  /\ handles[h].currentSector =
                       SectorAt(fat, root[handles[h].dirIndex].first, handles[h].seekpos)
  <2>1. h \in Handles /\ handles[h] # Closed
    BY DEF Opened
  <2>2. Agrees(fat, root, handles[h])
    BY <1>1, <1>2, <2>1 DEF TInv, Agreed
  <2> QED
    BY <2>2 DEF Agrees, AtPosition, InPlace
<1> QED
  BY <1>2 DEF Positioned

\* Whatever handles do until a call goes astray, with a file truncated under another handle and a disk
\* that runs full, chains end, do not pass through free clusters and are of one
\* file each.
THEOREM ChainsStaySound ==
  Spec => []ChainsSound
<1>1. Inv /\ astray \in BOOLEAN => ChainsSound
  BY ChainsFollow
<1> QED
  BY <1>1, InvHolds, PTL

\* Until then, what a handle writes back is in the chain it has, and in no other
\* file.
THEOREM SectorsStayOwn ==
  Spec => []OwnSectors
<1>1. Inv => OwnSectors
  BY OwnSectorsFollow
<1> QED
  BY <1>1, InvHolds, PTL

\* Until then, a file used through one handle at a time is read and written at
\* the position.
THEOREM HandlesStayPositioned ==
  Spec => []Positioned
<1>1. Inv => Positioned
  BY PositionedFollows
<1> QED
  BY <1>1, InvHolds, PTL

=============================================================================
