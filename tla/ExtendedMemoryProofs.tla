------------------------ MODULE ExtendedMemoryProofs ------------------------
(***************************************************************************)
(* ExtendedMemory keeps EveryPageHasOneOwner for every size of the pool,   *)
(* every number of handles and all sizes that programs ask for, but one:   *)
(* a block of XMS of no kilobytes has the number of a free page, and       *)
(* EveryPageHasOneOwner does not hold with it.                             *)
(*                                                                         *)
(* The invariant is that there are paths: each block of n pages has a      *)
(* sequence of n different pages, linked in this order, and the paths of   *)
(* all blocks are apart and meet every page that is not free.  That the    *)
(* loops that follow the links from the first page of a block meet just    *)
(* the pages of its path is shown once (PathBlock); what the calls do is   *)
(* then said of paths, and is at most a change of one of them (OnePath).   *)
(*                                                                         *)
(* The second theorem is that ExtendedMemory implements HandleMemory: a    *)
(* handle shows the contents of the pages of its path in order (SeenIs),   *)
(* and a call changes the links and the contents of no page of another     *)
(* handle (Apart) and keeps what is on both the old and the new path of    *)
(* its own (SameContents).                                                 *)
(***************************************************************************)
EXTENDS ExtendedMemory, FiniteSetTheorems, TLAPS

-----------------------------------------------------------------------------
(* Least elements, and what follows from them by induction.                *)

\* A set of numbers that is not empty has a least element.
LEMMA LeastExists ==
  ASSUME NEW S \in SUBSET Nat, S # {}
  PROVE  \E x \in S : \A y \in S : x <= y
<1> DEFINE R == {ss \in Nat \X Nat : ss[1] < ss[2]}
<1>1. IsWellFoundedOn(R, Nat)
  BY NatLessThanWellFounded DEF OpToRel
<1> HIDE DEF R
<1>2. PICK x \in S : \A y \in S : ~(<<y, x>> \in R)
  BY <1>1, WFMin, Zenon
<1>3. \A y \in S : ~(y < x)
  BY <1>2 DEF R
<1> QED
  BY <1>3

\* A set of numbers that has 0, and with each number the next one up to n, has
\* all numbers up to n.
LEMMA AllUpTo ==
  ASSUME NEW S, NEW n \in Nat, 0 \in S, \A k \in 1 .. n : k - 1 \in S => k \in S
  PROVE  \A k \in 0 .. n : k \in S
<1> SUFFICES ASSUME NEW a \in 0 .. n, a \notin S
             PROVE  FALSE
  OBVIOUS
<1> DEFINE bad == {k \in 0 .. n : k \notin S}
<1>1. bad \in SUBSET Nat /\ bad # {}
  OBVIOUS
<1> HIDE DEF bad
<1>2. PICK x \in bad : \A y \in bad : x <= y
  BY <1>1, LeastExists
<1>3. x \in 0 .. n /\ x \notin S
  BY <1>2 DEF bad
<1>4. x \in 1 .. n
  BY <1>3
<1>5. x - 1 \notin bad
  <2>1. ~(x <= x - 1)
    BY <1>4
  <2> QED
    BY <1>2, <2>1
<1>6. x - 1 \in S
  BY <1>4, <1>5 DEF bad
<1> QED
  BY <1>3, <1>4, <1>6

-----------------------------------------------------------------------------
(* Following the links.                                                    *)

MaxSteps == Cardinality(Pool)

LEMMA PoolIs ==
  /\ Pool \subseteq Nat \ {0} /\ 0 \notin Pool /\ Last \notin Pool
  /\ IsFiniteSet(Pool) /\ MaxSteps \in Nat
<1>1. Pool \subseteq Nat \ {0} /\ 0 \notin Pool /\ Last \notin Pool
  BY PoolAssumption DEF Pool, Last
<1>2. IsFiniteSet(Pool)
  BY PoolAssumption, FS_Interval DEF Pool
<1> QED
  BY <1>1, <1>2, FS_CardinalityType DEF MaxSteps

\* f gives the first n places on the way from h.
Steps(m, h, n, f) ==
  f = [k \in 0 .. n |-> IF k = 0 THEN h ELSE MEM_NextHandle(m, f[k - 1])]

LEMMA StepsExist ==
  ASSUME NEW m, NEW h, NEW n \in Nat
  PROVE  \E f : Steps(m, h, n, f)
<1> DEFINE S == {k \in 0 .. n : \E f : Steps(m, h, k, f)}
<1>1. 0 \in S
  <2> DEFINE f == [k \in 0 .. 0 |-> h]
  <2>1. Steps(m, h, 0, f)
    BY DEF Steps
  <2> QED
    BY <2>1
<1>2. ASSUME NEW x \in 1 .. n, x - 1 \in S
      PROVE  x \in S
  <2>1. PICK f : Steps(m, h, x - 1, f)
    BY <1>2
  <2>2. f = [k \in 0 .. x - 1 |-> IF k = 0 THEN h ELSE MEM_NextHandle(m, f[k - 1])]
    BY <2>1 DEF Steps
  <2> DEFINE g == [k \in 0 .. x |-> IF k = 0 THEN h ELSE MEM_NextHandle(m, f[k - 1])]
  <2>3. ASSUME NEW k \in 0 .. x - 1
        PROVE  g[k] = f[k]
    <3>1. f[k] = IF k = 0 THEN h ELSE MEM_NextHandle(m, f[k - 1])
      BY <2>2
    <3>2. k \in 0 .. x
      BY <1>2
    <3> QED
      BY <3>1, <3>2
  <2>4. ASSUME NEW k \in 0 .. x
        PROVE  g[k] = IF k = 0 THEN h ELSE MEM_NextHandle(m, g[k - 1])
    <3>1. k # 0 => k - 1 \in 0 .. x - 1
      BY <1>2
    <3>2. k # 0 => g[k - 1] = f[k - 1]
      BY <2>3, <3>1
    <3> QED
      BY <3>2
  <2>5. g = [k \in 0 .. x |-> g[k]]
    OBVIOUS
  <2> HIDE DEF g
  <2>6. Steps(m, h, x, g)
    BY <2>4, <2>5, Zenon DEF Steps
  <2> QED
    BY <1>2, <2>6
<1> HIDE DEF S
<1>3. \A k \in 0 .. n : k \in S
  BY <1>1, <1>2, AllUpTo
<1> QED
  BY <1>3 DEF S

LEMMA WalkIs ==
  ASSUME NEW m, NEW h
  PROVE  /\ Walk(m, h)[0] = h
         /\ \A k \in 1 .. MaxSteps : Walk(m, h)[k] = MEM_NextHandle(m, Walk(m, h)[k - 1])
<1> DEFINE P(at) == at = [k \in 0 .. MaxSteps |->
                            IF k = 0 THEN h ELSE MEM_NextHandle(m, at[k - 1])]
<1>1. Walk(m, h) = CHOOSE at : P(at)
  BY Zenon DEF Walk, MaxSteps
<1>2. \E f : P(f)
  <2>1. PICK f : Steps(m, h, MaxSteps, f)
    BY PoolIs, StepsExist
  <2>2. P(f)
    BY <2>1, Zenon DEF Steps
  <2> QED
    BY <2>2
<1> HIDE DEF P
<1>3. P(Walk(m, h))
  BY <1>1, <1>2, Zenon
<1>4. Walk(m, h) = [k \in 0 .. MaxSteps |->
                      IF k = 0 THEN h ELSE MEM_NextHandle(m, Walk(m, h)[k - 1])]
  BY <1>3 DEF P
<1>5. \A k \in 0 .. MaxSteps :
        Walk(m, h)[k] = IF k = 0 THEN h ELSE MEM_NextHandle(m, Walk(m, h)[k - 1])
  BY <1>4
<1>6. 0 \in 0 .. MaxSteps /\ \A k \in 1 .. MaxSteps : k \in 0 .. MaxSteps /\ k # 0
  BY PoolIs
<1> QED
  BY <1>5, <1>6

-----------------------------------------------------------------------------
(* Paths.                                                                  *)

\* f is the path of a block of n pages that starts at h.
IsPath(m, h, n, f) ==
  /\ f \in [0 .. n - 1 -> Pool]
  /\ \A i, j \in 0 .. n - 1 : f[i] = f[j] => i = j
  /\ n > 0 => f[0] = h /\ m[f[n - 1]] = Last
  /\ n = 0 => h \notin Pool
  /\ \A i \in 0 .. n - 2 : m[f[i]] = f[i + 1]

\* The pages on it.
On(n, f) == {f[i] : i \in 0 .. n - 1}

LEMMA PathSize ==
  ASSUME NEW m, NEW h, NEW n \in Nat, NEW f, IsPath(m, h, n, f)
  PROVE  /\ n <= MaxSteps
         /\ On(n, f) \subseteq Pool
         /\ Cardinality(On(n, f)) = n
<1>1. Cardinality(0 .. n - 1) = n /\ IsFiniteSet(0 .. n - 1)
  BY FS_Interval
<1>2. f \in Injection(0 .. n - 1, Pool)
  BY DEF IsPath, Injection, IsInjective
<1>3. n <= MaxSteps
  BY <1>1, <1>2, FS_Injection, PoolIs DEF MaxSteps
<1>4. On(n, f) \subseteq Pool
  BY DEF IsPath, On
<1>5. f \in Surjection(0 .. n - 1, On(n, f))
  BY DEF IsPath, Surjection, On
<1>6. f \in Injection(0 .. n - 1, On(n, f))
  BY <1>2, <1>5 DEF Injection, Surjection, IsInjective
<1>7. Cardinality(On(n, f)) = n
  BY <1>1, <1>5, <1>6, FS_Surjection
<1> QED
  BY <1>3, <1>4, <1>7

LEMMA PathWalk ==
  ASSUME NEW m, NEW h, NEW n \in Nat, NEW f, IsPath(m, h, n, f)
  PROVE  \A k \in 0 .. MaxSteps : IF k < n THEN Walk(m, h)[k] = f[k]
                                  ELSE Walk(m, h)[k] \notin Pool
<1> DEFINE S == {k \in 0 .. MaxSteps : IF k < n THEN Walk(m, h)[k] = f[k]
                                       ELSE Walk(m, h)[k] \notin Pool}
<1>0. MaxSteps \in Nat
  BY PoolIs
<1>1. 0 \in S
  BY <1>0, WalkIs DEF IsPath
<1>2. ASSUME NEW k \in 1 .. MaxSteps, k - 1 \in S
      PROVE  k \in S
  <2>0. Walk(m, h)[k] = MEM_NextHandle(m, Walk(m, h)[k - 1])
    BY WalkIs
  <2>1. CASE k < n
    <3>1. Walk(m, h)[k - 1] = f[k - 1] /\ k - 1 \in 0 .. n - 2 /\ k - 1 \in 0 .. n - 1
      BY <1>0, <1>2, <2>1
    <3>2. f[k - 1] \in Pool /\ m[f[k - 1]] = f[(k - 1) + 1]
      BY <3>1 DEF IsPath
    <3>3. Walk(m, h)[k] = f[k]
      BY <2>0, <3>1, <3>2 DEF MEM_NextHandle
    <3> QED
      BY <1>0, <2>1, <3>3
  <2>2. CASE k = n
    <3>1. Walk(m, h)[k - 1] = f[n - 1] /\ n - 1 \in 0 .. n - 1 /\ n > 0
      BY <1>0, <1>2, <2>2
    <3>2. f[n - 1] \in Pool /\ m[f[n - 1]] = Last
      BY <3>1 DEF IsPath
    <3>3. Walk(m, h)[k] = Last
      BY <2>0, <3>1, <3>2 DEF MEM_NextHandle
    <3> QED
      BY <1>0, <2>2, <3>3, PoolIs
  <2>3. CASE k > n
    <3>1. Walk(m, h)[k - 1] \notin Pool
      BY <1>0, <1>2, <2>3
    <3>2. Walk(m, h)[k] = 0
      BY <2>0, <3>1 DEF MEM_NextHandle
    <3> QED
      BY <1>0, <2>3, <3>2, PoolIs
  <2> QED
    BY <1>0, <2>1, <2>2, <2>3
<1> HIDE DEF S
<1>3. \A k \in 0 .. MaxSteps : k \in S
  BY <1>0, <1>1, <1>2, AllUpTo
<1> QED
  BY <1>3 DEF S

\* The loops meet the pages of the path and no others.
LEMMA PathBlock ==
  ASSUME NEW m, NEW h, NEW n \in Nat, NEW f, IsPath(m, h, n, f)
  PROVE  /\ Block(m, h) = On(n, f)
         /\ MEM_AllocatedPages(m, h) = n
         /\ \A i \in 0 .. n - 1 : MEM_NextHandleAt(m, h, i) = f[i]
<1>0. MaxSteps \in Nat /\ n <= MaxSteps /\ On(n, f) \subseteq Pool
  BY PoolIs, PathSize
<1>1. \A k \in 0 .. MaxSteps : IF k < n THEN Walk(m, h)[k] = f[k]
                               ELSE Walk(m, h)[k] \notin Pool
  BY PathWalk
<1>2. ASSUME NEW p
      PROVE  p \in Block(m, h) <=> p \in On(n, f)
  <2>1. ASSUME p \in Block(m, h)
        PROVE  p \in On(n, f)
    <3>1. PICK k \in 0 .. MaxSteps : p = Walk(m, h)[k] /\ p \in Pool
      BY <2>1 DEF Block, MaxSteps
    <3>2. k < n /\ p = f[k] /\ k \in 0 .. n - 1
      BY <1>0, <1>1, <3>1
    <3> QED
      BY <3>2 DEF On
  <2>2. ASSUME p \in On(n, f)
        PROVE  p \in Block(m, h)
    <3>1. PICK k \in 0 .. n - 1 : p = f[k]
      BY <2>2 DEF On
    <3>2. k \in 0 .. MaxSteps /\ k < n
      BY <1>0
    <3>3. p = Walk(m, h)[k]
      BY <1>1, <3>1, <3>2
    <3>4. p \in Pool
      BY <1>0, <2>2
    <3> QED
      BY <3>2, <3>3, <3>4 DEF Block, MaxSteps
  <2> QED
    BY <2>1, <2>2
<1>3. Block(m, h) = On(n, f)
  BY <1>2
<1>4. MEM_AllocatedPages(m, h) = n
  BY <1>3, PathSize DEF MEM_AllocatedPages
<1>5. \A i \in 0 .. n - 1 : i \in 0 .. MaxSteps /\ i < n
  BY <1>0
<1>6. \A i \in 0 .. n - 1 : MEM_NextHandleAt(m, h, i) = f[i]
  BY <1>1, <1>5 DEF MEM_NextHandleAt
<1> QED
  BY <1>3, <1>4, <1>6

\* A path needs only the links of its own pages.
LEMMA SamePath ==
  ASSUME NEW m, NEW m2, NEW h, NEW n \in Nat, NEW f, IsPath(m, h, n, f),
         \A p \in On(n, f) : m2[p] = m[p]
  PROVE  IsPath(m2, h, n, f)
<1>1. \A i \in 0 .. n - 1 : m2[f[i]] = m[f[i]]
  BY DEF On
<1>2. \A i \in 0 .. n - 2 : i \in 0 .. n - 1
  OBVIOUS
<1>3. n > 0 => n - 1 \in 0 .. n - 1
  OBVIOUS
<1> QED
  BY <1>1, <1>2, <1>3 DEF IsPath

\* The pages of a block are not free.
LEMMA OnIsLinked ==
  ASSUME NEW m, NEW h, NEW n \in Nat, NEW f, IsPath(m, h, n, f), NEW p \in On(n, f)
  PROVE  p \in Pool /\ m[p] # 0
<1>1. PICK i \in 0 .. n - 1 : p = f[i]
  BY DEF On
<1>2. CASE i = n - 1
  BY <1>1, <1>2, PoolIs DEF IsPath, Last
<1>3. CASE i < n - 1
  <2>1. i \in 0 .. n - 2 /\ i + 1 \in 0 .. n - 1
    BY <1>3
  <2>2. m[p] = f[i + 1] /\ f[i + 1] \in Pool /\ p \in Pool
    BY <1>1, <2>1 DEF IsPath
  <2> QED
    BY <2>2, PoolIs
<1> QED
  BY <1>1, <1>2, <1>3

\* What is behind the first k pages of a block is a path, too.
Rest(n, f, k) == {f[j] : j \in k .. n - 1}

LEMMA RestOfPath ==
  ASSUME NEW m, NEW h, NEW n \in Nat, NEW f, IsPath(m, h, n, f), NEW k \in 0 .. n - 1
  PROVE  \E g : IsPath(m, f[k], n - k, g) /\ On(n - k, g) = Rest(n, f, k)
<1> DEFINE g == [i \in 0 .. n - k - 1 |-> f[i + k]]
<1>1. \A i \in 0 .. n - k - 1 : i + k \in 0 .. n - 1 /\ g[i] = f[i + k]
  OBVIOUS
<1>2. g \in [0 .. n - k - 1 -> Pool]
  BY <1>1 DEF IsPath
<1>3. On(n - k, g) = Rest(n, f, k)
  <2>1. ASSUME NEW j \in k .. n - 1
        PROVE  \E i \in 0 .. n - k - 1 : g[i] = f[j]
    <3>1. j - k \in 0 .. n - k - 1 /\ (j - k) + k = j
      OBVIOUS
    <3> QED
      BY <1>1, <3>1
  <2>2. ASSUME NEW i \in 0 .. n - k - 1
        PROVE  \E j \in k .. n - 1 : g[i] = f[j]
    BY <1>1
  <2> HIDE DEF g
  <2> QED
    BY <2>1, <2>2 DEF On, Rest
<1> HIDE DEF g
<1>4. \A i, j \in 0 .. n - k - 1 : g[i] = g[j] => i = j
  <2> SUFFICES ASSUME NEW i \in 0 .. n - k - 1, NEW j \in 0 .. n - k - 1, g[i] = g[j]
               PROVE  i = j
    OBVIOUS
  <2>1. f[i + k] = f[j + k] /\ i + k \in 0 .. n - 1 /\ j + k \in 0 .. n - 1
    BY <1>1
  <2>2. i + k = j + k
    BY <2>1 DEF IsPath
  <2> QED
    BY <2>2
<1>5. n - k > 0 /\ n - k \in Nat
  OBVIOUS
<1>6. g[0] = f[k] /\ m[g[n - k - 1]] = Last
  <2>1. 0 \in 0 .. n - k - 1 /\ n - k - 1 \in 0 .. n - k - 1 /\ 0 + k = k
        /\ (n - k - 1) + k = n - 1 /\ n > 0
    OBVIOUS
  <2>2. g[0] = f[k] /\ g[n - k - 1] = f[n - 1]
    BY <1>1, <2>1
  <2> QED
    BY <2>1, <2>2 DEF IsPath
<1>7. ASSUME NEW i \in 0 .. n - k - 2
      PROVE  m[g[i]] = g[i + 1]
  <2>1. i \in 0 .. n - k - 1 /\ i + 1 \in 0 .. n - k - 1 /\ i + k \in 0 .. n - 2
        /\ (i + 1) + k = (i + k) + 1
    OBVIOUS
  <2>2. g[i] = f[i + k] /\ g[i + 1] = f[(i + k) + 1]
    BY <1>1, <2>1
  <2> QED
    BY <2>1, <2>2 DEF IsPath
<1>8. IsPath(m, f[k], n - k, g)
  BY <1>2, <1>4, <1>5, <1>6, <1>7 DEF IsPath
<1> QED
  BY <1>3, <1>8

\* A block is cut behind its page k.
Cut(f, k) == [i \in 0 .. k - 1 |-> f[i]]

LEMMA CutPath ==
  ASSUME NEW m, NEW m2, NEW h, NEW n \in Nat, NEW f, IsPath(m, h, n, f), NEW k \in 1 .. n,
         m2[f[k - 1]] = Last, \A i \in 0 .. k - 2 : m2[f[i]] = m[f[i]]
  PROVE  IsPath(m2, h, k, Cut(f, k))
<1> DEFINE g == Cut(f, k)
<1>1. \A i \in 0 .. k - 1 : i \in 0 .. n - 1 /\ g[i] = f[i]
  BY DEF Cut
<1>2. g \in [0 .. k - 1 -> Pool]
  BY <1>1 DEF IsPath, Cut
<1> HIDE DEF g
<1>4. \A i, j \in 0 .. k - 1 : g[i] = g[j] => i = j
  BY <1>1 DEF IsPath
<1>5. g[0] = h /\ m2[g[k - 1]] = Last
  <2>1. 0 \in 0 .. k - 1 /\ k - 1 \in 0 .. k - 1 /\ n > 0
    OBVIOUS
  <2> QED
    BY <1>1, <2>1 DEF IsPath
<1>6. ASSUME NEW i \in 0 .. k - 2
      PROVE  m2[g[i]] = g[i + 1]
  <2>1. i \in 0 .. k - 1 /\ i + 1 \in 0 .. k - 1 /\ i \in 0 .. n - 2
    OBVIOUS
  <2>2. m2[f[i]] = m[f[i]] /\ m[f[i]] = f[i + 1]
    BY <2>1 DEF IsPath
  <2> QED
    BY <1>1, <2>1, <2>2
<1>7. k > 0 /\ k # 0
  OBVIOUS
<1>8. IsPath(m2, h, k, g)
  BY <1>2, <1>4, <1>5, <1>6, <1>7 DEF IsPath
<1> QED
  BY <1>8 DEF g

\* A path is linked to the end of a block.
LEMMA JoinPaths ==
  ASSUME NEW m, NEW m2, NEW h, NEW n \in Nat \ {0}, NEW f, IsPath(m, h, n, f),
         NEW h2, NEW k \in Nat \ {0}, NEW g, IsPath(m2, h2, k, g),
         On(n, f) \cap On(k, g) = {},
         m2[f[n - 1]] = h2, \A i \in 0 .. n - 2 : m2[f[i]] = m[f[i]]
  PROVE  \E j : /\ IsPath(m2, h, n + k, j) /\ On(n + k, j) = On(n, f) \cup On(k, g)
               /\ \A i \in 0 .. n - 1 : j[i] = f[i]
<1> DEFINE j == [i \in 0 .. n + k - 1 |-> IF i < n THEN f[i] ELSE g[i - n]]
<1>1. ASSUME NEW i \in 0 .. n + k - 1
      PROVE  /\ i < n => i \in 0 .. n - 1 /\ j[i] = f[i]
             /\ i >= n => i - n \in 0 .. k - 1 /\ j[i] = g[i - n]
  OBVIOUS
<1>2. j \in [0 .. n + k - 1 -> Pool]
  <2>1. \A i \in 0 .. n + k - 1 : j[i] \in Pool
    BY <1>1 DEF IsPath
  <2> QED
    BY <2>1
<1> HIDE DEF j
<1>3. ASSUME NEW i \in 0 .. n - 1
      PROVE  i \in 0 .. n + k - 1 /\ j[i] = f[i]
  BY <1>1
<1>4. ASSUME NEW i \in 0 .. k - 1
      PROVE  i + n \in 0 .. n + k - 1 /\ j[i + n] = g[i]
  <2>1. i + n \in 0 .. n + k - 1 /\ i + n >= n /\ (i + n) - n = i
    OBVIOUS
  <2> QED
    BY <1>1, <2>1
<1>5. On(n + k, j) = On(n, f) \cup On(k, g)
  <2>1. \A i \in 0 .. n + k - 1 : j[i] \in On(n, f) \cup On(k, g)
    BY <1>1 DEF On
  <2>2. \A i \in 0 .. n - 1 : f[i] \in On(n + k, j)
    BY <1>3 DEF On
  <2>3. \A i \in 0 .. k - 1 : g[i] \in On(n + k, j)
    BY <1>4 DEF On
  <2> QED
    BY <2>1, <2>2, <2>3 DEF On
<1>6. ASSUME NEW a \in 0 .. n + k - 1, NEW b \in 0 .. n + k - 1, j[a] = j[b]
      PROVE  a = b
  <2>1. CASE a < n /\ b < n
    BY <1>1, <1>6, <2>1 DEF IsPath
  <2>2. CASE a >= n /\ b >= n
    <3>1. a - n = b - n
      BY <1>1, <1>6, <2>2 DEF IsPath
    <3> QED
      BY <3>1
  <2>3. CASE a < n /\ b >= n
    BY <1>1, <1>6, <2>3 DEF On
  <2>4. CASE a >= n /\ b < n
    BY <1>1, <1>6, <2>4 DEF On
  <2> QED
    BY <2>1, <2>2, <2>3, <2>4
<1>7. j[0] = h /\ m2[j[n + k - 1]] = Last
  <2>1. 0 \in 0 .. n - 1 /\ k - 1 \in 0 .. k - 1 /\ (k - 1) + n = n + k - 1 /\ n > 0 /\ k > 0
    OBVIOUS
  <2>2. j[0] = f[0] /\ j[n + k - 1] = g[k - 1]
    BY <1>3, <1>4, <2>1
  <2> QED
    BY <2>1, <2>2 DEF IsPath
<1>8. ASSUME NEW i \in 0 .. n + k - 2
      PROVE  m2[j[i]] = j[i + 1]
  <2>1. CASE i < n - 1
    <3>1. i \in 0 .. n - 2 /\ i \in 0 .. n - 1 /\ i + 1 \in 0 .. n - 1
      BY <2>1
    <3>2. m2[f[i]] = m[f[i]] /\ m[f[i]] = f[i + 1]
      BY <3>1 DEF IsPath
    <3> QED
      BY <1>3, <3>1, <3>2
  <2>2. CASE i = n - 1
    <3>1. i \in 0 .. n - 1 /\ 0 \in 0 .. k - 1 /\ 0 + n = i + 1 /\ k > 0
      BY <2>2
    <3>2. j[i] = f[n - 1] /\ j[i + 1] = g[0]
      BY <1>3, <1>4, <2>2, <3>1
    <3>3. g[0] = h2
      BY <3>1 DEF IsPath
    <3> QED
      BY <3>2, <3>3
  <2>3. CASE i >= n
    <3>1. i - n \in 0 .. k - 2 /\ i - n \in 0 .. k - 1 /\ (i - n) + 1 \in 0 .. k - 1
          /\ (i - n) + n = i /\ ((i - n) + 1) + n = i + 1
      BY <2>3
    <3>2. j[i] = g[i - n] /\ j[i + 1] = g[(i - n) + 1]
      BY <1>4, <3>1
    <3>3. m2[g[i - n]] = g[(i - n) + 1]
      BY <3>1 DEF IsPath
    <3> QED
      BY <3>2, <3>3
  <2> QED
    BY <2>1, <2>2, <2>3
<1>9. n + k > 0 /\ n + k # 0
  OBVIOUS
<1>10. IsPath(m2, h, n + k, j)
  BY <1>2, <1>6, <1>7, <1>8, <1>9 DEF IsPath
<1> QED
  BY <1>3, <1>5, <1>10

-----------------------------------------------------------------------------
(* The blocks of all handles.                                              *)

\* path[b] is the path of block b, size[b] pages from first[b]; the paths are
\* apart, and meet every page that is not free.
Owned(m, first, size, path) ==
  /\ \A b \in AllHandles : size[b] \in Nat /\ IsPath(m, first[b], size[b], path[b])
  /\ \A b, c \in AllHandles : b # c => On(size[b], path[b]) \cap On(size[c], path[c]) = {}
  /\ \A p \in Pool : m[p] # 0 => \E b \in AllHandles : p \in On(size[b], path[b])

\* The new path of a block, f2, takes free pages and the ones that the block
\* had, and gives back those of the latter that it does not keep.
Exchanged(m, n, f, m2, n2, f2) ==
  /\ \A p \in On(n2, f2) : p \in On(n, f) \/ m[p] = 0
  /\ \A p \in Pool : p \notin On(n, f) /\ p \notin On(n2, f2) => m2[p] = m[p]
  /\ \A p \in On(n, f) : p \notin On(n2, f2) => m2[p] = 0

\* Every call changes one path at most.
LEMMA OnePath ==
  ASSUME NEW m, NEW first, NEW size, NEW path, Owned(m, first, size, path),
         NEW id \in AllHandles, NEW m2, NEW h, NEW n \in Nat, NEW f,
         IsPath(m2, h, n, f), Exchanged(m, size[id], path[id], m2, n, f),
         NEW first2, NEW size2, first2[id] = h, size2[id] = n,
         \A b \in AllHandles \ {id} : first2[b] = first[b] /\ size2[b] = size[b]
  PROVE  Owned(m2, first2, size2, [b \in AllHandles |-> IF b = id THEN f ELSE path[b]])
<1> DEFINE path2 == [b \in AllHandles |-> IF b = id THEN f ELSE path[b]]
<1>1. path2[id] = f /\ \A b \in AllHandles \ {id} : path2[b] = path[b]
  OBVIOUS
<1> HIDE DEF path2
<1>2. ASSUME NEW b \in AllHandles \ {id}
      PROVE  /\ On(size2[b], path2[b]) = On(size[b], path[b])
             /\ On(size[b], path[b]) \cap On(n, f) = {}
             /\ size2[b] \in Nat /\ IsPath(m2, first2[b], size2[b], path2[b])
  <2>1. On(size2[b], path2[b]) = On(size[b], path[b])
    BY <1>1
  <2>2. size[b] \in Nat /\ IsPath(m, first[b], size[b], path[b])
        /\ On(size[b], path[b]) \cap On(size[id], path[id]) = {}
    BY DEF Owned
  <2>3. ASSUME NEW p \in On(size[b], path[b])
        PROVE  p \notin On(n, f) /\ p \in Pool /\ m2[p] = m[p]
    <3>1. p \in Pool /\ m[p] # 0
      BY <2>2, OnIsLinked
    <3>2. p \notin On(size[id], path[id])
      BY <2>2
    <3> QED
      BY <3>1, <3>2 DEF Exchanged
  <2>4. IsPath(m2, first[b], size[b], path[b])
    BY <2>2, <2>3, SamePath
  <2> QED
    BY <1>1, <2>1, <2>2, <2>3, <2>4
<1>3. \A b \in AllHandles : size2[b] \in Nat /\ IsPath(m2, first2[b], size2[b], path2[b])
  BY <1>1, <1>2
<1>4. ASSUME NEW b \in AllHandles, NEW c \in AllHandles, b # c
      PROVE  On(size2[b], path2[b]) \cap On(size2[c], path2[c]) = {}
  <2>1. CASE b = id
    BY <1>1, <1>2, <1>4, <2>1
  <2>2. CASE c = id
    BY <1>1, <1>2, <1>4, <2>2
  <2>3. CASE b # id /\ c # id
    <3>1. On(size[b], path[b]) \cap On(size[c], path[c]) = {}
      BY <1>4 DEF Owned
    <3> QED
      BY <1>2, <2>3, <3>1
  <2> QED
    BY <2>1, <2>2, <2>3
<1>5. ASSUME NEW p \in Pool, m2[p] # 0
      PROVE  \E b \in AllHandles : p \in On(size2[b], path2[b])
  <2>1. CASE p \in On(n, f)
    BY <1>1, <2>1
  <2>2. CASE p \notin On(n, f)
    <3>1. p \notin On(size[id], path[id])
      BY <1>5, <2>2 DEF Exchanged
    <3>2. m[p] # 0
      BY <1>5, <2>2, <3>1 DEF Exchanged
    <3>3. PICK b \in AllHandles : p \in On(size[b], path[b])
      BY <3>2 DEF Owned
    <3>4. b # id
      BY <3>1, <3>3
    <3> QED
      BY <1>2, <3>3, <3>4
  <2> QED
    BY <2>1, <2>2
<1>6. Owned(m2, first2, size2, path2)
  BY <1>3, <1>4, <1>5 DEF Owned
<1> QED
  BY <1>6 DEF path2

-----------------------------------------------------------------------------
(* Allocation.                                                             *)

Links == [Pool -> {0, Last} \cup Pool]

\* n free pages of m are the path f from h in m2, and all else is as in m.
Given(m, n, m2, h, f) ==
  /\ m2 \in Links
  /\ IsPath(m2, h, n, f)
  /\ \A p \in On(n, f) : m[p] = 0
  /\ \A p \in Pool : p \notin On(n, f) => m2[p] = m[p]

LEMMA FreeIs ==
  ASSUME NEW m
  PROVE  /\ FreePages(m) \subseteq Pool /\ FreePages(m) \subseteq Nat
         /\ IsFiniteSet(FreePages(m)) /\ MEM_FreeTotal(m) \in Nat
<1>1. FreePages(m) \in SUBSET Pool
  BY DEF FreePages
<1>2. IsFiniteSet(FreePages(m))
  BY <1>1, PoolIs, FS_Subset
<1>3. MEM_FreeTotal(m) \in Nat
  BY <1>2, FS_CardinalityType DEF MEM_FreeTotal
<1> QED
  BY <1>1, <1>2, <1>3, PoolIs

\* place gives each page of D its number, from 0 to n - 1.
Numbered(D, n, place) ==
  /\ place \in [D -> 0 .. n - 1]
  /\ \A p, q \in D : place[p] = place[q] => p = q
  /\ \A k \in 0 .. n - 1 : \E p \in D : place[p] = k

AtPlace(place, k) == CHOOSE p \in DOMAIN place : place[p] = k

\* Pages with numbers are linked in the order of their numbers.
LEMMA LinkedGives ==
  ASSUME NEW m \in Links, NEW n \in Nat \ {0}, NEW D \in SUBSET FreePages(m), NEW place,
         Numbered(D, n, place)
  PROVE  LET f == [k \in 0 .. n - 1 |-> AtPlace(place, k)]
         IN  /\ Given(m, n, Taken(m, place).m, Taken(m, place).mem, f)
             /\ \A k \in 0 .. n - 1 : f[k] \in D /\ place[f[k]] = k
             /\ Taken(m, place).mem \in Pool
<1> DEFINE f == [k \in 0 .. n - 1 |-> AtPlace(place, k)]
           links == [p \in Pool |-> IF p \notin DOMAIN place THEN m[p]
                                    ELSE IF place[p] = Cardinality(DOMAIN place) - 1 THEN Last
                                    ELSE AtPlace(place, place[p] + 1)]
<1>1. DOMAIN place = D
  BY DEF Numbered
<1>2. ASSUME NEW k \in 0 .. n - 1
      PROVE  AtPlace(place, k) \in D /\ place[AtPlace(place, k)] = k
  <2>1. \E p \in DOMAIN place : place[p] = k
    BY <1>1 DEF Numbered
  <2>2. AtPlace(place, k) \in DOMAIN place /\ place[AtPlace(place, k)] = k
    BY <2>1, Zenon DEF AtPlace
  <2> QED
    BY <1>1, <2>2
<1>3. \A p \in D : place[p] \in 0 .. n - 1 /\ AtPlace(place, place[p]) = p
  BY <1>2 DEF Numbered
<1>4. Cardinality(D) = n
  <2>1. IsFiniteSet(0 .. n - 1) /\ Cardinality(0 .. n - 1) = n
    BY FS_Interval
  <2>2. place \in Injection(D, 0 .. n - 1) /\ place \in Surjection(D, 0 .. n - 1)
    BY DEF Numbered, Injection, IsInjective, Surjection
  <2> QED
    BY <2>1, <2>2, FS_Injection
<1>5. 0 \in 0 .. n - 1 /\ n - 1 \in 0 .. n - 1 /\ D # {}
  BY DEF Numbered
<1>6. Taken(m, place) = [mem |-> AtPlace(place, 0), m |-> links]
  <2>1. DOMAIN place # {}
    BY <1>1, <1>5
  <2> QED
    BY <2>1 DEF Taken, Linked, AtPlace
<1>7. \A k \in 0 .. n - 1 : f[k] = AtPlace(place, k)
  OBVIOUS
<1>8. ASSUME NEW p \in Pool
      PROVE  /\ p \notin D => links[p] = m[p]
             /\ p \in D /\ place[p] = n - 1 => links[p] = Last
             /\ p \in D /\ place[p] # n - 1 => links[p] = AtPlace(place, place[p] + 1)
  BY <1>1, <1>4
<1>9. links = [p \in Pool |-> links[p]]
  OBVIOUS
<1>10. f = [k \in 0 .. n - 1 |-> f[k]]
  OBVIOUS
<1> HIDE DEF f, links
<1>11. D \subseteq Pool
  BY FreeIs
<1>12. links \in Links
  <2>1. ASSUME NEW p \in Pool
        PROVE  links[p] \in {0, Last} \cup Pool
    <3>1. CASE p \in D /\ place[p] # n - 1
      <4>1. place[p] + 1 \in 0 .. n - 1
        BY <1>3, <3>1
      <4> QED
        BY <1>2, <1>8, <1>11, <3>1, <4>1
    <3> QED
      BY <1>8, <3>1 DEF Links
  <2> QED
    BY <1>9, <2>1 DEF Links
<1>13. On(n, f) = D
  <2>1. \A k \in 0 .. n - 1 : f[k] \in D
    BY <1>2, <1>7
  <2>2. \A p \in D : \E k \in 0 .. n - 1 : f[k] = p
    BY <1>3, <1>7
  <2> QED
    BY <2>1, <2>2 DEF On
<1>14. IsPath(links, AtPlace(place, 0), n, f)
  <2>1. f \in [0 .. n - 1 -> Pool]
    BY <1>2, <1>7, <1>10, <1>11
  <2>2. \A i, j \in 0 .. n - 1 : f[i] = f[j] => i = j
    BY <1>2, <1>7
  <2>3. f[0] = AtPlace(place, 0) /\ links[f[n - 1]] = Last
    BY <1>2, <1>5, <1>7, <1>8, <1>11
  <2>4. ASSUME NEW i \in 0 .. n - 2
        PROVE  links[f[i]] = f[i + 1]
    <3>1. i \in 0 .. n - 1 /\ i + 1 \in 0 .. n - 1 /\ i # n - 1
      OBVIOUS
    <3>2. f[i] \in D /\ f[i] \in Pool /\ place[f[i]] = i
      BY <1>2, <1>7, <1>11, <3>1
    <3> QED
      BY <1>7, <1>8, <3>1, <3>2
  <2>5. n # 0
    OBVIOUS
  <2> QED
    BY <2>1, <2>2, <2>3, <2>4, <2>5 DEF IsPath
<1>15. Given(m, n, links, AtPlace(place, 0), f)
  BY <1>8, <1>12, <1>13, <1>14 DEF Given, FreePages
<1>16. \A k \in 0 .. n - 1 : f[k] \in D /\ place[f[k]] = k
  BY <1>2, <1>7
<1>17. AtPlace(place, 0) \in Pool
  BY <1>2, <1>5, <1>11
<1> QED
  BY <1>6, <1>15, <1>16, <1>17 DEF f

\* How many come sooner than p.
Before(length, p) == {q \in DOMAIN length : Sooner(length, q, p)}
Rank(length, p) == Cardinality(Before(length, p))

\* Sooner is a strict order of the free pages, and the ranks number them in it.
LEMMA Ranks ==
  ASSUME NEW D \in SUBSET Nat, IsFiniteSet(D), NEW length \in [D -> Nat]
  PROVE  /\ \A p, q \in D : p # q => Sooner(length, p, q) \/ Sooner(length, q, p)
         /\ \A p, q \in D : Sooner(length, p, q) => Rank(length, p) < Rank(length, q)
         /\ Numbered(D, Cardinality(D), [p \in D |-> Rank(length, p)])
<1> DEFINE n == Cardinality(D)
           rank == [p \in D |-> Rank(length, p)]
<1>0. n \in Nat
  BY FS_CardinalityType
<1>1. \A p, q \in D : p # q => Sooner(length, p, q) \/ Sooner(length, q, p)
  BY DEF Sooner
<1>2. ASSUME NEW p \in D
      PROVE  /\ Before(length, p) \in SUBSET D /\ p \notin Before(length, p)
             /\ IsFiniteSet(Before(length, p)) /\ Rank(length, p) \in 0 .. n - 1
  <2>1. Before(length, p) \in SUBSET D /\ p \notin Before(length, p)
    BY DEF Before, Sooner
  <2>2. IsFiniteSet(Before(length, p)) /\ Rank(length, p) <= n
        /\ (Rank(length, p) = n => D = Before(length, p))
    BY <2>1, FS_Subset DEF Rank
  <2>3. Rank(length, p) \in Nat
    BY <2>2, FS_CardinalityType DEF Rank
  <2> QED
    BY <1>0, <2>1, <2>2, <2>3
<1>3. ASSUME NEW p \in D, NEW q \in D, Sooner(length, p, q)
      PROVE  Rank(length, p) < Rank(length, q)
  <2>1. ASSUME NEW r \in Before(length, p)
        PROVE  r \in Before(length, q)
    BY <1>3, <2>1 DEF Before, Sooner
  <2>2. p \in Before(length, q) /\ p \notin Before(length, p)
    BY <1>2, <1>3 DEF Before
  <2>3. Before(length, p) \in SUBSET Before(length, q) /\ Before(length, p) # Before(length, q)
    BY <2>1, <2>2
  <2>4. Rank(length, p) <= Rank(length, q) /\ Rank(length, p) # Rank(length, q)
    BY <1>2, <2>3, FS_Subset DEF Rank
  <2> QED
    BY <1>2, <2>4
<1>4. rank \in [D -> 0 .. n - 1] /\ \A p \in D : rank[p] = Rank(length, p)
  BY <1>2
<1> HIDE DEF rank
<1>5. \A p, q \in D : rank[p] = rank[q] => p = q
  BY <1>0, <1>1, <1>2, <1>3, <1>4
<1>6. \A k \in 0 .. n - 1 : \E p \in D : rank[p] = k
  <2>1. rank \in Injection(D, 0 .. n - 1)
    BY <1>4, <1>5 DEF Injection, IsInjective
  <2>2. IsFiniteSet(0 .. n - 1) /\ Cardinality(0 .. n - 1) = n
    BY <1>0, FS_Interval, SMTT(30)
  <2>3. rank \in Surjection(D, 0 .. n - 1)
    BY <2>1, <2>2, FS_Injection
  <2> QED
    BY <2>3 DEF Surjection
<1>7. Numbered(D, n, rank)
  BY <1>4, <1>5, <1>6 DEF Numbered
<1> QED
  BY <1>1, <1>3, <1>7 DEF rank

LEMMA LengthsAre ==
  ASSUME NEW m
  PROVE  RunLengths(m) \in [FreePages(m) -> Nat]
<1> DEFINE Run(p) == {q \in FreePages(m) : \A r \in (p .. q) \cup (q .. p) : m[r] = 0}
<1>1. ASSUME NEW p \in FreePages(m)
      PROVE  Cardinality(Run(p)) \in Nat
  <2>1. Run(p) \in SUBSET FreePages(m)
    OBVIOUS
  <2> HIDE DEF Run
  <2> QED
    BY <2>1, FreeIs, FS_Subset, FS_CardinalityType
<1> QED
  BY <1>1 DEF RunLengths

\* EMS and VCPI get pages wherever they are, as long as there are enough.
LEMMA ScatteredGives ==
  ASSUME NEW m \in Links, NEW n \in Nat \ {0}, n <= MEM_FreeTotal(m)
  PROVE  \E D \in SUBSET FreePages(m) : Numbered(D, n, Scattered(RunLengths(m), n))
<1> DEFINE length == RunLengths(m)
           all == FreePages(m)
           D == {q \in all : Rank(length, q) < n}
           place == [p \in D |-> Rank(length, p)]
<1>1. length \in [all -> Nat] /\ DOMAIN length = all
  BY LengthsAre
<1>2. all \in SUBSET Nat /\ IsFiniteSet(all) /\ Cardinality(all) \in Nat /\ n <= Cardinality(all)
  BY FreeIs DEF MEM_FreeTotal
<1>3. Scattered(length, n) = place
  <2>1. \A p : Cardinality({q \in DOMAIN length : Sooner(length, q, p)}) = Rank(length, p)
    BY DEF Rank, Before
  <2>2. {q \in DOMAIN length : n <= Cardinality(DOMAIN length) /\ Rank(length, q) < n} = D
    BY <1>1, <1>2
  <2>3. Scattered(length, n)
          = [p \in {q \in DOMAIN length :
                      n <= Cardinality(DOMAIN length) /\ Rank(length, q) < n} |-> Rank(length, p)]
    BY Zenon DEF Scattered, Rank, Before
  <2> QED
    BY <2>2, <2>3, Zenon
<1> DEFINE rank == [p \in all |-> Rank(length, p)]
<1> HIDE DEF length, all
<1>4. Numbered(all, Cardinality(all), rank)
  BY <1>1, <1>2, Ranks, Zenon
<1>5. \A p \in all : rank[p] = Rank(length, p) /\ Rank(length, p) \in Nat
  BY <1>2, <1>4 DEF Numbered
<1>6. \A p \in D : p \in all /\ place[p] = rank[p] /\ rank[p] \in 0 .. n - 1
  BY <1>5
<1>7. \A k \in 0 .. n - 1 : \E p \in D : place[p] = k
  <2> SUFFICES ASSUME NEW k \in 0 .. n - 1 PROVE \E p \in D : place[p] = k
    OBVIOUS
  <2>1. k \in 0 .. Cardinality(all) - 1
    BY <1>2
  <2>2. PICK p \in all : rank[p] = k
    BY <1>4, <2>1 DEF Numbered
  <2>3. Rank(length, p) < n
    BY <1>5, <2>2
  <2> QED
    BY <1>6, <2>2, <2>3
<1>8. place = [p \in D |-> place[p]]
  OBVIOUS
<1> HIDE DEF place, rank
<1>9. Numbered(D, n, place)
  BY <1>4, <1>6, <1>7, <1>8 DEF Numbered
<1>10. D \in SUBSET all
  OBVIOUS
<1> HIDE DEF D
<1> QED
  BY <1>3, <1>9, <1>10, Zenon DEF length, all

\* The run of free pages around p.
Run(m, p) == {q \in FreePages(m) : \A r \in (p .. q) \cup (q .. p) : m[r] = 0}

LEMMA RunIs ==
  ASSUME NEW m, NEW p \in FreePages(m)
  PROVE  /\ Run(m, p) \subseteq FreePages(m) /\ IsFiniteSet(Run(m, p))
         /\ RunLengths(m)[p] = Cardinality(Run(m, p)) /\ RunLengths(m)[p] \in Nat
<1>1. Run(m, p) \in SUBSET FreePages(m)
  BY DEF Run
<1>2. IsFiniteSet(Run(m, p)) /\ Cardinality(Run(m, p)) \in Nat
  BY <1>1, FreeIs, FS_Subset, FS_CardinalityType
<1>3. RunLengths(m)[p] = Cardinality(Run(m, p))
  BY DEF RunLengths, Run
<1> QED
  BY <1>1, <1>2, <1>3

\* A free page that comes next to another is of the same run.
LEMMA SameRun ==
  ASSUME NEW m, NEW p \in FreePages(m), p - 1 \in FreePages(m)
  PROVE  Run(m, p - 1) = Run(m, p)
<1>0. FreePages(m) \subseteq Nat /\ m[p] = 0 /\ m[p - 1] = 0
  BY FreeIs DEF FreePages
<1>1. ASSUME NEW q \in FreePages(m)
      PROVE  q \in Run(m, p - 1) <=> q \in Run(m, p)
  <2>1. CASE q >= p
    <3>1. \A r : r \in ((p - 1) .. q) \cup (q .. (p - 1)) <=> r \in p .. q \/ r = p - 1
      BY <1>0, <2>1
    <3>2. \A r : r \in (p .. q) \cup (q .. p) <=> r \in p .. q
      BY <1>0, <2>1
    <3> QED
      BY <1>0, <3>1, <3>2 DEF Run
  <2>2. CASE q < p
    <3>1. \A r : r \in ((p - 1) .. q) \cup (q .. (p - 1)) <=> r \in q .. p - 1
      BY <1>0, <2>2
    <3>2. \A r : r \in (p .. q) \cup (q .. p) <=> r \in q .. p - 1 \/ r = p
      BY <1>0, <2>2
    <3> QED
      BY <1>0, <3>1, <3>2 DEF Run
  <2> QED
    BY <1>0, <2>1, <2>2
<1>2. Run(m, p - 1) \subseteq FreePages(m) /\ Run(m, p) \subseteq FreePages(m)
  BY RunIs
<1> QED
  BY <1>1, <1>2

\* There is a soonest of the runs that are long enough.
LEMMA FirstRunIs ==
  ASSUME NEW D \in SUBSET Nat, IsFiniteSet(D), NEW length \in [D -> Nat], NEW n,
         {p \in D : n <= length[p]} # {}
  PROVE  /\ FirstRun(length, n) \in D /\ n <= length[FirstRun(length, n)]
         /\ \A q \in D : n <= length[q] /\ q # FirstRun(length, n)
              => Sooner(length, FirstRun(length, n), q)
<1> DEFINE fits == {p \in DOMAIN length : n <= length[p]}
           best(p) == \A q \in fits \ {p} : Sooner(length, p, q)
           ranks == {k \in Nat : \E p \in fits : Rank(length, p) = k}
           rank == [p \in D |-> Rank(length, p)]
<1>1. fits \subseteq D /\ fits # {} /\ DOMAIN length = D
  OBVIOUS
<1>2. \A p, q \in D : p # q => Sooner(length, p, q) \/ Sooner(length, q, p)
  BY Ranks
<1>3. \A p, q \in D : Sooner(length, p, q) => Rank(length, p) < Rank(length, q)
  BY Ranks
<1>4. \A p \in D : Rank(length, p) \in Nat
  <2>1. Numbered(D, Cardinality(D), rank) /\ Cardinality(D) \in Nat
    BY Ranks, FS_CardinalityType
  <2>2. rank \in [D -> Nat]
    BY <2>1 DEF Numbered
  <2> QED
    BY <2>2
<1>5. ranks \in SUBSET Nat /\ ranks # {}
  BY <1>1, <1>4
<1> HIDE DEF ranks
<1>6. PICK k \in ranks : \A j \in ranks : k <= j
  BY <1>5, LeastExists
<1>7. PICK p \in fits : Rank(length, p) = k
  BY <1>6 DEF ranks
<1>8. \A q \in fits : ~(Rank(length, q) < Rank(length, p))
  <2> SUFFICES ASSUME NEW q \in fits PROVE ~(Rank(length, q) < Rank(length, p))
    OBVIOUS
  <2>1. Rank(length, q) \in Nat /\ Rank(length, p) \in Nat
    BY <1>1, <1>4
  <2>2. Rank(length, q) \in ranks
    BY <2>1 DEF ranks
  <2> QED
    BY <1>6, <1>7, <2>1, <2>2
<1> HIDE DEF fits
<1>9. best(p)
  BY <1>1, <1>2, <1>3, <1>7, <1>8
<1>10. FirstRun(length, n) = CHOOSE x \in fits : best(x)
  BY <1>1, Zenon DEF FirstRun, fits
<1>11. FirstRun(length, n) \in fits /\ best(FirstRun(length, n))
  BY <1>7, <1>9, <1>10, Zenon
<1> QED
  BY <1>11 DEF fits

\* XMS gets a piece that is free, as long as there is one that is long enough.
LEMMA BestMatchIs ==
  ASSUME NEW m \in Links, NEW n \in Nat \ {0}
  PROVE  \/ BestMatch(m, n) = 0
         \/ /\ BestMatch(m, n) \in Pool
            /\ BestMatch(m, n) .. BestMatch(m, n) + n - 1 \subseteq FreePages(m)
<1> DEFINE length == RunLengths(m)
           all == FreePages(m)
           p == BestMatch(m, n)
<1>0. all \in SUBSET Nat /\ IsFiniteSet(all) /\ all \subseteq Pool /\ Pool \subseteq Nat
  BY FreeIs, PoolIs
<1>1. length \in [all -> Nat] /\ DOMAIN length = all
  BY LengthsAre
<1>2. p = FirstRun(length, n)
  BY DEF BestMatch
<1> HIDE DEF length, all, p
<1>3. CASE {q \in all : n <= length[q]} = {}
  <2>1. p = 0
    BY <1>1, <1>2, <1>3 DEF FirstRun
  <2> QED
    BY <2>1 DEF p
<1>4. CASE {q \in all : n <= length[q]} # {}
  <2>1. /\ p \in all /\ n <= length[p]
        /\ \A q \in all : n <= length[q] /\ q # p => Sooner(length, p, q)
    <3>1. /\ FirstRun(length, n) \in all /\ n <= length[FirstRun(length, n)]
          /\ \A q \in all : n <= length[q] /\ q # FirstRun(length, n)
               => Sooner(length, FirstRun(length, n), q)
      BY <1>0, <1>1, <1>4, FirstRunIs
    <3> QED
      BY <1>2, <3>1
  <2>2. p - 1 \notin all
    <3> SUFFICES ASSUME p - 1 \in all PROVE FALSE
      OBVIOUS
    <3>1. Run(m, p - 1) = Run(m, p)
      BY <2>1, SameRun DEF all
    <3>2. length[p - 1] = length[p]
      BY <2>1, <3>1, RunIs DEF all, length
    <3>3. p - 1 # p /\ p \in Nat /\ length[p] \in Nat
      BY <1>0, <1>1, <2>1
    <3>4. Sooner(length, p, p - 1)
      BY <2>1, <3>2, <3>3
    <3> QED
      BY <3>2, <3>3, <3>4 DEF Sooner
  <2>3. p \in Nat /\ p \in Pool
    BY <1>0, <2>1
  <2>4. \A q \in Run(m, p) : q \in all /\ \A r \in (p .. q) \cup (q .. p) : m[r] = 0
    BY DEF Run, all
  <2>5. \A r : r \in Pool /\ m[r] = 0 => r \in all
    BY DEF all, FreePages
  <2>6. \A q, r, s : q \in Pool /\ s \in Pool /\ r \in q .. s => r \in Pool
    BY PoolAssumption DEF Pool
  <2>7. ASSUME NEW q \in Run(m, p)
        PROVE  q >= p
    <3>1. q \in all
      BY <2>4
    <3>3. q \in Nat /\ q \in Pool
      BY <1>0, <3>1
    <3> SUFFICES ASSUME q < p PROVE FALSE
      BY <2>3, <3>3
    <3>2. p - 1 \in q .. p
      BY <2>3, <3>3
    <3> QED
      BY <2>2, <2>3, <2>4, <2>5, <2>6, <3>3, <3>2
  <2>8. ASSUME NEW r \in p .. p + n - 1
        PROVE  r \in all
    <3> SUFFICES ASSUME r \notin all PROVE FALSE
      OBVIOUS
    <3>0. r \in Int /\ p <= r /\ r <= p + n - 1
      BY <2>3
    <3>1. ASSUME NEW q \in Run(m, p)
          PROVE  q \in p .. r - 1
      <4>1. q \in Nat /\ q \in Pool /\ q >= p
        BY <1>0, <2>4, <2>7
      <4>2. ~(q >= r)
        <5> SUFFICES ASSUME q >= r PROVE FALSE
          OBVIOUS
        <5>1. r \in p .. q
          BY <2>3, <3>0, <4>1
        <5>2. m[r] = 0 /\ r \in Pool
          BY <2>3, <2>4, <2>6, <4>1, <5>1
        <5> QED
          BY <2>5, <5>2
      <4> QED
        BY <2>3, <3>0, <4>1, <4>2
    <3>2. Run(m, p) \in SUBSET (p .. r - 1)
      BY <3>1
    <3>3. IsFiniteSet(p .. r - 1) /\ Cardinality(p .. r - 1) = r - p
      <4>1. p \in Int /\ r - 1 \in Int /\ ((r - 1) - p) + 1 = r - p
            /\ (p > r - 1 => r - p = 0)
        BY <2>3, <3>0
      <4>2. IsFiniteSet(p .. r - 1)
            /\ Cardinality(p .. r - 1) = IF p > r - 1 THEN 0 ELSE ((r - 1) - p) + 1
        BY <4>1, FS_Interval
      <4> QED
        BY <4>1, <4>2
    <3>4. Cardinality(Run(m, p)) <= r - p
      BY <3>2, <3>3, FS_Subset
    <3>5. length[p] = Cardinality(Run(m, p)) /\ length[p] \in Nat
      BY <2>1, RunIs DEF all, length
    <3> QED
      BY <2>1, <2>3, <3>0, <3>4, <3>5
  <2> QED
    BY <2>3, <2>8 DEF p, all
<1> QED
  BY <1>3, <1>4

Straight(n, f) == \A i \in 0 .. n - 1 : f[i] = f[0] + i

\* What an allocation of n pages gives: nothing and no change, or a block.
Allotted(m, n, sequence, new) ==
  \/ /\ new.mem = 0 /\ new.m = m
     /\ n = 0 \/ sequence \/ n > MEM_FreeTotal(m)
  \/ /\ new.mem \in Pool /\ n > 0
     /\ \E f : Given(m, n, new.m, new.mem, f) /\ (sequence => Straight(n, f))

LEMMA NothingTaken ==
  ASSUME NEW m, NEW n, NEW place, DOMAIN place = {}, NEW sequence,
         n = 0 \/ sequence \/ n > MEM_FreeTotal(m)
  PROVE  Allotted(m, n, sequence, Taken(m, place))
BY DEF Taken, Allotted

LEMMA SomeTaken ==
  ASSUME NEW m \in Links, NEW n \in Nat \ {0}, NEW place, NEW sequence,
         NEW D \in SUBSET FreePages(m), Numbered(D, n, place),
         sequence => \E p \in Nat : \A q \in D : q = p + place[q]
  PROVE  Allotted(m, n, sequence, Taken(m, place))
<1> DEFINE f == [k \in 0 .. n - 1 |-> AtPlace(place, k)]
           new == Taken(m, place)
<1>1. /\ Given(m, n, new.m, new.mem, f)
      /\ \A k \in 0 .. n - 1 : f[k] \in D /\ place[f[k]] = k
      /\ new.mem \in Pool
  BY LinkedGives
<1> HIDE DEF f, new
<1>2. ASSUME sequence
      PROVE  Straight(n, f)
  <2>1. PICK p \in Nat : \A q \in D : q = p + place[q]
    BY <1>2
  <2>2. \A k \in 0 .. n - 1 : f[k] = p + k
    BY <1>1, <2>1
  <2>3. 0 \in 0 .. n - 1 /\ p + 0 = p
    OBVIOUS
  <2>4. f[0] = p
    BY <2>2, <2>3
  <2> QED
    BY <2>2, <2>4 DEF Straight
<1>3. n > 0
  OBVIOUS
<1>4. Allotted(m, n, sequence, new)
  BY <1>1, <1>2, <1>3 DEF Allotted
<1> QED
  BY <1>4 DEF new

\* Any allocation.
LEMMA Allocated ==
  ASSUME NEW m \in Links, NEW n \in Nat, NEW sequence \in BOOLEAN
  PROVE  Allotted(m, n, sequence, MEM_AllocatePages(m, n, sequence))
<1>1. CASE n = 0
  <2>1. DOMAIN InOnePiece(0, 0) = {}
    BY DEF InOnePiece
  <2> QED
    BY <1>1, <2>1, NothingTaken DEF MEM_AllocatePages
<1>2. CASE n # 0 /\ sequence
  <2> DEFINE p == BestMatch(m, n)
             place == InOnePiece(p, n)
             D == p .. p + n - 1
  <2>1. MEM_AllocatePages(m, n, sequence) = Taken(m, place)
    BY <1>2 DEF MEM_AllocatePages
  <2>2. p = 0 \/ (p \in Pool /\ D \subseteq FreePages(m))
    BY <1>2, BestMatchIs
  <2>3. CASE p = 0
    <3>1. DOMAIN place = {}
      BY <2>3 DEF InOnePiece
    <3> QED
      BY <1>2, <2>1, <3>1, NothingTaken
  <2>4. CASE p # 0
    <3>1. p \in Nat /\ D \in SUBSET FreePages(m)
      BY <2>2, <2>4, PoolIs
    <3>2. place = [q \in D |-> q - p]
      BY <2>4 DEF InOnePiece
    <3> HIDE DEF p
    <3>3. Numbered(D, n, place)
      <4>1. place \in [D -> 0 .. n - 1]
        BY <3>1, <3>2
      <4>2. \A q \in D : place[q] = q - p /\ q \in Nat /\ q = p + place[q]
        BY <3>1, <3>2
      <4>3. \A k \in 0 .. n - 1 : p + k \in D /\ (p + k) - p = k
        BY <3>1
      <4> HIDE DEF D, place
      <4>4. \A q, r \in D : place[q] = place[r] => q = r
        BY <3>1, <4>2
      <4>5. \A k \in 0 .. n - 1 : \E q \in D : place[q] = k
        BY <4>2, <4>3
      <4> QED
        BY <4>1, <4>4, <4>5 DEF Numbered
    <3>4. \A q \in D : q = p + place[q]
      BY <3>1, <3>2
    <3> HIDE DEF D, place
    <3> QED
      BY <1>2, <2>1, <3>1, <3>3, <3>4, SomeTaken
  <2> QED
    BY <2>3, <2>4
<1>3. CASE n # 0 /\ ~sequence
  <2> DEFINE place == Scattered(RunLengths(m), n)
  <2>1. MEM_AllocatePages(m, n, sequence) = Taken(m, place)
    BY <1>3 DEF MEM_AllocatePages
  <2>2. CASE n <= MEM_FreeTotal(m)
    <3>1. PICK D \in SUBSET FreePages(m) : Numbered(D, n, place)
      BY <1>3, <2>2, ScatteredGives
    <3> HIDE DEF place
    <3> QED
      BY <1>3, <2>1, <3>1, SomeTaken
  <2>3. CASE ~(n <= MEM_FreeTotal(m))
    <3>1. n > MEM_FreeTotal(m)
      BY <2>3, FreeIs
    <3>2. DOMAIN RunLengths(m) = FreePages(m)
      BY LengthsAre
    <3>3. DOMAIN place = {}
      BY <2>3, <3>2 DEF Scattered, MEM_FreeTotal
    <3> HIDE DEF place
    <3> QED
      BY <2>1, <3>1, <3>3, NothingTaken
  <2> QED
    BY <2>2, <2>3
<1> QED
  BY <1>1, <1>2, <1>3

-----------------------------------------------------------------------------
(* Release and reallocation of a block that has a path.                    *)

NoPath == [i \in 0 .. -1 |-> 0]

LEMMA NoPathIs ==
  ASSUME NEW m, NEW h, h \notin Pool
  PROVE  IsPath(m, h, 0, NoPath) /\ On(0, NoPath) = {}
<1>1. 0 .. 0 - 1 = {} /\ 0 .. 0 - 2 = {} /\ 0 .. -1 = {}
  OBVIOUS
<1>2. NoPath \in [0 .. 0 - 1 -> Pool]
  BY <1>1 DEF NoPath
<1> QED
  BY <1>1, <1>2 DEF IsPath, On

LEMMA Released ==
  ASSUME NEW m \in Links, NEW h, NEW n \in Nat, NEW f, IsPath(m, h, n, f)
  PROVE  /\ MEM_ReleasePages(m, h) \in Links
         /\ \A p \in Pool : MEM_ReleasePages(m, h)[p] = IF p \in On(n, f) THEN 0 ELSE m[p]
         /\ Exchanged(m, n, f, MEM_ReleasePages(m, h), 0, NoPath)
<1> DEFINE m2 == MEM_ReleasePages(m, h)
<1>1. Block(m, h) = On(n, f) /\ On(n, f) \subseteq Pool
  BY PathBlock, PathSize
<1>2. m2 = [p \in Pool |-> IF p \in On(n, f) THEN 0 ELSE m[p]]
  BY <1>1 DEF MEM_ReleasePages, Freed
<1>3. m2 \in Links
  BY <1>2 DEF Links
<1>4. On(0, NoPath) = {}
  BY NoPathIs, PoolIs
<1>5. \A p \in Pool : m2[p] = IF p \in On(n, f) THEN 0 ELSE m[p]
  BY <1>2
<1> HIDE DEF m2
<1>6. Exchanged(m, n, f, m2, 0, NoPath)
  BY <1>1, <1>4, <1>5 DEF Exchanged
<1> QED
  BY <1>3, <1>5, <1>6 DEF m2

\* The pages that both paths have are the same ones, unless the contents are
\* copied to a longer block that was free.
Keeps(m, n, f, k, f2, copied) ==
  /\ copied => n < k /\ \A p \in On(k, f2) : m[p] = 0
  /\ ~copied => \A i \in 0 .. n - 1 : i < k => f2[i] = f[i]

\* What a reallocation to k pages makes of the path f of n pages.
Reallotted(m, n, f, k, sequence, new) ==
  /\ new.m \in Links /\ new.mem \in {-1, 0} \cup Pool /\ new.ok \in BOOLEAN
  /\ new.copied \in BOOLEAN /\ (new.copied => sequence /\ new.ok)
  /\ \E f2 : /\ IsPath(new.m, new.mem, IF new.ok THEN k ELSE n, f2)
             /\ Exchanged(m, n, f, new.m, IF new.ok THEN k ELSE n, f2)
             /\ sequence => Straight(IF new.ok THEN k ELSE n, f2)
             /\ Keeps(m, n, f, IF new.ok THEN k ELSE n, f2, new.copied)

LEMMA Unchanged ==
  ASSUME NEW m \in Links, NEW h \in {-1, 0} \cup Pool, NEW n \in Nat, NEW f,
         IsPath(m, h, n, f), NEW sequence \in BOOLEAN, sequence => Straight(n, f),
         NEW ok \in BOOLEAN
  PROVE  \A k : (ok => k = n) => Reallotted(m, n, f, k, sequence, Resized(ok, h, m, FALSE))
<1> SUFFICES ASSUME NEW k, ok => k = n
             PROVE  Reallotted(m, n, f, k, sequence, Resized(ok, h, m, FALSE))
  OBVIOUS
<1>1. Exchanged(m, n, f, m, n, f)
  BY DEF Exchanged
<1>2. (IF ok THEN k ELSE n) = n
  OBVIOUS
<1>3. Keeps(m, n, f, n, f, FALSE)
  BY DEF Keeps
<1> QED
  BY <1>1, <1>2, <1>3 DEF Reallotted, Resized

LEMMA Renewed ==
  ASSUME NEW m, NEW n, NEW f, NEW k, NEW sequence \in BOOLEAN,
         NEW m2 \in Links, NEW h2 \in {-1, 0} \cup Pool, NEW f2,
         NEW copied \in BOOLEAN, copied => sequence,
         IsPath(m2, h2, k, f2), Exchanged(m, n, f, m2, k, f2), sequence => Straight(k, f2),
         Keeps(m, n, f, k, f2, copied)
  PROVE  Reallotted(m, n, f, k, sequence, Resized(TRUE, h2, m2, copied))
BY DEF Reallotted, Resized

\* The first pages of a block that has had none.
LEMMA FirstPages ==
  ASSUME NEW m \in Links, NEW h, NEW f, IsPath(m, h, 0, f),
         NEW k \in Nat, NEW sequence \in BOOLEAN, NEW new, Allotted(m, k, sequence, new)
  PROVE  Reallotted(m, 0, f, k, sequence, First(new))
<1>2. On(0, f) = {}
  BY DEF On
<1>3. CASE new.mem = 0 /\ new.m = m
  <2>1. First(new) = Resized(FALSE, 0, m, FALSE)
    <3>1. (new.mem > 0) = FALSE
      BY <1>3
    <3> QED
      BY <1>3, <3>1, Zenon DEF First
  <2>2. IsPath(m, 0, 0, NoPath)
    BY NoPathIs, PoolIs
  <2>3. On(0, NoPath) = {} /\ Straight(0, NoPath)
    BY DEF On, Straight
  <2>4. Exchanged(m, 0, f, m, 0, NoPath)
    BY <1>2, <2>3 DEF Exchanged
  <2> QED
    <3>1. Reallotted(m, 0, f, k, sequence, Resized(FALSE, 0, m, FALSE))
      BY <2>2, <2>3, <2>4 DEF Reallotted, Resized, Keeps
    <3> QED
      BY <2>1, <3>1
<1>4. CASE new.mem \in Pool /\ \E g : Given(m, k, new.m, new.mem, g)
                                     /\ (sequence => Straight(k, g))
  <2>1. PICK g : Given(m, k, new.m, new.mem, g) /\ (sequence => Straight(k, g))
    BY <1>4
  <2>2. First(new) = Resized(TRUE, new.mem, new.m, FALSE)
    <3>0. new.mem \in Nat /\ new.mem # 0
      <4>1. new.mem \in Pool
        BY <1>4
      <4> QED
        BY <4>1, PoolIs
    <3>1. (new.mem > 0) = TRUE
      BY <3>0
    <3> QED
      BY <3>1, Zenon DEF First
  <2>3. Exchanged(m, 0, f, new.m, k, g)
    BY <1>2, <2>1 DEF Exchanged, Given
  <2> QED
    <3>1. new.m \in Links /\ IsPath(new.m, new.mem, k, g)
      BY <2>1 DEF Given
    <3>2. Reallotted(m, 0, f, k, sequence, Resized(TRUE, new.mem, new.m, FALSE))
      <4>1. Keeps(m, 0, f, k, g, FALSE)
        BY DEF Keeps
      <4> QED
        BY <1>4, <2>1, <2>3, <3>1, <4>1, Renewed
    <3> QED
      BY <2>2, <3>2
<1> QED
  BY <1>3, <1>4 DEF Allotted

\* A block is cut.
LEMMA ShrunkIs ==
  ASSUME NEW m \in Links, NEW h \in Pool, NEW n \in Nat, NEW f, IsPath(m, h, n, f),
         NEW k \in 1 .. n - 1, NEW sequence \in BOOLEAN, sequence => Straight(n, f)
  PROVE  Reallotted(m, n, f, k, sequence, Resized(TRUE, h, Shrunk(m, h, k), FALSE))
<1> DEFINE rest == Rest(n, f, k)
           m2 == Shrunk(m, h, k)
           f2 == Cut(f, k)
<1>0. /\ k \in 0 .. n - 1 /\ k - 1 \in 0 .. n - 1 /\ k \in 1 .. n /\ n - k \in Nat
      /\ 0 \in 0 .. k - 1 /\ 0 .. k - 1 \subseteq 0 .. n - 1 /\ k - 1 \in 0 .. k - 1
      /\ 0 .. k - 2 \subseteq 0 .. k - 1 /\ k - 1 \notin 0 .. k - 2 /\ k \in Nat
  OBVIOUS
<1>1. MEM_NextHandleAt(m, h, k) = f[k] /\ MEM_NextHandleAt(m, h, k - 1) = f[k - 1]
  <2>1. \A i \in 0 .. n - 1 : MEM_NextHandleAt(m, h, i) = f[i]
    BY PathBlock
  <2> QED
    BY <1>0, <2>1
<1>2. Block(m, f[k]) = rest
  <2>0. k \in 0 .. n - 1
    BY <1>0
  <2>1. PICK g : IsPath(m, f[k], n - k, g) /\ On(n - k, g) = rest
    BY <2>0, RestOfPath
  <2> HIDE DEF rest
  <2> QED
    BY <1>0, <2>1, PathBlock
<1>3. f \in [0 .. n - 1 -> Pool] /\ \A i, j \in 0 .. n - 1 : f[i] = f[j] => i = j
  BY DEF IsPath
<1>4. m2 = [[p \in Pool |-> IF p \in rest THEN 0 ELSE m[p]] EXCEPT ![f[k - 1]] = Last]
  BY <1>1, <1>2, Zenon DEF Shrunk, Freed
<1>5. \A i \in 0 .. k - 1 : f[i] \notin rest
  BY <1>0, <1>3 DEF Rest
<1>6. \A p \in Pool : m2[p] = IF p = f[k - 1] THEN Last ELSE IF p \in rest THEN 0 ELSE m[p]
  BY <1>4
<1>7. m2 \in Links
  BY <1>4 DEF Links
<1>8. rest \subseteq On(n, f)
  BY <1>0 DEF On, Rest
<1>12. ASSUME NEW p \in On(n, f)
       PROVE  p \in rest \/ \E i \in 0 .. k - 1 : p = f[i]
  <2>1. PICK i \in 0 .. n - 1 : p = f[i]
    BY DEF On
  <2>2. i \in 0 .. k - 1 \/ i \in k .. n - 1
    BY <1>0
  <2> QED
    BY <2>1, <2>2 DEF Rest
<1>13. m2[f[k - 1]] = Last
  BY <1>0, <1>3, <1>6
<1>14. \A i \in 0 .. k - 2 : m2[f[i]] = m[f[i]]
  <2> SUFFICES ASSUME NEW i \in 0 .. k - 2 PROVE m2[f[i]] = m[f[i]]
    OBVIOUS
  <2>1. f[i] \in Pool /\ f[i] \notin rest /\ f[i] # f[k - 1]
    BY <1>0, <1>3, <1>5
  <2> QED
    BY <1>6, <2>1
<1> HIDE DEF rest, m2, f2
<1>9. IsPath(m2, h, k, f2)
      /\ \A p : p \in On(k, f2) <=> \E i \in 0 .. k - 1 : p = f[i]
  <2>1. k \in 1 .. n
    BY <1>0
  <2>2. IsPath(m2, h, k, Cut(f, k))
    BY <2>1, <1>13, <1>14, CutPath
  <2>3. \A p : p \in On(k, Cut(f, k)) <=> \E i \in 0 .. k - 1 : p = f[i]
    BY DEF On, Cut
  <2> QED
    BY <2>2, <2>3 DEF f2
<1>10. Exchanged(m, n, f, m2, k, f2)
  <2>1. \A p \in On(k, f2) : p \in On(n, f)
    BY <1>0, <1>9 DEF On
  <2>2. \A p \in Pool : p \notin On(n, f) => m2[p] = m[p]
    BY <1>0, <1>6, <1>8 DEF On
  <2>3. ASSUME NEW p \in On(n, f), p \notin On(k, f2)
        PROVE  m2[p] = 0
    <3>1. p \in rest /\ p # f[k - 1] /\ p \in Pool
      BY <1>0, <1>9, <1>12, <2>3, OnIsLinked
    <3> QED
      BY <1>6, <3>1
  <2> QED
    BY <2>1, <2>2, <2>3 DEF Exchanged
<1>11. sequence => Straight(k, f2)
  <2>1. \A i \in 0 .. k - 1 : f2[i] = f[i]
    BY DEF f2, Cut
  <2> QED
    BY <1>0, <2>1 DEF Straight
<1>15. Keeps(m, n, f, k, f2, FALSE)
  BY <1>0 DEF Keeps, f2, Cut
<1> QED
  BY <1>7, <1>9, <1>10, <1>11, <1>15, Renewed DEF m2

\* The pages that Behind counts.
BehindPages(m, p) == {q \in FreePages(m) : p < q /\ \A r \in p + 1 .. q : m[r] = 0}

LEMMA BehindIs ==
  ASSUME NEW m, NEW p \in Pool, NEW need \in Nat, need <= Behind(m, p)
  PROVE  \A r \in p + 1 .. p + need : r \in FreePages(m)
<1> SUFFICES ASSUME NEW r \in p + 1 .. p + need, r \notin FreePages(m)
             PROVE  FALSE
  OBVIOUS
<1>0. p \in Nat /\ r \in Int /\ p < r /\ r <= p + need /\ Pool \subseteq Nat
      /\ FreePages(m) \subseteq Pool
  BY PoolIs, FreeIs
<1>1. \A q, s : q \in Pool /\ s \in p + 1 .. q => s \in Pool
  BY PoolAssumption DEF Pool
<1>2. ASSUME NEW q \in BehindPages(m, p)
      PROVE  q \in p + 1 .. r - 1
  <2>1. q \in FreePages(m) /\ p < q /\ \A s \in p + 1 .. q : m[s] = 0
    BY DEF BehindPages
  <2>2. q \in Pool /\ q \in Nat
    BY <1>0, <2>1
  <2>3. ~(r <= q)
    <3> SUFFICES ASSUME r <= q PROVE FALSE
      OBVIOUS
    <3>1. r \in p + 1 .. q
      BY <1>0, <2>2
    <3>2. m[r] = 0 /\ r \in Pool
      BY <1>1, <2>1, <2>2, <3>1
    <3> QED
      BY <3>2 DEF FreePages
  <2> QED
    BY <1>0, <2>1, <2>2, <2>3
<1>3. BehindPages(m, p) \in SUBSET (p + 1 .. r - 1)
  BY <1>2
<1>4. IsFiniteSet(p + 1 .. r - 1) /\ Cardinality(p + 1 .. r - 1) = r - p - 1
  <2>1. p + 1 \in Int /\ r - 1 \in Int /\ ((r - 1) - (p + 1)) + 1 = r - p - 1
        /\ (p + 1 > r - 1 => r - p - 1 = 0)
    BY <1>0
  <2>2. IsFiniteSet(p + 1 .. r - 1)
        /\ Cardinality(p + 1 .. r - 1)
             = IF p + 1 > r - 1 THEN 0 ELSE ((r - 1) - (p + 1)) + 1
    BY <2>1, FS_Interval
  <2> QED
    BY <2>1, <2>2
<1>5. Cardinality(BehindPages(m, p)) <= r - p - 1
  BY <1>3, <1>4, FS_Subset
<1>6. Cardinality(BehindPages(m, p)) \in Nat
  BY <1>3, <1>4, FS_Subset, FS_CardinalityType
<1>7. need <= Cardinality(BehindPages(m, p))
  BY DEF Behind, BehindPages
<1> QED
  BY <1>0, <1>5, <1>6, <1>7

\* A block in one piece is extended into the free pages behind it.
LEMMA ExtendedIs ==
  ASSUME NEW m \in Links, NEW h \in Pool, NEW n \in Nat, NEW f, IsPath(m, h, n, f),
         Straight(n, f), NEW k \in Nat, n < k, n > 0,
         k - n <= Behind(m, f[n - 1])
  PROVE  Reallotted(m, n, f, k, TRUE,
                    Resized(TRUE, h, Extended(m, f[n - 1], k - n), FALSE))
<1> DEFINE last == f[n - 1]
           m2 == Extended(m, last, k - n)
           f2 == [i \in 0 .. k - 1 |-> h + i]
<1>0. /\ h \in Nat /\ 0 \in 0 .. n - 1 /\ n - 1 \in 0 .. n - 1 /\ k - n \in Nat
      /\ h + (k - 1) = (h + (n - 1)) + (k - n) /\ f[0] = h /\ k > 0
  BY PoolIs DEF IsPath
<1>1. \A i \in 0 .. n - 1 : f[i] = h + i /\ h + i \in Pool
  <2>1. \A i \in 0 .. n - 1 : f[i] = h + i
    BY <1>0 DEF Straight
  <2>2. \A i \in 0 .. n - 1 : f[i] \in Pool
    BY DEF IsPath
  <2> HIDE DEF last, m2, f2
  <2> QED
    BY <2>1, <2>2
<1>2. last = h + (n - 1) /\ last \in Pool /\ last \in Nat
  BY <1>0, <1>1, PoolIs
<1>3. \A r \in last + 1 .. last + (k - n) : r \in FreePages(m)
  BY <1>0, <1>2, BehindIs
<1>4. ASSUME NEW i \in n .. k - 1
      PROVE  h + i \in FreePages(m) /\ h + i \in Pool
  <2>1. h + i \in last + 1 .. last + (k - n)
    BY <1>0, <1>2
  <2> QED
    BY <1>3, <2>1, FreeIs
<1>5. \A i \in 0 .. k - 1 : h + i \in Pool /\ f2[i] = h + i /\ f2[i] \in Nat
  <2>1. \A i \in 0 .. k - 1 : i \in 0 .. n - 1 \/ i \in n .. k - 1
    OBVIOUS
  <2> QED
    BY <1>1, <1>4, <2>1, PoolIs
<1>6. \A p \in Pool : m2[p] = IF p \in last .. last + (k - n) - 1 THEN p + 1
                              ELSE IF p = last + (k - n) THEN Last ELSE m[p]
  BY DEF Extended
<1>7. m2 = [p \in Pool |-> m2[p]]
  BY DEF Extended
<1>8. f2 \in [0 .. k - 1 -> Pool]
  BY <1>5
<1>9. 0 \in 0 .. k - 1 /\ k - 1 \in 0 .. k - 1
  BY <1>0
<1> HIDE DEF m2, f2, last
<1>10. ASSUME NEW i \in 0 .. k - 2
       PROVE  m2[h + i] = h + (i + 1)
  <2>0. i \in 0 .. k - 1 /\ h + i \in Pool /\ i \in Nat
    BY <1>5
  <2>1. CASE i < n - 1
    <3>1. i \in 0 .. n - 2 /\ i \in 0 .. n - 1 /\ i + 1 \in 0 .. n - 1
      BY <2>0, <2>1
    <3>2. m[h + i] = h + (i + 1)
      BY <1>1, <3>1 DEF IsPath
    <3>3. h + i \notin last .. last + (k - n) - 1 /\ h + i # last + (k - n)
      BY <1>0, <1>2, <2>0, <2>1
    <3> QED
      BY <1>6, <2>0, <3>2, <3>3
  <2>2. CASE i >= n - 1
    <3>1. h + i \in last .. last + (k - n) - 1
      BY <1>0, <1>2, <2>0, <2>2
    <3>2. m2[h + i] = (h + i) + 1
      BY <1>6, <2>0, <3>1
    <3> QED
      BY <1>0, <2>0, <3>2
  <2> QED
    BY <2>0, <2>1, <2>2
<1>11. m2[h + (k - 1)] = Last
  <2>1. h + (k - 1) = last + (k - n) /\ h + (k - 1) \in Pool
        /\ h + (k - 1) \notin last .. last + (k - n) - 1
    BY <1>0, <1>2, <1>5, <1>9
  <2> QED
    BY <1>6, <2>1
<1>12. m2 \in Links
  <2>1. ASSUME NEW p \in Pool
        PROVE  m2[p] \in {0, Last} \cup Pool
    <3>1. CASE p \in last .. last + (k - n) - 1
      <4>1. p + 1 \in last + 1 .. last + (k - n)
        BY <1>0, <1>2, <3>1
      <4>2. p + 1 \in Pool
        BY <1>3, <4>1, FreeIs
      <4> QED
        BY <1>6, <3>1, <4>2
    <3>2. CASE p \notin last .. last + (k - n) - 1
      BY <1>6, <3>2 DEF Links
    <3> QED
      BY <3>1, <3>2
  <2> QED
    BY <1>7, <2>1 DEF Links
<1>13. IsPath(m2, h, k, f2)
  <2>1. \A i, j \in 0 .. k - 1 : f2[i] = f2[j] => i = j
    BY <1>0, <1>5
  <2>2. f2[0] = h /\ m2[f2[k - 1]] = Last
    BY <1>0, <1>5, <1>9, <1>11
  <2>3. ASSUME NEW i \in 0 .. k - 2
        PROVE  m2[f2[i]] = f2[i + 1]
    <3>1. i \in 0 .. k - 1 /\ i + 1 \in 0 .. k - 1
      OBVIOUS
    <3> QED
      BY <1>5, <1>10, <3>1
  <2> QED
    BY <1>0, <1>8, <2>1, <2>2, <2>3 DEF IsPath
<1>14. Exchanged(m, n, f, m2, k, f2)
  <2>1. ASSUME NEW p \in On(k, f2)
        PROVE  p \in On(n, f) \/ m[p] = 0
    <3>1. PICK i \in 0 .. k - 1 : p = h + i
      BY <1>5 DEF On
    <3>2. CASE i < n
      <4>1. i \in 0 .. n - 1
        BY <3>2
      <4> QED
        BY <1>1, <3>1, <4>1 DEF On
    <3>3. CASE i >= n
      <4>1. i \in n .. k - 1
        BY <3>3
      <4> QED
        BY <1>4, <3>1, <4>1 DEF FreePages
    <3> QED
      BY <3>2, <3>3
  <2>2. ASSUME NEW p \in Pool, p \notin On(k, f2)
        PROVE  m2[p] = m[p]
    <3>1. \A i \in 0 .. k - 1 : p # h + i
      BY <1>5, <2>2 DEF On
    <3>2. p \notin last .. last + (k - n)
      <4> SUFFICES ASSUME p \in last .. last + (k - n) PROVE FALSE
        OBVIOUS
      <4>1. p - h \in 0 .. k - 1 /\ p = h + (p - h)
        BY <1>0, <1>2
      <4> QED
        BY <3>1, <4>1
    <3>3. p \notin last .. last + (k - n) - 1 /\ p # last + (k - n)
      BY <1>0, <1>2, <3>2
    <3> QED
      BY <1>6, <3>3
  <2>3. ASSUME NEW p \in On(n, f)
        PROVE  p \in On(k, f2)
    <3>1. PICK i \in 0 .. n - 1 : p = h + i
      BY <1>1 DEF On
    <3>2. i \in 0 .. k - 1
      OBVIOUS
    <3> QED
      BY <1>5, <3>1, <3>2 DEF On
  <2> QED
    BY <2>1, <2>2, <2>3 DEF Exchanged
<1>15. Straight(k, f2)
  BY <1>0, <1>5, <1>9 DEF Straight
<1>17. Keeps(m, n, f, k, f2, FALSE)
  BY <1>1, <1>5 DEF Keeps
<1>16. Reallotted(m, n, f, k, TRUE, Resized(TRUE, h, m2, FALSE))
  BY <1>12, <1>13, <1>14, <1>15, <1>17, Renewed
<1> QED
  BY <1>16 DEF m2, last

\* What an allocation gives is not a page of a block.
LEMMA GivenIsApart ==
  ASSUME NEW m, NEW h, NEW n \in Nat, NEW f, IsPath(m, h, n, f),
         NEW k, NEW m2, NEW h2, NEW g, Given(m, k, m2, h2, g)
  PROVE  /\ On(n, f) \cap On(k, g) = {}
         /\ \A p \in On(n, f) : m2[p] = m[p]
         /\ IsPath(m2, h, n, f)
<1>1. \A p \in On(n, f) : p \in Pool /\ m[p] # 0
  BY OnIsLinked
<1>2. \A p \in On(n, f) : p \notin On(k, g)
  BY <1>1 DEF Given
<1>3. \A p \in On(n, f) : m2[p] = m[p]
  BY <1>1, <1>2 DEF Given
<1> QED
  BY <1>2, <1>3, SamePath

\* A block that cannot be extended is moved, or stays as it is.
LEMMA MovedIs ==
  ASSUME NEW m \in Links, NEW h \in Pool, NEW n \in Nat, NEW f, IsPath(m, h, n, f),
         Straight(n, f), NEW k \in Nat, n < k, NEW new, Allotted(m, k, TRUE, new)
  PROVE  Reallotted(m, n, f, k, TRUE, Moved(m, h, new))
<1>1. CASE new.mem = 0
  <2>1. Moved(m, h, new) = Resized(FALSE, h, m, FALSE)
    BY <1>1 DEF Moved
  <2>2. Reallotted(m, n, f, k, TRUE, Resized(FALSE, h, m, FALSE))
    BY Unchanged
  <2> QED
    BY <2>1, <2>2
<1>2. CASE new.mem # 0
  <2>1. new.mem \in Pool /\ \E g : Given(m, k, new.m, new.mem, g) /\ Straight(k, g)
    BY <1>2 DEF Allotted
  <2>2. PICK g : Given(m, k, new.m, new.mem, g) /\ Straight(k, g)
    BY <2>1
  <2>3. /\ On(n, f) \cap On(k, g) = {} /\ IsPath(new.m, h, n, f)
        /\ \A p \in On(n, f) : new.m[p] = m[p]
    BY <2>2, GivenIsApart
  <2>4. new.m \in Links /\ IsPath(new.m, new.mem, k, g)
    BY <2>2 DEF Given
  <2> DEFINE m2 == MEM_ReleasePages(new.m, h)
  <2>5. m2 \in Links /\ \A p \in Pool : m2[p] = IF p \in On(n, f) THEN 0 ELSE new.m[p]
    BY <2>3, <2>4, Released
  <2>6. Moved(m, h, new) = Resized(TRUE, new.mem, m2, TRUE)
    BY <1>2 DEF Moved
  <2> HIDE DEF m2
  <2>7. On(k, g) \subseteq Pool /\ On(n, f) \subseteq Pool
    BY <2>3, <2>4, PathSize
  <2>8. IsPath(m2, new.mem, k, g)
    <3>1. \A p \in On(k, g) : m2[p] = new.m[p]
      BY <2>3, <2>5, <2>7
    <3> QED
      BY <2>4, <3>1, SamePath
  <2>9. Exchanged(m, n, f, m2, k, g)
    BY <2>2, <2>5, <2>7 DEF Exchanged, Given
  <2>10. Reallotted(m, n, f, k, TRUE, Resized(TRUE, new.mem, m2, TRUE))
    <3>1. Keeps(m, n, f, k, g, TRUE)
      BY <2>2 DEF Keeps, Given
    <3> QED
      BY <2>1, <2>2, <2>5, <2>8, <2>9, <3>1, Renewed
  <2> QED
    BY <2>6, <2>10
<1> QED
  BY <1>1, <1>2

\* More pages, wherever they are, are linked to the last page of a block.
LEMMA GrownIs ==
  ASSUME NEW m \in Links, NEW h \in Pool, NEW n \in Nat \ {0}, NEW f, IsPath(m, h, n, f),
         NEW need \in Nat \ {0}, NEW rem, Allotted(m, need, FALSE, rem)
  PROVE  Reallotted(m, n, f, n + need, FALSE, GrownAnywhere(m, h, f[n - 1], rem))
<1>1. CASE rem.mem = 0
  <2>1. GrownAnywhere(m, h, f[n - 1], rem) = Resized(FALSE, h, m, FALSE)
    BY <1>1 DEF GrownAnywhere
  <2>2. Reallotted(m, n, f, n + need, FALSE, Resized(FALSE, h, m, FALSE))
    BY Unchanged
  <2> QED
    BY <2>1, <2>2
<1>2. CASE rem.mem # 0
  <2>1. rem.mem \in Pool /\ \E g : Given(m, need, rem.m, rem.mem, g)
    BY <1>2 DEF Allotted
  <2>2. PICK g : Given(m, need, rem.m, rem.mem, g)
    BY <2>1
  <2>0. n \in Nat /\ need \in Nat /\ n - 1 \in 0 .. n - 1
    OBVIOUS
  <2>3. /\ On(n, f) \cap On(need, g) = {}
        /\ \A p \in On(n, f) : rem.m[p] = m[p]
    BY <2>0, <2>2, GivenIsApart
  <2>4. rem.m \in Links /\ IsPath(rem.m, rem.mem, need, g)
    BY <2>2 DEF Given
  <2> DEFINE last == f[n - 1]
             m2 == [rem.m EXCEPT ![last] = rem.mem]
  <2>5. last \in Pool /\ last \in On(n, f)
    BY <2>0 DEF IsPath, On
  <2>6. m2 \in Links
    BY <2>1, <2>4, <2>5 DEF Links
  <2>7. \A p \in Pool : m2[p] = IF p = last THEN rem.mem ELSE rem.m[p]
    BY <2>4, <2>5 DEF Links
  <2>8. GrownAnywhere(m, h, last, rem) = Resized(TRUE, h, m2, FALSE)
    BY <1>2 DEF GrownAnywhere
  <2> HIDE DEF m2
  <2>9. On(need, g) \subseteq Pool /\ On(n, f) \subseteq Pool
    BY <2>0, <2>4, PathSize
  <2>10. IsPath(m2, rem.mem, need, g)
    <3>1. \A p \in On(need, g) : m2[p] = rem.m[p]
      BY <2>3, <2>5, <2>7, <2>9
    <3> QED
      BY <2>0, <2>4, <3>1, SamePath
  <2>11. \A i \in 0 .. n - 2 : m2[f[i]] = m[f[i]]
    <3> SUFFICES ASSUME NEW i \in 0 .. n - 2 PROVE m2[f[i]] = m[f[i]]
      OBVIOUS
    <3>1. i \in 0 .. n - 1 /\ i # n - 1
      OBVIOUS
    <3>2. f[i] \in On(n, f) /\ f[i] # last
      BY <2>0, <3>1 DEF On, IsPath
    <3> QED
      BY <2>3, <2>7, <2>9, <3>2
  <2>12. m2[f[n - 1]] = rem.mem
    BY <2>5, <2>7
  <2>14. PICK j : IsPath(m2, h, n + need, j)
                  /\ On(n + need, j) = On(n, f) \cup On(need, g)
                  /\ \A i \in 0 .. n - 1 : j[i] = f[i]
    <3> HIDE DEF last
    <3> QED
      BY <2>0, <2>3, <2>10, <2>11, <2>12, JoinPaths
  <2>15. Exchanged(m, n, f, m2, n + need, j)
    <3>1. \A p \in On(need, g) : m[p] = 0
      BY <2>2 DEF Given
    <3>2. \A p \in Pool : p \notin On(need, g) => rem.m[p] = m[p]
      BY <2>2 DEF Given
    <3> HIDE DEF last
    <3> QED
      BY <2>5, <2>7, <2>14, <3>1, <3>2 DEF Exchanged
  <2>16. Reallotted(m, n, f, n + need, FALSE, Resized(TRUE, h, m2, FALSE))
    <3>1. Keeps(m, n, f, n + need, j, FALSE)
      BY <2>14 DEF Keeps
    <3> QED
      BY <2>6, <2>14, <2>15, <3>1, Renewed
  <2> QED
    BY <2>8, <2>16
<1> QED
  BY <1>1, <1>2

\* Any reallocation.
LEMMA Reallocated ==
  ASSUME NEW m \in Links, NEW h \in {-1, 0} \cup Pool, NEW n \in Nat, NEW f,
         IsPath(m, h, n, f), NEW sequence \in BOOLEAN, sequence => Straight(n, f),
         NEW k \in Nat
  PROVE  Reallotted(m, n, f, k, sequence, MEM_ReAllocatePages(m, h, k, sequence))
<1> DEFINE new == MEM_ReAllocatePages(m, h, k, sequence)
<1>1. CASE h \in {-1, 0}
  <2>1. n = 0
    <3>1. h \notin Pool
      BY <1>1, PoolIs
    <3>2. 0 < n => f[0] \in Pool /\ f[0] = h
      BY DEF IsPath
    <3> QED
      BY <3>1, <3>2
  <2>2. CASE k = 0
    <3>1. new = Resized(TRUE, h, m, FALSE)
      <4>1. h <= 0 /\ k = 0 /\ ~(k > 0) /\ ~(h > 0)
        BY <1>1, <2>2
      <4> QED
        BY <4>1, Zenon DEF MEM_ReAllocatePages
    <3>2. Reallotted(m, n, f, k, sequence, Resized(TRUE, h, m, FALSE))
      BY <2>1, <2>2, Unchanged
    <3> QED
      BY <3>1, <3>2
  <2>3. CASE k > 0
    <3>1. new = First(MEM_AllocatePages(m, k, sequence))
      <4>1. h <= 0 /\ k # 0 /\ k > 0 /\ ~(h > 0)
        BY <1>1, <2>3
      <4> QED
        BY <4>1, Zenon DEF MEM_ReAllocatePages
    <3>2. Allotted(m, k, sequence, MEM_AllocatePages(m, k, sequence))
      BY Allocated
    <3>3. Reallotted(m, 0, f, k, sequence, First(MEM_AllocatePages(m, k, sequence)))
      BY <2>1, <3>2, FirstPages
    <3> QED
      BY <2>1, <3>1, <3>3
  <2> QED
    BY <2>2, <2>3
<1>2. CASE h \in Pool
  <2>1. n > 0 /\ h > 0 /\ n - 1 \in 0 .. n - 1
    BY <1>2, PoolIs DEF IsPath
  <2>2. MEM_AllocatedPages(m, h) = n /\ LastOf(m, h, n) = f[n - 1]
    BY <2>1, PathBlock DEF LastOf
  <2>3. new = ResizedBlock(m, h, n, f[n - 1], k, sequence)
    <3>1. ~(h <= 0)
      BY <1>2, PoolIs
    <3>2. new = ResizedBlock(m, h, MEM_AllocatedPages(m, h),
                             LastOf(m, h, MEM_AllocatedPages(m, h)), k, sequence)
      BY <2>1, <3>1 DEF MEM_ReAllocatePages
    <3> QED
      BY <2>2, <3>2
  <2> HIDE DEF new
  <2>4. CASE k = 0
    <3>1. new = Resized(TRUE, Last, MEM_ReleasePages(m, h), FALSE)
      <4>1. k = 0 /\ k # n /\ ~(0 < k) /\ ~(n < k)
        BY <2>1, <2>4
      <4> QED
        BY <4>1, <2>3, Zenon DEF ResizedBlock
    <3>2. /\ MEM_ReleasePages(m, h) \in Links
          /\ Exchanged(m, n, f, MEM_ReleasePages(m, h), 0, NoPath)
      BY Released
    <3>3. IsPath(MEM_ReleasePages(m, h), Last, 0, NoPath)
      BY NoPathIs, PoolIs
    <3>4. Straight(0, NoPath) /\ Last \in {-1, 0} \cup Pool
      BY DEF Straight, Last
    <3>5. Reallotted(m, n, f, 0, sequence,
                     Resized(TRUE, Last, MEM_ReleasePages(m, h), FALSE))
      <4>1. Keeps(m, n, f, 0, NoPath, FALSE)
        BY DEF Keeps
      <4> QED
        BY <3>2, <3>3, <3>4, <4>1, Renewed
    <3> QED
      BY <2>4, <3>1, <3>5 DEF new
  <2>5. CASE k # 0 /\ k = n
    <3>1. new = Resized(TRUE, h, m, FALSE)
      <4>1. k # 0 /\ k = n /\ ~(k < n) /\ ~(n < k)
        BY <2>5
      <4> QED
        BY <4>1, <2>3, Zenon DEF ResizedBlock
    <3>2. Reallotted(m, n, f, k, sequence, Resized(TRUE, h, m, FALSE))
      BY <2>5, Unchanged
    <3> QED
      BY <3>1, <3>2 DEF new
  <2>6. CASE k # 0 /\ k < n
    <3>1. new = Resized(TRUE, h, Shrunk(m, h, k), FALSE)
      <4>1. k # 0 /\ k # n /\ 0 < k /\ k < n /\ ~(n < k)
        BY <2>6
      <4> QED
        BY <4>1, <2>3, Zenon DEF ResizedBlock
    <3>2. k \in 1 .. n - 1
      BY <2>6
    <3>3. Reallotted(m, n, f, k, sequence, Resized(TRUE, h, Shrunk(m, h, k), FALSE))
      BY <1>2, <3>2, ShrunkIs
    <3> QED
      BY <3>1, <3>3 DEF new
  <2>7. CASE n < k /\ sequence
    <3>1. new = GrownInOnePiece(m, h, k, f[n - 1], k - n)
      <4>1. k # 0 /\ k # n /\ ~(k < n) /\ n < k /\ sequence
        BY <2>1, <2>7
      <4> QED
        BY <4>1, <2>3, Zenon DEF ResizedBlock
    <3>2. CASE k - n <= Behind(m, f[n - 1])
      <4>1. new = Resized(TRUE, h, Extended(m, f[n - 1], k - n), FALSE)
        BY <3>1, <3>2 DEF GrownInOnePiece
      <4>2. Reallotted(m, n, f, k, TRUE,
                       Resized(TRUE, h, Extended(m, f[n - 1], k - n), FALSE))
        BY <1>2, <2>1, <2>7, <3>2, ExtendedIs
      <4> QED
        BY <2>7, <4>1, <4>2 DEF new
    <3>3. CASE ~(k - n <= Behind(m, f[n - 1]))
      <4>1. new = Moved(m, h, MEM_AllocatePages(m, k, TRUE))
        BY <3>1, <3>3 DEF GrownInOnePiece
      <4>2. Allotted(m, k, TRUE, MEM_AllocatePages(m, k, TRUE))
        BY Allocated
      <4>3. n < k /\ Straight(n, f)
        BY <2>7
      <4>4. Reallotted(m, n, f, k, TRUE, Moved(m, h, MEM_AllocatePages(m, k, TRUE)))
        BY <1>2, <4>2, <4>3, MovedIs
      <4> QED
        BY <2>7, <4>1, <4>4 DEF new
    <3> QED
      BY <3>2, <3>3
  <2>8. CASE n < k /\ ~sequence
    <3>0. k - n \in Nat \ {0} /\ k - n \in Nat /\ n \in Nat \ {0} /\ n + (k - n) = k
      BY <2>1, <2>8
    <3>1. new = GrownAnywhere(m, h, f[n - 1], MEM_AllocatePages(m, k - n, FALSE))
      <4>1. k # 0 /\ k # n /\ ~(k < n) /\ n < k /\ ~sequence
        BY <2>1, <2>8
      <4> QED
        BY <4>1, <2>3, Zenon DEF ResizedBlock
    <3>2. Allotted(m, k - n, FALSE, MEM_AllocatePages(m, k - n, FALSE))
      BY <3>0, Allocated
    <3>3. Reallotted(m, n, f, n + (k - n), FALSE,
                     GrownAnywhere(m, h, f[n - 1], MEM_AllocatePages(m, k - n, FALSE)))
      BY <1>2, <3>0, <3>2, GrownIs
    <3> QED
      BY <2>8, <3>0, <3>1, <3>3 DEF new
  <2> QED
    BY <2>4, <2>5, <2>6, <2>7, <2>8
<1> QED
  BY <1>1, <1>2

-----------------------------------------------------------------------------
(* Sizes.                                                                  *)

\* What is assumed of the numbers, without the contents of pages.
LEMMA NumbersAre ==
  /\ {XMS_HANDLES, PageKb, EMM_MAX_HANDLES, EmsPage} \subseteq Nat \ {0}
  /\ {MaxLocks, SystemPages, MaxVcpi, MaxWritten} \subseteq Nat
  /\ XmsSizes \cup EmsSizes \subseteq Nat
BY ExtendedAssumption

LEMMA SizesAre ==
  /\ \A size \in Nat : PagesFor(size) \in Nat
  /\ PagesFor(0) = 0
  /\ \A pages \in Nat : pages * EmsPage \in Nat
<1>1. ASSUME NEW size \in Nat
      PROVE  PagesFor(size) \in Nat
  BY NumbersAre DEF PagesFor
<1>2. PagesFor(0) = 0
  BY NumbersAre DEF PagesFor
<1>3. ASSUME NEW pages \in Nat
      PROVE  pages * EmsPage \in Nat
  BY NumbersAre
<1> QED
  BY <1>1, <1>2, <1>3

LEMMA EnoughIs ==
  ASSUME NEW pages \in Nat, NEW m, EnoughFor(m, pages)
  PROVE  ~(pages * EmsPage > MEM_FreeTotal(m))
BY FreeIs, NumbersAre DEF EnoughFor

LEMMA InsideIs ==
  ASSUME NEW size \in Nat, NEW i \in Nat, i * PageKb < size
  PROVE  i < PagesFor(size)
BY NumbersAre DEF PagesFor

LEMMA LowestIs ==
  ASSUME NEW S \in SUBSET Nat, S # {}
  PROVE  LowestOf(S) \in S
<1>1. \E h \in S : \A g \in S : h <= g
  BY LeastExists
<1> QED
  BY <1>1, Zenon DEF LowestOf

-----------------------------------------------------------------------------
(* The invariant, of handles x of XMS and e of EMS and pages v of VCPI.    *)

XmsRecords == [free : BOOLEAN, mem : {-1, 0} \cup Pool, size : Nat, locked : 0 .. MaxLocks]
EmsRecords == [pages : {NULL_HANDLE} \cup Nat, mem : {-1, 0} \cup Pool]

FirstIn(x, e, v) ==
  [b \in AllHandles |->
     IF b[1] = "xms" THEN IF x[b[2]].free THEN 0 ELSE x[b[2]].mem
     ELSE IF b[1] = "ems" THEN IF e[b[2]].pages = NULL_HANDLE THEN 0 ELSE e[b[2]].mem
     ELSE IF b[2] \in v THEN b[2] ELSE 0]

SizeIn(x, e, v) ==
  [b \in AllHandles |->
     IF b[1] = "xms" THEN IF x[b[2]].free THEN 0 ELSE PagesFor(x[b[2]].size)
     ELSE IF b[1] = "ems"
          THEN IF e[b[2]].pages = NULL_HANDLE THEN 0 ELSE e[b[2]].pages * EmsPage
     ELSE IF b[2] \in v THEN 1 ELSE 0]

StraightXms(size, path) ==
  \A h \in XmsHandles : Straight(size[<<"xms", h>>], path[<<"xms", h>>])

Owns(m, x, e, v, path) ==
  /\ Owned(m, FirstIn(x, e, v), SizeIn(x, e, v), path)
  /\ StraightXms(SizeIn(x, e, v), path)

\* TypeOK, without the history.
Typed ==
  /\ mhandles \in [Pool -> {0, Last} \cup Pool]
  /\ ram \in [Pool -> Data]
  /\ xms_handles \in [XmsHandles -> XmsRecords]
  /\ emm_handles \in [EmsHandles -> EmsRecords]
  /\ vcpi \subseteq Pool
  /\ exited \in BOOLEAN

IInv ==
  /\ Typed
  /\ \E path : Owns(mhandles, xms_handles, emm_handles, vcpi, path)

LEMMA HandlesAre ==
  /\ \A h \in XmsHandles : <<"xms", h>> \in AllHandles
  /\ \A h \in EmsHandles : <<"ems", h>> \in AllHandles
  /\ \A p \in Pool : <<"vcpi", p>> \in AllHandles
  /\ \A b \in AllHandles : \/ \E h \in XmsHandles : b = <<"xms", h>>
                           \/ \E h \in EmsHandles : b = <<"ems", h>>
                           \/ \E p \in Pool : b = <<"vcpi", p>>
BY DEF AllHandles

LEMMA XmsIs ==
  ASSUME NEW x, NEW e, NEW v, NEW h \in XmsHandles
  PROVE  /\ FirstIn(x, e, v)[<<"xms", h>>] = IF x[h].free THEN 0 ELSE x[h].mem
         /\ SizeIn(x, e, v)[<<"xms", h>>] = IF x[h].free THEN 0 ELSE PagesFor(x[h].size)
BY HandlesAre DEF FirstIn, SizeIn

LEMMA EmsIs ==
  ASSUME NEW x, NEW e, NEW v, NEW h \in EmsHandles
  PROVE  /\ FirstIn(x, e, v)[<<"ems", h>>]
              = IF e[h].pages = NULL_HANDLE THEN 0 ELSE e[h].mem
         /\ SizeIn(x, e, v)[<<"ems", h>>]
              = IF e[h].pages = NULL_HANDLE THEN 0 ELSE e[h].pages * EmsPage
BY HandlesAre DEF FirstIn, SizeIn

LEMMA VcpiIs ==
  ASSUME NEW x, NEW e, NEW v, NEW p \in Pool
  PROVE  /\ FirstIn(x, e, v)[<<"vcpi", p>>] = IF p \in v THEN p ELSE 0
         /\ SizeIn(x, e, v)[<<"vcpi", p>>] = IF p \in v THEN 1 ELSE 0
BY HandlesAre DEF FirstIn, SizeIn

\* Handle id has path f after a call that has changed no other handle.
TakesPath(id, m, x, e, v, path, m2, x2, e2, v2, f) ==
  /\ SizeIn(x2, e2, v2)[id] \in Nat
  /\ IsPath(m2, FirstIn(x2, e2, v2)[id], SizeIn(x2, e2, v2)[id], f)
  /\ Exchanged(m, SizeIn(x, e, v)[id], path[id], m2, SizeIn(x2, e2, v2)[id], f)
  /\ id[1] = "xms" => Straight(SizeIn(x2, e2, v2)[id], f)
  /\ \A b \in AllHandles \ {id} : /\ FirstIn(x2, e2, v2)[b] = FirstIn(x, e, v)[b]
                                   /\ SizeIn(x2, e2, v2)[b] = SizeIn(x, e, v)[b]

LEMMA OneHandle ==
  ASSUME NEW m, NEW x, NEW e, NEW v, NEW path, Owns(m, x, e, v, path),
         NEW id \in AllHandles, NEW m2, NEW x2, NEW e2, NEW v2, NEW f,
         TakesPath(id, m, x, e, v, path, m2, x2, e2, v2, f)
  PROVE  \E path2 : Owns(m2, x2, e2, v2, path2)
<1> DEFINE first == FirstIn(x, e, v)
           size == SizeIn(x, e, v)
           first2 == FirstIn(x2, e2, v2)
           size2 == SizeIn(x2, e2, v2)
           path2 == [b \in AllHandles |-> IF b = id THEN f ELSE path[b]]
<1>1. Owned(m, first, size, path) /\ StraightXms(size, path)
  BY DEF Owns
<1>2. \A b \in AllHandles : path2[b] = IF b = id THEN f ELSE path[b]
  OBVIOUS
<1> HIDE DEF first, size, first2, size2
<1>3. /\ size2[id] \in Nat /\ IsPath(m2, first2[id], size2[id], f)
      /\ Exchanged(m, size[id], path[id], m2, size2[id], f)
      /\ id[1] = "xms" => Straight(size2[id], f)
      /\ \A b \in AllHandles \ {id} : first2[b] = first[b] /\ size2[b] = size[b]
  BY DEF TakesPath, first, size, first2, size2
<1>4. Owned(m2, first2, size2, path2)
  BY <1>1, <1>3, OnePath
<1> HIDE DEF path2
<1>5. StraightXms(size2, path2)
  <2>1. ASSUME NEW h \in XmsHandles
        PROVE  Straight(size2[<<"xms", h>>], path2[<<"xms", h>>])
    <3>1. CASE <<"xms", h>> = id
      <4>1. id[1] = "xms"
        BY <3>1
      <4> QED
        BY <1>2, <1>3, <3>1, <4>1
    <3>2. CASE <<"xms", h>> # id
      <4>1. <<"xms", h>> \in AllHandles \ {id}
        BY <3>2, HandlesAre
      <4> QED
        BY <1>1, <1>2, <1>3, <4>1 DEF StraightXms
    <3> QED
      BY <3>1, <3>2
  <2> QED
    BY <2>1 DEF StraightXms
<1> QED
  BY <1>4, <1>5 DEF Owns, first2, size2

LEMMA XmsSet ==
  ASSUME NEW x \in [XmsHandles -> XmsRecords], NEW h \in XmsHandles, NEW r,
         NEW m, NEW e, NEW v, NEW path, Owns(m, x, e, v, path), NEW m2, NEW n \in Nat, NEW f,
         n = (IF r.free THEN 0 ELSE PagesFor(r.size)),
         IsPath(m2, IF r.free THEN 0 ELSE r.mem, n, f),
         Exchanged(m, SizeIn(x, e, v)[<<"xms", h>>], path[<<"xms", h>>], m2, n, f),
         Straight(n, f)
  PROVE  \E path2 : Owns(m2, [x EXCEPT ![h] = r], e, v, path2)
<1> DEFINE x2 == [x EXCEPT ![h] = r]
           id == <<"xms", h>>
<1>1. x2[h] = r /\ \A g \in XmsHandles : g # h => x2[g] = x[g]
  OBVIOUS
<1> HIDE DEF x2
<1>2. SizeIn(x2, e, v)[id] = n
      /\ FirstIn(x2, e, v)[id] = IF r.free THEN 0 ELSE r.mem
  BY <1>1, XmsIs
<1>3. ASSUME NEW b \in AllHandles, b # id
      PROVE  FirstIn(x2, e, v)[b] = FirstIn(x, e, v)[b] /\ SizeIn(x2, e, v)[b] = SizeIn(x, e, v)[b]
  <2>1. CASE \E g \in XmsHandles : b = <<"xms", g>>
    <3>1. PICK g \in XmsHandles : b = <<"xms", g>>
      BY <2>1
    <3>2. x2[g] = x[g]
      BY <1>1, <1>3, <3>1
    <3> QED
      BY <3>1, <3>2, XmsIs
  <2>2. CASE \E g \in EmsHandles : b = <<"ems", g>>
    BY <2>2, EmsIs
  <2>3. CASE \E p \in Pool : b = <<"vcpi", p>>
    BY <2>3, VcpiIs
  <2> QED
    BY <2>1, <2>2, <2>3, HandlesAre
<1>4. id \in AllHandles
  BY HandlesAre
<1>5. IsPath(m2, FirstIn(x2, e, v)[id], n, f)
  BY <1>2
<1> HIDE DEF id
<1>6. \A b \in AllHandles \ {id} : FirstIn(x2, e, v)[b] = FirstIn(x, e, v)[b]
                                   /\ SizeIn(x2, e, v)[b] = SizeIn(x, e, v)[b]
  BY <1>3
<1>7. Exchanged(m, SizeIn(x, e, v)[id], path[id], m2, n, f)
  BY DEF id
<1>9. id[1] = "xms" => Straight(n, f)
  OBVIOUS
<1>10. TakesPath(id, m, x, e, v, path, m2, x2, e, v, f)
  BY <1>2, <1>5, <1>6, <1>7, <1>9 DEF TakesPath
<1>8. \E path2 : Owns(m2, x2, e, v, path2)
  BY <1>4, <1>10, OneHandle
<1> QED
  BY <1>8 DEF x2

LEMMA EmsSet ==
  ASSUME NEW e \in [EmsHandles -> EmsRecords], NEW h \in EmsHandles, NEW r,
         NEW m, NEW x, NEW v, NEW path, Owns(m, x, e, v, path), NEW m2, NEW n \in Nat, NEW f,
         n = (IF r.pages = NULL_HANDLE THEN 0 ELSE r.pages * EmsPage),
         IsPath(m2, IF r.pages = NULL_HANDLE THEN 0 ELSE r.mem, n, f),
         Exchanged(m, SizeIn(x, e, v)[<<"ems", h>>], path[<<"ems", h>>], m2, n, f)
  PROVE  \E path2 : Owns(m2, x, [e EXCEPT ![h] = r], v, path2)
<1> DEFINE e2 == [e EXCEPT ![h] = r]
           id == <<"ems", h>>
<1>1. e2[h] = r /\ \A g \in EmsHandles : g # h => e2[g] = e[g]
  OBVIOUS
<1> HIDE DEF e2
<1>2. SizeIn(x, e2, v)[id] = n
      /\ FirstIn(x, e2, v)[id] = IF r.pages = NULL_HANDLE THEN 0 ELSE r.mem
  BY <1>1, EmsIs
<1>3. ASSUME NEW b \in AllHandles, b # id
      PROVE  FirstIn(x, e2, v)[b] = FirstIn(x, e, v)[b] /\ SizeIn(x, e2, v)[b] = SizeIn(x, e, v)[b]
  <2>1. CASE \E g \in EmsHandles : b = <<"ems", g>>
    <3>1. PICK g \in EmsHandles : b = <<"ems", g>>
      BY <2>1
    <3>2. e2[g] = e[g]
      BY <1>1, <1>3, <3>1
    <3> QED
      BY <3>1, <3>2, EmsIs
  <2>2. CASE \E g \in XmsHandles : b = <<"xms", g>>
    BY <2>2, XmsIs
  <2>3. CASE \E p \in Pool : b = <<"vcpi", p>>
    BY <2>3, VcpiIs
  <2> QED
    BY <2>1, <2>2, <2>3, HandlesAre
<1>4. id \in AllHandles /\ id[1] # "xms"
  BY HandlesAre
<1>5. IsPath(m2, FirstIn(x, e2, v)[id], n, f)
  BY <1>2
<1> HIDE DEF id
<1>6. \A b \in AllHandles \ {id} : FirstIn(x, e2, v)[b] = FirstIn(x, e, v)[b]
                                   /\ SizeIn(x, e2, v)[b] = SizeIn(x, e, v)[b]
  BY <1>3
<1>7. Exchanged(m, SizeIn(x, e, v)[id], path[id], m2, n, f)
  BY DEF id
<1>9. id[1] = "xms" => Straight(n, f)
  BY <1>4
<1>10. TakesPath(id, m, x, e, v, path, m2, x, e2, v, f)
  BY <1>2, <1>5, <1>6, <1>7, <1>9 DEF TakesPath
<1>8. \E path2 : Owns(m2, x, e2, v, path2)
  BY <1>4, <1>10, OneHandle
<1> QED
  BY <1>8 DEF e2

\* Page p is given to a program or taken back.
LEMMA VcpiSet ==
  ASSUME NEW p \in Pool, NEW v2, NEW v, \A q \in Pool \ {p} : q \in v2 <=> q \in v,
         NEW m, NEW x, NEW e, NEW path, Owns(m, x, e, v, path), NEW m2, NEW n \in Nat, NEW f,
         n = (IF p \in v2 THEN 1 ELSE 0),
         IsPath(m2, IF p \in v2 THEN p ELSE 0, n, f),
         Exchanged(m, SizeIn(x, e, v)[<<"vcpi", p>>], path[<<"vcpi", p>>], m2, n, f)
  PROVE  \E path2 : Owns(m2, x, e, v2, path2)
<1> DEFINE id == <<"vcpi", p>>
<1>2. SizeIn(x, e, v2)[id] = n
      /\ FirstIn(x, e, v2)[id] = IF p \in v2 THEN p ELSE 0
  BY VcpiIs
<1>3. ASSUME NEW b \in AllHandles, b # id
      PROVE  FirstIn(x, e, v2)[b] = FirstIn(x, e, v)[b] /\ SizeIn(x, e, v2)[b] = SizeIn(x, e, v)[b]
  <2>1. CASE \E g \in EmsHandles : b = <<"ems", g>>
    BY <2>1, EmsIs
  <2>2. CASE \E g \in XmsHandles : b = <<"xms", g>>
    BY <2>2, XmsIs
  <2>3. CASE \E q \in Pool : b = <<"vcpi", q>>
    <3>1. PICK q \in Pool : b = <<"vcpi", q>>
      BY <2>3
    <3>2. q \in v2 <=> q \in v
      BY <1>3, <3>1
    <3> QED
      BY <3>1, <3>2, VcpiIs
  <2> QED
    BY <2>1, <2>2, <2>3, HandlesAre
<1>4. id \in AllHandles /\ id[1] # "xms"
  BY HandlesAre
<1>5. IsPath(m2, FirstIn(x, e, v2)[id], n, f)
  BY <1>2
<1> HIDE DEF id
<1>6. \A b \in AllHandles \ {id} : FirstIn(x, e, v2)[b] = FirstIn(x, e, v)[b]
                                   /\ SizeIn(x, e, v2)[b] = SizeIn(x, e, v)[b]
  BY <1>3
<1>7. Exchanged(m, SizeIn(x, e, v)[id], path[id], m2, n, f)
  BY DEF id
<1>9. id[1] = "xms" => Straight(n, f)
  BY <1>4
<1>10. TakesPath(id, m, x, e, v, path, m2, x, e, v2, f)
  BY <1>2, <1>5, <1>6, <1>7, <1>9 DEF TakesPath
<1> QED
  BY <1>4, <1>10, OneHandle

\* The path of one handle.
LEMMA PathOf ==
  ASSUME NEW m, NEW x, NEW e, NEW v, NEW path, Owns(m, x, e, v, path), NEW id \in AllHandles
  PROVE  /\ SizeIn(x, e, v)[id] \in Nat
         /\ IsPath(m, FirstIn(x, e, v)[id], SizeIn(x, e, v)[id], path[id])
         /\ \A h \in XmsHandles : id = <<"xms", h>> => Straight(SizeIn(x, e, v)[id], path[id])
BY DEF Owns, Owned, StraightXms

\* A path can be written for a handle that has no pages.
LEMMA NoPathOf ==
  ASSUME NEW m, NEW h, NEW h2, NEW n, NEW f, IsPath(m, h, n, f), n = 0, h2 \notin Pool
  PROVE  IsPath(m, h2, n, f)
BY DEF IsPath

-----------------------------------------------------------------------------
(* The calls of XMS.                                                       *)

LEMMA TypesAre ==
  Typed <=> /\ mhandles \in Links
             /\ ram \in [Pool -> Data]
             /\ xms_handles \in [XmsHandles -> XmsRecords]
             /\ emm_handles \in [EmsHandles -> EmsRecords]
             /\ vcpi \subseteq Pool
             /\ exited \in BOOLEAN
BY DEF Typed, Links, XmsRecords, EmsRecords

LEMMA NewPages ==
  ASSUME NEW m, NEW n, NEW m2, NEW h, NEW g, Given(m, n, m2, h, g), NEW old, NEW f, old = 0
  PROVE  Exchanged(m, old, f, m2, n, g)
<1>1. On(old, f) = {}
  BY DEF On
<1> QED
  BY <1>1 DEF Given, Exchanged

LEMMA SamePages ==
  ASSUME NEW m, NEW n, NEW f
  PROVE  Exchanged(m, n, f, m, n, f)
BY DEF Exchanged

LEMMA XmsTypes ==
  ASSUME NEW x \in [XmsHandles -> XmsRecords], NEW h \in XmsHandles
  PROVE  /\ x[h].free \in BOOLEAN /\ x[h].mem \in {-1, 0} \cup Pool
         /\ x[h].size \in Nat /\ x[h].locked \in 0 .. MaxLocks
         /\ <<"xms", h>> \in AllHandles
BY HandlesAre DEF XmsRecords

LEMMA XmsAllocate ==
  ASSUME IInv, NEW size \in XmsSizes \ {0}, XMS_AllocateMemory(size)
  PROVE  IInv'
<1> DEFINE new == MEM_AllocatePages(mhandles, PagesFor(size), TRUE)
           h == LowestOf(UnusedXms)
           r == [free |-> FALSE, mem |-> new.mem, size |-> size, locked |-> 0]
           n == PagesFor(size)
<1>0. size \in Nat /\ n \in Nat /\ MaxLocks \in Nat
  BY NumbersAre, SizesAre
<1>1. PICK path : Owns(mhandles, xms_handles, emm_handles, vcpi, path)
  BY DEF IInv
<1>2. /\ mhandles \in Links /\ xms_handles \in [XmsHandles -> XmsRecords] /\ Typed
  BY TypesAre DEF IInv
<1>3. /\ UnusedXms # {} /\ new.mem # 0 /\ mhandles' = new.m
      /\ xms_handles' = [xms_handles EXCEPT ![h] = r]
      /\ UNCHANGED <<ram, emm_handles, vcpi, exited>>
  <2>1. XmsGot(size) = new
    BY DEF XmsGot
  <2> QED
    BY <2>1 DEF XMS_AllocateMemory, SetXms
<1>4. h \in XmsHandles /\ xms_handles[h].free
  <2>1. UnusedXms \in SUBSET Nat
    BY NumbersAre DEF UnusedXms, XmsHandles
  <2>2. h \in UnusedXms
    BY <1>3, <2>1, LowestIs
  <2> HIDE DEF h
  <2>3. xms_handles[h].free \in BOOLEAN
    BY <1>2, <2>2, XmsTypes DEF UnusedXms
  <2> QED
    BY <2>2, <2>3 DEF UnusedXms, ValidXms
<1>5. Allotted(mhandles, n, TRUE, new)
  BY <1>0, <1>2, Allocated
<1> HIDE DEF new, h
<1>6. new.mem \in Pool /\ \E f : Given(mhandles, n, new.m, new.mem, f) /\ Straight(n, f)
  BY <1>3, <1>5 DEF Allotted
<1>7. PICK f : Given(mhandles, n, new.m, new.mem, f) /\ Straight(n, f)
  BY <1>6
<1>8. new.m \in Links /\ IsPath(new.m, new.mem, n, f)
  BY <1>7 DEF Given
<1>9. SizeIn(xms_handles, emm_handles, vcpi)[<<"xms", h>>] = 0
  BY <1>4, XmsIs
<1>10. Exchanged(mhandles, SizeIn(xms_handles, emm_handles, vcpi)[<<"xms", h>>],
                 path[<<"xms", h>>], new.m, n, f)
  BY <1>7, <1>9, NewPages
<1>11. n = (IF r.free THEN 0 ELSE PagesFor(r.size))
       /\ IsPath(new.m, IF r.free THEN 0 ELSE r.mem, n, f)
       /\ r \in XmsRecords
  BY <1>0, <1>6, <1>8 DEF XmsRecords
<1> HIDE DEF r, n
<1>12. \E path2 : Owns(new.m, [xms_handles EXCEPT ![h] = r], emm_handles, vcpi, path2)
  BY <1>0, <1>1, <1>2, <1>4, <1>7, <1>10, <1>11, XmsSet
<1>13. Typed'
  BY <1>2, <1>3, <1>4, <1>8, <1>11 DEF Typed, Links, XmsRecords
<1> QED
  BY <1>3, <1>12, <1>13 DEF IInv

LEMMA XmsFree ==
  ASSUME IInv, NEW h \in XmsHandles, XMS_FreeMemory(h)
  PROVE  IInv'
<1> DEFINE m2 == MEM_ReleasePages(mhandles, xms_handles[h].mem)
           r == [xms_handles[h] EXCEPT !.free = TRUE, !.mem = -1, !.size = 0]
           id == <<"xms", h>>
           n == SizeIn(xms_handles, emm_handles, vcpi)[id]
<1>1. PICK path : Owns(mhandles, xms_handles, emm_handles, vcpi, path)
  BY DEF IInv
<1>2. mhandles \in Links /\ xms_handles \in [XmsHandles -> XmsRecords] /\ Typed
  BY TypesAre DEF IInv
<1>3. /\ ~xms_handles[h].free /\ mhandles' = m2
      /\ xms_handles' = [xms_handles EXCEPT ![h] = r]
      /\ UNCHANGED <<ram, emm_handles, vcpi, exited>>
  BY DEF XMS_FreeMemory, SetXms, ValidXms
<1>4. id \in AllHandles
  BY HandlesAre
<1>5. n \in Nat /\ IsPath(mhandles, xms_handles[h].mem, n, path[id])
  BY <1>1, <1>3, <1>4, PathOf, XmsIs
<1>6. m2 \in Links /\ Exchanged(mhandles, n, path[id], m2, 0, NoPath)
  BY <1>2, <1>5, Released
<1>7. r \in XmsRecords /\ r.free
  BY <1>2 DEF XmsRecords
<1>8. 0 = (IF r.free THEN 0 ELSE PagesFor(r.size))
      /\ IsPath(m2, IF r.free THEN 0 ELSE r.mem, 0, NoPath) /\ Straight(0, NoPath)
  BY <1>7, NoPathIs, PoolIs DEF Straight
<1> HIDE DEF m2, r
<1>9. \E path2 : Owns(m2, [xms_handles EXCEPT ![h] = r], emm_handles, vcpi, path2)
  BY <1>1, <1>2, <1>6, <1>8, XmsSet
<1>10. Typed'
  BY <1>2, <1>3, <1>6, <1>7 DEF Typed, Links, XmsRecords
<1> QED
  BY <1>3, <1>9, <1>10 DEF IInv

\* A lock changes the count of locks and nothing else.
LEMMA XmsCount ==
  ASSUME IInv, NEW h \in XmsHandles, NEW locked \in 0 .. MaxLocks,
         SetXms(h, [xms_handles[h] EXCEPT !.locked = locked]),
         UNCHANGED <<mhandles, ram, emm_handles, vcpi, exited>>
  PROVE  IInv'
<1> DEFINE r == [xms_handles[h] EXCEPT !.locked = locked]
           id == <<"xms", h>>
           n == SizeIn(xms_handles, emm_handles, vcpi)[id]
<1>1. PICK path : Owns(mhandles, xms_handles, emm_handles, vcpi, path)
  BY DEF IInv
<1>2. mhandles \in Links /\ xms_handles \in [XmsHandles -> XmsRecords] /\ Typed
  BY TypesAre DEF IInv
<1>3. xms_handles' = [xms_handles EXCEPT ![h] = r]
  BY DEF SetXms
<1>4. id \in AllHandles
  BY HandlesAre
<1>5. /\ n \in Nat /\ Straight(n, path[id])
      /\ IsPath(mhandles, FirstIn(xms_handles, emm_handles, vcpi)[id], n, path[id])
  BY <1>1, <1>4, PathOf
<1>6. r \in XmsRecords /\ r.free = xms_handles[h].free /\ r.mem = xms_handles[h].mem
      /\ r.size = xms_handles[h].size
  BY <1>2 DEF XmsRecords
<1>7. Exchanged(mhandles, n, path[id], mhandles, n, path[id])
  BY SamePages
<1>8. n = (IF r.free THEN 0 ELSE PagesFor(r.size))
      /\ FirstIn(xms_handles, emm_handles, vcpi)[id] = (IF r.free THEN 0 ELSE r.mem)
  BY <1>6, XmsIs
<1> HIDE DEF r
<1>9. IsPath(mhandles, IF r.free THEN 0 ELSE r.mem, n, path[id])
  BY <1>5, <1>8
<1>10. \E path2 : Owns(mhandles, [xms_handles EXCEPT ![h] = r], emm_handles, vcpi, path2)
  BY <1>1, <1>2, <1>5, <1>7, <1>8, <1>9, XmsSet
<1>11. Typed'
  BY <1>2, <1>3, <1>6 DEF Typed, XmsRecords
<1> QED
  BY <1>3, <1>10, <1>11 DEF IInv

LEMMA XmsLocks ==
  ASSUME IInv, NEW h \in XmsHandles, XMS_LockMemory(h) \/ XMS_UnlockMemory(h)
  PROVE  IInv'
<1>1. xms_handles[h].locked \in 0 .. MaxLocks /\ MaxLocks \in Nat
  BY NumbersAre, TypesAre, XmsTypes DEF IInv
<1>2. CASE XMS_LockMemory(h)
  <2>1. xms_handles[h].locked + 1 \in 0 .. MaxLocks
    BY <1>1, <1>2 DEF XMS_LockMemory
  <2> QED
    BY <1>2, <2>1, XmsCount DEF XMS_LockMemory
<1>3. CASE XMS_UnlockMemory(h)
  <2>1. xms_handles[h].locked - 1 \in 0 .. MaxLocks
    BY <1>1, <1>3 DEF XMS_UnlockMemory
  <2> QED
    BY <1>3, <2>1, XmsCount DEF XMS_UnlockMemory
<1> QED
  BY <1>2, <1>3

\* Copies of pages of a block in one piece are contents of pages.
LEMMA CopyTypes ==
  ASSUME ram \in [Pool -> Data], NEW dest \in Int, NEW src \in Int, NEW n \in Nat,
         \A i \in 0 .. n - 1 : src + i \in Pool
  PROVE  BlockCopy(dest, src, n) \in [Pool -> Data]
<1>1. ASSUME NEW p \in Pool
      PROVE  (IF p \in dest .. dest + n - 1 THEN ram[src + (p - dest)] ELSE ram[p]) \in Data
  <2>1. CASE p \in dest .. dest + n - 1
    <3>1. p - dest \in 0 .. n - 1
      BY <2>1
    <3> QED
      BY <2>1, <3>1
  <2>2. CASE p \notin dest .. dest + n - 1
    BY <2>2
  <2> QED
    BY <2>1, <2>2
<1> QED
  BY <1>1 DEF BlockCopy

LEMMA XmsResize ==
  ASSUME IInv, NEW h \in XmsHandles, NEW newSize \in XmsSizes \cup {0},
         XMS_ResizeMemory(h, newSize)
  PROVE  IInv'
<1> DEFINE mem == xms_handles[h].mem
           k == PagesFor(newSize)
           new == MEM_ReAllocatePages(mhandles, mem, k, TRUE)
           copy == BlockCopy(new.mem, mem, MEM_AllocatedPages(mhandles, mem))
           r == [xms_handles[h] EXCEPT !.mem = new.mem,
                                       !.size = IF new.ok THEN newSize ELSE @]
           id == <<"xms", h>>
           n == SizeIn(xms_handles, emm_handles, vcpi)[id]
           n2 == IF new.ok THEN k ELSE n
<1>0. newSize \in Nat /\ k \in Nat
  BY NumbersAre, SizesAre
<1>1. PICK path : Owns(mhandles, xms_handles, emm_handles, vcpi, path)
  BY DEF IInv
<1>2. mhandles \in Links /\ xms_handles \in [XmsHandles -> XmsRecords]
      /\ ram \in [Pool -> Data] /\ Typed
  BY TypesAre DEF IInv
<1>3. /\ ~xms_handles[h].free /\ mhandles' = new.m
      /\ ram' = IF new.copied THEN copy ELSE ram
      /\ xms_handles' = [xms_handles EXCEPT ![h] = r]
      /\ UNCHANGED <<emm_handles, vcpi, exited>>
  BY DEF XMS_ResizeMemory, SetXms, ValidXms
<1>4. id \in AllHandles /\ mem \in {-1, 0} \cup Pool
  BY <1>2, XmsTypes
<1>5. n = PagesFor(xms_handles[h].size) /\ FirstIn(xms_handles, emm_handles, vcpi)[id] = mem
  BY <1>3, XmsIs
<1>6. n \in Nat /\ IsPath(mhandles, mem, n, path[id]) /\ Straight(n, path[id])
  BY <1>1, <1>4, <1>5, PathOf
<1>7. Reallotted(mhandles, n, path[id], k, TRUE, new)
  <2> HIDE DEF mem, k, n
  <2> QED
    BY <1>0, <1>2, <1>4, <1>6, Reallocated
<1>8. copy \in [Pool -> Data]
  <2>1. MEM_AllocatedPages(mhandles, mem) = n
    BY <1>6, PathBlock
  <2>2. \A i \in 0 .. n - 1 : mem + i \in Pool
    <3> SUFFICES ASSUME NEW i \in 0 .. n - 1 PROVE mem + i \in Pool
      OBVIOUS
    <3>1. 0 < n
      BY <1>6
    <3>2. path[id][i] \in Pool /\ path[id][0] = mem
      BY <1>6, <3>1 DEF IsPath
    <3>3. path[id][i] = path[id][0] + i
      BY <1>6 DEF Straight
    <3> QED
      BY <3>2, <3>3
  <2> HIDE DEF mem, n, new
  <2>3. mem \in Int /\ new.mem \in Int
    <3>1. new.mem \in {-1, 0} \cup Pool
      BY <1>7 DEF Reallotted
    <3>2. mem \in {-1, 0} \cup Pool
      BY <1>4
    <3>3. \A p \in {-1, 0} \cup Pool : p \in Int
      BY PoolIs
    <3> QED
      BY <3>1, <3>2, <3>3
  <2> QED
    BY <1>2, <1>6, <2>1, <2>2, <2>3, CopyTypes DEF copy
<1> HIDE DEF new, copy, n2
<1>9. new.m \in Links /\ new.mem \in {-1, 0} \cup Pool /\ new.ok \in BOOLEAN
  BY <1>7 DEF Reallotted
<1>10. PICK f : IsPath(new.m, new.mem, n2, f) /\ Straight(n2, f)
                /\ Exchanged(mhandles, n, path[id], new.m, n2, f)
  BY <1>7 DEF Reallotted, n2
<1>11. r \in XmsRecords /\ r.free = FALSE /\ r.mem = new.mem
       /\ r.size = IF new.ok THEN newSize ELSE xms_handles[h].size
  BY <1>0, <1>2, <1>3, <1>9 DEF XmsRecords
<1>12. n2 \in Nat /\ n2 = (IF r.free THEN 0 ELSE PagesFor(r.size))
  BY <1>0, <1>5, <1>6, <1>9, <1>11 DEF n2
<1> HIDE DEF r, n
<1>13. IsPath(new.m, IF r.free THEN 0 ELSE r.mem, n2, f)
  BY <1>10, <1>11
<1>14. \E path2 : Owns(new.m, [xms_handles EXCEPT ![h] = r], emm_handles, vcpi, path2)
  BY <1>1, <1>2, <1>10, <1>12, <1>13, XmsSet DEF n
<1>15. Typed'
  BY <1>2, <1>3, <1>8, <1>9, <1>11 DEF Typed, Links, XmsRecords
<1> QED
  BY <1>3, <1>14, <1>15 DEF IInv

-----------------------------------------------------------------------------
(* The calls of EMS.                                                       *)

LEMMA EmsTypes ==
  ASSUME NEW e \in [EmsHandles -> EmsRecords], NEW h \in EmsHandles
  PROVE  /\ e[h].pages \in {NULL_HANDLE} \cup Nat /\ e[h].mem \in {-1, 0} \cup Pool
         /\ <<"ems", h>> \in AllHandles
BY HandlesAre DEF EmsRecords

\* A handle of EMS gets another record, first pages and links.
LEMMA EmsRecord ==
  ASSUME IInv, NEW h \in EmsHandles, NEW r \in EmsRecords, SetEms(h, r),
         NEW path, Owns(mhandles, xms_handles, emm_handles, vcpi, path),
         mhandles' \in Links, exited' \in BOOLEAN, UNCHANGED <<ram, xms_handles, vcpi>>,
         NEW n \in Nat, n = (IF r.pages = NULL_HANDLE THEN 0 ELSE r.pages * EmsPage),
         NEW f, IsPath(mhandles', IF r.pages = NULL_HANDLE THEN 0 ELSE r.mem, n, f),
         Exchanged(mhandles, SizeIn(xms_handles, emm_handles, vcpi)[<<"ems", h>>],
                   path[<<"ems", h>>], mhandles', n, f)
  PROVE  IInv'
<1>1. emm_handles \in [EmsHandles -> EmsRecords] /\ Typed
  BY TypesAre DEF IInv
<1>2. emm_handles' = [emm_handles EXCEPT ![h] = r]
  BY DEF SetEms
<1>3. \E path2 : Owns(mhandles', xms_handles, [emm_handles EXCEPT ![h] = r], vcpi, path2)
  BY <1>1, EmsSet
<1>4. Typed'
  BY <1>1, <1>2 DEF Typed, Links, EmsRecords
<1> QED
  BY <1>2, <1>3, <1>4 DEF IInv

LEMMA EmsAllocate ==
  ASSUME IInv, NEW pages \in EmsSizes, EMM_AllocateMemory(pages)
  PROVE  IInv'
<1> DEFINE n == pages * EmsPage
           new == MEM_AllocatePages(mhandles, n, FALSE)
           h == LowestOf(UnusedEms)
           r == [pages |-> pages, mem |-> new.mem]
           n0 == SizeIn(xms_handles, emm_handles, vcpi)[<<"ems", h>>]
<1>0. pages \in Nat /\ n \in Nat /\ pages # NULL_HANDLE
  BY NumbersAre, SizesAre DEF NULL_HANDLE
<1>1. PICK path : Owns(mhandles, xms_handles, emm_handles, vcpi, path)
  BY DEF IInv
<1>2. mhandles \in Links /\ emm_handles \in [EmsHandles -> EmsRecords]
  BY TypesAre DEF IInv
<1>3. /\ EnoughFor(mhandles, pages) /\ UnusedEms # {} /\ mhandles' = new.m
      /\ exited' \in BOOLEAN /\ SetEms(h, r) /\ UNCHANGED <<ram, xms_handles, vcpi>>
  BY DEF EMM_AllocateMemory
<1>4. h \in EmsHandles /\ emm_handles[h].pages = NULL_HANDLE
  <2>1. UnusedEms \in SUBSET Nat
    BY NumbersAre DEF UnusedEms, EmsHandles
  <2>2. h \in UnusedEms
    BY <1>3, <2>1, LowestIs
  <2> HIDE DEF h
  <2> QED
    BY <2>2 DEF UnusedEms, ValidHandle
<1>5. Allotted(mhandles, n, FALSE, new)
  BY <1>0, <1>2, Allocated
<1>6. ~(n > MEM_FreeTotal(mhandles))
  BY <1>0, <1>3, EnoughIs
<1> HIDE DEF new, h, n, n0
<1>7. n0 = 0
  BY <1>4, EmsIs DEF n0
<1>8. new.m \in Links /\ new.mem \in {-1, 0} \cup Pool
      /\ \E f : IsPath(new.m, new.mem, n, f) /\ Exchanged(mhandles, n0, path[<<"ems", h>>], new.m, n, f)
  <2>1. CASE new.mem = 0 /\ new.m = mhandles /\ n = 0
    <3>1. IsPath(mhandles, 0, 0, NoPath) /\ On(0, NoPath) = {}
      BY NoPathIs, PoolIs
    <3>2. Exchanged(mhandles, n0, path[<<"ems", h>>], mhandles, 0, NoPath)
      <4>1. On(n0, path[<<"ems", h>>]) = {}
        BY <1>7 DEF On
      <4> QED
        BY <3>1, <4>1 DEF Exchanged
    <3> QED
      BY <1>2, <2>1, <3>1, <3>2
  <2>2. CASE new.mem \in Pool /\ \E f : Given(mhandles, n, new.m, new.mem, f)
    <3>1. PICK f : Given(mhandles, n, new.m, new.mem, f)
      BY <2>2
    <3>2. Exchanged(mhandles, n0, path[<<"ems", h>>], new.m, n, f)
      BY <1>7, <3>1, NewPages
    <3> QED
      BY <2>2, <3>1, <3>2 DEF Given
  <2> QED
    BY <1>5, <1>6, <2>1, <2>2 DEF Allotted
<1>9. PICK f : IsPath(new.m, new.mem, n, f)
               /\ Exchanged(mhandles, n0, path[<<"ems", h>>], new.m, n, f)
  BY <1>8
<1>10. r \in EmsRecords /\ r.mem = new.mem /\ r.pages = pages
  BY <1>0, <1>8 DEF EmsRecords
<1>11. n = (IF r.pages = NULL_HANDLE THEN 0 ELSE r.pages * EmsPage)
       /\ IsPath(mhandles', IF r.pages = NULL_HANDLE THEN 0 ELSE r.mem, n, f)
  BY <1>0, <1>3, <1>9, <1>10 DEF n
<1> HIDE DEF r
<1>12. Exchanged(mhandles, SizeIn(xms_handles, emm_handles, vcpi)[<<"ems", h>>],
                 path[<<"ems", h>>], mhandles', n, f)
  BY <1>3, <1>9 DEF n0
<1>13. mhandles' \in Links
  BY <1>3, <1>8
<1> QED
  BY <1>0, <1>1, <1>3, <1>4, <1>10, <1>11, <1>12, <1>13, EmsRecord

LEMMA EmsResized ==
  ASSUME IInv, NEW h \in EmsHandles, ValidHandle(h), NEW pages \in Nat,
         NEW path, Owns(mhandles, xms_handles, emm_handles, vcpi, path), NEW new,
         Reallotted(mhandles, SizeIn(xms_handles, emm_handles, vcpi)[<<"ems", h>>],
                    path[<<"ems", h>>], pages * EmsPage, FALSE, new),
         ResizeEms(h, pages, new), exited' \in BOOLEAN
  PROVE  IInv'
<1> DEFINE r == [pages |-> IF new.ok THEN pages ELSE emm_handles[h].pages, mem |-> new.mem]
           n == SizeIn(xms_handles, emm_handles, vcpi)[<<"ems", h>>]
           f == path[<<"ems", h>>]
           k == pages * EmsPage
           n2 == IF new.ok THEN k ELSE n
<1>1. mhandles' = new.m /\ SetEms(h, r) /\ UNCHANGED <<ram, xms_handles, vcpi>>
  BY DEF ResizeEms
<1>2. emm_handles[h].pages \in Nat /\ emm_handles[h].pages # NULL_HANDLE
  BY TypesAre, EmsTypes DEF IInv, ValidHandle
<1>3. pages # NULL_HANDLE /\ k \in Nat
  BY SizesAre DEF NULL_HANDLE
<1>4. n = emm_handles[h].pages * EmsPage /\ n \in Nat
  BY <1>2, EmsIs, SizesAre
<1> HIDE DEF n, f, k, n2
<1>5. Reallotted(mhandles, n, f, k, FALSE, new)
  BY DEF n, f, k
<1>6. new.m \in Links /\ new.mem \in {-1, 0} \cup Pool /\ new.ok \in BOOLEAN
  BY <1>5 DEF Reallotted
<1>7. PICK f2 : IsPath(new.m, new.mem, n2, f2) /\ Exchanged(mhandles, n, f, new.m, n2, f2)
  BY <1>5 DEF Reallotted, n2
<1>8. /\ r \in EmsRecords /\ r.mem = new.mem /\ r.pages # NULL_HANDLE
      /\ r.pages = IF new.ok THEN pages ELSE emm_handles[h].pages
  BY <1>2, <1>3, <1>6 DEF EmsRecords
<1> HIDE DEF r
<1>9. n2 \in Nat /\ n2 = (IF r.pages = NULL_HANDLE THEN 0 ELSE r.pages * EmsPage)
  BY <1>3, <1>4, <1>6, <1>8 DEF n2, k
<1>10. mhandles' \in Links
       /\ IsPath(mhandles', IF r.pages = NULL_HANDLE THEN 0 ELSE r.mem, n2, f2)
  BY <1>1, <1>6, <1>7, <1>8
<1>11. Exchanged(mhandles, SizeIn(xms_handles, emm_handles, vcpi)[<<"ems", h>>],
                 path[<<"ems", h>>], mhandles', n2, f2)
  BY <1>1, <1>7 DEF n, f
<1> QED
  BY <1>1, <1>8, <1>9, <1>10, <1>11, EmsRecord

LEMMA EmsReallocate ==
  ASSUME IInv, NEW h \in EmsHandles, NEW pages \in EmsSizes, EMM_ReallocatePages(h, pages)
  PROVE  IInv'
<1> DEFINE n == SizeIn(xms_handles, emm_handles, vcpi)[<<"ems", h>>]
           k == pages * EmsPage
           mem == emm_handles[h].mem
<1>0. pages \in Nat /\ k \in Nat
  BY NumbersAre, SizesAre
<1>1. PICK path : Owns(mhandles, xms_handles, emm_handles, vcpi, path)
  BY DEF IInv
<1>2. mhandles \in Links /\ emm_handles \in [EmsHandles -> EmsRecords]
  BY TypesAre DEF IInv
<1>3. ValidHandle(h)
  BY DEF EMM_ReallocatePages
<1>4. n = emm_handles[h].pages * EmsPage
      /\ FirstIn(xms_handles, emm_handles, vcpi)[<<"ems", h>>] = mem
  BY <1>3, EmsIs DEF ValidHandle
<1>5. n \in Nat /\ IsPath(mhandles, mem, n, path[<<"ems", h>>]) /\ mem \in {-1, 0} \cup Pool
  BY <1>1, <1>2, <1>4, EmsTypes, PathOf
<1>6. CASE emm_handles[h].pages # 0
  <2> DEFINE new == MEM_ReAllocatePages(mhandles, mem, k, FALSE)
  <2>1. ResizeEms(h, pages, new) /\ exited' \in BOOLEAN
    BY <1>6 DEF EMM_ReallocatePages
  <2>2. Reallotted(mhandles, n, path[<<"ems", h>>], k, FALSE, new)
    <3> HIDE DEF n, k, mem
    <3> QED
      BY <1>0, <1>2, <1>5, Reallocated
  <2> HIDE DEF new
  <2> QED
    BY <1>0, <1>1, <1>3, <2>1, <2>2, EmsResized
<1>7. CASE emm_handles[h].pages = 0
  <2> DEFINE new == MEM_AllocatePages(mhandles, k, FALSE)
  <2>1. ResizeEms(h, pages, First(new)) /\ exited' \in BOOLEAN
    <3>1. ResizeEms(h, pages, First(new)) /\ exited' = ~First(new).ok
      BY <1>7 DEF EMM_ReallocatePages
    <3> QED
      BY <3>1
  <2>2. n = 0
    BY <1>4, <1>7, NumbersAre
  <2>3. Reallotted(mhandles, n, path[<<"ems", h>>], k, FALSE, First(new))
    <3> HIDE DEF n, k, mem
    <3>1. Allotted(mhandles, k, FALSE, new)
      BY <1>0, <1>2, Allocated
    <3>2. IsPath(mhandles, mem, 0, path[<<"ems", h>>])
      BY <1>5, <2>2
    <3> HIDE DEF new
    <3>3. Reallotted(mhandles, 0, path[<<"ems", h>>], k, FALSE, First(new))
      BY <1>0, <1>2, <3>1, <3>2, FirstPages
    <3> QED
      BY <2>2, <3>3
  <2> HIDE DEF new
  <2> QED
    BY <1>0, <1>1, <1>3, <2>1, <2>3, EmsResized
<1> QED
  BY <1>6, <1>7

LEMMA EmsRelease ==
  ASSUME IInv, NEW h \in EmsHandles, EMM_ReleaseMemory(h)
  PROVE  IInv'
<1> DEFINE n == SizeIn(xms_handles, emm_handles, vcpi)[<<"ems", h>>]
           mem == emm_handles[h].mem
           r == [pages |-> IF h = EMM_SYSTEM_HANDLE THEN 0 ELSE NULL_HANDLE, mem |-> 0]
<1>1. PICK path : Owns(mhandles, xms_handles, emm_handles, vcpi, path)
  BY DEF IInv
<1>2. mhandles \in Links /\ emm_handles \in [EmsHandles -> EmsRecords]
      /\ exited \in BOOLEAN
  BY TypesAre DEF IInv
<1>3. /\ ValidHandle(h) /\ SetEms(h, r) /\ UNCHANGED <<ram, xms_handles, vcpi, exited>>
      /\ mhandles' = IF emm_handles[h].pages = 0 THEN mhandles
                     ELSE MEM_ReleasePages(mhandles, mem)
  BY DEF EMM_ReleaseMemory
<1>4. n = emm_handles[h].pages * EmsPage
      /\ FirstIn(xms_handles, emm_handles, vcpi)[<<"ems", h>>] = mem
  BY <1>3, EmsIs DEF ValidHandle
<1>5. n \in Nat /\ IsPath(mhandles, mem, n, path[<<"ems", h>>]) /\ mem \in {-1, 0} \cup Pool
  BY <1>1, <1>2, <1>4, EmsTypes, PathOf
<1>6. mhandles' \in Links /\ Exchanged(mhandles, n, path[<<"ems", h>>], mhandles', 0, NoPath)
  <2>1. CASE emm_handles[h].pages = 0
    <3>1. n = 0 /\ mhandles' = mhandles
      BY <1>3, <1>4, <2>1, NumbersAre
    <3> HIDE DEF n
    <3>2. On(n, path[<<"ems", h>>]) = {} /\ On(0, NoPath) = {}
      BY <3>1 DEF On
    <3> QED
      BY <1>2, <3>1, <3>2 DEF Exchanged
  <2>2. CASE emm_handles[h].pages # 0
    <3> HIDE DEF n, mem
    <3>1. mhandles' = MEM_ReleasePages(mhandles, mem)
      BY <1>3, <2>2
    <3>2. /\ MEM_ReleasePages(mhandles, mem) \in Links
          /\ Exchanged(mhandles, n, path[<<"ems", h>>], MEM_ReleasePages(mhandles, mem), 0, NoPath)
      BY <1>2, <1>5, Released
    <3> QED
      BY <3>1, <3>2
  <2> QED
    BY <2>1, <2>2
<1>7. r \in EmsRecords /\ 0 = (IF r.pages = NULL_HANDLE THEN 0 ELSE r.pages * EmsPage)
      /\ (IF r.pages = NULL_HANDLE THEN 0 ELSE r.mem) = 0
  BY NumbersAre DEF EmsRecords, NULL_HANDLE
<1>8. IsPath(mhandles', IF r.pages = NULL_HANDLE THEN 0 ELSE r.mem, 0, NoPath)
  <2>1. IsPath(mhandles', 0, 0, NoPath)
    BY NoPathIs, PoolIs
  <2> QED
    BY <1>7, <2>1
<1> HIDE DEF r, mem, n
<1> QED
  BY <1>1, <1>2, <1>3, <1>6, <1>7, <1>8, EmsRecord DEF n

-----------------------------------------------------------------------------
(* The calls of VCPI.                                                      *)

\* A page of VCPI is given or taken back.
LEMMA VcpiRecord ==
  ASSUME IInv, NEW p \in Pool, \A q \in Pool \ {p} : q \in vcpi' <=> q \in vcpi,
         NEW path, Owns(mhandles, xms_handles, emm_handles, vcpi, path),
         vcpi' \subseteq Pool, mhandles' \in Links,
         UNCHANGED <<ram, xms_handles, emm_handles, exited>>,
         NEW n \in Nat, n = (IF p \in vcpi' THEN 1 ELSE 0),
         NEW f, IsPath(mhandles', IF p \in vcpi' THEN p ELSE 0, n, f),
         Exchanged(mhandles, SizeIn(xms_handles, emm_handles, vcpi)[<<"vcpi", p>>],
                   path[<<"vcpi", p>>], mhandles', n, f)
  PROVE  IInv'
<1>1. \E path2 : Owns(mhandles', xms_handles, emm_handles, vcpi', path2)
  BY VcpiSet
<1>2. Typed'
  BY DEF IInv, Typed, Links
<1> QED
  BY <1>1, <1>2 DEF IInv

LEMMA VcpiAllocate ==
  ASSUME IInv, VCPI_AllocatePage
  PROVE  IInv'
<1> DEFINE new == MEM_AllocatePages(mhandles, 1, FALSE)
           p == new.mem
           id == <<"vcpi", p>>
           n == SizeIn(xms_handles, emm_handles, vcpi)[id]
<1>1. PICK path : Owns(mhandles, xms_handles, emm_handles, vcpi, path)
  BY DEF IInv
<1>2. mhandles \in Links /\ vcpi \subseteq Pool
  BY TypesAre DEF IInv
<1>3. p # 0 /\ mhandles' = new.m /\ vcpi' = vcpi \cup {p}
      /\ UNCHANGED <<ram, xms_handles, emm_handles, exited>>
  BY DEF VCPI_AllocatePage
<1>4. Allotted(mhandles, 1, FALSE, new)
  BY <1>2, Allocated
<1> HIDE DEF new
<1>5. p \in Pool /\ \E f : Given(mhandles, 1, new.m, p, f)
  BY <1>3, <1>4 DEF Allotted
<1>6. PICK f : Given(mhandles, 1, new.m, p, f)
  BY <1>5
<1>7. new.m \in Links /\ IsPath(new.m, p, 1, f) /\ mhandles[p] = 0
  <2>1. new.m \in Links /\ IsPath(new.m, p, 1, f) /\ \A q \in On(1, f) : mhandles[q] = 0
    BY <1>6 DEF Given
  <2>2. p \in On(1, f)
    BY <2>1 DEF IsPath, On
  <2> QED
    BY <2>1, <2>2
<1>8. p \notin vcpi
  <2> SUFFICES ASSUME p \in vcpi PROVE FALSE
    OBVIOUS
  <2>1. n = 1 /\ FirstIn(xms_handles, emm_handles, vcpi)[id] = p
    BY <1>5, VcpiIs
  <2>2. IsPath(mhandles, p, 1, path[id])
    BY <1>1, <1>5, <2>1, HandlesAre, PathOf
  <2>3. p \in On(1, path[id])
    BY <2>2 DEF IsPath, On
  <2> QED
    BY <1>7, <2>2, <2>3, OnIsLinked
<1>9. n = 0
  BY <1>5, <1>8, VcpiIs
<1>10. Exchanged(mhandles, n, path[id], new.m, 1, f)
  BY <1>6, <1>9, NewPages
<1> HIDE DEF p
<1>11. p \in vcpi' /\ vcpi' \subseteq Pool /\ \A q \in Pool \ {p} : q \in vcpi' <=> q \in vcpi
  BY <1>2, <1>3, <1>5
<1>12. 1 = (IF p \in vcpi' THEN 1 ELSE 0) /\ IsPath(mhandles', IF p \in vcpi' THEN p ELSE 0, 1, f)
  BY <1>3, <1>7, <1>11
<1>13. Exchanged(mhandles, SizeIn(xms_handles, emm_handles, vcpi)[<<"vcpi", p>>],
                 path[<<"vcpi", p>>], mhandles', 1, f)
  BY <1>3, <1>10
<1>14. mhandles' \in Links
  BY <1>3, <1>7
<1> QED
  BY <1>1, <1>3, <1>5, <1>11, <1>12, <1>13, <1>14, VcpiRecord

LEMMA VcpiFree ==
  ASSUME IInv, NEW p \in vcpi, VCPI_FreePage(p)
  PROVE  IInv'
<1> DEFINE id == <<"vcpi", p>>
           n == SizeIn(xms_handles, emm_handles, vcpi)[id]
<1>1. PICK path : Owns(mhandles, xms_handles, emm_handles, vcpi, path)
  BY DEF IInv
<1>2. mhandles \in Links /\ vcpi \subseteq Pool /\ p \in Pool
  BY TypesAre DEF IInv
<1>3. mhandles' = MEM_ReleasePages(mhandles, p) /\ vcpi' = vcpi \ {p}
      /\ UNCHANGED <<ram, xms_handles, emm_handles, exited>>
  BY DEF VCPI_FreePage
<1>4. n \in Nat /\ IsPath(mhandles, p, n, path[id])
  BY <1>1, <1>2, HandlesAre, PathOf, VcpiIs
<1>5. /\ MEM_ReleasePages(mhandles, p) \in Links
      /\ Exchanged(mhandles, n, path[id], MEM_ReleasePages(mhandles, p), 0, NoPath)
  BY <1>2, <1>4, Released
<1>6. p \notin vcpi' /\ vcpi' \subseteq Pool /\ \A q \in Pool \ {p} : q \in vcpi' <=> q \in vcpi
  BY <1>2, <1>3
<1>7. 0 = (IF p \in vcpi' THEN 1 ELSE 0)
      /\ IsPath(mhandles', IF p \in vcpi' THEN p ELSE 0, 0, NoPath)
  BY <1>6, NoPathIs, PoolIs
<1>8. Exchanged(mhandles, SizeIn(xms_handles, emm_handles, vcpi)[<<"vcpi", p>>],
                path[<<"vcpi", p>>], mhandles', 0, NoPath)
  BY <1>3, <1>5
<1>9. mhandles' \in Links
  BY <1>3, <1>5
<1> QED
  BY <1>1, <1>2, <1>3, <1>6, <1>7, <1>8, <1>9, VcpiRecord

-----------------------------------------------------------------------------
(* What programs write.                                                    *)

\* Programs reach pages of the pool, whichever way they count them.
LEMMA Reached ==
  ASSUME IInv
  PROVE  XmsPages \subseteq Pool /\ EmsPages \subseteq Pool /\ vcpi \subseteq Pool
<1>1. PICK path : Owns(mhandles, xms_handles, emm_handles, vcpi, path)
  BY DEF IInv
<1>2. /\ xms_handles \in [XmsHandles -> XmsRecords]
      /\ emm_handles \in [EmsHandles -> EmsRecords] /\ vcpi \subseteq Pool
  BY TypesAre DEF IInv
<1>3. ASSUME NEW h \in XmsHandles, NEW i \in Nat, InXms(h, i)
      PROVE  XmsPlace(h, i) \in Pool
  <2> DEFINE id == <<"xms", h>>
             n == PagesFor(xms_handles[h].size)
  <2>1. ~xms_handles[h].free /\ i * PageKb < xms_handles[h].size
    BY <1>3 DEF InXms, ValidXms
  <2>2. n \in Nat /\ xms_handles[h].size \in Nat /\ id \in AllHandles
    BY <1>2, XmsTypes, SizesAre
  <2>3. IsPath(mhandles, xms_handles[h].mem, n, path[id]) /\ Straight(n, path[id])
    BY <1>1, <2>1, <2>2, XmsIs, PathOf
  <2>4. i < n
    BY <2>1, <2>2, InsideIs
  <2> HIDE DEF n
  <2>5. i \in 0 .. n - 1 /\ 0 < n
    BY <2>2, <2>4
  <2>6. path[id][i] \in Pool /\ path[id][0] = xms_handles[h].mem
    BY <2>3, <2>5 DEF IsPath
  <2>7. path[id][i] = path[id][0] + i
    BY <2>3, <2>5 DEF Straight
  <2> QED
    BY <2>6, <2>7 DEF XmsPlace
<1>4. ASSUME NEW h \in EmsHandles, NEW i \in Nat, InEms(h, i)
      PROVE  EmsPlace(h, i) \in Pool
  <2> DEFINE id == <<"ems", h>>
             n == emm_handles[h].pages * EmsPage
  <2>1. emm_handles[h].pages # NULL_HANDLE /\ i < n
    BY <1>4 DEF InEms, ValidHandle
  <2>2. n \in Nat /\ id \in AllHandles
    BY <1>2, <2>1, EmsTypes, SizesAre
  <2>3. IsPath(mhandles, emm_handles[h].mem, n, path[id])
    BY <1>1, <2>1, <2>2, EmsIs, PathOf
  <2> HIDE DEF n
  <2>4. i \in 0 .. n - 1
    BY <2>1, <2>2
  <2> DEFINE f == path[id]
             mem == emm_handles[h].mem
  <2>5. IsPath(mhandles, mem, n, f)
    BY <2>3
  <2>6. EmsPlace(h, i) = MEM_NextHandleAt(mhandles, mem, i)
    BY DEF EmsPlace
  <2> HIDE DEF id, f, mem
  <2>7. f[i] \in Pool
    BY <2>4, <2>5 DEF IsPath
  <2>8. MEM_NextHandleAt(mhandles, mem, i) = f[i]
    BY <2>2, <2>4, <2>5, PathBlock
  <2> QED
    BY <2>6, <2>7, <2>8
<1>5. \A p \in XmsPages : p \in Pool
  BY <1>3, PoolAssumption DEF XmsPages
<1>6. \A p \in EmsPages : p \in Pool
  BY <1>4, PoolAssumption DEF EmsPages
<1> QED
  BY <1>2, <1>5, <1>6

LEMMA Written ==
  ASSUME IInv, NEW contents \in [Pool -> Data], Writes(contents)
  PROVE  IInv'
<1>1. ram' = contents /\ UNCHANGED <<mhandles, xms_handles, emm_handles, vcpi, exited>>
  BY DEF Writes
<1>2. Typed'
  BY <1>1 DEF IInv, Typed
<1> QED
  BY <1>1, <1>2 DEF IInv

LEMMA ProgramsWrite ==
  ASSUME IInv, Programs
  PROVE  IInv'
<1>0. /\ ram \in [Pool -> Data] /\ XmsPages \subseteq Pool /\ EmsPages \subseteq Pool
      /\ vcpi \subseteq Pool
  BY TypesAre, Reached DEF IInv
<1>1. ASSUME NEW places \in SUBSET Pool, Store(places)
      PROVE  IInv'
  <2>1. PICK p \in places, v \in Data : Writes([ram EXCEPT ![p] = v])
    BY <1>1 DEF Store
  <2>2. [ram EXCEPT ![p] = v] \in [Pool -> Data]
    BY <1>0, <2>1
  <2> QED
    BY <2>1, <2>2, Written
<1>2. ASSUME NEW places \in SUBSET Pool, Move(places)
      PROVE  IInv'
  <2>1. PICK p \in places, q \in places : Writes([ram EXCEPT ![p] = ram[q]])
    BY <1>2 DEF Move
  <2>2. [ram EXCEPT ![p] = ram[q]] \in [Pool -> Data]
    BY <1>0, <2>1
  <2> QED
    BY <2>1, <2>2, Written
<1>3. ASSUME ExchangeRegion
      PROVE  IInv'
  <2>1. PICK p \in EmsPages, q \in EmsPages : Writes([ram EXCEPT ![p] = ram[q], ![q] = ram[p]])
    BY <1>3 DEF ExchangeRegion
  <2>2. [ram EXCEPT ![p] = ram[q], ![q] = ram[p]] \in [Pool -> Data]
    BY <1>0, <2>1
  <2> QED
    BY <2>1, <2>2, Written
<1> QED
  BY <1>0, <1>1, <1>2, <1>3 DEF Programs

-----------------------------------------------------------------------------
(* The start, and every step.                                              *)

LEMMA Start ==
  ASSUME Init
  PROVE  IInv
<1> DEFINE empty == [p \in Pool |-> 0]
           enough == EnoughFor(empty, SystemPages)
           n == SystemPages * EmsPage
           new == IF enough THEN MEM_AllocatePages(empty, n, FALSE)
                  ELSE [mem |-> 0, m |-> empty]
           h == EMM_SYSTEM_HANDLE
           x == [g \in XmsHandles |-> [free |-> TRUE, mem |-> -1, size |-> 0, locked |-> 0]]
           e == [g \in EmsHandles |-> [pages |-> NULL_HANDLE, mem |-> 0]]
           none == [b \in AllHandles |-> NoPath]
           r == [pages |-> IF enough THEN SystemPages ELSE NULL_HANDLE, mem |-> new.mem]
<1>1. /\ mhandles = new.m /\ ram = empty /\ xms_handles = x /\ vcpi = {}
      /\ emm_handles = [g \in EmsHandles |->
           [pages |-> IF g = h /\ enough THEN SystemPages ELSE NULL_HANDLE,
            mem |-> IF g = h THEN new.mem ELSE 0]]
      /\ exited = (enough /\ new.mem = 0)
  BY DEF Init
<1>2. h \in EmsHandles /\ SystemPages \in Nat /\ n \in Nat /\ MaxLocks \in Nat
      /\ SystemPages # NULL_HANDLE
  BY NumbersAre, SizesAre DEF EmsHandles, EMM_SYSTEM_HANDLE, NULL_HANDLE
<1>3. empty \in Links /\ ram \in [Pool -> Data] /\ \A p \in Pool : empty[p] = 0
  BY <1>1, ExtendedAssumption DEF Links
<1>4. x \in [XmsHandles -> XmsRecords] /\ e \in [EmsHandles -> EmsRecords]
  BY <1>2 DEF XmsRecords, EmsRecords
<1> HIDE DEF empty
<1>5. Owns(empty, x, e, {}, none)
  <2>1. \A g \in XmsHandles : x[g].free = TRUE
    OBVIOUS
  <2>2. \A g \in EmsHandles : e[g].pages = NULL_HANDLE
    OBVIOUS
  <2> HIDE DEF x, e
  <2>3. ASSUME NEW b \in AllHandles
        PROVE  FirstIn(x, e, {})[b] = 0 /\ SizeIn(x, e, {})[b] = 0
    <3>1. CASE \E g \in XmsHandles : b = <<"xms", g>>
      BY <2>1, <3>1, XmsIs
    <3>2. CASE \E g \in EmsHandles : b = <<"ems", g>>
      BY <2>2, <3>2, EmsIs
    <3>3. CASE \E p \in Pool : b = <<"vcpi", p>>
      BY <3>3, VcpiIs
    <3> QED
      BY <3>1, <3>2, <3>3, HandlesAre
  <2>4. IsPath(empty, 0, 0, NoPath) /\ On(0, NoPath) = {} /\ Straight(0, NoPath)
    BY NoPathIs, PoolIs DEF Straight
  <2>5. \A b \in AllHandles : none[b] = NoPath
    OBVIOUS
  <2> HIDE DEF none
  <2>6. Owned(empty, FirstIn(x, e, {}), SizeIn(x, e, {}), none)
    BY <1>3, <2>3, <2>4, <2>5 DEF Owned
  <2>7. StraightXms(SizeIn(x, e, {}), none)
    BY <2>3, <2>4, <2>5, HandlesAre DEF StraightXms
  <2> QED
    BY <2>6, <2>7 DEF Owns
<1>6. emm_handles = [e EXCEPT ![h] = r]
  BY <1>1, <1>2
<1> HIDE DEF x, e, none, h
<1>7. CASE enough
  <2>0. new = MEM_AllocatePages(empty, n, FALSE) /\ r.pages = SystemPages /\ r.mem = new.mem
    BY <1>7
  <2>1. Allotted(empty, n, FALSE, new)
    BY <1>2, <1>3, <2>0, Allocated
  <2>2. ~(n > MEM_FreeTotal(empty))
    BY <1>2, <1>7, EnoughIs
  <2> HIDE DEF new, n, enough
  <2>3. SizeIn(x, e, {})[<<"ems", h>>] = 0
    BY <1>2, EmsIs DEF e
  <2>4. new.m \in Links /\ new.mem \in {-1, 0} \cup Pool
        /\ \E f : IsPath(new.m, new.mem, n, f)
                  /\ Exchanged(empty, SizeIn(x, e, {})[<<"ems", h>>], none[<<"ems", h>>],
                               new.m, n, f)
    <3>1. CASE new.mem = 0 /\ new.m = empty /\ n = 0
      <4>1. IsPath(empty, 0, 0, NoPath) /\ On(0, NoPath) = {}
        BY NoPathIs, PoolIs
      <4>2. On(SizeIn(x, e, {})[<<"ems", h>>], none[<<"ems", h>>]) = {}
        BY <2>3 DEF On
      <4>3. Exchanged(empty, SizeIn(x, e, {})[<<"ems", h>>], none[<<"ems", h>>],
                      empty, 0, NoPath)
        BY <4>1, <4>2 DEF Exchanged
      <4> QED
        BY <1>3, <3>1, <4>1, <4>3
    <3>2. CASE new.mem \in Pool /\ \E f : Given(empty, n, new.m, new.mem, f)
      <4>1. PICK f : Given(empty, n, new.m, new.mem, f)
        BY <3>2
      <4>2. Exchanged(empty, SizeIn(x, e, {})[<<"ems", h>>], none[<<"ems", h>>], new.m, n, f)
        BY <2>3, <4>1, NewPages
      <4> QED
        BY <3>2, <4>1, <4>2 DEF Given
    <3> QED
      BY <2>1, <2>2, <3>1, <3>2 DEF Allotted
  <2>5. PICK f : /\ IsPath(new.m, new.mem, n, f)
                 /\ Exchanged(empty, SizeIn(x, e, {})[<<"ems", h>>], none[<<"ems", h>>],
                              new.m, n, f)
    BY <2>4
  <2>6. n = (IF r.pages = NULL_HANDLE THEN 0 ELSE r.pages * EmsPage)
        /\ IsPath(new.m, IF r.pages = NULL_HANDLE THEN 0 ELSE r.mem, n, f)
    BY <1>2, <2>0, <2>5 DEF n
  <2>7. r \in EmsRecords
    BY <1>2, <1>7, <2>4 DEF EmsRecords
  <2> HIDE DEF r
  <2>8. \E path : Owns(new.m, x, [e EXCEPT ![h] = r], {}, path)
    BY <1>2, <1>4, <1>5, <2>5, <2>6, EmsSet
  <2>9. emm_handles \in [EmsHandles -> EmsRecords]
    BY <1>4, <1>6, <2>7
  <2>10. Typed
    BY <1>1, <1>3, <1>4, <2>4, <2>9, TypesAre
  <2> QED
    BY <1>1, <1>6, <2>8, <2>10 DEF IInv
<1>8. CASE ~enough
  <2>1. new = [mem |-> 0, m |-> empty] /\ r = [pages |-> NULL_HANDLE, mem |-> 0]
    BY <1>8
  <2>2. emm_handles = e
    BY <1>2, <1>6, <2>1 DEF e
  <2>3. mhandles = empty
    <3>1. mhandles = new.m
      BY <1>1
    <3>2. new = [mem |-> 0, m |-> empty]
      BY <2>1
    <3> HIDE DEF new
    <3>3. new.m = empty
      BY <3>2
    <3> QED
      BY <3>1, <3>3, Zenon
  <2>4. Typed
    BY <1>1, <1>3, <1>4, <2>2, <2>3, TypesAre
  <2> QED
    BY <1>1, <1>5, <2>2, <2>3, <2>4 DEF IInv
<1> QED
  BY <1>7, <1>8

\* Programs ask XMS for at least one kilobyte.
XmsAsked == 0 \notin XmsSizes

LEMMA Step ==
  ASSUME XmsAsked, IInv, [Next]_vars
  PROVE  IInv'
<1>1. CASE Xms
  BY <1>1, XmsAllocate, XmsFree, XmsLocks, XmsResize DEF Xms, XmsAsked
<1>2. Ems => \/ IInv'
             \/ \E pages \in EmsSizes : EMM_AllocateBehindTable(pages)
             \/ \E h \in EmsHandles, pages \in EmsSizes : EMM_ReallocateBehindTable(h, pages)
  BY EmsAllocate, EmsReallocate, EmsRelease DEF Ems
<1>3. CASE Vcpi
  BY <1>3, VcpiAllocate, VcpiFree DEF Vcpi
<1>4. CASE Programs
  BY <1>4, ProgramsWrite
<1>5. CASE UNCHANGED vars
  BY <1>5 DEF vars, IInv, Typed
<1>6. ASSUME NEW pages, LinksBehindTable(pages)
      PROVE  IInv'
  BY <1>6 DEF LinksBehindTable, IInv, Typed
<1>7. CASE Ems
  BY <1>2, <1>6, <1>7 DEF EMM_AllocateBehindTable, EMM_ReallocateBehindTable
<1> QED
  BY <1>1, <1>3, <1>4, <1>5, <1>7 DEF Next

\* Links are written behind the table or they are not.
LEMMA OverrunIs ==
  ASSUME overrun \in BOOLEAN, [Next]_vars
  PROVE  overrun' \in BOOLEAN
<1>1. ASSUME NEW h, NEW pages, NEW new, ResizeEms(h, pages, new)
      PROVE  overrun' = overrun
  BY <1>1 DEF ResizeEms
<1>2. ASSUME NEW contents, Writes(contents)
      PROVE  overrun' = overrun
  BY <1>2 DEF Writes
<1>3. Xms => overrun' = overrun
  BY Zenon DEF Xms, XMS_AllocateMemory, XMS_FreeMemory, XMS_LockMemory, XMS_UnlockMemory,
     XMS_ResizeMemory
<1>4. Ems => overrun' \in {overrun, TRUE}
  BY <1>1, Zenon DEF Ems, EMM_AllocateMemory, EMM_ReallocatePages, EMM_ReleaseMemory,
     EMM_AllocateBehindTable, EMM_ReallocateBehindTable, LinksBehindTable
<1>5. Vcpi => overrun' = overrun
  BY Zenon DEF Vcpi, VCPI_AllocatePage, VCPI_FreePage
<1>6. Programs => overrun' = overrun
  BY <1>2, Zenon DEF Programs, Store, Move, ExchangeRegion
<1> QED
  BY <1>3, <1>4, <1>5, <1>6 DEF Next, vars

-----------------------------------------------------------------------------
(* Every page has one owner.                                               *)

HandleOf(b) == <<b[1], b[2]>>

SizeOf(id) == SizeIn(xms_handles, emm_handles, vcpi)[id]

\* A block of a program is the one of its handle.
LEMMA BlockHas ==
  ASSUME NEW b \in Blocks
  PROVE  \/ \E h \in XmsHandles :
              ~xms_handles[h].free
              /\ b = <<"xms", h, xms_handles[h].mem, PagesFor(xms_handles[h].size)>>
         \/ \E h \in EmsHandles :
              emm_handles[h].pages # NULL_HANDLE
              /\ b = <<"ems", h, emm_handles[h].mem, emm_handles[h].pages * EmsPage>>
         \/ \E p \in vcpi : b = <<"vcpi", p, p, 1>>
BY DEF Blocks, ValidXms, ValidHandle

LEMMA BlockIs ==
  ASSUME Typed, NEW path, Owns(mhandles, xms_handles, emm_handles, vcpi, path),
         NEW b \in Blocks
  PROVE  /\ HandleOf(b) \in AllHandles /\ b[3] \in Int /\ b[4] \in Nat
         /\ b[4] = SizeOf(HandleOf(b))
         /\ IsPath(mhandles, b[3], b[4], path[HandleOf(b)])
         /\ b[1] = "xms" => Straight(b[4], path[HandleOf(b)])
<1>1. /\ xms_handles \in [XmsHandles -> XmsRecords]
      /\ emm_handles \in [EmsHandles -> EmsRecords] /\ vcpi \subseteq Pool
      /\ \A p \in {-1, 0} \cup Pool : p \in Int
  BY TypesAre, PoolIs
<1>2. CASE \E h \in XmsHandles :
             ~xms_handles[h].free
             /\ b = <<"xms", h, xms_handles[h].mem, PagesFor(xms_handles[h].size)>>
  <2>1. PICK h \in XmsHandles :
          ~xms_handles[h].free
          /\ b = <<"xms", h, xms_handles[h].mem, PagesFor(xms_handles[h].size)>>
    BY <1>2
  <2>2. /\ HandleOf(b) = <<"xms", h>> /\ b[3] = xms_handles[h].mem
        /\ b[4] = PagesFor(xms_handles[h].size) /\ <<"xms", h>> \in AllHandles
    BY <2>1, HandlesAre DEF HandleOf
  <2>3. b[3] \in Int
    BY <1>1, <2>2 DEF XmsRecords
  <2>4. /\ FirstIn(xms_handles, emm_handles, vcpi)[<<"xms", h>>] = b[3]
        /\ SizeOf(<<"xms", h>>) = b[4]
    BY <2>1, <2>2, XmsIs DEF SizeOf
  <2> QED
    BY <2>2, <2>3, <2>4, PathOf DEF SizeOf
<1>3. CASE \E h \in EmsHandles :
             emm_handles[h].pages # NULL_HANDLE
             /\ b = <<"ems", h, emm_handles[h].mem, emm_handles[h].pages * EmsPage>>
  <2>1. PICK h \in EmsHandles :
          emm_handles[h].pages # NULL_HANDLE
          /\ b = <<"ems", h, emm_handles[h].mem, emm_handles[h].pages * EmsPage>>
    BY <1>3
  <2>2. /\ HandleOf(b) = <<"ems", h>> /\ b[3] = emm_handles[h].mem /\ b[1] # "xms"
        /\ b[4] = emm_handles[h].pages * EmsPage /\ <<"ems", h>> \in AllHandles
    BY <2>1, HandlesAre DEF HandleOf
  <2>3. b[3] \in Int
    BY <1>1, <2>2 DEF EmsRecords
  <2>4. /\ FirstIn(xms_handles, emm_handles, vcpi)[<<"ems", h>>] = b[3]
        /\ SizeOf(<<"ems", h>>) = b[4]
    BY <2>1, <2>2, EmsIs DEF SizeOf
  <2> QED
    BY <2>2, <2>3, <2>4, PathOf DEF SizeOf
<1>4. CASE \E p \in vcpi : b = <<"vcpi", p, p, 1>>
  <2>1. PICK p \in vcpi : b = <<"vcpi", p, p, 1>>
    BY <1>4
  <2>2. /\ HandleOf(b) = <<"vcpi", p>> /\ b[3] = p /\ b[1] # "xms" /\ p \in Pool
        /\ b[4] = 1 /\ <<"vcpi", p>> \in AllHandles /\ b[3] \in Int
    BY <1>1, <2>1, HandlesAre DEF HandleOf
  <2>3. /\ FirstIn(xms_handles, emm_handles, vcpi)[<<"vcpi", p>>] = b[3]
        /\ SizeOf(<<"vcpi", p>>) = b[4]
    BY <2>1, <2>2, VcpiIs DEF SizeOf
  <2> QED
    BY <2>2, <2>3, PathOf DEF SizeOf
<1> QED
  BY <1>2, <1>3, <1>4, BlockHas

\* A handle has one block.
LEMMA OneBlock ==
  ASSUME NEW b \in Blocks, NEW c \in Blocks, HandleOf(b) = HandleOf(c)
  PROVE  b = c
<1>1. b[1] = c[1] /\ b[2] = c[2]
  BY DEF HandleOf
<1>2. ASSUME NEW d \in Blocks
      PROVE  d = IF d[1] = "xms"
                 THEN <<"xms", d[2], xms_handles[d[2]].mem, PagesFor(xms_handles[d[2]].size)>>
                 ELSE IF d[1] = "ems"
                 THEN <<"ems", d[2], emm_handles[d[2]].mem, emm_handles[d[2]].pages * EmsPage>>
                 ELSE <<"vcpi", d[2], d[2], 1>>
  <2>1. CASE \E h \in XmsHandles :
               d = <<"xms", h, xms_handles[h].mem, PagesFor(xms_handles[h].size)>>
    BY <2>1
  <2>2. CASE \E h \in EmsHandles :
               d = <<"ems", h, emm_handles[h].mem, emm_handles[h].pages * EmsPage>>
    BY <2>2
  <2>3. CASE \E p \in vcpi : d = <<"vcpi", p, p, 1>>
    BY <2>3
  <2> QED
    BY <2>1, <2>2, <2>3, BlockHas
<1> QED
  BY <1>1, <1>2, Zenon

\* A handle with pages has a block.
LEMMA BlockOf ==
  ASSUME vcpi \subseteq Pool, NEW id \in AllHandles, SizeOf(id) # 0
  PROVE  \E b \in Blocks : HandleOf(b) = id
<1>1. ASSUME NEW h \in XmsHandles, id = <<"xms", h>>
      PROVE  \E b \in Blocks : HandleOf(b) = id
  <2>1. ~xms_handles[h].free
    BY <1>1, XmsIs DEF SizeOf
  <2>2. <<"xms", h, xms_handles[h].mem, PagesFor(xms_handles[h].size)>> \in Blocks
    BY <2>1 DEF Blocks, ValidXms
  <2> QED
    BY <1>1, <2>2 DEF HandleOf
<1>2. ASSUME NEW h \in EmsHandles, id = <<"ems", h>>
      PROVE  \E b \in Blocks : HandleOf(b) = id
  <2>1. emm_handles[h].pages # NULL_HANDLE
    BY <1>2, EmsIs DEF SizeOf
  <2>2. <<"ems", h, emm_handles[h].mem, emm_handles[h].pages * EmsPage>> \in Blocks
    BY <2>1 DEF Blocks, ValidHandle
  <2> QED
    BY <1>2, <2>2 DEF HandleOf
<1>3. ASSUME NEW p \in Pool, id = <<"vcpi", p>>
      PROVE  \E b \in Blocks : HandleOf(b) = id
  <2>1. p \in vcpi
    BY <1>3, VcpiIs DEF SizeOf
  <2>2. <<"vcpi", p, p, 1>> \in Blocks
    BY <2>1 DEF Blocks
  <2> QED
    BY <1>3, <2>2 DEF HandleOf
<1> QED
  BY <1>1, <1>2, <1>3, HandlesAre

LEMMA StraightBlock ==
  ASSUME NEW m, NEW h \in Int, NEW n \in Nat, NEW f, IsPath(m, h, n, f), Straight(n, f)
  PROVE  On(n, f) = h .. h + n - 1
<1>1. ASSUME NEW p
      PROVE  p \in On(n, f) <=> p \in h .. h + n - 1
  <2>1. ASSUME p \in On(n, f)
        PROVE  p \in h .. h + n - 1
    <3>1. PICK i \in 0 .. n - 1 : p = f[i]
      BY <2>1 DEF On
    <3>2. f[i] = h + i
      BY <3>1 DEF IsPath, Straight
    <3> QED
      BY <3>1, <3>2
  <2>2. ASSUME p \in h .. h + n - 1
        PROVE  p \in On(n, f)
    <3> DEFINE i == p - h
    <3>1. i \in 0 .. n - 1 /\ n > 0 /\ p = h + i
      BY <2>2
    <3> HIDE DEF i
    <3>2. f[i] = h + i
      BY <3>1 DEF IsPath, Straight
    <3> QED
      BY <3>1, <3>2 DEF On
  <2> QED
    BY <2>1, <2>2
<1> QED
  BY <1>1

LEMMA OwnersFollow ==
  ASSUME IInv, overrun \in BOOLEAN
  PROVE  EveryPageHasOneOwner
<1>1. PICK path : Owns(mhandles, xms_handles, emm_handles, vcpi, path)
  BY DEF IInv
<1>2. Typed /\ vcpi \subseteq Pool
  BY TypesAre DEF IInv
<1>3. ASSUME NEW b \in Blocks
      PROVE  /\ HandleOf(b) \in AllHandles /\ b[4] = SizeOf(HandleOf(b)) /\ b[4] \in Nat
             /\ IsPath(mhandles, b[3], b[4], path[HandleOf(b)])
             /\ Block(mhandles, b[3]) = On(SizeOf(HandleOf(b)), path[HandleOf(b)])
             /\ MEM_AllocatedPages(mhandles, b[3]) = b[4]
  BY <1>1, <1>2, BlockIs, PathBlock
<1>4. \A b, c \in AllHandles :
        b # c => On(SizeOf(b), path[b]) \cap On(SizeOf(c), path[c]) = {}
  BY <1>1 DEF Owns, Owned, SizeOf
<1>5. \A p \in Pool : mhandles[p] # 0 => \E b \in AllHandles : p \in On(SizeOf(b), path[b])
  BY <1>1 DEF Owns, Owned, SizeOf
<1>6. ASSUME NEW b \in Blocks, NEW c \in Blocks, b # c
      PROVE  Block(mhandles, b[3]) \cap Block(mhandles, c[3]) = {}
  <2>1. HandleOf(b) # HandleOf(c)
    BY <1>6, OneBlock
  <2> QED
    BY <1>3, <1>4, <2>1
<1>7. ASSUME NEW b \in Blocks, b[1] = "xms"
      PROVE  Block(mhandles, b[3]) = b[3] .. b[3] + b[4] - 1
  <2> DEFINE h == b[3]
             n == b[4]
             f == path[HandleOf(b)]
  <2>1. h \in Int /\ n \in Nat /\ IsPath(mhandles, h, n, f) /\ Straight(n, f)
    BY <1>1, <1>2, <1>7, BlockIs
  <2>2. Block(mhandles, h) = On(n, f)
    BY <1>3
  <2> HIDE DEF h, n, f
  <2>3. Block(mhandles, h) = h .. h + n - 1
    BY <2>1, <2>2, StraightBlock
  <2> QED
    BY <2>3 DEF h, n
<1>8. ASSUME NEW p
      PROVE  p \in UNION {Block(mhandles, b[3]) : b \in Blocks}
               <=> p \in Pool \ FreePages(mhandles)
  <2>1. ASSUME NEW b \in Blocks, p \in Block(mhandles, b[3])
        PROVE  p \in Pool /\ mhandles[p] # 0
    <3> DEFINE h == b[3]
               n == b[4]
               f == path[HandleOf(b)]
    <3>1. n \in Nat /\ IsPath(mhandles, h, n, f) /\ p \in On(n, f)
      BY <1>3, <2>1
    <3> HIDE DEF h, n, f
    <3> QED
      BY <3>1, OnIsLinked
  <2>2. ASSUME p \in Pool, mhandles[p] # 0
        PROVE  \E b \in Blocks : p \in Block(mhandles, b[3])
    <3>1. PICK id \in AllHandles : p \in On(SizeOf(id), path[id])
      BY <1>5, <2>2
    <3>2. SizeOf(id) # 0
      BY <3>1 DEF On
    <3>3. PICK b \in Blocks : HandleOf(b) = id
      BY <1>2, <3>2, BlockOf
    <3> QED
      BY <1>3, <3>1, <3>3
  <2>3. p \in FreePages(mhandles) <=> p \in Pool /\ mhandles[p] = 0
    BY DEF FreePages
  <2>4. p \in UNION {Block(mhandles, b[3]) : b \in Blocks}
          <=> \E b \in Blocks : p \in Block(mhandles, b[3])
    OBVIOUS
  <2> QED
    BY <2>1, <2>2, <2>3, <2>4
<1>9. UNION {Block(mhandles, b[3]) : b \in Blocks} = Pool \ FreePages(mhandles)
  BY <1>8
<1>10. TypeOK
  BY <1>2 DEF TypeOK, Typed, XmsRecords, EmsRecords
<1> QED
  BY <1>3, <1>6, <1>7, <1>9, <1>10 DEF EveryPageHasOneOwner

\* Until links are written behind the table, every page that is linked belongs to
\* one block, each block has as many pages as its program was given and those of
\* XMS are in one piece, for pools and handle tables of any size, when programs
\* ask XMS for at least one kilobyte (memory.cpp, xms.cpp:146 and ems.cpp).
THEOREM PagesAreOwned ==
  ASSUME XmsAsked
  PROVE  Spec => []EveryPageHasOneOwner
<1>1. Init => IInv /\ overrun \in BOOLEAN
  BY Start DEF Init
<1>2. IInv /\ overrun \in BOOLEAN /\ [Next]_vars => (IInv /\ overrun \in BOOLEAN)'
  BY Step, OverrunIs
<1>3. IInv /\ overrun \in BOOLEAN => EveryPageHasOneOwner
  BY OwnersFollow
<1> QED
  BY <1>1, <1>2, <1>3, PTL DEF Spec

-----------------------------------------------------------------------------
(* What programs see through their handles, said of paths.                 *)

\* A handle that is in use shows the contents of the pages of its path.
InUse(x, e, v, b) ==
  IF b[1] = "xms" THEN ~x[b[2]].free
  ELSE IF b[1] = "ems" THEN e[b[2]].pages # NULL_HANDLE
  ELSE b[2] \in v

Inside(r, n, f) == [i \in 1 .. n |-> r[f[i - 1]]]

\* Seen of one handle, with all that it depends on as parameters.
SeenOf(m, r, x, e, v, b) ==
  IF ~InUse(x, e, v, b) THEN None
  ELSE IF b[1] = "xms"
       THEN [i \in 1 .. PagesFor(x[b[2]].size) |-> r[x[b[2]].mem + (i - 1)]]
  ELSE IF b[1] = "ems"
       THEN [i \in 1 .. e[b[2]].pages * EmsPage |->
               r[MEM_NextHandleAt(m, e[b[2]].mem, i - 1)]]
  ELSE <<r[b[2]]>>

LEMMA SeenNow ==
  ASSUME NEW id \in AllHandles
  PROVE  Seen[id] = SeenOf(mhandles, ram, xms_handles, emm_handles, vcpi, id)
<1>0. Seen[id] = Contents(id[1], id[2])
  BY DEF Seen
<1>1. CASE \E h \in XmsHandles : id = <<"xms", h>>
  <2>1. PICK h \in XmsHandles : id = <<"xms", h>>
    BY <1>1
  <2>2. id[1] = "xms" /\ id[2] = h
    BY <2>1
  <2> QED
    BY <1>0, <2>2 DEF Contents, SeenOf, InUse, ValidXms, XmsPlace
<1>2. CASE \E h \in EmsHandles : id = <<"ems", h>>
  <2>1. PICK h \in EmsHandles : id = <<"ems", h>>
    BY <1>2
  <2>2. id[1] = "ems" /\ id[2] = h /\ "ems" # "xms"
    BY <2>1
  <2> QED
    BY <1>0, <2>2 DEF Contents, SeenOf, InUse, ValidHandle, EmsPlace
<1>3. CASE \E p \in Pool : id = <<"vcpi", p>>
  <2>1. PICK p \in Pool : id = <<"vcpi", p>>
    BY <1>3
  <2>2. id[1] = "vcpi" /\ id[2] = p /\ "vcpi" # "xms" /\ "vcpi" # "ems"
    BY <2>1
  <2> QED
    BY <1>0, <2>2 DEF Contents, SeenOf, InUse
<1> QED
  BY <1>1, <1>2, <1>3, HandlesAre

LEMMA SeenNext ==
  ASSUME NEW id \in AllHandles
  PROVE  Seen'[id] = SeenOf(mhandles', ram', xms_handles', emm_handles', vcpi', id)
<1>0. Seen'[id] = Contents(id[1], id[2])'
  BY DEF Seen
<1>1. CASE \E h \in XmsHandles : id = <<"xms", h>>
  <2>1. PICK h \in XmsHandles : id = <<"xms", h>>
    BY <1>1
  <2>2. id[1] = "xms" /\ id[2] = h
    BY <2>1
  <2> QED
    BY <1>0, <2>2 DEF Contents, SeenOf, InUse, ValidXms, XmsPlace
<1>2. CASE \E h \in EmsHandles : id = <<"ems", h>>
  <2>1. PICK h \in EmsHandles : id = <<"ems", h>>
    BY <1>2
  <2>2. id[1] = "ems" /\ id[2] = h /\ "ems" # "xms"
    BY <2>1
  <2> QED
    BY <1>0, <2>2 DEF Contents, SeenOf, InUse, ValidHandle, EmsPlace
<1>3. CASE \E p \in Pool : id = <<"vcpi", p>>
  <2>1. PICK p \in Pool : id = <<"vcpi", p>>
    BY <1>3
  <2>2. id[1] = "vcpi" /\ id[2] = p /\ "vcpi" # "xms" /\ "vcpi" # "ems"
    BY <2>1
  <2> QED
    BY <1>0, <2>2 DEF Contents, SeenOf, InUse
<1> QED
  BY <1>1, <1>2, <1>3, HandlesAre

\* The three ways to count the pages of a block all follow its path.
LEMMA SeenIs ==
  ASSUME NEW m, NEW r, NEW x \in [XmsHandles -> XmsRecords],
         NEW e \in [EmsHandles -> EmsRecords], NEW v, NEW path, Owns(m, x, e, v, path),
         NEW id \in AllHandles, NEW n, n = SizeIn(x, e, v)[id]
  PROVE  /\ InUse(x, e, v, id) => SeenOf(m, r, x, e, v, id) = Inside(r, n, path[id])
         /\ ~InUse(x, e, v, id) => SeenOf(m, r, x, e, v, id) = None
         /\ ~InUse(x, e, v, id) => n = 0
<1> DEFINE f == path[id]
           first == FirstIn(x, e, v)[id]
<1>0. /\ n \in Nat /\ IsPath(m, first, n, f)
      /\ \A h \in XmsHandles : id = <<"xms", h>> => Straight(n, f)
  BY PathOf
<1>1. CASE \E h \in XmsHandles : id = <<"xms", h>>
  <2>1. PICK h \in XmsHandles : id = <<"xms", h>>
    BY <1>1
  <2>2. id[1] = "xms" /\ id[2] = h
    BY <2>1
  <2>3. first = (IF x[h].free THEN 0 ELSE x[h].mem)
        /\ n = (IF x[h].free THEN 0 ELSE PagesFor(x[h].size))
    BY <2>1, XmsIs
  <2>4. x[h].free \in BOOLEAN /\ x[h].mem \in Int
    <3>1. x[h].free \in BOOLEAN /\ x[h].mem \in {-1, 0} \cup Pool
      BY XmsTypes
    <3>2. \A p \in {-1, 0} \cup Pool : p \in Int
      BY PoolIs
    <3> QED
      BY <3>1, <3>2
  <2>5. Straight(n, f)
    BY <1>0, <2>1
  <2> HIDE DEF f, first
  <2>6. CASE ~x[h].free
    <3>1. first = x[h].mem /\ n = PagesFor(x[h].size)
      BY <2>3, <2>6
    <3>2. ASSUME NEW i \in 1 .. n
          PROVE  x[h].mem + (i - 1) = f[i - 1]
      <4>1. n > 0 /\ i - 1 \in 0 .. n - 1
        BY <1>0
      <4>2. f[0] = first
        BY <1>0, <4>1 DEF IsPath
      <4>3. f[i - 1] = f[0] + (i - 1)
        BY <2>5, <4>1 DEF Straight
      <4> QED
        BY <3>1, <4>2, <4>3
    <3>3. SeenOf(m, r, x, e, v, id) = [i \in 1 .. n |-> r[x[h].mem + (i - 1)]]
      BY <2>2, <2>6, <3>1 DEF SeenOf, InUse
    <3>4. InUse(x, e, v, id)
      BY <2>2, <2>6 DEF InUse
    <3>5. \A i \in 1 .. n : r[x[h].mem + (i - 1)] = r[f[i - 1]]
      BY <3>2
    <3>6. SeenOf(m, r, x, e, v, id) = Inside(r, n, f)
      BY <3>3, <3>5 DEF Inside
    <3> QED
      BY <3>4, <3>6 DEF f
  <2>7. CASE x[h].free
    <3>1. ~InUse(x, e, v, id) /\ n = 0
      BY <2>2, <2>3, <2>7 DEF InUse
    <3> QED
      BY <3>1 DEF SeenOf
  <2> QED
    BY <2>6, <2>7
<1>2. CASE \E h \in EmsHandles : id = <<"ems", h>>
  <2>1. PICK h \in EmsHandles : id = <<"ems", h>>
    BY <1>2
  <2>2. id[1] = "ems" /\ id[2] = h /\ "ems" # "xms"
    BY <2>1
  <2>3. first = (IF e[h].pages = NULL_HANDLE THEN 0 ELSE e[h].mem)
        /\ n = (IF e[h].pages = NULL_HANDLE THEN 0 ELSE e[h].pages * EmsPage)
    BY <2>1, EmsIs
  <2> HIDE DEF f, first
  <2>4. CASE e[h].pages # NULL_HANDLE
    <3>1. first = e[h].mem /\ n = e[h].pages * EmsPage
      BY <2>3, <2>4
    <3>2. ASSUME NEW i \in 1 .. n
          PROVE  MEM_NextHandleAt(m, e[h].mem, i - 1) = f[i - 1]
      <4>1. i - 1 \in 0 .. n - 1
        BY <1>0
      <4>2. \A j \in 0 .. n - 1 : MEM_NextHandleAt(m, first, j) = f[j]
        BY <1>0, PathBlock, ZenonT(40)
      <4> QED
        BY <3>1, <4>1, <4>2
    <3>3. SeenOf(m, r, x, e, v, id)
            = [i \in 1 .. n |-> r[MEM_NextHandleAt(m, e[h].mem, i - 1)]]
      BY <2>2, <2>4, <3>1 DEF SeenOf, InUse
    <3>4. InUse(x, e, v, id)
      BY <2>2, <2>4 DEF InUse
    <3>5. \A i \in 1 .. n : r[MEM_NextHandleAt(m, e[h].mem, i - 1)] = r[f[i - 1]]
      BY <3>2
    <3>6. SeenOf(m, r, x, e, v, id) = Inside(r, n, f)
      BY <3>3, <3>5 DEF Inside
    <3> QED
      BY <3>4, <3>6 DEF f
  <2>5. CASE e[h].pages = NULL_HANDLE
    <3>1. ~InUse(x, e, v, id) /\ n = 0
      BY <2>2, <2>3, <2>5 DEF InUse
    <3> QED
      BY <3>1 DEF SeenOf
  <2> QED
    BY <2>4, <2>5
<1>3. CASE \E p \in Pool : id = <<"vcpi", p>>
  <2>1. PICK p \in Pool : id = <<"vcpi", p>>
    BY <1>3
  <2>2. id[1] = "vcpi" /\ id[2] = p /\ "vcpi" # "xms" /\ "vcpi" # "ems"
    BY <2>1
  <2>3. first = (IF p \in v THEN p ELSE 0) /\ n = (IF p \in v THEN 1 ELSE 0)
    BY <2>1, VcpiIs
  <2> HIDE DEF f, first
  <2>4. CASE p \in v
    <3>1. first = p /\ n = 1
      BY <2>3, <2>4
    <3>2. f[0] = p
      BY <1>0, <3>1 DEF IsPath
    <3>3. SeenOf(m, r, x, e, v, id) = <<r[p]>>
      BY <2>2, <2>4 DEF SeenOf, InUse
    <3>4. InUse(x, e, v, id)
      BY <2>2, <2>4 DEF InUse
    <3>5. Inside(r, n, f) = [i \in 1 .. 1 |-> r[p]]
      <4>1. \A i \in 1 .. 1 : r[f[i - 1]] = r[p]
        BY <3>2
      <4> QED
        BY <3>1, <4>1 DEF Inside
    <3>6. <<r[p]>> = [i \in 1 .. 1 |-> r[p]]
      OBVIOUS
    <3> QED
      BY <3>3, <3>4, <3>5, <3>6 DEF f
  <2>5. CASE p \notin v
    <3>1. ~InUse(x, e, v, id) /\ n = 0
      BY <2>2, <2>3, <2>5 DEF InUse
    <3> QED
      BY <3>1 DEF SeenOf
  <2> QED
    BY <2>4, <2>5
<1> QED
  BY <1>1, <1>2, <1>3, HandlesAre

\* What is in a block is a sequence of contents, and not None.
LEMMA ContentsAre ==
  ASSUME NEW m, NEW h, NEW n \in Nat, NEW f, IsPath(m, h, n, f), NEW r \in [Pool -> Data]
  PROVE  /\ Inside(r, n, f) # None
         /\ DOMAIN Inside(r, n, f) = 1 .. n
         /\ \A i \in 1 .. n : Inside(r, n, f)[i] = r[f[i - 1]]
<1>1. \A i \in 1 .. n : r[f[i - 1]] \in Data
  BY DEF IsPath
<1>2. Inside(r, n, f) \in [1 .. n -> Data]
  BY <1>1 DEF Inside
<1>3. Inside(r, n, f) \in Seq(Data)
  BY <1>2
<1>4. None \notin Seq(Data)
  BY ExtendedAssumption
<1> QED
  BY <1>3, <1>4 DEF Inside

\* A path is known by its first page and the links.
LEMMA PathsAgree ==
  ASSUME NEW m, NEW m2, NEW h, NEW n \in Nat, NEW f, NEW g, IsPath(m, h, n, f),
         IsPath(m2, h, n, g), \A p \in On(n, f) : m2[p] = m[p]
  PROVE  \A i \in 0 .. n - 1 : g[i] = f[i]
<1>1. IsPath(m2, h, n, f)
  BY SamePath
<1>2. \A i \in 0 .. n - 1 : MEM_NextHandleAt(m2, h, i) = f[i]
  BY <1>1, PathBlock
<1>3. \A i \in 0 .. n - 1 : MEM_NextHandleAt(m2, h, i) = g[i]
  BY PathBlock
<1> QED
  BY <1>2, <1>3

-----------------------------------------------------------------------------
(* A step of one handle.                                                   *)

\* Pages that belong to other blocks keep their links and contents, and the
\* other handles keep theirs.
Apart(id, m, r, x, e, v, path, m2, r2, x2, e2, v2) ==
  /\ \A p \in Pool : p \notin On(SizeIn(x, e, v)[id], path[id]) /\ m[p] # 0
       => m2[p] = m[p] /\ r2[p] = r[p]
  /\ \A b \in AllHandles \ {id} : /\ FirstIn(x2, e2, v2)[b] = FirstIn(x, e, v)[b]
                                   /\ SizeIn(x2, e2, v2)[b] = SizeIn(x, e, v)[b]
                                   /\ InUse(x2, e2, v2, b) = InUse(x, e, v, b)

LEMMA OthersSee ==
  ASSUME NEW m, NEW r, NEW x \in [XmsHandles -> XmsRecords],
         NEW e \in [EmsHandles -> EmsRecords], NEW v, NEW path, Owns(m, x, e, v, path),
         NEW m2, NEW r2, NEW x2 \in [XmsHandles -> XmsRecords],
         NEW e2 \in [EmsHandles -> EmsRecords], NEW v2, NEW path2, Owns(m2, x2, e2, v2, path2),
         NEW id \in AllHandles, Apart(id, m, r, x, e, v, path, m2, r2, x2, e2, v2),
         NEW b \in AllHandles \ {id}
  PROVE  SeenOf(m2, r2, x2, e2, v2, b) = SeenOf(m, r, x, e, v, b)
<1> DEFINE n == SizeIn(x, e, v)[b]
           f == path[b]
           g == path2[b]
           first == FirstIn(x, e, v)[b]
<1>1. n = SizeIn(x2, e2, v2)[b] /\ first = FirstIn(x2, e2, v2)[b]
      /\ (InUse(x2, e2, v2, b) = InUse(x, e, v, b))
  BY DEF Apart
<1>2. n \in Nat /\ IsPath(m, first, n, f) /\ IsPath(m2, first, n, g)
  BY <1>1, PathOf
<1>3. On(n, f) \cap On(SizeIn(x, e, v)[id], path[id]) = {}
  BY DEF Owns, Owned
<1>4. /\ InUse(x, e, v, b) => SeenOf(m, r, x, e, v, b) = Inside(r, n, f)
      /\ ~InUse(x, e, v, b) => SeenOf(m, r, x, e, v, b) = None
  BY SeenIs
<1>5. /\ InUse(x, e, v, b) => SeenOf(m2, r2, x2, e2, v2, b) = Inside(r2, n, g)
      /\ ~InUse(x, e, v, b) => SeenOf(m2, r2, x2, e2, v2, b) = None
  BY <1>1, SeenIs
<1> HIDE DEF n, f, g, first
<1>6. \A p \in On(n, f) : m2[p] = m[p] /\ r2[p] = r[p]
  <2>1. \A p \in On(n, f) : p \in Pool /\ m[p] # 0
    BY <1>2, OnIsLinked
  <2> QED
    BY <1>3, <2>1 DEF Apart
<1>7. \A i \in 0 .. n - 1 : g[i] = f[i]
  <2>1. \A p \in On(n, f) : m2[p] = m[p]
    BY <1>6
  <2> QED
    BY <1>2, <2>1, PathsAgree
<1>8. Inside(r2, n, g) = Inside(r, n, f)
  <2>1. ASSUME NEW i \in 1 .. n
        PROVE  r2[g[i - 1]] = r[f[i - 1]]
    <3>1. i - 1 \in 0 .. n - 1
      BY <1>2
    <3>2. f[i - 1] \in On(n, f) /\ g[i - 1] = f[i - 1]
      BY <1>7, <3>1 DEF On
    <3> QED
      BY <1>6, <3>2
  <2> QED
    BY <2>1 DEF Inside
<1> QED
  BY <1>4, <1>5, <1>8

\* What a call may do to what its own handle shows.
OwnStep(seen, seen2) ==
  \/ seen2 = seen
  \/ seen = None /\ seen2 # None
  \/ seen # None /\ seen2 = None
  \/ /\ seen # None /\ seen2 # None
     /\ \A i \in DOMAIN seen \cap DOMAIN seen2 : seen2[i] = seen[i]

\* When nobody else sees a change, this is a step of HandleMemory.
LEMMA OneSees ==
  ASSUME NEW id \in AllHandles, OwnStep(Seen[id], Seen'[id]),
         \A b \in AllHandles \ {id} : Seen'[b] = Seen[b]
  PROVE  [Memory!HandleNext]_Seen
<1>1. CASE Seen'[id] = Seen[id]
  <2>1. \A b \in AllHandles : Seen'[b] = Seen[b]
    BY <1>1
  <2>2. Seen' = Seen
    <3>1. Seen = [b \in AllHandles |-> Seen[b]]
      BY DEF Seen
    <3>2. Seen' = [b \in AllHandles |-> Seen'[b]]
      BY DEF Seen
    <3> QED
      BY <2>1, <3>1, <3>2
  <2> QED
    BY <2>2
<1>2. CASE Seen'[id] # Seen[id]
  <2>1. Memory!Changed = {id}
    BY <1>2 DEF Memory!Changed
  <2>2. Memory!Get(id) \/ Memory!GiveBack(id) \/ Memory!Resize(id)
    BY <1>2 DEF OwnStep, Memory!Get, Memory!GiveBack, Memory!Resize, Memory!Used
  <2> QED
    BY <2>1, <2>2 DEF Memory!HandleNext
<1> QED
  BY <1>1, <1>2

\* The same for a step of the tables.
LEMMA OneHandleSees ==
  ASSUME IInv, IInv', NEW path, Owns(mhandles, xms_handles, emm_handles, vcpi, path),
         NEW id \in AllHandles,
         Apart(id, mhandles, ram, xms_handles, emm_handles, vcpi, path,
               mhandles', ram', xms_handles', emm_handles', vcpi'),
         OwnStep(SeenOf(mhandles, ram, xms_handles, emm_handles, vcpi, id),
                 SeenOf(mhandles', ram', xms_handles', emm_handles', vcpi', id))
  PROVE  [Memory!HandleNext]_Seen
<1>1. /\ xms_handles \in [XmsHandles -> XmsRecords]
      /\ emm_handles \in [EmsHandles -> EmsRecords]
  BY TypesAre DEF IInv
<1>2. /\ xms_handles' \in [XmsHandles -> XmsRecords]
      /\ emm_handles' \in [EmsHandles -> EmsRecords]
  BY DEF IInv, Typed, XmsRecords, EmsRecords
<1>3. PICK path2 : Owns(mhandles', xms_handles', emm_handles', vcpi', path2)
  BY DEF IInv
<1>4. ASSUME NEW b \in AllHandles \ {id}
      PROVE  Seen'[b] = Seen[b]
  BY <1>1, <1>2, <1>3, OthersSee, SeenNow, SeenNext
<1>5. OwnStep(Seen[id], Seen'[id])
  BY SeenNow, SeenNext
<1> QED
  BY <1>4, <1>5, OneSees

\* A block that is in use before and after a call has the same contents as far
\* as both paths go.
SameContents(r, n, f, r2, n2, f2) == \A i \in 0 .. n - 1 : i < n2 => r2[f2[i]] = r[f[i]]

LEMMA OwnSees ==
  ASSUME NEW m, NEW r \in [Pool -> Data], NEW x \in [XmsHandles -> XmsRecords],
         NEW e \in [EmsHandles -> EmsRecords], NEW v, NEW path, Owns(m, x, e, v, path),
         NEW m2, NEW r2 \in [Pool -> Data], NEW x2 \in [XmsHandles -> XmsRecords],
         NEW e2 \in [EmsHandles -> EmsRecords], NEW v2, NEW path2, Owns(m2, x2, e2, v2, path2),
         NEW id \in AllHandles,
         InUse(x, e, v, id) /\ InUse(x2, e2, v2, id)
           => \E f2 : /\ IsPath(m2, FirstIn(x2, e2, v2)[id], SizeIn(x2, e2, v2)[id], f2)
                      /\ SameContents(r, SizeIn(x, e, v)[id], path[id],
                                      r2, SizeIn(x2, e2, v2)[id], f2)
  PROVE  OwnStep(SeenOf(m, r, x, e, v, id), SeenOf(m2, r2, x2, e2, v2, id))
<1> DEFINE n == SizeIn(x, e, v)[id]
           n2 == SizeIn(x2, e2, v2)[id]
           f == path[id]
           g == path2[id]
           seen == SeenOf(m, r, x, e, v, id)
           seen2 == SeenOf(m2, r2, x2, e2, v2, id)
           first == FirstIn(x, e, v)[id]
           first2 == FirstIn(x2, e2, v2)[id]
           used == InUse(x, e, v, id)
           used2 == InUse(x2, e2, v2, id)
<1>1. n \in Nat /\ IsPath(m, first, n, f) /\ n2 \in Nat /\ IsPath(m2, first2, n2, g)
  BY PathOf
<1>2. (used => seen = Inside(r, n, f)) /\ (~used => seen = None)
  BY SeenIs
<1>3. (used2 => seen2 = Inside(r2, n2, g)) /\ (~used2 => seen2 = None)
  BY SeenIs
<1>4. used /\ used2 => \E f2 : IsPath(m2, first2, n2, f2) /\ SameContents(r, n, f, r2, n2, f2)
  OBVIOUS
<1> HIDE DEF n, n2, f, g, seen, seen2, first, first2, used, used2
<1>5. /\ Inside(r, n, f) # None /\ DOMAIN Inside(r, n, f) = 1 .. n
      /\ \A i \in 1 .. n : Inside(r, n, f)[i] = r[f[i - 1]]
  BY <1>1, ContentsAre
<1>6. /\ Inside(r2, n2, g) # None /\ DOMAIN Inside(r2, n2, g) = 1 .. n2
      /\ \A i \in 1 .. n2 : Inside(r2, n2, g)[i] = r2[g[i - 1]]
  BY <1>1, ContentsAre
<1>7. CASE used /\ used2
  <2>1. PICK f2 : IsPath(m2, first2, n2, f2) /\ SameContents(r, n, f, r2, n2, f2)
    BY <1>4, <1>7
  <2>2. \A i \in 0 .. n2 - 1 : f2[i] = g[i]
    BY <1>1, <2>1, PathsAgree
  <2>3. ASSUME NEW i \in 1 .. n, i \in 1 .. n2
        PROVE  Inside(r2, n2, g)[i] = Inside(r, n, f)[i]
    <3>1. i - 1 \in 0 .. n - 1 /\ i - 1 \in 0 .. n2 - 1 /\ i - 1 < n2
      BY <1>1, <2>3
    <3>2. r2[f2[i - 1]] = r[f[i - 1]] /\ f2[i - 1] = g[i - 1]
      BY <2>1, <2>2, <3>1 DEF SameContents
    <3> QED
      BY <1>5, <1>6, <2>3, <3>2
  <2>4. seen = Inside(r, n, f) /\ seen2 = Inside(r2, n2, g)
    BY <1>2, <1>3, <1>7
  <2>5. \A i \in DOMAIN seen \cap DOMAIN seen2 : seen2[i] = seen[i]
    BY <1>5, <1>6, <2>3, <2>4
  <2> QED
    BY <1>5, <1>6, <2>4, <2>5 DEF OwnStep, seen, seen2
<1>8. CASE ~used \/ ~used2
  <2>1. \/ seen2 = seen
        \/ seen = None /\ seen2 # None
        \/ seen # None /\ seen2 = None
    BY <1>2, <1>3, <1>5, <1>6, <1>8
  <2> QED
    BY <2>1 DEF OwnStep, seen, seen2
<1> QED
  BY <1>7, <1>8

\* A call for one handle is a step of HandleMemory when it leaves the pages of
\* the others and does not change the contents that its own block keeps.
LEMMA CallMaps ==
  ASSUME IInv, IInv', NEW path, Owns(mhandles, xms_handles, emm_handles, vcpi, path),
         NEW id \in AllHandles,
         Apart(id, mhandles, ram, xms_handles, emm_handles, vcpi, path,
               mhandles', ram', xms_handles', emm_handles', vcpi'),
         InUse(xms_handles, emm_handles, vcpi, id)
           /\ InUse(xms_handles', emm_handles', vcpi', id)
           => \E f2 : /\ IsPath(mhandles', FirstIn(xms_handles', emm_handles', vcpi')[id],
                                SizeIn(xms_handles', emm_handles', vcpi')[id], f2)
                      /\ SameContents(ram, SizeIn(xms_handles, emm_handles, vcpi)[id], path[id],
                                      ram', SizeIn(xms_handles', emm_handles', vcpi')[id], f2)
  PROVE  [Memory!HandleNext]_Seen
<1>1. /\ xms_handles \in [XmsHandles -> XmsRecords] /\ ram \in [Pool -> Data]
      /\ emm_handles \in [EmsHandles -> EmsRecords]
  BY TypesAre DEF IInv
<1>2. /\ xms_handles' \in [XmsHandles -> XmsRecords] /\ ram' \in [Pool -> Data]
      /\ emm_handles' \in [EmsHandles -> EmsRecords]
  BY DEF IInv, Typed, XmsRecords, EmsRecords
<1>3. PICK path2 : Owns(mhandles', xms_handles', emm_handles', vcpi', path2)
  BY DEF IInv
<1>4. OwnStep(SeenOf(mhandles, ram, xms_handles, emm_handles, vcpi, id),
              SeenOf(mhandles', ram', xms_handles', emm_handles', vcpi', id))
  BY <1>1, <1>2, <1>3, OwnSees
<1> QED
  BY <1>4, OneHandleSees

LEMMA KeptLinks ==
  ASSUME NEW m, NEW n, NEW f, NEW m2, NEW n2, NEW f2, Exchanged(m, n, f, m2, n2, f2),
         NEW p \in Pool, p \notin On(n, f), m[p] # 0
  PROVE  m2[p] = m[p]
BY DEF Exchanged

\* The three kinds of calls leave the other handles.
LEMMA XmsApart ==
  ASSUME NEW x \in [XmsHandles -> XmsRecords], NEW h \in XmsHandles, NEW r,
         NEW m, NEW c, NEW e, NEW v, NEW path, NEW m2, NEW c2,
         \A p \in Pool : p \notin On(SizeIn(x, e, v)[<<"xms", h>>], path[<<"xms", h>>])
           /\ m[p] # 0 => m2[p] = m[p] /\ c2[p] = c[p]
  PROVE  Apart(<<"xms", h>>, m, c, x, e, v, path, m2, c2, [x EXCEPT ![h] = r], e, v)
<1> DEFINE x2 == [x EXCEPT ![h] = r]
<1>1. \A g \in XmsHandles : g # h => x2[g] = x[g]
  OBVIOUS
<1> HIDE DEF x2
<1>2. ASSUME NEW b \in AllHandles \ {<<"xms", h>>}
      PROVE  /\ FirstIn(x2, e, v)[b] = FirstIn(x, e, v)[b]
             /\ SizeIn(x2, e, v)[b] = SizeIn(x, e, v)[b]
             /\ InUse(x2, e, v, b) = InUse(x, e, v, b)
  <2>1. CASE \E g \in XmsHandles : b = <<"xms", g>>
    <3>1. PICK g \in XmsHandles : b = <<"xms", g>>
      BY <2>1
    <3>2. g # h /\ x2[g] = x[g] /\ b[1] = "xms" /\ b[2] = g
      BY <1>1, <3>1
    <3> QED
      BY <3>2 DEF FirstIn, SizeIn, InUse
  <2>2. CASE b[1] # "xms"
    BY <2>2 DEF FirstIn, SizeIn, InUse
  <2> QED
    BY <2>1, <2>2, HandlesAre
<1> QED
  BY <1>2 DEF Apart, x2

LEMMA EmsApart ==
  ASSUME NEW e \in [EmsHandles -> EmsRecords], NEW h \in EmsHandles, NEW r,
         NEW m, NEW c, NEW x, NEW v, NEW path, NEW m2, NEW c2,
         \A p \in Pool : p \notin On(SizeIn(x, e, v)[<<"ems", h>>], path[<<"ems", h>>])
           /\ m[p] # 0 => m2[p] = m[p] /\ c2[p] = c[p]
  PROVE  Apart(<<"ems", h>>, m, c, x, e, v, path, m2, c2, x, [e EXCEPT ![h] = r], v)
<1> DEFINE e2 == [e EXCEPT ![h] = r]
<1>1. \A g \in EmsHandles : g # h => e2[g] = e[g]
  OBVIOUS
<1> HIDE DEF e2
<1>2. ASSUME NEW b \in AllHandles \ {<<"ems", h>>}
      PROVE  /\ FirstIn(x, e2, v)[b] = FirstIn(x, e, v)[b]
             /\ SizeIn(x, e2, v)[b] = SizeIn(x, e, v)[b]
             /\ InUse(x, e2, v, b) = InUse(x, e, v, b)
  <2>1. CASE \E g \in EmsHandles : b = <<"ems", g>>
    <3>1. PICK g \in EmsHandles : b = <<"ems", g>>
      BY <2>1
    <3>2. g # h /\ e2[g] = e[g] /\ b[1] = "ems" /\ b[2] = g
      BY <1>1, <3>1
    <3> QED
      BY <3>2 DEF FirstIn, SizeIn, InUse
  <2>2. CASE b[1] # "ems"
    BY <2>2 DEF FirstIn, SizeIn, InUse
  <2> QED
    BY <2>1, <2>2, HandlesAre
<1> QED
  BY <1>2 DEF Apart, e2

LEMMA VcpiApart ==
  ASSUME NEW q \in Pool, NEW v, NEW v2, \A p \in Pool \ {q} : p \in v2 <=> p \in v,
         NEW m, NEW c, NEW x, NEW e, NEW path, NEW m2, NEW c2,
         \A p \in Pool : p \notin On(SizeIn(x, e, v)[<<"vcpi", q>>], path[<<"vcpi", q>>])
           /\ m[p] # 0 => m2[p] = m[p] /\ c2[p] = c[p]
  PROVE  Apart(<<"vcpi", q>>, m, c, x, e, v, path, m2, c2, x, e, v2)
<1>2. ASSUME NEW b \in AllHandles \ {<<"vcpi", q>>}
      PROVE  /\ FirstIn(x, e, v2)[b] = FirstIn(x, e, v)[b]
             /\ SizeIn(x, e, v2)[b] = SizeIn(x, e, v)[b]
             /\ InUse(x, e, v2, b) = InUse(x, e, v, b)
  <2>1. CASE \E p \in Pool : b = <<"vcpi", p>>
    <3>1. PICK p \in Pool : b = <<"vcpi", p>>
      BY <2>1
    <3>2. p # q /\ (p \in v2 <=> p \in v) /\ b[1] = "vcpi" /\ b[2] = p
      BY <3>1
    <3>3. (p \in v2) = (p \in v) /\ "vcpi" # "xms" /\ "vcpi" # "ems"
      BY <3>2
    <3> QED
      BY <3>2, <3>3 DEF FirstIn, SizeIn, InUse
  <2>2. CASE b[1] = "xms" \/ b[1] = "ems"
    BY <2>2 DEF FirstIn, SizeIn, InUse
  <2> QED
    BY <2>1, <2>2, HandlesAre
<1> QED
  BY <1>2 DEF Apart

-----------------------------------------------------------------------------
(* Every call is a step of HandleMemory.                                   *)

\* What an allocation gives was free.
LEMMA GivenKeeps ==
  ASSUME NEW m, NEW n, NEW m2, NEW h, NEW f, Given(m, n, m2, h, f),
         NEW p \in Pool, m[p] # 0
  PROVE  m2[p] = m[p]
BY DEF Given

LEMMA XmsAllocateMaps ==
  ASSUME IInv, IInv', NEW size \in XmsSizes \ {0}, XMS_AllocateMemory(size)
  PROVE  [Memory!HandleNext]_Seen
<1> DEFINE new == MEM_AllocatePages(mhandles, PagesFor(size), TRUE)
           h == LowestOf(UnusedXms)
           id == <<"xms", h>>
           r == [free |-> FALSE, mem |-> new.mem, size |-> size, locked |-> 0]
           n == PagesFor(size)
<1>0. size \in Nat /\ n \in Nat
  BY NumbersAre, SizesAre
<1>1. PICK path : Owns(mhandles, xms_handles, emm_handles, vcpi, path)
  BY DEF IInv
<1>2. mhandles \in Links /\ xms_handles \in [XmsHandles -> XmsRecords]
  BY TypesAre DEF IInv
<1>3. /\ UnusedXms # {} /\ new.mem # 0 /\ mhandles' = new.m
      /\ xms_handles' = [xms_handles EXCEPT ![h] = r]
      /\ ram' = ram /\ emm_handles' = emm_handles /\ vcpi' = vcpi
  <2>1. XmsGot(size) = new
    BY DEF XmsGot
  <2> QED
    BY <2>1 DEF XMS_AllocateMemory, SetXms
<1>4. h \in XmsHandles /\ xms_handles[h].free
  <2>1. UnusedXms \in SUBSET Nat
    BY NumbersAre DEF UnusedXms, XmsHandles
  <2>2. h \in UnusedXms
    BY <1>3, <2>1, LowestIs
  <2> HIDE DEF h
  <2>3. xms_handles[h].free \in BOOLEAN
    BY <1>2, <2>2, XmsTypes DEF UnusedXms
  <2> QED
    BY <2>2, <2>3 DEF UnusedXms, ValidXms
<1>5. Allotted(mhandles, n, TRUE, new)
  BY <1>0, <1>2, Allocated
<1> HIDE DEF new, h, r, n
<1>6. PICK f : Given(mhandles, n, new.m, new.mem, f)
  BY <1>3, <1>5 DEF Allotted
<1>7. \A p \in Pool : mhandles[p] # 0 => mhandles'[p] = mhandles[p] /\ ram'[p] = ram[p]
  BY <1>3, <1>6, GivenKeeps
<1>8. Apart(id, mhandles, ram, xms_handles, emm_handles, vcpi, path,
            mhandles', ram', xms_handles', emm_handles', vcpi')
  BY <1>2, <1>3, <1>4, <1>7, XmsApart
<1>9. ~InUse(xms_handles, emm_handles, vcpi, id)
  BY <1>4 DEF InUse
<1>10. id \in AllHandles
  BY <1>4, HandlesAre
<1> HIDE DEF id
<1> QED
  BY <1>1, <1>8, <1>9, <1>10, CallMaps

LEMMA XmsFreeMaps ==
  ASSUME IInv, IInv', NEW h \in XmsHandles, XMS_FreeMemory(h)
  PROVE  [Memory!HandleNext]_Seen
<1> DEFINE m2 == MEM_ReleasePages(mhandles, xms_handles[h].mem)
           r == [xms_handles[h] EXCEPT !.free = TRUE, !.mem = -1, !.size = 0]
           id == <<"xms", h>>
           n == SizeIn(xms_handles, emm_handles, vcpi)[id]
<1>1. PICK path : Owns(mhandles, xms_handles, emm_handles, vcpi, path)
  BY DEF IInv
<1>2. mhandles \in Links /\ xms_handles \in [XmsHandles -> XmsRecords]
  BY TypesAre DEF IInv
<1>3. /\ ~xms_handles[h].free /\ mhandles' = m2
      /\ xms_handles' = [xms_handles EXCEPT ![h] = r]
      /\ ram' = ram /\ emm_handles' = emm_handles /\ vcpi' = vcpi
  BY DEF XMS_FreeMemory, SetXms, ValidXms
<1>4. id \in AllHandles
  BY HandlesAre
<1>5. n \in Nat /\ IsPath(mhandles, xms_handles[h].mem, n, path[id])
  BY <1>1, <1>3, <1>4, PathOf, XmsIs
<1>6. Exchanged(mhandles, n, path[id], m2, 0, NoPath)
  BY <1>2, <1>5, Released
<1>7. r.free = TRUE
  BY <1>2 DEF XmsRecords
<1> HIDE DEF m2, r
<1>8. \A p \in Pool : p \notin On(n, path[id]) /\ mhandles[p] # 0
        => mhandles'[p] = mhandles[p] /\ ram'[p] = ram[p]
  BY <1>3, <1>6, KeptLinks
<1>9. Apart(id, mhandles, ram, xms_handles, emm_handles, vcpi, path,
            mhandles', ram', xms_handles', emm_handles', vcpi')
  BY <1>2, <1>3, <1>8, XmsApart
<1>10. ~InUse(xms_handles', emm_handles', vcpi', id)
  BY <1>2, <1>3, <1>7 DEF InUse
<1> HIDE DEF id, n
<1> QED
  BY <1>1, <1>4, <1>9, <1>10, CallMaps

\* A lock changes nothing that programs see.
LEMMA XmsCountMaps ==
  ASSUME IInv, IInv', NEW h \in XmsHandles, NEW locked,
         SetXms(h, [xms_handles[h] EXCEPT !.locked = locked]),
         UNCHANGED <<mhandles, ram, emm_handles, vcpi>>
  PROVE  [Memory!HandleNext]_Seen
<1> DEFINE r == [xms_handles[h] EXCEPT !.locked = locked]
           id == <<"xms", h>>
           n == SizeIn(xms_handles, emm_handles, vcpi)[id]
           first == FirstIn(xms_handles, emm_handles, vcpi)[id]
<1>1. PICK path : Owns(mhandles, xms_handles, emm_handles, vcpi, path)
  BY DEF IInv
<1>2. xms_handles \in [XmsHandles -> XmsRecords]
  BY TypesAre DEF IInv
<1>3. /\ xms_handles' = [xms_handles EXCEPT ![h] = r]
      /\ mhandles' = mhandles /\ ram' = ram /\ emm_handles' = emm_handles /\ vcpi' = vcpi
  BY DEF SetXms
<1>10. xms_handles'[h] = r
  BY <1>2, <1>3
<1>4. id \in AllHandles
  BY HandlesAre
<1>5. r.free = xms_handles[h].free /\ r.mem = xms_handles[h].mem
      /\ r.size = xms_handles[h].size
  BY <1>2 DEF XmsRecords
<1>6. n \in Nat /\ IsPath(mhandles, first, n, path[id])
  BY <1>1, <1>4, PathOf
<1> HIDE DEF r
<1>7. FirstIn(xms_handles', emm_handles', vcpi')[id] = first
      /\ SizeIn(xms_handles', emm_handles', vcpi')[id] = n
  <2>1. /\ first = (IF xms_handles[h].free THEN 0 ELSE xms_handles[h].mem)
        /\ n = (IF xms_handles[h].free THEN 0 ELSE PagesFor(xms_handles[h].size))
    BY XmsIs
  <2>2. /\ FirstIn(xms_handles', emm_handles', vcpi')[id] = (IF r.free THEN 0 ELSE r.mem)
        /\ SizeIn(xms_handles', emm_handles', vcpi')[id]
             = (IF r.free THEN 0 ELSE PagesFor(r.size))
    BY <1>10, XmsIs
  <2> HIDE DEF id, n, first
  <2> QED
    BY <1>5, <2>1, <2>2
<1>8. Apart(id, mhandles, ram, xms_handles, emm_handles, vcpi, path,
            mhandles', ram', xms_handles', emm_handles', vcpi')
  <2>1. Apart(id, mhandles, ram, xms_handles, emm_handles, vcpi, path,
              mhandles, ram, [xms_handles EXCEPT ![h] = r], emm_handles, vcpi)
    BY <1>2, XmsApart
  <2> HIDE DEF id
  <2> QED
    BY <1>3, <2>1
<1>9. SameContents(ram, n, path[id], ram', n, path[id])
  BY <1>3 DEF SameContents
<1> HIDE DEF id, n, first
<1> QED
  BY <1>1, <1>3, <1>4, <1>6, <1>7, <1>8, <1>9, CallMaps DEF n

LEMMA XmsLocksMap ==
  ASSUME IInv, IInv', NEW h \in XmsHandles, XMS_LockMemory(h) \/ XMS_UnlockMemory(h)
  PROVE  [Memory!HandleNext]_Seen
<1>1. CASE XMS_LockMemory(h)
  <2>1. /\ SetXms(h, [xms_handles[h] EXCEPT !.locked = xms_handles[h].locked + 1])
        /\ UNCHANGED <<mhandles, ram, emm_handles, vcpi>>
    BY <1>1 DEF XMS_LockMemory
  <2> QED
    BY <2>1, XmsCountMaps
<1>2. CASE XMS_UnlockMemory(h)
  <2>1. /\ SetXms(h, [xms_handles[h] EXCEPT !.locked = xms_handles[h].locked - 1])
        /\ UNCHANGED <<mhandles, ram, emm_handles, vcpi>>
    BY <1>2 DEF XMS_UnlockMemory
  <2> QED
    BY <2>1, XmsCountMaps
<1> QED
  BY <1>1, <1>2

\* A block in one piece that is moved takes its contents along, and the copy
\* goes to pages that were free.
LEMMA CopyKeeps ==
  ASSUME ram \in [Pool -> Data], NEW m, NEW mem \in {-1, 0} \cup Pool, NEW n \in Nat, NEW f,
         IsPath(m, mem, n, f), Straight(n, f),
         NEW m2, NEW dest \in {-1, 0} \cup Pool, NEW k \in Nat, NEW f2,
         IsPath(m2, dest, k, f2), Straight(k, f2), n < k, \A p \in On(k, f2) : m[p] = 0
  PROVE  /\ \A p \in Pool : m[p] # 0 => BlockCopy(dest, mem, n)[p] = ram[p]
         /\ SameContents(ram, n, f, BlockCopy(dest, mem, n), k, f2)
<1>0. dest \in Int /\ mem \in Int /\ Pool \subseteq Int
  <2>1. \A p \in {-1, 0} \cup Pool : p \in Int
    BY PoolIs
  <2> QED
    BY <2>1
<1>1. \A i \in 0 .. k - 1 : f2[i] = dest + i /\ f2[i] \in Pool /\ m[dest + i] = 0
  <2>1. 0 < k => f2[0] = dest
    BY DEF IsPath
  <2>2. \A i \in 0 .. k - 1 : 0 < k /\ f2[i] = f2[0] + i /\ f2[i] \in Pool /\ f2[i] \in On(k, f2)
    BY DEF Straight, IsPath, On
  <2> QED
    BY <2>1, <2>2
<1>2. \A i \in 0 .. n - 1 : f[i] = mem + i
  <2>1. 0 < n => f[0] = mem
    BY DEF IsPath
  <2>2. \A i \in 0 .. n - 1 : 0 < n /\ f[i] = f[0] + i
    BY DEF Straight
  <2> QED
    BY <2>1, <2>2
<1>3. \A p \in Pool : BlockCopy(dest, mem, n)[p] =
        IF p \in dest .. dest + n - 1 THEN ram[mem + (p - dest)] ELSE ram[p]
  BY DEF BlockCopy
<1>4. ASSUME NEW p \in Pool, m[p] # 0
      PROVE  BlockCopy(dest, mem, n)[p] = ram[p]
  <2>1. p \notin dest .. dest + n - 1
    <3> SUFFICES ASSUME p \in dest .. dest + n - 1 PROVE FALSE
      OBVIOUS
    <3>1. p - dest \in 0 .. k - 1 /\ dest + (p - dest) = p
      BY <1>0
    <3> QED
      BY <1>1, <1>4, <3>1
  <2> QED
    BY <1>3, <2>1
<1>5. ASSUME NEW i \in 0 .. n - 1
      PROVE  BlockCopy(dest, mem, n)[f2[i]] = ram[f[i]]
  <2>1. i \in 0 .. k - 1 /\ dest + i \in dest .. dest + n - 1 /\ (dest + i) - dest = i
    BY <1>0
  <2>2. f2[i] = dest + i /\ dest + i \in Pool /\ f[i] = mem + i
    BY <1>1, <1>2, <2>1
  <2> QED
    BY <1>3, <2>1, <2>2
<1> QED
  BY <1>4, <1>5 DEF SameContents

LEMMA XmsResizeMaps ==
  ASSUME IInv, IInv', NEW h \in XmsHandles, NEW newSize \in XmsSizes \cup {0},
         XMS_ResizeMemory(h, newSize)
  PROVE  [Memory!HandleNext]_Seen
<1> DEFINE mem == xms_handles[h].mem
           k == PagesFor(newSize)
           new == MEM_ReAllocatePages(mhandles, mem, k, TRUE)
           copy == BlockCopy(new.mem, mem, MEM_AllocatedPages(mhandles, mem))
           r == [xms_handles[h] EXCEPT !.mem = new.mem,
                                       !.size = IF new.ok THEN newSize ELSE @]
           id == <<"xms", h>>
           n == SizeIn(xms_handles, emm_handles, vcpi)[id]
           n2 == IF new.ok THEN k ELSE n
<1>0. newSize \in Nat /\ k \in Nat
  BY NumbersAre, SizesAre
<1>1. PICK path : Owns(mhandles, xms_handles, emm_handles, vcpi, path)
  BY DEF IInv
<1>2. mhandles \in Links /\ xms_handles \in [XmsHandles -> XmsRecords]
      /\ ram \in [Pool -> Data]
  BY TypesAre DEF IInv
<1>3. /\ ~xms_handles[h].free /\ mhandles' = new.m
      /\ ram' = IF new.copied THEN copy ELSE ram
      /\ xms_handles' = [xms_handles EXCEPT ![h] = r]
      /\ emm_handles' = emm_handles /\ vcpi' = vcpi
  BY DEF XMS_ResizeMemory, SetXms, ValidXms
<1>4. id \in AllHandles /\ mem \in {-1, 0} \cup Pool
  BY <1>2, XmsTypes
<1>5. n = PagesFor(xms_handles[h].size) /\ FirstIn(xms_handles, emm_handles, vcpi)[id] = mem
  BY <1>3, XmsIs
<1>6. n \in Nat /\ IsPath(mhandles, mem, n, path[id]) /\ Straight(n, path[id])
  BY <1>1, <1>4, <1>5, PathOf
<1>7. Reallotted(mhandles, n, path[id], k, TRUE, new)
  <2> HIDE DEF mem, k, n
  <2> QED
    BY <1>0, <1>2, <1>4, <1>6, Reallocated
<1>8. copy = BlockCopy(new.mem, mem, n)
  <2>1. MEM_AllocatedPages(mhandles, mem) = n
    BY <1>6, PathBlock
  <2> QED
    BY <2>1
<1> HIDE DEF new, copy, n2
<1>9. new.m \in Links /\ new.mem \in {-1, 0} \cup Pool /\ new.ok \in BOOLEAN
      /\ new.copied \in BOOLEAN
  BY <1>7 DEF Reallotted
<1>10. PICK f2 : IsPath(new.m, new.mem, n2, f2) /\ Straight(n2, f2)
                /\ Exchanged(mhandles, n, path[id], new.m, n2, f2)
                /\ Keeps(mhandles, n, path[id], n2, f2, new.copied)
  BY <1>7 DEF Reallotted, n2
<1>11. /\ r.free = FALSE /\ r.mem = new.mem
       /\ r.size = IF new.ok THEN newSize ELSE xms_handles[h].size
  BY <1>0, <1>2, <1>3, <1>9 DEF XmsRecords
<1>12. n2 \in Nat /\ n2 = PagesFor(r.size)
  BY <1>0, <1>5, <1>6, <1>9, <1>11 DEF n2
<1>13. xms_handles'[h] = r
  BY <1>2, <1>3
<1> HIDE DEF r
<1>14. FirstIn(xms_handles', emm_handles', vcpi')[id] = new.mem
       /\ SizeIn(xms_handles', emm_handles', vcpi')[id] = n2
  BY <1>11, <1>12, <1>13, XmsIs
<1> HIDE DEF n, k, mem
<1>15. SameContents(ram, n, path[id], ram', n2, f2)
       /\ \A p \in Pool : mhandles[p] # 0 => ram'[p] = ram[p]
  <2>1. CASE new.copied
    <3>1. n < n2 /\ \A p \in On(n2, f2) : mhandles[p] = 0
      BY <1>10, <2>1 DEF Keeps
    <3>2. ram' = BlockCopy(new.mem, mem, n)
      BY <1>3, <1>8, <2>1
    <3> DEFINE f == path[id]
               dest == new.mem
    <3>3. IsPath(mhandles, mem, n, f) /\ Straight(n, f) /\ IsPath(new.m, dest, n2, f2)
          /\ Straight(n2, f2) /\ dest \in {-1, 0} \cup Pool /\ ram' = BlockCopy(dest, mem, n)
          /\ n \in Nat
      BY <1>6, <1>9, <1>10, <3>2
    <3>5. ram \in [Pool -> Data] /\ mem \in {-1, 0} \cup Pool /\ n2 \in Nat
      BY <1>2, <1>4, <1>12
    <3>4. SameContents(ram, n, f, ram', n2, f2)
          /\ \A p \in Pool : mhandles[p] # 0 => ram'[p] = ram[p]
      <4> HIDE DEF id, f, dest
      <4>1. /\ \A p \in Pool : mhandles[p] # 0 => BlockCopy(dest, mem, n)[p] = ram[p]
            /\ SameContents(ram, n, f, BlockCopy(dest, mem, n), n2, f2)
        BY <3>1, <3>3, <3>5, CopyKeeps, ZenonT(40)
      <4> QED
        BY <3>3, <4>1
    <3> QED
      BY <3>4
  <2>2. CASE ~new.copied
    <3>1. ram' = ram
      BY <1>3, <2>2
    <3>2. \A i \in 0 .. n - 1 : i < n2 => f2[i] = path[id][i]
      BY <1>10, <2>2 DEF Keeps
    <3> QED
      BY <3>1, <3>2 DEF SameContents
  <2> QED
    BY <2>1, <2>2
<1>16. \A p \in Pool : p \notin On(n, path[id]) /\ mhandles[p] # 0
         => mhandles'[p] = mhandles[p] /\ ram'[p] = ram[p]
  BY <1>3, <1>10, <1>15, KeptLinks
<1>17. Apart(id, mhandles, ram, xms_handles, emm_handles, vcpi, path,
             mhandles', ram', xms_handles', emm_handles', vcpi')
  BY <1>2, <1>3, <1>16, XmsApart DEF n
<1>18. IsPath(mhandles', new.mem, n2, f2)
  BY <1>3, <1>10
<1> HIDE DEF id
<1> QED
  BY <1>1, <1>4, <1>14, <1>15, <1>17, <1>18, CallMaps DEF n

LEMMA EmsAllocateMaps ==
  ASSUME IInv, IInv', NEW pages \in EmsSizes, EMM_AllocateMemory(pages)
  PROVE  [Memory!HandleNext]_Seen
<1> DEFINE n == pages * EmsPage
           new == MEM_AllocatePages(mhandles, n, FALSE)
           h == LowestOf(UnusedEms)
           id == <<"ems", h>>
           r == [pages |-> pages, mem |-> new.mem]
<1>0. pages \in Nat /\ n \in Nat
  BY NumbersAre, SizesAre
<1>1. PICK path : Owns(mhandles, xms_handles, emm_handles, vcpi, path)
  BY DEF IInv
<1>2. mhandles \in Links /\ emm_handles \in [EmsHandles -> EmsRecords]
  BY TypesAre DEF IInv
<1>3. /\ UnusedEms # {} /\ mhandles' = new.m
      /\ emm_handles' = [emm_handles EXCEPT ![h] = r]
      /\ ram' = ram /\ xms_handles' = xms_handles /\ vcpi' = vcpi
  BY DEF EMM_AllocateMemory, SetEms
<1>4. h \in EmsHandles /\ emm_handles[h].pages = NULL_HANDLE
  <2>1. UnusedEms \in SUBSET Nat
    BY NumbersAre DEF UnusedEms, EmsHandles
  <2>2. h \in UnusedEms
    BY <1>3, <2>1, LowestIs
  <2> HIDE DEF h
  <2> QED
    BY <2>2 DEF UnusedEms, ValidHandle
<1>5. Allotted(mhandles, n, FALSE, new)
  BY <1>0, <1>2, Allocated
<1> HIDE DEF new, h, n, r
<1>6. \A p \in Pool : mhandles[p] # 0 => mhandles'[p] = mhandles[p]
  <2>1. CASE new.m = mhandles
    BY <1>3, <2>1
  <2>2. CASE \E f : Given(mhandles, n, new.m, new.mem, f)
    BY <1>3, <2>2, GivenKeeps
  <2> QED
    BY <1>5, <2>1, <2>2 DEF Allotted
<1>7. \A p \in Pool : mhandles[p] # 0 => mhandles'[p] = mhandles[p] /\ ram'[p] = ram[p]
  BY <1>3, <1>6
<1>8. Apart(id, mhandles, ram, xms_handles, emm_handles, vcpi, path,
            mhandles', ram', xms_handles', emm_handles', vcpi')
  BY <1>2, <1>3, <1>4, <1>7, EmsApart
<1>9. ~InUse(xms_handles, emm_handles, vcpi, id)
  BY <1>4 DEF InUse
<1>10. id \in AllHandles
  BY <1>4, HandlesAre
<1> HIDE DEF id
<1> QED
  BY <1>1, <1>8, <1>9, <1>10, CallMaps

\* A handle of EMS gets other first pages and another length, and the pages
\* that it keeps stay where they are.
LEMMA EmsResizedMaps ==
  ASSUME IInv, IInv', NEW h \in EmsHandles, NEW path,
         Owns(mhandles, xms_handles, emm_handles, vcpi, path), NEW r,
         SetEms(h, r), UNCHANGED <<ram, xms_handles, vcpi>>,
         NEW n, n = SizeIn(xms_handles, emm_handles, vcpi)[<<"ems", h>>],
         NEW n2, n2 = (IF r.pages = NULL_HANDLE THEN 0 ELSE r.pages * EmsPage),
         NEW f2, IsPath(mhandles', IF r.pages = NULL_HANDLE THEN 0 ELSE r.mem, n2, f2),
         Exchanged(mhandles, n, path[<<"ems", h>>], mhandles', n2, f2),
         \A i \in 0 .. n - 1 : i < n2 => f2[i] = path[<<"ems", h>>][i]
  PROVE  [Memory!HandleNext]_Seen
<1> DEFINE id == <<"ems", h>>
<1>1. emm_handles \in [EmsHandles -> EmsRecords]
  BY TypesAre DEF IInv
<1>2. emm_handles' = [emm_handles EXCEPT ![h] = r]
  BY DEF SetEms
<1>3. ram' = ram /\ xms_handles' = xms_handles /\ vcpi' = vcpi
  OBVIOUS
<1>4. emm_handles'[h] = r
  BY <1>1, <1>2
<1>5. /\ FirstIn(xms_handles', emm_handles', vcpi')[id]
           = (IF r.pages = NULL_HANDLE THEN 0 ELSE r.mem)
      /\ SizeIn(xms_handles', emm_handles', vcpi')[id] = n2
  BY <1>4, EmsIs
<1>6. \A p \in Pool : p \notin On(n, path[id]) /\ mhandles[p] # 0
        => mhandles'[p] = mhandles[p] /\ ram'[p] = ram[p]
  BY <1>3, KeptLinks
<1>7. Apart(id, mhandles, ram, xms_handles, emm_handles, vcpi, path,
            mhandles', ram', xms_handles', emm_handles', vcpi')
  <2>1. Apart(id, mhandles, ram, xms_handles, emm_handles, vcpi, path,
              mhandles', ram', xms_handles, [emm_handles EXCEPT ![h] = r], vcpi)
    BY <1>1, <1>6, EmsApart
  <2> HIDE DEF id
  <2> QED
    BY <1>2, <1>3, <2>1
<1>8. SameContents(ram, n, path[id], ram', n2, f2)
  BY <1>3 DEF SameContents
<1>9. id \in AllHandles
  BY HandlesAre
<1>10. IsPath(mhandles', FirstIn(xms_handles', emm_handles', vcpi')[id],
              SizeIn(xms_handles', emm_handles', vcpi')[id], f2)
  BY <1>5
<1>11. SameContents(ram, SizeIn(xms_handles, emm_handles, vcpi)[id], path[id],
                    ram', SizeIn(xms_handles', emm_handles', vcpi')[id], f2)
  BY <1>5, <1>8
<1> HIDE DEF id
<1> QED
  BY <1>7, <1>9, <1>10, <1>11, CallMaps

\* A reallocation that does not want its pages in one piece copies nothing.
LEMMA EmsReallotted ==
  ASSUME IInv, IInv', NEW h \in EmsHandles, ValidHandle(h), NEW pages \in Nat,
         NEW path, Owns(mhandles, xms_handles, emm_handles, vcpi, path), NEW new,
         Reallotted(mhandles, SizeIn(xms_handles, emm_handles, vcpi)[<<"ems", h>>],
                    path[<<"ems", h>>], pages * EmsPage, FALSE, new),
         ResizeEms(h, pages, new)
  PROVE  [Memory!HandleNext]_Seen
<1> DEFINE r == [pages |-> IF new.ok THEN pages ELSE emm_handles[h].pages, mem |-> new.mem]
           n == SizeIn(xms_handles, emm_handles, vcpi)[<<"ems", h>>]
           f == path[<<"ems", h>>]
           k == pages * EmsPage
           n2 == IF new.ok THEN k ELSE n
<1>1. mhandles' = new.m /\ SetEms(h, r) /\ UNCHANGED <<ram, xms_handles, vcpi>>
  BY DEF ResizeEms
<1>2. emm_handles[h].pages \in Nat /\ emm_handles[h].pages # NULL_HANDLE
  BY TypesAre, EmsTypes DEF IInv, ValidHandle
<1>3. pages # NULL_HANDLE /\ k \in Nat
  BY SizesAre DEF NULL_HANDLE
<1>4. n = emm_handles[h].pages * EmsPage /\ n \in Nat
  BY <1>2, EmsIs, SizesAre
<1> HIDE DEF n, f, k, n2
<1>5. Reallotted(mhandles, n, f, k, FALSE, new)
  BY DEF n, f, k
<1>6. new.ok \in BOOLEAN /\ new.copied = FALSE
  BY <1>5 DEF Reallotted
<1>7. PICK f2 : /\ IsPath(new.m, new.mem, n2, f2) /\ Exchanged(mhandles, n, f, new.m, n2, f2)
                /\ Keeps(mhandles, n, f, n2, f2, new.copied)
  BY <1>5 DEF Reallotted, n2
<1>8. /\ r.mem = new.mem /\ r.pages # NULL_HANDLE
      /\ r.pages = IF new.ok THEN pages ELSE emm_handles[h].pages
  BY <1>2, <1>3, <1>6
<1> HIDE DEF r
<1>9. n2 = (IF r.pages = NULL_HANDLE THEN 0 ELSE r.pages * EmsPage)
  BY <1>3, <1>4, <1>6, <1>8 DEF n2, k
<1>10. IsPath(mhandles', IF r.pages = NULL_HANDLE THEN 0 ELSE r.mem, n2, f2)
  BY <1>1, <1>7, <1>8
<1>11. Exchanged(mhandles, n, path[<<"ems", h>>], mhandles', n2, f2)
  BY <1>1, <1>7 DEF f
<1>12. \A i \in 0 .. n - 1 : i < n2 => f2[i] = path[<<"ems", h>>][i]
  BY <1>6, <1>7 DEF f, Keeps
<1>13. n = SizeIn(xms_handles, emm_handles, vcpi)[<<"ems", h>>]
  BY DEF n
<1> QED
  BY <1>1, <1>9, <1>10, <1>11, <1>12, <1>13, EmsResizedMaps

LEMMA EmsReallocateMaps ==
  ASSUME IInv, IInv', NEW h \in EmsHandles, NEW pages \in EmsSizes,
         EMM_ReallocatePages(h, pages)
  PROVE  [Memory!HandleNext]_Seen
<1> DEFINE n == SizeIn(xms_handles, emm_handles, vcpi)[<<"ems", h>>]
           k == pages * EmsPage
           mem == emm_handles[h].mem
<1>0. pages \in Nat /\ k \in Nat
  BY NumbersAre, SizesAre
<1>1. PICK path : Owns(mhandles, xms_handles, emm_handles, vcpi, path)
  BY DEF IInv
<1>2. mhandles \in Links /\ emm_handles \in [EmsHandles -> EmsRecords]
  BY TypesAre DEF IInv
<1>3. ValidHandle(h)
  BY DEF EMM_ReallocatePages
<1>4. n = emm_handles[h].pages * EmsPage
      /\ FirstIn(xms_handles, emm_handles, vcpi)[<<"ems", h>>] = mem
  BY <1>3, EmsIs DEF ValidHandle
<1>5. n \in Nat /\ IsPath(mhandles, mem, n, path[<<"ems", h>>]) /\ mem \in {-1, 0} \cup Pool
  BY <1>1, <1>2, <1>4, EmsTypes, PathOf
<1>6. CASE emm_handles[h].pages # 0
  <2> DEFINE new == MEM_ReAllocatePages(mhandles, mem, k, FALSE)
  <2>1. ResizeEms(h, pages, new)
    BY <1>6 DEF EMM_ReallocatePages
  <2>2. Reallotted(mhandles, n, path[<<"ems", h>>], k, FALSE, new)
    <3> HIDE DEF n, k, mem
    <3> QED
      BY <1>0, <1>2, <1>5, Reallocated
  <2> HIDE DEF new
  <2> QED
    BY <1>0, <1>1, <1>3, <2>1, <2>2, EmsReallotted
<1>7. CASE emm_handles[h].pages = 0
  <2> DEFINE new == MEM_AllocatePages(mhandles, k, FALSE)
  <2>1. ResizeEms(h, pages, First(new))
    BY <1>7 DEF EMM_ReallocatePages
  <2>2. n = 0
    BY <1>4, <1>7, NumbersAre
  <2>3. Reallotted(mhandles, n, path[<<"ems", h>>], k, FALSE, First(new))
    <3> HIDE DEF n, k, mem
    <3>1. Allotted(mhandles, k, FALSE, new)
      BY <1>0, <1>2, Allocated
    <3>2. IsPath(mhandles, mem, 0, path[<<"ems", h>>])
      BY <1>5, <2>2
    <3> HIDE DEF new
    <3>3. Reallotted(mhandles, 0, path[<<"ems", h>>], k, FALSE, First(new))
      BY <1>0, <1>2, <3>1, <3>2, FirstPages
    <3> QED
      BY <2>2, <3>3
  <2> HIDE DEF new
  <2> QED
    BY <1>0, <1>1, <1>3, <2>1, <2>3, EmsReallotted
<1> QED
  BY <1>6, <1>7

LEMMA EmsReleaseMaps ==
  ASSUME IInv, IInv', NEW h \in EmsHandles, EMM_ReleaseMemory(h)
  PROVE  [Memory!HandleNext]_Seen
<1> DEFINE n == SizeIn(xms_handles, emm_handles, vcpi)[<<"ems", h>>]
           mem == emm_handles[h].mem
           r == [pages |-> IF h = EMM_SYSTEM_HANDLE THEN 0 ELSE NULL_HANDLE, mem |-> 0]
<1>1. PICK path : Owns(mhandles, xms_handles, emm_handles, vcpi, path)
  BY DEF IInv
<1>2. mhandles \in Links /\ emm_handles \in [EmsHandles -> EmsRecords]
  BY TypesAre DEF IInv
<1>3. /\ ValidHandle(h) /\ SetEms(h, r) /\ UNCHANGED <<ram, xms_handles, vcpi>>
      /\ mhandles' = IF emm_handles[h].pages = 0 THEN mhandles
                     ELSE MEM_ReleasePages(mhandles, mem)
  BY DEF EMM_ReleaseMemory
<1>4. n = emm_handles[h].pages * EmsPage
      /\ FirstIn(xms_handles, emm_handles, vcpi)[<<"ems", h>>] = mem
  BY <1>3, EmsIs DEF ValidHandle
<1>5. n \in Nat /\ IsPath(mhandles, mem, n, path[<<"ems", h>>])
  BY <1>1, <1>2, <1>4, EmsTypes, PathOf
<1>6. Exchanged(mhandles, n, path[<<"ems", h>>], mhandles', 0, NoPath)
  <2>1. CASE emm_handles[h].pages = 0
    <3>1. n = 0 /\ mhandles' = mhandles
      BY <1>3, <1>4, <2>1, NumbersAre
    <3> HIDE DEF n
    <3>2. On(n, path[<<"ems", h>>]) = {} /\ On(0, NoPath) = {}
      BY <3>1 DEF On
    <3> QED
      BY <1>2, <3>1, <3>2 DEF Exchanged
  <2>2. CASE emm_handles[h].pages # 0
    <3> HIDE DEF n, mem
    <3>1. mhandles' = MEM_ReleasePages(mhandles, mem)
      BY <1>3, <2>2
    <3>2. Exchanged(mhandles, n, path[<<"ems", h>>], MEM_ReleasePages(mhandles, mem), 0, NoPath)
      BY <1>2, <1>5, Released
    <3> QED
      BY <3>1, <3>2
  <2> QED
    BY <2>1, <2>2
<1>7. 0 = (IF r.pages = NULL_HANDLE THEN 0 ELSE r.pages * EmsPage)
      /\ (IF r.pages = NULL_HANDLE THEN 0 ELSE r.mem) = 0
  BY NumbersAre DEF NULL_HANDLE
<1>8. IsPath(mhandles', IF r.pages = NULL_HANDLE THEN 0 ELSE r.mem, 0, NoPath)
  <2>1. IsPath(mhandles', 0, 0, NoPath)
    BY NoPathIs, PoolIs
  <2> QED
    BY <1>7, <2>1
<1>9. \A i \in 0 .. n - 1 : i < 0 => NoPath[i] = path[<<"ems", h>>][i]
  BY <1>5
<1>10. n = SizeIn(xms_handles, emm_handles, vcpi)[<<"ems", h>>]
  OBVIOUS
<1> DEFINE n2 == 0
<1>11. /\ SetEms(h, r) /\ UNCHANGED <<ram, xms_handles, vcpi>>
       /\ n2 = (IF r.pages = NULL_HANDLE THEN 0 ELSE r.pages * EmsPage)
       /\ IsPath(mhandles', IF r.pages = NULL_HANDLE THEN 0 ELSE r.mem, n2, NoPath)
       /\ Exchanged(mhandles, n, path[<<"ems", h>>], mhandles', n2, NoPath)
       /\ \A i \in 0 .. n - 1 : i < n2 => NoPath[i] = path[<<"ems", h>>][i]
  BY <1>3, <1>6, <1>7, <1>8, <1>9
<1> HIDE DEF r, mem, n, n2
<1> QED
  BY <1>1, <1>10, <1>11, EmsResizedMaps, SMTT(30)

LEMMA VcpiAllocateMaps ==
  ASSUME IInv, IInv', VCPI_AllocatePage
  PROVE  [Memory!HandleNext]_Seen
<1> DEFINE new == MEM_AllocatePages(mhandles, 1, FALSE)
           p == new.mem
           id == <<"vcpi", p>>
<1>1. PICK path : Owns(mhandles, xms_handles, emm_handles, vcpi, path)
  BY DEF IInv
<1>2. mhandles \in Links /\ vcpi \subseteq Pool
  BY TypesAre DEF IInv
<1>3. p # 0 /\ mhandles' = new.m /\ vcpi' = vcpi \cup {p}
      /\ ram' = ram /\ xms_handles' = xms_handles /\ emm_handles' = emm_handles
  BY DEF VCPI_AllocatePage
<1>4. Allotted(mhandles, 1, FALSE, new)
  BY <1>2, Allocated
<1> HIDE DEF new
<1>5. p \in Pool /\ \E f : Given(mhandles, 1, new.m, p, f)
  BY <1>3, <1>4 DEF Allotted
<1>6. PICK f : Given(mhandles, 1, new.m, p, f)
  BY <1>5
<1>7. mhandles[p] = 0
  <2>1. IsPath(new.m, p, 1, f) /\ \A q \in On(1, f) : mhandles[q] = 0
    BY <1>6 DEF Given
  <2>2. p \in On(1, f)
    BY <2>1 DEF IsPath, On
  <2> QED
    BY <2>1, <2>2
<1>8. p \notin vcpi
  <2> SUFFICES ASSUME p \in vcpi PROVE FALSE
    OBVIOUS
  <2>1. SizeIn(xms_handles, emm_handles, vcpi)[id] = 1
        /\ FirstIn(xms_handles, emm_handles, vcpi)[id] = p
    BY <1>5, VcpiIs
  <2>2. IsPath(mhandles, p, 1, path[id])
    BY <1>1, <1>5, <2>1, HandlesAre, PathOf
  <2>3. p \in On(1, path[id])
    BY <2>2 DEF IsPath, On
  <2> QED
    BY <1>7, <2>2, <2>3, OnIsLinked
<1> HIDE DEF p
<1>9. \A q \in Pool : mhandles[q] # 0 => mhandles'[q] = mhandles[q] /\ ram'[q] = ram[q]
  BY <1>3, <1>6, GivenKeeps
<1>10. \A q \in Pool \ {p} : q \in vcpi' <=> q \in vcpi
  BY <1>3
<1>11. Apart(id, mhandles, ram, xms_handles, emm_handles, vcpi, path,
             mhandles', ram', xms_handles', emm_handles', vcpi')
  <2>1. Apart(id, mhandles, ram, xms_handles, emm_handles, vcpi, path,
              mhandles', ram', xms_handles, emm_handles, vcpi')
    BY <1>5, <1>9, <1>10, VcpiApart
  <2> HIDE DEF id
  <2> QED
    BY <1>3, <2>1
<1>12. ~InUse(xms_handles, emm_handles, vcpi, id)
  <2>1. id[1] = "vcpi" /\ id[2] = p /\ "vcpi" # "xms" /\ "vcpi" # "ems"
    OBVIOUS
  <2> QED
    BY <1>8, <2>1 DEF InUse
<1>13. id \in AllHandles
  BY <1>5, HandlesAre
<1> HIDE DEF id
<1> QED
  BY <1>1, <1>11, <1>12, <1>13, CallMaps

LEMMA VcpiFreeMaps ==
  ASSUME IInv, IInv', NEW p \in vcpi, VCPI_FreePage(p)
  PROVE  [Memory!HandleNext]_Seen
<1> DEFINE id == <<"vcpi", p>>
           n == SizeIn(xms_handles, emm_handles, vcpi)[id]
<1>1. PICK path : Owns(mhandles, xms_handles, emm_handles, vcpi, path)
  BY DEF IInv
<1>2. mhandles \in Links /\ p \in Pool
  BY TypesAre DEF IInv
<1>3. mhandles' = MEM_ReleasePages(mhandles, p) /\ vcpi' = vcpi \ {p}
      /\ ram' = ram /\ xms_handles' = xms_handles /\ emm_handles' = emm_handles
  BY DEF VCPI_FreePage
<1>4. n \in Nat /\ IsPath(mhandles, p, n, path[id])
  BY <1>1, <1>2, HandlesAre, PathOf, VcpiIs
<1>5. Exchanged(mhandles, n, path[id], MEM_ReleasePages(mhandles, p), 0, NoPath)
  BY <1>2, <1>4, Released
<1>6. \A q \in Pool : q \notin On(n, path[id]) /\ mhandles[q] # 0
        => mhandles'[q] = mhandles[q] /\ ram'[q] = ram[q]
  BY <1>3, <1>5, KeptLinks
<1>7. \A q \in Pool \ {p} : q \in vcpi' <=> q \in vcpi
  BY <1>3
<1>8. Apart(id, mhandles, ram, xms_handles, emm_handles, vcpi, path,
            mhandles', ram', xms_handles', emm_handles', vcpi')
  <2>1. Apart(id, mhandles, ram, xms_handles, emm_handles, vcpi, path,
              mhandles', ram', xms_handles, emm_handles, vcpi')
    BY <1>2, <1>6, <1>7, VcpiApart
  <2> HIDE DEF id
  <2> QED
    BY <1>3, <2>1
<1>9. ~InUse(xms_handles', emm_handles', vcpi', id)
  <2>1. id[1] = "vcpi" /\ id[2] = p /\ "vcpi" # "xms" /\ "vcpi" # "ems"
    OBVIOUS
  <2>2. p \notin vcpi'
    BY <1>3
  <2> QED
    BY <2>1, <2>2 DEF InUse
<1>10. id \in AllHandles
  BY <1>2, HandlesAre
<1> HIDE DEF id, n
<1> QED
  BY <1>1, <1>8, <1>9, <1>10, CallMaps

-----------------------------------------------------------------------------
(* What programs write is a step of HandleMemory.                          *)

UsedNow(id) == InUse(xms_handles, emm_handles, vcpi, id)

\* Every page that a program reaches is a place of a block that is in use.
LEMMA PlaceOf ==
  ASSUME IInv, NEW path, Owns(mhandles, xms_handles, emm_handles, vcpi, path),
         NEW p \in XmsPages \cup EmsPages \cup vcpi
  PROVE  \E id \in AllHandles : \E i \in 0 .. SizeOf(id) - 1 : UsedNow(id) /\ p = path[id][i]
<1>1. /\ xms_handles \in [XmsHandles -> XmsRecords]
      /\ emm_handles \in [EmsHandles -> EmsRecords] /\ vcpi \subseteq Pool
  BY TypesAre DEF IInv
<1>2. ASSUME NEW h \in XmsHandles, NEW i \in Nat, InXms(h, i), p = XmsPlace(h, i)
      PROVE  \E id \in AllHandles : \E j \in 0 .. SizeOf(id) - 1 : UsedNow(id) /\ p = path[id][j]
  <2> DEFINE id == <<"xms", h>>
             n == PagesFor(xms_handles[h].size)
             f == path[id]
  <2>1. ~xms_handles[h].free /\ i * PageKb < xms_handles[h].size
    BY <1>2 DEF InXms, ValidXms
  <2>2. n \in Nat /\ xms_handles[h].size \in Nat /\ id \in AllHandles
    BY <1>1, XmsTypes, SizesAre
  <2>3. IsPath(mhandles, xms_handles[h].mem, n, f) /\ Straight(n, f) /\ n = SizeOf(id)
    BY <1>1, <2>1, <2>2, XmsIs, PathOf DEF SizeOf
  <2>4. i < n
    BY <2>1, <2>2, InsideIs
  <2>5. UsedNow(id)
    BY <2>1 DEF UsedNow, InUse
  <2>6. p = xms_handles[h].mem + i
    BY <1>2 DEF XmsPlace
  <2> HIDE DEF n, f, id
  <2>7. i \in 0 .. n - 1 /\ 0 < n
    BY <2>2, <2>4
  <2>8. f[0] = xms_handles[h].mem /\ f[i] = f[0] + i
    BY <2>3, <2>7 DEF IsPath, Straight
  <2>9. p = f[i] /\ i \in 0 .. SizeOf(id) - 1
    BY <2>3, <2>6, <2>7, <2>8
  <2> QED
    BY <2>2, <2>5, <2>9 DEF f
<1>3. ASSUME NEW h \in EmsHandles, NEW i \in Nat, InEms(h, i), p = EmsPlace(h, i)
      PROVE  \E id \in AllHandles : \E j \in 0 .. SizeOf(id) - 1 : UsedNow(id) /\ p = path[id][j]
  <2> DEFINE id == <<"ems", h>>
             n == emm_handles[h].pages * EmsPage
             f == path[id]
             mem == emm_handles[h].mem
  <2>1. emm_handles[h].pages # NULL_HANDLE /\ i < n
    BY <1>3 DEF InEms, ValidHandle
  <2>2. n \in Nat /\ id \in AllHandles
    BY <1>1, <2>1, EmsTypes, SizesAre
  <2>3. IsPath(mhandles, mem, n, f) /\ n = SizeOf(id)
    BY <1>1, <2>1, <2>2, EmsIs, PathOf DEF SizeOf
  <2>4. UsedNow(id)
    <3>1. id[1] = "ems" /\ id[2] = h /\ "ems" # "xms"
      OBVIOUS
    <3> QED
      BY <2>1, <3>1 DEF UsedNow, InUse
  <2>5. p = MEM_NextHandleAt(mhandles, mem, i)
    BY <1>3 DEF EmsPlace
  <2> HIDE DEF n, f, id, mem
  <2>6. i \in 0 .. n - 1
    BY <2>1, <2>2
  <2>7. MEM_NextHandleAt(mhandles, mem, i) = f[i]
    BY <2>2, <2>3, <2>6, PathBlock
  <2>8. p = f[i] /\ i \in 0 .. SizeOf(id) - 1
    BY <2>3, <2>5, <2>6, <2>7
  <2> QED
    BY <2>2, <2>4, <2>8 DEF f
<1>4. ASSUME p \in vcpi
      PROVE  \E id \in AllHandles : \E j \in 0 .. SizeOf(id) - 1 : UsedNow(id) /\ p = path[id][j]
  <2> DEFINE id == <<"vcpi", p>>
             f == path[id]
  <2>1. id \in AllHandles /\ p \in Pool
    BY <1>1, <1>4, HandlesAre
  <2>2. IsPath(mhandles, p, 1, f) /\ SizeOf(id) = 1
    <3>1. SizeIn(xms_handles, emm_handles, vcpi)[id] = 1
          /\ FirstIn(xms_handles, emm_handles, vcpi)[id] = p
      BY <1>4, <2>1, VcpiIs
    <3> QED
      BY <2>1, <3>1, PathOf DEF SizeOf
  <2>3. UsedNow(id)
    <3>1. id[1] = "vcpi" /\ id[2] = p /\ "vcpi" # "xms" /\ "vcpi" # "ems"
      OBVIOUS
    <3> QED
      BY <1>4, <3>1 DEF UsedNow, InUse
  <2> HIDE DEF f, id
  <2>4. f[0] = p /\ 0 \in 0 .. SizeOf(id) - 1
    BY <2>2 DEF IsPath
  <2> QED
    BY <2>1, <2>3, <2>4 DEF f
<1>5. 0 .. Pages \subseteq Nat
  BY PoolAssumption
<1>6. CASE p \in XmsPages
  <2>1. PICK h \in XmsHandles : p \in {XmsPlace(h, i) : i \in {j \in 0 .. Pages : InXms(h, j)}}
    BY <1>6 DEF XmsPages
  <2>2. PICK i \in 0 .. Pages : InXms(h, i) /\ p = XmsPlace(h, i)
    BY <2>1
  <2> QED
    BY <1>2, <1>5, <2>2
<1>7. CASE p \in EmsPages
  <2>1. PICK h \in EmsHandles : p \in {EmsPlace(h, i) : i \in {j \in 0 .. Pages : InEms(h, j)}}
    BY <1>7 DEF EmsPages
  <2>2. PICK i \in 0 .. Pages : InEms(h, i) /\ p = EmsPlace(h, i)
    BY <2>1
  <2> QED
    BY <1>3, <1>5, <2>2
<1> QED
  BY <1>4, <1>6, <1>7

\* A place is in one block, and once.
LEMMA OnePlace ==
  ASSUME NEW path, Owns(mhandles, xms_handles, emm_handles, vcpi, path),
         NEW b \in AllHandles, NEW c \in AllHandles,
         NEW i \in 0 .. SizeOf(b) - 1, NEW j \in 0 .. SizeOf(c) - 1, path[b][i] = path[c][j]
  PROVE  b = c /\ i = j
<1>1. b = c
  <2>1. path[b][i] \in On(SizeOf(b), path[b]) /\ path[c][j] \in On(SizeOf(c), path[c])
    BY DEF On
  <2>2. b # c => On(SizeOf(b), path[b]) \cap On(SizeOf(c), path[c]) = {}
    BY DEF Owns, Owned, SizeOf
  <2> QED
    BY <2>1, <2>2
<1>2. IsPath(mhandles, FirstIn(xms_handles, emm_handles, vcpi)[b], SizeOf(b), path[b])
  BY PathOf DEF SizeOf
<1> QED
  BY <1>1, <1>2 DEF IsPath

LEMMA NotNone ==
  ASSUME NEW n \in Nat, NEW f, NEW m, \E h : IsPath(m, h, n, f), NEW r \in [Pool -> Data]
  PROVE  Inside(r, n, f) # None
<1>1. PICK h : IsPath(m, h, n, f)
  OBVIOUS
<1>2. \A i \in 1 .. n : r[f[i - 1]] \in Data
  BY <1>1 DEF IsPath
<1>3. Inside(r, n, f) \in [1 .. n -> Data]
  BY <1>2 DEF Inside
<1>4. Inside(r, n, f) \in Seq(Data)
  BY <1>3
<1> QED
  BY <1>4, ExtendedAssumption

\* What a handle shows before and after a write.
LEMMA BothSee ==
  ASSUME IInv, NEW path, Owns(mhandles, xms_handles, emm_handles, vcpi, path),
         UNCHANGED <<mhandles, xms_handles, emm_handles, vcpi>>, ram' \in [Pool -> Data],
         NEW id \in AllHandles, NEW n, n = SizeOf(id), NEW f, f = path[id]
  PROVE  /\ n \in Nat /\ f \in [0 .. n - 1 -> Pool]
         /\ UsedNow(id) => /\ Seen[id] = Inside(ram, n, f) /\ Seen'[id] = Inside(ram', n, f)
                           /\ Inside(ram, n, f) # None /\ Inside(ram', n, f) # None
         /\ ~UsedNow(id) => Seen[id] = None /\ Seen'[id] = None
<1>1. /\ xms_handles \in [XmsHandles -> XmsRecords] /\ ram \in [Pool -> Data]
      /\ emm_handles \in [EmsHandles -> EmsRecords]
  BY TypesAre DEF IInv
<1>2. n \in Nat /\ \E h : IsPath(mhandles, h, n, f)
  BY PathOf DEF SizeOf
<1>3. f \in [0 .. n - 1 -> Pool]
  BY <1>2 DEF IsPath
<1>4. Inside(ram, n, f) # None /\ Inside(ram', n, f) # None
  <2>1. ASSUME NEW r \in [Pool -> Data]
        PROVE  Inside(r, n, f) # None
    BY <1>2, NotNone
  <2> QED
    BY <1>1, <2>1
<1>5. /\ UsedNow(id) => SeenOf(mhandles, ram, xms_handles, emm_handles, vcpi, id) = Inside(ram, n, f)
      /\ ~UsedNow(id) => SeenOf(mhandles, ram, xms_handles, emm_handles, vcpi, id) = None
  BY <1>1, SeenIs DEF UsedNow, SizeOf
<1>6. /\ UsedNow(id) => SeenOf(mhandles, ram', xms_handles, emm_handles, vcpi, id) = Inside(ram', n, f)
      /\ ~UsedNow(id) => SeenOf(mhandles, ram', xms_handles, emm_handles, vcpi, id) = None
  BY <1>1, SeenIs DEF UsedNow, SizeOf
<1>7. Seen'[id] = SeenOf(mhandles, ram', xms_handles, emm_handles, vcpi, id)
  BY SeenNext
<1>8. Seen[id] = SeenOf(mhandles, ram, xms_handles, emm_handles, vcpi, id)
  BY SeenNow
<1> QED
  BY <1>2, <1>3, <1>4, <1>5, <1>6, <1>7, <1>8

LEMMA SameSeen ==
  ASSUME \A b \in AllHandles : Seen'[b] = Seen[b]
  PROVE  Seen' = Seen
<1>1. Seen = [b \in AllHandles |-> Seen[b]]
  BY DEF Seen
<1>2. Seen' = [b \in AllHandles |-> Seen'[b]]
  BY DEF Seen
<1> QED
  BY <1>1, <1>2

\* One page is written.
LEMMA WriteMaps ==
  ASSUME IInv, NEW contents \in [Pool -> Data], Writes(contents),
         NEW p \in XmsPages \cup EmsPages \cup vcpi, \A q \in Pool \ {p} : contents[q] = ram[q]
  PROVE  [Memory!HandleNext]_Seen
<1>1. PICK path : Owns(mhandles, xms_handles, emm_handles, vcpi, path)
  BY DEF IInv
<1>2. ram' = contents /\ UNCHANGED <<mhandles, xms_handles, emm_handles, vcpi>>
  BY DEF Writes
<1>0. PICK id \in AllHandles : \E i \in 0 .. SizeOf(id) - 1 : UsedNow(id) /\ p = path[id][i]
  BY <1>1, PlaceOf
<1>3. PICK i \in 0 .. SizeOf(id) - 1 : UsedNow(id) /\ p = path[id][i]
  BY <1>0
<1>4. ASSUME NEW b \in AllHandles
      PROVE  /\ SizeOf(b) \in Nat /\ path[b] \in [0 .. SizeOf(b) - 1 -> Pool]
             /\ UsedNow(b) => /\ Seen[b] = Inside(ram, SizeOf(b), path[b])
                              /\ Seen'[b] = Inside(contents, SizeOf(b), path[b])
                              /\ Seen[b] # None /\ Seen'[b] # None
             /\ ~UsedNow(b) => Seen[b] = None /\ Seen'[b] = None
  BY <1>1, <1>2, BothSee
<1>5. ASSUME NEW b \in AllHandles, NEW k \in 1 .. SizeOf(b), b # id \/ k # i + 1
      PROVE  contents[path[b][k - 1]] = ram[path[b][k - 1]]
  <2>1. k - 1 \in 0 .. SizeOf(b) - 1 /\ ~(b = id /\ k - 1 = i)
    BY <1>4, <1>5
  <2>2. path[b][k - 1] # p
    BY <1>1, <1>3, <2>1, OnePlace
  <2>3. path[b][k - 1] \in Pool
    BY <1>4, <2>1
  <2> QED
    BY <2>2, <2>3
<1>6. ASSUME NEW b \in AllHandles \ {id}
      PROVE  Seen'[b] = Seen[b]
  <2>1. Inside(contents, SizeOf(b), path[b]) = Inside(ram, SizeOf(b), path[b])
    BY <1>5 DEF Inside
  <2> QED
    BY <1>4, <2>1
<1>7. CASE Seen'[id] = Seen[id]
  <2>1. Seen' = Seen
    BY <1>6, <1>7, SameSeen
  <2> QED
    BY <2>1
<1>8. CASE Seen'[id] # Seen[id]
  <2> DEFINE n == SizeOf(id)
             f == path[id]
  <2>1. n \in Nat /\ Seen[id] = Inside(ram, n, f) /\ Seen'[id] = Inside(contents, n, f)
        /\ Seen[id] # None /\ Seen'[id] # None
    BY <1>3, <1>4
  <2>2. \A k \in 1 .. n : k # i + 1 => contents[f[k - 1]] = ram[f[k - 1]]
    BY <1>5
  <2>3. i + 1 \in 1 .. n
    BY <1>3, <2>1
  <2> HIDE DEF n, f
  <2>4. Inside(contents, n, f) = [Inside(ram, n, f) EXCEPT ![i + 1] = Inside(contents, n, f)[i + 1]]
    BY <2>2, <2>3 DEF Inside
  <2>5. i + 1 \in DOMAIN Inside(ram, n, f)
    BY <2>3 DEF Inside
  <2>6. Memory!Write(id)
    BY <2>1, <2>4, <2>5 DEF Memory!Write, Memory!Used
  <2>7. Memory!Changed = {id}
    BY <1>6, <1>8 DEF Memory!Changed
  <2> QED
    BY <2>6, <2>7 DEF Memory!HandleNext
<1> QED
  BY <1>7, <1>8

\* Two pages of EMS change places.
LEMMA ExchangeMaps ==
  ASSUME IInv, ExchangeRegion
  PROVE  [Memory!HandleNext]_Seen
<1>1. PICK path : Owns(mhandles, xms_handles, emm_handles, vcpi, path)
  BY DEF IInv
<1>2. PICK p \in EmsPages, q \in EmsPages : Writes([ram EXCEPT ![p] = ram[q], ![q] = ram[p]])
  BY DEF ExchangeRegion
<1> DEFINE contents == [ram EXCEPT ![p] = ram[q], ![q] = ram[p]]
<1>3. /\ ram \in [Pool -> Data] /\ p \in Pool /\ q \in Pool
  BY TypesAre, Reached DEF IInv
<1>4. /\ contents \in [Pool -> Data] /\ contents[p] = ram[q] /\ contents[q] = ram[p]
      /\ \A s \in Pool \ {p, q} : contents[s] = ram[s]
  BY <1>3
<1>5. contents # ram /\ Writes(contents)
  BY <1>2 DEF Writes
<1>6. ram[p] # ram[q]
  <2>1. ASSUME ram[p] = ram[q]
        PROVE  contents = ram
    <3>1. \A s \in Pool : contents[s] = ram[s]
      BY <1>4, <2>1
    <3> QED
      BY <1>3, <1>4, <3>1
  <2> QED
    BY <1>5, <2>1
<1> HIDE DEF contents
<1>7. ram' = contents /\ UNCHANGED <<mhandles, xms_handles, emm_handles, vcpi>>
  BY <1>5 DEF Writes
<1>8. PICK g \in AllHandles : \E i \in 0 .. SizeOf(g) - 1 : UsedNow(g) /\ p = path[g][i]
  BY <1>1, PlaceOf
<1>9. PICK i \in 0 .. SizeOf(g) - 1 : UsedNow(g) /\ p = path[g][i]
  BY <1>8
<1>10. PICK h \in AllHandles : \E j \in 0 .. SizeOf(h) - 1 : UsedNow(h) /\ q = path[h][j]
  BY <1>1, PlaceOf
<1>11. PICK j \in 0 .. SizeOf(h) - 1 : UsedNow(h) /\ q = path[h][j]
  BY <1>10
<1>12. ASSUME NEW b \in AllHandles
       PROVE  /\ SizeOf(b) \in Nat /\ path[b] \in [0 .. SizeOf(b) - 1 -> Pool]
              /\ UsedNow(b) => /\ Seen[b] = Inside(ram, SizeOf(b), path[b])
                               /\ Seen'[b] = Inside(contents, SizeOf(b), path[b])
                               /\ Seen[b] # None /\ Seen'[b] # None
              /\ ~UsedNow(b) => Seen[b] = None /\ Seen'[b] = None
  BY <1>1, <1>4, <1>7, BothSee
<1> DEFINE u == i + 1
           w == j + 1
<1>13. /\ u \in 1 .. SizeOf(g) /\ w \in 1 .. SizeOf(h)
       /\ path[g][u - 1] = p /\ path[h][w - 1] = q
  <2>1. SizeOf(g) \in Nat /\ SizeOf(h) \in Nat
    BY <1>12
  <2> QED
    BY <1>9, <1>11, <2>1
<1>14. ASSUME NEW b \in AllHandles, NEW k \in 1 .. SizeOf(b),
              b # g \/ k # u, b # h \/ k # w
       PROVE  contents[path[b][k - 1]] = ram[path[b][k - 1]]
  <2>1. k - 1 \in 0 .. SizeOf(b) - 1 /\ ~(b = g /\ k - 1 = i) /\ ~(b = h /\ k - 1 = j)
    BY <1>12, <1>14
  <2>2. path[b][k - 1] # p
    BY <1>1, <1>9, <2>1, OnePlace
  <2>3. path[b][k - 1] # q
    BY <1>1, <1>11, <2>1, OnePlace
  <2>4. path[b][k - 1] \in Pool
    BY <1>12, <2>1
  <2> QED
    BY <1>4, <2>2, <2>3, <2>4
<1> HIDE DEF u, w
<1>15. ASSUME NEW b \in AllHandles \ {g, h}
       PROVE  Seen'[b] = Seen[b]
  <2>1. Inside(contents, SizeOf(b), path[b]) = Inside(ram, SizeOf(b), path[b])
    BY <1>14 DEF Inside
  <2> QED
    BY <1>12, <2>1
<1>16. /\ Seen[g] = Inside(ram, SizeOf(g), path[g]) /\ Seen[h] = Inside(ram, SizeOf(h), path[h])
       /\ Seen'[g] = Inside(contents, SizeOf(g), path[g])
       /\ Seen'[h] = Inside(contents, SizeOf(h), path[h])
       /\ Seen[g] # None /\ Seen[h] # None
  BY <1>9, <1>11, <1>12
<1>17. /\ DOMAIN Seen[g] = 1 .. SizeOf(g) /\ DOMAIN Seen[h] = 1 .. SizeOf(h)
       /\ Seen[g][u] = ram[p] /\ Seen[h][w] = ram[q]
       /\ Seen'[g][u] = ram[q] /\ Seen'[h][w] = ram[p]
  <2>1. \A r : /\ Inside(r, SizeOf(g), path[g])[u] = r[p] /\ Inside(r, SizeOf(h), path[h])[w] = r[q]
               /\ DOMAIN Inside(r, SizeOf(g), path[g]) = 1 .. SizeOf(g)
               /\ DOMAIN Inside(r, SizeOf(h), path[h]) = 1 .. SizeOf(h)
    BY <1>13 DEF Inside
  <2> QED
    BY <1>4, <1>16, <2>1
<1>18. Seen'[g] # Seen[g] /\ Seen'[h] # Seen[h]
  BY <1>6, <1>17
<1>19. Memory!Changed = {g, h}
  <2>1. \A b \in AllHandles : (Seen'[b] # Seen[b]) <=> (b \in {g, h})
    BY <1>15, <1>18
  <2> QED
    BY <2>1 DEF Memory!Changed
<1> DEFINE half == [Seen EXCEPT ![g] = [@ EXCEPT ![u] = Seen[h][w]]]
           after == [half EXCEPT ![h] = [@ EXCEPT ![w] = Seen[g][u]]]
<1>20. Seen = [b \in AllHandles |-> Seen[b]] /\ Seen' = [b \in AllHandles |-> Seen'[b]]
  BY DEF Seen
<1>21. DOMAIN Seen = AllHandles
  BY DEF Seen
<1>22. Seen' = after
  <2>1. after = [b \in AllHandles |-> after[b]]
    BY <1>20
  <2>2. ASSUME NEW b \in AllHandles, b \notin {g, h}
        PROVE  after[b] = Seen[b]
    BY <1>20, <2>2
  <2>3. CASE g # h
    <3>1. after[g] = [Seen[g] EXCEPT ![u] = ram[q]]
      BY <1>17, <1>21, <2>3
    <3>2. after[h] = [Seen[h] EXCEPT ![w] = ram[p]]
      BY <1>17, <1>21, <2>3
    <3> HIDE DEF after
    <3>3. Seen'[g] = [Seen[g] EXCEPT ![u] = ram[q]]
      <4>1. \A l \in 1 .. SizeOf(g) : l # u => contents[path[g][l - 1]] = ram[path[g][l - 1]]
        BY <1>14, <2>3
      <4>2. contents[path[g][u - 1]] = ram[q] /\ SizeOf(g) \in Nat
        BY <1>4, <1>12, <1>13
      <4> DEFINE n == SizeOf(g)
                 f == path[g]
      <4>3. /\ n \in Nat /\ u \in 1 .. n /\ contents[f[u - 1]] = ram[q]
            /\ \A l \in 1 .. n : l # u => contents[f[l - 1]] = ram[f[l - 1]]
        BY <1>13, <4>1, <4>2
      <4>4. Seen[g] = Inside(ram, n, f) /\ Seen'[g] = Inside(contents, n, f)
        BY <1>16
      <4> HIDE DEF n, f
      <4>5. Inside(contents, n, f) = [Inside(ram, n, f) EXCEPT ![u] = ram[q]]
        BY <4>3 DEF Inside
      <4> QED
        BY <4>4, <4>5
    <3>4. Seen'[h] = [Seen[h] EXCEPT ![w] = ram[p]]
      <4>1. \A l \in 1 .. SizeOf(h) : l # w => contents[path[h][l - 1]] = ram[path[h][l - 1]]
        BY <1>14, <2>3
      <4>2. contents[path[h][w - 1]] = ram[p] /\ SizeOf(h) \in Nat
        BY <1>4, <1>12, <1>13
      <4> DEFINE n == SizeOf(h)
                 f == path[h]
      <4>3. /\ n \in Nat /\ w \in 1 .. n /\ contents[f[w - 1]] = ram[p]
            /\ \A l \in 1 .. n : l # w => contents[f[l - 1]] = ram[f[l - 1]]
        BY <1>13, <4>1, <4>2
      <4>4. Seen[h] = Inside(ram, n, f) /\ Seen'[h] = Inside(contents, n, f)
        BY <1>16
      <4> HIDE DEF n, f
      <4>5. Inside(contents, n, f) = [Inside(ram, n, f) EXCEPT ![w] = ram[p]]
        BY <4>3 DEF Inside
      <4> QED
        BY <4>4, <4>5
    <3>5. \A b \in AllHandles : Seen'[b] = after[b]
      <4>1. Seen'[g] = after[g]
        BY <3>1, <3>3
      <4>2. Seen'[h] = after[h]
        BY <3>2, <3>4
      <4> QED
        BY <1>15, <2>2, <4>1, <4>2
    <3> QED
      BY <1>20, <2>1, <3>5
  <2>4. CASE g = h
    <3>1. after[g] = [[Seen[g] EXCEPT ![u] = ram[q]] EXCEPT ![w] = ram[p]]
      <4>1. Seen[h][w] = ram[q] /\ Seen[g][u] = ram[p]
        BY <1>17
      <4>2. half[g] = [Seen[g] EXCEPT ![u] = ram[q]] /\ DOMAIN half = AllHandles
        BY <1>21, <2>4, <4>1
      <4> HIDE DEF half
      <4> QED
        BY <2>4, <4>1, <4>2
    <3> HIDE DEF after
    <3>2. Seen'[g] = [[Seen[g] EXCEPT ![u] = ram[q]] EXCEPT ![w] = ram[p]]
      <4> DEFINE n == SizeOf(g)
                 f == path[g]
      <4>1. u \in 1 .. n /\ w \in 1 .. n /\ f[u - 1] = p /\ f[w - 1] = q
        BY <1>13, <2>4
      <4>2. \A l \in 1 .. n : l # u /\ l # w => contents[f[l - 1]] = ram[f[l - 1]]
        BY <1>14, <2>4
      <4>3. Seen[g] = Inside(ram, n, f) /\ Seen'[g] = Inside(contents, n, f)
        BY <1>16
      <4>4. u # w
        BY <1>6, <4>1
      <4> HIDE DEF n, f
      <4>5. Inside(contents, n, f)
              = [[Inside(ram, n, f) EXCEPT ![u] = ram[q]] EXCEPT ![w] = ram[p]]
        BY <1>4, <4>1, <4>2, <4>4 DEF Inside
      <4> QED
        BY <4>3, <4>5
    <3>3. \A b \in AllHandles : Seen'[b] = after[b]
      <4>1. Seen'[g] = after[g]
        BY <3>1, <3>2
      <4> QED
        BY <1>15, <2>2, <2>4, <4>1
    <3> QED
      BY <1>20, <2>1, <3>3
  <2> QED
    BY <2>3, <2>4
<1>23. Memory!Used(g) /\ Memory!Used(h)
  BY <1>16 DEF Memory!Used
<1>24. Memory!Exchange(g, h)
  <2>1. u \in DOMAIN Seen[g] /\ w \in DOMAIN Seen[h]
    BY <1>13, <1>17
  <2> QED
    BY <1>22, <1>23, <2>1 DEF Memory!Exchange
<1> QED
  BY <1>19, <1>24 DEF Memory!HandleNext

LEMMA ProgramsMap ==
  ASSUME IInv, Programs
  PROVE  [Memory!HandleNext]_Seen
<1>0. /\ ram \in [Pool -> Data] /\ XmsPages \subseteq Pool /\ EmsPages \subseteq Pool
      /\ vcpi \subseteq Pool
  BY TypesAre, Reached DEF IInv
<1>1. ASSUME NEW places \in SUBSET (XmsPages \cup EmsPages \cup vcpi), Store(places)
      PROVE  [Memory!HandleNext]_Seen
  <2>1. PICK p \in places, v \in Data : Writes([ram EXCEPT ![p] = v])
    BY <1>1 DEF Store
  <2> DEFINE contents == [ram EXCEPT ![p] = v]
  <2>2. contents \in [Pool -> Data] /\ \A q \in Pool \ {p} : contents[q] = ram[q]
    BY <1>0, <2>1
  <2>3. Writes(contents)
    BY <2>1
  <2> HIDE DEF contents
  <2> QED
    BY <2>1, <2>2, <2>3, WriteMaps
<1>2. ASSUME NEW places \in SUBSET (XmsPages \cup EmsPages \cup vcpi), Move(places)
      PROVE  [Memory!HandleNext]_Seen
  <2>1. PICK p \in places, s \in places : Writes([ram EXCEPT ![p] = ram[s]])
    BY <1>2 DEF Move
  <2> DEFINE contents == [ram EXCEPT ![p] = ram[s]]
  <2>2. contents \in [Pool -> Data] /\ \A q \in Pool \ {p} : contents[q] = ram[q]
    BY <1>0, <2>1
  <2>3. Writes(contents)
    BY <2>1
  <2> HIDE DEF contents
  <2> QED
    BY <2>1, <2>2, <2>3, WriteMaps
<1> QED
  BY <1>1, <1>2, ExchangeMaps DEF Programs

\* Every step is seen as a step of HandleMemory, or not at all.
LEMMA StepMaps ==
  ASSUME XmsAsked, IInv, IInv', [Next]_vars
  PROVE  [Memory!HandleNext]_Seen
<1>1. CASE Xms
  BY <1>1, XmsAllocateMaps, XmsFreeMaps, XmsLocksMap, XmsResizeMaps DEF Xms, XmsAsked
<1>2. Ems => \/ [Memory!HandleNext]_Seen
             \/ \E pages \in EmsSizes : EMM_AllocateBehindTable(pages)
             \/ \E h \in EmsHandles, pages \in EmsSizes : EMM_ReallocateBehindTable(h, pages)
  BY EmsAllocateMaps, EmsReallocateMaps, EmsReleaseMaps DEF Ems
<1>3. CASE Vcpi
  BY <1>3, VcpiAllocateMaps, VcpiFreeMaps DEF Vcpi
<1>4. CASE Programs
  BY <1>4, ProgramsMap
<1>5. ASSUME UNCHANGED <<mhandles, ram, xms_handles, emm_handles, vcpi>>
      PROVE  Seen' = Seen
  <2>1. UNCHANGED <<mhandles, ram, xms_handles, emm_handles, vcpi>>
    BY <1>5
  <2>2. ASSUME NEW b \in AllHandles
        PROVE  Seen'[b] = Seen[b]
    BY <2>1, SeenNow, SeenNext
  <2> QED
    BY <2>2, SameSeen
<1>6. ASSUME NEW pages, LinksBehindTable(pages)
      PROVE  Seen' = Seen
  BY <1>5, <1>6 DEF LinksBehindTable
<1>7. CASE Ems
  BY <1>2, <1>6, <1>7 DEF EMM_AllocateBehindTable, EMM_ReallocateBehindTable
<1>8. CASE UNCHANGED vars
  BY <1>5, <1>8 DEF vars
<1> QED
  BY <1>1, <1>3, <1>4, <1>7, <1>8 DEF Next

\* What a program finds through a handle is what it has written through this
\* handle, wherever blocks are moved, extended, cut and linked, until links are
\* written behind the table, for pools and handle tables of any size, when
\* programs ask XMS for at least one kilobyte (MEM_ReAllocatePages and its copy,
\* memory.cpp; xms.cpp and ems.cpp).
THEOREM ContentsAreKept ==
  ASSUME XmsAsked
  PROVE  Spec => KeepsContents
<1>1. Init => IInv
  BY Start
<1>2. IInv /\ [Next]_vars => IInv'
  BY Step
<1>3. IInv /\ IInv' /\ [Next]_vars => [Memory!HandleNext]_Seen
  BY StepMaps
<1> QED
  BY <1>1, <1>2, <1>3, PTL DEF Spec, KeepsContents, Memory!HandleSpec

=============================================================================
