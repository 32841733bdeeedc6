-------------------------- MODULE DosMemoryProofs --------------------------
(***************************************************************************)
(* Theorems about DosMemory for every arena.  Sound(m) is what every chain *)
(* the operations build must be; each operation gets a lemma saying that   *)
(* it keeps chains sound, which gives the invariants TypeOK and ArenaInv.  *)
(* SameBut(m, c, X) says that an operation leaves all blocks in use alone  *)
(* but those in X; from it come the action properties and the refinement   *)
(* of MemoryArena.  Reported is what stands behind a failed call.          *)
(* Compressing and Searching are what every turn of the loops of           *)
(* MemoryLoops keeps: from them comes that the loops do what DosMemory     *)
(* says they do.                                                           *)
(***************************************************************************)
EXTENDS MemoryLoops, WellFoundedInduction, TLAPS

Tiled(m) ==
  /\ DOS_MEM_START \in DOMAIN m
  /\ \A h \in DOMAIN m :
       /\ h \in Nat /\ DOS_MEM_START <= h /\ h < Top
       /\ m[h] \in Block
       /\ NextOf(m, h) \in DOMAIN m \cup {Top}
       /\ \A g \in DOMAIN m : h < g => NextOf(m, h) <= g

Ended(m) ==
  \A h \in DOMAIN m :
    m[h].type = "Z" <=>
      \/ NextOf(m, h) = Top
      \/ umbState = 0 /\ NextOf(m, h) = UMB_START_SEG

Covered(m) ==
  umbStart = UMB_START_SEG =>
    /\ umbStart \in DOMAIN m
    /\ m[umbStart].psp = MCB_DOS
    /\ NextOf(m, umbStart) = FirstUmbSeg

Function(m) == m = [h \in DOMAIN m |-> m[h]]

Sound(m) == Function(m) /\ Tiled(m) /\ Ended(m) /\ Covered(m)

\* The part of the invariant that is not about the chain.
Settled ==
  /\ psp \in Psps
  /\ memAllocStrategy \in [high : Highs, fit : Fits]
  /\ umbStart \in {UMB_START_SEG, NoUmb}
  /\ umbState \in {0, 1}
  /\ booted \in BOOLEAN
  /\ umbStart = UMB_START_SEG => booted
  /\ umbState = 1 => umbStart = UMB_START_SEG
  /\ ret \in Answers

IInv == Settled /\ Sound(mcb)

-----------------------------------------------------------------------------
(* Least and greatest elements.                                            *)

\* A set of numbers that is not empty has a least element.
LEMMA LeastExists ==
  ASSUME NEW S \in SUBSET Nat, S # {}
  PROVE  \E x \in S : \A y \in S : x <= y
<1> DEFINE R == {ss \in Nat \X Nat : ss[1] < ss[2]}
<1>1. IsWellFoundedOn(R, Nat)
  BY NatLessThanWellFounded DEF OpToRel
<1> HIDE DEF R
<1>2. PICK x \in S : \A y \in S : ~(<<y, x>> \in R)
  BY <1>1, WFMin, Zenon
<1>3. \A y \in S : ~(y < x)
  BY <1>2 DEF R
<1>4. \A y \in S : x <= y
  BY <1>3
<1> QED BY <1>4

\* A set of numbers that is not empty and has a bound has a greatest element.
LEMMA GreatestExists ==
  ASSUME NEW S \in SUBSET Nat, S # {}, NEW b \in Nat, \A y \in S : y <= b
  PROVE  \E x \in S : \A y \in S : y <= x
<1> DEFINE T == {t \in Nat : b - t \in S}
<1>1. PICK z \in S : TRUE
  OBVIOUS
<1>2. b - z \in Nat /\ b - (b - z) = z
  BY <1>1
<1>3. b - z \in T
  BY <1>1, <1>2
<1>4. PICK t \in T : \A u \in T : t <= u
  BY <1>3, LeastExists
<1>5. ASSUME NEW y \in S PROVE y <= b - t
  <2>1. b - y \in Nat /\ b - (b - y) = y
    BY <1>5
  <2>2. b - y \in T
    BY <2>1, <1>5
  <2>3. t <= b - y
    BY <1>4, <2>2
  <2> QED BY <2>1, <2>3, <1>4
<1> QED BY <1>4, <1>5

-----------------------------------------------------------------------------
(* A sound chain.                                                          *)

LEMMA ArenaBounds ==
  /\ DOS_MEM_START \in Nat /\ UMB_START_SEG \in Nat /\ FirstUmbSeg \in Nat
  /\ UmbTop \in Nat
  /\ UMB_START_SEG < FirstUmbSeg /\ FirstUmbSeg < UmbTop
  /\ Top \in Nat /\ UMB_START_SEG <= Top
BY ArenaAssumption DEF Top

\* The facts about a chain that the lemmas below use over and over.
LEMMA SoundFacts ==
  ASSUME NEW m, Sound(m)
  PROVE  /\ DOMAIN m \subseteq Nat
         /\ DOS_MEM_START \in DOMAIN m
         /\ \A h \in DOMAIN m :
              /\ DOS_MEM_START <= h /\ h < Top
              /\ m[h].size \in Nat
              /\ NextOf(m, h) \in Nat /\ h < NextOf(m, h)
              /\ NextOf(m, h) <= Top
              /\ NextOf(m, h) \in DOMAIN m \cup {Top}
         /\ \A h, g \in DOMAIN m : h < g => NextOf(m, h) <= g
<1>1. DOMAIN m \subseteq Nat /\ DOS_MEM_START \in DOMAIN m
  BY DEF Sound, Tiled
<1>2. \A h \in DOMAIN m : DOS_MEM_START <= h /\ h < Top /\ m[h].size \in Nat
  BY DEF Sound, Tiled, Block
<1>3. \A h \in DOMAIN m : NextOf(m, h) \in Nat /\ h < NextOf(m, h)
  BY <1>1, <1>2 DEF NextOf
<1>4. \A h \in DOMAIN m : NextOf(m, h) \in DOMAIN m \cup {Top}
  BY DEF Sound, Tiled
<1>5. \A h \in DOMAIN m : NextOf(m, h) <= Top
  BY <1>1, <1>2, <1>4, ArenaBounds
<1>6. \A h, g \in DOMAIN m : h < g => NextOf(m, h) <= g
  BY DEF Sound, Tiled
<1> QED BY <1>1, <1>2, <1>3, <1>4, <1>5, <1>6

\* No two blocks end at the same place.
LEMMA EndsDiffer ==
  ASSUME NEW m, Sound(m),
         NEW f \in DOMAIN m, NEW g \in DOMAIN m, NextOf(m, f) = NextOf(m, g)
  PROVE  f = g
BY SoundFacts

\* Every header but the first is where a block ends.
LEMMA Predecessor ==
  ASSUME NEW m, Sound(m),
         NEW h \in DOMAIN m, h # DOS_MEM_START
  PROVE  \E g \in DOMAIN m : NextOf(m, g) = h
<1> DEFINE B == {g \in DOMAIN m : g < h}
<1>1. B \in SUBSET Nat /\ h \in Nat
  BY SoundFacts
<1>2. DOS_MEM_START \in B
  BY SoundFacts DEF Sound, Tiled
<1>3. PICK g \in B : \A y \in B : y <= g
  <2>1. B # {} /\ \A y \in B : y <= h
    BY <1>1, <1>2
  <2> HIDE DEF B
  <2> QED BY <1>1, <2>1, GreatestExists
<1>4. NextOf(m, g) <= h /\ NextOf(m, g) \in Nat /\ g < NextOf(m, g)
  BY SoundFacts DEF Sound, Tiled
<1>5. NextOf(m, g) \in DOMAIN m \cup {Top}
  BY DEF Sound, Tiled
<1>6. h < Top /\ Top \in Nat
  BY SoundFacts, ArenaBounds
<1>7. NextOf(m, g) = h
  <2>1. CASE NextOf(m, g) < h
    <3>1. NextOf(m, g) \in B
      BY <2>1, <1>5, <1>6, <1>1
    <3>2. NextOf(m, g) <= g
      BY <3>1, <1>3
    <3> QED BY <3>2, <1>4, <1>1
  <2> QED BY <2>1, <1>4, <1>1
<1> QED BY <1>7

-----------------------------------------------------------------------------
(* Compressing.                                                            *)

\* Where blocks end after compressing: nowhere inside a merged block.
Ends(m) == {NextOf(m, g) : g \in DOMAIN m} \ Absorbed(m)

\* The first block and the blocks in use are never absorbed.
LEMMA AbsorbedFacts ==
  ASSUME NEW m, Sound(m)
  PROVE  /\ Absorbed(m) \subseteq DOMAIN m
         /\ DOS_MEM_START \notin Absorbed(m)
         /\ \A h \in Absorbed(m) : IsFree(m, h)
         /\ \A g \in DOMAIN m : ~IsFree(m, g) => NextOf(m, g) \notin Absorbed(m)
<1>1. Absorbed(m) \subseteq DOMAIN m /\ \A h \in Absorbed(m) : IsFree(m, h)
  BY DEF Absorbed, Chain
<1>2. ASSUME NEW h \in Absorbed(m)
      PROVE  \E g \in DOMAIN m : NextOf(m, g) = h /\ IsFree(m, g)
  BY <1>2 DEF Absorbed, Chain
<1>3. DOS_MEM_START \notin Absorbed(m)
  BY <1>2, SoundFacts, ArenaBounds
<1>4. ASSUME NEW g \in DOMAIN m, ~IsFree(m, g)
      PROVE  NextOf(m, g) \notin Absorbed(m)
  BY <1>2, <1>4, EndsDiffer
<1> QED BY <1>1, <1>3, <1>4

\* After every block there is a nearest end, and a block that ends there.
LEMMA NearestEndFacts ==
  ASSUME NEW m, Sound(m), NEW h \in DOMAIN m
  PROVE  LET e == NearestEnd(Ends(m), h) IN
         /\ e \in Ends(m) /\ e \in Nat /\ h < e
         /\ \A d \in Ends(m) : h < d => e <= d
         /\ BlockEndingAt(m, e) \in DOMAIN m
         /\ NextOf(m, BlockEndingAt(m, e)) = e
<1> DEFINE N == {NextOf(m, g) : g \in DOMAIN m}
           L == {d \in Ends(m) : h < d}
<1>1. N \in SUBSET Nat /\ N # {} /\ \A e \in N : e <= Top
  BY SoundFacts
<1>2. PICK last \in N : \A e \in N : e <= last
  <2> HIDE DEF N
  <2> QED BY <1>1, GreatestExists, ArenaBounds
<1>3. last \notin DOMAIN m
  <2> SUFFICES ASSUME last \in DOMAIN m PROVE FALSE
    OBVIOUS
  <2>1. NextOf(m, last) \in N
    OBVIOUS
  <2>2. last < NextOf(m, last) /\ last \in Nat /\ NextOf(m, last) \in Nat
    BY SoundFacts
  <2> QED BY <1>2, <2>1, <2>2
<1>4. last \in Ends(m)
  BY <1>2, <1>3, AbsorbedFacts DEF Ends
<1>5. h < last
  <2>1. NextOf(m, h) \in N
    OBVIOUS
  <2>2. h < NextOf(m, h) /\ h \in Nat /\ NextOf(m, h) \in Nat
    BY SoundFacts
  <2> QED BY <1>1, <1>2, <2>1, <2>2
<1>6. L \in SUBSET Nat /\ L # {}
  BY <1>1, <1>4, <1>5 DEF Ends
<1>7. PICK e \in L : \A d \in L : e <= d
  <2> HIDE DEF L
  <2> QED BY <1>6, LeastExists
<1>8. e \in Ends(m) /\ h < e /\ \A d \in Ends(m) : h < d => e <= d
  BY <1>7
<1>9. /\ NearestEnd(Ends(m), h) \in Ends(m)
      /\ h < NearestEnd(Ends(m), h)
      /\ \A d \in Ends(m) : h < d => NearestEnd(Ends(m), h) <= d
  BY <1>8, Zenon DEF NearestEnd
<1>10. NearestEnd(Ends(m), h) \in N
  BY <1>9 DEF Ends
<1>11. \E f \in DOMAIN m : NextOf(m, f) = NearestEnd(Ends(m), h)
  BY <1>10
<1>12. /\ BlockEndingAt(m, NearestEnd(Ends(m), h)) \in DOMAIN m
       /\ NextOf(m, BlockEndingAt(m, NearestEnd(Ends(m), h)))
            = NearestEnd(Ends(m), h)
  BY <1>11, Zenon DEF BlockEndingAt
<1> QED BY <1>1, <1>9, <1>10, <1>12

\* What compressing leaves of each block: its place and its owner, and of a
\* block in use its extent.
LEMMA CompressKeeps ==
  ASSUME NEW m, Sound(m)
  PROVE  /\ DOMAIN Compress(m) = DOMAIN m \ Absorbed(m)
         /\ \A h \in DOMAIN Compress(m) :
              /\ Compress(m)[h].psp = m[h].psp
              /\ Compress(m)[h].type
                   = m[BlockEndingAt(m, NearestEnd(Ends(m), h))].type
              /\ Compress(m)[h].size = NearestEnd(Ends(m), h) - h - 1
              /\ NextOf(Compress(m), h) = NearestEnd(Ends(m), h)
         /\ \A h \in DOMAIN m : ~IsFree(m, h) =>
              /\ h \in DOMAIN Compress(m)
              /\ NextOf(Compress(m), h) = NextOf(m, h)
              /\ Compress(m)[h].size = m[h].size
<1> DEFINE c == Compress(m)
<1>1. c = [h \in DOMAIN m \ Absorbed(m) |->
             [type |-> m[BlockEndingAt(m, NearestEnd(Ends(m), h))].type,
              psp  |-> m[h].psp,
              size |-> NearestEnd(Ends(m), h) - h - 1]]
  BY DEF Compress, Ends
<1> HIDE DEF c
<1>2. DOMAIN c = DOMAIN m \ Absorbed(m)
  BY <1>1
<1>3. ASSUME NEW h \in DOMAIN c
      PROVE  /\ c[h].psp = m[h].psp
             /\ c[h].type = m[BlockEndingAt(m, NearestEnd(Ends(m), h))].type
             /\ c[h].size = NearestEnd(Ends(m), h) - h - 1
  BY <1>1, <1>2, <1>3
<1>4. ASSUME NEW h \in DOMAIN c
      PROVE  NextOf(c, h) = NearestEnd(Ends(m), h)
  <2>1. h \in DOMAIN m
    BY <1>2, <1>4
  <2>2. NearestEnd(Ends(m), h) \in Nat /\ h \in Nat
    BY <2>1, NearestEndFacts, SoundFacts
  <2> QED BY <1>3, <1>4, <2>2 DEF NextOf
<1>5. ASSUME NEW h \in DOMAIN m, ~IsFree(m, h)
      PROVE  h \in DOMAIN c /\ NearestEnd(Ends(m), h) = NextOf(m, h)
  <2>1. h \in DOMAIN c
    BY <1>2, <1>5, AbsorbedFacts
  <2>2. NextOf(m, h) \in Ends(m)
    BY <1>5, AbsorbedFacts DEF Ends
  <2>3. PICK f \in DOMAIN m : NextOf(m, f) = NearestEnd(Ends(m), h)
    BY NearestEndFacts
  <2>4. NearestEnd(Ends(m), h) <= NextOf(m, h)
    BY <2>2, NearestEndFacts, SoundFacts
  <2>5. h < NearestEnd(Ends(m), h)
    BY NearestEndFacts
  <2>6. f = h
    BY <2>3, <2>4, <2>5, SoundFacts
  <2> QED BY <2>1, <2>3, <2>6
<1>6. ASSUME NEW h \in DOMAIN m, ~IsFree(m, h)
      PROVE  /\ h \in DOMAIN c
             /\ NextOf(c, h) = NextOf(m, h)
             /\ c[h].size = m[h].size
  <2>1. h \in DOMAIN c /\ NextOf(c, h) = NextOf(m, h)
    BY <1>4, <1>5, <1>6
  <2>2. c[h].size = NextOf(m, h) - h - 1
    BY <1>3, <1>5, <1>6
  <2> QED BY <2>1, <2>2, SoundFacts DEF NextOf
<1> QED BY <1>2, <1>3, <1>4, <1>6 DEF c

\* DOS_CompressMemory keeps a chain sound.
LEMMA CompressSound ==
  ASSUME NEW m, Sound(m), umbStart \in {UMB_START_SEG, NoUmb}
  PROVE  Sound(Compress(m))
<1> DEFINE c == Compress(m)
<1>1. Function(c)
  BY DEF Compress, Function
<1>2. DOMAIN c = DOMAIN m \ Absorbed(m)
  BY CompressKeeps
<1>3. ASSUME NEW h \in DOMAIN c
      PROVE  /\ h \in DOMAIN m
             /\ NextOf(c, h) = NearestEnd(Ends(m), h)
             /\ NextOf(c, h) \in DOMAIN c \cup {Top}
  <2>1. h \in DOMAIN m /\ NextOf(c, h) = NearestEnd(Ends(m), h)
    BY <1>2, <1>3, CompressKeeps
  <2>2. NextOf(c, h) \in Ends(m)
    BY <2>1, NearestEndFacts
  <2>3. NextOf(c, h) \in DOMAIN m \cup {Top} /\ NextOf(c, h) \notin Absorbed(m)
    BY <2>2, SoundFacts DEF Ends
  <2> QED BY <2>1, <2>3, <1>2
<1>4. ASSUME NEW h \in DOMAIN c PROVE c[h] \in Block
  <2> DEFINE e == NearestEnd(Ends(m), h)
  <2>1. h \in DOMAIN m /\ h \in Nat
    BY <1>2, <1>4, SoundFacts
  <2>2. e \in Nat /\ h < e /\ BlockEndingAt(m, e) \in DOMAIN m
    BY <2>1, NearestEndFacts
  <2>3. m[BlockEndingAt(m, e)].type \in {"M", "Z"} /\ m[h].psp \in Owners
    BY <2>1, <2>2 DEF Sound, Tiled, Block
  <2>4. e - h - 1 \in Nat
    BY <2>1, <2>2
  <2>5. c[h] = [type |-> m[BlockEndingAt(m, e)].type, psp |-> m[h].psp,
                size |-> e - h - 1]
    BY <1>2, <1>4 DEF Compress, Ends
  <2> HIDE DEF c, e
  <2> QED BY <2>3, <2>4, <2>5 DEF Block
<1>5. ASSUME NEW h \in DOMAIN c, NEW g \in DOMAIN c, h < g
      PROVE  NextOf(c, h) <= g
  <2>1. g \in DOMAIN m /\ g \notin Absorbed(m) /\ h \in DOMAIN m
    BY <1>2, <1>5
  <2>2. g # DOS_MEM_START
    BY <1>5, <2>1, SoundFacts, ArenaBounds
  <2>3. g \in Ends(m)
    BY <2>1, <2>2, Predecessor DEF Ends
  <2> QED BY <1>3, <1>5, <2>1, <2>3, NearestEndFacts
<1>6. Tiled(c)
  <2>1. DOS_MEM_START \in DOMAIN c
    BY <1>2, AbsorbedFacts, SoundFacts
  <2>2. \A h \in DOMAIN c : h \in Nat /\ DOS_MEM_START <= h /\ h < Top
    BY <1>2, SoundFacts
  <2> HIDE DEF c
  <2> QED BY <1>3, <1>4, <1>5, <2>1, <2>2 DEF Tiled
<1>7. Ended(c)
  <2> SUFFICES ASSUME NEW h \in DOMAIN c
               PROVE  c[h].type = "Z" <=>
                        \/ NextOf(c, h) = Top
                        \/ umbState = 0 /\ NextOf(c, h) = UMB_START_SEG
    BY DEF Ended
  <2> DEFINE f == BlockEndingAt(m, NearestEnd(Ends(m), h))
  <2>1. h \in DOMAIN m
    BY <1>3
  <2>2. f \in DOMAIN m /\ NextOf(m, f) = NextOf(c, h)
    BY <1>3, <2>1, NearestEndFacts
  <2>3. c[h].type = m[f].type
    BY CompressKeeps
  <2> HIDE DEF c, f
  <2> QED BY <2>2, <2>3 DEF Sound, Ended
<1>8. Covered(c)
  <2> SUFFICES ASSUME umbStart = UMB_START_SEG
               PROVE  /\ umbStart \in DOMAIN c
                      /\ c[umbStart].psp = MCB_DOS
                      /\ NextOf(c, umbStart) = FirstUmbSeg
    BY DEF Covered
  <2>1. /\ umbStart \in DOMAIN m /\ m[umbStart].psp = MCB_DOS
        /\ NextOf(m, umbStart) = FirstUmbSeg
    BY DEF Sound, Covered
  <2>2. ~IsFree(m, umbStart)
    BY <2>1, OwnerAssumption DEF IsFree
  <2> QED BY <2>1, <2>2, CompressKeeps
<1> HIDE DEF c
<1>9. Sound(c)
  BY <1>1, <1>6, <1>7, <1>8 DEF Sound
<1> QED BY <1>9 DEF c

-----------------------------------------------------------------------------
(* Splitting and joining blocks.                                           *)

\* A block that is not the cover of the UMB chain may be split in two: the
\* header of the second part takes one paragraph, the second part the type.
LEMMA SplitSound ==
  ASSUME NEW m, Sound(m), umbStart \in {UMB_START_SEG, NoUmb},
         NEW h \in DOMAIN m, m[h].psp # MCB_DOS,
         NEW n \in Nat, n < m[h].size,
         NEW lowPsp \in Owners, NEW highPsp \in Owners
  PROVE  Sound(SplitAt(m, h, n, lowPsp, highPsp))
<1> DEFINE c == SplitAt(m, h, n, lowPsp, highPsp)
           k == h + n + 1
<1>1. /\ Function(c) /\ DOMAIN c = DOMAIN m \cup {k}
      /\ c[h] = [type |-> "M", psp |-> lowPsp, size |-> n]
      /\ \A g \in DOMAIN m : g # h /\ g # k => c[g] = m[g]
  BY DEF SplitAt, Function
<1>2. /\ h \in Nat /\ m[h].size \in Nat /\ NextOf(m, h) = h + m[h].size + 1
      /\ k \in Nat /\ h < k /\ k < NextOf(m, h) /\ NextOf(m, h) <= Top
      /\ NextOf(m, h) \in Nat /\ Top \in Nat
  BY SoundFacts, ArenaBounds DEF NextOf
<1>3. k \notin DOMAIN m
  BY <1>2, SoundFacts
<1>4. c[k] = [type |-> m[h].type, psp |-> highPsp, size |-> m[h].size - n - 1]
  BY <1>2, <1>3 DEF SplitAt
<1> HIDE DEF c
<1>5. NextOf(c, h) = k /\ NextOf(c, k) = NextOf(m, h)
  <2>1. c[h].size = n /\ c[k].size = m[h].size - n - 1
    BY <1>1, <1>4
  <2> QED BY <2>1, <1>2 DEF NextOf
<1>6. \A g \in DOMAIN m : g # h => c[g] = m[g] /\ NextOf(c, g) = NextOf(m, g)
  BY <1>1, <1>3 DEF NextOf
<1>7. \A g \in DOMAIN c : g \in DOMAIN m \/ g = k
  BY <1>1
<1>8. \A g \in DOMAIN c : c[g] \in Block
  <2>1. c[h] \in Block
    BY <1>1 DEF Block
  <2>2. c[k] \in Block
    <3>1. m[h].type \in {"M", "Z"} /\ m[h].size - n - 1 \in Nat
      BY <1>2 DEF Sound, Tiled, Block
    <3> QED BY <3>1, <1>4 DEF Block
  <2>3. \A g \in DOMAIN m : m[g] \in Block
    BY DEF Sound, Tiled
  <2> QED BY <2>1, <2>2, <2>3, <1>6, <1>7
<1>9. Tiled(c)
  <2>1. \A g \in DOMAIN c : g \in Nat /\ DOS_MEM_START <= g /\ g < Top
    BY <1>2, <1>7, SoundFacts, ArenaBounds
  <2>2. \A g \in DOMAIN c : NextOf(c, g) \in DOMAIN c \cup {Top}
    BY <1>1, <1>5, <1>6, <1>7, SoundFacts
  <2>3. ASSUME NEW f \in DOMAIN c, NEW g \in DOMAIN c, f < g
        PROVE  NextOf(c, f) <= g
    <3>1. CASE f = h
      BY <3>1, <2>3, <1>2, <1>5, <1>7, SoundFacts
    <3>2. CASE f = k
      BY <3>2, <2>3, <1>2, <1>5, <1>7, SoundFacts
    <3>3. CASE f \in DOMAIN m /\ f # h
      <4>1. f < h => NextOf(m, f) <= h
        BY <3>3, SoundFacts
      <4>2. h < f => NextOf(m, h) <= f
        BY <3>3, SoundFacts
      <4>3. f \in Nat /\ NextOf(m, f) \in Nat /\ NextOf(c, f) = NextOf(m, f)
        BY <3>3, <1>6, SoundFacts
      <4>4. CASE g = k
        BY <4>1, <4>2, <4>3, <4>4, <2>3, <3>3, <1>2
      <4>5. CASE g \in DOMAIN m
        BY <4>3, <4>5, <2>3, <3>3, SoundFacts
      <4> QED BY <4>4, <4>5, <1>7
    <3> QED BY <3>1, <3>2, <3>3, <1>7
  <2>4. DOS_MEM_START \in DOMAIN c
    BY <1>1, SoundFacts
  <2> QED BY <1>8, <2>1, <2>2, <2>3, <2>4 DEF Tiled
<1>10. Ended(c)
  <2> SUFFICES ASSUME NEW g \in DOMAIN c
               PROVE  c[g].type = "Z" <=>
                        \/ NextOf(c, g) = Top
                        \/ umbState = 0 /\ NextOf(c, g) = UMB_START_SEG
    BY DEF Ended
  <2>1. \A x \in DOMAIN m : m[x].type = "Z" <=>
                        \/ NextOf(m, x) = Top
                        \/ umbState = 0 /\ NextOf(m, x) = UMB_START_SEG
    BY DEF Sound, Ended
  <2>2. CASE g = h
    <3>1. c[g].type # "Z" /\ NextOf(c, g) = k /\ k # Top
      BY <2>2, <1>1, <1>2, <1>5
    <3>2. k # UMB_START_SEG
      <4>1. CASE umbStart = UMB_START_SEG
        BY <4>1, <1>3 DEF Sound, Covered
      <4>2. CASE umbStart # UMB_START_SEG
        BY <4>2, <1>2 DEF Top
      <4> QED BY <4>1, <4>2
    <3> QED BY <3>1, <3>2
  <2>3. CASE g = k
    <3>1. c[g].type = m[h].type /\ NextOf(c, g) = NextOf(m, h)
      BY <2>3, <1>4, <1>5
    <3> QED BY <2>1, <3>1
  <2>4. CASE g \in DOMAIN m /\ g # h
    <3>1. c[g].type = m[g].type /\ NextOf(c, g) = NextOf(m, g)
      BY <2>4, <1>6
    <3> QED BY <2>1, <2>4, <3>1
  <2> QED BY <2>2, <2>3, <2>4, <1>7
<1>11. Covered(c)
  <2> SUFFICES ASSUME umbStart = UMB_START_SEG
               PROVE  /\ umbStart \in DOMAIN c
                      /\ c[umbStart].psp = MCB_DOS
                      /\ NextOf(c, umbStart) = FirstUmbSeg
    BY DEF Covered
  <2>1. /\ umbStart \in DOMAIN m /\ m[umbStart].psp = MCB_DOS
        /\ NextOf(m, umbStart) = FirstUmbSeg
    BY DEF Sound, Covered
  <2> QED BY <2>1, <1>1, <1>6
<1>12. Sound(c)
  BY <1>1, <1>9, <1>10, <1>11 DEF Sound
<1> QED BY <1>12 DEF c

\* A block that is not the cover of the UMB chain may swallow the free block
\* behind it, and takes its type.
LEMMA AbsorbSound ==
  ASSUME NEW m, Sound(m), umbStart \in {UMB_START_SEG, NoUmb}, psp \in Psps,
         NEW h \in DOMAIN m, m[h].psp # MCB_DOS
  PROVE  /\ Sound(Absorb(m, h))
         /\ h \in DOMAIN Absorb(m, h)
         /\ Absorb(m, h)[h].size = Extent(m, h)
         /\ Absorb(m, h)[h].psp = psp
         /\ Extent(m, h) \in Nat
<1> DEFINE c == Absorb(m, h)
           j == Joined(m, h)
<1>1. /\ h \in Nat /\ m[h].size \in Nat /\ NextOf(m, h) = h + m[h].size + 1
      /\ Top \in Nat
  BY SoundFacts, ArenaBounds DEF NextOf
<1>2. /\ j \in DOMAIN m /\ h <= j
      /\ \A g \in DOMAIN m : h < g /\ g < NextOf(m, j) => g = j
      /\ m[j].psp # MCB_DOS
      /\ h + Extent(m, h) + 1 = NextOf(m, j)
      /\ Extent(m, h) \in Nat
  <2>1. CASE ~CanJoin(m, h)
    <3>1. j = h /\ Extent(m, h) = m[h].size
      BY <2>1 DEF Joined, Extent
    <3> QED BY <3>1, <1>1, SoundFacts
  <2>2. CASE CanJoin(m, h)
    <3>1. j = NextOf(m, h) /\ m[h].type = "M" /\ m[j].psp = MCB_FREE
      BY <2>2 DEF Joined, CanJoin, IsFree
    <3>2. j # Top
      BY <3>1 DEF Sound, Ended
    <3>3. j \in DOMAIN m
      BY <3>1, <3>2, SoundFacts
    <3>4. m[j].size \in Nat /\ NextOf(m, j) = j + m[j].size + 1 /\ h < j
      BY <3>1, <3>3, SoundFacts DEF NextOf
    <3>5. Extent(m, h) = m[h].size + m[j].size + 1
      BY <2>2, <3>1 DEF Extent
    <3>6. \A g \in DOMAIN m : h < g /\ g < NextOf(m, j) => g = j
      <4> SUFFICES ASSUME NEW g \in DOMAIN m, h < g, g < NextOf(m, j), g # j
                   PROVE  FALSE
        OBVIOUS
      <4>1. j <= g
        BY <3>1, SoundFacts
      <4>2. j < g
        BY <4>1, <3>3, SoundFacts
      <4> QED BY <4>2, <3>3, SoundFacts
    <3>7. m[j].psp # MCB_DOS
      BY <3>1, OwnerAssumption
    <3> QED BY <3>1, <3>3, <3>4, <3>5, <3>6, <3>7, <1>1
  <2> QED BY <2>1, <2>2
<1>3. /\ Function(c) /\ DOMAIN c = DOMAIN m \ ({j} \ {h})
      /\ c[h] = [type |-> m[j].type, psp |-> psp, size |-> Extent(m, h)]
      /\ \A g \in DOMAIN c : g # h => c[g] = m[g]
  BY DEF Absorb, Function
<1> HIDE DEF c, j
<1>4. h \in DOMAIN c /\ \A g \in DOMAIN c : g \in DOMAIN m
  BY <1>3
<1>5. NextOf(c, h) = NextOf(m, j)
  BY <1>2, <1>3 DEF NextOf
<1>6. \A g \in DOMAIN c : g # h => c[g] = m[g] /\ NextOf(c, g) = NextOf(m, g)
  BY <1>3 DEF NextOf
<1>7. \A g \in DOMAIN c : c[g] \in Block
  <2>1. c[h] \in Block
    <3>1. m[j].type \in {"M", "Z"} /\ psp \in Owners
      BY <1>2 DEF Sound, Tiled, Block, Owners
    <3> QED BY <3>1, <1>2, <1>3 DEF Block
  <2>2. \A g \in DOMAIN m : m[g] \in Block
    BY DEF Sound, Tiled
  <2> QED BY <2>1, <2>2, <1>4, <1>6
<1>8. Tiled(c)
  <2>1. \A g \in DOMAIN c : g \in Nat /\ DOS_MEM_START <= g /\ g < Top
    BY <1>4, SoundFacts
  <2>2. ASSUME NEW g \in DOMAIN c PROVE NextOf(c, g) \in DOMAIN c \cup {Top}
    <3>1. PICK f \in DOMAIN m : NextOf(c, g) = NextOf(m, f) /\ (f = j \/ f # h)
                               /\ (f = j \/ f = g)
      BY <1>2, <1>4, <1>5, <1>6, <2>2
    <3>2. NextOf(m, f) \in DOMAIN m \cup {Top}
      BY SoundFacts
    <3>3. NextOf(m, f) = j => j = h
      <4> SUFFICES ASSUME NextOf(m, f) = j, j # h PROVE FALSE
        OBVIOUS
      <4>1. f # j
        BY SoundFacts
      <4>2. f < j /\ h < j /\ f # h
        BY <4>1, <3>1, <1>1, <1>2, SoundFacts
      <4>3. NextOf(m, h) <= j /\ (f < h => NextOf(m, f) <= h)
        BY <4>2, <1>2, SoundFacts
      <4>4. h < f => f = j
        BY <1>2, <4>2, SoundFacts
      <4> QED BY <4>1, <4>2, <4>3, <4>4, <1>1, SoundFacts
    <3> QED BY <3>1, <3>2, <3>3, <1>3
  <2>3. ASSUME NEW f \in DOMAIN c, NEW g \in DOMAIN c, f < g
        PROVE  NextOf(c, f) <= g
    <3>1. CASE f = h
      <4>1. g # j /\ g \in DOMAIN m /\ g \in Nat /\ NextOf(m, j) \in Nat
        BY <3>1, <2>3, <1>2, <1>3, <1>1, SoundFacts
      <4>2. ~(g < NextOf(m, j))
        BY <4>1, <3>1, <2>3, <1>2
      <4> QED BY <4>1, <4>2, <3>1, <1>5
    <3>2. CASE f # h
      BY <3>2, <2>3, <1>4, <1>6, SoundFacts
    <3> QED BY <3>1, <3>2
  <2>4. DOS_MEM_START \in DOMAIN c
    <3>1. j # h => j # DOS_MEM_START
      BY <1>1, <1>2, SoundFacts, ArenaBounds
    <3> QED BY <3>1, <1>3, SoundFacts
  <2> QED BY <1>7, <2>1, <2>2, <2>3, <2>4 DEF Tiled
<1>9. Ended(c)
  <2> SUFFICES ASSUME NEW g \in DOMAIN c
               PROVE  c[g].type = "Z" <=>
                        \/ NextOf(c, g) = Top
                        \/ umbState = 0 /\ NextOf(c, g) = UMB_START_SEG
    BY DEF Ended
  <2>1. \A x \in DOMAIN m : m[x].type = "Z" <=>
                        \/ NextOf(m, x) = Top
                        \/ umbState = 0 /\ NextOf(m, x) = UMB_START_SEG
    BY DEF Sound, Ended
  <2>2. CASE g = h
    <3>1. c[g].type = m[j].type /\ NextOf(c, g) = NextOf(m, j)
      BY <2>2, <1>3, <1>5
    <3> QED BY <2>1, <3>1, <1>2
  <2>3. CASE g # h
    <3>1. c[g].type = m[g].type /\ NextOf(c, g) = NextOf(m, g)
      BY <2>3, <1>6
    <3> QED BY <2>1, <1>4, <3>1
  <2> QED BY <2>2, <2>3
<1>10. Covered(c)
  <2> SUFFICES ASSUME umbStart = UMB_START_SEG
               PROVE  /\ umbStart \in DOMAIN c
                      /\ c[umbStart].psp = MCB_DOS
                      /\ NextOf(c, umbStart) = FirstUmbSeg
    BY DEF Covered
  <2>1. /\ umbStart \in DOMAIN m /\ m[umbStart].psp = MCB_DOS
        /\ NextOf(m, umbStart) = FirstUmbSeg
    BY DEF Sound, Covered
  <2> QED BY <2>1, <1>2, <1>3, <1>6
<1>11. Sound(c)
  BY <1>3, <1>8, <1>9, <1>10 DEF Sound
<1>12. c[h].size = Extent(m, h) /\ c[h].psp = psp
  BY <1>3
<1> QED BY <1>2, <1>4, <1>11, <1>12 DEF c

\* Blocks may change hands, all but those of DOS.
LEMMA OwnersSound ==
  ASSUME NEW m, Sound(m), NEW c, Function(c), DOMAIN c = DOMAIN m,
         \A h \in DOMAIN m :
           /\ c[h] \in Block
           /\ c[h].type = m[h].type /\ c[h].size = m[h].size
           /\ m[h].psp = MCB_DOS => c[h].psp = MCB_DOS
  PROVE  Sound(c)
<1>1. \A h \in DOMAIN m : NextOf(c, h) = NextOf(m, h)
  BY DEF NextOf
<1>2. Tiled(c)
  BY <1>1 DEF Sound, Tiled
<1>3. Ended(c)
  BY <1>1 DEF Sound, Ended
<1>4. Covered(c)
  BY <1>1 DEF Sound, Covered
<1> QED BY <1>2, <1>3, <1>4 DEF Sound

-----------------------------------------------------------------------------
(* The operations.                                                         *)

\* What the search settles on is a free block that is large enough.
LEMMA ChosenFits ==
  ASSUME NEW m, NEW n, NEW h \in Chosen(m, n)
  PROVE  h \in DOMAIN m /\ IsFree(m, h) /\ n <= m[h].size
BY DEF Chosen, Fitting, FreeIn, FirstPass, SecondPass, Chain

\* Whatever the strategy, carving a block out of a free one keeps the chain
\* sound.
LEMMA CarveSound ==
  ASSUME NEW m, Sound(m), Settled, NEW n \in Nat, NEW h \in Chosen(m, n)
  PROVE  Sound(Carve(m, h, n)) /\ Carved(m, h, n) \in Nat
<1>1. /\ h \in DOMAIN m /\ n <= m[h].size /\ m[h].psp # MCB_DOS
      /\ h \in Nat /\ m[h].size \in Nat
  BY ChosenFits, SoundFacts, OwnerAssumption DEF IsFree
<1>2. psp \in Owners /\ MCB_FREE \in Owners /\ umbStart \in {UMB_START_SEG, NoUmb}
  BY DEF Settled, Owners
<1>3. CASE m[h].size = n
  <2> DEFINE c == [m EXCEPT ![h].psp = psp]
  <2>1. Function(c) /\ DOMAIN c = DOMAIN m
    BY DEF Function
  <2>2. ASSUME NEW g \in DOMAIN m
        PROVE  /\ c[g] \in Block
               /\ c[g].type = m[g].type /\ c[g].size = m[g].size
               /\ m[g].psp = MCB_DOS => c[g].psp = MCB_DOS
    BY <1>1, <1>2, <2>2 DEF Sound, Tiled, Block
  <2> HIDE DEF c
  <2>3. Sound(c)
    BY <2>1, <2>2, OwnersSound
  <2> QED BY <1>1, <1>3, <2>3 DEF Carve, Carved, c
<1>4. CASE m[h].size # n /\ memAllocStrategy.fit = "last"
  <2>1. m[h].size - n - 1 \in Nat /\ m[h].size - n - 1 < m[h].size
    BY <1>1, <1>4
  <2>2. Sound(SplitAt(m, h, m[h].size - n - 1, MCB_FREE, psp))
    BY <1>1, <1>2, <2>1, SplitSound
  <2> QED BY <1>1, <1>4, <2>2 DEF Carve, Carved
<1>5. CASE m[h].size # n /\ memAllocStrategy.fit # "last"
  <2>1. Sound(SplitAt(m, h, n, psp, MCB_FREE))
    BY <1>1, <1>2, <1>5, SplitSound
  <2> QED BY <1>1, <1>5, <2>1 DEF Carve, Carved
<1> QED BY <1>3, <1>4, <1>5

\* Shrinking a block, and growing it into part of the free block behind.
LEMMA TrimSound ==
  ASSUME NEW m, Sound(m), Settled, NEW h \in DOMAIN m, m[h].psp # MCB_DOS,
         NEW n \in Nat, n # m[h].size, n < Extent(m, h)
  PROVE  Sound(Trim(m, h, n))
<1>1. /\ psp \in Owners /\ MCB_FREE \in Owners /\ psp \in Psps
      /\ umbStart \in {UMB_START_SEG, NoUmb} /\ psp # MCB_DOS
  BY OwnerAssumption DEF Settled, Owners
<1>2. CASE n < m[h].size
  BY <1>1, <1>2, SplitSound DEF Trim
<1>3. CASE ~(n < m[h].size)
  <2> DEFINE c == Absorb(m, h)
  <2>1. Sound(c) /\ h \in DOMAIN c /\ c[h].size = Extent(m, h) /\ c[h].psp = psp
    BY <1>1, AbsorbSound
  <2> HIDE DEF c
  <2>2. Sound(SplitAt(c, h, n, psp, MCB_FREE))
    BY <1>1, <2>1, SplitSound
  <2> QED BY <1>3, <2>2 DEF Trim, c
<1> QED BY <1>2, <1>3

\* The end of a process other than DOS leaves the chain sound.
LEMMA ReleaseSound ==
  ASSUME NEW m, Sound(m), NEW p \in Psps \cup {LoadfixPsp}
  PROVE  Sound(Release(m, p))
<1> DEFINE c == Release(m, p)
<1>1. Function(c) /\ DOMAIN c = DOMAIN m
  BY DEF Release, Function
<1>2. ASSUME NEW g \in DOMAIN m
      PROVE  /\ c[g] \in Block
             /\ c[g].type = m[g].type /\ c[g].size = m[g].size
             /\ m[g].psp = MCB_DOS => c[g].psp = MCB_DOS
  <2>1. m[g] \in Block /\ MCB_FREE \in Owners /\ p # MCB_DOS
    BY OwnerAssumption DEF Sound, Tiled, Owners
  <2>2. CASE g \in Owned(m, p)
    <3>1. m[g].psp = p
      BY <2>2 DEF Owned
    <3>2. c[g] = [m[g] EXCEPT !.psp = MCB_FREE]
      BY <2>2 DEF Release
    <3> QED BY <2>1, <3>1, <3>2 DEF Block
  <2>3. CASE g \notin Owned(m, p)
    BY <2>1, <2>3 DEF Release
  <2> QED BY <2>2, <2>3
<1> HIDE DEF c
<1>3. Sound(c)
  BY <1>1, <1>2, OwnersSound
<1> QED BY <1>3 DEF c

-----------------------------------------------------------------------------
(* The invariant.                                                          *)

LEMMA SoundStays ==
  ASSUME umbStart' = umbStart, umbState' = umbState, Sound(mcb')
  PROVE  Sound(mcb)'
BY DEF Sound, Tiled, Ended, Covered, Top, Function, NextOf

\* DOS_SetupMemory lays out four blocks that tile conventional memory.
LEMMA SetupSound == Init => IInv
<1> SUFFICES ASSUME Init PROVE IInv
  OBVIOUS
<1> DEFINE dev == DOS_MEM_START
           env == DOS_MEM_START + 2
           lock == DOS_MEM_START + 2 + EnvSize + 1
<1> USE DEF Init
<1>1. /\ dev \in Nat /\ env \in Nat /\ lock \in Nat /\ FirstFree \in Nat
      /\ EnvSize \in Nat /\ LockSize \in Nat /\ UMB_START_SEG \in Nat
      /\ dev < env /\ env < lock /\ lock < FirstFree /\ FirstFree < UMB_START_SEG
      /\ FirstFree = lock + LockSize + 1 /\ lock = env + EnvSize + 1
  BY ArenaAssumption DEF FirstFree
<1>2. Settled
  <2>1. memAllocStrategy \in [high : Highs, fit : Fits]
    BY DEF Highs, Fits
  <2>2. ret \in Answers
    BY DEF Answers, Done, Answer
  <2>3. umbStart = NoUmb /\ NoUmb # UMB_START_SEG /\ umbState = 0 /\ 0 # 1
    BY ArenaAssumption
  <2>4. booted \in BOOLEAN
    OBVIOUS
  <2>5. psp \in Psps
    OBVIOUS
  <2> HIDE DEF Init
  <2> QED BY <2>1, <2>2, <2>3, <2>4, <2>5 DEF Settled
<1>3. /\ Function(mcb) /\ DOMAIN mcb = {dev, env, lock, FirstFree}
      /\ mcb[dev] = [type |-> "M", psp |-> MCB_DOS, size |-> 1]
      /\ mcb[env] = [type |-> "M", psp |-> MCB_FREE, size |-> EnvSize]
      /\ mcb[lock] = [type |-> "M", psp |-> LoadfixPsp, size |-> LockSize]
      /\ mcb[FirstFree] = [type |-> "Z", psp |-> MCB_FREE,
                           size |-> UMB_START_SEG - 1 - FirstFree]
  BY <1>1 DEF SetupMemory, Function
<1>4. /\ NextOf(mcb, dev) = env /\ NextOf(mcb, env) = lock
      /\ NextOf(mcb, lock) = FirstFree /\ NextOf(mcb, FirstFree) = UMB_START_SEG
  <2>1. /\ mcb[dev].size = 1 /\ mcb[env].size = EnvSize
        /\ mcb[lock].size = LockSize
        /\ mcb[FirstFree].size = UMB_START_SEG - 1 - FirstFree
    BY <1>3
  <2> QED BY <1>1, <2>1 DEF NextOf
<1>5. Top = UMB_START_SEG /\ umbStart # UMB_START_SEG /\ umbState = 0
  BY ArenaAssumption DEF Top
<1>6. \A h \in DOMAIN mcb : mcb[h] \in Block
  BY <1>1, <1>3 DEF Block, Owners
<1> HIDE DEF Init, dev, env, lock
<1>7. Tiled(mcb)
  <2>1. \A h \in DOMAIN mcb : h \in Nat /\ DOS_MEM_START <= h /\ h < Top
    BY <1>1, <1>3, <1>5 DEF dev
  <2>2. \A h \in DOMAIN mcb : NextOf(mcb, h) \in DOMAIN mcb \cup {Top}
    BY <1>3, <1>4, <1>5
  <2>3. \A h, g \in DOMAIN mcb : h < g => NextOf(mcb, h) <= g
    BY <1>1, <1>3, <1>4
  <2> QED BY <1>3, <1>6, <2>1, <2>2, <2>3 DEF Tiled, dev
<1>8. Ended(mcb)
  BY <1>1, <1>3, <1>4, <1>5 DEF Ended
<1>9. Covered(mcb)
  BY <1>5 DEF Covered
<1> QED BY <1>2, <1>3, <1>7, <1>8, <1>9 DEF IInv, Sound

\* DOS_BuildUMBChain adds the cover and the UMBs behind the last block.
LEMMA BuildSound ==
  ASSUME IInv, NEW active \in BOOLEAN, BuildUMBChain(active)
  PROVE  IInv'
<1> USE DEF BuildUMBChain
<1>1. /\ umbStart = NoUmb /\ umbState = 0 /\ umbStart # UMB_START_SEG
      /\ Top = UMB_START_SEG
  BY ArenaAssumption DEF IInv, Settled, Top
<1>2. Settled'
  BY <1>1 DEF IInv, Settled, Answers, Done, Answer
<1>3. CASE ~active
  <2>1. mcb' = mcb /\ umbStart' = umbStart /\ umbState' = umbState
    BY <1>1, <1>3
  <2>2. Sound(mcb')
    BY <2>1 DEF IInv
  <2> QED BY <1>2, <2>1, <2>2, SoundStays DEF IInv
<1>4. CASE active
  <2>1. PICK last \in Chain(mcb, DOS_MEM_START) :
          /\ mcb[last].type = "Z"
          /\ LET cover == NextOf(mcb, last) IN
             mcb' = [g \in Heads \cup {cover, FirstUmbSeg} |->
               IF g = cover
               THEN [type |-> "M", psp |-> MCB_DOS,
                     size |-> FirstUmbSeg - cover - 1]
               ELSE IF g = FirstUmbSeg
               THEN [type |-> "Z", psp |-> MCB_FREE,
                     size |-> UmbTop - FirstUmbSeg - 1]
               ELSE mcb[g]]
    BY <1>4
  <2>2. last \in Heads /\ NextOf(mcb, last) = UMB_START_SEG
    BY <1>1, <2>1 DEF Chain, IInv, Sound, Ended, Heads
  <2> DEFINE c == mcb'
  <2>3. /\ umbStart' = UMB_START_SEG /\ umbState' = 0
        /\ Top' = UmbTop
    BY <1>4 DEF Top
  <2>4. /\ Heads \subseteq Nat
        /\ \A h \in Heads : h < UMB_START_SEG /\ NextOf(mcb, h) <= UMB_START_SEG
    BY <1>1, SoundFacts DEF IInv, Heads
  <2>5. /\ Function(c) /\ DOMAIN c = Heads \cup {UMB_START_SEG, FirstUmbSeg}
        /\ c[UMB_START_SEG] = [type |-> "M", psp |-> MCB_DOS,
                              size |-> FirstUmbSeg - UMB_START_SEG - 1]
        /\ c[FirstUmbSeg] = [type |-> "Z", psp |-> MCB_FREE,
                            size |-> UmbTop - FirstUmbSeg - 1]
        /\ \A h \in Heads : c[h] = mcb[h]
    BY <2>1, <2>2, <2>4, ArenaBounds DEF Function
  <2> HIDE DEF c
  <2>6. /\ NextOf(c, UMB_START_SEG) = FirstUmbSeg
        /\ NextOf(c, FirstUmbSeg) = UmbTop
        /\ \A h \in Heads : NextOf(c, h) = NextOf(mcb, h)
    <3>1. /\ c[UMB_START_SEG].size = FirstUmbSeg - UMB_START_SEG - 1
          /\ c[FirstUmbSeg].size = UmbTop - FirstUmbSeg - 1
      BY <2>5
    <3> QED BY <2>5, <3>1, ArenaBounds DEF NextOf
  <2>7. \A h \in DOMAIN c : c[h] \in Block
    <3>1. \A h \in Heads : mcb[h] \in Block
      BY DEF IInv, Sound, Tiled, Heads
    <3>2. c[UMB_START_SEG] \in Block /\ c[FirstUmbSeg] \in Block
      <4>1. /\ FirstUmbSeg - UMB_START_SEG - 1 \in Nat
            /\ UmbTop - FirstUmbSeg - 1 \in Nat
            /\ MCB_DOS \in Owners /\ MCB_FREE \in Owners
        BY ArenaBounds DEF Owners
      <4> QED BY <4>1, <2>5 DEF Block
    <3> QED BY <3>1, <3>2, <2>5
  <2>8. /\ DOS_MEM_START \in DOMAIN c
        /\ \A h \in DOMAIN c : h \in Nat /\ DOS_MEM_START <= h /\ h < UmbTop
    <3>1. DOS_MEM_START \in Heads /\ \A h \in Heads : DOS_MEM_START <= h
      BY SoundFacts DEF IInv, Heads
    <3>2. DOS_MEM_START < UMB_START_SEG
      BY <2>4, <3>1
    <3>3. \A h \in DOMAIN c : h \in Heads \/ h = UMB_START_SEG \/ h = FirstUmbSeg
      BY <2>5
    <3>4. \A h \in Heads : h \in Nat /\ h < UMB_START_SEG
      BY <2>4
    <3> HIDE DEF Heads, BuildUMBChain
    <3>5. \A h \in DOMAIN c : h \in Nat /\ DOS_MEM_START <= h /\ h < UmbTop
      <4> SUFFICES ASSUME NEW h \in DOMAIN c
                   PROVE  h \in Nat /\ DOS_MEM_START <= h /\ h < UmbTop
        OBVIOUS
      <4>1. CASE h \in Heads
        <5>1. h \in Nat /\ DOS_MEM_START <= h /\ h < UMB_START_SEG
          BY <3>1, <3>4, <4>1
        <5> QED BY <5>1, ArenaBounds
      <4>2. CASE h = UMB_START_SEG \/ h = FirstUmbSeg
        BY <3>2, <4>2, ArenaBounds
      <4> QED BY <3>3, <4>1, <4>2
    <3> QED BY <2>5, <3>1, <3>5
  <2>9. \A h \in DOMAIN c : NextOf(c, h) \in DOMAIN c \cup {UmbTop}
    BY <1>1, <2>5, <2>6, SoundFacts DEF IInv, Heads
  <2>10. \A h, g \in DOMAIN c : h < g => NextOf(c, h) <= g
    <3>1. \A h, g \in Heads : h < g => NextOf(mcb, h) <= g
      BY SoundFacts DEF IInv, Heads
    <3>2. \A h \in Heads : NextOf(mcb, h) \in Nat
      BY SoundFacts DEF IInv, Heads
    <3>3. \A h \in DOMAIN c : h \in Heads \/ h = UMB_START_SEG \/ h = FirstUmbSeg
      BY <2>5
    <3>4. \A h \in Heads : /\ h \in Nat /\ h < UMB_START_SEG
                          /\ NextOf(c, h) = NextOf(mcb, h)
                          /\ NextOf(mcb, h) <= UMB_START_SEG
      BY <2>4, <2>6
    <3> HIDE DEF Heads, BuildUMBChain
    <3> SUFFICES ASSUME NEW h \in DOMAIN c, NEW g \in DOMAIN c, h < g
                 PROVE  NextOf(c, h) <= g
      OBVIOUS
    <3>5. CASE h \in Heads
      BY <3>1, <3>2, <3>3, <3>4, <3>5, ArenaBounds
    <3>6. CASE h \notin Heads
      BY <2>6, <3>3, <3>4, <3>6, ArenaBounds
    <3> QED BY <3>5, <3>6
  <2>11. \A h \in DOMAIN c : c[h].type = "Z" <=>
            NextOf(c, h) = UmbTop \/ NextOf(c, h) = UMB_START_SEG
    <3>1. \A h \in Heads : mcb[h].type = "Z" <=> NextOf(mcb, h) = UMB_START_SEG
      BY <1>1 DEF IInv, Sound, Ended, Heads
    <3>2. \A h \in Heads : NextOf(mcb, h) # UmbTop
      BY <2>4, ArenaBounds, SoundFacts DEF IInv, Heads
    <3> QED BY <2>5, <2>6, <3>1, <3>2, ArenaBounds
  <2>12. c[UMB_START_SEG].psp = MCB_DOS
    BY <2>5
  <2>13. Sound(mcb)'
    BY <2>3, <2>5, <2>6, <2>7, <2>8, <2>9, <2>10, <2>11, <2>12
       DEF Sound, Tiled, Ended, Covered, c, Function, NextOf
  <2> QED BY <1>2, <2>13 DEF IInv
<1> QED BY <1>3, <1>4

LEMMA AnswerTypes ==
  ASSUME NEW op \in {"alloc", "resize", "free", "freeProcess", "done"},
         NEW h \in Nat \cup Owners, NEW ok \in BOOLEAN, NEW b \in Nat
  PROVE  Answer(op, h, ok, b) \in Answers
BY DEF Answer, Answers

LEMMA DoneTypes ==
  ASSUME NEW ok \in BOOLEAN
  PROVE  Done(ok) \in Answers
BY DEF Done, Answer, Answers

LEMMA AllocateSound ==
  ASSUME IInv, NEW n \in Requests, AllocateMemory(n)
  PROVE  IInv'
<1> DEFINE m == Compress(mcb)
<1>1. n \in Nat /\ umbStart \in {UMB_START_SEG, NoUmb} /\ Settled
  BY RequestAssumption DEF IInv, Settled
<1>2. Sound(m)
  BY <1>1, CompressSound DEF IInv
<1>3. UNCHANGED <<psp, memAllocStrategy, umbStart, umbState, booted>>
  BY DEF AllocateMemory
<1>4. Sound(mcb') /\ ret' \in Answers
  <2> HIDE DEF m
  <2>1. \/ \E h \in Chosen(m, n) :
             /\ mcb' = Carve(m, h, n)
             /\ ret' = Answer("alloc", Carved(m, h, n), TRUE, n)
        \/ /\ mcb' = m
           /\ \E b \in LargestFree(m) : ret' = Answer("alloc", 0, FALSE, b)
    BY DEF AllocateMemory, m
  <2>2. ASSUME NEW h \in Chosen(m, n), mcb' = Carve(m, h, n),
               ret' = Answer("alloc", Carved(m, h, n), TRUE, n)
        PROVE  Sound(mcb') /\ ret' \in Answers
    BY <1>1, <1>2, <2>2, CarveSound, AnswerTypes
  <2>3. ASSUME NEW b \in LargestFree(m), mcb' = m,
               ret' = Answer("alloc", 0, FALSE, b)
        PROVE  Sound(mcb') /\ ret' \in Answers
    <3>1. b \in Nat
      BY <1>2, SoundFacts
         DEF LargestFree, FreeIn, Searched, FirstPass, SecondPass, Chain
    <3> QED BY <1>2, <2>3, <3>1, AnswerTypes
  <2> QED BY <2>1, <2>2, <2>3
<1> HIDE DEF m
<1>5. Settled'
  BY <1>1, <1>3, <1>4 DEF Settled
<1>6. Sound(mcb)'
  BY <1>3, <1>4, SoundStays
<1> QED BY <1>5, <1>6 DEF IInv

LEMMA ResizeSound ==
  ASSUME IInv, NEW h \in Segments, NEW n \in Requests, ResizeMemory(h, n)
  PROVE  IInv'
<1> DEFINE m == Compress(mcb)
<1>1. n \in Nat /\ umbStart \in {UMB_START_SEG, NoUmb} /\ Settled /\ psp \in Psps
  BY RequestAssumption DEF IInv, Settled
<1>2. Sound(m) /\ Sound(mcb)
  BY <1>1, CompressSound DEF IInv
<1>3. UNCHANGED <<psp, memAllocStrategy, umbStart, umbState, booted>>
  BY DEF ResizeMemory
<1>4. Sound(mcb') /\ ret' \in Answers
  <2>1. CASE h \notin Heads
    <3>1. mcb' = mcb /\ ret' = Answer("done", 0, FALSE, 0)
      BY <2>1 DEF ResizeMemory, Done
    <3> QED BY <1>2, <3>1, AnswerTypes
  <2>2. CASE h \in Heads
    <3>1. /\ mcb[h].psp \in Psps
          /\ \/ n = m[h].size /\ mcb' = m
             \/ n # m[h].size /\ n < Extent(m, h) /\ mcb' = Trim(m, h, n)
             \/ mcb' = Absorb(m, h)
          /\ \/ ret' = Answer("resize", h, TRUE, n)
             \/ ret' = Answer("resize", h, FALSE, Extent(m, h))
      BY <2>2 DEF ResizeMemory
    <3>2. h \in DOMAIN mcb /\ ~IsFree(mcb, h) /\ mcb[h].psp # MCB_DOS
      BY <2>2, <3>1, OwnerAssumption DEF Heads, IsFree
    <3>3. h \in DOMAIN m /\ m[h].psp # MCB_DOS
      <4>1. h \in DOMAIN m
        BY <1>2, <3>2, CompressKeeps
      <4> QED BY <1>2, <3>2, <4>1, CompressKeeps
    <3>4. h \in Nat /\ Extent(m, h) \in Nat
      BY <1>1, <1>2, <3>2, <3>3, AbsorbSound, SoundFacts
    <3> HIDE DEF m
    <3>5. Sound(mcb')
      <4>1. CASE mcb' = m
        BY <1>2, <4>1
      <4>2. CASE n # m[h].size /\ n < Extent(m, h) /\ mcb' = Trim(m, h, n)
        BY <1>1, <1>2, <3>3, <4>2, TrimSound
      <4>3. CASE mcb' = Absorb(m, h)
        BY <1>1, <1>2, <3>3, <4>3, AbsorbSound
      <4> QED BY <3>1, <4>1, <4>2, <4>3
    <3>6. ret' \in Answers
      BY <1>1, <3>1, <3>4, AnswerTypes
    <3> QED BY <3>5, <3>6
  <2> QED BY <2>1, <2>2
<1> HIDE DEF m
<1>5. Settled'
  BY <1>1, <1>3, <1>4 DEF Settled
<1>6. Sound(mcb)'
  BY <1>3, <1>4, SoundStays
<1> QED BY <1>5, <1>6 DEF IInv

LEMMA FreeSound ==
  ASSUME IInv, NEW h \in Segments, FreeMemory(h)
  PROVE  IInv'
<1>1. UNCHANGED <<psp, memAllocStrategy, umbStart, umbState, booted>>
  BY DEF FreeMemory
<1>2. Sound(mcb') /\ ret' \in Answers
  <2>1. CASE h < DOS_MEM_START \/ h \notin Heads
    <3>1. mcb' = mcb /\ ret' = Answer("done", 0, FALSE, 0)
      BY <2>1 DEF FreeMemory, Done
    <3> QED BY <3>1, AnswerTypes DEF IInv
  <2>2. CASE ~(h < DOS_MEM_START \/ h \notin Heads)
    <3> DEFINE c == [mcb EXCEPT ![h].psp = MCB_FREE]
    <3>1. /\ h \in DOMAIN mcb /\ mcb[h].psp # MCB_DOS
          /\ mcb' = c /\ ret' = Answer("free", h, TRUE, 0)
      BY <2>2 DEF FreeMemory, Heads
    <3>2. Function(c) /\ DOMAIN c = DOMAIN mcb
      BY DEF Function
    <3>3. ASSUME NEW g \in DOMAIN mcb
          PROVE  /\ c[g] \in Block
                 /\ c[g].type = mcb[g].type /\ c[g].size = mcb[g].size
                 /\ mcb[g].psp = MCB_DOS => c[g].psp = MCB_DOS
      <4>1. mcb[g] \in Block /\ MCB_FREE \in Owners
        BY DEF IInv, Sound, Tiled, Owners
      <4> QED BY <3>1, <4>1 DEF Block
    <3> HIDE DEF c
    <3>4. Sound(c)
      BY <3>2, <3>3, OwnersSound DEF IInv
    <3>5. h \in Nat
      BY <3>1, SoundFacts DEF IInv
    <3> QED BY <3>1, <3>4, <3>5, AnswerTypes
  <2> QED BY <2>1, <2>2
<1>3. Settled'
  BY <1>1, <1>2 DEF Settled, IInv
<1>4. Sound(mcb)'
  BY <1>1, <1>2, SoundStays
<1> QED BY <1>3, <1>4 DEF IInv

LEMMA FreeProcessSound ==
  ASSUME IInv, NEW p \in Psps \cup {LoadfixPsp}, FreeProcessMemory(p)
  PROVE  IInv'
<1>1. UNCHANGED <<psp, memAllocStrategy, umbStart, umbState, booted>>
  BY DEF FreeProcessMemory
<1>2. Sound(Release(mcb, p)) /\ umbStart \in {UMB_START_SEG, NoUmb}
  BY ReleaseSound DEF IInv, Settled
<1>3. Sound(mcb')
  BY <1>2, CompressSound DEF FreeProcessMemory
<1>4. ret' \in Answers
  BY AnswerTypes DEF FreeProcessMemory, Owners
<1>5. Settled'
  BY <1>1, <1>4 DEF Settled, IInv
<1>6. Sound(mcb)'
  BY <1>1, <1>3, SoundStays
<1> QED BY <1>5, <1>6 DEF IInv

\* Linking takes the "Z" from the last block of conventional memory, unlinking
\* puts it back: there is one such block, just below the UMB chain.
LEMMA LinkSound ==
  ASSUME IInv, NEW linkstate \in LinkStates, LinkUMBsToMemChain(linkstate)
  PROVE  IInv'
<1>1. UNCHANGED <<psp, memAllocStrategy, umbStart, booted>>
  BY DEF LinkUMBsToMemChain
<1>2. ret' \in Answers
  <2>1. \/ ret' = Done(FALSE) \/ ret' = Done(TRUE) \/ ret' = Done(linkstate <= 1)
    BY DEF LinkUMBsToMemChain
  <2>2. (linkstate <= 1) \in BOOLEAN
    OBVIOUS
  <2> QED BY <2>1, <2>2, DoneTypes, Zenon
<1>3. Sound(mcb) /\ umbStart \in {UMB_START_SEG, NoUmb} /\ umbState \in {0, 1}
  BY DEF IInv, Settled
<1>4. CASE mcb' = mcb /\ umbState' = umbState
  <2>1. Settled'
    BY <1>1, <1>2, <1>4 DEF IInv, Settled
  <2>2. Sound(mcb)'
    BY <1>1, <1>3, <1>4, SoundStays
  <2> QED BY <2>1, <2>2 DEF IInv
<1>5. ASSUME umbStart = UMB_START_SEG,
             NEW z \in DOMAIN mcb, NextOf(mcb, z) = UMB_START_SEG,
             NEW t \in {"M", "Z"}, mcb' = [mcb EXCEPT ![z].type = t],
             (t = "Z" /\ umbState' = 0) \/ (t = "M" /\ umbState' = 1)
      PROVE  IInv'
  <2> DEFINE c == [mcb EXCEPT ![z].type = t]
  <2>1. Settled'
    BY <1>1, <1>2, <1>5 DEF IInv, Settled
  <2>2. Function(c) /\ DOMAIN c = DOMAIN mcb
    BY DEF Function
  <2>3. \A h \in DOMAIN mcb : mcb[h] \in Block
    BY <1>3 DEF Sound, Tiled
  <2>4. /\ \A h \in DOMAIN mcb :
            c[h] \in Block /\ c[h].size = mcb[h].size /\ c[h].psp = mcb[h].psp
        /\ c[z].type = t
        /\ \A h \in DOMAIN mcb : h # z => c[h].type = mcb[h].type
    BY <2>3, <1>5 DEF Block
  <2> HIDE DEF c
  <2>5. \A h \in DOMAIN mcb : NextOf(c, h) = NextOf(mcb, h)
    BY <2>4 DEF NextOf
  <2>6. Top = UmbTop /\ Top' = Top /\ umbStart' = umbStart
        /\ UMB_START_SEG # UmbTop
    BY <1>1, <1>5, ArenaBounds DEF Top
  <2>7. Tiled(c)
    BY <1>3, <2>2, <2>4, <2>5 DEF Sound, Tiled
  <2>8. ASSUME NEW h \in DOMAIN mcb
        PROVE  c[h].type = "Z" <=>
                 \/ NextOf(c, h) = Top
                 \/ umbState' = 0 /\ NextOf(c, h) = UMB_START_SEG
    <3>1. CASE h = z
      BY <1>5, <2>4, <2>5, <2>6, <3>1
    <3>2. CASE h # z
      <4>1. NextOf(mcb, h) # UMB_START_SEG
        BY <1>3, <1>5, <3>2, EndsDiffer
      <4>2. c[h].type = mcb[h].type /\ NextOf(c, h) = NextOf(mcb, h)
        BY <2>4, <2>5, <3>2
      <4> QED BY <1>3, <4>1, <4>2 DEF Sound, Ended
    <3> QED BY <3>1, <3>2
  <2>9. Covered(c)
    BY <1>3, <2>2, <2>4, <2>5 DEF Sound, Covered
  <2>10. mcb' = c
    BY <1>5 DEF c
  <2>11. Tiled(mcb)'
    BY <2>6, <2>7, <2>10 DEF Tiled, NextOf
  <2>12. Ended(mcb)'
    BY <2>2, <2>6, <2>8, <2>10 DEF Ended, NextOf
  <2>13. Covered(mcb)'
    BY <2>6, <2>9, <2>10 DEF Covered, NextOf
  <2>14. Function(mcb)'
    BY <2>2, <2>10 DEF Function
  <2> QED BY <2>1, <2>11, <2>12, <2>13, <2>14 DEF IInv, Sound
<1>6. CASE /\ umbStart = UMB_START_SEG /\ umbState = 1 /\ Unlink
  <2>1. PICK h \in Heads, g \in Heads :
          /\ ScanStop(h) /\ ScanPrev(g, h)
          /\ mcb' = IF mcb[g].type = "M" /\ h = umbStart
                    THEN [mcb EXCEPT ![g].type = "Z"]
                    ELSE mcb
          /\ umbState' = 0
    BY <1>6 DEF Unlink
  <2>2. h \in DOMAIN mcb /\ g \in DOMAIN mcb
    BY DEF Heads
  <2>3. UMB_START_SEG \in DOMAIN mcb /\ Top = UmbTop
    BY <1>3, <1>6 DEF Sound, Covered, Top
  <2>4. h = UMB_START_SEG
    <3> SUFFICES ASSUME h # UMB_START_SEG PROVE FALSE
      OBVIOUS
    <3>1. h < UMB_START_SEG /\ mcb[h].type = "Z"
      BY <1>6, <2>1 DEF ScanStop
    <3>2. NextOf(mcb, h) = UmbTop
      BY <1>3, <1>6, <2>2, <2>3, <3>1 DEF Sound, Ended
    <3>3. NextOf(mcb, h) <= UMB_START_SEG
      BY <1>3, <2>2, <2>3, <3>1, SoundFacts
    <3> QED BY <3>2, <3>3, ArenaBounds
  <2>5. UMB_START_SEG # DOS_MEM_START
    BY ArenaAssumption DEF FirstFree
  <2>6. NextOf(mcb, g) = UMB_START_SEG
    BY <2>1, <2>4, <2>5 DEF ScanPrev
  <2>7. mcb[g].type = "M"
    <3>1. mcb[g].type # "Z"
      BY <1>3, <1>6, <2>2, <2>3, <2>6, ArenaBounds DEF Sound, Ended
    <3> QED BY <1>3, <2>2, <3>1 DEF Sound, Tiled, Block
  <2>8. mcb' = [mcb EXCEPT ![g].type = "Z"] /\ umbState' = 0
    BY <1>6, <2>1, <2>4, <2>7
  <2>9. umbStart = UMB_START_SEG /\ g \in DOMAIN mcb
    BY <1>6, <2>2
  <2> QED BY <1>5, <2>6, <2>8, <2>9
<1>7. CASE /\ umbStart = UMB_START_SEG /\ umbState = 0 /\ Link
  <2>1. PICK h \in Heads :
          /\ ScanStop(h)
          /\ IF mcb[h].type = "Z"
             THEN mcb' = [mcb EXCEPT ![h].type = "M"] /\ umbState' = 1
             ELSE UNCHANGED <<mcb, umbState>>
    BY <1>7 DEF Link
  <2>2. h \in DOMAIN mcb
    BY DEF Heads
  <2>3. CASE mcb[h].type = "Z"
    <3>1. /\ UMB_START_SEG \in DOMAIN mcb /\ Top = UmbTop
          /\ NextOf(mcb, UMB_START_SEG) = FirstUmbSeg
      BY <1>3, <1>7 DEF Sound, Covered, Top
    <3>2. NextOf(mcb, h) = UmbTop \/ NextOf(mcb, h) = UMB_START_SEG
      BY <1>3, <2>2, <2>3, <3>1 DEF Sound, Ended
    <3>3. h <= UMB_START_SEG
      BY <1>7, <2>1, <2>2, SoundFacts, <1>3, ArenaBounds DEF ScanStop
    <3>4. h # UMB_START_SEG
      BY <3>1, <3>2, ArenaBounds
    <3>5. NextOf(mcb, h) <= UMB_START_SEG
      BY <1>3, <2>2, <3>1, <3>3, <3>4, SoundFacts, ArenaBounds
    <3>6. NextOf(mcb, h) = UMB_START_SEG
      BY <3>2, <3>5, ArenaBounds
    <3> QED BY <1>5, <1>7, <2>1, <2>2, <2>3, <3>6
  <2>4. CASE mcb[h].type # "Z"
    BY <1>4, <2>1, <2>4
  <2> QED BY <2>3, <2>4
<1>8. \/ mcb' = mcb /\ umbState' = umbState
      \/ umbStart = UMB_START_SEG /\ umbState = 1 /\ Unlink
      \/ umbStart = UMB_START_SEG /\ umbState = 0 /\ Link
  <2>1. linkstate = 0 => (linkstate % 2 # umbState % 2 => umbState = 1)
    BY <1>3
  <2>2. linkstate = 1 => (linkstate % 2 # umbState % 2 => umbState = 0)
    BY <1>3
  <2> QED BY <2>1, <2>2 DEF LinkUMBsToMemChain
<1> QED BY <1>4, <1>6, <1>7, <1>8

\* The invariant is inductive.
LEMMA Inductive == IInv /\ [Next]_vars => IInv'
<1> SUFFICES ASSUME IInv, [Next]_vars PROVE IInv'
  OBVIOUS
<1>1. CASE \E active \in BOOLEAN : BuildUMBChain(active)
  BY <1>1, BuildSound
<1>2. CASE \E n \in Requests : AllocateMemory(n)
  BY <1>2, AllocateSound
<1>3. CASE \E h \in Segments, n \in Requests : ResizeMemory(h, n)
  BY <1>3, ResizeSound
<1>4. CASE \E h \in Segments : FreeMemory(h)
  BY <1>4, FreeSound
<1>5. CASE \E p \in Psps \cup {LoadfixPsp} : FreeProcessMemory(p)
  BY <1>5, FreeProcessSound
<1>6. CASE \E strat \in Strategies : SetMemAllocStrategy(strat)
  <2>1. PICK strat \in Strategies : SetMemAllocStrategy(strat)
    BY <1>6
  <2>2. UNCHANGED <<mcb, psp, umbStart, umbState, booted>>
    BY <2>1 DEF SetMemAllocStrategy
  <2>3. memAllocStrategy' \in [high : Highs, fit : Fits]
    <3>1. strat.high \in Highs /\ strat = [high |-> strat.high, fit |-> strat.fit]
      BY StrategyAssumption
    <3>2. \/ memAllocStrategy' = strat /\ strat.fit \in Fits
          \/ memAllocStrategy' = memAllocStrategy
      BY <2>1 DEF SetMemAllocStrategy
    <3> QED BY <3>1, <3>2 DEF IInv, Settled
  <2>4. ret' \in Answers
    <3>1. ret' = Done(strat.fit \in Fits)
      BY <2>1 DEF SetMemAllocStrategy
    <3>2. (strat.fit \in Fits) \in BOOLEAN
      OBVIOUS
    <3> QED BY <3>1, <3>2, DoneTypes, Zenon
  <2>5. Settled'
    BY <2>2, <2>3, <2>4 DEF IInv, Settled
  <2>6. Sound(mcb)'
    BY <2>2, SoundStays DEF IInv
  <2> QED BY <2>5, <2>6 DEF IInv
<1>7. CASE \E linkstate \in LinkStates : LinkUMBsToMemChain(linkstate)
  BY <1>7, LinkSound
<1>8. CASE \E p \in Psps : SwitchProcess(p)
  <2>1. PICK p \in Psps : SwitchProcess(p)
    BY <1>8
  <2>2. /\ UNCHANGED <<mcb, memAllocStrategy, umbStart, umbState, booted>>
        /\ psp' \in Psps
        /\ ret' = Answer("freeProcess", p, TRUE, 0) \/ ret' = Answer("done", 0, TRUE, 0)
    BY <2>1 DEF SwitchProcess, Done
  <2>3. ret' \in Answers
    BY <2>2, AnswerTypes DEF Owners
  <2>4. Settled'
    BY <2>2, <2>3 DEF IInv, Settled
  <2>5. Sound(mcb)'
    BY <2>2, SoundStays DEF IInv
  <2> QED BY <2>4, <2>5 DEF IInv
<1>9. CASE UNCHANGED vars
  <2>1. UNCHANGED <<mcb, psp, memAllocStrategy, umbStart, umbState, booted, ret>>
    BY <1>9 DEF vars
  <2>2. Settled'
    BY <2>1 DEF IInv, Settled
  <2>3. Sound(mcb)'
    BY <2>1, SoundStays DEF IInv
  <2> QED BY <2>2, <2>3 DEF IInv
<1> QED
  BY <1>1, <1>2, <1>3, <1>4, <1>5, <1>6, <1>7, <1>8, <1>9 DEF Next

LEMMA InvariantMeans == IInv => TypeOK /\ ArenaInv
<1> SUFFICES ASSUME IInv PROVE TypeOK /\ ArenaInv
  OBVIOUS
<1>1. Settled /\ Sound(mcb)
  BY DEF IInv
<1>2. mcb \in [Heads -> Block]
  <2>1. \A h \in Heads : mcb[h] \in Block
    BY <1>1 DEF Sound, Tiled, Heads
  <2>2. mcb = [h \in Heads |-> mcb[h]]
    BY <1>1 DEF Sound, Function, Heads
  <2> QED BY <2>1, <2>2
<1>3. Heads \subseteq DOS_MEM_START .. UmbTop - 1
  <2>1. Top <= UmbTop
    BY ArenaBounds DEF Top
  <2>2. \A h \in Heads : h \in Nat /\ DOS_MEM_START <= h /\ h < Top
    BY <1>1, SoundFacts DEF Heads
  <2> QED BY <2>1, <2>2, ArenaBounds
<1>4. TypeOK
  BY <1>1, <1>2, <1>3 DEF TypeOK, Settled
<1>5. Tiling
  BY <1>1 DEF Sound, Tiled, Tiling, Heads
<1>6. ChainEnds
  BY <1>1 DEF Sound, Ended, ChainEnds, Heads
<1>7. CoverInPlace
  BY <1>1 DEF Sound, Covered, CoverInPlace, Heads
<1> QED BY <1>4, <1>5, <1>6, <1>7 DEF ArenaInv

\* Whatever programs allocate, resize and free, on any machine and with any
\* strategy, the fields of the blocks keep their types and sizes stay natural
\* numbers: no split or merge of dos_memory.cpp underflows.
THEOREM TypeCorrect == Spec => []TypeOK
BY SetupSound, Inductive, InvariantMeans, PTL DEF Spec

\* Whatever programs allocate, resize, free, link and unlink, the blocks tile
\* the memory, the chains end where they should, and the UMB chain starts with
\* the block of DOS that covers the video memory.
THEOREM ArenaCorrect == Spec => []ArenaInv
BY SetupSound, Inductive, InvariantMeans, PTL DEF Spec

-----------------------------------------------------------------------------
(* What operations leave alone.                                            *)

LEMMA Invariant == Spec => []IInv
BY SetupSound, Inductive, PTL DEF Spec

Used(m) == {h \in DOMAIN m : ~IsFree(m, h)}

\* The blocks in use are the same, but for those that begin in X.
SameBut(m, c, X) ==
  \A h : h \notin X =>
    /\ h \in Used(m) <=> h \in Used(c)
    /\ h \in Used(m) => c[h].psp = m[h].psp /\ c[h].size = m[h].size

LEMMA SameThen ==
  ASSUME NEW m, NEW c, NEW d, NEW X, SameBut(m, c, {}), SameBut(c, d, X)
  PROVE  SameBut(m, d, X)
BY DEF SameBut

LEMMA CompressSame ==
  ASSUME NEW m, Sound(m)
  PROVE  SameBut(m, Compress(m), {})
<1>1. ASSUME NEW h PROVE h \in Used(m) <=> h \in Used(Compress(m))
  BY CompressKeeps DEF Used, IsFree
<1>2. ASSUME NEW h \in Used(m)
      PROVE  Compress(m)[h].psp = m[h].psp /\ Compress(m)[h].size = m[h].size
  BY CompressKeeps DEF Used, IsFree
<1> QED
  BY <1>1, <1>2 DEF SameBut

\* The two parts of a split block, and all other blocks.
Parted(m, c, h, n, lowPsp, highPsp) ==
  /\ h + n + 1 \notin DOMAIN m /\ DOMAIN c = DOMAIN m \cup {h + n + 1}
  /\ c[h].psp = lowPsp /\ c[h].size = n
  /\ c[h + n + 1].psp = highPsp /\ c[h + n + 1].size = m[h].size - n - 1
  /\ \A g \in DOMAIN m : g # h => c[g] = m[g]

LEMMA SplitKeeps ==
  ASSUME NEW m, Sound(m), NEW h \in DOMAIN m, NEW n \in Nat, n < m[h].size,
         NEW lowPsp, NEW highPsp
  PROVE  Parted(m, SplitAt(m, h, n, lowPsp, highPsp), h, n, lowPsp, highPsp)
<1> DEFINE c == SplitAt(m, h, n, lowPsp, highPsp)
           k == h + n + 1
<1>1. /\ h \in Nat /\ m[h].size \in Nat /\ NextOf(m, h) = h + m[h].size + 1
      /\ k \in Nat /\ h < k /\ k < NextOf(m, h)
  BY SoundFacts DEF NextOf
<1>2. k \notin DOMAIN m /\ k # h
  BY <1>1, SoundFacts
<1>3. /\ DOMAIN c = DOMAIN m \cup {k}
      /\ c[h] = [type |-> "M", psp |-> lowPsp, size |-> n]
      /\ c[k] = [type |-> m[h].type, psp |-> highPsp, size |-> m[h].size - n - 1]
      /\ \A g \in DOMAIN m : g # h => c[g] = m[g]
  BY <1>2 DEF SplitAt
<1> HIDE DEF c, k
<1>4. /\ c[h].psp = lowPsp /\ c[h].size = n
      /\ c[k].psp = highPsp /\ c[k].size = m[h].size - n - 1
  BY <1>3
<1> QED
  BY <1>2, <1>3, <1>4 DEF c, k, Parted

\* What becomes of the free block that is carved.
LEMMA CarveSame ==
  ASSUME NEW m, Sound(m), Settled, NEW n \in Nat, NEW h \in Chosen(m, n)
  PROVE  LET c == Carve(m, h, n)
             k == Carved(m, h, n)
         IN  /\ SameBut(m, c, {k})
             /\ k \notin Used(m)
             /\ k \in DOMAIN c /\ c[k].psp = psp /\ c[k].size = n
             /\ h <= k /\ k \in Nat /\ k + n + 1 <= NextOf(m, h)
<1> DEFINE c == Carve(m, h, n)
           k == Carved(m, h, n)
<1>1. /\ h \in DOMAIN m /\ IsFree(m, h) /\ n <= m[h].size
      /\ h \in Nat /\ m[h].size \in Nat /\ NextOf(m, h) = h + m[h].size + 1
  BY ChosenFits, SoundFacts DEF NextOf
<1>2. MCB_FREE # psp /\ h \notin Used(m)
  BY <1>1, OwnerAssumption DEF Settled, Used
<1>3. CASE m[h].size = n
  <2>1. k = h
    BY <1>1, <1>3 DEF Carved
  <2>2. /\ DOMAIN c = DOMAIN m /\ c[h].psp = psp /\ c[h].size = n
        /\ \A g \in DOMAIN m : g # h => c[g] = m[g]
    <3>1. c = [m EXCEPT ![h].psp = psp]
      BY <1>3 DEF Carve
    <3>2. m[h] \in Block
      BY <1>1 DEF Sound, Tiled
    <3>3. [m[h] EXCEPT !.psp = psp].psp = psp /\ [m[h] EXCEPT !.psp = psp].size = n
      BY <1>3, <3>2 DEF Block
    <3> HIDE DEF c
    <3> QED
      BY <1>1, <3>1, <3>3
  <2> HIDE DEF c, k
  <2>3. SameBut(m, c, {h})
    BY <2>2 DEF SameBut, Used, IsFree
  <2>4. h <= k /\ k \in Nat /\ k + n + 1 <= NextOf(m, h)
    BY <1>1, <1>3, <2>1
  <2> QED
    BY <1>1, <1>2, <2>1, <2>2, <2>3, <2>4 DEF c, k
<1>4. CASE m[h].size # n /\ memAllocStrategy.fit = "last"
  <2> DEFINE r == m[h].size - n - 1
  <2>1. r \in Nat /\ r < m[h].size
    BY <1>1, <1>4
  <2>2. k = h + r + 1
    BY <1>1, <1>4 DEF Carved
  <2>3. c = SplitAt(m, h, r, MCB_FREE, psp)
    BY <1>4 DEF Carve
  <2>4. m[h].size - r - 1 = n
    BY <1>1
  <2> HIDE DEF r, c, k
  <2>5. /\ k \notin DOMAIN m /\ DOMAIN c = DOMAIN m \cup {k}
        /\ c[h].psp = MCB_FREE /\ c[k].psp = psp /\ c[k].size = n
        /\ \A g \in DOMAIN m : g # h => c[g] = m[g]
    <3>1. Parted(m, SplitAt(m, h, r, MCB_FREE, psp), h, r, MCB_FREE, psp)
      BY <1>1, <2>1, SplitKeeps
    <3> QED
      BY <2>2, <2>3, <2>4, <3>1 DEF Parted
  <2>6. SameBut(m, c, {k})
    BY <1>1, <2>5 DEF SameBut, Used, IsFree
  <2>7. h <= k /\ k \in Nat /\ k + n + 1 <= NextOf(m, h)
    BY <1>1, <2>1, <2>2 DEF r
  <2> QED
    BY <2>5, <2>6, <2>7 DEF c, k, Used
<1>5. CASE m[h].size # n /\ memAllocStrategy.fit # "last"
  <2>1. k = h
    BY <1>5 DEF Carved
  <2>2. c = SplitAt(m, h, n, psp, MCB_FREE)
    BY <1>5 DEF Carve
  <2>3. n < m[h].size
    BY <1>1, <1>5
  <2> HIDE DEF c, k
  <2> DEFINE x == h + n + 1
  <2>4. /\ x \notin DOMAIN m /\ DOMAIN c = DOMAIN m \cup {x}
        /\ c[h].psp = psp /\ c[h].size = n /\ c[x].psp = MCB_FREE
        /\ \A g \in DOMAIN m : g # h => c[g] = m[g]
    <3>1. Parted(m, SplitAt(m, h, n, psp, MCB_FREE), h, n, psp, MCB_FREE)
      BY <1>1, <2>3, SplitKeeps
    <3> QED
      BY <2>2, <3>1 DEF Parted
  <2> HIDE DEF x
  <2>5. SameBut(m, c, {h})
    BY <2>4 DEF SameBut, Used, IsFree
  <2>6. h <= k /\ k \in Nat /\ k + n + 1 <= NextOf(m, h)
    BY <1>1, <2>1, <2>3
  <2> QED
    BY <1>1, <1>2, <2>1, <2>4, <2>5, <2>6 DEF c, k
<1> QED
  BY <1>3, <1>4, <1>5

LEMMA AbsorbSame ==
  ASSUME NEW m, Sound(m), NEW h \in Used(m)
  PROVE  SameBut(m, Absorb(m, h), {h})
<1> DEFINE c == Absorb(m, h)
           j == Joined(m, h)
<1>1. j = h \/ IsFree(m, j)
  BY DEF Joined, CanJoin
<1>2. /\ DOMAIN c = DOMAIN m \ ({j} \ {h})
      /\ \A g \in DOMAIN c : g # h => c[g] = m[g]
  BY DEF Absorb
<1> HIDE DEF c, j
<1>3. SameBut(m, c, {h})
  BY <1>1, <1>2 DEF SameBut, Used, IsFree
<1> QED
  BY <1>3 DEF c

LEMMA TrimSame ==
  ASSUME NEW m, Sound(m), Settled, NEW h \in Used(m), m[h].psp # MCB_DOS,
         NEW n \in Nat, n # m[h].size, n < Extent(m, h)
  PROVE  SameBut(m, Trim(m, h, n), {h}) /\ h \in Used(Trim(m, h, n))
<1>1. psp # MCB_FREE /\ psp \in Psps /\ umbStart \in {UMB_START_SEG, NoUmb} /\ h \in DOMAIN m
  BY OwnerAssumption DEF Settled, Used
<1>2. ASSUME NEW a, Sound(a), h \in DOMAIN a, n < a[h].size, SameBut(m, a, {h})
      PROVE  /\ SameBut(m, SplitAt(a, h, n, psp, MCB_FREE), {h})
             /\ h \in Used(SplitAt(a, h, n, psp, MCB_FREE))
  <2> DEFINE c == SplitAt(a, h, n, psp, MCB_FREE)
             x == h + n + 1
  <2>1. /\ x \notin DOMAIN a /\ DOMAIN c = DOMAIN a \cup {x}
        /\ c[h].psp = psp /\ c[x].psp = MCB_FREE
        /\ \A g \in DOMAIN a : g # h => c[g] = a[g]
    <3>1. Parted(a, SplitAt(a, h, n, psp, MCB_FREE), h, n, psp, MCB_FREE)
      BY <1>2, SplitKeeps
    <3> QED
      BY <3>1 DEF Parted
  <2> HIDE DEF c, x
  <2>2. SameBut(m, c, {h})
    BY <1>2, <2>1 DEF SameBut, Used, IsFree
  <2>3. h \in Used(c)
    BY <1>1, <1>2, <2>1 DEF Used, IsFree
  <2> QED
    BY <2>2, <2>3 DEF c
<1>3. CASE n < m[h].size
  <2>1. SameBut(m, m, {h})
    BY DEF SameBut
  <2> QED
    BY <1>1, <1>2, <1>3, <2>1 DEF Trim
<1>4. CASE ~(n < m[h].size)
  <2>1. /\ Sound(Absorb(m, h)) /\ h \in DOMAIN Absorb(m, h)
        /\ Absorb(m, h)[h].size = Extent(m, h)
    BY <1>1, AbsorbSound
  <2>2. SameBut(m, Absorb(m, h), {h})
    BY AbsorbSame
  <2> QED
    BY <1>2, <1>4, <2>1, <2>2 DEF Trim
<1> QED
  BY <1>3, <1>4

-----------------------------------------------------------------------------
(* Chains. A walk from the first header sees all of conventional memory,   *)
(* and the UMBs when they are linked; one from the UMB chain all UMBs.      *)

OnMemoryChain(h) == umbState = 1 \/ h < UMB_START_SEG

\* Where a "Z" stands, when there is a header behind it.
LEMMA StopsBefore ==
  ASSUME NEW m, Sound(m), NEW g \in DOMAIN m, NEW h \in DOMAIN m, g < h
  PROVE  /\ NextOf(m, g) <= h
         /\ m[g].type = "M" <=> ~(umbState = 0 /\ NextOf(m, g) = UMB_START_SEG)
<1>1. NextOf(m, g) <= h /\ NextOf(m, g) # Top
  BY SoundFacts, ArenaBounds
<1>2. m[g].type \in {"M", "Z"}
  BY DEF Sound, Tiled, Block
<1> QED
  BY <1>1, <1>2 DEF Sound, Ended

LEMMA MemoryChain ==
  ASSUME NEW m, Sound(m), Settled
  PROVE  \A h : h \in Chain(m, DOS_MEM_START) <=> h \in DOMAIN m /\ OnMemoryChain(h)
<1>1. /\ umbState \in {0, 1} /\ umbStart \in {UMB_START_SEG, NoUmb}
      /\ umbState = 1 => umbStart = UMB_START_SEG
  BY DEF Settled
<1>2. ASSUME NEW h \in DOMAIN m, OnMemoryChain(h) PROVE h \in Chain(m, DOS_MEM_START)
  <2>1. ASSUME NEW g \in DOMAIN m, g < h PROVE m[g].type = "M"
    BY <1>2, <2>1, StopsBefore, SoundFacts, ArenaBounds DEF OnMemoryChain
  <2>2. DOS_MEM_START <= h
    BY SoundFacts
  <2> QED
    BY <2>1, <2>2 DEF Chain
<1>3. ASSUME NEW h \in Chain(m, DOS_MEM_START) PROVE h \in DOMAIN m /\ OnMemoryChain(h)
  <2>1. h \in DOMAIN m /\ \A g \in DOMAIN m : DOS_MEM_START <= g /\ g < h => m[g].type = "M"
    BY DEF Chain
  <2> SUFFICES ASSUME umbState = 0, ~(h < UMB_START_SEG) PROVE FALSE
    BY <1>1, <2>1 DEF OnMemoryChain
  <2>2. h \in Nat /\ h < Top
    BY <2>1, SoundFacts
  <2>3. umbStart = UMB_START_SEG
    BY <2>2, ArenaBounds DEF Top
  <2>4. UMB_START_SEG \in DOMAIN m /\ UMB_START_SEG # DOS_MEM_START
    BY <2>3, ArenaAssumption DEF Sound, Covered, FirstFree
  <2>5. PICK g \in DOMAIN m : NextOf(m, g) = UMB_START_SEG
    BY <2>4, Predecessor
  <2>6. g < UMB_START_SEG /\ g < h /\ DOS_MEM_START <= g
    BY <2>2, <2>5, SoundFacts, ArenaBounds
  <2> QED
    BY <2>1, <2>5, <2>6, StopsBefore
<1> QED
  BY <1>2, <1>3

LEMMA UmbChain ==
  ASSUME NEW m, Sound(m), Settled, umbStart = UMB_START_SEG
  PROVE  \A h : h \in Chain(m, umbStart) <=> h \in DOMAIN m /\ UMB_START_SEG <= h
<1>1. ASSUME NEW h \in DOMAIN m, UMB_START_SEG <= h PROVE h \in Chain(m, umbStart)
  <2>1. ASSUME NEW g \in DOMAIN m, UMB_START_SEG <= g, g < h PROVE m[g].type = "M"
    BY <2>1, StopsBefore, SoundFacts, ArenaBounds
  <2> QED
    BY <1>1, <2>1 DEF Chain
<1> QED
  BY <1>1 DEF Chain

\* Every block of a process is found when it ends, linked or not.
LEMMA OwnedAll ==
  ASSUME NEW m, Sound(m), Settled, NEW p
  PROVE  \A h : h \in Owned(m, p) <=> h \in DOMAIN m /\ m[h].psp = p
<1>1. CASE umbStart = UMB_START_SEG
  <2>1. \A h \in DOMAIN m : h < UMB_START_SEG \/ UMB_START_SEG <= h
    BY SoundFacts, ArenaBounds
  <2> QED
    BY <1>1, <2>1, MemoryChain, UmbChain DEF Owned, OnMemoryChain
<1>2. CASE umbStart # UMB_START_SEG
  <2>1. \A h \in DOMAIN m : h < UMB_START_SEG
    BY <1>2, SoundFacts DEF Top
  <2> QED
    BY <1>2, <2>1, MemoryChain DEF Owned, OnMemoryChain
<1> QED
  BY <1>1, <1>2

-----------------------------------------------------------------------------
(* What each operation does to the blocks in use.                          *)

LEMMA BuildSame ==
  ASSUME IInv, NEW active \in BOOLEAN, BuildUMBChain(active)
  PROVE  /\ ret' = Done(TRUE)
         /\ \/ SameBut(mcb, mcb', {})
            \/ /\ SameBut(mcb, mcb', {UMB_START_SEG})
               /\ UMB_START_SEG \notin Used(mcb) /\ UMB_START_SEG \in Used(mcb')
<1>1. Sound(mcb) /\ umbState = 0 /\ umbStart = NoUmb /\ ret' = Done(TRUE)
  <2>1. ~booted
    BY DEF BuildUMBChain
  <2> QED
    BY <2>1 DEF IInv, Settled, BuildUMBChain
<1>2. CASE ~active
  <2>1. mcb' = mcb
    BY <1>2 DEF BuildUMBChain
  <2> QED
    BY <1>1, <2>1 DEF SameBut
<1>3. CASE active
  <2>1. PICK last \in Chain(mcb, DOS_MEM_START) :
          /\ mcb[last].type = "Z"
          /\ LET cover == NextOf(mcb, last) IN
             mcb' = [g \in Heads \cup {cover, FirstUmbSeg} |->
               IF g = cover
               THEN [type |-> "M", psp |-> MCB_DOS,
                     size |-> FirstUmbSeg - cover - 1]
               ELSE IF g = FirstUmbSeg
               THEN [type |-> "Z", psp |-> MCB_FREE,
                     size |-> UmbTop - FirstUmbSeg - 1]
               ELSE mcb[g]]
    BY <1>3 DEF BuildUMBChain
  <2>2. Top = UMB_START_SEG
    BY <1>1, ArenaAssumption DEF Top
  <2>3. last \in DOMAIN mcb /\ NextOf(mcb, last) = UMB_START_SEG
    BY <1>1, <2>1, <2>2 DEF Chain, Sound, Ended
  <2>4. UMB_START_SEG \notin DOMAIN mcb /\ FirstUmbSeg \notin DOMAIN mcb
    BY <1>1, <2>2, SoundFacts, ArenaBounds
  <2>5. /\ DOMAIN mcb' = DOMAIN mcb \cup {UMB_START_SEG, FirstUmbSeg}
        /\ mcb'[UMB_START_SEG].psp = MCB_DOS
        /\ mcb'[FirstUmbSeg].psp = MCB_FREE
        /\ \A h \in DOMAIN mcb : mcb'[h] = mcb[h]
    BY <2>1, <2>3, <2>4, ArenaBounds DEF Heads
  <2> QED
    BY <1>1, <2>4, <2>5, OwnerAssumption DEF SameBut, Used, IsFree
<1> QED
  BY <1>2, <1>3

LEMMA AllocateSame ==
  ASSUME IInv, NEW n \in Requests, AllocateMemory(n)
  PROVE  LET k == ret'.head
         IN  /\ ret'.op = "alloc"
             /\ \/ ~ret'.ok /\ SameBut(mcb, mcb', {})
                \/ /\ ret'.ok /\ SameBut(mcb, mcb', {k}) /\ k \notin Used(mcb)
                   /\ k \in DOMAIN mcb' /\ mcb'[k].psp = psp
                   /\ mcb'[k].size = n /\ ret'.blocks = n /\ k \in Nat
                   /\ \E h \in DOMAIN Compress(mcb) :
                        /\ IsFree(Compress(mcb), h)
                        /\ h <= k /\ k + n + 1 <= NextOf(Compress(mcb), h)
<1> DEFINE m == Compress(mcb)
<1>1. /\ n \in Nat /\ umbStart \in {UMB_START_SEG, NoUmb} /\ Settled /\ Sound(mcb)
  BY RequestAssumption DEF IInv, Settled
<1>2. Sound(m) /\ SameBut(mcb, m, {})
  BY <1>1, CompressSound, CompressSame
<1>3. \/ \E h \in Chosen(m, n) :
             /\ mcb' = Carve(m, h, n)
             /\ ret' = Answer("alloc", Carved(m, h, n), TRUE, n)
      \/ /\ mcb' = m
         /\ \E b \in LargestFree(m) : ret' = Answer("alloc", 0, FALSE, b)
  BY DEF AllocateMemory
<1> HIDE DEF m
<1>4. ASSUME NEW b \in LargestFree(m), mcb' = m, ret' = Answer("alloc", 0, FALSE, b)
      PROVE  ret'.op = "alloc" /\ ~ret'.ok /\ SameBut(mcb, mcb', {})
  BY <1>2, <1>4 DEF Answer
<1>5. ASSUME NEW h \in Chosen(m, n), mcb' = Carve(m, h, n),
             ret' = Answer("alloc", Carved(m, h, n), TRUE, n)
      PROVE  LET k == ret'.head
             IN  /\ ret'.op = "alloc"
                 /\ ret'.ok /\ SameBut(mcb, mcb', {k}) /\ k \notin Used(mcb)
                 /\ k \in DOMAIN mcb' /\ mcb'[k].psp = psp
                 /\ mcb'[k].size = n /\ ret'.blocks = n /\ k \in Nat
                 /\ h \in DOMAIN m /\ IsFree(m, h)
                 /\ h <= k /\ k + n + 1 <= NextOf(m, h)
  <2> DEFINE k == Carved(m, h, n)
  <2>1. ret'.op = "alloc" /\ ret'.ok /\ ret'.head = k /\ ret'.blocks = n
    BY <1>5 DEF Answer
  <2>2. h \in DOMAIN m /\ IsFree(m, h)
    BY ChosenFits
  <2>3. /\ SameBut(m, mcb', {k}) /\ k \notin Used(m)
        /\ k \in DOMAIN mcb' /\ mcb'[k].psp = psp /\ mcb'[k].size = n
        /\ h <= k /\ k \in Nat /\ k + n + 1 <= NextOf(m, h)
    BY <1>1, <1>2, <1>5, CarveSame
  <2> HIDE DEF k
  <2>4. SameBut(mcb, mcb', {k})
    BY <1>2, <2>3, SameThen
  <2>5. k \notin Used(mcb)
    BY <1>2, <2>3 DEF SameBut
  <2> QED
    BY <2>1, <2>2, <2>3, <2>4, <2>5
<1> QED
  BY <1>3, <1>4, <1>5 DEF m

LEMMA ResizeSame ==
  ASSUME IInv, NEW h \in Segments, NEW n \in Requests, ResizeMemory(h, n)
  PROVE  \/ ret'.op = "done" /\ mcb' = mcb
         \/ /\ ret'.op = "resize" /\ ret'.head = h
            /\ h \in Used(mcb) /\ h \in Used(mcb') /\ SameBut(mcb, mcb', {h})
<1> DEFINE m == Compress(mcb)
<1>1. n \in Nat /\ umbStart \in {UMB_START_SEG, NoUmb} /\ Settled /\ psp \in Psps
  BY RequestAssumption DEF IInv, Settled
<1>2. Sound(m) /\ Sound(mcb) /\ SameBut(mcb, m, {})
  BY <1>1, CompressSound, CompressSame DEF IInv
<1>3. CASE h \notin Heads
  BY <1>3 DEF ResizeMemory, Done, Answer
<1>4. CASE h \in Heads
  <2>1. /\ mcb[h].psp \in Psps
        /\ \/ mcb' = m
           \/ n # m[h].size /\ n < Extent(m, h) /\ mcb' = Trim(m, h, n)
           \/ mcb' = Absorb(m, h)
        /\ \/ ret' = Answer("resize", h, TRUE, n)
           \/ ret' = Answer("resize", h, FALSE, Extent(m, h))
    BY <1>4 DEF ResizeMemory
  <2>2. ret'.op = "resize" /\ ret'.head = h
    BY <2>1 DEF Answer
  <2>3. h \in Used(mcb) /\ mcb[h].psp # MCB_DOS
    BY <1>4, <2>1, OwnerAssumption DEF Used, IsFree, Heads
  <2> HIDE DEF m
  <2>4. h \in Used(m) /\ h \in DOMAIN m /\ m[h].psp # MCB_DOS
    BY <1>2, <2>3 DEF SameBut, Used
  <2>5. SameBut(m, mcb', {h}) /\ h \in Used(mcb')
    <3>1. CASE mcb' = m
      BY <2>4, <3>1 DEF SameBut
    <3>2. CASE n # m[h].size /\ n < Extent(m, h) /\ mcb' = Trim(m, h, n)
      BY <1>1, <1>2, <2>4, <3>2, TrimSame
    <3>3. CASE mcb' = Absorb(m, h)
      <4>1. h \in DOMAIN mcb' /\ mcb'[h].psp = psp
        BY <1>1, <1>2, <2>4, <3>3, AbsorbSound
      <4>2. psp # MCB_FREE
        BY <1>1, OwnerAssumption
      <4> QED
        BY <1>2, <2>4, <3>3, <4>1, <4>2, AbsorbSame DEF Used, IsFree
    <3> QED
      BY <2>1, <3>1, <3>2, <3>3
  <2> QED
    BY <1>2, <2>2, <2>3, <2>5, SameThen
<1> QED
  BY <1>3, <1>4

LEMMA FreeSame ==
  ASSUME IInv, NEW h \in Segments, FreeMemory(h)
  PROVE  \/ ret'.op = "done" /\ mcb' = mcb
         \/ /\ ret'.op = "free" /\ ret'.head = h
            /\ h \notin Used(mcb') /\ SameBut(mcb, mcb', {h})
<1>1. CASE h < DOS_MEM_START \/ h \notin Heads
  BY <1>1 DEF FreeMemory, Done, Answer
<1>2. CASE ~(h < DOS_MEM_START \/ h \notin Heads)
  <2>1. /\ h \in DOMAIN mcb /\ mcb' = [mcb EXCEPT ![h].psp = MCB_FREE]
        /\ ret' = Answer("free", h, TRUE, 0)
    BY <1>2 DEF FreeMemory, Heads
  <2>2. mcb[h] \in Block
    BY <2>1 DEF IInv, Sound, Tiled
  <2>3. /\ DOMAIN mcb' = DOMAIN mcb /\ mcb'[h].psp = MCB_FREE
        /\ \A g \in DOMAIN mcb : g # h => mcb'[g] = mcb[g]
    <3>1. [mcb[h] EXCEPT !.psp = MCB_FREE].psp = MCB_FREE
      BY <2>2 DEF Block
    <3> QED
      BY <2>1, <3>1
  <2> QED
    BY <2>1, <2>3 DEF SameBut, Used, IsFree, Answer
<1> QED
  BY <1>1, <1>2

\* The blocks of the process that ends are free, the others as they were.
LEMMA FreeProcessSame ==
  ASSUME IInv, NEW p \in Psps \cup {LoadfixPsp}, FreeProcessMemory(p)
  PROVE  /\ ret'.op = "freeProcess" /\ ret'.head = p /\ p # MCB_FREE
         /\ \A h \in DOMAIN mcb' : mcb'[h].psp # p
         /\ \A h : h \in Used(mcb') <=> h \in Used(mcb) /\ mcb[h].psp # p
         /\ \A h \in Used(mcb') : mcb'[h].psp = mcb[h].psp /\ mcb'[h].size = mcb[h].size
<1> DEFINE r == Release(mcb, p)
<1>1. ret' = Answer("freeProcess", p, TRUE, 0) /\ mcb' = Compress(r)
  BY DEF FreeProcessMemory
<1>2. p # MCB_FREE
  BY OwnerAssumption
<1>3. Sound(r) /\ Sound(mcb) /\ Settled
  BY ReleaseSound DEF IInv
<1>4. SameBut(r, mcb', {})
  BY <1>1, <1>3, CompressSame
<1>5. \A h \in DOMAIN mcb : h \in Owned(mcb, p) <=> mcb[h].psp = p
  BY <1>3, OwnedAll
<1>6. DOMAIN r = DOMAIN mcb
  BY DEF Release
<1>7. ASSUME NEW h \in DOMAIN mcb
      PROVE  IF mcb[h].psp = p THEN r[h].psp = MCB_FREE ELSE r[h] = mcb[h]
  <2>1. CASE mcb[h].psp = p
    <3>1. r[h] = [mcb[h] EXCEPT !.psp = MCB_FREE]
      BY <1>5, <2>1 DEF Release
    <3>2. mcb[h] \in Block
      BY <1>3 DEF Sound, Tiled
    <3> HIDE DEF r
    <3> QED
      BY <2>1, <3>1, <3>2 DEF Block
  <2>2. CASE mcb[h].psp # p
    BY <1>5, <2>2 DEF Release
  <2> QED
    BY <2>1, <2>2
<1> HIDE DEF r
<1>8. \A h \in DOMAIN mcb' : h \in DOMAIN r /\ mcb'[h].psp = r[h].psp
  BY <1>1, <1>3, CompressKeeps
<1>9. \A h \in DOMAIN mcb' : mcb'[h].psp # p
  BY <1>2, <1>6, <1>7, <1>8
<1>10. \A h : h \in Used(r) <=> h \in Used(mcb) /\ mcb[h].psp # p
  BY <1>2, <1>6, <1>7 DEF Used, IsFree
<1>11. \A h \in Used(r) : r[h] = mcb[h]
  BY <1>2, <1>6, <1>7 DEF Used, IsFree
<1>12. ret'.op = "freeProcess" /\ ret'.head = p
  BY <1>1 DEF Answer
<1> QED
  BY <1>2, <1>4, <1>9, <1>10, <1>11, <1>12 DEF SameBut

\* The other calls change no more than the types of blocks.
LEMMA LinkSame ==
  ASSUME IInv, NEW linkstate \in LinkStates, LinkUMBsToMemChain(linkstate)
  PROVE  ret'.op = "done" /\ SameBut(mcb, mcb', {})
<1>1. ret'.op = "done"
  BY DEF LinkUMBsToMemChain, Done, Answer
<1>2. \/ mcb' = mcb
      \/ \E g \in Heads, t \in {"M", "Z"} : mcb' = [mcb EXCEPT ![g].type = t]
  BY DEF LinkUMBsToMemChain, Link, Unlink
<1>3. ASSUME NEW g \in Heads, NEW t, mcb' = [mcb EXCEPT ![g].type = t]
      PROVE  SameBut(mcb, mcb', {})
  <2>1. mcb[g] \in Block
    BY DEF IInv, Sound, Tiled, Heads
  <2>2. [mcb[g] EXCEPT !.type = t].psp = mcb[g].psp /\ [mcb[g] EXCEPT !.type = t].size = mcb[g].size
    BY <2>1 DEF Block
  <2>3. /\ DOMAIN mcb' = DOMAIN mcb
        /\ \A h \in DOMAIN mcb : mcb'[h].psp = mcb[h].psp /\ mcb'[h].size = mcb[h].size
    BY <1>3, <2>2 DEF Heads
  <2> QED
    BY <2>3 DEF SameBut, Used, IsFree
<1> QED
  BY <1>1, <1>2, <1>3 DEF SameBut

LEMMA OtherSame ==
  ASSUME \/ \E strat \in Strategies : SetMemAllocStrategy(strat)
         \/ \E p \in Psps : SwitchProcess(p)
  PROVE  ret'.op = "done" /\ SameBut(mcb, mcb', {})
BY DEF SetMemAllocStrategy, SwitchProcess, Done, Answer, SameBut

-----------------------------------------------------------------------------
(* The action properties.                                                  *)

\* No block of a process that ended is left, on whichever chain and whether or
\* not the UMBs are linked when it ends.
THEOREM EndLeavesNothing == Spec => NothingLeft
<1> DEFINE A == ret'.op = "freeProcess" => \A h \in Heads' : mcb'[h].psp # ret'.head
<1>1. ASSUME IInv, Next PROVE A
  <2>1. CASE \E p \in Psps \cup {LoadfixPsp} : FreeProcessMemory(p)
    BY <1>1, <2>1, FreeProcessSame DEF Heads
  <2>2. CASE \E active \in BOOLEAN : BuildUMBChain(active)
    BY <1>1, <2>2, BuildSame DEF Done, Answer
  <2>3. CASE \E n \in Requests : AllocateMemory(n)
    BY <1>1, <2>3, AllocateSame
  <2>4. CASE \E h \in Segments, n \in Requests : ResizeMemory(h, n)
    BY <1>1, <2>4, ResizeSame
  <2>5. CASE \E h \in Segments : FreeMemory(h)
    BY <1>1, <2>5, FreeSame
  <2>6. CASE \E linkstate \in LinkStates : LinkUMBsToMemChain(linkstate)
    BY <1>1, <2>6, LinkSame
  <2> QED
    BY <1>1, <2>1, <2>2, <2>3, <2>4, <2>5, <2>6, OtherSame DEF Next
<1>2. IInv /\ [Next]_vars => [A]_vars
  BY <1>1
<1> QED
  BY <1>2, Invariant, PTL DEF Spec, NothingLeft

\* Whatever a call does to the arena, the blocks in use that it is not about
\* stay with their owners, where and as large as they are.
THEOREM OthersAreKept == Spec => OthersKept
<1> DEFINE A == \A h \in Heads :
       \/ IsFree(mcb, h)
       \/ h \in Heads' /\ mcb'[h].psp = mcb[h].psp
                      /\ mcb'[h].size = mcb[h].size
       \/ ret'.op \in {"free", "resize"} /\ ret'.head = h
       \/ ret'.op = "freeProcess" /\ ret'.head = mcb[h].psp
<1>1. ASSUME IInv, Next PROVE A
  <2> SUFFICES ASSUME NEW h \in Used(mcb)
               PROVE  \/ h \in Used(mcb') /\ mcb'[h].psp = mcb[h].psp
                                          /\ mcb'[h].size = mcb[h].size
                      \/ ret'.op \in {"free", "resize"} /\ ret'.head = h
                      \/ ret'.op = "freeProcess" /\ ret'.head = mcb[h].psp
    BY DEF Used, Heads
  <2>1. CASE \E p \in Psps \cup {LoadfixPsp} : FreeProcessMemory(p)
    BY <1>1, <2>1, FreeProcessSame
  <2>2. CASE \E active \in BOOLEAN : BuildUMBChain(active)
    BY <1>1, <2>2, BuildSame DEF SameBut
  <2>3. CASE \E n \in Requests : AllocateMemory(n)
    BY <1>1, <2>3, AllocateSame DEF SameBut
  <2>4. CASE \E g \in Segments, n \in Requests : ResizeMemory(g, n)
    BY <1>1, <2>4, ResizeSame DEF SameBut
  <2>5. CASE \E g \in Segments : FreeMemory(g)
    BY <1>1, <2>5, FreeSame DEF SameBut
  <2>6. CASE \E linkstate \in LinkStates : LinkUMBsToMemChain(linkstate)
    BY <1>1, <2>6, LinkSame DEF SameBut
  <2> QED
    BY <1>1, <2>1, <2>2, <2>3, <2>4, <2>5, <2>6, OtherSame DEF Next, SameBut
<1>2. IInv /\ [Next]_vars => [A]_vars
  BY <1>1
<1> QED
  BY <1>2, Invariant, PTL DEF Spec, OthersKept

\* Every paragraph of a block that compressing makes free was free before: it
\* lay in the free block itself or in one that is absorbed.
LEMMA FreeBefore ==
  ASSUME NEW m, Sound(m),
         NEW h \in DOMAIN Compress(m), IsFree(Compress(m), h),
         NEW x \in Nat, h <= x, x < NextOf(Compress(m), h)
  PROVE  \E g \in DOMAIN m : x \in Paragraphs(m, g) /\ IsFree(m, g)
<1> DEFINE B == {g \in DOMAIN m : g <= x}
<1>1. /\ h \in DOMAIN m /\ h \in Nat /\ m[h].psp = MCB_FREE
      /\ NextOf(Compress(m), h) = NearestEnd(Ends(m), h)
  <2>1. h \in DOMAIN m
    BY CompressKeeps
  <2>2. h \in Nat
    BY <2>1, SoundFacts
  <2>3. Compress(m)[h].psp = m[h].psp /\ NextOf(Compress(m), h) = NearestEnd(Ends(m), h)
    BY CompressKeeps
  <2> QED
    BY <2>1, <2>2, <2>3 DEF IsFree
<1>2. /\ NearestEnd(Ends(m), h) \in Nat /\ NearestEnd(Ends(m), h) <= Top
      /\ \A d \in Ends(m) : h < d => NearestEnd(Ends(m), h) <= d
  BY <1>1, NearestEndFacts, SoundFacts DEF Ends
<1>3. x < Top /\ Top \in Nat
  BY <1>1, <1>2, ArenaBounds
<1>4. PICK g \in B : \A y \in B : y <= g
  <2>1. B \in SUBSET Nat /\ h \in B /\ \A y \in B : y <= x
    BY <1>1, SoundFacts
  <2> HIDE DEF B
  <2> QED
    BY <2>1, GreatestExists
<1>5. g \in DOMAIN m /\ g <= x /\ g \in Nat /\ h <= g
  BY <1>1, <1>4, SoundFacts
<1>6. x < NextOf(m, g)
  <2> SUFFICES ASSUME NextOf(m, g) <= x PROVE FALSE
    BY <1>5, SoundFacts
  <2>1. NextOf(m, g) \in B /\ g < NextOf(m, g)
    BY <1>3, <1>5, SoundFacts
  <2> QED
    BY <1>4, <1>5, <2>1, SoundFacts
<1>7. IsFree(m, g)
  <2>1. CASE g = h
    BY <1>1, <2>1 DEF IsFree
  <2>2. CASE h < g
    <3>1. g \notin Ends(m)
      BY <1>1, <1>2, <1>5, <2>2, SoundFacts
    <3>2. g # DOS_MEM_START
      BY <1>1, <2>2, SoundFacts, ArenaBounds
    <3>3. g \in Absorbed(m)
      BY <1>5, <3>1, <3>2, Predecessor DEF Ends
    <3> QED
      BY <3>3, AbsorbedFacts
  <2> QED
    BY <1>1, <1>5, <2>1, <2>2
<1>8. x \in Paragraphs(m, g)
  BY <1>5, <1>6, SoundFacts DEF Paragraphs
<1> QED
  BY <1>5, <1>7, <1>8

\* What DOS_AllocateMemory hands out was free, to the last paragraph.
THEOREM AllocationIsFree == Spec => AllocatesFreeMemory
<1> DEFINE A == ret'.op = "alloc" /\ ret'.ok =>
       LET h == ret'.head IN
       /\ h \in Heads'
       /\ mcb'[h].psp = psp
       /\ mcb'[h].size = ret'.blocks
       /\ \A x \in Paragraphs(mcb', h) :
            \E g \in Heads : x \in Paragraphs(mcb, g) /\ IsFree(mcb, g)
<1>1. ASSUME IInv, Next PROVE A
  <2>1. CASE \E n \in Requests : AllocateMemory(n)
    <3> SUFFICES ASSUME ret'.ok PROVE A
      OBVIOUS
    <3> DEFINE k == ret'.head
    <3>1. PICK n \in Requests : AllocateMemory(n)
      BY <2>1
    <3>2. /\ k \in DOMAIN mcb' /\ mcb'[k].psp = psp /\ mcb'[k].size = n
          /\ ret'.blocks = n /\ k \in Nat /\ n \in Nat
      BY <1>1, <3>1, AllocateSame, RequestAssumption
    <3>3. PICK h \in DOMAIN Compress(mcb) :
             /\ IsFree(Compress(mcb), h)
             /\ h <= k /\ k + n + 1 <= NextOf(Compress(mcb), h)
      BY <1>1, <3>1, AllocateSame
    <3>4. h \in Nat /\ NextOf(Compress(mcb), h) \in Nat
      BY <1>1, CompressSound, SoundFacts DEF IInv, Settled
    <3> HIDE DEF k
    <3>5. ASSUME NEW x \in Paragraphs(mcb', k)
          PROVE  \E g \in DOMAIN mcb : x \in Paragraphs(mcb, g) /\ IsFree(mcb, g)
      <4>1. x \in Nat /\ h <= x /\ x < NextOf(Compress(mcb), h)
        BY <3>2, <3>3, <3>4, <3>5 DEF Paragraphs, NextOf
      <4> QED
        BY <1>1, <3>3, <4>1, FreeBefore DEF IInv
    <3> QED
      BY <3>2, <3>5 DEF k, Heads
  <2>2. CASE \E active \in BOOLEAN : BuildUMBChain(active)
    BY <1>1, <2>2, BuildSame DEF Done, Answer
  <2>3. CASE \E p \in Psps \cup {LoadfixPsp} : FreeProcessMemory(p)
    BY <1>1, <2>3, FreeProcessSame
  <2>4. CASE \E h \in Segments, n \in Requests : ResizeMemory(h, n)
    BY <1>1, <2>4, ResizeSame
  <2>5. CASE \E h \in Segments : FreeMemory(h)
    BY <1>1, <2>5, FreeSame
  <2>6. CASE \E linkstate \in LinkStates : LinkUMBsToMemChain(linkstate)
    BY <1>1, <2>6, LinkSame
  <2> QED
    BY <1>1, <2>1, <2>2, <2>3, <2>4, <2>5, <2>6, OtherSame DEF Next
<1>2. IInv /\ [Next]_vars => [A]_vars
  BY <1>1
<1> QED
  BY <1>2, Invariant, PTL DEF Spec, AllocatesFreeMemory

-----------------------------------------------------------------------------
(* The arena as MemoryArena sees it.                                       *)

HeldIn(m) == [h \in Used(m) |-> [owner |-> m[h].psp, size |-> m[h].size]]

LEMMA HeldIsUsed ==
  /\ Held = HeldIn(mcb)
  /\ DOMAIN Held = Used(mcb)
  /\ \A h \in Used(mcb) : Held[h] = [owner |-> mcb[h].psp, size |-> mcb[h].size]
BY DEF Held, HeldIn, Used, Heads

\* Where the blocks in use are the same, nothing changes.
LEMMA SameHeld ==
  ASSUME NEW m, NEW c, SameBut(m, c, {})
  PROVE  HeldIn(m) = HeldIn(c)
<1>1. Used(m) = Used(c)
  BY DEF SameBut
<1>2. \A h \in Used(m) : [owner |-> m[h].psp, size |-> m[h].size]
                           = [owner |-> c[h].psp, size |-> c[h].size]
  BY DEF SameBut
<1> QED
  BY <1>1, <1>2, Zenon DEF HeldIn

\* The reservations of a sound arena are well typed and apart.
GoodHeld == Arena!TypeOK /\ Arena!Apart(Held)

LEMMA HeldGood == IInv => GoodHeld
<1> SUFFICES ASSUME Sound(mcb) PROVE GoodHeld
  BY DEF IInv
<1>1. ASSUME NEW h \in Used(mcb)
      PROVE  /\ mcb[h].psp \in Owners \ {MCB_FREE} /\ mcb[h].size \in 0 .. UmbTop
             /\ h \in DOS_MEM_START .. UmbTop
  <2>1. h \in DOMAIN mcb /\ mcb[h].psp # MCB_FREE
    BY DEF Used, IsFree
  <2>2. mcb[h].psp \in Owners
    BY <2>1 DEF Sound, Tiled, Block
  <2>3. /\ h \in Nat /\ mcb[h].size \in Nat /\ DOS_MEM_START <= h
        /\ h + mcb[h].size + 1 <= Top
    BY <2>1, SoundFacts DEF NextOf
  <2>4. Top <= UmbTop
    BY ArenaBounds DEF Top
  <2> QED
    BY <2>1, <2>2, <2>3, <2>4, ArenaBounds
<1>2. ASSUME NEW h \in Used(mcb) PROVE Held[h] \in Arena!Reservation
  BY <1>1, HeldIsUsed DEF Arena!Reservation
<1>3. Held = [h \in DOMAIN Held |-> Held[h]]
  BY DEF Held
<1>4. Held \in [DOMAIN Held -> Arena!Reservation]
  BY <1>2, <1>3, HeldIsUsed
<1>5. DOMAIN Held \subseteq DOS_MEM_START .. UmbTop
  BY <1>1, HeldIsUsed
<1>6. ASSUME NEW h \in Used(mcb), NEW g \in Used(mcb), h < g
      PROVE  h + Held[h].size < g
  <2>1. h \in DOMAIN mcb /\ g \in DOMAIN mcb
    BY DEF Used
  <2>2. h + mcb[h].size + 1 <= g /\ h \in Nat /\ g \in Nat /\ mcb[h].size \in Nat
    BY <1>6, <2>1, SoundFacts DEF NextOf
  <2>3. Held[h].size = mcb[h].size
    BY HeldIsUsed
  <2> QED
    BY <2>2, <2>3
<1>7. Arena!Apart(Held)
  BY <1>6, HeldIsUsed DEF Arena!Apart
<1> QED
  BY <1>4, <1>5, <1>7 DEF GoodHeld, Arena!TypeOK

\* A step that changes one place at most is a step of the arena.
LEMMA OnePlace ==
  ASSUME GoodHeld, GoodHeld', NEW h, SameBut(mcb, mcb', {h})
  PROVE  Arena!Next \/ Held' = Held
<1>1. /\ DOMAIN Held = Used(mcb) /\ DOMAIN Held' = Used(mcb')
      /\ \A g \in Used(mcb) : Held[g] = [owner |-> mcb[g].psp, size |-> mcb[g].size]
      /\ \A g \in Used(mcb') : Held'[g] = [owner |-> mcb'[g].psp, size |-> mcb'[g].size]
  BY HeldIsUsed DEF Held, Heads, Used, IsFree
<1>2. ASSUME NEW g, g # h
      PROVE  /\ g \in DOMAIN Held <=> g \in DOMAIN Held'
             /\ g \in DOMAIN Held => Held'[g] = Held[g]
  BY <1>1, <1>2 DEF SameBut
<1>3. CASE \/ h \in DOMAIN Held /\ h \in DOMAIN Held' /\ Held'[h] = Held[h]
           \/ h \notin DOMAIN Held /\ h \notin DOMAIN Held'
  <2>1. DOMAIN Held = DOMAIN Held' /\ \A g \in DOMAIN Held : Held'[g] = Held[g]
    BY <1>2, <1>3
  <2>2. Held = [g \in DOMAIN Held |-> Held[g]] /\ Held' = [g \in DOMAIN Held' |-> Held'[g]]
    BY DEF Held
  <2> QED
    BY <2>1, <2>2, Zenon
<1>4. CASE ~(\/ h \in DOMAIN Held /\ h \in DOMAIN Held' /\ Held'[h] = Held[h]
             \/ h \notin DOMAIN Held /\ h \notin DOMAIN Held')
  <2>1. Arena!Touched = {h}
    BY <1>2, <1>4 DEF Arena!Touched
  <2>2. h \in DOMAIN Held' => /\ h \in DOS_MEM_START .. UmbTop
                              /\ Held'[h] \in Arena!Reservation /\ Arena!Apart(Held')
    BY DEF GoodHeld, Arena!TypeOK
  <2>3. Arena!Reserve(h) \/ Arena!Alter(h) \/ Arena!Release(h)
    BY <2>2 DEF Arena!Reserve, Arena!Alter, Arena!Release
  <2> QED
    BY <2>1, <2>3 DEF Arena!Next
<1> QED
  BY <1>3, <1>4

\* The blocks of a process that ends are given up together.
LEMMA EndsAll ==
  ASSUME IInv, NEW p \in Psps \cup {LoadfixPsp}, FreeProcessMemory(p)
  PROVE  Arena!Next
<1> DEFINE kept == {h \in DOMAIN Held : Held[h].owner # p}
<1>1. /\ p # MCB_FREE
      /\ \A h : h \in Used(mcb') <=> h \in Used(mcb) /\ mcb[h].psp # p
      /\ \A h \in Used(mcb') : mcb'[h].psp = mcb[h].psp /\ mcb'[h].size = mcb[h].size
  BY FreeProcessSame
<1>2. /\ DOMAIN Held = Used(mcb) /\ DOMAIN Held' = Used(mcb')
      /\ \A g \in Used(mcb) : Held[g] = [owner |-> mcb[g].psp, size |-> mcb[g].size]
      /\ \A g \in Used(mcb') : Held'[g] = [owner |-> mcb'[g].psp, size |-> mcb'[g].size]
  BY HeldIsUsed DEF Held, Heads, Used, IsFree
<1>3. DOMAIN Held' = kept
  BY <1>1, <1>2
<1>4. \A h \in kept : Held'[h] = Held[h]
  BY <1>1, <1>2
<1>5. Held' = [h \in DOMAIN Held' |-> Held'[h]]
  BY DEF Held
<1>6. Held' = [h \in kept |-> Held[h]]
  <2> HIDE DEF kept
  <2> QED
    BY <1>3, <1>4, <1>5, Zenon
<1>7. p \in Owners \ {MCB_FREE}
  BY <1>1 DEF Owners
<1> QED
  BY <1>6, <1>7 DEF Arena!Next, Arena!ReleaseAll

\* Programs see a plain arena of reservations: DOS_CompressMemory, splits,
\* linking and the strategies are invisible to them.
THEOREM ImplementsTheArena == Spec => ImplementsArena
<1>1. IInv => GoodHeld
  BY HeldGood
<1>2. GoodHeld => Arena!Init
  BY DEF GoodHeld, Arena!Init
<1>3. ASSUME IInv, GoodHeld, GoodHeld', [Next]_vars PROVE Arena!Next \/ Held' = Held
  <2>1. ASSUME SameBut(mcb, mcb', {}) PROVE Held' = Held
    <3>1. Held = HeldIn(mcb) /\ Held' = HeldIn(mcb')
      BY DEF Held, HeldIn, Used, Heads, IsFree
    <3> QED
      BY <2>1, <3>1, SameHeld
  <2>2. CASE UNCHANGED vars
    BY <2>2 DEF vars, Held, Heads, IsFree
  <2>3. CASE \E active \in BOOLEAN : BuildUMBChain(active)
    BY <1>3, <2>1, <2>3, BuildSame, OnePlace
  <2>4. CASE \E n \in Requests : AllocateMemory(n)
    BY <1>3, <2>1, <2>4, AllocateSame, OnePlace
  <2>5. CASE \E g \in Segments, n \in Requests : ResizeMemory(g, n)
    <3>1. mcb' = mcb => SameBut(mcb, mcb', {})
      BY DEF SameBut
    <3> QED
      BY <1>3, <2>1, <2>5, <3>1, ResizeSame, OnePlace
  <2>6. CASE \E g \in Segments : FreeMemory(g)
    <3>1. mcb' = mcb => SameBut(mcb, mcb', {})
      BY DEF SameBut
    <3> QED
      BY <1>3, <2>1, <2>6, <3>1, FreeSame, OnePlace
  <2>7. CASE \E p \in Psps \cup {LoadfixPsp} : FreeProcessMemory(p)
    BY <1>3, <2>7, EndsAll
  <2>8. CASE \E linkstate \in LinkStates : LinkUMBsToMemChain(linkstate)
    BY <1>3, <2>1, <2>8, LinkSame
  <2> QED
    BY <1>3, <2>1, <2>2, <2>3, <2>4, <2>5, <2>6, <2>7, <2>8, OtherSame DEF Next
<1>4. IInv /\ GoodHeld /\ GoodHeld' /\ [Next]_vars => [Arena!Next]_Held
  BY <1>3
<1> QED
  BY <1>1, <1>2, <1>4, Invariant, PTL DEF Spec, ImplementsArena, Arena!Spec

-----------------------------------------------------------------------------
(* What a failed call reports.                                             *)

\* After DOS_CompressMemory no two free blocks of the memory chain touch.
LEMMA CompressedOnce ==
  ASSUME NEW m, Sound(m), Settled
  PROVE  Absorbed(Compress(m)) = {}
<1> DEFINE c == Compress(m)
<1>1. Sound(c) /\ DOMAIN c = DOMAIN m \ Absorbed(m)
  BY CompressSound, CompressKeeps DEF Settled
<1>2. \A h : h \in Chain(m, DOS_MEM_START) <=> h \in DOMAIN m /\ OnMemoryChain(h)
  BY MemoryChain
<1>3. \A h : h \in Chain(c, DOS_MEM_START) <=> h \in DOMAIN c /\ OnMemoryChain(h)
  BY <1>1, MemoryChain
<1>4. \A h \in DOMAIN c : /\ c[h].psp = m[h].psp
                          /\ NextOf(c, h) = NearestEnd(Ends(m), h)
  BY CompressKeeps
<1> HIDE DEF c
<1>5. ASSUME NEW x \in Absorbed(c) PROVE FALSE
  <2>1. PICK g \in DOMAIN c : /\ NextOf(c, g) = x /\ IsFree(c, g)
                              /\ x \in DOMAIN c /\ OnMemoryChain(x) /\ IsFree(c, x)
    BY <1>3, <1>5 DEF Absorbed
  <2>2. /\ g \in DOMAIN m /\ IsFree(m, g) /\ x \in DOMAIN m /\ IsFree(m, x)
        /\ x \notin Absorbed(m) /\ NearestEnd(Ends(m), g) = x
    BY <1>1, <1>4, <2>1 DEF IsFree
  <2>3. /\ g \in Nat /\ x \in Nat /\ g < x
        /\ \A d \in Ends(m) : g < d => x <= d
    BY <2>2, NearestEndFacts, SoundFacts
  <2>4. PICK f \in DOMAIN m : NextOf(m, f) = x
    BY <2>2, NearestEndFacts
  <2>5. f \in Nat /\ f < x /\ g <= f
    BY <2>2, <2>3, <2>4, SoundFacts
  <2>6. IsFree(m, f)
    <3>1. CASE f = g
      BY <2>2, <3>1
    <3>2. CASE f # g
      <4>1. f \notin Ends(m) /\ f # DOS_MEM_START
        BY <2>2, <2>3, <2>5, <3>2, SoundFacts, ArenaBounds
      <4>2. f \in Absorbed(m)
        BY <4>1, Predecessor DEF Ends
      <4> QED
        BY <4>2, AbsorbedFacts
    <3> QED
      BY <3>1, <3>2
  <2>7. OnMemoryChain(f)
    BY <2>1, <2>3, <2>5, ArenaBounds DEF OnMemoryChain
  <2>8. x \in Absorbed(m)
    BY <1>2, <2>1, <2>2, <2>4, <2>6, <2>7 DEF Absorbed
  <2> QED
    BY <2>2, <2>8
<1>6. Absorbed(c) = {}
  BY <1>5
<1> QED
  BY <1>6 DEF c

\* Where nothing is to be merged, compressing changes nothing.
LEMMA NothingToMerge ==
  ASSUME NEW m, Sound(m), Absorbed(m) = {}
  PROVE  Compress(m) = m
<1>1. ASSUME NEW h \in DOMAIN m PROVE NearestEnd(Ends(m), h) = NextOf(m, h)
  <2>1. NextOf(m, h) \in Ends(m)
    BY DEF Ends
  <2>2. PICK f \in DOMAIN m : NextOf(m, f) = NearestEnd(Ends(m), h)
    BY NearestEndFacts
  <2>3. h < NextOf(m, f) /\ NextOf(m, f) <= NextOf(m, h)
    BY <2>1, <2>2, NearestEndFacts, SoundFacts
  <2>4. f = h
    BY <2>3, SoundFacts
  <2> QED
    BY <2>2, <2>4
<1>2. ASSUME NEW h \in DOMAIN m PROVE BlockEndingAt(m, NextOf(m, h)) = h
  <2>1. \E f \in DOMAIN m : NextOf(m, f) = NextOf(m, h)
    OBVIOUS
  <2>2. /\ BlockEndingAt(m, NextOf(m, h)) \in DOMAIN m
        /\ NextOf(m, BlockEndingAt(m, NextOf(m, h))) = NextOf(m, h)
    BY <2>1, Zenon DEF BlockEndingAt
  <2> QED
    BY <2>2, EndsDiffer
<1>3. ASSUME NEW h \in DOMAIN m
      PROVE  m[h] = [type |-> m[BlockEndingAt(m, NearestEnd(Ends(m), h))].type,
                     psp  |-> m[h].psp,
                     size |-> NearestEnd(Ends(m), h) - h - 1]
  <2>1. m[h] \in Block /\ h \in Nat /\ m[h].size \in Nat
    BY SoundFacts DEF Sound, Tiled
  <2>2. NextOf(m, h) - h - 1 = m[h].size
    BY <2>1 DEF NextOf
  <2>3. m[h] = [type |-> m[h].type, psp |-> m[h].psp, size |-> m[h].size]
    BY <2>1 DEF Block
  <2> QED
    BY <1>1, <1>2, <2>2, <2>3
<1>4. DOMAIN m \ Absorbed(m) = DOMAIN m
  OBVIOUS
<1>5. Compress(m) = [h \in DOMAIN m |->
         [type |-> m[BlockEndingAt(m, NearestEnd(Ends(m), h))].type,
          psp  |-> m[h].psp,
          size |-> NearestEnd(Ends(m), h) - h - 1]]
  BY <1>4 DEF Compress, Ends
<1>6. m = [h \in DOMAIN m |-> m[h]]
  BY DEF Sound, Function
<1> QED
  BY <1>3, <1>5, <1>6, Zenon

\* Of the headers in a set one is visited first by a search.
LEMMA OneIsFirst ==
  ASSUME NEW S \in SUBSET Nat, S # {}, NEW first
  PROVE  \E h \in S : \A g \in S : VisitedBy(first, h, g)
<1>1. CASE S \cap first # {}
  <2>1. PICK h \in S \cap first : \A g \in S \cap first : h <= g
    BY <1>1, LeastExists
  <2> QED
    BY <2>1 DEF VisitedBy
<1>2. CASE S \cap first = {}
  <2>1. PICK h \in S : \A g \in S : h <= g
    BY LeastExists
  <2> QED
    BY <1>2, <2>1 DEF VisitedBy
<1> QED
  BY <1>1, <1>2

LEMMA OneIsLast ==
  ASSUME NEW S \in SUBSET Nat, S # {}, NEW b \in Nat, \A x \in S : x <= b, NEW second
  PROVE  \E h \in S : \A g \in S : LastVisitedBy(second, h, g)
<1>1. CASE S \cap second # {}
  <2>1. PICK h \in S \cap second : \A g \in S \cap second : g <= h
    BY <1>1, GreatestExists
  <2> QED
    BY <2>1 DEF LastVisitedBy
<1>2. CASE S \cap second = {}
  <2>1. PICK h \in S : \A g \in S : g <= h
    BY GreatestExists
  <2> QED
    BY <1>2, <2>1 DEF LastVisitedBy
<1> QED
  BY <1>1, <1>2

\* A search settles on a block, when there is one that fits.
LEMMA ChosenExists ==
  ASSUME NEW m, Sound(m), Settled, NEW n, Fitting(m, Searched(m), n) # {}
  PROVE  Chosen(m, n) # {}
<1> DEFINE first == FirstPass(m)
           second == SecondPass(m)
           F == Fitting(m, Searched(m), n)
<1>1. F \in SUBSET DOMAIN m
  BY DEF Fitting, FreeIn, Searched, FirstPass, SecondPass, Chain
<1>2. F \in SUBSET Nat /\ Top \in Nat /\ \A h \in F : h <= Top /\ m[h].size \in Nat
  BY <1>1, SoundFacts, ArenaBounds
<1>3. memAllocStrategy.fit \in {"first", "best", "last"}
  BY DEF Settled, Fits
<1>4. Chosen(m, n) = {h \in F : \A g \in F :
        CASE memAllocStrategy.fit = "first" -> VisitedBy(first, h, g)
          [] memAllocStrategy.fit = "best"  ->
               \/ m[h].size < m[g].size
               \/ m[h].size = m[g].size /\ VisitedBy(first, h, g)
          [] memAllocStrategy.fit = "last"  -> LastVisitedBy(second, h, g)}
  BY DEF Chosen, Searched
<1> HIDE DEF F, first, second
<1>5. CASE memAllocStrategy.fit = "first"
  <2>1. PICK h \in F : \A g \in F : VisitedBy(first, h, g)
    BY <1>2, OneIsFirst DEF F
  <2> QED
    BY <1>4, <1>5, <2>1
<1>6. CASE memAllocStrategy.fit = "last"
  <2>1. PICK h \in F : \A g \in F : LastVisitedBy(second, h, g)
    BY <1>2, OneIsLast DEF F
  <2> QED
    BY <1>4, <1>6, <2>1
<1>7. CASE memAllocStrategy.fit = "best"
  <2> DEFINE Z == {m[h].size : h \in F}
  <2>1. Z \in SUBSET Nat /\ Z # {}
    BY <1>2 DEF F
  <2> HIDE DEF Z
  <2>2. PICK s \in Z : \A t \in Z : s <= t
    BY <2>1, LeastExists
  <2> DEFINE B == {h \in F : m[h].size = s}
  <2>3. B \in SUBSET Nat /\ B # {}
    BY <1>2, <2>2 DEF Z
  <2>4. \A g \in F : s <= m[g].size
    BY <2>2 DEF Z
  <2> HIDE DEF B
  <2>5. PICK h \in B : \A g \in B : VisitedBy(first, h, g)
    BY <2>3, OneIsFirst
  <2>6. ASSUME NEW g \in F
        PROVE  \/ m[h].size < m[g].size
               \/ m[h].size = m[g].size /\ VisitedBy(first, h, g)
    BY <1>2, <2>4, <2>5, <2>6 DEF B
  <2>7. h \in F
    BY <2>5 DEF B
  <2> QED
    BY <1>4, <1>7, <2>6, <2>7
<1> QED
  BY <1>3, <1>5, <1>6, <1>7

\* What a failed allocation reports can be had, and no more.
LEMMA LargestRight ==
  ASSUME NEW m, Sound(m), Settled, NEW b \in LargestFree(m), NEW n \in Nat, 1 <= n
  PROVE  Chosen(m, n) # {} <=> n <= b
<1> DEFINE S == {0} \cup {m[h].size : h \in FreeIn(m, Searched(m))}
<1>1. b \in S /\ \A c \in S : c <= b
  BY DEF LargestFree
<1>2. \A h \in FreeIn(m, Searched(m)) : m[h].size \in Nat
  <2>1. FreeIn(m, Searched(m)) \subseteq DOMAIN m
    BY DEF FreeIn, Searched, FirstPass, SecondPass, Chain
  <2> QED
    BY <2>1, SoundFacts
<1>3. ASSUME n <= b PROVE Fitting(m, Searched(m), n) # {}
  <2>1. b # 0
    BY <1>1, <1>2, <1>3
  <2>2. PICK h \in FreeIn(m, Searched(m)) : b = m[h].size
    BY <1>1, <2>1
  <2>3. h \in Fitting(m, Searched(m), n)
    BY <1>3, <2>2 DEF Fitting
  <2> QED
    BY <2>3
<1>4. ASSUME NEW h \in Chosen(m, n) PROVE n <= b
  <2>1. h \in FreeIn(m, Searched(m)) /\ n <= m[h].size
    BY <1>4 DEF Chosen, Fitting, Searched
  <2>2. m[h].size \in S
    BY <2>1
  <2>3. m[h].size <= b /\ m[h].size \in Nat /\ b \in Nat
    BY <1>1, <1>2, <2>1, <2>2
  <2> QED
    BY <2>1, <2>3
<1> QED
  BY <1>3, <1>4, ChosenExists

\* The block behind one of the memory chain is on it.
LEMMA NextOnChain ==
  ASSUME NEW m, Sound(m), Settled,
         NEW h \in DOMAIN m, OnMemoryChain(h), m[h].type = "M"
  PROVE  NextOf(m, h) \in DOMAIN m /\ OnMemoryChain(NextOf(m, h))
<1>1. NextOf(m, h) \in DOMAIN m
  BY SoundFacts DEF Sound, Ended
<1>2. /\ umbState \in {0, 1} /\ umbStart \in {UMB_START_SEG, NoUmb}
      /\ h \in Nat /\ NextOf(m, h) \in Nat /\ NextOf(m, h) < Top
  BY <1>1, SoundFacts DEF Settled
<1>3. ASSUME umbState = 0, UMB_START_SEG <= NextOf(m, h) PROVE FALSE
  <2>1. h < UMB_START_SEG
    BY <1>2, <1>3 DEF OnMemoryChain
  <2>2. NextOf(m, h) # UMB_START_SEG
    BY <1>3 DEF Sound, Ended
  <2>3. UMB_START_SEG \in DOMAIN m
    BY <1>2, <1>3, ArenaBounds DEF Top, Sound, Covered
  <2> QED
    BY <1>2, <1>3, <2>1, <2>2, <2>3, SoundFacts, ArenaBounds
<1> QED
  BY <1>1, <1>2, <1>3, ArenaBounds DEF OnMemoryChain

\* A block of the memory chain that took all it can join has nothing free
\* behind it.
LEMMA NothingFreeBehind ==
  ASSUME NEW m, Sound(m), Settled, Absorbed(m) = {},
         NEW h \in Used(m), m[h].psp # MCB_DOS,
         h \in Chain(Absorb(m, h), DOS_MEM_START), Absorb(m, h)[h].type = "M"
  PROVE  ~IsFree(Absorb(m, h), NextOf(Absorb(m, h), h))
<1> DEFINE c == Absorb(m, h)
           j == Joined(m, h)
           x == NextOf(c, h)
<1>1. /\ umbStart \in {UMB_START_SEG, NoUmb} /\ psp \in Psps
      /\ h \in DOMAIN m /\ ~IsFree(m, h)
  BY DEF Settled, Used
<1>2. Sound(c) /\ h \in DOMAIN c /\ c[h].size = Extent(m, h)
  BY <1>1, AbsorbSound
<1>3. /\ DOMAIN c = DOMAIN m \ ({j} \ {h})
      /\ c[h].type = m[j].type
      /\ \A g \in DOMAIN c : g # h => c[g] = m[g]
  BY <1>1 DEF Absorb
<1>4. OnMemoryChain(h)
  BY <1>2, MemoryChain
<1>5. x \in DOMAIN c /\ x # h
  <2>1. x \in DOMAIN c
    BY <1>2, <1>4, NextOnChain
  <2> QED
    BY <1>2, <2>1, SoundFacts
<1>6. m[h].size \in Nat /\ h \in Nat
  BY <1>1, SoundFacts
<1>7. CASE ~CanJoin(m, h)
  <2>1. j = h /\ c[h].size = m[h].size
    BY <1>2, <1>7 DEF Joined, Extent
  <2>2. m[h].type = "M" /\ x = NextOf(m, h)
    BY <1>3, <2>1 DEF NextOf
  <2> QED
    BY <1>3, <1>5, <1>7, <2>2 DEF CanJoin, IsFree
<1>8. CASE CanJoin(m, h)
  <2>1. j = NextOf(m, h) /\ m[h].type = "M" /\ IsFree(m, j)
    BY <1>8 DEF Joined, CanJoin
  <2>2. j \in DOMAIN m /\ OnMemoryChain(j)
    BY <1>1, <1>4, <2>1, NextOnChain
  <2>3. x = NextOf(m, j)
    <3>1. c[h].size = m[h].size + m[j].size + 1 /\ m[j].size \in Nat
      BY <1>2, <1>8, <2>1, <2>2, SoundFacts DEF Extent
    <3> HIDE DEF c, j
    <3> QED
      BY <1>6, <2>1, <3>1 DEF NextOf
  <2>4. m[j].type = "M"
    BY <1>3
  <2>5. x \in DOMAIN m /\ OnMemoryChain(x)
    BY <2>2, <2>3, <2>4, NextOnChain
  <2>6. x \notin {h2 \in Chain(m, DOS_MEM_START) : IsFree(m, h2)}
    <3> SUFFICES ASSUME IsFree(m, x) PROVE FALSE
      OBVIOUS
    <3>1. j \in Chain(m, DOS_MEM_START) /\ x \in Chain(m, DOS_MEM_START)
      BY <2>2, <2>5, MemoryChain
    <3>2. x \in Absorbed(m)
      BY <2>1, <2>3, <3>1 DEF Absorbed
    <3> QED
      BY <3>2
  <2>7. ~IsFree(m, x)
    BY <2>5, <2>6, MemoryChain
  <2> HIDE DEF x, c
  <2> QED
    BY <1>3, <1>5, <2>7 DEF IsFree, c, x
<1> QED
  BY <1>7, <1>8

\* What stands behind a report: of an allocation, a compressed arena and the
\* largest block the search went past.
Reported ==
  ~ret.ok =>
    /\ ret.op = "alloc" =>
         Absorbed(mcb) = {} /\ ret.blocks \in LargestFree(mcb)
    /\ ret.op = "resize" =>
         /\ mcb[ret.head].size = ret.blocks
         /\ ret.head \in Chain(mcb, DOS_MEM_START) /\ mcb[ret.head].type = "M" =>
              ~IsFree(mcb, NextOf(mcb, ret.head))

LEMMA ReportedMeans == IInv /\ Reported => ReportedSizes
<1> SUFFICES ASSUME Sound(mcb), Settled, Reported, ~ret.ok, ret.op = "alloc",
                    NEW n \in 1 .. UmbTop
             PROVE  Chosen(Compress(mcb), n) # {} <=> n <= ret.blocks
  BY DEF IInv, Reported, ReportedSizes
<1>1. Compress(mcb) = mcb /\ ret.blocks \in LargestFree(mcb)
  BY NothingToMerge DEF Reported
<1>2. n \in Nat /\ 1 <= n
  BY ArenaBounds
<1> QED
  BY <1>1, <1>2, LargestRight

LEMMA AllocateReports ==
  ASSUME IInv, NEW n \in Requests, AllocateMemory(n)
  PROVE  Reported'
<1> DEFINE m == Compress(mcb)
<1>1. CASE ret'.ok
  BY <1>1 DEF Reported
<1>2. CASE ~ret'.ok
  <2>1. PICK b \in LargestFree(m) : mcb' = m /\ ret' = Answer("alloc", 0, FALSE, b)
    BY <1>2 DEF AllocateMemory, Answer
  <2>2. UNCHANGED <<memAllocStrategy, umbStart>>
    BY DEF AllocateMemory
  <2>3. ret'.op = "alloc" /\ ret'.blocks = b
    BY <2>1 DEF Answer
  <2>4. Absorbed(mcb') = {}
    BY <2>1, CompressedOnce DEF IInv
  <2> HIDE DEF m
  <2>5. LargestFree(mcb)' = LargestFree(m)
    BY <2>1, <2>2 DEF LargestFree, Searched, FreeIn, FirstPass, SecondPass, SearchesHigh
  <2> QED
    BY <2>1, <2>3, <2>4, <2>5 DEF Reported
<1> QED
  BY <1>1, <1>2

LEMMA ResizeReports ==
  ASSUME IInv, NEW h \in Segments, NEW n \in Requests, ResizeMemory(h, n)
  PROVE  Reported'
<1> DEFINE m == Compress(mcb)
<1>1. CASE ret'.ok \/ h \notin Heads
  BY <1>1 DEF Reported, ResizeMemory, Done, Answer
<1>2. CASE ~ret'.ok /\ h \in Heads
  <2>1. n \in Nat /\ umbStart \in {UMB_START_SEG, NoUmb} /\ Settled /\ psp \in Psps
    BY RequestAssumption DEF IInv, Settled
  <2>2. Sound(m) /\ Absorbed(m) = {} /\ SameBut(mcb, m, {})
    BY <2>1, CompressSound, CompressedOnce, CompressSame DEF IInv
  <2>3. /\ mcb[h].psp \in Psps
        /\ \/ n = m[h].size
           \/ n # m[h].size /\ n < Extent(m, h)
           \/ n > m[h].size /\ n >= Extent(m, h) /\ mcb' = Absorb(m, h)
        /\ ret' = IF n <= Extent(m, h)
                  THEN Answer("resize", h, TRUE, n)
                  ELSE Answer("resize", h, FALSE, Extent(m, h))
    BY <1>2 DEF ResizeMemory
  <2>4. /\ ~(n <= Extent(m, h))
        /\ ret'.op = "resize" /\ ret'.head = h /\ ret'.blocks = Extent(m, h)
    BY <1>2, <2>3 DEF Answer
  <2> HIDE DEF m
  <2>5. h \in Used(mcb) /\ mcb[h].psp # MCB_DOS
    BY <1>2, <2>3, OwnerAssumption DEF Used, IsFree, Heads
  <2>6. h \in Used(m) /\ h \in DOMAIN m /\ m[h].psp # MCB_DOS
    BY <2>2, <2>5 DEF SameBut, Used
  <2>7. m[h].size \in Nat /\ Absorb(m, h)[h].size = Extent(m, h) /\ Extent(m, h) \in Nat
    BY <2>1, <2>2, <2>6, AbsorbSound, SoundFacts
  <2>8. m[h].size <= Extent(m, h)
    <3>1. CASE CanJoin(m, h)
      <4>1. NextOf(m, h) \in DOMAIN m
        BY <2>2, <2>6, <3>1, SoundFacts DEF CanJoin, Sound, Ended
      <4> QED
        BY <2>2, <2>7, <3>1, <4>1, SoundFacts DEF Extent
    <3>2. CASE ~CanJoin(m, h)
      BY <2>7, <3>2 DEF Extent
    <3> QED
      BY <3>1, <3>2
  <2>9. mcb' = Absorb(m, h)
    BY <2>1, <2>3, <2>4, <2>7, <2>8
  <2>10. h \in Chain(mcb', DOS_MEM_START) /\ mcb'[h].type = "M" =>
           ~IsFree(mcb', NextOf(mcb', h))
    BY <2>1, <2>2, <2>6, <2>9, NothingFreeBehind
  <2> QED
    BY <2>4, <2>7, <2>9, <2>10 DEF Reported
<1> QED
  BY <1>1, <1>2

\* What DOS_Execute relies on when it asks for all there is: the size that a
\* failed allocation reports can be had, nothing larger can, and a resize that
\* failed left no free memory behind its block.
THEOREM ReportsAreRight == Spec => []ReportedSizes
<1>1. Init => Reported
  BY DEF Init, Reported, Done, Answer
<1>2. ASSUME IInv, Reported, [Next]_vars PROVE Reported'
  <2>1. CASE \E n \in Requests : AllocateMemory(n)
    BY <1>2, <2>1, AllocateReports
  <2>2. CASE \E h \in Segments, n \in Requests : ResizeMemory(h, n)
    BY <1>2, <2>2, ResizeReports
  <2>3. ASSUME ret'.ok \/ ret'.op \notin {"alloc", "resize"} PROVE Reported'
    BY <2>3 DEF Reported
  <2>4. CASE \E active \in BOOLEAN : BuildUMBChain(active)
    BY <2>3, <2>4 DEF BuildUMBChain, Done, Answer
  <2>5. CASE \E h \in Segments : FreeMemory(h)
    BY <1>2, <2>3, <2>5, FreeSame
  <2>6. CASE \E p \in Psps \cup {LoadfixPsp} : FreeProcessMemory(p)
    BY <1>2, <2>3, <2>6, FreeProcessSame
  <2>7. CASE \E linkstate \in LinkStates : LinkUMBsToMemChain(linkstate)
    BY <1>2, <2>3, <2>7, LinkSame
  <2>8. CASE UNCHANGED vars
    BY <1>2, <2>8 DEF vars, Reported, LargestFree, Searched, FreeIn, FirstPass,
                      SecondPass, SearchesHigh
  <2> QED
    BY <1>2, <2>1, <2>2, <2>3, <2>4, <2>5, <2>6, <2>7, <2>8, OtherSame DEF Next
<1>3. IInv /\ Reported /\ [Next]_vars => Reported'
  BY <1>2
<1> QED
  BY <1>1, <1>3, ReportedMeans, Invariant, PTL DEF Spec

-----------------------------------------------------------------------------
(* The loop of DOS_CompressMemory.                                         *)

\* A set of numbers that has 0, and with each number the next one up to n, has
\* all numbers up to n.
LEMMA AllUpTo ==
  ASSUME NEW S, NEW n \in Nat, 0 \in S, \A k \in 1 .. n : k - 1 \in S => k \in S
  PROVE  n \in S
<1> DEFINE bad == {k \in 0 .. n : k \notin S}
<1>1. SUFFICES ASSUME n \notin S PROVE FALSE
  OBVIOUS
<1>2. bad \in SUBSET Nat /\ bad # {}
  BY <1>1
<1> HIDE DEF bad
<1>3. PICK x \in bad : \A y \in bad : x <= y
  BY <1>2, LeastExists
<1>4. x \in 1 .. n /\ x \notin S
  BY <1>3 DEF bad
<1>5. x - 1 \notin bad
  <2>1. ~(x <= x - 1)
    BY <1>4
  <2> QED
    BY <1>3, <2>1
<1> QED
  BY <1>4, <1>5 DEF bad

\* A merge keeps a chain sound. Every block but the two keeps its fields.
LEMMA MergedSound ==
  ASSUME NEW m, Sound(m), Settled, NEW s \in DOMAIN m, OnMemoryChain(s),
         m[s].type = "M", IsFree(m, s), NEW n, n = NextOf(m, s), IsFree(m, n)
  PROVE  /\ n \in DOMAIN m /\ OnMemoryChain(n) /\ s < n
         /\ Sound(Merged(m, s)) /\ DOMAIN Merged(m, s) = DOMAIN m \ {n}
         /\ Merged(m, s)[s].psp = MCB_FREE /\ Merged(m, s)[s].type = m[n].type
         /\ NextOf(Merged(m, s), s) = NextOf(m, n)
         /\ \A g \in DOMAIN m \ {s, n} : Merged(m, s)[g] = m[g] /\ NextOf(Merged(m, s), g) = NextOf(m, g)
<1> DEFINE a == Absorb(m, s)
           c == Merged(m, s)
<1>1. n \in DOMAIN m /\ OnMemoryChain(n) /\ s < n
  BY NextOnChain, SoundFacts
<1>2. /\ m[s].psp = MCB_FREE /\ MCB_FREE # MCB_DOS /\ psp \in Psps /\ MCB_FREE \in Owners
      /\ umbStart \in {UMB_START_SEG, NoUmb}
  BY OwnerAssumption DEF IsFree, Settled, Owners
<1>3. Joined(m, s) = n /\ Extent(m, s) = m[s].size + m[n].size + 1 /\ {n} \ {s} = {n}
  BY <1>1, SoundFacts DEF Joined, Extent, CanJoin
<1>4. Sound(a) /\ a[s].psp = psp /\ psp # MCB_DOS
  BY <1>2, AbsorbSound, OwnerAssumption
<1>5. a = [g \in DOMAIN m \ {n} |->
             IF g = s
             THEN [type |-> m[n].type, psp |-> psp, size |-> m[s].size + m[n].size + 1]
             ELSE m[g]]
  BY <1>3, Zenon DEF Absorb
<1>6. c = [g \in DOMAIN m \ {n} |->
             IF g = s
             THEN [type |-> m[n].type, psp |-> m[s].psp, size |-> m[s].size + m[n].size + 1]
             ELSE m[g]]
  BY DEF Merged
<1>7. s \in DOMAIN m \ {n} /\ m[s].size \in Nat /\ m[n].size \in Nat
  BY <1>1, SoundFacts
<1>8. /\ c[s] = [type |-> m[n].type, psp |-> MCB_FREE, size |-> m[s].size + m[n].size + 1]
      /\ a[s] = [type |-> m[n].type, psp |-> psp, size |-> m[s].size + m[n].size + 1]
      /\ \A g \in DOMAIN m \ {s, n} : c[g] = m[g] /\ a[g] = m[g]
      /\ DOMAIN c = DOMAIN m \ {n} /\ DOMAIN a = DOMAIN m \ {n} /\ Function(c)
  BY <1>2, <1>5, <1>6, <1>7 DEF Function
<1> HIDE DEF a, c
<1>9. \A g \in DOMAIN a : a[g] \in Block
  BY <1>4 DEF Sound, Tiled
<1>10. ASSUME NEW g \in DOMAIN a
       PROVE  /\ c[g] \in Block /\ c[g].type = a[g].type /\ c[g].size = a[g].size
              /\ a[g].psp = MCB_DOS => c[g].psp = MCB_DOS
  <2>1. CASE g = s
    BY <1>2, <1>4, <1>8, <1>9, <2>1 DEF Block
  <2>2. CASE g # s
    BY <1>8, <1>9, <2>2
  <2> QED
    BY <2>1, <2>2
<1>11. Sound(c)
  BY <1>4, <1>8, <1>10, OwnersSound
<1>12. NextOf(c, s) = NextOf(m, n)
  <2>1. n = s + m[s].size + 1 /\ s \in Nat
    BY SoundFacts DEF NextOf
  <2>2. NextOf(c, s) = s + (m[s].size + m[n].size + 1) + 1
    BY <1>8 DEF NextOf
  <2> QED
    BY <1>7, <2>1, <2>2 DEF NextOf
<1>13. \A g \in DOMAIN m \ {s, n} : NextOf(c, g) = NextOf(m, g)
  BY <1>8 DEF NextOf
<1> QED
  BY <1>1, <1>8, <1>11, <1>12, <1>13 DEF c

\* A merge of two blocks leaves less to be merged, and the same in the end.
LEMMA MergedCompresses ==
  ASSUME NEW m, Sound(m), Settled, NEW s \in DOMAIN m, OnMemoryChain(s),
         m[s].type = "M", IsFree(m, s), NEW n, n = NextOf(m, s), IsFree(m, n)
  PROVE  /\ Absorbed(Merged(m, s)) = Absorbed(m) \ {n}
         /\ Compress(Merged(m, s)) = Compress(m)
<1> DEFINE c == Merged(m, s)
<1>1. /\ n \in DOMAIN m /\ OnMemoryChain(n) /\ s < n
      /\ Sound(c) /\ DOMAIN c = DOMAIN m \ {n}
      /\ c[s].psp = MCB_FREE /\ c[s].type = m[n].type
      /\ NextOf(c, s) = NextOf(m, n)
      /\ \A g \in DOMAIN m \ {s, n} : c[g] = m[g] /\ NextOf(c, g) = NextOf(m, g)
  BY MergedSound
<1>2. s # n /\ s \in DOMAIN c /\ m[s].psp = MCB_FREE
  BY <1>1, SoundFacts DEF IsFree
<1> HIDE DEF c
<1>3. \A h : h \in Chain(m, DOS_MEM_START) <=> h \in DOMAIN m /\ OnMemoryChain(h)
  BY MemoryChain
<1>4. \A h : h \in Chain(c, DOS_MEM_START) <=> h \in DOMAIN c /\ OnMemoryChain(h)
  BY <1>1, MemoryChain
<1>5. \A h \in DOMAIN c : IsFree(c, h) <=> IsFree(m, h)
  BY <1>1, <1>2 DEF IsFree
<1> DEFINE F == {h \in Chain(m, DOS_MEM_START) : IsFree(m, h)}
           G == {h \in Chain(c, DOS_MEM_START) : IsFree(c, h)}
<1>6. G = F \ {n} /\ s \in G /\ n \in F
  BY <1>1, <1>2, <1>3, <1>4, <1>5
<1>7. \A h \in DOMAIN c : NextOf(c, h) # n
  <2>1. \A h \in DOMAIN c : h # s => NextOf(c, h) # n
    BY <1>1, EndsDiffer
  <2>2. NextOf(m, n) # n
    BY <1>1, SoundFacts
  <2> QED
    BY <1>1, <2>1, <2>2
<1>8. G \subseteq DOMAIN c /\ F \subseteq DOMAIN m
  BY <1>3, <1>4
<1>9. Absorbed(m) = F \cap {NextOf(m, g) : g \in F}
  BY DEF Absorbed
<1>10. Absorbed(c) = G \cap {NextOf(c, g) : g \in G}
  BY DEF Absorbed
<1>11. n \in Absorbed(m)
  BY <1>1, <1>2, <1>6, <1>9
<1> HIDE DEF F, G
<1>12. {NextOf(c, g) : g \in G} = {NextOf(m, g) : g \in F} \ {n}
  <2>1. ASSUME NEW g \in G
        PROVE  NextOf(c, g) \in {NextOf(m, f) : f \in F} \ {n}
    BY <1>1, <1>6, <1>7, <1>8, <2>1
  <2>2. ASSUME NEW f \in F, NextOf(m, f) # n
        PROVE  NextOf(m, f) \in {NextOf(c, g) : g \in G}
    BY <1>1, <1>6, <1>8, <2>2
  <2> QED
    BY <2>1, <2>2
<1>13. Absorbed(c) = Absorbed(m) \ {n}
  BY <1>6, <1>9, <1>10, <1>12
<1>14. {NextOf(c, g) : g \in DOMAIN c} = {NextOf(m, g) : g \in DOMAIN m} \ {n}
  <2>1. ASSUME NEW g \in DOMAIN c
        PROVE  NextOf(c, g) \in {NextOf(m, f) : f \in DOMAIN m} \ {n}
    BY <1>1, <1>7, <2>1
  <2>2. ASSUME NEW f \in DOMAIN m, NextOf(m, f) # n
        PROVE  NextOf(m, f) \in {NextOf(c, g) : g \in DOMAIN c}
    BY <1>1, <1>2, <2>2
  <2> QED
    BY <2>1, <2>2
<1>15. Ends(c) = Ends(m)
  BY <1>11, <1>13, <1>14 DEF Ends
<1>16. DOMAIN c \ Absorbed(c) = DOMAIN m \ Absorbed(m)
  BY <1>1, <1>11, <1>13
<1>17. ASSUME NEW h \in DOMAIN m \ Absorbed(m)
       PROVE  /\ c[BlockEndingAt(c, NearestEnd(Ends(m), h))].type
                   = m[BlockEndingAt(m, NearestEnd(Ends(m), h))].type
              /\ c[h].psp = m[h].psp
  <2> DEFINE e == NearestEnd(Ends(m), h)
             p == BlockEndingAt(m, e)
             q == BlockEndingAt(c, e)
  <2>1. h \in DOMAIN c
    BY <1>1, <1>11
  <2>2. p \in DOMAIN m /\ NextOf(m, p) = e
    BY NearestEndFacts
  <2>3. q \in DOMAIN c /\ NextOf(c, q) = e
    BY <1>1, <1>15, <2>1, NearestEndFacts
  <2> HIDE DEF e, p, q
  <2>4. CASE q = s
    <3>1. NextOf(m, p) = NextOf(m, n)
      BY <1>1, <2>2, <2>3, <2>4
    <3>2. p = n
      BY <1>1, <2>2, <3>1, EndsDiffer
    <3> QED
      BY <1>1, <1>2, <2>1, <2>4, <3>2 DEF e, p, q
  <2>5. CASE q # s
    <3>1. NextOf(m, p) = NextOf(m, q) /\ q \in DOMAIN m
      BY <1>1, <2>2, <2>3, <2>5
    <3>2. p = q
      BY <2>2, <3>1, EndsDiffer
    <3> QED
      BY <1>1, <1>2, <2>1, <2>3, <2>5, <3>2 DEF e, p, q
  <2> QED
    BY <2>4, <2>5
<1>18. Compress(m) = [h \in DOMAIN m \ Absorbed(m) |->
         [type |-> m[BlockEndingAt(m, NearestEnd(Ends(m), h))].type,
          psp  |-> m[h].psp,
          size |-> NearestEnd(Ends(m), h) - h - 1]]
  BY DEF Compress, Ends
<1>19. Compress(c) = [h \in DOMAIN c \ Absorbed(c) |->
         [type |-> c[BlockEndingAt(c, NearestEnd(Ends(c), h))].type,
          psp  |-> c[h].psp,
          size |-> NearestEnd(Ends(c), h) - h - 1]]
  BY DEF Compress, Ends
<1>20. Compress(c) = [h \in DOMAIN m \ Absorbed(m) |->
         [type |-> c[BlockEndingAt(c, NearestEnd(Ends(m), h))].type,
          psp  |-> c[h].psp,
          size |-> NearestEnd(Ends(m), h) - h - 1]]
  BY <1>15, <1>16, <1>19
<1>21. Compress(c) = Compress(m)
  BY <1>17, <1>18, <1>20
<1> QED
  BY <1>13, <1>21 DEF c


\* at is the loop, turn by turn.
CompressTurns(m, n, at) ==
  at = [k \in 0 .. n |-> IF k = 0 THEN [mcb |-> m, segment |-> DOS_MEM_START]
                         ELSE CompressTurn(at[k - 1])]

LEMMA CompressTurnsExist ==
  ASSUME NEW m, NEW n \in Nat
  PROVE  \E at : CompressTurns(m, n, at)
<1> DEFINE S == {k \in 0 .. n : \E at : CompressTurns(m, k, at)}
           c == [mcb |-> m, segment |-> DOS_MEM_START]
<1> HIDE DEF c
<1>0. \A k, at : CompressTurns(m, k, at) <=>
        at = [i \in 0 .. k |-> IF i = 0 THEN c ELSE CompressTurn(at[i - 1])]
  BY DEF CompressTurns, c
<1>1. 0 \in S
  <2> DEFINE at == [k \in 0 .. 0 |-> c]
  <2>1. at = [i \in 0 .. 0 |-> IF i = 0 THEN c ELSE CompressTurn(at[i - 1])]
    OBVIOUS
  <2> HIDE DEF at
  <2>2. CompressTurns(m, 0, at)
    BY <1>0, <2>1, Zenon
  <2> QED
    BY <2>2
<1>2. ASSUME NEW x \in 1 .. n, x - 1 \in S
      PROVE  x \in S
  <2>1. PICK at : CompressTurns(m, x - 1, at)
    BY <1>2
  <2>2. at = [k \in 0 .. x - 1 |-> IF k = 0 THEN c ELSE CompressTurn(at[k - 1])]
    BY <1>0, <2>1
  <2> DEFINE g == [k \in 0 .. x |-> IF k = 0 THEN c ELSE CompressTurn(at[k - 1])]
  <2>3. ASSUME NEW k \in 0 .. x - 1
        PROVE  g[k] = at[k]
    <3>1. at[k] = IF k = 0 THEN c ELSE CompressTurn(at[k - 1])
      BY <2>2
    <3>2. k \in 0 .. x
      BY <1>2
    <3> QED
      BY <3>1, <3>2
  <2>4. ASSUME NEW k \in 0 .. x
        PROVE  g[k] = IF k = 0 THEN c ELSE CompressTurn(g[k - 1])
    <3>1. k # 0 => k - 1 \in 0 .. x - 1
      BY <1>2
    <3>2. k # 0 => g[k - 1] = at[k - 1]
      BY <2>3, <3>1
    <3> QED
      BY <3>2
  <2>5. g = [k \in 0 .. x |-> g[k]]
    OBVIOUS
  <2> HIDE DEF g
  <2>6. g = [k \in 0 .. x |-> IF k = 0 THEN c ELSE CompressTurn(g[k - 1])]
    BY <2>4, <2>5, Zenon
  <2>7. CompressTurns(m, x, g)
    BY <1>0, <2>6, Zenon
  <2> QED
    BY <1>2, <2>7
<1> HIDE DEF S
<1>3. n \in S
  BY <1>1, <1>2, AllUpTo
<1> QED
  BY <1>3 DEF S

LEMMA CompressLoopIs ==
  ASSUME NEW m, NEW n \in Nat
  PROVE  \E at : CompressTurns(m, n, at) /\ CompressLoop(m, n) = at[n]
<1> DEFINE P(at) == at = [k \in 0 .. n |->
                            IF k = 0 THEN [mcb |-> m, segment |-> DOS_MEM_START]
                            ELSE CompressTurn(at[k - 1])]
           loop == CHOOSE at : P(at)
<1>1. CompressLoop(m, n) = loop[n]
  BY Zenon DEF CompressLoop
<1>2. \E at : P(at)
  BY CompressTurnsExist, Zenon DEF CompressTurns
<1> HIDE DEF P
<1>3. P(loop)
  BY <1>2, Zenon
<1>4. CompressTurns(m, n, loop)
  BY <1>3, Zenon DEF P, CompressTurns
<1> QED
  BY <1>1, <1>4

\* While the loop runs: what is left to be merged is ahead, comes to the same in
\* the end, and every turn gets one segment further at least.
Compressing(m, k, l) ==
  /\ Sound(l.mcb) /\ Compress(l.mcb) = Compress(m)
  /\ l.segment \in DOMAIN l.mcb /\ OnMemoryChain(l.segment)
  /\ \A h \in Absorbed(l.mcb) : l.segment < h
  /\ l.mcb[l.segment].type = "Z" \/ k + 1 < NextOf(l.mcb, l.segment)

LEMMA CompressingStays ==
  ASSUME Settled, NEW m, NEW k \in Nat, NEW l, Compressing(m, k, l)
  PROVE  Compressing(m, k + 1, CompressTurn(l))
<1> DEFINE c == l.mcb
           s == l.segment
           n == NextOf(c, s)
           d == CompressTurn(l)
<1>1. /\ Sound(c) /\ Compress(c) = Compress(m) /\ s \in DOMAIN c /\ OnMemoryChain(s)
      /\ \A h \in Absorbed(c) : s < h
      /\ c[s].type = "Z" \/ k + 1 < n
  BY DEF Compressing
<1>2. d = IF c[s].type = "Z" THEN l
          ELSE IF IsFree(c, s) /\ IsFree(c, n)
          THEN [mcb |-> Merged(c, s), segment |-> s]
          ELSE [mcb |-> c, segment |-> n]
  BY DEF CompressTurn
<1>3. CASE c[s].type = "Z"
  <2>1. d = l
    BY <1>2, <1>3
  <2> QED
    BY <1>1, <1>3, <2>1 DEF Compressing
<1>4. ASSUME c[s].type # "Z"
      PROVE  /\ c[s].type = "M" /\ n \in DOMAIN c /\ OnMemoryChain(n)
             /\ n \in Nat /\ s \in Nat /\ s < n /\ k + 1 < n /\ NextOf(c, n) \in Nat /\ n < NextOf(c, n)
  <2>1. c[s].type = "M"
    BY <1>1, <1>4 DEF Sound, Tiled, Block
  <2>2. n \in DOMAIN c /\ OnMemoryChain(n)
    BY <1>1, <2>1, NextOnChain
  <2> QED
    BY <1>1, <1>4, <2>1, <2>2, SoundFacts
<1>5. CASE c[s].type # "Z" /\ IsFree(c, s) /\ IsFree(c, n)
  <2> DEFINE e == Merged(c, s)
  <2>1. d.mcb = e /\ d.segment = s
    BY <1>2, <1>5
  <2>2. /\ Sound(c) /\ s \in DOMAIN c /\ OnMemoryChain(s) /\ c[s].type = "M"
        /\ IsFree(c, s) /\ n = NextOf(c, s) /\ IsFree(c, n)
    BY <1>1, <1>4, <1>5
  <2> HIDE DEF c, s, n
  <2>3. /\ Sound(e) /\ DOMAIN e = DOMAIN c \ {n} /\ s < n /\ NextOf(e, s) = NextOf(c, n)
    BY <2>2, MergedSound
  <2>4. Absorbed(e) = Absorbed(c) \ {n} /\ Compress(e) = Compress(c)
    BY <2>2, MergedCompresses
  <2>5. k + 1 + 1 < NextOf(e, s) /\ s \in DOMAIN e
    BY <1>4, <1>5, <2>2, <2>3
  <2> HIDE DEF d, e
  <2>6. Compressing(m, k + 1, d)
    BY <1>1, <2>1, <2>3, <2>4, <2>5 DEF Compressing
  <2> QED
    BY <2>6 DEF d
<1>6. CASE c[s].type # "Z" /\ ~(IsFree(c, s) /\ IsFree(c, n))
  <2>1. d.mcb = c /\ d.segment = n
    BY <1>2, <1>6
  <2>2. k + 1 + 1 < NextOf(c, n)
    BY <1>4, <1>6
  <2>3. ASSUME NEW h \in Absorbed(c) PROVE n < h
    <3>1. PICK g \in DOMAIN c : NextOf(c, g) = h /\ IsFree(c, g)
      BY <2>3 DEF Absorbed, Chain
    <3>2. IsFree(c, h) /\ h \in DOMAIN c /\ s < h
      BY <1>1, <2>3, AbsorbedFacts
    <3>3. h # n
      BY <1>1, <1>6, <3>1, <3>2, EndsDiffer
    <3>4. n <= h /\ h \in Nat
      BY <1>1, <3>2, SoundFacts
    <3> QED
      BY <1>4, <1>6, <3>3, <3>4
  <2> HIDE DEF c, s, n, d
  <2>4. Compressing(m, k + 1, d)
    BY <1>1, <1>4, <1>6, <2>1, <2>2, <2>3 DEF Compressing
  <2> QED
    BY <2>4 DEF d
<1> QED
  BY <1>3, <1>5, <1>6

\* The loop ends, with what Compress says.
LEMMA CompressLoopEnds ==
  ASSUME NEW m, Sound(m), Settled, NEW l, l = CompressLoop(m, UmbTop)
  PROVE  l.mcb[l.segment].type = "Z" /\ l.mcb = Compress(m)
<1>1. PICK at : CompressTurns(m, UmbTop, at) /\ l = at[UmbTop]
  BY CompressLoopIs, ArenaBounds
<1>2. at = [k \in 0 .. UmbTop |-> IF k = 0 THEN [mcb |-> m, segment |-> DOS_MEM_START]
                                  ELSE CompressTurn(at[k - 1])]
  BY <1>1 DEF CompressTurns
<1> DEFINE S == {k \in 0 .. UmbTop : Compressing(m, k, at[k])}
<1>3. 0 \in S
  <2>1. at[0].mcb = m /\ at[0].segment = DOS_MEM_START
    BY <1>2, ArenaBounds
  <2>2. DOS_MEM_START \in DOMAIN m /\ DOS_MEM_START > 0 /\ DOS_MEM_START < NextOf(m, DOS_MEM_START)
    BY SoundFacts, ArenaAssumption
  <2>3. OnMemoryChain(DOS_MEM_START)
    BY ArenaAssumption DEF OnMemoryChain, FirstFree
  <2>4. \A h \in Absorbed(m) : DOS_MEM_START < h
    BY AbsorbedFacts, SoundFacts
  <2>5. 0 + 1 < NextOf(m, DOS_MEM_START)
    BY <2>2, SoundFacts
  <2>6. Compressing(m, 0, at[0])
    BY <2>1, <2>2, <2>3, <2>4, <2>5 DEF Compressing
  <2> QED
    BY <2>6, ArenaBounds
<1>4. ASSUME NEW k \in 1 .. UmbTop, k - 1 \in S
      PROVE  k \in S
  <2>1. k - 1 \in Nat /\ (k - 1) + 1 = k /\ Compressing(m, k - 1, at[k - 1])
    BY <1>4, ArenaBounds
  <2>2. at[k] = CompressTurn(at[k - 1])
    BY <1>2, <1>4, ArenaBounds
  <2>3. Compressing(m, (k - 1) + 1, at[k])
    BY <2>1, <2>2, CompressingStays
  <2> QED
    BY <1>4, <2>1, <2>3, ArenaBounds
<1> HIDE DEF S
<1>5. UmbTop \in S
  BY <1>3, <1>4, AllUpTo, ArenaBounds
<1>6. /\ Sound(l.mcb) /\ Compress(l.mcb) = Compress(m)
      /\ l.segment \in DOMAIN l.mcb /\ OnMemoryChain(l.segment)
      /\ \A h \in Absorbed(l.mcb) : l.segment < h
      /\ l.mcb[l.segment].type = "Z" \/ UmbTop + 1 < NextOf(l.mcb, l.segment)
  BY <1>1, <1>5 DEF S, Compressing
<1>7. l.mcb[l.segment].type = "Z"
  <2>1. NextOf(l.mcb, l.segment) \in Nat /\ NextOf(l.mcb, l.segment) <= Top
    BY <1>6, SoundFacts
  <2>2. Top <= UmbTop
    BY ArenaBounds DEF Top
  <2> QED
    BY <1>6, <2>1, <2>2, ArenaBounds
<1>8. Absorbed(l.mcb) = {}
  <2>1. SUFFICES ASSUME NEW h \in Absorbed(l.mcb)
                 PROVE  FALSE
    OBVIOUS
  <2>2. /\ h \in DOMAIN l.mcb /\ DOS_MEM_START <= l.segment /\ l.segment < h
        /\ \A g \in DOMAIN l.mcb : DOS_MEM_START <= g /\ g < h => l.mcb[g].type = "M"
    BY <1>6, SoundFacts DEF Absorbed, Chain
  <2> QED
    BY <1>6, <1>7, <2>2
<1>9. l.mcb = Compress(m)
  BY <1>6, <1>8, NothingToMerge
<1> QED
  BY <1>7, <1>9


-----------------------------------------------------------------------------
(* The search of DOS_AllocateMemory.                                       *)

SearchState ==
  [segment : Nat, again : BOOLEAN, found_seg : Nat, found_seg_size : Nat,
   bigsize : Nat, over : BOOLEAN]

\* Of two blocks that are large enough the search prefers h to g, or h is g.
Prefers(m, first, second, h, g) ==
  CASE memAllocStrategy.fit = "first" -> VisitedBy(first, h, g)
    [] memAllocStrategy.fit = "best"  ->
         \/ m[h].size < m[g].size
         \/ m[h].size = m[g].size /\ VisitedBy(first, h, g)
    [] memAllocStrategy.fit = "last"  -> LastVisitedBy(second, h, g)

\* What the search remembers when it has visited F in its first pass, S in its
\* second, and taken none.
Remembers(m, n, F, S, l) ==
  /\ memAllocStrategy.fit = "first" => Fitting(m, F \cup S, n) = {}
  /\ memAllocStrategy.fit = "best" => \A g \in Fitting(m, F \cup S, n) : m[g].size # n
  /\ Fitting(m, F \cup S, n) = {} => l.found_seg = 0 /\ l.found_seg_size = 0
  /\ Fitting(m, F \cup S, n) # {} =>
       /\ l.found_seg \in Fitting(m, F \cup S, n)
       /\ l.found_seg_size = m[l.found_seg].size
       /\ \A g \in Fitting(m, F \cup S, n) : Prefers(m, F, S, l.found_seg, g)
  /\ l.bigsize \in {0} \cup {m[h].size : h \in FreeIn(m, F \cup S)}
  /\ \A h \in FreeIn(m, F \cup S) : m[h].size < n => m[h].size <= l.bigsize

LEMMA SeenIs ==
  ASSUME NEW m, NEW n, NEW l \in SearchState, m[l.segment].size \in Nat,
         NEW d, d = Seen(m, n, l)
  PROVE  /\ d \in SearchState
         /\ d.segment = l.segment /\ d.again = l.again /\ d.over = l.over
         /\ Noted(m, n, l) => d.found_seg = l.segment /\ d.found_seg_size = m[l.segment].size
         /\ ~Noted(m, n, l) => d.found_seg = l.found_seg /\ d.found_seg_size = l.found_seg_size
         /\ d.bigsize = IF IsFree(m, l.segment) /\ m[l.segment].size < n
                           /\ l.bigsize < m[l.segment].size
                        THEN m[l.segment].size ELSE l.bigsize
<1> DEFINE a == Noted(m, n, l)
           b == m[l.segment].size
           c == IF IsFree(m, l.segment) /\ b < n /\ l.bigsize < b THEN b ELSE l.bigsize
<1>1. d = [l EXCEPT !.found_seg = IF a THEN l.segment ELSE @,
                    !.found_seg_size = IF a THEN b ELSE @,
                    !.bigsize = c]
  BY DEF Seen
<1>2. c \in Nat /\ b \in Nat
  BY DEF SearchState
<1> HIDE DEF a, b
<1>3. c = IF IsFree(m, l.segment) /\ b < n /\ l.bigsize < b THEN b ELSE l.bigsize
  OBVIOUS
<1> HIDE DEF c
<1>4. CASE a
  BY <1>1, <1>2, <1>3, <1>4 DEF SearchState, a, b
<1>5. CASE ~a
  BY <1>1, <1>2, <1>3, <1>5 DEF SearchState, a, b
<1> QED
  BY <1>4, <1>5

\* A turn that takes no block. F2 and S2 are the passes with the block at hand.
LEMMA SeenRemembers ==
  ASSUME NEW m, Sound(m), NEW n \in Nat, memAllocStrategy.fit \in Fits,
         NEW l \in SearchState, NEW F \in SUBSET DOMAIN m, NEW S \in SUBSET DOMAIN m,
         Remembers(m, n, F, S, l), ~Taken(m, n, l),
         NEW s \in DOMAIN m, s = l.segment, NEW F2, NEW S2, F2 \cup S2 = F \cup S \cup {s},
         \A h, g \in F \cup S : VisitedBy(F, h, g) => VisitedBy(F2, h, g),
         \A h, g \in (F \cup S) \ {s} : LastVisitedBy(S, h, g) => LastVisitedBy(S2, h, g),
         VisitedBy(F2, s, s), s \notin F \cup S => \A h \in F \cup S : VisitedBy(F2, h, s),
         \A g \in F2 \cup S2 : LastVisitedBy(S2, s, g)
  PROVE  Remembers(m, n, F2, S2, Seen(m, n, l))
<1> DEFINE d == Seen(m, n, l)
           V == F \cup S
           G == Fitting(m, V, n)
           W == F2 \cup S2
           H == Fitting(m, W, n)
           b == m[s].size
           fit == memAllocStrategy.fit
<1>1. /\ d \in SearchState
      /\ Noted(m, n, l) => d.found_seg = s /\ d.found_seg_size = b
      /\ ~Noted(m, n, l) => d.found_seg = l.found_seg /\ d.found_seg_size = l.found_seg_size
      /\ d.bigsize = IF IsFree(m, s) /\ b < n /\ l.bigsize < b THEN b ELSE l.bigsize
  BY SeenIs, SoundFacts
<1>2. /\ V \subseteq DOMAIN m /\ W = V \cup {s} /\ W \subseteq DOMAIN m /\ b \in Nat
      /\ \A g \in DOMAIN m : m[g].size \in Nat
  BY SoundFacts
<1>3. /\ G = {h \in V : IsFree(m, h) /\ n <= m[h].size}
      /\ H = {h \in W : IsFree(m, h) /\ n <= m[h].size}
  BY DEF Fitting, FreeIn
<1>4. /\ LargeEnough(m, n, l) <=> IsFree(m, s) /\ n <= b
      /\ Taken(m, n, l) <=> LargeEnough(m, n, l) /\ (fit = "first" \/ (fit = "best" /\ b = n))
      /\ Noted(m, n, l) <=> LargeEnough(m, n, l) /\ (fit = "last" \/ l.found_seg_size = 0
                                                      \/ b < l.found_seg_size)
  BY DEF LargeEnough, Taken, Noted
<1>5. H = IF LargeEnough(m, n, l) THEN G \cup {s} ELSE G
  BY <1>2, <1>3, <1>4
<1>6. /\ fit = "first" => G = {}
      /\ fit = "best" => \A g \in G : m[g].size # n
      /\ G = {} => l.found_seg = 0 /\ l.found_seg_size = 0
      /\ G # {} => /\ l.found_seg \in G /\ l.found_seg_size = m[l.found_seg].size
                   /\ \A g \in G : Prefers(m, F, S, l.found_seg, g)
      /\ l.bigsize \in {0} \cup {m[h].size : h \in FreeIn(m, V)}
      /\ \A h \in FreeIn(m, V) : m[h].size < n => m[h].size <= l.bigsize
  BY DEF Remembers
<1>7. fit \in {"first", "best", "last"}
  BY DEF Fits
<1>8. /\ \A h, g \in V : VisitedBy(F, h, g) => VisitedBy(F2, h, g)
      /\ \A h, g \in V \ {s} : LastVisitedBy(S, h, g) => LastVisitedBy(S2, h, g)
      /\ VisitedBy(F2, s, s) /\ (s \notin V => \A h \in V : VisitedBy(F2, h, s))
      /\ \A g \in W : LastVisitedBy(S2, s, g)
  OBVIOUS
<1>9. G \subseteq V /\ \A g \in G : n <= m[g].size /\ m[g].size \in Nat
  BY <1>2, <1>3
<1>10. \A h, g : Prefers(m, F, S, h, g) <=>
         \/ fit = "first" /\ VisitedBy(F, h, g)
         \/ fit = "best" /\ (m[h].size < m[g].size \/ (m[h].size = m[g].size /\ VisitedBy(F, h, g)))
         \/ fit = "last" /\ LastVisitedBy(S, h, g)
  BY <1>7 DEF Prefers
<1>11. \A h, g : Prefers(m, F2, S2, h, g) <=>
         \/ fit = "first" /\ VisitedBy(F2, h, g)
         \/ fit = "best" /\ (m[h].size < m[g].size \/ (m[h].size = m[g].size /\ VisitedBy(F2, h, g)))
         \/ fit = "last" /\ LastVisitedBy(S2, h, g)
  BY <1>7 DEF Prefers
<1>12. ~Taken(m, n, l) /\ l.bigsize \in Nat /\ l.found_seg_size \in Nat
  BY DEF SearchState
<1>13. /\ FreeIn(m, V) = {h \in V : IsFree(m, h)}
       /\ FreeIn(m, W) = {h \in W : IsFree(m, h)}
  BY DEF FreeIn
<1> HIDE DEF d, V, G, W, H, b, fit
<1>14. /\ d.bigsize \in {0} \cup {m[h].size : h \in FreeIn(m, W)}
       /\ \A h \in FreeIn(m, W) : m[h].size < n => m[h].size <= d.bigsize
  <2>1. CASE IsFree(m, s) /\ b < n /\ l.bigsize < b
    <3>1. d.bigsize = b /\ s \in FreeIn(m, W)
      BY <1>1, <1>2, <1>13, <2>1
    <3>2. ASSUME NEW h \in FreeIn(m, W), m[h].size < n
          PROVE  m[h].size <= b
      <4>1. h \in DOMAIN m /\ m[h].size \in Nat
        BY <1>2, <1>13, <3>2
      <4>2. CASE h \in V
        <5>1. m[h].size <= l.bigsize
          BY <1>6, <1>13, <3>2, <4>2
        <5> QED
          BY <1>2, <1>12, <2>1, <4>1, <5>1
      <4>3. CASE h = s
        BY <1>2, <4>3 DEF b
      <4> QED
        BY <1>2, <1>13, <3>2, <4>2, <4>3
    <3> QED
      BY <3>1, <3>2 DEF b
  <2>2. CASE ~(IsFree(m, s) /\ b < n /\ l.bigsize < b)
    <3>1. d.bigsize = l.bigsize /\ FreeIn(m, V) \subseteq FreeIn(m, W)
      BY <1>1, <1>2, <1>13, <2>2
    <3>2. ASSUME NEW h \in FreeIn(m, W), m[h].size < n
          PROVE  m[h].size <= l.bigsize
      <4>1. CASE h \in V
        BY <1>6, <1>13, <3>2, <4>1
      <4>2. CASE h = s
        <5>1. IsFree(m, s) /\ b < n /\ m[h].size = b
          BY <1>13, <3>2, <4>2 DEF b
        <5> QED
          BY <1>2, <1>12, <2>2, <5>1
      <4> QED
        BY <1>2, <1>13, <3>2, <4>1, <4>2
    <3> QED
      BY <1>6, <3>1, <3>2
  <2> QED
    BY <2>1, <2>2
<1>15. /\ fit = "first" => H = {}
       /\ fit = "best" => \A g \in H : m[g].size # n
  BY <1>4, <1>5, <1>6, <1>12 DEF b
<1>16. /\ H = {} => d.found_seg = 0 /\ d.found_seg_size = 0
       /\ H # {} => /\ d.found_seg \in H /\ d.found_seg_size = m[d.found_seg].size
                    /\ \A g \in H : Prefers(m, F2, S2, d.found_seg, g)
  <2>1. CASE ~LargeEnough(m, n, l)
    <3>1. H = G /\ ~Noted(m, n, l) /\ d.found_seg = l.found_seg /\ d.found_seg_size = l.found_seg_size
      BY <1>1, <1>4, <1>5, <2>1
    <3>2. s \notin G
      BY <1>3, <1>4, <2>1 DEF b
    <3>3. ASSUME G # {}, NEW g \in G
          PROVE  Prefers(m, F2, S2, l.found_seg, g)
      BY <1>6, <1>8, <1>9, <1>10, <1>11, <3>2, <3>3
    <3> QED
      BY <1>6, <3>1, <3>3
  <2>2. CASE LargeEnough(m, n, l) /\ fit = "last"
    <3>1. H = G \cup {s} /\ d.found_seg = s /\ d.found_seg_size = b
      BY <1>1, <1>4, <1>5, <2>2
    <3>2. \A g \in H : g \in W
      BY <1>3
    <3> QED
      BY <1>8, <1>11, <2>2, <3>1, <3>2 DEF b
  <2>3. CASE LargeEnough(m, n, l) /\ fit = "best"
    <3>1. H = G \cup {s} /\ b # n /\ n <= b
      BY <1>4, <1>5, <1>12, <2>3
    <3>2. CASE G = {}
      <4>1. d.found_seg = s /\ d.found_seg_size = b /\ H = {s}
        BY <1>1, <1>4, <1>6, <2>3, <3>1, <3>2
      <4> QED
        BY <1>8, <1>11, <2>3, <4>1 DEF b
    <3>3. CASE G # {}
      <4> DEFINE f == l.found_seg
      <4>1. /\ f \in G /\ l.found_seg_size = m[f].size /\ m[f].size \in Nat /\ 0 < m[f].size
            /\ \A g \in G : \/ m[f].size < m[g].size
                            \/ m[f].size = m[g].size /\ VisitedBy(F, f, g)
        BY <1>6, <1>9, <1>10, <2>3, <3>3
      <4> HIDE DEF f
      <4>2. CASE b < m[f].size
        <5>1. d.found_seg = s /\ d.found_seg_size = b
          BY <1>1, <1>4, <2>3, <4>1, <4>2
        <5>2. \A g \in G : b < m[g].size
          BY <1>2, <1>9, <4>1, <4>2
        <5> QED
          BY <1>8, <1>11, <2>3, <3>1, <5>1, <5>2 DEF b
      <4>3. CASE ~(b < m[f].size)
        <5>1. d.found_seg = f /\ d.found_seg_size = m[f].size
          BY <1>1, <1>4, <2>3, <4>1, <4>3 DEF f
        <5>2. \A g \in G : \/ m[f].size < m[g].size
                           \/ m[f].size = m[g].size /\ VisitedBy(F2, f, g)
          BY <1>8, <1>9, <4>1
        <5>3. \/ m[f].size < m[s].size
              \/ m[f].size = m[s].size /\ VisitedBy(F2, f, s)
          <6>1. CASE s \in V
            <7>1. s \in G
              BY <1>3, <1>4, <2>3, <6>1 DEF b
            <7> QED
              BY <5>2, <7>1
          <6>2. CASE s \notin V
            BY <1>2, <1>8, <1>9, <4>1, <4>3, <6>2 DEF b
          <6> QED
            BY <6>1, <6>2
        <5> QED
          BY <1>11, <2>3, <3>1, <4>1, <5>1, <5>2, <5>3
      <4> QED
        BY <4>2, <4>3
    <3> QED
      BY <3>2, <3>3
  <2>4. CASE LargeEnough(m, n, l) /\ fit = "first"
    BY <1>4, <1>12, <2>4
  <2> QED
    BY <1>7, <2>1, <2>2, <2>3, <2>4
<1> QED
  BY <1>14, <1>15, <1>16 DEF Remembers, d, H, W, b, fit


LEMMA SeenFirst ==
  ASSUME NEW m, Sound(m), NEW n \in Nat, memAllocStrategy.fit \in Fits,
         NEW l \in SearchState, NEW F \in SUBSET DOMAIN m,
         Remembers(m, n, F, {}, l), ~Taken(m, n, l),
         NEW s \in DOMAIN m, s = l.segment, \A g \in F : g < s
  PROVE  Remembers(m, n, F \cup {s}, {}, Seen(m, n, l))
<1> DEFINE F2 == F \cup {s}
<1>1. F \in SUBSET Nat /\ s \in Nat
  BY SoundFacts
<1>2. /\ F2 \cup {} = F \cup {} \cup {s}
      /\ \A h, g \in F \cup {} : VisitedBy(F, h, g) => VisitedBy(F2, h, g)
      /\ \A h, g \in (F \cup {}) \ {s} : LastVisitedBy({}, h, g) => LastVisitedBy({}, h, g)
      /\ VisitedBy(F2, s, s)
      /\ s \notin F \cup {} => \A h \in F \cup {} : VisitedBy(F2, h, s)
      /\ \A g \in F2 \cup {} : LastVisitedBy({}, s, g)
  BY <1>1 DEF VisitedBy, LastVisitedBy
<1>3. {} \in SUBSET DOMAIN m
  OBVIOUS
<1> HIDE DEF F2
<1>4. Remembers(m, n, F2, {}, Seen(m, n, l))
  BY <1>2, <1>3, SeenRemembers
<1> QED
  BY <1>4 DEF F2

LEMMA SeenSecond ==
  ASSUME NEW m, Sound(m), NEW n \in Nat, memAllocStrategy.fit \in Fits,
         NEW l \in SearchState, NEW F \in SUBSET DOMAIN m, NEW S \in SUBSET DOMAIN m,
         Remembers(m, n, F, S, l), ~Taken(m, n, l),
         NEW s \in DOMAIN m, s = l.segment, \A g \in S : g < s
  PROVE  Remembers(m, n, F, S \cup {s}, Seen(m, n, l))
<1> DEFINE S2 == S \cup {s}
<1>1. F \in SUBSET Nat /\ S \in SUBSET Nat /\ s \in Nat
  BY SoundFacts
<1>2. /\ F \cup S2 = F \cup S \cup {s}
      /\ \A h, g \in F \cup S : VisitedBy(F, h, g) => VisitedBy(F, h, g)
      /\ \A h, g \in (F \cup S) \ {s} : LastVisitedBy(S, h, g) => LastVisitedBy(S2, h, g)
      /\ VisitedBy(F, s, s)
      /\ s \notin F \cup S => \A h \in F \cup S : VisitedBy(F, h, s)
      /\ \A g \in F \cup S2 : LastVisitedBy(S2, s, g)
  BY <1>1 DEF VisitedBy, LastVisitedBy
<1> HIDE DEF S2
<1>3. Remembers(m, n, F, S2, Seen(m, n, l))
  BY <1>2, SeenRemembers
<1> QED
  BY <1>3 DEF S2

\* What Chosen allows, in the words of Prefers.
LEMMA ChosenIs ==
  ASSUME NEW m, NEW n
  PROVE  Chosen(m, n) = {h \in Fitting(m, Searched(m), n) : \A g \in Fitting(m, Searched(m), n) :
                           Prefers(m, FirstPass(m), SecondPass(m), h, g)}
BY DEF Chosen, Searched, Prefers

\* Of two blocks that are large enough one is preferred.
LEMMA OneChosen ==
  ASSUME NEW m, Sound(m), memAllocStrategy.fit \in Fits, NEW n, NEW s \in Chosen(m, n)
  PROVE  Chosen(m, n) = {s}
<1> DEFINE first == FirstPass(m)
           second == SecondPass(m)
<1>1. ASSUME NEW h \in Chosen(m, n)
      PROVE  h = s
  <2>1. h \in DOMAIN m /\ s \in DOMAIN m
    BY <1>1, ChosenFits
  <2>2. h \in Nat /\ s \in Nat /\ m[h].size \in Nat /\ m[s].size \in Nat
    BY <2>1, SoundFacts
  <2>3. Prefers(m, first, second, h, s) /\ Prefers(m, first, second, s, h)
    BY <1>1, ChosenIs
  <2> HIDE DEF first, second
  <2>4. VisitedBy(first, h, s) /\ VisitedBy(first, s, h) => h = s
    BY <2>2 DEF VisitedBy
  <2>5. LastVisitedBy(second, h, s) /\ LastVisitedBy(second, s, h) => h = s
    BY <2>2 DEF LastVisitedBy
  <2>6. memAllocStrategy.fit \in {"first", "best", "last"}
    BY DEF Fits
  <2>7. CASE memAllocStrategy.fit = "first"
    BY <2>3, <2>4, <2>7 DEF Prefers
  <2>8. CASE memAllocStrategy.fit = "best"
    BY <2>2, <2>3, <2>4, <2>8 DEF Prefers
  <2>9. CASE memAllocStrategy.fit = "last"
    BY <2>3, <2>5, <2>9 DEF Prefers
  <2> QED
    BY <2>6, <2>7, <2>8, <2>9
<1> QED
  BY <1>1

\* What the search comes to.
Settles(m, n, l) ==
  IF l.found_seg # 0 THEN Chosen(m, n) = {l.found_seg}
  ELSE Fitting(m, Searched(m), n) = {} /\ LargestFree(m) = {l.bigsize}

\* A block that is taken at once is the one that Chosen allows: it comes before
\* all that have not been visited.
LEMMA TakenSettles ==
  ASSUME NEW m, Sound(m), memAllocStrategy.fit \in Fits, NEW n \in Nat, NEW l,
         NEW F, NEW S, Remembers(m, n, F, S, l), Taken(m, n, l),
         NEW s \in Searched(m), s = l.segment,
         s \notin F \cup S => \A g \in Searched(m) \ (F \cup S) : VisitedBy(FirstPass(m), s, g)
  PROVE  Chosen(m, n) = {s}
<1> DEFINE first == FirstPass(m)
           second == SecondPass(m)
           V == F \cup S
           A == Fitting(m, Searched(m), n)
           fit == memAllocStrategy.fit
<1>1. Searched(m) \subseteq DOMAIN m
  BY DEF Searched, FirstPass, SecondPass, Chain
<1>2. \A g \in Searched(m) : g \in Nat /\ m[g].size \in Nat
  BY <1>1, SoundFacts
<1>3. /\ IsFree(m, s) /\ n <= m[s].size
      /\ fit = "first" \/ (fit = "best" /\ m[s].size = n)
  BY DEF Taken, LargeEnough
<1>4. \A g : g \in A <=> g \in Searched(m) /\ IsFree(m, g) /\ n <= m[g].size
  BY DEF Fitting, FreeIn
<1>5. ASSUME NEW g \in V, IsFree(m, g), n <= m[g].size
      PROVE  fit = "best" /\ m[g].size # n
  <2>1. g \in Fitting(m, V, n)
    BY <1>5 DEF Fitting, FreeIn
  <2> QED
    BY <1>3, <2>1 DEF Remembers
<1>6. s \notin V
  BY <1>3, <1>5
<1>7. \A g \in Searched(m) \ V : VisitedBy(first, s, g)
  BY <1>6
<1> HIDE DEF first, second, V, A, fit
<1>8. s \in A
  BY <1>3, <1>4
<1>9. ASSUME NEW g \in A
      PROVE  Prefers(m, first, second, s, g)
  <2>1. g \in Searched(m) /\ IsFree(m, g) /\ n <= m[g].size /\ m[g].size \in Nat
    BY <1>2, <1>4
  <2>2. CASE fit = "first"
    <3>1. g \notin V
      BY <1>5, <2>1, <2>2
    <3> QED
      BY <1>7, <2>1, <2>2, <3>1 DEF Prefers, fit
  <2>3. CASE fit = "best" /\ m[s].size = n
    <3>1. CASE m[g].size = n
      <4>1. g \notin V
        BY <1>5, <2>1, <3>1
      <4>2. VisitedBy(first, s, g)
        BY <1>7, <2>1, <4>1
      <4> QED
        BY <2>3, <3>1, <4>2 DEF Prefers, fit
    <3>2. CASE m[g].size # n
      <4>1. m[s].size < m[g].size
        BY <2>1, <2>3, <3>2
      <4> QED
        BY <2>3, <4>1 DEF Prefers, fit
    <3> QED
      BY <3>1, <3>2
  <2> QED
    BY <1>3, <2>2, <2>3
<1>10. s \in Chosen(m, n)
  BY <1>8, <1>9, ChosenIs DEF A, first, second
<1> QED
  BY <1>10, OneChosen

\* So is the block that is remembered when both passes are over.
LEMMA RememberedSettles ==
  ASSUME NEW m, Sound(m), memAllocStrategy.fit \in Fits, NEW n \in Nat, NEW l,
         Remembers(m, n, FirstPass(m), SecondPass(m), l)
  PROVE  Settles(m, n, l)
<1> DEFINE A == Fitting(m, Searched(m), n)
<1>1. Searched(m) = FirstPass(m) \cup SecondPass(m)
  BY DEF Searched
<1>2. Searched(m) \subseteq DOMAIN m
  BY DEF Searched, FirstPass, SecondPass, Chain
<1>3. \A g \in Searched(m) : g \in Nat /\ g # 0 /\ m[g].size \in Nat
  BY <1>2, SoundFacts, ArenaAssumption
<1>4. \A g : g \in A <=> g \in Searched(m) /\ IsFree(m, g) /\ n <= m[g].size
  BY DEF Fitting, FreeIn
<1>5. CASE A # {}
  <2>1. l.found_seg \in A /\ \A g \in A : Prefers(m, FirstPass(m), SecondPass(m), l.found_seg, g)
    BY <1>1, <1>5 DEF Remembers
  <2>2. l.found_seg \in Chosen(m, n)
    BY <2>1, ChosenIs
  <2>3. l.found_seg # 0
    BY <1>3, <1>4, <2>1
  <2> QED
    BY <2>2, <2>3, OneChosen DEF Settles
<1>6. CASE A = {}
  <2> DEFINE b == l.bigsize
             Z == {0} \cup {m[h].size : h \in FreeIn(m, Searched(m))}
  <2>1. /\ l.found_seg = 0 /\ b \in Z
        /\ \A h \in FreeIn(m, Searched(m)) : m[h].size < n => m[h].size <= b
    BY <1>1, <1>6 DEF Remembers
  <2>2. \A h \in FreeIn(m, Searched(m)) : m[h].size < n /\ m[h].size \in Nat
    BY <1>3, <1>4, <1>6 DEF FreeIn
  <2>3. Z \in SUBSET Nat
    BY <2>2
  <2>4. LargestFree(m) = {c \in Z : \A d \in Z : d <= c}
    BY DEF LargestFree
  <2>5. \A d \in Z : d <= b
    BY <2>1, <2>2, <2>3
  <2> HIDE DEF Z, b
  <2>6. LargestFree(m) = {b}
    BY <2>1, <2>3, <2>4, <2>5
  <2> QED
    BY <1>6, <2>1, <2>6 DEF Settles, b
<1> QED
  BY <1>5, <1>6


\* The blocks of a chain in the order of a walk.
LEMMA ChainNext ==
  ASSUME NEW m, Sound(m), NEW c \in Nat, NEW s \in Chain(m, c)
  PROVE  /\ s \in DOMAIN m /\ m[s].type \in {"M", "Z"}
         /\ m[s].type = "M" =>
              /\ NextOf(m, s) \in Chain(m, c) /\ s < NextOf(m, s)
              /\ {h \in Chain(m, c) : h < NextOf(m, s)} = {h \in Chain(m, c) : h < s} \cup {s}
         /\ m[s].type = "Z" => Chain(m, c) = {h \in Chain(m, c) : h < s} \cup {s}
<1>1. /\ s \in DOMAIN m /\ s \in Nat /\ c <= s
      /\ \A g \in DOMAIN m : c <= g /\ g < s => m[g].type = "M"
  BY SoundFacts DEF Chain
<1>2. m[s].type \in {"M", "Z"}
  BY <1>1 DEF Sound, Tiled, Block
<1>3. Chain(m, c) \subseteq DOMAIN m /\ \A h \in Chain(m, c) : h \in Nat
  BY SoundFacts DEF Chain
<1>4. CASE m[s].type = "M"
  <2> DEFINE n == NextOf(m, s)
  <2>1. n \in DOMAIN m
    BY <1>1, <1>4, SoundFacts DEF Sound, Ended
  <2>2. n \in Nat /\ s < n /\ \A g \in DOMAIN m : s < g => n <= g
    BY <1>1, SoundFacts
  <2> HIDE DEF n
  <2>3. ASSUME NEW g \in DOMAIN m, g < n
        PROVE  g <= s /\ g \in Nat
    BY <1>1, <2>2, <2>3, SoundFacts
  <2>4. n \in Chain(m, c)
    <3>1. ASSUME NEW g \in DOMAIN m, c <= g, g < n
          PROVE  m[g].type = "M"
      BY <1>1, <1>4, <2>3, <3>1
    <3>2. c <= n
      BY <1>1, <2>2
    <3> QED
      BY <2>1, <3>1, <3>2 DEF Chain
  <2>5. {h \in Chain(m, c) : h < n} = {h \in Chain(m, c) : h < s} \cup {s}
    BY <1>1, <1>3, <2>2, <2>3
  <2> QED
    BY <1>1, <1>2, <1>4, <2>2, <2>4, <2>5 DEF n
<1>5. CASE m[s].type = "Z"
  <2>1. ASSUME NEW h \in Chain(m, c)
        PROVE  h < s \/ h = s
    <3>1. ~(s < h)
      <4>1. s < h => m[s].type = "M"
        BY <1>1, <2>1 DEF Chain
      <4> QED
        BY <1>5, <4>1
    <3> QED
      BY <1>1, <1>3, <3>1
  <2> QED
    BY <1>1, <1>2, <1>5, <2>1
<1> QED
  BY <1>2, <1>4, <1>5

\* Where a walk begins.
LEMMA ChainStarts ==
  ASSUME NEW m, Sound(m), NEW c \in DOMAIN m
  PROVE  c \in Chain(m, c) /\ {h \in Chain(m, c) : h < c} = {}
BY SoundFacts DEF Chain

\* Bit 7 of the strategy, when it counts.
GoesOn == SearchesHigh /\ memAllocStrategy.high = "highThenLow"

LEMMA PassesAre ==
  ASSUME NEW m, Sound(m), NEW c, c = IF SearchesHigh THEN umbStart ELSE DOS_MEM_START
  PROVE  /\ c \in DOMAIN m /\ c \in Nat /\ FirstPass(m) = Chain(m, c)
         /\ SecondPass(m) = IF GoesOn THEN Chain(m, DOS_MEM_START) ELSE {}
         /\ Searched(m) = FirstPass(m) \cup SecondPass(m) /\ Searched(m) \subseteq DOMAIN m
<1>1. c \in DOMAIN m /\ c \in Nat
  BY SoundFacts, ArenaBounds DEF SearchesHigh, Sound, Covered
<1>2. Searched(m) \subseteq DOMAIN m
  BY DEF Searched, FirstPass, SecondPass, Chain
<1> QED
  BY <1>1, <1>2 DEF FirstPass, SecondPass, Searched, GoesOn

\* The block at hand in the first pass, after k turns.
InFirst(m, n, k, l) ==
  /\ l.segment \in FirstPass(m) /\ k < l.segment /\ l.again = GoesOn
  /\ Remembers(m, n, {h \in FirstPass(m) : h < l.segment}, {}, l)

InSecond(m, n, k, l) ==
  /\ GoesOn /\ l.segment \in SecondPass(m) /\ k < UmbTop + l.segment /\ ~l.again
  /\ Remembers(m, n, FirstPass(m), {h \in SecondPass(m) : h < l.segment}, l)

Searching(m, n, k, l) ==
  /\ l \in SearchState
  /\ IF l.over THEN Settles(m, n, l) ELSE InFirst(m, n, k, l) \/ InSecond(m, n, k, l)

\* A turn that takes the block.
LEMMA TurnTakes ==
  ASSUME NEW m, Sound(m), memAllocStrategy.fit \in Fits, NEW n \in Nat, NEW k \in Nat,
         NEW l, Searching(m, n, k, l), ~l.over, Taken(m, n, l)
  PROVE  Searching(m, n, k + 1, SearchTurn(m, n, l))
<1> DEFINE s == l.segment
           d == SearchTurn(m, n, l)
           first == FirstPass(m)
           second == SecondPass(m)
<1>1. d = [l EXCEPT !.found_seg = s, !.over = TRUE]
  BY DEF SearchTurn
<1>2. l \in SearchState /\ (InFirst(m, n, k, l) \/ InSecond(m, n, k, l))
  BY DEF Searching
<1>3. d \in SearchState /\ d.over /\ d.found_seg = s
  BY <1>1, <1>2 DEF SearchState
<1>4. Searched(m) = first \cup second /\ Searched(m) \subseteq DOMAIN m
  BY PassesAre
<1>5. \A g \in Searched(m) : g \in Nat /\ g # 0
  BY <1>4, SoundFacts, ArenaAssumption
<1> HIDE DEF d, s, first, second
<1>6. CASE InFirst(m, n, k, l)
  <2> DEFINE F == {h \in first : h < s}
  <2>1. s \in first /\ Remembers(m, n, F, {}, l)
    BY <1>6 DEF InFirst, s, first
  <2>2. \A g \in Searched(m) \ (F \cup {}) : VisitedBy(first, s, g)
    BY <1>4, <1>5, <2>1 DEF VisitedBy
  <2> HIDE DEF F
  <2>3. Chosen(m, n) = {s} /\ s # 0
    BY <1>4, <1>5, <2>1, <2>2, TakenSettles DEF s, first
  <2> QED
    BY <1>3, <2>3 DEF Searching, Settles, d
<1>7. CASE InSecond(m, n, k, l)
  <2> DEFINE S == {h \in second : h < s}
  <2>1. s \in second /\ Remembers(m, n, first, S, l)
    BY <1>7 DEF InSecond, s, first, second
  <2>2. s \notin first \cup S => \A g \in Searched(m) \ (first \cup S) : VisitedBy(first, s, g)
    BY <1>4, <1>5, <2>1 DEF VisitedBy
  <2> HIDE DEF S
  <2>3. Chosen(m, n) = {s} /\ s # 0
    BY <1>4, <1>5, <2>1, <2>2, TakenSettles DEF s, first
  <2> QED
    BY <1>3, <2>3 DEF Searching, Settles, d
<1> QED
  BY <1>2, <1>6, <1>7

\* A turn in the first pass that takes none.
LEMMA TurnInFirst ==
  ASSUME NEW m, Sound(m), memAllocStrategy.fit \in Fits, NEW n \in Nat, NEW k \in Nat,
         NEW l \in SearchState, InFirst(m, n, k, l), ~l.over, ~Taken(m, n, l)
  PROVE  Searching(m, n, k + 1, SearchTurn(m, n, l))
<1> DEFINE s == l.segment
           d == SearchTurn(m, n, l)
           e == Seen(m, n, l)
           first == FirstPass(m)
           second == SecondPass(m)
           F == {h \in first : h < s}
<1>1. s \in first /\ k < s /\ l.again = GoesOn /\ Remembers(m, n, F, {}, l)
  BY DEF InFirst
<1>2. PICK c \in Nat : c \in DOMAIN m /\ first = Chain(m, c)
  BY PassesAre
<1>3. /\ s \in DOMAIN m /\ m[s].type \in {"M", "Z"}
      /\ m[s].type = "M" =>
           /\ NextOf(m, s) \in first /\ s < NextOf(m, s)
           /\ {h \in first : h < NextOf(m, s)} = F \cup {s}
      /\ m[s].type = "Z" => first = F \cup {s}
  BY <1>1, <1>2, ChainNext
<1>4. /\ m[s].size \in Nat /\ s \in Nat /\ F \in SUBSET DOMAIN m /\ \A g \in F : g < s
      /\ s < Top /\ NextOf(m, s) \in Nat
  BY <1>2, <1>3, SoundFacts DEF Chain
<1>5. Remembers(m, n, F \cup {s}, {}, e)
  BY <1>1, <1>3, <1>4, SeenFirst
<1>6. /\ e \in SearchState /\ e.segment = s /\ e.again = l.again /\ ~e.over
  BY <1>4, SeenIs
<1>7. d = IF m[s].type = "M" THEN [e EXCEPT !.segment = NextOf(m, s)]
          ELSE IF l.again THEN [e EXCEPT !.segment = DOS_MEM_START, !.again = FALSE]
          ELSE [e EXCEPT !.over = TRUE]
  BY DEF SearchTurn
<1>8. second = IF GoesOn THEN Chain(m, DOS_MEM_START) ELSE {}
  BY PassesAre
<1>9. GoesOn \in BOOLEAN /\ DOS_MEM_START \in Nat
  BY ArenaBounds DEF GoesOn, SearchesHigh
<1> HIDE DEF s, d, e, first, second, F
<1>10. CASE m[s].type = "M"
  <2>1. d = [e EXCEPT !.segment = NextOf(m, s)]
    BY <1>7, <1>10
  <2>2. /\ d \in SearchState /\ ~d.over /\ d.segment = NextOf(m, s) /\ d.again = GoesOn
        /\ d.found_seg = e.found_seg /\ d.found_seg_size = e.found_seg_size /\ d.bigsize = e.bigsize
    BY <1>1, <1>4, <1>6, <2>1 DEF SearchState
  <2>3. Remembers(m, n, F \cup {s}, {}, d)
    BY <1>5, <2>2 DEF Remembers
  <2>4. k + 1 < d.segment /\ d.segment \in first /\ {h \in first : h < d.segment} = F \cup {s}
    BY <1>1, <1>3, <1>4, <1>10, <2>2
  <2>5. InFirst(m, n, k + 1, d)
    BY <2>2, <2>3, <2>4 DEF InFirst, first
  <2> QED
    BY <2>2, <2>5 DEF Searching, d
<1>11. CASE m[s].type = "Z" /\ GoesOn
  <2>1. d = [e EXCEPT !.segment = DOS_MEM_START, !.again = FALSE]
    BY <1>1, <1>7, <1>11
  <2>2. /\ d \in SearchState /\ ~d.over /\ d.segment = DOS_MEM_START /\ ~d.again
        /\ d.found_seg = e.found_seg /\ d.found_seg_size = e.found_seg_size /\ d.bigsize = e.bigsize
    BY <1>6, <1>9, <2>1 DEF SearchState
  <2>3. DOS_MEM_START \in second /\ {h \in second : h < DOS_MEM_START} = {}
    BY <1>8, <1>11, ChainStarts, SoundFacts
  <2>4. Remembers(m, n, first, {}, d)
    BY <1>3, <1>5, <1>11, <2>2 DEF Remembers
  <2>5. k + 1 < UmbTop + DOS_MEM_START
    <3>1. Top <= UmbTop /\ Top \in Nat /\ UmbTop \in Nat /\ DOS_MEM_START > 0
      BY ArenaBounds, ArenaAssumption DEF Top
    <3> QED
      BY <1>1, <1>4, <1>9, <3>1
  <2>6. InSecond(m, n, k + 1, d)
    BY <1>11, <2>2, <2>3, <2>4, <2>5 DEF InSecond, first, second
  <2> QED
    BY <2>2, <2>6 DEF Searching, d
<1>12. CASE m[s].type = "Z" /\ ~GoesOn
  <2>1. d = [e EXCEPT !.over = TRUE]
    BY <1>1, <1>7, <1>12
  <2>2. /\ d \in SearchState /\ d.over
        /\ d.found_seg = e.found_seg /\ d.found_seg_size = e.found_seg_size /\ d.bigsize = e.bigsize
    BY <1>6, <2>1 DEF SearchState
  <2>3. second = {} /\ first = F \cup {s}
    BY <1>3, <1>8, <1>12
  <2>4. Remembers(m, n, first, second, d)
    BY <1>5, <2>2, <2>3 DEF Remembers
  <2>5. Settles(m, n, d)
    BY <2>4, RememberedSettles DEF first, second
  <2> QED
    BY <2>2, <2>5 DEF Searching, d
<1> QED
  BY <1>3, <1>9, <1>10, <1>11, <1>12

LEMMA TurnInSecond ==
  ASSUME NEW m, Sound(m), memAllocStrategy.fit \in Fits, NEW n \in Nat, NEW k \in Nat,
         NEW l \in SearchState, InSecond(m, n, k, l), ~l.over, ~Taken(m, n, l)
  PROVE  Searching(m, n, k + 1, SearchTurn(m, n, l))
<1> DEFINE s == l.segment
           d == SearchTurn(m, n, l)
           e == Seen(m, n, l)
           first == FirstPass(m)
           second == SecondPass(m)
           S == {h \in second : h < s}
<1>1. /\ GoesOn /\ s \in second /\ k < UmbTop + s /\ ~l.again
      /\ Remembers(m, n, first, S, l)
  BY DEF InSecond
<1>2. second = Chain(m, DOS_MEM_START) /\ DOS_MEM_START \in Nat /\ first \in SUBSET DOMAIN m
  BY <1>1, PassesAre, ArenaBounds DEF Chain
<1>3. /\ s \in DOMAIN m /\ m[s].type \in {"M", "Z"}
      /\ m[s].type = "M" =>
           /\ NextOf(m, s) \in second /\ s < NextOf(m, s)
           /\ {h \in second : h < NextOf(m, s)} = S \cup {s}
      /\ m[s].type = "Z" => second = S \cup {s}
  BY <1>1, <1>2, ChainNext
<1>4. /\ m[s].size \in Nat /\ s \in Nat /\ S \in SUBSET DOMAIN m /\ \A g \in S : g < s
      /\ NextOf(m, s) \in Nat
  BY <1>2, <1>3, SoundFacts DEF Chain
<1>5. Remembers(m, n, first, S \cup {s}, e)
  BY <1>1, <1>2, <1>3, <1>4, SeenSecond
<1>6. /\ e \in SearchState /\ e.segment = s /\ e.again = l.again /\ ~e.over
  BY <1>4, SeenIs
<1>7. d = IF m[s].type = "M" THEN [e EXCEPT !.segment = NextOf(m, s)]
          ELSE [e EXCEPT !.over = TRUE]
  BY <1>1 DEF SearchTurn
<1> HIDE DEF s, d, e, first, second, S
<1>8. CASE m[s].type = "M"
  <2>1. d = [e EXCEPT !.segment = NextOf(m, s)]
    BY <1>7, <1>8
  <2>2. /\ d \in SearchState /\ ~d.over /\ d.segment = NextOf(m, s) /\ ~d.again
        /\ d.found_seg = e.found_seg /\ d.found_seg_size = e.found_seg_size /\ d.bigsize = e.bigsize
    BY <1>1, <1>4, <1>6, <2>1 DEF SearchState
  <2>3. Remembers(m, n, first, S \cup {s}, d)
    BY <1>5, <2>2 DEF Remembers
  <2>4. k + 1 < UmbTop + d.segment
    BY <1>1, <1>3, <1>4, <1>8, <2>2, ArenaBounds
  <2>5. d.segment \in second /\ {h \in second : h < d.segment} = S \cup {s}
    BY <1>3, <1>8, <2>2
  <2>6. InSecond(m, n, k + 1, d)
    BY <1>1, <2>2, <2>3, <2>4, <2>5 DEF InSecond, first, second
  <2> QED
    BY <2>2, <2>6 DEF Searching, d
<1>9. CASE m[s].type = "Z"
  <2>1. d = [e EXCEPT !.over = TRUE]
    BY <1>7, <1>9
  <2>2. /\ d \in SearchState /\ d.over
        /\ d.found_seg = e.found_seg /\ d.found_seg_size = e.found_seg_size /\ d.bigsize = e.bigsize
    BY <1>6, <2>1 DEF SearchState
  <2>3. Remembers(m, n, first, second, d)
    BY <1>3, <1>5, <1>9, <2>2 DEF Remembers
  <2>4. Settles(m, n, d)
    BY <2>3, RememberedSettles DEF first, second
  <2> QED
    BY <2>2, <2>4 DEF Searching, d
<1> QED
  BY <1>3, <1>8, <1>9

LEMMA SearchingStays ==
  ASSUME NEW m, Sound(m), memAllocStrategy.fit \in Fits, NEW n \in Nat, NEW k \in Nat,
         NEW l, Searching(m, n, k, l)
  PROVE  Searching(m, n, k + 1, SearchTurn(m, n, l))
<1>1. CASE l.over
  <2>1. SearchTurn(m, n, l) = l
    BY <1>1 DEF SearchTurn
  <2> QED
    BY <1>1, <2>1 DEF Searching
<1>2. CASE ~l.over
  BY <1>2, TurnTakes, TurnInFirst, TurnInSecond DEF Searching
<1> QED
  BY <1>1, <1>2


\* The search before its first turn.
Start ==
  [segment |-> IF SearchesHigh THEN umbStart ELSE DOS_MEM_START,
   again |-> SearchesHigh /\ memAllocStrategy.high = "highThenLow",
   found_seg |-> 0, found_seg_size |-> 0, bigsize |-> 0, over |-> FALSE]

LEMMA SearchStarts ==
  ASSUME NEW m, Sound(m), NEW n \in Nat
  PROVE  Searching(m, n, 0, Start)
<1> DEFINE c == IF SearchesHigh THEN umbStart ELSE DOS_MEM_START
           l == Start
<1>1. c \in DOMAIN m /\ c \in Nat /\ FirstPass(m) = Chain(m, c)
  BY PassesAre
<1>2. c # 0
  BY <1>1, SoundFacts, ArenaAssumption
<1>3. GoesOn \in BOOLEAN
  BY DEF GoesOn, SearchesHigh
<1> HIDE DEF c
<1>4. l = [segment |-> c, again |-> GoesOn, found_seg |-> 0, found_seg_size |-> 0,
           bigsize |-> 0, over |-> FALSE]
  BY DEF Start, c, GoesOn
<1>5. /\ l \in SearchState /\ ~l.over /\ l.segment = c /\ l.again = GoesOn
      /\ l.found_seg = 0 /\ l.found_seg_size = 0 /\ l.bigsize = 0
  BY <1>1, <1>3, <1>4 DEF SearchState
<1>6. c \in FirstPass(m) /\ {h \in FirstPass(m) : h < c} = {}
  BY <1>1, ChainStarts
<1> HIDE DEF l
<1>7. Remembers(m, n, {}, {}, l)
  BY <1>5 DEF Remembers, Fitting, FreeIn
<1>8. InFirst(m, n, 0, l)
  BY <1>1, <1>2, <1>5, <1>6, <1>7 DEF InFirst
<1> QED
  BY <1>5, <1>8 DEF Searching, l

\* at is the search, turn by turn.
SearchTurns(m, n, k, at) ==
  at = [i \in 0 .. k |-> IF i = 0 THEN Start ELSE SearchTurn(m, n, at[i - 1])]

LEMMA SearchTurnsExist ==
  ASSUME NEW m, NEW n, NEW k \in Nat
  PROVE  \E at : SearchTurns(m, n, k, at)
<1> DEFINE S == {i \in 0 .. k : \E at : SearchTurns(m, n, i, at)}
<1>1. 0 \in S
  <2> DEFINE at == [i \in 0 .. 0 |-> Start]
  <2>1. at = [i \in 0 .. 0 |-> IF i = 0 THEN Start ELSE SearchTurn(m, n, at[i - 1])]
    OBVIOUS
  <2> HIDE DEF at
  <2>2. SearchTurns(m, n, 0, at)
    BY <2>1, Zenon DEF SearchTurns
  <2> QED
    BY <2>2
<1>2. ASSUME NEW x \in 1 .. k, x - 1 \in S
      PROVE  x \in S
  <2>1. PICK at : SearchTurns(m, n, x - 1, at)
    BY <1>2
  <2>2. at = [i \in 0 .. x - 1 |-> IF i = 0 THEN Start ELSE SearchTurn(m, n, at[i - 1])]
    BY <2>1 DEF SearchTurns
  <2> DEFINE g == [i \in 0 .. x |-> IF i = 0 THEN Start ELSE SearchTurn(m, n, at[i - 1])]
  <2>3. ASSUME NEW i \in 0 .. x - 1
        PROVE  g[i] = at[i]
    <3>1. at[i] = IF i = 0 THEN Start ELSE SearchTurn(m, n, at[i - 1])
      BY <2>2
    <3>2. i \in 0 .. x
      BY <1>2
    <3> QED
      BY <3>1, <3>2
  <2>4. ASSUME NEW i \in 0 .. x
        PROVE  g[i] = IF i = 0 THEN Start ELSE SearchTurn(m, n, g[i - 1])
    <3>1. i # 0 => i - 1 \in 0 .. x - 1
      BY <1>2
    <3>2. i # 0 => g[i - 1] = at[i - 1]
      BY <2>3, <3>1
    <3> QED
      BY <3>2
  <2>5. g = [i \in 0 .. x |-> g[i]]
    OBVIOUS
  <2> HIDE DEF g
  <2>6. SearchTurns(m, n, x, g)
    BY <2>4, <2>5, Zenon DEF SearchTurns
  <2> QED
    BY <1>2, <2>6
<1> HIDE DEF S
<1>3. k \in S
  BY <1>1, <1>2, AllUpTo
<1> QED
  BY <1>3 DEF S

LEMMA SearchIs ==
  ASSUME NEW m, NEW n, NEW k \in Nat
  PROVE  \E at : SearchTurns(m, n, k, at) /\ Search(m, n, k) = at[k]
<1> DEFINE P(at) == at = [i \in 0 .. k |-> IF i = 0 THEN Start ELSE SearchTurn(m, n, at[i - 1])]
           search == CHOOSE at : P(at)
<1>1. Search(m, n, k) = search[k]
  BY Zenon DEF Search, Start
<1>2. \E at : P(at)
  <2>1. PICK at : SearchTurns(m, n, k, at)
    BY SearchTurnsExist
  <2>2. P(at)
    BY <2>1, Zenon DEF SearchTurns
  <2> HIDE DEF P
  <2> QED
    BY <2>2
<1> HIDE DEF P
<1>3. P(search)
  BY <1>2, Zenon
<1>4. SearchTurns(m, n, k, search)
  BY <1>3, Zenon DEF P, SearchTurns
<1> QED
  BY <1>1, <1>4

\* The search ends, with what Chosen and LargestFree say.
LEMMA SearchEnds ==
  ASSUME NEW m, Sound(m), memAllocStrategy.fit \in Fits, NEW n \in Nat,
         NEW l, l = Search(m, n, 2 * UmbTop)
  PROVE  l.over /\ Settles(m, n, l)
<1> DEFINE k == 2 * UmbTop
<1>1. k \in Nat /\ UmbTop \in Nat /\ k = UmbTop + UmbTop
  BY ArenaBounds
<1> HIDE DEF k
<1>2. PICK at : SearchTurns(m, n, k, at) /\ l = at[k]
  BY <1>1, SearchIs DEF k
<1>3. at = [i \in 0 .. k |-> IF i = 0 THEN Start ELSE SearchTurn(m, n, at[i - 1])]
  BY <1>2 DEF SearchTurns
<1> DEFINE S == {i \in 0 .. k : Searching(m, n, i, at[i])}
<1>4. 0 \in S
  <2>1. at[0] = Start
    BY <1>1, <1>3
  <2> QED
    BY <1>1, <2>1, SearchStarts
<1>5. ASSUME NEW i \in 1 .. k, i - 1 \in S
      PROVE  i \in S
  <2>1. i - 1 \in Nat /\ (i - 1) + 1 = i /\ Searching(m, n, i - 1, at[i - 1])
    BY <1>1, <1>5
  <2>2. at[i] = SearchTurn(m, n, at[i - 1])
    BY <1>1, <1>3, <1>5
  <2>3. Searching(m, n, (i - 1) + 1, at[i])
    BY <2>1, <2>2, SearchingStays
  <2> QED
    BY <1>1, <1>5, <2>1, <2>3
<1> HIDE DEF S
<1>6. k \in S
  BY <1>1, <1>4, <1>5, AllUpTo
<1>7. Searching(m, n, k, l)
  BY <1>2, <1>6 DEF S
<1>8. l.over
  <2>1. SUFFICES ASSUME ~l.over
                 PROVE  FALSE
    OBVIOUS
  <2>2. /\ l.segment \in Searched(m)
        /\ k < l.segment \/ k < UmbTop + l.segment
    BY <1>7, <2>1 DEF Searching, InFirst, InSecond, Searched
  <2>3. l.segment \in DOMAIN m
    BY <2>2, PassesAre
  <2>4. l.segment \in Nat /\ l.segment < Top /\ Top <= UmbTop /\ Top \in Nat
    BY <2>3, SoundFacts, ArenaBounds DEF Top
  <2> QED
    BY <1>1, <2>2, <2>4
<1> QED
  BY <1>7, <1>8 DEF Searching

\* The loops of DOS_CompressMemory and DOS_AllocateMemory end in every arena that
\* the program reaches, and do what Compress, Chosen and LargestFree say: what
\* is proved of the calls is proved of the loops.
THEOREM LoopsAlwaysAgree == Spec => []LoopsAgree
<1>1. ASSUME IInv PROVE LoopsAgree
  <2> DEFINE m == Compress(mcb)
             compressed == CompressLoop(mcb, UmbTop)
  <2>1. Settled /\ Sound(mcb)
    BY <1>1 DEF IInv
  <2>2. Sound(m) /\ memAllocStrategy.fit \in Fits
    BY <2>1, CompressSound DEF Settled
  <2>3. compressed.mcb[compressed.segment].type = "Z" /\ compressed.mcb = m
    BY <2>1, CompressLoopEnds
  <2> HIDE DEF m, compressed
  <2>4. ASSUME NEW n \in Requests
        PROVE  \E l \in {Search(m, n, 2 * UmbTop)} :
                 /\ l.over
                 /\ IF l.found_seg # 0 THEN Chosen(m, n) = {l.found_seg}
                    ELSE Fitting(m, Searched(m), n) = {} /\ LargestFree(m) = {l.bigsize}
    BY <2>2, RequestAssumption, SearchEnds DEF Settles
  <2> QED
    BY <2>3, <2>4 DEF LoopsAgree, m, compressed
<1>2. IInv => LoopsAgree
  BY <1>1
<1> QED
  BY <1>2, Invariant, PTL

=============================================================================
