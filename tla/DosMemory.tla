----------------------------- MODULE DosMemory -----------------------------
(***************************************************************************)
(* The DOS memory arena of DOSBox: the chain of memory control blocks that *)
(* src/dosbox/src/dos/dos_memory.cpp keeps inside the memory it manages.   *)
(*                                                                         *)
(* A memory control block (MCB) is the paragraph at segment h; the block   *)
(* it heads is the mcb[h].size paragraphs after it, so the next header is  *)
(* at h + size + 1.  mcb maps the segment of every header that is on a     *)
(* chain to its three fields.  The type is "M" when more blocks follow and *)
(* "Z" on the last block of a chain, the psp is the owning process or      *)
(* MCB_FREE.  Every operation rewrites the fields as the code does;        *)
(* nothing but the fields says where a block ends.                         *)
(*                                                                         *)
(* The loops of the code are closed forms here: Chain is what a walk from  *)
(* a header visits, Compress what DOS_CompressMemory leaves, Chosen the    *)
(* block the search of DOS_AllocateMemory settles on.  MemoryLoops holds   *)
(* the loops themselves, and says that they do the same.                   *)
(***************************************************************************)
EXTENDS Integers, FiniteSets

CONSTANTS
  DOS_MEM_START,  \* segment of the first MCB (0x16f)
  EnvSize,        \* size of the free block below the LOADFIX block (4)
  LockSize,       \* size of the block LOADFIX can release (16)
  UMB_START_SEG,  \* end of conventional memory, where the UMB chain starts
  FirstUmbSeg,    \* first upper memory block proper (0xd000)
  UmbTop,         \* end of upper memory (0xe000 with EMS, 0xf000 without)
  Psps,           \* segments of the processes
  MCB_FREE,       \* psp of a free block (0)
  MCB_DOS,        \* psp of the blocks of DOS itself (8)
  LoadfixPsp,     \* psp of the block LOADFIX can release (0x40)
  NoUmb,          \* "no UMB chain" in the DOS info block (0xffff)
  Requests,       \* the sizes programs ask for
  Strategies,     \* the allocation strategies programs set: [high, fit]
  LinkStates      \* the link states programs pass to INT 21h/5803h

\* First free segment that DOS_SetupMemory leaves to programs.
FirstFree == DOS_MEM_START + 2 + (EnvSize + 1) + (LockSize + 1)

ASSUME ArenaAssumption ==
  /\ DOS_MEM_START \in Nat \ {0} /\ {EnvSize, LockSize} \subseteq Nat
  /\ {UMB_START_SEG, FirstUmbSeg, UmbTop} \subseteq Nat
  /\ FirstFree < UMB_START_SEG
  /\ UMB_START_SEG < FirstUmbSeg
  /\ FirstUmbSeg < UmbTop
  /\ NoUmb # UMB_START_SEG

ASSUME OwnerAssumption ==
  /\ MCB_FREE \notin Psps \cup {MCB_DOS, LoadfixPsp}
  /\ MCB_DOS \notin Psps \cup {LoadfixPsp}
  /\ Psps # {}

ASSUME RequestAssumption == Requests \subseteq Nat

\* Bits 6 and 7 of a strategy say where the search starts, the low bits how
\* a block is chosen.  DOS_SetMemAllocStrategy refuses every other low value.
Fits == {"first", "best", "last"}
Highs == {"low", "high", "highThenLow"}

ASSUME StrategyAssumption ==
  /\ Strategies \subseteq [high: Highs, fit: Fits \cup {"invalid"}]
  /\ LinkStates \subseteq Nat

VARIABLES
  mcb,       \* header segment -> [type, psp, size]
  psp,       \* dos.psp(), the running process
  memAllocStrategy,
  umbStart,  \* dos_infoblock.GetStartOfUMBChain()
  umbState,  \* dos_infoblock.GetUMBChainState()
  booted,    \* the XMS module has called DOS_BuildUMBChain
  ret        \* what the last call told its caller

vars == <<mcb, psp, memAllocStrategy, umbStart, umbState, booted, ret>>

Owners == Psps \cup {MCB_FREE, MCB_DOS, LoadfixPsp}
Block == [type: {"M", "Z"}, psp: Owners, size: Nat]
Heads == DOMAIN mcb

\* The last call and what it told its caller: where a block was allocated, or
\* the largest size to be had when an allocation or a resize finds too little;
\* of the calls that change no block, no more than whether they succeeded.
Answer(op, h, ok, blocks) ==
  [op |-> op, head |-> h, ok |-> ok, blocks |-> blocks]

Done(ok) == Answer("done", 0, ok, 0)

-----------------------------------------------------------------------------
(* Walking and compressing a chain.                                        *)

NextOf(m, h) == h + m[h].size + 1

IsFree(m, h) == m[h].psp = MCB_FREE

\* The headers a walk from header s visits before it stops at a "Z".
Chain(m, s) == {h \in DOMAIN m :
                  /\ s <= h
                  /\ \A g \in DOMAIN m : s <= g /\ g < h => m[g].type = "M"}

\* Mutant: only the second of two neighbours is asked whether it is free.
Absorbed_anyBefore(m) ==
  LET C == Chain(m, DOS_MEM_START) IN
  {h \in C : IsFree(m, h)} \cap {NextOf(m, g) : g \in C}

\* The free blocks that DOS_CompressMemory adds to the free block before.
Absorbed(m) ==
  LET F == {h \in Chain(m, DOS_MEM_START) : IsFree(m, h)} IN
  F \cap {NextOf(m, g) : g \in F}

\* The nearest place after h where a block ends, and the block that ends there.
NearestEnd(ends, h) ==
  CHOOSE e \in ends : h < e /\ \A d \in ends : h < d => e <= d

BlockEndingAt(m, e) == CHOOSE f \in DOMAIN m : NextOf(m, f) = e

\* Merging keeps the survivors and, of the places where a block ends, those
\* where no absorbed block begins.  A survivor reaches to the nearest of them,
\* and takes the type of the block that ended there.
Compress(m) ==
  LET gone == Absorbed(m)
      ends == {NextOf(m, g) : g \in DOMAIN m} \ gone
  IN  [h \in DOMAIN m \ gone |->
         [type |-> m[BlockEndingAt(m, NearestEnd(ends, h))].type,
          psp  |-> m[h].psp,
          size |-> NearestEnd(ends, h) - h - 1]]

-----------------------------------------------------------------------------
(* DOS_SetupMemory and DOS_BuildUMBChain: the chains at boot.              *)

SetupMemory ==
  LET dev  == DOS_MEM_START
      env  == dev + 2
      lock == env + EnvSize + 1
  IN  [h \in {dev, env, lock, FirstFree} |->
         CASE h = dev  -> [type |-> "M", psp |-> MCB_DOS, size |-> 1]
           [] h = env  -> [type |-> "M", psp |-> MCB_FREE, size |-> EnvSize]
           [] h = lock -> [type |-> "M", psp |-> LoadfixPsp, size |-> LockSize]
           [] h = FirstFree -> [type |-> "Z", psp |-> MCB_FREE,
                                size |-> UMB_START_SEG - 1 - FirstFree]]

Init ==
  /\ mcb = SetupMemory
  /\ psp \in Psps
  /\ memAllocStrategy = [high |-> "low", fit |-> "first"]
  /\ umbStart = NoUmb
  /\ umbState = 0
  /\ booted = FALSE
  /\ ret = Done(TRUE)

\* The XMS module builds the chain once, before any program runs, or leaves
\* the machine without one (umb=false, or a Tandy).  The block after the last
\* "Z" block of conventional memory covers the video memory and the ROMs.
BuildUMBChain(umb_active) ==
  /\ ~booted
  /\ booted' = TRUE
  /\ umbState' = 0
  /\ IF umb_active
     THEN \E h \in Chain(mcb, DOS_MEM_START) :
            /\ mcb[h].type = "Z"
            /\ LET cover == NextOf(mcb, h) IN
               mcb' = [g \in Heads \cup {cover, FirstUmbSeg} |->
                 IF g = cover
                 THEN [type |-> "M", psp |-> MCB_DOS,
                       size |-> FirstUmbSeg - cover - 1]
                 ELSE IF g = FirstUmbSeg
                 THEN [type |-> "Z", psp |-> MCB_FREE,
                       size |-> UmbTop - FirstUmbSeg - 1]
                 ELSE mcb[g]]
            /\ umbStart' = UMB_START_SEG
     ELSE /\ umbStart' = NoUmb
          /\ UNCHANGED mcb
  /\ ret' = Done(TRUE)
  /\ UNCHANGED <<psp, memAllocStrategy>>

-----------------------------------------------------------------------------
(* DOS_AllocateMemory.                                                     *)

\* The headers the search visits first, and those it goes on to when bit 7
\* of the strategy says "then low".  Without a UMB chain both bits are void.
SearchesHigh == umbStart = UMB_START_SEG /\ memAllocStrategy.high # "low"

FirstPass(m) ==
  Chain(m, IF SearchesHigh THEN umbStart ELSE DOS_MEM_START)

SecondPass(m) ==
  IF SearchesHigh /\ memAllocStrategy.high = "highThenLow"
  THEN Chain(m, DOS_MEM_START)
  ELSE {}

FreeIn(m, S) == {h \in S : IsFree(m, h)}
Fitting(m, S, n) == {h \in FreeIn(m, S) : n <= m[h].size}
Searched(m) == FirstPass(m) \cup SecondPass(m)

\* With first and second the passes of the search: h is visited before g, or
\* is g; and the last visit to h comes after the last visit to g, or h is g.
VisitedBy(first, h, g) ==
  IF h \in first THEN g \in first => h <= g ELSE g \notin first /\ h <= g

LastVisitedBy(second, h, g) ==
  IF h \in second THEN g \in second => g <= h ELSE g \notin second /\ g <= h

\* h is the block the search for n paragraphs settles on.  An exact fit ends
\* a best-fit search at once: it is a smallest fitting block, the first such.
Chosen(m, n) ==
  LET first == FirstPass(m)
      second == SecondPass(m)
      F == Fitting(m, first \cup second, n)
  IN  {h \in F : \A g \in F :
        CASE memAllocStrategy.fit = "first" -> VisitedBy(first, h, g)
          [] memAllocStrategy.fit = "best"  ->
               \/ m[h].size < m[g].size
               \/ m[h].size = m[g].size /\ VisitedBy(first, h, g)
          [] memAllocStrategy.fit = "last"  -> LastVisitedBy(second, h, g)}

\* Mutant: the rest of a split block forgets the paragraph of its own header.
SplitAt_noHeader(m, h, n, lowPsp, highPsp) ==
  [g \in DOMAIN m \cup {h + n + 1} |->
     IF g = h
     THEN [type |-> "M", psp |-> lowPsp, size |-> n]
     ELSE IF g = h + n + 1
     THEN [type |-> m[h].type, psp |-> highPsp, size |-> m[h].size - n]
     ELSE m[g]]

\* The free block h becomes two: n paragraphs at its start, the rest after.
\* The part that comes last keeps the type of h.
SplitAt(m, h, n, lowPsp, highPsp) ==
  [g \in DOMAIN m \cup {h + n + 1} |->
     IF g = h
     THEN [type |-> "M", psp |-> lowPsp, size |-> n]
     ELSE IF g = h + n + 1
     THEN [type |-> m[h].type, psp |-> highPsp, size |-> m[h].size - n - 1]
     ELSE m[g]]

\* Mutant: a last fit returns the segment of the block it split.
Carved_atStart(m, h, n) == h

\* The block handed out for a request of n paragraphs out of the free h.
Carved(m, h, n) ==
  IF memAllocStrategy.fit = "last" THEN h + m[h].size - n ELSE h

Carve(m, h, n) ==
  IF m[h].size = n
  THEN [m EXCEPT ![h].psp = psp]
  ELSE IF memAllocStrategy.fit = "last"
  THEN SplitAt(m, h, m[h].size - n - 1, MCB_FREE, psp)
  ELSE SplitAt(m, h, n, psp, MCB_FREE)

\* Mutant: allocated blocks count for the largest size reported.
LargestFree_any(m) ==
  LET S == {0} \cup {m[h].size : h \in Searched(m)} IN
  {b \in S : \A c \in S : c <= b}

\* The size of the largest free block the search went past: a set of one.
LargestFree(m) ==
  LET S == {0} \cup {m[h].size : h \in FreeIn(m, Searched(m))} IN
  {b \in S : \A c \in S : c <= b}

AllocateMemory(n) ==
  /\ booted
  /\ LET m == Compress(mcb) IN
     \/ \E h \in Chosen(m, n) :
          /\ mcb' = Carve(m, h, n)
          /\ ret' = Answer("alloc", Carved(m, h, n), TRUE, n)
     \/ /\ Fitting(m, Searched(m), n) = {}
        /\ mcb' = m
        /\ \E b \in LargestFree(m) : ret' = Answer("alloc", 0, FALSE, b)
  /\ UNCHANGED <<psp, memAllocStrategy, umbStart, umbState, booted>>

-----------------------------------------------------------------------------
(* DOS_ResizeMemory.                                                       *)

\* Mutant: the next block is joined whoever owns it.
CanJoin_any(m, h) == m[h].type = "M"

\* The size the block at h can have: its own, and with it the next block when
\* that one is on the same chain and free.
CanJoin(m, h) == m[h].type = "M" /\ IsFree(m, NextOf(m, h))

Extent(m, h) ==
  IF CanJoin(m, h) THEN m[h].size + m[NextOf(m, h)].size + 1 ELSE m[h].size

\* The last block that h joins when it grows beyond its own size.
Joined(m, h) == IF CanJoin(m, h) THEN NextOf(m, h) ELSE h

\* h takes all it can join.
Absorb(m, h) ==
  [g \in DOMAIN m \ ({Joined(m, h)} \ {h}) |->
     IF g = h
     THEN [type |-> m[Joined(m, h)].type, psp |-> psp, size |-> Extent(m, h)]
     ELSE m[g]]

\* h takes n < Extent paragraphs and leaves the rest as a free block.
Trim(m, h, n) ==
  SplitAt(IF n < m[h].size THEN m ELSE Absorb(m, h), h, n, psp, MCB_FREE)

\* A program resizes a block that is allocated, its own or another's: the
\* code asks no more than that the header has one of the two types.  The
\* block passes to the running process, also when the call fails.
ResizeMemory(h, n) ==
  /\ booted
  /\ LET m == Compress(mcb) IN
     IF h \notin Heads
     THEN /\ ret' = Done(FALSE)
          /\ UNCHANGED mcb
     ELSE /\ mcb[h].psp \in Psps
          /\ \/ /\ n = m[h].size
                /\ mcb' = m
             \/ /\ n # m[h].size
                /\ n < Extent(m, h)
                /\ mcb' = Trim(m, h, n)
             \/ /\ n > m[h].size
                /\ n >= Extent(m, h)
                /\ mcb' = Absorb(m, h)
          /\ ret' = IF n <= Extent(m, h)
                    THEN Answer("resize", h, TRUE, n)
                    ELSE Answer("resize", h, FALSE, Extent(m, h))
  /\ UNCHANGED <<psp, memAllocStrategy, umbStart, umbState, booted>>

-----------------------------------------------------------------------------
(* DOS_FreeMemory and DOS_FreeProcessMemory.                               *)

\* The code does not ask who owns the block; programs do not free the blocks
\* of DOS.  Freeing compresses nothing.
FreeMemory(h) ==
  /\ booted
  /\ IF h < DOS_MEM_START \/ h \notin Heads
     THEN /\ ret' = Done(FALSE)
          /\ UNCHANGED mcb
     ELSE /\ mcb[h].psp # MCB_DOS
          /\ mcb' = [mcb EXCEPT ![h].psp = MCB_FREE]
          /\ ret' = Answer("free", h, TRUE, 0)
  /\ UNCHANGED <<psp, memAllocStrategy, umbStart, umbState, booted>>

\* Mutant: only the memory chain is walked when a process ends.
Owned_lowOnly(m, p) == {h \in Chain(m, DOS_MEM_START) : m[h].psp = p}

\* What a process leaves when it ends, on the memory chain and on the UMB
\* chain, which is walked on its own because it may not be linked.
Owned(m, p) ==
  {h \in Chain(m, DOS_MEM_START) \cup
         (IF umbStart = UMB_START_SEG THEN Chain(m, umbStart) ELSE {}) :
     m[h].psp = p}

Release(m, p) ==
  [h \in DOMAIN m |-> IF h \in Owned(m, p)
                      THEN [m[h] EXCEPT !.psp = MCB_FREE]
                      ELSE m[h]]

FreeProcessMemory(p) ==
  /\ booted
  /\ mcb' = Compress(Release(mcb, p))
  /\ ret' = Answer("freeProcess", p, TRUE, 0)
  /\ UNCHANGED <<psp, memAllocStrategy, umbStart, umbState, booted>>

-----------------------------------------------------------------------------
(* DOS_SetMemAllocStrategy, DOS_LinkUMBsToMemChain and the process switch. *)

\* Mutant: the strategy is set without a look at its low bits.
SetMemAllocStrategy_unchecked(strat) ==
  /\ booted
  /\ memAllocStrategy' = strat
  /\ ret' = Done(TRUE)
  /\ UNCHANGED <<mcb, psp, umbStart, umbState, booted>>

SetMemAllocStrategy(strat) ==
  /\ booted
  /\ IF strat.fit \in Fits
     THEN memAllocStrategy' = strat
     ELSE UNCHANGED memAllocStrategy
  /\ ret' = Done(strat.fit \in Fits)
  /\ UNCHANGED <<mcb, psp, umbStart, umbState, booted>>

\* The header where the scan for the UMB chain stops, and the one before it.
ScanStop(h) ==
  /\ h \in Chain(mcb, DOS_MEM_START)
  /\ h = umbStart \/ (h < umbStart /\ mcb[h].type = "Z")

ScanPrev(g, h) ==
  /\ g \in Chain(mcb, DOS_MEM_START)
  /\ NextOf(mcb, g) = h \/ (g = h /\ h = DOS_MEM_START)

Unlink ==
  /\ \E h, g \in Heads :
       /\ ScanStop(h) /\ ScanPrev(g, h)
       /\ mcb' = IF mcb[g].type = "M" /\ h = umbStart
                 THEN [mcb EXCEPT ![g].type = "Z"]
                 ELSE mcb
  /\ umbState' = 0

Link ==
  \E h \in Heads :
    /\ ScanStop(h)
    /\ IF mcb[h].type = "Z"
       THEN mcb' = [mcb EXCEPT ![h].type = "M"] /\ umbState' = 1
       ELSE UNCHANGED <<mcb, umbState>>

LinkUMBsToMemChain(linkstate) ==
  /\ booted
  /\ \/ /\ umbStart # UMB_START_SEG
        /\ ret' = Done(FALSE)
        /\ UNCHANGED <<mcb, umbState>>
     \/ /\ umbStart = UMB_START_SEG
        /\ linkstate % 2 = umbState % 2
        /\ ret' = Done(TRUE)
        /\ UNCHANGED <<mcb, umbState>>
     \/ /\ umbStart = UMB_START_SEG
        /\ linkstate % 2 # umbState % 2
        /\ \/ linkstate = 0 /\ Unlink
           \/ linkstate = 1 /\ Link
           \/ linkstate > 1 /\ UNCHANGED <<mcb, umbState>>
        /\ ret' = Done(linkstate <= 1)
  /\ UNCHANGED <<psp, memAllocStrategy, umbStart, booted>>

\* dos.psp(x), by DOS_Execute, DOS_Terminate and INT 21h/50h.
SwitchProcess(p) ==
  /\ booted
  /\ p # psp
  /\ psp' = p
  /\ ret' = Done(TRUE)
  /\ UNCHANGED <<mcb, memAllocStrategy, umbStart, umbState, booted>>

\* The segments programs pass: the headers, and one place that is none.
Segments == Heads \cup {DOS_MEM_START - 1, DOS_MEM_START + 1}

Next ==
  \/ \E active \in BOOLEAN : BuildUMBChain(active)
  \/ \E n \in Requests : AllocateMemory(n)
  \/ \E h \in Segments, n \in Requests : ResizeMemory(h, n)
  \/ \E h \in Segments : FreeMemory(h)
  \/ \E p \in Psps \cup {LoadfixPsp} : FreeProcessMemory(p)
  \/ \E strat \in Strategies : SetMemAllocStrategy(strat)
  \/ \E linkstate \in LinkStates : LinkUMBsToMemChain(linkstate)
  \/ \E p \in Psps : SwitchProcess(p)

Spec == Init /\ [][Next]_vars

-----------------------------------------------------------------------------
(* What the arena promises.                                                *)

\* Where the memory ends: the UMBs count once their chain is built.
Top == IF umbStart = UMB_START_SEG THEN UmbTop ELSE UMB_START_SEG

Answers == [op : {"alloc", "resize", "free", "freeProcess", "done"},
            head : Nat \cup Owners, ok : BOOLEAN, blocks : Nat]

\* The types of the variables of the arena.
TypeOK ==
  /\ mcb \in [Heads -> Block]
  /\ Heads \subseteq DOS_MEM_START .. UmbTop - 1
  /\ psp \in Psps
  /\ memAllocStrategy \in [high : Highs, fit : Fits]
  /\ umbStart \in {UMB_START_SEG, NoUmb}
  /\ umbState \in {0, 1}
  /\ booted \in BOOLEAN
  /\ umbStart = UMB_START_SEG => booted
  /\ ret \in Answers

\* The blocks tile the memory: after each block comes the next header or the
\* end, and no header lies inside the block of another.  A split, a join or a
\* merge of dos_memory.cpp with a size off by one breaks it.
Tiling ==
  /\ DOS_MEM_START \in Heads
  /\ \A h \in Heads :
       /\ h < Top
       /\ NextOf(mcb, h) \in Heads \cup {Top}
       /\ \A g \in Heads : h < g => NextOf(mcb, h) <= g

\* A "Z" stands on the last block and, while the UMBs are not linked, on the
\* last block of conventional memory: no walk of dos_memory.cpp runs off the
\* memory or stops short of a block it should see.
ChainEnds ==
  \A h \in Heads :
    mcb[h].type = "Z" <=>
      \/ NextOf(mcb, h) = Top
      \/ umbState = 0 /\ NextOf(mcb, h) = UMB_START_SEG

\* The UMB chain starts with the block of DOS that covers video memory and
\* ROMs: whatever is merged, resized and released around it, the header that
\* DOS_LinkUMBsToMemChain and the searches start from is there.
CoverInPlace ==
  umbStart = UMB_START_SEG =>
    /\ umbStart \in Heads
    /\ mcb[umbStart].psp = MCB_DOS
    /\ NextOf(mcb, umbStart) = FirstUmbSeg

ArenaInv == Tiling /\ ChainEnds /\ CoverInPlace

\* Nothing of a process is left when DOS_FreeProcessMemory has run, on either
\* chain, linked or not.
NothingLeft ==
  [][ret'.op = "freeProcess" =>
       \A h \in Heads' : mcb'[h].psp # ret'.head]_vars

Paragraphs(m, h) == h .. NextOf(m, h) - 1

\* A successful allocation hands the running process a block of the size it
\* asked for whose every paragraph, the header included, was free before, at
\* most with the headers of free blocks in between.
AllocatesFreeMemory ==
  [][ret'.op = "alloc" /\ ret'.ok =>
       LET h == ret'.head IN
       /\ h \in Heads'
       /\ mcb'[h].psp = psp
       /\ mcb'[h].size = ret'.blocks
       /\ \A x \in Paragraphs(mcb', h) :
            \E g \in Heads : x \in Paragraphs(mcb, g) /\ IsFree(mcb, g)]_vars

\* A step leaves every allocated block with its owner and its extent, unless
\* it frees or resizes this very block or ends its owner.
OthersKept ==
  [][\A h \in Heads :
       \/ IsFree(mcb, h)
       \/ h \in Heads' /\ mcb'[h].psp = mcb[h].psp
                      /\ mcb'[h].size = mcb[h].size
       \/ ret'.op \in {"free", "resize"} /\ ret'.head = h
       \/ ret'.op = "freeProcess" /\ ret'.head = mcb[h].psp]_vars

\* What DOS_Execute relies on (dos_execute.cpp:313-346): after an allocation
\* that failed, a call for at most the paragraphs it reported will succeed, and
\* more than that is not to be had. After a resize that failed because of the
\* block behind, the block is as large as was reported, and nothing free is
\* left behind it that it could have had, if it is on the memory chain: upper
\* memory that is not linked is never compressed.
ReportedSizes ==
  ~ret.ok =>
    /\ ret.op = "alloc" =>
         \A n \in 1 .. UmbTop : Chosen(Compress(mcb), n) # {} <=> n <= ret.blocks
    /\ ret.op = "resize" =>
         /\ mcb[ret.head].size = ret.blocks
         /\ ret.head \in Chain(mcb, DOS_MEM_START) /\ mcb[ret.head].type = "M" =>
              ~IsFree(mcb, NextOf(mcb, ret.head))

\* Seen from its programs the chain is a plain arena of reservations: every
\* call reserves, alters or gives up as MemoryArena allows, or changes nothing
\* a program can see (compressing, linking, splitting a free block).
Held == [h \in {g \in Heads : ~IsFree(mcb, g)} |->
           [owner |-> mcb[h].psp, size |-> mcb[h].size]]

Arena == INSTANCE MemoryArena WITH
  held <- Held,
  ArenaOwners <- Owners \ {MCB_FREE},
  ArenaSegments <- DOS_MEM_START .. UmbTop,
  ArenaSizes <- 0 .. UmbTop

ImplementsArena == Arena!Spec

=============================================================================
