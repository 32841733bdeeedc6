--------------------------- MODULE ExtendedMemory ---------------------------
(***************************************************************************)
(* XMS (src/dosbox/src/ints/xms.cpp), EMS and the page calls of VCPI       *)
(* (src/dosbox/src/ints/ems.cpp) over one pool of pages.  XMS addresses a  *)
(* block by its first page and needs it in one piece; EMS follows the      *)
(* links.  What is in the pages is modelled too, a page at a time, since   *)
(* that a program finds it again is what the links are for.                *)
(***************************************************************************)
EXTENDS PagePool, Sequences

CONSTANTS
  XMS_HANDLES,      \* handles 1 .. XMS_HANDLES - 1, 50 in the code
  PageKb,           \* kilobytes in a page, 4
  MaxLocks,         \* 255
  EMM_MAX_HANDLES,  \* handles 0 .. EMM_MAX_HANDLES - 1, 200
  EmsPage,          \* pages of the pool in a page of EMS, 4
  SystemPages,      \* what the handle of the system asks for, 8
  XmsSizes,         \* the sizes in kilobytes that programs ask XMS for
  EmsSizes,         \* and those in pages that they ask EMS for
  Data,             \* contents of a page, 0 before it is written
  MaxVcpi,          \* bound: pages programs have from VCPI at a time
  MaxWritten,       \* bound: pages with other contents than 0 after a write
  None              \* no block

ASSUME ExtendedAssumption ==
  /\ {XMS_HANDLES, PageKb, EMM_MAX_HANDLES, EmsPage} \subseteq Nat \ {0}
  /\ {MaxLocks, SystemPages, MaxVcpi, MaxWritten} \subseteq Nat
  /\ XmsSizes \cup EmsSizes \subseteq Nat
  /\ 0 \in Data /\ None \notin Seq(Data)

XmsHandles == 1 .. XMS_HANDLES - 1
EmsHandles == 0 .. EMM_MAX_HANDLES - 1
EMM_SYSTEM_HANDLE == 0
NULL_HANDLE == -1     \* the pages of an EMS handle that is not in use

VARIABLES
  mhandles,      \* the links of the pool
  ram,           \* the contents of its pages
  xms_handles,   \* handle -> [free, mem, size, locked]
  emm_handles,   \* handle -> [pages, mem]
  vcpi,          \* the pages that programs have got from VCPI
  exited,        \* E_Exit has ended the emulator
  overrun        \* history: links were written behind the end of the table

vars == <<mhandles, ram, xms_handles, emm_handles, vcpi, exited, overrun>>

Running == ~exited /\ ~overrun

\* The pages of a block of size kilobytes.
PagesFor(size) == (size \div PageKb) + (IF size % PageKb = 0 THEN 0 ELSE 1)

LowestOf(S) == CHOOSE h \in S : \A g \in S : h <= g

-----------------------------------------------------------------------------
(* XMS.                                                                    *)

ValidXms(h) == ~xms_handles[h].free

UnusedXms == {h \in XmsHandles : ~ValidXms(h)}

SetXms(h, record) == xms_handles' = [xms_handles EXCEPT ![h] = record]

\* A block of no kilobytes has the number of a page that stays free.
XmsGot(size) ==
  IF size = 0 THEN [mem |-> MEM_GetNextFreePage(mhandles), m |-> mhandles]
  ELSE MEM_AllocatePages(mhandles, PagesFor(size), TRUE)

XMS_AllocateMemory(size) ==
  \E new \in {XmsGot(size)} :
    /\ Running /\ UnusedXms # {}
    /\ size # 0 => new.mem # 0
    /\ mhandles' = new.m
    /\ SetXms(LowestOf(UnusedXms),
              [free |-> FALSE, mem |-> new.mem, size |-> size, locked |-> 0])
    /\ UNCHANGED <<ram, emm_handles, vcpi, exited, overrun>>

XMS_FreeMemory(h) ==
  /\ Running /\ ValidXms(h)
  /\ mhandles' = MEM_ReleasePages(mhandles, xms_handles[h].mem)
  /\ SetXms(h, [xms_handles[h] EXCEPT !.free = TRUE, !.mem = -1, !.size = 0])
  /\ UNCHANGED <<ram, emm_handles, vcpi, exited, overrun>>

XMS_LockMemory(h) ==
  /\ Running /\ ValidXms(h) /\ xms_handles[h].locked < MaxLocks
  /\ SetXms(h, [xms_handles[h] EXCEPT !.locked = @ + 1])
  /\ UNCHANGED <<mhandles, ram, emm_handles, vcpi, exited, overrun>>

XMS_UnlockMemory(h) ==
  /\ Running /\ ValidXms(h) /\ xms_handles[h].locked > 0
  /\ SetXms(h, [xms_handles[h] EXCEPT !.locked = @ - 1])
  /\ UNCHANGED <<mhandles, ram, emm_handles, vcpi, exited, overrun>>

BlockCopy_oneLess(dest, src, pages) ==
  [p \in Pool |-> IF p \in dest .. dest + pages - 2 THEN ram[src + (p - dest)]
                  ELSE ram[p]]

\* MEM_BlockCopy of pages pages from one block to another.
BlockCopy(dest, src, pages) ==
  [p \in Pool |-> IF p \in dest .. dest + pages - 1 THEN ram[src + (p - dest)]
                  ELSE ram[p]]

XMS_ResizeMemory(h, newSize) ==
  \E mem \in {xms_handles[h].mem} :
  \E new \in {MEM_ReAllocatePages(mhandles, mem, PagesFor(newSize), TRUE)} :
    /\ Running /\ ValidXms(h) /\ xms_handles[h].locked = 0
    /\ mhandles' = new.m
    /\ ram' = IF new.copied
              THEN BlockCopy(new.mem, mem, MEM_AllocatedPages(mhandles, mem))
              ELSE ram
    /\ SetXms(h, [xms_handles[h] EXCEPT
                    !.mem = new.mem,
                    !.size = IF new.ok THEN newSize ELSE @])
    /\ UNCHANGED <<emm_handles, vcpi, exited, overrun>>

\* XMS_MoveMemory: page i of block h, if the block is long enough.
XmsPlace(h, i) == xms_handles[h].mem + i
InXms(h, i) == ValidXms(h) /\ i * PageKb < xms_handles[h].size

-----------------------------------------------------------------------------
(* EMS.                                                                    *)

ValidHandle(h) == emm_handles[h].pages # NULL_HANDLE

SetEms(h, record) == emm_handles' = [emm_handles EXCEPT ![h] = record]

EnoughFor(m, pages) == pages <= MEM_FreeTotal(m) \div EmsPage

UnusedEms == {h \in EmsHandles \ {EMM_SYSTEM_HANDLE} : ~ValidHandle(h)}

\* Function 43h refuses an allocation of no pages, function 5Ah does not.
EMM_AllocateMemory(pages) ==
  \E new \in {MEM_AllocatePages(mhandles, pages * EmsPage, FALSE)} :
    /\ Running /\ EnoughFor(mhandles, pages) /\ UnusedEms # {}
    /\ exited' = (pages # 0 /\ new.mem = 0)
    /\ mhandles' = new.m
    /\ SetEms(LowestOf(UnusedEms), [pages |-> pages, mem |-> new.mem])
    /\ UNCHANGED <<ram, xms_handles, vcpi, overrun>>

ResizeEms(h, pages, new) ==
  /\ mhandles' = new.m
  /\ SetEms(h, [pages |-> IF new.ok THEN pages ELSE emm_handles[h].pages,
                mem |-> new.mem])
  /\ UNCHANGED <<ram, xms_handles, vcpi, overrun>>

\* A handle of no pages gets its first ones in a branch of its own, which
\* ends the emulator when there are none to be had.
EMM_ReallocatePages(h, pages) ==
  /\ Running /\ ValidHandle(h)
  /\ \/ /\ emm_handles[h].pages # 0
        /\ ResizeEms(h, pages,
             MEM_ReAllocatePages(mhandles, emm_handles[h].mem, pages * EmsPage, FALSE))
        /\ exited' = FALSE
     \/ /\ emm_handles[h].pages = 0
        /\ \E new \in {First(MEM_AllocatePages(mhandles, pages * EmsPage, FALSE))} :
             /\ ResizeEms(h, pages, new)
             /\ exited' = ~new.ok

\* These two while MEM_AllocatePages runs on behind the table, into memory that
\* is something else: nothing is modelled of what follows.
LinksBehindTable(pages) ==
  /\ Overruns(mhandles, pages)
  /\ overrun' = TRUE
  /\ UNCHANGED <<mhandles, ram, xms_handles, emm_handles, vcpi, exited>>

EMM_AllocateBehindTable(pages) ==
  /\ Running /\ EnoughFor(mhandles, pages) /\ UnusedEms # {}
  /\ LinksBehindTable(pages * EmsPage)

EMM_ReallocateBehindTable(h, pages) ==
  /\ Running /\ ValidHandle(h)
  /\ LinksBehindTable(pages * EmsPage - MEM_AllocatedPages(mhandles, emm_handles[h].mem))

\* The handle of the system stays in use, with no pages.
EMM_ReleaseMemory(h) ==
  /\ Running /\ ValidHandle(h)
  /\ mhandles' = IF emm_handles[h].pages = 0 THEN mhandles
                 ELSE MEM_ReleasePages(mhandles, emm_handles[h].mem)
  /\ SetEms(h, [pages |-> IF h = EMM_SYSTEM_HANDLE THEN 0 ELSE NULL_HANDLE,
                mem |-> 0])
  /\ UNCHANGED <<ram, xms_handles, vcpi, exited, overrun>>

\* MemoryRegion, function 57h: page i of block h.
EmsPlace(h, i) == MEM_NextHandleAt(mhandles, emm_handles[h].mem, i)
InEms(h, i) == ValidHandle(h) /\ i < emm_handles[h].pages * EmsPage

-----------------------------------------------------------------------------
(* VCPI.                                                                   *)

VCPI_AllocatePage ==
  /\ Running /\ Cardinality(vcpi) < MaxVcpi
  /\ \E new \in {MEM_AllocatePages(mhandles, 1, FALSE)} :
       /\ new.mem # 0
       /\ mhandles' = new.m
       /\ vcpi' = vcpi \cup {new.mem}
  /\ UNCHANGED <<ram, xms_handles, emm_handles, exited, overrun>>

\* Programs free what they have got and nothing else.
VCPI_FreePage(p) ==
  /\ Running /\ p \in vcpi
  /\ mhandles' = MEM_ReleasePages(mhandles, p)
  /\ vcpi' = vcpi \ {p}
  /\ UNCHANGED <<ram, xms_handles, emm_handles, exited, overrun>>

-----------------------------------------------------------------------------
(* What programs do with the memory: XMS_MoveMemory, MemoryRegion, and     *)
(* writes to the pages they have from VCPI.                                *)

XmsPages ==
  UNION {{XmsPlace(h, i) : i \in {j \in 0 .. Pages : InXms(h, j)}} : h \in XmsHandles}
EmsPages ==
  UNION {{EmsPlace(h, i) : i \in {j \in 0 .. Pages : InEms(h, j)}} : h \in EmsHandles}

\* (A write of what was there already is a stuttering step.)
Writes(contents) ==
  /\ Running /\ contents # ram
  /\ Cardinality({p \in Pool : contents[p] # 0}) <= MaxWritten
  /\ ram' = contents
  /\ UNCHANGED <<mhandles, xms_handles, emm_handles, vcpi, exited, overrun>>

\* From conventional memory.
Store(places) == \E p \in places, v \in Data : Writes([ram EXCEPT ![p] = v])

\* From another page that is reached in the same way.
Move(places) == \E p, q \in places : Writes([ram EXCEPT ![p] = ram[q]])

ExchangeRegion ==
  \E p, q \in EmsPages : Writes([ram EXCEPT ![p] = ram[q], ![q] = ram[p]])

-----------------------------------------------------------------------------
\* MEMORY, XMS and EMM start: the handle of the system gets its pages, unless
\* there are too few.
Init ==
  /\ \E empty \in {[p \in Pool |-> 0]} :
     \E new \in {IF EnoughFor(empty, SystemPages)
                 THEN MEM_AllocatePages(empty, SystemPages * EmsPage, FALSE)
                 ELSE [mem |-> 0, m |-> empty]} :
       /\ mhandles = new.m
       /\ emm_handles = [h \in EmsHandles |->
            [pages |-> IF h = EMM_SYSTEM_HANDLE /\ EnoughFor(empty, SystemPages)
                       THEN SystemPages ELSE NULL_HANDLE,
             mem |-> IF h = EMM_SYSTEM_HANDLE THEN new.mem ELSE 0]]
       /\ exited = (EnoughFor(empty, SystemPages) /\ new.mem = 0)
  /\ ram = [p \in Pool |-> 0]
  /\ xms_handles = [h \in XmsHandles |->
                      [free |-> TRUE, mem |-> -1, size |-> 0, locked |-> 0]]
  /\ vcpi = {}
  /\ overrun = FALSE

Xms ==
  \/ \E size \in XmsSizes : XMS_AllocateMemory(size)
  \/ \E h \in XmsHandles :
       \/ XMS_FreeMemory(h) \/ XMS_LockMemory(h) \/ XMS_UnlockMemory(h)
       \/ \E size \in XmsSizes \cup {0} : XMS_ResizeMemory(h, size)

Ems ==
  \/ \E pages \in EmsSizes :
       EMM_AllocateMemory(pages) \/ EMM_AllocateBehindTable(pages)
  \/ \E h \in EmsHandles, pages \in EmsSizes :
       EMM_ReallocatePages(h, pages) \/ EMM_ReallocateBehindTable(h, pages)
  \/ \E h \in EmsHandles : EMM_ReleaseMemory(h)

Vcpi == VCPI_AllocatePage \/ \E p \in vcpi : VCPI_FreePage(p)

Programs ==
  \/ Store(XmsPages \cup EmsPages \cup vcpi)
  \/ Move(XmsPages) \/ Move(EmsPages) \/ ExchangeRegion

Next == Xms \/ Ems \/ Vcpi \/ Programs

Spec == Init /\ [][Next]_vars

-----------------------------------------------------------------------------
TypeOK ==
  /\ mhandles \in [Pool -> {0, Last} \cup Pool]
  /\ ram \in [Pool -> Data]
  /\ xms_handles \in [XmsHandles -> [free : BOOLEAN, mem : {-1, 0} \cup Pool,
                                     size : Nat, locked : 0 .. MaxLocks]]
  /\ emm_handles \in [EmsHandles -> [pages : {NULL_HANDLE} \cup Nat,
                                     mem : {-1, 0} \cup Pool]]
  /\ vcpi \subseteq Pool
  /\ exited \in BOOLEAN /\ overrun \in BOOLEAN

\* The blocks that programs have: their handles, first pages and lengths.
Blocks ==
  {<<"xms", h, xms_handles[h].mem, PagesFor(xms_handles[h].size)>> :
     h \in {g \in XmsHandles : ValidXms(g)}} \cup
  {<<"ems", h, emm_handles[h].mem, emm_handles[h].pages * EmsPage>> :
     h \in {g \in EmsHandles : ValidHandle(g)}} \cup
  {<<"vcpi", p, p, 1>> : p \in vcpi}

\* Until links are written behind the table, every block has as many pages as
\* its program was given, no page belongs to two blocks, the pages of XMS are in
\* one piece, and a page that is not free belongs to a block: nothing leaks (the
\* links of memory.cpp under all the calls of xms.cpp and ems.cpp).
EveryPageHasOneOwner ==
  /\ TypeOK
  /\ ~overrun =>
    /\ \A b \in Blocks : MEM_AllocatedPages(mhandles, b[3]) = b[4]
    /\ \A b, c \in Blocks :
         b # c => Block(mhandles, b[3]) \cap Block(mhandles, c[3]) = {}
    /\ \A b \in Blocks : b[1] = "xms" =>
         Block(mhandles, b[3]) = b[3] .. b[3] + b[4] - 1
    /\ UNION {Block(mhandles, b[3]) : b \in Blocks} = Pool \ FreePages(mhandles)

\* What programs see through the handles.
Contents(kind, h) ==
  CASE kind = "xms" -> IF ValidXms(h)
                       THEN [i \in 1 .. PagesFor(xms_handles[h].size) |->
                               ram[XmsPlace(h, i - 1)]]
                       ELSE None
    [] kind = "ems" -> IF ValidHandle(h)
                       THEN [i \in 1 .. emm_handles[h].pages * EmsPage |->
                               ram[EmsPlace(h, i - 1)]]
                       ELSE None
    [] kind = "vcpi" -> IF h \in vcpi THEN <<ram[h]>> ELSE None

AllHandles == ({"xms"} \X XmsHandles) \cup ({"ems"} \X EmsHandles)
                \cup ({"vcpi"} \X Pool)

Seen == [b \in AllHandles |-> Contents(b[1], b[2])]

Memory == INSTANCE HandleMemory WITH Handles <- AllHandles, block <- Seen

\* Blocks are moved, extended, cut and linked from pieces, and no program
\* sees anything of it, until links are written behind the table: what it reads
\* through a handle is what it has written through this handle
\* (MEM_ReAllocatePages and its copy, XMS_MoveMemory, which counts from the first
\* page, MemoryRegion, which follows the links).
KeepsContents == Memory!HandleSpec

=============================================================================
