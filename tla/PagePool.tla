------------------------------ MODULE PagePool ------------------------------
(***************************************************************************)
(* The pages above the first megabyte that XMS, EMS and VCPI share         *)
(* (src/dosbox/src/hardware/memory.cpp).  memory.mhandles links the pages  *)
(* of a block: 0 is a free page, -1 the last one of its block, any other   *)
(* entry the page that follows.  A block is known by its first page.       *)
(*                                                                         *)
(* A table of links is called m here, a block h.                           *)
(***************************************************************************)
EXTENDS Integers, FiniteSets

CONSTANTS
  XMS_START,  \* the first page of the pool, 0x110
  Pages       \* memory.pages

ASSUME PoolAssumption ==
  /\ XMS_START \in Nat \ {0}
  /\ Pages \in Nat

Pool == XMS_START .. (Pages - 1)

Last == -1

FreePages(m) == {p \in Pool : m[p] = 0}

MEM_FreeTotal(m) == Cardinality(FreePages(m))

\* The lengths of the runs of free pages around each of them.
RunLengths(m) ==
  [p \in FreePages(m) |->
     Cardinality({q \in FreePages(m) : \A r \in (p .. q) \cup (q .. p) : m[r] = 0})]

-----------------------------------------------------------------------------
(* The blocks.                                                             *)

MEM_NextHandle(m, h) == IF h \in Pool THEN m[h] ELSE 0

\* Where the loops that follow the links from h come to.
Walk(m, h) ==
  LET at[k \in 0 .. Cardinality(Pool)] ==
        IF k = 0 THEN h ELSE MEM_NextHandle(m, at[k - 1])
  IN  at

MEM_NextHandleAt(m, h, where) == Walk(m, h)[where]

\* The pages of a block, as every loop "while (handle>0)" meets them.
Block(m, h) == Pool \cap {Walk(m, h)[k] : k \in 0 .. Cardinality(Pool)}

MEM_AllocatedPages(m, h) == Cardinality(Block(m, h))

-----------------------------------------------------------------------------
(* Allocation.                                                             *)

\* Short runs are used up before long ones, of two as long the lower one.
Sooner(length, p, q) ==
  length[p] < length[q] \/ (length[p] = length[q] /\ p < q)

\* The start of the first run that is long enough, 0 when there is none.
FirstRun(length, size) ==
  LET fits == {p \in DOMAIN length : size <= length[p]} IN
  IF fits = {} THEN 0
  ELSE CHOOSE p \in fits : \A q \in fits \ {p} : Sooner(length, p, q)

BestMatch(m, size) == FirstRun(RunLengths(m), size)

MEM_GetNextFreePage(m) == BestMatch(m, 1)

\* The two ways to choose pages: each page chosen and its place in the block.
InOnePiece(first, pages) ==
  [p \in (IF first = 0 THEN {} ELSE first .. first + pages - 1) |-> p - first]

\* One best run after the other, from its start.
Scattered(length, pages) ==
  LET Place(p) == Cardinality({q \in DOMAIN length : Sooner(length, q, p)}) IN
  [p \in {q \in DOMAIN length :
            pages <= Cardinality(DOMAIN length) /\ Place(q) < pages} |-> Place(p)]

\* The loop that takes a run is not stopped by the end of the table: after the
\* last page of the pool, when more pages are wanted, it looks at the entry
\* behind the table. If that is not 0 the next best run follows, as Scattered
\* has it; if it is 0 the loop links it and writes there.
Overruns(m, pages) ==
  \E place \in {Scattered(RunLengths(m), pages)} :
    Pages - 1 \in DOMAIN place /\ place[Pages - 1] < pages - 1

Linked(m, place) ==
  LET At(k) == CHOOSE p \in DOMAIN place : place[p] = k IN
  [mem |-> At(0),
   m |-> [p \in Pool |-> IF p \notin DOMAIN place THEN m[p]
                         ELSE IF place[p] = Cardinality(DOMAIN place) - 1 THEN Last
                         ELSE At(place[p] + 1)]]

\* The block, 0 if there is none, and the links after the allocation.
Taken(m, place) ==
  IF DOMAIN place = {} THEN [mem |-> 0, m |-> m] ELSE Linked(m, place)

MEM_AllocatePages(m, pages, sequence) ==
  Taken(m, IF pages = 0 THEN InOnePiece(0, 0)
           ELSE IF sequence THEN InOnePiece(BestMatch(m, pages), pages)
           ELSE Scattered(RunLengths(m), pages))

Freed(m, block) == [p \in Pool |-> IF p \in block THEN 0 ELSE m[p]]

MEM_ReleasePages(m, h) == Freed(m, Block(m, h))

-----------------------------------------------------------------------------
(* MEM_ReAllocatePages: whether it succeeds, what becomes of the handle    *)
(* and of the links, and whether the contents are copied to a new block.   *)

Resized(ok, mem, m, copied) == [ok |-> ok, mem |-> mem, m |-> m, copied |-> copied]

Shrunk_keepsRest(m, h, pages) ==
  [m EXCEPT ![MEM_NextHandleAt(m, h, pages - 1)] = Last]

Shrunk(m, h, pages) ==
  [Freed(m, Block(m, MEM_NextHandleAt(m, h, pages)))
     EXCEPT ![MEM_NextHandleAt(m, h, pages - 1)] = Last]

\* How many pages right behind page p are free.
Behind(m, p) ==
  Cardinality({q \in FreePages(m) : p < q /\ \A r \in p + 1 .. q : m[r] = 0})

Extended(m, last, need) ==
  [p \in Pool |-> IF p \in last .. last + need - 1 THEN p + 1
                  ELSE IF p = last + need THEN Last ELSE m[p]]

Moved(m, h, new) ==
  IF new.mem = 0 THEN Resized(FALSE, h, m, FALSE)
  ELSE Resized(TRUE, new.mem, MEM_ReleasePages(new.m, h), TRUE)

GrownInOnePiece(m, h, pages, last, need) ==
  IF need <= Behind(m, last)
  THEN Resized(TRUE, h, Extended(m, last, need), FALSE)
  ELSE Moved(m, h, MEM_AllocatePages(m, pages, TRUE))

GrownAnywhere(m, h, last, rem) ==
  IF rem.mem = 0 THEN Resized(FALSE, h, m, FALSE)
  ELSE Resized(TRUE, h, [rem.m EXCEPT ![last] = rem.mem], FALSE)

First(new) == Resized(new.mem > 0, new.mem, new.m, FALSE)

\* A block of old pages, the last one of which is last.
ResizedBlock(m, h, old, last, pages, sequence) ==
  CASE pages = 0 -> Resized(TRUE, Last, MEM_ReleasePages(m, h), FALSE)
    [] pages = old -> Resized(TRUE, h, m, FALSE)
    [] 0 < pages /\ pages < old -> Resized(TRUE, h, Shrunk(m, h, pages), FALSE)
    [] old < pages /\ sequence -> GrownInOnePiece(m, h, pages, last, pages - old)
    [] old < pages /\ ~sequence ->
         GrownAnywhere(m, h, last, MEM_AllocatePages(m, pages - old, FALSE))

LastOf(m, h, old) == MEM_NextHandleAt(m, h, old - 1)

MEM_ReAllocatePages(m, h, pages, sequence) ==
  CASE h <= 0 /\ pages = 0 -> Resized(TRUE, h, m, FALSE)
    [] h <= 0 /\ pages > 0 -> First(MEM_AllocatePages(m, pages, sequence))
    [] h > 0 ->
         ResizedBlock(m, h, MEM_AllocatedPages(m, h),
                      LastOf(m, h, MEM_AllocatedPages(m, h)), pages, sequence)

=============================================================================
