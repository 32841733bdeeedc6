---------------------------- MODULE MemoryLoops ----------------------------
(***************************************************************************)
(* The two loops of dos_memory.cpp that DosMemory has in closed form, turn *)
(* by turn: that of DOS_CompressMemory, and the search of                  *)
(* DOS_AllocateMemory. A record l holds the variables of a loop.           *)
(***************************************************************************)
EXTENDS DosMemory

-----------------------------------------------------------------------------
(* DOS_CompressMemory.                                                     *)

\* The block at s takes the one behind it.
Merged(m, s) ==
  LET next == NextOf(m, s)
  IN [h \in DOMAIN m \ {next} |->
        IF h = s
        THEN [type |-> m[next].type, psp |-> m[s].psp, size |-> m[s].size + m[next].size + 1]
        ELSE m[h]]

CompressTurn(l) ==
  LET next == NextOf(l.mcb, l.segment)
  IN IF l.mcb[l.segment].type = "Z" THEN l
     ELSE IF IsFree(l.mcb, l.segment) /\ IsFree(l.mcb, next)
     THEN [mcb |-> Merged(l.mcb, l.segment), segment |-> l.segment]
     ELSE [mcb |-> l.mcb, segment |-> next]

\* After n turns, or fewer if a "Z" ended the loop before.
CompressLoop(m, n) ==
  LET at[k \in 0 .. n] ==
        IF k = 0 THEN [mcb |-> m, segment |-> DOS_MEM_START]
        ELSE CompressTurn(at[k - 1])
  IN at[n]

-----------------------------------------------------------------------------
(* DOS_AllocateMemory. In l, again stands for bit 7 of mem_strat, which    *)
(* sends the search on to low memory, and over for the end of the search:  *)
(* found_seg is the block to be used then, or 0.                           *)

LargeEnough(m, n, l) == IsFree(m, l.segment) /\ n <= m[l.segment].size

\* First fit takes what is large enough, best fit what fits precisely.
Taken(m, n, l) ==
  /\ LargeEnough(m, n, l)
  /\ \/ memAllocStrategy.fit = "first"
     \/ memAllocStrategy.fit = "best" /\ m[l.segment].size = n

\* Whether the block is noted down, to be used unless a better one follows.
Noted(m, n, l) ==
  /\ LargeEnough(m, n, l)
  /\ \/ memAllocStrategy.fit = "last"
     \/ l.found_seg_size = 0
     \/ m[l.segment].size < l.found_seg_size

\* What the search remembers of a block that it does not take at once.
Seen(m, n, l) ==
  [l EXCEPT
     !.found_seg = IF Noted(m, n, l) THEN l.segment ELSE @,
     !.found_seg_size = IF Noted(m, n, l) THEN m[l.segment].size ELSE @,
     !.bigsize = IF IsFree(m, l.segment) /\ m[l.segment].size < n /\ @ < m[l.segment].size
                 THEN m[l.segment].size ELSE @]

\* Mutant: bit 7 stays set when the search goes on to low memory.
SearchTurn_again(m, n, l) ==
  IF l.over THEN l
  ELSE IF Taken(m, n, l) THEN [l EXCEPT !.found_seg = l.segment, !.over = TRUE]
  ELSE IF m[l.segment].type = "M"
  THEN [Seen(m, n, l) EXCEPT !.segment = NextOf(m, l.segment)]
  ELSE IF l.again THEN [Seen(m, n, l) EXCEPT !.segment = DOS_MEM_START]
  ELSE [Seen(m, n, l) EXCEPT !.over = TRUE]

\* One turn: the block at hand, and the way to the next one.
SearchTurn(m, n, l) ==
  IF l.over THEN l
  ELSE IF Taken(m, n, l) THEN [l EXCEPT !.found_seg = l.segment, !.over = TRUE]
  ELSE IF m[l.segment].type = "M"
  THEN [Seen(m, n, l) EXCEPT !.segment = NextOf(m, l.segment)]
  ELSE IF l.again THEN [Seen(m, n, l) EXCEPT !.segment = DOS_MEM_START, !.again = FALSE]
  ELSE [Seen(m, n, l) EXCEPT !.over = TRUE]

\* After k turns, or fewer if the search was over before.
Search(m, n, k) ==
  LET at[i \in 0 .. k] ==
        IF i = 0
        THEN [segment |-> IF SearchesHigh THEN umbStart ELSE DOS_MEM_START,
              again |-> SearchesHigh /\ memAllocStrategy.high = "highThenLow",
              found_seg |-> 0, found_seg_size |-> 0, bigsize |-> 0, over |-> FALSE]
        ELSE SearchTurn(m, n, at[i - 1])
  IN at[k]

-----------------------------------------------------------------------------
(* The property.                                                           *)

\* Both loops end, and do what the closed forms say: the first leaves Compress,
\* the second settles on the one block that Chosen allows, or reports the one
\* size that LargestFree allows, whatever the strategy and the state of the UMB
\* chain. No chain has as many blocks as there are segments.
LoopsAgree ==
  \E m \in {Compress(mcb)}, compressed \in {CompressLoop(mcb, UmbTop)} :
    /\ compressed.mcb[compressed.segment].type = "Z" /\ compressed.mcb = m
    /\ \A n \in Requests : \E l \in {Search(m, n, 2 * UmbTop)} :
         /\ l.over
         /\ IF l.found_seg # 0 THEN Chosen(m, n) = {l.found_seg}
            ELSE Fitting(m, Searched(m), n) = {} /\ LargestFree(m) = {l.bigsize}

=============================================================================
