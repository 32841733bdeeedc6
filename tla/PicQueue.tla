------------------------------ MODULE PicQueue ------------------------------
(***************************************************************************)
(* The event queue of hardware/pic.cpp and the loop that runs it.  Devices  *)
(* ask for a handler to be called after a delay (PIC_AddEvent) and take     *)
(* that back (PIC_RemoveEvents, PIC_RemoveSpecificEvents); PIC_RunQueue     *)
(* calls the handlers that are due and lets the processor run until the     *)
(* next one; TIMER_AddTick begins a new millisecond.                        *)
(*                                                                         *)
(* A millisecond is CPU_CycleMax cycles.  The floating point index of an    *)
(* entry, a fraction of a millisecond, is a number of grains here, Grain to *)
(* a cycle, so that an event may fall between two cycles; rounding of the   *)
(* division by CPU_CycleMax is not modelled, and CPU_CycleMax is constant.  *)
(* The content of entries in the free list is not modelled: nothing reads it. *)
(***************************************************************************)
EXTENDS Integers, Sequences, FiniteSets, Functions

CONSTANTS
  PIC_QUEUESIZE,
  CPU_CycleMax,
  Grain,         \* resolution of the times of events
  IODelay,       \* the cycles an instruction with port access takes besides
  Handlers, Values,
  Delays,        \* in grains
  MaxCalls       \* bound: calls about events made by one handler

ASSUME QueueAssumption ==
  /\ PIC_QUEUESIZE \in Nat \ {0} /\ CPU_CycleMax \in Nat \ {0} /\ Grain \in Nat \ {0}
  /\ IODelay \in Nat /\ Delays \subseteq Nat /\ MaxCalls \in Nat

Entries == 1..PIC_QUEUESIZE
NULL == 0
Events == Handlers \X Values

VARIABLES
  next,                     \* the pointers of the entries
  free_entry, next_entry,   \* the free list and the queue
  content,                  \* [event, index] of the entries in use
  CPU_CycleLeft, CPU_Cycles,
  InEventService, srv_lag,
  entry, index_nd,          \* the local variables of PIC_RunQueue, 0 outside it
  pc,                       \* where the loop of Normal_Loop is
  calls                     \* calls made by the handler that runs

poolVars == <<next, free_entry, next_entry, content>>
cycleVars == <<CPU_CycleLeft, CPU_Cycles>>
serviceVars == <<InEventService, srv_lag, entry, index_nd>>
vars == <<poolVars, cycleVars, serviceVars, pc, calls>>

\* The cycles of the millisecond that have passed, PIC_TickIndexND.
TickIndexND == CPU_CycleMax - CPU_CycleLeft - CPU_Cycles

\* The entries that the pointers link, from the first one of a list to its end.
ListFrom(pointers, first) ==
  LET nth[k \in 0..PIC_QUEUESIZE] ==
        IF k = 0 THEN first
        ELSE IF nth[k - 1] = NULL THEN NULL ELSE pointers[nth[k - 1]]
      length == Cardinality({k \in 0..PIC_QUEUESIZE : nth[k] # NULL})
  IN  [k \in 1..length |-> nth[k - 1]]

Queue == ListFrom(next, next_entry)
Free == ListFrom(next, free_entry)

-----------------------------------------------------------------------------
(* PIC_AddEvent.                                                           *)

\* (Mutant: in front of the entries of the same time.)
PlacesBefore_equal(n) ==
  CHOOSE k \in 0..Len(Queue) :
    /\ \A i \in 1..k : content[Queue[i]].index < n
    /\ k < Len(Queue) => content[Queue[k + 1]].index >= n

\* How many entries the walk passes for one of time n: up to the first that
\* comes later.
PlacesBefore(n) ==
  CHOOSE k \in 0..Len(Queue) :
    /\ \A i \in 1..k : content[Queue[i]].index <= n
    /\ k < Len(Queue) => content[Queue[k + 1]].index > n

\* AddEntry links e in: as the new head, or behind the last entry before it.
Link(e, n) ==
  IF PlacesBefore(n) = 0
  THEN next_entry' = e /\ next' = [next EXCEPT ![e] = next_entry]
  ELSE LET f == Queue[PlacesBefore(n)] IN
       /\ next' = [next EXCEPT ![e] = next[f], ![f] = e]
       /\ UNCHANGED next_entry

\* Conversion to a whole number truncates towards zero.
Truncated(grains) == IF grains >= 0 THEN grains \div Grain ELSE -((-grains) \div Grain)

\* (Mutant: the slice goes on.)
EndSliceNever(first) == UNCHANGED cycleVars

\* The processor must not run past the first event: the slice ends when it
\* would.
EndSliceIfDue(first) ==
  LET cycles == Truncated(first - Grain * TickIndexND) IN
  IF cycles < CPU_Cycles
  THEN CPU_CycleLeft' = CPU_CycleLeft + CPU_Cycles /\ CPU_Cycles' = 0
  ELSE UNCHANGED cycleVars

\* The delay of an event added by a handler counts from the time the handler
\* was due, not from the time it runs.
Base == IF InEventService THEN srv_lag ELSE Grain * TickIndexND

AddEvent(event, delay) ==
  IF free_entry = NULL
  THEN UNCHANGED <<poolVars, cycleVars>>  \* "Event queue full"
  ELSE LET e == free_entry
           n == delay + Base
       IN  /\ Link(e, n)
           /\ content' = [f \in DOMAIN content \cup {e} |->
                            IF f = e THEN [event |-> event, index |-> n] ELSE content[f]]
           /\ free_entry' = next[e]
           /\ EndSliceIfDue(content'[next_entry'].index)

-----------------------------------------------------------------------------
(* PIC_RemoveEvents and PIC_RemoveSpecificEvents: one walk over the queue.  *)
(* q holds the pointers and the entry the walk comes from.                  *)

\* (Mutant: the head of the queue is not moved on.)
UnlinkedKeepsHead(q, e) ==
  LET linked == IF q.prev = NULL THEN q
                ELSE [q EXCEPT !.next[q.prev] = q.next[e]]
  IN  [linked EXCEPT !.next[e] = q.free, !.free = e]

Unlinked(q, e) ==
  LET linked == IF q.prev = NULL THEN [q EXCEPT !.first = q.next[e]]
                ELSE [q EXCEPT !.next[q.prev] = q.next[e]]
  IN  [linked EXCEPT !.next[e] = q.free, !.free = e]

Passed(q, e, E) ==
  IF content[e].event \in E THEN Unlinked(q, e) ELSE [q EXCEPT !.prev = e]

\* The pointers after each entry of the queue.
Walk(E) ==
  LET after[k \in 0..Len(Queue)] ==
        IF k = 0 THEN [next |-> next, first |-> next_entry, free |-> free_entry,
                       prev |-> NULL]
        ELSE Passed(after[k - 1], Queue[k], E)
  IN  after

RemoveAll(E) ==
  \E walked \in {Walk(E)[Len(Queue)]} :
    /\ next' = walked.next
    /\ next_entry' = walked.first
    /\ free_entry' = walked.free
    /\ content' = [e \in DOMAIN content \ {f \in Range(Queue) : content[f].event \in E}
                     |-> content[e]]
    /\ UNCHANGED cycleVars

RemoveEvents(h) == RemoveAll({h} \X Values)
RemoveSpecificEvents(h, v) == RemoveAll({<<h, v>>})

\* Any call a device makes about events.
Call ==
  \/ \E ev \in Events, d \in Delays : AddEvent(ev, d)
  \/ \E h \in Handlers : RemoveEvents(h)
  \/ \E h \in Handlers, v \in Values : RemoveSpecificEvents(h, v)

-----------------------------------------------------------------------------
(* PIC_RunQueue.                                                           *)

\* The cycles that were not used are given back; with none left in the
\* millisecond the function returns false.
EnterQueue ==
  /\ pc = "loop"
  /\ CPU_CycleLeft' = CPU_CycleLeft + CPU_Cycles
  /\ CPU_Cycles' = 0
  /\ IF CPU_CycleLeft' <= 0
     THEN pc' = "tick" /\ UNCHANGED <<serviceVars, calls>>
     ELSE /\ pc' = "service"
          /\ index_nd' = CPU_CycleMax - CPU_CycleLeft'
          /\ InEventService' = TRUE
          /\ UNCHANGED <<srv_lag, entry, calls>>
  /\ UNCHANGED poolVars

Due == next_entry # NULL /\ content[next_entry].index <= Grain * index_nd

\* The first entry leaves the queue and its handler is called.
Dispatch ==
  /\ pc = "service" /\ Due
  /\ entry' = next_entry
  /\ next_entry' = next[next_entry]
  /\ srv_lag' = content[next_entry].index
  /\ pc' = "handler" /\ calls' = 0
  /\ UNCHANGED <<next, free_entry, content, cycleVars, InEventService, index_nd>>

\* The handler adds and removes events, its own included.  Its entry is in
\* neither list meanwhile.
HandlerCalls ==
  /\ pc = "handler" /\ calls < MaxCalls
  /\ Call
  /\ calls' = calls + 1
  /\ UNCHANGED <<serviceVars, pc>>

\* The handler returns, and its entry is free again.
HandlerReturns ==
  /\ pc = "handler"
  /\ next' = [next EXCEPT ![entry] = free_entry]
  /\ free_entry' = entry
  /\ content' = [e \in DOMAIN content \ {entry} |-> content[e]]
  /\ entry' = NULL
  /\ pc' = "service" /\ calls' = 0
  /\ UNCHANGED <<next_entry, cycleVars, InEventService, srv_lag, index_nd>>

\* The slice: until the next event, one cycle at least, or to the end of the
\* millisecond.
Slice ==
  IF next_entry = NULL THEN CPU_CycleLeft
  ELSE LET cycles == Truncated(content[next_entry].index - Grain * index_nd)
           some == IF cycles = 0 THEN 1 ELSE cycles
       IN  IF some < CPU_CycleLeft THEN some ELSE CPU_CycleLeft

\* No event is due any more: the program runs.
LeaveQueue ==
  /\ pc = "service" /\ ~Due
  /\ InEventService' = FALSE
  /\ CPU_Cycles' = Slice
  /\ CPU_CycleLeft' = CPU_CycleLeft - Slice
  /\ srv_lag' = 0 /\ index_nd' = 0
  /\ pc' = "program"
  /\ UNCHANGED <<poolVars, entry, calls>>

\* (Mutant: the times are not counted from the new millisecond.)
AddTickUnshifted ==
  /\ pc = "tick"
  /\ CPU_CycleLeft' = CPU_CycleMax
  /\ CPU_Cycles' = 0
  /\ pc' = "ticking" /\ calls' = 0
  /\ UNCHANGED <<poolVars, serviceVars>>

\* TIMER_AddTick: a new millisecond.
AddTick ==
  /\ pc = "tick"
  /\ CPU_CycleLeft' = CPU_CycleMax
  /\ CPU_Cycles' = 0
  /\ content' = [e \in DOMAIN content |->
                   [content[e] EXCEPT !.index = @ - Grain * CPU_CycleMax]]
  /\ pc' = "ticking" /\ calls' = 0
  /\ UNCHANGED <<next, free_entry, next_entry, serviceVars>>

\* The tick handlers call, too; then the loop goes on.
TickHandlerCalls ==
  /\ pc = "ticking" /\ calls < MaxCalls
  /\ Call
  /\ calls' = calls + 1
  /\ UNCHANGED <<serviceVars, pc>>

TickDone ==
  /\ pc = "ticking"
  /\ pc' = "loop" /\ calls' = 0
  /\ UNCHANGED <<poolVars, cycleVars, serviceVars>>

-----------------------------------------------------------------------------
(* The program: while (CPU_Cycles-- > 0).                                   *)

\* An instruction begins; a port access takes more, unless few cycles are left.
Fetch ==
  /\ pc = "program" /\ CPU_Cycles > 0
  /\ \E d \in {0, IODelay} :
       /\ d > 0 => CPU_Cycles - 1 >= 3 * IODelay
       /\ CPU_Cycles' = CPU_Cycles - 1 - d
  /\ pc' = "instruction" /\ calls' = 0
  /\ UNCHANGED <<poolVars, CPU_CycleLeft, serviceVars>>

\* The handler of a port, or a callback, calls.
PortCalls ==
  /\ pc = "instruction" /\ calls < MaxCalls
  /\ Call
  /\ calls' = calls + 1
  /\ UNCHANGED <<serviceVars, pc>>

\* The instruction is done; interrupts and callbacks leave the decoder.
Done ==
  /\ pc = "instruction"
  /\ pc' \in {"program", "loop"} /\ calls' = 0
  /\ UNCHANGED <<poolVars, cycleVars, serviceVars>>

\* The test of the decoder's loop fails, and has decremented once more.
SliceEnds ==
  /\ pc = "program" /\ CPU_Cycles <= 0
  /\ CPU_Cycles' = CPU_Cycles - 1
  /\ pc' = "loop"
  /\ UNCHANGED <<poolVars, CPU_CycleLeft, serviceVars, calls>>

-----------------------------------------------------------------------------

\* All entries are in the free list, in the order of the array.
Init ==
  /\ next = [e \in Entries |-> IF e = PIC_QUEUESIZE THEN NULL ELSE e + 1]
  /\ free_entry = 1 /\ next_entry = NULL
  /\ content = <<>>
  /\ CPU_CycleLeft = 0 /\ CPU_Cycles = 0
  /\ InEventService = FALSE /\ srv_lag = 0
  /\ entry = NULL /\ index_nd = 0
  /\ pc = "loop" /\ calls = 0

Loop == EnterQueue \/ Dispatch \/ HandlerReturns \/ LeaveQueue \/ AddTick \/ TickDone
Program == Fetch \/ Done \/ SliceEnds

Next == \/ Loop \/ HandlerCalls \/ TickHandlerCalls
        \/ Program \/ PortCalls

Spec == Init /\ [][Next]_vars

\* The loop goes on, handlers return, and the program runs.
FairSpec == Spec /\ WF_vars(Loop) /\ WF_vars(Program)

-----------------------------------------------------------------------------
(* Properties.                                                             *)

TypeOK ==
  /\ next \in [Entries -> Entries \cup {NULL}]
  /\ free_entry \in Entries \cup {NULL} /\ next_entry \in Entries \cup {NULL}
  /\ DOMAIN content \subseteq Entries
  /\ \A e \in DOMAIN content : content[e] \in [event : Events, index : Int]
  /\ CPU_CycleLeft \in -1..CPU_CycleMax /\ CPU_Cycles \in -1..CPU_CycleMax
  /\ InEventService = (pc \in {"service", "handler"})
  /\ entry \in Entries \cup {NULL} /\ index_nd \in 0..CPU_CycleMax
  /\ calls \in 0..MaxCalls

Distinct(s) == \A i, j \in DOMAIN s : s[i] = s[j] => i = j

\* The pool: every entry is in the queue, in the free list or held by
\* PIC_RunQueue while its handler runs, in one of them, and neither list has
\* a cycle.  An entry that was in none would be lost for good, one in two
\* would be run and overwritten.
Partition ==
  LET held == {entry} \ {NULL} IN
  /\ TypeOK
  /\ Distinct(Queue) /\ Distinct(Free)
  /\ Range(Queue) \cap Range(Free) = {}
  /\ held \cap (Range(Queue) \cup Range(Free)) = {}
  /\ Range(Queue) \cup Range(Free) \cup held = Entries
  /\ DOMAIN content = Range(Queue) \cup held

\* No event that waits is overdue by more than a cycle while a program runs,
\* over the end of a millisecond too.
OnTime ==
  pc \in {"program", "instruction"} =>
    \A e \in Range(Queue) : content[e].index >= Grain * (TickIndexND - 1)

\* The events that wait, and the one whose handler runs.
Pending == [k \in 1..Len(Queue) |-> content[Queue[k]]]
Running == IF entry = NULL THEN {} ELSE {content[entry].event}

\* Pointers and entries do what EventQueue says: order, first come first
\* served among equal times, removal of just the events named, the capacity.
Promised == INSTANCE EventQueue WITH
  QueueEvents <- Events, QueueSize <- PIC_QUEUESIZE, QueueTick <- Grain * CPU_CycleMax,
  pending <- Pending, running <- Running

ImplementsQueue == Promised!QueueSpec

\* Every event that waits is run or removed, if handlers add no events
\* without a delay.
EventsRun ==
  \A e \in Entries : e \in Range(Queue) ~> e \notin Range(Queue)

=============================================================================
