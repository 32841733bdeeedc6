----------------------------- MODULE EventQueue -----------------------------
(***************************************************************************)
(* What the timer promises the devices of the machine, without entries and *)
(* pointers: events wait in the order of their times, those of equal times *)
(* in the order they were added, the first one is the next to run, one at  *)
(* a time, and only calls about an event remove it.                        *)
(***************************************************************************)
EXTENDS Integers, Sequences

CONSTANTS QueueEvents, QueueSize, QueueTick

VARIABLES pending,  \* the events that wait, [event, index]
          running   \* the events whose handler runs: none, or one

queueVars == <<pending, running>>

Waiting == [event : QueueEvents, index : Int]

InOrder(q) == \A i, j \in 1..Len(q) : i < j => q[i].index <= q[j].index

\* q with x at position k.
PutAt(q, k, x) ==
  [i \in 1..Len(q) + 1 |-> IF i < k THEN q[i] ELSE IF i = k THEN x ELSE q[i - 1]]

QueueInit == pending = <<>> /\ running = {}

\* A new event waits behind all that are not later; none is taken in when all
\* entries are in use, the one whose handler runs included.
Add(x) ==
  /\ Len(pending) < QueueSize - (IF running = {} THEN 0 ELSE 1)
  /\ \E k \in 1..Len(pending) + 1 :
       /\ \A i \in 1..Len(pending) : i < k <=> pending[i].index <= x.index
       /\ pending' = PutAt(pending, k, x)
  /\ UNCHANGED running

\* The events in E stop waiting, the others stay in their order.
Remove(E) ==
  /\ \E keep \in SUBSET (1..Len(pending)), n \in 0..Len(pending) :
       /\ keep = {i \in 1..Len(pending) : pending[i].event \notin E}
       /\ \E place \in [1..n -> keep] :
            /\ \A i, j \in 1..n : i < j => place[i] < place[j]
            /\ \A i \in keep : \E j \in 1..n : place[j] = i
            /\ pending' = [j \in 1..n |-> pending[place[j]]]
  /\ UNCHANGED running

Start ==
  /\ running = {} /\ pending # <<>>
  /\ running' = {pending[1].event}
  /\ pending' = Tail(pending)

Finish == running # {} /\ running' = {} /\ UNCHANGED pending

\* A tick begins: the times count from its beginning.
Shift ==
  /\ pending' = [i \in 1..Len(pending) |->
                   [pending[i] EXCEPT !.index = @ - QueueTick]]
  /\ UNCHANGED running

QueueNext ==
  \/ \E i \in 1..Len(pending') : pending'[i] \in Waiting /\ Add(pending'[i])
  \/ \E E \in SUBSET QueueEvents : Remove(E)
  \/ Start \/ Finish \/ Shift

QueueSpec == QueueInit /\ [][QueueNext]_queueVars

=============================================================================
