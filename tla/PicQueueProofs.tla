--------------------------- MODULE PicQueueProofs ---------------------------
(***************************************************************************)
(* The event queue, for every number of entries, every length of a         *)
(* millisecond and all delays.  First what EventQueue promises: events      *)
(* wait in the order of their times.  Then that the pointers link two       *)
(* lists, whatever devices add and remove and whenever they do it; that     *)
(* the slices of the loop end in time; and that PicQueue implements         *)
(* EventQueue.                                                             *)
(*                                                                         *)
(* A list is given as a function f with f[0] its first entry, f[n] = NULL;  *)
(* the lemmas say what linking one entry in or out does to f.               *)
(***************************************************************************)
EXTENDS PicQueue, EventQueue, SequenceTheorems, FiniteSetTheorems,
        WellFoundedInduction, TLAPS

QueueTypes == QueueSize \in Nat \ {0} /\ QueueTick \in Nat

Used == Len(pending) + (IF running = {} THEN 0 ELSE 1)

Orderly ==
  /\ pending \in Seq(Waiting)
  /\ running = {} \/ \E e \in QueueEvents : running = {e}
  /\ InOrder(pending)
  /\ Used <= QueueSize

\* A sequence given place by place.
LEMMA SeqByPlace ==
  ASSUME NEW S, NEW n \in Nat, NEW f, f = [i \in 1..n |-> f[i]], \A i \in 1..n : f[i] \in S
  PROVE  f \in Seq(S) /\ Len(f) = n
<1>1. f \in [1..n -> S]
  OBVIOUS
<1> QED
  BY <1>1

\* Putting an event at the place Add chooses keeps the order.
LEMMA PutAtSound ==
  ASSUME NEW q \in Seq(Waiting), InOrder(q), NEW x \in Waiting,
         NEW k \in 1..Len(q) + 1,
         \A i \in 1..Len(q) : i < k <=> q[i].index <= x.index
  PROVE  /\ PutAt(q, k, x) \in Seq(Waiting)
         /\ Len(PutAt(q, k, x)) = Len(q) + 1
         /\ InOrder(PutAt(q, k, x))
<1> DEFINE r == PutAt(q, k, x)
<1>1. Len(q) \in Nat /\ Len(q) + 1 \in Nat /\ k \in Nat
  OBVIOUS
<1>2. r = [i \in 1..Len(q) + 1 |-> IF i < k THEN q[i] ELSE IF i = k THEN x ELSE q[i - 1]]
  BY DEF PutAt
<1> HIDE DEF r
<1>3. ASSUME NEW i \in 1..Len(q) + 1
      PROVE  /\ i < k => i \in 1..Len(q) /\ r[i] = q[i]
             /\ i = k => r[i] = x
             /\ i > k => i - 1 \in 1..Len(q) /\ r[i] = q[i - 1]
  BY <1>1, <1>2, <1>3
<1>4. \A i \in 1..Len(q) : q[i] \in Waiting /\ q[i].index \in Int
  <2>1. \A i \in 1..Len(q) : q[i] \in Waiting
    OBVIOUS
  <2> QED
    BY <2>1 DEF Waiting
<1>5. \A i \in 1..Len(q) + 1 : r[i] \in Waiting
  BY <1>1, <1>3, <1>4
<1>6. r \in Seq(Waiting) /\ Len(r) = Len(q) + 1
  BY <1>1, <1>2, <1>5, SeqByPlace
<1>7. ASSUME NEW i \in 1..Len(r), NEW j \in 1..Len(r), i < j
      PROVE  r[i].index <= r[j].index
  <2>0. x.index \in Int /\ i \in 1..Len(q) + 1 /\ j \in 1..Len(q) + 1
    BY <1>6, <1>7 DEF Waiting
  <2>1. CASE j < k
    <3>1. i \in 1..Len(q) /\ j \in 1..Len(q) /\ r[i] = q[i] /\ r[j] = q[j]
      BY <1>1, <1>3, <1>7, <2>0, <2>1
    <3> QED
      BY <1>7, <3>1 DEF InOrder
  <2>2. CASE i < k /\ j = k
    BY <1>3, <2>0, <2>2
  <2>3. CASE i < k /\ j > k
    <3>1. i \in 1..Len(q) /\ r[i] = q[i] /\ q[i].index <= x.index
      BY <1>3, <2>0, <2>3
    <3>2. j - 1 \in 1..Len(q) /\ r[j] = q[j - 1] /\ ~(j - 1 < k)
      BY <1>1, <1>3, <2>0, <2>3
    <3>3. ~(q[j - 1].index <= x.index)
      BY <3>2
    <3> QED
      BY <1>4, <2>0, <3>1, <3>2, <3>3
  <2>4. CASE i = k
    <3>1. j > k
      BY <1>1, <1>7, <2>4
    <3>2. j - 1 \in 1..Len(q) /\ r[j] = q[j - 1] /\ ~(j - 1 < k)
      BY <1>1, <1>3, <2>0, <3>1
    <3>3. ~(q[j - 1].index <= x.index)
      BY <3>2
    <3> QED
      BY <1>3, <1>4, <2>0, <2>4, <3>2, <3>3
  <2>5. CASE i > k
    <3>1. j > k
      BY <1>1, <1>7, <2>5, <2>0
    <3>2. /\ i - 1 \in 1..Len(q) /\ r[i] = q[i - 1]
          /\ j - 1 \in 1..Len(q) /\ r[j] = q[j - 1]
      BY <1>3, <2>0, <2>5, <3>1
    <3>3. i - 1 < j - 1
      BY <1>7, <2>0
    <3> QED
      BY <3>2, <3>3 DEF InOrder
  <2> QED
    BY <1>1, <2>0, <2>1, <2>2, <2>3, <2>4, <2>5, <1>7
<1> QED
  BY <1>6, <1>7 DEF InOrder, r

LEMMA AddSound ==
  ASSUME QueueTypes, Orderly, NEW x \in Waiting, Add(x)
  PROVE  Orderly'
<1>1. PICK k \in 1..Len(pending) + 1 :
        /\ \A i \in 1..Len(pending) : i < k <=> pending[i].index <= x.index
        /\ pending' = PutAt(pending, k, x)
  BY DEF Add
<1>2. /\ pending' \in Seq(Waiting) /\ InOrder(pending')
      /\ Len(pending') = Len(pending) + 1
  BY <1>1, PutAtSound DEF Orderly
<1>3. running' = running
      /\ Len(pending) < QueueSize - (IF running = {} THEN 0 ELSE 1)
  BY DEF Add
<1>4. Len(pending) \in Nat
  BY DEF Orderly
<1>5. Used' <= QueueSize
  BY <1>2, <1>3, <1>4 DEF QueueTypes, Used
<1> QED
  BY <1>2, <1>3, <1>5 DEF Orderly

\* The events that stay keep their order, and are not more than before.
LEMMA RemoveSound ==
  ASSUME QueueTypes, Orderly, NEW E, Remove(E)
  PROVE  Orderly'
<1>1. PICK keep \in SUBSET (1..Len(pending)), n \in 0..Len(pending) :
        \E place \in [1..n -> keep] :
          /\ \A i, j \in 1..n : i < j => place[i] < place[j]
          /\ pending' = [j \in 1..n |-> pending[place[j]]]
  BY DEF Remove
<1>2. PICK place \in [1..n -> keep] :
        /\ \A i, j \in 1..n : i < j => place[i] < place[j]
        /\ pending' = [j \in 1..n |-> pending[place[j]]]
  BY <1>1
<1>3. Len(pending) \in Nat /\ n \in Nat /\ n <= Len(pending)
  BY DEF Orderly
<1>4. \A j \in 1..n : place[j] \in 1..Len(pending) /\ pending'[j] = pending[place[j]]
  BY <1>2
<1>5. \A j \in 1..n : pending'[j] \in Waiting
  BY <1>4 DEF Orderly
<1>6. pending' \in Seq(Waiting) /\ Len(pending') = n
  BY <1>2, <1>3, <1>5, SeqByPlace
<1>7. InOrder(pending')
  <2>1. ASSUME NEW i \in 1..n, NEW j \in 1..n, i < j
        PROVE  pending'[i].index <= pending'[j].index
    <3>1. place[i] < place[j]
      BY <1>2, <2>1
    <3> QED
      BY <1>4, <2>1, <3>1 DEF Orderly, InOrder
  <2> QED
    BY <1>6, <2>1 DEF InOrder
<1>8. running' = running
  BY DEF Remove
<1>9. Used' <= QueueSize
  BY <1>3, <1>6, <1>8 DEF QueueTypes, Used, Orderly
<1> QED
  BY <1>6, <1>7, <1>8, <1>9 DEF Orderly

\* The first event leaves the queue and is the one that runs.
LEMMA StartSound ==
  ASSUME QueueTypes, Orderly, Start
  PROVE  Orderly'
<1>1. /\ pending \in Seq(Waiting) /\ pending # <<>>
      /\ pending' = Tail(pending) /\ running = {}
      /\ running' = {pending[1].event}
  BY DEF Orderly, Start
<1>2. Len(pending) \in Nat \ {0}
  BY <1>1, EmptySeq
<1>3. pending[1] \in Waiting
  BY <1>1, <1>2
<1>4. pending[1].event \in QueueEvents
  BY <1>3 DEF Waiting
<1>5. /\ pending' \in Seq(Waiting)
      /\ Len(pending') = Len(pending) - 1
      /\ \A i \in 1..Len(pending') : pending'[i] = pending[i + 1]
  BY <1>1, <1>2, HeadTailProperties
<1>6. InOrder(pending')
  <2>1. ASSUME NEW i \in 1..Len(pending'), NEW j \in 1..Len(pending'), i < j
        PROVE  pending'[i].index <= pending'[j].index
    <3>1. /\ i + 1 \in 1..Len(pending) /\ j + 1 \in 1..Len(pending) /\ i + 1 < j + 1
      BY <1>2, <1>5, <2>1
    <3>2. pending[i + 1].index <= pending[j + 1].index
      BY <3>1 DEF Orderly, InOrder
    <3> QED
      BY <1>5, <2>1, <3>2
  <2> QED
    BY <2>1 DEF InOrder
<1>7. running' # {}
  BY <1>1
<1>8. Used' <= QueueSize
  BY <1>1, <1>2, <1>5, <1>7 DEF QueueTypes, Used, Orderly
<1> QED
  BY <1>1, <1>4, <1>5, <1>6, <1>8 DEF Orderly

\* A new millisecond lowers all times alike.
LEMMA ShiftSound ==
  ASSUME QueueTypes, Orderly, Shift
  PROVE  Orderly'
<1>1. /\ Len(pending) \in Nat
      /\ pending' = [i \in 1..Len(pending) |-> [pending[i] EXCEPT !.index = @ - QueueTick]]
      /\ running' = running
  BY DEF Orderly, Shift
<1>2. \A i \in 1..Len(pending) : pending[i] \in Waiting
  BY DEF Orderly
<1>3. \A i \in 1..Len(pending) :
        /\ pending'[i] \in Waiting
        /\ pending'[i].index = pending[i].index - QueueTick
  BY <1>1, <1>2 DEF QueueTypes, Waiting
<1>4. pending' \in Seq(Waiting) /\ Len(pending') = Len(pending)
  BY <1>1, <1>3, SeqByPlace
<1>5. \A i \in 1..Len(pending) : pending[i].index \in Int
  BY <1>2 DEF Waiting
<1>6. InOrder(pending')
  BY <1>3, <1>4, <1>5 DEF QueueTypes, InOrder, Orderly
<1> QED
  BY <1>1, <1>4, <1>6 DEF Orderly, Used

-----------------------------------------------------------------------------

LEMMA StepSound ==
  ASSUME QueueTypes, Orderly, [QueueNext]_queueVars
  PROVE  Orderly'
<1>1. ASSUME NEW x \in Waiting, Add(x) PROVE Orderly'
  BY <1>1, AddSound
<1>2. ASSUME NEW E \in SUBSET QueueEvents, Remove(E) PROVE Orderly'
  BY <1>2, RemoveSound
<1>3. CASE Start
  BY <1>3, StartSound
<1>4. CASE Finish
  <2>1. pending' = pending /\ running' = {} /\ Len(pending) \in Nat
    BY <1>4 DEF Finish, Orderly
  <2>2. Used' <= QueueSize
    BY <2>1 DEF QueueTypes, Used, Orderly
  <2> QED
    BY <2>1, <2>2 DEF Orderly
<1>5. CASE Shift
  BY <1>5, ShiftSound
<1>6. CASE UNCHANGED queueVars
  BY <1>6 DEF queueVars, Orderly, Used
<1> QED
  BY <1>1, <1>2, <1>3, <1>4, <1>5, <1>6 DEF QueueNext

\* Whatever the devices ask for, in whatever order, the events that wait are
\* in the order of their times, one handler runs at most, and no more entries
\* are in use than there are.
THEOREM AlwaysOrderly ==
  ASSUME QueueTypes
  PROVE  QueueSpec => []Orderly
<1>1. QueueInit => Orderly
  BY DEF QueueTypes, QueueInit, Orderly, Used, InOrder
<1>2. Orderly /\ [QueueNext]_queueVars => Orderly'
  BY StepSound
<1> QED
  BY <1>1, <1>2, PTL DEF QueueSpec

-----------------------------------------------------------------------------
(* Least elements, and what follows from them by induction.                *)

\* A set of numbers that is not empty has a least element.
LEMMA LeastExists ==
  ASSUME NEW S \in SUBSET Nat, S # {}
  PROVE  \E x \in S : \A y \in S : x <= y
<1> DEFINE R == {ss \in Nat \X Nat : ss[1] < ss[2]}
<1>1. IsWellFoundedOn(R, Nat)
  BY NatLessThanWellFounded DEF OpToRel
<1> HIDE DEF R
<1>2. PICK x \in S : \A y \in S : ~(<<y, x>> \in R)
  BY <1>1, WFMin, Zenon
<1>3. \A y \in S : ~(y < x)
  BY <1>2 DEF R
<1> QED
  BY <1>3

\* A set of numbers that has 0, and with each number the next one up to n, has
\* all numbers up to n.
LEMMA AllUpTo ==
  ASSUME NEW S, NEW n \in Nat, 0 \in S, \A k \in 1 .. n : k - 1 \in S => k \in S
  PROVE  \A k \in 0 .. n : k \in S
<1> SUFFICES ASSUME NEW a \in 0 .. n, a \notin S
             PROVE  FALSE
  OBVIOUS
<1> DEFINE bad == {k \in 0 .. n : k \notin S}
<1>1. bad \in SUBSET Nat /\ bad # {}
  OBVIOUS
<1> HIDE DEF bad
<1>2. PICK x \in bad : \A y \in bad : x <= y
  BY <1>1, LeastExists
<1>3. x \in 0 .. n /\ x \notin S
  BY <1>2 DEF bad
<1>4. x \in 1 .. n
  BY <1>3
<1>5. x - 1 \notin bad
  <2>1. ~(x <= x - 1)
    BY <1>4
  <2> QED
    BY <1>2, <2>1
<1>6. x - 1 \in S
  BY <1>4, <1>5 DEF bad
<1> QED
  BY <1>3, <1>4, <1>6

-----------------------------------------------------------------------------
(* Lists.                                                                  *)

\* From h the pointers lead over n entries, f[0] to f[n - 1], to the end.
IsList(nx, h, n, f) ==
  /\ f \in [0..n -> Entries \cup {NULL}] /\ f[0] = h /\ f[n] = NULL
  /\ \A i \in 0..n - 1 : f[i] \in Entries /\ nx[f[i]] = f[i + 1]
  /\ \A i, j \in 0..n - 1 : f[i] = f[j] => i = j

On(n, f) == {f[i] : i \in 0..n - 1}

LEMMA EntriesAre ==
  /\ PIC_QUEUESIZE \in Nat \ {0} /\ Entries \subseteq Nat \ {0} /\ NULL \notin Entries
  /\ IsFiniteSet(Entries) /\ Cardinality(Entries) = PIC_QUEUESIZE
<1>1. PIC_QUEUESIZE \in Nat \ {0}
  BY QueueAssumption
<1>2. Entries \subseteq Nat \ {0} /\ NULL \notin Entries
  BY <1>1 DEF Entries, NULL
<1>3. IsFiniteSet(Entries) /\ Cardinality(Entries) = PIC_QUEUESIZE
  BY <1>1, FS_Interval DEF Entries
<1> QED
  BY <1>1, <1>2, <1>3

\* A list has as many entries as it is long.
LEMMA ListSize ==
  ASSUME NEW nx, NEW h, NEW n \in Nat, NEW f, IsList(nx, h, n, f)
  PROVE  /\ IsFiniteSet(On(n, f)) /\ Cardinality(On(n, f)) = n
         /\ On(n, f) \subseteq Entries /\ n <= PIC_QUEUESIZE
<1> DEFINE D == 0..n - 1
           g == [i \in D |-> f[i]]
<1>1. IsFiniteSet(D) /\ Cardinality(D) = n
  <2>1. /\ IsFiniteSet(0..n - 1)
        /\ Cardinality(0..n - 1) = IF 0 > n - 1 THEN 0 ELSE ((n - 1) - 0) + 1
    BY FS_Interval
  <2> QED
    BY <2>1
<1>2. g \in Bijection(D, On(n, f))
  <2>1. \A i \in D : g[i] = f[i]
    OBVIOUS
  <2>2. g \in [D -> On(n, f)]
    BY DEF On
  <2>3. \A i, j \in D : g[i] = g[j] => i = j
    BY <2>1 DEF IsList
  <2>4. \A p \in On(n, f) : \E i \in D : g[i] = p
    BY <2>1 DEF On
  <2> HIDE DEF g, D
  <2> QED
    BY <2>2, <2>3, <2>4 DEF Bijection, Injection, Surjection, IsInjective
<1> HIDE DEF D, g
<1>3. IsFiniteSet(On(n, f)) /\ Cardinality(On(n, f)) = n
  <2>1. ExistsBijection(D, On(n, f))
    BY <1>2 DEF ExistsBijection
  <2> QED
    BY <1>1, <2>1, FS_Bijection
<1>4. On(n, f) \subseteq Entries
  BY DEF On, IsList
<1>5. n <= PIC_QUEUESIZE
  BY <1>3, <1>4, EntriesAre, FS_Subset
<1> QED
  BY <1>3, <1>4, <1>5

\* ListFrom finds the list.
LEMMA ListIs ==
  ASSUME NEW nx, NEW h, NEW n \in Nat, NEW f, IsList(nx, h, n, f)
  PROVE  ListFrom(nx, h) = [k \in 1..n |-> f[k - 1]]
<1> DEFINE D == 0..PIC_QUEUESIZE
           Follows(nth) == nth = [k \in D |->
                             IF k = 0 THEN h
                             ELSE IF nth[k - 1] = NULL THEN NULL ELSE nx[nth[k - 1]]]
           nth == CHOOSE g : Follows(g)
           found == [k \in D |-> IF k <= n THEN f[k] ELSE NULL]
           length == Cardinality({k \in D : nth[k] # NULL})
<1>0. n \in D /\ n <= PIC_QUEUESIZE /\ PIC_QUEUESIZE \in Nat
  BY ListSize, EntriesAre
<1>1. ListFrom(nx, h) = [k \in 1..length |-> nth[k - 1]]
  BY Zenon DEF ListFrom
<1>2. \A k \in 0..n : (f[k] = NULL) = (k = n)
  BY EntriesAre DEF IsList
<1>3. ASSUME NEW k \in D
      PROVE  found[k] = IF k = 0 THEN h
                        ELSE IF found[k - 1] = NULL THEN NULL ELSE nx[found[k - 1]]
  <2>1. CASE k = 0
    BY <1>0, <2>1 DEF IsList
  <2>2. CASE k \in 1..n
    <3>1. k - 1 \in 0..n - 1 /\ k - 1 \in D /\ k # 0 /\ k - 1 # n /\ k - 1 \in 0..n
      BY <1>0, <2>2
    <3>2. found[k - 1] = f[k - 1] /\ f[k - 1] # NULL /\ found[k] = f[k]
      BY <1>2, <2>2, <3>1
    <3>3. nx[f[k - 1]] = f[k]
      BY <3>1 DEF IsList
    <3> QED
      BY <3>1, <3>2, <3>3
  <2>3. CASE k > n
    <3>1. k # 0 /\ k - 1 \in D /\ ~(k <= n) /\ (k - 1 <= n => k - 1 = n)
      BY <1>0, <2>3
    <3>2. found[k] = NULL /\ found[k - 1] = NULL
      BY <1>2, <3>1 DEF IsList
    <3> QED
      BY <3>1, <3>2
  <2> QED
    BY <1>0, <2>1, <2>2, <2>3
<1>4. Follows(found)
  <2>1. found = [k \in D |-> found[k]]
    OBVIOUS
  <2> HIDE DEF found, D
  <2> QED
    BY <1>3, <2>1
<1> HIDE DEF Follows
<1>5. Follows(nth)
  BY <1>4, Zenon
<1>6. \A k \in D : nth[k] = IF k = 0 THEN h
                            ELSE IF nth[k - 1] = NULL THEN NULL ELSE nx[nth[k - 1]]
  <2> HIDE DEF nth
  <2> QED
    BY <1>5 DEF Follows
<1>7. \A k \in D : nth[k] = found[k]
  <2> DEFINE S == {k \in D : nth[k] = found[k]}
  <2>1. 0 \in S
    <3>1. 0 \in D
      BY <1>0
    <3>2. nth[0] = h
      BY <1>6, <3>1
    <3>3. found[0] = h
      BY <1>3, <3>1
    <3> QED
      BY <3>1, <3>2, <3>3
  <2>2. ASSUME NEW k \in 1..PIC_QUEUESIZE, k - 1 \in S
        PROVE  k \in S
    <3>1. k \in D /\ k # 0 /\ nth[k - 1] = found[k - 1]
      BY <1>0, <2>2
    <3> HIDE DEF nth, found
    <3> QED
      BY <1>3, <1>6, <3>1
  <2> HIDE DEF S
  <2>3. \A k \in 0..PIC_QUEUESIZE : k \in S
    BY <1>0, <2>1, <2>2, AllUpTo
  <2> QED
    BY <2>3 DEF S
<1> HIDE DEF nth
<1>8. {k \in D : nth[k] # NULL} = 0..n - 1
  <2>1. \A k \in D : nth[k] # NULL <=> k \in 0..n - 1
    BY <1>0, <1>2, <1>7
  <2>2. 0..n - 1 \subseteq D
    BY <1>0
  <2> QED
    BY <2>1, <2>2
<1>9. length = n
  <2>1. /\ IsFiniteSet(0..n - 1)
        /\ Cardinality(0..n - 1) = IF 0 > n - 1 THEN 0 ELSE ((n - 1) - 0) + 1
    BY FS_Interval
  <2>2. Cardinality(0..n - 1) = n
    BY <2>1
  <2>3. length = Cardinality(0..n - 1)
    BY <1>8, Zenon
  <2> QED
    BY <2>2, <2>3
<1>10. \A k \in 1..n : nth[k - 1] = f[k - 1]
  <2>1. \A k \in 1..n : k - 1 \in D /\ k - 1 <= n
    BY <1>0
  <2> QED
    BY <1>7, <2>1
<1> QED
  BY <1>1, <1>9, <1>10

\* What the properties say of a list.
LEMMA ListHas ==
  ASSUME NEW n \in Nat, NEW f, NEW s, s = [k \in 1..n |-> f[k - 1]]
  PROVE  /\ Len(s) = n /\ DOMAIN s = 1..n /\ Range(s) = On(n, f)
         /\ \A k \in 1..n : s[k] = f[k - 1]
<1>1. DOMAIN s = 1..n /\ \A k \in 1..n : s[k] = f[k - 1]
  OBVIOUS
<1>2. Len(s) = n
  OBVIOUS
<1>3. ASSUME NEW p
      PROVE  p \in Range(s) <=> p \in On(n, f)
  <2>1. ASSUME p \in Range(s)
        PROVE  p \in On(n, f)
    <3>1. PICK k \in 1..n : p = s[k]
      BY <1>1, <2>1 DEF Range
    <3>2. k - 1 \in 0..n - 1 /\ p = f[k - 1]
      BY <1>1, <3>1
    <3> QED
      BY <3>2 DEF On
  <2>2. ASSUME p \in On(n, f)
        PROVE  p \in Range(s)
    <3>1. PICK i \in 0..n - 1 : p = f[i]
      BY <2>2 DEF On
    <3>2. i + 1 \in 1..n /\ (i + 1) - 1 = i
      BY <3>1
    <3>3. p = s[i + 1]
      BY <1>1, <3>1, <3>2
    <3> QED
      BY <1>1, <3>2, <3>3 DEF Range
  <2> QED
    BY <2>1, <2>2
<1> QED
  BY <1>1, <1>2, <1>3

\* A list stays when its entries keep their pointers.
LEMMA KeepList ==
  ASSUME NEW nx, NEW h, NEW n \in Nat, NEW f, IsList(nx, h, n, f),
         NEW nx2, \A p \in On(n, f) : nx2[p] = nx[p]
  PROVE  IsList(nx2, h, n, f)
<1>1. \A i \in 0..n - 1 : f[i] \in On(n, f)
  BY DEF On
<1> QED
  BY <1>1 DEF IsList

LEMMA EmptyList ==
  ASSUME NEW nx, NEW f, f = [i \in 0..0 |-> NULL]
  PROVE  IsList(nx, NULL, 0, f) /\ On(0, f) = {}
BY DEF IsList, On

\* A list is empty when there is no first entry.
LEMMA ListEnds ==
  ASSUME NEW nx, NEW h, NEW n \in Nat, NEW f, IsList(nx, h, n, f)
  PROVE  /\ h = NULL => n = 0
         /\ h # NULL => n > 0 /\ h \in On(n, f) /\ h \in Entries
<1>1. CASE n = 0
  BY <1>1 DEF IsList
<1>2. CASE n > 0
  <2>1. 0 \in 0..n - 1 /\ f[0] = h
    BY <1>2 DEF IsList
  <2>2. h \in Entries
    BY <2>1 DEF IsList
  <2>3. h \in On(n, f)
    BY <2>1 DEF On
  <2> QED
    BY <1>2, <2>1, <2>2, <2>3, EntriesAre
<1> QED
  BY <1>1, <1>2

\* The head leads to the second entry, or to the end.
LEMMA ListHead ==
  ASSUME NEW nx, NEW h, NEW n \in Nat, NEW f, IsList(nx, h, n, f), n > 0
  PROVE  f[0] = h /\ nx[h] = f[1]
<1>1. 0 \in 0..n - 1 /\ f[0] = h
  BY DEF IsList
<1>2. nx[f[0]] = f[0 + 1]
  BY <1>1 DEF IsList
<1> QED
  BY <1>1, <1>2

\* f with e at place k.
Put(f, n, k, e) == [i \in 0..n + 1 |-> IF i < k THEN f[i] ELSE IF i = k THEN e ELSE f[i - 1]]

\* What linking e in at place k does to the pointers and the head.
LinksIn(nx, h, n, f, k, e, nx2, h2) ==
  /\ e \in Entries /\ e \notin On(n, f) /\ k \in 0..n
  /\ h2 = (IF k = 0 THEN e ELSE h)
  /\ \A p \in On(n, f) : (k = 0 \/ p # f[k - 1]) => nx2[p] = nx[p]
  /\ k > 0 => nx2[f[k - 1]] = e
  /\ nx2[e] = f[k]

LEMMA PutList ==
  ASSUME NEW nx, NEW h, NEW n \in Nat, NEW f, IsList(nx, h, n, f),
         NEW k, NEW e, NEW nx2, NEW h2, LinksIn(nx, h, n, f, k, e, nx2, h2)
  PROVE  /\ IsList(nx2, h2, n + 1, Put(f, n, k, e))
         /\ On(n + 1, Put(f, n, k, e)) = On(n, f) \cup {e}
<1> USE DEF LinksIn
<1> DEFINE g == Put(f, n, k, e)
<1>1. /\ n + 1 \in Nat /\ f \in [0..n -> Entries \cup {NULL}] /\ f[0] = h /\ f[n] = NULL
      /\ \A i \in 0..n - 1 : f[i] \in Entries /\ nx[f[i]] = f[i + 1] /\ f[i] \in On(n, f)
      /\ \A i, j \in 0..n - 1 : f[i] = f[j] => i = j
  BY DEF IsList, On
<1>2. /\ DOMAIN g = 0..n + 1 /\ g[k] = e
      /\ \A i \in 0..n + 1 : i < k => g[i] = f[i]
      /\ \A i \in 0..n + 1 : i > k => g[i] = f[i - 1]
      /\ g = [i \in 0..n + 1 |-> g[i]]
  BY DEF Put
<1> HIDE DEF g
<1>3. g[0] = h2
  BY <1>1, <1>2
<1>4. g[n + 1] = NULL
  BY <1>1, <1>2
<1>5. g \in [0..n + 1 -> Entries \cup {NULL}]
  <2>1. \A i \in 0..n + 1 : g[i] \in Entries \cup {NULL}
    <3>1. \A i \in 0..n + 1 : i < k => i \in 0..n
      OBVIOUS
    <3>2. \A i \in 0..n + 1 : i > k => i - 1 \in 0..n
      OBVIOUS
    <3>3. \A i \in 0..n + 1 : i < k \/ i = k \/ i > k
      OBVIOUS
    <3> QED
      BY <1>1, <1>2, <3>1, <3>2, <3>3
  <2> QED
    BY <1>2, <2>1
<1>6. ASSUME NEW i \in 0..n
      PROVE  g[i] \in Entries /\ nx2[g[i]] = g[i + 1]
  <2>1. CASE i = k
    <3>1. g[i + 1] = f[k] /\ g[i] = e
      BY <1>2, <2>1
    <3> QED
      BY <3>1
  <2>2. CASE i + 1 = k
    <3>1. g[i] = f[k - 1] /\ g[i + 1] = e /\ k - 1 \in 0..n - 1 /\ k > 0
      BY <1>2, <2>2
    <3> QED
      BY <1>1, <3>1
  <2>3. CASE i + 1 < k
    <3>1. g[i] = f[i] /\ g[i + 1] = f[i + 1] /\ i \in 0..n - 1 /\ k - 1 \in 0..n - 1 /\ i # k - 1
      BY <1>2, <2>3
    <3>2. f[i] # f[k - 1] /\ f[i] \in On(n, f) /\ nx[f[i]] = f[i + 1] /\ f[i] \in Entries
      BY <1>1, <3>1
    <3> QED
      BY <3>1, <3>2
  <2>4. CASE i > k
    <3>1. g[i] = f[i - 1] /\ g[i + 1] = f[i] /\ i - 1 \in 0..n - 1 /\ (i - 1) + 1 = i
          /\ (k > 0 => k - 1 \in 0..n - 1 /\ i - 1 # k - 1)
      BY <1>2, <2>4
    <3>2. f[i - 1] \in On(n, f) /\ nx[f[i - 1]] = f[i] /\ f[i - 1] \in Entries
      BY <1>1, <3>1
    <3>3. k = 0 \/ f[i - 1] # f[k - 1]
      BY <1>1, <3>1
    <3> QED
      BY <3>1, <3>2, <3>3
  <2> QED
    BY <2>1, <2>2, <2>3, <2>4
<1>7. ASSUME NEW i \in 0..n
      PROVE  /\ i = k => g[i] = e
             /\ i < k => i \in 0..n - 1 /\ g[i] = f[i] /\ g[i] # e
             /\ i > k => i - 1 \in 0..n - 1 /\ g[i] = f[i - 1] /\ g[i] # e
  <2>1. CASE i = k
    BY <1>2, <2>1
  <2>2. CASE i < k
    <3>1. i \in 0..n - 1 /\ g[i] = f[i]
      BY <1>2, <2>2
    <3> QED
      BY <1>1, <2>2, <3>1
  <2>3. CASE i > k
    <3>1. i - 1 \in 0..n - 1 /\ g[i] = f[i - 1]
      BY <1>2, <2>3
    <3> QED
      BY <1>1, <2>3, <3>1
  <2> QED
    BY <2>1, <2>2, <2>3
<1>8. ASSUME NEW i \in 0..n, NEW j \in 0..n, g[i] = g[j]
      PROVE  i = j
  <2>1. /\ i = k => g[i] = e
        /\ i < k => i \in 0..n - 1 /\ g[i] = f[i] /\ g[i] # e
        /\ i > k => i - 1 \in 0..n - 1 /\ g[i] = f[i - 1] /\ g[i] # e
    BY <1>7
  <2>2. /\ j = k => g[j] = e
        /\ j < k => j \in 0..n - 1 /\ g[j] = f[j] /\ g[j] # e
        /\ j > k => j - 1 \in 0..n - 1 /\ g[j] = f[j - 1] /\ g[j] # e
    BY <1>7
  <2>3. CASE i = k \/ j = k
    BY <1>8, <2>1, <2>2, <2>3
  <2>4. CASE i < k /\ j < k
    BY <1>1, <1>8, <2>1, <2>2, <2>4
  <2>5. CASE i > k /\ j > k
    <3>1. i - 1 = j - 1
      BY <1>1, <1>8, <2>1, <2>2, <2>5
    <3> QED
      BY <3>1
  <2>6. CASE i < k /\ j > k
    <3>1. i = j - 1
      BY <1>1, <1>8, <2>1, <2>2, <2>6
    <3> QED
      BY <2>6, <3>1
  <2>7. CASE i > k /\ j < k
    <3>1. j = i - 1
      BY <1>1, <1>8, <2>1, <2>2, <2>7
    <3> QED
      BY <2>7, <3>1
  <2> QED
    BY <2>3, <2>4, <2>5, <2>6, <2>7
<1>9. IsList(nx2, h2, n + 1, g)
  <2>1. (n + 1) - 1 = n
    OBVIOUS
  <2> QED
    BY <1>3, <1>4, <1>5, <1>6, <1>8, <2>1 DEF IsList
<1>10. ASSUME NEW p
       PROVE  p \in On(n + 1, g) <=> p \in On(n, f) \cup {e}
  <2>0. (n + 1) - 1 = n
    OBVIOUS
  <2>1. ASSUME p \in On(n + 1, g)
        PROVE  p \in On(n, f) \cup {e}
    <3>1. PICK i \in 0..n : p = g[i]
      BY <2>0, <2>1 DEF On
    <3>2. i < k \/ i = k \/ i > k
      OBVIOUS
    <3> QED
      BY <1>1, <1>7, <3>1, <3>2
  <2>2. ASSUME p \in On(n, f)
        PROVE  p \in On(n + 1, g)
    <3>1. PICK i \in 0..n - 1 : p = f[i]
      BY <2>2 DEF On
    <3>2. CASE i < k
      <4>1. i \in 0..n /\ g[i] = p
        BY <1>2, <3>1, <3>2
      <4> QED
        BY <2>0, <4>1 DEF On
    <3>3. CASE i >= k
      <4>0. i + 1 \in 0..n + 1 /\ i + 1 > k /\ (i + 1) - 1 = i /\ i + 1 \in 0..n
        BY <3>3
      <4>1. i + 1 \in 0..n /\ g[i + 1] = p
        <5> HIDE DEF LinksIn
        <5> QED
          BY <1>2, <3>1, <4>0
      <4> QED
        BY <2>0, <4>1 DEF On
    <3> QED
      BY <3>2, <3>3
  <2>3. e \in On(n + 1, g)
    BY <1>2, <2>0 DEF On
  <2> QED
    BY <2>1, <2>2, <2>3
<1> QED
  BY <1>9, <1>10 DEF g

\* f without its place k.
Without(f, n, k) == [i \in 0..n - 1 |-> IF i < k THEN f[i] ELSE f[i + 1]]

\* What unlinking the entry at place k does to the pointers and the head.
LinksOut(nx, h, n, f, k, e, nx2, h2) ==
  /\ k \in 0..n - 1 /\ e = f[k]
  /\ h2 = (IF k = 0 THEN f[1] ELSE h)
  /\ \A p \in On(n, f) : p # f[k] /\ (k = 0 \/ p # f[k - 1]) => nx2[p] = nx[p]
  /\ k > 0 => nx2[f[k - 1]] = f[k + 1]

LEMMA DropList ==
  ASSUME NEW nx, NEW h, NEW n \in Nat, NEW f, IsList(nx, h, n, f),
         NEW k, NEW e, NEW nx2, NEW h2, LinksOut(nx, h, n, f, k, e, nx2, h2)
  PROVE  /\ IsList(nx2, h2, n - 1, Without(f, n, k))
         /\ On(n - 1, Without(f, n, k)) = On(n, f) \ {e}
<1> USE DEF LinksOut
<1> DEFINE g == Without(f, n, k)
<1>1. /\ n - 1 \in Nat /\ f \in [0..n -> Entries \cup {NULL}] /\ f[0] = h /\ f[n] = NULL
      /\ \A i \in 0..n - 1 : f[i] \in Entries /\ nx[f[i]] = f[i + 1] /\ f[i] \in On(n, f)
      /\ \A i, j \in 0..n - 1 : f[i] = f[j] => i = j
  BY DEF IsList, On
<1>2. /\ DOMAIN g = 0..n - 1
      /\ \A i \in 0..n - 1 : i < k => g[i] = f[i]
      /\ \A i \in 0..n - 1 : i >= k => g[i] = f[i + 1]
      /\ g = [i \in 0..n - 1 |-> g[i]]
  BY DEF Without
<1> HIDE DEF g
<1>3. g[0] = h2
  <2>1. CASE k = 0
    <3>1. g[0] = f[0 + 1]
      BY <1>1, <1>2, <2>1
    <3> QED
      BY <2>1, <3>1
  <2>2. CASE k # 0
    BY <1>1, <1>2, <2>2
  <2> QED
    BY <2>1, <2>2
<1>4. g[n - 1] = NULL
  BY <1>1, <1>2
<1>5. g \in [0..n - 1 -> Entries \cup {NULL}]
  <2>1. \A i \in 0..n - 1 : i \in 0..n /\ i + 1 \in 0..n
    BY <1>1
  <2>2. k \in Int /\ \A i \in 0..n : f[i] \in Entries \cup {NULL}
    BY <1>1
  <2>3. \A i \in 0..n - 1 : g[i] \in Entries \cup {NULL}
    <3> HIDE DEF LinksOut
    <3> QED
      BY <1>2, <2>1, <2>2
  <2> QED
    BY <1>2, <2>3
<1>6. ASSUME NEW i \in 0..n - 2
      PROVE  /\ i < k => i \in 0..n - 1 /\ g[i] = f[i]
             /\ i >= k => i + 1 \in 0..n - 1 /\ g[i] = f[i + 1]
  BY <1>1, <1>2
<1>7. ASSUME NEW i \in 0..n - 2
      PROVE  g[i] \in Entries /\ nx2[g[i]] = g[i + 1] /\ g[i] # f[k]
  <2>1. CASE i + 1 < k
    <3>1. g[i] = f[i] /\ g[i + 1] = f[i + 1] /\ i \in 0..n - 1 /\ k - 1 \in 0..n - 1
          /\ i # k - 1 /\ i # k /\ k \in 0..n - 1
      BY <1>1, <1>2, <2>1
    <3>2. f[i] # f[k - 1] /\ f[i] # f[k] /\ f[i] \in On(n, f) /\ nx[f[i]] = f[i + 1]
          /\ f[i] \in Entries
      BY <1>1, <3>1
    <3> QED
      BY <3>1, <3>2
  <2>2. CASE i + 1 = k
    <3>1. g[i] = f[k - 1] /\ g[i + 1] = f[k + 1] /\ k > 0 /\ k - 1 \in 0..n - 1 /\ k - 1 # k
      BY <1>1, <1>2, <2>2
    <3>2. f[k - 1] # f[k] /\ f[k - 1] \in Entries
      BY <1>1, <3>1
    <3> QED
      BY <3>1, <3>2
  <2>3. CASE i >= k
    <3>1. g[i] = f[i + 1] /\ g[i + 1] = f[i + 2] /\ i + 1 \in 0..n - 1 /\ (i + 1) + 1 = i + 2
          /\ i + 1 # k /\ i + 1 # k - 1 /\ (k > 0 => k - 1 \in 0..n - 1)
      BY <1>1, <1>2, <2>3
    <3>2. f[i + 1] \in On(n, f) /\ nx[f[i + 1]] = f[i + 2] /\ f[i + 1] \in Entries
          /\ f[i + 1] # f[k]
      BY <1>1, <3>1
    <3>3. k = 0 \/ f[i + 1] # f[k - 1]
      BY <1>1, <3>1
    <3> QED
      BY <3>1, <3>2, <3>3
  <2> QED
    BY <2>1, <2>2, <2>3
<1>8. ASSUME NEW i \in 0..n - 2, NEW j \in 0..n - 2, g[i] = g[j]
      PROVE  i = j
  <2>1. /\ i < k => i \in 0..n - 1 /\ g[i] = f[i]
        /\ i >= k => i + 1 \in 0..n - 1 /\ g[i] = f[i + 1]
    BY <1>6
  <2>2. /\ j < k => j \in 0..n - 1 /\ g[j] = f[j]
        /\ j >= k => j + 1 \in 0..n - 1 /\ g[j] = f[j + 1]
    BY <1>6
  <2>3. CASE i < k /\ j < k
    BY <1>1, <1>8, <2>1, <2>2, <2>3
  <2>4. CASE i >= k /\ j >= k
    <3>1. i + 1 = j + 1
      BY <1>1, <1>8, <2>1, <2>2, <2>4
    <3> QED
      BY <3>1
  <2>5. CASE i < k /\ j >= k
    <3>1. i = j + 1
      BY <1>1, <1>8, <2>1, <2>2, <2>5
    <3> QED
      BY <2>5, <3>1
  <2>6. CASE i >= k /\ j < k
    <3>1. j = i + 1
      BY <1>1, <1>8, <2>1, <2>2, <2>6
    <3> QED
      BY <2>6, <3>1
  <2> QED
    BY <2>3, <2>4, <2>5, <2>6
<1>9. IsList(nx2, h2, n - 1, g)
  <2>1. (n - 1) - 1 = n - 2
    OBVIOUS
  <2> QED
    BY <1>3, <1>4, <1>5, <1>7, <1>8, <2>1 DEF IsList
<1>10. ASSUME NEW p
       PROVE  p \in On(n - 1, g) <=> p \in On(n, f) \ {f[k]}
  <2>0. (n - 1) - 1 = n - 2
    OBVIOUS
  <2>1. ASSUME p \in On(n - 1, g)
        PROVE  p \in On(n, f) \ {f[k]}
    <3>1. PICK i \in 0..n - 2 : p = g[i]
      BY <2>0, <2>1 DEF On
    <3>2. p # f[k] /\ (i < k \/ i >= k)
      BY <1>7, <3>1
    <3> QED
      BY <1>1, <1>6, <3>1, <3>2
  <2>2. ASSUME p \in On(n, f), p # f[k]
        PROVE  p \in On(n - 1, g)
    <3>1. PICK i \in 0..n - 1 : p = f[i]
      BY <2>2 DEF On
    <3>2. i # k
      BY <2>2, <3>1
    <3>3. CASE i < k
      <4>1. i \in 0..n - 2 /\ g[i] = p
        BY <1>1, <1>2, <3>1, <3>3
      <4> QED
        BY <2>0, <4>1 DEF On
    <3>4. CASE i > k
      <4>1. i - 1 \in 0..n - 2 /\ i - 1 >= k /\ i - 1 \in 0..n - 1 /\ (i - 1) + 1 = i
        BY <1>1, <3>1, <3>4
      <4>2. g[i - 1] = p
        BY <1>2, <3>1, <4>1
      <4> QED
        BY <2>0, <4>1, <4>2 DEF On
    <3> QED
      BY <3>2, <3>3, <3>4
  <2> QED
    BY <2>1, <2>2
<1> QED
  BY <1>9, <1>10 DEF g

\* A new head.
LEMMA PushList ==
  ASSUME NEW nx, NEW h, NEW n \in Nat, NEW f, IsList(nx, h, n, f),
         NEW e, NEW nx2, LinksIn(nx, h, n, f, 0, e, nx2, e)
  PROVE  /\ IsList(nx2, e, n + 1, Put(f, n, 0, e))
         /\ On(n + 1, Put(f, n, 0, e)) = On(n, f) \cup {e}
<1> DEFINE k == 0
<1>1. LinksIn(nx, h, n, f, k, e, nx2, e)
  OBVIOUS
<1> HIDE DEF k
<1>2. /\ IsList(nx2, e, n + 1, Put(f, n, k, e))
      /\ On(n + 1, Put(f, n, k, e)) = On(n, f) \cup {e}
  BY <1>1, PutList
<1> QED
  BY <1>2 DEF k

\* The list behind its head.
LEMMA PopList ==
  ASSUME NEW nx, NEW h, NEW n \in Nat, NEW f, IsList(nx, h, n, f), h # NULL
  PROVE  /\ IsList(nx, nx[h], n - 1, Without(f, n, 0))
         /\ On(n - 1, Without(f, n, 0)) = On(n, f) \ {h}
<1> DEFINE k == 0
<1>1. n > 0
  BY ListEnds
<1>2. f[0] = h /\ nx[h] = f[1]
  BY <1>1, ListHead
<1>3. LinksOut(nx, h, n, f, k, h, nx, nx[h])
  BY <1>1, <1>2 DEF LinksOut
<1> HIDE DEF k
<1>4. /\ IsList(nx, nx[h], n - 1, Without(f, n, k))
      /\ On(n - 1, Without(f, n, k)) = On(n, f) \ {h}
  BY <1>3, DropList
<1> QED
  BY <1>3, <1>4 DEF k

-----------------------------------------------------------------------------
(* The pool: the queue, the free list, and the entry whose handler runs.   *)

Pooled(nx, hq, hf, held, n, f, m, g) ==
  /\ n \in Nat /\ IsList(nx, hq, n, f) /\ m \in Nat /\ IsList(nx, hf, m, g)
  /\ On(n, f) \cap On(m, g) = {}
  /\ held \in Entries \cup {NULL} /\ held \notin On(n, f) /\ held \notin On(m, g)
  /\ On(n, f) \cup On(m, g) \cup ({held} \ {NULL}) = Entries

\* What AddEntry does to the pointers and the head.
AddsEntry(nx, hq, hf, n, f, k, nx2, h2) ==
  /\ k \in 0..n
  /\ h2 = (IF k = 0 THEN hf ELSE hq)
  /\ \A p \in Entries \ {hf} : (k = 0 \/ p # f[k - 1]) => nx2[p] = nx[p]
  /\ k > 0 => nx2[f[k - 1]] = hf
  /\ nx2[hf] = f[k]

\* A free entry is linked in at place k.
LEMMA AddPool ==
  ASSUME NEW nx, NEW hq, NEW hf, NEW held, NEW n, NEW f, NEW m, NEW g,
         Pooled(nx, hq, hf, held, n, f, m, g), hf # NULL,
         NEW k, NEW nx2, NEW h2, AddsEntry(nx, hq, hf, n, f, k, nx2, h2)
  PROVE  /\ Pooled(nx2, h2, nx[hf], held, n + 1, Put(f, n, k, hf), m - 1, Without(g, m, 0))
         /\ On(n + 1, Put(f, n, k, hf)) = On(n, f) \cup {hf}
         /\ hf \notin On(n, f) /\ hf # held /\ hf \in Entries
<1> DEFINE f2 == Put(f, n, k, hf)
           g2 == Without(g, m, 0)
<1>0. /\ n \in Nat /\ IsList(nx, hq, n, f) /\ m \in Nat /\ IsList(nx, hf, m, g)
      /\ On(n, f) \cap On(m, g) = {}
      /\ held \in Entries \cup {NULL} /\ held \notin On(n, f) /\ held \notin On(m, g)
      /\ On(n, f) \cup On(m, g) \cup ({held} \ {NULL}) = Entries
  BY DEF Pooled
<1>1. On(n, f) \subseteq Entries /\ On(m, g) \subseteq Entries
  BY <1>0
<1>2. m > 0 /\ hf \in On(m, g) /\ hf \in Entries
  BY <1>0, ListEnds
<1>3. hf \notin On(n, f) /\ hf # held
  BY <1>0, <1>2
<1>4. IsList(nx2, h2, n + 1, f2) /\ On(n + 1, f2) = On(n, f) \cup {hf}
  <2>1. LinksIn(nx, hq, n, f, k, hf, nx2, h2)
    BY <1>1, <1>2, <1>3 DEF LinksIn, AddsEntry
  <2> QED
    BY <1>0, <2>1, PutList
<1>5. IsList(nx, nx[hf], m - 1, g2) /\ On(m - 1, g2) = On(m, g) \ {hf}
  BY <1>0, PopList
<1>6. n + 1 \in Nat /\ m - 1 \in Nat
  BY <1>0, <1>2
<1> HIDE DEF f2, g2
<1>7. IsList(nx2, nx[hf], m - 1, g2)
  <2>1. k > 0 => f[k - 1] \in On(n, f)
    <3>1. k > 0 => k - 1 \in 0..n - 1
      BY <1>0 DEF AddsEntry
    <3> QED
      BY <3>1 DEF On
  <2>2. \A p \in On(m - 1, g2) : nx2[p] = nx[p]
    BY <1>0, <1>1, <1>5, <2>1 DEF AddsEntry
  <2> QED
    BY <1>5, <1>6, <2>2, KeepList
<1>8. Pooled(nx2, h2, nx[hf], held, n + 1, f2, m - 1, g2)
  <2>1. On(n + 1, f2) \cap On(m - 1, g2) = {}
    BY <1>0, <1>4, <1>5
  <2>2. held \notin On(n + 1, f2) /\ held \notin On(m - 1, g2)
    BY <1>0, <1>3, <1>4, <1>5
  <2>3. On(n + 1, f2) \cup On(m - 1, g2) \cup ({held} \ {NULL}) = Entries
    BY <1>0, <1>2, <1>4, <1>5
  <2> QED
    BY <1>0, <1>4, <1>6, <1>7, <2>1, <2>2, <2>3 DEF Pooled
<1> QED
  BY <1>2, <1>3, <1>4, <1>8 DEF f2, g2

\* The first entry leaves the queue and is held.
LEMMA StartPool ==
  ASSUME NEW nx, NEW hq, NEW hf, NEW n, NEW f, NEW m, NEW g,
         Pooled(nx, hq, hf, NULL, n, f, m, g), hq # NULL
  PROVE  /\ Pooled(nx, nx[hq], hf, hq, n - 1, Without(f, n, 0), m, g)
         /\ On(n - 1, Without(f, n, 0)) = On(n, f) \ {hq}
         /\ hq \in On(n, f) /\ hq = f[0] /\ n > 0 /\ hq \in Entries
<1> DEFINE f2 == Without(f, n, 0)
<1>0. /\ n \in Nat /\ IsList(nx, hq, n, f) /\ m \in Nat /\ IsList(nx, hf, m, g)
      /\ On(n, f) \cap On(m, g) = {}
      /\ On(n, f) \cup On(m, g) \cup ({NULL} \ {NULL}) = Entries
  BY DEF Pooled
<1>1. n > 0 /\ hq \in On(n, f) /\ hq \in Entries /\ hq = f[0]
  <2>1. n > 0 /\ hq \in On(n, f) /\ hq \in Entries
    BY <1>0, ListEnds
  <2>2. f[0] = hq
    BY <1>0 DEF IsList
  <2> QED
    BY <2>1, <2>2
<1>2. IsList(nx, nx[hq], n - 1, f2) /\ On(n - 1, f2) = On(n, f) \ {hq}
  BY <1>0, PopList
<1> HIDE DEF f2
<1>3. Pooled(nx, nx[hq], hf, hq, n - 1, f2, m, g)
  <2>1. n - 1 \in Nat /\ hq # NULL
    BY <1>0, <1>1
  <2>2. On(n - 1, f2) \cap On(m, g) = {}
    BY <1>0, <1>2
  <2>3. hq \notin On(n - 1, f2) /\ hq \notin On(m, g)
    BY <1>0, <1>1, <1>2
  <2>4. On(n - 1, f2) \cup On(m, g) \cup ({hq} \ {NULL}) = Entries
    BY <1>0, <1>1, <1>2, <2>1
  <2> QED
    BY <1>0, <1>1, <1>2, <2>1, <2>2, <2>3, <2>4 DEF Pooled
<1> QED
  BY <1>1, <1>2, <1>3 DEF f2

\* The held entry is free again.
LEMMA FinishPool ==
  ASSUME NEW nx \in [Entries -> Entries \cup {NULL}], NEW hq, NEW hf, NEW held \in Entries,
         NEW n, NEW f, NEW m, NEW g, Pooled(nx, hq, hf, held, n, f, m, g),
         NEW nx2, nx2 = [nx EXCEPT ![held] = hf]
  PROVE  /\ Pooled(nx2, hq, held, NULL, n, f, m + 1, Put(g, m, 0, held))
         /\ hf \in Entries \cup {NULL}
<1> DEFINE g2 == Put(g, m, 0, held)
<1>0. /\ n \in Nat /\ IsList(nx, hq, n, f) /\ m \in Nat /\ IsList(nx, hf, m, g)
      /\ On(n, f) \cap On(m, g) = {}
      /\ held \notin On(n, f) /\ held \notin On(m, g)
      /\ On(n, f) \cup On(m, g) \cup ({held} \ {NULL}) = Entries
  BY DEF Pooled
<1>1. On(n, f) \subseteq Entries /\ On(m, g) \subseteq Entries /\ NULL \notin Entries
  BY <1>0, EntriesAre
<1>2. nx2[held] = hf /\ \A p \in Entries \ {held} : nx2[p] = nx[p]
  OBVIOUS
<1>3. g[0] = hf /\ hf \in Entries \cup {NULL} /\ 0 \in 0..m
  BY <1>0 DEF IsList
<1>4. IsList(nx2, held, m + 1, g2) /\ On(m + 1, g2) = On(m, g) \cup {held}
  <2>1. \A p \in On(m, g) : nx2[p] = nx[p]
    BY <1>0, <1>1, <1>2
  <2>2. LinksIn(nx, hf, m, g, 0, held, nx2, held)
    BY <1>0, <1>2, <1>3, <2>1 DEF LinksIn
  <2> QED
    BY <1>0, <2>2, PushList
<1>5. IsList(nx2, hq, n, f)
  <2>1. \A p \in On(n, f) : nx2[p] = nx[p]
    BY <1>0, <1>1, <1>2
  <2> QED
    BY <1>0, <2>1, KeepList
<1> HIDE DEF g2
<1>6. Pooled(nx2, hq, held, NULL, n, f, m + 1, g2)
  <2>1. m + 1 \in Nat
    BY <1>0
  <2>2. On(n, f) \cap On(m + 1, g2) = {}
    BY <1>0, <1>4
  <2>3. NULL \notin On(n, f) /\ NULL \notin On(m + 1, g2)
    BY <1>1, <1>4
  <2>4. On(n, f) \cup On(m + 1, g2) \cup ({NULL} \ {NULL}) = Entries
    BY <1>0, <1>1, <1>4
  <2> QED
    BY <1>0, <1>4, <1>5, <2>1, <2>2, <2>3, <2>4 DEF Pooled
<1> QED
  BY <1>3, <1>6 DEF g2

\* At first all entries are free.
LEMMA InitPool ==
  ASSUME NEW nx, nx = [e \in Entries |-> IF e = PIC_QUEUESIZE THEN NULL ELSE e + 1],
         NEW f, f = [i \in 0..0 |-> NULL],
         NEW g, g = [i \in 0..PIC_QUEUESIZE |-> IF i = PIC_QUEUESIZE THEN NULL ELSE i + 1]
  PROVE  Pooled(nx, NULL, 1, NULL, 0, f, PIC_QUEUESIZE, g)
<1> DEFINE N == PIC_QUEUESIZE
<1>1. N \in Nat \ {0} /\ Entries = 1..N /\ NULL = 0
  BY EntriesAre DEF Entries, NULL
<1>2. IsList(nx, NULL, 0, f) /\ On(0, f) = {}
  BY EmptyList
<1>3. IsList(nx, 1, N, g)
  BY <1>1 DEF IsList
<1>4. On(N, g) = Entries
  <2>1. ASSUME NEW p
        PROVE  p \in On(N, g) <=> p \in Entries
    <3>1. ASSUME p \in On(N, g)
          PROVE  p \in Entries
      BY <1>1, <3>1 DEF On
    <3>2. ASSUME p \in Entries
          PROVE  p \in On(N, g)
      <4>1. p - 1 \in 0..N - 1 /\ g[p - 1] = p
        BY <1>1, <3>2
      <4> QED
        BY <4>1 DEF On
    <3> QED
      BY <3>1, <3>2
  <2> QED
    BY <2>1
<1>5. NULL \notin Entries
  BY EntriesAre
<1> QED
  BY <1>1, <1>2, <1>3, <1>4, <1>5 DEF Pooled

\* What unlinking the entry at place k and freeing it does.
DropsEntry(nx, hq, hf, n, f, k, e, nx2, h2) ==
  /\ k \in 0..n - 1 /\ e = f[k]
  /\ h2 = (IF k = 0 THEN nx[e] ELSE hq)
  /\ \A p \in Entries \ {e} : (k = 0 \/ p # f[k - 1]) => nx2[p] = nx[p]
  /\ k > 0 => nx2[f[k - 1]] = nx[e]
  /\ nx2[e] = hf

\* An entry leaves the queue for the free list.
LEMMA DropPool ==
  ASSUME NEW nx, NEW hq, NEW hf, NEW held, NEW n, NEW f, NEW m, NEW g,
         Pooled(nx, hq, hf, held, n, f, m, g),
         NEW k, NEW e, NEW nx2, NEW h2, DropsEntry(nx, hq, hf, n, f, k, e, nx2, h2)
  PROVE  /\ Pooled(nx2, h2, e, held, n - 1, Without(f, n, k), m + 1, Put(g, m, 0, e))
         /\ On(n - 1, Without(f, n, k)) = On(n, f) \ {e}
<1> DEFINE f2 == Without(f, n, k)
           g2 == Put(g, m, 0, e)
<1>0. /\ n \in Nat /\ IsList(nx, hq, n, f) /\ m \in Nat /\ IsList(nx, hf, m, g)
      /\ On(n, f) \cap On(m, g) = {}
      /\ held \in Entries \cup {NULL} /\ held \notin On(n, f) /\ held \notin On(m, g)
      /\ On(n, f) \cup On(m, g) \cup ({held} \ {NULL}) = Entries
  BY DEF Pooled
<1>1. On(n, f) \subseteq Entries /\ On(m, g) \subseteq Entries
  BY <1>0
<1>2. /\ k \in 0..n - 1
      /\ e \in Entries /\ e \in On(n, f) /\ nx[e] = f[k + 1]
      /\ k > 0 => k - 1 \in 0..n - 1 /\ f[k - 1] # e /\ f[k - 1] \in On(n, f)
  <2>1. k \in 0..n - 1 /\ (k > 0 => k - 1 \in 0..n - 1 /\ k - 1 # k)
    BY <1>0 DEF DropsEntry
  <2>2. e \in On(n, f) /\ (k > 0 => f[k - 1] \in On(n, f))
    BY <2>1 DEF On, DropsEntry
  <2>3. e \in Entries /\ nx[e] = f[k + 1] /\ (k > 0 => f[k - 1] # e)
    BY <1>0, <2>1 DEF IsList, DropsEntry
  <2> QED
    BY <2>1, <2>2, <2>3
<1>3. IsList(nx2, h2, n - 1, f2) /\ On(n - 1, f2) = On(n, f) \ {e}
  <2>1. /\ e = f[k] /\ h2 = (IF k = 0 THEN nx[e] ELSE hq)
        /\ \A p \in Entries \ {e} : (k = 0 \/ p # f[k - 1]) => nx2[p] = nx[p]
        /\ k > 0 => nx2[f[k - 1]] = nx[e]
    BY DEF DropsEntry
  <2>2. LinksOut(nx, hq, n, f, k, e, nx2, h2)
    BY <1>1, <1>2, <2>1 DEF LinksOut
  <2> QED
    BY <1>0, <2>2, DropList
<1>4. /\ nx2[e] = hf
      /\ \A p \in On(m, g) : nx2[p] = nx[p]
      /\ e \notin On(m, g)
  BY <1>0, <1>1, <1>2 DEF DropsEntry
<1>5. IsList(nx2, e, m + 1, g2) /\ On(m + 1, g2) = On(m, g) \cup {e}
  <2>1. g[0] = hf /\ 0 \in 0..m
    BY <1>0 DEF IsList
  <2>2. LinksIn(nx, hf, m, g, 0, e, nx2, e)
    BY <1>2, <1>4, <2>1 DEF LinksIn
  <2> QED
    BY <1>0, <2>2, PushList
<1> HIDE DEF f2, g2
<1>6. Pooled(nx2, h2, e, held, n - 1, f2, m + 1, g2)
  <2>1. n - 1 \in Nat /\ m + 1 \in Nat
    BY <1>0, <1>2
  <2>2. On(n - 1, f2) \cap On(m + 1, g2) = {}
    BY <1>0, <1>3, <1>5
  <2>3. held \notin On(n - 1, f2) /\ held \notin On(m + 1, g2)
    BY <1>0, <1>2, <1>3, <1>5
  <2>4. On(n - 1, f2) \cup On(m + 1, g2) \cup ({held} \ {NULL}) = Entries
    BY <1>0, <1>2, <1>3, <1>5
  <2> QED
    BY <1>0, <1>3, <1>5, <2>1, <2>2, <2>3, <2>4 DEF Pooled
<1> QED
  BY <1>3, <1>6 DEF f2, g2

-----------------------------------------------------------------------------
(* The walk of RemoveEvents.                                               *)

\* after gives the pointers after each of the first n entries of s.
Passes(q, s, E, n, after) ==
  after = [k \in 0..n |-> IF k = 0 THEN q ELSE Passed(after[k - 1], s[k], E)]

LEMMA PassesExist ==
  ASSUME NEW q, NEW s, NEW E, NEW n \in Nat
  PROVE  \E after : Passes(q, s, E, n, after)
<1> DEFINE S == {k \in 0..n : \E f : Passes(q, s, E, k, f)}
<1>1. 0 \in S
  <2> DEFINE f == [k \in 0..0 |-> q]
  <2>1. Passes(q, s, E, 0, f)
    BY DEF Passes
  <2> QED
    BY <2>1
<1>2. ASSUME NEW x \in 1..n, x - 1 \in S
      PROVE  x \in S
  <2>1. PICK f : Passes(q, s, E, x - 1, f)
    BY <1>2
  <2>2. f = [k \in 0..x - 1 |-> IF k = 0 THEN q ELSE Passed(f[k - 1], s[k], E)]
    BY <2>1 DEF Passes
  <2> DEFINE g == [k \in 0..x |-> IF k = 0 THEN q ELSE Passed(f[k - 1], s[k], E)]
  <2>3. ASSUME NEW k \in 0..x - 1
        PROVE  g[k] = f[k]
    <3>1. f[k] = IF k = 0 THEN q ELSE Passed(f[k - 1], s[k], E)
      BY <2>2
    <3>2. k \in 0..x
      BY <1>2
    <3> QED
      BY <3>1, <3>2
  <2>4. ASSUME NEW k \in 0..x
        PROVE  g[k] = IF k = 0 THEN q ELSE Passed(g[k - 1], s[k], E)
    <3>1. k # 0 => k - 1 \in 0..x - 1
      BY <1>2
    <3>2. k # 0 => g[k - 1] = f[k - 1]
      BY <2>3, <3>1
    <3> QED
      BY <3>2
  <2>5. g = [k \in 0..x |-> g[k]]
    OBVIOUS
  <2> HIDE DEF g
  <2>6. Passes(q, s, E, x, g)
    BY <2>4, <2>5, Zenon DEF Passes
  <2> QED
    BY <1>2, <2>6
<1> HIDE DEF S
<1>3. \A k \in 0..n : k \in S
  BY <1>1, <1>2, AllUpTo
<1> QED
  BY <1>3 DEF S

Start0 == [next |-> next, first |-> next_entry, free |-> free_entry, prev |-> NULL]

LEMMA WalkIs ==
  ASSUME NEW E, NEW n \in Nat, Len(Queue) = n
  PROVE  /\ Walk(E)[0] = Start0
         /\ \A k \in 1..n : Walk(E)[k] = Passed(Walk(E)[k - 1], Queue[k], E)
<1> DEFINE P(at) == at = [k \in 0..Len(Queue) |->
                            IF k = 0 THEN Start0 ELSE Passed(at[k - 1], Queue[k], E)]
<1>1. Walk(E) = CHOOSE at : P(at)
  BY Zenon DEF Walk, Start0
<1>2. \E f : P(f)
  <2>1. PICK f : Passes(Start0, Queue, E, n, f)
    BY PassesExist
  <2>2. P(f)
    BY <2>1, Zenon DEF Passes
  <2> QED
    BY <2>2
<1> HIDE DEF P
<1>3. P(Walk(E))
  BY <1>1, <1>2, Zenon
<1>4. Walk(E) = [k \in 0..n |-> IF k = 0 THEN Start0 ELSE Passed(Walk(E)[k - 1], Queue[k], E)]
  BY <1>3 DEF P
<1>5. \A k \in 0..n : Walk(E)[k] = IF k = 0 THEN Start0 ELSE Passed(Walk(E)[k - 1], Queue[k], E)
  BY <1>4
<1>6. 0 \in 0..n /\ \A k \in 1..n : k \in 0..n /\ k # 0
  OBVIOUS
<1> QED
  BY <1>5, <1>6

\* u is what stays of f when some of its first k places are dropped: place
\* says where each of its places was, and j of them were among the first k.
Thinned(n, f, k, len, u, place, j) ==
  /\ n \in Nat /\ k \in 0..n /\ len \in Nat /\ j \in 0..len /\ len - j = n - k
  /\ place \in [0..len - 1 -> 0..n - 1]
  /\ \A i \in 0..len - 1 : u[i] = f[place[i]]
  /\ \A i \in 0..j - 1 : place[i] < k
  /\ \A i \in j..len - 1 : place[i] = k + (i - j)
  /\ \A a, b \in 0..len - 1 : a < b => place[a] < place[b]

LEMMA ThinStart ==
  ASSUME NEW n \in Nat, NEW f, NEW place, place = [i \in 0..n - 1 |-> i]
  PROVE  Thinned(n, f, 0, n, f, place, 0)
BY DEF Thinned

LEMMA ThinKeep ==
  ASSUME NEW n, NEW f, NEW k, NEW len, NEW u, NEW place, NEW j,
         Thinned(n, f, k, len, u, place, j), k < n
  PROVE  Thinned(n, f, k + 1, len, u, place, j + 1)
<1>1. /\ n \in Nat /\ k \in 0..n /\ len \in Nat /\ j \in 0..len /\ len - j = n - k
      /\ place \in [0..len - 1 -> 0..n - 1]
      /\ \A i \in 0..len - 1 : u[i] = f[place[i]]
      /\ \A i \in 0..j - 1 : place[i] < k
      /\ \A i \in j..len - 1 : place[i] = k + (i - j)
      /\ \A a, b \in 0..len - 1 : a < b => place[a] < place[b]
  BY DEF Thinned
<1>2. k + 1 \in 0..n /\ j + 1 \in 0..len /\ len - (j + 1) = n - (k + 1)
  BY <1>1
<1>3. ASSUME NEW i \in 0..(j + 1) - 1
      PROVE  place[i] < k + 1
  <2>1. CASE i = j
    <3>1. j \in j..len - 1
      BY <1>1
    <3>2. place[j] = k + (j - j)
      BY <1>1, <3>1
    <3> QED
      BY <1>1, <2>1, <3>2
  <2>2. CASE i # j
    <3>1. i \in 0..j - 1 /\ i \in 0..len - 1
      BY <1>1, <2>2
    <3> QED
      BY <1>1, <3>1
  <2> QED
    BY <2>1, <2>2
<1>4. \A i \in j + 1..len - 1 : place[i] = (k + 1) + (i - (j + 1))
  <2>1. \A i \in j + 1..len - 1 : i \in j..len - 1
    BY <1>1
  <2> QED
    BY <1>1, <2>1
<1> QED
  BY <1>1, <1>2, <1>3, <1>4 DEF Thinned

LEMMA ThinDrop ==
  ASSUME NEW n, NEW f, NEW k, NEW len, NEW u, NEW place, NEW j,
         Thinned(n, f, k, len, u, place, j), k < n
  PROVE  \E place2 : Thinned(n, f, k + 1, len - 1, Without(u, len, j), place2, j)
<1> DEFINE p2 == [i \in 0..len - 2 |-> IF i < j THEN place[i] ELSE place[i + 1]]
           v == Without(u, len, j)
<1>1. /\ n \in Nat /\ k \in 0..n /\ len \in Nat /\ j \in 0..len /\ len - j = n - k
      /\ place \in [0..len - 1 -> 0..n - 1]
      /\ \A i \in 0..len - 1 : u[i] = f[place[i]]
      /\ \A i \in 0..j - 1 : place[i] < k
      /\ \A i \in j..len - 1 : place[i] = k + (i - j)
      /\ \A a, b \in 0..len - 1 : a < b => place[a] < place[b]
  BY DEF Thinned
<1>2. /\ k + 1 \in 0..n /\ len - 1 \in Nat /\ j \in 0..len - 1 /\ (len - 1) - j = n - (k + 1)
      /\ (len - 1) - 1 = len - 2
  BY <1>1
<1>3. ASSUME NEW i \in 0..len - 2
      PROVE  /\ i < j => i \in 0..len - 1 /\ i \in 0..j - 1 /\ p2[i] = place[i] /\ v[i] = u[i]
             /\ i >= j => i + 1 \in 0..len - 1 /\ i + 1 \in j..len - 1 /\ p2[i] = place[i + 1] /\ v[i] = u[i + 1]
             /\ p2[i] \in 0..n - 1
  <2>1. i \in 0..len - 1 /\ i + 1 \in 0..len - 1
    BY <1>1
  <2>2. /\ p2[i] = IF i < j THEN place[i] ELSE place[i + 1]
        /\ v[i] = IF i < j THEN u[i] ELSE u[i + 1]
    BY <2>1 DEF Without
  <2>3. i < j => i \in 0..j - 1
    BY <1>1
  <2>4. i >= j => i + 1 \in j..len - 1
    BY <1>1
  <2>5. place[i] \in 0..n - 1 /\ place[i + 1] \in 0..n - 1
    BY <1>1, <2>1
  <2>6. CASE i < j
    BY <1>1, <2>1, <2>2, <2>3, <2>5, <2>6
  <2>7. CASE ~(i < j)
    BY <1>1, <2>1, <2>2, <2>4, <2>5, <2>7
  <2> QED
    BY <2>6, <2>7
<1>4. p2 = [i \in 0..len - 2 |-> p2[i]]
  OBVIOUS
<1> HIDE DEF p2, v
<1>5. p2 \in [0..(len - 1) - 1 -> 0..n - 1]
  <2>1. \A i \in 0..len - 2 : p2[i] \in 0..n - 1
    BY <1>3
  <2>2. p2 \in [0..len - 2 -> 0..n - 1]
    BY <1>4, <2>1
  <2> QED
    BY <1>2, <2>2
<1>6. ASSUME NEW i \in 0..len - 2
      PROVE  v[i] = f[p2[i]]
  <2>1. i < j \/ i >= j
    BY <1>1
  <2>2. CASE i < j
    <3>1. i \in 0..len - 1 /\ p2[i] = place[i] /\ v[i] = u[i]
      BY <1>3, <2>2
    <3> QED
      BY <1>1, <3>1
  <2>3. CASE i >= j
    <3>1. i + 1 \in 0..len - 1 /\ p2[i] = place[i + 1] /\ v[i] = u[i + 1]
      BY <1>3, <2>3
    <3> QED
      BY <1>1, <3>1
  <2> QED
    BY <2>1, <2>2, <2>3
<1>7. ASSUME NEW i \in 0..j - 1
      PROVE  p2[i] < k + 1
  <2>1. i \in 0..len - 2 /\ i < j
    BY <1>2
  <2>2. p2[i] = place[i] /\ place[i] < k /\ i \in 0..len - 1
    BY <1>1, <1>3, <2>1
  <2>3. place[i] \in Int
    BY <1>1, <2>2
  <2> QED
    BY <1>1, <2>2, <2>3
<1>8. ASSUME NEW i \in j..len - 2
      PROVE  p2[i] = (k + 1) + (i - j)
  <2>1. i \in 0..len - 2 /\ i >= j
    BY <1>2
  <2>2. p2[i] = place[i + 1] /\ i + 1 \in j..len - 1
    BY <1>3, <2>1
  <2>3. place[i + 1] = k + ((i + 1) - j)
    BY <1>1, <2>2
  <2> QED
    BY <1>1, <2>2, <2>3
<1>9. ASSUME NEW a \in 0..len - 2, NEW b \in 0..len - 2, a < b
      PROVE  p2[a] < p2[b]
  <2>1. /\ a < j => a \in 0..len - 1 /\ p2[a] = place[a]
        /\ a >= j => a + 1 \in 0..len - 1 /\ p2[a] = place[a + 1]
    BY <1>3
  <2>2. /\ b < j => b \in 0..len - 1 /\ p2[b] = place[b]
        /\ b >= j => b + 1 \in 0..len - 1 /\ p2[b] = place[b + 1]
    BY <1>3
  <2>3. CASE b < j
    <3>1. a < j
      BY <1>1, <1>9, <2>3
    <3> QED
      BY <1>1, <1>9, <2>1, <2>2, <2>3, <3>1
  <2>4. CASE b >= j /\ a < j
    <3>1. a < b + 1
      BY <1>9
    <3> QED
      BY <1>1, <2>1, <2>2, <2>4, <3>1
  <2>5. CASE a >= j
    <3>1. b >= j /\ a + 1 < b + 1
      BY <1>1, <1>9, <2>5
    <3> QED
      BY <1>1, <2>1, <2>2, <2>5, <3>1
  <2>6. a < j \/ a >= j
    BY <1>1
  <2>7. b < j \/ b >= j
    BY <1>1
  <2> QED
    BY <2>3, <2>4, <2>5, <2>6, <2>7
<1>10. Thinned(n, f, k + 1, len - 1, v, p2, j)
  BY <1>1, <1>2, <1>5, <1>6, <1>7, <1>8, <1>9 DEF Thinned
<1> QED
  BY <1>10 DEF v

\* The state of the walk after k entries of the queue, of n entries f.
Pointers(q) == q = [next |-> q.next, first |-> q.first, free |-> q.free, prev |-> q.prev]

Removed(E, f, k) == {p \in On(k, f) : content[p].event \in E}

WalkAt(q, E, n, f, k, len, u, place, j) ==
  /\ Pointers(q) /\ q.next \in [Entries -> Entries \cup {NULL}]
  /\ \E m, g : Pooled(q.next, q.first, q.free, entry, len, u, m, g)
  /\ Thinned(n, f, k, len, u, place, j)
  /\ q.prev = (IF j = 0 THEN NULL ELSE u[j - 1])
  /\ On(len, u) = On(n, f) \ Removed(E, f, k)

LEMMA WalkStep ==
  ASSUME NEW q, NEW E, NEW n, NEW f, NEW k, NEW len, NEW u, NEW place, NEW j,
         WalkAt(q, E, n, f, k, len, u, place, j), k < n, 
         NEW e, e = f[k], NEW q2, q2 = Passed(q, e, E)
  PROVE  \E len2, u2, place2, j2 : WalkAt(q2, E, n, f, k + 1, len2, u2, place2, j2)
<1>1. /\ Pointers(q) /\ q.next \in [Entries -> Entries \cup {NULL}]
      /\ \E m, g : Pooled(q.next, q.first, q.free, entry, len, u, m, g)
      /\ Thinned(n, f, k, len, u, place, j)
      /\ q.prev = (IF j = 0 THEN NULL ELSE u[j - 1])
      /\ On(len, u) = On(n, f) \ Removed(E, f, k)
  BY DEF WalkAt
<1> DEFINE nx == q.next
           hq == q.first
           hf == q.free
<1>2. PICK m, g : Pooled(nx, hq, hf, entry, len, u, m, g)
  BY <1>1
<1>3. /\ n \in Nat /\ k \in 0..n - 1 /\ len \in Nat /\ j \in 0..len - 1
      /\ u[j] = e
  <2>1. /\ n \in Nat /\ k \in 0..n /\ len \in Nat /\ j \in 0..len /\ len - j = n - k
        /\ \A i \in 0..len - 1 : u[i] = f[place[i]]
        /\ \A i \in j..len - 1 : place[i] = k + (i - j)
    BY <1>1 DEF Thinned
  <2>2. k \in 0..n - 1 /\ j \in 0..len - 1 /\ j \in j..len - 1
    BY <2>1
  <2>3. place[j] = k
    <3>1. place[j] = k + (j - j)
      BY <2>1, <2>2
    <3> QED
      BY <2>1, <3>1
  <2> QED
    BY <2>1, <2>2, <2>3
<1>4. /\ IsList(nx, hq, len, u) /\ On(len, u) \subseteq Entries /\ entry \in Entries \cup {NULL}
      /\ e \in On(len, u) /\ e \in Entries /\ NULL \notin Entries /\ hf \in Entries \cup {NULL}
  <2>1. IsList(nx, hq, len, u) /\ len \in Nat /\ IsList(nx, hf, m, g) /\ m \in Nat
        /\ entry \in Entries \cup {NULL}
    BY <1>2 DEF Pooled
  <2>2. On(len, u) \subseteq Entries
    BY <2>1, ListSize
  <2>3. e \in On(len, u)
    BY <1>3 DEF On
  <2>4. hf \in Entries \cup {NULL}
    BY <2>1 DEF IsList
  <2> QED
    BY <2>1, <2>2, <2>3, <2>4, EntriesAre
<1>5. j > 0 => j - 1 \in 0..len - 1 /\ u[j - 1] # e /\ u[j - 1] \in Entries
      /\ u[j - 1] \in On(len, u)
  <2>1. j > 0 => j - 1 \in 0..len - 1 /\ j - 1 # j
    BY <1>3
  <2> QED
    BY <1>3, <1>4, <2>1 DEF IsList, On
<1>6. \A p : p \in On(k + 1, f) <=> p \in On(k, f) \/ p = e
  <2>1. \A i : i \in 0..(k + 1) - 1 <=> i \in 0..k - 1 \/ i = k
    BY <1>3
  <2> QED
    BY <2>1 DEF On
<1>7. CASE content[e].event \notin E
  <2>1. q2 = [q EXCEPT !.prev = e]
    BY <1>7 DEF Passed
  <2>2. q2 = [next |-> nx, first |-> hq, free |-> hf, prev |-> e]
    BY <1>1, <2>1 DEF Pointers
  <2>3. q2.next = nx /\ q2.first = hq /\ q2.free = hf /\ q2.prev = e /\ Pointers(q2)
    BY <2>2 DEF Pointers
  <2>4. Thinned(n, f, k + 1, len, u, place, j + 1)
    BY <1>1, ThinKeep
  <2>5. e = (IF j + 1 = 0 THEN NULL ELSE u[(j + 1) - 1])
    <3>1. j + 1 # 0 /\ (j + 1) - 1 = j
      BY <1>3
    <3> QED
      BY <1>3, <3>1
  <2>6. Removed(E, f, k + 1) = Removed(E, f, k)
    <3>1. \A p : p \in Removed(E, f, k + 1) <=> p \in Removed(E, f, k)
      BY <1>6, <1>7 DEF Removed
    <3> QED
      BY <3>1
  <2> HIDE DEF nx, hq, hf
  <2>7. WalkAt(q2, E, n, f, k + 1, len, u, place, j + 1)
    <3>1. q2.next \in [Entries -> Entries \cup {NULL}]
      BY <1>1, <2>3 DEF nx
    <3>2. \E mm, gg : Pooled(q2.next, q2.first, q2.free, entry, len, u, mm, gg)
      BY <1>2, <2>3
    <3>3. q2.prev = (IF j + 1 = 0 THEN NULL ELSE u[(j + 1) - 1])
      BY <2>3, <2>5
    <3> QED
      BY <1>1, <2>3, <2>4, <2>6, <3>1, <3>2, <3>3, Zenon DEF WalkAt
  <2> QED
    BY <2>7
<1>8. CASE content[e].event \in E
  <2> DEFINE u2 == Without(u, len, j)
             h2 == IF j = 0 THEN nx[e] ELSE hq
             nx1 == IF j = 0 THEN nx ELSE [nx EXCEPT ![u[j - 1]] = nx[e]]
             nx2 == [nx1 EXCEPT ![e] = hf]
  <2>1. q2 = Unlinked(q, e)
    BY <1>8 DEF Passed
  <2>2. q = [next |-> nx, first |-> hq, free |-> hf, prev |-> q.prev]
    BY <1>1 DEF Pointers
  <2>3. (q.prev = NULL) = (j = 0)
    BY <1>1, <1>3, <1>4, <1>5
  <2>4. Pointers(q2) /\ q2.next = nx2 /\ q2.first = h2 /\ q2.free = e /\ q2.prev = q.prev
    <3>1. CASE j = 0
      <4>1. q2 = [[q EXCEPT !.first = q.next[e]] EXCEPT !.next[e] = q.free, !.free = e]
        BY <2>1, <2>3, <3>1, Zenon DEF Unlinked
      <4> QED
        BY <2>2, <3>1, <4>1 DEF Pointers
    <3>2. CASE j # 0
      <4>1. q2 = [[q EXCEPT !.next[q.prev] = q.next[e]] EXCEPT !.next[e] = q.free, !.free = e]
        BY <2>1, <2>3, <3>2, Zenon DEF Unlinked
      <4> QED
        BY <1>1, <2>2, <3>2, <4>1 DEF Pointers
    <3> QED
      BY <3>1, <3>2
  <2>5. nx2 \in [Entries -> Entries \cup {NULL}]
    BY <1>1, <1>4
  <2>6. DropsEntry(nx, hq, hf, len, u, j, e, nx2, h2)
    BY <1>1, <1>3, <1>4, <1>5 DEF DropsEntry
  <2> HIDE DEF u2, h2, nx2, nx1
  <2>7. /\ Pooled(nx2, h2, e, entry, len - 1, u2, m + 1, Put(g, m, 0, e))
        /\ On(len - 1, u2) = On(len, u) \ {e}
    BY <1>2, <2>6, DropPool DEF u2
  <2>8. PICK place2 : Thinned(n, f, k + 1, len - 1, u2, place2, j)
    BY <1>1, ThinDrop DEF u2
  <2>9. q.prev = (IF j = 0 THEN NULL ELSE u2[j - 1])
    <3>1. j > 0 => j - 1 \in 0..len - 1 /\ j - 1 < j
      BY <1>3
    <3>2. j > 0 => u2[j - 1] = u[j - 1]
      BY <3>1 DEF u2, Without
    <3> QED
      BY <1>1, <1>3, <3>2
  <2>10. On(len - 1, u2) = On(n, f) \ Removed(E, f, k + 1)
    <3>1. \A p : p \in Removed(E, f, k + 1) <=> p \in Removed(E, f, k) \/ p = e
      BY <1>6, <1>8 DEF Removed
    <3> QED
      BY <1>1, <2>7, <3>1
  <2>11. WalkAt(q2, E, n, f, k + 1, len - 1, u2, place2, j)
    <3>1. q2.next \in [Entries -> Entries \cup {NULL}]
      BY <2>4, <2>5
    <3>2. \E mm, gg : Pooled(q2.next, q2.first, q2.free, entry, len - 1, u2, mm, gg)
      BY <2>4, <2>7
    <3>3. q2.prev = (IF j = 0 THEN NULL ELSE u2[j - 1])
      BY <2>4, <2>9
    <3> QED
      BY <2>4, <2>8, <2>10, <3>1, <3>2, <3>3, Zenon DEF WalkAt
  <2> QED
    BY <2>11
<1> QED
  BY <1>7, <1>8

\* Where the walk ends.
LEMMA WalkEnds ==
  ASSUME NEW E, NEW n, NEW f, NEW m, NEW g,
         Pooled(next, next_entry, free_entry, entry, n, f, m, g),
         next \in [Entries -> Entries \cup {NULL}]
  PROVE  /\ Len(Queue) = n
         /\ \E len, u, place, j : WalkAt(Walk(E)[n], E, n, f, n, len, u, place, j)
<1>1. n \in Nat /\ IsList(next, next_entry, n, f)
  BY DEF Pooled
<1>2. Queue = [k \in 1..n |-> f[k - 1]]
  BY <1>1, ListIs DEF Queue
<1>3. Len(Queue) = n /\ \A k \in 1..n : Queue[k] = f[k - 1]
  BY <1>1, <1>2, ListHas
<1>4. /\ Walk(E)[0] = Start0
      /\ \A k \in 1..n : Walk(E)[k] = Passed(Walk(E)[k - 1], Queue[k], E)
  BY <1>1, <1>3, WalkIs
<1> DEFINE S == {k \in 0..n : \E len, u, place, j : WalkAt(Walk(E)[k], E, n, f, k, len, u, place, j)}
<1>5. 0 \in S
  <2> DEFINE p0 == [i \in 0..n - 1 |-> i]
             z == 0
  <2>1. Thinned(n, f, z, n, f, p0, z)
    BY <1>1, ThinStart
  <2>2. /\ Start0.next = next /\ Start0.first = next_entry /\ Start0.free = free_entry
        /\ Start0.prev = NULL /\ Pointers(Start0)
    BY DEF Start0, Pointers
  <2>3. Removed(E, f, z) = {}
    BY DEF Removed, On
  <2>4. NULL = IF z = 0 THEN NULL ELSE f[z - 1]
    OBVIOUS
  <2> HIDE DEF p0
  <2>5. On(n, f) = On(n, f) \ Removed(E, f, z)
    BY <2>3
  <2>6. z \in 0..n /\ Walk(E)[z] = Start0
    BY <1>1, <1>4
  <2> HIDE DEF z
  <2>7. \E mm, gg : Pooled(Start0.next, Start0.first, Start0.free, entry, n, f, mm, gg)
    BY <2>2
  <2>8. WalkAt(Start0, E, n, f, z, n, f, p0, z)
    BY <2>1, <2>2, <2>4, <2>5, <2>7, Zenon DEF WalkAt
  <2>9. z \in S
    BY <2>6, <2>8
  <2> QED
    BY <2>9 DEF z
<1>6. ASSUME NEW k \in 1..n, k - 1 \in S
      PROVE  k \in S
  <2> DEFINE k1 == k - 1
  <2>1. PICK len, u, place, j : WalkAt(Walk(E)[k1], E, n, f, k1, len, u, place, j)
    BY <1>6
  <2>2. k1 < n /\ k1 + 1 = k
    BY <1>1
  <2>3. Walk(E)[k] = Passed(Walk(E)[k1], Queue[k], E) /\ Queue[k] = f[k1]
    BY <1>3, <1>4
  <2> HIDE DEF k1
  <2> DEFINE e == Queue[k]
             q2 == Walk(E)[k]
  <2>4. e = f[k1] /\ q2 = Passed(Walk(E)[k1], e, E)
    BY <2>3
  <2> HIDE DEF e, q2
  <2>5. \E len2, u2, place2, j2 : WalkAt(q2, E, n, f, k1 + 1, len2, u2, place2, j2)
    BY <2>1, <2>2, <2>4, WalkStep
  <2> QED
    BY <1>1, <2>2, <2>5 DEF q2
<1> HIDE DEF S
<1>7. \A k \in 0..n : k \in S
  BY <1>1, <1>5, <1>6, AllUpTo
<1>8. n \in S
  BY <1>1, <1>7
<1> QED
  BY <1>3, <1>8 DEF S

\* What RemoveAll does to the pool and to the queue.
LEMMA RemoveDoes ==
  ASSUME NEW E, NEW n, NEW f, NEW m, NEW g,
         Pooled(next, next_entry, free_entry, entry, n, f, m, g),
         next \in [Entries -> Entries \cup {NULL}], RemoveAll(E)
  PROVE  /\ next' \in [Entries -> Entries \cup {NULL}]
         /\ \E len, u, place, m2, g2 :
              /\ Pooled(next', next_entry', free_entry', entry, len, u, m2, g2)
              /\ Thinned(n, f, n, len, u, place, len)
              /\ On(len, u) = On(n, f) \ Removed(E, f, n)
         /\ content' = [e \in DOMAIN content \ Removed(E, f, n) |-> content[e]]
<1>1. /\ Len(Queue) = n
      /\ \E len, u, place, j : WalkAt(Walk(E)[n], E, n, f, n, len, u, place, j)
  BY WalkEnds
<1> DEFINE w == Walk(E)[n]
<1>2. next' = w.next /\ next_entry' = w.first /\ free_entry' = w.free
  BY <1>1 DEF RemoveAll
<1>3. PICK len, u, place, j : WalkAt(w, E, n, f, n, len, u, place, j)
  BY <1>1
<1> HIDE DEF w
<1>4. j = len
  <2>1. j \in 0..len /\ len \in Nat /\ n \in Nat /\ len - j = n - n
    BY <1>3 DEF WalkAt, Thinned
  <2> QED
    BY <2>1
<1>5. next' \in [Entries -> Entries \cup {NULL}]
  BY <1>2, <1>3 DEF WalkAt
<1>6. /\ \E m2, g2 : Pooled(next', next_entry', free_entry', entry, len, u, m2, g2)
      /\ Thinned(n, f, n, len, u, place, len)
      /\ On(len, u) = On(n, f) \ Removed(E, f, n)
  BY <1>2, <1>3, <1>4 DEF WalkAt
<1>7. Range(Queue) = On(n, f)
  <2>1. n \in Nat /\ IsList(next, next_entry, n, f)
    BY DEF Pooled
  <2>2. Queue = [k \in 1..n |-> f[k - 1]]
    BY <2>1, ListIs DEF Queue
  <2> QED
    BY <2>1, <2>2, ListHas
<1>8. content' = [e \in DOMAIN content \ Removed(E, f, n) |-> content[e]]
  <2>1. content' = [e \in DOMAIN content \ {p \in Range(Queue) : content[p].event \in E}
                     |-> content[e]]
    BY DEF RemoveAll
  <2>2. {p \in Range(Queue) : content[p].event \in E} = Removed(E, f, n)
    BY <1>7 DEF Removed
  <2> QED
    BY <2>1, <2>2
<1> QED
  BY <1>5, <1>6, <1>8

-----------------------------------------------------------------------------
(* The contents of the entries, and PIC_AddEvent.                          *)

Contents(c, n, f, held) ==
  /\ DOMAIN c = On(n, f) \cup ({held} \ {NULL})
  /\ \A e \in DOMAIN c : c[e] \in [event : Events, index : Int]

Sorted(c, n, f) ==
  \A i, j \in 0..n - 1 : i < j => c[f[i]].index <= c[f[j]].index

LEMMA IndexType ==
  ASSUME NEW c, NEW n \in Nat, NEW f, NEW held, Contents(c, n, f, held)
  PROVE  \A i \in 0..n - 1 : f[i] \in DOMAIN c /\ c[f[i]].index \in Int
<1>1. \A i \in 0..n - 1 : f[i] \in DOMAIN c
  BY DEF Contents, On
<1> QED
  BY <1>1 DEF Contents

\* AddEntry passes the entries that are not later than x, and no others.
LEMMA PlaceIs ==
  ASSUME NEW n, NEW f, NEW m, NEW g,
         Pooled(next, next_entry, free_entry, entry, n, f, m, g),
         Contents(content, n, f, entry), Sorted(content, n, f),
         NEW x \in Int, NEW k, k = PlacesBefore(x)
  PROVE  /\ k \in 0..n
         /\ k > 0 => Queue[k] = f[k - 1]
         /\ \A i \in 0..n - 1 : (i < k) = (content[f[i]].index <= x)
<1>1. n \in Nat /\ IsList(next, next_entry, n, f)
  BY DEF Pooled
<1>2. Queue = [i \in 1..n |-> f[i - 1]]
  BY <1>1, ListIs DEF Queue
<1>3. Len(Queue) = n /\ \A i \in 1..n : Queue[i] = f[i - 1]
  BY <1>1, <1>2, ListHas
<1>4. \A i \in 0..n - 1 : content[f[i]].index \in Int
  BY <1>1, IndexType
<1> DEFINE t(i) == content[f[i]].index
           S == {i \in 0..n : i = n \/ t(i) > x}
           P(kk) == /\ \A i \in 1..kk : content[Queue[i]].index <= x
                    /\ kk < Len(Queue) => content[Queue[kk + 1]].index > x
<1>5. \E kk \in 0..Len(Queue) : P(kk)
  <2>1. S \in SUBSET Nat /\ S # {}
    BY <1>1
  <2> HIDE DEF S
  <2>2. PICK kk \in S : \A i \in S : kk <= i
    BY <2>1, LeastExists
  <2>3. kk \in 0..n /\ (kk = n \/ t(kk) > x)
    BY <2>2 DEF S
  <2>4. ASSUME NEW i \in 0..kk - 1
        PROVE  t(i) <= x
    <3>1. i \in 0..n - 1 /\ i \in 0..n /\ ~(kk <= i) /\ i # n
      BY <1>1, <2>3
    <3>2. i \notin S
      BY <2>2, <3>1
    <3> HIDE DEF t
    <3>3. ~(t(i) > x)
      BY <3>1, <3>2 DEF S
    <3>4. t(i) \in Int
      BY <1>4, <3>1 DEF t
    <3> QED
      BY <3>3, <3>4
  <2>5. ASSUME NEW i \in 1..kk
        PROVE  content[Queue[i]].index <= x
    <3>1. i - 1 \in 0..kk - 1 /\ i \in 1..n
      BY <1>1, <2>3
    <3>2. t(i - 1) <= x /\ Queue[i] = f[i - 1]
      BY <1>3, <2>4, <3>1
    <3> QED
      BY <3>2
  <2>6. ASSUME kk < n
        PROVE  content[Queue[kk + 1]].index > x
    <3>1. kk + 1 \in 1..n /\ (kk + 1) - 1 = kk /\ kk # n
      BY <1>1, <2>3, <2>6
    <3>2. Queue[kk + 1] = f[kk] /\ t(kk) > x
      BY <1>3, <2>3, <3>1
    <3> QED
      BY <3>2
  <2> QED
    BY <1>3, <2>3, <2>5, <2>6
<1>6. k = CHOOSE kk \in 0..Len(Queue) : P(kk)
  BY Zenon DEF PlacesBefore
<1> HIDE DEF P
<1>7. k \in 0..Len(Queue) /\ P(k)
  BY <1>5, <1>6, Zenon
<1>8. k \in 0..n
  BY <1>3, <1>7
<1>9. k > 0 => Queue[k] = f[k - 1]
  <2>1. k > 0 => k \in 1..n
    BY <1>1, <1>8
  <2> QED
    BY <1>3, <2>1
<1>10. ASSUME NEW i \in 0..n - 1
       PROVE  (i < k) = (content[f[i]].index <= x)
  <2>1. CASE i < k
    <3>1. i + 1 \in 1..k /\ i + 1 \in 1..n /\ (i + 1) - 1 = i
      BY <1>1, <1>8, <2>1
    <3>2. content[Queue[i + 1]].index <= x
      BY <1>7, <3>1 DEF P
    <3>3. Queue[i + 1] = f[i]
      BY <1>3, <3>1
    <3> QED
      BY <2>1, <3>2, <3>3
  <2>2. CASE ~(i < k)
    <3>1. k \in 0..n - 1 /\ k < n /\ k + 1 \in 1..n /\ (k + 1) - 1 = k /\ (k < i \/ k = i)
      BY <1>1, <1>8, <2>2
    <3>2. content[Queue[k + 1]].index > x
      BY <1>3, <1>7, <3>1 DEF P
    <3>3. Queue[k + 1] = f[k]
      BY <1>3, <3>1
    <3>4. content[f[k]].index <= content[f[i]].index
      <4>1. CASE k < i
        BY <3>1, <4>1 DEF Sorted
      <4>2. CASE k = i
        BY <1>4, <4>2
      <4> QED
        BY <3>1, <4>1, <4>2
    <3>5. content[f[k]].index \in Int /\ content[f[i]].index \in Int
      BY <1>4, <3>1
    <3>6. content[f[k]].index > x
      BY <3>2, <3>3
    <3>7. ~(content[f[i]].index <= x)
      <4> DEFINE ti == content[f[i]].index
                 tk == content[f[k]].index
      <4>1. ti \in Int /\ tk \in Int /\ tk > x /\ tk <= ti
        BY <3>4, <3>5, <3>6
      <4> HIDE DEF ti, tk
      <4>2. ~(ti <= x)
        BY <4>1
      <4> QED
        BY <4>2 DEF ti
    <3> QED
      BY <2>2, <3>7
  <2> QED
    BY <2>1, <2>2
<1> QED
  BY <1>8, <1>9, <1>10

\* The pointers that AddEntry leaves.
LEMMA LinkDoes ==
  ASSUME NEW n, NEW f, NEW m, NEW g,
         Pooled(next, next_entry, free_entry, entry, n, f, m, g),
         next \in [Entries -> Entries \cup {NULL}], free_entry # NULL,
         Contents(content, n, f, entry), Sorted(content, n, f),
         NEW x \in Int, NEW k, k = PlacesBefore(x), Link(free_entry, x)
  PROVE  /\ AddsEntry(next, next_entry, free_entry, n, f, k, next', next_entry')
         /\ next' \in [Entries -> Entries \cup {NULL}]
<1> DEFINE e == free_entry
<1>1. k \in 0..n /\ (k > 0 => Queue[k] = f[k - 1])
  BY PlaceIs
<1>2. n \in Nat /\ IsList(next, next_entry, n, f) /\ m \in Nat /\ IsList(next, e, m, g)
      /\ On(n, f) \cap On(m, g) = {}
  BY DEF Pooled
<1>3. e \in On(m, g) /\ e \in Entries
  BY <1>2, ListEnds
<1>4. On(n, f) \subseteq Entries
  BY <1>2, ListSize
<1>5. f \in [0..n -> Entries \cup {NULL}] /\ f[0] = next_entry
  BY <1>2 DEF IsList
<1>6. CASE k = 0
  <2>1. next_entry' = e /\ next' = [next EXCEPT ![e] = next_entry]
    BY <1>6 DEF Link
  <2>2. next_entry \in Entries \cup {NULL}
    BY <1>1, <1>2, <1>5
  <2>3. next' \in [Entries -> Entries \cup {NULL}]
    BY <1>3, <2>1, <2>2
  <2>4. /\ \A p \in Entries \ {e} : next'[p] = next[p]
        /\ next'[e] = f[k]
    BY <1>3, <1>5, <1>6, <2>1
  <2> QED
    BY <1>1, <1>6, <2>1, <2>3, <2>4 DEF AddsEntry
<1>7. CASE k # 0
  <2> DEFINE q == Queue[k]
  <2>1. next' = [next EXCEPT ![e] = next[q], ![q] = e] /\ next_entry' = next_entry
    BY <1>7 DEF Link
  <2>2. q = f[k - 1] /\ k > 0 /\ k - 1 \in 0..n - 1 /\ (k - 1) + 1 = k
    BY <1>1, <1>2, <1>7
  <2> HIDE DEF q
  <2>3. q \in Entries /\ next[q] = f[k] /\ q \in On(n, f)
    BY <1>2, <2>2 DEF IsList, On
  <2>4. q # e
    BY <1>2, <1>3, <2>3
  <2>5. next[q] \in Entries \cup {NULL}
    BY <2>3
  <2>6. next' \in [Entries -> Entries \cup {NULL}]
    BY <1>3, <2>1, <2>3, <2>5
  <2>7. /\ \A p \in Entries \ {e} : p # q => next'[p] = next[p]
        /\ next'[e] = f[k] /\ next'[q] = e
    BY <1>3, <2>1, <2>3, <2>4
  <2> QED
    BY <1>1, <1>7, <2>1, <2>2, <2>6, <2>7 DEF AddsEntry
<1> QED
  BY <1>6, <1>7

\* k entries are not later than x, the first ones.
Behind(c, n, f, k, x) ==
  k \in 0..n /\ \A i \in 0..n - 1 : (i < k) = (c[f[i]].index <= x)

\* The entry e is in use.
Filled(c, e, ev, x, c2) ==
  /\ ev \in Events /\ x \in Int /\ e \in Entries
  /\ c2 = [p \in DOMAIN c \cup {e} |-> IF p = e THEN [event |-> ev, index |-> x] ELSE c[p]]

LEMMA PutSorted ==
  ASSUME NEW c, NEW n \in Nat, NEW f, NEW held, Contents(c, n, f, held), Sorted(c, n, f),
         NEW k, NEW x, Behind(c, n, f, k, x),
         NEW e, NEW ev, NEW c2, Filled(c, e, ev, x, c2), e \notin On(n, f), e # held,
         On(n + 1, Put(f, n, k, e)) = On(n, f) \cup {e}
  PROVE  Contents(c2, n + 1, Put(f, n, k, e), held) /\ Sorted(c2, n + 1, Put(f, n, k, e))
<1> DEFINE v == Put(f, n, k, e)
<1>1. /\ ev \in Events /\ x \in Int
      /\ c2 = [p \in DOMAIN c \cup {e} |-> IF p = e THEN [event |-> ev, index |-> x] ELSE c[p]]
      /\ k \in 0..n /\ \A i \in 0..n - 1 : (i < k) = (c[f[i]].index <= x)
  BY DEF Filled, Behind
<1>2. DOMAIN c = On(n, f) \cup ({held} \ {NULL})
      /\ \A p \in DOMAIN c : c[p] \in [event : Events, index : Int]
  BY DEF Contents
<1>3. e \notin DOMAIN c
  BY <1>2
<1>4. /\ DOMAIN c2 = DOMAIN c \cup {e}
      /\ c2[e] = [event |-> ev, index |-> x]
      /\ \A p \in DOMAIN c : c2[p] = c[p]
  BY <1>1, <1>3
<1>5. c2[e] \in [event : Events, index : Int] /\ c2[e].index = x
  BY <1>1, <1>4
<1>6. Contents(c2, n + 1, v, held)
  <2>1. DOMAIN c2 = On(n + 1, v) \cup ({held} \ {NULL})
    BY <1>2, <1>4
  <2>2. \A p \in DOMAIN c2 : c2[p] \in [event : Events, index : Int]
    BY <1>2, <1>4, <1>5
  <2> HIDE DEF v
  <2> QED
    BY <2>1, <2>2 DEF Contents
<1>7. \A i \in 0..n - 1 : f[i] \in DOMAIN c /\ c[f[i]].index \in Int /\ c2[f[i]] = c[f[i]]
  BY <1>4, IndexType
<1>8. ASSUME NEW i \in 0..n
      PROVE  /\ i < k => i \in 0..n - 1 /\ v[i] = f[i]
             /\ i = k => v[i] = e
             /\ i > k => i - 1 \in 0..n - 1 /\ v[i] = f[i - 1]
  <2>1. i \in 0..n + 1
    OBVIOUS
  <2>2. v[i] = IF i < k THEN f[i] ELSE IF i = k THEN e ELSE f[i - 1]
    BY <2>1 DEF Put
  <2>3. (i < k => i \in 0..n - 1) /\ (i > k => i - 1 \in 0..n - 1)
    BY <1>1
  <2> HIDE DEF v
  <2> QED
    BY <1>1, <2>2, <2>3
<1> HIDE DEF v
<1> DEFINE t(i) == c2[v[i]].index
<1>9. ASSUME NEW i \in 0..n
      PROVE  /\ t(i) \in Int
             /\ i < k => t(i) <= x
             /\ i > k => t(i) > x
             /\ i = k => t(i) = x
  <2>1. CASE i < k
    <3>1. i \in 0..n - 1 /\ v[i] = f[i]
      BY <1>8, <2>1
    <3>2. t(i) = c[f[i]].index /\ c[f[i]].index \in Int /\ c[f[i]].index <= x
      BY <1>1, <1>7, <2>1, <3>1
    <3> HIDE DEF t
    <3> QED
      BY <1>1, <2>1, <3>2
  <2>2. CASE i = k
    <3>1. t(i) = x
      BY <1>5, <1>8, <2>2
    <3> HIDE DEF t
    <3> QED
      BY <1>1, <2>2, <3>1
  <2>3. CASE i > k
    <3>1. i - 1 \in 0..n - 1 /\ v[i] = f[i - 1] /\ ~(i - 1 < k)
      BY <1>1, <1>8, <2>3
    <3>2. t(i) = c[f[i - 1]].index /\ c[f[i - 1]].index \in Int
      BY <1>7, <3>1
    <3>3. ~(c[f[i - 1]].index <= x)
      BY <1>1, <3>1
    <3> HIDE DEF t
    <3>4. t(i) \in Int /\ ~(t(i) <= x)
      BY <3>2, <3>3
    <3> QED
      BY <1>1, <2>3, <3>4
  <2> QED
    BY <1>1, <2>1, <2>2, <2>3
<1>10. ASSUME NEW i \in 0..n, NEW j \in 0..n, i < j
       PROVE  t(i) <= t(j)
  <2>1. t(i) \in Int /\ t(j) \in Int
    BY <1>9
  <2>2. CASE j < k
    <3>1. i \in 0..n - 1 /\ j \in 0..n - 1 /\ v[i] = f[i] /\ v[j] = f[j]
      BY <1>1, <1>8, <1>10, <2>2
    <3> QED
      BY <1>7, <1>10, <3>1 DEF Sorted
  <2>3. CASE i > k
    <3>1. i - 1 \in 0..n - 1 /\ j - 1 \in 0..n - 1 /\ v[i] = f[i - 1] /\ v[j] = f[j - 1]
          /\ i - 1 < j - 1
      BY <1>1, <1>8, <1>10, <2>3
    <3> QED
      BY <1>7, <3>1 DEF Sorted
  <2>4. CASE i <= k /\ j >= k
    <3>1. (i < k => t(i) <= x) /\ (i = k => t(i) = x)
      BY <1>9
    <3>2. (j > k => t(j) > x) /\ (j = k => t(j) = x)
      BY <1>9
    <3> HIDE DEF t
    <3> QED
      BY <1>1, <2>1, <2>4, <3>1, <3>2
  <2> QED
    BY <1>1, <1>10, <2>2, <2>3, <2>4
<1>11. Sorted(c2, n + 1, v)
  <2>1. (n + 1) - 1 = n
    OBVIOUS
  <2> QED
    BY <1>10, <2>1 DEF Sorted
<1> QED
  BY <1>6, <1>11 DEF v

\* What stays of an order.
LEMMA ThinSorted ==
  ASSUME NEW c, NEW n, NEW f, NEW held, Contents(c, n, f, held), Sorted(c, n, f),
         held \notin On(n, f), NEW len, NEW u, NEW place, Thinned(n, f, n, len, u, place, len),
         NEW R, On(len, u) = On(n, f) \ R, R \subseteq On(n, f),
         NEW c2, c2 = [p \in DOMAIN c \ R |-> c[p]]
  PROVE  Contents(c2, len, u, held) /\ Sorted(c2, len, u)
<1>1. /\ n \in Nat /\ len \in Nat /\ place \in [0..len - 1 -> 0..n - 1]
      /\ \A i \in 0..len - 1 : u[i] = f[place[i]]
      /\ \A a, b \in 0..len - 1 : a < b => place[a] < place[b]
  BY DEF Thinned
<1>2. DOMAIN c = On(n, f) \cup ({held} \ {NULL})
      /\ \A p \in DOMAIN c : c[p] \in [event : Events, index : Int]
  BY DEF Contents
<1>3. DOMAIN c2 = DOMAIN c \ R /\ \A p \in DOMAIN c2 : c2[p] = c[p]
  OBVIOUS
<1>4. DOMAIN c2 = On(len, u) \cup ({held} \ {NULL})
  BY <1>2, <1>3
<1>5. Contents(c2, len, u, held)
  BY <1>2, <1>3, <1>4 DEF Contents
<1>6. ASSUME NEW i \in 0..len - 1
      PROVE  c2[u[i]] = c[f[place[i]]] /\ place[i] \in 0..n - 1
  <2>1. u[i] \in DOMAIN c2
    BY <1>4 DEF On
  <2> QED
    BY <1>1, <1>3, <2>1
<1>7. ASSUME NEW i \in 0..len - 1, NEW j \in 0..len - 1, i < j
      PROVE  c2[u[i]].index <= c2[u[j]].index
  <2>1. /\ c2[u[i]] = c[f[place[i]]] /\ place[i] \in 0..n - 1
        /\ c2[u[j]] = c[f[place[j]]] /\ place[j] \in 0..n - 1
    BY <1>6
  <2>2. place[i] < place[j]
    BY <1>1, <1>7
  <2> QED
    BY <2>1, <2>2 DEF Sorted
<1> QED
  BY <1>5, <1>7 DEF Sorted

-----------------------------------------------------------------------------
(* The inductive invariant.  What it says besides Partition and OnTime:    *)
(* the pointers link lists, the queue is in the order of the times, and    *)
(* the cycles and the local variables of PIC_RunQueue in each phase of the  *)
(* loop.                                                                    *)

Links == [Entries -> Entries \cup {NULL}]

Pools(n, f, m, g) ==
  /\ Pooled(next, next_entry, free_entry, entry, n, f, m, g)
  /\ Contents(content, n, f, entry) /\ Sorted(content, n, f)

PoolInv == next \in Links /\ \E n, f, m, g : Pools(n, f, m, g)

Elapsed == CPU_CycleMax - CPU_CycleLeft

Types ==
  /\ CPU_CycleLeft \in -1..CPU_CycleMax /\ CPU_Cycles \in -1..CPU_CycleMax
  /\ InEventService = (pc \in {"service", "handler"})
  /\ index_nd \in 0..CPU_CycleMax /\ calls \in 0..MaxCalls /\ srv_lag \in Int
  /\ pc \in {"loop", "service", "handler", "tick", "ticking", "program", "instruction"}
  /\ (entry # NULL) = (pc = "handler")

Phases ==
  /\ pc = "loop" => /\ CPU_CycleLeft >= 0 /\ CPU_CycleLeft + CPU_Cycles <= CPU_CycleMax
  /\ pc \in {"service", "handler"} => /\ CPU_CycleLeft >= 1 /\ CPU_Cycles = 0
                                      /\ index_nd = Elapsed
  /\ pc = "tick" => CPU_Cycles = 0
  /\ pc = "ticking" => CPU_CycleLeft = CPU_CycleMax /\ CPU_Cycles = 0
  /\ pc \in {"program", "instruction"} =>
       /\ CPU_CycleLeft >= 0 /\ CPU_Cycles >= 0
       /\ CPU_CycleLeft + CPU_Cycles <= CPU_CycleMax

\* While a program runs, no event is overdue by more than a cycle at the end of
\* the slice.
SliceInv ==
  pc \in {"program", "instruction"} =>
    \A e \in DOMAIN content : content[e].index >= Grain * (Elapsed - 1)

QueueInv == PoolInv /\ Types /\ Phases /\ SliceInv

LEMMA NumbersAre ==
  /\ CPU_CycleMax \in Nat \ {0} /\ Grain \in Nat \ {0} /\ IODelay \in Nat /\ Delays \subseteq Nat
  /\ MaxCalls \in Nat
BY QueueAssumption

\* A product with Grain.
LEMMA GrainTimes ==
  ASSUME NEW a \in Int
  PROVE  Grain * a \in Int
BY NumbersAre

LEMMA GrainMonotone ==
  ASSUME NEW a \in Int, NEW b \in Int, a <= b
  PROVE  Grain * a <= Grain * b
<1>1. Grain \in Int /\ Grain >= 0
  BY NumbersAre
<1> DEFINE gr == Grain
<1> HIDE DEF gr
<1>2. gr \in Int /\ gr >= 0
  BY <1>1 DEF gr
<1>3. gr * (b - a) >= 0
  BY <1>2
<1>4. gr * (b - a) = gr * b - gr * a
  BY <1>2
<1>5. gr * a \in Int /\ gr * b \in Int
  BY <1>2
<1>6. gr * a <= gr * b
  BY <1>3, <1>4, <1>5
<1> QED
  BY <1>6 DEF gr

\* The whole cycles in a span of time.
LEMMA TruncatedIs ==
  ASSUME NEW d \in Int
  PROVE  /\ Truncated(d) \in Int
         /\ d >= 0 => /\ Truncated(d) >= 0
                      /\ Grain * Truncated(d) <= d
                      /\ d < Grain * (Truncated(d) + 1)
         /\ d <= 0 => Truncated(d) <= 0
<1> DEFINE gr == Grain
<1>1. gr \in Nat \ {0}
  BY NumbersAre
<1> HIDE DEF gr
<1>2. ASSUME NEW x \in Nat
      PROVE  /\ x \div gr \in Nat /\ gr * (x \div gr) <= x /\ x < gr * (x \div gr + 1)
  <2>1. x \div gr \in Int /\ x % gr \in 0..gr - 1 /\ x = gr * (x \div gr) + (x % gr)
    BY <1>1
  <2>2. x \div gr >= 0
    BY <1>1
  <2> QED
    BY <1>1, <2>1, <2>2
<1>3. CASE d >= 0
  <2>1. Truncated(d) = d \div gr /\ d \in Nat
    BY <1>3 DEF Truncated, gr
  <2>2. d <= 0 => d = 0
    BY <1>3
  <2>3. 0 \div gr = 0
    BY <1>1
  <2>4. d <= 0 => Truncated(d) <= 0
    BY <2>1, <2>2, <2>3
  <2>5. Truncated(d) \in Nat /\ gr * Truncated(d) <= d /\ d < gr * (Truncated(d) + 1)
    BY <1>2, <2>1
  <2> QED
    BY <2>4, <2>5 DEF gr
<1>4. CASE ~(d >= 0)
  <2> DEFINE y == (-d) \div gr
  <2>1. Truncated(d) = -y
    BY <1>4 DEF Truncated, gr
  <2>2. y \in Nat
    <3>1. -d \in Nat
      BY <1>4
    <3> QED
      BY <1>2, <3>1
  <2> HIDE DEF y
  <2> QED
    BY <1>4, <2>1, <2>2
<1> QED
  BY <1>3, <1>4

-----------------------------------------------------------------------------
(* Calls about events.                                                     *)

\* h is the first entry and the one with the least time.
First(c, h, n, f) ==
  /\ h \in On(n, f) /\ h \in DOMAIN c
  /\ \A e \in On(n, f) : /\ c[h].index \in Int /\ c[e].index \in Int
                         /\ c[h].index <= c[e].index

LEMMA HeadFirst ==
  ASSUME NEW nx, NEW h, NEW n \in Nat, NEW f, IsList(nx, h, n, f), h # NULL,
         NEW c, NEW held, Contents(c, n, f, held), Sorted(c, n, f)
  PROVE  First(c, h, n, f)
<1>1. n > 0 /\ h \in On(n, f)
  BY ListEnds
<1>2. 0 \in 0..n - 1 /\ f[0] = h
  BY <1>1 DEF IsList
<1>3. \A i \in 0..n - 1 : f[i] \in DOMAIN c /\ c[f[i]].index \in Int
  BY IndexType
<1>4. ASSUME NEW i \in 0..n - 1
      PROVE  c[f[0]].index <= c[f[i]].index
  <2>1. CASE i = 0
    <3>1. c[f[0]].index \in Int
      BY <1>2, <1>3
    <3> DEFINE t == c[f[0]].index
    <3>2. t \in Int
      BY <3>1
    <3> HIDE DEF t
    <3>3. t <= t
      BY <3>2
    <3> QED
      BY <2>1, <3>3 DEF t
  <2>2. CASE i # 0
    <3>1. 0 < i
      BY <2>2
    <3> QED
      BY <1>2, <3>1 DEF Sorted
  <2> QED
    BY <2>1, <2>2
<1>5. ASSUME NEW e \in On(n, f)
      PROVE  c[h].index \in Int /\ c[e].index \in Int /\ c[h].index <= c[e].index
  <2>1. PICK i \in 0..n - 1 : e = f[i]
    BY DEF On
  <2> QED
    BY <1>2, <1>3, <1>4, <2>1
<1>6. h \in DOMAIN c
  BY <1>2, <1>3
<1> QED
  BY <1>1, <1>5, <1>6 DEF First

LEMMA TimesAre ==
  ASSUME Types
  PROVE  /\ CPU_CycleMax \in Int /\ CPU_CycleLeft \in Int /\ CPU_Cycles \in Int
         /\ Elapsed \in Int /\ TickIndexND \in Int /\ Grain * TickIndexND \in Int
         /\ TickIndexND = Elapsed - CPU_Cycles /\ Base \in Int /\ index_nd \in Int
         /\ Grain * index_nd \in Int
<1>1. CPU_CycleMax \in Int /\ CPU_CycleLeft \in Int /\ CPU_Cycles \in Int /\ index_nd \in Int
  BY NumbersAre DEF Types
<1>2. Elapsed \in Int /\ TickIndexND \in Int /\ TickIndexND = Elapsed - CPU_Cycles
  BY <1>1 DEF Elapsed, TickIndexND
<1>3. Grain * TickIndexND \in Int /\ Grain * index_nd \in Int
  BY <1>1, <1>2, GrainTimes
<1>4. Base \in Int
  BY <1>3 DEF Base, Types
<1> QED
  BY <1>1, <1>2, <1>3, <1>4

\* What AddEvent does to the pool.
AddsAt(n, f, m, g, k, ev, x) ==
  /\ Behind(content, n, f, k, x)
  /\ Filled(content, free_entry, ev, x, content')
  /\ free_entry \in Entries /\ free_entry \notin DOMAIN content
  /\ Pooled(next', next_entry', free_entry', entry,
            n + 1, Put(f, n, k, free_entry), m - 1, Without(g, m, 0))
  /\ Contents(content', n + 1, Put(f, n, k, free_entry), entry)
  /\ Sorted(content', n + 1, Put(f, n, k, free_entry))

LEMMA AddDoes ==
  ASSUME NEW n, NEW f, NEW m, NEW g, Pools(n, f, m, g), next \in Links, Types,
         NEW ev \in Events, NEW d \in Delays, AddEvent(ev, d), free_entry # NULL,
         NEW x, x = d + Base
  PROVE  /\ next' \in Links
         /\ \E k : AddsAt(n, f, m, g, k, ev, x)
         /\ EndSliceIfDue(content'[next_entry'].index)
<1>1. /\ Pooled(next, next_entry, free_entry, entry, n, f, m, g)
      /\ Contents(content, n, f, entry) /\ Sorted(content, n, f)
      /\ next \in [Entries -> Entries \cup {NULL}]
  BY DEF Pools, Links
<1>2. n \in Nat /\ x \in Int
  <2>1. n \in Nat
    BY <1>1 DEF Pooled
  <2>2. Base \in Int /\ d \in Int
    BY TimesAre, NumbersAre
  <2> QED
    BY <2>1, <2>2
<1>3. /\ Link(free_entry, x)
      /\ content' = [p \in DOMAIN content \cup {free_entry} |->
                       IF p = free_entry THEN [event |-> ev, index |-> x] ELSE content[p]]
      /\ free_entry' = next[free_entry]
      /\ EndSliceIfDue(content'[next_entry'].index)
  BY Zenon DEF AddEvent
<1> DEFINE k == PlacesBefore(x)
<1>4. k \in 0..n /\ \A i \in 0..n - 1 : (i < k) = (content[f[i]].index <= x)
  BY <1>1, <1>2, PlaceIs
<1>5. /\ AddsEntry(next, next_entry, free_entry, n, f, k, next', next_entry')
      /\ next' \in [Entries -> Entries \cup {NULL}]
  BY <1>1, <1>2, <1>3, LinkDoes
<1> HIDE DEF k
<1>6. Behind(content, n, f, k, x)
  BY <1>4 DEF Behind
<1> DEFINE e == free_entry
           f2 == Put(f, n, k, e)
<1>7. /\ Pooled(next', next_entry', next[e], entry, n + 1, f2, m - 1, Without(g, m, 0))
      /\ On(n + 1, f2) = On(n, f) \cup {e}
      /\ e \notin On(n, f) /\ e # entry /\ e \in Entries
  BY <1>1, <1>5, AddPool
<1>8. Filled(content, e, ev, x, content')
  BY <1>2, <1>3, <1>7 DEF Filled
<1>9. e \notin DOMAIN content
  BY <1>1, <1>7 DEF Contents
<1>10. Contents(content', n + 1, f2, entry) /\ Sorted(content', n + 1, f2)
  BY <1>1, <1>2, <1>6, <1>7, <1>8, PutSorted
<1>11. Pooled(next', next_entry', free_entry', entry, n + 1, f2, m - 1, Without(g, m, 0))
  BY <1>3, <1>7
<1> HIDE DEF f2
<1>12. AddsAt(n, f, m, g, k, ev, x)
  BY <1>6, <1>7, <1>8, <1>9, <1>10, <1>11 DEF AddsAt, f2
<1> QED
  BY <1>3, <1>5, <1>12 DEF Links

\* What RemoveAll does to it.
RemovesTo(E, n, f, R, len, u, place) ==
  /\ R = Removed(E, f, n)
  /\ Thinned(n, f, n, len, u, place, len)
  /\ On(len, u) = On(n, f) \ R
  /\ content' = [e \in DOMAIN content \ R |-> content[e]]
  /\ \E m, g : Pooled(next', next_entry', free_entry', entry, len, u, m, g)
  /\ Contents(content', len, u, entry) /\ Sorted(content', len, u)

LEMMA RemoveAllDoes ==
  ASSUME NEW n, NEW f, NEW m, NEW g, Pools(n, f, m, g), next \in Links,
         NEW E, RemoveAll(E)
  PROVE  /\ next' \in Links
         /\ \E R, len, u, place : RemovesTo(E, n, f, R, len, u, place)
<1>1. /\ Pooled(next, next_entry, free_entry, entry, n, f, m, g)
      /\ Contents(content, n, f, entry) /\ Sorted(content, n, f)
      /\ next \in [Entries -> Entries \cup {NULL}]
  BY DEF Pools, Links
<1> DEFINE R == Removed(E, f, n)
           Q(len, u, place, m2, g2) ==
              /\ Pooled(next', next_entry', free_entry', entry, len, u, m2, g2)
              /\ Thinned(n, f, n, len, u, place, len)
              /\ On(len, u) = On(n, f) \ Removed(E, f, n)
<1>2. /\ next' \in [Entries -> Entries \cup {NULL}]
      /\ \E len, u, place, m2, g2 : Q(len, u, place, m2, g2)
      /\ content' = [e \in DOMAIN content \ Removed(E, f, n) |-> content[e]]
  BY <1>1, RemoveDoes
<1>3. PICK len, u, place, m2, g2 : Q(len, u, place, m2, g2)
  BY <1>2
<1>4. entry \notin On(n, f) /\ R \subseteq On(n, f)
  BY <1>1 DEF Pooled, Removed
<1>5. content' = [e \in DOMAIN content \ R |-> content[e]]
  BY <1>2
<1>6. On(len, u) = On(n, f) \ R /\ Thinned(n, f, n, len, u, place, len)
      /\ Pooled(next', next_entry', free_entry', entry, len, u, m2, g2)
  BY <1>3
<1>7. R = Removed(E, f, n)
  OBVIOUS
<1> HIDE DEF R, Q
<1>8. Contents(content', len, u, entry) /\ Sorted(content', len, u)
  BY <1>1, <1>4, <1>5, <1>6, ThinSorted
<1>9. RemovesTo(E, n, f, R, len, u, place)
  BY <1>5, <1>6, <1>7, <1>8 DEF RemovesTo
<1> QED
  BY <1>2, <1>9 DEF Links

\* A product with Grain, one cycle less.
LEMMA GrainLess ==
  ASSUME NEW a \in Int, NEW b \in Int, a <= b
  PROVE  Grain * (a - 1) <= Grain * b /\ Grain * (a - 1) <= Grain * (b - 1)
<1>1. a - 1 \in Int /\ a - 1 <= b /\ b - 1 \in Int /\ a - 1 <= b - 1
  OBVIOUS
<1> DEFINE p == a - 1
           q == b - 1
<1> HIDE DEF p, q
<1>2. Grain * p <= Grain * b /\ Grain * p <= Grain * q
  BY <1>1, GrainMonotone DEF p, q
<1> QED
  BY <1>2 DEF p, q

\* An event that an instruction adds is not overdue when the slice ends, and
\* nor are those that wait: the numbers.
LEMMA AddNumbers ==
  ASSUME NEW tind \in Int, NEW cyc \in Int, cyc >= 0, NEW fx \in Int, NEW x \in Int,
         x >= Grain * tind, x >= fx, ~(Truncated(fx - Grain * tind) < cyc)
  PROVE  x >= Grain * ((tind + cyc) - 1)
<1> DEFINE gt == Grain * tind
           d == fx - gt
           tr == Truncated(d)
<1>1. gt \in Int
  BY GrainTimes
<1> HIDE DEF gt
<1>2. d \in Int /\ x >= gt /\ ~(tr < cyc)
  BY <1>1 DEF gt
<1> HIDE DEF d
<1>3. /\ tr \in Int
      /\ d >= 0 => Grain * tr <= d
      /\ d <= 0 => tr <= 0
  BY <1>2, TruncatedIs
<1> HIDE DEF tr
<1>4. CASE d >= 0
  <2>1. Grain * tr <= d /\ cyc <= tr
    BY <1>2, <1>3, <1>4
  <2>2. Grain * cyc <= Grain * tr /\ Grain * cyc \in Int /\ Grain * tr \in Int
    BY <1>3, <2>1, GrainMonotone, GrainTimes
  <2>3. Grain * (tind + cyc) = gt + Grain * cyc
    BY NumbersAre DEF gt
  <2>4. d = fx - gt
    BY DEF d
  <2>5. x >= Grain * (tind + cyc)
    <3> DEFINE gc == Grain * cyc
               gr == Grain * tr
               gs == Grain * (tind + cyc)
    <3>1. gc <= gr /\ gc \in Int /\ gr \in Int /\ gr <= d /\ gs = gt + gc
      BY <2>1, <2>2, <2>3
    <3> HIDE DEF gc, gr, gs
    <3>2. x >= gs
      BY <1>1, <1>2, <2>4, <3>1
    <3> QED
      BY <3>2 DEF gs
  <2> DEFINE s == tind + cyc
  <2>6. s \in Int /\ s <= s
    OBVIOUS
  <2> HIDE DEF s
  <2>7. Grain * (s - 1) <= Grain * s /\ Grain * s \in Int /\ Grain * (s - 1) \in Int
    BY <2>6, GrainLess, GrainTimes
  <2>8. x >= Grain * s
    BY <2>5 DEF s
  <2>9. x >= Grain * (s - 1)
    <3> DEFINE p == Grain * (s - 1)
               q == Grain * s
    <3>1. p <= q /\ q \in Int /\ p \in Int /\ x >= q
      BY <2>7, <2>8
    <3> HIDE DEF p, q
    <3>2. x >= p
      BY <3>1
    <3> QED
      BY <3>2 DEF p
  <2> QED
    BY <2>9 DEF s
<1>5. CASE ~(d >= 0)
  <2>1. cyc = 0
    BY <1>2, <1>3, <1>5
  <2>2. tind <= tind
    OBVIOUS
  <2>3. Grain * (tind - 1) <= gt /\ Grain * (tind - 1) \in Int
    BY <2>2, GrainLess, GrainTimes DEF gt
  <2>4. x >= Grain * (tind - 1)
    <3> DEFINE p == Grain * (tind - 1)
    <3>1. p <= gt /\ p \in Int
      BY <2>3
    <3> HIDE DEF p
    <3>2. x >= p
      BY <1>1, <1>2, <3>1
    <3> QED
      BY <3>2 DEF p
  <2>5. (tind + cyc) - 1 = tind - 1
    BY <2>1
  <2> QED
    BY <2>4, <2>5
<1> QED
  BY <1>4, <1>5

LEMMA AddInTime ==
  ASSUME Types, Phases, SliceInv, pc = "instruction",
         NEW n, NEW f, NEW m, NEW g, n \in Nat, NEW k, NEW ev, NEW x, AddsAt(n, f, m, g, k, ev, x),
         NEW d \in Delays, x = d + Base, EndSliceIfDue(content'[next_entry'].index)
  PROVE  /\ CPU_CycleLeft' >= 0 /\ CPU_Cycles' >= 0
         /\ CPU_CycleLeft' + CPU_Cycles' <= CPU_CycleMax
         /\ \A e \in DOMAIN content' : content'[e].index >= Grain * (Elapsed' - 1)
<1> DEFINE fx == content'[next_entry'].index
           tind == TickIndexND
           cyc == CPU_Cycles
           e0 == free_entry
           f2 == Put(f, n, k, free_entry)
<1>1. /\ CPU_CycleMax \in Int /\ CPU_CycleLeft \in Int /\ cyc \in Int
      /\ Elapsed \in Int /\ tind \in Int /\ Grain * tind \in Int
      /\ tind = Elapsed - cyc /\ x \in Int /\ d >= 0
  <2>1. d \in Int /\ d >= 0
    BY NumbersAre
  <2> QED
    BY <2>1, TimesAre
<1>2. /\ CPU_CycleLeft >= 0 /\ cyc >= 0 /\ CPU_CycleLeft + cyc <= CPU_CycleMax
      /\ \A e \in DOMAIN content : content[e].index >= Grain * (Elapsed - 1)
  BY DEF Phases, SliceInv
<1>3. x >= Grain * tind
  <2>1. Base = Grain * tind
    BY DEF Base, Types
  <2> DEFINE b == Grain * tind
  <2>2. x = d + b /\ b \in Int /\ d \in Int
    BY <1>1, <2>1, NumbersAre
  <2> HIDE DEF b
  <2>3. x >= b
    BY <1>1, <2>2
  <2> QED
    BY <2>3 DEF b
<1>4. /\ DOMAIN content' = DOMAIN content \cup {e0}
      /\ \A e \in DOMAIN content : content'[e] = content[e]
      /\ content'[e0].index = x /\ e0 \notin DOMAIN content
  BY DEF AddsAt, Filled
<1>5. fx \in Int /\ x >= fx
  <2>1. /\ n + 1 \in Nat
        /\ Pooled(next', next_entry', free_entry', entry, n + 1, f2, m - 1, Without(g, m, 0))
        /\ Contents(content', n + 1, f2, entry) /\ Sorted(content', n + 1, f2)
    BY DEF AddsAt
  <2> HIDE DEF f2
  <2>2. IsList(next', next_entry', n + 1, f2)
    BY <2>1 DEF Pooled
  <2>3. entry = NULL /\ e0 \in Entries
    BY DEF Types, AddsAt
  <2>4. e0 \in On(n + 1, f2)
    BY <1>4, <2>1, <2>3 DEF Contents
  <2>5. next_entry' # NULL
    <3>1. n + 1 = 0 => On(n + 1, f2) = {}
      BY DEF On
    <3>2. next_entry' = NULL => n + 1 = 0
      BY <2>1, <2>2, ListEnds
    <3> QED
      BY <2>4, <3>1, <3>2
  <2>6. First(content', next_entry', n + 1, f2)
    BY <2>1, <2>2, <2>5, HeadFirst
  <2>7. fx \in Int /\ fx <= content'[e0].index
    BY <2>4, <2>6 DEF First
  <2> HIDE DEF fx
  <2> QED
    BY <1>1, <1>4, <2>7
<1> HIDE DEF fx
<1>6. EndSliceIfDue(fx)
  BY DEF fx
<1>7. \A e \in DOMAIN content : content[e].index \in Int
  BY <1>4 DEF AddsAt, Contents
<1> HIDE DEF tind, cyc, e0, f2
<1>8. CASE Truncated(fx - Grain * tind) < cyc
  <2>1. CPU_CycleLeft' = CPU_CycleLeft + cyc /\ CPU_Cycles' = 0
    BY <1>6, <1>8 DEF EndSliceIfDue, tind, cyc
  <2>2. CPU_CycleMax' = CPU_CycleMax
    OBVIOUS
  <2>3. Elapsed' = tind
    BY <1>1, <2>1 DEF Elapsed
  <2>4. tind <= Elapsed /\ tind <= tind
    BY <1>1, <1>2
  <2>5. /\ Grain * (tind - 1) <= Grain * (Elapsed - 1) /\ Grain * (tind - 1) <= Grain * tind
        /\ Grain * (tind - 1) \in Int /\ Grain * (Elapsed - 1) \in Int
    <3>1. tind - 1 \in Int /\ Elapsed - 1 \in Int
      BY <1>1
    <3>2. Grain * (tind - 1) \in Int /\ Grain * (Elapsed - 1) \in Int
      BY <3>1, GrainTimes
    <3>3. Grain * (tind - 1) <= Grain * (Elapsed - 1)
      BY <1>1, <2>4, GrainLess
    <3>4. Grain * (tind - 1) <= Grain * tind
      BY <1>1, <2>4, GrainLess
    <3> QED
      BY <3>2, <3>3, <3>4
  <2> DEFINE p == Grain * (tind - 1)
             q == Grain * (Elapsed - 1)
             r == Grain * tind
  <2>6. /\ p <= q /\ p <= r /\ p \in Int /\ q \in Int /\ r \in Int /\ x >= r
        /\ \A e \in DOMAIN content : content[e].index >= q
    BY <1>1, <1>2, <1>3, <2>5
  <2> HIDE DEF p, q, r
  <2>7. ASSUME NEW e \in DOMAIN content'
        PROVE  content'[e].index >= p
    <3>1. CASE e = e0
      <4>1. x >= p
        BY <1>1, <2>6
      <4> QED
        BY <1>4, <3>1, <4>1
    <3>2. CASE e # e0
      <4> DEFINE t == content[e].index
      <4>1. e \in DOMAIN content /\ content'[e].index = t
        BY <1>4, <3>2
      <4>2. t \in Int /\ t >= q
        BY <1>7, <2>6, <4>1
      <4> HIDE DEF t
      <4>3. t >= p
        BY <2>6, <4>2
      <4> QED
        BY <4>1, <4>3
    <3> QED
      BY <3>1, <3>2
  <2>8. \A e \in DOMAIN content' : content'[e].index >= Grain * (Elapsed' - 1)
    BY <2>3, <2>7 DEF p
  <2> QED
    BY <1>1, <1>2, <2>1, <2>8
<1>9. CASE ~(Truncated(fx - Grain * tind) < cyc)
  <2>1. CPU_CycleLeft' = CPU_CycleLeft /\ CPU_Cycles' = cyc
    BY <1>6, <1>9 DEF EndSliceIfDue, tind, cyc, cycleVars
  <2>2. Elapsed' = Elapsed
    BY <2>1 DEF Elapsed
  <2>3. x >= Grain * ((tind + cyc) - 1)
    BY <1>1, <1>2, <1>3, <1>5, <1>9, AddNumbers
  <2>4. tind + cyc = Elapsed
    BY <1>1
  <2>5. x >= Grain * (Elapsed - 1)
    BY <2>3, <2>4
  <2>6. ASSUME NEW e \in DOMAIN content'
        PROVE  content'[e].index >= Grain * (Elapsed - 1)
    <3>1. CASE e = e0
      BY <1>4, <2>5, <3>1
    <3>2. CASE e # e0
      <4>1. e \in DOMAIN content /\ content'[e].index = content[e].index
        BY <1>4, <3>2
      <4> QED
        BY <1>2, <4>1
    <3> QED
      BY <3>1, <3>2
  <2>7. \A e \in DOMAIN content' : content'[e].index >= Grain * (Elapsed' - 1)
    BY <2>2, <2>6
  <2> QED
    BY <1>1, <1>2, <2>1, <2>7
<1> QED
  BY <1>8, <1>9

-----------------------------------------------------------------------------
(* The steps of the loop that change the pool.                              *)

\* The first entry of the queue is held, and the rest stays.
Starts(n, f, m, g) ==
  /\ n > 0 /\ entry' = f[0] /\ entry' \in Entries /\ content' = content
  /\ Pooled(next', next_entry', free_entry', entry', n - 1, Without(f, n, 0), m, g)
  /\ Contents(content', n - 1, Without(f, n, 0), entry')
  /\ Sorted(content', n - 1, Without(f, n, 0))

LEMMA DispatchDoes ==
  ASSUME NEW n, NEW f, NEW m, NEW g, Pools(n, f, m, g), Types, Dispatch
  PROVE  Starts(n, f, m, g) /\ entry' # NULL
<1> DEFINE hq == next_entry
           f2 == Without(f, n, 0)
<1>1. /\ next' = next /\ next_entry' = next[hq] /\ free_entry' = free_entry
      /\ entry' = hq /\ content' = content /\ hq # NULL /\ entry = NULL
  BY DEF Dispatch, Due, Types
<1>2. /\ Pooled(next, hq, free_entry, NULL, n, f, m, g)
      /\ Contents(content, n, f, NULL) /\ Sorted(content, n, f) /\ n \in Nat
  BY <1>1 DEF Pools, Pooled
<1>3. /\ Pooled(next, next[hq], free_entry, hq, n - 1, f2, m, g)
      /\ On(n - 1, f2) = On(n, f) \ {hq}
      /\ hq \in On(n, f) /\ hq = f[0] /\ n > 0 /\ hq \in Entries
  BY <1>1, <1>2, StartPool
<1>4. ASSUME NEW i \in 0..n - 2
      PROVE  f2[i] = f[i + 1] /\ i + 1 \in 0..n - 1
  <2>1. i \in 0..n - 1 /\ ~(i < 0)
    BY <1>2
  <2> QED
    BY <1>2, <2>1 DEF Without
<1> HIDE DEF hq, f2
<1>5. Contents(content, n - 1, f2, hq)
  BY <1>1, <1>2, <1>3 DEF Contents
<1>6. Sorted(content, n - 1, f2)
  <2>1. (n - 1) - 1 = n - 2
    BY <1>2
  <2>2. ASSUME NEW i \in 0..n - 2, NEW j \in 0..n - 2, i < j
        PROVE  content[f2[i]].index <= content[f2[j]].index
    <3>1. /\ f2[i] = f[i + 1] /\ i + 1 \in 0..n - 1
          /\ f2[j] = f[j + 1] /\ j + 1 \in 0..n - 1
      BY <1>4
    <3>2. i + 1 < j + 1
      BY <2>2
    <3> QED
      BY <1>2, <3>1, <3>2 DEF Sorted
  <2> QED
    BY <2>1, <2>2 DEF Sorted
<1>7. /\ Pooled(next', next_entry', free_entry', entry', n - 1, f2, m, g)
      /\ Contents(content', n - 1, f2, entry') /\ Sorted(content', n - 1, f2)
  BY <1>1, <1>3, <1>5, <1>6
<1> QED
  BY <1>1, <1>3, <1>7 DEF Starts, hq, f2

\* The held entry is freed, and the queue is as it was.
Finishes(n, f, m, g) ==
  /\ Pooled(next', next_entry', free_entry', NULL, n, f, m + 1, Put(g, m, 0, entry))
  /\ Contents(content', n, f, NULL) /\ Sorted(content', n, f)
  /\ \A e \in On(n, f) : e \in DOMAIN content /\ content'[e] = content[e]

LEMMA ReturnDoes ==
  ASSUME NEW n, NEW f, NEW m, NEW g, Pools(n, f, m, g), next \in Links, Types, HandlerReturns
  PROVE  next' \in Links /\ Finishes(n, f, m, g) /\ entry' = NULL /\ entry \in Entries
<1> DEFINE nx2 == [next EXCEPT ![entry] = free_entry]
           c2 == [e \in DOMAIN content \ {entry} |-> content[e]]
<1>1. /\ next' = nx2 /\ next_entry' = next_entry /\ free_entry' = entry
      /\ entry' = NULL /\ content' = c2 /\ entry # NULL
  BY DEF HandlerReturns, Types
<1>2. /\ Pooled(next, next_entry, free_entry, entry, n, f, m, g)
      /\ Contents(content, n, f, entry) /\ Sorted(content, n, f) /\ n \in Nat
      /\ entry \in Entries /\ entry \notin On(n, f)
      /\ next \in [Entries -> Entries \cup {NULL}]
  BY <1>1 DEF Pools, Pooled, Links
<1>3. /\ Pooled(nx2, next_entry, entry, NULL, n, f, m + 1, Put(g, m, 0, entry))
      /\ free_entry \in Entries \cup {NULL}
  <2> HIDE DEF nx2
  <2>1. nx2 = [next EXCEPT ![entry] = free_entry]
    BY DEF nx2
  <2> QED
    BY <1>2, <2>1, FinishPool
<1>4. nx2 \in Links
  BY <1>2, <1>3 DEF Links
<1>5. \A e \in On(n, f) : e \in DOMAIN content /\ e \in DOMAIN c2 /\ c2[e] = content[e]
  BY <1>2 DEF Contents
<1>6. Contents(c2, n, f, NULL)
  <2>1. DOMAIN c2 = On(n, f)
    BY <1>1, <1>2 DEF Contents
  <2>2. \A e \in DOMAIN c2 : c2[e] \in [event : Events, index : Int]
    BY <1>2 DEF Contents
  <2> HIDE DEF c2
  <2> QED
    BY <2>1, <2>2 DEF Contents
<1> HIDE DEF c2, nx2
<1>7. Sorted(c2, n, f)
  <2>1. \A i \in 0..n - 1 : f[i] \in On(n, f)
    BY DEF On
  <2> QED
    BY <1>2, <1>5, <2>1 DEF Sorted
<1>8. /\ Pooled(next', next_entry', free_entry', NULL, n, f, m + 1, Put(g, m, 0, entry))
      /\ Contents(content', n, f, NULL) /\ Sorted(content', n, f)
      /\ \A e \in On(n, f) : e \in DOMAIN content /\ content'[e] = content[e]
  BY <1>1, <1>3, <1>5, <1>6, <1>7
<1> QED
  BY <1>1, <1>2, <1>4, <1>8 DEF Finishes

\* The times count from the new millisecond.
Shifts(n, f, m, g) ==
  /\ Pooled(next', next_entry', free_entry', entry, n, f, m, g)
  /\ Contents(content', n, f, entry) /\ Sorted(content', n, f)
  /\ \A e \in On(n, f) : /\ e \in DOMAIN content
                         /\ content'[e] = [content[e] EXCEPT !.index = @ - Grain * CPU_CycleMax]

LEMMA TickDoes ==
  ASSUME NEW n, NEW f, NEW m, NEW g, Pools(n, f, m, g), AddTick
  PROVE  Shifts(n, f, m, g) /\ next' = next /\ entry' = entry
<1> DEFINE gm == Grain * CPU_CycleMax
           c2 == [e \in DOMAIN content |-> [content[e] EXCEPT !.index = @ - gm]]
<1>1. /\ next' = next /\ next_entry' = next_entry /\ free_entry' = free_entry
      /\ entry' = entry /\ content' = c2
  BY DEF AddTick, serviceVars
<1>2. /\ Pooled(next, next_entry, free_entry, entry, n, f, m, g)
      /\ Contents(content, n, f, entry) /\ Sorted(content, n, f) /\ n \in Nat
  BY DEF Pools, Pooled
<1>3. gm \in Int
  BY NumbersAre, GrainTimes
<1> HIDE DEF gm
<1>4. ASSUME NEW e \in DOMAIN content
      PROVE  /\ c2[e] \in [event : Events, index : Int]
             /\ c2[e].index = content[e].index - gm /\ content[e].index \in Int
             /\ c2[e] = [content[e] EXCEPT !.index = @ - gm]
  <2>1. content[e] \in [event : Events, index : Int]
    BY <1>2 DEF Contents
  <2> QED
    BY <1>3, <2>1
<1>5. DOMAIN c2 = DOMAIN content
  OBVIOUS
<1> HIDE DEF c2
<1>6. Contents(c2, n, f, entry)
  BY <1>2, <1>4, <1>5 DEF Contents
<1>7. \A i \in 0..n - 1 : f[i] \in DOMAIN content
  BY <1>2, IndexType
<1>8. ASSUME NEW i \in 0..n - 1, NEW j \in 0..n - 1, i < j
      PROVE  c2[f[i]].index <= c2[f[j]].index
  <2> DEFINE a == content[f[i]].index
             b == content[f[j]].index
  <2>1. a <= b /\ a \in Int /\ b \in Int
    BY <1>2, <1>4, <1>7, <1>8 DEF Sorted
  <2>2. c2[f[i]].index = a - gm /\ c2[f[j]].index = b - gm
    BY <1>4, <1>7
  <2> HIDE DEF a, b
  <2>3. a - gm <= b - gm
    BY <1>3, <2>1
  <2> QED
    BY <2>2, <2>3
<1>9. Sorted(c2, n, f)
  BY <1>8 DEF Sorted
<1>10. \A e \in On(n, f) : e \in DOMAIN content /\ c2[e] = [content[e] EXCEPT !.index = @ - gm]
  BY <1>2, <1>4 DEF Contents
<1>11. /\ Pooled(next', next_entry', free_entry', entry, n, f, m, g)
       /\ Contents(content', n, f, entry) /\ Sorted(content', n, f)
       /\ \A e \in On(n, f) : e \in DOMAIN content
                              /\ content'[e] = [content[e] EXCEPT !.index = @ - gm]
  BY <1>1, <1>2, <1>6, <1>9, <1>10
<1> QED
  BY <1>1, <1>11 DEF Shifts, gm

\* Nothing changes in the pool.
LEMMA PoolStays ==
  ASSUME NEW n, NEW f, NEW m, NEW g, Pools(n, f, m, g), UNCHANGED <<poolVars, entry>>
  PROVE  Pools(n, f, m, g)' /\ next' = next
BY DEF Pools, poolVars

-----------------------------------------------------------------------------
(* Every step keeps the invariant.                                         *)

LEMMA InRange ==
  ASSUME NEW M \in Int, NEW a \in Int, NEW b \in Int, a >= 0, b >= 0, a + b <= M
  PROVE  a \in -1..M /\ b \in -1..M
OBVIOUS

LEMMA InitSound == Init => QueueInv
<1> SUFFICES ASSUME Init
             PROVE  QueueInv
  OBVIOUS
<1> DEFINE f == [i \in 0..0 |-> NULL]
           g == [i \in 0..PIC_QUEUESIZE |-> IF i = PIC_QUEUESIZE THEN NULL ELSE i + 1]
           z == 0
           one == 1
<1>1. /\ next = [e \in Entries |-> IF e = PIC_QUEUESIZE THEN NULL ELSE e + 1]
      /\ free_entry = one /\ next_entry = NULL /\ content = <<>> /\ entry = NULL
      /\ PIC_QUEUESIZE \in Nat \ {0}
  BY EntriesAre DEF Init
<1>2. Pooled(next, NULL, one, NULL, z, f, PIC_QUEUESIZE, g)
  BY <1>1, InitPool
<1>3. next \in Links
  <2>1. \A e \in Entries : (IF e = PIC_QUEUESIZE THEN NULL ELSE e + 1) \in Entries \cup {NULL}
    BY <1>1 DEF Entries
  <2> QED
    BY <1>1, <2>1 DEF Links
<1>4. DOMAIN content = {}
  BY <1>1
<1>5. On(z, f) = {} /\ \A i \in 0..z - 1 : FALSE
  BY DEF On
<1> HIDE DEF f, g, z, one
<1>6. Contents(content, z, f, entry) /\ Sorted(content, z, f)
  BY <1>1, <1>4, <1>5 DEF Contents, Sorted
<1>7. Pools(z, f, PIC_QUEUESIZE, g)
  BY <1>1, <1>2, <1>6 DEF Pools
<1>8. PoolInv
  BY <1>3, <1>7 DEF PoolInv
<1>9. Types
  <2>1. /\ CPU_CycleLeft = 0 /\ CPU_Cycles = 0 /\ InEventService = FALSE /\ index_nd = 0
        /\ calls = 0 /\ srv_lag = 0 /\ pc = "loop" /\ entry = NULL
    BY DEF Init
  <2>2. /\ CPU_CycleLeft \in -1..CPU_CycleMax /\ CPU_Cycles \in -1..CPU_CycleMax
        /\ index_nd \in 0..CPU_CycleMax /\ calls \in 0..MaxCalls /\ srv_lag \in Int
    BY <2>1, NumbersAre
  <2>3. (pc \in {"service", "handler"}) = FALSE /\ (pc = "handler") = FALSE
    BY <2>1
  <2>4. (entry # NULL) = FALSE
    BY <2>1
  <2> QED
    BY <2>1, <2>2, <2>3, <2>4, Zenon DEF Types
<1>10. Phases /\ SliceInv
  BY NumbersAre DEF Init, Phases, SliceInv
<1> QED
  BY <1>8, <1>9, <1>10 DEF QueueInv

LEMMA CallIs ==
  ASSUME Call
  PROVE  \/ \E ev \in Events, d \in Delays : AddEvent(ev, d)
         \/ \E E \in SUBSET Events : RemoveAll(E)
<1>1. CASE \E ev \in Events, d \in Delays : AddEvent(ev, d)
  BY <1>1
<1>2. CASE \E h \in Handlers : RemoveEvents(h)
  <2>1. PICK h \in Handlers : RemoveAll({h} \X Values)
    BY <1>2 DEF RemoveEvents
  <2>2. {h} \X Values \in SUBSET Events
    BY DEF Events
  <2> QED
    BY <2>1, <2>2
<1>3. CASE \E h \in Handlers, v \in Values : RemoveSpecificEvents(h, v)
  <2>1. PICK h \in Handlers, v \in Values : RemoveAll({<<h, v>>})
    BY <1>3 DEF RemoveSpecificEvents
  <2>2. {<<h, v>>} \in SUBSET Events
    BY DEF Events
  <2> QED
    BY <2>1, <2>2
<1> QED
  BY <1>1, <1>2, <1>3, Zenon DEF Call

\* What a call leaves of the time that is left.
LEMMA CutKeeps ==
  ASSUME Types, NEW fx, EndSliceIfDue(fx), CPU_Cycles = 0
  PROVE  CPU_CycleLeft' = CPU_CycleLeft /\ CPU_Cycles' = 0
<1>1. \/ CPU_CycleLeft' = CPU_CycleLeft + CPU_Cycles /\ CPU_Cycles' = 0
      \/ UNCHANGED cycleVars
  <2> DEFINE c == Truncated(fx - Grain * TickIndexND)
  <2>1. IF c < CPU_Cycles
        THEN CPU_CycleLeft' = CPU_CycleLeft + CPU_Cycles /\ CPU_Cycles' = 0
        ELSE UNCHANGED cycleVars
    BY Zenon DEF EndSliceIfDue
  <2> HIDE DEF c
  <2> QED
    BY <2>1
<1> QED
  BY <1>1, TimesAre DEF cycleVars

LEMMA CallSound ==
  ASSUME QueueInv, Call, pc \in {"handler", "ticking", "instruction"},
         UNCHANGED <<serviceVars, pc>>, calls < MaxCalls, calls' = calls + 1
  PROVE  QueueInv'
<1>1. PICK n, f, m, g : Pools(n, f, m, g)
  BY DEF QueueInv, PoolInv
<1>2. /\ next \in Links /\ Types /\ Phases /\ SliceInv
      /\ entry' = entry /\ pc' = pc /\ InEventService' = InEventService
      /\ srv_lag' = srv_lag /\ index_nd' = index_nd
      /\ n \in Nat
  BY <1>1 DEF QueueInv, PoolInv, serviceVars, Pools, Pooled
<1>3. calls' \in 0..MaxCalls
  BY <1>2, NumbersAre DEF Types
<1>4. CASE UNCHANGED <<poolVars, cycleVars>>
  <2>1. PoolInv'
    BY <1>1, <1>2, <1>4, PoolStays DEF PoolInv
  <2>2. Types'
    BY <1>2, <1>3, <1>4 DEF Types, cycleVars
  <2>3. Phases'
    BY <1>2, <1>4 DEF Phases, cycleVars, Elapsed
  <2>4. SliceInv'
    BY <1>2, <1>4 DEF SliceInv, cycleVars, poolVars, Elapsed
  <2> QED
    BY <2>1, <2>2, <2>3, <2>4 DEF QueueInv
<1>5. CASE \E E \in SUBSET Events : RemoveAll(E)
  <2>1. PICK E \in SUBSET Events : RemoveAll(E)
    BY <1>5
  <2>2. next' \in Links /\ \E R, len, u, place : RemovesTo(E, n, f, R, len, u, place)
    BY <1>1, <1>2, <2>1, RemoveAllDoes
  <2>3. PICK R, len, u, place : RemovesTo(E, n, f, R, len, u, place)
    BY <2>2
  <2>4. PoolInv'
    <3>1. \E m2, g2 : Pools(len, u, m2, g2)'
      BY <1>2, <2>3 DEF RemovesTo, Pools
    <3> QED
      BY <2>2, <3>1 DEF PoolInv, Links
  <2>5. CPU_CycleLeft' = CPU_CycleLeft /\ CPU_Cycles' = CPU_Cycles
    BY <2>1 DEF RemoveAll, cycleVars
  <2>6. Types'
    BY <1>2, <1>3, <2>5 DEF Types
  <2>7. Phases'
    BY <1>2, <2>5 DEF Phases, Elapsed
  <2>8. \A e \in DOMAIN content' : e \in DOMAIN content /\ content'[e] = content[e]
    BY <2>3 DEF RemovesTo
  <2>9. SliceInv'
    BY <1>2, <2>5, <2>8 DEF SliceInv, Elapsed
  <2> QED
    BY <2>4, <2>6, <2>7, <2>9 DEF QueueInv
<1>6. CASE free_entry # NULL /\ \E ev \in Events, d \in Delays : AddEvent(ev, d)
  <2>1. PICK ev \in Events, d \in Delays : AddEvent(ev, d)
    BY <1>6
  <2> DEFINE x == d + Base
  <2>2. x = d + Base
    OBVIOUS
  <2> HIDE DEF x
  <2>3. /\ next' \in Links
        /\ \E k : AddsAt(n, f, m, g, k, ev, x)
        /\ EndSliceIfDue(content'[next_entry'].index)
    BY <1>1, <1>2, <1>6, <2>1, <2>2, AddDoes
  <2>4. PICK k : AddsAt(n, f, m, g, k, ev, x)
    BY <2>3
  <2>5. PoolInv'
    <3>1. PICK f2, g2 : f2 = Put(f, n, k, free_entry) /\ g2 = Without(g, m, 0)
      OBVIOUS
    <3>2. Pools(n + 1, f2, m - 1, g2)'
      BY <1>2, <2>4, <3>1 DEF AddsAt, Pools
    <3> QED
      BY <2>3, <3>2 DEF PoolInv, Links
  <2>6. CASE pc \in {"handler", "ticking"}
    <3>1. CPU_Cycles = 0
      BY <1>2, <2>6 DEF Phases
    <3>2. CPU_CycleLeft' = CPU_CycleLeft /\ CPU_Cycles' = 0
      BY <1>2, <2>3, <3>1, CutKeeps
    <3>3. Types'
      BY <1>2, <1>3, <3>1, <3>2 DEF Types
    <3>4. Phases'
      BY <1>2, <3>1, <3>2 DEF Phases, Elapsed
    <3>5. SliceInv'
      BY <1>2, <2>6 DEF SliceInv
    <3> QED
      BY <2>5, <3>3, <3>4, <3>5 DEF QueueInv
  <2>7. CASE pc = "instruction"
    <3>1. /\ CPU_CycleLeft' >= 0 /\ CPU_Cycles' >= 0
          /\ CPU_CycleLeft' + CPU_Cycles' <= CPU_CycleMax
          /\ \A e \in DOMAIN content' : content'[e].index >= Grain * (Elapsed' - 1)
      BY <1>2, <2>2, <2>3, <2>4, <2>7, AddInTime
    <3>2. CPU_CycleLeft' \in Int /\ CPU_Cycles' \in Int
      <4> DEFINE c == Truncated(content'[next_entry'].index - Grain * TickIndexND)
      <4>1. IF c < CPU_Cycles
            THEN CPU_CycleLeft' = CPU_CycleLeft + CPU_Cycles /\ CPU_Cycles' = 0
            ELSE UNCHANGED cycleVars
        BY <2>3, Zenon DEF EndSliceIfDue
      <4> HIDE DEF c
      <4> QED
        BY <1>2, <4>1, TimesAre DEF cycleVars
    <3>3. CPU_CycleLeft' \in -1..CPU_CycleMax /\ CPU_Cycles' \in -1..CPU_CycleMax
      <4>1. /\ CPU_CycleLeft' >= 0 /\ CPU_Cycles' >= 0
            /\ CPU_CycleLeft' + CPU_Cycles' <= CPU_CycleMax
        BY <3>1
      <4>2. CPU_CycleMax \in Int
        BY NumbersAre
      <4> QED
        BY <3>2, <4>1, <4>2, InRange
    <3>4. Types'
      BY <1>2, <1>3, <3>3 DEF Types
    <3>5. Phases'
      BY <1>2, <2>7, <3>1 DEF Phases
    <3>6. SliceInv'
      BY <3>1 DEF SliceInv
    <3> QED
      BY <2>5, <3>4, <3>5, <3>6 DEF QueueInv
  <2> QED
    BY <2>6, <2>7
<1>7. CASE free_entry = NULL /\ \E ev \in Events, d \in Delays : AddEvent(ev, d)
  <2>1. UNCHANGED <<poolVars, cycleVars>>
    BY <1>7, Zenon DEF AddEvent
  <2> QED
    BY <1>4, <2>1
<1> QED
  BY <1>5, <1>6, <1>7, CallIs

\* The slice that PIC_RunQueue gives the program: the numbers.
LEMMA SliceNumbers ==
  ASSUME NEW x \in Int, NEW nd \in Int, NEW left \in Int, left >= 1, x > Grain * nd,
         NEW c, c = Truncated(x - Grain * nd),
         NEW some, some = (IF c = 0 THEN 1 ELSE c),
         NEW s, s = (IF some < left THEN some ELSE left)
  PROVE  s \in 1..left /\ x >= Grain * ((nd + s) - 1)
<1> DEFINE gn == Grain * nd
           d == x - gn
<1>1. gn \in Int /\ x > gn
  BY GrainTimes
<1> HIDE DEF gn
<1>2. d \in Int /\ d >= 0 /\ d = x - gn
  BY <1>1
<1> HIDE DEF d
<1>3. c = Truncated(d)
  BY DEF d, gn
<1>4. c \in Int /\ c >= 0 /\ Grain * c <= d
  BY <1>2, <1>3, TruncatedIs
<1>5. s \in Int /\ s >= 1 /\ s <= left /\ (c = 0 => s = 1) /\ (c # 0 => s <= c)
  BY <1>4
<1>6. CASE c = 0
  <2>1. (nd + s) - 1 = nd
    BY <1>5, <1>6
  <2>2. x >= gn
    BY <1>1
  <2>3. x >= Grain * nd
    BY <2>2 DEF gn
  <2> QED
    BY <1>5, <2>1, <2>3
<1>7. CASE c # 0
  <2> DEFINE t == s - 1
             gt == Grain * t
             gc == Grain * c
  <2>1. t \in Int /\ t <= c
    BY <1>4, <1>5, <1>7
  <2> HIDE DEF t
  <2>2. gt <= gc /\ gt \in Int /\ gc \in Int
    BY <1>4, <2>1, GrainMonotone, GrainTimes
  <2>3. Grain * (nd + t) = gn + gt
    BY <2>1, NumbersAre DEF gn
  <2>4. gc <= d
    BY <1>4
  <2> HIDE DEF gt, gc
  <2>5. x >= gn + gt
    BY <1>1, <1>2, <2>2, <2>4
  <2>6. nd + t = (nd + s) - 1
    BY <1>5 DEF t
  <2>7. x >= Grain * (nd + t)
    BY <2>3, <2>5
  <2> QED
    BY <1>5, <2>6, <2>7
<1> QED
  BY <1>6, <1>7

LEMMA EnterSound ==
  ASSUME QueueInv, EnterQueue
  PROVE  QueueInv'
<1>1. PICK n, f, m, g : Pools(n, f, m, g)
  BY DEF QueueInv, PoolInv
<1>2. next \in Links /\ Types /\ Phases
  BY DEF QueueInv, PoolInv
<1> DEFINE left == CPU_CycleLeft + CPU_Cycles
           M == CPU_CycleMax
<1>3. /\ pc = "loop" /\ CPU_CycleLeft' = left /\ CPU_Cycles' = 0 /\ UNCHANGED poolVars
      /\ entry' = entry /\ calls' = calls /\ srv_lag' = srv_lag
  BY DEF EnterQueue, serviceVars
<1>4. left \in Int /\ left >= -1 /\ left <= M /\ M \in Int /\ M > 0
  BY <1>2, <1>3, NumbersAre, TimesAre DEF Types, Phases
<1>5. /\ left <= 0 => pc' = "tick" /\ InEventService' = InEventService /\ index_nd' = index_nd
      /\ ~(left <= 0) => pc' = "service" /\ InEventService' = TRUE /\ index_nd' = M - left
  BY <1>3, <1>4 DEF EnterQueue, serviceVars
<1>6. PoolInv'
  <2>1. Pools(n, f, m, g)' /\ next' = next
    BY <1>1, <1>3, PoolStays
  <2> QED
    BY <1>2, <2>1 DEF PoolInv
<1>7. entry = NULL /\ InEventService = FALSE
  <2>1. (pc \in {"service", "handler"}) = FALSE /\ (pc = "handler") = FALSE
    BY <1>3
  <2> QED
    BY <1>2, <2>1, Zenon DEF Types
<1> HIDE DEF left, M
<1>8. /\ left \in -1..M /\ 0 \in -1..M
      /\ ~(left <= 0) => left >= 1 /\ M - left \in 0..M
  BY <1>4
<1>9. Elapsed' = M - left
  BY <1>3 DEF Elapsed, M
<1>10. CASE left <= 0
  <2>1. pc' = "tick" /\ InEventService' = FALSE /\ index_nd' = index_nd /\ entry' = NULL
    BY <1>3, <1>5, <1>7, <1>10
  <2>2. (pc' \in {"service", "handler"}) = FALSE /\ (pc' = "handler") = FALSE
        /\ (entry' # NULL) = FALSE
    BY <2>1
  <2>3. /\ CPU_CycleLeft' \in -1..CPU_CycleMax /\ CPU_Cycles' \in -1..CPU_CycleMax
        /\ index_nd' \in 0..CPU_CycleMax /\ calls' \in 0..MaxCalls /\ srv_lag' \in Int
        /\ pc' \in {"loop", "service", "handler", "tick", "ticking", "program", "instruction"}
    BY <1>2, <1>3, <1>8, <2>1 DEF Types, M
  <2>4. Types'
    BY <2>1, <2>2, <2>3, Zenon DEF Types
  <2>5. Phases' /\ SliceInv'
    BY <1>3, <2>1 DEF Phases, SliceInv
  <2> QED
    BY <1>6, <2>4, <2>5 DEF QueueInv
<1>11. CASE ~(left <= 0)
  <2>1. pc' = "service" /\ InEventService' = TRUE /\ index_nd' = M - left /\ entry' = NULL
    BY <1>3, <1>5, <1>7, <1>11
  <2>2. (pc' \in {"service", "handler"}) = TRUE /\ (pc' = "handler") = FALSE
        /\ (entry' # NULL) = FALSE
    BY <2>1
  <2>3. /\ CPU_CycleLeft' \in -1..CPU_CycleMax /\ CPU_Cycles' \in -1..CPU_CycleMax
        /\ index_nd' \in 0..CPU_CycleMax /\ calls' \in 0..MaxCalls /\ srv_lag' \in Int
        /\ pc' \in {"loop", "service", "handler", "tick", "ticking", "program", "instruction"}
    BY <1>2, <1>3, <1>8, <1>11, <2>1 DEF Types, M
  <2>4. Types'
    BY <2>1, <2>2, <2>3, Zenon DEF Types
  <2>5. Phases' /\ SliceInv'
    BY <1>3, <1>8, <1>9, <1>11, <2>1 DEF Phases, SliceInv
  <2> QED
    BY <1>6, <2>4, <2>5 DEF QueueInv
<1> QED
  BY <1>10, <1>11

LEMMA DispatchSound ==
  ASSUME QueueInv, Dispatch
  PROVE  QueueInv'
<1>1. PICK n, f, m, g : Pools(n, f, m, g)
  BY DEF QueueInv, PoolInv
<1>2. next \in Links /\ Types /\ Phases
  BY DEF QueueInv, PoolInv
<1>3. Starts(n, f, m, g) /\ entry' # NULL
  BY <1>1, <1>2, DispatchDoes
<1>4. /\ pc = "service" /\ pc' = "handler" /\ calls' = 0 /\ next' = next
      /\ CPU_CycleLeft' = CPU_CycleLeft /\ CPU_Cycles' = CPU_Cycles
      /\ InEventService' = InEventService /\ index_nd' = index_nd
      /\ srv_lag' = content[next_entry].index /\ next_entry # NULL
  BY DEF Dispatch, Due, cycleVars
<1>5. PoolInv'
  <2>1. PICK f2 : f2 = Without(f, n, 0)
    OBVIOUS
  <2>2. Pools(n - 1, f2, m, g)'
    BY <1>3, <2>1 DEF Starts, Pools
  <2>3. next' \in Links
    BY <1>2, <1>4
  <2> QED
    BY <2>2, <2>3 DEF PoolInv, Links
<1>6. srv_lag' \in Int
  <2>1. /\ IsList(next, next_entry, n, f) /\ n \in Nat
        /\ Contents(content, n, f, entry) /\ Sorted(content, n, f)
    BY <1>1 DEF Pools, Pooled
  <2>2. First(content, next_entry, n, f)
    BY <1>4, <2>1, HeadFirst
  <2> QED
    BY <1>4, <2>2 DEF First
<1>7. Types'
  <2>1. InEventService = TRUE
    BY <1>2, <1>4 DEF Types
  <2>2. (pc' \in {"service", "handler"}) = TRUE /\ (pc' = "handler") = TRUE
        /\ (entry' # NULL) = TRUE
    BY <1>3, <1>4
  <2>3. /\ CPU_CycleLeft' \in -1..CPU_CycleMax /\ CPU_Cycles' \in -1..CPU_CycleMax
        /\ index_nd' \in 0..CPU_CycleMax /\ calls' \in 0..MaxCalls
        /\ pc' \in {"loop", "service", "handler", "tick", "ticking", "program", "instruction"}
    BY <1>2, <1>4, NumbersAre DEF Types
  <2> QED
    BY <1>4, <1>6, <2>1, <2>2, <2>3, Zenon DEF Types
<1>8. Phases' /\ SliceInv'
  BY <1>2, <1>4 DEF Phases, SliceInv, Elapsed
<1> QED
  BY <1>5, <1>7, <1>8 DEF QueueInv

LEMMA ReturnSound ==
  ASSUME QueueInv, HandlerReturns
  PROVE  QueueInv'
<1>1. PICK n, f, m, g : Pools(n, f, m, g)
  BY DEF QueueInv, PoolInv
<1>2. next \in Links /\ Types /\ Phases
  BY DEF QueueInv, PoolInv
<1>3. next' \in Links /\ Finishes(n, f, m, g) /\ entry' = NULL /\ entry \in Entries
  BY <1>1, <1>2, ReturnDoes
<1>4. /\ pc = "handler" /\ pc' = "service" /\ calls' = 0
      /\ CPU_CycleLeft' = CPU_CycleLeft /\ CPU_Cycles' = CPU_Cycles
      /\ InEventService' = InEventService /\ index_nd' = index_nd /\ srv_lag' = srv_lag
  BY DEF HandlerReturns, cycleVars
<1>5. PoolInv'
  <2>1. PICK g2 : g2 = Put(g, m, 0, entry)
    OBVIOUS
  <2>2. Pools(n, f, m + 1, g2)'
    BY <1>3, <2>1 DEF Finishes, Pools
  <2> QED
    BY <1>3, <2>2 DEF PoolInv, Links
<1>6. Types'
  <2>1. InEventService = TRUE
    BY <1>2, <1>4 DEF Types
  <2>2. (pc' \in {"service", "handler"}) = TRUE /\ (pc' = "handler") = FALSE
        /\ (entry' # NULL) = FALSE
    BY <1>3, <1>4
  <2>3. /\ CPU_CycleLeft' \in -1..CPU_CycleMax /\ CPU_Cycles' \in -1..CPU_CycleMax
        /\ index_nd' \in 0..CPU_CycleMax /\ calls' \in 0..MaxCalls /\ srv_lag' \in Int
        /\ pc' \in {"loop", "service", "handler", "tick", "ticking", "program", "instruction"}
    BY <1>2, <1>4, NumbersAre DEF Types
  <2> QED
    BY <1>4, <2>1, <2>2, <2>3, Zenon DEF Types
<1>7. Phases' /\ SliceInv'
  BY <1>2, <1>4 DEF Phases, SliceInv, Elapsed
<1> QED
  BY <1>5, <1>6, <1>7 DEF QueueInv

LEMMA LeaveSound ==
  ASSUME QueueInv, LeaveQueue
  PROVE  QueueInv'
<1>1. PICK n, f, m, g : Pools(n, f, m, g)
  BY DEF QueueInv, PoolInv
<1>2. next \in Links /\ Types /\ Phases
  BY DEF QueueInv, PoolInv
<1>3. /\ pc = "service" /\ ~Due /\ InEventService' = FALSE
      /\ CPU_Cycles' = Slice /\ CPU_CycleLeft' = CPU_CycleLeft - Slice
      /\ srv_lag' = 0 /\ index_nd' = 0 /\ pc' = "program"
      /\ UNCHANGED poolVars /\ entry' = entry /\ calls' = calls
  BY DEF LeaveQueue
<1>4. PoolInv'
  <2>1. Pools(n, f, m, g)' /\ next' = next
    BY <1>1, <1>3, PoolStays
  <2> QED
    BY <1>2, <2>1 DEF PoolInv
<1> DEFINE s == Slice
           left == CPU_CycleLeft
           M == CPU_CycleMax
           nd == index_nd
<1>5. left \in Int /\ left >= 1 /\ left <= M /\ nd = M - left /\ M \in Int /\ nd \in Int
  BY <1>2, <1>3, NumbersAre, TimesAre DEF Types, Phases, Elapsed
<1>6. entry = NULL
  <2>1. (pc = "handler") = FALSE
    BY <1>3
  <2> QED
    BY <1>2, <2>1, Zenon DEF Types
<1>7. /\ IsList(next, next_entry, n, f) /\ n \in Nat
      /\ Contents(content, n, f, entry) /\ Sorted(content, n, f)
      /\ DOMAIN content = On(n, f)
  <2>1. /\ IsList(next, next_entry, n, f) /\ n \in Nat
        /\ Contents(content, n, f, entry) /\ Sorted(content, n, f)
    BY <1>1 DEF Pools, Pooled
  <2> QED
    BY <1>6, <2>1 DEF Contents
<1>8. ASSUME next_entry = NULL
      PROVE  /\ s \in 1..left
             /\ \A e \in DOMAIN content : content[e].index >= Grain * ((nd + s) - 1)
  <2>1. s = left
    BY <1>8, Zenon DEF Slice
  <2>2. DOMAIN content = {}
    <3>1. n = 0
      BY <1>7, <1>8, ListEnds
    <3> QED
      BY <1>7, <3>1 DEF On
  <2> HIDE DEF s
  <2> QED
    BY <1>5, <2>1, <2>2
<1>9. ASSUME next_entry # NULL
      PROVE  /\ s \in 1..left
             /\ \A e \in DOMAIN content : content[e].index >= Grain * ((nd + s) - 1)
  <2> DEFINE x == content[next_entry].index
             c == Truncated(x - Grain * nd)
             some == IF c = 0 THEN 1 ELSE c
  <2>1. First(content, next_entry, n, f)
    BY <1>7, <1>9, HeadFirst
  <2>2. x \in Int /\ \A e \in DOMAIN content : content[e].index \in Int /\ x <= content[e].index
    BY <1>7, <2>1 DEF First
  <2>3. ~(x <= Grain * nd)
    BY <1>3, <1>9 DEF Due
  <2>4. s = IF some < left THEN some ELSE left
    BY <1>9, Zenon DEF Slice
  <2>5. Grain * nd \in Int
    BY <1>5, GrainTimes
  <2> HIDE DEF x
  <2>6. x > Grain * nd
    <3> DEFINE p == Grain * nd
    <3>1. p \in Int /\ ~(x <= p)
      BY <2>3, <2>5
    <3> HIDE DEF p
    <3>2. x > p
      BY <2>2, <3>1
    <3> QED
      BY <3>2 DEF p
  <2> HIDE DEF s
  <2>7. s \in 1..left /\ x >= Grain * ((nd + s) - 1)
    <3>1. c = Truncated(x - Grain * nd) /\ some = (IF c = 0 THEN 1 ELSE c)
      OBVIOUS
    <3> HIDE DEF c, some, left, nd
    <3> QED
      BY <1>5, <2>2, <2>4, <2>6, <3>1, SliceNumbers
  <2> HIDE DEF c, some
  <2>8. ASSUME NEW e \in DOMAIN content
        PROVE  content[e].index >= Grain * ((nd + s) - 1)
    <3> DEFINE p == Grain * ((nd + s) - 1)
               t == content[e].index
    <3>1. (nd + s) - 1 \in Int
      BY <1>5, <2>7
    <3>2. p \in Int
      BY <3>1, GrainTimes
    <3>3. x >= p /\ t \in Int /\ x <= t
      BY <2>2, <2>7
    <3> HIDE DEF p, t
    <3>4. t >= p
      BY <2>2, <3>2, <3>3
    <3> QED
      BY <3>4 DEF p, t
  <2> QED
    BY <2>7, <2>8
<1>10. /\ s \in 1..left
       /\ \A e \in DOMAIN content : content[e].index >= Grain * ((nd + s) - 1)
  BY <1>8, <1>9
<1> HIDE DEF s, left, M, nd
<1>11. /\ CPU_Cycles' = s /\ CPU_CycleLeft' = left - s /\ CPU_CycleMax = M /\ left - s \in Int
       /\ left - s >= 0 /\ s >= 0 /\ (left - s) + s <= M /\ s \in Int
       /\ M - (left - s) = nd + s
  BY <1>3, <1>5, <1>10 DEF s, left, M
<1>12. left - s \in -1..M /\ s \in -1..M
  BY <1>5, <1>11, InRange
<1>13. Elapsed' = nd + s
  BY <1>11 DEF Elapsed
<1>14. Types'
  <2>1. (pc' \in {"service", "handler"}) = FALSE /\ (pc' = "handler") = FALSE
        /\ (entry' # NULL) = FALSE
    BY <1>3, <1>6
  <2>2. /\ CPU_CycleLeft' \in -1..CPU_CycleMax /\ CPU_Cycles' \in -1..CPU_CycleMax
        /\ calls' \in 0..MaxCalls
        /\ pc' \in {"loop", "service", "handler", "tick", "ticking", "program", "instruction"}
    BY <1>2, <1>3, <1>11, <1>12 DEF Types
  <2>3. index_nd' \in 0..CPU_CycleMax /\ srv_lag' \in Int
    BY <1>3, NumbersAre
  <2> QED
    BY <1>3, <2>1, <2>2, <2>3, Zenon DEF Types
<1>15. Phases'
  <2>1. /\ CPU_CycleLeft' >= 0 /\ CPU_Cycles' >= 0
        /\ CPU_CycleLeft' + CPU_Cycles' <= CPU_CycleMax
    BY <1>11
  <2> QED
    BY <1>3, <2>1 DEF Phases
<1>16. SliceInv'
  <2>1. content' = content
    BY <1>3 DEF poolVars
  <2> QED
    BY <1>10, <1>13, <2>1 DEF SliceInv
<1> QED
  BY <1>4, <1>14, <1>15, <1>16 DEF QueueInv

LEMMA AddTickSound ==
  ASSUME QueueInv, AddTick
  PROVE  QueueInv'
<1>1. PICK n, f, m, g : Pools(n, f, m, g)
  BY DEF QueueInv, PoolInv
<1>2. next \in Links /\ Types /\ Phases
  BY DEF QueueInv, PoolInv
<1>3. Shifts(n, f, m, g) /\ next' = next /\ entry' = entry
  BY <1>1, TickDoes
<1>4. /\ pc = "tick" /\ pc' = "ticking" /\ calls' = 0
      /\ CPU_CycleLeft' = CPU_CycleMax /\ CPU_Cycles' = 0
      /\ InEventService' = InEventService /\ index_nd' = index_nd /\ srv_lag' = srv_lag
  BY DEF AddTick, serviceVars
<1>5. PoolInv'
  <2>1. Pools(n, f, m, g)'
    BY <1>3 DEF Shifts, Pools
  <2>2. next' \in Links
    BY <1>2, <1>3
  <2> QED
    BY <2>1, <2>2 DEF PoolInv, Links
<1>6. (pc \in {"service", "handler"}) = FALSE /\ (pc = "handler") = FALSE
  BY <1>4
<1>7. InEventService = FALSE /\ entry = NULL
  BY <1>2, <1>6, Zenon DEF Types
<1>8. Types'
  <2>1. (pc' \in {"service", "handler"}) = FALSE /\ (pc' = "handler") = FALSE
        /\ (entry' # NULL) = FALSE
    BY <1>3, <1>4, <1>7
  <2>2. /\ index_nd' \in 0..CPU_CycleMax /\ calls' \in 0..MaxCalls /\ srv_lag' \in Int
        /\ pc' \in {"loop", "service", "handler", "tick", "ticking", "program", "instruction"}
    BY <1>2, <1>4, NumbersAre DEF Types
  <2>3. CPU_CycleLeft' \in -1..CPU_CycleMax /\ CPU_Cycles' \in -1..CPU_CycleMax
    <3> DEFINE M == CPU_CycleMax
    <3>1. M \in Int /\ M > 0 /\ CPU_CycleLeft' = M /\ CPU_Cycles' = 0
      BY <1>4, NumbersAre
    <3> HIDE DEF M
    <3>2. M \in -1..M /\ 0 \in -1..M
      BY <3>1
    <3>3. CPU_CycleLeft' \in -1..M /\ CPU_Cycles' \in -1..M
      BY <3>1, <3>2
    <3> QED
      BY <3>3 DEF M
  <2> QED
    BY <1>4, <1>7, <2>1, <2>2, <2>3, Zenon DEF Types
<1>9. Phases' /\ SliceInv'
  BY <1>4 DEF Phases, SliceInv
<1> QED
  BY <1>5, <1>8, <1>9 DEF QueueInv

\* The steps that change the phase, the cycles and the count of calls only.
LEMMA PhaseSound ==
  ASSUME QueueInv, UNCHANGED <<poolVars, serviceVars, CPU_CycleLeft>>,
         pc \notin {"service", "handler"}, pc' \in {"loop", "program", "instruction"},
         calls' \in 0..MaxCalls, CPU_Cycles' \in -1..CPU_CycleMax, Phases',
         pc' # "loop" => pc \in {"program", "instruction"}
  PROVE  QueueInv'
<1>1. PICK n, f, m, g : Pools(n, f, m, g)
  BY DEF QueueInv, PoolInv
<1>2. next \in Links /\ Types /\ SliceInv
  BY DEF QueueInv, PoolInv
<1>3. /\ entry' = entry /\ InEventService' = InEventService /\ index_nd' = index_nd
      /\ srv_lag' = srv_lag /\ CPU_CycleLeft' = CPU_CycleLeft /\ content' = content
  BY DEF serviceVars, poolVars
<1>4. PoolInv'
  <2>1. Pools(n, f, m, g)' /\ next' = next
    BY <1>1, <1>3, PoolStays
  <2> QED
    BY <1>2, <2>1 DEF PoolInv
<1>5. (pc \in {"service", "handler"}) = FALSE /\ (pc = "handler") = FALSE
      /\ (pc' \in {"service", "handler"}) = FALSE /\ (pc' = "handler") = FALSE
  OBVIOUS
<1>6. InEventService = FALSE /\ entry = NULL
  BY <1>2, <1>5, Zenon DEF Types
<1>7. Types'
  <2>1. (entry' # NULL) = FALSE
    BY <1>3, <1>6
  <2>2. /\ CPU_CycleLeft' \in -1..CPU_CycleMax /\ index_nd' \in 0..CPU_CycleMax /\ srv_lag' \in Int
        /\ pc' \in {"loop", "service", "handler", "tick", "ticking", "program", "instruction"}
    BY <1>2, <1>3 DEF Types
  <2> QED
    BY <1>3, <1>5, <1>6, <2>1, <2>2, Zenon DEF Types
<1>8. SliceInv'
  <2>1. Elapsed' = Elapsed
    BY <1>3 DEF Elapsed
  <2> QED
    BY <1>2, <1>3, <2>1 DEF SliceInv
<1> QED
  BY <1>4, <1>7, <1>8 DEF QueueInv

LEMMA ProgramSound ==
  ASSUME QueueInv, TickDone \/ Fetch \/ Done \/ SliceEnds
  PROVE  QueueInv'
<1>1. Types /\ Phases
  BY DEF QueueInv
<1>2. /\ CPU_Cycles \in Int /\ CPU_CycleLeft \in Int /\ CPU_CycleMax \in Int /\ CPU_CycleMax > 0
      /\ IODelay \in Int /\ IODelay >= 0 /\ 0 \in 0..MaxCalls
      /\ calls \in 0..MaxCalls /\ CPU_Cycles \in -1..CPU_CycleMax
  <2>1. calls \in 0..MaxCalls /\ CPU_Cycles \in -1..CPU_CycleMax
    BY <1>1 DEF Types
  <2>2. CPU_Cycles \in Int /\ CPU_CycleLeft \in Int
    BY <1>1, TimesAre
  <2>3. /\ CPU_CycleMax \in Int /\ CPU_CycleMax > 0 /\ IODelay \in Int /\ IODelay >= 0
        /\ 0 \in 0..MaxCalls
    BY NumbersAre
  <2> QED
    BY <2>1, <2>2, <2>3
<1>3. CASE TickDone
  <2>1. /\ UNCHANGED <<poolVars, serviceVars, CPU_CycleLeft>> /\ pc = "ticking" /\ pc' = "loop"
        /\ calls' = 0 /\ CPU_Cycles' = CPU_Cycles /\ CPU_CycleLeft' = CPU_CycleLeft
    BY <1>3 DEF TickDone, cycleVars
  <2>2. Phases'
    <3>1. CPU_CycleLeft' = CPU_CycleMax /\ CPU_Cycles' = 0
      BY <1>1, <2>1 DEF Phases
    <3>2. CPU_CycleLeft' >= 0 /\ CPU_CycleLeft' + CPU_Cycles' <= CPU_CycleMax
      BY <1>2, <3>1
    <3> QED
      BY <2>1, <3>2 DEF Phases
  <2> QED
    BY <1>2, <2>1, <2>2, PhaseSound
<1>4. ASSUME pc \in {"program", "instruction"}
      PROVE  /\ CPU_CycleLeft >= 0 /\ CPU_Cycles >= 0
             /\ CPU_CycleLeft + CPU_Cycles <= CPU_CycleMax
  BY <1>1, <1>4 DEF Phases
<1>5. CASE Fetch
  <2>1. PICK d \in {0, IODelay} : /\ d > 0 => CPU_Cycles - 1 >= 3 * IODelay
                                  /\ CPU_Cycles' = CPU_Cycles - 1 - d
    BY <1>5 DEF Fetch
  <2>2. /\ UNCHANGED <<poolVars, serviceVars, CPU_CycleLeft>> /\ pc = "program"
        /\ pc' = "instruction" /\ calls' = 0 /\ CPU_CycleLeft' = CPU_CycleLeft /\ CPU_Cycles > 0
    BY <1>5 DEF Fetch
  <2>3. d \in Int /\ d >= 0
    BY <1>2
  <2>4. CPU_Cycles' \in Int /\ CPU_Cycles' >= 0 /\ CPU_Cycles' <= CPU_Cycles
    BY <1>2, <2>1, <2>2, <2>3
  <2>5. /\ CPU_CycleLeft' >= 0 /\ CPU_Cycles' >= 0
        /\ CPU_CycleLeft' + CPU_Cycles' <= CPU_CycleMax
    <3>1. CPU_CycleLeft >= 0 /\ CPU_CycleLeft + CPU_Cycles <= CPU_CycleMax
      BY <1>4, <2>2
    <3>2. CPU_CycleLeft' = CPU_CycleLeft
      BY <2>2
    <3> DEFINE c == CPU_Cycles'
    <3>3. c \in Int /\ c >= 0 /\ c <= CPU_Cycles
      BY <2>4
    <3> HIDE DEF c
    <3>4. CPU_CycleLeft + c <= CPU_CycleMax
      BY <1>2, <3>1, <3>3
    <3> QED
      BY <3>1, <3>2, <3>3, <3>4 DEF c
  <2>6. Phases'
    BY <2>2, <2>5 DEF Phases
  <2>7. CPU_Cycles' \in -1..CPU_CycleMax
    <3>1. CPU_CycleLeft' \in Int
      BY <1>2, <2>2
    <3> QED
      BY <1>2, <2>4, <2>5, <3>1, InRange
  <2> QED
    BY <1>2, <2>2, <2>6, <2>7, PhaseSound
<1>6. CASE Done
  <2>1. /\ UNCHANGED <<poolVars, serviceVars, CPU_CycleLeft>> /\ pc = "instruction"
        /\ pc' \in {"program", "loop"}
        /\ calls' = 0 /\ CPU_Cycles' = CPU_Cycles /\ CPU_CycleLeft' = CPU_CycleLeft
    BY <1>6 DEF Done, cycleVars
  <2>2. Phases'
    BY <1>4, <2>1 DEF Phases
  <2> QED
    BY <1>2, <2>1, <2>2, PhaseSound
<1>7. CASE SliceEnds
  <2>1. /\ UNCHANGED <<poolVars, serviceVars, CPU_CycleLeft>> /\ pc = "program" /\ pc' = "loop"
        /\ calls' = calls /\ CPU_Cycles' = CPU_Cycles - 1 /\ CPU_CycleLeft' = CPU_CycleLeft
        /\ CPU_Cycles <= 0
    BY <1>7 DEF SliceEnds, serviceVars
  <2>2. CPU_Cycles = 0 /\ CPU_Cycles' = -1
    BY <1>2, <1>4, <2>1
  <2>3. CPU_CycleLeft' >= 0 /\ CPU_CycleLeft' + CPU_Cycles' <= CPU_CycleMax
    BY <1>2, <1>4, <2>1, <2>2
  <2>4. Phases'
    BY <2>1, <2>3 DEF Phases
  <2>5. CPU_Cycles' \in -1..CPU_CycleMax
    <3> DEFINE M == CPU_CycleMax
    <3>1. M \in Int /\ M > 0
      BY <1>2
    <3> HIDE DEF M
    <3>2. -1 \in -1..M
      BY <3>1
    <3> QED
      BY <2>2, <3>2 DEF M
  <2> QED
    BY <1>2, <2>1, <2>4, <2>5, PhaseSound
<1> QED
  BY <1>3, <1>5, <1>6, <1>7

LEMMA StutterSound ==
  ASSUME QueueInv, UNCHANGED vars
  PROVE  QueueInv'
<1>1. PICK n, f, m, g : Pools(n, f, m, g)
  BY DEF QueueInv, PoolInv
<1>2. next \in Links /\ Types /\ Phases /\ SliceInv
  BY DEF QueueInv, PoolInv
<1>3. /\ UNCHANGED <<poolVars, entry>> /\ content' = content
      /\ InEventService' = InEventService /\ index_nd' = index_nd
      /\ srv_lag' = srv_lag /\ CPU_CycleLeft' = CPU_CycleLeft /\ CPU_Cycles' = CPU_Cycles
      /\ pc' = pc /\ calls' = calls
  BY DEF vars, poolVars, cycleVars, serviceVars
<1>4. PoolInv'
  <2>1. Pools(n, f, m, g)' /\ next' = next
    BY <1>1, <1>3, PoolStays
  <2> QED
    BY <1>2, <2>1 DEF PoolInv
<1>5. Types'
  BY <1>2, <1>3 DEF Types
<1>6. Phases' /\ SliceInv'
  BY <1>2, <1>3 DEF Phases, SliceInv, Elapsed
<1> QED
  BY <1>4, <1>5, <1>6 DEF QueueInv

LEMMA NextSound ==
  ASSUME QueueInv, [Next]_vars
  PROVE  QueueInv'
<1>1. CASE EnterQueue
  BY <1>1, EnterSound
<1>2. CASE Dispatch
  BY <1>2, DispatchSound
<1>3. CASE HandlerReturns
  BY <1>3, ReturnSound
<1>4. CASE LeaveQueue
  BY <1>4, LeaveSound
<1>5. CASE AddTick
  BY <1>5, AddTickSound
<1>6. CASE TickDone \/ Fetch \/ Done \/ SliceEnds
  BY <1>6, ProgramSound
<1>7. CASE HandlerCalls \/ TickHandlerCalls \/ PortCalls
  <2>1. /\ Call /\ pc \in {"handler", "ticking", "instruction"}
        /\ UNCHANGED <<serviceVars, pc>> /\ calls < MaxCalls /\ calls' = calls + 1
    BY <1>7 DEF HandlerCalls, TickHandlerCalls, PortCalls
  <2> QED
    BY <2>1, CallSound
<1>8. CASE UNCHANGED vars
  BY <1>8, StutterSound
<1> QED
  BY <1>1, <1>2, <1>3, <1>4, <1>5, <1>6, <1>7, <1>8, Zenon DEF Next, Loop, Program

LEMMA Invariant == Spec => []QueueInv
<1>1. Init => QueueInv
  BY InitSound
<1>2. QueueInv /\ [Next]_vars => QueueInv'
  BY NextSound
<1> QED
  BY <1>1, <1>2, PTL DEF Spec

-----------------------------------------------------------------------------
(* What the properties say, from the invariant.                            *)

LEMMA ListsAre ==
  ASSUME NEW n, NEW f, NEW m, NEW g, Pools(n, f, m, g)
  PROVE  /\ n \in Nat /\ Queue = [k \in 1..n |-> f[k - 1]]
         /\ m \in Nat /\ Free = [k \in 1..m |-> g[k - 1]]
         /\ Range(Queue) = On(n, f) /\ Range(Free) = On(m, g)
         /\ Distinct(Queue) /\ Distinct(Free)
<1>1. /\ n \in Nat /\ IsList(next, next_entry, n, f)
      /\ m \in Nat /\ IsList(next, free_entry, m, g)
  BY DEF Pools, Pooled
<1>2. Queue = [k \in 1..n |-> f[k - 1]] /\ Free = [k \in 1..m |-> g[k - 1]]
  BY <1>1, ListIs DEF Queue, Free
<1>3. Range(Queue) = On(n, f) /\ Range(Free) = On(m, g)
  BY <1>1, <1>2, ListHas
<1>4. ASSUME NEW h, NEW l \in Nat, NEW u, IsList(next, h, l, u), NEW s, s = [k \in 1..l |-> u[k - 1]]
      PROVE  Distinct(s)
  <2>1. DOMAIN s = 1..l /\ \A k \in 1..l : s[k] = u[k - 1]
    BY <1>4
  <2>2. ASSUME NEW i \in 1..l, NEW j \in 1..l, s[i] = s[j]
        PROVE  i = j
    <3>1. i - 1 \in 0..l - 1 /\ j - 1 \in 0..l - 1 /\ u[i - 1] = u[j - 1]
      BY <2>1, <2>2
    <3>2. i - 1 = j - 1
      BY <1>4, <3>1 DEF IsList
    <3> QED
      BY <3>2
  <2> QED
    BY <2>1, <2>2 DEF Distinct
<1>5. Distinct(Queue) /\ Distinct(Free)
  BY <1>1, <1>2, <1>4
<1> QED
  BY <1>1, <1>2, <1>3, <1>5

LEMMA PartitionFollows == QueueInv => Partition
<1> SUFFICES ASSUME QueueInv
             PROVE  Partition
  OBVIOUS
<1>1. PICK n, f, m, g : Pools(n, f, m, g)
  BY DEF QueueInv, PoolInv
<1>2. /\ Queue = [k \in 1..n |-> f[k - 1]] /\ Free = [k \in 1..m |-> g[k - 1]]
      /\ Range(Queue) = On(n, f) /\ Range(Free) = On(m, g)
      /\ Distinct(Queue) /\ Distinct(Free)
  BY <1>1, ListsAre
<1>3. /\ Pooled(next, next_entry, free_entry, entry, n, f, m, g)
      /\ Contents(content, n, f, entry) /\ Types /\ next \in Links
  BY <1>1 DEF Pools, QueueInv, PoolInv
<1> DEFINE held == {entry} \ {NULL}
<1>4. /\ On(n, f) \cap On(m, g) = {}
      /\ entry \in Entries \cup {NULL} /\ entry \notin On(n, f) /\ entry \notin On(m, g)
      /\ On(n, f) \cup On(m, g) \cup held = Entries
      /\ DOMAIN content = On(n, f) \cup held
      /\ \A e \in DOMAIN content : content[e] \in [event : Events, index : Int]
  BY <1>3 DEF Pooled, Contents
<1>5. TypeOK
  <2>1. free_entry \in Entries \cup {NULL} /\ next_entry \in Entries \cup {NULL}
    <3>1. /\ n \in Nat /\ IsList(next, next_entry, n, f)
          /\ m \in Nat /\ IsList(next, free_entry, m, g)
      BY <1>3 DEF Pooled
    <3>2. 0 \in 0..n /\ 0 \in 0..m /\ f[0] = next_entry /\ g[0] = free_entry
      BY <3>1 DEF IsList
    <3> QED
      BY <3>1, <3>2 DEF IsList
  <2>2. DOMAIN content \subseteq Entries
    BY <1>4
  <2> QED
    BY <1>3, <1>4, <2>1, <2>2 DEF TypeOK, Types, Links
<1>6. /\ Range(Queue) \cap Range(Free) = {}
      /\ held \cap (Range(Queue) \cup Range(Free)) = {}
      /\ Range(Queue) \cup Range(Free) \cup held = Entries
      /\ DOMAIN content = Range(Queue) \cup held
  BY <1>2, <1>4
<1> HIDE DEF held
<1> QED
  BY <1>2, <1>5, <1>6, Zenon DEF Partition, held

\* Every entry is in one place: in the queue, in the free list or held by
\* PIC_RunQueue, whatever devices add and remove, from a handler too.
THEOREM EveryEntryIsKept == Spec => []Partition
BY Invariant, PartitionFollows, PTL

LEMMA OnTimeFollows == QueueInv => OnTime
<1> SUFFICES ASSUME QueueInv, pc \in {"program", "instruction"}, NEW e \in Range(Queue)
             PROVE  content[e].index >= Grain * (TickIndexND - 1)
  BY DEF OnTime
<1>1. PICK n, f, m, g : Pools(n, f, m, g)
  BY DEF QueueInv, PoolInv
<1>2. e \in DOMAIN content
  <2>1. Range(Queue) = On(n, f) /\ Contents(content, n, f, entry)
    BY <1>1, ListsAre DEF Pools
  <2> QED
    BY <2>1 DEF Contents
<1>3. Types /\ Phases /\ SliceInv
  BY DEF QueueInv
<1> DEFINE t == content[e].index
           p == Grain * (TickIndexND - 1)
           q == Grain * (Elapsed - 1)
<1>4. TickIndexND \in Int /\ Elapsed \in Int /\ TickIndexND <= Elapsed
  <2>1. CPU_Cycles >= 0
    BY <1>3 DEF Phases
  <2> QED
    BY <1>3, <2>1, TimesAre
<1>5. p <= q
  BY <1>4, GrainLess
<1>6. p \in Int /\ q \in Int
  <2>1. TickIndexND - 1 \in Int /\ Elapsed - 1 \in Int
    BY <1>4
  <2> QED
    BY <2>1, GrainTimes
<1>7. t >= q
  BY <1>2, <1>3 DEF SliceInv
<1>8. t \in Int
  <2>1. Contents(content, n, f, entry)
    BY <1>1 DEF Pools
  <2> QED
    BY <1>2, <2>1 DEF Contents
<1> HIDE DEF t, p, q
<1>9. t >= p
  BY <1>5, <1>6, <1>7, <1>8
<1> QED
  BY <1>9 DEF t, p

\* No event is overdue by more than a cycle while a program runs, whatever the
\* delays, the length of a millisecond and what handlers and ports add.
THEOREM EventsAreOnTime == Spec => []OnTime
BY Invariant, OnTimeFollows, PTL

-----------------------------------------------------------------------------
(* PicQueue implements EventQueue.  The events of a list of entries, in its *)
(* order:                                                                  *)

EventsOf(c, n, f) == [t \in 1..n |-> c[f[t - 1]]]

LEMMA EventsOfIs ==
  ASSUME NEW c, NEW n \in Nat, NEW f, NEW held, Contents(c, n, f, held),
         NEW p, p = EventsOf(c, n, f)
  PROVE  /\ Len(p) = n /\ DOMAIN p = 1..n
         /\ \A t \in 1..n : /\ p[t] = c[f[t - 1]] /\ p[t] \in [event : Events, index : Int]
                            /\ t - 1 \in 0..n - 1 /\ f[t - 1] \in On(n, f)
<1>1. p = [t \in 1..n |-> c[f[t - 1]]]
  BY DEF EventsOf
<1>2. Len(p) = n /\ DOMAIN p = 1..n /\ \A t \in 1..n : p[t] = c[f[t - 1]]
  BY <1>1
<1>3. \A t \in 1..n : t - 1 \in 0..n - 1
  OBVIOUS
<1>4. \A t \in 1..n : f[t - 1] \in On(n, f)
  BY <1>3 DEF On
<1>5. \A t \in 1..n : c[f[t - 1]] \in [event : Events, index : Int]
  BY <1>4 DEF Contents
<1> QED
  BY <1>2, <1>3, <1>4, <1>5

\* What the events of a list are, place by place.
EventsAt(c, n, f, p) ==
  /\ Len(p) = n /\ DOMAIN p = 1..n
  /\ \A t \in 1..n : /\ p[t] = c[f[t - 1]] /\ p[t] \in [event : Events, index : Int]
                     /\ t - 1 \in 0..n - 1 /\ f[t - 1] \in On(n, f)

LEMMA EventsAre ==
  ASSUME NEW c, NEW n \in Nat, NEW f, NEW held, Contents(c, n, f, held),
         NEW p, p = EventsOf(c, n, f)
  PROVE  EventsAt(c, n, f, p)
BY EventsOfIs DEF EventsAt

LEMMA PendingIs ==
  ASSUME NEW nx, NEW h, NEW n \in Nat, NEW f, IsList(nx, h, n, f), NEW c,
         NEW s, s = ListFrom(nx, h)
  PROVE  [k \in 1..Len(s) |-> c[s[k]]] = EventsOf(c, n, f)
<1>1. s = [k \in 1..n |-> f[k - 1]]
  BY ListIs
<1>2. Len(s) = n /\ \A k \in 1..n : s[k] = f[k - 1]
  BY <1>1, ListHas
<1> QED
  BY <1>2 DEF EventsOf

\* The new event is behind those that are not later.
Joins(p, p2, y) ==
  /\ \E k \in 1..Len(p) + 1 :
       /\ \A i \in 1..Len(p) : i < k <=> p[i].index <= y.index
       /\ p2 = [i \in 1..Len(p) + 1 |-> IF i < k THEN p[i] ELSE IF i = k THEN y ELSE p[i - 1]]
  /\ \E i \in 1..Len(p2) : p2[i] = y

LEMMA AddMaps ==
  ASSUME NEW c, NEW n \in Nat, NEW f, NEW held, Contents(c, n, f, held),
         NEW k, NEW x, Behind(c, n, f, k, x), NEW e, NEW ev, NEW c2, Filled(c, e, ev, x, c2),
         e \notin DOMAIN c, NEW f2, f2 = Put(f, n, k, e),
         NEW p, p = EventsOf(c, n, f), NEW p2, p2 = EventsOf(c2, n + 1, f2),
         NEW y, y = [event |-> ev, index |-> x]
  PROVE  Joins(p, p2, y)
<1>1. /\ Len(p) = n
      /\ \A t \in 1..n : /\ p[t] = c[f[t - 1]] /\ t - 1 \in 0..n - 1 /\ f[t - 1] \in On(n, f)
  <2>1. EventsAt(c, n, f, p)
    BY EventsAre
  <2> QED
    BY <2>1 DEF EventsAt
<1>2. /\ k \in 0..n /\ \A i \in 0..n - 1 : (i < k) = (c[f[i]].index <= x)
      /\ c2[e] = y /\ y.index = x
      /\ \A q \in DOMAIN c : c2[q] = c[q]
      /\ On(n, f) \subseteq DOMAIN c
  BY DEF Behind, Filled, Contents
<1> DEFINE kk == k + 1
<1>3. kk \in 1..n + 1
  BY <1>2
<1>4. ASSUME NEW i \in 1..n
      PROVE  (i < kk) = (p[i].index <= y.index)
  <2>1. p[i] = c[f[i - 1]] /\ i - 1 \in 0..n - 1
    BY <1>1
  <2>2. (i - 1 < k) = (c[f[i - 1]].index <= x)
    BY <1>2, <2>1
  <2>3. (i < kk) = (i - 1 < k)
    BY <1>2
  <2> HIDE DEF kk
  <2>4. p[i].index = c[f[i - 1]].index
    BY <2>1
  <2> QED
    BY <1>2, <2>2, <2>3, <2>4, Zenon
<1>5. ASSUME NEW i \in 1..n + 1
      PROVE  c2[f2[i - 1]] = IF i < kk THEN p[i] ELSE IF i = kk THEN y ELSE p[i - 1]
  <2>1. i - 1 \in 0..n + 1 /\ (i - 1) - 1 = i - 2
    OBVIOUS
  <2>2. f2[i - 1] = IF i - 1 < k THEN f[i - 1] ELSE IF i - 1 = k THEN e ELSE f[i - 2]
    BY <2>1 DEF Put
  <2>3. CASE i < kk
    <3>1. i \in 1..n /\ i - 1 < k
      BY <1>2, <2>3
    <3>2. p[i] = c[f[i - 1]] /\ f[i - 1] \in DOMAIN c /\ f2[i - 1] = f[i - 1]
      BY <1>1, <1>2, <2>2, <3>1
    <3> QED
      BY <1>2, <2>3, <3>2
  <2>4. CASE i = kk
    <3>1. ~(i - 1 < k) /\ i - 1 = k /\ ~(i < kk)
      BY <1>2, <2>4
    <3>2. f2[i - 1] = e
      BY <2>2, <3>1
    <3> QED
      BY <1>2, <2>4, <3>1, <3>2
  <2>5. CASE i > kk
    <3>1. i - 1 \in 1..n /\ ~(i - 1 < k) /\ i - 1 # k /\ ~(i < kk) /\ i # kk
      BY <1>2, <2>5
    <3>2. p[i - 1] = c[f[i - 2]] /\ f[i - 2] \in DOMAIN c /\ f2[i - 1] = f[i - 2]
      BY <1>1, <1>2, <2>1, <2>2, <3>1
    <3> QED
      BY <1>2, <3>1, <3>2
  <2> QED
    BY <1>3, <2>3, <2>4, <2>5
<1>6. p2 = [i \in 1..n + 1 |-> IF i < kk THEN p[i] ELSE IF i = kk THEN y ELSE p[i - 1]]
  <2>1. p2 = [i \in 1..n + 1 |-> c2[f2[i - 1]]]
    BY DEF EventsOf
  <2> HIDE DEF kk
  <2> QED
    BY <1>5, <2>1
<1>7. kk \in 1..Len(p2) /\ p2[kk] = y
  <2> HIDE DEF kk
  <2>1. Len(p2) = n + 1
    BY <1>6
  <2> QED
    BY <1>3, <1>6, <2>1
<1> HIDE DEF kk
<1>8. \A i \in 1..n : i < kk <=> p[i].index <= y.index
  BY <1>4, Zenon
<1>9. \E i \in 1..Len(p2) : p2[i] = y
  BY <1>7
<1>10. Len(p) = n
  BY <1>1
<1>11. kk \in 1..Len(p) + 1
  BY <1>3, <1>10, Zenon
<1>12. \A i \in 1..Len(p) : i < kk <=> p[i].index <= y.index
  BY <1>8, <1>10, Zenon
<1>13. p2 = [i \in 1..Len(p) + 1 |-> IF i < kk THEN p[i] ELSE IF i = kk THEN y ELSE p[i - 1]]
  BY <1>6, <1>10, Zenon
<1> QED
  BY <1>9, <1>11, <1>12, <1>13, Zenon DEF Joins

\* The events that are kept, in their order.
Leaves(p, p2, E) ==
  \E keep \in SUBSET (1..Len(p)), n \in 0..Len(p) :
    /\ keep = {i \in 1..Len(p) : p[i].event \notin E}
    /\ \E place \in [1..n -> keep] :
         /\ \A i, j \in 1..n : i < j => place[i] < place[j]
         /\ \A i \in keep : \E j \in 1..n : place[j] = i
         /\ p2 = [j \in 1..n |-> p[place[j]]]

\* The entries in R, those with an event in E, are dropped from the list.
Drops(c, n, f, E, R, len, u, place, c2) ==
  /\ Thinned(n, f, n, len, u, place, len) /\ len <= n
  /\ \A i, j \in 0..n - 1 : f[i] = f[j] => i = j
  /\ R = {q \in On(n, f) : c[q].event \in E} /\ On(len, u) = On(n, f) \ R
  /\ c2 = [q \in DOMAIN c \ R |-> c[q]]

LEMMA RemoveMaps ==
  ASSUME NEW c, NEW n, NEW f, NEW held, Contents(c, n, f, held), NEW E,
         NEW R, NEW len, NEW u, NEW place, NEW c2, Drops(c, n, f, E, R, len, u, place, c2),
         NEW p, p = EventsOf(c, n, f), NEW p2, p2 = EventsOf(c2, len, u)
  PROVE  Leaves(p, p2, E)
<1>0. /\ Thinned(n, f, n, len, u, place, len) /\ len <= n
      /\ \A i, j \in 0..n - 1 : f[i] = f[j] => i = j
      /\ R = {q \in On(n, f) : c[q].event \in E} /\ On(len, u) = On(n, f) \ R
      /\ c2 = [q \in DOMAIN c \ R |-> c[q]]
  BY DEF Drops
<1> USE <1>0
<1>1. /\ n \in Nat /\ len \in Nat /\ place \in [0..len - 1 -> 0..n - 1]
      /\ \A i \in 0..len - 1 : u[i] = f[place[i]]
      /\ \A a, b \in 0..len - 1 : a < b => place[a] < place[b]
  BY DEF Thinned
<1>2. /\ Len(p) = n
      /\ \A t \in 1..n : p[t] = c[f[t - 1]] /\ t - 1 \in 0..n - 1 /\ f[t - 1] \in On(n, f)
  <2>1. EventsAt(c, n, f, p)
    BY <1>1, EventsAre
  <2> QED
    BY <2>1 DEF EventsAt
<1>3. On(n, f) \subseteq DOMAIN c
  BY DEF Contents
<1> DEFINE keep == {i \in 1..n : p[i].event \notin E}
           place2 == [j \in 1..len |-> place[j - 1] + 1]
<1>4. ASSUME NEW j \in 1..len
      PROVE  /\ j - 1 \in 0..len - 1 /\ place[j - 1] \in 0..n - 1
             /\ place2[j] = place[j - 1] + 1 /\ place2[j] \in 1..n /\ place2[j] \in keep
             /\ c2[u[j - 1]] = p[place2[j]]
  <2>1. j - 1 \in 0..len - 1
    BY <1>1
  <2>2. place[j - 1] \in 0..n - 1 /\ u[j - 1] = f[place[j - 1]] /\ u[j - 1] \in On(len, u)
    BY <1>1, <2>1 DEF On
  <2>3. place2[j] = place[j - 1] + 1 /\ place2[j] \in 1..n /\ place2[j] - 1 = place[j - 1]
    <3> DEFINE a == place[j - 1]
    <3>1. place2[j] = a + 1
      BY Zenon
    <3>2. a \in 0..n - 1
      BY <2>2
    <3> HIDE DEF a, place2
    <3>3. a + 1 \in 1..n /\ (a + 1) - 1 = a
      BY <1>1, <3>2
    <3> QED
      BY <3>1, <3>3 DEF a
  <2>4. p[place2[j]] = c[f[place2[j] - 1]]
    BY <1>2, <2>3
  <2>5. p[place2[j]] = c[u[j - 1]]
    BY <2>2, <2>3, <2>4
  <2>6. u[j - 1] \in On(n, f) /\ u[j - 1] \notin R
    BY <2>2
  <2>7. c[u[j - 1]].event \notin E
    BY <2>6
  <2>8. c2[u[j - 1]] = c[u[j - 1]]
    BY <1>3, <2>6
  <2> HIDE DEF place2
  <2>9. place2[j] \in keep
    BY <2>3, <2>5, <2>7
  <2> HIDE DEF keep
  <2> QED
    BY <2>1, <2>2, <2>3, <2>5, <2>8, <2>9
<1>5. place2 \in [1..len -> keep]
  BY <1>4
<1>6. ASSUME NEW i \in 1..len, NEW j \in 1..len, i < j
      PROVE  place2[i] < place2[j]
  <2>1. i - 1 \in 0..len - 1 /\ j - 1 \in 0..len - 1 /\ i - 1 < j - 1
    BY <1>1, <1>6
  <2>2. place[i - 1] < place[j - 1] /\ place[i - 1] \in 0..n - 1 /\ place[j - 1] \in 0..n - 1
    BY <1>1, <2>1
  <2>3. place2[i] = place[i - 1] + 1 /\ place2[j] = place[j - 1] + 1
    BY <1>4
  <2> HIDE DEF place2
  <2> QED
    BY <1>1, <2>2, <2>3
<1>7. ASSUME NEW i \in keep
      PROVE  \E j \in 1..len : place2[j] = i
  <2>1. i \in 1..n /\ p[i].event \notin E
    OBVIOUS
  <2>2. i - 1 \in 0..n - 1 /\ f[i - 1] \in On(n, f) /\ c[f[i - 1]].event \notin E
    BY <1>2, <2>1
  <2>3. f[i - 1] \in On(len, u)
    BY <2>2
  <2>4. PICK t \in 0..len - 1 : u[t] = f[i - 1]
    BY <2>3 DEF On
  <2>5. f[place[t]] = f[i - 1] /\ place[t] \in 0..n - 1
    BY <1>1, <2>4
  <2>6. place[t] = i - 1
    BY <2>2, <2>5
  <2>7. t + 1 \in 1..len /\ (t + 1) - 1 = t
    BY <1>1
  <2>8. place2[t + 1] = place[t] + 1
    BY <2>7
  <2>9. place2[t + 1] = i
    <3> HIDE DEF place2
    <3> QED
      BY <2>1, <2>6, <2>8
  <2> HIDE DEF place2
  <2> QED
    BY <2>7, <2>9
<1>8. p2 = [j \in 1..len |-> p[place2[j]]]
  <2>1. p2 = [j \in 1..len |-> c2[u[j - 1]]]
    BY DEF EventsOf
  <2>2. p2 = [j \in 1..len |-> p2[j]] /\ \A j \in 1..len : p2[j] = c2[u[j - 1]]
    BY <2>1
  <2>3. \A j \in 1..len : c2[u[j - 1]] = p[place2[j]]
    BY <1>4
  <2> HIDE DEF place2
  <2>4. \A j \in 1..len : p2[j] = p[place2[j]]
    BY <2>2, <2>3, Zenon
  <2>5. [j \in 1..len |-> p2[j]] = [j \in 1..len |-> p[place2[j]]]
    BY <2>4, Zenon
  <2> QED
    BY <2>2, <2>5, Zenon
<1>9. keep \in SUBSET (1..Len(p)) /\ keep = {i \in 1..Len(p) : p[i].event \notin E}
      /\ len \in 0..Len(p)
  BY <1>1, <1>2
<1> HIDE DEF keep, place2
<1>10. \A i, j \in 1..len : i < j => place2[i] < place2[j]
  BY <1>6
<1>11. \A i \in keep : \E j \in 1..len : place2[j] = i
  BY <1>7
<1>12. \E place3 \in [1..len -> keep] :
         /\ \A i, j \in 1..len : i < j => place3[i] < place3[j]
         /\ \A i \in keep : \E j \in 1..len : place3[j] = i
         /\ p2 = [j \in 1..len |-> p[place3[j]]]
  BY <1>5, <1>8, <1>10, <1>11, Zenon
<1>13. keep \in SUBSET (1..Len(p))
  BY <1>9, Zenon
<1>14. len \in 0..Len(p)
  BY <1>9, Zenon
<1>15. keep = {i \in 1..Len(p) : p[i].event \notin E}
  BY <1>9, Zenon
<1> SUFFICES \E k2 \in SUBSET (1..Len(p)), n2 \in 0..Len(p) :
      /\ k2 = {i \in 1..Len(p) : p[i].event \notin E}
      /\ \E place3 \in [1..n2 -> k2] :
         /\ \A i, j \in 1..n2 : i < j => place3[i] < place3[j]
         /\ \A i \in k2 : \E j \in 1..n2 : place3[j] = i
         /\ p2 = [j \in 1..n2 |-> p[place3[j]]]
  BY DEF Leaves
<1> WITNESS keep \in SUBSET (1..Len(p)), len \in 0..Len(p)
<1> QED
  BY <1>12, <1>15, Zenon

\* The list of the entries gives the events that wait.
LEMMA PendingNow ==
  ASSUME NEW n, NEW f, NEW m, NEW g,
         Pooled(next, next_entry, free_entry, entry, n, f, m, g)
  PROVE  n \in Nat /\ Pending = EventsOf(content, n, f)
<1>1. n \in Nat /\ IsList(next, next_entry, n, f)
  BY DEF Pooled
<1>2. Queue = ListFrom(next, next_entry)
  BY DEF Queue
<1>3. [k \in 1..Len(Queue) |-> content[Queue[k]]] = EventsOf(content, n, f)
  BY <1>1, <1>2, PendingIs
<1> QED
  BY <1>1, <1>3 DEF Pending

LEMMA PendingThen ==
  ASSUME NEW n, NEW f, NEW m, NEW g, NEW held,
         Pooled(next', next_entry', free_entry', held, n, f, m, g)
  PROVE  n \in Nat /\ Pending' = EventsOf(content', n, f)
<1>1. n \in Nat /\ IsList(next', next_entry', n, f)
  BY DEF Pooled
<1>2. Queue' = ListFrom(next', next_entry')
  BY DEF Queue, ListFrom
<1>3. [k \in 1..Len(Queue') |-> content'[Queue'[k]]] = EventsOf(content', n, f)
  BY <1>1, <1>2, PendingIs
<1> QED
  BY <1>1, <1>3 DEF Pending

\* Where the pool is the same, so are the events.
LEMMA PoolSame ==
  ASSUME UNCHANGED <<poolVars, entry>>
  PROVE  Pending' = Pending /\ Running' = Running
BY DEF Pending, Running, Queue, ListFrom, poolVars

\* There are entries enough.
LEMMA Capacity ==
  ASSUME NEW nx, NEW hq, NEW hf, NEW held, NEW n, NEW f, NEW m, NEW g,
         Pooled(nx, hq, hf, held, n, f, m, g)
  PROVE  /\ n \in Nat /\ n <= PIC_QUEUESIZE
         /\ held # NULL => n + 1 <= PIC_QUEUESIZE
<1>1. /\ n \in Nat /\ IsList(nx, hq, n, f)
      /\ held \in Entries \cup {NULL} /\ held \notin On(n, f)
  BY DEF Pooled
<1>2. /\ IsFiniteSet(On(n, f)) /\ Cardinality(On(n, f)) = n
      /\ On(n, f) \subseteq Entries /\ n <= PIC_QUEUESIZE
  BY <1>1, ListSize
<1>3. ASSUME held # NULL
      PROVE  n + 1 <= PIC_QUEUESIZE
  <2>1. held \in Entries /\ On(n, f) \cup {held} \subseteq Entries
    BY <1>1, <1>2, <1>3
  <2>2. Cardinality(On(n, f) \cup {held}) = n + 1
    BY <1>1, <1>2, FS_AddElement
  <2>3. Cardinality(On(n, f) \cup {held}) <= Cardinality(Entries)
    BY <2>1, EntriesAre, FS_Subset
  <2> QED
    BY <2>2, <2>3, EntriesAre
<1> QED
  BY <1>1, <1>2, <1>3

-----------------------------------------------------------------------------
(* Each call and each step of the loop is one of EventQueue.                *)

LEMMA AddIsAdd ==
  ASSUME NEW n, NEW f, NEW m, NEW g, Pools(n, f, m, g), next \in Links, Types,
         NEW ev \in Events, NEW d \in Delays, AddEvent(ev, d), entry' = entry
  PROVE  Promised!QueueNext \/ UNCHANGED <<Pending, Running>>
<1>1. CASE free_entry = NULL
  <2>1. UNCHANGED <<poolVars, entry>>
    BY <1>1 DEF AddEvent
  <2> QED
    BY <2>1, PoolSame
<1>2. CASE free_entry # NULL
  <2> DEFINE x == d + Base
  <2>1. \E k : AddsAt(n, f, m, g, k, ev, x)
    BY <1>2, AddDoes
  <2> HIDE DEF x
  <2>2. PICK k : AddsAt(n, f, m, g, k, ev, x)
    BY <2>1
  <2>3. PICK f2 : f2 = Put(f, n, k, free_entry)
    OBVIOUS
  <2>4. PICK y : y = [event |-> ev, index |-> x]
    OBVIOUS
  <2>5. /\ Pooled(next', next_entry', free_entry', entry, n + 1, f2, m - 1, Without(g, m, 0))
        /\ Behind(content, n, f, k, x) /\ Filled(content, free_entry, ev, x, content')
        /\ free_entry \notin DOMAIN content
    BY <2>2, <2>3 DEF AddsAt
  <2>6. /\ Pooled(next, next_entry, free_entry, entry, n, f, m, g)
        /\ Contents(content, n, f, entry)
    BY DEF Pools
  <2>7. /\ n \in Nat /\ Pending = EventsOf(content, n, f)
        /\ Pending' = EventsOf(content', n + 1, f2)
    BY <2>5, <2>6, PendingNow, PendingThen
  <2>8. Joins(Pending, Pending', y)
    BY <2>3, <2>4, <2>5, <2>6, <2>7, AddMaps
  <2>9. Len(Pending) = n
    BY <2>6, <2>7, EventsAre DEF EventsAt
  <2>10. /\ n + 1 \in Nat /\ n + 1 <= PIC_QUEUESIZE
         /\ entry # NULL => (n + 1) + 1 <= PIC_QUEUESIZE
    BY <2>5, Capacity
  <2>11. Running = (IF entry = NULL THEN {} ELSE {content[entry].event})
    BY DEF Running
  <2>12. Len(Pending) < PIC_QUEUESIZE - (IF Running = {} THEN 0 ELSE 1)
    <3>1. n < PIC_QUEUESIZE - (IF Running = {} THEN 0 ELSE 1)
      <4>1. n \in Int /\ PIC_QUEUESIZE \in Int
        BY <2>7, EntriesAre
      <4>2. CASE entry = NULL
        <5>1. Running = {} /\ n + 1 <= PIC_QUEUESIZE
          BY <2>10, <2>11, <4>2
        <5>2. n < PIC_QUEUESIZE - 0
          BY <4>1, <5>1
        <5> QED
          BY <5>1, <5>2
      <4>3. CASE entry # NULL
        <5>1. Running # {} /\ (n + 1) + 1 <= PIC_QUEUESIZE
          BY <2>10, <2>11, <4>3
        <5>2. n < PIC_QUEUESIZE - 1
          BY <4>1, <5>1
        <5> QED
          BY <5>1, <5>2
      <4> QED
        BY <4>2, <4>3
    <3> QED
      BY <2>9, <3>1
  <2>13. Running' = Running
    <3>1. entry # NULL => content'[entry] = content[entry]
      BY <2>5, <2>6 DEF Filled, Contents
    <3> QED
      BY <3>1 DEF Running
  <2>14. y \in Promised!Waiting
    BY <2>4, <2>5 DEF Filled, Promised!Waiting
  <2>15. Promised!Add(y)
    BY <2>8, <2>12, <2>13, Zenon DEF Joins, Promised!Add, Promised!PutAt
  <2>16. \E i \in 1..Len(Pending') : Pending'[i] = y
    BY <2>8 DEF Joins
  <2>17. \E i \in 1..Len(Pending') : Pending'[i] \in Promised!Waiting /\ Promised!Add(Pending'[i])
    BY <2>14, <2>15, <2>16, Zenon
  <2> QED
    BY <2>17 DEF Promised!QueueNext
<1> QED
  BY <1>1, <1>2

LEMMA RemoveIsRemove ==
  ASSUME NEW n, NEW f, NEW m, NEW g, Pools(n, f, m, g), next \in Links,
         NEW E \in SUBSET Events, RemoveAll(E), entry' = entry
  PROVE  Promised!QueueNext
<1>1. PICK R, len, u, place : RemovesTo(E, n, f, R, len, u, place)
  BY RemoveAllDoes
<1>2. /\ R = {q \in On(n, f) : content[q].event \in E}
      /\ Thinned(n, f, n, len, u, place, len) /\ On(len, u) = On(n, f) \ R
      /\ content' = [e \in DOMAIN content \ R |-> content[e]]
      /\ \E m2, g2 : Pooled(next', next_entry', free_entry', entry, len, u, m2, g2)
  BY <1>1 DEF RemovesTo, Removed
<1>3. PICK m2, g2 : Pooled(next', next_entry', free_entry', entry, len, u, m2, g2)
  BY <1>2
<1>4. /\ Pooled(next, next_entry, free_entry, entry, n, f, m, g)
      /\ Contents(content, n, f, entry)
  BY DEF Pools
<1>5. /\ n \in Nat /\ Pending = EventsOf(content, n, f)
      /\ len \in Nat /\ Pending' = EventsOf(content', len, u)
  BY <1>3, <1>4, PendingNow, PendingThen
<1>6. /\ IsList(next, next_entry, n, f) /\ IsList(next', next_entry', len, u)
      /\ entry \notin On(n, f)
  BY <1>3, <1>4 DEF Pooled
<1>7. len <= n
  <2>1. /\ IsFiniteSet(On(n, f)) /\ Cardinality(On(n, f)) = n
        /\ Cardinality(On(len, u)) = len
    BY <1>5, <1>6, ListSize
  <2>2. On(len, u) \subseteq On(n, f)
    BY <1>2
  <2> QED
    BY <2>1, <2>2, FS_Subset
<1>8. \A i, j \in 0..n - 1 : f[i] = f[j] => i = j
  BY <1>6 DEF IsList
<1>9. Leaves(Pending, Pending', E)
  <2>1. Drops(content, n, f, E, R, len, u, place, content')
    BY <1>2, <1>7, <1>8, Zenon DEF Drops
  <2> QED
    BY <1>4, <1>5, <2>1, RemoveMaps
<1>10. Running' = Running
  <2>1. entry # NULL => entry \in DOMAIN content \ R
    BY <1>2, <1>4, <1>6 DEF Contents
  <2>2. entry # NULL => content'[entry] = content[entry]
    BY <1>2, <2>1
  <2> QED
    BY <2>2 DEF Running
<1>11. Promised!Remove(E)
  BY <1>9, <1>10, Zenon DEF Leaves, Promised!Remove
<1> QED
  BY <1>11 DEF Promised!QueueNext

LEMMA DispatchIsStart ==
  ASSUME NEW n, NEW f, NEW m, NEW g, Pools(n, f, m, g), Types, Dispatch
  PROVE  Promised!QueueNext
<1>1. Starts(n, f, m, g) /\ entry' # NULL
  BY DispatchDoes
<1>2. PICK f2 : f2 = Without(f, n, 0)
  OBVIOUS
<1>3. /\ n > 0 /\ entry' = f[0] /\ content' = content
      /\ Pooled(next', next_entry', free_entry', entry', n - 1, f2, m, g)
      /\ Contents(content', n - 1, f2, entry')
  BY <1>1, <1>2 DEF Starts
<1>4. /\ Pooled(next, next_entry, free_entry, entry, n, f, m, g)
      /\ Contents(content, n, f, entry) /\ entry = NULL
  BY DEF Pools, Dispatch, Types
<1>5. /\ n \in Nat /\ Pending = EventsOf(content, n, f)
      /\ n - 1 \in Nat /\ Pending' = EventsOf(content, n - 1, f2)
  BY <1>3, <1>4, PendingNow, PendingThen
<1>6. EventsAt(content, n, f, Pending)
  BY <1>4, <1>5, EventsAre
<1>7. /\ Len(Pending') = n - 1 /\ DOMAIN Pending' = 1..n - 1
      /\ \A t \in 1..n - 1 : Pending'[t] = content[f2[t - 1]]
  BY <1>3, <1>5, EventsAre DEF EventsAt
<1>8. Pending' = Tail(Pending)
  <2> DEFINE p == Pending
             p2 == Pending'
             S == [event : Events, index : Int]
  <2>1. p = [t \in 1..n |-> p[t]] /\ p2 = [t \in 1..n - 1 |-> p2[t]]
    BY <1>5 DEF EventsOf
  <2>2. \A t \in 1..n - 1 : p2[t] = p[t + 1]
    <3>1. ASSUME NEW t \in 1..n - 1
          PROVE  p2[t] = p[t + 1]
      <4>1. t - 1 \in 0..n - 1 /\ ~(t - 1 < 0) /\ (t - 1) + 1 = t /\ t + 1 \in 1..n
            /\ (t + 1) - 1 = t
        BY <1>5
      <4>2. f2[t - 1] = f[t]
        BY <1>2, <4>1 DEF Without
      <4>3. p2[t] = content[f[t]]
        BY <1>7, <4>2
      <4>4. p[t + 1] = content[f[(t + 1) - 1]]
        BY <1>6, <4>1 DEF EventsAt
      <4> HIDE DEF p, p2
      <4> QED
        BY <4>1, <4>3, <4>4
    <3> QED
      BY <3>1
  <2>3. \A t \in 1..n : p[t] \in S
    BY <1>6 DEF EventsAt
  <2>4. Len(p) = n
    BY <1>6 DEF EventsAt
  <2> HIDE DEF p, p2, S
  <2>5. p \in Seq(S)
    BY <1>5, <2>1, <2>3, SeqByPlace
  <2>6. p # << >>
    BY <1>3, <1>5, <2>4
  <2>7. /\ Tail(p) \in Seq(S) /\ Len(Tail(p)) = n - 1
        /\ \A t \in 1..n - 1 : Tail(p)[t] = p[t + 1]
    BY <2>4, <2>5, <2>6, HeadTailProperties
  <2>8. Tail(p) = [t \in 1..n - 1 |-> Tail(p)[t]]
    <3> DEFINE r == Tail(p)
    <3>1. r \in Seq(S) /\ Len(r) = n - 1
      BY <2>7
    <3> HIDE DEF r
    <3>2. r = [t \in 1..n - 1 |-> r[t]]
      BY <3>1
    <3> QED
      BY <3>2 DEF r
  <2>9. [t \in 1..n - 1 |-> Tail(p)[t]] = [t \in 1..n - 1 |-> p2[t]]
    <3>1. \A t \in 1..n - 1 : Tail(p)[t] = p2[t]
      BY <2>2, <2>7, Zenon
    <3> QED
      BY <3>1, Zenon
  <2>10. p2 = Tail(p)
    BY <2>1, <2>8, <2>9, Zenon
  <2> QED
    BY <2>10 DEF p, p2
<1>9. Pending # << >>
  BY <1>3, <1>5, <1>6 DEF EventsAt
<1>10. Running = {}
  BY <1>4 DEF Running
<1>11. Running' = {Pending[1].event}
  <2>1. Running' = {content'[entry'].event}
    BY <1>1 DEF Running
  <2>2. 1 \in 1..n /\ 1 - 1 = 0
    BY <1>3, <1>5
  <2>3. Pending[1] = content[f[1 - 1]]
    BY <1>6, <2>2 DEF EventsAt
  <2> QED
    BY <1>3, <2>1, <2>2, <2>3
<1>12. Promised!Start
  BY <1>8, <1>9, <1>10, <1>11 DEF Promised!Start
<1> QED
  BY <1>12 DEF Promised!QueueNext

LEMMA ReturnIsFinish ==
  ASSUME NEW n, NEW f, NEW m, NEW g, Pools(n, f, m, g), next \in Links, Types, HandlerReturns
  PROVE  Promised!QueueNext
<1>1. Finishes(n, f, m, g) /\ entry' = NULL /\ entry \in Entries
  BY ReturnDoes
<1>2. PICK g2 : g2 = Put(g, m, 0, entry)
  OBVIOUS
<1>3. /\ Pooled(next', next_entry', free_entry', NULL, n, f, m + 1, g2)
      /\ Contents(content', n, f, NULL)
      /\ \A e \in On(n, f) : content'[e] = content[e]
  BY <1>1, <1>2 DEF Finishes
<1>4. /\ Pooled(next, next_entry, free_entry, entry, n, f, m, g)
      /\ Contents(content, n, f, entry)
  BY DEF Pools
<1>5. /\ n \in Nat /\ Pending = EventsOf(content, n, f) /\ Pending' = EventsOf(content', n, f)
  BY <1>3, <1>4, PendingNow, PendingThen
<1>6. EventsAt(content, n, f, Pending)
  BY <1>4, <1>5, EventsAre
<1>7. \A t \in 1..n : Pending'[t] = content'[f[t - 1]]
  BY <1>3, <1>5, EventsAre DEF EventsAt
<1>8. Pending' = Pending
  <2>1. \A t \in 1..n : Pending'[t] = Pending[t]
    BY <1>3, <1>6, <1>7 DEF EventsAt
  <2>2. Pending = [t \in 1..n |-> Pending[t]] /\ Pending' = [t \in 1..n |-> Pending'[t]]
    BY <1>5 DEF EventsOf
  <2>3. [t \in 1..n |-> Pending[t]] = [t \in 1..n |-> Pending'[t]]
    BY <2>1, Zenon
  <2> QED
    BY <2>2, <2>3, Zenon
<1>9. Running # {} /\ Running' = {}
  BY <1>1, EntriesAre DEF Running
<1>10. Promised!Finish
  BY <1>8, <1>9 DEF Promised!Finish
<1> QED
  BY <1>10 DEF Promised!QueueNext

LEMMA TickIsShift ==
  ASSUME NEW n, NEW f, NEW m, NEW g, Pools(n, f, m, g), Types, AddTick
  PROVE  Promised!QueueNext
<1>1. Shifts(n, f, m, g) /\ entry' = entry
  BY TickDoes
<1> DEFINE gm == Grain * CPU_CycleMax
<1>2. /\ Pooled(next', next_entry', free_entry', entry, n, f, m, g)
      /\ Contents(content', n, f, entry)
      /\ \A e \in On(n, f) : content'[e] = [content[e] EXCEPT !.index = @ - gm]
  BY <1>1 DEF Shifts
<1> HIDE DEF gm
<1>4. /\ Pooled(next, next_entry, free_entry, entry, n, f, m, g)
      /\ Contents(content, n, f, entry)
  BY DEF Pools
<1>5. /\ n \in Nat /\ Pending = EventsOf(content, n, f) /\ Pending' = EventsOf(content', n, f)
  BY <1>2, <1>4, PendingNow, PendingThen
<1>6. EventsAt(content, n, f, Pending)
  BY <1>4, <1>5, EventsAre
<1>7. \A t \in 1..n : Pending'[t] = content'[f[t - 1]]
  BY <1>2, <1>5, EventsAre DEF EventsAt
<1>8. Pending' = [t \in 1..Len(Pending) |-> [Pending[t] EXCEPT !.index = @ - gm]]
  <2>1. \A t \in 1..n : Pending'[t] = [Pending[t] EXCEPT !.index = @ - gm]
    <3>1. ASSUME NEW t \in 1..n
          PROVE  Pending'[t] = [Pending[t] EXCEPT !.index = @ - gm]
      <4> DEFINE q == f[t - 1]
                 a == Pending'[t]
                 b == Pending[t]
      <4>1. b = content[q] /\ q \in On(n, f) /\ a = content'[q]
        BY <1>6, <1>7 DEF EventsAt
      <4> HIDE DEF q, a, b
      <4>2. content'[q] = [content[q] EXCEPT !.index = @ - gm]
        BY <1>2, <4>1
      <4>3. a = [b EXCEPT !.index = @ - gm]
        BY <4>1, <4>2, Zenon
      <4> QED
        BY <4>3 DEF a, b
    <3> QED
      BY <3>1
  <2>2. Pending' = [t \in 1..n |-> Pending'[t]]
    BY <1>5 DEF EventsOf
  <2>3. [t \in 1..n |-> Pending'[t]] = [t \in 1..n |-> [Pending[t] EXCEPT !.index = @ - gm]]
    BY <2>1, Zenon
  <2> QED
    BY <1>6, <2>2, <2>3, Zenon DEF EventsAt
<1>9. Running' = Running
  <2>1. entry = NULL
    BY DEF AddTick, Types
  <2> QED
    BY <1>1, <2>1 DEF Running
<1>10. Promised!Shift
  BY <1>8, <1>9 DEF Promised!Shift, gm
<1> QED
  BY <1>10 DEF Promised!QueueNext

\* Every step is one of the queue's, or changes nothing in it.
LEMMA StepsMap ==
  ASSUME QueueInv, [Next]_vars
  PROVE  Promised!QueueNext \/ UNCHANGED <<Pending, Running>>
<1>1. PICK n, f, m, g : Pools(n, f, m, g)
  BY DEF QueueInv, PoolInv
<1>2. next \in Links /\ Types
  BY DEF QueueInv, PoolInv
<1>3. CASE Call /\ UNCHANGED <<serviceVars, pc>>
  <2>1. entry' = entry
    BY <1>3 DEF serviceVars
  <2>2. ASSUME NEW ev \in Events, NEW d \in Delays, AddEvent(ev, d)
        PROVE  Promised!QueueNext \/ UNCHANGED <<Pending, Running>>
    BY <1>1, <1>2, <2>1, <2>2, AddIsAdd
  <2>3. ASSUME NEW E \in SUBSET Events, RemoveAll(E)
        PROVE  Promised!QueueNext
    BY <1>1, <1>2, <2>1, <2>3, RemoveIsRemove
  <2>4. ASSUME NEW h \in Handlers, RemoveEvents(h)
        PROVE  Promised!QueueNext
    <3>1. {h} \X Values \in SUBSET Events
      BY DEF Events
    <3> QED
      BY <2>3, <2>4, <3>1 DEF RemoveEvents
  <2>5. ASSUME NEW h \in Handlers, NEW v \in Values, RemoveSpecificEvents(h, v)
        PROVE  Promised!QueueNext
    <3>1. {<<h, v>>} \in SUBSET Events
      BY DEF Events
    <3> QED
      BY <2>3, <2>5, <3>1 DEF RemoveSpecificEvents
  <2> QED
    BY <1>3, <2>2, <2>4, <2>5 DEF Call
<1>4. CASE Dispatch
  BY <1>1, <1>2, <1>4, DispatchIsStart
<1>5. CASE HandlerReturns
  BY <1>1, <1>2, <1>5, ReturnIsFinish
<1>6. CASE AddTick
  BY <1>1, <1>2, <1>6, TickIsShift DEF EventsAt
<1>7. CASE UNCHANGED <<poolVars, entry>>
  BY <1>7, PoolSame
<1>8. EnterQueue => UNCHANGED <<poolVars, entry>>
  BY DEF EnterQueue, serviceVars
<1>9. LeaveQueue \/ TickDone \/ Fetch \/ Done \/ SliceEnds => UNCHANGED <<poolVars, entry>>
  BY DEF LeaveQueue, TickDone, Fetch, Done, SliceEnds, serviceVars
<1>10. UNCHANGED vars => UNCHANGED <<poolVars, entry>>
  BY DEF vars, serviceVars
<1>11. HandlerCalls \/ TickHandlerCalls \/ PortCalls => Call /\ UNCHANGED <<serviceVars, pc>>
  BY DEF HandlerCalls, TickHandlerCalls, PortCalls
<1> QED
  BY <1>3, <1>4, <1>5, <1>6, <1>7, <1>8, <1>9, <1>10, <1>11, Zenon DEF Next, Loop, Program, EventsAt

LEMMA InitMaps == Init => Promised!QueueInit
<1> SUFFICES ASSUME Init
             PROVE  Promised!QueueInit
  OBVIOUS
<1>1. QueueInv
  BY InitSound
<1>2. PICK n, f, m, g : Pools(n, f, m, g)
  BY <1>1 DEF QueueInv, PoolInv
<1>3. next_entry = NULL /\ entry = NULL
  BY DEF Init
<1>4. Pooled(next, next_entry, free_entry, entry, n, f, m, g)
  BY <1>2 DEF Pools
<1>5. n \in Nat /\ Pending = EventsOf(content, n, f) /\ IsList(next, next_entry, n, f)
  BY <1>4, PendingNow DEF Pooled
<1>6. n = 0
  BY <1>3, <1>5, ListEnds
<1>7. Pending = << >>
  BY <1>5, <1>6 DEF EventsOf, EventsAt
<1>8. Running = {}
  BY <1>3 DEF Running
<1> QED
  BY <1>7, <1>8 DEF Promised!QueueInit

\* The pointers do what the timer promises: the order of the times, first come
\* first served among equal ones, and removal of just the events named,
\* whatever the number of entries and whoever calls.
THEOREM ImplementsTheQueue == Spec => ImplementsQueue
<1>1. Init => Promised!QueueInit
  BY InitMaps
<1>2. QueueInv /\ [Next]_vars => [Promised!QueueNext]_<<Pending, Running>>
  BY StepsMap
<1> QED
  BY <1>1, <1>2, Invariant, PTL DEF Spec, ImplementsQueue, Promised!QueueSpec, Promised!queueVars

=============================================================================
