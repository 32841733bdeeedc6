-------------------------- MODULE DosFilesProofs --------------------------
(***************************************************************************)
(* The counts of open files are exact for any number of files, handles and *)
(* processes, and the tables implement sets of handles that share a file.  *)
(*                                                                         *)
(* A count changes with one entry of a table (opening, duplicating,        *)
(* closing), or with a whole table (a child, the end of a process): the    *)
(* lemmas say of each what it does to the set of handles that name a file, *)
(* and the steps compare it with what the code does to the count. The one  *)
(* step that counts without setting an entry is counted in lost.           *)
(***************************************************************************)
EXTENDS DosFiles, FiniteSetTheorems, FunctionTheorems, TLAPS

\* NamedBy, CountsExact for any tables and any references without a handle.
Names(f, s) == {h \in Handles : f[h[1]][h[2]] = s}
Count(F, s) == IF s \in DOMAIN F THEN F[s].refCtr ELSE 0
Exact(F, f, l) == \A s \in Slot : Cardinality(Names(f, s)) + l[s] = Count(F, s)

Tables == [Psps -> Table]
Tally == [Slot -> Nat]
FileTable(F) == DOMAIN F \subseteq Slot /\ F \in [DOMAIN F -> File]

\* The processes that wait for a child, from the shell to the one that runs:
\* none of them has ended, so that there is one to go back to.
Waiting ==
  /\ parent[Shell] = Shell
  /\ \E n \in Nat \ {0} : \E stack \in [1 .. n -> live] :
       /\ stack[1] = Shell /\ stack[n] = psp
       /\ \A i, j \in 1 .. n : stack[i] = stack[j] => i = j
       /\ \A i \in 1 .. n - 1 : parent[stack[i + 1]] = stack[i]

IInv == TablesAgree /\ Waiting

-----------------------------------------------------------------------------
(* Handles that name a file.                                               *)

LEMMA NoneIsNoFile == None \notin Slot
BY FilesAssumption DEF None, Slot

LEMMA EntryFinite == IsFiniteSet(Entry)
BY FilesAssumption, FS_Interval DEF Entry

LEMMA NamesFinite ==
  ASSUME NEW f, NEW s
  PROVE  IsFiniteSet(Names(f, s)) /\ Cardinality(Names(f, s)) \in Nat
<1>1. IsFiniteSet(Handles)
  BY FilesAssumption, EntryFinite, FS_Product DEF Handles
<1>2. Names(f, s) \subseteq Handles
  BY DEF Names
<1> QED
  BY <1>1, <1>2, FS_Subset, FS_CardinalityType

\* What an entry may name.
Value == Slot \cup {None}

\* One entry of one table is set.
With(f, p, e, v) == [f EXCEPT ![p][e] = v]

LEMMA SetOne ==
  ASSUME NEW f \in Tables, NEW p \in Psps, NEW e \in Entry, NEW v \in Value, NEW s
  PROVE  /\ With(f, p, e, v) \in Tables
         /\ \A h : h \in Names(With(f, p, e, v), s) <=>
                     IF h = <<p, e>> THEN s = v ELSE h \in Names(f, s)
         /\ <<p, e>> \in Names(f, s) <=> f[p][e] = s
<1> DEFINE g == With(f, p, e, v)
<1>1. g \in Tables
  BY DEF With, Tables, Table, Value
<1>2. \A h \in Handles : g[h[1]][h[2]] = IF h = <<p, e>> THEN v ELSE f[h[1]][h[2]]
  <2> SUFFICES ASSUME NEW q \in Psps, NEW d \in Entry
               PROVE  g[q][d] = IF q = p /\ d = e THEN v ELSE f[q][d]
    BY DEF Handles
  <2> QED
    BY DEF With, Tables, Table, Value
<1>3. <<p, e>> \in Handles
  BY DEF Handles
<1> HIDE DEF g
<1>4. \A h : h \in Names(g, s) <=> IF h = <<p, e>> THEN s = v ELSE h \in Names(f, s)
  BY <1>2, <1>3 DEF Names
<1>5. <<p, e>> \in Names(f, s) <=> f[p][e] = s
  BY <1>3 DEF Names
<1> QED
  BY <1>1, <1>4, <1>5 DEF g

\* What that does to the numbers of handles.
LEMMA SetOneCounts ==
  ASSUME NEW f \in Tables, NEW p \in Psps, NEW e \in Entry, NEW v \in Value, NEW s
  PROVE  Cardinality(Names(With(f, p, e, v), s)) =
           Cardinality(Names(f, s))
             + (IF s = v THEN 1 ELSE 0) - (IF s = f[p][e] THEN 1 ELSE 0)
<1> DEFINE a == Names(f, s)
           b == Names(With(f, p, e, v), s)
<1>1. <<p, e>> \in a <=> f[p][e] = s
  BY SetOne
<1>2. IsFiniteSet(a) /\ Cardinality(a) \in Nat
  BY NamesFinite
<1>3. CASE s = v
  <2>1. b = a \cup {<<p, e>>}
    BY <1>3, SetOne
  <2> HIDE DEF a, b
  <2>2. Cardinality(a \cup {<<p, e>>}) = IF <<p, e>> \in a THEN Cardinality(a) ELSE Cardinality(a) + 1
    BY <1>2, FS_AddElement
  <2>3. Cardinality(b) = IF <<p, e>> \in a THEN Cardinality(a) ELSE Cardinality(a) + 1
    BY <2>1, <2>2, Zenon
  <2> QED
    BY <1>1, <1>2, <1>3, <2>3 DEF a, b
<1>4. CASE s # v
  <2>1. b = a \ {<<p, e>>}
    <3>1. \A h : h \in b <=> IF h = <<p, e>> THEN s = v ELSE h \in a
      BY SetOne
    <3> HIDE DEF a, b
    <3> QED
      BY <1>4, <3>1
  <2> HIDE DEF a, b
  <2>2. Cardinality(a \ {<<p, e>>}) = IF <<p, e>> \in a THEN Cardinality(a) - 1 ELSE Cardinality(a)
    BY <1>2, FS_RemoveElement
  <2>3. Cardinality(b) = IF <<p, e>> \in a THEN Cardinality(a) - 1 ELSE Cardinality(a)
    BY <2>1, <2>2, Zenon
  <2> QED
    BY <1>1, <1>2, <1>4, <2>3 DEF a, b
<1> QED
  BY <1>3, <1>4

-----------------------------------------------------------------------------
(* Counts.                                                                 *)

\* A record of a file with another count.
LEMMA FileWith ==
  ASSUME NEW x \in File, NEW n \in Nat \ {0}
  PROVE  /\ [x EXCEPT !.refCtr = n] \in File
         /\ [x EXCEPT !.refCtr = n].refCtr = n
         /\ [x EXCEPT !.refCtr = n].inherit = x.inherit
BY Zenon DEF File

LEMMA CountIsNat ==
  ASSUME NEW F, FileTable(F), NEW s
  PROVE  Count(F, s) \in Nat /\ (s \in DOMAIN F => Count(F, s) > 0 /\ F[s].refCtr \in Nat)
<1>1. CASE s \in DOMAIN F
  <2>1. F[s].refCtr \in Nat \ {0}
    BY <1>1 DEF FileTable, File
  <2> QED
    BY <1>1, <2>1 DEF Count
<1>2. CASE s \notin DOMAIN F
  BY <1>2 DEF Count
<1> QED
  BY <1>1, <1>2

LEMMA ReferencedSound ==
  ASSUME NEW F, FileTable(F), NEW s \in DOMAIN F
  PROVE  /\ FileTable(Referenced(F, s, 1)) /\ DOMAIN Referenced(F, s, 1) = DOMAIN F
         /\ \A t : Count(Referenced(F, s, 1), t) = Count(F, t) + (IF t = s THEN 1 ELSE 0)
<1> DEFINE x == [F[s] EXCEPT !.refCtr = F[s].refCtr + 1]
<1>1. F[s] \in File /\ F[s].refCtr \in Nat
  BY CountIsNat DEF FileTable
<1>2. x \in File /\ x.refCtr = F[s].refCtr + 1
  <2>1. F[s].refCtr + 1 \in Nat \ {0}
    BY <1>1
  <2> QED
    BY <1>1, <2>1, FileWith
<1>3. Referenced(F, s, 1) = [F EXCEPT ![s] = x]
  BY DEF Referenced
<1> HIDE DEF x
<1>4. \A t \in DOMAIN F : [F EXCEPT ![s] = x][t] = IF t = s THEN x ELSE F[t]
  OBVIOUS
<1>5. DOMAIN [F EXCEPT ![s] = x] = DOMAIN F /\ FileTable([F EXCEPT ![s] = x])
  BY <1>2 DEF FileTable
<1>6. \A t : Count([F EXCEPT ![s] = x], t) = Count(F, t) + (IF t = s THEN 1 ELSE 0)
  BY <1>2, <1>4, <1>5, CountIsNat DEF Count
<1> QED
  BY <1>3, <1>5, <1>6

\* The last reference takes the file with it.
LEMMA ReleasedSound ==
  ASSUME NEW F, FileTable(F), NEW s \in DOMAIN F
  PROVE  /\ FileTable(Released(F, s, 1))
         /\ DOMAIN F \ {s} \subseteq DOMAIN Released(F, s, 1)
         /\ F[s].refCtr > 1 => s \in DOMAIN Released(F, s, 1)
         /\ \A t : Count(Released(F, s, 1), t) = Count(F, t) - (IF t = s THEN 1 ELSE 0)
<1>1. F[s] \in File /\ F[s].refCtr \in Nat /\ F[s].refCtr > 0
  BY CountIsNat DEF FileTable, Count
<1>2. CASE F[s].refCtr <= 1
  <2> DEFINE G == [t \in DOMAIN F \ {s} |-> F[t]]
  <2>1. Released(F, s, 1) = G
    BY <1>2 DEF Released, Restrict
  <2>2. DOMAIN G = DOMAIN F \ {s} /\ \A t \in DOMAIN F \ {s} : G[t] = F[t]
    OBVIOUS
  <2>3. FileTable(G)
    BY DEF FileTable
  <2> HIDE DEF G
  <2>4. \A t : Count(G, t) = Count(F, t) - (IF t = s THEN 1 ELSE 0)
    BY <1>1, <1>2, <2>2, CountIsNat DEF Count
  <2> QED
    BY <1>1, <1>2, <2>1, <2>2, <2>3, <2>4
<1>3. CASE ~(F[s].refCtr <= 1)
  <2> DEFINE x == [F[s] EXCEPT !.refCtr = F[s].refCtr - 1]
  <2>1. F[s].refCtr - 1 \in Nat \ {0}
    BY <1>1, <1>3
  <2>2. x \in File /\ x.refCtr = F[s].refCtr - 1
    BY <1>1, <2>1, FileWith
  <2>3. Released(F, s, 1) = [F EXCEPT ![s] = x]
    BY <1>3 DEF Released
  <2> HIDE DEF x
  <2>4. \A t \in DOMAIN F : [F EXCEPT ![s] = x][t] = IF t = s THEN x ELSE F[t]
    OBVIOUS
  <2>5. DOMAIN [F EXCEPT ![s] = x] = DOMAIN F /\ FileTable([F EXCEPT ![s] = x])
    BY <2>2 DEF FileTable
  <2>6. \A t : Count([F EXCEPT ![s] = x], t) = Count(F, t) - (IF t = s THEN 1 ELSE 0)
    BY <1>1, <2>2, <2>4, <2>5, CountIsNat DEF Count
  <2> QED
    BY <2>3, <2>5, <2>6
<1> QED
  BY <1>2, <1>3

-----------------------------------------------------------------------------
(* Whole tables.                                                           *)

\* The handles of a process with the numbers E.
Row(p, E) == {<<p, e>> : e \in E}

LEMMA RowCounts ==
  ASSUME NEW p, NEW E \in SUBSET Entry
  PROVE  /\ IsFiniteSet(Row(p, E)) /\ Cardinality(Row(p, E)) = Cardinality(E)
         /\ IsFiniteSet(E) /\ Cardinality(E) \in Nat
<1> DEFINE pairs == [e \in E |-> <<p, e>>]
<1>1. pairs \in Bijection(E, Row(p, E))
  <2>1. pairs \in [E -> Row(p, E)]
    BY DEF Row
  <2>2. \A a, b \in E : pairs[a] = pairs[b] => a = b
    OBVIOUS
  <2>3. \A t \in Row(p, E) : \E e \in E : pairs[e] = t
    BY DEF Row
  <2> HIDE DEF pairs
  <2> QED
    BY <2>1, <2>2, <2>3, Fun_IsBij
<1> HIDE DEF pairs
<1>2. ExistsBijection(E, Row(p, E))
  BY <1>1 DEF ExistsBijection
<1>3. IsFiniteSet(E) /\ Cardinality(E) \in Nat
  BY EntryFinite, FS_Subset, FS_CardinalityType
<1> QED
  BY <1>2, <1>3, FS_Bijection

\* A table in another's place, and the entries of one that name a file.
Put(f, p, t) == [f EXCEPT ![p] = t]
Where(t, s) == {e \in Entry : t[e] = s}

\* A table that was empty is filled.
LEMMA FillCounts ==
  ASSUME NEW f \in Tables, NEW p \in Psps, f[p] = Unused, NEW t \in Table, NEW s \in Slot
  PROVE  /\ Put(f, p, t) \in Tables
         /\ \A h : h \in Names(Put(f, p, t), s) <=>
                     h \in Names(f, s) \/ h \in Row(p, Where(t, s))
         /\ Cardinality(Names(Put(f, p, t), s)) =
              Cardinality(Names(f, s)) + Cardinality(Where(t, s))
<1> DEFINE g == Put(f, p, t)
           E == Where(t, s)
<1>1. g \in Tables /\ g[p] = t /\ \A q \in Psps : q # p => g[q] = f[q]
  BY DEF Put, Tables
<1>2. \A e \in Entry : f[p][e] # s
  BY NoneIsNoFile DEF Unused
<1> HIDE DEF g
<1>3. Names(g, s) = Names(f, s) \cup Row(p, E)
  <2>1. ASSUME NEW h \in Names(g, s) PROVE h \in Names(f, s) \cup Row(p, E)
    <3>1. PICK q \in Psps, d \in Entry : h = <<q, d>> /\ g[q][d] = s
      BY DEF Names, Handles
    <3>2. CASE q = p
      BY <1>1, <3>1, <3>2 DEF Row, Where
    <3>3. CASE q # p
      BY <1>1, <3>1, <3>3 DEF Names, Handles
    <3> QED
      BY <3>2, <3>3
  <2>2. ASSUME NEW h \in Names(f, s) PROVE h \in Names(g, s)
    <3>1. PICK q \in Psps, d \in Entry : h = <<q, d>> /\ f[q][d] = s
      BY DEF Names, Handles
    <3> QED
      BY <1>1, <1>2, <3>1 DEF Names, Handles
  <2>3. ASSUME NEW h \in Row(p, E) PROVE h \in Names(g, s)
    BY <1>1 DEF Row, Names, Handles, Where
  <2> QED
    BY <2>1, <2>2, <2>3
<1>4. Names(f, s) \cap Row(p, E) = {}
  BY <1>2 DEF Names, Row, Where
<1>5. /\ IsFiniteSet(Names(f, s)) /\ Cardinality(Names(f, s)) \in Nat
      /\ IsFiniteSet(Row(p, E)) /\ Cardinality(Row(p, E)) = Cardinality(E)
      /\ Cardinality(E) \in Nat
  BY NamesFinite, RowCounts DEF Where
<1> HIDE DEF E
<1>6. Cardinality(Names(f, s) \cup Row(p, E)) =
        Cardinality(Names(f, s)) + Cardinality(E) - Cardinality({})
  BY <1>4, <1>5, FS_Union
<1>7. Cardinality(Names(g, s)) = Cardinality(Names(f, s)) + Cardinality(E)
  BY <1>3, <1>5, <1>6, FS_EmptySet
<1> QED
  BY <1>1, <1>3, <1>7 DEF g, E

\* A table is emptied.
LEMMA EmptyCounts ==
  ASSUME NEW f \in Tables, NEW p \in Psps, NEW s \in Slot
  PROVE  /\ Put(f, p, Unused) \in Tables
         /\ \A h : h \in Names(Put(f, p, Unused), s) <=>
                     h \in Names(f, s) /\ h \notin Row(p, Entry)
         /\ Cardinality(Names(Put(f, p, Unused), s)) =
              Cardinality(Names(f, s)) - Cardinality(Where(f[p], s))
<1> DEFINE g == Put(f, p, Unused)
           E == Where(f[p], s)
<1>1. Unused \in Table
  BY DEF Unused, Table
<1>2. g \in Tables /\ g[p] = Unused /\ \A q \in Psps : q # p => g[q] = f[q]
  BY <1>1 DEF Put, Tables
<1>3. \A e \in Entry : Unused[e] # s
  BY NoneIsNoFile DEF Unused
<1> HIDE DEF g
<1>4. Names(g, s) = Names(f, s) \ Row(p, Entry)
  <2>1. ASSUME NEW h \in Names(g, s) PROVE h \in Names(f, s) \ Row(p, Entry)
    <3>1. PICK q \in Psps, d \in Entry : h = <<q, d>> /\ g[q][d] = s
      BY DEF Names, Handles
    <3>2. q # p
      BY <1>2, <1>3, <3>1
    <3> QED
      BY <1>2, <3>1, <3>2 DEF Names, Handles, Row
  <2>2. ASSUME NEW h \in Names(f, s), h \notin Row(p, Entry) PROVE h \in Names(g, s)
    <3>1. PICK q \in Psps, d \in Entry : h = <<q, d>> /\ f[q][d] = s
      BY DEF Names, Handles
    <3>2. q # p
      BY <2>2, <3>1 DEF Row
    <3> QED
      BY <1>2, <3>1, <3>2 DEF Names, Handles
  <2> QED
    BY <2>1, <2>2
<1>5. Names(f, s) \cap Row(p, Entry) = Row(p, E)
  <2>1. ASSUME NEW e \in Entry PROVE <<p, e>> \in Names(f, s) <=> e \in E
    BY DEF Names, Handles, Where
  <2> QED
    BY <2>1 DEF Row, Where
<1>6. /\ IsFiniteSet(Names(f, s))
      /\ Cardinality(Row(p, E)) = Cardinality(E)
  BY NamesFinite, RowCounts DEF Where
<1> HIDE DEF E
<1>7. Cardinality(Names(f, s) \ Row(p, Entry)) =
        Cardinality(Names(f, s)) - Cardinality(Names(f, s) \cap Row(p, Entry))
  BY <1>6, FS_Difference
<1>8. Cardinality(Names(g, s)) = Cardinality(Names(f, s)) - Cardinality(E)
  BY <1>4, <1>5, <1>6, <1>7
<1> QED
  BY <1>2, <1>4, <1>8 DEF g, E

-----------------------------------------------------------------------------
(* The invariant, and steps that set one entry.                            *)

LEMMA IInvGives ==
  ASSUME IInv
  PROVE  /\ FileTable(Files) /\ files \in Tables /\ lost \in Tally
         /\ Exact(Files, files, lost)
         /\ parent \in [Psps -> Psps] /\ live \subseteq Psps /\ psp \in live /\ psp \in Psps
         /\ \A p \in Psps \ live : files[p] = Unused
         /\ Waiting
BY DEF IInv, TablesAgree, TypeOK, CountsExact, FileTable, Tables, Tally, Exact, Names, NamedBy, Count

LEMMA IInvFrom ==
  /\ FileTable(Files') /\ files' \in Tables /\ lost' \in Tally
  /\ Exact(Files', files', lost')
  /\ parent' \in [Psps -> Psps] /\ live' \subseteq Psps /\ psp' \in live'
  /\ \A p \in Psps \ live' : files'[p] = Unused
  /\ Waiting'
  => IInv'
BY DEF IInv, TablesAgree, TypeOK, CountsExact, FileTable, Tables, Tally, Exact, Names, NamedBy, Count,
       Handles

\* The process that runs sets an entry, and the counts follow.
LEMMA EntryStep ==
  ASSUME IInv, NEW e \in Entry, NEW v \in Value,
         files' = SetFileHandle(files, e, v), FileTable(Files'),
         \A s \in Slot : Count(Files', s) =
           Count(Files, s) + (IF s = v THEN 1 ELSE 0) - (IF s = files[psp][e] THEN 1 ELSE 0),
         UNCHANGED <<parent, live, psp, lost>>
  PROVE  IInv'
<1>1. files' = With(files, psp, e, v)
  BY DEF SetFileHandle, With
<1>2. /\ files \in Tables /\ psp \in Psps /\ psp \in live
      /\ lost \in Tally /\ Exact(Files, files, lost)
  BY IInvGives
<1>3. files' \in Tables
  <2>1. With(files, psp, e, v) \in Tables
    BY <1>2, SetOne, Zenon
  <2> QED
    BY <1>1, <2>1
<1>4. Exact(Files', files', lost')
  <2> SUFFICES ASSUME NEW s \in Slot
               PROVE  Cardinality(Names(files', s)) + lost[s] = Count(Files', s)
    BY DEF Exact
  <2>1. Cardinality(Names(files', s)) =
          Cardinality(Names(files, s))
            + (IF s = v THEN 1 ELSE 0) - (IF s = files[psp][e] THEN 1 ELSE 0)
    BY <1>1, <1>2, SetOneCounts
  <2>2. /\ Cardinality(Names(files, s)) + lost[s] = Count(Files, s)
        /\ Cardinality(Names(files, s)) \in Nat /\ lost[s] \in Nat
    BY <1>2, NamesFinite DEF Exact, Tally
  <2> QED
    BY <2>1, <2>2
<1>5. \A p \in Psps \ live' : files'[p] = Unused
  <2>1. \A p \in Psps : p # psp => files'[p] = files[p]
    BY <1>2 DEF SetFileHandle, Tables
  <2> QED
    BY <1>2, <2>1, IInvGives
<1>6. Waiting'
  BY IInvGives DEF Waiting
<1> QED
  BY <1>3, <1>4, <1>5, <1>6, IInvGives, IInvFrom

\* A set of numbers that is not empty has a least element.
LEMMA LeastExists ==
  ASSUME NEW S \in SUBSET Nat, S # {}
  PROVE  First(S) \in S
<1> DEFINE R == {ss \in Nat \X Nat : ss[1] < ss[2]}
<1>1. IsWellFoundedOn(R, Nat)
  BY NatLessThanWellFounded DEF OpToRel
<1> HIDE DEF R
<1>2. PICK x \in S : \A y \in S : ~(<<y, x>> \in R)
  BY <1>1, WFMin, Zenon
<1>3. \A y \in S : ~(y < x)
  BY <1>2 DEF R
<1>4. \A y \in S : x <= y
  BY <1>3
<1> QED
  BY <1>4 DEF First

LEMMA FirstSlot == FreeSlots # {} => First(FreeSlots) \in Slot \ DOMAIN Files
<1>1. FreeSlots \in SUBSET Nat
  BY FilesAssumption DEF FreeSlots, Slot
<1> QED
  BY <1>1, LeastExists DEF FreeSlots

LEMMA FirstEntry ==
  FreeEntries(psp) # {} =>
    First(FreeEntries(psp)) \in Entry /\ files[psp][First(FreeEntries(psp))] = None
<1>1. FreeEntries(psp) \in SUBSET Nat
  BY FilesAssumption DEF FreeEntries, Entry
<1> QED
  BY <1>1, LeastExists DEF FreeEntries

LEMMA OpenSound == \A inherit \in BOOLEAN : IInv /\ Open(inherit) => IInv'
<1> SUFFICES ASSUME NEW inherit \in BOOLEAN, IInv, Open(inherit) PROVE IInv'
  OBVIOUS
<1> DEFINE s == First(FreeSlots)
           e == First(FreeEntries(psp))
           new == [refCtr |-> 1, open |-> TRUE, inherit |-> inherit]
           G == [t \in DOMAIN Files \cup {s} |-> IF t = s THEN new ELSE Files[t]]
<1>1. Files' = G /\ files' = SetFileHandle(files, e, s) /\ UNCHANGED <<parent, live, psp, lost>>
  BY DEF Open
<1>2. s \in Slot \ DOMAIN Files /\ e \in Entry /\ files[psp][e] = None
  BY FirstSlot, FirstEntry DEF Open
<1>3. new \in File /\ new.refCtr = 1
  <2>1. 1 \in Nat \ {0}
    OBVIOUS
  <2> QED
    BY <2>1, Zenon DEF File
<1> HIDE DEF s, e, new
<1>4. FileTable(Files)
  BY IInvGives
<1>5. /\ DOMAIN G = DOMAIN Files \cup {s} /\ G[s] = new
      /\ \A t \in DOMAIN Files : G[t] = Files[t]
  BY <1>2
<1>6. FileTable(G)
  BY <1>2, <1>3, <1>4 DEF FileTable
<1> HIDE DEF G
<1>7. \A t \in Slot : Count(G, t) = Count(Files, t) + (IF t = s THEN 1 ELSE 0)
  BY <1>2, <1>3, <1>4, <1>5, CountIsNat DEF Count
<1>8. \A t \in Slot : t # files[psp][e]
  BY <1>2, NoneIsNoFile
<1>9. \A t \in Slot : Count(G, t) =
        Count(Files, t) + (IF t = s THEN 1 ELSE 0) - (IF t = files[psp][e] THEN 1 ELSE 0)
  BY <1>4, <1>7, <1>8, CountIsNat
<1> QED
  BY <1>1, <1>2, <1>6, <1>9, EntryStep DEF Value

LEMMA CloseSound == \A e \in Entry : IInv /\ Close(e) => IInv'
<1> SUFFICES ASSUME NEW e \in Entry, IInv, Close(e) PROVE IInv'
  OBVIOUS
<1> DEFINE s == files[psp][e]
<1>1. /\ s \in DOMAIN Files /\ Files' = Released(Files, s, 1)
      /\ files' = SetFileHandle(files, e, None) /\ UNCHANGED <<parent, live, psp, lost>>
  BY DEF Close, RealHandle
<1>2. FileTable(Files)
  BY IInvGives
<1> HIDE DEF s
<1>3. /\ FileTable(Files')
      /\ \A t : Count(Files', t) = Count(Files, t) - (IF t = s THEN 1 ELSE 0)
  BY <1>1, <1>2, ReleasedSound
<1>4. \A t \in Slot : t # None
  BY NoneIsNoFile
<1>5. \A t \in Slot : Count(Files', t) =
        Count(Files, t) + (IF t = None THEN 1 ELSE 0) - (IF t = s THEN 1 ELSE 0)
  BY <1>2, <1>3, <1>4, CountIsNat
<1> QED
  BY <1>1, <1>3, <1>5, EntryStep DEF Value, s

LEMMA DuplicateSound == \A e \in Entry : IInv /\ Duplicate(e) => IInv'
<1> SUFFICES ASSUME NEW e \in Entry, IInv, Duplicate(e) PROVE IInv'
  OBVIOUS
<1> DEFINE s == files[psp][e]
           new == First(FreeEntries(psp))
<1>1. /\ s \in DOMAIN Files /\ Files' = Referenced(Files, s, 1)
      /\ files' = SetFileHandle(files, new, s) /\ UNCHANGED <<parent, live, psp, lost>>
  BY DEF Duplicate, RealHandle, IsOpen
<1>2. FileTable(Files)
  BY IInvGives
<1>3. new \in Entry /\ files[psp][new] = None
  BY FirstEntry DEF Duplicate
<1> HIDE DEF s, new
<1>4. /\ FileTable(Files') /\ s \in Slot
      /\ \A t : Count(Files', t) = Count(Files, t) + (IF t = s THEN 1 ELSE 0)
  BY <1>1, <1>2, ReferencedSound DEF FileTable
<1>5. \A t \in Slot : t # files[psp][new]
  BY <1>3, NoneIsNoFile
<1>6. \A t \in Slot : Count(Files', t) =
        Count(Files, t) + (IF t = s THEN 1 ELSE 0) - (IF t = files[psp][new] THEN 1 ELSE 0)
  BY <1>2, <1>4, <1>5, CountIsNat
<1> QED
  BY <1>1, <1>3, <1>4, <1>6, EntryStep DEF Value

\* An entry that names a file names an open one, and two that name the same
\* are two references.
LEMMA NamedIsOpen ==
  ASSUME IInv, NEW p \in Psps, NEW e \in Entry, files[p][e] \in Slot
  PROVE  files[p][e] \in DOMAIN Files
<1> DEFINE s == files[p][e]
<1>1. <<p, e>> \in Names(files, s)
  BY DEF Names, Handles
<1>2. /\ IsFiniteSet(Names(files, s)) /\ Cardinality(Names(files, s)) \in Nat
      /\ Cardinality(Names(files, s)) + lost[s] = Count(Files, s) /\ lost[s] \in Nat
  BY NamesFinite, IInvGives DEF Exact, Tally
<1>3. Cardinality(Names(files, s)) # 0
  BY <1>1, <1>2, FS_EmptySet
<1> QED
  BY <1>2, <1>3 DEF Count

LEMMA TwoReferences ==
  ASSUME IInv, NEW e \in Entry, NEW d \in Entry, e # d,
         NEW s \in DOMAIN Files, files[psp][e] = s, files[psp][d] = s
  PROVE  Files[s].refCtr > 1
<1> DEFINE N == Names(files, s)
<1>1. <<psp, e>> \in N /\ <<psp, d>> \in N /\ <<psp, e>> # <<psp, d>>
  BY IInvGives DEF Names, Handles
<1>2. IsFiniteSet(N) /\ Cardinality(N) \in Nat
  BY NamesFinite
<1>3. Cardinality(N) + lost[s] = Files[s].refCtr /\ lost[s] \in Nat
  BY IInvGives DEF Exact, Tally, Count, FileTable
<1> HIDE DEF N
<1>4. Cardinality(N \ {<<psp, e>>}) = Cardinality(N) - 1 /\ IsFiniteSet(N \ {<<psp, e>>})
  BY <1>1, <1>2, FS_RemoveElement
<1>5. <<psp, d>> \in N \ {<<psp, e>>}
  BY <1>1
<1> HIDE DEF N
<1>6. N \ {<<psp, e>>} # {}
  BY <1>5
<1>7. Cardinality(N \ {<<psp, e>>}) # 0
  BY <1>4, <1>6, FS_EmptySet, Zenon
<1>8. Cardinality(N \ {<<psp, e>>}) \in Nat
  BY <1>4, FS_CardinalityType
<1> QED
  BY <1>2, <1>3, <1>4, <1>7, <1>8

\* Closing what the new entry names before the other file is referenced cannot
\* delete it: when both entries name it there are two references.
LEMMA ForceDuplicateSound == \A e, new \in Entry : IInv /\ ForceDuplicate(e, new) => IInv'
<1> SUFFICES ASSUME NEW e \in Entry, NEW new \in Entry, IInv, ForceDuplicate(e, new)
             PROVE IInv'
  OBVIOUS
<1> DEFINE s == files[psp][e]
           old == files[psp][new]
           G == IF old \in DOMAIN Files THEN Released(Files, old, 1) ELSE Files
<1>1. /\ e # new /\ s \in DOMAIN Files /\ Files' = Referenced(G, s, 1)
      /\ files' = SetFileHandle(files, new, s) /\ UNCHANGED <<parent, live, psp, lost>>
  BY DEF ForceDuplicate, RealHandle, IsOpen
<1>2. FileTable(Files) /\ s \in Slot
  BY <1>1, IInvGives DEF FileTable
<1>3. old = s => Files[s].refCtr > 1
  BY <1>1, TwoReferences
<1>4. old \in Slot => old \in DOMAIN Files
  BY NamedIsOpen, IInvGives
<1> HIDE DEF s, old
<1>5. /\ FileTable(G) /\ s \in DOMAIN G
      /\ \A t \in Slot : Count(G, t) = Count(Files, t) - (IF t = old THEN 1 ELSE 0)
  <2>1. CASE old \in DOMAIN Files
    <3>1. /\ FileTable(Released(Files, old, 1))
          /\ DOMAIN Files \ {old} \subseteq DOMAIN Released(Files, old, 1)
          /\ Files[old].refCtr > 1 => old \in DOMAIN Released(Files, old, 1)
          /\ \A t : Count(Released(Files, old, 1), t) =
                      Count(Files, t) - (IF t = old THEN 1 ELSE 0)
      BY <1>2, <2>1, ReleasedSound
    <3> QED
      BY <1>1, <1>3, <2>1, <3>1
  <2>2. CASE old \notin DOMAIN Files
    <3>1. \A t \in Slot : t # old
      BY <1>4, <2>2
    <3> QED
      BY <1>1, <1>2, <2>2, <3>1, CountIsNat
  <2> QED
    BY <2>1, <2>2
<1> HIDE DEF G
<1>6. /\ FileTable(Files')
      /\ \A t : Count(Files', t) = Count(G, t) + (IF t = s THEN 1 ELSE 0)
  BY <1>1, <1>5, ReferencedSound
<1>7. \A t \in Slot : Count(Files', t) =
        Count(Files, t) + (IF t = s THEN 1 ELSE 0) - (IF t = old THEN 1 ELSE 0)
  BY <1>2, <1>5, <1>6, CountIsNat
<1> QED
  BY <1>1, <1>2, <1>6, <1>7, EntryStep DEF Value, old

\* A reference without a handle is counted as one.
LEMMA ForceDuplicateBehindSound == \A e \in Entry : IInv /\ ForceDuplicateBehind(e) => IInv'
<1> SUFFICES ASSUME NEW e \in Entry, IInv, ForceDuplicateBehind(e) PROVE IInv'
  OBVIOUS
<1> DEFINE s == files[psp][e]
<1>1. /\ s \in DOMAIN Files /\ Files' = Referenced(Files, s, 1)
      /\ lost' = [lost EXCEPT ![s] = @ + 1] /\ UNCHANGED <<files, parent, live, psp>>
  BY DEF ForceDuplicateBehind, RealHandle, IsOpen
<1>2. FileTable(Files) /\ lost \in Tally /\ Exact(Files, files, lost)
  BY IInvGives
<1> HIDE DEF s
<1>3. /\ FileTable(Files') /\ s \in Slot
      /\ \A t : Count(Files', t) = Count(Files, t) + (IF t = s THEN 1 ELSE 0)
  BY <1>1, <1>2, ReferencedSound DEF FileTable
<1>4. lost' \in Tally /\ \A t \in Slot : lost'[t] = lost[t] + (IF t = s THEN 1 ELSE 0)
  BY <1>1, <1>2, <1>3 DEF Tally
<1>5. Exact(Files', files', lost')
  <2> SUFFICES ASSUME NEW t \in Slot
               PROVE  Cardinality(Names(files, t)) + lost'[t] = Count(Files', t)
    BY <1>1 DEF Exact
  <2>1. Cardinality(Names(files, t)) + lost[t] = Count(Files, t)
    BY <1>2 DEF Exact
  <2>2. Cardinality(Names(files, t)) \in Nat /\ lost[t] \in Nat
    BY <1>2, NamesFinite DEF Tally
  <2> QED
    BY <1>3, <1>4, <2>1, <2>2
<1>6. Waiting'
  BY <1>1, IInvGives DEF Waiting
<1> QED
  BY <1>1, <1>3, <1>4, <1>5, <1>6, IInvGives, IInvFrom

-----------------------------------------------------------------------------
(* Processes.                                                              *)

\* The process that starts a child waits for it.
LEMMA ChildWaits ==
  ASSUME IInv, NEW child \in Psps, child \notin live,
         parent' = [parent EXCEPT ![child] = psp],
         live' = live \cup {child}, psp' = child
  PROVE  Waiting'
<1>1. parent[Shell] = Shell
  BY IInvGives DEF Waiting
<1>2. PICK n \in Nat \ {0} : \E stack \in [1 .. n -> live] :
       /\ stack[1] = Shell /\ stack[n] = psp
       /\ \A i, j \in 1 .. n : stack[i] = stack[j] => i = j
       /\ \A i \in 1 .. n - 1 : parent[stack[i + 1]] = stack[i]
  BY IInvGives DEF Waiting
<1>3. PICK stack \in [1 .. n -> live] :
       /\ stack[1] = Shell /\ stack[n] = psp
       /\ \A i, j \in 1 .. n : stack[i] = stack[j] => i = j
       /\ \A i \in 1 .. n - 1 : parent[stack[i + 1]] = stack[i]
  BY <1>2
<1>4. parent \in [Psps -> Psps] /\ live \subseteq Psps
  BY IInvGives
<1>5. \A p \in live : parent'[p] = parent[p]
  BY <1>4
<1>6. parent'[child] = psp
  BY <1>4
<1>7. \A i \in 1 .. n : stack[i] \in live
  BY <1>3
<1> DEFINE m == n + 1
           longer == [i \in 1 .. m |-> IF i = m THEN child ELSE stack[i]]
<1>8. /\ m \in Nat \ {0} /\ 1 \in 1 .. n /\ n \in 1 .. n /\ 1 # m
      /\ \A i \in 1 .. m : i # m => i \in 1 .. n
      /\ \A i \in 1 .. n : i \in 1 .. m /\ i # m
      /\ \A i \in 1 .. m - 1 : i \in 1 .. n /\ i + 1 \in 1 .. m
      /\ \A i \in 1 .. m - 1 : i # n => i \in 1 .. n - 1 /\ i + 1 \in 1 .. n
      /\ n + 1 = m
  BY <1>2
<1>9. longer[m] = child /\ \A i \in 1 .. n : longer[i] = stack[i]
  BY <1>8
<1>10. longer \in [1 .. m -> live']
  BY <1>7, <1>8
<1> HIDE DEF longer
<1>11. longer[1] = Shell /\ longer[m] = psp'
  BY <1>3, <1>8, <1>9
<1>12. \A i, j \in 1 .. m : longer[i] = longer[j] => i = j
  BY <1>3, <1>7, <1>8, <1>9
<1>13. ASSUME NEW i \in 1 .. m - 1 PROVE parent'[longer[i + 1]] = longer[i]
  <2>1. CASE i = n
    BY <1>3, <1>6, <1>8, <1>9, <2>1
  <2>2. CASE i # n
    BY <1>3, <1>5, <1>7, <1>8, <1>9, <2>2
  <2> QED
    BY <2>1, <2>2
<1>14. parent'[Shell] = Shell
  <2>1. Shell \in live
    BY <1>3, <1>7, <1>8
  <2> QED
    BY <1>1, <1>5, <2>1
<1> SUFFICES \E k \in Nat \ {0} : \E line \in [1 .. k -> live'] :
      /\ line[1] = Shell /\ line[k] = psp'
      /\ \A i, j \in 1 .. k : line[i] = line[j] => i = j
      /\ \A i \in 1 .. k - 1 : parent'[line[i + 1]] = line[i]
  BY <1>14 DEF Waiting
<1> WITNESS m \in Nat \ {0}
<1> WITNESS longer \in [1 .. m -> live']
<1> QED
  BY <1>11, <1>12, <1>13

LEMMA ChildSound == \A child \in Psps : IInv /\ ChildPSP(child) => IInv'
<1> SUFFICES ASSUME NEW child \in Psps, IInv, ChildPSP(child) PROVE IInv'
  OBVIOUS
<1> DEFINE t == [e \in Entry |-> IF Inherits(e) THEN RealHandle(e) ELSE None]
           G == [s \in DOMAIN Files |->
                   IF Files[s].inherit
                   THEN [Files[s] EXCEPT !.refCtr = Files[s].refCtr + Cardinality(Naming(psp, s))]
                   ELSE Files[s]]
<1>1. /\ child \notin live /\ Files' = G /\ files' = [files EXCEPT ![child] = t]
      /\ parent' = [parent EXCEPT ![child] = psp]
      /\ live' = live \cup {child} /\ psp' = child /\ lost' = lost
  BY DEF ChildPSP
<1>2. /\ FileTable(Files) /\ files \in Tables
      /\ lost \in Tally /\ Exact(Files, files, lost)
      /\ live \subseteq Psps /\ psp \in Psps /\ files[child] = Unused
      /\ parent \in [Psps -> Psps]
  BY <1>1, IInvGives
<1>3. t \in Table
  BY <1>2 DEF Table, Inherits, FileTable
<1>4. \A s \in Slot : Where(t, s) =
        IF s \in DOMAIN Files /\ Files[s].inherit THEN Naming(psp, s) ELSE {}
  BY NoneIsNoFile DEF Inherits, RealHandle, Naming, Where
<1>5. \A s : Cardinality(Naming(psp, s)) \in Nat
  BY RowCounts DEF Naming
<1>6. ASSUME NEW s \in DOMAIN Files
      PROVE  /\ G[s] \in File
             /\ G[s].refCtr = Files[s].refCtr
                  + (IF Files[s].inherit THEN Cardinality(Naming(psp, s)) ELSE 0)
  <2>1. Files[s] \in File /\ Files[s].refCtr \in Nat /\ Files[s].refCtr > 0
    BY <1>2, CountIsNat DEF FileTable, Count
  <2>2. CASE Files[s].inherit
    <3>1. Files[s].refCtr + Cardinality(Naming(psp, s)) \in Nat \ {0}
      BY <1>5, <2>1
    <3> DEFINE x == [Files[s] EXCEPT !.refCtr = Files[s].refCtr + Cardinality(Naming(psp, s))]
    <3>2. x \in File /\ x.refCtr = Files[s].refCtr + Cardinality(Naming(psp, s))
      BY <2>1, <3>1, FileWith
    <3>3. G[s] = x
      BY <2>2
    <3> HIDE DEF x, G
    <3> QED
      BY <2>2, <3>2, <3>3
  <2>3. CASE ~Files[s].inherit
    <3>1. G[s] = Files[s]
      BY <2>3
    <3> HIDE DEF G
    <3> QED
      BY <2>1, <2>3, <3>1
  <2> QED
    BY <2>2, <2>3
<1>7. DOMAIN G = DOMAIN Files /\ FileTable(G)
  BY <1>2, <1>6 DEF FileTable
<1> HIDE DEF t, G
<1>8. files' = Put(files, child, t)
  BY <1>1 DEF Put
<1>9. files' \in Tables
  BY <1>2, <1>3, <1>8 DEF Put, Tables
<1>10. Exact(Files', files', lost')
  <2> SUFFICES ASSUME NEW s \in Slot
               PROVE  Cardinality(Names(files', s)) + lost[s] = Count(G, s)
    BY <1>1 DEF Exact
  <2>1. /\ Cardinality(Names(files, s)) + lost[s] = Count(Files, s) /\ Count(Files, s) \in Nat
        /\ lost[s] \in Nat /\ Cardinality(Names(files, s)) \in Nat
        /\ Cardinality(Names(files', s)) =
             Cardinality(Names(files, s)) + Cardinality(Where(t, s))
    BY <1>2, <1>3, <1>8, FillCounts, CountIsNat, NamesFinite DEF Exact, Tally
  <2>2. CASE s \in DOMAIN Files /\ Files[s].inherit
    <3>1. Cardinality(Where(t, s)) = Cardinality(Naming(psp, s))
      BY <1>4, <2>2
    <3>2. Count(G, s) = Count(Files, s) + Cardinality(Naming(psp, s))
      BY <1>6, <1>7, <2>2 DEF Count
    <3> QED
      BY <1>5, <2>1, <3>1, <3>2
  <2>3. CASE ~(s \in DOMAIN Files /\ Files[s].inherit)
    <3>1. Cardinality(Where(t, s)) = 0
      BY <1>4, <2>3, FS_EmptySet
    <3>2. Count(G, s) = Count(Files, s)
      BY <1>6, <1>7, <2>1, <2>3 DEF Count
    <3> QED
      BY <2>1, <3>1, <3>2
  <2> QED
    BY <2>2, <2>3
<1>11. \A p \in Psps \ live' : files'[p] = Unused
  BY <1>1, <1>2, IInvGives DEF Tables
<1>12. Waiting'
  BY <1>1, ChildWaits
<1> QED
  BY <1>1, <1>2, <1>7, <1>9, <1>10, <1>11, <1>12, IInvFrom

\* The process that waited for the one that ends has not ended itself.
LEMMA ParentRuns ==
  ASSUME IInv, parent[psp] # psp, live' = live \/ live' = live \ {psp},
         psp' = parent[psp], parent' = parent
  PROVE  Waiting' /\ psp' \in live'
<1>1. parent[Shell] = Shell
  BY IInvGives DEF Waiting
<1>2. PICK n \in Nat \ {0} : \E stack \in [1 .. n -> live] :
       /\ stack[1] = Shell /\ stack[n] = psp
       /\ \A i, j \in 1 .. n : stack[i] = stack[j] => i = j
       /\ \A i \in 1 .. n - 1 : parent[stack[i + 1]] = stack[i]
  BY IInvGives DEF Waiting
<1>3. PICK stack \in [1 .. n -> live] :
       /\ stack[1] = Shell /\ stack[n] = psp
       /\ \A i, j \in 1 .. n : stack[i] = stack[j] => i = j
       /\ \A i \in 1 .. n - 1 : parent[stack[i + 1]] = stack[i]
  BY <1>2
<1>4. n # 1
  BY <1>1, <1>3
<1> DEFINE m == n - 1
           shorter == [i \in 1 .. m |-> stack[i]]
<1>5. /\ m \in Nat \ {0} /\ n \in 1 .. n /\ m + 1 = n
      /\ \A i \in 1 .. m : i \in 1 .. n /\ i # n
      /\ \A i \in 1 .. m - 1 : i \in 1 .. m /\ i + 1 \in 1 .. m
      /\ 1 \in 1 .. m /\ m \in 1 .. m
  BY <1>2, <1>4
<1>6. \A i \in 1 .. m : shorter[i] = stack[i]
  OBVIOUS
<1>7. \A i \in 1 .. m : stack[i] \in live /\ stack[i] # psp
  BY <1>3, <1>5
<1>8. shorter \in [1 .. m -> live']
  BY <1>7
<1> HIDE DEF shorter
<1>9. parent[psp] = stack[m]
  BY <1>3, <1>5
<1>10. shorter[1] = Shell /\ shorter[m] = psp'
  BY <1>3, <1>5, <1>6, <1>9
<1>11. \A i, j \in 1 .. m : shorter[i] = shorter[j] => i = j
  BY <1>3, <1>5, <1>6
<1>12. \A i \in 1 .. m - 1 : parent'[shorter[i + 1]] = shorter[i]
  BY <1>3, <1>5, <1>6
<1> HIDE DEF m
<1>13. psp' \in live'
  BY <1>5, <1>8, <1>10
<1> SUFFICES \E k \in Nat \ {0} : \E line \in [1 .. k -> live'] :
      /\ line[1] = Shell /\ line[k] = psp'
      /\ \A i, j \in 1 .. k : line[i] = line[j] => i = j
      /\ \A i \in 1 .. k - 1 : parent'[line[i + 1]] = line[i]
  BY <1>1, <1>13 DEF Waiting
<1>14. m \in Nat \ {0}
  BY <1>5
<1> WITNESS m \in Nat \ {0}
<1> WITNESS shorter \in [1 .. m -> live']
<1> QED
  BY <1>10, <1>11, <1>12

\* The counts after every handle of the process that runs was closed.
LEMMA TerminateSound == \A tsr \in BOOLEAN : IInv /\ Terminate(tsr) => IInv'
<1> SUFFICES ASSUME NEW tsr \in BOOLEAN, IInv, Terminate(tsr) PROVE IInv'
  OBVIOUS
<1>1. /\ FileTable(Files) /\ files \in Tables
      /\ lost \in Tally /\ Exact(Files, files, lost)
      /\ live \subseteq Psps /\ psp \in Psps /\ parent \in [Psps -> Psps]
  BY IInvGives
<1>2. parent[psp] # psp /\ psp' = parent[psp] /\ parent' = parent /\ lost' = lost
  BY DEF Terminate
<1>3. CASE tsr
  <2>1. UNCHANGED <<Files, files, live>>
    BY <1>3 DEF Terminate
  <2>2. Waiting' /\ psp' \in live'
    BY <1>2, <2>1, ParentRuns
  <2>3. Exact(Files', files', lost')
    BY <1>1, <1>2, <2>1
  <2> QED
    BY <1>1, <1>2, <2>1, <2>2, <2>3, IInvGives, IInvFrom
<1>4. CASE ~tsr
  <2> DEFINE n(s) == Cardinality(Naming(psp, s))
             kept == {s \in DOMAIN Files : Naming(psp, s) # {} => Files[s].refCtr > n(s)}
             G == [s \in kept |-> [Files[s] EXCEPT !.refCtr = Files[s].refCtr - n(s)]]
  <2>1. /\ Files' = G /\ files' = [files EXCEPT ![psp] = Unused] /\ live' = live \ {psp}
    BY <1>4 DEF Terminate
  <2>2. Waiting' /\ psp' \in live'
    BY <1>2, <2>1, ParentRuns
  <2>3. files' = Put(files, psp, Unused)
    BY <2>1 DEF Put
  <2>4. files' \in Tables
    <3>1. Unused \in Table
      BY DEF Unused, Table
    <3> QED
      BY <1>1, <2>1, <3>1 DEF Tables
  <2>5. \A s : Where(files[psp], s) = Naming(psp, s)
    BY DEF Where, Naming
  <2>6. \A s \in Slot :
          /\ n(s) \in Nat /\ (n(s) = 0 <=> Naming(psp, s) = {})
          /\ Cardinality(Names(files', s)) + lost[s] = Count(Files, s) - n(s)
          /\ Cardinality(Names(files', s)) \in Nat /\ lost[s] \in Nat
    <3> SUFFICES ASSUME NEW s \in Slot
                 PROVE  /\ n(s) \in Nat /\ (n(s) = 0 <=> Naming(psp, s) = {})
                        /\ Cardinality(Names(files', s)) + lost[s] = Count(Files, s) - n(s)
                        /\ Cardinality(Names(files', s)) \in Nat /\ lost[s] \in Nat
      OBVIOUS
    <3>1. IsFiniteSet(Naming(psp, s)) /\ n(s) \in Nat
      BY RowCounts DEF Naming
    <3>2. n(s) = 0 <=> Naming(psp, s) = {}
      BY <3>1, FS_EmptySet
    <3>3. Cardinality(Names(Put(files, psp, Unused), s)) =
            Cardinality(Names(files, s)) - Cardinality(Where(files[psp], s))
      BY <1>1, EmptyCounts
    <3>4. Cardinality(Where(files[psp], s)) = n(s)
      BY <2>5
    <3>5. Cardinality(Names(files, s)) + lost[s] = Count(Files, s)
      BY <1>1 DEF Exact
    <3>6. /\ Cardinality(Names(files', s)) \in Nat /\ lost[s] \in Nat
          /\ Cardinality(Names(files, s)) \in Nat
      BY <1>1, NamesFinite DEF Tally
    <3> QED
      BY <2>3, <3>1, <3>2, <3>3, <3>4, <3>5, <3>6
  <2> HIDE DEF n
  <2>7. ASSUME NEW s \in kept
        PROVE  G[s] \in File /\ G[s].refCtr = Files[s].refCtr - n(s)
    <3>1. s \in DOMAIN Files /\ s \in Slot
      BY <1>1 DEF FileTable
    <3>2. Files[s] \in File /\ Files[s].refCtr \in Nat /\ Files[s].refCtr > 0
      BY <1>1, <3>1, CountIsNat DEF FileTable, Count
    <3>3. Files[s].refCtr - n(s) \in Nat \ {0}
      BY <2>6, <3>1, <3>2
    <3>4. [Files[s] EXCEPT !.refCtr = Files[s].refCtr - n(s)] \in File
          /\ [Files[s] EXCEPT !.refCtr = Files[s].refCtr - n(s)].refCtr = Files[s].refCtr - n(s)
      BY <3>2, <3>3, FileWith
    <3> QED
      BY <3>4
  <2>8. DOMAIN G = kept
    OBVIOUS
  <2>9. FileTable(G)
    <3>1. G \in [kept -> File]
      BY <2>7
    <3>2. kept \subseteq Slot
      BY <1>1 DEF FileTable
    <3> QED
      BY <3>1, <3>2 DEF FileTable
  <2> HIDE DEF G
  <2>10. Exact(G, files', lost)
    <3> SUFFICES ASSUME NEW s \in Slot
                 PROVE  Cardinality(Names(files', s)) + lost[s] = Count(G, s)
      BY DEF Exact
    <3>1. Count(Files, s) \in Nat
      BY <1>1, CountIsNat
    <3>2. CASE s \in kept
      BY <2>6, <2>7, <2>8, <3>2 DEF Count
    <3>3. CASE s \in DOMAIN Files /\ s \notin kept
      \* It had no other reference.
      BY <2>6, <2>8, <3>1, <3>3 DEF Count
    <3>4. CASE s \notin DOMAIN Files
      BY <2>6, <2>8, <3>1, <3>4 DEF Count
    <3> QED
      BY <3>2, <3>3, <3>4
  <2> HIDE DEF kept
  <2>11. \A p \in Psps \ live' : files'[p] = Unused
    BY <1>1, <2>1, IInvGives DEF Tables
  <2> QED
    BY <1>1, <1>2, <2>1, <2>2, <2>4, <2>9, <2>10, <2>11, IInvFrom
<1> QED
  BY <1>3, <1>4

-----------------------------------------------------------------------------
(* Putting it together.                                                    *)

LEMMA InitSound == Init => IInv
<1> SUFFICES ASSUME Init PROVE IInv
  OBVIOUS
<1>1. Shell \in Psps
  BY FilesAssumption
<1>2. /\ Files = [s \in {} |-> 0] /\ files = [p \in Psps |-> Unused]
      /\ parent = [p \in Psps |-> Shell] /\ live = {Shell} /\ psp = Shell
      /\ lost = [s \in Slot |-> 0]
  BY DEF Init
<1>3. TypeOK
  <2>1. Unused \in Table
    BY DEF Unused, Table
  <2> QED
    BY <1>1, <1>2, <2>1 DEF TypeOK
<1>4. CountsExact
  <2> SUFFICES ASSUME NEW s \in Slot
               PROVE  Cardinality(NamedBy(s)) + lost[s] =
                        IF s \in DOMAIN Files THEN Files[s].refCtr ELSE 0
    BY DEF CountsExact
  <2>1. \A p \in Psps, e \in Entry : files[p][e] # s
    BY <1>2, NoneIsNoFile DEF Unused
  <2>2. NamedBy(s) = {}
    BY <2>1 DEF NamedBy, Handles
  <2> QED
    BY <1>2, <2>2, FS_EmptySet
<1>5. TablesAgree
  BY <1>2, <1>3, <1>4 DEF TablesAgree
<1>6. Waiting
  <2> DEFINE alone == [i \in 1 .. 1 |-> Shell]
  <2>1. alone \in [1 .. 1 -> live] /\ alone[1] = Shell
    BY <1>2
  <2> HIDE DEF alone
  <2> USE <2>1
  <2> SUFFICES \E n \in Nat \ {0} : \E stack \in [1 .. n -> live] :
       /\ stack[1] = Shell /\ stack[n] = psp
       /\ \A i, j \in 1 .. n : stack[i] = stack[j] => i = j
       /\ \A i \in 1 .. n - 1 : parent[stack[i + 1]] = stack[i]
    BY <1>1, <1>2 DEF Waiting
  <2>2. 1 \in Nat \ {0}
    OBVIOUS
  <2> WITNESS 1 \in Nat \ {0}
  <2> WITNESS alone \in [1 .. 1 -> live]
  <2> QED
    BY <1>2, <2>1
<1> QED
  BY <1>5, <1>6 DEF IInv

LEMMA NextSound == IInv /\ [Next]_vars => IInv'
<1> SUFFICES ASSUME IInv, [Next]_vars PROVE IInv'
  OBVIOUS
<1>1. CASE \E inherit \in BOOLEAN : Open(inherit)
  BY <1>1, OpenSound
<1>2. CASE \E e \in Entry : Close(e) \/ Duplicate(e) \/ ForceDuplicateBehind(e)
  BY <1>2, CloseSound, DuplicateSound, ForceDuplicateBehindSound
<1>3. CASE \E e, new \in Entry : ForceDuplicate(e, new)
  BY <1>3, ForceDuplicateSound
<1>4. CASE \E p \in Psps : ChildPSP(p) \/ Execute(p)
  BY <1>4, ChildSound DEF Execute
<1>5. CASE \E tsr \in BOOLEAN : Terminate(tsr)
  BY <1>5, TerminateSound
<1>6. CASE UNCHANGED vars
  <2>1. UNCHANGED <<Files, files, parent, live, psp, lost>>
    BY <1>6 DEF vars
  <2>2. Exact(Files', files', lost')
    BY <2>1, IInvGives
  <2>3. Waiting'
    BY <2>1, IInvGives DEF Waiting
  <2> QED
    BY <2>1, <2>2, <2>3, IInvGives, IInvFrom
<1> QED
  BY <1>1, <1>2, <1>3, <1>4, <1>5, <1>6 DEF Next

\* For any number of files, handles and processes, the count of a file is the
\* number of the handles that name it and of the references that were made to it
\* without one, and no handles are left where no process is: a file is closed
\* with its last handle, in whatever process that is, unless INT 21/46h was asked
\* for a handle behind the table.
THEOREM CountsAreExact == Spec => []TablesAgree
<1>1. Spec => []IInv
  BY InitSound, NextSound, PTL DEF Spec
<1>2. IInv => TablesAgree
  BY DEF IInv
<1> QED
  BY <1>1, <1>2, PTL

-----------------------------------------------------------------------------
(* The refinement. The sets of handles follow from the tables of handles   *)
(* and from the references without one, since a file is open exactly when  *)
(* it has either. Files that have no handle look all alike.                *)

Opened == {HeldBy(s) : s \in DOMAIN Files}

\* HeldBy for any tables.
Shown(f, l, s) == Names(f, s) \cup (IF l[s] > 0 THEN {NoHandle} ELSE {})

OpenedOf(f, l) == {Shown(f, l, s) : s \in Slot} \ {{}}

LEMMA NoHandleIsNone == NoHandle \notin Handles /\ \A m \in Entry : m # None
BY FilesAssumption DEF NoHandle, Handles, None, Entry

LEMMA ShownIs ==
  ASSUME NEW f, NEW l, NEW s
  PROVE  /\ Names(f, s) \subseteq Handles
         /\ \A h : h \in Shown(f, l, s) <=> h \in Names(f, s) \/ (l[s] > 0 /\ h = NoHandle)
         /\ \A h \in Handles : h \in Shown(f, l, s) <=> h \in Names(f, s)
BY NoHandleIsNone DEF Shown, Names

LEMMA OpenedIsOpenedOf ==
  ASSUME NEW F, NEW f, NEW l \in Tally, FileTable(F), Exact(F, f, l)
  PROVE  /\ {Shown(f, l, s) : s \in DOMAIN F} = OpenedOf(f, l)
         /\ \A s \in Slot : s \in DOMAIN F <=> Shown(f, l, s) # {}
<1>1. \A s \in Slot : s \in DOMAIN F <=> Shown(f, l, s) # {}
  <2> SUFFICES ASSUME NEW s \in Slot PROVE s \in DOMAIN F <=> Shown(f, l, s) # {}
    OBVIOUS
  <2>1. /\ Cardinality(Names(f, s)) + l[s] = Count(F, s) /\ IsFiniteSet(Names(f, s))
        /\ Cardinality(Names(f, s)) \in Nat /\ l[s] \in Nat
    BY NamesFinite DEF Exact, Tally
  <2>2. Cardinality(Names(f, s)) = 0 <=> Names(f, s) = {}
    BY <2>1, FS_EmptySet
  <2>3. s \in DOMAIN F <=> Count(F, s) # 0
    BY CountIsNat DEF Count
  <2>4. Shown(f, l, s) = {} <=> Names(f, s) = {} /\ ~(l[s] > 0)
    BY DEF Shown
  <2> QED
    BY <2>1, <2>2, <2>3, <2>4
<1>2. DOMAIN F \subseteq Slot
  BY DEF FileTable
<1> QED
  BY <1>1, <1>2 DEF OpenedOf

LEMMA OpenedNow == IInv => Opened = OpenedOf(files, lost)
<1> SUFFICES ASSUME IInv PROVE Opened = OpenedOf(files, lost)
  OBVIOUS
<1>1. {Shown(files, lost, s) : s \in DOMAIN Files} = OpenedOf(files, lost)
  BY IInvGives, OpenedIsOpenedOf
<1>2. \A s : HeldBy(s) = Shown(files, lost, s)
  BY DEF HeldBy, NamedBy, Shown, Names
<1> QED
  BY <1>1, <1>2 DEF Opened

LEMMA OpenedNext == IInv' => Opened' = OpenedOf(files', lost')
<1> SUFFICES ASSUME IInv' PROVE Opened' = OpenedOf(files', lost')
  OBVIOUS
<1>1. FileTable(Files') /\ Exact(Files', files', lost') /\ lost' \in Tally
  BY DEF IInv, TablesAgree, TypeOK, CountsExact, FileTable, Tally, Exact, Names, NamedBy, Count,
         Handles
<1>2. {Shown(files', lost', s) : s \in DOMAIN Files'} = OpenedOf(files', lost')
  BY <1>1, OpenedIsOpenedOf
<1>3. Opened' = {Shown(files', lost', s) : s \in DOMAIN Files'}
  BY DEF Opened, HeldBy, NamedBy, Shown, Names, Handles, NoHandle
<1> QED
  BY <1>2, <1>3

LEMMA InOpenedOf ==
  ASSUME NEW f, NEW l, NEW F
  PROVE  F \in OpenedOf(f, l) <=> F # {} /\ \E s \in Slot : F = Shown(f, l, s)
BY DEF OpenedOf

\* A handle names one file.
LEMMA NamesDisjoint ==
  ASSUME NEW f, NEW s, NEW t, NEW h, h \in Names(f, s), h \in Names(f, t)
  PROVE  s = t
BY DEF Names

LEMMA HeldHandles ==
  ASSUME NEW f \in Tables, NEW l, NEW p \in Psps, NEW e \in Entry
  PROVE  /\ <<p, e>> \in Handles
         /\ <<p, e>> \in UNION OpenedOf(f, l) <=> f[p][e] \in Slot
<1>1. \A s \in Slot : <<p, e>> \in Shown(f, l, s) <=> f[p][e] = s
  BY ShownIs DEF Names, Handles
<1>2. ASSUME NEW F \in OpenedOf(f, l), <<p, e>> \in F PROVE f[p][e] \in Slot
  BY <1>1, <1>2, InOpenedOf
<1>3. ASSUME f[p][e] \in Slot PROVE <<p, e>> \in UNION OpenedOf(f, l)
  <2>1. <<p, e>> \in Shown(f, l, f[p][e])
    BY <1>1, <1>3
  <2>2. Shown(f, l, f[p][e]) \in OpenedOf(f, l)
    BY <1>3, <2>1 DEF OpenedOf
  <2> QED
    BY <2>1, <2>2
<1> QED
  BY <1>2, <1>3 DEF Handles

\* Names of the changed tables, as sets.
LEMMA NamesAfter ==
  ASSUME NEW f \in Tables, NEW p \in Psps, NEW e \in Entry, NEW v \in Value
  PROVE  /\ Names(With(f, p, e, v), v) = Names(f, v) \cup {<<p, e>>}
         /\ \A s : s # v => Names(With(f, p, e, v), s) = Names(f, s) \ {<<p, e>>}
<1>1. \A s, h : h \in Names(With(f, p, e, v), s) <=>
                  IF h = <<p, e>> THEN s = v ELSE h \in Names(f, s)
  BY SetOne
<1>2. Names(With(f, p, e, v), v) = Names(f, v) \cup {<<p, e>>}
  BY <1>1
<1>3. ASSUME NEW s, s # v
      PROVE  Names(With(f, p, e, v), s) = Names(f, s) \ {<<p, e>>}
  BY <1>1, <1>3
<1> QED
  BY <1>2, <1>3

LEMMA ShownAfter ==
  ASSUME NEW f \in Tables, NEW l, NEW p \in Psps, NEW e \in Entry, NEW v \in Value
  PROVE  /\ Shown(With(f, p, e, v), l, v) = Shown(f, l, v) \cup {<<p, e>>}
         /\ \A s : s # v => Shown(With(f, p, e, v), l, s) = Shown(f, l, s) \ {<<p, e>>}
<1>1. <<p, e>> # NoHandle
  BY NoHandleIsNone DEF NoHandle
<1> QED
  BY <1>1, NamesAfter DEF Shown

Losing(f, l, h) == {x \ {h} : x \in OpenedOf(f, l)} \ {{}}

LEMMA CloseLoses ==
  ASSUME NEW f \in Tables, NEW l, NEW p \in Psps, NEW e \in Entry
  PROVE  OpenedOf(With(f, p, e, None), l) = Losing(f, l, <<p, e>>)
<1> DEFINE g == With(f, p, e, None)
           h == <<p, e>>
<1>0. None \in Value /\ \A s \in Slot : s # None
  BY NoneIsNoFile DEF Value
<1>1. \A s \in Slot : Shown(g, l, s) = Shown(f, l, s) \ {h}
  BY <1>0, ShownAfter
<1> HIDE DEF g, h
<1>2. ASSUME NEW F \in OpenedOf(g, l) PROVE F \in Losing(f, l, h)
  <2>1. PICK s \in Slot : F = Shown(g, l, s) /\ F # {}
    BY <1>2, InOpenedOf
  <2>2. F = Shown(f, l, s) \ {h}
    BY <1>1, <2>1
  <2>3. Shown(f, l, s) # {}
    BY <2>1, <2>2
  <2>4. Shown(f, l, s) \in OpenedOf(f, l)
    BY <2>3 DEF OpenedOf
  <2> QED
    BY <2>1, <2>2, <2>4 DEF Losing
<1>3. ASSUME NEW F \in Losing(f, l, h) PROVE F \in OpenedOf(g, l)
  <2>1. PICK x \in OpenedOf(f, l) : F = x \ {h} /\ F # {}
    BY <1>3 DEF Losing
  <2>2. PICK s \in Slot : x = Shown(f, l, s)
    BY <2>1, InOpenedOf
  <2>3. F = Shown(g, l, s)
    BY <1>1, <2>1, <2>2
  <2> QED
    BY <2>1, <2>3 DEF OpenedOf
<1>4. OpenedOf(g, l) = Losing(f, l, h)
  BY <1>2, <1>3
<1> QED
  BY <1>4 DEF g, h

\* The file that an entry comes to name is new or has another handle, so that
\* it does not look like another file without handles.
Apart(f, l, s, h) == Shown(f, l, s) = {} \/ \E k \in Names(f, s) : k # h

\* An entry comes to name another file.
LEMMA ShareJoins ==
  ASSUME NEW f \in Tables, NEW l, NEW p \in Psps, NEW e \in Entry, NEW v \in Slot,
         Apart(f, l, v, <<p, e>>)
  PROVE  OpenedOf(With(f, p, e, v), l) =
           (Losing(f, l, <<p, e>>) \ {Shown(f, l, v) \ {<<p, e>>}})
             \cup {Shown(f, l, v) \cup {<<p, e>>}}
<1> DEFINE g == With(f, p, e, v)
           h == <<p, e>>
           old == Shown(f, l, v)
           new == old \cup {h}
<1>1. Shown(g, l, v) = new /\ \A s \in Slot : s # v => Shown(g, l, s) = Shown(f, l, s) \ {h}
  BY ShownAfter DEF Value
<1> HIDE DEF g, h
<1>2. new # {}
  OBVIOUS
<1>3. ASSUME NEW s \in Slot, s # v, Shown(f, l, s) \ {h} # {}
      PROVE  Shown(f, l, s) \ {h} # old \ {h}
  <2>1. CASE old = {}
    BY <1>3, <2>1
  <2>2. CASE \E k \in Names(f, v) : k # h
    <3>1. PICK k \in Names(f, v) : k # h
      BY <2>2
    <3>2. k \notin Names(f, s)
      BY <1>3, <3>1, NamesDisjoint
    <3>3. k \in Shown(f, l, v) /\ k \notin Shown(f, l, s)
      BY <3>1, <3>2, ShownIs
    <3> QED
      BY <3>1, <3>3
  <2> QED
    BY <2>1, <2>2 DEF h, Apart
<1>4. ASSUME NEW F \in OpenedOf(g, l) PROVE F \in (Losing(f, l, h) \ {old \ {h}}) \cup {new}
  <2>1. PICK s \in Slot : F = Shown(g, l, s) /\ F # {}
    BY <1>4, InOpenedOf
  <2>2. CASE s = v
    BY <1>1, <2>1, <2>2
  <2>3. CASE s # v
    <3>1. F = Shown(f, l, s) \ {h}
      BY <1>1, <2>1, <2>3
    <3>2. Shown(f, l, s) # {}
      BY <2>1, <3>1
    <3>3. Shown(f, l, s) \in OpenedOf(f, l)
      BY <3>2 DEF OpenedOf
    <3>4. F \in Losing(f, l, h)
      BY <2>1, <3>1, <3>3 DEF Losing
    <3>5. F # old \ {h}
      BY <1>3, <2>1, <2>3, <3>1
    <3> QED
      BY <3>4, <3>5
  <2> QED
    BY <2>2, <2>3
<1>5. new \in OpenedOf(g, l)
  BY <1>1, <1>2 DEF OpenedOf
<1>6. ASSUME NEW F \in Losing(f, l, h), F # old \ {h} PROVE F \in OpenedOf(g, l)
  <2>1. PICK x \in OpenedOf(f, l) : F = x \ {h} /\ F # {}
    BY <1>6 DEF Losing
  <2>2. PICK s \in Slot : x = Shown(f, l, s)
    BY <2>1, InOpenedOf
  <2>3. s # v
    BY <1>6, <2>1, <2>2
  <2>4. F = Shown(g, l, s)
    BY <1>1, <2>1, <2>2, <2>3
  <2> QED
    BY <2>1, <2>4 DEF OpenedOf
<1> HIDE DEF old, new
<1>7. OpenedOf(g, l) = (Losing(f, l, h) \ {old \ {h}}) \cup {new}
  BY <1>4, <1>5, <1>6
<1> QED
  BY <1>7 DEF g, h, old, new

\* The open files among some slots, and a file whose handles in one process
\* are given to another.
OpenedIn(f, l, S) == {Shown(f, l, s) : s \in S} \ {{}}
Passed(x, p, q) == x \cup {<<q, n>> : n \in {m \in Entry : <<p, m>> \in x}}

\* A table that was empty is filled with entries of another's.
LEMMA FillShares ==
  ASSUME NEW f \in Tables, NEW l, NEW p \in Psps, NEW q \in Psps, f[q] = Unused,
         NEW t \in Table, NEW S \in SUBSET Slot,
         \A s \in Slot : Where(t, s) = IF s \in S THEN Where(f[p], s) ELSE {}
  PROVE  OpenedOf(Put(f, q, t), l) =
           (OpenedOf(f, l) \ OpenedIn(f, l, S))
             \cup {Passed(x, p, q) : x \in OpenedIn(f, l, S)}
<1> DEFINE g == Put(f, q, t)
           kept == OpenedIn(f, l, S)
           rest == OpenedOf(f, l) \ kept
           given == {Passed(x, p, q) : x \in kept}
<1>1. ASSUME NEW s \in S PROVE Shown(g, l, s) = Passed(Shown(f, l, s), p, q)
  <2>1. \A h : h \in Shown(g, l, s) <=> h \in Shown(f, l, s) \/ h \in Row(q, Where(t, s))
    BY FillCounts DEF Shown
  <2>2. \A m \in Entry : <<p, m>> \in Shown(f, l, s) <=> m \in Where(t, s)
    BY ShownIs DEF Names, Handles, Where
  <2>3. {m \in Entry : <<p, m>> \in Shown(f, l, s)} = Where(t, s)
    BY <2>2 DEF Where
  <2>4. Passed(Shown(f, l, s), p, q) = Shown(f, l, s) \cup Row(q, Where(t, s))
    BY <2>3 DEF Passed, Row
  <2> QED
    BY <2>1, <2>4
<1>2. ASSUME NEW s \in Slot, s \notin S PROVE Shown(g, l, s) = Shown(f, l, s)
  <2>1. \A h : h \in Shown(g, l, s) <=> h \in Shown(f, l, s) \/ h \in Row(q, Where(t, s))
    BY FillCounts DEF Shown
  <2>2. Row(q, Where(t, s)) = {}
    BY <1>2 DEF Row
  <2> QED
    BY <2>1, <2>2
<1>3. ASSUME NEW s \in S PROVE Shown(f, l, s) = {} <=> Shown(g, l, s) = {}
  BY <1>1 DEF Passed
<1> HIDE DEF g
<1>4. ASSUME NEW x \in OpenedOf(g, l) PROVE x \in rest \cup given
  <2>1. PICK s \in Slot : x = Shown(g, l, s) /\ x # {}
    BY <1>4, InOpenedOf
  <2>2. CASE s \in S
    <3>1. Shown(f, l, s) \in kept
      BY <1>3, <2>1, <2>2 DEF OpenedIn
    <3> QED
      BY <1>1, <2>1, <2>2, <3>1
  <2>3. CASE s \notin S
    <3>1. x = Shown(f, l, s)
      BY <1>2, <2>1, <2>3
    <3>2. x \in OpenedOf(f, l)
      BY <2>1, <3>1, InOpenedOf
    \* Another file that was kept looks the same only when both have no handles.
    <3>3. ASSUME x \in kept PROVE x \in given
      <4>1. PICK r \in S : x = Shown(f, l, r)
        BY <3>3 DEF OpenedIn
      <4>2. ASSUME NEW h \in x PROVE h \notin Handles
        <5>1. h \in Handles => h \in Names(f, s) /\ h \in Names(f, r)
          BY <3>1, <4>1, <4>2, ShownIs
        <5> QED
          BY <2>3, <5>1, NamesDisjoint
      <4>3. Passed(x, p, q) = x
        BY <4>2 DEF Passed, Handles
      <4> QED
        BY <3>3, <4>3
    <3> QED
      BY <3>2, <3>3
  <2> QED
    BY <2>2, <2>3
<1>5. ASSUME NEW x \in rest PROVE x \in OpenedOf(g, l)
  <2>1. PICK s \in Slot : x = Shown(f, l, s) /\ x # {}
    BY <1>5, InOpenedOf
  <2>2. s \notin S
    BY <1>5, <2>1 DEF OpenedIn
  <2> QED
    BY <1>2, <2>1, <2>2, InOpenedOf
<1>6. ASSUME NEW x \in given PROVE x \in OpenedOf(g, l)
  <2>1. PICK y \in kept : x = Passed(y, p, q)
    BY <1>6
  <2>2. PICK s \in S : y = Shown(f, l, s) /\ y # {}
    BY <2>1 DEF OpenedIn
  <2>3. x = Shown(g, l, s) /\ x # {}
    BY <1>1, <1>3, <2>1, <2>2
  <2> QED
    BY <2>3, InOpenedOf
<1> HIDE DEF rest, given
<1>7. OpenedOf(g, l) = rest \cup given
  BY <1>4, <1>5, <1>6
<1> QED
  BY <1>7 DEF g, rest, given

\* A table is emptied, and each of its files loses the handles it had there.
LEMMA EmptyLoses ==
  ASSUME NEW f \in Tables, NEW l, NEW p \in Psps
  PROVE  OpenedOf(Put(f, p, Unused), l) =
           {x \ {h \in Handles \cap UNION OpenedOf(f, l) : h[1] = p} : x \in OpenedOf(f, l)} \ {{}}
<1> DEFINE g == Put(f, p, Unused)
           gone == {h \in Handles \cap UNION OpenedOf(f, l) : h[1] = p}
           left == {x \ gone : x \in OpenedOf(f, l)} \ {{}}
<1>1. ASSUME NEW s \in Slot PROVE Shown(g, l, s) = Shown(f, l, s) \ gone
  <2>1. \A h : h \in Shown(g, l, s) <=> h \in Shown(f, l, s) /\ h \notin Row(p, Entry)
    <3>1. NoHandle \notin Row(p, Entry)
      BY NoHandleIsNone DEF Row, Handles
    <3> QED
      BY <3>1, EmptyCounts DEF Shown
  <2>2. ASSUME NEW h \in Shown(f, l, s) PROVE h \in Row(p, Entry) <=> h \in gone
    <3>1. h \in UNION OpenedOf(f, l)
      BY <2>2, InOpenedOf
    <3>2. h \in Row(p, Entry) <=> h \in Handles /\ h[1] = p
      BY DEF Row, Handles
    <3> QED
      BY <3>1, <3>2
  <2> HIDE DEF gone
  <2> QED
    BY <2>1, <2>2
<1> HIDE DEF g, gone
<1>2. ASSUME NEW x \in OpenedOf(g, l) PROVE x \in left
  <2>1. PICK s \in Slot : x = Shown(g, l, s) /\ x # {}
    BY <1>2, InOpenedOf
  <2>2. x = Shown(f, l, s) \ gone
    BY <1>1, <2>1
  <2>3. Shown(f, l, s) # {}
    BY <2>1, <2>2
  <2>4. Shown(f, l, s) \in OpenedOf(f, l)
    BY <2>3, InOpenedOf
  <2> QED
    BY <2>1, <2>2, <2>4
<1>3. ASSUME NEW x \in left PROVE x \in OpenedOf(g, l)
  <2>1. PICK y \in OpenedOf(f, l) : x = y \ gone /\ x # {}
    BY <1>3
  <2>2. PICK s \in Slot : y = Shown(f, l, s)
    BY <2>1, InOpenedOf
  <2>3. x = Shown(g, l, s)
    BY <1>1, <2>1, <2>2
  <2> QED
    BY <2>1, <2>3, InOpenedOf
<1> HIDE DEF left
<1>4. OpenedOf(g, l) = left
  BY <1>2, <1>3
<1> QED
  BY <1>4 DEF g, gone, left

-----------------------------------------------------------------------------
(* What each step of the tables is for the sets of handles.                *)

\* A step of the process that runs on one of its entries.
LEMMA OneEntry ==
  ASSUME IInv, IInv', NEW e \in Entry, NEW v \in Value,
         files' = SetFileHandle(files, e, v), lost' = lost
  PROVE  /\ Opened = OpenedOf(files, lost)
         /\ Opened' = OpenedOf(With(files, psp, e, v), lost)
         /\ files \in Tables /\ psp \in Psps /\ <<psp, e>> \in Handles
<1>1. files' = With(files, psp, e, v)
  BY DEF SetFileHandle, With
<1>2. files \in Tables /\ psp \in Psps
  BY IInvGives
<1> QED
  BY <1>1, <1>2, OpenedNow, OpenedNext DEF Handles

LEMMA OpenMaps ==
  \A inherit \in BOOLEAN : IInv /\ IInv' /\ Open(inherit) => Sharing!Next
<1> SUFFICES ASSUME NEW inherit \in BOOLEAN, IInv, IInv', Open(inherit) PROVE Sharing!Next
  OBVIOUS
<1> DEFINE s == First(FreeSlots)
           e == First(FreeEntries(psp))
           h == <<psp, e>>
<1>1. /\ files' = SetFileHandle(files, e, s) /\ lost' = lost
      /\ s \in Slot \ DOMAIN Files /\ e \in Entry /\ files[psp][e] = None
  BY FirstSlot, FirstEntry DEF Open
<1> HIDE DEF s, e
<1>2. /\ Opened = OpenedOf(files, lost)
      /\ Opened' = OpenedOf(With(files, psp, e, s), lost)
      /\ files \in Tables /\ psp \in Psps /\ h \in Handles
  BY <1>1, OneEntry DEF Value
<1>3. h \notin UNION Opened
  BY <1>1, <1>2, HeldHandles, NoneIsNoFile
<1>4. Shown(files, lost, s) = {}
  BY <1>1, IInvGives, OpenedIsOpenedOf
<1>5. Opened' = (Losing(files, lost, h) \ {{} \ {h}}) \cup {{} \cup {h}}
  <2>1. OpenedOf(With(files, psp, e, s), lost) =
          (Losing(files, lost, h) \ {Shown(files, lost, s) \ {h}})
            \cup {Shown(files, lost, s) \cup {h}}
    <3>1. s \in Slot /\ e \in Entry /\ files \in Tables /\ psp \in Psps
      BY <1>1, <1>2
    <3>2. Apart(files, lost, s, h)
      BY <1>4 DEF Apart
    <3> QED
      BY <3>1, <3>2, ShareJoins
  <2> HIDE DEF h
  <2> QED
    BY <1>2, <1>4, <2>1, Zenon
<1> HIDE DEF h
<1>6. Losing(files, lost, h) = Opened
  <2>1. ASSUME NEW x \in Opened PROVE x \ {h} = x /\ x # {}
    BY <1>2, <1>3, InOpenedOf
  <2>2. ASSUME NEW x \in Opened PROVE x \in Losing(files, lost, h)
    BY <1>2, <2>1 DEF Losing
  <2>3. ASSUME NEW x \in Losing(files, lost, h) PROVE x \in Opened
    <3>1. PICK y \in Opened : x = y \ {h}
      BY <1>2 DEF Losing
    <3> QED
      BY <2>1, <3>1
  <2> QED
    BY <2>2, <2>3
<1>7. {} \notin Opened
  BY <1>2 DEF OpenedOf
<1>8. Opened' = Opened \cup {{h}}
  BY <1>5, <1>6, <1>7
<1> QED
  BY <1>2, <1>3, <1>8 DEF Sharing!Next, Sharing!Open, Sharing!Held, Sharing!Handle, Handles, Opened

LEMMA CloseMaps == \A e \in Entry : IInv /\ IInv' /\ Close(e) => Sharing!Next
<1> SUFFICES ASSUME NEW e \in Entry, IInv, IInv', Close(e) PROVE Sharing!Next
  OBVIOUS
<1> DEFINE h == <<psp, e>>
<1>1. files' = SetFileHandle(files, e, None) /\ lost' = lost /\ files[psp][e] \in Slot
  BY IInvGives DEF Close, RealHandle, FileTable
<1>2. /\ Opened = OpenedOf(files, lost)
      /\ Opened' = OpenedOf(With(files, psp, e, None), lost)
      /\ files \in Tables /\ psp \in Psps /\ h \in Handles
  BY <1>1, OneEntry DEF Value
<1>3. h \in UNION Opened
  BY <1>1, <1>2, HeldHandles
<1>4. Opened' = Losing(files, lost, h)
  BY <1>2, CloseLoses
<1> HIDE DEF h
<1>5. Opened' = {x \ {h} : x \in Opened} \ {{}}
  BY <1>2, <1>4 DEF Losing
<1> QED
  BY <1>2, <1>3, <1>5
     DEF Sharing!Next, Sharing!Close, Sharing!Without, Sharing!Held, Sharing!Handle, Handles, Opened

\* Duplicate and ForceDuplicate: an entry comes to name what another names.
LEMMA Joins ==
  ASSUME IInv, IInv', NEW e \in Entry, NEW new \in Entry, RealHandle(e) \in Slot,
         e # new, files' = SetFileHandle(files, new, RealHandle(e)), lost' = lost
  PROVE  Sharing!Next
<1> DEFINE h == <<psp, new>>
           v == files[psp][e]
           x == Shown(files, lost, v)
<1>1. files' = SetFileHandle(files, new, v) /\ v \in Slot /\ e # new /\ lost' = lost
  BY DEF RealHandle
<1>2. /\ Opened = OpenedOf(files, lost)
      /\ Opened' = OpenedOf(With(files, psp, new, v), lost)
      /\ files \in Tables /\ psp \in Psps /\ h \in Handles
  BY <1>1, OneEntry DEF Value
<1>3. /\ <<psp, e>> \in Names(files, v) /\ <<psp, e>> # h
      /\ <<psp, e>> \in x /\ <<psp, e>> \in Handles
  BY <1>2 DEF Names, Handles, Shown
<1> HIDE DEF v
<1>4. x \in Opened
  BY <1>1, <1>2, <1>3, InOpenedOf
<1>5. Opened' = (Losing(files, lost, h) \ {x \ {h}}) \cup {x \cup {h}}
  <2>1. OpenedOf(With(files, psp, new, v), lost) =
          (Losing(files, lost, h) \ {x \ {h}}) \cup {x \cup {h}}
    <3>1. Apart(files, lost, v, h)
      BY <1>3 DEF Apart
    <3> QED
      BY <1>1, <1>2, <3>1, ShareJoins
  <2> HIDE DEF h, x
  <2> QED
    BY <1>2, <2>1, Zenon
<1> HIDE DEF h, x
<1>6. Opened' = (({y \ {h} : y \in Opened} \ {{}}) \ {x \ {h}}) \cup {x \cup {h}}
  BY <1>2, <1>5 DEF Losing
<1>7. x \cap Handles # {}
  BY <1>3
<1> QED
  BY <1>2, <1>4, <1>6, <1>7
     DEF Sharing!Next, Sharing!Share, Sharing!Without, Sharing!Handle, Handles, Opened

\* A file is given to nobody, if it was not before.
LEMMA BehindMaps ==
  \A e \in Entry :
    IInv /\ IInv' /\ ForceDuplicateBehind(e) => Sharing!Next \/ UNCHANGED Opened
<1> SUFFICES ASSUME NEW e \in Entry, IInv, IInv', ForceDuplicateBehind(e)
             PROVE  Sharing!Next \/ UNCHANGED Opened
  OBVIOUS
<1> DEFINE v == files[psp][e]
           x == Shown(files, lost, v)
           new == x \cup {NoHandle}
<1>1. /\ v \in Slot /\ files' = files /\ lost' = [lost EXCEPT ![v] = @ + 1]
  BY IInvGives DEF ForceDuplicateBehind, RealHandle, IsOpen, FileTable
<1>2. /\ Opened = OpenedOf(files, lost) /\ Opened' = OpenedOf(files, lost')
      /\ lost \in Tally /\ psp \in Psps
  BY <1>1, OpenedNow, OpenedNext, IInvGives
<1>3. <<psp, e>> \in Names(files, v) /\ <<psp, e>> \in x \cap Handles
  BY <1>2 DEF Names, Handles, Shown
<1> HIDE DEF v
<1>4. x \in Opened
  BY <1>1, <1>2, <1>3, InOpenedOf
<1>5. /\ Shown(files, lost', v) = new
      /\ \A s \in Slot : s # v => Shown(files, lost', s) = Shown(files, lost, s)
  <2>1. /\ lost'[v] > 0 /\ \A s \in Slot : s # v => lost'[s] = lost[s]
    BY <1>1, <1>2 DEF Tally
  <2> QED
    BY <2>1 DEF Shown
<1>6. ASSUME NEW s \in Slot, s # v PROVE Shown(files, lost, s) # x
  <2>1. <<psp, e>> \notin Names(files, s)
    BY <1>3, <1>6, NamesDisjoint
  <2> QED
    BY <1>3, <2>1, ShownIs
<1> HIDE DEF x, new
<1>7. Opened' = (Opened \ {x}) \cup {new}
  <2>1. ASSUME NEW y \in Opened' PROVE y \in (Opened \ {x}) \cup {new}
    <3>1. PICK s \in Slot : y = Shown(files, lost', s) /\ y # {}
      BY <1>2, <2>1, InOpenedOf
    <3>2. CASE s = v
      BY <1>5, <3>1, <3>2
    <3>3. CASE s # v
      BY <1>2, <1>5, <1>6, <3>1, <3>3, InOpenedOf
    <3> QED
      BY <3>2, <3>3
  <2>2. ASSUME NEW y \in Opened, y # x PROVE y \in Opened'
    <3>1. PICK s \in Slot : y = Shown(files, lost, s) /\ y # {}
      BY <1>2, <2>2, InOpenedOf
    <3>2. s # v
      BY <2>2, <3>1 DEF x
    <3> QED
      BY <1>2, <1>5, <3>1, <3>2, InOpenedOf
  <2>3. new \in Opened'
    <3>1. new # {}
      BY DEF new
    <3> QED
      BY <1>1, <1>2, <1>5, <3>1, InOpenedOf
  <2> QED
    BY <2>1, <2>2, <2>3
<1> QED
  BY <1>3, <1>4, <1>7
     DEF Sharing!Next, Sharing!Lose, Sharing!Handle, Handles, Opened, new

LEMMA ChildMaps == \A child \in Psps : IInv /\ IInv' /\ ChildPSP(child) => Sharing!Next
<1> SUFFICES ASSUME NEW child \in Psps, IInv, IInv', ChildPSP(child) PROVE Sharing!Next
  OBVIOUS
<1> DEFINE t == [e \in Entry |-> IF Inherits(e) THEN RealHandle(e) ELSE None]
           S == {s \in DOMAIN Files : Files[s].inherit}
           kept == OpenedIn(files, lost, S)
<1>1. /\ FileTable(Files) /\ files \in Tables /\ psp \in Psps /\ files[child] = Unused
      /\ child \notin live
  BY IInvGives DEF ChildPSP
<1>2. files' = Put(files, child, t)
  BY DEF ChildPSP, Put
<1>3. t \in Table
  BY <1>1 DEF Table, Inherits, FileTable
<1>4. \A s \in Slot : Where(t, s) = IF s \in S THEN Where(files[psp], s) ELSE {}
  BY NoneIsNoFile DEF Inherits, RealHandle, Where
<1>5. S \in SUBSET Slot
  BY <1>1 DEF FileTable
<1>6. Opened = OpenedOf(files, lost) /\ Opened' = OpenedOf(files', lost)
  BY OpenedNow, OpenedNext DEF ChildPSP
<1> HIDE DEF t, S
<1>7. Opened' = (Opened \ kept) \cup {Passed(x, psp, child) : x \in kept}
  <2> HIDE DEF kept
  <2>1. OpenedOf(Put(files, child, t), lost) =
          (OpenedOf(files, lost) \ kept) \cup {Passed(x, psp, child) : x \in kept}
    <3>1. OpenedOf(Put(files, child, t), lost) =
            (OpenedOf(files, lost) \ OpenedIn(files, lost, S))
              \cup {Passed(x, psp, child) : x \in OpenedIn(files, lost, S)}
      BY <1>1, <1>3, <1>4, <1>5, FillShares
    <3> QED
      BY <3>1, Zenon DEF kept
  <2> QED
    BY <1>2, <1>6, <2>1, Zenon
<1>8. kept \in SUBSET Opened
  BY <1>5, <1>6 DEF OpenedOf, OpenedIn
<1>9. \A h \in Handles \cap UNION Opened : h[1] # child
  <2> SUFFICES ASSUME NEW x \in Opened, NEW h \in x, h \in Handles PROVE h[1] # child
    OBVIOUS
  <2>1. PICK s \in Slot : x = Shown(files, lost, s)
    BY <1>6, InOpenedOf
  <2>2. h \in Names(files, s)
    BY <2>1, ShownIs
  <2> QED
    BY <1>1, <2>2, NoneIsNoFile DEF Names, Handles, Unused
<1> HIDE DEF kept
<1>10. Sharing!Inherit(psp, child)
  BY <1>7, <1>8, <1>9 
     DEF Sharing!Inherit, Sharing!Inherited, Sharing!Held, Sharing!Handle, Handles, Passed, Opened
<1> QED
  BY <1>1, <1>10 DEF Sharing!Next

LEMMA TerminateMaps ==
  \A tsr \in BOOLEAN : IInv /\ IInv' /\ Terminate(tsr) => Sharing!Next \/ UNCHANGED Opened
<1> SUFFICES ASSUME NEW tsr \in BOOLEAN, IInv, IInv', Terminate(tsr)
             PROVE Sharing!Next \/ UNCHANGED Opened
  OBVIOUS
<1>1. files \in Tables /\ psp \in Psps
  BY IInvGives
<1>2. Opened = OpenedOf(files, lost) /\ Opened' = OpenedOf(files', lost)
  BY OpenedNow, OpenedNext DEF Terminate
<1>3. CASE tsr
  BY <1>2, <1>3 DEF Terminate
<1>4. CASE ~tsr
  <2>1. files' = Put(files, psp, Unused)
    BY <1>4 DEF Terminate, Put
  <2>2. Opened' = {x \ {h \in Handles \cap UNION Opened : h[1] = psp} : x \in Opened} \ {{}}
    BY <1>1, <1>2, <2>1, EmptyLoses
  <2>3. Sharing!Leave(psp)
    BY <2>2
       DEF Sharing!Leave, Sharing!Without, Sharing!Held, Sharing!Handle, Handles, Opened
  <2> QED
    BY <1>1, <2>3 DEF Sharing!Next
<1> QED
  BY <1>3, <1>4

LEMMA InitMaps == Init => Sharing!Init
BY DEF Init, Sharing!Init

LEMMA StepMaps == IInv /\ IInv' /\ [Next]_vars => [Sharing!Next]_Opened
<1> SUFFICES ASSUME IInv, IInv', [Next]_vars PROVE Sharing!Next \/ UNCHANGED Opened
  OBVIOUS
<1>1. CASE \E inherit \in BOOLEAN : Open(inherit)
  BY <1>1, OpenMaps
<1>2. CASE \E e \in Entry : Close(e)
  BY <1>2, CloseMaps
<1>3. CASE \E e \in Entry : Duplicate(e)
  <2>1. PICK e \in Entry : Duplicate(e)
    BY <1>3
  <2>2. /\ files' = SetFileHandle(files, First(FreeEntries(psp)), RealHandle(e))
        /\ RealHandle(e) \in Slot /\ First(FreeEntries(psp)) \in Entry
        /\ e # First(FreeEntries(psp)) /\ lost' = lost
    BY <2>1, IInvGives, FirstEntry, NoneIsNoFile DEF Duplicate, IsOpen, FileTable, RealHandle
  <2> QED
    BY <2>2, Joins
<1>4. CASE \E e, new \in Entry : ForceDuplicate(e, new)
  <2>1. PICK e \in Entry, new \in Entry : ForceDuplicate(e, new)
    BY <1>4
  <2>2. /\ files' = SetFileHandle(files, new, RealHandle(e)) /\ RealHandle(e) \in Slot
        /\ e # new /\ lost' = lost
    BY <2>1, IInvGives DEF ForceDuplicate, IsOpen, FileTable
  <2> QED
    BY <2>2, Joins
<1>5. CASE \E p \in Psps : ChildPSP(p) \/ Execute(p)
  BY <1>5, ChildMaps DEF Execute
<1>6. CASE \E tsr \in BOOLEAN : Terminate(tsr)
  BY <1>6, TerminateMaps
<1>7. CASE \E e \in Entry : ForceDuplicateBehind(e)
  BY <1>7, BehindMaps
<1>8. CASE UNCHANGED vars
  BY <1>8, OpenedNow, OpenedNext DEF vars
<1> QED
  BY <1>1, <1>2, <1>3, <1>4, <1>5, <1>6, <1>7, <1>8 DEF Next

\* For any number of files, handles and processes, what the two tables do is
\* what open files promise: a file is the set of the handles that name it, a
\* child is given the same files, only a process's own steps take handles from
\* it, and what was given to nobody stays open.
THEOREM Implements == Spec => ImplementsOpenFiles
<1>1. Spec => []IInv
  BY InitSound, NextSound, PTL DEF Spec
<1>2. Init => Sharing!Init
  BY InitMaps
<1>3. IInv /\ IInv' /\ [Next]_vars => [Sharing!Next]_Opened
  BY StepMaps
<1> QED
  BY <1>1, <1>2, <1>3, PTL DEF Spec, ImplementsOpenFiles, Sharing!Spec, Opened

=============================================================================
