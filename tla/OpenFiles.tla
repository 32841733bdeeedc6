---------------------------- MODULE OpenFiles ----------------------------
(***************************************************************************)
(* What open files promise the programs that hold them, without tables or  *)
(* counts: an open file is the set of the handles that name it, in one     *)
(* process or in several. It is open as long as one handle names it, and a *)
(* handle goes on naming it until its own process lets it go. Only a file  *)
(* that was given to nobody stays open without handles.                    *)
(***************************************************************************)
CONSTANTS
  Holders, Numbers,  \* who has handles, and their numbers
  Nobody             \* in place of a handle, for what is never let go

VARIABLE opened  \* the open files, each the set of its handles

Handle == Holders \X Numbers

Held == Handle \cap UNION opened

TypeOK == opened \subseteq SUBSET (Handle \cup {Nobody})

Init == opened = {}

\* The files without the handles of a set: one that loses its last is closed.
Without(handles) == {f \ handles : f \in opened} \ {{}}

Open(h) == h \notin Held /\ opened' = opened \cup {{h}}

Close(h) == h \in Held /\ opened' = Without({h})

\* Another handle for an open file, taken from the file it named before.
Share(f, h) ==
  /\ f \in opened /\ f \cap Handle # {}
  /\ opened' = ((Without({h})) \ {f \ {h}}) \cup {f \cup {h}}

\* A file that has handles is given to nobody.
Lose(f) ==
  /\ f \in opened /\ f \cap Handle # {}
  /\ opened' = (opened \ {f}) \cup {f \cup {Nobody}}

\* A new holder is given the handles that another has for some of its files,
\* under the same numbers.
Inherited(f, p, q) == f \cup {<<q, n>> : n \in {m \in Numbers : <<p, m>> \in f}}

Inherit(p, q) ==
  /\ \A h \in Held : h[1] # q
  /\ \E kept \in SUBSET opened :
       opened' = (opened \ kept) \cup {Inherited(f, p, q) : f \in kept}

\* One holder gives up everything it holds.
Leave(p) == opened' = Without({h \in Held : h[1] = p})

Next ==
  \/ \E f \in opened : Lose(f)
  \/ \E h \in Handle : Open(h) \/ Close(h) \/ \E f \in opened : Share(f, h)
  \/ \E p \in Holders : Leave(p) \/ \E q \in Holders : Inherit(p, q)

Spec == Init /\ [][Next]_opened

=============================================================================
