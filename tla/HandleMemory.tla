---------------------------- MODULE HandleMemory ----------------------------
(***************************************************************************)
(* What extended and expanded memory promise a program: memory is known by *)
(* its handle, not by the pages it lies in.  A block keeps its contents,   *)
(* the part that is left of it when its size changes, until the program    *)
(* writes to this very block or gives it back, whatever happens to the     *)
(* other blocks and wherever the block is moved.                           *)
(***************************************************************************)
EXTENDS Integers, Sequences

CONSTANTS
  Handles,
  None       \* what a handle that is not in use stands for

VARIABLE block   \* handle -> the contents of its pages, in order, or None

Used(h) == block[h] # None

Get(h) == ~Used(h) /\ block'[h] # None

GiveBack(h) == Used(h) /\ block'[h] = None

\* A block that grows has new pages with whatever contents at its end.
Resize(h) ==
  /\ Used(h) /\ block'[h] # None
  /\ \A i \in DOMAIN block[h] \cap DOMAIN block'[h] : block'[h][i] = block[h][i]

Write(h) ==
  /\ Used(h) /\ block'[h] # None
  /\ \E i \in DOMAIN block[h] :
       block'[h] = [block[h] EXCEPT ![i] = block'[h][i]]

\* Two pages change places, of two blocks or of one.
Exchange(g, h) ==
  /\ Used(g) /\ Used(h)
  /\ \E i \in DOMAIN block[g], j \in DOMAIN block[h] :
     \E half \in {[block EXCEPT ![g] = [@ EXCEPT ![i] = block[h][j]]]} :
       block' = [half EXCEPT ![h] = [@ EXCEPT ![j] = block[g][i]]]

Changed == {h \in Handles : block'[h] # block[h]}

HandleNext ==
  \E changed \in {Changed} :
    \/ \E h \in changed :
         changed = {h} /\ (Get(h) \/ GiveBack(h) \/ Resize(h) \/ Write(h))
    \/ \E g, h \in changed :
         changed = {g, h} /\ Exchange(g, h)

HandleSpec == [][HandleNext]_block

=============================================================================
