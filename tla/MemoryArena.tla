---------------------------- MODULE MemoryArena ----------------------------
(***************************************************************************)
(* What a memory arena promises the programs that allocate from it,        *)
(* without chains, headers or free blocks: a set of reservations, none of  *)
(* which ever overlaps another, and that only calls about it change.       *)
(***************************************************************************)
EXTENDS Integers

CONSTANTS ArenaOwners, ArenaSegments, ArenaSizes

VARIABLE held  \* segment of a reservation -> [owner, size]

Reservation == [owner : ArenaOwners, size : ArenaSizes]

\* A reservation is its header and what it holds: none reaches the next.
Apart(f) == \A h, g \in DOMAIN f : h < g => h + f[h].size < g

TypeOK == held \in [DOMAIN held -> Reservation] /\ DOMAIN held \subseteq ArenaSegments

Init == TypeOK /\ Apart(held)

\* The places where something changes.
Touched ==
  {h \in DOMAIN held \cup DOMAIN held' :
     h \in DOMAIN held \cap DOMAIN held' => held'[h] # held[h]}

\* A place nobody holds becomes somebody's.
Reserve(h) ==
  /\ h \in ArenaSegments \ DOMAIN held
  /\ held'[h] \in Reservation /\ Apart(held')

\* One reservation grows, shrinks or changes hands.
Alter(h) ==
  /\ h \in DOMAIN held \cap DOMAIN held'
  /\ held'[h] \in Reservation /\ Apart(held')

\* One reservation is given up, or all of one owner.
Release(h) == h \notin DOMAIN held'

ReleaseAll(p) ==
  held' = [g \in {f \in DOMAIN held : held[f].owner # p} |-> held[g]]

Next ==
  \/ \E touched \in {Touched} : \E h \in touched :
       touched = {h} /\ (Reserve(h) \/ Alter(h) \/ Release(h))
  \/ \E p \in ArenaOwners : ReleaseAll(p)

Spec == Init /\ [][Next]_held

=============================================================================
